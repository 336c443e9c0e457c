------------------------------ MODULE Oku6502 ------------------------------
(***************************************************************************)
(* The 6502 chip of yatm_oku (ext/oku_6502.c) as operators on a machine: a *)
(* record of the chip's registers, its operand and state, the memory it is *)
(* given and "status", the code a step returns.                            *)
(*                                                                         *)
(* Bytes are kept as 0..255 and words as 0..65535.  The source declares    *)
(* memory and the registers a, x, y and sr as int8_t: wherever it computes *)
(* with one, it is S8 of the byte here.  "operand" is an int32_t and may   *)
(* be negative.  The cycle counter and the address bus are left out: the   *)
(* chip writes them and never reads them.                                  *)
(*                                                                         *)
(* Memory is the function of the bytes that were ever written; the others  *)
(* are 0, as the allocation leaves them.                                   *)
(***************************************************************************)
EXTENDS Opcodes6502, Integers

CONSTANT MemSize    \* the bytes of memory the chip is given

(* OKU:new refuses other sizes.                                            *)
ASSUME MemSizeAssumption == MemSize \in Nat /\ 4 <= MemSize /\ MemSize <= 1048576

OK_CODE       == 0
INVALID_CODE  == 1
HANG_CODE     == 5
STARTUP_CODE  == 7
SEGFAULT_CODE == 127

(* The low four bits of "state"; the high four are the stage of a reset.   *)
CPU_STATE_RESET == 1
CPU_STATE_RUN   == 2
CPU_STATE_HANG  == 3

RESET_VECTOR_PTR == \hFFFC
BREAK_VECTOR_PTR == \hFFFE

-----------------------------------------------------------------------------
(* Bytes and words.                                                        *)

Byte     == 0..255
Word     == {n \in Nat : n < 65536}
Operands == {n \in Int : -32768 <= n /\ n < 65536}    \* what an int32_t operand gets to be

S8(b)  == IF b < 128 THEN b ELSE b - 256
S16(w) == IF w < 32768 THEN w ELSE w - 65536
U8(n)  == n % 256
U16(n) == n % 65536

(* (hi << 8) + lo, the bytes as they are read, signed; and (hi << 8) | lo. *)
SumWord(hi, lo) == U16(256 * S8(hi) + S8(lo))
OrWord(hi, lo)  == IF lo < 128 THEN 256 * hi + lo ELSE U16(S8(lo))

Bit(b, i) == (b \div 2^i) % 2
One(p)    == IF p THEN 1 ELSE 0

Bitwise8(Op(_, _), b, c) ==
  LET bit(i) == Op(Bit(b, i), Bit(c, i)) * 2^i
  IN  bit(0) + bit(1) + bit(2) + bit(3) + bit(4) + bit(5) + bit(6) + bit(7)

And(b, c) == Bitwise8(LAMBDA i, j : i * j, b, c)
Or(b, c)  == Bitwise8(LAMBDA i, j : i + j - i * j, b, c)
Xor(b, c) == Bitwise8(LAMBDA i, j : (i + j) % 2, b, c)

(* Bit i of b becomes v: the WBIT macros.                                  *)
WithBit(b, i, v) == b + (v - Bit(b, i)) * 2^i

-----------------------------------------------------------------------------
(* Memory.  Every access leaves its own status: the last one counts.       *)

InMemory(i) == i \in 0..(MemSize - 1)

ByteAt(m, i) == IF InMemory(i) /\ i \in DOMAIN m.mem THEN m.mem[i] ELSE 0

Access(m, i) == [m EXCEPT !.status = IF InMemory(i) THEN OK_CODE ELSE SEGFAULT_CODE]

With(mem, i, v) == [j \in DOMAIN mem \union {i} |-> IF j = i THEN v ELSE mem[j]]

Write(m, i, v) ==
  [Access(m, i) EXCEPT !.mem = IF InMemory(i) THEN With(@, i, v) ELSE @]

(* oku_6502_mem_read_i16: 0 when either byte is outside.                   *)
Int16At(m, i) ==
  IF InMemory(i) /\ InMemory(i + 1) THEN S16(OrWord(ByteAt(m, i + 1), ByteAt(m, i))) ELSE 0

(* mutant: the stack pointer runs out of its byte                          *)
Push_NoWrap(m, v) == [Write(m, m.sp + 256, v) EXCEPT !.sp = @ - 1]

(* mutant: the stack is put into the zero page                             *)
Push_PageZero(m, v) == [Write(m, m.sp, v) EXCEPT !.sp = U8(@ - 1)]

Push(m, v)   == [Write(m, m.sp + 256, v) EXCEPT !.sp = U8(@ - 1)]
ReadStack(m) == Access(m, m.sp + 256)
Pop(m)       == LET n == [m EXCEPT !.sp = U8(@ + 1)] IN Access(n, n.sp + 256)
Popped(m)    == ByteAt(m, m.sp + 256)   \* what Pop read, in the machine it leaves

(* mutant: low byte first, as words lie in memory                          *)
PushPC_LowFirst(m) == Push(Push(m, m.pc % 256), m.pc \div 256)

PushPC(m) == Push(Push(m, m.pc \div 256), m.pc % 256)

PopPC(m) ==
  LET lo == Pop(m)
      hi == Pop(lo)
  IN  [hi EXCEPT !.pc = OrWord(Popped(hi), Popped(lo))]

-----------------------------------------------------------------------------
(* The operand functions: they leave the operand, and the program counter  *)
(* after the bytes of the instruction.                                     *)

AtPC(m)    == ByteAt(m, m.pc)
NextPC(m)  == [Access(m, m.pc) EXCEPT !.pc = U16(@ + 1)]     \* read, increment
WithOperand(m, n) == [m EXCEPT !.operand = n]

Immediate(m) == [m EXCEPT !.operand = m.pc, !.pc = U16(@ + 1)]

Absolute(m) ==
  LET first == Access(m, m.pc)
      read  == IF first.status = OK_CODE THEN Access(m, m.pc + 1) ELSE first
  IN  [read EXCEPT !.operand = Int16At(m, m.pc), !.pc = U16(@ + 2)]

(* The read at a "dirty" address is for a sum of two int8_t of at least    *)
(* 0x100 and never happens.                                                *)
AbsoluteIndexed(m, index) ==
  LET hi == NextPC(m)
  IN  WithOperand(NextPC(hi), U16(SumWord(AtPC(hi), AtPC(m)) + S8(index)))

Indirect(m) ==
  LET hi == NextPC(m)
      a  == S16(OrWord(AtPC(hi), AtPC(m)))
  IN  WithOperand(Access(NextPC(hi), a + 1), SumWord(ByteAt(m, a + 1), ByteAt(m, a)))

(* mutant: the high byte is read across the end of the zero page           *)
XIndirect_CrossesPage(m) ==
  LET ptr == U8(AtPC(m) + m.x)
  IN  WithOperand(Access(NextPC(m), ptr + 1), SumWord(ByteAt(m, ptr + 1), ByteAt(m, ptr)))

XIndirect(m) ==
  LET ptr  == U8(AtPC(m) + m.x)
      next == U8(ptr + 1)
  IN  WithOperand(Access(NextPC(m), next), SumWord(ByteAt(m, next), ByteAt(m, ptr)))

(* The pointer is an int8_t here: its low byte is outside when negative.   *)
IndirectY(m) ==
  LET ptr  == S8(AtPC(m))
      next == U8(ptr + 1)
  IN  WithOperand(Access(NextPC(m), next),
                  U16(SumWord(ByteAt(m, next), ByteAt(m, ptr)) + S8(m.y)))

Relative(m) ==
  LET n == NextPC(m) IN WithOperand(n, U16(n.pc + S8(AtPC(m))))

Zeropage(m) == WithOperand(NextPC(m), S8(AtPC(m)))

ZeropageIndexed(m, index) == WithOperand(NextPC(m), U8(AtPC(m) + index))

Operand(mode, m) ==
  CASE mode = "accumulator" -> m
    [] mode = "implied"     -> Access(m, m.pc)
    [] mode = "immediate"   -> Immediate(m)
    [] mode = "absolute"    -> Absolute(m)
    [] mode = "absolute,X"  -> AbsoluteIndexed(m, m.x)
    [] mode = "absolute,Y"  -> AbsoluteIndexed(m, m.y)
    [] mode = "indirect"    -> Indirect(m)
    [] mode = "X,indirect"  -> XIndirect(m)
    [] mode = "indirect,Y"  -> IndirectY(m)
    [] mode = "relative"    -> Relative(m)
    [] mode = "zeropage"    -> Zeropage(m)
    [] mode = "zeropage,X"  -> ZeropageIndexed(m, m.x)
    [] mode = "zeropage,Y"  -> ZeropageIndexed(m, m.y)

-----------------------------------------------------------------------------
(* Flags: the status register is NV-BDIZC.                                 *)

Carry(m)   == Bit(m.sr, 0)
Decimal(m) == Bit(m.sr, 3) = 1

WithFlag(m, i, v) == [m EXCEPT !.sr = WithBit(@, i, v)]
WithCarry(m, v)    == WithFlag(m, 0, v)
WithOverflow(m, v) == WithFlag(m, 6, v)

(* set_negative_flag and set_zero_flag, of the same signed value.          *)
WithNZ(m, n) == WithFlag(WithFlag(m, 7, One(n < 0)), 1, One(n = 0))

(* Bit 8 of a signed value: what set_carry_flag and set_borrow_flag use.   *)
Bit8(n) == (n \div 256) % 2

-----------------------------------------------------------------------------
(* The operations, on a machine whose operand is ready.                    *)

Data(m)    == ByteAt(m, m.operand)
ReadData(m) == Access(m, m.operand)

(* A register r gets the byte v, and N and Z tell of it.                   *)
SetRegister(m, r, v) == WithNZ([m EXCEPT ![r] = v], S8(v))

Load(r, m)         == SetRegister(ReadData(m), r, Data(m))
Store(r, m)        == Write(m, m.operand, m[r])
Transfer(r, to, m) == SetRegister(m, to, m[r])
TxsToStack(m)      == [m EXCEPT !.sp = m.x]
Step8(r, by, m)    == SetRegister(m, r, U8(m[r] + by))
Logic(Op(_, _), m) == SetRegister(ReadData(m), "a", Op(m.a, Data(m)))

(* CMP, CPX, CPY: the flags of a signed difference.                        *)
Compare(r, m) ==
  LET d == S8(m[r]) - S8(Data(m))
  IN  WithNZ(WithCarry(ReadData(m), 1 - Bit8(d)), d)

(* BIT looks at the byte after the instruction, not at its operand.        *)
BitTest(m) ==
  LET v == AtPC(m)
      n == WithOverflow(Access(m, m.pc), Bit(v, 6))
  IN  WithFlag(WithFlag(n, 7, Bit(v, 7)), 1, One(And(v, m.a) = 0))

-----------------------------------------------------------------------------
(* ADC and SBC, binary and decimal.                                        *)

AdcBinary(m) ==
  LET d     == Data(m)
      value == S8(m.a) + S8(d) + Carry(m)
      sum   == U8(value)
      over  == Bit(m.a, 7) = Bit(d, 7) /\ Bit(sum, 7) # Bit(m.a, 7)
  IN  WithNZ(WithCarry(WithOverflow([ReadData(m) EXCEPT !.a = sum], One(over)),
                       Bit8(value)),
             value)

AdcDecimal(m) ==
  LET d     == Data(m)
      low   == (m.a % 16) + (d % 16) + Carry(m)
      a     == IF low < 10 THEN low ELSE low + 6
      high  == 16 * ((m.a \div 16) + (d \div 16) + (low \div 16))
      over  == Bit(m.a, 7) = Bit(d, 7) /\ Bit(high, 7) # Bit(m.a, 7)
      total == (a % 16) + (IF high < 160 THEN high ELSE high + 96)
      zero  == U8(m.a + d + Carry(m)) = 0
      flags == WithFlag(WithFlag(ReadData(m), 1, One(zero)), 7, 0)   \* high is never negative
  IN  WithCarry(WithOverflow([flags EXCEPT !.a = U8(total)], One(over)), One(total > 256))

Adc(m) == IF Decimal(m) THEN AdcDecimal(m) ELSE AdcBinary(m)

(* Both modes of SBC take their flags from the binary difference.          *)
Difference(m) == S8(m.a) - S8(Data(m)) - (1 - Carry(m))

(* mutant: the condition of ADC                                            *)
SbcBinary_LikeAdc(m) ==
  LET d    == Data(m)
      diff == U8(Difference(m))
      over == Bit(m.a, 7) = Bit(d, 7) /\ Bit(diff, 7) # Bit(m.a, 7)
  IN  WithOverflow([ReadData(m) EXCEPT !.a = diff], One(over))

SbcBinary(m) ==
  LET d    == Data(m)
      diff == U8(Difference(m))
      over == Bit(m.a, 7) # Bit(d, 7) /\ Bit(diff, 7) # Bit(m.a, 7)
  IN  WithOverflow([ReadData(m) EXCEPT !.a = diff], One(over))

SbcDecimal(m) ==
  LET d    == Data(m)
      low  == (m.a % 16) - (d % 16) - (1 - Carry(m))
      a    == U8(IF Bit(U8(low), 4) = 0 THEN low ELSE low - 6)
      high == 16 * ((m.a \div 16) - (d \div 16) - Bit(a, 4))
  IN  [ReadData(m) EXCEPT
         !.a = U8((a % 16) + (IF Bit8(high) = 0 THEN high ELSE high - 96))]

Sbc(m) ==
  WithNZ(WithCarry(IF Decimal(m) THEN SbcDecimal(m) ELSE SbcBinary(m),
                   1 - Bit8(Difference(m))),
         Difference(m))

-----------------------------------------------------------------------------
(* Shifts and rotations.  Those of memory write the byte back before they  *)
(* write the result: the same place, so the result is what is seen.        *)

Modify(m, result, carry) ==
  WithNZ(WithCarry(Write(m, m.operand, result), carry), S8(result))

Count(by, m) == LET v == U8(Data(m) + by) IN WithNZ(Write(m, m.operand, v), S8(v))
Asl(m) == Modify(m, U8(2 * Data(m)), Bit(Data(m), 7))
Lsr(m) == Modify(m, U8(S8(Data(m)) \div 2), Bit(Data(m), 0))
Rol(m) == Modify(m, U8(2 * Data(m)) + Carry(m), Bit(Data(m), 7))
Ror(m) == Modify(m, (Data(m) \div 2) + 128 * Carry(m), Bit(Data(m), 0))

(* ASL A computes and does not write: the accumulator keeps its value, C   *)
(* and N are always cleared.                                               *)
AslA(m) == WithNZ(WithCarry(m, 0), U8(2 * m.a))
LsrA(m) == SetRegister(WithCarry(m, Bit(m.a, 0)), "a", U8(S8(m.a) \div 2))
RolA(m) == SetRegister(WithCarry(m, Bit(m.a, 7)), "a", U8(2 * m.a) + Carry(m))

(* The carry is ORed onto a 16 bit image of the accumulator, where a       *)
(* negative one has that bit set already.                                  *)
RorA(m) ==
  SetRegister(WithCarry(m, Bit(m.a, 0)), "a",
              (m.a \div 2) + 128 * (IF m.a < 128 THEN Carry(m) ELSE 1))

-----------------------------------------------------------------------------
(* Jumps, calls and returns.                                               *)

Page(w) == w \div 256

Branch(taken, m) ==
  LET here  == Access(m, m.pc)
      cross == Access(here, 256 * Page(m.pc) + U8(m.operand))
  IN  IF taken
      THEN [IF Page(m.pc) # Page(m.operand) THEN cross ELSE here EXCEPT !.pc = m.operand]
      ELSE m

Jump(m) == [m EXCEPT !.pc = U16(m.operand)]

(* JSR reads its target after the operand it was given: the low byte,      *)
(* then, with the program counter already pushed, the high byte.           *)
Jsr(m) ==
  LET n == PushPC(ReadStack(NextPC(m)))
  IN  [Access(n, n.pc) EXCEPT !.pc = SumWord(AtPC(n), AtPC(m))]

Php(m) == Push(m, m.sr)
Pha(m) == Push(m, m.a)
Plp(m) == LET n == Pop(ReadStack(m)) IN [n EXCEPT !.sr = Popped(n)]
Pla(m) == LET n == Pop(ReadStack(m)) IN SetRegister(n, "a", Popped(n))
Rti(m) == PopPC(Plp(ReadStack(m)))
Rts(m) == LET n == PopPC(ReadStack(m)) IN Access(n, n.pc)

(* Only the low byte of the break vector is read.                          *)
Brk(m) ==
  LET n == Php(PushPC(Access(m, m.pc)))
  IN  [WithFlag(Access(n, BREAK_VECTOR_PTR), 2, 1)
         EXCEPT !.pc = U16(S8(ByteAt(n, BREAK_VECTOR_PTR)))]

-----------------------------------------------------------------------------
(* One instruction.                                                        *)

Exec(op, m) ==
  CASE op = "lda" -> Load("a", m)
    [] op = "ldx" -> Load("x", m)
    [] op = "ldy" -> Load("y", m)
    [] op = "sta" -> Store("a", m)
    [] op = "stx" -> Store("x", m)
    [] op = "sty" -> Store("y", m)
    [] op = "tax" -> Transfer("a", "x", m)
    [] op = "tay" -> Transfer("a", "x", m)       \* writes x, not y
    [] op = "tsx" -> Transfer("sp", "x", m)
    [] op = "txa" -> Transfer("x", "a", m)
    [] op = "txs" -> TxsToStack(m)
    [] op = "tya" -> Transfer("y", "a", m)
    [] op = "inx" -> Step8("x", 1, m)
    [] op = "iny" -> Step8("y", 1, m)
    [] op = "dex" -> Step8("x", -1, m)
    [] op = "dey" -> Step8("y", -1, m)
    [] op = "inc" -> Count(1, m)
    [] op = "dec" -> Count(-1, m)
    [] op = "and" -> Logic(And, m)
    [] op = "ora" -> Logic(Or, m)
    [] op = "eor" -> Logic(Xor, m)
    [] op = "bit" -> BitTest(m)
    [] op = "cmp" -> Compare("a", m)
    [] op = "cpx" -> Compare("x", m)
    [] op = "cpy" -> Compare("y", m)
    [] op = "adc" -> Adc(m)
    [] op = "sbc" -> Sbc(m)
    [] op = "asl" -> Asl(m)
    [] op = "lsr" -> Lsr(m)
    [] op = "rol" -> Rol(m)
    [] op = "ror" -> Ror(m)
    [] op = "asl_a" -> AslA(m)
    [] op = "lsr_a" -> LsrA(m)
    [] op = "rol_a" -> RolA(m)
    [] op = "ror_a" -> RorA(m)
    [] op = "clc" -> WithFlag(m, 0, 0)
    [] op = "sec" -> WithFlag(m, 0, 1)
    [] op = "cli" -> WithFlag(m, 2, 0)
    [] op = "sei" -> WithFlag(m, 2, 1)
    [] op = "cld" -> WithFlag(m, 3, 0)
    [] op = "sed" -> WithFlag(m, 3, 1)
    [] op = "clv" -> WithFlag(m, 6, 0)
    [] op = "bcc" -> Branch(Bit(m.sr, 0) = 0, m)
    [] op = "bcs" -> Branch(Bit(m.sr, 0) = 1, m)
    [] op = "bne" -> Branch(Bit(m.sr, 1) = 0, m)
    [] op = "beq" -> Branch(Bit(m.sr, 1) = 1, m)
    [] op = "bvc" -> Branch(Bit(m.sr, 6) = 0, m)
    [] op = "bvs" -> Branch(Bit(m.sr, 6) = 1, m)
    [] op = "bpl" -> Branch(Bit(m.sr, 7) = 0, m)
    [] op = "bmi" -> Branch(Bit(m.sr, 7) = 1, m)
    [] op = "jmp" -> Jump(m)
    [] op = "jsr" -> Jsr(m)
    [] op = "rts" -> Rts(m)
    [] op = "rti" -> Rti(m)
    [] op = "brk" -> Brk(m)
    [] op = "php" -> Php(m)
    [] op = "pha" -> Pha(m)
    [] op = "plp" -> Plp(m)
    [] op = "pla" -> Pla(m)
    [] op = "nop" -> m
    [] op = "hang" -> [m EXCEPT !.status = HANG_CODE]

Fetch(m) == [NextPC(m) EXCEPT !.ir = AtPC(m)]

(* The status starts as INVALID_CODE and an instruction that accesses no   *)
(* memory (the four on the accumulator) returns just that.                 *)
Execute(m) ==
  LET entry == Decode(m.ir)
      fresh == [m EXCEPT !.status = INVALID_CODE]
  IN  Exec(entry.op, IF entry.op = "hang" THEN fresh ELSE Operand(entry.mode, fresh))

FetchAndExecute(m) ==
  IF InMemory(m.pc) THEN Execute(Fetch(m)) ELSE [m EXCEPT !.status = SEGFAULT_CODE]

-----------------------------------------------------------------------------
(* The nine stages of a reset, and a step.  What a stage reads outside of  *)
(* the memory is 0, and the stage goes on.                                 *)

CodeOf(state)  == state % 16
StageOf(state) == state \div 16

(* mutant: the stage is not carried over                                   *)
NextStage_Restarts(m) == [m EXCEPT !.state = CodeOf(@) + 16, !.status = STARTUP_CODE]

NextStage(m) == [m EXCEPT !.state = U8(@ + 16), !.status = STARTUP_CODE]

Settle(m) == [m EXCEPT !.a = 170, !.ir = 0, !.sr = 2]

Startup(m) ==
  CASE StageOf(m.state) \in {0, 1, 3} -> NextStage(Settle(m))
    [] StageOf(m.state) \in {2, 4, 5, 6} -> NextStage([Settle(m) EXCEPT !.pc = 255])
    [] StageOf(m.state) = 7 ->
         NextStage([m EXCEPT !.pc = U16(S8(ByteAt(m, RESET_VECTOR_PTR)))])
    [] StageOf(m.state) = 8 ->
         [m EXCEPT !.pc = 256 * Or(Page(@), ByteAt(m, RESET_VECTOR_PTR + 1)) + (@ % 256),
                   !.state = CPU_STATE_RUN, !.status = OK_CODE]
    [] OTHER -> [m EXCEPT !.state = CPU_STATE_HANG, !.status = HANG_CODE]

ChipStep(m) ==
  CASE CodeOf(m.state) = CPU_STATE_RESET -> Startup(m)
    [] CodeOf(m.state) = CPU_STATE_RUN   -> FetchAndExecute(m)
    [] CodeOf(m.state) = CPU_STATE_HANG  -> [m EXCEPT !.status = HANG_CODE]
    [] OTHER -> [m EXCEPT !.status = INVALID_CODE]

(* oku_6502_chip_init, with memory nobody has written.                     *)
FreshMachine ==
  [pc |-> 0, sp |-> 255, ir |-> 0, a |-> 0, x |-> 0, y |-> 0, sr |-> 0,
   operand |-> 0, state |-> CPU_STATE_RESET, status |-> OK_CODE,
   mem |-> [i \in {} |-> 0]]
=============================================================================
