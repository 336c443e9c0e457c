----------------------------- MODULE OkuProofs -----------------------------
(***************************************************************************)
(* What the 6502 chip keeps, whatever it is given to execute: its types,   *)
(* what lies outside of its operand and its stack, and the machine an      *)
(* interrupt left; and what its binary sums and its plain addresses are.   *)
(***************************************************************************)
EXTENDS OkuComputer, SequenceTheorems, TLAPS

(***************************************************************************)
(* Bytes, words and bits.                                                  *)
(***************************************************************************)
LEMMA Widths ==
  /\ Byte \subseteq Word /\ Word \subseteq Operands /\ Byte \subseteq Int /\ Word \subseteq Int
  /\ Operands \subseteq Int /\ 0 \in Byte /\ 1 \in Byte
BY DEF Byte, Word, Operands

LEMMA Signed ==
  ASSUME NEW b \in Byte
  PROVE  /\ S8(b) \in -128..127 /\ S8(b) \in Operands /\ U8(S8(b)) = b
         /\ (S8(b) = 0) <=> (b = 0)
BY DEF Byte, Operands, S8, U8

LEMMA Narrowed ==
  ASSUME NEW n \in Int
  PROVE  U8(n) \in Byte /\ U16(n) \in Word
BY DEF U8, U16, Byte, Word

LEMMA WordsOfBytes ==
  ASSUME NEW hi \in Byte, NEW lo \in Byte
  PROVE  /\ SumWord(hi, lo) \in Word /\ OrWord(hi, lo) \in Word
         /\ S16(OrWord(hi, lo)) \in Operands
         /\ lo < 128 => OrWord(hi, lo) = 256 * hi + lo
         /\ lo < 128 => SumWord(hi, lo) = 256 * hi + lo
BY DEF SumWord, OrWord, S16, S8, U16, Byte, Word, Operands

LEMMA BytesOfWord ==
  ASSUME NEW w \in Word
  PROVE  /\ w \div 256 \in Byte /\ w % 256 \in Byte
         /\ w = 256 * (w \div 256) + (w % 256)
BY DEF Word, Byte

LEMMA BitsOfByte ==
  ASSUME NEW b \in Byte, NEW i \in 0..7
  PROVE  Bit(b, i) \in 0..1
BY DEF Bit, Byte

LEMMA SignBit ==
  ASSUME NEW b \in Byte
  PROVE  Bit(b, 7) = IF b < 128 THEN 0 ELSE 1
BY DEF Bit, Byte

\* A flag is set or cleared, and a flag other than V leaves V.
LEMMA FlagSet ==
  ASSUME NEW b \in Byte, NEW i \in {0, 1, 2, 3, 6, 7}, NEW v \in 0..1
  PROVE  /\ WithBit(b, i, v) \in Byte
         /\ Bit(WithBit(b, i, v), 6) = IF i = 6 THEN v ELSE Bit(b, 6)
<1> USE DEF WithBit, Bit, Byte
<1>1. CASE i = 0
  BY <1>1
<1>2. CASE i = 1
  BY <1>2
<1>3. CASE i = 2
  BY <1>3
<1>4. CASE i = 3
  BY <1>4
<1>5. CASE i = 6
  BY <1>5
<1>6. CASE i = 7
  BY <1>6
<1> QED BY <1>1, <1>2, <1>3, <1>4, <1>5, <1>6

LEMMA Bits8 ==
  ASSUME NEW b0 \in 0..1, NEW b1 \in 0..1, NEW b2 \in 0..1, NEW b3 \in 0..1,
         NEW b4 \in 0..1, NEW b5 \in 0..1, NEW b6 \in 0..1, NEW b7 \in 0..1
  PROVE  b0 * 2^0 + b1 * 2^1 + b2 * 2^2 + b3 * 2^3 + b4 * 2^4 + b5 * 2^5 + b6 * 2^6 + b7 * 2^7
         \in Byte
BY DEF Byte

LEMMA AndType ==
  ASSUME NEW b \in Byte, NEW c \in Byte
  PROVE  And(b, c) \in Byte
<1>1. \A i \in 0..7 : Bit(b, i) * Bit(c, i) \in 0..1
  BY BitsOfByte
<1> QED BY <1>1, Bits8 DEF And, Bitwise8

LEMMA OrType ==
  ASSUME NEW b \in Byte, NEW c \in Byte
  PROVE  Or(b, c) \in Byte
<1>1. \A i \in 0..7 : Bit(b, i) + Bit(c, i) - Bit(b, i) * Bit(c, i) \in 0..1
  BY BitsOfByte
<1> QED BY <1>1, Bits8 DEF Or, Bitwise8

LEMMA XorType ==
  ASSUME NEW b \in Byte, NEW c \in Byte
  PROVE  Xor(b, c) \in Byte
<1>1. \A i \in 0..7 : (Bit(b, i) + Bit(c, i)) % 2 \in 0..1
  BY BitsOfByte
<1> QED BY <1>1, Bits8 DEF Xor, Bitwise8

(***************************************************************************)
(* The types of a machine, as a set of records.                            *)
(***************************************************************************)
Memory    == UNION {[D -> Byte] : D \in SUBSET {i \in Nat : InMemory(i)}}
Status    == {OK_CODE, INVALID_CODE, HANG_CODE, STARTUP_CODE, SEGFAULT_CODE}
ChipState == {s \in Byte : \/ s \in {CPU_STATE_RUN, CPU_STATE_HANG}
                           \/ CodeOf(s) = CPU_STATE_RESET /\ StageOf(s) \in 0..8}

Machine ==
  [pc : Word, sp : Byte, ir : Byte, a : Byte, x : Byte, y : Byte, sr : Byte,
   operand : Operands, state : ChipState, mem : Memory, status : Status]

Register == {"a", "x", "y"}

LEMMA Memories ==
  ASSUME NEW f
  PROVE  f \in Memory <=> f \in [DOMAIN f -> Byte] /\ \A i \in DOMAIN f : InMemory(i)
<1>1. ASSUME f \in Memory PROVE f \in [DOMAIN f -> Byte] /\ \A i \in DOMAIN f : InMemory(i)
  BY <1>1 DEF Memory
<1>2. ASSUME f \in [DOMAIN f -> Byte], \A i \in DOMAIN f : InMemory(i) PROVE f \in Memory
  <2>1. DOMAIN f \in SUBSET {i \in Nat : InMemory(i)}
    BY <1>2 DEF InMemory
  <2> QED BY <1>2, <2>1 DEF Memory
<1> QED BY <1>1, <1>2

LEMMA Machines ==
  ASSUME NEW m
  PROVE  IsMachine(m) <=> m \in Machine
<1>1. ASSUME IsMachine(m) PROVE m \in Machine
  <2>1. m.mem \in Memory
    <3>1. m.mem \in [DOMAIN m.mem -> Byte]
      BY <1>1 DEF IsMachine
    <3>2. \A i \in DOMAIN m.mem : InMemory(i)
      BY <1>1 DEF IsMachine
    <3> QED BY <3>1, <3>2, Memories
  <2>2. m.state \in ChipState
    BY <1>1 DEF IsMachine, ChipState
  <2>3. m.status \in Status
    BY <1>1 DEF IsMachine, Status
  <2> QED BY <1>1, <2>1, <2>2, <2>3 DEF IsMachine, Machine
<1>2. ASSUME m \in Machine PROVE IsMachine(m)
  <2>1. m.mem \in Memory /\ m.state \in ChipState /\ m.status \in Status
    BY <1>2 DEF Machine
  <2>2. /\ m.mem \in [DOMAIN m.mem -> Byte]
        /\ \A i \in DOMAIN m.mem : InMemory(i)
    BY <2>1, Memories
  <2>3. /\ m.state \in Byte
        /\ \/ m.state \in {CPU_STATE_RUN, CPU_STATE_HANG}
           \/ CodeOf(m.state) = CPU_STATE_RESET /\ StageOf(m.state) \in 0..8
    BY <2>1 DEF ChipState
  <2>4. m.status \in {OK_CODE, INVALID_CODE, HANG_CODE, STARTUP_CODE, SEGFAULT_CODE}
    BY <2>1 DEF Status
  <2> QED BY <1>2, <2>2, <2>3, <2>4 DEF IsMachine, Machine
<1> QED BY <1>1, <1>2

LEMMA ByteRead ==
  ASSUME NEW m \in Machine, NEW i
  PROVE  ByteAt(m, i) \in Byte
<1>1. m.mem \in [DOMAIN m.mem -> Byte]
  BY Memories DEF Machine
<1> QED BY <1>1, Widths DEF ByteAt

(***************************************************************************)
(* What an instruction may do to a machine: nothing to its operand, and to *)
(* memory only there and on the page of the stack.                         *)
(***************************************************************************)
Keeps(m, n) ==
  /\ n \in Machine
  /\ n.operand = m.operand
  /\ \A i : ByteAt(n, i) # ByteAt(m, i) => i = m.operand \/ Page(i) = 1

SameRegisters(m, n) ==
  /\ n.pc = m.pc /\ n.sp = m.sp /\ n.a = m.a /\ n.x = m.x /\ n.y = m.y /\ n.sr = m.sr
  /\ n.operand = m.operand /\ n.state = m.state /\ n.ir = m.ir

LEMMA KeepsOn ==
  ASSUME NEW m, NEW n, NEW k, Keeps(m, n), Keeps(n, k)
  PROVE  Keeps(m, k)
BY DEF Keeps

LEMMA RegistersKeep ==
  ASSUME NEW m, NEW n \in Machine, n.mem = m.mem, n.operand = m.operand
  PROVE  Keeps(m, n)
BY DEF Keeps, ByteAt

\* A read changes nothing but the status.
LEMMA AccessKeeps ==
  ASSUME NEW m \in Machine, NEW i
  PROVE  /\ Keeps(m, Access(m, i))
         /\ Access(m, i) \in Machine /\ SameRegisters(m, Access(m, i)) /\ Access(m, i).mem = m.mem
<1>1. Access(m, i) \in Machine /\ Access(m, i).mem = m.mem
  BY DEF Access, Machine, Status
<1>2. SameRegisters(m, Access(m, i))
  BY DEF Access, Machine, SameRegisters
<1> QED BY <1>1, <1>2, RegistersKeep DEF SameRegisters

\* A write reaches one byte.
LEMMA WriteReaches ==
  ASSUME NEW m \in Machine, NEW i, NEW v \in Byte
  PROVE  /\ Write(m, i, v) \in Machine
         /\ SameRegisters(m, Write(m, i, v))
         /\ \A j : ByteAt(Write(m, i, v), j) = IF j = i /\ InMemory(i) THEN v ELSE ByteAt(m, j)
<1> DEFINE f == IF InMemory(i) THEN With(m.mem, i, v) ELSE m.mem
<1>1. m.mem \in Memory /\ m.mem \in [DOMAIN m.mem -> Byte] /\ \A j \in DOMAIN m.mem : InMemory(j)
  BY Memories DEF Machine
<1>2. f \in Memory
  <2>1. CASE InMemory(i)
    <3>1. f = With(m.mem, i, v)
      BY <2>1
    <3>2. DOMAIN f = DOMAIN m.mem \union {i} /\ f \in [DOMAIN m.mem \union {i} -> Byte]
      BY <1>1, <3>1 DEF With
    <3> HIDE DEF f
    <3> QED BY <1>1, <2>1, <3>2, Memories
  <2> QED BY <1>1, <2>1
<1>3. \A j : (IF InMemory(j) /\ j \in DOMAIN f THEN f[j] ELSE 0)
             = IF j = i /\ InMemory(i) THEN v ELSE ByteAt(m, j)
  BY <1>1 DEF ByteAt, With
<1>4. Write(m, i, v) = [Access(m, i) EXCEPT !.mem = f]
  BY DEF Write, Access, Machine
<1> HIDE DEF f
<1>5. /\ Write(m, i, v) \in Machine /\ Write(m, i, v).mem = f
  BY <1>2, <1>4 DEF Access, Machine, Status
<1>6. SameRegisters(m, Write(m, i, v))
  BY <1>4 DEF Access, Machine, SameRegisters
<1> QED BY <1>3, <1>5, <1>6 DEF ByteAt

LEMMA WriteKeeps ==
  ASSUME NEW m \in Machine, NEW i, NEW v \in Byte, i = m.operand \/ Page(i) = 1
  PROVE  Keeps(m, Write(m, i, v))
BY WriteReaches DEF Keeps, SameRegisters

LEMMA FlagKeeps ==
  ASSUME NEW m \in Machine, NEW i \in {0, 1, 2, 3, 6, 7}, NEW v \in 0..1
  PROVE  Keeps(m, WithFlag(m, i, v))
<1>1. WithBit(m.sr, i, v) \in Byte
  BY FlagSet DEF Machine
<1>2. /\ WithFlag(m, i, v) \in Machine
      /\ WithFlag(m, i, v).mem = m.mem /\ WithFlag(m, i, v).operand = m.operand
  BY <1>1 DEF WithFlag, Machine
<1> QED BY <1>2, RegistersKeep

LEMMA NZKeeps ==
  ASSUME NEW m \in Machine, NEW n \in Int
  PROVE  Keeps(m, WithNZ(m, n))
<1> DEFINE k == WithFlag(m, 7, One(n < 0))
<1>1. One(n < 0) \in 0..1 /\ One(n = 0) \in 0..1
  BY DEF One
<1>2. Keeps(m, k)
  BY <1>1, FlagKeeps
<1>3. Keeps(k, WithFlag(k, 1, One(n = 0)))
  <2>1. k \in Machine
    BY <1>2 DEF Keeps
  <2> QED BY <1>1, <2>1, FlagKeeps
<1> QED BY <1>2, <1>3, KeepsOn DEF WithNZ

LEMMA RegisterKeeps ==
  ASSUME NEW m \in Machine, NEW r \in Register, NEW v \in Byte
  PROVE  Keeps(m, SetRegister(m, r, v))
<1> DEFINE n == [m EXCEPT ![r] = v]
<1>1. n \in Machine /\ n.mem = m.mem /\ n.operand = m.operand
  BY DEF Machine, Register
<1>2. Keeps(m, n)
  BY <1>1, RegistersKeep
<1>3. S8(v) \in Int
  BY Signed
<1> HIDE DEF n
<1>4. Keeps(n, WithNZ(n, S8(v)))
  BY <1>1, <1>3, NZKeeps
<1> QED BY <1>2, <1>4, KeepsOn DEF SetRegister, n

LEMMA RegisterRead ==
  ASSUME NEW m \in Machine, NEW r \in Register
  PROVE  m[r] \in Byte
BY DEF Machine, Register

(***************************************************************************)
(* The stack.                                                              *)
(***************************************************************************)
LEMMA StackPage ==
  ASSUME NEW s \in Byte
  PROVE  Page(s + 256) = 1 /\ s + 256 \in Nat
BY DEF Page, Byte

\* A push writes below the stack pointer, and wraps around the page.
LEMMA PushReaches ==
  ASSUME NEW m \in Machine, NEW v \in Byte
  PROVE  /\ Push(m, v) \in Machine
         /\ Push(m, v).pc = m.pc /\ Push(m, v).sr = m.sr /\ Push(m, v).operand = m.operand
         /\ Push(m, v).sp = U8(m.sp - 1)
         /\ \A j : ByteAt(Push(m, v), j)
                   = IF j = m.sp + 256 /\ InMemory(m.sp + 256) THEN v ELSE ByteAt(m, j)
<1> DEFINE n == Write(m, m.sp + 256, v)
<1>1. /\ n \in Machine /\ SameRegisters(m, n)
      /\ \A j : ByteAt(n, j) = IF j = m.sp + 256 /\ InMemory(m.sp + 256) THEN v ELSE ByteAt(m, j)
  BY WriteReaches
<1>2. m.sp \in Int
  BY Widths DEF Machine
<1> HIDE DEF n
<1>3. Push(m, v) = [n EXCEPT !.sp = U8(m.sp - 1)]
  BY <1>1 DEF Push, n, SameRegisters
<1>4. U8(m.sp - 1) \in Byte
  BY <1>2, Narrowed
<1>5. Push(m, v) \in Machine /\ Push(m, v).sp = U8(m.sp - 1) /\ Push(m, v).mem = n.mem
  BY <1>1, <1>3, <1>4 DEF Machine
<1>6. Push(m, v).pc = m.pc /\ Push(m, v).sr = m.sr /\ Push(m, v).operand = m.operand
  BY <1>1, <1>3 DEF Machine, SameRegisters
<1>7. \A j : ByteAt(Push(m, v), j) = ByteAt(n, j)
  BY <1>5 DEF ByteAt
<1> QED BY <1>1, <1>5, <1>6, <1>7

LEMMA PushKeeps ==
  ASSUME NEW m \in Machine, NEW v \in Byte
  PROVE  Keeps(m, Push(m, v))
<1>1. Page(m.sp + 256) = 1
  BY StackPage DEF Machine
<1> QED BY <1>1, PushReaches DEF Keeps

\* A pop reads above the stack pointer, and wraps around the page.
LEMMA PopReads ==
  ASSUME NEW m \in Machine
  PROVE  /\ Pop(m) \in Machine /\ Pop(m).mem = m.mem
         /\ Pop(m).pc = m.pc /\ Pop(m).sr = m.sr /\ Pop(m).operand = m.operand
         /\ Pop(m).sp = U8(m.sp + 1)
         /\ Popped(Pop(m)) = ByteAt(m, U8(m.sp + 1) + 256)
         /\ Popped(Pop(m)) \in Byte
<1> DEFINE n == [m EXCEPT !.sp = U8(@ + 1)]
<1>1. U8(m.sp + 1) \in Byte
  BY DEF Machine, Byte, U8
<1>2. /\ n \in Machine /\ n.sp = U8(m.sp + 1) /\ n.mem = m.mem
      /\ n.pc = m.pc /\ n.sr = m.sr /\ n.operand = m.operand
  BY <1>1 DEF Machine
<1>3. Pop(m) = Access(n, n.sp + 256)
  BY DEF Pop
<1> HIDE DEF n
<1>4. Pop(m) \in Machine /\ SameRegisters(n, Pop(m)) /\ Pop(m).mem = n.mem
  BY <1>2, <1>3, AccessKeeps
<1>5. Popped(Pop(m)) = ByteAt(m, U8(m.sp + 1) + 256)
  BY <1>2, <1>4 DEF Popped, ByteAt, SameRegisters
<1> QED BY <1>2, <1>4, <1>5, ByteRead DEF SameRegisters

LEMMA PopKeeps ==
  ASSUME NEW m \in Machine
  PROVE  Keeps(m, Pop(m))
BY PopReads, RegistersKeep

LEMMA PushPCKeeps ==
  ASSUME NEW m \in Machine
  PROVE  Keeps(m, PushPC(m))
<1>1. m.pc \div 256 \in Byte /\ m.pc % 256 \in Byte
  BY BytesOfWord DEF Machine
<1>2. Keeps(m, Push(m, m.pc \div 256)) /\ Push(m, m.pc \div 256) \in Machine
  BY <1>1, PushKeeps, PushReaches
<1>3. Keeps(Push(m, m.pc \div 256), PushPC(m))
  BY <1>1, <1>2, PushKeeps DEF PushPC
<1> QED BY <1>2, <1>3, KeepsOn

LEMMA PopPCReads ==
  ASSUME NEW m \in Machine
  PROVE  LET s  == U8(m.sp + 1)
             lo == ByteAt(m, s + 256)
             hi == ByteAt(m, U8(s + 1) + 256)
         IN  /\ PopPC(m) \in Machine /\ PopPC(m).mem = m.mem
             /\ PopPC(m).sr = m.sr /\ PopPC(m).operand = m.operand
             /\ PopPC(m).sp = U8(s + 1)
             /\ PopPC(m).pc = OrWord(hi, lo)
<1> DEFINE lo == Pop(m)
           hi == Pop(lo)
<1>1. /\ lo \in Machine /\ lo.mem = m.mem /\ lo.sr = m.sr /\ lo.operand = m.operand
      /\ lo.sp = U8(m.sp + 1) /\ Popped(lo) = ByteAt(m, U8(m.sp + 1) + 256) /\ Popped(lo) \in Byte
  BY PopReads
<1> HIDE DEF lo
<1>2. /\ hi \in Machine /\ hi.mem = m.mem /\ hi.sr = m.sr /\ hi.operand = m.operand
      /\ hi.sp = U8(U8(m.sp + 1) + 1) /\ Popped(hi) \in Byte
      /\ Popped(hi) = ByteAt(lo, U8(lo.sp + 1) + 256)
  BY <1>1, PopReads
<1>3. Popped(hi) = ByteAt(m, U8(U8(m.sp + 1) + 1) + 256)
  BY <1>1, <1>2 DEF ByteAt
<1> HIDE DEF hi
<1>4. OrWord(Popped(hi), Popped(lo)) \in Word
  BY <1>1, <1>2, WordsOfBytes
<1>5. PopPC(m) = [hi EXCEPT !.pc = OrWord(Popped(hi), Popped(lo))]
  BY DEF PopPC, hi, lo
<1>6. /\ PopPC(m) \in Machine /\ PopPC(m).mem = hi.mem /\ PopPC(m).sr = hi.sr
      /\ PopPC(m).operand = hi.operand /\ PopPC(m).sp = hi.sp
      /\ PopPC(m).pc = OrWord(Popped(hi), Popped(lo))
  BY <1>2, <1>4, <1>5 DEF Machine
<1> QED BY <1>1, <1>2, <1>3, <1>6

LEMMA PopPCKeeps ==
  ASSUME NEW m \in Machine
  PROVE  Keeps(m, PopPC(m))
BY PopPCReads, RegistersKeep

(***************************************************************************)
(* The machine a BRK leaves, and the RTI after it.                         *)
(***************************************************************************)
\* Four places of the stack in a row are different ones.
LEMMA StackPlaces ==
  ASSUME NEW s \in Byte
  PROVE  LET s1 == U8(s - 1)
             s2 == U8(s1 - 1)
             s3 == U8(s2 - 1)
         IN  /\ s1 \in Byte /\ s2 \in Byte /\ s3 \in Byte
             /\ s # s1 /\ s # s2 /\ s1 # s2
             /\ U8(s3 + 1) = s2 /\ U8(s2 + 1) = s1 /\ U8(s1 + 1) = s
<1>1. \A t \in Byte : U8(t - 1) = IF t = 0 THEN 255 ELSE t - 1
  BY DEF U8, Byte
<1>2. \A t \in Byte : U8(t + 1) = IF t = 255 THEN 0 ELSE t + 1
  BY DEF U8, Byte
<1>3. \A t \in Byte : U8(t - 1) \in Byte /\ U8(U8(t - 1) + 1) = t
  BY <1>1, <1>2 DEF Byte
<1>4. U8(s - 1) \in Byte /\ U8(U8(s - 1) - 1) \in Byte
  BY <1>3
<1>5. s # U8(s - 1) /\ s # U8(U8(s - 1) - 1) /\ U8(s - 1) # U8(U8(s - 1) - 1)
  BY <1>1, <1>4 DEF Byte
<1> QED BY <1>3, <1>4, <1>5

LEMMA BrkReaches ==
  ASSUME NEW m \in Machine, MemSize >= 512
  PROVE  LET s1 == U8(m.sp - 1)
             s2 == U8(s1 - 1)
         IN  /\ Brk(m) \in Machine /\ Brk(m).sp = U8(s2 - 1)
             /\ ByteAt(Brk(m), m.sp + 256) = m.pc \div 256
             /\ ByteAt(Brk(m), s1 + 256) = m.pc % 256
             /\ ByteAt(Brk(m), s2 + 256) = m.sr
<1> DEFINE hi == m.pc \div 256
           lo == m.pc % 256
           k0 == Access(m, m.pc)
           k1 == Push(k0, hi)
           k2 == Push(k1, lo)
           n  == Push(k2, m.sr)
           f  == WithFlag(Access(n, BREAK_VECTOR_PTR), 2, 1)
           s1 == U8(m.sp - 1)
           s2 == U8(s1 - 1)
<1>1. hi \in Byte /\ lo \in Byte /\ m.sr \in Byte /\ m.sp \in Byte
  BY BytesOfWord DEF Machine
<1>2. s1 \in Byte /\ s2 \in Byte /\ m.sp # s1 /\ m.sp # s2 /\ s1 # s2
  BY <1>1, StackPlaces
<1>3. InMemory(m.sp + 256) /\ InMemory(s1 + 256) /\ InMemory(s2 + 256)
  BY <1>1, <1>2, MemSizeAssumption DEF InMemory, Byte
<1>4. k0 \in Machine /\ SameRegisters(m, k0)
  BY AccessKeeps
<1> HIDE DEF k0, s1, s2, hi, lo
<1>5. /\ k1 \in Machine /\ k1.sp = s1 /\ k1.pc = m.pc /\ k1.sr = m.sr
      /\ ByteAt(k1, m.sp + 256) = hi
  <2>1. k0.sp = m.sp /\ k0.pc = m.pc /\ k0.sr = m.sr
    BY <1>4 DEF SameRegisters
  <2> HIDE DEF k1
  <2>2. /\ k1 \in Machine /\ k1.pc = k0.pc /\ k1.sr = k0.sr /\ k1.sp = U8(k0.sp - 1)
        /\ \A j : ByteAt(k1, j) = IF j = k0.sp + 256 /\ InMemory(k0.sp + 256)
                                 THEN hi ELSE ByteAt(k0, j)
    BY <1>1, <1>4, PushReaches DEF k1
  <2> QED BY <1>3, <2>1, <2>2 DEF s1
<1> HIDE DEF k1
<1>6. /\ k2 \in Machine /\ k2.sp = s2 /\ k2.sr = m.sr
      /\ ByteAt(k2, m.sp + 256) = hi /\ ByteAt(k2, s1 + 256) = lo
  <2>1. m.sp + 256 # s1 + 256
    BY <1>1, <1>2 DEF Byte
  <2> QED BY <1>1, <1>3, <1>5, <2>1, PushReaches DEF s2
<1> HIDE DEF k2
<1>7. /\ n \in Machine /\ n.sp = U8(s2 - 1)
      /\ ByteAt(n, m.sp + 256) = hi /\ ByteAt(n, s1 + 256) = lo
      /\ ByteAt(n, s2 + 256) = m.sr
  <2>1. m.sp + 256 # s2 + 256 /\ s1 + 256 # s2 + 256
    BY <1>1, <1>2 DEF Byte
  <2> HIDE DEF n
  <2>2. /\ n \in Machine /\ n.sp = U8(k2.sp - 1)
        /\ \A j : ByteAt(n, j) = IF j = k2.sp + 256 /\ InMemory(k2.sp + 256)
                                THEN m.sr ELSE ByteAt(k2, j)
    BY <1>1, <1>6, PushReaches DEF n
  <2> QED BY <1>3, <1>6, <2>1, <2>2
<1>8. n = Php(PushPC(k0))
  BY <1>4, <1>6 DEF Php, PushPC, SameRegisters, k1, k2, hi, lo, n
<1> HIDE DEF n
<1>9. f \in Machine /\ f.sp = n.sp /\ f.mem = n.mem
  <2>1. Access(n, BREAK_VECTOR_PTR) \in Machine /\ SameRegisters(n, Access(n, BREAK_VECTOR_PTR))
        /\ Access(n, BREAK_VECTOR_PTR).mem = n.mem
    BY <1>7, AccessKeeps
  <2>2. WithBit(Access(n, BREAK_VECTOR_PTR).sr, 2, 1) \in Byte
    BY <2>1, FlagSet DEF Machine
  <2> QED BY <2>1, <2>2 DEF WithFlag, Machine, SameRegisters
<1>10. Brk(m) = [f EXCEPT !.pc = U16(S8(ByteAt(n, BREAK_VECTOR_PTR)))]
  BY <1>8 DEF Brk, k0
<1>11. U16(S8(ByteAt(n, BREAK_VECTOR_PTR))) \in Word
  BY <1>7, ByteRead, Signed, Narrowed, Widths
<1> HIDE DEF f
<1>12. Brk(m) \in Machine /\ Brk(m).sp = n.sp /\ Brk(m).mem = n.mem
  BY <1>9, <1>10, <1>11 DEF Machine
<1> QED BY <1>7, <1>12 DEF ByteAt, s1, s2, hi, lo

LEMMA PlpReads ==
  ASSUME NEW m \in Machine
  PROVE  /\ Plp(m) \in Machine /\ Plp(m).mem = m.mem /\ Plp(m).operand = m.operand
         /\ Plp(m).sp = U8(m.sp + 1) /\ Plp(m).sr = ByteAt(m, U8(m.sp + 1) + 256)
<1> DEFINE k == ReadStack(m)
           n == Pop(k)
<1>1. k \in Machine /\ SameRegisters(m, k) /\ k.mem = m.mem
  BY AccessKeeps DEF ReadStack
<1> HIDE DEF k
<1>2. /\ n \in Machine /\ n.mem = k.mem /\ n.operand = k.operand /\ n.sp = U8(k.sp + 1)
      /\ Popped(n) = ByteAt(k, U8(k.sp + 1) + 256) /\ Popped(n) \in Byte
  BY <1>1, PopReads
<1>3. ByteAt(k, U8(k.sp + 1) + 256) = ByteAt(m, U8(m.sp + 1) + 256)
  BY <1>1 DEF ByteAt, SameRegisters
<1>4. Plp(m) = [n EXCEPT !.sr = Popped(n)]
  BY DEF Plp, k
<1> HIDE DEF n
<1>5. /\ Plp(m) \in Machine /\ Plp(m).mem = n.mem /\ Plp(m).operand = n.operand
      /\ Plp(m).sp = n.sp /\ Plp(m).sr = Popped(n)
  BY <1>2, <1>4 DEF Machine
<1> QED BY <1>1, <1>2, <1>3, <1>5 DEF SameRegisters

LEMMA RtiUndoesBrk ==
  ASSUME NEW m \in Machine, MemSize >= 512
  PROVE  LET back == Rti(Brk(m))
         IN  /\ back.sp = m.sp /\ back.sr = m.sr
             /\ m.pc % 256 < 128 => back.pc = m.pc
<1> DEFINE b  == Brk(m)
           s1 == U8(m.sp - 1)
           s2 == U8(s1 - 1)
           s3 == U8(s2 - 1)
           r  == ReadStack(b)
           n  == Plp(r)
<1>1. /\ b \in Machine /\ b.sp = s3
      /\ ByteAt(b, m.sp + 256) = m.pc \div 256
      /\ ByteAt(b, s1 + 256) = m.pc % 256
      /\ ByteAt(b, s2 + 256) = m.sr
  BY BrkReaches
<1>2. U8(s3 + 1) = s2 /\ U8(s2 + 1) = s1 /\ U8(s1 + 1) = m.sp
  BY StackPlaces DEF Machine
<1> HIDE DEF b, s1, s2, s3
<1>3. r \in Machine /\ SameRegisters(b, r) /\ r.mem = b.mem
  BY <1>1, AccessKeeps DEF ReadStack
<1> HIDE DEF r
<1>4. n \in Machine /\ n.mem = r.mem /\ n.sp = U8(r.sp + 1) /\ n.sr = ByteAt(r, U8(r.sp + 1) + 256)
  BY <1>3, PlpReads
<1>5. n.mem = b.mem /\ n.sp = s2 /\ n.sr = m.sr
  BY <1>1, <1>2, <1>3, <1>4 DEF SameRegisters, ByteAt
<1> HIDE DEF n
<1>6. /\ PopPC(n).sr = n.sr
      /\ PopPC(n).sp = U8(U8(n.sp + 1) + 1)
      /\ PopPC(n).pc = OrWord(ByteAt(n, U8(U8(n.sp + 1) + 1) + 256), ByteAt(n, U8(n.sp + 1) + 256))
  BY <1>4, PopPCReads
<1>7. U8(n.sp + 1) = s1 /\ U8(U8(n.sp + 1) + 1) = m.sp
  BY <1>2, <1>5
<1>8. /\ ByteAt(n, m.sp + 256) = m.pc \div 256
      /\ ByteAt(n, s1 + 256) = m.pc % 256
  BY <1>1, <1>5 DEF ByteAt
<1>9. PopPC(n).sr = m.sr /\ PopPC(n).sp = m.sp
      /\ PopPC(n).pc = OrWord(m.pc \div 256, m.pc % 256)
  BY <1>5, <1>6, <1>7, <1>8
<1>10. m.pc % 256 < 128 => OrWord(m.pc \div 256, m.pc % 256) = m.pc
  <2>1. m.pc \in Word
    BY DEF Machine
  <2>2. m.pc \div 256 \in Byte /\ m.pc % 256 \in Byte /\ m.pc = 256 * (m.pc \div 256) + (m.pc % 256)
    BY <2>1, BytesOfWord
  <2> QED BY <2>2, WordsOfBytes
<1>11. Rti(b) = PopPC(n)
  BY DEF Rti, r, n
<1> QED BY <1>9, <1>10, <1>11 DEF b

(***************************************************************************)
(* Before an instruction executes: its operand, and nothing else that it   *)
(* computes with.                                                          *)
(***************************************************************************)
Prepares(m, n) ==
  /\ n \in Machine /\ n.mem = m.mem
  /\ n.a = m.a /\ n.x = m.x /\ n.y = m.y /\ n.sp = m.sp /\ n.sr = m.sr

LEMMA PreparesOn ==
  ASSUME NEW m, NEW n, NEW k, Prepares(m, n), Prepares(n, k)
  PROVE  Prepares(m, k)
BY DEF Prepares

LEMMA AccessPrepares ==
  ASSUME NEW m \in Machine, NEW i
  PROVE  Prepares(m, Access(m, i)) /\ Access(m, i).pc = m.pc
BY AccessKeeps DEF Prepares, SameRegisters

LEMMA NextPCPrepares ==
  ASSUME NEW m \in Machine
  PROVE  /\ Prepares(m, NextPC(m)) /\ NextPC(m) \in Machine
         /\ NextPC(m).pc = U16(m.pc + 1) /\ NextPC(m).state = m.state /\ NextPC(m).ir = m.ir
         /\ Keeps(m, NextPC(m))
<1> DEFINE k == Access(m, m.pc)
<1>1. k \in Machine /\ SameRegisters(m, k) /\ k.mem = m.mem
  BY AccessKeeps
<1>2. U16(m.pc + 1) \in Word
  BY DEF Machine, Word, U16
<1>3. NextPC(m) = [k EXCEPT !.pc = U16(m.pc + 1)]
  BY <1>1 DEF NextPC, SameRegisters
<1> HIDE DEF k
<1>4. NextPC(m) \in Machine /\ NextPC(m).pc = U16(m.pc + 1) /\ NextPC(m).mem = k.mem
      /\ NextPC(m).operand = k.operand /\ NextPC(m).state = k.state /\ NextPC(m).ir = k.ir
  BY <1>1, <1>2, <1>3 DEF Machine
<1>5. /\ NextPC(m).a = k.a /\ NextPC(m).x = k.x /\ NextPC(m).y = k.y
      /\ NextPC(m).sp = k.sp /\ NextPC(m).sr = k.sr
  BY <1>1, <1>2, <1>3 DEF Machine
<1> QED BY <1>1, <1>4, <1>5, RegistersKeep DEF Prepares, SameRegisters

LEMMA OperandPrepares ==
  ASSUME NEW m \in Machine, NEW v \in Operands
  PROVE  Prepares(m, WithOperand(m, v)) /\ WithOperand(m, v).operand = v
BY DEF Prepares, WithOperand, Machine

LEMMA ImmediatePrepares ==
  ASSUME NEW m \in Machine
  PROVE  Prepares(m, Immediate(m)) /\ Immediate(m).operand = m.pc
<1>1. m.pc \in Operands /\ U16(m.pc + 1) \in Word
  BY DEF Machine, Word, Operands, U16
<1> QED BY <1>1 DEF Immediate, Prepares, Machine

LEMMA WordRead ==
  ASSUME NEW m \in Machine, NEW i
  PROVE  Int16At(m, i) \in Operands
BY ByteRead, WordsOfBytes, Widths DEF Int16At

LEMMA AbsolutePrepares ==
  ASSUME NEW m \in Machine
  PROVE  Prepares(m, Absolute(m)) /\ Absolute(m).operand = Int16At(m, m.pc)
<1> DEFINE first == Access(m, m.pc)
           read  == IF first.status = OK_CODE THEN Access(m, m.pc + 1) ELSE first
<1>1. Prepares(m, read) /\ read.pc = m.pc
  BY AccessPrepares
<1>2. U16(m.pc + 2) \in Word /\ Int16At(m, m.pc) \in Operands
  BY WordRead DEF Machine, Word, U16
<1>3. Absolute(m) = [read EXCEPT !.operand = Int16At(m, m.pc), !.pc = U16(m.pc + 2)]
  BY <1>1 DEF Absolute
<1> HIDE DEF read
<1> QED BY <1>1, <1>2, <1>3 DEF Prepares, Machine

LEMMA AbsoluteIndexedPrepares ==
  ASSUME NEW m \in Machine, NEW index \in Byte
  PROVE  LET word == SumWord(ByteAt(m, U16(m.pc + 1)), AtPC(m))
         IN  /\ Prepares(m, AbsoluteIndexed(m, index))
             /\ AbsoluteIndexed(m, index).operand = U16(word + S8(index))
<1> DEFINE hi == NextPC(m)
           n  == NextPC(hi)
           word == SumWord(ByteAt(m, U16(m.pc + 1)), AtPC(m))
<1>1. hi \in Machine /\ Prepares(m, hi) /\ hi.pc = U16(m.pc + 1) /\ Prepares(hi, n)
  BY NextPCPrepares
<1>2. AtPC(hi) = ByteAt(m, U16(m.pc + 1))
  BY <1>1 DEF AtPC, ByteAt, Prepares
<1>3. word \in Word
  BY ByteRead, WordsOfBytes DEF AtPC
<1>4. U16(word + S8(index)) \in Operands
  BY <1>3, Signed DEF Word, Operands, U16
<1>5. n \in Machine /\ Prepares(m, n)
  BY <1>1, PreparesOn DEF Prepares
<1>6. AbsoluteIndexed(m, index) = WithOperand(n, U16(word + S8(index)))
  BY <1>2 DEF AbsoluteIndexed
<1> HIDE DEF n, word
<1>7. /\ Prepares(n, AbsoluteIndexed(m, index))
      /\ AbsoluteIndexed(m, index).operand = U16(word + S8(index))
  BY <1>4, <1>5, <1>6, OperandPrepares
<1> QED BY <1>5, <1>7, PreparesOn DEF word

LEMMA IndirectPrepares ==
  ASSUME NEW m \in Machine
  PROVE  LET i == S16(OrWord(ByteAt(m, U16(m.pc + 1)), AtPC(m)))
         IN  /\ Prepares(m, Indirect(m))
             /\ Indirect(m).operand = SumWord(ByteAt(m, i + 1), ByteAt(m, i))
<1> DEFINE hi == NextPC(m)
           i  == S16(OrWord(AtPC(hi), AtPC(m)))
           n  == Access(NextPC(hi), i + 1)
           v  == SumWord(ByteAt(m, i + 1), ByteAt(m, i))
<1>1. hi \in Machine /\ Prepares(m, hi) /\ hi.pc = U16(m.pc + 1)
  BY NextPCPrepares
<1>2. AtPC(hi) = ByteAt(m, U16(m.pc + 1))
  BY <1>1 DEF AtPC, ByteAt, Prepares
<1>3. Prepares(hi, NextPC(hi)) /\ NextPC(hi) \in Machine
  BY <1>1, NextPCPrepares
<1>4. Prepares(NextPC(hi), n)
  BY <1>3, AccessPrepares
<1>5. Prepares(m, n) /\ n \in Machine
  BY <1>1, <1>3, <1>4, PreparesOn DEF Prepares
<1>6. v \in Operands
  BY ByteRead, WordsOfBytes, Widths
<1>7. Indirect(m) = WithOperand(n, v)
  BY DEF Indirect
<1> HIDE DEF n, v
<1>8. Prepares(n, Indirect(m)) /\ Indirect(m).operand = v
  BY <1>5, <1>6, <1>7, OperandPrepares
<1> QED BY <1>2, <1>5, <1>8, PreparesOn DEF v

\* The pointer is in the zero page, and so is the byte after it.
LEMMA XIndirectPrepares ==
  ASSUME NEW m \in Machine
  PROVE  LET ptr == U8(AtPC(m) + m.x)
         IN  /\ Prepares(m, XIndirect(m))
             /\ XIndirect(m).operand = SumWord(ByteAt(m, U8(ptr + 1)), ByteAt(m, ptr))
<1> DEFINE ptr == U8(AtPC(m) + m.x)
           n   == Access(NextPC(m), U8(ptr + 1))
           v   == SumWord(ByteAt(m, U8(ptr + 1)), ByteAt(m, ptr))
<1>1. Prepares(m, NextPC(m)) /\ NextPC(m) \in Machine
  BY NextPCPrepares
<1>2. Prepares(NextPC(m), n)
  BY <1>1, AccessPrepares
<1>3. Prepares(m, n) /\ n \in Machine
  BY <1>1, <1>2, PreparesOn DEF Prepares
<1>4. v \in Operands
  BY ByteRead, WordsOfBytes, Widths
<1>5. XIndirect(m) = WithOperand(n, v)
  BY DEF XIndirect
<1> HIDE DEF n, v
<1>6. Prepares(n, XIndirect(m)) /\ XIndirect(m).operand = v
  BY <1>3, <1>4, <1>5, OperandPrepares
<1> QED BY <1>3, <1>6, PreparesOn DEF v

LEMMA IndirectYPrepares ==
  ASSUME NEW m \in Machine
  PROVE  LET ptr  == S8(AtPC(m))
             word == SumWord(ByteAt(m, U8(ptr + 1)), ByteAt(m, ptr))
         IN  Prepares(m, IndirectY(m)) /\ IndirectY(m).operand = U16(word + S8(m.y))
<1> DEFINE ptr  == S8(AtPC(m))
           word == SumWord(ByteAt(m, U8(ptr + 1)), ByteAt(m, ptr))
           n    == Access(NextPC(m), U8(ptr + 1))
<1>1. Prepares(m, NextPC(m)) /\ NextPC(m) \in Machine
  BY NextPCPrepares
<1>2. Prepares(NextPC(m), n)
  BY <1>1, AccessPrepares
<1>3. Prepares(m, n) /\ n \in Machine
  BY <1>1, <1>2, PreparesOn DEF Prepares
<1>4. word \in Word
  BY ByteRead, WordsOfBytes
<1>5. IndirectY(m) = WithOperand(n, U16(word + S8(m.y)))
  BY DEF IndirectY
<1> HIDE DEF n, word
<1>6. m.y \in Byte
  BY DEF Machine
<1>7. U16(word + S8(m.y)) \in Operands
  BY <1>4, <1>6, Signed DEF Word, Operands, U16
<1>8. Prepares(n, IndirectY(m)) /\ IndirectY(m).operand = U16(word + S8(m.y))
  BY <1>3, <1>5, <1>7, OperandPrepares
<1> QED BY <1>3, <1>8, PreparesOn DEF word

LEMMA RelativePrepares ==
  ASSUME NEW m \in Machine
  PROVE  /\ Prepares(m, Relative(m)) /\ Relative(m).operand \in Word
         /\ Relative(m).operand = U16(U16(m.pc + 1) + S8(AtPC(m)))
<1> DEFINE n == NextPC(m)
           v == U16(n.pc + S8(AtPC(m)))
<1>1. Prepares(m, n) /\ n \in Machine /\ n.pc = U16(m.pc + 1)
  BY NextPCPrepares
<1>2. AtPC(m) \in Byte
  BY ByteRead DEF AtPC
<1> HIDE DEF n
<1>3. v \in Word /\ v \in Operands
  BY <1>1, <1>2, Signed DEF Machine, Word, Operands, U16
<1>4. Relative(m) = WithOperand(n, v)
  BY DEF Relative, n
<1> HIDE DEF v
<1>5. Prepares(n, Relative(m)) /\ Relative(m).operand = v
  BY <1>1, <1>3, <1>4, OperandPrepares
<1> QED BY <1>1, <1>3, <1>5, PreparesOn DEF v

LEMMA ZeropagePrepares ==
  ASSUME NEW m \in Machine
  PROVE  Prepares(m, Zeropage(m)) /\ Zeropage(m).operand = S8(AtPC(m))
<1>1. Prepares(m, NextPC(m)) /\ NextPC(m) \in Machine
  BY NextPCPrepares
<1>2. S8(AtPC(m)) \in Operands
  BY ByteRead, Signed DEF AtPC
<1>3. Prepares(NextPC(m), Zeropage(m)) /\ Zeropage(m).operand = S8(AtPC(m))
  BY <1>1, <1>2, OperandPrepares DEF Zeropage
<1> QED BY <1>1, <1>3, PreparesOn

LEMMA ZeropageIndexedPrepares ==
  ASSUME NEW m \in Machine, NEW index \in Byte
  PROVE  /\ Prepares(m, ZeropageIndexed(m, index))
         /\ ZeropageIndexed(m, index).operand = U8(AtPC(m) + index)
<1>1. Prepares(m, NextPC(m)) /\ NextPC(m) \in Machine
  BY NextPCPrepares
<1>2. AtPC(m) \in Byte
  BY ByteRead DEF AtPC
<1>3. U8(AtPC(m) + index) \in Operands
  BY <1>2 DEF Byte, Operands, U8
<1>4. /\ Prepares(NextPC(m), ZeropageIndexed(m, index))
      /\ ZeropageIndexed(m, index).operand = U8(AtPC(m) + index)
  BY <1>1, <1>3, OperandPrepares DEF ZeropageIndexed
<1> QED BY <1>1, <1>4, PreparesOn

Mode ==
  {"accumulator", "implied", "immediate", "absolute", "absolute,X", "absolute,Y", "indirect",
   "X,indirect", "indirect,Y", "relative", "zeropage", "zeropage,X", "zeropage,Y"}

LEMMA ModePrepares ==
  ASSUME NEW m \in Machine, NEW mode \in Mode
  PROVE  /\ Prepares(m, Operand(mode, m))
         /\ mode = "relative" => Operand(mode, m).operand \in Word
<1>1. m.x \in Byte /\ m.y \in Byte
  BY DEF Machine
<1>2. CASE mode = "accumulator"
  BY <1>2 DEF Operand, Prepares
<1>3. CASE mode = "implied"
  BY <1>3, AccessPrepares DEF Operand
<1>4. CASE mode = "immediate"
  BY <1>4, ImmediatePrepares DEF Operand
<1>5. CASE mode = "absolute"
  BY <1>5, AbsolutePrepares DEF Operand
<1>6. CASE mode = "absolute,X"
  BY <1>1, <1>6, AbsoluteIndexedPrepares DEF Operand
<1>7. CASE mode = "absolute,Y"
  BY <1>1, <1>7, AbsoluteIndexedPrepares DEF Operand
<1>8. CASE mode = "indirect"
  BY <1>8, IndirectPrepares DEF Operand
<1>9. CASE mode = "X,indirect"
  BY <1>9, XIndirectPrepares DEF Operand
<1>10. CASE mode = "indirect,Y"
  BY <1>10, IndirectYPrepares DEF Operand
<1>11. CASE mode = "relative"
  BY <1>11, RelativePrepares DEF Operand
<1>12. CASE mode = "zeropage"
  BY <1>12, ZeropagePrepares DEF Operand
<1>13. CASE mode = "zeropage,X"
  BY <1>1, <1>13, ZeropageIndexedPrepares DEF Operand
<1>14. CASE mode = "zeropage,Y"
  BY <1>1, <1>14, ZeropageIndexedPrepares DEF Operand
<1> QED BY <1>2, <1>3, <1>4, <1>5, <1>6, <1>7, <1>8, <1>9, <1>10, <1>11, <1>12, <1>13, <1>14 DEF Mode

(***************************************************************************)
(* The operations.                                                         *)
(***************************************************************************)
LEMMA DataReads ==
  ASSUME NEW m \in Machine
  PROVE  /\ ReadData(m) \in Machine /\ Keeps(m, ReadData(m)) /\ SameRegisters(m, ReadData(m))
         /\ Data(m) \in Byte /\ S8(Data(m)) \in Int
BY AccessKeeps, ByteRead, Signed DEF ReadData, Data

LEMMA LoadKeeps ==
  ASSUME NEW m \in Machine, NEW r \in Register
  PROVE  Keeps(m, Load(r, m))
<1>1. Keeps(ReadData(m), Load(r, m))
  BY DataReads, RegisterKeeps DEF Load
<1> QED BY <1>1, DataReads, KeepsOn

LEMMA StoreKeeps ==
  ASSUME NEW m \in Machine, NEW r \in Register
  PROVE  Keeps(m, Store(r, m))
BY RegisterRead, WriteKeeps DEF Store

LEMMA TransferKeeps ==
  ASSUME NEW m \in Machine, NEW r \in Register, NEW to \in Register
  PROVE  Keeps(m, Transfer(r, to, m)) /\ Keeps(m, Transfer("sp", to, m)) /\ Keeps(m, TxsToStack(m))
<1>1. m[r] \in Byte /\ m["sp"] \in Byte
  BY RegisterRead DEF Machine
<1>2. /\ TxsToStack(m) \in Machine
      /\ TxsToStack(m).mem = m.mem /\ TxsToStack(m).operand = m.operand
  BY DEF TxsToStack, Machine
<1> QED BY <1>1, <1>2, RegisterKeeps, RegistersKeep DEF Transfer

LEMMA StepKeeps ==
  ASSUME NEW m \in Machine, NEW r \in Register, NEW by \in {1, -1}
  PROVE  Keeps(m, Step8(r, by, m))
<1>1. U8(m[r] + by) \in Byte
  BY RegisterRead DEF Byte, U8
<1> QED BY <1>1, RegisterKeeps DEF Step8

LEMMA LogicKeeps ==
  ASSUME NEW m \in Machine
  PROVE  Keeps(m, Logic(And, m)) /\ Keeps(m, Logic(Or, m)) /\ Keeps(m, Logic(Xor, m))
<1>1. m.a \in Byte /\ "a" \in Register
  BY DEF Machine, Register
<1>2. /\ And(m.a, Data(m)) \in Byte /\ Or(m.a, Data(m)) \in Byte /\ Xor(m.a, Data(m)) \in Byte
  BY <1>1, DataReads, AndType, OrType, XorType
<1>3. /\ Keeps(ReadData(m), Logic(And, m)) /\ Keeps(ReadData(m), Logic(Or, m))
      /\ Keeps(ReadData(m), Logic(Xor, m))
  BY <1>1, <1>2, DataReads, RegisterKeeps DEF Logic
<1> QED BY <1>3, DataReads, KeepsOn

\* C, then N and Z.
LEMMA CarryNZKeeps ==
  ASSUME NEW m \in Machine, NEW v \in 0..1, NEW n \in Int
  PROVE  Keeps(m, WithNZ(WithCarry(m, v), n))
<1>1. Keeps(m, WithCarry(m, v)) /\ WithCarry(m, v) \in Machine
  BY FlagKeeps DEF WithCarry, Keeps
<1>2. Keeps(WithCarry(m, v), WithNZ(WithCarry(m, v), n))
  BY <1>1, NZKeeps
<1> QED BY <1>1, <1>2, KeepsOn

LEMMA NinthBit ==
  ASSUME NEW n \in Int
  PROVE  Bit8(n) \in 0..1 /\ 1 - Bit8(n) \in 0..1
BY DEF Bit8

LEMMA CompareKeeps ==
  ASSUME NEW m \in Machine, NEW r \in Register
  PROVE  Keeps(m, Compare(r, m))
<1> DEFINE d == S8(m[r]) - S8(Data(m))
<1>1. d \in Int
  BY RegisterRead, DataReads, Signed
<1>2. 1 - Bit8(d) \in 0..1
  BY <1>1, NinthBit
<1>3. Compare(r, m) = WithNZ(WithCarry(ReadData(m), 1 - Bit8(d)), d)
  BY DEF Compare
<1> HIDE DEF d
<1>4. Keeps(ReadData(m), Compare(r, m))
  BY <1>1, <1>2, <1>3, DataReads, CarryNZKeeps
<1> QED BY <1>4, DataReads, KeepsOn

LEMMA BitTestKeeps ==
  ASSUME NEW m \in Machine
  PROVE  Keeps(m, BitTest(m))
<1> DEFINE v == AtPC(m)
           k == Access(m, m.pc)
           n == WithFlag(k, 6, Bit(v, 6))
           l == WithFlag(n, 7, Bit(v, 7))
           z == One(And(v, m.a) = 0)
<1>1. Bit(v, 6) \in 0..1 /\ Bit(v, 7) \in 0..1 /\ z \in 0..1
  BY ByteRead, BitsOfByte DEF AtPC, One
<1>2. BitTest(m) = WithFlag(l, 1, z)
  BY DEF BitTest, WithOverflow
<1>3. Keeps(m, k) /\ k \in Machine
  BY AccessKeeps
<1> HIDE DEF v, k, z
<1>4. Keeps(k, n) /\ n \in Machine
  BY <1>1, <1>3, FlagKeeps DEF Keeps
<1> HIDE DEF n
<1>5. Keeps(n, l) /\ l \in Machine
  BY <1>1, <1>4, FlagKeeps DEF Keeps
<1> HIDE DEF l
<1>6. Keeps(l, BitTest(m))
  BY <1>1, <1>2, <1>5, FlagKeeps
<1> QED BY <1>3, <1>4, <1>5, <1>6, KeepsOn

LEMMA AccumulatorKeeps ==
  ASSUME NEW m \in Machine, NEW v \in Byte
  PROVE  /\ Keeps(m, [m EXCEPT !.a = v]) /\ [m EXCEPT !.a = v] \in Machine
         /\ [m EXCEPT !.a = v].a = v /\ [m EXCEPT !.a = v].sr = m.sr
<1>1. /\ [m EXCEPT !.a = v] \in Machine
      /\ [m EXCEPT !.a = v].mem = m.mem /\ [m EXCEPT !.a = v].operand = m.operand
      /\ [m EXCEPT !.a = v].a = v /\ [m EXCEPT !.a = v].sr = m.sr
  BY DEF Machine
<1> QED BY <1>1, RegistersKeep

LEMMA CarryIsBit ==
  ASSUME NEW m \in Machine
  PROVE  Carry(m) \in 0..1
BY BitsOfByte DEF Carry, Machine

LEMMA AdcBinaryKeeps ==
  ASSUME NEW m \in Machine
  PROVE  Keeps(m, AdcBinary(m))
<1> DEFINE d     == Data(m)
           value == S8(m.a) + S8(d) + Carry(m)
           sum   == U8(value)
           v     == One(Bit(m.a, 7) = Bit(d, 7) /\ Bit(sum, 7) # Bit(m.a, 7))
           k     == ReadData(m)
           l     == [k EXCEPT !.a = sum]
           n     == WithOverflow(l, v)
<1>1. value \in Int /\ v \in 0..1
  BY DataReads, Signed, CarryIsBit DEF Machine, One
<1>2. sum \in Byte /\ Bit8(value) \in 0..1
  BY <1>1, Narrowed, NinthBit
<1>3. AdcBinary(m) = WithNZ(WithCarry(n, Bit8(value)), value)
  BY DEF AdcBinary
<1>4. k \in Machine /\ Keeps(m, k)
  BY DataReads
<1> HIDE DEF value, sum, v, k
<1>5. l \in Machine /\ Keeps(k, l)
  BY <1>2, <1>4, AccumulatorKeeps
<1> HIDE DEF l
<1>6. n \in Machine /\ Keeps(l, n)
  BY <1>1, <1>5, FlagKeeps DEF WithOverflow, Keeps
<1> HIDE DEF n
<1>7. Keeps(n, AdcBinary(m))
  BY <1>1, <1>2, <1>3, <1>6, CarryNZKeeps
<1> QED BY <1>4, <1>5, <1>6, <1>7, KeepsOn

LEMMA AdcDecimalKeeps ==
  ASSUME NEW m \in Machine
  PROVE  Keeps(m, AdcDecimal(m))
<1> DEFINE d     == Data(m)
           low   == (m.a % 16) + (d % 16) + Carry(m)
           a     == IF low < 10 THEN low ELSE low + 6
           high  == 16 * ((m.a \div 16) + (d \div 16) + (low \div 16))
           v     == One(Bit(m.a, 7) = Bit(d, 7) /\ Bit(high, 7) # Bit(m.a, 7))
           total == (a % 16) + (IF high < 160 THEN high ELSE high + 96)
           z     == One(U8(m.a + d + Carry(m)) = 0)
           c     == One(total > 256)
           k     == ReadData(m)
           f     == WithFlag(k, 1, z)
           g     == WithFlag(f, 7, 0)
           l     == [g EXCEPT !.a = U8(total)]
           n     == WithOverflow(l, v)
<1>1. m.a \in Int /\ d \in Int /\ Carry(m) \in Int
  BY DataReads, CarryIsBit DEF Machine, Byte
<1>2. low \in Int
  BY <1>1
<1>3. a \in Int /\ high \in Int
  BY <1>1, <1>2
<1>4. total \in Int
  BY <1>3
<1>5. z \in 0..1 /\ v \in 0..1 /\ c \in 0..1
  BY DEF One
<1>6. U8(total) \in Byte
  BY <1>4, Narrowed
<1>7. AdcDecimal(m) = WithCarry(n, c)
  BY DEF AdcDecimal
<1>8. k \in Machine /\ Keeps(m, k)
  BY DataReads
<1> HIDE DEF total, z, v, c, k
<1>9. f \in Machine /\ Keeps(k, f)
  BY <1>5, <1>8, FlagKeeps DEF Keeps
<1> HIDE DEF f
<1>10. g \in Machine /\ Keeps(f, g)
  BY <1>9, FlagKeeps DEF Keeps
<1> HIDE DEF g
<1>11. l \in Machine /\ Keeps(g, l)
  BY <1>6, <1>10, AccumulatorKeeps
<1> HIDE DEF l
<1>12. n \in Machine /\ Keeps(l, n)
  BY <1>5, <1>11, FlagKeeps DEF WithOverflow, Keeps
<1> HIDE DEF n
<1>13. Keeps(n, AdcDecimal(m))
  BY <1>5, <1>7, <1>12, FlagKeeps DEF WithCarry
<1>14. Keeps(m, g)
  BY <1>8, <1>9, <1>10, KeepsOn
<1> QED BY <1>11, <1>12, <1>13, <1>14, KeepsOn

LEMMA SbcKeeps ==
  ASSUME NEW m \in Machine
  PROVE  Keeps(m, Sbc(m))
<1> DEFINE k    == ReadData(m)
           d    == Data(m)
           diff == U8(Difference(m))
           v    == One(Bit(m.a, 7) # Bit(d, 7) /\ Bit(diff, 7) # Bit(m.a, 7))
           l    == [k EXCEPT !.a = diff]
           low  == (m.a % 16) - (d % 16) - (1 - Carry(m))
           a    == U8(IF Bit(U8(low), 4) = 0 THEN low ELSE low - 6)
           high == 16 * ((m.a \div 16) - (d \div 16) - Bit(a, 4))
           dec  == U8((a % 16) + (IF Bit8(high) = 0 THEN high ELSE high - 96))
           n    == IF Decimal(m) THEN SbcDecimal(m) ELSE SbcBinary(m)
<1>1. k \in Machine /\ Keeps(m, k)
  BY DataReads
<1>2. Difference(m) \in Int
  BY DataReads, Signed, CarryIsBit DEF Difference, Machine
<1>3. diff \in Byte /\ v \in 0..1 /\ 1 - Bit8(Difference(m)) \in 0..1
  BY <1>2, Narrowed, NinthBit DEF One
<1>4. dec \in Byte
  <2>1. m.a \in Int /\ d \in Int /\ Carry(m) \in Int
    BY DataReads, CarryIsBit DEF Machine, Byte
  <2>2. low \in Int
    BY <2>1
  <2>3. (IF Bit(U8(low), 4) = 0 THEN low ELSE low - 6) \in Int
    BY <2>2
  <2>4. a \in Byte
    BY <2>3, Narrowed
  <2>5. Bit(a, 4) \in Int /\ a \in Int
    BY <2>4, BitsOfByte DEF Byte
  <2> HIDE DEF a
  <2>6. high \in Int
    BY <2>1, <2>5
  <2> HIDE DEF high
  <2>7. (a % 16) + (IF Bit8(high) = 0 THEN high ELSE high - 96) \in Int
    BY <2>5, <2>6
  <2> QED BY <2>7, Narrowed
<1>5. SbcBinary(m) = WithOverflow(l, v) /\ SbcDecimal(m) = [k EXCEPT !.a = dec]
  BY DEF SbcBinary, SbcDecimal
<1>6. Sbc(m) = WithNZ(WithCarry(n, 1 - Bit8(Difference(m))), Difference(m))
  BY DEF Sbc
<1> HIDE DEF k, diff, v, dec
<1>7. l \in Machine /\ Keeps(k, l)
  BY <1>1, <1>3, AccumulatorKeeps
<1> HIDE DEF l
<1>8. SbcBinary(m) \in Machine /\ Keeps(l, SbcBinary(m))
  BY <1>3, <1>5, <1>7, FlagKeeps DEF WithOverflow, Keeps
<1>9. SbcDecimal(m) \in Machine /\ Keeps(k, SbcDecimal(m))
  BY <1>1, <1>4, <1>5, AccumulatorKeeps
<1>10. Keeps(m, SbcBinary(m)) /\ Keeps(m, SbcDecimal(m))
  BY <1>1, <1>7, <1>8, <1>9, KeepsOn
<1>11. n \in Machine /\ Keeps(m, n)
  BY <1>8, <1>9, <1>10
<1> HIDE DEF n
<1>12. Keeps(n, Sbc(m))
  BY <1>2, <1>3, <1>6, <1>11, CarryNZKeeps
<1> QED BY <1>11, <1>12, KeepsOn

LEMMA ModifyKeeps ==
  ASSUME NEW m \in Machine, NEW result \in Byte, NEW carry \in 0..1
  PROVE  Keeps(m, Modify(m, result, carry))
<1> DEFINE n == Write(m, m.operand, result)
<1>1. Keeps(m, n) /\ n \in Machine
  BY WriteKeeps DEF Keeps
<1>2. S8(result) \in Int
  BY Signed
<1>3. Modify(m, result, carry) = WithNZ(WithCarry(n, carry), S8(result))
  BY DEF Modify
<1> HIDE DEF n
<1>4. Keeps(n, Modify(m, result, carry))
  BY <1>1, <1>2, <1>3, CarryNZKeeps
<1> QED BY <1>1, <1>4, KeepsOn

\* What the rotations make of a byte and a bit is a byte.
LEMMA ShiftedBytes ==
  ASSUME NEW b \in Byte, NEW c \in 0..1
  PROVE  /\ U8(2 * b) \in Byte /\ U8(2 * b) + c \in Byte
         /\ U8(S8(b) \div 2) \in Byte /\ (b \div 2) + 128 * c \in Byte
         /\ U8(2 * b) \in Int
<1>1. U8(2 * b) = IF b < 128 THEN 2 * b ELSE 2 * b - 256
  BY DEF Byte, U8
<1>2. S8(b) \div 2 \in Int
  BY DEF Byte, S8
<1>3. U8(S8(b) \div 2) \in Byte
  BY <1>2, Narrowed
<1>4. (b \div 2) + 128 * c \in Byte
  BY DEF Byte
<1>5. U8(2 * b) \in Byte /\ U8(2 * b) + c \in Byte
  BY <1>1 DEF Byte
<1> QED BY <1>3, <1>4, <1>5 DEF Byte

LEMMA CountKeeps ==
  ASSUME NEW m \in Machine, NEW by \in {1, -1}
  PROVE  Keeps(m, Count(by, m))
<1> DEFINE v == U8(Data(m) + by)
           n == Write(m, m.operand, v)
<1>1. v \in Byte
  BY DataReads DEF Byte, U8
<1>2. Count(by, m) = WithNZ(n, S8(v))
  BY DEF Count
<1> HIDE DEF v
<1>3. Keeps(m, n) /\ n \in Machine
  BY <1>1, WriteKeeps DEF Keeps
<1>4. S8(v) \in Int
  BY <1>1, Signed
<1> HIDE DEF n
<1>5. Keeps(n, Count(by, m))
  BY <1>2, <1>3, <1>4, NZKeeps
<1> QED BY <1>3, <1>5, KeepsOn

LEMMA ShiftsKeep ==
  ASSUME NEW m \in Machine
  PROVE  Keeps(m, Asl(m)) /\ Keeps(m, Lsr(m)) /\ Keeps(m, Rol(m)) /\ Keeps(m, Ror(m))
<1>1. Data(m) \in Byte /\ Carry(m) \in 0..1
  BY DataReads, CarryIsBit
<1>2. Bit(Data(m), 7) \in 0..1 /\ Bit(Data(m), 0) \in 0..1
  BY <1>1, BitsOfByte
<1>3. /\ U8(2 * Data(m)) \in Byte /\ U8(2 * Data(m)) + Carry(m) \in Byte
      /\ U8(S8(Data(m)) \div 2) \in Byte /\ (Data(m) \div 2) + 128 * Carry(m) \in Byte
  BY <1>1, ShiftedBytes
<1> QED BY <1>2, <1>3, ModifyKeeps DEF Asl, Lsr, Rol, Ror

LEMMA AccumulatorShiftsKeep ==
  ASSUME NEW m \in Machine
  PROVE  Keeps(m, AslA(m)) /\ Keeps(m, LsrA(m)) /\ Keeps(m, RolA(m)) /\ Keeps(m, RorA(m))
<1> DEFINE high == IF m.a < 128 THEN Carry(m) ELSE 1
<1>1. m.a \in Byte /\ Carry(m) \in 0..1 /\ "a" \in Register
  BY CarryIsBit DEF Machine, Register
<1>2. Bit(m.a, 7) \in 0..1 /\ Bit(m.a, 0) \in 0..1
  BY <1>1, BitsOfByte
<1>3. high \in 0..1
  BY <1>1
<1>4. /\ U8(2 * m.a) \in Int /\ U8(2 * m.a) + Carry(m) \in Byte
      /\ U8(S8(m.a) \div 2) \in Byte
  BY <1>1, ShiftedBytes
<1>5. (m.a \div 2) + 128 * high \in Byte
  BY <1>1, <1>3, ShiftedBytes
<1>6. Keeps(m, AslA(m))
  BY <1>4, CarryNZKeeps DEF AslA
<1>7. /\ Keeps(m, WithCarry(m, Bit(m.a, 7))) /\ WithCarry(m, Bit(m.a, 7)) \in Machine
      /\ Keeps(m, WithCarry(m, Bit(m.a, 0))) /\ WithCarry(m, Bit(m.a, 0)) \in Machine
  BY <1>2, FlagKeeps DEF WithCarry, Keeps
<1>8. Keeps(WithCarry(m, Bit(m.a, 0)), LsrA(m))
  BY <1>1, <1>4, <1>7, RegisterKeeps DEF LsrA
<1>9. Keeps(WithCarry(m, Bit(m.a, 7)), RolA(m))
  BY <1>1, <1>4, <1>7, RegisterKeeps DEF RolA
<1>10. Keeps(WithCarry(m, Bit(m.a, 0)), RorA(m))
  BY <1>1, <1>5, <1>7, RegisterKeeps DEF RorA
<1> QED BY <1>6, <1>7, <1>8, <1>9, <1>10, KeepsOn

LEMMA PCKeeps ==
  ASSUME NEW m \in Machine, NEW w \in Word
  PROVE  Keeps(m, [m EXCEPT !.pc = w])
<1>1. /\ [m EXCEPT !.pc = w] \in Machine
      /\ [m EXCEPT !.pc = w].mem = m.mem /\ [m EXCEPT !.pc = w].operand = m.operand
  BY DEF Machine
<1> QED BY <1>1, RegistersKeep

LEMMA BranchKeeps ==
  ASSUME NEW m \in Machine, m.operand \in Word, NEW taken
  PROVE  Keeps(m, Branch(taken, m))
<1> DEFINE here  == Access(m, m.pc)
           cross == Access(here, 256 * Page(m.pc) + U8(m.operand))
           n     == IF Page(m.pc) # Page(m.operand) THEN cross ELSE here
<1>1. Keeps(m, here) /\ here \in Machine
  BY AccessKeeps
<1>2. Keeps(here, cross) /\ cross \in Machine
  BY <1>1, AccessKeeps
<1>3. Keeps(m, n) /\ n \in Machine
  BY <1>1, <1>2, KeepsOn
<1>4. Branch(taken, m) = IF taken THEN [n EXCEPT !.pc = m.operand] ELSE m
  BY DEF Branch
<1> HIDE DEF n
<1>5. Keeps(n, [n EXCEPT !.pc = m.operand])
  BY <1>3, PCKeeps
<1>6. Keeps(m, m)
  BY RegistersKeep
<1> QED BY <1>3, <1>4, <1>5, <1>6, KeepsOn

LEMMA JumpKeeps ==
  ASSUME NEW m \in Machine
  PROVE  Keeps(m, Jump(m))
<1>1. U16(m.operand) \in Word
  BY Narrowed DEF Machine, Operands
<1> QED BY <1>1, PCKeeps DEF Jump

LEMMA JsrKeeps ==
  ASSUME NEW m \in Machine
  PROVE  Keeps(m, Jsr(m))
<1> DEFINE k == ReadStack(NextPC(m))
           n == PushPC(k)
           l == Access(n, n.pc)
           w == SumWord(AtPC(n), AtPC(m))
<1>1. Keeps(m, NextPC(m)) /\ NextPC(m) \in Machine
  BY NextPCPrepares
<1>2. Keeps(NextPC(m), k) /\ k \in Machine
  BY <1>1, AccessKeeps DEF ReadStack
<1>3. Jsr(m) = [l EXCEPT !.pc = w]
  BY DEF Jsr
<1> HIDE DEF k
<1>4. Keeps(k, n) /\ n \in Machine
  BY <1>2, PushPCKeeps DEF Keeps
<1> HIDE DEF n
<1>5. Keeps(n, l) /\ l \in Machine
  BY <1>4, AccessKeeps
<1>6. w \in Word
  BY <1>4, ByteRead, WordsOfBytes DEF AtPC
<1> HIDE DEF l, w
<1>7. Keeps(l, Jsr(m))
  BY <1>3, <1>5, <1>6, PCKeeps
<1>8. Keeps(m, n)
  BY <1>1, <1>2, <1>4, KeepsOn
<1> QED BY <1>5, <1>7, <1>8, KeepsOn

LEMMA StackKeeps ==
  ASSUME NEW m \in Machine
  PROVE  /\ Keeps(m, Php(m)) /\ Keeps(m, Pha(m)) /\ Keeps(m, Plp(m)) /\ Keeps(m, Pla(m))
         /\ Keeps(m, Rti(m)) /\ Keeps(m, Rts(m))
<1>1. Keeps(m, Php(m)) /\ Keeps(m, Pha(m))
  BY PushKeeps DEF Php, Pha, Machine
<1>2. Keeps(m, ReadStack(m)) /\ ReadStack(m) \in Machine
  BY AccessKeeps DEF ReadStack
<1>3. \A k \in Machine : Keeps(k, Plp(k)) /\ Plp(k) \in Machine
  BY PlpReads, RegistersKeep
<1>4. Keeps(m, Pla(m))
  <2> DEFINE n == Pop(ReadStack(m))
  <2>1. Keeps(ReadStack(m), n) /\ n \in Machine /\ Popped(n) \in Byte
    BY <1>2, PopReads, PopKeeps
  <2>2. Pla(m) = SetRegister(n, "a", Popped(n)) /\ "a" \in Register
    BY DEF Pla, Register
  <2> HIDE DEF n
  <2>3. Keeps(n, Pla(m))
    BY <2>1, <2>2, RegisterKeeps
  <2> QED BY <1>2, <2>1, <2>3, KeepsOn
<1>5. Keeps(m, Rti(m))
  <2>1. Keeps(ReadStack(m), Plp(ReadStack(m))) /\ Plp(ReadStack(m)) \in Machine
    BY <1>2, <1>3
  <2>2. Keeps(Plp(ReadStack(m)), Rti(m))
    BY <2>1, PopPCKeeps DEF Rti
  <2> QED BY <1>2, <2>1, <2>2, KeepsOn
<1>6. Keeps(m, Rts(m))
  <2> DEFINE n == PopPC(ReadStack(m))
  <2>1. Keeps(ReadStack(m), n) /\ n \in Machine
    BY <1>2, PopPCReads, PopPCKeeps
  <2>2. Keeps(n, Rts(m))
    BY <2>1, AccessKeeps DEF Rts
  <2> QED BY <1>2, <2>1, <2>2, KeepsOn
<1> QED BY <1>1, <1>3, <1>4, <1>5, <1>6

LEMMA BrkKeeps ==
  ASSUME NEW m \in Machine
  PROVE  Keeps(m, Brk(m))
<1> DEFINE k == Access(m, m.pc)
           l == PushPC(k)
           n == Php(l)
           v == Access(n, BREAK_VECTOR_PTR)
           f == WithFlag(v, 2, 1)
           w == U16(S8(ByteAt(n, BREAK_VECTOR_PTR)))
<1>1. Keeps(m, k) /\ k \in Machine
  BY AccessKeeps
<1>2. Brk(m) = [f EXCEPT !.pc = w]
  BY DEF Brk
<1> HIDE DEF k
<1>3. Keeps(k, l) /\ l \in Machine
  BY <1>1, PushPCKeeps DEF Keeps
<1> HIDE DEF l
<1>4. Keeps(l, n) /\ n \in Machine
  BY <1>3, StackKeeps DEF Keeps
<1> HIDE DEF n
<1>5. Keeps(n, v) /\ v \in Machine
  BY <1>4, AccessKeeps
<1>6. w \in Word
  BY <1>4, ByteRead, Signed, Narrowed
<1> HIDE DEF v, w
<1>7. Keeps(v, f) /\ f \in Machine
  BY <1>5, FlagKeeps DEF Keeps
<1> HIDE DEF f
<1>8. Keeps(f, Brk(m))
  BY <1>2, <1>6, <1>7, PCKeeps
<1>9. Keeps(m, n)
  BY <1>1, <1>3, <1>4, KeepsOn
<1> QED BY <1>5, <1>7, <1>8, <1>9, KeepsOn

Branches == {"bcc", "bcs", "bne", "beq", "bvc", "bvs", "bpl", "bmi"}


Others ==
  {"lda", "ldx", "ldy", "sta", "stx", "sty", "tax", "tay", "tsx", "txa", "txs", "tya",
   "inx", "iny", "dex", "dey", "inc", "dec", "and", "ora", "eor", "bit", "cmp", "cpx", "cpy",
   "adc", "sbc", "asl", "lsr", "rol", "ror", "asl_a", "lsr_a", "rol_a", "ror_a",
   "clc", "sec", "cli", "sei", "cld", "sed", "clv",
   "jmp", "jsr", "rts", "rti", "brk", "php", "pha", "plp", "pla", "nop"}

Operation == Others \union Branches \union {"hang"}

(***************************************************************************)
(* The table of instructions: an operation the chip has, with the operand  *)
(* function a branch needs.                                                *)
(***************************************************************************)
Defined(entry) ==
  /\ entry.op \in Operation
  /\ IF entry.op = "hang" THEN entry.mode = "none" ELSE entry.mode \in Mode
  /\ entry.op \in Branches => entry.mode = "relative"

LEMMA EntriesDefined ==
  /\ Defined(Hang)
  /\ \A op \in Others :
       /\ Defined(Imp(op)) /\ Defined(Acc(op)) /\ Defined(Imm(op)) /\ Defined(Abs(op))
       /\ Defined(AbsX(op)) /\ Defined(AbsY(op)) /\ Defined(Ind(op)) /\ Defined(IndX(op))
       /\ Defined(IndY(op)) /\ Defined(Zp(op)) /\ Defined(ZpX(op)) /\ Defined(ZpY(op))
  /\ \A op \in Branches : Defined(Rel(op))
BY DEF Defined, Operation, Others, Branches, Mode, Hang, Imp, Acc, Imm, Abs, AbsX, AbsY, Ind, IndX,
       IndY, Zp, ZpX, ZpY, Rel

LEMMA TableDefined ==
  ASSUME NEW row \in 1..16, NEW i \in 1..16
  PROVE  Defined(Instructions[row][i])
<1>1. CASE row = 1
  <2>1. Instructions[row] = Opcodes0
    BY <1>1 DEF Instructions
  <2> QED BY <2>1, EntriesDefined DEF Others, Branches, Opcodes0
<1>2. CASE row = 2
  <2>1. Instructions[row] = Opcodes1
    BY <1>2 DEF Instructions
  <2> QED BY <2>1, EntriesDefined DEF Others, Branches, Opcodes1
<1>3. CASE row = 3
  <2>1. Instructions[row] = Opcodes2
    BY <1>3 DEF Instructions
  <2> QED BY <2>1, EntriesDefined DEF Others, Branches, Opcodes2
<1>4. CASE row = 4
  <2>1. Instructions[row] = Opcodes3
    BY <1>4 DEF Instructions
  <2> QED BY <2>1, EntriesDefined DEF Others, Branches, Opcodes3
<1>5. CASE row = 5
  <2>1. Instructions[row] = Opcodes4
    BY <1>5 DEF Instructions
  <2> QED BY <2>1, EntriesDefined DEF Others, Branches, Opcodes4
<1>6. CASE row = 6
  <2>1. Instructions[row] = Opcodes5
    BY <1>6 DEF Instructions
  <2> QED BY <2>1, EntriesDefined DEF Others, Branches, Opcodes5
<1>7. CASE row = 7
  <2>1. Instructions[row] = Opcodes6
    BY <1>7 DEF Instructions
  <2> QED BY <2>1, EntriesDefined DEF Others, Branches, Opcodes6
<1>8. CASE row = 8
  <2>1. Instructions[row] = Opcodes7
    BY <1>8 DEF Instructions
  <2> QED BY <2>1, EntriesDefined DEF Others, Branches, Opcodes7
<1>9. CASE row = 9
  <2>1. Instructions[row] = Opcodes8
    BY <1>9 DEF Instructions
  <2> QED BY <2>1, EntriesDefined DEF Others, Branches, Opcodes8
<1>10. CASE row = 10
  <2>1. Instructions[row] = Opcodes9
    BY <1>10 DEF Instructions
  <2> QED BY <2>1, EntriesDefined DEF Others, Branches, Opcodes9
<1>11. CASE row = 11
  <2>1. Instructions[row] = OpcodesA
    BY <1>11 DEF Instructions
  <2> QED BY <2>1, EntriesDefined DEF Others, Branches, OpcodesA
<1>12. CASE row = 12
  <2>1. Instructions[row] = OpcodesB
    BY <1>12 DEF Instructions
  <2> QED BY <2>1, EntriesDefined DEF Others, Branches, OpcodesB
<1>13. CASE row = 13
  <2>1. Instructions[row] = OpcodesC
    BY <1>13 DEF Instructions
  <2> QED BY <2>1, EntriesDefined DEF Others, Branches, OpcodesC
<1>14. CASE row = 14
  <2>1. Instructions[row] = OpcodesD
    BY <1>14 DEF Instructions
  <2> QED BY <2>1, EntriesDefined DEF Others, Branches, OpcodesD
<1>15. CASE row = 15
  <2>1. Instructions[row] = OpcodesE
    BY <1>15 DEF Instructions
  <2> QED BY <2>1, EntriesDefined DEF Others, Branches, OpcodesE
<1>16. CASE row = 16
  <2>1. Instructions[row] = OpcodesF
    BY <1>16 DEF Instructions
  <2> QED BY <2>1, EntriesDefined DEF Others, Branches, OpcodesF
<1> QED BY <1>1, <1>2, <1>3, <1>4, <1>5, <1>6, <1>7, <1>8, <1>9, <1>10, <1>11, <1>12, <1>13, <1>14, <1>15, <1>16

LEMMA Decoded ==
  ASSUME NEW ir \in Byte
  PROVE  Defined(Decode(ir))
<1>1. (ir \div 16) + 1 \in 1..16 /\ (ir % 16) + 1 \in 1..16
  BY DEF Byte
<1> QED BY <1>1, TableDefined DEF Decode

(***************************************************************************)
(* One instruction, whichever it is.                                       *)
(***************************************************************************)
LEMMA StatusKeeps ==
  ASSUME NEW m \in Machine, NEW code \in Status
  PROVE  /\ Keeps(m, [m EXCEPT !.status = code])
         /\ Prepares(m, [m EXCEPT !.status = code])
         /\ [m EXCEPT !.status = code].pc = m.pc /\ [m EXCEPT !.status = code].ir = m.ir
<1> DEFINE n == [m EXCEPT !.status = code]
<1>1. n \in Machine /\ n.mem = m.mem /\ n.operand = m.operand /\ n.pc = m.pc /\ n.ir = m.ir
  BY DEF Machine
<1>2. n.a = m.a /\ n.x = m.x /\ n.y = m.y /\ n.sp = m.sp /\ n.sr = m.sr
  BY DEF Machine
<1> QED BY <1>1, <1>2, RegistersKeep DEF Prepares

LEMMA ExecKeeps ==
  ASSUME NEW m \in Machine, NEW op \in Operation, op \in Branches => m.operand \in Word
  PROVE  Keeps(m, Exec(op, m))
<1>1. CASE op \in {"lda", "ldx", "ldy"}
  <2>1. CASE op = "lda"
    BY <2>1, LoadKeeps DEF Exec, Register
  <2>2. CASE op = "ldx"
    BY <2>2, LoadKeeps DEF Exec, Register
  <2>3. CASE op = "ldy"
    BY <2>3, LoadKeeps DEF Exec, Register
  <2> QED BY <1>1, <2>1, <2>2, <2>3
<1>2. CASE op \in {"sta", "stx", "sty"}
  <2>1. CASE op = "sta"
    BY <2>1, StoreKeeps DEF Exec, Register
  <2>2. CASE op = "stx"
    BY <2>2, StoreKeeps DEF Exec, Register
  <2>3. CASE op = "sty"
    BY <2>3, StoreKeeps DEF Exec, Register
  <2> QED BY <1>2, <2>1, <2>2, <2>3
<1>3. CASE op \in {"tax", "tay", "tsx", "txa", "txs", "tya"}
  <2>1. CASE op = "tax"
    BY <2>1, TransferKeeps DEF Exec, Register
  <2>2. CASE op = "tay"
    BY <2>2, TransferKeeps DEF Exec, Register
  <2>3. CASE op = "tsx"
    BY <2>3, TransferKeeps DEF Exec, Register
  <2>4. CASE op = "txa"
    BY <2>4, TransferKeeps DEF Exec, Register
  <2>5. CASE op = "txs"
    BY <2>5, TransferKeeps DEF Exec, Register
  <2>6. CASE op = "tya"
    BY <2>6, TransferKeeps DEF Exec, Register
  <2> QED BY <1>3, <2>1, <2>2, <2>3, <2>4, <2>5, <2>6
<1>4. CASE op \in {"inx", "iny", "dex", "dey"}
  <2>1. CASE op = "inx"
    BY <2>1, StepKeeps DEF Exec, Register
  <2>2. CASE op = "iny"
    BY <2>2, StepKeeps DEF Exec, Register
  <2>3. CASE op = "dex"
    BY <2>3, StepKeeps DEF Exec, Register
  <2>4. CASE op = "dey"
    BY <2>4, StepKeeps DEF Exec, Register
  <2> QED BY <1>4, <2>1, <2>2, <2>3, <2>4
<1>5. CASE op \in {"inc", "dec"}
  <2>1. CASE op = "inc"
    BY <2>1, CountKeeps DEF Exec
  <2>2. CASE op = "dec"
    BY <2>2, CountKeeps DEF Exec
  <2> QED BY <1>5, <2>1, <2>2
<1>6. CASE op \in {"and", "ora", "eor"}
  <2>1. CASE op = "and"
    BY <2>1, LogicKeeps DEF Exec
  <2>2. CASE op = "ora"
    BY <2>2, LogicKeeps DEF Exec
  <2>3. CASE op = "eor"
    BY <2>3, LogicKeeps DEF Exec
  <2> QED BY <1>6, <2>1, <2>2, <2>3
<1>7. CASE op \in {"bit"}
  BY <1>7, BitTestKeeps DEF Exec
<1>8. CASE op \in {"cmp", "cpx", "cpy"}
  <2>1. CASE op = "cmp"
    BY <2>1, CompareKeeps DEF Exec, Register
  <2>2. CASE op = "cpx"
    BY <2>2, CompareKeeps DEF Exec, Register
  <2>3. CASE op = "cpy"
    BY <2>3, CompareKeeps DEF Exec, Register
  <2> QED BY <1>8, <2>1, <2>2, <2>3
<1>9. CASE op \in {"adc", "sbc"}
  <2>1. CASE op = "adc"
    BY <2>1, AdcBinaryKeeps, AdcDecimalKeeps, SbcKeeps DEF Exec, Adc
  <2>2. CASE op = "sbc"
    BY <2>2, AdcBinaryKeeps, AdcDecimalKeeps, SbcKeeps DEF Exec, Adc
  <2> QED BY <1>9, <2>1, <2>2
<1>10. CASE op \in {"asl", "lsr", "rol", "ror"}
  <2>1. CASE op = "asl"
    BY <2>1, ShiftsKeep DEF Exec
  <2>2. CASE op = "lsr"
    BY <2>2, ShiftsKeep DEF Exec
  <2>3. CASE op = "rol"
    BY <2>3, ShiftsKeep DEF Exec
  <2>4. CASE op = "ror"
    BY <2>4, ShiftsKeep DEF Exec
  <2> QED BY <1>10, <2>1, <2>2, <2>3, <2>4
<1>11. CASE op \in {"asl_a", "lsr_a", "rol_a", "ror_a"}
  <2>1. CASE op = "asl_a"
    BY <2>1, AccumulatorShiftsKeep DEF Exec
  <2>2. CASE op = "lsr_a"
    BY <2>2, AccumulatorShiftsKeep DEF Exec
  <2>3. CASE op = "rol_a"
    BY <2>3, AccumulatorShiftsKeep DEF Exec
  <2>4. CASE op = "ror_a"
    BY <2>4, AccumulatorShiftsKeep DEF Exec
  <2> QED BY <1>11, <2>1, <2>2, <2>3, <2>4
<1>12. CASE op \in {"clc", "sec", "cli", "sei", "cld", "sed", "clv"}
  <2>1. CASE op = "clc"
    BY <2>1, FlagKeeps DEF Exec
  <2>2. CASE op = "sec"
    BY <2>2, FlagKeeps DEF Exec
  <2>3. CASE op = "cli"
    BY <2>3, FlagKeeps DEF Exec
  <2>4. CASE op = "sei"
    BY <2>4, FlagKeeps DEF Exec
  <2>5. CASE op = "cld"
    BY <2>5, FlagKeeps DEF Exec
  <2>6. CASE op = "sed"
    BY <2>6, FlagKeeps DEF Exec
  <2>7. CASE op = "clv"
    BY <2>7, FlagKeeps DEF Exec
  <2> QED BY <1>12, <2>1, <2>2, <2>3, <2>4, <2>5, <2>6, <2>7
<1>13. CASE op \in {"bcc", "bcs", "bne", "beq", "bvc", "bvs", "bpl", "bmi"}
  <2>1. CASE op = "bcc"
    BY <2>1, BranchKeeps DEF Exec, Branches
  <2>2. CASE op = "bcs"
    BY <2>2, BranchKeeps DEF Exec, Branches
  <2>3. CASE op = "bne"
    BY <2>3, BranchKeeps DEF Exec, Branches
  <2>4. CASE op = "beq"
    BY <2>4, BranchKeeps DEF Exec, Branches
  <2>5. CASE op = "bvc"
    BY <2>5, BranchKeeps DEF Exec, Branches
  <2>6. CASE op = "bvs"
    BY <2>6, BranchKeeps DEF Exec, Branches
  <2>7. CASE op = "bpl"
    BY <2>7, BranchKeeps DEF Exec, Branches
  <2>8. CASE op = "bmi"
    BY <2>8, BranchKeeps DEF Exec, Branches
  <2> QED BY <1>13, <2>1, <2>2, <2>3, <2>4, <2>5, <2>6, <2>7, <2>8
<1>14. CASE op \in {"jmp", "jsr"}
  <2>1. CASE op = "jmp"
    BY <2>1, JumpKeeps, JsrKeeps DEF Exec
  <2>2. CASE op = "jsr"
    BY <2>2, JumpKeeps, JsrKeeps DEF Exec
  <2> QED BY <1>14, <2>1, <2>2
<1>15. CASE op \in {"rts", "rti", "php", "pha", "plp", "pla"}
  <2>1. CASE op = "rts"
    BY <2>1, StackKeeps DEF Exec
  <2>2. CASE op = "rti"
    BY <2>2, StackKeeps DEF Exec
  <2>3. CASE op = "php"
    BY <2>3, StackKeeps DEF Exec
  <2>4. CASE op = "pha"
    BY <2>4, StackKeeps DEF Exec
  <2>5. CASE op = "plp"
    BY <2>5, StackKeeps DEF Exec
  <2>6. CASE op = "pla"
    BY <2>6, StackKeeps DEF Exec
  <2> QED BY <1>15, <2>1, <2>2, <2>3, <2>4, <2>5, <2>6
<1>16. CASE op \in {"brk"}
  BY <1>16, BrkKeeps DEF Exec
<1>17. CASE op \in {"nop"}
  BY <1>17, RegistersKeep DEF Exec
<1>18. CASE op \in {"hang"}
  BY <1>18, StatusKeeps DEF Exec, Status
<1> QED BY <1>1, <1>2, <1>3, <1>4, <1>5, <1>6, <1>7, <1>8, <1>9, <1>10, <1>11, <1>12, <1>13, <1>14, <1>15, <1>16, <1>17, <1>18
       DEF Operation, Others, Branches

\* The machine an operation is given, once its instruction is fetched.
Fresh(m) == [m EXCEPT !.status = INVALID_CODE]
Ready(m) ==
  IF Decode(m.ir).op = "hang" THEN Fresh(m) ELSE Operand(Decode(m.ir).mode, Fresh(m))

LEMMA FreshPrepares ==
  ASSUME NEW m \in Machine
  PROVE  /\ Fresh(m) \in Machine /\ Prepares(m, Fresh(m))
         /\ Fresh(m).pc = m.pc /\ Fresh(m).ir = m.ir
BY StatusKeeps DEF Fresh, Status, Keeps

LEMMA ExecuteKeeps ==
  ASSUME NEW m \in Machine
  PROVE  /\ Execute(m) = Exec(Decode(m.ir).op, Ready(m))
         /\ Prepares(m, Ready(m)) /\ Keeps(Ready(m), Execute(m))
<1> DEFINE entry == Decode(m.ir)
<1>1. Execute(m) = Exec(entry.op, Ready(m))
  BY DEF Execute, Ready, Fresh
<1>2. Defined(entry)
  BY Decoded DEF Machine
<1>3. Prepares(m, Ready(m)) /\ (entry.op \in Branches => Ready(m).operand \in Word)
  <2>1. Fresh(m) \in Machine /\ Prepares(m, Fresh(m))
    BY FreshPrepares
  <2>2. CASE entry.op = "hang"
    BY <2>1, <2>2 DEF Ready, Branches
  <2>3. CASE entry.op # "hang"
    <3>1. entry.mode \in Mode
      BY <1>2, <2>3 DEF Defined
    <3>2. Ready(m) = Operand(entry.mode, Fresh(m))
      BY <2>3 DEF Ready
    <3> HIDE DEF entry
    <3>3. /\ Prepares(Fresh(m), Operand(entry.mode, Fresh(m)))
          /\ entry.mode = "relative" => Operand(entry.mode, Fresh(m)).operand \in Word
      BY <2>1, <3>1, ModePrepares
    <3> QED BY <1>2, <2>1, <3>2, <3>3, PreparesOn DEF Defined
  <2> QED BY <2>2, <2>3
<1>4. entry.op \in Operation
  BY <1>2 DEF Defined
<1> HIDE DEF entry
<1>5. Ready(m) \in Machine
  BY <1>3 DEF Prepares
<1>6. Keeps(Ready(m), Execute(m))
  BY <1>1, <1>3, <1>4, <1>5, ExecKeeps
<1> QED BY <1>1, <1>3, <1>6 DEF entry

LEMMA FetchPrepares ==
  ASSUME NEW m \in Machine
  PROVE  /\ Fetch(m) \in Machine /\ Prepares(m, Fetch(m))
         /\ Fetch(m).ir = AtPC(m) /\ Fetch(m).pc = U16(m.pc + 1)
<1> DEFINE n == NextPC(m)
<1>1. n \in Machine /\ Prepares(m, n) /\ n.pc = U16(m.pc + 1)
  BY NextPCPrepares
<1>2. AtPC(m) \in Byte
  BY ByteRead DEF AtPC
<1>3. Fetch(m) = [n EXCEPT !.ir = AtPC(m)]
  BY DEF Fetch
<1> HIDE DEF n
<1>4. /\ Fetch(m) \in Machine /\ Fetch(m).ir = AtPC(m) /\ Fetch(m).pc = n.pc
      /\ Fetch(m).mem = n.mem /\ Fetch(m).a = n.a /\ Fetch(m).x = n.x
  BY <1>1, <1>2, <1>3 DEF Machine
<1>5. Fetch(m).y = n.y /\ Fetch(m).sp = n.sp /\ Fetch(m).sr = n.sr
  BY <1>1, <1>2, <1>3 DEF Machine
<1> QED BY <1>1, <1>4, <1>5 DEF Prepares

\* An instruction reaches its operand and the page of the stack.
LEMMA InstructionReaches ==
  ASSUME NEW m \in Machine
  PROVE  /\ FetchAndExecute(m) \in Machine
         /\ \A i : ByteAt(FetchAndExecute(m), i) # ByteAt(m, i)
                     => i = FetchAndExecute(m).operand \/ Page(i) = 1
<1>1. CASE InMemory(m.pc)
  <2> DEFINE f == Fetch(m)
             r == Ready(f)
             n == Execute(f)
  <2>1. f \in Machine /\ f.mem = m.mem
    BY FetchPrepares DEF Prepares
  <2> HIDE DEF f
  <2>2. Prepares(f, r) /\ Keeps(r, n)
    BY <2>1, ExecuteKeeps
  <2>3. FetchAndExecute(m) = n
    BY <1>1 DEF FetchAndExecute, f
  <2> HIDE DEF r, n
  <2>4. \A i : ByteAt(r, i) = ByteAt(m, i)
    BY <2>1, <2>2 DEF Prepares, ByteAt
  <2> QED BY <2>2, <2>3, <2>4 DEF Keeps
<1>2. CASE ~InMemory(m.pc)
  <2>1. FetchAndExecute(m) = [m EXCEPT !.status = SEGFAULT_CODE]
    BY <1>2 DEF FetchAndExecute
  <2>2. Keeps(m, [m EXCEPT !.status = SEGFAULT_CODE])
    BY StatusKeeps DEF Status
  <2> QED BY <2>1, <2>2 DEF Keeps
<1> QED BY <1>1, <1>2

(***************************************************************************)
(* The stages of a reset.                                                  *)
(***************************************************************************)
LEMMA StageGoesOn ==
  ASSUME NEW s \in ChipState, CodeOf(s) = CPU_STATE_RESET, StageOf(s) \in 0..7
  PROVE  U8(s + 16) \in ChipState
<1>1. s \in Byte /\ s % 16 = 1 /\ s \div 16 \in 0..7
  BY DEF ChipState, CodeOf, StageOf, CPU_STATE_RESET
<1>2. U8(s + 16) = s + 16
  BY <1>1 DEF U8, Byte
<1>3. s + 16 \in Byte /\ (s + 16) % 16 = 1 /\ (s + 16) \div 16 \in 0..8
  BY <1>1 DEF Byte
<1> QED BY <1>2, <1>3 DEF ChipState, CodeOf, StageOf, CPU_STATE_RESET

LEMMA NextStageTyped ==
  ASSUME NEW m \in Machine, CodeOf(m.state) = CPU_STATE_RESET, StageOf(m.state) \in 0..7
  PROVE  /\ NextStage(m) \in Machine /\ NextStage(Settle(m)) \in Machine
         /\ \A w \in Word : /\ NextStage([m EXCEPT !.pc = w]) \in Machine
                            /\ NextStage([Settle(m) EXCEPT !.pc = w]) \in Machine
<1>1. U8(m.state + 16) \in ChipState
  BY StageGoesOn DEF Machine
<1>2. /\ Settle(m) \in Machine /\ Settle(m).state = m.state
  <2>1. 170 \in Byte /\ 0 \in Byte /\ 2 \in Byte
    BY DEF Byte
  <2> QED BY <2>1 DEF Settle, Machine
<1>3. \A n \in Machine : n.state = m.state => NextStage(n) \in Machine
  BY <1>1 DEF NextStage, Machine, Status
<1>4. \A w \in Word, n \in Machine : [n EXCEPT !.pc = w] \in Machine /\ [n EXCEPT !.pc = w].state = n.state
  BY DEF Machine
<1> QED BY <1>2, <1>3, <1>4

LEMMA StartupTyped ==
  ASSUME NEW m \in Machine, CodeOf(m.state) = CPU_STATE_RESET
  PROVE  Startup(m) \in Machine
<1> DEFINE low  == U16(S8(ByteAt(m, RESET_VECTOR_PTR)))
           high == Or(Page(m.pc), ByteAt(m, RESET_VECTOR_PTR + 1))
           w    == 256 * high + (m.pc % 256)
           Settled(v) == NextStage([Settle(m) EXCEPT !.pc = v])
           Jumped(v)  == NextStage([m EXCEPT !.pc = v])
<1>1. StageOf(m.state) \in 0..8
  BY DEF Machine, ChipState, CodeOf, CPU_STATE_RESET, CPU_STATE_RUN, CPU_STATE_HANG
<1>2. low \in Word
  BY ByteRead, Signed, Narrowed
<1>3. w \in Word
  <2>1. Page(m.pc) \in Byte /\ m.pc % 256 \in Byte
    BY BytesOfWord DEF Machine, Page
  <2>2. high \in Byte
    BY <2>1, ByteRead, OrType
  <2> HIDE DEF high
  <2> QED BY <2>1, <2>2 DEF Byte, Word
<1>4. 255 \in Word
  BY DEF Word
<1>5. StageOf(m.state) \in 0..7 =>
        /\ NextStage(Settle(m)) \in Machine
        /\ \A v \in Word : Settled(v) \in Machine /\ Jumped(v) \in Machine
  BY NextStageTyped
<1>6. CASE StageOf(m.state) \in {0, 1, 2, 3, 4, 5, 6}
  <2>1. Startup(m) \in {NextStage(Settle(m)), Settled(255)}
    BY <1>6 DEF Startup
  <2> HIDE DEF Settled, Jumped
  <2> QED BY <1>4, <1>5, <1>6, <2>1
<1>7. CASE StageOf(m.state) = 7
  <2>1. Startup(m) = Jumped(low)
    BY <1>7 DEF Startup
  <2> HIDE DEF low, Settled, Jumped
  <2> QED BY <1>2, <1>5, <1>7, <2>1
<1>8. CASE StageOf(m.state) = 8
  <2>1. Startup(m) = [m EXCEPT !.pc = w, !.state = CPU_STATE_RUN, !.status = OK_CODE]
    BY <1>8 DEF Startup
  <2>2. CPU_STATE_RUN \in ChipState
    BY DEF ChipState, CPU_STATE_RUN, Byte
  <2> HIDE DEF w
  <2> QED BY <1>3, <2>1, <2>2 DEF Machine, Status
<1> QED BY <1>1, <1>6, <1>7, <1>8

LEMMA ChipStepTyped ==
  ASSUME NEW m \in Machine
  PROVE  ChipStep(m) \in Machine
<1>1. CASE CodeOf(m.state) = CPU_STATE_RESET
  BY <1>1, StartupTyped DEF ChipStep, CPU_STATE_RESET, CPU_STATE_RUN, CPU_STATE_HANG
<1>2. CASE CodeOf(m.state) = CPU_STATE_RUN
  <2>1. ChipStep(m) = FetchAndExecute(m)
    BY <1>2 DEF ChipStep, CPU_STATE_RESET, CPU_STATE_RUN, CPU_STATE_HANG
  <2> QED BY <2>1, InstructionReaches
<1>3. CASE CodeOf(m.state) \notin {CPU_STATE_RESET, CPU_STATE_RUN}
  <2>1. ChipStep(m) \in {[m EXCEPT !.status = HANG_CODE], [m EXCEPT !.status = INVALID_CODE]}
    BY <1>3 DEF ChipStep
  <2>2. HANG_CODE \in Status /\ INVALID_CODE \in Status
    BY DEF Status
  <2> QED BY <2>1, <2>2, StatusKeeps DEF Keeps
<1> QED BY <1>1, <1>2, <1>3

(***************************************************************************)
(* What the surroundings of the chip do to it.                             *)
(***************************************************************************)
LEMMA FreshTyped == FreshMachine \in Machine
<1>1. [i \in {} |-> 0] \in Memory
  BY Memories
<1>2. CPU_STATE_RESET \in ChipState
  BY DEF ChipState, CPU_STATE_RESET, Byte, CodeOf, StageOf
<1>3. 0 \in Word /\ 255 \in Byte /\ 0 \in Byte /\ 0 \in Operands
  BY DEF Word, Byte, Operands
<1> QED BY <1>1, <1>2, <1>3 DEF FreshMachine, Machine, Status

\* A blob that fits is in memory, and one that does not changes nothing.
LEMMA BlobTyped ==
  ASSUME NEW mem \in Memory, NEW base \in Nat, NEW blob \in Seq(Byte)
  PROVE  WithBlob(mem, base, blob) \in Memory
<1> DEFINE written == base..(base + Len(blob) - 1)
           f == [i \in DOMAIN mem \union written |->
                   IF i \in written THEN blob[i - base + 1] ELSE mem[i]]
<1>1. CASE base + Len(blob) <= MemSize
  <2>1. WithBlob(mem, base, blob) = f
    BY <1>1 DEF WithBlob
  <2>2. mem \in [DOMAIN mem -> Byte] /\ \A i \in DOMAIN mem : InMemory(i)
    BY Memories
  <2>3. Len(blob) \in Nat /\ \A i \in 1..Len(blob) : blob[i] \in Byte
    OBVIOUS
  <2>4. \A i \in written : blob[i - base + 1] \in Byte /\ InMemory(i)
    <3> SUFFICES ASSUME NEW i \in written PROVE blob[i - base + 1] \in Byte /\ InMemory(i)
      OBVIOUS
    <3>1. i - base + 1 \in 1..Len(blob) /\ i \in 0..(MemSize - 1)
      BY <1>1, <2>3, MemSizeAssumption
    <3> QED BY <2>3, <3>1 DEF InMemory
  <2>5. DOMAIN f = DOMAIN mem \union written
    OBVIOUS
  <2> HIDE DEF written
  <2>6. f \in [DOMAIN f -> Byte] /\ \A i \in DOMAIN f : InMemory(i)
    BY <2>2, <2>4
  <2> HIDE DEF f
  <2> QED BY <2>1, <2>6, Memories
<1>2. CASE ~(base + Len(blob) <= MemSize)
  BY <1>2 DEF WithBlob
<1> QED BY <1>1, <1>2

LEMMA DiskTyped ==
  ASSUME NEW blob \in Seq(Byte)
  PROVE  (IF Len(blob) <= FloppySize THEN blob ELSE SubSeq(blob, 1, FloppySize)) \in Seq(Byte)
<1>1. CASE Len(blob) <= FloppySize
  BY <1>1
<1>2. CASE ~(Len(blob) <= FloppySize)
  <2>1. 1 \in 1..Len(blob) /\ FloppySize \in 1..Len(blob)
    BY <1>2 DEF FloppySize
  <2> HIDE DEF FloppySize
  <2> QED BY <1>2, <2>1, SubSeqProperties
<1> QED BY <1>1, <1>2

(***************************************************************************)
(* The chip as the computer steps it.                                      *)
(***************************************************************************)
LEMMA TypeInitial == Init => MachineTypeOK
<1> SUFFICES ASSUME Init PROVE MachineTypeOK
  OBVIOUS
<1>1. machine \in Machine
  BY ComputerAssumption, Machines, FreshTyped DEF Init
<1>2. active \in 0..1 /\ executed \in 0..MaxInstructions /\ visits \in 0..MaxVisits
  BY ComputerAssumption DEF Init
<1> QED BY <1>1, <1>2, Machines DEF MachineTypeOK

\* A step of the chip, and what its surroundings do between two of them.
LEMMA TypeKept == MachineTypeOK /\ [Next]_vars => MachineTypeOK'
<1> SUFFICES ASSUME MachineTypeOK, [Next]_vars
             PROVE  /\ machine' \in Machine /\ active' \in 0..1
                    /\ executed' \in 0..MaxInstructions /\ visits' \in 0..MaxVisits
  BY Machines DEF MachineTypeOK
<1>1. /\ machine \in Machine /\ active \in 0..1
      /\ executed \in 0..MaxInstructions /\ visits \in 0..MaxVisits
  BY Machines DEF MachineTypeOK
<1>2. MaxInstructions \in Nat /\ MaxVisits \in Nat /\ Blobs \subseteq Seq(Byte)
  BY ComputerAssumption
<1>3. machine.mem \in Memory /\ <<>> \in Memory
  <2>1. <<>> \in [1..0 -> Byte] /\ 1..0 = {}
    BY EmptySeq, LenProperties
  <2>2. <<>> \in Memory
    BY <2>1, Memories
  <2> QED BY <1>1, <2>2 DEF Machine
<1>4. \A mem \in Memory : [machine EXCEPT !.mem = mem] \in Machine
  BY <1>1 DEF Machine
<1>5. CASE StartupStep
  BY <1>1, <1>5, ChipStepTyped DEF StartupStep
<1>6. CASE InstructionStep
  BY <1>1, <1>2, <1>6, ChipStepTyped DEF InstructionStep
<1>7. CASE Reset
  <2>1. CPU_STATE_RESET \in ChipState
    BY DEF ChipState, CPU_STATE_RESET, Byte, CodeOf, StageOf
  <2>2. machine' \in Machine
    BY <1>1, <1>7, <2>1 DEF Reset, Machine
  <2> QED BY <1>1, <1>2, <1>7, <2>2 DEF Reset
<1>8. CASE Replace
  BY <1>2, <1>8, FreshTyped DEF Replace
<1>9. ASSUME NEW blob \in Seq(Byte), LoadComBinary(blob) PROVE machine' \in Machine
  <2> DEFINE mem == WithBlob(machine.mem, 256, blob)
  <2>1. mem \in Memory /\ 256 \in Word
    BY <1>3, BlobTyped DEF Word
  <2>2. machine' = [machine EXCEPT !.pc = 256, !.mem = mem]
    BY <1>9 DEF LoadComBinary
  <2> HIDE DEF mem
  <2>3. machine' = [[machine EXCEPT !.mem = mem] EXCEPT !.pc = 256]
    BY <1>1, <2>2 DEF Machine
  <2>4. \A n \in Machine, w \in Word : [n EXCEPT !.pc = w] \in Machine
    BY DEF Machine
  <2> QED BY <1>4, <2>1, <2>3, <2>4
<1>10. ASSUME NEW blob \in Seq(Byte), InsertFloppy(blob) PROVE machine' \in Machine
  <2> DEFINE disk == IF Len(blob) <= FloppySize THEN blob ELSE SubSeq(blob, 1, FloppySize)
  <2>1. disk \in Seq(Byte)
    BY DiskTyped
  <2>2. machine' = [machine EXCEPT !.mem = WithBlob(<<>>, 0, disk)]
    BY <1>10 DEF InsertFloppy
  <2> HIDE DEF disk
  <2>3. WithBlob(<<>>, 0, disk) \in Memory
    BY <1>3, <2>1, BlobTyped
  <2> QED BY <1>4, <2>2, <2>3
<1>11. ASSUME NEW blob \in Seq(Byte), LoadComBinary(blob) \/ InsertFloppy(blob)
       PROVE  /\ machine' \in Machine /\ active' \in 0..1
              /\ executed' \in 0..MaxInstructions /\ visits' \in 0..MaxVisits
  <2>1. active' = active /\ executed' = executed /\ visits' = visits + 1 /\ visits < MaxVisits
    BY <1>11 DEF LoadComBinary, InsertFloppy
  <2> QED BY <1>1, <1>2, <1>9, <1>10, <1>11, <2>1
<1>12. CASE RemoveFloppy
  <2>1. <<>> \in Seq(Byte)
    OBVIOUS
  <2> QED BY <1>11, <1>12, <2>1 DEF RemoveFloppy
<1>13. CASE UNCHANGED vars
  BY <1>1, <1>13 DEF vars
<1> QED BY <1>2, <1>5, <1>6, <1>7, <1>8, <1>11, <1>12, <1>13 DEF Next

\* Registers keep the width of their C types, memory holds bytes and has none
\* outside of its size, and a chip is in a state of oku_6502_common.h, whatever
\* program, disk or saved machine it is given and whenever it is reset.
THEOREM MachineIsTyped == Spec => []MachineTypeOK
<1>1. Init => MachineTypeOK
  BY TypeInitial
<1>2. MachineTypeOK /\ [Next]_vars => MachineTypeOK'
  BY TypeKept
<1> QED BY <1>1, <1>2, PTL DEF Spec

\* An RTI undoes a BRK in every machine a computer can be in, wherever the stack
\* pointer is: the three places of the stack are different ones and in memory,
\* which is what the size is needed for.
THEOREM InterruptsDoReturn ==
  ASSUME MemSize >= 512
  PROVE  Spec => []InterruptsReturn
<1>1. MachineTypeOK => InterruptsReturn
  BY Machines, RtiUndoesBrk DEF MachineTypeOK, InterruptsReturn
<1> QED BY <1>1, MachineIsTyped, PTL

\* A step that executes is a step of a chip that runs or hangs.
LEMMA ExecutesSteps ==
  ASSUME MachineTypeOK, [Next]_vars, Executes
  PROVE  /\ machine \in Machine /\ CodeOf(machine.state) # CPU_STATE_RESET
         /\ machine' = ChipStep(machine)
<1>1. executed \in Nat /\ machine \in Machine
  BY Machines, ComputerAssumption DEF MachineTypeOK
<1>2. executed' = executed + 1
  BY DEF Executes
<1>3. executed' # executed /\ executed' # 0
  BY <1>1, <1>2
<1>4. InstructionStep
  BY <1>3 DEF Next, vars, StartupStep, Reset, Replace, RemoveFloppy, LoadComBinary, InsertFloppy
<1> QED BY <1>1, <1>4 DEF InstructionStep

LEMMA StepStaysInPlace ==
  ASSUME MachineTypeOK, [Next]_vars, Executes, NEW i, ByteAt(machine', i) # ByteAt(machine, i)
  PROVE  i = machine'.operand \/ Page(i) = 1
<1>1. /\ machine \in Machine /\ CodeOf(machine.state) # CPU_STATE_RESET
      /\ machine' = ChipStep(machine)
  BY ExecutesSteps
<1>2. CASE CodeOf(machine.state) = CPU_STATE_RUN
  <2>1. machine' = FetchAndExecute(machine)
    BY <1>1, <1>2 DEF ChipStep, CPU_STATE_RESET, CPU_STATE_RUN, CPU_STATE_HANG
  <2> QED BY <1>1, <2>1, InstructionReaches
<1>3. CASE CodeOf(machine.state) # CPU_STATE_RUN
  <2>1. machine' \in {[machine EXCEPT !.status = HANG_CODE],
                      [machine EXCEPT !.status = INVALID_CODE]}
    BY <1>1, <1>3 DEF ChipStep
  <2>2. machine'.mem = machine.mem
    BY <1>1, <2>1 DEF Machine
  <2> QED BY <2>2 DEF ByteAt
<1> QED BY <1>2, <1>3

\* No instruction, of any opcode and in any state of the chip, writes to a place
\* other than its operand and the page of the stack.
THEOREM WritesDoStayInPlace == Spec => WritesStayInPlace
<1>1. MachineTypeOK /\ [Next]_vars
        => (Executes => \A i \in DOMAIN machine'.mem :
                          ByteAt(machine', i) # ByteAt(machine, i)
                            => i = machine'.operand \/ Page(i) = 1)
  BY StepStaysInPlace
<1> QED BY <1>1, MachineIsTyped, PTL DEF Spec, WritesStayInPlace

(***************************************************************************)
(* The sums: what an instruction leaves in the accumulator and in V.       *)
(***************************************************************************)
\* Only the flag V is V, and no flag is the accumulator.
LEMMA FlagLeaves ==
  ASSUME NEW m \in Machine, NEW i \in {0, 1, 2, 3, 6, 7}, NEW v \in 0..1
  PROVE  /\ WithFlag(m, i, v) \in Machine /\ WithFlag(m, i, v).a = m.a
         /\ Bit(WithFlag(m, i, v).sr, 6) = IF i = 6 THEN v ELSE Bit(m.sr, 6)
<1>1. /\ WithBit(m.sr, i, v) \in Byte
      /\ Bit(WithBit(m.sr, i, v), 6) = IF i = 6 THEN v ELSE Bit(m.sr, 6)
  BY FlagSet DEF Machine
<1>2. /\ WithFlag(m, i, v) \in Machine /\ WithFlag(m, i, v).a = m.a
      /\ WithFlag(m, i, v).sr = WithBit(m.sr, i, v)
  BY <1>1 DEF WithFlag, Machine
<1> QED BY <1>1, <1>2

LEMMA CarryNZLeaves ==
  ASSUME NEW m \in Machine, NEW v \in 0..1, NEW n \in Int
  PROVE  LET k == WithNZ(WithCarry(m, v), n)
         IN  k.a = m.a /\ Bit(k.sr, 6) = Bit(m.sr, 6)
<1> DEFINE c == WithFlag(m, 0, v)
           k == WithFlag(c, 7, One(n < 0))
           l == WithFlag(k, 1, One(n = 0))
<1>1. One(n < 0) \in 0..1 /\ One(n = 0) \in 0..1
  BY DEF One
<1>2. c \in Machine /\ c.a = m.a /\ Bit(c.sr, 6) = Bit(m.sr, 6)
  BY FlagLeaves
<1> HIDE DEF c
<1>3. k \in Machine /\ k.a = c.a /\ Bit(k.sr, 6) = Bit(c.sr, 6)
  BY <1>1, <1>2, FlagLeaves
<1> HIDE DEF k
<1>4. l.a = k.a /\ Bit(l.sr, 6) = Bit(k.sr, 6)
  BY <1>1, <1>3, FlagLeaves
<1> QED BY <1>2, <1>3, <1>4 DEF WithNZ, WithCarry, c, k

\* The accumulator gets a byte and V a bit, then come C, N and Z.
LEMMA SumLeaves ==
  ASSUME NEW m \in Machine, NEW sum \in Byte, NEW over \in 0..1, NEW v \in 0..1, NEW n \in Int
  PROVE  LET k == WithNZ(WithCarry(WithOverflow([m EXCEPT !.a = sum], over), v), n)
         IN  k.a = sum /\ Bit(k.sr, 6) = over
<1> DEFINE l == [m EXCEPT !.a = sum]
           o == WithFlag(l, 6, over)
<1>1. l \in Machine /\ l.a = sum
  BY AccumulatorKeeps
<1> HIDE DEF l
<1>2. o \in Machine /\ o.a = sum /\ Bit(o.sr, 6) = over
  BY <1>1, FlagLeaves
<1> HIDE DEF o
<1> QED BY <1>2, CarryNZLeaves DEF WithOverflow, o, l

\* A sum of two signed bytes and a carry leaves the range of a signed byte when
\* its sign is not the one the two bytes share.
LEMMA SignedSum ==
  ASSUME NEW b \in Byte, NEW d \in Byte, NEW c \in 0..1
  PROVE  LET value == S8(b) + S8(d) + c
             over  == Bit(b, 7) = Bit(d, 7) /\ Bit(U8(value), 7) # Bit(b, 7)
         IN  value \in Int /\ (over <=> value \notin -128..127)
<1> DEFINE value == S8(b) + S8(d) + c
<1>1. value \in Int /\ value \in -256..255
  BY DEF S8, Byte
<1>2. U8(value) \in Byte /\ U8(value) = IF value < 0 THEN value % 256 ELSE value
  BY <1>1 DEF U8, Byte
<1>3. value < 0 => U8(value) = value + 256
  BY <1>1 DEF U8
<1>4. Bit(b, 7) = (IF b < 128 THEN 0 ELSE 1) /\ Bit(d, 7) = (IF d < 128 THEN 0 ELSE 1)
      /\ Bit(U8(value), 7) = (IF U8(value) < 128 THEN 0 ELSE 1)
  BY <1>2, SignBit
<1> QED BY <1>1, <1>2, <1>3, <1>4 DEF S8, Byte

LEMMA SignedDifference ==
  ASSUME NEW b \in Byte, NEW d \in Byte, NEW c \in 0..1
  PROVE  LET value == S8(b) - S8(d) - (1 - c)
             over  == Bit(b, 7) # Bit(d, 7) /\ Bit(U8(value), 7) # Bit(b, 7)
         IN  value \in Int /\ (over <=> value \notin -128..127)
<1> DEFINE value == S8(b) - S8(d) - (1 - c)
<1>1. value \in Int /\ value \in -256..255
  <2>1. S8(b) \in -128..127 /\ S8(d) \in -128..127
    BY Signed
  <2>2. \A p, q \in -128..127, k \in 0..1 : p - q - (1 - k) \in Int /\ p - q - (1 - k) \in -256..255
    OBVIOUS
  <2> QED BY <2>1, <2>2
<1>2. U8(value) \in Byte /\ U8(value) = IF value < 0 THEN value % 256 ELSE value
  BY <1>1 DEF U8, Byte
<1>3. value < 0 => U8(value) = value + 256
  BY <1>1 DEF U8
<1>4. Bit(b, 7) = (IF b < 128 THEN 0 ELSE 1) /\ Bit(d, 7) = (IF d < 128 THEN 0 ELSE 1)
      /\ Bit(U8(value), 7) = (IF U8(value) < 128 THEN 0 ELSE 1)
  BY <1>2, SignBit
<1> QED BY <1>1, <1>2, <1>3, <1>4 DEF S8, Byte

LEMMA AdcSums ==
  ASSUME NEW m \in Machine
  PROVE  LET value == S8(m.a) + S8(Data(m)) + Carry(m)
         IN  /\ AdcBinary(m).a = U8(value)
             /\ Bit(AdcBinary(m).sr, 6) = One(value \notin -128..127)
<1> DEFINE d     == Data(m)
           value == S8(m.a) + S8(d) + Carry(m)
           over  == Bit(m.a, 7) = Bit(d, 7) /\ Bit(U8(value), 7) # Bit(m.a, 7)
           k     == ReadData(m)
           v     == One(over)
           sum   == U8(value)
<1>1. m.a \in Byte /\ d \in Byte /\ Carry(m) \in 0..1 /\ k \in Machine
  BY DataReads, CarryIsBit DEF Machine
<1>2. value \in Int /\ (over <=> value \notin -128..127)
  BY <1>1, SignedSum
<1>3. sum \in Byte /\ v \in 0..1 /\ Bit8(value) \in 0..1 /\ v = One(value \notin -128..127)
  BY <1>2, Narrowed, NinthBit DEF One
<1>4. AdcBinary(m)
        = WithNZ(WithCarry(WithOverflow([k EXCEPT !.a = sum], v), Bit8(value)), value)
  BY DEF AdcBinary
<1> HIDE DEF k, v, sum, value
<1>5. AdcBinary(m).a = sum /\ Bit(AdcBinary(m).sr, 6) = v
  BY <1>1, <1>2, <1>3, <1>4, SumLeaves
<1> QED BY <1>3, <1>5 DEF sum, value

LEMMA SbcSums ==
  ASSUME NEW m \in Machine, ~Decimal(m)
  PROVE  LET value == S8(m.a) - S8(Data(m)) - (1 - Carry(m))
         IN  /\ Sbc(m).a = U8(value)
             /\ Bit(Sbc(m).sr, 6) = One(value \notin -128..127)
<1> DEFINE d     == Data(m)
           value == S8(m.a) - S8(d) - (1 - Carry(m))
           over  == Bit(m.a, 7) # Bit(d, 7) /\ Bit(U8(value), 7) # Bit(m.a, 7)
           k     == ReadData(m)
           v     == One(over)
           sum   == U8(value)
           c     == 1 - Bit8(value)
<1>1. m.a \in Byte /\ d \in Byte /\ Carry(m) \in 0..1 /\ k \in Machine
  BY DataReads, CarryIsBit DEF Machine
<1>2. value \in Int /\ (over <=> value \notin -128..127)
  BY <1>1, SignedDifference
<1>3. sum \in Byte /\ v \in 0..1 /\ c \in 0..1 /\ v = One(value \notin -128..127)
  BY <1>2, Narrowed, NinthBit DEF One
<1>4. Sbc(m) = WithNZ(WithCarry(WithOverflow([k EXCEPT !.a = sum], v), c), value)
  BY DEF Sbc, SbcBinary, Difference
<1> HIDE DEF k, v, sum, value, c
<1>5. Sbc(m).a = sum /\ Bit(Sbc(m).sr, 6) = v
  BY <1>1, <1>2, <1>3, <1>4, SumLeaves
<1> QED BY <1>3, <1>5 DEF sum, value

\* An instruction with an address, as one expression: fetched, readied, executed.
LEMMA AddressesStep ==
  ASSUME MachineTypeOK, [Next]_vars, Addresses
  PROVE  LET g == Fresh(Fetch(machine))
             r == Operand(Decode(AtPC(machine)).mode, g)
         IN  /\ machine \in Machine /\ g \in Machine /\ Prepares(machine, g)
             /\ g.pc = machine.pc + 1 /\ U16(g.pc + 1) = machine.pc + 2
             /\ InMemory(g.pc) /\ InMemory(g.pc + 1)
             /\ (Decode(AtPC(machine)).op # "hang")
                  => /\ Prepares(machine, r) /\ Keeps(r, machine')
                     /\ machine' = Exec(Decode(AtPC(machine)).op, r)
<1> DEFINE m == machine
           f == Fetch(m)
           g == Fresh(f)
<1>1. /\ m \in Machine /\ machine' = ChipStep(m) /\ CodeOf(m.state) # CPU_STATE_RESET
  BY ExecutesSteps DEF Addresses
<1>2. /\ m.state = CPU_STATE_RUN /\ InMemory(m.pc + 2) /\ m.pc + 2 \in Word /\ m.pc \in Word
  BY <1>1 DEF Addresses, Machine
<1>3. /\ InMemory(m.pc) /\ InMemory(m.pc + 1) /\ InMemory(m.pc + 1 + 1) /\ U16(m.pc + 1) = m.pc + 1
      /\ U16(m.pc + 1 + 1) = m.pc + 2
  BY <1>2, MemSizeAssumption DEF InMemory, Word, U16
<1>4. machine' = Execute(f)
  <2>1. ChipStep(m) = FetchAndExecute(m)
    BY <1>2 DEF ChipStep, CodeOf, CPU_STATE_RESET, CPU_STATE_RUN, CPU_STATE_HANG
  <2> QED BY <1>1, <1>3, <2>1 DEF FetchAndExecute
<1>5. f \in Machine /\ Prepares(m, f) /\ f.ir = AtPC(m) /\ f.pc = m.pc + 1
  BY <1>1, <1>3, FetchPrepares
<1> HIDE DEF f
<1>6. g \in Machine /\ Prepares(f, g) /\ g.pc = m.pc + 1
  BY <1>5, FreshPrepares
<1>7. Prepares(m, g)
  BY <1>5, <1>6, PreparesOn
<1>8. machine' = Exec(Decode(f.ir).op, Ready(f)) /\ Prepares(f, Ready(f)) /\ Keeps(Ready(f), machine')
  BY <1>4, <1>5, ExecuteKeeps
<1>9. Prepares(m, Ready(f))
  BY <1>5, <1>8, PreparesOn
<1>10. Decode(f.ir).op # "hang" => Ready(f) = Operand(Decode(f.ir).mode, g)
  BY DEF Ready
<1> HIDE DEF g
<1> QED BY <1>1, <1>3, <1>5, <1>6, <1>7, <1>8, <1>9, <1>10 DEF f, g

LEMMA StepSums ==
  ASSUME MachineTypeOK, [Next]_vars, Addresses, NEW op, op = Decode(AtPC(machine)).op,
         op \in {"adc", "sbc"}, ~Decimal(machine)
  PROVE  LET d   == ByteAt(machine, machine'.operand)
             sum == IF op = "adc" THEN S8(machine.a) + S8(d) + Carry(machine)
                                  ELSE S8(machine.a) - S8(d) - 1 + Carry(machine)
         IN  machine'.a = U8(sum) /\ Bit(machine'.sr, 6) = One(sum \notin -128..127)
<1> DEFINE m == machine
           r == Operand(Decode(AtPC(m)).mode, Fresh(Fetch(m)))
           d == ByteAt(m, machine'.operand)
<1>1. m \in Machine /\ Prepares(m, r) /\ Keeps(r, machine') /\ machine' = Exec(op, r)
  BY AddressesStep
<1> HIDE DEF r
<1>2. /\ r \in Machine /\ r.a = m.a /\ Carry(r) = Carry(m) /\ ~Decimal(r)
      /\ Data(r) = d
  BY <1>1 DEF Prepares, Keeps, Carry, Decimal, Data, ByteAt
<1>3. m.a \in Byte /\ d \in Byte /\ Carry(m) \in 0..1
  BY <1>1, ByteRead, CarryIsBit DEF Machine
<1>4. CASE op = "adc"
  <2>1. machine' = AdcBinary(r)
    BY <1>1, <1>2, <1>4 DEF Exec, Adc
  <2> HIDE DEF d
  <2>2. LET value == S8(m.a) + S8(d) + Carry(m)
        IN  machine'.a = U8(value) /\ Bit(machine'.sr, 6) = One(value \notin -128..127)
    BY <1>2, <2>1, AdcSums
  <2> QED BY <1>4, <2>2 DEF d
<1>5. CASE op = "sbc"
  <2>1. machine' = Sbc(r)
    BY <1>1, <1>5 DEF Exec
  <2> HIDE DEF d
  <2>2. LET value == S8(m.a) - S8(d) - (1 - Carry(m))
        IN  machine'.a = U8(value) /\ Bit(machine'.sr, 6) = One(value \notin -128..127)
    BY <1>2, <2>1, SbcSums
  <2>3. S8(m.a) - S8(d) - (1 - Carry(m)) = S8(m.a) - S8(d) - 1 + Carry(m)
    <3>1. S8(m.a) \in Int /\ S8(d) \in Int /\ Carry(m) \in Int
      BY <1>3, Signed
    <3>2. \A p, q, c \in Int : p - q - (1 - c) = p - q - 1 + c
      OBVIOUS
    <3> QED BY <3>1, <3>2
  <2> QED BY <1>5, <2>2, <2>3 DEF d
<1> QED BY <1>4, <1>5

\* Binary ADC and SBC, of every two bytes and carry, with every address mode.
THEOREM SumsAreIndeedSigned == Spec => SumsAreSigned
<1>1. MachineTypeOK /\ [Next]_vars
        => LET op  == Decode(AtPC(machine)).op
               d   == ByteAt(machine, machine'.operand)
               sum == IF op = "adc" THEN S8(machine.a) + S8(d) + Carry(machine)
                                    ELSE S8(machine.a) - S8(d) - 1 + Carry(machine)
           IN  (Addresses /\ op \in {"adc", "sbc"} /\ ~Decimal(machine))
                 => /\ machine'.a = U8(sum)
                    /\ Bit(machine'.sr, 6) = One(sum \notin -128..127)
  BY StepSums
<1> QED BY <1>1, MachineIsTyped, PTL DEF Spec, SumsAreSigned

(***************************************************************************)
(* The addresses, of bytes whose top bit is clear.                         *)
(***************************************************************************)
\* What a sum of two bytes of a word is then, and what a pointer into it is.
LEMMA PlainWords ==
  ASSUME NEW hi \in Byte, NEW lo \in Byte, lo < 128
  PROVE  /\ SumWord(hi, lo) = 256 * hi + lo /\ SumWord(hi, lo) = lo + 256 * hi
         /\ hi < 128 => S16(OrWord(hi, lo)) = 256 * hi + lo
<1>1. SumWord(hi, lo) = 256 * hi + lo /\ OrWord(hi, lo) = 256 * hi + lo
  BY WordsOfBytes
<1>2. 256 * hi + lo = lo + 256 * hi
  BY DEF Byte
<1> QED BY <1>1, <1>2 DEF S16, Byte

LEMMA StepAddresses ==
  ASSUME MachineTypeOK, [Next]_vars, Addresses, AtPC(machine) # \h91,
         \A b \in SignedBytes(machine) : b < 128
  PROVE  machine'.operand = EffectiveAddress(machine)
<1> DEFINE m    == machine
           mode == Decode(AtPC(m)).mode
           g    == Fresh(Fetch(m))
           r    == Operand(mode, g)
           lo   == ByteAt(m, m.pc + 1)
           hi   == ByteAt(m, m.pc + 2)
           word == 256 * hi + lo
<1>1. DocumentedMode(m) = mode /\ mode \in Addressed
  BY DEF DocumentedMode, Addresses
<1>2. /\ m \in Machine /\ g \in Machine /\ Prepares(m, g)
      /\ g.pc = m.pc + 1 /\ U16(g.pc + 1) = m.pc + 2 /\ InMemory(g.pc) /\ InMemory(g.pc + 1)
  BY AddressesStep
<1>3. machine'.operand = r.operand
  <2>1. Decode(AtPC(m)).op # "hang"
    <3>1. Defined(Decode(AtPC(m)))
      BY <1>2, ByteRead, Decoded DEF AtPC
    <3> QED BY <1>1, <3>1 DEF Defined, Addressed
  <2>2. Keeps(r, machine')
    BY <2>1, AddressesStep
  <2> QED BY <2>2 DEF Keeps
<1>4. lo \in Byte /\ hi \in Byte /\ m.x \in Byte /\ m.y \in Byte /\ m.pc \in Word
  BY <1>2, ByteRead DEF Machine
<1>5. g.x = m.x /\ g.y = m.y /\ g.mem = m.mem
  BY <1>2 DEF Prepares
<1>6. \A i : ByteAt(g, i) = ByteAt(m, i)
  BY <1>5 DEF ByteAt
<1>7. AtPC(g) = lo /\ ByteAt(g, U16(g.pc + 1)) = hi /\ ByteAt(g, g.pc + 1) = hi
  BY <1>2, <1>4, <1>6 DEF AtPC, Word
<1>8. \A b \in Byte : b < 128 => S8(b) = b
  BY DEF S8
<1> HIDE DEF g, mode
<1>10. CASE mode = "immediate"
  <2>1. EffectiveAddress(m) = U16(m.pc + 1)
    BY <1>1, <1>10 DEF EffectiveAddress
  <2>2. r.operand = g.pc
    BY <1>2, <1>10, ImmediatePrepares DEF Operand
  <2>3. g.pc \in Word
    BY <1>2 DEF Machine
  <2> QED BY <1>2, <1>3, <2>1, <2>2, <2>3 DEF U16, Word
<1>11. CASE mode = "absolute"
  <2>1. EffectiveAddress(m) = word /\ lo < 128 /\ hi < 128
    BY <1>1, <1>11 DEF EffectiveAddress, SignedBytes, LL, HH
  <2>2. r.operand = Int16At(g, g.pc)
    BY <1>2, <1>11, AbsolutePrepares DEF Operand
  <2>3. Int16At(g, g.pc) = S16(OrWord(hi, lo))
    BY <1>2, <1>7 DEF Int16At, AtPC
  <2> QED BY <1>3, <1>4, <2>1, <2>2, <2>3, PlainWords
<1>12. CASE mode = "absolute,X"
  <2>1. EffectiveAddress(m) = U16(word + m.x) /\ lo < 128 /\ m.x < 128
    BY <1>1, <1>12 DEF EffectiveAddress, SignedBytes, LL, HH
  <2>2. r.operand = U16(SumWord(hi, lo) + S8(m.x))
    BY <1>2, <1>4, <1>5, <1>7, <1>12, AbsoluteIndexedPrepares DEF Operand
  <2> QED BY <1>3, <1>4, <1>8, <2>1, <2>2, PlainWords
<1>13. CASE mode = "absolute,Y"
  <2>1. EffectiveAddress(m) = U16(word + m.y) /\ lo < 128 /\ m.y < 128
    BY <1>1, <1>13 DEF EffectiveAddress, SignedBytes, LL, HH
  <2>2. r.operand = U16(SumWord(hi, lo) + S8(m.y))
    BY <1>2, <1>4, <1>5, <1>7, <1>13, AbsoluteIndexedPrepares DEF Operand
  <2> QED BY <1>3, <1>4, <1>8, <2>1, <2>2, PlainWords
<1>14. CASE mode = "indirect"
  <2>1. /\ EffectiveAddress(m) = ByteAt(m, word) + 256 * ByteAt(m, word + 1)
        /\ lo < 128 /\ hi < 128 /\ ByteAt(m, word) < 128
    BY <1>1, <1>14 DEF EffectiveAddress, SignedBytes, WordIn, LL, HH
  <2>2. S16(OrWord(hi, lo)) = word
    BY <1>4, <2>1, PlainWords
  <2>3. r.operand = SumWord(ByteAt(g, word + 1), ByteAt(g, word))
    BY <1>2, <1>7, <1>14, <2>2, IndirectPrepares DEF Operand
  <2>4. ByteAt(m, word) \in Byte /\ ByteAt(m, word + 1) \in Byte
    BY <1>2, ByteRead
  <2> HIDE DEF word
  <2>5. r.operand = ByteAt(m, word) + 256 * ByteAt(m, word + 1)
    BY <1>6, <2>1, <2>3, <2>4, PlainWords
  <2> QED BY <1>3, <2>1, <2>5
<1>15. CASE mode = "X,indirect"
  <2> DEFINE ptr  == U8(lo + m.x)
             low  == ByteAt(m, ptr)
             high == ByteAt(m, U8(ptr + 1))
  <2>1. EffectiveAddress(m) = low + 256 * high /\ low < 128
    BY <1>1, <1>15 DEF EffectiveAddress, SignedBytes, ZeroWord, LL
  <2>2. r.operand = SumWord(high, low)
    BY <1>2, <1>5, <1>6, <1>7, <1>15, XIndirectPrepares DEF Operand
  <2>3. low \in Byte /\ high \in Byte
    BY <1>2, ByteRead
  <2> HIDE DEF low, high
  <2> QED BY <1>3, <2>1, <2>2, <2>3, PlainWords
<1>16. CASE mode = "indirect,Y"
  <2> DEFINE low  == ByteAt(m, lo)
             high == ByteAt(m, U8(lo + 1))
  <2>1. EffectiveAddress(m) = U16(low + 256 * high + m.y) /\ lo < 128 /\ low < 128 /\ m.y < 128
    BY <1>1, <1>16 DEF EffectiveAddress, SignedBytes, ZeroWord, LL
  <2>2. S8(lo) = lo /\ S8(m.y) = m.y
    BY <1>4, <1>8, <2>1
  <2>3. r.operand = U16(SumWord(high, low) + m.y)
    BY <1>2, <1>5, <1>6, <1>7, <1>16, <2>2, IndirectYPrepares DEF Operand
  <2>4. low \in Byte /\ high \in Byte
    BY <1>2, ByteRead
  <2> HIDE DEF low, high
  <2>5. SumWord(high, low) + m.y = low + 256 * high + m.y
    BY <2>1, <2>4, PlainWords
  <2> QED BY <1>3, <2>1, <2>3, <2>5
<1>17. CASE mode = "relative"
  <2>1. EffectiveAddress(m) = U16(m.pc + 2 + S8(lo))
    BY <1>1, <1>17 DEF EffectiveAddress, LL
  <2>2. r.operand = U16(m.pc + 2 + S8(lo))
    BY <1>2, <1>7, <1>17, RelativePrepares DEF Operand
  <2> QED BY <1>3, <2>1, <2>2
<1>18. CASE mode = "zeropage"
  <2>1. EffectiveAddress(m) = lo /\ lo < 128
    BY <1>1, <1>18 DEF EffectiveAddress, SignedBytes, LL
  <2>2. r.operand = S8(lo)
    BY <1>2, <1>7, <1>18, ZeropagePrepares DEF Operand
  <2> QED BY <1>3, <1>4, <1>8, <2>1, <2>2
<1>19. CASE mode = "zeropage,X"
  <2>1. EffectiveAddress(m) = U8(lo + m.x)
    BY <1>1, <1>19 DEF EffectiveAddress, LL
  <2>2. r.operand = U8(lo + m.x)
    BY <1>2, <1>4, <1>5, <1>7, <1>19, ZeropageIndexedPrepares DEF Operand
  <2> QED BY <1>3, <2>1, <2>2
<1>20. CASE mode = "zeropage,Y"
  <2>1. EffectiveAddress(m) = U8(lo + m.y)
    BY <1>1, <1>20 DEF EffectiveAddress, LL
  <2>2. r.operand = U8(lo + m.y)
    BY <1>2, <1>4, <1>5, <1>7, <1>20, ZeropageIndexedPrepares DEF Operand
  <2> QED BY <1>3, <2>1, <2>2
<1> QED BY <1>1, <1>10, <1>11, <1>12, <1>13, <1>14, <1>15, <1>16, <1>17, <1>18, <1>19, <1>20
       DEF Addressed

\* Every instruction but 0x91 works on the address its mode is documented to
\* have, in every machine, when the bytes the address is made of are below 0x80.
THEOREM PlainAddressesAreIndeedRight == Spec => PlainAddressesAreRight
<1>1. MachineTypeOK /\ [Next]_vars
        => ((Addresses /\ AtPC(machine) # \h91 /\ \A b \in SignedBytes(machine) : b < 128)
              => machine'.operand = EffectiveAddress(machine))
  BY StepAddresses
<1> QED BY <1>1, MachineIsTyped, PTL DEF Spec, PlainAddressesAreRight
=============================================================================
