---------------------------- MODULE OkuComputer ----------------------------
(***************************************************************************)
(* A computer of yatm_oku with a 6502 chip: its driver steps the chip, and *)
(* its surroundings reset it, load a COM program into it, change the       *)
(* floppy in its drive or replace it, at any point between two steps.      *)
(*                                                                         *)
(* oku.lua ends the loop of one server step at the first status that is    *)
(* not OK or STARTUP, and the loop of the next server step goes on from    *)
(* there: a chip that returned an error is stepped again all the same, so  *)
(* a step has no guard on the status before it.                            *)
(***************************************************************************)
EXTENDS Oku6502

CONSTANTS
  SavedMachines,     \* machines that were saved and are loaded at the start
  Blobs,             \* programs and disks: sequences of bytes
  MaxInstructions,   \* bound: instructions a behaviour executes
  MaxVisits          \* bound: resets, loads and floppies of a behaviour

(* Registers keep the width of their C types, memory holds bytes and no    *)
(* address outside of it has one, and the states of the chip are those of  *)
(* oku_6502_common.h.                                                      *)
IsMachine(m) ==
  /\ m \in [pc : Word, sp : Byte, ir : Byte, a : Byte, x : Byte, y : Byte, sr : Byte,
            operand : Operands, state : Byte,
            mem : UNION {[D -> Byte] : D \in {DOMAIN m.mem}},
            status : {OK_CODE, INVALID_CODE, HANG_CODE, STARTUP_CODE, SEGFAULT_CODE}]
  /\ \A i \in DOMAIN m.mem : InMemory(i)
  /\ \/ m.state \in {CPU_STATE_RUN, CPU_STATE_HANG}
     \/ CodeOf(m.state) = CPU_STATE_RESET /\ StageOf(m.state) \in 0..8

(* A machine that was saved is one that some earlier session reached: the  *)
(* file keeps every field at its width, and the whole of memory.           *)
ASSUME ComputerAssumption ==
  /\ \A m \in SavedMachines : IsMachine(m)
  /\ Blobs \subseteq Seq(Byte)
  /\ MaxInstructions \in Nat /\ MaxVisits \in Nat

VARIABLES
  active,            \* the computer is stepped when it is above 0
  machine,           \* the chip, its memory and the status it returned last
  executed,          \* instructions executed
  visits             \* resets, loads and floppies

vars == <<active, machine, executed, visits>>

(* A computer saved by the first version of the format is active when it   *)
(* is loaded.                                                              *)
Init ==
  /\ active = 1
  /\ machine \in SavedMachines \union {FreshMachine}
  /\ executed = 0
  /\ visits = 0

StartupStep ==
  /\ active > 0
  /\ CodeOf(machine.state) = CPU_STATE_RESET
  /\ machine' = ChipStep(machine)
  /\ UNCHANGED <<active, executed, visits>>

InstructionStep ==
  /\ active > 0
  /\ CodeOf(machine.state) # CPU_STATE_RESET
  /\ executed < MaxInstructions
  /\ machine' = ChipStep(machine)
  /\ executed' = executed + 1
  /\ UNCHANGED <<active, visits>>

Reset ==
  /\ visits < MaxVisits
  /\ machine' = [machine EXCEPT !.state = CPU_STATE_RESET]
  /\ visits' = visits + 1
  /\ UNCHANGED <<active, executed>>

(* blob at "base", the rest of memory as "mem" has it.  A blob that does   *)
(* not fit is an error (check_and_adjust_index), and memory stays.         *)
WithBlob(mem, base, blob) ==
  LET written == base..(base + Len(blob) - 1)
  IN  IF base + Len(blob) <= MemSize
      THEN [i \in DOMAIN mem \union written |->
              IF i \in written THEN blob[i - base + 1] ELSE mem[i]]
      ELSE mem

(* The program counter is set, the state of the chip is not: a chip that   *)
(* has not started yet starts, and overwrites it.  It is set first, also   *)
(* when the program does not fit.                                          *)
LoadComBinary(blob) ==
  /\ visits < MaxVisits
  /\ machine' = [machine EXCEPT !.pc = 256, !.mem = WithBlob(@, 256, blob)]
  /\ visits' = visits + 1
  /\ UNCHANGED <<active, executed>>

FloppySize == 65536

(* All of memory is cleared under the running chip, then the disk is       *)
(* copied to its beginning, as much of it as a floppy holds.               *)
InsertFloppy(blob) ==
  LET disk == IF Len(blob) <= FloppySize THEN blob ELSE SubSeq(blob, 1, FloppySize)
  IN  /\ visits < MaxVisits
      /\ machine' = [machine EXCEPT !.mem = WithBlob(<<>>, 0, disk)]
      /\ visits' = visits + 1
      /\ UNCHANGED <<active, executed>>

RemoveFloppy == InsertFloppy(<<>>)

(* Destroyed and created anew: a new computer is not active, and nothing   *)
(* makes it so.                                                            *)
Replace ==
  /\ active' = 0
  /\ machine' = FreshMachine
  /\ executed' = 0
  /\ visits' = 0

Next ==
  \/ StartupStep
  \/ InstructionStep
  \/ Reset
  \/ Replace
  \/ RemoveFloppy
  \/ \E blob \in Blobs : LoadComBinary(blob) \/ InsertFloppy(blob)

(* The server steps an active computer on every one of its own steps.  It  *)
(* is assumed of a chip that starts only: nothing is claimed of how        *)
(* programs end.                                                           *)
Spec == Init /\ [][Next]_vars /\ WF_vars(StartupStep)

-----------------------------------------------------------------------------
(* What the header of oku_6502.c says an instruction's address is, in the  *)
(* machine m about to fetch it.                                            *)

DocumentedMode(m) ==
  IF AtPC(m) = \h91 THEN "indirect,Y" ELSE Decode(AtPC(m)).mode

Addressed ==
  {"immediate", "absolute", "absolute,X", "absolute,Y", "indirect", "X,indirect",
   "indirect,Y", "relative", "zeropage", "zeropage,X", "zeropage,Y"}

LL(m) == ByteAt(m, m.pc + 1)
HH(m) == ByteAt(m, m.pc + 2)

WordIn(m, i)   == ByteAt(m, i) + 256 * ByteAt(m, i + 1)
ZeroWord(m, i) == ByteAt(m, i) + 256 * ByteAt(m, U8(i + 1))

EffectiveAddress(m) ==
  LET mode    == DocumentedMode(m)
      address == 256 * HH(m) + LL(m)
  IN  CASE mode = "immediate"  -> U16(m.pc + 1)
        [] mode = "absolute"   -> address
        [] mode = "absolute,X" -> U16(address + m.x)
        [] mode = "absolute,Y" -> U16(address + m.y)
        [] mode = "indirect"   -> WordIn(m, address)
        [] mode = "X,indirect" -> ZeroWord(m, U8(LL(m) + m.x))
        [] mode = "indirect,Y" -> U16(ZeroWord(m, LL(m)) + m.y)
        [] mode = "relative"   -> U16(m.pc + 2 + S8(LL(m)))
        [] mode = "zeropage"   -> LL(m)
        [] mode = "zeropage,X" -> U8(LL(m) + m.x)
        [] mode = "zeropage,Y" -> U8(LL(m) + m.y)

(* The bytes of an address that the chip reads as signed and should not.   *)
SignedBytes(m) ==
  LET mode == DocumentedMode(m)
  IN  CASE mode = "absolute"   -> {LL(m), HH(m)}
        [] mode = "absolute,X" -> {LL(m), m.x}
        [] mode = "absolute,Y" -> {LL(m), m.y}
        [] mode = "indirect"   -> {LL(m), HH(m), ByteAt(m, 256 * HH(m) + LL(m))}
        [] mode = "X,indirect" -> {ByteAt(m, U8(LL(m) + m.x))}
        [] mode = "indirect,Y" -> {LL(m), ByteAt(m, LL(m)), m.y}
        [] mode = "zeropage"   -> {LL(m)}
        [] OTHER -> {}

(* The step executes an instruction, and one that has an address.          *)
Executes == executed' = executed + 1

Addresses ==
  /\ Executes
  /\ machine.state = CPU_STATE_RUN
  /\ InMemory(machine.pc + 2) /\ machine.pc + 2 \in Word   \* it does not go around
  /\ DocumentedMode(machine) \in Addressed

-----------------------------------------------------------------------------
(* Properties.                                                             *)

(* The chip, its memory and the counters keep their types whatever is      *)
(* executed, loaded or inserted, and nothing is stored outside of memory.  *)
MachineTypeOK ==
  /\ IsMachine(machine)
  /\ active \in 0..1
  /\ executed \in 0..MaxInstructions
  /\ visits \in 0..MaxVisits

(* Every instruction works on the address its mode is documented to have   *)
(* (oku_6502.c, the table of address modes): zero page indexing and        *)
(* pointers wrap within the page, 16 bit indexing carries into the high    *)
(* byte.  It is so as long as no byte that is part of an address has its   *)
(* top bit set, and for every opcode but 0x91, whose operand function is   *)
(* not that of its mode.                                                   *)
PlainAddressesAreRight ==
  [][ (Addresses /\ AtPC(machine) # \h91 /\ \A b \in SignedBytes(machine) : b < 128)
        => machine'.operand = EffectiveAddress(machine) ]_vars

(* The same without those conditions: what the table says of every byte.   *)
AddressesAreAsDocumented ==
  [][ Addresses => machine'.operand = EffectiveAddress(machine) ]_vars

(* Binary ADC and SBC leave the sum modulo 256 in the accumulator, and V   *)
(* tells exactly the sums that a signed byte cannot hold, for every        *)
(* combination of signs and carry.                                         *)
SumsAreSigned ==
  [][ LET op  == Decode(AtPC(machine)).op
          d   == ByteAt(machine, machine'.operand)
          sum == IF op = "adc" THEN S8(machine.a) + S8(d) + Carry(machine)
                               ELSE S8(machine.a) - S8(d) - 1 + Carry(machine)
      IN  (Addresses /\ op \in {"adc", "sbc"} /\ ~Decimal(machine))
            => /\ machine'.a = U8(sum)
               /\ Bit(machine'.sr, 6) = One(sum \notin -128..127) ]_vars

(* A step of the chip changes memory only where its operand points or in   *)
(* the page of the stack, one instruction of any kind, the interrupt       *)
(* sequence included.                                                      *)
WritesStayInPlace ==
  [][ Executes
        => \A i \in DOMAIN machine'.mem :
             ByteAt(machine', i) # ByteAt(machine, i)
               => i = machine'.operand \/ Page(i) = 1 ]_vars

(* Whatever the stack pointer is, an RTI after a BRK finds the program     *)
(* counter, the flags and the stack pointer that the BRK found, the stack  *)
(* wrapping around its page on the way; the program counter only when its  *)
(* low byte is below 0x80, because pop_pc extends its sign.                *)
InterruptsReturn ==
  LET back == Rti(Brk(machine))
  IN  /\ back.sp = machine.sp /\ back.sr = machine.sr
      /\ machine.pc % 256 < 128 => back.pc = machine.pc

(* A reset of an active computer ends: the chip is in its running state    *)
(* after it, whatever was loaded or inserted while it started.             *)
ResetEnds ==
  CodeOf(machine.state) = CPU_STATE_RESET
    ~> machine.state = CPU_STATE_RUN \/ active = 0
=============================================================================
