--------------------------- MODULE MCOkuComputer ---------------------------
(* Machines saved in front of one instruction of every kind, with bytes on *)
(* both sides of the sign bit and at the end of the zero page.             *)
EXTENDS OkuComputer, TLC

CONSTANTS Opcodes, LowBytes, HighBytes, Accumulators, Indexes, Flags, StackPointers

EveryOpcode == {ir \in Byte : Decode(ir).op # "hang"} \union {2}

SomeOpcodes == {Opcode(Zp("lda")), Opcode(Abs("sta")), Opcode(IndY("lda"))}

(* Pointers in the zero page, one across its end, and both vectors.        *)
Image ==
  (16 :> 32) @@ (17 :> 3) @@ (18 :> 144) @@ (127 :> 5) @@ (128 :> 3)
    @@ (255 :> 64) @@ (0 :> 4) @@ (RESET_VECTOR_PTR :> 0) @@ (RESET_VECTOR_PTR + 1 :> 2)
    @@ (BREAK_VECTOR_PTR :> 96)

Programs == {<<ir, lo, hi>> : ir \in Opcodes, lo \in LowBytes, hi \in HighBytes}

Machines ==
  {[FreshMachine EXCEPT !.pc = 512, !.sp = sp, !.a = a, !.x = i, !.y = i, !.sr = sr,
                        !.state = CPU_STATE_RUN, !.mem = WithBlob(Image, 512, program)] :
     sp \in StackPointers, a \in Accumulators, i \in Indexes, sr \in Flags,
     program \in Programs}

(* LDA #$80; PHA.                                                          *)
Disks == {<<169, 128, 72>>}
=============================================================================
