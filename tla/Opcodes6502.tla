---------------------------- MODULE Opcodes6502 ----------------------------
(***************************************************************************)
(* The instruction table of the 6502 chip: the switch of                   *)
(* oku_6502_chip_exec, sixteen opcodes to a row.  An entry names the       *)
(* operand function (opr_xxx) that is called first and the operation       *)
(* (exec_xxx) that is called after it; Hang is a case that only returns    *)
(* HANG_CODE.  0x91 is transcribed as it is written: its comment says      *)
(* "STA ind,Y", its case calls the operand function of X,ind.              *)
(***************************************************************************)
EXTENDS Naturals, Sequences

Imp(op)  == [mode |-> "implied", op |-> op]
Acc(op)  == [mode |-> "accumulator", op |-> op]
Imm(op)  == [mode |-> "immediate", op |-> op]
Abs(op)  == [mode |-> "absolute", op |-> op]
AbsX(op) == [mode |-> "absolute,X", op |-> op]
AbsY(op) == [mode |-> "absolute,Y", op |-> op]
Ind(op)  == [mode |-> "indirect", op |-> op]
IndX(op) == [mode |-> "X,indirect", op |-> op]
IndY(op) == [mode |-> "indirect,Y", op |-> op]
Rel(op)  == [mode |-> "relative", op |-> op]
Zp(op)   == [mode |-> "zeropage", op |-> op]
ZpX(op)  == [mode |-> "zeropage,X", op |-> op]
ZpY(op)  == [mode |-> "zeropage,Y", op |-> op]
Hang     == [mode |-> "none", op |-> "hang"]

Opcodes0 ==
  << Imp("brk"), IndX("ora"), Hang, Hang, Hang, Zp("ora"), Zp("asl"), Hang,
     Imp("php"), Imm("ora"), Acc("asl_a"), Hang, Hang, Abs("ora"),
     Abs("asl"), Hang >>

Opcodes1 ==
  << Rel("bpl"), IndY("ora"), Hang, Hang, Hang, ZpX("ora"), ZpX("asl"), Hang,
     Imp("clc"), AbsY("ora"), Hang, Hang, Hang, AbsX("ora"), AbsX("asl"),
     Hang >>

Opcodes2 ==
  << Abs("jsr"), IndX("and"), Hang, Hang, Zp("bit"), Zp("and"), Zp("rol"),
     Hang, Imp("plp"), Imm("and"), Acc("rol_a"), Hang, Abs("bit"),
     Abs("and"), Abs("rol"), Hang >>

Opcodes3 ==
  << Rel("bmi"), IndY("and"), Hang, Hang, Hang, ZpX("and"), ZpX("rol"), Hang,
     Imp("sec"), AbsY("and"), Hang, Hang, Hang, AbsX("and"), AbsX("rol"),
     Hang >>

Opcodes4 ==
  << Imp("rti"), IndX("eor"), Hang, Hang, Hang, Zp("eor"), Zp("lsr"), Hang,
     Imp("pha"), Imm("eor"), Acc("lsr_a"), Hang, Abs("jmp"), Abs("eor"),
     Abs("lsr"), Hang >>

Opcodes5 ==
  << Rel("bvc"), IndY("eor"), Hang, Hang, Hang, ZpX("eor"), ZpX("lsr"), Hang,
     Imp("cli"), AbsY("eor"), Hang, Hang, Hang, AbsX("eor"), AbsX("lsr"),
     Hang >>

Opcodes6 ==
  << Imp("rts"), IndX("adc"), Hang, Hang, Hang, Zp("adc"), Zp("ror"), Hang,
     Imp("pla"), Imm("adc"), Acc("ror_a"), Hang, Ind("jmp"), Abs("adc"),
     Abs("ror"), Hang >>

Opcodes7 ==
  << Rel("bvs"), IndY("adc"), Hang, Hang, Hang, ZpX("adc"), ZpX("ror"), Hang,
     Imp("sei"), AbsY("adc"), Hang, Hang, Hang, AbsX("adc"), AbsX("ror"),
     Hang >>

Opcodes8 ==
  << Hang, IndX("sta"), Hang, Hang, Zp("sty"), Zp("sta"), Zp("stx"), Hang,
     Imp("dey"), Hang, Imp("txa"), Hang, Abs("sty"), Abs("sta"), Abs("stx"),
     Hang >>

Opcodes9 ==
  << Rel("bcc"), IndX("sta"), Hang, Hang, ZpX("sty"), ZpX("sta"), ZpY("stx"),
     Hang, Imp("tya"), AbsY("sta"), Imp("txs"), Hang, Hang, AbsX("sta"),
     Hang, Hang >>

OpcodesA ==
  << Imm("ldy"), IndX("lda"), Imm("ldx"), Hang, Zp("ldy"), Zp("lda"),
     Zp("ldx"), Hang, Imp("tay"), Imm("lda"), Imp("tax"), Hang, Abs("ldy"),
     Abs("lda"), Abs("ldx"), Hang >>

OpcodesB ==
  << Rel("bcs"), IndY("lda"), Hang, Hang, ZpX("ldy"), ZpX("lda"), ZpY("ldx"),
     Hang, Imp("clv"), AbsY("lda"), Imp("tsx"), Hang, AbsX("ldy"),
     AbsX("lda"), AbsY("ldx"), Hang >>

OpcodesC ==
  << Imm("cpy"), IndX("cmp"), Hang, Hang, Zp("cpy"), Zp("cmp"), Zp("dec"),
     Hang, Imp("iny"), Imm("cmp"), Imp("dex"), Hang, Abs("cpy"), Abs("cmp"),
     Abs("dec"), Hang >>

OpcodesD ==
  << Rel("bne"), IndY("cmp"), Hang, Hang, Hang, ZpX("cmp"), ZpX("dec"), Hang,
     Imp("cld"), AbsY("cmp"), Hang, Hang, Hang, AbsX("cmp"), AbsX("dec"),
     Hang >>

OpcodesE ==
  << Imm("cpx"), IndX("sbc"), Hang, Hang, Zp("cpx"), Zp("sbc"), Zp("inc"),
     Hang, Imp("inx"), Imm("sbc"), Imp("nop"), Hang, Abs("cpx"), Abs("sbc"),
     Abs("inc"), Hang >>

OpcodesF ==
  << Rel("beq"), IndY("sbc"), Hang, Hang, Hang, ZpX("sbc"), ZpX("inc"), Hang,
     Imp("sed"), AbsY("sbc"), Hang, Hang, Hang, AbsX("sbc"), AbsX("inc"),
     Hang >>

Instructions ==
  << Opcodes0, Opcodes1, Opcodes2, Opcodes3, Opcodes4, Opcodes5, Opcodes6,
     Opcodes7, Opcodes8, Opcodes9, OpcodesA, OpcodesB, OpcodesC, OpcodesD,
     OpcodesE, OpcodesF >>

Decode(ir) == Instructions[(ir \div 16) + 1][(ir % 16) + 1]

(* The opcode of a mode and an operation, for those who write programs.    *)
Opcode(entry) == CHOOSE ir \in 0..255 : Decode(ir) = entry
=============================================================================
