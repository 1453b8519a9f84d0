------------------------------- MODULE ShA32 -------------------------------
(***************************************************************************)
(* Rewriting of arm instructions (arch/arm/sh_a32.c).  Instructions and    *)
(* ri as in ShA64; pc is the address of the instruction plus 8.            *)
(***************************************************************************)
EXTENDS ShCode

IGNORED == "IGNORED"
Branches == {"B_A1", "BX_A1", "BL_IMM_A1", "BLX_IMM_A2"}
AddSub == {"ADD_REG_A1", "ADD_REG_PC_A1", "SUB_REG_A1", "SUB_REG_PC_A1"}
Adr == {"ADR_A1", "ADR_A2"}
Mov == {"MOV_REG_A1", "MOV_REG_PC_A1"}
Lit == {"LDR_LIT_A1", "LDR_LIT_PC_A1", "LDRB_LIT_A1", "LDRD_LIT_A1", "LDRH_LIT_A1", "LDRSB_LIT_A1", "LDRSH_LIT_A1"}
Reg == {"LDR_REG_A1", "LDR_REG_PC_A1", "LDRB_REG_A1", "LDRD_REG_A1", "LDRH_REG_A1", "LDRSB_REG_A1", "LDRSH_REG_A1"}
Types == {IGNORED} \cup Branches \cup AddSub \cup Adr \cup Mov \cup Lit \cup Reg

InstLen(k) ==
  CASE k = IGNORED -> 4
    [] k \in {"B_A1", "BX_A1", "MOV_REG_PC_A1"} \cup Adr -> 12
    [] k \in {"BL_IMM_A1", "BLX_IMM_A2"} -> 16
    [] k \in {"LDR_LIT_PC_A1", "LDR_REG_PC_A1"} -> 36
    [] k \in Lit \ {"LDR_LIT_PC_A1"} -> 24
    [] k \in AddSub \cup {"MOV_REG_A1"} \cup (Reg \ {"LDR_REG_PC_A1"}) -> 32

Op(i) == [n |-> 4, i |-> i]
If(x, i) == Op(IF x.c THEN <<"if", i>> ELSE i)
Word(a) == Op(<<"data", At(a)>>)
Ldr(r, imm) == Op(<<"load literal", r, imm, "word">>)
Push(rs) == Op(<<"push", rs>>)
Pop(rs) == Op(<<"pop", rs>>)

\* B<c> #0, B over the n bytes that follow: they run only if the condition holds.
Guarded(x, items) == <<If(x, <<"b", 0>>), Op(<<"b", Bytes(items) - 4>>)>> \o items

\* The loops "for (rx = 3;; --rx)": the highest register up to n that the instruction does not use.
Scratch(n, used) == CHOOSE r \in 0 .. n : r \notin used /\ \A s \in r + 1 .. n : s \in used

FixAddr(addr, ri) == Fixed(4, addr, ri)

RewriteB(x, pc, ri) ==
  LET addr == CASE x.k = "BX_A1" -> pc
                [] x.k = "BLX_IMM_A2" -> pc + x.i[2] + 1
                [] OTHER -> pc + x.i[2]
  IN (IF x.k \in {"BL_IMM_A1", "BLX_IMM_A2"} THEN <<If(x, <<"adr", 14, 8>>)>> ELSE <<>>)
     \o <<If(x, <<"load literal", PC, 0, "word">>), Op(<<"b", 0>>), Word(FixAddr(addr, ri))>>

\* One operand is the PC; a scratch register takes its place.
RewriteAddOrSub(x, pc) ==
  LET rd == x.i[2]  rn == x.i[4][1]  rm == x.i[4][2]
      rx == Scratch(3, {rn, rm, rd})
      ry == Scratch(4, {rn, rm, rd, rx})
      operands == IF rn = PC THEN <<rx, rm>> ELSE <<rn, rx>>
  IN IF rd = PC
     THEN Guarded(x, <<Push(<<rx, ry, PC>>), Ldr(rx, 8), Op([x.i EXCEPT ![2] = ry, ![4] = operands]),
                       Op(<<"store", <<ry>>, 2>>), Pop(<<rx, ry, PC>>), Word(pc)>>)
     ELSE Guarded(x, <<Push(<<rx>>), Ldr(rx, 8), Op([x.i EXCEPT ![4] = operands]),
                       Pop(<<rx>>), Op(<<"b", 0>>), Word(pc)>>)

RewriteAdr(x, pc, ri) ==
  LET addr == pc + x.i[3]
  IN IF NeedFix(addr, ri) THEN <<>>
     ELSE <<If(x, <<"load literal", x.i[2], 0, "word">>), Op(<<"b", 0>>), Word(addr)>>

RewriteMov(x, pc) ==
  LET rd == x.i[2]
      rx == IF rd = 0 THEN 1 ELSE 0
  IN IF rd = PC
     THEN <<If(x, <<"load literal", PC, 0, "word">>), Op(<<"b", 0>>), Word(pc)>>
     ELSE Guarded(x, <<Push(<<rx>>), Ldr(rx, 8), Op([x.i EXCEPT ![4] = <<rx>>]),
                       Pop(<<rx>>), Op(<<"b", 0>>), Word(pc)>>)

RewriteLdrLit(x, pc, ri) ==
  LET rt == x.i[2]
      addr == pc + x.i[3]
  IN IF NeedFix(addr, ri) THEN <<>>
     ELSE IF x.k = "LDR_LIT_PC_A1"
     THEN Guarded(x, <<Push(<<0, 1>>), Ldr(0, 0), Op(<<"b", 0>>), Word(addr), Op(<<"load", 0, <<0>>, "word">>),
                       Op(<<"store", <<0>>, 1>>), Pop(<<0, PC>>)>>)
     ELSE Guarded(x, <<Ldr(rt, 0), Op(<<"b", 0>>), Word(addr), Op(<<"load", rt, <<rt>>, x.i[4]>>)>>)

RewriteLdrReg(x, pc) ==
  LET rt == x.i[2]  rm == x.i[3][2]
      rx == Scratch(3, {rt, rt + 1, rm})
      ry == Scratch(4, {rt, rt + 1, rm, rx})
  IN IF rt = PC
     THEN Guarded(x, <<Push(<<rx, ry, PC>>), Ldr(rx, 0), Op(<<"b", 0>>), Word(pc),
                       Op([x.i EXCEPT ![2] = ry, ![3] = <<rx, rm>>]), Op(<<"store", <<ry>>, 2>>), Pop(<<rx, ry, PC>>)>>)
     ELSE Guarded(x, <<Push(<<rx>>), Ldr(rx, 0), Op(<<"b", 0>>), Word(pc),
                       Op([x.i EXCEPT ![3] = <<rx, rm>>]), Pop(<<rx>>)>>)

Rewrite(x, pc, ri) ==
  CASE x.k \in Branches -> RewriteB(x, pc, ri)
    [] x.k \in AddSub -> RewriteAddOrSub(x, pc)
    [] x.k \in Adr -> RewriteAdr(x, pc, ri)
    [] x.k \in Mov -> RewriteMov(x, pc)
    [] x.k \in Lit -> RewriteLdrLit(x, pc, ri)
    [] x.k \in Reg -> RewriteLdrReg(x, pc)
    [] OTHER -> <<Item(x)>>

AbsoluteJump(a) == <<Ldr(PC, -4), Word(a)>>
RestoreIp == <<Op(<<"restore", <<12>>, -1>>)>>
RelativeJump(a, pc, reach) == <<Op(<<"b", ((a - pc + reach) % (2 * reach)) - reach>>)>>
=============================================================================
