------------------------------ MODULE ShThumb ------------------------------
(***************************************************************************)
(* Rewriting of thumb instructions (arch/arm/sh_t16.c, sh_t32.c, sh_txx.c  *)
(* and the loop of sh_inst_thumb_rewrite).  Instructions as in ShA64 with  *)
(* n 2 or 4; an IT block is [k |-> "IT_T1", n |-> 2, block |-> sequence of *)
(* [then, x]].  pc is the address of the instruction plus 4.               *)
(***************************************************************************)
EXTENDS ShCode

IGNORED == "IGNORED"
T16 == {IGNORED, "B_T1", "B_T2", "BX_T1", "ADD_REG_T2", "MOV_REG_T1", "ADR_T1", "LDR_LIT_T1", "CBZ_T1", "CBNZ_T1"}
Loads == {"LDR_LIT_T2", "LDRB_LIT_T1", "LDRD_LIT_T1", "LDRH_LIT_T1", "LDRSB_LIT_T1", "LDRSH_LIT_T1"}
T32 == {IGNORED, "B_T3", "B_T4", "BL_IMM_T1", "BLX_IMM_T2", "ADR_T2", "ADR_T3", "LDR_LIT_PC_T2", "PLD_LIT_T1",
        "PLI_LIT_T3", "TBB_T1", "TBH_T1", "VLDR_LIT_T1"} \cup Loads

T16Len(k) ==
  CASE k = IGNORED -> 4
    [] k \in {"B_T1", "MOV_REG_T1", "LDR_LIT_T1", "CBZ_T1", "CBNZ_T1"} -> 12
    [] k \in {"B_T2", "BX_T1", "ADR_T1"} -> 8
    [] k = "ADD_REG_T2" -> 16
T32Len(k) ==
  CASE k = IGNORED -> 4
    [] k = "B_T4" -> 8
    [] k \in {"B_T3", "BL_IMM_T1", "BLX_IMM_T2", "ADR_T2", "ADR_T3"} -> 12
    [] k \in Loads -> 16
    [] k \in {"PLD_LIT_T1", "PLI_LIT_T3"} -> 20
    [] k \in {"LDR_LIT_PC_T2", "VLDR_LIT_T1"} -> 24
    [] k \in {"TBB_T1", "TBH_T1"} -> 32
InstLen(x) == IF x.n = 2 THEN T16Len(x.k) ELSE T32Len(x.k)

Op(n, i) == [n |-> n, i |-> i]
NOP == Op(2, <<"nop">>)
B(imm) == Op(2, <<"b", imm>>)
Word(a) == Op(4, <<"data", At(a)>>)
LdrW(r, imm) == Op(4, <<"load literal", r, imm, "word">>)
Align4(a) == a - (a % 4)

\* An address with bit 0 set stays so.
FixAddr(addr, ri) == Fixed(2, addr - (addr % 2), ri) + (addr % 2)

Rewrite16B(x, pc, ri) ==
  (IF x.k = "B_T1" THEN <<Op(2, <<"if", <<"b", 0>>>>), B(6)>> ELSE <<>>)
  \o <<LdrW(PC, 0), Word(FixAddr(IF x.k = "BX_T1" THEN pc ELSE pc + x.i[2] + 1, ri))>>

Rewrite16Add(x, pc) ==
  LET rd == x.i[2]
      rx == IF rd = 0 THEN 1 ELSE 0
  IN <<Op(2, <<"push", <<rx>>>>), Op(2, <<"load literal", rx, 8, "word">>), Op(2, [x.i EXCEPT ![4] = <<rd, rx>>]),
       Op(2, <<"pop", <<rx>>>>), B(4), NOP, Word(pc)>>

Rewrite16Mov(x, pc) == <<LdrW(x.i[2], 4), B(4), NOP, Word(pc)>>

Rewrite16Adr(x, pc, ri) ==
  LET addr == Align4(pc) + x.i[3]
  IN IF NeedFix(addr, ri) THEN <<>> ELSE <<Op(2, <<"load literal", x.i[2], 0, "word">>), B(2), Word(addr)>>

Rewrite16Ldr(x, pc, ri) ==
  LET addr == Align4(pc) + x.i[3]
      rt == x.i[2]
  IN IF NeedFix(addr, ri) THEN <<>>
     ELSE <<Op(2, <<"load literal", rt, 0, "word">>), B(2), Word(addr), Op(2, <<"load", rt, <<rt>>, "word">>), NOP>>

Rewrite16Cb(x, pc, ri) ==
  <<Op(2, [x.i EXCEPT ![3] = 0]), B(6), LdrW(PC, 0), Word(FixAddr(pc + x.i[3] + 1, ri))>>

Rewrite16(x, pc, ri) ==
  CASE x.k \in {"B_T1", "B_T2", "BX_T1"} -> Rewrite16B(x, pc, ri)
    [] x.k = "ADD_REG_T2" -> Rewrite16Add(x, pc)
    [] x.k = "MOV_REG_T1" -> Rewrite16Mov(x, pc)
    [] x.k = "ADR_T1" -> Rewrite16Adr(x, pc, ri)
    [] x.k = "LDR_LIT_T1" -> Rewrite16Ldr(x, pc, ri)
    [] x.k \in {"CBZ_T1", "CBNZ_T1"} -> Rewrite16Cb(x, pc, ri)
    [] OTHER -> <<Item(x), NOP>>

Rewrite32B(x, pc, ri) ==
  LET addr == IF x.k = "BLX_IMM_T2" THEN Align4(pc) + x.i[2] ELSE pc + x.i[2] + 1
  IN (CASE x.k = "B_T3" -> <<Op(2, <<"if", <<"b", 0>>>>), B(6)>>
        [] x.k \in {"BL_IMM_T1", "BLX_IMM_T2"} -> <<Op(4, <<"adr", 14, 9>>)>>
        [] OTHER -> <<>>)
     \o <<LdrW(PC, 0), Word(FixAddr(addr, ri))>>

Rewrite32Adr(x, pc, ri) ==
  LET addr == Align4(pc) + x.i[3]
  IN IF NeedFix(addr, ri) THEN <<>> ELSE <<LdrW(x.i[2], 4), B(4), NOP, Word(addr)>>

Rewrite32Ldr(x, pc, ri) ==
  LET addr == Align4(pc) + x.i[3]
      rt == x.i[2]
  IN IF NeedFix(addr, ri) THEN <<>>
     ELSE IF x.k = "LDR_LIT_PC_T2"
     THEN <<Op(2, <<"push", <<0, 1>>>>), NOP, LdrW(0, 4), B(4), NOP, Word(addr), Op(4, <<"load", 0, <<0>>, "word">>),
            Op(2, <<"store", <<0>>, 1>>), Op(2, <<"pop", <<0, PC>>>>)>>
     ELSE <<LdrW(rt, 4), B(4), NOP, Word(addr), Op(4, <<"load", rt, <<rt>>, x.i[4]>>)>>

Rewrite32Pl(x, pc, ri) ==
  <<Op(2, <<"push", <<0>>>>), NOP, LdrW(0, 8), Op(4, <<"hint", 0>>), Op(2, <<"pop", <<0>>>>), B(2),
    Word(FixAddr(Align4(pc) + x.i[2], ri))>>

\* A table follows the instruction: nothing after it can be moved.
Rewrite32Tb(x, pc, ri) ==
  LET rn == x.i[2]  rm == x.i[3]
      Scratch(used) == CHOOSE r \in 0 .. 7 : r \notin used /\ \A s \in r + 1 .. 7 : s \in used
      rx == Scratch({rn, rm})
      ry == Scratch({rn, rm, rx})
  IN IF pc # ri.end THEN <<>>
     ELSE <<Op(2, <<"push", <<rx, ry, 14>>>>), NOP, LdrW(rx, 20),
            Op(4, <<"op", ry, x.i[5], <<IF rn = PC THEN rx ELSE rn, rm>>, FALSE>>),
            Op(2, <<"load", ry, <<ry>>, x.i[4]>>), NOP, Op(4, <<"op", rx, "add twice", <<rx, ry>>, FALSE>>),
            Op(2, <<"op", rx, "set bit 0", <<rx>>, TRUE>>), Op(2, <<"store", <<rx>>, 2>>),
            Op(2, <<"pop", <<rx, ry, PC>>>>), NOP, Word(pc)>>

Rewrite32Vldr(x, pc, ri) ==
  LET addr == Align4(pc) + x.i[3]
  IN IF NeedFix(addr, ri) THEN <<>>
     ELSE <<Op(2, <<"push", <<0>>>>), NOP, LdrW(0, 4), B(4), NOP, Word(addr), Op(4, <<"load", x.i[2], <<0>>, x.i[4]>>),
            Op(2, <<"pop", <<0>>>>), NOP>>

Rewrite32(x, pc, ri) ==
  CASE x.k \in {"B_T3", "B_T4", "BL_IMM_T1", "BLX_IMM_T2"} -> Rewrite32B(x, pc, ri)
    [] x.k \in {"ADR_T2", "ADR_T3"} -> Rewrite32Adr(x, pc, ri)
    [] x.k \in Loads \cup {"LDR_LIT_PC_T2"} -> Rewrite32Ldr(x, pc, ri)
    [] x.k \in {"PLD_LIT_T1", "PLI_LIT_T3"} -> Rewrite32Pl(x, pc, ri)
    [] x.k \in {"TBB_T1", "TBH_T1"} -> Rewrite32Tb(x, pc, ri)
    [] x.k = "VLDR_LIT_T1" -> Rewrite32Vldr(x, pc, ri)
    [] OTHER -> <<Item(x)>>

RewriteOne(x, pc, ri) == IF x.n = 2 THEN Rewrite16(x, pc, ri) ELSE Rewrite32(x, pc, ri)

IsIt(x) == x.k = "IT_T1"
Size(x) == IF IsIt(x) THEN FoldLeft(LAMBDA n, e : n + e.x.n, 2, x.block) ELSE x.n
SizeOf(xs) == FoldLeft(LAMBDA n, x : n + Size(x), 0, xs)

\* sh_t16_parse_it: the instructions of one branch of the block, each with its pc.
Branch(x, pc, then) ==
  LET All == [k \in DOMAIN x.block |-> [then |-> x.block[k].then, x |-> x.block[k].x,
               pc |-> pc + FoldLeft(LAMBDA n, e : n + e.x.n, 2, SubSeq(x.block, 1, k - 1))]]
  IN SelectSeq(All, LAMBDA e : e.then = then)
ItElse(len) == <<Op(2, <<"if", <<"b", len>>>>), NOP>>
ItThen(len) == <<B(len), NOP>>

\* The block becomes: B<c> then; the ELSE instructions; B end; then: the THEN instructions.
RewriteIt(x, pc, ri) ==
  LET Code(then) == [k \in DOMAIN Branch(x, pc, then) |->
                      RewriteOne(Branch(x, pc, then)[k].x, Branch(x, pc, then)[k].pc, ri)]
      else == FlattenSeq(Code(FALSE))
      thenCode == FlattenSeq(Code(TRUE))
  IN IF \E b \in BOOLEAN : \E k \in DOMAIN Code(b) : Code(b)[k] = <<>> THEN <<>>
     ELSE ItElse(Bytes(else) + 4) \o else \o ItThen(Bytes(thenCode)) \o thenCode

Rewrite(x, pc, ri) == IF IsIt(x) THEN RewriteIt(x, pc, ri) ELSE RewriteOne(x, pc, ri)

\* What the loops of sh_inst_thumb_get_rewrite_info and sh_inst_thumb_rewrite take: until 4 bytes are reached.
Moved(prog) == SubSeq(prog, 1, CHOOSE k \in DOMAIN prog : /\ SizeOf(SubSeq(prog, 1, k)) >= 4
                                                         /\ SizeOf(SubSeq(prog, 1, k - 1)) < 4)
BlockLen(x) == FoldLeft(LAMBDA n, e : n + InstLen(e.x), 4 + 4, x.block)

\* inst_lens: one entry per half-word.
Lens(xs) ==
  FlattenSeq([k \in DOMAIN xs |->
    [h \in 1 .. Size(xs[k]) \div 2 |->
      IF h > 1 THEN 0 ELSE IF IsIt(xs[k]) THEN BlockLen(xs[k]) ELSE InstLen(xs[k])]])

AbsoluteJump(a) == <<LdrW(PC, 0), Word(a)>>
RestoreIp == <<Op(4, <<"restore", <<12>>, -1>>)>>
RelativeJump(a, pc, reach) == <<Op(4, <<"b", ((a - pc + reach) % (2 * reach)) - reach>>)>>
=============================================================================
