------------------------------- MODULE ShA64 -------------------------------
(***************************************************************************)
(* Rewriting of arm64 instructions (arch/arm64/sh_a64.c).  An instruction  *)
(* is [k |-> type, n |-> 4, c |-> whether it is conditional, i |-> what it *)
(* does]; decoding (sh_a64_get_type) is in how a case is given.  ri is     *)
(* sh_a64_rewrite_info_t: start, end, buf, prolog, lens, and island, the   *)
(* address of the branch island or 0.                                      *)
(***************************************************************************)
EXTENDS ShCode

IGNORED == "IGNORED"
Branches == {"B", "B_COND", "BL"}
Tests == {"CBZ", "CBNZ", "TBZ", "TBNZ"}
Loads == {"LDR_LIT_32", "LDR_LIT_64", "LDRSW_LIT"}
Simd == {"LDR_SIMD_LIT_32", "LDR_SIMD_LIT_64", "LDR_SIMD_LIT_128"}
Types == {IGNORED, "ADR", "ADRP", "PRFM_LIT"} \cup Branches \cup Tests \cup Loads \cup Simd

InstLen_NoIsland(k, island) ==
  CASE k = IGNORED -> 4
    [] k \in {"B", "BL"} -> 20
    [] k = "B_COND" -> 28
    [] k \in {"ADR", "ADRP"} -> 16
    [] k \in Loads -> 20
    [] k \in Simd \cup {"PRFM_LIT"} -> 28
    [] k \in Tests -> 24
InstLen(k, island) ==
  CASE k = IGNORED -> 4
    [] k \in {"B", "BL"} -> IF island THEN 24 ELSE 20
    [] k = "B_COND" -> IF island THEN 32 ELSE 28
    [] k \in {"ADR", "ADRP"} -> 16
    [] k \in Loads -> 20
    [] k \in Simd \cup {"PRFM_LIT"} -> 28
    [] k \in Tests -> IF island THEN 28 ELSE 24

Op(i) == [n |-> 4, i |-> i]
Word(a) == [n |-> 8, i |-> <<"data", At(a)>>]
Ldr(r, imm) == Op(<<"load literal", r, imm, "word">>)
SaveIP == Op(<<"store", <<16, 17>>, -2>>)

FixAddr_Not(addr, ri) == addr
FixAddr(addr, ri) == Fixed(4, addr, ri)

\* Where a branch goes; the island of the rewritten branch is made to go there.
Destination(x, pc, ri) ==
  FixAddr(pc + x.i[IF x.k \in Tests THEN 3 ELSE 2], ri)
Via(x, pc, ri) == IF ri.island # 0 THEN ri.island ELSE Destination(x, pc, ri)

RewriteB(x, pc, ri) ==
  (IF x.k # "B_COND" THEN <<>>
   ELSE <<Op(<<"if", <<"b", 8>>>>), Op(<<"b", IF ri.island # 0 THEN 28 ELSE 24>>)>>)
  \o (IF ri.island # 0 THEN <<SaveIP>> ELSE <<>>)
  \o <<Ldr(17, 8), Op(<<"b", 12>>), Word(Via(x, pc, ri)), Op(<<IF x.k = "BL" THEN "blr" ELSE "bx", 17>>)>>

RewriteAdr(x, pc, ri) ==
  LET addr == IF x.k = "ADR" THEN pc + x.i[3] ELSE pc - (pc % PageSize) + x.i[3]
  IN IF NeedFix(addr, ri) THEN <<>> ELSE <<Ldr(x.i[2], 8), Op(<<"b", 12>>), Word(addr)>>

\* A literal is loaded through its own register, a hint or a SIMD register through X17.
RewriteLdr(x, pc, ri) ==
  LET addr == pc + (IF x.k = "PRFM_LIT" THEN x.i[2] ELSE x.i[3])
  IN CASE x.k # "PRFM_LIT" /\ NeedFix(addr, ri) -> <<>>
       [] x.k \in Loads /\ ~NeedFix(addr, ri) ->
            <<Ldr(x.i[2], 12), Op(<<"load", x.i[2], <<x.i[2]>>, x.i[4]>>), Op(<<"b", 12>>), Word(addr)>>
       [] OTHER ->
            <<SaveIP, Ldr(17, 16),
              Op(IF x.k = "PRFM_LIT" THEN <<"hint", 17>> ELSE <<"load", x.i[2], <<17>>, x.i[4]>>),
              Op(<<"restore", <<17>>, -1>>), Op(<<"b", 12>>), Word(FixAddr(addr, ri))>>

RewriteCb(x, pc, ri) ==
  <<Op([x.i EXCEPT ![3] = 8])>>
  \o (IF ri.island # 0 THEN <<Op(<<"b", 24>>), SaveIP>> ELSE <<Op(<<"b", 20>>)>>)
  \o <<Ldr(17, 8), Op(<<"bx", 17>>), Word(Via(x, pc, ri))>>

RewriteTb(x, pc, ri) ==
  <<Op([x.i EXCEPT ![3] = 8])>>
  \o (IF ri.island # 0 THEN <<Op(<<"b", 24>>), SaveIP>> ELSE <<Op(<<"b", 20>>)>>)
  \o <<Ldr(17, 8), Op(<<"bx", 17>>), Word(Via(x, pc, ri))>>

\* The rewritten instructions; none if it cannot be rewritten.
Rewrite(x, pc, ri) ==
  CASE x.k \in Branches -> RewriteB(x, pc, ri)
    [] x.k \in {"ADR", "ADRP"} -> RewriteAdr(x, pc, ri)
    [] x.k \in Loads \cup Simd \cup {"PRFM_LIT"} -> RewriteLdr(x, pc, ri)
    [] x.k \in {"CBZ", "CBNZ"} -> RewriteCb(x, pc, ri)
    [] x.k \in {"TBZ", "TBNZ"} -> RewriteTb(x, pc, ri)
    [] OTHER -> <<Op(x.i)>>

\* resume_ip_x16: the instruction leaves X17 to the function, which is resumed through X16.
ResumeWithX16(x) == x.k \in {"ADRP", "LDR_LIT_64"} /\ x.i[2] = 17

AbsoluteJumpWithBrIp(a) == <<Ldr(17, 8), Op(<<"bx", 17>>), Word(a)>>
AbsoluteJumpWithRetIp(a, x16) == LET r == IF x16 THEN 16 ELSE 17 IN <<Ldr(r, 8), Op(<<"bx", r>>), Word(a)>>
RestoreIp == <<Op(<<"restore", <<16, 17>>, -2>>)>>
AbsoluteJumpWithBrRx(a) == <<SaveIP, Ldr(16, 8), Op(<<"bx", 16>>), Word(a)>>
AbsoluteJumpWithRetRx(a) == <<SaveIP, Ldr(16, 8), Op(<<"bx", 16>>), Word(a)>>
RestoreRx == <<Op(<<"restore", <<16, 17>>, -2>>)>>

\* B holds 26 bits of words: an offset out of reach comes out on the other side.
RelativeJump(a, pc, reach) == <<Op(<<"b", ((a - pc + reach) % (2 * reach)) - reach>>)>>
=============================================================================
