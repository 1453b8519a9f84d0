------------------------------- MODULE MCRun -------------------------------
(***************************************************************************)
(* One case or more for each instruction that is rewritten: plain, to      *)
(* itself or its neighbours where it branches, both ways where it tests,   *)
(* and one that cannot move; for thumb also pairs of short instructions    *)
(* and IT blocks.  Addresses are scaled: a branch reaches 128 bytes.       *)
(***************************************************************************)
EXTENDS ShRun

ISA == {"a64", "arm", "thumb"}
Ins(n, k, i) == [n |-> n, k |-> k, i |-> i, c |-> FALSE]
Cond(n, k, i) == [n |-> n, k |-> k, i |-> i, c |-> TRUE]
It(block) == [n |-> 2, k |-> "IT_T1", c |-> FALSE, block |-> block]
Use(n) == Ins(n, "IGNORED", <<"op", 3, "use", <<0, 1>>, FALSE>>)
Far == 2000

\* Branches go far, to themselves and to the next instruction.
OffA64 == {Far, 0, 4}
FirstA64 ==
  {Use(4), Ins(4, "ADR", <<"adr", 0, Far>>), Ins(4, "ADR", <<"adr", 0, 0>>),
   Ins(4, "ADRP", <<"adrp", 17, Far>>), Ins(4, "ADRP", <<"adrp", 0, 0>>),
   Ins(4, "LDR_LIT_32", <<"load literal", 1, Far, "w">>), Ins(4, "LDR_LIT_64", <<"load literal", 17, Far, "x">>),
   Ins(4, "LDRSW_LIT", <<"load literal", 16, Far, "sw">>), Ins(4, "LDR_SIMD_LIT_64", <<"load literal", 100, Far, "d">>),
   Ins(4, "PRFM_LIT", <<"hint literal", Far>>), Ins(4, "LDR_LIT_64", <<"load literal", 0, 0, "x">>)}
  \cup {Ins(4, "B", <<"b", o>>) : o \in OffA64} \cup {Cond(4, "B_COND", <<"b", o>>) : o \in OffA64}
  \cup {Ins(4, "BL", <<"bl", Far>>), Ins(4, "BL", <<"bl", 0>>)}
  \cup {Ins(4, "CBZ", <<"cb", r, o>>) : r \in {0, 17}, o \in OffA64} \cup {Ins(4, "TBNZ", <<"cb", 16, o>>) : o \in OffA64}

FirstA32 ==
  {Use(4), Ins(4, "BX_A1", <<"bx", PC>>), Ins(4, "BL_IMM_A1", <<"bl", Far>>), Ins(4, "BL_IMM_A1", <<"bl", -8>>),
   Ins(4, "BLX_IMM_A2", <<"blx", Far>>), Cond(4, "BL_IMM_A1", <<"bl", Far>>),
   Ins(4, "ADD_REG_A1", <<"op", 1, "add", <<PC, 2>>, TRUE>>), Cond(4, "SUB_REG_A1", <<"op", 3, "sub", <<2, PC>>, FALSE>>),
   Cond(4, "ADD_REG_PC_A1", <<"op", PC, "add", <<PC, 3>>, FALSE>>),
   Ins(4, "ADR_A1", <<"adr", 12, Far>>), Cond(4, "ADR_A2", <<"adr", 1, -100>>), Ins(4, "ADR_A2", <<"adr", 1, -8>>),
   Cond(4, "MOV_REG_A1", <<"op", 0, "mov", <<PC>>, FALSE>>), Ins(4, "MOV_REG_PC_A1", <<"op", PC, "mov", <<PC>>, FALSE>>),
   Cond(4, "LDR_LIT_A1", <<"load literal", 12, Far, "word">>), Cond(4, "LDR_LIT_PC_A1", <<"load literal", PC, Far, "word">>),
   Ins(4, "LDRD_LIT_A1", <<"load literal", 0, Far, "dual">>), Cond(4, "LDRB_LIT_A1", <<"load literal", 3, Far, "b">>),
   Cond(4, "LDR_REG_A1", <<"load", 3, <<PC, 2>>, "word">>), Cond(4, "LDR_REG_PC_A1", <<"load", PC, <<PC, 3>>, "word">>),
   Ins(4, "LDRD_REG_A1", <<"load", 2, <<PC, 1>>, "dual">>)}
  \cup {Cond(4, "B_A1", <<"b", o>>) : o \in {Far, -8, -4}}

Thumb16 ==
  {Use(2), Cond(2, "B_T1", <<"b", Far>>), Cond(2, "B_T1", <<"b", -4>>), Ins(2, "B_T2", <<"b", Far>>), Ins(2, "B_T2", <<"b", -2>>),
   Ins(2, "BX_T1", <<"bx", PC>>), Ins(2, "ADD_REG_T2", <<"op", 0, "add", <<0, PC>>, FALSE>>),
   Ins(2, "MOV_REG_T1", <<"op", 1, "mov", <<PC>>, FALSE>>), Ins(2, "ADR_T1", <<"adr", 2, 40>>), Ins(2, "ADR_T1", <<"adr", 2, -4>>),
   Ins(2, "LDR_LIT_T1", <<"load literal", 2, 40, "word">>), Ins(2, "CBZ_T1", <<"cb", 0, 40>>), Ins(2, "CBNZ_T1", <<"cb", 1, -2>>)}
Thumb32 ==
  {Use(4), Cond(4, "B_T3", <<"b", Far>>), Ins(4, "B_T4", <<"b", -6>>), Ins(4, "B_T4", <<"b", Far>>), Ins(4, "BL_IMM_T1", <<"bl", Far>>),
   Ins(4, "BLX_IMM_T2", <<"blx", Far>>), Ins(4, "ADR_T2", <<"adr", 12, -80>>), Ins(4, "ADR_T3", <<"adr", 1, 80>>),
   Ins(4, "LDR_LIT_T2", <<"load literal", 12, 80, "word">>), Ins(4, "LDR_LIT_PC_T2", <<"load literal", PC, 80, "word">>),
   Ins(4, "LDRD_LIT_T1", <<"load literal", 0, 80, "dual">>), Ins(4, "LDRSH_LIT_T1", <<"load literal", 3, -80, "sh">>),
   Ins(4, "PLD_LIT_T1", <<"hint literal", 80>>), Ins(4, "PLI_LIT_T3", <<"hint literal", -4>>),
   Ins(4, "TBB_T1", <<"table", PC, 7, "byte", "add">>), Ins(4, "TBH_T1", <<"table", 2, 1, "half", "add twice">>),
   Ins(4, "VLDR_LIT_T1", <<"load literal", 100, 80, "d">>)}
Then(x) == [then |-> TRUE, x |-> x]
Else(x) == [then |-> FALSE, x |-> x]
Blocks == {<<Then(Use(2))>>, <<Then(Ins(2, "MOV_REG_T1", <<"op", 1, "mov", <<PC>>, FALSE>>)), Else(Use(4))>>,
           <<Then(Ins(2, "LDR_LIT_T1", <<"load literal", 2, 40, "word">>)), Else(Ins(2, "B_T2", <<"b", 40>>))>>,
           <<Then(Ins(4, "BL_IMM_T1", <<"bl", Far>>))>>}

Prog(isa) ==
  CASE isa = "a64" -> {<<x, Use(4)>> : x \in FirstA64}
    [] isa = "arm" -> {<<x, Use(4)>> : x \in FirstA32}
    [] OTHER -> {<<x, Use(2)>> : x \in Thumb32} \cup {<<x, Use(2), Use(2)>> : x \in Thumb16}
                \cup {<<Use(2), x, Use(2)>> : x \in Thumb16 \cup Thumb32} \cup {<<It(b), Use(2)>> : b \in Blocks}
                \cup {<<Use(2), It(b), Use(2)>> : b \in Blocks}

\* A program that tests runs both ways.
Tests(prog) == \E k \in DOMAIN prog : prog[k].k \in {"IT_T1", "CBZ", "TBNZ", "CBZ_T1", "CBNZ_T1"} \/ prog[k].c
Truths(prog) == IF Tests(prog) THEN BOOLEAN ELSE {TRUE}
\* A function's first instruction reads no IP register.
Starts(prog) == IF prog[1].k \in {"CBZ", "TBNZ"} /\ prog[1].i[2] # 0 THEN {FALSE} ELSE BOOLEAN
Cases(isa, starts, progs, sides, may) ==
  UNION {{[isa |-> isa, start |-> s, prog |-> p, truth |-> t, side |-> d, target |-> 1000, may |-> may]
          : s \in starts \cap Starts(p), t \in Truths(p), d \in sides} : p \in progs}
\* Most programs are hooked once; some again and again while the thread runs; of some calls fail.
TestA64 == <<Ins(4, "CBZ", <<"cb", 0, 4>>), Use(4)>>
CallA64 == <<Ins(4, "BL", <<"bl", Far>>), Use(4)>>
CallArm == <<Ins(4, "BL_IMM_A1", <<"bl", Far>>), Use(4)>>
CallThumb == <<Use(2), Ins(4, "BL_IMM_T1", <<"bl", Far>>), Use(2)>>
Calls == {"rehook", "unhook"}
Failures == {"dlclose", "island enter fails", "rewrite fails", "exit fails", "write fails", "unhook fails"}
MCCase ==
  UNION {Cases(isa, BOOLEAN, Prog(isa), {"low"}, {}) : isa \in ISA}
  \cup Cases("a64", {TRUE}, {CallA64}, {"low"}, Calls) \cup Cases("a64", {FALSE}, {TestA64}, {"low"}, Calls)
  \cup Cases("arm", {TRUE}, {CallArm}, {"high"}, Calls) \cup Cases("thumb", BOOLEAN, {CallThumb}, {"low"}, Calls)
  \cup Cases("a64", BOOLEAN, {TestA64, CallA64}, {"high"}, Failures)
  \cup Cases("arm", BOOLEAN, {CallArm}, {"low"}, Failures) \cup Cases("thumb", BOOLEAN, {CallThumb}, {"high"}, Failures)
MCProxy == [isa \in ISA |-> IF isa = "arm" THEN 3201 ELSE 3200]
MCRegs == [isa \in ISA |->
             IF isa = "a64" THEN {0, 1, 3, 16, 17, 30, 100}
             ELSE IF isa = "arm" THEN {0, 1, 2, 3, 4, 12, 14} ELSE 0 .. 7 \cup {12, 14, 100}]
=============================================================================
