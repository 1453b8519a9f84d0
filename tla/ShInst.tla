------------------------------- MODULE ShInst -------------------------------
(***************************************************************************)
(* The patch of one target address (arch/arm64/sh_inst.c, arch/arm/        *)
(* sh_inst.c): hook, rehook, unhook, free_after_dlclose, each step of      *)
(* which may fail.  The target's first instructions move to the enter, and *)
(* a branch to the exit island takes their place:                          *)
(*   target -> exit island -> proxy or glue launcher -> ... -> enter       *)
(*     -> (arm64, inside a function) enter island -> target + 4            *)
(* A case is an instruction set, the program at the target, whether it is  *)
(* a function's start, where memory near it is free, and what may happen   *)
(* beside one hook: calls, and steps that fail.                            *)
(***************************************************************************)
EXTENDS ShCode, FiniteSetsExt

CONSTANTS
  Case,       \* [isa, start, prog, truth, side, target, may]
  Enter,      \* where enter trampolines may be
  EnterSize,  \* SH_ENTER_SZ
  Reach,      \* how far a branch reaches: 128M, 32M and 16M, scaled
  Proxy,      \* [instruction sets -> an address]
  Launcher, Glue, Context,  \* addresses
  Apart,      \* islands are so far apart
  MaxResting, \* bound: a call begins when at most so many areas rest
  MaxLost     \* bound: and so many are lost

A64 == INSTANCE ShA64
A32 == INSTANCE ShA32
Thumb == INSTANCE ShThumb

Types(x, n) == CASE x.isa = "a64" -> A64!Types
                 [] x.isa = "arm" -> A32!Types
                 [] x.isa = "thumb" /\ n = 2 -> Thumb!T16 \cup {"IT_T1"}
                 [] OTHER -> Thumb!T32
ASSUME CaseAssumption ==
  \A x \in Case : /\ x.isa \in {"a64", "arm", "thumb"} /\ x.start \in BOOLEAN /\ x.target \in Nat
                 /\ \A k \in DOMAIN x.prog : x.prog[k].k \in Types(x, x.prog[k].n)
ASSUME SizeAssumption == EnterSize \in Nat \ {0} /\ Enter \subseteq Nat /\ Reach \in Nat

VARIABLES
  c,        \* the case
  sw,       \* the switch: "none", "hooked", "gone" (it could not be unhooked), "closed" (its ELF was)
  step,     \* of the call of sh_inst that runs, "idle" if none
  inst,     \* sh_inst_t: enter, exit, islandEnter, islandRewrite
  newExit,  \* new_island_exit
  to,       \* new_addr of the call that runs
  orig,     \* what set_orig_addr got
  mem,      \* code
  out,      \* areas the allocators gave
  resting,  \* areas given back that a thread may still be in
  lost,     \* history: areas that no record refers to any more
  home      \* history: [places in enters -> the addresses of the instructions that moved there]
instVars == <<c, sw, step, inst, newExit, to, orig, mem, out, resting, lost, home>>

None == [at |-> 0, size |-> 0]
NewInst == [enter |-> None, exit |-> None, islandEnter |-> None, islandRewrite |-> None]
SetBit0(a) == a + 1
ToInterceptor == to = Launcher
FirstInst == c.prog[1]

(* Code of the case *)

Moved == IF c.isa = "thumb" THEN Thumb!Moved(c.prog) ELSE SubSeq(c.prog, 1, 1)
MovedLen == IF c.isa = "thumb" THEN Thumb!SizeOf(Moved) ELSE 4
Original == LET flat(x) == IF x.k = "IT_T1"
                           THEN <<Thumb!NOP>> \o [k \in DOMAIN x.block |->
                                  [n |-> x.block[k].x.n,
                                   i |-> <<IF x.block[k].then THEN "if" ELSE "unless", x.block[k].x.i>>]]
                           ELSE <<Item(x)>>
            IN FlattenSeq([k \in DOMAIN c.prog |-> flat(c.prog[k])])

NeedsIslandEnter == c.isa = "a64" /\ ~c.start
UsesBranchIsland == c.isa = "a64" /\ ~c.start
NeedsIslandRewrite == UsesBranchIsland /\ FirstInst.k \in A64!Branches \cup A64!Tests

Prolog == IF c.start THEN <<>>
          ELSE CASE c.isa = "a64" -> A64!RestoreIp
                 [] c.isa = "arm" -> A32!RestoreIp
                 [] OTHER -> Thumb!RestoreIp
Lens == CASE c.isa = "a64" -> <<A64!InstLen(FirstInst.k, UsesBranchIsland)>>
          [] c.isa = "arm" -> <<A32!InstLen(FirstInst.k)>>
          [] OTHER -> Thumb!Lens(Moved)
RewriteInfo(enter, island) ==
  [start |-> c.target, end |-> c.target + MovedLen, buf |-> enter, prolog |-> Bytes(Prolog),
   lens |-> Lens, island |-> island]

\* The rewritten instructions, one sequence of items for each; an empty one if it cannot be done.
Rewritten(enter, island) ==
  LET ri == RewriteInfo(enter, island)
  IN CASE c.isa = "a64" -> <<A64!Rewrite(FirstInst, c.target, ri)>>
       [] c.isa = "arm" -> <<A32!Rewrite(FirstInst, c.target + 8, ri)>>
       [] OTHER -> [k \in DOMAIN Moved |->
                     Thumb!Rewrite(Moved[k], c.target + Thumb!SizeOf(SubSeq(Moved, 1, k - 1)) + 4, ri)]
Rewritable(enter, island) == \A k \in DOMAIN Moved : Rewritten(enter, island)[k] # <<>>

\* Of the moved instructions, and of what follows them: the bytes of code before it, and its address.
Places == 1 .. Len(Moved) + 1
Before(k) == Bytes(Prolog) + Bytes(FlattenSeq(SubSeq(Rewritten(0, IF NeedsIslandRewrite THEN 4 ELSE 0), 1, k - 1)))
AddressOf(k) == IF c.isa = "thumb" THEN Thumb!SizeOf(SubSeq(Moved, 1, k - 1)) ELSE 4 * (k - 1)

Resume(islandEnter) ==
  CASE c.isa = "a64" /\ c.start -> A64!AbsoluteJumpWithRetIp(c.target + 4, A64!ResumeWithX16(FirstInst))
    [] c.isa = "a64" /\ ~c.start -> A64!AbsoluteJumpWithRetRx(islandEnter)
    [] c.isa = "arm" -> A32!AbsoluteJump(c.target + 4)
    [] OTHER -> Thumb!AbsoluteJump(SetBit0(c.target + MovedLen))
EnterCode(enter, islandEnter, island) ==
  Prolog \o FlattenSeq(Rewritten(enter, island)) \o Resume(islandEnter)

ExitSize == IF c.isa = "a64" THEN IF ~c.start \/ ToInterceptor THEN 20 ELSE 16 ELSE 8
ExitCode_KeepsNothing ==
  CASE c.isa = "a64" -> A64!AbsoluteJumpWithBrIp(to)
    [] c.isa = "arm" -> A32!AbsoluteJump(to)
    [] OTHER -> Thumb!AbsoluteJump(to)
ExitCode ==
  CASE c.isa = "a64" -> IF ~c.start \/ ToInterceptor THEN A64!AbsoluteJumpWithBrRx(to) ELSE A64!AbsoluteJumpWithBrIp(to)
    [] c.isa = "arm" -> A32!AbsoluteJump(to)
    [] OTHER -> Thumb!AbsoluteJump(to)

\* The branch that is written to the target.
JumpTo(exit) ==
  CASE c.isa = "a64" -> A64!RelativeJump(exit, c.target, Reach)
    [] c.isa = "arm" -> A32!RelativeJump(exit, c.target + 8, Reach)
    [] OTHER -> Thumb!RelativeJump(exit, c.target + 4, Reach)
IslandEnterCode(island) == A64!RestoreRx \o A64!RelativeJump(c.target + 4, island + 4, Reach)
IslandRewriteCode(island, addr) == A64!RestoreIp \o A64!RelativeJump(addr, island + 4, Reach)

LauncherA64 == <<A64!Ldr(16, 12), A64!Ldr(17, 16), A64!Op(<<"bx", 16>>), A64!Word(Glue), A64!Word(Context)>>
LauncherArm == <<A32!Op(<<"store", <<12>>, -1>>), A32!Ldr(12, 4), A32!Ldr(PC, -4), A32!Word(Glue), A32!Word(Context)>>

(* Memory *)

Ranges(low, high) == {a \in low .. high : a \in Nat /\ a % 4 = 0}
A64ExitRange_TooFar == Ranges(c.target - Reach, c.target + Reach)
A64ExitRange == Ranges(c.target - Reach, c.target + Reach - 4)

ThumbExitRange == Ranges(c.target + 4 - Reach, c.target + 4 + Reach - 2)
ArmExitRange == Ranges(c.target + 8 - Reach, c.target + 8 + Reach - 4)
ExitRange == CASE c.isa = "a64" -> A64ExitRange [] c.isa = "arm" -> ArmExitRange [] OTHER -> ThumbExitRange
IslandEnterRange == Ranges(c.target - (Reach - 4), c.target + Reach)
IslandRewriteRange(addr) == Ranges(addr - (Reach - 4) - 4, addr + Reach - 4)

Span(area) == area.at .. area.at + area.size - 1
Vacant(a, size) == \A area \in out \cup resting : area.at + area.size <= a \/ a + size <= area.at
\* sh_island_alloc: the memory there is, here at an end of the range or next to what is there.
Islands(range, size, side) ==
  LET end == IF side = "low" THEN Min(range) ELSE Max(range)
      free == {a \in range : (a - end) % Apart = 0 /\ Vacant(a, size)}
  IN {[at |-> a, size |-> size] : a \in {b \in free : \A d \in free : IF side = "low" THEN b <= d ELSE b >= d}}
OtherSide == IF c.side = "low" THEN "high" ELSE "low"

Write(area, items) == Place(c.isa, area.at, items) @@ [a \in DOMAIN mem \ Span(area) |-> mem[a]]
Patched == [at |-> c.target, size |-> 4]
Give(areas) == /\ out' = out \ areas
               /\ resting' = resting \cup (areas \ {None})
Take(area) == out' = out \cup {area} /\ UNCHANGED resting
Fresh == Place(c.isa, c.target, Original)

(* sh_inst_hook: the steps of one call, each the critical section of an    *)
(* allocator or a write.  The caller holds the lock of the switch.         *)

InstInit ==
  /\ c \in Case
  /\ sw = "none" /\ step = "idle" /\ inst = NewInst /\ newExit = None /\ to = 0 /\ orig = 0
  /\ mem = Fresh @@ Place(IF c.isa = "a64" THEN "a64" ELSE "arm", Launcher,
                          IF c.isa = "a64" THEN LauncherA64 ELSE LauncherArm)
  /\ out = {} /\ resting = {} /\ lost = {} /\ home = <<>>

\* A proxy is called in place of a function; inside a function only interceptors are.
HookEnter(new) ==
  /\ sw = "none" /\ step = "idle" /\ Cardinality(resting) <= MaxResting
  /\ c.start \/ new = Launcher
  /\ to' = new
  /\ \E e \in Enter :
       /\ Vacant(e, EnterSize) /\ \A d \in Enter : Vacant(d, EnterSize) => e <= d
       /\ Take([at |-> e, size |-> EnterSize])
       /\ inst' = [NewInst EXCEPT !.enter = [at |-> e, size |-> EnterSize]]
  /\ step' = IF NeedsIslandEnter THEN "island enter" ELSE "rewrite"
  /\ UNCHANGED <<c, sw, newExit, orig, mem, lost, home>>

HookIslandEnter ==
  /\ step = "island enter"
  /\ \E a \in Islands(IslandEnterRange, 8, OtherSide) :
       /\ Take(a)
       /\ inst' = [inst EXCEPT !.islandEnter = a]
       /\ mem' = Write(a, IslandEnterCode(a.at))
  /\ step' = "rewrite"
  /\ UNCHANGED <<c, sw, newExit, to, orig, lost, home>>

HookIslandEnterFails ==
  /\ step = "island enter" /\ "island enter fails" \in c.may
  /\ step' = "failed"
  /\ UNCHANGED <<c, sw, inst, newExit, to, orig, mem, out, resting, lost, home>>

\* sh_a64_build_island_rewrite
BuildIslandRewrite ==
  LET addr == A64!Destination(FirstInst, c.target, RewriteInfo(inst.enter.at, 0))
  IN \E a \in Islands(IslandRewriteRange(addr), 8, OtherSide) :
     /\ Take(a)
     /\ inst' = [inst EXCEPT !.islandRewrite = a]
     /\ mem' = Write(inst.enter, EnterCode(inst.enter.at, inst.islandEnter.at, a.at))
                @@ Write(a, IslandRewriteCode(a.at, addr))

\* sh_inst_rewrite
HookRewrite ==
  /\ step = "rewrite"
  /\ Rewritable(inst.enter.at, 1)
  /\ IF NeedsIslandRewrite THEN BuildIslandRewrite
     ELSE /\ mem' = Write(inst.enter, EnterCode(inst.enter.at, inst.islandEnter.at, 0))
          /\ UNCHANGED <<inst, out, resting>>
  /\ orig' = IF c.isa = "thumb" THEN SetBit0(inst.enter.at) ELSE inst.enter.at
  /\ home' = [a \in {inst.enter.at + Before(k) : k \in Places} |->
                c.target + AddressOf(CHOOSE k \in Places : a = inst.enter.at + Before(k))] @@ home
  /\ step' = "exit"
  /\ UNCHANGED <<c, sw, newExit, to, lost>>

\* mprotect, a fault while reading, an instruction that cannot move, no island: arm64 frees the islands.
FreeIslands == /\ Give({inst.islandEnter, inst.islandRewrite})
               /\ inst' = [inst EXCEPT !.islandEnter = None, !.islandRewrite = None]
HookRewriteFails ==
  /\ step = "rewrite"
  /\ "rewrite fails" \in c.may \/ ~Rewritable(inst.enter.at, 1)
  /\ FreeIslands
  /\ step' = "failed"
  /\ UNCHANGED <<c, sw, newExit, to, orig, mem, lost, home>>

\* sh_inst_reloc_with_island, of a hook or a rehook.
RelocExit ==
  /\ step = "exit"
  /\ \E a \in Islands(ExitRange, ExitSize, c.side) :
       /\ Take(a)
       /\ newExit' = a
       /\ mem' = Write(a, ExitCode)
  /\ step' = "write"
  /\ UNCHANGED <<c, sw, inst, to, orig, lost, home>>

\* A failed rehook leaves what was; a failed hook frees its islands.
Undone == IF sw = "hooked" THEN step' = "idle" /\ to' = 0 /\ UNCHANGED inst
          ELSE /\ step' = "failed" /\ UNCHANGED to
               /\ inst' = [inst EXCEPT !.islandEnter = None, !.islandRewrite = None]

Undoing_Never == {}
Undoing == IF sw = "hooked" THEN {} ELSE {inst.islandEnter, inst.islandRewrite}

RelocExitFails ==
  /\ step = "exit" /\ "exit fails" \in c.may
  /\ Undone
  /\ Give(Undoing)
  /\ UNCHANGED <<c, sw, newExit, orig, mem, lost, home>>

RelocWrite ==
  /\ step = "write"
  /\ mem' = Write(Patched, JumpTo(newExit.at))
  /\ step' = "written"
  /\ UNCHANGED <<c, sw, inst, newExit, to, orig, out, resting, lost, home>>

RelocWriteFails ==
  /\ step = "write" /\ "write fails" \in c.may
  /\ Undone
  /\ Give({newExit} \cup Undoing)
  /\ newExit' = None
  /\ UNCHANGED <<c, sw, orig, mem, lost, home>>

RelocDone ==
  /\ step = "written"
  /\ Give({inst.exit})
  /\ inst' = [inst EXCEPT !.exit = newExit]
  /\ newExit' = None
  /\ sw' = "hooked" /\ step' = "idle" /\ to' = 0
  /\ UNCHANGED <<c, orig, mem, lost, home>>

\* The end of a hook that failed; the switch is dropped.
HookFailed ==
  /\ step = "failed"
  /\ orig' = 0
  /\ Give({inst.enter})
  /\ inst' = NewInst
  /\ step' = "idle" /\ to' = 0
  /\ UNCHANGED <<c, sw, newExit, mem, lost, home>>

\* sh_inst_rehook
Rehook(new) ==
  /\ sw = "hooked" /\ step = "idle" /\ "rehook" \in c.may
  /\ c.start /\ Cardinality(resting) <= MaxResting
  /\ to' = new
  /\ step' = "exit"
  /\ UNCHANGED <<c, sw, inst, newExit, orig, mem, out, resting, lost, home>>

\* sh_inst_unhook
Unhook ==
  /\ sw = "hooked" /\ step = "idle" /\ "unhook" \in c.may
  /\ mem' = Fresh @@ mem
  /\ step' = "restored"
  /\ UNCHANGED <<c, sw, inst, newExit, to, orig, out, resting, lost, home>>

\* The target was changed by others, or cannot be read or written.  sh_switch.c destroys the switch all the
\* same, and the record in it: nobody can give back its areas any more.
UnhookFails ==
  /\ sw = "hooked" /\ step = "idle" /\ "unhook fails" \in c.may
  /\ lost' = lost \cup ({inst[f] : f \in DOMAIN inst} \ {None})
  /\ inst' = NewInst
  /\ sw' = "gone"
  /\ UNCHANGED <<c, step, newExit, to, orig, mem, out, resting, home>>

UnhookDone ==
  /\ step = "restored"
  /\ Give({inst.exit, inst.islandEnter, inst.islandRewrite, inst.enter})
  /\ inst' = NewInst
  /\ sw' = "none" /\ step' = "idle"
  /\ UNCHANGED <<c, newExit, to, orig, mem, lost, home>>

\* sh_inst_free_after_dlclose; the island of the rewritten branch stays.
FreeAfterDlclose ==
  /\ sw = "hooked" /\ step = "idle" /\ "dlclose" \in c.may
  /\ Give({inst.exit, inst.islandEnter, inst.enter})
  /\ lost' = lost \cup ({inst.islandRewrite} \ {None})
  /\ inst' = NewInst
  /\ sw' = "closed"
  /\ UNCHANGED <<c, step, newExit, to, orig, mem, home>>

\* The linker loads the ELF again, at the same place.
Reload ==
  /\ sw = "closed" /\ Cardinality(lost) <= MaxLost
  /\ mem' = Fresh @@ mem
  /\ sw' = "none"
  /\ UNCHANGED <<c, step, inst, newExit, to, orig, out, resting, lost, home>>

\* The delay of the allocators is over; what the areas held is gone.
Rested ==
  /\ resting # {}
  /\ resting' = {}
  /\ mem' = [a \in DOMAIN mem \ UNION {Span(area) : area \in resting} |-> mem[a]]
  /\ home' = [a \in DOMAIN home \ UNION {Span(area) : area \in resting} |-> home[a]]
  /\ UNCHANGED <<c, sw, step, inst, newExit, to, orig, out, lost>>

InstNext ==
  \/ \E new \in {Proxy[c.isa], Launcher} : HookEnter(new) \/ Rehook(new)
  \/ HookIslandEnter \/ HookIslandEnterFails
  \/ HookRewrite \/ HookRewriteFails
  \/ RelocExit \/ RelocExitFails \/ RelocWrite \/ RelocWriteFails \/ RelocDone
  \/ HookFailed
  \/ Unhook \/ UnhookFails \/ UnhookDone
  \/ FreeAfterDlclose \/ Reload \/ Rested

(* Properties *)

\* What the allocators gave out is referred to by the record, or was lost; and nothing the record refers to
\* was given back: whichever step of a hook, rehook or unhook fails (the error paths of sh_inst.c).  Areas are
\* lost in two cases only: a switch that could not be unhooked takes its record with it, and where the rewritten
\* instruction needs an island, a dlclose forgets that island.
Referred == {inst[f] : f \in DOMAIN inst} \cup {newExit}
NothingLeaks ==
  /\ out = (Referred \cup lost) \ {None}
  /\ lost # {} => sw = "gone" \/ NeedsIslandRewrite
=============================================================================
