---------------------------- MODULE ShInstProofs ----------------------------
(***************************************************************************)
(* Nothing leaks and nothing is given back twice by the record of a patch  *)
(* (ShInst), whichever step of a hook, a rehook or an unhook fails, for    *)
(* any program, sizes, ranges and choices of the allocators.  The record   *)
(* must also hold no area twice, and at each step only what that step may  *)
(* hold: that is AreasInv.  LossInv says how areas may have been lost.     *)
(***************************************************************************)
EXTENDS ShRun, TLAPS

Areas == [at : Nat, size : Nat]
Record == [enter : Areas, exit : Areas, islandEnter : Areas, islandRewrite : Areas]
AreaTypes ==
  /\ c \in Case
  /\ inst \in Record
  /\ newExit \in Areas /\ out \subseteq Areas /\ lost \subseteq Areas

\* No area is held twice; one that is lost is not held.
OnceHeld ==
  /\ None \notin lost
  /\ Referred \cap lost = {}
  /\ inst.enter = inst.exit => inst.enter = None
  /\ inst.enter = inst.islandEnter => inst.enter = None
  /\ inst.enter = inst.islandRewrite => inst.enter = None
  /\ inst.enter = newExit => inst.enter = None
  /\ inst.exit = inst.islandEnter => inst.exit = None
  /\ inst.exit = inst.islandRewrite => inst.exit = None
  /\ inst.exit = newExit => inst.exit = None
  /\ inst.islandEnter = inst.islandRewrite => inst.islandEnter = None
  /\ inst.islandEnter = newExit => inst.islandEnter = None
  /\ inst.islandRewrite = newExit => inst.islandRewrite = None

\* What the record holds at each step.
HeldAtStep ==
  /\ newExit # None => step \in {"write", "written"}
  /\ sw \in {"none", "closed", "gone"} => inst.exit = None
  /\ sw \in {"none", "closed", "gone"} /\ step = "idle" => inst = NewInst
  /\ step \in {"island enter", "rewrite", "failed"} => sw = "none"
  /\ step \in {"exit", "write", "written"} => sw \in {"none", "hooked"}
  /\ step = "restored" => sw = "hooked"
  /\ step = "island enter" => inst.islandEnter = None
  /\ step \in {"island enter", "rewrite"} => inst.islandRewrite = None
  /\ step = "failed" => inst.islandEnter = None /\ inst.islandRewrite = None

\* The areas that are out are those the record refers to and those that were lost.
Accounted == out = (Referred \cup lost) \ {None}

AreasInv == AreaTypes /\ Accounted /\ OnceHeld /\ HeldAtStep

\* How areas may have been lost.
LossInv ==
  /\ lost # {} => sw = "gone" \/ NeedsIslandRewrite
  /\ inst.islandRewrite # None => NeedsIslandRewrite

LEMMA RecordValues ==
  ASSUME NEW r \in Record
  PROVE  {r[f] : f \in DOMAIN r} = {r.enter, r.exit, r.islandEnter, r.islandRewrite}
BY DEF Record

LEMMA NoneIsArea == None \in Areas /\ NewInst \in Record
BY DEF None, NewInst, Areas, Record

\* What is taken where nothing is was not out, and is an area.
LEMMA VacantIsNew ==
  ASSUME AreaTypes, NEW a \in Nat, NEW size \in Nat \ {0}, Vacant(a, size)
  PROVE  [at |-> a, size |-> size] \in Areas \ (out \cup {None})
<1> DEFINE area == [at |-> a, size |-> size]
<1>1. area \in Areas /\ area.at = a /\ area.size = size
  BY DEF Areas
<1>2. area # None
  BY <1>1 DEF None
<1>3. ~(a + size <= a)
  OBVIOUS
<1>4. area \notin out
  BY <1>1, <1>3 DEF Vacant
<1> QED
  BY <1>1, <1>2, <1>4

LEMMA IslandIsNew ==
  ASSUME AreaTypes, NEW low, NEW high, NEW size \in Nat \ {0}, NEW side,
         NEW area \in Islands(Ranges(low, high), size, side)
  PROVE  area \in Areas \ (out \cup {None})
<1>1. PICK a \in Ranges(low, high) : Vacant(a, size) /\ area = [at |-> a, size |-> size]
  BY DEF Islands
<1>2. a \in Nat
  BY <1>1 DEF Ranges
<1> QED
  BY <1>1, <1>2, VacantIsNew

LEMMA ReferredIs ==
  ASSUME AreaTypes
  PROVE  Referred = {inst.enter, inst.exit, inst.islandEnter, inst.islandRewrite, newExit}
BY RecordValues DEF Referred, AreaTypes

LEMMA ReferredIsNext ==
  ASSUME AreaTypes'
  PROVE  Referred' = {inst'.enter, inst'.exit, inst'.islandEnter, inst'.islandRewrite, newExit'}
BY RecordValues DEF Referred, AreaTypes

LEMMA InitHolds == InstInit => AreasInv
<1> SUFFICES ASSUME InstInit
             PROVE  AreasInv
  OBVIOUS
<1>1. AreaTypes
  BY NoneIsArea DEF InstInit, AreaTypes
<1>2. inst = NewInst /\ newExit = None /\ out = {} /\ lost = {} /\ sw = "none" /\ step = "idle"
  BY DEF InstInit
<1>3. Referred = {None}
  BY <1>1, <1>2, ReferredIs DEF NewInst
<1>4. Accounted /\ OnceHeld
  BY <1>2, <1>3 DEF Accounted, OnceHeld, NewInst
<1>5. HeldAtStep
  BY <1>2 DEF HeldAtStep, NewInst
<1> QED
  BY <1>1, <1>4, <1>5 DEF AreasInv

\* A hook

LEMMA HookEnterKeeps ==
  ASSUME AreasInv, NEW new, HookEnter(new)
  PROVE  AreasInv'
<1>1. PICK e \in Enter : /\ Vacant(e, EnterSize)
                        /\ Take([at |-> e, size |-> EnterSize])
                        /\ inst' = [NewInst EXCEPT !.enter = [at |-> e, size |-> EnterSize]]
  BY DEF HookEnter
<1> DEFINE area == [at |-> e, size |-> EnterSize]
<1>2. area \in Areas \ (out \cup {None})
  BY <1>1, VacantIsNew, SizeAssumption DEF AreasInv
<1>3. inst = NewInst /\ newExit = None
  BY DEF AreasInv, HeldAtStep, HookEnter
<1>4. /\ inst' \in Record /\ inst'.enter = area /\ inst'.exit = None
      /\ inst'.islandEnter = None /\ inst'.islandRewrite = None
  BY <1>1, <1>2, NoneIsArea DEF NewInst, Record
<1>5. out' = out \cup {area} /\ newExit' = newExit /\ lost' = lost /\ c' = c /\ sw' = sw
  BY <1>1 DEF HookEnter, Take
<1>6. AreaTypes'
  BY <1>2, <1>4, <1>5 DEF AreasInv, AreaTypes
<1>7. Referred = {None} /\ Referred' = {area, None}
  BY <1>3, <1>4, <1>5, <1>6, ReferredIs, ReferredIsNext DEF AreasInv, NewInst
<1>8. Accounted' /\ OnceHeld'
  BY <1>2, <1>3, <1>4, <1>5, <1>7 DEF AreasInv, Accounted, OnceHeld
<1>9. HeldAtStep'
  BY <1>3, <1>4, <1>5 DEF HookEnter, HeldAtStep
<1> QED
  BY <1>6, <1>8, <1>9 DEF AreasInv

LEMMA HookIslandEnterKeeps ==
  ASSUME AreasInv, HookIslandEnter
  PROVE  AreasInv'
<1>1. PICK a \in Islands(IslandEnterRange, 8, OtherSide) : Take(a) /\ inst' = [inst EXCEPT !.islandEnter = a]
  BY DEF HookIslandEnter
<1>2. a \in Areas \ (out \cup {None})
  <2> DEFINE low == c.target - (Reach - 4)
             high == c.target + Reach
  <2>1. a \in Islands(Ranges(low, high), 8, OtherSide)
    BY <1>1 DEF IslandEnterRange
  <2> HIDE DEF low, high
  <2> QED
    BY <2>1, IslandIsNew DEF AreasInv
<1>3. /\ inst' \in Record /\ inst'.islandEnter = a /\ inst'.exit = inst.exit
      /\ inst'.enter = inst.enter /\ inst'.islandRewrite = inst.islandRewrite
  BY <1>1, <1>2 DEF AreasInv, AreaTypes, Record
<1>4. out' = out \cup {a} /\ newExit' = newExit /\ lost' = lost /\ c' = c /\ sw' = sw /\ step' = "rewrite"
  BY <1>1 DEF HookIslandEnter, Take
<1>5. sw = "none" /\ inst.islandEnter = None /\ inst.islandRewrite = None /\ inst.exit = None /\ newExit = None
  BY DEF AreasInv, HeldAtStep, HookIslandEnter
<1>6. AreaTypes'
  BY <1>2, <1>3, <1>4 DEF AreasInv, AreaTypes
<1>7. Referred = {inst.enter, None} /\ Referred' = {inst.enter, a, None}
  BY <1>3, <1>4, <1>5, <1>6, ReferredIs, ReferredIsNext DEF AreasInv
<1>8. Accounted' /\ OnceHeld'
  BY <1>2, <1>3, <1>4, <1>5, <1>7 DEF AreasInv, Accounted, OnceHeld
<1>9. HeldAtStep'
  BY <1>3, <1>4, <1>5 DEF HeldAtStep
<1> QED
  BY <1>6, <1>8, <1>9 DEF AreasInv

LEMMA BuildIslandRewriteTakes ==
  ASSUME AreasInv, BuildIslandRewrite
  PROVE  \E a \in Areas \ (out \cup {None}) : Take(a) /\ inst' = [inst EXCEPT !.islandRewrite = a]
<1> DEFINE addr == A64!Destination(FirstInst, c.target, RewriteInfo(inst.enter.at, 0))
<1>1. PICK a \in Islands(IslandRewriteRange(addr), 8, OtherSide) : Take(a) /\ inst' = [inst EXCEPT !.islandRewrite = a]
  BY DEF BuildIslandRewrite
<1>2. a \in Areas \ (out \cup {None})
  <2> HIDE DEF addr
  <2> QED
    BY <1>1, IslandIsNew DEF AreasInv, IslandRewriteRange
<1> QED
  BY <1>1, <1>2

LEMMA HookRewriteKeeps ==
  ASSUME AreasInv, HookRewrite
  PROVE  AreasInv'
<1>1. newExit' = newExit /\ lost' = lost /\ c' = c /\ sw' = sw /\ step' = "exit"
  BY DEF HookRewrite
<1>2. sw = "none" /\ inst.islandRewrite = None /\ inst.exit = None /\ newExit = None
  BY DEF AreasInv, HeldAtStep, HookRewrite
<1>3. CASE UNCHANGED <<inst, out>>
  <2>1. AreaTypes' /\ Referred' = Referred
    BY <1>1, <1>3 DEF AreasInv, AreaTypes, Referred
  <2> QED
    BY <1>1, <1>2, <1>3, <2>1 DEF AreasInv, Accounted, OnceHeld, HeldAtStep
<1>4. CASE BuildIslandRewrite
  <2>1. PICK a \in Areas \ (out \cup {None}) : Take(a) /\ inst' = [inst EXCEPT !.islandRewrite = a]
    BY <1>4, BuildIslandRewriteTakes
  <2>2. /\ inst' \in Record /\ inst'.islandRewrite = a /\ inst'.exit = inst.exit
        /\ inst'.enter = inst.enter /\ inst'.islandEnter = inst.islandEnter
    BY <2>1 DEF AreasInv, AreaTypes, Record
  <2>3. out' = out \cup {a}
    BY <2>1 DEF Take
  <2>4. AreaTypes'
    BY <1>1, <2>1, <2>2, <2>3 DEF AreasInv, AreaTypes
  <2>5. /\ Referred = {inst.enter, inst.islandEnter, None}
        /\ Referred' = {inst.enter, inst.islandEnter, a, None}
    BY <1>1, <1>2, <2>2, <2>4, ReferredIs, ReferredIsNext DEF AreasInv
  <2>6. Accounted' /\ OnceHeld'
    BY <1>1, <1>2, <2>1, <2>2, <2>3, <2>5 DEF AreasInv, Accounted, OnceHeld
  <2>7. HeldAtStep'
    BY <1>1, <1>2, <2>2 DEF HeldAtStep
  <2> QED
    BY <2>4, <2>6, <2>7 DEF AreasInv
<1> QED
  BY <1>3, <1>4 DEF HookRewrite

\* The branch to the exit island, of a hook and of a rehook

LEMMA ExitIslandIsNew ==
  ASSUME AreasInv, NEW a \in Islands(ExitRange, ExitSize, c.side)
  PROVE  a \in Areas \ (out \cup {None})
<1>1. ExitSize \in Nat \ {0}
  BY DEF ExitSize
<1>2. \E low, high : ExitRange = Ranges(low, high)
  BY CaseAssumption DEF ExitRange, A64ExitRange, ArmExitRange, ThumbExitRange, AreasInv, AreaTypes
<1>3. PICK low, high : ExitRange = Ranges(low, high)
  BY <1>2
<1> HIDE DEF ExitSize
<1> QED
  BY <1>1, <1>3, IslandIsNew DEF AreasInv

LEMMA RelocExitKeeps ==
  ASSUME AreasInv, RelocExit
  PROVE  AreasInv'
<1>1. PICK a \in Islands(ExitRange, ExitSize, c.side) : Take(a) /\ newExit' = a
  BY DEF RelocExit
<1>2. a \in Areas \ (out \cup {None})
  BY <1>1, ExitIslandIsNew
<1>3. out' = out \cup {a} /\ newExit' = a /\ lost' = lost /\ c' = c /\ sw' = sw /\ inst' = inst /\ step' = "write"
  BY <1>1 DEF RelocExit, Take
<1>4. sw \in {"none", "hooked"} /\ newExit = None
  BY DEF AreasInv, HeldAtStep, RelocExit
<1>5. AreaTypes'
  BY <1>2, <1>3 DEF AreasInv, AreaTypes
<1>6. Referred' \ {None} = (Referred \cup {a}) \ {None}
  BY <1>3, <1>4, <1>5, ReferredIs, ReferredIsNext DEF AreasInv
<1>7. Referred \subseteq out \cup {None} /\ lost \subseteq out
  BY DEF AreasInv, Accounted, OnceHeld
<1>8. Accounted'
  BY <1>2, <1>3, <1>6 DEF AreasInv, Accounted
<1>9. OnceHeld'
  BY <1>2, <1>3, <1>6, <1>7, <1>5, ReferredIs, ReferredIsNext DEF AreasInv, OnceHeld
<1>10. HeldAtStep'
  BY <1>3, <1>4 DEF AreasInv, HeldAtStep
<1> QED
  BY <1>5, <1>8, <1>9, <1>10 DEF AreasInv

LEMMA RelocWriteKeeps ==
  ASSUME AreasInv, RelocWrite
  PROVE  AreasInv'
<1>1. /\ UNCHANGED <<c, sw, inst, newExit, out, lost>>
      /\ step = "write" /\ step' = "written"
  BY DEF RelocWrite
<1>2. AreaTypes' /\ Referred' = Referred
  BY <1>1 DEF AreasInv, AreaTypes, Referred
<1> QED
  BY <1>1, <1>2 DEF AreasInv, Accounted, OnceHeld, HeldAtStep

\* A rehook that fails leaves the record; a hook that fails gives back its islands.
LEMMA UndoneKeeps ==
  ASSUME AreasInv, step \in {"exit", "write"}, Undone,
         Give({newExit} \cup Undoing), newExit' = None, UNCHANGED <<c, sw, lost>>
  PROVE  AreasInv'
<1>1. sw \in {"none", "hooked"} /\ (sw = "none" => inst.exit = None)
  BY DEF AreasInv, HeldAtStep
<1>2. CASE sw = "hooked"
  <2>1. inst' = inst /\ step' = "idle" /\ out' = out \ {newExit}
    BY <1>2 DEF Undone, Undoing, Give
  <2>2. AreaTypes'
    BY <2>1, NoneIsArea DEF AreasInv, AreaTypes
  <2>3. /\ Referred = {inst.enter, inst.exit, inst.islandEnter, inst.islandRewrite, newExit}
        /\ Referred' = {inst.enter, inst.exit, inst.islandEnter, inst.islandRewrite, None}
    BY <2>1, <2>2, ReferredIs, ReferredIsNext DEF AreasInv
  <2>4. Accounted' /\ OnceHeld'
    BY <2>1, <2>3 DEF AreasInv, Accounted, OnceHeld
  <2>5. HeldAtStep'
    BY <1>2, <2>1 DEF AreasInv, HeldAtStep
  <2> QED
    BY <2>2, <2>4, <2>5 DEF AreasInv
<1>3. CASE sw = "none"
  <2>1. /\ inst' = [inst EXCEPT !.islandEnter = None, !.islandRewrite = None]
        /\ step' = "failed" /\ out' = out \ {newExit, inst.islandEnter, inst.islandRewrite}
    BY <1>3 DEF Undone, Undoing, Give
  <2>2. /\ inst' \in Record /\ inst'.exit = None /\ inst'.enter = inst.enter
        /\ inst'.islandEnter = None /\ inst'.islandRewrite = None
    BY <1>1, <1>3, <2>1, NoneIsArea DEF AreasInv, AreaTypes, Record
  <2>3. AreaTypes'
    BY <2>1, <2>2, NoneIsArea DEF AreasInv, AreaTypes
  <2>4. /\ Referred = {inst.enter, None, inst.islandEnter, inst.islandRewrite, newExit}
        /\ Referred' = {inst.enter, None}
    BY <1>1, <1>3, <2>2, <2>3, ReferredIs, ReferredIsNext DEF AreasInv
  <2>5. Accounted' /\ OnceHeld'
    BY <2>1, <2>2, <2>4 DEF AreasInv, Accounted, OnceHeld
  <2>6. HeldAtStep'
    BY <1>3, <2>1, <2>2 DEF HeldAtStep
  <2> QED
    BY <2>3, <2>5, <2>6 DEF AreasInv
<1> QED
  BY <1>1, <1>2, <1>3

LEMMA RelocExitFailsKeeps ==
  ASSUME AreasInv, RelocExitFails
  PROVE  AreasInv'
<1>1. newExit = None
  BY DEF AreasInv, HeldAtStep, RelocExitFails
<1>2. None \notin out
  BY DEF AreasInv, Accounted
<1>3. Give({newExit} \cup Undoing)
  BY <1>1, <1>2 DEF RelocExitFails, Give
<1> QED
  BY <1>1, <1>3, UndoneKeeps DEF RelocExitFails

LEMMA RelocWriteFailsKeeps ==
  ASSUME AreasInv, RelocWriteFails
  PROVE  AreasInv'
BY UndoneKeeps DEF RelocWriteFails

LEMMA RelocDoneKeeps ==
  ASSUME AreasInv, RelocDone
  PROVE  AreasInv'
<1>1. /\ out' = out \ {inst.exit} /\ newExit' = None /\ lost' = lost /\ c' = c
      /\ sw' = "hooked" /\ step' = "idle"
  BY DEF RelocDone, Give
<1>2. /\ inst' \in Record /\ inst'.exit = newExit /\ inst'.enter = inst.enter
      /\ inst'.islandEnter = inst.islandEnter /\ inst'.islandRewrite = inst.islandRewrite
  BY DEF AreasInv, AreaTypes, Record, RelocDone
<1>3. AreaTypes'
  BY <1>1, <1>2, NoneIsArea DEF AreasInv, AreaTypes
<1>4. /\ Referred = {inst.enter, inst.exit, inst.islandEnter, inst.islandRewrite, newExit}
      /\ Referred' = {inst.enter, newExit, inst.islandEnter, inst.islandRewrite, None}
  BY <1>1, <1>2, <1>3, ReferredIs, ReferredIsNext DEF AreasInv
<1>5. Accounted' /\ OnceHeld'
  BY <1>1, <1>2, <1>4 DEF AreasInv, Accounted, OnceHeld
<1>6. HeldAtStep'
  BY <1>1 DEF HeldAtStep
<1> QED
  BY <1>3, <1>5, <1>6 DEF AreasInv

\* Hooks that fail, and what gives areas back

LEMMA HookRewriteFailsKeeps ==
  ASSUME AreasInv, HookRewriteFails
  PROVE  AreasInv'
<1>1. /\ out' = out \ {inst.islandEnter, inst.islandRewrite} /\ step' = "failed"
      /\ inst' = [inst EXCEPT !.islandEnter = None, !.islandRewrite = None]
      /\ newExit' = newExit /\ lost' = lost /\ c' = c /\ sw' = sw
  BY DEF HookRewriteFails, FreeIslands, Give
<1>2. sw = "none" /\ inst.exit = None /\ newExit = None
  BY DEF AreasInv, HeldAtStep, HookRewriteFails
<1>3. /\ inst' \in Record /\ inst'.exit = None /\ inst'.enter = inst.enter
      /\ inst'.islandEnter = None /\ inst'.islandRewrite = None
  BY <1>1, <1>2, NoneIsArea DEF AreasInv, AreaTypes, Record
<1>4. AreaTypes'
  BY <1>1, <1>3, NoneIsArea DEF AreasInv, AreaTypes
<1>5. /\ Referred = {inst.enter, None, inst.islandEnter, inst.islandRewrite}
      /\ Referred' = {inst.enter, None}
  BY <1>1, <1>2, <1>3, <1>4, ReferredIs, ReferredIsNext DEF AreasInv
<1>6. Accounted' /\ OnceHeld'
  BY <1>1, <1>2, <1>3, <1>5 DEF AreasInv, Accounted, OnceHeld
<1>7. HeldAtStep'
  BY <1>1, <1>2, <1>3 DEF HeldAtStep
<1> QED
  BY <1>4, <1>6, <1>7 DEF AreasInv

LEMMA HookFailedKeeps ==
  ASSUME AreasInv, HookFailed
  PROVE  AreasInv'
<1>1. /\ out' = out \ {inst.enter} /\ step' = "idle" /\ inst' = NewInst
      /\ newExit' = newExit /\ lost' = lost /\ c' = c /\ sw' = sw
  BY DEF HookFailed, Give
<1>2. /\ sw = "none" /\ newExit = None
      /\ inst.exit = None /\ inst.islandEnter = None /\ inst.islandRewrite = None
  BY DEF AreasInv, HeldAtStep, HookFailed
<1>3. AreaTypes'
  BY <1>1, NoneIsArea DEF AreasInv, AreaTypes
<1>4. Referred = {inst.enter, None} /\ Referred' = {None}
  BY <1>1, <1>2, <1>3, ReferredIs, ReferredIsNext DEF AreasInv, NewInst
<1>5. Accounted' /\ OnceHeld'
  BY <1>1, <1>2, <1>4 DEF AreasInv, Accounted, OnceHeld, NewInst
<1>6. HeldAtStep'
  BY <1>1, <1>2 DEF HeldAtStep, NewInst
<1> QED
  BY <1>3, <1>5, <1>6 DEF AreasInv

LEMMA UnhookDoneKeeps ==
  ASSUME AreasInv, UnhookDone
  PROVE  AreasInv'
<1>1. /\ out' = out \ {inst.exit, inst.islandEnter, inst.islandRewrite, inst.enter}
      /\ step' = "idle" /\ inst' = NewInst
      /\ newExit' = newExit /\ lost' = lost /\ c' = c /\ sw' = "none"
  BY DEF UnhookDone, Give
<1>2. newExit = None
  BY DEF AreasInv, HeldAtStep, UnhookDone
<1>3. AreaTypes'
  BY <1>1, NoneIsArea DEF AreasInv, AreaTypes
<1>4. /\ Referred = {inst.enter, inst.exit, inst.islandEnter, inst.islandRewrite, None}
      /\ Referred' = {None}
  BY <1>1, <1>2, <1>3, ReferredIs, ReferredIsNext DEF AreasInv, NewInst
<1>5. Accounted' /\ OnceHeld'
  BY <1>1, <1>2, <1>4 DEF AreasInv, Accounted, OnceHeld, NewInst
<1>6. HeldAtStep'
  BY <1>1, <1>2 DEF HeldAtStep, NewInst
<1> QED
  BY <1>3, <1>5, <1>6 DEF AreasInv

\* The island of the rewritten branch stays out, and is lost.
LEMMA FreeAfterDlcloseKeeps ==
  ASSUME AreasInv, FreeAfterDlclose
  PROVE  AreasInv'
<1>1. /\ out' = out \ {inst.exit, inst.islandEnter, inst.enter}
      /\ lost' = lost \cup ({inst.islandRewrite} \ {None})
      /\ step' = step /\ inst' = NewInst /\ newExit' = newExit /\ c' = c /\ sw' = "closed"
  BY DEF FreeAfterDlclose, Give
<1>2. newExit = None /\ step = "idle"
  BY DEF AreasInv, HeldAtStep, FreeAfterDlclose
<1>3. AreaTypes'
  BY <1>1, NoneIsArea DEF AreasInv, AreaTypes, Record
<1>4. /\ Referred = {inst.enter, inst.exit, inst.islandEnter, inst.islandRewrite, None}
      /\ Referred' = {None}
  BY <1>1, <1>2, <1>3, ReferredIs, ReferredIsNext DEF AreasInv, NewInst
<1>5. Accounted'
  BY <1>1, <1>4 DEF AreasInv, Accounted, OnceHeld
<1>6. OnceHeld'
  BY <1>1, <1>2, <1>4 DEF AreasInv, OnceHeld, NewInst
<1>7. HeldAtStep'
  BY <1>1, <1>2 DEF HeldAtStep, NewInst
<1> QED
  BY <1>3, <1>5, <1>6, <1>7 DEF AreasInv

\* The switch takes the record with it.
LEMMA UnhookFailsKeeps ==
  ASSUME AreasInv, UnhookFails
  PROVE  AreasInv'
<1>1. /\ lost' = lost \cup ({inst.enter, inst.exit, inst.islandEnter, inst.islandRewrite} \ {None})
      /\ out' = out /\ step' = step /\ inst' = NewInst /\ newExit' = newExit /\ c' = c /\ sw' = "gone"
  BY RecordValues DEF UnhookFails, AreasInv, AreaTypes
<1>2. newExit = None /\ step = "idle"
  BY DEF AreasInv, HeldAtStep, UnhookFails
<1>3. AreaTypes'
  BY <1>1, NoneIsArea DEF AreasInv, AreaTypes, Record
<1>4. /\ Referred = {inst.enter, inst.exit, inst.islandEnter, inst.islandRewrite, None}
      /\ Referred' = {None}
  BY <1>1, <1>2, <1>3, ReferredIs, ReferredIsNext DEF AreasInv, NewInst
<1>5. Accounted'
  BY <1>1, <1>4 DEF AreasInv, Accounted
<1>6. OnceHeld'
  BY <1>1, <1>2, <1>4 DEF AreasInv, OnceHeld, NewInst
<1>7. HeldAtStep'
  BY <1>1, <1>2 DEF HeldAtStep, NewInst
<1> QED
  BY <1>3, <1>5, <1>6, <1>7 DEF AreasInv

\* The steps that take nothing and give nothing back
LEMMA OthersKeep ==
  ASSUME AreasInv,
         \/ HookIslandEnterFails \/ Unhook \/ Reload \/ Rested
         \/ (\E new : Rehook(new))
         \/ UNCHANGED instVars
  PROVE  AreasInv'
<1>1. UNCHANGED <<c, inst, newExit, out, lost>>
  BY DEF HookIslandEnterFails, Unhook, Reload, Rested, Rehook, instVars
<1>2. AreaTypes' /\ Referred' = Referred
  BY <1>1 DEF AreasInv, AreaTypes, Referred
<1>3. Accounted' /\ OnceHeld'
  BY <1>1, <1>2 DEF AreasInv, Accounted, OnceHeld
<1>4. HeldAtStep'
  BY <1>1 DEF AreasInv, HeldAtStep, HookIslandEnterFails, Unhook, Reload, Rested, Rehook, instVars
<1> QED
  BY <1>2, <1>3, <1>4 DEF AreasInv

LEMMA StepsKeep == AreasInv /\ [RunNext]_allVars => AreasInv'
<1> SUFFICES ASSUME AreasInv, [RunNext]_allVars
             PROVE  AreasInv'
  OBVIOUS
<1>1. CASE Patch
  BY <1>1, RelocWriteKeeps, FreeAfterDlcloseKeeps, OthersKeep DEF Patch
<1>2. CASE Prepare
  BY <1>2, HookEnterKeeps, HookIslandEnterKeeps, HookRewriteKeeps, HookRewriteFailsKeeps, RelocExitKeeps,
     RelocExitFailsKeeps, RelocWriteFailsKeeps, RelocDoneKeeps, HookFailedKeeps, UnhookFailsKeeps, UnhookDoneKeeps, OthersKeep
     DEF Prepare
<1>3. CASE UNCHANGED instVars
  BY <1>3, OthersKeep
<1>4. Call \/ RunInPlace \/ RunHook \/ ProxyCalls \/ ProxyReturns \/ GlueJumps \/ Return \/ Leave
      => UNCHANGED instVars
  BY DEF Call, RunInPlace, RunHook, ProxyCalls, ProxyReturns, GlueJumps, Return, Leave, Ends
<1> QED
  BY <1>1, <1>2, <1>3, <1>4 DEF RunNext, allVars

\* Only the rewritten instruction's island is forgotten, and by a dlclose; all else by a failed unhook.
LEMMA LossKept ==
  ASSUME AreasInv, LossInv, [RunNext]_allVars
  PROVE  LossInv'
<1> USE DEF LossInv
<1>1. c' = c
  BY DEF RunNext, Patch, Prepare, instVars, allVars, HookEnter, HookIslandEnter, HookIslandEnterFails, HookRewrite,
     HookRewriteFails, RelocExit, RelocExitFails, RelocWrite, RelocWriteFails, RelocDone, HookFailed, Rehook, Unhook,
     UnhookFails, UnhookDone, FreeAfterDlclose, Reload, Rested, Call, RunInPlace, RunHook, ProxyCalls, ProxyReturns,
     GlueJumps, Return, Leave, Ends
<1>2. NeedsIslandRewrite' <=> NeedsIslandRewrite
  BY <1>1 DEF NeedsIslandRewrite, UsesBranchIsland, FirstInst
<1>3. \A r \in Record : /\ [r EXCEPT !.islandEnter = None, !.islandRewrite = None].islandRewrite = None
                       /\ \A a \in Areas : /\ [r EXCEPT !.islandEnter = a].islandRewrite = r.islandRewrite
                                            /\ [r EXCEPT !.exit = a].islandRewrite = r.islandRewrite
                                            /\ [r EXCEPT !.enter = a].islandRewrite = r.islandRewrite
  BY DEF Record
<1>4. NewInst \in Record /\ NewInst.islandRewrite = None /\ inst \in Record
  BY NoneIsArea DEF NewInst, AreasInv, AreaTypes
<1>5. CASE UNCHANGED <<inst, sw, lost>>
  BY <1>2, <1>5
<1>6. CASE HookRewrite
  <2>1. CASE NeedsIslandRewrite
    BY <1>2, <2>1
  <2>2. CASE ~NeedsIslandRewrite
    <3>1. UNCHANGED <<inst, sw, lost>>
      BY <1>6, <2>2 DEF HookRewrite
    <3> QED
      BY <1>5, <3>1
  <2> QED
    BY <2>1, <2>2
<1>7. CASE UnhookFails
  BY <1>2, <1>4, <1>7 DEF UnhookFails
<1>8. CASE FreeAfterDlclose
  BY <1>2, <1>4, <1>8 DEF FreeAfterDlclose
<1>9. CASE lost' = lost /\ (sw' = "gone" <=> sw = "gone") /\ inst'.islandRewrite \in {None, inst.islandRewrite}
  BY <1>2, <1>9
<1>10. ASSUME NEW new, HookEnter(new)
       PROVE  LossInv'
  <2>1. /\ lost' = lost /\ sw' = sw
        /\ \E a : inst' = [NewInst EXCEPT !.enter = a]
    BY <1>10 DEF HookEnter
  <2>2. \A a : [NewInst EXCEPT !.enter = a].islandRewrite = None
    BY DEF NewInst
  <2>3. inst'.islandRewrite = None
    BY <2>1, <2>2
  <2> QED
    BY <1>9, <2>1, <2>3
<1>11. CASE HookIslandEnter
  <2>1. lost' = lost /\ sw' = sw /\ \E a : inst' = [inst EXCEPT !.islandEnter = a]
    BY <1>11 DEF HookIslandEnter
  <2>2. inst'.islandRewrite = inst.islandRewrite
    BY <1>4, <2>1 DEF Record
  <2> QED
    BY <1>9, <2>1, <2>2
<1>12. CASE RelocDone
  <2>1. inst'.islandRewrite = inst.islandRewrite
    BY <1>4, <1>12 DEF RelocDone, Record
  <2> QED
    BY <1>2, <1>12, <2>1 DEF RelocDone, AreasInv, HeldAtStep
<1>13. CASE HookRewriteFails
  BY <1>3, <1>4, <1>9, <1>13 DEF HookRewriteFails, FreeIslands
<1>14. CASE RelocExitFails \/ RelocWriteFails
  <2>1. lost' = lost /\ sw' = sw /\ Undone
    BY <1>14 DEF RelocExitFails, RelocWriteFails
  <2>2. inst'.islandRewrite \in {None, inst.islandRewrite}
    BY <1>3, <1>4, <2>1 DEF Undone
  <2> QED
    BY <1>9, <2>1, <2>2
<1>15. CASE HookFailed \/ UnhookDone
  <2>1. lost' = lost /\ inst' = NewInst /\ (sw' = "gone" <=> sw = "gone")
    BY <1>15 DEF HookFailed, UnhookDone, AreasInv, HeldAtStep
  <2> QED
    BY <1>4, <1>9, <2>1
<1>16. CASE Reload
  BY <1>9, <1>16 DEF Reload
<1>17. (\E new : Rehook(new)) \/ HookIslandEnterFails \/ RelocExit \/ RelocWrite \/ Unhook \/ Rested
       => UNCHANGED <<inst, sw, lost>>
  BY DEF Rehook, HookIslandEnterFails, RelocExit, RelocWrite, Unhook, Rested
<1>18. UNCHANGED instVars \/ Call \/ RunInPlace \/ RunHook \/ ProxyCalls \/ ProxyReturns \/ GlueJumps \/ Return \/ Leave
       => UNCHANGED <<inst, sw, lost>>
  BY DEF Call, RunInPlace, RunHook, ProxyCalls, ProxyReturns, GlueJumps, Return, Leave, Ends, instVars
<1> QED
  BY <1>5, <1>6, <1>7, <1>8, <1>10, <1>11, <1>12, <1>13, <1>14, <1>15, <1>16, <1>17, <1>18
     DEF RunNext, allVars, Patch, Prepare

\* In every reachable state the record holds no area twice, and what its step allows (sh_inst_t of sh_inst.h).
THEOREM AreasInvariant == RunSpec => []AreasInv
<1>1. RunInit => AreasInv
  BY InitHolds DEF RunInit
<1> QED
  BY <1>1, StepsKeep, PTL DEF RunSpec

\* Every area that the allocators gave out is referred to by the record or was lost, and none that the record
\* refers to was given back, whichever step fails; areas are lost only by a failed unhook, whose switch takes its
\* record with it, and, where the rewritten instruction needs an island, by a dlclose.
THEOREM NothingLeaksHolds == RunSpec => []NothingLeaks
<1>1. RunInit => LossInv
  BY DEF RunInit, InstInit, LossInv, NewInst
<1>2. AreasInv /\ LossInv /\ [RunNext]_allVars => LossInv'
  BY LossKept
<1>3. AreasInv /\ LossInv => NothingLeaks
  BY DEF AreasInv, Accounted, LossInv, NothingLeaks
<1> QED
  BY <1>1, <1>2, <1>3, AreasInvariant, PTL DEF RunSpec
=============================================================================
