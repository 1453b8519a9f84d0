--------------------------- MODULE ShSwitchProofs ---------------------------
(***************************************************************************)
(* The switches and the hooks they hold, for every number of threads,      *)
(* targets, proxies and libraries.                                         *)
(*                                                                         *)
(* First: ShSwitch implements ShRef.  Whatever the handlers do to the      *)
(* switches, the life cycle of the switches is the one ShRef describes, so *)
(* what ShRefProofs proves of reference-counted objects holds for them.    *)
(*                                                                         *)
(* Then the hooks themselves.  SwitchInv is inductive; one lemma per step  *)
(* and conjunct shows that the step keeps it:                              *)
(*   SwitchTypes  what a switch, a job and a stub are made of              *)
(*   OpInv        what a thread knows between its lookup and its return    *)
(*   AddrInv      a switch is at its address, alone                        *)
(*   WholeInv     a live switch is a unique hook, an interceptor or a      *)
(*                chain that ends in the original (ShChainProofs)          *)
(*   FreshInv     a switch no target jumps to yet is being hooked          *)
(*   ClaimInv     what was granted is in the live switch of its target     *)
(*   OwnedInv     what a live switch holds was granted to somebody         *)
(*   TopInv       a hooked target jumps where its switch says              *)
(*   PatchInv     and nothing else is patched, unless a removal failed     *)
(* The safety properties of the runs follow from it.                       *)
(***************************************************************************)
EXTENDS ShSwitch, ShRefProofs, ShChainProofs

LEMMA HandlerStep ==
  ASSUME NEW t \in Thread, Handler(t)
  PROVE  Keep(t) \/ Retire(t)
<1>1. ASSUME NEW s, InstUnhook(t, s) PROVE Retire(t)
  BY <1>1 DEF InstUnhook
<1>2. CASE HookFirst(t)
  BY <1>2 DEF HookFirst
<1>3. CASE HookUniqueMore(t) \/ HookQueueMore(t)
  BY <1>3 DEF HookUniqueMore, HookQueueMore
<1>4. CASE UnhookUnique(t)
  BY <1>1, <1>4 DEF UnhookUnique
<1>5. CASE UnhookQueue(t)
  BY <1>1, <1>5 DEF UnhookQueue
<1>6. CASE Intercept(t)
  BY <1>6 DEF Intercept
<1>7. CASE Unintercept(t)
  BY <1>1, <1>7 DEF Unintercept
<1>8. CASE FreeAfterDlclose(t)
  BY <1>8 DEF FreeAfterDlclose
<1> QED
  BY <1>2, <1>3, <1>4, <1>5, <1>6, <1>7, <1>8 DEF Handler

LEMMA CallIsBegin ==
  ASSUME NEW t \in Thread, NEW st \in Stub, CallHook(t, st) \/ CallUnhook(t, st)
  PROVE  \E c \in Calls : Begin(t, c[1], c[2])
<1>1. st.key \in Key
  BY DEF Stub
<1>2. <<"get", {st.key}>> \in Calls /\ <<"find", {st.key}>> \in Calls
  BY <1>1 DEF Calls
<1>3. Begin(t, "get", {st.key}) \/ Begin(t, "find", {st.key})
  BY DEF CallHook, CallUnhook
<1> QED
  BY <1>2, <1>3

LEMMA SweepIsBegin ==
  ASSUME NEW t \in Thread, NEW keys \in Lib, CallDlclose(t, keys)
  PROVE  \E c \in Calls : Begin(t, c[1], c[2])
<1>1. <<"dlclose", keys>> \in Calls
  BY DEF Calls
<1>2. Begin(t, "dlclose", keys)
  BY DEF CallDlclose
<1> QED
  BY <1>1, <1>2

LEMMA SwitchStep == [Next]_vars => [RefNext]_refVars
<1> SUFFICES ASSUME [Next]_vars PROVE [RefNext]_refVars
  OBVIOUS
<1>1. CASE UNCHANGED vars
  BY <1>1 DEF vars
<1>2. CASE Tick
  BY <1>2 DEF RefNext
<1>3. ASSUME NEW t \in Thread, NEW st \in Stub, CallHook(t, st) \/ CallUnhook(t, st)
      PROVE  RefNext
  BY <1>3, CallIsBegin DEF RefNext
<1>4. ASSUME NEW t \in Thread, NEW keys \in Lib, CallDlclose(t, keys)
      PROVE  RefNext
  BY <1>4, SweepIsBegin DEF RefNext
<1>5. ASSUME NEW t \in Thread,
             \/ CreateSwitch(t) \/ FindNothing(t) \/ SkipDestroyed(t) \/ DestroySwitch(t)
             \/ EndCall(t)
      PROVE  RefNext
  <2>1. FindCreate(t) \/ FindFails(t) \/ Skip(t) \/ Destroy(t) \/ Release(t)
    BY <1>5 DEF CreateSwitch, FindNothing, SkipDestroyed, DestroySwitch, EndCall
  <2> QED
    BY <2>1 DEF RefNext, Work
<1>6. ASSUME NEW t \in Thread, Plain(t) PROVE RefNext
  BY <1>6 DEF Plain, RefNext, Work
<1>7. ASSUME NEW t \in Thread, Handler(t) PROVE RefNext
  BY <1>7, HandlerStep DEF RefNext, Work
<1> QED
  BY <1>1, <1>2, <1>3, <1>4, <1>5, <1>6, <1>7 DEF Next

\* The switches of sh_switch.c go through the life cycle of ShRef: every step of a
\* hook, an unhook, an interception or a dlclose sweep is one of its steps.
THEOREM SwitchImplementsRef == Spec => RefSpec
<1>1. Init => RefInit
  BY DEF Init
<1> QED
  BY <1>1, SwitchStep, PTL DEF Spec, RefSpec

\* So no thread in sh_switch.c uses a switch whose memory was given back, no handler
\* works on a switch the registry lost to another thread, and none is freed twice.
THEOREM SwitchesAreSafe == Spec => [](NoUseAfterFree /\ BodyOnRegistered /\ DestroyedOnce)
BY SwitchImplementsRef, NoUseAfterFreeHolds, BodyOnRegisteredHolds, DestroyedOnceHolds, PTL

-----------------------------------------------------------------------------
(* What the safety properties of ShSwitch rest on.                         *)

\* A switch that a call may find and use: nobody has begun to take it down.
Live(o) == o \in born /\ ~Destroyed(o) /\ \A t \in Thread : pc[t] \in {"untree", "stamp"} => self[t] # o

\* A stub that a call is handing back is claimed until its handler has run.
Early(t)   == pc[t] \in {"find", "lock", "body"}
Pending(t) == op[t].act = "unhook" /\ Early(t)
Claims(st) == st \in stubs \/ \E t \in Thread : Pending(t) /\ op[t].stub = st

Patch  == [sw : Obj, to : Node \cup {GLUE}]
Op     == {NoOp} \cup [act : {"hook", "unhook"}, stub : Stub]
Result == {"ok", "fault", "dup", "conflict", "notfound"}

SwitchTypes ==
  /\ sw \in [Obj -> Switch]
  /\ code \in [Key -> Seq(Patch)]
  /\ mapped \subseteq Key
  /\ op \in [Thread -> Op]
  /\ ret \in [Thread -> Result]
  /\ stubs \subseteq Stub

\* What a thread was asked, what it will return, and which targets may be closed meanwhile.
OpOf(t) ==
  /\ pc[t] = "idle" \/ call[t].kind = "dlclose" => op[t] = NoOp
  /\ pc[t] # "idle" /\ call[t].kind # "dlclose" =>
       /\ call[t].kind = "get" => op[t].act = "hook"
       /\ call[t].kind # "get" => op[t].act = "unhook"
       /\ op[t].stub \in Stub /\ Proper(op[t].stub) /\ call[t].keys = {KeyOf(t)}
  /\ op[t].act = "hook" => KeyOf(t) \in mapped
  /\ pc[t] # "idle" /\ call[t].kind = "dlclose" => call[t].keys \cap mapped = {}
  /\ Early(t) => ret[t] = "ok"
  /\ again[t] => call[t].kind = "get" /\ pc[t] \in {"unlock", "release"}
OpInv == \A t \in Thread : OpOf(t)

\* A switch is at its address: the registry's, or one a sweep has collected; and the only one.
AddrInv ==
  /\ \A k \in Key : tree[k] # NoObj => sw[tree[k]].addr = k
  /\ \A t \in Thread : \A o \in held[t] : sw[o].addr \in call[t].keys
  /\ \A o \in born : Live(o) =>
       /\ sw[o].addr \in Key
       /\ \/ tree[sw[o].addr] = o
          \/ sw[o].addr \notin mapped /\ \E u \in Thread : call[u].kind = "dlclose" /\ o \in held[u]
  /\ \A o, p \in born : Live(o) /\ Live(p) /\ sw[o].addr = sw[p].addr => o = p

WholeInv == \A o \in born : Live(o) => Whole(sw[o])

\* A switch that no target jumps to yet is being hooked, and when the modes of its
\* callers cannot cross, it has the mode of the call that made it.
ModesSettle == "unique" \notin Modes \/ \A t, u \in Thread : t = u
Hooking(t) == op[t].act = "hook" /\ pc[t] \in {"lock", "body"}
FreshInv ==
  /\ \A o \in born : Live(o) /\ sw[o].start = NULL => \E t \in Thread : Hooking(t) /\ o \in held[t]
  /\ \A t \in Thread : Hooking(t) /\ KindOf(t) = "unique" =>
       \A o \in held[t] : Live(o) /\ sw[o].start = NULL => sw[o].mode = "unique"

\* Every claim is in the one live switch of its target, and no two claims are the same.
ClaimInv ==
  /\ \A st \in stubs : st.key \in mapped /\ Proper(st)
  /\ \A st \in Stub : Claims(st) /\ st.key \in mapped =>
       \E o \in born : Live(o) /\ sw[o].addr = st.key /\ In(st, sw[o])
  /\ \A t \in Thread : Pending(t) =>
       /\ op[t].stub \notin stubs
       /\ \A u \in Thread : Pending(u) /\ op[u].stub = op[t].stub => u = t
       /\ KeyOf(t) \in mapped => \A o \in held[t] : Live(o)

\* What is in a live switch is claimed, or its removal has failed.
OwnedInv ==
  \A o \in born : Live(o) /\ sw[o].addr \in mapped =>
    \A st \in AnyStub : st.key = sw[o].addr /\ In(st, sw[o]) => Claims(st) \/ st \in residue

\* A target that is hooked jumps where its switch says.
TopInv ==
  \A o \in born : Live(o) /\ sw[o].start # NULL =>
    code[sw[o].addr] # <<>> /\ Head(code[sw[o].addr]) = [sw |-> o, to |-> sw[o].start]

\* Without failing restorations there is no other patch.
PatchInv ==
  "unhook" \notin Faults =>
    \A k \in Key : code[k] # <<>> =>
      /\ Len(code[k]) = 1
      /\ \E o \in born : Live(o) /\ sw[o].addr = k /\ Head(code[k]) = [sw |-> o, to |-> sw[o].start]

\* No unhook of a loaded target is about to return that its stub is not there.
AnswerInv ==
  \A t \in Thread :
    op[t].act = "unhook" /\ KeyOf(t) \in mapped => ret[t] \notin {"notfound", "conflict"}

SwitchInv ==
  /\ SwitchTypes /\ OpInv /\ AddrInv /\ WholeInv /\ FreshInv
  /\ ClaimInv /\ OwnedInv /\ TopInv /\ PatchInv /\ AnswerInv

-----------------------------------------------------------------------------
(* A switch's life, seen from ShSwitch.                                    *)

USE DEF At, Goto, Return, NoCall, registry, objects, locals

\* What a thread at work on a switch that was not destroyed may rely on.
LEMMA BodyLive ==
  ASSUME TypeOK, RefInv, NEW t \in Thread, pc[t] = "body", ~Destroyed(self[t])
  PROVE  Live(self[t]) /\ self[t] \in held[t] /\ self[t] \in born /\ self[t] \in Obj
<1>1. self[t] \in held[t] /\ lock[self[t]] = t /\ self[t] \in Obj
  BY DEF TypeOK, RefInv, PlaceInv, Place, LockHeld
<1>2. self[t] \in born
  BY <1>1 DEF RefInv, UnbornInv, Holders
<1>3. ASSUME NEW u \in Thread, pc[u] \in {"untree", "stamp"}, self[u] = self[t] PROVE FALSE
  <2>1. lock[self[u]] = u
    BY <1>3 DEF RefInv, PlaceInv, Place, LockHeld
  <2>2. u = t
    BY <1>1, <1>3, <2>1
  <2> QED
    BY <1>3, <2>2
<1> QED
  BY <1>1, <1>2, <1>3 DEF Live

\* Nothing held, registered or live has been freed.
LEMMA InUse ==
  ASSUME TypeOK, RefInv
  PROVE  /\ \A t \in Thread : \A o \in held[t] : o \in born /\ o \in Obj /\ o \notin freed
         /\ \A k \in Key : tree[k] # NoObj => tree[k] \in born /\ tree[k] \in Obj /\ tree[k] \notin freed
         /\ \A o \in born : Live(o) => o \in Obj /\ o \notin freed
<1>1. \A t \in Thread : \A o \in held[t] : o \in Obj /\ o \in Obj
  BY DEF TypeOK
<1>2. \A t \in Thread : \A o \in held[t] : o \in born /\ o \notin freed
  BY <1>1 DEF RefInv, UnbornInv, RetiredInv, GivenUpUnheld, Holders
<1>3. \A k \in Key : tree[k] # NoObj => tree[k] \in born /\ tree[k] \in Obj /\ tree[k] \notin freed
  BY DEF TypeOK, RefInv, UnbornInv, RetiredInv, TreeLive, QueuedDestroyed
<1>4. \A o \in born : Live(o) => o \in Obj /\ o \notin freed
  BY DEF TypeOK, RefInv, RetiredInv, QueuedDestroyed, Live
<1> QED
  BY <1>1, <1>2, <1>3, <1>4

\* A switch does not come back to life ...
LEMMA LiveBack ==
  ASSUME TypeOK, RefInv, [RefNext]_refVars, NEW o, Live(o)'
  PROVE  Live(o) \/ o \notin born
<1> USE DEF Live, Destroyed
<1>0. now \in Nat /\ now # 0
  BY RefAssumption DEF TypeOK
<1>2. CASE UNCHANGED refVars
  BY <1>2 DEF refVars
<1>3. CASE Tick
  BY <1>3 DEF Tick
<1>4. ASSUME NEW t \in Thread, NEW c \in Calls, Begin(t, c[1], c[2]) PROVE Live(o) \/ o \notin born
  BY <1>4 DEF Begin, TypeOK
<1>5. ASSUME NEW t \in Thread, Lock(t) PROVE Live(o) \/ o \notin born
  BY <1>5 DEF Lock, TypeOK
<1>6. ASSUME NEW t \in Thread, FindHit(t) \/ FindCreate(t) \/ FindFails(t) \/ Collect(t) PROVE Live(o) \/ o \notin born
  BY <1>6 DEF FindHit, FindCreate, FindFails, Collect, TypeOK
<1>7. ASSUME NEW t \in Thread, Skip(t) \/ Keep(t) \/ Retire(t) \/ Untree(t) PROVE Live(o) \/ o \notin born
  BY <1>7 DEF Skip, Keep, Retire, Untree, TypeOK
<1>8. ASSUME NEW t \in Thread, Stamp(t) PROVE Live(o) \/ o \notin born
  <2>1. \A u \in Thread \ {t} : pc'[u] = pc[u] /\ self'[u] = self[u]
    BY <1>8 DEF Stamp, TypeOK
  <2>2. self[t] \in Obj
    BY <1>8 DEF Stamp, RefInv, PlaceInv, Place, TypeOK
  <2>3. destroyTs'[self[t]] # 0 /\ \A p \in Obj : p # self[t] => destroyTs'[p] = destroyTs[p]
    BY <1>0, <1>8, <2>2 DEF Stamp, TypeOK
  <2>4. born' = born
    BY <1>8 DEF Stamp
  <2> QED
    BY <2>1, <2>3, <2>4 DEF TypeOK
<1>9. ASSUME NEW t \in Thread, Scan(t) \/ Destroy(t) \/ Unlock(t) \/ Release(t) PROVE Live(o) \/ o \notin born
  BY <1>9 DEF Scan, Destroy, Unlock, Release, TypeOK
<1> QED
  BY <1>2, <1>3, <1>4, <1>5, <1>6, <1>7, <1>8, <1>9 DEF RefNext, Work

\* ... and lives until its handler retires it.
LEMMA LiveOn ==
  ASSUME TypeOK, RefInv, [RefNext]_refVars, NEW o, Live(o)
  PROVE  Live(o)' \/ \E t \in Thread : Retire(t) /\ self[t] = o
<1> USE DEF Live, Destroyed
<1>2. CASE UNCHANGED refVars
  BY <1>2 DEF refVars
<1>3. CASE Tick
  BY <1>3 DEF Tick
<1>4. ASSUME NEW t \in Thread, NEW c \in Calls, Begin(t, c[1], c[2]) PROVE Live(o)'
  BY <1>4 DEF Begin, TypeOK
<1>5. ASSUME NEW t \in Thread, Lock(t) PROVE Live(o)'
  BY <1>5 DEF Lock, TypeOK
<1>6. ASSUME NEW t \in Thread, FindHit(t) \/ FindCreate(t) \/ FindFails(t) \/ Collect(t) PROVE Live(o)'
  BY <1>6 DEF FindHit, FindCreate, FindFails, Collect, TypeOK
<1>7. ASSUME NEW t \in Thread, Skip(t) \/ Keep(t) \/ Untree(t) PROVE Live(o)'
  BY <1>7 DEF Skip, Keep, Untree, TypeOK
<1>8. ASSUME NEW t \in Thread, Retire(t) PROVE Live(o)' \/ self[t] = o
  BY <1>8 DEF Retire, TypeOK
<1>9. ASSUME NEW t \in Thread, Stamp(t) PROVE Live(o)'
  <2>1. \A u \in Thread \ {t} : pc'[u] = pc[u] /\ self'[u] = self[u]
    BY <1>9 DEF Stamp, TypeOK
  <2>2. self[t] # o /\ pc'[t] \notin {"untree", "stamp"}
    BY <1>9 DEF Stamp, TypeOK
  <2>3. destroyTs'[o] = destroyTs[o] /\ born' = born
    BY <1>9, <2>2 DEF Stamp, TypeOK
  <2> QED
    BY <2>1, <2>2, <2>3
<1>10. ASSUME NEW t \in Thread, Scan(t) \/ Destroy(t) \/ Unlock(t) \/ Release(t) PROVE Live(o)'
  BY <1>10 DEF Scan, Destroy, Unlock, Release, TypeOK
<1> QED
  BY <1>2, <1>3, <1>4, <1>5, <1>6, <1>7, <1>8, <1>9, <1>10 DEF RefNext, Work

-----------------------------------------------------------------------------
(* What a handler does, whichever it is: a hook takes its stub in, is      *)
(* refused or fails with a new switch; an unhook hands its stub back and   *)
(* keeps the switch, or retires it.                                        *)

Given(t) == op[t].stub
Answers(t) == \E x \in Result : ret' = [ret EXCEPT ![t] = x]
Finds(t)   == ret'[t] \notin {"notfound", "conflict"}

HookTakes(t) ==
  /\ Keep(t) /\ op[t].act = "hook" /\ Answers(t)
  /\ stubs' = stubs \cup {Given(t)} /\ UNCHANGED <<mapped, op, residue>>
  /\ \E r \in Switch : Set(t, r) /\ Good(This(t), r) /\ Gains(This(t), r, Given(t))

HookRefused(t) ==
  /\ Keep(t) /\ op[t].act = "hook" /\ Answers(t) /\ UNCHANGED <<mapped, op, residue, stubs>>
  /\ \E r \in Switch : Set(t, r) /\ Good(This(t), r) /\ Stays(This(t), r)

HookFails(t) ==
  /\ Retire(t) /\ op[t].act = "hook" /\ Answers(t) /\ This(t).start = NULL
  /\ UNCHANGED <<mapped, op, residue, stubs, sw, code>>

UnhookKeeps(t) ==
  /\ Keep(t) /\ op[t].act = "unhook" /\ Answers(t)
  /\ residue \subseteq residue' /\ UNCHANGED <<mapped, op, stubs>>
  /\ \E r \in Switch :
       /\ Set(t, r) /\ (r = This(t) \/ Good(This(t), r))
       /\ In(Given(t), This(t)) => Finds(t)
       /\ In(Given(t), This(t)) =>
            \A st \in AnyStub :
              /\ In(st, r) => In(st, This(t)) /\ (Alike(st, Given(t)) => Given(t) \in residue')
              /\ In(st, This(t)) /\ ~Alike(st, Given(t)) => In(st, r)

UnhookRetires(t) ==
  /\ Retire(t) /\ op[t].act = "unhook" /\ Answers(t) /\ Finds(t) /\ This(t).start # NULL
  /\ \A st \in residue : st.key # KeyOf(t) => st \in residue'
  /\ UNCHANGED <<mapped, op, stubs>>
  /\ \/ code' = code /\ "unhook" \in Faults
     \/ code' = [code EXCEPT ![This(t).addr] = Tail(@)]
  /\ \E r \in Switch : sw' = [sw EXCEPT ![self[t]] = r] /\ r.addr = This(t).addr
  /\ In(Given(t), This(t)) => \A st \in AnyStub : In(st, This(t)) => Alike(st, Given(t))

\* What the handlers rely on.
Ready(t) ==
  /\ SwitchTypes /\ t \in Thread /\ self[t] \in Obj /\ Whole(This(t))
  /\ Given(t) \in Stub /\ Proper(Given(t))
  /\ op[t].act = "hook" /\ KindOf(t) = "unique" /\ This(t).start = NULL => This(t).mode = "unique"

LEMMA ReadyIs ==
  ASSUME NEW t, Ready(t)
  PROVE  /\ This(t) \in Switch /\ Whole(This(t)) /\ Given(t) \in AnyStub
         /\ Given(t).who = Who(t) /\ Given(t).kind = KindOf(t) /\ Given(t).key = KeyOf(t)
         /\ KindOf(t) # "intercept" => Who(t) \in Proxy
         /\ KindOf(t) = "intercept" => Who(t) \in Icept
<1>1. This(t) \in Switch
  BY DEF Ready, SwitchTypes, This
<1>2. Given(t) \in AnyStub
  BY SwitchAssumption DEF Ready, Stub, AnyStub
<1>3. Given(t).who = Who(t) /\ Given(t).kind = KindOf(t) /\ Given(t).key = KeyOf(t)
  BY DEF Given, Who, KindOf, KeyOf
<1>4. KindOf(t) # "intercept" => Who(t) \in Proxy
  BY <1>2, <1>3 DEF Ready, Proper, AnyStub
<1>5. KindOf(t) = "intercept" => Who(t) \in Icept
  BY <1>2, <1>3 DEF Ready, Proper, AnyStub
<1> QED
  BY <1>1, <1>2, <1>3, <1>4, <1>5 DEF Ready

LEMMA SameIsSet ==
  ASSUME NEW t, Ready(t), UNCHANGED <<sw, code>>
  PROVE  Set(t, This(t))
<1>1. sw' = [sw EXCEPT ![self[t]] = sw[self[t]]]
  BY DEF Ready, SwitchTypes
<1> QED
  BY <1>1 DEF Set, This

LEMMA HookFirstIs ==
  ASSUME NEW t, Ready(t), HookFirst(t)
  PROVE  HookTakes(t) \/ HookFails(t)
<1> DEFINE s == This(t)
           c == Given(t)
           f == [s EXCEPT !.proxy = Who(t)]
           u == [f EXCEPT !.orig[Who(t)] = RESUME]
           a == Added(f, Who(t), KindOf(t))
           x == IF KindOf(t) = "unique" THEN u ELSE a
           r == [x EXCEPT !.start = x.proxy]
<1>1. s \in Switch /\ Whole(s) /\ c \in AnyStub /\ c.who = Who(t) /\ c.kind = KindOf(t)
  BY ReadyIs
<1>2. op[t].act = "hook" /\ s.start = NULL /\ KindOf(t) \in {"unique", "multi", "shared"} /\ Who(t) \in Proxy
  BY ReadyIs, SwitchAssumption DEF HookFirst, Doing
<1>3. s.proxy = NULL /\ s.icept = {}
  BY <1>1, <1>2, UnstartedIsEmpty
<1>4. ASSUME KindOf(t) = "unique" PROVE Good(s, r) /\ Gains(s, r, c)
  <2> DEFINE w == [s EXCEPT !.mode = "unique", !.proxy = c.who, !.orig[c.who] = RESUME, !.start = c.who]
  <2>1. Good(s, w) /\ Gains(s, w, c)
    <3>1. c.who \in {s.start, c.who} /\ c.who # NULL /\ (s.icept # {} => c.who = GLUE)
      BY <1>1, <1>2, <1>3, SwitchAssumption
    <3> QED
      BY <3>1, <1>1, <1>2, <1>3, <1>4, UniqueIs
  <2>2. s.mode = "unique"
    BY <1>2, <1>4 DEF Ready
  <2>3. r = w
    <3>1. x = u /\ c.who = Who(t) /\ s \in Switch
      BY <1>1, <1>4
    <3> DEFINE o2 == [s.orig EXCEPT ![Who(t)] = RESUME]
    <3>2. u = [s EXCEPT !.proxy = Who(t), !.orig = o2]
      BY <3>1 DEF Switch
    <3>3. w = [s EXCEPT !.mode = "unique", !.proxy = Who(t), !.orig = o2, !.start = Who(t)]
      BY <3>1 DEF Switch
    <3> HIDE DEF u, x, s, c, w, o2
    <3>4. u.proxy = Who(t)
      BY <3>1, <3>2 DEF Switch
    <3>5. r = [s EXCEPT !.proxy = Who(t), !.orig = o2, !.start = Who(t)]
      BY <3>1, <3>2, <3>4
    <3>6. s = [s EXCEPT !.mode = "unique"]
      BY <3>1, <2>2 DEF Switch
    <3> QED
      BY <3>1, <3>3, <3>5, <3>6 DEF Switch
  <2> HIDE DEF w, r, s, c
  <2> QED
    BY <2>1, <2>3
<1>5. ASSUME KindOf(t) \in {"multi", "shared"} PROVE Good(s, r) /\ Gains(s, r, c)
  <2>1. Queueing(c) /\ x = a
    BY <1>1, <1>2, <1>5 DEF Queueing
  <2> DEFINE b == Added([s EXCEPT !.proxy = c.who], c.who, c.kind)
             y == [b EXCEPT !.start = b.proxy]
  <2>2. a = b
    BY <1>1
  <2>3. Good(s, y) /\ Gains(s, y, c)
    <3> HIDE DEF s, c
    <3> QED
      BY <1>1, <1>2, <2>1, FirstQueueIs, Zenon
  <2>4. r = [a EXCEPT !.start = a.proxy]
    <3> HIDE DEF a
    <3> QED
      BY <2>1
  <2> HIDE DEF a, b, x, s, c, r
  <2> QED
    BY <2>2, <2>3, <2>4
<1>6. Good(s, r) /\ Gains(s, r, c)
  <2> HIDE DEF r, s, c
  <2> QED
    BY <1>2, <1>4, <1>5
<1>7. CASE Keep(t) /\ Set(t, r) /\ Grant(t) /\ Returns(t, "ok") /\ UNCHANGED <<mapped, op, residue>>
  <2> HIDE DEF r, s, c
  <2>1. Answers(t)
    BY <1>7 DEF Answers, Returns, Result
  <2>2. stubs' = stubs \cup {c}
    BY <1>7 DEF Grant, c, Given
  <2> QED
    BY <1>2, <1>6, <1>7, <2>1, <2>2 DEF HookTakes, Good, s, c
<1>8. CASE Retire(t) /\ Returns(t, "fault") /\ UNCHANGED <<sw, code, stubs, mapped, op, residue>>
  <2>1. Answers(t)
    BY <1>8 DEF Answers, Returns, Result
  <2> QED
    BY <1>2, <1>8, <2>1 DEF HookFails
<1> QED
  BY <1>7, <1>8 DEF HookFirst

LEMMA HookUniqueMoreIs ==
  ASSUME NEW t, Ready(t), HookUniqueMore(t)
  PROVE  HookTakes(t) \/ HookRefused(t)
<1> DEFINE s == This(t)
           c == Given(t)
           r == [s EXCEPT !.mode = "unique", !.proxy = Who(t), !.orig[Who(t)] = RESUME]
<1>1. s \in Switch /\ Whole(s) /\ c \in AnyStub /\ c.who = Who(t) /\ c.kind = KindOf(t)
  BY ReadyIs
<1>2. op[t].act = "hook" /\ s.start # NULL /\ KindOf(t) = "unique" /\ Who(t) \in Proxy /\ Keep(t)
      /\ UNCHANGED <<mapped, op, residue>>
  BY ReadyIs, SwitchAssumption DEF HookUniqueMore, Doing
<1>3. CASE s.proxy = NULL
  <2> DEFINE w == [s EXCEPT !.mode = "unique", !.proxy = c.who, !.orig[c.who] = RESUME, !.start = s.start]
  <2>1. Set(t, r) /\ Grant(t) /\ Returns(t, "ok")
    BY <1>3 DEF HookUniqueMore
  <2>2. s.icept # {} => s.start = GLUE
    BY <1>1 DEF Whole, Started
  <2>3. Good(s, w) /\ Gains(s, w, c)
    BY <1>1, <1>2, <1>3, <2>2, UniqueIs
  <2>4. r = w
    BY <1>1 DEF Switch
  <2> HIDE DEF w, r, s, c
  <2>5. Answers(t) /\ stubs' = stubs \cup {c}
    BY <2>1 DEF Answers, Returns, Result, Grant, c, Given
  <2> QED
    BY <1>2, <2>1, <2>3, <2>4, <2>5 DEF HookTakes, Good, s, c
<1>4. CASE s.proxy # NULL
  <2>1. UNCHANGED <<sw, code, stubs>> /\ Answers(t)
    BY <1>4 DEF HookUniqueMore, Answers, Returns, Result
  <2>2. Set(t, s)
    BY <2>1, SameIsSet
  <2>3. Good(s, s) /\ Stays(s, s)
    BY <1>1, <1>2 DEF Good, Stays
  <2> HIDE DEF s
  <2> QED
    BY <1>1, <1>2, <2>1, <2>2, <2>3 DEF HookRefused, s
<1> QED
  BY <1>3, <1>4

LEMMA HookQueueMoreIs ==
  ASSUME NEW t, Ready(t), HookQueueMore(t)
  PROVE  HookTakes(t) \/ HookRefused(t)
<1> DEFINE s == This(t)
           c == Given(t)
           r == Added(s, Who(t), KindOf(t))
<1>1. s \in Switch /\ Whole(s) /\ c \in AnyStub /\ c.who = Who(t) /\ c.kind = KindOf(t)
  BY ReadyIs
<1>2. op[t].act = "hook" /\ s.start # NULL /\ KindOf(t) \in {"multi", "shared"} /\ Who(t) \in Proxy /\ Keep(t)
      /\ UNCHANGED <<mapped, op, residue>>
  BY ReadyIs DEF HookQueueMore, Doing
<1>3. CASE s.mode # "unique" /\ ~Duplicated(s, Who(t)) /\ Set(t, r) /\ Grant(t) /\ Returns(t, "ok")
  <2>1. Queueing(c)
    BY <1>1, <1>2 DEF Queueing
  <2>2. r = Added(s, c.who, c.kind) /\ ~Duplicated(s, c.who)
    BY <1>1, <1>3
  <2> HIDE DEF r, s, c
  <2>3. Good(s, r) /\ Gains(s, r, c)
    BY <1>1, <1>2, <1>3, <2>1, <2>2, QueueMoreIs
  <2>4. Answers(t) /\ stubs' = stubs \cup {c}
    BY <1>3 DEF Answers, Returns, Result, Grant, c, Given
  <2> QED
    BY <1>2, <1>3, <2>3, <2>4 DEF HookTakes, Good, s, c
<1>4. CASE UNCHANGED <<sw, code, stubs>> /\ \E x \in {"conflict", "dup", "fault"} : Returns(t, x)
  <2>1. Answers(t)
    BY <1>4 DEF Answers, Returns, Result
  <2>2. Set(t, s)
    BY <1>4, SameIsSet
  <2>3. Good(s, s) /\ Stays(s, s)
    BY <1>1, <1>2 DEF Good, Stays
  <2> HIDE DEF s
  <2> QED
    BY <1>1, <1>2, <1>4, <2>1, <2>2, <2>3 DEF HookRefused, s
<1>5. \/ s.mode # "unique" /\ ~Duplicated(s, Who(t)) /\ Set(t, r) /\ Grant(t) /\ Returns(t, "ok")
      \/ UNCHANGED <<sw, code, stubs>> /\ \E x \in {"conflict", "dup", "fault"} : Returns(t, x)
  BY Zenon DEF HookQueueMore
<1> QED
  BY <1>3, <1>4, <1>5

LEMMA RefusedIs ==
  ASSUME NEW t, Ready(t), Keep(t), op[t].act = "hook", Answers(t), UNCHANGED <<mapped, op, residue, stubs>>,
         NEW r, Set(t, r), Good(This(t), r), Stays(This(t), r)
  PROVE  HookRefused(t)
BY DEF HookRefused, Good

LEMMA InterceptIs ==
  ASSUME NEW t, Ready(t), Intercept(t)
  PROVE  HookTakes(t) \/ HookRefused(t) \/ HookFails(t)
<1> DEFINE s == This(t)
           c == Given(t)
           p == Who(t)
           g == [s EXCEPT !.glue = TRUE, !.start = GLUE]
           e == Enabled(g, p)
           d == [s EXCEPT !.glue = TRUE]
<1>1. s \in Switch /\ Whole(s) /\ c \in AnyStub /\ c.who = p /\ c.kind = KindOf(t)
  BY ReadyIs
<1>2. op[t].act = "hook" /\ KindOf(t) = "intercept" /\ p \in Icept /\ UNCHANGED <<mapped, op, residue>>
  BY ReadyIs DEF Intercept, Doing
<1>3. Good(s, g) /\ Stays(s, g) /\ g.start = GLUE /\ g.icept = s.icept
  <2>1. GLUE # NULL
    BY SwitchAssumption
  <2> HIDE DEF s
  <2> QED
    BY <1>1, <2>1, RestartedIs
<1>4. \/ Keep(t) /\ Set(t, g) /\ p \in s.icept /\ Returns(t, "dup") /\ UNCHANGED stubs
      \/ Keep(t) /\ Set(t, e) /\ p \notin s.icept /\ Returns(t, "ok") /\ Grant(t)
      \/ Keep(t) /\ Set(t, g) /\ Returns(t, "fault") /\ UNCHANGED stubs
      \/ s.start = NULL /\ Retire(t) /\ Same /\ Returns(t, "fault") /\ UNCHANGED stubs
      \/ s.start \notin {NULL, GLUE} /\ Keep(t) /\ Set(t, d) /\ Returns(t, "fault") /\ UNCHANGED stubs
  <2> HIDE DEF s, p
  <2>1. \/ Keep(t) /\ Set(t, IF p \in s.icept THEN g ELSE e)
           /\ IF p \in s.icept THEN Returns(t, "dup") /\ UNCHANGED stubs
              ELSE Returns(t, "ok") /\ Grant(t)
        \/ Keep(t) /\ Set(t, g) /\ Returns(t, "fault") /\ UNCHANGED stubs
        \/ s.start = NULL /\ Retire(t) /\ Same /\ Returns(t, "fault") /\ UNCHANGED stubs
        \/ s.start \notin {NULL, GLUE} /\ Keep(t) /\ Set(t, d) /\ Returns(t, "fault") /\ UNCHANGED stubs
    BY Zenon DEF Intercept, s, p
  <2> HIDE DEF g, e, d
  <2> QED
    BY <2>1
<1>5. \A x : Returns(t, x) /\ x \in Result => Answers(t)
  BY DEF Returns, Answers
<1>6. {"ok", "dup", "fault"} \subseteq Result
  BY DEF Result
<1>7. CASE Keep(t) /\ Set(t, g) /\ UNCHANGED stubs /\ (Returns(t, "dup") \/ Returns(t, "fault"))
  <2> HIDE DEF s, c, g, e, d
  <2>1. Good(This(t), g) /\ Stays(This(t), g)
    BY <1>3 DEF s
  <2> QED
    BY <1>2, <1>5, <1>6, <1>7, <2>1, RefusedIs
<1>8. CASE Keep(t) /\ Set(t, e) /\ p \notin s.icept /\ Returns(t, "ok") /\ Grant(t)
  <2> HIDE DEF s, c, p, g, d
  <2>1. /\ Good(g, e)
        /\ \A st \in AnyStub : In(st, e) <=> In(st, g) \/ (st.kind = "intercept" /\ st.who = p)
    BY <1>2, <1>3, <1>8, EnabledIs DEF Good
  <2> HIDE DEF e
  <2>2. Good(s, e)
    BY <1>3, <2>1 DEF Good
  <2>3. Gains(s, e, c)
    BY <1>1, <1>2, <1>3, <1>8, <2>1 DEF Gains, Stays, Alike, In
  <2>4. Answers(t) /\ stubs' = stubs \cup {c}
    BY <1>5, <1>6, <1>8 DEF Grant, c, Given
  <2> QED
    BY <1>2, <1>8, <2>2, <2>3, <2>4 DEF HookTakes, Good, s, c
<1>9. CASE s.start = NULL /\ Retire(t) /\ Same /\ Returns(t, "fault") /\ UNCHANGED stubs
  BY <1>2, <1>5, <1>6, <1>9 DEF HookFails, Same
<1>10. CASE s.start \notin {NULL, GLUE} /\ Keep(t) /\ Set(t, d) /\ Returns(t, "fault") /\ UNCHANGED stubs
  <2> DEFINE y == [s EXCEPT !.glue = TRUE, !.start = s.start]
  <2>1. s.icept # {} => s.start = GLUE
    BY <1>1 DEF Whole, Started
  <2>2. Good(s, y) /\ Stays(s, y)
    <3> HIDE DEF s
    <3> QED
      BY <1>1, <1>10, <2>1, RestartedIs
  <2>3. d = y
    BY <1>1 DEF Switch
  <2> HIDE DEF s, d, y, g, e
  <2>4. Good(This(t), d) /\ Stays(This(t), d)
    BY <2>2, <2>3 DEF s
  <2> QED
    BY <1>2, <1>5, <1>6, <1>10, <2>4, RefusedIs
<1> HIDE DEF s, c, p, g, e, d
<1> QED
  BY <1>4, <1>7, <1>8, <1>9, <1>10

\* The restoration of a target with its last user, done or failed.
LEMMA InstUnhookIs ==
  ASSUME NEW t, Ready(t), NEW r \in Switch, r.addr = This(t).addr, InstUnhook(t, r),
         op[t].act = "unhook", This(t).start # NULL, UNCHANGED <<mapped, op, stubs>>,
         In(Given(t), This(t)) => \A st \in AnyStub : In(st, This(t)) => Alike(st, Given(t))
  PROVE  UnhookRetires(t)
<1>1. t \in Thread /\ ret \in [Thread -> Result] /\ This(t) \in Switch
  BY DEF Ready, SwitchTypes, This
<1>2. CASE /\ code' = [code EXCEPT ![This(t).addr] = Tail(@)] /\ Returns(t, "ok")
           /\ sw' = [sw EXCEPT ![self[t]] = r]
           /\ residue' = IF code'[KeyOf(t)] = <<>> THEN {st \in residue : st.key # KeyOf(t)}
                         ELSE residue
  <2>1. Answers(t) /\ Finds(t)
    BY <1>1, <1>2 DEF Answers, Finds, Returns, Result
  <2>2. \A st \in residue : st.key # KeyOf(t) => st \in residue'
    BY <1>2
  <2>3. Retire(t)
    BY DEF InstUnhook
  <2>4. \E x \in Switch : sw' = [sw EXCEPT ![self[t]] = x] /\ x.addr = This(t).addr
    BY <1>2
  <2>5. code' = [code EXCEPT ![This(t).addr] = Tail(@)]
    BY <1>2
  <2> QED
    BY <2>1, <2>2, <2>3, <2>4, <2>5 DEF UnhookRetires
<1>3. CASE /\ MayFail("unhook") /\ UNCHANGED code /\ Returns(t, "fault")
           /\ sw' = [sw EXCEPT ![self[t]] = [r EXCEPT !.orig = This(t).orig]]
           /\ residue' = residue \cup {op[t].stub}
  <2> DEFINE x == [r EXCEPT !.orig = This(t).orig]
  <2>1. Answers(t) /\ Finds(t)
    BY <1>1, <1>3 DEF Answers, Finds, Returns, Result
  <2>2. \A st \in residue : st.key # KeyOf(t) => st \in residue'
    BY <1>3
  <2>3. Retire(t)
    BY DEF InstUnhook
  <2>4. x \in Switch /\ x.addr = This(t).addr
    BY <1>1 DEF Switch
  <2>5. "unhook" \in Faults /\ code' = code /\ sw' = [sw EXCEPT ![self[t]] = x]
    BY <1>3 DEF MayFail
  <2> HIDE DEF x
  <2> QED
    BY <2>1, <2>2, <2>3, <2>4, <2>5 DEF UnhookRetires
<1> QED
  BY <1>2, <1>3 DEF InstUnhook

\* An unhook that keeps the switch.
LEMMA KeptIs ==
  ASSUME NEW t, Ready(t), Keep(t), op[t].act = "unhook", UNCHANGED <<mapped, op, stubs>>,
         residue \subseteq residue',
         NEW x \in {"ok", "fault"}, Returns(t, x),
         NEW r, Set(t, r), Good(This(t), r),
         \A st \in AnyStub : In(st, r) => In(st, This(t)),
         In(Given(t), This(t)) =>
           \A st \in AnyStub : /\ In(st, r) /\ Alike(st, Given(t)) => Given(t) \in residue'
                               /\ In(st, This(t)) /\ ~Alike(st, Given(t)) => In(st, r)
  PROVE  UnhookKeeps(t)
<1>1. t \in Thread /\ ret \in [Thread -> Result]
  BY DEF Ready, SwitchTypes
<1>2. Answers(t) /\ Finds(t)
  BY <1>1 DEF Answers, Finds, Returns, Result
<1>3. r \in Switch
  BY DEF Good
<1> QED
  BY <1>2, <1>3 DEF UnhookKeeps

\* An unhook that finds nothing to unhook.
LEMMA NotFoundIs ==
  ASSUME NEW t, Ready(t), Keep(t), op[t].act = "unhook", UNCHANGED <<sw, code, mapped, op, stubs, residue>>,
         NEW x \in Result, Returns(t, x), ~In(Given(t), This(t))
  PROVE  UnhookKeeps(t)
<1>1. Set(t, This(t)) /\ This(t) \in Switch
  BY SameIsSet, ReadyIs
<1>2. Answers(t)
  BY DEF Answers, Returns
<1> QED
  BY <1>1, <1>2 DEF UnhookKeeps

LEMMA UnhookUniqueIs ==
  ASSUME NEW t, Ready(t), UnhookUnique(t)
  PROVE  UnhookKeeps(t) \/ UnhookRetires(t)
<1> DEFINE s == This(t)
           c == Given(t)
           less == [s EXCEPT !.mode = "none", !.proxy = NULL, !.orig[Who(t)] = NULL]
<1>1. s \in Switch /\ Whole(s) /\ c \in AnyStub /\ c.who = Who(t) /\ c.kind = "unique" /\ Who(t) \in Proxy
  BY ReadyIs DEF UnhookUnique, Doing
<1>2. op[t].act = "unhook" /\ UNCHANGED <<mapped, op, stubs>>
  BY DEF UnhookUnique, Doing
<1>3. In(c, s) => s.start # NULL /\ s.mode = "unique"
  BY <1>1, UnstartedIsEmpty DEF In, Nobody
<1>4. CASE (s.start = NULL \/ s.mode # "unique") /\ Keep(t) /\ Same
           /\ Returns(t, IF s.start = NULL THEN "notfound" ELSE "conflict") /\ UNCHANGED residue
  <2> HIDE DEF s, c
  <2>1. ~In(Given(t), This(t))
    BY <1>3, <1>4 DEF s, c
  <2> QED
    BY <1>2, <1>4, <2>1, NotFoundIs DEF Same, Result
<1>5. ASSUME s.start # NULL, s.mode = "unique"
      PROVE  /\ \A st \in AnyStub : In(st, less) <=> In(st, s) /\ st.kind # "unique"
             /\ s.isize # 0 => Good(s, less) /\ less.start = s.start
             /\ s.isize = 0 => Nobody(less)
             /\ less \in Switch /\ less.addr = s.addr
  <2>1. Who(t) \in Node
    BY <1>1 DEF Node
  <2> HIDE DEF s
  <2> QED
    BY <1>1, <1>5, <2>1, UniqueGoneIs, Zenon
<1> HIDE DEF less
<1>6. \A st \in AnyStub : In(c, s) /\ In(st, s) /\ st.kind = "unique" => Alike(st, c)
  BY <1>1 DEF In, Alike
<1>7. CASE s.start # NULL /\ s.mode = "unique" /\ s.isize = 0 /\ InstUnhook(t, less)
  <2>1. In(c, s) => \A st \in AnyStub : In(st, s) => Alike(st, c)
    BY <1>5, <1>6, <1>7 DEF Nobody
  <2> QED
    BY <1>2, <1>5, <1>7, <2>1, InstUnhookIs
<1>8. CASE s.start # NULL /\ s.mode = "unique" /\ s.isize # 0 /\ Keep(t) /\ Set(t, less) /\ Returns(t, "ok")
           /\ UNCHANGED residue
  <2>1. In(c, s) => \A st \in AnyStub : /\ In(st, less) /\ Alike(st, c) => c \in residue'
                                        /\ In(st, s) /\ ~Alike(st, c) => In(st, less)
    BY <1>1, <1>5, <1>6, <1>8 DEF Alike
  <2> QED
    BY <1>2, <1>5, <1>8, <2>1, KeptIs
<1> QED
  BY <1>4, <1>7, <1>8, Zenon DEF UnhookUnique, less, s

LEMMA UnhookQueueIs ==
  ASSUME NEW t, Ready(t), UnhookQueue(t)
  PROVE  UnhookKeeps(t) \/ UnhookRetires(t)
<1> DEFINE s == This(t)
           c == Given(t)
           s1 == Gone1(s, c)
           s2 == Gone2(s, c)
<1>1. s \in Switch /\ Whole(s) /\ c \in AnyStub /\ c.who = Who(t) /\ c.kind = KindOf(t) /\ Queueing(c)
  BY ReadyIs DEF UnhookQueue, Doing, Queueing
<1>2. op[t].act = "unhook" /\ UNCHANGED <<mapped, op, stubs>>
  BY DEF UnhookQueue, Doing
<1>3. In(c, s) => s.start # NULL /\ s.mode = "queue" /\ InQueue(s, c)
  <2>1. In(c, s) => s.start # NULL
    BY <1>1, UnstartedIsEmpty DEF Nobody
  <2>2. In(c, s) => InQueue(s, c)
    BY <1>1 DEF In, InQueue, Queueing
  <2>3. InQueue(s, c) => s.queue # <<>>
    BY <1>1, QueueOrNot DEF InQueue
  <2> QED
    BY <1>1, <2>1, <2>2, <2>3, QueueOrNot
<1>4. \/ /\ s.start = NULL \/ (s.mode = "queue" /\ ~InQueue(s, c))
         /\ Keep(t) /\ Same /\ Returns(t, "notfound") /\ UNCHANGED residue
      \/ /\ s.start # NULL /\ s.mode # "queue"
         /\ Keep(t) /\ Same /\ Returns(t, "conflict") /\ UNCHANGED residue
      \/ /\ s.start # NULL /\ s.mode = "queue" /\ InQueue(s, c)
         /\ s2.queue = <<>> /\ s2.isize = 0 /\ InstUnhook(t, s2)
      \/ /\ s.start # NULL /\ s.mode = "queue" /\ InQueue(s, c)
         /\ s2.queue # <<>> \/ s2.isize # 0
         /\ Keep(t) /\ Set(t, s2) /\ Returns(t, "ok") /\ UNCHANGED residue
      \/ /\ s.start # NULL /\ s.mode = "queue" /\ InQueue(s, c)
         /\ Keep(t) /\ Set(t, s1) /\ Returns(t, "fault") /\ residue' = residue \cup {op[t].stub}
  BY Zenon DEF UnhookQueue, Gone1, Gone2, InQueue, Given, KindOf, Who
<1>5. ASSUME s.start # NULL, InQueue(s, c)
      PROVE  /\ Good(s, s1)
             /\ \A st \in AnyStub : In(st, s1) => In(st, s)
             /\ \A st \in AnyStub : In(st, s) /\ ~Alike(st, c) => In(st, s1)
             /\ s2 \in Switch /\ s2.addr = s.addr /\ Loses(s, s2, c)
             /\ s2.queue # <<>> \/ s2.isize # 0 => Good(s, s2)
             /\ s2.queue = <<>> /\ s2.isize = 0 => Nobody(s2)
  <2> HIDE DEF s, c
  <2> QED
    BY <1>1, <1>5, QueueGoneIs, Zenon
<1> HIDE DEF s1, s2
<1>6. CASE /\ s.start = NULL \/ (s.mode = "queue" /\ ~InQueue(s, c))
           /\ Keep(t) /\ Same /\ Returns(t, "notfound") /\ UNCHANGED residue
  BY <1>2, <1>3, <1>6, NotFoundIs DEF Same, Result
<1>7. CASE /\ s.start # NULL /\ s.mode # "queue"
           /\ Keep(t) /\ Same /\ Returns(t, "conflict") /\ UNCHANGED residue
  BY <1>2, <1>3, <1>7, NotFoundIs DEF Same, Result
<1>8. CASE /\ s.start # NULL /\ s.mode = "queue" /\ InQueue(s, c)
           /\ s2.queue = <<>> /\ s2.isize = 0 /\ InstUnhook(t, s2)
  <2>1. \A st \in AnyStub : In(st, s) => Alike(st, c)
    BY <1>5, <1>8 DEF Nobody, Loses
  <2> QED
    BY <1>2, <1>5, <1>8, <2>1, InstUnhookIs
<1>9. CASE /\ s.start # NULL /\ s.mode = "queue" /\ InQueue(s, c)
           /\ s2.queue # <<>> \/ s2.isize # 0
           /\ Keep(t) /\ Set(t, s2) /\ Returns(t, "ok") /\ UNCHANGED residue
  <2>1. Good(s, s2) /\ \A st \in AnyStub : In(st, s2) <=> In(st, s) /\ ~Alike(st, c)
    BY <1>5, <1>9 DEF Loses
  <2> QED
    BY <1>2, <1>9, <2>1, KeptIs
<1>10. CASE /\ s.start # NULL /\ s.mode = "queue" /\ InQueue(s, c)
            /\ Keep(t) /\ Set(t, s1) /\ Returns(t, "fault") /\ residue' = residue \cup {op[t].stub}
  <2>1. c \in residue' /\ residue \subseteq residue'
    BY <1>10 DEF Given
  <2> QED
    BY <1>2, <1>5, <1>10, <2>1, KeptIs
<1> QED
  BY <1>4, <1>6, <1>7, <1>8, <1>9, <1>10

LEMMA UninterceptIs ==
  ASSUME NEW t, Ready(t), Unintercept(t)
  PROVE  UnhookKeeps(t) \/ UnhookRetires(t)
<1> DEFINE s == This(t)
           c == Given(t)
           less == Disabled(s, Who(t))
           back == [less EXCEPT !.start = s.proxy]
<1>1. s \in Switch /\ Whole(s) /\ c \in AnyStub /\ c.who = Who(t) /\ c.kind = "intercept"
  BY ReadyIs DEF Unintercept, Doing
<1>2. op[t].act = "unhook" /\ UNCHANGED <<mapped, op, stubs>>
  BY DEF Unintercept, Doing
<1>3. In(c, s) => s.start # NULL /\ Who(t) \in s.icept
  BY <1>1, UnstartedIsEmpty DEF In, Nobody
<1>4. \/ /\ s.start = NULL \/ Who(t) \notin s.icept
         /\ Keep(t) /\ Same /\ Returns(t, "notfound") /\ UNCHANGED residue
      \/ /\ s.start # NULL /\ Who(t) \in s.icept
         /\ less.isize = 0 /\ s.proxy = NULL /\ InstUnhook(t, less)
      \/ /\ s.start # NULL /\ Who(t) \in s.icept
         /\ less.isize = 0 /\ s.proxy # NULL /\ Keep(t) /\ Set(t, back) /\ Returns(t, "ok")
         /\ UNCHANGED residue
      \/ /\ s.start # NULL /\ Who(t) \in s.icept
         /\ Keep(t) /\ Set(t, less) /\ residue \subseteq residue'
         /\ \E x \in {"ok", "fault"} : Returns(t, x)
  <2> HIDE DEF s, less, back
  <2>1. residue' = residue \/ residue' = residue \cup {op[t].stub} => residue \subseteq residue'
    OBVIOUS
  <2>2. \/ /\ s.start = NULL \/ Who(t) \notin s.icept
           /\ Keep(t) /\ Same /\ Returns(t, "notfound") /\ UNCHANGED residue
        \/ /\ s.start # NULL /\ Who(t) \in s.icept
           /\ \/ /\ less.isize = 0 /\ s.proxy = NULL
                 /\ InstUnhook(t, less)
              \/ /\ less.isize = 0 /\ s.proxy # NULL
                 /\ Keep(t)
                 /\ \/ /\ Set(t, back)
                       /\ Returns(t, "ok") /\ UNCHANGED residue
                    \/ /\ MayFail("rehook")
                       /\ Set(t, less) /\ Returns(t, "fault")
                       /\ residue' = residue \cup {op[t].stub}
              \/ /\ less.isize # 0
                 /\ Keep(t) /\ Set(t, less) /\ Returns(t, "ok") /\ UNCHANGED residue
    BY Zenon DEF Unintercept, s, less, back
  <2> QED
    BY <2>1, <2>2
<1>5. ASSUME s.start # NULL, Who(t) \in s.icept
      PROVE  /\ Good(s, less) /\ less.start = GLUE /\ (less.isize = 0 <=> less.icept = {})
             /\ less.proxy = s.proxy /\ less.queue = s.queue
             /\ \A st \in AnyStub : In(st, less) <=> In(st, s) /\ ~Alike(st, c)
  <2>1. /\ Good(s, less) /\ less.start = GLUE /\ (less.isize = 0 <=> less.icept = {})
        /\ less.proxy = s.proxy /\ less.queue = s.queue
        /\ \A st \in AnyStub : In(st, less) <=> In(st, s) /\ ~(st.kind = "intercept" /\ st.who = Who(t))
    <3> HIDE DEF s
    <3> QED
      BY <1>1, <1>5, DisabledIs, Zenon
  <2> HIDE DEF less
  <2> QED
    BY <1>1, <2>1 DEF Alike
<1> HIDE DEF less
<1>6. CASE /\ s.start = NULL \/ Who(t) \notin s.icept
           /\ Keep(t) /\ Same /\ Returns(t, "notfound") /\ UNCHANGED residue
  BY <1>2, <1>3, <1>6, NotFoundIs DEF Same, Result
<1>7. CASE /\ s.start # NULL /\ Who(t) \in s.icept
           /\ less.isize = 0 /\ s.proxy = NULL /\ InstUnhook(t, less)
  <2>1. less \in Switch /\ less.addr = s.addr /\ Whole(less) /\ less.queue = <<>> /\ less.proxy = NULL
        /\ less.icept = {} /\ Hubbed(less)
    BY <1>1, <1>5, <1>7, QueueOrNot, NotNode DEF Good, Whole
  <2>2. Nobody(less)
    BY <2>1, EmptyHasNobody
  <2>3. \A st \in AnyStub : In(st, s) => Alike(st, c)
    BY <1>5, <1>7, <2>2 DEF Nobody
  <2> QED
    BY <1>2, <1>7, <2>1, <2>3, InstUnhookIs
<1>8. CASE /\ s.start # NULL /\ Who(t) \in s.icept
           /\ less.isize = 0 /\ s.proxy # NULL /\ Keep(t) /\ Set(t, back) /\ Returns(t, "ok")
           /\ UNCHANGED residue
  <2> DEFINE y == [less EXCEPT !.glue = less.glue, !.start = s.proxy]
  <2>1. less \in Switch /\ Whole(less) /\ less.glue \in BOOLEAN /\ less.icept = {} /\ less.addr = s.addr
    BY <1>5, <1>8 DEF Good, Switch
  <2>2. Good(less, y) /\ Stays(less, y)
    BY <1>5, <1>8, <2>1, RestartedIs
  <2>3. back = y
    BY <2>1 DEF Switch
  <2> HIDE DEF y, back
  <2>4. Good(s, back) /\ \A st \in AnyStub : In(st, back) <=> In(st, s) /\ ~Alike(st, c)
    BY <1>5, <1>8, <2>1, <2>2, <2>3 DEF Good, Stays
  <2> QED
    BY <1>2, <1>8, <2>4, KeptIs
<1>9. CASE /\ s.start # NULL /\ Who(t) \in s.icept
           /\ Keep(t) /\ Set(t, less) /\ residue \subseteq residue'
           /\ \E x \in {"ok", "fault"} : Returns(t, x)
  <2>1. Good(s, less) /\ \A st \in AnyStub : In(st, less) <=> In(st, s) /\ ~Alike(st, c)
    BY <1>5, <1>9
  <2> QED
    BY <1>2, <1>9, <2>1, KeptIs
<1> HIDE DEF back
<1> QED
  BY <1>4, <1>6, <1>7, <1>8, <1>9

\* What the handler of a hook or an unhook does.
LEMMA HandlerIs ==
  ASSUME NEW t, Ready(t), Handler(t)
  PROVE  \/ HookTakes(t) \/ HookRefused(t) \/ HookFails(t)
         \/ UnhookKeeps(t) \/ UnhookRetires(t) \/ FreeAfterDlclose(t)
BY HookFirstIs, HookUniqueMoreIs, HookQueueMoreIs, InterceptIs, UnhookUniqueIs, UnhookQueueIs, UninterceptIs
DEF Handler

-----------------------------------------------------------------------------
(* A handler and the invariant.                                            *)

LEMMA AddrType ==
  ASSUME SwitchTypes, AddrInv, NEW o \in born, Live(o)
  PROVE  sw[o].addr \in Key
BY DEF AddrInv

\* Where a thread is when its hook or unhook handler runs.
Working(t) ==
  /\ t \in Thread /\ pc[t] = "body" /\ ~Destroyed(self[t]) /\ call[t].kind # "dlclose"
  /\ Live(self[t]) /\ self[t] \in born /\ self[t] \in Obj /\ held[t] = {self[t]}
  /\ This(t).addr = KeyOf(t) /\ KeyOf(t) \in Key /\ Given(t) \in Stub /\ Proper(Given(t))

LEMMA IsWorking ==
  ASSUME TypeOK, RefInv, SwitchInv, NEW t \in Thread, pc[t] = "body", ~Destroyed(self[t]), op[t] # NoOp
  PROVE  Working(t)
<1>1. OpOf(t) /\ AddrInv
  BY DEF SwitchInv, OpInv
<1>2. call[t].kind # "dlclose" /\ op[t].stub \in Stub /\ Proper(op[t].stub) /\ call[t].keys = {KeyOf(t)}
  BY <1>1 DEF OpOf
<1>3. Live(self[t]) /\ self[t] \in held[t] /\ self[t] \in born /\ self[t] \in Obj
  BY BodyLive
<1>4. held[t] = {self[t]}
  BY <1>2, <1>3 DEF RefInv, PlaceInv, Place
<1>5. sw[self[t]].addr \in call[t].keys
  BY <1>1, <1>3 DEF AddrInv
<1>6. KeyOf(t) \in Key
  BY <1>2 DEF KeyOf, Stub
<1> QED
  BY <1>2, <1>3, <1>4, <1>5, <1>6 DEF Working, This, Given

LEMMA HandlerReady ==
  ASSUME TypeOK, RefInv, SwitchInv, NEW t \in Thread, Handler(t), ~FreeAfterDlclose(t)
  PROVE  Ready(t) /\ Working(t)
<1>1. pc[t] = "body" /\ ~Destroyed(self[t]) /\ op[t].act \in {"hook", "unhook"}
  BY DEF Handler, HookFirst, HookUniqueMore, HookQueueMore, UnhookUnique, UnhookQueue, Intercept,
         Unintercept, Doing
<1>2. op[t] # NoOp
  BY <1>1 DEF NoOp
<1>3. Working(t)
  BY <1>1, <1>2, IsWorking
<1>4. SwitchTypes /\ WholeInv /\ FreshInv
  BY DEF SwitchInv
<1>5. Whole(This(t))
  BY <1>3, <1>4 DEF Working, WholeInv, This
<1>6. op[t].act = "hook" /\ KindOf(t) = "unique" /\ This(t).start = NULL => This(t).mode = "unique"
  BY <1>1, <1>3, <1>4 DEF Working, FreshInv, Hooking, This
<1> QED
  BY <1>3, <1>4, <1>5, <1>6 DEF Ready, Working

\* Two live switches are not at the same address.
LEMMA OthersElsewhere ==
  ASSUME AddrInv, NEW o \in born, NEW p \in born, Live(o), Live(p), o # p
  PROVE  sw[o].addr # sw[p].addr
BY DEF AddrInv

LEMMA KeepLive ==
  ASSUME TypeOK, NEW t \in Thread, Keep(t)
  PROVE  /\ \A o : Live(o)' <=> Live(o)
         /\ UNCHANGED <<tree, born, freed, call, self, held, again>>
         /\ pc'[t] = "unlock" /\ \A u \in Thread \ {t} : pc'[u] = pc[u]
<1>1. /\ UNCHANGED <<tree, born, freed, call, self, held, again, destroyTs>>
      /\ pc'[t] = "unlock" /\ pc[t] = "body" /\ \A u \in Thread \ {t} : pc'[u] = pc[u]
  BY DEF Keep, TypeOK
<1> QED
  BY <1>1 DEF Live, Destroyed

LEMMA RetireLive ==
  ASSUME TypeOK, NEW t \in Thread, Retire(t)
  PROVE  /\ \A o : Live(o)' <=> Live(o) /\ o # self[t]
         /\ UNCHANGED <<tree, born, freed, call, self, held, again>>
         /\ pc'[t] \in {"untree", "stamp"} /\ \A u \in Thread \ {t} : pc'[u] = pc[u]
<1>1. /\ UNCHANGED <<tree, born, freed, call, self, held, again, destroyTs>>
      /\ pc'[t] \in {"untree", "stamp"} /\ pc[t] = "body" /\ \A u \in Thread \ {t} : pc'[u] = pc[u]
  BY DEF Retire, TypeOK
<1> QED
  BY <1>1 DEF Live, Destroyed

\* What the call was asked and the threads' results, after a handler.
LEMMA HandlerOp ==
  ASSUME TypeOK, SwitchTypes, OpInv, NEW t \in Thread, Keep(t) \/ Retire(t), UNCHANGED <<mapped, op>>,
         ret' = ret \/ Answers(t)
  PROVE  OpInv' /\ ret' \in [Thread -> Result]
<1>1. /\ UNCHANGED <<call, again>> /\ pc'[t] \in {"unlock", "untree", "stamp"} /\ pc[t] = "body"
      /\ \A u \in Thread \ {t} : pc'[u] = pc[u]
  BY KeepLive, RetireLive DEF Keep, Retire
<1>2. ret' \in [Thread -> Result] /\ \A u \in Thread \ {t} : ret'[u] = ret[u]
  BY DEF SwitchTypes, Answers
<1>3. ASSUME NEW u \in Thread PROVE OpOf(u)'
  <2>1. OpOf(u)
    BY DEF OpInv
  <2> QED
    BY <1>1, <1>2, <2>1 DEF OpOf, Early, KeyOf
<1> QED
  BY <1>2, <1>3 DEF OpInv

\* The target follows the switch's start address.
LEMMA SetIs ==
  ASSUME SwitchTypes, NEW t, t \in Thread, self[t] \in Obj, This(t).addr \in Key,
         NEW r \in Switch, Set(t, r), r = This(t) \/ Good(This(t), r),
         This(t).start # NULL => code[This(t).addr] # <<>>
  PROVE  /\ sw' \in [Obj -> Switch] /\ code' \in [Key -> Seq(Patch)]
         /\ sw'[self[t]] = r /\ \A o \in Obj : o # self[t] => sw'[o] = sw[o]
         /\ \A k \in Key : k # This(t).addr => code'[k] = code[k]
         /\ r.start = This(t).start => code'[This(t).addr] = code[This(t).addr]
         /\ r.start # This(t).start =>
              /\ code'[This(t).addr] # <<>> /\ Head(code'[This(t).addr]) = [sw |-> self[t], to |-> r.start]
              /\ This(t).start = NULL => Len(code'[This(t).addr]) = Len(code[This(t).addr]) + 1
              /\ This(t).start # NULL => Len(code'[This(t).addr]) = Len(code[This(t).addr])
<1> DEFINE k == This(t).addr
           p == [sw |-> self[t], to |-> r.start]
           below == IF This(t).start = NULL THEN code[k] ELSE Tail(code[k])
           n == <<p>> \o below
<1>1. /\ sw' = [sw EXCEPT ![self[t]] = r]
      /\ code' = IF r.start = This(t).start THEN code ELSE [code EXCEPT ![k] = n]
  BY Zenon DEF Set
<1>2. /\ sw' \in [Obj -> Switch]
      /\ sw'[self[t]] = r /\ \A o \in Obj : o # self[t] => sw'[o] = sw[o]
  BY <1>1 DEF SwitchTypes
<1>3. code \in [Key -> Seq(Patch)] /\ code[k] \in Seq(Patch) /\ k \in Key
  BY DEF SwitchTypes
<1>4. ASSUME r.start # This(t).start
      PROVE  /\ p \in Patch /\ below \in Seq(Patch)
             /\ This(t).start = NULL => Len(below) = Len(code[k])
             /\ This(t).start # NULL => Len(below) + 1 = Len(code[k])
  <2>1. r.start \in Node \cup {GLUE}
    BY <1>4 DEF Good, Switch
  <2>2. p \in Patch
    BY <2>1 DEF Patch
  <2>3. CASE This(t).start = NULL
    BY <2>2, <2>3, <1>3
  <2>4. CASE This(t).start # NULL
    <3>1. Tail(code[k]) \in Seq(Patch) /\ Len(Tail(code[k])) = Len(code[k]) - 1 /\ Len(code[k]) \in Nat
      BY <2>4, <1>3, HeadTailProperties
    <3> QED
      BY <2>2, <2>4, <3>1, <1>3
  <2> QED
    BY <2>3, <2>4
<1> HIDE DEF p, below, n
<1>5. ASSUME r.start # This(t).start
      PROVE  n \in Seq(Patch) /\ n # <<>> /\ Head(n) = p /\ Len(n) = Len(below) + 1 /\ Len(below) \in Nat
  <2>1. p \in Patch /\ below \in Seq(Patch)
    BY <1>4, <1>5
  <2>2. <<p>> \in Seq(Patch) /\ Len(<<p>>) = 1 /\ <<p>>[1] = p
    BY <2>1
  <2> DEFINE q == <<p>>
  <2> HIDE DEF q
  <2>3. q \in Seq(Patch) /\ Len(q) = 1 /\ q[1] = p
    BY <2>2 DEF q
  <2>4. /\ q \o below \in Seq(Patch) /\ Len(q \o below) = Len(q) + Len(below)
        /\ \A i \in 1 .. Len(q) + Len(below) :
             (q \o below)[i] = IF i <= Len(q) THEN q[i] ELSE below[i - Len(q)]
    BY <2>1, <2>3, ConcatProperties
  <2>5. n = q \o below
    BY DEF n, q
  <2> DEFINE m == q \o below
  <2> HIDE DEF m
  <2>6. Len(below) \in Nat
    BY <2>1, LenProperties
  <2>7. m \in Seq(Patch) /\ Len(m) = 1 + Len(below) /\ m[1] = p
    BY <2>3, <2>4, <2>6 DEF m
  <2>8. m # <<>> /\ Head(m) = p
    BY <2>6, <2>7, EmptySeq
  <2> QED
    BY <2>5, <2>6, <2>7, <2>8 DEF m
<1> HIDE DEF k
<1>6. code' \in [Key -> Seq(Patch)] /\ \A j \in Key : j # k => code'[j] = code[j]
  BY <1>1, <1>3, <1>5
<1>7. r.start = This(t).start => code'[k] = code[k]
  BY <1>1
<1>8. r.start # This(t).start => code'[k] = n
  BY <1>1, <1>3
<1>9. r.start # This(t).start =>
        /\ code'[k] # <<>> /\ Head(code'[k]) = p
        /\ This(t).start = NULL => Len(code'[k]) = Len(code[k]) + 1
        /\ This(t).start # NULL => Len(code'[k]) = Len(code[k])
  BY <1>4, <1>5, <1>8
<1> QED
  BY <1>2, <1>6, <1>7, <1>9 DEF k, p

\* What a handler that keeps its switch leaves of the invariant's parts on live switches.
LEMMA KeptStep ==
  ASSUME TypeOK, RefInv, SwitchInv, NEW t, Working(t), Keep(t), UNCHANGED <<mapped, op>>,
         NEW r \in Switch, Set(t, r), r = This(t) \/ Good(This(t), r),
         r.start = NULL => op[t].act = "unhook"
  PROVE  /\ sw' \in [Obj -> Switch] /\ code' \in [Key -> Seq(Patch)]
         /\ sw'[self[t]] = r /\ \A o \in Obj : o # self[t] => sw'[o] = sw[o]
         /\ AddrInv' /\ WholeInv' /\ FreshInv' /\ TopInv' /\ PatchInv'
<1> DEFINE x == self[t]
           k == This(t).addr
<1>1. SwitchTypes /\ AddrInv /\ WholeInv /\ FreshInv /\ TopInv /\ PatchInv
  BY DEF SwitchInv
<1>2. t \in Thread /\ Live(x) /\ x \in born /\ x \in Obj /\ held[t] = {x} /\ k \in Key /\ This(t) = sw[x]
  BY DEF Working, This
<1>3. This(t).start # NULL => code[k] # <<>> /\ Head(code[k]) = [sw |-> x, to |-> This(t).start]
  BY <1>1, <1>2 DEF TopInv
<1>4. /\ sw' \in [Obj -> Switch] /\ code' \in [Key -> Seq(Patch)]
      /\ sw'[x] = r /\ \A o \in Obj : o # x => sw'[o] = sw[o]
      /\ \A j \in Key : j # k => code'[j] = code[j]
      /\ r.start = This(t).start => code'[k] = code[k]
      /\ r.start # This(t).start =>
           /\ code'[k] # <<>> /\ Head(code'[k]) = [sw |-> x, to |-> r.start]
           /\ This(t).start = NULL => Len(code'[k]) = Len(code[k]) + 1
           /\ This(t).start # NULL => Len(code'[k]) = Len(code[k])
  BY <1>1, <1>2, <1>3, SetIs
<1>5. /\ \A o : Live(o)' <=> Live(o)
      /\ UNCHANGED <<tree, born, freed, call, self, held, again>>
      /\ pc'[t] = "unlock" /\ \A u \in Thread \ {t} : pc'[u] = pc[u]
  BY <1>2, KeepLive
<1>6. r.addr = k /\ (r = This(t) \/ (Whole(r) /\ r.start # NULL))
  BY DEF Good
<1>7. \A o \in Obj : sw'[o].addr = sw[o].addr
  BY <1>2, <1>4, <1>6
<1>8. (\A o : Live(o) => o \in Obj) /\ (\A j \in Key : tree[j] # NoObj => tree[j] \in Obj)
      /\ (\A u \in Thread : \A o \in held[u] : o \in Obj)
  BY DEF TypeOK, Live
<1> HIDE DEF x, k
<1>9. AddrInv'
  BY <1>1, <1>5, <1>7, <1>8 DEF AddrInv
<1>10. WholeInv'
  BY <1>1, <1>2, <1>4, <1>5, <1>6, <1>8 DEF WholeInv
<1>11. FreshInv'
  <2>1. ASSUME NEW o \in born, Live(o), sw'[o].start = NULL
        PROVE  \E u \in Thread : Hooking(u)' /\ o \in held[u]
    <3>1. PICK u \in Thread : Hooking(u) /\ o \in held[u]
      BY <1>1, <1>4, <1>6, <1>8, <2>1, <1>2 DEF FreshInv
    <3>2. u # t
      <4>1. CASE o = x
        BY <1>4, <2>1, <3>1, <4>1 DEF Hooking
      <4>2. CASE o # x
        BY <1>2, <3>1, <4>2
      <4> QED
        BY <4>1, <4>2
    <3>3. Hooking(u)'
      BY <1>5, <3>1, <3>2 DEF Hooking
    <3> QED
      BY <3>1, <3>3
  <2>2. ASSUME NEW u \in Thread, Hooking(u)', KindOf(u) = "unique", NEW o \in held[u], Live(o), sw'[o].start = NULL
        PROVE  sw'[o].mode = "unique"
    <3>1. u # t
      BY <1>5, <2>2 DEF Hooking
    <3>2. Hooking(u)
      BY <1>5, <2>2, <3>1 DEF Hooking
    <3>3. sw'[o] = sw[o]
      BY <1>2, <1>4, <1>6, <1>8, <2>2
    <3> QED
      BY <1>1, <2>2, <3>2, <3>3 DEF FreshInv
  <2>3. \A u \in Thread : KindOf(u)' = KindOf(u)
    BY DEF KindOf
  <2> QED
    BY <1>5, <2>1, <2>2, <2>3 DEF FreshInv
<1>12. TopInv'
  <2>1. ASSUME NEW o \in born, Live(o), sw'[o].start # NULL
        PROVE  code'[sw'[o].addr] # <<>> /\ Head(code'[sw'[o].addr]) = [sw |-> o, to |-> sw'[o].start]
    <3>1. CASE o = x
      <4>1. sw'[o] = r /\ sw'[o].addr = k
        BY <1>4, <1>6, <3>1
      <4> QED
        BY <1>3, <1>4, <2>1, <3>1, <4>1
    <3>2. CASE o # x
      <4>1. sw'[o] = sw[o] /\ sw[o].addr \in Key
        BY <1>1, <1>4, <1>8, <2>1, <3>2, AddrType
      <4>2. sw[o].addr # k
        BY <1>1, <1>2, <2>1, <3>2, OthersElsewhere DEF k
      <4> QED
        BY <1>1, <1>4, <2>1, <4>1, <4>2 DEF TopInv
    <3> QED
      BY <3>1, <3>2
  <2> QED
    BY <1>5, <2>1 DEF TopInv
<1>13. PatchInv'
  <2>1. ASSUME "unhook" \notin Faults, NEW j \in Key, code'[j] # <<>>
        PROVE  /\ Len(code'[j]) = 1
               /\ \E o \in born : Live(o) /\ sw'[o].addr = j /\ Head(code'[j]) = [sw |-> o, to |-> sw'[o].start]
    <3>1. CASE code[j] # <<>>
      <4>1. Len(code[j]) = 1
        BY <1>1, <2>1, <3>1 DEF PatchInv
      <4>2. PICK o \in born : Live(o) /\ sw[o].addr = j /\ Head(code[j]) = [sw |-> o, to |-> sw[o].start]
        BY <1>1, <2>1, <3>1 DEF PatchInv
      <4>3. CASE o # x
        <5>1. sw'[o] = sw[o]
          BY <1>4, <1>8, <4>2, <4>3
        <5>2. j # k
          BY <1>1, <1>2, <4>2, <4>3, OthersElsewhere DEF k
        <5>3. code'[j] = code[j]
          BY <1>4, <5>2
        <5> QED
          BY <4>1, <4>2, <5>1, <5>3
      <4>4. CASE o = x
        <5>1. j = k /\ sw'[o].addr = j
          BY <1>2, <1>4, <1>6, <4>2, <4>4 DEF k
        <5>2. sw[o].start # NULL
          <6>1. Head(code[j]) \in Patch
            BY <1>1, <3>1, HeadTailProperties DEF SwitchTypes
          <6>2. Head(code[j]).to = sw[o].start
            BY <4>2
          <6> QED
            BY <6>1, <6>2, NotNode, SwitchAssumption DEF Patch
        <5>3. Len(code'[j]) = 1
          BY <1>2, <1>4, <4>1, <4>4, <5>1, <5>2
        <5>4. Head(code'[j]) = [sw |-> o, to |-> sw'[o].start]
          BY <1>2, <1>4, <4>2, <4>4, <5>1
        <5> QED
          BY <4>2, <5>1, <5>3, <5>4
      <4> QED
        BY <4>3, <4>4
    <3>2. CASE code[j] = <<>>
      <4>1. j = k /\ r.start # This(t).start
        BY <1>4, <2>1, <3>2
      <4>2. This(t).start = NULL
        BY <1>3, <3>2, <4>1
      <4>3. Len(code'[j]) = 1
        <5>1. Len(code[j]) = 0
          BY <3>2
        <5> QED
          BY <1>4, <4>1, <4>2, <5>1
      <4>4. Head(code'[j]) = [sw |-> x, to |-> sw'[x].start] /\ sw'[x].addr = j
        BY <1>4, <1>6, <4>1
      <4> QED
        BY <1>2, <4>3, <4>4
    <3> QED
      BY <3>1, <3>2
  <2> QED
    BY <1>5, <2>1 DEF PatchInv
<1> QED
  BY <1>4, <1>9, <1>10, <1>11, <1>12, <1>13 DEF x

\* What a handler that retires its switch leaves of them.
LEMMA RetiredStep ==
  ASSUME TypeOK, RefInv, SwitchInv, NEW t \in Thread, Retire(t), UNCHANGED <<mapped, op>>,
         op[t].act = "hook" => held[t] = {self[t]},
         \A o \in Obj : o # self[t] => sw'[o] = sw[o],
         sw'[self[t]].addr = sw[self[t]].addr,
         \A o \in born : Live(o) /\ o # self[t] /\ sw[o].start # NULL =>
                         code'[sw[o].addr] = code[sw[o].addr],
         "unhook" \notin Faults =>
           \A k \in Key : \/ code'[k] = <<>>
                          \/ code'[k] = code[k] /\ Head(code[k]).sw # self[t]
  PROVE  AddrInv' /\ WholeInv' /\ FreshInv' /\ TopInv' /\ PatchInv'
<1> DEFINE x == self[t]
<1>1. SwitchTypes /\ AddrInv /\ WholeInv /\ FreshInv /\ TopInv /\ PatchInv
  BY DEF SwitchInv
<1>2. /\ \A o : Live(o)' <=> Live(o) /\ o # x
      /\ UNCHANGED <<tree, born, freed, call, self, held, again>>
      /\ pc'[t] \in {"untree", "stamp"} /\ \A u \in Thread \ {t} : pc'[u] = pc[u]
  BY RetireLive
<1>3. (\A o : Live(o) => o \in Obj) /\ (\A j \in Key : tree[j] # NoObj => tree[j] \in Obj)
      /\ (\A u \in Thread : \A o \in held[u] : o \in Obj)
  BY DEF TypeOK, Live
<1>4. \A o \in Obj : sw'[o].addr = sw[o].addr
  OBVIOUS
<1> HIDE DEF x
<1>5. AddrInv'
  BY <1>1, <1>2, <1>3, <1>4 DEF AddrInv
<1>6. WholeInv'
  BY <1>1, <1>2, <1>3 DEF WholeInv, x
<1>7. FreshInv'
  <2>1. ASSUME NEW o \in born, Live(o), o # x, sw'[o].start = NULL
        PROVE  \E u \in Thread : Hooking(u)' /\ o \in held[u]
    <3>1. PICK u \in Thread : Hooking(u) /\ o \in held[u]
      BY <1>1, <1>3, <2>1 DEF FreshInv, x
    <3>2. u # t
      BY <2>1, <3>1 DEF Hooking, x
    <3>3. Hooking(u)'
      BY <1>2, <3>1, <3>2 DEF Hooking
    <3> QED
      BY <3>1, <3>3
  <2>2. ASSUME NEW u \in Thread, Hooking(u)', KindOf(u) = "unique", NEW o \in held[u], Live(o), o # x,
               sw'[o].start = NULL
        PROVE  sw'[o].mode = "unique"
    <3>1. Hooking(u)
      BY <1>2, <2>2 DEF Hooking
    <3>2. sw'[o] = sw[o]
      BY <1>3, <2>2 DEF x
    <3> QED
      BY <1>1, <2>2, <3>1, <3>2 DEF FreshInv
  <2>3. \A u \in Thread : KindOf(u)' = KindOf(u)
    BY DEF KindOf
  <2> QED
    BY <1>2, <2>1, <2>2, <2>3 DEF FreshInv
<1>8. TopInv'
  BY <1>1, <1>2, <1>3 DEF TopInv, x
<1>9. PatchInv'
  <2>1. ASSUME "unhook" \notin Faults, NEW j \in Key, code'[j] # <<>>
        PROVE  /\ Len(code'[j]) = 1
               /\ \E o \in born : /\ Live(o) /\ o # x
                                  /\ sw'[o].addr = j /\ Head(code'[j]) = [sw |-> o, to |-> sw'[o].start]
    <3>1. code'[j] = code[j] /\ Head(code[j]).sw # x
      BY <2>1 DEF x
    <3>2. Len(code[j]) = 1
      BY <1>1, <2>1, <3>1 DEF PatchInv
    <3>3. PICK o \in born : Live(o) /\ sw[o].addr = j /\ Head(code[j]) = [sw |-> o, to |-> sw[o].start]
      BY <1>1, <2>1, <3>1 DEF PatchInv
    <3>4. o # x /\ o \in Obj
      BY <1>3, <3>1, <3>3
    <3>5. sw'[o] = sw[o]
      BY <3>4 DEF x
    <3> QED
      BY <3>1, <3>2, <3>3, <3>4, <3>5
  <2> QED
    BY <1>2, <2>1 DEF PatchInv
<1> QED
  BY <1>5, <1>6, <1>7, <1>8, <1>9

\* The six handlers' effects, on those parts ...
LEMMA HandlerLives ==
  ASSUME TypeOK, RefInv, SwitchInv, NEW t \in Thread, Handler(t)
  PROVE  SwitchTypes' /\ OpInv' /\ AddrInv' /\ WholeInv' /\ FreshInv' /\ TopInv' /\ PatchInv'
<1>1. SwitchTypes /\ OpInv /\ AddrInv /\ WholeInv /\ FreshInv /\ TopInv /\ PatchInv
  BY DEF SwitchInv
<1>2. ASSUME ~FreeAfterDlclose(t), HookTakes(t) \/ HookRefused(t) \/ UnhookKeeps(t)
      PROVE  SwitchTypes' /\ OpInv' /\ AddrInv' /\ WholeInv' /\ FreshInv' /\ TopInv' /\ PatchInv'
  <2>1. Working(t) /\ Ready(t)
    BY <1>2, HandlerReady
  <2>2. PICK r \in Switch : /\ Set(t, r) /\ (r = This(t) \/ Good(This(t), r))
                            /\ r.start = NULL => op[t].act = "unhook"
    BY <1>2 DEF HookTakes, HookRefused, UnhookKeeps, Good
  <2>3. Keep(t) /\ Answers(t) /\ UNCHANGED <<mapped, op>> /\ (stubs' = stubs \/ stubs' = stubs \cup {Given(t)})
    BY <1>2 DEF HookTakes, HookRefused, UnhookKeeps
  <2>4. /\ sw' \in [Obj -> Switch] /\ code' \in [Key -> Seq(Patch)]
        /\ AddrInv' /\ WholeInv' /\ FreshInv' /\ TopInv' /\ PatchInv'
    BY <2>1, <2>2, <2>3, KeptStep
  <2>5. OpInv' /\ ret' \in [Thread -> Result]
    BY <1>1, <2>3, HandlerOp
  <2>6. stubs' \subseteq Stub
    BY <1>1, <2>1, <2>3 DEF Working, SwitchTypes
  <2> QED
    BY <1>1, <2>3, <2>4, <2>5, <2>6 DEF SwitchTypes
<1> DEFINE x == self[t]
<1>3. ASSUME Retire(t) PROVE Live(x) /\ x \in born /\ x \in Obj
  BY <1>3, BodyLive DEF Retire
<1>4. ASSUME NEW k \in Key, "unhook" \notin Faults, code[k] # <<>>
      PROVE  /\ Len(code[k]) = 1 /\ Head(code[k]).sw \in born /\ Live(Head(code[k]).sw)
             /\ sw[Head(code[k]).sw].addr = k /\ sw[Head(code[k]).sw].start # NULL
  <2>1. PICK o \in born : Live(o) /\ sw[o].addr = k /\ Head(code[k]) = [sw |-> o, to |-> sw[o].start]
    BY <1>1, <1>4 DEF PatchInv
  <2>2. Len(code[k]) = 1
    BY <1>1, <1>4 DEF PatchInv
  <2>3. Head(code[k]) \in Patch
    BY <1>1, <1>4, HeadTailProperties DEF SwitchTypes
  <2>4. Head(code[k]).to = sw[o].start /\ Head(code[k]).sw = o
    BY <2>1
  <2> QED
    BY <2>1, <2>2, <2>3, <2>4, NotNode, SwitchAssumption DEF Patch
<1>5. CASE FreeAfterDlclose(t)
  <2>1. Retire(t) /\ UNCHANGED <<sw, mapped, op, ret, stubs>>
    BY <1>5 DEF FreeAfterDlclose
  <2>2. pc[t] # "idle" /\ call[t].kind = "dlclose"
    BY <1>5 DEF FreeAfterDlclose
  <2>3. op[t] = NoOp /\ x \in held[t]
    BY <1>1, <1>5, <2>2, BodyLive DEF OpInv, OpOf, FreeAfterDlclose, Retire
  <2>4. op[t].act # "hook"
    BY <2>3 DEF NoOp
  <2>5. \A k \in Key : \/ code'[k] = code[k] /\ (k \notin call[t].keys \/ code[k] = <<>> \/ Top(k).sw # x)
                       \/ code'[k] = <<>> /\ code[k] # <<>> /\ Top(k).sw = x
    BY <1>5 DEF FreeAfterDlclose
  <2>6. code' \in [Key -> Seq(Patch)]
    <3>1. \A k \in Key : code'[k] \in Seq(Patch)
      BY <1>1, <2>5, EmptySeq DEF SwitchTypes
    <3>2. code' = [k \in Key |-> code'[k]]
      BY <1>5 DEF FreeAfterDlclose
    <3> QED
      BY <3>1, <3>2
  <2>7. ASSUME NEW o \in born, Live(o), o # x, sw[o].start # NULL PROVE code'[sw[o].addr] = code[sw[o].addr]
    <3>1. sw[o].addr \in Key
      BY <1>1, <2>7, AddrType
    <3>2. Head(code[sw[o].addr]) = [sw |-> o, to |-> sw[o].start]
      BY <1>1, <2>7 DEF TopInv
    <3> QED
      BY <2>5, <2>7, <3>1, <3>2 DEF Top
  <2>8. ASSUME NEW k \in Key, "unhook" \notin Faults
        PROVE  code'[k] = <<>> \/ (code'[k] = code[k] /\ Head(code[k]).sw # x)
    <3>1. CASE code[k] = <<>>
      BY <2>5, <3>1
    <3>2. CASE code[k] # <<>> /\ Head(code[k]).sw = x
      <4>1. sw[x].addr = k
        BY <1>4, <2>8, <3>2
      <4>2. k \in call[t].keys
        BY <1>1, <2>3, <4>1 DEF AddrInv
      <4> QED
        BY <2>5, <3>2, <4>2 DEF Top
    <3>3. CASE code[k] # <<>> /\ Head(code[k]).sw # x
      BY <2>5, <3>3 DEF Top
    <3> QED
      BY <3>1, <3>2, <3>3
  <2>9. AddrInv' /\ WholeInv' /\ FreshInv' /\ TopInv' /\ PatchInv'
    BY <2>1, <2>4, <2>7, <2>8, RetiredStep
  <2>10. OpInv'
    BY <1>1, <2>1, HandlerOp
  <2> QED
    BY <1>1, <2>1, <2>6, <2>9, <2>10 DEF SwitchTypes
<1>6. ASSUME ~FreeAfterDlclose(t), HookFails(t)
      PROVE  SwitchTypes' /\ OpInv' /\ AddrInv' /\ WholeInv' /\ FreshInv' /\ TopInv' /\ PatchInv'
  <2>1. Working(t)
    BY <1>6, HandlerReady
  <2>2. Retire(t) /\ Answers(t) /\ sw[x].start = NULL /\ UNCHANGED <<mapped, op, stubs, sw, code>>
    BY <1>6 DEF HookFails, This
  <2>3. ASSUME NEW k \in Key, "unhook" \notin Faults
        PROVE  code'[k] = <<>> \/ (code'[k] = code[k] /\ Head(code[k]).sw # x)
    BY <1>4, <2>2, <2>3
  <2>4. OpInv' /\ ret' \in [Thread -> Result]
    BY <1>1, <2>2, HandlerOp
  <2>5. held[t] = {x}
    BY <2>1 DEF Working
  <2>6. AddrInv' /\ WholeInv' /\ FreshInv' /\ TopInv' /\ PatchInv'
    BY <2>2, <2>3, <2>5, RetiredStep
  <2> QED
    BY <1>1, <2>2, <2>4, <2>6 DEF SwitchTypes
<1>7. ASSUME ~FreeAfterDlclose(t), UnhookRetires(t)
      PROVE  SwitchTypes' /\ OpInv' /\ AddrInv' /\ WholeInv' /\ FreshInv' /\ TopInv' /\ PatchInv'
  <2>1. Working(t)
    BY <1>7, HandlerReady
  <2>2. Retire(t) /\ Answers(t) /\ sw[x].start # NULL /\ op[t].act = "unhook" /\ UNCHANGED <<mapped, op, stubs>>
    BY <1>7 DEF UnhookRetires, This
  <2>3. PICK r \in Switch : sw' = [sw EXCEPT ![x] = r] /\ r.addr = sw[x].addr
    BY <1>7 DEF UnhookRetires, This
  <2>4. x \in Obj /\ sw[x].addr \in Key /\ Live(x) /\ x \in born /\ held[t] = {x}
    BY <2>1 DEF Working, This
  <2>5. (code' = code /\ "unhook" \in Faults) \/ code' = [code EXCEPT ![sw[x].addr] = Tail(@)]
    BY <1>7 DEF UnhookRetires, This
  <2>6. code[sw[x].addr] # <<>> /\ Head(code[sw[x].addr]) = [sw |-> x, to |-> sw[x].start]
    BY <1>1, <2>2, <2>4 DEF TopInv
  <2> HIDE DEF x
  <2>7. /\ sw' \in [Obj -> Switch] /\ \A o \in Obj : o # x => sw'[o] = sw[o]
        /\ sw'[x].addr = sw[x].addr
    BY <1>1, <2>3, <2>4 DEF SwitchTypes
  <2>8. Tail(code[sw[x].addr]) \in Seq(Patch)
    BY <1>1, <2>4, <2>6, HeadTailProperties DEF SwitchTypes
  <2>9. /\ code' \in [Key -> Seq(Patch)] /\ \A k \in Key : k # sw[x].addr => code'[k] = code[k]
        /\ "unhook" \notin Faults => code'[sw[x].addr] = Tail(code[sw[x].addr])
    BY <1>1, <2>4, <2>5, <2>8 DEF SwitchTypes
  <2>10. ASSUME NEW o \in born, Live(o), o # x, sw[o].start # NULL PROVE code'[sw[o].addr] = code[sw[o].addr]
    BY <1>1, <2>4, <2>9, <2>10, AddrType, OthersElsewhere
  <2>11. ASSUME NEW k \in Key, "unhook" \notin Faults
        PROVE  code'[k] = <<>> \/ (code'[k] = code[k] /\ Head(code[k]).sw # x)
    <3>1. CASE k = sw[x].addr
      <4>1. Len(code[k]) = 1 /\ code[k] \in Seq(Patch) /\ code[k] # <<>>
        BY <1>1, <1>4, <2>6, <2>11, <3>1 DEF SwitchTypes
      <4>2. Tail(code[k]) \in Seq(Patch) /\ Len(Tail(code[k])) = 0
        BY <4>1, HeadTailProperties
      <4> QED
        BY <2>9, <2>11, <3>1, <4>2, EmptySeq
    <3>2. CASE k # sw[x].addr
      <4>1. code[k] # <<>> => Head(code[k]).sw # x
        BY <1>4, <2>11, <3>2
      <4> QED
        BY <2>9, <3>2, <4>1
    <3> QED
      BY <3>1, <3>2
  <2>12. OpInv' /\ ret' \in [Thread -> Result]
    BY <1>1, <2>2, HandlerOp
  <2>13. AddrInv' /\ WholeInv' /\ FreshInv' /\ TopInv' /\ PatchInv'
    BY <2>2, <2>4, <2>7, <2>10, <2>11, RetiredStep DEF x
  <2> QED
    BY <1>1, <2>2, <2>7, <2>9, <2>12, <2>13 DEF SwitchTypes
<1> QED
  BY <1>2, <1>5, <1>6, <1>7, HandlerReady, HandlerIs

-----------------------------------------------------------------------------
(* Handlers and the claims.                                                *)

LEMMA StubIs ==
  ASSUME NEW st \in AnyStub, NEW c \in AnyStub, st.key = c.key, Alike(st, c)
  PROVE  st = c
BY DEF AnyStub, Alike

LEMMA StubIsAny == Stub \subseteq AnyStub
BY SwitchAssumption DEF Stub, AnyStub

\* What is claimed of the target at work is in its switch.
LEMMA ClaimedHere ==
  ASSUME TypeOK, SwitchInv, NEW t, Working(t), NEW st \in Stub, Claims(st), st.key = KeyOf(t), KeyOf(t) \in mapped
  PROVE  In(st, This(t))
<1>1. ClaimInv /\ AddrInv
  BY DEF SwitchInv
<1>2. PICK o \in born : Live(o) /\ sw[o].addr = st.key /\ In(st, sw[o])
  BY <1>1 DEF ClaimInv
<1>3. Live(self[t]) /\ self[t] \in born /\ sw[self[t]].addr = KeyOf(t)
  BY DEF Working, This
<1>4. o = self[t]
  BY <1>1, <1>2, <1>3, OthersElsewhere
<1> QED
  BY <1>2, <1>4 DEF This

LEMMA HandlerPending ==
  ASSUME TypeOK, NEW t \in Thread, Keep(t) \/ Retire(t), UNCHANGED op
  PROVE  /\ \A u \in Thread : Pending(u)' <=> Pending(u) /\ u # t
         /\ \A u \in Thread : KeyOf(u)' = KeyOf(u)
<1>1. pc'[t] \in {"unlock", "untree", "stamp"} /\ \A u \in Thread \ {t} : pc'[u] = pc[u]
  BY KeepLive, RetireLive
<1> QED
  BY <1>1 DEF Pending, Early, KeyOf

\* The results that the other threads will return stay what they were.
LEMMA HandlerFinds ==
  ASSUME TypeOK, SwitchTypes, AnswerInv, NEW t \in Thread, UNCHANGED <<mapped, op>>,
         ret' = ret \/ Answers(t),
         op[t].act = "unhook" /\ KeyOf(t) \in mapped => Finds(t)
  PROVE  AnswerInv'
<1>1. \A u \in Thread \ {t} : ret'[u] = ret[u]
  BY DEF SwitchTypes, Answers
<1>2. \A u \in Thread : KeyOf(u)' = KeyOf(u)
  BY DEF KeyOf
<1> QED
  BY <1>1, <1>2 DEF AnswerInv, Finds

\* A hook takes its stub in: nobody else claims it.
LEMMA TakesClaims ==
  ASSUME TypeOK, RefInv, SwitchInv, NEW t, Working(t), HookTakes(t)
  PROVE  ClaimInv' /\ OwnedInv' /\ AnswerInv'
<1> DEFINE x == self[t]
           c == Given(t)
<1>1. SwitchTypes /\ OpInv /\ AddrInv /\ ClaimInv /\ OwnedInv /\ AnswerInv
  BY DEF SwitchInv
<1>2. /\ Keep(t) /\ op[t].act = "hook" /\ Answers(t)
      /\ stubs' = stubs \cup {c} /\ UNCHANGED <<mapped, op, residue>>
  BY DEF HookTakes
<1>3. t \in Thread /\ Live(x) /\ x \in born /\ x \in Obj /\ held[t] = {x} /\ sw[x].addr = c.key
      /\ c.key = KeyOf(t) /\ c \in Stub /\ c \in AnyStub /\ Proper(c) /\ This(t) = sw[x]
  BY StubIsAny DEF Working, This, Given, KeyOf
<1>4. PICK r \in Switch : Set(t, r) /\ Good(This(t), r) /\ Gains(This(t), r, c)
  BY DEF HookTakes
<1>5. r.addr = sw[x].addr /\ ~In(c, sw[x]) /\ \A st \in AnyStub : In(st, r) <=> In(st, sw[x]) \/ Alike(st, c)
  BY <1>3, <1>4 DEF Good, Gains
<1>6. c.key \in mapped
  BY <1>1, <1>2, <1>3 DEF OpInv, OpOf
<1>7. /\ \A o : Live(o)' <=> Live(o)
      /\ UNCHANGED <<born, held>>
  BY <1>2, <1>3, KeepLive
<1>8. sw' = [sw EXCEPT ![x] = r] /\ sw \in [Obj -> Switch]
  BY <1>1, <1>4 DEF Set, SwitchTypes
<1>9. sw'[x] = r /\ \A o \in Obj : o # x => sw'[o] = sw[o]
  BY <1>3, <1>8
<1>10. \A o : Live(o) => o \in Obj
  BY DEF TypeOK, Live
<1>11. ~Claims(c)
  BY <1>3, <1>5, <1>6, ClaimedHere
<1>12. /\ \A u \in Thread : Pending(u)' <=> Pending(u) /\ u # t
       /\ \A u \in Thread : KeyOf(u)' = KeyOf(u)
       /\ ~Pending(t)
  BY <1>2, <1>3, HandlerPending DEF Pending
<1> HIDE DEF x, c
<1>13. ASSUME NEW st \in AnyStub PROVE Claims(st)' <=> Claims(st) \/ st = c
  BY <1>2, <1>12 DEF Claims
<1>14. ClaimInv'
  <2>1. \A st \in stubs' : st.key \in mapped' /\ Proper(st)'
    BY <1>1, <1>2, <1>3, <1>6 DEF ClaimInv, Proper
  <2>2. ASSUME NEW st \in Stub, Claims(st)', st.key \in mapped
        PROVE  \E o \in born : Live(o) /\ sw'[o].addr = st.key /\ In(st, sw'[o])
    <3>1. CASE st = c
      BY <1>3, <1>5, <1>9, <3>1 DEF Alike
    <3>2. CASE Claims(st)
      <4>1. PICK o \in born : Live(o) /\ sw[o].addr = st.key /\ In(st, sw[o])
        BY <1>1, <2>2, <3>2 DEF ClaimInv
      <4>2. sw'[o].addr = st.key /\ In(st, sw'[o])
        BY <1>5, <1>9, <1>10, <4>1, StubIsAny
      <4> QED
        BY <4>1, <4>2
    <3> QED
      BY <1>13, <2>2, <3>1, <3>2, StubIsAny
  <2>3. ASSUME NEW u \in Thread, Pending(u)'
        PROVE  /\ op[u].stub \notin stubs'
               /\ \A v \in Thread : Pending(v)' /\ op[v].stub = op[u].stub => v = u
               /\ KeyOf(u) \in mapped => \A o \in held[u] : Live(o)
    <3>1. Pending(u) /\ Claims(op[u].stub)
      BY <1>12, <2>3 DEF Claims
    <3> QED
      BY <1>1, <1>2, <1>11, <1>12, <3>1 DEF ClaimInv
  <2> QED
    BY <1>2, <1>7, <1>12, <2>1, <2>2, <2>3 DEF ClaimInv
<1>15. OwnedInv'
  <2>1. ASSUME NEW o \in born, Live(o), sw'[o].addr \in mapped, NEW st \in AnyStub, st.key = sw'[o].addr, In(st, sw'[o])
        PROVE  Claims(st)' \/ st \in residue
    <3>1. CASE o # x
      BY <1>1, <1>9, <1>10, <1>13, <2>1, <3>1 DEF OwnedInv
    <3>2. CASE o = x /\ In(st, sw[x])
      BY <1>1, <1>3, <1>5, <1>9, <1>13, <2>1, <3>2 DEF OwnedInv
    <3>3. CASE o = x /\ Alike(st, c)
      BY <1>3, <1>5, <1>9, <1>13, <2>1, <3>3, StubIs
    <3> QED
      BY <1>5, <1>9, <2>1, <3>1, <3>2, <3>3
  <2> QED
    BY <1>2, <1>7, <2>1 DEF OwnedInv
<1>16. AnswerInv'
  BY <1>1, <1>2, <1>3, HandlerFinds
<1> QED
  BY <1>14, <1>15, <1>16

\* A refused hook changes nothing that is claimed.
LEMMA RefusedClaims ==
  ASSUME TypeOK, RefInv, SwitchInv, NEW t, Working(t), HookRefused(t)
  PROVE  ClaimInv' /\ OwnedInv' /\ AnswerInv'
<1> DEFINE x == self[t]
<1>1. SwitchTypes /\ AddrInv /\ ClaimInv /\ OwnedInv /\ AnswerInv
  BY DEF SwitchInv
<1>2. Keep(t) /\ op[t].act = "hook" /\ Answers(t) /\ UNCHANGED <<mapped, op, residue, stubs>>
  BY DEF HookRefused
<1>3. t \in Thread /\ Live(x) /\ x \in born /\ x \in Obj /\ This(t) = sw[x]
  BY DEF Working, This
<1>4. PICK r \in Switch : Set(t, r) /\ r.addr = sw[x].addr /\ \A st \in AnyStub : In(st, r) <=> In(st, sw[x])
  BY <1>3 DEF HookRefused, Good, Stays
<1>5. /\ \A o : Live(o)' <=> Live(o)
      /\ UNCHANGED <<born, held>>
  BY <1>2, <1>3, KeepLive
<1>6. sw' = [sw EXCEPT ![x] = r] /\ sw \in [Obj -> Switch]
  BY <1>1, <1>4 DEF Set, SwitchTypes
<1>7. \A o \in Obj : /\ sw'[o].addr = sw[o].addr
                     /\ \A st \in AnyStub : In(st, sw'[o]) <=> In(st, sw[o])
  BY <1>3, <1>4, <1>6
<1>8. \A o : Live(o) => o \in Obj
  BY DEF TypeOK, Live
<1>9. /\ \A u \in Thread : Pending(u)' <=> Pending(u) /\ u # t
      /\ \A u \in Thread : KeyOf(u)' = KeyOf(u)
      /\ ~Pending(t)
  BY <1>2, <1>3, HandlerPending DEF Pending
<1> HIDE DEF x
<1>10. ASSUME NEW st \in AnyStub PROVE Claims(st)' <=> Claims(st)
  BY <1>2, <1>9 DEF Claims
<1>11. ClaimInv'
  <2>1. \A st \in stubs' : st.key \in mapped' /\ Proper(st)'
    BY <1>1, <1>2 DEF ClaimInv, Proper
  <2>2. ASSUME NEW st \in Stub, Claims(st)', st.key \in mapped
        PROVE  \E o \in born : Live(o) /\ sw'[o].addr = st.key /\ In(st, sw'[o])
    <3>1. st \in AnyStub /\ Claims(st)
      BY <1>10, <2>2, StubIsAny
    <3> QED
      BY <1>1, <1>7, <1>8, <2>2, <3>1 DEF ClaimInv
  <2>3. ASSUME NEW u \in Thread, Pending(u)'
        PROVE  /\ op[u].stub \notin stubs'
               /\ \A v \in Thread : Pending(v)' /\ op[v].stub = op[u].stub => v = u
               /\ KeyOf(u) \in mapped => \A o \in held[u] : Live(o)
    BY <1>1, <1>2, <1>9, <2>3 DEF ClaimInv
  <2> QED
    BY <1>2, <1>5, <1>9, <2>1, <2>2, <2>3 DEF ClaimInv
<1>12. OwnedInv'
  <2>1. ASSUME NEW o \in born, Live(o), sw'[o].addr \in mapped, NEW st \in AnyStub, st.key = sw'[o].addr, In(st, sw'[o])
        PROVE  Claims(st)' \/ st \in residue
    BY <1>1, <1>7, <1>8, <1>10, <2>1 DEF OwnedInv
  <2> QED
    BY <1>2, <1>5, <2>1 DEF OwnedInv
<1>13. AnswerInv'
  BY <1>1, <1>2, <1>3, HandlerFinds
<1> QED
  BY <1>11, <1>12, <1>13

\* Claims on a target that is at work when its switch is retired: nobody else's.
LEMMA NobodyHolds ==
  ASSUME TypeOK, RefInv, SwitchInv, NEW t, Working(t),
         NEW u \in Thread, Pending(u), u # t, KeyOf(u) \in mapped, self[t] \in held[u]
  PROVE  /\ op[u].stub \in Stub /\ op[u].stub \in AnyStub /\ Claims(op[u].stub)
         /\ op[u].stub.key = KeyOf(t) /\ KeyOf(t) \in mapped
         /\ In(op[u].stub, This(t))
         /\ Pending(t) => op[u].stub # Given(t)
<1>1. OpInv /\ AddrInv /\ ClaimInv
  BY DEF SwitchInv
<1>2. Claims(op[u].stub)
  BY DEF Claims
<1>3. pc[u] # "idle" /\ op[u] # NoOp
  BY DEF Pending, Early, NoOp
<1>4. op[u].stub \in Stub /\ call[u].keys = {KeyOf(u)}
  BY <1>1, <1>3 DEF OpInv, OpOf
<1>5. sw[self[t]].addr = KeyOf(u) /\ sw[self[t]].addr = KeyOf(t)
  BY <1>1, <1>4 DEF AddrInv, Working, This
<1>6. op[u].stub.key = KeyOf(t) /\ KeyOf(t) \in mapped
  BY <1>5 DEF KeyOf
<1>7. In(op[u].stub, This(t))
  BY <1>2, <1>4, <1>6, ClaimedHere
<1>8. Pending(t) => op[u].stub # Given(t)
  BY <1>1 DEF ClaimInv, Given, Working
<1> QED
  BY <1>2, <1>4, <1>6, <1>7, <1>8, StubIsAny

\* A failed hook's switch had nothing in it.
LEMMA FailsClaims ==
  ASSUME TypeOK, RefInv, SwitchInv, NEW t, Working(t), HookFails(t)
  PROVE  ClaimInv' /\ OwnedInv' /\ AnswerInv'
<1> DEFINE x == self[t]
<1>1. SwitchTypes /\ AddrInv /\ WholeInv /\ ClaimInv /\ OwnedInv /\ AnswerInv
  BY DEF SwitchInv
<1>2. /\ Retire(t) /\ op[t].act = "hook" /\ Answers(t) /\ sw[x].start = NULL
      /\ UNCHANGED <<mapped, op, residue, stubs, sw, code>>
  BY DEF HookFails, This
<1>3. t \in Thread /\ Live(x) /\ x \in born /\ x \in Obj /\ This(t) = sw[x]
  BY DEF Working, This
<1>4. \A st \in AnyStub : ~In(st, sw[x])
  <2>1. sw[x] \in Switch /\ Whole(sw[x])
    BY <1>1, <1>3 DEF SwitchTypes, WholeInv
  <2> QED
    BY <1>2, <2>1, UnstartedIsEmpty DEF Nobody
<1>5. /\ \A o : Live(o)' <=> Live(o) /\ o # x
      /\ UNCHANGED <<born, held>>
  BY <1>2, <1>3, RetireLive
<1>6. /\ \A u \in Thread : Pending(u)' <=> Pending(u) /\ u # t
      /\ \A u \in Thread : KeyOf(u)' = KeyOf(u)
      /\ ~Pending(t)
  BY <1>2, <1>3, HandlerPending DEF Pending
<1>7. ASSUME NEW u \in Thread, Pending(u), KeyOf(u) \in mapped PROVE x \notin held[u]
  <2>1. u # t
    BY <1>6, <1>7
  <2> QED
    BY <1>3, <1>4, <1>7, <2>1, NobodyHolds
<1> HIDE DEF x
<1>8. ASSUME NEW st \in AnyStub PROVE Claims(st)' <=> Claims(st)
  BY <1>2, <1>6 DEF Claims
<1>9. ClaimInv'
  <2>1. \A st \in stubs' : st.key \in mapped' /\ Proper(st)'
    BY <1>1, <1>2 DEF ClaimInv, Proper
  <2>2. ASSUME NEW st \in Stub, Claims(st)', st.key \in mapped
        PROVE  \E o \in born : Live(o) /\ o # x /\ sw[o].addr = st.key /\ In(st, sw[o])
    <3>1. st \in AnyStub /\ Claims(st)
      BY <1>8, <2>2, StubIsAny
    <3> QED
      BY <1>1, <1>4, <2>2, <3>1 DEF ClaimInv
  <2>3. ASSUME NEW u \in Thread, Pending(u)'
        PROVE  /\ op[u].stub \notin stubs'
               /\ \A v \in Thread : Pending(v)' /\ op[v].stub = op[u].stub => v = u
               /\ KeyOf(u) \in mapped => \A o \in held[u] : Live(o) /\ o # x
    BY <1>1, <1>2, <1>6, <1>7, <2>3 DEF ClaimInv
  <2> QED
    BY <1>2, <1>5, <1>6, <2>1, <2>2, <2>3 DEF ClaimInv
<1>10. OwnedInv'
  <2>1. ASSUME NEW o \in born, Live(o), sw[o].addr \in mapped, NEW st \in AnyStub, st.key = sw[o].addr, In(st, sw[o])
        PROVE  Claims(st)' \/ st \in residue
    BY <1>1, <1>8, <2>1 DEF OwnedInv
  <2> QED
    BY <1>2, <1>5, <2>1 DEF OwnedInv
<1>11. AnswerInv'
  BY <1>1, <1>2, <1>3, HandlerFinds
<1> QED
  BY <1>9, <1>10, <1>11

\* An unhook's stub is claimed until now, and by nobody else.
LEMMA UnhookClaims ==
  ASSUME TypeOK, RefInv, SwitchInv, NEW t, Working(t), op[t].act = "unhook",
         Keep(t) \/ Retire(t), UNCHANGED <<op, mapped, stubs>>
  PROVE  /\ Pending(t) /\ Claims(Given(t)) /\ Given(t) \in Stub /\ Given(t) \in AnyStub
         /\ Given(t).key = KeyOf(t)
         /\ KeyOf(t) \in mapped => In(Given(t), This(t))
         /\ \A u \in Thread : Pending(u)' <=> Pending(u) /\ u # t
         /\ \A u \in Thread : KeyOf(u)' = KeyOf(u)
         /\ \A st \in AnyStub : Claims(st)' <=> Claims(st) /\ st # Given(t)
<1>1. t \in Thread /\ pc[t] = "body" /\ Given(t) \in Stub
  BY DEF Working
<1>2. Pending(t) /\ Claims(Given(t)) /\ Given(t).key = KeyOf(t)
  BY <1>1 DEF Pending, Early, Claims, Given, KeyOf
<1>3. KeyOf(t) \in mapped => In(Given(t), This(t))
  BY <1>1, <1>2, ClaimedHere
<1>4. /\ \A u \in Thread : Pending(u)' <=> Pending(u) /\ u # t
      /\ \A u \in Thread : KeyOf(u)' = KeyOf(u)
  BY <1>1, HandlerPending
<1>5. /\ Given(t) \notin stubs
      /\ \A u \in Thread : Pending(u) /\ op[u].stub = Given(t) => u = t
  BY <1>1, <1>2 DEF SwitchInv, ClaimInv, Given
<1>6. \A st \in AnyStub : Claims(st)' <=> Claims(st) /\ st # Given(t)
  BY <1>1, <1>4, <1>5 DEF Claims, Given
<1> QED
  BY <1>1, <1>2, <1>3, <1>4, <1>6, StubIsAny

\* An unhook that keeps the switch hands its own stub back and no other.
LEMMA KeepsClaims ==
  ASSUME TypeOK, RefInv, SwitchInv, NEW t, Working(t), UnhookKeeps(t)
  PROVE  ClaimInv' /\ OwnedInv' /\ AnswerInv'
<1> DEFINE x == self[t]
           c == Given(t)
<1>1. SwitchTypes /\ AddrInv /\ ClaimInv /\ OwnedInv /\ AnswerInv
  BY DEF SwitchInv
<1>2. /\ Keep(t) /\ op[t].act = "unhook" /\ Answers(t)
      /\ residue \subseteq residue' /\ UNCHANGED <<mapped, op, stubs>>
  BY DEF UnhookKeeps
<1>3. t \in Thread /\ Live(x) /\ x \in born /\ x \in Obj /\ This(t) = sw[x] /\ sw[x].addr = KeyOf(t)
  BY DEF Working, This
<1>4. /\ c \in AnyStub /\ c.key = KeyOf(t)
      /\ KeyOf(t) \in mapped => In(c, sw[x])
      /\ \A u \in Thread : Pending(u)' <=> Pending(u) /\ u # t
      /\ \A u \in Thread : KeyOf(u)' = KeyOf(u)
      /\ \A st \in AnyStub : Claims(st)' <=> Claims(st) /\ st # c
  BY <1>2, <1>3, UnhookClaims
<1>5. PICK r \in Switch :
        /\ Set(t, r) /\ (r = This(t) \/ Good(This(t), r))
        /\ In(c, This(t)) => Finds(t)
        /\ In(c, This(t)) =>
             \A st \in AnyStub :
               /\ In(st, r) => In(st, This(t)) /\ (Alike(st, c) => c \in residue')
               /\ In(st, This(t)) /\ ~Alike(st, c) => In(st, r)
  BY DEF UnhookKeeps
<1>6. r.addr = sw[x].addr
  BY <1>3, <1>5 DEF Good
<1>7. sw' = [sw EXCEPT ![x] = r] /\ sw \in [Obj -> Switch]
  BY <1>1, <1>5 DEF Set, SwitchTypes
<1>8. sw'[x] = r /\ \A o \in Obj : o # x => sw'[o] = sw[o]
  BY <1>3, <1>7
<1>9. (\A o : Live(o)' <=> Live(o)) /\ UNCHANGED <<born, held>> /\ \A o : Live(o) => o \in Obj
  BY <1>2, <1>3, KeepLive DEF TypeOK, Live
<1> HIDE DEF x, c
<1>10. ClaimInv'
  <2>1. \A st \in stubs' : st.key \in mapped' /\ Proper(st)'
    BY <1>1, <1>2 DEF ClaimInv, Proper
  <2>2. ASSUME NEW st \in Stub, Claims(st)', st.key \in mapped
        PROVE  \E o \in born : Live(o) /\ sw'[o].addr = st.key /\ In(st, sw'[o])
    <3>1. st \in AnyStub /\ Claims(st) /\ st # c
      BY <1>4, <2>2, StubIsAny
    <3>2. PICK o \in born : Live(o) /\ sw[o].addr = st.key /\ In(st, sw[o])
      BY <1>1, <2>2, <3>1 DEF ClaimInv
    <3>3. CASE o # x
      BY <1>8, <1>9, <3>2, <3>3
    <3>4. CASE o = x
      <4>1. ~Alike(st, c) /\ In(c, sw[x])
        BY <1>3, <1>4, <2>2, <3>1, <3>2, <3>4, StubIs
      <4>2. In(st, r)
        BY <1>3, <1>5, <3>1, <3>2, <3>4, <4>1
      <4> QED
        BY <1>6, <1>8, <3>2, <3>4, <4>2
    <3> QED
      BY <3>3, <3>4
  <2>3. ASSUME NEW u \in Thread, Pending(u)'
        PROVE  /\ op[u].stub \notin stubs'
               /\ \A v \in Thread : Pending(v)' /\ op[v].stub = op[u].stub => v = u
               /\ KeyOf(u) \in mapped => \A o \in held[u] : Live(o)
    BY <1>1, <1>2, <1>4, <2>3 DEF ClaimInv
  <2> QED
    BY <1>2, <1>4, <1>9, <2>1, <2>2, <2>3 DEF ClaimInv
<1>11. OwnedInv'
  <2>1. ASSUME NEW o \in born, Live(o), sw'[o].addr \in mapped, NEW st \in AnyStub, st.key = sw'[o].addr, In(st, sw'[o])
        PROVE  Claims(st)' \/ st \in residue'
    <3>1. CASE o # x
      <4>1. sw'[o] = sw[o]
        BY <1>8, <1>9, <2>1, <3>1
      <4>2. st # c
        BY <1>1, <1>3, <1>4, <2>1, <3>1, <4>1, OthersElsewhere
      <4>3. Claims(st) \/ st \in residue
        BY <1>1, <2>1, <4>1 DEF OwnedInv
      <4> QED
        BY <1>2, <1>4, <2>1, <4>2, <4>3
    <3>2. CASE o = x
      <4>1. KeyOf(t) \in mapped /\ In(c, sw[x])
        BY <1>3, <1>4, <1>6, <1>8, <2>1, <3>2
      <4>2. In(st, sw[x]) /\ (Alike(st, c) => c \in residue')
        BY <1>3, <1>5, <1>8, <2>1, <3>2, <4>1
      <4>3. Claims(st) \/ st \in residue
        BY <1>1, <1>3, <1>6, <1>8, <2>1, <3>2, <4>2 DEF OwnedInv
      <4>4. st = c => Alike(st, c)
        BY DEF Alike
      <4> QED
        BY <1>2, <1>4, <2>1, <4>2, <4>3, <4>4
    <3> QED
      BY <3>1, <3>2
  <2> QED
    BY <1>2, <1>9, <2>1 DEF OwnedInv
<1>12. AnswerInv'
  <2>1. op[t].act = "unhook" /\ KeyOf(t) \in mapped => Finds(t)
    BY <1>3, <1>4, <1>5
  <2> QED
    BY <1>1, <1>2, <1>3, <2>1, HandlerFinds
<1> QED
  BY <1>10, <1>11, <1>12

\* An unhook that retires the switch was the last to claim anything of the target.
LEMMA RetiresClaims ==
  ASSUME TypeOK, RefInv, SwitchInv, NEW t, Working(t), UnhookRetires(t)
  PROVE  ClaimInv' /\ OwnedInv' /\ AnswerInv'
<1> DEFINE x == self[t]
           c == Given(t)
<1>1. SwitchTypes /\ AddrInv /\ ClaimInv /\ OwnedInv /\ AnswerInv
  BY DEF SwitchInv
<1>2. /\ Retire(t) /\ op[t].act = "unhook" /\ Answers(t) /\ Finds(t)
      /\ \A st \in residue : st.key # KeyOf(t) => st \in residue'
      /\ UNCHANGED <<mapped, op, stubs>>
  BY DEF UnhookRetires
<1>3. t \in Thread /\ Live(x) /\ x \in born /\ x \in Obj /\ This(t) = sw[x] /\ sw[x].addr = KeyOf(t)
  BY DEF Working, This
<1>4. /\ c \in AnyStub /\ c.key = KeyOf(t) /\ Pending(t)
      /\ KeyOf(t) \in mapped => In(c, sw[x])
      /\ \A u \in Thread : Pending(u)' <=> Pending(u) /\ u # t
      /\ \A u \in Thread : KeyOf(u)' = KeyOf(u)
      /\ \A st \in AnyStub : Claims(st)' <=> Claims(st) /\ st # c
  BY <1>2, <1>3, UnhookClaims
<1>5. In(c, sw[x]) => \A st \in AnyStub : In(st, sw[x]) => Alike(st, c)
  BY <1>3 DEF UnhookRetires
<1>6. \A o \in Obj : o # x => sw'[o] = sw[o]
  BY <1>1 DEF UnhookRetires, SwitchTypes
<1>7. (\A o : Live(o)' <=> Live(o) /\ o # x) /\ UNCHANGED <<born, held>> /\ \A o : Live(o) => o \in Obj
  BY <1>2, <1>3, RetireLive DEF TypeOK, Live
<1>8. ASSUME NEW u \in Thread, u # t, Pending(u), KeyOf(u) \in mapped PROVE x \notin held[u]
  <2> SUFFICES ASSUME x \in held[u] PROVE FALSE
    OBVIOUS
  <2>1. /\ op[u].stub \in AnyStub /\ op[u].stub.key = KeyOf(t) /\ KeyOf(t) \in mapped
        /\ In(op[u].stub, This(t)) /\ op[u].stub # c
    BY <1>3, <1>4, <1>8, NobodyHolds
  <2>2. Alike(op[u].stub, c)
    BY <1>3, <1>4, <1>5, <2>1
  <2> QED
    BY <1>4, <2>1, <2>2, StubIs
<1> HIDE DEF x, c
<1>10. ClaimInv'
  <2>1. \A st \in stubs' : st.key \in mapped' /\ Proper(st)'
    BY <1>1, <1>2 DEF ClaimInv, Proper
  <2>2. ASSUME NEW st \in Stub, Claims(st)', st.key \in mapped
        PROVE  \E o \in born : Live(o) /\ o # x /\ sw'[o].addr = st.key /\ In(st, sw'[o])
    <3>1. st \in AnyStub /\ Claims(st) /\ st # c
      BY <1>4, <2>2, StubIsAny
    <3>2. PICK o \in born : Live(o) /\ sw[o].addr = st.key /\ In(st, sw[o])
      BY <1>1, <2>2, <3>1 DEF ClaimInv
    <3>3. CASE o # x
      BY <1>6, <1>7, <3>2, <3>3
    <3>4. CASE o = x
      <4>1. ~Alike(st, c)
        BY <1>3, <1>4, <2>2, <3>1, <3>2, <3>4, StubIs
      <4> QED
        BY <1>3, <1>4, <1>5, <2>2, <3>1, <3>2, <3>4, <4>1
    <3> QED
      BY <3>3, <3>4
  <2>3. ASSUME NEW u \in Thread, Pending(u)'
        PROVE  /\ op[u].stub \notin stubs'
               /\ \A v \in Thread : Pending(v)' /\ op[v].stub = op[u].stub => v = u
               /\ KeyOf(u) \in mapped => \A o \in held[u] : Live(o) /\ o # x
    BY <1>1, <1>2, <1>4, <1>8, <2>3 DEF ClaimInv
  <2> QED
    BY <1>2, <1>4, <1>7, <2>1, <2>2, <2>3 DEF ClaimInv
<1>11. OwnedInv'
  <2>1. ASSUME NEW o \in born, Live(o), o # x, sw'[o].addr \in mapped,
               NEW st \in AnyStub, st.key = sw'[o].addr, In(st, sw'[o])
        PROVE  Claims(st)' \/ st \in residue'
    <3>1. sw'[o] = sw[o]
      BY <1>6, <1>7, <2>1
    <3>2. st.key # KeyOf(t)
      BY <1>1, <1>3, <2>1, <3>1, OthersElsewhere
    <3>3. Claims(st) \/ st \in residue
      BY <1>1, <2>1, <3>1 DEF OwnedInv
    <3> QED
      BY <1>2, <1>4, <2>1, <3>2, <3>3
  <2> QED
    BY <1>2, <1>7, <2>1 DEF OwnedInv
<1>12. AnswerInv'
  BY <1>1, <1>2, <1>3, HandlerFinds
<1> QED
  BY <1>10, <1>11, <1>12

\* The sweep of a dlclose is about targets that are no longer mapped.
LEMMA FreeClaims ==
  ASSUME TypeOK, RefInv, SwitchInv, NEW t \in Thread, FreeAfterDlclose(t)
  PROVE  ClaimInv' /\ OwnedInv' /\ AnswerInv'
<1> DEFINE x == self[t]
<1>1. SwitchTypes /\ OpInv /\ AddrInv /\ ClaimInv /\ OwnedInv /\ AnswerInv
  BY DEF SwitchInv
<1>2. /\ Retire(t) /\ UNCHANGED <<sw, mapped, op, ret, stubs>>
      /\ residue' = {st \in residue : st.key \notin call[t].keys}
      /\ pc[t] = "body" /\ call[t].kind = "dlclose" /\ ~Destroyed(x)
  BY DEF FreeAfterDlclose, Retire
<1>3. Live(x) /\ x \in held[t] /\ x \in born /\ x \in Obj
  BY <1>2, BodyLive
<1>4. op[t].act # "unhook" /\ call[t].keys \cap mapped = {}
  BY <1>1, <1>2 DEF OpInv, OpOf, NoOp
<1>5. sw[x].addr \notin mapped
  BY <1>1, <1>3, <1>4 DEF AddrInv
<1>6. (\A o : Live(o)' <=> Live(o) /\ o # x) /\ UNCHANGED <<born, held>>
  BY <1>2, RetireLive
<1>7. /\ \A u \in Thread : Pending(u)' <=> Pending(u)
      /\ \A u \in Thread : KeyOf(u)' = KeyOf(u)
  BY <1>2, <1>4, HandlerPending DEF Pending
<1>8. ASSUME NEW u \in Thread, Pending(u), KeyOf(u) \in mapped PROVE x \notin held[u]
  <2>1. pc[u] # "idle" /\ op[u] # NoOp
    BY <1>8 DEF Pending, Early, NoOp
  <2>2. call[u].keys = {KeyOf(u)}
    BY <1>1, <2>1 DEF OpInv, OpOf
  <2> QED
    BY <1>1, <1>5, <1>8, <2>2 DEF AddrInv
<1> HIDE DEF x
<1>9. \A st : Claims(st)' <=> Claims(st)
  BY <1>2, <1>7 DEF Claims
<1>10. ClaimInv'
  <2>1. \A st \in stubs' : st.key \in mapped' /\ Proper(st)'
    BY <1>1, <1>2 DEF ClaimInv, Proper
  <2>2. ASSUME NEW st \in Stub, Claims(st)', st.key \in mapped
        PROVE  \E o \in born : Live(o) /\ o # x /\ sw[o].addr = st.key /\ In(st, sw[o])
    <3>1. PICK o \in born : Live(o) /\ sw[o].addr = st.key /\ In(st, sw[o])
      BY <1>1, <1>9, <2>2 DEF ClaimInv
    <3>2. o # x
      BY <1>5, <2>2, <3>1
    <3> QED
      BY <3>1, <3>2
  <2>3. ASSUME NEW u \in Thread, Pending(u)'
        PROVE  /\ op[u].stub \notin stubs'
               /\ \A v \in Thread : Pending(v)' /\ op[v].stub = op[u].stub => v = u
               /\ KeyOf(u) \in mapped => \A o \in held[u] : Live(o) /\ o # x
    BY <1>1, <1>2, <1>7, <1>8, <2>3 DEF ClaimInv
  <2> QED
    BY <1>2, <1>6, <1>7, <2>1, <2>2, <2>3 DEF ClaimInv
<1>11. OwnedInv'
  <2>1. ASSUME NEW o \in born, Live(o), sw[o].addr \in mapped,
               NEW st \in AnyStub, st.key = sw[o].addr, In(st, sw[o])
        PROVE  Claims(st)' \/ st \in residue'
    <3>1. Claims(st) \/ st \in residue
      BY <1>1, <2>1 DEF OwnedInv
    <3>2. st.key \notin call[t].keys
      BY <1>4, <2>1
    <3> QED
      BY <1>2, <1>9, <3>1, <3>2
  <2> QED
    BY <1>2, <1>6, <2>1 DEF OwnedInv
<1>12. AnswerInv'
  BY <1>1, <1>2, <1>4, HandlerFinds
<1> QED
  BY <1>10, <1>11, <1>12

LEMMA HandlerInv ==
  ASSUME TypeOK, RefInv, SwitchInv, NEW t \in Thread, Handler(t)
  PROVE  SwitchInv'
<1>1. SwitchTypes' /\ OpInv' /\ AddrInv' /\ WholeInv' /\ FreshInv' /\ TopInv' /\ PatchInv'
  BY HandlerLives
<1>2. ClaimInv' /\ OwnedInv' /\ AnswerInv'
  BY HandlerReady, HandlerIs, TakesClaims, RefusedClaims, FailsClaims, KeepsClaims, RetiresClaims, FreeClaims
<1> QED
  BY <1>1, <1>2 DEF SwitchInv

-----------------------------------------------------------------------------
(* The other steps, but for the one that makes a switch, leave the live    *)
(* switches and the targets alone.                                         *)

Inside(t) ==
  \/ (Untree(t) \/ Stamp(t) \/ Scan(t) \/ Unlock(t)) /\ UNCHANGED switchVars
  \/ DestroySwitch(t)

Quiet ==
  /\ UNCHANGED <<code, born>> /\ residue' = residue
  /\ \A o : Live(o)' <=> Live(o)
  /\ \A o \in Obj : Live(o) \/ (\E k \in Key : tree[k] = o) \/ (\E u \in Thread : o \in held[u]) => sw'[o] = sw[o]

LEMMA InsideIs ==
  ASSUME TypeOK, RefInv, SwitchTypes, NEW t \in Thread, Inside(t)
  PROVE  /\ UNCHANGED <<born, call, self, held, again, code, mapped, op, ret, stubs, residue>>
         /\ pc[t] \notin {"idle", "find", "lock", "body", "release"}
         /\ pc'[t] \notin {"idle", "find", "lock", "body"} /\ \A u \in Thread \ {t} : pc'[u] = pc[u]
         /\ again[t] /\ pc[t] = "unlock" => pc'[t] = "release"
         /\ \A k \in Key : tree'[k] = tree[k] \/ (tree'[k] = NoObj /\ tree[k] = self[t] /\ pc[t] = "untree")
         /\ sw' \in [Obj -> Switch]
         /\ \A o \in Obj : ~Abandoned(o) => sw'[o] = sw[o]
<1>1. CASE Untree(t) /\ UNCHANGED switchVars
  BY <1>1 DEF Untree, switchVars, TypeOK, SwitchTypes
<1>2. CASE (Stamp(t) \/ Scan(t)) /\ UNCHANGED switchVars
  BY <1>2 DEF Stamp, Scan, switchVars, TypeOK, SwitchTypes
<1>3. CASE Unlock(t) /\ UNCHANGED switchVars
  BY <1>3 DEF Unlock, switchVars, TypeOK, SwitchTypes
<1>4. CASE DestroySwitch(t)
  <2>1. Destroy(t) /\ UNCHANGED <<code, mapped, op, ret, stubs, residue>>
    BY <1>4 DEF DestroySwitch
  <2>2. /\ UNCHANGED <<tree, born, call, self, held, again>>
        /\ pc[t] = "destroy" /\ pc'[t] \in {"destroy", "unlock"} /\ \A u \in Thread \ {t} : pc'[u] = pc[u]
    BY <2>1 DEF Destroy, TypeOK
  <2>3. \A o \in freed' \ freed : Abandoned(o)
    BY <2>1 DEF Destroy, Abandoned
  <2> DEFINE Emptied(o) == [NewSwitch EXCEPT !.orig = [sw[o].orig EXCEPT ![HUB] = NULL]]
  <2>4. sw' = [o \in Obj |-> IF o \in freed' \ freed THEN Emptied(o) ELSE sw[o]]
    BY <1>4 DEF DestroySwitch
  <2>5. ASSUME NEW o \in Obj PROVE Emptied(o) \in Switch
    <3>1. sw[o].orig \in [Node -> Node \cup {NULL, RESUME}] /\ HUB \in Node
      BY DEF SwitchTypes, Switch, Node
    <3>2. [sw[o].orig EXCEPT ![HUB] = NULL] \in [Node -> Node \cup {NULL, RESUME}]
      BY <3>1
    <3> QED
      BY <3>2, NewSwitchTyped DEF Switch
  <2> HIDE DEF Emptied
  <2>6. sw' \in [Obj -> Switch] /\ \A o \in Obj : ~Abandoned(o) => sw'[o] = sw[o]
    BY <2>3, <2>4, <2>5 DEF SwitchTypes
  <2> QED
    BY <2>1, <2>2, <2>6
<1> QED
  BY <1>1, <1>2, <1>3, <1>4 DEF Inside

\* What ends a call, or a sweep's turn, or makes a call try again.
LEMMA EndIs ==
  ASSUME TypeOK, RefInv, NEW t \in Thread, EndCall(t)
  PROVE  /\ UNCHANGED <<tree, born, sw, code, mapped, stubs, residue>>
         /\ pc[t] = "release" /\ self[t] \in held[t]
         /\ pc'[t] \in {"lock", "find", "idle"} /\ \A u \in Thread \ {t} : pc'[u] = pc[u]
         /\ pc'[t] = "lock" => call[t].kind = "dlclose"
         /\ pc'[t] = "find" => again[t]
         /\ pc'[t] # "idle" => call'[t] = call[t] /\ op' = op
         /\ pc'[t] = "idle" => op' = [op EXCEPT ![t] = NoOp] /\ held'[t] = {}
         /\ \A u \in Thread \ {t} : call'[u] = call[u] /\ held'[u] = held[u] /\ again'[u] = again[u]
         /\ held'[t] = held[t] \ {self[t]}
         /\ ~again'[t] /\ ret' = [ret EXCEPT ![t] = "ok"]
<1>1. Release(t) /\ UNCHANGED <<sw, code, mapped, stubs, residue>> /\ ret' = [ret EXCEPT ![t] = "ok"]
  BY DEF EndCall
<1>2. pc[t] = "release" /\ self[t] \in held[t] /\ UNCHANGED <<tree, born>>
  BY <1>1 DEF Release, RefInv, PlaceInv, Place
<1>3. /\ held'[t] = held[t] \ {self[t]} /\ ~again'[t]
      /\ \A u \in Thread \ {t} : held'[u] = held[u] /\ again'[u] = again[u]
  BY <1>1 DEF Release, TypeOK
<1>4. call[t].kind # "dlclose" => held'[t] = {}
  BY <1>2, <1>3 DEF RefInv, PlaceInv, Place
<1>5. \/ held'[t] # {} /\ Goto(t, "lock") /\ UNCHANGED call
      \/ held'[t] = {} /\ again[t] /\ Goto(t, "find") /\ UNCHANGED call
      \/ held'[t] = {} /\ ~again[t] /\ Return(t)
  BY <1>1 DEF Release
<1>6. /\ pc'[t] \in {"lock", "find", "idle"} /\ \A u \in Thread \ {t} : pc'[u] = pc[u]
      /\ pc'[t] = "lock" => held'[t] # {}
      /\ pc'[t] = "find" => again[t]
      /\ pc'[t] # "idle" => call'[t] = call[t]
      /\ pc'[t] = "idle" => held'[t] = {}
      /\ \A u \in Thread \ {t} : call'[u] = call[u]
  BY <1>5 DEF TypeOK
<1>7. IF pc'[t] = "idle" THEN op' = [op EXCEPT ![t] = NoOp] ELSE op' = op
  BY DEF EndCall
<1> QED
  BY <1>1, <1>2, <1>3, <1>4, <1>6, <1>7

\* A lookup that hits, and one that sweeps.
LEMMA HitIs ==
  ASSUME TypeOK, NEW t \in Thread, FindHit(t)
  PROVE  /\ UNCHANGED <<tree, born, call, self, again>>
         /\ pc[t] = "find" /\ pc'[t] = "lock" /\ \A u \in Thread \ {t} : pc'[u] = pc[u] /\ held'[u] = held[u]
         /\ call[t].kind # "dlclose" /\ tree[Target(t)] # NoObj /\ held'[t] = {tree[Target(t)]}
BY DEF FindHit, TypeOK

LEMMA SweepIs ==
  ASSUME TypeOK, NEW t \in Thread, Collect(t)
  PROVE  /\ UNCHANGED <<born, self, again>>
         /\ pc[t] = "find" /\ pc'[t] \in {"idle", "lock"}
         /\ \A u \in Thread \ {t} : pc'[u] = pc[u] /\ held'[u] = held[u] /\ call'[u] = call[u]
         /\ call[t].kind = "dlclose" /\ (pc'[t] = "lock" => call'[t] = call[t])
         /\ held'[t] = {tree[k] : k \in call[t].keys} \ {NoObj}
         /\ held'[t] # {} => pc'[t] = "lock"
         /\ \A k \in Key : /\ k \in call[t].keys => tree'[k] = NoObj
                           /\ k \notin call[t].keys => tree'[k] = tree[k]
<1>1. held' = [held EXCEPT ![t] = {tree[k] : k \in call[t].keys} \ {NoObj}] /\ UNCHANGED <<born, self, again>>
      /\ tree' = [k \in Key |-> IF k \in call[t].keys THEN NoObj ELSE tree[k]]
      /\ pc[t] = "find" /\ call[t].kind = "dlclose"
  BY DEF Collect
<1>2. /\ held'[t] = {} => Return(t)
      /\ held'[t] # {} => Goto(t, "lock") /\ UNCHANGED call
  BY <1>1 DEF Collect, TypeOK
<1>3. /\ pc'[t] \in {"idle", "lock"} /\ \A u \in Thread \ {t} : pc'[u] = pc[u] /\ call'[u] = call[u]
      /\ pc'[t] = "lock" => call'[t] = call[t]
      /\ held'[t] # {} => pc'[t] = "lock"
  BY <1>2 DEF TypeOK
<1> QED
  BY <1>1, <1>3 DEF TypeOK

\* A call that begins.
LEMMA BeginIs ==
  ASSUME TypeOK, RefInv, NEW t \in Thread, NEW kind \in Kind, NEW keys, Begin(t, kind, keys)
  PROVE  /\ UNCHANGED <<tree, born, self, held, again>>
         /\ pc[t] = "idle" /\ pc'[t] = "find" /\ held[t] = {}
         /\ \A u \in Thread \ {t} : pc'[u] = pc[u] /\ call'[u] = call[u]
         /\ call'[t] = [kind |-> kind, keys |-> keys]
BY DEF Begin, TypeOK, RefInv, PlaceInv, Place

\* What the proofs below go through: the steps of the calls that are not handlers.
Step(t) ==
  \/ \E st \in Stub : CallHook(t, st) \/ CallUnhook(t, st)
  \/ \E keys \in Lib : CallDlclose(t, keys)
  \/ FindNothing(t) \/ SkipDestroyed(t) \/ EndCall(t) \/ Inside(t)
  \/ (FindHit(t) \/ Collect(t) \/ Lock(t)) /\ UNCHANGED switchVars

LEMMA NextIs ==
  ASSUME [Next]_vars
  PROVE  \/ UNCHANGED vars \/ (Tick /\ UNCHANGED switchVars)
         \/ \E t \in Thread : Step(t) \/ CreateSwitch(t) \/ Handler(t)
BY DEF Next, Plain, Inside, Step

LEMMA QuietIs ==
  ASSUME TypeOK, RefInv, SwitchTypes, [Next]_vars, NEW t \in Thread, Step(t)
  PROVE  Quiet
<1> DEFINE Calm == /\ UNCHANGED <<born, code, residue>>
                   /\ \A o \in Obj : ~Abandoned(o) => sw'[o] = sw[o]
                   /\ \A u \in Thread : ~Retire(u)
<1>1. Calm
  <2>1. ASSUME NEW st \in Stub, CallHook(t, st) \/ CallUnhook(t, st) PROVE Calm
    <3>1. Begin(t, "get", {st.key}) \/ Begin(t, "find", {st.key})
      BY <2>1 DEF CallHook, CallUnhook
    <3>2. pc[t] = "idle" /\ pc'[t] = "find" /\ born' = born /\ \A u \in Thread \ {t} : pc'[u] = pc[u]
      BY <3>1, BeginIs DEF Kind
    <3> QED
      BY <2>1, <3>2 DEF CallHook, CallUnhook, Retire, TypeOK
  <2>2. ASSUME NEW keys \in Lib, CallDlclose(t, keys) PROVE Calm
    <3>1. pc[t] = "idle" /\ pc'[t] = "find" /\ born' = born /\ \A u \in Thread \ {t} : pc'[u] = pc[u]
      BY <2>2, BeginIs DEF CallDlclose, Kind
    <3> QED
      BY <2>2, <3>1 DEF CallDlclose, Retire, TypeOK
  <2>3. CASE FindNothing(t)
    BY <2>3 DEF FindNothing, FindFails, Retire, TypeOK
  <2>4. CASE SkipDestroyed(t)
    BY <2>4 DEF SkipDestroyed, Skip, Retire, TypeOK
  <2>5. CASE EndCall(t)
    <3>1. pc[t] = "release" /\ born' = born /\ (\A u \in Thread \ {t} : pc'[u] = pc[u])
          /\ sw' = sw /\ code' = code /\ residue' = residue
      BY <2>5, EndIs
    <3> QED
      BY <3>1 DEF Retire, TypeOK
  <2>6. CASE Inside(t)
    BY <2>6, InsideIs DEF Retire, TypeOK
  <2>7. CASE (FindHit(t) \/ Collect(t) \/ Lock(t)) /\ UNCHANGED switchVars
    BY <2>7 DEF FindHit, Collect, Lock, switchVars, Retire, TypeOK
  <2> QED
    BY <2>1, <2>2, <2>3, <2>4, <2>5, <2>6, <2>7 DEF Step
<1>2. ASSUME NEW o PROVE Live(o)' <=> Live(o)
  <2>1. [RefNext]_refVars
    BY SwitchStep
  <2>2. Live(o)' => Live(o)
    BY <1>1, <2>1, LiveBack DEF Live
  <2>3. Live(o) => Live(o)'
    BY <1>1, <2>1, LiveOn
  <2> QED
    BY <2>2, <2>3
<1>3. \A o \in Obj : Live(o) \/ (\E k \in Key : tree[k] = o) \/ (\E u \in Thread : o \in held[u]) => ~Abandoned(o)
  <2>1. \A o \in Obj : Abandoned(o) => Destroyed(o) /\ Holders(o) = {}
    BY DEF RefInv, RetiredInv, QueuedDestroyed, GivenUpUnheld
  <2>2. \A k \in Key : tree[k] \in Obj => ~Destroyed(tree[k])
    BY RefAssumption DEF RefInv, RetiredInv, TreeLive
  <2> QED
    BY <2>1, <2>2 DEF Live, Holders
<1> QED
  BY <1>1, <1>2, <1>3 DEF Quiet

LEMMA StepTypes ==
  ASSUME TypeOK, RefInv, SwitchTypes, NEW t \in Thread, Step(t)
  PROVE  SwitchTypes' /\ mapped' \subseteq mapped
<1> USE DEF SwitchTypes
<1>1. ASSUME NEW st \in Stub, CallHook(t, st) \/ CallUnhook(t, st) PROVE SwitchTypes' /\ mapped' \subseteq mapped
  <2>1. [act |-> "hook", stub |-> st] \in Op /\ [act |-> "unhook", stub |-> st] \in Op
    BY DEF Op
  <2> QED
    BY <1>1, <2>1 DEF CallHook, CallUnhook, Returns, Result
<1>2. ASSUME NEW keys \in Lib, CallDlclose(t, keys) PROVE SwitchTypes' /\ mapped' \subseteq mapped
  BY <1>2 DEF CallDlclose, Returns, Result
<1>3. NoOp \in Op
  BY DEF Op
<1>4. CASE FindNothing(t)
  BY <1>3, <1>4 DEF FindNothing, Returns, Result
<1>5. CASE SkipDestroyed(t)
  BY <1>5 DEF SkipDestroyed, Returns, Result
<1>6. CASE EndCall(t)
  BY <1>3, <1>6, EndIs DEF Result
<1>7. CASE Inside(t)
  BY <1>7, InsideIs
<1>8. CASE UNCHANGED switchVars
  BY <1>8 DEF switchVars
<1> QED
  BY <1>1, <1>2, <1>4, <1>5, <1>6, <1>7, <1>8 DEF Step

LEMMA QuietParts ==
  ASSUME TypeOK, SwitchTypes, AddrInv, WholeInv, TopInv, PatchInv, Quiet
  PROVE  WholeInv' /\ TopInv' /\ PatchInv'
<1>1. /\ UNCHANGED <<code, born>>
      /\ \A o : Live(o)' <=> Live(o)
      /\ \A o \in born : Live(o) => sw'[o] = sw[o]
  BY DEF Quiet, TypeOK
<1>2. WholeInv'
  BY <1>1 DEF WholeInv
<1>3. TopInv'
  BY <1>1 DEF TopInv
<1>4. PatchInv'
  <2>1. ASSUME "unhook" \notin Faults, NEW k \in Key, code[k] # <<>>
        PROVE  /\ Len(code[k]) = 1
               /\ \E o \in born : Live(o) /\ sw'[o].addr = k /\ Head(code[k]) = [sw |-> o, to |-> sw'[o].start]
    <3>1. PICK o \in born : Live(o) /\ sw[o].addr = k /\ Head(code[k]) = [sw |-> o, to |-> sw[o].start]
      BY <2>1 DEF PatchInv
    <3>2. sw'[o] = sw[o] /\ Len(code[k]) = 1
      BY <1>1, <2>1, <3>1 DEF PatchInv
    <3> QED
      BY <3>1, <3>2
  <2> QED
    BY <1>1, <2>1 DEF PatchInv
<1> QED
  BY <1>2, <1>3, <1>4

\* What each call was asked, after a step.
LEMMA StepOp ==
  ASSUME TypeOK, RefInv, SwitchInv, NEW t \in Thread, Step(t)
  PROVE  OpInv'
<1>1. SwitchTypes /\ \A u \in Thread : OpOf(u)
  BY DEF SwitchInv, OpInv
<1> DEFINE Other(u) == /\ pc'[u] = pc[u] /\ call'[u] = call[u] /\ again'[u] = again[u]
                       /\ op'[u] = op[u] /\ ret'[u] = ret[u]
<1>2. ASSUME NEW u \in Thread, Other(u), mapped' = mapped PROVE OpOf(u)'
  BY <1>1, <1>2 DEF OpOf, Early, KeyOf
<1>3. ASSUME NEW st \in Stub, CallHook(t, st) PROVE OpInv'
  <2>1. Begin(t, "get", {st.key}) /\ op' = [op EXCEPT ![t] = [act |-> "hook", stub |-> st]]
        /\ UNCHANGED mapped /\ ret' = [ret EXCEPT ![t] = "ok"] /\ st.key \in mapped /\ Proper(st)
    BY <1>3 DEF CallHook, Returns, Proper
  <2>2. /\ UNCHANGED again /\ pc[t] = "idle" /\ pc'[t] = "find"
        /\ \A u \in Thread \ {t} : pc'[u] = pc[u] /\ call'[u] = call[u]
        /\ call'[t] = [kind |-> "get", keys |-> {st.key}]
    BY <2>1, BeginIs DEF Kind
  <2>3. op'[t] = [act |-> "hook", stub |-> st] /\ ret'[t] = "ok" /\ \A u \in Thread \ {t} : Other(u)
    BY <1>1, <2>1, <2>2 DEF SwitchTypes
  <2>4. OpOf(t)'
    BY <1>1, <2>1, <2>2, <2>3 DEF OpOf, Early, KeyOf, Proper
  <2> QED
    BY <1>2, <2>1, <2>3, <2>4 DEF OpInv
<1>4. ASSUME NEW st \in Stub, CallUnhook(t, st) PROVE OpInv'
  <2>1. Begin(t, "find", {st.key}) /\ op' = [op EXCEPT ![t] = [act |-> "unhook", stub |-> st]]
        /\ UNCHANGED mapped /\ ret' = [ret EXCEPT ![t] = "ok"] /\ st \in stubs
    BY <1>4 DEF CallUnhook, Returns
  <2>2. /\ UNCHANGED again /\ pc[t] = "idle" /\ pc'[t] = "find"
        /\ \A u \in Thread \ {t} : pc'[u] = pc[u] /\ call'[u] = call[u]
        /\ call'[t] = [kind |-> "find", keys |-> {st.key}]
    BY <2>1, BeginIs DEF Kind
  <2>3. op'[t] = [act |-> "unhook", stub |-> st] /\ ret'[t] = "ok" /\ \A u \in Thread \ {t} : Other(u)
    BY <1>1, <2>1, <2>2 DEF SwitchTypes
  <2>4. Proper(st)
    BY <2>1 DEF SwitchInv, ClaimInv
  <2>5. OpOf(t)'
    BY <1>1, <2>1, <2>2, <2>3, <2>4 DEF OpOf, Early, KeyOf, Proper
  <2> QED
    BY <1>2, <2>1, <2>3, <2>5 DEF OpInv
<1>5. ASSUME NEW keys \in Lib, CallDlclose(t, keys) PROVE OpInv'
  <2>1. Begin(t, "dlclose", keys) /\ op' = op /\ ret' = [ret EXCEPT ![t] = "ok"] /\ mapped' = mapped \ keys
        /\ \A k \in keys : \A u \in Busy(k) : op[u].act # "hook"
    BY <1>5 DEF CallDlclose, Returns
  <2>2. /\ UNCHANGED again /\ pc[t] = "idle" /\ pc'[t] = "find"
        /\ \A u \in Thread \ {t} : pc'[u] = pc[u] /\ call'[u] = call[u]
        /\ call'[t] = [kind |-> "dlclose", keys |-> keys]
    BY <2>1, BeginIs DEF Kind
  <2>3. ASSUME NEW u \in Thread, op[u].act = "hook" PROVE KeyOf(u) \notin keys
    BY <2>1, <2>3 DEF Busy, KeyOf
  <2>4. \A u \in Thread \ {t} : OpOf(u)'
    BY <1>1, <2>1, <2>2, <2>3 DEF SwitchTypes, OpOf, Early, KeyOf
  <2>5. OpOf(t)'
    BY <1>1, <2>1, <2>2 DEF SwitchTypes, OpOf, Early, KeyOf, NoOp
  <2> QED
    BY <2>4, <2>5 DEF OpInv
<1>6. CASE FindNothing(t)
  <2>1. FindFails(t) /\ op' = [op EXCEPT ![t] = NoOp] /\ UNCHANGED mapped
        /\ \A u \in Thread \ {t} : ret'[u] = ret[u]
    BY <1>1, <1>6 DEF FindNothing, Returns, SwitchTypes
  <2>2. /\ UNCHANGED again /\ pc[t] = "find" /\ pc'[t] = "idle" /\ call'[t] = NoCall
        /\ \A u \in Thread \ {t} : pc'[u] = pc[u] /\ call'[u] = call[u]
    BY <2>1 DEF FindFails, TypeOK
  <2>3. op'[t] = NoOp /\ \A u \in Thread \ {t} : Other(u)
    BY <1>1, <2>1, <2>2 DEF SwitchTypes
  <2>4. OpOf(t)'
    BY <1>1, <2>1, <2>2, <2>3 DEF OpOf, Early, KeyOf, NoOp
  <2> QED
    BY <1>2, <2>1, <2>3, <2>4 DEF OpInv
<1>7. CASE SkipDestroyed(t)
  <2>1. Skip(t) /\ UNCHANGED <<op, mapped>> /\ \A u \in Thread \ {t} : ret'[u] = ret[u]
    BY <1>1, <1>7 DEF SkipDestroyed, Returns, SwitchTypes
  <2>2. /\ UNCHANGED call /\ pc[t] = "body" /\ pc'[t] = "unlock"
        /\ again'[t] => call[t].kind = "get"
        /\ \A u \in Thread \ {t} : Other(u)
    BY <2>1 DEF Skip, TypeOK
  <2>3. OpOf(t)'
    BY <1>1, <2>1, <2>2 DEF OpOf, Early, KeyOf
  <2> QED
    BY <1>2, <2>1, <2>2, <2>3 DEF OpInv
<1>8. CASE EndCall(t)
  <2>1. /\ mapped' = mapped /\ pc[t] = "release" /\ pc'[t] \in {"lock", "find", "idle"}
        /\ pc'[t] = "lock" => call[t].kind = "dlclose"
        /\ pc'[t] = "find" => again[t]
        /\ pc'[t] # "idle" => call'[t] = call[t] /\ op' = op
        /\ pc'[t] = "idle" => op' = [op EXCEPT ![t] = NoOp]
        /\ ~again'[t] /\ ret' = [ret EXCEPT ![t] = "ok"]
    BY <1>8, EndIs
  <2>2. \A u \in Thread \ {t} : Other(u)
    BY <1>1, <1>8, EndIs DEF SwitchTypes
  <2>3. ret'[t] = "ok" /\ (pc'[t] = "idle" => op'[t] = NoOp)
    BY <1>1, <2>1 DEF SwitchTypes
  <2>4. OpOf(t)'
    BY <1>1, <2>1, <2>3 DEF OpOf, Early, KeyOf, NoOp
  <2> QED
    BY <1>2, <2>1, <2>2, <2>4 DEF OpInv
<1>9. CASE Inside(t)
  <2>1. /\ UNCHANGED <<call, again, mapped, op, ret>>
        /\ pc[t] \notin {"idle", "find", "lock", "body", "release"}
        /\ pc'[t] \notin {"idle", "find", "lock", "body"} /\ \A u \in Thread \ {t} : pc'[u] = pc[u]
        /\ again[t] /\ pc[t] = "unlock" => pc'[t] = "release"
    BY <1>1, <1>9, InsideIs
  <2>2. OpOf(t)'
    BY <1>1, <2>1 DEF OpOf, Early, KeyOf
  <2> QED
    BY <1>2, <2>1, <2>2 DEF OpInv
<1>10. CASE FindHit(t) /\ UNCHANGED switchVars
  <2>1. /\ UNCHANGED <<call, again, mapped, op, ret>> /\ pc[t] = "find" /\ pc'[t] = "lock"
        /\ \A u \in Thread \ {t} : pc'[u] = pc[u]
    BY <1>10, HitIs DEF switchVars
  <2>2. OpOf(t)'
    BY <1>1, <2>1 DEF OpOf, Early, KeyOf
  <2> QED
    BY <1>2, <2>1, <2>2 DEF OpInv
<1>11. CASE Lock(t) /\ UNCHANGED switchVars
  <2>1. /\ UNCHANGED <<call, again, mapped, op, ret>> /\ pc[t] = "lock" /\ pc'[t] = "body"
        /\ \A u \in Thread \ {t} : pc'[u] = pc[u]
    BY <1>11 DEF switchVars, Lock, TypeOK
  <2>2. OpOf(t)'
    BY <1>1, <2>1 DEF OpOf, Early, KeyOf
  <2> QED
    BY <1>2, <2>1, <2>2 DEF OpInv
<1>12. CASE Collect(t) /\ UNCHANGED switchVars
  <2>1. /\ UNCHANGED <<again, mapped, op, ret>> /\ pc[t] = "find" /\ pc'[t] \in {"idle", "lock"}
        /\ call[t].kind = "dlclose" /\ (pc'[t] = "lock" => call'[t] = call[t])
        /\ \A u \in Thread \ {t} : pc'[u] = pc[u] /\ call'[u] = call[u]
    BY <1>12, SweepIs DEF switchVars
  <2>2. OpOf(t)'
    BY <1>1, <2>1 DEF OpOf, Early, KeyOf, NoOp
  <2> QED
    BY <1>2, <2>1, <2>2 DEF OpInv
<1> QED
  BY <1>3, <1>4, <1>5, <1>6, <1>7, <1>8, <1>9, <1>10, <1>11, <1>12 DEF Step

\* What the registry has and what threads hold, after a step.
LEMMA StepRef ==
  ASSUME TypeOK, RefInv, SwitchInv, NEW t \in Thread, Step(t)
  PROVE  /\ \A k \in Key : tree'[k] = tree[k] \/ tree'[k] = NoObj
         /\ \A u \in Thread : \/ held'[u] \subseteq held[u] /\ (call'[u] = call[u] \/ held'[u] = {})
                              \/ \A o \in held'[u] : \E k \in Key : k \in call'[u].keys /\ tree[k] = o
         /\ \A o : Live(o) => \A k \in Key : tree[k] = o =>
              \/ tree'[k] = o
              \/ k \notin mapped' /\ \E u \in Thread : call'[u].kind = "dlclose" /\ o \in held'[u]
         /\ \A o : Live(o) => \A u \in Thread :
              call[u].kind = "dlclose" /\ o \in held[u] => call'[u].kind = "dlclose" /\ o \in held'[u]
<1> DEFINE T == \A k \in Key : tree'[k] = tree[k] \/ tree'[k] = NoObj
           Held(u) == \/ held'[u] \subseteq held[u] /\ (call'[u] = call[u] \/ held'[u] = {})
                      \/ \A o \in held'[u] : \E k \in Key : k \in call'[u].keys /\ tree[k] = o
           L == \A o : Live(o) => \A k \in Key : tree[k] = o =>
                  \/ tree'[k] = o
                  \/ k \notin mapped' /\ \E u \in Thread : call'[u].kind = "dlclose" /\ o \in held'[u]
           C == \A o : Live(o) => \A u \in Thread :
                  call[u].kind = "dlclose" /\ o \in held[u] => call'[u].kind = "dlclose" /\ o \in held'[u]
           All == T /\ (\A u \in Thread : Held(u)) /\ L /\ C
<1>1. ASSUME UNCHANGED <<tree, held>>, held[t] = {}, \A u \in Thread \ {t} : call'[u] = call[u] PROVE All
  BY <1>1
<1>2. ASSUME UNCHANGED <<tree, held, call>> PROVE All
  BY <1>2
<1>3. ASSUME NEW st \in Stub, CallHook(t, st) \/ CallUnhook(t, st) PROVE All
  <2>1. Begin(t, "get", {st.key}) \/ Begin(t, "find", {st.key})
    BY <1>3 DEF CallHook, CallUnhook
  <2> QED
    BY <1>1, <2>1, BeginIs DEF Kind
<1>4. ASSUME NEW keys \in Lib, CallDlclose(t, keys) PROVE All
  <2>1. Begin(t, "dlclose", keys)
    BY <1>4 DEF CallDlclose
  <2> QED
    BY <1>1, <2>1, BeginIs DEF Kind
<1>5. CASE FindNothing(t)
  <2>1. FindFails(t) /\ held[t] = {}
    BY <1>5 DEF FindNothing, FindFails, RefInv, PlaceInv, Place
  <2>2. UNCHANGED <<tree, held>> /\ \A u \in Thread \ {t} : call'[u] = call[u]
    BY <2>1 DEF FindFails, TypeOK
  <2> QED
    BY <1>1, <2>1, <2>2
<1>6. CASE SkipDestroyed(t)
  BY <1>2, <1>6 DEF SkipDestroyed, Skip
<1>7. CASE EndCall(t)
  <2>1. /\ UNCHANGED tree /\ pc[t] = "release" /\ held'[t] = held[t] \ {self[t]}
        /\ pc'[t] # "idle" => call'[t] = call[t]
        /\ pc'[t] = "idle" => held'[t] = {}
        /\ \A u \in Thread \ {t} : call'[u] = call[u] /\ held'[u] = held[u]
    BY <1>7, EndIs
  <2>2. call[t].kind = "dlclose" => Destroyed(self[t])
    BY <2>1 DEF RefInv, RetiredInv, Retiring
  <2>3. ASSUME NEW o, Live(o), call[t].kind = "dlclose", o \in held[t] PROVE call'[t].kind = "dlclose" /\ o \in held'[t]
    BY <2>1, <2>2, <2>3 DEF Live
  <2>4. C
    BY <2>1, <2>3
  <2>5. T /\ L
    BY <2>1
  <2>6. \A u \in Thread : Held(u)
    BY <2>1
  <2> QED
    BY <2>4, <2>5, <2>6
<1>8. CASE Inside(t)
  <2>1. /\ UNCHANGED <<held, call>> /\ T
        /\ \A k \in Key : tree'[k] = tree[k] \/ (tree[k] = self[t] /\ pc[t] = "untree")
    BY <1>8, InsideIs DEF SwitchInv
  <2>2. L
    BY <2>1 DEF Live
  <2> QED
    BY <2>1, <2>2
<1>9. CASE FindHit(t)
  <2>1. /\ UNCHANGED <<tree, call>> /\ pc[t] = "find" /\ call[t].kind # "dlclose"
        /\ \A u \in Thread \ {t} : held'[u] = held[u]
        /\ held'[t] = {tree[Target(t)]}
    BY <1>9, HitIs
  <2>2. Target(t) \in call[t].keys /\ Target(t) \in Key
    BY <2>1, TargetType DEF RefInv
  <2>3. Held(t) /\ \A u \in Thread \ {t} : Held(u)
    BY <2>1, <2>2
  <2> QED
    BY <2>1, <2>3
<1>10. CASE Lock(t)
  BY <1>2, <1>10 DEF Lock
<1>11. CASE Collect(t) /\ UNCHANGED switchVars
  <2>1. /\ pc[t] = "find" /\ call[t].kind = "dlclose" /\ (pc'[t] = "lock" => call'[t] = call[t])
        /\ \A u \in Thread \ {t} : held'[u] = held[u] /\ call'[u] = call[u]
        /\ held'[t] = {tree[k] : k \in call[t].keys} \ {NoObj}
        /\ held'[t] # {} => pc'[t] = "lock"
        /\ \A k \in Key : /\ k \in call[t].keys => tree'[k] = NoObj
                          /\ k \notin call[t].keys => tree'[k] = tree[k]
    BY <1>11, SweepIs
  <2>2. held[t] = {} /\ call[t].keys \subseteq Key
    BY <2>1 DEF TypeOK, Call, RefInv, PlaceInv, Place
  <2>3. call[t].keys \cap mapped' = {}
    BY <1>11, <2>1 DEF SwitchInv, OpInv, OpOf, switchVars
  <2>4. L
    <3>1. ASSUME NEW o, Live(o), NEW k \in Key, tree[k] = o, k \in call[t].keys
          PROVE  k \notin mapped' /\ call'[t].kind = "dlclose" /\ o \in held'[t]
      <4>1. o # NoObj
        BY <3>1, RefAssumption DEF Live, TypeOK
      <4> QED
        BY <2>1, <2>3, <3>1, <4>1
    <3> QED
      BY <2>1, <3>1
  <2>5. Held(t) /\ \A u \in Thread \ {t} : Held(u)
    <3>1. held'[t] # {} => call'[t] = call[t]
      BY <2>1
    <3> QED
      BY <2>1, <2>2, <3>1
  <2>6. T /\ C
    BY <2>1, <2>2
  <2> QED
    BY <2>4, <2>5, <2>6
<1>12. All
  BY <1>3, <1>4, <1>5, <1>6, <1>7, <1>8, <1>9, <1>10, <1>11 DEF Step
<1> QED
  BY <1>12 DEF All

\* Where a switch is found, after a step.
LEMMA StepAddr ==
  ASSUME TypeOK, TypeOK', RefInv, SwitchInv, Quiet, NEW t \in Thread, Step(t)
  PROVE  AddrInv'
<1>1. SwitchTypes /\ AddrInv /\ mapped' \subseteq mapped
  BY StepTypes DEF SwitchInv
<1>2. /\ born' = born /\ \A o : Live(o)' <=> Live(o)
      /\ \A o \in Obj : Live(o) \/ (\E k \in Key : tree[k] = o) \/ (\E u \in Thread : o \in held[u]) => sw'[o] = sw[o]
  BY DEF Quiet
<1>3. \A o : Live(o) => o \in Obj
  BY DEF Live, TypeOK
<1>4. ASSUME NEW k \in Key, tree'[k] # NoObj PROVE sw'[tree'[k]].addr = k
  <2>1. tree'[k] = tree[k] /\ tree[k] \in Obj
    BY <1>4, StepRef DEF TypeOK
  <2> QED
    BY <1>1, <1>2, <1>4, <2>1 DEF AddrInv
<1>5. ASSUME NEW u \in Thread, NEW o \in held'[u] PROVE sw'[o].addr \in call'[u].keys
  <2>1. CASE o \in held[u] /\ call'[u] = call[u]
    BY <1>1, <1>2, <2>1 DEF AddrInv, TypeOK
  <2>2. ASSUME NEW k \in Key, k \in call'[u].keys, tree[k] = o PROVE sw'[o].addr \in call'[u].keys
    <3>1. o # NoObj /\ o \in Obj
      BY <2>2, RefAssumption DEF TypeOK
    <3> QED
      BY <1>1, <1>2, <2>2, <3>1 DEF AddrInv
  <2> QED
    BY <1>5, <2>1, <2>2, StepRef
<1>6. ASSUME NEW o \in born, Live(o)
      PROVE  /\ sw'[o].addr \in Key
             /\ \/ tree'[sw'[o].addr] = o
                \/ sw'[o].addr \notin mapped' /\ \E u \in Thread : call'[u].kind = "dlclose" /\ o \in held'[u]
  <2>1. sw'[o] = sw[o] /\ sw[o].addr \in Key
    BY <1>1, <1>2, <1>3, <1>6 DEF AddrInv
  <2>2. CASE tree[sw[o].addr] = o
    BY <1>6, <2>1, <2>2, StepRef
  <2>3. CASE sw[o].addr \notin mapped /\ \E u \in Thread : call[u].kind = "dlclose" /\ o \in held[u]
    BY <1>1, <1>6, <2>1, <2>3, StepRef
  <2> QED
    BY <1>1, <1>6, <2>2, <2>3 DEF AddrInv
<1>7. \A o, p \in born : Live(o) /\ Live(p) /\ sw'[o].addr = sw'[p].addr => o = p
  BY <1>1, <1>2, <1>3 DEF AddrInv
<1> QED
  BY <1>2, <1>4, <1>5, <1>6, <1>7 DEF AddrInv

\* Who is about to hook, after a step.
LEMMA StepHooking ==
  ASSUME TypeOK, RefInv, SwitchInv, NEW t \in Thread, Step(t)
  PROVE  /\ \A u \in Thread : Hooking(u) /\ (\E o \in held[u] : Live(o)) => Hooking(u)' /\ held'[u] = held[u]
         /\ \A u \in Thread : Hooking(u)' =>
              /\ op'[u] = op[u]
              /\ \/ Hooking(u) /\ held'[u] = held[u]
                 \/ pc[u] = "find" /\ u = t
<1>1. SwitchTypes /\ OpInv
  BY DEF SwitchInv
<1> DEFINE Other(u) == pc'[u] = pc[u] /\ op'[u] = op[u] /\ held'[u] = held[u]
           Good1 == Hooking(t) /\ (\E o \in held[t] : Live(o)) => Hooking(t)' /\ held'[t] = held[t]
           Good2 == Hooking(t)' => op'[t] = op[t] /\ ((Hooking(t) /\ held'[t] = held[t]) \/ pc[t] = "find")
           All == Good1 /\ Good2 /\ \A u \in Thread \ {t} : Other(u)
<1> SUFFICES All
  BY DEF Hooking
<1>2. ASSUME pc[t] \notin {"lock", "body"}, pc'[t] \notin {"lock", "body"} PROVE Good1 /\ Good2
  BY <1>2 DEF Hooking
<1>3. ASSUME NEW st \in Stub, CallHook(t, st) \/ CallUnhook(t, st) PROVE All
  <2>1. Begin(t, "get", {st.key}) \/ Begin(t, "find", {st.key})
    BY <1>3 DEF CallHook, CallUnhook
  <2>2. \A u \in Thread \ {t} : op'[u] = op[u]
    BY <1>1, <1>3 DEF CallHook, CallUnhook, SwitchTypes
  <2>3. UNCHANGED held /\ pc[t] = "idle" /\ pc'[t] = "find" /\ \A u \in Thread \ {t} : pc'[u] = pc[u]
    BY <2>1, BeginIs DEF Kind
  <2> QED
    BY <1>2, <2>2, <2>3
<1>4. ASSUME NEW keys \in Lib, CallDlclose(t, keys) PROVE All
  <2>1. Begin(t, "dlclose", keys) /\ op' = op
    BY <1>4 DEF CallDlclose
  <2>2. UNCHANGED held /\ pc[t] = "idle" /\ pc'[t] = "find" /\ \A u \in Thread \ {t} : pc'[u] = pc[u]
    BY <2>1, BeginIs DEF Kind
  <2> QED
    BY <1>2, <2>1, <2>2
<1>5. CASE FindNothing(t)
  <2>1. FindFails(t) /\ \A u \in Thread \ {t} : op'[u] = op[u]
    BY <1>1, <1>5 DEF FindNothing, SwitchTypes
  <2>2. UNCHANGED held /\ pc[t] = "find" /\ pc'[t] = "idle" /\ \A u \in Thread \ {t} : pc'[u] = pc[u]
    BY <2>1 DEF FindFails, TypeOK
  <2> QED
    BY <1>2, <2>1, <2>2
<1>6. CASE SkipDestroyed(t)
  <2>1. Skip(t) /\ op' = op
    BY <1>6 DEF SkipDestroyed
  <2>2. /\ UNCHANGED held /\ pc[t] = "body" /\ pc'[t] = "unlock" /\ Destroyed(self[t])
        /\ \A u \in Thread \ {t} : pc'[u] = pc[u]
    BY <2>1 DEF Skip, TypeOK
  <2>3. Hooking(t) => \A o \in held[t] : o = self[t]
    <3>1. Hooking(t) => call[t].kind # "dlclose"
      BY <1>1 DEF OpInv, OpOf, Hooking, NoOp
    <3> QED
      BY <2>2, <3>1 DEF RefInv, PlaceInv, Place
  <2>4. Good1
    BY <2>2, <2>3 DEF Live
  <2>5. Good2
    BY <2>2 DEF Hooking
  <2> QED
    BY <2>1, <2>2, <2>4, <2>5
<1>7. CASE EndCall(t)
  <2>1. /\ pc[t] = "release" /\ pc'[t] \in {"lock", "find", "idle"}
        /\ pc'[t] = "lock" => call[t].kind = "dlclose"
        /\ pc'[t] # "idle" => op' = op
        /\ pc'[t] = "idle" => op' = [op EXCEPT ![t] = NoOp]
    BY <1>7, EndIs
  <2>2. \A u \in Thread \ {t} : Other(u)
    BY <1>1, <1>7, EndIs DEF SwitchTypes
  <2>3. pc'[t] = "lock" => op'[t] = NoOp
    BY <1>1, <2>1 DEF OpInv, OpOf
  <2>4. Good1 /\ Good2
    BY <2>1, <2>3 DEF Hooking, NoOp
  <2> QED
    BY <2>2, <2>4
<1>8. CASE Inside(t)
  <2>1. /\ UNCHANGED <<held, op>> /\ pc[t] \notin {"idle", "find", "lock", "body", "release"}
        /\ pc'[t] \notin {"idle", "find", "lock", "body"} /\ \A u \in Thread \ {t} : pc'[u] = pc[u]
    BY <1>1, <1>8, InsideIs
  <2> QED
    BY <1>2, <2>1
<1>9. CASE FindHit(t) /\ UNCHANGED switchVars
  <2>1. /\ pc[t] = "find" /\ \A u \in Thread \ {t} : pc'[u] = pc[u] /\ held'[u] = held[u]
        /\ op' = op
    BY <1>9, HitIs DEF switchVars
  <2> QED
    BY <2>1 DEF Hooking
<1>10. CASE Lock(t) /\ UNCHANGED switchVars
  <2>1. /\ UNCHANGED <<held, op>> /\ pc[t] = "lock" /\ pc'[t] = "body" /\ \A u \in Thread \ {t} : pc'[u] = pc[u]
    BY <1>10 DEF switchVars, Lock, TypeOK
  <2> QED
    BY <2>1 DEF Hooking
<1>11. CASE Collect(t) /\ UNCHANGED switchVars
  <2>1. /\ op' = op /\ pc[t] = "find" /\ call[t].kind = "dlclose"
        /\ \A u \in Thread \ {t} : held'[u] = held[u] /\ pc'[u] = pc[u]
    BY <1>11, SweepIs DEF switchVars
  <2> QED
    BY <2>1 DEF Hooking
<1> QED
  BY <1>3, <1>4, <1>5, <1>6, <1>7, <1>8, <1>9, <1>10, <1>11 DEF Step

\* A switch without a target to jump from is still being hooked.
LEMMA StepFresh ==
  ASSUME TypeOK, RefInv, SwitchInv, ModesSettle, Quiet, NEW t \in Thread, Step(t)
  PROVE  FreshInv'
<1>1. SwitchTypes /\ OpInv /\ FreshInv
  BY DEF SwitchInv
<1>2. /\ born' = born /\ \A o : Live(o)' <=> Live(o)
      /\ \A o : Live(o) => o \in born /\ sw'[o] = sw[o]
  BY DEF Quiet, TypeOK, Live
<1>3. ASSUME NEW o \in born, Live(o), sw'[o].start = NULL
      PROVE  \E u \in Thread : Hooking(u)' /\ o \in held'[u]
  BY <1>1, <1>2, <1>3, StepHooking DEF FreshInv
<1>4. ASSUME NEW u \in Thread, Hooking(u)', op'[u].stub.kind = "unique",
             NEW o \in held'[u], Live(o), sw'[o].start = NULL
      PROVE  sw'[o].mode = "unique"
  <2>1. op'[u] = op[u] /\ sw'[o] = sw[o] /\ o \in born
    BY <1>2, <1>4, StepHooking
  <2>2. CASE Hooking(u) /\ held'[u] = held[u]
    BY <1>1, <1>4, <2>1, <2>2 DEF FreshInv, KindOf
  <2>3. CASE pc[u] = "find"
    <3>1. PICK v \in Thread : Hooking(v)
      BY <1>1, <1>4, <2>1 DEF FreshInv
    <3>2. v # u
      BY <2>3, <3>1 DEF Hooking
    <3>3. op[u].act = "hook" /\ op[u] \in Op
      BY <1>1, <1>4, <2>1 DEF Hooking, SwitchTypes
    <3>4. op[u].stub \in Stub
      BY <3>3 DEF Op, NoOp
    <3>5. op[u].stub.kind \in Modes
      BY <1>4, <2>1, <3>4 DEF Stub
    <3> QED
      BY <1>4, <2>1, <3>2, <3>5 DEF ModesSettle
  <2> QED
    BY <1>4, <2>2, <2>3, StepHooking
<1> QED
  BY <1>2, <1>3, <1>4 DEF FreshInv, KindOf

\* An unhook of a loaded target finds a live switch there ...
LEMMA FoundLive ==
  ASSUME TypeOK, RefInv, SwitchInv, NEW t \in Thread, pc[t] = "find", op[t].act = "unhook", KeyOf(t) \in mapped
  PROVE  tree[Target(t)] # NoObj /\ Live(tree[Target(t)])
<1>1. OpOf(t) /\ ClaimInv /\ AddrInv
  BY DEF SwitchInv, OpInv
<1>2. Claims(op[t].stub)
  BY DEF Claims, Pending, Early
<1>3. op[t].stub \in Stub /\ call[t].keys = {KeyOf(t)} /\ KeyOf(t) \in Key
  BY <1>1 DEF OpOf, NoOp, KeyOf, Stub
<1>4. PICK o \in born : Live(o) /\ sw[o].addr = KeyOf(t)
  BY <1>1, <1>2, <1>3 DEF ClaimInv, KeyOf
<1>5. tree[KeyOf(t)] = o /\ Target(t) = KeyOf(t)
  BY <1>1, <1>3, <1>4, TargetIsKey DEF AddrInv
<1>6. o # NoObj
  BY RefAssumption DEF TypeOK
<1> QED
  BY <1>4, <1>5, <1>6

\* ... that nobody destroys before the unhook has its lock.
LEMMA NotGone ==
  ASSUME TypeOK, RefInv, SwitchInv, NEW t \in Thread, pc[t] = "body", op[t].act = "unhook", KeyOf(t) \in mapped
  PROVE  ~Destroyed(self[t])
<1>1. self[t] \in held[t]
  BY DEF RefInv, PlaceInv, Place
<1>2. Pending(t)
  BY DEF Pending, Early
<1> QED
  BY <1>1, <1>2 DEF SwitchInv, ClaimInv, Live

\* What is being handed back, after a step that does not begin to hand anything back.
LEMMA StepPending ==
  ASSUME TypeOK, RefInv, SwitchInv, NEW t \in Thread, Step(t), \A st \in Stub : ~CallUnhook(t, st)
  PROVE  /\ stubs' = {st \in stubs : st.key \in mapped'}
         /\ \A u \in Thread : Pending(u)' =>
              /\ Pending(u) /\ op'[u] = op[u]
              /\ held'[u] = held[u] \/ (pc[u] = "find" /\ held'[u] = {tree[Target(u)]})
         /\ \A u \in Thread : Pending(u) /\ KeyOf(u) \in mapped' => Pending(u)' /\ op'[u] = op[u]
         /\ \A u \in Thread : op'[u].act = "unhook" /\ op'[u].stub.key \in mapped' =>
              op'[u] = op[u] /\ ret'[u] \in {ret[u], "ok"}
<1>1. SwitchTypes /\ OpInv /\ ClaimInv
  BY DEF SwitchInv
<1> DEFINE Stubs == stubs' = {st \in stubs : st.key \in mapped'}
           Moved(u) ==
             /\ Pending(u)' =>
                  /\ Pending(u) /\ op'[u] = op[u]
                  /\ held'[u] = held[u] \/ (pc[u] = "find" /\ held'[u] = {tree[Target(u)]})
             /\ Pending(u) /\ KeyOf(u) \in mapped' => Pending(u)' /\ op'[u] = op[u]
             /\ op'[u].act = "unhook" /\ op'[u].stub.key \in mapped' =>
                  op'[u] = op[u] /\ ret'[u] \in {ret[u], "ok"}
<1> SUFFICES Stubs /\ \A u \in Thread : Moved(u)
  OBVIOUS
<1>2. ASSUME stubs' = stubs, mapped' = mapped PROVE Stubs
  BY <1>1, <1>2 DEF ClaimInv
<1>3. ASSUME NEW u \in Thread, pc'[u] = pc[u], op'[u] = op[u], held'[u] = held[u], ret'[u] = ret[u]
      PROVE  Moved(u)
  BY <1>3 DEF Pending, Early
<1>4. ASSUME NEW st \in Stub, CallHook(t, st) PROVE Stubs /\ \A u \in Thread : Moved(u)
  <2>1. Begin(t, "get", {st.key}) /\ UNCHANGED <<mapped, stubs>> /\ ret' = [ret EXCEPT ![t] = "ok"]
        /\ op' = [op EXCEPT ![t] = [act |-> "hook", stub |-> st]]
    BY <1>4 DEF CallHook, Returns
  <2>2. UNCHANGED held /\ pc[t] = "idle" /\ \A u \in Thread \ {t} : pc'[u] = pc[u]
    BY <2>1, BeginIs DEF Kind
  <2>3. op'[t].act = "hook" /\ \A u \in Thread \ {t} : op'[u] = op[u] /\ ret'[u] = ret[u]
    BY <1>1, <2>1 DEF SwitchTypes
  <2>4. Moved(t)
    BY <2>2, <2>3 DEF Pending, Early
  <2> QED
    BY <1>2, <1>3, <2>1, <2>2, <2>3, <2>4
<1>5. ASSUME NEW keys \in Lib, CallDlclose(t, keys) PROVE Stubs /\ \A u \in Thread : Moved(u)
  <2>1. Begin(t, "dlclose", keys) /\ op' = op /\ mapped' = mapped \ keys
        /\ (\A u \in Thread \ {t} : ret'[u] = ret[u])
        /\ stubs' = {st \in stubs : st.key \notin keys}
    BY <1>1, <1>5 DEF CallDlclose, Returns, SwitchTypes
  <2>2. UNCHANGED held /\ pc[t] = "idle" /\ \A u \in Thread \ {t} : pc'[u] = pc[u]
    BY <2>1, BeginIs DEF Kind
  <2>3. op[t].act = "none"
    BY <1>1, <2>2 DEF OpInv, OpOf, NoOp
  <2>4. Moved(t)
    BY <2>1, <2>3 DEF Pending
  <2>5. Stubs
    BY <1>1, <2>1 DEF ClaimInv
  <2> QED
    BY <1>3, <2>1, <2>2, <2>4, <2>5
<1>6. CASE FindNothing(t)
  <2>1. FindFails(t) /\ op' = [op EXCEPT ![t] = NoOp] /\ UNCHANGED <<mapped, stubs>>
        /\ \A u \in Thread \ {t} : ret'[u] = ret[u]
    BY <1>1, <1>6 DEF FindNothing, Returns, SwitchTypes
  <2>2. UNCHANGED held /\ pc[t] = "find" /\ tree[Target(t)] = NoObj /\ \A u \in Thread \ {t} : pc'[u] = pc[u]
    BY <2>1 DEF FindFails, TypeOK
  <2>3. op'[t].act = "none" /\ \A u \in Thread \ {t} : op'[u] = op[u]
    BY <1>1, <2>1 DEF SwitchTypes, NoOp
  <2>4. Moved(t)
    BY <2>1, <2>2, <2>3, FoundLive DEF Pending
  <2> QED
    BY <1>2, <1>3, <2>1, <2>2, <2>3, <2>4
<1>7. CASE SkipDestroyed(t)
  <2>1. Skip(t) /\ UNCHANGED <<op, mapped, stubs>> /\ \A u \in Thread \ {t} : ret'[u] = ret[u]
    BY <1>1, <1>7 DEF SkipDestroyed, Returns, SwitchTypes
  <2>2. /\ UNCHANGED held /\ pc[t] = "body" /\ pc'[t] = "unlock" /\ Destroyed(self[t])
        /\ \A u \in Thread \ {t} : pc'[u] = pc[u]
    BY <2>1 DEF Skip, TypeOK
  <2>3. op[t].act = "unhook" => KeyOf(t) \notin mapped
    BY <2>2, NotGone
  <2>4. Moved(t)
    BY <2>1, <2>2, <2>3 DEF Pending, Early, KeyOf
  <2> QED
    BY <1>2, <1>3, <2>1, <2>2, <2>4
<1>8. CASE EndCall(t)
  <2>1. /\ UNCHANGED <<mapped, stubs>> /\ pc[t] = "release" /\ pc'[t] \in {"lock", "find", "idle"}
        /\ pc'[t] = "lock" => call[t].kind = "dlclose"
        /\ pc'[t] = "find" => again[t]
        /\ pc'[t] # "idle" => op' = op
        /\ pc'[t] = "idle" => op' = [op EXCEPT ![t] = NoOp]
        /\ ret' = [ret EXCEPT ![t] = "ok"]
        /\ \A u \in Thread \ {t} : held'[u] = held[u] /\ pc'[u] = pc[u]
    BY <1>8, EndIs
  <2>2. \A u \in Thread \ {t} : op'[u] = op[u] /\ ret'[u] = ret[u]
    BY <1>1, <2>1 DEF SwitchTypes
  <2>3. op'[t].act # "unhook"
    BY <1>1, <2>1 DEF OpInv, OpOf, SwitchTypes, NoOp
  <2>4. Moved(t)
    BY <2>1, <2>3 DEF Pending, Early
  <2> QED
    BY <1>2, <1>3, <2>1, <2>2, <2>4
<1>9. CASE Inside(t)
  <2>1. /\ UNCHANGED <<held, op, ret, mapped, stubs>>
        /\ pc[t] \notin {"idle", "find", "lock", "body", "release"}
        /\ pc'[t] \notin {"idle", "find", "lock", "body"} /\ \A u \in Thread \ {t} : pc'[u] = pc[u]
    BY <1>1, <1>9, InsideIs
  <2>2. Moved(t)
    BY <2>1 DEF Pending, Early
  <2> QED
    BY <1>2, <1>3, <2>1, <2>2
<1>10. CASE FindHit(t) /\ UNCHANGED switchVars
  <2>1. /\ pc[t] = "find" /\ pc'[t] = "lock" /\ \A u \in Thread \ {t} : pc'[u] = pc[u] /\ held'[u] = held[u]
        /\ held'[t] = {tree[Target(t)]} /\ UNCHANGED <<op, ret, mapped, stubs>>
    BY <1>10, HitIs DEF switchVars
  <2>2. Moved(t)
    BY <2>1 DEF Pending, Early
  <2> QED
    BY <1>2, <1>3, <2>1, <2>2
<1>11. CASE Lock(t) /\ UNCHANGED switchVars
  <2>1. /\ UNCHANGED <<held, op, ret, mapped, stubs>> /\ pc[t] = "lock" /\ pc'[t] = "body"
        /\ \A u \in Thread \ {t} : pc'[u] = pc[u]
    BY <1>11 DEF switchVars, Lock, TypeOK
  <2>2. Moved(t)
    BY <2>1 DEF Pending, Early
  <2> QED
    BY <1>2, <1>3, <2>1, <2>2
<1>12. CASE Collect(t) /\ UNCHANGED switchVars
  <2>1. /\ UNCHANGED <<op, ret, mapped, stubs>> /\ pc[t] = "find" /\ call[t].kind = "dlclose"
        /\ \A u \in Thread \ {t} : held'[u] = held[u] /\ pc'[u] = pc[u]
    BY <1>12, SweepIs DEF switchVars
  <2>2. op[t].act = "none"
    BY <1>1, <2>1 DEF OpInv, OpOf, NoOp
  <2>3. Moved(t)
    BY <2>1, <2>2 DEF Pending
  <2> QED
    BY <1>2, <1>3, <2>1, <2>3
<1> QED
  BY <1>4, <1>5, <1>6, <1>7, <1>8, <1>9, <1>10, <1>11, <1>12 DEF Step

\* The claims, after a step.
LEMMA StepClaims ==
  ASSUME TypeOK, RefInv, SwitchInv, Quiet, NEW t \in Thread, Step(t)
  PROVE  ClaimInv' /\ OwnedInv' /\ AnswerInv'
<1>1. SwitchTypes /\ OpInv /\ AddrInv /\ ClaimInv /\ OwnedInv /\ AnswerInv /\ mapped' \subseteq mapped
  BY StepTypes DEF SwitchInv
<1>2. /\ born' = born /\ residue' = residue /\ \A o : Live(o)' <=> Live(o)
      /\ \A o : Live(o) => o \in born /\ sw'[o] = sw[o]
  BY DEF Quiet, TypeOK, Live
<1> DEFINE Kept == /\ \A st \in AnyStub : st.key \in mapped' => (Claims(st)' <=> Claims(st))
                   /\ \A st \in stubs' : st.key \in mapped' /\ Proper(st)
                   /\ \A u \in Thread : Pending(u)' =>
                        /\ op'[u].stub \notin stubs'
                        /\ \A v \in Thread : Pending(v)' /\ op'[v].stub = op'[u].stub => v = u
                        /\ op'[u].stub.key \in mapped' => \A o \in held'[u] : Live(o)
                   /\ AnswerInv'
<1>3. ASSUME NEW st \in Stub, CallUnhook(t, st) PROVE Kept
  <2>1. /\ st \in stubs /\ Begin(t, "find", {st.key}) /\ UNCHANGED mapped
        /\ ret' = [ret EXCEPT ![t] = "ok"]
        /\ op' = [op EXCEPT ![t] = [act |-> "unhook", stub |-> st]]
        /\ stubs' = stubs \ {st}
    BY <1>3 DEF CallUnhook, Returns
  <2>2. /\ UNCHANGED held /\ pc[t] = "idle" /\ pc'[t] = "find" /\ held[t] = {}
        /\ \A u \in Thread \ {t} : pc'[u] = pc[u]
    BY <2>1, BeginIs DEF Kind
  <2>3. op'[t] = [act |-> "unhook", stub |-> st] /\ \A u \in Thread \ {t} : op'[u] = op[u]
    BY <1>1, <2>1 DEF SwitchTypes
  <2>4. /\ Pending(t)' /\ ~Pending(t) /\ op'[t].stub = st
        /\ \A u \in Thread \ {t} : Pending(u)' <=> Pending(u)
    BY <2>2, <2>3 DEF Pending, Early
  <2>5. \A c \in AnyStub : Claims(c)' <=> Claims(c)
    BY <2>1, <2>3, <2>4 DEF Claims
  <2>6. \A c \in stubs' : c.key \in mapped' /\ Proper(c)
    BY <1>1, <2>1 DEF ClaimInv
  <2>7. ASSUME NEW u \in Thread, Pending(u)'
        PROVE  /\ op'[u].stub \notin stubs'
               /\ \A v \in Thread : Pending(v)' /\ op'[v].stub = op'[u].stub => v = u
               /\ op'[u].stub.key \in mapped' => \A o \in held'[u] : Live(o)
    <3>1. \A v \in Thread \ {t} : Pending(v) => op[v].stub \notin stubs
      BY <1>1 DEF ClaimInv
    <3>2. CASE u = t
      BY <2>1, <2>2, <2>3, <2>4, <3>1, <3>2
    <3>3. CASE u # t
      BY <1>1, <2>1, <2>2, <2>3, <2>4, <2>7, <3>1, <3>3 DEF ClaimInv, KeyOf
    <3> QED
      BY <3>2, <3>3
  <2>8. AnswerInv'
    <3>1. ret'[t] = "ok" /\ \A u \in Thread \ {t} : ret'[u] = ret[u]
      BY <1>1, <2>1 DEF SwitchTypes
    <3> QED
      BY <1>1, <2>1, <2>3, <3>1 DEF AnswerInv, KeyOf
  <2> QED
    BY <2>5, <2>6, <2>7, <2>8
<1>4. ASSUME \A st \in Stub : ~CallUnhook(t, st) PROVE Kept
  <2>1. /\ stubs' = {st \in stubs : st.key \in mapped'}
        /\ \A u \in Thread : Pending(u)' =>
             /\ Pending(u) /\ op'[u] = op[u]
             /\ held'[u] = held[u] \/ (pc[u] = "find" /\ held'[u] = {tree[Target(u)]})
        /\ \A u \in Thread : Pending(u) /\ KeyOf(u) \in mapped' => Pending(u)' /\ op'[u] = op[u]
        /\ \A u \in Thread : op'[u].act = "unhook" /\ op'[u].stub.key \in mapped' =>
             op'[u] = op[u] /\ ret'[u] \in {ret[u], "ok"}
    BY <1>4, StepPending, Zenon
  <2>2. \A st \in AnyStub : st.key \in mapped' => (Claims(st)' <=> Claims(st))
    BY <2>1 DEF Claims, KeyOf
  <2>3. \A c \in stubs' : c.key \in mapped' /\ Proper(c)
    BY <1>1, <2>1 DEF ClaimInv
  <2>4. ASSUME NEW u \in Thread, Pending(u)'
        PROVE  /\ op'[u].stub \notin stubs'
               /\ \A v \in Thread : Pending(v)' /\ op'[v].stub = op'[u].stub => v = u
               /\ op'[u].stub.key \in mapped' => \A o \in held'[u] : Live(o)
    <3>1. Pending(u) /\ op'[u] = op[u] /\ (held'[u] = held[u] \/ (pc[u] = "find" /\ held'[u] = {tree[Target(u)]}))
      BY <2>1, <2>4
    <3>2. op'[u].stub \notin stubs' /\ \A v \in Thread : Pending(v)' /\ op'[v].stub = op'[u].stub => v = u
      BY <1>1, <2>1, <3>1 DEF ClaimInv
    <3>3. ASSUME op[u].stub.key \in mapped' PROVE \A o \in held'[u] : Live(o)
      <4>1. KeyOf(u) \in mapped
        BY <1>1, <3>3 DEF KeyOf
      <4>2. CASE held'[u] = held[u]
        BY <1>1, <3>1, <4>1, <4>2 DEF ClaimInv
      <4>3. CASE pc[u] = "find" /\ held'[u] = {tree[Target(u)]}
        BY <3>1, <4>1, <4>3, FoundLive DEF Pending
      <4> QED
        BY <3>1, <4>2, <4>3
    <3> QED
      BY <3>1, <3>2, <3>3
  <2>5. AnswerInv'
    BY <1>1, <2>1 DEF AnswerInv, KeyOf
  <2> QED
    BY <2>2, <2>3, <2>4, <2>5
<1>5. Kept
  BY <1>3, <1>4
<1> HIDE DEF Kept
<1>6. /\ \A st \in AnyStub : st.key \in mapped' => (Claims(st)' <=> Claims(st))
      /\ \A st \in stubs' : st.key \in mapped' /\ Proper(st)
      /\ \A u \in Thread : Pending(u)' =>
           /\ op'[u].stub \notin stubs'
           /\ \A v \in Thread : Pending(v)' /\ op'[v].stub = op'[u].stub => v = u
           /\ op'[u].stub.key \in mapped' => \A o \in held'[u] : Live(o)
      /\ AnswerInv'
  BY <1>5 DEF Kept
<1>7. ClaimInv'
  <2>1. ASSUME NEW st \in Stub, Claims(st)', st.key \in mapped'
        PROVE  \E o \in born : Live(o) /\ sw'[o].addr = st.key /\ In(st, sw'[o])
    <3>1. Claims(st) /\ st.key \in mapped
      BY <1>1, <1>6, <2>1, StubIsAny
    <3>2. PICK o \in born : Live(o) /\ sw[o].addr = st.key /\ In(st, sw[o])
      BY <1>1, <3>1 DEF ClaimInv
    <3> QED
      BY <1>2, <3>2
  <2> QED
    BY <1>2, <1>6, <2>1 DEF ClaimInv, KeyOf, Proper
<1>8. OwnedInv'
  <2>1. ASSUME NEW o \in born, Live(o), sw'[o].addr \in mapped', NEW st \in AnyStub, st.key = sw'[o].addr, In(st, sw'[o])
        PROVE  Claims(st)' \/ st \in residue
    <3>1. sw'[o] = sw[o] /\ sw[o].addr \in mapped
      BY <1>1, <1>2, <2>1
    <3>2. Claims(st) \/ st \in residue
      BY <1>1, <2>1, <3>1 DEF OwnedInv
    <3> QED
      BY <1>6, <2>1, <3>2
  <2> QED
    BY <1>2, <2>1 DEF OwnedInv
<1> QED
  BY <1>6, <1>7, <1>8

-----------------------------------------------------------------------------
(* A new switch.                                                           *)

LEMMA CreateIs ==
  ASSUME TypeOK, RefInv, SwitchInv, NEW t \in Thread, CreateSwitch(t)
  PROVE  \E o \in Obj \ born :
           LET k == KeyOf(t)
           IN /\ op[t].act = "hook" /\ k \in mapped /\ k \in Key /\ call[t].keys = {k} /\ call[t].kind = "get"
              /\ tree[k] = NoObj /\ born' = born \cup {o} /\ tree'[k] = o
              /\ \A j \in Key : j # k => tree'[j] = tree[j]
              /\ held'[t] = {o} /\ \A u \in Thread \ {t} : held'[u] = held[u] /\ pc'[u] = pc[u]
              /\ pc[t] = "find" /\ pc'[t] = "lock"
              /\ UNCHANGED <<call, self, destroyTs, again, code, mapped, op, ret, stubs, residue>>
              /\ sw'[o] \in Switch /\ Whole(sw'[o]) /\ sw'[o].start = NULL /\ sw'[o].addr = k
              /\ KindOf(t) = "unique" => sw'[o].mode = "unique"
              /\ sw' \in [Obj -> Switch] /\ \A p \in Obj : p # o => sw'[p] = sw[p]
<1>1. OpOf(t) /\ SwitchTypes
  BY DEF SwitchInv, OpInv
<1>2. FindCreate(t) /\ UNCHANGED <<code, mapped, op, ret, stubs, residue>>
  BY DEF CreateSwitch
<1>3. pc[t] = "find" /\ call[t].kind = "get"
  BY <1>2 DEF FindCreate
<1> DEFINE k == KeyOf(t)
<1>4. op[t].act = "hook" /\ k \in mapped /\ k \in Key /\ call[t].keys = {k} /\ op[t].stub \in Stub
  BY <1>1, <1>3 DEF OpOf, NoOp, KeyOf, Stub
<1>5. Target(t) = k
  BY <1>4, TargetIsKey
<1> HIDE DEF k
<1> DEFINE o == CHOOSE x \in Obj \ born : TRUE
<1>6. o \in Obj \ born /\ tree[k] = NoObj
  BY <1>2, <1>5 DEF FindCreate
<1>7. /\ born' = born \cup {o} /\ tree' = [tree EXCEPT ![k] = o] /\ held' = [held EXCEPT ![t] = {o}]
      /\ pc' = [pc EXCEPT ![t] = "lock"] /\ UNCHANGED <<call, self, destroyTs, again>>
  BY <1>2, <1>5 DEF FindCreate
<1> HIDE DEF o
<1>8. /\ tree'[k] = o /\ \A j \in Key : j # k => tree'[j] = tree[j]
      /\ held'[t] = {o} /\ pc'[t] = "lock"
      /\ \A u \in Thread \ {t} : held'[u] = held[u] /\ pc'[u] = pc[u]
  BY <1>4, <1>7 DEF TypeOK
<1> DEFINE mode == CASE KindOf(t) = "unique" -> "unique"
                     [] KindOf(t) \in {"multi", "shared"} -> "queue"
                     [] KindOf(t) = "intercept" -> "none"
           new == Created(mode, k)
<1>9. sw' = [p \in Obj |-> IF p \in born' \ born THEN new ELSE sw[p]]
  BY DEF CreateSwitch, Created, k
<1>10. mode \in {"none", "unique", "queue"} /\ (KindOf(t) = "unique" => mode = "unique")
  BY <1>4, SwitchAssumption DEF Stub, KindOf
<1> HIDE DEF mode
<1>11. new \in Switch /\ Whole(new) /\ new.start = NULL /\ new.mode = mode /\ new.addr = k
  <2>1. mode \in {"none", "unique", "queue"} /\ k \in Key
    BY <1>4, <1>10
  <2> QED
    BY <2>1, NewIsWhole
<1> HIDE DEF new
<1>12. sw'[o] = new /\ \A p \in Obj : p # o => sw'[p] = sw[p]
  BY <1>6, <1>7, <1>9
<1>13. sw' \in [Obj -> Switch]
  BY <1>1, <1>9, <1>11 DEF SwitchTypes
<1>14. /\ op[t].act = "hook" /\ k \in mapped /\ k \in Key /\ call[t].keys = {k} /\ call[t].kind = "get"
       /\ tree[k] = NoObj /\ born' = born \cup {o} /\ tree'[k] = o
       /\ \A j \in Key : j # k => tree'[j] = tree[j]
       /\ held'[t] = {o} /\ \A u \in Thread \ {t} : held'[u] = held[u] /\ pc'[u] = pc[u]
       /\ pc[t] = "find" /\ pc'[t] = "lock"
       /\ UNCHANGED <<call, self, destroyTs, again, code, mapped, op, ret, stubs, residue>>
       /\ sw'[o] \in Switch /\ Whole(sw'[o]) /\ sw'[o].start = NULL /\ sw'[o].addr = k
       /\ KindOf(t) = "unique" => sw'[o].mode = "unique"
       /\ sw' \in [Obj -> Switch] /\ \A p \in Obj : p # o => sw'[p] = sw[p]
  BY <1>2, <1>3, <1>4, <1>6, <1>7, <1>8, <1>10, <1>11, <1>12, <1>13
<1> QED
  BY <1>6, <1>14 DEF k

LEMMA CreateInv ==
  ASSUME TypeOK, RefInv, SwitchInv, NEW t \in Thread, CreateSwitch(t)
  PROVE  SwitchInv'
<1> DEFINE k == KeyOf(t)
<1>1. PICK o \in Obj \ born :
        /\ op[t].act = "hook" /\ k \in mapped /\ k \in Key /\ call[t].keys = {k} /\ call[t].kind = "get"
        /\ tree[k] = NoObj /\ born' = born \cup {o} /\ tree'[k] = o
        /\ \A j \in Key : j # k => tree'[j] = tree[j]
        /\ held'[t] = {o} /\ \A u \in Thread \ {t} : held'[u] = held[u] /\ pc'[u] = pc[u]
        /\ pc[t] = "find" /\ pc'[t] = "lock"
        /\ UNCHANGED <<call, self, destroyTs, again, code, mapped, op, ret, stubs, residue>>
        /\ sw'[o] \in Switch /\ Whole(sw'[o]) /\ sw'[o].start = NULL /\ sw'[o].addr = k
        /\ KindOf(t) = "unique" => sw'[o].mode = "unique"
        /\ sw' \in [Obj -> Switch] /\ \A p \in Obj : p # o => sw'[p] = sw[p]
  BY CreateIs
<1>2. /\ SwitchTypes /\ OpInv /\ AddrInv /\ WholeInv /\ FreshInv
      /\ ClaimInv /\ OwnedInv /\ TopInv /\ PatchInv /\ AnswerInv
  BY DEF SwitchInv
<1>3. /\ destroyTs[o] = 0 /\ o # NoObj
      /\ \A u \in Thread : o \notin held[u]
      /\ \A j \in Key : tree[j] # o
      /\ \A u \in Thread : pc[u] \in {"untree", "stamp"} => self[u] # o
  <2>1. destroyTs[o] = 0 /\ Holders(o) = {} /\ \A j \in Key : tree[j] # o
    BY DEF RefInv, UnbornInv
  <2>2. \A u \in Thread : o \notin held[u]
    BY <2>1 DEF Holders
  <2>3. \A u \in Thread : pc[u] \in {"untree", "stamp"} => self[u] # o
    BY <2>2 DEF RefInv, PlaceInv, Place
  <2> QED
    BY <2>1, <2>2, <2>3, RefAssumption
<1>4. /\ Live(o)' /\ ~Live(o)
      /\ \A p : p # o => (Live(p)' <=> Live(p))
      /\ \A p : Live(p) => p \in born /\ p \in Obj /\ p # o /\ sw'[p] = sw[p]
  BY <1>1, <1>3 DEF Live, Destroyed, TypeOK
<1>5. \A u \in Thread : KeyOf(u)' = KeyOf(u) /\ KindOf(u)' = KindOf(u)
  BY <1>1 DEF KeyOf, KindOf
<1>6. \A u \in Thread : Pending(u)' <=> Pending(u)
  BY <1>1 DEF Pending, Early
<1>7. \A st : Claims(st)' <=> Claims(st)
  BY <1>1, <1>6 DEF Claims
<1> HIDE DEF k
<1>8. SwitchTypes'
  BY <1>1, <1>2 DEF SwitchTypes
<1>9. OpInv'
  <2>1. ASSUME NEW u \in Thread PROVE OpOf(u)'
    <3>1. OpOf(u)
      BY <1>2 DEF OpInv
    <3> QED
      BY <1>1, <3>1 DEF OpOf, Early, KeyOf
  <2> QED
    BY <2>1 DEF OpInv
<1>10. AddrInv'
  <2>1. \A j \in Key : tree'[j] # NoObj => sw'[tree'[j]].addr = j
    BY <1>1, <1>2, <1>3 DEF AddrInv, TypeOK
  <2>2. \A u \in Thread : \A p \in held'[u] : sw'[p].addr \in call[u].keys
    BY <1>1, <1>2, <1>3 DEF AddrInv, TypeOK
  <2>3. ASSUME NEW p \in born', Live(p)'
        PROVE  /\ sw'[p].addr \in Key
               /\ \/ tree'[sw'[p].addr] = p
                  \/ sw'[p].addr \notin mapped /\ \E u \in Thread : call[u].kind = "dlclose" /\ p \in held'[u]
    <3>1. CASE p = o
      BY <1>1, <3>1
    <3>2. CASE p # o
      <4>1. Live(p) /\ p \in born /\ sw'[p] = sw[p] /\ p # NoObj
        BY <1>4, <2>3, <3>2, RefAssumption
      <4>2. sw[p].addr \in Key
        BY <1>2, <4>1 DEF AddrInv
      <4>3. CASE tree[sw[p].addr] = p
        BY <1>1, <4>1, <4>2, <4>3
      <4>4. CASE sw[p].addr \notin mapped /\ \E u \in Thread : call[u].kind = "dlclose" /\ p \in held[u]
        BY <1>1, <4>1, <4>2, <4>4
      <4> QED
        BY <1>2, <4>1, <4>3, <4>4 DEF AddrInv
    <3> QED
      BY <3>1, <3>2
  <2>4. \A p \in born : Live(p) => sw[p].addr # k
    BY <1>1, <1>2, <1>4, RefAssumption DEF AddrInv
  <2>5. \A p, q \in born' : Live(p)' /\ Live(q)' /\ sw'[p].addr = sw'[q].addr => p = q
    BY <1>1, <1>2, <1>4, <2>4 DEF AddrInv
  <2> QED
    BY <1>1, <2>1, <2>2, <2>3, <2>5 DEF AddrInv
<1>11. WholeInv'
  BY <1>1, <1>2, <1>4 DEF WholeInv
<1>12. FreshInv'
  <2>1. ASSUME NEW p \in born', Live(p)', sw'[p].start = NULL
        PROVE  \E u \in Thread : Hooking(u)' /\ p \in held'[u]
    <3>1. CASE p = o
      <4>1. Hooking(t)' /\ p \in held'[t]
        BY <1>1, <3>1 DEF Hooking
      <4> QED
        BY <4>1
    <3>2. CASE p # o
      <4>1. PICK u \in Thread : Hooking(u) /\ p \in held[u]
        BY <1>2, <1>4, <2>1, <3>2 DEF FreshInv
      <4>2. Hooking(u)' /\ p \in held'[u]
        BY <1>1, <4>1 DEF Hooking
      <4> QED
        BY <4>2
    <3> QED
      BY <3>1, <3>2
  <2>2. ASSUME NEW u \in Thread, Hooking(u)', KindOf(u) = "unique", NEW p \in held'[u], Live(p)', sw'[p].start = NULL
        PROVE  sw'[p].mode = "unique"
    <3>1. CASE u = t
      BY <1>1, <2>2, <3>1
    <3>2. CASE u # t
      <4>1. Hooking(u) /\ p \in held[u] /\ p # o
        BY <1>1, <1>3, <2>2, <3>2 DEF Hooking
      <4> QED
        BY <1>2, <1>4, <2>2, <4>1 DEF FreshInv
    <3> QED
      BY <3>1, <3>2
  <2> QED
    BY <1>5, <2>1, <2>2 DEF FreshInv
<1>13. ClaimInv'
  <2>1. \A st \in stubs' : st.key \in mapped' /\ Proper(st)'
    BY <1>1, <1>2 DEF ClaimInv, Proper
  <2>2. ASSUME NEW st \in Stub, Claims(st)', st.key \in mapped
        PROVE  \E p \in born' : Live(p)' /\ sw'[p].addr = st.key /\ In(st, sw'[p])
    <3>1. PICK p \in born : Live(p) /\ sw[p].addr = st.key /\ In(st, sw[p])
      BY <1>2, <1>7, <2>2 DEF ClaimInv
    <3> QED
      BY <1>1, <1>4, <3>1
  <2>3. ASSUME NEW u \in Thread, Pending(u)'
        PROVE  /\ op[u].stub \notin stubs'
               /\ \A v \in Thread : Pending(v)' /\ op[v].stub = op[u].stub => v = u
               /\ KeyOf(u) \in mapped => \A p \in held'[u] : Live(p)'
    <3>1. Pending(u) /\ u # t
      BY <1>1, <1>6, <2>3 DEF Pending
    <3> QED
      BY <1>1, <1>2, <1>4, <1>6, <3>1 DEF ClaimInv
  <2> QED
    BY <1>1, <1>5, <2>1, <2>2, <2>3 DEF ClaimInv
<1>14. OwnedInv'
  <2>1. ASSUME NEW p \in born', Live(p)', sw'[p].addr \in mapped, NEW st \in AnyStub, st.key = sw'[p].addr, In(st, sw'[p])
        PROVE  Claims(st) \/ st \in residue
    <3>1. CASE p = o
      BY <1>1, <2>1, <3>1, UnstartedIsEmpty DEF Nobody
    <3>2. CASE p # o
      BY <1>2, <1>4, <2>1, <3>2 DEF OwnedInv
    <3> QED
      BY <3>1, <3>2
  <2> QED
    BY <1>1, <1>7, <2>1 DEF OwnedInv
<1>15. TopInv'
  <2>1. ASSUME NEW p \in born', Live(p)', sw'[p].start # NULL
        PROVE  code[sw'[p].addr] # <<>> /\ Head(code[sw'[p].addr]) = [sw |-> p, to |-> sw'[p].start]
    <3>1. p # o
      BY <1>1, <2>1
    <3>2. Live(p) /\ p \in born /\ sw'[p] = sw[p]
      BY <1>4, <2>1, <3>1
    <3> QED
      BY <1>2, <2>1, <3>2 DEF TopInv
  <2> QED
    BY <1>1, <2>1 DEF TopInv
<1>16. PatchInv'
  <2>1. ASSUME "unhook" \notin Faults, NEW j \in Key, code[j] # <<>>
        PROVE  /\ Len(code[j]) = 1
               /\ \E p \in born' : Live(p)' /\ sw'[p].addr = j /\ Head(code[j]) = [sw |-> p, to |-> sw'[p].start]
    <3>1. PICK p \in born : Live(p) /\ sw[p].addr = j /\ Head(code[j]) = [sw |-> p, to |-> sw[p].start]
      BY <1>2, <2>1 DEF PatchInv
    <3>2. Live(p)' /\ sw'[p] = sw[p] /\ p \in born'
      BY <1>1, <1>4, <3>1
    <3>3. Len(code[j]) = 1
      BY <1>2, <2>1 DEF PatchInv
    <3> QED
      BY <3>1, <3>2, <3>3
  <2> QED
    BY <1>1, <2>1 DEF PatchInv
<1>17. AnswerInv'
  BY <1>1, <1>2 DEF AnswerInv, KeyOf
<1> QED
  BY <1>8, <1>9, <1>10, <1>11, <1>12, <1>13, <1>14, <1>15, <1>16, <1>17 DEF SwitchInv

-----------------------------------------------------------------------------
(* The invariant.                                                          *)

LEMMA SwitchInvInit == Init => SwitchInv
<1> SUFFICES ASSUME Init PROVE SwitchInv
  OBVIOUS
<1>1. /\ pc = [t \in Thread |-> "idle"] /\ call = [t \in Thread |-> NoCall] /\ born = {}
      /\ held = [t \in Thread |-> {}] /\ again = [t \in Thread |-> FALSE]
      /\ tree = [k \in Key |-> NoObj]
  BY DEF Init, RefInit
<1>2. /\ sw = [o \in Obj |-> NewSwitch] /\ code = [k \in Key |-> <<>>] /\ mapped = Key
      /\ op = [t \in Thread |-> NoOp] /\ ret = [t \in Thread |-> "ok"] /\ stubs = {}
  BY DEF Init
<1>3. SwitchTypes
  BY <1>2, NewSwitchTyped, EmptySeq DEF SwitchTypes, Op, Result
<1>4. OpInv
  BY <1>1, <1>2 DEF OpInv, OpOf, NoOp
<1>5. AddrInv /\ WholeInv /\ TopInv /\ OwnedInv
  BY <1>1 DEF AddrInv, WholeInv, TopInv, OwnedInv
<1>6. FreshInv
  BY <1>1, <1>2 DEF FreshInv, Hooking, NoOp
<1>7. ClaimInv
  BY <1>1, <1>2 DEF ClaimInv, Claims, Pending, Early
<1>8. PatchInv
  BY <1>2 DEF PatchInv
<1>9. AnswerInv
  BY <1>2 DEF AnswerInv
<1> QED
  BY <1>3, <1>4, <1>5, <1>6, <1>7, <1>8, <1>9 DEF SwitchInv

\* Nothing but the clock.
LEMMA StillInv ==
  ASSUME SwitchInv, UNCHANGED <<tree, born, destroyTs, pc, call, self, held, again, switchVars>>
  PROVE  SwitchInv'
<1>1. UNCHANGED <<tree, born, destroyTs, pc, call, self, held, again, sw, code, mapped, op, ret, stubs, residue>>
  BY DEF switchVars
<1>2. (\A o : Live(o)' <=> Live(o)) /\ \A st : Claims(st)' <=> Claims(st)
  BY <1>1 DEF Live, Destroyed, Claims, Pending, Early
<1>3. SwitchTypes' /\ OpInv' /\ AnswerInv'
  BY <1>1 DEF SwitchInv, SwitchTypes, OpInv, OpOf, Early, KeyOf, AnswerInv
<1>4. AddrInv' /\ WholeInv' /\ TopInv' /\ PatchInv'
  BY <1>1, <1>2 DEF SwitchInv, AddrInv, WholeInv, TopInv, PatchInv
<1>5. FreshInv'
  BY <1>1, <1>2 DEF SwitchInv, FreshInv, Hooking, KindOf
<1>6. ClaimInv' /\ OwnedInv'
  BY <1>1, <1>2 DEF SwitchInv, ClaimInv, OwnedInv, Pending, Early, KeyOf, Proper
<1> QED
  BY <1>3, <1>4, <1>5, <1>6 DEF SwitchInv

LEMMA SwitchInvStep ==
  ASSUME ModesSettle, TypeOK, TypeOK', RefInv, SwitchInv, [Next]_vars
  PROVE  SwitchInv'
<1>1. CASE UNCHANGED vars \/ (Tick /\ UNCHANGED switchVars)
  BY <1>1, StillInv DEF vars, refVars, Tick
<1>2. ASSUME NEW t \in Thread, Step(t) PROVE SwitchInv'
  <2>1. SwitchTypes /\ AddrInv /\ WholeInv /\ TopInv /\ PatchInv
    BY DEF SwitchInv
  <2>2. Quiet
    BY <1>2, <2>1, QuietIs
  <2>3. SwitchTypes' /\ OpInv' /\ AddrInv' /\ FreshInv'
    BY <1>2, <2>1, <2>2, StepTypes, StepOp, StepAddr, StepFresh
  <2>4. WholeInv' /\ TopInv' /\ PatchInv'
    BY <2>1, <2>2, QuietParts
  <2>5. ClaimInv' /\ OwnedInv' /\ AnswerInv'
    BY <1>2, <2>2, StepClaims
  <2> QED
    BY <2>3, <2>4, <2>5 DEF SwitchInv
<1>3. ASSUME NEW t \in Thread, CreateSwitch(t) PROVE SwitchInv'
  BY <1>3, CreateInv
<1>4. ASSUME NEW t \in Thread, Handler(t) PROVE SwitchInv'
  BY <1>4, HandlerInv
<1> QED
  BY <1>1, <1>2, <1>3, <1>4, NextIs

\* The invariant behind the properties of ShSwitch: a live switch is whole, the only one of its
\* address, found by every call, in step with the target and with the stubs in the callers' hands.
THEOREM SwitchInvariant ==
  ASSUME ModesSettle
  PROVE  Spec => [](TypeOK /\ RefInv /\ SwitchInv)
<1>1. Spec => [](TypeOK /\ RefInv)
  BY SwitchImplementsRef, RefInvariant, PTL
<1>2. TypeOK /\ TypeOK' /\ RefInv /\ SwitchInv /\ [Next]_vars => SwitchInv'
  BY SwitchInvStep
<1> QED
  BY <1>1, <1>2, SwitchInvInit, PTL DEF Spec

-----------------------------------------------------------------------------
(* What a call to a target runs, and what an unhook finds.                 *)

\* A granted stub is in a live switch that its target enters at the start address.
LEMMA GrantedIn ==
  ASSUME SwitchInv, TypeOK, NEW st \in stubs
  PROVE  \E o \in born :
           /\ Live(o) /\ sw[o].addr = st.key /\ In(st, sw[o]) /\ sw[o] \in Switch /\ Whole(sw[o])
           /\ sw[o].start # NULL
           /\ code[st.key] # <<>> /\ Head(code[st.key]) = [sw |-> o, to |-> sw[o].start]
<1>1. SwitchTypes /\ ClaimInv /\ WholeInv /\ TopInv
  BY DEF SwitchInv
<1>2. st \in Stub /\ st \in AnyStub /\ Claims(st) /\ st.key \in mapped
  BY <1>1, StubIsAny DEF SwitchTypes, ClaimInv, Claims
<1>3. PICK o \in born : Live(o) /\ sw[o].addr = st.key /\ In(st, sw[o])
  BY <1>1, <1>2 DEF ClaimInv
<1>4. sw[o] \in Switch /\ Whole(sw[o])
  BY <1>1, <1>3 DEF SwitchTypes, WholeInv, TypeOK
<1>5. sw[o].start # NULL
  BY <1>2, <1>3, <1>4, UnstartedIsEmpty DEF Nobody
<1>6. code[st.key] # <<>> /\ Head(code[st.key]) = [sw |-> o, to |-> sw[o].start]
  BY <1>1, <1>3, <1>5 DEF TopInv
<1> QED
  BY <1>3, <1>4, <1>5, <1>6

LEMMA InvGranted == SwitchInv /\ TypeOK => GrantedRuns
<1> SUFFICES ASSUME SwitchInv, TypeOK, NEW st \in stubs PROVE Runs(st)
  BY DEF GrantedRuns
<1>1. PICK o \in born :
        /\ In(st, sw[o]) /\ sw[o] \in Switch /\ Whole(sw[o]) /\ sw[o].start # NULL
        /\ code[st.key] # <<>> /\ Head(code[st.key]) = [sw |-> o, to |-> sw[o].start]
  BY GrantedIn
<1> DEFINE s == sw[o]
<1>2. Top(st.key).sw = o /\ Top(st.key).to = s.start
  BY <1>1 DEF Top
<1>3. Visited(st.key) = Through(s)
  BY <1>1, <1>2, ChainWhole DEF Visited
<1>4. \A a \in Node : Contains(Through(s), a) <=> Contains(s.queue, a) \/ (s.queue = <<>> /\ s.proxy = a)
  BY <1>1, ThroughIs
<1>5. st \in Stub /\ Proper(st)
  BY DEF SwitchInv, SwitchTypes, ClaimInv
<1>6. st.kind \in {"unique", "multi", "shared", "intercept"} /\ (st.kind # "intercept" => st.who \in Proxy)
  BY <1>5, SwitchAssumption DEF Stub, Proper
<1>7. \A p \in Proxy : p \in Node /\ p # NULL
  BY SwitchAssumption DEF Node
<1>8. CASE st.kind = "intercept"
  <2>1. st.who \in s.icept /\ s.start = GLUE
    BY <1>1, <1>8 DEF In, Whole, Started
  <2> QED
    BY <1>1, <1>2, <1>8, <2>1 DEF Runs
<1>9. CASE st.kind = "shared"
  <2>1. st.who \in s.hub /\ Contains(s.queue, HUB)
    BY <1>1, <1>9 DEF In, Whole, Hubbed
  <2>2. Contains(Visited(st.key), HUB)
    BY <1>3, <1>4, <2>1, NotNode
  <2> QED
    BY <1>1, <1>2, <1>9, <2>1, <2>2 DEF Runs
<1>10. CASE st.kind = "multi"
  <2>1. Contains(s.queue, st.who) /\ st.who \in Node
    BY <1>1, <1>6, <1>7, <1>10 DEF In
  <2>2. Contains(Visited(st.key), st.who)
    BY <1>3, <1>4, <2>1
  <2> QED
    BY <1>1, <1>10, <2>2 DEF Runs
<1>11. CASE st.kind = "unique"
  <2>1. s.mode = "unique" /\ s.proxy = st.who /\ st.who \in Node
    BY <1>1, <1>6, <1>7, <1>11 DEF In
  <2>2. s.queue = <<>>
    BY <1>1, <2>1, QueueOrNot
  <2>3. Contains(Visited(st.key), st.who)
    BY <1>3, <1>4, <2>1, <2>2
  <2> QED
    BY <1>1, <1>11, <2>3 DEF Runs
<1> QED
  BY <1>6, <1>8, <1>9, <1>10, <1>11

LEMMA InvAlone == SwitchInv /\ TypeOK => UniqueAlone
<1> SUFFICES ASSUME SwitchInv, TypeOK, NEW st \in stubs, NEW other \in stubs,
                    st.key = other.key, st.kind = "unique", other.kind # "intercept"
             PROVE  st = other
  BY DEF UniqueAlone
<1>1. PICK o \in born : Live(o) /\ sw[o].addr = st.key /\ In(st, sw[o]) /\ sw[o] \in Switch /\ Whole(sw[o])
  BY GrantedIn
<1>2. PICK p \in born : Live(p) /\ sw[p].addr = other.key /\ In(other, sw[p])
  BY GrantedIn
<1>3. p = o
  BY <1>1, <1>2, OthersElsewhere DEF SwitchInv
<1>4. sw[o].mode = "unique" /\ sw[o].proxy = st.who
  BY <1>1 DEF In
<1>5. sw[o].hub = {} /\ \A a : ~Contains(sw[o].queue, a)
  BY <1>1, <1>4, QueueOrNot
<1>6. st \in AnyStub /\ other \in AnyStub
  BY StubIsAny DEF SwitchInv, SwitchTypes
<1>7. other.kind = "unique"
  BY <1>2, <1>3, <1>5, <1>6 DEF In, AnyStub
<1>8. Alike(st, other)
  BY <1>2, <1>3, <1>4, <1>7 DEF In, Alike
<1> QED
  BY <1>6, <1>8, StubIs

\* Without failing restorations, what a target jumps into is a live switch of that address.
LEMMA PatchedIn ==
  ASSUME SwitchInv, TypeOK, "unhook" \notin Faults, NEW k \in Key, code[k] # <<>>
  PROVE  \E o \in born :
           /\ Live(o) /\ o \in Obj /\ sw[o].addr = k /\ sw[o] \in Switch /\ Whole(sw[o])
           /\ sw[o].start # NULL /\ Len(code[k]) = 1
           /\ Top(k).sw = o /\ Top(k).to = sw[o].start /\ code[k][1].sw = o
           /\ Visited(k) = Through(sw[o])
<1>1. SwitchTypes /\ WholeInv /\ PatchInv
  BY DEF SwitchInv
<1>2. PICK o \in born : Live(o) /\ sw[o].addr = k /\ Head(code[k]) = [sw |-> o, to |-> sw[o].start]
  BY <1>1 DEF PatchInv
<1>3. Len(code[k]) = 1
  BY <1>1 DEF PatchInv
<1>4. o \in Obj /\ sw[o] \in Switch /\ Whole(sw[o])
  BY <1>1, <1>2 DEF SwitchTypes, WholeInv, TypeOK
<1>5. Top(k).sw = o /\ Top(k).to = sw[o].start /\ code[k][1].sw = o
  BY <1>2 DEF Top
<1>6. sw[o].start # NULL
  <2>1. Head(code[k]) \in Patch
    BY <1>1, HeadTailProperties DEF SwitchTypes
  <2> QED
    BY <1>5, <2>1, NotNode, SwitchAssumption DEF Patch, Top
<1>7. Visited(k) = Through(sw[o])
  BY <1>4, <1>5, <1>6, ChainWhole DEF Visited
<1> QED
  BY <1>2, <1>3, <1>4, <1>5, <1>6, <1>7

LEMMA InvChain == SwitchInv /\ TypeOK /\ "unhook" \notin Faults => ChainEnds
<1> SUFFICES ASSUME SwitchInv, TypeOK, "unhook" \notin Faults, NEW k \in Key, code[k] # <<>>, ~Gone(k)
             PROVE  /\ Last(Visited(k)) = RESUME
                    /\ \A i, j \in 1 .. Len(Visited(k)) : Visited(k)[i] = Visited(k)[j] => i = j
  BY Zenon DEF ChainEnds
<1>1. PICK o \in born : sw[o] \in Switch /\ Whole(sw[o]) /\ Visited(k) = Through(sw[o])
  BY PatchedIn
<1> QED
  BY <1>1, ThroughIs

LEMMA InvOwned == SwitchInv /\ TypeOK /\ "unhook" \notin Faults => OnlyGrantedRuns
<1> SUFFICES ASSUME SwitchInv, TypeOK, "unhook" \notin Faults PROVE OnlyGrantedRuns
  OBVIOUS
<1> DEFINE owned == stubs \cup residue \cup {op[t].stub : t \in {u \in Thread : op[u].act = "unhook"}}
           claims(k, kinds) == {st.who : st \in {x \in owned : x.key = k /\ x.kind \in kinds}}
<1>1. \A st : Claims(st) \/ st \in residue => st \in owned
  BY DEF Claims, Pending
<1> HIDE DEF owned
<1>2. ASSUME NEW k \in mapped, code[k] # <<>>
      PROVE  /\ \A i \in 1 .. Len(Visited(k)) :
                  Visited(k)[i] \in Proxy => Visited(k)[i] \in claims(k, {"unique", "multi"})
             /\ Contains(Visited(k), HUB) => sw[Top(k).sw].hub \subseteq claims(k, {"shared"})
             /\ sw[Top(k).sw].icept \subseteq claims(k, {"intercept"})
  <2>1. k \in Key
    BY <1>2 DEF SwitchInv, SwitchTypes
  <2>2. PICK o \in born :
          /\ Live(o) /\ sw[o].addr = k /\ sw[o] \in Switch /\ Whole(sw[o])
          /\ Top(k).sw = o /\ Visited(k) = Through(sw[o])
    BY <1>2, <2>1, PatchedIn
  <2> DEFINE s == sw[o]
  <2>3. \A st \in AnyStub : st.key = k /\ In(st, s) => st \in owned
    BY <1>1, <1>2, <2>2 DEF SwitchInv, OwnedInv
  <2>4. ASSUME NEW kind \in {"unique", "multi", "shared", "intercept"}, NEW kinds, kind \in kinds,
               NEW w \in Proxy \cup Icept, In([key |-> k, kind |-> kind, who |-> w], s)
        PROVE  w \in claims(k, kinds)
    <3> DEFINE st == [key |-> k, kind |-> kind, who |-> w]
    <3>1. st \in AnyStub
      BY <2>1, <2>4 DEF AnyStub
    <3>2. st \in owned
      BY <2>3, <2>4, <3>1
    <3>3. st.key = k /\ st.kind \in kinds /\ st.who = w
      BY <2>4
    <3> HIDE DEF st
    <3> QED
      BY <3>2, <3>3
  <2> HIDE DEF claims
  <2>5. \A a \in Node : Contains(Visited(k), a) <=> Contains(s.queue, a) \/ (s.queue = <<>> /\ s.proxy = a)
    BY <2>2, ThroughIs
  <2>6. ASSUME NEW i \in 1 .. Len(Visited(k)), Visited(k)[i] \in Proxy
        PROVE  Visited(k)[i] \in claims(k, {"unique", "multi"})
    <3> DEFINE w == Visited(k)[i]
    <3>1. w \in Node /\ w # NULL /\ Contains(Visited(k), w)
      BY <2>6, SwitchAssumption DEF Node, Contains
    <3> HIDE DEF w
    <3>2. CASE Contains(s.queue, w)
      <4>1. In([key |-> k, kind |-> "multi", who |-> w], s)
        BY <3>2 DEF In
      <4> QED
        BY <2>4, <2>6, <4>1 DEF w
    <3>3. CASE s.queue = <<>> /\ s.proxy = w
      <4>1. s.mode = "unique"
        BY <2>2, <3>1, <3>3 DEF Whole, Alone
      <4>2. In([key |-> k, kind |-> "unique", who |-> w], s)
        BY <3>3, <4>1 DEF In
      <4> QED
        BY <2>4, <2>6, <4>2 DEF w
    <3> QED
      BY <2>5, <3>1, <3>2, <3>3 DEF w
  <2>7. ASSUME NEW w \in s.hub PROVE w \in claims(k, {"shared"})
    <3>1. w \in Proxy
      BY <2>2, <2>7 DEF Switch
    <3>2. In([key |-> k, kind |-> "shared", who |-> w], s)
      BY <2>7 DEF In
    <3> QED
      BY <2>4, <3>1, <3>2
  <2>8. ASSUME NEW w \in s.icept PROVE w \in claims(k, {"intercept"})
    <3>1. w \in Icept
      BY <2>2, <2>8 DEF Switch
    <3>2. In([key |-> k, kind |-> "intercept", who |-> w], s)
      BY <2>8 DEF In
    <3> QED
      BY <2>4, <3>1, <3>2
  <2> QED
    BY <2>2, <2>6, <2>7, <2>8
<1> QED
  BY <1>2, Zenon DEF OnlyGrantedRuns, owned

LEMMA InvJumps == SwitchInv /\ TypeOK /\ RefInv /\ "unhook" \notin Faults => NoDanglingJump /\ PatchedIsFindable
<1> SUFFICES ASSUME SwitchInv, TypeOK, RefInv, "unhook" \notin Faults, NEW k \in mapped, code[k] # <<>>
             PROVE  /\ \A i \in DOMAIN code[k] : code[k][i].sw \notin freed
                    /\ tree[k] = Top(k).sw /\ Top(k).to = sw[Top(k).sw].start
  <2>1. \A k \in mapped : code[k] = <<>> => DOMAIN code[k] = {}
    BY EmptySeq DEF SwitchInv, SwitchTypes
  <2> QED
    BY <2>1 DEF NoDanglingJump, PatchedIsFindable
<1>1. k \in Key /\ code[k] \in Seq(Patch) /\ AddrInv
  BY DEF SwitchInv, SwitchTypes
<1>2. PICK o \in born :
        /\ Live(o) /\ sw[o].addr = k /\ Len(code[k]) = 1
        /\ Top(k).sw = o /\ Top(k).to = sw[o].start /\ code[k][1].sw = o
  BY <1>1, PatchedIn
<1>3. o \notin freed
  BY <1>2, InUse
<1>4. DOMAIN code[k] = 1 .. Len(code[k])
  BY <1>1, LenProperties
<1>5. tree[k] = o
  BY <1>1, <1>2 DEF AddrInv
<1> QED
  BY <1>2, <1>3, <1>4, <1>5

\* Every hook and interception that the library granted and did not take back is run by a call to its
\* target, whatever was hooked, unhooked, retired and closed since, by whichever threads.
THEOREM GrantedRunsHolds ==
  ASSUME ModesSettle
  PROVE  Spec => []GrantedRuns
BY SwitchInvariant, InvGranted, PTL

\* A unique hook is the only hook of its target (doc/manual.md:249).
THEOREM UniqueAloneHolds ==
  ASSUME ModesSettle
  PROVE  Spec => []UniqueAlone
BY SwitchInvariant, InvAlone, PTL

\* An unhook's answer is left as it was or set to "ok" by every step that is not its handler.
LEMMA StepAnswer ==
  ASSUME TypeOK, RefInv, SwitchInv, NEW t \in Thread, Step(t),
         NEW u \in Thread, op[u].act = "unhook", KeyOf(u) \in mapped
  PROVE  ret'[u] \in {ret[u], "ok"}
<1>1. SwitchTypes
  BY DEF SwitchInv
<1>2. CASE \E st \in Stub : CallHook(t, st) \/ CallUnhook(t, st)
  BY <1>1, <1>2 DEF CallHook, CallUnhook, Returns, SwitchTypes
<1>3. CASE \E keys \in Lib : CallDlclose(t, keys)
  BY <1>1, <1>3 DEF CallDlclose, Returns, SwitchTypes
<1>4. CASE FindNothing(t)
  <2>1. pc[t] = "find" /\ tree[Target(t)] = NoObj
    BY <1>4 DEF FindNothing, FindFails, At
  <2>2. u # t
    BY <2>1, FoundLive
  <2> QED
    BY <1>1, <1>4, <2>2 DEF FindNothing, Returns, SwitchTypes
<1>5. CASE SkipDestroyed(t)
  <2>1. pc[t] = "body" /\ Destroyed(self[t])
    BY <1>5 DEF SkipDestroyed, Skip, At
  <2>2. u # t
    BY <2>1, NotGone
  <2> QED
    BY <1>1, <1>5, <2>2 DEF SkipDestroyed, Returns, SwitchTypes
<1>6. CASE EndCall(t)
  BY <1>1, <1>6 DEF EndCall, SwitchTypes
<1>7. CASE Inside(t)
  BY <1>1, <1>7, InsideIs
<1>8. CASE UNCHANGED switchVars
  BY <1>8 DEF switchVars
<1> QED
  BY <1>2, <1>3, <1>4, <1>5, <1>6, <1>7, <1>8 DEF Step

LEMMA AnswerStep ==
  ASSUME TypeOK, RefInv, SwitchInv, SwitchInv', [Next]_vars,
         NEW u \in Thread, op[u].act = "unhook", KeyOf(u) \in mapped
  PROVE  ret'[u] \notin {"notfound", "conflict"}
<1>1. ret[u] \notin {"notfound", "conflict"}
  BY DEF SwitchInv, AnswerInv
<1>2. CASE UNCHANGED ret
  BY <1>1, <1>2
<1>3. ASSUME NEW t \in Thread, Step(t) PROVE ret'[u] \in {ret[u], "ok"}
  BY <1>3, StepAnswer
<1>4. CASE UNCHANGED <<op, mapped>>
  <2>1. op'[u].act = "unhook" /\ KeyOf(u)' \in mapped'
    BY <1>4 DEF KeyOf
  <2> QED
    BY <2>1 DEF SwitchInv, AnswerInv
<1>5. ASSUME NEW t \in Thread, Handler(t) PROVE UNCHANGED <<op, mapped>>
  BY <1>5 DEF Handler, HookFirst, HookUniqueMore, HookQueueMore, UnhookUnique, UnhookQueue,
              Intercept, Unintercept, FreeAfterDlclose
<1>6. ASSUME NEW t \in Thread, CreateSwitch(t) PROVE UNCHANGED ret
  BY <1>6 DEF CreateSwitch
<1> QED
  BY <1>1, <1>2, <1>3, <1>4, <1>5, <1>6, NextIs DEF vars, switchVars

\* Handing a granted stub back never answers that there is no such switch, that it is being destroyed, that
\* its mode is another, nor that the stub is not in it: it is found, whatever other threads do meanwhile.
THEOREM UnhookFindsHolds ==
  ASSUME ModesSettle
  PROVE  Spec => UnhookFinds
<1>1. TypeOK /\ RefInv /\ SwitchInv /\ SwitchInv' /\ [Next]_vars =>
        [\A t \in Thread :
           op[t].act = "unhook" /\ KeyOf(t) \in mapped => ret'[t] \notin {"notfound", "conflict"}]_vars
  BY AnswerStep
<1> QED
  BY <1>1, SwitchInvariant, PTL DEF Spec, UnhookFinds

\* A call that enters a patched target visits each node of its queue once and ends at the original code.
THEOREM ChainEndsHolds ==
  ASSUME ModesSettle, "unhook" \notin Faults
  PROVE  Spec => []ChainEnds
<1>1. SwitchInv /\ TypeOK => ChainEnds
  BY InvChain
<1> QED
  BY <1>1, SwitchInvariant, PTL

\* A call to a loaded target runs nothing but what was granted, or is being handed back, or could not be
\* taken out.
THEOREM OnlyGrantedRunsHolds ==
  ASSUME ModesSettle, "unhook" \notin Faults
  PROVE  Spec => []OnlyGrantedRuns
<1>1. SwitchInv /\ TypeOK => OnlyGrantedRuns
  BY InvOwned
<1> QED
  BY <1>1, SwitchInvariant, PTL

\* A loaded target does not jump into memory that was given back: a switch goes to the grace delay only once
\* no instruction of a loaded target leads into it.
THEOREM NoDanglingJumpHolds ==
  ASSUME ModesSettle, "unhook" \notin Faults
  PROVE  Spec => []NoDanglingJump
<1>1. SwitchInv /\ TypeOK /\ RefInv => NoDanglingJump
  BY InvJumps
<1> QED
  BY <1>1, SwitchInvariant, PTL

\* The switch a patched target of a loaded library jumps into is the one the next call on that target finds,
\* so what is patched can always be taken back.
THEOREM PatchedIsFindableHolds ==
  ASSUME ModesSettle, "unhook" \notin Faults
  PROVE  Spec => []PatchedIsFindable
<1>1. SwitchInv /\ TypeOK /\ RefInv => PatchedIsFindable
  BY InvJumps
<1> QED
  BY <1>1, SwitchInvariant, PTL
=============================================================================
