---------------------------- MODULE ShRefProofs ----------------------------
(***************************************************************************)
(* The safety of ShRef for any threads, keys, objects, libraries, delay    *)
(* and clock: TypeOK /\ RefInv is inductive (a lemma per conjunct, a step  *)
(* per action that disturbs it), and the properties follow from it.        *)
(***************************************************************************)
EXTENDS ShRef, FiniteSetTheorems, TLAPS

USE DEF At, Goto, Return, NoCall, registry, objects, locals

LEMMA TargetIsKey ==
  ASSUME NEW t \in Thread, NEW k \in Key, call[t].keys = {k}
  PROVE  Target(t) = k
BY DEF Target

\* The key a thread looks up, before it has found anything.
LEMMA TargetType ==
  ASSUME TypeOK, PlaceInv, NEW t \in Thread, pc[t] # "idle", call[t].kind # "dlclose"
  PROVE  /\ Target(t) \in Key
         /\ call[t].keys = {Target(t)}
BY DEF PlaceInv, Place, Target

\* Holders of an object are finitely many, and a holder makes the count positive.
LEMMA HoldersFinite ==
  ASSUME NEW o
  PROVE  IsFiniteSet(Holders(o))
BY RefAssumption, FS_Subset DEF Holders

LEMMA HeldIsCounted ==
  ASSUME TypeOK, CountExact, NEW t \in Thread, NEW o \in held[t]
  PROVE  o \in Obj /\ count[o] \in Nat \ {0}
<1>1. o \in Obj /\ t \in Holders(o)
  BY DEF TypeOK, Holders
<1>2. Cardinality(Holders(o)) # 0
  BY <1>1, HoldersFinite, FS_EmptySet
<1> QED
  BY <1>1, <1>2 DEF TypeOK, CountExact

LEMMA MoveType ==
  ASSUME TypeOK, NEW t \in Thread,
         \/ \E there \in PC : Goto(t, there) /\ UNCHANGED call
         \/ Return(t)
  PROVE  pc' \in [Thread -> PC] /\ call' \in [Thread -> Call]
<1>1. "idle" \in PC /\ NoCall \in Call
  BY DEF PC, Call, Kind
<1> QED
  BY <1>1 DEF TypeOK

LEMMA TypeStep ==
  ASSUME TypeOK, RefInv, [RefNext]_refVars
  PROVE  TypeOK'
<1> USE DEF TypeOK, PC, Kind, Call
<1>1. CASE UNCHANGED refVars
  BY <1>1 DEF refVars
<1>2. CASE Tick
  BY <1>2, RefAssumption DEF Tick
<1>3. ASSUME NEW t \in Thread, NEW kind \in Kind, NEW keys, Begin(t, kind, keys)
      PROVE  TypeOK'
  BY <1>3, RefAssumption DEF Begin
<1>4. ASSUME NEW t \in Thread, FindHit(t) PROVE TypeOK'
  <2>1. tree[Target(t)] \in Obj
    BY <1>4, TargetType DEF FindHit, RefInv
  <2> QED
    BY <1>4, <2>1 DEF FindHit
<1>5. ASSUME NEW t \in Thread, FindCreate(t) PROVE TypeOK'
  BY <1>5 DEF FindCreate
<1>6. ASSUME NEW t \in Thread, FindFails(t) PROVE TypeOK'
  BY <1>6 DEF FindFails
<1>7. ASSUME NEW t \in Thread, Collect(t) PROVE TypeOK'
  <2>1. {tree[k] : k \in call[t].keys} \ {NoObj} \subseteq Obj
    BY <1>7
  <2>2. /\ tree' \in [Key -> Obj \cup {NoObj}]
        /\ count' \in [Obj -> Nat]
        /\ held' \in [Thread -> SUBSET Obj]
    BY <1>7, <2>1 DEF Collect
  <2>3. /\ pc' \in [Thread -> PC]
        /\ call' \in [Thread -> Call]
    BY <1>7, MoveType DEF Collect
  <2> QED
    BY <1>7, <2>2, <2>3 DEF Collect
<1>8. ASSUME NEW t \in Thread, Lock(t) PROVE TypeOK'
  BY <1>8 DEF Lock
<1>9. ASSUME NEW t \in Thread, Skip(t) PROVE TypeOK'
  BY <1>9 DEF Skip
<1>10. ASSUME NEW t \in Thread, Keep(t) \/ Retire(t) PROVE TypeOK'
  BY <1>10 DEF Keep, Retire
<1>11. ASSUME NEW t \in Thread, Untree(t) PROVE TypeOK'
  BY <1>11 DEF Untree
<1>12. ASSUME NEW t \in Thread, Stamp(t) PROVE TypeOK'
  <2>1. now \in Nat
    BY RefAssumption
  <2> QED
    BY <1>12, <2>1 DEF Stamp
<1>13. ASSUME NEW t \in Thread, Scan(t) PROVE TypeOK'
  <2>1. self[t] \in Obj
    BY <1>13 DEF Scan, RefInv, PlaceInv, Place
  <2>2. PICK taken \in SUBSET (queue \cup {self[t]}) :
          /\ queue' = (queue \cup {self[t]}) \ taken
          /\ ahead' = [o \in Obj |-> IF o \in taken THEN {}
                                    ELSE [ahead EXCEPT ![self[t]] = queue][o] \ taken]
          /\ abandoned' = [abandoned EXCEPT ![t] = taken]
    BY <1>13 DEF Scan
  <2>3. ahead' \in [Obj -> SUBSET Obj]
    BY <2>1, <2>2
  <2>4. queue' \subseteq Obj /\ abandoned' \in [Thread -> SUBSET Obj]
    BY <2>1, <2>2
  <2> QED
    BY <1>13, <2>3, <2>4 DEF Scan
<1>14. ASSUME NEW t \in Thread, Destroy(t) PROVE TypeOK'
  <2>1. /\ freed' \subseteq Obj
        /\ abandoned' \in [Thread -> SUBSET Obj]
        /\ pc' \in [Thread -> PC]
    BY <1>14, MoveType DEF Destroy
  <2> QED
    BY <1>14, <2>1 DEF Destroy
<1>15. ASSUME NEW t \in Thread, Unlock(t) PROVE TypeOK'
  BY <1>15 DEF Unlock
<1>16. ASSUME NEW t \in Thread, Release(t) PROVE TypeOK'
  <2>1. count[self[t]] \in Nat \ {0}
    BY <1>16, HeldIsCounted DEF Release, RefInv, PlaceInv, Place
  <2>2. count' \in [Obj -> Nat] /\ held' \in [Thread -> SUBSET Obj]
    <3>1. /\ count' = [count EXCEPT ![self[t]] = @ - 1]
          /\ held' = [held EXCEPT ![t] = @ \ {self[t]}]
      BY <1>16 DEF Release
    <3>2. count[self[t]] - 1 \in Nat
      BY <2>1
    <3>3. count' \in [Obj -> Nat]
      BY <3>1, <3>2
    <3> QED
      BY <3>1, <3>3
  <2>4. again' \in [Thread -> BOOLEAN] /\ self' \in [Thread -> Obj \cup {NoObj}]
    BY <1>16 DEF Release
  <2>3. pc' \in [Thread -> PC] /\ call' \in [Thread -> Call]
    BY <1>16, MoveType DEF Release
  <2> QED
    BY <1>16, <2>2, <2>3, <2>4 DEF Release
<1> QED
  BY <1>1, <1>2, <1>3, <1>4, <1>5, <1>6, <1>7, <1>8, <1>9, <1>10, <1>11, <1>12, <1>13,
     <1>14, <1>15, <1>16 DEF RefNext, Work, Calls

-----------------------------------------------------------------------------
(* Every count is owned by a thread: what the steps that change a count do. *)

LEMMA TakingCounts ==
  ASSUME TypeOK, CountExact, NEW t \in Thread, held[t] = {}, NEW S \in SUBSET Obj,
         held' = [held EXCEPT ![t] = S],
         \A o \in Obj : count'[o] = IF o \in S THEN count[o] + 1 ELSE count[o]
  PROVE  CountExact'
<1> SUFFICES ASSUME NEW o \in Obj PROVE count'[o] = Cardinality(Holders(o)')
  BY DEF CountExact
<1>1. IsFiniteSet(Holders(o)) /\ count[o] = Cardinality(Holders(o))
  BY HoldersFinite DEF CountExact
<1>2. CASE o \in S
  <2>1. t \notin Holders(o) /\ Holders(o)' = Holders(o) \cup {t}
    BY <1>2 DEF Holders, TypeOK
  <2>2. Cardinality(Holders(o)') = Cardinality(Holders(o)) + 1
    BY <1>1, <2>1, FS_AddElement
  <2> QED
    BY <1>1, <1>2, <2>2
<1>3. CASE o \notin S
  <2>1. Holders(o)' = Holders(o)
    BY <1>3 DEF Holders, TypeOK
  <2> QED
    BY <1>1, <1>3, <2>1
<1> QED
  BY <1>2, <1>3

LEMMA GivingCounts ==
  ASSUME TypeOK, CountExact, NEW t \in Thread, NEW x \in held[t],
         held' = [held EXCEPT ![t] = @ \ {x}],
         count' = [count EXCEPT ![x] = @ - 1]
  PROVE  CountExact'
<1> SUFFICES ASSUME NEW o \in Obj PROVE count'[o] = Cardinality(Holders(o)')
  BY DEF CountExact
<1>1. IsFiniteSet(Holders(o)) /\ count[o] = Cardinality(Holders(o))
  BY HoldersFinite DEF CountExact
<1>2. CASE o = x
  <2>1. t \in Holders(o) /\ Holders(o)' = Holders(o) \ {t}
    BY <1>2 DEF Holders, TypeOK
  <2>2. Cardinality(Holders(o)') = Cardinality(Holders(o)) - 1
    BY <1>1, <2>1, FS_RemoveElement
  <2> QED
    BY <1>1, <1>2, <2>2 DEF TypeOK
<1>3. CASE o # x
  <2>1. Holders(o)' = Holders(o)
    BY <1>3 DEF Holders, TypeOK
  <2> QED
    BY <1>1, <1>3, <2>1 DEF TypeOK
<1> QED
  BY <1>2, <1>3

LEMMA CountStep ==
  ASSUME TypeOK, RefInv, [RefNext]_refVars
  PROVE  CountExact'
<1>1. CASE UNCHANGED <<count, held>>
  <2>1. \A o \in Obj : Holders(o)' = Holders(o) /\ count'[o] = count[o]
    BY <1>1 DEF Holders
  <2> QED
    BY <2>1 DEF CountExact, RefInv
<1>2. ASSUME NEW t \in Thread, FindHit(t) PROVE CountExact'
  <2>1. held[t] = {} /\ tree[Target(t)] \in Obj
    BY <1>2, TargetType DEF FindHit, RefInv, PlaceInv, Place, TypeOK
  <2>2. \A o \in Obj : count'[o] = IF o \in {tree[Target(t)]} THEN count[o] + 1 ELSE count[o]
    BY <1>2, <2>1 DEF FindHit, TypeOK
  <2> QED
    BY <1>2, <2>1, <2>2, TakingCounts DEF FindHit, RefInv
<1>3. ASSUME NEW t \in Thread, FindCreate(t) PROVE CountExact'
  <2>1. PICK x \in Obj \ born : /\ count' = [count EXCEPT ![x] = 1]
                               /\ held' = [held EXCEPT ![t] = {x}]
    BY <1>3 DEF FindCreate
  <2>2. held[t] = {}
    BY <1>3 DEF FindCreate, RefInv, PlaceInv, Place
  <2>3. count[x] = 0
    BY FS_EmptySet DEF RefInv, UnbornInv, CountExact
  <2>4. \A o \in Obj : count'[o] = IF o \in {x} THEN count[o] + 1 ELSE count[o]
    BY <2>1, <2>3 DEF TypeOK
  <2> QED
    BY <2>1, <2>2, <2>4, TakingCounts DEF RefInv
<1>4. ASSUME NEW t \in Thread, Collect(t) PROVE CountExact'
  <2> DEFINE taken == {tree[k] : k \in call[t].keys} \ {NoObj}
  <2>1. held[t] = {}
    BY <1>4 DEF Collect, RefInv, PlaceInv, Place
  <2>2. taken \in SUBSET Obj
    BY DEF TypeOK, Call
  <2>3. /\ held' = [held EXCEPT ![t] = taken]
        /\ \A o \in Obj : count'[o] = IF o \in taken THEN count[o] + 1 ELSE count[o]
    BY <1>4 DEF Collect
  <2> HIDE DEF taken
  <2> QED
    BY <2>1, <2>2, <2>3, TakingCounts DEF RefInv
<1>5. ASSUME NEW t \in Thread, Release(t) PROVE CountExact'
  <2>1. self[t] \in held[t]
    BY <1>5 DEF Release, RefInv, PlaceInv, Place
  <2> QED
    BY <1>5, <2>1, GivingCounts DEF Release, RefInv
<1> QED
  BY <1>1, <1>2, <1>3, <1>4, <1>5
  DEF RefNext, Work, Tick, Begin, FindFails, Lock, Skip, Keep, Retire, Untree, Stamp, Scan,
      Destroy, Unlock, refVars

-----------------------------------------------------------------------------
(* Counts and locks by place.                                              *)

\* What a sweep takes, and what a thread is left with when it gives a count back.
LEMMA Collecting ==
  ASSUME TypeOK, NEW t \in Thread, Collect(t)
  PROVE  \E taken \in SUBSET Obj :
           /\ \A o \in taken : \E k \in call[t].keys : tree[k] = o
           /\ \A k \in call[t].keys : tree[k] # NoObj => tree[k] \in taken
           /\ held' = [held EXCEPT ![t] = taken]
           /\ \/ taken = {} /\ Return(t)
              \/ taken # {} /\ Goto(t, "lock") /\ UNCHANGED call
<1> DEFINE taken == {tree[k] : k \in call[t].keys} \ {NoObj}
<1>1. taken \in SUBSET Obj
  BY DEF TypeOK, Call
<1>2. /\ \A o \in taken : \E k \in call[t].keys : tree[k] = o
      /\ \A k \in call[t].keys : tree[k] # NoObj => tree[k] \in taken
  OBVIOUS
<1>3. /\ held' = [held EXCEPT ![t] = taken]
      /\ \/ taken = {} /\ Return(t)
         \/ taken # {} /\ Goto(t, "lock") /\ UNCHANGED call
  BY Zenon DEF Collect
<1> HIDE DEF taken
<1> QED
  BY <1>1, <1>2, <1>3

LEMMA Releasing ==
  ASSUME TypeOK, NEW t \in Thread, Release(t)
  PROVE  /\ held' = [held EXCEPT ![t] = held[t] \ {self[t]}]
         /\ held'[t] = held[t] \ {self[t]}
         /\ \/ held'[t] # {} /\ Goto(t, "lock") /\ UNCHANGED call
            \/ held'[t] = {} /\ ((Goto(t, "find") /\ UNCHANGED call) \/ Return(t))
BY DEF Release, TypeOK

LEMMA PlaceStep ==
  ASSUME TypeOK, PlaceInv, [RefNext]_refVars
  PROVE  PlaceInv'
<1> USE DEF PlaceInv
<1> DEFINE Bystander(u) == /\ UNCHANGED <<pc[u], call[u], self[u], held[u]>>
                           /\ \A o \in Obj : lock'[o] = u => lock[o] = u
                           /\ \A o \in Obj : lock[o] = u => lock'[o] = u
<1>1. ASSUME NEW u \in Thread, Bystander(u) PROVE Place(u)'
  BY <1>1 DEF Place, LockHeld, TypeOK
<1>0. ASSUME NEW u \in Thread, LockHeld(u), LockHeld(u)',
             UNCHANGED <<call[u], self[u], held[u], lock>>
      PROVE  Place(u)'
  BY <1>0 DEF Place, LockHeld
<1>2. CASE UNCHANGED <<pc, call, self, held, lock>>
  BY <1>2 DEF Place, LockHeld
<1>3. ASSUME NEW t \in Thread, NEW kind \in Kind, NEW keys, Begin(t, kind, keys) PROVE PlaceInv'
  <2>1. \A u \in Thread \ {t} : Bystander(u)
    BY <1>3, RefAssumption DEF Begin, TypeOK
  <2>2. Place(t)'
    BY <1>3, RefAssumption DEF Begin, Place, LockHeld, TypeOK
  <2> QED
    BY <1>1, <2>1, <2>2
<1>4. ASSUME NEW t \in Thread, FindHit(t) PROVE PlaceInv'
  <2>1. \A u \in Thread \ {t} : Bystander(u)
    BY <1>4, RefAssumption DEF FindHit, TypeOK
  <2>2. Place(t)'
    BY <1>4, RefAssumption DEF FindHit, Place, LockHeld, TypeOK
  <2> QED
    BY <1>1, <2>1, <2>2
<1>5. ASSUME NEW t \in Thread, FindCreate(t) PROVE PlaceInv'
  <2>1. \A u \in Thread \ {t} : Bystander(u)
    BY <1>5, RefAssumption DEF FindCreate, TypeOK
  <2>2. PICK o \in Obj : held'[t] = {o}
    BY <1>5 DEF FindCreate, TypeOK
  <2>3. pc'[t] = "lock" /\ UNCHANGED <<call, self, lock>>
    BY <1>5 DEF FindCreate, TypeOK
  <2>4. Place(t)'
    BY <1>5, <2>2, <2>3 DEF FindCreate, Place, LockHeld
  <2> QED
    BY <1>1, <2>1, <2>4
<1>6. ASSUME NEW t \in Thread, FindFails(t) PROVE PlaceInv'
  <2>1. \A u \in Thread \ {t} : Bystander(u)
    BY <1>6, RefAssumption DEF FindFails, TypeOK
  <2>2. Place(t)'
    BY <1>6, RefAssumption DEF FindFails, Place, LockHeld, TypeOK
  <2> QED
    BY <1>1, <2>1, <2>2
<1>7. ASSUME NEW t \in Thread, Collect(t) PROVE PlaceInv'
  <2>1. \A u \in Thread \ {t} : Bystander(u)
    BY <1>7, RefAssumption DEF Collect, TypeOK
  <2>2. ASSUME held'[t] = {} /\ Return(t) /\ UNCHANGED lock
       PROVE  Place(t)'
    <3>1. pc'[t] = "idle" /\ pc[t] = "find"
      BY <1>7, <2>2 DEF Collect, TypeOK
    <3> QED
      BY <2>2, <3>1 DEF Place, LockHeld
  <2>3. ASSUME held'[t] # {} /\ Goto(t, "lock") /\ UNCHANGED <<call, lock>>
       PROVE  Place(t)'
    <3>1. pc'[t] = "lock" /\ call[t].kind = "dlclose" /\ pc[t] = "find"
      BY <1>7, <2>3 DEF Collect, TypeOK
    <3> QED
      BY <2>3, <3>1 DEF Place, LockHeld
  <2>4. Place(t)'
    BY <1>7, <2>2, <2>3, Collecting DEF Collect, TypeOK
  <2> QED
    BY <1>1, <2>1, <2>4
<1>8. ASSUME NEW t \in Thread, Lock(t) PROVE PlaceInv'
  <2>1. \A u \in Thread \ {t} : Bystander(u)
    BY <1>8, RefAssumption DEF Lock, TypeOK
  <2>2. Place(t)'
    BY <1>8, RefAssumption DEF Lock, Place, LockHeld, TypeOK
  <2> QED
    BY <1>1, <2>1, <2>2
<1>9. ASSUME NEW t \in Thread, Skip(t) PROVE PlaceInv'
  <2>1. \A u \in Thread \ {t} : Bystander(u)
    BY <1>9, RefAssumption DEF Skip, TypeOK
  <2>2. LockHeld(t) /\ LockHeld(t)' /\ UNCHANGED <<call[t], self[t], held[t], lock>>
    BY <1>9 DEF Skip, LockHeld, TypeOK
  <2> QED
    BY <1>0, <1>1, <2>1, <2>2
<1>10. ASSUME NEW t \in Thread, Keep(t) \/ Retire(t) PROVE PlaceInv'
  <2>1. \A u \in Thread \ {t} : Bystander(u)
    BY <1>10, RefAssumption DEF Keep, Retire, TypeOK
  <2>2. LockHeld(t) /\ LockHeld(t)' /\ UNCHANGED <<call[t], self[t], held[t], lock>>
    BY <1>10 DEF Keep, Retire, LockHeld, TypeOK
  <2> QED
    BY <1>0, <1>1, <2>1, <2>2
<1>11. ASSUME NEW t \in Thread, Untree(t) PROVE PlaceInv'
  <2>1. \A u \in Thread \ {t} : Bystander(u)
    BY <1>11, RefAssumption DEF Untree, TypeOK
  <2>2. LockHeld(t) /\ LockHeld(t)' /\ UNCHANGED <<call[t], self[t], held[t], lock>>
    BY <1>11 DEF Untree, LockHeld, TypeOK
  <2> QED
    BY <1>0, <1>1, <2>1, <2>2
<1>12. ASSUME NEW t \in Thread, Stamp(t) PROVE PlaceInv'
  <2>1. \A u \in Thread \ {t} : Bystander(u)
    BY <1>12, RefAssumption DEF Stamp, TypeOK
  <2>2. LockHeld(t) /\ LockHeld(t)' /\ UNCHANGED <<call[t], self[t], held[t], lock>>
    BY <1>12 DEF Stamp, LockHeld, TypeOK
  <2> QED
    BY <1>0, <1>1, <2>1, <2>2
<1>13. ASSUME NEW t \in Thread, Scan(t) PROVE PlaceInv'
  <2>1. \A u \in Thread \ {t} : Bystander(u)
    BY <1>13, RefAssumption DEF Scan, TypeOK
  <2>2. LockHeld(t) /\ LockHeld(t)' /\ UNCHANGED <<call[t], self[t], held[t], lock>>
    BY <1>13 DEF Scan, LockHeld, TypeOK
  <2> QED
    BY <1>0, <1>1, <2>1, <2>2
<1>14. ASSUME NEW t \in Thread, Destroy(t) PROVE PlaceInv'
  <2>1. \A u \in Thread \ {t} : Bystander(u)
    BY <1>14, RefAssumption DEF Destroy, TypeOK
  <2>2. LockHeld(t) /\ LockHeld(t)' /\ UNCHANGED <<call[t], self[t], held[t], lock>>
    BY <1>14 DEF Destroy, LockHeld, TypeOK
  <2> QED
    BY <1>0, <1>1, <2>1, <2>2
<1>15. ASSUME NEW t \in Thread, Unlock(t) PROVE PlaceInv'
  <2>1. \A u \in Thread \ {t} : Bystander(u)
    BY <1>15, RefAssumption DEF Unlock, Place, LockHeld, TypeOK
  <2>2. Place(t)'
    BY <1>15, RefAssumption DEF Unlock, Place, LockHeld, TypeOK
  <2> QED
    BY <1>1, <2>1, <2>2
<1>16. ASSUME NEW t \in Thread, Release(t) PROVE PlaceInv'
  <2>1. \A u \in Thread \ {t} : Bystander(u)
    BY <1>16, RefAssumption DEF Release, TypeOK
  <2>2. \A o \in Obj : lock'[o] # t
    BY <1>16 DEF Release, Place, LockHeld
  <2>3. ASSUME held'[t] = {} /\ ((Goto(t, "find") /\ UNCHANGED call) \/ Return(t))
       PROVE  Place(t)'
    <3>1. /\ pc[t] = "release" /\ pc'[t] \in {"idle", "find"}
          /\ pc'[t] = "find" => call'[t] = call[t]
      BY <1>16, <2>3 DEF Release, TypeOK
    <3> QED
      BY <2>2, <2>3, <3>1 DEF Place, LockHeld
  <2>4. ASSUME held'[t] # {} /\ Goto(t, "lock") /\ UNCHANGED call
       PROVE  Place(t)'
    <3>1. pc'[t] = "lock" /\ pc[t] = "release" /\ held'[t] = held[t] \ {self[t]}
      BY <1>16, <2>4, Releasing DEF Release, TypeOK
    <3> QED
      BY <2>2, <2>4, <3>1 DEF Place, LockHeld
  <2>5. \/ held'[t] # {} /\ Goto(t, "lock") /\ UNCHANGED call
        \/ held'[t] = {} /\ ((Goto(t, "find") /\ UNCHANGED call) \/ Return(t))
    BY <1>16, Releasing
  <2>6. Place(t)'
    <3>1. CASE held'[t] # {} /\ Goto(t, "lock") /\ UNCHANGED call
      BY <2>4, <3>1
    <3>2. CASE held'[t] = {} /\ ((Goto(t, "find") /\ UNCHANGED call) \/ Return(t))
      BY <2>3, <3>2
    <3> QED
      BY <2>5, <3>1, <3>2
  <2> QED
    BY <1>1, <2>1, <2>6
<1> QED
  BY <1>2, <1>3, <1>4, <1>5, <1>6, <1>7, <1>8, <1>9, <1>10, <1>11, <1>12, <1>13,
     <1>14, <1>15, <1>16 DEF RefNext, Work, Calls, Tick, refVars, Kind

LEMMA UnbornStep ==
  ASSUME TypeOK, PlaceInv, UnbornInv, RetiredInv, [RefNext]_refVars
  PROVE  UnbornInv'
<1> SUFFICES ASSUME NEW o \in Obj \ born'
             PROVE  /\ destroyTs'[o] = 0
                    /\ o \notin queue' \cup freed'
                    /\ ~Abandoned(o)'
                    /\ Holders(o)' = {}
                    /\ \A k \in Key : tree'[k] # o
  BY DEF UnbornInv
<1> USE DEF UnbornInv, Abandoned, Holders
<1>1. CASE UNCHANGED <<destroyTs, queue, freed, abandoned, held, tree, born>>
  BY <1>1
<1>4. ASSUME NEW t \in Thread, FindHit(t) PROVE UnbornInv'
  BY <1>4, TargetType DEF FindHit, TypeOK
<1>5. ASSUME NEW t \in Thread, FindCreate(t) PROVE UnbornInv'
  BY <1>5 DEF FindCreate, TypeOK
<1>7. ASSUME NEW t \in Thread, Collect(t) PROVE UnbornInv'
  <2>1. /\ \A p \in held'[t] : \E k \in Key : tree[k] = p
        /\ \A u \in Thread \ {t} : held'[u] = held[u]
    BY <1>7, Collecting DEF TypeOK, Call
  <2>2. \A k \in Key : tree'[k] = tree[k] \/ tree'[k] = NoObj
    BY <1>7 DEF Collect
  <2>3. UNCHANGED <<born, destroyTs, queue, freed, abandoned>>
    BY <1>7 DEF Collect
  <2> QED
    BY <2>1, <2>2, <2>3, RefAssumption
<1>11. ASSUME NEW t \in Thread, Untree(t) PROVE UnbornInv'
  BY <1>11, RefAssumption DEF Untree, TypeOK
<1>12. ASSUME NEW t \in Thread, Stamp(t) PROVE UnbornInv'
  BY <1>12 DEF Stamp, TypeOK, PlaceInv, Place
<1>13. ASSUME NEW t \in Thread, Scan(t) PROVE UnbornInv'
  BY <1>13 DEF Scan, TypeOK, PlaceInv, Place
<1>14. ASSUME NEW t \in Thread, Destroy(t) PROVE UnbornInv'
  BY <1>14 DEF Destroy, TypeOK
<1>16. ASSUME NEW t \in Thread, Release(t) PROVE UnbornInv'
  BY <1>16 DEF Release, TypeOK
<1> QED
  BY <1>1, <1>4, <1>5, <1>7, <1>11, <1>12, <1>13, <1>14, <1>16
  DEF RefNext, Work, Tick, Begin, FindFails, Lock, Skip, Keep, Retire, Unlock, refVars

-----------------------------------------------------------------------------
(* Destroyed objects: where they are, and who still holds them.            *)

LEMMA QueuedStep ==
  ASSUME TypeOK, PlaceInv, RetiredInv, [RefNext]_refVars
  PROVE  QueuedDestroyed'
<1> USE DEF QueuedDestroyed, Abandoned, Destroyed, RetiredInv
<1>1. CASE UNCHANGED <<queue, freed, abandoned, destroyTs>>
  BY <1>1
<1>2. ASSUME NEW t \in Thread, Stamp(t) PROVE QueuedDestroyed'
  BY <1>2, RefAssumption DEF Stamp, TypeOK
<1>3. ASSUME NEW t \in Thread, Scan(t) PROVE QueuedDestroyed'
  BY <1>3 DEF Scan, TypeOK, Retiring
<1>4. ASSUME NEW t \in Thread, Destroy(t) PROVE QueuedDestroyed'
  BY <1>4 DEF Destroy, TypeOK
<1> QED
  BY <1>1, <1>2, <1>3, <1>4
  DEF RefNext, Work, Tick, Begin, FindHit, FindCreate, FindFails, Collect, Lock, Skip, Keep,
      Retire, Untree, Unlock, Release, refVars

LEMMA GivenUpStep ==
  ASSUME TypeOK, CountExact, PlaceInv, UnbornInv, RetiredInv, [RefNext]_refVars
  PROVE  GivenUpUnheld'
<1> USE DEF GivenUpUnheld, Abandoned, Holders, RetiredInv
<1>1. CASE UNCHANGED <<freed, abandoned, held>>
  BY <1>1
<1>2. ASSUME NEW t \in Thread, FindHit(t) PROVE GivenUpUnheld'
  <2>1. tree[Target(t)] \in Obj /\ ~Destroyed(tree[Target(t)])
    BY <1>2, TargetType DEF FindHit, TypeOK, TreeLive
  <2> QED
    BY <1>2, <2>1 DEF FindHit, TypeOK, QueuedDestroyed
<1>3. ASSUME NEW t \in Thread, FindCreate(t) PROVE GivenUpUnheld'
  BY <1>3 DEF FindCreate, TypeOK, UnbornInv
<1>4. ASSUME NEW t \in Thread, Collect(t) PROVE GivenUpUnheld'
  <2>1. \A o \in held'[t] : o \in Obj /\ ~Destroyed(o)
    BY <1>4, Collecting, RefAssumption DEF TypeOK, TreeLive, Call
  <2>2. \A u \in Thread \ {t} : held'[u] = held[u]
    BY <1>4, Collecting DEF TypeOK
  <2>3. UNCHANGED <<freed, abandoned>>
    BY <1>4 DEF Collect
  <2> QED
    BY <2>1, <2>2, <2>3 DEF QueuedDestroyed
<1>5. ASSUME NEW t \in Thread, Scan(t) PROVE GivenUpUnheld'
  <2>1. \A o \in abandoned'[t] : o \in Obj /\ count[o] = 0
    BY <1>5 DEF Scan, TypeOK, PlaceInv, Place
  <2>2. \A o \in abandoned'[t] : Holders(o) = {}
    BY <2>1, HeldIsCounted DEF Holders
  <2>3. UNCHANGED <<freed, held>> /\ \A u \in Thread \ {t} : abandoned'[u] = abandoned[u]
    BY <1>5 DEF Scan, TypeOK
  <2> QED
    BY <2>1, <2>2, <2>3
<1>6. ASSUME NEW t \in Thread, Destroy(t) PROVE GivenUpUnheld'
  BY <1>6 DEF Destroy, TypeOK
<1>7. ASSUME NEW t \in Thread, Release(t) PROVE GivenUpUnheld'
  BY <1>7, Releasing DEF Release, TypeOK
<1> QED
  BY <1>1, <1>2, <1>3, <1>4, <1>5, <1>6, <1>7
  DEF RefNext, Work, Tick, Begin, FindFails, Lock, Skip, Keep, Retire, Untree, Stamp, Unlock,
      refVars

LEMMA TreeStep ==
  ASSUME TypeOK, PlaceInv, UnbornInv, RetiredInv, [RefNext]_refVars
  PROVE  TreeLive'
<1> USE DEF TreeLive, Destroyed, RetiredInv
<1>1. CASE UNCHANGED <<tree, destroyTs>>
  BY <1>1
<1>2. ASSUME NEW t \in Thread, FindCreate(t) PROVE TreeLive'
  BY <1>2, TargetType DEF FindCreate, TypeOK, UnbornInv
<1>3. ASSUME NEW t \in Thread, Collect(t) PROVE TreeLive'
  <2>1. \A k \in Key : tree'[k] = NoObj \/ tree'[k] = tree[k]
    BY <1>3 DEF Collect
  <2>2. UNCHANGED destroyTs
    BY <1>3 DEF Collect
  <2> QED
    BY <2>1, <2>2
<1>4. ASSUME NEW t \in Thread, Untree(t) PROVE TreeLive'
  BY <1>4 DEF Untree
<1>5. ASSUME NEW t \in Thread, Stamp(t) PROVE TreeLive'
  BY <1>5 DEF Stamp, TypeOK, Retiring
<1> QED
  BY <1>1, <1>2, <1>3, <1>4, <1>5
  DEF RefNext, Work, Tick, Begin, FindHit, FindFails, Lock, Skip, Keep, Retire, Scan,
      Destroy, Unlock, Release, refVars

LEMMA ClockStep ==
  ASSUME TypeOK, PlaceInv, ClockInv, RetiredInv, [RefNext]_refVars
  PROVE  ClockInv'
<1> USE DEF ClockInv
<1>0. now \in Nat /\ Delay \in Nat /\ MaxTime \in Nat
  BY RefAssumption DEF TypeOK
<1>1. CASE UNCHANGED <<stamp, now, abandoned, destroyTs>>
  BY <1>1
<1>2. CASE Tick
  BY <1>0, <1>2 DEF Tick, TypeOK
<1>3. ASSUME NEW t \in Thread, Stamp(t) PROVE ClockInv'
  <2>1. \A u \in Thread : \A o \in abandoned[u] : destroyTs'[o] = destroyTs[o]
    BY <1>3 DEF Stamp, TypeOK, PlaceInv, Place, RetiredInv, GivenUpUnheld, Abandoned, Holders
  <2>2. \A u \in Thread : stamp'[u] <= now
    BY <1>0, <1>3 DEF Stamp, TypeOK
  <2> QED
    BY <1>3, <2>1, <2>2 DEF Stamp
<1>4. ASSUME NEW t \in Thread, Scan(t) PROVE ClockInv'
  <2>1. ASSUME Delay > 0, NEW o \in abandoned'[t] PROVE now - destroyTs[o] > Delay
    <3>1. o \in Obj /\ Overdue(o, stamp[t])
      BY <1>4, <2>1 DEF Scan, TypeOK, PlaceInv, Place
    <3>2. stamp[t] <= now /\ stamp[t] \in Nat /\ destroyTs[o] \in Nat
      BY <3>1 DEF TypeOK
    <3> QED
      BY <1>0, <3>1, <3>2 DEF Overdue
  <2>2. \A u \in Thread : stamp'[u] <= now
    BY <1>0, <1>4 DEF Scan, TypeOK
  <2>3. \A u \in Thread \ {t} : abandoned'[u] = abandoned[u]
    BY <1>4 DEF Scan, TypeOK
  <2> QED
    BY <1>4, <2>1, <2>2, <2>3 DEF Scan
<1>5. ASSUME NEW t \in Thread, Destroy(t) PROVE ClockInv'
  <2>1. \A u \in Thread : abandoned'[u] \subseteq abandoned[u]
    BY <1>5 DEF Destroy, TypeOK
  <2> QED
    BY <1>5, <2>1 DEF Destroy
<1> QED
  BY <1>1, <1>2, <1>3, <1>4, <1>5
  DEF RefNext, Work, Begin, FindHit, FindCreate, FindFails, Collect, Lock, Skip, Keep, Retire,
      Untree, Unlock, Release, refVars
-----------------------------------------------------------------------------
(* Threads on their way through a retirement; objects found and not lost.  *)

LEMMA OneKeyStep ==
  ASSUME TypeOK, PlaceInv, UnbornInv, OneKey, [RefNext]_refVars
  PROVE  OneKey'
<1> USE DEF OneKey
<1>1. CASE UNCHANGED tree
  BY <1>1
<1>2. ASSUME NEW t \in Thread, FindCreate(t) PROVE OneKey'
  BY <1>2, TargetType DEF FindCreate, TypeOK, UnbornInv
<1>3. ASSUME NEW t \in Thread, Collect(t) PROVE OneKey'
  <2>1. \A k \in Key : tree'[k] = NoObj \/ tree'[k] = tree[k]
    BY <1>3 DEF Collect
  <2> QED
    BY <2>1
<1>4. ASSUME NEW t \in Thread, Untree(t) PROVE OneKey'
  BY <1>4 DEF Untree
<1> QED
  BY <1>1, <1>2, <1>3, <1>4
  DEF RefNext, Work, Tick, Begin, FindHit, FindFails, Lock, Skip, Keep, Retire, Stamp, Scan,
      Destroy, Unlock, Release, refVars

LEMMA RetiringStep ==
  ASSUME TypeOK, PlaceInv, UnbornInv, OneKey, RetiredInv, [RefNext]_refVars
  PROVE  \A t \in Thread : Retiring(t)'
<1> USE DEF RetiredInv
<1> DEFINE Bystander(u) == /\ UNCHANGED <<pc[u], call[u], self[u]>>
                           /\ held'[u] \subseteq held[u]
                           /\ Destroyed(self[u]) => Destroyed(self[u])'
                           /\ LockHeld(u) => (Destroyed(self[u])' => Destroyed(self[u]))
                           /\ At(u, "enqueue") => self[u] \notin queue'
                           /\ \A k \in Key : tree'[k] = tree[k] \/ \A o \in held[u] : tree'[k] # o
<1>0. ASSUME NEW u \in Thread, Bystander(u) PROVE Retiring(u)'
  BY <1>0 DEF Retiring, Destroyed, LockHeld, PlaceInv, Place
<1>1. CASE UNCHANGED <<tree, destroyTs, queue, pc, call, self, held>>
  BY <1>1 DEF Retiring, Destroyed
<1>2. ASSUME NEW t \in Thread, NEW kind \in Kind, NEW keys, Begin(t, kind, keys)
      PROVE  \A u \in Thread : Retiring(u)'
  BY <1>2 DEF Begin, TypeOK, Retiring, Destroyed, PlaceInv, Place
<1>3. ASSUME NEW t \in Thread, FindHit(t) PROVE \A u \in Thread : Retiring(u)'
  <2>1. \A u \in Thread \ {t} : Bystander(u)
    BY <1>3 DEF FindHit, TypeOK, Retiring, Destroyed
  <2>2. Retiring(t)'
    BY <1>3 DEF FindHit, TypeOK, Retiring
  <2> QED
    BY <1>0, <2>1, <2>2
<1>4. ASSUME NEW t \in Thread, FindCreate(t) PROVE \A u \in Thread : Retiring(u)'
  <2>1. \A u \in Thread \ {t} : Bystander(u)
    BY <1>4 DEF FindCreate, TypeOK, Retiring, Destroyed, UnbornInv, Holders
  <2>2. Retiring(t)'
    BY <1>4 DEF FindCreate, TypeOK, Retiring
  <2> QED
    BY <1>0, <2>1, <2>2
<1>5. ASSUME NEW t \in Thread, FindFails(t) PROVE \A u \in Thread : Retiring(u)'
  BY <1>5 DEF FindFails, TypeOK, Retiring, Destroyed, PlaceInv, Place
<1>6. ASSUME NEW t \in Thread, Collect(t) PROVE \A u \in Thread : Retiring(u)'
  <2>1. \A k \in Key : \/ k \in call[t].keys /\ tree'[k] = NoObj
                       \/ k \notin call[t].keys /\ tree'[k] = tree[k]
    BY <1>6 DEF Collect
  <2>2. UNCHANGED <<destroyTs, queue, self>>
    BY <1>6 DEF Collect
  <2>3. \A u \in Thread \ {t} : UNCHANGED <<pc[u], call[u], held[u]>>
    BY <1>6, Collecting DEF TypeOK
  <2>4. \A u \in Thread \ {t} : Bystander(u)
    BY <2>1, <2>2, <2>3, RefAssumption DEF Destroyed, Retiring, TypeOK
  <2>5. Retiring(t)'
    <3>1. \A o \in held'[t] : \A k \in Key : tree'[k] # o
      <4>1. \A o \in held'[t] : o # NoObj /\ \E j \in call[t].keys : tree[j] = o
        BY <1>6, Collecting, RefAssumption DEF TypeOK
      <4> QED
        BY <2>1, <4>1, TypeOK DEF OneKey, TypeOK, Call
    <3>2. pc'[t] \in {"idle", "lock"}
      BY <1>6, Collecting DEF TypeOK
    <3> QED
      BY <3>1, <3>2 DEF Retiring
  <2> QED
    BY <1>0, <2>4, <2>5
<1>7. ASSUME NEW t \in Thread, Lock(t) PROVE \A u \in Thread : Retiring(u)'
  BY <1>7 DEF Lock, TypeOK, Retiring, Destroyed
<1>8. ASSUME NEW t \in Thread, Skip(t) PROVE \A u \in Thread : Retiring(u)'
  BY <1>8 DEF Skip, TypeOK, Retiring, Destroyed
<1>9. ASSUME NEW t \in Thread, Keep(t) \/ Retire(t) PROVE \A u \in Thread : Retiring(u)'
  BY <1>9 DEF Keep, Retire, TypeOK, Retiring, Destroyed, PlaceInv, Place
<1>10. ASSUME NEW t \in Thread, Untree(t) PROVE \A u \in Thread : Retiring(u)'
  <2>1. \A u \in Thread \ {t} : Bystander(u)
    BY <1>10, RefAssumption DEF Untree, TypeOK, Retiring, Destroyed
  <2>2. Retiring(t)'
    BY <1>10, RefAssumption DEF Untree, TypeOK, Retiring, Destroyed, PlaceInv, Place
  <2> QED
    BY <1>0, <2>1, <2>2
<1>11. ASSUME NEW t \in Thread, Stamp(t) PROVE \A u \in Thread : Retiring(u)'
  <2>1. \A u \in Thread \ {t} : Bystander(u)
    BY <1>11, RefAssumption DEF Stamp, TypeOK, Retiring, Destroyed, PlaceInv, Place, LockHeld
  <2>2. Retiring(t)'
    BY <1>11, RefAssumption DEF Stamp, TypeOK, Retiring, Destroyed, QueuedDestroyed, PlaceInv, Place
  <2> QED
    BY <1>0, <2>1, <2>2
<1>12. ASSUME NEW t \in Thread, Scan(t) PROVE \A u \in Thread : Retiring(u)'
  <2>0. queue' \subseteq queue \cup {self[t]} /\ pc[t] = "enqueue"
    BY <1>12 DEF Scan
  <2>1. \A u \in Thread \ {t} : Bystander(u)
    BY <1>12, <2>0 DEF Scan, TypeOK, Retiring, Destroyed, PlaceInv, Place, LockHeld
  <2>2. Retiring(t)'
    BY <1>12 DEF Scan, TypeOK, Retiring, Destroyed
  <2> QED
    BY <1>0, <2>1, <2>2
<1>13. ASSUME NEW t \in Thread, Destroy(t) PROVE \A u \in Thread : Retiring(u)'
  BY <1>13 DEF Destroy, TypeOK, Retiring, Destroyed
<1>14. ASSUME NEW t \in Thread, Unlock(t) PROVE \A u \in Thread : Retiring(u)'
  BY <1>14 DEF Unlock, TypeOK, Retiring, Destroyed
<1>15. ASSUME NEW t \in Thread, Release(t) PROVE \A u \in Thread : Retiring(u)'
  <2>1. \A u \in Thread \ {t} : Bystander(u)
    BY <1>15, Releasing DEF Release, TypeOK, Retiring, Destroyed
  <2>2. /\ pc'[t] \in {"idle", "find", "lock"}
        /\ call'[t].kind = "dlclose" => call[t].kind = "dlclose"
        /\ held'[t] \subseteq held[t]
    BY <1>15, Releasing DEF TypeOK
  <2>3. Retiring(t)'
    BY <1>15, <2>2 DEF Release, Retiring
  <2> QED
    BY <1>0, <2>1, <2>3
<1> QED
  BY <1>1, <1>2, <1>3, <1>4, <1>5, <1>6, <1>7, <1>8, <1>9, <1>10, <1>11, <1>12, <1>13,
     <1>14, <1>15 DEF RefNext, Work, Tick, Calls, Kind, refVars
LEMMA FoundStep ==
  ASSUME TypeOK, PlaceInv, UnbornInv, RetiredInv, FoundInv, [RefNext]_refVars
  PROVE  FoundInv'
<1> USE DEF FoundInv, RetiredInv
<1> DEFINE Elsewhere(o) == \/ \E v \in Thread : call[v].kind = "dlclose" /\ o \in held[v]
                           \/ \E v \in Thread : At(v, "stamp") /\ self[v] = o
\* Nothing changes for u, and no live object loses what kept it found.
<1> DEFINE Bystander(u) ==
      /\ UNCHANGED <<pc[u], call[u], held[u]>>
      /\ \A o \in held[u] : Destroyed(o) => Destroyed(o)'
      /\ \A o \in Obj : Elsewhere(o) => Elsewhere(o)' \/ Destroyed(o)'
      /\ \A k \in Key : \A o \in Obj : tree[k] = o => tree'[k] = o \/ Elsewhere(o)'
<1>0. ASSUME NEW u \in Thread, Bystander(u) PROVE Found(u)'
  <2> SUFFICES ASSUME NEW o \in held[u], pc[u] \in {"lock", "body"}, call[u].kind # "dlclose",
                      ~Destroyed(o)'
               PROVE  (\A k \in call[u].keys : tree'[k] = o) \/ Elsewhere(o)'
    BY <1>0 DEF Found
  <2>1. o \in Obj /\ ~Destroyed(o)
    BY <1>0 DEF TypeOK
  <2>2. PICK k \in Key : call[u].keys = {k}
    BY DEF PlaceInv, Place
  <2>3. tree[k] = o \/ Elsewhere(o)
    BY <2>1, <2>2 DEF Found
  <2> QED
    BY <1>0, <2>1, <2>2, <2>3
<1>1. CASE UNCHANGED <<tree, destroyTs, pc, call, self, held>>
  BY <1>1 DEF Found, Destroyed
<1>2. ASSUME NEW t \in Thread, NEW kind \in Kind, NEW keys, Begin(t, kind, keys) PROVE FoundInv'
  BY <1>2 DEF Begin, TypeOK, Found, Destroyed, PlaceInv, Place
<1>3. ASSUME NEW t \in Thread, FindHit(t) PROVE FoundInv'
  <2>1. \A u \in Thread \ {t} : Bystander(u)
    BY <1>3 DEF FindHit, TypeOK, Destroyed
  <2>2. Found(t)'
    BY <1>3, TargetType DEF FindHit, TypeOK, Found
  <2> QED
    BY <1>0, <2>1, <2>2
<1>4. ASSUME NEW t \in Thread, FindCreate(t) PROVE FoundInv'
  <2>1. \A u \in Thread \ {t} : Bystander(u)
    <3>1. \A k \in Key : tree[k] # NoObj => tree'[k] = tree[k]
      BY <1>4 DEF FindCreate, TypeOK
    <3>2. \A o : Elsewhere(o) => Elsewhere(o)'
      BY <1>4 DEF FindCreate, TypeOK
    <3>3. \A u \in Thread \ {t} : UNCHANGED <<pc[u], call[u], held[u], destroyTs>>
      BY <1>4 DEF FindCreate, TypeOK
    <3> QED
      BY <3>1, <3>2, <3>3, RefAssumption DEF Destroyed
  <2>2. Found(t)'
    BY <1>4, TargetType DEF FindCreate, TypeOK, Found
  <2> QED
    BY <1>0, <2>1, <2>2
<1>5. ASSUME NEW t \in Thread, FindFails(t) PROVE FoundInv'
  BY <1>5 DEF FindFails, TypeOK, Found, Destroyed, PlaceInv, Place
<1>6. ASSUME NEW t \in Thread, Collect(t) PROVE FoundInv'
  <2>1. \A u \in Thread \ {t} : Bystander(u)
    <3>1. /\ pc[t] = "find" /\ call[t].kind = "dlclose" /\ held[t] = {} /\ UNCHANGED <<self, destroyTs>>
          /\ \A k \in Key : tree'[k] = tree[k] \/ k \in call[t].keys
      BY <1>6 DEF Collect, PlaceInv, Place
    <3>2. \A u \in Thread \ {t} : UNCHANGED <<pc[u], call[u], held[u]>>
      BY <1>6, Collecting DEF TypeOK
    <3>3. held'[t] # {} => call'[t] = call[t]
      BY <1>6, Collecting DEF TypeOK
    <3>4. \A k \in call[t].keys : tree[k] # NoObj => tree[k] \in held'[t]
      BY <1>6, Collecting DEF TypeOK
    <3>5. \A o : Elsewhere(o) => Elsewhere(o)'
      BY <3>1, <3>2
    <3> QED
      BY <3>1, <3>2, <3>3, <3>4, <3>5, RefAssumption DEF Destroyed
  <2>2. Found(t)'
    <3>1. pc[t] = "find" /\ call[t].kind = "dlclose"
      BY <1>6 DEF Collect
    <3>2. pc'[t] = "idle" \/ call'[t] = call[t]
      BY <1>6, Collecting DEF TypeOK
    <3> QED
      BY <3>1, <3>2 DEF Found
  <2> QED
    BY <1>0, <2>1, <2>2
<1>7. ASSUME NEW t \in Thread, Lock(t) PROVE FoundInv'
  BY <1>7 DEF Lock, TypeOK, Found, Destroyed
<1>8. ASSUME NEW t \in Thread, Skip(t) PROVE FoundInv'
  BY <1>8 DEF Skip, TypeOK, Found, Destroyed
<1>9. ASSUME NEW t \in Thread, Keep(t) \/ Retire(t) PROVE FoundInv'
  BY <1>9 DEF Keep, Retire, TypeOK, Found, Destroyed
<1>10. ASSUME NEW t \in Thread, Untree(t) PROVE FoundInv'
  <2>0. \A u \in Thread : UNCHANGED <<call[u], held[u], self[u], destroyTs>>
    BY <1>10 DEF Untree
  <2>1. \A u \in Thread \ {t} : Bystander(u)
    <3>1. pc'[t] = "stamp" /\ pc[t] = "untree" /\ \A u \in Thread \ {t} : pc'[u] = pc[u]
      BY <1>10 DEF Untree, TypeOK
    <3>2. \A k \in Key : tree'[k] = tree[k] \/ tree[k] = self[t]
      BY <1>10 DEF Untree
    <3>3. \A o : Elsewhere(o) => Elsewhere(o)'
      BY <2>0, <3>1
    <3>4. Elsewhere(self[t])'
      BY <2>0, <3>1
    <3> QED
      BY <2>0, <3>1, <3>2, <3>3, <3>4 DEF Destroyed
  <2>2. Found(t)'
    BY <1>10 DEF Untree, TypeOK, Found
  <2> QED
    BY <1>0, <2>1, <2>2
<1>11. ASSUME NEW t \in Thread, Stamp(t) PROVE FoundInv'
  BY <1>11, RefAssumption DEF Stamp, TypeOK, Found, Destroyed
<1>12. ASSUME NEW t \in Thread, Scan(t) PROVE FoundInv'
  BY <1>12 DEF Scan, TypeOK, Found, Destroyed
<1>13. ASSUME NEW t \in Thread, Destroy(t) PROVE FoundInv'
  BY <1>13 DEF Destroy, TypeOK, Found, Destroyed
<1>14. ASSUME NEW t \in Thread, Unlock(t) PROVE FoundInv'
  BY <1>14 DEF Unlock, TypeOK, Found, Destroyed
<1>15. ASSUME NEW t \in Thread, Release(t) PROVE FoundInv'
  <2>1. \A u \in Thread \ {t} : Bystander(u)
    <3>1. UNCHANGED <<tree, destroyTs>> /\ pc[t] = "release" /\ \A u \in Thread \ {t} : self'[u] = self[u]
      BY <1>15 DEF Release, TypeOK
    <3>2. \A u \in Thread \ {t} : UNCHANGED <<pc[u], call[u], held[u]>>
      BY <1>15, Releasing DEF TypeOK
    <3>3. held'[t] = held[t] \ {self[t]} /\ (held'[t] # {} => call'[t] = call[t])
      BY <1>15, Releasing DEF TypeOK
    <3>4. call[t].kind = "dlclose" => Destroyed(self[t])
      BY <3>1 DEF Retiring
    <3>5. \A o : Elsewhere(o) => Elsewhere(o)' \/ Destroyed(o)
      BY <3>1, <3>2, <3>3, <3>4
    <3> QED
      BY <3>1, <3>2, <3>5 DEF Destroyed
  <2>2. Found(t)'
    <3>1. pc'[t] \in {"idle", "find"} \/ (held'[t] # {} /\ call'[t] = call[t])
      BY <1>15, Releasing DEF TypeOK
    <3>2. pc[t] = "release" /\ held'[t] = held[t] \ {self[t]} /\ self[t] \in held[t]
      BY <1>15, Releasing DEF Release, PlaceInv, Place
    <3> QED
      BY <3>1, <3>2 DEF Found, PlaceInv, Place
  <2> QED
    BY <1>0, <2>1, <2>2
<1> QED
  BY <1>1, <1>2, <1>3, <1>4, <1>5, <1>6, <1>7, <1>8, <1>9, <1>10, <1>11, <1>12, <1>13,
     <1>14, <1>15 DEF RefNext, Work, Tick, Calls, Kind, refVars
-----------------------------------------------------------------------------
(* No object is queued or freed twice.                                     *)

LEMMA OnceStep ==
  ASSUME TypeOK, PlaceInv, RetiredInv, DestroyedOnce, [RefNext]_refVars
  PROVE  DestroyedOnce'
<1> USE DEF DestroyedOnce
<1>1. CASE UNCHANGED <<queue, freed, abandoned, self, pc>>
  BY <1>1
<1>2. ASSUME UNCHANGED <<queue, freed, abandoned>>,
             \A u \in Thread : At(u, "enqueue")' => At(u, "enqueue") /\ self'[u] = self[u]
      PROVE  DestroyedOnce'
  BY <1>2
<1>3. ASSUME NEW t \in Thread, Stamp(t) PROVE DestroyedOnce'
  <2>1. self[t] \in Obj /\ self[t] \notin queue \cup freed
    BY <1>3 DEF Stamp, RetiredInv, QueuedDestroyed, Retiring, PlaceInv, Place, TypeOK
  <2>2. \A u \in Thread \ {t} : At(u, "enqueue") => self[u] # self[t]
    BY <1>3 DEF Stamp, PlaceInv, Place, LockHeld
  <2> QED
    BY <1>3, <2>1, <2>2 DEF Stamp, TypeOK
<1>4. ASSUME NEW t \in Thread, Scan(t) PROVE DestroyedOnce'
  <2>1. /\ self[t] \in Obj /\ queue' \cup abandoned'[t] \subseteq queue \cup {self[t]}
        /\ queue' \cap abandoned'[t] = {}
    BY <1>4 DEF Scan, PlaceInv, Place, TypeOK
  <2>2. \A u \in Thread : self[t] \notin abandoned[u] \cup freed
    BY <1>4 DEF Scan, RetiredInv, GivenUpUnheld, Holders, Abandoned, PlaceInv, Place, TypeOK
  <2>3. \A u \in Thread \ {t} : abandoned'[u] = abandoned[u] /\ pc'[u] = pc[u]
    BY <1>4 DEF Scan, TypeOK
  <2>4. UNCHANGED <<freed, self>> /\ pc[t] = "enqueue" /\ pc'[t] = "destroy"
    BY <1>4 DEF Scan, TypeOK
  <2> QED
    BY <2>1, <2>2, <2>3, <2>4
<1>5. ASSUME NEW t \in Thread, Destroy(t) PROVE DestroyedOnce'
  <2>1. /\ UNCHANGED <<queue, self>> /\ pc[t] = "destroy" /\ pc'[t] # "enqueue"
        /\ \A u \in Thread \ {t} : pc'[u] = pc[u] /\ abandoned'[u] = abandoned[u]
    BY <1>5 DEF Destroy, TypeOK
  <2>2. CASE UNCHANGED <<freed, abandoned>>
    BY <2>1, <2>2
  <2>3. ASSUME NEW o \in abandoned[t], freed' = freed \cup {o}, abandoned'[t] = abandoned[t] \ {o}
        PROVE  DestroyedOnce'
    <3>1. \A u \in Thread : At(u, "enqueue") => self[u] # o
      BY DEF RetiredInv, GivenUpUnheld, Holders, Abandoned, PlaceInv, Place, TypeOK
    <3> QED
      BY <2>1, <2>3, <3>1
  <2> QED
    BY <1>5, <2>2, <2>3 DEF Destroy, TypeOK
<1>6. ASSUME NEW t \in Thread, Lock(t) PROVE DestroyedOnce'
  <2>1. \A u \in Thread : At(u, "enqueue")' => At(u, "enqueue") /\ self'[u] = self[u]
    BY <1>6 DEF Lock, TypeOK
  <2> QED
    BY <1>2, <1>6, <2>1 DEF Lock
<1>7. ASSUME NEW t \in Thread, Release(t) PROVE DestroyedOnce'
  <2>1. \A u \in Thread : At(u, "enqueue")' => At(u, "enqueue") /\ self'[u] = self[u]
    BY <1>7, Releasing DEF Release, TypeOK
  <2> QED
    BY <1>2, <1>7, <2>1 DEF Release
<1>8. ASSUME NEW t \in Thread, Collect(t) PROVE DestroyedOnce'
  <2>1. \A u \in Thread : At(u, "enqueue")' => At(u, "enqueue") /\ self'[u] = self[u]
    <3>1. UNCHANGED self /\ pc'[t] # "enqueue" /\ \A u \in Thread \ {t} : pc'[u] = pc[u]
      <4>1. UNCHANGED self
        BY <1>8 DEF Collect
      <4> QED
        BY <1>8, <4>1, Collecting DEF TypeOK
    <3> QED
      BY <3>1
  <2> QED
    BY <1>2, <1>8, <2>1 DEF Collect
<1>9. ASSUME NEW t \in Thread,
             \/ \E c \in Calls : Begin(t, c[1], c[2])
             \/ FindHit(t) \/ FindCreate(t) \/ FindFails(t) \/ Skip(t) \/ Keep(t)
             \/ Retire(t) \/ Untree(t) \/ Unlock(t)
      PROVE  DestroyedOnce'
  <2>1. \A u \in Thread : At(u, "enqueue")' => At(u, "enqueue") /\ self'[u] = self[u]
    BY <1>9 DEF Begin, FindHit, FindCreate, FindFails, Skip, Keep, Retire, Untree, Unlock, TypeOK
  <2> QED
    BY <1>2, <1>9, <2>1 DEF Begin, FindHit, FindCreate, FindFails, Skip, Keep, Retire, Untree, Unlock
<1> QED
  BY <1>1, <1>3, <1>4, <1>5, <1>6, <1>7, <1>8, <1>9 DEF RefNext, Work, Tick, refVars

-----------------------------------------------------------------------------
(* The theorems.                                                           *)

LEMMA RefInvInit == RefInit => TypeOK /\ RefInv
<1> SUFFICES ASSUME RefInit PROVE TypeOK /\ RefInv
  OBVIOUS
<1> USE RefAssumption DEF RefInit
<1>1. TypeOK
  BY DEF TypeOK, PC, Kind, Call
<1>2. CountExact
  <2>1. \A o \in Obj : Holders(o) = {}
    BY DEF Holders
  <2> QED
    BY <2>1, FS_EmptySet DEF CountExact
<1>3. PlaceInv /\ FoundInv
  BY DEF PlaceInv, Place, LockHeld, FoundInv, Found
<1>4. UnbornInv /\ OneKey /\ DestroyedOnce
  BY DEF UnbornInv, OneKey, DestroyedOnce, Abandoned, Holders
<1>5. RetiredInv
  BY DEF RetiredInv, QueuedDestroyed, GivenUpUnheld, TreeLive, Retiring, Abandoned, Destroyed
<1>6. ClockInv
  BY DEF ClockInv
<1> QED
  BY <1>1, <1>2, <1>3, <1>4, <1>5, <1>6 DEF RefInv

LEMMA RefInvStep == TypeOK /\ RefInv /\ [RefNext]_refVars => TypeOK' /\ RefInv'
<1> SUFFICES ASSUME TypeOK, RefInv, [RefNext]_refVars
             PROVE  TypeOK' /\ RefInv'
  OBVIOUS
<1>1. TypeOK' /\ CountExact'
  BY TypeStep, CountStep
<1>2. PlaceInv' /\ UnbornInv' /\ OneKey'
  BY PlaceStep, UnbornStep, OneKeyStep DEF RefInv
<1>3. RetiredInv'
  BY QueuedStep, GivenUpStep, TreeStep, RetiringStep DEF RefInv, RetiredInv
<1>4. ClockInv' /\ FoundInv' /\ DestroyedOnce'
  BY ClockStep, FoundStep, OnceStep DEF RefInv
<1> QED
  BY <1>1, <1>2, <1>3, <1>4 DEF RefInv

\* The variables keep their types, and the inductive invariant holds: counts are
\* exact, locks are held where the code holds them, destroyed objects are where
\* sh_ref_delayed_destroy put them.
THEOREM RefInvariant == RefSpec => [](TypeOK /\ RefInv)
<1>1. RefInit => TypeOK /\ RefInv
  BY RefInvInit
<1>2. TypeOK /\ RefInv /\ [RefNext]_refVars => TypeOK' /\ RefInv'
  BY RefInvStep
<1> QED
  BY <1>1, <1>2, PTL DEF RefSpec
\* Every variable keeps its type, whatever the threads do.
THEOREM TypeCorrect == RefSpec => []TypeOK
<1> QED
  BY RefInvariant, PTL

\* An object of which a thread owns a count is never freed: the scan takes what has
\* a count of zero, and counts are exact.
THEOREM NoUseAfterFreeHolds == RefSpec => []NoUseAfterFree
<1>1. TypeOK /\ RefInv => NoUseAfterFree
  BY DEF RefInv, RetiredInv, GivenUpUnheld, Holders, NoUseAfterFree, TypeOK
<1> QED
  BY <1>1, RefInvariant, PTL

\* A handler past the is_destroyed test has the registry's object of its key,
\* unless a dlclose sweep took it out meanwhile.
THEOREM BodyOnRegisteredHolds == RefSpec => []BodyOnRegistered
<1>1. ASSUME TypeOK, RefInv PROVE BodyOnRegistered
  <2> SUFFICES ASSUME NEW t \in Thread, At(t, "body"), call[t].kind # "dlclose",
                      ~Destroyed(self[t])
               PROVE  \/ tree[Target(t)] = self[t]
                      \/ \E u \in Thread : call[u].kind = "dlclose" /\ self[t] \in held[u]
    BY DEF BodyOnRegistered
  <2>1. /\ self[t] \in held[t] /\ self[t] \in Obj
        /\ lock[self[t]] = t
    BY <1>1 DEF RefInv, PlaceInv, Place, LockHeld, TypeOK
  <2>2. Target(t) \in Key /\ call[t].keys = {Target(t)}
    BY <1>1, TargetType DEF RefInv
  <2>3. ~ \E u \in Thread : At(u, "stamp") /\ self[u] = self[t]
    BY <1>1, <2>1 DEF RefInv, PlaceInv, Place, LockHeld
  <2> QED
    BY <1>1, <2>1, <2>2, <2>3 DEF RefInv, FoundInv, Found
<1> QED
  BY <1>1, RefInvariant, PTL

\* No object is queued, given up or freed twice, though an unhook, a failed hook and
\* a dlclose sweep may all want to destroy it.
THEOREM DestroyedOnceHolds == RefSpec => []DestroyedOnce
<1>1. RefInv => DestroyedOnce
  BY DEF RefInv
<1> QED
  BY <1>1, RefInvariant, PTL

\* Memory goes only to what was destroyed, and longer ago than the delay.
THEOREM GraceElapsedHolds == RefSpec => GraceElapsed
<1> DEFINE Grace == \A o \in freed' \ freed :
                      Destroyed(o) /\ (Delay > 0 => now - destroyTs[o] > Delay)
<1>1. ASSUME TypeOK, RefInv, [RefNext]_refVars PROVE [Grace]_refVars
  <2>1. CASE freed' = freed
    BY <2>1
  <2>2. ASSUME NEW t \in Thread, Destroy(t) PROVE Grace
    <3>1. \A o \in freed' \ freed : o \in abandoned[t] /\ o \in Obj
      BY <1>1, <2>2 DEF Destroy, TypeOK
    <3> QED
      BY <1>1, <3>1 DEF RefInv, RetiredInv, QueuedDestroyed, Abandoned, ClockInv
  <2> QED
    BY <1>1, <2>1, <2>2
    DEF RefNext, Work, Tick, Begin, FindHit, FindCreate, FindFails, Collect, Lock, Skip, Keep,
        Retire, Untree, Stamp, Scan, Unlock, Release, refVars
<1> QED
  BY <1>1, RefInvariant, PTL DEF RefSpec, GraceElapsed
=============================================================================
