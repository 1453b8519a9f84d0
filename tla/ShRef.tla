------------------------------- MODULE ShRef -------------------------------
(***************************************************************************)
(* The life cycle of a reference-counted object that threads look up in a  *)
(* registry (common/sh_ref.c and the registry code of sh_switch.c):        *)
(*                                                                         *)
(*   find / create under the registry lock, which also takes a count;      *)
(*   work on the object under its own lock, unless it was destroyed while  *)
(*   the thread waited ("try again" for the calls that create, "not found" *)
(*   for the others);                                                      *)
(*   retire it: out of the registry, stamp, into the manager's queue;      *)
(*   a scan of that queue, part of every retirement, frees the objects     *)
(*   whose delay is over and whose count is zero.                          *)
(*                                                                         *)
(* What a call does with the object is left open here (Keep or Retire);    *)
(* ShSwitch conjoins the switch's own handlers with these actions.         *)
(***************************************************************************)
EXTENDS Naturals, FiniteSets

CONSTANTS
  Thread,    \* threads that call the library
  Obj,       \* objects memory can hold (bound: no more than these are created)
  Key,       \* registry keys: the target addresses
  Lib,       \* sets of keys: the target addresses of one ELF
  NoObj,     \* "no object"
  NoThread,  \* "no thread"
  Delay,     \* mgr->delay_sec
  MaxTime    \* bound on the clock

ASSUME RefAssumption ==
  /\ IsFiniteSet(Thread) /\ NoThread \notin Thread
  /\ NoObj \notin Obj
  /\ Lib \subseteq SUBSET Key
  /\ Delay \in Nat
  /\ MaxTime \in Nat

VARIABLES
  tree,       \* the registry: key -> object or NoObj
  born,       \* objects created so far
  count,      \* ref.count of each object
  destroyTs,  \* ref.destroy_ts of each object, 0 = not destroyed
  lock,       \* owner of ref.lock of each object
  queue,      \* mgr.queue, as the set of its members ...
  ahead,      \* ... and, for each object, the members in front of it
  freed,      \* objects whose memory was given back
  now,        \* sh_util_get_stable_timestamp()
  pc,         \* where each thread is in its call
  call,       \* what each thread was called for: [kind, keys]
  self,       \* the object whose lock the thread took last
  held,       \* objects of which the thread still owns a count
  stamp,      \* the thread's local `now`
  abandoned,  \* the thread's local list of objects to destroy
  again       \* is the thread's result SH_ERRNO_INTERNAL_AGAIN?

registry == <<tree, born>>
objects  == <<count, destroyTs, lock, queue, ahead, freed>>
locals   == <<call, self, held, stamp, abandoned, again>>
refVars  == <<tree, born, count, destroyTs, lock, queue, ahead, freed, now,
              pc, call, self, held, stamp, abandoned, again>>

\* "get": create on a miss, retry on AGAIN.  "find": give up on either.
\* "dlclose": the sweep over the objects of an ELF that is being closed.
Kind == {"get", "find", "dlclose"}
Call == [kind : Kind, keys : SUBSET Key]
NoCall == [kind |-> "find", keys |-> {}]
PC   == {"idle", "find", "lock", "body", "untree", "stamp", "enqueue",
         "destroy", "unlock", "release"}

TypeOK ==
  /\ tree \in [Key -> Obj \cup {NoObj}]
  /\ born \subseteq Obj
  /\ count \in [Obj -> Nat]
  /\ destroyTs \in [Obj -> Nat]
  /\ lock \in [Obj -> Thread \cup {NoThread}]
  /\ queue \subseteq Obj
  /\ ahead \in [Obj -> SUBSET Obj]
  /\ freed \subseteq Obj
  /\ now \in 1 .. MaxTime + 1
  /\ pc \in [Thread -> PC]
  /\ call \in [Thread -> Call]
  /\ self \in [Thread -> Obj \cup {NoObj}]
  /\ held \in [Thread -> SUBSET Obj]
  /\ stamp \in [Thread -> Nat]
  /\ abandoned \in [Thread -> SUBSET Obj]
  /\ again \in [Thread -> BOOLEAN]

RefInit ==
  /\ tree = [k \in Key |-> NoObj]
  /\ born = {}
  /\ count = [o \in Obj |-> 0]
  /\ destroyTs = [o \in Obj |-> 0]
  /\ lock = [o \in Obj |-> NoThread]
  /\ queue = {}
  /\ ahead = [o \in Obj |-> {}]
  /\ freed = {}
  /\ now = 1
  /\ pc = [t \in Thread |-> "idle"]
  /\ call = [t \in Thread |-> NoCall]
  /\ self = [t \in Thread |-> NoObj]
  /\ held = [t \in Thread |-> {}]
  /\ stamp = [t \in Thread |-> 0]
  /\ abandoned = [t \in Thread |-> {}]
  /\ again = [t \in Thread |-> FALSE]

-----------------------------------------------------------------------------
(* The registry, under its lock: each action is one critical section.      *)

At(t, here) == pc[t] = here
Goto(t, there) == pc' = [pc EXCEPT ![t] = there]
\* The call returns, and its locals with it.
Return(t) == Goto(t, "idle") /\ call' = [call EXCEPT ![t] = NoCall]
Target(t) == CHOOSE k \in call[t].keys : TRUE
Destroyed_Never(o) == FALSE  \* mutant: no test after the lock
Destroyed(o) == destroyTs[o] # 0

\* The linker closes one library at a time: it holds its mutex meanwhile.
Begin(t, kind, keys) ==
  /\ At(t, "idle")
  /\ IF kind = "dlclose"
     THEN keys \in Lib /\ \A u \in Thread : pc[u] # "idle" => call[u].kind # "dlclose"
     ELSE \E k \in Key : keys = {k}
  /\ call' = [call EXCEPT ![t] = [kind |-> kind, keys |-> keys]]
  /\ Goto(t, "find")
  /\ UNCHANGED <<registry, objects, now, self, held, stamp, abandoned, again>>

\* find and find_with_create, the key is there: take a count.
FindHit(t) ==
  /\ At(t, "find") /\ call[t].kind # "dlclose"
  /\ tree[Target(t)] # NoObj
  /\ count' = [count EXCEPT ![tree[Target(t)]] = @ + 1]
  /\ held' = [held EXCEPT ![t] = {tree[Target(t)]}]
  /\ Goto(t, "lock")
  /\ UNCHANGED <<registry, destroyTs, lock, queue, ahead, freed, now, call, self,
                 stamp, abandoned, again>>

\* find_with_create, the key is not there: a new object, with a count.
FindCreate(t) ==
  /\ At(t, "find") /\ call[t].kind = "get"
  /\ tree[Target(t)] = NoObj /\ Obj \ born # {}
  /\ LET o == CHOOSE x \in Obj \ born : TRUE  \* the address malloc returns
     IN /\ born' = born \cup {o}
        /\ tree' = [tree EXCEPT ![Target(t)] = o]
        /\ count' = [count EXCEPT ![o] = 1]
        /\ held' = [held EXCEPT ![t] = {o}]
  /\ Goto(t, "lock")
  /\ UNCHANGED <<destroyTs, lock, queue, ahead, freed, now, call, self, stamp,
                 abandoned, again>>

\* Nothing found, or no memory to create: the call returns.
FindFails(t) ==
  /\ At(t, "find") /\ call[t].kind # "dlclose"
  /\ tree[Target(t)] = NoObj
  /\ Return(t)
  /\ UNCHANGED <<registry, objects, now, self, held, stamp, abandoned, again>>

\* The sweep takes every object of the ELF out of the registry, with a count.
Collect(t) ==
  /\ At(t, "find") /\ call[t].kind = "dlclose"
  /\ LET taken == {tree[k] : k \in call[t].keys} \ {NoObj}
     IN /\ tree' = [k \in Key |-> IF k \in call[t].keys THEN NoObj ELSE tree[k]]
        /\ count' = [o \in Obj |-> IF o \in taken THEN count[o] + 1 ELSE count[o]]
        /\ held' = [held EXCEPT ![t] = taken]
        /\ IF taken = {} THEN Return(t) ELSE Goto(t, "lock") /\ UNCHANGED call
  /\ UNCHANGED <<born, destroyTs, lock, queue, ahead, freed, now, self, stamp,
                 abandoned, again>>

-----------------------------------------------------------------------------
(* The object, under its own lock.                                         *)

Lock(t) ==
  /\ At(t, "lock")
  /\ \E o \in held[t] :
       /\ lock[o] = NoThread
       /\ lock' = [lock EXCEPT ![o] = t]
       /\ self' = [self EXCEPT ![t] = o]
  /\ Goto(t, "body")
  /\ UNCHANGED <<registry, count, destroyTs, queue, ahead, freed, now, call, held,
                 stamp, abandoned, again>>

\* Mutant: the early return gives the count back as well.
Skip_Releases(t) ==
  /\ At(t, "body") /\ Destroyed(self[t])
  /\ again' = [again EXCEPT ![t] = call[t].kind = "get"]
  /\ count' = [count EXCEPT ![self[t]] = @ - 1]
  /\ Goto(t, "unlock")
  /\ UNCHANGED <<registry, destroyTs, lock, queue, ahead, freed, now, call, self,
                 held, stamp, abandoned>>

\* Destroyed while this thread waited for the lock.
Skip(t) ==
  /\ At(t, "body") /\ Destroyed(self[t])
  /\ again' = [again EXCEPT ![t] = call[t].kind = "get"]
  /\ Goto(t, "unlock")
  /\ UNCHANGED <<registry, objects, now, call, self, held, stamp, abandoned>>

Keep(t) ==
  /\ At(t, "body") /\ ~Destroyed(self[t]) /\ call[t].kind # "dlclose"
  /\ Goto(t, "unlock")
  /\ UNCHANGED <<registry, objects, now, locals>>

\* Mutant: the sweep destroys what an unhook already destroyed.
Retire_Twice(t) ==
  /\ At(t, "body") /\ (~Destroyed(self[t]) \/ call[t].kind = "dlclose")
  /\ Goto(t, IF call[t].kind = "dlclose" THEN "stamp" ELSE "untree")
  /\ UNCHANGED <<registry, objects, now, locals>>

\* The handler ends in remove_and_destroy; the sweep only destroys.
Retire(t) ==
  /\ At(t, "body") /\ ~Destroyed(self[t])
  /\ Goto(t, IF call[t].kind = "dlclose" THEN "stamp" ELSE "untree")
  /\ UNCHANGED <<registry, objects, now, locals>>

\* Mutant: the object stays in the registry.
Untree_Not(t) == At(t, "untree") /\ Goto(t, "stamp") /\ UNCHANGED <<registry, objects, now, locals>>

\* Only if the registry's object for that key is still this one.
Untree(t) ==
  /\ At(t, "untree")
  /\ tree' = [k \in Key |-> IF tree[k] = self[t] THEN NoObj ELSE tree[k]]
  /\ Goto(t, "stamp")
  /\ UNCHANGED <<born, objects, now, locals>>

Stamp(t) ==
  /\ At(t, "stamp")
  /\ stamp' = [stamp EXCEPT ![t] = IF Delay > 0 THEN now ELSE 0]
  /\ destroyTs' = [destroyTs EXCEPT ![self[t]] = IF Delay > 0 THEN now ELSE 1]
  /\ Goto(t, "enqueue")
  /\ UNCHANGED <<registry, count, lock, queue, ahead, freed, now, call, self, held,
                 abandoned, again>>

Overdue_Early(o, time) == time - destroyTs[o] >= Delay  \* mutant
Overdue(o, time) == time > destroyTs[o] /\ time - destroyTs[o] > Delay

\* Mutant: the count is not looked at.
Scan_Uncounted(t) ==
  /\ At(t, "enqueue")
  /\ LET taken == {o \in queue \cup {self[t]} : Delay > 0 => Overdue(o, stamp[t])}
     IN /\ queue' = (queue \cup {self[t]}) \ taken
        /\ ahead' = [o \in Obj |-> ahead[o] \ taken]
        /\ abandoned' = [abandoned EXCEPT ![t] = taken]
  /\ stamp' = [stamp EXCEPT ![t] = 0]
  /\ Goto(t, "destroy")
  /\ UNCHANGED <<registry, count, destroyTs, lock, freed, now, call, self, held, again>>

\* Under mgr.lock: insert at the tail, then take from the queue what nobody
\* holds; with a delay the scan stops at the first object not yet overdue.
Scan(t) ==
  /\ At(t, "enqueue")
  /\ LET members == queue \cup {self[t]}
         front   == [ahead EXCEPT ![self[t]] = queue]
         reached == IF Delay > 0
                    THEN {o \in members :
                            \A p \in {o} \cup (front[o] \cap members) : Overdue(p, stamp[t])}
                    ELSE members
         taken   == {o \in reached : count[o] = 0}
     IN /\ queue' = members \ taken
        /\ ahead' = [o \in Obj |-> IF o \in taken THEN {} ELSE front[o] \ taken]
        /\ abandoned' = [abandoned EXCEPT ![t] = taken]
  /\ stamp' = [stamp EXCEPT ![t] = 0]
  /\ Goto(t, "destroy")
  /\ UNCHANGED <<registry, count, destroyTs, lock, freed, now, call, self, held,
                 again>>

\* mgr->destroy for one abandoned object after the other.
Destroy(t) ==
  /\ At(t, "destroy")
  /\ \/ \E o \in abandoned[t] :
          /\ freed' = freed \cup {o}
          /\ abandoned' = [abandoned EXCEPT ![t] = @ \ {o}]
          /\ UNCHANGED pc
     \/ /\ abandoned[t] = {}
        /\ Goto(t, "unlock")
        /\ UNCHANGED <<freed, abandoned>>
  /\ UNCHANGED <<registry, count, destroyTs, lock, queue, ahead, now, call, self,
                 held, stamp, again>>

Unlock(t) ==
  /\ At(t, "unlock")
  /\ lock' = [lock EXCEPT ![self[t]] = NoThread]
  /\ Goto(t, "release")
  /\ UNCHANGED <<registry, count, destroyTs, queue, ahead, freed, now, locals>>

\* Give the count back, then the next object of a sweep, another try of a
\* call that got AGAIN, or the end.
Release(t) ==
  /\ At(t, "release")
  /\ count' = [count EXCEPT ![self[t]] = @ - 1]
  /\ held' = [held EXCEPT ![t] = @ \ {self[t]}]
  /\ again' = [again EXCEPT ![t] = FALSE]
  /\ self' = [self EXCEPT ![t] = NoObj]
  /\ \/ held'[t] # {} /\ Goto(t, "lock") /\ UNCHANGED call
     \/ held'[t] = {} /\ again[t] /\ Goto(t, "find") /\ UNCHANGED call
     \/ held'[t] = {} /\ ~again[t] /\ Return(t)
  /\ UNCHANGED <<registry, destroyTs, lock, queue, ahead, freed, now, stamp,
                 abandoned>>

Tick ==
  /\ now <= MaxTime
  /\ now' = now + 1
  /\ UNCHANGED <<registry, objects, pc, locals>>

-----------------------------------------------------------------------------
(* Steps of a call that has begun, except for the lock it may wait for.    *)
Work(t) ==
  \/ FindHit(t) \/ FindCreate(t) \/ FindFails(t) \/ Collect(t)
  \/ Skip(t) \/ Keep(t) \/ Retire(t) \/ Untree(t) \/ Stamp(t) \/ Scan(t)
  \/ Destroy(t) \/ Unlock(t) \/ Release(t)

Calls == {<<kind, {k}>> : kind \in {"get", "find"}, k \in Key} \cup ({"dlclose"} \X Lib)

RefNext ==
  \/ Tick
  \/ \E t \in Thread :
       \/ \E c \in Calls : Begin(t, c[1], c[2])
       \/ Lock(t)
       \/ Work(t)

RefSpec == RefInit /\ [][RefNext]_refVars

(* A thread keeps running, and the mutex does not starve a waiter.         *)
RefFairness == \A t \in Thread : WF_refVars(Work(t)) /\ SF_refVars(Lock(t))
FairRefSpec == RefSpec /\ RefFairness

-----------------------------------------------------------------------------
(* Properties.                                                             *)

\* While a thread owns a count of an object, from the lookup that took it to
\* the decrement (sh_ref_decrement_count), the object's memory is not given back.
NoUseAfterFree == \A t \in Thread : held[t] \cap freed = {}

\* A handler that passed the is_destroyed test works on the registry's object of
\* its key, never on an orphan beside which another thread could create a second
\* one, except that a dlclose sweep may already have collected it.
BodyOnRegistered ==
  \A t \in Thread :
    At(t, "body") /\ call[t].kind # "dlclose" /\ ~Destroyed(self[t]) =>
      \/ tree[Target(t)] = self[t]
      \/ \E u \in Thread : call[u].kind = "dlclose" /\ self[t] \in held[u]

\* An object is enqueued and destroyed at most once, whichever of an unhook and a
\* dlclose sweep that race for it comes first: queue, abandoned lists and freed
\* memory never share an object, and a freed object was destroyed.
DestroyedOnce ==
  /\ queue \cap freed = {}
  /\ \A t \in Thread :
       /\ abandoned[t] \cap (queue \cup freed) = {}
       /\ \A u \in Thread \ {t} : abandoned[t] \cap abandoned[u] = {}
       /\ At(t, "enqueue") => self[t] \notin queue \cup freed
       /\ \A u \in Thread \ {t} :
            At(t, "enqueue") /\ At(u, "enqueue") => self[t] # self[u]

\* Memory is given back only when the delay after the object's destruction is
\* over: a thread still executing the object's code has that long to leave it.
GraceElapsed ==
  [][\A o \in freed' \ freed :
       Destroyed(o) /\ (Delay > 0 => now - destroyTs[o] > Delay)]_refVars

\* A call returns: the retry on SH_ERRNO_INTERNAL_AGAIN finds a new object or
\* none, never the destroyed one for ever, and no thread waits for a lock for ever.
CallsReturn == \A t \in Thread : pc[t] # "idle" ~> pc[t] = "idle"
-----------------------------------------------------------------------------
(* Why the safety properties hold: the inductive invariant.                *)

Holders(o) == {t \in Thread : o \in held[t]}
LockHeld(t) == pc[t] \in {"body", "untree", "stamp", "enqueue", "destroy", "unlock"}
Abandoned(o) == \E t \in Thread : o \in abandoned[t]

\* Every count is owned by a thread.
CountExact == \A o \in Obj : count[o] = Cardinality(Holders(o))

\* What a thread holds and locks, by the place it has reached.
Place(t) ==
  /\ pc[t] \in {"idle", "find"} => held[t] = {}
  /\ pc[t] \notin {"idle", "find"} => held[t] # {}
  /\ pc[t] \notin {"idle", "find", "lock"} => self[t] \in held[t]
  /\ LockHeld(t) => lock[self[t]] = t
  /\ pc[t] # "idle" /\ call[t].kind # "dlclose" =>
       /\ \E k \in Key : call[t].keys = {k}
       /\ \A o, p \in held[t] : o = p
  /\ \A o \in Obj : lock[o] = t => LockHeld(t) /\ self[t] = o
PlaceInv == \A t \in Thread : Place(t)

\* What an unborn object is like: nobody has seen it.
UnbornInv ==
  \A o \in Obj \ born :
    /\ destroyTs[o] = 0
    /\ o \notin queue \cup freed
    /\ ~Abandoned(o)
    /\ Holders(o) = {}
    /\ \A k \in Key : tree[k] # o

\* An object is registered under one key.
OneKey == \A j, k \in Key : tree[j] = tree[k] /\ tree[k] # NoObj => j = k

\* What waits for its end or has met it was destroyed; nobody holds what is given
\* up; the registry has only what was not destroyed.
QueuedDestroyed == \A o \in Obj : o \in queue \cup freed \/ Abandoned(o) => Destroyed(o)
GivenUpUnheld == \A o \in Obj : o \in freed \/ Abandoned(o) => Holders(o) = {}
TreeLive == \A k \in Key : tree[k] # NoObj => ~Destroyed(tree[k])

\* How far a thread has taken the retirement of its object.
Retiring(t) ==
  /\ pc[t] \in {"untree", "stamp"} => ~Destroyed(self[t])
  /\ At(t, "stamp") => \A k \in Key : tree[k] # self[t]
  /\ At(t, "enqueue") => Destroyed(self[t]) /\ self[t] \notin queue
  /\ call[t].kind = "dlclose" =>
       /\ ~At(t, "untree")
       /\ \A o \in held[t] : \A k \in Key : tree[k] # o
       /\ pc[t] \in {"unlock", "release", "destroy", "enqueue"} => Destroyed(self[t])

RetiredInv ==
  /\ QueuedDestroyed /\ GivenUpUnheld /\ TreeLive
  /\ \A t \in Thread : Retiring(t)

\* The clock readings that a scan and a later reader compare.
ClockInv ==
  /\ \A t \in Thread : stamp[t] <= now
  /\ Delay > 0 => \A t \in Thread : \A o \in abandoned[t] : now - destroyTs[o] > Delay

\* Until it is destroyed, an object found under a key is the registry's, or a
\* sweep holds it, or the thread that takes it down is between the two steps.
Found(t) ==
  \A o \in held[t] :
    pc[t] \in {"lock", "body"} /\ call[t].kind # "dlclose" /\ ~Destroyed(o) =>
      \/ \A k \in call[t].keys : tree[k] = o
      \/ \E u \in Thread : call[u].kind = "dlclose" /\ o \in held[u]
      \/ \E u \in Thread : At(u, "stamp") /\ self[u] = o
FoundInv == \A t \in Thread : Found(t)

RefInv ==
  /\ CountExact /\ PlaceInv /\ UnbornInv /\ OneKey /\ RetiredInv /\ ClockInv /\ FoundInv
  /\ DestroyedOnce
=============================================================================
