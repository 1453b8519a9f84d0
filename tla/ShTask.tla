------------------------------- MODULE ShTask -------------------------------
(***************************************************************************)
(* Hook tasks (sh_task.c), on top of ShLinker, whose proxies call them.    *)
(* A hook by address is done at once.  A hook by library and symbol name   *)
(* is done at once if the library is loaded; otherwise the task stays      *)
(* pending, and whoever loads the library does it, inside dlopen and       *)
(* before the library's constructors.  A dlclose makes the library's       *)
(* by-name tasks pending again.  Threads initialise the library, hook,     *)
(* unhook, dlopen and dlclose at any time.                                 *)
(*                                                                         *)
(* A library has one hook target.  What sh_switch does with a target is    *)
(* here the set of the tasks hooked there; ShSwitch has the details.       *)
(***************************************************************************)
EXTENDS ShLinker, FiniteSets

CONSTANTS
  Task,        \* the stubs (bound: no more hook calls than these succeed or fail)
  ByName,      \* tasks that name a library and a symbol, the others have an address
  Unique,      \* tasks in unique mode, the others are in multi mode
  LibOf,       \* the library of each task's target
  Faults       \* failures that may happen: "symbol", "hook", "unhook"

ASSUME TaskAssumption ==
  /\ ByName \subseteq Task /\ Unique \subseteq Task
  /\ LibOf \in [Task -> Lib]
  /\ NoTask \notin Task

VARIABLES
  dlcache,    \* owner of the recorder's dlcache_lock
  made,       \* tasks allocated so far
  tasks,      \* the list sh_tasks
  cnt,        \* sh_tasks_unfinished_cnt
  finished, corrupted, destroyed,  \* tasks with that flag
  target,     \* target_addr
  count,      \* ref.count
  lock,       \* owner of ref.lock
  queue,      \* the reference manager's queue
  freed,
  stubs,      \* tasks the callers hold
  sw,         \* of each address: the tasks whose proxies its switch knows
  patched,    \* of each address: is the code there a jump?
  residue,    \* of each address: the tasks whose proxies could not be taken out
  work,       \* of each thread: the tasks it has collected
  late        \* history: tasks that were not in the list when their library was
              \* loaded or closed between their lookup and their insertion

taskVars == <<made, tasks, cnt, finished, corrupted, destroyed, target>>
refVars  == <<count, lock, queue, freed>>
swVars   == <<sw, patched, residue>>
ownVars == <<dlcache, taskVars, refVars, stubs, swVars, work, late>>
vars == <<linkVars, threadVars, ownVars>>

Init ==
  /\ LinkInit
  /\ dlcache = NoThread
  /\ made = {} /\ tasks = {} /\ cnt = 0
  /\ finished = {} /\ corrupted = {} /\ destroyed = {}
  /\ target = [k \in Task |-> NoAddr]
  /\ count = [k \in Task |-> 0]
  /\ lock = [k \in Task |-> NoThread]
  /\ queue = {} /\ freed = {} /\ stubs = {}
  /\ sw = [a \in Addr |-> {}]
  /\ patched = [a \in Addr |-> FALSE]
  /\ residue = [a \in Addr |-> {}]
  /\ work = [t \in Thread |-> {}]
  /\ late = {}

-----------------------------------------------------------------------------
\* sh_switch_hook, seen from outside: unique stays alone; the first hook writes the
\* code, which takes mapped memory, the others only extend the chain.
CanHook(k, a) ==
  \/ sw[a] = {} /\ Mapped(a)
  \/ sw[a] # {} /\ (sw[a] \cup {k}) \cap Unique = {}
Hook(k, a) ==
  /\ CanHook(k, a)
  /\ sw' = [sw EXCEPT ![a] = @ \cup {k}]
  /\ patched' = [patched EXCEPT ![a] = @ \/ sw[a] = {}]
  /\ UNCHANGED residue
HookFails(k, a) == (~CanHook(k, a) \/ "hook" \in Faults) /\ UNCHANGED swVars

\* sh_switch_unhook: a unique unhook removes whatever unique proxy it finds.
Less(k, a) == IF k \in Unique /\ sw[a] \subseteq Unique THEN {} ELSE sw[a] \ {k}

\* With its last proxy a switch gives the code back as it found it, which is a jump
\* when an earlier switch could not restore it.
Unhook(k, a) ==
  /\ sw' = [sw EXCEPT ![a] = Less(k, a)]
  /\ patched' = [patched EXCEPT
       ![a] = @ /\ (sw[a] = {} \/ Less(k, a) # {} \/ residue[a] \ sw[a] # {})]
  /\ UNCHANGED residue

\* The rewriting of the code fails.  For the last proxy of a switch: the switch is
\* destroyed all the same.  For another: the chain stays as it is.
UnhookFails(k, a) ==
  /\ "unhook" \in Faults /\ Less(k, a) # sw[a]
  /\ sw' = [sw EXCEPT ![a] = IF Less(k, a) = {} THEN {} ELSE @]
  /\ residue' = [residue EXCEPT ![a] = @ \cup (sw[a] \ Less(k, a))]
  /\ UNCHANGED patched

-----------------------------------------------------------------------------
(* sh_task_do: find, hook, insert, record.                                 *)

\* Whoever hooks by address keeps the library loaded meanwhile.
Closing(l) == \E u \in Thread : job[u] = "dlclose" /\ on[u] = loc[l]

CallHook(t, k) ==
  /\ k \in plan.task \ made /\ Available
  /\ IF k \in ByName THEN Start(t, "hook", k, "lookup") /\ UNCHANGED target
     ELSE /\ phase[LibOf[k]] = "in" /\ ~Closing(LibOf[k])
          /\ target' = [target EXCEPT ![k] = loc[LibOf[k]]]
          /\ Start(t, "hook", k, "hook")
  /\ made' = made \cup {k}
  /\ UNCHANGED <<linkVars, dlcache, tasks, cnt, finished, corrupted, destroyed, refVars,
                 stubs, swVars, on, work, late>>

\* The search iterates over the libraries under the linker's mutex.
Lookup(t) ==
  /\ At(t, "lookup") /\ dl = NoThread
  /\ LET l == LibOf[cur[t]]
     IN \/ phase[l] = "out" /\ Goto(t, "insert") /\ UNCHANGED <<target, freed>>
        \/ /\ phase[l] = "in" /\ Goto(t, "hook")
           /\ target' = [target EXCEPT ![cur[t]] = loc[l]] /\ UNCHANGED freed
        \/ /\ phase[l] = "in" /\ "symbol" \in Faults
           /\ Goto(t, "record")
           /\ freed' = freed \cup {cur[t]} /\ UNCHANGED target
  /\ UNCHANGED <<linkVars, dlcache, made, tasks, cnt, finished, corrupted, destroyed,
                 count, lock, queue, stubs, swVars, job, cur, on, work, late>>

\* A task that fails is destroyed by the caller (shadowhook.c).
DoHook(t) ==
  /\ At(t, "hook")
  /\ LET k == cur[t]
     IN \/ Hook(k, target[k]) /\ Goto(t, "insert") /\ UNCHANGED freed
        \/ HookFails(k, target[k]) /\ Goto(t, "record") /\ freed' = freed \cup {k}
  /\ finished' = finished \cup {cur[t]}
  /\ UNCHANGED <<linkVars, dlcache, made, tasks, cnt, corrupted, destroyed, target, count,
                 lock, queue, stubs, job, cur, on, work, late>>

\* Under sh_tasks_lock.
Insert(t) ==
  /\ At(t, "insert")
  /\ tasks' = tasks \cup {cur[t]}
  /\ cnt' = IF cur[t] \in finished THEN cnt ELSE cnt + 1
  /\ Goto(t, "record")
  /\ UNCHANGED <<linkVars, dlcache, made, finished, corrupted, destroyed, target, refVars,
                 stubs, swVars, job, cur, on, work, late>>

-----------------------------------------------------------------------------
(* sh_recorder_add_op and _add_unop find the caller's library: under the   *)
(* recorder's own lock they search with xdl_addr4, which takes the         *)
(* linker's mutex (a recursive one).                                       *)

Recordable == "record" \in plan.may  \* shadowhook_set_recordable

AfterRecord(t) ==
  CASE job[t] = "hook" -> Return(t) /\ stubs' = stubs \cup ({cur[t]} \cap tasks)
    [] job[t] = "undo" -> Goto(t, "destroy") /\ UNCHANGED <<job, cur, stubs>>
    [] job[t] = "dlopen" -> Goto(t, "finish") /\ UNCHANGED <<job, cur, stubs>>

Record(t) ==
  /\ At(t, "record")
  /\ Recordable => dlcache = NoThread
  /\ \/ AfterRecord(t) /\ UNCHANGED dlcache  \* nothing to record, or found in the cache
     \/ Recordable /\ dlcache' = t /\ Goto(t, "dladdr") /\ UNCHANGED <<job, cur, stubs>>
  /\ UNCHANGED <<linkVars, taskVars, refVars, swVars, on, work, late>>

Dladdr(t) ==
  /\ At(t, "dladdr") /\ dl \in {NoThread, t}
  /\ dlcache' = NoThread
  /\ AfterRecord(t)
  /\ UNCHANGED <<linkVars, taskVars, refVars, swVars, on, work, late>>

-----------------------------------------------------------------------------
(* sh_task_undo_and_destroy.                                               *)

\* Out of the list, with a count, under sh_tasks_lock.  A stub is handed back once.
CallUndo(t, k) ==
  /\ k \in stubs /\ Available
  /\ Start(t, "undo", k, "undo")
  /\ stubs' = stubs \ {k}
  /\ tasks' = tasks \ {k}
  /\ count' = [count EXCEPT ![k] = @ + 1]
  /\ UNCHANGED <<linkVars, dlcache, made, cnt, finished, corrupted, destroyed, target,
                 lock, queue, freed, swVars, on, work, late>>

Undo(t) ==
  /\ At(t, "undo") /\ lock[cur[t]] = NoThread
  /\ lock' = [lock EXCEPT ![cur[t]] = t]
  /\ LET k == cur[t]
     IN \/ k \notin finished /\ cnt' = cnt - 1 /\ UNCHANGED swVars
        \/ k \in finished /\ k \in corrupted /\ UNCHANGED <<cnt, swVars>>
        \/ /\ k \in finished /\ k \notin corrupted /\ UNCHANGED cnt
           /\ Unhook(k, target[k]) \/ UnhookFails(k, target[k])
  /\ Goto(t, "record")
  /\ UNCHANGED <<linkVars, dlcache, made, tasks, finished, corrupted, destroyed, target,
                 count, queue, freed, stubs, job, cur, on, work, late>>

UndoDestroy_KeepsLock(t) ==  \* mutant: the early ends forget to unlock
  /\ At(t, "destroy")
  /\ LET k == cur[t]
         taken == {o \in queue \cup {k} : count[o] = 0}
     IN /\ destroyed' = destroyed \cup {k}
        /\ queue' = (queue \cup {k}) \ taken
        /\ freed' = freed \cup taken
        /\ lock' = [lock EXCEPT ![k] = IF k \in finished THEN NoThread ELSE t]
        /\ count' = [count EXCEPT ![k] = @ - 1]
  /\ Return(t)
  /\ UNCHANGED <<linkVars, dlcache, made, tasks, cnt, finished, corrupted, target, stubs,
                 swVars, on, work, late>>

\* sh_ref_delayed_destroy without a delay, unlock, give the count back.
UndoDestroy(t) ==
  /\ At(t, "destroy")
  /\ LET k == cur[t]
         taken == {o \in queue \cup {k} : count[o] = 0}
     IN /\ destroyed' = destroyed \cup {k}
        /\ queue' = (queue \cup {k}) \ taken
        /\ freed' = freed \cup taken
        /\ lock' = [lock EXCEPT ![k] = NoThread]
        /\ count' = [count EXCEPT ![k] = @ - 1]
  /\ Return(t)
  /\ UNCHANGED <<linkVars, dlcache, made, tasks, cnt, finished, corrupted, target, stubs,
                 swVars, on, work, late>>

-----------------------------------------------------------------------------
(* sh_task_dl_init_pre, before the constructors.                           *)

\* By-name tasks of this library in a sh_task_do that looked it up already.
InFlight(l) == {cur[t] : t \in {u \in Thread : pc[u] \in {"hook", "insert"}
                                              /\ cur[u] \in ByName /\ LibOf[cur[u]] = l}}

Pending(l) == {k \in tasks \cap ByName : LibOf[k] = l /\ k \notin finished \cup corrupted}

InitPre_OffByOne(t) ==  \* mutant: a single pending task is overlooked
  /\ At(t, "init_pre")
  /\ LET found == IF cnt > 1 THEN Pending(LibAt(t)) ELSE {}
     IN /\ work' = [work EXCEPT ![t] = found]
        /\ count' = [k \in Task |-> IF k \in found THEN count[k] + 1 ELSE count[k]]
        /\ late' = (late \ found) \cup InFlight(LibAt(t))
  /\ Goto(t, "pending")
  /\ UNCHANGED <<linkVars, dlcache, taskVars, lock, queue, freed, stubs, swVars, job, cur, on>>

InitPre(t) ==
  /\ At(t, "init_pre")
  /\ LET found == IF cnt > 0 THEN Pending(LibAt(t)) ELSE {}
     IN /\ work' = [work EXCEPT ![t] = found]
        /\ count' = [k \in Task |-> IF k \in found THEN count[k] + 1 ELSE count[k]]
        /\ late' = (late \ found) \cup InFlight(LibAt(t))
  /\ Goto(t, "pending")
  /\ UNCHANGED <<linkVars, dlcache, taskVars, lock, queue, freed, stubs, swVars, job, cur, on>>

TakePending_Unchecked(t) ==  \* mutant: a destroyed task is done as well
  /\ At(t, "pending")
  /\ \E k \in work[t] :
       /\ lock[k] = NoThread
       /\ work' = [work EXCEPT ![t] = @ \ {k}]
       /\ lock' = [lock EXCEPT ![k] = t] /\ cur' = [cur EXCEPT ![t] = k]
  /\ Goto(t, "do_pending")
  /\ UNCHANGED <<linkVars, dlcache, taskVars, count, queue, freed, stubs, swVars, job, on, late>>

\* The next collected task, unless it was destroyed since.
TakePending(t) ==
  /\ At(t, "pending")
  /\ \E k \in work[t] :
       /\ lock[k] = NoThread
       /\ work' = [work EXCEPT ![t] = @ \ {k}]
       /\ \/ /\ k \in destroyed
             /\ count' = [count EXCEPT ![k] = @ - 1]
             /\ UNCHANGED <<lock, cur, pc>>
          \/ /\ k \notin destroyed
             /\ lock' = [lock EXCEPT ![k] = t]
             /\ cur' = [cur EXCEPT ![t] = k]
             /\ Goto(t, "do_pending")
             /\ UNCHANGED count
  /\ UNCHANGED <<linkVars, dlcache, taskVars, queue, freed, stubs, swVars, job, on, late>>

DoPending(t) ==
  /\ At(t, "do_pending")
  /\ LET k == cur[t]
     IN \/ /\ Hook(k, on[t])
           /\ target' = [target EXCEPT ![k] = on[t]] /\ UNCHANGED corrupted
        \/ /\ HookFails(k, on[t])
           /\ target' = [target EXCEPT ![k] = on[t]] /\ corrupted' = corrupted \cup {k}
        \/ /\ "symbol" \in Faults
           /\ corrupted' = corrupted \cup {k} /\ UNCHANGED <<target, swVars>>
  /\ Goto(t, "record")
  /\ UNCHANGED <<linkVars, dlcache, made, tasks, cnt, finished, destroyed, refVars, stubs,
                 job, cur, on, work, late>>

\* is_finished, then the user's callback under the task's lock.
SetFinished(t) ==
  /\ At(t, "finish")
  /\ finished' = finished \cup {cur[t]}
  /\ Goto(t, "callback")
  /\ UNCHANGED <<linkVars, dlcache, made, tasks, cnt, corrupted, destroyed, target, refVars,
                 stubs, swVars, job, cur, on, work, late>>

Callback(t) ==
  /\ At(t, "callback")
  /\ cnt' = cnt - 1
  /\ lock' = [lock EXCEPT ![cur[t]] = NoThread]
  /\ count' = [count EXCEPT ![cur[t]] = @ - 1]
  /\ cur' = [cur EXCEPT ![t] = NoTask]
  /\ Goto(t, "pending")
  /\ UNCHANGED <<linkVars, dlcache, made, tasks, finished, corrupted, destroyed, target,
                 queue, freed, stubs, swVars, job, on, work, late>>

-----------------------------------------------------------------------------
(* sh_task_dl_fini_post, after the destructors.                            *)

\* sh_switch_free_after_dlclose
Sweep(t) ==
  /\ At(t, "sweep")
  /\ sw' = [sw EXCEPT ![on[t]] = {}]
  /\ Goto(t, "fini_post")
  /\ UNCHANGED <<linkVars, dlcache, taskVars, refVars, stubs, patched, residue, job, cur, on,
                 work, late>>

FiniPost_NoCount(t) ==  \* mutant: the tasks are collected without a count
  /\ At(t, "fini_post")
  /\ work' = [work EXCEPT ![t] = {k \in tasks \cap finished \cap ByName : target[k] = on[t]}]
  /\ late' = late \cup InFlight(LibAt(t))
  /\ Goto(t, "reset")
  /\ UNCHANGED <<linkVars, dlcache, taskVars, refVars, stubs, swVars, job, cur, on>>

FiniPost(t) ==
  /\ At(t, "fini_post")
  /\ LET found == {k \in tasks \cap finished \cap ByName : target[k] = on[t]}
     IN /\ work' = [work EXCEPT ![t] = found]
        /\ count' = [k \in Task |-> IF k \in found THEN count[k] + 1 ELSE count[k]]
        /\ late' = late \cup InFlight(LibAt(t))
  /\ Goto(t, "reset")
  /\ UNCHANGED <<linkVars, dlcache, taskVars, lock, queue, freed, stubs, swVars, job, cur, on>>

Reset_Unchecked(t) ==  \* mutant: a task that was handed back meanwhile is reset too
  /\ At(t, "reset")
  /\ \E k \in work[t] :
       /\ lock[k] = NoThread
       /\ work' = [work EXCEPT ![t] = @ \ {k}]
       /\ count' = [count EXCEPT ![k] = @ - 1]
       /\ target' = [target EXCEPT ![k] = NoAddr]
       /\ finished' = finished \ {k} /\ corrupted' = corrupted \ {k} /\ cnt' = cnt + 1
  /\ UNCHANGED <<linkVars, dlcache, made, tasks, destroyed, lock, queue, freed, stubs, swVars,
                 pc, job, cur, on, late>>

\* Under the task's lock: pending again, unless it was destroyed since.
Reset(t) ==
  /\ At(t, "reset")
  /\ \E k \in work[t] :
       /\ lock[k] = NoThread
       /\ work' = [work EXCEPT ![t] = @ \ {k}]
       /\ count' = [count EXCEPT ![k] = @ - 1]
       /\ \/ k \in destroyed /\ UNCHANGED <<target, finished, corrupted, cnt>>
          \/ /\ k \notin destroyed
             /\ target' = [target EXCEPT ![k] = NoAddr]
             /\ finished' = finished \ {k}
             /\ corrupted' = corrupted \ {k}
             /\ cnt' = cnt + 1
  /\ UNCHANGED <<linkVars, dlcache, made, tasks, destroyed, lock, queue, freed, stubs, swVars,
                 pc, job, cur, on, late>>

-----------------------------------------------------------------------------
(* Steps of the linker's part that matter to tasks; the others leave them. *)

CallDlclose(t, l) ==
  /\ Dlclose(t, l)
  /\ \A u \in Thread : job[u] = "hook" /\ cur[u] \notin ByName => LibOf[cur[u]] # l
  /\ UNCHANGED ownVars

\* sh_task_dl_init_pre or sh_task_dl_fini_post has done the tasks it collected.
CallbackReturns(t) ==
  /\ pc[t] \in {"pending", "reset"} /\ work[t] = {}
  /\ TaskReturns(t)
  /\ UNCHANGED ownVars

\* The mapping ends, and what was written into its code.
Unmap(t) ==
  /\ LeaveDlclose(t)
  /\ patched' = [patched EXCEPT ![on[t]] = FALSE]
  /\ residue' = [residue EXCEPT ![on[t]] = {}]
  /\ UNCHANGED <<dlcache, taskVars, refVars, stubs, sw, work, late>>

-----------------------------------------------------------------------------
\* Steps that wait for a mutex; the others never do.
Wait(t) == \/ Lookup(t) \/ Record(t) \/ Dladdr(t) \/ Undo(t) \/ TakePending(t) \/ Reset(t)
           \/ LinkWait(t) /\ UNCHANGED ownVars
Work(t) == \/ DoHook(t) \/ Insert(t) \/ UndoDestroy(t) \/ InitPre(t) \/ DoPending(t)
           \/ SetFinished(t) \/ Callback(t) \/ Sweep(t) \/ FiniPost(t)
           \/ CallbackReturns(t) \/ Unmap(t)
           \/ LinkWork(t) /\ UNCHANGED ownVars
Call(t) == \/ \E k \in Task : CallHook(t, k) \/ CallUndo(t, k)
           \/ \E l \in Lib : CallDlclose(t, l)
           \/ LinkCall(t) /\ UNCHANGED ownVars

Next == \E t \in Thread : Call(t) \/ Wait(t) \/ Work(t)

Spec == Init /\ [][Next]_vars

(* A thread in a call keeps running, and a mutex does not starve a waiter. *)
FairSpec == Spec /\ \A t \in Thread : WF_vars(Work(t)) /\ SF_vars(Wait(t))

-----------------------------------------------------------------------------
(* Properties.                                                             *)

\* sh_tasks_unfinished_cnt is exactly the number of tasks that are not finished, in
\* the list or on their way out of it, plus the one whose callback is running.  The
\* counter gates the search for pending tasks (sh_task_dl_init_pre): one decrement
\* too many and a pending task is never done.
CountExact ==
  LET leaving == {cur[t] : t \in {u \in Thread : At(u, "undo")}}
      calling == {cur[t] : t \in {u \in Thread : At(u, "callback")}}
  IN cnt = Cardinality(((tasks \cup leaving) \ finished) \cup calling)

\* A task that the linker callbacks collected, or that a thread works on, is not
\* freed, whichever thread hands its stub back meanwhile.
CollectedNotFreed ==
  \A t \in Thread :
    /\ work[t] \cap freed = {}
    /\ job[t] \in {"undo", "dlopen"} => cur[t] \notin freed

\* A switch that outlived its ELF: it believes to be hooked, the code is not.
Stale(a) == sw[a] # {} /\ ~patched[a]

InForce(k) == k \in finished /\ k \in sw[loc[LibOf[k]]] /\ patched[loc[LibOf[k]]]

\* Once a library's constructors run, every by-name task in the list is done and
\* its proxy is in force, through any number of loads and closes and wherever the
\* library is placed; except for a task whose call was between its lookup and its
\* insertion when the library was loaded or closed, and a target on whose address
\* such a call left a switch behind.
LoadedInForce ==
  \A k \in (tasks \cap ByName) \ (corrupted \cup late) :
    phase[LibOf[k]] = "in" /\ ~Stale(loc[LibOf[k]]) => InForce(k)

\* What doc/manual.md:533 promises of every by-name task: "When the corresponding ELF
\* is loaded into memory, shadowhook will complete the previously recorded unfinished
\* tasks before linker calls the dynamic library's .init and .init_array."
PendingCompleted ==
  \A k \in (stubs \cap ByName) \ corrupted : phase[LibOf[k]] = "in" => InForce(k)

\* A stub that was handed back leaves no proxy behind in a loaded library, although
\* the unhook may race with the load that would hook it, except one that its own unhook
\* could not take out: sh_task_undo_and_destroy gives the task up all the same.
NoHookAfterUndo ==
  \A l \in Lib :
    phase[l] = "in" /\ patched[loc[l]] => sw[loc[l]] \cap destroyed \subseteq residue[loc[l]]

\* A hook stays until its own stub is handed back or its ELF is closed
\* (doc/manual.md:231, "each operation being independent").
OthersUntouched ==
  [][\A t \in Thread : Undo(t) =>
       \A a \in Addr : sw[a] \ {cur[t]} \subseteq sw'[a]]_vars

\* t waits for a mutex that u owns.
Awaits(t, u) ==
  \/ pc[t] \in {"lookup", "nothing"} /\ dl = u
  \/ pc[t] = "init_lock" /\ initLock = u
  \/ pc[t] = "fini_cb" /\ reader["fini"] = u
  \/ pc[t] \in {"register", "unregister"} /\ reader[cur[t].list] = u
  \/ pc[t] = "dladdr" /\ dl = u
  \/ pc[t] = "record" /\ Recordable /\ dlcache = u
  \/ pc[t] = "undo" /\ lock[cur[t]] = u
  \/ pc[t] \in {"pending", "reset"} /\ work[t] # {} /\ \A k \in work[t] : lock[k] = u
WaitCycle == \E t, u \in Thread : t # u /\ Awaits(t, u) /\ Awaits(u, t)

\* No two threads wait for each other's mutex: a pending hook is done when its ELF is
\* loaded (doc/manual.md:735), whatever the other threads are doing.
NoWaitCycle == ~WaitCycle

\* A dlopen that began gets to the end of the constructors, unless two threads wait for
\* each other's mutex (see NoWaitCycle): its callbacks never wait for good behind the hooks
\* and unhooks of other threads in any other way.  Excepted are a hook that records
\* (sh_recorder.c:245), an unhook that records under its task's lock (sh_task.c:532), and
\* the load in shadowhook_init (shadowhook.c:90).
DlopenReturns == \A l \in Lib : phase[l] = "new" ~> (phase[l] # "new" \/ WaitCycle)

\* shadowhook_init gives its lock back, whichever of its steps fails, unless a library's
\* constructors call it while it waits for that library's thread: later calls return what
\* the first one got (shadowhook.c:75-103).
InitEndsOrWaits == \A t \in Thread : initLock = t ~> (initLock # t \/ WaitCycle)
=============================================================================
