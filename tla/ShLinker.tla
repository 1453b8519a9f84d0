------------------------------ MODULE ShLinker ------------------------------
(***************************************************************************)
(* What the library has in the linker (sh_linker.c), and the part of the   *)
(* API that decides whether it is there (shadowhook.c).  Initialisation    *)
(* hooks soinfo::call_constructors and soinfo::call_destructors, finds the *)
(* fields of soinfo by loading an empty library, and registers the tasks'  *)
(* two callbacks; users may register more.  Every dlopen and dlclose runs  *)
(* through the two proxies, in the thread that has the linker's mutex.     *)
(* What the tasks' callbacks do is ShTask's part: the steps "init_pre" and *)
(* "sweep" begin them, TaskReturns ends them.                              *)
(***************************************************************************)
EXTENDS Naturals, Sequences, SequencesExt

CONSTANTS
  Thread,
  Lib,
  Addr,      \* where the linker can place a library's target
  NoAddr,    \* address 0
  NoTask,    \* of a thread that works on no task
  NoThread,
  TASK,      \* sh_task_dl_init_pre in the one list, sh_task_dl_fini_post in the other
  Cb,        \* callbacks of users, each a pair pre and post
  Scenario   \* records [task, may]: the tasks there may be, and what else may happen

MAY == {"callbacks", "disable", "init in constructors", "init fails", "load fails", "open again",
        "record"}

ASSUME LinkerAssumption ==
  /\ NoAddr \notin Addr /\ NoThread \notin Thread /\ TASK \notin Cb
  /\ \A s \in Scenario : s.may \subseteq MAY

VARIABLES
  phase,     \* of each library: "out", "new" (mapped, constructors not run), "in", "closing"
  loc,       \* its target's address
  dl,        \* owner of the linker's mutex
  init,      \* shadowhook_init_errno: "uninit", "ok", "disabled", "failed"
  initLock,  \* owner of the lock of shadowhook_init
  disabled,  \* shadowhook_disable
  hooked,    \* functions of the linker that run through the library's proxies
  scan,      \* [tid, ok]: sh_linker_soinfo_offset_scan_tid and _scan_ok
  cbs,       \* the lists of callbacks, "init" and "fini"
  reader,    \* who walks them under their locks (rwlocks)
  plan,      \* the scenario
  pc, job, cur, on,  \* of each thread: step, call, argument, library
  rest,      \* callbacks it has yet to call
  did,       \* do_callbacks
  told,      \* history: what each user callback was called for, since the library was mapped
  steady     \* history: callbacks that were registered all the time since then

libVars == <<phase, loc, dl>>
apiVars == <<init, initLock, disabled, hooked, scan, plan>>
cbVars == <<cbs, reader, rest, did, told, steady>>
threadVars == <<pc, job, cur, on>>
linkVars == <<libVars, apiVars, cbVars>>

LinkInit ==
  /\ phase = [l \in Lib |-> "out"] /\ loc = [l \in Lib |-> NoAddr] /\ dl = NoThread
  /\ init = "uninit" /\ initLock = NoThread /\ disabled = FALSE
  /\ hooked = {} /\ scan = [tid |-> NoThread, ok |-> FALSE]
  /\ cbs = [x \in {"init", "fini"} |-> <<>>] /\ reader = [x \in {"init", "fini"} |-> NoThread]
  /\ plan \in Scenario
  /\ pc = [t \in Thread |-> "idle"] /\ job = [t \in Thread |-> "none"]
  /\ cur = [t \in Thread |-> NoTask] /\ on = [t \in Thread |-> NoAddr]
  /\ rest = [t \in Thread |-> <<>>] /\ did = [t \in Thread |-> FALSE]
  /\ told = [l \in Lib |-> [u \in Cb |-> <<>>]] /\ steady = [l \in Lib |-> {}]

At(t, here) == pc[t] = here
Goto(t, there) == pc' = [pc EXCEPT ![t] = there]
Idle(t) == pc[t] = "idle"
LibAt(t) == CHOOSE l \in Lib : loc[l] = on[t]
Mapped(a) == \E l \in Lib : loc[l] = a
Start(t, what, k, step) ==
  /\ Idle(t)
  /\ job' = [job EXCEPT ![t] = what] /\ cur' = [cur EXCEPT ![t] = k] /\ Goto(t, step)
Return(t) ==
  job' = [job EXCEPT ![t] = "none"] /\ cur' = [cur EXCEPT ![t] = NoTask] /\ Goto(t, "idle")

-----------------------------------------------------------------------------
(* shadowhook_init, called by an idle thread or by a library's             *)
(* constructors.  The linker's mutex is recursive.                         *)

\* shadowhook_check_avail
Available == init = "ok" /\ ~disabled

CallInit(t) ==
  /\ init = "uninit"
  /\ \/ Start(t, "init", NoTask, "init_lock")
     \/ /\ At(t, "ctors") /\ "init in constructors" \in plan.may
        /\ Goto(t, "init_lock") /\ UNCHANGED <<job, cur>>
  /\ UNCHANGED <<linkVars, on>>

InitReturns(t) ==
  IF job[t] = "init" THEN Return(t) ELSE Goto(t, "ctors") /\ UNCHANGED <<job, cur>>

\* The state is read again under the lock: who comes second takes the first one's result.
InitBegins(t) ==
  /\ At(t, "init_lock") /\ initLock = NoThread
  /\ \/ /\ init # "uninit"
        /\ InitReturns(t) /\ UNCHANGED <<init, initLock>>
     \/ /\ init = "uninit" /\ disabled
        /\ init' = "disabled" /\ InitReturns(t) /\ UNCHANGED initLock
     \/ /\ init = "uninit" /\ ~disabled /\ "init fails" \in plan.may
        /\ init' = "failed" /\ InitReturns(t) /\ UNCHANGED initLock
     \/ /\ init = "uninit" /\ ~disabled
        /\ initLock' = t /\ Goto(t, "hook_ctors") /\ UNCHANGED <<init, job, cur>>
  /\ UNCHANGED <<libVars, disabled, hooked, scan, plan, cbVars, on>>

InitFails_KeepsLock(t) ==  \* mutant: the early ends forget to unlock
  "init fails" \in plan.may /\ init' = "failed" /\ UNCHANGED initLock /\ InitReturns(t)
InitFails(t) ==
  "init fails" \in plan.may /\ init' = "failed" /\ initLock' = NoThread /\ InitReturns(t)

\* sh_linker_hook_call_ctors_dtors; the lock of 32-bit builds is left out.
HookLinker(t, at, function, then) ==
  /\ At(t, at)
  /\ \/ /\ hooked' = hooked \cup {function}
        /\ Goto(t, then) /\ UNCHANGED <<init, initLock, job, cur>>
     \/ InitFails(t) /\ UNCHANGED hooked
  /\ UNCHANGED <<libVars, disabled, scan, plan, cbVars, on>>
HookCtors(t) == HookLinker(t, "hook_ctors", "constructors", "hook_dtors")
HookDtors(t) == HookLinker(t, "hook_dtors", "destructors", "scan")

ScanBegins(t) ==
  /\ At(t, "scan")
  /\ scan' = [scan EXCEPT !.tid = t]
  /\ Goto(t, "nothing")
  /\ UNCHANGED <<libVars, init, initLock, disabled, hooked, plan, cbVars, job, cur, on>>

\* dlopen of the empty library: its soinfo goes through the proxy, and shows its fields or not.
ScanNothing(t) ==
  /\ At(t, "nothing") /\ dl \in {NoThread, t}
  /\ \E ok \in {TRUE} \cup (IF "init fails" \in plan.may THEN {FALSE} ELSE {}) : scan' = [scan EXCEPT !.ok = ok]
  /\ Goto(t, "scan_end")
  /\ UNCHANGED <<libVars, init, initLock, disabled, hooked, plan, cbVars, job, cur, on>>

ScanEnds(t) ==
  /\ At(t, "scan_end")
  /\ scan' = [scan EXCEPT !.tid = NoThread]
  /\ \/ scan.ok /\ Goto(t, "init_cb") /\ UNCHANGED <<init, initLock, job, cur>>
     \/ ~scan.ok /\ InitFails(t)
  /\ UNCHANGED <<libVars, disabled, hooked, plan, cbVars, on>>

\* sh_linker_register_dl_init_callback and _fini_: nobody may be in the list, nothing is in it twice.
Register(x, u) ==
  /\ reader[x] = NoThread
  /\ cbs' = [cbs EXCEPT ![x] = IF Contains(@, u) THEN @ ELSE Append(@, u)]

Unregister_AnyTime(x, u) == cbs' = [cbs EXCEPT ![x] = RemoveFirst(@, u)]  \* mutant: no lock
Unregister(x, u) ==
  /\ reader[x] = NoThread
  /\ cbs' = [cbs EXCEPT ![x] = RemoveFirst(@, u)]

\* sh_task_init
TaskInit(t, at, x, then) ==
  /\ At(t, at)
  /\ \/ Register(x, TASK) /\ Goto(t, then) /\ UNCHANGED <<init, initLock, job, cur>>
     \/ InitFails(t) /\ UNCHANGED cbs
  /\ UNCHANGED <<libVars, disabled, hooked, scan, plan, reader, rest, did, told, steady, on>>
TaskInitInit(t) == TaskInit(t, "init_cb", "init", "fini_cb")
TaskInitFini(t) == TaskInit(t, "fini_cb", "fini", "init_end")

InitEnds(t) ==
  /\ At(t, "init_end")
  /\ init' = "ok" /\ initLock' = NoThread
  /\ InitReturns(t)
  /\ UNCHANGED <<libVars, disabled, hooked, scan, plan, cbVars, on>>

\* shadowhook_set_disable
SetDisable(t) ==
  /\ Idle(t) /\ "disable" \in plan.may
  /\ disabled' = ~disabled
  /\ UNCHANGED <<libVars, init, initLock, hooked, scan, plan, cbVars, threadVars>>

\* shadowhook_register_dl_init_callback and the other three.
CallRegister(t, act, x, u) ==
  /\ "callbacks" \in plan.may /\ Available
  /\ Start(t, act, [list |-> x, cb |-> u], act)
  /\ UNCHANGED <<linkVars, on>>

DoRegister(t) ==
  /\ At(t, "register")
  /\ Register(cur[t].list, cur[t].cb)
  /\ Return(t)
  /\ UNCHANGED <<libVars, apiVars, reader, rest, did, told, steady, on>>

DoUnregister(t) ==
  /\ At(t, "unregister")
  /\ Unregister(cur[t].list, cur[t].cb)
  /\ steady' = [l \in Lib |-> steady[l] \ {cur[t].cb}]
  /\ Return(t)
  /\ UNCHANGED <<libVars, apiVars, reader, rest, did, told, on>>

-----------------------------------------------------------------------------
(* The proxies.  A walk has the list's lock; the mutex sees to it that one *)
(* thread at a time is in a proxy.                                         *)

List(t) == IF job[t] = "dlopen" THEN "init" ELSE "fini"
BeginWalk(t) ==
  /\ reader' = [reader EXCEPT ![List(t)] = t]
  /\ rest' = [rest EXCEPT ![t] = cbs[List(t)]]

\* A library that is loaded is mapped at a; one that is loaded already runs no constructors.
Dlopen(t, l, a) ==
  /\ dl = NoThread
  /\ \/ /\ phase[l] = "out" /\ ~Mapped(a)
        /\ phase' = [phase EXCEPT ![l] = "new"]
        /\ told' = [told EXCEPT ![l] = [u \in Cb |-> <<>>]]
        /\ steady' = [steady EXCEPT ![l] = ToSet(cbs["init"]) \cap ToSet(cbs["fini"]) \cap Cb]
     \/ /\ phase[l] = "in" /\ a = loc[l] /\ "open again" \in plan.may
        /\ UNCHANGED <<phase, told, steady>>
  /\ loc' = [loc EXCEPT ![l] = a]
  /\ dl' = t
  /\ on' = [on EXCEPT ![t] = a]
  /\ Start(t, "dlopen", NoTask, "enter_ctors")
  /\ UNCHANGED <<apiVars, cbs, reader, rest, did>>

\* The linker drops a library it could not link, with call_destructors.
LoadFails(t) ==
  /\ At(t, "enter_ctors") /\ "load fails" \in plan.may /\ phase[LibAt(t)] = "new"
  /\ job' = [job EXCEPT ![t] = "dlclose"] /\ Goto(t, "enter_dtors")
  /\ UNCHANGED <<linkVars, cur, on>>

Loading(t) == phase[LibAt(t)] = "new"
Scanned == scan = [tid |-> NoThread, ok |-> TRUE]

EnterCtors(t) ==
  /\ At(t, "enter_ctors")
  /\ LET do == "constructors" \in hooked /\ Scanned /\ Loading(t) /\ cbs["init"] # <<>>
     IN /\ did' = [did EXCEPT ![t] = do]
        /\ \/ do /\ BeginWalk(t) /\ Goto(t, "pre")
           \/ ~do /\ Goto(t, "ctors") /\ UNCHANGED <<reader, rest>>
  /\ UNCHANGED <<libVars, apiVars, cbs, told, steady, job, cur, on>>

\* A callback of a user is called; it returns in a later step.
CallUser(t) ==
  /\ pc[t] \in {"pre", "post"} /\ rest[t] # <<>> /\ Head(rest[t]) \in Cb
  /\ told' = [told EXCEPT ![LibAt(t)][Head(rest[t])] = Append(@, <<List(t), pc[t]>>)]
  /\ Goto(t, IF pc[t] = "pre" THEN "in pre" ELSE "in post")
  /\ UNCHANGED <<libVars, apiVars, cbs, reader, rest, did, steady, job, cur, on>>

Passed(t, there) == rest' = [rest EXCEPT ![t] = Tail(@)] /\ Goto(t, there)
UserReturns(t) ==
  /\ pc[t] \in {"in pre", "in post"}
  /\ Passed(t, IF pc[t] = "in pre" THEN "pre" ELSE "post")
  /\ UNCHANGED <<libVars, apiVars, cbs, reader, did, told, steady, job, cur, on>>

\* The tasks' callback before the constructors, or the one after the destructors.
CallTask(t) ==
  /\ pc[t] \in {"pre", "post"} /\ rest[t] # <<>> /\ Head(rest[t]) = TASK
  /\ \/ pc[t] = "pre" /\ List(t) = "init" /\ Goto(t, "init_pre") /\ UNCHANGED rest
     \/ pc[t] = "post" /\ List(t) = "fini" /\ Goto(t, "sweep") /\ UNCHANGED rest
     \/ pc[t] = "pre" /\ List(t) = "fini" /\ Passed(t, "pre")
     \/ pc[t] = "post" /\ List(t) = "init" /\ Passed(t, "post")
  /\ UNCHANGED <<libVars, apiVars, cbs, reader, did, told, steady, job, cur, on>>

TaskReturns(t) ==
  /\ Passed(t, IF List(t) = "init" THEN "pre" ELSE "post")
  /\ UNCHANGED <<libVars, apiVars, cbs, reader, did, told, steady, job, cur, on>>

EndWalk(t) ==
  /\ pc[t] \in {"pre", "post"} /\ rest[t] = <<>>
  /\ reader' = [reader EXCEPT ![List(t)] = NoThread]
  /\ Goto(t, IF pc[t] = "post" THEN "leave" ELSE IF List(t) = "init" THEN "ctors" ELSE "dtors")
  /\ UNCHANGED <<libVars, apiVars, cbs, rest, did, told, steady, job, cur, on>>

\* sh_linker_orig_soinfo_call_ctors, and _dtors: then the callbacks after them.
Original(t, at, state) ==
  /\ At(t, at)
  /\ phase' = [phase EXCEPT ![LibAt(t)] = state]
  /\ \/ did[t] /\ BeginWalk(t) /\ Goto(t, "post")
     \/ ~did[t] /\ Goto(t, "leave") /\ UNCHANGED <<reader, rest>>
  /\ UNCHANGED <<loc, dl, apiVars, cbs, did, told, steady, job, cur, on>>
Constructors(t) == Original(t, "ctors", "in")
Destructors(t) == Original(t, "dtors", "closing")

LeaveDlopen(t) ==
  /\ At(t, "leave") /\ job[t] = "dlopen"
  /\ dl' = NoThread
  /\ on' = [on EXCEPT ![t] = NoAddr] /\ did' = [did EXCEPT ![t] = FALSE]
  /\ Return(t)
  /\ UNCHANGED <<phase, loc, apiVars, cbs, reader, rest, told, steady>>

Dlclose(t, l) ==
  /\ dl = NoThread /\ phase[l] = "in"
  /\ dl' = t
  /\ on' = [on EXCEPT ![t] = loc[l]]
  /\ Start(t, "dlclose", NoTask, "enter_dtors")
  /\ UNCHANGED <<phase, loc, apiVars, cbVars>>

EnterDtors_Always(t) ==  \* mutant: a library whose load failed is not told apart
  /\ At(t, "enter_dtors")
  /\ LET do == "destructors" \in hooked /\ Scanned /\ cbs["init"] # <<>>
     IN /\ did' = [did EXCEPT ![t] = do]
        /\ \/ do /\ BeginWalk(t) /\ Goto(t, "pre")
           \/ ~do /\ Goto(t, "dtors") /\ UNCHANGED <<reader, rest>>
  /\ UNCHANGED <<libVars, apiVars, cbs, told, steady, job, cur, on>>

EnterDtors(t) ==
  /\ At(t, "enter_dtors")
  /\ LET do == "destructors" \in hooked /\ Scanned /\ cbs["init"] # <<>> /\ ~Loading(t)
     IN /\ did' = [did EXCEPT ![t] = do]
        /\ \/ do /\ BeginWalk(t) /\ Goto(t, "pre")
           \/ ~do /\ Goto(t, "dtors") /\ UNCHANGED <<reader, rest>>
  /\ UNCHANGED <<libVars, apiVars, cbs, told, steady, job, cur, on>>

LeaveDlclose(t) ==
  /\ At(t, "leave") /\ job[t] = "dlclose"
  /\ phase' = [phase EXCEPT ![LibAt(t)] = "out"]
  /\ loc' = [loc EXCEPT ![LibAt(t)] = NoAddr]
  /\ dl' = NoThread
  /\ on' = [on EXCEPT ![t] = NoAddr] /\ did' = [did EXCEPT ![t] = FALSE]
  /\ Return(t)
  /\ UNCHANGED <<apiVars, cbs, reader, rest, told, steady>>

-----------------------------------------------------------------------------
LinkWait(t) == InitBegins(t) \/ ScanNothing(t) \/ TaskInitInit(t) \/ TaskInitFini(t)
               \/ DoRegister(t) \/ DoUnregister(t)
LinkWork(t) ==
  \/ HookCtors(t) \/ HookDtors(t) \/ ScanBegins(t) \/ ScanEnds(t) \/ InitEnds(t)
  \/ LoadFails(t) \/ EnterCtors(t) \/ EnterDtors(t) \/ CallUser(t) \/ UserReturns(t)
  \/ CallTask(t) \/ EndWalk(t) \/ Constructors(t) \/ Destructors(t) \/ LeaveDlopen(t)
LinkCall(t) ==
  \/ CallInit(t) \/ SetDisable(t)
  \/ \E u \in Cb, x \in {"init", "fini"}, act \in {"register", "unregister"} : CallRegister(t, act, x, u)
  \/ \E l \in Lib, a \in Addr : Dlopen(t, l, a)

-----------------------------------------------------------------------------
(* Properties.                                                             *)

Story == <<<<"init", "pre">>, <<"init", "post">>, <<"fini", "pre">>, <<"fini", "post">>>>

\* Whoever registered for both events before a library was mapped, and has not unregistered,
\* hears of it what happens, in this order and once: it is told before the constructors run,
\* after them, and before and after the destructors; nothing of a load that fails, and nothing
\* when the library is opened once more (doc/manual.md:1470-1472).  The registering
\* may race with loads, and initialisation with all of it.
CallbacksTell ==
  \A l \in Lib : \A u \in steady[l] :
    /\ IsPrefix(told[l][u], Story)
    /\ \A t \in Thread : loc[l] # NoAddr /\ on[t] = loc[l] =>
         /\ At(t, "ctors") /\ Loading(t) => Len(told[l][u]) = 1
         /\ At(t, "leave") /\ job[t] = "dlclose" /\ told[l][u] # <<>> => told[l][u] = Story
    /\ phase[l] = "in" /\ dl = NoThread => Len(told[l][u]) = 2

\* After unregister has returned the callback is not running and will not be called: its
\* data may be freed (sh_linker.c:719-733).
NoCallAfterUnregister ==
  \A t \in Thread : pc[t] \in {"in pre", "in post"} => Contains(cbs[List(t)], Head(rest[t]))
=============================================================================
