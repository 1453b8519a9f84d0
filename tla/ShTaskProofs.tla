---------------------------- MODULE ShTaskProofs ----------------------------
(***************************************************************************)
(* The linker's callbacks and the tasks, for any threads, libraries,       *)
(* callbacks, tasks and scenarios.                                         *)
(*                                                                         *)
(* First the lists of callbacks: one that was unregistered is not running  *)
(* and will not be called.  Behind it is that only the owner of the        *)
(* linker's mutex walks through a list, that whoever does has its lock,    *)
(* and that what is yet to be called is in the list.  Steps of tasks that  *)
(* interrupt a walk (the callbacks of sh_task.c) keep all this, so the     *)
(* theorem is about the composition, not about ShLinker alone.             *)
(*                                                                         *)
(* Then the tasks themselves.  TaskInv is inductive given that, one lemma  *)
(* per step of a hook, an unhook, a load and a close:                      *)
(*   OwnInv         who has a task at each step of its life: its types,    *)
(*                  the list (ListInv), the threads that hook, undo or do  *)
(*                  it (JobInv), those collected (WorkInv), the counts     *)
(*   UnfinishedInv  which tasks the number of unfinished ones counts       *)
(*   PlaceInv       which library a thread loads or closes, and where      *)
(*   HookInv        a patched address has proxies of done tasks only, but   *)
(*                  for those whose unhooks failed                        *)
(* What the runs check of counts, collected and undone tasks follows.      *)
(*                                                                         *)
(* Then what callbacks are told.  StoryInv is inductive given both:        *)
(*   InitInv        how far initialisation is, and what it has left for    *)
(*                  good once it ended                                     *)
(*   OnceInv        no list has a callback twice                           *)
(*   PhaseInv       the phase of the library at each step of a load        *)
(*   TellInv        what a callback has heard at each step of a walk       *)
(*                                                                         *)
(* Last what the tasks' own callbacks have done.  EffectInv is inductive   *)
(* given all of it:                                                        *)
(*   DoesInv        a load does the tasks of its own library               *)
(*   Fresh          a task has no address before its library was found     *)
(*   Stands         what is known of a task by name at each stage of its   *)
(*                  library: it Pends while that is out, is collected as   *)
(*                  it comes (Doing), Holds while it is in, and Resets as  *)
(*                  it goes                                                *)
(***************************************************************************)
EXTENDS ShTask, Integers, TLAPS, SequenceTheorems, FiniteSetTheorems, WellFoundedInduction

Callbacks == Cb \cup {TASK}
Lists == {"init", "fini"}
LinkJobs == {"dlopen", "dlclose"}
ListOf(j) == IF j = "dlopen" THEN "init" ELSE "fini"

\* The call in which a thread may be at a step.
InitSteps == {"init_lock", "hook_ctors", "hook_dtors", "scan", "nothing", "scan_end", "init_cb", "fini_cb", "init_end"}
CtorSteps == {"enter_ctors", "ctors", "init_pre", "pending", "do_pending", "finish", "callback"}
DtorSteps == {"enter_dtors", "dtors", "sweep", "fini_post", "reset"}
WalkSteps == {"pre", "post", "in pre", "in post", "leave"}
TaskSteps == {"lookup", "hook", "insert", "undo", "destroy", "record", "dladdr"}
Steps == {"idle", "register", "unregister"} \cup InitSteps \cup CtorSteps \cup DtorSteps \cup WalkSteps \cup TaskSteps
Jobs == {"none", "init", "register", "unregister", "hook", "undo"} \cup LinkJobs
JobAt(s, j) ==
  /\ s \in InitSteps => j \in {"init", "dlopen"}
  /\ s \in {"lookup", "hook", "insert"} => j = "hook"
  /\ s \in {"undo", "destroy"} => j = "undo"
  /\ s \in {"record", "dladdr"} => j \in {"hook", "undo", "dlopen"}
  /\ s \in CtorSteps => j = "dlopen"
  /\ s \in DtorSteps => j = "dlclose"
  /\ s \in WalkSteps => j \in LinkJobs
  /\ s \in {"idle", "register", "unregister"} => j \notin LinkJobs \cup {"hook", "undo"}

\* The steps of a walk through the list of callbacks, those of the tasks' callbacks among them.
WalksAt(s, j) ==
  \/ s \in {"pre", "post", "in pre", "in post"}
  \/ s \in (CtorSteps \cup DtorSteps) \ {"enter_ctors", "ctors", "enter_dtors", "dtors"}
  \/ s \in {"record", "dladdr"} /\ j = "dlopen"

InCallback(s, j) == WalksAt(s, j) /\ s \notin {"pre", "post"}

CallTypes ==
  /\ pc \in [Thread -> Steps] /\ job \in [Thread -> Jobs]
  /\ cur = [t \in Thread |-> cur[t]]
  /\ cbs \in [Lists -> Seq(Callbacks)]
  /\ rest \in [Thread -> Seq(Callbacks)]
  /\ reader \in [Lists -> Thread \cup {NoThread}]

\* What holds of a thread: its call fits its step; it owns the mutex when it is in the linker; when it is in a
\* walk it has the list's lock, and what it has yet to call is in the list.
Sound(t) ==
  /\ JobAt(pc[t], job[t])
  /\ job[t] \in LinkJobs => dl = t
  /\ WalksAt(pc[t], job[t]) =>
       /\ reader[ListOf(job[t])] = t
       /\ \A i \in 1 .. Len(rest[t]) : Contains(cbs[ListOf(job[t])], rest[t][i])
  /\ InCallback(pc[t], job[t]) => rest[t] # <<>>
  /\ pc[t] \in {"register", "unregister"} => cur[t] \in [list : Lists, cb : Cb]

CallInv == CallTypes /\ \A t \in Thread : Sound(t)

\* Nothing is known of a thread's step but that it is that thread's.
Moves(t) ==
  /\ pc' \in [Thread -> Steps] /\ job' \in [Thread -> Jobs] /\ cur' = [u \in Thread |-> cur'[u]]
  /\ \A u \in Thread \ {t} : pc'[u] = pc[u] /\ job'[u] = job[u] /\ cur'[u] = cur[u]

-----------------------------------------------------------------------------
(* Moves *)

LEMMA GotoMoves ==
  ASSUME CallTypes, NEW t \in Thread, NEW s \in Steps, Goto(t, s), UNCHANGED <<job, cur>>
  PROVE  Moves(t) /\ pc'[t] = s /\ job'[t] = job[t] /\ cur'[t] = cur[t]
BY DEF CallTypes, Goto, Moves

LEMMA StartMoves ==
  ASSUME CallTypes, NEW t \in Thread, NEW j \in Jobs, NEW k, NEW s \in Steps, Start(t, j, k, s)
  PROVE  Moves(t) /\ pc'[t] = s /\ job'[t] = j /\ cur'[t] = k /\ pc[t] = "idle"
BY DEF CallTypes, Start, Goto, Idle, Moves

LEMMA ReturnMoves ==
  ASSUME CallTypes, NEW t \in Thread, Return(t)
  PROVE  Moves(t) /\ pc'[t] = "idle" /\ job'[t] = "none"
<1>1. "idle" \in Steps /\ "none" \in Jobs
  BY DEF Steps, Jobs
<1>2. /\ pc' = [pc EXCEPT ![t] = "idle"] /\ job' = [job EXCEPT ![t] = "none"]
      /\ cur' = [cur EXCEPT ![t] = NoTask]
  BY DEF Return, Goto
<1> QED
  BY <1>1, <1>2 DEF CallTypes, Moves

\* The end of shadowhook_init, called by itself or by constructors.
LEMMA InitReturnsMoves ==
  ASSUME CallInv, NEW t \in Thread, pc[t] \in InitSteps, InitReturns(t)
  PROVE  /\ Moves(t)
         /\ \/ pc'[t] = "idle" /\ job'[t] = "none"
            \/ pc'[t] = "ctors" /\ job'[t] = "dlopen" /\ job[t] = "dlopen"
<1>1. job[t] \in {"init", "dlopen"}
  BY DEF CallInv, Sound, JobAt
<1>2. CASE job[t] = "init"
  BY <1>2, ReturnMoves DEF CallInv, InitReturns
<1>3. CASE job[t] = "dlopen"
  <2>1. Goto(t, "ctors") /\ UNCHANGED <<job, cur>> /\ "ctors" \in Steps
    BY <1>3 DEF InitReturns, Steps, CtorSteps
  <2> QED
    BY <1>3, <2>1, GotoMoves DEF CallInv
<1> QED
  BY <1>1, <1>2, <1>3

-----------------------------------------------------------------------------
(* What keeps the invariant *)

\* A step that leaves the lists, their locks and the mutex alone, and begins no walk.
LEMMA LocalStep ==
  ASSUME CallInv, NEW t \in Thread, Moves(t), UNCHANGED <<dl, reader, cbs, rest>>,
         JobAt(pc'[t], job'[t]),
         job'[t] \in LinkJobs => job'[t] = job[t],
         WalksAt(pc'[t], job'[t]) => WalksAt(pc[t], job[t]) /\ job'[t] = job[t],
         InCallback(pc'[t], job'[t]) => InCallback(pc[t], job[t]) \/ rest[t] # <<>>,
         pc'[t] \in {"register", "unregister"} => cur'[t] \in [list : Lists, cb : Cb]
  PROVE  CallInv'
<1>1. CallTypes'
  BY DEF CallInv, CallTypes, Moves
<1>2. ASSUME NEW u \in Thread \ {t}
      PROVE  Sound(u)'
  <2>1. pc'[u] = pc[u] /\ job'[u] = job[u] /\ cur'[u] = cur[u]
    BY DEF Moves
  <2>2. Sound(u)
    BY DEF CallInv
  <2> QED
    BY <2>1, <2>2 DEF Sound
<1>3. Sound(t)'
  <2>1. Sound(t)
    BY DEF CallInv
  <2> QED
    BY <2>1 DEF Sound
<1> QED
  BY <1>1, <1>2, <1>3 DEF CallInv

\* A step of the one thread that is in the linker.
LEMMA LinkerStep ==
  ASSUME CallInv, NEW t \in Thread, Moves(t), UNCHANGED cbs,
         \A u \in Thread \ {t} : job[u] \notin LinkJobs /\ rest'[u] = rest[u],
         rest' \in [Thread -> Seq(Callbacks)],
         reader' \in [Lists -> Thread \cup {NoThread}],
         JobAt(pc'[t], job'[t]),
         job'[t] \in LinkJobs => dl' = t,
         WalksAt(pc'[t], job'[t]) =>
           /\ reader'[ListOf(job'[t])] = t
           /\ \A i \in 1 .. Len(rest'[t]) : Contains(cbs[ListOf(job'[t])], rest'[t][i]),
         InCallback(pc'[t], job'[t]) => rest'[t] # <<>>,
         pc'[t] \notin {"register", "unregister"}
  PROVE  CallInv'
<1>1. CallTypes'
  BY DEF CallInv, CallTypes, Moves
<1>2. ASSUME NEW u \in Thread \ {t}
      PROVE  Sound(u)'
  <2>1. pc'[u] = pc[u] /\ job'[u] = job[u] /\ cur'[u] = cur[u] /\ rest'[u] = rest[u] /\ job[u] \notin LinkJobs
    BY DEF Moves
  <2>2. Sound(u)
    BY DEF CallInv
  <2>3. ~WalksAt(pc[u], job[u])
    BY <2>1, <2>2 DEF Sound, JobAt, WalksAt, CtorSteps, DtorSteps, WalkSteps, LinkJobs
  <2> QED
    BY <2>1, <2>2, <2>3 DEF Sound, InCallback
<1>3. Sound(t)'
  BY DEF Sound
<1> QED
  BY <1>1, <1>2, <1>3 DEF CallInv

\* A list changes while nobody walks through it.
LEMMA RegisterStep ==
  ASSUME CallInv, NEW t \in Thread, Moves(t), UNCHANGED <<dl, reader, rest>>,
         NEW x \in Lists, reader[x] = NoThread,
         NEW y \in Seq(Callbacks), cbs' = [cbs EXCEPT ![x] = y],
         JobAt(pc'[t], job'[t]),
         job'[t] \in LinkJobs => job'[t] = job[t],
         ~WalksAt(pc'[t], job'[t]),
         pc'[t] \notin {"register", "unregister"}
  PROVE  CallInv'
<1>1. CallTypes'
  BY DEF CallInv, CallTypes, Moves
<1>2. ASSUME NEW u \in Thread \ {t}
      PROVE  Sound(u)'
  <2>1. pc'[u] = pc[u] /\ job'[u] = job[u] /\ cur'[u] = cur[u]
    BY DEF Moves
  <2>2. Sound(u)
    BY DEF CallInv
  <2>3. CASE WalksAt(pc[u], job[u])
    <3>1. ListOf(job[u]) # x
      BY <2>2, <2>3, LinkerAssumption DEF Sound
    <3>2. cbs'[ListOf(job[u])] = cbs[ListOf(job[u])]
      BY <3>1 DEF CallInv, CallTypes, ListOf, Lists
    <3> QED
      BY <2>1, <2>2, <3>2 DEF Sound
  <2>4. CASE ~WalksAt(pc[u], job[u])
    BY <2>1, <2>2, <2>4 DEF Sound
  <2> QED
    BY <2>3, <2>4
<1>3. Sound(t)'
  <2>1. Sound(t)
    BY DEF CallInv
  <2> QED
    BY <2>1 DEF Sound, InCallback, WalksAt
<1> QED
  BY <1>1, <1>2, <1>3 DEF CallInv

LEMMA GotoStep ==
  ASSUME CallInv, NEW t \in Thread, NEW s \in Steps, Goto(t, s), UNCHANGED <<dl, reader, cbs, rest, job, cur>>,
         JobAt(s, job[t]),
         WalksAt(s, job[t]) => WalksAt(pc[t], job[t]),
         InCallback(s, job[t]) => InCallback(pc[t], job[t]) \/ rest[t] # <<>>,
         s \notin {"register", "unregister"}
  PROVE  CallInv'
<1>1. Moves(t) /\ pc'[t] = s /\ job'[t] = job[t]
  BY GotoMoves DEF CallInv
<1> QED
  BY <1>1, LocalStep

\* A call returns that is not in the linker.
LEMMA ReturnStep ==
  ASSUME CallInv, NEW t \in Thread, Return(t), UNCHANGED <<dl, reader, cbs, rest>>
  PROVE  CallInv'
<1>1. Moves(t) /\ pc'[t] = "idle" /\ job'[t] = "none"
  BY ReturnMoves DEF CallInv
<1>2. JobAt("idle", "none") /\ ~WalksAt("idle", "none") /\ "none" \notin LinkJobs
  BY DEF JobAt, WalksAt, InitSteps, CtorSteps, DtorSteps, WalkSteps, LinkJobs
<1> QED
  BY <1>1, <1>2, LocalStep DEF InCallback

\* A call begins that is not in the linker.
LEMMA StartStep ==
  ASSUME CallInv, NEW t \in Thread, NEW j \in Jobs \ LinkJobs, NEW k, NEW s \in Steps, Start(t, j, k, s),
         UNCHANGED <<dl, reader, cbs, rest>>,
         JobAt(s, j), ~WalksAt(s, j),
         s \in {"register", "unregister"} => k \in [list : Lists, cb : Cb]
  PROVE  CallInv'
<1>1. Moves(t) /\ pc'[t] = s /\ job'[t] = j /\ cur'[t] = k
  BY StartMoves DEF CallInv
<1> QED
  BY <1>1, LocalStep DEF InCallback

-----------------------------------------------------------------------------
(* The steps of tasks *)

LEMMA TaskGotoKeeps ==
  ASSUME CallInv, NEW t \in Thread,
         \/ Lookup(t) \/ DoHook(t) \/ Insert(t) \/ Undo(t) \/ InitPre(t) \/ DoPending(t)
         \/ SetFinished(t) \/ Sweep(t) \/ FiniPost(t)
  PROVE  CallInv'
<1>0. Sound(t) /\ UNCHANGED <<dl, reader, cbs, rest, job, cur>>
  BY DEF CallInv, Lookup, DoHook, Insert, Undo, InitPre, DoPending, SetFinished, Sweep, FiniPost,
         linkVars, libVars, cbVars
<1> USE DEF Steps, InitSteps, CtorSteps, DtorSteps, WalkSteps, TaskSteps, JobAt, WalksAt, InCallback, LinkJobs
<1>1. CASE Lookup(t)
  <2>1. job[t] = "hook" /\ (Goto(t, "insert") \/ Goto(t, "hook") \/ Goto(t, "record"))
    BY <1>0, <1>1 DEF Lookup, At, Sound
  <2> QED
    BY <1>0, <2>1, GotoStep
<1>2. CASE DoHook(t)
  <2>1. job[t] = "hook" /\ (Goto(t, "insert") \/ Goto(t, "record"))
    BY <1>0, <1>2 DEF DoHook, At, Sound
  <2> QED
    BY <1>0, <2>1, GotoStep
<1>3. CASE Insert(t)
  <2>1. job[t] = "hook" /\ Goto(t, "record")
    BY <1>0, <1>3 DEF Insert, At, Sound
  <2> QED
    BY <1>0, <2>1, GotoStep
<1>4. CASE Undo(t)
  <2>1. job[t] = "undo" /\ Goto(t, "record")
    BY <1>0, <1>4 DEF Undo, At, Sound
  <2> QED
    BY <1>0, <2>1, GotoStep
<1>5. CASE InitPre(t)
  <2>1. pc[t] = "init_pre" /\ job[t] = "dlopen" /\ Goto(t, "pending")
    BY <1>0, <1>5 DEF InitPre, At, Sound
  <2> QED
    BY <1>0, <2>1, GotoStep
<1>6. CASE DoPending(t)
  <2>1. pc[t] = "do_pending" /\ job[t] = "dlopen" /\ Goto(t, "record")
    BY <1>0, <1>6 DEF DoPending, At, Sound
  <2> QED
    BY <1>0, <2>1, GotoStep
<1>7. CASE SetFinished(t)
  <2>1. pc[t] = "finish" /\ job[t] = "dlopen" /\ Goto(t, "callback")
    BY <1>0, <1>7 DEF SetFinished, At, Sound
  <2> QED
    BY <1>0, <2>1, GotoStep
<1>8. CASE Sweep(t)
  <2>1. pc[t] = "sweep" /\ job[t] = "dlclose" /\ Goto(t, "fini_post")
    BY <1>0, <1>8 DEF Sweep, At, Sound
  <2> QED
    BY <1>0, <2>1, GotoStep
<1>9. CASE FiniPost(t)
  <2>1. pc[t] = "fini_post" /\ job[t] = "dlclose" /\ Goto(t, "reset")
    BY <1>0, <1>9 DEF FiniPost, At, Sound
  <2> QED
    BY <1>0, <2>1, GotoStep
<1> QED
  BY <1>1, <1>2, <1>3, <1>4, <1>5, <1>6, <1>7, <1>8, <1>9

LEMMA RecordKeeps ==
  ASSUME CallInv, NEW t \in Thread, Record(t) \/ Dladdr(t)
  PROVE  CallInv'
<1>1. pc[t] \in {"record", "dladdr"} /\ UNCHANGED <<dl, reader, cbs, rest>>
  BY DEF Record, Dladdr, At, linkVars, libVars, cbVars
<1>2. job[t] \in {"hook", "undo", "dlopen"}
  BY <1>1 DEF CallInv, Sound, JobAt
<1>3. CASE Goto(t, "dladdr") /\ UNCHANGED <<job, cur>>
  BY <1>1, <1>2, <1>3, GotoStep
     DEF Steps, TaskSteps, InitSteps, CtorSteps, DtorSteps, WalkSteps, JobAt, WalksAt, InCallback
<1>4. CASE AfterRecord(t)
  <2>1. CASE job[t] = "hook"
    <3>1. Return(t)
      BY <1>4, <2>1 DEF AfterRecord
    <3> QED
      BY <1>1, <3>1, ReturnStep
  <2>2. CASE job[t] = "undo"
    <3>1. Goto(t, "destroy") /\ UNCHANGED <<job, cur>>
      BY <1>4, <2>2 DEF AfterRecord
    <3> QED
      BY <1>1, <2>2, <3>1, GotoStep
         DEF Steps, TaskSteps, InitSteps, CtorSteps, DtorSteps, WalkSteps, JobAt, WalksAt, InCallback
  <2>3. CASE job[t] = "dlopen"
    <3>1. Goto(t, "finish") /\ UNCHANGED <<job, cur>>
      BY <1>4, <2>3 DEF AfterRecord
    <3> QED
      BY <1>1, <2>3, <3>1, GotoStep
         DEF Steps, TaskSteps, InitSteps, CtorSteps, DtorSteps, WalkSteps, JobAt, WalksAt, InCallback
  <2> QED
    BY <1>2, <2>1, <2>2, <2>3
<1> QED
  BY <1>3, <1>4 DEF Record, Dladdr

LEMMA TakePendingKeeps ==
  ASSUME CallInv, NEW t \in Thread, TakePending(t)
  PROVE  CallInv'
<1>1. /\ pc[t] = "pending" /\ job[t] = "dlopen" /\ UNCHANGED <<dl, reader, cbs, rest, job>>
  BY DEF TakePending, At, CallInv, Sound, JobAt, CtorSteps, linkVars, libVars, cbVars
<1>2. Moves(t) /\ job'[t] = job[t] /\ pc'[t] \in {"pending", "do_pending"}
  <2>1. \/ cur' = cur /\ pc' = pc
        \/ \E k \in work[t] : cur' = [cur EXCEPT ![t] = k] /\ Goto(t, "do_pending")
    BY ZenonT(60) DEF TakePending
  <2>2. CASE cur' = cur /\ pc' = pc
    BY <1>1, <2>2 DEF CallInv, CallTypes, Moves
  <2>3. CASE \E k \in work[t] : cur' = [cur EXCEPT ![t] = k] /\ Goto(t, "do_pending")
    BY <1>1, <2>3 DEF CallInv, CallTypes, Moves, Goto, Steps, CtorSteps
  <2> QED
    BY <2>1, <2>2, <2>3
<1> QED
  BY <1>1, <1>2, LocalStep DEF JobAt, WalksAt, InCallback, InitSteps, CtorSteps, DtorSteps, WalkSteps

LEMMA CallbackKeeps ==
  ASSUME CallInv, NEW t \in Thread, Callback(t)
  PROVE  CallInv'
<1>1. /\ pc[t] = "callback" /\ job[t] = "dlopen" /\ UNCHANGED <<dl, reader, cbs, rest, job>>
      /\ Goto(t, "pending") /\ cur' = [cur EXCEPT ![t] = NoTask]
  BY DEF Callback, At, CallInv, Sound, JobAt, CtorSteps, linkVars, libVars, cbVars
<1>2. Moves(t) /\ job'[t] = job[t] /\ pc'[t] = "pending"
  BY <1>1 DEF CallInv, CallTypes, Moves, Goto, Steps, CtorSteps
<1> QED
  BY <1>1, <1>2, LocalStep DEF JobAt, WalksAt, InCallback, InitSteps, CtorSteps, DtorSteps, WalkSteps

\* Nothing that the invariant speaks of changes.
LEMMA StutterKeeps ==
  ASSUME CallInv, UNCHANGED <<dl, reader, cbs, rest, pc, job, cur>>
  PROVE  CallInv'
BY DEF CallInv, CallTypes, Sound

LEMMA TaskCallKeeps ==
  ASSUME CallInv, NEW t \in Thread, NEW k \in Task, CallHook(t, k) \/ CallUndo(t, k)
  PROVE  CallInv'
<1> USE DEF Steps, TaskSteps, InitSteps, CtorSteps, DtorSteps, WalkSteps, Jobs, LinkJobs, JobAt, WalksAt
<1>1. UNCHANGED <<dl, reader, cbs, rest>>
  BY DEF CallHook, CallUndo, linkVars, libVars, cbVars
<1>2. CASE CallHook(t, k)
  <2>1. Start(t, "hook", k, "lookup") \/ Start(t, "hook", k, "hook")
    BY <1>2 DEF CallHook
  <2> QED
    BY <1>1, <2>1, StartStep
<1>3. CASE CallUndo(t, k)
  <2>1. Start(t, "undo", k, "undo")
    BY <1>3 DEF CallUndo
  <2> QED
    BY <1>1, <2>1, StartStep
<1> QED
  BY <1>2, <1>3

LEMMA UndoDestroyKeeps ==
  ASSUME CallInv, NEW t \in Thread, UndoDestroy(t)
  PROVE  CallInv'
BY ReturnStep DEF UndoDestroy, linkVars, libVars, cbVars

LEMMA ResetKeeps ==
  ASSUME CallInv, NEW t \in Thread, Reset(t)
  PROVE  CallInv'
BY StutterKeeps DEF Reset, linkVars, libVars, cbVars

-----------------------------------------------------------------------------
(* Initialisation and registering *)

LEMMA InitGotoKeeps ==
  ASSUME CallInv, NEW t \in Thread, pc[t] \in InitSteps, UNCHANGED <<dl, reader, cbs, rest, cur, job>>,
         NEW s \in InitSteps, Goto(t, s)
  PROVE  CallInv'
<1>1. job[t] \in {"init", "dlopen"}
  BY DEF CallInv, Sound, JobAt
<1> QED
  BY <1>1, GotoStep DEF Steps, InitSteps, CtorSteps, DtorSteps, WalkSteps, JobAt, WalksAt, InCallback

LEMMA InitReturnsKeeps ==
  ASSUME CallInv, NEW t \in Thread, pc[t] \in InitSteps, UNCHANGED <<dl, reader, cbs, rest>>, InitReturns(t)
  PROVE  CallInv'
<1>1. /\ Moves(t)
      /\ \/ pc'[t] = "idle" /\ job'[t] = "none"
         \/ pc'[t] = "ctors" /\ job'[t] = "dlopen" /\ job[t] = "dlopen"
  BY InitReturnsMoves
<1> QED
  BY <1>1, LocalStep DEF InitSteps, CtorSteps, DtorSteps, WalkSteps, LinkJobs, JobAt, WalksAt, InCallback

LEMMA CallInitKeeps ==
  ASSUME CallInv, NEW t \in Thread, CallInit(t)
  PROVE  CallInv'
<1> USE DEF Steps, InitSteps, CtorSteps, DtorSteps, WalkSteps, JobAt, WalksAt, InCallback
<1>1. UNCHANGED <<dl, reader, cbs, rest>>
  BY DEF CallInit, linkVars, libVars, cbVars
<1>2. CASE Start(t, "init", NoTask, "init_lock")
  BY <1>1, <1>2, StartStep DEF Jobs, LinkJobs
<1>3. CASE At(t, "ctors") /\ Goto(t, "init_lock") /\ UNCHANGED <<job, cur>>
  <2>1. job[t] = "dlopen"
    BY <1>3 DEF At, CallInv, Sound
  <2> QED
    BY <1>1, <1>3, <2>1, GotoStep
<1> QED
  BY <1>2, <1>3 DEF CallInit

LEMMA InitKeeps ==
  ASSUME CallInv, NEW t \in Thread,
         \/ InitBegins(t) \/ HookCtors(t) \/ HookDtors(t) \/ ScanBegins(t) \/ ScanNothing(t)
         \/ ScanEnds(t) \/ InitEnds(t)
  PROVE  CallInv'
<1>1. pc[t] \in InitSteps /\ UNCHANGED <<dl, reader, cbs, rest>>
  BY DEF InitBegins, HookCtors, HookDtors, HookLinker, ScanBegins, ScanNothing, ScanEnds, InitEnds, At,
         InitSteps, libVars, cbVars
<1>2. \/ InitReturns(t)
      \/ (\E s \in InitSteps : Goto(t, s)) /\ cur' = cur /\ job' = job
  <2> USE DEF InitSteps
  <2>1. CASE InitBegins(t)
    BY <2>1 DEF InitBegins
  <2>2. CASE HookCtors(t) \/ HookDtors(t)
    BY <2>2 DEF HookCtors, HookDtors, HookLinker, InitFails
  <2>3. CASE ScanBegins(t)
    BY <2>3 DEF ScanBegins
  <2>4. CASE ScanNothing(t)
    BY <2>4 DEF ScanNothing
  <2>5. CASE ScanEnds(t)
    BY <2>5 DEF ScanEnds, InitFails
  <2>6. CASE InitEnds(t)
    BY <2>6 DEF InitEnds
  <2> QED
    BY <2>1, <2>2, <2>3, <2>4, <2>5, <2>6
<1> QED
  BY <1>1, <1>2, InitGotoKeeps, InitReturnsKeeps

\* What Register and Unregister make of a list is a list.
LEMMA AppendIsList ==
  ASSUME NEW q \in Seq(Callbacks), NEW u \in Callbacks
  PROVE  (IF Contains(q, u) THEN q ELSE Append(q, u)) \in Seq(Callbacks)
OBVIOUS

\* The first of the places in a list that satisfy something.
LEMMA FirstPlace ==
  ASSUME NEW T, T \subseteq Nat, T # {}
  PROVE  Min(T) \in T
<1>1. \E n \in T : \A k \in T : ~(k < n)
  <2> DEFINE R == OpToRel(<, Nat)
  <2>1. IsWellFoundedOn(R, Nat)
    BY NatLessThanWellFounded, Zenon
  <2>2. PICK n \in T : \A k \in T : <<k, n>> \notin R
    <3> HIDE DEF R
    <3> QED
      BY <2>1, WFMin
  <2>3. \A k \in Nat : k < n => <<k, n>> \in R
    BY DEF OpToRel
  <2> QED
    BY <2>2, <2>3
<1>2. \E n \in T : \A k \in T : n <= k
  BY <1>1
<1> QED
  BY <1>2 DEF Min

LEMMA RemoveIsList ==
  ASSUME NEW q \in Seq(Callbacks), NEW u
  PROVE  RemoveFirst(q, u) \in Seq(Callbacks)
<1>1. CASE ~\E i \in 1 .. Len(q) : q[i] = u
  BY <1>1 DEF RemoveFirst
<1>2. CASE \E i \in 1 .. Len(q) : q[i] = u
  <2> DEFINE I == {i \in 1 .. Len(q) : q[i] = u}
             k == SelectInSeq(q, LAMBDA v : v = u)
  <2>1. k = Min(I)
    BY <1>2 DEF SelectInSeq
  <2>2. Min(I) \in I
    <3>1. I \subseteq Nat /\ I # {}
      BY <1>2
    <3> HIDE DEF I
    <3> QED
      BY <3>1, FirstPlace
  <2>3. k \in 1 .. Len(q)
    BY <2>1, <2>2
  <2>4. RemoveAt(q, k) \in Seq(Callbacks)
    <3> HIDE DEF k
    <3> QED
      BY <2>3 DEF RemoveAt
  <2> QED
    BY <1>2, <2>4 DEF RemoveFirst
<1> QED
  BY <1>1, <1>2

LEMMA TaskInitKeeps ==
  ASSUME CallInv, NEW t \in Thread, NEW x \in Lists, NEW at \in InitSteps, NEW then \in InitSteps,
         TaskInit(t, at, x, then)
  PROVE  CallInv'
<1>1. pc[t] \in InitSteps /\ UNCHANGED <<dl, reader, rest>>
  BY DEF TaskInit, At, libVars
<1>2. CASE InitFails(t) /\ UNCHANGED cbs
  BY <1>1, <1>2, InitReturnsKeeps DEF InitFails
<1>3. CASE Register(x, TASK) /\ Goto(t, then) /\ UNCHANGED <<job, cur>>
  <2>1. job[t] \in {"init", "dlopen"}
    BY <1>1 DEF CallInv, Sound, JobAt
  <2>2. Moves(t) /\ pc'[t] = then /\ job'[t] = job[t]
    BY <1>3, GotoMoves DEF CallInv, Steps
  <2>3. cbs[x] \in Seq(Callbacks) /\ TASK \in Callbacks
    BY DEF CallInv, CallTypes, Callbacks
  <2>4. PICK y \in Seq(Callbacks) : cbs' = [cbs EXCEPT ![x] = y]
    BY <1>3, <2>3, AppendIsList DEF Register
  <2>5. reader[x] = NoThread
    BY <1>3 DEF Register
  <2> QED
    BY <1>1, <2>1, <2>2, <2>4, <2>5, RegisterStep
       DEF InitSteps, CtorSteps, DtorSteps, WalkSteps, JobAt, WalksAt
<1> QED
  BY <1>2, <1>3 DEF TaskInit

LEMMA TaskInitsKeep ==
  ASSUME CallInv, NEW t \in Thread, TaskInitInit(t) \/ TaskInitFini(t)
  PROVE  CallInv'
BY TaskInitKeeps DEF TaskInitInit, TaskInitFini, InitSteps, Lists

LEMMA CallRegisterKeeps ==
  ASSUME CallInv, NEW t \in Thread, NEW act \in {"register", "unregister"}, NEW x \in Lists, NEW u \in Cb,
         CallRegister(t, act, x, u)
  PROVE  CallInv'
<1>1. Start(t, act, [list |-> x, cb |-> u], act) /\ UNCHANGED <<dl, reader, cbs, rest>>
  BY DEF CallRegister, linkVars, libVars, cbVars
<1>2. act \in Steps /\ act \in Jobs \ LinkJobs /\ JobAt(act, act) /\ ~WalksAt(act, act)
  BY DEF Steps, Jobs, LinkJobs, InitSteps, CtorSteps, DtorSteps, WalkSteps, JobAt, WalksAt
<1>3. [list |-> x, cb |-> u] \in [list : Lists, cb : Cb]
  OBVIOUS
<1> QED
  BY <1>1, <1>2, <1>3, StartStep

LEMMA DoRegisterKeeps ==
  ASSUME CallInv, NEW t \in Thread, DoRegister(t) \/ DoUnregister(t)
  PROVE  CallInv'
<1>1. /\ pc[t] \in {"register", "unregister"} /\ Return(t) /\ UNCHANGED <<dl, reader, rest>>
      /\ Register(cur[t].list, cur[t].cb) \/ Unregister(cur[t].list, cur[t].cb)
  BY DEF DoRegister, DoUnregister, At, libVars
<1> DEFINE x == cur[t].list
           u == cur[t].cb
<1>2. x \in Lists /\ u \in Callbacks
  BY <1>1 DEF CallInv, Sound, Callbacks
<1>3. cbs[x] \in Seq(Callbacks)
  BY <1>2 DEF CallInv, CallTypes
<1>4. Moves(t) /\ pc'[t] = "idle" /\ job'[t] = "none"
  BY <1>1, ReturnMoves DEF CallInv
<1> HIDE DEF x, u
<1>5. reader[x] = NoThread
  BY <1>1 DEF Register, Unregister, x
<1>6. PICK y \in Seq(Callbacks) : cbs' = [cbs EXCEPT ![x] = y]
  <2>1. CASE Register(x, u)
    BY <1>2, <1>3, <2>1, AppendIsList DEF Register
  <2>2. CASE Unregister(x, u)
    BY <1>2, <1>3, <2>2, RemoveIsList DEF Unregister
  <2> QED
    BY <1>1, <2>1, <2>2 DEF x, u
<1>7. JobAt("idle", "none") /\ ~WalksAt("idle", "none") /\ "none" \notin LinkJobs
  BY DEF JobAt, WalksAt, InitSteps, CtorSteps, DtorSteps, WalkSteps, LinkJobs
<1> QED
  BY <1>1, <1>2, <1>4, <1>5, <1>6, <1>7, RegisterStep

LEMMA SetDisableKeeps ==
  ASSUME CallInv, NEW t \in Thread, SetDisable(t)
  PROVE  CallInv'
BY StutterKeeps DEF SetDisable, libVars, cbVars, threadVars

-----------------------------------------------------------------------------
(* The linker and the walks *)

\* One thread at a time is in the linker.
LEMMA AloneInLinker ==
  ASSUME CallInv, NEW t \in Thread, job[t] \in LinkJobs
  PROVE  dl = t /\ \A u \in Thread \ {t} : job[u] \notin LinkJobs
BY DEF CallInv, Sound

LEMMA NobodyInLinker ==
  ASSUME CallInv, dl = NoThread
  PROVE  \A u \in Thread : job[u] \notin LinkJobs
BY LinkerAssumption DEF CallInv, Sound

LEMMA EnterLinkerKeeps ==
  ASSUME CallInv, NEW t \in Thread,
         (\E l \in Lib, a \in Addr : Dlopen(t, l, a)) \/ (\E l \in Lib : Dlclose(t, l))
  PROVE  CallInv'
<1>1. /\ dl = NoThread /\ dl' = t /\ UNCHANGED <<cbs, reader, rest>>
      /\ \/ Start(t, "dlopen", NoTask, "enter_ctors")
         \/ Start(t, "dlclose", NoTask, "enter_dtors")
  BY DEF Dlopen, Dlclose, cbVars
<1>2. \A u \in Thread \ {t} : job[u] \notin LinkJobs
  BY <1>1, NobodyInLinker
<1>3. /\ Moves(t)
      /\ \/ pc'[t] = "enter_ctors" /\ job'[t] = "dlopen"
         \/ pc'[t] = "enter_dtors" /\ job'[t] = "dlclose"
  BY <1>1, StartMoves DEF CallInv, Steps, CtorSteps, DtorSteps, Jobs, LinkJobs
<1>4. rest' \in [Thread -> Seq(Callbacks)] /\ reader' \in [Lists -> Thread \cup {NoThread}]
  BY <1>1 DEF CallInv, CallTypes
<1> QED
  BY <1>1, <1>2, <1>3, <1>4, LinkerStep
     DEF InitSteps, CtorSteps, DtorSteps, WalkSteps, JobAt, WalksAt, InCallback

LEMMA LeaveLinkerKeeps ==
  ASSUME CallInv, NEW t \in Thread, LeaveDlopen(t) \/ LeaveDlclose(t)
  PROVE  CallInv'
<1>1. job[t] \in LinkJobs /\ dl' = NoThread /\ Return(t) /\ UNCHANGED <<cbs, reader, rest>>
  BY DEF LeaveDlopen, LeaveDlclose, LinkJobs
<1>2. Moves(t) /\ pc'[t] = "idle" /\ job'[t] = "none"
  BY <1>1, ReturnMoves DEF CallInv
<1>3. rest' \in [Thread -> Seq(Callbacks)] /\ reader' \in [Lists -> Thread \cup {NoThread}]
  BY <1>1 DEF CallInv, CallTypes
<1> QED
  BY <1>1, <1>2, <1>3, AloneInLinker, LinkerStep
     DEF InitSteps, CtorSteps, DtorSteps, WalkSteps, LinkJobs, JobAt, WalksAt, InCallback

LEMMA LoadFailsKeeps ==
  ASSUME CallInv, NEW t \in Thread, LoadFails(t)
  PROVE  CallInv'
<1>1. /\ pc[t] = "enter_ctors" /\ Goto(t, "enter_dtors") /\ job' = [job EXCEPT ![t] = "dlclose"]
      /\ UNCHANGED <<dl, cbs, reader, rest, cur>>
  BY DEF LoadFails, At, linkVars, libVars, cbVars
<1>2. job[t] = "dlopen"
  BY <1>1 DEF CallInv, Sound, JobAt, CtorSteps
<1>3. Moves(t) /\ pc'[t] = "enter_dtors" /\ job'[t] = "dlclose"
  BY <1>1 DEF CallInv, CallTypes, Goto, Moves, Steps, DtorSteps, Jobs, LinkJobs
<1>4. dl' = t /\ \A u \in Thread \ {t} : job[u] \notin LinkJobs
  BY <1>1, <1>2, AloneInLinker DEF LinkJobs
<1>5. rest' \in [Thread -> Seq(Callbacks)] /\ reader' \in [Lists -> Thread \cup {NoThread}]
  BY <1>1 DEF CallInv, CallTypes
<1> QED
  BY <1>1, <1>3, <1>4, <1>5, LinkerStep
     DEF InitSteps, CtorSteps, DtorSteps, WalkSteps, LinkJobs, JobAt, WalksAt, InCallback

\* A step in the linker that goes elsewhere in the same call.
LEMMA LinkerGotoStep ==
  ASSUME CallInv, NEW t \in Thread, job[t] \in LinkJobs, NEW s \in Steps, Goto(t, s),
         UNCHANGED <<dl, cbs, job, cur>>,
         \A u \in Thread \ {t} : rest'[u] = rest[u],
         rest' \in [Thread -> Seq(Callbacks)],
         reader' \in [Lists -> Thread \cup {NoThread}],
         JobAt(s, job[t]),
         WalksAt(s, job[t]) =>
           /\ reader'[ListOf(job[t])] = t
           /\ \A i \in 1 .. Len(rest'[t]) : Contains(cbs[ListOf(job[t])], rest'[t][i]),
         InCallback(s, job[t]) => rest'[t] # <<>>,
         s \notin {"register", "unregister"}
  PROVE  CallInv'
<1>1. Moves(t) /\ pc'[t] = s /\ job'[t] = job[t]
  BY GotoMoves DEF CallInv
<1>2. dl' = t /\ \A u \in Thread \ {t} : job[u] \notin LinkJobs
  BY AloneInLinker
<1> QED
  BY <1>1, <1>2, LinkerStep

\* A walk begins: the list's lock, and all that is in the list.
LEMMA BeginWalkKeeps ==
  ASSUME CallInv, NEW t \in Thread, BeginWalk(t), NEW s \in {"pre", "post"}, Goto(t, s),
         job[t] \in LinkJobs, UNCHANGED <<dl, cbs, job, cur>>
  PROVE  CallInv'
<1> DEFINE x == ListOf(job[t])
<1>1. x = List(t) /\ x \in Lists
  BY DEF ListOf, List, Lists
<1>2. cbs[x] \in Seq(Callbacks)
  BY <1>1 DEF CallInv, CallTypes
<1>3. reader' = [reader EXCEPT ![x] = t] /\ rest' = [rest EXCEPT ![t] = cbs[x]]
  BY <1>1 DEF BeginWalk
<1> HIDE DEF x
<1>4. /\ rest' \in [Thread -> Seq(Callbacks)] /\ reader' \in [Lists -> Thread \cup {NoThread}]
      /\ reader'[x] = t /\ rest'[t] = cbs[x]
      /\ \A u \in Thread \ {t} : rest'[u] = rest[u]
  BY <1>1, <1>2, <1>3 DEF CallInv, CallTypes
<1>5. \A i \in 1 .. Len(rest'[t]) : Contains(cbs[x], rest'[t][i])
  BY <1>2, <1>4 DEF Contains
<1> QED
  BY <1>4, <1>5, LinkerGotoStep
     DEF x, Steps, InitSteps, CtorSteps, DtorSteps, WalkSteps, JobAt, WalksAt, InCallback

LEMMA NoWalkKeeps ==
  ASSUME CallInv, NEW t \in Thread, NEW s \in {"ctors", "dtors", "leave"}, Goto(t, s),
         job[t] = (IF s = "ctors" THEN "dlopen" ELSE IF s = "dtors" THEN "dlclose" ELSE job[t]),
         job[t] \in LinkJobs, UNCHANGED <<dl, cbs, job, cur, rest>>,
         reader' \in [Lists -> Thread \cup {NoThread}]
  PROVE  CallInv'
<1>1. rest' \in [Thread -> Seq(Callbacks)]
  BY DEF CallInv, CallTypes
<1> QED
  BY <1>1, LinkerGotoStep
     DEF Steps, InitSteps, CtorSteps, DtorSteps, WalkSteps, JobAt, WalksAt, InCallback

LEMMA EnterKeeps ==
  ASSUME CallInv, NEW t \in Thread,
         \/ EnterCtors(t) /\ job[t] = "dlopen"
         \/ EnterDtors(t) /\ job[t] = "dlclose"
  PROVE  CallInv'
<1>1. UNCHANGED <<dl, cbs, job, cur>> /\ job[t] \in LinkJobs
  BY DEF EnterCtors, EnterDtors, libVars, LinkJobs
<1>2. \/ BeginWalk(t) /\ Goto(t, "pre")
      \/ Goto(t, "ctors") /\ job[t] = "dlopen" /\ reader' = reader /\ rest' = rest
      \/ Goto(t, "dtors") /\ job[t] = "dlclose" /\ reader' = reader /\ rest' = rest
  <2>1. CASE EnterCtors(t) /\ job[t] = "dlopen"
    BY <2>1, ZenonT(60) DEF EnterCtors
  <2>2. CASE EnterDtors(t) /\ job[t] = "dlclose"
    BY <2>2, ZenonT(60) DEF EnterDtors
  <2> QED
    BY <2>1, <2>2
<1>3. reader \in [Lists -> Thread \cup {NoThread}]
  BY DEF CallInv, CallTypes
<1> QED
  BY <1>1, <1>2, <1>3, BeginWalkKeeps, NoWalkKeeps

LEMMA OriginalKeeps ==
  ASSUME CallInv, NEW t \in Thread, Constructors(t) \/ Destructors(t)
  PROVE  CallInv'
<1>1. /\ pc[t] \in {"ctors", "dtors"} /\ UNCHANGED <<dl, cbs, job, cur>>
      /\ \/ BeginWalk(t) /\ Goto(t, "post")
         \/ Goto(t, "leave") /\ UNCHANGED <<reader, rest>>
  BY DEF Constructors, Destructors, Original, At
<1>2. job[t] \in LinkJobs
  BY <1>1 DEF CallInv, Sound, JobAt, CtorSteps, DtorSteps, LinkJobs
<1>3. reader \in [Lists -> Thread \cup {NoThread}]
  BY DEF CallInv, CallTypes
<1> QED
  BY <1>1, <1>2, <1>3, BeginWalkKeeps, NoWalkKeeps

LEMMA EndWalkKeeps ==
  ASSUME CallInv, NEW t \in Thread, EndWalk(t)
  PROVE  CallInv'
<1>1. pc[t] \in {"pre", "post"} /\ UNCHANGED <<dl, cbs, job, cur, rest>>
  BY DEF EndWalk, libVars
<1>2. job[t] \in LinkJobs
  BY <1>1 DEF CallInv, Sound, JobAt, WalkSteps
<1>3. \/ Goto(t, "leave")
      \/ Goto(t, "ctors") /\ job[t] = "dlopen"
      \/ Goto(t, "dtors") /\ job[t] = "dlclose"
  <2> DEFINE next == IF pc[t] = "post" THEN "leave" ELSE IF List(t) = "init" THEN "ctors" ELSE "dtors"
  <2>0. Goto(t, next)
    BY DEF EndWalk
  <2>1. CASE pc[t] = "post"
    <3>1. next = "leave"
      BY <2>1
    <3> QED
      BY <2>0, <3>1
  <2>2. CASE pc[t] = "pre" /\ job[t] = "dlopen"
    <3>1. next = "ctors"
      BY <2>2 DEF List
    <3> QED
      BY <2>0, <2>2, <3>1
  <2>3. CASE pc[t] = "pre" /\ job[t] = "dlclose"
    <3>1. next = "dtors"
      BY <2>3 DEF List
    <3> QED
      BY <2>0, <2>3, <3>1
  <2> QED
    BY <1>1, <1>2, <2>1, <2>2, <2>3 DEF LinkJobs
<1>4. reader' \in [Lists -> Thread \cup {NoThread}]
  BY DEF EndWalk, CallInv, CallTypes
<1> QED
  BY <1>1, <1>2, <1>3, <1>4, NoWalkKeeps

LEMMA TailStays ==
  ASSUME NEW S, NEW q \in Seq(S), q # <<>>, NEW c, \A i \in 1 .. Len(q) : Contains(c, q[i])
  PROVE  Tail(q) \in Seq(S) /\ \A i \in 1 .. Len(Tail(q)) : Contains(c, Tail(q)[i])
<1>1. /\ Tail(q) \in Seq(S) /\ Len(Tail(q)) = Len(q) - 1
      /\ \A i \in 1 .. Len(Tail(q)) : Tail(q)[i] = q[i + 1]
  BY HeadTailProperties
<1>2. Len(q) \in Nat
  BY LenProperties
<1>3. \A i \in 1 .. Len(Tail(q)) : i + 1 \in 1 .. Len(q)
  BY <1>1, <1>2
<1> QED
  BY <1>1, <1>3

\* The next callback of a walk: what is left is in the list all the same.
LEMMA PassedKeeps ==
  ASSUME CallInv, NEW t \in Thread,
         pc[t] \in {"pre", "post", "in pre", "in post", "pending", "reset"}, rest[t] # <<>>,
         NEW s \in {"pre", "post"}, Passed(t, s), UNCHANGED <<dl, cbs, reader, job, cur>>
  PROVE  CallInv'
<1>1. WalksAt(pc[t], job[t])
  BY DEF WalksAt, CtorSteps, DtorSteps
<1>2. job[t] \in LinkJobs
  BY <1>1 DEF CallInv, Sound, JobAt, WalksAt, CtorSteps, DtorSteps, WalkSteps, LinkJobs
<1>3. /\ rest[t] # <<>> /\ reader[ListOf(job[t])] = t
      /\ \A i \in 1 .. Len(rest[t]) : Contains(cbs[ListOf(job[t])], rest[t][i])
  BY <1>1 DEF CallInv, Sound
<1>4. /\ Tail(rest[t]) \in Seq(Callbacks)
      /\ \A i \in 1 .. Len(Tail(rest[t])) : Contains(cbs[ListOf(job[t])], Tail(rest[t])[i])
  BY <1>3, TailStays DEF CallInv, CallTypes
<1>5. Goto(t, s) /\ rest' = [rest EXCEPT ![t] = Tail(rest[t])]
  BY DEF Passed
<1>6. /\ rest' \in [Thread -> Seq(Callbacks)] /\ rest'[t] = Tail(rest[t])
      /\ \A u \in Thread \ {t} : rest'[u] = rest[u]
      /\ reader' \in [Lists -> Thread \cup {NoThread}]
  BY <1>4, <1>5 DEF CallInv, CallTypes
<1>7. \A i \in 1 .. Len(rest'[t]) : Contains(cbs[ListOf(job[t])], rest'[t][i])
  BY <1>4, <1>6
<1> QED
  BY <1>2, <1>3, <1>5, <1>6, <1>7, LinkerGotoStep
     DEF Steps, InitSteps, CtorSteps, DtorSteps, WalkSteps, JobAt, WalksAt, InCallback

\* A callback begins, of a user or of the tasks.
LEMMA CallbackBeginsKeeps ==
  ASSUME CallInv, NEW t \in Thread, pc[t] \in {"pre", "post"}, rest[t] # <<>>,
         NEW s \in {"in pre", "in post", "init_pre", "sweep"}, Goto(t, s),
         s = "init_pre" => job[t] = "dlopen",
         s = "sweep" => job[t] = "dlclose",
         UNCHANGED <<dl, cbs, reader, rest, job, cur>>
  PROVE  CallInv'
<1>1. job[t] \in LinkJobs
  BY DEF CallInv, Sound, JobAt, WalkSteps
<1>2. s \in Steps /\ JobAt(s, job[t]) /\ WalksAt(pc[t], job[t]) /\ s \notin {"register", "unregister"}
  BY <1>1 DEF Steps, InitSteps, CtorSteps, DtorSteps, WalkSteps, JobAt, WalksAt
<1> QED
  BY <1>2, GotoStep

LEMMA UserKeeps ==
  ASSUME CallInv, NEW t \in Thread, CallUser(t) \/ UserReturns(t)
  PROVE  CallInv'
<1>1. UNCHANGED <<dl, cbs, reader, job, cur>>
  BY DEF CallUser, UserReturns, libVars
<1>2. CASE CallUser(t)
  <2>1. /\ pc[t] \in {"pre", "post"} /\ rest[t] # <<>> /\ rest' = rest
        /\ Goto(t, "in pre") \/ Goto(t, "in post")
    BY <1>2 DEF CallUser
  <2> QED
    BY <1>1, <2>1, CallbackBeginsKeeps
<1>3. CASE UserReturns(t)
  <2>1. pc[t] \in {"in pre", "in post"} /\ (Passed(t, "pre") \/ Passed(t, "post"))
    BY <1>3 DEF UserReturns
  <2>2. rest[t] # <<>>
    BY <2>1 DEF CallInv, Sound, InCallback, WalksAt
  <2> QED
    BY <1>1, <2>1, <2>2, PassedKeeps
<1> QED
  BY <1>2, <1>3

LEMMA CallTaskKeeps ==
  ASSUME CallInv, NEW t \in Thread, CallTask(t)
  PROVE  CallInv'
<1>1. pc[t] \in {"pre", "post"} /\ rest[t] # <<>> /\ UNCHANGED <<dl, cbs, reader, job, cur>>
  BY DEF CallTask, libVars
<1>2. job[t] \in LinkJobs
  BY <1>1 DEF CallInv, Sound, JobAt, WalkSteps
<1>3. \/ List(t) = "init" /\ Goto(t, "init_pre") /\ rest' = rest
      \/ List(t) = "fini" /\ Goto(t, "sweep") /\ rest' = rest
      \/ Passed(t, "pre")
      \/ Passed(t, "post")
  BY DEF CallTask
<1>4. (List(t) = "init" => job[t] = "dlopen") /\ (List(t) = "fini" => job[t] = "dlclose")
  BY <1>2 DEF List, LinkJobs
<1> QED
  BY <1>1, <1>3, <1>4, PassedKeeps, CallbackBeginsKeeps

LEMMA CallbackReturnsKeeps ==
  ASSUME CallInv, NEW t \in Thread, CallbackReturns(t)
  PROVE  CallInv'
<1>1. /\ pc[t] \in {"pending", "reset"} /\ UNCHANGED <<dl, cbs, reader, job, cur>>
      /\ Passed(t, "pre") \/ Passed(t, "post")
  BY DEF CallbackReturns, TaskReturns, libVars
<1>2. rest[t] # <<>>
  BY <1>1 DEF CallInv, Sound, InCallback, WalksAt, CtorSteps, DtorSteps
<1> QED
  BY <1>1, <1>2, PassedKeeps

-----------------------------------------------------------------------------

LEMMA InitHolds == Init => CallInv
<1> SUFFICES ASSUME Init
             PROVE  CallInv
  OBVIOUS
<1>1. /\ pc = [t \in Thread |-> "idle"] /\ job = [t \in Thread |-> "none"] /\ cur = [t \in Thread |-> NoTask]
      /\ cbs = [x \in Lists |-> <<>>] /\ reader = [x \in Lists |-> NoThread] /\ rest = [t \in Thread |-> <<>>]
  BY DEF Init, LinkInit, Lists
<1>2. CallTypes
  BY <1>1 DEF CallTypes, Steps, Jobs
<1>3. \A t \in Thread : Sound(t)
  BY <1>1 DEF Sound, InitSteps, CtorSteps, DtorSteps, WalkSteps, LinkJobs, JobAt, WalksAt, InCallback
<1> QED
  BY <1>2, <1>3 DEF CallInv

LEMMA CallsKeep ==
  ASSUME CallInv, NEW t \in Thread, Call(t)
  PROVE  CallInv'
<1>1. CASE \E k \in Task : CallHook(t, k) \/ CallUndo(t, k)
  BY <1>1, TaskCallKeeps
<1>2. CASE \E l \in Lib : CallDlclose(t, l)
  BY <1>2, EnterLinkerKeeps DEF CallDlclose
<1>3. CASE LinkCall(t)
  <2>1. CASE CallInit(t) \/ SetDisable(t)
    BY <2>1, CallInitKeeps, SetDisableKeeps
  <2>2. CASE \E u \in Cb, x \in {"init", "fini"}, act \in {"register", "unregister"} : CallRegister(t, act, x, u)
    BY <2>2, CallRegisterKeeps DEF Lists
  <2>3. CASE \E l \in Lib, a \in Addr : Dlopen(t, l, a)
    BY <2>3, EnterLinkerKeeps
  <2> QED
    BY <1>3, <2>1, <2>2, <2>3 DEF LinkCall
<1> QED
  BY <1>1, <1>2, <1>3 DEF Call

LEMMA WaitsKeep ==
  ASSUME CallInv, NEW t \in Thread, Wait(t)
  PROVE  CallInv'
<1>1. LinkWait(t) => CallInv'
  BY InitKeeps, TaskInitsKeep, DoRegisterKeeps DEF LinkWait
<1> QED
  BY <1>1, TaskGotoKeeps, RecordKeeps, TakePendingKeeps, ResetKeeps DEF Wait

LEMMA WorkKeeps ==
  ASSUME CallInv, NEW t \in Thread, Work(t)
  PROVE  CallInv'
<1>1. EnterCtors(t) => job[t] = "dlopen"
  BY DEF EnterCtors, At, CallInv, Sound, JobAt, CtorSteps
<1>2. EnterDtors(t) => job[t] = "dlclose"
  BY DEF EnterDtors, At, CallInv, Sound, JobAt, DtorSteps
<1>3. LinkWork(t) => CallInv'
  BY <1>1, <1>2, InitKeeps, LoadFailsKeeps, EnterKeeps, UserKeeps, CallTaskKeeps, EndWalkKeeps, OriginalKeeps,
     LeaveLinkerKeeps DEF LinkWork
<1>4. Unmap(t) => CallInv'
  BY LeaveLinkerKeeps DEF Unmap
<1> QED
  BY <1>3, <1>4, TaskGotoKeeps, UndoDestroyKeeps, CallbackKeeps, CallbackReturnsKeeps DEF Work

\* In every reachable state a thread in a walk has the list's lock, the linker's mutex and a call that fits its
\* step, and what it has yet to call is in the list (the proxies of sh_linker.c with the callbacks of sh_task.c).
THEOREM CallInvariant == Spec => []CallInv
<1>1. CallInv /\ [Next]_vars => CallInv'
  <2> SUFFICES ASSUME CallInv, [Next]_vars
               PROVE  CallInv'
    OBVIOUS
  <2>1. CASE Next
    BY <2>1, CallsKeep, WaitsKeep, WorkKeeps DEF Next
  <2>2. CASE UNCHANGED vars
    BY <2>2, StutterKeeps DEF vars, linkVars, libVars, cbVars, threadVars
  <2> QED
    BY <2>1, <2>2
<1> QED
  BY <1>1, InitHolds, PTL DEF Spec

LEMMA HeadFirst ==
  ASSUME NEW S, NEW q \in Seq(S), q # <<>>
  PROVE  Head(q) = q[1] /\ 1 \in 1 .. Len(q)
<1>1. Len(q) \in Nat /\ Len(q) # 0
  BY EmptySeq
<1>2. Head(q) = q[1]
  BY HeadTailProperties
<1> QED
  BY <1>1, <1>2

\* Once unregister has returned (sh_linker.c:719) the callback is not running in any thread and no walk will
\* come to it.
THEOREM NoCallAfterUnregisterHolds == Spec => []NoCallAfterUnregister
<1>1. CallInv => NoCallAfterUnregister
  <2> SUFFICES ASSUME CallInv, NEW t \in Thread, pc[t] \in {"in pre", "in post"}
               PROVE  Contains(cbs[List(t)], Head(rest[t]))
    BY DEF NoCallAfterUnregister
  <2>1. /\ rest[t] # <<>> /\ rest[t] \in Seq(Callbacks)
        /\ \A i \in 1 .. Len(rest[t]) : Contains(cbs[ListOf(job[t])], rest[t][i])
    BY DEF CallInv, CallTypes, Sound, WalksAt, InCallback
  <2>2. Head(rest[t]) = rest[t][1] /\ 1 \in 1 .. Len(rest[t])
    BY <2>1, HeadFirst
  <2> QED
    BY <2>1, <2>2 DEF List, ListOf
<1> QED
  BY <1>1, CallInvariant, PTL

\* Only one thread at a time runs the linker's callbacks: it owns the linker's mutex.
THEOREM OneInLinker == Spec => [](\A t, u \in Thread : job[t] \in LinkJobs /\ job[u] \in LinkJobs => t = u)
<1>1. CallInv => \A t, u \in Thread : job[t] \in LinkJobs /\ job[u] \in LinkJobs => t = u
  BY DEF CallInv, Sound
<1> QED
  BY <1>1, CallInvariant, PTL

-----------------------------------------------------------------------------
(* The tasks.  Who works on a task, and what that makes sure of.           *)

DoSteps == {"do_pending", "record", "dladdr", "finish", "callback"}
Undoes(t, k) == job[t] = "undo" /\ cur[t] = k
Does(t, k) == job[t] = "dlopen" /\ pc[t] \in DoSteps /\ cur[t] = k
Collected(k) == \E t \in Thread : k \in work[t] \/ Does(t, k)
Leaving(k) == \E t \in Thread : Undoes(t, k)
ToUndo(k) == \E t \in Thread : Undoes(t, k) /\ pc[t] = "undo"

TaskTypes ==
  /\ made \subseteq Task /\ IsFiniteSet(made)
  /\ tasks \subseteq made /\ finished \subseteq made /\ corrupted \subseteq made
  /\ destroyed \subseteq made /\ freed \subseteq made
  /\ count \in [Task -> Int] /\ lock \in [Task -> Thread \cup {NoThread}]
  /\ work \in [Thread -> SUBSET made]
  /\ target = [k \in Task |-> target[k]]
  /\ sw \in [Addr -> SUBSET made] /\ patched \in [Addr -> BOOLEAN]

\* What is handed out is in the list, and nothing in the list was given up.
ListInv ==
  /\ stubs \subseteq tasks
  /\ queue \subseteq destroyed
  /\ tasks \cap (destroyed \cup freed) = {}

\* A task is hooked or undone by one thread at most.  The one that hooks it has it for itself until it is in the
\* list; the one that undoes it has its lock from the unhook on; and so has the one that does it in a dlopen.
JobInv(t) ==
  /\ job[t] = "hook" =>
       /\ cur[t] \in made \ (stubs \cup destroyed)
       /\ pc[t] \in {"lookup", "hook", "insert"} => cur[t] \notin tasks \cup freed \cup corrupted
       /\ pc[t] \in {"lookup", "hook"} => cur[t] \notin finished
  /\ job[t] = "undo" =>
       /\ cur[t] \in made \ (tasks \cup destroyed \cup freed)
       /\ pc[t] # "undo" => lock[cur[t]] = t
  /\ job[t] \in {"hook", "undo"} =>
       \A u \in Thread : job[u] \in {"hook", "undo"} /\ cur[u] = cur[t] => u = t
  /\ job[t] = "dlopen" /\ pc[t] \in DoSteps =>
       /\ cur[t] \in made \ (work[t] \cup freed)
       /\ lock[cur[t]] = t
       /\ cur[t] \in tasks \/ ToUndo(cur[t])
       /\ cur[t] \in finished <=> pc[t] = "callback"
  /\ job[t] \in LinkJobs /\ ~(job[t] = "dlopen" /\ pc[t] \in DoSteps) => cur[t] = NoTask

\* What the linker's callbacks have collected is in the list, or its end waits for them to let go.
WorkInv(t) ==
  /\ work[t] # {} =>
       \/ job[t] = "dlopen" /\ pc[t] \in DoSteps \cup {"pending"}
       \/ job[t] = "dlclose" /\ pc[t] = "reset"
  /\ \A k \in work[t] :
       /\ k \in tasks \/ Leaving(k) \/ k \in destroyed
       /\ k \notin freed
       /\ job[t] = "dlopen" => k \notin finished
       /\ job[t] = "dlclose" => k \in finished /\ target[k] = on[t]

\* A count for the linker's callbacks and one for whoever undoes the task.
CountInv == \A k \in Task : count[k] = (IF Collected(k) THEN 1 ELSE 0) + (IF Leaving(k) THEN 1 ELSE 0)

OwnInv == TaskTypes /\ ListInv /\ (\A t \in Thread : JobInv(t) /\ WorkInv(t)) /\ CountInv

\* The set that sh_tasks_unfinished_cnt counts, see CountExact.
Calling(k) == \E t \in Thread : pc[t] = "callback" /\ cur[t] = k
Unfinished(k) == Calling(k) \/ (k \notin finished /\ (k \in tasks \/ ToUndo(k)))
UnfinishedInv == cnt = Cardinality({k \in made : Unfinished(k)})

\* The library in a thread's dlopen or dlclose; from the destructors on it is "closing".
Closed(s, j) == j = "dlclose" /\ s \in {"sweep", "fini_post", "reset", "post", "in post", "leave"}
PlaceInv ==
  /\ loc \in [Lib -> Addr \cup {NoAddr}] /\ phase \in [Lib -> {"out", "new", "in", "closing"}]
  /\ on \in [Thread -> Addr \cup {NoAddr}]
  /\ \A l \in Lib : loc[l] = NoAddr <=> phase[l] = "out"
  /\ \A l, m \in Lib : loc[l] = loc[m] /\ loc[l] # NoAddr => l = m
  /\ \A t \in Thread : job[t] \in LinkJobs =>
       \E l \in Lib : loc[l] = on[t] /\ phase[l] # "out" /\ (Closed(pc[t], job[t]) => phase[l] = "closing")

\* A proxy at a patched address is that of a task which remembers the address and is not undone yet; but for an
\* address whose library is closed and was swept already, where a late hook may leave what nobody will remove, and
\* for the proxies whose unhooks failed.
\* A task is not corrupted before it was done.
DoneSteps == {"record", "dladdr", "finish"}
Done(k) == k \in finished \/ \E t \in Thread : Does(t, k) /\ pc[t] \in DoneSteps
Own(k, a) ==
  /\ target[k] = a /\ k \notin destroyed \cup corrupted
  /\ \A t \in Thread : Undoes(t, k) => pc[t] = "undo"
  /\ Done(k)
HookInv ==
  /\ DOMAIN residue = Addr
  /\ \A k \in corrupted : Done(k)
  /\ \A a \in Addr : patched[a] =>
       \/ \A k \in sw[a] : Own(k, a) \/ k \in residue[a]
       \/ \E t \in Thread : Closed(pc[t], job[t]) /\ on[t] = a

TaskInv == OwnInv /\ UnfinishedInv /\ PlaceInv /\ HookInv

-----------------------------------------------------------------------------
(* Steps that leave the tasks alone.                                       *)

TaskAt(s, j) == j \in {"hook", "undo"} \/ (j = "dlopen" /\ s \in DoSteps)

LEMMA OneCollects ==
  ASSUME CallInv, OwnInv, NEW t \in Thread, job[t] \in LinkJobs
  PROVE  \A u \in Thread \ {t} : job[u] \notin LinkJobs /\ work[u] = {} /\ \A k : ~Does(u, k)
BY AloneInLinker DEF OwnInv, WorkInv, Does, LinkJobs

LEMMA QuietOwn ==
  ASSUME CallInv', OwnInv, NEW t \in Thread, Moves(t), work[t] = {},
         UNCHANGED <<taskVars, refVars, stubs, sw, work>>, patched' \in [Addr -> BOOLEAN],
         ~TaskAt(pc[t], job[t]), ~TaskAt(pc'[t], job'[t]),
         job'[t] \in LinkJobs => cur'[t] = NoTask,
         \A u \in Thread \ {t} : on'[u] = on[u]
  PROVE  OwnInv'
<1>1. UNCHANGED <<made, tasks, finished, corrupted, destroyed, target, count, lock, queue, freed, stubs, sw, work>>
  BY DEF taskVars, refVars
<1>2. \A u \in Thread \ {t} : pc'[u] = pc[u] /\ job'[u] = job[u] /\ cur'[u] = cur[u] /\ on'[u] = on[u]
  BY DEF Moves
<1>3. \A k : (Leaving(k) <=> Leaving(k)') /\ (ToUndo(k) <=> ToUndo(k)')
  BY <1>2 DEF Leaving, ToUndo, Undoes, TaskAt
<1>4. \A k : Collected(k) <=> Collected(k)'
  BY <1>1, <1>2 DEF Collected, Does, TaskAt
<1>5. TaskTypes' /\ ListInv'
  BY <1>1 DEF OwnInv, TaskTypes, ListInv
<1>6. CountInv'
  BY <1>1, <1>3, <1>4 DEF OwnInv, CountInv
<1>7. ASSUME NEW u \in Thread PROVE JobInv(u)'
  <2>1. CASE u = t
    BY <2>1 DEF JobInv, TaskAt
  <2>2. CASE u # t
    <3>1. JobInv(u)
      BY DEF OwnInv
    <3> QED
      BY <1>1, <1>2, <1>3, <2>2, <3>1 DEF JobInv, TaskAt
  <2> QED
    BY <2>1, <2>2
<1>8. ASSUME NEW u \in Thread PROVE WorkInv(u)'
  <2>1. CASE u = t
    BY <1>1, <2>1 DEF WorkInv
  <2>2. CASE u # t
    <3>1. WorkInv(u)
      BY DEF OwnInv
    <3> QED
      BY <1>1, <1>2, <1>3, <2>2, <3>1 DEF WorkInv
  <2> QED
    BY <2>1, <2>2
<1> QED
  BY <1>5, <1>6, <1>7, <1>8 DEF OwnInv

LEMMA SameUnfinished ==
  ASSUME UnfinishedInv, UNCHANGED <<made, cnt>>, \A k \in made : Unfinished(k) <=> Unfinished(k)'
  PROVE  UnfinishedInv'
<1>1. {k \in made : Unfinished(k)} = {k \in made' : Unfinished(k)'}
  OBVIOUS
<1> QED
  BY <1>1 DEF UnfinishedInv

LEMMA QuietUnfinished ==
  ASSUME CallInv, CallInv', UnfinishedInv, NEW t \in Thread, Moves(t), UNCHANGED taskVars,
         ~TaskAt(pc[t], job[t]), ~TaskAt(pc'[t], job'[t])
  PROVE  UnfinishedInv'
<1>1. UNCHANGED <<made, tasks, finished, cnt>>
  BY DEF taskVars
<1>2. \A u \in Thread \ {t} : pc'[u] = pc[u] /\ job'[u] = job[u] /\ cur'[u] = cur[u]
  BY DEF Moves
<1>3. \A k : ToUndo(k) <=> ToUndo(k)'
  BY <1>2 DEF ToUndo, Undoes, TaskAt
<1>4. pc[t] # "callback" /\ pc'[t] # "callback"
  BY DEF CallInv, Sound, JobAt, CtorSteps, TaskAt, DoSteps
<1>5. \A k : Calling(k) <=> Calling(k)'
  BY <1>2, <1>4 DEF Calling
<1> QED
  BY <1>1, <1>3, <1>5, SameUnfinished DEF Unfinished

\* What a step does to the roles of one task that it does not hook, undo or reset.
LEMMA OwnStays ==
  ASSUME NEW t \in Thread, Moves(t), NEW k, k \in finished => k \in finished',
         (Undoes(t, k)' /\ pc'[t] # "undo") => (Undoes(t, k) /\ pc[t] # "undo"),
         (Does(t, k) /\ pc[t] \in DoneSteps) => (Does(t, k)' /\ pc'[t] \in DoneSteps) \/ k \in finished'
  PROVE  /\ Done(k) => Done(k)'
         /\ \A a : Own(k, a) /\ target'[k] = target[k] /\ k \notin destroyed' \cup corrupted' => Own(k, a)'
<1>1. \A u \in Thread \ {t} : pc'[u] = pc[u] /\ (Undoes(u, k)' <=> Undoes(u, k)) /\ (Does(u, k)' <=> Does(u, k))
  BY DEF Moves, Undoes, Does
<1>2. Done(k) => Done(k)'
  BY <1>1 DEF Done
<1>3. ASSUME NEW a, Own(k, a) PROVE \A u \in Thread : Undoes(u, k)' => pc'[u] = "undo"
  BY <1>1, <1>3 DEF Own
<1> QED
  BY <1>2, <1>3 DEF Own

\* What is left to show of a step that moves no library.
LEMMA HooksFrom ==
  ASSUME HookInv, NEW t \in Thread, Moves(t), \A u \in Thread \ {t} : on'[u] = on[u],
         Closed(pc[t], job[t]) => Closed(pc'[t], job'[t]) /\ on'[t] = on[t],
         \A k \in corrupted' : Done(k)',
         DOMAIN residue' = DOMAIN residue, \A a \in Addr : residue[a] \subseteq residue'[a],
         \A a \in Addr : \A k \in sw'[a] :
           patched'[a] /\ (patched[a] /\ k \in sw[a] => Own(k, a)) =>
             Own(k, a)' \/ k \in residue'[a] \/ (Closed(pc[t], job[t]) /\ on[t] = a)
  PROVE  HookInv'
<1>1. ASSUME NEW u \in Thread, Closed(pc[u], job[u]) PROVE Closed(pc'[u], job'[u]) /\ on'[u] = on[u]
  BY <1>1 DEF Moves
<1>2. ASSUME NEW a \in Addr, patched'[a], \A u \in Thread : ~(Closed(pc'[u], job'[u]) /\ on'[u] = a), NEW k \in sw'[a],
             k \notin residue'[a]
      PROVE  Own(k, a)'
  <2>1. \A u \in Thread : ~(Closed(pc[u], job[u]) /\ on[u] = a)
    BY <1>1, <1>2
  <2>2. patched[a] /\ k \in sw[a] => Own(k, a)
    BY <1>2, <2>1 DEF HookInv
  <2> QED
    BY <1>2, <2>1, <2>2
<1> QED
  BY <1>2 DEF HookInv

\* A step that changes no proxy, no task and not what a thread does with a task.
LEMMA QuietHooks ==
  ASSUME HookInv, NEW t \in Thread, Moves(t), UNCHANGED <<finished, corrupted, destroyed, target, sw, residue>>,
         \A a \in Addr : patched'[a] => patched[a],
         \A k : (Undoes(t, k)' /\ pc'[t] # "undo") => (Undoes(t, k) /\ pc[t] # "undo"),
         \A k : (Does(t, k) /\ pc[t] \in DoneSteps) => (Does(t, k)' /\ pc'[t] \in DoneSteps),
         \A u \in Thread \ {t} : on'[u] = on[u],
         Closed(pc[t], job[t]) => Closed(pc'[t], job'[t]) /\ on'[t] = on[t]
  PROVE  HookInv'
<1>1. \A k : (Done(k) => Done(k)') /\ \A a : Own(k, a) => Own(k, a)'
  BY OwnStays DEF Own
<1>2. \A k \in corrupted' : Done(k)'
  BY <1>1 DEF HookInv
<1> QED
  BY <1>1, <1>2, HooksFrom

\* A step that changes no library's place.
LEMMA QuietPlace ==
  ASSUME PlaceInv, NEW t \in Thread, Moves(t), UNCHANGED <<loc, phase, on>>,
         job'[t] \in LinkJobs => job[t] \in LinkJobs,
         Closed(pc'[t], job'[t]) => Closed(pc[t], job[t])
  PROVE  PlaceInv'
BY DEF PlaceInv, Moves

\* A step of the linker's part: the thread has no task before it and none after it.
Elsewhere(t) ==
  /\ Moves(t)
  /\ ~TaskAt(pc[t], job[t]) /\ ~TaskAt(pc'[t], job'[t])
  /\ job'[t] \in LinkJobs => cur'[t] = NoTask
  /\ \A u \in Thread \ {t} : on'[u] = on[u]

\* The steps at which a thread has none.
LinkSteps == {"idle", "register", "unregister"} \cup InitSteps \cup WalkSteps
             \cup {"enter_ctors", "ctors", "init_pre", "enter_dtors", "dtors", "sweep"}

LEMMA NoTaskAtLinkSteps ==
  ASSUME CallInv, NEW t \in Thread, pc[t] \in LinkSteps \cup {"pending", "reset"}
  PROVE  ~TaskAt(pc[t], job[t])
BY DEF CallInv, Sound, JobAt, TaskAt, LinkSteps, InitSteps, CtorSteps, DtorSteps, WalkSteps, DoSteps, LinkJobs

LEMMA NoWorkAtLinkSteps ==
  ASSUME OwnInv, NEW t \in Thread, pc[t] \in LinkSteps
  PROVE  work[t] = {}
BY DEF OwnInv, WorkInv, LinkSteps, InitSteps, WalkSteps, DoSteps

LEMMA GotoElsewhere ==
  ASSUME CallInv, CallInv', OwnInv, NEW t \in Thread, pc[t] \in LinkSteps \cup {"pending", "reset"},
         NEW s \in LinkSteps, Goto(t, s), UNCHANGED <<job, cur, on>>
  PROVE  Elsewhere(t) /\ pc'[t] = s /\ job'[t] = job[t]
<1>1. s \in Steps
  BY DEF LinkSteps, Steps, CtorSteps, DtorSteps, WalkSteps
<1>2. Moves(t) /\ pc'[t] = s /\ job'[t] = job[t] /\ cur'[t] = cur[t]
  BY <1>1, GotoMoves DEF CallInv
<1>3. ~TaskAt(pc[t], job[t])
  BY NoTaskAtLinkSteps
<1>4. ~TaskAt(pc'[t], job'[t])
  BY <1>2, <1>3 DEF TaskAt, LinkSteps, InitSteps, WalkSteps, DoSteps
<1>5. job[t] \in LinkJobs => cur[t] = NoTask
  BY <1>3 DEF OwnInv, JobInv, TaskAt
<1> QED
  BY <1>2, <1>3, <1>4, <1>5 DEF Elsewhere

LEMMA ReturnElsewhere ==
  ASSUME CallInv, NEW t \in Thread, pc[t] \in LinkSteps, Return(t), \A u \in Thread \ {t} : on'[u] = on[u]
  PROVE  Elsewhere(t) /\ pc'[t] = "idle" /\ job'[t] = "none"
<1>1. Moves(t) /\ pc'[t] = "idle" /\ job'[t] = "none"
  BY ReturnMoves DEF CallInv
<1>2. ~TaskAt(pc[t], job[t])
  BY NoTaskAtLinkSteps
<1> QED
  BY <1>1, <1>2 DEF Elsewhere, TaskAt, LinkJobs

LEMMA StartElsewhere ==
  ASSUME CallInv, NEW t \in Thread, NEW j \in Jobs \ {"hook", "undo"}, NEW k, NEW s \in LinkSteps, Start(t, j, k, s),
         j \in LinkJobs => k = NoTask, \A u \in Thread \ {t} : on'[u] = on[u]
  PROVE  Elsewhere(t) /\ pc'[t] = s /\ job'[t] = j /\ pc[t] = "idle"
<1>1. s \in Steps
  BY DEF LinkSteps, Steps, CtorSteps, DtorSteps, WalkSteps
<1>2. Moves(t) /\ pc'[t] = s /\ job'[t] = j /\ cur'[t] = k /\ pc[t] = "idle"
  BY <1>1, StartMoves DEF CallInv
<1>3. ~TaskAt(pc[t], job[t])
  BY <1>2, NoTaskAtLinkSteps DEF LinkSteps
<1>4. ~TaskAt(pc'[t], job'[t])
  BY <1>2 DEF TaskAt, LinkSteps, InitSteps, WalkSteps, DoSteps
<1> QED
  BY <1>2, <1>3, <1>4 DEF Elsewhere

LEMMA InitReturnsElsewhere ==
  ASSUME CallInv, CallInv', OwnInv, NEW t \in Thread, pc[t] \in InitSteps, InitReturns(t), UNCHANGED on
  PROVE  /\ Elsewhere(t) /\ pc'[t] \in {"idle", "ctors"}
         /\ job'[t] \in {"none", job[t]}
<1>1. CASE job[t] = "init"
  BY <1>1, ReturnElsewhere DEF InitReturns, LinkSteps
<1>2. CASE job[t] # "init"
  BY <1>2, GotoElsewhere DEF InitReturns, LinkSteps
<1> QED
  BY <1>1, <1>2

\* Such a step keeps what is known of the tasks, but for the end of a mapping.
LEMMA ElsewhereKeeps ==
  ASSUME CallInv, CallInv', OwnInv, UnfinishedInv, NEW t \in Thread, Elsewhere(t), work[t] = {},
         UNCHANGED <<taskVars, refVars, stubs, sw, work>>, patched' \in [Addr -> BOOLEAN]
  PROVE  OwnInv' /\ UnfinishedInv'
BY QuietOwn, QuietUnfinished DEF Elsewhere

LEMMA ElsewhereHooks ==
  ASSUME HookInv, NEW t \in Thread, Elsewhere(t), UNCHANGED ownVars,
         Closed(pc[t], job[t]) => Closed(pc'[t], job'[t]) /\ on'[t] = on[t]
  PROVE  HookInv'
<1>1. UNCHANGED <<finished, corrupted, destroyed, target, swVars>>
  BY DEF ownVars, taskVars
<1>2. \A k : ~Undoes(t, k)' /\ ~Does(t, k)
  BY DEF Elsewhere, TaskAt, Undoes, Does
<1> QED
  BY <1>1, <1>2, QuietHooks DEF Elsewhere, swVars

-----------------------------------------------------------------------------
(* The linker's steps are such steps.                                      *)

LinkerStepOf(t) ==
  /\ Elsewhere(t) /\ work[t] = {}
  /\ Closed(pc[t], job[t]) => Closed(pc'[t], job'[t]) /\ on'[t] = on[t]

LEMMA SamePlace ==
  ASSUME PlaceInv, NEW t \in Thread, Elsewhere(t), UNCHANGED <<loc, phase, on>>,
         job'[t] \in LinkJobs => job[t] \in LinkJobs,
         Closed(pc'[t], job'[t]) => Closed(pc[t], job[t])
  PROVE  PlaceInv'
BY QuietPlace DEF Elsewhere

\* A step that goes elsewhere in the same call.
LEMMA SameCallStep ==
  ASSUME CallInv, CallInv', OwnInv, PlaceInv, NEW t \in Thread,
         pc[t] \in LinkSteps \/ (pc[t] \in {"pending", "reset"} /\ work[t] = {}),
         NEW s \in LinkSteps, Goto(t, s), UNCHANGED <<job, cur, on, loc, phase>>,
         Closed(s, job[t]) <=> Closed(pc[t], job[t])
  PROVE  LinkerStepOf(t) /\ PlaceInv'
<1>1. Elsewhere(t) /\ pc'[t] = s /\ job'[t] = job[t]
  BY GotoElsewhere
<1>2. work[t] = {}
  BY NoWorkAtLinkSteps
<1> QED
  BY <1>1, <1>2, SamePlace DEF LinkerStepOf

InitAction(t) ==
  \/ InitBegins(t) \/ HookCtors(t) \/ HookDtors(t) \/ ScanBegins(t) \/ ScanNothing(t)
  \/ ScanEnds(t) \/ InitEnds(t) \/ TaskInitInit(t) \/ TaskInitFini(t)

\* A step of initialisation goes on with it or ends it.
LEMMA InitGoes ==
  ASSUME NEW t \in Thread, InitAction(t)
  PROVE  /\ pc[t] \in InitSteps /\ UNCHANGED <<on, loc, phase, dl, reader, rest, did, told, steady, plan, disabled>>
         /\ \/ InitReturns(t)
            \/ (\E s \in InitSteps : Goto(t, s)) /\ cur' = cur /\ job' = job
<1>1. pc[t] \in InitSteps /\ UNCHANGED <<on, loc, phase, dl, reader, rest, did, told, steady, plan, disabled>>
  BY DEF InitAction, InitBegins, HookCtors, HookDtors, HookLinker, ScanBegins, ScanNothing, ScanEnds, InitEnds, At,
         TaskInitInit, TaskInitFini, TaskInit, InitSteps, libVars, cbVars
<1>2. \/ InitReturns(t)
      \/ (\E s \in InitSteps : Goto(t, s)) /\ cur' = cur /\ job' = job
  <2> USE DEF InitSteps
  <2>1. CASE InitBegins(t)
    BY <2>1 DEF InitBegins
  <2>2. CASE HookCtors(t) \/ HookDtors(t)
    BY <2>2 DEF HookCtors, HookDtors, HookLinker, InitFails
  <2>3. CASE ScanBegins(t)
    BY <2>3 DEF ScanBegins
  <2>4. CASE ScanNothing(t)
    BY <2>4 DEF ScanNothing
  <2>5. CASE ScanEnds(t)
    BY <2>5 DEF ScanEnds, InitFails
  <2>6. CASE InitEnds(t)
    BY <2>6 DEF InitEnds
  <2>7. CASE TaskInitInit(t) \/ TaskInitFini(t)
    BY <2>7 DEF TaskInitInit, TaskInitFini, TaskInit, InitFails
  <2> QED
    BY <2>1, <2>2, <2>3, <2>4, <2>5, <2>6, <2>7 DEF InitAction
<1> QED
  BY <1>1, <1>2

LEMMA InitStep ==
  ASSUME CallInv, CallInv', OwnInv, PlaceInv, NEW t \in Thread, InitAction(t)
  PROVE  LinkerStepOf(t) /\ PlaceInv'
<1>1. pc[t] \in InitSteps /\ UNCHANGED <<on, loc, phase>>
  BY InitGoes
<1>2. \/ InitReturns(t)
      \/ (\E s \in InitSteps : Goto(t, s)) /\ cur' = cur /\ job' = job
  BY InitGoes
<1>3. InitSteps \subseteq LinkSteps /\ \A s \in InitSteps : \A j : ~Closed(s, j)
  BY DEF LinkSteps, InitSteps, Closed
<1>4. CASE InitReturns(t)
  <2>1. Elsewhere(t) /\ pc'[t] \in {"idle", "ctors"} /\ job'[t] \in {"none", job[t]}
    BY <1>1, <1>4, InitReturnsElsewhere
  <2>2. work[t] = {}
    BY <1>1, <1>3, NoWorkAtLinkSteps
  <2>3. PlaceInv'
    BY <1>1, <2>1, SamePlace DEF LinkJobs, Closed
  <2> QED
    BY <1>1, <1>3, <2>1, <2>2, <2>3 DEF LinkerStepOf
<1>5. ASSUME NEW s \in InitSteps, Goto(t, s), cur' = cur, job' = job PROVE LinkerStepOf(t) /\ PlaceInv'
  BY <1>1, <1>3, <1>5, SameCallStep
<1> QED
  BY <1>2, <1>4, <1>5

LEMMA CallInitStep ==
  ASSUME CallInv, CallInv', OwnInv, PlaceInv, NEW t \in Thread, CallInit(t)
  PROVE  LinkerStepOf(t) /\ PlaceInv'
<1>1. UNCHANGED <<on, loc, phase>>
  BY DEF CallInit, linkVars, libVars
<1>2. CASE Start(t, "init", NoTask, "init_lock")
  <2>1. "init" \in Jobs \ {"hook", "undo"} /\ "init_lock" \in LinkSteps /\ "idle" \in LinkSteps
    BY DEF Jobs, LinkSteps, InitSteps
  <2>2. Elsewhere(t) /\ pc'[t] = "init_lock" /\ job'[t] = "init" /\ pc[t] = "idle"
    BY <1>1, <1>2, <2>1, StartElsewhere DEF LinkJobs
  <2>3. work[t] = {}
    BY <2>1, <2>2, NoWorkAtLinkSteps
  <2>4. PlaceInv'
    BY <1>1, <2>2, SamePlace DEF LinkJobs, Closed
  <2> QED
    BY <2>2, <2>3, <2>4 DEF LinkerStepOf, Closed
<1>3. CASE At(t, "ctors") /\ Goto(t, "init_lock") /\ UNCHANGED <<job, cur>>
  <2>1. "ctors" \in LinkSteps /\ "init_lock" \in LinkSteps
    BY DEF LinkSteps, InitSteps
  <2> QED
    BY <1>1, <1>3, <2>1, SameCallStep DEF At, Closed
<1> QED
  BY <1>2, <1>3 DEF CallInit

LEMMA RegisterSteps ==
  ASSUME CallInv, CallInv', OwnInv, PlaceInv, NEW t \in Thread,
         \/ \E u \in Cb, x \in {"init", "fini"}, act \in {"register", "unregister"} : CallRegister(t, act, x, u)
         \/ DoRegister(t) \/ DoUnregister(t)
  PROVE  LinkerStepOf(t) /\ PlaceInv'
<1>1. UNCHANGED <<on, loc, phase>>
  BY DEF CallRegister, DoRegister, DoUnregister, linkVars, libVars
<1>2. ASSUME NEW u, NEW x, NEW act \in {"register", "unregister"}, CallRegister(t, act, x, u)
      PROVE  LinkerStepOf(t) /\ PlaceInv'
  <2>1. act \in Jobs \ {"hook", "undo"} /\ act \in LinkSteps /\ act \notin LinkJobs /\ "idle" \in LinkSteps
    BY DEF Jobs, LinkSteps, LinkJobs
  <2>2. Start(t, act, [list |-> x, cb |-> u], act)
    BY <1>2 DEF CallRegister
  <2>3. Elsewhere(t) /\ pc'[t] = act /\ job'[t] = act /\ pc[t] = "idle"
    BY <1>1, <2>1, <2>2, StartElsewhere
  <2>4. work[t] = {}
    BY <2>1, <2>3, NoWorkAtLinkSteps
  <2>5. PlaceInv'
    BY <1>1, <2>1, <2>3, SamePlace DEF Closed
  <2> QED
    BY <2>3, <2>4, <2>5 DEF LinkerStepOf, Closed
<1>3. CASE DoRegister(t) \/ DoUnregister(t)
  <2>1. pc[t] \in LinkSteps /\ pc[t] \in {"register", "unregister"} /\ Return(t)
    BY <1>3 DEF DoRegister, DoUnregister, At, LinkSteps
  <2>2. Elsewhere(t) /\ pc'[t] = "idle" /\ job'[t] = "none"
    BY <1>1, <2>1, ReturnElsewhere
  <2>3. work[t] = {}
    BY <2>1, NoWorkAtLinkSteps
  <2>4. PlaceInv'
    BY <1>1, <2>2, SamePlace DEF LinkJobs, Closed
  <2> QED
    BY <2>1, <2>2, <2>3, <2>4 DEF LinkerStepOf, Closed
<1> QED
  BY <1>2, <1>3

LEMMA WalkStep ==
  ASSUME CallInv, CallInv', OwnInv, PlaceInv, NEW t \in Thread,
         EnterCtors(t) \/ EnterDtors(t) \/ CallUser(t) \/ UserReturns(t) \/ CallTask(t) \/ EndWalk(t)
  PROVE  LinkerStepOf(t) /\ PlaceInv'
<1>1. UNCHANGED <<job, cur, on, loc, phase>>
  BY DEF EnterCtors, EnterDtors, CallUser, UserReturns, CallTask, EndWalk, libVars
<1> DEFINE before == {"enter_ctors", "enter_dtors", "pre", "in pre"}
           after == {"post", "in post"}
<1>2. ASSUME NEW s \in {"pre", "in pre", "ctors", "dtors", "init_pre"}, Goto(t, s), pc[t] \in before
      PROVE  LinkerStepOf(t) /\ PlaceInv'
  <2>1. s \in LinkSteps /\ pc[t] \in LinkSteps
    BY <1>2 DEF LinkSteps, WalkSteps
  <2>2. ~Closed(s, job[t]) /\ ~Closed(pc[t], job[t])
    BY <1>2 DEF Closed
  <2> QED
    BY <1>1, <1>2, <2>1, <2>2, SameCallStep
<1>3. ASSUME NEW s \in {"post", "in post", "leave", "sweep"}, Goto(t, s), pc[t] \in after
      PROVE  LinkerStepOf(t) /\ PlaceInv'
  <2>1. s \in LinkSteps /\ pc[t] \in LinkSteps
    BY <1>3 DEF LinkSteps, WalkSteps
  <2>2. Closed(s, job[t]) <=> Closed(pc[t], job[t])
    BY <1>3 DEF Closed
  <2> QED
    BY <1>1, <1>3, <2>1, <2>2, SameCallStep
<1>4. CASE EnterCtors(t) \/ EnterDtors(t)
  <2>1. pc[t] \in {"enter_ctors", "enter_dtors"} /\ (Goto(t, "pre") \/ Goto(t, "ctors") \/ Goto(t, "dtors"))
    BY <1>4, ZenonT(60) DEF EnterCtors, EnterDtors, At
  <2> QED
    BY <1>2, <2>1
<1>5. CASE CallUser(t)
  <2>1. \/ pc[t] = "pre" /\ Goto(t, "in pre")
        \/ pc[t] = "post" /\ Goto(t, "in post")
    BY <1>5 DEF CallUser
  <2> QED
    BY <1>2, <1>3, <2>1
<1>6. CASE UserReturns(t)
  <2>1. \/ pc[t] = "in pre" /\ Goto(t, "pre")
        \/ pc[t] = "in post" /\ Goto(t, "post")
    BY <1>6 DEF UserReturns, Passed
  <2> QED
    BY <1>2, <1>3, <2>1
<1>7. CASE CallTask(t)
  <2>1. \/ pc[t] = "pre" /\ Goto(t, "init_pre")
        \/ pc[t] = "post" /\ Goto(t, "sweep")
        \/ pc[t] = "pre" /\ Goto(t, "pre")
        \/ pc[t] = "post" /\ Goto(t, "post")
    BY <1>7 DEF CallTask, Passed
  <2> QED
    BY <1>2, <1>3, <2>1
<1>8. CASE EndWalk(t)
  <2>1. \/ pc[t] = "post" /\ Goto(t, "leave")
        \/ pc[t] = "pre" /\ (Goto(t, "ctors") \/ Goto(t, "dtors"))
    BY <1>8 DEF EndWalk
  <2> QED
    BY <1>2, <1>3, <2>1
<1> QED
  BY <1>4, <1>5, <1>6, <1>7, <1>8

LEMMA CallbackReturnsStep ==
  ASSUME CallInv, CallInv', OwnInv, PlaceInv, NEW t \in Thread, CallbackReturns(t)
  PROVE  LinkerStepOf(t) /\ PlaceInv'
<1>1. UNCHANGED <<job, cur, on, loc, phase>> /\ work[t] = {} /\ pc[t] \in {"pending", "reset"}
  BY DEF CallbackReturns, TaskReturns, libVars
<1>2. JobAt(pc[t], job[t])
  BY DEF CallInv, Sound
<1>3. \/ pc[t] = "pending" /\ job[t] = "dlopen" /\ Goto(t, "pre")
      \/ pc[t] = "reset" /\ job[t] = "dlclose" /\ Goto(t, "post")
  BY <1>1, <1>2 DEF CallbackReturns, TaskReturns, Passed, List, JobAt, CtorSteps, DtorSteps
<1>4. "pre" \in LinkSteps /\ "post" \in LinkSteps
  BY DEF LinkSteps, WalkSteps
<1> QED
  BY <1>1, <1>3, <1>4, SameCallStep DEF Closed

\* Whose library is where.
LEMMA LibAtIs ==
  ASSUME PlaceInv, NEW t \in Thread, job[t] \in LinkJobs
  PROVE  /\ LibAt(t) \in Lib /\ loc[LibAt(t)] = on[t] /\ on[t] \in Addr /\ phase[LibAt(t)] # "out"
         /\ \A l \in Lib : loc[l] = on[t] => l = LibAt(t)
         /\ Closed(pc[t], job[t]) => phase[LibAt(t)] = "closing"
<1>1. PICK l \in Lib : loc[l] = on[t] /\ phase[l] # "out" /\ (Closed(pc[t], job[t]) => phase[l] = "closing")
  BY DEF PlaceInv
<1>2. loc[l] # NoAddr /\ loc[l] \in Addr
  BY <1>1 DEF PlaceInv
<1>3. LibAt(t) \in Lib /\ loc[LibAt(t)] = on[t]
  BY <1>1 DEF LibAt
<1>4. \A m \in Lib : loc[m] = on[t] => m = l
  BY <1>1, <1>2 DEF PlaceInv
<1> QED
  BY <1>1, <1>2, <1>3, <1>4

LEMMA EnterLinkerStep ==
  ASSUME CallInv, CallInv', OwnInv, PlaceInv, NEW t \in Thread, NEW l \in Lib,
         (\E a \in Addr : Dlopen(t, l, a)) \/ Dlclose(t, l)
  PROVE  LinkerStepOf(t) /\ PlaceInv'
<1>0. /\ dl = NoThread /\ \E a : on' = [on EXCEPT ![t] = a]
      /\ Start(t, "dlopen", NoTask, "enter_ctors") \/ Start(t, "dlclose", NoTask, "enter_dtors")
  BY DEF Dlopen, Dlclose
<1>1. \A u \in Thread \ {t} : on'[u] = on[u]
  BY <1>0 DEF PlaceInv
<1>2. \A u \in Thread : job[u] \notin LinkJobs
  BY <1>0, NobodyInLinker
<1>3. /\ Elsewhere(t) /\ pc[t] = "idle"
      /\ \/ pc'[t] = "enter_ctors" /\ job'[t] = "dlopen"
         \/ pc'[t] = "enter_dtors" /\ job'[t] = "dlclose"
  BY <1>0, <1>1, StartElsewhere DEF Jobs, LinkJobs, LinkSteps
<1>4. work[t] = {}
  BY <1>3, NoWorkAtLinkSteps DEF LinkSteps
<1>5. LinkerStepOf(t)
  BY <1>3, <1>4 DEF LinkerStepOf, Closed
<1>6. \A u \in Thread \ {t} : job'[u] \notin LinkJobs
  BY <1>2, <1>3 DEF Elsewhere, Moves
<1>7. ~Closed(pc'[t], job'[t])
  BY <1>3 DEF Closed
<1>8. CASE Dlclose(t, l)
  <2>1. phase[l] = "in" /\ loc[l] \in Addr \cup {NoAddr} /\ UNCHANGED <<phase, loc>> /\ on' = [on EXCEPT ![t] = loc[l]]
    BY <1>8 DEF Dlclose, PlaceInv
  <2>2. on' \in [Thread -> Addr \cup {NoAddr}] /\ on'[t] = loc'[l] /\ phase'[l] # "out"
    BY <2>1 DEF PlaceInv
  <2> QED
    BY <1>5, <1>6, <1>7, <2>1, <2>2 DEF PlaceInv
<1>9. ASSUME NEW a \in Addr, Dlopen(t, l, a) PROVE PlaceInv'
  <2> USE DEF PlaceInv
  <2>1. loc' = [loc EXCEPT ![l] = a] /\ on' = [on EXCEPT ![t] = a]
    BY <1>9 DEF Dlopen
  <2>2. /\ loc' \in [Lib -> Addr \cup {NoAddr}] /\ loc'[l] = a /\ \A m \in Lib \ {l} : loc'[m] = loc[m]
        /\ on' \in [Thread -> Addr \cup {NoAddr}] /\ on'[t] = a
    BY <2>1
  <2>3. a # NoAddr
    BY LinkerAssumption
  <2>4. /\ phase' \in [Lib -> {"out", "new", "in", "closing"}] /\ phase'[l] # "out"
        /\ \A m \in Lib \ {l} : phase'[m] = phase[m]
        /\ \A m \in Lib \ {l} : loc[m] # a
    <3>1. CASE phase[l] = "out" /\ ~Mapped(a) /\ phase' = [phase EXCEPT ![l] = "new"]
      BY <3>1 DEF Mapped
    <3>2. CASE phase[l] = "in" /\ a = loc[l] /\ phase' = phase
      BY <3>2, <2>3
    <3> QED
      BY <1>9, <3>1, <3>2 DEF Dlopen
  <2>5. \A m \in Lib : loc'[m] = NoAddr <=> phase'[m] = "out"
    BY <2>2, <2>3, <2>4
  <2>6. \A m, n \in Lib : loc'[m] = loc'[n] /\ loc'[m] # NoAddr => m = n
    BY <2>2, <2>4
  <2>7. \A u \in Thread : job'[u] \in LinkJobs => u = t
    BY <1>6
  <2> QED
    BY <1>7, <2>2, <2>4, <2>5, <2>6, <2>7
<1> QED
  BY <1>5, <1>8, <1>9

LEMMA LoadFailsStep ==
  ASSUME CallInv, CallInv', OwnInv, PlaceInv, NEW t \in Thread, LoadFails(t)
  PROVE  LinkerStepOf(t) /\ PlaceInv'
<1>1. /\ pc[t] = "enter_ctors" /\ Goto(t, "enter_dtors") /\ job' = [job EXCEPT ![t] = "dlclose"]
      /\ UNCHANGED <<cur, on, loc, phase>>
  BY DEF LoadFails, At, linkVars, libVars
<1>2. job[t] = "dlopen"
  BY <1>1 DEF CallInv, Sound, JobAt, CtorSteps
<1>3. Moves(t) /\ pc'[t] = "enter_dtors" /\ job'[t] = "dlclose" /\ cur'[t] = cur[t]
  BY <1>1 DEF CallInv, CallTypes, Goto, Moves, Steps, DtorSteps, Jobs, LinkJobs
<1>4. ~TaskAt(pc[t], job[t]) /\ ~TaskAt(pc'[t], job'[t])
  BY <1>1, <1>2, <1>3 DEF TaskAt, DoSteps
<1>5. cur[t] = NoTask
  BY <1>2, <1>4 DEF OwnInv, JobInv, LinkJobs, TaskAt
<1>6. Elsewhere(t)
  BY <1>1, <1>3, <1>4, <1>5 DEF Elsewhere
<1>7. work[t] = {}
  BY <1>1, NoWorkAtLinkSteps DEF LinkSteps
<1>8. PlaceInv'
  BY <1>1, <1>2, <1>3, <1>6, SamePlace DEF Closed, LinkJobs
<1> QED
  BY <1>1, <1>6, <1>7, <1>8 DEF LinkerStepOf, Closed

LEMMA OriginalStep ==
  ASSUME CallInv, CallInv', OwnInv, PlaceInv, NEW t \in Thread, Constructors(t) \/ Destructors(t)
  PROVE  LinkerStepOf(t) /\ PlaceInv'
<1>1. /\ UNCHANGED <<job, cur, on, loc>> /\ pc[t] \in {"ctors", "dtors"}
      /\ \/ pc[t] = "ctors" /\ phase' = [phase EXCEPT ![LibAt(t)] = "in"]
         \/ pc[t] = "dtors" /\ phase' = [phase EXCEPT ![LibAt(t)] = "closing"]
      /\ Goto(t, "post") \/ Goto(t, "leave")
  BY DEF Constructors, Destructors, Original, At
<1>2. JobAt(pc[t], job[t])
  BY DEF CallInv, Sound
<1>3. \/ pc[t] = "ctors" /\ job[t] = "dlopen"
      \/ pc[t] = "dtors" /\ job[t] = "dlclose"
  BY <1>1, <1>2 DEF JobAt, CtorSteps, DtorSteps
<1>4. pc[t] \in LinkSteps /\ "post" \in LinkSteps /\ "leave" \in LinkSteps
  BY <1>1 DEF LinkSteps, WalkSteps
<1>5. Elsewhere(t) /\ pc'[t] \in {"post", "leave"} /\ job'[t] = job[t]
  BY <1>1, <1>4, GotoElsewhere
<1>6. work[t] = {}
  BY <1>4, NoWorkAtLinkSteps
<1>7. LinkerStepOf(t)
  BY <1>3, <1>5, <1>6 DEF LinkerStepOf, Closed
<1> DEFINE l == LibAt(t)
<1>8. job[t] \in LinkJobs
  BY <1>3 DEF LinkJobs
<1>9. l \in Lib /\ loc[l] = on[t] /\ on[t] \in Addr /\ phase[l] # "out"
  BY <1>8, LibAtIs
<1>10. PICK p \in {"in", "closing"} : phase' = [phase EXCEPT ![l] = p] /\ (job[t] = "dlclose" => p = "closing")
  BY <1>1, <1>3
<1> HIDE DEF l
<1>11. /\ phase' \in [Lib -> {"out", "new", "in", "closing"}] /\ phase'[l] = p
       /\ \A m \in Lib \ {l} : phase'[m] = phase[m]
  BY <1>9, <1>10 DEF PlaceInv
<1>12. \A u \in Thread \ {t} : job'[u] \notin LinkJobs
  BY <1>5, <1>8, AloneInLinker DEF Elsewhere, Moves
<1>13. \A m \in Lib : loc'[m] = NoAddr <=> phase'[m] = "out"
  BY <1>1, <1>9, <1>11, LinkerAssumption DEF PlaceInv
<1>14. \A u \in Thread : job'[u] \in LinkJobs =>
         loc'[l] = on'[u] /\ phase'[l] # "out" /\ (Closed(pc'[u], job'[u]) => phase'[l] = "closing")
  BY <1>1, <1>5, <1>9, <1>10, <1>11, <1>12 DEF Closed
<1>15. PlaceInv'
  BY <1>1, <1>9, <1>11, <1>13, <1>14 DEF PlaceInv
<1> QED
  BY <1>7, <1>15

LEMMA LeaveDlopenStep ==
  ASSUME CallInv, CallInv', OwnInv, PlaceInv, NEW t \in Thread, LeaveDlopen(t)
  PROVE  LinkerStepOf(t) /\ PlaceInv'
<1>1. /\ pc[t] = "leave" /\ job[t] = "dlopen" /\ UNCHANGED <<loc, phase>> /\ on' = [on EXCEPT ![t] = NoAddr]
      /\ Return(t)
  BY DEF LeaveDlopen, At
<1>2. pc[t] \in LinkSteps /\ job[t] \in LinkJobs
  BY <1>1 DEF LinkSteps, WalkSteps, LinkJobs
<1>3. on' \in [Thread -> Addr \cup {NoAddr}] /\ \A u \in Thread \ {t} : on'[u] = on[u]
  BY <1>1 DEF PlaceInv
<1>4. Elsewhere(t) /\ pc'[t] = "idle" /\ job'[t] = "none"
  BY <1>1, <1>2, <1>3, ReturnElsewhere
<1>5. work[t] = {}
  BY <1>2, NoWorkAtLinkSteps
<1>6. \A u \in Thread : job'[u] \notin LinkJobs
  BY <1>2, <1>4, AloneInLinker DEF Elsewhere, Moves, LinkJobs
<1>7. PlaceInv'
  BY <1>1, <1>3, <1>6 DEF PlaceInv
<1> QED
  BY <1>1, <1>4, <1>5, <1>7 DEF LinkerStepOf, Closed

\* The end of a mapping: what was written into its code is gone.
LEMMA UnmapKeeps ==
  ASSUME CallInv, CallInv', TaskInv, NEW t \in Thread, Unmap(t)
  PROVE  TaskInv'
<1>1. /\ pc[t] = "leave" /\ job[t] = "dlclose" /\ on' = [on EXCEPT ![t] = NoAddr] /\ Return(t)
      /\ phase' = [phase EXCEPT ![LibAt(t)] = "out"] /\ loc' = [loc EXCEPT ![LibAt(t)] = NoAddr]
      /\ patched' = [patched EXCEPT ![on[t]] = FALSE] /\ residue' = [residue EXCEPT ![on[t]] = {}]
      /\ UNCHANGED <<taskVars, refVars, stubs, sw, work>>
  BY DEF Unmap, LeaveDlclose, At
<1>2. pc[t] \in LinkSteps /\ job[t] \in LinkJobs
  BY <1>1 DEF LinkSteps, WalkSteps, LinkJobs
<1>3. on' \in [Thread -> Addr \cup {NoAddr}] /\ \A u \in Thread \ {t} : on'[u] = on[u]
  BY <1>1 DEF TaskInv, PlaceInv
<1>4. Elsewhere(t) /\ pc'[t] = "idle" /\ job'[t] = "none"
  BY <1>1, <1>2, <1>3, ReturnElsewhere
<1>5. work[t] = {}
  BY <1>2, NoWorkAtLinkSteps DEF TaskInv
<1>6. patched' \in [Addr -> BOOLEAN] /\ \A a \in Addr : patched'[a] => patched[a] /\ a # on[t]
  BY <1>1 DEF TaskInv, OwnInv, TaskTypes
<1>7. OwnInv' /\ UnfinishedInv'
  BY <1>1, <1>4, <1>5, <1>6, ElsewhereKeeps DEF TaskInv
<1>8. \A u \in Thread \ {t} : job[u] \notin LinkJobs /\ job'[u] \notin LinkJobs
  BY <1>2, <1>4, AloneInLinker DEF Elsewhere, Moves
<1>9. PlaceInv'
  <2> DEFINE l == LibAt(t)
  <2>1. l \in Lib /\ loc' = [loc EXCEPT ![l] = NoAddr] /\ phase' = [phase EXCEPT ![l] = "out"]
    BY <1>1, <1>2, LibAtIs DEF TaskInv
  <2> HIDE DEF l
  <2>2. /\ loc' \in [Lib -> Addr \cup {NoAddr}] /\ phase' \in [Lib -> {"out", "new", "in", "closing"}]
        /\ loc'[l] = NoAddr /\ phase'[l] = "out"
        /\ \A m \in Lib \ {l} : loc'[m] = loc[m] /\ phase'[m] = phase[m]
    BY <2>1 DEF TaskInv, PlaceInv
  <2>3. \A u \in Thread : job'[u] \notin LinkJobs
    BY <1>4, <1>8 DEF LinkJobs
  <2> QED
    BY <1>3, <2>2, <2>3 DEF TaskInv, PlaceInv
<1>10. HookInv'
  <2>1. UNCHANGED <<finished, corrupted, destroyed, target, sw>>
    BY <1>1 DEF taskVars
  <2>2. \A k : ~Undoes(t, k)' /\ ~Does(t, k)
    BY <1>4 DEF Elsewhere, TaskAt, Undoes, Does
  <2>3. \A k : (Done(k) => Done(k)') /\ \A a : Own(k, a) => Own(k, a)'
    BY <1>4, <2>1, <2>2, OwnStays DEF Elsewhere, Own
  <2>4. ASSUME NEW a \in Addr, patched'[a] PROVE \A k \in sw'[a] : Own(k, a)' \/ k \in residue'[a]
    <3>1. \A u \in Thread : ~(Closed(pc[u], job[u]) /\ on[u] = a)
      BY <1>6, <1>8, <2>4 DEF Closed, LinkJobs
    <3>2. \A k \in sw[a] : Own(k, a) \/ k \in residue[a]
      BY <1>6, <2>4, <3>1 DEF TaskInv, HookInv
    <3>3. residue'[a] = residue[a]
      BY <1>1, <1>6, <2>4 DEF TaskInv, HookInv
    <3> QED
      BY <2>1, <2>3, <3>2, <3>3
  <2>5. \A k \in corrupted' : Done(k)'
    BY <2>1, <2>3 DEF TaskInv, HookInv
  <2>6. DOMAIN residue' = Addr
    BY <1>1 DEF TaskInv, HookInv
  <2> QED
    BY <2>4, <2>5, <2>6 DEF HookInv
<1> QED
  BY <1>7, <1>9, <1>10 DEF TaskInv

\* A step of the linker's part that leaves the tasks' state alone keeps all.
LEMMA LinkerStepKeeps ==
  ASSUME CallInv, CallInv', TaskInv, NEW t \in Thread, LinkerStepOf(t), PlaceInv', UNCHANGED ownVars
  PROVE  TaskInv'
<1>1. UNCHANGED <<taskVars, refVars, stubs, sw, patched, work>>
  BY DEF ownVars, swVars
<1>2. patched' \in [Addr -> BOOLEAN]
  BY <1>1 DEF TaskInv, OwnInv, TaskTypes
<1> QED
  BY <1>1, <1>2, ElsewhereKeeps, ElsewhereHooks DEF LinkerStepOf, TaskInv

-----------------------------------------------------------------------------
(* The steps of tasks.                                                     *)

\* What the other threads do with tasks.
LEMMA OthersStay ==
  ASSUME NEW t \in Thread, Moves(t), NEW u \in Thread \ {t}
  PROVE  /\ pc'[u] = pc[u] /\ job'[u] = job[u] /\ cur'[u] = cur[u]
         /\ \A k : (Undoes(u, k)' <=> Undoes(u, k)) /\ (Does(u, k)' <=> Does(u, k))
BY DEF Moves, Undoes, Does

\* A step that does not change what t does with a task.
LEMMA SameRoles ==
  ASSUME NEW t \in Thread, Moves(t), UNCHANGED work,
         \A k : (Undoes(t, k)' <=> Undoes(t, k)) /\ (Does(t, k)' <=> Does(t, k)),
         \A k : Undoes(t, k) => ((pc'[t] = "undo") <=> (pc[t] = "undo"))
  PROVE  \A k : (Leaving(k)' <=> Leaving(k)) /\ (ToUndo(k)' <=> ToUndo(k)) /\ (Collected(k)' <=> Collected(k))
<1>1. \A u \in Thread : \A k : (Undoes(u, k)' <=> Undoes(u, k)) /\ (Does(u, k)' <=> Does(u, k))
  BY OthersStay
<1>2. \A u \in Thread : \A k : (Undoes(u, k) /\ pc[u] = "undo") <=> (Undoes(u, k)' /\ pc'[u] = "undo")
  BY <1>1, OthersStay
<1>3. ASSUME NEW k PROVE Leaving(k)' <=> Leaving(k)
  BY <1>1 DEF Leaving
<1>4. ASSUME NEW k PROVE ToUndo(k)' <=> ToUndo(k)
  BY <1>2 DEF ToUndo
<1>5. ASSUME NEW k PROVE Collected(k)' <=> Collected(k)
  BY <1>1 DEF Collected
<1> QED
  BY <1>3, <1>4, <1>5

LEMMA SameCalling ==
  ASSUME NEW t \in Thread, Moves(t), pc[t] # "callback", pc'[t] # "callback"
  PROVE  \A k : Calling(k)' <=> Calling(k)
<1>1. \A u \in Thread \ {t} : pc'[u] = pc[u] /\ cur'[u] = cur[u]
  BY DEF Moves
<1> QED
  BY <1>1 DEF Calling

LEMMA CallHookOwn ==
  ASSUME CallInv, CallInv', TaskInv, NEW t \in Thread, NEW k \in Task, CallHook(t, k)
  PROVE  /\ OwnInv' /\ UnfinishedInv' /\ Moves(t) /\ ~TaskAt(pc[t], job[t])
         /\ pc[t] = "idle" /\ job'[t] = "hook" /\ pc'[t] \in {"lookup", "hook"} /\ k \notin made
<1>1. /\ k \notin made /\ made' = made \cup {k}
      /\ Start(t, "hook", k, "lookup") \/ Start(t, "hook", k, "hook")
      /\ UNCHANGED <<tasks, finished, corrupted, destroyed, cnt, count, lock, queue, freed, stubs, sw, patched, on, work>>
      /\ \E a : target' = [target EXCEPT ![k] = a]
  BY DEF CallHook, refVars, swVars, TaskInv, OwnInv, TaskTypes
<1>2. "hook" \in Jobs /\ "lookup" \in Steps /\ "hook" \in Steps
  BY DEF Jobs, Steps, TaskSteps
<1>3. Moves(t) /\ pc'[t] \in {"lookup", "hook"} /\ job'[t] = "hook" /\ cur'[t] = k /\ pc[t] = "idle"
  BY <1>1, <1>2, StartMoves DEF CallInv
<1>4. ~TaskAt(pc[t], job[t])
  BY <1>3, NoTaskAtLinkSteps DEF LinkSteps
<1>5. \A j : ~Undoes(t, j) /\ ~Does(t, j) /\ ~Undoes(t, j)' /\ ~Does(t, j)'
  BY <1>3, <1>4 DEF Undoes, Does, TaskAt
<1>6. \A j : (Leaving(j)' <=> Leaving(j)) /\ (ToUndo(j)' <=> ToUndo(j)) /\ (Collected(j)' <=> Collected(j))
  BY <1>1, <1>3, <1>5, SameRoles
<1>7. TaskTypes /\ ListInv /\ CountInv /\ \A u \in Thread : JobInv(u) /\ WorkInv(u)
  BY DEF TaskInv, OwnInv
<1>8. TaskTypes'
  <2>1. IsFiniteSet(made')
    BY <1>1, <1>7, FS_AddElement DEF TaskTypes
  <2> QED
    BY <1>1, <1>7, <2>1 DEF TaskTypes
<1>9. ListInv'
  BY <1>1, <1>7 DEF ListInv
<1>10. CountInv'
  BY <1>1, <1>6, <1>7 DEF CountInv
<1>11. ASSUME NEW u \in Thread PROVE JobInv(u)'
  <2>1. CASE u = t
    <3>1. \A v \in Thread \ {t} : job'[v] \in {"hook", "undo"} => cur'[v] \in made
      BY <1>3, <1>7 DEF Moves, JobInv
    <3> QED
      BY <1>1, <1>3, <1>7, <2>1, <3>1 DEF JobInv, TaskTypes, ListInv, LinkJobs
  <2>2. CASE u # t
    <3>1. pc'[u] = pc[u] /\ job'[u] = job[u] /\ cur'[u] = cur[u]
      BY <1>3, <2>2 DEF Moves
    <3>2. JobInv(u)
      BY <1>7
    <3>3. ASSUME job'[u] \in {"hook", "undo"}, NEW v \in Thread, job'[v] \in {"hook", "undo"}, cur'[v] = cur'[u]
          PROVE  v = u
      <4>1. v # t
        BY <1>1, <1>3, <3>1, <3>2, <3>3 DEF JobInv
      <4> QED
        BY <1>3, <3>1, <3>2, <3>3, <4>1 DEF Moves, JobInv
    <3> QED
      BY <1>1, <1>6, <3>1, <3>2, <3>3 DEF JobInv
  <2> QED
    BY <2>1, <2>2
<1>12. ASSUME NEW u \in Thread PROVE WorkInv(u)'
  <2>1. WorkInv(u) /\ work[u] \subseteq made
    BY <1>7 DEF TaskTypes
  <2>2. \A j \in made : target'[j] = target[j]
    BY <1>1, <1>7 DEF TaskTypes
  <2>3. u = t => work[u] = {}
    BY <1>3, <2>1 DEF WorkInv, DoSteps
  <2>4. u # t => pc'[u] = pc[u] /\ job'[u] = job[u]
    BY <1>3 DEF Moves
  <2> QED
    BY <1>1, <1>6, <2>1, <2>2, <2>3, <2>4 DEF WorkInv
<1>13. UnfinishedInv'
  <2>1. \A j : Calling(j)' <=> Calling(j)
    BY <1>3, SameCalling
  <2>2. \A j : Unfinished(j)' <=> Unfinished(j)
    BY <1>1, <1>6, <2>1 DEF Unfinished
  <2>3. ~Unfinished(k)
    <3>1. k \notin tasks
      BY <1>1, <1>7 DEF TaskTypes
    <3>2. ~ToUndo(k)
      BY <1>1, <1>7 DEF ToUndo, Undoes, JobInv
    <3>3. ~Calling(k)
      <4>1. \A u \in Thread : pc[u] = "callback" => job[u] = "dlopen" /\ pc[u] \in DoSteps
        BY DEF CallInv, Sound, JobAt, CtorSteps, DoSteps
      <4> QED
        BY <1>1, <1>7, <4>1 DEF Calling, JobInv
    <3> QED
      BY <3>1, <3>2, <3>3 DEF Unfinished
  <2>4. {j \in made' : Unfinished(j)'} = {j \in made : Unfinished(j)}
    BY <1>1, <2>2, <2>3
  <2> QED
    BY <1>1, <2>4 DEF TaskInv, UnfinishedInv
<1> QED
  BY <1>1, <1>3, <1>4, <1>8, <1>9, <1>10, <1>11, <1>12, <1>13 DEF OwnInv

\* Until its task is in the list, a thread that hooks has it for itself.
LEMMA HooksAlone ==
  ASSUME OwnInv, NEW t \in Thread, job[t] = "hook", pc[t] \in {"lookup", "hook", "insert"}
  PROVE  /\ cur[t] \in made \ (tasks \cup stubs \cup destroyed \cup freed \cup corrupted)
         /\ cur[t] \in Task /\ ~Leaving(cur[t]) /\ ~ToUndo(cur[t]) /\ ~Collected(cur[t])
         /\ \A u \in Thread \ {t} : job[u] \in {"hook", "undo"} => cur[u] # cur[t]
<1>1. JobInv(t)
  BY DEF OwnInv
<1>2. cur[t] \in made \ (tasks \cup stubs \cup destroyed \cup freed \cup corrupted) /\ cur[t] \in Task
  BY <1>1 DEF JobInv, OwnInv, TaskTypes
<1>3. ~Leaving(cur[t])
  BY <1>1 DEF JobInv, Leaving, Undoes
<1>4. ~ToUndo(cur[t])
  BY <1>3 DEF Leaving, ToUndo
<1>5. ASSUME NEW u \in Thread PROVE cur[t] \notin work[u] /\ ~Does(u, cur[t])
  <2>1. WorkInv(u) /\ JobInv(u)
    BY DEF OwnInv
  <2>2. cur[t] \notin work[u]
    BY <1>2, <1>3, <2>1 DEF WorkInv
  <2>3. ~Does(u, cur[t])
    BY <1>2, <1>4, <2>1 DEF JobInv, Does
  <2> QED
    BY <2>2, <2>3
<1>6. ~Collected(cur[t])
  BY <1>5 DEF Collected
<1> QED
  BY <1>1, <1>2, <1>3, <1>4, <1>6 DEF JobInv

LEMMA HookerStep ==
  ASSUME OwnInv, NEW t \in Thread, job[t] = "hook", pc[t] \in {"lookup", "hook", "insert"},
         Moves(t), job'[t] = "hook", cur'[t] = cur[t], pc'[t] \in {"hook", "insert", "record"},
         UNCHANGED <<made, corrupted, destroyed, count, lock, queue, stubs, work, on>>,
         \A k \in made \ {cur[t]} : /\ k \in tasks' <=> k \in tasks
                                    /\ k \in finished' <=> k \in finished
                                    /\ k \in freed' <=> k \in freed,
         tasks' \subseteq made, finished' \subseteq made, freed' \subseteq made,
         NEW a, target' \in {target, [target EXCEPT ![cur[t]] = a]},
         cur[t] \in tasks' \cup freed' => pc'[t] = "record",
         cur[t] \notin tasks' \cap freed',
         pc'[t] = "hook" => cur[t] \notin finished',
         sw' \in [Addr -> SUBSET made], patched' \in [Addr -> BOOLEAN]
  PROVE  OwnInv' /\ \A k : ToUndo(k)' <=> ToUndo(k)
<1> DEFINE K == cur[t]
<1>1. /\ K \in made \ (tasks \cup stubs \cup destroyed \cup freed \cup corrupted)
      /\ K \in Task /\ ~Leaving(K) /\ ~ToUndo(K) /\ ~Collected(K)
      /\ \A u \in Thread \ {t} : job[u] \in {"hook", "undo"} => cur[u] # K
  BY HooksAlone
<1>2. TaskTypes /\ ListInv /\ CountInv /\ \A u \in Thread : JobInv(u) /\ WorkInv(u)
  BY DEF OwnInv
<1>3. \A j : ~Undoes(t, j) /\ ~Does(t, j) /\ ~Undoes(t, j)' /\ ~Does(t, j)'
  BY DEF Undoes, Does
<1>4. \A j : (Leaving(j)' <=> Leaving(j)) /\ (ToUndo(j)' <=> ToUndo(j)) /\ (Collected(j)' <=> Collected(j))
  BY <1>3, SameRoles
<1>5. target' = [k \in Task |-> target'[k]] /\ \A k \in made \ {K} : target'[k] = target[k]
  BY <1>2 DEF TaskTypes
<1>6. \A u \in Thread \ {t} : pc'[u] = pc[u] /\ job'[u] = job[u] /\ cur'[u] = cur[u]
  BY DEF Moves
<1>7. TaskTypes'
  BY <1>2, <1>5 DEF TaskTypes
<1>8. ListInv'
  BY <1>1, <1>2 DEF ListInv, TaskTypes
<1>9. CountInv'
  BY <1>2, <1>4 DEF CountInv
<1>10. ASSUME NEW u \in Thread PROVE JobInv(u)'
  <2>1. CASE u = t
    <3>1. \A v \in Thread : job'[v] \in {"hook", "undo"} /\ cur'[v] = K => v = t
      BY <1>1, <1>6
    <3> QED
      BY <1>1, <2>1, <3>1 DEF JobInv, LinkJobs
  <2>2. CASE u # t
    <3>1. JobInv(u) /\ cur'[u] = cur[u] /\ job'[u] = job[u] /\ pc'[u] = pc[u]
      BY <1>2, <1>6, <2>2
    <3>2. job[u] \in {"hook", "undo"} => cur[u] \in made \ {K}
      BY <1>1, <2>2, <3>1 DEF JobInv
    <3>3. job[u] = "dlopen" /\ pc[u] \in DoSteps => cur[u] \in made \ {K}
      BY <1>1, <2>2, <3>1 DEF JobInv, Collected, Does
    <3>4. ASSUME job'[u] \in {"hook", "undo"}, NEW v \in Thread, job'[v] \in {"hook", "undo"}, cur'[v] = cur'[u]
          PROVE  v = u
      BY <1>1, <1>6, <2>2, <3>1, <3>2, <3>4 DEF JobInv
    <3> QED
      BY <1>4, <3>1, <3>2, <3>3, <3>4 DEF JobInv
  <2> QED
    BY <2>1, <2>2
<1>11. ASSUME NEW u \in Thread PROVE WorkInv(u)'
  <2>1. WorkInv(u) /\ work[u] \subseteq made \ {K}
    BY <1>1, <1>2 DEF TaskTypes, Collected
  <2>2. u = t => work[u] = {}
    BY <2>1 DEF WorkInv, DoSteps
  <2> QED
    BY <1>4, <1>5, <1>6, <2>1, <2>2 DEF WorkInv
<1> QED
  BY <1>4, <1>7, <1>8, <1>9, <1>10, <1>11 DEF OwnInv

\* What each of the three steps does.
LEMMA HookerSteps ==
  ASSUME CallInv, CallInv', TaskInv, NEW t \in Thread, Lookup(t) \/ DoHook(t) \/ Insert(t)
  PROVE  /\ job[t] = "hook" /\ pc[t] \in {"lookup", "hook", "insert"} /\ Moves(t)
         /\ job'[t] = "hook" /\ cur'[t] = cur[t] /\ pc'[t] \in {"hook", "insert", "record"}
         /\ OwnInv' /\ \A k : (ToUndo(k)' <=> ToUndo(k)) /\ (Calling(k)' <=> Calling(k))
<1>1. /\ pc[t] \in {"lookup", "hook", "insert"} /\ UNCHANGED <<job, cur>>
      /\ Goto(t, "hook") \/ Goto(t, "insert") \/ Goto(t, "record")
      /\ UNCHANGED <<made, corrupted, destroyed, count, lock, queue, stubs, work, on>>
  BY DEF Lookup, DoHook, Insert, At, refVars
<1>2. job[t] = "hook"
  BY <1>1 DEF CallInv, Sound, JobAt
<1>3. {"hook", "insert", "record"} \subseteq Steps
  BY DEF Steps, TaskSteps
<1>4. Moves(t) /\ pc'[t] \in {"hook", "insert", "record"} /\ job'[t] = "hook" /\ cur'[t] = cur[t]
  BY <1>1, <1>2, <1>3, GotoMoves DEF CallInv
<1>5. \A k : Calling(k)' <=> Calling(k)
  BY <1>1, <1>4, SameCalling
<1> DEFINE K == cur[t]
<1>6. /\ K \in made \ (tasks \cup stubs \cup destroyed \cup freed \cup corrupted)
      /\ pc[t] \in {"lookup", "hook"} => K \notin finished
  BY <1>1, <1>2, HooksAlone DEF TaskInv, OwnInv, JobInv
<1>7. TaskTypes
  BY DEF TaskInv, OwnInv
<1> HIDE DEF K
<1>8. CASE Lookup(t)
  <2>1. UNCHANGED <<tasks, finished, sw, patched>>
    BY <1>8 DEF Lookup, swVars
  <2>2. \/ pc'[t] \in {"insert", "hook"} /\ freed' = freed
           /\ \E a : target' \in {target, [target EXCEPT ![K] = a]}
        \/ pc'[t] = "record" /\ freed' = freed \cup {K} /\ target' = target
    BY <1>8, <1>7, <1>1 DEF Lookup, K, Goto, CallInv, CallTypes
  <2>3. PICK a : target' \in {target, [target EXCEPT ![K] = a]}
    BY <2>2
  <2>4. freed' \in {freed, freed \cup {K}} /\ (K \in freed' => pc'[t] = "record")
    BY <1>6, <2>2
  <2>5. pc[t] = "lookup"
    BY <1>8 DEF Lookup, At
  <2> QED
    BY <1>1, <1>2, <1>4, <1>5, <1>6, <1>7, <2>1, <2>3, <2>4, <2>5, HookerStep DEF K, TaskInv, TaskTypes
<1>9. CASE DoHook(t)
  <2>1. tasks' = tasks /\ finished' = finished \cup {K} /\ target' = target /\ pc[t] = "hook"
    BY <1>9 DEF DoHook, K, At
  <2>2. \/ pc'[t] = "insert" /\ freed' = freed
        \/ pc'[t] = "record" /\ freed' = freed \cup {K}
    BY <1>9, <1>1 DEF DoHook, K, Goto, CallInv, CallTypes
  <2>3. sw' \in [Addr -> SUBSET made] /\ patched' \in [Addr -> BOOLEAN]
    <3>1. CASE Hook(K, target[K])
      BY <1>6, <1>7, <3>1 DEF Hook, TaskTypes
    <3>2. CASE HookFails(K, target[K])
      BY <1>7, <3>2 DEF HookFails, swVars, TaskTypes
    <3> QED
      BY <1>9, <3>1, <3>2 DEF DoHook, K
  <2> QED
    BY <1>1, <1>2, <1>4, <1>5, <1>6, <1>7, <2>1, <2>2, <2>3, HookerStep DEF K, TaskInv, TaskTypes
<1>10. CASE Insert(t)
  <2>1. /\ tasks' = tasks \cup {K} /\ UNCHANGED <<finished, target, freed, sw, patched>>
        /\ pc'[t] = "record"
    BY <1>10, <1>1 DEF Insert, K, Goto, CallInv, CallTypes, refVars, swVars
  <2> QED
    BY <1>1, <1>2, <1>4, <1>5, <1>6, <1>7, <2>1, HookerStep DEF K, TaskInv, TaskTypes
<1> QED
  BY <1>8, <1>9, <1>10

LEMMA HookersUnfinished ==
  ASSUME CallInv, CallInv', TaskInv, NEW t \in Thread, Lookup(t) \/ DoHook(t) \/ Insert(t)
  PROVE  UnfinishedInv'
<1>1. /\ job[t] = "hook" /\ pc[t] \in {"lookup", "hook", "insert"} /\ Moves(t)
      /\ \A k : (ToUndo(k)' <=> ToUndo(k)) /\ (Calling(k)' <=> Calling(k))
  BY HookerSteps
<1> DEFINE K == cur[t]
<1>2. K \in made \ tasks /\ ~ToUndo(K) /\ ~Collected(K)
  BY <1>1, HooksAlone DEF TaskInv
<1>3. ~Calling(K)
  <2>1. \A u \in Thread : pc[u] = "callback" => job[u] = "dlopen"
    BY DEF CallInv, Sound, JobAt, CtorSteps
  <2> QED
    BY <1>2, <2>1 DEF Collected, Does, Calling, DoSteps
<1> HIDE DEF K
<1>4. made' = made
  BY DEF Lookup, DoHook, Insert
<1>5. CASE Lookup(t)
  <2>1. UNCHANGED <<tasks, finished, cnt>>
    BY <1>5 DEF Lookup
  <2> QED
    BY <1>1, <1>4, <2>1, SameUnfinished DEF Unfinished, TaskInv
<1>6. CASE DoHook(t)
  <2>1. UNCHANGED <<tasks, cnt>> /\ finished' = finished \cup {K}
    BY <1>6 DEF DoHook, K
  <2>2. \A k : Unfinished(k)' <=> Unfinished(k)
    BY <1>1, <1>2, <2>1 DEF Unfinished
  <2> QED
    BY <1>4, <2>1, <2>2, SameUnfinished DEF TaskInv
<1>7. CASE Insert(t)
  <2>1. finished' = finished /\ tasks' = tasks \cup {K} /\ cnt' = IF K \in finished THEN cnt ELSE cnt + 1
    BY <1>7 DEF Insert, K
  <2>2. \A k : Unfinished(k)' <=> (Unfinished(k) \/ (k = K /\ K \notin finished))
    BY <1>1, <2>1 DEF Unfinished
  <2>3. CASE K \in finished
    BY <1>4, <2>1, <2>2, <2>3, SameUnfinished DEF TaskInv
  <2>4. CASE K \notin finished
    <3> DEFINE S == {k \in made : Unfinished(k)}
               T == {k \in made : Unfinished(k)'}
    <3>1. T = S \cup {K}
      BY <1>2, <2>2, <2>4
    <3>2. K \notin S
      BY <1>2, <1>3 DEF Unfinished
    <3>3. IsFiniteSet(S)
      BY FS_Subset DEF TaskInv, OwnInv, TaskTypes
    <3> HIDE DEF S, T
    <3>4. Cardinality(T) = Cardinality(S) + 1
      BY <3>1, <3>2, <3>3, FS_AddElement
    <3>5. cnt = Cardinality(S)
      BY DEF TaskInv, UnfinishedInv, S
    <3> QED
      BY <1>4, <2>1, <2>4, <3>4, <3>5 DEF UnfinishedInv, T
  <2> QED
    BY <2>3, <2>4
<1> QED
  BY <1>5, <1>6, <1>7

\* A step of the thread in the linker.
LEMMA CollectorStep ==
  ASSUME CallInv, OwnInv, NEW t \in Thread, job[t] \in LinkJobs, job'[t] \in LinkJobs, Moves(t),
         UNCHANGED <<made, tasks, destroyed, freed, queue, stubs, on>>,
         \A u \in Thread \ {t} : work'[u] = work[u],
         \A k \in made : lock'[k] # lock[k] => lock[k] \in {t, NoThread},
         \A k \in made : corrupted' # corrupted /\ k \in corrupted' => k \in corrupted \/ k \in tasks \/ Leaving(k),
         \A k \in made : finished' # finished /\ k \in finished' => k \in finished \/ k \in tasks \/ Leaving(k),
         TaskTypes', CountInv', JobInv(t)', WorkInv(t)'
  PROVE  OwnInv' /\ \A k : (Leaving(k)' <=> Leaving(k)) /\ (ToUndo(k)' <=> ToUndo(k))
<1>1. \A u \in Thread \ {t} : job[u] \notin LinkJobs /\ work[u] = {}
  BY OneCollects
<1>2. TaskTypes /\ ListInv /\ CountInv /\ \A u \in Thread : JobInv(u) /\ WorkInv(u)
  BY DEF OwnInv
<1>3. \A u \in Thread \ {t} : pc'[u] = pc[u] /\ job'[u] = job[u] /\ cur'[u] = cur[u]
  BY DEF Moves
<1>4. \A k : (Leaving(k)' <=> Leaving(k)) /\ (ToUndo(k)' <=> ToUndo(k))
  <2>1. \A k : ~Undoes(t, k) /\ ~Undoes(t, k)'
    BY DEF Undoes, LinkJobs
  <2>2. \A u \in Thread : \A k : Undoes(u, k)' <=> Undoes(u, k)
    BY <2>1, <1>3 DEF Undoes
  <2>3. \A u \in Thread : \A k : (Undoes(u, k) /\ pc[u] = "undo") <=> (Undoes(u, k)' /\ pc'[u] = "undo")
    BY <2>1, <2>2, <1>3
  <2>4. ASSUME NEW k PROVE Leaving(k)' <=> Leaving(k)
    BY <2>2 DEF Leaving
  <2>5. ASSUME NEW k PROVE ToUndo(k)' <=> ToUndo(k)
    BY <2>3 DEF ToUndo
  <2> QED
    BY <2>4, <2>5
<1>5. ListInv'
  BY <1>2 DEF ListInv
<1>6. ASSUME NEW u \in Thread \ {t} PROVE JobInv(u)'
  <2>1. JobInv(u) /\ job'[u] = job[u] /\ pc'[u] = pc[u] /\ cur'[u] = cur[u] /\ job[u] \notin LinkJobs
    BY <1>1, <1>2, <1>3
  <2>2. CASE job[u] = "hook"
    <3>1. cur[u] \in made \ (stubs \cup destroyed)
      BY <2>1, <2>2 DEF JobInv
    <3>2. ASSUME pc[u] \in {"lookup", "hook", "insert"}
          PROVE  cur[u] \notin tasks \cup freed \cup corrupted' /\ (pc[u] # "insert" => cur[u] \notin finished')
      <4>1. /\ cur[u] \in made \ (tasks \cup freed \cup corrupted) /\ ~Leaving(cur[u])
            /\ pc[u] # "insert" => cur[u] \notin finished
        BY <2>1, <2>2, <3>2, HooksAlone DEF JobInv
      <4> QED
        BY <4>1
    <3>3. \A v \in Thread : job'[v] \in {"hook", "undo"} /\ cur'[v] = cur[u] => v = u
      BY <1>3, <2>1, <2>2 DEF JobInv, LinkJobs
    <3> QED
      BY <2>1, <2>2, <3>1, <3>2, <3>3 DEF JobInv, LinkJobs
  <2>3. CASE job[u] = "undo"
    <3>1. cur[u] \in made \ (tasks \cup destroyed \cup freed) /\ (pc[u] # "undo" => lock[cur[u]] = u)
      BY <2>1, <2>3 DEF JobInv
    <3>2. pc[u] # "undo" => lock'[cur[u]] = u
      BY <3>1, LinkerAssumption
    <3>3. \A v \in Thread : job'[v] \in {"hook", "undo"} /\ cur'[v] = cur[u] => v = u
      BY <1>3, <2>1, <2>3 DEF JobInv, LinkJobs
    <3> QED
      BY <2>1, <2>3, <3>1, <3>2, <3>3 DEF JobInv, LinkJobs
  <2>4. CASE job[u] \notin {"hook", "undo"}
    BY <2>1, <2>4 DEF JobInv, LinkJobs
  <2> QED
    BY <2>2, <2>3, <2>4
<1>7. ASSUME NEW u \in Thread \ {t} PROVE WorkInv(u)'
  BY <1>1, <1>7 DEF WorkInv
<1> QED
  BY <1>4, <1>5, <1>6, <1>7 DEF OwnInv

\* What the thread in the linker has, it counts.
LEMMA CollectedIs ==
  ASSUME CallInv, OwnInv, NEW t \in Thread, job[t] \in LinkJobs
  PROVE  \A k : Collected(k) <=> (k \in work[t] \/ Does(t, k))
BY OneCollects DEF Collected

LEMMA CollectedAfter ==
  ASSUME CallInv, OwnInv, NEW t \in Thread, job[t] \in LinkJobs, Moves(t), \A u \in Thread \ {t} : work'[u] = work[u]
  PROVE  \A k : Collected(k)' <=> (k \in work'[t] \/ Does(t, k)')
<1>1. \A u \in Thread \ {t} : work'[u] = {} /\ \A k : ~Does(u, k)'
  BY OneCollects, OthersStay
<1> QED
  BY <1>1 DEF Collected

\* After the record was taken, or on the way to it.
LEMMA RecordSteps ==
  ASSUME CallInv, NEW t \in Thread, Record(t) \/ Dladdr(t)
  PROVE  /\ pc[t] \in {"record", "dladdr"} /\ Moves(t)
         /\ UNCHANGED <<made, tasks, cnt, finished, corrupted, destroyed, target, count, lock, queue, freed, sw, patched,
                        on, loc, phase, work>>
         /\ \/ pc'[t] = "dladdr" /\ job'[t] = job[t] /\ cur'[t] = cur[t] /\ stubs' = stubs
            \/ job[t] = "hook" /\ pc'[t] = "idle" /\ job'[t] = "none" /\ stubs' = stubs \cup ({cur[t]} \cap tasks)
            \/ job[t] = "undo" /\ pc'[t] = "destroy" /\ job'[t] = job[t] /\ cur'[t] = cur[t] /\ stubs' = stubs
            \/ job[t] = "dlopen" /\ pc'[t] = "finish" /\ job'[t] = job[t] /\ cur'[t] = cur[t] /\ stubs' = stubs
<1>1. AfterRecord(t) \/ (Goto(t, "dladdr") /\ UNCHANGED <<job, cur, stubs>>)
  BY DEF Record, Dladdr, At
<1>2. /\ pc[t] \in {"record", "dladdr"}
      /\ UNCHANGED <<made, tasks, cnt, finished, corrupted, destroyed, target, count, lock, queue, freed, sw, patched,
                     on, loc, phase, work>>
  BY DEF Record, Dladdr, At, linkVars, libVars, taskVars, refVars, swVars
<1>3. job[t] \in {"hook", "undo", "dlopen"}
  BY <1>2 DEF CallInv, Sound, JobAt
<1>4. {"dladdr", "destroy", "finish", "idle"} \subseteq Steps
  BY DEF Steps, TaskSteps, CtorSteps
<1>5. CASE Goto(t, "dladdr") /\ UNCHANGED <<job, cur, stubs>>
  BY <1>2, <1>4, <1>5, GotoMoves DEF CallInv
<1>6. CASE AfterRecord(t)
  <2>1. CASE job[t] = "hook"
    <3>1. Return(t) /\ stubs' = stubs \cup ({cur[t]} \cap tasks)
      BY <1>6, <2>1 DEF AfterRecord
    <3> QED
      BY <1>2, <2>1, <3>1, ReturnMoves DEF CallInv
  <2>2. CASE job[t] = "undo"
    <3>1. Goto(t, "destroy") /\ UNCHANGED <<job, cur, stubs>>
      BY <1>6, <2>2 DEF AfterRecord
    <3> QED
      BY <1>2, <1>4, <2>2, <3>1, GotoMoves DEF CallInv
  <2>3. CASE job[t] = "dlopen"
    <3>1. Goto(t, "finish") /\ UNCHANGED <<job, cur, stubs>>
      BY <1>6, <2>3 DEF AfterRecord
    <3> QED
      BY <1>2, <1>4, <2>3, <3>1, GotoMoves DEF CallInv
  <2> QED
    BY <1>3, <2>1, <2>2, <2>3
<1> QED
  BY <1>1, <1>5, <1>6

LEMMA RecordOwn ==
  ASSUME CallInv, CallInv', TaskInv, NEW t \in Thread, Record(t) \/ Dladdr(t)
  PROVE  OwnInv' /\ UnfinishedInv'
<1>1. /\ pc[t] \in {"record", "dladdr"} /\ Moves(t)
      /\ UNCHANGED <<made, tasks, cnt, finished, corrupted, destroyed, target, count, lock, queue, freed, sw, patched,
                     on, loc, phase, work>>
      /\ \/ pc'[t] = "dladdr" /\ job'[t] = job[t] /\ cur'[t] = cur[t] /\ stubs' = stubs
         \/ job[t] = "hook" /\ pc'[t] = "idle" /\ job'[t] = "none" /\ stubs' = stubs \cup ({cur[t]} \cap tasks)
         \/ job[t] = "undo" /\ pc'[t] = "destroy" /\ job'[t] = job[t] /\ cur'[t] = cur[t] /\ stubs' = stubs
         \/ job[t] = "dlopen" /\ pc'[t] = "finish" /\ job'[t] = job[t] /\ cur'[t] = cur[t] /\ stubs' = stubs
  BY RecordSteps
<1>2. TaskTypes /\ ListInv /\ CountInv /\ \A u \in Thread : JobInv(u) /\ WorkInv(u)
  BY DEF TaskInv, OwnInv
<1>3. job[t] \in {"hook", "undo", "dlopen"}
  BY <1>1 DEF CallInv, Sound, JobAt
<1>4. \A k : (Undoes(t, k)' <=> Undoes(t, k)) /\ (Does(t, k)' <=> Does(t, k))
  BY <1>1 DEF Undoes, Does, DoSteps
<1>5. \A k : (Leaving(k)' <=> Leaving(k)) /\ (ToUndo(k)' <=> ToUndo(k)) /\ (Collected(k)' <=> Collected(k))
  BY <1>1, <1>4, SameRoles
<1>6. TaskTypes'
  BY <1>1, <1>2 DEF TaskTypes
<1>7. stubs' \subseteq tasks /\ \A k \in stubs' : k \in stubs \/ (job[t] = "hook" /\ pc'[t] = "idle" /\ k = cur[t])
  BY <1>1, <1>2 DEF ListInv
<1>8. ListInv'
  BY <1>1, <1>2, <1>7 DEF ListInv
<1>9. CountInv'
  BY <1>1, <1>2, <1>5 DEF CountInv
<1>10. \A u \in Thread \ {t} : pc'[u] = pc[u] /\ job'[u] = job[u] /\ cur'[u] = cur[u]
  BY <1>1 DEF Moves
<1>11. \A u \in Thread : job'[u] \in {"hook", "undo"} => job[u] \in {"hook", "undo"} /\ cur'[u] = cur[u] /\ job'[u] = job[u]
  BY <1>1, <1>10
<1>12. ASSUME NEW u \in Thread PROVE JobInv(u)'
  <2>1. ASSUME job'[u] \in {"hook", "undo"}, NEW v \in Thread, job'[v] \in {"hook", "undo"}, cur'[v] = cur'[u]
        PROVE  v = u
    BY <1>2, <1>11, <2>1 DEF JobInv
  <2>2. JobInv(u)
    BY <1>2
  <2>3. CASE u = t
    BY <1>1, <1>3, <1>5, <1>7, <2>1, <2>2, <2>3 DEF JobInv, LinkJobs, DoSteps
  <2>4. CASE u # t
    <3>1. job[u] = "hook" => cur[u] \notin stubs'
      BY <1>2, <1>7, <2>2, <2>4 DEF JobInv
    <3> QED
      BY <1>1, <1>5, <1>10, <2>1, <2>2, <2>4, <3>1 DEF JobInv
  <2> QED
    BY <2>3, <2>4
<1>13. ASSUME NEW u \in Thread PROVE WorkInv(u)'
  <2>1. WorkInv(u)
    BY <1>2
  <2>2. CASE u = t
    BY <1>1, <1>3, <1>5, <2>1, <2>2 DEF WorkInv, DoSteps
  <2>3. CASE u # t
    BY <1>1, <1>5, <1>10, <2>1, <2>3 DEF WorkInv
  <2> QED
    BY <2>2, <2>3
<1>14. UnfinishedInv'
  <2>1. \A k : Calling(k)' <=> Calling(k)
    BY <1>1, SameCalling
  <2> QED
    BY <1>1, <1>5, <2>1, SameUnfinished DEF Unfinished, TaskInv
<1> QED
  BY <1>6, <1>8, <1>9, <1>12, <1>13, <1>14 DEF OwnInv

LEMMA CallUndoOwn ==
  ASSUME CallInv, CallInv', TaskInv, NEW t \in Thread, NEW K \in Task, CallUndo(t, K)
  PROVE  /\ OwnInv' /\ UnfinishedInv' /\ Moves(t) /\ ~TaskAt(pc[t], job[t])
         /\ pc[t] = "idle" /\ pc'[t] = "undo" /\ job'[t] = "undo" /\ cur'[t] = K
<1>1. /\ K \in stubs /\ Start(t, "undo", K, "undo") /\ stubs' = stubs \ {K} /\ tasks' = tasks \ {K}
      /\ count' = [count EXCEPT ![K] = @ + 1]
      /\ UNCHANGED <<made, cnt, finished, corrupted, destroyed, target, lock, queue, freed, sw, patched, on, work>>
  BY DEF CallUndo, swVars
<1>2. TaskTypes /\ ListInv /\ CountInv /\ \A u \in Thread : JobInv(u) /\ WorkInv(u)
  BY DEF TaskInv, OwnInv
<1>3. Moves(t) /\ pc'[t] = "undo" /\ job'[t] = "undo" /\ cur'[t] = K /\ pc[t] = "idle"
  BY <1>1, StartMoves DEF CallInv, Jobs, Steps, TaskSteps
<1>4. ~TaskAt(pc[t], job[t])
  BY <1>3, NoTaskAtLinkSteps DEF LinkSteps
<1>5. \A u \in Thread \ {t} : pc'[u] = pc[u] /\ job'[u] = job[u] /\ cur'[u] = cur[u]
  BY <1>3 DEF Moves
<1>6. K \in made /\ K \in tasks /\ K \notin destroyed \cup freed
  BY <1>1, <1>2 DEF ListInv, TaskTypes
<1>7. \A u \in Thread : job[u] \in {"hook", "undo"} => cur[u] # K
  BY <1>1, <1>2, <1>6 DEF JobInv
<1>8. ~Leaving(K) /\ ~ToUndo(K)
  BY <1>7 DEF Leaving, ToUndo, Undoes
<1>9. Leaving(K)' /\ ToUndo(K)'
  BY <1>3 DEF Leaving, ToUndo, Undoes
<1>10. \A k : k # K => (Leaving(k)' <=> Leaving(k)) /\ (ToUndo(k)' <=> ToUndo(k))
  <2>1. \A k : k # K => ~Undoes(t, k) /\ ~Undoes(t, k)'
    BY <1>3, <1>4 DEF Undoes, TaskAt
  <2>2. ASSUME NEW k, k # K PROVE (Leaving(k)' <=> Leaving(k)) /\ (ToUndo(k)' <=> ToUndo(k))
    <3>1. \A u \in Thread : Undoes(u, k)' <=> Undoes(u, k)
      BY <1>5, <2>1, <2>2 DEF Undoes
    <3>2. \A u \in Thread : (Undoes(u, k)' /\ pc'[u] = "undo") <=> (Undoes(u, k) /\ pc[u] = "undo")
      BY <1>5, <2>1, <2>2, <3>1
    <3> QED
      BY <3>1, <3>2 DEF Leaving, ToUndo
  <2> QED
    BY <2>2
<1>11. \A k : Collected(k)' <=> Collected(k)
  <2>1. \A k : ~Does(t, k) /\ ~Does(t, k)'
    BY <1>3, <1>4 DEF Does, TaskAt
  <2>2. \A u \in Thread : \A k : Does(u, k)' <=> Does(u, k)
    BY <1>5, <2>1 DEF Does
  <2> QED
    BY <1>1, <2>2 DEF Collected
<1>12. TaskTypes'
  BY <1>1, <1>2 DEF TaskTypes
<1>13. ListInv'
  BY <1>1, <1>2 DEF ListInv
<1>14. CountInv'
  <2>1. ASSUME NEW k \in Task PROVE count'[k] = IF k = K THEN count[k] + 1 ELSE count[k]
    BY <1>1, <1>2 DEF TaskTypes
  <2> QED
    BY <1>2, <1>8, <1>9, <1>10, <1>11, <2>1 DEF CountInv
<1>15. ASSUME NEW u \in Thread PROVE JobInv(u)'
  <2>1. CASE u = t
    <3>1. \A v \in Thread : job'[v] \in {"hook", "undo"} /\ cur'[v] = K => v = t
      BY <1>5, <1>7
    <3> QED
      BY <1>1, <1>3, <1>6, <2>1, <3>1 DEF JobInv, LinkJobs
  <2>2. CASE u # t
    <3>1. JobInv(u)
      BY <1>2
    <3>2. ASSUME job'[u] \in {"hook", "undo"}, NEW v \in Thread, job'[v] \in {"hook", "undo"}, cur'[v] = cur'[u]
          PROVE  v = u
      BY <1>3, <1>5, <1>7, <2>2, <3>1, <3>2 DEF JobInv
    <3>3. ASSUME NEW k, k \in tasks \/ ToUndo(k) PROVE k \in tasks' \/ ToUndo(k)'
      BY <1>1, <1>9, <1>10, <3>3
    <3> QED
      BY <1>1, <1>5, <2>2, <3>1, <3>2, <3>3 DEF JobInv
  <2> QED
    BY <2>1, <2>2
<1>16. ASSUME NEW u \in Thread PROVE WorkInv(u)'
  <2>1. WorkInv(u)
    BY <1>2
  <2>2. u = t => work[u] = {}
    BY <1>3, <2>1 DEF WorkInv, DoSteps
  <2>3. u # t => pc'[u] = pc[u] /\ job'[u] = job[u]
    BY <1>5
  <2>4. ASSUME NEW k, k \in tasks \/ Leaving(k) PROVE k \in tasks' \/ Leaving(k)'
    BY <1>1, <1>9, <1>10, <2>4
  <2> QED
    BY <1>1, <2>1, <2>2, <2>3, <2>4 DEF WorkInv
<1>17. UnfinishedInv'
  <2>1. \A k : Calling(k)' <=> Calling(k)
    BY <1>3, SameCalling
  <2>2. \A k : (k \in tasks' \/ ToUndo(k)') <=> (k \in tasks \/ ToUndo(k))
    BY <1>1, <1>6, <1>8, <1>9, <1>10
  <2> QED
    BY <1>1, <2>1, <2>2, SameUnfinished DEF Unfinished, TaskInv
<1> QED
  BY <1>3, <1>4, <1>12, <1>13, <1>14, <1>15, <1>16, <1>17 DEF OwnInv

\* Both steps of an undo are of the task's only undoer, and the second has its lock.
LEMMA UndoesAlone ==
  ASSUME OwnInv, NEW t \in Thread, job[t] = "undo"
  PROVE  /\ cur[t] \in made \ (tasks \cup stubs \cup destroyed \cup freed) /\ cur[t] \in Task
         /\ \A u \in Thread \ {t} : job[u] \in {"hook", "undo"} => cur[u] # cur[t]
         /\ (lock[cur[t]] = NoThread \/ pc[t] # "undo") => \A u \in Thread : ~Does(u, cur[t])
<1>1. JobInv(t) /\ TaskTypes /\ ListInv
  BY DEF OwnInv
<1>2. cur[t] \in made \ (tasks \cup stubs \cup destroyed \cup freed) /\ cur[t] \in Task
  BY <1>1 DEF JobInv, TaskTypes, ListInv
<1>3. ASSUME lock[cur[t]] = NoThread \/ pc[t] # "undo", NEW u \in Thread, Does(u, cur[t]) PROVE FALSE
  <2>1. lock[cur[t]] = u
    BY <1>3 DEF OwnInv, JobInv, Does
  <2>2. lock[cur[t]] \in {NoThread, t}
    BY <1>1, <1>3 DEF JobInv
  <2> QED
    BY <1>3, <2>1, <2>2, LinkerAssumption DEF Does
<1> QED
  BY <1>1, <1>2, <1>3 DEF JobInv

LEMMA UndoOwn ==
  ASSUME CallInv, CallInv', TaskInv, NEW t \in Thread, Undo(t)
  PROVE  /\ OwnInv' /\ UnfinishedInv' /\ Moves(t) /\ job[t] = "undo" /\ pc[t] = "undo"
         /\ job'[t] = "undo" /\ cur'[t] = cur[t] /\ pc'[t] = "record" /\ \A u \in Thread : ~Does(u, cur[t])
<1>0. PICK K : K = cur[t]
  OBVIOUS
<1>1. /\ pc[t] = "undo" /\ lock[K] = NoThread /\ lock' = [lock EXCEPT ![K] = t] /\ Goto(t, "record")
      /\ UNCHANGED <<job, cur, made, tasks, finished, corrupted, destroyed, target, count, queue, freed, stubs, on, work>>
  BY <1>0 DEF Undo, At
<1>2. job[t] = "undo"
  BY <1>1 DEF CallInv, Sound, JobAt
<1>3. Moves(t) /\ pc'[t] = "record" /\ job'[t] = "undo" /\ cur'[t] = cur[t]
  BY <1>1, <1>2, GotoMoves DEF CallInv, Steps, TaskSteps
<1>4. /\ K \in made \ (tasks \cup stubs \cup destroyed \cup freed) /\ K \in Task
      /\ \A u \in Thread \ {t} : job[u] \in {"hook", "undo"} => cur[u] # K
      /\ \A u \in Thread : ~Does(u, K)
  BY <1>1, <1>2, UndoesAlone, <1>0 DEF TaskInv
<1>5. \/ K \notin finished /\ cnt' = cnt - 1 /\ UNCHANGED <<sw, patched>>
      \/ K \in finished /\ cnt' = cnt /\ UNCHANGED <<sw, patched>>
      \/ K \in finished /\ cnt' = cnt /\ (Unhook(K, target[K]) \/ UnhookFails(K, target[K]))
  BY <1>0 DEF Undo, swVars
<1>6. TaskTypes /\ ListInv /\ CountInv /\ \A u \in Thread : JobInv(u) /\ WorkInv(u)
  BY DEF TaskInv, OwnInv
<1>7. \A u \in Thread \ {t} : pc'[u] = pc[u] /\ job'[u] = job[u] /\ cur'[u] = cur[u]
  BY <1>3 DEF Moves
<1>8. K = cur[t] /\ Undoes(t, K) /\ Undoes(t, K)'
  BY <1>0, <1>2, <1>3 DEF Undoes
<1>9. \A k : (Undoes(t, k)' <=> Undoes(t, k)) /\ ~Does(t, k) /\ ~Does(t, k)'
  BY <1>2, <1>3 DEF Undoes, Does
<1>10. \A u \in Thread : \A k : (Undoes(u, k)' <=> Undoes(u, k)) /\ (Does(u, k)' <=> Does(u, k))
  BY <1>3, <1>9, OthersStay
<1>11. \A k : (Leaving(k)' <=> Leaving(k)) /\ (Collected(k)' <=> Collected(k))
  BY <1>1, <1>10 DEF Leaving, Collected
<1>12. \A k : ToUndo(k)' <=> (ToUndo(k) /\ k # K)
  <2>1. ASSUME NEW k, k # K PROVE ToUndo(k)' <=> ToUndo(k)
    <3>1. ~Undoes(t, k)
      BY <1>8, <2>1 DEF Undoes
    <3>2. \A u \in Thread : (Undoes(u, k)' /\ pc'[u] = "undo") <=> (Undoes(u, k) /\ pc[u] = "undo")
      BY <1>7, <1>10, <3>1
    <3> QED
      BY <3>2 DEF ToUndo
  <2>2. ~ToUndo(K)'
    <3>1. \A u \in Thread \ {t} : ~Undoes(u, K)
      BY <1>4 DEF Undoes
    <3> QED
      BY <1>3, <1>10, <3>1 DEF ToUndo
  <2> QED
    BY <2>1, <2>2
<1>13. sw' \in [Addr -> SUBSET made] /\ patched' \in [Addr -> BOOLEAN]
  <2>1. CASE UNCHANGED <<sw, patched>>
    BY <1>6, <2>1 DEF TaskTypes
  <2>2. CASE Unhook(K, target[K])
    <3>1. \A a \in Addr : Less(K, a) \subseteq sw[a]
      BY DEF Less
    <3>2. DOMAIN sw = Addr /\ DOMAIN patched = Addr
      BY <1>6 DEF TaskTypes
    <3> QED
      BY <1>6, <2>2, <3>1, <3>2 DEF Unhook, TaskTypes
  <2>3. CASE UnhookFails(K, target[K])
    BY <1>6, <2>3 DEF UnhookFails, TaskTypes
  <2> QED
    BY <1>5, <2>1, <2>2, <2>3
<1>14. TaskTypes'
  BY <1>1, <1>6, <1>13 DEF TaskTypes
<1>15. ListInv' /\ CountInv'
  BY <1>1, <1>6, <1>11 DEF ListInv, CountInv
<1>16. lock'[K] = t /\ \A k \in made : k # K => lock'[k] = lock[k]
  BY <1>1, <1>4, <1>6 DEF TaskTypes
<1>17. ASSUME NEW u \in Thread PROVE JobInv(u)'
  <2>1. JobInv(u)
    BY <1>6
  <2>2. ASSUME job'[u] \in {"hook", "undo"}, NEW v \in Thread, job'[v] \in {"hook", "undo"}, cur'[v] = cur'[u]
        PROVE  v = u
    BY <1>2, <1>3, <1>7, <2>1, <2>2 DEF JobInv
  <2>3. CASE u = t
    BY <1>1, <1>2, <1>3, <1>4, <1>8, <1>16, <2>2, <2>3 DEF JobInv, LinkJobs
  <2>4. CASE u # t
    <3>1. job[u] \in {"hook", "undo"} \/ (job[u] = "dlopen" /\ pc[u] \in DoSteps) => cur[u] \in made \ {K}
      BY <1>4, <2>1, <2>4 DEF JobInv, Does
    <3>2. pc'[u] = pc[u] /\ job'[u] = job[u] /\ cur'[u] = cur[u]
      BY <1>7, <2>4
    <3>3. job[u] \in {"hook", "undo"} \/ (job[u] = "dlopen" /\ pc[u] \in DoSteps) =>
            lock'[cur'[u]] = lock[cur[u]] /\ (ToUndo(cur[u])' <=> ToUndo(cur[u]))
      BY <1>12, <1>16, <3>1, <3>2
    <3> QED
      BY <1>1, <2>1, <2>2, <3>1, <3>2, <3>3 DEF JobInv
  <2> QED
    BY <2>3, <2>4
<1>18. ASSUME NEW u \in Thread PROVE WorkInv(u)'
  <2>1. WorkInv(u)
    BY <1>6
  <2>2. u = t => work[u] = {}
    BY <1>1, <1>2, <2>1 DEF WorkInv
  <2> QED
    BY <1>1, <1>7, <1>11, <2>1, <2>2 DEF WorkInv
<1>19. UnfinishedInv'
  <2>1. \A k : Calling(k)' <=> Calling(k)
    BY <1>1, <1>3, SameCalling
  <2>2. ~Calling(K)
    <3>1. \A u \in Thread : pc[u] = "callback" => job[u] = "dlopen" /\ pc[u] \in DoSteps
      BY DEF CallInv, Sound, JobAt, CtorSteps, DoSteps
    <3> QED
      BY <1>4, <3>1 DEF Calling, Does
  <2>3. \A k : Unfinished(k)' <=> (Unfinished(k) /\ k # K)
    BY <1>1, <1>4, <1>12, <2>1, <2>2 DEF Unfinished
  <2>4. Unfinished(K) <=> K \notin finished
    BY <1>1, <1>8, <2>2, <1>4 DEF Unfinished, ToUndo
  <2>5. CASE K \in finished
    BY <1>1, <1>5, <2>3, <2>4, <2>5, SameUnfinished DEF TaskInv
  <2>6. CASE K \notin finished
    <3> DEFINE S == {k \in made : Unfinished(k)}
               T == {k \in made : Unfinished(k)'}
    <3>1. T = S \ {K} /\ K \in S
      BY <1>4, <2>3, <2>4, <2>6
    <3>2. IsFiniteSet(S)
      BY <1>6, FS_Subset DEF TaskTypes
    <3> HIDE DEF S, T
    <3>3. Cardinality(T) = Cardinality(S) - 1
      BY <3>1, <3>2, FS_RemoveElement
    <3>4. cnt = Cardinality(S)
      BY DEF TaskInv, UnfinishedInv, S
    <3> QED
      BY <1>1, <1>5, <2>6, <3>3, <3>4 DEF UnfinishedInv, T
  <2> QED
    BY <2>5, <2>6
<1> QED
  BY <1>1, <1>2, <1>3, <1>4, <1>8, <1>14, <1>15, <1>17, <1>18, <1>19 DEF OwnInv

LEMMA UndoDestroyOwn ==
  ASSUME CallInv, CallInv', TaskInv, NEW t \in Thread, UndoDestroy(t)
  PROVE  /\ OwnInv' /\ UnfinishedInv' /\ Moves(t) /\ job[t] = "undo" /\ pc[t] = "destroy"
         /\ pc'[t] = "idle" /\ job'[t] = "none" /\ \A u \in Thread : ~Does(u, cur[t])
<1>0. PICK K : K = cur[t]
  OBVIOUS
<1> DEFINE taken == {o \in queue \cup {K} : count[o] = 0}
<1>1. /\ pc[t] = "destroy" /\ Return(t)
      /\ destroyed' = destroyed \cup {K} /\ queue' = (queue \cup {K}) \ taken /\ freed' = freed \cup taken
      /\ lock' = [lock EXCEPT ![K] = NoThread] /\ count' = [count EXCEPT ![K] = @ - 1]
      /\ UNCHANGED <<made, tasks, cnt, finished, corrupted, target, stubs, sw, patched, on, work>>
  BY <1>0, ZenonT(60) DEF UndoDestroy, At, swVars
<1>2. job[t] = "undo"
  BY <1>1 DEF CallInv, Sound, JobAt
<1>3. Moves(t) /\ pc'[t] = "idle" /\ job'[t] = "none"
  BY <1>1, ReturnMoves DEF CallInv
<1>4. /\ K \in made \ (tasks \cup stubs \cup destroyed \cup freed) /\ K \in Task
      /\ \A u \in Thread \ {t} : job[u] \in {"hook", "undo"} => cur[u] # K
      /\ \A u \in Thread : ~Does(u, K)
  BY <1>0, <1>1, <1>2, UndoesAlone DEF TaskInv
<1>5. TaskTypes /\ ListInv /\ CountInv /\ \A u \in Thread : JobInv(u) /\ WorkInv(u)
  BY DEF TaskInv, OwnInv
<1>6. \A u \in Thread \ {t} : pc'[u] = pc[u] /\ job'[u] = job[u] /\ cur'[u] = cur[u]
  BY <1>3 DEF Moves
<1>7. taken \subseteq destroyed' /\ \A o \in taken : o \in made /\ ~Collected(o) /\ ~Leaving(o)
  <2>1. taken \subseteq destroyed \cup {K} /\ taken \subseteq made
    BY <1>4, <1>5 DEF ListInv, TaskTypes
  <2>2. \A o \in taken : count[o] = 0 /\ o \in Task
    BY <2>1, <1>5 DEF TaskTypes
  <2>3. \A o \in taken : ~Collected(o) /\ ~Leaving(o)
    BY <1>5, <2>2 DEF CountInv
  <2> QED
    BY <1>1, <2>1, <2>3
<1> HIDE DEF taken
<1>8. \A k : ~Undoes(t, k)' /\ ~Does(t, k) /\ ~Does(t, k)' /\ (Undoes(t, k) <=> k = K)
  BY <1>0, <1>2, <1>3 DEF Undoes, Does
<1>9. \A u \in Thread \ {t} : \A k : (Undoes(u, k)' <=> Undoes(u, k)) /\ (Does(u, k)' <=> Does(u, k))
  BY <1>3, OthersStay
<1>10. \A k : Collected(k)' <=> Collected(k)
  <2>1. \A u \in Thread : \A k : Does(u, k)' <=> Does(u, k)
    BY <1>8, <1>9
  <2> QED
    BY <1>1, <2>1 DEF Collected
<1>11. Leaving(K) /\ ~Leaving(K)'
  <2>1. \A u \in Thread : ~Undoes(u, K)'
    <3>1. \A u \in Thread \ {t} : ~Undoes(u, K)
      BY <1>4 DEF Undoes
    <3> QED
      BY <1>8, <1>9, <3>1
  <2> QED
    BY <1>8, <2>1 DEF Leaving
<1>12. \A k : k # K => (Leaving(k)' <=> Leaving(k))
  <2>1. \A u \in Thread : \A k : k # K => (Undoes(u, k)' <=> Undoes(u, k))
    BY <1>8, <1>9
  <2> QED
    BY <2>1 DEF Leaving
<1>13. \A k : ToUndo(k)' <=> ToUndo(k)
  <2>1. \A u \in Thread : \A k : (Undoes(u, k)' /\ pc'[u] = "undo") <=> (Undoes(u, k) /\ pc[u] = "undo")
    BY <1>1, <1>3, <1>6, <1>9
  <2> QED
    BY <2>1 DEF ToUndo
<1>14. TaskTypes'
  BY <1>1, <1>4, <1>5, <1>7 DEF TaskTypes
<1>15. ListInv'
  BY <1>1, <1>4, <1>5, <1>7 DEF ListInv
<1>16. CountInv'
  <2>1. ASSUME NEW k \in Task PROVE count'[k] = IF k = K THEN count[k] - 1 ELSE count[k]
    BY <1>1, <1>5 DEF TaskTypes
  <2>2. ASSUME NEW k \in Task
        PROVE  count'[k] = (IF Collected(k)' THEN 1 ELSE 0) + (IF Leaving(k)' THEN 1 ELSE 0)
    <3>1. CASE k = K
      BY <1>5, <1>10, <1>11, <2>1, <3>1 DEF CountInv
    <3>2. CASE k # K
      BY <1>5, <1>10, <1>12, <2>1, <3>2 DEF CountInv
    <3> QED
      BY <3>1, <3>2
  <2> QED
    BY <2>2 DEF CountInv
<1>17. \A k \in made : k # K => lock'[k] = lock[k]
  BY <1>1, <1>5 DEF TaskTypes
<1>18. ASSUME NEW u \in Thread \ {t} PROVE JobInv(u)'
  <2>1. JobInv(u) /\ pc'[u] = pc[u] /\ job'[u] = job[u] /\ cur'[u] = cur[u]
    BY <1>5, <1>6
  <2>2. CASE job[u] = "hook"
    <3>1. cur[u] \in made \ (stubs \cup destroyed') /\ cur[u] # K
      BY <1>1, <1>4, <2>1, <2>2 DEF JobInv
    <3>2. pc[u] \in {"lookup", "hook", "insert"} => cur[u] \notin freed'
      BY <1>1, <1>7, <2>1, <2>2, <3>1 DEF JobInv
    <3>3. \A v \in Thread : job'[v] \in {"hook", "undo"} /\ cur'[v] = cur[u] => v = u
      BY <1>3, <1>6, <2>1, <2>2 DEF JobInv
    <3> QED
      BY <1>1, <2>1, <2>2, <3>1, <3>2, <3>3 DEF JobInv, LinkJobs
  <2>3. CASE job[u] = "undo"
    <3>1. cur[u] \in made \ (tasks \cup destroyed \cup freed) /\ cur[u] # K /\ (pc[u] # "undo" => lock[cur[u]] = u)
      BY <1>4, <2>1, <2>3 DEF JobInv
    <3>2. Leaving(cur[u])
      BY <2>3 DEF Leaving, Undoes
    <3>3. cur[u] \in made \ (tasks \cup destroyed' \cup freed') /\ (pc[u] # "undo" => lock'[cur[u]] = u)
      BY <1>1, <1>7, <1>17, <3>1, <3>2
    <3>4. \A v \in Thread : job'[v] \in {"hook", "undo"} /\ cur'[v] = cur[u] => v = u
      BY <1>3, <1>6, <2>1, <2>3 DEF JobInv
    <3> QED
      BY <1>1, <2>1, <2>3, <3>3, <3>4 DEF JobInv, LinkJobs
  <2>4. CASE job[u] = "dlopen" /\ pc[u] \in DoSteps
    <3>1. Does(u, cur[u]) /\ Collected(cur[u]) /\ cur[u] # K
      BY <1>4, <2>4 DEF Does, Collected
    <3>2. /\ cur[u] \in made \ (work[u] \cup freed') /\ lock'[cur[u]] = u
          /\ cur[u] \in tasks \/ ToUndo(cur[u])
          /\ cur[u] \in finished <=> pc[u] = "callback"
      BY <1>1, <1>7, <1>17, <2>1, <2>4, <3>1 DEF JobInv
    <3>3. cur'[u] \in tasks' \/ ToUndo(cur[u])'
      BY <1>1, <1>13, <2>1, <3>2
    <3> QED
      BY <1>1, <2>1, <2>4, <3>2, <3>3 DEF JobInv
  <2>5. CASE job[u] \notin {"hook", "undo"} /\ ~(job[u] = "dlopen" /\ pc[u] \in DoSteps)
    BY <2>1, <2>5 DEF JobInv
  <2> QED
    BY <2>2, <2>3, <2>4, <2>5
<1>19. JobInv(t)'
  BY <1>3 DEF JobInv, LinkJobs
<1>20. ASSUME NEW u \in Thread PROVE WorkInv(u)'
  <2>1. WorkInv(u)
    BY <1>5
  <2>2. u = t => work[u] = {}
    BY <1>1, <1>2, <2>1 DEF WorkInv
  <2>3. \A k \in work[u] : Collected(k)
    BY DEF Collected
  <2>4. \A k \in work[u] : k \notin freed' /\ (k \in tasks \/ Leaving(k)' \/ k \in destroyed')
    BY <1>1, <1>7, <1>12, <2>1, <2>3 DEF WorkInv
  <2> QED
    BY <1>1, <1>6, <2>1, <2>2, <2>4 DEF WorkInv
<1>21. UnfinishedInv'
  <2>1. \A k : Calling(k)' <=> Calling(k)
    BY <1>1, <1>3, SameCalling
  <2> QED
    BY <1>1, <1>13, <2>1, SameUnfinished DEF Unfinished, TaskInv
<1> QED
  BY <1>0, <1>1, <1>2, <1>3, <1>4, <1>14, <1>15, <1>16, <1>18, <1>19, <1>20, <1>21 DEF OwnInv

\* sh_task_dl_init_pre and sh_task_dl_fini_post take a count of what they collect.
LEMMA CollectOwn ==
  ASSUME CallInv, CallInv', TaskInv, NEW t \in Thread, InitPre(t) \/ FiniPost(t)
  PROVE  /\ OwnInv' /\ UnfinishedInv' /\ Moves(t) /\ job'[t] = job[t]
         /\ \/ pc[t] = "init_pre" /\ pc'[t] = "pending" /\ job[t] = "dlopen"
            \/ pc[t] = "fini_post" /\ pc'[t] = "reset" /\ job[t] = "dlclose"
<1>1. /\ UNCHANGED <<job, cur, on, made, tasks, cnt, finished, corrupted, destroyed, target, lock, queue, freed, stubs,
                     sw, patched>>
      /\ \/ pc[t] = "init_pre" /\ Goto(t, "pending")
         \/ pc[t] = "fini_post" /\ Goto(t, "reset")
  BY DEF InitPre, FiniPost, At, taskVars, swVars
<1>2. pc[t] = "init_pre" => job[t] = "dlopen"
  BY DEF CallInv, Sound, JobAt, CtorSteps
<1>3. pc[t] = "fini_post" => job[t] = "dlclose"
  BY DEF CallInv, Sound, JobAt, DtorSteps
<1>4. {"pending", "reset"} \subseteq Steps
  BY DEF Steps, CtorSteps, DtorSteps
<1>5. /\ Moves(t) /\ job'[t] = job[t] /\ cur'[t] = cur[t] /\ job[t] \in LinkJobs
      /\ \/ pc[t] = "init_pre" /\ pc'[t] = "pending" /\ job[t] = "dlopen"
         \/ pc[t] = "fini_post" /\ pc'[t] = "reset" /\ job[t] = "dlclose"
  BY <1>1, <1>2, <1>3, <1>4, GotoMoves DEF CallInv, LinkJobs
<1>6. TaskTypes /\ ListInv /\ CountInv /\ \A u \in Thread : JobInv(u) /\ WorkInv(u)
  BY DEF TaskInv, OwnInv
<1>7. PICK found : /\ work' = [work EXCEPT ![t] = found]
                   /\ count' = [k \in Task |-> IF k \in found THEN count[k] + 1 ELSE count[k]]
                   /\ found \subseteq tasks
                   /\ pc[t] = "init_pre" => found \cap finished = {}
                   /\ pc[t] = "fini_post" => \A k \in found : k \in finished /\ target[k] = on[t]
  <2>1. CASE InitPre(t)
    <3> DEFINE found == IF cnt > 0 THEN Pending(LibAt(t)) ELSE {}
    <3>1. /\ work' = [work EXCEPT ![t] = found] /\ pc[t] = "init_pre"
          /\ count' = [k \in Task |-> IF k \in found THEN count[k] + 1 ELSE count[k]]
      BY <2>1, ZenonT(60) DEF InitPre, At
    <3>2. found \subseteq tasks /\ found \cap finished = {}
      BY DEF Pending
    <3> HIDE DEF found
    <3> QED
      BY <3>1, <3>2
  <2>2. CASE FiniPost(t)
    <3> DEFINE found == {k \in tasks \cap finished \cap ByName : target[k] = on[t]}
    <3>1. /\ work' = [work EXCEPT ![t] = found] /\ pc[t] = "fini_post"
          /\ count' = [k \in Task |-> IF k \in found THEN count[k] + 1 ELSE count[k]]
      BY <2>2, ZenonT(60) DEF FiniPost, At
    <3>2. found \subseteq tasks /\ \A k \in found : k \in finished /\ target[k] = on[t]
      OBVIOUS
    <3> HIDE DEF found
    <3> QED
      BY <3>1, <3>2
  <2> QED
    BY <2>1, <2>2
<1>8. work'[t] = found /\ \A u \in Thread \ {t} : work'[u] = work[u]
  BY <1>6, <1>7 DEF TaskTypes
<1>9. work[t] = {} /\ \A k : ~Does(t, k) /\ ~Does(t, k)'
  <2>1. work[t] = {}
    BY <1>5, <1>6 DEF WorkInv, DoSteps
  <2> QED
    BY <2>1, <1>5 DEF Does, DoSteps
<1>10. \A k : ~Collected(k) /\ (Collected(k)' <=> k \in found)
  BY <1>5, <1>8, <1>9, CollectedIs, CollectedAfter DEF TaskInv
<1>11. TaskTypes'
  BY <1>1, <1>6, <1>7 DEF TaskTypes
<1>12. \A u \in Thread : \A k : Undoes(u, k)' <=> Undoes(u, k)
  BY <1>1 DEF Undoes
<1>13. \A k : Leaving(k)' <=> Leaving(k)
  BY <1>12 DEF Leaving
<1>14. CountInv'
  BY <1>6, <1>7, <1>10, <1>13 DEF CountInv, TaskTypes
<1>15. JobInv(t)'
  <2>1. JobInv(t)
    BY <1>6
  <2> QED
    BY <1>1, <1>5, <2>1 DEF JobInv, LinkJobs, DoSteps
<1>16. WorkInv(t)'
  BY <1>1, <1>5, <1>6, <1>7, <1>8 DEF WorkInv, ListInv
<1>17. OwnInv' /\ \A k : ToUndo(k)' <=> ToUndo(k)
  BY <1>1, <1>5, <1>8, <1>11, <1>14, <1>15, <1>16, CollectorStep DEF TaskInv
<1>18. UnfinishedInv'
  <2>1. \A k : Calling(k)' <=> Calling(k)
    BY <1>5, SameCalling
  <2> QED
    BY <1>1, <1>17, <2>1, SameUnfinished DEF Unfinished, TaskInv
<1> QED
  BY <1>5, <1>17, <1>18

\* A task that the thread in the linker locks has nobody else at work on it.
LEMMA TakesAlone ==
  ASSUME CallInv, OwnInv, NEW t \in Thread, NEW k \in work[t], lock[k] = NoThread
  PROVE  /\ k \in made /\ k \in Task /\ ~Does(t, k) /\ job[t] \in LinkJobs
         /\ k \notin destroyed => k \in tasks \/ ToUndo(k)
<1>1. JobInv(t) /\ WorkInv(t) /\ TaskTypes
  BY DEF OwnInv
<1>2. k \in made /\ k \in Task /\ job[t] \in LinkJobs /\ (k \in tasks \/ Leaving(k) \/ k \in destroyed)
  BY <1>1 DEF WorkInv, TaskTypes, LinkJobs
<1>3. ~Does(t, k)
  BY <1>1 DEF JobInv, Does
<1>4. Leaving(k) => ToUndo(k)
  <2>1. ASSUME NEW u \in Thread, Undoes(u, k) PROVE pc[u] = "undo"
    BY <2>1, LinkerAssumption DEF OwnInv, JobInv, Undoes
  <2> QED
    BY <2>1 DEF Leaving, ToUndo
<1> QED
  BY <1>2, <1>3, <1>4

\* Who undoes a task is not the thread in the linker.
LEMMA UndoersStay ==
  ASSUME NEW t \in Thread, job[t] \in LinkJobs, job'[t] \in LinkJobs, Moves(t)
  PROVE  \A k : (Leaving(k)' <=> Leaving(k)) /\ (ToUndo(k)' <=> ToUndo(k))
<1>1. \A k : ~Undoes(t, k) /\ ~Undoes(t, k)'
  BY DEF Undoes, LinkJobs
<1>2. \A u \in Thread : \A k : (Undoes(u, k)' <=> Undoes(u, k))
                               /\ ((Undoes(u, k)' /\ pc'[u] = "undo") <=> (Undoes(u, k) /\ pc[u] = "undo"))
  BY <1>1 DEF Moves, Undoes
<1>3. ASSUME NEW k PROVE Leaving(k)' <=> Leaving(k)
  BY <1>2 DEF Leaving
<1>4. ASSUME NEW k PROVE ToUndo(k)' <=> ToUndo(k)
  BY <1>2 DEF ToUndo
<1> QED
  BY <1>3, <1>4

\* Only the thread in the linker runs a task's callback.
LEMMA CallsAlone ==
  ASSUME CallInv, NEW t \in Thread, job[t] \in LinkJobs
  PROVE  \A k : Calling(k) <=> (pc[t] = "callback" /\ cur[t] = k)
<1>1. \A u \in Thread : pc[u] = "callback" => job[u] \in LinkJobs
  BY DEF CallInv, Sound, JobAt, CtorSteps, LinkJobs
<1> QED
  BY <1>1, AloneInLinker DEF Calling

LEMMA CallsAloneAfter ==
  ASSUME CallInv, NEW t \in Thread, job[t] \in LinkJobs, Moves(t)
  PROVE  \A k : Calling(k)' <=> (pc'[t] = "callback" /\ cur'[t] = k)
<1>1. \A u \in Thread \ {t} : pc[u] # "callback"
  BY CallsAlone, AloneInLinker DEF CallInv, Sound, JobAt, CtorSteps, LinkJobs
<1>2. \A u \in Thread \ {t} : pc'[u] # "callback"
  BY <1>1 DEF Moves
<1> QED
  BY <1>2 DEF Calling

LEMMA OneLess ==
  ASSUME TaskInv, UNCHANGED made, NEW K \in made, Unfinished(K), cnt' = cnt - 1,
         \A k : Unfinished(k)' <=> (Unfinished(k) /\ k # K)
  PROVE  UnfinishedInv'
<1> DEFINE S == {k \in made : Unfinished(k)}
           T == {k \in made : Unfinished(k)'}
<1>1. T = S \ {K} /\ K \in S
  OBVIOUS
<1>2. IsFiniteSet(S)
  BY FS_Subset DEF TaskInv, OwnInv, TaskTypes
<1> HIDE DEF S, T
<1>3. Cardinality(T) = Cardinality(S) - 1
  BY <1>1, <1>2, FS_RemoveElement
<1>4. cnt = Cardinality(S)
  BY DEF TaskInv, UnfinishedInv, S
<1> QED
  BY <1>3, <1>4 DEF UnfinishedInv, T

LEMMA OneMore ==
  ASSUME TaskInv, UNCHANGED made, NEW K \in made, ~Unfinished(K), cnt' = cnt + 1,
         \A k : Unfinished(k)' <=> (Unfinished(k) \/ k = K)
  PROVE  UnfinishedInv'
<1> DEFINE S == {k \in made : Unfinished(k)}
           T == {k \in made : Unfinished(k)'}
<1>1. T = S \cup {K} /\ K \notin S
  OBVIOUS
<1>2. IsFiniteSet(S)
  BY FS_Subset DEF TaskInv, OwnInv, TaskTypes
<1> HIDE DEF S, T
<1>3. Cardinality(T) = Cardinality(S) + 1
  BY <1>1, <1>2, FS_AddElement
<1>4. cnt = Cardinality(S)
  BY DEF TaskInv, UnfinishedInv, S
<1> QED
  BY <1>3, <1>4 DEF UnfinishedInv, T

LEMMA TakePendingOwn ==
  ASSUME CallInv, CallInv', TaskInv, NEW t \in Thread, TakePending(t)
  PROVE  /\ OwnInv' /\ UnfinishedInv' /\ Moves(t) /\ job[t] = "dlopen" /\ job'[t] = "dlopen"
         /\ pc[t] = "pending" /\ pc'[t] \in {"pending", "do_pending"}
<1>1. PICK K \in work[t] :
        /\ lock[K] = NoThread
        /\ work' = [work EXCEPT ![t] = @ \ {K}]
        /\ \/ K \in destroyed /\ count' = [count EXCEPT ![K] = @ - 1] /\ UNCHANGED <<lock, cur, pc>>
           \/ /\ K \notin destroyed /\ lock' = [lock EXCEPT ![K] = t] /\ cur' = [cur EXCEPT ![t] = K]
              /\ Goto(t, "do_pending") /\ count' = count
  BY DEF TakePending
<1>2. /\ pc[t] = "pending"
      /\ UNCHANGED <<job, on, made, tasks, cnt, finished, corrupted, destroyed, target, queue, freed, stubs, sw, patched>>
  BY DEF TakePending, At, taskVars, swVars
<1>3. job[t] = "dlopen" /\ job[t] \in LinkJobs
  BY <1>2 DEF CallInv, Sound, JobAt, CtorSteps, LinkJobs
<1>4. TaskTypes /\ ListInv /\ CountInv /\ \A u \in Thread : JobInv(u) /\ WorkInv(u)
  BY DEF TaskInv, OwnInv
<1>5. K \in made /\ K \in Task /\ (K \notin destroyed => K \in tasks \/ ToUndo(K))
  BY <1>1, TakesAlone DEF TaskInv
<1>6. Moves(t) /\ job'[t] = "dlopen"
      /\ \/ pc'[t] = "pending" /\ cur'[t] = cur[t] /\ K \in destroyed
         \/ pc'[t] = "do_pending" /\ cur'[t] = K /\ K \notin destroyed
  <2>1. "do_pending" \in Steps
    BY DEF Steps, CtorSteps
  <2> QED
    BY <1>1, <1>2, <1>3, <2>1 DEF CallInv, CallTypes, Moves, Goto
<1>7. work'[t] = work[t] \ {K} /\ \A u \in Thread \ {t} : work'[u] = work[u]
  BY <1>1, <1>4 DEF TaskTypes
<1>8. \A k : (Leaving(k)' <=> Leaving(k)) /\ (ToUndo(k)' <=> ToUndo(k))
  BY <1>2, <1>3, <1>6, UndoersStay
<1>9. \A k : (Collected(k) <=> k \in work[t])
             /\ (Collected(k)' <=> (k \in work[t] /\ (k = K => K \notin destroyed)))
  <2>1. \A k : ~Does(t, k)
    BY <1>2 DEF Does, DoSteps
  <2>2. \A k : Does(t, k)' <=> (k = K /\ K \notin destroyed)
    BY <1>6 DEF Does, DoSteps
  <2> QED
    BY <1>1, <1>3, <1>6, <1>7, <2>1, <2>2, CollectedIs, CollectedAfter DEF TaskInv
<1>10. TaskTypes'
  BY <1>1, <1>2, <1>4, <1>5 DEF TaskTypes
<1>11. CountInv'
  <2>1. ASSUME NEW k \in Task PROVE count'[k] = IF k = K /\ K \in destroyed THEN count[k] - 1 ELSE count[k]
    BY <1>1, <1>4, <2>1 DEF TaskTypes
  <2> QED
    BY <1>1, <1>4, <1>8, <1>9, <2>1 DEF CountInv
<1>12. \A k \in made : lock'[k] # lock[k] => lock[k] \in {t, NoThread}
  BY <1>1, <1>4 DEF TaskTypes
<1>13. JobInv(t)'
  <2>1. CASE pc'[t] = "pending"
    BY <1>2, <1>4, <1>6, <2>1, <1>3 DEF JobInv, LinkJobs, DoSteps
  <2>2. CASE pc'[t] = "do_pending"
    <3>1. K \notin freed /\ K \notin finished
      BY <1>1, <1>3, <1>4 DEF WorkInv
    <3>2. lock'[K] = t
      BY <1>1, <1>4, <1>5, <1>6, <2>2 DEF TaskTypes
    <3>3. cur'[t] \in tasks' \/ ToUndo(K)'
      BY <1>2, <1>5, <1>6, <1>8, <2>2
    <3> QED
      BY <1>2, <1>5, <1>6, <1>7, <2>2, <3>1, <3>2, <3>3 DEF JobInv, DoSteps, LinkJobs
  <2> QED
    BY <1>6, <2>1, <2>2
<1>14. WorkInv(t)'
  <2>1. WorkInv(t)
    BY <1>4
  <2> QED
    BY <1>2, <1>3, <1>6, <1>7, <1>8, <2>1 DEF WorkInv, DoSteps
<1>15. OwnInv'
  BY <1>2, <1>3, <1>6, <1>7, <1>10, <1>11, <1>12, <1>13, <1>14, CollectorStep DEF TaskInv
<1>16. UnfinishedInv'
  <2>1. \A k : Calling(k)' <=> Calling(k)
    BY <1>2, <1>6, SameCalling
  <2> QED
    BY <1>2, <1>8, <2>1, SameUnfinished DEF Unfinished, TaskInv
<1> QED
  BY <1>2, <1>3, <1>6, <1>15, <1>16

LEMMA DoPendingOwn ==
  ASSUME CallInv, CallInv', TaskInv, NEW t \in Thread, DoPending(t)
  PROVE  /\ OwnInv' /\ UnfinishedInv' /\ Moves(t) /\ job[t] = "dlopen" /\ job'[t] = "dlopen"
         /\ pc[t] = "do_pending" /\ pc'[t] = "record" /\ cur'[t] = cur[t]
<1>0. PICK K : K = cur[t]
  OBVIOUS
<1>1. /\ pc[t] = "do_pending" /\ Goto(t, "record")
      /\ UNCHANGED <<job, cur, on, made, tasks, cnt, finished, destroyed, count, lock, queue, freed, stubs, work>>
      /\ \/ Hook(K, on[t]) /\ target' = [target EXCEPT ![K] = on[t]] /\ corrupted' = corrupted
         \/ /\ UNCHANGED <<sw, patched>> /\ corrupted' = corrupted \cup {K}
            /\ target' = [target EXCEPT ![K] = on[t]] \/ target' = target
  BY <1>0 DEF DoPending, At, HookFails, swVars, refVars
<1>2. job[t] = "dlopen" /\ job[t] \in LinkJobs
  BY <1>1 DEF CallInv, Sound, JobAt, CtorSteps, LinkJobs
<1>3. Moves(t) /\ pc'[t] = "record" /\ job'[t] = "dlopen" /\ cur'[t] = K
  BY <1>0, <1>1, <1>2, GotoMoves DEF CallInv, Steps, TaskSteps
<1>4. TaskTypes /\ ListInv /\ CountInv /\ \A u \in Thread : JobInv(u) /\ WorkInv(u)
  BY DEF TaskInv, OwnInv
<1>5. /\ K \in made \ (work[t] \cup freed) /\ K \in Task /\ lock[K] = t
      /\ K \in tasks \/ ToUndo(K)
      /\ K \notin finished
  BY <1>0, <1>1, <1>2, <1>4 DEF JobInv, DoSteps, TaskTypes
<1>6. \A k : (Leaving(k)' <=> Leaving(k)) /\ (ToUndo(k)' <=> ToUndo(k))
  BY <1>2, <1>3, UndoersStay DEF LinkJobs
<1>7. \A k : Does(t, k)' <=> Does(t, k)
  BY <1>0, <1>1, <1>2, <1>3 DEF Does, DoSteps
<1>8. \A k : Collected(k)' <=> Collected(k)
  BY <1>1, <1>2, <1>3, <1>7, CollectedIs, CollectedAfter DEF TaskInv
<1>9. sw' \in [Addr -> SUBSET made] /\ patched' \in [Addr -> BOOLEAN]
  <2>1. CASE Hook(K, on[t])
    BY <1>4, <1>5, <2>1 DEF Hook, TaskTypes
  <2>2. CASE UNCHANGED <<sw, patched>>
    BY <1>4, <2>2 DEF TaskTypes
  <2> QED
    BY <1>1, <2>1, <2>2
<1>10. TaskTypes' /\ CountInv'
  BY <1>1, <1>4, <1>5, <1>6, <1>8, <1>9 DEF TaskTypes, CountInv
<1>11. ToUndo(K) => Leaving(K)
  BY DEF ToUndo, Leaving
<1>12. JobInv(t)'
  <2>1. cur'[t] \in tasks' \/ ToUndo(K)'
    BY <1>1, <1>3, <1>5, <1>6
  <2> QED
    BY <1>1, <1>3, <1>5, <2>1 DEF JobInv, DoSteps, LinkJobs
<1>13. WorkInv(t)'
  <2>1. WorkInv(t)
    BY <1>4
  <2> QED
    BY <1>1, <1>2, <1>3, <1>6, <2>1 DEF WorkInv, DoSteps
<1>14. OwnInv'
  BY <1>1, <1>2, <1>3, <1>5, <1>10, <1>11, <1>12, <1>13, CollectorStep DEF TaskInv
<1>15. UnfinishedInv'
  <2>1. \A k : Calling(k)' <=> Calling(k)
    BY <1>1, <1>3, SameCalling
  <2> QED
    BY <1>1, <1>6, <2>1, SameUnfinished DEF Unfinished, TaskInv
<1> QED
  BY <1>0, <1>1, <1>2, <1>3, <1>14, <1>15

LEMMA SetFinishedOwn ==
  ASSUME CallInv, CallInv', TaskInv, NEW t \in Thread, SetFinished(t)
  PROVE  /\ OwnInv' /\ UnfinishedInv' /\ Moves(t) /\ job[t] = "dlopen" /\ job'[t] = "dlopen"
         /\ pc[t] = "finish" /\ pc'[t] = "callback" /\ cur'[t] = cur[t]
<1>0. PICK K : K = cur[t]
  OBVIOUS
<1>1. /\ pc[t] = "finish" /\ Goto(t, "callback") /\ finished' = finished \cup {K}
      /\ UNCHANGED <<job, cur, on, made, tasks, cnt, corrupted, destroyed, target, count, lock, queue, freed, stubs, sw,
                     patched, work>>
  BY <1>0 DEF SetFinished, At, swVars, refVars
<1>2. job[t] = "dlopen" /\ job[t] \in LinkJobs
  BY <1>1 DEF CallInv, Sound, JobAt, CtorSteps, LinkJobs
<1>3. Moves(t) /\ pc'[t] = "callback" /\ job'[t] = "dlopen" /\ cur'[t] = K
  BY <1>0, <1>1, <1>2, GotoMoves DEF CallInv, Steps, CtorSteps
<1>4. TaskTypes /\ ListInv /\ CountInv /\ \A u \in Thread : JobInv(u) /\ WorkInv(u)
  BY DEF TaskInv, OwnInv
<1>5. /\ K \in made \ (work[t] \cup freed) /\ lock[K] = t
      /\ K \in tasks \/ ToUndo(K)
      /\ K \notin finished
  BY <1>0, <1>1, <1>2, <1>4 DEF JobInv, DoSteps
<1>6. \A k : (Leaving(k)' <=> Leaving(k)) /\ (ToUndo(k)' <=> ToUndo(k))
  BY <1>2, <1>3, UndoersStay DEF LinkJobs
<1>7. \A k : Does(t, k)' <=> Does(t, k)
  BY <1>0, <1>1, <1>2, <1>3 DEF Does, DoSteps
<1>8. \A k : Collected(k)' <=> Collected(k)
  BY <1>1, <1>2, <1>3, <1>7, CollectedIs, CollectedAfter DEF TaskInv
<1>9. TaskTypes' /\ CountInv'
  BY <1>1, <1>4, <1>5, <1>6, <1>8 DEF TaskTypes, CountInv
<1>10. ToUndo(K) => Leaving(K)
  BY DEF ToUndo, Leaving
<1>11. JobInv(t)'
  <2>1. cur'[t] \in tasks' \/ ToUndo(K)'
    BY <1>1, <1>3, <1>5, <1>6
  <2> QED
    BY <1>1, <1>3, <1>5, <2>1 DEF JobInv, DoSteps, LinkJobs
<1>12. WorkInv(t)'
  <2>1. WorkInv(t)
    BY <1>4
  <2> QED
    BY <1>1, <1>2, <1>3, <1>5, <1>6, <2>1 DEF WorkInv, DoSteps
<1>13. OwnInv'
  BY <1>1, <1>2, <1>3, <1>5, <1>9, <1>10, <1>11, <1>12, CollectorStep DEF TaskInv
<1>14. UnfinishedInv'
  <2>1. \A k : ~Calling(k)
    BY <1>1, <1>2, CallsAlone
  <2>2. \A k : Calling(k)' <=> k = K
    BY <1>2, <1>3, CallsAloneAfter
  <2>3. \A k : Unfinished(k)' <=> Unfinished(k)
    BY <1>1, <1>5, <1>6, <2>1, <2>2 DEF Unfinished
  <2> QED
    BY <1>1, <2>3, SameUnfinished DEF TaskInv
<1> QED
  BY <1>0, <1>1, <1>2, <1>3, <1>13, <1>14

LEMMA CallbackOwn ==
  ASSUME CallInv, CallInv', TaskInv, NEW t \in Thread, Callback(t)
  PROVE  /\ OwnInv' /\ UnfinishedInv' /\ Moves(t) /\ job[t] = "dlopen" /\ job'[t] = "dlopen"
         /\ pc[t] = "callback" /\ pc'[t] = "pending"
<1>0. PICK K : K = cur[t]
  OBVIOUS
<1>1. /\ pc[t] = "callback" /\ Goto(t, "pending") /\ cur' = [cur EXCEPT ![t] = NoTask] /\ cnt' = cnt - 1
      /\ lock' = [lock EXCEPT ![K] = NoThread] /\ count' = [count EXCEPT ![K] = @ - 1]
      /\ UNCHANGED <<job, on, made, tasks, finished, corrupted, destroyed, target, queue, freed, stubs, sw, patched, work>>
  BY <1>0 DEF Callback, At, swVars
<1>2. job[t] = "dlopen" /\ job[t] \in LinkJobs
  BY <1>1 DEF CallInv, Sound, JobAt, CtorSteps, LinkJobs
<1>3. Moves(t) /\ pc'[t] = "pending" /\ job'[t] = "dlopen" /\ cur'[t] = NoTask
  <2>1. "pending" \in Steps
    BY DEF Steps, CtorSteps
  <2> QED
    BY <1>1, <1>2, <2>1 DEF CallInv, CallTypes, Moves, Goto
<1>4. TaskTypes /\ ListInv /\ CountInv /\ \A u \in Thread : JobInv(u) /\ WorkInv(u)
  BY DEF TaskInv, OwnInv
<1>5. /\ K \in made \ (work[t] \cup freed) /\ K \in Task /\ lock[K] = t
      /\ K \in finished
  BY <1>0, <1>1, <1>2, <1>4 DEF JobInv, DoSteps, TaskTypes
<1>6. \A k : (Leaving(k)' <=> Leaving(k)) /\ (ToUndo(k)' <=> ToUndo(k))
  BY <1>2, <1>3, UndoersStay DEF LinkJobs
<1>7. \A k : ~Does(t, k)' /\ (Does(t, k) <=> k = K)
  BY <1>0, <1>1, <1>2, <1>3 DEF Does, DoSteps
<1>8. \A k : Collected(k)' <=> (Collected(k) /\ k # K)
  BY <1>1, <1>2, <1>3, <1>5, <1>7, CollectedIs, CollectedAfter DEF TaskInv
<1>9. Collected(K)
  BY <1>7 DEF Collected
<1>10. TaskTypes'
  BY <1>1, <1>4, <1>5 DEF TaskTypes
<1>11. CountInv'
  <2>1. ASSUME NEW k \in Task PROVE count'[k] = IF k = K THEN count[k] - 1 ELSE count[k]
    BY <1>1, <1>4, <2>1 DEF TaskTypes
  <2> QED
    BY <1>4, <1>6, <1>8, <1>9, <2>1 DEF CountInv
<1>12. \A k \in made : lock'[k] # lock[k] => lock[k] \in {t, NoThread}
  BY <1>1, <1>4, <1>5 DEF TaskTypes
<1>13. JobInv(t)'
  BY <1>3 DEF JobInv, DoSteps, LinkJobs
<1>14. WorkInv(t)'
  <2>1. WorkInv(t)
    BY <1>4
  <2> QED
    BY <1>1, <1>2, <1>3, <1>6, <2>1 DEF WorkInv, DoSteps
<1>15. OwnInv'
  BY <1>1, <1>2, <1>3, <1>10, <1>11, <1>12, <1>13, <1>14, CollectorStep DEF TaskInv
<1>16. UnfinishedInv'
  <2>1. \A k : Calling(k) <=> k = K
    BY <1>0, <1>1, <1>2, CallsAlone
  <2>2. \A k : ~Calling(k)'
    BY <1>2, <1>3, CallsAloneAfter
  <2>3. Unfinished(K) /\ \A k : Unfinished(k)' <=> (Unfinished(k) /\ k # K)
    BY <1>1, <1>5, <1>6, <2>1, <2>2 DEF Unfinished
  <2> QED
    BY <1>1, <1>5, <2>3, OneLess
<1> QED
  BY <1>1, <1>2, <1>3, <1>15, <1>16

\* The switches at the closed address are dropped; their tasks are not touched yet.
LEMMA SweepOwn ==
  ASSUME CallInv, CallInv', TaskInv, NEW t \in Thread, Sweep(t)
  PROVE  /\ OwnInv' /\ UnfinishedInv' /\ Moves(t) /\ job[t] = "dlclose" /\ job'[t] = "dlclose"
         /\ pc[t] = "sweep" /\ pc'[t] = "fini_post"
<1>1. /\ pc[t] = "sweep" /\ Goto(t, "fini_post") /\ sw' = [sw EXCEPT ![on[t]] = {}]
      /\ UNCHANGED <<job, cur, on, made, tasks, cnt, finished, corrupted, destroyed, target, count, lock, queue, freed,
                     stubs, patched, work>>
  BY DEF Sweep, At, taskVars, refVars
<1>2. job[t] = "dlclose" /\ job[t] \in LinkJobs
  BY <1>1 DEF CallInv, Sound, JobAt, DtorSteps, LinkJobs
<1>3. Moves(t) /\ pc'[t] = "fini_post" /\ job'[t] = "dlclose" /\ cur'[t] = cur[t]
  BY <1>1, <1>2, GotoMoves DEF CallInv, Steps, DtorSteps
<1>4. TaskTypes /\ ListInv /\ CountInv /\ \A u \in Thread : JobInv(u) /\ WorkInv(u)
  BY DEF TaskInv, OwnInv
<1>5. \A k : ~Undoes(t, k) /\ ~Undoes(t, k)' /\ ~Does(t, k) /\ ~Does(t, k)'
  BY <1>2, <1>3 DEF Undoes, Does
<1>6. \A k : (Leaving(k)' <=> Leaving(k)) /\ (ToUndo(k)' <=> ToUndo(k)) /\ (Collected(k)' <=> Collected(k))
  BY <1>1, <1>3, <1>5, SameRoles
<1>7. TaskTypes' /\ CountInv'
  BY <1>1, <1>4, <1>6 DEF TaskTypes, CountInv
<1>8. JobInv(t)' /\ WorkInv(t)'
  <2>1. JobInv(t) /\ WorkInv(t)
    BY <1>4
  <2>2. work[t] = {}
    BY <1>1, <2>1 DEF WorkInv, DoSteps
  <2> QED
    BY <1>1, <1>2, <1>3, <2>1, <2>2 DEF JobInv, WorkInv, LinkJobs
<1>9. OwnInv'
  BY <1>1, <1>2, <1>3, <1>7, <1>8, CollectorStep DEF TaskInv
<1>10. UnfinishedInv'
  <2>1. \A k : Calling(k)' <=> Calling(k)
    BY <1>1, <1>3, SameCalling
  <2> QED
    BY <1>1, <1>6, <2>1, SameUnfinished DEF Unfinished, TaskInv
<1> QED
  BY <1>1, <1>2, <1>3, <1>9, <1>10

LEMMA ResetOwn ==
  ASSUME CallInv, CallInv', TaskInv, NEW t \in Thread, Reset(t)
  PROVE  OwnInv' /\ UnfinishedInv' /\ Moves(t) /\ job[t] = "dlclose" /\ pc[t] = "reset" /\ UNCHANGED <<pc, job, cur>>
<1>1. PICK K \in work[t] :
        /\ lock[K] = NoThread
        /\ work' = [work EXCEPT ![t] = @ \ {K}]
        /\ count' = [count EXCEPT ![K] = @ - 1]
        /\ \/ K \in destroyed /\ UNCHANGED <<target, finished, corrupted, cnt>>
           \/ /\ K \notin destroyed /\ target' = [target EXCEPT ![K] = NoAddr]
              /\ finished' = finished \ {K} /\ corrupted' = corrupted \ {K} /\ cnt' = cnt + 1
  BY DEF Reset
<1>2. /\ pc[t] = "reset"
      /\ UNCHANGED <<pc, job, cur, on, made, tasks, destroyed, lock, queue, freed, stubs, sw, patched>>
  BY DEF Reset, At, swVars
<1>3. job[t] = "dlclose" /\ job[t] \in LinkJobs
  BY <1>2 DEF CallInv, Sound, JobAt, DtorSteps, LinkJobs
<1>4. TaskTypes /\ ListInv /\ CountInv /\ \A u \in Thread : JobInv(u) /\ WorkInv(u)
  BY DEF TaskInv, OwnInv
<1>5. K \in made /\ K \in Task /\ (K \notin destroyed => K \in tasks \/ ToUndo(K)) /\ K \in finished
  BY <1>1, <1>3, <1>4, TakesAlone DEF TaskInv, WorkInv
<1>6. Moves(t)
  BY <1>2 DEF CallInv, CallTypes, Moves
<1>7. work'[t] = work[t] \ {K} /\ \A u \in Thread \ {t} : work'[u] = work[u]
  BY <1>1, <1>4 DEF TaskTypes
<1>8. \A k : (Leaving(k)' <=> Leaving(k)) /\ (ToUndo(k)' <=> ToUndo(k))
  BY <1>2, <1>3, <1>6, UndoersStay
<1>9. \A k : (Collected(k) <=> k \in work[t]) /\ (Collected(k)' <=> (k \in work[t] /\ k # K))
  <2>1. \A k : ~Does(t, k) /\ ~Does(t, k)'
    BY <1>2, <1>3 DEF Does
  <2> QED
    BY <1>3, <1>6, <1>7, <2>1, CollectedIs, CollectedAfter DEF TaskInv
<1>10. TaskTypes'
  BY <1>1, <1>2, <1>4, <1>5 DEF TaskTypes
<1>11. CountInv'
  <2>1. ASSUME NEW k \in Task PROVE count'[k] = IF k = K THEN count[k] - 1 ELSE count[k]
    BY <1>1, <1>4, <2>1 DEF TaskTypes
  <2> QED
    BY <1>1, <1>4, <1>8, <1>9, <2>1 DEF CountInv
<1>12. JobInv(t)'
  <2>1. JobInv(t)
    BY <1>4
  <2> QED
    BY <1>2, <1>3, <2>1 DEF JobInv, LinkJobs
<1>13. \A k \in made : k # K => target'[k] = target[k] /\ (k \in finished' <=> k \in finished)
  BY <1>1, <1>4 DEF TaskTypes
<1>14. WorkInv(t)'
  <2>1. WorkInv(t) /\ work[t] \subseteq made
    BY <1>4 DEF TaskTypes
  <2> QED
    BY <1>2, <1>3, <1>7, <1>8, <1>13, <2>1 DEF WorkInv
<1>15. finished' \subseteq finished /\ corrupted' \subseteq corrupted
  BY <1>1
<1>16. OwnInv'
  BY <1>2, <1>3, <1>6, <1>7, <1>10, <1>11, <1>12, <1>14, <1>15, CollectorStep DEF TaskInv
<1>17. UnfinishedInv'
  <2>1. (\A k : ~Calling(k)) /\ \A k : ~Calling(k)'
    BY <1>2, <1>3, <1>6, CallsAlone, CallsAloneAfter
  <2>2. CASE K \in destroyed
    <3>1. UNCHANGED <<target, finished, corrupted, cnt>>
      BY <1>1, <2>2
    <3> QED
      BY <1>2, <1>8, <2>1, <3>1, SameUnfinished DEF Unfinished, TaskInv
  <2>3. CASE K \notin destroyed
    <3>1. finished' = finished \ {K} /\ cnt' = cnt + 1
      BY <1>1, <2>3
    <3>2. ~Unfinished(K)
      BY <1>5, <2>1 DEF Unfinished
    <3>3. \A k : Unfinished(k)' <=> (Unfinished(k) \/ k = K)
      BY <1>2, <1>5, <1>8, <2>1, <2>3, <3>1 DEF Unfinished
    <3> QED
      BY <1>2, <1>5, <3>1, <3>2, <3>3, OneMore
  <2> QED
    BY <2>2, <2>3
<1> QED
  BY <1>2, <1>3, <1>6, <1>16, <1>17

-----------------------------------------------------------------------------
(* The proxies that the steps of tasks leave.                              *)

LEMMA NotClosed ==
  ASSUME CallInv, NEW t \in Thread, job[t] # "dlclose"
  PROVE  ~Closed(pc[t], job[t])
BY DEF Closed

LEMMA IdleInNone ==
  ASSUME CallInv, NEW t \in Thread, pc[t] = "idle"
  PROVE  job[t] \notin LinkJobs
BY DEF CallInv, Sound, JobAt

\* These steps change no proxy.
LEMMA QuietTaskHooks ==
  ASSUME CallInv, CallInv', TaskInv, NEW t \in Thread,
         \/ Insert(t) \/ Record(t) \/ Dladdr(t) \/ (\E k \in Task : CallUndo(t, k))
         \/ InitPre(t) \/ FiniPost(t) \/ TakePending(t) \/ Callback(t)
  PROVE  HookInv'
<1>1. UNCHANGED <<finished, corrupted, destroyed, target, sw, patched, residue, on>>
  BY DEF Insert, Record, Dladdr, CallUndo, InitPre, FiniPost, TakePending, Callback, taskVars, swVars
<1>2. CASE Insert(t)
  <2>1. /\ job[t] = "hook" /\ pc[t] \in {"lookup", "hook", "insert"} /\ Moves(t)
        /\ job'[t] = "hook" /\ cur'[t] = cur[t] /\ pc'[t] \in {"hook", "insert", "record"}
    BY <1>2, HookerSteps
  <2>2. \A k : ~Undoes(t, k)' /\ ~Does(t, k) /\ ~Closed(pc[t], job[t])
    BY <2>1 DEF Undoes, Does, Closed
  <2> QED
    BY <1>1, <2>1, <2>2, QuietHooks DEF TaskInv
<1>3. CASE Record(t) \/ Dladdr(t)
  <2>1. /\ pc[t] \in {"record", "dladdr"} /\ Moves(t)
        /\ \/ pc'[t] = "dladdr" /\ job'[t] = job[t] /\ cur'[t] = cur[t]
           \/ job[t] = "hook" /\ pc'[t] = "idle" /\ job'[t] = "none"
           \/ job[t] = "undo" /\ pc'[t] = "destroy" /\ job'[t] = job[t] /\ cur'[t] = cur[t]
           \/ job[t] = "dlopen" /\ pc'[t] = "finish" /\ job'[t] = job[t] /\ cur'[t] = cur[t]
    BY <1>3, RecordSteps
  <2>2. \A k : Undoes(t, k)' => Undoes(t, k) /\ pc[t] # "undo"
    BY <2>1 DEF Undoes
  <2>3. \A k : Does(t, k) => Does(t, k)' /\ pc'[t] \in DoneSteps
    BY <2>1 DEF Does, DoSteps, DoneSteps
  <2>4. ~Closed(pc[t], job[t])
    BY <2>1 DEF Closed
  <2> QED
    BY <1>1, <2>1, <2>2, <2>3, <2>4, QuietHooks DEF TaskInv
<1>4. CASE \E k \in Task : CallUndo(t, k)
  <2>1. Moves(t) /\ ~TaskAt(pc[t], job[t]) /\ pc[t] = "idle" /\ pc'[t] = "undo"
    BY <1>4, CallUndoOwn
  <2>2. (\A k : ~Does(t, k)) /\ ~Closed(pc[t], job[t])
    BY <2>1 DEF Does, TaskAt, Closed
  <2> QED
    BY <1>1, <2>1, <2>2, QuietHooks DEF TaskInv
<1>5. CASE InitPre(t) \/ FiniPost(t)
  <2>1. /\ Moves(t) /\ job'[t] = job[t]
        /\ \/ pc[t] = "init_pre" /\ pc'[t] = "pending" /\ job[t] = "dlopen"
           \/ pc[t] = "fini_post" /\ pc'[t] = "reset" /\ job[t] = "dlclose"
    BY <1>5, CollectOwn
  <2>2. \A k : ~Undoes(t, k)' /\ ~Does(t, k)
    BY <2>1 DEF Undoes, Does, DoSteps
  <2>3. Closed(pc[t], job[t]) => Closed(pc'[t], job'[t])
    BY <2>1 DEF Closed
  <2> QED
    BY <1>1, <2>1, <2>2, <2>3, QuietHooks DEF TaskInv
<1>6. CASE TakePending(t) \/ Callback(t)
  <2>1. Moves(t) /\ job[t] = "dlopen" /\ job'[t] = "dlopen" /\ pc[t] \in {"pending", "callback"}
    BY <1>6, TakePendingOwn, CallbackOwn
  <2>2. \A k : ~Undoes(t, k)' /\ ~(Does(t, k) /\ pc[t] \in DoneSteps) /\ ~Closed(pc[t], job[t])
    BY <2>1 DEF Undoes, DoneSteps, Closed
  <2> QED
    BY <1>1, <2>1, <2>2, QuietHooks DEF TaskInv
<1> QED
  BY <1>2, <1>3, <1>4, <1>5, <1>6

\* A task that was not done has no proxy that counts.
LEMMA CallHookHooks ==
  ASSUME CallInv, CallInv', TaskInv, NEW t \in Thread, NEW K \in Task, CallHook(t, K)
  PROVE  HookInv'
<1>1. /\ Moves(t) /\ ~TaskAt(pc[t], job[t]) /\ pc[t] = "idle" /\ job'[t] = "hook" /\ K \notin made
  BY CallHookOwn
<1>2. /\ UNCHANGED <<finished, corrupted, destroyed, sw, patched, residue, on>>
      /\ \E a : target' = [target EXCEPT ![K] = a]
  BY DEF CallHook, swVars, TaskInv, OwnInv, TaskTypes
<1>3. /\ target = [k \in Task |-> target[k]] /\ made \subseteq Task
      /\ corrupted \subseteq made /\ sw \in [Addr -> SUBSET made]
  BY DEF TaskInv, OwnInv, TaskTypes
<1>4. \A k \in made : target'[k] = target[k]
  BY <1>1, <1>2, <1>3
<1>5. \A k : ~Undoes(t, k)' /\ ~Does(t, k) /\ ~Closed(pc[t], job[t])
  BY <1>1 DEF Undoes, Does, TaskAt, Closed
<1>6. \A k : (Done(k) => Done(k)')
             /\ \A a : Own(k, a) /\ target'[k] = target[k] /\ k \notin destroyed' \cup corrupted' => Own(k, a)'
  BY <1>1, <1>2, <1>5, OwnStays
<1>7. \A k \in corrupted' : Done(k)'
  BY <1>2, <1>6 DEF TaskInv, HookInv
<1>8. ASSUME NEW a \in Addr, NEW k \in sw'[a], patched'[a], patched[a] /\ k \in sw[a] => Own(k, a)
      PROVE  Own(k, a)'
  <2>1. k \in made /\ Own(k, a)
    BY <1>2, <1>3, <1>8
  <2> QED
    BY <1>2, <1>4, <1>6, <2>1 DEF Own
<1> QED
  BY <1>1, <1>2, <1>5, <1>7, <1>8, HooksFrom DEF TaskInv

LEMMA LookupHooks ==
  ASSUME CallInv, CallInv', TaskInv, NEW t \in Thread, Lookup(t)
  PROVE  HookInv'
<1>0. PICK K : K = cur[t]
  OBVIOUS
<1>1. /\ job[t] = "hook" /\ Moves(t) /\ job'[t] = "hook" /\ pc[t] = "lookup"
  BY HookerSteps DEF Lookup, At
<1>2. /\ UNCHANGED <<finished, corrupted, destroyed, sw, patched, residue, on>>
      /\ \E a : target' \in {target, [target EXCEPT ![K] = a]}
  BY <1>0 DEF Lookup, swVars
<1>3. K \notin finished /\ ~Collected(K)
  BY <1>0, <1>1, HooksAlone DEF TaskInv, OwnInv, JobInv
<1>4. ~Done(K)
  BY <1>3 DEF Done, Collected
<1>5. sw \in [Addr -> SUBSET made] /\ \A k \in made : k # K => target'[k] = target[k]
  BY <1>2 DEF TaskInv, OwnInv, TaskTypes
<1>6. \A k : ~Undoes(t, k)' /\ ~Does(t, k) /\ ~Closed(pc[t], job[t])
  BY <1>1 DEF Undoes, Does, Closed
<1>7. \A k : (Done(k) => Done(k)')
             /\ \A a : Own(k, a) /\ target'[k] = target[k] /\ k \notin destroyed' \cup corrupted' => Own(k, a)'
  BY <1>1, <1>2, <1>6, OwnStays
<1>8. \A k \in corrupted' : Done(k)'
  BY <1>2, <1>7 DEF TaskInv, HookInv
<1>9. ASSUME NEW a \in Addr, NEW k \in sw'[a], patched'[a], patched[a] /\ k \in sw[a] => Own(k, a)
      PROVE  Own(k, a)'
  <2>1. Own(k, a) /\ k \in made /\ k # K
    BY <1>2, <1>4, <1>5, <1>9 DEF Own
  <2> QED
    BY <1>2, <1>5, <1>7, <2>1 DEF Own
<1> QED
  BY <1>1, <1>2, <1>6, <1>8, <1>9, HooksFrom DEF TaskInv

\* A hook puts a task's proxy where its target is.
LEMMA HookedAt ==
  ASSUME TaskTypes, NEW K, NEW b, Hook(K, b), NEW a \in Addr, NEW k \in sw'[a], patched'[a]
  PROVE  (k = K /\ a = b) \/ (patched[a] /\ k \in sw[a])
<1>1. /\ sw' = [sw EXCEPT ![b] = @ \cup {K}] /\ patched' = [patched EXCEPT ![b] = @ \/ sw[b] = {}]
      /\ sw \in [Addr -> SUBSET made] /\ patched \in [Addr -> BOOLEAN]
  BY DEF Hook, TaskTypes
<1>2. CASE a = b
  <2>1. sw'[a] = sw[a] \cup {K} /\ patched'[a] = (patched[a] \/ sw[a] = {})
    BY <1>1, <1>2
  <2> QED
    BY <1>2, <2>1
<1>3. CASE a # b
  <2>1. sw'[a] = sw[a] /\ patched'[a] = patched[a]
    BY <1>1, <1>3
  <2> QED
    BY <2>1
<1> QED
  BY <1>2, <1>3

LEMMA DoHookHooks ==
  ASSUME CallInv, CallInv', TaskInv, NEW t \in Thread, DoHook(t)
  PROVE  HookInv'
<1>0. PICK K : K = cur[t]
  OBVIOUS
<1>1. /\ job[t] = "hook" /\ Moves(t) /\ job'[t] = "hook" /\ pc[t] = "hook"
  BY HookerSteps DEF DoHook, At
<1>2. /\ UNCHANGED <<corrupted, destroyed, target, residue, on>> /\ finished' = finished \cup {K}
      /\ Hook(K, target[K]) \/ UNCHANGED <<sw, patched>>
  BY <1>0 DEF DoHook, Hook, HookFails, swVars
<1>3. K \notin corrupted \cup destroyed /\ ~Leaving(K)
  BY <1>0, <1>1, HooksAlone DEF TaskInv
<1>4. \A k : ~Undoes(t, k)' /\ ~Does(t, k) /\ ~Closed(pc[t], job[t])
  BY <1>1 DEF Undoes, Does, Closed
<1>5. \A k : (Done(k) => Done(k)')
             /\ \A a : Own(k, a) /\ target'[k] = target[k] /\ k \notin destroyed' \cup corrupted' => Own(k, a)'
  BY <1>1, <1>2, <1>4, OwnStays
<1>6. \A k \in corrupted' : Done(k)'
  BY <1>2, <1>5 DEF TaskInv, HookInv
<1>7. Own(K, target[K])'
  <2>1. \A u \in Thread : ~Undoes(u, K)'
    BY <1>1, <1>3, <1>4, OthersStay DEF Leaving
  <2> QED
    BY <1>2, <1>3, <2>1 DEF Own, Done
<1>8. ASSUME NEW a \in Addr, NEW k \in sw'[a], patched'[a], patched[a] /\ k \in sw[a] => Own(k, a)
      PROVE  Own(k, a)'
  <2>1. (k = K /\ a = target[K]) \/ (patched[a] /\ k \in sw[a])
    BY <1>2, <1>8, HookedAt DEF TaskInv, OwnInv
  <2>2. CASE k = K /\ a = target[K]
    BY <1>2, <1>7, <2>2
  <2>3. CASE Own(k, a)
    BY <1>2, <1>5, <2>3 DEF Own
  <2> QED
    BY <1>8, <2>1, <2>2, <2>3
<1> QED
  BY <1>1, <1>2, <1>4, <1>6, <1>8, HooksFrom DEF TaskInv

\* An unhook adds no proxy, and takes the task's own out of the chain or counts it as what remains.
LEMMA UnhookedAt ==
  ASSUME NEW K, NEW b, Unhook(K, b) \/ UnhookFails(K, b), NEW S, sw \in [Addr -> SUBSET S], patched \in [Addr -> BOOLEAN],
         DOMAIN residue = Addr, NEW a \in Addr, NEW k \in sw'[a], patched'[a], k \notin residue'[a]
  PROVE  patched[a] /\ k \in sw[a] /\ ~(k = K /\ a = b)
<1>1. PICK less : less = Less(K, b)
  OBVIOUS
<1>2. less \subseteq sw[b] \ {K}
  BY <1>1 DEF Less
<1>3. CASE Unhook(K, b)
  <2>1. PICK stays : patched' = [patched EXCEPT ![b] = @ /\ stays]
    BY <1>3 DEF Unhook
  <2>2. sw' = [sw EXCEPT ![b] = less]
    BY <1>1, <1>3 DEF Unhook
  <2> QED
    BY <1>2, <2>1, <2>2
<1>4. CASE UnhookFails(K, b)
  <2>1. /\ sw' = [sw EXCEPT ![b] = IF less = {} THEN {} ELSE @]
        /\ residue' = [residue EXCEPT ![b] = @ \cup (sw[b] \ less)] /\ patched' = patched
    BY <1>1, <1>4 DEF UnhookFails
  <2>2. CASE a = b
    <3>1. sw'[a] \subseteq sw[a] /\ residue'[a] = residue[a] \cup (sw[a] \ less)
      BY <2>1, <2>2
    <3> QED
      BY <1>2, <2>1, <2>2, <3>1
  <2>3. CASE a # b
    BY <2>1, <2>3
  <2> QED
    BY <2>2, <2>3
<1> QED
  BY <1>3, <1>4

LEMMA UndoHooks ==
  ASSUME CallInv, CallInv', TaskInv, NEW t \in Thread, Undo(t)
  PROVE  HookInv'
<1>0. PICK K : K = cur[t]
  OBVIOUS
<1>1. /\ Moves(t) /\ job[t] = "undo" /\ pc[t] = "undo" /\ job'[t] = "undo" /\ cur'[t] = K
      /\ pc'[t] = "record" /\ \A u \in Thread : ~Does(u, K)
  BY <1>0, UndoOwn
<1>2. /\ UNCHANGED <<finished, corrupted, destroyed, target, on>>
      /\ \/ (K \notin finished \/ K \in corrupted) /\ UNCHANGED <<sw, patched>>
         \/ Unhook(K, target[K])
         \/ UnhookFails(K, target[K])
  BY <1>0 DEF Undo, swVars
<1>3. \A k : (Undoes(t, k)' <=> k = K) /\ ~Does(t, k) /\ ~Closed(pc[t], job[t])
  BY <1>1 DEF Undoes, Does, Closed
<1>4. \A k : Done(k) => Done(k)'
  <2>1. \A u \in Thread : \A k : (Does(u, k) /\ pc[u] \in DoneSteps) => (Does(u, k)' /\ pc'[u] \in DoneSteps)
    BY <1>1, <1>3, OthersStay
  <2> QED
    BY <1>2, <2>1 DEF Done
<1>5. \A k : k # K => \A a : Own(k, a) => Own(k, a)'
  BY <1>1, <1>2, <1>3, OwnStays DEF Own
<1>6. \A k \in corrupted' : Done(k)'
  BY <1>2, <1>4 DEF TaskInv, HookInv
<1>7. sw \in [Addr -> SUBSET made] /\ patched \in [Addr -> BOOLEAN] /\ DOMAIN residue = Addr
  BY DEF TaskInv, OwnInv, TaskTypes, HookInv
<1>8. DOMAIN residue' = DOMAIN residue /\ \A a \in Addr : residue[a] \subseteq residue'[a]
  <2>1. CASE UnhookFails(K, target[K])
    <3>1. PICK S : residue' = [residue EXCEPT ![target[K]] = @ \cup S]
      BY <2>1 DEF UnhookFails
    <3> QED
      BY <1>7, <3>1
  <2>2. CASE UNCHANGED residue
    BY <2>2
  <2> QED
    <3>1. UnhookFails(K, target[K]) \/ UNCHANGED residue
      BY <1>0 DEF Undo, Unhook, swVars
    <3> QED
      BY <2>1, <2>2, <3>1
<1>9. ASSUME NEW a \in Addr, NEW k \in sw'[a], patched'[a], patched[a] /\ k \in sw[a] => Own(k, a), k \notin residue'[a]
      PROVE  Own(k, a)'
  <2>1. patched[a] /\ k \in sw[a] /\ (k = K => K \notin finished \/ K \in corrupted \/ a # target[K])
    <3>1. CASE UNCHANGED <<sw, patched>> /\ (K \notin finished \/ K \in corrupted)
      BY <1>1, <1>9, <3>1
    <3>2. CASE Unhook(K, target[K]) \/ UnhookFails(K, target[K])
      <4>1. PICK b : b = target[K]
        OBVIOUS
      <4>2. Unhook(K, b) \/ UnhookFails(K, b)
        BY <3>2, <4>1
      <4>3. patched[a] /\ k \in sw[a] /\ ~(k = K /\ a = b)
        BY <1>7, <1>9, <4>2, UnhookedAt
      <4> QED
        BY <4>1, <4>3
    <3> QED
      BY <1>2, <3>1, <3>2
  <2>2. Own(k, a)
    BY <1>9, <2>1
  <2>3. k # K
    BY <1>1, <2>1, <2>2 DEF Own, Done
  <2> QED
    BY <1>5, <2>2, <2>3
<1> QED
  BY <1>1, <1>2, <1>3, <1>6, <1>8, <1>9, HooksFrom DEF TaskInv

LEMMA UndoDestroyHooks ==
  ASSUME CallInv, CallInv', TaskInv, NEW t \in Thread, UndoDestroy(t)
  PROVE  HookInv'
<1>0. PICK K : K = cur[t]
  OBVIOUS
<1>1. Moves(t) /\ job[t] = "undo" /\ pc[t] = "destroy" /\ pc'[t] = "idle" /\ job'[t] = "none"
  BY UndoDestroyOwn
<1>2. UNCHANGED <<finished, corrupted, target, sw, patched, residue, on>> /\ destroyed' = destroyed \cup {K}
  BY <1>0, ZenonT(60) DEF UndoDestroy, swVars
<1>3. \A k : ~Undoes(t, k)' /\ ~Does(t, k) /\ ~Closed(pc[t], job[t])
  BY <1>1 DEF Undoes, Does, Closed
<1>4. \A a : ~Own(K, a)
  BY <1>0, <1>1 DEF Own, Undoes
<1>5. \A k : (Done(k) => Done(k)')
             /\ \A a : Own(k, a) /\ target'[k] = target[k] /\ k \notin destroyed' \cup corrupted' => Own(k, a)'
  BY <1>1, <1>2, <1>3, OwnStays
<1>6. \A k \in corrupted' : Done(k)'
  BY <1>2, <1>5 DEF TaskInv, HookInv
<1>7. ASSUME NEW a \in Addr, NEW k \in sw'[a], patched'[a], patched[a] /\ k \in sw[a] => Own(k, a)
      PROVE  Own(k, a)'
  <2>1. Own(k, a) /\ k # K
    BY <1>2, <1>4, <1>7
  <2> QED
    BY <1>2, <1>5, <2>1 DEF Own
<1> QED
  BY <1>1, <1>2, <1>3, <1>6, <1>7, HooksFrom DEF TaskInv

LEMMA DoPendingHooks ==
  ASSUME CallInv, CallInv', TaskInv, NEW t \in Thread, DoPending(t)
  PROVE  HookInv'
<1>0. PICK K : K = cur[t]
  OBVIOUS
<1>1. /\ Moves(t) /\ job[t] = "dlopen" /\ job'[t] = "dlopen" /\ pc[t] = "do_pending" /\ pc'[t] = "record"
      /\ cur'[t] = K
  BY <1>0, DoPendingOwn
<1>2. /\ UNCHANGED <<finished, destroyed, lock, residue, on>>
      /\ \/ Hook(K, on[t]) /\ target' = [target EXCEPT ![K] = on[t]] /\ corrupted' = corrupted
         \/ /\ UNCHANGED <<sw, patched>> /\ corrupted' = corrupted \cup {K}
            /\ target' = [target EXCEPT ![K] = on[t]] \/ target' = target
  BY <1>0 DEF DoPending, Hook, HookFails, swVars, refVars
<1>3. /\ TaskTypes /\ \A u \in Thread : JobInv(u)
      /\ K \in made /\ K \in Task /\ lock[K] = t /\ K \notin finished /\ (K \in tasks \/ ToUndo(K))
  BY <1>0, <1>1 DEF TaskInv, OwnInv, JobInv, DoSteps, TaskTypes
<1>4. ~Done(K)
  <2>1. \A u \in Thread : Does(u, K) => u = t
    BY <1>1, OneCollects DEF TaskInv, LinkJobs
  <2> QED
    BY <1>1, <1>3, <2>1 DEF Done, DoneSteps
<1>5. K \notin corrupted /\ K \notin destroyed
  <2>1. K \notin corrupted
    BY <1>4 DEF TaskInv, HookInv
  <2>2. ToUndo(K) => K \notin destroyed
    BY <1>3 DEF ToUndo, Undoes, JobInv
  <2> QED
    BY <1>3, <2>1, <2>2 DEF TaskInv, OwnInv, ListInv
<1>6. Does(t, K)' /\ pc'[t] \in DoneSteps
  BY <1>1 DEF Does, DoSteps, DoneSteps
<1>7. \A k : ~Undoes(t, k)' /\ ~(Does(t, k) /\ pc[t] \in DoneSteps) /\ ~Closed(pc[t], job[t])
  BY <1>1 DEF Undoes, DoneSteps, Closed
<1>8. \A k : (Done(k) => Done(k)')
             /\ \A a : Own(k, a) /\ target'[k] = target[k] /\ k \notin destroyed' \cup corrupted' => Own(k, a)'
  BY <1>1, <1>2, <1>7, OwnStays
<1>9. Done(K)'
  BY <1>6 DEF Done
<1>10. \A k \in corrupted' : Done(k)'
  BY <1>2, <1>8, <1>9 DEF TaskInv, HookInv
<1>11. ASSUME Hook(K, on[t]), target' = [target EXCEPT ![K] = on[t]], corrupted' = corrupted
       PROVE  Own(K, on[t])'
  <2>1. target'[K] = on'[t]
    BY <1>2, <1>3, <1>11 DEF TaskTypes
  <2>2. \A u \in Thread : Undoes(u, K)' => pc'[u] = "undo"
    <3>1. ASSUME NEW u \in Thread, Undoes(u, K)' PROVE pc'[u] = "undo"
      <4>1. u # t /\ Undoes(u, K) /\ pc'[u] = pc[u]
        BY <1>1, <1>7, <3>1, OthersStay
      <4>2. pc[u] # "undo" => lock[K] = u
        BY <1>3, <4>1 DEF Undoes, JobInv
      <4> QED
        BY <1>3, <4>1, <4>2
    <3> QED
      BY <3>1
  <2> QED
    BY <1>2, <1>5, <1>9, <1>11, <2>1, <2>2 DEF Own
<1>12. ASSUME NEW a \in Addr, NEW k \in sw'[a], patched'[a], patched[a] /\ k \in sw[a] => Own(k, a)
       PROVE  Own(k, a)'
  <2>1. (k = K /\ a = on[t] /\ Hook(K, on[t]) /\ corrupted' = corrupted /\ target' = [target EXCEPT ![K] = on[t]])
        \/ (patched[a] /\ k \in sw[a])
    BY <1>2, <1>3, <1>12, HookedAt
  <2>2. CASE k = K /\ a = on[t] /\ Hook(K, on[t]) /\ corrupted' = corrupted /\ target' = [target EXCEPT ![K] = on[t]]
    BY <1>2, <1>11, <2>2
  <2>3. CASE Own(k, a)
    <3>1. k # K
      BY <1>4, <2>3 DEF Own
    <3>2. k \in made
      <4>1. k \in sw[a] \/ k = K
        BY <1>2, <1>3, <1>12, HookedAt
      <4> QED
        BY <1>3, <4>1 DEF TaskTypes
    <3>3. target'[k] = target[k] /\ k \notin destroyed' \cup corrupted'
      BY <1>2, <1>3, <2>3, <3>1, <3>2 DEF TaskTypes, Own
    <3> QED
      BY <1>8, <2>3, <3>3
  <2> QED
    BY <1>12, <2>1, <2>2, <2>3
<1> QED
  BY <1>1, <1>2, <1>7, <1>10, <1>12, HooksFrom DEF TaskInv

LEMMA SetFinishedHooks ==
  ASSUME CallInv, CallInv', TaskInv, NEW t \in Thread, SetFinished(t)
  PROVE  HookInv'
<1>0. PICK K : K = cur[t]
  OBVIOUS
<1>1. /\ Moves(t) /\ job[t] = "dlopen" /\ job'[t] = "dlopen" /\ pc[t] = "finish"
  BY <1>0, SetFinishedOwn
<1>2. UNCHANGED <<corrupted, destroyed, target, sw, patched, residue, on>> /\ finished' = finished \cup {K}
  BY <1>0 DEF SetFinished, swVars
<1>3. \A k : ~Undoes(t, k)' /\ (Does(t, k) => k \in finished') /\ ~Closed(pc[t], job[t])
  BY <1>0, <1>1, <1>2 DEF Undoes, Does, Closed
<1>4. \A k : (Done(k) => Done(k)')
             /\ \A a : Own(k, a) /\ target'[k] = target[k] /\ k \notin destroyed' \cup corrupted' => Own(k, a)'
  BY <1>1, <1>2, <1>3, OwnStays
<1>5. (\A k \in corrupted' : Done(k)') /\ \A k, a : Own(k, a) => Own(k, a)'
  BY <1>2, <1>4 DEF TaskInv, HookInv, Own
<1> QED
  BY <1>1, <1>2, <1>3, <1>5, HooksFrom DEF TaskInv

LEMMA SweepHooks ==
  ASSUME CallInv, CallInv', TaskInv, NEW t \in Thread, Sweep(t)
  PROVE  HookInv'
<1>1. /\ Moves(t) /\ job[t] = "dlclose" /\ job'[t] = "dlclose" /\ pc[t] = "sweep" /\ pc'[t] = "fini_post"
  BY SweepOwn
<1>2. UNCHANGED <<finished, corrupted, destroyed, target, patched, residue, on>> /\ sw' = [sw EXCEPT ![on[t]] = {}]
  BY DEF Sweep, taskVars
<1>3. \A k : ~Undoes(t, k)' /\ ~Does(t, k)
  BY <1>1 DEF Undoes, Does
<1>4. \A k : (Done(k) => Done(k)')
             /\ \A a : Own(k, a) /\ target'[k] = target[k] /\ k \notin destroyed' \cup corrupted' => Own(k, a)'
  BY <1>1, <1>2, <1>3, OwnStays
<1>5. (\A k \in corrupted' : Done(k)') /\ \A k, a : Own(k, a) => Own(k, a)'
  BY <1>2, <1>4 DEF TaskInv, HookInv, Own
<1>6. Closed(pc[t], job[t]) /\ Closed(pc'[t], job'[t])
  BY <1>1 DEF Closed
<1>7. ASSUME NEW a \in Addr PROVE sw'[a] \subseteq sw[a]
  BY <1>2 DEF TaskInv, OwnInv, TaskTypes
<1> QED
  BY <1>1, <1>2, <1>5, <1>6, <1>7, HooksFrom DEF TaskInv

\* What remains at the closed address of a task that is reset is excepted.
LEMMA ResetHooks ==
  ASSUME CallInv, CallInv', TaskInv, NEW t \in Thread, Reset(t)
  PROVE  HookInv'
<1>1. Moves(t) /\ job[t] = "dlclose" /\ pc[t] = "reset" /\ UNCHANGED <<pc, job, cur>>
  BY ResetOwn
<1>2. PICK K \in work[t] :
        \/ UNCHANGED <<target, finished, corrupted>>
        \/ /\ target' = [target EXCEPT ![K] = NoAddr]
           /\ finished' = finished \ {K} /\ corrupted' = corrupted \ {K}
  BY DEF Reset
<1>3. UNCHANGED <<destroyed, sw, patched, residue, on>>
  BY DEF Reset, swVars
<1>4. target[K] = on[t] /\ TaskTypes
  BY <1>1 DEF TaskInv, OwnInv, WorkInv
<1>5. Closed(pc[t], job[t]) /\ Closed(pc'[t], job'[t])
  BY <1>1 DEF Closed
<1>6. \A k : ~Undoes(t, k)' /\ ~Does(t, k)
  BY <1>1 DEF Undoes, Does
<1>7. \A k : k # K => /\ Done(k) => Done(k)'
                      /\ \A a : Own(k, a) /\ target'[k] = target[k] /\ k \notin destroyed' \cup corrupted' => Own(k, a)'
  BY <1>1, <1>2, <1>6, OwnStays
<1>8. \A k \in corrupted' : Done(k)'
  <2>1. CASE UNCHANGED <<target, finished, corrupted>>
    <3>1. \A k : Done(k) => Done(k)'
      BY <1>1, <1>6, <2>1, OwnStays
    <3> QED
      BY <2>1, <3>1 DEF TaskInv, HookInv
  <2>2. CASE corrupted' = corrupted \ {K}
    BY <1>7, <2>2 DEF TaskInv, HookInv
  <2> QED
    BY <1>2, <2>1, <2>2
<1>9. ASSUME NEW a \in Addr, NEW k \in sw'[a], patched'[a], patched[a] /\ k \in sw[a] => Own(k, a), a # on[t]
      PROVE  Own(k, a)'
  <2>1. Own(k, a) /\ k # K /\ k \in made
    BY <1>3, <1>4, <1>9 DEF Own, TaskTypes
  <2>2. target'[k] = target[k] /\ k \notin destroyed' \cup corrupted'
    BY <1>2, <1>3, <1>4, <2>1 DEF Own, TaskTypes
  <2> QED
    BY <1>7, <2>1, <2>2
<1> QED
  BY <1>1, <1>3, <1>5, <1>8, <1>9, HooksFrom DEF TaskInv

-----------------------------------------------------------------------------
(* All steps keep the invariant.                                           *)

LEMMA TaskStutterKeeps ==
  ASSUME TaskInv, UNCHANGED <<ownVars, threadVars, loc, phase>>
  PROVE  TaskInv'
<1>1. UNCHANGED <<made, tasks, cnt, finished, corrupted, destroyed, target, count, lock, queue, freed, stubs, sw, patched,
                  residue, work, pc, job, cur, on, loc, phase>>
  BY DEF ownVars, threadVars, taskVars, refVars, swVars
<1>2. \A k : /\ (Leaving(k)' <=> Leaving(k)) /\ (ToUndo(k)' <=> ToUndo(k)) /\ (Collected(k)' <=> Collected(k))
             /\ (Calling(k)' <=> Calling(k))
  BY <1>1 DEF Leaving, ToUndo, Collected, Calling, Undoes, Does
<1>3. TaskTypes' /\ ListInv' /\ CountInv'
  BY <1>1, <1>2 DEF TaskInv, OwnInv, TaskTypes, ListInv, CountInv
<1>4. \A t \in Thread : JobInv(t)' /\ WorkInv(t)'
  <2> SUFFICES ASSUME NEW t \in Thread
               PROVE  JobInv(t)' /\ WorkInv(t)'
    OBVIOUS
  <2>1. JobInv(t) /\ WorkInv(t)
    BY DEF TaskInv, OwnInv
  <2> QED
    BY <1>1, <1>2, <2>1 DEF JobInv, WorkInv
<1>5. UnfinishedInv'
  BY <1>1, <1>2, SameUnfinished DEF Unfinished, TaskInv
<1>6. PlaceInv'
  BY <1>1 DEF TaskInv, PlaceInv
<1>7. HookInv'
  <2>1. \A k : (Done(k)' <=> Done(k)) /\ \A a : Own(k, a)' <=> Own(k, a)
    BY <1>1 DEF Own, Done, Undoes, Does
  <2> QED
    BY <1>1, <2>1 DEF TaskInv, HookInv
<1> QED
  BY <1>3, <1>4, <1>5, <1>6, <1>7 DEF TaskInv, OwnInv

LEMMA TaskInitHolds == Init => TaskInv
<1> SUFFICES ASSUME Init
             PROVE  TaskInv
  OBVIOUS
<1>1. /\ phase = [l \in Lib |-> "out"] /\ loc = [l \in Lib |-> NoAddr] /\ on = [t \in Thread |-> NoAddr]
      /\ pc = [t \in Thread |-> "idle"] /\ job = [t \in Thread |-> "none"] /\ cur = [t \in Thread |-> NoTask]
      /\ made = {} /\ tasks = {} /\ cnt = 0 /\ finished = {} /\ corrupted = {} /\ destroyed = {}
      /\ target = [k \in Task |-> NoAddr] /\ count = [k \in Task |-> 0] /\ lock = [k \in Task |-> NoThread]
      /\ queue = {} /\ freed = {} /\ stubs = {} /\ sw = [a \in Addr |-> {}] /\ patched = [a \in Addr |-> FALSE]
      /\ residue = [a \in Addr |-> {}] /\ work = [t \in Thread |-> {}]
  BY DEF Init, LinkInit
<1>2. TaskTypes
  <2>1. IsFiniteSet(made)
    BY <1>1, FS_EmptySet
  <2> QED
    BY <1>1, <2>1 DEF TaskTypes
<1>3. \A t \in Thread : JobInv(t) /\ WorkInv(t)
  BY <1>1 DEF JobInv, WorkInv, LinkJobs
<1>4. \A k : ~Collected(k) /\ ~Leaving(k)
  BY <1>1 DEF Collected, Leaving, Does, Undoes
<1>5. ListInv /\ CountInv
  BY <1>1, <1>4 DEF ListInv, CountInv
<1>6. UnfinishedInv
  <2>1. {k \in made : Unfinished(k)} = {}
    BY <1>1
  <2> QED
    BY <1>1, <2>1, FS_EmptySet DEF UnfinishedInv
<1>7. PlaceInv
  BY <1>1 DEF PlaceInv, LinkJobs
<1>8. HookInv
  BY <1>1 DEF HookInv
<1> QED
  BY <1>2, <1>3, <1>5, <1>6, <1>7, <1>8 DEF TaskInv, OwnInv

\* The steps of tasks leave the libraries where they are.
LEMMA TasksPlace ==
  ASSUME CallInv, CallInv', TaskInv, NEW t \in Thread,
         \/ \E k \in Task : CallHook(t, k) \/ CallUndo(t, k)
         \/ Lookup(t) \/ DoHook(t) \/ Insert(t) \/ Record(t) \/ Dladdr(t) \/ Undo(t) \/ UndoDestroy(t)
         \/ InitPre(t) \/ TakePending(t) \/ DoPending(t) \/ SetFinished(t) \/ Callback(t)
         \/ Sweep(t) \/ FiniPost(t) \/ Reset(t)
  PROVE  PlaceInv'
<1>1. UNCHANGED <<loc, phase, on>>
  BY ZenonT(60) DEF CallHook, CallUndo, Lookup, DoHook, Insert, Record, Dladdr, Undo, UndoDestroy, InitPre, TakePending, DoPending,
     SetFinished, Callback, Sweep, FiniPost, Reset, linkVars, libVars
<1>2. CASE \E k \in Task : CallHook(t, k) \/ CallUndo(t, k)
  <2>1. Moves(t) /\ job'[t] \in {"hook", "undo"}
    BY <1>2, CallHookOwn, CallUndoOwn
  <2> QED
    BY <1>1, <2>1, QuietPlace DEF TaskInv, LinkJobs, Closed
<1>3. CASE Lookup(t) \/ DoHook(t) \/ Insert(t)
  <2>1. Moves(t) /\ job'[t] = "hook"
    BY <1>3, HookerSteps
  <2> QED
    BY <1>1, <2>1, QuietPlace DEF TaskInv, LinkJobs, Closed
<1>4. CASE Record(t) \/ Dladdr(t)
  <2>1. Moves(t) /\ job'[t] \in {job[t], "none"} /\ pc'[t] \in {"dladdr", "idle", "destroy", "finish"}
    BY <1>4, RecordSteps
  <2> QED
    BY <1>1, <2>1, QuietPlace DEF TaskInv, LinkJobs, Closed
<1>5. CASE Undo(t)
  <2>1. Moves(t) /\ job'[t] = "undo"
    BY <1>5, UndoOwn
  <2> QED
    BY <1>1, <2>1, QuietPlace DEF TaskInv, LinkJobs, Closed
<1>6. CASE UndoDestroy(t)
  <2>1. Moves(t) /\ job'[t] = "none"
    BY <1>6, UndoDestroyOwn
  <2> QED
    BY <1>1, <2>1, QuietPlace DEF TaskInv, LinkJobs, Closed
<1>7. CASE TakePending(t) \/ DoPending(t) \/ SetFinished(t) \/ Callback(t)
  <2>1. Moves(t) /\ job[t] = "dlopen" /\ job'[t] = "dlopen"
    BY <1>7, TakePendingOwn, DoPendingOwn, SetFinishedOwn, CallbackOwn
  <2> QED
    BY <1>1, <2>1, QuietPlace DEF TaskInv, LinkJobs, Closed
<1>8. CASE InitPre(t) \/ FiniPost(t) \/ Sweep(t) \/ Reset(t)
  <2>1. Moves(t) /\ job'[t] = job[t] /\ pc[t] \in {"init_pre", "fini_post", "sweep", "reset"} /\ (pc[t] = "init_pre" => job[t] = "dlopen")
    BY <1>8, CollectOwn, SweepOwn, ResetOwn
  <2> QED
    BY <1>1, <2>1, QuietPlace DEF TaskInv, LinkJobs, Closed
<1> QED
  BY <1>2, <1>3, <1>4, <1>5, <1>6, <1>7, <1>8

LEMMA TaskStepsKeep ==
  ASSUME CallInv, CallInv', TaskInv, NEW t \in Thread,
         \/ \E k \in Task : CallHook(t, k) \/ CallUndo(t, k)
         \/ Lookup(t) \/ DoHook(t) \/ Insert(t) \/ Record(t) \/ Dladdr(t) \/ Undo(t) \/ UndoDestroy(t)
         \/ InitPre(t) \/ TakePending(t) \/ DoPending(t) \/ SetFinished(t) \/ Callback(t)
         \/ Sweep(t) \/ FiniPost(t) \/ Reset(t)
  PROVE  TaskInv'
<1>1. PlaceInv'
  BY TasksPlace
<1>2. OwnInv' /\ UnfinishedInv'
  <2>1. Lookup(t) \/ DoHook(t) \/ Insert(t) => OwnInv' /\ UnfinishedInv'
    BY HookerSteps, HookersUnfinished
  <2> QED
    BY <2>1, CallHookOwn, CallUndoOwn, RecordOwn, UndoOwn, UndoDestroyOwn, CollectOwn, TakePendingOwn, DoPendingOwn,
       SetFinishedOwn, CallbackOwn, SweepOwn, ResetOwn
<1>3. HookInv'
  BY QuietTaskHooks, CallHookHooks, LookupHooks, DoHookHooks, UndoHooks, UndoDestroyHooks, DoPendingHooks, SetFinishedHooks,
     SweepHooks, ResetHooks
<1> QED
  BY <1>1, <1>2, <1>3 DEF TaskInv

\* The steps of the linker's part.
LEMMA LinkStepsKeep ==
  ASSUME CallInv, CallInv', TaskInv, NEW t \in Thread, UNCHANGED ownVars,
         \/ LinkWait(t) \/ LinkWork(t) \/ LinkCall(t) \/ CallbackReturns(t)
         \/ \E l \in Lib : Dlclose(t, l)
  PROVE  TaskInv'
<1>1. CASE SetDisable(t)
  BY <1>1, TaskStutterKeeps DEF SetDisable, libVars
<1>2. CASE LinkWait(t) \/ LinkWork(t) \/ CallbackReturns(t) \/ (LinkCall(t) /\ ~SetDisable(t)) \/ \E l \in Lib : Dlclose(t, l)
  <2>1. OwnInv /\ PlaceInv
    BY DEF TaskInv
  <2>2. LinkWait(t) => LinkerStepOf(t) /\ PlaceInv'
    BY <2>1, InitStep, RegisterSteps DEF LinkWait, InitAction
  <2>3. LinkWork(t) => LinkerStepOf(t) /\ PlaceInv'
    BY <2>1, InitStep, LoadFailsStep, WalkStep, OriginalStep, LeaveDlopenStep DEF LinkWork, InitAction
  <2>4. LinkCall(t) /\ ~SetDisable(t) => LinkerStepOf(t) /\ PlaceInv'
    BY <2>1, CallInitStep, RegisterSteps, EnterLinkerStep DEF LinkCall
  <2>5. CallbackReturns(t) \/ (\E l \in Lib : Dlclose(t, l)) => LinkerStepOf(t) /\ PlaceInv'
    BY <2>1, CallbackReturnsStep, EnterLinkerStep
  <2> QED
    BY <1>2, <2>2, <2>3, <2>4, <2>5, LinkerStepKeeps
<1> QED
  BY <1>1, <1>2

LEMMA TaskNextKeeps ==
  ASSUME CallInv, CallInv', TaskInv, Next
  PROVE  TaskInv'
<1>1. PICK t \in Thread : Call(t) \/ Wait(t) \/ Work(t)
  BY DEF Next
<1>2. CASE Call(t)
  BY <1>2, TaskStepsKeep, LinkStepsKeep DEF Call, CallDlclose
<1>3. CASE Wait(t)
  BY <1>3, TaskStepsKeep, LinkStepsKeep DEF Wait
<1>4. CASE Work(t)
  <2>1. CallbackReturns(t) => UNCHANGED ownVars
    BY DEF CallbackReturns
  <2> QED
    BY <1>4, <2>1, TaskStepsKeep, LinkStepsKeep, UnmapKeeps DEF Work
<1> QED
  BY <1>1, <1>2, <1>3, <1>4

\* The bookkeeping of tasks in every reachable state: who may work on a task, what holds of a task that a thread
\* works on, the counts and the number of unfinished tasks, and whose proxies the patched addresses have (sh_task.c).
THEOREM TaskInvariant == Spec => []TaskInv
<1>1. CallInv /\ CallInv' /\ TaskInv /\ [Next]_vars => TaskInv'
  <2> SUFFICES ASSUME CallInv, CallInv', TaskInv, [Next]_vars
               PROVE  TaskInv'
    OBVIOUS
  <2>1. CASE Next
    BY <2>1, TaskNextKeeps
  <2>2. CASE UNCHANGED vars
    BY <2>2, TaskStutterKeeps DEF vars, linkVars, libVars
  <2> QED
    BY <2>1, <2>2
<1> QED
  BY <1>1, TaskInitHolds, CallInvariant, PTL DEF Spec

\* sh_tasks_unfinished_cnt is what it is named for, through races of hooks, unhooks, loads and closes, so the search
\* in sh_task_dl_init_pre that it gates (sh_task.c) never overlooks a pending task for its sake.
THEOREM CountExactHolds == Spec => []CountExact
<1>1. CallInv /\ TaskInv => CountExact
  <2> SUFFICES ASSUME CallInv, TaskInv
               PROVE  CountExact
    OBVIOUS
  <2> DEFINE leaving == {cur[t] : t \in {u \in Thread : At(u, "undo")}}
             calling == {cur[t] : t \in {u \in Thread : At(u, "callback")}}
  <2>1. \A t \in Thread : (At(t, "undo") => job[t] = "undo") /\ (At(t, "callback") => job[t] = "dlopen")
    BY DEF CallInv, Sound, JobAt, CtorSteps, At
  <2>2. \A k : k \in leaving <=> ToUndo(k)
    BY <2>1 DEF ToUndo, Undoes, At
  <2>3. \A k : k \in calling <=> Calling(k)
    BY DEF Calling, At
  <2>4. \A k : Unfinished(k) => k \in made
    <3>1. tasks \subseteq made /\ \A t \in Thread : JobInv(t)
      BY DEF TaskInv, OwnInv, TaskTypes
    <3>2. \A k : ToUndo(k) => k \in made
      BY <3>1 DEF ToUndo, Undoes, JobInv
    <3>3. \A k : Calling(k) => k \in made
      BY <2>1, <3>1 DEF Calling, At, JobInv, DoSteps
    <3> QED
      BY <3>1, <3>2, <3>3 DEF Unfinished
  <2>5. {k \in made : Unfinished(k)} = ((tasks \cup leaving) \ finished) \cup calling
    BY <2>2, <2>3, <2>4 DEF Unfinished
  <2> QED
    BY <2>5 DEF TaskInv, UnfinishedInv, CountExact
<1> QED
  BY <1>1, CallInvariant, TaskInvariant, PTL

\* A task that a load or a close has collected, or that a thread undoes or does, is still there, whichever thread
\* hands its stub back meanwhile (sh_ref_delayed_destroy without a delay).
THEOREM CollectedNotFreedHolds == Spec => []CollectedNotFreed
<1>1. CallInv /\ TaskInv => CollectedNotFreed
  <2> SUFFICES ASSUME CallInv, TaskInv, NEW t \in Thread
               PROVE  /\ work[t] \cap freed = {}
                      /\ job[t] \in {"undo", "dlopen"} => cur[t] \notin freed
    BY DEF CollectedNotFreed
  <2>1. JobInv(t) /\ WorkInv(t) /\ freed \subseteq Task
    BY DEF TaskInv, OwnInv, TaskTypes
  <2>2. cur[t] = NoTask => cur[t] \notin freed
    BY <2>1, TaskAssumption
  <2> QED
    BY <2>1, <2>2 DEF JobInv, WorkInv, LinkJobs
<1> QED
  BY <1>1, CallInvariant, TaskInvariant, PTL

\* A stub that was handed back leaves no proxy in a loaded library but one that its own unhook failed to take out,
\* though the unhook raced with the load that hooked it, or with the close that made it pending again.
THEOREM NoHookAfterUndoHolds == Spec => []NoHookAfterUndo
<1>1. CallInv /\ TaskInv => NoHookAfterUndo
  <2> SUFFICES ASSUME CallInv, TaskInv, NEW l \in Lib, phase[l] = "in", patched[loc[l]], NEW k \in sw[loc[l]], k \in destroyed,
                      k \notin residue[loc[l]]
               PROVE  FALSE
    BY DEF NoHookAfterUndo
  <2>1. loc[l] \in Addr /\ \A m \in Lib : loc[m] = loc[l] => m = l
    BY DEF TaskInv, PlaceInv
  <2>2. ~Own(k, loc[l])
    BY DEF Own
  <2>3. PICK t \in Thread : Closed(pc[t], job[t]) /\ on[t] = loc[l]
    BY <2>1, <2>2 DEF TaskInv, HookInv
  <2>4. job[t] \in LinkJobs
    BY <2>3 DEF Closed, LinkJobs
  <2>5. PICK m \in Lib : loc[m] = on[t] /\ phase[m] = "closing"
    BY <2>3, <2>4 DEF TaskInv, PlaceInv
  <2> QED
    BY <2>1, <2>3, <2>5
<1> QED
  BY <1>1, CallInvariant, TaskInvariant, PTL

-----------------------------------------------------------------------------
(* What the callbacks of users are told.                                   *)

\* Nothing is in a list twice.
Once(q) == \A i, j \in 1 .. Len(q) : q[i] = q[j] => i = j
OnceInv == (\A x \in Lists : Once(cbs[x])) /\ \A t \in Thread : Once(rest[t])

LEMMA OnceTail ==
  ASSUME NEW S, NEW q \in Seq(S), q # <<>>, Once(q)
  PROVE  /\ Once(Tail(q))
         /\ \A u : Contains(Tail(q), u) <=> Contains(q, u) /\ u # Head(q)
<1>1. /\ Tail(q) \in Seq(S) /\ Len(Tail(q)) = Len(q) - 1 /\ Head(q) = q[1]
      /\ \A i \in 1 .. Len(Tail(q)) : Tail(q)[i] = q[i + 1]
  BY HeadTailProperties
<1>2. Len(q) \in Nat /\ 1 \in 1 .. Len(q)
  BY HeadFirst
<1>3. \A i \in 1 .. Len(Tail(q)) : i + 1 \in 1 .. Len(q) /\ i + 1 # 1
  BY <1>1, <1>2
<1>4. Once(Tail(q))
  BY <1>1, <1>2, <1>3 DEF Once
<1>5. ASSUME NEW u, Contains(Tail(q), u) PROVE Contains(q, u) /\ u # Head(q)
  BY <1>1, <1>2, <1>3, <1>5 DEF Contains, Once
<1>6. ASSUME NEW u, Contains(q, u), u # Head(q) PROVE Contains(Tail(q), u)
  <2>1. PICK i \in 1 .. Len(q) : q[i] = u
    BY <1>6 DEF Contains
  <2>2. i # 1 /\ i - 1 \in 1 .. Len(Tail(q)) /\ (i - 1) + 1 = i
    BY <1>1, <1>2, <1>6, <2>1
  <2> QED
    BY <1>1, <2>1, <2>2 DEF Contains
<1> QED
  BY <1>4, <1>5, <1>6

LEMMA OnceAppend ==
  ASSUME NEW q \in Seq(Callbacks), Once(q), NEW u \in Callbacks,
         NEW y, y = IF Contains(q, u) THEN q ELSE Append(q, u)
  PROVE  Once(y) /\ \A v : Contains(y, v) <=> Contains(q, v) \/ v = u
<1>1. CASE Contains(q, u)
  BY <1>1
<1>2. CASE ~Contains(q, u)
  <2>1. /\ y = Append(q, u) /\ Len(y) = Len(q) + 1 /\ Len(q) \in Nat /\ y[Len(y)] = u
        /\ \A i \in 1 .. Len(q) : y[i] = q[i]
    BY <1>2, AppendProperties
  <2>2. \A i \in 1 .. Len(y) : i # Len(y) => i \in 1 .. Len(q) /\ y[i] # u
    BY <1>2, <2>1 DEF Contains
  <2>3. Once(y)
    BY <2>1, <2>2 DEF Once
  <2>4. 1 .. Len(q) \subseteq 1 .. Len(y) /\ Len(y) \in 1 .. Len(y)
    BY <2>1
  <2>5. Contains(y, u)
    BY <2>1, <2>4 DEF Contains
  <2>6. ASSUME NEW v, Contains(q, v) PROVE Contains(y, v)
    <3>1. PICK i \in 1 .. Len(q) : q[i] = v
      BY <2>6 DEF Contains
    <3>2. i \in 1 .. Len(y) /\ y[i] = v
      BY <2>1, <2>4, <3>1
    <3> QED
      BY <3>2 DEF Contains
  <2>7. ASSUME NEW v, Contains(y, v) PROVE Contains(q, v) \/ v = u
    <3>1. PICK i \in 1 .. Len(y) : y[i] = v
      BY <2>7 DEF Contains
    <3>2. i # Len(y) => i \in 1 .. Len(q) /\ y[i] = q[i]
      BY <2>1, <2>2
    <3> QED
      BY <2>1, <3>1, <3>2 DEF Contains
  <2> QED
    BY <2>3, <2>5, <2>6, <2>7
<1> QED
  BY <1>1, <1>2

\* A list without the callback at one place.
LEMMA RemovedAt ==
  ASSUME NEW q \in Seq(Callbacks), NEW k \in 1 .. Len(q)
  PROVE  /\ Len(RemoveAt(q, k)) = Len(q) - 1
         /\ \A i \in 1 .. Len(q) - 1 : RemoveAt(q, k)[i] = IF i < k THEN q[i] ELSE q[i + 1]
<1>1. Len(q) \in Nat /\ k \in Int
  OBVIOUS
<1> DEFINE a == SubSeq(q, 1, k - 1)
           b == SubSeq(q, k + 1, Len(q))
<1>2. /\ a \in Seq(Callbacks) /\ Len(a) = k - 1
      /\ \A i \in 1 .. k - 1 : a[i] = q[i]
  BY <1>1, SubSeqProperties
<1>3. /\ b \in Seq(Callbacks) /\ Len(b) = Len(q) - k
      /\ \A i \in 1 .. Len(q) - k : b[i] = q[i + k]
  BY <1>1, SubSeqProperties
<1>4. RemoveAt(q, k) = a \o b
  BY DEF RemoveAt
<1> HIDE DEF a, b
<1>5. /\ Len(a \o b) = Len(a) + Len(b)
      /\ \A i \in 1 .. Len(a) + Len(b) : (a \o b)[i] = IF i <= Len(a) THEN a[i] ELSE b[i - Len(a)]
  BY <1>2, <1>3, ConcatProperties
<1>6. ASSUME NEW i \in 1 .. Len(q) - 1 PROVE (a \o b)[i] = IF i < k THEN q[i] ELSE q[i + 1]
  <2>1. CASE i < k
    BY <1>1, <1>2, <1>3, <1>5, <2>1
  <2>2. CASE ~(i < k)
    <3>1. i - (k - 1) \in 1 .. Len(q) - k /\ (i - (k - 1)) + k = i + 1
      BY <1>1, <2>2
    <3>2. i \in 1 .. Len(a) + Len(b) /\ ~(i <= Len(a))
      BY <1>1, <1>2, <1>3, <2>2
    <3>3. (a \o b)[i] = b[i - (k - 1)]
      BY <1>2, <1>5, <3>2
    <3> QED
      BY <1>3, <2>2, <3>1, <3>3
  <2> QED
    BY <2>1, <2>2
<1> QED
  BY <1>1, <1>2, <1>3, <1>4, <1>5, <1>6

LEMMA OnceRemove ==
  ASSUME NEW q \in Seq(Callbacks), Once(q), NEW u
  PROVE  Once(RemoveFirst(q, u)) /\ \A v : Contains(q, v) /\ v # u => Contains(RemoveFirst(q, u), v)
<1>1. CASE ~\E i \in 1 .. Len(q) : q[i] = u
  BY <1>1 DEF RemoveFirst
<1>2. CASE \E i \in 1 .. Len(q) : q[i] = u
  <2> DEFINE I == {i \in 1 .. Len(q) : q[i] = u}
             k == SelectInSeq(q, LAMBDA v : v = u)
  <2>1. k = Min(I)
    BY <1>2 DEF SelectInSeq
  <2>2. Min(I) \in I
    <3>1. I \subseteq Nat /\ I # {}
      BY <1>2
    <3> HIDE DEF I
    <3> QED
      BY <3>1, FirstPlace
  <2>3. k \in 1 .. Len(q) /\ q[k] = u /\ RemoveFirst(q, u) = RemoveAt(q, k)
    BY <1>2, <2>1, <2>2 DEF RemoveFirst
  <2> HIDE DEF k
  <2> DEFINE r == RemoveAt(q, k)
  <2>4. Len(q) \in Nat /\ Len(r) = Len(q) - 1 /\ \A i \in 1 .. Len(r) : r[i] = IF i < k THEN q[i] ELSE q[i + 1]
    <3>1. Len(r) = Len(q) - 1 /\ \A i \in 1 .. Len(q) - 1 : r[i] = IF i < k THEN q[i] ELSE q[i + 1]
      BY <2>3, RemovedAt
    <3> HIDE DEF r
    <3> QED
      BY <3>1
  <2> HIDE DEF r
  <2>5. Once(r)
    <3> SUFFICES ASSUME NEW i \in 1 .. Len(r), NEW j \in 1 .. Len(r), r[i] = r[j]
                 PROVE  i = j
      BY DEF Once
    <3> DEFINE m == IF i < k THEN i ELSE i + 1
               n == IF j < k THEN j ELSE j + 1
    <3>1. m \in 1 .. Len(q) /\ n \in 1 .. Len(q) /\ r[i] = q[m] /\ r[j] = q[n] /\ (m = n => i = j)
      BY <2>3, <2>4
    <3> HIDE DEF m, n
    <3> QED
      BY <3>1 DEF Once
  <2>6. ASSUME NEW v, Contains(q, v), v # u PROVE Contains(r, v)
    <3>1. PICK i \in 1 .. Len(q) : q[i] = v
      BY <2>6 DEF Contains
    <3>2. i # k
      BY <2>3, <2>6, <3>1
    <3>3. CASE i < k
      <4>1. i \in 1 .. Len(r) /\ r[i] = v
        BY <2>3, <2>4, <3>1, <3>3
      <4> QED
        BY <4>1 DEF Contains
    <3>4. CASE k < i
      <4>1. i - 1 \in 1 .. Len(r) /\ ~(i - 1 < k) /\ (i - 1) + 1 = i
        BY <2>3, <2>4, <3>1, <3>4
      <4>2. r[i - 1] = v
        BY <2>4, <3>1, <4>1
      <4> QED
        BY <4>1, <4>2 DEF Contains
    <3> QED
      BY <2>3, <3>2, <3>3, <3>4
  <2> QED
    BY <2>3, <2>5, <2>6 DEF r
<1> QED
  BY <1>1, <1>2

-----------------------------------------------------------------------------
(* How far a load or a close has got.                                      *)

PreSteps == {"init_pre", "pending"} \cup DoSteps
PostSteps == {"sweep", "fini_post", "reset"}
PreAt(s, j) == s \in {"pre", "in pre"} \/ (j = "dlopen" /\ s \in PreSteps)
PostAt(s) == s \in {"post", "in post"} \cup PostSteps
CtorsAt(s) == s \in {"ctors"} \cup InitSteps

\* A step of a thread that is not in the linker, or that does not take its load or close any further.
StaysAt(t) ==
  /\ Moves(t) /\ UNCHANGED <<phase, loc, dl, on, did, rest, told>>
  /\ \/ job[t] \notin LinkJobs /\ job'[t] \notin LinkJobs
     \/ job'[t] = job[t] /\ job[t] = "dlopen" /\ pc[t] \in PreSteps /\ pc'[t] \in PreSteps
     \/ job'[t] = job[t] /\ job[t] = "dlclose" /\ pc[t] \in PostSteps /\ pc'[t] \in PostSteps
     \/ job'[t] = job[t] /\ job[t] = "dlopen" /\ CtorsAt(pc[t]) /\ CtorsAt(pc'[t])

TaskStep(t) ==
  \/ \E k \in Task : CallHook(t, k) \/ CallUndo(t, k)
  \/ Lookup(t) \/ DoHook(t) \/ Insert(t) \/ Record(t) \/ Dladdr(t) \/ Undo(t) \/ UndoDestroy(t)
  \/ InitPre(t) \/ TakePending(t) \/ DoPending(t) \/ SetFinished(t) \/ Callback(t)
  \/ Sweep(t) \/ FiniPost(t) \/ Reset(t)

LEMMA TaskStepLinks ==
  ASSUME NEW t \in Thread, TaskStep(t)
  PROVE  UNCHANGED <<linkVars, on>>
BY ZenonT(60) DEF TaskStep, CallHook, CallUndo, Lookup, DoHook, Insert, Record, Dladdr, Undo, UndoDestroy, InitPre,
   TakePending, DoPending, SetFinished, Callback, Sweep, FiniPost, Reset

\* A step of tasks goes to another step of tasks, in the same callback if it is in one, or the call returns.
LEMMA TaskStepStays ==
  ASSUME CallInv, CallInv', TaskInv, NEW t \in Thread, TaskStep(t)
  PROVE  StaysAt(t) /\ pc'[t] \in TaskSteps \cup PreSteps \cup PostSteps \cup {"idle"}
<1>1. UNCHANGED <<phase, loc, dl, on, did, rest, told>>
  BY TaskStepLinks DEF linkVars, libVars, cbVars
<1>2. JobAt(pc[t], job[t]) /\ JobAt(pc'[t], job'[t])
  BY DEF CallInv, Sound
<1> USE DEF JobAt, TaskSteps, CtorSteps, DtorSteps, PreSteps, PostSteps, DoSteps, LinkJobs
<1>3. CASE \E k \in Task : CallHook(t, k) \/ CallUndo(t, k)
  <2>1. Moves(t) /\ job'[t] \in {"hook", "undo"} /\ pc[t] = "idle" /\ pc'[t] \in {"lookup", "hook", "undo"}
    BY <1>3, CallHookOwn, CallUndoOwn
  <2> QED
    BY <1>1, <1>2, <2>1 DEF StaysAt
<1>4. CASE Lookup(t) \/ DoHook(t) \/ Insert(t)
  <2>1. Moves(t) /\ job'[t] = "hook" /\ job'[t] = job[t] /\ pc'[t] \in {"hook", "insert", "record"}
    BY <1>4, HookerSteps
  <2> QED
    BY <1>1, <1>2, <2>1 DEF StaysAt
<1>5. CASE Record(t) \/ Dladdr(t)
  <2>1. Moves(t) /\ pc[t] \in {"record", "dladdr"} /\ pc'[t] \in {"dladdr", "idle", "destroy", "finish"}
    BY <1>5, RecordSteps
  <2>2. (job[t] = "dlopen" => job'[t] = "dlopen") /\ job'[t] \in {job[t], "none"}
    BY <1>5, RecordSteps
  <2> QED
    BY <1>1, <1>2, <2>1, <2>2 DEF StaysAt
<1>6. CASE Undo(t) \/ UndoDestroy(t)
  <2>1. Moves(t) /\ job[t] = "undo" /\ job'[t] \in {"undo", "none"} /\ pc'[t] \in {"record", "idle"}
    BY <1>6, UndoOwn, UndoDestroyOwn
  <2> QED
    BY <1>1, <2>1 DEF StaysAt
<1>7. CASE TakePending(t) \/ DoPending(t) \/ SetFinished(t) \/ Callback(t)
  <2>1. /\ Moves(t) /\ job[t] = "dlopen" /\ job'[t] = "dlopen"
        /\ pc[t] \in PreSteps /\ pc'[t] \in PreSteps
    BY <1>7, TakePendingOwn, DoPendingOwn, SetFinishedOwn, CallbackOwn
  <2> QED
    BY <1>1, <2>1 DEF StaysAt
<1>8. CASE InitPre(t) \/ FiniPost(t) \/ Sweep(t) \/ Reset(t)
  <2>1. /\ Moves(t) /\ job'[t] = job[t]
        /\ \/ job[t] = "dlopen" /\ pc[t] = "init_pre" /\ pc'[t] = "pending"
           \/ job[t] = "dlclose" /\ pc[t] \in PostSteps /\ pc'[t] \in PostSteps
    BY <1>8, CollectOwn, SweepOwn, ResetOwn
  <2> QED
    BY <1>1, <2>1 DEF StaysAt
<1> QED
  BY <1>3, <1>4, <1>5, <1>6, <1>7, <1>8 DEF TaskStep

LEMMA InitActionStays ==
  ASSUME CallInv, NEW t \in Thread, InitAction(t)
  PROVE  StaysAt(t) /\ pc[t] \in InitSteps
<1>1. /\ pc[t] \in InitSteps /\ UNCHANGED <<on, loc, phase, dl, rest, did, told>>
      /\ \/ InitReturns(t)
         \/ (\E s \in InitSteps : Goto(t, s)) /\ cur' = cur /\ job' = job
  BY InitGoes
<1>2. job[t] \in {"init", "dlopen"}
  BY <1>1 DEF CallInv, Sound, JobAt
<1>3. CASE InitReturns(t)
  <2>1. Moves(t) /\ ((pc'[t] = "idle" /\ job'[t] = "none" /\ job[t] # "dlopen")
                      \/ (pc'[t] = "ctors" /\ job'[t] = "dlopen" /\ job[t] = "dlopen"))
    <3>1. job[t] = "init" => Return(t)
      BY <1>3 DEF InitReturns
    <3>2. job[t] = "init" => pc'[t] = "idle" /\ job'[t] = "none"
      BY <3>1, ReturnMoves DEF CallInv
    <3>3. CASE job[t] = "dlopen"
      <4>1. Goto(t, "ctors") /\ UNCHANGED <<job, cur>> /\ "ctors" \in Steps
        BY <1>3, <3>3 DEF InitReturns, Steps, CtorSteps
      <4> QED
        BY <3>3, <4>1, GotoMoves DEF CallInv
    <3> QED
      BY <1>1, <1>2, <1>3, <3>2, <3>3, InitReturnsMoves
  <2> QED
    BY <1>1, <1>2, <2>1 DEF StaysAt, CtorsAt, LinkJobs
<1>4. CASE (\E s \in InitSteps : Goto(t, s)) /\ cur' = cur /\ job' = job
  <2>1. Moves(t) /\ pc'[t] \in InitSteps /\ job'[t] = job[t]
    BY <1>4, GotoMoves DEF CallInv, Steps
  <2> QED
    BY <1>1, <1>2, <2>1 DEF StaysAt, CtorsAt, LinkJobs
<1> QED
  BY <1>1, <1>3, <1>4

\* What a step of initialisation may rely on, and what is there once it has ended.
InitKnows(t) ==
  pc[t] \in InitSteps \ {"init_lock"} =>
    /\ initLock = t /\ init = "uninit"
    /\ pc[t] # "hook_ctors" => "constructors" \in hooked
    /\ pc[t] \notin {"hook_ctors", "hook_dtors"} => "destructors" \in hooked
    /\ pc[t] \in {"init_cb", "fini_cb", "init_end"} => Scanned
    /\ pc[t] \in {"fini_cb", "init_end"} => Contains(cbs["init"], TASK)
    /\ pc[t] = "init_end" => Contains(cbs["fini"], TASK)
Ready ==
  /\ {"constructors", "destructors"} \subseteq hooked /\ Scanned
  /\ \A x \in Lists : Contains(cbs[x], TASK)
\* Nobody hooks or registers before; and in a list that is not empty the tasks' callback is the first.
InitInv ==
  /\ scan \in [tid : Thread \cup {NoThread}, ok : BOOLEAN]
  /\ \A t \in Thread : InitKnows(t) /\ (pc[t] \in {"register", "unregister"} => init = "ok")
  /\ init = "ok" => Ready
  /\ \A x \in Lists : \A u \in Cb : Contains(cbs[x], u) => init = "ok"
  /\ \A x \in Lists : cbs[x] # <<>> => Contains(cbs[x], TASK)
  /\ made # {} => init = "ok"

\* Steps of others than the one that initialises: the lists keep the tasks' callback, and a user's comes when all is there.
LEMMA InitFrame ==
  ASSUME CallInv, CallInv', InitInv, NEW t \in Thread, Moves(t), UNCHANGED <<scan, initLock, init, hooked>>,
         pc'[t] \in InitSteps \ {"init_lock"} => pc'[t] = pc[t],
         pc'[t] \in {"register", "unregister"} => init = "ok",
         \A x \in Lists : Contains(cbs[x], TASK) => Contains(cbs'[x], TASK),
         cbs' # cbs => init = "ok",
         made' # made => init = "ok"
  PROVE  InitInv'
<1>1. \A u \in Thread \ {t} : pc'[u] = pc[u]
  BY DEF Moves
<1>2. Lists = {"init", "fini"}
  BY DEF Lists
<1>3. ASSUME NEW u \in Thread PROVE InitKnows(u)' /\ (pc'[u] \in {"register", "unregister"} => init = "ok")
  <2>1. InitKnows(u) /\ (pc[u] \in {"register", "unregister"} => init = "ok")
    BY DEF InitInv
  <2> QED
    BY <1>1, <1>2, <2>1 DEF InitKnows, Scanned
<1>4. init = "ok" => Ready'
  BY DEF InitInv, Ready, Scanned
<1>5. \A x \in Lists : cbs'[x] # <<>> => Contains(cbs'[x], TASK)
  BY <1>4 DEF InitInv, Ready
<1> QED
  BY <1>3, <1>4, <1>5 DEF InitInv

\* The steps of the one that initialises.
LEMMA InitAlone ==
  ASSUME CallInv, InitInv, NEW t \in Thread, Moves(t),
         init = "uninit", pc[t] \in InitSteps, pc[t] = "init_lock" => initLock = NoThread,
         scan' \in [tid : Thread \cup {NoThread}, ok : BOOLEAN],
         InitKnows(t)', pc'[t] \notin {"register", "unregister"}, init' = "ok" => Ready',
         \A x \in Lists : \A u \in Cb : Contains(cbs'[x], u) => Contains(cbs[x], u),
         \A x \in Lists : cbs'[x] # <<>> => Contains(cbs'[x], TASK),
         UNCHANGED made
  PROVE  InitInv'
<1>1. \A u \in Thread \ {t} : pc'[u] = pc[u]
  BY DEF Moves
<1>2. ASSUME NEW u \in Thread \ {t} PROVE InitKnows(u)' /\ pc'[u] \notin {"register", "unregister"}
  <2>1. InitKnows(u) /\ InitKnows(t) /\ pc[u] \notin {"register", "unregister"}
    BY DEF InitInv
  <2>2. pc[u] \notin InitSteps \ {"init_lock"}
    BY <2>1, LinkerAssumption DEF InitKnows
  <2> QED
    BY <1>1, <2>1, <2>2 DEF InitKnows
<1>3. \A u \in Thread : InitKnows(u)' /\ pc'[u] \notin {"register", "unregister"}
  BY <1>2
<1>4. \A x \in Lists : \A u \in Cb : ~Contains(cbs'[x], u)
  BY DEF InitInv
<1>5. made' = {}
  BY DEF InitInv
<1> QED
  BY <1>3, <1>4, <1>5 DEF InitInv

\* Initialisation ends without success, or where it began.
LEMMA InitReturnsInit ==
  ASSUME CallInv, CallInv', InitInv, NEW t \in Thread, pc[t] \in InitSteps, InitReturns(t), UNCHANGED <<hooked, cbs, made>>,
         scan' \in [tid : Thread \cup {NoThread}, ok : BOOLEAN],
         \/ init' = init /\ initLock' = initLock /\ scan' = scan
         \/ init = "uninit" /\ init' # "ok" /\ (pc[t] = "init_lock" => initLock = NoThread)
         \/ init = "uninit" /\ pc[t] # "init_lock" /\ Ready'
  PROVE  InitInv'
<1>1. Moves(t) /\ pc'[t] \in {"idle", "ctors"}
  BY InitReturnsMoves
<1>2. pc'[t] \notin InitSteps /\ pc'[t] \notin {"register", "unregister"}
  BY <1>1 DEF InitSteps
<1>3. InitKnows(t)' /\ \A x \in Lists : cbs'[x] # <<>> => Contains(cbs'[x], TASK)
  BY <1>2 DEF InitKnows, InitInv
<1> QED
  BY <1>1, <1>2, <1>3, InitFrame, InitAlone

LEMMA InitBeginsInit ==
  ASSUME CallInv, CallInv', InitInv, NEW t \in Thread, InitBegins(t), UNCHANGED made
  PROVE  InitInv'
<1>1. pc[t] = "init_lock" /\ initLock = NoThread /\ UNCHANGED <<hooked, cbs, scan>>
  BY DEF InitBegins, At, cbVars
<1>2. pc[t] \in InitSteps /\ scan' \in [tid : Thread \cup {NoThread}, ok : BOOLEAN]
  BY <1>1 DEF InitSteps, InitInv
<1>3. CASE /\ InitReturns(t)
           /\ \/ init' = init /\ initLock' = initLock
              \/ init = "uninit" /\ init' \in {"disabled", "failed"}
  BY <1>1, <1>2, <1>3, InitReturnsInit
<1>4. CASE init = "uninit" /\ init' = init /\ initLock' = t /\ Goto(t, "hook_ctors") /\ UNCHANGED <<job, cur>>
  <2>1. Moves(t) /\ pc'[t] = "hook_ctors"
    BY <1>4, GotoMoves DEF CallInv, Steps, InitSteps
  <2>2. InitKnows(t)'
    BY <1>4, <2>1 DEF InitKnows
  <2> QED
    BY <1>1, <1>2, <1>4, <2>1, <2>2, InitAlone DEF InitInv
<1> QED
  BY <1>3, <1>4 DEF InitBegins

\* A step after it has found that initialisation is to be done, and that fails or goes on.
LEMMA InitOnInit ==
  ASSUME CallInv, CallInv', InitInv, OnceInv, NEW t \in Thread, InitAction(t), ~InitBegins(t), UNCHANGED made
  PROVE  InitInv'
<1>1. pc[t] \in InitSteps \ {"init_lock"} /\ initLock = t /\ init = "uninit" /\ InitKnows(t)
  <2>1. pc[t] \in InitSteps \ {"init_lock"}
    BY DEF InitAction, HookCtors, HookDtors, HookLinker, ScanBegins, ScanNothing, ScanEnds, InitEnds, At,
           TaskInitInit, TaskInitFini, TaskInit, InitSteps
  <2> QED
    BY <2>1 DEF InitInv, InitKnows
<1>2. Lists = {"init", "fini"}
  BY DEF Lists
<1>3. ASSUME InitFails(t), UNCHANGED <<hooked, cbs>>, scan' \in [tid : Thread \cup {NoThread}, ok : BOOLEAN]
      PROVE  InitInv'
  BY <1>1, <1>3, InitReturnsInit DEF InitFails
<1>4. ASSUME NEW s \in InitSteps \ {"init_lock"}, Goto(t, s), UNCHANGED <<job, cur, init, initLock>>,
             scan' \in [tid : Thread \cup {NoThread}, ok : BOOLEAN],
             pc'[t] = s => InitKnows(t)',
             \A x \in Lists : \A u \in Cb : Contains(cbs'[x], u) => Contains(cbs[x], u),
             \A x \in Lists : cbs'[x] # <<>> => Contains(cbs'[x], TASK)
      PROVE  InitInv'
  <2>1. Moves(t) /\ pc'[t] = s
    BY <1>4, GotoMoves DEF CallInv, Steps
  <2>2. pc'[t] \notin {"register", "unregister"}
    BY <2>1 DEF InitSteps
  <2> QED
    BY <1>1, <1>4, <2>1, <2>2, InitAlone
<1>5. scan \in [tid : Thread \cup {NoThread}, ok : BOOLEAN] /\ \A x \in Lists : cbs[x] # <<>> => Contains(cbs[x], TASK)
  BY DEF InitInv
<1>6. CASE HookCtors(t) \/ HookDtors(t)
  <2>1. PICK s \in {"hook_dtors", "scan"}, f \in {"constructors", "destructors"} :
          /\ UNCHANGED <<scan, cbs>>
          /\ \/ hooked' = hooked \cup {f} /\ Goto(t, s) /\ UNCHANGED <<init, initLock, job, cur>>
             \/ InitFails(t) /\ UNCHANGED hooked
          /\ \/ pc[t] = "hook_ctors" /\ s = "hook_dtors" /\ f = "constructors"
             \/ pc[t] = "hook_dtors" /\ s = "scan" /\ f = "destructors"
    BY <1>6 DEF HookCtors, HookDtors, HookLinker, At, cbVars
  <2>2. ASSUME hooked' = hooked \cup {f}, UNCHANGED <<init, initLock>>, pc'[t] = s PROVE InitKnows(t)'
    BY <1>1, <2>1, <2>2 DEF InitKnows
  <2>3. s \in InitSteps \ {"init_lock"}
    BY DEF InitSteps
  <2> QED
    BY <1>3, <1>4, <1>5, <2>1, <2>2, <2>3
<1>7. CASE ScanBegins(t) \/ ScanNothing(t)
  <2>1. PICK s \in {"nothing", "scan_end"} :
          /\ Goto(t, s) /\ UNCHANGED <<init, initLock, job, cur, hooked, cbs>>
          /\ scan' = [scan EXCEPT !.tid = t] \/ \E ok \in BOOLEAN : scan' = [scan EXCEPT !.ok = ok]
          /\ pc[t] \in {"scan", "nothing"}
    BY <1>7 DEF ScanBegins, ScanNothing, At, cbVars
  <2>2. scan' \in [tid : Thread \cup {NoThread}, ok : BOOLEAN]
    BY <1>5, <2>1
  <2>3. ASSUME pc'[t] = s PROVE InitKnows(t)'
    BY <1>1, <2>1, <2>3 DEF InitKnows
  <2>4. s \in InitSteps \ {"init_lock"}
    BY DEF InitSteps
  <2> QED
    BY <1>4, <1>5, <2>1, <2>2, <2>3, <2>4
<1>8. CASE ScanEnds(t)
  <2>1. /\ pc[t] = "scan_end" /\ scan' = [scan EXCEPT !.tid = NoThread] /\ UNCHANGED <<hooked, cbs>>
        /\ \/ scan.ok /\ Goto(t, "init_cb") /\ UNCHANGED <<init, initLock, job, cur>>
           \/ ~scan.ok /\ InitFails(t)
    BY <1>8 DEF ScanEnds, At, cbVars
  <2>2. scan' \in [tid : Thread \cup {NoThread}, ok : BOOLEAN] /\ (scan.ok => Scanned')
    BY <1>5, <2>1 DEF Scanned
  <2>3. ASSUME scan.ok, UNCHANGED <<init, initLock>>, pc'[t] = "init_cb" PROVE InitKnows(t)'
    BY <1>1, <2>1, <2>2, <2>3 DEF InitKnows
  <2>4. "init_cb" \in InitSteps \ {"init_lock"}
    BY DEF InitSteps
  <2> QED
    BY <1>3, <1>4, <1>5, <2>1, <2>2, <2>3, <2>4
<1>9. CASE TaskInitInit(t) \/ TaskInitFini(t)
  <2>1. PICK s \in {"fini_cb", "init_end"}, x \in Lists :
          /\ UNCHANGED <<scan, hooked>>
          /\ \/ Register(x, TASK) /\ Goto(t, s) /\ UNCHANGED <<init, initLock, job, cur>>
             \/ InitFails(t) /\ UNCHANGED cbs
          /\ \/ pc[t] = "init_cb" /\ s = "fini_cb" /\ x = "init"
             \/ pc[t] = "fini_cb" /\ s = "init_end" /\ x = "fini"
    BY <1>2, <1>9 DEF TaskInitInit, TaskInitFini, TaskInit, At
  <2>2. CASE InitFails(t) /\ UNCHANGED cbs
    BY <1>3, <1>5, <2>1, <2>2
  <2>3. CASE Register(x, TASK) /\ Goto(t, s) /\ UNCHANGED <<init, initLock, job, cur>>
    <3>1. cbs[x] \in Seq(Callbacks) /\ TASK \in Callbacks /\ cbs \in [Lists -> Seq(Callbacks)]
      BY DEF CallInv, CallTypes, Callbacks
    <3>2. PICK y : y = (IF Contains(cbs[x], TASK) THEN cbs[x] ELSE Append(cbs[x], TASK)) /\ cbs' = [cbs EXCEPT ![x] = y]
      BY <2>3 DEF Register
    <3>3. \A v : Contains(y, v) <=> Contains(cbs[x], v) \/ v = TASK
      BY <3>1, <3>2, OnceAppend DEF OnceInv
    <3>4. cbs'[x] = y /\ \A z \in Lists \ {x} : cbs'[z] = cbs[z]
      BY <3>1, <3>2
    <3>5. \A z \in Lists : \A v : Contains(cbs'[z], v) <=> Contains(cbs[z], v) \/ (v = TASK /\ z = x)
      BY <3>3, <3>4
    <3>6. \A z \in Lists : cbs'[z] # <<>> => Contains(cbs'[z], TASK)
      BY <1>5, <3>3, <3>4
    <3>7. \A z \in Lists : \A u \in Cb : Contains(cbs'[z], u) => Contains(cbs[z], u)
      BY <3>5, LinkerAssumption
    <3>8. ASSUME pc'[t] = s PROVE InitKnows(t)'
      BY <1>1, <1>2, <2>1, <2>3, <3>5, <3>8 DEF InitKnows, Scanned
    <3>9. s \in InitSteps \ {"init_lock"}
      BY DEF InitSteps
    <3> QED
      BY <1>4, <1>5, <2>1, <2>3, <3>6, <3>7, <3>8, <3>9
  <2> QED
    BY <2>1, <2>2, <2>3
<1>10. CASE InitEnds(t)
  <2>1. pc[t] = "init_end" /\ InitReturns(t) /\ UNCHANGED <<hooked, scan, cbs>>
    BY <1>10 DEF InitEnds, At, cbVars
  <2>2. Ready'
    BY <1>1, <1>2, <2>1 DEF InitKnows, Ready, Scanned
  <2> QED
    BY <1>1, <1>5, <2>1, <2>2, InitReturnsInit
<1> QED
  BY <1>6, <1>7, <1>8, <1>9, <1>10 DEF InitAction

\* Who registers or unregisters finds all there; the tasks' callback is not unregistered.
LEMMA RegisteredInit ==
  ASSUME CallInv, CallInv', InitInv, OnceInv, NEW t \in Thread, DoRegister(t) \/ DoUnregister(t), UNCHANGED made
  PROVE  InitInv' /\ OnceInv'
<1>1. /\ pc[t] \in {"register", "unregister"} /\ Return(t) /\ UNCHANGED <<scan, initLock, init, hooked, rest>>
      /\ Register(cur[t].list, cur[t].cb) \/ Unregister(cur[t].list, cur[t].cb)
  BY DEF DoRegister, DoUnregister, At, apiVars
<1> DEFINE x == cur[t].list
           u == cur[t].cb
<1>2. x \in Lists /\ u \in Callbacks /\ u # TASK
  BY <1>1, LinkerAssumption DEF CallInv, Sound, Callbacks
<1>3. cbs[x] \in Seq(Callbacks) /\ cbs \in [Lists -> Seq(Callbacks)] /\ Once(cbs[x])
  BY <1>2 DEF CallInv, CallTypes, OnceInv
<1>4. Moves(t) /\ pc'[t] = "idle"
  BY <1>1, ReturnMoves DEF CallInv
<1>5. init = "ok"
  BY <1>1 DEF InitInv
<1>6. PICK y : cbs' = [cbs EXCEPT ![x] = y] /\ Once(y) /\ (Contains(cbs[x], TASK) => Contains(y, TASK))
  <2> HIDE DEF x, u
  <2>1. CASE Register(x, u)
    <3>1. cbs' = [cbs EXCEPT ![x] = IF Contains(cbs[x], u) THEN cbs[x] ELSE Append(cbs[x], u)]
      BY <2>1 DEF Register
    <3> QED
      BY <1>2, <1>3, <3>1, OnceAppend
  <2>2. CASE Unregister(x, u)
    <3>1. cbs' = [cbs EXCEPT ![x] = RemoveFirst(cbs[x], u)]
      BY <2>2 DEF Unregister
    <3>2. Once(RemoveFirst(cbs[x], u)) /\ (Contains(cbs[x], TASK) => Contains(RemoveFirst(cbs[x], u), TASK))
      BY <1>2, <1>3, OnceRemove
    <3> QED
      BY <3>1, <3>2
  <2> QED
    BY <1>1, <2>1, <2>2 DEF x, u
<1> HIDE DEF x, u
<1>7. cbs'[x] = y /\ \A z \in Lists \ {x} : cbs'[z] = cbs[z]
  BY <1>2, <1>3, <1>6
<1>8. OnceInv'
  BY <1>1, <1>6, <1>7 DEF OnceInv
<1>9. \A z \in Lists : Contains(cbs[z], TASK) => Contains(cbs'[z], TASK)
  BY <1>6, <1>7
<1> QED
  BY <1>1, <1>4, <1>5, <1>8, <1>9, InitFrame DEF InitSteps

-----------------------------------------------------------------------------
(* What a load or a close has told whom.                                   *)

PhaseAt(t) ==
  LET p == phase[LibAt(t)] IN
  /\ pc[t] \in {"enter_ctors", "enter_dtors", "dtors"} \/ CtorsAt(pc[t]) => p \in {"new", "in"}
  /\ PreAt(pc[t], job[t]) => did[t] /\ p = IF job[t] = "dlopen" THEN "new" ELSE "in"
  /\ PostAt(pc[t]) => did[t]
  /\ pc[t] = "dtors" /\ did[t] => p = "in"
  /\ CtorsAt(pc[t]) /\ did[t] => p = "new"
  /\ job[t] = "dlopen" /\ (PostAt(pc[t]) \/ pc[t] = "leave") => p = "in"
  /\ (job[t] = "dlopen" /\ pc[t] \in PreSteps) \/ pc[t] \in PostSteps => Head(rest[t]) = TASK
PhaseInv == did \in [Thread -> BOOLEAN] /\ \A t \in Thread : job[t] \in LinkJobs => PhaseAt(t)

\* The callbacks that a walk has yet to call, and what a callback has heard at each step of a load or a close.
Left(t) == IF pc[t] \in {"in pre", "in post"} THEN Tail(rest[t]) ELSE rest[t]
Said(n) == SubSeq(Story, 1, n)
Hears(l, u, n) == told[l][u] = Said(n)
Heard(t, u) == IF Contains(Left(t), u) THEN 0 ELSE 1
Before(t) == IF job[t] = "dlopen" THEN 0 ELSE 2
Told(t, l, u) ==
  /\ pc[t] \in {"enter_ctors", "enter_dtors"} => Hears(l, u, IF phase[l] = "new" THEN 0 ELSE 2)
  /\ PreAt(pc[t], job[t]) => Hears(l, u, Before(t) + Heard(t, u))
  /\ CtorsAt(pc[t]) => (did[t] <=> phase[l] = "new") /\ Hears(l, u, IF did[t] THEN 1 ELSE 2)
  /\ pc[t] = "dtors" => (did[t] <=> phase[l] = "in") /\ Hears(l, u, IF did[t] THEN 3 ELSE 0)
  /\ PostAt(pc[t]) => Hears(l, u, Before(t) + 1 + Heard(t, u))
  /\ pc[t] = "leave" => Hears(l, u, IF job[t] = "dlopen" THEN 2 ELSE IF did[t] THEN 4 ELSE 0)

Drives(t, l) == job[t] \in LinkJobs /\ on[t] = loc[l]
Tells(l, u) ==
  /\ \A x \in Lists : Contains(cbs[x], u)
  /\ \E n \in 0 .. 4 : Hears(l, u, n)
  /\ phase[l] = "in" /\ (\A t \in Thread : ~Drives(t, l)) => Hears(l, u, 2)
  /\ \A t \in Thread : Drives(t, l) => Told(t, l, u)
TellInv ==
  /\ steady \in [Lib -> SUBSET Cb] /\ told = [l \in Lib |-> [u \in Cb |-> told[l][u]]]
  /\ \A l \in Lib : \A u \in steady[l] : Tells(l, u)

StoryInv == InitInv /\ OnceInv /\ PhaseInv /\ TellInv

\* Where the steps of a load or a close are.
LEMMA Stages ==
  ASSUME NEW s, NEW j \in LinkJobs
  PROVE  /\ s \in {"enter_ctors", "enter_dtors", "dtors", "leave"} => ~PreAt(s, j) /\ ~PostAt(s) /\ ~CtorsAt(s)
         /\ s = "pre" \/ (j = "dlopen" /\ s \in PreSteps) => PreAt(s, j) /\ ~PostAt(s) /\ ~CtorsAt(s)
         /\ s \in {"post"} \cup PostSteps => PostAt(s) /\ ~PreAt(s, j) /\ ~CtorsAt(s)
         /\ s \in {"ctors"} \cup InitSteps => CtorsAt(s) /\ ~PreAt(s, j) /\ ~PostAt(s)
         /\ PreAt(s, j) \/ PostAt(s) \/ CtorsAt(s) => s \notin {"enter_ctors", "enter_dtors", "dtors", "leave"}
         /\ s \in {"enter_ctors", "enter_dtors", "dtors", "ctors", "leave", "pre", "post"} => s \notin PreSteps \cup PostSteps
BY DEF PreAt, PostAt, CtorsAt, PreSteps, PostSteps, DoSteps, InitSteps

LEMMA UserStages ==
  ASSUME NEW j \in LinkJobs
  PROVE  /\ PreAt("in pre", j) /\ ~PostAt("in pre") /\ ~CtorsAt("in pre") /\ "in pre" \notin PreSteps \cup PostSteps
         /\ ~PreAt("in post", j) /\ PostAt("in post") /\ ~CtorsAt("in post") /\ "in post" \notin PreSteps \cup PostSteps
         /\ "in pre" \in Steps /\ "in post" \in Steps
         /\ \A s \in InitSteps \cup {"enter_ctors", "enter_dtors", "dtors", "ctors", "leave", "pre", "post", "register", "unregister"} :
              "in pre" # s /\ "in post" # s
BY DEF PreAt, PostAt, CtorsAt, PreSteps, PostSteps, DoSteps, InitSteps, Steps, WalkSteps

LEMMA LeftIs ==
  ASSUME NEW t \in Thread, pc[t] \in {"pre", "post"} \cup PreSteps \cup PostSteps
  PROVE  Left(t) = rest[t]
BY DEF Left, PreSteps, PostSteps, DoSteps

LEMMA SaidNext ==
  /\ Said(0) = <<>>
  /\ Append(Said(0), <<"init", "pre">>) = Said(1) /\ Append(Said(1), <<"init", "post">>) = Said(2)
  /\ Append(Said(2), <<"fini", "pre">>) = Said(3) /\ Append(Said(3), <<"fini", "post">>) = Said(4)
  /\ Said(4) = Story
<1> DEFINE Event == {<<"init", "pre">>, <<"init", "post">>, <<"fini", "pre">>, <<"fini", "post">>}
<1>1. /\ Story \in Seq(Event) /\ Len(Story) = 4
      /\ Story[1] = <<"init", "pre">> /\ Story[2] = <<"init", "post">>
      /\ Story[3] = <<"fini", "pre">> /\ Story[4] = <<"fini", "post">>
  BY DEF Story
<1> HIDE DEF Event
<1>2. ASSUME NEW n \in 0 .. 3 PROVE Append(Said(n), Story[n + 1]) = Said(n + 1)
  <2> DEFINE a == Append(Said(n), Story[n + 1])
  <2>1. \A i \in 1 .. 4 : Story[i] \in Event
    BY <1>1, ElementOfSeq
  <2>2. Said(n) \in Seq(Event) /\ Len(Said(n)) = n /\ \A i \in 1 .. n : Said(n)[i] = Story[i]
    BY <2>1, SubSeqProperties DEF Said
  <2>3. Said(n + 1) \in Seq(Event) /\ Len(Said(n + 1)) = n + 1 /\ \A i \in 1 .. n + 1 : Said(n + 1)[i] = Story[i]
    BY <2>1, SubSeqProperties DEF Said
  <2>4. /\ a \in Seq(Event) /\ Len(a) = n + 1 /\ a[n + 1] = Story[n + 1]
        /\ \A i \in 1 .. n : a[i] = Story[i]
    BY <2>1, <2>2, AppendProperties
  <2> HIDE DEF a
  <2>5. \A i \in 1 .. n + 1 : a[i] = Said(n + 1)[i]
    BY <2>3, <2>4
  <2>6. a = Said(n + 1)
    BY <2>3, <2>4, <2>5, SeqEqual
  <2> QED
    BY <2>6 DEF a
<1>3. Said(0) = <<>>
  BY SubSeqEmpty DEF Said
<1>4. Said(4) = Story
  BY <1>1, SubSeqFull DEF Said
<1>5. /\ Append(Said(0), Story[0 + 1]) = Said(0 + 1) /\ Append(Said(1), Story[1 + 1]) = Said(1 + 1)
      /\ Append(Said(2), Story[2 + 1]) = Said(2 + 1) /\ Append(Said(3), Story[3 + 1]) = Said(3 + 1)
  BY <1>2
<1> QED
  BY <1>1, <1>3, <1>4, <1>5

\* The only one in the linker takes a load or a close further: the library's callbacks have to hear of that.
LEMMA DriverStep ==
  ASSUME CallInv, CallInv', TaskInv, StoryInv, NEW t \in Thread, job[t] \in LinkJobs, job'[t] \in LinkJobs, Moves(t),
         UNCHANGED <<scan, initLock, init, hooked, cbs, made, steady, loc, on>>,
         pc'[t] \notin InitSteps \cup {"register", "unregister"},
         NEW l, l = LibAt(t),
         \A m \in Lib \ {l} : phase'[m] = phase[m] /\ told'[m] = told[m],
         told' = [m \in Lib |-> [u \in Cb |-> told'[m][u]]],
         did' \in [Thread -> BOOLEAN],
         Once(rest'[t]), \A u \in Thread \ {t} : rest'[u] = rest[u],
         PhaseAt(t)',
         \A u \in steady[l] :
           Tells(l, u) /\ Told(t, l, u) => Told(t, l, u)' /\ \E n \in 0 .. 4 : Hears(l, u, n)'
  PROVE  StoryInv'
<1>1. /\ l \in Lib /\ loc[l] = on[t] /\ \A m \in Lib : loc[m] = on[t] => m = l
  BY LibAtIs DEF TaskInv
<1>2. \A u \in Thread \ {t} : job[u] \notin LinkJobs /\ job'[u] \notin LinkJobs
  BY AloneInLinker DEF Moves
<1>3. InitInv'
  BY InitFrame DEF StoryInv
<1>4. OnceInv'
  BY DEF StoryInv, OnceInv
<1>5. PhaseInv'
  BY <1>2 DEF PhaseInv
<1>6. ASSUME NEW m \in Lib, NEW u \in steady[m] PROVE Tells(m, u)'
  <2>1. Tells(m, u)
    BY DEF StoryInv, TellInv
  <2>2. CASE m = l
    <3>1. Drives(t, m) /\ Drives(t, m)'
      BY <1>1, <2>2 DEF Drives
    <3>2. Told(t, m, u)' /\ \E n \in 0 .. 4 : Hears(m, u, n)'
      BY <2>1, <2>2, <3>1 DEF Tells
    <3>3. \A v \in Thread : Drives(v, m)' => v = t
      <4> SUFFICES ASSUME NEW v \in Thread, job'[v] \in LinkJobs, v # t
                   PROVE  FALSE
        BY DEF Drives
      <4> QED
        BY <1>2
    <3> QED
      BY <2>1, <3>1, <3>2, <3>3 DEF Tells
  <2>3. CASE m # l
    <3>1. \A v \in Thread : ~Drives(v, m) /\ ~Drives(v, m)'
      BY <1>1, <1>2, <2>3 DEF Drives
    <3>2. phase'[m] = phase[m] /\ told'[m] = told[m]
      BY <2>3
    <3> QED
      BY <2>1, <3>1, <3>2 DEF Tells, Hears, Said
  <2> QED
    BY <2>2, <2>3
<1>7. TellInv'
  BY <1>6 DEF TellInv, StoryInv
<1> QED
  BY <1>3, <1>4, <1>5, <1>7 DEF StoryInv

\* Other steps: the lists keep who registered before a library was mapped.
LEMMA StaysTells ==
  ASSUME CallInv, CallInv', TaskInv, StoryInv, NEW t \in Thread, StaysAt(t),
         steady' \in [Lib -> SUBSET Cb], \A l \in Lib : steady'[l] \subseteq steady[l],
         \A l \in Lib, x \in Lists : \A u \in steady'[l] : Contains(cbs[x], u) => Contains(cbs'[x], u)
  PROVE  PhaseInv' /\ TellInv'
<1> USE DEF PreSteps, PostSteps, DoSteps, LinkJobs
<1>1. /\ UNCHANGED <<phase, loc, dl, on, did, rest, told>>
      /\ \A u \in Thread \ {t} : pc'[u] = pc[u] /\ job'[u] = job[u]
      /\ \A u \in Thread : (job'[u] \in LinkJobs <=> job[u] \in LinkJobs) /\ LibAt(u)' = LibAt(u)
  BY DEF StaysAt, Moves, LibAt
<1>2. job[t] \in LinkJobs =>
        /\ job'[t] = job[t]
        /\ \/ job[t] = "dlopen" /\ pc[t] \in PreSteps /\ pc'[t] \in PreSteps
           \/ job[t] = "dlclose" /\ pc[t] \in PostSteps /\ pc'[t] \in PostSteps
           \/ job[t] = "dlopen" /\ CtorsAt(pc[t]) /\ CtorsAt(pc'[t])
  BY DEF StaysAt
<1>3. ASSUME NEW u \in Thread, job[u] \in LinkJobs
      PROVE  /\ job'[u] = job[u] /\ Left(u)' = Left(u)
             /\ pc'[u] = pc[u] \/ (u = t /\ job[t] = "dlopen" /\ pc[t] \in PreSteps /\ pc'[t] \in PreSteps)
                               \/ (u = t /\ job[t] = "dlclose" /\ pc[t] \in PostSteps /\ pc'[t] \in PostSteps)
                               \/ (u = t /\ job[t] = "dlopen" /\ CtorsAt(pc[t]) /\ CtorsAt(pc'[t]))
  BY <1>1, <1>2, <1>3 DEF Left, CtorsAt, InitSteps
<1>4. ASSUME NEW u \in Thread, job'[u] \in LinkJobs PROVE PhaseAt(u)'
  <2>1. PhaseAt(u) /\ job[u] \in LinkJobs
    BY <1>1, <1>4 DEF StoryInv, PhaseInv
  <2> QED
    BY <1>1, <1>3, <2>1 DEF PhaseAt, PreAt, PostAt, CtorsAt, InitSteps
<1>5. ASSUME NEW l \in Lib, NEW u \in steady'[l] PROVE Tells(l, u)'
  <2>1. Tells(l, u)
    BY DEF StoryInv, TellInv
  <2>2. \A v \in Thread : Drives(v, l)' <=> Drives(v, l)
    BY <1>1 DEF Drives
  <2>3. ASSUME NEW v \in Thread, Drives(v, l) PROVE Told(v, l, u)'
    <3>1. Told(v, l, u) /\ job[v] \in LinkJobs
      BY <2>1, <2>3 DEF Tells, Drives
    <3>2. Before(v)' = Before(v) /\ Heard(v, u)' = Heard(v, u) /\ \A n : Hears(l, u, n)' <=> Hears(l, u, n)
      BY <1>1, <1>3, <3>1 DEF Before, Heard, Hears, Said
    <3> HIDE DEF Before, Heard, Hears
    <3> QED
      BY <1>1, <1>3, <3>1, <3>2 DEF Told, PreAt, PostAt, CtorsAt, InitSteps
  <2>4. \A x \in Lists : Contains(cbs'[x], u)
    BY <2>1 DEF Tells
  <2>5. (\E n \in 0 .. 4 : Hears(l, u, n)') /\ (phase'[l] = "in" /\ (\A v \in Thread : ~Drives(v, l)') => Hears(l, u, 2)')
    BY <1>1, <2>1, <2>2 DEF Tells, Hears, Said
  <2> QED
    BY <2>2, <2>3, <2>4, <2>5 DEF Tells
<1>6. PhaseInv'
  BY <1>1, <1>4 DEF PhaseInv, StoryInv
<1> QED
  BY <1>1, <1>5, <1>6 DEF TellInv, StoryInv

\* What the one in the linker relies on: before a callback is registered all there is of initialisation is there.
LEMMA DriverKnows ==
  ASSUME CallInv, TaskInv, StoryInv, NEW t \in Thread, job[t] \in LinkJobs, NEW l, l = LibAt(t)
  PROVE  /\ l \in Lib /\ loc[l] = on[t] /\ on[t] \in Addr /\ PhaseAt(t) /\ did \in [Thread -> BOOLEAN]
         /\ \A u \in steady[l] : u \in Cb /\ Tells(l, u) /\ Told(t, l, u) /\ \A x \in Lists : Contains(cbs[x], u)
         /\ steady[l] # {} => Ready /\ \A x \in Lists : cbs[x] # <<>>
<1>1. l \in Lib /\ loc[l] = on[t] /\ on[t] \in Addr
  BY LibAtIs DEF TaskInv
<1>2. PhaseAt(t) /\ did \in [Thread -> BOOLEAN] /\ steady[l] \subseteq Cb
  BY <1>1 DEF StoryInv, PhaseInv, TellInv
<1>3. \A u \in steady[l] : Tells(l, u)
  BY <1>1 DEF StoryInv, TellInv
<1>4. \A u \in steady[l] : Told(t, l, u) /\ \A x \in Lists : Contains(cbs[x], u)
  BY <1>1, <1>3 DEF Tells, Drives
<1>5. steady[l] # {} => Ready /\ \A x \in Lists : cbs[x] # <<>>
  <2> SUFFICES ASSUME NEW u \in steady[l]
               PROVE  Ready /\ \A x \in Lists : cbs[x] # <<>>
    OBVIOUS
  <2>1. Contains(cbs["init"], u) /\ u \in Cb /\ "init" \in Lists
    BY <1>2, <1>4 DEF Lists
  <2>2. init = "ok"
    BY <2>1 DEF StoryInv, InitInv
  <2>3. ~Contains(<<>>, u)
    BY DEF Contains
  <2> QED
    BY <1>4, <2>2, <2>3 DEF StoryInv, InitInv
<1> QED
  BY <1>1, <1>2, <1>3, <1>4, <1>5

\* A step in the linker that leaves init, lists and places alone; DriverStep for it.
LEMMA DriverGoto ==
  ASSUME CallInv, CallInv', TaskInv, StoryInv, NEW t \in Thread, job[t] \in LinkJobs, NEW s \in Steps, Goto(t, s),
         s \notin InitSteps \cup {"register", "unregister"},
         UNCHANGED <<apiVars, cbs, made, steady, loc, on, job, cur>>,
         NEW l, l = LibAt(t),
         \A m \in Lib \ {l} : phase'[m] = phase[m] /\ told'[m] = told[m],
         told' = [m \in Lib |-> [u \in Cb |-> told'[m][u]]],
         did' \in [Thread -> BOOLEAN],
         Once(rest'[t]), \A u \in Thread \ {t} : rest'[u] = rest[u],
         pc'[t] = s /\ job'[t] = job[t] /\ LibAt(t)' = l => PhaseAt(t)',
         \A u \in steady[l] : pc'[t] = s /\ job'[t] = job[t] /\ Told(t, l, u) =>
            Told(t, l, u)' /\ (told'[l][u] # told[l][u] => \E n \in 0 .. 4 : Hears(l, u, n)')
  PROVE  StoryInv'
<1>1. Moves(t) /\ pc'[t] = s /\ job'[t] = job[t]
  BY GotoMoves DEF CallInv
<1>2. LibAt(t)' = l /\ UNCHANGED <<scan, initLock, init, hooked>>
  BY DEF LibAt, apiVars
<1>3. \A u \in steady[l] :
        Tells(l, u) /\ Told(t, l, u) => Told(t, l, u)' /\ \E n \in 0 .. 4 : Hears(l, u, n)'
  BY <1>1 DEF Tells, Hears, Said
<1> QED
  BY <1>1, <1>2, <1>3, DriverStep

LEMMA LoadFailsTells ==
  ASSUME CallInv, CallInv', TaskInv, StoryInv, NEW t \in Thread, LoadFails(t), UNCHANGED made
  PROVE  StoryInv'
<1>0. PICK l : l = LibAt(t)
  OBVIOUS
<1>1. /\ pc[t] = "enter_ctors" /\ Goto(t, "enter_dtors") /\ job' = [job EXCEPT ![t] = "dlclose"] /\ phase[l] = "new"
      /\ UNCHANGED <<cur, on, libVars, apiVars, cbVars>>
  BY <1>0 DEF LoadFails, At, linkVars
<1>2. job[t] = "dlopen"
  BY <1>1 DEF CallInv, Sound, JobAt, CtorSteps
<1>3. Moves(t) /\ pc'[t] = "enter_dtors" /\ job'[t] = "dlclose"
  BY <1>1 DEF CallInv, CallTypes, Goto, Moves, Steps, DtorSteps, Jobs, LinkJobs
<1>4. LibAt(t)' = l
  BY <1>0, <1>1 DEF LibAt, libVars
<1>5. PhaseAt(t)'
  BY <1>1, <1>3, <1>4, Stages DEF PhaseAt, libVars, LinkJobs
<1>6. \A u \in steady[l] : Tells(l, u) /\ Told(t, l, u) => Told(t, l, u)' /\ \E n \in 0 .. 4 : Hears(l, u, n)'
  <2> SUFFICES ASSUME NEW u \in steady[l], Tells(l, u), Told(t, l, u)
               PROVE  Told(t, l, u)' /\ \E n \in 0 .. 4 : Hears(l, u, n)'
    OBVIOUS
  <2>1. Hears(l, u, 0)
    BY <1>1 DEF Told
  <2>2. Hears(l, u, 0)' /\ phase'[l] = "new"
    BY <1>1, <2>1 DEF Hears, Said, libVars, cbVars
  <2> HIDE DEF Hears
  <2>3. Told(t, l, u)'
    BY <1>3, <2>2, Stages DEF Told, LinkJobs
  <2> QED
    BY <2>2, <2>3
<1>7. Once(rest[t]) /\ did \in [Thread -> BOOLEAN] /\ told = [m \in Lib |-> [u \in Cb |-> told[m][u]]]
  BY DEF StoryInv, OnceInv, PhaseInv, TellInv
<1> QED
  BY <1>0, <1>1, <1>2, <1>3, <1>5, <1>6, <1>7, DriverStep DEF libVars, apiVars, cbVars, LinkJobs, InitSteps

\* All that is in the list is yet to be called when a walk begins.
LEMMA BeginWalkTells ==
  ASSUME CallInv, StoryInv, NEW t \in Thread, job[t] \in LinkJobs, BeginWalk(t)
  PROVE  /\ rest'[t] = cbs[ListOf(job[t])] /\ ListOf(job[t]) \in Lists
         /\ Once(rest'[t]) /\ \A u \in Thread \ {t} : rest'[u] = rest[u]
<1>1. List(t) = ListOf(job[t]) /\ ListOf(job[t]) \in Lists
  BY DEF List, ListOf, Lists
<1> QED
  BY <1>1 DEF BeginWalk, CallInv, CallTypes, StoryInv, OnceInv

\* Whether the proxies do callbacks: never for the wrong job, and always if all is there.
LEMMA EnterDoes ==
  ASSUME CallInv, NEW t \in Thread, EnterCtors(t) \/ EnterDtors(t), NEW l, l = LibAt(t)
  PROVE  /\ (pc[t] = "enter_ctors" /\ job[t] = "dlopen") \/ (pc[t] = "enter_dtors" /\ job[t] = "dlclose")
         /\ UNCHANGED <<libVars, apiVars, cbs, told, steady, job, cur, on>>
         /\ \E do \in BOOLEAN :
              /\ did' = [did EXCEPT ![t] = do]
              /\ \/ do /\ BeginWalk(t) /\ Goto(t, "pre")
                 \/ ~do /\ Goto(t, IF job[t] = "dlopen" THEN "ctors" ELSE "dtors") /\ UNCHANGED <<reader, rest>>
              /\ do => cbs["init"] # <<>> /\ (phase[l] = "new" <=> job[t] = "dlopen")
              /\ Ready /\ (\A x \in Lists : cbs[x] # <<>>) => (do <=> (phase[l] = "new" <=> job[t] = "dlopen"))
<1>1. JobAt(pc[t], job[t])
  BY DEF CallInv, Sound
<1>2. /\ (pc[t] = "enter_ctors" /\ job[t] = "dlopen") \/ (pc[t] = "enter_dtors" /\ job[t] = "dlclose")
      /\ UNCHANGED <<libVars, apiVars, cbs, told, steady, job, cur, on>>
  BY <1>1 DEF EnterCtors, EnterDtors, At, JobAt, CtorSteps, DtorSteps
<1>3. \E do \in BOOLEAN :
        /\ did' = [did EXCEPT ![t] = do]
        /\ \/ do /\ BeginWalk(t) /\ Goto(t, "pre")
           \/ ~do /\ Goto(t, IF job[t] = "dlopen" THEN "ctors" ELSE "dtors") /\ UNCHANGED <<reader, rest>>
        /\ do => cbs["init"] # <<>> /\ (phase[l] = "new" <=> job[t] = "dlopen")
        /\ Ready /\ (\A x \in Lists : cbs[x] # <<>>) => (do <=> (phase[l] = "new" <=> job[t] = "dlopen"))
  <2>1. CASE EnterCtors(t)
    <3>1. job[t] = "dlopen"
      BY <1>2, <2>1 DEF EnterCtors, At
    <3> DEFINE d == "constructors" \in hooked /\ Scanned /\ Loading(t) /\ cbs["init"] # <<>>
    <3>2. /\ did' = [did EXCEPT ![t] = d]
          /\ \/ d /\ BeginWalk(t) /\ Goto(t, "pre")
             \/ ~d /\ Goto(t, "ctors") /\ UNCHANGED <<reader, rest>>
      BY <2>1, ZenonT(60) DEF EnterCtors
    <3>3. (d => cbs["init"] # <<>> /\ phase[l] = "new") /\ (Ready /\ (\A x \in Lists : cbs[x] # <<>>) => (d <=> phase[l] = "new"))
      BY DEF Ready, Lists, Loading
    <3>4. d \in BOOLEAN
      OBVIOUS
    <3> HIDE DEF d
    <3> QED
      BY <3>1, <3>2, <3>3, <3>4
  <2>2. CASE EnterDtors(t)
    <3>1. job[t] = "dlclose"
      BY <1>2, <2>2 DEF EnterDtors, At
    <3> DEFINE d == "destructors" \in hooked /\ Scanned /\ cbs["init"] # <<>> /\ ~Loading(t)
    <3>2. /\ did' = [did EXCEPT ![t] = d]
          /\ \/ d /\ BeginWalk(t) /\ Goto(t, "pre")
             \/ ~d /\ Goto(t, "dtors") /\ UNCHANGED <<reader, rest>>
      BY <2>2, ZenonT(60) DEF EnterDtors
    <3>3. (d => cbs["init"] # <<>> /\ phase[l] # "new") /\ (Ready /\ (\A x \in Lists : cbs[x] # <<>>) => (d <=> phase[l] # "new"))
      BY DEF Ready, Lists, Loading
    <3>4. d \in BOOLEAN
      OBVIOUS
    <3> HIDE DEF d
    <3> QED
      BY <3>1, <3>2, <3>3, <3>4
  <2> QED
    BY <2>1, <2>2
<1> QED
  BY <1>2, <1>3

LEMMA EnterTells ==
  ASSUME CallInv, CallInv', TaskInv, StoryInv, NEW t \in Thread, EnterCtors(t) \/ EnterDtors(t), UNCHANGED made
  PROVE  StoryInv'
<1>1. PICK l : l = LibAt(t)
  OBVIOUS
<1>2. /\ (pc[t] = "enter_ctors" /\ job[t] = "dlopen") \/ (pc[t] = "enter_dtors" /\ job[t] = "dlclose")
      /\ UNCHANGED <<libVars, apiVars, cbs, told, steady, job, cur, on>>
  BY <1>1, EnterDoes
<1>3. PICK do \in BOOLEAN :
        /\ did' = [did EXCEPT ![t] = do]
        /\ \/ do /\ BeginWalk(t) /\ Goto(t, "pre")
           \/ ~do /\ Goto(t, IF job[t] = "dlopen" THEN "ctors" ELSE "dtors") /\ UNCHANGED <<reader, rest>>
        /\ do => (phase[l] = "new" <=> job[t] = "dlopen")
        /\ Ready /\ (\A x \in Lists : cbs[x] # <<>>) => (do <=> (phase[l] = "new" <=> job[t] = "dlopen"))
  BY <1>1, EnterDoes
<1>4. job[t] \in LinkJobs
  BY <1>2 DEF LinkJobs
<1>5. PICK s \in {"pre", "ctors", "dtors"} :
        /\ Goto(t, s)
        /\ \/ do /\ BeginWalk(t) /\ s = "pre"
           \/ ~do /\ s = (IF job[t] = "dlopen" THEN "ctors" ELSE "dtors") /\ rest' = rest
  BY <1>3
<1>6. s \in Steps /\ s \notin InitSteps \cup {"register", "unregister"}
  BY DEF Steps, WalkSteps, CtorSteps, DtorSteps, InitSteps
<1>7. /\ l \in Lib /\ PhaseAt(t) /\ did \in [Thread -> BOOLEAN]
      /\ \A u \in steady[l] : Told(t, l, u) /\ \A x \in Lists : Contains(cbs[x], u)
      /\ steady[l] # {} => Ready /\ \A x \in Lists : cbs[x] # <<>>
  BY <1>1, <1>4, DriverKnows
<1>8. did'[t] = do /\ did' \in [Thread -> BOOLEAN]
  BY <1>3, <1>7
<1>9. phase[l] \in {"new", "in"} /\ phase' = phase
  BY <1>1, <1>2, <1>7 DEF PhaseAt, libVars
<1>10. Once(rest'[t]) /\ (\A u \in Thread \ {t} : rest'[u] = rest[u]) /\ (do => rest'[t] = cbs[ListOf(job[t])] /\ ListOf(job[t]) \in Lists)
  BY <1>4, <1>5, BeginWalkTells DEF StoryInv, OnceInv
<1>11. ASSUME pc'[t] = s, job'[t] = job[t], LibAt(t)' = l PROVE PhaseAt(t)'
  BY <1>2, <1>3, <1>4, <1>5, <1>8, <1>9, <1>11, Stages DEF PhaseAt
<1>12. ASSUME NEW u \in steady[l], pc'[t] = s, job'[t] = job[t], Told(t, l, u) PROVE Told(t, l, u)'
  <2>1. do <=> (phase[l] = "new" <=> job[t] = "dlopen")
    BY <1>3, <1>7
  <2>2. Hears(l, u, IF phase[l] = "new" THEN 0 ELSE 2)
    BY <1>2, <1>12 DEF Told
  <2>3. \A n : Hears(l, u, n)' <=> Hears(l, u, n)
    BY <1>2 DEF Hears, Said
  <2>4. CASE do
    <3>1. pc'[t] = "pre" /\ Contains(rest'[t], u)
      BY <1>5, <1>7, <1>10, <1>12, <2>4
    <3>2. Heard(t, u)' = 0 /\ Before(t)' = IF job[t] = "dlopen" THEN 0 ELSE 2
      BY <1>12, <3>1, LeftIs DEF Heard, Left, Before
    <3> HIDE DEF Hears, Heard, Before
    <3>3. Before(t)' + Heard(t, u)' = IF phase[l] = "new" THEN 0 ELSE 2
      BY <1>2, <1>9, <2>1, <2>4, <3>2
    <3>4. Hears(l, u, Before(t) + Heard(t, u))'
      BY <2>2, <2>3, <3>3 DEF Hears, Said
    <3> QED
      BY <1>4, <1>12, <3>1, <3>4, Stages DEF Told
  <2>5. CASE ~do
    <3>1. pc'[t] = (IF job[t] = "dlopen" THEN "ctors" ELSE "dtors") /\ did'[t] = FALSE
      BY <1>5, <1>8, <1>12, <2>5
    <3> HIDE DEF Hears
    <3> QED
      BY <1>2, <1>9, <1>12, <2>1, <2>2, <2>3, <2>5, <3>1, Stages DEF Told, LinkJobs
  <2> QED
    BY <2>4, <2>5
<1>13. told = [m \in Lib |-> [u \in Cb |-> told[m][u]]]
  BY DEF StoryInv, TellInv
<1> QED
  BY <1>1, <1>2, <1>4, <1>5, <1>6, <1>8, <1>10, <1>11, <1>12, <1>13, DriverGoto DEF libVars

\* A step of a walk, at which no callback of a user begins.
LEMMA WalkTells ==
  ASSUME CallInv, CallInv', TaskInv, StoryInv, NEW t \in Thread, job[t] \in LinkJobs, NEW s \in Steps, Goto(t, s),
         UNCHANGED <<apiVars, cbs, made, steady, libVars, told, did, on, job, cur>>,
         \/ PreAt(pc[t], job[t]) /\ PreAt(s, job[t]) /\ ~PostAt(s)
         \/ PostAt(pc[t]) /\ PostAt(s) /\ ~PreAt(s, job[t]),
         s \notin InitSteps \cup {"register", "unregister"},
         (job[t] = "dlopen" /\ s \in PreSteps) \/ s \in PostSteps => Head(rest'[t]) = TASK,
         Once(rest'[t]), \A u \in Thread \ {t} : rest'[u] = rest[u],
         pc'[t] = s => \A u \in Cb : Contains(Left(t)', u) <=> Contains(Left(t), u)
  PROVE  StoryInv'
<1>1. PICK l : l = LibAt(t)
  OBVIOUS
<1>2. PhaseAt(t) /\ did \in [Thread -> BOOLEAN] /\ \A u \in steady[l] : u \in Cb
  BY <1>1, DriverKnows
<1>3. ~CtorsAt(s) /\ s \notin {"enter_ctors", "enter_dtors", "dtors", "leave"}
  BY Stages DEF CtorsAt
<1>4. phase' = phase /\ LibAt(t)' = LibAt(t)
  BY DEF libVars, LibAt
<1>5. ASSUME pc'[t] = s, job'[t] = job[t] PROVE PhaseAt(t)'
  BY <1>2, <1>3, <1>4, <1>5 DEF PhaseAt
<1>6. ASSUME NEW u \in steady[l], pc'[t] = s, job'[t] = job[t], Told(t, l, u) PROVE Told(t, l, u)'
  <2>1. Heard(t, u)' = Heard(t, u) /\ Before(t)' = Before(t) /\ \A n : Hears(l, u, n)' <=> Hears(l, u, n)
    BY <1>2, <1>6 DEF Heard, Before, Hears, Said
  <2> HIDE DEF Heard, Before, Hears
  <2>2. PreAt(s, job[t]) => Hears(l, u, Before(t) + Heard(t, u))'
    <3>1. PreAt(s, job[t]) => Hears(l, u, Before(t) + Heard(t, u))
      BY <1>6 DEF Told
    <3> QED
      BY <2>1, <3>1 DEF Hears, Said
  <2>3. PostAt(s) => Hears(l, u, Before(t) + 1 + Heard(t, u))'
    <3>1. PostAt(s) => Hears(l, u, Before(t) + 1 + Heard(t, u))
      BY <1>6 DEF Told
    <3> QED
      BY <2>1, <3>1 DEF Hears, Said
  <2> QED
    BY <1>3, <1>6, <2>2, <2>3 DEF Told
<1>7. told = [m \in Lib |-> [u \in Cb |-> told[m][u]]]
  BY DEF StoryInv, TellInv
<1> QED
  BY <1>1, <1>2, <1>4, <1>5, <1>6, <1>7, DriverGoto DEF libVars

LEMMA UserReturnsTells ==
  ASSUME CallInv, CallInv', TaskInv, StoryInv, NEW t \in Thread, UserReturns(t), UNCHANGED made
  PROVE  StoryInv'
<1>1. /\ UNCHANGED <<libVars, apiVars, cbs, did, told, steady, job, cur, on>>
      /\ rest' = [rest EXCEPT ![t] = Tail(rest[t])]
      /\ (pc[t] = "in pre" /\ Goto(t, "pre")) \/ (pc[t] = "in post" /\ Goto(t, "post"))
  BY DEF UserReturns, Passed
<1>2. job[t] \in LinkJobs /\ rest[t] # <<>> /\ rest \in [Thread -> Seq(Callbacks)] /\ Once(rest[t])
  BY <1>1 DEF CallInv, CallTypes, Sound, JobAt, WalkSteps, LinkJobs, InCallback, WalksAt, StoryInv, OnceInv
<1>3. Left(t) = Tail(rest[t])
  BY <1>1 DEF Left
<1>4. rest'[t] = Tail(rest[t]) /\ Once(rest'[t]) /\ \A u \in Thread \ {t} : rest'[u] = rest[u]
  BY <1>1, <1>2, OnceTail
<1>5. PICK s \in {"pre", "post"} : /\ Goto(t, s)
                                   /\ \/ s = "pre" /\ PreAt(pc[t], job[t])
                                      \/ s = "post" /\ PostAt(pc[t])
  BY <1>1, <1>2, UserStages
<1>6. pc'[t] = s => Left(t)' = Left(t)
  BY <1>3, <1>4 DEF Left
<1>7. s \in Steps /\ s \notin InitSteps \cup {"register", "unregister"}
  BY DEF Steps, WalkSteps, InitSteps
<1> QED
  BY <1>1, <1>2, <1>4, <1>5, <1>6, <1>7, Stages, WalkTells

\* The tasks' callback is passed over, or begins, or ends.
LEMMA TaskPassedTells ==
  ASSUME CallInv, CallInv', TaskInv, StoryInv, NEW t \in Thread, CallTask(t) \/ CallbackReturns(t), UNCHANGED made
  PROVE  StoryInv'
<1>1. UNCHANGED <<libVars, apiVars, cbs, did, told, steady, job, cur, on>>
  BY DEF CallTask, CallbackReturns, TaskReturns
<1>2. JobAt(pc[t], job[t])
  BY DEF CallInv, Sound
<1>3. PICK s \in {"pre", "post", "init_pre", "sweep"} :
        /\ Goto(t, s)
        /\ \/ s = "pre" /\ pc[t] = "pre" /\ rest' = [rest EXCEPT ![t] = Tail(rest[t])]
           \/ s = "post" /\ pc[t] = "post" /\ rest' = [rest EXCEPT ![t] = Tail(rest[t])]
           \/ s = "pre" /\ pc[t] = "pending" /\ job[t] = "dlopen" /\ rest' = [rest EXCEPT ![t] = Tail(rest[t])]
           \/ s = "post" /\ pc[t] = "reset" /\ rest' = [rest EXCEPT ![t] = Tail(rest[t])]
           \/ s = "init_pre" /\ pc[t] = "pre" /\ job[t] = "dlopen" /\ rest' = rest
           \/ s = "sweep" /\ pc[t] = "post" /\ rest' = rest
  <2>1. CASE CallTask(t)
    BY <2>1 DEF CallTask, Passed, List
  <2>2. CASE CallbackReturns(t)
    BY <1>2, <2>2 DEF CallbackReturns, TaskReturns, Passed, List, JobAt, CtorSteps, DtorSteps
  <2> QED
    BY <2>1, <2>2
<1>4. /\ job[t] \in LinkJobs /\ pc[t] \in {"pre", "post", "pending", "reset"}
      /\ rest \in [Thread -> Seq(Callbacks)] /\ Once(rest[t])
  BY <1>2, <1>3 DEF CallInv, CallTypes, JobAt, WalkSteps, CtorSteps, DtorSteps, LinkJobs, StoryInv, OnceInv
<1>5. rest[t] # <<>> /\ Head(rest[t]) = TASK
  <2>1. CASE CallTask(t)
    BY <2>1 DEF CallTask
  <2>2. CASE CallbackReturns(t)
    <3>1. (pc[t] = "pending" /\ job[t] = "dlopen") \/ pc[t] = "reset"
      BY <1>2, <2>2 DEF CallbackReturns, JobAt, CtorSteps
    <3>2. rest[t] # <<>>
      BY <3>1 DEF CallInv, Sound, InCallback, WalksAt, CtorSteps, DtorSteps
    <3>3. PhaseAt(t)
      BY <1>4 DEF StoryInv, PhaseInv
    <3> QED
      BY <3>1, <3>2, <3>3 DEF PhaseAt, PreSteps, PostSteps
  <2> QED
    BY <2>1, <2>2
<1>6. /\ Once(Tail(rest[t])) /\ TASK \notin Cb
      /\ \A u \in Cb : Contains(Tail(rest[t]), u) <=> Contains(rest[t], u)
  BY <1>4, <1>5, OnceTail, LinkerAssumption
<1>7. /\ rest'[t] \in {rest[t], Tail(rest[t])} /\ (s \in {"init_pre", "sweep"} => rest'[t] = rest[t])
      /\ \A u \in Thread \ {t} : rest'[u] = rest[u]
  BY <1>3, <1>4
<1>8. Left(t) = rest[t]
  BY <1>4, LeftIs DEF PreSteps, PostSteps
<1>9. pc'[t] = s => Left(t)' = rest'[t]
  BY DEF Left
<1>10. pc'[t] = s => \A u \in Cb : Contains(Left(t)', u) <=> Contains(Left(t), u)
  BY <1>6, <1>7, <1>8, <1>9
<1>11. s \in Steps /\ s \notin InitSteps \cup {"register", "unregister"}
  BY DEF Steps, WalkSteps, CtorSteps, DtorSteps, InitSteps
<1>12. "pending" \in PreSteps /\ "init_pre" \in PreSteps /\ "reset" \in PostSteps /\ "sweep" \in PostSteps
  BY DEF PreSteps, PostSteps
<1>13. \/ PreAt(pc[t], job[t]) /\ PreAt(s, job[t]) /\ ~PostAt(s)
       \/ PostAt(pc[t]) /\ PostAt(s) /\ ~PreAt(s, job[t])
  BY <1>3, <1>4, <1>12, Stages
<1>14. (job[t] = "dlopen" /\ s \in PreSteps) \/ s \in PostSteps => Head(rest'[t]) = TASK
  BY <1>4, <1>5, <1>7, Stages
<1> QED
  BY <1>1, <1>3, <1>4, <1>6, <1>7, <1>10, <1>11, <1>13, <1>14, WalkTells

LEMMA CallUserTells ==
  ASSUME CallInv, CallInv', TaskInv, StoryInv, NEW t \in Thread, CallUser(t), UNCHANGED made
  PROVE  StoryInv'
<1>0. PICK l : l = LibAt(t)
  OBVIOUS
<1> DEFINE h == Head(rest[t])
           b == Before(t) + (IF pc[t] = "pre" THEN 0 ELSE 1)
<1>1. /\ pc[t] \in {"pre", "post"} /\ rest[t] # <<>> /\ h \in Cb
      /\ told' = [told EXCEPT ![l][h] = Append(@, <<List(t), pc[t]>>)]
      /\ UNCHANGED <<libVars, apiVars, cbs, reader, rest, did, steady, job, cur, on>>
  BY <1>0 DEF CallUser
<1>2. job[t] \in LinkJobs /\ rest[t] \in Seq(Callbacks) /\ Once(rest[t])
  BY <1>1 DEF CallInv, CallTypes, Sound, JobAt, WalkSteps, StoryInv, OnceInv
<1>3. PICK s \in Steps :
        /\ Goto(t, s) /\ s \notin InitSteps \cup {"register", "unregister"}
        /\ s \notin {"enter_ctors", "enter_dtors", "dtors", "leave"} /\ s \notin PreSteps \cup PostSteps /\ ~CtorsAt(s)
        /\ pc[t] = "pre" => PreAt(s, job[t]) /\ ~PostAt(s)
        /\ pc[t] = "post" => PostAt(s) /\ ~PreAt(s, job[t])
        /\ pc'[t] = s => Left(t)' = Tail(rest'[t])
  <2>1. \/ pc[t] = "pre" /\ Goto(t, "in pre")
        \/ pc[t] = "post" /\ Goto(t, "in post")
    BY DEF CallUser
  <2>2. pc'[t] \in {"in pre", "in post"} => Left(t)' = Tail(rest'[t])
    BY DEF Left
  <2> QED
    BY <1>2, <2>1, <2>2, UserStages
<1>4. /\ l \in Lib /\ PhaseAt(t) /\ did \in [Thread -> BOOLEAN] /\ \A u \in steady[l] : u \in Cb
  BY <1>0, <1>2, DriverKnows
<1>5. told = [m \in Lib |-> [u \in Cb |-> told[m][u]]]
  BY DEF StoryInv, TellInv
<1>6. /\ told'[l][h] = Append(told[l][h], <<List(t), pc[t]>>)
      /\ \A u \in Cb \ {h} : told'[l][u] = told[l][u]
      /\ \A m \in Lib \ {l} : told'[m] = told[m]
      /\ told' = [m \in Lib |-> [u \in Cb |-> told'[m][u]]]
  BY <1>1, <1>4, <1>5
<1>7. \/ pc[t] = "pre" /\ PreAt(pc[t], job[t]) /\ ~PostAt(pc[t])
      \/ pc[t] = "post" /\ PostAt(pc[t]) /\ ~PreAt(pc[t], job[t])
  BY <1>1, <1>2, Stages
<1>8. phase' = phase /\ LibAt(t)' = l
  BY <1>0, <1>1 DEF libVars, LibAt
<1>9. ASSUME pc'[t] = s, job'[t] = job[t] PROVE PhaseAt(t)'
  BY <1>0, <1>1, <1>3, <1>4, <1>7, <1>8, <1>9 DEF PhaseAt
<1>10. Contains(rest[t], h) /\ \A u : Contains(Tail(rest[t]), u) <=> Contains(rest[t], u) /\ u # h
  <2>1. h = rest[t][1] /\ 1 \in 1 .. Len(rest[t])
    BY <1>1, <1>2, HeadFirst
  <2> QED
    BY <1>1, <1>2, <2>1, OnceTail DEF Contains
<1>11. Left(t) = rest[t]
  BY <1>1, LeftIs
<1>12. /\ List(t) = (IF job[t] = "dlopen" THEN "init" ELSE "fini") /\ Before(t) = (IF job[t] = "dlopen" THEN 0 ELSE 2)
       /\ Append(Said(b), <<List(t), pc[t]>>) = Said(b + 1)
  <2>1. /\ List(t) = (IF job[t] = "dlopen" THEN "init" ELSE "fini") /\ Before(t) = (IF job[t] = "dlopen" THEN 0 ELSE 2)
    BY DEF List, Before
  <2>2. CASE job[t] = "dlopen"
    <3>1. CASE pc[t] = "pre"
      <4>1. b = 0 /\ List(t) = "init"
        BY <2>1, <2>2, <3>1
      <4> QED
        BY <2>1, <3>1, <4>1, SaidNext
    <3>2. CASE pc[t] = "post"
      <4>1. b = 1 /\ List(t) = "init"
        BY <2>1, <2>2, <3>2
      <4> QED
        BY <2>1, <3>2, <4>1, SaidNext
    <3> QED
      BY <1>1, <3>1, <3>2
  <2>3. CASE job[t] # "dlopen"
    <3>1. CASE pc[t] = "pre"
      <4>1. b = 2 /\ List(t) = "fini"
        BY <2>1, <2>3, <3>1
      <4> QED
        BY <2>1, <3>1, <4>1, SaidNext
    <3>2. CASE pc[t] = "post"
      <4>1. b = 3 /\ List(t) = "fini"
        BY <2>1, <2>3, <3>2
      <4> QED
        BY <2>1, <3>2, <4>1, SaidNext
    <3> QED
      BY <1>1, <3>1, <3>2
  <2> QED
    BY <2>1, <2>2, <2>3
<1>13. PICK c \in 0 .. 3 : c = b
  BY <1>12
<1> HIDE DEF b
<1>14. ASSUME NEW u \in steady[l], pc'[t] = s, job'[t] = job[t], Told(t, l, u)
       PROVE  Told(t, l, u)' /\ \E n \in 0 .. 4 : Hears(l, u, n)'
  <2>1. PICK d \in {0, 1} : d = IF Contains(rest[t], u) /\ u # h THEN 0 ELSE 1
    OBVIOUS
  <2>2. Heard(t, u)' = d /\ Heard(t, u) = (IF Contains(rest[t], u) THEN 0 ELSE 1) /\ Before(t)' = Before(t)
    BY <1>1, <1>3, <1>10, <1>11, <1>14, <2>1 DEF Heard, Before
  <2>3. told[l][u] = Said(c + Heard(t, u)) /\ c = Before(t) + (IF pc[t] = "pre" THEN 0 ELSE 1)
    <3>1. CASE pc[t] = "pre"
      <4>1. Hears(l, u, Before(t) + Heard(t, u)) /\ c = Before(t)
        BY <1>7, <1>12, <1>13, <1>14, <3>1 DEF Told, b
      <4> QED
        BY <3>1, <4>1 DEF Hears
    <3>2. CASE pc[t] = "post"
      <4>1. Hears(l, u, Before(t) + 1 + Heard(t, u)) /\ c = Before(t) + 1
        BY <1>7, <1>12, <1>13, <1>14, <3>2 DEF Told, b
      <4> QED
        BY <3>2, <4>1 DEF Hears
    <3> QED
      BY <1>1, <3>1, <3>2
  <2>4. told'[l][u] = Said(c + d)
    <3>1. CASE u = h
      <4>1. told[l][u] = Said(c) /\ d = 1
        BY <1>10, <1>13, <2>1, <2>2, <2>3, <3>1
      <4> QED
        BY <1>6, <1>12, <1>13, <3>1, <4>1
    <3>2. CASE u # h
      <4>1. told'[l][u] = told[l][u] /\ Heard(t, u) = d
        BY <1>4, <1>6, <2>1, <2>2, <3>2
      <4> QED
        BY <2>3, <4>1
    <3> QED
      BY <3>1, <3>2
  <2>5. c + d \in 0 .. 4 /\ Hears(l, u, c + d)'
    BY <1>13, <2>4 DEF Hears, Said
  <2>6. Told(t, l, u)'
    <3>1. PreAt(s, job[t]) => Hears(l, u, Before(t) + Heard(t, u))'
      <4> SUFFICES ASSUME PreAt(s, job[t])
                   PROVE  Hears(l, u, Before(t) + Heard(t, u))'
        OBVIOUS
      <4>1. pc[t] = "pre"
        BY <1>1, <1>3
      <4>2. Before(t)' + Heard(t, u)' = c + d
        BY <1>12, <2>1, <2>2, <2>3, <4>1
      <4> QED
        BY <2>4, <4>2 DEF Hears, Said
    <3>2. PostAt(s) => Hears(l, u, Before(t) + 1 + Heard(t, u))'
      <4> SUFFICES ASSUME PostAt(s)
                   PROVE  Hears(l, u, Before(t) + 1 + Heard(t, u))'
        OBVIOUS
      <4>1. pc[t] = "post"
        BY <1>1, <1>3
      <4>2. Before(t)' + 1 + Heard(t, u)' = c + d
        BY <1>12, <2>1, <2>2, <2>3, <4>1
      <4> QED
        BY <2>4, <4>2 DEF Hears, Said
    <3> QED
      BY <1>3, <1>14, <3>1, <3>2 DEF Told
  <2> QED
    BY <2>5, <2>6
<1> QED
  BY <1>0, <1>1, <1>2, <1>3, <1>4, <1>6, <1>8, <1>9, <1>14, DriverGoto DEF libVars

\* Nothing is left of a walk: all have been called.
LEMMA EndWalkTells ==
  ASSUME CallInv, CallInv', TaskInv, StoryInv, NEW t \in Thread, EndWalk(t), UNCHANGED made
  PROVE  StoryInv'
<1>0. PICK l : l = LibAt(t)
  OBVIOUS
<1>1. /\ pc[t] \in {"pre", "post"} /\ rest[t] = <<>>
      /\ UNCHANGED <<libVars, apiVars, cbs, rest, did, told, steady, job, cur, on>>
      /\ Goto(t, IF pc[t] = "post" THEN "leave" ELSE IF List(t) = "init" THEN "ctors" ELSE "dtors")
  BY DEF EndWalk
<1>2. job[t] \in LinkJobs
  BY <1>1 DEF CallInv, Sound, JobAt, WalkSteps
<1>3. PICK s \in {"leave", "ctors", "dtors"} :
        /\ Goto(t, s)
        /\ \/ s = "leave" /\ pc[t] = "post"
           \/ s = "ctors" /\ pc[t] = "pre" /\ job[t] = "dlopen"
           \/ s = "dtors" /\ pc[t] = "pre" /\ job[t] = "dlclose"
  BY <1>1, <1>2 DEF List, LinkJobs
<1>4. s \in Steps /\ s \notin InitSteps \cup {"register", "unregister"}
  BY DEF Steps, WalkSteps, CtorSteps, DtorSteps, InitSteps
<1>5. /\ PhaseAt(t) /\ did \in [Thread -> BOOLEAN] /\ told = [m \in Lib |-> [u \in Cb |-> told[m][u]]] /\ Once(rest[t])
  BY <1>0, <1>2, DriverKnows DEF StoryInv, TellInv, OnceInv
<1>6. phase' = phase /\ LibAt(t)' = l
  BY <1>0, <1>1 DEF libVars, LibAt
<1>7. did[t] /\ (pc[t] = "pre" => phase[l] = IF job[t] = "dlopen" THEN "new" ELSE "in")
      /\ (pc[t] = "post" /\ job[t] = "dlopen" => phase[l] = "in")
  BY <1>0, <1>1, <1>2, <1>5, Stages DEF PhaseAt
<1>8. ASSUME pc'[t] = s, job'[t] = job[t] PROVE PhaseAt(t)'
  BY <1>0, <1>1, <1>2, <1>3, <1>6, <1>7, <1>8, Stages DEF PhaseAt
<1>9. ASSUME NEW u \in steady[l], pc'[t] = s, job'[t] = job[t], Told(t, l, u) PROVE Told(t, l, u)'
  <2>1. Heard(t, u) = 1 /\ Before(t) = IF job[t] = "dlopen" THEN 0 ELSE 2
    BY <1>1, LeftIs DEF Heard, Contains, Before
  <2>2. /\ pc[t] = "pre" => Hears(l, u, IF job[t] = "dlopen" THEN 1 ELSE 3)
        /\ pc[t] = "post" => Hears(l, u, IF job[t] = "dlopen" THEN 2 ELSE 4)
    <3>1. pc[t] = "pre" => Hears(l, u, Before(t) + Heard(t, u))
      BY <1>2, <1>9, Stages DEF Told
    <3>2. pc[t] = "post" => Hears(l, u, Before(t) + 1 + Heard(t, u))
      BY <1>2, <1>9, Stages DEF Told
    <3> QED
      BY <2>1, <3>1, <3>2
  <2>3. \A n : Hears(l, u, n)' <=> Hears(l, u, n)
    BY <1>1 DEF Hears, Said
  <2> HIDE DEF Hears
  <2>4. did'[t] = did[t] /\ phase'[l] = phase[l]
    BY <1>1, <1>6
  <2> QED
    BY <1>2, <1>3, <1>7, <1>9, <2>2, <2>3, <2>4, Stages DEF Told, LinkJobs
<1> QED
  BY <1>0, <1>1, <1>2, <1>3, <1>4, <1>5, <1>6, <1>8, <1>9, DriverGoto DEF libVars

LEMMA OriginalTells ==
  ASSUME CallInv, CallInv', TaskInv, StoryInv, NEW t \in Thread, Constructors(t) \/ Destructors(t), UNCHANGED made
  PROVE  StoryInv'
<1>0. PICK l : l = LibAt(t)
  OBVIOUS
<1>1. JobAt(pc[t], job[t])
  BY DEF CallInv, Sound
<1>2. PICK p \in {"in", "closing"} :
        /\ phase' = [phase EXCEPT ![l] = p]
        /\ \/ p = "in" /\ pc[t] = "ctors" /\ job[t] = "dlopen"
           \/ p = "closing" /\ pc[t] = "dtors" /\ job[t] = "dlclose"
        /\ UNCHANGED <<loc, dl, apiVars, cbs, did, told, steady, job, cur, on>>
  BY <1>0, <1>1 DEF Constructors, Destructors, Original, At, JobAt, CtorSteps, DtorSteps
<1>3. PICK s \in {"post", "leave"} :
        /\ Goto(t, s)
        /\ \/ s = "post" /\ did[t] /\ BeginWalk(t)
           \/ s = "leave" /\ ~did[t] /\ rest' = rest
  BY DEF Constructors, Destructors, Original
<1>4. job[t] \in LinkJobs
  BY <1>2 DEF LinkJobs
<1>5. /\ l \in Lib /\ PhaseAt(t) /\ did \in [Thread -> BOOLEAN]
      /\ \A u \in steady[l] : \A x \in Lists : Contains(cbs[x], u)
  BY <1>0, <1>4, DriverKnows
<1>6. told = [m \in Lib |-> [u \in Cb |-> told[m][u]]] /\ Once(rest[t])
  BY DEF StoryInv, TellInv, OnceInv
<1>7. /\ phase'[l] = p /\ \A m \in Lib \ {l} : phase'[m] = phase[m]
  BY <1>2, <1>5 DEF TaskInv, PlaceInv
<1>8. LibAt(t)' = l
  BY <1>0, <1>2 DEF LibAt
<1>9. /\ Once(rest'[t]) /\ \A u \in Thread \ {t} : rest'[u] = rest[u]
      /\ s = "post" => rest'[t] = cbs[ListOf(job[t])] /\ ListOf(job[t]) \in Lists
  BY <1>3, <1>4, <1>6, BeginWalkTells
<1>10. s \in Steps /\ s \notin InitSteps \cup {"register", "unregister"}
  BY DEF Steps, WalkSteps, InitSteps
<1>11. ASSUME pc'[t] = s, job'[t] = job[t] PROVE PhaseAt(t)'
  BY <1>2, <1>3, <1>4, <1>7, <1>8, <1>11, Stages DEF PhaseAt
<1>12. ASSUME NEW u \in steady[l], pc'[t] = s, job'[t] = job[t], Told(t, l, u) PROVE Told(t, l, u)'
  <2>1. /\ pc[t] = "ctors" => Hears(l, u, IF did[t] THEN 1 ELSE 2)
        /\ pc[t] = "dtors" => Hears(l, u, IF did[t] THEN 3 ELSE 0)
    BY <1>4, <1>12, Stages DEF Told
  <2>2. \A n : Hears(l, u, n)' <=> Hears(l, u, n)
    BY <1>2 DEF Hears, Said
  <2>3. CASE s = "post"
    <3>1. Contains(rest'[t], u)
      BY <1>5, <1>9, <2>3
    <3>2. Heard(t, u)' = 0 /\ Before(t)' = IF job[t] = "dlopen" THEN 0 ELSE 2
      BY <1>12, <2>3, <3>1 DEF Heard, Left, Before
    <3>3. Before(t)' + 1 + Heard(t, u)' = IF pc[t] = "ctors" THEN 1 ELSE 3
      BY <1>2, <3>2
    <3>4. Hears(l, u, IF pc[t] = "ctors" THEN 1 ELSE 3)
      BY <1>2, <1>3, <2>1, <2>3
    <3>5. Hears(l, u, Before(t) + 1 + Heard(t, u))'
      BY <1>2, <3>3, <3>4 DEF Hears, Said
    <3> QED
      BY <1>4, <1>12, <2>3, <3>5, Stages DEF Told
  <2>4. CASE s = "leave"
    <3>1. Hears(l, u, IF job[t] = "dlopen" THEN 2 ELSE 0) /\ did'[t] = did[t] /\ ~did[t]
      BY <1>2, <1>3, <2>1, <2>4
    <3> HIDE DEF Hears
    <3> QED
      BY <1>4, <1>12, <2>2, <2>4, <3>1, Stages DEF Told
  <2> QED
    BY <2>3, <2>4
<1> QED
  BY <1>0, <1>2, <1>3, <1>4, <1>5, <1>6, <1>7, <1>8, <1>9, <1>10, <1>11, <1>12, DriverGoto

\* A library is loaded, opened once more or closed: what its callbacks have heard begins, or is what was heard of the load.
LEMMA EnterLinkerTells ==
  ASSUME CallInv, CallInv', TaskInv, TaskInv', StoryInv, NEW t \in Thread, NEW l \in Lib,
         (\E a \in Addr : Dlopen(t, l, a)) \/ Dlclose(t, l), UNCHANGED made
  PROVE  StoryInv'
<1>1. PICK j \in LinkJobs, s \in {"enter_ctors", "enter_dtors"} :
        /\ dl = NoThread /\ Start(t, j, NoTask, s) /\ UNCHANGED <<apiVars, cbs, rest, did>>
        /\ \/ phase[l] = "in" /\ UNCHANGED <<phase, told, steady>>
           \/ /\ phase[l] = "out" /\ phase' = [phase EXCEPT ![l] = "new"]
              /\ told' = [told EXCEPT ![l] = [u \in Cb |-> <<>>]]
              /\ steady' = [steady EXCEPT ![l] = ToSet(cbs["init"]) \cap ToSet(cbs["fini"]) \cap Cb]
        /\ \E a : (loc' = [loc EXCEPT ![l] = a] \/ (loc' = loc /\ a = loc[l])) /\ on' = [on EXCEPT ![t] = a]
  <2>1. CASE Dlclose(t, l)
    BY <2>1 DEF Dlclose, LinkJobs, cbVars
  <2>2. CASE \E a \in Addr : Dlopen(t, l, a)
    BY <2>2 DEF Dlopen, LinkJobs
  <2> QED
    BY <2>1, <2>2
<1>2. Moves(t) /\ pc'[t] = s /\ job'[t] = j
  BY <1>1, StartMoves DEF CallInv, Jobs, Steps, CtorSteps, DtorSteps
<1>3. \A u \in Thread : job[u] \notin LinkJobs
  BY <1>1, NobodyInLinker
<1>4. \A u \in Thread \ {t} : job'[u] \notin LinkJobs
  BY <1>2, <1>3 DEF Moves
<1>5. /\ loc'[l] = on'[t] /\ \A m \in Lib \ {l} : loc'[m] = loc[m]
  BY <1>1 DEF TaskInv, PlaceInv
<1>6. \E m \in Lib : loc'[m] = on'[t] /\ phase'[m] # "out"
  BY <1>1, <1>2 DEF TaskInv, PlaceInv
<1>7. /\ loc'[l] # NoAddr
      /\ \A m, n \in Lib : loc'[m] = loc'[n] /\ loc'[m] # NoAddr => m = n
  BY <1>5, <1>6 DEF TaskInv, PlaceInv
<1>8. \A m \in Lib : loc'[m] = on'[t] => m = l
  BY <1>5, <1>7
<1>9. LibAt(t)' = l
  BY <1>5, <1>8 DEF LibAt
<1>10. /\ phase'[l] \in {"new", "in"} /\ \A m \in Lib \ {l} : phase'[m] = phase[m] /\ told'[m] = told[m] /\ steady'[m] = steady[m]
       /\ \/ phase[l] = "in" /\ phase'[l] = "in" /\ told'[l] = told[l] /\ steady'[l] = steady[l]
          \/ phase'[l] = "new" /\ told'[l] = [u \in Cb |-> <<>>] /\ steady'[l] = ToSet(cbs["init"]) \cap ToSet(cbs["fini"]) \cap Cb
       /\ steady' \in [Lib -> SUBSET Cb] /\ told' = [m \in Lib |-> [u \in Cb |-> told'[m][u]]]
  <2>1. steady \in [Lib -> SUBSET Cb] /\ told = [m \in Lib |-> [u \in Cb |-> told[m][u]]] /\ phase \in [Lib -> {"out", "new", "in", "closing"}]
    BY DEF StoryInv, TellInv, TaskInv, PlaceInv
  <2>2. CASE phase[l] = "in" /\ UNCHANGED <<phase, told, steady>>
    BY <2>1, <2>2
  <2>3. CASE /\ phase' = [phase EXCEPT ![l] = "new"]
             /\ told' = [told EXCEPT ![l] = [u \in Cb |-> <<>>]]
             /\ steady' = [steady EXCEPT ![l] = ToSet(cbs["init"]) \cap ToSet(cbs["fini"]) \cap Cb]
    BY <2>1, <2>3
  <2> QED
    BY <1>1, <2>2, <2>3
<1>11. InitInv'
  BY <1>1, <1>2, InitFrame DEF StoryInv, apiVars, InitSteps
<1>12. OnceInv'
  BY <1>1 DEF StoryInv, OnceInv
<1>13. PhaseInv'
  <2>1. PhaseAt(t)'
    BY <1>2, <1>9, <1>10, Stages DEF PhaseAt
  <2> QED
    BY <1>1, <1>4, <2>1 DEF PhaseInv, StoryInv
<1>14. ASSUME NEW m \in Lib, NEW u \in steady'[m] PROVE Tells(m, u)'
  <2>1. \A v \in Thread : ~Drives(v, m)
    BY <1>3 DEF Drives
  <2>2. CASE m # l
    <3>1. u \in steady[m] /\ told'[m] = told[m] /\ phase'[m] = phase[m]
      BY <1>10, <2>2
    <3>2. Tells(m, u)
      BY <3>1 DEF StoryInv, TellInv
    <3>3. \A v \in Thread : ~Drives(v, m)'
      BY <1>4, <1>8, <2>2 DEF Drives
    <3> QED
      BY <1>1, <2>1, <3>1, <3>2, <3>3 DEF Tells, Hears, Said
  <2>3. CASE m = l
    <3>1. \A v \in Thread : Drives(v, l)' => v = t
      <4> SUFFICES ASSUME NEW v \in Thread, job'[v] \in LinkJobs, v # t
                   PROVE  FALSE
        BY DEF Drives
      <4> QED
        BY <1>4
    <3>2. Drives(t, l)'
      BY <1>2, <1>5 DEF Drives
    <3>3. (\A x \in Lists : Contains(cbs'[x], u)) /\ Hears(l, u, IF phase[l] = "new" THEN 0 ELSE 2)'
      <4>1. CASE phase[l] = "in" /\ phase'[l] = "in" /\ told'[l] = told[l] /\ steady'[l] = steady[l]
        <5>1. Tells(l, u)
          BY <2>3, <4>1 DEF StoryInv, TellInv
        <5> QED
          BY <1>1, <2>1, <2>3, <4>1, <5>1 DEF Tells, Hears, Said
      <4>2. CASE phase'[l] = "new" /\ told'[l] = [v \in Cb |-> <<>>] /\ steady'[l] = ToSet(cbs["init"]) \cap ToSet(cbs["fini"]) \cap Cb
        <5>1. u \in ToSet(cbs["init"]) /\ u \in ToSet(cbs["fini"]) /\ u \in Cb
          BY <2>3, <4>2
        <5>2. cbs["init"] \in Seq(Callbacks) /\ cbs["fini"] \in Seq(Callbacks)
          BY DEF CallInv, CallTypes, Lists
        <5>3. ASSUME NEW q \in Seq(Callbacks), u \in ToSet(q) PROVE Contains(q, u)
          <6>1. DOMAIN q = 1 .. Len(q)
            OBVIOUS
          <6> QED
            BY <5>3, <6>1 DEF ToSet, Contains
        <5>4. Contains(cbs["init"], u) /\ Contains(cbs["fini"], u)
          BY <5>1, <5>2, <5>3
        <5>5. told'[l][u] = Said(0)
          BY <4>2, <5>1, SaidNext
        <5>6. Hears(l, u, IF phase[l] = "new" THEN 0 ELSE 2)'
          BY <4>2, <5>5 DEF Hears, Said
        <5> QED
          BY <1>1, <5>4, <5>6 DEF Lists
      <4> QED
        BY <1>10, <4>1, <4>2
    <3>4. Told(t, l, u)'
      BY <1>2, <3>3, Stages DEF Told
    <3>5. \E n \in 0 .. 4 : Hears(l, u, n)'
      <4>1. CASE phase'[l] = "new"
        BY <3>3, <4>1 DEF Hears, Said
      <4>2. CASE phase'[l] # "new"
        BY <3>3, <4>2 DEF Hears, Said
      <4> QED
        BY <4>1, <4>2
    <3> QED
      BY <2>3, <3>1, <3>2, <3>3, <3>4, <3>5 DEF Tells
  <2> QED
    BY <2>2, <2>3
<1> QED
  BY <1>10, <1>11, <1>12, <1>13, <1>14 DEF StoryInv, TellInv

\* A load ends with all told before and after the constructors; a close ends the library.
LEMMA LeaveLinkerTells ==
  ASSUME CallInv, CallInv', TaskInv, TaskInv', StoryInv, NEW t \in Thread, LeaveDlopen(t) \/ LeaveDlclose(t), UNCHANGED made
  PROVE  StoryInv'
<1>0. PICK l : l = LibAt(t)
  OBVIOUS
<1>1. /\ pc[t] = "leave" /\ Return(t) /\ dl' = NoThread /\ UNCHANGED <<apiVars, cbs, rest, told, steady>>
      /\ did' = [did EXCEPT ![t] = FALSE] /\ on' = [on EXCEPT ![t] = NoAddr]
      /\ \/ job[t] = "dlopen" /\ UNCHANGED <<phase, loc>>
         \/ job[t] = "dlclose" /\ phase' = [phase EXCEPT ![l] = "out"] /\ loc' = [loc EXCEPT ![l] = NoAddr]
  BY <1>0 DEF LeaveDlopen, LeaveDlclose, At
<1>2. Moves(t) /\ pc'[t] = "idle" /\ job'[t] = "none" /\ job[t] \in LinkJobs
  BY <1>1, ReturnMoves DEF CallInv, LinkJobs
<1>3. /\ l \in Lib /\ loc[l] = on[t] /\ on[t] \in Addr /\ PhaseAt(t) /\ did \in [Thread -> BOOLEAN]
      /\ \A u \in steady[l] : Told(t, l, u)
      /\ \A m \in Lib : loc[m] = on[t] => m = l
  BY <1>0, <1>2, DriverKnows, LibAtIs DEF TaskInv
<1>4. \A u \in Thread \ {t} : job[u] \notin LinkJobs
  BY <1>2, AloneInLinker
<1>5. \A u \in Thread : job'[u] \notin LinkJobs
  BY <1>2, <1>4 DEF Moves, LinkJobs
<1>6. InitInv'
  BY <1>1, <1>2, InitFrame DEF StoryInv, apiVars, InitSteps
<1>7. OnceInv'
  BY <1>1 DEF StoryInv, OnceInv
<1>8. PhaseInv'
  BY <1>1, <1>3, <1>5 DEF PhaseInv
<1>9. ASSUME NEW m \in Lib, NEW u \in steady'[m] PROVE Tells(m, u)'
  <2>1. Tells(m, u) /\ u \in steady[m]
    BY <1>1, <1>9 DEF StoryInv, TellInv
  <2>2. \A v \in Thread : ~Drives(v, m)'
    BY <1>5 DEF Drives
  <2>3. phase'[m] = "in" => Hears(m, u, 2)
    <3>1. CASE m # l
      <4>1. \A v \in Thread : ~Drives(v, m)
        BY <1>3, <1>4, <3>1 DEF Drives
      <4>2. phase'[m] = phase[m]
        BY <1>1, <1>3, <3>1 DEF TaskInv, PlaceInv
      <4> QED
        BY <2>1, <4>1, <4>2 DEF Tells
    <3>2. CASE m = l /\ job[t] = "dlopen"
      BY <1>1, <1>3, <2>1, <3>2 DEF Told
    <3>3. CASE m = l /\ job[t] = "dlclose"
      BY <1>1, <1>3, <3>3 DEF TaskInv, PlaceInv
    <3> QED
      BY <1>2, <3>1, <3>2, <3>3 DEF LinkJobs
  <2>4. \A n : Hears(m, u, n)' <=> Hears(m, u, n)
    BY <1>1 DEF Hears, Said
  <2> HIDE DEF Hears
  <2>5. \A x \in Lists : Contains(cbs'[x], u)
    BY <1>1, <2>1 DEF Tells
  <2>6. \E n \in 0 .. 4 : Hears(m, u, n)'
    BY <2>1, <2>4 DEF Tells
  <2> QED
    BY <2>2, <2>3, <2>4, <2>5, <2>6 DEF Tells
<1>10. steady' \in [Lib -> SUBSET Cb] /\ told' = [m \in Lib |-> [u \in Cb |-> told'[m][u]]]
  BY <1>1 DEF StoryInv, TellInv
<1> QED
  BY <1>6, <1>7, <1>8, <1>9, <1>10 DEF StoryInv, TellInv

\* The steps of tasks, of initialisation and of registering, and what changes none of all this.
LEMMA TaskStepTells ==
  ASSUME CallInv, CallInv', TaskInv, StoryInv, NEW t \in Thread, TaskStep(t)
  PROVE  StoryInv'
<1>1. StaysAt(t) /\ pc'[t] \in TaskSteps \cup PreSteps \cup PostSteps \cup {"idle"}
  BY TaskStepStays DEF StoryInv
<1>2. UNCHANGED <<apiVars, cbs, rest, steady>>
  BY TaskStepLinks DEF linkVars, cbVars
<1>3. made' # made => init = "ok"
  <2>1. (\E k \in Task : CallHook(t, k)) => init = "ok"
    BY DEF CallHook, Available
  <2>2. ~(\E k \in Task : CallHook(t, k)) => made' = made
    BY ZenonT(60) DEF TaskStep, CallUndo, Lookup, DoHook, Insert, Record, Dladdr, Undo, UndoDestroy, InitPre, TakePending,
       DoPending, SetFinished, Callback, Sweep, FiniPost, Reset, taskVars
  <2> QED
    BY <2>1, <2>2
<1>4. pc'[t] \notin InitSteps \cup {"register", "unregister"}
  BY <1>1 DEF TaskSteps, PreSteps, PostSteps, DoSteps, InitSteps
<1>5. InitInv'
  BY <1>1, <1>2, <1>3, <1>4, InitFrame DEF StoryInv, StaysAt, apiVars
<1>6. OnceInv'
  BY <1>2 DEF StoryInv, OnceInv
<1>7. steady' \in [Lib -> SUBSET Cb] /\ \A l \in Lib : steady'[l] \subseteq steady[l]
  BY <1>2 DEF StoryInv, TellInv
<1>8. PhaseInv' /\ TellInv'
  BY <1>1, <1>2, <1>7, StaysTells
<1> QED
  BY <1>5, <1>6, <1>8 DEF StoryInv

LEMMA InitActionTells ==
  ASSUME CallInv, CallInv', TaskInv, StoryInv, NEW t \in Thread, InitAction(t), UNCHANGED made
  PROVE  StoryInv'
<1>1. StaysAt(t) /\ UNCHANGED <<rest, steady>>
  BY InitActionStays, InitGoes
<1>2. InitInv'
  BY InitBeginsInit, InitOnInit DEF StoryInv
<1>3. cbs' = cbs \/ \E x \in Lists : Register(x, TASK)
  BY ZenonT(60) DEF InitAction, InitBegins, HookCtors, HookDtors, HookLinker, ScanBegins, ScanNothing, ScanEnds, InitEnds,
     TaskInitInit, TaskInitFini, TaskInit, cbVars, Lists
<1>4. ASSUME NEW x \in Lists, Register(x, TASK)
      PROVE  OnceInv' /\ \A z \in Lists : \A u : Contains(cbs[z], u) => Contains(cbs'[z], u)
  <2>1. cbs[x] \in Seq(Callbacks) /\ TASK \in Callbacks /\ cbs \in [Lists -> Seq(Callbacks)] /\ Once(cbs[x])
    BY DEF CallInv, CallTypes, Callbacks, StoryInv, OnceInv
  <2>2. PICK y : y = (IF Contains(cbs[x], TASK) THEN cbs[x] ELSE Append(cbs[x], TASK)) /\ cbs' = [cbs EXCEPT ![x] = y]
    BY <1>4 DEF Register
  <2>3. Once(y) /\ \A v : Contains(cbs[x], v) => Contains(y, v)
    BY <2>1, <2>2, OnceAppend
  <2>4. cbs'[x] = y /\ \A z \in Lists \ {x} : cbs'[z] = cbs[z]
    BY <2>1, <2>2
  <2> QED
    BY <1>1, <2>3, <2>4 DEF StoryInv, OnceInv
<1>5. OnceInv' /\ \A z \in Lists : \A u : Contains(cbs[z], u) => Contains(cbs'[z], u)
  BY <1>1, <1>3, <1>4 DEF StoryInv, OnceInv
<1>6. steady' \in [Lib -> SUBSET Cb] /\ \A l \in Lib : steady'[l] \subseteq steady[l]
  BY <1>1 DEF StoryInv, TellInv
<1>7. PhaseInv' /\ TellInv'
  BY <1>1, <1>5, <1>6, StaysTells
<1> QED
  BY <1>2, <1>5, <1>7 DEF StoryInv

\* A call of initialisation or of registering begins.
LEMMA CallStays ==
  ASSUME CallInv, NEW t \in Thread,
         \/ CallInit(t)
         \/ \E u \in Cb, x \in {"init", "fini"}, act \in {"register", "unregister"} : CallRegister(t, act, x, u)
  PROVE  /\ StaysAt(t) /\ UNCHANGED <<linkVars, on>> /\ pc[t] \in {"idle", "ctors"}
         /\ pc'[t] \notin InitSteps \ {"init_lock"} /\ (pc'[t] \in {"register", "unregister"} => init = "ok")
<1>1. UNCHANGED <<linkVars, on, phase, loc, dl, did, rest, told>>
  BY DEF CallInit, CallRegister, linkVars, libVars, cbVars
<1>2. ASSUME NEW j \in {"init", "register", "unregister"}, NEW k, NEW s \in {"init_lock", "register", "unregister"},
             Start(t, j, k, s), s # "init_lock" => init = "ok"
      PROVE  /\ StaysAt(t) /\ pc[t] = "idle" /\ pc'[t] \notin InitSteps \ {"init_lock"}
             /\ pc'[t] \in {"register", "unregister"} => init = "ok"
  <2>1. Moves(t) /\ pc'[t] = s /\ job'[t] = j /\ pc[t] = "idle"
    BY <1>2, StartMoves DEF CallInv, Jobs, Steps, InitSteps
  <2>2. job[t] \notin LinkJobs
    BY <2>1 DEF CallInv, Sound, JobAt
  <2> QED
    BY <1>1, <1>2, <2>1, <2>2 DEF StaysAt, LinkJobs, InitSteps
<1>3. CASE At(t, "ctors") /\ Goto(t, "init_lock") /\ UNCHANGED <<job, cur>>
  <2>1. Moves(t) /\ pc'[t] = "init_lock" /\ job'[t] = job[t] /\ pc[t] = "ctors"
    BY <1>3, GotoMoves DEF CallInv, Steps, InitSteps, At
  <2>2. job[t] = "dlopen"
    BY <2>1 DEF CallInv, Sound, JobAt, CtorSteps
  <2> QED
    BY <1>1, <2>1, <2>2 DEF StaysAt, CtorsAt, InitSteps
<1>4. CASE \E u \in Cb, x \in {"init", "fini"}, act \in {"register", "unregister"} : CallRegister(t, act, x, u)
  <2>1. PICK u \in Cb, x \in {"init", "fini"}, act \in {"register", "unregister"} : CallRegister(t, act, x, u)
    BY <1>4
  <2>2. Start(t, act, [list |-> x, cb |-> u], act) /\ init = "ok"
    BY <2>1 DEF CallRegister, Available
  <2> QED
    BY <1>1, <1>2, <2>2
<1>5. CASE Start(t, "init", NoTask, "init_lock")
  BY <1>1, <1>2, <1>5
<1> QED
  BY <1>3, <1>4, <1>5 DEF CallInit

LEMMA RegisteredStays ==
  ASSUME CallInv, NEW t \in Thread, DoRegister(t) \/ DoUnregister(t)
  PROVE  StaysAt(t) /\ pc[t] \in {"register", "unregister"} /\ pc'[t] = "idle"
<1>1. pc[t] \in {"register", "unregister"} /\ Return(t) /\ UNCHANGED <<phase, loc, dl, on, did, rest, told>>
  BY DEF DoRegister, DoUnregister, At, libVars
<1>2. Moves(t) /\ pc'[t] = "idle" /\ job'[t] = "none"
  BY <1>1, ReturnMoves DEF CallInv
<1>3. job[t] \notin LinkJobs
  BY <1>1 DEF CallInv, Sound, JobAt
<1> QED
  BY <1>1, <1>2, <1>3 DEF StaysAt, LinkJobs

LEMMA CallTells ==
  ASSUME CallInv, CallInv', TaskInv, StoryInv, NEW t \in Thread, UNCHANGED made,
         \/ CallInit(t)
         \/ \E u \in Cb, x \in {"init", "fini"}, act \in {"register", "unregister"} : CallRegister(t, act, x, u)
  PROVE  StoryInv'
<1>1. UNCHANGED <<linkVars, on>>
  BY CallStays
<1>2. /\ StaysAt(t) /\ pc'[t] \notin InitSteps \ {"init_lock"}
      /\ pc'[t] \in {"register", "unregister"} => init = "ok"
  BY CallStays
<1>3. UNCHANGED <<cbs, rest, steady, scan, initLock, init, hooked>>
  BY <1>1 DEF linkVars, apiVars, cbVars
<1>4. InitInv'
  BY <1>2, <1>3, InitFrame DEF StoryInv, StaysAt
<1>5. OnceInv'
  BY <1>3 DEF StoryInv, OnceInv
<1>6. steady' \in [Lib -> SUBSET Cb] /\ \A l \in Lib : steady'[l] \subseteq steady[l]
  BY <1>3 DEF StoryInv, TellInv
<1>7. PhaseInv' /\ TellInv'
  BY <1>2, <1>3, <1>6, StaysTells
<1> QED
  BY <1>4, <1>5, <1>7 DEF StoryInv

LEMMA RegisteredTells ==
  ASSUME CallInv, CallInv', TaskInv, StoryInv, NEW t \in Thread, DoRegister(t) \/ DoUnregister(t), UNCHANGED made
  PROVE  StoryInv'
<1>1. InitInv' /\ OnceInv'
  BY RegisteredInit DEF StoryInv
<1> DEFINE x == cur[t].list
           u == cur[t].cb
<1>2. /\ pc[t] \in {"register", "unregister"} /\ Return(t) /\ UNCHANGED <<phase, loc, dl, on, did, rest, told>>
      /\ \/ Register(x, u) /\ steady' = steady
         \/ Unregister(x, u) /\ steady' = [l \in Lib |-> steady[l] \ {u}]
  BY DEF DoRegister, DoUnregister, At, libVars
<1>3. x \in Lists /\ u \in Callbacks
  BY <1>2 DEF CallInv, Sound, Callbacks
<1>4. cbs[x] \in Seq(Callbacks) /\ cbs \in [Lists -> Seq(Callbacks)] /\ Once(cbs[x])
  BY <1>3 DEF CallInv, CallTypes, StoryInv, OnceInv
<1>5. StaysAt(t)
  BY RegisteredStays
<1> HIDE DEF x, u
<1>6. steady \in [Lib -> SUBSET Cb]
  BY DEF StoryInv, TellInv
<1>7. CASE Register(x, u) /\ steady' = steady
  <2>1. PICK y : y = (IF Contains(cbs[x], u) THEN cbs[x] ELSE Append(cbs[x], u)) /\ cbs' = [cbs EXCEPT ![x] = y]
    BY <1>7 DEF Register
  <2>2. \A v : Contains(cbs[x], v) => Contains(y, v)
    BY <1>3, <1>4, <2>1, OnceAppend
  <2>3. \A z \in Lists : \A v : Contains(cbs[z], v) => Contains(cbs'[z], v)
    BY <1>4, <2>1, <2>2
  <2>4. PhaseInv' /\ TellInv'
    BY <1>5, <1>6, <1>7, <2>3, StaysTells
  <2> QED
    BY <1>1, <2>4 DEF StoryInv
<1>8. CASE Unregister(x, u) /\ steady' = [l \in Lib |-> steady[l] \ {u}]
  <2>1. cbs' = [cbs EXCEPT ![x] = RemoveFirst(cbs[x], u)]
    BY <1>8 DEF Unregister
  <2>2. \A v : Contains(cbs[x], v) /\ v # u => Contains(RemoveFirst(cbs[x], u), v)
    BY <1>4, OnceRemove
  <2>3. \A z \in Lists : \A v : Contains(cbs[z], v) /\ v # u => Contains(cbs'[z], v)
    BY <1>4, <2>1, <2>2
  <2>4. steady' \in [Lib -> SUBSET Cb] /\ \A l \in Lib : steady'[l] = steady[l] \ {u}
    BY <1>6, <1>8
  <2>5. PhaseInv' /\ TellInv'
    BY <1>5, <2>3, <2>4, StaysTells
  <2> QED
    BY <1>1, <2>5 DEF StoryInv
<1> QED
  BY <1>2, <1>7, <1>8

LEMMA StutterTells ==
  ASSUME StoryInv, UNCHANGED <<libVars, init, initLock, hooked, scan, cbVars, threadVars, made>>
  PROVE  StoryInv'
<1> USE DEF libVars, cbVars, threadVars
<1>1. InitInv'
  BY DEF StoryInv, InitInv, InitKnows, Ready, Scanned
<1>2. OnceInv'
  BY DEF StoryInv, OnceInv
<1>3. PhaseInv'
  BY DEF StoryInv, PhaseInv, PhaseAt, LibAt
<1>4. TellInv'
  <2>1. ASSUME NEW l \in Lib, NEW u \in steady[l] PROVE Tells(l, u)'
    <3>1. \A t \in Thread : Heard(t, u)' = Heard(t, u) /\ Before(t)' = Before(t) /\ (Drives(t, l)' <=> Drives(t, l))
      BY DEF Heard, Left, Before, Drives
    <3>2. \A n : Hears(l, u, n)' <=> Hears(l, u, n)
      BY DEF Hears, Said
    <3>3. \A t \in Thread : Told(t, l, u)' <=> Told(t, l, u)
      <4> TAKE t \in Thread
      <4>1. Heard(t, u)' = Heard(t, u) /\ Before(t)' = Before(t)
        BY <3>1
      <4>2. Hears(l, u, Before(t) + Heard(t, u))' <=> Hears(l, u, Before(t) + Heard(t, u))
        BY <4>1 DEF Hears, Said
      <4>3. Hears(l, u, Before(t) + 1 + Heard(t, u))' <=> Hears(l, u, Before(t) + 1 + Heard(t, u))
        BY <4>1 DEF Hears, Said
      <4> HIDE DEF Hears, Heard, Before
      <4> QED
        BY <3>2, <4>2, <4>3 DEF Told, Hears, Said
    <3>4. Tells(l, u)
      BY DEF StoryInv, TellInv
    <3> QED
      BY <3>1, <3>2, <3>3, <3>4 DEF Tells
  <2> QED
    BY <2>1 DEF StoryInv, TellInv
<1> QED
  BY <1>1, <1>2, <1>3, <1>4 DEF StoryInv

LEMMA StoryBegins == Init => StoryInv
<1> SUFFICES ASSUME Init
             PROVE  StoryInv
  OBVIOUS
<1>1. /\ pc = [t \in Thread |-> "idle"] /\ job = [t \in Thread |-> "none"] /\ did = [t \in Thread |-> FALSE]
      /\ cbs = [x \in Lists |-> <<>>] /\ rest = [t \in Thread |-> <<>>] /\ init = "uninit" /\ made = {}
      /\ scan = [tid |-> NoThread, ok |-> FALSE]
      /\ told = [l \in Lib |-> [u \in Cb |-> <<>>]] /\ steady = [l \in Lib |-> {}]
  BY DEF Init, LinkInit, Lists
<1>2. \A u : ~Contains(<<>>, u)
  BY DEF Contains
<1>3. InitInv
  BY <1>1, <1>2 DEF InitInv, InitKnows, InitSteps
<1>4. OnceInv
  BY <1>1 DEF OnceInv, Once
<1>5. PhaseInv
  BY <1>1 DEF PhaseInv, LinkJobs
<1>6. TellInv
  BY <1>1 DEF TellInv
<1> QED
  BY <1>3, <1>4, <1>5, <1>6 DEF StoryInv

LEMMA StoryNext ==
  ASSUME CallInv, CallInv', TaskInv, TaskInv', StoryInv, Next
  PROVE  StoryInv'
<1>1. PICK t \in Thread : Call(t) \/ Wait(t) \/ Work(t)
  BY DEF Next
<1>2. CASE TaskStep(t)
  BY <1>2, TaskStepTells
<1>3. CASE UNCHANGED made /\ (LinkWait(t) \/ LinkWork(t) \/ LinkCall(t) \/ CallbackReturns(t) \/ (\E l \in Lib : Dlclose(t, l)) \/ LeaveDlclose(t))
  <2>1. LinkWait(t) => StoryInv'
    BY <1>3, InitActionTells, RegisteredTells DEF LinkWait, InitAction
  <2>2. LinkWork(t) => StoryInv'
    BY <1>3, InitActionTells, LoadFailsTells, EnterTells, CallUserTells, UserReturnsTells, TaskPassedTells, EndWalkTells,
       OriginalTells, LeaveLinkerTells DEF LinkWork, InitAction
  <2>3. SetDisable(t) => StoryInv'
    BY <1>3, StutterTells DEF SetDisable
  <2>4. LinkCall(t) => StoryInv'
    BY <1>3, <2>3, CallTells, EnterLinkerTells DEF LinkCall
  <2> QED
    BY <1>3, <2>1, <2>2, <2>4, TaskPassedTells, EnterLinkerTells, LeaveLinkerTells
<1>4. Wait(t) => TaskStep(t) \/ (LinkWait(t) /\ UNCHANGED made)
  BY DEF Wait, TaskStep, ownVars, taskVars
<1>5. Work(t) => TaskStep(t) \/ (UNCHANGED made /\ (CallbackReturns(t) \/ LeaveDlclose(t) \/ LinkWork(t)))
  BY DEF Work, TaskStep, ownVars, taskVars, CallbackReturns, Unmap
<1>6. Call(t) => TaskStep(t) \/ (UNCHANGED made /\ ((\E l \in Lib : Dlclose(t, l)) \/ LinkCall(t)))
  BY DEF Call, TaskStep, ownVars, taskVars, CallDlclose
<1> QED
  BY <1>1, <1>2, <1>3, <1>4, <1>5, <1>6

\* What the callbacks of users are told in every reachable state: how far initialisation has got, nothing in a list
\* twice, what a load or a close has run of its proxies, and what each steady callback has heard by then.
THEOREM StoryInvariant == Spec => []StoryInv
<1>1. CallInv /\ CallInv' /\ TaskInv /\ TaskInv' /\ StoryInv /\ [Next]_vars => StoryInv'
  <2> SUFFICES ASSUME CallInv, CallInv', TaskInv, TaskInv', StoryInv, [Next]_vars
               PROVE  StoryInv'
    OBVIOUS
  <2>1. CASE Next
    BY <2>1, StoryNext
  <2>2. CASE UNCHANGED vars
    BY <2>2, StutterTells DEF vars, linkVars, libVars, apiVars, cbVars, ownVars, taskVars
  <2> QED
    BY <2>1, <2>2
<1> QED
  BY <1>1, StoryBegins, CallInvariant, TaskInvariant, PTL DEF Spec

LEMMA SaidIs ==
  ASSUME NEW n \in 0 .. 4
  PROVE  IsPrefix(Said(n), Story) /\ Len(Said(n)) = n
<1> DEFINE Event == {<<"init", "pre">>, <<"init", "post">>, <<"fini", "pre">>, <<"fini", "post">>}
<1>1. Story \in Seq(Event) /\ Len(Story) = 4
  BY DEF Story
<1> HIDE DEF Event
<1>2. \A i \in 1 .. 4 : Story[i] \in Event
  BY <1>1, ElementOfSeq
<1>3. Len(Said(n)) = n
  BY <1>2, SubSeqProperties DEF Said
<1>4. SubSeq(Said(n), 1, n) = Said(n)
  <2>1. Said(n) \in Seq(Event)
    BY <1>2, SubSeqProperties DEF Said
  <2> QED
    BY <1>3, <2>1, SubSeqFull
<1> QED
  BY <1>1, <1>3, <1>4 DEF IsPrefix, Said

\* Whoever registered for both events before a library was mapped hears of its load and of its close, each before and
\* after, in this order and once, and nothing of a load that fails (sh_linker.c's proxies, doc/manual.md:1470-1472);
\* through any number of threads that register, load, close and initialise.
THEOREM CallbacksTellHolds == Spec => []CallbacksTell
<1>1. CallInv /\ TaskInv /\ StoryInv => CallbacksTell
  <2> SUFFICES ASSUME CallInv, TaskInv, StoryInv, NEW l \in Lib, NEW u \in steady[l]
               PROVE  /\ IsPrefix(told[l][u], Story)
                      /\ \A t \in Thread : loc[l] # NoAddr /\ on[t] = loc[l] =>
                           /\ At(t, "ctors") /\ Loading(t) => Len(told[l][u]) = 1
                           /\ At(t, "leave") /\ job[t] = "dlclose" /\ told[l][u] # <<>> => told[l][u] = Story
                      /\ phase[l] = "in" /\ dl = NoThread => Len(told[l][u]) = 2
    BY DEF CallbacksTell
  <2>1. Tells(l, u)
    BY DEF StoryInv, TellInv
  <2>2. IsPrefix(told[l][u], Story)
    BY <2>1, SaidIs DEF Tells, Hears
  <2>3. phase[l] = "in" /\ dl = NoThread => Len(told[l][u]) = 2
    BY <2>1, NobodyInLinker, SaidIs DEF Tells, Hears, Drives
  <2>4. ASSUME NEW t \in Thread, on[t] = loc[l], At(t, "ctors") \/ (At(t, "leave") /\ job[t] = "dlclose")
        PROVE  /\ At(t, "ctors") /\ Loading(t) => Len(told[l][u]) = 1
               /\ At(t, "leave") /\ told[l][u] # <<>> => told[l][u] = Story
    <3>1. job[t] \in LinkJobs
      BY <2>4 DEF At, CallInv, Sound, JobAt, CtorSteps, LinkJobs
    <3>2. Told(t, l, u) /\ LibAt(t) = l
      BY <2>1, <2>4, <3>1, LibAtIs DEF Tells, Drives, TaskInv
    <3>3. At(t, "ctors") /\ phase[l] = "new" => Hears(l, u, 1)
      BY <3>1, <3>2, Stages DEF Told, At
    <3>4. At(t, "leave") => Hears(l, u, 4) \/ Hears(l, u, 0)
      BY <2>4, <3>2 DEF Told, At
    <3> QED
      BY <3>2, <3>3, <3>4, SaidIs, SaidNext DEF Hears, Loading
  <2> QED
    BY <2>2, <2>3, <2>4
<1> QED
  BY <1>1, CallInvariant, TaskInvariant, StoryInvariant, PTL

-----------------------------------------------------------------------------
(* A library's tasks are done before its constructors run.                 *)

\* A task between its lookup and its place in the list; and one whose proxy is where the library is.
Flies(u, k) == pc[u] \in {"hook", "insert"} /\ cur[u] = k
Up(k) == phase[LibOf[k]] \in {"new", "in"}
InSwitch(k) == Up(k) => k \in sw[loc[LibOf[k]]]
Hit(k) ==
  \/ k \notin corrupted /\ target[k] = loc[LibOf[k]] /\ InSwitch(k)
  \/ k \in corrupted /\ target[k] \in {NoAddr, loc[LibOf[k]]}
Blank(k) == target[k] = NoAddr /\ (k \in finished => k \in corrupted)

\* What is known of a task by name while its library is out; while it is loaded and the pending tasks were collected;
\* while it is in; while it is closed and its tasks were collected; and while it is closed without the callbacks.
Pends(k) ==
  /\ k \in tasks => Blank(k)
  /\ \A u \in Thread : Flies(u, k) => pc[u] = "insert" /\ k \notin finished /\ target[k] = NoAddr
Doing(t, k) ==
  /\ k \in tasks => k \in work[t] \/ (Does(t, k) /\ pc[t] = "do_pending") \/ (Done(k) /\ Hit(k))
  /\ \A u \in Thread : ~Flies(u, k)
Holds(k) ==
  /\ k \in tasks => k \in finished /\ Hit(k)
  /\ \A u \in Thread : Flies(u, k) =>
       target[k] = loc[LibOf[k]] /\ (pc[u] = "insert" => k \in finished /\ InSwitch(k))
Resets(t, k) ==
  /\ k \in tasks => k \in work[t] \/ Blank(k)
  /\ \A u \in Thread : ~Flies(u, k)
Misses(k) == k \notin tasks /\ \A u \in Thread : ~Flies(u, k)

\* The walk has the tasks' callback ahead; a load or a close before the tasks were collected.
Ahead(t) == Contains(Left(t), TASK) /\ pc[t] \notin {"pending", "reset"} \cup DoSteps
Early(t) == job[t] = "dlclose" \/ pc[t] = "enter_ctors" \/ (PreAt(pc[t], job[t]) /\ Ahead(t))
Unswept(t) == job[t] = "dlclose" /\ PostAt(pc[t]) /\ Ahead(t)

StandsAt(t, k) ==
  LET p == phase[LibOf[k]] IN
  /\ p = "new" => IF Early(t) THEN Pends(k) ELSE Doing(t, k)
  /\ p = "in" /\ pc[t] = "dtors" /\ ~did[t] => Misses(k)
  /\ p = "closing" /\ ~did[t] => Pends(k)
  /\ p = "closing" /\ Unswept(t) => Holds(k)
  /\ p = "closing" /\ did[t] /\ ~Unswept(t) /\ job[t] = "dlclose" => Resets(t, k)
Stands(k) ==
  /\ phase[LibOf[k]] = "out" => Pends(k)
  /\ phase[LibOf[k]] = "in" => Holds(k)
  /\ \A t \in Thread : Drives(t, LibOf[k]) => StandsAt(t, k)

\* A task has no address before it was found; and a load does its own library's tasks.
Fresh(k) == Done(k) \/ target[k] = NoAddr \/ \E u \in Thread : pc[u] = "hook" /\ cur[u] = k
DoesInv ==
  \A t \in Thread : job[t] = "dlopen" =>
    \A k : k \in work[t] \/ Does(t, k) => k \in ByName /\ LibOf[k] = LibAt(t)
EffectInv == DoesInv /\ (\A k \in ByName : Fresh(k)) /\ \A k \in ByName \ late : Stands(k)

\* A step leaves what is known of a task as it is.
Keeps(k) ==
  /\ k \in tasks' => k \in tasks
  /\ target'[k] = target[k] /\ (k \in finished' <=> k \in finished) /\ (k \in corrupted' <=> k \in corrupted)
  /\ \A u \in Thread : Flies(u, k)' => Flies(u, k) /\ pc'[u] = pc[u]
  /\ \A u \in Thread : pc[u] = "hook" /\ cur[u] = k => pc'[u] = "hook" /\ cur'[u] = k
  /\ \A u \in Thread : k \in work[u] => k \in work'[u] \/ (Does(u, k)' /\ pc'[u] = "do_pending")
  /\ \A u \in Thread : Does(u, k) /\ pc[u] = "do_pending" => Does(u, k)' /\ pc'[u] = "do_pending"
  /\ Done(k) => Done(k)'
  /\ Up(k)' /\ k \in sw[loc[LibOf[k]]] => k \in sw'[loc[LibOf[k]]]

LEMMA KeepsAll ==
  ASSUME NEW k, Keeps(k)
  PROVE  /\ Fresh(k) => Fresh(k)'
         /\ Pends(k) => Pends(k)'
         /\ Misses(k) => Misses(k)'
         /\ \A u \in Thread : job'[u] # "dlopen" /\ Resets(u, k) => Resets(u, k)'
<1> USE DEF Keeps
<1>1. Fresh(k) => Fresh(k)'
  BY DEF Fresh
<1>2. Pends(k) => Pends(k)'
  BY DEF Pends, Blank
<1>3. Misses(k) => Misses(k)'
  BY DEF Misses
<1>4. ASSUME NEW u \in Thread, job'[u] # "dlopen", Resets(u, k) PROVE Resets(u, k)'
  <2>1. ~Does(u, k)'
    BY <1>4 DEF Does
  <2> QED
    BY <1>4, <2>1 DEF Resets, Blank
<1> QED
  BY <1>1, <1>2, <1>3, <1>4

LEMMA KeepsPlaced ==
  ASSUME NEW k, Keeps(k), loc'[LibOf[k]] = loc[LibOf[k]],
         Up(k)' => Up(k)
  PROVE  /\ Holds(k) => Holds(k)'
         /\ \A u \in Thread : Doing(u, k) => Doing(u, k)'
<1>1. InSwitch(k) => InSwitch(k)'
  BY DEF InSwitch, Keeps
<1>2. Hit(k) => Hit(k)'
  BY <1>1 DEF Hit, Keeps
<1>3. Holds(k) => Holds(k)'
  BY <1>1, <1>2 DEF Holds, Keeps
<1>4. ASSUME NEW u \in Thread, Doing(u, k) PROVE Doing(u, k)'
  BY <1>2, <1>4 DEF Doing, Keeps
<1> QED
  BY <1>3, <1>4

\* Nothing is known of a task that is not in the list and not on its way into it.
LEMMA GoneStands ==
  ASSUME NEW k, Misses(k)'
  PROVE  Stands(k)'
<1>1. Pends(k)' /\ Holds(k)' /\ \A t : Doing(t, k)' /\ Resets(t, k)'
  BY DEF Misses, Pends, Holds, Doing, Resets
<1> QED
  BY <1>1 DEF Stands, StandsAt

LEMMA UpIsPlaced ==
  ASSUME TaskInv, NEW k \in ByName, Up(k)
  PROVE  loc[LibOf[k]] \in Addr
BY TaskAssumption DEF Up, TaskInv, PlaceInv

LEMMA DriverOf ==
  ASSUME CallInv, TaskInv, NEW t \in Thread, job[t] \in LinkJobs, NEW l \in Lib
  PROVE  /\ Drives(t, l) <=> l = LibAt(t)
         /\ \A u \in Thread \ {t} : ~Drives(u, l)
<1>1. \A u \in Thread \ {t} : job[u] \notin LinkJobs
  BY AloneInLinker
<1> QED
  BY <1>1, LibAtIs DEF Drives, TaskInv

\* A step of tasks keeps a task that is none of its own.
LEMMA AsideKeeps ==
  ASSUME NEW t \in Thread, Moves(t), NEW k, ~Flies(t, k), ~Flies(t, k)', ~Does(t, k),
         k \in tasks' => k \in tasks,
         target'[k] = target[k], k \in finished' <=> k \in finished, k \in corrupted' <=> k \in corrupted,
         \A u \in Thread : k \in work[u] => k \in work'[u],
         Up(k)' /\ k \in sw[loc[LibOf[k]]] => k \in sw'[loc[LibOf[k]]]
  PROVE  Keeps(k)
<1>1. \A u \in Thread \ {t} : pc'[u] = pc[u] /\ cur'[u] = cur[u] /\ job'[u] = job[u]
  BY DEF Moves
<1>2. \A u \in Thread : (Flies(u, k)' => Flies(u, k) /\ pc'[u] = pc[u]) /\ (Does(u, k) => Does(u, k)' /\ pc'[u] = pc[u])
  BY <1>1 DEF Flies, Does
<1>3. \A u \in Thread : pc[u] = "hook" /\ cur[u] = k => pc'[u] = "hook" /\ cur'[u] = k
  BY <1>1 DEF Flies
<1>4. Done(k) => Done(k)'
  BY <1>2 DEF Done
<1> QED
  BY <1>2, <1>3, <1>4 DEF Keeps

LEMMA FreshStays ==
  ASSUME NEW t \in Thread, Moves(t), NEW k, Fresh(k), target'[k] = target[k], k \in finished => k \in finished',
         ~Flies(t, k), ~Does(t, k)
  PROVE  Fresh(k)'
<1>1. \A u \in Thread \ {t} : pc'[u] = pc[u] /\ cur'[u] = cur[u] /\ job'[u] = job[u]
  BY DEF Moves
<1>2. \A u \in Thread : pc[u] = "hook" /\ cur[u] = k => pc'[u] = "hook" /\ cur'[u] = k
  BY <1>1 DEF Flies
<1>3. \A u \in Thread : Does(u, k) => Does(u, k)' /\ pc'[u] = pc[u]
  BY <1>1 DEF Does
<1>4. Done(k) => Done(k)'
  BY <1>3 DEF Done
<1> QED
  BY <1>2, <1>4 DEF Fresh

\* Whoever hooks a task has it for itself.
LEMMA FliesAlone ==
  ASSUME CallInv, OwnInv, NEW t \in Thread, NEW k, Flies(t, k)
  PROVE  /\ job[t] = "hook" /\ k \in made \ (tasks \cup destroyed \cup corrupted)
         /\ ~Collected(k) /\ \A u \in Thread \ {t} : ~Flies(u, k) /\ ~Undoes(u, k)
<1>1. job[t] = "hook" /\ cur[t] = k /\ pc[t] \in {"lookup", "hook", "insert"}
  BY DEF Flies, CallInv, Sound, JobAt
<1>2. \A u \in Thread : Flies(u, k) => job[u] = "hook" /\ cur[u] = k
  BY DEF Flies, CallInv, Sound, JobAt
<1> QED
  BY <1>1, <1>2, HooksAlone DEF Undoes

\* One more that is in no list: a task handed back.
LEMMA GivenUp ==
  ASSUME CallInv, OwnInv, NEW k, k \in destroyed \/ \E t \in Thread : Undoes(t, k)
  PROVE  Misses(k)
<1>1. k \notin tasks
  BY UndoesAlone DEF OwnInv, ListInv, Undoes
<1>2. \A u \in Thread : ~Flies(u, k)
  <2> SUFFICES ASSUME NEW u \in Thread, Flies(u, k)
               PROVE  FALSE
    OBVIOUS
  <2>1. job[u] = "hook" /\ k \notin destroyed /\ \A v \in Thread \ {u} : ~Undoes(v, k)
    BY FliesAlone
  <2> QED
    BY <2>1 DEF Undoes
<1> QED
  BY <1>1, <1>2 DEF Misses

LEMMA LeftSame ==
  ASSUME NEW t \in Thread, pc'[t] = pc[t], rest'[t] = rest[t]
  PROVE  Left(t)' = Left(t)
BY DEF Left

LEMMA LeftAfter ==
  ASSUME NEW t \in Thread, pc'[t] \in {"pre", "post"} \cup PreSteps \cup PostSteps
  PROVE  Left(t)' = rest'[t]
BY DEF Left, PreSteps, PostSteps, DoSteps

\* Steps that take no load or close further: the walk is where it was.
LEMMA StageStands ==
  ASSUME CallInv, TaskInv, NEW t \in Thread, StaysAt(t),
         pc[t] \notin {"init_pre", "fini_post"}, pc'[t] # "init_pre", pc'[t] = "reset" <=> pc[t] = "reset",
         NEW k \in ByName, Stands(k),
         Pends(k) => Pends(k)', Misses(k) => Misses(k)', Holds(k) => Holds(k)',
         \A u \in Thread : Doing(u, k) => Doing(u, k)',
         \A u \in Thread : job'[u] # "dlopen" /\ Resets(u, k) => Resets(u, k)'
  PROVE  Stands(k)'
<1> DEFINE l == LibOf[k]
<1>1. /\ UNCHANGED <<phase, loc, on, did, rest>>
      /\ \A u \in Thread \ {t} : pc'[u] = pc[u] /\ job'[u] = job[u]
  BY DEF StaysAt, Moves
<1>2. job[t] \in LinkJobs \/ job'[t] \in LinkJobs =>
        /\ job'[t] = job[t]
        /\ \/ job[t] = "dlopen" /\ pc[t] \in PreSteps /\ pc'[t] \in PreSteps
           \/ job[t] = "dlclose" /\ pc[t] \in PostSteps /\ pc'[t] \in PostSteps
           \/ job[t] = "dlopen" /\ CtorsAt(pc[t]) /\ CtorsAt(pc'[t])
  BY DEF StaysAt, LinkJobs
<1>3. ASSUME NEW u \in Thread, job'[u] \in LinkJobs
      PROVE  /\ job'[u] = job[u] /\ (Early(u)' <=> Early(u)) /\ (Unswept(u)' <=> Unswept(u))
             /\ (pc'[u] = "dtors" <=> pc[u] = "dtors")
  <2>1. CASE u # t
    <3>1. pc'[u] = pc[u] /\ job'[u] = job[u] /\ rest'[u] = rest[u]
      BY <1>1, <2>1
    <3>2. Left(u)' = Left(u)
      BY <3>1, LeftSame
    <3> QED
      BY <3>1, <3>2 DEF Early, Unswept, Ahead
  <2>2. CASE u = t /\ job[t] = "dlopen" /\ pc[t] \in PreSteps /\ pc'[t] \in PreSteps
    <3>1. pc[t] \in {"pending"} \cup DoSteps /\ pc'[t] \in {"pending"} \cup DoSteps
      BY <2>2 DEF PreSteps
    <3>2. ~Ahead(t) /\ ~Ahead(t)'
      BY <3>1 DEF Ahead
    <3>3. job'[t] = "dlopen" /\ {pc[t], pc'[t]} \cap {"enter_ctors", "dtors"} = {}
      BY <1>2, <2>2, <3>1 DEF DoSteps, LinkJobs
    <3> QED
      BY <2>2, <3>2, <3>3 DEF Early, Unswept
  <2>3. CASE u = t /\ job[t] = "dlclose" /\ pc[t] \in PostSteps /\ pc'[t] \in PostSteps
    <3>1. Ahead(t)' <=> Ahead(t)
      <4>1. Left(t) = rest[t] /\ Left(t)' = rest'[t]
        BY <2>3, LeftIs, LeftAfter
      <4> QED
        BY <1>1, <2>3, <4>1 DEF Ahead, PostSteps, DoSteps
    <3>2. job'[t] = "dlclose" /\ PostAt(pc[t]) /\ PostAt(pc'[t]) /\ {pc[t], pc'[t]} \cap {"enter_ctors", "dtors"} = {}
      BY <1>2, <2>3 DEF PostAt, PostSteps, LinkJobs
    <3> QED
      BY <2>3, <3>1, <3>2 DEF Early, Unswept
  <2>4. CASE u = t /\ job[t] = "dlopen" /\ CtorsAt(pc[t]) /\ CtorsAt(pc'[t])
    <3>1. /\ ~PreAt(pc[t], job[t]) /\ ~PreAt(pc'[t], job[t])
          /\ {pc[t], pc'[t]} \cap {"enter_ctors", "dtors"} = {}
      BY <2>4, Stages DEF CtorsAt, LinkJobs
    <3>2. job'[t] = "dlopen"
      BY <1>2, <2>4 DEF LinkJobs
    <3> QED
      BY <2>4, <3>1, <3>2 DEF Early, Unswept
  <2> QED
    BY <1>2, <1>3, <2>1, <2>2, <2>3, <2>4
<1>4. phase'[l] = phase[l] /\ loc'[l] = loc[l]
  BY <1>1
<1>5. ASSUME NEW u \in Thread, Drives(u, l)' PROVE StandsAt(u, k)'
  <2>1. job'[u] \in LinkJobs /\ job'[u] = job[u] /\ did'[u] = did[u]
    BY <1>1, <1>3, <1>5 DEF Drives
  <2>2. Drives(u, l)
    BY <1>1, <1>5, <2>1 DEF Drives
  <2>3. StandsAt(u, k)
    BY <2>2 DEF Stands
  <2> QED
    BY <1>3, <1>4, <2>1, <2>3 DEF StandsAt
<1> QED
  BY <1>4, <1>5 DEF Stands

\* What the steps of tasks have to show, of the task they work on; the others are kept.
LEMMA TaskEffect ==
  ASSUME CallInv, TaskInv, StoryInv, EffectInv, NEW t \in Thread, StaysAt(t),
         pc[t] \notin {"init_pre", "fini_post"}, pc'[t] # "init_pre", pc'[t] = "reset" <=> pc[t] = "reset",
         late' = late, \A u \in Thread \ {t} : work'[u] = work[u],
         job[t] = "dlopen" => \A k : k \in work'[t] \/ Does(t, k)' => k \in work[t] \/ Does(t, k),
         \A k \in ByName : Fresh(k) => Keeps(k) \/ (Fresh(k)' /\ (k \notin late /\ Stands(k) => Stands(k)'))
  PROVE  EffectInv'
<1>1. DoesInv'
  <2> SUFFICES ASSUME NEW u \in Thread, job'[u] = "dlopen", NEW k, k \in work'[u] \/ Does(u, k)'
               PROVE  k \in ByName /\ LibOf[k] = LibAt(u)'
    BY DEF DoesInv
  <2>1. job[u] = "dlopen" /\ (k \in work[u] \/ Does(u, k)) /\ LibAt(u)' = LibAt(u)
    <3>1. /\ UNCHANGED <<loc, on>> /\ (u # t => pc'[u] = pc[u] /\ job'[u] = job[u] /\ cur'[u] = cur[u])
          /\ job[t] = "dlopen" \/ job'[t] # "dlopen"
      BY DEF StaysAt, Moves, LinkJobs
    <3> QED
      BY <3>1 DEF LibAt, Does
  <2> QED
    BY <2>1 DEF EffectInv, DoesInv
<1>2. ASSUME NEW k \in ByName PROVE Fresh(k)'
  BY KeepsAll DEF EffectInv
<1>3. ASSUME NEW k \in ByName \ late PROVE Stands(k)'
  <2>1. Stands(k) /\ Fresh(k)
    BY DEF EffectInv
  <2>2. CASE Keeps(k)
    <3>1. UNCHANGED <<loc, phase>>
      BY DEF StaysAt
    <3> QED
      BY <2>1, <2>2, <3>1, StageStands, KeepsAll, KeepsPlaced DEF Up
  <2> QED
    BY <2>1, <2>2
<1> QED
  BY <1>1, <1>2, <1>3 DEF EffectInv

-----------------------------------------------------------------------------
(* The steps of tasks                                                      *)

LEMMA CallEffect ==
  ASSUME CallInv, CallInv', TaskInv, StoryInv, EffectInv, NEW t \in Thread, NEW c \in Task, CallHook(t, c) \/ CallUndo(t, c)
  PROVE  EffectInv'
<1>1. StaysAt(t) /\ Moves(t)
  BY TaskStepStays DEF TaskStep, StaysAt
<1>2. /\ pc[t] = "idle" /\ pc'[t] \in {"lookup", "hook", "undo"} /\ job'[t] \in {"hook", "undo"}
      /\ UNCHANGED <<late, work, sw, loc, finished, corrupted>> /\ tasks' \subseteq tasks
      /\ \A k \in ByName : target'[k] = target[k] /\ ~Flies(t, k)'
  <2>1. CASE CallHook(t, c)
    <3>1. pc[t] = "idle" /\ pc'[t] \in {"lookup", "hook"} /\ job'[t] = "hook"
      BY <2>1, CallHookOwn
    <3>2. UNCHANGED <<late, work, sw, loc, tasks, finished, corrupted>>
      BY <2>1 DEF CallHook, swVars, linkVars, libVars
    <3>3. CASE c \in ByName
      <4>1. Start(t, "hook", c, "lookup") /\ target' = target
        BY <2>1, <3>3 DEF CallHook
      <4>2. pc'[t] = "lookup"
        BY <4>1, StartMoves DEF CallInv, Jobs, Steps, TaskSteps
      <4> QED
        BY <3>1, <3>2, <4>1, <4>2 DEF Flies
    <3>4. CASE c \notin ByName
      <4>1. Start(t, "hook", c, "hook") /\ target' = [target EXCEPT ![c] = loc[LibOf[c]]]
        BY <2>1, <3>4 DEF CallHook
      <4>2. cur'[t] = c
        BY <4>1, StartMoves DEF CallInv, Jobs, Steps, TaskSteps
      <4>3. \A k \in ByName : target'[k] = target[k]
        BY <3>4, <4>1, TaskAssumption DEF TaskInv, OwnInv, TaskTypes
      <4> QED
        BY <3>1, <3>2, <3>4, <4>2, <4>3 DEF Flies
    <3> QED
      BY <3>3, <3>4
  <2>2. CASE CallUndo(t, c)
    <3>1. pc[t] = "idle" /\ pc'[t] = "undo" /\ job'[t] = "undo"
      BY <2>2, CallUndoOwn
    <3>2. UNCHANGED <<late, work, sw, loc, target, finished, corrupted>> /\ tasks' \subseteq tasks
      BY <2>2 DEF CallUndo, swVars, linkVars, libVars
    <3> QED
      BY <3>1, <3>2 DEF Flies
  <2> QED
    BY <2>1, <2>2
<1>3. \A k : ~Flies(t, k) /\ ~Does(t, k) /\ ~Does(t, k)'
  BY <1>2 DEF Flies, Does, DoSteps
<1>4. \A k \in ByName : Keeps(k)
  BY <1>1, <1>2, <1>3, AsideKeeps
<1> QED
  BY <1>1, <1>2, <1>3, <1>4, TaskEffect

\* A hook looks its library up while nobody loads or closes one.
LEMMA LookupEffect ==
  ASSUME CallInv, CallInv', TaskInv, StoryInv, EffectInv, NEW t \in Thread, Lookup(t)
  PROVE  EffectInv'
<1>1. StaysAt(t) /\ Moves(t)
  BY TaskStepStays DEF TaskStep, StaysAt
<1>2. PICK c : c = cur[t]
  OBVIOUS
<1>3. /\ pc[t] = "lookup" /\ job[t] = "hook" /\ job'[t] = "hook" /\ cur'[t] = c /\ pc'[t] \in {"hook", "insert", "record"}
      /\ c \in made \ tasks /\ c \in Task /\ ~Collected(c) /\ c \notin finished
      /\ \A u \in Thread \ {t} : job[u] \in {"hook", "undo"} => cur[u] # c
  <2>1. pc[t] = "lookup" /\ job[t] = "hook" /\ job'[t] = "hook" /\ cur'[t] = c /\ pc'[t] \in {"hook", "insert", "record"}
    BY <1>2, HookerSteps DEF Lookup, At
  <2> QED
    BY <1>2, <2>1, HooksAlone DEF TaskInv, OwnInv, JobInv
<1>4. /\ UNCHANGED <<late, work, sw, loc, phase, tasks, finished, corrupted>> /\ \A k \in Task \ {c} : target'[k] = target[k]
  BY <1>2 DEF Lookup, swVars, linkVars, libVars, TaskInv, OwnInv, TaskTypes
<1>5. dl = NoThread /\ \A u \in Thread : job'[u] \notin LinkJobs
  <2>1. \A u \in Thread : job[u] \notin LinkJobs
    BY NobodyInLinker DEF Lookup
  <2> QED
    BY <1>1, <1>3, <2>1 DEF Moves, LinkJobs, Lookup
<1>6. ASSUME NEW k \in ByName, k # c PROVE Keeps(k)
  <2>1. ~Flies(t, k) /\ ~Flies(t, k)' /\ ~Does(t, k) /\ k \in Task
    BY <1>2, <1>3, <1>6, TaskAssumption DEF Flies, Does
  <2> QED
    BY <1>1, <1>4, <1>6, <2>1, AsideKeeps
<1>7. ASSUME c \in ByName, Fresh(c) PROVE Fresh(c)' /\ Stands(c)'
  <2>1. \A u \in Thread : ~(pc[u] = "hook" /\ cur[u] = c)
    BY <1>2, <1>3 DEF CallInv, Sound, JobAt
  <2>2. ~Done(c)
    BY <1>3 DEF Done, Collected
  <2>3. target[c] = NoAddr
    BY <1>7, <2>1, <2>2 DEF Fresh
  <2>4. \/ pc'[t] = "insert" /\ target' = target /\ phase[LibOf[c]] = "out"
        \/ pc'[t] = "hook" /\ target'[c] = loc[LibOf[c]] /\ phase[LibOf[c]] = "in"
        \/ pc'[t] = "record" /\ target' = target
    <3>1. \/ Goto(t, "insert") /\ target' = target /\ phase[LibOf[c]] = "out"
          \/ Goto(t, "hook") /\ target' = [target EXCEPT ![c] = loc[LibOf[c]]] /\ phase[LibOf[c]] = "in"
          \/ Goto(t, "record") /\ target' = target
      BY <1>2 DEF Lookup
    <3>2. target'[c] = loc[LibOf[c]] \/ target' = target
      BY <1>3, <3>1 DEF TaskInv, OwnInv, TaskTypes
    <3>3. /\ Goto(t, "insert") => pc'[t] = "insert"
          /\ Goto(t, "hook") => pc'[t] = "hook"
          /\ Goto(t, "record") => pc'[t] = "record"
      BY DEF Goto, CallInv, CallTypes
    <3>4. Goto(t, "hook") /\ target' = [target EXCEPT ![c] = loc[LibOf[c]]] => target'[c] = loc[LibOf[c]]
      BY <1>3 DEF TaskInv, OwnInv, TaskTypes
    <3> QED
      BY <3>1, <3>3, <3>4
  <2>5. Fresh(c)'
    <3>1. CASE pc'[t] = "hook"
      BY <1>3, <3>1 DEF Fresh
    <3>2. CASE target' = target
      BY <2>3, <3>2 DEF Fresh
    <3> QED
      BY <2>4, <3>1, <3>2
  <2>6. \A u \in Thread \ {t} : ~Flies(u, c)'
    <3>1. \A u \in Thread \ {t} : ~Flies(u, c)
      BY <1>3 DEF Flies, CallInv, Sound, JobAt
    <3> QED
      BY <1>1, <3>1 DEF Moves, Flies
  <2>7. phase[LibOf[c]] = "out" => Pends(c)'
    BY <1>3, <1>4, <2>3, <2>4, <2>6 DEF Pends, Flies
  <2>8. phase[LibOf[c]] = "in" => Holds(c)'
    <3> SUFFICES ASSUME phase[LibOf[c]] = "in"
                 PROVE  Holds(c)'
      OBVIOUS
    <3>1. (pc'[t] = "hook" /\ target'[c] = loc[LibOf[c]]) \/ pc'[t] = "record"
      BY <2>4
    <3> QED
      BY <1>3, <1>4, <2>6, <3>1 DEF Holds, Flies
  <2>9. \A u \in Thread : \A l : ~Drives(u, l)'
    BY <1>5 DEF Drives
  <2> QED
    BY <1>4, <2>5, <2>7, <2>8, <2>9 DEF Stands
<1> QED
  BY <1>1, <1>3, <1>4, <1>6, <1>7, TaskEffect

\* The hook itself and the place in the list: of the task that flies only what is known in these two stages applies.
LEMMA HookEffect ==
  ASSUME CallInv, CallInv', TaskInv, StoryInv, EffectInv, NEW t \in Thread, DoHook(t) \/ Insert(t)
  PROVE  EffectInv'
<1>1. StaysAt(t) /\ Moves(t)
  BY TaskStepStays DEF TaskStep, StaysAt
<1>2. PICK c : c = cur[t]
  OBVIOUS
<1>3. /\ job[t] = "hook" /\ job'[t] = "hook" /\ cur'[t] = c /\ pc[t] \in {"hook", "insert"} /\ pc'[t] \in {"insert", "record"}
      /\ pc[t] = "insert" => pc'[t] = "record"
      /\ c \in Task /\ Flies(t, c)
  <2>1. job[t] = "hook" /\ job'[t] = "hook" /\ cur'[t] = c
    BY <1>2, HookerSteps
  <2>2. \/ pc[t] = "hook" /\ (Goto(t, "insert") \/ Goto(t, "record"))
        \/ pc[t] = "insert" /\ Goto(t, "record")
    BY DEF DoHook, Insert, At
  <2>3. pc[t] \in {"hook", "insert"} /\ pc'[t] \in {"insert", "record"} /\ (pc[t] = "insert" => pc'[t] = "record")
    BY <2>2 DEF Goto, CallInv, CallTypes
  <2> QED
    BY <1>2, <2>1, <2>3, HooksAlone DEF Flies, TaskInv
<1>4. /\ c \in made \ (tasks \cup destroyed \cup corrupted) /\ ~Collected(c)
      /\ \A u \in Thread \ {t} : ~Flies(u, c)
  BY <1>3, FliesAlone DEF TaskInv
<1>5. \A u \in Thread \ {t} : ~Flies(u, c)'
  BY <1>1, <1>4 DEF Moves, Flies
<1>6. UNCHANGED <<late, work, loc, phase, corrupted, target>>
  BY DEF DoHook, Insert, linkVars, libVars
<1>7. /\ DoHook(t) => /\ pc[t] = "hook" /\ finished' = finished \cup {c} /\ tasks' = tasks
                      /\ (Hook(c, target[c]) /\ pc'[t] = "insert") \/ (UNCHANGED sw /\ pc'[t] = "record")
      /\ Insert(t) => pc[t] = "insert" /\ UNCHANGED <<sw, finished>> /\ tasks' = tasks \cup {c}
  <2>1. DoHook(t) => \/ Hook(c, target[c]) /\ Goto(t, "insert")
                     \/ UNCHANGED sw /\ Goto(t, "record")
    BY <1>2 DEF DoHook, HookFails, swVars
  <2>2. (Goto(t, "insert") => pc'[t] = "insert") /\ (Goto(t, "record") => pc'[t] = "record")
    BY DEF Goto, CallInv, CallTypes
  <2> QED
    BY <1>2, <2>1, <2>2 DEF DoHook, Insert, At, swVars
<1>8. \A a \in Addr : sw[a] \subseteq sw'[a] /\ (Hook(c, target[c]) /\ a = target[c] => c \in sw'[a])
  <2>1. sw' = sw \/ sw' = [sw EXCEPT ![target[c]] = @ \cup {c}]
    BY <1>7 DEF Hook
  <2>2. Hook(c, target[c]) => sw' = [sw EXCEPT ![target[c]] = @ \cup {c}]
    BY DEF Hook
  <2>3. DOMAIN sw = Addr
    BY DEF TaskInv, OwnInv, TaskTypes
  <2> QED
    BY <2>1, <2>2, <2>3
<1>9. ASSUME NEW k \in ByName, k # c PROVE Keeps(k)
  <2>1. ~Flies(t, k) /\ ~Flies(t, k)' /\ ~Does(t, k)
    BY <1>2, <1>3, <1>9 DEF Flies, Does
  <2>2. (k \in tasks' => k \in tasks) /\ (k \in finished' <=> k \in finished)
    BY <1>7, <1>9
  <2>3. Up(k)' /\ k \in sw[loc[LibOf[k]]] => k \in sw'[loc[LibOf[k]]]
    <3>1. Up(k)' => loc[LibOf[k]] \in Addr
      BY <1>6, UpIsPlaced DEF Up
    <3> QED
      BY <1>8, <3>1
  <2> QED
    BY <1>1, <1>6, <2>1, <2>2, <2>3, AsideKeeps
<1>10. ASSUME c \in ByName, Fresh(c) PROVE Fresh(c)'
  <2>1. CASE DoHook(t)
    BY <1>7, <2>1 DEF Fresh, Done
  <2>2. CASE Insert(t)
    <3>1. ~(pc[t] = "hook")
      BY <1>7, <2>2
    <3>2. \A u \in Thread : ~(pc[u] = "hook" /\ cur[u] = c)
      BY <1>4, <3>1 DEF Flies
    <3>3. c \in finished \/ target[c] = NoAddr
      BY <1>4, <1>10, <3>2 DEF Fresh, Done, Collected
    <3> QED
      BY <1>6, <1>7, <2>2, <3>3 DEF Fresh, Done
  <2> QED
    BY <2>1, <2>2
<1>11. ASSUME c \in ByName, Stands(c) PROVE Stands(c)'
  <2>1. ~Misses(c) /\ (\A u \in Thread : ~Doing(u, c)) /\ (\A u \in Thread : ~Resets(u, c))
    BY <1>3 DEF Misses, Doing, Resets
  <2>2. Pends(c) => Pends(c)'
    <3> SUFFICES ASSUME Pends(c)
                 PROVE  Pends(c)'
      OBVIOUS
    <3>1. pc[t] = "insert" /\ c \notin finished /\ target[c] = NoAddr
      BY <1>3 DEF Pends
    <3>2. pc'[t] = "record" /\ c \notin finished'
      BY <1>3, <1>7, <3>1
    <3> QED
      BY <1>5, <1>6, <3>1, <3>2 DEF Pends, Blank, Flies
  <2>3. Holds(c) => Holds(c)'
    <3> SUFFICES ASSUME Holds(c)
                 PROVE  Holds(c)'
      OBVIOUS
    <3>1. target[c] = loc[LibOf[c]] /\ (pc[t] = "insert" => c \in finished /\ InSwitch(c))
      BY <1>3 DEF Holds
    <3>2. CASE Insert(t)
      <4>1. InSwitch(c)' /\ c \in finished' /\ pc'[t] = "record"
        BY <1>3, <1>6, <1>7, <3>1, <3>2 DEF InSwitch, Up
      <4>2. Hit(c)'
        BY <1>4, <1>6, <3>1, <4>1 DEF Hit
      <4> QED
        BY <1>5, <4>1, <4>2 DEF Holds, Flies
    <3>3. CASE DoHook(t)
      <4>1. c \notin tasks' /\ c \in finished'
        BY <1>4, <1>7, <3>3
      <4>2. pc'[t] = "insert" => InSwitch(c)'
        <5> SUFFICES ASSUME pc'[t] = "insert", Up(c)
                     PROVE  c \in sw'[loc[LibOf[c]]]
          BY <1>6 DEF InSwitch, Up
        <5>1. Hook(c, target[c])
          BY <1>7, <3>3
        <5>2. CanHook(c, target[c])
          BY <5>1 DEF Hook
        <5>3. target[c] \in Addr
          <6>1. LibOf[c] \in Lib
            BY <1>3, TaskAssumption
          <6>2. CASE target[c] \in Addr
            BY <6>2
          <6>3. CASE target[c] = NoAddr
            <7>1. phase[LibOf[c]] = "out"
              BY <3>1, <6>1, <6>3 DEF TaskInv, PlaceInv
            <7>2. Pends(c)
              BY <1>11, <7>1 DEF Stands
            <7> QED
              BY <1>3, <1>7, <3>3, <7>2 DEF Pends
          <6> QED
            BY <3>1, <6>1, <6>2, <6>3 DEF TaskInv, PlaceInv
        <5> QED
          BY <1>8, <3>1, <5>1, <5>3
      <4> QED
        BY <1>5, <1>6, <3>1, <4>1, <4>2 DEF Holds, Flies
    <3> QED
      BY <3>2, <3>3
  <2> QED
    BY <1>1, <1>3, <1>11, <2>1, <2>2, <2>3, StageStands
<1>12. \A k : ~Does(t, k)'
  BY <1>3 DEF Does
<1> QED
  BY <1>1, <1>3, <1>6, <1>9, <1>10, <1>11, <1>12, TaskEffect

\* A record changes no task, and whoever takes it still has the task it does.
LEMMA RecordEffect ==
  ASSUME CallInv, CallInv', TaskInv, StoryInv, EffectInv, NEW t \in Thread, Record(t) \/ Dladdr(t)
  PROVE  EffectInv'
<1>1. StaysAt(t)
  BY TaskStepStays DEF TaskStep
<1>2. /\ pc[t] \in {"record", "dladdr"} /\ Moves(t) /\ late' = late
      /\ UNCHANGED <<tasks, finished, corrupted, target, sw, work>>
      /\ pc'[t] \in {"dladdr", "idle", "destroy", "finish"}
      /\ job[t] = "dlopen" => pc'[t] \in {"dladdr", "finish"} /\ job'[t] = "dlopen" /\ cur'[t] = cur[t]
  <2>1. late' = late
    BY DEF Record, Dladdr
  <2> QED
    BY <2>1, RecordSteps
<1>3. \A u \in Thread \ {t} : pc'[u] = pc[u] /\ cur'[u] = cur[u] /\ job'[u] = job[u]
  BY <1>2 DEF Moves
<1>4. ASSUME NEW k PROVE Keeps(k)
  <2>1. \A u \in Thread : Flies(u, k)' => Flies(u, k) /\ pc'[u] = pc[u]
    BY <1>2, <1>3 DEF Flies
  <2>2. \A u \in Thread : pc[u] = "hook" /\ cur[u] = k => pc'[u] = "hook" /\ cur'[u] = k
    BY <1>2, <1>3
  <2>3. \A u \in Thread : Does(u, k) => Does(u, k)' /\ (pc[u] = "do_pending" => pc'[u] = "do_pending")
                                        /\ (pc[u] \in DoneSteps => pc'[u] \in DoneSteps)
    BY <1>2, <1>3 DEF Does, DoSteps, DoneSteps
  <2>4. Done(k) => Done(k)'
    BY <1>2, <2>3 DEF Done
  <2> QED
    BY <1>2, <2>1, <2>2, <2>3, <2>4 DEF Keeps
<1>5. job[t] = "dlopen" => \A k : k \in work'[t] \/ Does(t, k)' => k \in work[t] \/ Does(t, k)
  BY <1>2 DEF Does, DoSteps
<1> QED
  BY <1>1, <1>2, <1>4, <1>5, TaskEffect

\* No task by name shares the unique mode with another task.  The unhook of a unique task takes whatever unique
\* proxy it finds at its address (sh_switch.c:748), which may be another's that came there after a close.
AloneUnique == \A j \in Unique \cap ByName : \A k \in Unique : j = k

\* What undoes a task has it out of the list, and touches no other task's proxy.
LEMMA UndoEffect ==
  ASSUME AloneUnique, CallInv, CallInv', TaskInv, StoryInv, EffectInv, NEW t \in Thread, Undo(t)
  PROVE  EffectInv'
<1>1. StaysAt(t) /\ Moves(t)
  BY TaskStepStays DEF TaskStep, StaysAt
<1>2. PICK c : c = cur[t]
  OBVIOUS
<1>3. /\ job[t] = "undo" /\ pc[t] = "undo" /\ job'[t] = "undo" /\ cur'[t] = c /\ pc'[t] = "record"
      /\ UNCHANGED <<tasks, finished, corrupted, target, work, late, loc, phase>>
      /\ \A a : a = target[c] => sw' \in {sw, [sw EXCEPT ![a] = Less(c, a)]}
  <2>1. /\ UNCHANGED <<tasks, finished, corrupted, target, work, late, loc, phase>>
        /\ sw' = sw \/ Unhook(c, target[c]) \/ UnhookFails(c, target[c])
    BY <1>2 DEF Undo, linkVars, libVars, swVars
  <2>2. \A a : a = target[c] => sw' \in {sw, [sw EXCEPT ![a] = Less(c, a)]}
    <3>1. CASE sw' = sw \/ Unhook(c, target[c])
      BY <3>1 DEF Unhook
    <3>2. CASE UnhookFails(c, target[c])
      <4>1. CASE Less(c, target[c]) = {}
        BY <3>2, <4>1 DEF UnhookFails
      <4>2. CASE Less(c, target[c]) # {}
        <5>1. sw' = [sw EXCEPT ![target[c]] = sw[target[c]]]
          BY <3>2, <4>2 DEF UnhookFails
        <5>2. sw \in [Addr -> SUBSET made]
          BY DEF TaskInv, OwnInv, TaskTypes
        <5> QED
          BY <5>1, <5>2
      <4> QED
        BY <4>1, <4>2
    <3> QED
      BY <2>1, <3>1, <3>2
  <2> QED
    BY <1>2, <2>1, <2>2, UndoOwn
<1>4. Undoes(t, c) /\ Undoes(t, c)' /\ ~Flies(t, c) /\ ~Flies(t, c)' /\ \A k : ~Does(t, k) /\ ~Does(t, k)' /\ ~Flies(t, k)'
  BY <1>2, <1>3 DEF Undoes, Flies, Does
<1>5. ASSUME NEW k \in ByName, k # c PROVE Keeps(k)
  <2>1. ~Flies(t, k)
    BY <1>3 DEF Flies
  <2>2. Up(k)' /\ k \in sw[loc[LibOf[k]]] => k \in sw'[loc[LibOf[k]]]
    <3> SUFFICES ASSUME Up(k)', k \in sw[loc[LibOf[k]]], sw' # sw
                 PROVE  k \in sw'[loc[LibOf[k]]]
      OBVIOUS
    <3>1. loc[LibOf[k]] \in Addr
      BY <1>3, UpIsPlaced DEF Up
    <3>2. PICK a : a = target[c]
      OBVIOUS
    <3>3. sw' = [sw EXCEPT ![a] = IF c \in Unique /\ sw[a] \subseteq Unique THEN {} ELSE sw[a] \ {c}]
      BY <1>3, <3>2 DEF Less
    <3>4. ASSUME a = loc[LibOf[k]] PROVE ~(c \in Unique /\ sw[a] \subseteq Unique)
      BY <1>5, <3>4 DEF AloneUnique
    <3>5. DOMAIN sw = Addr
      BY DEF TaskInv, OwnInv, TaskTypes
    <3> QED
      BY <1>5, <3>1, <3>3, <3>4, <3>5
  <2> QED
    BY <1>1, <1>3, <1>4, <2>1, <2>2, AsideKeeps
<1>6. OwnInv'
  BY UndoOwn
<1>7. Misses(c)'
  <2>1. c \notin tasks' /\ \A u \in Thread : ~Flies(u, c)
    BY <1>3, <1>4, GivenUp DEF Misses, TaskInv
  <2>2. \A u \in Thread : ~Flies(u, c)'
    BY <1>1, <1>4, <2>1 DEF Moves, Flies
  <2> QED
    BY <2>1, <2>2 DEF Misses
<1>8. Fresh(c) => Fresh(c)' /\ Stands(c)'
  BY <1>1, <1>3, <1>4, <1>7, FreshStays, GoneStands
<1> QED
  BY <1>1, <1>3, <1>4, <1>5, <1>8, TaskEffect

LEMMA UndoDestroyEffect ==
  ASSUME CallInv, CallInv', TaskInv, StoryInv, EffectInv, NEW t \in Thread, UndoDestroy(t)
  PROVE  EffectInv'
<1>1. StaysAt(t) /\ Moves(t)
  BY TaskStepStays DEF TaskStep, StaysAt
<1>2. /\ job[t] = "undo" /\ pc[t] = "destroy" /\ pc'[t] = "idle" /\ job'[t] = "none"
      /\ UNCHANGED <<tasks, finished, corrupted, target, work, late, sw>>
  <2>1. UNCHANGED <<tasks, finished, corrupted, target, work, late, sw>> /\ pc[t] = "destroy"
    BY DEF UndoDestroy, swVars, At
  <2> QED
    BY <2>1, UndoDestroyOwn
<1>3. \A k : ~Flies(t, k) /\ ~Flies(t, k)' /\ ~Does(t, k) /\ ~Does(t, k)'
  BY <1>2 DEF Flies, Does
<1>4. \A k : Keeps(k)
  BY <1>1, <1>2, <1>3, AsideKeeps
<1> QED
  BY <1>1, <1>2, <1>3, <1>4, TaskEffect

\* A load that is past the collection: what is known of its library's tasks is what is being done of them.
LEMMA DoerStands ==
  ASSUME CallInv, TaskInv, StoryInv, NEW t \in Thread, StaysAt(t), job[t] = "dlopen", job'[t] = "dlopen",
         pc[t] \in {"pending"} \cup DoSteps, pc'[t] \in {"pending"} \cup DoSteps,
         NEW k \in ByName, LibOf[k] = LibAt(t)
  PROVE  /\ phase[LibOf[k]] = "new" /\ phase' = phase /\ loc' = loc
         /\ on[t] = loc[LibOf[k]] /\ on[t] \in Addr
         /\ Stands(k) => Doing(t, k)
         /\ Doing(t, k)' => Stands(k)'
<1>1. job[t] \in LinkJobs /\ PreAt(pc[t], job[t])
  BY Stages DEF LinkJobs, PreSteps
<1>2. PICK l : l = LibAt(t)
  OBVIOUS
<1>3. l \in Lib /\ loc[l] = on[t] /\ on[t] \in Addr /\ PhaseAt(t)
  BY <1>1, <1>2, DriverKnows
<1>4. phase[l] = "new"
  BY <1>1, <1>2, <1>3 DEF PhaseAt
<1>5. UNCHANGED <<phase, loc, on>>
  BY DEF StaysAt
<1>6. Drives(t, l) /\ \A u \in Thread \ {t} : ~Drives(u, l)'
  <2>1. \A u \in Thread \ {t} : job[u] \notin LinkJobs
    BY <1>1, AloneInLinker
  <2> QED
    BY <1>1, <1>3, <2>1 DEF Drives, StaysAt, Moves
<1>7. ~Early(t) /\ ~Early(t)'
  <2>1. ~Ahead(t) /\ ~Ahead(t)'
    BY DEF Ahead
  <2> QED
    BY <2>1 DEF Early, DoSteps
<1>8. Stands(k) => Doing(t, k)
  BY <1>2, <1>4, <1>6, <1>7 DEF Stands, StandsAt
<1>9. Doing(t, k)' => Stands(k)'
  BY <1>2, <1>4, <1>5, <1>6, <1>7 DEF Stands, StandsAt
<1> QED
  BY <1>2, <1>3, <1>4, <1>5, <1>8, <1>9

LEMMA TakePendingEffect ==
  ASSUME CallInv, CallInv', TaskInv, StoryInv, EffectInv, NEW t \in Thread, TakePending(t)
  PROVE  EffectInv'
<1>1. StaysAt(t) /\ Moves(t)
  BY TaskStepStays DEF TaskStep, StaysAt
<1>2. /\ job[t] = "dlopen" /\ job'[t] = "dlopen" /\ pc[t] = "pending" /\ pc'[t] \in {"pending", "do_pending"}
      /\ UNCHANGED <<tasks, finished, corrupted, target, destroyed, sw, late>>
  <2>1. UNCHANGED <<tasks, finished, corrupted, target, destroyed, sw, late>>
    BY DEF TakePending, taskVars, swVars
  <2> QED
    BY <2>1, TakePendingOwn
<1>3. PICK c \in work[t] :
        /\ work' = [work EXCEPT ![t] = @ \ {c}]
        /\ (c \in destroyed /\ pc' = pc) \/ (cur' = [cur EXCEPT ![t] = c] /\ Goto(t, "do_pending"))
  BY DEF TakePending
<1>4. /\ work'[t] = work[t] \ {c} /\ \A u \in Thread \ {t} : work'[u] = work[u]
      /\ (c \in destroyed /\ pc'[t] = "pending") \/ (cur'[t] = c /\ pc'[t] = "do_pending")
  <2>1. work \in [Thread -> SUBSET made]
    BY DEF TaskInv, OwnInv, TaskTypes
  <2>2. work'[t] = work[t] \ {c} /\ \A u \in Thread \ {t} : work'[u] = work[u]
    BY <1>3, <2>1
  <2>3. (c \in destroyed /\ pc'[t] = "pending") \/ (cur'[t] = c /\ pc'[t] = "do_pending")
    BY <1>2, <1>3 DEF Goto, CallInv, CallTypes
  <2> QED
    BY <2>2, <2>3
<1>5. \A k : ~Flies(t, k) /\ ~Flies(t, k)' /\ ~Does(t, k)
  BY <1>2 DEF Flies, Does, DoSteps
<1>6. ASSUME NEW k, k # c PROVE Keeps(k)
  BY <1>1, <1>2, <1>4, <1>5, <1>6, AsideKeeps
<1>7. ASSUME pc'[t] = "do_pending" PROVE Keeps(c)
  <2>1. cur'[t] = c
    BY <1>4, <1>7
  <2>2. Does(t, c)'
    BY <1>2, <1>7, <2>1 DEF Does, DoSteps
  <2>3. \A u \in Thread \ {t} : pc'[u] = pc[u] /\ cur'[u] = cur[u] /\ job'[u] = job[u]
    BY <1>1 DEF Moves
  <2>4. \A u \in Thread : (Flies(u, c)' => Flies(u, c) /\ pc'[u] = pc[u]) /\ (Does(u, c) => Does(u, c)' /\ pc'[u] = pc[u])
    BY <1>5, <2>3 DEF Flies, Does
  <2>5. \A u \in Thread : pc[u] = "hook" /\ cur[u] = c => pc'[u] = "hook" /\ cur'[u] = c
    BY <1>2, <2>3
  <2>6. Done(c) => Done(c)'
    BY <1>2, <2>4 DEF Done
  <2>7. \A u \in Thread : c \in work[u] => c \in work'[u] \/ (Does(u, c)' /\ pc'[u] = "do_pending")
    BY <1>4, <1>7, <2>2
  <2> QED
    BY <1>2, <2>4, <2>5, <2>6, <2>7 DEF Keeps
<1>8. ASSUME c \in destroyed, Fresh(c) PROVE Fresh(c)' /\ Stands(c)'
  <2>1. Misses(c)
    BY <1>8, GivenUp DEF TaskInv
  <2>2. Misses(c)'
    BY <1>1, <1>2, <1>5, <2>1 DEF Misses, Moves, Flies
  <2> QED
    BY <1>1, <1>2, <1>5, <1>8, <2>2, FreshStays, GoneStands
<1>9. \A k : k \in work'[t] \/ Does(t, k)' => k \in work[t]
  BY <1>3, <1>4 DEF Does, DoSteps
<1> QED
  BY <1>1, <1>2, <1>4, <1>6, <1>7, <1>8, <1>9, TaskEffect

\* A pending task is done: its proxy comes into its library's code or it is marked as an error.
LEMMA DoPendingEffect ==
  ASSUME CallInv, CallInv', TaskInv, StoryInv, EffectInv, NEW t \in Thread, DoPending(t)
  PROVE  EffectInv'
<1>1. StaysAt(t) /\ Moves(t)
  BY TaskStepStays DEF TaskStep, StaysAt
<1>2. PICK c : c = cur[t]
  OBVIOUS
<1>3. /\ job[t] = "dlopen" /\ job'[t] = "dlopen" /\ pc[t] = "do_pending" /\ pc'[t] = "record" /\ cur'[t] = c
      /\ UNCHANGED <<tasks, finished, work, late>>
  <2>1. pc[t] = "do_pending" /\ Goto(t, "record") /\ cur' = cur /\ UNCHANGED <<tasks, finished, work, late>>
    BY DEF DoPending, At
  <2>2. pc'[t] = "record"
    BY <2>1 DEF Goto, CallInv, CallTypes
  <2> QED
    BY <1>2, <2>1, <2>2, DoPendingOwn
<1>4. Does(t, c) /\ Does(t, c)'
  BY <1>2, <1>3 DEF Does, DoSteps
<1>5. /\ c \in ByName /\ LibOf[c] = LibAt(t) /\ c \in Task /\ c \in made \ finished
  <2>1. c \in made \ finished
    BY <1>2, <1>3 DEF TaskInv, OwnInv, JobInv, DoSteps
  <2> QED
    BY <1>3, <1>4, <2>1, TaskAssumption DEF EffectInv, DoesInv
<1>6. phase[LibOf[c]] = "new" /\ phase' = phase /\ loc' = loc /\ on[t] = loc[LibOf[c]] /\ on[t] \in Addr
      /\ (Stands(c) => Doing(t, c)) /\ (Doing(t, c)' => Stands(c)')
  BY <1>1, <1>3, <1>5, DoerStands DEF DoSteps
<1>7. PICK a : a = on[t]
  OBVIOUS
<1>8. \/ sw' = [sw EXCEPT ![a] = @ \cup {c}] /\ target' = [target EXCEPT ![c] = a] /\ corrupted' = corrupted
      \/ sw' = sw /\ target' = [target EXCEPT ![c] = a] /\ corrupted' = corrupted \cup {c}
      \/ sw' = sw /\ target' = target /\ corrupted' = corrupted \cup {c}
  BY <1>2, <1>7 DEF DoPending, Hook, HookFails, swVars
<1>9. /\ \A k \in Task : k # c => target'[k] = target[k] /\ (k \in corrupted' <=> k \in corrupted)
      /\ \A b \in Addr : sw[b] \subseteq sw'[b]
      /\ \/ target'[c] = a /\ corrupted' = corrupted /\ c \in sw'[a]
         \/ target'[c] \in {target[c], a} /\ c \in corrupted'
  <2>1. target = [k \in Task |-> target[k]] /\ DOMAIN sw = Addr
    BY DEF TaskInv, OwnInv, TaskTypes
  <2>2. a \in Addr
    BY <1>6, <1>7
  <2>3. \A k \in Task : k # c => target'[k] = target[k] /\ (k \in corrupted' <=> k \in corrupted)
    BY <1>8, <2>1
  <2> QED
    BY <1>5, <1>8, <2>1, <2>2, <2>3
<1>10. \A k : ~Flies(t, k) /\ ~Flies(t, k)' /\ (k # c => ~Does(t, k))
  BY <1>2, <1>3 DEF Flies, Does
<1>11. ASSUME NEW k \in ByName, k # c PROVE Keeps(k)
  <2>1. Up(k)' => loc[LibOf[k]] \in Addr
    BY <1>6, UpIsPlaced DEF Up
  <2>2. Up(k)' /\ k \in sw[loc[LibOf[k]]] => k \in sw'[loc[LibOf[k]]]
    BY <1>9, <2>1
  <2> QED
    BY <1>1, <1>3, <1>9, <1>10, <1>11, <2>2, AsideKeeps, TaskAssumption
<1>12. Done(c)'
  BY <1>3, <1>4 DEF Done, DoneSteps
<1>13. ~Done(c)
  <2>1. \A u \in Thread \ {t} : ~Does(u, c)
    BY <1>3, OneCollects DEF TaskInv, LinkJobs
  <2> QED
    BY <1>3, <1>5, <2>1 DEF Done, DoneSteps
<1>14. c \notin corrupted
  BY <1>13 DEF TaskInv, HookInv
<1>15. ASSUME Fresh(c), Stands(c) PROVE Stands(c)'
  <2>1. \A u \in Thread : ~Flies(u, c)
    BY <1>6, <1>15 DEF Doing
  <2>2. target[c] = NoAddr
    BY <1>13, <1>15, <2>1 DEF Fresh, Flies
  <2>3. Hit(c)'
    BY <1>6, <1>7, <1>9, <1>14, <2>2 DEF Hit, InSwitch
  <2>4. \A u \in Thread : ~Flies(u, c)'
    BY <1>1, <1>10, <2>1 DEF Moves, Flies
  <2> QED
    BY <1>6, <1>12, <2>3, <2>4 DEF Doing
<1>16. Fresh(c)'
  BY <1>12 DEF Fresh
<1>17. \A k : k \in work'[t] \/ Does(t, k)' => k \in work[t] \/ Does(t, k)
  BY <1>3, <1>4 DEF Does
<1> QED
  BY <1>1, <1>3, <1>11, <1>15, <1>16, <1>17, TaskEffect

LEMMA SetFinishedEffect ==
  ASSUME CallInv, CallInv', TaskInv, StoryInv, EffectInv, NEW t \in Thread, SetFinished(t)
  PROVE  EffectInv'
<1>1. StaysAt(t) /\ Moves(t)
  BY TaskStepStays DEF TaskStep, StaysAt
<1>2. PICK c : c = cur[t]
  OBVIOUS
<1>3. /\ job[t] = "dlopen" /\ job'[t] = "dlopen" /\ pc[t] = "finish" /\ pc'[t] = "callback" /\ cur'[t] = c
      /\ UNCHANGED <<tasks, corrupted, target, work, late, sw>> /\ finished' = finished \cup {c}
  <2>1. pc[t] = "finish" /\ Goto(t, "callback") /\ cur' = cur /\ UNCHANGED <<tasks, corrupted, target, work, late, sw>>
        /\ finished' = finished \cup {c}
    BY <1>2 DEF SetFinished, At, swVars
  <2>2. pc'[t] = "callback"
    BY <2>1 DEF Goto, CallInv, CallTypes
  <2> QED
    BY <1>2, <2>1, <2>2, SetFinishedOwn
<1>4. Does(t, c) /\ Does(t, c)'
  BY <1>2, <1>3 DEF Does, DoSteps
<1>5. c \in ByName /\ LibOf[c] = LibAt(t) /\ c \notin work[t]
  <2>1. c \notin work[t]
    BY <1>2, <1>3 DEF TaskInv, OwnInv, JobInv, DoSteps
  <2> QED
    BY <1>3, <1>4, <2>1 DEF EffectInv, DoesInv
<1>6. phase' = phase /\ loc' = loc /\ (Stands(c) => Doing(t, c)) /\ (Doing(t, c)' => Stands(c)')
  BY <1>1, <1>3, <1>5, DoerStands DEF DoSteps
<1>7. \A k : ~Flies(t, k) /\ ~Flies(t, k)' /\ (k # c => ~Does(t, k))
  BY <1>2, <1>3 DEF Flies, Does
<1>8. ASSUME NEW k \in ByName, k # c PROVE Keeps(k)
  BY <1>1, <1>3, <1>7, <1>8, AsideKeeps
<1>9. Fresh(c)' /\ Done(c)'
  BY <1>3 DEF Fresh, Done
<1>10. ASSUME Stands(c) PROVE Stands(c)'
  <2>1. Doing(t, c)
    BY <1>6, <1>10
  <2>2. c \in tasks => Hit(c)'
    BY <1>3, <1>5, <1>6, <2>1 DEF Doing, Hit, InSwitch, Up
  <2>3. \A u \in Thread : ~Flies(u, c)'
    BY <1>1, <1>7, <2>1 DEF Moves, Flies, Doing
  <2> QED
    BY <1>3, <1>6, <1>9, <2>2, <2>3 DEF Doing
<1>11. \A k : k \in work'[t] \/ Does(t, k)' => k \in work[t] \/ Does(t, k)
  BY <1>3, <1>4 DEF Does
<1> QED
  BY <1>1, <1>3, <1>8, <1>9, <1>10, <1>11, TaskEffect

LEMMA CallbackEffect ==
  ASSUME CallInv, CallInv', TaskInv, StoryInv, EffectInv, NEW t \in Thread, Callback(t)
  PROVE  EffectInv'
<1>1. StaysAt(t) /\ Moves(t)
  BY TaskStepStays DEF TaskStep, StaysAt
<1>2. /\ job[t] = "dlopen" /\ job'[t] = "dlopen" /\ pc[t] = "callback" /\ pc'[t] = "pending"
      /\ UNCHANGED <<tasks, finished, corrupted, target, work, late, sw>> /\ cur[t] \in finished
  <2>1. pc[t] = "callback" /\ Goto(t, "pending") /\ UNCHANGED <<tasks, finished, corrupted, target, work, late, sw>>
    BY DEF Callback, At, swVars
  <2>2. pc'[t] = "pending" /\ job[t] = "dlopen" /\ job'[t] = "dlopen"
    BY <2>1, CallbackOwn DEF Goto, CallInv, CallTypes
  <2> QED
    BY <2>1, <2>2 DEF TaskInv, OwnInv, JobInv, DoSteps
<1>3. \A u \in Thread \ {t} : pc'[u] = pc[u] /\ cur'[u] = cur[u] /\ job'[u] = job[u]
  BY <1>1 DEF Moves
<1>4. ASSUME NEW k PROVE Keeps(k)
  <2>1. \A u \in Thread : Flies(u, k)' => Flies(u, k) /\ pc'[u] = pc[u]
    BY <1>2, <1>3 DEF Flies
  <2>2. \A u \in Thread : pc[u] = "hook" /\ cur[u] = k => pc'[u] = "hook" /\ cur'[u] = k
    BY <1>2, <1>3
  <2>3. \A u \in Thread : Does(u, k) => (Does(u, k)' /\ pc'[u] = pc[u]) \/ (pc[u] = "callback" /\ k \in finished)
    BY <1>2, <1>3 DEF Does
  <2>4. Done(k) => Done(k)'
    BY <1>2, <2>3 DEF Done, DoneSteps
  <2> QED
    BY <1>2, <2>1, <2>2, <2>3, <2>4 DEF Keeps
<1>5. \A k : k \in work'[t] \/ Does(t, k)' => k \in work[t] \/ Does(t, k)
  BY <1>2 DEF Does, DoSteps
<1> QED
  BY <1>1, <1>2, <1>4, <1>5, TaskEffect

\* A task of another library than the one being loaded or closed.
LEMMA AsideStands ==
  ASSUME NEW k, Keeps(k), Stands(k), phase'[LibOf[k]] = phase[LibOf[k]], loc'[LibOf[k]] = loc[LibOf[k]],
         \A u \in Thread : ~Drives(u, LibOf[k])'
  PROVE  Stands(k)'
<1>1. Pends(k) => Pends(k)'
  BY KeepsAll
<1>2. Holds(k) => Holds(k)'
  BY KeepsPlaced DEF Up
<1> QED
  BY <1>1, <1>2 DEF Stands

LEMMA SweepEffect ==
  ASSUME CallInv, CallInv', TaskInv, StoryInv, EffectInv, NEW t \in Thread, Sweep(t)
  PROVE  EffectInv'
<1>1. StaysAt(t) /\ Moves(t)
  BY TaskStepStays DEF TaskStep, StaysAt
<1>2. /\ job[t] = "dlclose" /\ pc[t] = "sweep" /\ pc'[t] = "fini_post" /\ job'[t] = "dlclose"
      /\ UNCHANGED <<tasks, finished, corrupted, target, work, late, phase>> /\ sw' = [sw EXCEPT ![on[t]] = {}]
  <2>1. /\ pc[t] = "sweep" /\ Goto(t, "fini_post") /\ job' = job
        /\ UNCHANGED <<tasks, finished, corrupted, target, work, late, phase>> /\ sw' = [sw EXCEPT ![on[t]] = {}]
    BY DEF Sweep, At, taskVars, linkVars, libVars
  <2>2. pc'[t] = "fini_post" /\ job[t] = "dlclose"
    BY <2>1 DEF Goto, CallInv, CallTypes, Sound, JobAt, DtorSteps
  <2> QED
    BY <2>1, <2>2
<1>3. PICK l \in Lib : loc[l] = on[t] /\ phase[l] = "closing"
  <2>1. Closed(pc[t], job[t])
    BY <1>2 DEF Closed
  <2> QED
    BY <1>2, <2>1 DEF TaskInv, PlaceInv, LinkJobs
<1>4. \A k : ~Flies(t, k) /\ ~Flies(t, k)' /\ ~Does(t, k) /\ ~Does(t, k)'
  BY <1>2 DEF Flies, Does
<1>5. ASSUME NEW k \in ByName PROVE Keeps(k)
  <2>1. Up(k)' => loc[LibOf[k]] # on[t] /\ loc[LibOf[k]] \in Addr
    <3> SUFFICES ASSUME Up(k)'
                 PROVE  loc[LibOf[k]] # on[t] /\ loc[LibOf[k]] \in Addr
      OBVIOUS
    <3>1. LibOf[k] # l /\ LibOf[k] \in Lib /\ loc[LibOf[k]] \in Addr
      BY <1>2, <1>3, TaskAssumption, UpIsPlaced DEF Up
    <3> QED
      BY <1>3, <3>1, LinkerAssumption DEF TaskInv, PlaceInv
  <2>2. DOMAIN sw = Addr
    BY DEF TaskInv, OwnInv, TaskTypes
  <2>3. Up(k)' /\ k \in sw[loc[LibOf[k]]] => k \in sw'[loc[LibOf[k]]]
    BY <1>2, <2>1, <2>2
  <2> QED
    BY <1>1, <1>2, <1>4, <2>3, AsideKeeps
<1> QED
  BY <1>1, <1>2, <1>4, <1>5, TaskEffect

\* A task that a dlclose collected is pending again, if its library is the one that is closed; else nothing holds it.
LEMMA ResetEffect ==
  ASSUME CallInv, CallInv', TaskInv, StoryInv, EffectInv, NEW t \in Thread, Reset(t)
  PROVE  EffectInv'
<1>1. StaysAt(t) /\ Moves(t)
  BY TaskStepStays DEF TaskStep, StaysAt
<1>2. /\ job[t] = "dlclose" /\ job'[t] = "dlclose" /\ pc[t] = "reset" /\ pc'[t] = "reset"
      /\ UNCHANGED <<tasks, destroyed, sw, late, phase, loc, on, did>>
  <2>1. pc[t] = "reset" /\ UNCHANGED <<pc, job, tasks, destroyed, sw, late, phase, loc, on, did>>
    BY DEF Reset, At, swVars, linkVars, libVars, cbVars
  <2> QED
    BY <2>1 DEF CallInv, Sound, JobAt, DtorSteps
<1>3. PICK c \in work[t] :
        /\ work' = [work EXCEPT ![t] = @ \ {c}]
        /\ \/ c \in destroyed /\ UNCHANGED <<target, finished, corrupted>>
           \/ /\ c \notin destroyed /\ target' = [target EXCEPT ![c] = NoAddr]
              /\ finished' = finished \ {c} /\ corrupted' = corrupted \ {c}
  BY DEF Reset
<1>4. /\ c \in made /\ c \in Task /\ c \in finished /\ target[c] = on[t]
      /\ c \in tasks \/ Leaving(c) \/ c \in destroyed
  <2>1. WorkInv(t) /\ TaskTypes
    BY DEF TaskInv, OwnInv
  <2> QED
    BY <1>2, <2>1 DEF WorkInv, TaskTypes
<1>5. /\ work'[t] = work[t] \ {c} /\ \A u \in Thread \ {t} : work'[u] = work[u]
      /\ \A k \in Task : k # c => target'[k] = target[k]
      /\ c \notin destroyed => target'[c] = NoAddr
  <2>1. target = [k \in Task |-> target[k]] /\ work \in [Thread -> SUBSET made]
    BY DEF TaskInv, OwnInv, TaskTypes
  <2> QED
    BY <1>3, <1>4, <2>1
<1>6. \A k : ~Flies(t, k) /\ ~Flies(t, k)' /\ ~Does(t, k) /\ ~Does(t, k)'
  BY <1>2 DEF Flies, Does
<1>7. ASSUME NEW k \in ByName, k # c PROVE Keeps(k)
  BY <1>1, <1>2, <1>3, <1>5, <1>6, <1>7, AsideKeeps, TaskAssumption
<1>8. ASSUME Misses(c), Fresh(c) PROVE Stands(c)'
  <2>1. Misses(c)'
    BY <1>1, <1>2, <1>6, <1>8 DEF Misses, Moves, Flies
  <2> QED
    BY <2>1, GoneStands
<1>9. ASSUME c \in destroyed \/ Leaving(c) PROVE Misses(c)
  BY <1>9, GivenUp DEF TaskInv, Leaving
<1>10. ASSUME c \in destroyed, Fresh(c) PROVE Fresh(c)'
  BY <1>1, <1>3, <1>6, <1>10, FreshStays
<1>11. ASSUME c \notin destroyed PROVE Fresh(c)'
  BY <1>5, <1>11 DEF Fresh
<1>12. ASSUME c \in ByName \ destroyed, c \in tasks, Stands(c) PROVE Stands(c)'
  <2>1. PICK l \in Lib : l = LibAt(t) /\ loc[l] = on[t] /\ phase[l] = "closing" /\ on[t] \in Addr /\ did[t]
    <3>1. PICK l : l = LibAt(t)
      OBVIOUS
    <3>2. l \in Lib /\ loc[l] = on[t] /\ on[t] \in Addr /\ PhaseAt(t)
      BY <1>2, <3>1, DriverKnows DEF LinkJobs
    <3>3. phase[l] = "closing"
      <4>1. Closed(pc[t], job[t])
        BY <1>2 DEF Closed
      <4>2. PICK m \in Lib : loc[m] = on[t] /\ phase[m] = "closing"
        BY <1>2, <4>1 DEF TaskInv, PlaceInv, LinkJobs
      <4> QED
        BY <3>2, <4>2, LinkerAssumption DEF TaskInv, PlaceInv
    <3>4. PostAt(pc[t])
      BY <1>2 DEF PostAt, PostSteps
    <3>5. did[t]
      BY <3>2, <3>4 DEF PhaseAt
    <3> QED
      BY <3>1, <3>2, <3>3, <3>5
  <2>2. LibOf[c] \in Lib
    BY <1>12, TaskAssumption
  <2>3. Drives(t, l) /\ \A u \in Thread : \A m \in Lib : Drives(u, m)' => u = t /\ m = l
    <3>1. \A u \in Thread \ {t} : job[u] \notin LinkJobs
      BY <1>2, AloneInLinker DEF LinkJobs
    <3>2. \A u \in Thread \ {t} : job'[u] \notin LinkJobs
      BY <1>1, <3>1 DEF Moves
    <3>3. \A m \in Lib : loc[m] = on[t] => m = l
      BY <2>1, LinkerAssumption DEF TaskInv, PlaceInv
    <3> QED
      BY <1>2, <2>1, <3>2, <3>3 DEF Drives, LinkJobs
  <2>4. ~Unswept(t) /\ ~Unswept(t)'
    BY <1>2 DEF Unswept, Ahead
  <2>5. CASE LibOf[c] = l
    <3>1. \A u \in Thread : ~Flies(u, c)
      BY <1>2, <1>12, <2>1, <2>3, <2>4, <2>5 DEF Stands, StandsAt, Resets
    <3>2. \A u \in Thread : ~Flies(u, c)'
      BY <1>1, <1>6, <3>1 DEF Moves, Flies
    <3>3. Blank(c)'
      BY <1>3, <1>5, <1>12 DEF Blank
    <3>4. Resets(t, c)'
      BY <3>2, <3>3 DEF Resets
    <3> QED
      BY <1>2, <2>1, <2>2, <2>3, <2>4, <2>5, <3>4 DEF Stands, StandsAt
  <2>6. CASE LibOf[c] # l
    <3>1. loc[LibOf[c]] # on[t] /\ on[t] # NoAddr
      BY <2>1, <2>2, <2>6, LinkerAssumption DEF TaskInv, PlaceInv
    <3>2. ~Holds(c) /\ ~Pends(c)
      BY <1>4, <1>12, <3>1 DEF Holds, Hit, Pends, Blank
    <3>3. phase[LibOf[c]] \notin {"in", "out"}
      BY <1>12, <3>2 DEF Stands
    <3> QED
      BY <1>2, <2>2, <2>3, <2>6, <3>3 DEF Stands
  <2> QED
    BY <2>5, <2>6
<1>13. \A k \in ByName : Fresh(k) => Keeps(k) \/ (Fresh(k)' /\ (k \notin late /\ Stands(k) => Stands(k)'))
  BY <1>4, <1>7, <1>8, <1>9, <1>10, <1>11, <1>12
<1> QED
  BY <1>1, <1>2, <1>5, <1>6, <1>13, TaskEffect

\* Where the tasks' callback begins, it is the one the walk has come to.
LEMMA TaskAhead ==
  ASSUME CallInv, TaskInv, StoryInv, NEW t \in Thread, pc[t] \in {"init_pre", "sweep", "fini_post"}
  PROVE  Ahead(t)
<1>1. (pc[t] = "init_pre" /\ job[t] = "dlopen") \/ (pc[t] \in {"sweep", "fini_post"} /\ job[t] = "dlclose")
  BY DEF CallInv, Sound, JobAt, CtorSteps, DtorSteps
<1>2. (job[t] = "dlopen" /\ pc[t] \in PreSteps) \/ pc[t] \in PostSteps
  BY <1>1 DEF PreSteps, PostSteps
<1>3. Head(rest[t]) = TASK
  <2>1. PhaseAt(t)
    BY <1>1 DEF StoryInv, PhaseInv, LinkJobs
  <2> QED
    BY <1>2, <2>1 DEF PhaseAt
<1>4. InCallback(pc[t], job[t])
  <2>1. CASE pc[t] = "init_pre"
    BY <2>1 DEF InCallback, WalksAt, CtorSteps, DtorSteps
  <2>2. CASE pc[t] = "sweep"
    BY <2>2 DEF InCallback, WalksAt, CtorSteps, DtorSteps
  <2>3. CASE pc[t] = "fini_post"
    BY <2>3 DEF InCallback, WalksAt, CtorSteps, DtorSteps
  <2> QED
    BY <2>1, <2>2, <2>3
<1>5. rest[t] \in Seq(Callbacks) /\ rest[t] # <<>>
  BY <1>4 DEF CallInv, CallTypes, Sound
<1>6. Contains(rest[t], TASK)
  BY <1>3, <1>5, HeadFirst DEF Contains
<1>7. Left(t) = rest[t]
  BY <1>2, LeftIs
<1> QED
  BY <1>1, <1>6, <1>7 DEF Ahead, DoSteps

\* Collecting changes no task.
LEMMA CollectKeepsAll ==
  ASSUME NEW t \in Thread, Moves(t), pc[t] \in {"init_pre", "fini_post"}, pc'[t] \in {"pending", "reset"}, work[t] = {},
         UNCHANGED <<tasks, finished, corrupted, target, sw, phase>>, \A u \in Thread \ {t} : work'[u] = work[u],
         NEW k
  PROVE  Keeps(k)
<1>1. ~Flies(t, k) /\ ~Flies(t, k)' /\ ~Does(t, k)
  BY DEF Flies, Does, DoSteps
<1> QED
  BY <1>1, AsideKeeps

LEMMA InitPreEffect ==
  ASSUME CallInv, CallInv', TaskInv, StoryInv, EffectInv, NEW t \in Thread, InitPre(t)
  PROVE  EffectInv'
<1>1. StaysAt(t) /\ Moves(t)
  BY TaskStepStays DEF TaskStep, StaysAt
<1>2. PICK l : l = LibAt(t)
  OBVIOUS
<1>3. /\ job[t] = "dlopen" /\ job'[t] = "dlopen" /\ pc[t] = "init_pre" /\ pc'[t] = "pending"
      /\ UNCHANGED <<made, tasks, finished, corrupted, target, cnt, sw, phase, loc, on>>
  <2>1. UNCHANGED <<made, tasks, finished, corrupted, target, cnt, sw, phase, loc, on>> /\ pc[t] = "init_pre"
    BY DEF InitPre, At, taskVars, swVars, linkVars, libVars
  <2> QED
    BY <2>1, CollectOwn
<1>4. PICK found : /\ found = IF cnt > 0 THEN Pending(l) ELSE {}
                   /\ work' = [work EXCEPT ![t] = found] /\ late' = (late \ found) \cup InFlight(l)
  BY <1>2 DEF InitPre
<1>5. /\ work'[t] = found /\ \A u \in Thread \ {t} : work'[u] = work[u]
      /\ work[t] = {}
  <2>1. work \in [Thread -> SUBSET made] /\ WorkInv(t)
    BY DEF TaskInv, OwnInv, TaskTypes
  <2> QED
    BY <1>3, <1>4, <2>1 DEF WorkInv, DoSteps
<1>6. \A k : Keeps(k)
  BY <1>1, <1>3, <1>5, CollectKeepsAll
<1>7. l \in Lib /\ loc[l] = on[t] /\ phase[l] = "new" /\ on[t] # NoAddr
  <2>1. l \in Lib /\ loc[l] = on[t] /\ on[t] \in Addr /\ PhaseAt(t)
    BY <1>2, <1>3, DriverKnows DEF LinkJobs
  <2>2. PreAt(pc[t], job[t])
    BY <1>3, Stages DEF LinkJobs, PreSteps
  <2> QED
    BY <1>2, <1>3, <2>1, <2>2, LinkerAssumption DEF PhaseAt
<1>8. Drives(t, l) /\ \A u \in Thread : \A m \in Lib : Drives(u, m)' => u = t /\ m = l
  <2>1. \A u \in Thread \ {t} : job[u] \notin LinkJobs
    BY <1>3, AloneInLinker DEF LinkJobs
  <2>2. \A u \in Thread \ {t} : job'[u] \notin LinkJobs
    BY <1>1, <2>1 DEF Moves
  <2>3. \A m \in Lib : loc[m] = on[t] => m = l
    BY <1>7 DEF TaskInv, PlaceInv
  <2> QED
    BY <1>3, <1>7, <2>2, <2>3 DEF Drives, LinkJobs
<1>9. Early(t) /\ ~Early(t)'
  <2>1. Ahead(t) /\ ~Ahead(t)'
    BY <1>3, TaskAhead DEF Ahead
  <2>2. PreAt(pc[t], job[t])
    BY <1>3, Stages DEF LinkJobs, PreSteps
  <2> QED
    BY <1>3, <2>1, <2>2 DEF Early
<1>10. DoesInv'
  <2> SUFFICES ASSUME NEW u \in Thread, job'[u] = "dlopen", NEW k, k \in work'[u] \/ Does(u, k)'
               PROVE  k \in ByName /\ LibOf[k] = LibAt(u)'
    BY DEF DoesInv
  <2>1. u = t
    BY <1>1, <1>3, AloneInLinker DEF Moves, LinkJobs
  <2>2. k \in found
    BY <1>3, <1>5, <2>1 DEF Does, DoSteps
  <2>3. LibAt(t)' = l
    BY <1>2, <1>3 DEF LibAt
  <2> QED
    BY <1>4, <2>1, <2>2, <2>3 DEF Pending
<1>11. ASSUME NEW k \in ByName PROVE Fresh(k)'
  BY <1>6, KeepsAll DEF EffectInv
<1>12. ASSUME NEW k \in ByName \ late', LibOf[k] # l PROVE Stands(k)'
  <2>1. LibOf[k] \in Lib
    BY TaskAssumption
  <2>2. k \notin found
    BY <1>4, <1>12 DEF Pending
  <2>3. Stands(k)
    BY <1>4, <2>2 DEF EffectInv
  <2> QED
    BY <1>3, <1>6, <1>8, <1>12, <2>1, <2>3, AsideStands
<1>13. ASSUME NEW k \in ByName \ late', LibOf[k] = l PROVE Stands(k)'
  <2>1. \A u \in Thread : ~Flies(u, k)
    BY <1>4, <1>13 DEF InFlight, Flies
  <2>2. \A u \in Thread : ~Flies(u, k)'
    BY <1>6, <2>1 DEF Keeps
  <2>3. ASSUME k \in tasks', k \notin found PROVE Done(k)' /\ Hit(k)'
    <3>1. k \notin late /\ k \in tasks
      BY <1>3, <1>4, <2>3
    <3>2. Pends(k)
      BY <1>7, <1>8, <1>9, <1>13, <3>1 DEF EffectInv, Stands, StandsAt
    <3>3. target[k] = NoAddr /\ (k \in finished => k \in corrupted)
      BY <3>1, <3>2 DEF Pends, Blank
    <3>4. cnt > 0 \/ k \in corrupted
      <4> SUFFICES ASSUME k \notin corrupted
                   PROVE  cnt > 0
        OBVIOUS
      <4>1. Unfinished(k) /\ k \in made
        BY <3>1, <3>3 DEF Unfinished, TaskInv, OwnInv, TaskTypes
      <4> DEFINE S == {j \in made : Unfinished(j)}
      <4>2. IsFiniteSet(S) /\ S # {}
        BY <4>1, FS_Subset DEF TaskInv, OwnInv, TaskTypes
      <4>3. cnt = Cardinality(S)
        BY DEF TaskInv, UnfinishedInv
      <4> HIDE DEF S
      <4>4. Cardinality(S) \in Nat /\ Cardinality(S) # 0
        BY <4>2, FS_CardinalityType, FS_EmptySet
      <4> QED
        BY <4>3, <4>4
    <3>5. k \in corrupted
      BY <1>4, <1>13, <2>3, <3>1, <3>3, <3>4 DEF Pending
    <3>6. Done(k) /\ Hit(k)
      BY <3>3, <3>5 DEF TaskInv, HookInv, Hit
    <3> QED
      BY <1>3, <1>6, <3>6 DEF Keeps, Hit, InSwitch, Up
  <2>4. Doing(t, k)'
    BY <1>5, <2>2, <2>3 DEF Doing
  <2> QED
    BY <1>3, <1>7, <1>8, <1>9, <1>13, <2>4 DEF Stands, StandsAt
<1> QED
  BY <1>10, <1>11, <1>12, <1>13 DEF EffectInv

LEMMA FiniPostEffect ==
  ASSUME CallInv, CallInv', TaskInv, StoryInv, EffectInv, NEW t \in Thread, FiniPost(t)
  PROVE  EffectInv'
<1>1. StaysAt(t) /\ Moves(t)
  BY TaskStepStays DEF TaskStep, StaysAt
<1>2. PICK l : l = LibAt(t)
  OBVIOUS
<1>3. /\ job[t] = "dlclose" /\ job'[t] = "dlclose" /\ pc[t] = "fini_post" /\ pc'[t] = "reset"
      /\ UNCHANGED <<tasks, finished, corrupted, target, sw, phase, loc, on, did>>
  <2>1. UNCHANGED <<tasks, finished, corrupted, target, sw, phase, loc, on, did>> /\ pc[t] = "fini_post"
    BY DEF FiniPost, At, taskVars, swVars, linkVars, libVars, cbVars
  <2> QED
    BY <2>1, CollectOwn
<1>4. PICK found : /\ found = {k \in tasks \cap finished \cap ByName : target[k] = on[t]}
                   /\ work' = [work EXCEPT ![t] = found] /\ late' = late \cup InFlight(l)
  BY <1>2 DEF FiniPost
<1>5. /\ work'[t] = found /\ \A u \in Thread \ {t} : work'[u] = work[u]
      /\ work[t] = {}
  <2>1. work \in [Thread -> SUBSET made] /\ WorkInv(t)
    BY DEF TaskInv, OwnInv, TaskTypes
  <2> QED
    BY <1>3, <1>4, <2>1 DEF WorkInv, DoSteps
<1>6. \A k : Keeps(k)
  BY <1>1, <1>3, <1>5, CollectKeepsAll
<1>7. l \in Lib /\ loc[l] = on[t] /\ phase[l] = "closing" /\ on[t] # NoAddr /\ did[t] /\ PostAt(pc[t])
  <2>1. l \in Lib /\ loc[l] = on[t] /\ on[t] \in Addr /\ PhaseAt(t)
    BY <1>2, <1>3, DriverKnows DEF LinkJobs
  <2>2. PostAt(pc[t])
    BY <1>3, Stages DEF LinkJobs, PostSteps
  <2>3. phase[l] = "closing"
    <3>1. Closed(pc[t], job[t])
      BY <1>3 DEF Closed
    <3>2. PICK m \in Lib : loc[m] = on[t] /\ phase[m] = "closing"
      BY <1>3, <3>1 DEF TaskInv, PlaceInv, LinkJobs
    <3> QED
      BY <2>1, <3>2, LinkerAssumption DEF TaskInv, PlaceInv
  <2> QED
    BY <2>1, <2>2, <2>3, LinkerAssumption DEF PhaseAt
<1>8. Drives(t, l) /\ \A u \in Thread : \A m \in Lib : Drives(u, m)' => u = t /\ m = l
  <2>1. \A u \in Thread \ {t} : job[u] \notin LinkJobs
    BY <1>3, AloneInLinker DEF LinkJobs
  <2>2. \A u \in Thread \ {t} : job'[u] \notin LinkJobs
    BY <1>1, <2>1 DEF Moves
  <2>3. \A m \in Lib : loc[m] = on[t] => m = l
    BY <1>7 DEF TaskInv, PlaceInv
  <2> QED
    BY <1>3, <1>7, <2>2, <2>3 DEF Drives, LinkJobs
<1>9. Unswept(t) /\ ~Unswept(t)'
  <2>1. Ahead(t) /\ ~Ahead(t)'
    BY <1>3, TaskAhead DEF Ahead
  <2> QED
    BY <1>3, <1>7, <2>1 DEF Unswept
<1>10. DoesInv'
  <2>1. \A u \in Thread : job'[u] # "dlopen"
    BY <1>1, <1>3, AloneInLinker DEF Moves, LinkJobs
  <2> QED
    BY <2>1 DEF DoesInv
<1>11. ASSUME NEW k \in ByName PROVE Fresh(k)'
  BY <1>6, KeepsAll DEF EffectInv
<1>12. ASSUME NEW k \in ByName \ late', LibOf[k] # l PROVE Stands(k)'
  <2>1. LibOf[k] \in Lib /\ Stands(k)
    BY <1>4, TaskAssumption DEF EffectInv
  <2> QED
    BY <1>3, <1>6, <1>8, <1>12, <2>1, AsideStands
<1>13. ASSUME NEW k \in ByName \ late', LibOf[k] = l PROVE Stands(k)'
  <2>1. \A u \in Thread : ~Flies(u, k)
    BY <1>4, <1>13 DEF InFlight, Flies
  <2>2. \A u \in Thread : ~Flies(u, k)'
    BY <1>6, <2>1 DEF Keeps
  <2>3. Holds(k)
    <3>1. Stands(k)
      BY <1>4 DEF EffectInv
    <3> QED
      BY <1>7, <1>8, <1>9, <1>13, <3>1 DEF Stands, StandsAt
  <2>4. ASSUME k \in tasks', k \notin found PROVE Blank(k)'
    <3>1. k \in finished /\ target[k] # on[t] /\ k \in tasks
      BY <1>3, <1>4, <2>3, <2>4 DEF Holds
    <3>2. k \in corrupted /\ target[k] = NoAddr
      BY <1>7, <1>13, <2>3, <3>1 DEF Holds, Hit
    <3> QED
      BY <1>3, <3>2 DEF Blank
  <2>5. Resets(t, k)'
    BY <1>5, <2>2, <2>4 DEF Resets
  <2> QED
    BY <1>3, <1>7, <1>8, <1>9, <1>13, <2>5 DEF Stands, StandsAt
<1> QED
  BY <1>10, <1>11, <1>12, <1>13 DEF EffectInv

LEMMA TaskStepEffect ==
  ASSUME AloneUnique, CallInv, CallInv', TaskInv, StoryInv, EffectInv, NEW t \in Thread, TaskStep(t)
  PROVE  EffectInv'
BY CallEffect, LookupEffect, HookEffect, RecordEffect, UndoEffect, UndoDestroyEffect, InitPreEffect, TakePendingEffect,
   DoPendingEffect, SetFinishedEffect, CallbackEffect, SweepEffect, FiniPostEffect, ResetEffect DEF TaskStep

-----------------------------------------------------------------------------
(* The linker's steps: a load and a close                                  *)

\* They keep every task.
LEMMA LinkKeeps ==
  ASSUME CallInv, CallInv', NEW t \in Thread, Elsewhere(t), UNCHANGED <<tasks, finished, corrupted, target, sw, work>>
  PROVE  \A k : Keeps(k) /\ ~Does(t, k) /\ ~Does(t, k)'
<1> TAKE k
<1>1. Moves(t) /\ ~TaskAt(pc[t], job[t]) /\ ~TaskAt(pc'[t], job'[t])
  BY DEF Elsewhere
<1>2. JobAt(pc[t], job[t]) /\ JobAt(pc'[t], job'[t])
  BY DEF CallInv, Sound
<1>3. ~Flies(t, k) /\ ~Flies(t, k)' /\ ~Does(t, k) /\ ~Does(t, k)'
  BY <1>1, <1>2 DEF Flies, Does, TaskAt, JobAt
<1> QED
  BY <1>1, <1>3, AsideKeeps

\* Steps that take no load or close further.
LEMMA StaysEffect ==
  ASSUME CallInv, CallInv', TaskInv, StoryInv, EffectInv, NEW t \in Thread, StaysAt(t), Elsewhere(t), UNCHANGED ownVars,
         pc[t] \notin PreSteps \cup PostSteps
  PROVE  EffectInv'
<1>1. UNCHANGED <<tasks, finished, corrupted, target, sw, work, late>>
  BY DEF ownVars, taskVars, swVars
<1>2. \A k : Keeps(k) /\ ~Does(t, k)'
  BY <1>1, LinkKeeps
<1>3. JobAt(pc'[t], job'[t])
  BY DEF CallInv, Sound
<1>4. pc[t] \notin {"init_pre", "fini_post", "reset"} /\ pc'[t] \notin {"init_pre", "reset"}
  <2>1. (job'[t] \notin LinkJobs) \/ CtorsAt(pc'[t])
    BY DEF StaysAt
  <2> QED
    BY <1>3, <2>1 DEF JobAt, CtorSteps, DtorSteps, LinkJobs, PreSteps, PostSteps, CtorsAt, InitSteps
<1> QED
  BY <1>1, <1>2, <1>4, TaskEffect

LEMMA QuietEffect ==
  ASSUME CallInv, CallInv', TaskInv, StoryInv, EffectInv, NEW t \in Thread, UNCHANGED ownVars,
         \/ InitAction(t) \/ CallInit(t) \/ DoRegister(t) \/ DoUnregister(t)
         \/ \E u \in Cb, x \in {"init", "fini"}, act \in {"register", "unregister"} : CallRegister(t, act, x, u)
  PROVE  EffectInv'
<1>1. Elsewhere(t)
  BY InitStep, CallInitStep, RegisterSteps DEF LinkerStepOf, TaskInv
<1>2. StaysAt(t) /\ pc[t] \in InitSteps \cup {"idle", "ctors", "register", "unregister"}
  BY InitActionStays, CallStays, RegisteredStays
<1>3. pc[t] \notin PreSteps \cup PostSteps
  BY <1>2 DEF InitSteps, PreSteps, PostSteps, DoSteps
<1> QED
  BY <1>1, <1>2, <1>3, StaysEffect

LEMMA StutterEffect ==
  ASSUME EffectInv, UNCHANGED <<phase, loc, did, rest, threadVars, ownVars>>
  PROVE  EffectInv'
<1> USE DEF threadVars, ownVars, taskVars, swVars
<1>1. \A k : Keeps(k)
  BY DEF Keeps, Flies, Does, Done, Up
<1>2. \A t \in Thread : (Early(t)' <=> Early(t)) /\ (Unswept(t)' <=> Unswept(t))
  BY DEF Early, Unswept, Ahead, Left
<1>3. DoesInv'
  BY DEF EffectInv, DoesInv, Does, LibAt
<1>4. ASSUME NEW k \in ByName PROVE Fresh(k)'
  BY <1>1, KeepsAll DEF EffectInv
<1>5. ASSUME NEW k \in ByName \ late PROVE Stands(k)'
  <2>1. /\ Pends(k)' <=> Pends(k)
        /\ Holds(k)' <=> Holds(k)
        /\ Misses(k)' <=> Misses(k)
    BY DEF Pends, Holds, Misses, Blank, Hit, InSwitch, Up, Flies
  <2>2. \A t \in Thread : (Doing(t, k)' <=> Doing(t, k)) /\ (Resets(t, k)' <=> Resets(t, k))
    BY DEF Doing, Resets, Blank, Hit, InSwitch, Up, Flies, Does, Done
  <2>3. \A t \in Thread : (Drives(t, LibOf[k])' <=> Drives(t, LibOf[k])) /\ (StandsAt(t, k)' <=> StandsAt(t, k))
    BY <1>2, <2>1, <2>2 DEF StandsAt, Drives
  <2> QED
    BY <2>1, <2>3 DEF EffectInv, Stands
<1> QED
  BY <1>3, <1>4, <1>5 DEF EffectInv

\* What a step of the one in the linker has to show: the tasks of its library; the others are kept.
LEMMA DriverEffect ==
  ASSUME CallInv, CallInv', TaskInv, EffectInv, NEW t \in Thread, Elsewhere(t), work[t] = {}, NEW l \in Lib,
         UNCHANGED <<tasks, finished, corrupted, target, sw, work, late>>,
         \A m \in Lib \ {l} : phase'[m] = phase[m] /\ loc'[m] = loc[m],
         \A u \in Thread \ {t} : job[u] \notin LinkJobs,
         \A m \in Lib \ {l} : ~Drives(t, m)',
         \A k \in ByName \ late : Keeps(k) /\ LibOf[k] = l /\ Stands(k) => Stands(k)'
  PROVE  EffectInv'
<1>1. \A k : Keeps(k) /\ ~Does(t, k)'
  BY LinkKeeps
<1>2. \A u \in Thread \ {t} : job'[u] \notin LinkJobs
  BY DEF Elsewhere, Moves
<1>3. DoesInv'
  BY <1>1, <1>2 DEF DoesInv, LinkJobs
<1>4. ASSUME NEW k \in ByName PROVE Fresh(k)'
  BY <1>1, KeepsAll DEF EffectInv
<1>5. ASSUME NEW k \in ByName \ late, LibOf[k] # l PROVE Stands(k)'
  <2>1. LibOf[k] \in Lib /\ Stands(k)
    BY TaskAssumption DEF EffectInv
  <2>2. \A u \in Thread : ~Drives(u, LibOf[k])'
    BY <1>2, <1>5, <2>1 DEF Drives
  <2> QED
    BY <1>1, <1>5, <2>1, <2>2, AsideStands
<1>6. ASSUME NEW k \in ByName \ late PROVE Stands(k)'
  BY <1>1, <1>5, <1>6 DEF EffectInv
<1> QED
  BY <1>3, <1>4, <1>6 DEF EffectInv

LEMMA DriverStands ==
  ASSUME CallInv, CallInv', TaskInv, EffectInv, NEW t \in Thread, Elsewhere(t), work[t] = {},
         job[t] \in LinkJobs, UNCHANGED <<loc, on, tasks, finished, corrupted, target, sw, work, late>>,
         NEW l, l = LibAt(t),
         \A m \in Lib \ {l} : phase'[m] = phase[m], phase'[l] # "out",
         \A k \in ByName \ late :
           Keeps(k) /\ LibOf[k] = l /\ (phase[l] = "in" => Holds(k)) /\ StandsAt(t, k) =>
             (phase'[l] = "in" => Holds(k)') /\ (job'[t] \in LinkJobs => StandsAt(t, k)')
  PROVE  EffectInv'
<1>1. l \in Lib /\ loc[l] = on[t] /\ \A m \in Lib : loc[m] = on[t] => m = l
  BY LibAtIs DEF TaskInv
<1>2. \A u \in Thread \ {t} : job[u] \notin LinkJobs /\ job'[u] \notin LinkJobs
  BY AloneInLinker DEF Elsewhere, Moves
<1>3. \A m \in Lib \ {l} : ~Drives(t, m)'
  BY <1>1 DEF Drives
<1>4. ASSUME NEW k \in ByName \ late, Keeps(k), LibOf[k] = l, Stands(k) PROVE Stands(k)'
  <2>1. StandsAt(t, k) /\ (phase[l] = "in" => Holds(k))
    BY <1>1, <1>4 DEF Stands, Drives
  <2>2. \A u \in Thread : Drives(u, l)' => u = t /\ job'[t] \in LinkJobs
    BY <1>2 DEF Drives
  <2> QED
    BY <1>4, <2>1, <2>2 DEF Stands
<1> QED
  BY <1>1, <1>2, <1>3, <1>4, DriverEffect

\* A step of a walk that takes it no further, as far as the tasks' callback is concerned.
LEMMA WalkEffect ==
  ASSUME CallInv, CallInv', TaskInv, StoryInv, EffectInv, NEW t \in Thread, Elsewhere(t), work[t] = {},
         job[t] \in LinkJobs, UNCHANGED <<phase, loc, on, did, job, ownVars>>,
         Early(t)' <=> Early(t), Unswept(t)' <=> Unswept(t), pc'[t] = "dtors" => did[t]
  PROVE  EffectInv'
<1>1. PICK l : l = LibAt(t)
  OBVIOUS
<1>2. l \in Lib /\ phase[l] # "out" /\ UNCHANGED <<tasks, finished, corrupted, target, sw, work, late>>
  BY <1>1, LibAtIs DEF TaskInv, ownVars, taskVars, swVars
<1>3. ASSUME NEW k, Keeps(k), LibOf[k] = l, phase[l] = "in" => Holds(k), StandsAt(t, k)
      PROVE  (phase'[l] = "in" => Holds(k)') /\ StandsAt(t, k)'
  <2>1. /\ Pends(k) => Pends(k)'
        /\ Misses(k) => Misses(k)'
        /\ job[t] = "dlclose" /\ Resets(t, k) => Resets(t, k)'
    BY <1>3, KeepsAll
  <2>2. (Holds(k) => Holds(k)') /\ (Doing(t, k) => Doing(t, k)')
    BY <1>3, KeepsPlaced DEF Up
  <2> QED
    BY <1>3, <2>1, <2>2 DEF StandsAt
<1> QED
  BY <1>1, <1>2, <1>3, DriverStands

LEMMA UserEffect ==
  ASSUME CallInv, CallInv', TaskInv, StoryInv, EffectInv, NEW t \in Thread, CallUser(t) \/ UserReturns(t), UNCHANGED ownVars
  PROVE  EffectInv'
<1>1. Elsewhere(t) /\ work[t] = {}
  BY WalkStep DEF LinkerStepOf, TaskInv
<1>2. /\ UNCHANGED <<phase, loc, on, did, job>>
      /\ \/ pc[t] = "pre" /\ Goto(t, "in pre")
         \/ pc[t] = "post" /\ Goto(t, "in post")
         \/ pc[t] = "in pre" /\ Goto(t, "pre")
         \/ pc[t] = "in post" /\ Goto(t, "post")
  BY DEF CallUser, UserReturns, Passed, libVars
<1>3. /\ job[t] \in LinkJobs /\ rest \in [Thread -> Seq(Callbacks)] /\ Once(rest[t])
      /\ pc \in [Thread -> Steps]
  BY <1>2 DEF CallInv, CallTypes, Sound, JobAt, WalkSteps, LinkJobs, StoryInv, OnceInv
<1>4. Contains(Left(t)', TASK) <=> Contains(Left(t), TASK)
  <2>1. CASE CallUser(t)
    <3>1. rest[t] # <<>> /\ Head(rest[t]) \in Cb /\ rest' = rest /\ pc[t] \in {"pre", "post"}
      BY <2>1 DEF CallUser
    <3>2. Left(t) = rest[t] /\ Left(t)' = Tail(rest[t])
      <4>1. pc'[t] \in {"in pre", "in post"}
        BY <1>2, <1>3, <2>1 DEF CallUser, Goto
      <4> QED
        BY <3>1, <4>1, LeftIs DEF Left
    <3> QED
      BY <1>3, <3>1, <3>2, OnceTail, LinkerAssumption
  <2>2. CASE UserReturns(t)
    <3>1. rest' = [rest EXCEPT ![t] = Tail(rest[t])] /\ pc[t] \in {"in pre", "in post"}
      BY <2>2 DEF UserReturns, Passed
    <3>2. pc'[t] \in {"pre", "post"}
      BY <1>2, <1>3, <2>2 DEF UserReturns, Passed, Goto
    <3>3. Left(t) = Tail(rest[t]) /\ Left(t)' = rest'[t]
      BY <3>1, <3>2 DEF Left
    <3>4. rest'[t] = Tail(rest[t])
      BY <1>3, <3>1
    <3> QED
      BY <3>3, <3>4
  <2> QED
    BY <2>1, <2>2
<1>5. /\ (PreAt(pc'[t], job'[t]) <=> PreAt(pc[t], job[t])) /\ (PostAt(pc'[t]) <=> PostAt(pc[t]))
      /\ {pc[t], pc'[t]} \cap ({"pending", "reset", "enter_ctors", "dtors"} \cup DoSteps) = {}
  <2>1. \/ pc[t] = "pre" /\ pc'[t] = "in pre"
        \/ pc[t] = "post" /\ pc'[t] = "in post"
        \/ pc[t] = "in pre" /\ pc'[t] = "pre"
        \/ pc[t] = "in post" /\ pc'[t] = "post"
    BY <1>2, <1>3 DEF Goto
  <2>2. /\ PreAt("pre", job[t]) /\ ~PostAt("pre")
        /\ PostAt("post") /\ ~PreAt("post", job[t])
        /\ PreAt("in pre", job[t]) /\ ~PostAt("in pre")
        /\ PostAt("in post") /\ ~PreAt("in post", job[t])
        /\ {"pre", "post"} \cap ({"pending", "reset", "enter_ctors", "dtors"} \cup DoSteps) = {}
        /\ {"in pre", "in post"} \cap ({"pending", "reset", "enter_ctors", "dtors"} \cup DoSteps) = {}
    <3>1. /\ PreAt("pre", job[t]) /\ ~PostAt("pre")
          /\ PostAt("post") /\ ~PreAt("post", job[t])
          /\ {"pre", "post"} \cap ({"pending", "reset", "enter_ctors", "dtors"} \cup DoSteps) = {}
      BY <1>3, Stages DEF DoSteps
    <3>2. {"in pre", "in post"} \cap ({"pending", "reset", "enter_ctors", "dtors"} \cup DoSteps) = {}
      BY DEF DoSteps
    <3> QED
      BY <1>3, <3>1, <3>2, UserStages
  <2> QED
    BY <1>2, <2>1, <2>2
<1> QED
  BY <1>1, <1>2, <1>3, <1>4, <1>5, WalkEffect DEF Early, Unswept, Ahead

LEMMA TaskPassedEffect ==
  ASSUME CallInv, CallInv', TaskInv, StoryInv, EffectInv, NEW t \in Thread, CallTask(t) \/ CallbackReturns(t), UNCHANGED ownVars
  PROVE  EffectInv'
<1>1. Elsewhere(t) /\ work[t] = {}
  BY WalkStep, CallbackReturnsStep DEF LinkerStepOf, TaskInv
<1>2. UNCHANGED <<phase, loc, on, did, job>>
  BY DEF CallTask, CallbackReturns, TaskReturns, libVars
<1>3. JobAt(pc[t], job[t])
  BY DEF CallInv, Sound
<1>4. PICK s \in {"pre", "post", "init_pre", "sweep"} :
        /\ Goto(t, s)
        /\ \/ s = "pre" /\ pc[t] = "pre" /\ job[t] # "dlopen" /\ rest' = [rest EXCEPT ![t] = Tail(rest[t])]
           \/ s = "post" /\ pc[t] = "post" /\ job[t] = "dlopen" /\ rest' = [rest EXCEPT ![t] = Tail(rest[t])]
           \/ s = "pre" /\ pc[t] = "pending" /\ job[t] = "dlopen" /\ rest' = [rest EXCEPT ![t] = Tail(rest[t])]
           \/ s = "post" /\ pc[t] = "reset" /\ job[t] = "dlclose" /\ rest' = [rest EXCEPT ![t] = Tail(rest[t])]
           \/ s = "init_pre" /\ pc[t] = "pre" /\ job[t] = "dlopen" /\ rest' = rest
           \/ s = "sweep" /\ pc[t] = "post" /\ job[t] # "dlopen" /\ rest' = rest
  <2>1. CASE CallTask(t)
    BY <2>1 DEF CallTask, Passed, List
  <2>2. CASE CallbackReturns(t)
    BY <1>3, <2>2 DEF CallbackReturns, TaskReturns, Passed, List, JobAt, CtorSteps, DtorSteps
  <2> QED
    BY <2>1, <2>2
<1>5. /\ job[t] \in LinkJobs /\ job'[t] = job[t] /\ pc'[t] = s /\ rest \in [Thread -> Seq(Callbacks)] /\ Once(rest[t])
  BY <1>2, <1>3, <1>4 DEF CallInv, CallTypes, JobAt, WalkSteps, CtorSteps, DtorSteps, LinkJobs, StoryInv, OnceInv, Goto
<1>6. pc[t] \in {"pending", "reset"} => ~Contains(Tail(rest[t]), TASK)
  <2> SUFFICES ASSUME pc[t] \in {"pending", "reset"}
               PROVE  ~Contains(Tail(rest[t]), TASK)
    OBVIOUS
  <2>1. rest[t] # <<>>
    BY DEF CallInv, Sound, InCallback, WalksAt, CtorSteps, DtorSteps
  <2>2. PhaseAt(t)
    BY <1>5 DEF StoryInv, PhaseInv
  <2>3. Head(rest[t]) = TASK
    BY <1>3, <2>2 DEF PhaseAt, PreSteps, PostSteps, JobAt, CtorSteps
  <2> QED
    BY <1>5, <2>1, <2>3, OnceTail
<1>7. /\ Left(t) = rest[t] /\ Left(t)' = rest'[t]
  <2>1. pc[t] \in {"pre", "post"} \cup PreSteps \cup PostSteps /\ pc'[t] \in {"pre", "post"} \cup PreSteps \cup PostSteps
    BY <1>4, <1>5 DEF PreSteps, PostSteps
  <2> QED
    BY <2>1, LeftIs, LeftAfter
<1>8. /\ PreAt("pre", job[t]) /\ ~PostAt("pre") /\ ~PreAt("post", job[t]) /\ PostAt("post") /\ PostAt("sweep") /\ PostAt("reset")
      /\ (job[t] = "dlopen" => PreAt("init_pre", job[t]) /\ PreAt("pending", job[t]))
      /\ "init_pre" \notin DoSteps /\ "sweep" \notin DoSteps /\ "pre" \notin DoSteps /\ "post" \notin DoSteps
  BY <1>5, Stages DEF PreSteps, PostSteps, DoSteps
<1>9. /\ pc[t] = "pending" => ~Contains(rest'[t], TASK)
      /\ pc[t] = "reset" => ~Contains(rest'[t], TASK)
      /\ s \in {"init_pre", "sweep"} => rest'[t] = rest[t]
  BY <1>4, <1>5, <1>6
<1>10. Early(t)' <=> Early(t)
  <2>1. job[t] = "dlclose" => Early(t) /\ Early(t)'
    BY <1>5 DEF Early
  <2>2. CASE job[t] = "dlopen" /\ s = "post" /\ pc[t] = "post"
    BY <1>5, <1>8, <2>2 DEF Early
  <2>3. CASE job[t] = "dlopen" /\ s = "pre" /\ pc[t] = "pending"
    BY <1>5, <1>7, <1>8, <1>9, <2>3 DEF Early, Ahead
  <2>4. CASE job[t] = "dlopen" /\ s = "init_pre" /\ pc[t] = "pre"
    BY <1>5, <1>7, <1>8, <1>9, <2>4 DEF Early, Ahead
  <2> QED
    BY <1>4, <1>5, <2>1, <2>2, <2>3, <2>4 DEF LinkJobs
<1>11. Unswept(t)' <=> Unswept(t)
  <2>1. job[t] # "dlclose" => ~Unswept(t) /\ ~Unswept(t)'
    BY <1>5 DEF Unswept
  <2>2. CASE job[t] = "dlclose" /\ s = "pre" /\ pc[t] = "pre"
    BY <1>5, <1>8, <2>2 DEF Unswept
  <2>3. CASE job[t] = "dlclose" /\ s = "post" /\ pc[t] = "reset"
    BY <1>5, <1>7, <1>8, <1>9, <2>3 DEF Unswept, Ahead
  <2>4. CASE job[t] = "dlclose" /\ s = "sweep" /\ pc[t] = "post"
    BY <1>5, <1>7, <1>8, <1>9, <2>4 DEF Unswept, Ahead
  <2> QED
    BY <1>4, <1>5, <2>1, <2>2, <2>3, <2>4 DEF LinkJobs
<1> QED
  BY <1>1, <1>2, <1>5, <1>10, <1>11, WalkEffect

LEMMA EndWalkEffect ==
  ASSUME CallInv, CallInv', TaskInv, StoryInv, EffectInv, NEW t \in Thread, EndWalk(t), UNCHANGED ownVars
  PROVE  EffectInv'
<1>1. Elsewhere(t) /\ work[t] = {}
  BY WalkStep DEF LinkerStepOf, TaskInv
<1>2. /\ pc[t] \in {"pre", "post"} /\ rest[t] = <<>> /\ UNCHANGED <<phase, loc, on, did, job>>
      /\ Goto(t, IF pc[t] = "post" THEN "leave" ELSE IF List(t) = "init" THEN "ctors" ELSE "dtors")
  BY DEF EndWalk, libVars
<1>3. job[t] \in LinkJobs /\ job'[t] = job[t] /\ pc \in [Thread -> Steps]
  BY <1>2 DEF CallInv, CallTypes, Sound, JobAt, WalkSteps
<1>4. \/ pc[t] = "post" /\ pc'[t] = "leave"
      \/ pc[t] = "pre" /\ pc'[t] = "ctors" /\ job[t] = "dlopen"
      \/ pc[t] = "pre" /\ pc'[t] = "dtors" /\ job[t] = "dlclose"
  BY <1>2, <1>3 DEF List, LinkJobs, Goto
<1>5. ~Ahead(t)
  BY <1>2, LeftIs DEF Ahead, Contains
<1>6. pc'[t] = "dtors" => did[t]
  <2>1. PhaseAt(t)
    BY <1>3 DEF StoryInv, PhaseInv
  <2> QED
    BY <1>3, <1>4, <2>1, Stages DEF PhaseAt
<1>7. (Early(t)' <=> Early(t)) /\ (Unswept(t)' <=> Unswept(t))
  <2>1. ~PreAt(pc'[t], job'[t]) /\ ~PostAt(pc'[t])
    BY <1>3, <1>4, Stages
  <2> QED
    BY <1>3, <1>4, <1>5, <2>1 DEF Early, Unswept
<1> QED
  BY <1>1, <1>2, <1>3, <1>6, <1>7, WalkEffect

\* There is no task before the library is initialised, and then all that the proxies wait for is there.
LEMMA ReadyOrNone ==
  ASSUME CallInv, TaskInv, StoryInv
  PROVE  \/ Ready /\ \A x \in Lists : cbs[x] # <<>>
         \/ \A k : Misses(k)
<1>1. CASE init = "ok"
  <2>1. Ready
    BY <1>1 DEF StoryInv, InitInv
  <2>2. ~Contains(<<>>, TASK)
    BY DEF Contains
  <2> QED
    BY <2>1, <2>2 DEF Ready
<1>2. CASE made = {}
  <2>1. tasks = {} /\ \A k : \A u \in Thread : Flies(u, k) => k \in made
    BY <1>2, FliesAlone DEF TaskInv, OwnInv, TaskTypes
  <2> QED
    BY <1>2, <2>1 DEF Misses
<1> QED
  BY <1>1, <1>2 DEF StoryInv, InitInv

LEMMA LoadFailsEffect ==
  ASSUME CallInv, CallInv', TaskInv, StoryInv, EffectInv, NEW t \in Thread, LoadFails(t), UNCHANGED ownVars
  PROVE  EffectInv'
<1>1. Elsewhere(t) /\ work[t] = {}
  BY LoadFailsStep DEF LinkerStepOf, TaskInv
<1>2. PICK l : l = LibAt(t)
  OBVIOUS
<1>3. /\ pc[t] = "enter_ctors" /\ Goto(t, "enter_dtors") /\ job' = [job EXCEPT ![t] = "dlclose"] /\ phase[l] = "new"
      /\ UNCHANGED <<phase, loc, on, tasks, finished, corrupted, target, sw, work, late>>
  BY <1>2 DEF LoadFails, At, linkVars, libVars, ownVars, taskVars, swVars
<1>4. job[t] \in LinkJobs /\ job'[t] = "dlclose" /\ pc'[t] = "enter_dtors"
  BY <1>3 DEF CallInv, CallTypes, Sound, JobAt, CtorSteps, LinkJobs, Goto
<1>5. Early(t) /\ Early(t)'
  BY <1>3, <1>4 DEF Early
<1>6. ASSUME NEW k, Keeps(k), LibOf[k] = l, StandsAt(t, k) PROVE StandsAt(t, k)'
  BY <1>3, <1>5, <1>6, KeepsAll DEF StandsAt
<1> QED
  BY <1>1, <1>2, <1>3, <1>4, <1>6, DriverStands

\* The walk begins, with the tasks' callback in it; or there is none, and no task.
LEMMA EnterEffect ==
  ASSUME CallInv, CallInv', TaskInv, StoryInv, EffectInv, NEW t \in Thread, EnterCtors(t) \/ EnterDtors(t), UNCHANGED ownVars
  PROVE  EffectInv'
<1>1. Elsewhere(t) /\ work[t] = {}
  BY WalkStep DEF LinkerStepOf, TaskInv
<1>2. PICK l : l = LibAt(t)
  OBVIOUS
<1>3. /\ (pc[t] = "enter_ctors" /\ job[t] = "dlopen") \/ (pc[t] = "enter_dtors" /\ job[t] = "dlclose")
      /\ UNCHANGED <<libVars, job, on>>
  BY <1>2, EnterDoes
<1>4. PICK do \in BOOLEAN :
        /\ did' = [did EXCEPT ![t] = do]
        /\ \/ do /\ BeginWalk(t) /\ Goto(t, "pre")
           \/ ~do /\ Goto(t, IF job[t] = "dlopen" THEN "ctors" ELSE "dtors")
        /\ do => cbs["init"] # <<>> /\ (phase[l] = "new" <=> job[t] = "dlopen")
        /\ Ready /\ (\A x \in Lists : cbs[x] # <<>>) => (do <=> (phase[l] = "new" <=> job[t] = "dlopen"))
  <2>1. \E do \in BOOLEAN :
          /\ did' = [did EXCEPT ![t] = do]
          /\ \/ do /\ BeginWalk(t) /\ Goto(t, "pre")
             \/ ~do /\ Goto(t, IF job[t] = "dlopen" THEN "ctors" ELSE "dtors") /\ UNCHANGED <<reader, rest>>
          /\ do => cbs["init"] # <<>> /\ (phase[l] = "new" <=> job[t] = "dlopen")
          /\ Ready /\ (\A x \in Lists : cbs[x] # <<>>) => (do <=> (phase[l] = "new" <=> job[t] = "dlopen"))
    BY <1>2, EnterDoes
  <2> QED
    BY <2>1
<1>5. job[t] \in LinkJobs /\ job'[t] = job[t]
  BY <1>3 DEF LinkJobs
<1>6. l \in Lib /\ PhaseAt(t) /\ did'[t] = do
  BY <1>2, <1>4, <1>5, DriverKnows
<1>7. phase[l] \in {"new", "in"} /\ UNCHANGED <<phase, loc, on, tasks, finished, corrupted, target, sw, work, late>>
  BY <1>2, <1>3, <1>6 DEF PhaseAt, libVars, ownVars, taskVars, swVars
<1>8. pc'[t] = (IF do THEN "pre" ELSE IF job[t] = "dlopen" THEN "ctors" ELSE "dtors")
  BY <1>4 DEF CallInv, CallTypes, Goto
<1>9. /\ job[t] = "dlopen" => Early(t)
      /\ job[t] = "dlclose" => Early(t) /\ Early(t)'
  BY <1>3, <1>5 DEF Early
<1>10. do /\ job[t] = "dlopen" => Early(t)'
  <2> SUFFICES ASSUME do, job[t] = "dlopen"
               PROVE  Early(t)'
    OBVIOUS
  <2>1. rest'[t] = cbs["init"] /\ Contains(cbs["init"], TASK)
    <3>1. rest'[t] = cbs[ListOf(job[t])] /\ cbs["init"] # <<>>
      BY <1>4, <1>5, BeginWalkTells
    <3>2. "init" \in Lists
      BY DEF Lists
    <3> QED
      BY <3>1, <3>2 DEF ListOf, StoryInv, InitInv
  <2>2. Left(t)' = rest'[t] /\ PreAt("pre", job'[t])
    BY <1>5, <1>8, LeftAfter, Stages
  <2> QED
    BY <1>8, <2>1, <2>2 DEF Early, Ahead, DoSteps
<1>11. ASSUME NEW k, Keeps(k), LibOf[k] = l, phase[l] = "in" => Holds(k), StandsAt(t, k)
       PROVE  (phase'[l] = "in" => Holds(k)') /\ StandsAt(t, k)'
  <2>1. Holds(k) => Holds(k)'
    BY <1>7, <1>11, KeepsPlaced DEF Up
  <2>2. phase[l] = "new" => Pends(k)'
    BY <1>5, <1>7, <1>9, <1>11, KeepsAll DEF StandsAt, LinkJobs
  <2>3. Misses(k) => Misses(k)' /\ Doing(t, k)'
    BY <1>11, KeepsAll DEF Misses, Doing
  <2>4. do \/ (phase[l] = "new" /\ job[t] = "dlclose") \/ (phase[l] = "in" /\ job[t] = "dlopen") \/ Misses(k)
    BY <1>4, <1>5, <1>7, ReadyOrNone DEF LinkJobs
  <2>5. phase[l] = "new" => (Early(t)' \/ Misses(k))
    BY <1>4, <1>5, <1>9, <1>10, <2>4 DEF LinkJobs
  <2>6. pc'[t] = "dtors" /\ phase[l] = "in" => Misses(k)
    BY <1>5, <1>8, <2>4 DEF LinkJobs
  <2> QED
    BY <1>7, <1>11, <2>1, <2>2, <2>3, <2>5, <2>6 DEF StandsAt
<1> QED
  BY <1>1, <1>2, <1>5, <1>7, <1>11, DriverStands

\* The constructors run when all tasks are done; the destructors have run, and the callbacks after them collect.
LEMMA OriginalEffect ==
  ASSUME CallInv, CallInv', TaskInv, StoryInv, EffectInv, NEW t \in Thread, Constructors(t) \/ Destructors(t), UNCHANGED ownVars
  PROVE  EffectInv'
<1>1. Elsewhere(t) /\ work[t] = {}
  BY OriginalStep DEF LinkerStepOf, TaskInv
<1>2. PICK l : l = LibAt(t)
  OBVIOUS
<1>3. JobAt(pc[t], job[t])
  BY DEF CallInv, Sound
<1>4. PICK p \in {"in", "closing"} :
        /\ phase' = [phase EXCEPT ![l] = p]
        /\ \/ p = "in" /\ pc[t] = "ctors" /\ job[t] = "dlopen"
           \/ p = "closing" /\ pc[t] = "dtors" /\ job[t] = "dlclose"
        /\ UNCHANGED <<loc, did, cbs, job, on>>
  BY <1>2, <1>3 DEF Constructors, Destructors, Original, At, JobAt, CtorSteps, DtorSteps
<1>5. \/ did[t] /\ BeginWalk(t) /\ Goto(t, "post")
      \/ ~did[t] /\ Goto(t, "leave")
  BY DEF Constructors, Destructors, Original
<1>6. job[t] \in LinkJobs /\ job'[t] = job[t] /\ pc'[t] = (IF did[t] THEN "post" ELSE "leave")
  BY <1>4, <1>5 DEF LinkJobs, CallInv, CallTypes, Goto
<1>7. l \in Lib /\ PhaseAt(t) /\ phase'[l] = p /\ \A m \in Lib \ {l} : phase'[m] = phase[m]
  <2>1. l \in Lib /\ PhaseAt(t)
    BY <1>2, <1>6, DriverKnows
  <2> QED
    BY <1>4, <2>1 DEF TaskInv, PlaceInv
<1>8. phase[l] \in {"new", "in"} /\ (pc[t] = "dtors" /\ did[t] => phase[l] = "in")
  <2>1. pc[t] = "ctors" => CtorsAt(pc[t])
    BY DEF CtorsAt
  <2> QED
    BY <1>2, <1>4, <1>7, <2>1 DEF PhaseAt
<1>9. UNCHANGED <<tasks, finished, corrupted, target, sw, work, late>>
  BY DEF ownVars, taskVars, swVars
<1>10. \A k : \A u \in Thread : ~Does(u, k)
  BY <1>1, <1>6, AloneInLinker DEF Elsewhere, TaskAt, Does, LinkJobs
<1>11. ASSUME NEW k, Keeps(k), LibOf[k] = l, phase[l] = "in" => Holds(k), StandsAt(t, k), p = "in"
       PROVE  Holds(k)' /\ StandsAt(t, k)'
  <2>1. Holds(k)
    <3>1. CASE phase[l] = "new"
      <4>1. ~Early(t)
        BY <1>4, <1>6, <1>11, Stages DEF Early
      <4>2. Doing(t, k)
        BY <1>11, <3>1, <4>1 DEF StandsAt
      <4>3. Done(k) => k \in finished
        BY <1>10 DEF Done
      <4> QED
        BY <1>1, <1>10, <4>2, <4>3 DEF Doing, Holds
    <3> QED
      BY <1>8, <1>11, <3>1
  <2>2. Holds(k)'
    BY <1>4, <1>8, <1>11, <2>1, KeepsPlaced DEF Up
  <2> QED
    BY <1>6, <1>7, <1>11, <2>2 DEF StandsAt
<1>12. ASSUME NEW k, Keeps(k), LibOf[k] = l, phase[l] = "in" => Holds(k), StandsAt(t, k), p = "closing"
       PROVE  StandsAt(t, k)'
  <2>1. /\ Pends(k) => Pends(k)'
        /\ Misses(k) => Pends(k)' /\ Resets(t, k)'
    BY <1>12, KeepsAll DEF Misses, Pends, Resets
  <2>2. Holds(k) => Holds(k)'
    BY <1>4, <1>7, <1>12, KeepsPlaced DEF Up
  <2>3. CASE ~did[t]
    <3>1. Early(t)
      BY <1>4, <1>12 DEF Early
    <3>2. Pends(k)'
      BY <1>4, <1>8, <1>12, <2>1, <2>3, <3>1 DEF StandsAt
    <3>3. ~Unswept(t)'
      BY <1>6, <2>3, Stages DEF Unswept
    <3> QED
      BY <1>4, <1>7, <1>12, <2>3, <3>2, <3>3 DEF StandsAt
  <2>4. CASE did[t]
    <3>1. Holds(k)'
      BY <1>4, <1>8, <1>12, <2>2, <2>4
    <3>2. Unswept(t)' \/ Misses(k)
      <4>1. rest'[t] = cbs["fini"] /\ "fini" \in Lists
        <5>1. rest'[t] = cbs[ListOf(job[t])]
          BY <1>5, <1>6, <2>4, BeginWalkTells
        <5> QED
          BY <1>4, <1>12, <5>1 DEF ListOf, Lists
      <4>2. Left(t)' = rest'[t] /\ PostAt("post")
        BY <1>6, <2>4, LeftAfter, Stages
      <4>3. Contains(cbs["fini"], TASK) => Unswept(t)'
        BY <1>4, <1>6, <1>12, <2>4, <4>1, <4>2 DEF Unswept, Ahead, DoSteps
      <4> QED
        BY <4>1, <4>3, ReadyOrNone DEF Ready
    <3> QED
      BY <1>4, <1>7, <1>12, <2>1, <2>4, <3>1, <3>2 DEF StandsAt
  <2> QED
    BY <2>3, <2>4
<1> QED
  BY <1>1, <1>2, <1>4, <1>6, <1>7, <1>9, <1>11, <1>12, DriverStands

LEMMA LeaveEffect ==
  ASSUME CallInv, CallInv', TaskInv, StoryInv, EffectInv, NEW t \in Thread,
         (LeaveDlopen(t) /\ UNCHANGED ownVars) \/ Unmap(t)
  PROVE  EffectInv'
<1>1. PICK l : l = LibAt(t)
  OBVIOUS
<1>2. /\ pc[t] = "leave" /\ Return(t) /\ on' = [on EXCEPT ![t] = NoAddr]
      /\ UNCHANGED <<tasks, finished, corrupted, target, sw, work, late>>
      /\ \/ job[t] = "dlopen" /\ UNCHANGED <<phase, loc>>
         \/ job[t] = "dlclose" /\ phase' = [phase EXCEPT ![l] = "out"] /\ loc' = [loc EXCEPT ![l] = NoAddr]
  BY <1>1 DEF LeaveDlopen, Unmap, LeaveDlclose, At, ownVars, taskVars, swVars
<1>3. pc[t] \in LinkSteps /\ job[t] \in LinkJobs /\ \A u \in Thread \ {t} : on'[u] = on[u]
  BY <1>2 DEF LinkSteps, WalkSteps, LinkJobs, TaskInv, PlaceInv
<1>4. Elsewhere(t) /\ job'[t] = "none"
  BY <1>2, <1>3, ReturnElsewhere
<1>5. work[t] = {} /\ \A u \in Thread \ {t} : job[u] \notin LinkJobs
  BY <1>3, NoWorkAtLinkSteps, AloneInLinker DEF TaskInv
<1>6. /\ l \in Lib /\ loc[l] = on[t] /\ PhaseAt(t) /\ did \in [Thread -> BOOLEAN] /\ Drives(t, l)
      /\ job[t] = "dlclose" => phase[l] = "closing"
  <2>1. job[t] = "dlclose" => Closed(pc[t], job[t])
    BY <1>2 DEF Closed
  <2> QED
    BY <1>1, <1>3, <2>1, DriverKnows, LibAtIs DEF TaskInv, Drives
<1>7. \A m \in Lib \ {l} : phase'[m] = phase[m] /\ loc'[m] = loc[m]
  BY <1>2, <1>6 DEF TaskInv, PlaceInv
<1>8. \A u \in Thread : job'[u] \notin LinkJobs
  BY <1>4, <1>5 DEF Elsewhere, Moves, LinkJobs
<1>9. ASSUME NEW k, Keeps(k), LibOf[k] = l, Stands(k) PROVE Stands(k)'
  <2>1. \A u \in Thread : ~Drives(u, LibOf[k])'
    BY <1>8 DEF Drives
  <2>2. CASE job[t] = "dlopen"
    <3>1. phase'[l] = "in" /\ phase[l] = "in" /\ loc'[l] = loc[l]
      BY <1>1, <1>2, <1>6, <2>2 DEF PhaseAt
    <3> QED
      BY <1>9, <2>1, <3>1, KeepsPlaced DEF Stands, Up
  <2>3. CASE job[t] = "dlclose"
    <3>1. phase'[l] = "out" /\ phase[l] = "closing"
      BY <1>2, <1>6, <2>3 DEF TaskInv, PlaceInv
    <3>2. ~Unswept(t)
      BY <1>2, <1>3, Stages DEF Unswept
    <3>3. Pends(k)
      BY <1>5, <1>6, <1>9, <2>3, <3>1, <3>2 DEF Stands, StandsAt, Resets, Pends
    <3> QED
      BY <1>9, <2>1, <3>1, <3>3, KeepsAll DEF Stands
  <2> QED
    BY <1>3, <2>2, <2>3 DEF LinkJobs
<1> QED
  BY <1>2, <1>4, <1>5, <1>6, <1>7, <1>8, <1>9, DriverEffect DEF Drives

\* A library is loaded, opened once more or closed.
LEMMA EnterLinkerEffect ==
  ASSUME CallInv, CallInv', TaskInv, StoryInv, EffectInv, NEW t \in Thread, NEW l \in Lib,
         (\E a \in Addr : Dlopen(t, l, a)) \/ Dlclose(t, l), UNCHANGED ownVars
  PROVE  EffectInv'
<1>1. Elsewhere(t) /\ work[t] = {}
  BY EnterLinkerStep DEF LinkerStepOf, TaskInv
<1>2. PICK j \in LinkJobs, s \in {"enter_ctors", "enter_dtors"}, a \in Addr \cup {NoAddr} :
        /\ dl = NoThread /\ Start(t, j, NoTask, s) /\ (j = "dlopen" <=> s = "enter_ctors")
        /\ on' = [on EXCEPT ![t] = a] /\ a \in Addr
        /\ \/ phase[l] = "in" /\ phase' = phase /\ a = loc[l] /\ (loc' = loc \/ loc' = [loc EXCEPT ![l] = a])
           \/ phase[l] = "out" /\ ~Mapped(a) /\ phase' = [phase EXCEPT ![l] = "new"] /\ loc' = [loc EXCEPT ![l] = a]
              /\ j = "dlopen"
  <2>1. CASE Dlclose(t, l)
    <3>1. phase[l] = "in" /\ loc[l] \in Addr
      BY <2>1, LinkerAssumption DEF Dlclose, TaskInv, PlaceInv
    <3> QED
      BY <2>1, <3>1 DEF Dlclose, LinkJobs
  <2>2. CASE \E a \in Addr : Dlopen(t, l, a)
    BY <2>2 DEF Dlopen, LinkJobs
  <2> QED
    BY <2>1, <2>2
<1>3. pc'[t] = s /\ job'[t] = j /\ \A u \in Thread \ {t} : job[u] \notin LinkJobs
  <2>1. j \in Jobs /\ s \in Steps
    BY DEF Jobs, Steps, CtorSteps, DtorSteps
  <2> QED
    BY <1>2, <2>1, StartMoves, NobodyInLinker DEF CallInv
<1>4. UNCHANGED <<tasks, finished, corrupted, target, sw, work, late>>
  BY DEF ownVars, taskVars, swVars
<1>5. /\ loc'[l] = a /\ on'[t] = a /\ \A m \in Lib \ {l} : phase'[m] = phase[m] /\ loc'[m] = loc[m] /\ loc[m] # a
      /\ \/ phase[l] = "in" /\ phase'[l] = "in" /\ loc'[l] = loc[l]
         \/ phase[l] = "out" /\ phase'[l] = "new" /\ j = "dlopen"
  BY <1>2, LinkerAssumption DEF TaskInv, PlaceInv, Mapped
<1>6. \A m \in Lib \ {l} : ~Drives(t, m)'
  BY <1>5 DEF Drives
<1>7. \A u \in Thread : Drives(u, l)' => u = t
  BY <1>1, <1>3 DEF Drives, Elsewhere, Moves
<1>8. ASSUME NEW k, Keeps(k), LibOf[k] = l, Stands(k) PROVE Stands(k)'
  <2>1. CASE phase[l] = "in" /\ phase'[l] = "in" /\ loc'[l] = loc[l]
    <3>1. Holds(k)'
      BY <1>8, <2>1, KeepsPlaced DEF Stands, Up
    <3>2. StandsAt(t, k)'
      BY <1>3, <1>8, <2>1 DEF StandsAt
    <3> QED
      BY <1>7, <1>8, <2>1, <3>1, <3>2 DEF Stands
  <2>2. CASE phase[l] = "out" /\ phase'[l] = "new" /\ j = "dlopen"
    <3>1. Pends(k)'
      BY <1>8, <2>2, KeepsAll DEF Stands
    <3>2. Early(t)'
      BY <1>2, <1>3, <2>2 DEF Early
    <3>3. StandsAt(t, k)'
      BY <1>8, <2>2, <3>1, <3>2 DEF StandsAt
    <3> QED
      BY <1>7, <1>8, <2>2, <3>3 DEF Stands
  <2> QED
    BY <1>5, <2>1, <2>2
<1> QED
  BY <1>1, <1>3, <1>4, <1>5, <1>6, <1>8, DriverEffect

LEMMA EffectBegins == Init => EffectInv
<1> SUFFICES ASSUME Init
             PROVE  EffectInv
  OBVIOUS
<1>1. /\ pc = [t \in Thread |-> "idle"] /\ job = [t \in Thread |-> "none"] /\ tasks = {}
      /\ target = [k \in Task |-> NoAddr] /\ phase = [l \in Lib |-> "out"]
  BY DEF Init, LinkInit
<1>2. \A k : \A u \in Thread : ~Flies(u, k)
  BY <1>1 DEF Flies
<1>3. \A k : Pends(k)
  BY <1>1, <1>2 DEF Pends
<1>4. \A k \in ByName : phase[LibOf[k]] = "out" /\ target[k] = NoAddr
  BY <1>1, TaskAssumption
<1>5. \A t \in Thread : job[t] \notin LinkJobs
  BY <1>1 DEF LinkJobs
<1> QED
  BY <1>3, <1>4, <1>5 DEF EffectInv, DoesInv, Fresh, Stands, Drives, LinkJobs

LEMMA EffectNext ==
  ASSUME AloneUnique, CallInv, CallInv', TaskInv, StoryInv, EffectInv, Next
  PROVE  EffectInv'
<1>1. PICK t \in Thread : Call(t) \/ Wait(t) \/ Work(t)
  BY DEF Next
<1>2. CASE TaskStep(t)
  BY <1>2, TaskStepEffect
<1>3. CASE UNCHANGED ownVars /\ (LinkWait(t) \/ LinkWork(t) \/ LinkCall(t) \/ CallbackReturns(t) \/ \E l \in Lib : Dlclose(t, l))
  <2>1. LinkWait(t) => EffectInv'
    BY <1>3, QuietEffect DEF LinkWait, InitAction
  <2>2. LinkWork(t) => EffectInv'
    BY <1>3, QuietEffect, LoadFailsEffect, EnterEffect, UserEffect, TaskPassedEffect, EndWalkEffect, OriginalEffect,
       LeaveEffect DEF LinkWork, InitAction
  <2>3. SetDisable(t) => EffectInv'
    BY <1>3, StutterEffect DEF SetDisable, libVars, cbVars
  <2>4. LinkCall(t) => EffectInv'
    BY <1>3, <2>3, QuietEffect, EnterLinkerEffect DEF LinkCall
  <2> QED
    BY <1>3, <2>1, <2>2, <2>4, TaskPassedEffect, EnterLinkerEffect
<1>4. Wait(t) => TaskStep(t) \/ (LinkWait(t) /\ UNCHANGED ownVars)
  BY DEF Wait, TaskStep
<1>5. Work(t) => TaskStep(t) \/ Unmap(t) \/ (UNCHANGED ownVars /\ (CallbackReturns(t) \/ LinkWork(t)))
  BY DEF Work, TaskStep, CallbackReturns
<1>6. Call(t) => TaskStep(t) \/ (UNCHANGED ownVars /\ ((\E l \in Lib : Dlclose(t, l)) \/ LinkCall(t)))
  BY DEF Call, TaskStep, CallDlclose
<1> QED
  BY <1>1, <1>2, <1>3, <1>4, <1>5, <1>6, LeaveEffect

\* What is known of the tasks by name in every reachable state, at each step of a load or a close of their libraries.
THEOREM EffectInvariant ==
  ASSUME AloneUnique
  PROVE  Spec => []EffectInv
<1>1. CallInv /\ CallInv' /\ TaskInv /\ StoryInv /\ EffectInv /\ [Next]_vars => EffectInv'
  <2> SUFFICES ASSUME CallInv, CallInv', TaskInv, StoryInv, EffectInv, [Next]_vars
               PROVE  EffectInv'
    OBVIOUS
  <2>1. CASE Next
    BY <2>1, EffectNext
  <2>2. CASE UNCHANGED vars
    BY <2>2, StutterEffect DEF vars, linkVars, libVars, cbVars
  <2> QED
    BY <2>1, <2>2
<1> QED
  BY <1>1, EffectBegins, CallInvariant, TaskInvariant, StoryInvariant, PTL DEF Spec

\* Once a library's constructors run, every by-name task in the list is done and its proxy is in force
\* (sh_task.c:355, :363), but for those that were on their way into the list when it was loaded or
\* closed, and for a target on whose address such a task left a switch behind.  AloneUnique is needed: the unhook
\* of a unique task takes whatever unique proxy it finds.
THEOREM LoadedInForceHolds ==
  ASSUME AloneUnique
  PROVE  Spec => []LoadedInForce
<1>1. EffectInv => LoadedInForce
  <2> SUFFICES ASSUME EffectInv, NEW k \in (tasks \cap ByName) \ (corrupted \cup late),
                      phase[LibOf[k]] = "in", ~Stale(loc[LibOf[k]])
               PROVE  InForce(k)
    BY DEF LoadedInForce
  <2>1. Holds(k)
    BY DEF EffectInv, Stands
  <2> QED
    BY <2>1 DEF Holds, Hit, InSwitch, Up, Stale, InForce
<1> QED
  BY <1>1, EffectInvariant, PTL
=============================================================================
