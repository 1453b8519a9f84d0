# shadowhook: TLA+ models, model checking and proofs

This directory models [shadowhook](../src/README.md) (bytedance/android-inline-hook), an inline hook
library for Android: it overwrites the first instructions of a function so that a call of the function
runs a *proxy* or an *interceptor* first. Paths below are relative to
`src/shadowhook/src/main/cpp/` unless they start with `doc/`.

1. [The system](#1-the-system): components, state, operations, interactions, what is hard
2. [The modules](#2-the-modules) and how they correspond to the code
3. [The runs](#3-the-runs), their bounds and fairness
4. [What disagrees with the documentation](#4-what-disagrees-with-the-documentation)
5. [The proofs](#5-the-proofs)
6. [What is not modelled](#6-what-is-not-modelled)
7. [The plan](#7-the-plan)

`tlc -config X.cfg M` runs a configuration, `tlapm M.tla` checks the proofs of a module. PROJECT.json
lists the runs, the lines of code behind every definition, the hazards and, for every checked property,
a mutant of the code that the property rejects.

## 1. The system

A user calls `shadowhook_hook_*`, `_intercept_*`, `_unhook`, `_unintercept` from any thread at any
time; other threads execute the functions being patched; the linker calls into the library whenever an
ELF is loaded or closed.

```
 shadowhook.c  API, errno, initialisation
      |
 sh_task.c     one task (stub) per hook; pending tasks  <--- sh_linker.c  dlopen / dlclose callbacks
      |                                                        |
 sh_switch.c   one switch per target address          <--------+ (sweep of a closed ELF)
      |   \
      |    sh_hub.c     shared mode: frames per thread, recursion test
 sh_inst.c     rewriting of instructions  --- sh_island.c --- sh_elf.c   (gaps in an ELF)
      |                    \                     \
 sh_a64.c ...               sh_enter.c ---------- common/sh_trampo.c     (slots of executable pages)
      |
 sh_glue.S     what a call of a patched function runs before an interceptor
```

| component | state it keeps | operations | what makes it correct |
|---|---|---|---|
| common/sh_ref.c | count, destroy stamp and lock per object; queue per manager | increment, decrement, delayed_destroy | nothing is freed while somebody holds a count, twice, or before the delay |
| sh_switch.c | tree of switches by target address; per switch the mode, the queue of proxies, hub, glue launcher, interceptors | find, create, hook, unhook, intercept, unintercept in three modes, sweep of a closed ELF | a call of the target runs exactly what is hooked, each once, and ends in the original code |
| sh_hub.c | list of shared proxies per hub, stack of frames per thread | add, delete, push_stack, get_prev_func, pop_stack, allow/disallow re-entrance | every enabled proxy runs once; none is entered again; frames match returns |
| sh_task.c | list of tasks, counter of unfinished ones | do, undo_and_destroy, init_pre, fini_post | a pending hook is done before the library's constructors run; a stub handed back leaves nothing behind |
| sh_linker.c | whether the proxies on the linker are in place, what is known of soinfo, dl_init and dl_fini callbacks | proxies of call_constructors/call_destructors, registering, lookups | callbacks run once per load and close, in order, and never after they were unregistered |
| common/sh_trampo.c, sh_enter.c | pages, a used bit and a time per slot | alloc, alloc_between, free | one owner per slot; a slot rests before it is used again |
| sh_island.c, sh_elf.c | ELF tree with the gaps between segments and their slots | alloc, free, cleanup | islands do not overlap and are given back once |
| sh_inst.c (arm64, arm) | backup, enter, islands of one patched target | hook, rehook, unhook, glue launcher | a failing step gives back what the earlier ones took; the target always holds an instruction that leads somewhere |
| sh_a64.c, sh_a32.c, sh_t16.c, sh_t32.c | none | rewriting of an instruction for another place, jumps | the moved instruction does what it did, whatever it reads and wherever it goes |
| sh_recorder.c | two growing buffers: strings and records | add_op, add_unop, output | a record refers to a string that is there |
| common/bytesig.c, sh_safe.c | signal protection slots, saved addresses | protect, unprotect, handler | a fault in a protected region returns to its handler |
| shadowhook.c | init state, mode, disabled flag | the API | one initialisation, calls refused when disabled |

**Where it is hard.**
*Life cycle*: a switch or task found under one lock is locked later; in between it may be destroyed
(`is_destroyed`, "try again", `SH_ERRNO_INTERNAL_AGAIN`), by an unhook or by a dlclose sweep.
*Code that runs*: threads execute hub trampolines, launchers and islands with no lock, so memory is
kept for a delay after it was retired.
*Chain*: hooks in multi and shared mode and interceptors are linked in and out of one chain, with
instruction rewrites that may fail in the middle.
*Linker*: a library can be loaded or closed between any two steps of a hook by name; callbacks hold
the linker's recursive mutex and take the library's own locks.
*Calls*: a hooked function calls others, or itself; the frames of a thread must follow.
*Code*: the first instructions of a function move elsewhere and other code takes their place while
threads run through both; no register, flag, return address or literal may change for it.

## 2. The modules

| module | models | extends / refines |
|---|---|---|
| `ShRef` | sh_ref.c and the find/create/retire protocol of sh_switch.c | abstract life cycle |
| `ShRefProofs` | theorems about it | ShRef |
| `ShSwitch` | sh_switch.c | EXTENDS ShRef; every action conjoins an action of ShRef |
| `ShChainProofs` | lemmas about one switch: its queue, and what a call visits | ShSwitch |
| `ShSwitchProofs` | ShSwitch implements ShRef and inherits its theorems; what is hooked runs, and nothing else | ShChainProofs, ShRefProofs |
| `ShLinker` | sh_linker.c: hooking the linker, its proxies, the lists of callbacks; shadowhook.c: init, disable, register | |
| `ShTask` | sh_task.c with the lock of sh_recorder.c | EXTENDS ShLinker, whose proxies call it; switches seen from outside |
| `ShTaskProofs` | theorems about the walks through the lists of callbacks, about the tasks, what callbacks are told, and what is in force | ShTask |
| `ShHub` | sh_hub.c: calls that run through a hub | |
| `ShHubProofs` | theorems about it: reentry, frames, and what a call runs | ShHub |
| `ShTrampo` | common/sh_trampo.c, sh_enter.c | |
| `ShPool` | an allocator of slots that rest before they are used again | abstract specification |
| `ShTrampoProofs` | theorems about ShTrampo; it implements ShPool | ShTrampo |
| `ShElf` | sh_elf.c, the part of sh_linker.c that says what an ELF occupies | operators over the state of ShIsland |
| `ShIsland` | sh_island.c, and sh_switch.c and the linker as its callers | composes ShTrampo and ShElf |
| `ShIslandProofs` | theorems about gaps, and about islands in pages and gaps | ShIsland, ShTrampoProofs |
| `ShCode` | instructions as far as moving them changes what they do; a processor; sh_txx.c's fix_addr | |
| `ShA64`, `ShA32`, `ShThumb` | sh_a64.c; sh_a32.c; sh_t16.c, sh_t32.c: rewriting and jumps | ShCode |
| `ShInst` | sh_inst.c of arm64 and arm: the patch of one target, step by step | the three above, by INSTANCE |
| `ShRun` | a thread that runs through the target meanwhile; what sh_glue.S relies on | EXTENDS ShInst |
| `ShInstProofs` | theorems about the areas a patch holds | ShRun |
| `MCRef`, `MCSwitch`, `MCTask`, `MCHub`, `MCIsland`, `MCRun` | instances for TLC | |

Operators named `X_...` with the comment "mutant" are the broken variants of `X` that show a property
is not empty; no specification uses them.

### ShRef

An object is created and looked up under the registry's lock, which also takes a count (`FindHit`,
`FindCreate`, `FindFails`); it is worked on under its own lock (`Lock`, `Keep`, `Skip`), retired
(`Retire`, `Untree`, `Stamp`, `Scan`, `Destroy`) and released (`Unlock`, `Release`). A dlclose takes all
the objects of an ELF out of the registry at once (`Collect`). Every action is one critical section or
one step between two of them; `pc` says where a thread is. `Stamp` and `Scan` are two actions because
sh_ref_delayed_destroy stamps before it takes the manager's lock; `ahead` keeps the order of the queue,
because with a delay the scan stops at the first object that is not overdue. What a handler does with
its object is open: it keeps or retires it. ShRef is therefore the abstract specification of the
protocol, and any client that keeps to it inherits the theorems.

### ShSwitch

`sw[o]` is the contents of a switch (`addr` its target_addr, which the patching functions are given), `code[k]` the
patches at a target address. One action per function: `HookFirst`/`HookUniqueMore`/`HookQueueMore`
(sh_switch_hook_unique, _multi, _shared), `UnhookUnique`, `UnhookQueue`, `Intercept`, `Unintercept`,
`FreeAfterDlclose`, each with all its error returns. The code under a switch's lock is one action; between taking the
count and the lock, and after the unlock, other threads interleave as in ShRef. `Linked` and `Unlinked` are
sh_switch_proxy_add and _del; `Chain` follows the `*orig_addr` values as a call would. `stubs` (granted hooks) and
`residue` (hooks whose removal failed half-way: their proxies may still run) are history. Instruction rewriting
succeeds or fails; `Faults` says which steps may fail. When the restoring of a target fails, the switch is retired
although the target still jumps into it (sh_switch.c:789), and the code has no second try. `DestroySwitch`
(sh_switch_destroy) then frees what the jump leads to: a glue launcher or a hub. Such a jump is `Gone` and `ChainEnds`
does not follow it; a jump to a proxy stays good, because its `*orig_addr` belongs to the user. For the same reason
`NoDanglingJump` is checked without the fault "unhook". A stub is handed back once, as the task layer guarantees; an
unhook answers what the code does (`ret`: found, not found by `FindNothing`, in conflict, or failed).

### ShLinker

`InitBegins` .. `InitEnds` is shadowhook_init under its lock: hook soinfo::call_constructors and
_destructors (`HookCtors`, `HookDtors`), load an empty library so that its soinfo passes through the proxy
and shows where its fields are (`ScanBegins`, `ScanNothing`, `ScanEnds`), register the tasks' callbacks
(`TaskInitInit`, `TaskInitFini`); each step may fail. `Dlopen` .. `LeaveDlopen` and `Dlclose` .. `LeaveDlclose`
are the linker with the proxies, in the thread that has the linker's recursive mutex: whether the callbacks
are called at all is decided once, at `EnterCtors` and `EnterDtors` (the latter asks the constructors' list,
as the code does); a walk (`BeginWalk` .. `EndWalk`) holds the list's lock and calls one callback per step.
A library's load may fail, it may be opened a second time, and its constructors may call shadowhook_init.
`told` and `steady` are history: what a callback heard of a library, and which were registered all the time.
`plan` is chosen at the start from `Scenario` and never changes: which tasks there may be and which of the
features above a behaviour may use, so that TLC meets them in combinations that it can exhaust.
The 64-bit order is modelled; 32-bit builds hold the linker's mutex around the two hooks.

### ShTask

A hook by name looks the library up (`Lookup`, under the linker's mutex), hooks (`DoHook`) and inserts its task
(`Insert`): three steps, as in sh_task_do. The linker's steps "init_pre" and "sweep" begin the two callbacks of the
tasks: sh_task_dl_init_pre with one `TakePending`/`DoPending`/`SetFinished`/`Callback` per collected task, and the
sweep of the switches with sh_task_dl_fini_post. `CallUndo`, `Undo`, `UndoDestroy` hand a stub back. `Record` and
`Dladdr` are the part of the recorder that takes locks. A library has one target, placed at an address that a later
load may use again; a switch is the set of tasks hooked there. `patched` is separate from `sw`: a switch that survives
its ELF believes to be hooked and the code is not. An unhook may fail too (`UnhookFails`, sh_switch.c:364, 761, 789):
a chain then stays as it was, and a switch without proxies left is destroyed with its jump in place.
sh_task_undo_and_destroy destroys the task either way, so its proxy may still run; `residue` has those, until the
mapping ends. `late` is history: tasks whose call was between lookup and insertion when the library was loaded or
closed. The callbacks of users do nothing. Whoever hooks by address keeps the library loaded meanwhile (`Closing`).

### ShHub

A thread's activations (`acts`), its frames (`frames`, the sh_hub_stack_t) and its walk over a list
(`walk`, one step per item read). Calls of hooked functions come from the app, from proxies, from
original functions, and as tail calls; a return address is the call site. `Add`, `Del` and `Relink` are
other threads changing the list or the hub's `orig_addr` at any moment. The originals may jump to other
hooked functions (`Jumps`) but not in a cycle. With a cycle a frame can be popped too early: let a hooked function
jump to itself after its hub was relinked, so that the jump is not seen as recursive. Its frame's return address is
the place where the proxy p of the outer call calls the previous function; p, entered again, calls the next proxy
from the same place, and that proxy's return pops p's frame (sh_hub.c:389 says that only the first proxy
does). TLC finds this with `Jumps = {<<h1, h1>>}`; `FramesMatch`, `EachOnce` and `AllRun` are claimed without cycles.

### ShTrampo

`CallAlloc` and `CallFree` read the clock, `Reuse`/`NewPage`/`AllocFails` and `Free` are the critical
sections; the clock may advance and other threads may allocate and free between the two. The order of
the search (newest page first, lowest slot first) is kept. A page is an address from `Base`: mmap may
ignore the hint, so any free page may come. `ShPool` is what the allocator promises its callers: a slot
is given to nobody else, and one given back rests. `KeepsPool` maps its cells to the slots: a slot is free from the
call of sh_trampo_free and taken from the return of sh_trampo_alloc_between.

### ShElf and ShIsland

`PhdrGaps` and `SymbolGaps` compute the gaps from an ELF's program headers: between the file's bytes and the end of
the page when nothing of .bss is there, the rest of a page after .bss, and symbols that are never called again. An
object's gaps are a set, and the used bits and times of all of them one set and one function: two gaps of an ELF share
no byte (`GapsApart` in ShIslandProofs). `Find`/`Create`/`Insert`/`Again` is sh_elf_alloc with its retry,
`AllocInGaps`, `Take`, `FreeUnits`, `Cleanup` and `Destroy` the rest. In ShIsland a thread's call (`Alloc`, `GetPage`,
`TryGaps`, `SearchGaps`, `GetGap`, `FreeIsland`) is one step per critical section, so that the linker may load or
close (`Load`, `Close`, `CloseSwitch`, `Clean`, `CloseEnds`) in between. Two ELFs use the same addresses in turn, with
different gaps. An island allocated for an ELF that was closed in the meantime is a *late hook*; nothing new begins
after one, because the memory it writes is then somebody else's whatever the allocator does.

### ShCode, ShA64, ShA32, ShThumb

An instruction is its type and operands; what the bits are is left out. What it does is one of the forms
`Do` executes: an operation on registers, a load relative to the PC, a branch, a push and so on. Values are
symbolic (an address, the first value of a register, what is loaded from another value), so two values are
equal when they are for every program. The three modules give for each type the sequence that the code
writes in its place (`Rewrite`), its length, the jumps between the pieces of a patch, and `FixAddr`: an
address among the moved instructions becomes the place they moved to. An empty sequence is a refusal.

### ShInst and ShRun

A case is an instruction set, a program at the target, whether the target is a function's start, on which side of it
memory is free, how its test comes out, and which calls and failures may happen beside one hook. `HookEnter` ..
`RelocDone` are the steps of sh_inst_hook, each an allocation or a write with its failing variant (`HookFailed` is the
common end); `Rehook` enters at the exit island; `Unhook`, `UnhookDone`, `UnhookFails`, `FreeAfterDlclose` are the
rest. `mem` holds the code that was written, `out` and `resting` what the allocators gave out and took back. `lost` is
history, the areas no record refers to any more: the island of a rewritten branch, which free_after_dlclose does not
give back, and all the areas of a patch that could not be undone (`UnhookFails`), because sh_switch.c:761 and :789
destroy the record with its switch. After that ("gone") the case is over for the thread that hooks, while the other
still runs through the patch. In ShRun a processor (`cpu`) executes that memory one instruction at a time between any
two of these steps, and a second one (`sim`) the program as it was. The user's proxy calls the original function or
returns; the glue goes to the proxy or to the enter. Both leave the IP registers undefined.

## 3. The runs

| run | question | instance | result |
|---|---|---|---|
| ref | can races of hook, unhook and dlclose free, queue or retire an object wrongly, or retry for ever? | 2 threads, 2 objects, 2 keys, delay 1, clock to 3 | holds |
| switch_seq | is the chain what was granted after any sequence of calls, with failures? | 1 thread, 2 objects, 3 proxies, 1 interceptor, 3 modes, delay 0 | holds |
| switch_conc | and when two threads interleave? | 2 threads, 2 proxies, 1 interceptor, multi and shared, delay 0 | holds |
| mode_race | is a unique hook alone at its target? | 2 threads, unique and multi | violated |
| task | are pending hooks done, undone ones not, callbacks told, and do dlopen and init return? | 2 threads, 2 tasks by name, 1 by address, 1 user callback, failures, recording; 6 scenarios | holds |
| task_lost | is every pending hook done when its library is loaded? | 2 threads, 1 task | violated |
| task_stale | does handing back a stub leave the others' hooks alone? | unique mode, 2 tasks by address | violated |
| task_deadlock | do two threads never wait for each other? | recording on | violated |
| hub | do frames match, does every enabled proxy run, once, and none again? | 2 functions, 3 proxies, 3 frames, call depth 4 | holds |
| hub_reentry | is a shared proxy never entered again unless it allowed it? | a multi proxy that comes and goes behind the hub | violated |
| island | one owner per slot or unit, none lost, none outside a gap, a rest before reuse, abort() unreachable; is ShPool implemented? | 2 threads and the linker, 1 page of 2 slots, 2 ELFs at one base, delay 1, clock 2..4 | holds |
| inst | does a program run as if nothing had been hooked, while it is hooked, rehooked and unhooked, and does nothing leak? | 328 cases: every rewritten type of arm64, arm and thumb; 1 thread beside the one that hooks | holds |

**The properties.** ref: `NoUseAfterFree`, `BodyOnRegistered` (a handler works on the registry's object, not on an
orphan), `DestroyedOnce`, `GraceElapsed`, `CallsReturn`, and `RefInv`, the inductive invariant that the proofs use.
switch_seq: `GrantedRuns`, `OnlyGrantedRuns`, `ChainEnds`, `UniqueAlone` (the chain is read when no handler is at
work). switch_conc: `UnhookFinds` (an action property: an unhook of a granted stub in mapped memory never answers that
there is no switch or that it is of another mode), `NoDanglingJump`, `PatchedIsFindable`. task: `CountExact` (the
counter that gates the search for pending tasks), `CollectedNotFreed`, `LoadedInForce`, `NoHookAfterUndo`,
`DlopenReturns`, `CallbacksTell` (a registered callback hears of a load and a close in order and once),
`NoCallAfterUnregister`, `InitEndsOrWaits`. inst: `NothingLeaks`, `PatchSound` (the target holds its instruction or a
branch to an exit island in use, also half-way through a rehook), `ResumeRight` (between two instructions the two
processors agree in place, registers, stack and flags), `InterceptorSees` (the glue finds every register as the
program left it), `EnterFits` (the code fits in an enter trampoline, and has the lengths that fix_addr counts with).
hub: `FramesMatch`, `AllRun`, `EachOnce`, `NoReentryUnlessRelinked`. island: `OneOwner`, `GraceBeforeReuse`,
`NoAbort`, `KeepsPool` (the abstract specification as a property), `IslandsApart`, `NothingLost` (what is taken is
somebody's, also across a dlclose), `GapsHarmless` (no gap has a byte the ELF uses), `GapGrace`. The comment above
each definition states it.

**Bounds.** Two threads: every race in the code is between one thread that found an object and one that changes it; in
ShRef, ShTrampo and ShIsland the theorems remove the bound. The `island` run has one page of two slots: enough to be
full, and a range that begins between the two lets the page but not its first slot be used, which is what the test of
sh_trampo.c:127 is about. Only the gap behind .bss and the one of the useless symbol are in any range there; that the
others are harmless rests on `GapsHarmlessHolds`. In `switch_seq` a retired switch is freed at once, so that a call of
a target that still jumps into it is reached; `GrantedRuns` is checked for one thread there, and its race is left to
`GrantedRunsHolds`. Two objects let a key be created again after its object was retired, the case the "try again"
protocol is for. Three proxies give a head, a middle and a tail of the chain. Two tasks by name and one by address
cover a task that is collected while another is undone. In ShHub the calling threads share only the lists, so one
thread with a list that changes under it stands for any number; three frames allow the nesting A, B, A and a full
stack. `task` gives each scenario only what it is about: pending hooks with failing loads; one hook by name and one by
address with recording; initialisation with every failure; hooks with disabling and second opens; a user's callbacks
with failing loads; a user's callbacks with a hook by address. A library has one address there, so that a reload meets
what the last load left behind. `inst` scales addresses: a branch reaches 128 bytes (`Reach`), an enter has its real
64 (`EnterSize`), islands are 32 apart (`Apart`) or at the end of the range, where an off-by-one shows; a call begins
with at most two areas resting (`MaxResting`), a reload with at most one lost (`MaxLost`). A thumb program has up to
three instructions, so that the moved ones are one long, two short, a short and a long, or an IT block alone or after
another. Clocks are bounded so that a delay can pass and a reading can be stale by one tick.

**Fairness.** `ref`: WF on every step of a call that has begun (a thread in the library keeps running) and SF on
taking a lock (a mutex that is released again and again is had by a waiter at last). `task`: the same two, for the
steps of calls (`Work`, with the callbacks of users: they return) and for the steps that wait for a mutex (`Wait`).
Nothing is assumed of the callers or of the linker: no hook, unhook, dlopen or dlclose need ever happen.
`DlopenReturns` and `InitEndsOrWaits` except a wait cycle (`WaitCycle`). There are three: the one of `task_deadlock`;
with recording on, an unhook that records under its task's lock (sh_task.c:504, :532) and wants the linker's mutex,
against a dlopen that collected the task and wants its lock (sh_task.c:270); and one that shadowhook.c:90 has with the
linker's mutex when a library's constructors initialise shadowhook while another thread does and loads the empty
library (doc/manual.md:142 says to initialise early).

**Assumptions.** *inst*: no thread is between two of the overwritten instructions when the branch is written, and
the write is seen whole (`SafeToPatch`; the code has no way to ensure either); no thread is in an ELF that is
closed; an area is used again only when no thread is in it, which is what the delay is for; each hook has an
`orig` word of its own. *task*: a library's constructors call nothing but shadowhook_init; users' callbacks call nothing of
the library.

**Exemptions**, each in the property it concerns. `LoadedInForce` exempts `late` tasks (see `task_lost`), tasks that
failed, and targets on which such a call left a stale switch. `BodyOnRegistered` allows a sweep to hold the object.
`OnlyGrantedRuns` and `NoHookAfterUndo` allow residue, `ChainEnds` a jump that is `Gone`. `UnhookFinds` is about
memory that is mapped. `AllRun` exempts a call that found the stack full, or for whose thread no stack could be
created (sh_hub.c:337). `ResumeRight` exempts what a function may not rely on at its start (the IP registers), an X17
that the moved instruction wrote (sh_a64.c jumps through it, when it does not jump through X16), and the flags after
TBB and TBH, which sh_t32.c rewrites with ADDS; a hint (PLD, PRFM) may name another address when it was about the
moved instructions. `EnterFits` exempts IT blocks, whose rewritten code may be longer than an enter: the code checks
this nowhere, so that hazard (sh_inst.c of arm) has no property.

## 4. What disagrees with the documentation

* `mode_race` (sh_switch.c:598): a unique hook and a multi hook that race for a new switch both succeed;
  doc/manual.md:249 says they cannot coexist.
* `task_lost` (sh_task.c:427): a library that is loaded between a hook's lookup and the insertion of its
  task never gets the hook; doc/manual.md:735 and :533.
* `task_stale` (sh_switch.c:748): in unique mode the stub of an ELF that was closed removes, after a
  reload, a hook made since; doc/manual.md:231.
* `task_deadlock` (sh_recorder.c:245): with recording on, a hook call takes dlcache_lock and then the
  linker's mutex, a dlopen with pending tasks takes them in the other order.
* `hub_reentry` (sh_hub.c:346): a hub is recognised by its `orig_addr`, which a multi hook at the same
  address changes; a shared proxy is then entered again; doc/manual.md:982.

## 5. The proofs

All checked by TLAPS, for every value of the constants that satisfies the module's ASSUME.

**ShRefProofs.** `RefInv` is inductive together with `TypeOK` (`RefInvariant`). Its parts: `CountExact` (every
count is owned by a thread), `PlaceInv` (what a thread holds and locks at each place of its call),
`UnbornInv`, `OneKey`, `RetiredInv` (what waits for its end was destroyed and unheld; the registry has
only what was not), `ClockInv`, `FoundInv` (until it is destroyed an object found under a key is the
registry's, a sweep's, or being retired) and `DestroyedOnce`. The safety properties alone are not
inductive: that nothing held is freed needs that counts are exact and that a freed object was out of
the registry, so that nobody can find it again; that needs to know how far each retirement has got.
There is one lemma per conjunct and in it one step per action that can disturb it. From it follow
`TypeCorrect`, `NoUseAfterFreeHolds`, `BodyOnRegisteredHolds`, `DestroyedOnceHolds`, `GraceElapsedHolds`.

**ShSwitchProofs and ShChainProofs.** `SwitchImplementsRef`: Spec => RefSpec. Every action of ShSwitch is an action of
ShRef or leaves ShRef's variables alone (the refinement mapping is the identity on them). `SwitchesAreSafe` transfers
the theorems, and the rest builds on `RefInv`. `SwitchInv` is inductive with it (`SwitchInvariant`): `SwitchTypes`;
`OpInv` (what a thread knows of its own call); `AddrInv` (a *live* switch, one that nobody has begun to take down, is
the only one at its address); `WholeInv` (a live switch is a unique hook, an interceptor alone, or a queue that
`*orig_addr` follows to the original code); `FreshInv` (a switch no target jumps to is being hooked); `ClaimInv`
(every stub is in the live switch of its target, until the handler of its unhook has run); `OwnedInv` (what is in a
live switch is some stub's, or residue); `TopInv` and `PatchInv` (a target jumps where its live switch says, and is
patched by no other). `GrantedRuns` alone is not inductive: a step of one thread on a switch says nothing about stubs
unless one knows which switch a stub is in, that it is the only live one, and that its queue is whole. ShChainProofs
has the part about one switch: what each operation of sh_switch.c makes of its record, and that a call visits exactly
the queue (`ChainWhole`). `Chain` is a recursive function, so what it computes is shown without an induction theorem,
by taking the least step at which it would go wrong (`LeastNumber`). `UnhookFinds` is a property of steps; it follows
from what `ClaimInv` says of a thread in its unhook's handler, and, for the lookup that finds nothing, from the stub's
switch being in the registry until that handler; `AnswerInv` says it of every state. Two hypotheses appear in the
statements. `ModesSettle`: there is no unique mode, or only one thread; without it `mode_race` shows a unique hook
linked into a queue. `"unhook" \notin Faults` in `ChainEndsHolds`, `OnlyGrantedRunsHolds`, `NoDanglingJumpHolds` and
`PatchedIsFindableHolds`: when the restoring of a target fails, the switch is retired although the target still jumps
into it, and nothing keeps that patch in step with the next switch; with such failures, and the frees after them, the
first two are model-checked (`switch_seq`, for jumps that are not `Gone`) and the last two are not claimed.
`GrantedRunsHolds`, `UniqueAloneHolds` and `UnhookFindsHolds` hold with every failure.

**ShTrampoProofs.** `TrampoInv` = types, `OneOwner` and `Remembered` (a flag remembers when the owner gave
the slot back; a page that is not in the list was never given back; a clock reading is not later than
the clock) is inductive. `TrampoSafe`, `TrampoGrace` and `TrampoNoAbort` follow; the last rests on `PageTestExact`, an
arithmetic lemma: a page that passes the range test has a slot that starts in the range.
`TrampoImplementsPool`: Spec => Pool!Spec, from the same invariant, one step per action.

**ShIslandProofs.** First the gaps, for any program headers whose segments are in the order of their addresses and
share no page, and useless symbols that lie in segments and do not overlap (`ElfConstants`; what the linker and the
compiler see to): a gap has no byte of a segment but those of its symbol (`GapBytes`), and two gaps of an ELF share
none (`GapsApart`). Then the allocators at work. Every step of ShIsland is a step of ShTrampo or leaves its variables
alone, so the theorems about pages hold of the islands (`IslandsUsePages`). `Invariance`: `Inv`, that is `TrampoInv`,
`PageInv` (the slots that are out are the islands of hooks) and, as long as no hook came too late for its ELF,
`ElfInv`, is inductive. The parts of `ElfInv`: `HookInv` (a hook in a call of sh_elf.c is in the tree of switches or a
dlclose waits for it, so its ELF is in memory), `CloseInv` (how far a dlclose has got, and that ELFs in memory share
no page), `ListInv` (one object per ELF in memory, none of one that was cleaned up), `UseInv` (a hook at work on an
object has its own ELF's, or one that only it knows), `OwnerInv`, `ApartInv` and `UsedInv` (the units in use are those
of the islands and of the calls that give one back, each its own), and `RestInv` (the time of a unit that is not in
use is not before it was given back last; between the clock's reading and the object's lock the freeing call has it).
`IslandsApart` alone is not inductive: taking a unit that no flag marks says nothing about the other islands unless
all of them are marked in this very object, and that needs that there is one object per ELF, which a thread that just
made a second and one that closes the ELF both endanger. `GapGrace` needs it as well: a second object would have no
time for the unit. `IslandsApartHolds`, `NothingLostHolds`, `GapsHarmlessHolds` and `GapGraceHolds` follow. All are
claimed until the first late hook (see hazards), as the properties are.

**ShInstProofs.** `AreasInv` is inductive: types, `Accounted` (what is out is the record's or lost, and the record's
is out), `OnceHeld` (the record of a patch holds no area twice, and none that is lost) and `HeldAtStep` (what it may
hold at each step of a call). `LossInv` adds how areas may be lost: by a patch that could not be undone, or as the
island of a rewritten branch. `NothingLeaks` follows from `Accounted` and `LossInv`; alone it is not inductive: giving
back the old exit island would be a leak or a double free if it were also the new one, and a hook that fails must not
have an exit island yet. `IslandIsNew` says that an allocator's choice is nobody's; nothing else is used of the
ranges, the programs or the rewriting, so the theorems hold for every one of them.

**ShTaskProofs.** `CallInv` is inductive: types, and of each thread `Sound`: its call fits its step (`JobAt`), it
owns the linker's mutex if its call is a dlopen or a dlclose, and while it walks through a list it has the list's
lock and what it has yet to call is in the list. `NoCallAfterUnregister` alone is not inductive: it speaks of the
callback that runs, and the next one to run comes from the rest of the walk; the walk's list changes only under the list's
lock, which the walk holds until its end. The tasks' callbacks are callbacks of a walk, and their steps are
other actions (those of ShTask), so the theorem is about the composition: there is a lemma for each action of both
modules. `OneInLinker` is the part of `CallInv` about the mutex.

`TaskInv` is inductive given `CallInv` (`TaskInvariant`). `OwnInv` says who has a task: what a thread that hooks,
hands back or does it may rely on (`JobInv`), that what a load or a close has collected is in the list or its end
waits (`WorkInv`), and that a count is the number of those that collected it or hand it back (`CountInv`).
`UnfinishedInv` says which tasks sh_tasks_unfinished_cnt counts in the middle of a call, where it is not the number of
unfinished tasks in the list: a task that is undone while a dlopen is about to finish it is taken off once, by whoever
has its lock first. `PlaceInv` ties a load or close to its library, `HookInv` a patched address to tasks that are done
and not undone. The latter makes an exception for a library that is closed and was swept: a hook whose lookup came
before may patch it until its memory is gone; and for residue, what failed unhooks left there. `CountExactHolds`,
`CollectedNotFreedHolds` and `NoHookAfterUndoHolds` follow, without hypotheses.

`StoryInv` is inductive given both (`StoryInvariant`), and `CallbacksTellHolds` follows. `TellInv` says what each
steady callback has heard at every step of a load or close: as many parts of `Story` as the walks before, plus one if
it is not among the callbacks left to call. What a walk adds is that part exactly once because no list has a callback
twice (`OnceInv`: sh_linker_register_dl_init_callback refuses one, and the rest of a walk is a suffix of the list it
began with). A close tells what the load told because the two proxies decide alike: once initialisation ended, both
functions are hooked, the scan is over and the list is not empty, for good (`InitInv`), so that `did` depends on the
library's phase only (`PhaseInv`).

`EffectInv` is inductive given all of it (`EffectInvariant`), and `LoadedInForceHolds` follows. It says what is known
of each task by name, other than the `late` ones, at each stage of its library (`Stands`): while the library is out, a
task in the list has no address (`Pends`); once a load has collected, it is among those collected, is being done, or
is done at the library's address (`Doing`); while the library is in, done (`Holds`); once a close has collected, among
those collected or without an address again (`Resets`). A close without the callbacks (initialisation had not ended
when it began) finds no task at all (`Misses`). It also says where a call stands that has looked its library up and is
not in the list yet (`Flies`), since a load or a close between the two makes it `late`. The steps of tasks leave each
task's part as it is (`Keeps`), those of the load or close take one stage to the next, and the walk gets to the tasks'
callback because it is in both lists (`InitInv`) and `did` holds (`PhaseInv`). The hypothesis is `AloneUnique`: no
task by name shares the unique mode with another task. sh_switch_unhook_unique takes whatever unique proxy it finds,
so that the stub of a closed library can take out the hook of another loaded in its place, as `task_stale` shows.

**ShHubProofs.** `HubInv` is inductive: the types, among them those of a walk, and for each thread `InProxy` (a
walk that reads the newest frame is in a proxy that has one), `Compared` (the call a frame is about to be
pushed for differs from every frame that does not allow it, though frames may have changed since
sh_hub_push_stack compared them) and `Apart` (any two frames differ in their `orig`, or the older one allows
it). `ReentryNeedsRelink` needs more than it says: it speaks of two frames of one hub, but a step can only
be shown to preserve `Apart`, which does not ask whose frames they are, because the code compares nothing
else. `HubTypeCorrect` includes that no stack outgrows SH_HUB_STACK_FRAME_MAX; it rests on `AfterIn`, what
the search of sh_hub_get_prev_func returns, which rests on the least element of a set of numbers.

`StackInv` is about what a call runs. It says of each thread that some increasing function maps its frames to its
activations (`Fits`): frame n belongs to the first proxy of a call (`Marks`), the proxies that run in it
are of its list, in its order (`InList`, `InOrder`), and one that stays enabled has run in it or is in
the list behind all that have (`Kept`); of each activation, which may be its caller (`Callers`); of a walk, that
it reads the end of a list, behind what runs (`WalkFits`); and that what a call noted as enabled still is (`Steady`).
`FramesMatch` alone is not inductive: whether a return pops a frame is decided by the return address only,
so one has to know that no other activation in the frame was called from that place. This is where `JumpsEnd` is used, the
hypothesis that the tail jumps follow a strict order: two calls made from one place by the same proxy in one frame would
need a jump that leads back. `FramesMatchHolds`, `EachOnceHolds` and `AllRunHolds` follow. FramesMatch is stated
with a function from frames to activations and not with SelectSeq, whose values need an induction.

**Only model-checked:** liveness (`CallsReturn`, `DlopenReturns`, `InitEndsOrWaits`), `ChainEnds` and `OnlyGrantedRuns` with
failing restorations, and of ShRun what
the code does (its meaning is computed by folds over sequences, which need an induction).

## 6. What is not modelled

*Instructions*: decoding (sh_a64_get_type and the like read bits; a case is given decoded), the configuration without islands
(off), sh_inst's tests of how long a symbol is (one of the ways "rewrite fails"), instructions whose
destination is SP among those that sh_a32.c rewrites with push and pop, the saving and restoring of registers
within sh_glue.S, and builds that do not define SH_CONFIG_CORRUPT_IP_REGS.
*Linker*: how soinfo's fields are recognised, the mutex of 32-bit builds, Android 4.
*API*: checks of arguments, the default mode, shadowhook_dlopen and dlsym (xDL's search), JNI.
*sh_switch.c*: hook_invisible (keeps no switch) and the union of interceptors' register flags; a call that walks
through the chain while it changes. *sh_task.c*: interceptions (the same steps). *sh_hub.c*: the cache of stacks.
*sh_recorder.c* (but for its locks) and *common/bytesig.c*: a growing buffer and a signal handler; their hazards are
listed without a property. sh_util.c (but for the clock), sh_xdl.c, sh_errno.c, sh_safe.c, sh_log.c: no
protocol of their own. Java and JNI: forwarding. third_party: vendored. libshadowhook_nothing is an empty
library, the one `ScanNothing` loads.

## 7. The plan

Order: the life cycle everything else relies on, then the switches, then the tasks that drive them
from the linker, then what runs during a call, then memory, then the code itself, then the rest.

1. *Done*: ShRef, ShSwitch, ShLinker, ShTask, ShHub, ShTrampo, ShElf, ShIsland, ShInst and ShRun with the rewriting of
   three instruction sets, with their runs; two refinements (ShRef by ShSwitch, ShPool by ShTrampo); proofs of ShRef,
   both refinements, ShTrampo, ShIsland, ShSwitch's chain, ShHub, ShInst's areas, ShLinker's lists of callbacks and
   ShTask's tasks, with what callbacks hear and what they have done once a library is in.
2. *Modules left*: `ShRecorder` (strings and records, failed appends) and `ShSig` (bytesig protect, unprotect,
   handler); interceptions in ShTask; a call through a changing chain in ShSwitch.
3. *Next theorems*: the chain of ShSwitch (`ChainEnds`, `OnlyGrantedRuns`) with failing restorations.
4. *Abstract specifications*: an abstract hook set, "a call runs the hooks granted", for ShSwitch; ShTask's tasks
   follow ShRef's protocol without a delay and could refine it.
