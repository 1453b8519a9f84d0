------------------------------ MODULE ShSwitch ------------------------------
(***************************************************************************)
(* The switches (sh_switch.c): one per hooked target address, holding the  *)
(* proxies of a unique hook or of a queue of multi and shared hooks, the   *)
(* hub all shared proxies of the target sit behind, and the interceptors   *)
(* behind the glue launcher.  A call to a patched target runs              *)
(*                                                                         *)
(*   target -> start -> (glue: interceptors, then proxy)                   *)
(*          -> each proxy's *orig_addr in turn -> resume                   *)
(*                                                                         *)
(* A switch is created, found, locked, retired and freed as ShRef says:    *)
(* every action here conjoins a handler with the ShRef step it is part of. *)
(* The code under a switch's lock is one action; what runs while hooked    *)
(* functions are being called is ShHub's subject.                          *)
(***************************************************************************)
EXTENDS ShRef, Sequences, SequencesExt

CONSTANTS
  Proxy,   \* proxy functions
  Icept,   \* (interceptor function, data) pairs
  Modes,   \* hook modes the callers use: a subset of {"unique", "multi", "shared"}
  Faults,  \* steps that may fail: a subset of {"hook", "rehook", "unhook", "oom"}
  NULL, RESUME, GLUE, HUB

ASSUME SwitchAssumption ==
  /\ IsFiniteSet(Proxy) /\ Proxy \cap Icept = {}
  /\ {NULL, RESUME, GLUE, HUB} \cap (Proxy \cup Icept) = {}
  /\ NULL \notin {RESUME, GLUE, HUB} /\ RESUME \notin {GLUE, HUB} /\ GLUE # HUB
  /\ Modes \subseteq {"unique", "multi", "shared"}
  /\ Faults \subseteq {"hook", "rehook", "unhook", "oom"}

VARIABLES
  sw,      \* the contents of each switch
  code,    \* the patches [sw, to] on each target, the latest first: it runs first,
           \* and what it replaced (an earlier patch, or nothing) is what it resumes
  mapped,  \* target addresses whose ELF is loaded
  op,      \* what each thread was asked: [act, stub]
  ret,     \* what its call is about to return
  stubs,   \* hooks and interceptions granted and not yet handed back
  residue  \* those whose removal failed half-way

switchVars == <<sw, code, mapped, op, ret, stubs, residue>>
vars == <<refVars, switchVars>>

Node == Proxy \cup {HUB}
Stub == [key : Key, kind : Modes \cup {"intercept"}, who : Proxy \cup Icept]

NewSwitch == [mode |-> "none", start |-> NULL, proxy |-> NULL, queue |-> <<>>,
              orig |-> [a \in Node |-> NULL], hub |-> {}, glue |-> FALSE,
              icept |-> {}, isize |-> 0, addr |-> NULL]
NoOp == [act |-> "none"]

Init ==
  /\ RefInit
  /\ sw = [o \in Obj |-> NewSwitch]
  /\ code = [k \in Key |-> <<>>]
  /\ mapped = Key
  /\ op = [t \in Thread |-> NoOp]
  /\ ret = [t \in Thread |-> "ok"]
  /\ stubs = {}
  /\ residue = {}

-----------------------------------------------------------------------------
(* The proxy-info queue.                                                   *)

Position(s, a) == CHOOSE i \in 1 .. Len(s.queue) : s.queue[i] = a
Duplicated(s, p) == Contains(s.queue, p) \/ (Contains(s.queue, HUB) /\ p \in s.hub)

\* Mutants of Linked: the link is forgotten; the new node's own pointer is.
Linked_NoLink(s, a) ==
  IF s.queue = <<>>
  THEN [s EXCEPT !.orig[a] = RESUME, !.queue = <<a>>, !.mode = "queue", !.proxy = a]
  ELSE [s EXCEPT !.orig[a] = RESUME, !.queue = Append(@, a)]
Linked_NoOrig(s, a) ==
  IF s.queue = <<>>
  THEN [s EXCEPT !.orig[a] = RESUME, !.queue = <<a>>, !.mode = "queue", !.proxy = a]
  ELSE [s EXCEPT !.orig[Last(s.queue)] = a, !.queue = Append(@, a)]

\* A node at the end: its *orig_addr first, then the link to it.
Linked(s, a) ==
  IF s.queue = <<>>
  THEN [s EXCEPT !.orig[a] = RESUME, !.queue = <<a>>, !.mode = "queue", !.proxy = a]
  ELSE [s EXCEPT !.orig = [@ EXCEPT ![a] = RESUME, ![Last(s.queue)] = a],
                 !.queue = Append(@, a)]

\* sh_switch_proxy_add for a proxy that is not duplicated.
Added(s, p, mode) ==
  CASE mode = "multi" -> Linked(s, p)
    [] mode = "shared" ->
         LET s1 == [s EXCEPT !.hub = @ \cup {p}, !.orig[p] = RESUME]
         IN IF Contains(s.queue, HUB) THEN s1 ELSE Linked(s1, HUB)

\* sh_switch_proxy_del for a shared proxy, before the queue is touched: the
\* hub leaves the queue with its last proxy.
LeavesQueue(s, p, mode) == mode = "multi" \/ s.hub = {p}
NodeOf(p, mode) == IF mode = "multi" THEN p ELSE HUB
WithoutShared(s, p, mode) == IF mode = "shared" THEN [s EXCEPT !.hub = @ \ {p}, !.orig[p] = NULL] ELSE s

\* Deleting the head while the target jumps to it needs the target rewritten.
NeedsRehook(s, a) == Head(s.queue) = a /\ Len(s.queue) > 1 /\ s.proxy = s.start

\* (The code leaves a's own *orig_addr as it is; nothing here reads it again.)
Unlinked_NoRelink(s, a) ==  \* mutant: the node before it keeps its pointer
  LET q == RemoveAt(s.queue, Position(s, a))
  IN IF q = <<>> THEN [s EXCEPT !.queue = q, !.mode = "none", !.proxy = NULL, !.orig[a] = NULL]
     ELSE [s EXCEPT !.queue = q, !.proxy = q[1], !.start = IF NeedsRehook(s, a) THEN q[1] ELSE @]
Unlinked(s, a) ==
  LET i == Position(s, a)
      n == Len(s.queue)
      u == [s EXCEPT !.queue = RemoveAt(@, i), !.orig[a] = NULL]
  IN CASE i > 1 ->
            [u EXCEPT !.orig[s.queue[i - 1]] = IF i < n THEN s.queue[i + 1] ELSE RESUME]
       [] i = 1 /\ n > 1 ->
            [u EXCEPT !.proxy = s.queue[2], !.start = IF NeedsRehook(s, a) THEN s.queue[2] ELSE @]
       [] i = 1 /\ n = 1 -> [u EXCEPT !.mode = "none", !.proxy = NULL]

\* The interceptor list: its enabled members and interceptors_size.
Enabled_NoCount(s, x) == [s EXCEPT !.icept = @ \cup {x}]  \* mutant: the size stays
Enabled(s, x)  == [s EXCEPT !.icept = @ \cup {x}, !.isize = @ + 1]
Disabled(s, x) == [s EXCEPT !.icept = @ \ {x}, !.isize = @ - 1]

-----------------------------------------------------------------------------
(* Steps of the switch under its lock.                                     *)

This(t) == sw[self[t]]
KeyOf(t) == op[t].stub.key
Who(t)  == op[t].stub.who
KindOf(t) == op[t].stub.kind

Doing(t, act, kinds) ==
  At(t, "body") /\ ~Destroyed(self[t]) /\ op[t].act = act /\ KindOf(t) \in kinds

\* The switch's new contents; the target follows its start address (sh_inst_hook
\* for the first one, sh_inst_rehook for another).
Set(t, s) ==
  /\ sw' = [sw EXCEPT ![self[t]] = s]
  /\ LET k     == This(t).addr
         below == IF This(t).start = NULL THEN code[k] ELSE Tail(code[k])
     IN code' = IF s.start = This(t).start THEN code
                ELSE [code EXCEPT ![k] = <<[sw |-> self[t], to |-> s.start]>> \o below]

Returns(t, r) == ret' = [ret EXCEPT ![t] = r]
Top(k) == Head(code[k])
Grant(t) == stubs' = stubs \cup {op[t].stub}
Same == UNCHANGED <<sw, code>>
MayFail(step) == step \in Faults

\* First hook of a switch: [hook_unique | hook_multi | hook_shared], not hooked.
HookFirst(t) ==
  /\ Doing(t, "hook", Modes) /\ This(t).start = NULL
  /\ LET fresh == [This(t) EXCEPT !.proxy = Who(t)]
         s == IF KindOf(t) = "unique" THEN [fresh EXCEPT !.orig[Who(t)] = RESUME]
              ELSE Added(fresh, Who(t), KindOf(t))
     IN \/ Keep(t) /\ Set(t, [s EXCEPT !.start = s.proxy]) /\ Grant(t) /\ Returns(t, "ok")
        \/ /\ MayFail("hook")
           /\ Retire(t) /\ Returns(t, "fault") /\ UNCHANGED <<sw, code, stubs>>
  /\ UNCHANGED <<mapped, op, residue>>

\* Mutant: hook_unique without the test for a proxy.
HookUniqueMore_Unchecked(t) ==
  /\ Doing(t, "hook", {"unique"}) /\ This(t).start # NULL
  /\ Keep(t)
  /\ Set(t, [This(t) EXCEPT !.mode = "unique", !.proxy = Who(t), !.orig[Who(t)] = RESUME])
  /\ Grant(t) /\ Returns(t, "ok")
  /\ UNCHANGED <<mapped, op, residue>>

\* hook_unique on a hooked target: only behind interceptors alone.
HookUniqueMore(t) ==
  /\ Doing(t, "hook", {"unique"}) /\ This(t).start # NULL
  /\ Keep(t)
  /\ IF This(t).proxy = NULL
     THEN /\ Set(t, [This(t) EXCEPT !.mode = "unique", !.proxy = Who(t), !.orig[Who(t)] = RESUME])
          /\ Grant(t) /\ Returns(t, "ok")
     ELSE /\ UNCHANGED <<sw, code, stubs>>
          /\ Returns(t, IF This(t).mode # "unique" THEN "conflict" ELSE "dup")
  /\ UNCHANGED <<mapped, op, residue>>

\* hook_multi and hook_shared on a hooked target.
HookQueueMore(t) ==
  /\ Doing(t, "hook", {"multi", "shared"}) /\ This(t).start # NULL
  /\ Keep(t)
  /\ LET s == This(t)
     IN \/ /\ s.mode # "unique" /\ ~Duplicated(s, Who(t))
           /\ Set(t, Added(s, Who(t), KindOf(t))) /\ Grant(t) /\ Returns(t, "ok")
        \/ /\ \/ s.mode = "unique" /\ Returns(t, "conflict")
              \/ s.mode # "unique" /\ Duplicated(s, Who(t)) /\ Returns(t, "dup")
              \/ MayFail("oom") /\ s.mode # "unique" /\ Returns(t, "fault")
           /\ UNCHANGED <<sw, code, stubs>>
  /\ UNCHANGED <<mapped, op, residue>>

InstUnhook_NoRestore(t, s) ==  \* mutant: the target keeps its jump
  /\ Retire(t) /\ Returns(t, "ok")
  /\ sw' = [sw EXCEPT ![self[t]] = s] /\ UNCHANGED <<code, residue>>

\* The last user of a hooked target is gone: restore it, retire the switch, and do
\* the latter even when the former fails (then a call still finds its way: the
\* *orig_addr values and the enter trampoline are as they were).
InstUnhook(t, s) ==
  /\ Retire(t)
  /\ \/ /\ code' = [code EXCEPT ![This(t).addr] = Tail(@)] /\ Returns(t, "ok")
        /\ sw' = [sw EXCEPT ![self[t]] = s]
        /\ residue' = IF code'[KeyOf(t)] = <<>> THEN {st \in residue : st.key # KeyOf(t)}
                      ELSE residue
     \/ /\ MayFail("unhook") /\ UNCHANGED code /\ Returns(t, "fault")
        /\ sw' = [sw EXCEPT ![self[t]] = [s EXCEPT !.orig = This(t).orig]]
        /\ residue' = residue \cup {op[t].stub}

\* unhook_unique: whatever proxy is there, if the mode says unique.
UnhookUnique(t) ==
  /\ Doing(t, "unhook", {"unique"})
  /\ LET s    == This(t)
         less == [s EXCEPT !.mode = "none", !.proxy = NULL, !.orig[Who(t)] = NULL]
     IN \/ /\ s.start = NULL \/ s.mode # "unique"
           /\ Keep(t) /\ Same /\ Returns(t, IF s.start = NULL THEN "notfound" ELSE "conflict")
           /\ UNCHANGED residue
        \/ /\ s.start # NULL /\ s.mode = "unique"
           /\ \/ s.isize = 0 /\ InstUnhook(t, less)
              \/ s.isize # 0 /\ Keep(t) /\ Set(t, less) /\ Returns(t, "ok") /\ UNCHANGED residue
  /\ UNCHANGED <<mapped, op, stubs>>

\* unhook_multi and unhook_shared.
UnhookQueue(t) ==
  /\ Doing(t, "unhook", {"multi", "shared"})
  /\ LET s    == This(t)
         kind == KindOf(t)
         p    == Who(t)
         node == NodeOf(p, kind)
         s1   == WithoutShared(s, p, kind)
         s2   == IF LeavesQueue(s, p, kind) THEN Unlinked(s1, node) ELSE s1
         there == IF kind = "multi" THEN Contains(s.queue, p) ELSE p \in s.hub
     IN \/ /\ s.start = NULL \/ (s.mode = "queue" /\ ~there)
           /\ Keep(t) /\ Same /\ Returns(t, "notfound") /\ UNCHANGED residue
        \/ /\ s.start # NULL /\ s.mode # "queue"
           /\ Keep(t) /\ Same /\ Returns(t, "conflict") /\ UNCHANGED residue
        \/ /\ s.start # NULL /\ s.mode = "queue" /\ there
           /\ \/ /\ s2.queue = <<>> /\ s2.isize = 0
                 /\ InstUnhook(t, s2)
              \/ /\ s2.queue # <<>> \/ s2.isize # 0
                 /\ Keep(t) /\ Set(t, s2) /\ Returns(t, "ok") /\ UNCHANGED residue
              \/ /\ MayFail("rehook") /\ LeavesQueue(s, p, kind) /\ NeedsRehook(s, node)
                 /\ Keep(t) /\ Set(t, s1) /\ Returns(t, "fault")
                 /\ residue' = residue \cup {op[t].stub}
  /\ UNCHANGED <<mapped, op, stubs>>

\* intercept_impl: to the glue launcher first, then into the list.
Intercept(t) ==
  /\ Doing(t, "hook", {"intercept"})
  /\ LET s     == This(t)
         glued == [s EXCEPT !.glue = TRUE, !.start = GLUE]
         full  == IF Who(t) \in s.icept THEN glued ELSE Enabled(glued, Who(t))
     IN \/ /\ Keep(t) /\ Set(t, full)
           /\ IF Who(t) \in s.icept THEN Returns(t, "dup") /\ UNCHANGED stubs
              ELSE Returns(t, "ok") /\ Grant(t)
        \/ /\ MayFail("oom")                       \* in interceptor_add
           /\ Who(t) \notin s.icept
           /\ Keep(t) /\ Set(t, glued) /\ Returns(t, "fault") /\ UNCHANGED stubs
        \/ /\ s.start = NULL /\ MayFail("hook")    \* in inst_hook
           /\ Retire(t) /\ Same /\ Returns(t, "fault") /\ UNCHANGED stubs
        \/ /\ s.start \notin {NULL, GLUE} /\ MayFail("rehook")
           /\ Keep(t) /\ Set(t, [s EXCEPT !.glue = TRUE]) /\ Returns(t, "fault")
           /\ UNCHANGED stubs
  /\ UNCHANGED <<mapped, op, residue>>

\* unintercept: the last interceptor hands the target back to the proxies.
Unintercept(t) ==
  /\ Doing(t, "unhook", {"intercept"})
  /\ LET s    == This(t)
         less == Disabled(s, Who(t))
     IN \/ /\ s.start = NULL \/ Who(t) \notin s.icept
           /\ Keep(t) /\ Same /\ Returns(t, "notfound") /\ UNCHANGED residue
        \/ /\ s.start # NULL /\ Who(t) \in s.icept
           /\ \/ /\ less.isize = 0 /\ s.proxy = NULL
                 /\ InstUnhook(t, less)
              \/ /\ less.isize = 0 /\ s.proxy # NULL
                 /\ Keep(t)
                 /\ \/ /\ Set(t, [less EXCEPT !.start = s.proxy])
                       /\ Returns(t, "ok") /\ UNCHANGED residue
                    \/ /\ MayFail("rehook")
                       /\ Set(t, less) /\ Returns(t, "fault")
                       /\ residue' = residue \cup {op[t].stub}
              \/ /\ less.isize # 0
                 /\ Keep(t) /\ Set(t, less) /\ Returns(t, "ok") /\ UNCHANGED residue
  /\ UNCHANGED <<mapped, op, stubs>>

\* The sweep of a dlclose: the target's memory goes away, nothing is restored.
FreeAfterDlclose(t) ==
  /\ At(t, "body") /\ call[t].kind = "dlclose"
  /\ Retire(t)
  /\ code' = [k \in Key |-> IF k \in call[t].keys /\ code[k] # <<>> /\ Top(k).sw = self[t]
                            THEN <<>> ELSE code[k]]
  /\ residue' = {st \in residue : st.key \notin call[t].keys}
  /\ UNCHANGED <<sw, mapped, op, ret, stubs>>

-----------------------------------------------------------------------------
(* The callers and the rest of a call.                                     *)

Busy(k) == {u \in Thread : op[u].act # "none" /\ op[u].stub.key = k}

\* A hook or interception of a target whose ELF stays loaded meanwhile.
CallHook(t, st) ==
  /\ st.key \in mapped
  /\ (st.who \in Icept) <=> st.kind = "intercept"
  /\ Begin(t, "get", {st.key})
  /\ op' = [op EXCEPT ![t] = [act |-> "hook", stub |-> st]] /\ Returns(t, "ok")
  /\ UNCHANGED <<sw, code, mapped, stubs, residue>>

\* A caller hands a stub back, once.
CallUnhook(t, st) ==
  /\ st \in stubs
  /\ Begin(t, "find", {st.key})
  /\ op' = [op EXCEPT ![t] = [act |-> "unhook", stub |-> st]] /\ Returns(t, "ok")
  /\ stubs' = stubs \ {st}
  /\ UNCHANGED <<sw, code, mapped, residue>>

\* An ELF is closed: its hooks are void.  No hook call on it is under way.
CallDlclose(t, keys) ==
  /\ keys \subseteq mapped
  /\ \A k \in keys : \A u \in Busy(k) : op[u].act # "hook"
  /\ Begin(t, "dlclose", keys)
  /\ mapped' = mapped \ keys
  /\ stubs' = {st \in stubs : st.key \notin keys} /\ Returns(t, "ok")
  /\ UNCHANGED <<sw, code, op, residue>>

\* A new switch starts with the mode of the call that creates it.
CreateSwitch(t) ==
  /\ FindCreate(t)
  /\ LET mode == CASE KindOf(t) = "unique" -> "unique"
                   [] KindOf(t) \in {"multi", "shared"} -> "queue"
                   [] KindOf(t) = "intercept" -> "none"
         new  == [NewSwitch EXCEPT !.mode = mode, !.addr = KeyOf(t)]
     IN sw' = [o \in Obj |-> IF o \in born' \ born THEN new ELSE sw[o]]
  /\ UNCHANGED <<code, mapped, op, ret, stubs, residue>>

\* No switch to hand back to, or no memory for a new one.
FindNothing(t) ==
  /\ FindFails(t)
  /\ Returns(t, IF call[t].kind = "find" THEN "notfound" ELSE "fault")
  /\ op' = [op EXCEPT ![t] = NoOp]
  /\ UNCHANGED <<sw, code, mapped, stubs, residue>>

SkipDestroyed(t) ==
  /\ Skip(t)
  /\ Returns(t, IF call[t].kind = "find" THEN "notfound" ELSE ret[t])
  /\ UNCHANGED <<sw, code, mapped, op, stubs, residue>>

\* sh_switch_destroy: the hub's and the glue launcher's memory with the switch; the
\* *orig_addr words are the callers' and keep what they hold.
DestroySwitch(t) ==
  /\ Destroy(t)
  /\ sw' = [o \in Obj |-> IF o \in freed' \ freed
                         THEN [NewSwitch EXCEPT !.orig = [sw[o].orig EXCEPT ![HUB] = NULL]]
                         ELSE sw[o]]
  /\ UNCHANGED <<code, mapped, op, ret, stubs, residue>>

EndCall(t) ==
  /\ Release(t)
  /\ op' = IF pc'[t] = "idle" THEN [op EXCEPT ![t] = NoOp] ELSE op
  /\ ret' = [ret EXCEPT ![t] = "ok"]
  /\ UNCHANGED <<sw, code, mapped, stubs, residue>>

Plain(t) == (FindHit(t) \/ Collect(t) \/ Lock(t) \/ Untree(t) \/ Stamp(t) \/ Scan(t) \/ Unlock(t))
            /\ UNCHANGED switchVars

Handler(t) ==
  \/ HookFirst(t) \/ HookUniqueMore(t) \/ HookQueueMore(t)
  \/ UnhookUnique(t) \/ UnhookQueue(t)
  \/ Intercept(t) \/ Unintercept(t) \/ FreeAfterDlclose(t)

Next ==
  \/ Tick /\ UNCHANGED switchVars
  \/ \E t \in Thread :
       \/ \E st \in Stub : CallHook(t, st) \/ CallUnhook(t, st)
       \/ \E keys \in Lib : CallDlclose(t, keys)
       \/ CreateSwitch(t) \/ FindNothing(t) \/ SkipDestroyed(t) \/ DestroySwitch(t)
       \/ EndCall(t) \/ Plain(t)
       \/ Handler(t)

Spec == Init /\ [][Next]_vars

-----------------------------------------------------------------------------
(* What a call to a target runs.                                           *)

\* The nodes visited, following *orig_addr from the start address.
First(s, to) == IF to # GLUE THEN to ELSE IF s.proxy = NULL THEN RESUME ELSE s.proxy
Further(s, w) == IF Last(w) \in Node THEN Append(w, s.orig[Last(w)]) ELSE w
Chain(s, to) ==
  LET visit[n \in Nat] == IF n = 0 THEN <<First(s, to)>> ELSE Further(s, visit[n - 1])
  IN visit[Cardinality(Node) + 1]

Visited(k) == Chain(sw[Top(k).sw], Top(k).to)

Runs(st) ==
  /\ code[st.key] # <<>>
  /\ LET s == sw[Top(st.key).sw]
     IN CASE st.kind = "intercept" -> Top(st.key).to = GLUE /\ st.who \in s.icept
          [] st.kind = "shared" -> st.who \in s.hub /\ Contains(Visited(st.key), HUB)
          [] OTHER -> Contains(Visited(st.key), st.who)

\* Every hook and interception the library granted takes effect: a call to the
\* target runs its proxy or interceptor, whatever was hooked and unhooked since
\* (sh_switch_proxy_add and _del relink the others).
GrantedRuns == \A st \in stubs : Runs(st)

\* What a restoration that failed may leave: a jump to the hub's trampoline or to
\* the glue launcher of a switch that was then destroyed.
Gone(k) == Top(k).sw \in freed /\ Top(k).to \in {GLUE, HUB}

\* A call to a target visits every node of its queue once, in order, and ends at
\* the original code: no cycle, no call through a null *orig_addr, also when a
\* rewriting failed, and after the switch of a failed restoration is destroyed
\* (sh_switch_unhook_*, sh_switch_destroy), unless the jump is Gone.
ChainEnds ==
  \A k \in Key : code[k] # <<>> /\ ~Gone(k) =>
    LET w == Visited(k)
    IN /\ Last(w) = RESUME
       /\ \A i, j \in 1 .. Len(w) : w[i] = w[j] => i = j

\* Nothing runs that nobody hooked: what a call visits belongs to a granted stub,
\* to one being handed back at this moment, or to one whose removal failed.
OnlyGrantedRuns ==
  \A k \in mapped : code[k] # <<>> =>
    LET s == sw[Top(k).sw]
        owned == stubs \cup residue \cup {op[t].stub : t \in {u \in Thread : op[u].act = "unhook"}}
        claims(kinds) == {st.who : st \in {x \in owned : x.key = k /\ x.kind \in kinds}}
    IN /\ \A i \in 1 .. Len(Visited(k)) :
            Visited(k)[i] \in Proxy => Visited(k)[i] \in claims({"unique", "multi"})
       /\ Contains(Visited(k), HUB) => s.hub \subseteq claims({"shared"})
       /\ s.icept \subseteq claims({"intercept"})

\* A unique hook is the only hook of its target (doc/manual.md:249).
UniqueAlone ==
  \A st, other \in stubs :
    st.key = other.key /\ st.kind = "unique" /\ other.kind # "intercept" => st = other

\* Handing back a granted stub finds the switch of its target in the registry, not
\* destroyed, in the stub's mode and with the stub in it, as long as its ELF is
\* loaded: the unhook functions of sh_switch.c never return that they did not.
UnhookFinds ==
  [][\A t \in Thread :
       op[t].act = "unhook" /\ KeyOf(t) \in mapped => ret'[t] \notin {"notfound", "conflict"}]_vars

\* The target never jumps into a switch whose memory was given back: its hub's
\* trampoline and its glue launcher go with it (sh_switch_destroy).
NoDanglingJump == \A k \in mapped : \A i \in DOMAIN code[k] : code[k][i].sw \notin freed

\* The switch that a loaded target jumps into is the registry's one for that
\* address, and remembers where it made it jump: the next hook, unhook or sweep
\* will find it, whatever switches were created and retired meanwhile.
PatchedIsFindable ==
  \A k \in mapped : code[k] # <<>> =>
    /\ tree[k] = Top(k).sw
    /\ Top(k).to = sw[Top(k).sw].start
=============================================================================
