------------------------------- MODULE ShHub --------------------------------
(***************************************************************************)
(* What runs when threads call functions that are hooked in shared mode    *)
(* (sh_hub.c).  The target jumps to its hub's trampoline, which calls      *)
(* sh_hub_push_stack and continues in the function that one returns: the   *)
(* first enabled proxy, for which it pushed a frame on the thread's stack, *)
(* or the hub's original function if the call is recursive, there is no    *)
(* room for a frame or nothing is enabled.  A proxy calls the next one     *)
(* through sh_hub_get_prev_func and pops its frame when it returns: every  *)
(* proxy calls sh_hub_pop_stack, and the return address tells the first.   *)
(* Other threads add and delete proxies meanwhile, under the switch's      *)
(* lock; the walks over the list take no lock.                             *)
(*                                                                         *)
(* A return address is the call site <<caller, callee>>.                   *)
(***************************************************************************)
EXTENDS Naturals, Sequences, SequencesExt, FiniteSets

CONSTANTS
  Thread,
  Hub,         \* hubs, named like the functions they are for
  Proxy,
  HubOf,       \* the function each proxy is for (no proxy serves two)
  Behind,      \* <<h, f>>: the multi proxy f can stand behind the hub h in its switch's queue
  Inner,       \* <<g, h>>: the original g calls h
  Jumps,       \* <<g, h>>: the original g ends in a jump to h
  APP, PREV, ORIG,
  FrameMax,    \* SH_HUB_STACK_FRAME_MAX
  DepthMax     \* bound on the depth of calls

ASSUME HubAssumption ==
  /\ HubOf \in [Proxy -> Hub]
  /\ Hub \cap Proxy = {}
  /\ ORIG \notin Proxy /\ PREV \notin Hub
  /\ Inner \subseteq Hub \X Hub /\ Jumps \subseteq Hub \X Hub
  /\ FrameMax \in Nat \ {0} /\ DepthMax \in Nat

\* What may follow a hub: its own function's code, or one of those proxies.
MayFollow(h) == {h} \cup {b[2] : b \in {x \in Behind : x[1] = h}}

VARIABLES
  list,     \* of each hub: its proxies, SLIST_FIRST first
  enabled,  \* proxies whose flag is set
  orig,     \* of each hub: orig_addr, the function's own code or a multi proxy
  frames,   \* of each thread: its sh_hub_stack_t
  acts,     \* of each thread: the functions it is in, [hub, who, ret, first]
  walk      \* of each thread: its walk over a list, if it is in one

vars == <<list, enabled, orig, frames, acts, walk>>

NoWalk == [mode |-> "none"]

Init ==
  /\ list = [h \in Hub |-> <<>>] /\ enabled = {}
  /\ orig = [h \in Hub |-> h]
  /\ frames = [t \in Thread |-> <<>>]
  /\ acts = [t \in Thread |-> <<>>]
  /\ walk = [t \in Thread |-> NoWalk]

-----------------------------------------------------------------------------
(* The proxies of a hub.  sh_switch.c holds the switch's lock.             *)

ProxiesOf(h) == {p \in enabled : HubOf[p] = h}

Add_Again(p) ==  \* mutant: a new item for a function that has one
  /\ p \notin enabled
  /\ enabled' = enabled \cup {p}
  /\ list' = [list EXCEPT ![HubOf[p]] = IF Len(@) < 3 THEN <<p>> \o @ ELSE @]
  /\ UNCHANGED <<orig, frames, acts, walk>>

\* Re-enable the function's item, or insert one at the head.
Add(p) ==
  /\ p \notin enabled
  /\ enabled' = enabled \cup {p}
  /\ list' = [list EXCEPT ![HubOf[p]] = IF Contains(@, p) THEN @ ELSE <<p>> \o @]
  /\ UNCHANGED <<orig, frames, acts, walk>>

\* The history of the calls under way forgets p, too.
Del(p) ==
  /\ p \in enabled
  /\ enabled' = enabled \ {p}
  /\ frames' = [t \in Thread |->
                  [i \in DOMAIN frames[t] |-> [frames[t][i] EXCEPT !.steady = @ \ {p}]]]
  /\ walk' = [t \in Thread |-> IF walk[t].mode \in {"head", "push"}
                               THEN [walk[t] EXCEPT !.steady = @ \ {p}] ELSE walk[t]]
  /\ UNCHANGED <<list, orig, acts>>

\* sh_switch links another function, or none, behind the hub.
Relink(h, f) ==
  /\ f # orig[h]
  /\ orig' = [orig EXCEPT ![h] = f]
  /\ UNCHANGED <<list, enabled, frames, acts, walk>>

-----------------------------------------------------------------------------
(* A call of a hooked function: sh_hub_push_stack.                         *)

Top(t) == Last(acts[t])
TopFrame(t) == Last(frames[t])
Runs(t) == walk[t].mode = "none" /\ acts[t] # <<>>
Call(h, who, ret, first) == [hub |-> h, who |-> who, ret |-> ret, first |-> first]

Recursive_Top(t, o) ==  \* mutant: only the newest frame is looked at
  frames[t] # <<>> /\ ~TopFrame(t).allow /\ TopFrame(t).orig = o
Recursive(t, o) == \E i \in DOMAIN frames[t] : ~frames[t][i].allow /\ frames[t][i].orig = o

\* A thread has no sh_hub_stack_t before its first call, and may get none; one without frames may be such.
MayLackStack(t) == frames[t] = <<>>

\* With `under` on the thread's stack and r in the link register.
Enter(t, h, r, under) ==
  /\ \/ /\ Recursive(t, orig[h]) \/ MayLackStack(t)
        /\ acts' = [acts EXCEPT ![t] = Append(under, Call(h, ORIG, r, FALSE))]
        /\ UNCHANGED walk
     \/ /\ ~Recursive(t, orig[h])
        /\ acts' = [acts EXCEPT ![t] = under]
        /\ walk' = [walk EXCEPT ![t] = [mode |-> "head", hub |-> h, orig |-> orig[h],
                                        ret |-> r, steady |-> ProxiesOf(h)]]
  /\ UNCHANGED <<list, enabled, orig, frames>>

CallFromApp(t, h) == walk[t].mode = "none" /\ acts[t] = <<>> /\ Enter(t, h, <<APP, h>>, <<>>)

CallFromProxy(t, h) ==
  /\ Runs(t) /\ Top(t).who \in Proxy /\ Len(acts[t]) < DepthMax
  /\ Enter(t, h, <<Top(t).who, h>>, acts[t])

CallFromOriginal(t, h) ==
  /\ Runs(t) /\ Top(t).who = ORIG /\ <<Top(t).hub, h>> \in Inner /\ Len(acts[t]) < DepthMax
  /\ Enter(t, h, <<Top(t).hub, h>>, acts[t])

TailJump(t, h) ==
  /\ Runs(t) /\ Top(t).who = ORIG /\ <<Top(t).hub, h>> \in Jumps
  /\ Enter(t, h, Top(t).ret, Front(acts[t]))

ReadHead(t) ==
  /\ walk[t].mode = "head"
  /\ LET w == walk[t]
     IN walk' = [walk EXCEPT ![t] = [mode |-> "push", hub |-> w.hub, orig |-> w.orig, ret |-> w.ret,
                                     steady |-> w.steady, all |-> list[w.hub], rest |-> list[w.hub]]]
  /\ UNCHANGED <<list, enabled, orig, frames, acts>>

\* One item of the list: a disabled one is passed over.
PassOver(t) ==
  /\ walk[t].mode \in {"push", "prev"}
  /\ walk[t].rest # <<>> /\ Head(walk[t].rest) \notin enabled
  /\ walk' = [walk EXCEPT ![t].rest = Tail(@)]
  /\ UNCHANGED <<list, enabled, orig, frames, acts>>

\* The trampoline jumps to what sh_hub_push_stack or sh_hub_get_prev_func returned.
Run(t, h, who, r, first) ==
  /\ acts' = [acts EXCEPT ![t] = Append(@, Call(h, who, r, first))]
  /\ walk' = [walk EXCEPT ![t] = NoWalk]
  /\ UNCHANGED <<list, enabled, orig>>

Push_OffByOne(t) ==  \* mutant: one frame too many
  /\ walk[t].mode = "push"
  /\ LET w == walk[t]
     IN /\ w.rest # <<>> /\ Head(w.rest) \in enabled /\ Len(frames[t]) <= FrameMax
        /\ frames' = [frames EXCEPT ![t] =
                        Append(@, [hub |-> w.hub, orig |-> w.orig, ret |-> w.ret, allow |-> FALSE,
                                   all |-> w.all, steady |-> w.steady])]
        /\ Run(t, w.hub, Head(w.rest), w.ret, TRUE)

\* An enabled proxy, and room for its frame or not.
Push(t) ==
  /\ walk[t].mode = "push"
  /\ LET w == walk[t]
     IN /\ w.rest # <<>> /\ Head(w.rest) \in enabled
        /\ \/ /\ Len(frames[t]) < FrameMax
              /\ frames' = [frames EXCEPT ![t] =
                              Append(@, [hub |-> w.hub, orig |-> w.orig, ret |-> w.ret, allow |-> FALSE,
                                         all |-> w.all, steady |-> w.steady])]
              /\ Run(t, w.hub, Head(w.rest), w.ret, TRUE)
           \/ /\ Len(frames[t]) >= FrameMax
              /\ Run(t, w.hub, ORIG, w.ret, FALSE)
              /\ UNCHANGED frames

PushNothing_GiveUp(t) ==  \* mutant: a disabled item ends the list
  /\ walk[t].mode = "push"
  /\ walk[t].rest # <<>> => Head(walk[t].rest) \notin enabled
  /\ Run(t, walk[t].hub, ORIG, walk[t].ret, FALSE)
  /\ UNCHANGED frames

PushNothing(t) ==
  /\ walk[t].mode = "push" /\ walk[t].rest = <<>>
  /\ Run(t, walk[t].hub, ORIG, walk[t].ret, FALSE)
  /\ UNCHANGED frames

-----------------------------------------------------------------------------
(* In a proxy.                                                             *)

\* The items behind the first one with this function.
After(items, f) ==
  IF Contains(items, f)
  THEN LET i == CHOOSE j \in DOMAIN items : items[j] = f /\ \A k \in 1 .. j - 1 : items[k] # f
       IN SubSeq(items, i + 1, Len(items))
  ELSE <<>>

\* SHADOWHOOK_CALL_PREV: sh_hub_get_prev_func in the newest frame.
CallPrev(t) ==
  /\ Runs(t) /\ Top(t).who \in Proxy /\ Len(acts[t]) < DepthMax
  /\ frames[t] # <<>>
  /\ walk' = [walk EXCEPT ![t] = [mode |-> "prev", rest |-> After(TopFrame(t).all, Top(t).who)]]
  /\ UNCHANGED <<list, enabled, orig, frames, acts>>

Prev(t) ==
  /\ walk[t].mode = "prev"
  /\ LET rest == walk[t].rest
         next == IF rest = <<>> THEN ORIG ELSE Head(rest)
     IN /\ rest # <<>> => Head(rest) \in enabled
        /\ Run(t, TopFrame(t).hub, next, <<Top(t).who, PREV>>, FALSE)
  /\ UNCHANGED frames

\* sh_hub_get_current_frame
Current(t) == frames[t] # <<>> /\ TopFrame(t).ret = Top(t).ret

\* SHADOWHOOK_ALLOW_REENTRANT and SHADOWHOOK_DISALLOW_REENTRANT
SetReentrant(t, allowed) ==
  /\ Runs(t) /\ Top(t).who \in Proxy
  /\ Current(t)
  /\ frames' = [frames EXCEPT ![t][Len(frames[t])].allow = allowed]
  /\ UNCHANGED <<list, enabled, orig, acts, walk>>

ReturnFromProxy_AnyAddress(t) ==  \* mutant: the return address is not compared
  /\ Runs(t) /\ Top(t).who \in Proxy
  /\ acts' = [acts EXCEPT ![t] = Front(@)]
  /\ frames' = [frames EXCEPT ![t] = IF @ # <<>> THEN Front(@) ELSE @]
  /\ UNCHANGED <<list, enabled, orig, walk>>

\* SHADOWHOOK_POP_STACK or SHADOWHOOK_STACK_SCOPE, and the return.
ReturnFromProxy(t) ==
  /\ Runs(t) /\ Top(t).who \in Proxy
  /\ acts' = [acts EXCEPT ![t] = Front(@)]
  /\ frames' = [frames EXCEPT ![t] = IF Current(t) THEN Front(@) ELSE @]
  /\ UNCHANGED <<list, enabled, orig, walk>>

ReturnFromOriginal(t) ==
  /\ Runs(t) /\ Top(t).who = ORIG
  /\ acts' = [acts EXCEPT ![t] = Front(@)]
  /\ UNCHANGED <<list, enabled, orig, frames, walk>>

Next ==
  \/ \E p \in Proxy : Add(p) \/ Del(p)
  \/ \E h \in Hub : \E f \in MayFollow(h) : Relink(h, f)
  \/ \E t \in Thread :
       \/ \E h \in Hub : CallFromApp(t, h) \/ CallFromProxy(t, h) \/ CallFromOriginal(t, h) \/ TailJump(t, h)
       \/ ReadHead(t) \/ PassOver(t) \/ Push(t) \/ PushNothing(t)
       \/ CallPrev(t) \/ Prev(t)
       \/ \E allowed \in BOOLEAN : SetReentrant(t, allowed)
       \/ ReturnFromProxy(t) \/ ReturnFromOriginal(t)

Spec == Init /\ [][Next]_vars

-----------------------------------------------------------------------------
(* Properties.                                                             *)

Code == UNION {MayFollow(h) : h \in Hub}
Site == ({APP} \cup Proxy \cup Hub) \X (Hub \cup {PREV})

HubTypeOK ==
  /\ list \in [Hub -> Seq(Proxy)]
  /\ enabled \subseteq Proxy
  /\ orig \in [Hub -> Code]
  /\ frames \in [Thread -> Seq([hub : Hub, orig : Code, ret : Site, allow : BOOLEAN,
                                all : Seq(Proxy), steady : SUBSET Proxy])]
  /\ acts \in [Thread -> Seq([hub : Hub, who : Proxy \cup {ORIG}, ret : Site, first : BOOLEAN])]
  /\ \A t \in Thread : Len(frames[t]) <= FrameMax
  /\ \A h \in Hub : ToSet(list[h]) \subseteq {p \in Proxy : HubOf[p] = h}

\* Where in the activations the proxies are that sh_hub_push_stack returned.
Firsts(t) == {i \in DOMAIN acts[t] : acts[t][i].first}

\* The frames on a thread's stack are those of the first proxies it is in, in order:
\* every return pops its own frame and no other, so sh_hub_get_prev_func and the test
\* for recursion never see a stranger's frame or one that was left behind.
FramesMatch ==
  \A t \in Thread : \E at \in [DOMAIN frames[t] -> Firsts(t)] :
    /\ Firsts(t) = {at[n] : n \in DOMAIN frames[t]}
    /\ \A n \in DOMAIN frames[t] : \A l \in 1 .. n - 1 : at[l] < at[n]
    /\ \A n \in DOMAIN frames[t] :
         frames[t][n].hub = acts[t][at[n]].hub /\ frames[t][n].ret = acts[t][at[n]].ret

\* The proxies that run in the newest frame, in the order of their calls.
Chain(t) ==
  LET IsFirst(i) == acts[t][i].first
      start == CHOOSE i \in DOMAIN acts[t] : IsFirst(i) /\ \A j \in i + 1 .. Len(acts[t]) : ~IsFirst(j)
  IN SubSeq(acts[t], start, Len(acts[t]))
Ran(t) == {Chain(t)[i].who : i \in DOMAIN Chain(t)}

\* When a call gets to the original function, every proxy that was enabled before the
\* call and stayed so has run, whatever was added, deleted and enabled again meanwhile
\* (sh_hub_push_stack, sh_hub_get_prev_func); except in a call that found the stack full,
\* or for which there was none.
AllRun ==
  [][\A t \in Thread :
       walk[t].mode # "none" /\ acts'[t] # acts[t] /\ Last(acts'[t]).who = ORIG =>
         CASE walk[t].mode = "push" -> walk[t].steady = {} \/ Len(frames[t]) = FrameMax
           [] walk[t].mode = "prev" -> TopFrame(t).steady \subseteq Ran(t)
           [] OTHER -> TRUE]_vars

\* One call runs a proxy at most once.
EachOnce ==
  \A t \in Thread : walk[t].mode = "prev" /\ walk[t].rest # <<>> => ToSet(walk[t].rest) \cap Ran(t) = {}

\* A thread is twice in the proxies of a function only if the outer ones allowed it, or
\* the hub was relinked between the two calls (sh_hub_push_stack recognises a hub by its
\* orig_addr).
NoReentryUnlessRelinked ==
  \A t \in Thread : \A j \in DOMAIN frames[t] : \A i \in 1 .. j - 1 :
    frames[t][i].hub = frames[t][j].hub =>
      frames[t][i].allow \/ frames[t][i].orig # frames[t][j].orig

\* "In shared mode, by default, proxy functions are not allowed to be reentered"
\* (doc/manual.md:982): without exception.
NoReentry ==
  \A t \in Thread : \A j \in DOMAIN frames[t] : \A i \in 1 .. j - 1 :
    frames[t][i].hub = frames[t][j].hub => frames[t][i].allow
=============================================================================
