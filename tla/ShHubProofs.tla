---------------------------- MODULE ShHubProofs -----------------------------
(***************************************************************************)
(* Calls through a hub, for any threads, hubs, proxies, call graph and     *)
(* size of a stack.                                                        *)
(*                                                                         *)
(* First the types and NoReentryUnlessRelinked.  The inductive invariant   *)
(* says more than the property: any two frames of a thread, of one hub or  *)
(* of two, are told apart by their orig unless the older one allows it;    *)
(* and the call that sh_hub_push_stack is about to push a frame for was    *)
(* compared with every frame that is there, all of them as they are now.   *)
(*                                                                         *)
(* Then what a call runs: FramesMatch, EachOnce and AllRun.  StackInv is   *)
(* inductive.  It maps the frames to the activations they were pushed for  *)
(* and says of each frame which of its list has run, in which order, and   *)
(* that a proxy which stays enabled has run or is still ahead.  It needs   *)
(* that tail jumps of hooked functions do not lead back (JumpsEnd).        *)
(***************************************************************************)
EXTENDS ShHub, SequenceTheorems, WellFoundedInduction, TLAPS

Frame == [hub : Hub, orig : Code, ret : Site, allow : BOOLEAN,
          all : Seq(Proxy), steady : SUBSET Proxy]
Act == [hub : Hub, who : Proxy \cup {ORIG}, ret : Site, first : BOOLEAN]

HeadWalk == [mode : {"head"}, hub : Hub, orig : Code, ret : Site, steady : SUBSET Proxy]
PushWalk == [mode : {"push"}, hub : Hub, orig : Code, ret : Site, steady : SUBSET Proxy,
             all : Seq(Proxy), rest : Seq(Proxy)]
PrevWalk == [mode : {"prev"}, rest : Seq(Proxy)]
Walk == {NoWalk} \cup HeadWalk \cup PushWalk \cup PrevWalk

\* A walk that reads the newest frame is in a proxy that has one.
InProxy(t) ==
  walk[t].mode = "prev" => frames[t] # <<>> /\ acts[t] # <<>> /\ Top(t).who \in Proxy

\* The call under way was found not to be recursive, and still is not.
Compared(t) ==
  walk[t].mode \in {"head", "push"} =>
    \A i \in DOMAIN frames[t] : frames[t][i].allow \/ frames[t][i].orig # walk[t].orig

Apart(t) ==
  \A j \in DOMAIN frames[t] : \A i \in 1 .. j - 1 :
    frames[t][i].allow \/ frames[t][i].orig # frames[t][j].orig

HubInv ==
  /\ HubTypeOK
  /\ walk \in [Thread -> Walk]
  /\ \A t \in Thread : InProxy(t) /\ Compared(t) /\ Apart(t)

-----------------------------------------------------------------------------
(* Sequences.                                                              *)

LEMMA LastIn ==
  ASSUME NEW S, NEW s \in Seq(S), s # <<>>
  PROVE  Last(s) \in S /\ Last(s) = s[Len(s)] /\ Len(s) \in DOMAIN s
BY EmptySeq, LenProperties DEF Last

LEMMA Prefix ==
  ASSUME NEW S, NEW s \in Seq(S), NEW n \in 0 .. Len(s)
  PROVE  /\ SubSeq(s, 1, n) \in Seq(S) /\ Len(SubSeq(s, 1, n)) = n
         /\ \A i \in 1 .. n : SubSeq(s, 1, n)[i] = s[i]
<1>1. Len(s) \in Nat /\ \A i \in 1 .. n : s[i] \in S
  BY LenProperties, ElementOfSeq
<1>2. /\ SubSeq(s, 1, n) \in Seq(S)
      /\ Len(SubSeq(s, 1, n)) = IF 1 <= n THEN n - 1 + 1 ELSE 0
      /\ \A i \in 1 .. n - 1 + 1 : SubSeq(s, 1, n)[i] = s[1 + i - 1]
  BY <1>1, SubSeqProperties
<1>3. Len(SubSeq(s, 1, n)) = n
  BY <1>1, <1>2
<1>4. ASSUME NEW i \in 1 .. n
      PROVE  SubSeq(s, 1, n)[i] = s[i]
  <2>1. i \in 1 .. n - 1 + 1 /\ 1 + i - 1 = i
    BY <1>1
  <2> QED
    BY <1>2, <2>1
<1> QED
  BY <1>2, <1>3, <1>4

LEMMA FrontIn ==
  ASSUME NEW S, NEW s \in Seq(S), s # <<>>
  PROVE  /\ Front(s) \in Seq(S) /\ Len(Front(s)) = Len(s) - 1
         /\ \A i \in 1 .. Len(s) - 1 : Front(s)[i] = s[i]
<1>1. Len(s) - 1 \in 0 .. Len(s)
  BY EmptySeq
<1> QED
  BY <1>1, Prefix, Zenon DEF Front

\* The least number of a set, which CHOOSE picks.
LEMMA LeastNat ==
  ASSUME NEW T, T \subseteq Nat, T # {}
  PROVE  \E n \in T : \A k \in T : ~(k < n)
<1> DEFINE R == OpToRel(<, Nat)
<1>1. IsWellFoundedOn(R, Nat)
  BY NatLessThanWellFounded, Zenon
<1>2. PICK n \in T : \A k \in T : <<k, n>> \notin R
  <2> HIDE DEF R
  <2> QED
    BY <1>1, WFMin
<1>3. \A k \in Nat : k < n => <<k, n>> \in R
  BY DEF OpToRel
<1> QED
  BY <1>2, <1>3

LEMMA TailIn ==
  ASSUME NEW S, NEW s \in Seq(S), s # <<>>
  PROVE  Head(s) \in S /\ Tail(s) \in Seq(S)
BY HeadTailProperties

LEMMA AfterIn ==
  ASSUME NEW S, NEW s \in Seq(S), NEW f
  PROVE  After(s, f) \in Seq(S)
<1>1. CASE ~Contains(s, f)
  BY <1>1, EmptySeq DEF After
<1>2. CASE Contains(s, f)
  <2> DEFINE i == CHOOSE j \in DOMAIN s : s[j] = f /\ \A k \in 1 .. j - 1 : s[k] # f
  <2>1. PICK n \in DOMAIN s : s[n] = f /\ \A k \in 1 .. n - 1 : s[k] # f
    <3> DEFINE T == {j \in DOMAIN s : s[j] = f}
    <3>1. T \subseteq Nat /\ T # {}
      BY <1>2 DEF Contains
    <3>2. PICK n \in T : \A k \in T : ~(k < n)
      BY <3>1, LeastNat
    <3> QED
      BY <3>2
  <2>2. i \in DOMAIN s
    BY <2>1
  <2>3. After(s, f) = SubSeq(s, i + 1, Len(s))
    BY <1>2 DEF After
  <2>4. \A k \in i + 1 .. Len(s) : s[k] \in S
    BY <2>2, ElementOfSeq
  <2>5. SubSeq(s, i + 1, Len(s)) \in Seq(S)
    <3> HIDE DEF i
    <3> QED
      BY <2>2, <2>4, SubSeqProperties
  <2> QED
    BY <2>3, <2>5
<1> QED
  BY <1>1, <1>2

-----------------------------------------------------------------------------
(* One thread takes a step and no hub changes.                             *)

LEMMA Kinds ==
  ASSUME NEW w \in Walk
  PROVE  /\ w.mode = "head" => w \in HeadWalk
         /\ w.mode = "push" => w \in PushWalk
         /\ w.mode = "prev" => w \in PrevWalk
BY DEF Walk, NoWalk, HeadWalk, PushWalk, PrevWalk

LEMMA ThreadStep ==
  ASSUME HubInv, NEW t \in Thread, UNCHANGED <<list, enabled, orig>>,
         frames' \in [Thread -> Seq(Frame)], acts' \in [Thread -> Seq(Act)],
         walk' \in [Thread -> Walk],
         \A u \in Thread \ {t} : frames'[u] = frames[u] /\ acts'[u] = acts[u] /\ walk'[u] = walk[u],
         Len(frames'[t]) <= FrameMax,
         InProxy(t)', Compared(t)', Apart(t)'
  PROVE  HubInv'
<1>1. HubTypeOK'
  <2>1. \A u \in Thread : Len(frames'[u]) <= FrameMax
    BY DEF HubInv, HubTypeOK
  <2> QED
    BY <2>1 DEF HubInv, HubTypeOK, Frame, Act, Code, Site
<1>2. ASSUME NEW u \in Thread \ {t}
      PROVE  InProxy(u)' /\ Compared(u)' /\ Apart(u)'
  <2>1. InProxy(u) /\ Compared(u) /\ Apart(u)
    BY DEF HubInv
  <2>2. frames'[u] = frames[u] /\ acts'[u] = acts[u] /\ walk'[u] = walk[u]
    OBVIOUS
  <2> QED
    BY <2>1, <2>2 DEF InProxy, Compared, Apart, Top
<1> QED
  BY <1>1, <1>2 DEF HubInv

\* The same with nothing pushed, popped or allowed.
LEMMA SameFrames ==
  ASSUME HubInv, NEW t \in Thread, UNCHANGED <<list, enabled, orig, frames>>,
         NEW ac \in Seq(Act), acts' = [acts EXCEPT ![t] = ac],
         NEW w \in Walk, walk' = [walk EXCEPT ![t] = w],
         w.mode = "prev" => frames[t] # <<>> /\ ac # <<>> /\ Last(ac).who \in Proxy,
         w.mode \in {"head", "push"} =>
           \A i \in DOMAIN frames[t] : frames[t][i].allow \/ frames[t][i].orig # w.orig
  PROVE  HubInv'
<1>1. /\ frames \in [Thread -> Seq(Frame)] /\ acts \in [Thread -> Seq(Act)]
      /\ walk \in [Thread -> Walk] /\ Len(frames[t]) <= FrameMax
  BY DEF HubInv, HubTypeOK, Frame, Act
<1>2. /\ acts' \in [Thread -> Seq(Act)] /\ walk' \in [Thread -> Walk]
      /\ acts'[t] = ac /\ walk'[t] = w
      /\ \A u \in Thread \ {t} : acts'[u] = acts[u] /\ walk'[u] = walk[u]
  BY <1>1
<1>3. InProxy(t)' /\ Compared(t)'
  BY <1>2 DEF InProxy, Compared, Top
<1>4. Apart(t)'
  BY DEF HubInv, Apart
<1> QED
  BY <1>1, <1>2, <1>3, <1>4, ThreadStep

LEMMA Typed ==
  ASSUME HubInv, NEW t \in Thread
  PROVE  /\ frames[t] \in Seq(Frame) /\ acts[t] \in Seq(Act) /\ walk[t] \in Walk
         /\ walk = [walk EXCEPT ![t] = walk[t]] /\ acts = [acts EXCEPT ![t] = acts[t]]
BY DEF HubInv, HubTypeOK, Frame, Act

\* What the thread runs is one of its activations, and so is what it returns to.
LEMMA TopIn ==
  ASSUME HubInv, NEW t \in Thread, acts[t] # <<>>
  PROVE  Top(t) \in Act /\ Front(acts[t]) \in Seq(Act)
BY Typed, LastIn, FrontIn DEF Top

LEMMA TopFrameIn ==
  ASSUME HubInv, NEW t \in Thread, frames[t] # <<>>
  PROVE  /\ TopFrame(t) \in Frame /\ TopFrame(t) = frames[t][Len(frames[t])]
         /\ Len(frames[t]) \in Nat \ {0} /\ DOMAIN frames[t] = 1 .. Len(frames[t])
         /\ Front(frames[t]) \in Seq(Frame) /\ Len(Front(frames[t])) = Len(frames[t]) - 1
         /\ \A i \in 1 .. Len(frames[t]) - 1 : Front(frames[t])[i] = frames[t][i]
<1>1. frames[t] \in Seq(Frame)
  BY Typed
<1>2. TopFrame(t) \in Frame /\ TopFrame(t) = frames[t][Len(frames[t])]
  BY <1>1, LastIn DEF TopFrame
<1>3. Len(frames[t]) \in Nat \ {0} /\ DOMAIN frames[t] = 1 .. Len(frames[t])
  BY <1>1, EmptySeq, LenProperties
<1> QED
  BY <1>1, <1>2, <1>3, FrontIn

LEMMA ProxiesIn ==
  ASSUME HubInv, NEW h \in Hub
  PROVE  ProxiesOf(h) \in SUBSET Proxy /\ orig[h] \in Code /\ list[h] \in Seq(Proxy)
BY DEF HubInv, HubTypeOK, ProxiesOf

LEMMA EnterStep ==
  ASSUME HubInv, NEW t \in Thread, NEW h \in Hub, NEW r \in Site, NEW under \in Seq(Act),
         walk[t].mode = "none", Enter(t, h, r, under)
  PROVE  HubInv'
<1>1. CASE /\ acts' = [acts EXCEPT ![t] = Append(under, Call(h, ORIG, r, FALSE))]
           /\ UNCHANGED walk
  <2>1. Call(h, ORIG, r, FALSE) \in Act
    BY DEF Call, Act
  <2>2. Append(under, Call(h, ORIG, r, FALSE)) \in Seq(Act)
    BY <2>1, AppendProperties
  <2>3. walk' = [walk EXCEPT ![t] = walk[t]] /\ walk[t] \in Walk
    BY <1>1, Typed
  <2> QED
    BY <1>1, <2>2, <2>3, SameFrames DEF Enter
<1>2. CASE /\ ~Recursive(t, orig[h])
           /\ acts' = [acts EXCEPT ![t] = under]
           /\ walk' = [walk EXCEPT ![t] = [mode |-> "head", hub |-> h, orig |-> orig[h],
                                           ret |-> r, steady |-> ProxiesOf(h)]]
  <2> DEFINE w == [mode |-> "head", hub |-> h, orig |-> orig[h],
                   ret |-> r, steady |-> ProxiesOf(h)]
  <2>1. w \in Walk
    BY ProxiesIn DEF Walk, HeadWalk
  <2>2. \A i \in DOMAIN frames[t] : frames[t][i].allow \/ frames[t][i].orig # w.orig
    BY <1>2 DEF Recursive
  <2>3. w.mode = "head" /\ walk' = [walk EXCEPT ![t] = w]
    BY <1>2
  <2> HIDE DEF w
  <2> QED
    BY <1>2, <2>1, <2>2, <2>3, SameFrames DEF Enter
<1> QED
  BY <1>1, <1>2 DEF Enter

LEMMA CallStep ==
  ASSUME HubInv, NEW t \in Thread, NEW h \in Hub,
         CallFromApp(t, h) \/ CallFromProxy(t, h) \/ CallFromOriginal(t, h) \/ TailJump(t, h)
  PROVE  HubInv'
<1>1. CASE CallFromApp(t, h)
  <2>1. <<APP, h>> \in Site /\ <<>> \in Seq(Act)
    BY EmptySeq DEF Site
  <2> QED
    BY <1>1, <2>1, EnterStep DEF CallFromApp
<1>2. CASE CallFromProxy(t, h)
  <2>1. <<Top(t).who, h>> \in Site
    BY <1>2 DEF CallFromProxy, Site
  <2> QED
    BY <1>2, <2>1, EnterStep, Typed DEF CallFromProxy, Runs
<1>3. CASE CallFromOriginal(t, h)
  <2>1. <<Top(t).hub, h>> \in Site
    BY <1>3, TopIn DEF CallFromOriginal, Runs, Site, Act
  <2> QED
    BY <1>3, <2>1, EnterStep, Typed DEF CallFromOriginal, Runs
<1>4. CASE TailJump(t, h)
  <2>1. Top(t).ret \in Site /\ Front(acts[t]) \in Seq(Act)
    BY <1>4, TopIn DEF TailJump, Runs, Act
  <2> QED
    BY <1>4, <2>1, EnterStep DEF TailJump, Runs
<1> QED
  BY <1>1, <1>2, <1>3, <1>4

LEMMA ReadHeadStep ==
  ASSUME HubInv, NEW t \in Thread, ReadHead(t)
  PROVE  HubInv'
<1> DEFINE v == walk[t]
           w == [mode |-> "push", hub |-> v.hub, orig |-> v.orig, ret |-> v.ret,
                 steady |-> v.steady, all |-> list[v.hub], rest |-> list[v.hub]]
<1>1. v \in HeadWalk
  BY Typed, Kinds DEF ReadHead
<1>2. w \in Walk
  BY <1>1, ProxiesIn DEF Walk, HeadWalk, PushWalk
<1>3. \A i \in DOMAIN frames[t] : frames[t][i].allow \/ frames[t][i].orig # w.orig
  BY DEF ReadHead, HubInv, Compared
<1>4. w.mode = "push" /\ walk' = [walk EXCEPT ![t] = w] /\ acts' = [acts EXCEPT ![t] = acts[t]]
  BY Typed DEF ReadHead
<1> HIDE DEF w
<1> QED
  BY <1>2, <1>3, <1>4, SameFrames, Typed DEF ReadHead

LEMMA PassOverStep ==
  ASSUME HubInv, NEW t \in Thread, PassOver(t)
  PROVE  HubInv'
<1> DEFINE w == [walk[t] EXCEPT !.rest = Tail(@)]
<1>1. walk[t] \in PushWalk \cup PrevWalk
  BY Typed, Kinds DEF PassOver
<1>2. Tail(walk[t].rest) \in Seq(Proxy)
  BY <1>1, TailIn DEF PassOver, PushWalk, PrevWalk
<1>3. /\ w \in Walk /\ w.mode = walk[t].mode
      /\ w.mode = "push" => w.orig = walk[t].orig
      /\ w.mode # "head"
  <2>1. CASE walk[t] \in PushWalk
    BY <2>1, <1>2 DEF PushWalk, Walk
  <2>2. CASE walk[t] \in PrevWalk
    BY <2>2, <1>2 DEF PrevWalk, Walk
  <2> QED
    BY <1>1, <2>1, <2>2
<1>4. w.mode = "prev" => frames[t] # <<>> /\ acts[t] # <<>> /\ Last(acts[t]).who \in Proxy
  BY <1>3 DEF HubInv, InProxy, Top
<1>5. w.mode \in {"head", "push"} =>
        \A i \in DOMAIN frames[t] : frames[t][i].allow \/ frames[t][i].orig # w.orig
  BY <1>3 DEF HubInv, Compared
<1>6. walk' = [walk EXCEPT ![t] = w] /\ acts' = [acts EXCEPT ![t] = acts[t]]
  BY Typed DEF PassOver
<1> HIDE DEF w
<1> QED
  BY <1>3, <1>4, <1>5, <1>6, SameFrames, Typed DEF PassOver

\* The thread goes on in a proxy or in the original function, and no frame is pushed.
LEMMA RunStep ==
  ASSUME HubInv, NEW t \in Thread, NEW h \in Hub, NEW who \in Proxy \cup {ORIG},
         NEW r \in Site, NEW first \in BOOLEAN,
         Run(t, h, who, r, first), UNCHANGED frames
  PROVE  HubInv'
<1>1. Call(h, who, r, first) \in Act
  BY DEF Call, Act
<1>2. /\ Append(acts[t], Call(h, who, r, first)) \in Seq(Act)
      /\ acts' = [acts EXCEPT ![t] = Append(acts[t], Call(h, who, r, first))]
  BY <1>1, Typed, AppendProperties DEF Run
<1>3. NoWalk \in Walk /\ NoWalk.mode = "none" /\ walk' = [walk EXCEPT ![t] = NoWalk]
  BY DEF Walk, NoWalk, Run
<1> QED
  BY <1>2, <1>3, SameFrames DEF Run

LEMMA PrevStep ==
  ASSUME HubInv, NEW t \in Thread, Prev(t)
  PROVE  HubInv'
<1>1. walk[t] \in PrevWalk /\ frames[t] # <<>> /\ acts[t] # <<>> /\ Top(t).who \in Proxy
  BY Typed, Kinds DEF Prev, HubInv, InProxy
<1>2. TopFrame(t).hub \in Hub
  BY <1>1, TopFrameIn DEF Frame
<1>3. <<Top(t).who, PREV>> \in Site
  BY <1>1 DEF Site
<1> DEFINE next == IF walk[t].rest = <<>> THEN ORIG ELSE Head(walk[t].rest)
<1>4. next \in Proxy \cup {ORIG}
  BY <1>1, TailIn DEF PrevWalk
<1>5. Run(t, TopFrame(t).hub, next, <<Top(t).who, PREV>>, FALSE) /\ UNCHANGED frames
  BY DEF Prev
<1> HIDE DEF next
<1> QED
  BY <1>2, <1>3, <1>4, <1>5, RunStep

LEMMA CallPrevStep ==
  ASSUME HubInv, NEW t \in Thread, CallPrev(t)
  PROVE  HubInv'
<1> DEFINE w == [mode |-> "prev", rest |-> After(TopFrame(t).all, Top(t).who)]
<1>1. TopFrame(t).all \in Seq(Proxy)
  BY TopFrameIn DEF CallPrev, Frame
<1>2. After(TopFrame(t).all, Top(t).who) \in Seq(Proxy)
  BY <1>1, AfterIn
<1>3. w \in Walk
  BY <1>2 DEF Walk, PrevWalk
<1>4. w.mode = "prev" /\ walk' = [walk EXCEPT ![t] = w] /\ acts' = [acts EXCEPT ![t] = acts[t]]
  BY Typed DEF CallPrev
<1>5. frames[t] # <<>> /\ acts[t] # <<>> /\ Last(acts[t]).who \in Proxy
  BY DEF CallPrev, Runs, Top
<1> HIDE DEF w
<1> QED
  BY <1>3, <1>4, <1>5, SameFrames, Typed DEF CallPrev

LEMMA ReturnFromOriginalStep ==
  ASSUME HubInv, NEW t \in Thread, ReturnFromOriginal(t)
  PROVE  HubInv'
<1>1. Front(acts[t]) \in Seq(Act) /\ acts' = [acts EXCEPT ![t] = Front(acts[t])]
  BY TopIn DEF ReturnFromOriginal, Runs
<1>2. walk[t] \in Walk /\ walk[t].mode = "none" /\ walk' = [walk EXCEPT ![t] = walk[t]]
  BY Typed DEF ReturnFromOriginal, Runs
<1> QED
  BY <1>1, <1>2, SameFrames DEF ReturnFromOriginal

\* A frame goes, and takes nothing along that told two others apart.
LEMMA ReturnFromProxyStep ==
  ASSUME HubInv, NEW t \in Thread, ReturnFromProxy(t)
  PROVE  HubInv'
<1>1. /\ Front(acts[t]) \in Seq(Act) /\ acts' = [acts EXCEPT ![t] = Front(acts[t])]
      /\ walk[t] \in Walk /\ walk[t].mode = "none" /\ walk' = [walk EXCEPT ![t] = walk[t]]
  BY TopIn, Typed DEF ReturnFromProxy, Runs
<1>2. CASE ~Current(t)
  <2>1. UNCHANGED frames
    BY <1>2 DEF ReturnFromProxy, HubInv, HubTypeOK
  <2> QED
    BY <1>1, <2>1, SameFrames DEF ReturnFromProxy
<1>3. CASE Current(t)
  <2> DEFINE n == Len(frames[t])
             fr == Front(frames[t])
  <2>1. /\ n \in Nat \ {0} /\ fr \in Seq(Frame) /\ Len(fr) = n - 1 /\ DOMAIN fr = 1 .. n - 1
        /\ \A i \in 1 .. n - 1 : fr[i] = frames[t][i]
        /\ DOMAIN frames[t] = 1 .. n
    BY <1>3, TopFrameIn, LenProperties DEF Current
  <2>2. /\ frames' \in [Thread -> Seq(Frame)] /\ frames'[t] = fr
        /\ \A u \in Thread \ {t} : frames'[u] = frames[u]
    <3>1. frames' = [frames EXCEPT ![t] = fr] /\ frames \in [Thread -> Seq(Frame)]
      BY <1>3 DEF ReturnFromProxy, HubInv, HubTypeOK, Frame
    <3> HIDE DEF fr
    <3> QED
      BY <2>1, <3>1
  <2>3. /\ acts' \in [Thread -> Seq(Act)] /\ walk' \in [Thread -> Walk] /\ walk'[t].mode = "none"
        /\ \A u \in Thread \ {t} : acts'[u] = acts[u] /\ walk'[u] = walk[u]
    <3>1. acts \in [Thread -> Seq(Act)] /\ walk \in [Thread -> Walk]
      BY DEF HubInv, HubTypeOK, Act
    <3> QED
      BY <1>1, <3>1
  <2>4. Apart(t)'
    <3>1. Apart(t)
      BY DEF HubInv
    <3> HIDE DEF fr, n
    <3> QED
      BY <2>1, <2>2, <3>1 DEF Apart
  <2>5. Len(frames'[t]) <= FrameMax
    <3>1. n <= FrameMax /\ FrameMax \in Nat
      BY HubAssumption DEF HubInv, HubTypeOK
    <3> HIDE DEF fr, n
    <3> QED
      BY <2>1, <2>2, <3>1
  <2>6. InProxy(t)' /\ Compared(t)'
    BY <2>3 DEF InProxy, Compared
  <2> QED
    BY <2>2, <2>3, <2>4, <2>5, <2>6, ThreadStep DEF ReturnFromProxy
<1> QED
  BY <1>2, <1>3

LEMMA SetReentrantStep ==
  ASSUME HubInv, NEW t \in Thread, NEW allowed \in BOOLEAN, SetReentrant(t, allowed)
  PROVE  HubInv'
<1> DEFINE n == Len(frames[t])
<1>1. /\ n \in Nat \ {0} /\ DOMAIN frames[t] = 1 .. n /\ frames[t] \in Seq(Frame)
      /\ frames[t][n] \in Frame
  BY TopFrameIn, Typed DEF SetReentrant, Current
<1> DEFINE e == [frames[t][n] EXCEPT !.allow = allowed]
           fr == [frames[t] EXCEPT ![n] = e]
<1>2. e \in Frame
  BY <1>1 DEF Frame
<1>3. /\ fr \in Seq(Frame) /\ Len(fr) = n /\ DOMAIN fr = 1 .. n
      /\ \A i \in 1 .. n - 1 : fr[i] = frames[t][i]
      /\ fr[n].orig = frames[t][n].orig
  <2>1. e.orig = frames[t][n].orig
    BY <1>1 DEF Frame
  <2> HIDE DEF e
  <2> QED
    BY <1>1, <1>2, <2>1, ExceptSeq
<1>4. /\ frames' \in [Thread -> Seq(Frame)] /\ frames'[t] = fr
      /\ \A u \in Thread \ {t} : frames'[u] = frames[u]
  <2>1. frames' = [frames EXCEPT ![t] = fr] /\ frames \in [Thread -> Seq(Frame)]
    BY DEF SetReentrant, HubInv, HubTypeOK, Frame
  <2> HIDE DEF fr
  <2> QED
    BY <1>3, <2>1
<1>5. /\ acts' \in [Thread -> Seq(Act)] /\ walk' \in [Thread -> Walk]
      /\ UNCHANGED <<acts, walk>> /\ walk[t].mode = "none"
  BY DEF HubInv, HubTypeOK, Act, SetReentrant, Runs
<1>6. Apart(t)'
  <2>1. Apart(t)
    BY DEF HubInv
  <2> HIDE DEF fr, n
  <2>2. ASSUME NEW j \in 1 .. n, NEW i \in 1 .. j - 1
        PROVE  fr[i].allow \/ fr[i].orig # fr[j].orig
    <3>1. i \in 1 .. n - 1 /\ fr[i] = frames[t][i] /\ fr[j].orig = frames[t][j].orig
      BY <1>1, <1>3
    <3> QED
      BY <1>1, <2>1, <3>1 DEF Apart
  <2> QED
    BY <1>3, <1>4, <2>2 DEF Apart
<1>7. Len(frames'[t]) <= FrameMax
  BY <1>3, <1>4 DEF HubInv, HubTypeOK
<1>8. InProxy(t)' /\ Compared(t)'
  BY <1>5 DEF InProxy, Compared
<1> QED
  BY <1>4, <1>5, <1>6, <1>7, <1>8, ThreadStep DEF SetReentrant

LEMMA PushNothingStep ==
  ASSUME HubInv, NEW t \in Thread, PushNothing(t)
  PROVE  HubInv'
<1>1. walk[t] \in PushWalk
  BY Typed, Kinds DEF PushNothing
<1>2. walk[t].hub \in Hub /\ walk[t].ret \in Site
  BY <1>1 DEF PushWalk
<1> QED
  BY <1>2, RunStep DEF PushNothing

\* The new frame was compared with all the frames below it.
LEMMA PushStep ==
  ASSUME HubInv, NEW t \in Thread, Push(t)
  PROVE  HubInv'
<1> DEFINE w == walk[t]
           p == Head(w.rest)
           n == Len(frames[t])
           f == [hub |-> w.hub, orig |-> w.orig, ret |-> w.ret, allow |-> FALSE,
                 all |-> w.all, steady |-> w.steady]
           fr == Append(frames[t], f)
<1>1. w \in PushWalk
  BY Typed, Kinds DEF Push
<1>2. w.hub \in Hub /\ w.ret \in Site /\ p \in Proxy
  BY <1>1, TailIn DEF PushWalk, Push
<1>3. CASE n >= FrameMax
  <2>1. n \in Nat /\ FrameMax \in Nat
    BY HubAssumption, Typed, LenProperties
  <2>2. Run(t, w.hub, ORIG, w.ret, FALSE) /\ UNCHANGED frames
    <3>1. ~(n < FrameMax)
      BY <1>3, <2>1
    <3> QED
      BY <3>1 DEF Push
  <2> HIDE DEF w
  <2> QED
    BY <1>2, <2>2, RunStep
<1>4. CASE ~(n >= FrameMax)
  <2>1. /\ n < FrameMax /\ n \in Nat /\ DOMAIN frames[t] = 1 .. n
        /\ frames' = [frames EXCEPT ![t] = fr] /\ Run(t, w.hub, p, w.ret, TRUE)
    BY <1>4, HubAssumption, Typed, LenProperties DEF Push
  <2>2. f \in Frame /\ f.orig = w.orig
    BY <1>1 DEF PushWalk, Frame
  <2>3. /\ fr \in Seq(Frame) /\ Len(fr) = n + 1 /\ DOMAIN fr = 1 .. n + 1
        /\ \A i \in 1 .. n : fr[i] = frames[t][i]
        /\ fr[n + 1] = f
    <3>1. frames[t] \in Seq(Frame)
      BY Typed
    <3> HIDE DEF f
    <3> QED
      BY <2>1, <2>2, <3>1, AppendProperties, LenProperties
  <2>4. /\ frames' \in [Thread -> Seq(Frame)] /\ frames'[t] = fr
        /\ \A u \in Thread \ {t} : frames'[u] = frames[u]
    <3>1. frames \in [Thread -> Seq(Frame)]
      BY DEF HubInv, HubTypeOK, Frame
    <3> HIDE DEF fr
    <3> QED
      BY <2>1, <2>3, <3>1
  <2>5. /\ acts' \in [Thread -> Seq(Act)] /\ walk' \in [Thread -> Walk] /\ walk'[t].mode = "none"
        /\ \A u \in Thread \ {t} : acts'[u] = acts[u] /\ walk'[u] = walk[u]
    <3>1. acts \in [Thread -> Seq(Act)] /\ walk \in [Thread -> Walk] /\ NoWalk \in Walk
      BY DEF HubInv, HubTypeOK, Act, Walk
    <3>2. Call(w.hub, p, w.ret, TRUE) \in Act
      BY <1>2 DEF Call, Act
    <3>3. /\ Append(acts[t], Call(w.hub, p, w.ret, TRUE)) \in Seq(Act)
          /\ acts' = [acts EXCEPT ![t] = Append(acts[t], Call(w.hub, p, w.ret, TRUE))]
          /\ walk' = [walk EXCEPT ![t] = NoWalk]
      BY <2>1, <3>1, <3>2, AppendProperties DEF Run
    <3> QED
      BY <3>1, <3>3 DEF NoWalk
  <2>6. Apart(t)'
    <3>1. Apart(t)
      BY DEF HubInv
    <3>2. \A i \in 1 .. n : frames[t][i].allow \/ frames[t][i].orig # w.orig
      BY <2>1 DEF HubInv, Compared, Push
    <3> HIDE DEF fr, n, f, w
    <3>3. ASSUME NEW j \in 1 .. n + 1, NEW i \in 1 .. j - 1
          PROVE  fr[i].allow \/ fr[i].orig # fr[j].orig
      <4>1. i \in 1 .. n /\ fr[i] = frames[t][i]
        BY <2>1, <2>3
      <4>2. CASE j = n + 1
        BY <2>2, <2>3, <3>2, <4>1, <4>2
      <4>3. CASE j # n + 1
        <5>1. j \in 1 .. n /\ fr[j] = frames[t][j]
          BY <2>1, <2>3, <4>3
        <5> QED
          BY <2>1, <3>1, <4>1, <5>1 DEF Apart
      <4> QED
        BY <4>2, <4>3
    <3> QED
      BY <2>3, <2>4, <3>3 DEF Apart
  <2>7. Len(frames'[t]) <= FrameMax
    <3> HIDE DEF fr, n
    <3> QED
      BY <2>1, <2>3, <2>4, HubAssumption
  <2>8. InProxy(t)' /\ Compared(t)'
    BY <2>5 DEF InProxy, Compared
  <2>9. UNCHANGED <<list, enabled, orig>>
    BY <2>1 DEF Run
  <2> QED
    BY <2>4, <2>5, <2>6, <2>7, <2>8, <2>9, ThreadStep
<1> QED
  BY <1>3, <1>4

-----------------------------------------------------------------------------
(* A hub changes, and the threads that are in it do not.                   *)

\* The frames are still apart, and as far as they can tell nothing happened.
LEMMA HubStep ==
  ASSUME HubInv, HubTypeOK', walk' \in [Thread -> Walk], UNCHANGED acts,
         \A t \in Thread :
           /\ DOMAIN frames'[t] = DOMAIN frames[t] /\ Len(frames'[t]) = Len(frames[t])
           /\ \A i \in DOMAIN frames[t] : frames'[t][i].allow = frames[t][i].allow
                                        /\ frames'[t][i].orig = frames[t][i].orig
           /\ walk'[t].mode = walk[t].mode
           /\ walk[t].mode \in {"head", "push"} => walk'[t].orig = walk[t].orig
  PROVE  HubInv'
<1> SUFFICES ASSUME NEW t \in Thread
             PROVE  InProxy(t)' /\ Compared(t)' /\ Apart(t)'
  BY DEF HubInv
<1>1. InProxy(t) /\ Compared(t) /\ Apart(t)
  BY DEF HubInv
<1>2. /\ frames[t] \in Seq(Frame) /\ frames'[t] \in Seq(Frame)
      /\ Len(frames[t]) \in Nat /\ DOMAIN frames[t] = 1 .. Len(frames[t])
  <2>1. frames[t] \in Seq(Frame) /\ frames'[t] \in Seq(Frame)
    BY DEF HubInv, HubTypeOK, Frame, Code, Site
  <2> QED
    BY <2>1, LenProperties
<1>3. InProxy(t)'
  BY <1>1, <1>2, EmptySeq DEF InProxy, Top
<1>4. Compared(t)'
  BY <1>1 DEF Compared
<1>5. Apart(t)'
  BY <1>1, <1>2 DEF Apart
<1> QED
  BY <1>3, <1>4, <1>5

LEMMA AddStep ==
  ASSUME HubInv, NEW p \in Proxy, Add(p)
  PROVE  HubInv'
<1> DEFINE h == HubOf[p]
           l == IF Contains(list[h], p) THEN list[h] ELSE <<p>> \o list[h]
<1>1. h \in Hub /\ list[h] \in Seq(Proxy) /\ ToSet(list[h]) \subseteq {q \in Proxy : HubOf[q] = h}
  BY HubAssumption DEF HubInv, HubTypeOK
<1>2. l \in Seq(Proxy) /\ ToSet(l) \subseteq {q \in Proxy : HubOf[q] = h}
  <2>1. CASE Contains(list[h], p)
    BY <1>1, <2>1
  <2>2. CASE ~Contains(list[h], p)
    <3>1. /\ l = <<p>> \o list[h] /\ l \in Seq(Proxy)
          /\ Len(list[h]) \in Nat /\ DOMAIN list[h] = 1 .. Len(list[h])
          /\ DOMAIN l = 1 .. Len(list[h]) + 1
          /\ l[1] = p /\ \A i \in 1 .. Len(list[h]) : l[i + 1] = list[h][i]
      BY <1>1, <2>2
    <3> HIDE DEF l
    <3>2. ASSUME NEW i \in DOMAIN l
          PROVE  l[i] \in Proxy /\ HubOf[l[i]] = h
      <4>1. CASE i = 1
        BY <3>1, <4>1 DEF h
      <4>2. CASE i # 1
        <5>1. i - 1 \in 1 .. Len(list[h]) /\ l[(i - 1) + 1] = list[h][i - 1] /\ (i - 1) + 1 = i
          BY <3>1, <4>2
        <5>2. list[h][i - 1] \in ToSet(list[h])
          BY <3>1, <5>1 DEF ToSet
        <5> QED
          BY <1>1, <5>1, <5>2
      <4> QED
        BY <4>1, <4>2
    <3> QED
      BY <3>1, <3>2 DEF ToSet
  <2> QED
    BY <2>1, <2>2
<1>3. list' = [list EXCEPT ![h] = l] /\ enabled' = enabled \cup {p} /\ UNCHANGED <<orig, frames, acts, walk>>
  BY DEF Add
<1>4. HubTypeOK'
  <2> HIDE DEF l, h
  <2>1. list' \in [Hub -> Seq(Proxy)]
    BY <1>1, <1>2, <1>3 DEF HubInv, HubTypeOK
  <2>2. \A k \in Hub : ToSet(list'[k]) \subseteq {q \in Proxy : HubOf[q] = k}
    BY <1>1, <1>2, <1>3 DEF HubInv, HubTypeOK
  <2> QED
    BY <1>3, <2>1, <2>2 DEF HubInv, HubTypeOK, Code, Site
<1> QED
  BY <1>3, <1>4, HubStep DEF HubInv

LEMMA RelinkStep ==
  ASSUME HubInv, NEW h \in Hub, NEW f \in MayFollow(h), Relink(h, f)
  PROVE  HubInv'
<1>1. f \in Code
  BY DEF Code
<1>2. HubTypeOK'
  <2>1. orig' \in [Hub -> Code]
    BY <1>1 DEF HubInv, HubTypeOK, Relink
  <2>2. UNCHANGED <<list, enabled, frames, acts, walk>>
    BY DEF Relink
  <2> QED
    BY <2>1, <2>2 DEF HubInv, HubTypeOK, Code, Site
<1> QED
  BY <1>2, HubStep DEF HubInv, Relink

LEMMA DelStep ==
  ASSUME HubInv, NEW p \in Proxy, Del(p)
  PROVE  HubInv'
<1>1. ASSUME NEW t \in Thread
      PROVE  /\ frames'[t] \in Seq(Frame)
             /\ DOMAIN frames'[t] = DOMAIN frames[t] /\ Len(frames'[t]) = Len(frames[t])
             /\ \A i \in DOMAIN frames[t] : frames'[t][i].allow = frames[t][i].allow
                                          /\ frames'[t][i].orig = frames[t][i].orig
  <2> DEFINE e(i) == [frames[t][i] EXCEPT !.steady = @ \ {p}]
             n == Len(frames[t])
  <2>1. /\ frames[t] \in Seq(Frame) /\ n \in Nat /\ DOMAIN frames[t] = 1 .. n
        /\ \A i \in 1 .. n : frames[t][i] \in Frame
    BY Typed, LenProperties, ElementOfSeq
  <2>2. frames'[t] = [i \in 1 .. n |-> e(i)]
    BY <2>1 DEF Del
  <2>3. \A i \in 1 .. n : e(i) \in Frame /\ e(i).allow = frames[t][i].allow /\ e(i).orig = frames[t][i].orig
    BY <2>1 DEF Frame
  <2> HIDE DEF e, n
  <2>4. frames'[t] \in [1 .. n -> Frame] /\ n \in Nat
    BY <2>1, <2>2, <2>3
  <2>5. frames'[t] \in Seq(Frame) /\ Len(frames'[t]) = n
    BY <2>4, SeqDef, LenProperties
  <2> QED
    BY <2>1, <2>2, <2>3, <2>5 DEF n
<1>2. ASSUME NEW t \in Thread
      PROVE  /\ walk'[t] \in Walk /\ walk'[t].mode = walk[t].mode
             /\ walk[t].mode \in {"head", "push"} => walk'[t].orig = walk[t].orig
  <2>1. walk[t] \in Walk
    BY Typed
  <2>2. CASE walk[t].mode = "head"
    BY <2>1, <2>2, Kinds DEF Del, Walk, HeadWalk
  <2>3. CASE walk[t].mode = "push"
    BY <2>1, <2>3, Kinds DEF Del, Walk, PushWalk
  <2>4. CASE walk[t].mode \notin {"head", "push"}
    BY <2>1, <2>4 DEF Del
  <2> QED
    BY <2>2, <2>3, <2>4
<1>3. frames' \in [Thread -> Seq(Frame)] /\ walk' \in [Thread -> Walk]
  <2>1. /\ frames' = [t \in Thread |-> frames'[t]]
        /\ walk' = [t \in Thread |-> walk'[t]]
    BY DEF Del
  <2> QED
    BY <1>1, <1>2, <2>1
<1>4. HubTypeOK'
  <2>1. \A t \in Thread : Len(frames'[t]) <= FrameMax
    BY <1>1 DEF HubInv, HubTypeOK
  <2>2. enabled' \subseteq Proxy /\ UNCHANGED <<list, orig, acts>>
    BY DEF Del, HubInv, HubTypeOK
  <2> QED
    BY <1>3, <2>1, <2>2 DEF HubInv, HubTypeOK, Frame, Code, Site
<1>5. UNCHANGED acts
  BY DEF Del
<1> QED
  BY <1>1, <1>2, <1>3, <1>4, <1>5, HubStep

-----------------------------------------------------------------------------
(* The theorems.                                                           *)

LEMMA HubInit ==
  ASSUME Init
  PROVE  HubInv
<1>1. \A h \in Hub : h \in Code
  BY DEF Code, MayFollow
<1>2. /\ <<>> \in Seq(Proxy) /\ <<>> \in Seq(Frame) /\ <<>> \in Seq(Act) /\ Len(<<>>) = 0
      /\ ToSet(<<>>) = {} /\ DOMAIN <<>> = {}
  BY EmptySeq DEF ToSet
<1>3. HubTypeOK
  BY <1>1, <1>2, HubAssumption DEF Init, HubTypeOK, Frame, Act
<1>4. walk \in [Thread -> Walk] /\ \A t \in Thread : walk[t].mode = "none"
  BY DEF Init, NoWalk, Walk
<1> QED
  BY <1>2, <1>3, <1>4 DEF Init, HubInv, InProxy, Compared, Apart

LEMMA HubNext ==
  ASSUME HubInv, [Next]_vars
  PROVE  HubInv'
<1>1. CASE UNCHANGED vars
  <2>1. UNCHANGED <<list, enabled, orig, frames, acts, walk>>
    BY <1>1 DEF vars
  <2>2. HubTypeOK'
    BY <2>1 DEF HubInv, HubTypeOK, Code, Site
  <2> QED
    BY <2>1, <2>2, HubStep DEF HubInv
<1>2. ASSUME NEW p \in Proxy, Add(p) \/ Del(p) PROVE HubInv'
  BY <1>2, AddStep, DelStep
<1>3. ASSUME NEW h \in Hub, NEW f \in MayFollow(h), Relink(h, f) PROVE HubInv'
  BY <1>3, RelinkStep
<1>4. ASSUME NEW t \in Thread, NEW h \in Hub,
             CallFromApp(t, h) \/ CallFromProxy(t, h) \/ CallFromOriginal(t, h) \/ TailJump(t, h)
      PROVE  HubInv'
  BY <1>4, CallStep
<1>5. ASSUME NEW t \in Thread, ReadHead(t) \/ PassOver(t) \/ Push(t) \/ PushNothing(t)
      PROVE  HubInv'
  BY <1>5, ReadHeadStep, PassOverStep, PushStep, PushNothingStep
<1>6. ASSUME NEW t \in Thread, CallPrev(t) \/ Prev(t)
      PROVE  HubInv'
  BY <1>6, CallPrevStep, PrevStep
<1>7. ASSUME NEW t \in Thread, NEW allowed \in BOOLEAN, SetReentrant(t, allowed)
      PROVE  HubInv'
  BY <1>7, SetReentrantStep
<1>8. ASSUME NEW t \in Thread, ReturnFromProxy(t) \/ ReturnFromOriginal(t)
      PROVE  HubInv'
  BY <1>8, ReturnFromProxyStep, ReturnFromOriginalStep
<1> QED
  BY <1>1, <1>2, <1>3, <1>4, <1>5, <1>6, <1>7, <1>8 DEF Next

LEMMA HubInvariant == Spec => []HubInv
<1>1. Init => HubInv
  BY HubInit
<1>2. HubInv /\ [Next]_vars => HubInv'
  BY HubNext
<1> QED
  BY <1>1, <1>2, PTL DEF Spec

\* Lists, flags, stacks and activations keep their types, and no stack gets longer than
\* SH_HUB_STACK_FRAME_MAX, whatever is called, added, deleted and relinked (sh_hub.c).
THEOREM HubTypeCorrect == Spec => []HubTypeOK
<1>1. HubInv => HubTypeOK
  BY DEF HubInv
<1> QED
  BY <1>1, HubInvariant, PTL

\* sh_hub_push_stack: a thread is twice in the proxies of a function only if the outer
\* ones allowed it or the hub was relinked between the two calls.
THEOREM ReentryNeedsRelink == Spec => []NoReentryUnlessRelinked
<1>1. HubInv => NoReentryUnlessRelinked
  BY DEF HubInv, Apart, NoReentryUnlessRelinked
<1> QED
  BY <1>1, HubInvariant, PTL

-----------------------------------------------------------------------------
(* Which frame belongs to which activation.  A return address is a call    *)
(* site, so a frame could be taken for that of another activation that was *)
(* called from the same place.  It is not: SHADOWHOOK_CALL_PREV stays in a *)
(* hub, the calls made in it name the caller, and jumps from an original   *)
(* to the next hub do not lead back to where they began.  This last is a   *)
(* hypothesis about the program that is hooked, and it is needed: TLC      *)
(* finds a function that jumps to itself, is relinked and pops too early.  *)

OrdersHubs(R) ==
  /\ Jumps \subseteq R
  /\ \A g, h, k \in Hub : <<g, h>> \in R /\ <<h, k>> \in R => <<g, k>> \in R
  /\ \A h \in Hub : <<h, h>> \notin R
JumpsEnd == \E R \in SUBSET (Hub \X Hub) : OrdersHubs(R)
Reach == CHOOSE R \in SUBSET (Hub \X Hub) : OrdersHubs(R)

\* The proxies that run in the n-th frame: the first one and those after it, up to the next frame's.
InFrame(F, A, at, n, i) ==
  A[i].who \in Proxy /\ at[n] <= i /\ \A l \in n + 1 .. Len(F) : i < at[l]

\* The n-th frame is that of the activation at[n].
Marks(F, A, at) ==
  /\ at \in [DOMAIN F -> {i \in DOMAIN A : A[i].first}]
  /\ \A i \in DOMAIN A : A[i].first => \E n \in DOMAIN F : at[n] = i
  /\ \A n \in DOMAIN F : \A l \in 1 .. n - 1 : at[l] < at[n]
  /\ \A n \in DOMAIN F : F[n].hub = A[at[n]].hub /\ F[n].ret = A[at[n]].ret

\* The proxies in it are of its hub and run in the order of its list.
InList(F, A, at) ==
  \A n \in DOMAIN F : \A i \in DOMAIN A : InFrame(F, A, at, n, i) =>
       A[i].hub = F[n].hub /\ \E k \in DOMAIN F[n].all : F[n].all[k] = A[i].who
InOrder(F, A, at) ==
  \A n \in DOMAIN F : \A i, j \in DOMAIN A :
       InFrame(F, A, at, n, i) /\ InFrame(F, A, at, n, j) /\ i < j =>
         \A k, l \in DOMAIN F[n].all : F[n].all[k] = A[i].who /\ F[n].all[l] = A[j].who => k < l

\* A proxy that stays enabled runs in the frame, or is in its list after all that do.
RanIn(F, A, at, n, p) == \E i \in DOMAIN A : InFrame(F, A, at, n, i) /\ A[i].who = p
Ahead(F, A, at, n, k) ==
  \A i \in DOMAIN A : InFrame(F, A, at, n, i) =>
    \A l \in DOMAIN F[n].all : F[n].all[l] = A[i].who => l < k
Kept(F, A, at) ==
  \A n \in DOMAIN F : \A p \in F[n].steady :
    RanIn(F, A, at, n, p) \/ \E k \in DOMAIN F[n].all : F[n].all[k] = p /\ Ahead(F, A, at, n, k)

Fits(F, A, at) == Marks(F, A, at) /\ InList(F, A, at) /\ InOrder(F, A, at) /\ Kept(F, A, at)

\* An activation c on top of b.
Follows(b, c) ==
  /\ c.ret[2] = PREV => /\ b.who \in Proxy /\ c.ret[1] = b.who
                        /\ <<b.hub, c.hub>> \in Reach \/ (~c.first /\ b.hub = c.hub)
  /\ c.who \in Proxy /\ ~c.first => c.ret[2] = PREV /\ b.hub = c.hub

Callers(A) ==
  \A i \in DOMAIN A :
    /\ A[i].who \in Proxy => HubOf[A[i].who] = A[i].hub
    /\ A[i].first => A[i].who \in Proxy
    /\ i > 1 => Follows(A[i - 1], A[i])
    /\ i = 1 => A[i].ret[2] # PREV /\ (A[i].who \in Proxy => A[i].first)

\* A call of the hub h with the return address r, on top of A.
From(A, h, r) ==
  r[2] = PREV => A # <<>> /\ Last(A).who \in Proxy /\ r[1] = Last(A).who /\ <<Last(A).hub, h>> \in Reach

Distinct(s) == \A i, j \in DOMAIN s : s[i] = s[j] => i = j
Items(h, s) == Distinct(s) /\ \A i \in DOMAIN s : HubOf[s[i]] = h
Ends(r, s) == Len(r) <= Len(s) /\ \A i \in 1 .. Len(r) : r[i] = s[Len(s) - Len(r) + i]

WalkFits(F, A, w) ==
  /\ w.mode \in {"head", "push"} => From(A, w.hub, w.ret)
  /\ w.mode = "push" =>
       /\ Items(w.hub, w.all) /\ Ends(w.rest, w.all)
       /\ \A p \in w.steady : \E j \in DOMAIN w.rest : w.rest[j] = p
  /\ w.mode = "prev" =>
       /\ Ends(w.rest, Last(F).all)
       /\ \A k \in DOMAIN Last(F).all : Last(F).all[k] = Last(A).who => k + Len(w.rest) <= Len(Last(F).all)
       /\ \A k \in DOMAIN Last(F).all : Last(F).all[k] \in Last(F).steady =>
            \/ k + Len(w.rest) > Len(Last(F).all)
            \/ \E l \in DOMAIN Last(F).all : Last(F).all[l] = Last(A).who /\ k <= l

Stack(F, A, w) ==
  /\ \E at : Fits(F, A, at)
  /\ Callers(A)
  /\ \A n \in DOMAIN F : Items(F[n].hub, F[n].all)
  /\ WalkFits(F, A, w)

\* What a call remembers as enabled is enabled, and in the list that it is about to read.
Steady(F, w, on, lists) ==
  /\ \A n \in DOMAIN F : F[n].steady \subseteq on
  /\ w.mode \in {"head", "push"} => w.steady \subseteq on
  /\ w.mode = "head" => \A p \in w.steady : \E j \in DOMAIN lists[w.hub] : lists[w.hub][j] = p

StackInv ==
  /\ HubInv
  /\ \A h \in Hub : Distinct(list[h])
  /\ \A p \in enabled : \E j \in DOMAIN list[HubOf[p]] : list[HubOf[p]][j] = p
  /\ \A t \in Thread : Stack(frames[t], acts[t], walk[t]) /\ Steady(frames[t], walk[t], enabled, list)

LEMMA ReachOrders ==
  ASSUME JumpsEnd
  PROVE  OrdersHubs(Reach)
BY DEF JumpsEnd, Reach

LEMMA AppendIn ==
  ASSUME NEW S, NEW s \in Seq(S), NEW e \in S
  PROVE  /\ Append(s, e) \in Seq(S) /\ Len(s) \in Nat /\ Len(Append(s, e)) = Len(s) + 1
         /\ DOMAIN s = 1 .. Len(s) /\ DOMAIN Append(s, e) = 1 .. Len(s) + 1
         /\ \A i \in 1 .. Len(s) : Append(s, e)[i] = s[i]
         /\ Append(s, e)[Len(s) + 1] = e
BY AppendProperties, LenProperties

LEMMA FrontOf ==
  ASSUME NEW S, NEW s \in Seq(S), s # <<>>
  PROVE  /\ Front(s) \in Seq(S) /\ Len(s) \in Nat \ {0} /\ Len(Front(s)) = Len(s) - 1
         /\ DOMAIN s = 1 .. Len(s) /\ DOMAIN Front(s) = 1 .. Len(s) - 1
         /\ \A i \in 1 .. Len(s) - 1 : Front(s)[i] = s[i]
         /\ Last(s) = s[Len(s)] /\ Last(s) \in S
BY FrontIn, LastIn, LenProperties, EmptySeq

\* Something runs on top: the original function, or a proxy further down the newest frame's list.
LEMMA FitsRun ==
  ASSUME NEW F \in Seq(Frame), NEW A \in Seq(Act), NEW at, Fits(F, A, at), NEW a \in Act, ~a.first,
         a.who \in Proxy =>
           /\ F # <<>> /\ a.hub = F[Len(F)].hub
           /\ \E k \in DOMAIN F[Len(F)].all : F[Len(F)].all[k] = a.who
           /\ \A i \in DOMAIN A : InFrame(F, A, at, Len(F), i) =>
                \A k, l \in DOMAIN F[Len(F)].all :
                  F[Len(F)].all[k] = A[i].who /\ F[Len(F)].all[l] = a.who => k < l
           /\ \A p \in F[Len(F)].steady \ {a.who} :
                \/ RanIn(F, A, at, Len(F), p)
                \/ \E k \in DOMAIN F[Len(F)].all :
                     /\ F[Len(F)].all[k] = p /\ Ahead(F, A, at, Len(F), k)
                     /\ \A l \in DOMAIN F[Len(F)].all : F[Len(F)].all[l] = a.who => l < k
  PROVE  Fits(F, Append(A, a), at)
<1> DEFINE B == Append(A, a)
           m == Len(A)
<1>1. /\ m \in Nat /\ DOMAIN A = 1 .. m /\ DOMAIN B = 1 .. m + 1
      /\ \A i \in 1 .. m : B[i] = A[i]
      /\ B[m + 1] = a
  BY AppendIn
<1>2. Len(F) \in Nat /\ DOMAIN F = 1 .. Len(F)
  BY LenProperties
<1> HIDE DEF B, m
<1>3. /\ at \in [DOMAIN F -> {i \in DOMAIN A : A[i].first}]
      /\ \A n \in DOMAIN F : \A l \in 1 .. n - 1 : at[l] < at[n]
  BY DEF Fits, Marks
<1>4. at \in [DOMAIN F -> {i \in DOMAIN B : B[i].first}] /\ \A n \in DOMAIN F : at[n] \in 1 .. m
  BY <1>1, <1>3
<1>5. ASSUME NEW i \in DOMAIN B, B[i].first
      PROVE  \E n \in DOMAIN F : at[n] = i
  <2>1. i \in 1 .. m
    BY <1>1, <1>5
  <2> QED
    BY <1>1, <1>5, <2>1 DEF Fits, Marks
<1>6. \A n \in DOMAIN F : F[n].hub = B[at[n]].hub /\ F[n].ret = B[at[n]].ret
  BY <1>1, <1>4 DEF Fits, Marks
<1>7. \A n \in DOMAIN F : \A i \in 1 .. m : InFrame(F, B, at, n, i) <=> InFrame(F, A, at, n, i)
  BY <1>1 DEF InFrame
<1>8. ASSUME NEW n \in DOMAIN F, InFrame(F, B, at, n, m + 1)
      PROVE  n = Len(F) /\ a.who \in Proxy
  <2>1. a.who \in Proxy
    BY <1>1, <1>8 DEF InFrame
  <2>2. n + 1 \notin n + 1 .. Len(F)
    BY <1>2, <1>1, <1>4, <1>8 DEF InFrame
  <2> QED
    BY <1>2, <2>1, <2>2
<1>9. ASSUME NEW n \in DOMAIN F, NEW i \in DOMAIN B, InFrame(F, B, at, n, i)
      PROVE  B[i].hub = F[n].hub /\ \E k \in DOMAIN F[n].all : F[n].all[k] = B[i].who
  <2>1. CASE i \in 1 .. m
    <3>1. InFrame(F, A, at, n, i)
      BY <1>7, <1>9, <2>1
    <3>2. A[i].hub = F[n].hub /\ \E k \in DOMAIN F[n].all : F[n].all[k] = A[i].who
      BY <1>1, <2>1, <3>1, Zenon DEF Fits, InList
    <3> QED
      BY <1>1, <2>1, <3>2, Zenon
  <2>2. CASE i = m + 1
    BY <1>1, <1>8, <1>9, <2>2
  <2> QED
    BY <1>1, <2>1, <2>2
<1>10. ASSUME NEW n \in DOMAIN F, NEW i \in DOMAIN B, NEW j \in DOMAIN B,
              InFrame(F, B, at, n, i), InFrame(F, B, at, n, j), i < j
       PROVE  \A k, l \in DOMAIN F[n].all : F[n].all[k] = B[i].who /\ F[n].all[l] = B[j].who => k < l
  <2>1. i \in 1 .. m /\ InFrame(F, A, at, n, i)
    BY <1>1, <1>7, <1>10
  <2>2. CASE j \in 1 .. m
    <3>1. InFrame(F, A, at, n, j) /\ i \in DOMAIN A /\ j \in DOMAIN A
      BY <1>1, <1>7, <1>10, <2>1, <2>2
    <3>2. \A k, l \in DOMAIN F[n].all : F[n].all[k] = A[i].who /\ F[n].all[l] = A[j].who => k < l
      BY <1>10, <2>1, <3>1 DEF Fits, InOrder
    <3> QED
      BY <1>1, <2>1, <2>2, <3>2
  <2>3. CASE j = m + 1
    <3>1. n = Len(F) /\ a.who \in Proxy
      BY <1>8, <1>10, <2>3
    <3> QED
      BY <1>1, <2>1, <2>3, <3>1
  <2> QED
    BY <1>1, <2>2, <2>3
<1>11. Marks(F, B, at)
  BY <1>3, <1>4, <1>5, <1>6 DEF Marks
<1>12. InList(F, B, at)
  BY <1>9, Zenon DEF InList
<1>13. InOrder(F, B, at)
  BY <1>10, Zenon DEF InOrder
<1>14. ASSUME NEW n \in DOMAIN F, NEW p, RanIn(F, A, at, n, p)
       PROVE  RanIn(F, B, at, n, p)
  <2>1. PICK i \in DOMAIN A : InFrame(F, A, at, n, i) /\ A[i].who = p
    BY <1>14 DEF RanIn
  <2>2. i \in 1 .. m /\ i \in DOMAIN B /\ B[i].who = p /\ InFrame(F, B, at, n, i)
    BY <1>1, <1>7, <2>1
  <2> QED
    BY <2>2 DEF RanIn
<1>15. ASSUME NEW n \in DOMAIN F, NEW k, Ahead(F, A, at, n, k),
              \A l \in DOMAIN F[n].all : InFrame(F, B, at, n, m + 1) /\ F[n].all[l] = a.who => l < k
       PROVE  Ahead(F, B, at, n, k)
  <2>1. ASSUME NEW i \in DOMAIN B, InFrame(F, B, at, n, i), NEW l \in DOMAIN F[n].all, F[n].all[l] = B[i].who
        PROVE  l < k
    <3>1. CASE i \in 1 .. m
      <4>1. i \in DOMAIN A /\ InFrame(F, A, at, n, i) /\ F[n].all[l] = A[i].who
        BY <1>1, <1>7, <2>1, <3>1
      <4> QED
        BY <1>15, <4>1 DEF Ahead
    <3>2. CASE i = m + 1
      BY <1>1, <1>15, <2>1, <3>2
    <3> QED
      BY <1>1, <3>1, <3>2
  <2> QED
    BY <2>1, Zenon DEF Ahead
<1>16. ASSUME NEW n \in DOMAIN F, NEW p \in F[n].steady
       PROVE  RanIn(F, B, at, n, p) \/ \E k \in DOMAIN F[n].all : F[n].all[k] = p /\ Ahead(F, B, at, n, k)
  <2>1. RanIn(F, A, at, n, p) \/ \E k \in DOMAIN F[n].all : F[n].all[k] = p /\ Ahead(F, A, at, n, k)
    BY DEF Fits, Kept
  <2>2. CASE InFrame(F, B, at, n, m + 1)
    <3>1. n = Len(F) /\ a.who \in Proxy
      BY <1>8, <2>2
    <3>2. CASE p = a.who
      BY <1>1, <2>2, <3>2 DEF RanIn
    <3>3. CASE p # a.who
      <4>1. \/ RanIn(F, A, at, n, p)
            \/ \E k \in DOMAIN F[n].all :
                 /\ F[n].all[k] = p /\ Ahead(F, A, at, n, k)
                 /\ \A l \in DOMAIN F[n].all : F[n].all[l] = a.who => l < k
        BY <3>1, <3>3
      <4> QED
        BY <1>14, <1>15, <4>1
    <3> QED
      BY <3>2, <3>3
  <2>3. CASE ~InFrame(F, B, at, n, m + 1)
    BY <1>14, <1>15, <2>1, <2>3
  <2> QED
    BY <2>2, <2>3
<1>17. Kept(F, B, at)
  BY <1>16, Zenon DEF Kept
<1> QED
  BY <1>11, <1>12, <1>13, <1>17 DEF Fits, B

\* What runs on top returns, and it has no frame.
LEMMA FitsReturn ==
  ASSUME NEW F \in Seq(Frame), NEW A \in Seq(Act), NEW at, Fits(F, A, at), A # <<>>, ~Last(A).first
  PROVE  Fits(F, Front(A), at)
<1> DEFINE B == Front(A)
           m == Len(A)
<1>1. /\ m \in Nat \ {0} /\ DOMAIN A = 1 .. m /\ DOMAIN B = 1 .. m - 1
      /\ \A i \in 1 .. m - 1 : B[i] = A[i]
      /\ ~A[m].first
  BY FrontOf
<1> HIDE DEF B, m
<1>2. /\ at \in [DOMAIN F -> {i \in DOMAIN A : A[i].first}]
      /\ \A n \in DOMAIN F : \A l \in 1 .. n - 1 : at[l] < at[n]
  BY DEF Fits, Marks
<1>3. at \in [DOMAIN F -> {i \in DOMAIN B : B[i].first}] /\ \A n \in DOMAIN F : at[n] \in 1 .. m - 1
  <2>1. ASSUME NEW n \in DOMAIN F
        PROVE  at[n] \in 1 .. m - 1 /\ at[n] \in DOMAIN B /\ B[at[n]].first
    <3>1. at[n] \in 1 .. m /\ A[at[n]].first
      BY <1>1, <1>2
    <3>2. at[n] # m
      BY <1>1, <3>1
    <3> QED
      BY <1>1, <3>1, <3>2
  <2> QED
    BY <1>2, <2>1
<1>4. Marks(F, B, at)
  <2>1. ASSUME NEW i \in DOMAIN B, B[i].first
        PROVE  \E n \in DOMAIN F : at[n] = i
    BY <1>1, <2>1 DEF Fits, Marks
  <2>2. \A n \in DOMAIN F : F[n].hub = B[at[n]].hub /\ F[n].ret = B[at[n]].ret
    BY <1>1, <1>3 DEF Fits, Marks
  <2> QED
    BY <1>2, <1>3, <2>1, <2>2 DEF Marks
<1>5. \A n \in DOMAIN F : \A i \in DOMAIN B : InFrame(F, B, at, n, i) => InFrame(F, A, at, n, i) /\ i \in DOMAIN A
  BY <1>1 DEF InFrame
<1>6. InList(F, B, at)
  <2>1. ASSUME NEW n \in DOMAIN F, NEW i \in DOMAIN B, InFrame(F, B, at, n, i)
        PROVE  A[i].hub = F[n].hub /\ \E k \in DOMAIN F[n].all : F[n].all[k] = A[i].who
    BY <1>5, <2>1, Zenon DEF Fits, InList
  <2>2. \A i \in DOMAIN B : B[i] = A[i]
    BY <1>1
  <2> QED
    BY <2>1, <2>2, Zenon DEF InList
<1>7. InOrder(F, B, at)
  <2>1. ASSUME NEW n \in DOMAIN F, NEW i \in DOMAIN B, NEW j \in DOMAIN B,
               InFrame(F, B, at, n, i), InFrame(F, B, at, n, j), i < j
        PROVE  \A k, l \in DOMAIN F[n].all : F[n].all[k] = B[i].who /\ F[n].all[l] = B[j].who => k < l
    <3>1. \A k, l \in DOMAIN F[n].all : F[n].all[k] = A[i].who /\ F[n].all[l] = A[j].who => k < l
      BY <1>5, <2>1, Zenon DEF Fits, InOrder
    <3>2. B[i] = A[i] /\ B[j] = A[j]
      BY <1>1
    <3> QED
      BY <3>1, <3>2, Zenon
  <2> QED
    BY <2>1, Zenon DEF InOrder
<1>8. \A n \in DOMAIN F : \A i \in DOMAIN B : InFrame(F, A, at, n, i) => InFrame(F, B, at, n, i)
  BY <1>1 DEF InFrame
<1>9. ASSUME NEW n \in DOMAIN F, NEW k, Ahead(F, A, at, n, k)
      PROVE  Ahead(F, B, at, n, k)
  <2>1. ASSUME NEW i \in DOMAIN B, InFrame(F, B, at, n, i), NEW l \in DOMAIN F[n].all, F[n].all[l] = B[i].who
        PROVE  l < k
    <3>1. i \in DOMAIN A /\ InFrame(F, A, at, n, i) /\ B[i] = A[i]
      BY <1>1, <1>5, <2>1
    <3> QED
      BY <1>9, <2>1, <3>1 DEF Ahead
  <2> QED
    BY <2>1, Zenon DEF Ahead
\* What returns is behind all that run in its frame below it.
<1>10. ASSUME NEW n \in DOMAIN F, InFrame(F, A, at, n, m), NEW k \in DOMAIN F[n].all, F[n].all[k] = A[m].who
       PROVE  Ahead(F, B, at, n, k)
  <2>1. ASSUME NEW i \in DOMAIN B, InFrame(F, B, at, n, i), NEW l \in DOMAIN F[n].all, F[n].all[l] = B[i].who
        PROVE  l < k
    <3>1. i \in DOMAIN A /\ InFrame(F, A, at, n, i) /\ B[i] = A[i] /\ i < m /\ m \in DOMAIN A
      BY <1>1, <1>5, <2>1
    <3>2. \A a, b \in DOMAIN F[n].all : F[n].all[a] = A[i].who /\ F[n].all[b] = A[m].who => a < b
      BY <1>10, <3>1, Zenon DEF Fits, InOrder
    <3> QED
      BY <1>10, <2>1, <3>1, <3>2
  <2> QED
    BY <2>1, Zenon DEF Ahead
<1>11. ASSUME NEW n \in DOMAIN F, NEW p \in F[n].steady
       PROVE  RanIn(F, B, at, n, p) \/ \E k \in DOMAIN F[n].all : F[n].all[k] = p /\ Ahead(F, B, at, n, k)
  <2>1. CASE RanIn(F, A, at, n, p)
    <3>1. PICK i \in DOMAIN A : InFrame(F, A, at, n, i) /\ A[i].who = p
      BY <2>1 DEF RanIn
    <3>2. CASE i = m
      <4>1. \E k \in DOMAIN F[n].all : F[n].all[k] = p
        BY <3>1, Zenon DEF Fits, InList
      <4> QED
        BY <1>10, <3>1, <3>2, <4>1
    <3>3. CASE i # m
      <4>1. i \in DOMAIN B /\ B[i] = A[i]
        BY <1>1, <3>3
      <4> QED
        BY <1>8, <3>1, <4>1 DEF RanIn
    <3> QED
      BY <3>2, <3>3
  <2>2. CASE ~RanIn(F, A, at, n, p)
    <3>1. \E k \in DOMAIN F[n].all : F[n].all[k] = p /\ Ahead(F, A, at, n, k)
      BY <2>2 DEF Fits, Kept
    <3> QED
      BY <1>9, <3>1
  <2> QED
    BY <2>1, <2>2
<1>12. Kept(F, B, at)
  BY <1>11, Zenon DEF Kept
<1> QED
  BY <1>4, <1>6, <1>7, <1>12 DEF Fits, B

\* The first proxy's activation, if it is on top, is the newest frame's.
LEMMA TopMark ==
  ASSUME NEW F \in Seq(Frame), NEW A \in Seq(Act), NEW at, Fits(F, A, at), A # <<>>, Last(A).first
  PROVE  F # <<>> /\ at[Len(F)] = Len(A) /\ F[Len(F)].ret = Last(A).ret
<1>1. Len(F) \in Nat /\ DOMAIN F = 1 .. Len(F)
  BY LenProperties
<1>2. Len(A) \in Nat \ {0} /\ DOMAIN A = 1 .. Len(A) /\ Last(A) = A[Len(A)]
  BY FrontOf
<1>3. PICK n \in DOMAIN F : at[n] = Len(A)
  BY <1>2 DEF Fits, Marks
<1>4. Len(F) \in DOMAIN F /\ F # <<>>
  BY <1>1, <1>3, EmptySeq
<1>5. at[Len(F)] \in 1 .. Len(A)
  BY <1>2, <1>4 DEF Fits, Marks
<1>6. n = Len(F)
  <2> SUFFICES ASSUME n # Len(F) PROVE FALSE
    OBVIOUS
  <2>1. n \in 1 .. Len(F) - 1
    BY <1>1
  <2>2. at[n] < at[Len(F)]
    BY <1>4, <2>1 DEF Fits, Marks
  <2> QED
    BY <1>2, <1>3, <1>5, <2>2
<1> QED
  BY <1>2, <1>3, <1>4, <1>6 DEF Fits, Marks

\* A first proxy returns and its frame is popped.
LEMMA FitsPop ==
  ASSUME NEW F \in Seq(Frame), NEW A \in Seq(Act), NEW at, Fits(F, A, at), A # <<>>, Last(A).first
  PROVE  \E new : Fits(Front(F), Front(A), new)
<1> DEFINE B == Front(A)
           G == Front(F)
           m == Len(A)
           q == Len(F)
<1>1. /\ m \in Nat \ {0} /\ DOMAIN A = 1 .. m /\ DOMAIN B = 1 .. m - 1
      /\ \A i \in 1 .. m - 1 : B[i] = A[i]
  BY FrontOf
<1>2. F # <<>> /\ at[q] = m
  BY TopMark
<1>3. /\ q \in Nat \ {0} /\ DOMAIN F = 1 .. q /\ DOMAIN G = 1 .. q - 1 /\ Len(G) = q - 1
      /\ \A n \in 1 .. q - 1 : G[n] = F[n]
  BY <1>2, FrontOf
<1> DEFINE new == [n \in 1 .. q - 1 |-> at[n]]
<1>4. \A n \in 1 .. q - 1 : new[n] = at[n]
  OBVIOUS
<1>5. /\ at \in [DOMAIN F -> {i \in DOMAIN A : A[i].first}]
      /\ \A n \in DOMAIN F : \A l \in 1 .. n - 1 : at[l] < at[n]
  BY DEF Fits, Marks
<1>6. \A n \in 1 .. q - 1 : n \in DOMAIN F /\ at[n] \in 1 .. m - 1 /\ A[at[n]].first
  <2> SUFFICES ASSUME NEW n \in 1 .. q - 1 PROVE n \in DOMAIN F /\ at[n] \in 1 .. m - 1 /\ A[at[n]].first
    OBVIOUS
  <2>1. n \in DOMAIN F /\ q \in DOMAIN F /\ n \in 1 .. q - 1
    BY <1>3
  <2>2. at[n] < at[q] /\ at[n] \in 1 .. m /\ A[at[n]].first
    BY <1>1, <1>5, <2>1
  <2> QED
    BY <1>1, <1>2, <2>1, <2>2
<1>7. new \in [1 .. q - 1 -> {i \in DOMAIN B : B[i].first}]
  BY <1>1, <1>6
<1> HIDE DEF B, G, m, q, new
<1>8. Marks(G, B, new)
  <2>1. ASSUME NEW i \in DOMAIN B, B[i].first
        PROVE  \E n \in DOMAIN G : new[n] = i
    <3>1. i \in DOMAIN A /\ A[i].first /\ i # m
      BY <1>1, <2>1
    <3>2. PICK n \in DOMAIN F : at[n] = i
      BY <3>1 DEF Fits, Marks
    <3> QED
      BY <1>2, <1>3, <1>4, <3>1, <3>2
  <2>2. ASSUME NEW n \in DOMAIN G
        PROVE  G[n].hub = B[new[n]].hub /\ G[n].ret = B[new[n]].ret
    <3>1. n \in 1 .. q - 1
      BY <1>3
    <3>2. F[n].hub = A[at[n]].hub /\ F[n].ret = A[at[n]].ret
      BY <1>6, <3>1 DEF Fits, Marks
    <3> QED
      BY <1>1, <1>3, <1>4, <1>6, <3>1, <3>2
  <2>3. ASSUME NEW n \in DOMAIN G, NEW l \in 1 .. n - 1
        PROVE  new[l] < new[n]
    <3>1. n \in 1 .. q - 1 /\ l \in 1 .. q - 1 /\ n \in DOMAIN F
      BY <1>3
    <3> QED
      BY <1>4, <1>5, <3>1
  <2> QED
    BY <1>3, <1>7, <2>1, <2>2, <2>3 DEF Marks
<1>9. ASSUME NEW n \in DOMAIN G, NEW i \in DOMAIN B, InFrame(G, B, new, n, i)
      PROVE  n \in DOMAIN F /\ i \in DOMAIN A /\ InFrame(F, A, at, n, i)
  <2>1. i \in 1 .. m - 1 /\ n \in 1 .. q - 1
    BY <1>1, <1>3
  <2>2. A[i].who \in Proxy /\ at[n] <= i /\ \A l \in n + 1 .. q - 1 : i < at[l]
    <3>1. B[i].who \in Proxy /\ new[n] <= i /\ \A l \in n + 1 .. q - 1 : i < new[l]
      BY <1>3, <1>9 DEF InFrame
    <3>2. \A l \in n + 1 .. q - 1 : l \in 1 .. q - 1
      BY <1>3, <2>1
    <3> QED
      BY <1>1, <1>4, <2>1, <3>1, <3>2
  <2>3. \A l \in n + 1 .. q : i < at[l]
    BY <1>1, <1>2, <1>3, <2>1, <2>2
  <2> QED
    BY <1>1, <1>3, <2>1, <2>2, <2>3 DEF InFrame, q
<1>10. \A i \in DOMAIN B : B[i] = A[i]
  BY <1>1
<1>11. \A n \in DOMAIN G : G[n] = F[n]
  BY <1>3
<1>12. InList(G, B, new)
  <2>1. ASSUME NEW n \in DOMAIN G, NEW i \in DOMAIN B, InFrame(G, B, new, n, i)
        PROVE  B[i].hub = G[n].hub /\ \E k \in DOMAIN G[n].all : G[n].all[k] = B[i].who
    <3>1. A[i].hub = F[n].hub /\ \E k \in DOMAIN F[n].all : F[n].all[k] = A[i].who
      BY <1>9, <2>1, Zenon DEF Fits, InList
    <3>2. B[i] = A[i] /\ G[n] = F[n]
      BY <1>10, <1>11
    <3> QED
      BY <3>1, <3>2, Zenon
  <2> QED
    BY <2>1, Zenon DEF InList
<1>13. InOrder(G, B, new)
  <2>1. ASSUME NEW n \in DOMAIN G, NEW i \in DOMAIN B, NEW j \in DOMAIN B,
               InFrame(G, B, new, n, i), InFrame(G, B, new, n, j), i < j
        PROVE  \A k, l \in DOMAIN G[n].all : G[n].all[k] = B[i].who /\ G[n].all[l] = B[j].who => k < l
    <3>1. \A k, l \in DOMAIN F[n].all : F[n].all[k] = A[i].who /\ F[n].all[l] = A[j].who => k < l
      BY <1>9, <2>1, Zenon DEF Fits, InOrder
    <3>2. B[i] = A[i] /\ B[j] = A[j] /\ G[n] = F[n]
      BY <1>10, <1>11
    <3> QED
      BY <3>1, <3>2, Zenon
  <2> QED
    BY <2>1, Zenon DEF InOrder
<1>14. ASSUME NEW n \in DOMAIN G, NEW i \in DOMAIN A, InFrame(F, A, at, n, i)
       PROVE  i \in DOMAIN B /\ InFrame(G, B, new, n, i)
  <2>1. n \in 1 .. q - 1 /\ q \in n + 1 .. q
    BY <1>3
  <2>2. A[i].who \in Proxy /\ at[n] <= i /\ \A l \in n + 1 .. q : i < at[l]
    BY <1>14 DEF InFrame, q
  <2>3. i \in 1 .. m - 1
    BY <1>1, <1>2, <2>1, <2>2
  <2>4. \A l \in n + 1 .. q - 1 : l \in n + 1 .. q /\ l \in 1 .. q - 1
    BY <1>3, <2>1
  <2>5. \A l \in n + 1 .. q - 1 : i < new[l]
    BY <1>4, <2>2, <2>4
  <2>6. i \in DOMAIN B /\ B[i].who \in Proxy /\ new[n] <= i /\ Len(G) = q - 1
    BY <1>1, <1>3, <1>4, <2>1, <2>2, <2>3
  <2> QED
    BY <2>5, <2>6 DEF InFrame
<1>15. ASSUME NEW n \in DOMAIN G, NEW p \in G[n].steady
       PROVE  RanIn(G, B, new, n, p) \/ \E k \in DOMAIN G[n].all : G[n].all[k] = p /\ Ahead(G, B, new, n, k)
  <2>1. n \in DOMAIN F /\ G[n] = F[n]
    BY <1>3
  <2>2. RanIn(F, A, at, n, p) \/ \E k \in DOMAIN F[n].all : F[n].all[k] = p /\ Ahead(F, A, at, n, k)
    BY <2>1 DEF Fits, Kept
  <2>3. CASE RanIn(F, A, at, n, p)
    <3>1. PICK i \in DOMAIN A : InFrame(F, A, at, n, i) /\ A[i].who = p
      BY <2>3 DEF RanIn
    <3> QED
      BY <1>10, <1>14, <3>1 DEF RanIn
  <2>4. ASSUME NEW k \in DOMAIN F[n].all, F[n].all[k] = p, Ahead(F, A, at, n, k)
        PROVE  Ahead(G, B, new, n, k)
    <3>1. ASSUME NEW i \in DOMAIN B, InFrame(G, B, new, n, i), NEW l \in DOMAIN G[n].all, G[n].all[l] = B[i].who
          PROVE  l < k
      <4>1. i \in DOMAIN A /\ InFrame(F, A, at, n, i) /\ B[i] = A[i]
        BY <1>9, <1>10, <3>1
      <4> QED
        BY <2>1, <2>4, <3>1, <4>1 DEF Ahead
    <3> QED
      BY <3>1, Zenon DEF Ahead
  <2> QED
    BY <2>1, <2>2, <2>3, <2>4
<1>16. Kept(G, B, new)
  BY <1>15, Zenon DEF Kept
<1> QED
  BY <1>8, <1>12, <1>13, <1>16 DEF Fits, B, G

\* A first proxy runs and its frame is pushed.
LEMMA FitsPush ==
  ASSUME NEW F \in Seq(Frame), NEW A \in Seq(Act), NEW at, Fits(F, A, at), NEW f \in Frame, NEW a \in Act,
         a.first, f.hub = a.hub, f.ret = a.ret,
         a.who \in Proxy, \E k \in DOMAIN f.all : f.all[k] = a.who,
         \A p \in f.steady \ {a.who} :
           \E k \in DOMAIN f.all : f.all[k] = p /\ \A l \in DOMAIN f.all : f.all[l] = a.who => l < k
  PROVE  \E new : Fits(Append(F, f), Append(A, a), new)
<1> DEFINE B == Append(A, a)
           G == Append(F, f)
           m == Len(A)
           q == Len(F)
<1>1. /\ m \in Nat /\ DOMAIN A = 1 .. m /\ DOMAIN B = 1 .. m + 1
      /\ \A i \in 1 .. m : B[i] = A[i]
      /\ B[m + 1] = a
  BY AppendIn
<1>2. /\ q \in Nat /\ DOMAIN F = 1 .. q /\ DOMAIN G = 1 .. q + 1 /\ Len(G) = q + 1
      /\ \A n \in 1 .. q : G[n] = F[n]
      /\ G[q + 1] = f
  BY AppendIn
<1> DEFINE new == [n \in 1 .. q + 1 |-> IF n = q + 1 THEN m + 1 ELSE at[n]]
<1>3. /\ at \in [DOMAIN F -> {i \in DOMAIN A : A[i].first}]
      /\ \A n \in DOMAIN F : \A l \in 1 .. n - 1 : at[l] < at[n]
  BY DEF Fits, Marks
<1>4. new[q + 1] = m + 1 /\ \A n \in 1 .. q : new[n] = at[n] /\ at[n] \in 1 .. m
  BY <1>1, <1>2, <1>3
<1> HIDE DEF B, G, m, q
<1>5. new \in [1 .. q + 1 -> {i \in DOMAIN B : B[i].first}]
  <2>1. ASSUME NEW n \in 1 .. q + 1
        PROVE  new[n] \in DOMAIN B /\ B[new[n]].first
    <3>1. CASE n = q + 1
      BY <1>1, <1>4, <3>1
    <3>2. CASE n \in 1 .. q
      BY <1>1, <1>2, <1>3, <1>4, <3>2
    <3> QED
      BY <1>2, <3>1, <3>2
  <2> QED
    BY <2>1
<1> HIDE DEF new
<1>6. Marks(G, B, new)
  <2>1. ASSUME NEW i \in DOMAIN B, B[i].first
        PROVE  \E n \in DOMAIN G : new[n] = i
    <3>1. CASE i = m + 1
      BY <1>2, <1>4, <3>1
    <3>2. CASE i \in 1 .. m
      <4>1. PICK n \in DOMAIN F : at[n] = i
        BY <1>1, <2>1, <3>2 DEF Fits, Marks
      <4> QED
        BY <1>2, <1>4, <4>1
    <3> QED
      BY <1>1, <3>1, <3>2
  <2>2. ASSUME NEW n \in DOMAIN G
        PROVE  G[n].hub = B[new[n]].hub /\ G[n].ret = B[new[n]].ret
    <3>1. CASE n = q + 1
      BY <1>1, <1>2, <1>4, <3>1
    <3>2. CASE n \in 1 .. q
      <4>1. F[n].hub = A[at[n]].hub /\ F[n].ret = A[at[n]].ret
        BY <1>2, <3>2 DEF Fits, Marks
      <4> QED
        BY <1>1, <1>2, <1>4, <3>2, <4>1
    <3> QED
      BY <1>2, <3>1, <3>2
  <2>3. ASSUME NEW n \in DOMAIN G, NEW l \in 1 .. n - 1
        PROVE  new[l] < new[n]
    <3>1. l \in 1 .. q /\ new[l] = at[l] /\ at[l] \in 1 .. m
      BY <1>2, <1>4
    <3>2. CASE n = q + 1
      BY <1>1, <1>4, <3>1, <3>2
    <3>3. CASE n \in 1 .. q
      BY <1>2, <1>3, <1>4, <3>1, <3>3
    <3> QED
      BY <1>2, <3>2, <3>3
  <2> QED
    BY <1>2, <1>5, <2>1, <2>2, <2>3 DEF Marks
\* The new frame's only activation is the new one, and it is in no other frame.
<1>7. ASSUME NEW n \in DOMAIN G, NEW i \in DOMAIN B, InFrame(G, B, new, n, i)
      PROVE  \/ n = q + 1 /\ i = m + 1
             \/ n \in DOMAIN F /\ i \in DOMAIN A /\ InFrame(F, A, at, n, i)
  <2>1. B[i].who \in Proxy /\ new[n] <= i /\ \A l \in n + 1 .. q + 1 : i < new[l]
    BY <1>2, <1>7 DEF InFrame
  <2>2. CASE n = q + 1
    BY <1>1, <1>4, <2>1, <2>2
  <2>3. CASE n \in 1 .. q
    <3>1. i < m + 1 /\ i \in 1 .. m
      <4>1. q + 1 \in n + 1 .. q + 1
        BY <1>2, <2>3
      <4> QED
        BY <1>1, <1>4, <2>1, <4>1
    <3>2. \A l \in n + 1 .. q : i < at[l]
      <4>1. \A l \in n + 1 .. q : l \in n + 1 .. q + 1 /\ l \in 1 .. q
        BY <1>2, <2>3
      <4> QED
        BY <1>4, <2>1, <4>1
    <3> QED
      BY <1>1, <1>2, <1>4, <2>1, <2>3, <3>1, <3>2 DEF InFrame, q
  <2> QED
    BY <1>2, <2>2, <2>3
<1>8. \A i \in DOMAIN A : B[i] = A[i]
  BY <1>1
<1>9. \A n \in DOMAIN F : G[n] = F[n]
  BY <1>2
<1>10. InList(G, B, new)
  <2>1. ASSUME NEW n \in DOMAIN G, NEW i \in DOMAIN B, InFrame(G, B, new, n, i)
        PROVE  B[i].hub = G[n].hub /\ \E k \in DOMAIN G[n].all : G[n].all[k] = B[i].who
    <3>1. CASE n = q + 1 /\ i = m + 1
      BY <1>1, <1>2, <3>1
    <3>2. CASE n \in DOMAIN F /\ i \in DOMAIN A /\ InFrame(F, A, at, n, i)
      <4>1. A[i].hub = F[n].hub /\ \E k \in DOMAIN F[n].all : F[n].all[k] = A[i].who
        BY <3>2, Zenon DEF Fits, InList
      <4>2. B[i] = A[i] /\ G[n] = F[n]
        BY <1>8, <1>9, <3>2
      <4> QED
        BY <4>1, <4>2, Zenon
    <3> QED
      BY <1>7, <2>1, <3>1, <3>2
  <2> QED
    BY <2>1, Zenon DEF InList
<1>11. InOrder(G, B, new)
  <2>1. ASSUME NEW n \in DOMAIN G, NEW i \in DOMAIN B, NEW j \in DOMAIN B,
               InFrame(G, B, new, n, i), InFrame(G, B, new, n, j), i < j
        PROVE  \A k, l \in DOMAIN G[n].all : G[n].all[k] = B[i].who /\ G[n].all[l] = B[j].who => k < l
    <3>1. /\ n \in DOMAIN F /\ i \in DOMAIN A /\ InFrame(F, A, at, n, i)
          /\ j \in DOMAIN A /\ InFrame(F, A, at, n, j)
      <4>1. ~(n = q + 1 /\ i = m + 1)
        BY <1>1, <2>1
      <4>2. n \in DOMAIN F /\ i \in DOMAIN A /\ InFrame(F, A, at, n, i)
        BY <1>7, <2>1, <4>1
      <4>3. n # q + 1
        BY <1>2, <4>2
      <4> QED
        BY <1>7, <2>1, <4>2, <4>3
    <3>2. \A k, l \in DOMAIN F[n].all : F[n].all[k] = A[i].who /\ F[n].all[l] = A[j].who => k < l
      BY <2>1, <3>1, Zenon DEF Fits, InOrder
    <3>3. B[i] = A[i] /\ B[j] = A[j] /\ G[n] = F[n]
      BY <1>8, <1>9, <3>1
    <3> QED
      BY <3>2, <3>3, Zenon
  <2> QED
    BY <2>1, Zenon DEF InOrder
<1>12. ASSUME NEW n \in DOMAIN F, NEW i \in DOMAIN A, InFrame(F, A, at, n, i)
       PROVE  i \in DOMAIN B /\ InFrame(G, B, new, n, i)
  <2>1. n \in 1 .. q /\ i \in 1 .. m
    BY <1>1, <1>2
  <2>2. A[i].who \in Proxy /\ at[n] <= i /\ \A l \in n + 1 .. q : i < at[l]
    BY <1>12 DEF InFrame, q
  <2>3. ASSUME NEW l \in n + 1 .. q + 1
        PROVE  i < new[l]
    <3>1. CASE l = q + 1
      BY <1>1, <1>4, <2>1, <3>1
    <3>2. CASE l \in n + 1 .. q
      <4>1. l \in 1 .. q
        BY <1>2, <2>1, <3>2
      <4> QED
        BY <1>4, <2>2, <3>2, <4>1
    <3> QED
      BY <1>2, <2>1, <3>1, <3>2
  <2> QED
    BY <1>1, <1>2, <1>4, <2>1, <2>2, <2>3 DEF InFrame
<1>13. ASSUME NEW p \in f.steady
       PROVE  \/ RanIn(G, B, new, q + 1, p)
              \/ \E k \in DOMAIN G[q + 1].all : G[q + 1].all[k] = p /\ Ahead(G, B, new, q + 1, k)
  <2>1. q + 1 \in DOMAIN G /\ G[q + 1] = f /\ m + 1 \in DOMAIN B /\ B[m + 1] = a
    BY <1>1, <1>2
  <2>2. CASE p = a.who
    <3>1. InFrame(G, B, new, q + 1, m + 1)
      BY <1>1, <1>2, <1>4, <2>1 DEF InFrame
    <3> QED
      BY <2>1, <2>2, <3>1 DEF RanIn
  <2>3. CASE p # a.who
    <3>1. PICK k \in DOMAIN f.all : f.all[k] = p /\ \A l \in DOMAIN f.all : f.all[l] = a.who => l < k
      BY <2>3
    <3>2. ASSUME NEW i \in DOMAIN B, InFrame(G, B, new, q + 1, i), NEW l \in DOMAIN f.all, f.all[l] = B[i].who
          PROVE  l < k
      <4>1. q + 1 \notin DOMAIN F
        BY <1>2
      <4>2. i = m + 1
        BY <1>7, <2>1, <3>2, <4>1
      <4> QED
        BY <2>1, <3>1, <3>2, <4>2
    <3>3. Ahead(G, B, new, q + 1, k)
      BY <2>1, <3>2 DEF Ahead
    <3> QED
      BY <2>1, <3>1, <3>3
  <2> QED
    BY <2>2, <2>3
<1>14. ASSUME NEW n \in DOMAIN F, NEW p \in F[n].steady
       PROVE  RanIn(G, B, new, n, p) \/ \E k \in DOMAIN G[n].all : G[n].all[k] = p /\ Ahead(G, B, new, n, k)
  <2>1. n \in DOMAIN G /\ G[n] = F[n] /\ n # q + 1
    BY <1>2
  <2>2. RanIn(F, A, at, n, p) \/ \E k \in DOMAIN F[n].all : F[n].all[k] = p /\ Ahead(F, A, at, n, k)
    BY DEF Fits, Kept
  <2>3. CASE RanIn(F, A, at, n, p)
    <3>1. PICK i \in DOMAIN A : InFrame(F, A, at, n, i) /\ A[i].who = p
      BY <2>3 DEF RanIn
    <3> QED
      BY <1>8, <1>12, <3>1 DEF RanIn
  <2>4. ASSUME NEW k \in DOMAIN F[n].all, F[n].all[k] = p, Ahead(F, A, at, n, k)
        PROVE  Ahead(G, B, new, n, k)
    <3>1. ASSUME NEW i \in DOMAIN B, InFrame(G, B, new, n, i), NEW l \in DOMAIN G[n].all, G[n].all[l] = B[i].who
          PROVE  l < k
      <4>1. i \in DOMAIN A /\ InFrame(F, A, at, n, i)
        BY <1>7, <2>1, <3>1
      <4>2. B[i] = A[i]
        BY <1>8, <4>1
      <4> QED
        BY <2>1, <2>4, <3>1, <4>1, <4>2 DEF Ahead
    <3> QED
      BY <3>1, Zenon DEF Ahead
  <2> QED
    BY <2>1, <2>2, <2>3, <2>4
<1>15. Kept(G, B, new)
  <2>1. ASSUME NEW n \in DOMAIN G, NEW p \in G[n].steady
        PROVE  RanIn(G, B, new, n, p) \/ \E k \in DOMAIN G[n].all : G[n].all[k] = p /\ Ahead(G, B, new, n, k)
    <3>1. CASE n = q + 1
      BY <1>2, <1>13, <3>1
    <3>2. CASE n \in DOMAIN F
      BY <1>9, <1>14, <3>2
    <3> QED
      BY <1>2, <3>1, <3>2
  <2> QED
    BY <2>1, Zenon DEF Kept
<1> QED
  BY <1>6, <1>10, <1>11, <1>15 DEF Fits, B, G

\* What a frame allows and remembers of the calls does not matter.
LEMMA FitsAlike ==
  ASSUME NEW F \in Seq(Frame), NEW G \in Seq(Frame), NEW A, NEW at, Fits(F, A, at), Len(G) = Len(F),
         \A n \in DOMAIN F : /\ G[n].hub = F[n].hub /\ G[n].ret = F[n].ret /\ G[n].all = F[n].all
                            /\ G[n].steady \subseteq F[n].steady
  PROVE  Fits(G, A, at)
<1>1. DOMAIN G = DOMAIN F
  BY LenProperties
<1>2. Marks(G, A, at)
  BY <1>1 DEF Fits, Marks
<1>3. \A n, i : InFrame(G, A, at, n, i) <=> InFrame(F, A, at, n, i)
  BY DEF InFrame
<1>4. InList(G, A, at)
  <2>1. ASSUME NEW n \in DOMAIN G, NEW i \in DOMAIN A, InFrame(G, A, at, n, i)
        PROVE  A[i].hub = G[n].hub /\ \E k \in DOMAIN G[n].all : G[n].all[k] = A[i].who
    <3>1. A[i].hub = F[n].hub /\ \E k \in DOMAIN F[n].all : F[n].all[k] = A[i].who
      BY <1>1, <1>3, <2>1, Zenon DEF Fits, InList
    <3>2. G[n].hub = F[n].hub /\ G[n].all = F[n].all
      BY <1>1
    <3> QED
      BY <3>1, <3>2, Zenon
  <2> QED
    BY <2>1, Zenon DEF InList
<1>5. InOrder(G, A, at)
  <2>1. ASSUME NEW n \in DOMAIN G, NEW i \in DOMAIN A, NEW j \in DOMAIN A,
               InFrame(G, A, at, n, i), InFrame(G, A, at, n, j), i < j
        PROVE  \A k, l \in DOMAIN G[n].all : G[n].all[k] = A[i].who /\ G[n].all[l] = A[j].who => k < l
    <3>1. \A k, l \in DOMAIN F[n].all : F[n].all[k] = A[i].who /\ F[n].all[l] = A[j].who => k < l
      BY <1>1, <1>3, <2>1, Zenon DEF Fits, InOrder
    <3>2. G[n].all = F[n].all
      BY <1>1
    <3> QED
      BY <3>1, <3>2, Zenon
  <2> QED
    BY <2>1, Zenon DEF InOrder
<1>6. Kept(G, A, at)
  <2>1. ASSUME NEW n \in DOMAIN G, NEW p \in G[n].steady
        PROVE  RanIn(G, A, at, n, p) \/ \E k \in DOMAIN G[n].all : G[n].all[k] = p /\ Ahead(G, A, at, n, k)
    <3>1. n \in DOMAIN F /\ p \in F[n].steady /\ G[n].all = F[n].all
      BY <1>1
    <3>2. RanIn(F, A, at, n, p) \/ \E k \in DOMAIN F[n].all : F[n].all[k] = p /\ Ahead(F, A, at, n, k)
      BY <3>1, Zenon DEF Fits, Kept
    <3>3. RanIn(F, A, at, n, p) => RanIn(G, A, at, n, p)
      BY <1>3, Zenon DEF RanIn
    <3>4. \A k : Ahead(F, A, at, n, k) => Ahead(G, A, at, n, k)
      BY <1>3, <3>1, Zenon DEF Ahead
    <3> QED
      BY <3>1, <3>2, <3>3, <3>4, Zenon
  <2> QED
    BY <2>1, Zenon DEF Kept
<1> QED
  BY <1>2, <1>4, <1>5, <1>6 DEF Fits

LEMMA CallersFront ==
  ASSUME NEW A \in Seq(Act), A # <<>>, Callers(A)
  PROVE  Callers(Front(A))
<1> DEFINE B == Front(A)
<1>1. /\ Len(A) \in Nat /\ DOMAIN A = 1 .. Len(A) /\ DOMAIN B = 1 .. Len(A) - 1
      /\ \A i \in 1 .. Len(A) - 1 : B[i] = A[i]
  BY FrontOf
<1> HIDE DEF B
<1>2. ASSUME NEW i \in DOMAIN B
      PROVE  i \in DOMAIN A /\ B[i] = A[i] /\ (i > 1 => B[i - 1] = A[i - 1])
  BY <1>1
<1> QED
  BY <1>2 DEF Callers, B

LEMMA CallersRun ==
  ASSUME NEW A \in Seq(Act), Callers(A), NEW a \in Act,
         a.who \in Proxy => HubOf[a.who] = a.hub,
         a.first => a.who \in Proxy,
         A # <<>> => Follows(Last(A), a),
         A = <<>> => a.ret[2] # PREV /\ (a.who \in Proxy => a.first)
  PROVE  Callers(Append(A, a))
<1> DEFINE B == Append(A, a)
           m == Len(A)
<1>1. /\ m \in Nat /\ DOMAIN A = 1 .. m /\ DOMAIN B = 1 .. m + 1
      /\ \A i \in 1 .. m : B[i] = A[i]
      /\ B[m + 1] = a
  BY AppendIn
<1>2. (m = 0 <=> A = <<>>) /\ (A # <<>> => Last(A) = A[m])
  BY EmptySeq, FrontOf
<1> HIDE DEF B, m
<1>3. ASSUME NEW i \in 1 .. m
      PROVE  i \in DOMAIN A /\ B[i] = A[i] /\ (i > 1 => B[i - 1] = A[i - 1])
  BY <1>1
<1>4. m > 0 => B[m] = A[m]
  BY <1>1
<1>5. ASSUME NEW i \in DOMAIN B
      PROVE  /\ B[i].who \in Proxy => HubOf[B[i].who] = B[i].hub
             /\ B[i].first => B[i].who \in Proxy
             /\ i > 1 => Follows(B[i - 1], B[i])
             /\ i = 1 => B[i].ret[2] # PREV /\ (B[i].who \in Proxy => B[i].first)
  <2>1. CASE i \in 1 .. m
    BY <1>3, <2>1 DEF Callers
  <2>2. CASE i = m + 1
    <3>1. B[i] = a
      BY <1>1, <2>2
    <3>2. i > 1 => Follows(B[i - 1], B[i])
      <4> SUFFICES ASSUME i > 1 PROVE Follows(B[i - 1], B[i])
        OBVIOUS
      <4>1. m > 0 /\ A # <<>> /\ i - 1 = m /\ B[m] = Last(A)
        BY <1>1, <1>2, <1>4, <2>2
      <4> QED
        BY <3>1, <4>1
    <3>3. i = 1 => A = <<>>
      BY <1>1, <1>2, <2>2
    <3> QED
      BY <3>1, <3>2, <3>3
  <2> QED
    BY <1>1, <2>1, <2>2
<1> QED
  BY <1>5 DEF Callers, B

\* A proxy on top runs in the newest frame.
LEMMA TopInFrame ==
  ASSUME NEW F \in Seq(Frame), NEW A \in Seq(Act), NEW at, Fits(F, A, at),
         F # <<>>, A # <<>>, Last(A).who \in Proxy
  PROVE  /\ InFrame(F, A, at, Len(F), Len(A)) /\ Len(F) \in DOMAIN F /\ Len(A) \in DOMAIN A
         /\ Last(A).hub = Last(F).hub
         /\ \E k \in DOMAIN Last(F).all : Last(F).all[k] = Last(A).who
<1>1. Len(F) \in DOMAIN F /\ Last(F) = F[Len(F)] /\ Len(F) \in Nat
  BY LastIn, LenProperties
<1>2. Len(A) \in DOMAIN A /\ Last(A) = A[Len(A)] /\ Len(A) \in Nat /\ DOMAIN A = 1 .. Len(A)
  BY LastIn, LenProperties
<1>3. at[Len(F)] \in 1 .. Len(A)
  BY <1>1, <1>2 DEF Fits, Marks
<1>4. InFrame(F, A, at, Len(F), Len(A))
  BY <1>1, <1>2, <1>3 DEF InFrame
<1> QED
  BY <1>1, <1>2, <1>4, Zenon DEF Fits, InList

\* A proxy that was called by SHADOWHOOK_CALL_PREV finds another return address in the newest frame.
LEMMA NoStranger ==
  ASSUME JumpsEnd, NEW F \in Seq(Frame), NEW A \in Seq(Act), NEW at, Fits(F, A, at), Callers(A),
         F # <<>>, A # <<>>, Last(A).who \in Proxy, ~Last(A).first
  PROVE  Last(F).ret # Last(A).ret
<1> SUFFICES ASSUME Last(F).ret = Last(A).ret PROVE FALSE
  OBVIOUS
<1> DEFINE m == Len(A)
           k == at[Len(F)]
           c == A[m]
           b == A[m - 1]
<1>1. /\ Len(F) \in DOMAIN F /\ m \in DOMAIN A /\ c = Last(A)
      /\ Last(A).hub = Last(F).hub /\ Last(F) = F[Len(F)]
      /\ m \in Nat /\ DOMAIN A = 1 .. m
  BY TopInFrame, FrontOf
<1>2. k \in DOMAIN A /\ A[k].first /\ A[k].hub = c.hub /\ A[k].ret = c.ret
  BY <1>1 DEF Fits, Marks
<1> HIDE DEF m, k
<1>3. m > 1 /\ m - 1 \in DOMAIN A /\ Follows(b, c)
  BY <1>1 DEF Callers
<1>4. c.ret[2] = PREV /\ b.hub = c.hub /\ b.who \in Proxy /\ c.ret[1] = b.who
  BY <1>1, <1>3 DEF Follows
<1>5. HubOf[b.who] = b.hub
  BY <1>3, <1>4 DEF Callers
<1> DEFINE d == A[k - 1]
<1>6. k > 1 /\ k - 1 \in DOMAIN A /\ Follows(d, A[k])
  BY <1>1, <1>2, <1>4 DEF Callers
<1>7. d.who = b.who /\ d.who \in Proxy /\ <<d.hub, A[k].hub>> \in Reach
  BY <1>2, <1>4, <1>6 DEF Follows
<1>8. HubOf[d.who] = d.hub
  BY <1>6, <1>7 DEF Callers
<1>9. A[k].hub \in Hub /\ d.hub = A[k].hub
  <2>1. A[k] \in Act
    BY <1>2, ElementOfSeq, LenProperties
  <2> QED
    BY <2>1, <1>2, <1>4, <1>5, <1>7, <1>8 DEF Act
<1> QED
  BY <1>7, <1>9, ReachOrders DEF OrdersHubs

LEMMA EndsHead ==
  ASSUME NEW S, NEW r \in Seq(S), NEW s \in Seq(S), Ends(r, s), r # <<>>
  PROVE  /\ \E k \in DOMAIN s : s[k] = Head(r) /\ k = Len(s) - Len(r) + 1
         /\ Ends(Tail(r), s) /\ Len(Tail(r)) = Len(r) - 1
<1>1. /\ Len(r) \in Nat \ {0} /\ Len(s) \in Nat /\ DOMAIN s = 1 .. Len(s)
      /\ Head(r) = r[1] /\ Len(Tail(r)) = Len(r) - 1
      /\ \A i \in 1 .. Len(r) - 1 : Tail(r)[i] = r[i + 1]
  <2>1. Len(r) \in Nat \ {0} /\ Len(s) \in Nat /\ DOMAIN s = 1 .. Len(s)
    BY EmptySeq, LenProperties
  <2>2. Head(r) = r[1]
    OBVIOUS
  <2>3. Len(Tail(r)) = Len(r) - 1 /\ \A i \in 1 .. Len(Tail(r)) : Tail(r)[i] = r[i + 1]
    BY HeadTailProperties
  <2> QED
    BY <2>1, <2>2, <2>3
<1>2. Len(r) <= Len(s) /\ \A i \in 1 .. Len(r) : r[i] = s[Len(s) - Len(r) + i]
  BY DEF Ends
<1> DEFINE m == Len(r)
           n == Len(s)
<1> HIDE DEF m, n
<1>3. m \in Nat \ {0} /\ n \in Nat /\ m <= n
  BY <1>1, <1>2 DEF m, n
<1>4. n - m + 1 \in 1 .. n /\ 1 \in 1 .. m
  BY <1>3
<1>5. s[n - m + 1] = Head(r) /\ n - m + 1 \in DOMAIN s
  BY <1>1, <1>2, <1>4 DEF m, n
<1>6. ASSUME NEW i \in 1 .. m - 1
      PROVE  Tail(r)[i] = s[n - (m - 1) + i]
  <2>1. i + 1 \in 1 .. m /\ n - m + (i + 1) = n - (m - 1) + i
    BY <1>3
  <2> QED
    BY <1>1, <1>2, <2>1 DEF m, n
<1>7. Ends(Tail(r), s)
  <2>1. m - 1 <= n
    BY <1>3
  <2> QED
    BY <1>1, <1>6, <2>1 DEF Ends, m, n
<1> QED
  BY <1>1, <1>5, <1>7 DEF m, n

LEMMA EndsWhole ==
  ASSUME NEW S, NEW s \in Seq(S)
  PROVE  Ends(s, s)
<1>1. Len(s) \in Nat
  BY LenProperties
<1>2. \A i \in 1 .. Len(s) : Len(s) - Len(s) + i = i
  BY <1>1
<1> QED
  BY <1>1, <1>2 DEF Ends

\* What comes after an item is an end of the list, and the item is before it.
LEMMA EndsAfter ==
  ASSUME NEW S, NEW s \in Seq(S), Distinct(s), NEW f, \E k \in DOMAIN s : s[k] = f
  PROVE  /\ Ends(After(s, f), s)
         /\ \A k \in DOMAIN s : s[k] = f => k + Len(After(s, f)) = Len(s)
         /\ Len(After(s, f)) \in Nat
<1>1. PICK k \in DOMAIN s : s[k] = f
  OBVIOUS
<1>2. Len(s) \in Nat /\ DOMAIN s = 1 .. Len(s) /\ k \in 1 .. Len(s)
  BY <1>1, LenProperties
<1> DEFINE i == CHOOSE j \in DOMAIN s : s[j] = f /\ \A l \in 1 .. j - 1 : s[l] # f
<1>3. \A l \in 1 .. k - 1 : s[l] # f
  BY <1>1, <1>2 DEF Distinct
<1>4. i \in DOMAIN s /\ s[i] = f
  BY <1>1, <1>3
<1>5. i = k
  BY <1>1, <1>4 DEF Distinct
<1>6. After(s, f) = SubSeq(s, k + 1, Len(s))
  <2>1. Contains(s, f)
    BY <1>1 DEF Contains
  <2>2. After(s, f) = SubSeq(s, i + 1, Len(s))
    BY <2>1 DEF After
  <2> QED
    BY <1>5, <2>2
<1> HIDE DEF i
<1>7. /\ Len(SubSeq(s, k + 1, Len(s))) = Len(s) - k
      /\ \A j \in 1 .. Len(s) - k : SubSeq(s, k + 1, Len(s))[j] = s[k + j]
  <2>1. \A j \in k + 1 .. Len(s) : s[j] \in S
    BY <1>2, ElementOfSeq
  <2>2. k + 1 \in Int /\ Len(s) \in Int
    BY <1>2
  <2>3. /\ Len(SubSeq(s, k + 1, Len(s))) = IF k + 1 <= Len(s) THEN Len(s) - (k + 1) + 1 ELSE 0
        /\ \A j \in 1 .. Len(s) - (k + 1) + 1 : SubSeq(s, k + 1, Len(s))[j] = s[(k + 1) + j - 1]
    BY <2>1, <2>2, SubSeqProperties
  <2>4. Len(s) - (k + 1) + 1 = Len(s) - k /\ \A j \in Int : (k + 1) + j - 1 = k + j
    BY <1>2
  <2>5. (IF k + 1 <= Len(s) THEN Len(s) - (k + 1) + 1 ELSE 0) = Len(s) - k
    BY <1>2
  <2>6. ASSUME NEW j \in 1 .. Len(s) - k
        PROVE  SubSeq(s, k + 1, Len(s))[j] = s[k + j]
    <3>1. j \in Int /\ j \in 1 .. Len(s) - (k + 1) + 1
      BY <1>2, <2>4
    <3>2. (k + 1) + j - 1 = k + j
      BY <2>4, <3>1
    <3> QED
      BY <2>3, <3>1, <3>2
  <2> QED
    BY <2>3, <2>5, <2>6
<1>8. Ends(After(s, f), s)
  <2> DEFINE e == After(s, f)
  <2>1. Len(e) = Len(s) - k /\ Len(s) - k <= Len(s)
    BY <1>2, <1>6, <1>7
  <2>2. ASSUME NEW j \in 1 .. Len(e)
        PROVE  e[j] = s[Len(s) - Len(e) + j]
    <3>1. j \in 1 .. Len(s) - k /\ Len(s) - Len(e) + j = k + j
      BY <1>2, <2>1
    <3>2. e[j] = s[k + j]
      BY <1>6, <1>7, <3>1
    <3> QED
      BY <3>1, <3>2
  <2>3. Len(e) <= Len(s)
    BY <2>1
  <2> HIDE DEF e
  <2>4. Ends(e, s)
    BY <2>2, <2>3 DEF Ends
  <2> QED
    BY <2>4 DEF e
<1>9. \A l \in DOMAIN s : s[l] = f => l = k
  BY <1>1 DEF Distinct
<1>10. k + (Len(s) - k) = Len(s) /\ Len(s) - k \in Nat
  BY <1>2
<1> QED
  BY <1>6, <1>7, <1>8, <1>9, <1>10

-----------------------------------------------------------------------------
(* The steps keep it.                                                      *)

LEMMA StackOf ==
  ASSUME StackInv, NEW t \in Thread
  PROVE  /\ HubInv /\ frames[t] \in Seq(Frame) /\ acts[t] \in Seq(Act) /\ walk[t] \in Walk
         /\ walk = [walk EXCEPT ![t] = walk[t]] /\ acts = [acts EXCEPT ![t] = acts[t]]
         /\ frames = [frames EXCEPT ![t] = frames[t]]
         /\ \E at : Fits(frames[t], acts[t], at)
         /\ Callers(acts[t])
         /\ \A n \in DOMAIN frames[t] : Items(frames[t][n].hub, frames[t][n].all)
         /\ WalkFits(frames[t], acts[t], walk[t])
         /\ Steady(frames[t], walk[t], enabled, list)
<1>1. HubInv /\ Stack(frames[t], acts[t], walk[t]) /\ Steady(frames[t], walk[t], enabled, list)
  BY DEF StackInv
<1>2. frames = [frames EXCEPT ![t] = frames[t]]
  BY <1>1 DEF HubInv, HubTypeOK
<1> QED
  BY <1>1, <1>2, Typed, Zenon DEF Stack

LEMMA StackStep ==
  ASSUME StackInv, HubInv', UNCHANGED <<list, enabled>>, NEW t \in Thread,
         NEW fr, frames' = [frames EXCEPT ![t] = fr],
         NEW ac, acts' = [acts EXCEPT ![t] = ac],
         NEW w, walk' = [walk EXCEPT ![t] = w],
         Stack(fr, ac, w), Steady(fr, w, enabled, list)
  PROVE  StackInv'
<1>1. ASSUME NEW u \in Thread
      PROVE  Stack(frames'[u], acts'[u], walk'[u]) /\ Steady(frames'[u], walk'[u], enabled, list)
  <2>1. frames = [v \in Thread |-> frames[v]] /\ acts = [v \in Thread |-> acts[v]] /\ walk = [v \in Thread |-> walk[v]]
    BY DEF StackInv, HubInv, HubTypeOK
  <2>2. CASE u = t
    <3>1. frames'[u] = fr /\ acts'[u] = ac /\ walk'[u] = w
      BY <2>1, <2>2
    <3> QED
      BY <3>1
  <2>3. CASE u # t
    <3>1. frames'[u] = frames[u] /\ acts'[u] = acts[u] /\ walk'[u] = walk[u]
      BY <2>1, <2>3
    <3> QED
      BY <3>1 DEF StackInv
  <2> QED
    BY <2>2, <2>3
<1> QED
  BY <1>1 DEF StackInv

LEMMA EnterStack ==
  ASSUME StackInv, HubInv', NEW t \in Thread, NEW h \in Hub, NEW r \in Site, NEW under \in Seq(Act),
         Enter(t, h, r, under), walk[t].mode = "none",
         \E at : Fits(frames[t], under, at), Callers(under), From(under, h, r)
  PROVE  StackInv'
<1>1. CASE /\ acts' = [acts EXCEPT ![t] = Append(under, Call(h, ORIG, r, FALSE))]
           /\ UNCHANGED walk
  <2> DEFINE c == Call(h, ORIG, r, FALSE)
  <2>1. c \in Act /\ ~c.first /\ c.who = ORIG /\ c.ret = r /\ c.hub = h /\ ORIG \notin Proxy
    BY HubAssumption DEF Call, Act
  <2> HIDE DEF c
  <2>2. \E at : Fits(frames[t], Append(under, c), at)
    BY <2>1, FitsRun, StackOf
  <2>3. Callers(Append(under, c))
    <3>1. under # <<>> => Follows(Last(under), c)
      BY <2>1 DEF From, Follows
    <3>2. under = <<>> => c.ret[2] # PREV
      BY <2>1 DEF From
    <3> QED
      BY <2>1, <3>1, <3>2, CallersRun
  <2>4. Stack(frames[t], Append(under, c), walk[t])
    <3>1. WalkFits(frames[t], Append(under, c), walk[t])
      BY DEF WalkFits
    <3> QED
      BY <2>2, <2>3, <3>1, StackOf, Zenon DEF Stack
  <2>5. /\ walk' = [walk EXCEPT ![t] = walk[t]] /\ frames' = [frames EXCEPT ![t] = frames[t]]
        /\ UNCHANGED <<list, enabled>>
    BY <1>1, StackOf DEF Enter
  <2>6. Steady(frames[t], walk[t], enabled, list)
    BY StackOf
  <2> QED
    BY <1>1, <2>4, <2>5, <2>6, StackStep DEF c
<1>2. CASE /\ acts' = [acts EXCEPT ![t] = under]
           /\ walk' = [walk EXCEPT ![t] = [mode |-> "head", hub |-> h, orig |-> orig[h],
                                           ret |-> r, steady |-> ProxiesOf(h)]]
  <2> DEFINE w == [mode |-> "head", hub |-> h, orig |-> orig[h], ret |-> r, steady |-> ProxiesOf(h)]
  <2>1. /\ w.mode = "head" /\ w.hub = h /\ w.ret = r /\ w.steady = ProxiesOf(h)
        /\ walk' = [walk EXCEPT ![t] = w]
    BY <1>2
  <2> HIDE DEF w
  <2>2. Stack(frames[t], under, w)
    <3>1. WalkFits(frames[t], under, w)
      BY <2>1 DEF WalkFits
    <3> QED
      BY <3>1, StackOf, Zenon DEF Stack
  <2>3. frames' = [frames EXCEPT ![t] = frames[t]] /\ UNCHANGED <<list, enabled>>
    BY StackOf DEF Enter
  <2>4. Steady(frames[t], w, enabled, list)
    <3>1. \A n \in DOMAIN frames[t] : frames[t][n].steady \subseteq enabled
      BY StackOf DEF Steady
    <3>2. \A p \in ProxiesOf(h) : p \in enabled /\ \E j \in DOMAIN list[h] : list[h][j] = p
      BY DEF ProxiesOf, StackInv
    <3> QED
      BY <2>1, <3>1, <3>2 DEF Steady
  <2> QED
    BY <1>2, <2>1, <2>2, <2>3, <2>4, StackStep
<1> QED
  BY <1>1, <1>2 DEF Enter

LEMMA CallStack ==
  ASSUME JumpsEnd, StackInv, HubInv', NEW t \in Thread, NEW h \in Hub,
         CallFromApp(t, h) \/ CallFromProxy(t, h) \/ CallFromOriginal(t, h) \/ TailJump(t, h)
  PROVE  StackInv'
<1>1. h # PREV
  BY HubAssumption
<1>2. \A x : From(acts[t], h, <<x, h>>)
  BY <1>1 DEF From
<1>3. CASE CallFromApp(t, h)
  <2>1. <<APP, h>> \in Site /\ <<>> \in Seq(Act) /\ acts[t] = <<>> /\ walk[t].mode = "none"
    BY <1>3, EmptySeq DEF Site, CallFromApp
  <2>2. Enter(t, h, <<APP, h>>, <<>>)
    BY <1>3 DEF CallFromApp
  <2> QED
    BY <1>2, <2>1, <2>2, EnterStack, StackOf
<1>4. CASE CallFromProxy(t, h)
  <2>1. <<Top(t).who, h>> \in Site /\ walk[t].mode = "none"
    BY <1>4 DEF CallFromProxy, Site, Runs
  <2>2. Enter(t, h, <<Top(t).who, h>>, acts[t])
    BY <1>4 DEF CallFromProxy
  <2> QED
    BY <1>2, <2>1, <2>2, EnterStack, StackOf
<1>5. CASE CallFromOriginal(t, h)
  <2>1. <<Top(t).hub, h>> \in Site /\ walk[t].mode = "none"
    BY <1>5, StackOf, TopIn DEF CallFromOriginal, Site, Runs, Act
  <2>2. Enter(t, h, <<Top(t).hub, h>>, acts[t])
    BY <1>5 DEF CallFromOriginal
  <2> QED
    BY <1>2, <2>1, <2>2, EnterStack, StackOf
<1>6. CASE TailJump(t, h)
  <2> DEFINE A == acts[t]
             m == Len(A)
             c == A[m]
             under == Front(A)
  <2>1. /\ A # <<>> /\ walk[t].mode = "none" /\ Enter(t, h, Top(t).ret, under)
        /\ Top(t).who = ORIG /\ <<Top(t).hub, h>> \in Jumps
    BY <1>6 DEF TailJump, Runs
  <2>2. A \in Seq(Act) /\ Callers(A) /\ \E at : Fits(frames[t], A, at)
    BY StackOf
  <2>3. /\ under \in Seq(Act) /\ m \in Nat \ {0} /\ Len(under) = m - 1 /\ DOMAIN A = 1 .. m
        /\ \A i \in 1 .. m - 1 : under[i] = A[i]
        /\ Top(t) = c /\ c \in Act
    BY <2>1, <2>2, FrontOf DEF Top
  <2>4. ~Last(A).first
    BY <2>1, <2>2, <2>3, HubAssumption DEF Callers, Top
  <2>5. \E at : Fits(frames[t], under, at)
    BY <2>1, <2>2, <2>4, FitsReturn, StackOf
  <2>6. Callers(under)
    BY <2>1, <2>2, CallersFront
  <2>7. From(under, h, c.ret)
    <3> SUFFICES ASSUME c.ret[2] = PREV
                 PROVE  under # <<>> /\ Last(under).who \in Proxy /\ c.ret[1] = Last(under).who
                        /\ <<Last(under).hub, h>> \in Reach
      BY DEF From
    <3> HIDE DEF under, m, A
    <3>1. m > 1 /\ Follows(A[m - 1], c)
      BY <2>2, <2>3 DEF Callers
    <3>2. m - 1 \in 1 .. m - 1 /\ under # <<>>
      BY <2>3, <3>1, EmptySeq
    <3>3. Last(under) = A[m - 1]
      BY <2>3, <3>2, LastIn
    <3>4. A[m - 1] \in Act
      BY <2>2, <2>3, <3>1, ElementOfSeq DEF m
    <3>5. /\ A[m - 1].hub \in Hub /\ c.hub \in Hub /\ A[m - 1].who \in Proxy /\ c.ret[1] = A[m - 1].who
          /\ <<A[m - 1].hub, c.hub>> \in Reach \/ A[m - 1].hub = c.hub
      BY <2>3, <3>1, <3>4 DEF Act, Follows
    <3>6. <<c.hub, h>> \in Reach
      BY <2>1, <2>3, ReachOrders DEF OrdersHubs
    <3>7. <<A[m - 1].hub, h>> \in Reach
      BY <3>5, <3>6, ReachOrders DEF OrdersHubs
    <3> QED
      BY <3>2, <3>3, <3>5, <3>7
  <2>8. Top(t).ret \in Site
    BY <2>3 DEF Act
  <2> HIDE DEF under, c
  <2> QED
    BY <2>1, <2>3, <2>5, <2>6, <2>7, <2>8, EnterStack
<1> QED
  BY <1>3, <1>4, <1>5, <1>6

LEMMA ReadHeadStack ==
  ASSUME StackInv, HubInv', NEW t \in Thread, ReadHead(t)
  PROVE  StackInv'
<1> DEFINE v == walk[t]
           w == [mode |-> "push", hub |-> v.hub, orig |-> v.orig, ret |-> v.ret,
                 steady |-> v.steady, all |-> list[v.hub], rest |-> list[v.hub]]
<1>1. v \in HeadWalk /\ v.hub \in Hub
  BY StackOf, Kinds DEF ReadHead, HeadWalk
<1>2. Items(v.hub, list[v.hub]) /\ Ends(list[v.hub], list[v.hub])
  <2>1. list[v.hub] \in Seq(Proxy) /\ ToSet(list[v.hub]) \subseteq {p \in Proxy : HubOf[p] = v.hub}
    BY <1>1 DEF StackInv, HubInv, HubTypeOK
  <2>2. Distinct(list[v.hub])
    BY <1>1 DEF StackInv
  <2> QED
    BY <2>1, <2>2, EndsWhole DEF Items, ToSet
<1>3. WalkFits(frames[t], acts[t], w)
  <2>1. From(acts[t], v.hub, v.ret)
    BY StackOf DEF WalkFits, ReadHead
  <2>2. \A p \in v.steady : \E j \in DOMAIN list[v.hub] : list[v.hub][j] = p
    BY StackOf DEF Steady, ReadHead
  <2> QED
    BY <1>2, <2>1, <2>2 DEF WalkFits
<1>4. /\ walk' = [walk EXCEPT ![t] = w] /\ acts' = [acts EXCEPT ![t] = acts[t]]
      /\ frames' = [frames EXCEPT ![t] = frames[t]] /\ UNCHANGED <<list, enabled>>
  BY StackOf DEF ReadHead
<1>5. Steady(frames[t], w, enabled, list)
  BY StackOf DEF Steady, ReadHead
<1> HIDE DEF w
<1>6. Stack(frames[t], acts[t], w)
  BY <1>3, StackOf, Zenon DEF Stack
<1> QED
  BY <1>4, <1>5, <1>6, StackStep

LEMMA PassOverStack ==
  ASSUME StackInv, HubInv', NEW t \in Thread, PassOver(t)
  PROVE  StackInv'
<1> DEFINE w == [walk[t] EXCEPT !.rest = Tail(@)]
<1>1. walk[t].mode \in {"push", "prev"} /\ walk[t].rest # <<>> /\ Head(walk[t].rest) \notin enabled
  BY DEF PassOver
<1>2. WalkFits(frames[t], acts[t], walk[t])
  BY StackOf
<1>3. WalkFits(frames[t], acts[t], w)
  <2>1. CASE walk[t].mode = "push"
    <3>1. walk[t] \in PushWalk
      BY <2>1, StackOf, Kinds
    <3>2. /\ w.mode = "push" /\ w.hub = walk[t].hub /\ w.ret = walk[t].ret /\ w.all = walk[t].all
          /\ w.rest = Tail(walk[t].rest) /\ walk[t].all \in Seq(Proxy) /\ walk[t].rest \in Seq(Proxy)
      BY <3>1 DEF PushWalk
    <3>3. Ends(Tail(walk[t].rest), walk[t].all)
      BY <1>1, <1>2, <2>1, <3>2, EndsHead DEF WalkFits
    <3>4. w.steady = walk[t].steady /\ w.steady \subseteq enabled
      BY <2>1, <3>1, StackOf DEF Steady, PushWalk
    <3> DEFINE r == walk[t].rest
    <3>5. /\ Len(r) \in Nat /\ DOMAIN r = 1 .. Len(r) /\ r[1] = Head(r)
          /\ DOMAIN Tail(r) = 1 .. Len(r) - 1 /\ \A j \in 1 .. Len(r) - 1 : Tail(r)[j] = r[j + 1]
      BY <1>1, <3>2, HeadTailProperties, LenProperties
    <3>6. ASSUME NEW p \in walk[t].steady
          PROVE  \E j \in DOMAIN Tail(r) : Tail(r)[j] = p
      <4>1. PICK j \in DOMAIN r : r[j] = p
        BY <1>2, <2>1 DEF WalkFits
      <4>2. j # 1
        BY <1>1, <3>4, <3>5, <4>1
      <4>3. j - 1 \in 1 .. Len(r) - 1 /\ (j - 1) + 1 = j
        BY <3>5, <4>1, <4>2
      <4>4. Tail(r)[j - 1] = p
        BY <3>5, <4>1, <4>3
      <4> QED
        BY <3>5, <4>3, <4>4
    <3> HIDE DEF w
    <3> QED
      BY <1>2, <2>1, <3>2, <3>3, <3>4, <3>6 DEF WalkFits
  <2>2. CASE walk[t].mode = "prev"
    <3>1. walk[t] \in PrevWalk /\ frames[t] # <<>>
      BY <2>2, StackOf, Kinds DEF HubInv, InProxy
    <3>2. w.mode = "prev" /\ w.rest = Tail(walk[t].rest) /\ walk[t].rest \in Seq(Proxy)
      BY <3>1 DEF PrevWalk
    <3>3. Last(frames[t]).all \in Seq(Proxy)
      <4>1. Last(frames[t]) \in Frame
        BY <3>1, StackOf, LastIn
      <4> QED
        BY <4>1 DEF Frame
    <3> DEFINE s == Last(frames[t]).all
               on == Last(frames[t]).steady
    <3>4. /\ Ends(walk[t].rest, s)
          /\ \A k \in DOMAIN s : s[k] = Last(acts[t]).who => k + Len(walk[t].rest) <= Len(s)
          /\ \A k \in DOMAIN s : s[k] \in on =>
               k + Len(walk[t].rest) > Len(s) \/ \E l \in DOMAIN s : s[l] = Last(acts[t]).who /\ k <= l
      BY <1>2, <2>2 DEF WalkFits
    <3>5. on \subseteq enabled
      <4>1. Last(frames[t]) = frames[t][Len(frames[t])] /\ Len(frames[t]) \in DOMAIN frames[t]
        BY <3>1, StackOf, LastIn
      <4> QED
        BY <4>1, StackOf DEF Steady
    <3> HIDE DEF w, s, on
    <3>6. /\ Ends(Tail(walk[t].rest), s) /\ Len(Tail(walk[t].rest)) = Len(walk[t].rest) - 1
          /\ Len(walk[t].rest) \in Nat /\ Len(s) \in Nat /\ DOMAIN s = 1 .. Len(s)
          /\ s[Len(s) - Len(walk[t].rest) + 1] = Head(walk[t].rest)
      <4> DEFINE r == walk[t].rest
      <4>1. r \in Seq(Proxy) /\ s \in Seq(Proxy) /\ r # <<>> /\ Ends(r, s)
        BY <1>1, <3>2, <3>3, <3>4 DEF s
      <4> HIDE DEF r
      <4>2. /\ \E k \in DOMAIN s : s[k] = Head(r) /\ k = Len(s) - Len(r) + 1
            /\ Ends(Tail(r), s) /\ Len(Tail(r)) = Len(r) - 1
        BY <4>1, EndsHead
      <4>3. Len(r) \in Nat /\ Len(s) \in Nat /\ DOMAIN s = 1 .. Len(s)
        BY <4>1, LenProperties
      <4> QED
        BY <4>2, <4>3 DEF r
    <3>7. \A k \in DOMAIN s : s[k] = Last(acts[t]).who => k + Len(Tail(walk[t].rest)) <= Len(s)
      BY <3>4, <3>6
    <3>8. ASSUME NEW k \in DOMAIN s, s[k] \in on, ~(k + Len(Tail(walk[t].rest)) > Len(s))
          PROVE  \E l \in DOMAIN s : s[l] = Last(acts[t]).who /\ k <= l
      <4>1. k # Len(s) - Len(walk[t].rest) + 1
        <5>1. s[k] \in enabled
          BY <3>5, <3>8
        <5>2. s[k] # Head(walk[t].rest)
          BY <1>1, <5>1
        <5> QED
          BY <3>6, <5>2
      <4>2. ~(k + Len(walk[t].rest) > Len(s))
        <5>1. k \in Nat /\ Len(walk[t].rest) \in Nat /\ Len(s) \in Nat
          BY <3>6
        <5>2. ~(k + (Len(walk[t].rest) - 1) > Len(s))
          BY <3>6, <3>8
        <5>3. \A a, b, c \in Nat : c # b - a + 1 /\ ~(c + (a - 1) > b) => ~(c + a > b)
          OBVIOUS
        <5> QED
          BY <4>1, <5>1, <5>2, <5>3
      <4> QED
        BY <3>4, <3>8, <4>2
    <3> QED
      BY <3>2, <3>6, <3>7, <3>8 DEF WalkFits, s, on
  <2> QED
    BY <1>1, <2>1, <2>2
<1>4. /\ walk' = [walk EXCEPT ![t] = w] /\ acts' = [acts EXCEPT ![t] = acts[t]]
      /\ frames' = [frames EXCEPT ![t] = frames[t]] /\ UNCHANGED <<list, enabled>>
  BY StackOf DEF PassOver
<1>5. Steady(frames[t], w, enabled, list)
  <2>1. CASE walk[t].mode = "push"
    <3>1. walk[t] \in PushWalk
      BY <2>1, StackOf, Kinds
    <3>2. w.mode = "push" /\ w.steady = walk[t].steady
      BY <3>1 DEF PushWalk
    <3> QED
      BY <2>1, <3>2, StackOf DEF Steady
  <2>2. CASE walk[t].mode = "prev"
    <3>1. walk[t] \in PrevWalk
      BY <2>2, StackOf, Kinds
    <3>2. w.mode = "prev"
      BY <3>1 DEF PrevWalk
    <3> QED
      BY <2>2, <3>2, StackOf DEF Steady
  <2> QED
    BY <1>1, <2>1, <2>2
<1> HIDE DEF w
<1>6. Stack(frames[t], acts[t], w)
  BY <1>3, StackOf, Zenon DEF Stack
<1> QED
  BY <1>4, <1>5, <1>6, StackStep

\* The thread goes on in something that fits, and no frame is pushed.
LEMMA RunStack ==
  ASSUME StackInv, HubInv', NEW t \in Thread, NEW h, NEW who, NEW r, NEW first, NEW c, c = Call(h, who, r, first),
         Run(t, h, who, r, first), UNCHANGED frames,
         \E at : Fits(frames[t], Append(acts[t], c), at), Callers(Append(acts[t], c))
  PROVE  StackInv'
<1>1. WalkFits(frames[t], Append(acts[t], c), NoWalk)
  BY DEF WalkFits, NoWalk
<1>2. Stack(frames[t], Append(acts[t], c), NoWalk)
  BY <1>1, StackOf, Zenon DEF Stack
<1>3. /\ walk' = [walk EXCEPT ![t] = NoWalk] /\ acts' = [acts EXCEPT ![t] = Append(acts[t], c)]
      /\ frames' = [frames EXCEPT ![t] = frames[t]] /\ UNCHANGED <<list, enabled>>
  BY StackOf DEF Run
<1>4. Steady(frames[t], NoWalk, enabled, list)
  BY StackOf DEF Steady, NoWalk
<1> QED
  BY <1>2, <1>3, <1>4, StackStep

\* sh_hub_push_stack returns the original function.
LEMMA GiveUpStack ==
  ASSUME StackInv, HubInv', NEW t \in Thread, walk[t].mode = "push",
         Run(t, walk[t].hub, ORIG, walk[t].ret, FALSE), UNCHANGED frames
  PROVE  StackInv'
<1> DEFINE w == walk[t]
           c == Call(w.hub, ORIG, w.ret, FALSE)
<1>1. w \in PushWalk
  BY StackOf, Kinds
<1>2. c \in Act /\ ~c.first /\ c.who = ORIG /\ c.ret = w.ret /\ c.hub = w.hub /\ ORIG \notin Proxy
  BY <1>1, HubAssumption DEF Call, Act, PushWalk
<1>3. From(acts[t], w.hub, w.ret)
  BY StackOf DEF WalkFits
<1> HIDE DEF c, w
<1>4. \E at : Fits(frames[t], Append(acts[t], c), at)
  BY <1>2, FitsRun, StackOf
<1>5. Callers(Append(acts[t], c))
  <2>1. acts[t] # <<>> => Follows(Last(acts[t]), c)
    BY <1>2, <1>3 DEF From, Follows
  <2>2. acts[t] = <<>> => c.ret[2] # PREV
    BY <1>2, <1>3 DEF From
  <2> QED
    BY <1>2, <2>1, <2>2, CallersRun, StackOf
<1> QED
  BY <1>4, <1>5, RunStack DEF c, w

LEMMA PushNothingStack ==
  ASSUME StackInv, HubInv', NEW t \in Thread, PushNothing(t)
  PROVE  StackInv'
BY GiveUpStack DEF PushNothing

LEMMA PushStack ==
  ASSUME StackInv, HubInv', NEW t \in Thread, Push(t)
  PROVE  StackInv'
<1> DEFINE w == walk[t]
           p == Head(w.rest)
           F == frames[t]
           A == acts[t]
           f == [hub |-> w.hub, orig |-> w.orig, ret |-> w.ret, allow |-> FALSE,
                 all |-> w.all, steady |-> w.steady]
           c == Call(w.hub, p, w.ret, TRUE)
<1>1. CASE Run(t, w.hub, ORIG, w.ret, FALSE) /\ UNCHANGED frames
  BY <1>1, GiveUpStack DEF Push
<1>2. CASE frames' = [frames EXCEPT ![t] = Append(F, f)] /\ Run(t, w.hub, p, w.ret, TRUE)
  <2>1. w \in PushWalk /\ w.mode = "push" /\ w.rest # <<>>
    BY StackOf, Kinds DEF Push
  <2>2. WalkFits(F, A, w) /\ F \in Seq(Frame) /\ A \in Seq(Act) /\ Callers(A)
    BY StackOf
  <2>3. From(A, w.hub, w.ret) /\ Items(w.hub, w.all) /\ Ends(w.rest, w.all)
    BY <2>1, <2>2 DEF WalkFits
  <2>4. w.rest \in Seq(Proxy) /\ w.all \in Seq(Proxy) /\ p \in Proxy
    BY <2>1, TailIn DEF PushWalk
  <2>5. \E k \in DOMAIN w.all : w.all[k] = p
    BY <2>1, <2>3, <2>4, EndsHead
  <2>6. HubOf[p] = w.hub
    BY <2>3, <2>5 DEF Items
  <2>7. /\ c \in Act /\ c.first /\ c.who = p /\ c.ret = w.ret /\ c.hub = w.hub
        /\ f \in Frame /\ f.hub = w.hub /\ f.ret = w.ret /\ f.all = w.all /\ f.steady = w.steady
    BY <2>1, <2>4 DEF Call, Act, Frame, PushWalk
  <2> HIDE DEF c, f
  \* What stays enabled is behind the proxy that runs.
  <2>14. ASSUME NEW x \in w.steady, x # p
         PROVE  \E k \in DOMAIN w.all : w.all[k] = x /\ \A l \in DOMAIN w.all : w.all[l] = p => l < k
    <3> DEFINE r == w.rest
               s == w.all
    <3>1. PICK j \in DOMAIN r : r[j] = x
      BY <2>1, <2>2 DEF WalkFits
    <3>2. /\ Len(r) \in Nat /\ DOMAIN r = 1 .. Len(r) /\ r[1] = p
          /\ Len(s) \in Nat /\ DOMAIN s = 1 .. Len(s)
      BY <2>1, <2>4, LenProperties, HeadTailProperties
    <3>3. /\ Len(r) <= Len(s) /\ \A i \in 1 .. Len(r) : r[i] = s[Len(s) - Len(r) + i]
          /\ Distinct(s)
      BY <2>3 DEF Ends, Items
    <3> HIDE DEF r, s, p
    <3>4. j # 1
      BY <2>14, <3>1, <3>2
    <3> DEFINE k == Len(s) - Len(r) + j
               h == Len(s) - Len(r) + 1
    <3>5. k \in DOMAIN s /\ h \in DOMAIN s /\ s[k] = x /\ s[h] = p /\ h < k
      BY <3>1, <3>2, <3>3, <3>4
    <3>6. \A l \in DOMAIN s : s[l] = p => l = h
      BY <3>3, <3>5 DEF Distinct
    <3> QED
      BY <3>5, <3>6 DEF s
  <2> HIDE DEF p
  <2>8. \E at : Fits(Append(F, f), Append(A, c), at)
    <3>1. PICK at : Fits(F, A, at)
      BY StackOf
    <3>2. \E j \in DOMAIN f.all : f.all[j] = c.who
      BY <2>5, <2>7
    <3>3. \A x \in f.steady \ {c.who} :
            \E k \in DOMAIN f.all : f.all[k] = x /\ \A l \in DOMAIN f.all : f.all[l] = c.who => l < k
      BY <2>7, <2>14
    <3> QED
      BY <2>2, <2>4, <2>7, <3>1, <3>2, <3>3, FitsPush
  <2>9. Callers(Append(A, c))
    <3>1. A # <<>> => Follows(Last(A), c)
      BY <2>3, <2>7 DEF From, Follows
    <3>2. A = <<>> => c.ret[2] # PREV
      BY <2>3, <2>7 DEF From
    <3> QED
      BY <2>2, <2>4, <2>6, <2>7, <3>1, <3>2, CallersRun
  <2>10. \A n \in DOMAIN Append(F, f) : Items(Append(F, f)[n].hub, Append(F, f)[n].all)
    <3> DEFINE G == Append(F, f)
    <3>1. /\ DOMAIN F = 1 .. Len(F) /\ DOMAIN G = 1 .. Len(F) + 1 /\ Len(F) \in Nat
          /\ \A n \in 1 .. Len(F) : G[n] = F[n]
          /\ G[Len(F) + 1] = f
      BY <2>2, <2>7, AppendIn
    <3>2. \A n \in DOMAIN F : Items(F[n].hub, F[n].all)
      BY StackOf
    <3>3. Items(f.hub, f.all)
      BY <2>3, <2>7
    <3> HIDE DEF G
    <3>4. ASSUME NEW n \in DOMAIN G
          PROVE  Items(G[n].hub, G[n].all)
      <4>1. CASE n \in 1 .. Len(F)
        BY <3>1, <3>2, <4>1
      <4>2. CASE n = Len(F) + 1
        BY <3>1, <3>3, <4>2
      <4> QED
        BY <3>1, <4>1, <4>2
    <3> QED
      BY <3>4 DEF G
  <2>11. Stack(Append(F, f), Append(A, c), NoWalk)
    <3>1. WalkFits(Append(F, f), Append(A, c), NoWalk)
      BY DEF WalkFits, NoWalk
    <3> QED
      BY <2>8, <2>9, <2>10, <3>1, Zenon DEF Stack
  <2>12. /\ walk' = [walk EXCEPT ![t] = NoWalk] /\ acts' = [acts EXCEPT ![t] = Append(A, c)]
         /\ frames' = [frames EXCEPT ![t] = Append(F, f)] /\ UNCHANGED <<list, enabled>>
    BY <1>2 DEF Run, c, p
  <2>13. Steady(Append(F, f), NoWalk, enabled, list)
    <3>1. /\ DOMAIN F = 1 .. Len(F) /\ DOMAIN Append(F, f) = 1 .. Len(F) + 1 /\ Len(F) \in Nat
          /\ \A n \in 1 .. Len(F) : Append(F, f)[n] = F[n]
          /\ Append(F, f)[Len(F) + 1] = f
      BY <2>2, <2>7, AppendIn
    <3>2. \A n \in DOMAIN F : F[n].steady \subseteq enabled
      BY StackOf DEF Steady
    <3>3. f.steady \subseteq enabled
      BY <2>1, <2>7, StackOf DEF Steady
    <3>4. ASSUME NEW n \in DOMAIN Append(F, f)
          PROVE  Append(F, f)[n].steady \subseteq enabled
      <4>1. CASE n \in 1 .. Len(F)
        BY <3>1, <3>2, <4>1
      <4>2. CASE n = Len(F) + 1
        BY <3>1, <3>3, <4>2
      <4> QED
        BY <3>1, <4>1, <4>2
    <3> QED
      BY <3>4 DEF Steady, NoWalk
  <2> QED
    BY <2>11, <2>12, <2>13, StackStep
<1> QED
  BY <1>1, <1>2 DEF Push

LEMMA CallPrevStack ==
  ASSUME StackInv, HubInv', NEW t \in Thread, CallPrev(t)
  PROVE  StackInv'
<1> DEFINE F == frames[t]
           A == acts[t]
           s == Last(F).all
           w == [mode |-> "prev", rest |-> After(s, Last(A).who)]
<1>1. F # <<>> /\ A # <<>> /\ Last(A).who \in Proxy /\ F \in Seq(Frame) /\ A \in Seq(Act)
  BY StackOf DEF CallPrev, Runs, Top
<1>2. PICK at : Fits(F, A, at)
  BY StackOf
<1>3. \E k \in DOMAIN s : s[k] = Last(A).who
  BY <1>1, <1>2, TopInFrame
<1>4. Last(F) \in Frame /\ Last(F) = F[Len(F)] /\ Len(F) \in DOMAIN F
  BY <1>1, LastIn
<1>5. s \in Seq(Proxy) /\ Distinct(s)
  BY <1>4, StackOf DEF Frame, Items
<1>6. WalkFits(F, A, w)
  <2>1. /\ Ends(w.rest, s) /\ Len(w.rest) \in Nat
        /\ \A k \in DOMAIN s : s[k] = Last(A).who => k + Len(w.rest) = Len(s)
    BY <1>3, <1>5, EndsAfter
  <2>2. PICK q \in DOMAIN s : s[q] = Last(A).who
    BY <1>3
  <2>3. Len(s) \in Nat /\ DOMAIN s = 1 .. Len(s)
    BY <1>5, LenProperties
  <2>4. w.mode = "prev"
    OBVIOUS
  <2> HIDE DEF w, s
  <2>5. \A k \in DOMAIN s : s[k] = Last(A).who => k + Len(w.rest) <= Len(s)
    BY <2>1, <2>3
  <2>6. q + Len(w.rest) = Len(s)
    BY <2>1, <2>2
  <2>7. \A k \in DOMAIN s : k + Len(w.rest) > Len(s) \/ k <= q
    BY <2>1, <2>3, <2>6
  <2> QED
    BY <2>1, <2>2, <2>4, <2>5, <2>7 DEF WalkFits, s
<1>7. /\ walk' = [walk EXCEPT ![t] = w] /\ acts' = [acts EXCEPT ![t] = acts[t]]
      /\ frames' = [frames EXCEPT ![t] = frames[t]] /\ UNCHANGED <<list, enabled>>
  BY StackOf DEF CallPrev, TopFrame, Top
<1>8. Steady(F, w, enabled, list)
  BY StackOf DEF Steady
<1> HIDE DEF w
<1>9. Stack(F, A, w)
  BY <1>6, StackOf, Zenon DEF Stack
<1> QED
  BY <1>7, <1>8, <1>9, StackStep

LEMMA PrevStack ==
  ASSUME StackInv, HubInv', NEW t \in Thread, Prev(t)
  PROVE  StackInv'
<1> DEFINE F == frames[t]
           A == acts[t]
           s == Last(F).all
           rest == walk[t].rest
           next == IF rest = <<>> THEN ORIG ELSE Head(rest)
           c == Call(Last(F).hub, next, <<Last(A).who, PREV>>, FALSE)
<1>1. walk[t] \in PrevWalk /\ F # <<>> /\ A # <<>> /\ Last(A).who \in Proxy /\ walk[t].mode = "prev"
  BY StackOf, Kinds DEF Prev, HubInv, InProxy, Top
<1>2. F \in Seq(Frame) /\ A \in Seq(Act) /\ Callers(A) /\ WalkFits(F, A, walk[t])
  BY StackOf
<1>3. PICK at : Fits(F, A, at)
  BY StackOf
<1>4. /\ InFrame(F, A, at, Len(F), Len(A)) /\ Len(F) \in DOMAIN F /\ Len(A) \in DOMAIN A
      /\ Last(A).hub = Last(F).hub
      /\ \E k \in DOMAIN s : s[k] = Last(A).who
  BY <1>1, <1>2, <1>3, TopInFrame
<1>5. Last(F) \in Frame /\ Last(F) = F[Len(F)] /\ Last(A) = A[Len(A)]
  BY <1>1, <1>2, LastIn
<1>6. s \in Seq(Proxy) /\ Items(Last(F).hub, s) /\ rest \in Seq(Proxy)
  BY <1>1, <1>4, <1>5, StackOf DEF Frame, PrevWalk
<1>7. /\ Ends(rest, s) /\ \A k \in DOMAIN s : s[k] = Last(A).who => k + Len(rest) <= Len(s)
      /\ \A k \in DOMAIN s : s[k] \in Last(F).steady =>
           k + Len(rest) > Len(s) \/ \E l \in DOMAIN s : s[l] = Last(A).who /\ k <= l
  BY <1>1, <1>2 DEF WalkFits
<1>8. next \in Proxy \cup {ORIG} /\ (next \in Proxy => rest # <<>> /\ next = Head(rest))
  BY <1>6, TailIn, HubAssumption
<1>9. /\ c \in Act /\ ~c.first /\ c.who = next /\ c.ret = <<Last(A).who, PREV>> /\ c.hub = Last(F).hub
  BY <1>1, <1>5, <1>8 DEF Call, Act, Frame, Site
<1>10. Run(t, Last(F).hub, next, <<Last(A).who, PREV>>, FALSE) /\ UNCHANGED frames
  BY DEF Prev, TopFrame, Top
<1> HIDE DEF c, next, s, rest
<1>11. ASSUME c.who \in Proxy
       PROVE  \E l \in DOMAIN s : /\ s[l] = c.who
                                  /\ \A i \in DOMAIN s : s[i] = c.who => i = l
                                  /\ \A i \in DOMAIN s : s[i] = Last(A).who => i < l
  <2>1. rest # <<>> /\ c.who = Head(rest)
    BY <1>8, <1>9, <1>11
  <2>2. PICK l \in DOMAIN s : s[l] = Head(rest) /\ l = Len(s) - Len(rest) + 1
    BY <1>6, <1>7, <2>1, EndsHead
  <2>3. Len(s) \in Nat /\ Len(rest) \in Nat /\ DOMAIN s = 1 .. Len(s)
    BY <1>6, LenProperties
  <2>4. \A i \in DOMAIN s : s[i] = Last(A).who => i < l
    BY <1>7, <2>2, <2>3
  <2> QED
    BY <1>6, <2>1, <2>2, <2>4 DEF Items, Distinct
<1>12. ASSUME c.who \in Proxy, NEW i \in DOMAIN A, InFrame(F, A, at, Len(F), i),
              NEW k \in DOMAIN s, NEW l \in DOMAIN s, s[k] = A[i].who, s[l] = c.who
       PROVE  k < l
  <2>1. PICK q \in DOMAIN s : s[q] = Last(A).who
    BY <1>4
  <2>2. q < l
    BY <1>11, <1>12, <2>1
  <2>3. k \in Nat /\ q \in Nat /\ l \in Nat
    BY <1>6, LenProperties
  <2>4. CASE i = Len(A)
    BY <1>5, <1>11, <1>12, <2>4
  <2>5. CASE i # Len(A)
    <3>1. i < Len(A)
      BY <1>2, <2>5, LenProperties
    <3>2. \A a, b \in DOMAIN F[Len(F)].all :
            F[Len(F)].all[a] = A[i].who /\ F[Len(F)].all[b] = A[Len(A)].who => a < b
      BY <1>3, <1>4, <1>12, <3>1, Zenon DEF Fits, InOrder
    <3>3. k < q
      BY <1>5, <1>12, <2>1, <3>2 DEF s
    <3> QED
      BY <2>2, <2>3, <3>3
  <2> QED
    BY <2>4, <2>5
\* What stays enabled and has not run is behind the proxy that runs now.
<1>15. ASSUME c.who \in Proxy, NEW p \in Last(F).steady \ {c.who}, ~RanIn(F, A, at, Len(F), p)
       PROVE  \E k \in DOMAIN s : /\ s[k] = p /\ Ahead(F, A, at, Len(F), k)
                                  /\ \A l \in DOMAIN s : s[l] = c.who => l < k
  <2>1. PICK k \in DOMAIN s : s[k] = p /\ Ahead(F, A, at, Len(F), k)
    BY <1>3, <1>4, <1>5, <1>15 DEF Fits, Kept, s
  <2>2. PICK q \in DOMAIN s : s[q] = Last(A).who
    BY <1>4
  <2>3. \A l \in DOMAIN s : s[l] = Last(A).who => l < k
    BY <1>4, <1>5, <2>1 DEF Ahead, s
  <2>4. rest # <<>> /\ c.who = Head(rest)
    BY <1>8, <1>9, <1>15
  <2>5. PICK h \in DOMAIN s : s[h] = Head(rest) /\ h = Len(s) - Len(rest) + 1
    BY <1>6, <1>7, <2>4, EndsHead
  <2>6. Len(s) \in Nat /\ Len(rest) \in Nat /\ DOMAIN s = 1 .. Len(s)
    BY <1>6, LenProperties
  <2>7. k + Len(rest) > Len(s)
    BY <1>7, <2>1, <2>3, <2>6
  <2>8. k # h
    BY <1>15, <2>1, <2>4, <2>5
  <2>9. h < k
    BY <2>5, <2>6, <2>7, <2>8
  <2>10. \A l \in DOMAIN s : s[l] = c.who => l = h
    BY <1>6, <2>4, <2>5 DEF Items, Distinct
  <2> QED
    BY <2>1, <2>9, <2>10
<1>13. Fits(F, Append(A, c), at)
  <2>1. c.who \in Proxy =>
           /\ F # <<>> /\ c.hub = F[Len(F)].hub
           /\ \E k \in DOMAIN F[Len(F)].all : F[Len(F)].all[k] = c.who
           /\ \A i \in DOMAIN A : InFrame(F, A, at, Len(F), i) =>
                \A k, l \in DOMAIN F[Len(F)].all :
                  F[Len(F)].all[k] = A[i].who /\ F[Len(F)].all[l] = c.who => k < l
           /\ \A p \in F[Len(F)].steady \ {c.who} :
                \/ RanIn(F, A, at, Len(F), p)
                \/ \E k \in DOMAIN F[Len(F)].all :
                     /\ F[Len(F)].all[k] = p /\ Ahead(F, A, at, Len(F), k)
                     /\ \A l \in DOMAIN F[Len(F)].all : F[Len(F)].all[l] = c.who => l < k
    BY <1>1, <1>5, <1>9, <1>11, <1>12, <1>15 DEF s
  <2> QED
    BY <1>2, <1>3, <1>9, <2>1, FitsRun
<1>14. Callers(Append(A, c))
  <2>1. c.who \in Proxy => HubOf[c.who] = c.hub
    BY <1>6, <1>9, <1>11 DEF Items
  <2>2. Follows(Last(A), c)
    BY <1>1, <1>4, <1>9 DEF Follows
  <2> QED
    BY <1>1, <1>2, <1>9, <2>1, <2>2, CallersRun
<1> QED
  BY <1>10, <1>13, <1>14, RunStack DEF c

\* Frames that differ in what they allow or remember fit as well.
LEMMA AlikeStack ==
  ASSUME NEW F \in Seq(Frame), NEW G \in Seq(Frame), NEW A, NEW w, NEW v,
         Stack(F, A, w), Len(G) = Len(F),
         \A n \in DOMAIN F : /\ G[n].hub = F[n].hub /\ G[n].ret = F[n].ret /\ G[n].all = F[n].all
                            /\ G[n].steady \subseteq F[n].steady,
         v.mode = w.mode,
         w.mode \in {"head", "push"} => v.hub = w.hub /\ v.ret = w.ret,
         w.mode = "push" => v.all = w.all /\ v.rest = w.rest /\ v.steady \subseteq w.steady,
         w.mode = "prev" => v.rest = w.rest /\ F # <<>>
  PROVE  Stack(G, A, v)
<1>1. DOMAIN G = DOMAIN F
  BY LenProperties
<1>2. \E at : Fits(G, A, at)
  BY FitsAlike DEF Stack
<1>3. \A n \in DOMAIN G : Items(G[n].hub, G[n].all)
  BY <1>1 DEF Stack
<1>4. WalkFits(F, A, w)
  BY DEF Stack
<1>5. WalkFits(G, A, v)
  <2>1. CASE w.mode = "prev"
    <3>1. G # <<>> /\ Len(F) \in DOMAIN F /\ Last(F) = F[Len(F)] /\ Last(G) = G[Len(F)]
      <4>1. Len(F) \in DOMAIN F /\ Last(F) = F[Len(F)]
        BY <2>1, LastIn
      <4>2. G # <<>>
        BY <1>1, <4>1, EmptySeq
      <4> QED
        BY <4>1, <4>2, LastIn
    <3>2. Last(G).all = Last(F).all /\ Last(G).steady \subseteq Last(F).steady
      BY <3>1
    <3> QED
      BY <1>4, <2>1, <3>2 DEF WalkFits
  <2>2. CASE w.mode # "prev"
    BY <1>4, <2>2 DEF WalkFits
  <2> QED
    BY <2>1, <2>2
<1> QED
  BY <1>2, <1>3, <1>5 DEF Stack

LEMMA SetReentrantStack ==
  ASSUME StackInv, HubInv', NEW t \in Thread, NEW allowed \in BOOLEAN, SetReentrant(t, allowed)
  PROVE  StackInv'
<1> DEFINE F == frames[t]
           n == Len(F)
           e == [F[n] EXCEPT !.allow = allowed]
           G == [F EXCEPT ![n] = e]
<1>1. n \in Nat \ {0} /\ DOMAIN F = 1 .. n /\ F \in Seq(Frame) /\ F[n] \in Frame
  BY StackOf, TopFrameIn DEF SetReentrant, Current
<1>2. e \in Frame /\ e.hub = F[n].hub /\ e.ret = F[n].ret /\ e.all = F[n].all /\ e.steady = F[n].steady
  BY <1>1 DEF Frame
<1> HIDE DEF e
<1>3. G \in Seq(Frame) /\ Len(G) = n /\ \A i \in 1 .. n : G[i] = IF i = n THEN e ELSE F[i]
  BY <1>1, <1>2, ExceptSeq
<1>4. /\ frames' = [frames EXCEPT ![t] = G] /\ UNCHANGED <<list, enabled, acts, walk>>
      /\ walk[t].mode = "none"
  BY DEF SetReentrant, e, Runs
<1> HIDE DEF G
<1>5. \A i \in DOMAIN F : /\ G[i].hub = F[i].hub /\ G[i].ret = F[i].ret /\ G[i].all = F[i].all
                         /\ G[i].steady = F[i].steady
  BY <1>1, <1>2, <1>3
<1>6. Stack(F, acts[t], walk[t])
  BY DEF StackInv
<1>7. Stack(G, acts[t], walk[t])
  BY <1>1, <1>3, <1>4, <1>5, <1>6, AlikeStack DEF n
<1>8. Steady(G, walk[t], enabled, list)
  <2>1. DOMAIN G = DOMAIN F
    BY <1>1, <1>3, LenProperties DEF n
  <2> QED
    BY <1>4, <1>5, <2>1, StackOf DEF Steady
<1> QED
  BY <1>4, <1>7, <1>8, StackStep, StackOf

LEMMA ReturnFromOriginalStack ==
  ASSUME StackInv, HubInv', NEW t \in Thread, ReturnFromOriginal(t)
  PROVE  StackInv'
<1> DEFINE A == acts[t]
<1>1. A # <<>> /\ A \in Seq(Act) /\ Callers(A) /\ Last(A).who = ORIG /\ walk[t].mode = "none"
  BY StackOf DEF ReturnFromOriginal, Runs, Top
<1>2. ~Last(A).first
  <2>1. Last(A) = A[Len(A)] /\ Len(A) \in DOMAIN A
    BY <1>1, LastIn
  <2> QED
    BY <1>1, <2>1, HubAssumption DEF Callers
<1>3. \E at : Fits(frames[t], Front(A), at)
  BY <1>1, <1>2, FitsReturn, StackOf
<1>4. Callers(Front(A)) /\ WalkFits(frames[t], Front(A), walk[t])
  BY <1>1, CallersFront DEF WalkFits
<1>5. Stack(frames[t], Front(A), walk[t])
  BY <1>3, <1>4, StackOf, Zenon DEF Stack
<1>6. /\ walk' = [walk EXCEPT ![t] = walk[t]] /\ acts' = [acts EXCEPT ![t] = Front(A)]
      /\ frames' = [frames EXCEPT ![t] = frames[t]] /\ UNCHANGED <<list, enabled>>
      /\ Steady(frames[t], walk[t], enabled, list)
  BY StackOf DEF ReturnFromOriginal
<1> QED
  BY <1>5, <1>6, StackStep

\* A first proxy pops its own frame; any other finds a stranger's return address and pops none.
LEMMA ReturnFromProxyStack ==
  ASSUME JumpsEnd, StackInv, HubInv', NEW t \in Thread, ReturnFromProxy(t)
  PROVE  StackInv'
<1> DEFINE F == frames[t]
           A == acts[t]
<1>1. A # <<>> /\ A \in Seq(Act) /\ Callers(A) /\ Last(A).who \in Proxy /\ walk[t].mode = "none" /\ F \in Seq(Frame)
  BY StackOf DEF ReturnFromProxy, Runs, Top
<1>2. PICK at : Fits(F, A, at)
  BY StackOf
<1>3. /\ walk' = [walk EXCEPT ![t] = walk[t]] /\ acts' = [acts EXCEPT ![t] = Front(A)]
      /\ frames' = [frames EXCEPT ![t] = IF Current(t) THEN Front(F) ELSE F] /\ UNCHANGED <<list, enabled>>
      /\ Steady(F, walk[t], enabled, list)
  BY StackOf DEF ReturnFromProxy
<1>4. Callers(Front(A))
  BY <1>1, CallersFront
<1>5. CASE Last(A).first
  <2>1. F # <<>> /\ F[Len(F)].ret = Last(A).ret /\ Last(F) = F[Len(F)]
    BY <1>1, <1>2, <1>5, TopMark, LastIn
  <2>2. frames' = [frames EXCEPT ![t] = Front(F)]
    BY <1>3, <2>1 DEF Current, TopFrame, Top
  <2>3. \E new : Fits(Front(F), Front(A), new)
    BY <1>1, <1>2, <1>5, FitsPop
  <2>4. \A n \in DOMAIN Front(F) : Items(Front(F)[n].hub, Front(F)[n].all) /\ Front(F)[n].steady \subseteq enabled
    <3>1. /\ DOMAIN F = 1 .. Len(F) /\ DOMAIN Front(F) = 1 .. Len(F) - 1 /\ Len(F) \in Nat
          /\ \A n \in 1 .. Len(F) - 1 : Front(F)[n] = F[n]
      BY <1>1, <2>1, FrontOf
    <3>2. \A n \in DOMAIN F : Items(F[n].hub, F[n].all) /\ F[n].steady \subseteq enabled
      BY <1>3, StackOf DEF Steady
    <3>3. ASSUME NEW n \in DOMAIN Front(F)
          PROVE  Front(F)[n] = F[n] /\ n \in DOMAIN F
      BY <3>1
    <3> QED
      BY <3>2, <3>3
  <2>5. WalkFits(Front(F), Front(A), walk[t])
    BY <1>1 DEF WalkFits
  <2>6. Stack(Front(F), Front(A), walk[t])
    BY <1>4, <2>3, <2>4, <2>5, Zenon DEF Stack
  <2>7. Steady(Front(F), walk[t], enabled, list)
    BY <1>1, <2>4 DEF Steady
  <2> QED
    BY <1>3, <2>2, <2>6, <2>7, StackStep
<1>6. CASE ~Last(A).first
  <2>1. ~Current(t)
    BY <1>1, <1>2, <1>6, NoStranger DEF Current, TopFrame, Top
  <2>2. frames' = [frames EXCEPT ![t] = F]
    BY <1>3, <2>1
  <2>3. \E new : Fits(F, Front(A), new)
    BY <1>1, <1>2, <1>6, FitsReturn
  <2>4. WalkFits(F, Front(A), walk[t])
    BY <1>1 DEF WalkFits
  <2>5. Stack(F, Front(A), walk[t])
    BY <1>4, <2>3, <2>4, StackOf, Zenon DEF Stack
  <2> QED
    BY <1>3, <2>2, <2>5, StackStep
<1> QED
  BY <1>5, <1>6

\* A hub gets an item that it does not have.
LEMMA AddStack ==
  ASSUME StackInv, HubInv', NEW p \in Proxy, Add(p)
  PROVE  StackInv'
<1> DEFINE h == HubOf[p]
           s == list[h]
           l == IF Contains(s, p) THEN s ELSE <<p>> \o s
<1>1. h \in Hub /\ s \in Seq(Proxy) /\ Distinct(s) /\ list \in [Hub -> Seq(Proxy)]
  BY HubAssumption DEF StackInv, HubInv, HubTypeOK
<1>5. (\E j \in DOMAIN l : l[j] = p) /\ \A q : (\E j \in DOMAIN s : s[j] = q) => \E j \in DOMAIN l : l[j] = q
  <2>1. CASE Contains(s, p)
    <3>1. l = s /\ DOMAIN s = 1 .. Len(s)
      BY <1>1, <2>1, LenProperties
    <3>2. \E j \in 1 .. Len(s) : s[j] = p
      BY <2>1 DEF Contains
    <3> HIDE DEF l, s
    <3> QED
      BY <3>1, <3>2
  <2>2. CASE ~Contains(s, p)
    <3>1. /\ l = <<p>> \o s /\ Len(s) \in Nat /\ DOMAIN s = 1 .. Len(s)
          /\ DOMAIN l = 1 .. Len(s) + 1
          /\ l[1] = p /\ \A i \in 1 .. Len(s) : l[i + 1] = s[i]
      BY <1>1, <2>2
    <3> HIDE DEF l, s
    <3>2. 1 \in DOMAIN l /\ \A i \in DOMAIN s : i + 1 \in DOMAIN l
      BY <3>1
    <3> QED
      BY <3>1, <3>2
  <2> QED
    BY <2>1, <2>2
<1>2. Distinct(l)
  <2>1. CASE Contains(s, p)
    BY <1>1, <2>1
  <2>2. CASE ~Contains(s, p)
    <3>1. /\ l = <<p>> \o s /\ Len(s) \in Nat /\ DOMAIN s = 1 .. Len(s)
          /\ DOMAIN l = 1 .. Len(s) + 1
          /\ l[1] = p /\ \A i \in 1 .. Len(s) : l[i + 1] = s[i]
      BY <1>1, <2>2
    <3>2. \A i \in DOMAIN s : s[i] # p
      BY <2>2 DEF Contains
    <3> HIDE DEF l, s
    <3>3. \A i \in DOMAIN l : i # 1 => i - 1 \in DOMAIN s /\ l[i] = s[i - 1]
      <4> SUFFICES ASSUME NEW i \in DOMAIN l, i # 1
                   PROVE  i - 1 \in DOMAIN s /\ l[i] = s[i - 1]
        OBVIOUS
      <4>1. i - 1 \in 1 .. Len(s) /\ (i - 1) + 1 = i
        BY <3>1
      <4> QED
        BY <3>1, <4>1
    <3>4. ASSUME NEW i \in DOMAIN l, NEW j \in DOMAIN l, l[i] = l[j]
          PROVE  i = j
      <4>1. CASE i = 1 \/ j = 1
        BY <3>1, <3>2, <3>3, <3>4, <4>1
      <4>2. CASE i # 1 /\ j # 1
        <5>1. i - 1 = j - 1
          BY <1>1, <3>3, <3>4, <4>2 DEF Distinct
        <5> QED
          BY <3>1, <5>1
      <4> QED
        BY <4>1, <4>2
    <3> QED
      BY <3>4 DEF Distinct
  <2> QED
    BY <2>1, <2>2
<1>3. list' = [list EXCEPT ![h] = l] /\ enabled' = enabled \cup {p} /\ UNCHANGED <<frames, acts, walk>>
  BY DEF Add
<1>0. HubOf[p] = h /\ \A q \in Proxy : HubOf[q] \in Hub
  BY HubAssumption
<1>00. s = list[h]
  OBVIOUS
<1> HIDE DEF h, s, l
<1>4. \A k \in Hub : Distinct(list'[k])
  BY <1>1, <1>2, <1>3 DEF StackInv
<1>6. ASSUME NEW k \in Hub, NEW q, \E j \in DOMAIN list[k] : list[k][j] = q
      PROVE  \E j \in DOMAIN list'[k] : list'[k][j] = q
  <2>1. CASE k = h
    <3>1. list'[k] = l
      BY <1>1, <1>3, <2>1
    <3> QED
      BY <1>00, <1>5, <1>6, <2>1, <3>1
  <2>2. CASE k # h
    BY <1>1, <1>3, <1>6, <2>2
  <2> QED
    BY <2>1, <2>2
<1>7. ASSUME NEW q \in enabled'
      PROVE  \E j \in DOMAIN list'[HubOf[q]] : list'[HubOf[q]][j] = q
  <2>1. CASE q = p
    <3>1. list'[HubOf[q]] = l
      BY <1>0, <1>1, <1>3, <2>1
    <3> QED
      BY <1>5, <2>1, <3>1
  <2>2. CASE q \in enabled
    <3>1. q \in Proxy
      BY <2>2 DEF StackInv, HubInv, HubTypeOK
    <3>2. HubOf[q] \in Hub /\ \E j \in DOMAIN list[HubOf[q]] : list[HubOf[q]][j] = q
      BY <1>0, <2>2, <3>1 DEF StackInv
    <3> QED
      BY <1>6, <3>2
  <2> QED
    BY <1>3, <2>1, <2>2
<1>8. ASSUME NEW t \in Thread
      PROVE  Steady(frames[t], walk[t], enabled', list')
  <2>1. Steady(frames[t], walk[t], enabled, list)
    BY DEF StackInv
  <2>2. ASSUME walk[t].mode = "head", NEW q \in walk[t].steady
        PROVE  \E j \in DOMAIN list'[walk[t].hub] : list'[walk[t].hub][j] = q
    <3>1. walk[t].hub \in Hub
      BY <2>2, StackOf, Kinds DEF HeadWalk
    <3>2. \E j \in DOMAIN list[walk[t].hub] : list[walk[t].hub][j] = q
      BY <2>1, <2>2 DEF Steady
    <3> QED
      BY <1>6, <3>1, <3>2
  <2>3. enabled \subseteq enabled'
    BY <1>3
  <2> QED
    BY <2>1, <2>2, <2>3 DEF Steady
<1> QED
  BY <1>3, <1>4, <1>7, <1>8 DEF StackInv

LEMMA DelStack ==
  ASSUME StackInv, HubInv', NEW p \in Proxy, Del(p)
  PROVE  StackInv'
<1>1. ASSUME NEW t \in Thread
      PROVE  Stack(frames'[t], acts'[t], walk'[t]) /\ Steady(frames'[t], walk'[t], enabled', list')
  <2>1. frames[t] \in Seq(Frame) /\ frames'[t] \in Seq(Frame) /\ walk[t] \in Walk
    BY DEF StackInv, HubInv, HubTypeOK, Frame, Code, Site
  <2>2. /\ DOMAIN frames'[t] = DOMAIN frames[t]
        /\ \A n \in DOMAIN frames[t] : frames'[t][n] = [frames[t][n] EXCEPT !.steady = @ \ {p}]
    BY DEF Del
  <2>3. Len(frames'[t]) = Len(frames[t])
    BY <2>1, <2>2, LenProperties
  <2>4. ASSUME NEW n \in DOMAIN frames[t]
        PROVE  /\ frames'[t][n].hub = frames[t][n].hub /\ frames'[t][n].ret = frames[t][n].ret
               /\ frames'[t][n].all = frames[t][n].all /\ frames'[t][n].steady = frames[t][n].steady \ {p}
    <3>1. frames[t][n] \in Frame
      BY <2>1, ElementOfSeq, LenProperties
    <3> QED
      BY <2>2, <3>1 DEF Frame
  <2>5. /\ walk'[t].mode = walk[t].mode
        /\ walk[t].mode \in {"head", "push"} => walk'[t].hub = walk[t].hub /\ walk'[t].ret = walk[t].ret
        /\ walk[t].mode = "push" => walk'[t].all = walk[t].all /\ walk'[t].rest = walk[t].rest
        /\ walk[t].mode \in {"head", "push"} => walk'[t].steady = walk[t].steady \ {p}
        /\ walk[t].mode = "prev" => walk'[t].rest = walk[t].rest /\ frames[t] # <<>>
    <3>1. CASE walk[t].mode = "head"
      BY <2>1, <3>1, Kinds DEF Del, HeadWalk
    <3>2. CASE walk[t].mode = "push"
      BY <2>1, <3>2, Kinds DEF Del, PushWalk
    <3>3. CASE walk[t].mode \notin {"head", "push"}
      BY <3>3 DEF Del, StackInv, HubInv, InProxy
    <3> QED
      BY <3>1, <3>2, <3>3
  <2>6. Stack(frames[t], acts[t], walk[t])
    BY DEF StackInv
  <2>7. Stack(frames'[t], acts[t], walk'[t])
    BY <2>1, <2>3, <2>4, <2>5, <2>6, AlikeStack
  <2>8. Steady(frames'[t], walk'[t], enabled \ {p}, list)
    <3>1. Steady(frames[t], walk[t], enabled, list)
      BY DEF StackInv
    <3> QED
      BY <2>2, <2>4, <2>5, <3>1 DEF Steady
  <2> QED
    BY <2>7, <2>8 DEF Del
<1>2. UNCHANGED list /\ enabled' \subseteq enabled
  BY DEF Del
<1> QED
  BY <1>1, <1>2 DEF StackInv

-----------------------------------------------------------------------------
(* The theorems about the frames.                                          *)

LEMMA StackInit ==
  ASSUME Init
  PROVE  StackInv
<1>1. /\ \A h \in Hub : list[h] = <<>>
      /\ enabled = {}
      /\ \A t \in Thread : frames[t] = <<>> /\ acts[t] = <<>> /\ walk[t] = NoWalk
  BY DEF Init
<1>2. DOMAIN <<>> = {} /\ Len(<<>>) = 0
  OBVIOUS
<1>3. Distinct(<<>>)
  BY <1>2 DEF Distinct
<1>4. Stack(<<>>, <<>>, NoWalk)
  <2>1. <<>> \in [{} -> {i \in DOMAIN <<>> : <<>>[i].first}]
    OBVIOUS
  <2>2. Fits(<<>>, <<>>, <<>>)
    BY <1>2, <2>1 DEF Fits, Marks, InList, InOrder, Kept
  <2>3. Callers(<<>>)
    BY <1>2 DEF Callers
  <2>4. WalkFits(<<>>, <<>>, NoWalk)
    BY DEF WalkFits, NoWalk
  <2> QED
    BY <1>2, <2>2, <2>3, <2>4 DEF Stack
<1>5. Steady(<<>>, NoWalk, {}, list)
  BY <1>2 DEF Steady, NoWalk
<1> QED
  BY <1>1, <1>3, <1>4, <1>5, HubInit DEF StackInv

LEMMA StackNext ==
  ASSUME JumpsEnd, StackInv, [Next]_vars
  PROVE  StackInv'
<1>0. HubInv'
  BY HubNext DEF StackInv
<1>1. CASE UNCHANGED vars
  <2>1. UNCHANGED <<list, enabled, frames, acts, walk>>
    BY <1>1 DEF vars
  <2> QED
    BY <1>0, <2>1 DEF StackInv
<1>2. ASSUME NEW p \in Proxy, Add(p) \/ Del(p) PROVE StackInv'
  BY <1>0, <1>2, AddStack, DelStack
<1>3. ASSUME NEW h \in Hub, NEW f \in MayFollow(h), Relink(h, f) PROVE StackInv'
  <2>1. UNCHANGED <<list, enabled, frames, acts, walk>>
    BY <1>3 DEF Relink
  <2> QED
    BY <1>0, <2>1 DEF StackInv
<1>4. ASSUME NEW t \in Thread, NEW h \in Hub,
             CallFromApp(t, h) \/ CallFromProxy(t, h) \/ CallFromOriginal(t, h) \/ TailJump(t, h)
      PROVE  StackInv'
  BY <1>0, <1>4, CallStack
<1>5. ASSUME NEW t \in Thread, ReadHead(t) \/ PassOver(t) \/ Push(t) \/ PushNothing(t)
      PROVE  StackInv'
  BY <1>0, <1>5, ReadHeadStack, PassOverStack, PushStack, PushNothingStack
<1>6. ASSUME NEW t \in Thread, CallPrev(t) \/ Prev(t)
      PROVE  StackInv'
  BY <1>0, <1>6, CallPrevStack, PrevStack
<1>7. ASSUME NEW t \in Thread, NEW allowed \in BOOLEAN, SetReentrant(t, allowed)
      PROVE  StackInv'
  BY <1>0, <1>7, SetReentrantStack
<1>8. ASSUME NEW t \in Thread, ReturnFromProxy(t) \/ ReturnFromOriginal(t)
      PROVE  StackInv'
  BY <1>0, <1>8, ReturnFromProxyStack, ReturnFromOriginalStack
<1> QED
  BY <1>1, <1>2, <1>3, <1>4, <1>5, <1>6, <1>7, <1>8 DEF Next

LEMMA StackInvariant ==
  ASSUME JumpsEnd
  PROVE  Spec => []StackInv
<1>1. Init => StackInv
  BY StackInit
<1>2. StackInv /\ [Next]_vars => StackInv'
  BY StackNext
<1> QED
  BY <1>1, <1>2, PTL DEF Spec

\* sh_hub_pop_stack: the frames of a thread are those of the first proxies it is in, in
\* their order.  Every return pops its own frame and no other, if the tail jumps of the
\* hooked functions do not lead back to where they began.
THEOREM FramesMatchHolds ==
  ASSUME JumpsEnd
  PROVE  Spec => []FramesMatch
<1>1. ASSUME StackInv, NEW t \in Thread
      PROVE  \E at \in [DOMAIN frames[t] -> Firsts(t)] :
               /\ Firsts(t) = {at[n] : n \in DOMAIN frames[t]}
               /\ \A n \in DOMAIN frames[t] : \A l \in 1 .. n - 1 : at[l] < at[n]
               /\ \A n \in DOMAIN frames[t] :
                    frames[t][n].hub = acts[t][at[n]].hub /\ frames[t][n].ret = acts[t][at[n]].ret
  <2>1. PICK at : Marks(frames[t], acts[t], at)
    BY <1>1, StackOf DEF Fits
  <2>2. at \in [DOMAIN frames[t] -> Firsts(t)]
    BY <2>1 DEF Marks, Firsts
  <2>3. Firsts(t) = {at[n] : n \in DOMAIN frames[t]}
    BY <2>1, <2>2 DEF Marks, Firsts
  <2> QED
    BY <2>1, <2>2, <2>3 DEF Marks
<1>2. StackInv => FramesMatch
  BY <1>1, Zenon DEF FramesMatch
<1> QED
  BY <1>2, StackInvariant, PTL

\* The chain of a thread is what it runs since the newest frame was pushed.
LEMMA ChainIs ==
  ASSUME NEW t, frames[t] \in Seq(Frame), acts[t] \in Seq(Act), NEW at, Fits(frames[t], acts[t], at),
         frames[t] # <<>>, NEW k, k = at[Len(frames[t])], NEW m, m = Len(acts[t])
  PROVE  /\ k \in 1 .. m /\ m \in Nat /\ DOMAIN Chain(t) = 1 .. m - k + 1
         /\ \A i \in 1 .. m - k + 1 : Chain(t)[i] = acts[t][k + i - 1]
<1> DEFINE F == frames[t]
           A == acts[t]
           start == CHOOSE i \in DOMAIN A : A[i].first /\ \A j \in i + 1 .. Len(A) : ~A[j].first
<1>1. /\ m \in Nat /\ DOMAIN A = 1 .. m /\ Len(F) \in DOMAIN F /\ DOMAIN F = 1 .. Len(F) /\ Len(F) \in Nat
  BY LastIn, LenProperties
<1>2. k \in DOMAIN A /\ A[k].first
  BY <1>1 DEF Fits, Marks
<1>3. ASSUME NEW j \in DOMAIN A, A[j].first
      PROVE  j <= k
  <2>1. PICK n \in DOMAIN F : at[n] = j
    BY <1>3 DEF Fits, Marks
  <2>2. n = Len(F) \/ n \in 1 .. Len(F) - 1
    BY <1>1
  <2>3. n \in 1 .. Len(F) - 1 => at[n] < k
    BY <1>1 DEF Fits, Marks
  <2> QED
    BY <1>1, <1>2, <2>1, <2>2, <2>3
<1>4. \A j \in k + 1 .. m : ~A[j].first
  BY <1>1, <1>2, <1>3
<1>5. start \in DOMAIN A /\ A[start].first /\ \A j \in start + 1 .. Len(A) : ~A[j].first
  BY <1>2, <1>4
<1>6. start = k
  <2> HIDE DEF start
  <2>1. ~(start < k)
    BY <1>1, <1>2, <1>5
  <2>2. start <= k
    BY <1>3, <1>5
  <2> QED
    BY <1>1, <1>2, <1>5, <2>1, <2>2
<1>7. Chain(t) = SubSeq(A, k, m)
  BY <1>6 DEF Chain
<1> HIDE DEF A, F, start
<1>8. /\ Len(SubSeq(A, k, m)) = m - k + 1 /\ DOMAIN SubSeq(A, k, m) = 1 .. m - k + 1
      /\ \A i \in 1 .. m - k + 1 : SubSeq(A, k, m)[i] = A[k + i - 1]
  <2>1. k \in Int /\ m \in Int /\ k <= m /\ A \in Seq(Act) /\ m = Len(A)
    BY <1>1, <1>2 DEF A
  <2>2. \A i \in k .. m : A[i] \in Act
    BY <1>1, <1>2, <2>1, ElementOfSeq
  <2>3. /\ SubSeq(A, k, m) \in Seq(Act)
        /\ Len(SubSeq(A, k, m)) = IF k <= m THEN m - k + 1 ELSE 0
        /\ \A i \in 1 .. m - k + 1 : SubSeq(A, k, m)[i] = A[k + i - 1]
    BY <2>1, <2>2, SubSeqProperties
  <2>4. Len(SubSeq(A, k, m)) = m - k + 1
    BY <2>1, <2>3
  <2> QED
    BY <2>3, <2>4, LenProperties
<1> QED
  BY <1>1, <1>2, <1>7, <1>8 DEF A

\* The activations in the newest frame.
LEMMA ChainFrom ==
  ASSUME NEW t, frames[t] \in Seq(Frame), acts[t] \in Seq(Act), NEW at, Fits(frames[t], acts[t], at),
         frames[t] # <<>>, NEW x \in Ran(t), x \in Proxy
  PROVE  \E i \in DOMAIN acts[t] : acts[t][i].who = x /\ InFrame(frames[t], acts[t], at, Len(frames[t]), i)
<1> DEFINE m == Len(acts[t])
           k == at[Len(frames[t])]
<1>1. /\ k \in 1 .. m /\ m \in Nat /\ DOMAIN Chain(t) = 1 .. m - k + 1
      /\ \A i \in 1 .. m - k + 1 : Chain(t)[i] = acts[t][k + i - 1]
  BY ChainIs
<1>2. DOMAIN acts[t] = 1 .. m /\ Len(frames[t]) \in Nat
  BY LenProperties
<1> HIDE DEF m, k
<1>3. PICK i \in 1 .. m - k + 1 : Chain(t)[i].who = x
  BY <1>1 DEF Ran
<1>4. k + i - 1 \in DOMAIN acts[t] /\ k <= k + i - 1 /\ acts[t][k + i - 1].who = x
  BY <1>1, <1>2, <1>3
<1>5. \A l \in Len(frames[t]) + 1 .. Len(frames[t]) : k + i - 1 < at[l]
  BY <1>2
<1> QED
  BY <1>4, <1>5 DEF InFrame, k

\* sh_hub_get_prev_func: what is yet to run in a call has not run in it, however often the
\* proxies were deleted and added again meanwhile.
THEOREM EachOnceHolds ==
  ASSUME JumpsEnd
  PROVE  Spec => []EachOnce
<1>1. ASSUME StackInv, NEW t \in Thread, walk[t].mode = "prev", walk[t].rest # <<>>,
             NEW x \in ToSet(walk[t].rest), x \in Ran(t)
      PROVE  FALSE
  <2> DEFINE F == frames[t]
             A == acts[t]
             s == Last(F).all
             rest == walk[t].rest
  <2>1. walk[t] \in PrevWalk /\ F # <<>> /\ A # <<>> /\ Last(A).who \in Proxy
    BY <1>1, StackOf, Kinds DEF HubInv, InProxy, Top
  <2>2. F \in Seq(Frame) /\ A \in Seq(Act) /\ WalkFits(F, A, walk[t])
    BY <1>1, StackOf
  <2>3. PICK at : Fits(F, A, at)
    BY <1>1, StackOf
  <2>4. /\ InFrame(F, A, at, Len(F), Len(A)) /\ Len(F) \in DOMAIN F /\ Len(A) \in DOMAIN A
        /\ \E q \in DOMAIN s : s[q] = Last(A).who
    BY <2>1, <2>2, <2>3, TopInFrame
  <2>5. Last(F) \in Frame /\ Last(F) = F[Len(F)] /\ Last(A) = A[Len(A)]
    BY <2>1, <2>2, LastIn
  <2>6. s \in Seq(Proxy) /\ rest \in Seq(Proxy)
    BY <2>1, <2>5 DEF Frame, PrevWalk
  <2>7. Ends(rest, s) /\ \A k \in DOMAIN s : s[k] = Last(A).who => k + Len(rest) <= Len(s)
    BY <1>1, <2>2 DEF WalkFits
  <2>8. /\ Len(s) \in Nat /\ DOMAIN s = 1 .. Len(s)
        /\ Len(rest) \in Nat /\ DOMAIN rest = 1 .. Len(rest)
    BY <2>6, LenProperties
  <2>9. PICK j \in DOMAIN rest : rest[j] = x
    BY <1>1 DEF ToSet
  <2>10. x \in Proxy
    BY <2>6, <2>8, <2>9, ElementOfSeq
  <2>11. PICK i \in DOMAIN A : A[i].who = x /\ InFrame(F, A, at, Len(F), i)
    BY <1>1, <2>1, <2>2, <2>3, <2>10, ChainFrom
  <2>12. PICK q \in DOMAIN s : s[q] = Last(A).who
    BY <2>4
  <2> HIDE DEF F, A, s, rest
  <2> DEFINE k == Len(s) - Len(rest) + j
  <2>13. k \in DOMAIN s /\ s[k] = x
    BY <2>7, <2>8, <2>9 DEF Ends
  <2>14. ~(k + Len(rest) <= Len(s))
    BY <2>8, <2>9
  <2>15. i # Len(A)
    BY <2>5, <2>7, <2>11, <2>13, <2>14
  <2>16. i < Len(A)
    BY <2>2, <2>15, LenProperties
  <2>17. \A a, b \in DOMAIN F[Len(F)].all :
           F[Len(F)].all[a] = A[i].who /\ F[Len(F)].all[b] = A[Len(A)].who => a < b
    BY <2>3, <2>4, <2>11, <2>16, Zenon DEF Fits, InOrder
  <2>18. k < q
    BY <2>5, <2>11, <2>12, <2>13, <2>17 DEF s
  <2>19. q + Len(rest) <= Len(s)
    BY <2>7, <2>12
  <2> QED
    BY <2>8, <2>12, <2>13, <2>14, <2>18, <2>19
<1>2. StackInv => EachOnce
  BY <1>1 DEF EachOnce
<1> QED
  BY <1>2, StackInvariant, PTL

LEMMA FrameRan ==
  ASSUME NEW t, frames[t] \in Seq(Frame), acts[t] \in Seq(Act), NEW at, Fits(frames[t], acts[t], at),
         frames[t] # <<>>, NEW p, RanIn(frames[t], acts[t], at, Len(frames[t]), p)
  PROVE  p \in Ran(t)
<1> DEFINE k == at[Len(frames[t])]
           m == Len(acts[t])
<1>1. /\ k \in 1 .. m /\ m \in Nat /\ DOMAIN Chain(t) = 1 .. m - k + 1
      /\ \A i \in 1 .. m - k + 1 : Chain(t)[i] = acts[t][k + i - 1]
  BY ChainIs
<1>2. PICK i \in DOMAIN acts[t] : InFrame(frames[t], acts[t], at, Len(frames[t]), i) /\ acts[t][i].who = p
  BY DEF RanIn
<1>3. i \in 1 .. m /\ k <= i
  BY <1>2, LenProperties DEF InFrame
<1> HIDE DEF k, m
<1>4. i - k + 1 \in 1 .. m - k + 1 /\ k + (i - k + 1) - 1 = i
  BY <1>1, <1>3
<1>5. i - k + 1 \in DOMAIN Chain(t) /\ Chain(t)[i - k + 1].who = p
  BY <1>1, <1>2, <1>4
<1> QED
  BY <1>5 DEF Ran

\* Only a walk that ends and does not push runs the original function.
LEMMA WalkRuns ==
  ASSUME HubInv, [Next]_vars, NEW t \in Thread, walk[t].mode # "none", acts'[t] # acts[t]
  PROVE  Push(t) \/ PushNothing(t) \/ Prev(t)
<1>1. acts \in [Thread -> Seq(Act)]
  BY DEF HubInv, HubTypeOK, Act
<1>2. ASSUME NEW u \in Thread, NEW ac, acts' = [acts EXCEPT ![u] = ac]
      PROVE  u = t
  BY <1>1, <1>2
<1>3. ASSUME NEW u \in Thread, NEW h \in Hub, NEW r, NEW under, Enter(u, h, r, under)
      PROVE  u = t
  BY <1>2, <1>3, Zenon DEF Enter
<1>4. ASSUME NEW u \in Thread, NEW h \in Hub,
             CallFromApp(u, h) \/ CallFromProxy(u, h) \/ CallFromOriginal(u, h) \/ TailJump(u, h)
      PROVE  FALSE
  <2>1. walk[u].mode = "none"
    BY <1>4 DEF CallFromApp, CallFromProxy, CallFromOriginal, TailJump, Runs
  <2>2. u = t
    BY <1>3, <1>4 DEF CallFromApp, CallFromProxy, CallFromOriginal, TailJump
  <2> QED
    BY <2>1, <2>2
<1>5. ASSUME NEW u \in Thread, ReturnFromProxy(u) \/ ReturnFromOriginal(u)
      PROVE  FALSE
  <2>1. walk[u].mode = "none"
    BY <1>5 DEF ReturnFromProxy, ReturnFromOriginal, Runs
  <2>2. acts' = [acts EXCEPT ![u] = Front(acts[u])]
    BY <1>1, <1>5 DEF ReturnFromProxy, ReturnFromOriginal
  <2> QED
    BY <1>2, <2>1, <2>2
<1>6. ASSUME NEW u \in Thread, Push(u) \/ PushNothing(u) \/ Prev(u)
      PROVE  u = t
  <2>1. \E h, who, r, first : Run(u, h, who, r, first)
    <3>1. CASE Push(u)
      BY <3>1, Zenon DEF Push
    <3>2. CASE PushNothing(u)
      BY <3>2, Zenon DEF PushNothing
    <3>3. CASE Prev(u)
      BY <3>3, Zenon DEF Prev
    <3> QED
      BY <1>6, <3>1, <3>2, <3>3
  <2>2. PICK h, who, r, first : Run(u, h, who, r, first)
    BY <2>1
  <2>3. acts' = [acts EXCEPT ![u] = Append(acts[u], Call(h, who, r, first))]
    BY <1>1, <2>2 DEF Run
  <2> QED
    BY <1>2, <2>3
<1>7. ~UNCHANGED acts
  OBVIOUS
<1>8. ASSUME NEW u \in Thread, NEW allowed \in BOOLEAN,
             ReadHead(u) \/ PassOver(u) \/ CallPrev(u) \/ SetReentrant(u, allowed)
      PROVE  FALSE
  BY <1>7, <1>8 DEF ReadHead, PassOver, CallPrev, SetReentrant
<1>9. ASSUME NEW p \in Proxy, Add(p) \/ Del(p)
      PROVE  FALSE
  BY <1>7, <1>9 DEF Add, Del
<1>10. ASSUME NEW h \in Hub, NEW f \in MayFollow(h), Relink(h, f)
       PROVE  FALSE
  BY <1>7, <1>10 DEF Relink
<1>11. Next
  BY <1>7 DEF vars
<1>12. TRUE \in BOOLEAN
  OBVIOUS
<1> QED
  BY <1>4, <1>5, <1>6, <1>8, <1>9, <1>10, <1>11, <1>12 DEF Next

\* sh_hub_push_stack, sh_hub_get_prev_func: when a call gets to the original function, every
\* proxy that was enabled before the call and stayed so has run, or the stack was full,
\* however the other threads add and delete proxies meanwhile.
THEOREM AllRunHolds ==
  ASSUME JumpsEnd
  PROVE  Spec => AllRun
<1>1. ASSUME StackInv, [Next]_vars, NEW t \in Thread, walk[t].mode # "none", acts'[t] # acts[t],
             Last(acts'[t]).who = ORIG
      PROVE  /\ walk[t].mode = "push" => walk[t].steady = {} \/ Len(frames[t]) = FrameMax
             /\ walk[t].mode = "prev" => TopFrame(t).steady \subseteq Ran(t)
  <2>0. /\ HubInv /\ acts[t] \in Seq(Act) /\ frames[t] \in Seq(Frame) /\ walk[t] \in Walk
        /\ WalkFits(frames[t], acts[t], walk[t]) /\ ORIG \notin Proxy
    BY <1>1, StackOf, HubAssumption
  <2>1. ASSUME NEW h, NEW who, NEW r, NEW first, Run(t, h, who, r, first), who \in Proxy
        PROVE  FALSE
    <3> DEFINE c == Call(h, who, r, first)
    <3>1. c.who = who
      BY DEF Call
    <3> HIDE DEF c
    <3>2. acts'[t] = Append(acts[t], c) /\ acts \in [Thread -> Seq(Act)]
      BY <2>0, <2>1 DEF Run, HubInv, HubTypeOK, Act, c
    <3>3. Last(Append(acts[t], c)) = c
      <4> DEFINE S == Act \cup {c}
      <4>1. acts[t] \in Seq(S) /\ c \in S
        BY <2>0, SeqMonotonic
      <4> HIDE DEF S
      <4> QED
        BY <4>1, AppendIn DEF Last
    <3> QED
      BY <1>1, <2>0, <2>1, <3>1, <3>2, <3>3
  <2>2. CASE Push(t)
    <3>1. walk[t] \in PushWalk /\ walk[t].mode = "push" /\ walk[t].rest # <<>>
      BY <2>0, <2>2, Kinds DEF Push
    <3>2. Head(walk[t].rest) \in Proxy
      BY <3>1, TailIn DEF PushWalk
    <3>3. Len(frames[t]) >= FrameMax
      BY <2>1, <2>2, <3>2, Zenon DEF Push
    <3>4. Len(frames[t]) <= FrameMax /\ Len(frames[t]) \in Nat /\ FrameMax \in Nat
      BY <2>0, LenProperties, HubAssumption DEF HubInv, HubTypeOK
    <3> QED
      BY <3>1, <3>3, <3>4
  <2>3. CASE PushNothing(t)
    <3>1. walk[t].mode = "push" /\ walk[t].rest = <<>>
      BY <2>3 DEF PushNothing
    <3>2. walk[t].steady = {}
      BY <2>0, <3>1 DEF WalkFits
    <3> QED
      BY <3>1, <3>2
  <2>4. CASE Prev(t)
    <3>1. walk[t] \in PrevWalk /\ walk[t].mode = "prev" /\ frames[t] # <<>> /\ acts[t] # <<>> /\ Top(t).who \in Proxy
      BY <2>0, <2>4, Kinds DEF Prev, HubInv, InProxy
    <3>2. walk[t].rest = <<>>
      <4> SUFFICES ASSUME walk[t].rest # <<>> PROVE FALSE
        OBVIOUS
      <4>1. Head(walk[t].rest) \in Proxy
        BY <3>1, TailIn DEF PrevWalk
      <4>2. Run(t, TopFrame(t).hub, Head(walk[t].rest), <<Top(t).who, PREV>>, FALSE)
        BY <2>4 DEF Prev
      <4> QED
        BY <2>1, <4>1, <4>2
    <3>3. PICK at : Fits(frames[t], acts[t], at)
      BY <1>1, StackOf
    <3>4. /\ InFrame(frames[t], acts[t], at, Len(frames[t]), Len(acts[t])) /\ Len(frames[t]) \in DOMAIN frames[t]
          /\ Len(acts[t]) \in DOMAIN acts[t]
          /\ \E k \in DOMAIN Last(frames[t]).all : Last(frames[t]).all[k] = Last(acts[t]).who
      BY <2>0, <3>1, <3>3, TopInFrame DEF Top
    <3>5. Last(frames[t]) = frames[t][Len(frames[t])] /\ Last(acts[t]) = acts[t][Len(acts[t])] /\ Last(frames[t]) \in Frame
      BY <2>0, <3>1, LastIn
    <3>6. ASSUME NEW p \in TopFrame(t).steady
          PROVE  p \in Ran(t)
      <4> DEFINE F == frames[t]
                 A == acts[t]
                 s == Last(F).all
      <4> SUFFICES ASSUME ~RanIn(F, A, at, Len(F), p)
                   PROVE  FALSE
        BY <2>0, <3>1, <3>3, FrameRan
      <4>1. p \in Last(F).steady
        BY DEF TopFrame
      <4>2. PICK k \in DOMAIN s : s[k] = p /\ Ahead(F, A, at, Len(F), k)
        BY <3>3, <3>4, <3>5, <4>1 DEF Fits, Kept
      <4>3. \A l \in DOMAIN s : s[l] = Last(A).who => l < k
        BY <3>4, <3>5, <4>2 DEF Ahead
      <4>4. \A j \in DOMAIN s : s[j] \in Last(F).steady =>
              j + Len(walk[t].rest) > Len(s) \/ \E l \in DOMAIN s : s[l] = Last(A).who /\ j <= l
        BY <2>0, <3>1 DEF WalkFits
      <4>5. Len(s) \in Nat /\ DOMAIN s = 1 .. Len(s) /\ Len(walk[t].rest) = 0
        <5>1. s \in Seq(Proxy)
          BY <3>5 DEF Frame
        <5> QED
          BY <3>2, <5>1, LenProperties, EmptySeq
      <4> HIDE DEF F, A, s
      <4>6. k + 0 > Len(s)
        BY <4>1, <4>2, <4>3, <4>4, <4>5
      <4> QED
        BY <4>2, <4>5, <4>6
    <3> QED
      BY <3>1, <3>6
  <2> QED
    BY <1>1, <2>0, <2>2, <2>3, <2>4, WalkRuns
<1>2. StackInv /\ [Next]_vars =>
        [\A t \in Thread :
           walk[t].mode # "none" /\ acts'[t] # acts[t] /\ Last(acts'[t]).who = ORIG =>
             CASE walk[t].mode = "push" -> walk[t].steady = {} \/ Len(frames[t]) = FrameMax
               [] walk[t].mode = "prev" -> TopFrame(t).steady \subseteq Ran(t)
               [] OTHER -> TRUE]_vars
  <2> SUFFICES ASSUME StackInv, [Next]_vars, NEW t \in Thread,
                      walk[t].mode # "none", acts'[t] # acts[t], Last(acts'[t]).who = ORIG
               PROVE  CASE walk[t].mode = "push" -> walk[t].steady = {} \/ Len(frames[t]) = FrameMax
                        [] walk[t].mode = "prev" -> TopFrame(t).steady \subseteq Ran(t)
                        [] OTHER -> TRUE
    OBVIOUS
  <2> QED
    BY <1>1
<1> QED
  BY <1>2, StackInvariant, PTL DEF Spec, AllRun
=============================================================================
