--------------------------- MODULE ShChainProofs ---------------------------
(***************************************************************************)
(* What the operations of sh_switch.c do to the contents of one switch,    *)
(* for any proxies and interceptors: the queue stays a list without        *)
(* repetitions that *orig_addr follows to the original code, and a call    *)
(* that enters at the start address visits exactly that list.              *)
(***************************************************************************)
EXTENDS ShSwitch, SequenceTheorems, FiniteSetTheorems, WellFoundedInduction, TLAPS

Switch ==
  [mode : {"none", "unique", "queue"}, start : Node \cup {NULL, GLUE}, proxy : Node \cup {NULL},
   queue : Seq(Node), orig : [Node -> Node \cup {NULL, RESUME}], hub : SUBSET Proxy, glue : BOOLEAN,
   icept : SUBSET Icept, isize : Nat, addr : Key \cup {NULL}]

\* Each node once, its *orig_addr is the next one, the last one's the original code.
Linear(q, orig) ==
  /\ \A i, j \in 1 .. Len(q) : q[i] = q[j] => i = j
  /\ \A i \in 1 .. Len(q) - 1 : orig[q[i]] = q[i + 1]
  /\ q # <<>> => orig[q[Len(q)]] = RESUME

\* The queue is such a list, and the target's proxy its head.
Queued(s) ==
  /\ Linear(s.queue, s.orig)
  /\ s.queue # <<>> => s.proxy = s.queue[1] /\ s.mode = "queue"

\* A proxy without a queue is a unique hook's.
Alone(s) ==
  s.queue = <<>> /\ s.proxy # NULL =>
    s.mode = "unique" /\ s.proxy \in Proxy /\ s.orig[s.proxy] = RESUME

\* The hub is a node of the queue as long as it has proxies, and no proxy is in both.
Hubbed(s) == /\ s.hub # {} => Contains(s.queue, HUB)
             /\ \A p \in s.hub : ~Contains(s.queue, p)

\* Where the target jumps to, and how many interceptors there are.
Started(s) ==
  /\ s.start \in {NULL, GLUE, s.proxy}
  /\ s.start = NULL => s.proxy = NULL
  /\ s.icept # {} => s.start = GLUE
  /\ IsFiniteSet(s.icept) /\ s.isize = Cardinality(s.icept)

Whole(s) == Queued(s) /\ Alone(s) /\ Hubbed(s) /\ Started(s)

\* What a stub stands for is in the switch.
In(st, s) ==
  /\ st.kind = "unique" => s.mode = "unique" /\ s.proxy = st.who
  /\ st.kind = "multi" => Contains(s.queue, st.who)
  /\ st.kind = "shared" => st.who \in s.hub
  /\ st.kind = "intercept" => st.who \in s.icept

\* A hook or interception, by its kind and its function, whatever its target.
AnyStub == [key : Key, kind : {"unique", "multi", "shared", "intercept"}, who : Proxy \cup Icept]
Proper(st) == st.who \in Icept <=> st.kind = "intercept"
Queueing(c) == c \in AnyStub /\ c.kind \in {"multi", "shared"} /\ c.who \in Proxy
Alike(st, c) == st.kind = c.kind /\ st.who = c.who

\* What a handler makes of a switch s: it takes c in, hands c back, or neither.
Good(s, r) == r \in Switch /\ Whole(r) /\ r.addr = s.addr /\ r.start # NULL
Gains(s, r, c) == ~In(c, s) /\ \A st \in AnyStub : In(st, r) <=> In(st, s) \/ Alike(st, c)
Loses(s, r, c) == \A st \in AnyStub : In(st, r) <=> In(st, s) /\ ~Alike(st, c)
Stays(s, r)    == \A st \in AnyStub : In(st, r) <=> In(st, s)
Nobody(r)      == \A st \in AnyStub : ~In(st, r)

-----------------------------------------------------------------------------
(* The chain.                                                              *)

\* A set of numbers has a least element.
LEMMA LeastNumber ==
  ASSUME NEW T, T \subseteq Nat, T # {}
  PROVE  \E n \in T : \A k \in T : n <= k
<1> DEFINE R == OpToRel(<, Nat)
<1>1. IsWellFoundedOn(R, Nat)
  BY NatLessThanWellFounded, Zenon
<1>2. PICK n \in T : \A k \in T : <<k, n>> \notin R
  <2> HIDE DEF R
  <2> QED
    BY <1>1, WFMin
<1>3. \A k \in Nat : k < n => <<k, n>> \in R
  BY DEF OpToRel
<1>4. \A k \in T : ~(k < n)
  BY <1>2, <1>3
<1> HIDE DEF R
<1>5. \A k \in T : n <= k
  BY <1>4
<1> QED
  BY <1>5

\* What Chain computes: any path along *orig_addr that ends outside of the nodes and is not too long.
LEMMA ChainIs ==
  ASSUME NEW s, NEW to, NEW S, NEW w \in Seq(S), w # <<>>, w[1] = First(s, to),
         \A i \in 1 .. Len(w) - 1 : w[i] \in Node /\ s.orig[w[i]] = w[i + 1],
         w[Len(w)] \notin Node,
         Cardinality(Node) \in Nat, Len(w) <= Cardinality(Node) + 2
  PROVE  Chain(s, to) = w
<1> DEFINE L == Len(w)
           m(n) == IF n + 1 <= L THEN n + 1 ELSE L
           f == [n \in Nat |-> SubSeq(w, 1, m(n))]
           E(h) == [n \in Nat |-> IF n = 0 THEN <<First(s, to)>> ELSE Further(s, h[n - 1])]
           g == CHOOSE h : h = E(h)
<1>1. L \in Nat /\ L >= 1 /\ \A i \in 1 .. L : w[i] \in S
  BY EmptySeq, ElementOfSeq
<1>2. \A k \in 1 .. L : /\ SubSeq(w, 1, k) \in Seq(S) /\ Len(SubSeq(w, 1, k)) = k
                        /\ \A i \in 1 .. k : SubSeq(w, 1, k)[i] = w[i]
  <2> TAKE k \in 1 .. L
  <2>1. k \in Int /\ \A i \in 1 .. k : w[i] \in S
    BY <1>1
  <2> HIDE DEF L
  <2>2. /\ SubSeq(w, 1, k) \in Seq(S)
        /\ Len(SubSeq(w, 1, k)) = IF 1 <= k THEN k - 1 + 1 ELSE 0
        /\ \A i \in 1 .. k - 1 + 1 : SubSeq(w, 1, k)[i] = w[1 + i - 1]
    BY <2>1, SubSeqProperties
  <2> QED
    BY <2>1, <2>2, <1>1
<1>3. <<First(s, to)>> = SubSeq(w, 1, 1)
  <2>1. SubSeq(w, 1, 1) \in Seq(S) /\ Len(SubSeq(w, 1, 1)) = 1 /\ SubSeq(w, 1, 1)[1] = w[1]
    BY <1>1, <1>2
  <2> QED
    BY <2>1
<1>4. \A k \in 1 .. L - 1 : Further(s, SubSeq(w, 1, k)) = SubSeq(w, 1, k + 1)
  <2> SUFFICES ASSUME NEW k \in 1 .. L - 1
               PROVE  Further(s, SubSeq(w, 1, k)) = SubSeq(w, 1, k + 1)
    OBVIOUS
  <2>1. k \in 1 .. L /\ k + 1 \in 1 .. L
    BY <1>1
  <2> DEFINE a == SubSeq(w, 1, k)
             b == SubSeq(w, 1, k + 1)
  <2>2. /\ a \in Seq(S) /\ Len(a) = k /\ \A i \in 1 .. k : a[i] = w[i]
        /\ b \in Seq(S) /\ Len(b) = k + 1 /\ \A i \in 1 .. k + 1 : b[i] = w[i]
    BY <1>2, <2>1
  <2> HIDE DEF a, b
  <2>3. Last(a) = w[k] /\ w[k] \in Node /\ s.orig[w[k]] = w[k + 1] /\ w[k + 1] \in S
    BY <2>1, <2>2, <1>1 DEF Last
  <2>4. Further(s, a) = Append(a, w[k + 1])
    BY <2>3 DEF Further
  <2>5. Append(a, w[k + 1]) = b
    <3> DEFINE e == w[k + 1]
               c == Append(a, e)
    <3>0. e \in S /\ e = b[k + 1]
      BY <2>2, <2>3, <2>1
    <3>1. /\ c \in Seq(S) /\ Len(c) = k + 1 /\ c[k + 1] = e
          /\ \A i \in 1 .. k : c[i] = a[i]
      <4> HIDE DEF e
      <4>1. c \in Seq(S) /\ Len(c) = Len(a) + 1
        BY <3>0, <2>2, AppendProperties
      <4>2. \A i \in 1 .. Len(a) : c[i] = a[i]
        BY <3>0, <2>2, AppendProperties
      <4>3. c[Len(a) + 1] = e
        BY <3>0, <2>2, AppendProperties
      <4> QED
        BY <4>1, <4>2, <4>3, <2>2, Zenon
    <3>2. \A i \in 1 .. k + 1 : c[i] = b[i]
      <4> TAKE i \in 1 .. k + 1
      <4>1. i \in 1 .. k \/ i = k + 1
        BY <2>1
      <4> QED
        BY <4>1, <3>1, <2>2
    <3> HIDE DEF c
    <3> QED
      BY <3>1, <3>2, <2>2, SeqEqual
  <2> QED
    BY <2>4, <2>5 DEF a, b
<1>5. SubSeq(w, 1, L) = w /\ Further(s, w) = w
  BY <1>1, SubSeqFull DEF Further, Last
<1>6. \A n \in Nat : f[n] = IF n = 0 THEN <<First(s, to)>> ELSE Further(s, f[n - 1])
  <2> TAKE n \in Nat
  <2> HIDE DEF L
  <2>1. CASE n = 0
    <3>1. m(0) = 1
      BY <1>1
    <3> HIDE DEF m
    <3>2. f[0] = SubSeq(w, 1, 1)
      BY <3>1, Zenon
    <3> HIDE DEF f
    <3> QED
      BY <2>1, <3>2, <1>3, Zenon
  <2>2. CASE n # 0
    <3>0. n - 1 \in Nat
      BY <2>2
    <3>1. f[n - 1] = SubSeq(w, 1, m(n - 1)) /\ f[n] = SubSeq(w, 1, m(n))
      <4> HIDE DEF m
      <4> QED
        BY <3>0, Zenon
    <3>2. CASE n < L
      <4>1. m(n - 1) = n /\ m(n) = n + 1 /\ n \in 1 .. L - 1
        BY <2>2, <3>2, <1>1
      <4> HIDE DEF f, m
      <4>2. f[n] = Further(s, f[n - 1])
        BY <3>1, <4>1, <1>4
      <4> QED
        BY <4>2, <2>2
    <3>3. CASE ~(n < L)
      <4>1. m(n - 1) = L /\ m(n) = L
        BY <2>2, <3>3, <1>1
      <4> HIDE DEF f, m
      <4>2. f[n] = Further(s, f[n - 1])
        BY <3>1, <4>1, <1>5
      <4> QED
        BY <4>2, <2>2
    <3> QED
      BY <3>2, <3>3
  <2> QED
    BY <2>1, <2>2
<1>7. f = E(f)
  <2> HIDE DEF L, m
  <2>1. f = [n \in Nat |-> f[n]]
    BY Zenon
  <2> HIDE DEF f
  <2>2. [n \in Nat |-> f[n]] = E(f)
    BY <1>6, Zenon
  <2> QED
    BY <2>1, <2>2, Zenon
<1>8. g = E(g)
  <2> HIDE DEF f, E
  <2> QED
    BY <1>7, Zenon
<1>9. \A n \in Nat : g[n] = IF n = 0 THEN <<First(s, to)>> ELSE Further(s, g[n - 1])
  <2> HIDE DEF g
  <2> QED
    BY <1>8, Zenon
<1>10. \A n \in Nat : g[n] = f[n]
  <2> HIDE DEF g, f, E, L
  <2> SUFFICES ASSUME \E n \in Nat : g[n] # f[n] PROVE FALSE
    BY Zenon
  <2> DEFINE T == {n \in Nat : g[n] # f[n]}
  <2>1. T \subseteq Nat /\ T # {}
    BY Zenon
  <2>2. PICK n \in T : \A j \in T : n <= j
    <3> HIDE DEF T
    <3> QED
      BY <2>1, LeastNumber, Zenon
  <2>3. n \in Nat /\ g[n] # f[n]
    BY Zenon
  <2>4. \A j \in Nat : g[j] # f[j] => n <= j
    BY <2>2, Zenon
  <2>5. n = 0 => g[n] = f[n]
    BY <1>6, <1>9, <2>3, Zenon
  <2>6. n # 0 => n - 1 \in Nat /\ ~(n <= n - 1)
    BY <2>3
  <2>7. n # 0 => g[n - 1] = f[n - 1]
    BY <2>4, <2>6, Zenon
  <2>8. n # 0 => g[n] = f[n]
    BY <1>6, <1>9, <2>3, <2>7, Zenon
  <2> QED
    BY <2>3, <2>5, <2>8, Zenon
<1>11. Chain(s, to) = g[Cardinality(Node) + 1]
  BY Zenon DEF Chain
<1>12. f[Cardinality(Node) + 1] = w
  <2>1. Cardinality(Node) + 1 \in Nat
    OBVIOUS
  <2>2. m(Cardinality(Node) + 1) = L
    <3> HIDE DEF L
    <3>1. L <= Cardinality(Node) + 2
      BY DEF L
    <3> QED
      BY <3>1, <1>1, <2>1
  <2> HIDE DEF L, m
  <2>3. f[Cardinality(Node) + 1] = SubSeq(w, 1, L)
    BY <2>1, <2>2, Zenon
  <2> HIDE DEF f
  <2> QED
    BY <2>3, <1>5, Zenon
<1> HIDE DEF g, f
<1>13. Cardinality(Node) + 1 \in Nat
  OBVIOUS
<1> QED
  BY <1>10, <1>11, <1>12, <1>13, Zenon

\* A list without repetitions is no longer than there are elements.
LEMMA NoLongerThan ==
  ASSUME NEW S, IsFiniteSet(S), NEW q \in Seq(S), \A i, j \in 1 .. Len(q) : q[i] = q[j] => i = j
  PROVE  Len(q) \in Nat /\ Cardinality(S) \in Nat /\ Len(q) <= Cardinality(S)
<1>1. Len(q) \in Nat /\ q \in [1 .. Len(q) -> S]
  BY LenProperties
<1>2. q \in Injection(1 .. Len(q), S)
  BY <1>1 DEF Injection, IsInjective
<1>3. Cardinality(1 .. Len(q)) <= Cardinality(S)
  BY <1>2, FS_Injection
<1>4. Cardinality(1 .. Len(q)) = Len(q)
  BY <1>1, FS_Interval
<1>5. Cardinality(S) \in Nat
  BY FS_CardinalityType
<1> QED
  BY <1>1, <1>3, <1>4, <1>5

LEMMA NodeFinite == IsFiniteSet(Node) /\ Cardinality(Node) \in Nat
<1>1. IsFiniteSet(Node)
  BY SwitchAssumption, FS_AddElement DEF Node
<1> QED
  BY <1>1, FS_CardinalityType

LEMMA NotNode == /\ NULL \notin Node /\ RESUME \notin Node /\ GLUE \notin Node
                 /\ HUB \in Node /\ HUB \notin Proxy
BY SwitchAssumption DEF Node

\* A call that enters a switch visits its queue in order, or its only proxy, and
\* then runs the original code.
Through(s) == IF s.queue # <<>> THEN Append(s.queue, RESUME)
              ELSE IF s.proxy # NULL THEN <<s.proxy, RESUME>> ELSE <<RESUME>>

LEMMA ChainWhole ==
  ASSUME NEW s \in Switch, Whole(s), s.start # NULL
  PROVE  Chain(s, s.start) = Through(s)
<1> DEFINE S == Node \cup {RESUME}
<1>1. s.queue \in Seq(Node) /\ s.proxy \in Node \cup {NULL} /\ Cardinality(Node) \in Nat
  BY NodeFinite DEF Switch
<1>2. First(s, s.start) = IF s.proxy = NULL THEN RESUME ELSE s.proxy
  BY NotNode DEF Whole, Started, First, Switch
<1>3. CASE s.queue # <<>>
  <2> DEFINE q == s.queue
             w == Append(q, RESUME)
             n == Len(q)
  <2>1. q \in Seq(Node) /\ q \in Seq(S) /\ RESUME \in S /\ n \in Nat /\ n > 0
    <3>1. q \in Seq(S)
      BY <1>1, SeqMonotonic
    <3> QED
      BY <1>1, <1>3, <3>1, EmptySeq
  <2>2. Linear(q, s.orig) /\ s.proxy = q[1]
    BY <1>3 DEF Whole, Queued
  <2>3. n <= Cardinality(Node)
    BY <2>1, <2>2, NodeFinite, NoLongerThan DEF Linear
  <2>4. \A i \in 1 .. n : q[i] \in Node
    BY <1>1, ElementOfSeq
  <2> HIDE DEF q
  <2>5. w \in Seq(S) /\ w # <<>> /\ Len(w) = n + 1 /\ w[n + 1] = RESUME
    BY <2>1, AppendProperties
  <2>6. \A i \in 1 .. n : w[i] = q[i]
    BY <2>1, AppendProperties
  <2> HIDE DEF w
  <2>7. w[1] = First(s, s.start)
    BY <2>6, <2>1, <2>2, <2>4, <1>2, NotNode
  <2>8. \A i \in 1 .. Len(w) - 1 : w[i] \in Node /\ s.orig[w[i]] = w[i + 1]
    <3> SUFFICES ASSUME NEW i \in 1 .. n PROVE w[i] \in Node /\ s.orig[w[i]] = w[i + 1]
      BY <2>5, <2>1
    <3>1. w[i] = q[i] /\ q[i] \in Node
      BY <2>6, <2>4
    <3>2. CASE i = n
      BY <3>1, <3>2, <2>1, <2>2, <2>5, <1>3 DEF Linear, q
    <3>3. CASE i # n
      <4>1. i \in 1 .. n - 1 /\ i + 1 \in 1 .. n
        BY <3>3, <2>1
      <4>2. s.orig[q[i]] = q[i + 1]
        BY <4>1, <2>2 DEF Linear
      <4> QED
        BY <3>1, <4>1, <4>2, <2>6
    <3> QED
      BY <3>2, <3>3
  <2>9. w[Len(w)] \notin Node
    BY <2>5, NotNode
  <2>10. Len(w) <= Cardinality(Node) + 2
    BY <2>5, <2>3, <1>1, <2>1
  <2>11. Chain(s, s.start) = w
    BY <2>5, <2>7, <2>8, <2>9, <2>10, <1>1, ChainIs
  <2> QED
    BY <2>11, <1>3 DEF Through, q, w
<1>4. CASE s.queue = <<>> /\ s.proxy # NULL
  <2> DEFINE w == <<s.proxy, RESUME>>
  <2>1. s.proxy \in Node /\ s.orig[s.proxy] = RESUME
    BY <1>1, <1>4 DEF Whole, Alone
  <2>2. w \in Seq(S) /\ w # <<>> /\ Len(w) = 2 /\ w[1] = s.proxy /\ w[2] = RESUME
    BY <2>1
  <2> HIDE DEF w
  <2>3. w[1] = First(s, s.start)
    BY <2>2, <1>2, <1>4
  <2>4. \A i \in 1 .. Len(w) - 1 : w[i] \in Node /\ s.orig[w[i]] = w[i + 1]
    BY <2>1, <2>2
  <2>5. w[Len(w)] \notin Node /\ Len(w) <= Cardinality(Node) + 2
    BY <2>2, <1>1, NotNode
  <2>6. Chain(s, s.start) = w
    BY <2>2, <2>3, <2>4, <2>5, <1>1, ChainIs
  <2> QED
    BY <2>6, <1>4 DEF Through, w
<1>5. CASE s.queue = <<>> /\ s.proxy = NULL
  <2> DEFINE w == <<RESUME>>
  <2>1. w \in Seq(S) /\ w # <<>> /\ Len(w) = 1 /\ w[1] = RESUME
    OBVIOUS
  <2> HIDE DEF w
  <2>2. w[1] = First(s, s.start)
    BY <2>1, <1>2, <1>5
  <2>3. \A i \in 1 .. Len(w) - 1 : w[i] \in Node /\ s.orig[w[i]] = w[i + 1]
    BY <2>1
  <2>4. w[Len(w)] \notin Node /\ Len(w) <= Cardinality(Node) + 2
    BY <2>1, <1>1, NotNode
  <2>5. Chain(s, s.start) = w
    BY <2>1, <2>2, <2>3, <2>4, <1>1, ChainIs
  <2> QED
    BY <2>5, <1>5 DEF Through, w
<1> QED
  BY <1>3, <1>4, <1>5

\* Such a path ends at the original code, meets nothing twice, and visits the queue's nodes or the
\* only proxy.
LEMMA ThroughIs ==
  ASSUME NEW s \in Switch, Whole(s)
  PROVE  /\ Through(s) # <<>> /\ Last(Through(s)) = RESUME
         /\ \A i, j \in 1 .. Len(Through(s)) : Through(s)[i] = Through(s)[j] => i = j
         /\ \A a \in Node : Contains(Through(s), a) <=> Contains(s.queue, a) \/ (s.queue = <<>> /\ s.proxy = a)
<1>1. s.queue \in Seq(Node) /\ s.proxy \in Node \cup {NULL}
  BY DEF Switch
<1>2. CASE s.queue # <<>>
  <2> DEFINE q == s.queue
             w == Append(q, RESUME)
             n == Len(q)
             S == Node \cup {RESUME}
  <2>1. q \in Seq(S) /\ RESUME \in S /\ n \in Nat /\ n > 0 /\ \A i \in 1 .. n : q[i] \in Node
    <3>1. q \in Seq(S)
      BY <1>1, SeqMonotonic
    <3>2. \A i \in 1 .. n : q[i] \in Node
      BY <1>1, ElementOfSeq
    <3> QED
      BY <1>1, <1>2, <3>1, <3>2, EmptySeq
  <2>2. \A i, j \in 1 .. n : q[i] = q[j] => i = j
    BY DEF Whole, Queued, Linear
  <2> HIDE DEF q
  <2>3. w \in Seq(S) /\ w # <<>> /\ Len(w) = n + 1 /\ w[n + 1] = RESUME
    BY <2>1, AppendProperties
  <2>4. \A i \in 1 .. n : w[i] = q[i]
    BY <2>1, AppendProperties
  <2> HIDE DEF w, n
  <2>5. Last(w) = RESUME
    BY <2>3 DEF Last
  <2>6. \A i, j \in 1 .. Len(w) : w[i] = w[j] => i = j
    BY <2>1, <2>2, <2>3, <2>4, NotNode
  <2>7. ASSUME NEW a \in Node PROVE Contains(w, a) <=> Contains(q, a)
    <3>1. ASSUME NEW i \in 1 .. Len(w), w[i] = a PROVE \E j \in 1 .. n : q[j] = a
      BY <2>1, <2>3, <2>4, <3>1, NotNode
    <3>2. ASSUME NEW i \in 1 .. n, q[i] = a PROVE i \in 1 .. Len(w) /\ w[i] = a
      BY <2>1, <2>3, <2>4, <3>2
    <3> QED
      BY <3>1, <3>2 DEF Contains, n
  <2>8. Through(s) = w
    BY <1>2 DEF Through, w, q
  <2> QED
    BY <1>2, <2>3, <2>5, <2>6, <2>7, <2>8 DEF q
<1>3. CASE s.queue = <<>>
  <2> DEFINE w == IF s.proxy # NULL THEN <<s.proxy, RESUME>> ELSE <<RESUME>>
  <2>1. Through(s) = w
    BY <1>3 DEF Through
  <2>2. \A a : ~Contains(s.queue, a)
    BY <1>3, EmptySeq DEF Contains
  <2>3. CASE s.proxy # NULL
    <3>1. w = <<s.proxy, RESUME>> /\ Len(w) = 2 /\ w[1] = s.proxy /\ w[2] = RESUME /\ s.proxy \in Node
      BY <1>1, <2>3
    <3> HIDE DEF w
    <3> QED
      BY <1>3, <2>1, <2>2, <3>1, NotNode DEF Contains, Last
  <2>4. CASE s.proxy = NULL
    <3>1. w = <<RESUME>> /\ Len(w) = 1 /\ w[1] = RESUME
      BY <2>4
    <3> HIDE DEF w
    <3> QED
      BY <1>3, <2>1, <2>2, <2>4, <3>1, NotNode DEF Contains, Last
  <2> QED
    BY <2>3, <2>4
<1> QED
  BY <1>2, <1>3

-----------------------------------------------------------------------------
(* The queue.                                                              *)

\* A node at the end.
LEMMA LinearAppend ==
  ASSUME NEW q \in Seq(Node), NEW orig \in [Node -> Node \cup {NULL, RESUME}], NEW a \in Node,
         ~Contains(q, a), Linear(q, orig), q # <<>>
  PROVE  Linear(Append(q, a), [orig EXCEPT ![a] = RESUME, ![Last(q)] = a])
<1> DEFINE n == Len(q)
           w == Append(q, a)
           o2 == [orig EXCEPT ![a] = RESUME, ![Last(q)] = a]
<1>1. n \in Nat /\ n > 0 /\ \A i \in 1 .. n : q[i] \in Node
  BY EmptySeq, ElementOfSeq
<1>2. \A i \in 1 .. n : q[i] # a
  BY DEF Contains
<1>3. w # <<>> /\ Len(w) = n + 1 /\ w[n + 1] = a
  BY AppendProperties
<1>4. \A i \in 1 .. n : w[i] = q[i]
  BY AppendProperties
<1>5. Last(q) = q[n] /\ q[n] \in Node /\ q[n] # a
  BY <1>1, <1>2 DEF Last
<1>6. o2[a] = RESUME /\ o2[q[n]] = a /\ \A b \in Node : b # a /\ b # q[n] => o2[b] = orig[b]
  BY <1>5
<1> HIDE DEF w, o2
<1>7. ASSUME NEW i \in 1 .. n + 1, NEW j \in 1 .. n + 1, w[i] = w[j] PROVE i = j
  <2>1. (i \in 1 .. n \/ i = n + 1) /\ (j \in 1 .. n \/ j = n + 1)
    BY <1>1
  <2>2. CASE i \in 1 .. n /\ j \in 1 .. n
    BY <2>2, <1>4, <1>7 DEF Linear
  <2> QED
    BY <2>1, <2>2, <1>7, <1>2, <1>3, <1>4
<1>8. ASSUME NEW i \in 1 .. n PROVE o2[w[i]] = w[i + 1]
  <2>1. CASE i = n
    BY <2>1, <1>1, <1>3, <1>4, <1>6
  <2>2. CASE i # n
    <3>1. i \in 1 .. n - 1 /\ i + 1 \in 1 .. n /\ n \in 1 .. n
      BY <2>2, <1>1
    <3>2. orig[q[i]] = q[i + 1] /\ q[i] # q[n]
      BY <3>1, <2>2 DEF Linear
    <3>3. o2[q[i]] = orig[q[i]]
      BY <3>1, <3>2, <1>1, <1>2, <1>6
    <3> QED
      BY <3>1, <3>2, <3>3, <1>4
  <2> QED
    BY <2>1, <2>2
<1>9. Len(w) = n + 1 /\ Len(w) - 1 = n
  BY <1>3, <1>1
<1>10. Linear(w, o2)
  BY <1>3, <1>6, <1>7, <1>8, <1>9 DEF Linear
<1> QED
  BY <1>10 DEF w, o2

LEMMA LinearOne ==
  ASSUME NEW orig \in [Node -> Node \cup {NULL, RESUME}], NEW a \in Node, orig[a] = RESUME
  PROVE  Linear(<<a>>, orig)
<1> DEFINE w == <<a>>
<1>1. Len(w) = 1 /\ w[1] = a
  OBVIOUS
<1> HIDE DEF w
<1>2. \A i, j \in 1 .. Len(w) : w[i] = w[j] => i = j
  BY <1>1
<1>3. \A i \in 1 .. Len(w) - 1 : orig[w[i]] = w[i + 1]
  BY <1>1
<1>4. Linear(w, orig)
  BY <1>1, <1>2, <1>3 DEF Linear
<1> QED
  BY <1>4 DEF w

\* Pointers of other nodes do not matter.
LEMMA LinearOther ==
  ASSUME NEW q \in Seq(Node), NEW orig, NEW o2, Linear(q, orig), \A i \in 1 .. Len(q) : o2[q[i]] = orig[q[i]]
  PROVE  Linear(q, o2)
<1>1. Len(q) \in Nat /\ (q # <<>> => Len(q) \in 1 .. Len(q))
  BY EmptySeq
<1>2. \A i \in 1 .. Len(q) - 1 : i \in 1 .. Len(q)
  BY <1>1
<1> QED
  BY <1>1, <1>2 DEF Linear

\* A node less.
LEMMA RemoveAtIs ==
  ASSUME NEW q \in Seq(Node), NEW i \in 1 .. Len(q)
  PROVE  /\ RemoveAt(q, i) \in Seq(Node) /\ Len(RemoveAt(q, i)) = Len(q) - 1
         /\ \A j \in 1 .. Len(q) - 1 : RemoveAt(q, i)[j] = IF j < i THEN q[j] ELSE q[j + 1]
<1> DEFINE n == Len(q)
           a == SubSeq(q, 1, i - 1)
           b == SubSeq(q, i + 1, n)
<1>1. n \in Nat /\ \A j \in 1 .. n : q[j] \in Node
  BY ElementOfSeq, LenProperties
<1>2. a \in Seq(Node) /\ Len(a) = i - 1 /\ \A j \in 1 .. i - 1 : a[j] = q[j]
  <2>1. i - 1 \in Int /\ \A j \in 1 .. i - 1 : q[j] \in Node
    BY <1>1
  <2> HIDE DEF n
  <2>2. /\ a \in Seq(Node)
        /\ Len(a) = IF 1 <= i - 1 THEN i - 1 - 1 + 1 ELSE 0
        /\ \A j \in 1 .. i - 1 - 1 + 1 : a[j] = q[1 + j - 1]
    BY <2>1, SubSeqProperties
  <2> QED
    BY <2>2, <1>1
<1>3. b \in Seq(Node) /\ Len(b) = n - i /\ \A j \in 1 .. n - i : b[j] = q[i + j]
  <2>1. i + 1 \in Int /\ n \in Int /\ \A j \in i + 1 .. n : q[j] \in Node
    BY <1>1
  <2> HIDE DEF n
  <2>2. /\ b \in Seq(Node)
        /\ Len(b) = IF i + 1 <= n THEN n - (i + 1) + 1 ELSE 0
        /\ \A j \in 1 .. n - (i + 1) + 1 : b[j] = q[i + 1 + j - 1]
    BY <2>1, SubSeqProperties
  <2>3. Len(b) = n - i /\ n - (i + 1) + 1 = n - i
    BY <2>2, <1>1 DEF n
  <2>4. \A j \in 1 .. n - i : i + 1 + j - 1 = i + j
    BY <1>1
  <2> QED
    BY <2>2, <2>3, <2>4
<1> DEFINE r == a \o b
<1> HIDE DEF a, b
<1>4. /\ r \in Seq(Node) /\ Len(r) = Len(a) + Len(b)
      /\ \A j \in 1 .. Len(a) + Len(b) : r[j] = IF j <= Len(a) THEN a[j] ELSE b[j - Len(a)]
  BY <1>2, <1>3, ConcatProperties
<1>5. RemoveAt(q, i) = r
  BY DEF RemoveAt, a, b
<1> HIDE DEF r
<1>6. Len(r) = n - 1
  BY <1>1, <1>2, <1>3, <1>4
<1>7. ASSUME NEW j \in 1 .. n - 1 PROVE r[j] = IF j < i THEN q[j] ELSE q[j + 1]
  <2>1. CASE j < i
    <3>1. j \in 1 .. i - 1 /\ j <= Len(a) /\ j \in 1 .. Len(a) + Len(b)
      BY <2>1, <1>1, <1>2, <1>3
    <3> QED
      BY <3>1, <2>1, <1>2, <1>4
  <2>2. CASE ~(j < i)
    <3>1. ~(j <= Len(a)) /\ j \in 1 .. Len(a) + Len(b) /\ j - Len(a) \in 1 .. n - i
          /\ i + (j - Len(a)) = j + 1
      BY <2>2, <1>1, <1>2, <1>3
    <3> QED
      BY <3>1, <2>2, <1>3, <1>4
  <2> QED
    BY <2>1, <2>2
<1> QED
  BY <1>4, <1>5, <1>6, <1>7

LEMMA RemoveAtContains ==
  ASSUME NEW q \in Seq(Node), NEW i \in 1 .. Len(q), \A j, k \in 1 .. Len(q) : q[j] = q[k] => j = k,
         NEW b
  PROVE  Contains(RemoveAt(q, i), b) <=> Contains(q, b) /\ b # q[i]
<1> DEFINE n == Len(q)
           r == RemoveAt(q, i)
<1>1. n \in Nat
  BY LenProperties
<1>2. Len(r) = n - 1 /\ \A j \in 1 .. n - 1 : r[j] = IF j < i THEN q[j] ELSE q[j + 1]
  BY RemoveAtIs
<1> HIDE DEF r
<1>3. ASSUME NEW j \in 1 .. n - 1, r[j] = b PROVE Contains(q, b) /\ b # q[i]
  <2>1. j \in 1 .. n /\ j + 1 \in 1 .. n /\ j + 1 # j
    BY <1>1
  <2>2. CASE j < i
    <3>1. j # i /\ q[j] = b
      BY <2>2, <1>2, <1>3
    <3> QED
      BY <2>1, <3>1 DEF Contains
  <2>3. CASE ~(j < i)
    <3>1. j + 1 # i /\ q[j + 1] = b
      BY <2>3, <1>2, <1>3
    <3> QED
      BY <2>1, <3>1 DEF Contains
  <2> QED
    BY <2>2, <2>3
<1>4. ASSUME NEW j \in 1 .. n, q[j] = b, b # q[i] PROVE \E k \in 1 .. n - 1 : r[k] = b
  <2>1. j # i
    BY <1>4
  <2>2. CASE j < i
    <3>1. j \in 1 .. n - 1
      BY <2>2, <1>1
    <3> QED
      BY <3>1, <2>2, <1>2, <1>4
  <2>3. CASE j > i
    <3>1. j - 1 \in 1 .. n - 1 /\ ~(j - 1 < i) /\ j - 1 + 1 = j
      BY <2>3, <1>1
    <3> QED
      BY <3>1, <1>2, <1>4
  <2> QED
    BY <2>1, <2>2, <2>3
<1>5. Contains(r, b) <=> \E k \in 1 .. n - 1 : r[k] = b
  BY <1>2 DEF Contains
<1> QED
  BY <1>3, <1>4, <1>5 DEF Contains, r

\* The node before the removed one takes over its successor.
LEMMA LinearRemove ==
  ASSUME NEW q \in Seq(Node), NEW orig, NEW o2, NEW i \in 1 .. Len(q), Linear(q, orig),
         i > 1 => o2[q[i - 1]] = IF i < Len(q) THEN q[i + 1] ELSE RESUME,
         \A j \in 1 .. Len(q) : j # i /\ j # i - 1 => o2[q[j]] = orig[q[j]]
  PROVE  Linear(RemoveAt(q, i), o2)
<1> DEFINE n == Len(q)
           r == RemoveAt(q, i)
<1>1. n \in Nat
  BY LenProperties
<1>2. r \in Seq(Node) /\ Len(r) = n - 1 /\ \A j \in 1 .. n - 1 : r[j] = IF j < i THEN q[j] ELSE q[j + 1]
  BY RemoveAtIs
<1>3. \A j \in 1 .. n - 1 : orig[q[j]] = q[j + 1]
  BY DEF Linear
<1>4. \A j, k \in 1 .. n : q[j] = q[k] => j = k
  BY DEF Linear
<1>5. q # <<>> => orig[q[n]] = RESUME
  BY DEF Linear
<1>6. r # <<>> => n - 1 > 0
  BY <1>2, EmptySeq
<1> HIDE DEF r
<1>7. ASSUME NEW j \in 1 .. n - 1, NEW k \in 1 .. n - 1, r[j] = r[k] PROVE j = k
  <2>1. j \in 1 .. n /\ j + 1 \in 1 .. n /\ k \in 1 .. n /\ k + 1 \in 1 .. n
    BY <1>1
  <2>2. CASE j < i /\ k < i
    BY <2>1, <2>2, <1>2, <1>4, <1>7
  <2>3. CASE j < i /\ ~(k < i)
    <3>1. j = k + 1
      BY <2>1, <2>3, <1>2, <1>4, <1>7
    <3> QED
      BY <3>1, <2>3
  <2>4. CASE ~(j < i) /\ k < i
    <3>1. k = j + 1
      BY <2>1, <2>4, <1>2, <1>4, <1>7
    <3> QED
      BY <3>1, <2>4
  <2>5. CASE ~(j < i) /\ ~(k < i)
    <3>1. j + 1 = k + 1
      BY <2>1, <2>5, <1>2, <1>4, <1>7
    <3> QED
      BY <3>1
  <2> QED
    BY <2>2, <2>3, <2>4, <2>5
<1>8. ASSUME NEW j \in 1 .. n - 2 PROVE o2[r[j]] = r[j + 1]
  <2>1. j \in 1 .. n - 1 /\ j + 1 \in 1 .. n - 1 /\ j + 1 \in 1 .. n /\ j \in 1 .. n
    BY <1>1
  <2>2. CASE j + 1 < i
    <3>1. j < i /\ j # i /\ j # i - 1
      BY <2>2
    <3>2. r[j] = q[j] /\ r[j + 1] = q[j + 1]
      BY <3>1, <2>1, <2>2, <1>2
    <3>3. o2[q[j]] = orig[q[j]]
      BY <3>1, <2>1
    <3> QED
      BY <3>2, <3>3, <2>1, <1>3
  <2>3. CASE j + 1 = i
    <3>1. j < i /\ i > 1 /\ i - 1 = j /\ i < n /\ i + 1 = j + 1 + 1
      BY <2>3, <1>1
    <3>2. r[j] = q[j] /\ r[j + 1] = q[j + 1 + 1]
      BY <3>1, <2>1, <2>3, <1>2
    <3> QED
      BY <3>1, <3>2
  <2>4. CASE j + 1 > i
    <3>1. ~(j < i) /\ ~(j + 1 < i) /\ j + 1 # i /\ j + 1 # i - 1
      BY <2>4
    <3>2. r[j] = q[j + 1] /\ r[j + 1] = q[j + 1 + 1]
      BY <3>1, <2>1, <1>2
    <3>3. o2[q[j + 1]] = orig[q[j + 1]]
      BY <3>1, <2>1
    <3> QED
      BY <3>2, <3>3, <2>1, <1>3
  <2> QED
    BY <2>2, <2>3, <2>4, <1>1
<1>9. ASSUME n - 1 > 0 PROVE o2[r[n - 1]] = RESUME
  <2>1. n \in 1 .. n /\ n - 1 \in 1 .. n - 1 /\ n - 1 \in 1 .. n /\ n - 1 + 1 = n /\ q # <<>>
    BY <1>1, <1>9, EmptySeq
  <2>2. CASE i = n
    <3>1. i > 1 /\ i - 1 = n - 1 /\ ~(i < n) /\ n - 1 < i
      BY <2>2, <1>9, <1>1
    <3> QED
      BY <3>1, <2>1, <1>2
  <2>3. CASE i # n
    <3>1. ~(n - 1 < i) /\ n # i /\ n # i - 1
      BY <2>3, <1>1
    <3>2. r[n - 1] = q[n]
      BY <3>1, <2>1, <1>2
    <3> QED
      BY <3>1, <3>2, <2>1, <1>5
  <2> QED
    BY <2>2, <2>3
<1>10. Len(r) = n - 1 /\ Len(r) - 1 = n - 2
  BY <1>1, <1>2
<1>11. Linear(r, o2)
  BY <1>6, <1>7, <1>8, <1>9, <1>10 DEF Linear
<1> QED
  BY <1>11 DEF r

-----------------------------------------------------------------------------
(* The handlers' changes to a switch.                                      *)

\* What only interceptors and the target's patch are about stays.
Rest(s, r) == r.icept = s.icept /\ r.isize = s.isize /\ r.addr = s.addr

LEMMA LinkedIs ==
  ASSUME NEW s \in Switch, NEW a \in Node, Queued(s), ~Contains(s.queue, a)
  PROVE  LET r == Linked(s, a)
         IN /\ r \in Switch /\ Queued(r) /\ Rest(s, r) /\ r.start = s.start /\ r.hub = s.hub
            /\ r.mode = "queue" /\ r.proxy \in Node /\ r.queue # <<>>
            /\ s.queue # <<>> => r.proxy = s.proxy
            /\ \A b : Contains(r.queue, b) <=> Contains(s.queue, b) \/ b = a
<1> DEFINE r == Linked(s, a)
           q == s.queue
           n == Len(q)
<1>1. q \in Seq(Node) /\ s.orig \in [Node -> Node \cup {NULL, RESUME}] /\ s.proxy \in Node \cup {NULL}
  BY DEF Switch
<1>2. CASE q = <<>>
  <2>1. r = [s EXCEPT !.orig[a] = RESUME, !.queue = <<a>>, !.mode = "queue", !.proxy = a]
    BY <1>2 DEF Linked
  <2>2. r.orig = [s.orig EXCEPT ![a] = RESUME] /\ r.queue = <<a>> /\ r.mode = "queue" /\ r.proxy = a
    BY <2>1 DEF Switch
  <2>3. r \in Switch /\ Rest(s, r) /\ r.start = s.start /\ r.hub = s.hub
    <3> DEFINE o2 == [s.orig EXCEPT ![a] = RESUME]
    <3>1. o2 \in [Node -> Node \cup {NULL, RESUME}] /\ <<a>> \in Seq(Node)
      BY <1>1
    <3>2. r = [s EXCEPT !.orig = o2, !.queue = <<a>>, !.mode = "queue", !.proxy = a]
      BY <2>1
    <3> HIDE DEF o2, r
    <3> QED
      BY <3>1, <3>2 DEF Switch, Rest
  <2>4. Linear(r.queue, r.orig)
    BY <2>2, <2>3, LinearOne DEF Switch
  <2>5. \A b : Contains(r.queue, b) <=> Contains(q, b) \/ b = a
    <3>1. Len(<<a>>) = 1 /\ <<a>>[1] = a /\ Len(<<>>) = 0
      BY EmptySeq
    <3> QED
      BY <2>2, <3>1, <1>2 DEF Contains
  <2> HIDE DEF r
  <2>6. r.queue # <<>> /\ r.queue[1] = a
    BY <2>2
  <2> QED
    BY <2>2, <2>3, <2>4, <2>5, <2>6, <1>2 DEF Queued, r
<1>3. CASE q # <<>>
  <2>1. r = [s EXCEPT !.orig = [@ EXCEPT ![a] = RESUME, ![Last(q)] = a], !.queue = Append(@, a)]
    BY <1>3 DEF Linked
  <2>2. n \in Nat /\ n > 0 /\ Last(q) \in Node
    BY <1>1, <1>3, EmptySeq, ElementOfSeq DEF Last
  <2>3. /\ r.orig = [s.orig EXCEPT ![a] = RESUME, ![Last(q)] = a] /\ r.queue = Append(q, a)
        /\ r.mode = s.mode /\ r.proxy = s.proxy
    BY <2>1 DEF Switch
  <2>4. Append(q, a) \in Seq(Node) /\ Append(q, a) # <<>> /\ Len(Append(q, a)) = n + 1
    BY <1>1, AppendProperties
  <2>5. (\A i \in 1 .. n : Append(q, a)[i] = q[i]) /\ Append(q, a)[n + 1] = a
    BY <1>1, AppendProperties
  <2>6. Linear(r.queue, r.orig)
    BY <1>1, <1>3, <2>3, LinearAppend DEF Queued
  <2>7. r \in Switch /\ Rest(s, r) /\ r.start = s.start /\ r.hub = s.hub
    <3> DEFINE o2 == [s.orig EXCEPT ![a] = RESUME, ![Last(q)] = a]
               w  == Append(q, a)
    <3>1. o2 \in [Node -> Node \cup {NULL, RESUME}] /\ w \in Seq(Node)
      BY <1>1, <2>4
    <3>2. r = [s EXCEPT !.orig = o2, !.queue = w]
      BY <2>1
    <3> HIDE DEF o2, w, r
    <3> QED
      BY <3>1, <3>2 DEF Switch, Rest
  <2> HIDE DEF r
  <2>8. \A b : Contains(r.queue, b) <=> Contains(q, b) \/ b = a
    <3>1. \A i \in 1 .. n + 1 : i \in 1 .. n \/ i = n + 1
      BY <2>2
    <3>2. n + 1 \in 1 .. n + 1 /\ \A i \in 1 .. n : i \in 1 .. n + 1
      BY <2>2
    <3> QED
      BY <2>3, <2>4, <2>5, <3>1, <3>2 DEF Contains
  <2>9. s.proxy = q[1] /\ s.mode = "queue" /\ 1 \in 1 .. n
    BY <1>3, <2>2 DEF Queued
  <2>10. r.proxy = r.queue[1] /\ r.proxy \in Node
    BY <2>3, <2>5, <2>9, <1>1, ElementOfSeq
  <2> QED
    BY <2>3, <2>4, <2>6, <2>7, <2>8, <2>9, <2>10 DEF Queued, r
<1> QED
  BY <1>2, <1>3

\* A proxy more: in the queue, or in the hub with the hub in the queue.
LEMMA AddedIs ==
  ASSUME NEW s \in Switch, NEW c, Queueing(c),
         Queued(s), Hubbed(s), ~Duplicated(s, c.who)
  PROVE  LET r == Added(s, c.who, c.kind)
         IN /\ r \in Switch /\ Queued(r) /\ Hubbed(r) /\ Rest(s, r) /\ r.start = s.start
            /\ r.mode = "queue" /\ r.proxy \in Node /\ r.queue # <<>>
            /\ s.queue # <<>> => r.proxy = s.proxy
            /\ \A b : Contains(r.queue, b) <=> Contains(s.queue, b) \/ b = NodeOf(c.who, c.kind)
            /\ c.kind = "shared" => r.hub = s.hub \cup {c.who}
            /\ c.kind = "multi" => r.hub = s.hub
<1> DEFINE r == Added(s, c.who, c.kind)
<1>1. c.who \in Node /\ HUB \in Node /\ HUB # c.who /\ s.hub \subseteq Proxy /\ HUB \notin s.hub
  BY NotNode DEF Queueing, Node, Switch
<1>2. ~Contains(s.queue, c.who) /\ c.who \notin s.hub
  BY DEF Duplicated, Hubbed
<1>3. CASE c.kind = "multi"
  <2>1. r = Linked(s, c.who) /\ NodeOf(c.who, c.kind) = c.who
    BY <1>3 DEF Added, NodeOf
  <2>2. /\ r \in Switch /\ Queued(r) /\ Rest(s, r) /\ r.start = s.start /\ r.hub = s.hub
        /\ r.mode = "queue" /\ r.proxy \in Node /\ r.queue # <<>>
        /\ s.queue # <<>> => r.proxy = s.proxy
        /\ \A b : Contains(r.queue, b) <=> Contains(s.queue, b) \/ b = c.who
    BY <2>1, <1>1, <1>2, LinkedIs
  <2> HIDE DEF r
  <2>3. Hubbed(r)
    BY <2>2, <1>2 DEF Hubbed
  <2> QED
    BY <2>1, <2>2, <2>3, <1>3 DEF r
<1>4. CASE c.kind = "shared"
  <2> DEFINE s1 == [s EXCEPT !.hub = @ \cup {c.who}, !.orig[c.who] = RESUME]
  <2>1. r = (IF Contains(s.queue, HUB) THEN s1 ELSE Linked(s1, HUB)) /\ NodeOf(c.who, c.kind) = HUB
    BY <1>4 DEF Added, NodeOf
  <2>2. /\ s1.hub = s.hub \cup {c.who} /\ s1.orig = [s.orig EXCEPT ![c.who] = RESUME] /\ s1.queue = s.queue
        /\ s1.mode = s.mode /\ s1.proxy = s.proxy /\ s1.start = s.start
    BY DEF Switch
  <2>3. s1 \in Switch /\ Rest(s, s1)
    <3> DEFINE o2 == [s.orig EXCEPT ![c.who] = RESUME]
               h2 == s.hub \cup {c.who}
    <3>1. o2 \in [Node -> Node \cup {NULL, RESUME}] /\ h2 \in SUBSET Proxy
      BY <1>1 DEF Switch, Queueing
    <3>2. s1 = [s EXCEPT !.hub = h2, !.orig = o2]
      OBVIOUS
    <3> HIDE DEF o2, h2, s1
    <3> QED
      BY <3>1, <3>2 DEF Switch, Rest
  <2>4. s.queue \in Seq(Node) /\ s.orig \in [Node -> Node \cup {NULL, RESUME}]
    BY DEF Switch
  <2> HIDE DEF s1
  <2>5. Linear(s1.queue, s1.orig)
    <3>1. \A i \in 1 .. Len(s.queue) : s.queue[i] \in Node /\ s.queue[i] # c.who
      BY <1>2, <2>4, ElementOfSeq DEF Contains
    <3>2. \A i \in 1 .. Len(s.queue) : s1.orig[s.queue[i]] = s.orig[s.queue[i]]
      BY <3>1, <2>2, <2>4
    <3> QED
      BY <3>2, <2>2, <2>4, LinearOther DEF Queued
  <2>6. Queued(s1)
    BY <2>2, <2>5 DEF Queued
  <2>7. CASE Contains(s.queue, HUB)
    <3>1. r = s1 /\ s.queue # <<>>
      BY <2>1, <2>7, EmptySeq DEF Contains
    <3>2. s.mode = "queue" /\ s.proxy = s.queue[1] /\ s.queue[1] \in Node
      <4>1. 1 \in 1 .. Len(s.queue)
        BY <3>1, <2>4, EmptySeq
      <4> QED
        BY <4>1, <3>1, <2>4, ElementOfSeq DEF Queued
    <3> HIDE DEF r
    <3>3. Hubbed(r)
      BY <3>1, <2>2, <2>7, <1>2 DEF Hubbed
    <3> QED
      BY <3>1, <3>2, <3>3, <2>1, <2>2, <2>3, <2>6, <2>7, <1>4 DEF r
  <2>8. CASE ~Contains(s.queue, HUB)
    <3>1. r = Linked(s1, HUB)
      BY <2>1, <2>8
    <3>2. /\ r \in Switch /\ Queued(r) /\ Rest(s1, r) /\ r.start = s1.start /\ r.hub = s1.hub
          /\ r.mode = "queue" /\ r.proxy \in Node /\ r.queue # <<>>
          /\ s1.queue # <<>> => r.proxy = s1.proxy
          /\ \A b : Contains(r.queue, b) <=> Contains(s1.queue, b) \/ b = HUB
      BY <3>1, <2>2, <2>3, <2>6, <2>8, <1>1, LinkedIs
    <3> HIDE DEF r
    <3>3. Hubbed(r)
      BY <3>2, <2>2, <1>1, <1>2 DEF Hubbed
    <3> QED
      BY <3>2, <3>3, <2>1, <2>2, <2>3, <1>4 DEF r, Rest
  <2> QED
    BY <2>7, <2>8
<1> QED
  BY <1>3, <1>4 DEF Queueing

LEMMA PositionIs ==
  ASSUME NEW s, NEW a, Contains(s.queue, a)
  PROVE  Position(s, a) \in 1 .. Len(s.queue) /\ s.queue[Position(s, a)] = a
BY DEF Position, Contains

\* A node less; the target is rewritten when it jumped to that node.
LEMMA UnlinkedIs ==
  ASSUME NEW s \in Switch, NEW a \in Node, Queued(s), Contains(s.queue, a)
  PROVE  LET r == Unlinked(s, a)
         IN /\ r \in Switch /\ Queued(r) /\ Rest(s, r) /\ r.hub = s.hub
            /\ \A b : Contains(r.queue, b) <=> Contains(s.queue, b) /\ b # a
            /\ r.queue = <<>> => r.mode = "none" /\ r.proxy = NULL /\ r.start = s.start
            /\ r.queue # <<>> => r.mode = "queue" /\ (s.start = s.proxy => r.start = r.proxy)
            /\ r.queue # <<>> /\ s.start # s.proxy => r.start = s.start
<1> DEFINE r == Unlinked(s, a)
           q == s.queue
           n == Len(q)
           i == Position(s, a)
           w == RemoveAt(q, i)
           u == [s EXCEPT !.queue = RemoveAt(@, i), !.orig[a] = NULL]
<1>1. q \in Seq(Node) /\ s.orig \in [Node -> Node \cup {NULL, RESUME}] /\ s.proxy \in Node \cup {NULL}
  BY DEF Switch
<1>2. n \in Nat /\ i \in 1 .. n /\ q[i] = a /\ q # <<>> /\ n > 0 /\ \A j \in 1 .. n : q[j] \in Node
  <2>1. i \in 1 .. n /\ q[i] = a
    BY PositionIs
  <2> HIDE DEF i
  <2>2. n \in Nat /\ n > 0
    BY <2>1, <1>1, LenProperties
  <2>3. q # <<>>
    BY <2>1, EmptySeq
  <2> QED
    BY <2>1, <2>2, <2>3, <1>1, ElementOfSeq
<1>3. s.proxy = q[1] /\ s.mode = "queue" /\ Linear(q, s.orig)
  BY <1>2 DEF Queued
<1>4. Head(q) = q[1]
  BY <1>1, <1>2
<1> HIDE DEF i
<1>5. w \in Seq(Node) /\ Len(w) = n - 1 /\ \A j \in 1 .. n - 1 : w[j] = IF j < i THEN q[j] ELSE q[j + 1]
  BY <1>1, <1>2, RemoveAtIs
<1>6. \A b : Contains(w, b) <=> Contains(q, b) /\ b # a
  <2>1. \A j, k \in 1 .. n : q[j] = q[k] => j = k
    BY <1>3 DEF Linear
  <2> QED
    BY <1>1, <1>2, <2>1, RemoveAtContains
<1>7. w = <<>> <=> n = 1
  <2> HIDE DEF w, n
  <2>1. w = <<>> <=> Len(w) = 0
    BY <1>5, EmptySeq
  <2> QED
    BY <2>1, <1>5, <1>2
<1> HIDE DEF w
<1>8. /\ u \in Switch /\ Rest(s, u) /\ u.hub = s.hub /\ u.queue = w /\ u.orig = [s.orig EXCEPT ![a] = NULL]
      /\ u.mode = s.mode /\ u.proxy = s.proxy /\ u.start = s.start
  BY <1>5 DEF Switch, Rest, w
<1>9. r = CASE i > 1 -> [u EXCEPT !.orig[q[i - 1]] = IF i < n THEN q[i + 1] ELSE RESUME]
            [] i = 1 /\ n > 1 -> [u EXCEPT !.proxy = q[2], !.start = IF NeedsRehook(s, a) THEN q[2] ELSE @]
            [] i = 1 /\ n = 1 -> [u EXCEPT !.mode = "none", !.proxy = NULL]
  BY DEF Unlinked, i
<1> HIDE DEF u
<1>10. CASE i > 1
  <2> DEFINE e == IF i < n THEN q[i + 1] ELSE RESUME
  <2>1. r = [u EXCEPT !.orig[q[i - 1]] = e]
    BY <1>9, <1>10
  <2>2. i - 1 \in 1 .. n /\ q[i - 1] \in Node /\ e \in Node \cup {NULL, RESUME} /\ q[i - 1] # a /\ n # 1
    <3>1. i - 1 \in 1 .. n /\ i - 1 # i /\ n # 1
      BY <1>10, <1>2
    <3>2. i < n => i + 1 \in 1 .. n
      BY <1>2
    <3> QED
      BY <3>1, <3>2, <1>2, <1>3 DEF Linear
  <2> HIDE DEF e
  <2>3. /\ r \in Switch /\ Rest(s, r) /\ r.hub = s.hub /\ r.queue = w /\ r.mode = "queue"
        /\ r.proxy = s.proxy /\ r.start = s.start
    <3> DEFINE o2 == [u.orig EXCEPT ![q[i - 1]] = e]
    <3>1. o2 \in [Node -> Node \cup {NULL, RESUME}]
      BY <1>8, <2>2 DEF Switch
    <3>2. r = [u EXCEPT !.orig = o2]
      BY <2>1
    <3> HIDE DEF o2, r
    <3>3. r \in Switch
      BY <3>1, <3>2, <1>8 DEF Switch
    <3>4. /\ Rest(u, r) /\ r.hub = u.hub /\ r.queue = u.queue /\ r.mode = u.mode
          /\ r.proxy = u.proxy /\ r.start = u.start
      BY <3>2, <1>8 DEF Switch, Rest
    <3> QED
      BY <3>3, <3>4, <1>3, <1>8 DEF Rest
  <2>4. r.orig = [s.orig EXCEPT ![a] = NULL, ![q[i - 1]] = e]
    <3>1. r.orig = [u.orig EXCEPT ![q[i - 1]] = e]
      BY <2>1, <1>8 DEF Switch
    <3> QED
      BY <3>1, <1>8
  <2> HIDE DEF r
  <2>5. r.orig[q[i - 1]] = e
    BY <2>2, <2>4, <1>1
  <2>6. \A j \in 1 .. n : j # i /\ j # i - 1 => r.orig[q[j]] = s.orig[q[j]]
    <3>1. \A j \in 1 .. n : j # i /\ j # i - 1 => q[j] # a /\ q[j] # q[i - 1]
      BY <2>2, <1>2, <1>3 DEF Linear
    <3> QED
      BY <3>1, <2>4, <1>1, <1>2
  <2>7. Linear(w, r.orig)
    BY <2>5, <2>6, <1>1, <1>2, <1>3, LinearRemove DEF w, e
  <2>8. w # <<>> /\ w[1] = q[1]
    <3>1. 1 \in 1 .. n - 1 /\ 1 < i
      BY <1>10, <1>2
    <3> QED
      BY <3>1, <2>2, <1>5, <1>7
  <2>9. Queued(r)
    BY <2>3, <2>7, <2>8, <1>3 DEF Queued
  <2> QED
    BY <2>3, <2>8, <2>9, <1>6 DEF r
<1>11. CASE i = 1 /\ n > 1
  <2> DEFINE e == IF NeedsRehook(s, a) THEN q[2] ELSE u.start
  <2>1. r = [u EXCEPT !.proxy = q[2], !.start = e]
    <3>1. ~(i > 1) /\ ~(i = 1 /\ n = 1)
      <4> HIDE DEF n
      <4> QED
        BY <1>2, <1>11
    <3> HIDE DEF r
    <3>2. r = [u EXCEPT !.proxy = q[2], !.start = IF NeedsRehook(s, a) THEN q[2] ELSE @]
      BY <1>9, <1>11, <3>1
    <3> QED
      BY <3>2, <1>8 DEF Switch
  <2>2. 2 \in 1 .. n /\ q[2] \in Node
    BY <1>11, <1>2
  <2>3. NeedsRehook(s, a) <=> s.start = s.proxy
    BY <1>2, <1>4, <1>11 DEF NeedsRehook
  <2>4. e = (IF s.start = s.proxy THEN q[2] ELSE s.start) /\ e \in Node \cup {NULL, GLUE}
    BY <2>2, <2>3, <1>8 DEF Switch
  <2> HIDE DEF e
  <2>5. /\ r \in Switch /\ Rest(s, r) /\ r.hub = s.hub /\ r.queue = w /\ r.mode = "queue"
        /\ r.proxy = q[2] /\ r.start = e /\ r.orig = [s.orig EXCEPT ![a] = NULL]
    BY <2>1, <2>2, <2>4, <1>8, <1>3 DEF Switch, Rest
  <2> HIDE DEF r
  <2>6. \A j \in 1 .. n : j # i => r.orig[q[j]] = s.orig[q[j]]
    <3>1. \A j \in 1 .. n : j # i => q[j] # a
      BY <1>2, <1>3 DEF Linear
    <3> QED
      BY <3>1, <2>5, <1>1, <1>2
  <2>7. Linear(w, r.orig)
    BY <2>6, <1>1, <1>2, <1>3, <1>11, LinearRemove DEF w
  <2>8. w # <<>> /\ w[1] = q[2]
    <3>1. 1 \in 1 .. n - 1 /\ ~(1 < i)
      BY <1>11, <1>2
    <3> QED
      BY <3>1, <1>5, <1>7
  <2>9. Queued(r)
    BY <2>5, <2>7, <2>8 DEF Queued
  <2> QED
    BY <2>4, <2>5, <2>8, <2>9, <1>6 DEF r
<1>12. CASE i = 1 /\ n = 1
  <2>1. r = [u EXCEPT !.mode = "none", !.proxy = NULL]
    BY <1>9, <1>12
  <2>2. /\ r \in Switch /\ Rest(s, r) /\ r.hub = s.hub /\ r.queue = w /\ r.mode = "none"
        /\ r.proxy = NULL /\ r.start = s.start
    BY <2>1, <1>8 DEF Switch, Rest
  <2> HIDE DEF r
  <2>3. w = <<>> /\ Len(w) = 0
    BY <1>12, <1>5, <1>7
  <2>4. Queued(r)
    BY <2>2, <2>3 DEF Queued, Linear
  <2> QED
    BY <2>2, <2>3, <2>4, <1>6 DEF r
<1>13. i > 1 \/ (i = 1 /\ n > 1) \/ (i = 1 /\ n = 1)
  <2> HIDE DEF n
  <2> QED
    BY <1>2
<1> QED
  BY <1>10, <1>11, <1>12, <1>13

-----------------------------------------------------------------------------
(* Who is in a switch, before and after.                                   *)

LEMMA NewSwitchTyped == NewSwitch \in Switch
<1> DEFINE none == [a \in Node |-> NULL]
<1>1. <<>> \in Seq(Node) /\ none \in [Node -> Node \cup {NULL, RESUME}]
  BY EmptySeq
<1> HIDE DEF none
<1>2. NewSwitch = [mode |-> "none", start |-> NULL, proxy |-> NULL, queue |-> <<>>, orig |-> none, hub |-> {},
             glue |-> FALSE, icept |-> {}, isize |-> 0, addr |-> NULL]
  BY DEF NewSwitch, none
<1> QED
  BY <1>1, <1>2 DEF Switch

\* A switch as CreateSwitch makes it.
Created(mode, k) == [NewSwitch EXCEPT !.mode = mode, !.addr = k]

LEMMA NewIsWhole ==
  ASSUME NEW mode \in {"none", "unique", "queue"}, NEW k \in Key
  PROVE  LET new == Created(mode, k)
         IN new \in Switch /\ Whole(new) /\ new.start = NULL /\ new.mode = mode /\ new.addr = k
<1> DEFINE new == Created(mode, k)
<1>1. /\ NewSwitch.start = NULL /\ NewSwitch.proxy = NULL /\ NewSwitch.queue = <<>> /\ NewSwitch.hub = {}
      /\ NewSwitch.icept = {} /\ NewSwitch.isize = 0
  BY DEF NewSwitch
<1>2. /\ new.start = NULL /\ new.proxy = NULL /\ new.queue = <<>> /\ new.hub = {}
      /\ new.icept = {} /\ new.isize = 0 /\ new.mode = mode /\ new.addr = k
  BY <1>1, NewSwitchTyped DEF Switch, Created
<1>3. new \in Switch
  BY NewSwitchTyped DEF Switch, Created
<1> HIDE DEF new
<1>4. Queued(new)
  BY <1>2, EmptySeq DEF Queued, Linear
<1>5. Alone(new) /\ Hubbed(new) /\ Started(new)
  BY <1>2, FS_EmptySet DEF Alone, Hubbed, Started
<1> QED
  BY <1>2, <1>3, <1>4, <1>5 DEF Whole, new

\* Nobody is in a switch with an empty queue, no proxy and no interceptor.
LEMMA EmptyHasNobody ==
  ASSUME NEW r \in Switch, Hubbed(r), r.queue = <<>>, r.proxy = NULL, r.icept = {}
  PROVE  Nobody(r)
<1>1. \A b : ~Contains(r.queue, b)
  BY EmptySeq DEF Contains
<1>2. r.hub = {}
  BY <1>1 DEF Hubbed
<1>3. NULL \notin Proxy \cup Icept
  BY SwitchAssumption
<1> QED
  BY <1>1, <1>2, <1>3 DEF Nobody, AnyStub, In

LEMMA QueueOrNot ==
  ASSUME NEW s \in Switch, Whole(s)
  PROVE  /\ s.queue # <<>> => s.proxy \in Node /\ s.mode = "queue"
         /\ s.queue = <<>> => s.hub = {} /\ \A b : ~Contains(s.queue, b)
<1>1. s.queue # <<>> => 1 \in 1 .. Len(s.queue)
  BY EmptySeq DEF Switch
<1>2. s.queue # <<>> => s.queue[1] \in Node
  BY <1>1, ElementOfSeq DEF Switch
<1>3. s.queue = <<>> => \A b : ~Contains(s.queue, b)
  BY EmptySeq DEF Contains
<1> QED
  BY <1>2, <1>3 DEF Whole, Queued, Hubbed

\* A switch that no target jumps to is empty.
LEMMA UnstartedIsEmpty ==
  ASSUME NEW s \in Switch, Whole(s), s.start = NULL
  PROVE  s.queue = <<>> /\ s.proxy = NULL /\ s.icept = {} /\ s.hub = {} /\ Nobody(s)
<1>1. s.proxy = NULL /\ s.icept = {}
  BY SwitchAssumption DEF Whole, Started
<1>2. s.queue = <<>>
  BY <1>1, QueueOrNot, NotNode
<1> QED
  BY <1>1, <1>2, QueueOrNot, EmptyHasNobody DEF Whole

\* The sets an interceptor joins and leaves.
LEMMA EnabledIs ==
  ASSUME NEW s \in Switch, Whole(s), s.start = GLUE, NEW x \in Icept, x \notin s.icept
  PROVE  /\ Good(s, Enabled(s, x))
         /\ \A st \in AnyStub : In(st, Enabled(s, x)) <=> In(st, s) \/ (st.kind = "intercept" /\ st.who = x)
<1> DEFINE r == Enabled(s, x)
           i == s.icept \cup {x}
           n == s.isize + 1
<1>1. IsFiniteSet(i) /\ n = Cardinality(i) /\ n \in Nat /\ i \in SUBSET Icept
  BY FS_AddElement DEF Whole, Started, Switch
<1>2. r = [s EXCEPT !.icept = i, !.isize = n]
  BY DEF Enabled, Switch
<1> HIDE DEF n, i, r
<1>3. r \in Switch
  BY <1>1, <1>2 DEF Switch
<1>4. /\ r.icept = i /\ r.isize = n /\ r.queue = s.queue /\ r.orig = s.orig /\ r.mode = s.mode
      /\ r.proxy = s.proxy /\ r.hub = s.hub /\ r.start = s.start /\ r.addr = s.addr
  BY <1>2 DEF Switch
<1>5. Whole(r)
  BY <1>1, <1>4 DEF Whole, Queued, Alone, Hubbed, Started
<1>6. GLUE # NULL
  BY SwitchAssumption
<1>7. \A st \in AnyStub : In(st, r) <=> In(st, s) \/ (st.kind = "intercept" /\ st.who = x)
  BY <1>4 DEF In, AnyStub, i
<1> QED
  BY <1>3, <1>4, <1>5, <1>6, <1>7 DEF Good, r

LEMMA DisabledIs ==
  ASSUME NEW s \in Switch, Whole(s), s.start # NULL, NEW x \in s.icept
  PROVE  LET r == Disabled(s, x)
         IN /\ Good(s, r) /\ r.start = GLUE /\ (r.isize = 0 <=> r.icept = {})
            /\ r.proxy = s.proxy /\ r.queue = s.queue
            /\ \A st \in AnyStub : In(st, r) <=> In(st, s) /\ ~(st.kind = "intercept" /\ st.who = x)
<1> DEFINE r == Disabled(s, x)
           i == s.icept \ {x}
           n == s.isize - 1
<1>1. IsFiniteSet(i) /\ n = Cardinality(i) /\ i \in SUBSET Icept
  BY FS_RemoveElement DEF Whole, Started, Switch
<1>2. r = [s EXCEPT !.icept = i, !.isize = n]
  BY DEF Disabled, Switch
<1>3. n \in Nat /\ (n = 0 <=> i = {}) /\ s.start = GLUE
  BY <1>1, FS_CardinalityType, FS_EmptySet DEF Whole, Started
<1> HIDE DEF n, i, r
<1>4. r \in Switch
  BY <1>1, <1>2, <1>3 DEF Switch
<1>5. /\ r.icept = i /\ r.isize = n /\ r.queue = s.queue /\ r.orig = s.orig /\ r.mode = s.mode
      /\ r.proxy = s.proxy /\ r.hub = s.hub /\ r.start = s.start /\ r.addr = s.addr
  BY <1>2 DEF Switch
<1>6. Whole(r)
  BY <1>1, <1>3, <1>5 DEF Whole, Queued, Alone, Hubbed, Started
<1>7. \A st \in AnyStub : In(st, r) <=> In(st, s) /\ ~(st.kind = "intercept" /\ st.who = x)
  BY <1>5 DEF In, AnyStub, i
<1> QED
  BY <1>3, <1>4, <1>5, <1>6, <1>7 DEF Good, r

\* Only where the target jumps to, and whether there is a glue launcher, is new.
LEMMA RestartedIs ==
  ASSUME NEW s \in Switch, Whole(s), NEW g \in BOOLEAN, NEW to \in {s.start, GLUE, s.proxy},
         to # NULL, s.icept # {} => to = GLUE
  PROVE  LET r == [s EXCEPT !.glue = g, !.start = to]
         IN Good(s, r) /\ Stays(s, r) /\ r.start = to /\ r.icept = s.icept /\ r.proxy = s.proxy
<1> DEFINE r == [s EXCEPT !.glue = g, !.start = to]
<1>1. to \in Node \cup {NULL, GLUE}
  BY DEF Switch
<1>2. /\ r.icept = s.icept /\ r.isize = s.isize /\ r.queue = s.queue /\ r.orig = s.orig /\ r.mode = s.mode
      /\ r.proxy = s.proxy /\ r.hub = s.hub /\ r.start = to /\ r.addr = s.addr
  BY DEF Switch
<1>3. r \in Switch
  BY <1>1 DEF Switch
<1> HIDE DEF r
<1>4. Whole(r)
  BY <1>2 DEF Whole, Queued, Alone, Hubbed, Started
<1>5. Stays(s, r)
  BY <1>2 DEF Stays, In
<1> QED
  BY <1>2, <1>3, <1>4, <1>5 DEF Good, r

\* A proxy joins the queue of a target that is already hooked.
LEMMA QueueMoreIs ==
  ASSUME NEW s \in Switch, Whole(s), s.start # NULL, s.mode # "unique",
         NEW c, Queueing(c), ~Duplicated(s, c.who)
  PROVE  Good(s, Added(s, c.who, c.kind)) /\ Gains(s, Added(s, c.who, c.kind), c)
<1> DEFINE r == Added(s, c.who, c.kind)
<1>1. /\ r \in Switch /\ Queued(r) /\ Hubbed(r) /\ Rest(s, r) /\ r.start = s.start
      /\ r.mode = "queue" /\ r.proxy \in Node /\ r.queue # <<>>
      /\ s.queue # <<>> => r.proxy = s.proxy
      /\ \A b : Contains(r.queue, b) <=> Contains(s.queue, b) \/ b = NodeOf(c.who, c.kind)
      /\ c.kind = "shared" => r.hub = s.hub \cup {c.who}
      /\ c.kind = "multi" => r.hub = s.hub
  <2>1. Queued(s) /\ Hubbed(s)
    BY DEF Whole
  <2> QED
    BY <2>1, AddedIs, SMT
<1> HIDE DEF r
<1>2. s.queue = <<>> => s.start = GLUE
  BY DEF Whole, Alone, Started
<1>3. Started(r)
  BY <1>1, <1>2 DEF Whole, Started, Rest
<1>4. Alone(r)
  BY <1>1 DEF Alone
<1>5. Good(s, r)
  BY <1>1, <1>3, <1>4 DEF Good, Whole, Rest
<1>6. ~In(c, s)
  BY DEF In, Duplicated, Whole, Hubbed, Queueing
<1>7. ASSUME NEW st \in AnyStub PROVE In(st, r) <=> In(st, s) \/ Alike(st, c)
  <2>1. st.who # HUB /\ c.who # HUB
    BY SwitchAssumption DEF AnyStub, Queueing
  <2>2. CASE st.kind = "unique"
    BY <2>2, <1>1 DEF In, Alike, Queueing
  <2>3. CASE st.kind = "multi"
    <3>1. In(st, r) <=> Contains(r.queue, st.who)
      BY <2>3 DEF In
    <3>2. In(st, s) <=> Contains(s.queue, st.who)
      BY <2>3 DEF In
    <3>3. NodeOf(c.who, c.kind) = IF c.kind = "multi" THEN c.who ELSE HUB
      BY DEF NodeOf, Queueing
    <3> QED
      BY <3>1, <3>2, <3>3, <2>1, <2>3, <1>1 DEF Alike
  <2>4. CASE st.kind = "shared"
    BY <2>4, <1>1 DEF In, Alike, Queueing
  <2>5. CASE st.kind = "intercept"
    BY <2>5, <1>1 DEF In, Alike, Rest, Queueing
  <2> QED
    BY <2>2, <2>3, <2>4, <2>5 DEF AnyStub
<1> QED
  BY <1>5, <1>6, <1>7 DEF Gains, r

\* A unique hook takes the target's proxy.
LEMMA UniqueIs ==
  ASSUME NEW s \in Switch, Whole(s), s.proxy = NULL, NEW c \in AnyStub, c.kind = "unique", c.who \in Proxy,
         NEW start \in {s.start, c.who}, start # NULL, s.icept # {} => start = GLUE
  PROVE  LET r == [s EXCEPT !.mode = "unique", !.proxy = c.who, !.orig[c.who] = RESUME, !.start = start]
         IN Good(s, r) /\ Gains(s, r, c)
<1> DEFINE o2 == [s.orig EXCEPT ![c.who] = RESUME]
           r == [s EXCEPT !.mode = "unique", !.proxy = c.who, !.orig[c.who] = RESUME, !.start = start]
<1>1. c.who \in Node /\ start \in Node \cup {NULL, GLUE}
  BY DEF Node, Switch
<1>2. o2 \in [Node -> Node \cup {NULL, RESUME}] /\ o2[c.who] = RESUME
  BY <1>1 DEF Switch
<1>3. r = [s EXCEPT !.mode = "unique", !.proxy = c.who, !.orig = o2, !.start = start]
  OBVIOUS
<1> HIDE DEF o2, r
<1>4. r \in Switch
  BY <1>1, <1>2, <1>3 DEF Switch
<1>5. /\ r.icept = s.icept /\ r.isize = s.isize /\ r.queue = s.queue /\ r.orig = o2 /\ r.mode = "unique"
      /\ r.proxy = c.who /\ r.hub = s.hub /\ r.start = start /\ r.addr = s.addr
  BY <1>3 DEF Switch
<1>6. s.queue = <<>> /\ s.hub = {} /\ \A b : ~Contains(s.queue, b)
  BY QueueOrNot, NotNode
<1>7. Queued(r)
  BY <1>5, <1>6, EmptySeq DEF Queued, Linear
<1>8. Alone(r) /\ Hubbed(r)
  BY <1>2, <1>5, <1>6 DEF Alone, Hubbed
<1>9. Started(r)
  BY <1>5 DEF Whole, Started
<1>10. Gains(s, r, c)
  <2>1. NULL \notin Proxy \cup Icept
    BY SwitchAssumption
  <2> QED
    BY <2>1, <1>5 DEF Gains, In, Alike, AnyStub
<1> QED
  BY <1>4, <1>5, <1>7, <1>8, <1>9, <1>10 DEF Good, Whole, r

\* The first hook of a switch.
LEMMA FirstQueueIs ==
  ASSUME NEW s \in Switch, Whole(s), s.start = NULL,
         NEW c, Queueing(c)
  PROVE  LET a == Added([s EXCEPT !.proxy = c.who], c.who, c.kind)
             r == [a EXCEPT !.start = a.proxy]
         IN Good(s, r) /\ Gains(s, r, c)
<1> DEFINE f == [s EXCEPT !.proxy = c.who]
           a == Added(f, c.who, c.kind)
           r == [a EXCEPT !.start = a.proxy]
<1>1. s.queue = <<>> /\ s.proxy = NULL /\ s.icept = {} /\ s.hub = {} /\ Nobody(s)
  BY UnstartedIsEmpty
<1>2. c.who \in Node
  BY DEF Node, Queueing
<1>3. f \in Switch /\ f.queue = <<>> /\ f.hub = {} /\ f.icept = {} /\ f.isize = s.isize /\ f.addr = s.addr
  BY <1>1, <1>2 DEF Switch
<1> HIDE DEF f
<1>4. \A b : ~Contains(f.queue, b)
  BY <1>3, EmptySeq DEF Contains
<1>5. Queued(f) /\ Hubbed(f) /\ ~Duplicated(f, c.who)
  BY <1>3, <1>4, EmptySeq DEF Queued, Linear, Hubbed, Duplicated
<1>6. /\ a \in Switch /\ Queued(a) /\ Hubbed(a) /\ Rest(f, a)
      /\ a.mode = "queue" /\ a.proxy \in Node /\ a.queue # <<>>
      /\ \A b : Contains(a.queue, b) <=> b = NodeOf(c.who, c.kind)
      /\ c.kind = "shared" => a.hub = {c.who}
      /\ c.kind = "multi" => a.hub = {}
  <2>1. /\ a \in Switch /\ Queued(a) /\ Hubbed(a) /\ Rest(f, a)
        /\ a.mode = "queue" /\ a.proxy \in Node /\ a.queue # <<>>
        /\ \A b : Contains(a.queue, b) <=> Contains(f.queue, b) \/ b = NodeOf(c.who, c.kind)
        /\ c.kind = "shared" => a.hub = f.hub \cup {c.who}
        /\ c.kind = "multi" => a.hub = f.hub
    BY <1>3, <1>5, AddedIs, Zenon
  <2> HIDE DEF a
  <2> QED
    BY <2>1, <1>3, <1>4
<1> HIDE DEF a
<1>7. r \in Switch
  BY <1>6 DEF Switch
<1>8. /\ r.icept = {} /\ r.isize = s.isize /\ r.queue = a.queue /\ r.orig = a.orig /\ r.mode = "queue"
      /\ r.proxy = a.proxy /\ r.hub = a.hub /\ r.start = a.proxy /\ r.addr = s.addr
  BY <1>3, <1>6 DEF Switch, Rest
<1> HIDE DEF r
<1>9. Queued(r) /\ Alone(r) /\ Hubbed(r)
  BY <1>6, <1>8 DEF Queued, Alone, Hubbed
<1>10. Started(r) /\ r.start # NULL
  BY <1>1, <1>6, <1>8, NotNode DEF Started, Whole
<1>11. ASSUME NEW st \in AnyStub PROVE In(st, r) <=> Alike(st, c)
  <2>1. st.who # HUB /\ c.who # HUB
    BY SwitchAssumption DEF AnyStub, Queueing
  <2>2. CASE st.kind = "multi"
    <3>1. In(st, r) <=> Contains(r.queue, st.who)
      BY <2>2 DEF In
    <3>2. NodeOf(c.who, c.kind) = IF c.kind = "multi" THEN c.who ELSE HUB
      BY DEF NodeOf, Queueing
    <3> QED
      BY <3>1, <3>2, <2>1, <2>2, <1>6, <1>8 DEF Alike
  <2>3. CASE st.kind # "multi"
    BY <2>3, <1>6, <1>8 DEF In, Alike, AnyStub, Queueing
  <2> QED
    BY <2>2, <2>3
<1>12. Gains(s, r, c)
  BY <1>1, <1>11 DEF Gains, Nobody, Queueing
<1> QED
  BY <1>7, <1>8, <1>9, <1>10, <1>12 DEF Good, Whole, r, a, f

\* unhook_unique, with or without interceptors left.
LEMMA UniqueGoneIs ==
  ASSUME NEW s \in Switch, Whole(s), s.mode = "unique", s.start # NULL, NEW p \in Node
  PROVE  LET r == [s EXCEPT !.mode = "none", !.proxy = NULL, !.orig[p] = NULL]
         IN /\ \A st \in AnyStub : In(st, r) <=> In(st, s) /\ st.kind # "unique"
            /\ s.isize # 0 => Good(s, r) /\ r.start = s.start
            /\ s.isize = 0 => Nobody(r)
            /\ r \in Switch /\ r.addr = s.addr
<1> DEFINE o2 == [s.orig EXCEPT ![p] = NULL]
           r == [s EXCEPT !.mode = "none", !.proxy = NULL, !.orig[p] = NULL]
<1>1. o2 \in [Node -> Node \cup {NULL, RESUME}]
  BY DEF Switch
<1>2. r = [s EXCEPT !.mode = "none", !.proxy = NULL, !.orig = o2]
  OBVIOUS
<1> HIDE DEF o2, r
<1>3. r \in Switch
  BY <1>1, <1>2 DEF Switch
<1>4. /\ r.icept = s.icept /\ r.isize = s.isize /\ r.queue = s.queue /\ r.mode = "none"
      /\ r.proxy = NULL /\ r.hub = s.hub /\ r.start = s.start /\ r.addr = s.addr
  BY <1>2 DEF Switch
<1>5. s.queue = <<>> /\ s.hub = {} /\ \A b : ~Contains(s.queue, b)
  BY QueueOrNot
<1>6. s.isize # 0 => s.icept # {}
  BY FS_EmptySet DEF Whole, Started
<1>7. s.isize = 0 => s.icept = {}
  BY FS_EmptySet DEF Whole, Started
<1>8. Queued(r) /\ Alone(r) /\ Hubbed(r)
  BY <1>4, <1>5, EmptySeq DEF Queued, Linear, Alone, Hubbed
<1>9. s.isize # 0 => Started(r)
  BY <1>4, <1>6 DEF Whole, Started
<1>10. \A st \in AnyStub : In(st, r) <=> In(st, s) /\ st.kind # "unique"
  BY <1>4 DEF In, AnyStub
<1>11. s.isize = 0 => Nobody(r)
  BY <1>3, <1>4, <1>5, <1>7, <1>8, EmptyHasNobody
<1> QED
  BY <1>3, <1>4, <1>8, <1>9, <1>10, <1>11 DEF Good, Whole, r

\* A shared proxy leaves the hub.
LEMMA SharedGoneIs ==
  ASSUME NEW s \in Switch, Whole(s), s.start # NULL, NEW p \in s.hub
  PROVE  LET r == [s EXCEPT !.hub = @ \ {p}, !.orig[p] = NULL]
         IN /\ Good(s, r) /\ Rest(s, r) /\ r.queue = s.queue /\ r.mode = s.mode /\ r.proxy = s.proxy
            /\ r.start = s.start /\ r.hub = s.hub \ {p}
            /\ \A st \in AnyStub : In(st, r) <=> In(st, s) /\ ~(st.kind = "shared" /\ st.who = p)
<1> DEFINE o2 == [s.orig EXCEPT ![p] = NULL]
           h2 == s.hub \ {p}
           r == [s EXCEPT !.hub = @ \ {p}, !.orig[p] = NULL]
<1>1. o2 \in [Node -> Node \cup {NULL, RESUME}] /\ h2 \in SUBSET Proxy
  BY DEF Switch
<1>2. r = [s EXCEPT !.hub = h2, !.orig = o2]
  OBVIOUS
<1>3. \A b \in Node : b # p => o2[b] = s.orig[b]
  BY DEF Switch
<1>4. h2 = s.hub \ {p}
  OBVIOUS
<1> HIDE DEF o2, h2, r
<1>5. r \in Switch
  BY <1>1, <1>2 DEF Switch
<1>6. /\ r.icept = s.icept /\ r.isize = s.isize /\ r.queue = s.queue /\ r.mode = s.mode
      /\ r.proxy = s.proxy /\ r.hub = h2 /\ r.start = s.start /\ r.addr = s.addr /\ r.orig = o2
  BY <1>2 DEF Switch
<1>7. s.queue \in Seq(Node) /\ Contains(s.queue, HUB) /\ s.queue # <<>>
  BY QueueOrNot DEF Switch, Whole, Hubbed
<1>8. \A i \in 1 .. Len(s.queue) : s.queue[i] \in Node /\ s.queue[i] # p
  BY <1>7, ElementOfSeq DEF Whole, Hubbed, Contains
<1>9. Linear(s.queue, o2)
  <2>1. \A i \in 1 .. Len(s.queue) : o2[s.queue[i]] = s.orig[s.queue[i]]
    BY <1>3, <1>8
  <2> QED
    BY <2>1, <1>7, LinearOther DEF Whole, Queued
<1>10. Queued(r) /\ Hubbed(r) /\ Alone(r) /\ Started(r)
  BY <1>4, <1>6, <1>7, <1>9 DEF Whole, Queued, Hubbed, Alone, Started
<1>11. \A st \in AnyStub : In(st, r) <=> In(st, s) /\ ~(st.kind = "shared" /\ st.who = p)
  BY <1>4, <1>6 DEF In, AnyStub
<1> QED
  BY <1>4, <1>5, <1>6, <1>10, <1>11 DEF Good, Whole, Rest, r

\* unhook_multi and unhook_shared: s1 without the shared proxy, s2 without its node.
Gone1(s, c) == WithoutShared(s, c.who, c.kind)
Gone2(s, c) == IF LeavesQueue(s, c.who, c.kind) THEN Unlinked(Gone1(s, c), NodeOf(c.who, c.kind)) ELSE Gone1(s, c)
InQueue(s, c) == IF c.kind = "multi" THEN Contains(s.queue, c.who) ELSE c.who \in s.hub

\* A node and who stands behind it leave the queue.
LEMMA NodeGoneIs ==
  ASSUME NEW s \in Switch, Whole(s), s.start # NULL, NEW a \in Node, Contains(s.queue, a),
         a = HUB => s.hub = {}
  PROVE  LET r == Unlinked(s, a)
         IN /\ r \in Switch /\ r.addr = s.addr /\ r.isize = s.isize
            /\ r.queue # <<>> \/ r.isize # 0 => Good(s, r)
            /\ r.queue = <<>> /\ r.isize = 0 => Nobody(r)
            /\ \A st \in AnyStub : In(st, r) <=> In(st, s) /\ ~(st.kind = "multi" /\ st.who = a)
<1> DEFINE r == Unlinked(s, a)
<1>1. /\ r \in Switch /\ Queued(r) /\ Rest(s, r) /\ r.hub = s.hub
      /\ \A b : Contains(r.queue, b) <=> Contains(s.queue, b) /\ b # a
      /\ r.queue = <<>> => r.mode = "none" /\ r.proxy = NULL /\ r.start = s.start
      /\ r.queue # <<>> => r.mode = "queue" /\ (s.start = s.proxy => r.start = r.proxy)
      /\ r.queue # <<>> /\ s.start # s.proxy => r.start = s.start
  <2>1. Queued(s)
    BY DEF Whole
  <2> QED
    BY <2>1, UnlinkedIs, Zenon
<1> HIDE DEF r
<1>2. s.queue # <<>> /\ s.mode = "queue" /\ s.proxy \in Node /\ s.proxy # NULL
  BY QueueOrNot, NotNode
<1>3. Hubbed(r)
  BY <1>1 DEF Whole, Hubbed
<1>4. Alone(r)
  BY <1>1 DEF Alone
<1>5. r.queue # <<>> => r.proxy \in Node /\ r.proxy # NULL
  <2>1. r.queue # <<>> => 1 \in 1 .. Len(r.queue)
    BY <1>1, EmptySeq DEF Switch
  <2>2. r.queue # <<>> => r.queue[1] \in Node
    BY <2>1, <1>1, ElementOfSeq DEF Switch
  <2> QED
    BY <2>2, <1>1, NotNode DEF Queued
<1>6. s.start = s.proxy => s.icept = {}
  BY <1>2, NotNode DEF Whole, Started
<1>7. r.isize = 0 <=> s.icept = {}
  BY <1>1, FS_EmptySet DEF Rest, Whole, Started
<1>8. r.start # NULL
  BY <1>1, <1>5
<1>9. r.queue # <<>> \/ r.isize # 0 => Started(r)
  BY <1>1, <1>2, <1>5, <1>6, <1>7, <1>8 DEF Whole, Started, Rest
<1>10. r.queue = <<>> /\ r.isize = 0 => Nobody(r)
  BY <1>1, <1>3, <1>7, EmptyHasNobody DEF Rest
<1>11. ASSUME NEW st \in AnyStub PROVE In(st, r) <=> In(st, s) /\ ~(st.kind = "multi" /\ st.who = a)
  BY <1>1, <1>2 DEF In, AnyStub, Rest
<1> QED
  BY <1>1, <1>3, <1>4, <1>8, <1>9, <1>10, <1>11 DEF Good, Whole, Rest, r

LEMMA QueueGoneIs ==
  ASSUME NEW s \in Switch, Whole(s), s.start # NULL, NEW c, Queueing(c), InQueue(s, c)
  PROVE  LET s1 == Gone1(s, c)
             s2 == Gone2(s, c)
         IN /\ Good(s, s1)
            /\ \A st \in AnyStub : In(st, s1) => In(st, s)
            /\ \A st \in AnyStub : In(st, s) /\ ~Alike(st, c) => In(st, s1)
            /\ s2 \in Switch /\ s2.addr = s.addr /\ Loses(s, s2, c)
            /\ s2.queue # <<>> \/ s2.isize # 0 => Good(s, s2)
            /\ s2.queue = <<>> /\ s2.isize = 0 => Nobody(s2)
<1> DEFINE s1 == Gone1(s, c)
           s2 == Gone2(s, c)
<1>1. CASE c.kind = "multi"
  <2>1. s1 = s /\ s2 = Unlinked(s, c.who)
    BY <1>1 DEF Gone1, Gone2, WithoutShared, LeavesQueue, NodeOf
  <2>2. c.who \in Node /\ Contains(s.queue, c.who) /\ c.who # HUB
    BY <1>1, NotNode DEF Node, InQueue, Queueing
  <2>3. /\ s2 \in Switch /\ s2.addr = s.addr
        /\ s2.queue # <<>> \/ s2.isize # 0 => Good(s, s2)
        /\ s2.queue = <<>> /\ s2.isize = 0 => Nobody(s2)
        /\ \A st \in AnyStub : In(st, s2) <=> In(st, s) /\ ~(st.kind = "multi" /\ st.who = c.who)
    BY <2>1, <2>2, NodeGoneIs
  <2> HIDE DEF s1, s2
  <2>4. Good(s, s)
    BY DEF Good
  <2>5. Loses(s, s2, c)
    BY <2>3, <1>1 DEF Loses, Alike
  <2> QED
    BY <2>1, <2>3, <2>4, <2>5 DEF s1, s2
<1>2. CASE c.kind = "shared"
  <2>1. c.who \in s.hub
    BY <1>2 DEF InQueue
  <2>2. s1 = [s EXCEPT !.hub = @ \ {c.who}, !.orig[c.who] = NULL]
    BY <1>2 DEF Gone1, WithoutShared
  <2>3. s2 = IF s.hub = {c.who} THEN Unlinked(s1, HUB) ELSE s1
    BY <1>2 DEF Gone2, LeavesQueue, NodeOf
  <2>4. /\ Good(s, s1) /\ Rest(s, s1) /\ s1.queue = s.queue
        /\ s1.start = s.start /\ s1.hub = s.hub \ {c.who}
        /\ \A st \in AnyStub : In(st, s1) <=> In(st, s) /\ ~(st.kind = "shared" /\ st.who = c.who)
    <3> DEFINE r == [s EXCEPT !.hub = @ \ {c.who}, !.orig[c.who] = NULL]
    <3>1. /\ Good(s, r) /\ Rest(s, r) /\ r.queue = s.queue
          /\ r.start = s.start /\ r.hub = s.hub \ {c.who}
          /\ \A st \in AnyStub : In(st, r) <=> In(st, s) /\ ~(st.kind = "shared" /\ st.who = c.who)
      BY <2>1, SharedGoneIs
    <3>2. s1 = r
      BY <2>2
    <3> HIDE DEF r, s1
    <3> QED
      BY <3>1, <3>2
  <2> HIDE DEF s1, s2
  <2>5. Loses(s, s1, c)
    BY <2>4, <1>2 DEF Loses, Alike
  <2>6. CASE s.hub = {c.who}
    <3>1. s2 = Unlinked(s1, HUB) /\ s1.hub = {} /\ HUB \in Node
      BY <2>3, <2>4, <2>6, NotNode
    <3>2. Contains(s1.queue, HUB) /\ s1 \in Switch /\ Whole(s1) /\ s1.start # NULL /\ s1.addr = s.addr
      BY <2>1, <2>4 DEF Whole, Hubbed, Good
    <3>3. /\ s2 \in Switch /\ s2.addr = s1.addr
          /\ s2.queue # <<>> \/ s2.isize # 0 => Good(s1, s2)
          /\ s2.queue = <<>> /\ s2.isize = 0 => Nobody(s2)
          /\ \A st \in AnyStub : In(st, s2) <=> In(st, s1) /\ ~(st.kind = "multi" /\ st.who = HUB)
      BY <3>1, <3>2, NodeGoneIs
    <3>4. \A st \in AnyStub : st.who # HUB
      BY SwitchAssumption DEF AnyStub
    <3>5. Loses(s, s2, c)
      BY <3>3, <3>4, <2>5 DEF Loses
    <3>6. Good(s1, s2) => Good(s, s2)
      BY <3>2 DEF Good
    <3> QED
      BY <3>2, <3>3, <3>5, <3>6, <2>4, <2>5 DEF Loses, s1, s2
  <2>7. CASE s.hub # {c.who}
    <3>1. s2 = s1
      BY <2>3, <2>7
    <3>2. s2 \in Switch /\ s2.addr = s.addr
      BY <3>1, <2>4 DEF Good
    <3>3. s2.queue # <<>>
      BY <3>1, <2>1, <2>4, QueueOrNot
    <3> QED
      BY <3>1, <3>2, <3>3, <2>4, <2>5 DEF Loses, s1, s2
  <2> QED
    BY <2>6, <2>7
<1> QED
  BY <1>1, <1>2 DEF Queueing
=============================================================================
