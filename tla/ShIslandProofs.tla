--------------------------- MODULE ShIslandProofs ---------------------------
(***************************************************************************)
(* Islands, for any threads, ELFs, layouts, functions, pages and delay.    *)
(*                                                                         *)
(* First the gaps as such: they have no byte of a segment, but those of    *)
(* useless symbols, and no two gaps of an ELF share a byte, so that the    *)
(* flags of all gaps of an object can be one set.                          *)
(*                                                                         *)
(* Then the allocators at work.  The steps of ShIsland are steps of        *)
(* ShTrampo, so what ShTrampoProofs says of slots holds here.  IslandInv   *)
(* is inductive:                                                           *)
(*   PageInv    the slots that are out are the islands of hooks            *)
(*   ElfTypes   what the state of sh_elf.c is made of                      *)
(*   HookInv    a hook in a call of sh_elf.c is in the tree or waited for, *)
(*              and its ELF is in memory                                   *)
(*   CloseInv   what a dlclose has done so far                             *)
(*   ListInv    every ELF in memory has one object at most                 *)
(*   UseInv     the hooks in an ELF use its object, or make it             *)
(*   OwnerInv   an island, or one being freed, lies in gaps of its ELF     *)
(*   ApartInv   no unit is two islands'                                    *)
(*   UsedInv    the units in use are those of the islands                  *)
(*   RestInv    a unit's time is not before it was given back last         *)
(* All but the first are claimed as long as no hook came too late for its  *)
(* ELF, as the properties are.                                             *)
(***************************************************************************)
EXTENDS ShIsland, ShTrampoProofs, SequenceTheorems

Stages == {"idle", "resolved", "anon", "gap", "hooked", "freeing"}
Searching == {"find", "create", "insert", "alloc"}
AllGaps(l) == E!PhdrGaps(l) \cup E!SymbolGaps(l, Len(Symbols[l]))

\* A hook has an island only when it is done, and is in a call of sh_trampo.c or sh_elf.c
\* only before and after; the slots that are out are the hooks'.
Island == [type : {ANON, GAP}, addr : Int]
CallsIn(s) == CASE s = "anon" -> {"alloc", "abort"} [] s = "freeing" -> {"idle", "free"} [] OTHER -> {"idle"}
Control(s, p, e) == /\ p \in CallsIn(s)
                    /\ s = "gap" <=> e \in Searching
                    /\ s \in {"gap", "freeing"} \/ e = "idle"
                    /\ e # "destroy" /\ (e = "free" => s = "freeing" /\ p = "idle")
Fitting(s, x, g) == /\ s # "idle" => g \in Target
                    /\ s # "hooked" => x = NoIsland
                    /\ s = "hooked" => x.addr # 0
PageTypes ==
  /\ isl \in [Hook -> Island] /\ stage \in [Hook -> Stages] /\ target \in [Hook -> Target \cup {NoTarget}]
  /\ epc \in [Thread -> Searching \cup {"idle", "free", "destroy"}]
  /\ DOMAIN rest = E!Address
PageInv ==
  /\ PageTypes
  /\ \A t \in Hook : Control(stage[t], pc[t], epc[t]) /\ Fitting(stage[t], isl[t], target[t])
  /\ out = {isl[t].addr : t \in InPage}
  /\ \A t, u \in InPage : isl[t].addr = isl[u].addr => t = u

\* The types of sh_elf.c's state.
Object == [lib : Lib \cup {None}, gaps : SUBSET (Int \X Int), useless : BOOLEAN, used : SUBSET Int,
           time : [E!Address -> Nat] \cup {<<>>}, destroyed : BOOLEAN]
ElfTypes ==
  /\ loaded \subseteq Lib /\ elfs \in Seq(Obj) /\ obj \in [Obj -> Object]
  /\ self \in [Thread -> Obj \cup {None}]
  /\ known \in [Thread -> Lib \cup {None}]
  /\ want \in [Thread -> [pc : Nat, size : Nat, low : Nat, high : Nat, addr : Int]]
  /\ early \in [Thread -> Nat]
  /\ rest \in [E!Address -> Nat]
  /\ registered \subseteq Hook /\ removed \subseteq Hook
  /\ closing \in Lib \cup {None} /\ cleaned \in BOOLEAN

\* Which call of sh_elf.c a hook is in, and that a dlclose waits for those in its ELF.
InCall(t) == stage[t] \in {"anon", "gap", "hooked"} \/ epc[t] = "free"
HookInv(t) ==
  /\ stage[t] = "gap" => want[t].pc = target[t].pc /\ want[t].size = target[t].size
                         /\ known[t] \in {None, target[t].lib}
  /\ epc[t] = "free" => want[t].size = target[t].size
  /\ self[t] = None <=> epc[t] \in {"idle", "find", "create"}
  /\ stage[t] = "resolved" => t \notin removed
  /\ t \in registered => stage[t] # "resolved" /\ stage[t] # "idle" /\ t \notin removed
  /\ InCall(t) => /\ t \in registered \cup removed
                  /\ target[t].lib \in loaded
                  /\ t \in removed <=> target[t].lib = closing
CloseInv ==
  /\ epc[Closer] \in {"idle", "destroy"}
  /\ epc[Closer] = "idle" <=> self[Closer] = None
  /\ epc[Closer] = "destroy" => cleaned /\ self[Closer] \notin E!Listed
  /\ cleaned => closing # None /\ removed = {}
  /\ closing \in loaded \/ (closing = None /\ removed = {})
  /\ \A l, k \in loaded : l # k => E!Pages(l) \cap E!Pages(k) = {}

\* One object for an ELF in memory; none of one that was cleaned up.
Stays(l) == l \in loaded /\ ~(l = closing /\ cleaned)
ListInv ==
  /\ \A o \in E!Listed : Stays(obj[o].lib) /\ ~obj[o].destroyed /\ obj[o].gaps \subseteq AllGaps(obj[o].lib)
                         /\ DOMAIN obj[o].time = E!Address
  /\ \A i, j \in DOMAIN elfs : obj[elfs[i]].lib = obj[elfs[j]].lib => i = j
Made(t) == obj[self[t]] = [lib |-> target[t].lib, gaps |-> E!PhdrGaps(target[t].lib),
                           useless |-> obj[self[t]].useless, used |-> {},
                           time |-> [u \in E!Address |-> 0], destroyed |-> FALSE]
UseInv ==
  /\ \A t \in Hook : epc[t] \in {"alloc", "free"} => self[t] \in E!Listed /\ obj[self[t]].lib = target[t].lib
  /\ \A t \in Hook : epc[t] = "insert" =>
       /\ Made(t) /\ self[t] \notin E!Listed /\ \A u \in Thread \ {t} : self[u] # self[t]

\* The units in use are those of the islands and of those being freed, each its own.
Owner(t) == (stage[t] = "hooked" /\ isl[t].type = GAP) \/ epc[t] = "free"
Area(t) == E!Span(IF stage[t] = "hooked" THEN isl[t].addr ELSE want[t].addr, target[t].size)
Owners(l) == {t \in Hook : Owner(t) /\ target[t].lib = l}
OwnerInv == \A t \in Hook : Owner(t) =>
  \E o \in E!Listed : obj[o].lib = target[t].lib /\ Area(t) \subseteq E!Units(obj[o].gaps) \cap obj[o].used
ApartInv == \A t, u \in Hook : Owner(t) /\ Owner(u) /\ t # u => Area(t) \cap Area(u) = {}
UsedInv == \A o \in E!Listed : obj[o].lib # closing =>
  obj[o].used = UNION {Area(t) : t \in Owners(obj[o].lib)}

\* The time of a unit that is not in use is not before it was given back.
RestInv ==
  /\ \A u \in E!Address : rest[u] > 0 => \E l \in loaded : u \in E!Pages(l)
  /\ \A l \in loaded : Stays(l) /\ (\A o \in E!Listed : obj[o].lib # l) =>
       \A u \in E!Address \cap E!Pages(l) : rest[u] = 0
  /\ \A o \in E!Listed : \A u \in E!Address \cap E!Pages(obj[o].lib) :
       u \notin obj[o].used => rest[u] <= obj[o].time[u]
  /\ \A t \in Hook : epc[t] = "free" => \A u \in Area(t) : rest[u] = early[t]

ElfInv ==
  /\ ElfTypes /\ (\A t \in Hook : HookInv(t)) /\ CloseInv
  /\ ListInv /\ UseInv /\ OwnerInv /\ ApartInv /\ UsedInv /\ RestInv
IslandInv == PageInv /\ (late \/ ElfInv)

-----------------------------------------------------------------------------
(* Gaps.                                                                   *)

LEMMA Rounding ==
  ASSUME NEW a \in Int
  PROVE  /\ E!PageStart(a) \in Int /\ E!PageStart(a) <= a
         /\ E!PageEnd(a) \in Int /\ a <= E!PageEnd(a)
         /\ E!AlignStart(a) \in Int /\ E!AlignStart(a) <= a
         /\ E!AlignEnd(a) \in Int /\ a <= E!AlignEnd(a)
<1>1. ASSUME NEW n \in Nat \ {0}, NEW x \in Int
      PROVE  x % n \in Int /\ 0 <= x % n /\ x % n < n
  BY <1>1
<1>2. Page \in Nat \ {0} /\ Unit \in Nat \ {0}
  BY IslandAssumption DEF E!ElfConstants
<1>3. a % Page \in Int /\ 0 <= a % Page /\ (a + Page - 1) % Page \in Int /\ (a + Page - 1) % Page < Page
  BY <1>1, <1>2
<1>4. a % Unit \in Int /\ 0 <= a % Unit /\ (a + Unit - 1) % Unit \in Int /\ (a + Unit - 1) % Unit < Unit
  BY <1>1, <1>2
<1> QED
  BY <1>2, <1>3, <1>4 DEF E!PageStart, E!PageEnd, E!AlignStart, E!AlignEnd

Begin(l, i) == Bias[l] + Segments[l][i].vaddr

\* What the layout of an ELF says of its segments.
LEMMA Layout ==
  ASSUME NEW l \in Lib
  PROVE  /\ Page \in Nat \ {0} /\ Unit \in Nat \ {0} /\ MinAlloc \in Nat
         /\ Bias[l] \in Nat \ {0} /\ E!PageStart(Bias[l]) = Bias[l]
         /\ Len(Segments[l]) \in DOMAIN Segments[l] /\ DOMAIN Segments[l] = 1 .. Len(Segments[l])
         /\ Len(Segments[l]) \in Nat
         /\ \A i \in DOMAIN Segments[l] :
              /\ Begin(l, i) \in Int /\ E!MemEnd(l, i) \in Int
              /\ Bias[l] <= Begin(l, i) /\ Begin(l, i) < E!MemEnd(l, i)
              /\ E!PageEnd(E!MemEnd(l, i)) \in Int /\ E!MemEnd(l, i) <= E!PageEnd(E!MemEnd(l, i))
              /\ E!PageStart(Begin(l, i)) \in Int /\ E!PageStart(Begin(l, i)) <= Begin(l, i)
              /\ E!AlignEnd(E!MemEnd(l, i)) \in Int /\ E!MemEnd(l, i) <= E!AlignEnd(E!MemEnd(l, i))
              /\ E!BytesOf(l, i) = Begin(l, i) .. E!MemEnd(l, i) - 1
         /\ \A i, j \in DOMAIN Segments[l] :
              i < j => /\ E!PageEnd(E!MemEnd(l, i)) <= E!PageStart(Begin(l, j))
                       /\ E!PageEnd(E!MemEnd(l, i)) <= Begin(l, j)
<1>1. /\ Page \in Nat \ {0} /\ Unit \in Nat \ {0} /\ MinAlloc \in Nat
      /\ Bias[l] \in Nat \ {0} /\ Bias[l] % Page = 0
      /\ Segments[l] # <<>>
      /\ Segments[l] \in Seq([vaddr : Nat, memsz : Nat \ {0}, filesz : Nat, exec : BOOLEAN])
      /\ \A i, j \in DOMAIN Segments[l] :
           i < j => E!PageEnd(E!MemEnd(l, i)) <= E!PageStart(Begin(l, j))
  BY IslandAssumption DEF E!ElfConstants, Begin
<1>2. DOMAIN Segments[l] = 1 .. Len(Segments[l]) /\ Len(Segments[l]) \in Nat /\ Len(Segments[l]) # 0
  BY <1>1, LenProperties, EmptySeq
<1>3. ASSUME NEW i \in DOMAIN Segments[l]
      PROVE  Segments[l][i].vaddr \in Nat /\ Segments[l][i].memsz \in Nat \ {0}
  <2>1. Segments[l][i] \in [vaddr : Nat, memsz : Nat \ {0}, filesz : Nat, exec : BOOLEAN]
    BY <1>1, <1>2, ElementOfSeq
  <2> QED
    BY <2>1
<1>4. E!PageStart(Bias[l]) = Bias[l]
  BY <1>1 DEF E!PageStart
<1>5. ASSUME NEW i \in DOMAIN Segments[l]
      PROVE  /\ Begin(l, i) \in Int /\ E!MemEnd(l, i) \in Int
             /\ Bias[l] <= Begin(l, i) /\ Begin(l, i) < E!MemEnd(l, i)
  <2>1. Bias[l] \in Nat /\ Segments[l][i].vaddr \in Nat /\ Segments[l][i].memsz \in Nat \ {0}
    BY <1>1, <1>3
  <2> QED
    BY <2>1 DEF E!MemEnd, Begin
<1>6. ASSUME NEW i \in DOMAIN Segments[l]
      PROVE  /\ E!PageEnd(E!MemEnd(l, i)) \in Int /\ E!MemEnd(l, i) <= E!PageEnd(E!MemEnd(l, i))
             /\ E!AlignEnd(E!MemEnd(l, i)) \in Int /\ E!MemEnd(l, i) <= E!AlignEnd(E!MemEnd(l, i))
  <2> DEFINE a == E!MemEnd(l, i)
  <2>1. a \in Int
    BY <1>5
  <2> HIDE DEF a
  <2>2. /\ E!PageEnd(a) \in Int /\ a <= E!PageEnd(a)
        /\ E!AlignEnd(a) \in Int /\ a <= E!AlignEnd(a)
    BY <2>1, Rounding
  <2> QED
    BY <2>2 DEF a
<1>7. ASSUME NEW i \in DOMAIN Segments[l]
      PROVE  /\ E!PageStart(Begin(l, i)) \in Int /\ E!PageStart(Begin(l, i)) <= Begin(l, i)
  BY <1>5, Rounding
<1>8. ASSUME NEW i \in DOMAIN Segments[l]
      PROVE  E!BytesOf(l, i) = Begin(l, i) .. E!MemEnd(l, i) - 1
  <2>1. Bias[l] \in Nat /\ Segments[l][i].vaddr \in Nat /\ Segments[l][i].memsz \in Nat \ {0}
    BY <1>1, <1>3
  <2> QED
    BY <2>1 DEF E!BytesOf, E!MemEnd, Begin
<1>9. ASSUME NEW i \in DOMAIN Segments[l], NEW j \in DOMAIN Segments[l], i < j
      PROVE  E!PageEnd(E!MemEnd(l, i)) <= Begin(l, j)
  <2>1. /\ E!PageEnd(E!MemEnd(l, i)) <= E!PageStart(Begin(l, j)) /\ Begin(l, j) \in Int
        /\ E!PageEnd(E!MemEnd(l, i)) \in Int
        /\ E!PageStart(Begin(l, j)) \in Int /\ E!PageStart(Begin(l, j)) <= Begin(l, j)
    BY <1>1, <1>5, <1>6, <1>7, <1>9
  <2> QED
    BY <2>1
<1>10. Len(Segments[l]) \in DOMAIN Segments[l]
  BY <1>2
<1> QED
  BY <1>1, <1>2, <1>4, <1>5, <1>6, <1>7, <1>8, <1>9, <1>10

\* A segment lies in its ELF's memory.
LEMMA SegmentBytes ==
  ASSUME NEW l \in Lib, NEW i \in DOMAIN Segments[l], NEW b \in E!BytesOf(l, i)
  PROVE  b \in Int /\ Begin(l, i) <= b /\ b < E!MemEnd(l, i) /\ b \in E!Pages(l)
<1> DEFINE n == Len(Segments[l])
<1>1. b \in Int /\ Begin(l, i) <= b /\ b < E!MemEnd(l, i)
  <2>1. E!BytesOf(l, i) = Begin(l, i) .. E!MemEnd(l, i) - 1 /\ Begin(l, i) \in Int /\ E!MemEnd(l, i) \in Int
    BY Layout, Zenon
  <2> QED
    BY <2>1
<1>2. E!MemEnd(l, i) <= E!PageEnd(E!MemEnd(l, n)) /\ E!PageEnd(E!MemEnd(l, n)) \in Int
  <2>1. n \in DOMAIN Segments[l] /\ DOMAIN Segments[l] = 1 .. n /\ n \in Nat
    BY Layout, Zenon
  <2>2. \A j \in DOMAIN Segments[l] :
          /\ E!MemEnd(l, j) \in Int /\ E!PageEnd(E!MemEnd(l, j)) \in Int
          /\ E!MemEnd(l, j) <= E!PageEnd(E!MemEnd(l, j))
          /\ Begin(l, j) \in Int /\ Begin(l, j) < E!MemEnd(l, j)
    BY Layout, Zenon
  <2> HIDE DEF n
  <2>3. CASE i = n
    BY <2>1, <2>2, <2>3
  <2>4. CASE i < n
    <3>1. E!PageEnd(E!MemEnd(l, i)) <= Begin(l, n)
      BY <2>1, <2>4, Layout, Zenon
    <3> QED
      BY <2>1, <2>2, <3>1
  <2>5. i = n \/ i < n
    BY <2>1
  <2> QED
    BY <2>3, <2>4, <2>5
<1>3. Bias[l] <= b /\ b <= E!PageEnd(E!MemEnd(l, n)) - 1
  <2>1. /\ Bias[l] \in Int /\ Begin(l, i) \in Int /\ Bias[l] <= Begin(l, i)
        /\ E!MemEnd(l, i) \in Int
    <3>1. Bias[l] \in Nat \ {0}
      BY Layout, Zenon
    <3>2. Begin(l, i) \in Int /\ Bias[l] <= Begin(l, i) /\ E!MemEnd(l, i) \in Int
      BY Layout, Zenon
    <3> QED
      BY <3>1, <3>2
  <2> QED
    BY <1>1, <1>2, <2>1
<1> QED
  BY <1>1, <1>2, <1>3, Layout DEF E!Pages

LEMMA InPages ==
  ASSUME NEW l \in Lib, NEW b, E!InElf(b, l)
  PROVE  b \in E!Pages(l)
BY SegmentBytes DEF E!InElf

\* A gap behind a segment lies between it and the next one.
LEMMA SegmentGapBytes ==
  ASSUME NEW l \in Lib, NEW i \in DOMAIN Segments[l]
  PROVE  \E low, high \in Int :
           /\ E!SegmentGap(l, i) = <<low, high>>
           /\ E!MemEnd(l, i) <= low /\ high <= E!PageEnd(E!MemEnd(l, Len(Segments[l])))
           /\ \A j \in DOMAIN Segments[l] : i < j => high <= Begin(l, j)
<1> DEFINE n == Len(Segments[l])
           high == E!NextPage(l, i)
           last == E!PageEnd(E!MemEnd(l, n))
<1>1. /\ n \in DOMAIN Segments[l] /\ n \in Nat /\ DOMAIN Segments[l] = 1 .. n
      /\ E!MemEnd(l, n) \in Int /\ last \in Int /\ E!MemEnd(l, n) <= last
  BY Layout
<1>2. /\ high \in Int /\ high <= last
      /\ \A j \in DOMAIN Segments[l] : i < j => high <= Begin(l, j)
  <2>1. CASE l \in ByKernel \/ i = n
    <3>1. high = E!PageEnd(E!MemEnd(l, i))
      BY <2>1 DEF E!NextPage
    <3>2. i = n \/ i < n
      BY <1>1
    <3>3. high <= last
      <4>1. CASE i < n
        <5>1. high <= Begin(l, n) /\ Begin(l, n) < E!MemEnd(l, n) /\ high \in Int /\ Begin(l, n) \in Int
          BY <1>1, <3>1, <4>1, Layout
        <5> QED
          BY <1>1, <5>1
      <4> QED
        BY <1>1, <3>1, <3>2, <4>1
    <3> QED
      BY <3>1, <3>3, Layout
  <2>2. CASE ~(l \in ByKernel \/ i = n)
    <3>1. high = E!PageStart(Begin(l, i + 1)) /\ i + 1 \in DOMAIN Segments[l] /\ i < n
      BY <1>1, <2>2 DEF E!NextPage, Begin
    <3>2. high \in Int /\ high <= Begin(l, i + 1) /\ Begin(l, i + 1) \in Int
      BY <3>1, Layout
    <3>3. ASSUME NEW j \in DOMAIN Segments[l], i < j
          PROVE  high <= Begin(l, j)
      <4>1. j = i + 1 \/ i + 1 < j
        BY <1>1, <3>3
      <4>2. CASE i + 1 < j
        <5>1. /\ E!PageEnd(E!MemEnd(l, i + 1)) <= Begin(l, j) /\ Begin(l, j) \in Int
              /\ Begin(l, i + 1) < E!MemEnd(l, i + 1) /\ E!MemEnd(l, i + 1) \in Int
              /\ E!MemEnd(l, i + 1) <= E!PageEnd(E!MemEnd(l, i + 1)) /\ E!PageEnd(E!MemEnd(l, i + 1)) \in Int
          BY <3>1, <4>2, Layout
        <5> HIDE DEF high
        <5> QED
          BY <3>2, <5>1
      <4> QED
        BY <3>2, <4>1, <4>2
    <3>4. high <= Begin(l, n) /\ Begin(l, n) < E!MemEnd(l, n) /\ Begin(l, n) \in Int
      BY <1>1, <3>1, <3>3, Layout
    <3> HIDE DEF high, last
    <3>5. high <= last
      BY <1>1, <3>2, <3>4
    <3> QED
      BY <3>2, <3>3, <3>5
  <2> QED
    BY <2>1, <2>2
<1>3. E!SegmentGap(l, i) \in {<<E!AlignEnd(E!MemEnd(l, i)), high>>, <<E!PageEnd(E!MemEnd(l, i)), high>>}
  BY DEF E!SegmentGap
<1>4. \A low \in {E!AlignEnd(E!MemEnd(l, i)), E!PageEnd(E!MemEnd(l, i))} : low \in Int /\ E!MemEnd(l, i) <= low
  BY Layout
<1> HIDE DEF high
<1>5. PICK low \in {E!AlignEnd(E!MemEnd(l, i)), E!PageEnd(E!MemEnd(l, i))} : E!SegmentGap(l, i) = <<low, high>>
  BY <1>3
<1> QED
  BY <1>2, <1>4, <1>5

\* Behind a segment's gap comes the next segment, and in it none.
LEMMA BehindSegment ==
  ASSUME NEW l \in Lib, NEW i \in DOMAIN Segments[l], NEW b \in Int,
         E!MemEnd(l, i) <= b, \A j \in DOMAIN Segments[l] : i < j => b < Begin(l, j)
  PROVE  ~E!InElf(b, l)
<1> SUFFICES ASSUME NEW j \in DOMAIN Segments[l], b \in E!BytesOf(l, j)
             PROVE  FALSE
  BY DEF E!InElf
<1>1. /\ Begin(l, j) <= b /\ b < E!MemEnd(l, j)
      /\ Begin(l, j) \in Int /\ E!MemEnd(l, j) \in Int /\ E!MemEnd(l, i) \in Int /\ Begin(l, i) \in Int
      /\ Begin(l, i) < E!MemEnd(l, i)
  <2>1. Begin(l, j) <= b /\ b < E!MemEnd(l, j)
    BY SegmentBytes
  <2> QED
    BY <2>1, Layout
<1>2. i \in Nat /\ j \in Nat
  <2>1. DOMAIN Segments[l] = 1 .. Len(Segments[l]) /\ Len(Segments[l]) \in Nat
    BY Layout
  <2> QED
    BY <2>1
<1>3. CASE j < i
  <2>1. E!PageEnd(E!MemEnd(l, j)) <= Begin(l, i) /\ E!MemEnd(l, j) <= E!PageEnd(E!MemEnd(l, j))
        /\ E!PageEnd(E!MemEnd(l, j)) \in Int
    BY <1>3, Layout
  <2> QED
    BY <1>1, <2>1
<1> QED
  BY <1>1, <1>2, <1>3

\* The gap of a symbol lies in it, and it lies in a segment.
LEMMA SymbolGapBytes ==
  ASSUME NEW l \in Lib, NEW i \in DOMAIN Symbols[l]
  PROVE  /\ DOMAIN Symbols[l] = 1 .. Len(Symbols[l])
         /\ \E j \in DOMAIN Segments[l] : E!BytesOfSymbol(l, i) \subseteq E!BytesOf(l, j)
         /\ \E low, high \in Int : /\ E!SymbolGap(Symbols[l][i]) = <<low, high>>
                                   /\ low .. high - 1 \subseteq E!BytesOfSymbol(l, i)
<1>1. Symbols[l] \in Seq(Nat \X Nat)
  BY IslandAssumption DEF E!ElfConstants
<1>2. DOMAIN Symbols[l] = 1 .. Len(Symbols[l])
  BY <1>1, LenProperties
<1>3. Symbols[l][i] \in Nat \X Nat
  BY <1>1, <1>2, ElementOfSeq
<1>4. PICK x, n \in Nat : Symbols[l][i] = <<x, n>>
  BY <1>3
<1>5. x \in Int /\ x + n \in Int /\ Symbols[l][i][1] = x /\ Symbols[l][i][2] = n
  BY <1>4
<1>6. /\ E!AlignEnd(x) \in Int /\ x <= E!AlignEnd(x)
      /\ E!AlignStart(x + n) \in Int /\ E!AlignStart(x + n) <= x + n
  <2>1. E!AlignEnd(x) \in Int /\ x <= E!AlignEnd(x)
    BY <1>5, Rounding
  <2> DEFINE end == x + n
  <2>2. end \in Int
    BY <1>5
  <2> HIDE DEF end
  <2>3. E!AlignStart(end) \in Int /\ E!AlignStart(end) <= end
    BY <2>2, Rounding
  <2> QED
    BY <2>1, <2>3 DEF end
<1>7. E!SymbolGap(Symbols[l][i]) = <<E!AlignEnd(x), E!AlignStart(x + n)>>
  BY <1>5 DEF E!SymbolGap
<1>8. E!BytesOfSymbol(l, i) = x .. x + n - 1
  BY <1>5 DEF E!BytesOfSymbol
<1>9. E!AlignEnd(x) .. E!AlignStart(x + n) - 1 \subseteq E!BytesOfSymbol(l, i)
  BY <1>5, <1>6, <1>8
<1>10. \E j \in DOMAIN Segments[l] : E!BytesOfSymbol(l, i) \subseteq E!BytesOf(l, j)
  BY IslandAssumption DEF E!ElfConstants
<1> QED
  BY <1>2, <1>6, <1>7, <1>9, <1>10

\* Every gap is a segment's or a symbol's.
LEMMA GapKinds ==
  ASSUME NEW l \in Lib, NEW g \in AllGaps(l)
  PROVE  \/ \E i \in DOMAIN Segments[l] : g = E!SegmentGap(l, i)
         \/ \E i \in DOMAIN Symbols[l] : g = E!SymbolGap(Symbols[l][i])
<1>1. Symbols[l] \in Seq(Nat \X Nat)
  BY IslandAssumption DEF E!ElfConstants
<1>2. DOMAIN Symbols[l] = 1 .. Len(Symbols[l])
  BY <1>1, LenProperties
<1> QED
  BY <1>2 DEF AllGaps, E!PhdrGaps, E!SymbolGaps

BytesOfGap(g) == g[1] .. g[2] - 1

\* A gap lies in the ELF's memory, and no segment uses it, unless for a useless symbol.
LEMMA GapBytes ==
  ASSUME NEW l \in Lib, NEW g \in AllGaps(l)
  PROVE  /\ g \in Int \X Int
         /\ \A b \in BytesOfGap(g) :
              /\ b \in E!Pages(l)
              /\ E!InElf(b, l) => \E i \in DOMAIN Symbols[l] : b \in E!BytesOfSymbol(l, i)
<1>1. ASSUME NEW i \in DOMAIN Segments[l], g = E!SegmentGap(l, i)
      PROVE  /\ g \in Int \X Int
             /\ \A b \in BytesOfGap(g) : b \in E!Pages(l) /\ ~E!InElf(b, l)
  <2>1. PICK low, high \in Int :
           /\ g = <<low, high>>
           /\ E!MemEnd(l, i) <= low /\ high <= E!PageEnd(E!MemEnd(l, Len(Segments[l])))
           /\ \A j \in DOMAIN Segments[l] : i < j => high <= Begin(l, j)
    BY <1>1, SegmentGapBytes
  <2>2. ASSUME NEW b \in BytesOfGap(g)
        PROVE  b \in Int /\ low <= b /\ b < high
    BY <2>1, <2>2 DEF BytesOfGap
  <2>3. /\ E!MemEnd(l, i) \in Int /\ Begin(l, i) \in Int /\ Bias[l] \in Int
        /\ Bias[l] <= Begin(l, i) /\ Begin(l, i) < E!MemEnd(l, i)
        /\ Len(Segments[l]) \in DOMAIN Segments[l]
        /\ E!PageEnd(E!MemEnd(l, Len(Segments[l]))) \in Int
        /\ \A j \in DOMAIN Segments[l] : Begin(l, j) \in Int
        /\ E!PageStart(Bias[l]) = Bias[l]
    <3>1. /\ Bias[l] \in Nat \ {0} /\ E!PageStart(Bias[l]) = Bias[l]
          /\ Len(Segments[l]) \in DOMAIN Segments[l]
      BY Layout, Zenon
    <3>2. \A j \in DOMAIN Segments[l] :
            /\ E!MemEnd(l, j) \in Int /\ Begin(l, j) \in Int
            /\ Bias[l] <= Begin(l, j) /\ Begin(l, j) < E!MemEnd(l, j)
            /\ E!PageEnd(E!MemEnd(l, j)) \in Int
      BY Layout, Zenon
    <3> QED
      BY <3>1, <3>2
  <2>4. ASSUME NEW b \in BytesOfGap(g)
        PROVE  ~E!InElf(b, l)
    <3>1. b \in Int /\ E!MemEnd(l, i) <= b
      BY <2>1, <2>2, <2>3
    <3>2. \A j \in DOMAIN Segments[l] : i < j => b < Begin(l, j)
      BY <2>1, <2>2, <2>3
    <3> QED
      BY <3>1, <3>2, BehindSegment
  <2>5. ASSUME NEW b \in BytesOfGap(g)
        PROVE  b \in E!Pages(l)
    <3>1. b \in Int /\ Bias[l] <= b /\ b <= E!PageEnd(E!MemEnd(l, Len(Segments[l]))) - 1
      BY <2>1, <2>2, <2>3, SMTT(30)
    <3> QED
      BY <2>3, <3>1 DEF E!Pages
  <2> QED
    BY <2>1, <2>4, <2>5
<1>2. ASSUME NEW i \in DOMAIN Symbols[l], g = E!SymbolGap(Symbols[l][i])
      PROVE  /\ g \in Int \X Int
             /\ \A b \in BytesOfGap(g) : b \in E!Pages(l) /\ b \in E!BytesOfSymbol(l, i)
  <2>1. PICK low, high \in Int : g = <<low, high>> /\ low .. high - 1 \subseteq E!BytesOfSymbol(l, i)
    BY <1>2, SymbolGapBytes
  <2>2. PICK j \in DOMAIN Segments[l] : E!BytesOfSymbol(l, i) \subseteq E!BytesOf(l, j)
    BY SymbolGapBytes
  <2>3. BytesOfGap(g) \subseteq E!BytesOfSymbol(l, i)
    BY <2>1 DEF BytesOfGap
  <2> QED
    BY <2>1, <2>2, <2>3, SegmentBytes
<1> QED
  BY <1>1, <1>2, GapKinds

\* No byte is in two gaps of an ELF: the flags of one gap say nothing of another's units.
LEMMA GapsApart ==
  ASSUME NEW l \in Lib, NEW g \in AllGaps(l), NEW h \in AllGaps(l), g # h
  PROVE  BytesOfGap(g) \cap BytesOfGap(h) = {}
<1>1. ASSUME NEW x \in AllGaps(l), NEW y \in AllGaps(l), NEW i \in DOMAIN Segments[l], NEW j \in DOMAIN Segments[l],
             x = E!SegmentGap(l, i), y = E!SegmentGap(l, j), i < j
      PROVE  BytesOfGap(x) \cap BytesOfGap(y) = {}
  <2>1. PICK low, high \in Int : x = <<low, high>> /\ high <= Begin(l, j)
    BY <1>1, SegmentGapBytes
  <2>2. PICK low2, high2 \in Int : y = <<low2, high2>> /\ E!MemEnd(l, j) <= low2
    BY <1>1, SegmentGapBytes
  <2>3. Begin(l, j) < E!MemEnd(l, j) /\ Begin(l, j) \in Int /\ E!MemEnd(l, j) \in Int
    BY Layout
  <2>4. high <= low2
    BY <2>1, <2>2, <2>3
  <2> QED
    BY <2>1, <2>2, <2>4 DEF BytesOfGap
<1>2. ASSUME NEW x \in AllGaps(l), NEW i \in DOMAIN Segments[l], NEW j \in DOMAIN Symbols[l], NEW y \in AllGaps(l),
             x = E!SegmentGap(l, i), y = E!SymbolGap(Symbols[l][j])
      PROVE  BytesOfGap(x) \cap BytesOfGap(y) = {}
  <2>1. PICK low, high \in Int :
           /\ x = <<low, high>> /\ E!MemEnd(l, i) <= low
           /\ \A k \in DOMAIN Segments[l] : i < k => high <= Begin(l, k)
    BY <1>2, SegmentGapBytes
  <2>2. ASSUME NEW b \in BytesOfGap(x)
        PROVE  ~E!InElf(b, l)
    <3>1. b \in Int /\ low <= b /\ b < high /\ E!MemEnd(l, i) \in Int
          /\ \A k \in DOMAIN Segments[l] : Begin(l, k) \in Int
      BY <2>1, Layout DEF BytesOfGap
    <3>2. E!MemEnd(l, i) <= b
      BY <2>1, <3>1
    <3>3. \A k \in DOMAIN Segments[l] : i < k => b < Begin(l, k)
      BY <2>1, <3>1
    <3> QED
      BY <3>1, <3>2, <3>3, BehindSegment
  <2>3. PICK low2, high2 \in Int : y = <<low2, high2>> /\ low2 .. high2 - 1 \subseteq E!BytesOfSymbol(l, j)
    BY <1>2, SymbolGapBytes
  <2>4. PICK k \in DOMAIN Segments[l] : E!BytesOfSymbol(l, j) \subseteq E!BytesOf(l, k)
    BY SymbolGapBytes
  <2>5. \A b \in BytesOfGap(y) : E!InElf(b, l)
    BY <2>3, <2>4 DEF BytesOfGap, E!InElf
  <2> QED
    BY <2>2, <2>5
<1>3. ASSUME NEW i \in DOMAIN Symbols[l], NEW j \in DOMAIN Symbols[l],
             g = E!SymbolGap(Symbols[l][i]), h = E!SymbolGap(Symbols[l][j])
      PROVE  BytesOfGap(g) \cap BytesOfGap(h) = {}
  <2>1. i # j
    BY <1>3
  <2>2. E!BytesOfSymbol(l, i) \cap E!BytesOfSymbol(l, j) = {}
    BY <2>1, IslandAssumption DEF E!ElfConstants
  <2>3. BytesOfGap(g) \subseteq E!BytesOfSymbol(l, i) /\ BytesOfGap(h) \subseteq E!BytesOfSymbol(l, j)
    BY <1>3, SymbolGapBytes DEF BytesOfGap
  <2> QED
    BY <2>2, <2>3
<1>4. ASSUME NEW i \in DOMAIN Segments[l], NEW j \in DOMAIN Segments[l],
             g = E!SegmentGap(l, i), h = E!SegmentGap(l, j)
      PROVE  BytesOfGap(g) \cap BytesOfGap(h) = {}
  <2>1. i # j /\ DOMAIN Segments[l] = 1 .. Len(Segments[l])
    BY <1>4, Layout, Zenon
  <2>2. i < j \/ j < i
    BY <2>1
  <2> QED
    BY <1>1, <1>4, <2>2
<1> QED
  BY <1>2, <1>3, <1>4, GapKinds

\* The same for the units islands are made of.
LEMMA UnitBytes ==
  ASSUME NEW l \in Lib, NEW gaps \in SUBSET AllGaps(l), NEW a \in E!Units(gaps), NEW b \in a .. a + Unit - 1
  PROVE  /\ a \in Int \ {0} /\ a \in E!Address /\ a \in E!Pages(l)
         /\ b \in E!Pages(l)
         /\ E!InElf(b, l) => \E i \in DOMAIN Symbols[l] : b \in E!BytesOfSymbol(l, i)
<1>1. PICK g \in gaps : a \in E!UnitsOf(g)
  BY DEF E!Units
<1>2. g \in AllGaps(l) /\ g \in Int \X Int
  BY <1>1, GapBytes
<1>3. Unit \in Nat \ {0} /\ Bias[l] \in Nat \ {0} /\ E!PageStart(Bias[l]) = Bias[l]
  BY Layout
<1>4. PICK low, high \in Int : g = <<low, high>>
  BY <1>2
<1>5. a \in low .. high - Unit
  BY <1>1, <1>4 DEF E!UnitsOf
<1>6. a \in BytesOfGap(g) /\ b \in BytesOfGap(g)
  BY <1>3, <1>4, <1>5 DEF BytesOfGap
<1>7. a \in E!Pages(l) /\ a \in Int
  BY <1>2, <1>5, <1>6, GapBytes
<1>8. a # 0
  <2>1. E!Pages(l) = Bias[l] .. E!PageEnd(E!MemEnd(l, Len(Segments[l]))) - 1
    BY <1>3 DEF E!Pages
  <2>2. Bias[l] \in Nat \ {0} /\ E!PageEnd(E!MemEnd(l, Len(Segments[l]))) \in Int
    BY Layout
  <2> QED
    BY <1>7, <2>1, <2>2
<1>9. a \in E!Address
  BY <1>1, <1>2 DEF E!Address, E!Units, AllGaps
<1> QED
  BY <1>2, <1>6, <1>7, <1>8, <1>9, GapBytes

-----------------------------------------------------------------------------
(* Islands in pages.                                                       *)

LEMMA AddressNotNull == E!Address \subseteq Int \ {0}
<1> SUFFICES ASSUME NEW l \in Lib, NEW a \in E!Units(AllGaps(l))
             PROVE  a \in Int \ {0}
  BY DEF E!Address, AllGaps
<1>1. a \in Int /\ Unit \in Nat \ {0}
  <2>1. PICK g \in AllGaps(l) : a \in E!UnitsOf(g)
    BY DEF E!Units
  <2>2. g \in Int \X Int /\ Unit \in Nat \ {0}
    BY GapBytes, Layout
  <2>3. g[1] \in Int /\ g[2] \in Int
    BY <2>2
  <2> QED
    BY <2>1, <2>2, <2>3 DEF E!UnitsOf
<1>2. a \in a .. a + Unit - 1
  BY <1>1
<1> QED
  BY <1>2, UnitBytes

LEMMA SlotNotNull == Slot \subseteq Int \ {0}
<1> SUFFICES ASSUME NEW b \in Base, NEW i \in 0 .. Slots - 1
             PROVE  b + i * Size \in Int \ {0}
  BY DEF Slot, SlotsOf
<1>1. b \in Nat \ {0} /\ i \in Nat /\ Size \in Nat /\ Slots \in Nat
  BY TrampoAssumption
<1>2. i * Size \in Nat
  BY <1>1, TimesSucc
<1> QED
  BY <1>1, <1>2

\* What one hook does to its own island leaves the slots that are out the hooks' islands.
LEMMA PageChange ==
  ASSUME PageInv, NEW t \in Hook, NEW x \in Island, NEW s \in Stages, NEW g \in Target \cup {NoTarget},
         isl' = [isl EXCEPT ![t] = x], stage' = [stage EXCEPT ![t] = s], target' = [target EXCEPT ![t] = g],
         DOMAIN rest' = DOMAIN rest,
         epc' \in [Thread -> Searching \cup {"idle", "free", "destroy"}],
         \A u \in Hook \ {t} : pc'[u] = pc[u] /\ epc'[u] = epc[u],
         Control(s, pc'[t], epc'[t]), Fitting(s, x, g),
         \/ out' = out /\ t \notin InPage /\ (x.addr = 0 \/ x.type = GAP)
         \/ \E a \in Int \ {0} : a \notin out /\ out' = out \cup {a} /\ x = [type |-> ANON, addr |-> a] /\ t \notin InPage
         \/ t \in InPage /\ out' = out \ {isl[t].addr} /\ x = NoIsland
  PROVE  PageInv'
<1> USE DEF PageInv
<1>1. PageTypes'
  BY DEF PageTypes
<1>2. /\ isl'[t] = x /\ stage'[t] = s /\ target'[t] = g
      /\ \A u \in Hook \ {t} : isl'[u] = isl[u] /\ stage'[u] = stage[u] /\ target'[u] = target[u]
  BY DEF PageTypes
<1>3. \A u \in Hook : Control(stage'[u], pc'[u], epc'[u]) /\ Fitting(stage'[u], isl'[u], target'[u])
  BY <1>2
<1>4. ANON # GAP
  BY DEF ANON, GAP
<1>5. out' = {isl'[u].addr : u \in InPage'} /\ \A u, v \in InPage' : isl'[u].addr = isl'[v].addr => u = v
  <2>1. CASE out' = out /\ t \notin InPage /\ (x.addr = 0 \/ x.type = GAP)
    <3>1. InPage' = InPage /\ \A u \in InPage : isl'[u] = isl[u]
      BY <1>2, <1>4, <2>1 DEF InPage
    <3> QED
      BY <2>1, <3>1
  <2>2. CASE \E a \in Int \ {0} : a \notin out /\ out' = out \cup {a} /\ x = [type |-> ANON, addr |-> a] /\ t \notin InPage
    <3>1. PICK a \in Int \ {0} : a \notin out /\ out' = out \cup {a} /\ x = [type |-> ANON, addr |-> a] /\ t \notin InPage
      BY <2>2
    <3>2. x.addr = a /\ x.type = ANON
      BY <3>1
    <3>3. InPage' = InPage \cup {t} /\ \A u \in InPage : isl'[u] = isl[u]
      BY <1>2, <3>1, <3>2 DEF InPage
    <3> QED
      BY <1>2, <3>1, <3>2, <3>3
  <2>3. CASE t \in InPage /\ out' = out \ {isl[t].addr} /\ x = NoIsland
    <3>1. InPage' = InPage \ {t} /\ \A u \in InPage' : isl'[u] = isl[u]
      BY <1>2, <2>3 DEF InPage, NoIsland
    <3> QED
      BY <2>3, <3>1
  <2> QED
    BY <2>1, <2>2, <2>3
<1> QED
  BY <1>1, <1>3, <1>5

\* What the page allocator's calls do to the slots that are out, and to who is in a call.
LEMMA AllocOutcome ==
  ASSUME TrampoInv, NEW t \in Thread, Reuse(t) \/ NewPage(t)
  PROVE  /\ \A u \in Thread \ {t} : pc'[u] = pc[u]
         /\ \/ out' = out /\ pc'[t] = "abort"
            \/ \E a \in Slot : a \notin out /\ out' = out \cup {a} /\ pc'[t] = "idle"
<1> USE DEF TrampoInv
<1>1. \A a \in Slot \ used : a \notin out
  BY DEF OneOwner
<1>2. CASE Reuse(t)
  <2>1. PICK a \in Fits(t) : out' = out \cup {a}
    BY <1>2 DEF Reuse
  <2>2. a \in Slot /\ a \notin out
    BY <1>1, FitsFacts
  <2>3. pc' = [pc EXCEPT ![t] = "idle"]
    BY <1>2 DEF Reuse, Return
  <2> QED
    BY <2>1, <2>2, <2>3 DEF TrampoTypeOK
<1>3. CASE NewPage(t)
  <2>1. PICK b \in Base \ Pages :
           \/ pc' = [pc EXCEPT ![t] = "abort"] /\ UNCHANGED out
           \/ \E a \in SlotsOf(b) : out' = out \cup {a} /\ Return(t)
    BY <1>3, NewPageFacts
  <2>2. \A a \in SlotsOf(b) : a \in Slot /\ a \notin out
    BY <1>1, NewIsUnused
  <2>3. Return(t) => pc' = [pc EXCEPT ![t] = "idle"]
    BY DEF Return
  <2> QED
    BY <2>1, <2>2, <2>3 DEF TrampoTypeOK
<1> QED
  BY <1>2, <1>3

LEMMA CallOutcome ==
  ASSUME TrampoInv, NEW t \in Thread
  PROVE  /\ \A r \in Ranges : CallAlloc(t, r) =>
              out' = out /\ pc'[t] = "alloc" /\ pc[t] = "idle" /\ \A u \in Thread \ {t} : pc'[u] = pc[u]
         /\ AllocFails(t) =>
              out' = out /\ pc'[t] = "idle" /\ pc[t] = "alloc" /\ \A u \in Thread \ {t} : pc'[u] = pc[u]
         /\ \A a : CallFree(t, a) =>
              /\ a \in out /\ out' = out \ {a} /\ pc'[t] = "free" /\ pc[t] = "idle"
              /\ \A u \in Thread \ {t} : pc'[u] = pc[u]
         /\ Free(t) =>
              out' = out /\ pc'[t] = "idle" /\ pc[t] = "free" /\ \A u \in Thread \ {t} : pc'[u] = pc[u]
BY DEF TrampoInv, TrampoTypeOK, CallAlloc, AllocFails, CallFree, Free, Enter, Return

\* The steps of ShElf leave the units that a step history is kept of.
LEMMA SameUnits ==
  ASSUME UNCHANGED elfVars \/ UNCHANGED rest \/ \E t, h : E!ElfFree(t, h) \/ \E l : E!Unmap(l)
  PROVE  DOMAIN rest' = DOMAIN rest
BY DEF elfVars, E!ElfFree, E!Unmap

LEMMA SameHooks ==
  ASSUME PageInv, UNCHANGED <<isl, stage, target, out>>, DOMAIN rest' = DOMAIN rest,
         epc' \in [Thread -> Searching \cup {"idle", "free", "destroy"}],
         \A u \in Hook : pc'[u] = pc[u] /\ epc'[u] = epc[u]
  PROVE  PageInv'
<1>1. InPage' = InPage
  BY DEF InPage
<1> QED
  BY <1>1 DEF PageInv, PageTypes

LEMMA HookFacts ==
  ASSUME PageInv, NEW t \in Hook
  PROVE  /\ t \in Thread /\ isl[t] \in Island /\ stage[t] \in Stages /\ target[t] \in Target \cup {NoTarget}
         /\ isl = [isl EXCEPT ![t] = isl[t]] /\ stage = [stage EXCEPT ![t] = stage[t]]
         /\ target = [target EXCEPT ![t] = target[t]]
         /\ Control(stage[t], pc[t], epc[t]) /\ Fitting(stage[t], isl[t], target[t])
         /\ epc \in [Thread -> Searching \cup {"idle", "free", "destroy"}]
         /\ NoIsland \in Island /\ NoIsland.addr = 0
<1>1. NoIsland \in Island /\ NoIsland.addr = 0
  BY DEF NoIsland, Island, ANON, GAP
<1> QED
  BY <1>1 DEF PageInv, PageTypes, Hook

\* A hook without an island moves on.
LEMMA WithoutIsland ==
  ASSUME PageInv, NEW t \in Hook, stage[t] # "hooked",
         NEW s \in Stages \ {"hooked"}, NEW g \in Target \cup {NoTarget}, s # "idle" => g \in Target,
         UNCHANGED <<isl, out>>, stage' = [stage EXCEPT ![t] = s], target' = [target EXCEPT ![t] = g],
         DOMAIN rest' = DOMAIN rest,
         epc' \in [Thread -> Searching \cup {"idle", "free", "destroy"}],
         \A u \in Hook \ {t} : pc'[u] = pc[u] /\ epc'[u] = epc[u],
         Control(s, pc'[t], epc'[t])
  PROVE  PageInv'
<1>1. isl[t] \in Island /\ isl[t].addr = 0 /\ isl[t] = NoIsland
  BY HookFacts DEF Fitting
<1>2. isl' = [isl EXCEPT ![t] = isl[t]]
  BY HookFacts
<1>3. t \notin InPage /\ Fitting(s, isl[t], g)
  BY <1>1 DEF InPage, Fitting
<1> QED
  BY <1>1, <1>2, <1>3, PageChange

\* What the steps of ShElf do to where the threads are in its calls.
LEMMA Became ==
  ASSUME PageInv, NEW t \in Thread, NEW e \in Searching \cup {"idle", "free", "destroy"},
         epc' = [epc EXCEPT ![t] = e]
  PROVE  /\ epc' \in [Thread -> Searching \cup {"idle", "free", "destroy"}]
         /\ epc'[t] = e /\ \A u \in Thread \ {t} : epc'[u] = epc[u]
BY DEF PageInv, PageTypes

\* A hook finds its function, or asks a page.
LEMMA PageCalls ==
  ASSUME TrampoInv, PageInv, NEW t \in Hook,
         (\E g \in Target : Resolve(t, g)) \/ Alloc(t) \/ TryGaps(t)
  PROVE  PageInv'
<1>1. t \in Thread /\ \A u \in Hook : u \in Thread
  BY DEF Hook
<1>2. /\ target[t] \in Target \cup {NoTarget} /\ target = [target EXCEPT ![t] = target[t]]
      /\ Fitting(stage[t], isl[t], target[t]) /\ Control(stage[t], pc[t], epc[t])
      /\ epc \in [Thread -> Searching \cup {"idle", "free", "destroy"}]
  BY HookFacts
<1>3. {"resolved", "anon", "gap"} \subseteq Stages \ {"hooked"} /\ "find" \in Searching
  BY DEF Stages, Searching
<1>4. ASSUME NEW g \in Target, Resolve(t, g) PROVE PageInv'
  <2>1. /\ stage' = [stage EXCEPT ![t] = "resolved"]
        /\ target' = [target EXCEPT ![t] = g] /\ UNCHANGED <<isl, out, pc, epc, rest>>
        /\ stage[t] = "idle"
    BY <1>4 DEF Resolve, Stage, vars, elfVars
  <2>2. Control("resolved", pc'[t], epc'[t])
    BY <1>2, <2>1 DEF Control, CallsIn
  <2> QED
    BY <1>2, <1>3, <2>1, <2>2, WithoutIsland
<1>5. CASE Alloc(t)
  <2>1. /\ stage[t] = "resolved" /\ target[t] \in Target
        /\ CallAlloc(t, <<target[t].low, target[t].high>>)
        /\ UNCHANGED <<elfVars, isl, target>> /\ stage' = [stage EXCEPT ![t] = "anon"]
    BY <1>2, <1>5 DEF Alloc, Stage, Fitting
  <2>2. out' = out /\ pc'[t] = "alloc" /\ \A u \in Hook \ {t} : pc'[u] = pc[u]
    <3>1. <<target[t].low, target[t].high>> \in Ranges
      BY <2>1, IslandAssumption
    <3> QED
      BY <1>1, <2>1, <3>1, CallOutcome
  <2>3. UNCHANGED <<rest, epc>> /\ target' = [target EXCEPT ![t] = target[t]]
    BY <1>2, <2>1 DEF elfVars
  <2>4. Control("anon", pc'[t], epc'[t])
    BY <1>2, <2>1, <2>2, <2>3 DEF Control, CallsIn
  <2> QED
    BY <1>2, <1>3, <2>1, <2>2, <2>3, <2>4, WithoutIsland
<1>6. CASE TryGaps(t)
  <2>1. /\ stage[t] = "anon" /\ target[t] \in Target /\ AllocFails(t)
        /\ UNCHANGED <<isl, target>> /\ stage' = [stage EXCEPT ![t] = "gap"]
    BY <1>2, <1>6 DEF TryGaps, Stage, Fitting
  <2>2. DOMAIN rest' = DOMAIN rest /\ epc' = [epc EXCEPT ![t] = "find"]
    BY <1>6 DEF TryGaps, E!ElfAlloc, E!Become
  <2>3. out' = out /\ pc'[t] = "idle" /\ \A u \in Hook \ {t} : pc'[u] = pc[u]
    BY <1>1, <2>1, CallOutcome
  <2>4. /\ epc' \in [Thread -> Searching \cup {"idle", "free", "destroy"}] /\ epc'[t] = "find"
        /\ \A u \in Hook \ {t} : epc'[u] = epc[u]
    BY <1>1, <1>3, <2>2, Became
  <2>5. target' = [target EXCEPT ![t] = target[t]] /\ Control("gap", pc'[t], epc'[t])
    BY <1>2, <1>3, <2>1, <2>3, <2>4 DEF Control, CallsIn
  <2> QED
    BY <1>2, <1>3, <2>1, <2>2, <2>3, <2>4, <2>5, WithoutIsland, ZenonT(60)
<1> QED
  BY <1>4, <1>5, <1>6

\* A page answers.
LEMMA PageAnswers ==
  ASSUME TrampoInv, PageInv, NEW t \in Hook, GetPage(t)
  PROVE  PageInv' /\ (out' # out => \E a \in Slot : isl' = [isl EXCEPT ![t] = [type |-> ANON, addr |-> a]]
                                                   /\ stage' = [stage EXCEPT ![t] = "hooked"])
                  /\ (out' = out => UNCHANGED <<isl, stage>>)
<1>1. t \in Thread /\ \A u \in Hook : u \in Thread
  BY DEF Hook
<1>2. /\ stage[t] = "anon" /\ target[t] \in Target /\ isl[t] = NoIsland /\ UNCHANGED <<epc, rest, target>>
      /\ target' = [target EXCEPT ![t] = target[t]] /\ target[t] \in Target \cup {NoTarget}
      /\ epc \in [Thread -> Searching \cup {"idle", "free", "destroy"}]
      /\ \A u \in Hook \ {t} : pc'[u] = pc[u]
      /\ Control("anon", pc[t], epc[t])
  BY <1>1, HookFacts, AllocOutcome DEF GetPage, Fitting, elfVars
<1>3. t \notin InPage
  BY <1>2, HookFacts DEF InPage
<1>4. CASE out' = out
  <2>1. UNCHANGED <<isl, stage>>
    BY <1>4 DEF GetPage
  <2>2. pc'[t] = "abort"
    <3>1. ~\E a \in Slot : a \notin out /\ out' = out \cup {a}
      BY <1>4
    <3> QED
      BY <1>1, <3>1, AllocOutcome DEF GetPage
  <2>3. Control("anon", pc'[t], epc'[t])
    BY <1>2, <2>2 DEF CallsIn, Control
  <2>4. stage' = [stage EXCEPT ![t] = "anon"] /\ "anon" \in Stages \ {"hooked"}
    BY <1>2, <2>1, HookFacts DEF Stages
  <2> QED
    BY <1>2, <1>4, <2>1, <2>3, <2>4, WithoutIsland
<1>5. CASE out' # out
  <2>1. PICK a \in Slot : a \notin out /\ out' = out \cup {a} /\ pc'[t] = "idle"
    BY <1>1, <1>5, AllocOutcome DEF GetPage
  <2>2. PICK b \in out' \ out : Got(t, ANON, b)
    BY <1>5 DEF GetPage
  <2>3. b = a
    BY <2>1, <2>2
  <2> DEFINE x == [type |-> ANON, addr |-> a]
  <2>4. isl' = [isl EXCEPT ![t] = x] /\ stage' = [stage EXCEPT ![t] = "hooked"]
    BY <2>2, <2>3 DEF Got, Stage
  <2>5. x \in Island /\ x.addr = a /\ a \in Int \ {0}
    BY SlotNotNull DEF Island
  <2>6. Fitting("hooked", x, target[t]) /\ "hooked" \in Stages /\ Control("hooked", pc'[t], epc'[t])
    BY <1>2, <2>1, <2>5 DEF Fitting, Stages, Control, CallsIn
  <2>7. PageInv'
    BY <1>2, <1>3, <2>1, <2>4, <2>5, <2>6, PageChange
  <2> QED
    BY <1>5, <2>4, <2>7
<1> QED
  BY <1>4, <1>5

\* A gap is searched for.
LEMMA PageSearch ==
  ASSUME PageInv, NEW t \in Hook, SearchGaps(t)
  PROVE  PageInv'
<1>1. t \in Thread /\ \A u \in Hook : u \in Thread
  BY DEF Hook
<1>2. /\ stage[t] = "gap" /\ UNCHANGED <<isl, stage, target, out, pc, rest>>
      /\ target[t] \in Target \cup {NoTarget} /\ target' = [target EXCEPT ![t] = target[t]]
      /\ stage' = [stage EXCEPT ![t] = "gap"]
      /\ Fitting("gap", isl[t], target[t]) /\ Control("gap", pc[t], epc[t])
  BY HookFacts DEF SearchGaps, vars, ivars, E!Find, E!Create, E!Insert, E!Again
<1>3. PICK e \in Searching : epc' = [epc EXCEPT ![t] = e]
  BY DEF SearchGaps, E!Find, E!Create, E!Insert, E!Again, E!Become, Searching
<1>4. /\ epc' \in [Thread -> Searching \cup {"idle", "free", "destroy"}] /\ epc'[t] = e
      /\ \A u \in Hook \ {t} : epc'[u] = epc[u]
  BY <1>1, <1>3, Became
<1>5. Control("gap", pc'[t], epc'[t]) /\ "gap" \in Stages \ {"hooked"} /\ target[t] \in Target
  BY <1>2, <1>4 DEF Control, Searching, Stages, Fitting
<1> QED
  BY <1>2, <1>4, <1>5, WithoutIsland

\* A gap answers.
LEMMA PageGap ==
  ASSUME PageInv, NEW t \in Hook, GetGap(t)
  PROVE  PageInv'
<1>1. t \in Thread /\ \A u \in Hook : u \in Thread
  BY DEF Hook
<1>2. PICK a \in DOMAIN rest : (E!AllocInGaps(t, a) \/ E!AllocInSymbols(t, a)) /\ Got(t, GAP, a)
  BY DEF GetGap
<1> DEFINE x == [type |-> GAP, addr |-> a]
<1>3. /\ stage[t] = "gap" /\ UNCHANGED <<target, out, pc, rest>>
      /\ target[t] \in Target \cup {NoTarget} /\ target' = [target EXCEPT ![t] = target[t]]
      /\ stage' = [stage EXCEPT ![t] = "hooked"] /\ isl' = [isl EXCEPT ![t] = x]
      /\ Fitting("gap", isl[t], target[t]) /\ Control("gap", pc[t], epc[t])
  BY <1>2, HookFacts, ZenonT(40) DEF GetGap, vars, Got, Stage, E!AllocInGaps, E!AllocInSymbols
<1>4. epc' = [epc EXCEPT ![t] = "idle"]
  BY <1>2 DEF E!AllocInGaps, E!AllocInSymbols, E!Take, E!Done
<1>5. /\ epc' \in [Thread -> Searching \cup {"idle", "free", "destroy"}] /\ epc'[t] = "idle"
      /\ \A u \in Hook \ {t} : epc'[u] = epc[u]
  BY <1>1, <1>4, Became
<1>6. x \in Island /\ x.addr # 0 /\ x.type = GAP
  BY <1>2, AddressNotNull DEF Island, PageInv, PageTypes
<1>7. t \notin InPage
  BY <1>3, HookFacts DEF InPage, Fitting
<1>8. Control("hooked", pc'[t], epc'[t]) /\ Fitting("hooked", x, target[t]) /\ "hooked" \in Stages
  BY <1>3, <1>5, <1>6 DEF Control, CallsIn, Searching, Stages, Fitting
<1> HIDE DEF x
<1> QED
  BY <1>3, <1>5, <1>6, <1>7, <1>8, PageChange

\* A hook fails, or the end of its call to free leaves nothing of it.
LEMMA PageGone ==
  ASSUME TrampoInv, PageInv, NEW t \in Hook, AllocEndsInVain(t) \/ FreeEnds(t)
  PROVE  PageInv'
<1>1. t \in Thread /\ \A u \in Hook : u \in Thread
  BY DEF Hook
<1>2. /\ stage[t] \in {"gap", "freeing"} /\ isl[t] = NoIsland
      /\ stage' = [stage EXCEPT ![t] = "idle"] /\ target' = [target EXCEPT ![t] = NoTarget]
      /\ isl' = [isl EXCEPT ![t] = NoIsland]
      /\ Control(stage[t], pc[t], epc[t])
      /\ epc \in [Thread -> Searching \cup {"idle", "free", "destroy"}]
  <2>1. /\ stage[t] \in {"gap", "freeing"} /\ stage' = [stage EXCEPT ![t] = "idle"]
        /\ target' = [target EXCEPT ![t] = NoTarget] /\ isl' = [isl EXCEPT ![t] = NoIsland]
    BY DEF AllocEndsInVain, FreeEnds, Gone, Stage
  <2>2. isl[t] = NoIsland
    BY <2>1, HookFacts DEF Fitting
  <2> QED
    BY <2>1, <2>2, HookFacts
<1>3. UNCHANGED isl
  BY <1>2, HookFacts
<1>4. /\ UNCHANGED <<out, rest>> /\ pc'[t] = "idle" /\ \A u \in Hook \ {t} : pc'[u] = pc[u]
      /\ epc' = epc \/ epc' = [epc EXCEPT ![t] = "idle"]
      /\ epc'[t] = "idle"
  <2>1. CASE AllocEndsInVain(t)
    <3>1. UNCHANGED <<out, rest, pc>> /\ epc' = [epc EXCEPT ![t] = "idle"] /\ stage[t] = "gap"
      BY <2>1 DEF AllocEndsInVain, vars, E!CreateFails, E!AllocMisses, E!AllocInSymbols, E!Done
    <3> QED
      BY <1>1, <1>2, <3>1, SMTT(30) DEF Control, CallsIn
  <2>2. CASE FreeEnds(t) /\ Free(t) /\ UNCHANGED elfVars
    <3>1. out' = out /\ pc'[t] = "idle" /\ pc[t] = "free" /\ \A u \in Hook \ {t} : pc'[u] = pc[u]
      BY <1>1, <2>2, CallOutcome
    <3>2. UNCHANGED <<rest, epc>> /\ stage[t] = "freeing"
      BY <2>2 DEF elfVars, FreeEnds
    <3>3. epc[t] = "idle"
      BY <1>1, <1>2, <3>1, <3>2 DEF Control, Searching
    <3> QED
      BY <3>1, <3>2, <3>3
  <2>3. CASE FreeEnds(t) /\ E!FreeUnits(t) /\ UNCHANGED vars
    <3>1. UNCHANGED <<out, rest, pc>> /\ epc' = [epc EXCEPT ![t] = "idle"] /\ epc[t] = "free"
      BY <2>3 DEF vars, E!FreeUnits, E!Done
    <3> QED
      BY <1>1, <1>2, <3>1 DEF Control
  <2>4. CASE FreeEnds(t) /\ pc[t] = "idle" /\ epc[t] = "idle" /\ UNCHANGED <<vars, elfVars>>
    BY <2>4 DEF vars, elfVars
  <2> QED
    BY <2>1, <2>2, <2>3, <2>4 DEF FreeEnds
<1>5. /\ epc' \in [Thread -> Searching \cup {"idle", "free", "destroy"}]
      /\ \A u \in Hook \ {t} : epc'[u] = epc[u]
  BY <1>1, <1>2, <1>4, Became
<1>6. Control("idle", pc'[t], epc'[t]) /\ "idle" \in Stages \ {"hooked"} /\ stage[t] # "hooked"
  BY <1>2, <1>4 DEF Control, CallsIn, Searching, Stages
<1> QED
  BY <1>2, <1>3, <1>4, <1>5, <1>6, WithoutIsland

\* A hook gives back its island, or dlclose does for it.
LEMMA PageFree ==
  ASSUME TrampoInv, PageInv, NEW t \in Hook, FreeIsland(t) \/ CloseSwitch(t)
  PROVE  PageInv'
<1>1. t \in Thread /\ \A u \in Hook : u \in Thread
  BY DEF Hook
<1>2. /\ isl[t] \in Island /\ NoIsland \in Island /\ NoIsland.addr = 0 /\ target[t] \in Target \cup {NoTarget}
      /\ target = [target EXCEPT ![t] = target[t]] /\ isl' = [isl EXCEPT ![t] = NoIsland]
      /\ Control(stage[t], pc[t], epc[t]) /\ Fitting(stage[t], isl[t], target[t])
      /\ epc \in [Thread -> Searching \cup {"idle", "free", "destroy"}]
      /\ stage[t] \in {"idle", "hooked"}
      /\ {"idle", "freeing"} \subseteq Stages
  BY HookFacts DEF FreeIsland, CloseSwitch, Stages
<1>3. ASSUME CallFree(t, isl[t].addr), isl[t].type = ANON, isl[t].addr # 0, stage' = [stage EXCEPT ![t] = "freeing"],
             UNCHANGED <<elfVars, target>>
      PROVE  PageInv'
  <2>1. /\ out' = out \ {isl[t].addr} /\ pc'[t] = "free" /\ pc[t] = "idle"
        /\ \A u \in Hook \ {t} : pc'[u] = pc[u]
    BY <1>1, <1>3, CallOutcome
  <2>2. t \in InPage
    BY <1>3 DEF InPage
  <2>3. UNCHANGED <<rest, epc>> /\ target' = [target EXCEPT ![t] = target[t]]
    BY <1>2, <1>3 DEF elfVars
  <2>4. stage[t] = "hooked" /\ target[t] \in Target /\ epc[t] = "idle"
    BY <1>2, <1>3 DEF Fitting, Control
  <2>5. Control("freeing", pc'[t], epc'[t]) /\ Fitting("freeing", NoIsland, target[t])
    BY <2>1, <2>3, <2>4 DEF Control, CallsIn, Searching, Fitting
  <2> QED
    BY <1>2, <1>3, <2>1, <2>2, <2>3, <2>5, PageChange
<1>4. ASSUME FreeIsland(t), isl[t].type # ANON
      PROVE  PageInv'
  <2>1. /\ stage[t] = "hooked" /\ stage' = [stage EXCEPT ![t] = "freeing"] /\ UNCHANGED <<pc, out, target>>
        /\ E!ElfFree(t, [lib |-> target[t].lib, addr |-> isl[t].addr, size |-> target[t].size])
    BY <1>4 DEF FreeIsland, Stage, vars
  <2>2. DOMAIN rest' = DOMAIN rest
    BY <2>1, SameUnits
  <2>3. epc[t] = "idle" /\ (UNCHANGED epc \/ epc' = [epc EXCEPT ![t] = "free"])
    BY <2>1 DEF E!ElfFree, E!Become
  <2>4. /\ epc' \in [Thread -> Searching \cup {"idle", "free", "destroy"}]
        /\ epc'[t] \in {"idle", "free"} /\ \A u \in Hook \ {t} : epc'[u] = epc[u]
    BY <1>1, <1>2, <2>3, Became
  <2>5. pc'[t] = "idle" /\ t \notin InPage /\ target[t] \in Target
    BY <1>2, <1>4, <2>1 DEF Control, CallsIn, Fitting, InPage
  <2>6. Control("freeing", pc'[t], epc'[t]) /\ Fitting("freeing", NoIsland, target[t])
    BY <2>4, <2>5 DEF Control, CallsIn, Searching, Fitting
  <2>7. target' = [target EXCEPT ![t] = target[t]]
    BY <1>2, <2>1
  <2> QED
    BY <1>2, <2>1, <2>2, <2>4, <2>5, <2>6, <2>7, PageChange
<1>5. ASSUME CloseSwitch(t), ~(isl[t].addr # 0 /\ isl[t].type = ANON)
      PROVE  PageInv'
  <2>1. /\ stage' = [stage EXCEPT ![t] = "idle"] /\ target' = [target EXCEPT ![t] = NoTarget]
        /\ UNCHANGED <<pc, out, rest, epc>> /\ t \notin InPage
    BY <1>5 DEF CloseSwitch, Stage, vars, elfVars, InPage
  <2>2. Control("idle", pc'[t], epc'[t]) /\ Fitting("idle", NoIsland, NoTarget)
    BY <1>2, <2>1 DEF Control, CallsIn, Searching, Fitting
  <2> QED
    BY <1>2, <2>1, <2>2, PageChange
<1>6. CASE FreeIsland(t)
  <2>1. CASE isl[t].type = ANON
    <3>1. /\ CallFree(t, isl[t].addr) /\ UNCHANGED <<elfVars, target>> /\ stage' = [stage EXCEPT ![t] = "freeing"]
          /\ isl[t].addr # 0
      BY <1>2, <1>6, <2>1 DEF FreeIsland, Stage, Fitting
    <3> QED
      BY <1>3, <2>1, <3>1
  <2> QED
    BY <1>4, <1>6, <2>1
<1>7. CASE CloseSwitch(t)
  <2>1. CASE isl[t].addr # 0 /\ isl[t].type = ANON
    <3>1. /\ CallFree(t, isl[t].addr) /\ UNCHANGED <<elfVars, target>> /\ stage' = [stage EXCEPT ![t] = "freeing"]
      BY <1>7, <2>1 DEF CloseSwitch, Stage
    <3> QED
      BY <1>3, <2>1, <3>1
  <2> QED
    BY <1>5, <1>7, <2>1
<1> QED
  BY <1>6, <1>7

\* Every step here is a step of the page allocator, or it does not see it.
LEMMA AsTrampo ==
  ASSUME TrampoInv, PageInv, [IslandNext]_allVars
  PROVE  [Next]_vars
<1>1. \A t \in Hook : t \in Thread
  BY DEF Hook
<1>2. CASE UNCHANGED allVars
  BY <1>2 DEF allVars
<1>3. CASE IslandTick
  BY <1>3 DEF IslandTick, Next
<1>4. ASSUME NEW l \in Lib, Load(l) \/ Close(l) PROVE UNCHANGED vars
  BY <1>4 DEF Load, Close
<1>5. CASE Clean \/ CleanEnds \/ CloseEnds
  BY <1>5 DEF Clean, CleanEnds, CloseEnds
<1>6. ASSUME NEW t \in Hook,
             (\E g \in Target : Resolve(t, g)) \/ SearchGaps(t) \/ GetGap(t) \/ AllocEndsInVain(t)
      PROVE  UNCHANGED vars
  BY <1>6 DEF Resolve, SearchGaps, GetGap, AllocEndsInVain
<1>7. ASSUME NEW t \in Hook, Alloc(t) PROVE Next
  <2>1. stage[t] = "resolved" /\ CallAlloc(t, <<target[t].low, target[t].high>>)
    BY <1>7 DEF Alloc
  <2>2. <<target[t].low, target[t].high>> \in Ranges
    BY <2>1, HookFacts, IslandAssumption DEF Fitting
  <2> QED
    BY <1>1, <2>1, <2>2 DEF Next
<1>8. ASSUME NEW t \in Hook, GetPage(t) \/ TryGaps(t) PROVE Next
  <2>1. Reuse(t) \/ NewPage(t) \/ AllocFails(t)
    BY <1>8 DEF GetPage, TryGaps
  <2> QED
    BY <1>1, <2>1 DEF Next
<1>9. ASSUME NEW t \in Hook, NEW a, CallFree(t, a) PROVE Next
  <2>1. a \in Slot
    BY <1>9 DEF CallFree, TrampoInv, TrampoTypeOK
  <2> QED
    BY <1>1, <1>9, <2>1 DEF Next
<1>10. ASSUME NEW t \in Hook, FreeIsland(t) \/ CloseSwitch(t) PROVE Next \/ UNCHANGED vars
  BY <1>9, <1>10 DEF FreeIsland, CloseSwitch
<1>11. ASSUME NEW t \in Hook, FreeEnds(t) PROVE Next \/ UNCHANGED vars
  <2>1. Free(t) \/ UNCHANGED vars
    BY <1>11 DEF FreeEnds
  <2> QED
    BY <1>1, <2>1 DEF Next
<1> QED
  BY <1>2, <1>3, <1>4, <1>5, <1>6, <1>7, <1>8, <1>10, <1>11 DEF IslandNext

LEMMA PageInit ==
  ASSUME IslandInit
  PROVE  PageInv
<1>1. /\ isl = [t \in Hook |-> NoIsland] /\ stage = [t \in Hook |-> "idle"]
      /\ target = [t \in Hook |-> NoTarget] /\ pc = [t \in Thread |-> "idle"]
      /\ epc = [t \in Thread |-> "idle"] /\ out = {} /\ rest = [u \in E!Address |-> 0]
  BY DEF IslandInit, Init, E!ElfInit
<1>2. NoIsland \in Island /\ NoIsland.addr = 0
  BY DEF NoIsland, Island, ANON, GAP
<1>3. PageTypes
  BY <1>1, <1>2 DEF PageTypes, Stages
<1>4. ASSUME NEW t \in Hook
      PROVE  Control(stage[t], pc[t], epc[t]) /\ Fitting(stage[t], isl[t], target[t])
  BY <1>1 DEF Control, CallsIn, Fitting, Searching, Hook
<1>5. InPage = {}
  BY <1>1, <1>2 DEF InPage
<1> QED
  BY <1>1, <1>3, <1>4, <1>5 DEF PageInv

LEMMA PageStep ==
  ASSUME TrampoInv, PageInv, [IslandNext]_allVars
  PROVE  PageInv'
<1>1. \A t \in Hook : t \in Thread /\ t # Closer
  BY DEF Hook
<1>2. CASE UNCHANGED allVars \/ IslandTick
  <2>1. UNCHANGED <<isl, stage, target, out, rest, epc, pc>>
    BY <1>2 DEF allVars, vars, elfVars, ivars, IslandTick, Tick
  <2> QED
    BY <2>1, SameHooks DEF PageInv, PageTypes
<1>3. ASSUME NEW l \in Lib, Load(l) \/ Close(l) PROVE PageInv'
  <2>1. UNCHANGED <<isl, stage, target, out, rest, epc, pc>>
    BY <1>3 DEF Load, Close, E!Map, vars, ivars, elfVars
  <2> QED
    BY <2>1, SameHooks DEF PageInv, PageTypes
<1>4. CASE Clean \/ CleanEnds \/ CloseEnds
  <2>1. UNCHANGED <<isl, stage, target, out, pc>>
    BY <1>4 DEF Clean, CleanEnds, CloseEnds, vars, ivars
  <2>2. UNCHANGED epc \/ epc' = [epc EXCEPT ![Closer] = "destroy"] \/ epc' = [epc EXCEPT ![Closer] = "idle"]
    BY <1>4 DEF Clean, CleanEnds, CloseEnds, E!Cleanup, E!Destroy, E!Unmap, E!Become, E!Done
  <2>3. /\ epc' \in [Thread -> Searching \cup {"idle", "free", "destroy"}]
        /\ \A u \in Hook : epc'[u] = epc[u]
    BY <1>1, <2>2, Became, IslandAssumption DEF PageInv, PageTypes
  <2>4. DOMAIN rest' = DOMAIN rest
    BY <1>4, SameUnits DEF Clean, CleanEnds, CloseEnds, E!Cleanup, E!Destroy
  <2> QED
    BY <2>1, <2>3, <2>4, SameHooks
<1> QED
  BY <1>2, <1>3, <1>4, PageCalls, PageAnswers, PageSearch, PageGap, PageGone, PageFree DEF IslandNext

\* The islands are clients of the page allocator as ShTrampo describes them: a slot is one
\* hook's, rests before it is another's, and no call of sh_trampo_alloc_between aborts.
THEOREM IslandsUsePages ==
  IslandSpec => Spec /\ [](TrampoTypeOK /\ OneOwner) /\ GraceBeforeReuse /\ []NoAbort /\ KeepsPool
<1>1. IslandInit => Init /\ TrampoInv /\ PageInv
  BY InvInit, PageInit DEF IslandInit
<1>2. TrampoInv /\ PageInv /\ [IslandNext]_allVars => [Next]_vars /\ TrampoInv' /\ PageInv'
  BY AsTrampo, InvStep, PageStep
<1>3. IslandSpec => Spec
  BY <1>1, <1>2, PTL DEF IslandSpec, Spec
<1> QED
  BY <1>3, TrampoSafe, TrampoGrace, TrampoNoAbort, TrampoImplementsPool

-----------------------------------------------------------------------------
(* Islands in gaps: what the invariant says of the list.                   *)

LEMMA OneElf ==
  ASSUME CloseInv, NEW l \in loaded, NEW k \in loaded, NEW a \in E!Pages(l), a \in E!Pages(k)
  PROVE  l = k
BY DEF CloseInv

LEMMA BiasInPages ==
  ASSUME NEW l \in Lib
  PROVE  Bias[l] \in E!Pages(l)
<1> DEFINE n == Len(Segments[l])
<1>1. /\ Bias[l] \in Nat /\ E!PageStart(Bias[l]) = Bias[l] /\ Bias[l] <= Begin(l, n)
      /\ Begin(l, n) \in Int /\ E!MemEnd(l, n) \in Int /\ Begin(l, n) < E!MemEnd(l, n)
      /\ E!PageEnd(E!MemEnd(l, n)) \in Int /\ E!MemEnd(l, n) <= E!PageEnd(E!MemEnd(l, n))
  BY Layout
<1>2. Bias[l] \in Bias[l] .. E!PageEnd(E!MemEnd(l, n)) - 1
  BY <1>1
<1> QED
  BY <1>1, <1>2 DEF E!Pages

LEMMA ListFacts ==
  ASSUME ElfInv
  PROVE  /\ loaded \subseteq Lib /\ None \notin Lib \cup Obj
         /\ elfs \in Seq(Obj) /\ DOMAIN elfs = 1 .. Len(elfs) /\ Len(elfs) \in Nat
         /\ \A i \in DOMAIN elfs : elfs[i] \in Obj /\ elfs[i] \in E!Listed /\ obj[elfs[i]].lib \in loaded
         /\ E!Listed \subseteq Obj
         /\ \A o \in E!Listed : obj[o].lib \in loaded /\ obj[o].lib \in Lib /\ Stays(obj[o].lib)
         /\ \A o, p \in E!Listed : obj[o].lib = obj[p].lib => o = p
<1>1. elfs \in Seq(Obj) /\ loaded \subseteq Lib /\ None \notin Lib \cup Obj
  BY IslandAssumption DEF ElfInv, ElfTypes, E!ElfConstants, None
<1>2. DOMAIN elfs = 1 .. Len(elfs) /\ Len(elfs) \in Nat
  BY <1>1, LenProperties
<1>3. \A i \in DOMAIN elfs : elfs[i] \in Obj
  BY <1>1, <1>2, ElementOfSeq
<1>4. E!Listed = {elfs[i] : i \in DOMAIN elfs}
  BY DEF E!Listed
<1>5. \A o \in E!Listed : Stays(obj[o].lib)
  BY DEF ElfInv, ListInv
<1>6. \A o, p \in E!Listed : obj[o].lib = obj[p].lib => o = p
  BY <1>4 DEF ElfInv, ListInv
<1> QED
  BY <1>1, <1>2, <1>3, <1>4, <1>5, <1>6 DEF Stays

LEMMA OnlyOne ==
  ASSUME ElfInv, NEW i \in DOMAIN elfs, NEW I, I = {i}
  PROVE  E!First(I) = elfs[i]
<1>1. i \in Int
  BY ListFacts
<1>2. (CHOOSE k \in I : \A j \in I : k <= j) = i
  BY <1>1
<1> QED
  BY <1>2 DEF E!First

\* A search of the list finds an ELF's object, or it has none.
LEMMA Search ==
  ASSUME ElfInv, NEW l \in loaded, NEW I \in SUBSET DOMAIN elfs,
         \A i \in DOMAIN elfs : i \in I <=> obj[elfs[i]].lib = l
  PROVE  \/ I = {} /\ \A o \in E!Listed : obj[o].lib # l
         \/ /\ \E i \in DOMAIN elfs : I = {i} /\ E!First(I) = elfs[i]
            /\ E!First(I) \in E!Listed /\ obj[E!First(I)].lib = l
<1>1. CASE I = {}
  BY <1>1 DEF E!Listed
<1>2. CASE I # {}
  <2>1. PICK i \in I : TRUE
    BY <1>2
  <2>2. I = {i}
    BY <2>1 DEF ElfInv, ListInv
  <2>3. E!First(I) = elfs[i]
    BY <2>1, <2>2, OnlyOne
  <2> QED
    BY <2>1, <2>2, <2>3, ListFacts
<1> QED
  BY <1>1, <1>2

LEMMA ByAddressFinds ==
  ASSUME ElfInv, NEW l \in loaded, NEW a, E!InElf(a, l)
  PROVE  \/ E!ByAddress(a) = {} /\ \A o \in E!Listed : obj[o].lib # l
         \/ E!ByAddress(a) # {} /\ E!First(E!ByAddress(a)) \in E!Listed /\ obj[E!First(E!ByAddress(a))].lib = l
<1>1. E!ByAddress(a) = {i \in DOMAIN elfs : E!InElf(a, obj[elfs[i]].lib)}
  BY DEF E!ByAddress, E!LibOf
<1>2. ASSUME NEW i \in DOMAIN elfs, E!InElf(a, obj[elfs[i]].lib)
      PROVE  obj[elfs[i]].lib = l
  <2>1. obj[elfs[i]].lib \in loaded /\ obj[elfs[i]].lib \in Lib /\ l \in Lib
    BY ListFacts
  <2>2. a \in E!Pages(obj[elfs[i]].lib) /\ a \in E!Pages(l)
    BY <1>2, <2>1, InPages
  <2> QED
    BY <2>1, <2>2, OneElf DEF ElfInv
<1>3. \A i \in DOMAIN elfs : i \in E!ByAddress(a) <=> obj[elfs[i]].lib = l
  BY <1>1, <1>2
<1> QED
  BY <1>1, <1>3, Search

LEMMA ByBiasFinds ==
  ASSUME ElfInv, NEW l \in loaded
  PROVE  \/ E!ByBias(Bias[l]) = {} /\ \A o \in E!Listed : obj[o].lib # l
         \/ /\ \E i \in DOMAIN elfs : E!ByBias(Bias[l]) = {i} /\ E!First(E!ByBias(Bias[l])) = elfs[i]
            /\ E!First(E!ByBias(Bias[l])) \in E!Listed /\ obj[E!First(E!ByBias(Bias[l]))].lib = l
<1>1. E!ByBias(Bias[l]) = {i \in DOMAIN elfs : Bias[obj[elfs[i]].lib] = Bias[l]}
  BY DEF E!ByBias, E!LibOf
<1>2. ASSUME NEW i \in DOMAIN elfs, Bias[obj[elfs[i]].lib] = Bias[l]
      PROVE  obj[elfs[i]].lib = l
  <2>1. obj[elfs[i]].lib \in loaded /\ obj[elfs[i]].lib \in Lib /\ l \in Lib
    BY ListFacts
  <2>2. Bias[l] \in E!Pages(obj[elfs[i]].lib) /\ Bias[l] \in E!Pages(l)
    BY <1>2, <2>1, BiasInPages
  <2> QED
    BY <2>1, <2>2, OneElf DEF ElfInv
<1>3. \A i \in DOMAIN elfs : i \in E!ByBias(Bias[l]) <=> obj[elfs[i]].lib = l
  BY <1>1, <1>2
<1> QED
  BY <1>1, <1>3, Search

\* A step in which only hook t acts ...
Only(t) ==
  /\ \A u \in Hook \ {t} : /\ isl'[u] = isl[u] /\ stage'[u] = stage[u] /\ target'[u] = target[u]
                           /\ (u \in registered' <=> u \in registered) /\ (u \in removed' <=> u \in removed)
  /\ \A u \in Thread \ {t} : /\ epc'[u] = epc[u] /\ self'[u] = self[u] /\ known'[u] = known[u]
                             /\ want'[u] = want[u] /\ early'[u] = early[u]
  /\ removed' \subseteq removed /\ UNCHANGED <<loaded, closing, cleaned>>

\* ... leaves what is said of the others.
LEMMA OthersSame ==
  ASSUME ElfInv, NEW t \in Hook, Only(t), HookInv(t)'
  PROVE  \A u \in Hook : HookInv(u)'
<1> SUFFICES ASSUME NEW u \in Hook, u # t
             PROVE  HookInv(u)'
  OBVIOUS
<1>1. HookInv(u) /\ u \in Thread
  BY DEF ElfInv, Hook
<1>2. /\ stage'[u] = stage[u] /\ target'[u] = target[u] /\ epc'[u] = epc[u] /\ self'[u] = self[u]
      /\ known'[u] = known[u] /\ want'[u] = want[u]
      /\ (u \in registered' <=> u \in registered) /\ (u \in removed' <=> u \in removed)
      /\ UNCHANGED <<loaded, closing>>
  BY <1>1 DEF Only
<1>3. InCall(u)' <=> InCall(u)
  BY <1>2 DEF InCall
<1> QED
  BY <1>1, <1>2, <1>3 DEF HookInv

LEMMA OthersOwn ==
  ASSUME NEW t \in Hook, Only(t), NEW u \in Hook, u # t
  PROVE  (Owner(u)' <=> Owner(u)) /\ Area(u)' = Area(u) /\ target'[u] = target[u] /\ epc'[u] = epc[u]
         /\ early'[u] = early[u] /\ self'[u] = self[u]
<1>1. u \in Hook \ {t} /\ u \in Thread \ {t}
  BY DEF Hook
<1> QED
  BY <1>1 DEF Only, Owner, Area

LEMMA CloserSame ==
  ASSUME ElfInv, NEW t \in Hook, Only(t), self[Closer] \in E!Listed' => self[Closer] \in E!Listed
  PROVE  CloseInv'
<1>1. Closer \in Thread \ {t} /\ CloseInv
  BY IslandAssumption DEF Hook, ElfInv
<1>2. epc'[Closer] = epc[Closer] /\ self'[Closer] = self[Closer]
  BY <1>1 DEF Only
<1> QED
  BY <1>1, <1>2 DEF Only, CloseInv

\* A step of one hook that changes neither the list nor an object in it nor what is in use.
LEMMA OutsideList ==
  ASSUME ElfInv, NEW t \in Hook, Only(t), UNCHANGED <<elfs, rest>>, ElfTypes', HookInv(t)',
         \A o \in E!Listed : obj'[o] = obj[o],
         \A u \in Hook \ {t} : epc[u] = "insert" => obj'[self[u]] = obj[self[u]],
         ~Owner(t)', Owner(t) => target[t].lib = closing,
         self'[t] \in E!Listed \cup {None} \/ \A u \in Thread \ {t} : self[u] # self'[t],
         epc'[t] = "insert" => Made(t)' /\ self'[t] \notin E!Listed \cup {None},
         epc'[t] = "alloc" => self'[t] \in E!Listed /\ obj[self'[t]].lib = target'[t].lib
  PROVE  ElfInv'
<1>1. /\ UNCHANGED <<loaded, closing, cleaned>> /\ E!Listed' = E!Listed
      /\ \A l : Stays(l)' <=> Stays(l)
  BY DEF Only, E!Listed, Stays
<1>2. (\A u \in Hook : HookInv(u)') /\ CloseInv'
  BY <1>1, OthersSame, CloserSame
<1>3. ListInv'
  <2>1. \A i \in DOMAIN elfs : elfs[i] \in E!Listed
    BY DEF E!Listed
  <2> QED
    BY <1>1, <2>1 DEF ElfInv, ListInv
<1>4. epc'[t] # "free"
  BY DEF Owner
<1>5. UseInv'
  <2>1. ASSUME NEW u \in Hook, epc'[u] \in {"alloc", "free"}
        PROVE  self'[u] \in E!Listed' /\ obj'[self'[u]].lib = target'[u].lib
    BY <1>1, <1>4, <2>1, OthersOwn DEF ElfInv, UseInv
  <2>2. ASSUME NEW u \in Hook, epc'[u] = "insert", u # t
        PROVE  /\ self'[u] = self[u] /\ self[u] \notin E!Listed \cup {None} /\ Made(u)'
               /\ \A v \in Thread \ {u} : self[v] # self[u]
    <3>1. epc[u] = "insert" /\ self'[u] = self[u] /\ target'[u] = target[u] /\ obj'[self[u]] = obj[self[u]]
      BY <2>2, OthersOwn
    <3>2. self[u] # None /\ Made(u) /\ self[u] \notin E!Listed /\ \A v \in Thread \ {u} : self[v] # self[u]
      BY <3>1 DEF ElfInv, HookInv, UseInv
    <3> QED
      BY <3>1, <3>2 DEF Made
  <2>3. ASSUME NEW u \in Hook, epc'[u] = "insert", NEW v \in Thread \ {u}
        PROVE  self'[v] # self'[u]
    <3>1. \A x \in Thread \ {t} : self'[x] = self[x]
      BY DEF Only
    <3>2. CASE u = t
      BY <2>3, <3>1, <3>2
    <3>3. CASE u # t /\ v = t
      <4>1. u \in Thread \ {t}
        BY <3>3 DEF Hook
      <4> QED
        BY <2>2, <2>3, <3>3, <4>1
    <3>4. CASE u # t /\ v # t
      BY <2>2, <2>3, <3>1, <3>4
    <3> QED
      BY <3>2, <3>3, <3>4
  <2>4. \A u \in Hook : epc'[u] = "insert" => Made(u)' /\ self'[u] \notin E!Listed
    BY <2>2
  <2> QED
    BY <1>1, <2>1, <2>3, <2>4 DEF UseInv
<1>6. OwnerInv'
  BY <1>1, OthersOwn DEF ElfInv, OwnerInv
<1>7. ApartInv'
  BY OthersOwn DEF ElfInv, ApartInv
<1>8. UsedInv'
  <2> SUFFICES ASSUME NEW o \in E!Listed, obj[o].lib # closing
               PROVE  obj[o].used = (UNION {Area(u) : u \in Owners(obj[o].lib)})'
    BY <1>1 DEF UsedInv
  <2>1. Owners(obj[o].lib)' = Owners(obj[o].lib) /\ t \notin Owners(obj[o].lib)
    BY OthersOwn DEF Owners
  <2>2. \A u \in Owners(obj[o].lib) : Area(u)' = Area(u)
    BY <2>1, OthersOwn DEF Owners
  <2> QED
    BY <2>1, <2>2 DEF ElfInv, UsedInv
<1>9. RestInv'
  <2>1. \A u \in Hook : epc'[u] = "free" => \A a \in Area(u)' : rest'[a] = early'[u]
    BY <1>4, OthersOwn DEF ElfInv, RestInv
  <2> QED
    BY <1>1, <2>1 DEF ElfInv, RestInv
<1> QED
  BY <1>2, <1>3, <1>5, <1>6, <1>7, <1>8, <1>9 DEF ElfInv

\* The same when no object changes either.
LEMMA HookAlone ==
  ASSUME ElfInv, NEW t \in Hook, Only(t), UNCHANGED <<elfs, obj, rest>>, ElfTypes', HookInv(t)',
         ~Owner(t)', Owner(t) => target[t].lib = closing,
         epc'[t] # "insert", self'[t] \in E!Listed \cup {None},
         epc'[t] = "alloc" => self'[t] \in E!Listed /\ obj[self'[t]].lib = target'[t].lib
  PROVE  ElfInv'
BY OutsideList

\* What a hook has to do with its own entries only.
LEMMA OwnEntries ==
  ASSUME PageInv, ElfInv, NEW t \in Hook,
         UNCHANGED <<loaded, closing, cleaned>>, removed' \in {removed, removed \ {t}},
         registered' \in {registered, registered \cup {t}, registered \ {t}},
         \E x : isl' = [isl EXCEPT ![t] = x], \E s : stage' = [stage EXCEPT ![t] = s],
         \E g : target' = [target EXCEPT ![t] = g], \E e : epc' = [epc EXCEPT ![t] = e],
         \E o : self' = [self EXCEPT ![t] = o], \E l : known' = [known EXCEPT ![t] = l],
         \E w : want' = [want EXCEPT ![t] = w], \E n : early' = [early EXCEPT ![t] = n]
  PROVE  Only(t) /\ registered' \subseteq Hook /\ removed' \subseteq Hook
<1>1. \A u \in Hook \ {t} : isl'[u] = isl[u] /\ stage'[u] = stage[u] /\ target'[u] = target[u]
  BY DEF PageInv, PageTypes
<1>2. \A u \in Thread \ {t} : epc'[u] = epc[u] /\ self'[u] = self[u] /\ known'[u] = known[u]
  BY DEF PageInv, PageTypes, ElfInv, ElfTypes
<1>3. \A u \in Thread \ {t} : want'[u] = want[u] /\ early'[u] = early[u]
  BY DEF ElfInv, ElfTypes
<1>4. removed' \subseteq removed /\ registered' \subseteq Hook /\ removed' \subseteq Hook
  BY DEF ElfInv, ElfTypes
<1>5. \A u \in Hook \ {t} : (u \in registered' <=> u \in registered) /\ (u \in removed' <=> u \in removed)
  OBVIOUS
<1> QED
  BY <1>1, <1>2, <1>3, <1>4, <1>5 DEF Only

LEMMA AsItWas ==
  ASSUME PageInv, ElfInv, NEW t \in Hook
  PROVE  /\ isl = [isl EXCEPT ![t] = isl[t]] /\ stage = [stage EXCEPT ![t] = stage[t]]
         /\ target = [target EXCEPT ![t] = target[t]] /\ epc = [epc EXCEPT ![t] = epc[t]]
         /\ self = [self EXCEPT ![t] = self[t]] /\ known = [known EXCEPT ![t] = known[t]]
         /\ want = [want EXCEPT ![t] = want[t]] /\ early = [early EXCEPT ![t] = early[t]]
         /\ isl[t] \in Island /\ stage[t] \in Stages /\ target[t] \in Target \cup {NoTarget}
         /\ self[t] \in Obj \cup {None} /\ known[t] \in Lib \cup {None}
         /\ t \in Thread /\ Control(stage[t], pc[t], epc[t]) /\ Fitting(stage[t], isl[t], target[t])
         /\ HookInv(t) /\ None \notin Lib \cup Obj /\ (target[t] \in Target => target[t].lib \in Lib)
<1>1. t \in Thread
  BY DEF Hook
<1>2. /\ isl = [isl EXCEPT ![t] = isl[t]] /\ stage = [stage EXCEPT ![t] = stage[t]]
      /\ target = [target EXCEPT ![t] = target[t]] /\ epc = [epc EXCEPT ![t] = epc[t]]
  BY <1>1 DEF PageInv, PageTypes
<1>3. /\ self = [self EXCEPT ![t] = self[t]] /\ known = [known EXCEPT ![t] = known[t]]
      /\ want = [want EXCEPT ![t] = want[t]] /\ early = [early EXCEPT ![t] = early[t]]
  BY <1>1 DEF ElfInv, ElfTypes
<1>4. None \notin Lib \cup Obj
  BY ListFacts
<1>5. target[t] \in Target => target[t].lib \in Lib
  BY IslandAssumption
<1> QED
  BY <1>1, <1>2, <1>3, <1>4, <1>5 DEF PageInv, PageTypes, ElfInv, ElfTypes

\* A step of a hook that sh_elf.c does not see.
LEMMA OutsideElf ==
  ASSUME PageInv, ElfInv, NEW t \in Hook, UNCHANGED elfVars, epc[t] = "idle",
         UNCHANGED <<closing, cleaned>>, removed' \in {removed, removed \ {t}},
         registered' \in {registered, registered \cup {t}, registered \ {t}},
         \E x : isl' = [isl EXCEPT ![t] = x], \E s : stage' = [stage EXCEPT ![t] = s],
         \E g : target' = [target EXCEPT ![t] = g],
         HookInv(t)', ~Owner(t)', Owner(t) => target[t].lib = closing
  PROVE  ElfInv'
<1>1. UNCHANGED <<loaded, elfs, obj, epc, self, known, want, early, rest>>
  BY DEF elfVars
<1>2. Only(t) /\ registered' \subseteq Hook /\ removed' \subseteq Hook
  <2>1. /\ epc' = [epc EXCEPT ![t] = epc[t]] /\ self' = [self EXCEPT ![t] = self[t]]
        /\ known' = [known EXCEPT ![t] = known[t]] /\ want' = [want EXCEPT ![t] = want[t]]
        /\ early' = [early EXCEPT ![t] = early[t]]
    BY <1>1, AsItWas
  <2> QED
    BY <1>1, <2>1, OwnEntries, ZenonT(40)
<1>3. ElfTypes'
  BY <1>1, <1>2 DEF ElfInv, ElfTypes
<1>4. self'[t] = None /\ epc'[t] = "idle"
  BY <1>1, AsItWas DEF HookInv
<1> QED
  BY <1>1, <1>2, <1>3, <1>4, HookAlone

\* Finding the function, and the calls to pages.
LEMMA OutsideSteps ==
  ASSUME TrampoInv, PageInv, ElfInv, NEW t \in Hook, ~late',
         (\E g \in Target : Resolve(t, g)) \/ Alloc(t) \/ GetPage(t)
  PROVE  ElfInv'
<1>1. HookInv(t) /\ Control(stage[t], pc[t], epc[t]) /\ self[t] \in Obj \cup {None}
      /\ target = [target EXCEPT ![t] = target[t]] /\ isl = [isl EXCEPT ![t] = isl[t]]
      /\ stage = [stage EXCEPT ![t] = stage[t]]
  BY AsItWas
<1>2. stage \in [Hook -> Stages] /\ target \in [Hook -> Target \cup {NoTarget}] /\ isl \in [Hook -> Island]
  BY DEF PageInv, PageTypes
<1>3. ASSUME NEW g \in Target, Resolve(t, g)
      PROVE  ElfInv'
  <2>1. /\ stage[t] = "idle" /\ t \notin removed /\ stage' = [stage EXCEPT ![t] = "resolved"]
        /\ target' = [target EXCEPT ![t] = g]
        /\ UNCHANGED <<elfVars, isl, registered, closing, removed, cleaned>>
    BY <1>3 DEF Resolve, Stage
  <2>2. epc[t] = "idle" /\ self[t] = None /\ t \notin registered
    BY <1>1, <2>1 DEF Control, HookInv
  <2>3. stage'[t] = "resolved" /\ epc'[t] = "idle" /\ self'[t] = None /\ isl' = [isl EXCEPT ![t] = isl[t]]
    BY <1>1, <1>2, <2>1, <2>2 DEF elfVars
  <2>4. HookInv(t)' /\ ~Owner(t)' /\ ~Owner(t)
    BY <2>1, <2>2, <2>3 DEF HookInv, InCall, Owner
  <2> QED
    BY <2>1, <2>2, <2>3, <2>4, OutsideElf
<1>4. CASE Alloc(t)
  <2>1. /\ stage[t] = "resolved" /\ stage' = [stage EXCEPT ![t] = "anon"]
        /\ target[t].lib \in loaded /\ target[t].lib # closing
        /\ registered' = registered \cup {t}
        /\ UNCHANGED <<elfVars, isl, target, closing, removed, cleaned>>
    BY <1>4 DEF Alloc, Stage
  <2>2. epc[t] = "idle" /\ self[t] = None /\ t \notin removed
    BY <1>1, <2>1 DEF Control, HookInv
  <2>3. /\ stage'[t] = "anon" /\ epc'[t] = "idle" /\ self'[t] = None /\ UNCHANGED <<loaded, isl, target>>
        /\ isl' = [isl EXCEPT ![t] = isl[t]] /\ target' = [target EXCEPT ![t] = target[t]]
    BY <1>1, <1>2, <2>1, <2>2 DEF elfVars
  <2>4. HookInv(t)' /\ ~Owner(t)' /\ ~Owner(t)
    BY <2>1, <2>2, <2>3 DEF HookInv, InCall, Owner
  <2> QED
    BY <2>1, <2>2, <2>3, <2>4, OutsideElf
<1>5. CASE GetPage(t)
  <2>1. /\ stage[t] = "anon" /\ UNCHANGED <<elfVars, target, registered, closing, removed, cleaned>>
        /\ \/ UNCHANGED <<isl, stage>>
           \/ \E a \in Slot : isl' = [isl EXCEPT ![t] = [type |-> ANON, addr |-> a]]
                              /\ stage' = [stage EXCEPT ![t] = "hooked"]
    BY <1>5, PageAnswers DEF GetPage
  <2>2. epc[t] = "idle" /\ self[t] = None
    BY <1>1, <2>1 DEF Control, HookInv
  <2>3. /\ epc'[t] = "idle" /\ self'[t] = None /\ UNCHANGED <<loaded, target>>
        /\ target' = [target EXCEPT ![t] = target[t]]
    BY <1>1, <2>1, <2>2 DEF elfVars
  <2>4. /\ \E x : isl' = [isl EXCEPT ![t] = x] /\ (x = isl[t] \/ x.type = ANON)
        /\ \E s : stage' = [stage EXCEPT ![t] = s]
        /\ stage'[t] \in {"anon", "hooked"} /\ (stage'[t] = "hooked" => isl'[t].type = ANON)
    <3>1. CASE UNCHANGED <<isl, stage>>
      BY <1>1, <2>1, <3>1
    <3>2. ASSUME NEW a \in Slot, isl' = [isl EXCEPT ![t] = [type |-> ANON, addr |-> a]],
                 stage' = [stage EXCEPT ![t] = "hooked"]
          PROVE  isl'[t].type = ANON /\ stage'[t] = "hooked"
      BY <1>2, <3>2
    <3>3. \A a : [type |-> ANON, addr |-> a].type = ANON
      OBVIOUS
    <3> QED
      BY <2>1, <3>1, <3>2, <3>3
  <2>5. ANON # GAP
    BY DEF ANON, GAP
  <2>6. HookInv(t)' /\ ~Owner(t)' /\ ~Owner(t)
    BY <1>1, <2>1, <2>2, <2>3, <2>4, <2>5 DEF HookInv, InCall, Owner
  <2> QED
    BY <2>1, <2>2, <2>3, <2>4, <2>6, OutsideElf
<1> QED
  BY <1>3, <1>4, <1>5

\* An island in a page goes back, or ends its way there, and dlclose passes over one in a gap.
LEMMA OutsideFrees ==
  ASSUME TrampoInv, PageInv, ElfInv, NEW t \in Hook,
         \/ FreeIsland(t) /\ isl[t].type = ANON
         \/ FreeEnds(t) /\ UNCHANGED elfVars
         \/ CloseSwitch(t)
  PROVE  ElfInv'
<1>1. HookInv(t) /\ Control(stage[t], pc[t], epc[t]) /\ self[t] \in Obj \cup {None}
      /\ target = [target EXCEPT ![t] = target[t]]
  BY AsItWas
<1>2. stage \in [Hook -> Stages] /\ target \in [Hook -> Target \cup {NoTarget}] /\ isl \in [Hook -> Island]
  BY DEF PageInv, PageTypes
<1>3. ANON # GAP
  BY DEF ANON, GAP
<1>4. /\ UNCHANGED <<elfVars, closing, cleaned>> /\ isl' = [isl EXCEPT ![t] = NoIsland]
      /\ \E s \in {"idle", "freeing"} : stage' = [stage EXCEPT ![t] = s]
      /\ \E g : target' = [target EXCEPT ![t] = g]
      /\ removed' \in {removed, removed \ {t}}
      /\ \/ registered' = registered /\ stage[t] = "hooked" /\ stage'[t] = "freeing" /\ removed' = removed
         \/ registered' = registered /\ t \in removed
         \/ registered' = registered \ {t}
      /\ epc[t] = "idle"
  <2>1. CASE FreeIsland(t) /\ isl[t].type = ANON
    BY <1>1, <1>2, <2>1 DEF FreeIsland, Stage, Control
  <2>2. CASE FreeEnds(t) /\ UNCHANGED elfVars
    <3>1. epc[t] = "idle"
      <4>1. CASE Free(t)
        <5>1. pc[t] = "free"
          BY <4>1 DEF Free
        <5>2. epc[t] \in Searching \cup {"idle", "free", "destroy"} /\ stage[t] = "freeing"
          BY <2>2, AsItWas DEF PageInv, PageTypes, FreeEnds
        <5> QED
          BY <1>1, <5>1, <5>2 DEF Control
      <4>2. CASE E!FreeUnits(t)
        <5>1. epc[t] = "free" /\ epc' = [epc EXCEPT ![t] = "idle"] /\ t \in Thread
          BY <4>2 DEF E!FreeUnits, E!Done, Hook
        <5>2. epc'[t] = "idle"
          BY <5>1 DEF PageInv, PageTypes
        <5> QED
          <6>1. epc' = epc
            BY <2>2 DEF elfVars
          <6> QED
            BY <5>2, <6>1
      <4> QED
        BY <2>2, <4>1, <4>2 DEF FreeEnds
    <3> QED
      BY <2>2, <3>1 DEF FreeEnds, Gone, Stage
  <2>3. CASE CloseSwitch(t)
    <3>1. epc[t] = "idle"
      BY <1>1, <2>3 DEF CloseSwitch, Control
    <3>2. /\ UNCHANGED <<elfVars, closing, cleaned, registered>> /\ isl' = [isl EXCEPT ![t] = NoIsland]
          /\ removed' = removed \ {t} /\ t \in removed
      BY <2>3 DEF CloseSwitch
    <3>3. /\ \E s \in {"idle", "freeing"} : stage' = [stage EXCEPT ![t] = s]
          /\ \E g : target' = [target EXCEPT ![t] = g]
      BY <1>1, <2>3 DEF CloseSwitch, Stage
    <3> QED
      BY <3>1, <3>2, <3>3
  <2> QED
    BY <2>1, <2>2, <2>3
<1>5. stage'[t] \in {"idle", "freeing"} /\ epc'[t] = "idle" /\ self'[t] = None /\ UNCHANGED loaded
  BY <1>1, <1>2, <1>4 DEF elfVars, HookInv
<1>6. t \notin registered' \/ (stage'[t] = "freeing" /\ t \notin removed')
  BY <1>1, <1>4, <1>5 DEF HookInv
<1>7. HookInv(t)' /\ ~Owner(t)'
  BY <1>5, <1>6 DEF HookInv, InCall, Owner
<1>8. Owner(t) => target[t].lib = closing
  <2>1. CASE FreeIsland(t) /\ isl[t].type = ANON
    BY <1>3, <1>4, <2>1 DEF Owner
  <2>2. CASE FreeEnds(t) /\ UNCHANGED elfVars
    BY <1>4, <2>2 DEF Owner, FreeEnds
  <2>3. CASE CloseSwitch(t)
    BY <1>1, <1>4, <2>3 DEF Owner, CloseSwitch, HookInv, InCall
  <2> QED
    BY <2>1, <2>2, <2>3
<1>9. registered' \in {registered, registered \cup {t}, registered \ {t}}
  BY <1>4
<1> QED
  BY <1>4, <1>7, <1>8, <1>9, OutsideElf

\* A hook turns to the gaps of its ELF.
LEMMA TryGapsStep ==
  ASSUME PageInv, ElfInv, NEW t \in Hook, TryGaps(t)
  PROVE  ElfInv'
<1> DEFINE g == target[t]
           w == [pc |-> g.pc, size |-> g.size, low |-> g.low, high |-> g.high, addr |-> 0]
           l == IF g.told THEN g.lib ELSE None
<1>1. /\ stage[t] = "anon" /\ stage' = [stage EXCEPT ![t] = "gap"]
      /\ UNCHANGED <<isl, target, registered, closing, removed, cleaned>>
      /\ epc[t] = "idle" /\ epc' = [epc EXCEPT ![t] = "find"]
      /\ want' = [want EXCEPT ![t] = w] /\ known' = [known EXCEPT ![t] = l]
      /\ UNCHANGED <<loaded, elfs, obj, self, early, rest>>
  BY DEF TryGaps, Stage, E!ElfAlloc, E!Become
<1>2. /\ HookInv(t) /\ target[t] \in Target /\ t \in Thread /\ None \notin Lib \cup Obj /\ self[t] \in Obj \cup {None}
      /\ g.lib \in Lib
  BY <1>1, AsItWas DEF Fitting
<1>3. g.pc \in Nat /\ g.size \in Nat /\ g.low \in Nat /\ g.high \in Nat
  BY <1>2, IslandAssumption
<1>4. /\ w \in [pc : Nat, size : Nat, low : Nat, high : Nat, addr : Int] /\ w.pc = g.pc /\ w.size = g.size
      /\ l \in Lib \cup {None} /\ l \in {None, g.lib}
  BY <1>2, <1>3
<1> HIDE DEF w, l
<1>5. ElfTypes'
  BY <1>1, <1>4 DEF ElfInv, ElfTypes
<1>6. Only(t)
  <2>1. /\ isl' = [isl EXCEPT ![t] = isl[t]] /\ target' = [target EXCEPT ![t] = target[t]]
        /\ self' = [self EXCEPT ![t] = self[t]] /\ early' = [early EXCEPT ![t] = early[t]]
    BY <1>1, AsItWas
  <2> QED
    BY <1>1, <2>1, OwnEntries
<1>7. stage'[t] = "gap" /\ epc'[t] = "find" /\ want'[t] = w /\ known'[t] = l
  BY <1>1, <1>2 DEF PageInv, PageTypes, ElfInv, ElfTypes
<1>8. self'[t] = None
  BY <1>1, <1>2 DEF HookInv
<1>9. HookInv(t)' /\ ~Owner(t)' /\ ~Owner(t)
  <2>1. InCall(t) /\ (t \in registered \cup removed) /\ g.lib \in loaded /\ (t \in removed <=> g.lib = closing)
        /\ ~(t \in registered /\ t \in removed)
    BY <1>1, <1>2 DEF InCall, HookInv
  <2> QED
    BY <1>1, <1>4, <1>7, <1>8, <2>1 DEF HookInv, InCall, Owner
<1> QED
  BY <1>1, <1>5, <1>6, <1>7, <1>8, <1>9, HookAlone

\* A search of the list for the hook's ELF.
LEMMA FindStep ==
  ASSUME PageInv, ElfInv, NEW t \in Hook, stage[t] = "gap", E!Find(t), UNCHANGED <<vars, ivars>>
  PROVE  ElfInv'
<1> DEFINE l == target[t].lib
           found == E!ByAddress(want[t].pc)
<1>1. /\ epc[t] = "find" /\ UNCHANGED <<loaded, elfs, obj, want, early, rest>>
      /\ UNCHANGED <<isl, stage, target, registered, closing, removed, cleaned>>
      /\ \/ found = {} /\ epc' = [epc EXCEPT ![t] = "create"] /\ UNCHANGED <<self, known>>
         \/ /\ found # {} /\ epc' = [epc EXCEPT ![t] = "alloc"] /\ self' = [self EXCEPT ![t] = E!First(found)]
            /\ known' = [known EXCEPT ![t] = IF @ = None THEN obj[E!First(found)].lib ELSE @]
  BY DEF E!Find, E!Become, E!Use, E!LibOf, ivars, None
<1>2. /\ HookInv(t) /\ target[t] \in Target /\ t \in Thread /\ None \notin Lib \cup Obj
      /\ self[t] \in Obj \cup {None} /\ known[t] \in Lib \cup {None}
      /\ l \in Lib
  BY <1>1, AsItWas DEF Fitting
<1>3. InCall(t) /\ l \in loaded /\ want[t].pc = target[t].pc /\ known[t] \in {None, l} /\ self[t] = None
  BY <1>1, <1>2 DEF HookInv, InCall
<1>4. found # {} => E!First(found) \in E!Listed /\ obj[E!First(found)].lib = l
  <2>1. E!InElf(want[t].pc, l)
    BY <1>2, <1>3, IslandAssumption
  <2> QED
    BY <1>3, <2>1, ByAddressFinds
<1>5. PICK e \in {"create", "alloc"}, o \in Obj \cup {None}, k \in Lib \cup {None} :
         /\ epc' = [epc EXCEPT ![t] = e] /\ self' = [self EXCEPT ![t] = o] /\ known' = [known EXCEPT ![t] = k]
         /\ k \in {None, l}
         /\ e = "create" => o = None
         /\ e = "alloc" => o \in E!Listed /\ obj[o].lib = l
  <2>1. CASE found = {}
    BY <1>1, <1>2, <1>3, <2>1, AsItWas
  <2>2. CASE found # {}
    <3>1. E!First(found) \in Obj
      BY <1>4, <2>2, ListFacts
    <3>2. (IF known[t] = None THEN obj[E!First(found)].lib ELSE known[t]) = l
      BY <1>3, <1>4, <2>2
    <3>3. known' = [known EXCEPT ![t] = l]
      BY <1>1, <2>2, <3>2
    <3> HIDE DEF found
    <3> QED
      BY <1>1, <1>2, <1>4, <2>2, <3>1, <3>3
  <2> QED
    BY <2>1, <2>2
<1>6. ElfTypes'
  BY <1>1, <1>5 DEF ElfInv, ElfTypes
<1>7. Only(t)
  <2>1. /\ isl' = [isl EXCEPT ![t] = isl[t]] /\ target' = [target EXCEPT ![t] = target[t]]
        /\ stage' = [stage EXCEPT ![t] = stage[t]]
        /\ want' = [want EXCEPT ![t] = want[t]] /\ early' = [early EXCEPT ![t] = early[t]]
    BY <1>1, AsItWas
  <2> QED
    BY <1>1, <1>5, <2>1, OwnEntries
<1>8. epc'[t] = e /\ self'[t] = o /\ known'[t] = k
  BY <1>2, <1>5 DEF PageInv, PageTypes, ElfInv, ElfTypes
<1>9. HookInv(t)' /\ ~Owner(t)' /\ ~Owner(t)
  <2>1. o = None <=> e = "create"
    BY <1>2, <1>5, ListFacts
  <2> QED
    BY <1>1, <1>2, <1>5, <1>8, <2>1 DEF HookInv, InCall, Owner
<1> QED
  BY <1>1, <1>5, <1>6, <1>7, <1>8, <1>9, HookAlone

\* The list was searched in vain.
LEMMA InVainStep ==
  ASSUME PageInv, ElfInv, NEW t \in Hook, stage[t] = "gap", E!CreateFails(t) \/ E!AllocMisses(t), Gone(t),
         UNCHANGED <<vars, closing, removed, cleaned>>
  PROVE  ElfInv'
<1>1. /\ UNCHANGED <<loaded, elfs, obj, rest>>
      /\ epc' = [epc EXCEPT ![t] = "idle"] /\ self' = [self EXCEPT ![t] = None]
      /\ known' = [known EXCEPT ![t] = None] /\ want' = [want EXCEPT ![t] = E!Nothing]
      /\ early' = [early EXCEPT ![t] = 0]
      /\ isl' = [isl EXCEPT ![t] = NoIsland] /\ stage' = [stage EXCEPT ![t] = "idle"]
      /\ target' = [target EXCEPT ![t] = NoTarget] /\ registered' = registered \ {t}
  BY DEF E!CreateFails, E!AllocMisses, E!Done, Gone, Stage, None
<1>2. E!Nothing \in [pc : Nat, size : Nat, low : Nat, high : Nat, addr : Int]
  BY DEF E!Nothing
<1>3. Only(t) /\ registered' \subseteq Hook /\ removed' \subseteq Hook
  BY <1>1, OwnEntries
<1>4. ElfTypes'
  BY <1>1, <1>2, <1>3 DEF ElfInv, ElfTypes
<1>5. epc'[t] = "idle" /\ self'[t] = None /\ stage'[t] = "idle"
  BY <1>1, AsItWas DEF PageInv, PageTypes, ElfInv, ElfTypes
<1>6. Control(stage[t], pc[t], epc[t])
  BY AsItWas
<1>7. HookInv(t)' /\ ~Owner(t)' /\ ~Owner(t)
  BY <1>1, <1>5, <1>6 DEF HookInv, InCall, Owner, Control
<1> QED
  BY <1>1, <1>3, <1>4, <1>5, <1>7, HookAlone

LEMMA GapTypes ==
  ASSUME NEW l \in Lib
  PROVE  /\ E!PhdrGaps(l) \subseteq AllGaps(l) /\ AllGaps(l) \subseteq Int \X Int
         /\ \A n \in 0 .. Len(Symbols[l]) : E!SymbolGaps(l, n) \subseteq AllGaps(l)
<1>1. Symbols[l] \in Seq(Nat \X Nat)
  BY IslandAssumption DEF E!ElfConstants
<1>2. Len(Symbols[l]) \in Nat
  BY <1>1, LenProperties
<1>3. \A n \in 0 .. Len(Symbols[l]) : 1 .. n \subseteq 1 .. Len(Symbols[l])
  BY <1>2
<1>4. \A n \in 0 .. Len(Symbols[l]) : E!SymbolGaps(l, n) \subseteq E!SymbolGaps(l, Len(Symbols[l]))
  BY <1>3 DEF E!SymbolGaps
<1>5. AllGaps(l) \subseteq Int \X Int
  BY GapBytes
<1> QED
  BY <1>4, <1>5 DEF AllGaps

\* An object is made for the hook's ELF.
LEMMA CreateStep ==
  ASSUME PageInv, ElfInv, NEW t \in Hook, stage[t] = "gap", E!Create(t), UNCHANGED <<vars, ivars>>
  PROVE  ElfInv'
<1> DEFINE l == target[t].lib
<1>1. /\ epc[t] = "create" /\ UNCHANGED <<loaded, elfs, want, early, rest>>
      /\ UNCHANGED <<isl, stage, target, registered, closing, removed, cleaned>>
      /\ epc' = [epc EXCEPT ![t] = "insert"] /\ E!Unreferenced # {}
  BY DEF E!Create, E!Become, ivars
<1>2. /\ HookInv(t) /\ target[t] \in Target /\ t \in Thread /\ None \notin Lib \cup Obj
      /\ l \in Lib
  BY <1>1, AsItWas DEF Fitting
<1>3. InCall(t) /\ l \in loaded /\ want[t].pc = target[t].pc /\ known[t] \in {None, l}
  BY <1>1, <1>2 DEF HookInv, InCall
<1>4. PICK o \in E!Unreferenced, k \in IF known[t] # None THEN {known[t]} ELSE {x \in loaded : E!InElf(want[t].pc, x)} :
         /\ known' = [known EXCEPT ![t] = k] /\ self' = [self EXCEPT ![t] = o]
         /\ obj' = [obj EXCEPT ![o] =
              [lib |-> k, gaps |-> E!PhdrGaps(k), useless |-> Symbols[k] # <<>>, used |-> {},
               time |-> [u \in DOMAIN rest |-> 0], destroyed |-> FALSE]]
  BY <1>1, ZenonT(40) DEF E!Create, E!Use, None
<1>5. k = l
  <2>1. CASE known[t] # None
    BY <1>3, <1>4, <2>1
  <2>2. CASE known[t] = None
    <3>1. k \in loaded /\ E!InElf(want[t].pc, k) /\ k \in Lib
      BY <1>4, <2>2, ListFacts
    <3>2. E!InElf(target[t].pc, l)
      BY <1>2, IslandAssumption
    <3>3. target[t].pc \in E!Pages(k) /\ target[t].pc \in E!Pages(l)
      BY <1>2, <1>3, <3>1, <3>2, InPages
    <3> QED
      BY <1>3, <3>1, <3>3, OneElf DEF ElfInv
  <2> QED
    BY <2>1, <2>2
<1> DEFINE new == [lib |-> l, gaps |-> E!PhdrGaps(l), useless |-> Symbols[l] # <<>>, used |-> {},
                   time |-> [u \in E!Address |-> 0], destroyed |-> FALSE]
<1>6. obj' = [obj EXCEPT ![o] = new] /\ new \in Object
  <2>1. DOMAIN rest = E!Address
    BY DEF PageInv, PageTypes
  <2>2. obj' = [obj EXCEPT ![o] = new]
    BY <1>4, <1>5, <2>1
  <2>3. E!PhdrGaps(l) \in SUBSET (Int \X Int)
    BY <1>2, GapTypes
  <2>4. [u \in E!Address |-> 0] \in [E!Address -> Nat] \cup {<<>>}
    OBVIOUS
  <2>5. \A g \in SUBSET (Int \X Int), b \in BOOLEAN, f \in [E!Address -> Nat] \cup {<<>>} :
           [lib |-> l, gaps |-> g, useless |-> b, used |-> {}, time |-> f, destroyed |-> FALSE] \in Object
    BY <1>2 DEF Object
  <2> QED
    BY <2>2, <2>3, <2>4, <2>5
<1>7. o \in Obj /\ o \notin E!Listed /\ \A u \in Thread : self[u] # o
  BY DEF E!Unreferenced
<1> HIDE DEF new
<1>8. ElfTypes'
  <2>1. self' = [self EXCEPT ![t] = o] /\ known' = [known EXCEPT ![t] = l]
    BY <1>4, <1>5
  <2> QED
    BY <1>1, <1>2, <1>6, <1>7, <2>1 DEF ElfInv, ElfTypes
<1>9. Only(t)
  <2>1. /\ isl' = [isl EXCEPT ![t] = isl[t]] /\ target' = [target EXCEPT ![t] = target[t]]
        /\ stage' = [stage EXCEPT ![t] = stage[t]]
        /\ want' = [want EXCEPT ![t] = want[t]] /\ early' = [early EXCEPT ![t] = early[t]]
    BY <1>1, AsItWas
  <2> QED
    BY <1>1, <1>4, <2>1, OwnEntries
<1>10. epc'[t] = "insert" /\ self'[t] = o /\ known'[t] = l /\ obj'[o] = new /\ \A p \in Obj \ {o} : obj'[p] = obj[p]
  BY <1>1, <1>2, <1>4, <1>5, <1>6, <1>7 DEF PageInv, PageTypes, ElfInv, ElfTypes
<1>11. HookInv(t)' /\ ~Owner(t)' /\ ~Owner(t)
  <2>1. o # None
    BY <1>2, <1>7
  <2> QED
    BY <1>1, <1>2, <1>10, <2>1 DEF HookInv, InCall, Owner
<1>12. Made(t)'
  <2>1. new = [lib |-> l, gaps |-> E!PhdrGaps(l), useless |-> new.useless, used |-> {},
               time |-> [u \in E!Address |-> 0], destroyed |-> FALSE]
    BY DEF new
  <2> QED
    BY <1>1, <1>10, <2>1 DEF Made
<1>13. \A p \in E!Listed : obj'[p] = obj[p]
  BY <1>7, <1>10, ListFacts
<1>14. \A u \in Hook \ {t} : epc[u] = "insert" => obj'[self[u]] = obj[self[u]]
  <2> SUFFICES ASSUME NEW u \in Hook \ {t}, epc[u] = "insert"
               PROVE  self[u] \in Obj \ {o}
    BY <1>10
  <2>1. u \in Thread /\ HookInv(u) /\ self[u] \in Obj \cup {None}
    BY AsItWas
  <2> QED
    BY <1>7, <2>1 DEF HookInv
<1>15. o # None /\ self'[t] \notin E!Listed \cup {None} /\ \A u \in Thread \ {t} : self[u] # self'[t]
  BY <1>2, <1>7, <1>10
<1> QED
  BY <1>1, <1>8, <1>9, <1>10, <1>11, <1>12, <1>13, <1>14, <1>15, OutsideList

\* Another thread was faster: its object counts and the hook's own is given up.
LEMMA InsertLostStep ==
  ASSUME PageInv, ElfInv, NEW t \in Hook, stage[t] = "gap", E!Insert(t), UNCHANGED <<vars, ivars>>,
         E!ByBias(Bias[obj[self[t]].lib]) # {}
  PROVE  ElfInv'
<1> DEFINE l == target[t].lib
           o == self[t]
           p == E!First(E!ByBias(Bias[l]))
<1>1. /\ epc[t] = "insert" /\ UNCHANGED <<loaded, known, want, early, rest>>
      /\ UNCHANGED <<isl, stage, target, registered, closing, removed, cleaned>>
      /\ epc' = [epc EXCEPT ![t] = "alloc"]
  BY DEF E!Insert, E!Become, ivars
<1>2. /\ HookInv(t) /\ target[t] \in Target /\ t \in Thread /\ None \notin Lib \cup Obj
      /\ l \in Lib /\ o \in Obj \cup {None}
  BY <1>1, AsItWas DEF Fitting
<1>3. InCall(t) /\ l \in loaded /\ o \in Obj
  BY <1>1, <1>2 DEF HookInv, InCall
<1>4. Made(t) /\ o \notin E!Listed /\ (\A u \in Thread \ {t} : self[u] # o) /\ obj[o].lib = l
  <2>1. Made(t) /\ o \notin E!Listed /\ (\A u \in Thread \ {t} : self[u] # o)
    BY <1>1 DEF ElfInv, UseInv
  <2> QED
    BY <2>1 DEF Made
<1>5. UNCHANGED elfs /\ self' = [self EXCEPT ![t] = p] /\ obj' = [obj EXCEPT ![o] = E!NoObject]
  BY <1>4 DEF E!Insert, E!Use, E!LibOf
<1>6. p \in E!Listed /\ obj[p].lib = l
  BY <1>3, <1>4, ByBiasFinds
<1>7. p \in Obj
  BY <1>6, ListFacts
<1> HIDE DEF p
<1>8. E!NoObject \in Object
  BY DEF E!NoObject, Object, None
<1>9. ElfTypes'
  BY <1>1, <1>5, <1>7, <1>8 DEF ElfInv, ElfTypes
<1>10. Only(t)
  <2>1. /\ isl' = [isl EXCEPT ![t] = isl[t]] /\ target' = [target EXCEPT ![t] = target[t]]
        /\ stage' = [stage EXCEPT ![t] = stage[t]] /\ known' = [known EXCEPT ![t] = known[t]]
        /\ want' = [want EXCEPT ![t] = want[t]] /\ early' = [early EXCEPT ![t] = early[t]]
    BY <1>1, AsItWas
  <2> QED
    BY <1>1, <1>5, <2>1, OwnEntries
<1>11. epc'[t] = "alloc" /\ self'[t] = p /\ \A q \in Obj \ {o} : obj'[q] = obj[q]
  BY <1>1, <1>2, <1>5 DEF PageInv, PageTypes, ElfInv, ElfTypes
<1>12. HookInv(t)' /\ ~Owner(t)' /\ ~Owner(t)
  <2>1. p # None
    BY <1>2, <1>7
  <2> QED
    BY <1>1, <1>2, <1>11, <2>1 DEF HookInv, InCall, Owner
<1>13. \A q \in E!Listed : obj'[q] = obj[q]
  BY <1>4, <1>11, ListFacts
<1>14. \A u \in Hook \ {t} : epc[u] = "insert" => obj'[self[u]] = obj[self[u]]
  <2> SUFFICES ASSUME NEW u \in Hook \ {t}, epc[u] = "insert"
               PROVE  self[u] \in Obj \ {o}
    BY <1>11
  <2>1. u \in Thread /\ HookInv(u) /\ self[u] \in Obj \cup {None}
    BY AsItWas
  <2> QED
    BY <1>4, <2>1 DEF HookInv
<1> HIDE DEF o
<1> QED
  BY <1>1, <1>5, <1>6, <1>9, <1>10, <1>11, <1>12, <1>13, <1>14, OutsideList

LEMMA Appended ==
  ASSUME ElfInv, NEW o \in Obj, elfs' = Append(elfs, o)
  PROVE  /\ elfs' \in Seq(Obj) /\ DOMAIN elfs' = 1 .. Len(elfs) + 1
         /\ \A i \in DOMAIN elfs : i \in DOMAIN elfs' /\ elfs'[i] = elfs[i]
         /\ \A i \in DOMAIN elfs' : i = Len(elfs) + 1 \/ i \in DOMAIN elfs
         /\ elfs'[Len(elfs) + 1] = o /\ Len(elfs) + 1 \in DOMAIN elfs'
         /\ E!Listed' = E!Listed \cup {o}
<1>1. elfs \in Seq(Obj) /\ Len(elfs) \in Nat /\ DOMAIN elfs = 1 .. Len(elfs)
  BY ListFacts
<1>2. /\ elfs' \in Seq(Obj) /\ Len(elfs') = Len(elfs) + 1
      /\ \A i \in 1 .. Len(elfs) : elfs'[i] = elfs[i]
      /\ elfs'[Len(elfs) + 1] = o
  BY <1>1, AppendProperties
<1>3. DOMAIN elfs' = 1 .. Len(elfs) + 1
  BY <1>2, LenProperties
<1>4. /\ \A i \in DOMAIN elfs : i \in DOMAIN elfs' /\ elfs'[i] = elfs[i]
      /\ \A i \in DOMAIN elfs' : i = Len(elfs) + 1 \/ i \in DOMAIN elfs
      /\ Len(elfs) + 1 \in DOMAIN elfs'
  BY <1>1, <1>2, <1>3
<1>5. E!Listed' = {elfs'[i] : i \in DOMAIN elfs'} /\ E!Listed = {elfs[i] : i \in DOMAIN elfs}
  BY DEF E!Listed
<1>6. E!Listed' = E!Listed \cup {o}
  BY <1>2, <1>4, <1>5
<1> QED
  BY <1>2, <1>3, <1>4, <1>6

\* The new object joins the list, the only one of its ELF.
LEMMA InsertStep ==
  ASSUME PageInv, ElfInv, NEW t \in Hook, stage[t] = "gap", E!Insert(t), UNCHANGED <<vars, ivars>>,
         E!ByBias(Bias[obj[self[t]].lib]) = {}
  PROVE  ElfInv'
<1> DEFINE l == target[t].lib
           o == self[t]
<1>1. /\ epc[t] = "insert" /\ UNCHANGED <<loaded, known, want, early, rest, self, obj>>
      /\ UNCHANGED <<isl, stage, target, registered, closing, removed, cleaned>>
      /\ epc' = [epc EXCEPT ![t] = "alloc"] /\ elfs' = Append(elfs, o)
  BY DEF E!Insert, E!Become, ivars, E!LibOf
<1>2. /\ HookInv(t) /\ target[t] \in Target /\ t \in Thread /\ None \notin Lib \cup Obj
      /\ l \in Lib /\ o \in Obj \cup {None}
  BY <1>1, AsItWas DEF Fitting
<1>3. InCall(t) /\ l \in loaded /\ o \in Obj /\ (t \in removed <=> l = closing)
  BY <1>1, <1>2 DEF HookInv, InCall
<1>4. Made(t) /\ o \notin E!Listed /\ (\A u \in Thread \ {t} : self[u] # o)
  BY <1>1 DEF ElfInv, UseInv
<1>5. /\ obj[o].lib = l /\ obj[o].gaps = E!PhdrGaps(l) /\ obj[o].used = {} /\ ~obj[o].destroyed
      /\ obj[o].time = [u \in E!Address |-> 0]
  BY <1>4 DEF Made
<1>6. \A p \in E!Listed : obj[p].lib # l
  BY <1>3, <1>5, ByBiasFinds
<1>7. Stays(l)
  BY <1>3 DEF Stays, ElfInv, CloseInv
<1>8. Only(t)
  <2>1. /\ isl' = [isl EXCEPT ![t] = isl[t]] /\ target' = [target EXCEPT ![t] = target[t]]
        /\ stage' = [stage EXCEPT ![t] = stage[t]] /\ known' = [known EXCEPT ![t] = known[t]]
        /\ want' = [want EXCEPT ![t] = want[t]] /\ early' = [early EXCEPT ![t] = early[t]]
        /\ self' = [self EXCEPT ![t] = self[t]]
    BY <1>1, AsItWas
  <2> QED
    BY <1>1, <2>1, OwnEntries
<1>9. epc'[t] = "alloc" /\ \A u \in Thread \ {t} : epc'[u] = epc[u]
  BY <1>1, <1>2 DEF PageInv, PageTypes
<1>10. /\ elfs' \in Seq(Obj) /\ DOMAIN elfs' = 1 .. Len(elfs) + 1
       /\ \A i \in DOMAIN elfs : i \in DOMAIN elfs' /\ elfs'[i] = elfs[i]
       /\ \A i \in DOMAIN elfs' : i = Len(elfs) + 1 \/ i \in DOMAIN elfs
       /\ elfs'[Len(elfs) + 1] = o /\ Len(elfs) + 1 \in DOMAIN elfs'
       /\ E!Listed' = E!Listed \cup {o}
  BY <1>1, <1>3, Appended
<1> HIDE DEF o
<1>11. ElfTypes'
  BY <1>1, <1>10 DEF ElfInv, ElfTypes
<1>12. HookInv(t)' /\ ~Owner(t)' /\ ~Owner(t)
  BY <1>1, <1>2, <1>9 DEF HookInv, InCall, Owner
<1>13. (\A u \in Hook : HookInv(u)') /\ CloseInv'
  <2>1. self[Closer] # o
    BY <1>4, IslandAssumption DEF Hook
  <2> QED
    BY <1>8, <1>10, <1>12, <2>1, OthersSame, CloserSame
<1>14. /\ \A u \in Hook : (Owner(u)' <=> Owner(u)) /\ Area(u)' = Area(u)
       /\ \A k : Owners(k)' = Owners(k)
  <2>1. \A u \in Hook : (Owner(u)' <=> Owner(u)) /\ Area(u)' = Area(u)
    BY <1>1, <1>8, <1>12, OthersOwn DEF Area
  <2> QED
    BY <1>1, <2>1 DEF Owners
<1>15. ListInv'
  <2>1. E!PhdrGaps(l) \subseteq AllGaps(l)
    BY <1>2, GapTypes
  <2>2. DOMAIN obj[o].time = E!Address
    BY <1>5
  <2>3. \A p \in E!Listed' : Stays(obj[p].lib)' /\ ~obj'[p].destroyed /\ obj'[p].gaps \subseteq AllGaps(obj'[p].lib)
                             /\ DOMAIN obj'[p].time = E!Address
    BY <1>1, <1>5, <1>7, <1>10, <2>1, <2>2 DEF ElfInv, ListInv, Stays
  <2>4. ASSUME NEW i \in DOMAIN elfs', NEW j \in DOMAIN elfs', obj'[elfs'[i]].lib = obj'[elfs'[j]].lib
        PROVE  i = j
    <3>1. \A k \in DOMAIN elfs : elfs'[k] = elfs[k] /\ obj[elfs[k]].lib # l
      BY <1>6, <1>10 DEF E!Listed
    <3>2. CASE i \in DOMAIN elfs /\ j \in DOMAIN elfs
      BY <1>1, <2>4, <3>1, <3>2 DEF ElfInv, ListInv
    <3>3. CASE ~(i \in DOMAIN elfs /\ j \in DOMAIN elfs)
      BY <1>1, <1>5, <1>10, <2>4, <3>1, <3>3
    <3> QED
      BY <3>2, <3>3
  <2> QED
    BY <2>3, <2>4 DEF ListInv
<1>16. UseInv'
  <2>1. ASSUME NEW u \in Hook, epc'[u] \in {"alloc", "free"}
        PROVE  self'[u] \in E!Listed' /\ obj'[self'[u]].lib = target'[u].lib
    <3>1. CASE u = t
      BY <1>1, <1>5, <1>10, <3>1 DEF o
    <3>2. CASE u # t
      BY <1>1, <1>8, <1>10, <2>1, <3>2, OthersOwn DEF ElfInv, UseInv
    <3> QED
      BY <3>1, <3>2
  <2>2. ASSUME NEW u \in Hook, epc'[u] = "insert"
        PROVE  Made(u)' /\ self'[u] \notin E!Listed' /\ \A v \in Thread \ {u} : self'[v] # self'[u]
    <3>1. u # t /\ epc[u] = "insert" /\ u \in Thread
      BY <1>8, <1>9, <2>2, OthersOwn DEF Hook
    <3>2. Made(u) /\ self[u] \notin E!Listed /\ \A v \in Thread \ {u} : self[v] # self[u]
      BY <3>1 DEF ElfInv, UseInv
    <3>3. self[u] # o
      BY <1>4, <3>1
    <3> QED
      BY <1>1, <1>10, <3>2, <3>3 DEF Made
  <2> QED
    BY <2>1, <2>2 DEF UseInv
<1>17. OwnerInv' /\ ApartInv'
  BY <1>1, <1>10, <1>14 DEF ElfInv, OwnerInv, ApartInv
<1>18. UsedInv'
  <2>1. Owners(l) = {}
    BY <1>6 DEF ElfInv, OwnerInv, Owners
  <2>2. obj[o].used = UNION {Area(u) : u \in Owners(l)}
    BY <1>5, <2>1
  <2>3. \A p \in E!Listed' : obj[p].lib # closing => obj[p].used = UNION {Area(u) : u \in Owners(obj[p].lib)}
    BY <1>5, <1>10, <2>2 DEF ElfInv, UsedInv
  <2>4. ASSUME NEW k
        PROVE  (UNION {Area(u) : u \in Owners(k)})' = UNION {Area(u) : u \in Owners(k)}
    BY <1>14 DEF Owners
  <2> QED
    BY <1>1, <2>3, <2>4 DEF UsedInv
<1>19. RestInv'
  <2>1. \A u \in E!Address \cap E!Pages(l) : rest[u] = 0
    BY <1>3, <1>6, <1>7 DEF ElfInv, RestInv
  <2>2. \A u \in E!Address : obj[o].time[u] = 0
    BY <1>5
  <2>3. \A p \in E!Listed' : \A u \in E!Address \cap E!Pages(obj[p].lib) : u \notin obj[p].used => rest[u] <= obj[p].time[u]
    BY <1>5, <1>10, <2>1, <2>2 DEF ElfInv, RestInv
  <2>4. \A u \in Hook : epc'[u] = "free" => \A a \in Area(u)' : rest'[a] = early'[u]
    <3>1. \A u \in Hook : epc'[u] = "free" => epc[u] = "free"
      BY <1>8, <1>9, OthersOwn
    <3> QED
      BY <1>1, <1>14, <3>1 DEF ElfInv, RestInv
  <2>5. \A k : Stays(k)' <=> Stays(k)
    BY <1>1 DEF Stays
  <2> QED
    BY <1>1, <1>10, <2>3, <2>4, <2>5 DEF ElfInv, RestInv
<1> QED
  BY <1>11, <1>13, <1>15, <1>16, <1>17, <1>18, <1>19 DEF ElfInv

\* One step of the search for the object, on its way to the gaps.
LEMMA SearchStep ==
  ASSUME PageInv, ElfInv, NEW t \in Hook, SearchGaps(t)
  PROVE  ElfInv'
<1>1. stage[t] = "gap" /\ UNCHANGED <<vars, ivars>>
  BY DEF SearchGaps
<1>2. CASE E!Find(t) \/ E!Create(t)
  BY <1>1, <1>2, FindStep, CreateStep
<1>3. CASE E!Insert(t)
  BY <1>1, <1>3, InsertStep, InsertLostStep
<1>4. ~E!Again(t)
  <2> SUFFICES ASSUME epc[t] = "alloc", obj[self[t]].destroyed
               PROVE  FALSE
    BY DEF E!Again
  <2> QED
    BY DEF ElfInv, UseInv, ListInv
<1> QED
  BY <1>2, <1>3, <1>4 DEF SearchGaps

\* A step of one hook in the object of its ELF: it takes units there, or gives its own back.
LEMMA ObjectStep ==
  ASSUME PageInv, ElfInv, NEW t \in Hook, Only(t), UNCHANGED <<elfs, rest>>, ElfTypes', HookInv(t)',
         NEW o \in E!Listed, NEW l, obj[o].lib = l, NEW now_used, NEW now_time,
         \A p \in Obj \ {o} : obj'[p] = obj[p],
         obj'[o].lib = l, ~obj'[o].destroyed, obj'[o].used = now_used, obj'[o].time = now_time,
         obj[o].gaps \subseteq obj'[o].gaps, obj'[o].gaps \subseteq AllGaps(l), DOMAIN now_time = E!Address,
         epc'[t] = "idle", self'[t] = None,
         Owner(t) => target[t].lib = l,
         Owner(t)' => target'[t].lib = l /\ Area(t)' \subseteq E!Units(obj'[o].gaps) \cap now_used,
         Owner(t)' => \A u \in Hook \ {t} : Owner(u) => Area(u) \cap Area(t)' = {},
         \A u \in Owners(l) \ {t} : Area(u) \subseteq now_used,
         l # closing => now_used = (UNION {Area(u) : u \in Owners(l) \ {t}}) \cup (IF Owner(t)' THEN Area(t)' ELSE {}),
         \A a \in E!Address \cap E!Pages(l) : a \notin now_used => rest[a] <= now_time[a]
  PROVE  ElfInv'
<1>1. /\ UNCHANGED <<loaded, closing, cleaned>> /\ E!Listed' = E!Listed
      /\ \A k : Stays(k)' <=> Stays(k)
  BY DEF Only, E!Listed, Stays
<1>2. (\A u \in Hook : HookInv(u)') /\ CloseInv'
  BY <1>1, OthersSame, CloserSame
<1>3. \A p \in E!Listed : p \in Obj /\ obj'[p].lib = obj[p].lib /\ (p # o => obj'[p] = obj[p])
                          /\ (obj[p].lib = l => p = o)
  BY ListFacts
<1>4. ListInv'
  <2>1. \A i \in DOMAIN elfs : elfs[i] \in E!Listed
    BY DEF E!Listed
  <2>2. \A p \in E!Listed : Stays(obj[p].lib) /\ ~obj'[p].destroyed /\ obj'[p].gaps \subseteq AllGaps(obj[p].lib)
                            /\ DOMAIN obj'[p].time = E!Address
    BY <1>3 DEF ElfInv, ListInv
  <2> QED
    BY <1>1, <1>3, <2>1, <2>2 DEF ElfInv, ListInv
<1>5. UseInv'
  <2>1. ASSUME NEW u \in Hook, epc'[u] \in {"alloc", "free"}
        PROVE  self'[u] \in E!Listed' /\ obj'[self'[u]].lib = target'[u].lib
    <3>1. u # t
      BY <2>1
    <3> QED
      BY <1>1, <1>3, <2>1, <3>1, OthersOwn DEF ElfInv, UseInv
  <2>2. ASSUME NEW u \in Hook, epc'[u] = "insert"
        PROVE  Made(u)' /\ self'[u] \notin E!Listed' /\ \A v \in Thread \ {u} : self'[v] # self'[u]
    <3>1. /\ u # t /\ epc[u] = "insert" /\ u \in Thread /\ self'[u] = self[u] /\ target'[u] = target[u]
          /\ HookInv(u) /\ self[u] \in Obj \cup {None}
      BY <2>2, OthersOwn, AsItWas
    <3>2. Made(u) /\ self[u] \notin E!Listed /\ (\A v \in Thread \ {u} : self[v] # self[u]) /\ self[u] # None
      BY <3>1 DEF ElfInv, UseInv, HookInv
    <3>3. obj'[self[u]] = obj[self[u]]
      BY <3>1, <3>2
    <3>4. \A v \in Thread \ {u} : self'[v] # self[u]
      BY <3>2 DEF Only
    <3> QED
      BY <1>1, <3>1, <3>2, <3>3, <3>4 DEF Made
  <2> QED
    BY <2>1, <2>2 DEF UseInv
<1>6. OwnerInv'
  <2> SUFFICES ASSUME NEW u \in Hook, Owner(u)'
               PROVE  \E p \in E!Listed : obj'[p].lib = target'[u].lib
                                          /\ Area(u)' \subseteq E!Units(obj'[p].gaps) \cap obj'[p].used
    BY <1>1 DEF OwnerInv
  <2>1. CASE u = t
    BY <2>1
  <2>2. CASE u # t
    <3>1. Owner(u) /\ Area(u)' = Area(u) /\ target'[u] = target[u]
      BY <2>2, OthersOwn
    <3>2. PICK p \in E!Listed : obj[p].lib = target[u].lib
                                /\ Area(u) \subseteq E!Units(obj[p].gaps) \cap obj[p].used
      BY <3>1 DEF ElfInv, OwnerInv
    <3>3. CASE p = o
      <4>1. u \in Owners(l) \ {t}
        BY <2>2, <3>1, <3>2, <3>3 DEF Owners
      <4>2. E!Units(obj[o].gaps) \subseteq E!Units(obj'[o].gaps)
        BY DEF E!Units
      <4> QED
        BY <3>1, <3>2, <3>3, <4>1, <4>2
    <3> QED
      BY <1>3, <3>1, <3>2, <3>3
  <2> QED
    BY <2>1, <2>2
<1>7. ApartInv'
  BY OthersOwn DEF ElfInv, ApartInv
<1>8. UsedInv'
  <2> SUFFICES ASSUME NEW p \in E!Listed, obj[p].lib # closing
               PROVE  obj'[p].used = (UNION {Area(u) : u \in Owners(obj[p].lib)})'
    BY <1>1, <1>3 DEF UsedInv
  <2>1. CASE p = o
    <3>1. Owners(l)' = (Owners(l) \ {t}) \cup (IF Owner(t)' THEN {t} ELSE {})
      BY OthersOwn DEF Owners
    <3>2. \A u \in Owners(l) \ {t} : Area(u)' = Area(u)
      BY OthersOwn DEF Owners
    <3>3. (UNION {Area(u) : u \in Owners(l)})' = (UNION {Area(u) : u \in Owners(l) \ {t}})
                                                 \cup (IF Owner(t)' THEN Area(t)' ELSE {})
      <4>1. CASE Owner(t)'
        <5>1. Owners(l)' = (Owners(l) \ {t}) \cup {t}
          BY <3>1, <4>1
        <5>2. {Area(u) : u \in Owners(l)}' = {Area(u) : u \in Owners(l) \ {t}} \cup {Area(t)'}
          BY <3>2, <5>1
        <5> QED
          BY <4>1, <5>2
      <4>2. CASE ~Owner(t)'
        <5>1. Owners(l)' = Owners(l) \ {t}
          BY <3>1, <4>2
        <5> QED
          BY <3>2, <4>2, <5>1
      <4> QED
        BY <4>1, <4>2
    <3> QED
      BY <2>1, <3>3
  <2>2. CASE p # o
    <3>1. obj[p].lib # l /\ obj'[p] = obj[p]
      BY <1>3, <2>2
    <3>2. Owners(obj[p].lib)' = Owners(obj[p].lib) /\ t \notin Owners(obj[p].lib)
      BY <3>1, OthersOwn DEF Owners
    <3>3. \A u \in Owners(obj[p].lib) : Area(u)' = Area(u)
      BY <3>2, OthersOwn DEF Owners
    <3> QED
      BY <3>1, <3>2, <3>3 DEF ElfInv, UsedInv
  <2> QED
    BY <2>1, <2>2
<1>9. RestInv'
  <2>1. ASSUME NEW u \in Hook, epc'[u] = "free"
        PROVE  \A a \in Area(u)' : rest'[a] = early'[u]
    BY <2>1, OthersOwn DEF ElfInv, RestInv
  <2>2. \A p \in E!Listed : \A a \in E!Address \cap E!Pages(obj[p].lib) :
          a \notin obj'[p].used => rest[a] <= obj'[p].time[a]
    BY <1>3 DEF ElfInv, RestInv
  <2>3. /\ \A a \in E!Address : rest[a] > 0 => \E k \in loaded : a \in E!Pages(k)
        /\ \A k \in loaded : Stays(k) /\ (\A p \in E!Listed : obj[p].lib # k) =>
             \A a \in E!Address \cap E!Pages(k) : rest[a] = 0
    BY DEF ElfInv, RestInv
  <2> QED
    BY <1>1, <1>3, <2>1, <2>2, <2>3 DEF RestInv
<1> QED
  BY <1>2, <1>4, <1>5, <1>6, <1>7, <1>8, <1>9 DEF ElfInv

\* An island in a gap lies in its ELF's memory.
LEMMA OwnerFacts ==
  ASSUME PageInv, ElfInv, NEW t \in Hook, Owner(t)
  PROVE  /\ target[t] \in Target /\ target[t].lib \in loaded /\ target[t].lib \in Lib
         /\ Area(t) \subseteq E!Address \cap E!Pages(target[t].lib)
         /\ \E o \in E!Listed : obj[o].lib = target[t].lib
                                /\ Area(t) \subseteq E!Units(obj[o].gaps) \cap obj[o].used
<1>1. PICK o \in E!Listed : obj[o].lib = target[t].lib /\ Area(t) \subseteq E!Units(obj[o].gaps) \cap obj[o].used
  BY DEF ElfInv, OwnerInv
<1>2. obj[o].lib \in loaded /\ obj[o].lib \in Lib /\ obj[o].gaps \subseteq AllGaps(obj[o].lib)
  BY <1>1, ListFacts DEF ElfInv, ListInv
<1>3. target[t] \in Target
  BY AsItWas DEF Owner, Control, Fitting
<1>4. ASSUME NEW a \in Area(t)
      PROVE  a \in E!Address \cap E!Pages(target[t].lib)
  <2>1. a \in E!Units(obj[o].gaps) /\ a \in Int /\ Unit \in Nat \ {0}
    <3>1. a \in E!Units(obj[o].gaps)
      BY <1>1
    <3>2. PICK g \in obj[o].gaps : a \in E!UnitsOf(g)
      BY <3>1 DEF E!Units
    <3>3. g \in Int \X Int /\ Unit \in Nat \ {0}
      BY <1>2, <3>2, GapBytes, Layout
    <3>4. g[1] \in Int /\ g[2] \in Int
      BY <3>3
    <3> QED
      BY <3>1, <3>2, <3>3, <3>4 DEF E!UnitsOf
  <2>2. a \in a .. a + Unit - 1
    BY <2>1
  <2> QED
    BY <1>1, <1>2, <2>1, <2>2, UnitBytes
<1> QED
  BY <1>1, <1>2, <1>3, <1>4

\* What an object's flags call unused is no island of another hook.
LEMMA UnusedApart ==
  ASSUME PageInv, ElfInv, NEW o \in E!Listed, NEW gaps \in SUBSET AllGaps(obj[o].lib),
         NEW S \in SUBSET E!Units(gaps), S \cap obj[o].used = {}, NEW u \in Hook, Owner(u)
  PROVE  Area(u) \cap S = {}
<1> DEFINE l == obj[o].lib
<1>1. l \in loaded /\ l \in Lib
  BY ListFacts
<1>2. PICK p \in E!Listed : obj[p].lib = target[u].lib /\ Area(u) \subseteq obj[p].used
  BY OwnerFacts
<1>3. CASE target[u].lib = l
  <2>1. p = o
    BY <1>2, <1>3, ListFacts
  <2> QED
    BY <1>2, <2>1
<1>4. CASE target[u].lib # l
  <2> SUFFICES ASSUME NEW a \in S, a \in Area(u)
               PROVE  FALSE
    OBVIOUS
  <2>1. a \in E!Pages(target[u].lib) /\ target[u].lib \in loaded /\ a \in Int
    BY OwnerFacts, AddressNotNull
  <2>2. Unit \in Nat \ {0}
    BY <1>1, Layout
  <2>3. a \in a .. a + Unit - 1
    BY <2>1, <2>2
  <2>4. a \in E!Pages(l)
    BY <1>1, <2>3, UnitBytes
  <2> QED
    BY <1>1, <1>4, <2>1, <2>4, OneElf DEF ElfInv
<1> QED
  BY <1>3, <1>4

LEMMA ObjectFields ==
  ASSUME NEW r \in Object, NEW gaps \in SUBSET (Int \X Int), NEW units \in SUBSET Int
  PROVE  /\ [r EXCEPT !.used = @ \cup units] \in Object
         /\ [r EXCEPT !.used = @ \cup units] =
              [lib |-> r.lib, gaps |-> r.gaps, useless |-> r.useless, used |-> r.used \cup units,
               time |-> r.time, destroyed |-> r.destroyed]
         /\ [r EXCEPT !.gaps = @ \cup gaps, !.useless = FALSE] =
              [lib |-> r.lib, gaps |-> r.gaps \cup gaps, useless |-> FALSE, used |-> r.used,
               time |-> r.time, destroyed |-> r.destroyed]
         /\ [r EXCEPT !.gaps = @ \cup gaps, !.useless = FALSE] \in Object
<1>1. r = [lib |-> r.lib, gaps |-> r.gaps, useless |-> r.useless, used |-> r.used,
           time |-> r.time, destroyed |-> r.destroyed]
  BY DEF Object
<1>2. /\ r.lib \in Lib \cup {None} /\ r.gaps \in SUBSET (Int \X Int) /\ r.useless \in BOOLEAN /\ r.used \in SUBSET Int
      /\ r.time \in [E!Address -> Nat] \cup {<<>>} /\ r.destroyed \in BOOLEAN
  BY DEF Object
<1>3. r.gaps \cup gaps \in SUBSET (Int \X Int) /\ r.used \cup units \in SUBSET Int
  BY <1>2
<1>4. [r EXCEPT !.used = @ \cup units] =
        [lib |-> r.lib, gaps |-> r.gaps, useless |-> r.useless, used |-> r.used \cup units,
         time |-> r.time, destroyed |-> r.destroyed]
  BY <1>1
<1>5. [r EXCEPT !.gaps = @ \cup gaps, !.useless = FALSE] =
        [lib |-> r.lib, gaps |-> r.gaps \cup gaps, useless |-> FALSE, used |-> r.used,
         time |-> r.time, destroyed |-> r.destroyed]
  <2>1. PICK m : m = [r EXCEPT !.gaps = @ \cup gaps]
    OBVIOUS
  <2>2. m = [lib |-> r.lib, gaps |-> r.gaps \cup gaps, useless |-> r.useless, used |-> r.used,
             time |-> r.time, destroyed |-> r.destroyed]
    BY <1>1, <2>1
  <2>3. m.lib = r.lib /\ m.gaps = r.gaps \cup gaps /\ m.used = r.used /\ m.time = r.time /\ m.destroyed = r.destroyed
    BY <2>2
  <2>4. ASSUME NEW x
        PROVE  [m EXCEPT !.useless = x] =
                 [lib |-> m.lib, gaps |-> m.gaps, useless |-> x, used |-> m.used,
                  time |-> m.time, destroyed |-> m.destroyed]
    BY <2>2, SMTT(30)
  <2>5. [m EXCEPT !.useless = FALSE] =
          [lib |-> m.lib, gaps |-> m.gaps, useless |-> FALSE, used |-> m.used,
           time |-> m.time, destroyed |-> m.destroyed]
    BY <2>4
  <2> QED
    BY <2>1, <2>3, <2>5
<1>6. \A g \in SUBSET (Int \X Int), b \in BOOLEAN, s \in SUBSET Int :
         [lib |-> r.lib, gaps |-> g, useless |-> b, used |-> s, time |-> r.time, destroyed |-> r.destroyed] \in Object
  BY <1>2 DEF Object
<1>7. /\ [lib |-> r.lib, gaps |-> r.gaps, useless |-> r.useless, used |-> r.used \cup units,
          time |-> r.time, destroyed |-> r.destroyed] \in Object
      /\ [lib |-> r.lib, gaps |-> r.gaps \cup gaps, useless |-> FALSE, used |-> r.used,
          time |-> r.time, destroyed |-> r.destroyed] \in Object
  BY <1>2, <1>3, <1>6
<1> QED
  BY <1>4, <1>5, <1>7

\* What a hook in the gaps of its ELF works on.
LEMMA AtObject ==
  ASSUME PageInv, ElfInv, NEW t \in Hook, stage[t] = "gap", epc[t] = "alloc"
  PROVE  /\ self[t] \in E!Listed /\ self[t] \in Obj /\ obj[self[t]] \in Object
         /\ obj[self[t]].lib = target[t].lib /\ target[t].lib \in Lib /\ target[t].lib \in loaded
         /\ target[t] \in Target /\ want[t].size = target[t].size /\ target[t].size \in Nat \ {0}
         /\ obj[self[t]].gaps \in SUBSET (Int \X Int) /\ obj[self[t]].gaps \subseteq AllGaps(target[t].lib)
         /\ ~obj[self[t]].destroyed /\ DOMAIN obj[self[t]].time = E!Address
<1>1. self[t] \in E!Listed /\ obj[self[t]].lib = target[t].lib
  BY DEF ElfInv, UseInv
<1>2. self[t] \in Obj /\ target[t].lib \in Lib /\ target[t].lib \in loaded
  BY <1>1, ListFacts
<1>3. obj[self[t]] \in Object
  BY <1>2 DEF ElfInv, ElfTypes
<1>4. obj[self[t]].gaps \in SUBSET (Int \X Int)
  BY <1>3 DEF Object
<1>5. target[t] \in Target /\ want[t].size = target[t].size
  BY AsItWas DEF Fitting, HookInv
<1>6. target[t].size \in Nat \ {0}
  BY <1>5, IslandAssumption
<1> QED
  BY <1>1, <1>2, <1>3, <1>4, <1>5, <1>6 DEF ElfInv, ListInv

\* A hook takes units that were unused and had rested, from gaps of its ELF.
LEMMA Taken ==
  ASSUME PageInv, ElfInv, NEW t \in Hook, stage[t] = "gap", NEW a \in E!Address,
         E!AllocInGaps(t, a) \/ E!AllocInSymbols(t, a)
  PROVE  /\ epc[t] = "alloc" /\ UNCHANGED <<loaded, elfs, rest>>
         /\ epc' = [epc EXCEPT ![t] = "idle"] /\ self' = [self EXCEPT ![t] = None]
         /\ known' = [known EXCEPT ![t] = None] /\ want' = [want EXCEPT ![t] = E!Nothing]
         /\ early' = [early EXCEPT ![t] = 0]
         /\ \E r \in Object, S \in SUBSET Int :
              /\ obj' = [obj EXCEPT ![self[t]] = r] /\ S = E!Span(a, target[t].size)
              /\ r.lib = target[t].lib /\ ~r.destroyed /\ r.time = obj[self[t]].time
              /\ obj[self[t]].gaps \subseteq r.gaps /\ r.gaps \subseteq AllGaps(target[t].lib)
              /\ r.used = obj[self[t]].used \cup S
              /\ S \subseteq E!Units(r.gaps)
              /\ \A u \in S : u \notin obj[self[t]].used /\ E!Rested(self[t], u)
<1> DEFINE o == self[t]
           l == target[t].lib
           S == E!Span(a, target[t].size)
<1>1. epc[t] = "alloc" /\ UNCHANGED <<loaded, elfs, rest>>
  BY DEF E!AllocInGaps, E!AllocInSymbols
<1>2. /\ epc' = [epc EXCEPT ![t] = "idle"] /\ self' = [self EXCEPT ![t] = None]
      /\ known' = [known EXCEPT ![t] = None] /\ want' = [want EXCEPT ![t] = E!Nothing]
      /\ early' = [early EXCEPT ![t] = 0]
  BY DEF E!AllocInGaps, E!AllocInSymbols, E!Take, E!Done, None
<1>3. /\ o \in Obj /\ obj[o] \in Object /\ obj[o].lib = l /\ l \in Lib /\ want[t].size = target[t].size
      /\ obj[o].gaps \in SUBSET (Int \X Int) /\ obj[o].gaps \subseteq AllGaps(l)
      /\ ~obj[o].destroyed /\ target[t].size \in Nat \ {0}
  BY <1>1, AtObject
<1>4. ASSUME NEW g \in AllGaps(l), E!FirstFit(o, g, want[t], a)
      PROVE  /\ S \subseteq E!UnitsOf(g) /\ S \in SUBSET Int
             /\ \A u \in S : u \notin obj[o].used /\ E!Rested(o, u)
  <2>1. S \subseteq E!UnitsOf(g) /\ \A u \in S : u \notin obj[o].used /\ E!Rested(o, u)
    BY <1>3, <1>4 DEF E!FirstFit, E!FitsIn
  <2>2. g[1] \in Int /\ g[2] \in Int /\ Unit \in Int
    <3>1. g \in Int \X Int
      BY <1>3, GapTypes
    <3>2. Unit \in Nat \ {0}
      BY <1>3, Layout
    <3> QED
      BY <3>1, <3>2
  <2> QED
    BY <2>1, <2>2 DEF E!UnitsOf
<1>5. CASE E!AllocInGaps(t, a)
  <2>1. PICK g \in obj[o].gaps : E!FirstFit(o, g, want[t], a)
    BY <1>5 DEF E!AllocInGaps
  <2>2. obj' = [obj EXCEPT ![o].used = @ \cup S]
    BY <1>3, <1>5 DEF E!AllocInGaps, E!Take
  <2>3. /\ S \subseteq E!UnitsOf(g) /\ S \in SUBSET Int /\ S \subseteq E!Units(obj[o].gaps)
        /\ \A u \in S : u \notin obj[o].used /\ E!Rested(o, u)
    BY <1>3, <1>4, <2>1 DEF E!Units
  <2> DEFINE r == [obj[o] EXCEPT !.used = @ \cup S]
  <2>4. obj' = [obj EXCEPT ![o] = r]
    BY <2>2
  <2>5. /\ r \in Object
        /\ r = [lib |-> obj[o].lib, gaps |-> obj[o].gaps, useless |-> obj[o].useless, used |-> obj[o].used \cup S,
                time |-> obj[o].time, destroyed |-> obj[o].destroyed]
    BY <1>3, <2>3, ObjectFields
  <2> HIDE DEF r, S
  <2>6. r.lib = l /\ ~r.destroyed /\ r.time = obj[o].time /\ r.gaps = obj[o].gaps /\ r.used = obj[o].used \cup S
    BY <1>3, <2>5
  <2> QED
    BY <1>1, <1>2, <1>3, <2>3, <2>4, <2>5, <2>6 DEF S
<1>6. CASE E!AllocInSymbols(t, a)
  <2>1. a # 0
    BY AddressNotNull
  <2>2. PICK n \in 0 .. Len(Symbols[l]) :
           /\ \E g \in E!SymbolGaps(l, n) : E!FirstFit(o, g, want[t], a)
           /\ obj' = [obj EXCEPT ![o] = [[obj[o] EXCEPT !.gaps = @ \cup E!SymbolGaps(l, n), !.useless = FALSE]
                                         EXCEPT !.used = @ \cup S]]
    BY <1>3, <1>6, <2>1 DEF E!AllocInSymbols, E!LibOf, E!None
  <2> DEFINE new == E!SymbolGaps(l, n)
             m == [obj[o] EXCEPT !.gaps = @ \cup new, !.useless = FALSE]
             r == [m EXCEPT !.used = @ \cup S]
  <2>3. new \subseteq AllGaps(l) /\ new \in SUBSET (Int \X Int)
    BY <1>3, GapTypes
  <2>4. PICK g \in new : E!FirstFit(o, g, want[t], a)
    BY <2>2
  <2>5. /\ S \subseteq E!UnitsOf(g) /\ S \in SUBSET Int
        /\ \A u \in S : u \notin obj[o].used /\ E!Rested(o, u)
    BY <1>4, <2>3, <2>4
  <2>6. obj' = [obj EXCEPT ![o] = r]
    BY <2>2
  <2>7. /\ m \in Object
        /\ m = [lib |-> obj[o].lib, gaps |-> obj[o].gaps \cup new, useless |-> FALSE, used |-> obj[o].used,
                time |-> obj[o].time, destroyed |-> obj[o].destroyed]
    BY <1>3, <2>3, ObjectFields
  <2> HIDE DEF m, new, S
  <2>8. r \in Object /\ r = [lib |-> m.lib, gaps |-> m.gaps, useless |-> m.useless, used |-> m.used \cup S,
                             time |-> m.time, destroyed |-> m.destroyed]
    <3>1. ASSUME NEW x \in Object
          PROVE  /\ [x EXCEPT !.used = @ \cup S] \in Object
                 /\ [x EXCEPT !.used = @ \cup S] =
                      [lib |-> x.lib, gaps |-> x.gaps, useless |-> x.useless, used |-> x.used \cup S,
                       time |-> x.time, destroyed |-> x.destroyed]
      BY <2>3, <2>5, ObjectFields
    <3> QED
      BY <2>7, <3>1
  <2> HIDE DEF r
  <2>9. /\ r.lib = obj[o].lib /\ r.destroyed = obj[o].destroyed /\ r.time = obj[o].time
        /\ r.gaps = obj[o].gaps \cup new /\ r.used = obj[o].used \cup S
    <3>1. r.lib = m.lib /\ r.destroyed = m.destroyed /\ r.time = m.time /\ r.gaps = m.gaps /\ r.used = m.used \cup S
      BY <2>8
    <3>2. /\ m.lib = obj[o].lib /\ m.destroyed = obj[o].destroyed /\ m.time = obj[o].time
          /\ m.gaps = obj[o].gaps \cup new /\ m.used = obj[o].used
      BY <2>7
    <3> QED
      BY <3>1, <3>2
  <2>10. S \subseteq E!Units(r.gaps)
    BY <2>4, <2>5, <2>9 DEF E!Units
  <2>11. r.gaps \subseteq AllGaps(l) /\ obj[o].gaps \subseteq r.gaps
    BY <1>3, <2>3, <2>9
  <2> QED
    BY <1>1, <1>2, <1>3, <2>5, <2>6, <2>8, <2>9, <2>10, <2>11 DEF S
<1> QED
  BY <1>5, <1>6

\* A hook has its island in a gap.
LEMMA GetGapStep ==
  ASSUME PageInv, ElfInv, NEW t \in Hook, GetGap(t)
  PROVE  ElfInv'
<1> DEFINE o == self[t]
           l == target[t].lib
<1>1. PICK a \in E!Address : (E!AllocInGaps(t, a) \/ E!AllocInSymbols(t, a)) /\ Got(t, GAP, a)
  BY DEF GetGap, PageInv, PageTypes
<1>2. /\ stage[t] = "gap" /\ UNCHANGED <<target, registered, closing, removed, cleaned>>
      /\ isl' = [isl EXCEPT ![t] = [type |-> GAP, addr |-> a]] /\ stage' = [stage EXCEPT ![t] = "hooked"]
  BY <1>1 DEF GetGap, Got, Stage
<1>3. /\ epc[t] = "alloc" /\ UNCHANGED <<loaded, elfs, rest>>
      /\ epc' = [epc EXCEPT ![t] = "idle"] /\ self' = [self EXCEPT ![t] = None]
      /\ known' = [known EXCEPT ![t] = None] /\ want' = [want EXCEPT ![t] = E!Nothing]
      /\ early' = [early EXCEPT ![t] = 0]
  BY <1>1, <1>2, Taken
<1>4. PICK r \in Object, S \in SUBSET Int :
        /\ obj' = [obj EXCEPT ![o] = r] /\ S = E!Span(a, target[t].size)
        /\ r.lib = l /\ ~r.destroyed /\ r.time = obj[o].time
        /\ obj[o].gaps \subseteq r.gaps /\ r.gaps \subseteq AllGaps(l)
        /\ r.used = obj[o].used \cup S
        /\ S \subseteq E!Units(r.gaps)
        /\ \A u \in S : u \notin obj[o].used /\ E!Rested(o, u)
  BY <1>1, <1>2, Taken, ZenonT(40)
<1>5. /\ o \in E!Listed /\ o \in Obj /\ obj[o].lib = l /\ l \in Lib /\ l \in loaded
      /\ DOMAIN obj[o].time = E!Address
  BY <1>2, <1>3, AtObject
<1>6. HookInv(t) /\ InCall(t) /\ None \notin Lib \cup Obj /\ t \in Thread
  BY <1>2, AsItWas DEF InCall
<1> HIDE DEF o
<1>7. Only(t) /\ registered' \subseteq Hook /\ removed' \subseteq Hook
  <2>1. target' = [target EXCEPT ![t] = target[t]]
    BY <1>2, AsItWas
  <2> QED
    BY <1>2, <1>3, <2>1, OwnEntries
<1>8. ElfTypes'
  <2>1. E!Nothing \in [pc : Nat, size : Nat, low : Nat, high : Nat, addr : Int]
    BY DEF E!Nothing
  <2> QED
    BY <1>2, <1>3, <1>4, <1>5, <1>7, <2>1 DEF ElfInv, ElfTypes
<1>9. /\ epc'[t] = "idle" /\ self'[t] = None /\ stage'[t] = "hooked" /\ isl'[t] = [type |-> GAP, addr |-> a]
      /\ obj'[o] = r /\ \A p \in Obj \ {o} : obj'[p] = obj[p]
  BY <1>2, <1>3, <1>4, <1>5, <1>6 DEF PageInv, PageTypes, ElfInv, ElfTypes
<1>10. HookInv(t)'
  <2>1. (t \in registered \cup removed) /\ (t \in removed <=> l = closing) /\ (t \in registered => t \notin removed)
    BY <1>6 DEF HookInv
  <2> QED
    BY <1>2, <1>3, <1>5, <1>9, <2>1 DEF HookInv, InCall
<1>11. Owner(t)' /\ Area(t)' = S /\ ~Owner(t)
  BY <1>2, <1>3, <1>4, <1>9 DEF Owner, Area
<1>12. Area(t)' \subseteq E!Units(r.gaps) \cap r.used
  BY <1>4, <1>11
<1>13. \A u \in Hook \ {t} : Owner(u) => Area(u) \cap Area(t)' = {}
  <2> SUFFICES ASSUME NEW u \in Hook \ {t}, Owner(u)
               PROVE  Area(u) \cap S = {}
    BY <1>11
  <2>1. r.gaps \in SUBSET AllGaps(obj[o].lib) /\ S \in SUBSET E!Units(r.gaps) /\ S \cap obj[o].used = {}
    BY <1>4, <1>5
  <2> QED
    BY <1>5, <2>1, UnusedApart
<1>14. \A u \in Owners(l) \ {t} : Area(u) \subseteq r.used
  <2> SUFFICES ASSUME NEW u \in Owners(l)
               PROVE  Area(u) \subseteq obj[o].used
    BY <1>4
  <2>1. u \in Hook /\ Owner(u) /\ target[u].lib = l
    BY DEF Owners
  <2>2. PICK p \in E!Listed : obj[p].lib = l /\ Area(u) \subseteq obj[p].used
    BY <2>1, OwnerFacts
  <2>3. p = o
    BY <1>5, <2>2, ListFacts
  <2> QED
    BY <2>2, <2>3
<1>15. l # closing => r.used = (UNION {Area(u) : u \in Owners(l) \ {t}}) \cup (IF Owner(t)' THEN Area(t)' ELSE {})
  <2> SUFFICES ASSUME l # closing
               PROVE  r.used = (UNION {Area(u) : u \in Owners(l) \ {t}}) \cup S
    BY <1>11
  <2>1. Owners(l) \ {t} = Owners(l)
    BY <1>11 DEF Owners
  <2>2. obj[o].used = UNION {Area(u) : u \in Owners(l)}
    BY <1>5 DEF ElfInv, UsedInv
  <2> QED
    BY <1>4, <2>1, <2>2
<1>16. \A x \in E!Address \cap E!Pages(l) : x \notin r.used => rest[x] <= r.time[x]
  BY <1>4, <1>5 DEF ElfInv, RestInv
<1>17. obj'[o].lib = l /\ ~obj'[o].destroyed /\ obj'[o].used = r.used /\ obj'[o].time = r.time
       /\ obj[o].gaps \subseteq obj'[o].gaps /\ obj'[o].gaps \subseteq AllGaps(l) /\ DOMAIN r.time = E!Address
       /\ target'[t].lib = l /\ Area(t)' \subseteq E!Units(obj'[o].gaps) \cap r.used
  BY <1>2, <1>4, <1>5, <1>9, <1>12
<1>18. /\ Owner(t) => target[t].lib = l
       /\ Owner(t)' => target'[t].lib = l /\ Area(t)' \subseteq E!Units(obj'[o].gaps) \cap r.used
       /\ Owner(t)' => \A u \in Hook \ {t} : Owner(u) => Area(u) \cap Area(t)' = {}
       /\ epc'[t] = "idle" /\ self'[t] = None
  BY <1>9, <1>11, <1>13, <1>17
<1> HIDE DEF l
<1> DEFINE units == r.used
           times == r.time
<1> HIDE DEF units, times
<1>19. /\ obj'[o].lib = l /\ ~obj'[o].destroyed /\ obj'[o].used = units /\ obj'[o].time = times
       /\ obj[o].gaps \subseteq obj'[o].gaps /\ obj'[o].gaps \subseteq AllGaps(l) /\ DOMAIN times = E!Address
       /\ Owner(t)' => target'[t].lib = l /\ Area(t)' \subseteq E!Units(obj'[o].gaps) \cap units
       /\ \A u \in Owners(l) \ {t} : Area(u) \subseteq units
       /\ l # closing => units = (UNION {Area(u) : u \in Owners(l) \ {t}}) \cup (IF Owner(t)' THEN Area(t)' ELSE {})
       /\ \A x \in E!Address \cap E!Pages(l) : x \notin units => rest[x] <= times[x]
  BY <1>14, <1>15, <1>16, <1>17, <1>18 DEF units, times
<1>20. /\ o \in E!Listed /\ obj[o].lib = l /\ \A p \in Obj \ {o} : obj'[p] = obj[p]
       /\ UNCHANGED <<elfs, rest>>
  BY <1>3, <1>5, <1>9
<1> QED
  BY <1>7, <1>8, <1>10, <1>18, <1>19, <1>20, ObjectStep

\* No gap had room, and those of the symbols had none either.
LEMMA NoRoomStep ==
  ASSUME PageInv, ElfInv, NEW t \in Hook, stage[t] = "gap", E!AllocInSymbols(t, None), Gone(t),
         UNCHANGED <<vars, closing, removed, cleaned>>
  PROVE  ElfInv'
<1> DEFINE o == self[t]
           l == target[t].lib
<1>1. /\ epc[t] = "alloc" /\ UNCHANGED <<loaded, elfs, rest>>
      /\ epc' = [epc EXCEPT ![t] = "idle"] /\ self' = [self EXCEPT ![t] = None]
      /\ known' = [known EXCEPT ![t] = None] /\ want' = [want EXCEPT ![t] = E!Nothing]
      /\ early' = [early EXCEPT ![t] = 0]
      /\ isl' = [isl EXCEPT ![t] = NoIsland] /\ stage' = [stage EXCEPT ![t] = "idle"]
      /\ target' = [target EXCEPT ![t] = NoTarget] /\ registered' = registered \ {t}
  BY DEF E!AllocInSymbols, E!Done, Gone, Stage, None
<1>2. /\ o \in E!Listed /\ o \in Obj /\ obj[o] \in Object /\ obj[o].lib = l /\ l \in Lib /\ l \in loaded
      /\ obj[o].gaps \in SUBSET (Int \X Int) /\ obj[o].gaps \subseteq AllGaps(l)
      /\ ~obj[o].destroyed /\ DOMAIN obj[o].time = E!Address
  BY <1>1, AtObject
<1>3. PICK n \in 0 .. Len(Symbols[l]) :
         obj' = [obj EXCEPT ![o] = [obj[o] EXCEPT !.gaps = @ \cup E!SymbolGaps(l, n), !.useless = FALSE]]
  BY <1>2 DEF E!AllocInSymbols, E!LibOf, None
<1> DEFINE new == E!SymbolGaps(l, n)
           r == [obj[o] EXCEPT !.gaps = @ \cup new, !.useless = FALSE]
<1>4. new \subseteq AllGaps(l) /\ new \in SUBSET (Int \X Int)
  BY <1>2, GapTypes
<1>5. obj' = [obj EXCEPT ![o] = r]
  BY <1>3
<1>6. /\ r \in Object
      /\ r = [lib |-> obj[o].lib, gaps |-> obj[o].gaps \cup new, useless |-> FALSE, used |-> obj[o].used,
              time |-> obj[o].time, destroyed |-> obj[o].destroyed]
  BY <1>2, <1>4, ObjectFields
<1> HIDE DEF r, new, o
<1>7. r.lib = l /\ ~r.destroyed /\ r.time = obj[o].time /\ r.used = obj[o].used /\ r.gaps = obj[o].gaps \cup new
  BY <1>2, <1>6
<1>8. Only(t) /\ registered' \subseteq Hook /\ removed' \subseteq Hook
  BY <1>1, OwnEntries
<1>9. ElfTypes'
  <2>1. E!Nothing \in [pc : Nat, size : Nat, low : Nat, high : Nat, addr : Int]
    BY DEF E!Nothing
  <2> QED
    BY <1>1, <1>2, <1>5, <1>6, <1>8, <2>1 DEF ElfInv, ElfTypes
<1>10. /\ epc'[t] = "idle" /\ self'[t] = None /\ stage'[t] = "idle"
       /\ obj'[o] = r /\ \A p \in Obj \ {o} : obj'[p] = obj[p]
  <2>1. t \in Thread
    BY DEF Hook
  <2>2. /\ epc \in [Thread -> Searching \cup {"idle", "free", "destroy"}] /\ self \in [Thread -> Obj \cup {None}]
        /\ stage \in [Hook -> Stages] /\ obj \in [Obj -> Object]
    BY DEF PageInv, PageTypes, ElfInv, ElfTypes
  <2>3. epc'[t] = "idle" /\ self'[t] = None /\ stage'[t] = "idle"
    BY <1>1, <2>1, <2>2
  <2>4. obj'[o] = r /\ \A p \in Obj \ {o} : obj'[p] = obj[p]
    BY <1>2, <1>5, <2>2
  <2> QED
    BY <2>3, <2>4
<1>11. HookInv(t)' /\ ~Owner(t)' /\ ~Owner(t)
  BY <1>1, <1>10 DEF HookInv, InCall, Owner
<1>12. \A u \in Owners(l) \ {t} : Area(u) \subseteq r.used
  <2> SUFFICES ASSUME NEW u \in Owners(l)
               PROVE  Area(u) \subseteq obj[o].used
    BY <1>7
  <2>1. u \in Hook /\ Owner(u) /\ target[u].lib = l
    BY DEF Owners
  <2>2. PICK p \in E!Listed : obj[p].lib = l /\ Area(u) \subseteq obj[p].used
    BY <2>1, OwnerFacts
  <2>3. p = o
    BY <1>2, <2>2, ListFacts
  <2> QED
    BY <2>2, <2>3
<1>13. l # closing => r.used = (UNION {Area(u) : u \in Owners(l) \ {t}}) \cup (IF Owner(t)' THEN Area(t)' ELSE {})
  <2> SUFFICES ASSUME l # closing
               PROVE  r.used = UNION {Area(u) : u \in Owners(l) \ {t}}
    BY <1>11
  <2>1. Owners(l) \ {t} = Owners(l)
    BY <1>11 DEF Owners
  <2> QED
    BY <1>2, <1>7, <2>1 DEF ElfInv, UsedInv
<1>14. \A x \in E!Address \cap E!Pages(l) : x \notin r.used => rest[x] <= r.time[x]
  BY <1>2, <1>7 DEF ElfInv, RestInv
<1>15. obj'[o].lib = l /\ ~obj'[o].destroyed /\ obj'[o].used = r.used /\ obj'[o].time = r.time
       /\ obj[o].gaps \subseteq obj'[o].gaps /\ obj'[o].gaps \subseteq AllGaps(l) /\ DOMAIN r.time = E!Address
  BY <1>2, <1>4, <1>7, <1>10
<1> HIDE DEF l
<1> QED
  BY <1>1, <1>2, <1>8, <1>9, <1>10, <1>11, <1>12, <1>13, <1>14, <1>15, ObjectStep

LEMMA FreedFields ==
  ASSUME NEW r \in Object, NEW units, NEW f \in [E!Address -> Nat]
  PROVE  /\ [[r EXCEPT !.used = @ \ units] EXCEPT !.time = f] \in Object
         /\ [[r EXCEPT !.used = @ \ units] EXCEPT !.time = f] =
              [lib |-> r.lib, gaps |-> r.gaps, useless |-> r.useless, used |-> r.used \ units,
               time |-> f, destroyed |-> r.destroyed]
<1>1. r = [lib |-> r.lib, gaps |-> r.gaps, useless |-> r.useless, used |-> r.used,
           time |-> r.time, destroyed |-> r.destroyed]
  BY DEF Object
<1>2. /\ r.lib \in Lib \cup {None} /\ r.gaps \in SUBSET (Int \X Int) /\ r.useless \in BOOLEAN /\ r.used \ units \in SUBSET Int
      /\ r.destroyed \in BOOLEAN
  BY DEF Object
<1>3. PICK m : m = [r EXCEPT !.used = @ \ units]
  OBVIOUS
<1>4. m = [lib |-> r.lib, gaps |-> r.gaps, useless |-> r.useless, used |-> r.used \ units,
           time |-> r.time, destroyed |-> r.destroyed]
  BY <1>1, <1>3
<1>5. /\ m.lib = r.lib /\ m.gaps = r.gaps /\ m.useless = r.useless /\ m.used = r.used \ units
      /\ m.destroyed = r.destroyed
  BY <1>4
<1>6. [m EXCEPT !.time = f] = [lib |-> m.lib, gaps |-> m.gaps, useless |-> m.useless, used |-> m.used,
                               time |-> f, destroyed |-> m.destroyed]
  BY <1>4
<1>7. [lib |-> r.lib, gaps |-> r.gaps, useless |-> r.useless, used |-> r.used \ units,
       time |-> f, destroyed |-> r.destroyed] \in Object
  BY <1>2 DEF Object
<1> QED
  BY <1>3, <1>5, <1>6, <1>7

\* The way back of an island ends: its units are unused from when they were given back.
LEMMA FreeUnitsStep ==
  ASSUME PageInv, ElfInv, NEW t \in Hook, FreeEnds(t), E!FreeUnits(t), UNCHANGED vars
  PROVE  ElfInv'
<1> DEFINE o == self[t]
           l == target[t].lib
           units == E!Span(want[t].addr, want[t].size)
           f == [u \in E!Address |-> IF u \in units THEN early[t] ELSE obj[o].time[u]]
<1>1. /\ epc[t] = "free" /\ UNCHANGED <<loaded, elfs, rest, closing, removed, cleaned>>
      /\ epc' = [epc EXCEPT ![t] = "idle"] /\ self' = [self EXCEPT ![t] = None]
      /\ known' = [known EXCEPT ![t] = None] /\ want' = [want EXCEPT ![t] = E!Nothing]
      /\ early' = [early EXCEPT ![t] = 0]
      /\ isl' = [isl EXCEPT ![t] = NoIsland] /\ stage' = [stage EXCEPT ![t] = "idle"]
      /\ target' = [target EXCEPT ![t] = NoTarget] /\ registered' = registered \ {t}
  BY DEF E!FreeUnits, E!Done, FreeEnds, Gone, Stage, None
<1>2. Owner(t) /\ stage[t] = "freeing" /\ want[t].size = target[t].size /\ t \in Thread
  BY <1>1, AsItWas DEF Owner, Control, HookInv
<1>3. o \in E!Listed /\ obj[o].lib = l
  BY <1>1 DEF ElfInv, UseInv
<1>4. target[t] \in Target /\ l \in loaded /\ l \in Lib /\ Area(t) = units
  BY <1>2, OwnerFacts DEF Area
<1>5. units \subseteq E!Units(obj[o].gaps) \cap obj[o].used
  BY <1>2, <1>3, <1>4, OwnerFacts, ListFacts
<1>6. want[t].addr \in units
  <2>1. target[t].size \in Nat \ {0} /\ Unit \in Nat \ {0}
    BY <1>4, IslandAssumption, Layout
  <2>2. want[t].addr \in Int
    BY <1>2 DEF ElfInv, ElfTypes
  <2>3. 0 % Unit = 0
    BY <2>1
  <2>4. want[t].addr - want[t].addr = 0 /\ want[t].addr \in want[t].addr .. want[t].addr + target[t].size - 1
    BY <2>1, <2>2
  <2> QED
    BY <1>2, <2>3, <2>4 DEF E!Span
<1>7. o \in Obj /\ obj[o] \in Object /\ obj[o].gaps \subseteq AllGaps(l) /\ ~obj[o].destroyed
      /\ DOMAIN obj[o].time = E!Address
  BY <1>3, ListFacts DEF ElfInv, ElfTypes, ListInv
<1>8. f \in [E!Address -> Nat]
  <2>1. obj[o].time \in [E!Address -> Nat]
    <3>1. obj[o].time \in [E!Address -> Nat] \cup {<<>>}
      BY <1>7 DEF Object
    <3>2. CASE obj[o].time = <<>>
      <4>1. DOMAIN obj[o].time = {}
        BY <3>2
      <4>2. obj[o].time = [u \in E!Address |-> obj[o].time[u]]
        BY <1>7, <3>2, <4>1
      <4> QED
        BY <1>7, <4>1, <4>2
    <3> QED
      BY <3>1, <3>2
  <2>2. early[t] \in Nat
    BY <1>2 DEF ElfInv, ElfTypes
  <2> QED
    BY <2>1, <2>2
<1> DEFINE r == [[obj[o] EXCEPT !.used = @ \ units] EXCEPT !.time = f]
<1>9. obj' = [obj EXCEPT ![o] = r]
  BY <1>5, <1>6, <1>7 DEF E!FreeUnits
<1>10. /\ r \in Object
       /\ r = [lib |-> obj[o].lib, gaps |-> obj[o].gaps, useless |-> obj[o].useless, used |-> obj[o].used \ units,
               time |-> f, destroyed |-> obj[o].destroyed]
  BY <1>7, <1>8, FreedFields
<1> HIDE DEF r, f
<1>11. r.lib = l /\ ~r.destroyed /\ r.time = f /\ r.used = obj[o].used \ units /\ r.gaps = obj[o].gaps
  BY <1>3, <1>7, <1>10
<1>12. Only(t) /\ registered' \subseteq Hook /\ removed' \subseteq Hook
  BY <1>1, OwnEntries
<1> HIDE DEF o
<1>13. ElfTypes'
  <2>1. E!Nothing \in [pc : Nat, size : Nat, low : Nat, high : Nat, addr : Int]
    BY DEF E!Nothing
  <2> QED
    BY <1>1, <1>7, <1>9, <1>10, <1>12, <2>1 DEF ElfInv, ElfTypes
<1>14. /\ epc'[t] = "idle" /\ self'[t] = None /\ stage'[t] = "idle"
       /\ obj'[o] = r /\ \A p \in Obj \ {o} : obj'[p] = obj[p]
  BY <1>1, <1>2, <1>7, <1>9, AsItWas DEF PageInv, PageTypes, ElfInv, ElfTypes
<1>15. HookInv(t)' /\ ~Owner(t)'
  BY <1>1, <1>14 DEF HookInv, InCall, Owner
<1> HIDE DEF units
<1>16. ASSUME NEW u \in Owners(l) \ {t}
       PROVE  Area(u) \subseteq obj[o].used /\ Area(u) \cap units = {}
  <2>1. u \in Hook /\ Owner(u) /\ target[u].lib = l
    BY DEF Owners
  <2>2. PICK p \in E!Listed : obj[p].lib = l /\ Area(u) \subseteq obj[p].used
    BY <2>1, OwnerFacts
  <2>3. p = o
    BY <1>3, <2>2, ListFacts
  <2>4. Area(u) \cap Area(t) = {}
    BY <1>2, <1>16, <2>1 DEF ElfInv, ApartInv
  <2> QED
    BY <1>4, <2>2, <2>3, <2>4
<1>17. \A u \in Owners(l) \ {t} : Area(u) \subseteq r.used
  BY <1>11, <1>16
<1>18. l # closing => r.used = (UNION {Area(u) : u \in Owners(l) \ {t}}) \cup (IF Owner(t)' THEN Area(t)' ELSE {})
  <2> SUFFICES ASSUME l # closing
               PROVE  obj[o].used \ units = UNION {Area(u) : u \in Owners(l) \ {t}}
    BY <1>11, <1>15
  <2>1. obj[o].used = UNION {Area(u) : u \in Owners(l)}
    BY <1>3 DEF ElfInv, UsedInv
  <2> QED
    BY <1>4, <1>16, <2>1
<1>19. \A x \in E!Address \cap E!Pages(l) : x \notin r.used => rest[x] <= r.time[x]
  <2> SUFFICES ASSUME NEW x \in E!Address \cap E!Pages(l), x \notin obj[o].used \ units
               PROVE  rest[x] <= f[x]
    BY <1>11
  <2>1. CASE x \in units
    <3>1. f[x] = early[t]
      BY <2>1 DEF f
    <3>2. rest[x] = early[t]
      BY <1>1, <1>4, <2>1 DEF ElfInv, RestInv
    <3>3. early[t] \in Nat
      BY <1>2 DEF ElfInv, ElfTypes
    <3> QED
      BY <3>1, <3>2, <3>3
  <2>2. CASE x \notin units
    <3>1. f[x] = obj[o].time[x] /\ x \notin obj[o].used
      BY <2>2 DEF f
    <3> QED
      BY <1>3, <3>1 DEF ElfInv, RestInv
  <2> QED
    BY <2>1, <2>2
<1>20. obj'[o].lib = l /\ ~obj'[o].destroyed /\ obj'[o].used = r.used /\ obj'[o].time = r.time
       /\ obj[o].gaps \subseteq obj'[o].gaps /\ obj'[o].gaps \subseteq AllGaps(l) /\ DOMAIN r.time = E!Address
  BY <1>7, <1>8, <1>11, <1>14
<1>21. Owner(t) => target[t].lib = l
  OBVIOUS
<1> HIDE DEF l
<1> QED
  BY <1>1, <1>3, <1>12, <1>13, <1>14, <1>15, <1>17, <1>18, <1>19, <1>20, <1>21, ObjectStep

LEMMA Wanted ==
  \A a \in Int, n \in Nat :
    [E!Nothing EXCEPT !.addr = a, !.size = n] = [pc |-> 0, size |-> n, low |-> 0, high |-> 0, addr |-> a]
<1> SUFFICES ASSUME NEW a \in Int, NEW n \in Nat
             PROVE  [E!Nothing EXCEPT !.addr = a, !.size = n] =
                      [pc |-> 0, size |-> n, low |-> 0, high |-> 0, addr |-> a]
  OBVIOUS
<1>1. PICK m : m = [E!Nothing EXCEPT !.addr = a]
  OBVIOUS
<1>2. m = [pc |-> 0, size |-> 0, low |-> 0, high |-> 0, addr |-> a]
  BY <1>1 DEF E!Nothing
<1>3. m.pc = 0 /\ m.low = 0 /\ m.high = 0 /\ m.addr = a
  BY <1>2
<1>4. [m EXCEPT !.size = n] = [pc |-> m.pc, size |-> n, low |-> m.low, high |-> m.high, addr |-> m.addr]
  BY <1>2
<1> QED
  BY <1>1, <1>3, <1>4

\* An island in a gap begins its way back: its object is found in the list.
LEMMA FreeGapStep ==
  ASSUME TrampoInv, PageInv, ElfInv, NEW t \in Hook, FreeIsland(t), isl[t].type # ANON
  PROVE  ElfInv'
<1> DEFINE l == target[t].lib
           o == E!First(E!ByBias(Bias[l]))
           h == [lib |-> l, addr |-> isl[t].addr, size |-> target[t].size]
<1>1. /\ stage[t] = "hooked" /\ UNCHANGED <<target, registered, closing, removed, cleaned>>
      /\ isl' = [isl EXCEPT ![t] = NoIsland] /\ stage' = [stage EXCEPT ![t] = "freeing"]
      /\ t \in registered \cup removed
      /\ E!ElfFree(t, h)
  BY DEF FreeIsland, Stage
<1>2. h.lib = l /\ h.addr = isl[t].addr /\ h.size = target[t].size
  OBVIOUS
<1>3. Owner(t) /\ isl[t] \in Island /\ HookInv(t) /\ InCall(t) /\ t \in Thread /\ None \notin Lib \cup Obj
  <2>1. isl[t] \in Island /\ HookInv(t) /\ t \in Thread /\ None \notin Lib \cup Obj
    BY AsItWas
  <2> QED
    BY <1>1, <2>1 DEF Owner, Island, InCall
<1>4. /\ target[t] \in Target /\ l \in loaded /\ l \in Lib /\ Area(t) = E!Span(h.addr, h.size)
      /\ Area(t) \subseteq E!Address \cap E!Pages(l)
  BY <1>1, <1>3, OwnerFacts DEF Area
<1>5. PICK p \in E!Listed : obj[p].lib = l /\ Area(t) \subseteq E!Units(obj[p].gaps) \cap obj[p].used
  BY <1>3, OwnerFacts
<1>6. o \in E!Listed /\ obj[o].lib = l /\ E!ByBias(Bias[l]) # {} /\ o = p /\ o \in Obj
  <2>1. o \in E!Listed /\ obj[o].lib = l /\ E!ByBias(Bias[l]) # {}
    BY <1>4, <1>5, ByBiasFinds
  <2> HIDE DEF o
  <2> QED
    BY <1>5, <2>1, ListFacts
<1>7. h.addr \in Int /\ h.size \in Nat /\ now \in Nat
  <2>1. isl[t].addr \in Int
    BY <1>3 DEF Island
  <2>2. target[t].size \in Nat
    BY <1>4, IslandAssumption
  <2> QED
    BY <2>1, <2>2 DEF TrampoInv, TrampoTypeOK
<1> DEFINE w == [pc |-> 0, size |-> h.size, low |-> 0, high |-> 0, addr |-> h.addr]
<1>8. /\ epc[t] = "idle" /\ UNCHANGED <<loaded, elfs, obj, known>>
      /\ rest' = [u \in DOMAIN rest |-> IF u \in E!Span(h.addr, h.size) THEN now ELSE rest[u]]
      /\ epc' = [epc EXCEPT ![t] = "free"] /\ self' = [self EXCEPT ![t] = o]
      /\ want' = [want EXCEPT ![t] = [E!Nothing EXCEPT !.addr = h.addr, !.size = h.size]]
      /\ early' = [early EXCEPT ![t] = now]
  BY <1>1, <1>2, <1>6 DEF E!ElfFree, E!Become, E!Use
<1>9. want' = [want EXCEPT ![t] = w]
  <2> HIDE DEF h
  <2>1. [E!Nothing EXCEPT !.addr = h.addr, !.size = h.size] = w
    BY <1>7, Wanted, Zenon
  <2> QED
    BY <1>8, <2>1
<1>10. w \in [pc : Nat, size : Nat, low : Nat, high : Nat, addr : Int] /\ w.size = target[t].size /\ w.addr = isl[t].addr
  BY <1>2, <1>7
<1> HIDE DEF w, h, o
<1>11. Only(t) /\ registered' \subseteq Hook /\ removed' \subseteq Hook
  <2>1. target' = [target EXCEPT ![t] = target[t]] /\ known' = [known EXCEPT ![t] = known[t]]
    BY <1>1, <1>8, AsItWas
  <2> QED
    BY <1>1, <1>8, <1>9, <2>1, OwnEntries
<1>12. rest' = [u \in E!Address |-> IF u \in Area(t) THEN now ELSE rest[u]]
  BY <1>4, <1>8 DEF PageInv, PageTypes
<1>13. ElfTypes'
  <2>1. rest' \in [E!Address -> Nat]
    BY <1>7, <1>12 DEF ElfInv, ElfTypes
  <2> QED
    BY <1>1, <1>6, <1>7, <1>8, <1>9, <1>10, <1>11, <2>1, ZenonT(40) DEF ElfInv, ElfTypes
<1>14. epc'[t] = "free" /\ self'[t] = o /\ stage'[t] = "freeing" /\ want'[t] = w /\ early'[t] = now
  BY <1>1, <1>3, <1>8, <1>9 DEF PageInv, PageTypes, ElfInv, ElfTypes
<1>15. HookInv(t)' /\ Owner(t)' /\ Area(t)' = Area(t)
  <2>1. (t \in removed <=> l = closing) /\ (t \in registered => t \notin removed)
    BY <1>3 DEF HookInv
  <2>2. HookInv(t)'
    BY <1>1, <1>3, <1>4, <1>6, <1>8, <1>10, <1>14, <2>1 DEF HookInv, InCall
  <2> QED
    BY <1>1, <1>10, <1>14, <2>2 DEF Owner, Area
<1>16. \A u \in Hook : (Owner(u)' <=> Owner(u)) /\ Area(u)' = Area(u) /\ target'[u] = target[u]
  BY <1>1, <1>3, <1>11, <1>15, OthersOwn
<1>17. /\ E!Listed' = E!Listed /\ \A k : Stays(k)' <=> Stays(k)
       /\ UNCHANGED <<loaded, elfs, obj, closing, cleaned>>
  BY <1>1, <1>8 DEF E!Listed, Stays
<1>18. (\A u \in Hook : HookInv(u)') /\ CloseInv'
  BY <1>11, <1>15, <1>17, OthersSame, CloserSame
<1>19. ListInv'
  BY <1>17 DEF ElfInv, ListInv
<1>20. UseInv'
  <2>1. ASSUME NEW u \in Hook, epc'[u] \in {"alloc", "free"}
        PROVE  self'[u] \in E!Listed' /\ obj'[self'[u]].lib = target'[u].lib
    <3>1. CASE u = t
      BY <1>1, <1>6, <1>14, <1>17, <3>1
    <3>2. CASE u # t
      BY <1>11, <1>17, <2>1, <3>2, OthersOwn DEF ElfInv, UseInv
    <3> QED
      BY <3>1, <3>2
  <2>2. ASSUME NEW u \in Hook, epc'[u] = "insert"
        PROVE  Made(u)' /\ self'[u] \notin E!Listed' /\ \A v \in Thread \ {u} : self'[v] # self'[u]
    <3>1. u # t /\ epc[u] = "insert" /\ u \in Thread /\ self'[u] = self[u]
      BY <1>11, <1>14, <2>2, OthersOwn DEF Hook
    <3>2. Made(u) /\ self[u] \notin E!Listed /\ \A v \in Thread \ {u} : self[v] # self[u]
      BY <3>1 DEF ElfInv, UseInv
    <3>3. \A v \in Thread \ {u} : self'[v] # self[u]
      BY <1>6, <1>11, <1>14, <3>2 DEF Only
    <3> QED
      BY <1>16, <1>17, <3>1, <3>2, <3>3 DEF Made
  <2> QED
    BY <2>1, <2>2 DEF UseInv
<1>21. OwnerInv' /\ ApartInv'
  BY <1>16, <1>17 DEF ElfInv, OwnerInv, ApartInv
<1>22. UsedInv'
  <2>1. ASSUME NEW k
        PROVE  (UNION {Area(u) : u \in Owners(k)})' = UNION {Area(u) : u \in Owners(k)}
    BY <1>16 DEF Owners
  <2> QED
    BY <1>17, <2>1 DEF ElfInv, UsedInv
<1>23. RestInv'
  <2>1. ASSUME NEW k \in loaded, k # l, NEW u \in E!Address \cap E!Pages(k)
        PROVE  u \notin Area(t) /\ rest'[u] = rest[u]
    <3>1. u \notin Area(t)
      BY <1>4, <2>1, OneElf DEF ElfInv
    <3> QED
      BY <1>12, <3>1
  <2>2. \A u \in E!Address : rest'[u] > 0 => \E k \in loaded : u \in E!Pages(k)
    <3> SUFFICES ASSUME NEW u \in E!Address, rest'[u] > 0, u \notin Area(t)
                 PROVE  \E k \in loaded : u \in E!Pages(k)
      BY <1>4
    <3> QED
      BY <1>12 DEF ElfInv, RestInv
  <2>3. ASSUME NEW k \in loaded, Stays(k), \A q \in E!Listed : obj[q].lib # k, NEW u \in E!Address \cap E!Pages(k)
        PROVE  rest'[u] = 0
    BY <1>6, <2>1, <2>3 DEF ElfInv, RestInv
  <2>4. ASSUME NEW q \in E!Listed, NEW u \in E!Address \cap E!Pages(obj[q].lib), u \notin obj[q].used
        PROVE  rest'[u] <= obj[q].time[u]
    <3>1. u \notin Area(t)
      <4>1. CASE q = o
        BY <1>5, <1>6, <2>4, <4>1
      <4>2. CASE q # o
        BY <1>6, <2>1, <4>2, ListFacts
      <4> QED
        BY <4>1, <4>2
    <3>2. rest'[u] = rest[u]
      BY <1>12, <3>1
    <3> QED
      BY <2>4, <3>2 DEF ElfInv, RestInv
  <2>5. ASSUME NEW u \in Hook, epc'[u] = "free", NEW a \in Area(u)'
        PROVE  rest'[a] = early'[u]
    <3>1. CASE u = t
      BY <1>4, <1>12, <1>14, <1>15, <2>5, <3>1
    <3>2. CASE u # t
      <4>1. epc[u] = "free" /\ early'[u] = early[u] /\ Area(u)' = Area(u) /\ Owner(u)
        BY <1>11, <2>5, <3>2, OthersOwn DEF Owner
      <4>2. a \notin Area(t) /\ a \in E!Address
        BY <1>3, <2>5, <3>2, <4>1, OwnerFacts DEF ElfInv, ApartInv
      <4>3. rest'[a] = rest[a]
        BY <1>12, <4>2
      <4> QED
        BY <2>5, <4>1, <4>3 DEF ElfInv, RestInv
    <3> QED
      BY <3>1, <3>2
  <2> QED
    BY <1>17, <2>2, <2>3, <2>4, <2>5 DEF RestInv
<1> QED
  BY <1>13, <1>18, <1>19, <1>20, <1>21, <1>22, <1>23 DEF ElfInv

\* One hook at work.
LEMMA HookStep ==
  ASSUME TrampoInv, PageInv, ElfInv, ~late', NEW t \in Hook,
         \/ \E g \in Target : Resolve(t, g)
         \/ Alloc(t) \/ GetPage(t) \/ TryGaps(t) \/ SearchGaps(t)
         \/ GetGap(t) \/ AllocEndsInVain(t) \/ FreeIsland(t) \/ FreeEnds(t) \/ CloseSwitch(t)
  PROVE  ElfInv'
<1>1. CASE (\E g \in Target : Resolve(t, g)) \/ Alloc(t) \/ GetPage(t)
  BY <1>1, OutsideSteps
<1>2. CASE TryGaps(t) \/ SearchGaps(t) \/ GetGap(t)
  BY <1>2, TryGapsStep, SearchStep, GetGapStep
<1>3. CASE AllocEndsInVain(t)
  BY <1>3, InVainStep, NoRoomStep DEF AllocEndsInVain
<1>4. CASE FreeIsland(t)
  BY <1>4, OutsideFrees, FreeGapStep
<1>5. CASE FreeEnds(t)
  BY <1>5, OutsideFrees, FreeUnitsStep DEF FreeEnds
<1>6. CASE CloseSwitch(t)
  BY <1>6, OutsideFrees
<1> QED
  BY <1>1, <1>2, <1>3, <1>4, <1>5, <1>6

-----------------------------------------------------------------------------
(* The clock, the loader and the closer.                                   *)

\* A step that is no hook's leaves who owns which units.
NoHook ==
  /\ UNCHANGED <<isl, stage, target>>
  /\ \A t \in Hook : epc'[t] = epc[t] /\ self'[t] = self[t] /\ known'[t] = known[t] /\ want'[t] = want[t]
                     /\ early'[t] = early[t]

LEMMA SameOwners ==
  ASSUME NoHook
  PROVE  /\ \A t \in Hook : (Owner(t)' <=> Owner(t)) /\ Area(t)' = Area(t) /\ (InCall(t)' <=> InCall(t))
         /\ \A l : (UNION {Area(t) : t \in Owners(l)})' = UNION {Area(t) : t \in Owners(l)}
<1>1. \A t \in Hook : (Owner(t)' <=> Owner(t)) /\ Area(t)' = Area(t) /\ (InCall(t)' <=> InCall(t))
  BY DEF NoHook, Owner, Area, InCall
<1>2. \A l : Owners(l)' = Owners(l)
  BY <1>1 DEF Owners, NoHook
<1>3. ASSUME NEW l
      PROVE  (UNION {Area(t) : t \in Owners(l)})' = UNION {Area(t) : t \in Owners(l)}
  BY <1>1, <1>2 DEF Owners
<1> QED
  BY <1>1, <1>3

LEMMA StillStep ==
  ASSUME ElfInv, UNCHANGED <<elfVars, ivars>>
  PROVE  ElfInv'
<1>1. /\ UNCHANGED <<loaded, elfs, obj, epc, self, known, want, early, rest>>
      /\ UNCHANGED <<isl, stage, target, registered, closing, removed, cleaned>>
  BY DEF elfVars, ivars
<1>2. NoHook /\ E!Listed' = E!Listed /\ (\A l : Stays(l)' <=> Stays(l)) /\ \A t : Made(t)' <=> Made(t)
  BY <1>1 DEF NoHook, E!Listed, Stays, Made
<1>3. ElfTypes' /\ (\A t \in Hook : HookInv(t)') /\ CloseInv'
  BY <1>1, <1>2, SameOwners DEF ElfInv, ElfTypes, HookInv, CloseInv
<1>4. ListInv' /\ UseInv'
  BY <1>1, <1>2 DEF ElfInv, ListInv, UseInv
<1>5. OwnerInv' /\ ApartInv' /\ UsedInv'
  BY <1>1, <1>2, SameOwners DEF ElfInv, OwnerInv, ApartInv, UsedInv
<1>6. RestInv'
  BY <1>1, <1>2, SameOwners DEF ElfInv, RestInv
<1> QED
  BY <1>3, <1>4, <1>5, <1>6 DEF ElfInv

\* An ELF comes into memory where there is none.
LEMMA LoadStep ==
  ASSUME PageInv, ElfInv, NEW l \in Lib, Load(l)
  PROVE  ElfInv'
<1>1. /\ closing = None /\ loaded' = loaded \cup {l} /\ \A k \in loaded : E!Pages(k) \cap E!Pages(l) = {}
      /\ UNCHANGED <<elfs, obj, epc, self, known, want, early, rest>>
      /\ UNCHANGED <<isl, stage, target, registered, closing, removed, cleaned>>
  BY DEF Load, E!Map, ivars
<1>2. None \notin Lib /\ loaded \subseteq Lib
  BY ListFacts
<1>3. /\ NoHook /\ E!Listed' = E!Listed /\ (\A t : Made(t)' <=> Made(t))
      /\ \A k : Stays(k)' <=> k \in loaded'
      /\ \A k \in loaded : Stays(k)
  BY <1>1, <1>2 DEF NoHook, E!Listed, Stays, Made
<1>4. ElfTypes' /\ \A t \in Hook : HookInv(t)'
  <2>1. ElfTypes'
    BY <1>1 DEF ElfInv, ElfTypes
  <2>2. \A t \in Hook : HookInv(t)'
    BY <1>1, <1>3, SameOwners DEF ElfInv, HookInv
  <2> QED
    BY <2>1, <2>2
<1>5. CloseInv'
  <2>1. \A j, k \in loaded' : j # k => E!Pages(j) \cap E!Pages(k) = {}
    BY <1>1 DEF ElfInv, CloseInv
  <2>2. closing \in loaded' \/ (closing = None /\ removed = {})
    BY <1>1 DEF ElfInv, CloseInv
  <2> QED
    BY <1>1, <1>3, <2>1, <2>2 DEF ElfInv, CloseInv
<1>6. ListInv' /\ UseInv'
  <2>1. \A o \in E!Listed : Stays(obj[o].lib)'
    BY <1>1, <1>3 DEF ElfInv, ListInv, Stays
  <2> QED
    BY <1>1, <1>3, <2>1 DEF ElfInv, ListInv, UseInv
<1>7. OwnerInv' /\ ApartInv' /\ UsedInv'
  BY <1>1, <1>3, SameOwners DEF ElfInv, OwnerInv, ApartInv, UsedInv
<1>8. RestInv'
  <2>1. ASSUME NEW u \in E!Address \cap E!Pages(l)
        PROVE  rest[u] = 0
    <3>1. \A k \in loaded : u \notin E!Pages(k)
      BY <1>1
    <3>2. ~(rest[u] > 0) /\ rest[u] \in Nat
      BY <3>1 DEF ElfInv, RestInv, ElfTypes
    <3> QED
      BY <3>2
  <2>2. \A k \in loaded' : (\A o \in E!Listed : obj[o].lib # k) => \A u \in E!Address \cap E!Pages(k) : rest[u] = 0
    BY <1>1, <1>3, <2>1 DEF ElfInv, RestInv
  <2>3. \A u \in E!Address : rest[u] > 0 => \E k \in loaded' : u \in E!Pages(k)
    BY <1>1 DEF ElfInv, RestInv
  <2>4. /\ \A o \in E!Listed : \A u \in E!Address \cap E!Pages(obj[o].lib) : u \notin obj[o].used => rest[u] <= obj[o].time[u]
        /\ \A t \in Hook : epc[t] = "free" => \A u \in Area(t) : rest[u] = early[t]
    BY DEF ElfInv, RestInv
  <2>5. \A t \in Hook : epc'[t] = "free" => \A u \in Area(t)' : rest'[u] = early'[t]
    BY <1>1, <1>3, <2>4, SameOwners
  <2> QED
    BY <1>1, <1>3, <2>2, <2>3, <2>4, <2>5 DEF RestInv
<1> QED
  BY <1>4, <1>5, <1>6, <1>7, <1>8 DEF ElfInv

\* A dlclose begins: it waits for the hooks in its ELF.
LEMMA CloseStep ==
  ASSUME PageInv, ElfInv, NEW l \in Lib, Close(l)
  PROVE  ElfInv'
<1>1. /\ closing = None /\ l \in loaded /\ closing' = l /\ cleaned' = FALSE
      /\ removed' = {t \in registered : E!InElf(target[t].pc, l)}
      /\ registered' = registered \ removed'
      /\ UNCHANGED <<loaded, elfs, obj, epc, self, known, want, early, rest>>
      /\ UNCHANGED <<isl, stage, target>>
  BY DEF Close, elfVars
<1>2. None \notin Lib /\ loaded \subseteq Lib
  BY ListFacts
<1>3. removed = {} /\ ~cleaned /\ epc[Closer] # "destroy"
  BY <1>1, <1>2 DEF ElfInv, CloseInv
<1>4. NoHook /\ E!Listed' = E!Listed /\ (\A t : Made(t)' <=> Made(t))
  BY <1>1 DEF NoHook, E!Listed, Made
<1>5. \A k : Stays(k)' <=> Stays(k)
  BY <1>1, <1>3 DEF Stays
<1>6. ElfTypes'
  BY <1>1 DEF ElfInv, ElfTypes
<1>7. ASSUME NEW t \in Hook
      PROVE  HookInv(t)'
  <2>1. HookInv(t) /\ Control(stage[t], pc[t], epc[t]) /\ Fitting(stage[t], isl[t], target[t])
    BY AsItWas
  <2>2. (InCall(t)' <=> InCall(t)) /\ epc'[t] = epc[t]
    BY <1>4, SameOwners DEF NoHook
  <2>3. ASSUME InCall(t)
        PROVE  /\ t \in registered /\ target[t].lib \in loaded
               /\ t \in removed' <=> target[t].lib = l
    <3>1. t \in registered /\ target[t].lib \in loaded /\ target[t] \in Target
      BY <1>3, <2>1, <2>3 DEF HookInv, InCall, Control, Fitting
    <3>2. E!InElf(target[t].pc, target[t].lib)
      BY <3>1, IslandAssumption
    <3>3. ASSUME E!InElf(target[t].pc, l)
          PROVE  target[t].lib = l
      <4>1. target[t].pc \in E!Pages(l) /\ target[t].pc \in E!Pages(target[t].lib)
        BY <1>2, <3>1, <3>2, <3>3, InPages
      <4> QED
        BY <1>1, <3>1, <4>1, OneElf DEF ElfInv
    <3> QED
      BY <1>1, <3>1, <3>2, <3>3
  <2>4. t \in removed' => t \in registered /\ t \notin registered'
    BY <1>1
  <2>5. t \in registered' => t \in registered /\ t \notin removed'
    BY <1>1
  <2>6. InCall(t)' => /\ t \in registered' \cup removed' /\ target'[t].lib \in loaded'
                      /\ t \in removed' <=> target'[t].lib = closing'
    BY <1>1, <2>2, <2>3
  <2> QED
    BY <1>1, <2>1, <2>4, <2>5, <2>6 DEF HookInv
<1>8. CloseInv'
  BY <1>1, <1>3, <1>4 DEF ElfInv, CloseInv
<1>9. ListInv' /\ UseInv'
  BY <1>1, <1>4, <1>5 DEF ElfInv, ListInv, UseInv
<1>10. OwnerInv' /\ ApartInv'
  BY <1>1, <1>4, SameOwners DEF ElfInv, OwnerInv, ApartInv
<1>11. UsedInv'
  <2>1. \A o \in E!Listed : obj[o].lib # closing
    BY <1>1, <1>2, ListFacts
  <2> QED
    BY <1>1, <1>4, <2>1, SameOwners DEF ElfInv, UsedInv
<1>12. RestInv'
  BY <1>1, <1>4, <1>5, SameOwners DEF ElfInv, RestInv
<1> QED
  BY <1>6, <1>7, <1>8, <1>9, <1>10, <1>11, <1>12 DEF ElfInv

\* The closer destroys the object; nobody refers to it any more.
LEMMA CleanEndsStep ==
  ASSUME PageInv, ElfInv, CleanEnds
  PROVE  ElfInv'
<1> DEFINE o == self[Closer]
           gone == [E!NoObject EXCEPT !.destroyed = TRUE]
<1>1. /\ epc[Closer] = "destroy" /\ obj' = [obj EXCEPT ![o] = gone]
      /\ epc' = [epc EXCEPT ![Closer] = "idle"] /\ self' = [self EXCEPT ![Closer] = None]
      /\ known' = [known EXCEPT ![Closer] = None] /\ want' = [want EXCEPT ![Closer] = E!Nothing]
      /\ early' = [early EXCEPT ![Closer] = 0]
      /\ UNCHANGED <<loaded, elfs, rest>>
      /\ UNCHANGED <<isl, stage, target, registered, closing, removed, cleaned>>
  BY DEF CleanEnds, E!Destroy, E!Done, None, ivars
<1>2. Closer \in Thread /\ \A t \in Hook : t \in Thread \ {Closer}
  BY IslandAssumption DEF Hook
<1>3. o \notin E!Listed /\ o \in Obj /\ cleaned
  BY <1>1, <1>2 DEF ElfInv, CloseInv, ElfTypes
<1>4. gone \in Object
  <2>1. PICK m : m = E!NoObject
    OBVIOUS
  <2>2. m = [lib |-> None, gaps |-> {}, useless |-> FALSE, used |-> {}, time |-> <<>>, destroyed |-> FALSE]
    BY <2>1 DEF E!NoObject, None
  <2>3. m.lib = None /\ m.gaps = {} /\ m.useless = FALSE /\ m.used = {} /\ m.time = <<>>
    BY <2>2
  <2>4. m = [lib |-> m.lib, gaps |-> m.gaps, useless |-> m.useless, used |-> m.used,
             time |-> m.time, destroyed |-> m.destroyed]
    BY <2>2
  <2>5. ASSUME NEW x
        PROVE  [m EXCEPT !.destroyed = x] = [lib |-> m.lib, gaps |-> m.gaps, useless |-> m.useless, used |-> m.used,
                                             time |-> m.time, destroyed |-> x]
    BY <2>4
  <2>6. [m EXCEPT !.destroyed = TRUE] = [lib |-> m.lib, gaps |-> m.gaps, useless |-> m.useless, used |-> m.used,
                                         time |-> m.time, destroyed |-> TRUE]
    BY <2>5
  <2>7. [m EXCEPT !.destroyed = TRUE] =
          [lib |-> None, gaps |-> {}, useless |-> FALSE, used |-> {}, time |-> <<>>, destroyed |-> TRUE]
    BY <2>3, <2>6
  <2>8. [lib |-> None, gaps |-> {}, useless |-> FALSE, used |-> {}, time |-> <<>>, destroyed |-> TRUE] \in Object
    BY DEF Object
  <2> QED
    BY <2>1, <2>7, <2>8
<1> HIDE DEF gone
<1>5. ElfTypes'
  <2>1. E!Nothing \in [pc : Nat, size : Nat, low : Nat, high : Nat, addr : Int]
    BY DEF E!Nothing
  <2> QED
    BY <1>1, <1>3, <1>4, <2>1 DEF ElfInv, ElfTypes
<1>6. /\ epc'[Closer] = "idle" /\ self'[Closer] = None
      /\ \A t \in Thread \ {Closer} : /\ epc'[t] = epc[t] /\ self'[t] = self[t] /\ known'[t] = known[t]
                                      /\ want'[t] = want[t] /\ early'[t] = early[t]
      /\ \A p \in Obj \ {o} : obj'[p] = obj[p]
  BY <1>1, <1>2, <1>3 DEF PageInv, PageTypes, ElfInv, ElfTypes
<1>7. NoHook /\ E!Listed' = E!Listed /\ (\A l : Stays(l)' <=> Stays(l))
  BY <1>1, <1>2, <1>6 DEF NoHook, E!Listed, Stays
<1>8. \A p \in E!Listed : obj'[p] = obj[p]
  BY <1>3, <1>6, ListFacts
<1>9. \A t \in Hook : HookInv(t)'
  BY <1>1, <1>7, SameOwners DEF ElfInv, HookInv, NoHook
<1>10. CloseInv'
  BY <1>1, <1>6 DEF ElfInv, CloseInv
<1>11. ListInv'
  <2>1. \A i \in DOMAIN elfs : elfs[i] \in E!Listed
    BY DEF E!Listed
  <2> QED
    BY <1>1, <1>7, <1>8, <2>1 DEF ElfInv, ListInv
<1> HIDE DEF o
<1>12. UseInv'
  <2>1. \A t \in Hook : epc'[t] \in {"alloc", "free"} => self'[t] \in E!Listed' /\ obj'[self'[t]].lib = target'[t].lib
    BY <1>1, <1>7, <1>8 DEF ElfInv, UseInv, NoHook
  <2>2. ASSUME NEW t \in Hook, epc'[t] = "insert"
        PROVE  Made(t)' /\ self'[t] \notin E!Listed' /\ \A u \in Thread \ {t} : self'[u] # self'[t]
    <3>1. epc[t] = "insert" /\ self'[t] = self[t] /\ target'[t] = target[t] /\ t \in Thread \ {Closer}
      BY <1>2, <1>7, <2>2 DEF NoHook
    <3>2. Made(t) /\ self[t] \notin E!Listed /\ (\A u \in Thread \ {t} : self[u] # self[t])
      BY <3>1 DEF ElfInv, UseInv
    <3>3. self[t] \in Obj
      BY <3>1, AsItWas DEF HookInv
    <3>4. self[t] # o
      BY <1>2, <3>1, <3>2 DEF o
    <3>5. self[t] # None
      BY <3>3, ListFacts
    <3>6. \A u \in Thread \ {t} : self'[u] # self[t]
      BY <1>6, <3>2, <3>5
    <3>7. obj'[self[t]] = obj[self[t]]
      BY <1>6, <3>3, <3>4
    <3> QED
      BY <1>7, <3>1, <3>2, <3>6, <3>7 DEF Made
  <2> QED
    BY <2>1, <2>2 DEF UseInv
<1>13. OwnerInv' /\ ApartInv'
  BY <1>1, <1>7, <1>8, SameOwners DEF ElfInv, OwnerInv, ApartInv
<1>14. UsedInv'
  BY <1>1, <1>7, <1>8, SameOwners, ZenonT(40) DEF ElfInv, UsedInv
<1>15. RestInv'
  <2>1. \A t \in Hook : epc'[t] = "free" => \A u \in Area(t)' : rest'[u] = early'[t]
    BY <1>1, <1>7, SameOwners DEF ElfInv, RestInv, NoHook
  <2> QED
    BY <1>1, <1>7, <1>8, <2>1 DEF ElfInv, RestInv
<1> QED
  BY <1>5, <1>9, <1>10, <1>11, <1>12, <1>13, <1>14, <1>15 DEF ElfInv

\* The ELF leaves memory; no hook has anything there.
LEMMA CloseEndsStep ==
  ASSUME PageInv, ElfInv, CloseEnds
  PROVE  ElfInv'
<1>1. /\ closing # None /\ cleaned /\ epc[Closer] = "idle" /\ loaded' = loaded \ {closing}
      /\ rest' = [u \in DOMAIN rest |-> IF u \in E!Pages(closing) THEN 0 ELSE rest[u]]
      /\ closing' = None /\ cleaned' = FALSE
      /\ UNCHANGED <<elfs, obj, epc, self, known, want, early>>
      /\ UNCHANGED <<isl, stage, target, registered, removed>>
  BY DEF CloseEnds, E!Unmap
<1>2. None \notin Lib /\ loaded \subseteq Lib
  BY ListFacts
<1>3. removed = {} /\ closing \in loaded
  BY <1>1 DEF ElfInv, CloseInv
<1>4. rest' = [u \in E!Address |-> IF u \in E!Pages(closing) THEN 0 ELSE rest[u]]
  BY <1>1 DEF PageInv, PageTypes
<1>5. NoHook /\ E!Listed' = E!Listed /\ (\A t : Made(t)' <=> Made(t))
  BY <1>1 DEF NoHook, E!Listed, Made
<1>6. /\ \A k : Stays(k)' <=> k \in loaded'
      /\ \A k : Stays(k) => k \in loaded' /\ k # closing
      /\ \A k \in loaded' : Stays(k)
  BY <1>1, <1>2 DEF Stays
<1>7. ElfTypes'
  <2>1. rest' \in [E!Address -> Nat]
    BY <1>4 DEF ElfInv, ElfTypes
  <2> QED
    BY <1>1, <2>1 DEF ElfInv, ElfTypes
<1>8. ASSUME NEW t \in Hook, InCall(t)
      PROVE  target[t].lib \in loaded' /\ target[t].lib \in Lib /\ target[t].lib # closing
  BY <1>1, <1>2, <1>3, <1>8 DEF ElfInv, HookInv
<1>9. ASSUME NEW t \in Hook
      PROVE  HookInv(t)'
  <2>1. InCall(t)' <=> InCall(t)
    BY <1>5, SameOwners
  <2>2. InCall(t) => target[t].lib # None
    BY <1>2, <1>8
  <2> QED
    BY <1>1, <1>3, <1>8, <2>1, <2>2 DEF ElfInv, HookInv
<1>10. CloseInv'
  BY <1>1, <1>3, <1>5 DEF ElfInv, CloseInv
<1>11. ListInv' /\ UseInv'
  BY <1>1, <1>5, <1>6 DEF ElfInv, ListInv, UseInv
<1>12. OwnerInv' /\ ApartInv'
  BY <1>1, <1>5, SameOwners DEF ElfInv, OwnerInv, ApartInv
<1>13. UsedInv'
  <2>1. \A o \in E!Listed : obj[o].lib # closing
    BY <1>6 DEF ElfInv, ListInv
  <2> QED
    BY <1>1, <1>5, <2>1, SameOwners DEF ElfInv, UsedInv
<1>14. RestInv'
  <2>1. ASSUME NEW k \in loaded', NEW u \in E!Address \cap E!Pages(k)
        PROVE  rest'[u] = rest[u]
    <3>1. u \notin E!Pages(closing)
      BY <1>1, <1>3, <2>1, OneElf DEF ElfInv
    <3> QED
      BY <1>4, <3>1
  <2>2. ASSUME NEW u \in E!Address, rest'[u] > 0
        PROVE  \E k \in loaded' : u \in E!Pages(k)
    <3>1. u \notin E!Pages(closing) /\ rest[u] > 0
      BY <1>4, <2>2
    <3>2. PICK k \in loaded : u \in E!Pages(k)
      BY <3>1 DEF ElfInv, RestInv
    <3> QED
      BY <1>1, <3>1, <3>2
  <2>3. ASSUME NEW k \in loaded', \A o \in E!Listed : obj[o].lib # k, NEW u \in E!Address \cap E!Pages(k)
        PROVE  rest'[u] = 0
    <3>1. Stays(k) /\ k \in loaded
      BY <1>1, <1>6
    <3> QED
      BY <2>1, <2>3, <3>1 DEF ElfInv, RestInv
  <2>4. ASSUME NEW o \in E!Listed, NEW u \in E!Address \cap E!Pages(obj[o].lib), u \notin obj[o].used
        PROVE  rest'[u] <= obj[o].time[u]
    <3>1. obj[o].lib \in loaded'
      BY <1>6 DEF ElfInv, ListInv
    <3> QED
      BY <2>1, <2>4, <3>1 DEF ElfInv, RestInv
  <2>5. ASSUME NEW t \in Hook, epc[t] = "free", NEW u \in Area(t)
        PROVE  rest'[u] = early[t]
    <3>1. InCall(t) /\ Owner(t)
      BY <2>5 DEF InCall, Owner
    <3>2. u \in E!Address \cap E!Pages(target[t].lib)
      BY <2>5, <3>1, OwnerFacts
    <3>3. rest'[u] = rest[u]
      BY <1>8, <2>1, <3>1, <3>2
    <3> QED
      BY <2>5, <3>3 DEF ElfInv, RestInv
  <2>6. \A t \in Hook : epc'[t] = "free" => \A u \in Area(t)' : rest'[u] = early'[t]
    BY <1>1, <1>5, <2>5, SameOwners
  <2> QED
    BY <1>1, <1>5, <1>6, <2>2, <2>3, <2>4, <2>6 DEF RestInv
<1> QED
  BY <1>7, <1>9, <1>10, <1>11, <1>12, <1>13, <1>14 DEF ElfInv

LEMMA RemovedAt ==
  ASSUME NEW S, NEW s \in Seq(S), NEW i \in DOMAIN s
  PROVE  /\ E!RemoveAt(s, i) \in Seq(S) /\ DOMAIN E!RemoveAt(s, i) = 1 .. Len(s) - 1
         /\ \A j \in 1 .. Len(s) - 1 : E!RemoveAt(s, i)[j] = IF j < i THEN s[j] ELSE s[j + 1]
<1> DEFINE a == SubSeq(s, 1, i - 1)
           b == SubSeq(s, i + 1, Len(s))
<1>1. Len(s) \in Nat /\ DOMAIN s = 1 .. Len(s) /\ i \in 1 .. Len(s)
  BY LenProperties
<1>2. \A j \in 1 .. Len(s) : s[j] \in S
  BY ElementOfSeq
<1>3. /\ a \in Seq(S) /\ Len(a) = i - 1
      /\ \A j \in 1 .. i - 1 : a[j] = s[j]
  <2>1. 1 \in Int /\ i - 1 \in Int /\ \A j \in 1 .. i - 1 : s[j] \in S
    BY <1>1, <1>2
  <2>2. /\ a \in Seq(S) /\ Len(a) = IF 1 <= i - 1 THEN (i - 1) - 1 + 1 ELSE 0
        /\ \A j \in 1 .. (i - 1) - 1 + 1 : a[j] = s[1 + j - 1]
    BY <2>1, SubSeqProperties
  <2> HIDE DEF a
  <2>3. \A j \in 1 .. i - 1 : j \in 1 .. (i - 1) - 1 + 1 /\ 1 + j - 1 = j
    BY <1>1
  <2> QED
    BY <1>1, <2>2, <2>3
<1>4. /\ b \in Seq(S) /\ Len(b) = Len(s) - i
      /\ \A j \in 1 .. Len(s) - i : b[j] = s[i + j]
  <2>1. i + 1 \in Int /\ Len(s) \in Int /\ \A j \in i + 1 .. Len(s) : s[j] \in S
    BY <1>1, <1>2
  <2>2. /\ b \in Seq(S) /\ Len(b) = IF i + 1 <= Len(s) THEN Len(s) - (i + 1) + 1 ELSE 0
        /\ \A j \in 1 .. Len(s) - (i + 1) + 1 : b[j] = s[(i + 1) + j - 1]
    BY <2>1, SubSeqProperties
  <2> HIDE DEF b
  <2>3. \A j \in 1 .. Len(s) - i : j \in 1 .. Len(s) - (i + 1) + 1 /\ (i + 1) + j - 1 = i + j
    BY <1>1
  <2> QED
    BY <1>1, <2>2, <2>3, SMTT(30)
<1>5. E!RemoveAt(s, i) = a \o b
  BY DEF E!RemoveAt
<1> HIDE DEF a, b
<1>6. /\ a \o b \in Seq(S) /\ Len(a \o b) = Len(s) - 1
      /\ \A j \in 1 .. Len(s) - 1 : (a \o b)[j] = IF j <= i - 1 THEN a[j] ELSE b[j - (i - 1)]
  <2>1. /\ a \o b \in Seq(S) /\ Len(a \o b) = Len(a) + Len(b)
        /\ \A j \in 1 .. Len(a) + Len(b) : (a \o b)[j] = IF j <= Len(a) THEN a[j] ELSE b[j - Len(a)]
    BY <1>3, <1>4, ConcatProperties
  <2> QED
    BY <1>1, <1>3, <1>4, <2>1, SMTT(30)
<1>7. ASSUME NEW j \in 1 .. Len(s) - 1
      PROVE  (a \o b)[j] = IF j < i THEN s[j] ELSE s[j + 1]
  <2>1. CASE j < i
    <3>1. j \in 1 .. i - 1 /\ j <= i - 1
      BY <1>1, <2>1
    <3> QED
      BY <1>3, <1>6, <2>1, <3>1
  <2>2. CASE ~(j < i)
    <3>1. j - (i - 1) \in 1 .. Len(s) - i /\ ~(j <= i - 1) /\ i + (j - (i - 1)) = j + 1
      BY <1>1, <2>2
    <3> QED
      BY <1>4, <1>6, <2>2, <3>1
  <2> QED
    BY <2>1, <2>2
<1>8. DOMAIN (a \o b) = 1 .. Len(s) - 1
  BY <1>6, LenProperties
<1> QED
  BY <1>5, <1>6, <1>7, <1>8

\* The object of an ELF leaves the list, if there is one, and the others stay.
LEMMA Unlisted ==
  ASSUME ElfInv, NEW l \in loaded, E!ByBias(Bias[l]) # {},
         elfs' = E!RemoveAt(elfs, CHOOSE i \in E!ByBias(Bias[l]) : \A j \in E!ByBias(Bias[l]) : i <= j)
  PROVE  /\ elfs' \in Seq(Obj)
         /\ E!First(E!ByBias(Bias[l])) \in E!Listed \ E!Listed' /\ obj[E!First(E!ByBias(Bias[l]))].lib = l
         /\ E!Listed' = E!Listed \ {E!First(E!ByBias(Bias[l]))}
         /\ \A i, j \in DOMAIN elfs' : obj[elfs'[i]].lib = obj[elfs'[j]].lib => i = j
<1> DEFINE o == E!First(E!ByBias(Bias[l]))
<1>1. PICK i \in DOMAIN elfs : E!ByBias(Bias[l]) = {i} /\ o = elfs[i] /\ o \in E!Listed /\ obj[o].lib = l
  BY ByBiasFinds
<1>2. elfs \in Seq(Obj) /\ DOMAIN elfs = 1 .. Len(elfs) /\ Len(elfs) \in Nat /\ i \in Int
  BY ListFacts
<1>3. (CHOOSE k \in E!ByBias(Bias[l]) : \A j \in E!ByBias(Bias[l]) : k <= j) = i
  BY <1>1, <1>2
<1> HIDE DEF o
<1>4. /\ elfs' \in Seq(Obj) /\ DOMAIN elfs' = 1 .. Len(elfs) - 1
      /\ \A j \in 1 .. Len(elfs) - 1 : elfs'[j] = IF j < i THEN elfs[j] ELSE elfs[j + 1]
  BY <1>2, <1>3, RemovedAt
<1> DEFINE from(j) == IF j < i THEN j ELSE j + 1
<1>5. /\ \A j \in DOMAIN elfs' : from(j) \in DOMAIN elfs /\ from(j) # i /\ elfs'[j] = elfs[from(j)]
      /\ \A j, k \in DOMAIN elfs' : from(j) = from(k) => j = k
      /\ \A k \in DOMAIN elfs : k # i => \E j \in DOMAIN elfs' : from(j) = k
  <2>1. \A j \in DOMAIN elfs' : from(j) \in DOMAIN elfs /\ from(j) # i /\ elfs'[j] = elfs[from(j)]
    BY <1>2, <1>4
  <2>2. \A j, k \in DOMAIN elfs' : from(j) = from(k) => j = k
    BY <1>2, <1>4
  <2>3. ASSUME NEW k \in DOMAIN elfs, k # i
        PROVE  \E j \in DOMAIN elfs' : from(j) = k
    <3>1. CASE k < i
      BY <1>1, <1>2, <1>4, <3>1
    <3>2. CASE k > i
      <4>1. k - 1 \in DOMAIN elfs' /\ from(k - 1) = k
        BY <1>1, <1>2, <1>4, <3>2
      <4> QED
        BY <4>1
    <3> QED
      BY <1>2, <2>3, <3>1, <3>2
  <2> QED
    BY <2>1, <2>2, <2>3
<1> HIDE DEF from
<1>6. \A j, k \in DOMAIN elfs : obj[elfs[j]].lib = obj[elfs[k]].lib => j = k
  BY DEF ElfInv, ListInv
<1>7. \A j, k \in DOMAIN elfs' : obj[elfs'[j]].lib = obj[elfs'[k]].lib => j = k
  BY <1>5, <1>6
<1>8. E!Listed = {elfs[j] : j \in DOMAIN elfs} /\ E!Listed' = {elfs'[j] : j \in DOMAIN elfs'}
  BY DEF E!Listed
<1>9. E!Listed' = E!Listed \ {o}
  <2>1. \A k \in DOMAIN elfs : elfs[k] = o => k = i
    BY <1>1, <1>6
  <2>2. \A j \in DOMAIN elfs' : elfs'[j] \in E!Listed \ {o}
    BY <1>5, <1>8, <2>1
  <2>3. ASSUME NEW p \in E!Listed, p # o
        PROVE  p \in E!Listed'
    <3>1. PICK k \in DOMAIN elfs : p = elfs[k]
      BY <1>8
    <3>2. k # i
      BY <1>1, <2>3, <3>1
    <3>3. PICK j \in DOMAIN elfs' : from(j) = k
      BY <1>5, <3>2
    <3>4. elfs'[j] = p
      BY <1>5, <3>1, <3>3
    <3>5. elfs'[j] \in E!Listed'
      BY <3>3 DEF E!Listed
    <3> QED
      BY <3>4, <3>5
  <2> QED
    BY <1>8, <2>2, <2>3, ZenonT(60)
<1> QED
  BY <1>1, <1>4, <1>7, <1>9 DEF o

\* The closer takes the object of its ELF out of the list; no hook is at work there.
LEMMA CleanStep ==
  ASSUME PageInv, ElfInv, Clean
  PROVE  ElfInv'
<1> DEFINE found == E!ByBias(Bias[closing])
           o == E!First(found)
<1>1. /\ closing # None /\ removed = {} /\ ~cleaned /\ cleaned' = TRUE /\ epc[Closer] = "idle"
      /\ UNCHANGED <<loaded, obj, known, want, early, rest>>
      /\ UNCHANGED <<isl, stage, target, registered, closing, removed>>
      /\ \/ found = {} /\ UNCHANGED <<elfs, epc, self>>
         \/ /\ found # {}
            /\ elfs' = E!RemoveAt(elfs, CHOOSE i \in found : \A j \in found : i <= j)
            /\ epc' = [epc EXCEPT ![Closer] = "destroy"] /\ self' = [self EXCEPT ![Closer] = o]
  BY DEF Clean, E!Cleanup, E!Become, E!Use
<1>2. Closer \in Thread /\ (\A t \in Hook : t \in Thread \ {Closer}) /\ closing \in loaded
      /\ None \notin Lib \cup Obj /\ self[Closer] = None
  BY <1>1, IslandAssumption, ListFacts DEF Hook, ElfInv, CloseInv
<1>3. /\ elfs' \in Seq(Obj) /\ E!Listed' \subseteq E!Listed
      /\ \A p \in E!Listed : p \in E!Listed' <=> obj[p].lib # closing
      /\ \A i, j \in DOMAIN elfs' : obj[elfs'[i]].lib = obj[elfs'[j]].lib => i = j
      /\ epc' \in [Thread -> Searching \cup {"idle", "free", "destroy"}] /\ self' \in [Thread -> Obj \cup {None}]
      /\ \A t \in Thread \ {Closer} : epc'[t] = epc[t] /\ self'[t] = self[t]
      /\ epc'[Closer] \in {"idle", "destroy"} /\ (epc'[Closer] = "idle" <=> self'[Closer] = None)
      /\ self'[Closer] # None => self'[Closer] \in E!Listed \ E!Listed'
  <2>1. CASE found = {}
    <3>1. UNCHANGED <<elfs, epc, self>> /\ E!Listed' = E!Listed
      BY <1>1, <2>1 DEF E!Listed
    <3>2. \A p \in E!Listed : obj[p].lib # closing
      BY <1>2, <2>1, ByBiasFinds
    <3> QED
      BY <1>1, <1>2, <3>1, <3>2 DEF PageInv, PageTypes, ElfInv, ElfTypes, ListInv
  <2>2. CASE found # {}
    <3>1. /\ epc' = [epc EXCEPT ![Closer] = "destroy"] /\ self' = [self EXCEPT ![Closer] = o]
          /\ elfs' = E!RemoveAt(elfs, CHOOSE i \in found : \A j \in found : i <= j)
      BY <1>1, <2>2
    <3>2. /\ elfs' \in Seq(Obj) /\ o \in E!Listed \ E!Listed' /\ obj[o].lib = closing
          /\ E!Listed' = E!Listed \ {o}
          /\ \A i, j \in DOMAIN elfs' : obj[elfs'[i]].lib = obj[elfs'[j]].lib => i = j
      BY <1>2, <2>2, <3>1, Unlisted
    <3> HIDE DEF found, o
    <3>3. o \in Obj /\ o # None /\ \A p \in E!Listed : obj[p].lib = closing => p = o
      BY <1>2, <3>2, ListFacts
    <3>4. /\ epc' \in [Thread -> Searching \cup {"idle", "free", "destroy"}] /\ self' \in [Thread -> Obj \cup {None}]
          /\ \A t \in Thread \ {Closer} : epc'[t] = epc[t] /\ self'[t] = self[t]
          /\ epc'[Closer] = "destroy" /\ self'[Closer] = o
      BY <1>2, <3>1, <3>3 DEF PageInv, PageTypes, ElfInv, ElfTypes
    <3> QED
      BY <3>2, <3>3, <3>4
  <2> QED
    BY <2>1, <2>2
<1> HIDE DEF found, o
<1>4. NoHook /\ \A t : t \in Hook => (Made(t)' <=> Made(t))
  <2>1. NoHook
    BY <1>1, <1>2, <1>3 DEF NoHook
  <2> QED
    BY <1>1, <2>1 DEF Made, NoHook
<1>5. \A k : Stays(k)' <=> Stays(k) /\ k # closing
  BY <1>1 DEF Stays
<1>6. ElfTypes'
  BY <1>1, <1>3 DEF ElfInv, ElfTypes
<1>7. \A t \in Hook : HookInv(t)'
  BY <1>1, <1>4, SameOwners DEF ElfInv, HookInv, NoHook
<1>8. CloseInv'
  <2>1. epc'[Closer] = "destroy" => self'[Closer] \notin E!Listed'
    BY <1>3
  <2> QED
    BY <1>1, <1>2, <1>3, <2>1 DEF ElfInv, CloseInv
<1>9. ListInv'
  <2>1. \A p \in E!Listed' : p \in E!Listed /\ obj[p].lib # closing
    BY <1>3
  <2>2. \A p \in E!Listed' : Stays(obj[p].lib)' /\ ~obj'[p].destroyed /\ obj'[p].gaps \subseteq AllGaps(obj'[p].lib)
                             /\ DOMAIN obj'[p].time = E!Address
    BY <1>1, <1>5, <2>1 DEF ElfInv, ListInv
  <2> QED
    BY <1>1, <1>3, <2>2 DEF ListInv
<1>10. ASSUME NEW t \in Hook, InCall(t)
       PROVE  target[t].lib # closing
  BY <1>1, <1>10 DEF ElfInv, HookInv
<1>11. UseInv'
  <2>1. ASSUME NEW t \in Hook, epc'[t] \in {"alloc", "free"}
        PROVE  self'[t] \in E!Listed' /\ obj'[self'[t]].lib = target'[t].lib
    <3>1. /\ epc[t] \in {"alloc", "free"} /\ self'[t] = self[t] /\ target'[t] = target[t]
          /\ Control(stage[t], pc[t], epc[t])
      BY <1>4, <2>1, AsItWas DEF NoHook
    <3>2. InCall(t)
      BY <3>1 DEF InCall, Control, Searching
    <3>3. self[t] \in E!Listed /\ obj[self[t]].lib = target[t].lib
      BY <3>1 DEF ElfInv, UseInv
    <3> QED
      BY <1>1, <1>3, <1>10, <3>1, <3>2, <3>3
  <2>2. ASSUME NEW t \in Hook, epc'[t] = "insert"
        PROVE  Made(t)' /\ self'[t] \notin E!Listed' /\ \A u \in Thread \ {t} : self'[u] # self'[t]
    <3>1. epc[t] = "insert" /\ self'[t] = self[t] /\ HookInv(t)
      BY <1>4, <2>2, AsItWas DEF NoHook
    <3>2. Made(t) /\ self[t] \notin E!Listed /\ (\A u \in Thread \ {t} : self[u] # self[t]) /\ self[t] # None
      BY <3>1 DEF ElfInv, UseInv, HookInv
    <3>3. \A u \in Thread \ {t} : self'[u] # self[t]
      BY <1>3, <3>2
    <3> QED
      BY <1>3, <1>4, <3>1, <3>2, <3>3
  <2> QED
    BY <2>1, <2>2 DEF UseInv
<1>12. OwnerInv'
  <2> SUFFICES ASSUME NEW t \in Hook, Owner(t)
               PROVE  \E p \in E!Listed' : obj[p].lib = target[t].lib
                                           /\ Area(t) \subseteq E!Units(obj[p].gaps) \cap obj[p].used
    BY <1>1, <1>4, SameOwners DEF OwnerInv
  <2>1. target[t].lib # closing
    BY <1>10 DEF Owner, InCall
  <2> QED
    BY <1>3, <2>1 DEF ElfInv, OwnerInv
<1>13. ApartInv'
  BY <1>4, SameOwners DEF ElfInv, ApartInv
<1>14. UsedInv'
  BY <1>1, <1>3, <1>4, SameOwners DEF ElfInv, UsedInv
<1>15. RestInv'
  <2>1. \A t \in Hook : epc'[t] = "free" => \A u \in Area(t)' : rest'[u] = early'[t]
    BY <1>1, <1>4, SameOwners DEF ElfInv, RestInv, NoHook
  <2>2. ASSUME NEW k \in loaded, Stays(k)', \A p \in E!Listed' : obj[p].lib # k
        PROVE  \A u \in E!Address \cap E!Pages(k) : rest[u] = 0
    <3>1. Stays(k) /\ \A p \in E!Listed : obj[p].lib # k
      BY <1>3, <1>5, <2>2
    <3> QED
      BY <3>1 DEF ElfInv, RestInv
  <2>3. \A p \in E!Listed' : \A u \in E!Address \cap E!Pages(obj[p].lib) :
          u \notin obj[p].used => rest[u] <= obj[p].time[u]
    BY <1>3 DEF ElfInv, RestInv
  <2>4. \A u \in E!Address : rest[u] > 0 => \E k \in loaded : u \in E!Pages(k)
    BY DEF ElfInv, RestInv
  <2> QED
    BY <1>1, <2>1, <2>2, <2>3, <2>4 DEF RestInv
<1> QED
  BY <1>6, <1>7, <1>8, <1>9, <1>11, <1>12, <1>13, <1>14, <1>15 DEF ElfInv

-----------------------------------------------------------------------------
(* The invariant.                                                          *)

LEMMA ElfInitially ==
  ASSUME IslandInit
  PROVE  ElfInv
<1>1. /\ isl = [t \in Hook |-> NoIsland] /\ stage = [t \in Hook |-> "idle"]
      /\ target = [t \in Hook |-> NoTarget]
      /\ registered = {} /\ closing = None /\ removed = {} /\ cleaned = FALSE
      /\ loaded = {} /\ elfs = <<>> /\ obj = [o \in Obj |-> E!NoObject]
      /\ epc = [t \in Thread |-> "idle"] /\ self = [t \in Thread |-> None]
      /\ known = [t \in Thread |-> None] /\ want = [t \in Thread |-> E!Nothing]
      /\ early = [t \in Thread |-> 0] /\ rest = [u \in E!Address |-> 0]
  BY DEF IslandInit, E!ElfInit, None
<1>2. E!Listed = {} /\ DOMAIN elfs = {} /\ elfs \in Seq(Obj)
  BY <1>1, EmptySeq DEF E!Listed
<1>3. \A t \in Hook : t \in Thread /\ stage[t] = "idle" /\ epc[t] = "idle" /\ self[t] = None
  BY <1>1 DEF Hook
<1>4. ElfTypes
  <2>1. E!NoObject \in Object
    BY DEF E!NoObject, E!None, None, Object
  <2>2. E!Nothing \in [pc : Nat, size : Nat, low : Nat, high : Nat, addr : Int]
    BY DEF E!Nothing
  <2> QED
    BY <1>1, <1>2, <2>1, <2>2 DEF ElfTypes
<1>5. \A t \in Hook : HookInv(t)
  BY <1>1, <1>3 DEF HookInv, InCall
<1>6. CloseInv
  BY <1>1, IslandAssumption DEF CloseInv
<1>7. ListInv /\ UseInv /\ UsedInv
  BY <1>2, <1>3 DEF ListInv, UseInv, UsedInv
<1>8. OwnerInv /\ ApartInv
  BY <1>3 DEF OwnerInv, ApartInv, Owner
<1>9. RestInv
  BY <1>1, <1>2, <1>3 DEF RestInv
<1> QED
  BY <1>4, <1>5, <1>6, <1>7, <1>8, <1>9 DEF ElfInv

LEMMA ElfStep ==
  ASSUME TrampoInv, PageInv, ElfInv, [IslandNext]_allVars, ~late'
  PROVE  ElfInv'
<1>1. CASE UNCHANGED allVars \/ IslandTick
  <2>1. UNCHANGED <<elfVars, ivars>>
    BY <1>1 DEF allVars, IslandTick
  <2> QED
    BY <2>1, StillStep
<1>2. ASSUME NEW l \in Lib, Load(l) \/ Close(l) PROVE ElfInv'
  BY <1>2, LoadStep, CloseStep
<1>3. CASE Clean \/ CleanEnds \/ CloseEnds
  BY <1>3, CleanStep, CleanEndsStep, CloseEndsStep
<1>4. ASSUME NEW t \in Hook,
             \/ \E g \in Target : Resolve(t, g)
             \/ Alloc(t) \/ GetPage(t) \/ TryGaps(t) \/ SearchGaps(t)
             \/ GetGap(t) \/ AllocEndsInVain(t) \/ FreeIsland(t) \/ FreeEnds(t) \/ CloseSwitch(t)
      PROVE  ElfInv'
  BY <1>4, HookStep
<1> QED
  BY <1>1, <1>2, <1>3, <1>4 DEF IslandNext

\* Too late is too late.
LEMMA LateStays ==
  ASSUME [IslandNext]_allVars, late = TRUE
  PROVE  late' = TRUE
BY DEF IslandNext, IslandTick, Load, Close, Resolve, Alloc, GetPage, TryGaps, SearchGaps, GetGap,
       AllocEndsInVain, FreeIsland, FreeEnds, CloseSwitch, Clean, CleanEnds, CloseEnds, allVars, ivars

LEMMA LateBoolean ==
  ASSUME [IslandNext]_allVars, late \in BOOLEAN
  PROVE  late' \in BOOLEAN
BY DEF IslandNext, IslandTick, Load, Close, Resolve, Alloc, GetPage, TryGaps, SearchGaps, GetGap,
       AllocEndsInVain, FreeIsland, FreeEnds, CloseSwitch, Clean, CleanEnds, CloseEnds, allVars, ivars

Inv == TrampoInv /\ late \in BOOLEAN /\ IslandInv

\* The invariant holds in every reachable state of the islands.
THEOREM Invariance == IslandSpec => []Inv
<1>1. IslandInit => Inv
  BY InvInit, PageInit, ElfInitially DEF IslandInit, Inv, IslandInv
<1>2. Inv /\ [IslandNext]_allVars => Inv'
  <2> SUFFICES ASSUME Inv, [IslandNext]_allVars
               PROVE  Inv'
    OBVIOUS
  <2>1. TrampoInv /\ PageInv /\ (late \/ ElfInv) /\ late \in BOOLEAN
    BY DEF Inv, IslandInv
  <2>2. TrampoInv' /\ PageInv' /\ late' \in BOOLEAN
    BY <2>1, AsTrampo, InvStep, PageStep, LateBoolean
  <2>3. late' \/ ElfInv'
    <3>1. CASE late
      BY <2>1, <3>1, LateStays
    <3>2. CASE ElfInv /\ ~late'
      BY <2>1, <3>2, ElfStep
    <3> QED
      BY <2>1, <3>1, <3>2
  <2> QED
    BY <2>2, <2>3 DEF Inv, IslandInv
<1> QED
  BY <1>1, <1>2, PTL DEF IslandSpec

\* A hook with an island in a gap is one whose units the invariant speaks of.
LEMMA GapOwners ==
  ASSUME PageInv, NEW t \in InGap
  PROVE  t \in Hook /\ stage[t] = "hooked" /\ isl[t].type = GAP /\ Owner(t) /\ Area(t) = Own(t)
<1>1. t \in Hook /\ isl[t].addr # 0 /\ isl[t].type = GAP
  BY DEF InGap
<1>2. stage[t] = "hooked"
  BY <1>1, HookFacts DEF Fitting
<1> QED
  BY <1>1, <1>2 DEF Owner, Area, Own

-----------------------------------------------------------------------------
(* What the properties of ShIsland say holds in any instance.              *)

\* Threads that search the list, make objects, take units and give them back at the same
\* time never get the same unit, for an object of an ELF is in the list once and its flags
\* are read and set under its lock.
THEOREM IslandsApartHolds == IslandSpec => []IslandsApart
<1>1. Inv => IslandsApart
  <2> SUFFICES ASSUME Inv, ~late, NEW t \in InGap, NEW u \in InGap \ {t}
               PROVE  Own(t) \cap Own(u) = {}
    BY DEF IslandsApart
  <2>1. PageInv /\ ApartInv
    BY DEF Inv, IslandInv, ElfInv
  <2>2. /\ t \in Hook /\ Owner(t) /\ Area(t) = Own(t)
        /\ u \in Hook /\ Owner(u) /\ Area(u) = Own(u) /\ u # t
    BY <2>1, GapOwners
  <2> QED
    BY <2>1, <2>2 DEF ApartInv
<1> QED
  BY <1>1, Invariance, PTL

\* The slots that are out and the units in use are those of the hooks' islands and of the
\* calls that just give one back: no way through alloc, failure, unhook and dlclose loses
\* one or keeps one that nobody has.
THEOREM NothingLostHolds == IslandSpec => []NothingLost
<1>1. ASSUME PageInv, ElfInv, NEW o \in E!Listed, obj[o].lib # closing
      PROVE  obj[o].used = (UNION {Own(t) : t \in {u \in InGap : target[u].lib = obj[o].lib}})
                           \cup (UNION {E!Span(want[t].addr, want[t].size) :
                                          t \in {u \in Hook : epc[u] = "free" /\ self[u] = o}})
  <2> DEFINE l == obj[o].lib
             there == {u \in InGap : target[u].lib = l}
             freeing == {u \in Hook : epc[u] = "free" /\ self[u] = o}
  <2>1. obj[o].used = UNION {Area(t) : t \in Owners(l)}
    BY <1>1 DEF ElfInv, UsedInv
  <2>2. ASSUME NEW t \in there
        PROVE  t \in Owners(l) /\ Area(t) = Own(t)
    BY <1>1, GapOwners DEF Owners
  <2>3. ASSUME NEW t \in freeing
        PROVE  t \in Owners(l) /\ Area(t) = E!Span(want[t].addr, want[t].size)
    <3>1. t \in Hook /\ epc[t] = "free" /\ self[t] = o /\ stage[t] # "hooked" /\ want[t].size = target[t].size
      <4>1. t \in Hook /\ epc[t] = "free" /\ self[t] = o /\ Control(stage[t], pc[t], epc[t]) /\ HookInv(t)
        BY <1>1, HookFacts DEF ElfInv
      <4> QED
        BY <4>1 DEF HookInv, Control
    <3>2. target[t].lib = l
      BY <1>1, <3>1 DEF ElfInv, UseInv
    <3> QED
      BY <3>1, <3>2 DEF Owners, Owner, Area
  <2>4. ASSUME NEW t \in Owners(l)
        PROVE  t \in there \/ t \in freeing
    <3>1. t \in Hook /\ Owner(t) /\ target[t].lib = l
      BY DEF Owners
    <3>2. CASE stage[t] = "hooked" /\ isl[t].type = GAP
      BY <1>1, <3>1, <3>2, HookFacts DEF InGap, Fitting
    <3>3. CASE epc[t] = "free"
      <4>1. self[t] \in E!Listed /\ obj[self[t]].lib = l
        BY <1>1, <3>1, <3>3 DEF ElfInv, UseInv
      <4>2. self[t] = o
        BY <1>1, <4>1, ListFacts
      <4> QED
        BY <3>1, <3>3, <4>2
    <3> QED
      BY <3>1, <3>2, <3>3 DEF Owner
  <2> HIDE DEF l, there, freeing
  <2>5. UNION {Area(t) : t \in Owners(l)} =
          (UNION {Own(t) : t \in there}) \cup (UNION {E!Span(want[t].addr, want[t].size) : t \in freeing})
    BY <2>2, <2>3, <2>4
  <2> QED
    BY <2>1, <2>5 DEF l, there, freeing
<1>2. Inv => NothingLost
  <2> SUFFICES ASSUME Inv
               PROVE  NothingLost
    OBVIOUS
  <2>1. PageInv /\ (late \/ ElfInv)
    BY DEF Inv, IslandInv
  <2>2. out = {isl[t].addr : t \in InPage}
    BY <2>1 DEF PageInv
  <2> QED
    BY <1>1, <2>1, <2>2 DEF NothingLost
<1> QED
  BY <1>2, Invariance, PTL

\* No byte of an island in a gap is in a segment of any ELF in memory, unless in a symbol
\* of its own ELF that nothing needs any more.
THEOREM GapsHarmlessHolds == IslandSpec => []GapsHarmless
<1>1. ASSUME PageInv, ElfInv, NEW t \in InGap, NEW a \in Own(t), NEW b \in a .. a + Unit - 1
      PROVE  /\ b \in E!Pages(target[t].lib)
             /\ \A l \in loaded : E!InElf(b, l) =>
                  \E i \in DOMAIN Symbols[l] :
                    Symbols[l][i][1] <= b /\ b < Symbols[l][i][1] + Symbols[l][i][2]
  <2> DEFINE k == target[t].lib
  <2>1. k \in loaded /\ k \in Lib /\ t \in Hook /\ Owner(t) /\ a \in Area(t)
    BY <1>1, GapOwners, OwnerFacts
  <2>2. PICK o \in E!Listed : obj[o].lib = k /\ Area(t) \subseteq E!Units(obj[o].gaps)
    BY <1>1, <2>1, OwnerFacts
  <2>3. obj[o].gaps \in SUBSET AllGaps(k) /\ a \in E!Units(obj[o].gaps)
    BY <1>1, <2>1, <2>2 DEF ElfInv, ListInv
  <2> HIDE DEF k
  <2>4. b \in E!Pages(k) /\ (E!InElf(b, k) => \E i \in DOMAIN Symbols[k] : b \in E!BytesOfSymbol(k, i))
    BY <2>1, <2>3, UnitBytes
  <2>5. ASSUME NEW l \in loaded, E!InElf(b, l)
        PROVE  \E i \in DOMAIN Symbols[l] :
                 Symbols[l][i][1] <= b /\ b < Symbols[l][i][1] + Symbols[l][i][2]
    <3>1. l \in Lib /\ b \in E!Pages(l)
      BY <1>1, <2>5, ListFacts, InPages
    <3>2. l = k
      BY <1>1, <2>1, <2>4, <3>1, OneElf DEF ElfInv
    <3>3. PICK i \in DOMAIN Symbols[l] : b \in E!BytesOfSymbol(l, i)
      BY <2>4, <2>5, <3>2
    <3>4. Symbols[l][i][1] \in Nat /\ Symbols[l][i][2] \in Nat
      <4>1. Symbols[l] \in Seq(Nat \X Nat)
        BY <3>1, IslandAssumption DEF E!ElfConstants
      <4>2. Symbols[l][i] \in Nat \X Nat
        BY <4>1, ElementOfSeq, LenProperties
      <4> QED
        BY <4>2
    <3>5. b \in Symbols[l][i][1] .. Symbols[l][i][1] + Symbols[l][i][2] - 1
      BY <3>3 DEF E!BytesOfSymbol
    <3>6. Symbols[l][i][1] <= b /\ b < Symbols[l][i][1] + Symbols[l][i][2]
      BY <3>4, <3>5
    <3> QED
      BY <3>6
  <2> QED
    BY <2>4, <2>5 DEF k
<1>2. Inv => GapsHarmless
  BY <1>1 DEF Inv, IslandInv, GapsHarmless
<1> QED
  BY <1>2, Invariance, PTL

\* An island in a gap is new only when it was taken from the gaps.
LEMMA GapIslands ==
  ASSUME TrampoInv, PageInv, [IslandNext]_allVars, NEW t \in Hook, t \in InGap', t \notin InGap
  PROVE  GetGap(t)
<1>1. isl'[t].addr # 0 /\ isl'[t].type = GAP /\ isl'[t] # isl[t] /\ isl'[t] # NoIsland
  BY DEF InGap, NoIsland
<1>2. isl \in [Hook -> Island]
  BY DEF PageInv, PageTypes
<1>3. ASSUME NEW u \in Hook, NEW x, isl' = [isl EXCEPT ![u] = x]
      PROVE  u = t /\ x = isl'[t]
  BY <1>1, <1>2, <1>3
<1>4. isl' # isl
  BY <1>1
<1>5. CASE UNCHANGED allVars \/ IslandTick
  BY <1>4, <1>5 DEF allVars, IslandTick, ivars
<1>6. ASSUME NEW l \in Lib, Load(l) \/ Close(l)
      PROVE  FALSE
  BY <1>4, <1>6 DEF Load, Close, ivars
<1>7. CASE Clean \/ CleanEnds \/ CloseEnds
  BY <1>4, <1>7 DEF Clean, CleanEnds, CloseEnds, ivars
<1>8. ASSUME NEW u \in Hook,
             (\E g \in Target : Resolve(u, g)) \/ Alloc(u) \/ TryGaps(u) \/ SearchGaps(u)
      PROVE  FALSE
  BY <1>4, <1>8 DEF Resolve, Alloc, TryGaps, SearchGaps, ivars
<1>9. ASSUME NEW u \in Hook, AllocEndsInVain(u) \/ FreeIsland(u) \/ FreeEnds(u) \/ CloseSwitch(u)
      PROVE  FALSE
  <2>1. isl' = [isl EXCEPT ![u] = NoIsland]
    BY <1>9 DEF AllocEndsInVain, FreeIsland, FreeEnds, CloseSwitch, Gone
  <2> QED
    BY <1>1, <1>3, <2>1
<1>10. ASSUME NEW u \in Hook, GetPage(u)
       PROVE  FALSE
  <2>1. UNCHANGED isl \/ \E a : isl' = [isl EXCEPT ![u] = [type |-> ANON, addr |-> a]]
    BY <1>10 DEF GetPage, Got
  <2>2. PICK a : isl' = [isl EXCEPT ![u] = [type |-> ANON, addr |-> a]]
    BY <1>4, <2>1
  <2>3. isl'[t] = [type |-> ANON, addr |-> a]
    BY <1>3, <2>2
  <2> QED
    BY <1>1, <2>3 DEF ANON, GAP
<1>11. ASSUME NEW u \in Hook, GetGap(u)
       PROVE  u = t
  <2>1. PICK a : isl' = [isl EXCEPT ![u] = [type |-> GAP, addr |-> a]]
    BY <1>11 DEF GetGap, Got
  <2> QED
    BY <1>3, <2>1
<1> QED
  BY <1>5, <1>6, <1>7, <1>8, <1>9, <1>10, <1>11 DEF IslandNext

\* A unit given back is not taken again before the delay is over, whatever the freeing
\* thread does between reading the clock and taking the object's lock: a thread that may
\* still be in the island has left it.
THEOREM GapGraceHolds == IslandSpec => GapGrace
<1>1. ASSUME Inv, [IslandNext]_allVars, ~late', NEW t \in InGap' \ InGap, NEW u \in Own(t)', rest[u] > 0
      PROVE  now - rest[u] > Delay
  <2> DEFINE o == self[t]
  <2>1. TrampoInv /\ PageInv /\ ElfInv
    BY <1>1, LateStays DEF Inv, IslandInv
  <2>2. t \in Hook
    BY DEF InGap
  <2>3. GetGap(t)
    BY <1>1, <2>1, <2>2, GapIslands
  <2>4. PICK a \in E!Address : (E!AllocInGaps(t, a) \/ E!AllocInSymbols(t, a)) /\ Got(t, GAP, a)
    BY <2>1, <2>3 DEF GetGap, PageInv, PageTypes
  <2>5. stage[t] = "gap" /\ UNCHANGED target /\ isl' = [isl EXCEPT ![t] = [type |-> GAP, addr |-> a]]
    BY <2>3, <2>4 DEF GetGap, Got
  <2>6. Own(t)' = E!Span(a, target[t].size)
    BY <2>1, <2>2, <2>5 DEF Own, PageInv, PageTypes
  <2>7. epc[t] = "alloc"
    BY <2>1, <2>2, <2>4, <2>5, Taken
  <2>8. PICK r \in Object, S \in SUBSET Int :
          /\ S = E!Span(a, target[t].size) /\ r.gaps \subseteq AllGaps(target[t].lib)
          /\ S \subseteq E!Units(r.gaps)
          /\ \A x \in S : x \notin obj[o].used /\ E!Rested(o, x)
    BY <2>1, <2>2, <2>4, <2>5, Taken, ZenonT(60)
  <2>9. o \in E!Listed /\ obj[o].lib = target[t].lib /\ obj[o].lib \in Lib /\ obj[o] \in Object
        /\ DOMAIN obj[o].time = E!Address
    BY <2>1, <2>2, <2>5, <2>7, AtObject DEF ElfInv, ElfTypes
  <2>10. u \in S /\ u \in Int
    BY <2>6, <2>8
  <2>11. u \in E!Address \cap E!Pages(obj[o].lib)
    <3>1. r.gaps \in SUBSET AllGaps(obj[o].lib) /\ u \in E!Units(r.gaps) /\ Unit \in Nat \ {0}
      BY <2>8, <2>9, <2>10, Layout
    <3>2. u \in u .. u + Unit - 1
      BY <2>10, <3>1
    <3> QED
      BY <2>9, <3>1, <3>2, UnitBytes
  <2>12. rest[u] <= obj[o].time[u] /\ now - obj[o].time[u] > Delay
    <3>1. u \notin obj[o].used /\ E!Rested(o, u)
      BY <2>8, <2>10
    <3> QED
      BY <2>1, <2>9, <2>11, <3>1 DEF ElfInv, RestInv, E!Rested
  <2>13. now \in Nat /\ Delay \in Nat /\ rest[u] \in Nat /\ obj[o].time[u] \in Nat
    <3>1. rest \in [E!Address -> Nat] /\ now \in Nat /\ Delay \in Nat
      BY <2>1, IslandAssumption DEF ElfInv, ElfTypes, TrampoInv, TrampoTypeOK, E!ElfConstants
    <3>2. obj[o].time \in [E!Address -> Nat] \cup {<<>>}
      BY <2>9 DEF Object
    <3>3. obj[o].time[u] \in Nat
      BY <2>9, <2>11, <3>2
    <3> QED
      BY <2>11, <3>1, <3>3
  <2> HIDE DEF o
  <2> QED
    BY <2>12, <2>13
<1>2. Inv /\ [IslandNext]_allVars =>
        [~late' => \A t \in InGap' \ InGap : \A u \in Own(t)' : rest[u] > 0 => now - rest[u] > Delay]_allVars
  BY <1>1
<1> QED
  BY <1>2, Invariance, PTL DEF IslandSpec, GapGrace
=============================================================================
