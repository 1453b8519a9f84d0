-------------------------- MODULE ShTrampoProofs ---------------------------
(***************************************************************************)
(* The safety of ShTrampo for any threads, pages, slot sizes, ranges,      *)
(* delay and clock: TrampoInv is inductive, and what the flags remember    *)
(* makes every slot rest before it is handed out again.                    *)
(***************************************************************************)
EXTENDS ShTrampo, TLAPS

LEMMA SlotsInSlot ==
  ASSUME NEW b \in Base
  PROVE  SlotsOf(b) \subseteq Slot
BY DEF Slot

LEMMA PagesInBase ==
  ASSUME TrampoTypeOK
  PROVE  Pages \subseteq Base
BY DEF TrampoTypeOK, Pages

\* A new page goes to the head of the list.
LEMMA PagesGrow ==
  ASSUME TrampoTypeOK, NEW b \in Base, pages' = <<b>> \o pages
  PROVE  pages' \in Seq(Base) /\ Pages' = Pages \cup {b}
<1>1. /\ pages \in Seq(Base) /\ Len(pages) \in Nat
      /\ DOMAIN pages = 1 .. Len(pages)
  BY DEF TrampoTypeOK
<1>2. /\ pages' \in Seq(Base) /\ DOMAIN pages' = 1 .. (Len(pages) + 1)
      /\ pages'[1] = b
      /\ \A i \in 1 .. Len(pages) : pages'[i + 1] = pages[i]
  BY <1>1
<1>3. Pages' \subseteq Pages \cup {b}
  <2> SUFFICES ASSUME NEW i \in 1 .. (Len(pages) + 1)
               PROVE  pages'[i] \in Pages \cup {b}
    BY <1>2 DEF Pages
  <2>1. CASE i = 1
    BY <1>2, <2>1
  <2>2. CASE i # 1
    <3>1. i - 1 \in 1 .. Len(pages) /\ pages'[(i - 1) + 1] = pages[i - 1]
      BY <1>1, <1>2, <2>2
    <3> QED
      BY <1>1, <3>1 DEF Pages
  <2> QED
    BY <2>1, <2>2
<1>4. \A i \in 1 .. Len(pages) : i + 1 \in 1 .. (Len(pages) + 1)
  BY <1>1
<1>5. 1 \in 1 .. (Len(pages) + 1)
  BY <1>1
<1>6. Pages \subseteq Pages'
  BY <1>1, <1>2, <1>4 DEF Pages
<1>7. b \in Pages'
  BY <1>2, <1>5 DEF Pages
<1> QED
  BY <1>2, <1>3, <1>6, <1>7

LEMMA SamePages ==
  ASSUME UNCHANGED pages
  PROVE  Pages' = Pages
BY DEF Pages

\* What Enter and Return do to the thread, and to nobody else.
LEMMA Moved ==
  ASSUME TrampoTypeOK, NEW t \in Thread,
         \/ Return(t)
         \/ /\ Enter(t, "alloc") /\ UNCHANGED slot
            /\ \E r \in Ranges : req' = [req EXCEPT ![t] = r]
         \/ /\ Enter(t, "free") /\ UNCHANGED req
            /\ \E a \in Slot : slot' = [slot EXCEPT ![t] = a]
  PROVE  /\ pc' \in [Thread -> {"idle", "alloc", "free", "abort"}]
         /\ at' \in [Thread -> Nat]
         /\ req' \in [Thread -> Ranges \cup {Anywhere}]
         /\ slot' \in [Thread -> Slot \cup {0}]
         /\ \A u \in Thread \ {t} : pc'[u] = pc[u] /\ at'[u] = at[u] /\ slot'[u] = slot[u]
<1> USE DEF TrampoTypeOK
<1>1. CASE Return(t)
  BY <1>1 DEF Return
<1>2. CASE /\ Enter(t, "alloc") /\ UNCHANGED slot
           /\ \E r \in Ranges : req' = [req EXCEPT ![t] = r]
  BY <1>2 DEF Enter
<1>3. CASE /\ Enter(t, "free") /\ UNCHANGED req
           /\ \E a \in Slot : slot' = [slot EXCEPT ![t] = a]
  BY <1>3 DEF Enter
<1> QED
  BY <1>1, <1>2, <1>3

\* A call that returns, or that asks for a slot, gives nothing back.
LEMMA SameFreeing ==
  ASSUME TrampoTypeOK, NEW t \in Thread, pc[t] # "free",
         \/ Return(t)
         \/ /\ Enter(t, "alloc") /\ UNCHANGED slot
            /\ \E r \in Ranges : req' = [req EXCEPT ![t] = r]
  PROVE  /\ Freeing' = Freeing /\ t \notin Freeing
         /\ \A u \in Freeing : slot'[u] = slot[u] /\ at'[u] = at[u]
<1>1. pc'[t] \in {"idle", "alloc"}
  BY DEF TrampoTypeOK, Return, Enter
<1> QED
  BY <1>1, Moved DEF Freeing

\* Handing out a slot that is neither owned nor on its way back.
LEMMA Take ==
  ASSUME TrampoInv, NEW t \in Thread, pc[t] = "alloc",
         NEW a \in Slot \ used,
         used' = used \cup {a}, out' = out \cup {a},
         Return(t), UNCHANGED <<ts, now, released>>,
         pages' \in Seq(Base), Pages \subseteq Pages',
         a \in UNION {SlotsOf(b) : b \in Pages'}
  PROVE  TrampoInv'
<1>1. /\ Freeing' = Freeing /\ Freeing \subseteq Thread
      /\ \A u \in Freeing : slot'[u] = slot[u] /\ at'[u] = at[u]
  BY SameFreeing DEF TrampoInv, Freeing
<1>2. TrampoTypeOK'
  <2>1. used' \subseteq UNION {SlotsOf(b) : b \in Pages'}
    BY DEF TrampoInv, TrampoTypeOK
  <2>2. UNCHANGED <<ts, now, released>> /\ out' \subseteq Slot
    BY DEF TrampoInv, TrampoTypeOK
  <2> QED
    BY <2>1, <2>2, Moved DEF TrampoInv, TrampoTypeOK
<1>3. OneOwner'
  BY <1>1 DEF TrampoInv, OneOwner
<1>4. Remembered'
  <2>1. \A u \in Thread : at'[u] <= now'
    BY DEF TrampoInv, TrampoTypeOK, Remembered, Return
  <2>2. \A u \in Freeing' : released'[slot'[u]] = at'[u]
    BY <1>1 DEF TrampoInv, Remembered
  <2> QED
    BY <2>1, <2>2 DEF TrampoInv, Remembered
<1> QED
  BY <1>2, <1>3, <1>4 DEF TrampoInv

\* A slot of a page that is not in the list was never used.
LEMMA NewIsUnused ==
  ASSUME TrampoInv, NEW b \in Base \ Pages, NEW a \in SlotsOf(b)
  PROVE  a \in Slot \ used /\ released[a] = 0
<1>1. \A c \in Pages : a \notin SlotsOf(c)
  BY PagesInBase, TrampoAssumption DEF TrampoInv
<1> QED
  BY <1>1, SlotsInSlot DEF TrampoInv, TrampoTypeOK, Remembered

\* The slot NewPage hands out, and the page it adds.
LEMMA NewPageFacts ==
  ASSUME TrampoInv, NEW t \in Thread, NewPage(t)
  PROVE  \E b \in Base \ Pages :
           /\ pages' = <<b>> \o pages
           /\ \/ /\ pc' = [pc EXCEPT ![t] = "abort"]
                 /\ UNCHANGED <<used, out, at, req, slot>>
              \/ \E a \in SlotsOf(b) :
                   used' = used \cup {a} /\ out' = out \cup {a} /\ Return(t)
<1>1. PICK b \in Base \ Pages :
        /\ pages' = <<b>> \o pages
        /\ IF Fresh(req[t], b) # {}
           THEN /\ Return(t)
                /\ \E a \in Fresh(req[t], b) : used' = used \cup {a} /\ out' = out \cup {a}
           ELSE /\ pc' = [pc EXCEPT ![t] = "abort"]
                /\ UNCHANGED <<used, out, at, req, slot>>
  BY DEF NewPage
<1>2. Fresh(req[t], b) \subseteq SlotsOf(b)
  BY DEF Fresh
<1> QED
  BY <1>1, <1>2

LEMMA FitsFacts ==
  ASSUME TrampoInv, NEW t \in Thread, NEW a \in Fits(t)
  PROVE  /\ a \in Slot \ used /\ Rested(a, at[t])
         /\ a \in UNION {SlotsOf(b) : b \in Pages}
<1>1. PICK b \in Pages : a \in SlotsOf(b) /\ a \notin used /\ Rested(a, at[t])
  BY DEF Fits
<1>2. a \in Slot
  BY <1>1, PagesInBase, SlotsInSlot DEF TrampoInv
<1> QED
  BY <1>1, <1>2

LEMMA CallFreeStep ==
  ASSUME TrampoInv, NEW t \in Thread, NEW a \in Slot, CallFree(t, a)
  PROVE  TrampoInv'
<1> USE DEF TrampoInv
<1>1. /\ slot' = [slot EXCEPT ![t] = a] /\ a \in out
      /\ out' = out \ {a} /\ released' = [released EXCEPT ![a] = now]
      /\ UNCHANGED <<pages, used, ts, now, req>>
      /\ pc[t] = "idle" /\ Enter(t, "free")
  BY DEF CallFree, Enter
<1>2. pc'[t] = "free" /\ at'[t] = now /\ slot'[t] = a
  BY <1>1 DEF TrampoTypeOK, Enter
<1>3. \A u \in Thread \ {t} : pc'[u] = pc[u] /\ at'[u] = at[u] /\ slot'[u] = slot[u]
  BY <1>1, Moved
<1>4. Freeing' = Freeing \cup {t} /\ t \notin Freeing
  BY <1>1, <1>2, <1>3 DEF Freeing
<1>5. TrampoTypeOK'
  <2>1. UNCHANGED <<pages, used, ts, now>> /\ Pages' = Pages
    BY <1>1, SamePages
  <2>2. out' \subseteq Slot /\ released' \in [Slot -> Nat]
    BY <1>1 DEF TrampoTypeOK
  <2> QED
    BY <1>1, <2>1, <2>2, Moved DEF TrampoTypeOK
<1>6. OneOwner'
  <2>1. \A u \in Freeing : slot[u] \in Slot \ out /\ slot'[u] = slot[u] /\ u # t
    BY <1>3, <1>4 DEF OneOwner, Freeing
  <2>2. used' = out' \cup {slot'[u] : u \in Freeing'}
    BY <1>1, <1>2, <1>4, <2>1 DEF OneOwner
  <2>3. \A u \in Freeing' : slot'[u] \in Slot \ out'
    BY <1>1, <1>2, <1>4, <2>1
  <2>4. \A u \in Freeing' : \A v \in Freeing' \ {u} : slot'[u] # slot'[v]
    BY <1>1, <1>2, <1>4, <2>1 DEF OneOwner
  <2> QED
    BY <2>2, <2>3, <2>4 DEF OneOwner
<1>7. Remembered'
  <2>1. a \in used /\ Pages' = Pages /\ UNCHANGED <<used, ts, now>>
    BY <1>1, SamePages DEF OneOwner
  <2>2. \A u \in Thread : at'[u] <= now'
    <3>1. now' = now /\ now \in Nat /\ at'[t] <= now'
      BY <1>1, <1>2, <1>3 DEF TrampoTypeOK
    <3>2. \A u \in Thread \ {t} : at'[u] = at[u] /\ at[u] <= now
      BY <1>1, <1>2, <1>3 DEF Remembered
    <3> QED
      BY <3>1, <3>2
  <2>3. \A u \in Freeing' : released'[slot'[u]] = at'[u]
    <3>1. released'[a] = now
      BY <1>1 DEF TrampoTypeOK
    <3>2. \A u \in Freeing : slot[u] # a /\ released'[slot[u]] = released[slot[u]]
      BY <1>1 DEF OneOwner, TrampoTypeOK
    <3> QED
      BY <1>2, <1>3, <1>4, <3>1, <3>2 DEF Remembered, Freeing
  <2>4. \A s \in Slot \ used' : ts'[s] = released'[s]
    BY <1>1, <2>1 DEF Remembered, TrampoTypeOK
  <2>5. \A b \in Base \ Pages' : \A s \in SlotsOf(b) : released'[s] = 0
    <3> SUFFICES ASSUME NEW b \in Base \ Pages, NEW s \in SlotsOf(b)
                 PROVE  released'[s] = 0
      BY <2>1
    <3>1. s # a /\ s \in Slot /\ released[s] = 0
      BY <2>1, NewIsUnused
    <3> QED
      BY <1>1, <3>1 DEF TrampoTypeOK
  <2> QED
    BY <2>2, <2>3, <2>4, <2>5 DEF Remembered
<1> QED
  BY <1>5, <1>6, <1>7

LEMMA FreeStep ==
  ASSUME TrampoInv, NEW t \in Thread, Free(t)
  PROVE  TrampoInv'
<1> USE DEF TrampoInv
<1> DEFINE a == slot[t]
<1>1. /\ t \in Freeing /\ a \in Slot \ out /\ released[a] = at[t]
      /\ used' = used \ {a} /\ ts' = [ts EXCEPT ![a] = at[t]]
      /\ Return(t) /\ UNCHANGED <<pages, now, out, released>>
  BY DEF Free, Freeing, OneOwner, Remembered
<1>2. /\ pc'[t] = "idle" /\ at'[t] = 0
      /\ \A u \in Thread \ {t} : pc'[u] = pc[u] /\ at'[u] = at[u] /\ slot'[u] = slot[u]
  BY <1>1, Moved DEF Return, TrampoTypeOK
<1>3. /\ Freeing' = Freeing \ {t}
      /\ \A u \in Freeing' : u \in Thread /\ slot'[u] = slot[u] /\ at'[u] = at[u] /\ slot[u] # a
  BY <1>1, <1>2 DEF Freeing, OneOwner
<1> HIDE DEF a
<1>4. Pages' = Pages
  BY <1>1, SamePages
<1>5. TrampoTypeOK'
  <2>1. ts' \in [Slot -> Nat] /\ used' \subseteq UNION {SlotsOf(b) : b \in Pages'}
    BY <1>1, <1>4 DEF TrampoTypeOK, Freeing
  <2> QED
    BY <1>1, <2>1, Moved DEF TrampoTypeOK
<1>6. OneOwner'
  <2>1. used = out \cup {slot[u] : u \in Freeing} /\ slot[t] = a
    BY DEF OneOwner, a
  <2>2. used' = out' \cup {slot'[u] : u \in Freeing'}
    BY <1>1, <1>3, <2>1
  <2>3. \A u \in Freeing' : slot'[u] \in Slot \ out'
    BY <1>1, <1>3 DEF OneOwner
  <2>4. \A u \in Freeing' : \A v \in Freeing' \ {u} : slot'[u] # slot'[v]
    BY <1>1, <1>3 DEF OneOwner
  <2> QED
    BY <2>2, <2>3, <2>4 DEF OneOwner
<1>7. Remembered'
  <2>1. \A u \in Thread : at'[u] <= now'
    <3>1. now' = now /\ now \in Nat /\ at'[t] <= now'
      BY <1>1, <1>2 DEF TrampoTypeOK
    <3>2. \A u \in Thread \ {t} : at'[u] = at[u] /\ at[u] <= now
      BY <1>1, <1>2 DEF Remembered
    <3> QED
      BY <3>1, <3>2
  <2>2. \A u \in Freeing' : released'[slot'[u]] = at'[u]
    BY <1>1, <1>3 DEF Remembered
  <2>3. \A s \in Slot \ used' : ts'[s] = released'[s]
    BY <1>1 DEF Remembered, TrampoTypeOK
  <2> QED
    BY <1>1, <1>4, <2>1, <2>2, <2>3 DEF Remembered
<1> QED
  BY <1>5, <1>6, <1>7

LEMMA NewPageStep ==
  ASSUME TrampoInv, NEW t \in Thread, NewPage(t)
  PROVE  TrampoInv'
<1>1. pc[t] = "alloc" /\ UNCHANGED <<ts, now, released>>
  BY DEF NewPage
<1>2. PICK b \in Base \ Pages :
        /\ pages' = <<b>> \o pages
        /\ \/ pc' = [pc EXCEPT ![t] = "abort"] /\ UNCHANGED <<used, out, at, req, slot>>
           \/ \E a \in SlotsOf(b) : used' = used \cup {a} /\ out' = out \cup {a} /\ Return(t)
  BY NewPageFacts
<1>3. pages' \in Seq(Base) /\ Pages' = Pages \cup {b}
  BY <1>2, PagesGrow DEF TrampoInv
<1>4. CASE pc' = [pc EXCEPT ![t] = "abort"] /\ UNCHANGED <<used, out, at, req, slot>>
  <2>1. Freeing' = Freeing
    BY <1>1, <1>4 DEF Freeing, TrampoInv, TrampoTypeOK
  <2>2. TrampoTypeOK'
    BY <1>1, <1>3, <1>4 DEF TrampoInv, TrampoTypeOK
  <2>3. OneOwner'
    BY <1>4, <2>1 DEF TrampoInv, OneOwner
  <2>4. Remembered'
    BY <1>1, <1>3, <1>4, <2>1 DEF TrampoInv, Remembered
  <2> QED
    BY <2>2, <2>3, <2>4 DEF TrampoInv
<1>5. ASSUME NEW a \in SlotsOf(b), used' = used \cup {a}, out' = out \cup {a}, Return(t)
      PROVE  TrampoInv'
  <2>1. a \in Slot \ used
    BY NewIsUnused
  <2>2. a \in UNION {SlotsOf(c) : c \in Pages'}
    BY <1>3
  <2> QED
    BY <1>1, <1>3, <1>5, <2>1, <2>2, Take
<1> QED
  BY <1>2, <1>4, <1>5

\* Steps that change neither the slots nor who gives one back.
LEMMA QuietStep ==
  ASSUME TrampoInv, NEW t \in Thread, pc[t] # "free",
         UNCHANGED <<pages, used, ts, now, out, released>>,
         \/ Return(t)
         \/ /\ Enter(t, "alloc") /\ UNCHANGED slot
            /\ \E r \in Ranges : req' = [req EXCEPT ![t] = r]
  PROVE  TrampoInv'
<1>1. /\ Freeing' = Freeing /\ Freeing \subseteq Thread
      /\ \A u \in Freeing : slot'[u] = slot[u] /\ at'[u] = at[u]
  BY SameFreeing DEF TrampoInv, Freeing
<1>2. Pages' = Pages
  BY SamePages
<1>3. TrampoTypeOK'
  BY <1>2, Moved DEF TrampoInv, TrampoTypeOK
<1>4. OneOwner'
  BY <1>1 DEF TrampoInv, OneOwner
<1>5. Remembered'
  <2>1. at'[t] <= now'
    BY DEF TrampoInv, TrampoTypeOK, Return, Enter
  <2>2. \A u \in Thread : at'[u] <= now'
    BY <2>1, Moved DEF TrampoInv, Remembered
  <2> QED
    BY <1>1, <1>2, <2>2 DEF TrampoInv, Remembered
<1> QED
  BY <1>3, <1>4, <1>5 DEF TrampoInv

\* TrampoInv is inductive.
LEMMA InvInit ==
  ASSUME Init
  PROVE  TrampoInv
<1>1. Freeing = {} /\ Pages = {}
  BY DEF Init, Freeing, Pages
<1>2. TrampoTypeOK
  BY <1>1, TrampoAssumption DEF Init, TrampoTypeOK
<1>3. OneOwner
  BY <1>1 DEF Init, OneOwner
<1>4. Remembered
  BY <1>1, TrampoAssumption, SlotsInSlot DEF Init, Remembered
<1> QED
  BY <1>2, <1>3, <1>4 DEF TrampoInv

LEMMA InvStep ==
  ASSUME TrampoInv, [Next]_vars
  PROVE  TrampoInv'
<1>1. CASE UNCHANGED vars \/ Tick
  <2>1. /\ UNCHANGED <<pages, used, ts, pc, at, req, slot, out, released>>
        /\ now \in Nat \ {0} /\ now' \in Nat \ {0} /\ now <= now'
    BY <1>1 DEF vars, Tick, TrampoInv, TrampoTypeOK
  <2>2. Freeing' = Freeing /\ Pages' = Pages
    BY <2>1 DEF Freeing, Pages
  <2>3. TrampoTypeOK'
    BY <2>1, <2>2 DEF TrampoInv, TrampoTypeOK
  <2>4. OneOwner'
    BY <2>1, <2>2 DEF TrampoInv, OneOwner
  <2>5. Remembered'
    <3>1. \A t \in Thread : at'[t] <= now'
      BY <2>1 DEF TrampoInv, Remembered, TrampoTypeOK
    <3> QED
      BY <2>1, <2>2, <3>1 DEF TrampoInv, Remembered
  <2> QED
    BY <2>3, <2>4, <2>5 DEF TrampoInv
<1>2. ASSUME NEW t \in Thread, NEW r \in Ranges, CallAlloc(t, r) PROVE TrampoInv'
  <2>1. pc[t] # "free"
    BY <1>2 DEF CallAlloc, Enter
  <2> QED
    BY <1>2, <2>1, QuietStep DEF CallAlloc
<1>3. ASSUME NEW t \in Thread, Reuse(t) PROVE TrampoInv'
  <2>1. PICK a \in Fits(t) : used' = used \cup {a} /\ out' = out \cup {a}
    BY <1>3 DEF Reuse
  <2>2. pc[t] = "alloc" /\ Return(t) /\ UNCHANGED <<pages, ts, now, released>>
    BY <1>3 DEF Reuse
  <2>3. pages' \in Seq(Base) /\ Pages' = Pages
    BY <2>2, SamePages DEF TrampoInv, TrampoTypeOK
  <2>4. a \in Slot \ used /\ a \in UNION {SlotsOf(b) : b \in Pages'}
    BY <2>3, FitsFacts
  <2> QED
    BY <2>1, <2>2, <2>3, <2>4, Take
<1>4. ASSUME NEW t \in Thread, NewPage(t) PROVE TrampoInv'
  BY <1>4, NewPageStep
<1>5. ASSUME NEW t \in Thread, AllocFails(t) PROVE TrampoInv'
  BY <1>5, QuietStep DEF AllocFails
<1>6. ASSUME NEW t \in Thread, NEW a \in Slot, CallFree(t, a) PROVE TrampoInv'
  BY <1>6, CallFreeStep
<1>7. ASSUME NEW t \in Thread, Free(t) PROVE TrampoInv'
  BY <1>7, FreeStep
<1> QED
  BY <1>1, <1>2, <1>3, <1>4, <1>5, <1>6, <1>7 DEF Next

\* Every reachable state of the allocator satisfies the invariant; so a used slot lies in
\* a page of the list and has one owner (sh_trampo_alloc_between, sh_trampo_free).
THEOREM TrampoSafe == Spec => [](TrampoTypeOK /\ OneOwner)
<1>1. TrampoInv => TrampoTypeOK /\ OneOwner
  BY DEF TrampoInv
<1> QED
  BY InvInit, InvStep, <1>1, PTL DEF Spec

\* A slot handed out was free, and rested as long as the flag says.
LEMMA GraceStep ==
  ASSUME TrampoInv, [Next]_vars, NEW a \in out' \ out, released[a] > 0
  PROVE  now - released[a] > Delay
<1>1. CASE UNCHANGED vars \/ Tick
  BY <1>1 DEF vars, Tick
<1>2. ASSUME NEW t \in Thread, Reuse(t) PROVE now - released[a] > Delay
  <2>1. a \in Fits(t)
    BY <1>2 DEF Reuse
  <2>2. a \in Slot \ used /\ at[t] - ts[a] > Delay
    BY <2>1, FitsFacts DEF Rested
  <2>3. ts[a] = released[a] /\ at[t] <= now
    BY <2>2 DEF TrampoInv, Remembered
  <2>4. now \in Nat /\ at[t] \in Nat /\ ts[a] \in Nat /\ Delay \in Nat
    BY <2>2, TrampoAssumption DEF TrampoInv, TrampoTypeOK
  <2> QED
    BY <2>2, <2>3, <2>4
<1>3. ASSUME NEW t \in Thread, NewPage(t) PROVE FALSE
  <2>1. PICK b \in Base \ Pages : UNCHANGED out \/ \E s \in SlotsOf(b) : out' = out \cup {s}
    BY <1>3, NewPageFacts
  <2>2. a \in SlotsOf(b)
    BY <2>1
  <2> QED
    BY <2>2, NewIsUnused
<1>4. ASSUME NEW t \in Thread, NEW r \in Ranges, CallAlloc(t, r) PROVE FALSE
  BY <1>4 DEF CallAlloc
<1>5. ASSUME NEW t \in Thread, NEW s \in Slot, CallFree(t, s) PROVE FALSE
  BY <1>5 DEF CallFree
<1>6. ASSUME NEW t \in Thread, AllocFails(t) \/ Free(t) PROVE FALSE
  BY <1>6 DEF AllocFails, Free
<1> QED
  BY <1>1, <1>2, <1>3, <1>4, <1>5, <1>6 DEF Next

\* However late a thread takes the lock after it read the clock, a slot that was given
\* back rests for more than the delay before sh_trampo_alloc_between hands it out again.
THEOREM TrampoGrace == Spec => GraceBeforeReuse
<1>1. ASSUME TrampoInv, [Next]_vars
      PROVE  [\A a \in out' \ out : released[a] > 0 => now - released[a] > Delay]_vars
  BY <1>1, GraceStep
<1> QED
  BY InvInit, InvStep, <1>1, PTL DEF Spec, GraceBeforeReuse

\* An allocation of the pool: slots that nobody had, rested.
LEMMA PoolAlloc ==
  ASSUME TrampoInv, [Next]_vars, out \subseteq out', UNCHANGED <<released, now>>
  PROVE  \E S \in SUBSET Slot : Pool!Alloc(S)
<1>1. out' \subseteq Slot
  BY InvStep DEF TrampoInv, TrampoTypeOK
<1>2. \A a \in out' \ out : Pool!Rested(a)
  BY GraceStep DEF Pool!Rested
<1>3. out' \ out \subseteq Slot \ out /\ out' = out \cup (out' \ out)
  BY <1>1
<1>4. Pool!Alloc(out' \ out)
  BY <1>2, <1>3 DEF Pool!Alloc
<1> QED
  BY <1>1, <1>4

\* Every step of the allocator is a step of the pool, or invisible to its clients.
LEMMA PoolStep ==
  ASSUME TrampoInv, [Next]_vars
  PROVE  [Pool!Next]_(Pool!vars)
<1>1. CASE UNCHANGED vars
  BY <1>1 DEF vars, Pool!vars
<1>2. CASE Tick
  <2>1. now' \in Nat /\ now' > now
    BY <1>2 DEF Tick, TrampoInv, TrampoTypeOK
  <2> QED
    BY <1>2, <2>1 DEF Tick, Pool!Next, Pool!Tick
<1>3. ASSUME NEW t \in Thread, NEW r \in Ranges, CallAlloc(t, r) PROVE UNCHANGED Pool!vars
  <2>1. UNCHANGED <<out, released, now>>
    BY <1>3 DEF CallAlloc
  <2> QED
    BY <2>1 DEF Pool!vars
<1>4. ASSUME NEW t \in Thread, Reuse(t) PROVE Pool!Next
  <2>1. out \subseteq out' /\ UNCHANGED <<released, now>>
    BY <1>4 DEF Reuse
  <2> QED
    BY <2>1, PoolAlloc DEF Pool!Next
<1>5. ASSUME NEW t \in Thread, NewPage(t) PROVE Pool!Next
  <2>1. out \subseteq out' /\ UNCHANGED <<released, now>>
    BY <1>5 DEF NewPage
  <2> QED
    BY <2>1, PoolAlloc DEF Pool!Next
<1>6. ASSUME NEW t \in Thread, AllocFails(t) \/ Free(t) PROVE UNCHANGED Pool!vars
  <2>1. UNCHANGED <<out, released, now>>
    BY <1>6 DEF AllocFails, Free
  <2> QED
    BY <2>1 DEF Pool!vars
<1>7. ASSUME NEW t \in Thread, NEW a \in Slot, CallFree(t, a) PROVE Pool!Next
  <2>1. /\ {a} \in SUBSET Slot /\ {a} \subseteq out /\ out' = out \ {a}
        /\ released' = [c \in Slot |-> IF c \in {a} THEN now ELSE released[c]]
        /\ UNCHANGED now
    BY <1>7 DEF CallFree, TrampoInv, TrampoTypeOK
  <2>2. Pool!Free({a})
    BY <2>1 DEF Pool!Free
  <2> QED
    BY <2>1, <2>2 DEF Pool!Next
<1> QED
  BY <1>1, <1>2, <1>3, <1>4, <1>5, <1>6, <1>7 DEF Next

\* The page allocator implements the pool, for any threads, pages, slots, ranges, delay and
\* clock: its clients cannot tell that there are pages, flags and a lock.
THEOREM TrampoImplementsPool == Spec => KeepsPool
<1>1. Init => Pool!Init
  BY TrampoAssumption DEF Init, Pool!Init
<1>2. TrampoInv /\ [Next]_vars => [Pool!Next]_(Pool!vars)
  BY PoolStep
<1> QED
  BY InvInit, InvStep, <1>1, <1>2, PTL DEF Spec, KeepsPool, Pool!Spec

\* The arithmetic of slots.
LEMMA DivFloor ==
  ASSUME NEW d \in Nat, NEW s \in Nat \ {0}
  PROVE  \E q \in Nat : q * s <= d /\ d < q * s + s
<1>1. d \div s \in Nat
  BY Z3
<1>2. (d \div s) * s <= d /\ d < (d \div s) * s + s
  BY Z3
<1> QED
  BY <1>1, <1>2

LEMMA TimesSucc ==
  ASSUME NEW q \in Nat, NEW s \in Nat
  PROVE  q * s \in Nat /\ (q + 1) * s = q * s + s
BY Z3

LEMMA TimesMono ==
  ASSUME NEW q \in Nat, NEW k \in Nat, NEW s \in Nat, q >= k
  PROVE  q * s >= k * s
BY Z3

\* The test of a page in sh_trampo_alloc_between is exact: a page that passes it for a
\* range of at least one slot's size has a slot that starts in the range.
LEMMA PageTestExact ==
  ASSUME NEW b \in Base, NEW r \in Ranges, Sensible(r), PageInRange(b, r)
  PROVE  Fresh(r, b) # {}
<1>1. /\ b \in Nat /\ Size \in Nat \ {0} /\ Slots \in Nat \ {0} /\ Slots - 1 \in Nat
      /\ r[1] \in Nat /\ r[2] \in Nat
  BY TrampoAssumption
<1>2. \A i \in 0 .. Slots - 1 : b + i * Size \in SlotsOf(b)
  BY DEF SlotsOf
<1>3. b \in SlotsOf(b)
  <2>1. b + 0 * Size = b /\ 0 \in 0 .. Slots - 1
    BY <1>1
  <2> QED
    BY <1>2, <2>1
<1>4. CASE ~Between(r) \/ r[1] <= b
  BY <1>1, <1>3, <1>4 DEF Fresh, InRange, PageInRange
<1>5. CASE Between(r) /\ r[1] > b
  <2> DEFINE d == r[1] - b - 1
             last == (Slots - 1) * Size
  <2>1. last \in Nat
    BY <1>1, TimesSucc
  <2>2. d \in Nat /\ d < last /\ r[2] - r[1] >= Size
    BY <1>1, <1>5, <2>1 DEF PageInRange, Sensible
  <2>3. PICK q \in Nat : q * Size <= d /\ d < q * Size + Size
    BY <1>1, <2>2, DivFloor
  <2>4. q + 1 <= Slots - 1
    <3>1. q >= Slots - 1 => q * Size >= last
      BY <1>1, TimesMono
    <3>2. q * Size \in Nat
      BY <1>1, TimesSucc
    <3> QED
      BY <1>1, <2>1, <2>2, <2>3, <3>1, <3>2
  <2>5. q * Size \in Nat /\ (q + 1) * Size = q * Size + Size
    BY <1>1, TimesSucc
  <2>6. /\ r[1] <= b + (q + 1) * Size
        /\ b + (q + 1) * Size <= r[2]
    BY <1>1, <2>2, <2>3, <2>5
  <2>7. b + (q + 1) * Size \in SlotsOf(b)
    <3>1. q + 1 \in 0 .. Slots - 1
      BY <1>1, <2>4
    <3> HIDE DEF d, last
    <3> QED
      BY <1>2, <3>1
  <2> QED
    BY <2>6, <2>7 DEF Fresh, InRange
<1> QED
  BY <1>1, <1>4, <1>5

LEMMA AbortStep ==
  ASSUME TrampoInv, Asked, NoAbort, [Next]_vars
  PROVE  Asked' /\ NoAbort'
<1> USE DEF TrampoInv, TrampoTypeOK
<1>1. CASE UNCHANGED vars \/ Tick
  BY <1>1 DEF vars, Tick, Asked, NoAbort, Sensible, Between
<1>2. ASSUME NEW t \in Thread, NEW r \in Ranges, CallAlloc(t, r)
      PROVE  Asked' /\ NoAbort'
  BY <1>2 DEF CallAlloc, Enter, Asked, NoAbort, Sensible, Between
<1>3. ASSUME NEW t \in Thread, Return(t) PROVE Asked' /\ NoAbort'
  BY <1>3 DEF Return, Asked, NoAbort, Sensible, Between
<1>4. ASSUME NEW t \in Thread, NewPage(t) PROVE Return(t)
  <2>1. req[t] \in Ranges /\ Sensible(req[t])
    BY <1>4 DEF NewPage, Asked
  <2>2. \A b \in Base : PageInRange(b, req[t]) => Fresh(req[t], b) # {}
    BY <2>1, PageTestExact
  <2> QED
    BY <1>4, <2>2 DEF NewPage
<1>5. ASSUME NEW t \in Thread, NEW a \in Slot, CallFree(t, a) PROVE Asked' /\ NoAbort'
  BY <1>5 DEF CallFree, Enter, Asked, NoAbort, Sensible, Between
<1>6. ASSUME NEW t \in Thread, Reuse(t) \/ AllocFails(t) \/ Free(t) PROVE Return(t)
  BY <1>6 DEF Reuse, AllocFails, Free
<1> QED
  BY <1>1, <1>2, <1>3, <1>4, <1>5, <1>6 DEF Next

\* abort() in sh_trampo_alloc_between is never reached, whatever the page and slot sizes
\* and whatever ranges are asked for.
THEOREM TrampoNoAbort == Spec => []NoAbort
<1>1. Init => Asked /\ NoAbort
  BY DEF Init, Asked, NoAbort
<1>2. TrampoInv /\ Asked /\ NoAbort /\ [Next]_vars => TrampoInv' /\ Asked' /\ NoAbort'
  BY AbortStep, InvStep
<1> QED
  BY InvInit, <1>1, <1>2, PTL DEF Spec
=============================================================================
