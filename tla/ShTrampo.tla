------------------------------ MODULE ShTrampo ------------------------------
(***************************************************************************)
(* The allocator of executable memory (common/sh_trampo.c) behind hub      *)
(* trampolines, glue launchers, enter trampolines (sh_enter.c) and islands *)
(* (sh_island.c).  Pages from mmap are cut into slots of one size and are  *)
(* never given back.  A slot that was freed may still be executed for a    *)
(* while, so it is handed out again only when more than Delay seconds have *)
(* passed.  Both entry points read the clock before they take the lock.    *)
(***************************************************************************)
EXTENDS Integers, Sequences, FiniteSets

CONSTANTS
  Thread,
  Base,      \* the page addresses mmap may return
  Size,      \* mgr->trampo_size
  Slots,     \* slots in a page
  Ranges,    \* the ranges asked for, <<range_low, range_high>>
  Delay,     \* mgr->delay_sec
  MaxTime    \* bound on the clock

Anywhere == <<0, 0>>
SlotsOf(b) == {b + i * Size : i \in 0 .. Slots - 1}
Slot == UNION {SlotsOf(b) : b \in Base}

ASSUME TrampoAssumption ==
  /\ Base \subseteq Nat \ {0}
  /\ Size \in Nat \ {0} /\ Slots \in Nat \ {0}
  /\ \A b, c \in Base : b # c => SlotsOf(b) \cap SlotsOf(c) = {}
  /\ Ranges \subseteq Nat \X Nat
  /\ Delay \in Nat /\ MaxTime \in Nat

VARIABLES
  pages,     \* mgr->pages, the newest first
  used,      \* slots whose flag has bit 31 set
  ts,        \* the other 31 bits: when a slot was freed
  now,       \* sh_util_get_stable_timestamp(): starts beyond any delay (a day)
  pc,        \* of each thread: "idle", "alloc", "free", "abort"
  at,        \* its local `now`, 0 outside a call
  req,       \* the range it wants
  slot,      \* the slot it gives back
  out,       \* slots that clients own
  released   \* history: when the owner of a slot called sh_trampo_free last

vars == <<pages, used, ts, now, pc, at, req, slot, out, released>>

Init ==
  /\ pages = <<>> /\ used = {}
  /\ ts = [a \in Slot |-> 0]
  /\ now = Delay + 1
  /\ pc = [t \in Thread |-> "idle"]
  /\ at = [t \in Thread |-> 0]
  /\ req = [t \in Thread |-> Anywhere]
  /\ slot = [t \in Thread |-> 0]
  /\ out = {}
  /\ released = [a \in Slot |-> 0]

-----------------------------------------------------------------------------
Between(r) == r # Anywhere
InRange(a, r) == Between(r) => r[1] <= a /\ a <= r[2]

\* The checks before the lock; any other range gets 0.
Sensible(r) == r[1] <= r[2] /\ (Between(r) => r[2] - r[1] >= Size)

\* The test of a whole page looks at the start of its first and of its last slot.
PageInRange(b, r) == Between(r) => r[1] <= b + (Slots - 1) * Size /\ b <= r[2]

Rested_Wraps(a, time) == (time - ts[a]) % 2^16 > Delay  \* mutant: unsigned wrap for a clock read too early
Rested(a, time) == time > ts[a] /\ time - ts[a] > Delay

Pages == {pages[i] : i \in DOMAIN pages}
Fits(t) == {a \in UNION {SlotsOf(b) : b \in {p \in Pages : PageInRange(p, req[t])}} :
              InRange(a, req[t]) /\ a \notin used /\ Rested(a, at[t])}

\* The order of the search: page by page, slot by slot.
PageNo(a) == CHOOSE i \in DOMAIN pages : a \in SlotsOf(pages[i])
Ahead(a, b) == PageNo(a) < PageNo(b) \/ (PageNo(a) = PageNo(b) /\ a < b)

\* The slots of a new page that are in the range.
Fresh_Breaks(r, b) == {a \in {b} : InRange(a, r)}  \* mutant: the search ends at the first one that is not
Fresh(r, b) == {a \in SlotsOf(b) : InRange(a, r)}

Enter(t, there) == /\ pc[t] = "idle"
                   /\ pc' = [pc EXCEPT ![t] = there]
                   /\ at' = [at EXCEPT ![t] = now]
Return(t) == /\ pc' = [pc EXCEPT ![t] = "idle"]
             /\ at' = [at EXCEPT ![t] = 0]
             /\ req' = [req EXCEPT ![t] = Anywhere]
             /\ slot' = [slot EXCEPT ![t] = 0]

CallAlloc(t, r) ==
  /\ Sensible(r)
  /\ Enter(t, "alloc")
  /\ req' = [req EXCEPT ![t] = r]
  /\ UNCHANGED <<pages, used, ts, now, slot, out, released>>

Reuse_Unmarked(t) ==  \* mutant: the used bit is not set
  /\ pc[t] = "alloc"
  /\ \E a \in Fits(t) :
       /\ \A b \in Fits(t) : ~Ahead(b, a)
       /\ out' = out \cup {a}
  /\ Return(t)
  /\ UNCHANGED <<pages, used, ts, now, released>>

\* The first slot that fits, under pages_lock.
Reuse(t) ==
  /\ pc[t] = "alloc"
  /\ \E a \in Fits(t) :
       /\ \A b \in Fits(t) : ~Ahead(b, a)
       /\ used' = used \cup {a}
       /\ out' = out \cup {a}
  /\ Return(t)
  /\ UNCHANGED <<pages, ts, now, released>>

\* No slot fits: mmap, which need not heed the hint, and the new page's first slot in
\* the range, or abort() when it has none.
NewPage(t) ==
  /\ pc[t] = "alloc" /\ Fits(t) = {}
  /\ \E b \in Base \ Pages :
       /\ PageInRange(b, req[t])
       /\ pages' = <<b>> \o pages
       /\ IF Fresh(req[t], b) # {}
          THEN /\ Return(t)
               /\ \E a \in Fresh(req[t], b) :
                    /\ \A o \in Fresh(req[t], b) : a <= o
                    /\ used' = used \cup {a} /\ out' = out \cup {a}
          ELSE /\ pc' = [pc EXCEPT ![t] = "abort"]
               /\ UNCHANGED <<used, out, at, req, slot>>
  /\ UNCHANGED <<ts, now, released>>

\* No memory, or the page is out of range and goes back.
AllocFails(t) ==
  /\ pc[t] = "alloc" /\ Fits(t) = {}
  /\ Return(t)
  /\ UNCHANGED <<pages, used, ts, now, out, released>>

\* An owner gives its slot back, once.
CallFree(t, a) ==
  /\ a \in out
  /\ Enter(t, "free")
  /\ out' = out \ {a}
  /\ slot' = [slot EXCEPT ![t] = a]
  /\ released' = [released EXCEPT ![a] = now]
  /\ UNCHANGED <<pages, used, ts, now, req>>

Free_Unstamped(t) ==  \* mutant: the flag becomes 0
  /\ pc[t] = "free"
  /\ \E b \in Pages : slot[t] \in SlotsOf(b)
  /\ used' = used \ {slot[t]}
  /\ Return(t)
  /\ UNCHANGED <<pages, ts, now, out, released>>

\* Under pages_lock: the page with the slot, the flag with the clock read before.
Free(t) ==
  /\ pc[t] = "free"
  /\ \E b \in Pages : slot[t] \in SlotsOf(b)
  /\ used' = used \ {slot[t]}
  /\ ts' = [ts EXCEPT ![slot[t]] = at[t]]
  /\ Return(t)
  /\ UNCHANGED <<pages, now, out, released>>

Tick ==
  /\ now < MaxTime
  /\ now' = now + 1
  /\ UNCHANGED <<pages, used, ts, pc, at, req, slot, out, released>>

Next ==
  \/ Tick
  \/ \E t \in Thread :
       \/ \E r \in Ranges : CallAlloc(t, r)
       \/ Reuse(t) \/ NewPage(t) \/ AllocFails(t)
       \/ \E a \in Slot : CallFree(t, a)
       \/ Free(t)

Spec == Init /\ [][Next]_vars

-----------------------------------------------------------------------------
(* Properties.                                                             *)

Freeing == {t \in Thread : pc[t] = "free"}

\* Types; a used slot lies in a page of the list, where sh_trampo_free will find it.
TrampoTypeOK ==
  /\ pages \in Seq(Base)
  /\ used \subseteq UNION {SlotsOf(b) : b \in Pages}
  /\ ts \in [Slot -> Nat]
  /\ now \in Nat \ {0}
  /\ pc \in [Thread -> {"idle", "alloc", "free", "abort"}]
  /\ at \in [Thread -> Nat]
  /\ req \in [Thread -> Ranges \cup {Anywhere}]
  /\ slot \in [Thread -> Slot \cup {0}]
  /\ out \subseteq Slot
  /\ released \in [Slot -> Nat]

\* A slot has one owner: the used slots are those that clients own and those on their
\* way back, and no slot is both or on its way twice.
OneOwner ==
  /\ used = out \cup {slot[t] : t \in Freeing}
  /\ \A t \in Freeing :
       /\ slot[t] \in Slot \ out
       /\ \A u \in Freeing \ {t} : slot[t] # slot[u]

\* The call to abort() in sh_trampo_alloc_between (sh_trampo.c:127, "This shouldn't
\* happen") is never reached: a page that passes the test has a slot in the range.
NoAbort == \A t \in Thread : pc[t] # "abort"

\* A slot is handed out again only when more than the delay has passed since its owner
\* gave it back, although the clock is read before the lock is taken.
GraceBeforeReuse ==
  [][\A a \in out' \ out : released[a] > 0 => now - released[a] > Delay]_vars

\* The allocator keeps the promise of ShPool: its calls and returns are the pool's steps
\* (a slot is free from the call of sh_trampo_free, taken from the return of
\* sh_trampo_alloc_between) and all else it does is invisible.
Pool == INSTANCE ShPool WITH Cell <- Slot
KeepsPool == Pool!Spec

\* The inductive invariant behind these: what the flags remember is when the owners
\* gave the slots back.
Remembered ==
  /\ \A t \in Thread : at[t] <= now
  /\ \A t \in Freeing : released[slot[t]] = at[t]
  /\ \A a \in Slot \ used : ts[a] = released[a]
  /\ \A b \in Base \ Pages : \A a \in SlotsOf(b) : released[a] = 0

\* What NoAbort needs of the callers: a range that could not hold a slot went back before
\* the lock was taken.
Asked == \A t \in Thread : pc[t] = "alloc" => req[t] \in Ranges /\ Sensible(req[t])
TrampoInv == TrampoTypeOK /\ OneOwner /\ Remembered
=============================================================================
