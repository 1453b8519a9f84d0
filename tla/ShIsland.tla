------------------------------ MODULE ShIsland ------------------------------
(***************************************************************************)
(* Islands (sh_island.c): a few instructions near the hooked function.     *)
(* They come from an anonymous page in range (ShTrampo) or, when there is  *)
(* none, from a gap of the ELF the function is in (ShElf).  Each hook here *)
(* wants one island; it works under the lock of its switch (ShSwitch).     *)
(* The closer is the thread that runs dlclose: it takes the switches of    *)
(* the ELF out of the tree, gives back what they hold, each under its      *)
(* lock, destroys the gaps and unmaps the ELF.                             *)
(***************************************************************************)
EXTENDS ShTrampo

CONSTANTS
  Closer,   \* the thread that loads and closes ELFs
  Target,   \* functions: [lib, pc, size, low, high, told], told if addr_info is known
  Lib, Bias, Segments, ByKernel, Symbols, Page, Unit, MinAlloc, Obj

Hook == Thread \ {Closer}
ANON == "SH_ISLAND_TYPE_ANON_PAGE"
GAP == "SH_ISLAND_TYPE_ELF_GAP"

VARIABLES
  loaded, elfs, obj, epc, self, known, want, early, held, rest,  \* ShElf
  isl,         \* the island of each hook: [type, addr]
  stage,       \* "idle", "resolved", "anon", "gap", "hooked", "freeing"
  target,      \* what it hooks
  registered,  \* the hooks whose switch is in the tree
  closing,     \* the ELF being closed
  removed,     \* its switches still to be freed
  cleaned,     \* whether sh_island_cleanup_after_dlclose was called
  late         \* history: a switch came into the tree when its ELF was on its way out

ivars == <<isl, stage, target, registered, closing, removed, cleaned, late>>
elfVars == <<loaded, elfs, obj, epc, self, known, want, early, held, rest>>
allVars == <<vars, elfVars, ivars>>

E == INSTANCE ShElf

ASSUME IslandAssumption ==
  /\ E!ElfConstants
  /\ Closer \in Thread
  /\ \A g \in Target :
       /\ g \in [lib : Lib, pc : Nat, size : Nat \ {0}, low : Nat, high : Nat, told : BOOLEAN]
       /\ E!InElf(g.pc, g.lib) /\ <<g.low, g.high>> \in Ranges

None == E!None
NoIsland == [type |-> ANON, addr |-> 0]
NoTarget == [lib |-> None, pc |-> 0, size |-> 0, low |-> 0, high |-> 0, told |-> FALSE]

IslandInit ==
  /\ Init /\ E!ElfInit
  /\ isl = [t \in Hook |-> NoIsland]
  /\ stage = [t \in Hook |-> "idle"]
  /\ target = [t \in Hook |-> NoTarget]
  /\ registered = {} /\ closing = None /\ removed = {} /\ cleaned = FALSE
  /\ late = FALSE

-----------------------------------------------------------------------------
Stage(t, s) == stage' = [stage EXCEPT ![t] = s]
Got(t, type, a) == /\ isl' = [isl EXCEPT ![t] = [type |-> type, addr |-> a]]
                   /\ Stage(t, "hooked")

\* The hook has failed or was undone: its switch leaves the tree.
Gone(t) == /\ isl' = [isl EXCEPT ![t] = NoIsland]
           /\ Stage(t, "idle")
           /\ target' = [target EXCEPT ![t] = NoTarget]
           /\ registered' = registered \ {t}

\* The function is found in a loaded ELF ...
Resolve(t, g) ==
  /\ stage[t] = "idle" /\ t \notin removed /\ g.lib \in loaded /\ ~late
  /\ Stage(t, "resolved")
  /\ target' = [target EXCEPT ![t] = g]
  /\ UNCHANGED <<vars, elfVars, isl, registered, closing, removed, cleaned, late>>

\* ... and its switch put into the tree, perhaps when the ELF is going or gone; under its
\* lock, an anonymous page is tried first ...
Alloc(t) ==
  LET g == target[t] IN
  /\ stage[t] = "resolved"
  /\ CallAlloc(t, <<g.low, g.high>>)
  /\ registered' = registered \cup {t}
  /\ late' = (late \/ g.lib \notin loaded \/ g.lib = closing)
  /\ Stage(t, "anon")
  /\ UNCHANGED <<elfVars, isl, target, closing, removed, cleaned>>

GetPage(t) ==
  /\ stage[t] = "anon"
  /\ Reuse(t) \/ NewPage(t)
  /\ IF out' = out
     THEN UNCHANGED <<isl, stage>>
     ELSE \E a \in out' \ out : Got(t, ANON, a)
  /\ UNCHANGED <<elfVars, target, registered, closing, removed, cleaned, late>>

\* ... then the gaps of the ELF.
TryGaps(t) ==
  LET g == target[t] IN
  /\ stage[t] = "anon"
  /\ AllocFails(t)
  /\ E!ElfAlloc(t, [pc |-> g.pc, size |-> g.size, low |-> g.low, high |-> g.high, addr |-> 0],
                IF g.told THEN g.lib ELSE None)
  /\ Stage(t, "gap")
  /\ UNCHANGED <<isl, target, registered, closing, removed, cleaned, late>>

SearchGaps(t) ==
  /\ stage[t] = "gap"
  /\ E!Find(t) \/ E!Create(t) \/ E!Insert(t) \/ E!Again(t)
  /\ UNCHANGED <<vars, ivars>>

GetGap(t) ==
  /\ stage[t] = "gap"
  /\ \E a \in DOMAIN rest : /\ E!AllocInGaps(t, a) \/ E!AllocInSymbols(t, a)
                           /\ Got(t, GAP, a)
  /\ UNCHANGED <<vars, target, registered, closing, removed, cleaned, late>>

AllocEndsInVain(t) ==
  /\ stage[t] = "gap"
  /\ E!CreateFails(t) \/ E!AllocMisses(t) \/ E!AllocInSymbols(t, None)
  /\ Gone(t)
  /\ UNCHANGED <<vars, closing, removed, cleaned, late>>

\* sh_island_free, by the type; the switch leaves the tree at its end.
FreeIsland(t) ==
  /\ stage[t] = "hooked" /\ t \in registered \cup removed
  /\ IF isl[t].type = ANON
     THEN CallFree(t, isl[t].addr) /\ UNCHANGED elfVars
     ELSE /\ E!ElfFree(t, [lib |-> target[t].lib, addr |-> isl[t].addr, size |-> target[t].size])
          /\ UNCHANGED vars
  /\ isl' = [isl EXCEPT ![t] = NoIsland]
  /\ Stage(t, "freeing")
  /\ UNCHANGED <<target, registered, closing, removed, cleaned, late>>

FreeEnds(t) ==
  /\ stage[t] = "freeing"
  /\ \/ Free(t) /\ UNCHANGED elfVars
     \/ E!FreeUnits(t) /\ UNCHANGED vars
     \/ pc[t] = "idle" /\ epc[t] = "idle" /\ UNCHANGED <<vars, elfVars>>
  /\ Gone(t)
  /\ UNCHANGED <<closing, removed, cleaned, late>>

-----------------------------------------------------------------------------
(* dlclose.                                                                *)

Load(l) ==
  /\ closing = None /\ l \notin loaded /\ ~late
  /\ E!Map(l)
  /\ UNCHANGED <<vars, ivars>>

\* sh_switch_free_after_dlclose: the switches in the ELF leave the tree, ...
Close(l) ==
  /\ closing = None /\ l \in loaded /\ ~late
  /\ closing' = l /\ cleaned' = FALSE
  /\ removed' = {t \in registered : E!InElf(target[t].pc, l)}
  /\ registered' = registered \ removed'
  /\ UNCHANGED <<vars, elfVars, isl, stage, target, late>>

\* ... and one after the other is freed, under its lock; sh_island_free_after_dlclose gives
\* back what lies in an anonymous page.  One undone meanwhile is passed over.
CloseSwitch_Kept(t) ==  \* mutant: the anonymous page is not given back
  /\ t \in removed
  /\ stage[t] \in {"idle", "hooked"}
  /\ isl' = [isl EXCEPT ![t] = NoIsland] /\ Stage(t, "idle")
  /\ target' = [target EXCEPT ![t] = NoTarget]
  /\ removed' = removed \ {t}
  /\ UNCHANGED <<vars, elfVars, registered, closing, cleaned, late>>

CloseSwitch(t) ==
  /\ t \in removed
  /\ stage[t] \in {"idle", "hooked"}
  /\ isl' = [isl EXCEPT ![t] = NoIsland]
  /\ IF isl[t].addr # 0 /\ isl[t].type = ANON
     THEN CallFree(t, isl[t].addr) /\ Stage(t, "freeing") /\ UNCHANGED target
     ELSE /\ Stage(t, "idle")
          /\ target' = [target EXCEPT ![t] = NoTarget]
          /\ UNCHANGED vars
  /\ removed' = removed \ {t}
  /\ UNCHANGED <<elfVars, registered, closing, cleaned, late>>

\* sh_island_cleanup_after_dlclose, after the last of them.
Clean ==
  /\ closing # None /\ removed = {} /\ ~cleaned
  /\ E!Cleanup(Closer, closing)
  /\ cleaned' = TRUE
  /\ UNCHANGED <<vars, isl, stage, target, registered, closing, removed, late>>

CleanEnds ==
  /\ E!Destroy(Closer)
  /\ UNCHANGED <<vars, ivars>>

CloseEnds ==
  /\ closing # None /\ cleaned /\ epc[Closer] = "idle"
  /\ E!Unmap(closing)
  /\ closing' = None /\ cleaned' = FALSE
  /\ UNCHANGED <<vars, isl, stage, target, registered, removed, late>>

IslandTick == Tick /\ UNCHANGED <<elfVars, ivars>>

IslandNext ==
  \/ IslandTick
  \/ \E l \in Lib : Load(l) \/ Close(l)
  \/ \E t \in Hook :
       \/ \E g \in Target : Resolve(t, g)
       \/ Alloc(t) \/ GetPage(t)
       \/ TryGaps(t) \/ SearchGaps(t)
       \/ GetGap(t) \/ AllocEndsInVain(t)
       \/ FreeIsland(t) \/ FreeEnds(t)
       \/ CloseSwitch(t)
  \/ Clean \/ CleanEnds \/ CloseEnds

IslandSpec == IslandInit /\ [][IslandNext]_allVars

-----------------------------------------------------------------------------
(* Properties.  A hook of a function whose ELF is being closed at the same *)
(* time may come into the tree when the switches were collected; it makes  *)
(* an object for an ELF that is gone, which a later ELF at the same place  *)
(* inherits.  That is recorded as `late`; nothing new begins and nothing   *)
(* is said after it.                                                       *)

Own(t) == E!Span(isl[t].addr, target[t].size)
InGap == {t \in Hook : isl[t].addr # 0 /\ isl[t].type = GAP}
InPage == {t \in Hook : isl[t].addr # 0 /\ isl[t].type = ANON}

\* No two islands in gaps share a unit, whatever the threads that search the list, create
\* objects and free at the same time.
IslandsApart == ~late => \A t \in InGap : \A u \in InGap \ {t} : Own(t) \cap Own(u) = {}

\* Nothing is lost: the slots that are out are the hooks' islands, and the units in use in an
\* ELF's gaps are those of the hooks' islands and of those just being freed.
NothingLost ==
  /\ out = {isl[t].addr : t \in InPage}
  /\ ~late => \A o \in E!Listed : obj[o].lib # closing =>
       obj[o].used = (UNION {Own(t) : t \in {u \in InGap : target[u].lib = obj[o].lib}})
                     \cup (UNION {E!Span(want[t].addr, want[t].size) :
                                    t \in {u \in Hook : epc[u] = "free" /\ self[u] = o}})

\* An island in a gap overwrites nothing: no byte of a segment of a loaded ELF, but for the
\* symbols nothing needs.
GapsHarmless ==
  ~late => \A t \in InGap : \A a \in Own(t) : \A b \in a .. a + Unit - 1 :
    /\ b \in E!Pages(target[t].lib)
    /\ \A l \in loaded : E!InElf(b, l) =>
         \E i \in DOMAIN Symbols[l] :
           Symbols[l][i][1] <= b /\ b < Symbols[l][i][1] + Symbols[l][i][2]

\* A unit of a gap rests for more than the delay after its client gave it back, as long as
\* its memory stays mapped.
GapGrace ==
  [][~late' => \A t \in InGap' \ InGap : \A u \in Own(t)' :
       rest[u] > 0 => now - rest[u] > Delay]_allVars
=============================================================================
