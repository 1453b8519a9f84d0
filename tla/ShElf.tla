------------------------------- MODULE ShElf -------------------------------
(***************************************************************************)
(* Islands in the gaps of loaded ELFs (sh_elf.c).  A gap is memory between *)
(* the segments of an ELF that nothing uses; it is cut into units, each    *)
(* with a used bit and the time it was freed.  The gaps of an ELF are kept *)
(* in an object of the list sh_elfs, made when the ELF's first island is   *)
(* wanted and destroyed when the ELF is closed.  ShRef is what makes the   *)
(* use of an object after its removal safe; here an object lives as long   *)
(* as the list or a thread refers to it.                                   *)
(***************************************************************************)
EXTENDS Integers, Sequences, FiniteSets, SequencesExt

CONSTANTS
  Thread,
  Lib,         \* ELFs that may be loaded
  Bias,        \* [Lib -> Nat], dli_fbase; two may use the same memory in turn
  Segments,    \* [Lib -> Seq([vaddr, memsz, filesz, exec])], the PT_LOAD headers
  ByKernel,    \* the ELFs that the kernel loaded (executable, linker, vdso)
  Symbols,     \* [Lib -> Seq(<<address, size>>)], symbols nothing needs any more
  Page, Unit, MinAlloc,  \* page size, SH_ELF_UNIT_SIZE, SH_ELF_MIN_ALLOC_SIZE
  Delay,       \* SH_ELF_TRAMPO_DELAY_SEC
  Obj          \* identities of sh_elf_t objects

None == 0

PageStart(a) == a - (a % Page)
PageEnd(a) == PageStart(a + Page - 1)
AlignStart(a) == a - (a % Unit)
AlignEnd(a) == AlignStart(a + Unit - 1)

BytesOf(l, i) == LET s == Segments[l][i]
                 IN Bias[l] + s.vaddr .. Bias[l] + s.vaddr + s.memsz - 1
InElf(a, l) == \E i \in DOMAIN Segments[l] : a \in BytesOf(l, i)
BytesOfSymbol(l, i) == Symbols[l][i][1] .. Symbols[l][i][1] + Symbols[l][i][2] - 1
FileEnd(l, i) == Bias[l] + Segments[l][i].vaddr + Segments[l][i].filesz
MemEnd(l, i) == Bias[l] + Segments[l][i].vaddr + Segments[l][i].memsz

\* Where the next segment's pages begin; the kernel leaves nothing between two.
NextPage(l, i) == IF l \in ByKernel \/ i = Len(Segments[l])
                  THEN PageEnd(MemEnd(l, i))
                  ELSE PageStart(Bias[l] + Segments[l][i + 1].vaddr)

SegmentGap_FromFile(l, i) ==  \* mutant: what .bss uses behind the file is overlooked
  IF Segments[l][i].exec \/ PageEnd(MemEnd(l, i)) > PageEnd(FileEnd(l, i))
  THEN <<AlignEnd(FileEnd(l, i)), NextPage(l, i)>>
  ELSE <<PageEnd(MemEnd(l, i)), NextPage(l, i)>>

\* Behind executable code and behind anonymous .bss the rest of the page can be used;
\* behind the pages of a file only whole pages.
SegmentGap(l, i) ==
  IF Segments[l][i].exec \/ PageEnd(MemEnd(l, i)) > PageEnd(FileEnd(l, i))
  THEN <<AlignEnd(MemEnd(l, i)), NextPage(l, i)>>
  ELSE <<PageEnd(MemEnd(l, i)), NextPage(l, i)>>

SymbolGap(sym) == <<AlignEnd(sym[1]), AlignStart(sym[1] + sym[2])>>

\* The gaps that are worth it: behind the segments, and of the first n symbols.
BigEnough(gap) == gap[2] - gap[1] >= MinAlloc
PhdrGaps(l) == {g \in {SegmentGap(l, i) : i \in DOMAIN Segments[l]} : BigEnough(g)}
SymbolGaps(l, n) == {g \in {SymbolGap(Symbols[l][i]) : i \in 1 .. n} : BigEnough(g)}

\* The units of a gap, and those that an island of a size takes from a on.
UnitsOf(gap) == {a \in gap[1] .. gap[2] - Unit : (a - gap[1]) % Unit = 0}
Span(a, size) == {u \in a .. a + size - 1 : (u - a) % Unit = 0}

Units(gaps) == UNION {UnitsOf(g) : g \in gaps}
Address == UNION {Units(PhdrGaps(l) \cup SymbolGaps(l, Len(Symbols[l]))) : l \in Lib}

\* The linker maps an ELF from its bias to the end of its last segment.
Pages(l) == PageStart(Bias[l]) .. PageEnd(MemEnd(l, Len(Segments[l]))) - 1

\* What an instance must satisfy: an ELF's segments are in the order of their addresses and
\* share no page, and the useless symbols are in them and do not overlap.
ElfConstants ==
  /\ Page \in Nat \ {0} /\ Unit \in Nat \ {0} /\ Page % Unit = 0
  /\ MinAlloc \in Nat /\ Delay \in Nat
  /\ None \notin Lib \cup Obj
  /\ \A l \in Lib :
       /\ Bias[l] \in Nat \ {0} /\ Bias[l] % Page = 0
       /\ Segments[l] # <<>>
       /\ Segments[l] \in Seq([vaddr : Nat, memsz : Nat \ {0}, filesz : Nat, exec : BOOLEAN])
       /\ \A i, j \in DOMAIN Segments[l] :
            i < j => PageEnd(MemEnd(l, i)) <= PageStart(Bias[l] + Segments[l][j].vaddr)
       /\ Symbols[l] \in Seq(Nat \X Nat)
       /\ \A i \in DOMAIN Symbols[l] : \E j \in DOMAIN Segments[l] : BytesOfSymbol(l, i) \subseteq BytesOf(l, j)
       /\ \A i, j \in DOMAIN Symbols[l] : i # j => BytesOfSymbol(l, i) \cap BytesOfSymbol(l, j) = {}

VARIABLES
  now,      \* sh_util_get_stable_timestamp()
  loaded,   \* the ELFs in memory
  elfs,     \* sh_elfs
  obj,      \* of each object: its ELF, gaps, whether its symbols were not tried yet
            \* (useless), used bits, times, and whether it was destroyed
  epc,      \* of each thread: "idle", "find", "create", "insert", "alloc", "free", "destroy"
  self,     \* the object it works on
  known,    \* addr_info: the ELF of the target once it was looked up
  want,     \* what it asks for or gives back: [pc, size, low, high, addr]
  early,    \* its local `now` in sh_elf_free
  held,     \* islands that clients own: [lib, addr, size]
  rest      \* history: when the client of a unit gave it back last

Nothing == [pc |-> 0, size |-> 0, low |-> 0, high |-> 0, addr |-> 0]
NoObject == [lib |-> None, gaps |-> {}, useless |-> FALSE, used |-> {},
             time |-> <<>>, destroyed |-> FALSE]

ElfInit ==
  /\ loaded = {} /\ elfs = <<>>
  /\ obj = [o \in Obj |-> NoObject]
  /\ epc = [t \in Thread |-> "idle"]
  /\ self = [t \in Thread |-> None]
  /\ known = [t \in Thread |-> None]
  /\ want = [t \in Thread |-> Nothing]
  /\ early = [t \in Thread |-> 0]
  /\ held = {}
  /\ rest = [u \in Address |-> 0]

-----------------------------------------------------------------------------
Listed == {elfs[i] : i \in DOMAIN elfs}
LibOf(o) == obj[o].lib
ByAddress(a) == {i \in DOMAIN elfs : InElf(a, LibOf(elfs[i]))}
ByBias(b) == {i \in DOMAIN elfs : Bias[LibOf(elfs[i])] = b}
First(I) == elfs[CHOOSE i \in I : \A j \in I : i <= j]
Unreferenced == Obj \ (Listed \cup {self[t] : t \in Thread})

Become(t, there) == epc' = [epc EXCEPT ![t] = there]
Use(t, o) == self' = [self EXCEPT ![t] = o]
Done(t) == /\ epc' = [epc EXCEPT ![t] = "idle"]
           /\ self' = [self EXCEPT ![t] = None]
           /\ known' = [known EXCEPT ![t] = None]
           /\ want' = [want EXCEPT ![t] = Nothing]
           /\ early' = [early EXCEPT ![t] = 0]

\* l is what the caller already knows of the target, or None.
ElfAlloc(t, w, l) ==
  /\ epc[t] = "idle"
  /\ Become(t, "find")
  /\ want' = [want EXCEPT ![t] = w]
  /\ known' = [known EXCEPT ![t] = l]
  /\ UNCHANGED <<loaded, elfs, obj, self, early, held, rest>>

\* Under sh_elfs_lock, by the program counter.
Find(t) ==
  /\ epc[t] = "find"
  /\ LET found == ByAddress(want[t].pc)
     IN IF found = {}
        THEN Become(t, "create") /\ UNCHANGED <<self, known>>
        ELSE /\ Become(t, "alloc")
             /\ Use(t, First(found))
             /\ known' = [known EXCEPT ![t] = IF @ = None THEN LibOf(First(found)) ELSE @]
  /\ UNCHANGED <<loaded, elfs, obj, want, early, held, rest>>

\* The linker says which ELF it is unless the caller knew.
Create(t) ==
  /\ epc[t] = "create" /\ Unreferenced # {}
  /\ \E l \in (IF known[t] # None THEN {known[t]} ELSE {k \in loaded : InElf(want[t].pc, k)}) :
       /\ known' = [known EXCEPT ![t] = l]
       /\ LET o == CHOOSE o \in Unreferenced : TRUE
          IN /\ Use(t, o)
             /\ obj' = [obj EXCEPT ![o] =
                  [lib |-> l, gaps |-> PhdrGaps(l), useless |-> Symbols[l] # <<>>, used |-> {},
                   time |-> [u \in DOMAIN rest |-> 0], destroyed |-> FALSE]]
  /\ Become(t, "insert")
  /\ UNCHANGED <<loaded, elfs, want, early, held, rest>>

\* Nothing loaded there, or out of memory.
CreateFails(t) ==
  /\ epc[t] = "create"
  /\ Done(t)
  /\ UNCHANGED <<loaded, elfs, obj, held, rest>>

Insert_Twice(t) ==  \* mutant: the list is not searched again
  /\ epc[t] = "insert"
  /\ elfs' = Append(elfs, self[t])
  /\ Become(t, "alloc")
  /\ UNCHANGED <<loaded, obj, self, known, want, early, held, rest>>

\* Under sh_elfs_lock: another thread may have been faster; its object counts.
Insert(t) ==
  /\ epc[t] = "insert"
  /\ LET other == ByBias(Bias[LibOf(self[t])])
     IN IF other = {}
        THEN elfs' = Append(elfs, self[t]) /\ UNCHANGED <<self, obj>>
        ELSE /\ Use(t, First(other))
             /\ obj' = [obj EXCEPT ![self[t]] = NoObject]
             /\ UNCHANGED elfs
  /\ Become(t, "alloc")
  /\ UNCHANGED <<loaded, known, want, early, held, rest>>

\* The object was destroyed before its lock was taken: SH_ERRNO_INTERNAL_AGAIN.
Again(t) ==
  /\ epc[t] = "alloc" /\ obj[self[t]].destroyed
  /\ Use(t, None)
  /\ Become(t, "find")
  /\ UNCHANGED <<loaded, elfs, obj, known, want, early, held, rest>>

Rested_Untimed(o, u) == u \notin obj[o].used  \* mutant: the time is not looked at
Rested(o, u) == now > obj[o].time[u] /\ now - obj[o].time[u] > Delay

\* The lowest run of units in the gap that is in the range, unused and rested.
FitsIn(o, gap, w) == {a \in UnitsOf(gap) :
                        /\ w.low <= a /\ a <= w.high
                        /\ Span(a, w.size) \subseteq UnitsOf(gap)
                        /\ \A u \in Span(a, w.size) : u \notin obj[o].used /\ Rested(o, u)}
FirstFit(o, gap, w, a) == /\ a \in FitsIn(o, gap, w)
                          /\ \A b \in FitsIn(o, gap, w) : a <= b

Take(t, a) ==
  LET o == self[t] IN
  /\ obj' = [obj EXCEPT ![o].used = @ \cup Span(a, want[t].size)]
  /\ held' = held \cup {[lib |-> LibOf(o), addr |-> a, size |-> want[t].size]}
  /\ Done(t)

\* Under the object's lock: a gap that fits; mprotect may fail for those before it.
AllocInGaps(t, a) ==
  /\ epc[t] = "alloc" /\ ~obj[self[t]].destroyed
  /\ \E g \in obj[self[t]].gaps : FirstFit(self[t], g, want[t], a)
  /\ Take(t, a)
  /\ UNCHANGED <<loaded, elfs, rest>>

\* No gap has room: the symbols are looked up, once, and as many as are found and have
\* memory for their flags become gaps, which are tried next.
AllocInSymbols(t, a) ==
  LET o == self[t] IN
  /\ epc[t] = "alloc" /\ ~obj[o].destroyed /\ obj[o].useless
  /\ \E n \in 0 .. Len(Symbols[LibOf(o)]) :
       LET new == SymbolGaps(LibOf(o), n)
           more == [obj[o] EXCEPT !.gaps = @ \cup new, !.useless = FALSE]
       IN \/ /\ a # None
             /\ \E g \in new : FirstFit(o, g, want[t], a)
             /\ obj' = [obj EXCEPT ![o] = [more EXCEPT !.used = @ \cup Span(a, want[t].size)]]
             /\ held' = held \cup {[lib |-> LibOf(o), addr |-> a, size |-> want[t].size]}
          \/ /\ a = None
             /\ obj' = [obj EXCEPT ![o] = more]
             /\ UNCHANGED held
  /\ Done(t)
  /\ UNCHANGED <<loaded, elfs, rest>>

\* No room.
AllocMisses(t) ==
  /\ epc[t] = "alloc" /\ ~obj[self[t]].destroyed /\ ~obj[self[t]].useless
  /\ Done(t)
  /\ UNCHANGED <<loaded, elfs, obj, held, rest>>

\* sh_elf_free up to the lock: the object by its load bias, the clock.
ElfFree(t, h) ==
  /\ epc[t] = "idle"
  /\ held' = held \ {h}
  /\ rest' = [u \in DOMAIN rest |-> IF u \in Span(h.addr, h.size) THEN now ELSE rest[u]]
  /\ LET found == ByBias(Bias[h.lib])
     IN IF found = {}
        THEN UNCHANGED <<epc, self, want, early>>
        ELSE /\ Become(t, "free")
             /\ Use(t, First(found))
             /\ want' = [want EXCEPT ![t] = [Nothing EXCEPT !.addr = h.addr, !.size = h.size]]
             /\ early' = [early EXCEPT ![t] = now]
  /\ UNCHANGED <<loaded, elfs, obj, known>>

\* Under the object's lock: the units of the gap that has the address.
FreeUnits(t) ==
  LET o == self[t]
      units == Span(want[t].addr, want[t].size)
  IN /\ epc[t] = "free"
     /\ obj' = IF want[t].addr \in Units(obj[o].gaps)
               THEN [obj EXCEPT ![o].used = @ \ units,
                                ![o].time = [u \in DOMAIN @ |-> IF u \in units THEN early[t] ELSE @[u]]]
               ELSE obj
     /\ Done(t)
     /\ UNCHANGED <<loaded, elfs, held, rest>>

\* sh_elf_cleanup_after_dlclose: out of the list, under sh_elfs_lock, ...
Cleanup(t, l) ==
  /\ epc[t] = "idle"
  /\ LET found == ByBias(Bias[l])
     IN IF found = {}
        THEN UNCHANGED <<elfs, epc, self>>
        ELSE /\ elfs' = RemoveAt(elfs, CHOOSE i \in found : \A j \in found : i <= j)
             /\ Become(t, "destroy")
             /\ Use(t, First(found))
  /\ UNCHANGED <<loaded, obj, known, want, early, held, rest>>

\* ... then destroyed, under its own lock.  Nobody looks at what it held any more.
Destroy(t) ==
  /\ epc[t] = "destroy"
  /\ obj' = [obj EXCEPT ![self[t]] = [NoObject EXCEPT !.destroyed = TRUE]]
  /\ Done(t)
  /\ UNCHANGED <<loaded, elfs, held, rest>>

\* The dynamic linker maps and unmaps; what is unmapped has no history.
Map(l) ==
  /\ \A k \in loaded : Pages(k) \cap Pages(l) = {}
  /\ loaded' = loaded \cup {l}
  /\ UNCHANGED <<elfs, obj, epc, self, known, want, early, held, rest>>
Unmap(l) ==
  /\ loaded' = loaded \ {l}
  /\ held' = {h \in held : h.lib # l}
  /\ rest' = [u \in DOMAIN rest |-> IF u \in Pages(l) THEN 0 ELSE rest[u]]
  /\ UNCHANGED <<elfs, obj, epc, self, known, want, early>>
=============================================================================
