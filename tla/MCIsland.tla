------------------------------ MODULE MCIsland ------------------------------
(***************************************************************************)
(* One anonymous page of two slots, and two ELFs that use the same memory  *)
(* in turn: one with a gap behind its code and one behind its .bss, one    *)
(* loaded by the kernel with a useless symbol in its code.  The range of   *)
(* the first one's islands begins between the two slots.                   *)
(***************************************************************************)
EXTENDS ShIsland, TLC
Seg(v, m, f, x) == [vaddr |-> v, memsz |-> m, filesz |-> f, exec |-> x]
MCBias == <<32, 32>>
MCSegments == <<<<Seg(0, 8, 8, TRUE), Seg(8, 9, 1, FALSE), Seg(24, 1, 1, FALSE), Seg(40, 1, 1, FALSE)>>,
                <<Seg(0, 4, 4, TRUE), Seg(16, 2, 2, FALSE)>>>>
MCSymbols == <<<<>>, <<<<32, 4>>>>>>
MCRange == {<<9, 54>>, <<8, 34>>}
MCTarget == {[lib |-> 1, pc |-> 32, size |-> 3, low |-> 9, high |-> 54, told |-> FALSE],
             [lib |-> 2, pc |-> 33, size |-> 2, low |-> 8, high |-> 34, told |-> TRUE]}
MCThreads == Permutations(Hook)
=============================================================================
