------------------------------- MODULE ShPool -------------------------------
(***************************************************************************)
(* What an allocator of executable memory promises its clients: a cell has *)
(* one owner at a time, and a cell that was given back rests for more than *)
(* Delay seconds before it gets another, because a thread may still be     *)
(* executing in it.  The page allocator (ShTrampo) implements it.          *)
(***************************************************************************)
EXTENDS Integers

CONSTANTS
  Cell,   \* what is handed out
  Delay   \* seconds of rest

VARIABLES
  out,       \* the cells that have an owner
  released,  \* when each cell was last given back, 0 if never
  now

vars == <<out, released, now>>

Rested(c) == released[c] > 0 => now - released[c] > Delay

Init == /\ out = {}
        /\ released = [c \in Cell |-> 0]
        /\ now \in Nat

Alloc(S) == /\ S \subseteq Cell \ out
            /\ \A c \in S : Rested(c)
            /\ out' = out \cup S
            /\ UNCHANGED <<released, now>>

Free(S) == /\ S \subseteq out
           /\ out' = out \ S
           /\ released' = [c \in Cell |-> IF c \in S THEN now ELSE released[c]]
           /\ UNCHANGED now

Tick == /\ now' \in Nat /\ now' > now
        /\ UNCHANGED <<out, released>>

Next == \/ \E S \in SUBSET Cell : Alloc(S) \/ Free(S)
        \/ Tick

Spec == Init /\ [][Next]_vars
=============================================================================
