------------------------------- MODULE MCHub --------------------------------
(* ShHub with two functions; one cfg per question.                          *)
EXTENDS ShHub, TLC
CONSTANTS h1, h2, p1, p2, q1, m
MCHubOf == (p1 :> h1) @@ (p2 :> h1) @@ (q1 :> h2)
MCInner == {<<h1, h2>>}
MCJumps == {<<h1, h2>>}
MCBehind == {<<h1, m>>}
MCProxies == Permutations({p1, p2})
MCNone == {}
=============================================================================
