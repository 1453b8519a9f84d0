------------------------------ MODULE MCSwitch ------------------------------
(* ShSwitch on small instances; one cfg per question.                       *)
EXTENDS ShSwitch
MCLib == {Key}
Interchangeable == Permutations(Proxy) \cup Permutations(Icept)
InterchangeableConc == Permutations(Proxy) \cup Permutations(Thread)
=============================================================================
