------------------------------- MODULE MCRef -------------------------------
(* ShRef on a small instance, with the mutants that the properties reject. *)
EXTENDS ShRef
MCLib == {Key}
=============================================================================
