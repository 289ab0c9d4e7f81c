----------------------------- MODULE MCSessions -----------------------------
(* Small instances of the sessions for TLC. *)
EXTENDS Sessions, TLC

RequestSymmetry == Permutations(Requests)
=============================================================================
