------------------------------- MODULE MCChat -------------------------------
(***************************************************************************)
(* Small instances of the conversation service for TLC: two accounts, the  *)
(* aliases of one inbox or the owner and someone else.                     *)
(***************************************************************************)
EXTENDS Chat, TLC

CONSTANTS u1, u2, s1, s2

\* Two accounts that share one usage key.
Aliases == [u \in Users |-> s1]

\* Two accounts of two people.
Strangers == [u \in Users |-> IF u = u1 THEN s1 ELSE s2]

HandlerSymmetry == Permutations(Handlers)
=============================================================================
