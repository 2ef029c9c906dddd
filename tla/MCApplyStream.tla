---- MODULE MCApplyStream ----
(* Instances of ApplyStream for TLC. *)
EXTENDS ApplyStream, TLC

CONSTANTS a1, a2, f1, f2, e1

AllAnswers == {"mismatch", "empty", "many"}
AllOps == {"accept", "reject", "undo", "stop"}

Symmetry == Permutations({a1, a2}) \cup Permutations({f1, f2})
====
