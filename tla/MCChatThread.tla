---------------------------- MODULE MCChatThread ----------------------------
(***************************************************************************)
(* Instances of ChatThread for TLC: sets of operations and of failures by  *)
(* name, and the symmetry of the run slots.                                *)
(***************************************************************************)
EXTENDS ChatThread

Both == {TRUE, FALSE}
Always == {TRUE}
AllOps == Ops
AllTools == Kinds
RunSymmetry == Permutations(Runs)
=============================================================================
