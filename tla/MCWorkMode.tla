----------------------------- MODULE MCWorkMode -----------------------------
(***************************************************************************)
(* Instances of WorkMode for TLC: workflows by their kind.                 *)
(***************************************************************************)
EXTENDS WorkMode, TLC

CONSTANTS daily, deploy   \* a prompt and a gated command

PromptAndGate == daily :> "prompt" @@ deploy :> "gated"

WindowSymmetry == Permutations(Windows)
=============================================================================
