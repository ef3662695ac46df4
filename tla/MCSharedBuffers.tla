-------------------------- MODULE MCSharedBuffers --------------------------
(***************************************************************************)
(* A DataFrame of two columns, the first borrowed, the second of every     *)
(* kind, one buffer more for a copy or a replaced column, and two objects  *)
(* that hold arrays: two Tables of one frame, or a Table and its export,   *)
(* and what becomes of either when the other goes.                         *)
(***************************************************************************)
EXTENDS SharedBuffers, TLC

MCLabels == <<"x", "y">>

MCDtypes == {("x" :> "numeric") @@ ("y" :> kind) : kind \in Kinds}

Symmetry ==
  Permutations(Blocks) \cup Permutations(Owners) \cup Permutations(Handles)
=============================================================================
