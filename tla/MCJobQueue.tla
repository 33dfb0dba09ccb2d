----------------------------- MODULE MCJobQueue -----------------------------
(***************************************************************************)
(* JobQueue for TLC: ids, batches and redrivers are interchangeable as     *)
(* long as canRedrive treats every id alike.                               *)
(***************************************************************************)
EXTENDS JobQueue, TLC

Symmetry == Permutations(Ids) \cup Permutations(Batches) \cup Permutations(Redrivers)
=============================================================================
