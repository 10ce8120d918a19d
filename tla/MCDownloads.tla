----------------------------- MODULE MCDownloads -----------------------------
(* Downloads on small sets, for TLC.                                       *)
EXTENDS Downloads, TLC

Symmetry == Permutations(Titles) \cup Permutations(Names)

(* Every property is about what happens before that.                       *)
Unspoiled == ~spoiled
=============================================================================
