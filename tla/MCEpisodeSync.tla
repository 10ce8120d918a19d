---------------------------- MODULE MCEpisodeSync ----------------------------
(* EpisodeSync on small sets, for TLC.                                     *)
EXTENDS EpisodeSync

Symmetry == Permutations(Parents)
=============================================================================
