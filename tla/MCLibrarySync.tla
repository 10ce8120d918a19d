---------------------------- MODULE MCLibrarySync ----------------------------
(***************************************************************************)
(* The two halves of a library sync, each checked for itself: the rows and *)
(* the state token (LibrarySync), and the episodes of the shows            *)
(* (EpisodeSync).  One side moves, the other stays in its initial state.   *)
(***************************************************************************)
EXTENDS LibrarySync, EpisodeSync, TLC

VARIABLE side

allvars == <<side, vars, evars>>

MCInit ==
    /\ side \in {"rows", "episodes"}
    /\ Init /\ EInit
    /\ side # "rows" => srv = EmptyFeed

Rows == side = "rows" /\ Next /\ UNCHANGED <<side, evars>>
Shows == side = "episodes" /\ ENext /\ UNCHANGED <<side, vars>>

MCNext == Rows \/ Shows

MCSpec == MCInit /\ [][MCNext]_allvars

Symmetry == Permutations(Procs) \cup Permutations(Asins) \cup Permutations(Parents)
=============================================================================
