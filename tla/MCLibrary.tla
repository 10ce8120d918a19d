------------------------------- MODULE MCLibrary -------------------------------
(***************************************************************************)
(* Four sides of the library, each checked for itself: runs that come one  *)
(* at a time (LibrarySync), the reads' automatic sync, the change log, and *)
(* what commands select.  One side moves, the others stay where they are.  *)
(***************************************************************************)
EXTENDS LibrarySync

CONSTANTS Markets, Never, MaxAge, MaxNow,
          Books, Show, Episodes, MaxChanges, Docs, MaxMoves

VARIABLES side,
          now, logged, whole, alock, busy, reader, asked, stale, answer,
          owned, feed, delta, row, latest, run, page, synced, quiet, changes,
          items, episodes, downloads, drun, moves

MCDocs == {[archived |-> FALSE, consumable |-> TRUE, pdf |-> TRUE],
           [archived |-> TRUE, consumable |-> TRUE, pdf |-> FALSE],
           [archived |-> FALSE, consumable |-> FALSE, pdf |-> FALSE]}

A == INSTANCE AutoSync WITH lock <- alock
C == INSTANCE ChangeLog
V == INSTANCE LibraryViews WITH run <- drun

av == <<now, logged, whole, alock, busy, reader, asked, stale, answer>>
cv == <<owned, feed, delta, row, latest, run, page, synced, quiet, changes>>
vv == <<items, episodes, downloads, drun, moves>>
allvars == <<side, vars, av, cv, vv>>

MCInit ==
    /\ side \in {"sync", "reads", "log", "views"}
    /\ Init /\ A!Init /\ C!Init /\ V!Init
    /\ (side # "sync" => srv = EmptyFeed) /\ DOMAIN owned = (IF side = "log" THEN Books \cup {Show} ELSE {})

Syncs(Act) == side = "sync" /\ Act /\ UNCHANGED <<side, av, cv, vv>>
Reads(Act) == side = "reads" /\ Act /\ UNCHANGED <<side, vars, cv, vv>>
Logs(Act) == side = "log" /\ Act /\ UNCHANGED <<side, vars, av, vv>>
Views(Act) == side = "views" /\ Act /\ UNCHANGED <<side, vars, av, cv>>

MCNext == Syncs(CalmNext) \/ Reads(A!Next) \/ Logs(C!Next) \/ Views(V!Next)

(* The fairness of LibrarySync!CalmSpec; the other sides need none.        *)
MCSpec ==
    /\ MCInit /\ [][MCNext]_allvars
    /\ \A p \in Procs :
          WF_allvars(Syncs(List(p) \/ SyncPage(p) \/ PersistToken(p) \/ NoToken(p)
                           \/ Finish(p) \/ Abort(p)))

-----------------------------------------------------------------------------
(* The properties of the instances, stated in full there.                  *)

(* LibrarySync!Converges: runs that complete again and again bring the     *)
(* view to the server's, however many abort in between.                    *)
SyncConverges ==
    []<><<Syncs(\E p \in Procs : PersistToken(p))>>_allvars
        => <>[](side = "sync" => Converged)

(* A read that answers has brought what was stale up to date.              *)
ServedIsFresh == A!ServedIsFresh

(* A read answers only from marketplaces that have been synced.            *)
NeverSyncedIsNotServed == A!NeverSyncedIsNotServed

(* The newest log entry of a title agrees with its row.                    *)
LogAgreesWithRows == C!LogAgreesWithRows

(* A run's selection holds what it can download, and nothing else.         *)
SelectionIsDownloadable == V!SelectionIsDownloadable

(* The listing of missing artifacts and the sweep agree.                   *)
ListingAgreesWithSweep == V!ListingAgreesWithSweep
================================================================================
