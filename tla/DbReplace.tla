------------------------------- MODULE DbReplace -------------------------------
(***************************************************************************)
(* What `db backup`, `db restore` and `db reset` promise about the library *)
(* database, without saying how: whoever opens it finds a version that was *)
(* committed, a snapshot that was taken, or nothing.  Never a mixture.     *)
(***************************************************************************)
EXTENDS Integers

CONSTANTS None,         \* no database
          MaxVersion    \* bound on versions of the database

VARIABLES
    contents,   \* the version an opener finds
    possible,   \* the versions one may find after a power loss
    snapshots,  \* the versions that were backed up
    busy,       \* whether a restore or reset is at work
    did,        \* what it has done to the database so far
    said        \* what the last one that ended reported

avars == <<contents, possible, snapshots, busy, did, said>>

Versions == 1 .. MaxVersion

(* v, or v without the commits that only its log has.                      *)
UpTo(v) == {v} \cup {w \in Versions : v # None /\ w < v}

(* What is not written yet stays possible, until the system writes it.     *)
Unwritten == possible' \subseteq UNION {UpTo(v) : v \in possible \cup {contents, contents'}}

Init ==
    /\ contents = None /\ possible = {None} /\ snapshots = {}
    /\ busy = FALSE /\ did = "nothing" /\ said = "nothing"

(* A new version, the first of a fresh database or one more commit, is     *)
(* durable.                                                                *)
Commit ==
    /\ contents' \in Versions \ {contents}
    /\ possible' = {contents'}
    /\ UNCHANGED <<snapshots, busy, did, said>>

(* SQLite moves what its log has into the database.                        *)
Checkpoint ==
    /\ possible' = {contents}
    /\ UNCHANGED <<contents, snapshots, busy, did, said>>

Backup ==
    /\ contents # None
    /\ snapshots' = snapshots \cup {contents}
    /\ UNCHANGED <<contents, possible, busy, did, said>>

Begin ==
    /\ ~busy /\ busy' = TRUE /\ did' = "nothing"
    /\ UNCHANGED <<contents, possible, snapshots, said>>

Prepare ==
    /\ busy /\ Unwritten
    /\ UNCHANGED <<contents, snapshots, busy, did, said>>

Replace ==
    /\ busy /\ did = "nothing" /\ did' = "replaced"
    /\ contents' \in snapshots
    /\ Unwritten
    /\ UNCHANGED <<snapshots, busy, said>>

Delete ==
    /\ busy /\ did = "nothing" /\ did' = "deleted"
    /\ contents' = None
    /\ Unwritten
    /\ UNCHANGED <<snapshots, busy, said>>

(* The last commits may go with the log of the database to be replaced.    *)
Lose ==
    /\ busy /\ did' = "lost"
    /\ contents' \in UpTo(contents)
    /\ Unwritten
    /\ UNCHANGED <<snapshots, busy, said>>

(* The report is true, and what was restored stays.                        *)
End ==
    /\ busy /\ busy' = FALSE
    /\ said' = did /\ did' = "nothing"
    /\ IF did = "replaced" THEN possible' = {contents} ELSE Unwritten
    /\ UNCHANGED <<contents, snapshots>>

(* Killed: only the log may be gone.                                       *)
Die ==
    /\ busy /\ busy' = FALSE /\ did' = "nothing"
    /\ contents' \in UpTo(contents)
    /\ Unwritten
    /\ UNCHANGED <<snapshots, said>>

PowerLoss ==
    /\ contents' \in possible
    /\ possible' = {contents'}
    /\ busy' = FALSE /\ did' = "nothing"
    /\ UNCHANGED <<snapshots, said>>

Next ==
    \/ Commit \/ Checkpoint \/ Backup \/ Begin \/ Prepare \/ Replace \/ Delete
    \/ Lose \/ End \/ Die \/ PowerLoss

Spec == Init /\ [][Next]_avars
================================================================================
