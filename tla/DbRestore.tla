------------------------------- MODULE DbRestore -------------------------------
(***************************************************************************)
(* `db backup`, `db restore` and `db reset` (src/commands/db.rs) step by   *)
(* step, on a directory whose renames reach the disk in no certain order   *)
(* until it is synced.  The database is a file and, while somebody has     *)
(* committed to it, a write-ahead log beside it, which only that database  *)
(* must ever be opened with.                                               *)
(***************************************************************************)
EXTENDS Integers, Sequences, FiniteSets

CONSTANTS None,         \* no file
          MaxVersion,   \* bound on versions of the database
          MaxTrouble    \* bound on kills, power losses and failing calls

VARIABLES
    dir,        \* the directory as processes see it
    disk,       \* the directory as it was last synced
    pending,    \* the changes since, in order
    snapshots,  \* the versions that were backed up
    at,         \* where the restore or reset is
    snap,       \* the version it restores
    did, said,  \* what it has done so far; what the last one reported
    last,       \* the last version number used (bound)
    trouble     \* kills, power losses and failures so far (bound)

fs == <<dir, disk, pending>>
dvars == <<fs, snapshots, at, snap, did, said, last, trouble>>

(* The database, its log and index, and the temporary names of a restore.  *)
Aside == [wal |-> "wal aside", shm |-> "shm aside"]
Names == {"db", "wal", "shm", "staged", "wal aside", "shm aside"}
Temporary == {"staged", "wal aside", "shm aside"}

(* Each database is an individual: `of` tells whose log a log is.  The     *)
(* version of a log includes the commits in it.                            *)
File == [of : 1 .. MaxVersion, version : 1 .. MaxVersion]

(* The variables stay in their sets, whatever the steps.                   *)
RestoreTypeOK ==
    /\ dir \in [Names -> File \cup {None}] /\ disk \in [Names -> File \cup {None}]
    /\ \A i \in DOMAIN pending : pending[i] \in [DOMAIN pending[i] -> File \cup {None}]
    /\ snapshots \subseteq 1 .. MaxVersion
    /\ at \in {"idle", "locked", "staging", "filled", "wal moved", "moved", "barred",
               "undo", "published", "deleting", "unlinked", "cut"}
    /\ snap \in 0 .. MaxVersion
    /\ did \in {"nothing", "replaced", "deleted", "lost"}
    /\ said \in {"nothing", "replaced", "deleted", "lost"}
    /\ last \in 0 .. MaxVersion /\ trouble \in 0 .. MaxTrouble

Init ==
    /\ dir = [n \in Names |-> None] /\ disk = dir /\ pending = <<>>
    /\ snapshots = {} /\ at = "idle" /\ snap = 0
    /\ did = "nothing" /\ said = "nothing"
    /\ last = 0 /\ trouble = 0

Patched(d, change) == [n \in Names |-> IF n \in DOMAIN change THEN change[n] ELSE d[n]]

(* A change of names: visible at once, durable in its time.                *)
Change(change) ==
    /\ dir' = Patched(dir, change)
    /\ pending' = Append(pending, change)
    /\ UNCHANGED disk

Rename(from, to) ==
    Change([n \in {from, to} |-> IF n = from THEN None ELSE dir[from]])

Remove(name) == Change([n \in {name} |-> None])

(* What SQLite commits is durable, and so is all that went before.         *)
Durably(change) ==
    /\ dir' = Patched(dir, change)
    /\ disk' = dir' /\ pending' = <<>>

(* Seeded fault: the directory is not synced.                              *)
NoSync == UNCHANGED fs

SyncParentDir == disk' = dir /\ pending' = <<>> /\ UNCHANGED dir

Trouble == trouble < MaxTrouble /\ trouble' = trouble + 1

-----------------------------------------------------------------------------
(* Commands that just use the database.  They take no lock; the gap this   *)
(* leaves while a database is replaced is stated in the source, and        *)
(* nobody opens one then.                                                  *)

Undisturbed == at \in {"idle", "locked", "staging", "filled"}

Fresh == last < MaxVersion /\ last' = last + 1

(* SQLite drops the log it finds beside a database that does not exist.    *)
Create ==
    /\ Undisturbed /\ dir["db"] = None
    /\ Fresh
    /\ Durably([n \in {"db", "wal", "shm"} |->
                  IF n = "db" THEN [of |-> last + 1, version |-> last + 1] ELSE None])
    /\ UNCHANGED <<snapshots, at, snap, did, said, trouble>>

Commit ==
    /\ Undisturbed /\ dir["db"] # None
    /\ Fresh
    /\ Durably([n \in {"wal", "shm"} |-> [of |-> dir["db"].of, version |-> last + 1]])
    /\ UNCHANGED <<snapshots, at, snap, did, said, trouble>>

(* The last connection moves the log into the database when it closes.     *)
Checkpoint ==
    /\ Undisturbed /\ dir["db"] # None /\ dir["wal"] # None
    /\ Durably([n \in {"db", "wal", "shm"} |-> IF n = "db" THEN dir["wal"] ELSE None])
    /\ UNCHANGED <<snapshots, at, snap, did, said, last, trouble>>

(* What an opener of the database in d finds, 0 being a mixture of two.    *)
(* While a restore can still put the log back, it counts as there.         *)
Found(d) ==
    LET log == IF d["wal"] # None THEN d["wal"]
               ELSE IF at \in {"wal moved", "moved", "barred", "undo"}
                    THEN d["wal aside"] ELSE None
    IN CASE d["db"] = None -> None
         [] d["db"] # None /\ log = None -> d["db"].version
         [] d["db"] # None /\ log # None ->
               IF log.of = d["db"].of THEN log.version ELSE 0

(* VACUUM INTO reads one consistent version.                               *)
Backup ==
    /\ Undisturbed /\ dir["db"] # None
    /\ snapshots' = snapshots \cup {Found(dir)}
    /\ UNCHANGED <<fs, at, snap, did, said, last, trouble>>

-----------------------------------------------------------------------------
(* Restore.                                                                *)

Goto(stage) == at' = stage

(* The temporary names are unique: what an earlier run left under its own  *)
(* is litter.                                                              *)
Lock ==
    /\ at = "idle"
    /\ \E s \in snapshots : snap' = s
    /\ did' = "nothing"
    /\ Goto("locked")
    /\ UNCHANGED <<fs, snapshots, said, last, trouble>>

Stage ==
    /\ at = "locked" /\ Fresh
    /\ Change([n \in {"staged"} |-> [of |-> last + 1, version |-> snap]])
    /\ Goto("staging")
    /\ UNCHANGED <<snapshots, snap, did, said, trouble>>

(* The command ends and says what became of the database.                  *)
Report(outcome) ==
    /\ said' = outcome /\ did' = "nothing" /\ Goto("idle")

(* Copied and flushed, or, when that fails, taken away again.              *)
FillStaged ==
    /\ at = "staging"
    /\ \/ /\ Goto("filled")
          /\ UNCHANGED <<fs, did, said, trouble>>
       \/ /\ Trouble /\ Remove("staged") /\ Report("nothing")
    /\ UNCHANGED <<snapshots, snap, last>>

Quarantined(side) == dir[side] # None

QuarantineSidecars ==
    /\ \/ /\ at = "filled" /\ Goto("wal moved")
          /\ IF Quarantined("wal") THEN Rename("wal", Aside["wal"]) ELSE UNCHANGED fs
          /\ UNCHANGED <<did, said, trouble>>
       \/ /\ at = "filled" /\ Quarantined("wal")
          /\ Trouble /\ Remove("staged") /\ Report("nothing")
       \/ /\ at = "wal moved" /\ Goto("moved")
          /\ IF Quarantined("shm") THEN Rename("shm", Aside["shm"]) ELSE UNCHANGED fs
          /\ UNCHANGED <<did, said, trouble>>
       \/ /\ at = "wal moved" /\ Quarantined("shm")
          /\ Trouble /\ Goto("undo") /\ UNCHANGED <<fs, did, said>>
    /\ UNCHANGED <<snapshots, snap, last>>

(* Before the snapshot is published the quarantine must be on the disk.    *)
Barrier ==
    /\ at = "moved" /\ Goto("barred")
    /\ SyncParentDir
    /\ UNCHANGED <<snapshots, snap, did, said, last, trouble>>

Publish ==
    /\ at = "barred"
    /\ \/ /\ Rename("staged", "db") /\ did' = "replaced" /\ Goto("published")
          /\ UNCHANGED trouble
       \/ /\ Trouble /\ Goto("undo") /\ UNCHANGED <<fs, did>>
    /\ UNCHANGED <<snapshots, snap, said, last>>

(* Putting the sidecars back; one that does not go back is reported, and a *)
(* log that does not is a loss.  The sync that ends a failed publication   *)
(* is left out: without it more outcomes are possible, not fewer.          *)
Undo ==
    LET side == IF dir["wal aside"] # None THEN "wal" ELSE "shm"
    IN /\ at = "undo"
       /\ IF dir["wal aside"] = None /\ dir["shm aside"] = None
          THEN /\ Remove("staged") /\ Report(did) /\ UNCHANGED trouble
          ELSE \/ Rename(Aside[side], side) /\ UNCHANGED <<at, did, said, trouble>>
               \/ /\ Trouble /\ Remove(Aside[side])
                  /\ did' = IF side = "wal" THEN "lost" ELSE did
                  /\ UNCHANGED <<at, said>>
       /\ UNCHANGED <<snapshots, snap, last>>

(* The old sidecars go, best-effort, and the directory is synced.          *)
CleanUp ==
    /\ at = "published"
    /\ Report("replaced")
    /\ dir' = [n \in Names |-> IF n \in Temporary THEN None ELSE dir[n]]
    /\ disk' = dir' /\ pending' = <<>>
    /\ UNCHANGED <<snapshots, snap, last, trouble>>

-----------------------------------------------------------------------------
(* Reset: the database first, then its sidecars; what cannot be removed is *)
(* reported and the rest is tried all the same.                            *)

Reset ==
    /\ at = "idle" /\ \E n \in {"db", "wal", "shm"} : dir[n] # None
    /\ did' = "nothing" /\ Goto("deleting")
    /\ UNCHANGED <<fs, snapshots, snap, said, last, trouble>>

Victim == [deleting |-> "db", unlinked |-> "wal", cut |-> "shm"]

RemoveDatabaseFiles ==
    /\ at \in DOMAIN Victim
    /\ LET victim == Victim[at]
           there == dir[victim] # None
           after(removed) ==
               CASE removed /\ there /\ victim = "db" -> "deleted"
                 [] removed /\ there /\ victim = "wal" /\ dir["db"] # None -> "lost"
                 [] OTHER -> did
           goOn(now) ==
               IF at = "cut" THEN Report(now)
               ELSE /\ did' = now /\ UNCHANGED said
                    /\ Goto(IF at = "deleting" THEN "unlinked" ELSE "cut")
       IN \/ Remove(victim) /\ goOn(after(TRUE)) /\ UNCHANGED trouble
          \/ there /\ Trouble /\ goOn(did) /\ UNCHANGED fs
    /\ UNCHANGED <<snapshots, snap, last>>

-----------------------------------------------------------------------------

Clear(d) == [n \in Names |-> IF n \in Temporary THEN None ELSE d[n]]

(* The process is gone; its temporary names mean nothing to later runs.    *)
Killed ==
    /\ at # "idle" /\ Trouble /\ Goto("idle") /\ did' = "nothing"
    /\ dir' = Clear(dir)
    /\ UNCHANGED <<disk, pending, snapshots, snap, said, last>>

(* Of the changes since the last sync any may have reached the disk, those *)
(* of one name in their order.                                             *)
Written(kept) ==
    [n \in Names |->
        LET changes == {i \in kept : n \in DOMAIN pending[i]}
        IN IF changes = {} THEN disk[n]
           ELSE pending[CHOOSE i \in changes : \A k \in changes : k <= i][n]]

AfterPowerLoss == {Clear(Written(kept)) : kept \in SUBSET DOMAIN pending}

PowerLoss ==
    /\ Trouble /\ Goto("idle") /\ did' = "nothing"
    /\ dir' \in AfterPowerLoss
    /\ disk' = dir' /\ pending' = <<>>
    /\ UNCHANGED <<snapshots, snap, said, last>>

Next ==
    \/ Create \/ Commit \/ Checkpoint \/ Backup
    \/ Lock \/ Stage \/ FillStaged \/ QuarantineSidecars \/ Barrier \/ Publish
    \/ Undo \/ CleanUp
    \/ Reset \/ RemoveDatabaseFiles
    \/ Killed \/ PowerLoss

DbSpec == Init /\ [][Next]_dvars

-----------------------------------------------------------------------------

(* db.rs:602-645: whatever fails, dies or reaches the disk in which order, *)
(* an opener finds the old database, the snapshot, or the old one without  *)
(* its last commits; and the command's last word is true.                  *)
Replaces == INSTANCE DbReplace WITH contents <- Found(dir), possible <- {Found(d) : d \in AfterPowerLoss},
                                     busy <- (at # "idle")

ImplementsReplace == Replaces!Spec
================================================================================
