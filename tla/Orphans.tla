-------------------------------- MODULE Orphans --------------------------------
(***************************************************************************)
(* `download orphans` (src/commands/download/orphans.rs): the files of a   *)
(* download dir that several accounts share, against the records of all    *)
(* their databases.  The databases are read one after the other, then the  *)
(* tree is walked, then the user is asked; nothing keeps other commands    *)
(* from downloading, recording and moving files meanwhile.                 *)
(***************************************************************************)
EXTENDS Naturals, FiniteSets

CONSTANTS Accounts,      \* the accounts whose databases are in the db dirs
          Retries        \* attempts the busy budget pays for

VARIABLES file,          \* the files in the download dir
          records,       \* account -> the paths its database records
          busy,          \* databases another command is closing
          damaged,       \* databases this command cannot read
          scan,
          kept           \* history: recorded files since the scan began

ovars == <<file, records, busy, damaged, scan, kept>>

(* Two stems: an encrypted audio file and its key, and a partial.          *)
Stems == {"a", "b"}
Audio(s) == <<s, "aaxc">>
Key(s) == <<s, "voucher">>
Paths == Stems \X {"aaxc", "voucher", "part"}
Partial(p) == p[2] = "part"
Sidecar(p) == {q \in Paths : p[2] = "aaxc" /\ q = Key(p[1])}

Idle == [at |-> "idle", unread |-> {}, referenced |-> {}, listed |-> {}, tries |-> 0]

(* The variables stay in their sets, whatever the steps.                   *)
OTypeOK ==
    /\ file \subseteq Paths /\ kept \subseteq Paths
    /\ records \in [Accounts -> SUBSET Paths]
    /\ busy \subseteq Accounts /\ damaged \subseteq Accounts
    /\ scan.at \in {"idle", "read", "walk", "ask", "delete"}
    /\ scan.unread \subseteq Accounts /\ scan.tries \in 0..Retries
    /\ scan.referenced \subseteq Paths /\ scan.listed \subseteq Paths

OInit ==
    /\ file = {} /\ records = [a \in Accounts |-> {}]
    /\ busy = {} /\ damaged \in SUBSET Accounts /\ scan = Idle /\ kept = {}

Recorded == UNION {records[a] : a \in Accounts}

(* What the records own: the recorded files and the keys beside them.      *)
Owned(r) == r \cup UNION {Sidecar(p) : p \in r}

(* Paths that stay recorded while the scan is under way.                   *)
StillKept == kept' = kept \cap Owned(UNION {records'[a] : a \in Accounts})

-----------------------------------------------------------------------------
(* The other commands.                                                     *)

(* A download: a partial, then the file and its key, then the record.      *)
BeginDownload(s) ==
    /\ <<s, "part">> \notin file
    /\ file' = file \cup {<<s, "part">>}
    /\ UNCHANGED <<records, busy, damaged, scan, kept>>

Publish(s) ==
    /\ <<s, "part">> \in file
    /\ file' = (file \ {<<s, "part">>}) \cup {Audio(s), Key(s)}
    /\ UNCHANGED <<records, busy, damaged, scan, kept>>

RecordDownload(a, s) ==
    /\ Audio(s) \in file /\ Audio(s) \notin Recorded
    /\ records' = [records EXCEPT ![a] = @ \cup {Audio(s)}]
    /\ UNCHANGED <<file, busy, damaged, scan, kept>>

(* reorganize moves a file and its key, one after the other, and then its  *)
(* record; a record goes with its files, or alone.                         *)
MoveFile(a, s, t, kind) ==
    /\ Audio(s) \in records[a] /\ <<s, kind>> \in file /\ <<t, kind>> \notin file
    /\ Audio(t) \notin Recorded
    /\ file' = (file \ {<<s, kind>>}) \cup {<<t, kind>>}
    /\ UNCHANGED <<records, busy, damaged, scan, kept>>

MoveRecord(a, s, t) ==
    /\ Audio(s) \in records[a] \ file /\ Audio(t) \in file \ Recorded
    /\ records' = [records EXCEPT ![a] = (@ \ {Audio(s)}) \cup {Audio(t)}]
    /\ StillKept
    /\ UNCHANGED <<file, busy, damaged, scan>>

Forget(a, s, files) ==
    /\ Audio(s) \in records[a]
    /\ records' = [records EXCEPT ![a] = @ \ {Audio(s)}]
    /\ file' = IF files THEN file \ {Audio(s), Key(s)} ELSE file
    /\ StillKept
    /\ UNCHANGED <<busy, damaged, scan>>

(* A command opens or closes its database.                                 *)
Holds(a) ==
    /\ busy' = IF a \in busy THEN busy \ {a} ELSE busy \cup {a}
    /\ UNCHANGED <<file, records, damaged, scan, kept>>

-----------------------------------------------------------------------------
(* The scan.                                                               *)

Begin ==
    /\ scan.at = "idle"
    /\ scan' = [Idle EXCEPT !.at = "read", !.unread = Accounts]
    /\ kept' = Owned(Recorded)
    /\ UNCHANGED <<file, records, busy, damaged>>

(* Seeded fault: an audio file's key is not taken for referenced.          *)
ReadBare(a) ==
    /\ scan.at = "read" /\ a \in scan.unread /\ a \notin busy \cup damaged
    /\ scan' = [scan EXCEPT !.unread = @ \ {a}, !.tries = 0, !.referenced = @ \cup records[a],
                            !.at = IF scan.unread = {a} THEN "walk" ELSE "read"]
    /\ UNCHANGED <<file, records, busy, damaged, kept>>

Read(a) ==
    /\ scan.at = "read" /\ a \in scan.unread /\ a \notin busy \cup damaged
    /\ scan' = [scan EXCEPT !.unread = @ \ {a}, !.tries = 0,
                            !.referenced = @ \cup Owned(records[a]),
                            !.at = IF scan.unread = {a} THEN "walk" ELSE "read"]
    /\ UNCHANGED <<file, records, busy, damaged, kept>>

(* A busy database is tried again while the budget lasts.                  *)
Retry(a) ==
    /\ scan.at = "read" /\ a \in scan.unread \cap busy /\ scan.tries < Retries
    /\ scan' = [scan EXCEPT !.tries = @ + 1]
    /\ UNCHANGED <<file, records, busy, damaged, kept>>

(* One that cannot be read ends the scan.                                  *)
Abort(a) ==
    /\ scan.at = "read" /\ a \in scan.unread
    /\ a \in damaged \/ (a \in busy /\ scan.tries = Retries)
    /\ scan' = Idle /\ kept' = {}
    /\ UNCHANGED <<file, records, busy, damaged>>

(* Resume data is not listed.                                              *)
Walk ==
    /\ scan.at = "walk"
    /\ LET orphans == {p \in file : ~Partial(p)} \ scan.referenced IN
       /\ scan' = IF orphans = {} THEN Idle ELSE [scan EXCEPT !.at = "ask", !.listed = orphans]
       /\ kept' = IF orphans = {} THEN {} ELSE kept
    /\ UNCHANGED <<file, records, busy, damaged>>

(* --remove, and the question; without it the list is printed.             *)
Confirm(yes) ==
    /\ scan.at = "ask"
    /\ IF yes THEN scan' = [scan EXCEPT !.at = "delete"] /\ UNCHANGED kept
       ELSE scan' = Idle /\ kept' = {}
    /\ UNCHANGED <<file, records, busy, damaged>>

Delete(p) ==
    /\ scan.at = "delete" /\ p \in scan.listed
    /\ file' = file \ {p}
    /\ scan' = IF scan.listed = {p} THEN Idle ELSE [scan EXCEPT !.listed = @ \ {p}]
    /\ kept' = IF scan.listed = {p} THEN {} ELSE kept
    /\ UNCHANGED <<records, busy, damaged>>

ONext ==
    \/ \E s \in Stems : BeginDownload(s) \/ Publish(s)
    \/ \E a \in Accounts, s \in Stems :
          \/ RecordDownload(a, s)
          \/ \E files \in BOOLEAN : Forget(a, s, files)
          \/ \E t \in Stems :
                \/ MoveRecord(a, s, t)
                \/ \E kind \in {"aaxc", "voucher"} : MoveFile(a, s, t, kind)
    \/ \E a \in Accounts : Holds(a) \/ Read(a) \/ Retry(a) \/ Abort(a)
    \/ Begin \/ Walk
    \/ \E yes \in BOOLEAN : Confirm(yes)
    \/ \E p \in Paths : Delete(p)

OSpec == OInit /\ [][ONext]_ovars

-----------------------------------------------------------------------------
(* A file that has been recorded, by whatever account, since before the    *)
(* scan began is not deleted by it, nor is the key beside it               *)
(* (orphans.rs: `never report (or delete) on a partial view`).             *)
LongRecordedIsKept ==
    [][\A p \in Paths : Delete(p) => p \notin kept]_ovars

=============================================================================
