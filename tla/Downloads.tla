------------------------------ MODULE Downloads ------------------------------
(***************************************************************************)
(* The files of the download directory and the records the database keeps  *)
(* of them: batches of `download` with --decrypt, --force and              *)
(* --keep-source (src/commands/download/), `download reorganize`, `db      *)
(* downloads remove` and `prune`, and users who delete files by hand.      *)
(*                                                                         *)
(* One audio format in one marketplace; how a transfer makes a file out of *)
(* the server's answers is module Transfer's.  A title is recorded as      *)
(* `original` (the aaxc, with its key in a sidecar beside it) and as       *)
(* `decrypted` (the m4b).                                                  *)
(***************************************************************************)
EXTENDS FiniteSets, Integers

CONSTANTS Titles,       \* ASINs
          Names,        \* what a title's document and the settings render to
          None,         \* no title, no file
          Broken,       \* a decrypted file that does not play
          MaxTrouble    \* bound on failures, crashes, renames and deletions by hand

ASSUME MaxTroubleAssumption == MaxTrouble \in Nat

(* A base name, and the ASIN appended to it if another title has it.       *)
Stem == Names \X (Titles \cup {None})
Variant == {"original", "decrypted"}
Kind == {"aaxc", "key", "m4b"}
KindOf == [original |-> "aaxc", decrypted |-> "m4b"]

VARIABLES
    name,      \* what each title's name renders to now
    disk,      \* each file: the title whose it is, Broken, or None
    rec,       \* the downloads table: each record's path
    run,       \* options of the download batch that runs, NoRun if none does
    claims,    \* the batch's ClaimedStems
    item,      \* each title's download_one: where it stands, and its locals
    cmd,       \* the maintenance command that runs, and its locals
    trouble,   \* how many of them there were (bound)
    spoiled    \* history: a file was moved to where another title is recorded

batch == <<run, claims, item>>
vars == <<name, disk, rec, batch, cmd, trouble, spoiled>>

Key == Titles \X Variant
NoRun == [on |-> FALSE, force |-> FALSE, decrypt |-> FALSE, keep |-> FALSE]
Phase == {"none", "waiting", "looked", "named", "transfer", "downloaded", "keyed",
          "decrypt", "tool", "made", "cleanup", "drop"}
NoItem == [at |-> "none", stem |-> None, taken |-> FALSE, fresh |-> FALSE,
           out |-> None]
NoCmd == [at |-> "idle", moves |-> {}, now |-> None, copy |-> FALSE, paths |-> {}]
Move == [key : Key, old : Stem, new : Stem]

ASSUME NoneAssumption ==
    {None, Broken} \cap Titles = {} /\ None # Broken /\ None \notin Stem \cup Move

(* The variables stay in their sets, whatever the steps.                   *)
TypeOK ==
    /\ name \in [Titles -> Names]
    /\ disk \in [Stem -> [Kind -> Titles \cup {None, Broken}]]
    /\ rec \in [Titles -> [Variant -> Stem \cup {None}]]
    /\ run \in [on : BOOLEAN, force : BOOLEAN, decrypt : BOOLEAN, keep : BOOLEAN]
    /\ claims \subseteq Stem \X Titles
    /\ item \in [Titles -> [at : Phase, stem : Stem \cup {None}, taken : BOOLEAN,
                            fresh : BOOLEAN, out : Titles \cup {None, Broken}]]
    /\ cmd.at \in {"idle", "unlink", "next", "key", "path"}
    /\ cmd.moves \subseteq Move /\ cmd.now \in Move \cup {None}
    /\ cmd.at \in {"key", "path"} <=> cmd.now # None
    /\ cmd.copy \in BOOLEAN
    /\ cmd.paths \subseteq Stem \X Kind
    /\ trouble \in 0 .. MaxTrouble /\ spoiled \in BOOLEAN

Init ==
    /\ name \in [Titles -> Names]
    /\ disk = [s \in Stem |-> [k \in Kind |-> None]]
    /\ rec = [t \in Titles |-> [v \in Variant |-> None]]
    /\ run = NoRun /\ claims = {} /\ item = [t \in Titles |-> NoItem]
    /\ cmd = NoCmd
    /\ trouble = 0 /\ spoiled = FALSE

Trouble == trouble < MaxTrouble /\ trouble' = trouble + 1
Quiet == UNCHANGED <<trouble, spoiled>>

-----------------------------------------------------------------------------
(* A download batch, and its items side by side.                           *)

StartBatch ==
    /\ ~run.on /\ cmd.at = "idle"
    /\ run' \in [on : {TRUE}, force : BOOLEAN, decrypt : BOOLEAN, keep : BOOLEAN]
    /\ run'.keep => run'.decrypt
    /\ \E asins \in (SUBSET Titles) \ {{}} :
          item' = [t \in Titles |-> IF t \in asins THEN [NoItem EXCEPT !.at = "waiting"]
                                                   ELSE NoItem]
    /\ UNCHANGED <<name, disk, rec, claims, cmd, trouble, spoiled>>

EndBatch ==
    /\ run.on /\ \A t \in Titles : item[t].at = "none"
    /\ run' = NoRun /\ claims' = {}
    /\ UNCHANGED <<name, disk, rec, item, cmd, trouble, spoiled>>

Goto(t, at) == item' = [item EXCEPT ![t].at = at]
Done(t) == item' = [item EXCEPT ![t] = NoItem]

Recorded(t, s) == \E v \in Variant : rec[t][v] = s

(* Seeded fault: the records are not consulted.                            *)
BaseFilenameAlone(t) ==
    /\ item[t].at = "waiting"
    /\ item' = [item EXCEPT ![t].at = "looked", ![t].stem = <<name[t], None>>]
    /\ UNCHANGED <<name, disk, rec, run, claims, cmd>> /\ Quiet

(* The database half of the collision guard: a record of another title     *)
(* under the name, whether its file is there or not.                       *)
BaseFilename(t) ==
    /\ item[t].at = "waiting"
    /\ LET s == <<name[t], None>>
       IN  item' = [item EXCEPT ![t].at = "looked", ![t].stem = s,
                                ![t].taken = \E u \in Titles \ {t} : Recorded(u, s)]
    /\ UNCHANGED <<name, disk, rec, run, claims, cmd>> /\ Quiet

(* Seeded fault: what the batch has in flight is not consulted.            *)
ClaimAnyway(t) ==
    /\ item[t].at = "looked"
    /\ LET s == item[t].stem
           mine == IF ~item[t].taken THEN s ELSE <<s[1], t>>
       IN  /\ claims' = claims \cup {<<mine, t>>}
           /\ item' = [item EXCEPT ![t].at = "named", ![t].stem = mine,
                                   ![t].taken = FALSE]
    /\ UNCHANGED <<name, disk, rec, run, cmd>> /\ Quiet

(* The half for what is in flight.  Claims last as long as the batch.      *)
Claim(t) ==
    /\ item[t].at = "looked"
    /\ LET s == item[t].stem
           free == ~item[t].taken /\ \A u \in Titles \ {t} : <<s, u>> \notin claims
           mine == IF free THEN s ELSE <<s[1], t>>
       IN  /\ claims' = claims \cup {<<mine, t>>}
           /\ item' = [item EXCEPT ![t].at = "named", ![t].stem = mine,
                                   ![t].taken = FALSE]
    /\ UNCHANGED <<name, disk, rec, run, cmd>> /\ Quiet

(* Any record of the format stands for the title, with or without a file.  *)
SkipAlreadyDownloaded(t) ==
    /\ item[t].at = "named"
    /\ IF run.force \/ \A v \in Variant : rec[t][v] = None
       THEN Goto(t, "transfer")
       ELSE IF run.decrypt THEN Goto(t, "decrypt") ELSE Done(t)
    /\ UNCHANGED <<name, disk, rec, run, claims, cmd>> /\ Quiet

(* stream_to_file: a complete file of the title stays, any other goes.     *)
Transfer(t) ==
    /\ item[t].at = "transfer"
    /\ disk' = [disk EXCEPT ![item[t].stem]["aaxc"] = t]
    /\ Goto(t, "downloaded")
    /\ UNCHANGED <<name, rec, run, claims, cmd>> /\ Quiet

(* Without a key the item goes on, with a warning.                         *)
WriteKeyfile(t) ==
    /\ item[t].at = "downloaded"
    /\ \/ disk' = [disk EXCEPT ![item[t].stem]["key"] = t] /\ UNCHANGED trouble
       \/ Trouble /\ UNCHANGED disk
    /\ Goto(t, "keyed")
    /\ UNCHANGED <<name, rec, run, claims, cmd, spoiled>>

RecordDownload(t) ==
    /\ item[t].at = "keyed"
    /\ rec' = [rec EXCEPT ![t]["original"] = item[t].stem]
    /\ IF run.decrypt THEN item' = [item EXCEPT ![t].at = "decrypt", ![t].fresh = TRUE]
                      ELSE Done(t)
    /\ UNCHANGED <<name, disk, run, claims, cmd>> /\ Quiet

(* The file of this run, else the recorded one, if it is on disk.          *)
Source(t) ==
    LET s == IF item[t].fresh THEN item[t].stem ELSE rec[t]["original"]
    IN  IF s # None /\ disk[s]["aaxc"] # None THEN s ELSE None

(* Already decrypted, no source, or no key: nothing to do.  Otherwise the  *)
(* tool starts to write the m4b; a wrong key makes noise.                  *)
DecryptItem(t) ==
    /\ item[t].at = "decrypt"
    /\ LET s == Source(t)
       IN  IF \/ s = None
              \/ ~run.force /\ rec[t]["decrypted"] # None
              \/ disk[s]["key"] = None
           THEN Done(t) /\ UNCHANGED disk
           ELSE /\ disk' = [disk EXCEPT ![s]["m4b"] = Broken]
                /\ item' = [item EXCEPT ![t].at = "tool", ![t].stem = s, ![t].fresh = FALSE,
                      ![t].out = IF disk[s]["key"] = disk[s]["aaxc"]
                                 THEN disk[s]["aaxc"] ELSE Broken]
    /\ UNCHANGED <<name, rec, run, claims, cmd>> /\ Quiet

ToolSucceeds(t) ==
    /\ item[t].at = "tool"
    /\ disk' = [disk EXCEPT ![item[t].stem]["m4b"] = item[t].out]
    /\ item' = [item EXCEPT ![t].at = "made", ![t].out = None]
    /\ UNCHANGED <<name, rec, run, claims, cmd>> /\ Quiet

(* Seeded fault: the exit status of the tool is not looked at.             *)
ToolFailsUnseen(t) ==
    /\ item[t].at = "tool" /\ Trouble
    /\ Goto(t, "made")
    /\ UNCHANGED <<name, disk, rec, run, claims, cmd, spoiled>>

ToolFails(t) ==
    /\ item[t].at = "tool" /\ Trouble
    /\ disk' = [disk EXCEPT ![item[t].stem]["m4b"] = None]
    /\ Done(t)
    /\ UNCHANGED <<name, rec, run, claims, cmd, spoiled>>

RecordDecrypted(t) ==
    /\ item[t].at = "made"
    /\ rec' = [rec EXCEPT ![t]["decrypted"] = item[t].stem]
    /\ IF run.keep THEN Done(t) ELSE Goto(t, "cleanup")
    /\ UNCHANGED <<name, disk, run, claims, cmd>> /\ Quiet

(* Best effort, the key after the file.                                    *)
RemoveSource(t) ==
    /\ item[t].at = "cleanup"
    /\ \/ disk' = [disk EXCEPT ![item[t].stem]["aaxc"] = None,
                               ![item[t].stem]["key"] = None]
          /\ UNCHANGED trouble
       \/ /\ Trouble
          /\ disk' = [disk EXCEPT ![item[t].stem]["aaxc"] = None]
    /\ Goto(t, "drop")
    /\ UNCHANGED <<name, rec, run, claims, cmd, spoiled>>

DropOriginalRecord(t) ==
    /\ item[t].at = "drop"
    /\ rec' = [rec EXCEPT ![t]["original"] = None]
    /\ Done(t)
    /\ UNCHANGED <<name, disk, run, claims, cmd>> /\ Quiet

(* A license, a transfer or the database fails: the others go on.          *)
ItemFails(t) ==
    /\ item[t].at \notin {"none", "tool"} /\ Trouble
    /\ Done(t)
    /\ UNCHANGED <<name, disk, rec, run, claims, cmd, spoiled>>

-----------------------------------------------------------------------------
(* Maintenance, while no batch and no other command runs.                  *)

Free == ~run.on /\ cmd.at = "idle"

(* An original is deleted with its key.                                    *)
FilesAt(s, v) == IF v = "original" THEN {<<s, "aaxc">>, <<s, "key">>} ELSE {<<s, "m4b">>}

(* `db downloads remove [--with-files]`: the files go after the records.   *)
DownloadsRemove(asins, variants, files) ==
    /\ Free
    /\ LET keys == {k \in asins \X variants : rec[k[1]][k[2]] # None}
       IN  /\ keys # {}
           /\ rec' = [t \in Titles |-> [v \in Variant |->
                         IF <<t, v>> \in keys THEN None ELSE rec[t][v]]]
           /\ IF files
              THEN cmd' = [NoCmd EXCEPT !.at = "unlink",
                             !.paths = UNION {FilesAt(rec[k[1]][k[2]], k[2]) : k \in keys}]
              ELSE UNCHANGED cmd
    /\ UNCHANGED <<name, disk, batch>> /\ Quiet

(* `db downloads prune`: the records whose file is missing.                *)
DownloadsPrune ==
    /\ Free
    /\ LET missing(t, v) == rec[t][v] # None /\ disk[rec[t][v]][KindOf[v]] = None
       IN  rec' = [t \in Titles |-> [v \in Variant |->
                      IF missing(t, v) THEN None ELSE rec[t][v]]]
    /\ UNCHANGED <<name, disk, batch, cmd>> /\ Quiet

(* A file that cannot be deleted is only warned about.                     *)
DeleteFiles ==
    /\ cmd.at = "unlink"
    /\ disk' = [s \in Stem |-> [k \in Kind |->
                  IF <<s, k>> \in cmd.paths THEN None ELSE disk[s][k]]]
    /\ cmd' = NoCmd
    /\ UNCHANGED <<name, rec, batch>> /\ Quiet

(* A record's place under the present naming, which appends no ASIN.       *)
PlannedMoves ==
    {[key |-> <<t, v>>, old |-> rec[t][v], new |-> <<name[t], None>>] :
        t \in Titles, v \in Variant}

Planned == {m \in PlannedMoves : m.old \notin {None, m.new}}

Collide(moves) ==
    \E m, n \in moves : m # n /\ m.new = n.new /\ m.key[2] = n.key[2]

(* `download reorganize`, which refuses a plan with two files on one path. *)
Reorganize(copy) ==
    /\ Free
    /\ Planned # {} /\ ~Collide(Planned)
    /\ cmd' = [NoCmd EXCEPT !.at = "next", !.moves = Planned, !.copy = copy]
    /\ UNCHANGED <<name, disk, rec, batch>> /\ Quiet

(* Seeded fault: what is in the way is overwritten.                        *)
CanOverwrite(m, kind) == disk[m.old][kind] # None

(* The file alone; what is in the way stays.                               *)
CanRelocate(m, kind) == disk[m.old][kind] # None /\ disk[m.new][kind] = None

Relocated(m, kind) ==
    [disk EXCEPT ![m.new][kind] = disk[m.old][kind],
                 ![m.old][kind] = IF cmd.copy THEN @ ELSE None]

(* Seeded fault: a move that is skipped is recorded all the same.          *)
RelocateFileUnseen(m) ==
    /\ cmd.at = "next" /\ m \in cmd.moves
    /\ LET kind == KindOf[m.key[2]]
       IN  disk' = IF CanRelocate(m, kind) THEN Relocated(m, kind) ELSE disk
    /\ cmd' = [cmd EXCEPT !.moves = @ \ {m}, !.now = m, !.at = "path"]
    /\ spoiled' = (spoiled \/ \E u \in Titles \ {m.key[1]} : Recorded(u, m.new))
    /\ UNCHANGED <<name, rec, batch, trouble>>

(* The moves in the order of their ASINs, which may be any order.          *)
RelocateFile(m) ==
    /\ cmd.at = "next" /\ m \in cmd.moves
    /\ LET kind == KindOf[m.key[2]]
       IN  IF CanRelocate(m, kind)
           THEN /\ disk' = Relocated(m, kind)
                /\ cmd' = [cmd EXCEPT !.moves = @ \ {m}, !.now = m,
                             !.at = IF kind = "aaxc" THEN "key" ELSE "path"]
                /\ spoiled' = (spoiled \/ \E u \in Titles \ {m.key[1]} :
                                             Recorded(u, m.new))
           ELSE /\ cmd' = [cmd EXCEPT !.moves = @ \ {m}]
                /\ UNCHANGED <<disk, spoiled>>
    /\ UNCHANGED <<name, rec, batch, trouble>>

(* A sidecar that is not there, or cannot follow, holds nothing up.        *)
RelocateSidecar ==
    /\ cmd.at = "key"
    /\ disk' = IF CanRelocate(cmd.now, "key") THEN Relocated(cmd.now, "key") ELSE disk
    /\ cmd' = [cmd EXCEPT !.at = "path"]
    /\ UNCHANGED <<name, rec, batch>> /\ Quiet

UpdateDownloadPath ==
    /\ cmd.at = "path"
    /\ LET t == cmd.now.key[1]  v == cmd.now.key[2]
       IN  rec' = IF rec[t][v] = None THEN rec ELSE [rec EXCEPT ![t][v] = cmd.now.new]
    /\ cmd' = [cmd EXCEPT !.at = "next", !.now = None]
    /\ UNCHANGED <<name, disk, batch>> /\ Quiet

EndReorganize ==
    /\ cmd.at = "next" /\ cmd.moves = {}
    /\ cmd' = NoCmd
    /\ UNCHANGED <<name, disk, rec, batch>> /\ Quiet

-----------------------------------------------------------------------------
(* Around them.                                                            *)

(* A sync brings another title text, or the naming settings change (also   *)
(* by a reorganization itself, which stores them before it moves a file).  *)
Rename(t) ==
    /\ Free /\ Trouble
    /\ \E n \in Names \ {name[t]} : name' = [name EXCEPT ![t] = n]
    /\ UNCHANGED <<disk, rec, batch, cmd, spoiled>>

(* A user deletes a file by hand, typically an aaxc that was decrypted.    *)
DeletedByHand(s, kind) ==
    /\ Free /\ disk[s][kind] # None
    /\ Trouble
    /\ disk' = [disk EXCEPT ![s][kind] = None]
    /\ UNCHANGED <<name, rec, batch, cmd, spoiled>>

(* Whatever runs is killed; what a tool has written of its output stays.   *)
Crash ==
    /\ run.on \/ cmd.at # "idle"
    /\ Trouble
    /\ run' = NoRun /\ claims' = {} /\ item' = [t \in Titles |-> NoItem]
    /\ cmd' = NoCmd
    /\ UNCHANGED <<name, disk, rec, spoiled>>

ItemStep(t) ==
    \/ BaseFilename(t) \/ Claim(t) \/ SkipAlreadyDownloaded(t)
    \/ Transfer(t) \/ WriteKeyfile(t) \/ RecordDownload(t)
    \/ DecryptItem(t) \/ ToolSucceeds(t) \/ ToolFails(t) \/ RecordDecrypted(t)
    \/ RemoveSource(t) \/ DropOriginalRecord(t) \/ ItemFails(t)

Maintenance ==
    \/ \E asins \in SUBSET Titles, variants \in SUBSET Variant, files \in BOOLEAN :
          DownloadsRemove(asins, variants, files)
    \/ DownloadsPrune \/ DeleteFiles
    \/ \E copy \in BOOLEAN : Reorganize(copy)
    \/ \E m \in cmd.moves : RelocateFile(m)
    \/ RelocateSidecar \/ UpdateDownloadPath \/ EndReorganize

Next ==
    \/ StartBatch \/ EndBatch \/ \E t \in Titles : ItemStep(t)
    \/ Maintenance
    \/ \E t \in Titles : Rename(t)
    \/ \E s \in Stem, kind \in Kind : DeletedByHand(s, kind)
    \/ Crash

Spec == Init /\ [][Next]_vars

-----------------------------------------------------------------------------

Writing(t) == item[t].at \notin {"none", "waiting", "looked"}

(* naming.rs:131-139: two titles of one name are never written to one      *)
(* path.  An item's stem is no other item's, and no other title's record   *)
(* names it, whatever the other items of the batch finish meanwhile.       *)
StemsApart ==
    \A t, u \in Titles :
        t # u /\ Writing(t) /\ ~spoiled
          => /\ Writing(u) => item[t].stem # item[u].stem
             /\ ~Recorded(u, item[t].stem)

(* A record whose file is there names a file of its own title.             *)
RecordsAreTrue ==
    ~spoiled =>
        \A t \in Titles, v \in Variant :
            rec[t][v] # None => disk[rec[t][v]][KindOf[v]] \in {t, None, Broken}

(* A file that its own title's records alone name is replaced or deleted   *)
(* only by work on that title: no download of another, no decryption, no   *)
(* removal and no move touches it.                                         *)
WorkOn(t) ==
    \/ item'[t] # item[t]
    \/ cmd'.now # None /\ cmd'.now.key[1] = t
    \/ \E s \in Stem, kind \in Kind : DeletedByHand(s, kind)

TrackedIsKept ==
    [][\A t \in Titles, v \in Variant :
          LET s == rec[t][v]
          IN  s # None /\ ~spoiled' /\ disk[s][KindOf[v]] = t /\ disk'[s][KindOf[v]] # t
                => WorkOn(t)]_vars

(* Moving files neither overwrites nor loses any: after each step of a     *)
(* reorganization the directory holds the same files.                      *)
Copies(d, kind, t) == Cardinality({s \in Stem : d[s][kind] = t})

ReorganizeLosesNothing ==
    [][cmd.at \in {"next", "key", "path"}
         => \A kind \in Kind, t \in Titles \cup {Broken} :
               Copies(disk', kind, t) >= Copies(disk, kind, t)]_vars

(* --remove-source deletes an original only when the title's decrypted     *)
(* file plays and is recorded, as long as the sidecar was the title's own: *)
(* where a key could not be written, one that an earlier title left beside *)
(* the file is used.                                                       *)
SourceKeptUntilDecrypted ==
    [][\A t \in Titles :
          item[t].at = "cleanup" /\ disk[item[t].stem]["aaxc"] = t
            /\ disk[item[t].stem]["key"] = t
            /\ disk'[item[t].stem]["aaxc"] # t /\ ~spoiled
          => disk[item[t].stem]["m4b"] = t /\ rec[t]["decrypted"] = item[t].stem]_vars

=============================================================================
