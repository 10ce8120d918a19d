------------------------------ MODULE Annotations ------------------------------
(***************************************************************************)
(* `audible annotations` (src/commands/annotations.rs): the bookmarks and  *)
(* notes of titles, fetched at once for many of them, stored in a row each *)
(* and, with --save, in an `.annot` file that `download reorganize` moves. *)
(* One command at a time; its fetches run beside each other.               *)
(***************************************************************************)
EXTENDS Integers, FiniteSets

CONSTANTS Titles,
          Marked,        \* \subseteq Titles: have annotations from the start
          Stems,         \* file names without their extension
          Lost,          \* the file of a write that failed
          NoRow, NoPath,
          MaxVersion,    \* bound on the changes of a title's annotations
          MaxTrouble     \* bound on failures and killed commands

VARIABLES server,        \* the version of a title's annotations; 0 for none
          base,          \* base_filename of each title
          rows,          \* the annotations table
          files,         \* the .annot files
          cmd,           \* the running sync
          trouble

avars == <<server, base, rows, files, cmd, trouble>>

Versions == 0..MaxVersion
Row == [status : {"ok", "none"}, doc : Versions, path : Stems \cup {NoPath}]
File == [of : Titles, doc : Versions]
Stages == {"waiting", "fetched", "stored", "written", "ok", "none", "failed"}
Idle == [stage |-> "idle", save |-> FALSE, targets |-> {}, task |-> [t \in {} |-> "ok"],
         doc |-> [t \in {} |-> 0]]

AInit ==
    /\ server = [t \in Titles |-> IF t \in Marked THEN 1 ELSE 0]
    /\ base \in [Titles -> Stems]
    /\ rows = [t \in Titles |-> NoRow]
    /\ files = [s \in Stems |-> NoPath]
    /\ cmd = Idle /\ trouble = 0

(* The user sets bookmarks in a player; a title is renamed, or the filename*)
(* settings change.                                                        *)
Annotate(t) ==
    /\ server[t] < MaxVersion
    /\ server' = [server EXCEPT ![t] = @ + 1]
    /\ UNCHANGED <<base, rows, files, cmd, trouble>>

Rename(t, s) ==
    /\ cmd.stage = "idle" /\ s # base[t] /\ trouble < MaxTrouble
    /\ base' = [base EXCEPT ![t] = s]
    /\ trouble' = trouble + 1
    /\ UNCHANGED <<server, rows, files, cmd>>

Trouble == trouble < MaxTrouble /\ trouble' = trouble + 1
Smooth == UNCHANGED trouble

-----------------------------------------------------------------------------
(* sync, and show --refresh for one title.                                 *)

(* --missing: a title that is known to have none counts as synced.         *)
AnnotationTargets(only_missing) ==
    IF only_missing THEN {t \in Titles : rows[t] = NoRow} ELSE Titles

Selections ==
    {AnnotationTargets(FALSE), AnnotationTargets(TRUE)} \cup {{t} : t \in Titles}

Begin(save) ==
    /\ cmd.stage \in {"idle", "ok", "failed"}
    /\ \E targets \in Selections :
          cmd' = [stage |-> "running", save |-> save, targets |-> targets,
                  task |-> [t \in targets |-> "waiting"], doc |-> [t \in targets |-> 0]]
    /\ UNCHANGED <<server, base, rows, files, trouble>>

At(t, stage) == cmd.stage = "running" /\ t \in cmd.targets /\ cmd.task[t] = stage

Goes(t, stage) == cmd' = [cmd EXCEPT !.task[t] = stage]

(* Seeded fault: an answer that cannot be read counts as none (audit A14). *)
RequestAnnotationsLeniently(t) ==
    /\ At(t, "waiting")
    /\ \/ cmd' = [cmd EXCEPT !.task[t] = "fetched", !.doc[t] = server[t]] /\ Smooth
       \/ cmd' = [cmd EXCEPT !.task[t] = "fetched", !.doc[t] = 0] /\ Trouble
    /\ UNCHANGED <<server, base, rows, files>>

(* The payload, or none (404, an empty body); any other answer fails.      *)
RequestAnnotations(t) ==
    /\ At(t, "waiting")
    /\ \/ cmd' = [cmd EXCEPT !.task[t] = "fetched", !.doc[t] = server[t]] /\ Smooth
       \/ Goes(t, "failed") /\ Trouble
    /\ UNCHANGED <<server, base, rows, files>>

(* The row keeps the path of a file that was saved before.                 *)
Stored(t, doc) ==
    [status |-> IF doc = 0 THEN "none" ELSE "ok", doc |-> doc,
     path |-> IF rows[t] = NoRow THEN NoPath ELSE rows[t].path]

UpsertAnnotation(t) ==
    /\ At(t, "fetched")
    /\ \/ /\ rows' = [rows EXCEPT ![t] = Stored(t, cmd.doc[t])]
          /\ Goes(t, IF cmd.doc[t] = 0 THEN "none" ELSE IF cmd.save THEN "stored" ELSE "ok")
          /\ Smooth
       \/ Goes(t, "failed") /\ Trouble /\ UNCHANGED rows
    /\ UNCHANGED <<server, base, files>>

(* Seeded fault: a file that could not be written is left to the log.      *)
SaveAnnotQuietly(t) ==
    /\ At(t, "stored")
    /\ \/ /\ files' = [files EXCEPT ![base[t]] = [of |-> t, doc |-> cmd.doc[t]]]
          /\ Goes(t, "written") /\ Smooth
       \/ /\ files' = [files EXCEPT ![base[t]] = Lost]
          /\ Goes(t, "ok") /\ Trouble
    /\ UNCHANGED <<server, base, rows>>

(* save_annot: in place, under the title's own base name.                  *)
SaveAnnot(t) ==
    /\ At(t, "stored")
    /\ \/ /\ files' = [files EXCEPT ![base[t]] = [of |-> t, doc |-> cmd.doc[t]]]
          /\ Goes(t, "written") /\ Smooth
       \/ /\ files' \in {files, [files EXCEPT ![base[t]] = Lost]}
          /\ Goes(t, "failed") /\ Trouble
    /\ UNCHANGED <<server, base, rows>>

SetAnnotationPath(t) ==
    /\ At(t, "written")
    /\ \/ /\ rows' = [rows EXCEPT ![t].path = base[t]]
          /\ Goes(t, "ok") /\ Smooth
       \/ Goes(t, "failed") /\ Trouble /\ UNCHANGED rows
    /\ UNCHANGED <<server, base, files>>

(* The summary: a run with a failure fails.                                *)
Finish ==
    /\ cmd.stage = "running"
    /\ \A t \in cmd.targets : cmd.task[t] \in {"ok", "none", "failed"}
    /\ cmd' = [cmd EXCEPT !.stage =
                 IF \E t \in cmd.targets : cmd.task[t] = "failed" THEN "failed" ELSE "ok"]
    /\ UNCHANGED <<server, base, rows, files, trouble>>

(* A killed run, perhaps amid a write.                                     *)
Killed ==
    /\ cmd.stage = "running" /\ Trouble
    /\ files' \in {files} \cup {[files EXCEPT ![base[t]] = Lost] :
                                   t \in {u \in cmd.targets : cmd.task[u] = "stored"}}
    /\ cmd' = Idle
    /\ UNCHANGED <<server, base, rows>>

(* The moment after a run: its report has been read.                       *)
Forget ==
    /\ cmd.stage \in {"ok", "failed"}
    /\ cmd' = Idle
    /\ UNCHANGED <<server, base, rows, files, trouble>>

-----------------------------------------------------------------------------
(* download reorganize, one recorded .annot file: never over another file, *)
(* and not at all if two are planned onto one path.                        *)

Planned == {t \in Titles : rows[t] # NoRow /\ rows[t].path \notin {NoPath, base[t]}}

CanRelocate(old, new) == files[old] # NoPath /\ files[new] = NoPath

Reorganize(t) ==
    /\ cmd.stage = "idle"
    /\ t \in Planned /\ \A u \in Planned \ {t} : base[u] # base[t]
    /\ CanRelocate(rows[t].path, base[t])
    /\ files' = [files EXCEPT ![base[t]] = files[rows[t].path], ![rows[t].path] = NoPath]
    /\ \/ rows' = [rows EXCEPT ![t].path = base[t]] /\ Smooth
       \/ UNCHANGED rows /\ Trouble
    /\ UNCHANGED <<server, base, cmd>>

ANext ==
    \/ \E t \in Titles : \/ Annotate(t) \/ RequestAnnotations(t) \/ UpsertAnnotation(t)
                         \/ SaveAnnot(t) \/ SetAnnotationPath(t) \/ Reorganize(t)
                         \/ \E s \in Stems : Rename(t, s)
    \/ \E save \in BOOLEAN : Begin(save)
    \/ Finish \/ Killed \/ Forget

ASpec == AInit /\ [][ANext]_avars

-----------------------------------------------------------------------------
(* The variables stay in their sets, whatever the steps.                   *)
ATypeOK ==
    /\ server \in [Titles -> Versions] /\ base \in [Titles -> Stems]
    /\ rows \in [Titles -> Row \cup {NoRow}]
    /\ files \in [Stems -> File \cup {Lost, NoPath}]
    /\ cmd.stage \in {"idle", "running", "ok", "failed"} /\ cmd.targets \subseteq Titles
    /\ \A t \in cmd.targets : cmd.task[t] \in Stages

(* A run that reports success has done all it was asked for (the comment of*)
(* fetch_one: a failed write is a failure): each title's row is what this  *)
(* run fetched, no title that has annotations passes for one without (audit*)
(* A14: --missing would skip it for ever), and with --save the row names a *)
(* file with the same annotations - of this title, or of another of this   *)
(* run that shares its name.                                               *)
SuccessIsSaved ==
    cmd.stage = "ok" =>
        \A t \in cmd.targets :
            /\ rows[t] # NoRow /\ rows[t].doc = cmd.doc[t]
            /\ t \in Marked => rows[t].status = "ok"
            /\ cmd.save /\ rows[t].status = "ok" =>
                  /\ rows[t].path = base[t]
                  /\ \E u \in {v \in cmd.targets : base[v] = base[t]} :
                        files[base[t]] = [of |-> u, doc |-> rows[u].doc]
================================================================================
