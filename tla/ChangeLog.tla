------------------------------- MODULE ChangeLog -------------------------------
(***************************************************************************)
(* The change log of a library (src/db/changes.rs, apply_page_recording    *)
(* and apply_episodes): what a sync says it changed against what the rows  *)
(* became.  The tokens, pages and the lock of a run are module             *)
(* LibrarySync's; here a run applies its pages one after another, or is    *)
(* aborted, and a title stays in the delta until a run has finished.       *)
(***************************************************************************)
EXTENDS Integers, FiniteSets

CONSTANTS Books, Show, Episodes,   \* library items, one of them a podcast, and its feed
          MaxChanges               \* bound on changes at the server

VARIABLES
    owned,     \* server: the documents of the titles in the library
    feed,      \* server: the episodes of the show
    delta,     \* server: titles changed since the stored token
    row,       \* the rows of items and episodes
    latest,    \* the newest log entry of each title
    run,       \* the sync under way
    page,      \* what the last page's summary and log entries named
    synced,    \* history: whether a sync has finished
    quiet,     \* history: titles whose row changed unlogged since their entry
    changes    \* changes at the server (bound)

cvars == <<owned, feed, delta, row, latest, run, page, synced, quiet, changes>>

Items == Books \cup {Show}
Titles == Items \cup Episodes

(* A document has keys that count and one that does not (VOLATILE_KEYS).   *)
Keys == {"title", "percent_complete"}
Volatile == {"percent_complete"}
Doc == [Keys -> 0 .. 1]

Absent == [st |-> "absent"]
Row == {Absent} \cup [st : {"active", "deleted"}, doc : Doc]
Active(r) == {t \in Titles : r[t].st = "active"}

(* An entry of kind changed holds the keys that differ.                    *)
Plain(kind) == [kind |-> kind, keys |-> {}]
Entry == {Plain("none"), Plain("added"), Plain("removed")}
         \cup [kind : {"changed"}, keys : (SUBSET Keys) \ {{}}]

NoRun == [on |-> FALSE]
NoPage == [summary |-> {}, volatile |-> {}, logged |-> [t \in {} |-> Plain("none")]]

(* The variables stay in their sets, whatever the steps.                   *)
ChangeLogTypeOK ==
    /\ DOMAIN owned \subseteq Items /\ \A t \in DOMAIN owned : owned[t] \in Doc
    /\ feed \subseteq Episodes /\ delta \subseteq Items
    /\ row \in [Titles -> Row] /\ latest \in [Titles -> Entry]
    /\ run.on =>
          /\ run.todo \subseteq Items /\ run.since \subseteq Items
          /\ run.record \in BOOLEAN /\ run.shows \in BOOLEAN
    /\ page.summary \cup page.volatile \subseteq Items
    /\ \A t \in DOMAIN page.logged : page.logged[t] \in Entry
    /\ synced \in BOOLEAN /\ quiet \subseteq Titles /\ changes \in 0 .. MaxChanges

First == [k \in Keys |-> 0]

Init ==
    /\ owned \in {[t \in S |-> First] : S \in SUBSET Items}
    /\ feed = {} /\ delta = Items
    /\ row = [t \in Titles |-> Absent]
    /\ latest = [t \in Titles |-> Plain("none")]
    /\ run = NoRun /\ page = NoPage
    /\ synced = FALSE /\ quiet = {} /\ changes = 0

-----------------------------------------------------------------------------
(* The server (external).                                                  *)

Publishes == changes < MaxChanges /\ changes' = changes + 1

Noted(t) ==
    /\ delta' = delta \cup {t}
    /\ run' = IF run.on THEN [run EXCEPT !.since = @ \cup {t}] ELSE run

Publish(t, doc) ==
    /\ Publishes /\ (t \in DOMAIN owned => owned[t] # doc)
    /\ owned' = [x \in DOMAIN owned \cup {t} |-> IF x = t THEN doc ELSE owned[x]]
    /\ Noted(t)
    /\ UNCHANGED <<feed, row, latest, page, synced, quiet>>

Revoke(t) ==
    /\ Publishes /\ t \in DOMAIN owned
    /\ owned' = [x \in DOMAIN owned \ {t} |-> owned[x]]
    /\ Noted(t)
    /\ UNCHANGED <<feed, row, latest, page, synced, quiet>>

FeedChanges ==
    /\ Publishes /\ \E F \in SUBSET Episodes : F # feed /\ feed' = F
    /\ Noted(Show)
    /\ UNCHANGED <<owned, row, latest, page, synced, quiet>>

-----------------------------------------------------------------------------
(* classify_change: the keys that differ, in whatever order they came.     *)

Diff(old, new) == {k \in Keys : old[k] # new[k]}

Significant(keys) == keys \ Volatile # {}

(* What an upsert does to a row, as its log entry.                         *)
Classified(old, doc) ==
    IF old.st # "active" THEN Plain("added")
    ELSE IF Diff(old.doc, doc) = {} THEN Plain("none")
    ELSE [kind |-> "changed", keys |-> Diff(old.doc, doc)]

(* The listing's filter on the stored diff, in SQL.                        *)
Shown(entry) == entry.kind # "changed" \/ \E k \in entry.keys : k \notin Volatile

(* The entries of one transaction, none of them for what did not change.   *)
Logged(entries) ==
    [t \in Titles |-> IF t \in DOMAIN entries /\ entries[t].kind # "none"
                      THEN entries[t] ELSE latest[t]]

(* A row that `silent` changes without an entry leaves the log behind.     *)
Unlogged(new, entries, silent) ==
    quiet' = {t \in Titles :
                 /\ latest[t].kind # "none" /\ Logged(entries)[t] = latest[t]
                 /\ \/ t \in quiet
                    \/ t \in silent /\ (t \in Active(row)) # (t \in Active(new))}

(* A run logs everything or nothing, but a show's episodes go unlogged.    *)
Silent == IF run.record THEN Episodes ELSE Titles

-----------------------------------------------------------------------------
(* A run.                                                                  *)

(* Whether this is the initial sync is read from the active rows.          *)
Initial == Active(row) \cap Items = {}

(* A full run lists what is owned, a delta what changed.                   *)
Begin(full, record_changes) ==
    /\ ~run.on
    /\ run' = [on |-> TRUE, since |-> {}, shows |-> FALSE,
               todo |-> IF full \/ ~synced THEN DOMAIN owned ELSE delta,
               record |-> record_changes /\ ~Initial]
    /\ UNCHANGED <<owned, feed, delta, row, latest, page, synced, quiet, changes>>

(* A soft-deleted show takes its episodes with it.                         *)
SoftDeleted(r, gone) ==
    [t \in Titles |->
        IF \/ t \in gone /\ r[t].st # "absent"
           \/ t \in Episodes /\ Show \in gone /\ r[t].st = "active" /\ r[Show].st # "absent"
        THEN [r[t] EXCEPT !.st = "deleted"] ELSE r[t]]

Upserted(r, docs) ==
    [t \in Titles |-> IF t \in DOMAIN docs THEN [st |-> "active", doc |-> docs[t]] ELSE r[t]]

(* Seeded fault: rows are judged after the page's upserts.                 *)
JudgedLate(r, docs) == [t \in DOMAIN docs |-> Classified(Upserted(r, docs)[t], docs[t])]

Judged(r, docs) == [t \in DOMAIN docs |-> Classified(r[t], docs[t])]

(* The UPDATE of a soft delete also meets rows that are deleted already.   *)
Removals(gone) == [t \in {x \in gone : row[x].st # "absent"} |-> Plain("removed")]

ApplyPage ==
    /\ run.on /\ run.todo # {}
    /\ \E P \in (SUBSET run.todo) \ {{}} :
          LET docs == [t \in P \cap DOMAIN owned |-> owned[t]]
              gone == P \ DOMAIN owned
              upserts == Judged(row, docs)
              removals == Removals(gone)
              entries == [t \in DOMAIN upserts \cup DOMAIN removals |->
                             IF t \in DOMAIN removals THEN removals[t] ELSE upserts[t]]
              named == {t \in DOMAIN entries : entries[t].kind # "none"}
              minor == {t \in named : entries[t].kind = "changed"
                                      /\ ~Significant(entries[t].keys)}
              kept == IF run.record THEN [t \in named |-> entries[t]] ELSE NoPage.logged
          IN /\ row' = SoftDeleted(Upserted(row, docs), gone)
             /\ page' = [summary |-> named \ minor, volatile |-> minor, logged |-> kept]
             /\ latest' = Logged(kept)
             /\ Unlogged(row', kept, Silent)
             /\ run' = [run EXCEPT !.todo = @ \ P,
                                   !.shows = @ \/ Show \in DOMAIN docs]
    /\ UNCHANGED <<owned, feed, delta, synced, changes>>

(* apply_episodes after the pages of a run that touched the show.          *)
ResolveEpisodes ==
    /\ run.on /\ run.todo = {} /\ run.shows /\ row[Show].st # "absent"
    /\ LET docs == [e \in feed |-> First]
           vanished == {e \in Episodes \ feed : row[e].st = "active"}
           found == [e \in feed |-> Classified(row[e], docs[e])]
           kept == IF run.record
                   THEN [e \in feed \cup vanished |->
                            IF e \in vanished THEN Plain("removed") ELSE found[e]]
                   ELSE NoPage.logged
       IN /\ row' = SoftDeleted(Upserted(row, docs), vanished)
          /\ latest' = Logged(kept)
          /\ Unlogged(row', kept, IF run.record THEN {} ELSE Titles)
    /\ run' = [run EXCEPT !.shows = FALSE]
    /\ page' = NoPage
    /\ UNCHANGED <<owned, feed, delta, synced, changes>>

Finish ==
    /\ run.on /\ run.todo = {} /\ ~run.shows
    /\ run' = NoRun /\ page' = NoPage
    /\ delta' = run.since
    /\ synced' = TRUE
    /\ UNCHANGED <<owned, feed, row, latest, quiet, changes>>

(* Killed, or a request failed: the token stays where it was.              *)
Abort ==
    /\ run.on /\ run' = NoRun /\ page' = NoPage
    /\ UNCHANGED <<owned, feed, delta, row, latest, synced, quiet, changes>>

-----------------------------------------------------------------------------
(* Other commands.                                                         *)

Rewrites(new) ==
    /\ row' = new /\ Unlogged(new, NoPage.logged, Titles) /\ page' = NoPage
    /\ UNCHANGED <<owned, feed, delta, latest, run, synced, changes>>

(* `library remove` once the server has agreed.                            *)
SoftDeleteItem(t) == row[t].st = "active" /\ Rewrites(SoftDeleted(row, {t}))

(* `db library remove`: episodes go with their parent.                     *)
RemoveItem(t) ==
    /\ row[t].st # "absent"
    /\ Rewrites([x \in Titles |-> IF x = t \/ (t = Show /\ x \in Episodes)
                                  THEN Absent ELSE row[x]])

(* `library changes prune`, or the end of a run: what is past its age goes.*)
Prune(old) ==
    /\ \E t \in old : latest[t].kind # "none"
    /\ latest' = [t \in Titles |-> IF t \in old THEN Plain("none") ELSE latest[t]]
    /\ page' = NoPage /\ quiet' = quiet \ old
    /\ UNCHANGED <<owned, feed, delta, row, run, synced, changes>>

Next ==
    \/ \E t \in Items : \/ \E doc \in Doc : Publish(t, doc)
                        \/ Revoke(t) \/ SoftDeleteItem(t) \/ RemoveItem(t)
    \/ FeedChanges
    \/ \E full, record \in BOOLEAN : Begin(full, record)
    \/ ApplyPage \/ ResolveEpisodes \/ Finish \/ Abort
    \/ Prune(Titles)

ChangeSpec == Init /\ [][Next]_cvars

-----------------------------------------------------------------------------

(* The newest entry of a title agrees with its row, whatever was aborted,  *)
(* pruned or applied twice, unless the row has changed by a run that does  *)
(* not record or a command that never does.                                *)
LogAgreesWithRows ==
    \A t \in Titles : latest[t].kind # "none" /\ t \notin quiet =>
        (latest[t].kind = "removed") = (row[t].st # "active")

================================================================================
