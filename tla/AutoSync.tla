------------------------------- MODULE AutoSync -------------------------------
(***************************************************************************)
(* When a read command trusts the local database: maybe_auto_sync and its  *)
(* read variant (src/library_sync.rs), beside an explicit `library sync`   *)
(* of the same database (src/commands/library/sync.rs).  A sync of one     *)
(* marketplace is a sequence of pages, each of which leaves a sync_log row *)
(* with its time and http_status 200; what the pages hold is module        *)
(* LibrarySync's.                                                          *)
(***************************************************************************)
EXTENDS Integers, FiniteSets

CONSTANTS Markets,      \* the selected marketplaces
          Never,        \* no time
          MaxAge,       \* sync_max_age
          MaxNow        \* bound on time

VARIABLES
    now,      \* the wall clock
    logged,   \* time of each marketplace's newest sync_log row
    whole,    \* history: time of its last sync that applied all its pages
    lock,     \* who holds the library's sync lock: nobody, "sync" or "read"
    busy,     \* marketplaces a lock holder has still to finish
    reader,   \* where the read command stands
    asked,    \* history: when it judged the staleness
    stale,    \* history: what it judged stale
    answer    \* what it did in the end
vars == <<now, logged, whole, lock, busy, reader, asked, stale, answer>>

Time == 0 .. MaxNow
Answers == {"none", "served", "skipped", "stale_offline", "failed"}

(* The variables stay in their sets, whatever the steps.                   *)
TypeOK ==
    /\ now \in Time
    /\ logged \in [Markets -> Time \cup {Never}]
    /\ whole \in [Markets -> Time \cup {Never}]
    /\ lock \in {"nobody", "sync", "read"} /\ busy \subseteq Markets
    /\ reader \in {"start", "judged", "syncing", "offline", "done"}
    /\ asked \in Time /\ stale \subseteq Markets
    /\ answer \in Answers

Init ==
    /\ now = 0
    /\ logged = [m \in Markets |-> Never] /\ whole = logged
    /\ lock = "nobody" /\ busy = {}
    /\ reader = "start" /\ asked = 0 /\ stale = {} /\ answer = "none"

Tick ==
    /\ now < MaxNow /\ now' = now + 1
    /\ UNCHANGED <<logged, whole, lock, busy, reader, asked, stale, answer>>

-----------------------------------------------------------------------------
(* Either kind of run applies pages; the last one completes its sync.      *)

SyncPage(m, last) ==
    /\ m \in busy
    /\ logged' = [logged EXCEPT ![m] = now]
    /\ whole' = IF last THEN [whole EXCEPT ![m] = now] ELSE whole
    /\ busy' = IF last THEN busy \ {m} ELSE busy
    /\ UNCHANGED <<now, lock, reader, asked, stale, answer>>

(* `library sync`: all marketplaces concurrently.                          *)
SyncStarts ==
    /\ lock = "nobody" /\ lock' = "sync" /\ busy' = Markets
    /\ UNCHANGED <<now, logged, whole, reader, asked, stale, answer>>

(* One marketplace fails, wherever its run stands; the others go on.       *)
SyncFails(m) ==
    /\ lock = "sync" /\ m \in busy /\ busy' = busy \ {m}
    /\ UNCHANGED <<now, logged, whole, lock, reader, asked, stale, answer>>

SyncEnds ==
    /\ lock = "sync" /\ busy = {} /\ lock' = "nobody"
    /\ UNCHANGED <<now, logged, whole, busy, reader, asked, stale, answer>>

(* The process is killed.                                                  *)
SyncDies ==
    /\ lock = "sync" /\ lock' = "nobody" /\ busy' = {}
    /\ UNCHANGED <<now, logged, whole, reader, asked, stale, answer>>

-----------------------------------------------------------------------------
(* The read command, with auto_sync = delta.                               *)

(* Seeded fault: one fresh marketplace vouches for all.                    *)
IsStaleTogether(m) ==
    \A k \in Markets : logged[k] = Never \/ now - logged[k] > MaxAge

(* Timestamps are whole seconds of the wall clock; never synced is stale.  *)
IsStale(m) == logged[m] = Never \/ now - logged[m] > MaxAge

Answer(how) == reader' = "done" /\ answer' = how

Judge ==
    /\ reader = "start"
    /\ asked' = now
    /\ stale' = {m \in Markets : IsStale(m)}
    /\ IF stale' = {} THEN Answer("served")
                      ELSE reader' = "judged" /\ UNCHANGED answer
    /\ UNCHANGED <<now, logged, whole, lock, busy>>

(* Another sync holds the lock: answer from what there is.                 *)
Skip ==
    /\ reader = "judged" /\ lock # "nobody"
    /\ Answer("skipped")
    /\ UNCHANGED <<now, logged, whole, lock, busy, asked, stale>>

AutoSyncStarts ==
    /\ reader = "judged" /\ lock = "nobody"
    /\ lock' = "read" /\ busy' = stale /\ reader' = "syncing"
    /\ UNCHANGED <<now, logged, whole, asked, stale, answer>>

AutoSyncEnds ==
    /\ reader = "syncing" /\ busy = {}
    /\ lock' = "nobody" /\ Answer("served")
    /\ UNCHANGED <<now, logged, whole, busy, asked, stale>>

(* The first failing marketplace ends the freshness pass.  Only a server   *)
(* that was never reached is `offline`.                                    *)
AutoSyncFails ==
    /\ reader = "syncing" /\ busy # {}
    /\ lock' = "nobody" /\ busy' = {}
    /\ \/ reader' = "offline" /\ UNCHANGED answer
       \/ Answer("failed")
    /\ UNCHANGED <<now, logged, whole, asked, stale>>

(* last_sync_utc_by_marketplace has a row for every marketplace that was   *)
(* synced; one that never was makes the read fail.                         *)
NeverSynced == {m \in Markets : logged[m] = Never}

ServeOffline ==
    /\ reader = "offline"
    /\ Answer(IF NeverSynced = {} THEN "stale_offline" ELSE "failed")
    /\ UNCHANGED <<now, logged, whole, lock, busy, asked, stale>>

Next ==
    \/ Tick
    \/ \E m \in Markets : SyncFails(m) \/ \E last \in BOOLEAN : SyncPage(m, last)
    \/ SyncStarts \/ SyncEnds \/ SyncDies
    \/ Judge \/ Skip \/ AutoSyncStarts \/ AutoSyncEnds \/ AutoSyncFails
    \/ ServeOffline

Spec == Init /\ [][Next]_vars

-----------------------------------------------------------------------------

(* A read that answers without a warning, and without giving way to a      *)
(* running sync, has brought every marketplace it judged stale up to date  *)
(* since it asked, and the others were no older than sync_max_age then.    *)
ServedIsFresh ==
    answer = "served" =>
        \A m \in Markets : IF m \in stale THEN whole[m] # Never /\ whole[m] >= asked
                                          ELSE logged[m] # Never /\ asked - logged[m] <= MaxAge

(* library_sync.rs:596, items.rs:1502: a marketplace that never synced     *)
(* successfully is absent from the staleness map and still fails - an      *)
(* empty answer would be a lie.                                            *)
NeverSyncedIsNotServed ==
    answer \in {"served", "stale_offline"} => \A m \in Markets : whole[m] # Never
=============================================================================
