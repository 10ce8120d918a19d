----------------------------- MODULE EpisodeSync -----------------------------
(***************************************************************************)
(* Podcast episodes of one marketplace: the second half of sync_library    *)
(* (src/library_sync.rs) and apply_episodes (src/db/episodes.rs).  A run   *)
(* notes the parents its pages touch, stores the token, and only then      *)
(* resolves each parent's episodes, several parents at once: the library   *)
(* listing, capped at the newest episodes, and the catalog relationships   *)
(* when the listing falls short of the announced count.  Feeds change      *)
(* meanwhile, parents are returned, and resolutions fail.                  *)
(***************************************************************************)
EXTENDS Integers, Sequences, FiniteSets, SequencesExt

CONSTANTS Parents, Episodes,
          Nameless,     \* episodes whose documents carry no title
          Cap,          \* length of the library's episode listing
          MaxChanges    \* bound on server changes

VARIABLES
    feed,     \* server: each parent's episodes, oldest first
    owned,    \* server: parents in the account's library
    changed,  \* server: parents the next delta lists
    changes,  \* server: number of changes so far (bound)
    item,     \* database: the parents' items rows
    eps,      \* database: the episode rows, keyed by ASIN alone
    job,      \* each parent's resolution in the current run
    moved,    \* history: parents whose feed changed since the run's pages
    steady    \* history: titled episodes in the feed ever since those pages
evars == <<feed, owned, changed, changes, item, eps, job, moved, steady>>
history == <<moved, steady>>
catalog == <<feed, owned, changed, changes>>

Unknown == -1

EpisodeState == {"absent", "active", "deleted"}
EpisodeRow == [st : EpisodeState, parent : Parents]

(* `announced` is the parent document's episode_count, `found` the         *)
(* episodes collected so far.                                              *)
Step == {"none", "queued", "listed", "related", "apply"}
Job == [at : Step, announced : Nat \cup {Unknown}, found : SUBSET Episodes]
NoJob == [at |-> "none", announced |-> Unknown, found |-> {}]

(* The variables stay in their sets, whatever the steps.                   *)
ETypeOK ==
    /\ feed \in [Parents -> Seq(Episodes)] /\ owned \subseteq Parents
    /\ changed \subseteq Parents /\ changes \in 0 .. MaxChanges
    /\ item \in [Parents -> EpisodeState]
    /\ eps \in [Episodes -> EpisodeRow]
    /\ job \in [Parents -> Job] /\ moved \subseteq Parents
    /\ steady \in [Parents -> SUBSET Episodes]

Titled(p) == ToSet(feed[p]) \ Nameless
ActiveOf(p) == {e \in Episodes : eps[e].st = "active" /\ eps[e].parent = p}
Idle == \A p \in Parents : job[p] = NoJob

EInit ==
    /\ feed = [p \in Parents |-> <<>>]
    /\ owned = Parents /\ changed = Parents /\ changes = 0
    /\ item = [p \in Parents |-> "absent"]
    /\ eps \in {[e \in Episodes |-> [st |-> "absent", parent |-> p]] : p \in Parents}
    /\ job = [p \in Parents |-> NoJob]
    /\ moved = {} /\ steady = [p \in Parents |-> {}]

-----------------------------------------------------------------------------
(* The server (external).  A feed change changes the parent's document.    *)

FeedChange(p, episodes) ==
    /\ changes < MaxChanges
    /\ changes' = changes + 1
    /\ feed' = [feed EXCEPT ![p] = episodes]
    /\ changed' = changed \cup {p}
    /\ moved' = moved \cup {p}
    /\ steady' = [steady EXCEPT ![p] = @ \cap ToSet(episodes)]
    /\ UNCHANGED <<owned, item, eps, job>>

Publish(p, e) == e \notin ToSet(feed[p]) /\ FeedChange(p, Append(feed[p], e))

Withdraw(p, i) == FeedChange(p, RemoveAt(feed[p], i))

Membership(p) ==
    /\ changes < MaxChanges
    /\ changes' = changes + 1
    /\ owned' = IF p \in owned THEN owned \ {p} ELSE owned \cup {p}
    /\ changed' = changed \cup {p}
    /\ UNCHANGED <<feed, item, eps, job, history>>

-----------------------------------------------------------------------------
(* The pages of a run.                                                     *)

(* A soft-deleted parent takes its active episodes with it.                *)
WithoutEpisodesOf(gone) ==
    [e \in Episodes |-> IF eps[e].parent \in gone /\ eps[e].st = "active"
                        THEN [eps[e] EXCEPT !.st = "deleted"] ELSE eps[e]]

(* Seeded fault: a revocation skips a row that is soft-deleted already.    *)
ActiveGone == {p \in changed \ owned : item[p] = "active"}

(* The UPDATE that soft-deletes a revoked parent matches any row of it.    *)
Gone == {p \in changed \ owned : item[p] # "absent"}

(* Pages, token and job list of one run (module LibrarySync takes the      *)
(* pages apart).  A count is announced or left out, as the server likes.   *)
SyncPages ==
    /\ Idle /\ changed # {}
    /\ LET present == changed \cap owned
       IN /\ item' = [p \in Parents |-> IF p \in present THEN "active"
                                        ELSE IF p \in Gone THEN "deleted"
                                        ELSE item[p]]
          /\ eps' = WithoutEpisodesOf(Gone)
          /\ \E counted \in SUBSET present :
                job' = [p \in Parents |->
                          IF p \notin present THEN NoJob
                          ELSE [NoJob EXCEPT !.at = "queued",
                                  !.announced = IF p \in counted THEN Len(feed[p])
                                                                 ELSE Unknown]]
    /\ changed' = {} /\ moved' = {} /\ steady' = [p \in Parents |-> Titled(p)]
    /\ UNCHANGED <<feed, owned, changes>>

-----------------------------------------------------------------------------
(* The resolutions, which interleave.                                      *)

Advance(p, next) ==
    /\ job' = [job EXCEPT ![p] = next]
    /\ UNCHANGED <<catalog, item, eps, history>>

NewestOf(s) == {s[i] : i \in {j \in DOMAIN s : j > Len(s) - Cap}}

(* /1.0/library?parent_asin=...: the newest Cap episodes.                  *)
ListEpisodes(p) ==
    /\ job[p].at = "queued"
    /\ Advance(p, [job[p] EXCEPT !.at = "listed",
                                 !.found = NewestOf(feed[p]) \ Nameless])

(* Seeded fault: only a count that is announced can tell (A3).             *)
IncompleteByCount(p) ==
    job[p].announced # Unknown /\ job[p].announced > Cardinality(job[p].found)

Incomplete(p) ==
    job[p].announced = Unknown \/ job[p].announced > Cardinality(job[p].found)

ListingSuffices(p) ==
    /\ job[p].at = "listed" /\ ~Incomplete(p)
    /\ Advance(p, [job[p] EXCEPT !.at = "apply"])

(* relationships_v2 of the parent product: the complete feed.              *)
Relationships(p) ==
    /\ job[p].at = "listed" /\ Incomplete(p)
    /\ Advance(p, [job[p] EXCEPT !.at = "apply",
                                 !.found = @ \cup Titled(p)])

(* One transaction: upsert what was found, soft-delete this parent's other *)
(* active episodes.  The foreign key wants the parent's row.               *)
ApplyEpisodes(p) ==
    /\ job[p].at = "apply"
    /\ item[p] # "absent" \/ job[p].found = {}
    /\ eps' = [e \in Episodes |->
                 IF e \in job[p].found THEN [st |-> "active", parent |-> p]
                 ELSE IF e \in ActiveOf(p) THEN [eps[e] EXCEPT !.st = "deleted"]
                 ELSE eps[e]]
    /\ job' = [job EXCEPT ![p] = NoJob]
    /\ UNCHANGED <<catalog, item, history>>

(* A request or the transaction fails: warn and skip, the run goes on.     *)
ResolutionFails(p) == job[p].at # "none" /\ Advance(p, NoJob)

-----------------------------------------------------------------------------
(* Local commands, which take no lock, and the death of the run.           *)

ReturnParent(p) ==
    /\ item[p] = "active"
    /\ item' = [item EXCEPT ![p] = "deleted"]
    /\ eps' = WithoutEpisodesOf({p})
    /\ UNCHANGED <<catalog, job, history>>

DbRemoveParent(p) ==
    /\ item[p] # "absent"
    /\ item' = [item EXCEPT ![p] = "absent"]
    /\ eps' = [e \in Episodes |-> IF eps[e].parent = p
                                  THEN [eps[e] EXCEPT !.st = "absent"] ELSE eps[e]]
    /\ UNCHANGED <<catalog, job, history>>

Crash ==
    /\ ~Idle
    /\ job' = [p \in Parents |-> NoJob]
    /\ UNCHANGED <<catalog, item, eps, history>>

ENext ==
    \/ \E p \in Parents : \/ \E e \in Episodes : Publish(p, e)
                          \/ \E i \in DOMAIN feed[p] : Withdraw(p, i)
                          \/ Membership(p)
    \/ SyncPages
    \/ \E p \in Parents : \/ ListEpisodes(p) \/ ListingSuffices(p)
                          \/ Relationships(p) \/ ApplyEpisodes(p)
                          \/ ResolutionFails(p)
    \/ \E p \in Parents : ReturnParent(p) \/ DbRemoveParent(p)
    \/ Crash

ESpec == EInit /\ [][ENext]_evars
-----------------------------------------------------------------------------

(* A resolution whose parent announced no usable count, or whose feed      *)
(* stood still since the page, leaves every episode of the feed active     *)
(* (A3: the capped listing never passes as the complete one).              *)
UndisturbedResolutionKeepsFeed ==
    [][\A p \in Parents :
         ApplyEpisodes(p) /\ (job[p].announced = Unknown \/ p \notin moved)
           => steady[p] \subseteq ActiveOf(p)']_evars

(* Once a run has seen a show revoked, none of its episodes is active, even*)
(* if the show was hidden by `library remove` first and a resolution then  *)
(* brought its episodes back.                                              *)
RevokedShowHasNoEpisodes ==
    \A p \in Parents : p \notin owned /\ p \notin changed => ActiveOf(p) = {}

(* episodes.rs:68: apply_episodes soft-deletes episodes that vanished from *)
(* the feed.  An episode that stayed in the feed from the run's page on is *)
(* not one of them.                                                        *)
OnlyVanishedEpisodesDeleted ==
    [][\A p \in Parents :
         ApplyEpisodes(p)
           => \A e \in ActiveOf(p) \cap steady[p] : eps'[e].st = "active"]_evars
=============================================================================
