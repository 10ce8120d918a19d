--------------------------- MODULE EpisodeSyncProofs ---------------------------
(***************************************************************************)
(* Theorems about EpisodeSync, for any set of shows and episodes, any feed *)
(* and any number of server changes: a revoked show has no active episode, *)
(* no episode is without its show's row, and a resolution that can trust   *)
(* its count applies the whole feed.                                       *)
(***************************************************************************)
EXTENDS EpisodeSync, FiniteSetTheorems, TLAPS

(* What the argument needs of the types: nothing about feeds and counts.   *)
Typed ==
    /\ eps \in [Episodes -> EpisodeRow]
    /\ item \in [Parents -> EpisodeState]
    /\ DOMAIN job = Parents

(* A revoked show that no delta will list again has been dealt with: it has*)
(* no active episode, and no resolution that could bring one back.         *)
Settled ==
    \A p \in Parents : p \notin owned /\ p \notin changed
                         => ActiveOf(p) = {} /\ job[p] = NoJob

(* An episode needs its show's row (the foreign key, and the cascade).     *)
HasRow == \A p \in Parents : item[p] = "absent" => ActiveOf(p) = {}

IInv == Typed /\ Settled /\ HasRow

-----------------------------------------------------------------------------
(* A new database has no episodes, and every show is in the account.       *)
LEMMA InitHolds == EInit => IInv
  BY DEF EInit, IInv, Typed, Settled, HasRow, ActiveOf, EpisodeRow, EpisodeState

(* A change of a feed, or of what the account owns, puts the show into the *)
(* next delta.                                                             *)
LEMMA ServerKeeps ==
  ASSUME IInv, NEW p \in Parents,
         Membership(p) \/ \E episodes : FeedChange(p, episodes)
  PROVE  IInv'
<1>1. UNCHANGED <<item, eps, job>>
  BY DEF Membership, FeedChange
<1>2. changed' = changed \cup {p} /\ \A q \in Parents : q # p => (q \in owned' <=> q \in owned)
  BY DEF Membership, FeedChange
<1> QED
  BY <1>1, <1>2 DEF IInv, Typed, Settled, HasRow, ActiveOf

(* The soft-delete of shows leaves the rows typed and none of their        *)
(* episodes active, and makes no other episode active.                     *)
LEMMA WithoutEpisodes ==
  ASSUME Typed, NEW gone
  PROVE  /\ WithoutEpisodesOf(gone) \in [Episodes -> EpisodeRow]
         /\ eps' = WithoutEpisodesOf(gone) =>
              \A p \in Parents : /\ ActiveOf(p)' \subseteq ActiveOf(p)
                                 /\ p \in gone => ActiveOf(p)' = {}
<1>1. \A e \in Episodes : eps[e] \in EpisodeRow /\ [eps[e] EXCEPT !.st = "deleted"] \in EpisodeRow
  BY DEF Typed, EpisodeRow, EpisodeState
<1>2. WithoutEpisodesOf(gone) \in [Episodes -> EpisodeRow]
  BY <1>1 DEF WithoutEpisodesOf
<1>3. \A e \in Episodes :
        /\ WithoutEpisodesOf(gone)[e].parent = eps[e].parent
        /\ WithoutEpisodesOf(gone)[e].st = "active" => eps[e].st = "active" /\ eps[e].parent \notin gone
  BY <1>1 DEF WithoutEpisodesOf, EpisodeRow
<1> QED
  BY <1>2, <1>3 DEF ActiveOf

(* The pages of a run list every changed show: those that are gone lose    *)
(* their episodes, those that are there get a resolution.                  *)
LEMMA SyncPagesKeeps ==
  ASSUME IInv, SyncPages
  PROVE  IInv'
<1> DEFINE present == changed \cap owned
<1>1. /\ Idle /\ owned' = owned /\ changed' = {}
      /\ item' = [p \in Parents |-> IF p \in present THEN "active"
                                    ELSE IF p \in Gone THEN "deleted" ELSE item[p]]
      /\ eps' = WithoutEpisodesOf(Gone)
  BY DEF SyncPages
<1>2. DOMAIN job' = Parents /\ \A p \in Parents : p \notin present => job'[p] = NoJob
  BY DEF SyncPages
<1>3. \A p \in Parents : ActiveOf(p)' \subseteq ActiveOf(p) /\ (p \in Gone => ActiveOf(p)' = {})
  BY <1>1, WithoutEpisodes DEF IInv
<1>4. Typed'
  <2>1. eps' \in [Episodes -> EpisodeRow]
    BY <1>1, WithoutEpisodes DEF IInv
  <2>2. item' \in [Parents -> EpisodeState]
    BY <1>1 DEF IInv, Typed, EpisodeState
  <2> QED
    BY <1>2, <2>1, <2>2 DEF Typed
<1>5. Settled'
  <2> SUFFICES ASSUME NEW p \in Parents, p \notin owned
               PROVE  ActiveOf(p)' = {} /\ job'[p] = NoJob
    BY <1>1 DEF Settled
  <2>1. CASE p \in Gone
    BY <1>2, <1>3, <2>1
  <2>2. CASE p \in changed /\ item[p] = "absent"
    BY <1>2, <1>3, <2>2 DEF IInv, HasRow
  <2>3. CASE p \notin changed
    BY <1>2, <1>3, <2>3 DEF IInv, Settled
  <2> QED
    BY <2>1, <2>2, <2>3 DEF Gone
<1>6. HasRow'
  BY <1>1, <1>3 DEF IInv, HasRow
<1> QED
  BY <1>4, <1>5, <1>6 DEF IInv

(* A resolution belongs to a show that is there or in the next delta, so   *)
(* how it goes on does not matter.                                         *)
LEMMA AdvanceKeeps ==
  ASSUME IInv, NEW p \in Parents, job[p].at # "none", NEW next, Advance(p, next)
  PROVE  IInv'
<1>1. job' = [job EXCEPT ![p] = next] /\ UNCHANGED <<owned, changed, item, eps>>
  BY DEF Advance, catalog
<1>2. p \in owned \/ p \in changed
  BY DEF IInv, Settled, NoJob
<1> QED
  BY <1>1, <1>2 DEF IInv, Typed, Settled, HasRow, ActiveOf

(* What a resolution applies is the show's own; without a row it applies   *)
(* nothing.                                                                *)
LEMMA ApplyEpisodesKeeps ==
  ASSUME IInv, NEW p \in Parents, ApplyEpisodes(p)
  PROVE  IInv'
<1>1. /\ UNCHANGED <<owned, changed, item>> /\ job' = [job EXCEPT ![p] = NoJob]
      /\ job[p].at = "apply" /\ (item[p] # "absent" \/ job[p].found = {})
      /\ eps' = [e \in Episodes |->
                   IF e \in job[p].found THEN [st |-> "active", parent |-> p]
                   ELSE IF e \in ActiveOf(p) THEN [eps[e] EXCEPT !.st = "deleted"]
                   ELSE eps[e]]
  BY DEF ApplyEpisodes, catalog
<1>2. p \in owned \/ p \in changed
  BY <1>1 DEF IInv, Settled, NoJob
<1>3. \A e \in Episodes : /\ eps[e] \in EpisodeRow
                          /\ [eps[e] EXCEPT !.st = "deleted"] \in EpisodeRow
                          /\ [st |-> "active", parent |-> p] \in EpisodeRow
  BY DEF IInv, Typed, EpisodeRow, EpisodeState
<1>4. Typed'
  BY <1>1, <1>3 DEF IInv, Typed
<1>5. \A q \in Parents : q # p => ActiveOf(q)' \subseteq ActiveOf(q)
  <2> SUFFICES ASSUME NEW q \in Parents, q # p, NEW e \in Episodes,
                      eps'[e].st = "active", eps'[e].parent = q
               PROVE  eps[e].st = "active" /\ eps[e].parent = q
    BY DEF ActiveOf
  <2> QED
    BY <1>1, <1>3 DEF EpisodeRow
<1>6. job[p].found = {} => ActiveOf(p)' = {}
  <2> SUFFICES ASSUME job[p].found = {}, NEW e \in Episodes,
                      eps'[e].st = "active", eps'[e].parent = p
               PROVE  FALSE
    BY DEF ActiveOf
  <2>1. eps'[e] = IF e \in ActiveOf(p) THEN [eps[e] EXCEPT !.st = "deleted"] ELSE eps[e]
    BY <1>1
  <2> QED
    BY <1>3, <2>1 DEF ActiveOf, EpisodeRow
<1>7. Settled'
  BY <1>1, <1>2, <1>5 DEF IInv, Typed, Settled
<1>8. HasRow'
  BY <1>1, <1>5, <1>6 DEF IInv, HasRow
<1> QED
  BY <1>4, <1>7, <1>8 DEF IInv

(* Local commands and the end of a run only take episodes and resolutions  *)
(* away.                                                                   *)
LEMMA LocalKeeps ==
  ASSUME IInv, Crash \/ \E p \in Parents : ReturnParent(p) \/ DbRemoveParent(p)
  PROVE  IInv'
<1>1. CASE Crash
  BY <1>1 DEF Crash, catalog, IInv, Typed, Settled, HasRow, ActiveOf
<1>2. ASSUME NEW p \in Parents, ReturnParent(p) PROVE IInv'
  <2>1. /\ item' = [item EXCEPT ![p] = "deleted"] /\ eps' = WithoutEpisodesOf({p})
        /\ UNCHANGED <<owned, changed, job>>
    BY <1>2 DEF ReturnParent, catalog
  <2>2. eps' \in [Episodes -> EpisodeRow] /\ \A q \in Parents : ActiveOf(q)' \subseteq ActiveOf(q)
    BY <2>1, WithoutEpisodes DEF IInv
  <2> QED
    BY <2>1, <2>2 DEF IInv, Typed, Settled, HasRow, EpisodeState
<1>3. ASSUME NEW p \in Parents, DbRemoveParent(p) PROVE IInv'
  <2>1. /\ item' = [item EXCEPT ![p] = "absent"]
        /\ eps' = [e \in Episodes |-> IF eps[e].parent = p
                                      THEN [eps[e] EXCEPT !.st = "absent"] ELSE eps[e]]
        /\ UNCHANGED <<owned, changed, job>>
    BY <1>3 DEF DbRemoveParent, catalog
  <2>2. \A e \in Episodes : eps[e] \in EpisodeRow /\ [eps[e] EXCEPT !.st = "absent"] \in EpisodeRow
    BY DEF IInv, Typed, EpisodeRow, EpisodeState
  <2>3. Typed'
    BY <2>1, <2>2 DEF IInv, Typed, EpisodeState
  <2>4. \A q \in Parents : ActiveOf(q)' \subseteq ActiveOf(q) /\ (q = p => ActiveOf(q)' = {})
    BY <2>1, <2>2 DEF ActiveOf, EpisodeRow
  <2> QED
    BY <2>1, <2>3, <2>4 DEF IInv, Typed, Settled, HasRow
<1> QED
  BY <1>1, <1>2, <1>3

-----------------------------------------------------------------------------
(* Every reachable state is typed, settled, and has a row behind each      *)
(* active episode.                                                         *)
THEOREM EpisodeInvariant == ESpec => []IInv
<1>1. IInv /\ [ENext]_evars => IInv'
  <2> SUFFICES ASSUME IInv, [ENext]_evars PROVE IInv'
    OBVIOUS
  <2>1. ASSUME NEW p \in Parents,
               \/ \E e \in Episodes : Publish(p, e)
               \/ \E i \in DOMAIN feed[p] : Withdraw(p, i)
        PROVE  IInv'
    BY <2>1, ServerKeeps DEF Publish, Withdraw
  <2>2. ASSUME NEW p \in Parents, Membership(p)
        PROVE  IInv'
    BY <2>2, ServerKeeps
  <2>3. ASSUME NEW p \in Parents,
               ListEpisodes(p) \/ ListingSuffices(p) \/ Relationships(p) \/ ResolutionFails(p)
        PROVE  IInv'
    <3>1. job[p].at # "none" /\ \E next : Advance(p, next)
      BY <2>3 DEF ListEpisodes, ListingSuffices, Relationships, ResolutionFails
    <3> QED
      BY <3>1, AdvanceKeeps
  <2>4. CASE UNCHANGED evars
    BY <2>4 DEF evars, IInv, Typed, Settled, HasRow, ActiveOf
  <2> QED
    BY <2>1, <2>2, <2>3, <2>4, SyncPagesKeeps, ApplyEpisodesKeeps, LocalKeeps DEF ENext
<1> QED
  BY <1>1, InitHolds, PTL DEF ESpec

(* A show that a run has seen revoked has no active episode, whatever was  *)
(* returned, removed or resolved around it: a resolution that is under way *)
(* while its show goes finds the show in the next delta, and no run reads  *)
(* that delta before the resolution has ended.                             *)
THEOREM RevokedStaysEmpty == ESpec => []RevokedShowHasNoEpisodes
<1>1. IInv => RevokedShowHasNoEpisodes
  BY DEF IInv, Settled, RevokedShowHasNoEpisodes
<1> QED
  BY <1>1, EpisodeInvariant, PTL

(* No active episode without its show's row.                               *)
THEOREM EpisodesHaveTheirShow == ESpec => []HasRow
<1>1. IInv => HasRow
  BY DEF IInv
<1> QED
  BY <1>1, EpisodeInvariant, PTL

-----------------------------------------------------------------------------
(* What a resolution has found, against the feed.                          *)

Feeds == feed \in [Parents -> Seq(Episodes)] /\ DOMAIN steady = Parents /\ DOMAIN job = Parents

(* What was in the feed from the page on is in it and has a title.         *)
Steady(p) == steady[p] \subseteq Titled(p)

Trusted(p) == job[p].announced = Unknown \/ p \notin moved

(* A resolution of a feed that stood still knows its length, and what it   *)
(* applies to any feed it can trust is all that the feed kept.             *)
Collected(p) ==
    /\ DOMAIN job[p] = {"at", "announced", "found"}
    /\ p \notin moved =>
          /\ job[p].at # "none" => job[p].announced \in {Unknown, Len(feed[p])}
          /\ job[p].at = "listed" => job[p].found \subseteq ToSet(feed[p])
    /\ job[p].at = "apply" /\ Trusted(p) => steady[p] \subseteq job[p].found

FeedInv == Feeds /\ \A p \in Parents : Steady(p) /\ Collected(p)

(* A sequence has no more members than its length.                         *)
LEMMA MembersOfSeq ==
  ASSUME NEW S, NEW s \in Seq(S)
  PROVE  IsFiniteSet(ToSet(s)) /\ Cardinality(ToSet(s)) <= Len(s)
<1>1. Len(s) \in Nat /\ DOMAIN s = 1 .. Len(s)
  OBVIOUS
<1>2. IsFiniteSet(1 .. Len(s)) /\ Cardinality(1 .. Len(s)) = Len(s)
  BY <1>1, FS_Interval
<1>3. PICK T : T = ToSet(s)
  OBVIOUS
<1>4. PICK f : f = [i \in 1 .. Len(s) |-> s[i]]
  OBVIOUS
<1>5. f \in [1 .. Len(s) -> T] /\ \A x \in T : \E i \in 1 .. Len(s) : f[i] = x
  BY <1>1, <1>3, <1>4 DEF ToSet
<1>6. f \in Surjection(1 .. Len(s), T)
  BY <1>5 DEF Surjection
<1> QED
  BY <1>2, <1>3, <1>6, FS_Surjection

(* What has as many members as a feed is long has all of them.             *)
LEMMA CountTells ==
  ASSUME NEW S, NEW s \in Seq(S), NEW found \in SUBSET ToSet(s), ~(Len(s) > Cardinality(found))
  PROVE  found = ToSet(s)
<1>1. PICK T : T = ToSet(s)
  OBVIOUS
<1>2. IsFiniteSet(T) /\ Cardinality(T) <= Len(s)
  BY <1>1, MembersOfSeq
<1>3. Cardinality(T) \in Nat /\ Len(s) \in Nat
  BY <1>2, FS_CardinalityType
<1>4. IsFiniteSet(found) /\ Cardinality(found) <= Cardinality(T)
      /\ (Cardinality(T) = Cardinality(found) => T = found)
  BY <1>1, <1>2, FS_Subset
<1>5. Cardinality(found) \in Nat
  BY <1>4, FS_CardinalityType
<1> QED
  BY <1>1, <1>2, <1>3, <1>4, <1>5

(* A feed that changes is no longer one that stood still.                  *)
LEMMA FeedChanges ==
  ASSUME FeedInv, NEW p \in Parents, NEW new \in Seq(Episodes), FeedChange(p, new)
  PROVE  FeedInv'
<1>1. /\ feed' = [feed EXCEPT ![p] = new] /\ moved' = moved \cup {p} /\ job' = job
      /\ steady' = [steady EXCEPT ![p] = @ \cap ToSet(new)]
  BY DEF FeedChange
<1>2. Feeds'
  BY <1>1 DEF FeedInv, Feeds
<1>3. \A q \in Parents \ {p} : feed'[q] = feed[q] /\ steady'[q] = steady[q]
                               /\ (q \in moved' <=> q \in moved)
  BY <1>1 DEF FeedInv, Feeds
<1>4. \A q \in Parents \ {p} : Steady(q)' /\ Collected(q)'
  BY <1>1, <1>3 DEF FeedInv, Steady, Titled, Collected, Trusted
<1>5. feed'[p] = new /\ steady'[p] = steady[p] \cap ToSet(new) /\ p \in moved'
  BY <1>1 DEF FeedInv, Feeds
<1>6. Steady(p)'
  BY <1>5 DEF FeedInv, Steady, Titled
<1>7. Collected(p)'
  BY <1>1, <1>5 DEF FeedInv, Collected, Trusted
<1> QED
  BY <1>2, <1>4, <1>6, <1>7 DEF FeedInv

(* The next page is where a run starts counting anew.                      *)
LEMMA PagesCollect ==
  ASSUME FeedInv, SyncPages
  PROVE  FeedInv'
<1>1. feed' = feed /\ moved' = {} /\ steady' = [p \in Parents |-> Titled(p)]
  BY DEF SyncPages
<1>2. PICK present : present = changed \cap owned
  OBVIOUS
<1>3. PICK counted \in SUBSET present :
        job' = [p \in Parents |->
                  IF p \notin present THEN NoJob
                  ELSE [NoJob EXCEPT !.at = "queued",
                          !.announced = IF p \in counted THEN Len(feed[p]) ELSE Unknown]]
  BY <1>2 DEF SyncPages
<1>4. Feeds'
  BY <1>1, <1>3 DEF FeedInv, Feeds
<1>5. ASSUME NEW p \in Parents PROVE Steady(p)' /\ Collected(p)'
  <2>1. Steady(p)'
    BY <1>1 DEF Steady, Titled
  <2>2. PICK count : count = IF p \in counted THEN Len(feed[p]) ELSE Unknown
    OBVIOUS
  <2>3. job'[p] = NoJob \/ job'[p] = [at |-> "queued", announced |-> count, found |-> {}]
    BY <1>3, <2>2 DEF NoJob
  <2>4. Collected(p)'
    BY <1>1, <2>2, <2>3 DEF Collected, Trusted, NoJob
  <2> QED
    BY <2>1, <2>4
<1> QED
  BY <1>4, <1>5 DEF FeedInv

(* A resolution goes on, if what it has collected fits.                    *)
LEMMA AdvanceCollects ==
  ASSUME FeedInv, NEW p \in Parents, NEW next,
         job' = [job EXCEPT ![p] = next], UNCHANGED <<feed, history>>, Collected(p)'
  PROVE  FeedInv'
<1>1. Feeds'
  BY DEF FeedInv, Feeds, history
<1>2. \A q \in Parents : Steady(q)'
  BY DEF FeedInv, Steady, Titled, history
<1>3. ASSUME NEW q \in Parents, q # p PROVE Collected(q)'
  <2>1. job'[q] = job[q]
    BY <1>3 DEF FeedInv, Feeds
  <2> QED
    BY <2>1 DEF FeedInv, Collected, Trusted, history
<1> QED
  BY <1>1, <1>2, <1>3 DEF FeedInv

(* No resolution collects anything.                                        *)
LEMMA NothingCollected ==
  ASSUME NEW p \in Parents, job'[p] = NoJob
  PROVE  Collected(p)'
  BY DEF Collected, NoJob

(* The listing, its count, and the relationships where it falls short.     *)
LEMMA ResolutionCollects ==
  ASSUME FeedInv, NEW p \in Parents,
         ListEpisodes(p) \/ ListingSuffices(p) \/ Relationships(p)
  PROVE  FeedInv'
<1>0. PICK old : old = job[p]
  OBVIOUS
<1>1. /\ DOMAIN old = {"at", "announced", "found"}
      /\ feed[p] \in Seq(Episodes) /\ steady[p] \subseteq Titled(p) /\ p \in DOMAIN job
  BY <1>0 DEF FeedInv, Feeds, Collected, Steady
<1>2. UNCHANGED <<feed, history>> /\ moved' = moved /\ steady' = steady /\ feed' = feed
  BY DEF ListEpisodes, ListingSuffices, Relationships, Advance, catalog, history
<1>3. /\ p \notin moved =>
             /\ old.at # "none" => old.announced \in {Unknown, Len(feed[p])}
             /\ old.at = "listed" => old.found \subseteq ToSet(feed[p])
  BY <1>0 DEF FeedInv, Collected
<1>4. CASE ListEpisodes(p)
  <2>1. PICK found : found = NewestOf(feed[p]) \ Nameless
    OBVIOUS
  <2>2. found \subseteq ToSet(feed[p])
    BY <2>1 DEF NewestOf, ToSet
  <2>3. PICK next : next = [old EXCEPT !.at = "listed", !.found = found]
    OBVIOUS
  <2>4. job' = [job EXCEPT ![p] = next] /\ old.at = "queued"
    BY <1>0, <1>4, <2>1, <2>3 DEF ListEpisodes, Advance
  <2>5. job'[p] = next
    BY <1>1, <2>4
  <2>6. /\ DOMAIN next = {"at", "announced", "found"}
        /\ next.at = "listed" /\ next.announced = old.announced /\ next.found = found
    BY <1>1, <2>3
  <2>7. Collected(p)'
    BY <1>2, <1>3, <2>2, <2>4, <2>5, <2>6 DEF Collected
  <2> QED
    BY <1>2, <2>4, <2>7, AdvanceCollects
<1>5. CASE ListingSuffices(p)
  <2>1. old.at = "listed" /\ old.announced # Unknown /\ ~(old.announced > Cardinality(old.found))
    BY <1>0, <1>5 DEF ListingSuffices, Incomplete
  <2>2. PICK next : next = [old EXCEPT !.at = "apply"]
    OBVIOUS
  <2>3. job' = [job EXCEPT ![p] = next]
    BY <1>0, <1>5, <2>2 DEF ListingSuffices, Advance
  <2>4. job'[p] = next
    BY <1>1, <2>3
  <2>5. p \notin moved => steady[p] \subseteq old.found
    <3> SUFFICES ASSUME p \notin moved PROVE steady[p] \subseteq old.found
      OBVIOUS
    <3>1. old.announced = Len(feed[p]) /\ old.found \subseteq ToSet(feed[p])
      BY <1>3, <2>1
    <3>2. old.found = ToSet(feed[p])
      BY <1>1, <2>1, <3>1, CountTells
    <3> QED
      BY <1>1, <3>2 DEF Titled
  <2>6. /\ DOMAIN next = {"at", "announced", "found"}
        /\ next.at = "apply" /\ next.announced = old.announced /\ next.found = old.found
    BY <1>1, <2>2
  <2>7. Collected(p)'
    BY <1>2, <1>3, <2>1, <2>4, <2>5, <2>6 DEF Collected, Trusted
  <2> QED
    BY <1>2, <2>3, <2>7, AdvanceCollects
<1>6. CASE Relationships(p)
  <2>1. PICK found : found = old.found \cup Titled(p)
    OBVIOUS
  <2>2. PICK next : next = [old EXCEPT !.at = "apply", !.found = found]
    OBVIOUS
  <2>3. job' = [job EXCEPT ![p] = next] /\ old.at = "listed"
    BY <1>0, <1>6, <2>1, <2>2 DEF Relationships, Advance
  <2>4. job'[p] = next
    BY <1>1, <2>3
  <2>5. /\ DOMAIN next = {"at", "announced", "found"}
        /\ next.at = "apply" /\ next.announced = old.announced /\ next.found = found
    BY <1>1, <2>2
  <2>6. Collected(p)'
    BY <1>1, <1>2, <1>3, <2>1, <2>3, <2>4, <2>5 DEF Collected, Trusted
  <2> QED
    BY <1>2, <2>3, <2>6, AdvanceCollects
<1> QED
  BY <1>4, <1>5, <1>6

(* A resolution is applied, fails, or dies with its run.                   *)
LEMMA EndCollects ==
  ASSUME FeedInv,
         \/ \E p \in Parents : ApplyEpisodes(p) \/ ResolutionFails(p)
         \/ Crash
  PROVE  FeedInv'
<1>1. CASE \E p \in Parents : ApplyEpisodes(p) \/ ResolutionFails(p)
  <2>1. PICK p \in Parents : ApplyEpisodes(p) \/ ResolutionFails(p)
    BY <1>1
  <2>2. job' = [job EXCEPT ![p] = NoJob] /\ UNCHANGED <<feed, history>>
    BY <2>1 DEF ApplyEpisodes, ResolutionFails, Advance, catalog, history
  <2>3. job'[p] = NoJob
    BY <2>2 DEF FeedInv, Feeds
  <2>4. Collected(p)'
    BY <2>3, NothingCollected
  <2> QED
    BY <2>2, <2>4, AdvanceCollects
<1>2. CASE Crash
  <2>1. job' = [p \in Parents |-> NoJob] /\ UNCHANGED <<feed, history>>
    BY <1>2 DEF Crash, catalog, history
  <2>2. \A p \in Parents : Collected(p)'
    BY <2>1, NothingCollected
  <2> QED
    BY <2>1, <2>2 DEF FeedInv, Feeds, Steady, Titled, history
<1> QED
  BY <1>1, <1>2

(* Every step keeps what the resolutions have collected.                   *)
LEMMA FeedKeeps ==
  ASSUME FeedInv, [ENext]_evars
  PROVE  FeedInv'
<1>1. CASE \E p \in Parents : \/ \E e \in Episodes : Publish(p, e)
                              \/ \E i \in DOMAIN feed[p] : Withdraw(p, i)
  <2>1. PICK p \in Parents : \/ \E e \in Episodes : Publish(p, e)
                            \/ \E i \in DOMAIN feed[p] : Withdraw(p, i)
    BY <1>1
  <2>2. PICK s : s = feed[p]
    OBVIOUS
  <2>3. s \in Seq(Episodes)
    BY <2>2 DEF FeedInv, Feeds
  <2>4. CASE \E e \in Episodes : Publish(p, e)
    <3>1. PICK e \in Episodes : FeedChange(p, Append(feed[p], e))
      BY <2>4 DEF Publish
    <3>2. PICK new : new = Append(s, e)
      OBVIOUS
    <3>3. new \in Seq(Episodes) /\ FeedChange(p, new)
      BY <2>2, <2>3, <3>1, <3>2
    <3> QED
      BY <3>3, FeedChanges
  <2>5. CASE \E i \in DOMAIN feed[p] : Withdraw(p, i)
    <3>1. PICK i \in DOMAIN s : FeedChange(p, RemoveAt(feed[p], i))
      BY <2>2, <2>5 DEF Withdraw
    <3>2. PICK new : new = RemoveAt(s, i)
      OBVIOUS
    <3>3. i \in 1 .. Len(s) /\ Len(s) \in Nat
      BY <2>3
    <3>4. SubSeq(s, 1, i - 1) \in Seq(Episodes) /\ SubSeq(s, i + 1, Len(s)) \in Seq(Episodes)
      BY <2>3, <3>3
    <3>5. new \in Seq(Episodes)
      BY <3>2, <3>4 DEF RemoveAt
    <3> QED
      BY <2>2, <3>1, <3>2, <3>5, FeedChanges
  <2> QED
    BY <2>1, <2>4, <2>5
<1>2. CASE UNCHANGED <<feed, job, history>>
  BY <1>2 DEF FeedInv, Feeds, Steady, Titled, Collected, Trusted, history
<1>3. UNCHANGED evars => UNCHANGED <<feed, job, history>>
  BY DEF evars, history
<1>4. \A p \in Parents : Membership(p) \/ ReturnParent(p) \/ DbRemoveParent(p)
         => UNCHANGED <<feed, job, history>>
  BY DEF Membership, ReturnParent, DbRemoveParent, catalog, history
<1> QED
  BY <1>1, <1>2, <1>3, <1>4, PagesCollect, ResolutionCollects, EndCollects DEF ENext

(* A resolution whose show announced no count, or whose feed stood still   *)
(* since the page, leaves every titled episode of the feed active          *)
(* (library_sync.rs, resolve_episodes; episodes.rs, apply_episodes): the   *)
(* capped listing never passes as the complete one.                        *)
THEOREM CappedListingIsNoFeed == ESpec => UndisturbedResolutionKeepsFeed
<1> DEFINE A == \A p \in Parents :
                  ApplyEpisodes(p) /\ (job[p].announced = Unknown \/ p \notin moved)
                    => steady[p] \subseteq ActiveOf(p)'
<1>1. EInit => FeedInv
  <2> SUFFICES ASSUME EInit PROVE FeedInv
    OBVIOUS
  <2>1. Feeds
    BY DEF EInit, Feeds
  <2>2. \A p \in Parents : Steady(p)
    BY DEF EInit, Steady
  <2>3. \A p \in Parents : Collected(p)
    BY DEF EInit, Collected, NoJob
  <2> QED
    BY <2>1, <2>2, <2>3 DEF FeedInv
<1>2. FeedInv /\ [ENext]_evars => FeedInv'
  BY FeedKeeps
<1>3. ESpec => []FeedInv
  BY <1>1, <1>2, PTL DEF ESpec
<1>4. ESpec => []IInv
  BY EpisodeInvariant
<1>5. FeedInv /\ IInv => A
  <2> SUFFICES ASSUME FeedInv, IInv, NEW p \in Parents, ApplyEpisodes(p), Trusted(p)
               PROVE  steady[p] \subseteq ActiveOf(p)'
    BY DEF Trusted
  <2>1. steady[p] \subseteq job[p].found
    BY DEF FeedInv, Collected, ApplyEpisodes
  <2>2. steady[p] \subseteq Episodes
    <3>1. steady[p] \subseteq ToSet(feed[p]) /\ feed[p] \in Seq(Episodes)
      BY DEF FeedInv, Feeds, Steady, Titled
    <3> QED
      BY <3>1 DEF ToSet
  <2>3. \A e \in Episodes : e \in job[p].found => eps'[e] = [st |-> "active", parent |-> p]
    BY DEF ApplyEpisodes
  <2> QED
    BY <2>1, <2>2, <2>3 DEF ActiveOf
<1> HIDE DEF A
<1>6. FeedInv /\ IInv /\ [ENext]_evars => [A]_evars
  BY <1>5
<1>7. ESpec => [][A]_evars
  BY <1>3, <1>4, <1>6, PTL DEF ESpec
<1> QED
  BY <1>7 DEF A, UndisturbedResolutionKeepsFeed

=============================================================================
