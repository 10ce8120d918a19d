-------------------------- MODULE LibrarySyncProofs --------------------------
(***************************************************************************)
(* Theorems about the four sides of the library.                           *)
(*                                                                         *)
(* LibrarySync, for any set of items and any number of runs: its type      *)
(* invariant, that runs exclude each other, that the stored token is never *)
(* ahead of the rows, and that it never goes back.  TokenCovers is not     *)
(* inductive: storing a token is safe only because of what the run did     *)
(* before.  `Settled` says what that was, item by item.                    *)
(*                                                                         *)
(* AutoSync: what a read answers from is fresh.  ChangeLog: the newest     *)
(* entry of a title agrees with its row.  LibraryViews: what a run takes   *)
(* it can download, and the listing of what is missing agrees with the     *)
(* sweep.  These are proved of the module's own specification, which the   *)
(* run checks as one side of MCLibrary.                                    *)
(***************************************************************************)
EXTENDS MCLibrary, TLAPS

(* A run that has begun holds the lock.                                    *)
Locked == \A p \in Procs : pc[p] # "idle" => lock = p

(* The server hands out no time it has not reached.                        *)
Past ==
    /\ \A a \in Asins : srv[a].ver <= clock
    /\ db.token <= clock /\ durable.token <= clock

(* Between Begin and PersistToken nobody else moves the token.             *)
SentToken ==
    \A p \in Procs : pc[p] \in {"begun", "paging", "applied"}
                        => req[p] = 0 \/ req[p] = db.token

Reading(p) == pc[p] \in {"paging", "applied"}

(* What the server changed since the first page is newer than its token.   *)
Snapshot ==
    \A p \in Procs : Reading(p) =>
       /\ db.token <= rsp[p] /\ rsp[p] <= clock
       /\ \A a \in Asins :
             /\ listing[p][a].ver <= rsp[p]
             /\ srv[a] = listing[p][a] \/ srv[a].ver > rsp[p]

(* An item the run owes nothing more: its row agrees with the listing.     *)
Settled(p, a) ==
    /\ listing[p][a].st = "active" /\ a \notin Untitled /\ a \notin db.local
          => db.items[a] = [st |-> "active", doc |-> listing[p][a].ver]
    /\ listing[p][a].st = "revoked" /\ req[p] # 0
         /\ db.fullAt < listing[p][a].ver
          => db.items[a].st # "active"

Progress ==
    \A p \in Procs :
       /\ Reading(p) => \A a \in Asins \ left[p] : Settled(p, a)
       /\ pc[p] = "applied" => left[p] = {}

IInv == TypeOK /\ Locked /\ Past /\ SentToken /\ Snapshot /\ Progress /\ TokenCovers

(* The hypotheses every action proof starts from.                          *)
USE DEF vars, server, runs, Phase, Feed, ItemState, Database, Table, Row, RowState

(* An empty database, with no run started, satisfies the invariant.        *)
THEOREM InitIInv == Init => IInv
  BY NoProcAssumption DEF Init, IInv, TypeOK, Locked, Past, SentToken, Snapshot,
     Reading, Settled, Progress, TokenCovers, Covers, MissedUpsert,
     MissedRevocation, EmptyDb, EmptyFeed, NoRow

(* Steps that touch neither the database nor a run's reading.              *)
LEMMA PublishStep ==
    ASSUME IInv, NEW a \in Asins, PublishActive(a) \/ PublishRevoked(a)
    PROVE  IInv'
<1>1. PICK st \in {"active", "revoked"} :
        srv' = [srv EXCEPT ![a] = [st |-> st, ver |-> clock + 1]]
  BY DEF PublishActive, PublishRevoked
<1>2. clock' = clock + 1 /\ UNCHANGED <<db, durable, runs, flight>>
  BY DEF PublishActive, PublishRevoked
<1>3. /\ clock \in Nat /\ srv \in Feed
      /\ db.token \in Nat /\ durable.token \in Nat
      /\ \A b \in Asins : srv[b].ver \in Nat
  BY DEF IInv, TypeOK
<1>4. \A b \in Asins : srv'[b] = IF b = a THEN [st |-> st, ver |-> clock + 1]
                                          ELSE srv[b]
  BY <1>1, <1>3
<1>5. TypeOK'
  BY <1>1, <1>2, <1>3 DEF IInv, TypeOK
<1>6. Locked' /\ SentToken'
  BY <1>2 DEF IInv, Locked, SentToken
<1>7. Past'
  <2>1. /\ \A b \in Asins : srv[b].ver <= clock
        /\ db.token <= clock /\ durable.token <= clock
    BY DEF IInv, Past
  <2>2. \A b \in Asins : srv'[b].ver <= clock + 1
    BY <1>3, <1>4, <2>1
  <2>3. db.token <= clock + 1 /\ durable.token <= clock + 1
    BY <1>3, <2>1
  <2> QED BY <1>2, <2>2, <2>3 DEF Past
<1>8. Snapshot'
  <2>1. SUFFICES ASSUME NEW q \in Procs, Reading(q)
                 PROVE  /\ db.token <= rsp[q] /\ rsp[q] <= clock + 1
                        /\ \A b \in Asins :
                              /\ listing[q][b].ver <= rsp[q]
                              /\ srv'[b] = listing[q][b] \/ srv'[b].ver > rsp[q]
    BY <1>2 DEF Snapshot, Reading
  <2>2. /\ db.token <= rsp[q] /\ rsp[q] <= clock
        /\ \A b \in Asins :
              /\ listing[q][b].ver <= rsp[q]
              /\ srv[b] = listing[q][b] \/ srv[b].ver > rsp[q]
    BY <2>1 DEF IInv, Snapshot
  <2>3. rsp[q] \in Nat
    BY DEF IInv, TypeOK
  <2>4. rsp[q] <= clock + 1 /\ clock + 1 > rsp[q]
    BY <1>3, <2>2, <2>3
  <2>5. ASSUME NEW b \in Asins
        PROVE  /\ listing[q][b].ver <= rsp[q]
               /\ srv'[b] = listing[q][b] \/ srv'[b].ver > rsp[q]
    <3>1. /\ listing[q][b].ver <= rsp[q]
          /\ srv[b] = listing[q][b] \/ srv[b].ver > rsp[q]
      BY <2>2
    <3>2. CASE b = a
      <4>1. srv'[b].ver = clock + 1
        BY <1>4, <3>2
      <4> QED BY <2>4, <3>1, <4>1
    <3>3. CASE b # a
      <4>1. srv'[b] = srv[b]
        BY <1>4, <3>3
      <4> QED BY <3>1, <4>1
    <3> QED BY <3>2, <3>3
  <2> QED BY <2>2, <2>4, <2>5
<1>9. Progress'
  BY <1>2 DEF IInv, Progress, Reading, Settled
<1>10. TokenCovers'
  <2>1. ASSUME NEW d, d.token \in Nat, d.token <= clock, Covers(d)
        PROVE  \A b \in Asins : ~MissedUpsert(d, b)' /\ ~MissedRevocation(d, b)'
    <3>1. TAKE b \in Asins
    <3>2. CASE b = a
      <4>1. srv'[b].ver = clock + 1
        BY <1>4, <3>2
      <4> QED BY <1>3, <2>1, <4>1 DEF MissedUpsert, MissedRevocation
    <3>3. CASE b # a
      BY <1>4, <2>1, <3>3 DEF Covers, MissedUpsert, MissedRevocation
    <3> QED BY <3>2, <3>3
  <2>2. db.token <= clock /\ durable.token <= clock /\ Covers(db) /\ Covers(durable)
    BY DEF IInv, Past, TokenCovers
  <2>3. Covers(db)'
    BY <1>2, <1>3, <2>1, <2>2 DEF Covers, MissedUpsert, MissedRevocation
  <2>4. Covers(durable)'
    BY <1>2, <1>3, <2>1, <2>2 DEF Covers, MissedUpsert, MissedRevocation
  <2> QED BY <2>3, <2>4 DEF TokenCovers
<1> QED BY <1>5, <1>6, <1>7, <1>8, <1>9, <1>10 DEF IInv

(* A run starts: it reads the token or asks for everything.                *)
LEMMA BeginStep ==
    ASSUME IInv, NEW p \in Procs, NEW full \in BOOLEAN, Begin(p, full)
    PROVE  IInv'
<1>1. TypeOK'
  BY DEF IInv, TypeOK, Begin
<1>2. Locked' /\ Past' /\ SentToken'
  BY NoProcAssumption DEF IInv, TypeOK, Begin, Locked, Past, SentToken
<1>3. Snapshot' /\ Progress'
  BY DEF IInv, TypeOK, Begin, Snapshot, Progress, Reading, Settled
<1>4. TokenCovers'
  BY DEF IInv, Begin, TokenCovers, Covers, MissedUpsert, MissedRevocation
<1> QED BY <1>1, <1>2, <1>3, <1>4 DEF IInv

(* The listing is what the server shows, and what it leaves out the        *)
(* database holds already.                                                 *)
LEMMA ListStep ==
    ASSUME IInv, NEW p \in Procs, List(p)
    PROVE  IInv'
<1>1. TypeOK'
  BY DEF IInv, TypeOK, List, Listed
<1>2. Locked' /\ Past' /\ SentToken'
  BY DEF IInv, TypeOK, List, Locked, Past, SentToken
<1>3. Snapshot'
  BY DEF IInv, TypeOK, List, Past, Snapshot, Reading
<1>4. Progress'
  <2>1. ASSUME NEW a \in Asins, a \notin Listed(p)
        PROVE  Settled(p, a)'
    <3>1. CASE req[p] = 0
      BY <2>1, <3>1 DEF IInv, TypeOK, List, Listed, Settled
    <3>2. CASE req[p] # 0
      BY <2>1, <3>2 DEF IInv, TypeOK, List, Listed, Settled, SentToken,
         TokenCovers, Covers, MissedUpsert, MissedRevocation
    <3> QED BY <3>1, <3>2
  <2>2. ASSUME NEW q \in Procs, q # p
        PROVE  ~Reading(q)'
    BY <2>2 DEF IInv, TypeOK, List, Locked, Reading
  <2> QED BY <2>1, <2>2 DEF IInv, TypeOK, List, Progress, Reading
<1>5. TokenCovers'
  BY DEF IInv, List, TokenCovers, Covers, MissedUpsert, MissedRevocation
<1> QED BY <1>1, <1>2, <1>3, <1>4, <1>5 DEF IInv

(* A page moves neither the token nor the time of the last full listing.   *)
LEMMA PageTyped ==
    ASSUME TypeOK, NEW p \in Procs, NEW carried \in SUBSET Asins
    PROVE  LET d == PageApplied(p, carried)
           IN d \in Database /\ d.token = db.token /\ d.fullAt = db.fullAt
<1>1. db \in Database /\ listing[p] \in Feed
  BY DEF TypeOK
<1>2. /\ [b \in Asins |-> listing[p][b].ver] \in [Asins -> Nat]
      /\ Upserts(p, carried) \subseteq Asins /\ Deletes(p, carried) \subseteq Asins
  BY <1>1 DEF Upserts, Deletes
<1>3. Upsert(db.items, Upserts(p, carried), [b \in Asins |-> listing[p][b].ver]) \in Table
  BY <1>1, <1>2 DEF Upsert
<1>4. ApplyPage(db.items, Upserts(p, carried), [b \in Asins |-> listing[p][b].ver],
                Deletes(p, carried)) \in Table
  BY <1>3 DEF ApplyPage, SoftDelete
<1> QED BY <1>1, <1>4 DEF PageApplied

(* What a page does to one item.                                           *)
LEMMA PageRow ==
    ASSUME TypeOK, NEW p \in Procs, NEW carried \in SUBSET Asins, NEW a \in Asins
    PROVE  LET d == PageApplied(p, carried)
           IN /\ a \notin carried => d.items[a] = db.items[a]
                                 /\ (a \in d.local <=> a \in db.local)
              /\ a \in carried /\ listing[p][a].st = "active" /\ a \notin Untitled
                    => d.items[a] = [st |-> "active", doc |-> listing[p][a].ver]
              /\ a \in carried /\ listing[p][a].st = "revoked"
                    => d.items[a].st # "active"
              /\ a \in carried /\ a \in Untitled /\ listing[p][a].st = "active"
                    => d.items[a] = db.items[a]
              /\ a \in carried /\ listing[p][a].st = "none"
                    => d.items[a] = db.items[a] /\ (a \in d.local <=> a \in db.local)
<1> DEFINE d == PageApplied(p, carried)
           docs == [b \in Asins |-> listing[p][b].ver]
           up == Upserts(p, carried)
           del == Deletes(p, carried)
           mid == Upsert(db.items, up, docs)
<1>1. db \in Database /\ listing[p] \in Feed
  BY DEF TypeOK
<1>2. docs \in [Asins -> Nat] /\ up \subseteq Asins /\ del \subseteq Asins
  BY <1>1 DEF Upserts, Deletes
<1>3. mid \in Table
  BY <1>1, <1>2 DEF Upsert
<1>5. d.items = SoftDelete(mid, del) /\ d.local = db.local \ (up \cup del)
  BY <1>1 DEF PageApplied, ApplyPage
<1>6. a \in up => mid[a] = [st |-> "active", doc |-> listing[p][a].ver]
  BY DEF Upsert
<1>7. a \notin up => mid[a] = db.items[a]
  BY DEF Upsert
<1>8. a \notin del => d.items[a] = mid[a]
  BY <1>5 DEF SoftDelete
<1>9. a \in del => d.items[a].st # "active"
  BY <1>3, <1>5 DEF SoftDelete
<1>10. /\ a \in up <=> a \in carried /\ listing[p][a].st = "active" /\ a \notin Untitled
       /\ a \in del <=> a \in carried /\ listing[p][a].st = "revoked"
  BY DEF Upserts, Deletes
<1> QED BY <1>5, <1>6, <1>7, <1>8, <1>9, <1>10

(* A page settles what it carries and nothing that was settled before.     *)
LEMMA SyncPageStep ==
    ASSUME IInv, NEW p \in Procs, SyncPage(p)
    PROVE  IInv'
<1>1. PICK carried \in SUBSET left[p] :
        /\ db' = PageApplied(p, carried)
        /\ left' = [left EXCEPT ![p] = left[p] \ carried]
        /\ pc' = [pc EXCEPT ![p] = IF carried = left[p] THEN "applied" ELSE "paging"]
  BY DEF SyncPage
<1>2. pc[p] = "paging" /\ UNCHANGED <<server, durable, lock, req, listing, rsp, flight>>
  BY DEF SyncPage
<1>3. TypeOK /\ carried \in SUBSET Asins
  BY DEF IInv, TypeOK
<1>4. db' \in Database /\ db'.token = db.token /\ db'.fullAt = db.fullAt
  BY <1>1, <1>3, PageTyped
<1>5. TypeOK'
  BY <1>1, <1>2, <1>3, <1>4 DEF TypeOK
<1>6. Locked' /\ Past' /\ SentToken'
  BY <1>1, <1>2, <1>3, <1>4 DEF IInv, TypeOK, Locked, Past, SentToken
<1>7. \A q \in Procs : q # p => ~Reading(q) /\ ~Reading(q)' /\ pc'[q] # "applied"
  BY <1>1, <1>2, <1>3 DEF IInv, TypeOK, Locked, Reading
<1>8. Reading(p)
  BY <1>2 DEF Reading
<1>9. Snapshot'
  BY <1>2, <1>4, <1>7, <1>8 DEF IInv, Snapshot
<1>10. Progress'
  <2>1. ASSUME NEW a \in Asins, a \notin left[p] \ carried
        PROVE  Settled(p, a)'
    <3>1. CASE a \in carried
      BY <1>1, <1>2, <1>3, <1>4, <3>1, PageRow DEF Settled
    <3>2. CASE a \notin carried
      <4>1. Settled(p, a)
        BY <1>8, <2>1, <3>2 DEF IInv, Progress
      <4>2. db'.items[a] = db.items[a] /\ (a \in db'.local <=> a \in db.local)
        BY <1>1, <1>3, <3>2, PageRow
      <4> QED BY <1>2, <1>4, <4>1, <4>2 DEF Settled
    <3> QED BY <3>1, <3>2
  <2>2. left'[p] = left[p] \ carried /\ (pc'[p] = "applied" => left'[p] = {})
    BY <1>1, <1>3 DEF TypeOK
  <2> QED BY <1>7, <2>1, <2>2 DEF Progress
<1>11. TokenCovers'
  <2>1. ASSUME NEW a \in Asins
        PROVE  ~MissedUpsert(db, a)' /\ ~MissedRevocation(db, a)'
    <3>1. ~MissedUpsert(db, a) /\ ~MissedRevocation(db, a)
      BY DEF IInv, TokenCovers, Covers
    <3>2. CASE a \notin carried
      <4>1. db'.items[a] = db.items[a] /\ (a \in db'.local <=> a \in db.local)
        BY <1>1, <1>3, <3>2, PageRow
      <4> QED BY <1>2, <1>4, <3>1, <4>1 DEF MissedUpsert, MissedRevocation
    <3>3. CASE a \in carried /\ srv[a].ver <= db.token
      <4>1. srv[a] = listing[p][a]
        BY <1>3, <1>8, <3>3 DEF IInv, TypeOK, Snapshot
      <4> QED BY <1>1, <1>2, <1>3, <1>4, <3>3, <4>1, PageRow
              DEF MissedUpsert, MissedRevocation
    <3>4. CASE ~(srv[a].ver <= db.token)
      BY <1>2, <1>4, <3>4 DEF MissedUpsert, MissedRevocation
    <3> QED BY <3>2, <3>3, <3>4
  <2>2. Covers(durable)'
    BY <1>2 DEF IInv, TokenCovers, Covers, MissedUpsert, MissedRevocation
  <2> QED BY <2>1, <2>2 DEF TokenCovers, Covers
<1> QED BY <1>5, <1>6, <1>9, <1>10, <1>11 DEF IInv

(* Every page is applied, so what the new token promises is settled.       *)
LEMMA PersistTokenStep ==
    ASSUME IInv, NEW p \in Procs, PersistToken(p)
    PROVE  IInv' /\ db.token <= db'.token
<1>1. /\ pc[p] = "applied" /\ pc' = [pc EXCEPT ![p] = "resolving"]
      /\ UNCHANGED <<server, durable, lock, req, listing, rsp, left, flight>>
  BY DEF PersistToken
<1>2. TypeOK /\ Reading(p) /\ left[p] = {}
  BY <1>1 DEF IInv, Reading, Progress
<1>3. /\ db'.items = db.items /\ db'.local = db.local /\ db'.token = rsp[p]
      /\ db'.fullAt = IF req[p] = 0 THEN rsp[p] ELSE db.fullAt
      /\ db' \in Database
  BY <1>2 DEF PersistToken, TypeOK
<1>4. /\ db.token <= rsp[p] /\ rsp[p] <= clock
      /\ \A a \in Asins : srv[a] = listing[p][a] \/ srv[a].ver > rsp[p]
  BY <1>2 DEF IInv, Snapshot
<1>5. TypeOK'
  BY <1>1, <1>2, <1>3 DEF TypeOK
<1>6. Locked' /\ Past'
  BY <1>1, <1>2, <1>3, <1>4 DEF IInv, TypeOK, Locked, Past
<1>7. \A q \in Procs : pc'[q] \notin {"begun", "paging", "applied"}
  BY <1>1, <1>2 DEF IInv, TypeOK, Locked
<1>8. SentToken' /\ Snapshot' /\ Progress'
  BY <1>7 DEF SentToken, Snapshot, Progress, Reading
<1>9. ASSUME NEW a \in Asins
      PROVE  ~MissedUpsert(db, a)' /\ ~MissedRevocation(db, a)'
  <2>1. Settled(p, a)
    BY <1>2 DEF IInv, Progress
  <2>2. CASE srv[a].ver <= rsp[p]
    <3>1. srv[a] = listing[p][a]
      BY <1>2, <1>4, <2>2 DEF TypeOK
    <3> QED BY <1>1, <1>2, <1>3, <2>1, <2>2, <3>1
            DEF TypeOK, Settled, MissedUpsert, MissedRevocation
  <2>3. CASE ~(srv[a].ver <= rsp[p])
    BY <1>1, <1>3, <2>3 DEF MissedUpsert, MissedRevocation
  <2> QED BY <2>2, <2>3
<1>10. Covers(durable)'
  BY <1>1 DEF IInv, TokenCovers, Covers, MissedUpsert, MissedRevocation
<1>11. TokenCovers'
  BY <1>9, <1>10 DEF TokenCovers, Covers
<1> QED BY <1>3, <1>4, <1>5, <1>6, <1>8, <1>11 DEF IInv

(* A run ends, completes without a token, or a command's answer is lost.   *)
LEMMA StopStep ==
    ASSUME IInv, NEW p \in Procs, Finish(p) \/ Abort(p)
    PROVE  IInv'
<1>1. pc[p] # "idle" /\ Stopped(p)
  BY DEF Finish, Abort
<1>2. TypeOK'
  BY <1>1 DEF IInv, TypeOK, Stopped, EmptyFeed
<1>3. \A q \in Procs : pc'[q] = "idle"
  BY <1>1 DEF IInv, TypeOK, Locked, Stopped
<1>4. Locked' /\ Past' /\ SentToken' /\ Snapshot' /\ Progress'
  BY <1>1, <1>3 DEF IInv, Locked, Past, SentToken, Snapshot, Progress, Reading, Stopped
<1>5. TokenCovers'
  BY <1>1 DEF IInv, Stopped, TokenCovers, Covers, MissedUpsert, MissedRevocation
<1> QED BY <1>2, <1>4, <1>5 DEF IInv

(* A run whose last page came without a token leaves the stored one.       *)
LEMMA NoTokenStep ==
    ASSUME IInv, NEW p \in Procs, NoToken(p)
    PROVE  IInv'
<1>1. TypeOK'
  BY DEF IInv, TypeOK, NoToken
<1>2. Locked' /\ Past' /\ SentToken'
  BY DEF IInv, TypeOK, NoToken, Locked, Past, SentToken
<1>3. \A q \in Procs : Reading(q)' => Reading(q) /\ pc'[q] = pc[q]
  BY DEF IInv, TypeOK, NoToken, Reading
<1>4. Snapshot' /\ Progress'
  BY <1>3 DEF IInv, NoToken, Snapshot, Progress, Reading, Settled
<1>5. TokenCovers'
  BY DEF IInv, NoToken, TokenCovers, Covers, MissedUpsert, MissedRevocation
<1> QED BY <1>1, <1>2, <1>4, <1>5 DEF IInv

(* `library remove` returns a loan on the server before it polls.          *)
LEMMA ReturnStep ==
    ASSUME IInv, NEW a \in Asins, ReturnLoan(a) \/ ReturnDies(a)
    PROVE  IInv'
  BY DEF IInv, TypeOK, ReturnLoan, ReturnDies, Locked, Past, SentToken, Snapshot,
     Progress, Reading, Settled, TokenCovers, Covers, MissedUpsert, MissedRevocation

(* A local command takes at most one active row away, and says so.         *)
LEMMA LocalStep ==
    ASSUME IInv, NEW a \in Asins, HideReturned(a) \/ DbLibraryRemove(a)
    PROVE  IInv'
<1>1. UNCHANGED <<server, durable, runs>> /\ flight' \subseteq Asins
  BY DEF IInv, TypeOK, HideReturned, DbLibraryRemove
<1>2. db \in Database
  BY DEF IInv, TypeOK
<1>3. db' \in Database /\ db'.token = db.token /\ db'.fullAt = db.fullAt
  <2>1. SoftDeleteItem(db.items, a) \in Table
    BY <1>2 DEF SoftDeleteItem, SoftDelete
  <2>2. RemoveItem(db.items, a) \in Table
    BY <1>2 DEF RemoveItem, NoRow
  <2>3. CASE HideReturned(a)
    <3>1. (IF db.items[a].st = "active" THEN db.local \cup {a} ELSE db.local)
             \in SUBSET Asins
      BY <1>2
    <3> QED BY <1>2, <2>1, <2>3, <3>1 DEF HideReturned
  <2>4. CASE DbLibraryRemove(a)
    BY <1>2, <2>2, <2>4 DEF DbLibraryRemove
  <2> QED BY <2>3, <2>4
<1>4. ASSUME NEW b \in Asins
      PROVE  /\ db'.items[b] # db.items[b] => b \in db'.local /\ db'.items[b].st # "active"
             /\ b \in db.local => b \in db'.local
  <2>1. CASE HideReturned(a)
    BY <1>2, <2>1 DEF HideReturned, SoftDeleteItem, SoftDelete
  <2>2. CASE DbLibraryRemove(a)
    BY <1>2, <2>2 DEF DbLibraryRemove, RemoveItem, NoRow
  <2> QED BY <2>1, <2>2
<1>5. TypeOK'
  BY <1>1, <1>3 DEF IInv, TypeOK
<1>6. Locked' /\ Past' /\ SentToken' /\ Snapshot'
  BY <1>1, <1>3 DEF IInv, Locked, Past, SentToken, Snapshot, Reading
<1>7. Progress'
  BY <1>1, <1>3, <1>4 DEF IInv, Progress, Reading, Settled
<1>8. TokenCovers'
  <2>1. ASSUME NEW b \in Asins
        PROVE  ~MissedUpsert(db, b)' /\ ~MissedRevocation(db, b)'
    <3>1. ~MissedUpsert(db, b) /\ ~MissedRevocation(db, b)
      BY DEF IInv, TokenCovers, Covers
    <3> QED BY <1>1, <1>3, <1>4, <3>1 DEF MissedUpsert, MissedRevocation
  <2>2. Covers(durable)'
    BY <1>1 DEF IInv, TokenCovers, Covers, MissedUpsert, MissedRevocation
  <2> QED BY <2>1, <2>2 DEF TokenCovers, Covers
<1> QED BY <1>5, <1>6, <1>7, <1>8 DEF IInv

(* A checkpoint makes the database durable, a power loss goes back to it.  *)
LEMMA DurabilityStep ==
    ASSUME IInv, Checkpoint \/ PowerLoss
    PROVE  IInv'
<1>1. CASE Checkpoint
  <2>1. durable' = db /\ UNCHANGED <<server, db, runs, flight>>
    BY <1>1 DEF Checkpoint
  <2>2. TypeOK' /\ Past'
    BY <2>1 DEF IInv, TypeOK, Past
  <2>3. Locked' /\ SentToken' /\ Snapshot' /\ Progress'
    BY <2>1 DEF IInv, Locked, SentToken, Snapshot, Progress, Reading, Settled
  <2>4. TokenCovers'
    BY <2>1 DEF IInv, TokenCovers, Covers, MissedUpsert, MissedRevocation
  <2> QED BY <2>2, <2>3, <2>4 DEF IInv
<1>2. CASE PowerLoss
  <2>1. TypeOK' /\ Past'
    BY <1>2 DEF IInv, TypeOK, Past, PowerLoss, EmptyFeed
  <2>2. \A q \in Procs : pc'[q] = "idle"
    BY <1>2 DEF PowerLoss
  <2>3. Locked' /\ SentToken' /\ Snapshot' /\ Progress'
    BY <2>2 DEF Locked, SentToken, Snapshot, Progress, Reading
  <2>4. TokenCovers'
    BY <1>2 DEF IInv, PowerLoss, TokenCovers, Covers, MissedUpsert, MissedRevocation
  <2> QED BY <2>1, <2>3, <2>4 DEF IInv
<1> QED BY <1>1, <1>2

-----------------------------------------------------------------------------

(* IInv is inductive.                                                      *)
THEOREM NextIInv == IInv /\ [Next]_vars => IInv'
<1> SUFFICES ASSUME IInv, [Next]_vars PROVE IInv'
  OBVIOUS
<1>1. ASSUME NEW p \in Procs, Run(p) PROVE IInv'
  BY <1>1, BeginStep, ListStep, SyncPageStep, PersistTokenStep, NoTokenStep, StopStep
     DEF Run
<1>2. CASE Environment
  BY <1>2, PublishStep, ReturnStep, LocalStep, DurabilityStep DEF Environment
<1>3. CASE \E a \in Asins : DbLibraryRemove(a)
  BY <1>3, LocalStep
<1>4. CASE PowerLoss
  BY <1>4, DurabilityStep
<1>5. CASE UNCHANGED vars
  <2>1. TypeOK' /\ Locked' /\ Past' /\ SentToken' /\ Snapshot'
    BY <1>5 DEF IInv, TypeOK, Locked, Past, SentToken, Snapshot, Reading
  <2>2. Progress' /\ TokenCovers'
    BY <1>5 DEF IInv, Progress, Reading, Settled, TokenCovers, Covers,
       MissedUpsert, MissedRevocation
  <2> QED BY <2>1, <2>2 DEF IInv
<1> QED BY <1>1, <1>2, <1>3, <1>4, <1>5 DEF Next

(* The inductive invariant holds in every state of the specification.      *)
THEOREM InvariantIInv == Spec => []IInv
<1> QED BY InitIInv, NextIInv, PTL DEF Spec

(* Every variable keeps its type.                                          *)
THEOREM TypeCorrect == Spec => []TypeOK
<1>1. IInv => TypeOK
  BY DEF IInv
<1> QED BY <1>1, InvariantIInv, PTL

(* Two runs never work on the library at the same time.                    *)
THEOREM RunsExclude == Spec => []OneRun
<1>1. IInv => OneRun
  BY DEF IInv, Locked, OneRun
<1> QED BY <1>1, InvariantIInv, PTL

(* The stored state token is never ahead of the rows, in the database and  *)
(* in what a power loss leaves of it.                                      *)
THEOREM TokenIsCovered == Spec => []TokenCovers
<1>1. IInv => TokenCovers
  BY DEF IInv
<1> QED BY <1>1, InvariantIInv, PTL

(* No step but a power loss takes the token back.                          *)
THEOREM TokenAdvances == Spec => TokenNeverRegresses
<1>1. IInv /\ [Next]_vars => [db'.token >= db.token \/ db' = durable]_vars
  <2> SUFFICES ASSUME IInv, [Next]_vars
               PROVE  db'.token >= db.token \/ db' = durable \/ UNCHANGED vars
    OBVIOUS
  <2>1. db.token \in Nat /\ db \in Database
    BY DEF IInv, TypeOK
  <2>2. CASE UNCHANGED db
    BY <2>1, <2>2
  <2>3. ASSUME NEW p \in Procs, PersistToken(p)
        PROVE  db'.token >= db.token
    <3>1. db.token <= db'.token /\ IInv'
      BY <2>3, PersistTokenStep
    <3> QED BY <2>1, <3>1 DEF IInv, TypeOK
  <2>4. ASSUME NEW p \in Procs, SyncPage(p)
        PROVE  db'.token = db.token
    <3>1. PICK carried \in SUBSET left[p] : db' = PageApplied(p, carried)
      BY <2>4 DEF SyncPage
    <3> QED BY <3>1, PageTyped DEF IInv, TypeOK
  <2>5. ASSUME NEW a \in Asins, HideReturned(a) \/ DbLibraryRemove(a)
        PROVE  db'.token = db.token
    BY <2>1, <2>5 DEF HideReturned, DbLibraryRemove
  <2>6. CASE PowerLoss
    BY <2>6 DEF PowerLoss
  <2> QED BY <2>1, <2>2, <2>3, <2>4, <2>5, <2>6
          DEF Next, Run, Environment, Begin, List, NoToken, Finish, Abort, Stopped,
              PublishActive, PublishRevoked, ReturnLoan, ReturnDies, Checkpoint
<1> QED BY <1>1, InvariantIInv, PTL DEF Spec, TokenNeverRegresses

-----------------------------------------------------------------------------
(* AutoSync: what a read was served from.                                  *)

(* No time is no number, and an age is no negative number.                 *)
Timed == Never \notin Int /\ MaxAge \in Nat

ClocksTyped ==
    /\ now \in Nat /\ asked \in Nat /\ asked <= now
    /\ logged \in [Markets -> Nat \cup {Never}] /\ whole \in [Markets -> Nat \cup {Never}]
    /\ stale \subseteq Markets /\ busy \subseteq Markets

(* What the read did not judge stale was fresh then, and has not got older.*)
FreshThen ==
    reader # "start" =>
        \A m \in Markets \ stale : logged[m] # Never /\ asked - logged[m] <= MaxAge

(* What the read's own sync is through with is whole.                      *)
Refreshed(m) == whole[m] # Never /\ whole[m] >= asked

Syncing == reader = "syncing" => alock = "read" /\ \A m \in stale \ busy : Refreshed(m)

ReadInv ==
    /\ ClocksTyped /\ FreshThen /\ Syncing
    /\ reader # "done" => answer = "none"
    /\ answer = "served" => reader = "done" /\ \A m \in stale : Refreshed(m)

(* Steps of an explicit sync, and of the clock.                            *)
LEMMA ExplicitSyncKeeps ==
  ASSUME Timed, ReadInv,
         \/ A!Tick \/ A!SyncStarts \/ A!SyncEnds \/ A!SyncDies
         \/ \E m \in Markets : A!SyncFails(m)
  PROVE  ReadInv'
  BY DEF Timed, A!Tick, A!SyncStarts, A!SyncEnds, A!SyncDies, A!SyncFails, ReadInv, ClocksTyped,
         FreshThen, Syncing, Refreshed

(* A page, of whichever sync.                                              *)
LEMMA PageKeeps ==
  ASSUME Timed, ReadInv, NEW m \in Markets, NEW last \in BOOLEAN, A!SyncPage(m, last)
  PROVE  ReadInv'
<1>1. /\ logged' = [logged EXCEPT ![m] = now]
      /\ whole' = whole \/ (whole' = [whole EXCEPT ![m] = now])
      /\ busy' \subseteq busy /\ (m \in busy' \/ whole' = [whole EXCEPT ![m] = now])
      /\ \A k \in Markets \ {m} : k \in busy' <=> k \in busy
      /\ UNCHANGED <<now, alock, reader, asked, stale, answer>>
  BY DEF A!SyncPage
<1>2. ClocksTyped'
  BY <1>1 DEF ReadInv, ClocksTyped
<1>3. \A k \in Markets : logged'[k] = logged[k] \/ logged'[k] = now
  BY <1>1 DEF ReadInv, ClocksTyped
<1>4. \A k \in Markets : Refreshed(k) => Refreshed(k)'
  BY <1>1 DEF Timed, ReadInv, ClocksTyped, Refreshed
<1>5. m \in busy' \/ Refreshed(m)'
  BY <1>1 DEF Timed, ReadInv, ClocksTyped, Refreshed
<1>6. FreshThen'
  BY <1>1, <1>3 DEF Timed, ReadInv, ClocksTyped, FreshThen
<1>7. Syncing'
  BY <1>1, <1>4, <1>5 DEF ReadInv, ClocksTyped, Syncing
<1>8. answer' = "served" => reader' = "done" /\ \A k \in stale' : Refreshed(k)'
  BY <1>1, <1>4 DEF ReadInv, ClocksTyped
<1> QED
  BY <1>1, <1>2, <1>6, <1>7, <1>8 DEF ReadInv

(* The read command.                                                       *)
LEMMA JudgeKeeps ==
  ASSUME Timed, ReadInv, A!Judge
  PROVE  ReadInv'
<1>1. /\ asked' = now /\ stale' = {m \in Markets : A!IsStale(m)}
      /\ reader' \in {"done", "judged"} /\ answer = "none"
      /\ \/ reader' = "done" /\ answer' = "served" /\ stale' = {}
         \/ reader' = "judged" /\ answer' = "none"
      /\ UNCHANGED <<now, logged, whole, alock, busy>>
  BY DEF A!Judge, A!Answer, ReadInv
<1>2. \A m \in Markets \ stale' : logged[m] # Never /\ now - logged[m] <= MaxAge
  BY <1>1 DEF Timed, A!IsStale, ReadInv, ClocksTyped
<1> QED
  BY <1>1, <1>2 DEF ReadInv, ClocksTyped, FreshThen, Syncing

(* Every step of the reads and the clock.                                  *)
LEMMA ReadKeeps ==
  ASSUME Timed, ReadInv,
         A!Skip \/ A!AutoSyncStarts \/ A!AutoSyncEnds \/ A!AutoSyncFails \/ A!ServeOffline
  PROVE  ReadInv'
<1> USE DEF ReadInv, ClocksTyped, FreshThen, Syncing, A!Answer
<1>1. CASE A!Skip
  BY <1>1 DEF A!Skip, Refreshed
<1>2. CASE A!AutoSyncStarts
  BY <1>2 DEF A!AutoSyncStarts
<1>3. CASE A!AutoSyncEnds
  BY <1>3 DEF A!AutoSyncEnds, Refreshed
<1>4. CASE A!AutoSyncFails
  BY <1>4 DEF A!AutoSyncFails
<1>5. CASE A!ServeOffline
  BY <1>5 DEF A!ServeOffline
<1> QED
  BY <1>1, <1>2, <1>3, <1>4, <1>5

(* A read that answers as served has brought what was stale up to date, for*)
(* any marketplaces and beside any number of explicit syncs.               *)
THEOREM ReadsAreFresh == Timed => (A!Spec => []ServedIsFresh)
<1> SUFFICES ASSUME Timed PROVE A!Spec => []ServedIsFresh
  OBVIOUS
<1>1. A!Init => ReadInv
  BY DEF A!Init, ReadInv, ClocksTyped, FreshThen, Syncing
<1>2. ReadInv /\ [A!Next]_(A!vars) => ReadInv'
  <2> SUFFICES ASSUME ReadInv, [A!Next]_(A!vars) PROVE ReadInv'
    OBVIOUS
  <2>1. CASE UNCHANGED A!vars
    BY <2>1 DEF A!vars, ReadInv, ClocksTyped, FreshThen, Syncing, Refreshed
  <2> QED
    BY <2>1, ExplicitSyncKeeps, PageKeeps, JudgeKeeps, ReadKeeps DEF A!Next
<1>3. ReadInv => ServedIsFresh
  BY DEF ReadInv, ClocksTyped, FreshThen, Refreshed, ServedIsFresh, A!ServedIsFresh
<1> QED
  BY <1>1, <1>2, <1>3, PTL DEF A!Spec

-----------------------------------------------------------------------------
(* ChangeLog: the newest entry of a title against its row.                 *)

(* An episode's ASIN is no item's of its own, in a log of one library.     *)
Apart == Episodes \cap (Books \cup {Show}) = {}

LogRun == [on : {TRUE}, since : SUBSET C!Items, shows : BOOLEAN, todo : SUBSET C!Items,
           record : BOOLEAN]

LogTyped ==
    /\ \A t \in DOMAIN owned : t \in C!Items /\ owned[t] \in C!Doc
    /\ feed \subseteq Episodes /\ delta \subseteq C!Items
    /\ row \in [C!Titles -> C!Row]
    /\ latest = [t \in C!Titles |-> latest[t]]
    /\ run = C!NoRun \/ run \in LogRun

LogInv == LogTyped /\ LogAgreesWithRows

(* What a transaction logs is true of the rows it leaves.                  *)
EntriesFit(entries, new) ==
    \A t \in C!Titles \cap DOMAIN entries :
        entries[t].kind # "none" => ((entries[t].kind = "removed") = (new[t].st # "active"))

(* And it is silent on nothing that came or went, but where it may be.     *)
EntriesTell(entries, old, new, silent) ==
    \A t \in C!Titles \ silent :
        ((old[t].st = "active") # (new[t].st = "active")) =>
            t \in DOMAIN entries /\ entries[t].kind # "none"

(* The log follows the rows through a transaction that tells.              *)
LEMMA LogFollows ==
  ASSUME LogAgreesWithRows, NEW new, NEW entries, NEW silent,
         row' = new, latest' = C!Logged(entries), C!Unlogged(new, entries, silent),
         EntriesFit(entries, new), EntriesTell(entries, row, new, silent)
  PROVE  LogAgreesWithRows'
<1> SUFFICES ASSUME NEW t \in C!Titles, latest'[t].kind # "none", t \notin quiet'
             PROVE  (latest'[t].kind = "removed") = (row'[t].st # "active")
  BY DEF LogAgreesWithRows, C!LogAgreesWithRows
<1>1. CASE t \in DOMAIN entries /\ entries[t].kind # "none"
  BY <1>1 DEF C!Logged, EntriesFit
<1>2. CASE ~(t \in DOMAIN entries /\ entries[t].kind # "none")
  <2>1. latest'[t] = latest[t] /\ C!Logged(entries)[t] = latest[t]
    BY <1>2 DEF C!Logged
  <2>2. t \notin quiet /\ ~(t \in silent /\ (t \in C!Active(row)) # (t \in C!Active(new)))
    BY <2>1 DEF C!Unlogged
  <2>3. (row[t].st = "active") = (new[t].st = "active")
    BY <1>2, <2>2 DEF C!Active, EntriesTell
  <2> QED
    BY <2>1, <2>2, <2>3 DEF LogAgreesWithRows, C!LogAgreesWithRows
<1> QED
  BY <1>1, <1>2

(* An upsert's entry, and why there may be none.                           *)
LEMMA ClassifiedKind ==
  ASSUME NEW old \in C!Row, NEW doc
  PROVE  /\ C!Classified(old, doc).kind \in {"added", "changed", "none"}
         /\ C!Classified(old, doc).kind = "none" => old.st = "active"
  BY DEF C!Classified, C!Plain

(* The rows an upsert leaves, and those of a soft delete.                  *)
LEMMA UpsertRows ==
  ASSUME NEW r \in [C!Titles -> C!Row], NEW docs, \A t \in DOMAIN docs : docs[t] \in C!Doc
  PROVE  /\ C!Upserted(r, docs) \in [C!Titles -> C!Row]
         /\ \A t \in C!Titles : IF t \in DOMAIN docs THEN C!Upserted(r, docs)[t].st = "active"
                                ELSE C!Upserted(r, docs)[t] = r[t]
  BY DEF C!Upserted, C!Row

(* A soft delete meets what it names, and a show's episodes.               *)
LEMMA SoftDeleteRows ==
  ASSUME NEW r \in [C!Titles -> C!Row], NEW gone
  PROVE  /\ C!SoftDeleted(r, gone) \in [C!Titles -> C!Row]
         /\ \A t \in C!Titles :
               /\ C!SoftDeleted(r, gone)[t].st = "active" => r[t].st = "active" /\ t \notin gone
               /\ t \in gone => C!SoftDeleted(r, gone)[t].st # "active"
               /\ t \notin gone /\ (t \notin Episodes \/ Show \notin gone)
                     => C!SoftDeleted(r, gone)[t] = r[t]
<1>1. \A x \in C!Row : x.st # "absent" => [x EXCEPT !.st = "deleted"] \in C!Row
                                          /\ [x EXCEPT !.st = "deleted"].st = "deleted"
  BY DEF C!Row, C!Absent
<1>2. \A x \in C!Row : x.st = "active" => x.st # "absent"
  OBVIOUS
<1> QED
  BY <1>1, <1>2 DEF C!SoftDeleted

(* A page.                                                                 *)
LEMMA ApplyPageLogs ==
  ASSUME Apart, LogInv, C!ApplyPage
  PROVE  LogInv'
<1>1. run \in LogRun
  BY DEF C!ApplyPage, LogInv, LogTyped, C!NoRun
<1>2. PICK P \in (SUBSET run.todo) \ {{}} :
        LET docs == [t \in P \cap DOMAIN owned |-> owned[t]]
            gone == P \ DOMAIN owned
            upserts == C!Judged(row, docs)
            removals == C!Removals(gone)
            entries == [t \in DOMAIN upserts \cup DOMAIN removals |->
                           IF t \in DOMAIN removals THEN removals[t] ELSE upserts[t]]
            named == {t \in DOMAIN entries : entries[t].kind # "none"}
            kept == IF run.record THEN [t \in named |-> entries[t]] ELSE C!NoPage.logged
        IN /\ row' = C!SoftDeleted(C!Upserted(row, docs), gone)
           /\ latest' = C!Logged(kept)
           /\ C!Unlogged(row', kept, C!Silent)
           /\ run' = [run EXCEPT !.todo = @ \ P,
                                 !.shows = @ \/ Show \in DOMAIN docs]
  BY DEF C!ApplyPage
<1>3. PICK docs : docs = [t \in P \cap DOMAIN owned |-> owned[t]]
  OBVIOUS
<1>4. PICK gone : gone = P \ DOMAIN owned
  OBVIOUS
<1>5. PICK upserts : upserts = C!Judged(row, docs)
  OBVIOUS
<1>6. PICK removals : removals = C!Removals(gone)
  OBVIOUS
<1>7. PICK entries : entries = [t \in DOMAIN upserts \cup DOMAIN removals |->
                                   IF t \in DOMAIN removals THEN removals[t] ELSE upserts[t]]
  OBVIOUS
<1>8. PICK kept : kept = IF run.record
                         THEN [t \in {x \in DOMAIN entries : entries[x].kind # "none"} |-> entries[t]]
                         ELSE C!NoPage.logged
  OBVIOUS
<1>9. PICK new : new = C!SoftDeleted(C!Upserted(row, docs), gone)
  OBVIOUS
<1>10. PICK silent : silent = C!Silent
  OBVIOUS
<1>11. row' = new /\ latest' = C!Logged(kept) /\ C!Unlogged(new, kept, silent)
       /\ run' = [run EXCEPT !.todo = @ \ P, !.shows = @ \/ Show \in DOMAIN docs]
  BY <1>2, <1>3, <1>4, <1>5, <1>6, <1>7, <1>8, <1>9, <1>10
<1>12. P \subseteq C!Items /\ P \cap Episodes = {}
  BY <1>1, <1>2 DEF LogRun, Apart, C!Items
<1>13. row \in [C!Titles -> C!Row] /\ DOMAIN docs = P \cap DOMAIN owned
       /\ \A t \in DOMAIN docs : docs[t] \in C!Doc
  BY <1>3 DEF LogInv, LogTyped
<1>14. /\ C!Upserted(row, docs) \in [C!Titles -> C!Row]
       /\ \A t \in C!Titles : IF t \in DOMAIN docs THEN C!Upserted(row, docs)[t].st = "active"
                              ELSE C!Upserted(row, docs)[t] = row[t]
  BY <1>13, UpsertRows
<1>15. PICK mid : mid = C!Upserted(row, docs)
  OBVIOUS
<1>16. /\ new \in [C!Titles -> C!Row]
       /\ \A t \in C!Titles :
             /\ new[t].st = "active" => mid[t].st = "active" /\ t \notin gone
             /\ t \in gone => new[t].st # "active"
             /\ t \notin gone /\ t \notin Episodes => new[t] = mid[t]
  BY <1>9, <1>14, <1>15, SoftDeleteRows
<1>17. DOMAIN upserts = DOMAIN docs /\ \A t \in DOMAIN docs : upserts[t] = C!Classified(row[t], docs[t])
  BY <1>5 DEF C!Judged
<1>18. /\ DOMAIN removals = {x \in gone : row[x].st # "absent"}
       /\ \A t \in DOMAIN removals : removals[t].kind = "removed"
  BY <1>6 DEF C!Removals, C!Plain
<1>19. \A t \in C!Titles \cap DOMAIN docs :
          /\ upserts[t].kind \in {"added", "changed", "none"}
          /\ upserts[t].kind = "none" => row[t].st = "active"
  BY <1>13, <1>17, ClassifiedKind
<1>20. C!Items \subseteq C!Titles
  BY DEF C!Titles
<1>21. \A t \in C!Titles \cap DOMAIN entries :
          /\ entries[t].kind # "none" =>
                ((entries[t].kind = "removed") = (new[t].st # "active"))
  <2> SUFFICES ASSUME NEW t \in C!Titles \cap DOMAIN entries, entries[t].kind # "none"
               PROVE  (entries[t].kind = "removed") = (new[t].st # "active")
    OBVIOUS
  <2>1. CASE t \in DOMAIN removals
    BY <2>1, <1>7, <1>16, <1>18
  <2>2. CASE t \notin DOMAIN removals
    <3>1. t \in DOMAIN docs /\ entries[t] = upserts[t] /\ t \notin gone /\ t \notin Episodes
      BY <2>2, <1>4, <1>7, <1>12, <1>13, <1>17
    <3>2. new[t].st = "active"
      BY <3>1, <1>14, <1>15, <1>16
    <3> QED
      BY <3>1, <3>2, <1>19
  <2> QED
    BY <2>1, <2>2
<1>22. \A t \in C!Titles \ Episodes :
          ((row[t].st = "active") # (new[t].st = "active")) =>
              t \in DOMAIN entries /\ entries[t].kind # "none"
  <2> SUFFICES ASSUME NEW t \in C!Titles \ Episodes,
                      (row[t].st = "active") # (new[t].st = "active")
               PROVE  t \in DOMAIN entries /\ entries[t].kind # "none"
    OBVIOUS
  <2>1. CASE t \in gone
    <3>1. t \in DOMAIN removals
      BY <2>1, <1>16, <1>18
    <3> QED
      BY <3>1, <1>7, <1>18
  <2>2. CASE t \notin gone
    <3>1. t \in DOMAIN docs
      BY <2>2, <1>14, <1>15, <1>16
    <3>2. t \notin DOMAIN removals
      BY <2>2, <1>18
    <3>3. new[t].st = "active"
      BY <2>2, <3>1, <1>14, <1>15, <1>16
    <3> QED
      BY <3>1, <3>2, <3>3, <1>7, <1>17, <1>19
  <2> QED
    BY <2>1, <2>2
<1>23. EntriesFit(kept, new)
  BY <1>8, <1>21 DEF EntriesFit, C!NoPage
<1>24. EntriesTell(kept, row, new, silent)
  BY <1>8, <1>10, <1>22 DEF EntriesTell, C!Silent
<1>25. LogAgreesWithRows'
  BY <1>11, <1>23, <1>24, LogFollows DEF LogInv
<1>26. run' \in LogRun
  BY <1>1, <1>11 DEF LogRun
<1>27. UNCHANGED <<owned, feed, delta>>
  BY DEF C!ApplyPage
<1> QED
  BY <1>11, <1>16, <1>25, <1>26, <1>27 DEF LogInv, LogTyped, C!Logged

(* A show's feed, resolved.                                                *)
LEMMA ResolveEpisodesLogs ==
  ASSUME Apart, LogInv, C!ResolveEpisodes
  PROVE  LogInv'
<1>1. run \in LogRun
  BY DEF C!ResolveEpisodes, LogInv, LogTyped, C!NoRun
<1>2. PICK docs : docs = [e \in feed |-> C!First]
  OBVIOUS
<1>3. PICK vanished : vanished = {e \in Episodes \ feed : row[e].st = "active"}
  OBVIOUS
<1>4. PICK found : found = [e \in feed |-> C!Classified(row[e], docs[e])]
  OBVIOUS
<1>5. PICK kept : kept = IF run.record
                         THEN [e \in feed \cup vanished |->
                                  IF e \in vanished THEN C!Plain("removed") ELSE found[e]]
                         ELSE C!NoPage.logged
  OBVIOUS
<1>6. PICK mid : mid = C!Upserted(row, docs)
  OBVIOUS
<1>7. PICK new : new = C!SoftDeleted(mid, vanished)
  OBVIOUS
<1>8. PICK silent : silent = IF run.record THEN {} ELSE C!Titles
  OBVIOUS
<1>9. row' = new /\ latest' = C!Logged(kept) /\ C!Unlogged(new, kept, silent)
      /\ run' = [run EXCEPT !.shows = FALSE] /\ UNCHANGED <<owned, feed, delta>>
  BY <1>2, <1>3, <1>4, <1>5, <1>6, <1>7, <1>8 DEF C!ResolveEpisodes
<1>10. row \in [C!Titles -> C!Row] /\ feed \subseteq Episodes /\ Episodes \subseteq C!Titles
       /\ Show \notin Episodes
  BY DEF LogInv, LogTyped, Apart, C!Titles
<1>11. \A t \in DOMAIN docs : docs[t] \in C!Doc
  BY <1>2 DEF C!Doc, C!First
<1>12. /\ mid \in [C!Titles -> C!Row]
       /\ \A t \in C!Titles : IF t \in feed THEN mid[t].st = "active" ELSE mid[t] = row[t]
  BY <1>2, <1>6, <1>10, <1>11, UpsertRows
<1>13. /\ new \in [C!Titles -> C!Row]
       /\ \A t \in C!Titles : /\ t \in vanished => new[t].st # "active"
                              /\ t \notin vanished => new[t] = mid[t]
  BY <1>3, <1>7, <1>10, <1>12, SoftDeleteRows
<1>14. \A e \in feed : /\ found[e].kind \in {"added", "changed", "none"}
                       /\ found[e].kind = "none" => row[e].st = "active"
  BY <1>4, <1>10, ClassifiedKind
<1>15. \A e \in feed : e \notin vanished /\ new[e].st = "active"
  BY <1>3, <1>10, <1>12, <1>13
<1>16. EntriesFit(kept, new)
  <2>1. CASE run.record
    BY <2>1, <1>5, <1>13, <1>14, <1>15 DEF EntriesFit, C!Plain
  <2>2. CASE ~run.record
    BY <2>2, <1>5 DEF EntriesFit, C!NoPage
  <2> QED
    BY <2>1, <2>2
<1>17. EntriesTell(kept, row, new, silent)
  <2>1. CASE run.record
    <3> SUFFICES ASSUME NEW t \in C!Titles, (row[t].st = "active") # (new[t].st = "active")
                 PROVE  t \in DOMAIN kept /\ kept[t].kind # "none"
      BY <2>1, <1>8 DEF EntriesTell
    <3>1. CASE t \in vanished
      BY <3>1, <2>1, <1>5 DEF C!Plain
    <3>2. CASE t \notin vanished
      <4>1. t \in feed
        BY <3>2, <1>12, <1>13
      <4> QED
        BY <4>1, <3>2, <2>1, <1>5, <1>14, <1>15
    <3> QED
      BY <3>1, <3>2
  <2>2. CASE ~run.record
    BY <2>2, <1>8 DEF EntriesTell
  <2> QED
    BY <2>1, <2>2
<1>18. LogAgreesWithRows'
  BY <1>9, <1>16, <1>17, LogFollows DEF LogInv
<1>19. run' \in LogRun
  BY <1>1, <1>9 DEF LogRun
<1> QED
  BY <1>9, <1>13, <1>18, <1>19 DEF LogInv, LogTyped, C!Logged

(* Other commands: rows change, and no entry says so.                      *)
LEMMA RewritesLog ==
  ASSUME LogInv, NEW new \in [C!Titles -> C!Row], C!Rewrites(new)
  PROVE  LogInv'
<1>1. PICK entries : entries = C!NoPage.logged
  OBVIOUS
<1>2. DOMAIN entries = {}
  BY <1>1 DEF C!NoPage
<1>3. C!Logged(entries) = [t \in C!Titles |-> latest[t]]
  BY <1>2 DEF C!Logged
<1>4. latest' = C!Logged(entries) /\ latest' = latest
  BY <1>3 DEF C!Rewrites, LogInv, LogTyped
<1>5. row' = new /\ C!Unlogged(new, entries, C!Titles) /\ UNCHANGED <<owned, feed, delta, run>>
  BY <1>1 DEF C!Rewrites
<1>6. EntriesFit(entries, new) /\ EntriesTell(entries, row, new, C!Titles)
  BY <1>2 DEF EntriesFit, EntriesTell
<1>7. PICK all : all = C!Titles
  OBVIOUS
<1>8. LogAgreesWithRows'
  BY <1>4, <1>5, <1>6, <1>7, LogFollows DEF LogInv
<1> QED
  BY <1>4, <1>5, <1>8 DEF LogInv, LogTyped

(* A run starts, ends or is aborted, or old entries go.                    *)
LEMMA RunLogs ==
  ASSUME LogInv,
         \/ \E full, record \in BOOLEAN : C!Begin(full, record)
         \/ C!Finish \/ C!Abort \/ C!Prune(C!Titles)
  PROVE  LogInv'
<1>1. CASE \E full, record \in BOOLEAN : C!Begin(full, record)
  <2>1. PICK full \in BOOLEAN, record \in BOOLEAN : C!Begin(full, record)
    BY <1>1
  <2>2. DOMAIN owned \subseteq C!Items /\ delta \subseteq C!Items
    BY DEF LogInv, LogTyped
  <2>3. run' \in LogRun
    BY <2>1, <2>2 DEF C!Begin, LogRun
  <2> QED
    BY <2>1, <2>3 DEF C!Begin, LogInv, LogTyped, LogAgreesWithRows, C!LogAgreesWithRows
<1>2. CASE C!Finish
  <2>1. run \in LogRun
    BY <1>2 DEF C!Finish, LogInv, LogTyped, C!NoRun
  <2>2. delta' \subseteq C!Items
    BY <1>2, <2>1 DEF C!Finish, LogRun
  <2> QED
    BY <1>2, <2>2 DEF C!Finish, LogInv, LogTyped, LogAgreesWithRows, C!LogAgreesWithRows
<1>3. CASE C!Abort
  BY <1>3 DEF C!Abort, LogInv, LogTyped, LogAgreesWithRows, C!LogAgreesWithRows
<1>4. CASE C!Prune(C!Titles)
  BY <1>4 DEF C!Prune, C!Plain, LogInv, LogTyped, LogAgreesWithRows, C!LogAgreesWithRows
<1> QED
  BY <1>1, <1>2, <1>3, <1>4

(* The server changes what it lists.                                       *)
LEMMA ServerLogs ==
  ASSUME LogInv,
         \/ \E t \in C!Items : (\E doc \in C!Doc : C!Publish(t, doc)) \/ C!Revoke(t)
         \/ C!FeedChanges
  PROVE  LogInv'
<1>1. UNCHANGED <<row, latest, quiet>>
  BY DEF C!Publish, C!Revoke, C!FeedChanges
<1>2. \E t \in C!Items : C!Noted(t)
  BY DEF C!Publish, C!Revoke, C!FeedChanges, C!Items
<1>3. PICK t \in C!Items : delta' = delta \cup {t}
                           /\ run' = IF run.on THEN [run EXCEPT !.since = @ \cup {t}] ELSE run
  BY <1>2 DEF C!Noted
<1>4. run' = C!NoRun \/ run' \in LogRun
  BY <1>3 DEF LogInv, LogTyped, LogRun, C!NoRun
<1>5. delta' \subseteq C!Items
  BY <1>3 DEF LogInv, LogTyped
<1>6. feed' \subseteq Episodes
  BY DEF LogInv, LogTyped, C!Publish, C!Revoke, C!FeedChanges
<1>7. \A x \in DOMAIN owned' : x \in C!Items /\ owned'[x] \in C!Doc
  BY DEF LogInv, LogTyped, C!Publish, C!Revoke, C!FeedChanges
<1> QED
  BY <1>1, <1>4, <1>5, <1>6, <1>7 DEF LogInv, LogTyped, LogAgreesWithRows, C!LogAgreesWithRows

(* Every step of a log keeps it true.                                      *)
LEMMA LogKeeps ==
  ASSUME Apart, LogInv, C!Next
  PROVE  LogInv'
<1>1. CASE \E t \in C!Items : C!SoftDeleteItem(t) \/ C!RemoveItem(t)
  <2>1. PICK t \in C!Items : C!SoftDeleteItem(t) \/ C!RemoveItem(t)
    BY <1>1
  <2>2. PICK new : new = C!SoftDeleted(row, {t})
    OBVIOUS
  <2>3. new \in [C!Titles -> C!Row]
    BY <2>2, SoftDeleteRows DEF LogInv, LogTyped
  <2>4. PICK less : less = [x \in C!Titles |-> IF x = t \/ (t = Show /\ x \in Episodes)
                                               THEN C!Absent ELSE row[x]]
    OBVIOUS
  <2>5. less \in [C!Titles -> C!Row]
    BY <2>4 DEF LogInv, LogTyped, C!Row
  <2>6. C!Rewrites(new) \/ C!Rewrites(less)
    BY <2>1, <2>2, <2>4 DEF C!SoftDeleteItem, C!RemoveItem
  <2> QED
    BY <2>3, <2>5, <2>6, RewritesLog
<1>2. CASE ~\E t \in C!Items : C!SoftDeleteItem(t) \/ C!RemoveItem(t)
  BY <1>2, ApplyPageLogs, ResolveEpisodesLogs, RunLogs, ServerLogs DEF C!Next
<1> QED
  BY <1>1, <1>2

(* In every state of a change log, whatever was aborted, pruned or applied *)
(* twice, the newest entry of a title agrees with its row, unless a run or *)
(* a command that does not record has changed the row since                *)
(* (src/db/changes.rs, classify_change and apply_page_recording).          *)
THEOREM EntriesAgree == Apart => (C!ChangeSpec => []LogAgreesWithRows)
<1> SUFFICES ASSUME Apart PROVE C!ChangeSpec => []LogAgreesWithRows
  OBVIOUS
<1>1. C!Init => LogInv
  BY DEF C!Init, C!First, C!Doc, C!Row, C!Plain, LogInv, LogTyped, LogAgreesWithRows,
         C!LogAgreesWithRows
<1>2. LogInv /\ [C!Next]_(C!cvars) => LogInv'
  <2>1. LogInv /\ UNCHANGED C!cvars => LogInv'
    BY DEF C!cvars, LogInv, LogTyped, LogAgreesWithRows, C!LogAgreesWithRows
  <2> QED
    BY <2>1, LogKeeps
<1>3. LogInv => LogAgreesWithRows
  BY DEF LogInv
<1> QED
  BY <1>1, <1>2, <1>3, PTL DEF C!ChangeSpec

-----------------------------------------------------------------------------
(* LibraryViews: what a run takes, and what a listing says is missing.     *)

RunFields == {"on", "from", "todo", "external", "kinds", "forced", "podcasts", "still"}

ViewRows ==
    /\ items \in [V!Items -> V!Stored(Docs)]
    /\ episodes \in [Episodes -> V!Stored(V!EpisodeDocs)]

(* An episode is never active under a show that is not.                    *)
ShowHoldsEpisodes == V!v_episodes # {} => Show \in V!v_books

SelectionInv ==
    /\ drun = V!NoRun \/ (DOMAIN drun = RunFields /\ drun.todo \subseteq V!Items)
    /\ SelectionIsDownloadable

(* What is in a table, and what kind of title that is.                     *)
LEMMA TitlesInViews ==
  /\ V!v_books \subseteq V!Items /\ V!v_episodes \subseteq Episodes
  /\ \A a \in V!Items : V!Kind(a) # "podcast" => a \in V!Leaves
  /\ \A a \in V!Items : V!Kind(a) = "book" => a \in V!Leaves /\ V!Kind(a) # "podcast"
  /\ Episodes \subseteq V!Leaves
  BY DEF V!v_books, V!v_episodes, V!Items, V!Leaves, V!Kind

(* What an ASIN is taken for.                                              *)
LEMMA Classes ==
  ASSUME NEW a
  PROVE  /\ a \in V!v_books /\ V!Kind(a) # "podcast" => V!ClassifyAsin(a) = V!Kind(a)
         /\ a \notin V!v_books /\ a \in V!v_episodes => V!ClassifyAsin(a) = "episode"
         /\ a \in V!v_books => V!ClassifyAsin(a) # "unknown"
         /\ a \in V!v_books /\ V!Kind(a) = "podcast" => V!ClassifyAsin(a) = "parent"
         /\ a \notin V!v_books /\ a \notin V!v_episodes => V!ClassifyAsin(a) = "unknown"
         /\ V!Kind(a) \in {"book", "podcast", "episode"}
  BY DEF V!ClassifyAsin, V!Kind

(* And what it stands for.                                                 *)
LEMMA Resolves ==
  ASSUME NEW a, NEW include \in BOOLEAN
  PROVE  /\ V!ClassifyAsin(a) = "parent" =>
              V!ResolveAsinDownload(a, include) \subseteq V!v_episodes
         /\ V!ClassifyAsin(a) = "episode" =>
              V!ResolveAsinDownload(a, include) = IF include THEN {a} ELSE {}
         /\ V!ClassifyAsin(a) \notin {"parent", "episode"} =>
              V!ResolveAsinDownload(a, include) = {a}
  BY DEF V!ResolveAsinDownload

(* A title the sweep takes.                                                *)
LEMMA SweepTakes ==
  ASSUME NEW kinds, NEW candidates, NEW podcasts \in BOOLEAN,
         NEW a \in V!MissingDownloadAsins(kinds, candidates, FALSE, FALSE, podcasts)
  PROVE  \/ /\ a \in V!v_books /\ V!Kind(a) # "podcast" /\ V!Consumable(a)
            /\ ~podcasts => V!Kind(a) = "book"
         \/ /\ a \in V!v_episodes /\ a \notin V!v_books /\ podcasts
            /\ V!Consumable(Show)
<1>1. CASE a \in V!v_books
  BY <1>1 DEF V!MissingDownloadAsins, V!Admitted, V!OwnItem
<1>2. CASE a \notin V!v_books
  BY <1>2 DEF V!MissingDownloadAsins, V!Admitted, V!OwnItem, V!Holder
<1> QED
  BY <1>1, <1>2

(* The sweep's selection.                                                  *)
LEMMA SweepSelects ==
  ASSUME NEW kinds, NEW forced \in BOOLEAN, NEW podcasts \in BOOLEAN, V!Sweep(kinds, forced, podcasts)
  PROVE  SelectionInv'
<1>1. PICK asins : asins = V!MissingDownloadAsins(kinds, V!Candidates(forced), FALSE, FALSE, podcasts)
  OBVIOUS
<1>2. /\ drun' = [on |-> TRUE, from |-> "missing", todo |-> asins, external |-> {},
                  kinds |-> kinds, forced |-> forced, podcasts |-> podcasts, still |-> TRUE]
      /\ UNCHANGED <<items, episodes>>
  BY <1>1 DEF V!Sweep, V!Runs
<1>3. PICK candidates : candidates = V!Candidates(forced)
  OBVIOUS
<1>4. \A a \in asins : \/ /\ a \in V!v_books /\ V!Kind(a) # "podcast" /\ V!Consumable(a)
                          /\ ~podcasts => V!Kind(a) = "book"
                       \/ /\ a \in V!v_episodes /\ a \notin V!v_books /\ podcasts
                          /\ V!Consumable(Show)
  BY <1>1, <1>3, SweepTakes
<1>5. asins \subseteq V!Leaves /\ asins \subseteq V!Items
  BY <1>4, TitlesInViews DEF V!Items, V!Leaves
<1>6. V!LapsedTitles(asins) = {}
  BY <1>4 DEF V!LapsedTitles, V!OwnItem
<1>7. V!UnknownAsins(asins) = {}
  BY <1>4, Classes DEF V!UnknownAsins
<1>8. \A a \in asins : V!ResolveAsinDownload(a, podcasts) = {a}
  <2> SUFFICES ASSUME NEW a \in asins PROVE V!ResolveAsinDownload(a, podcasts) = {a}
    OBVIOUS
  <2>1. CASE a \in V!v_books /\ V!Kind(a) = "book"
    BY <2>1, Classes, Resolves
  <2>2. CASE podcasts /\ V!ClassifyAsin(a) = "episode"
    BY <2>2, Resolves
  <2>3. \/ a \in V!v_books /\ V!Kind(a) = "book"
        \/ podcasts /\ V!ClassifyAsin(a) = "episode"
    BY <1>4, Classes
  <2> QED
    BY <2>1, <2>2, <2>3
<1>9. /\ V!v_books' = V!v_books /\ V!v_episodes' = V!v_episodes
  BY <1>2 DEF V!v_books, V!v_episodes
<1>10. V!LapsedTitles(asins)' = {} /\ V!UnknownAsins(asins)' = {}
       /\ \A a \in asins : V!ResolveAsinDownload(a, podcasts)' = {a}
  BY <1>2, <1>6, <1>7, <1>8
     DEF V!LapsedTitles, V!UnknownAsins, V!ResolveAsinDownload, V!ClassifyAsin, V!v_books,
         V!v_episodes, V!Consumable, V!OwnItem
<1>11. SelectionIsDownloadable'
  BY <1>2, <1>5, <1>10 DEF SelectionIsDownloadable, V!SelectionIsDownloadable
<1> QED
  BY <1>2, <1>5, <1>11 DEF SelectionInv, RunFields

(* What --asin and --title select.                                         *)
LEMMA NamedSelects ==
  ASSUME NEW asins \in SUBSET V!Items, NEW hits, NEW picked, NEW allow, NEW covered, NEW kinds,
         NEW include \in BOOLEAN, V!Named(asins, hits, picked, allow, covered, kinds, include)
  PROVE  SelectionInv'
<1>1. PICK resolved : resolved = V!ResolveAsins(asins, picked, include)
  OBVIOUS
<1>2. PICK external : external = V!UnknownAsins(asins)
  OBVIOUS
<1>3. /\ picked \subseteq V!TitleCandidates(hits, include)
      /\ V!LapsedTitles(resolved) = {}
      /\ drun' = [on |-> TRUE, from |-> "named", todo |-> resolved, external |-> external,
                  kinds |-> kinds, forced |-> FALSE, podcasts |-> include, still |-> TRUE]
      /\ UNCHANGED <<items, episodes>>
  BY <1>1, <1>2 DEF V!Named, V!Runs
<1>4. \A a \in resolved : \/ \E x \in asins : a \in V!ResolveAsinDownload(x, include)
                          \/ \E x \in picked : a \in V!Choose(x)
  <2> SUFFICES ASSUME NEW a \in resolved
               PROVE  \/ \E x \in asins : a \in V!ResolveAsinDownload(x, include)
                      \/ \E x \in picked : a \in V!Choose(x)
    OBVIOUS
  <2>1. a \in V!ResolveAsins(asins, picked, include)
    BY <1>1
  <2>2. \/ a \in UNION {V!ResolveAsinDownload(x, include) : x \in asins}
        \/ a \in UNION {V!Choose(x) : x \in picked}
    BY <2>1 DEF V!ResolveAsins
  <2>3. CASE a \in UNION {V!ResolveAsinDownload(x, include) : x \in asins}
    <3>1. PICK S \in {V!ResolveAsinDownload(x, include) : x \in asins} : a \in S
      BY <2>3
    <3> QED
      BY <3>1
  <2>4. CASE a \in UNION {V!Choose(x) : x \in picked}
    <3>1. PICK S \in {V!Choose(x) : x \in picked} : a \in S
      BY <2>4
    <3> QED
      BY <3>1
  <2> QED
    BY <2>2, <2>3, <2>4, Zenon
<1>5. \A x \in asins : V!ResolveAsinDownload(x, include) \subseteq V!Leaves \cup external
  <2> SUFFICES ASSUME NEW x \in asins
               PROVE  V!ResolveAsinDownload(x, include) \subseteq V!Leaves \cup external
    OBVIOUS
  <2>1. CASE x \in V!v_books /\ V!Kind(x) = "podcast"
    BY <2>1, Classes, Resolves, TitlesInViews
  <2>2. CASE x \in V!v_books /\ V!Kind(x) # "podcast"
    <3>1. V!ResolveAsinDownload(x, include) \subseteq {x}
      BY <2>2, Classes, Resolves
    <3> QED
      BY <2>2, <3>1, TitlesInViews
  <2>3. CASE x \notin V!v_books /\ x \in V!v_episodes
    <3>1. V!ResolveAsinDownload(x, include) \subseteq {x}
      BY <2>3, Classes, Resolves
    <3> QED
      BY <2>3, <3>1, TitlesInViews
  <2>4. CASE x \notin V!v_books /\ x \notin V!v_episodes
    <3>1. V!ClassifyAsin(x) = "unknown"
      BY <2>4, Classes
    <3>2. x \in external
      BY <1>2, <3>1 DEF V!UnknownAsins
    <3> QED
      BY <3>1, <3>2, Resolves
  <2> QED
    BY <2>1, <2>2, <2>3, <2>4
<1>6. \A x \in picked : V!Choose(x) \subseteq V!Leaves
  <2> SUFFICES ASSUME NEW x \in picked PROVE V!Choose(x) \subseteq V!Leaves
    OBVIOUS
  <2>1. x \in V!v_books \/ x \in V!v_episodes
    BY <1>3 DEF V!TitleCandidates
  <2>2. CASE x \in V!v_books /\ V!Kind(x) = "podcast"
    BY <2>2, TitlesInViews DEF V!Choose
  <2>3. CASE ~(x \in V!v_books /\ V!Kind(x) = "podcast")
    <3>1. V!Choose(x) = {x}
      BY <2>3 DEF V!Choose
    <3> QED
      BY <2>1, <2>3, <3>1, TitlesInViews
  <2> QED
    BY <2>2, <2>3
<1>7. resolved \ external \subseteq V!Leaves
  BY <1>4, <1>5, <1>6
<1>8. external \subseteq V!Items /\ V!Leaves \subseteq V!Items
  BY <1>2 DEF V!UnknownAsins, V!Items, V!Leaves
<1>9. V!LapsedTitles(resolved)' = {}
  BY <1>3 DEF V!LapsedTitles, V!v_books, V!v_episodes, V!Consumable, V!OwnItem
<1>10. SelectionIsDownloadable'
  BY <1>3, <1>7, <1>9 DEF SelectionIsDownloadable, V!SelectionIsDownloadable
<1> QED
  BY <1>3, <1>7, <1>8, <1>10 DEF SelectionInv, RunFields

(* The library moves on: what was selected may not hold any more.          *)
LEMMA MovesSelection ==
  ASSUME SelectionInv, V!Moves
  PROVE  SelectionInv'
<1>1. CASE drun = V!NoRun
  BY <1>1 DEF V!Moves, V!NoRun, SelectionInv, SelectionIsDownloadable, V!SelectionIsDownloadable
<1>2. CASE DOMAIN drun = RunFields /\ drun.todo \subseteq V!Items
  BY <1>2 DEF V!Moves, SelectionInv, RunFields, SelectionIsDownloadable, V!SelectionIsDownloadable
<1> QED
  BY <1>1, <1>2 DEF SelectionInv

(* A leaf less is to be done.                                              *)
LEMMA DownloadSelection ==
  ASSUME SelectionInv, NEW a \in V!Items, NEW request, V!DownloadOne(a, request)
  PROVE  SelectionInv'
<1>1. DOMAIN drun = RunFields /\ drun.todo \subseteq V!Items
  <2>1. drun.on
    BY DEF V!DownloadOne
  <2>2. drun # V!NoRun
    BY <2>1 DEF V!NoRun
  <2> QED
    BY <2>2 DEF SelectionInv
<1>2. PICK fewer : fewer = drun.todo \ {a}
  OBVIOUS
<1>3. /\ DOMAIN drun' = RunFields /\ drun'.todo = fewer /\ fewer \subseteq drun.todo
      /\ drun'.on = drun.on /\ drun'.from = drun.from /\ drun'.external = drun.external
      /\ drun'.podcasts = drun.podcasts
      /\ drun'.still => drun.still
      /\ UNCHANGED <<items, episodes>>
  BY <1>1, <1>2 DEF V!DownloadOne, RunFields
<1>4. V!LapsedTitles(drun.todo) = {} => V!LapsedTitles(fewer) = {}
  BY <1>3 DEF V!LapsedTitles
<1>5. V!UnknownAsins(drun.todo) = {} => V!UnknownAsins(fewer) = {}
  BY <1>3 DEF V!UnknownAsins
<1>6. /\ V!LapsedTitles(fewer) = {} => V!LapsedTitles(fewer)' = {}
      /\ V!UnknownAsins(fewer) = {} => V!UnknownAsins(fewer)' = {}
      /\ \A x \in fewer : V!ResolveAsinDownload(x, drun.podcasts)'
                             = V!ResolveAsinDownload(x, drun.podcasts)
  BY <1>3 DEF V!LapsedTitles, V!UnknownAsins, V!ResolveAsinDownload, V!ClassifyAsin, V!v_books,
              V!v_episodes, V!Consumable, V!OwnItem
<1>7. SelectionIsDownloadable'
  <2> SUFFICES ASSUME drun'.on, drun'.still PROVE V!SelectionIsDownloadable'
    BY DEF SelectionIsDownloadable, V!SelectionIsDownloadable
  <2>1. /\ drun.todo \ drun.external \subseteq V!Leaves
        /\ V!LapsedTitles(drun.todo) = {}
        /\ drun.from = "missing" =>
              /\ V!UnknownAsins(drun.todo) = {}
              /\ \A x \in drun.todo : V!ResolveAsinDownload(x, drun.podcasts) = {x}
    BY <1>3 DEF SelectionInv, SelectionIsDownloadable, V!SelectionIsDownloadable
  <2> QED
    BY <1>3, <1>4, <1>5, <1>6, <2>1 DEF V!SelectionIsDownloadable
<1> QED
  BY <1>1, <1>3, <1>7 DEF SelectionInv

(* Every step of the commands, and what it leaves of a selection.          *)
LEMMA SelectionKeeps ==
  ASSUME SelectionInv, V!Next
  PROVE  SelectionInv'
<1>1. CASE \/ \E a \in V!Items : (\E doc \in Docs : V!Upsert(a, doc)) \/ V!SoftDelete(a)
                                 \/ V!RemoveItem(a)
           \/ \E list \in SUBSET Episodes, doc \in V!EpisodeDocs : V!ApplyEpisodes(list, doc)
  BY <1>1, MovesSelection DEF V!Upsert, V!SoftDelete, V!RemoveItem, V!ApplyEpisodes
<1>2. CASE \E kinds \in V!KindSets, forced, podcasts \in BOOLEAN : V!Sweep(kinds, forced, podcasts)
  BY <1>2, SweepSelects
<1>3. CASE \E a \in V!Items, allow, include \in BOOLEAN, covered \in {{}, V!Items} :
             V!Named({a}, {}, {}, allow, covered, {"audio"}, include)
  BY <1>3, NamedSelects
<1>4. CASE \E a \in V!Items, include \in BOOLEAN :
             V!Named({}, V!Items, {a}, FALSE, {}, {"audio"}, include)
  BY <1>4, NamedSelects
<1>5. CASE \E a \in V!Items, request \in V!RequestKinds : V!DownloadOne(a, request)
  BY <1>5, DownloadSelection
<1>6. CASE V!Finish
  BY <1>6 DEF V!Finish, V!NoRun, SelectionInv, SelectionIsDownloadable, V!SelectionIsDownloadable
<1>7. CASE \E a \in V!Leaves : V!Forget(a)
  BY <1>7 DEF V!Forget, SelectionInv, SelectionIsDownloadable, V!SelectionIsDownloadable
<1> QED
  BY <1>1, <1>2, <1>3, <1>4, <1>5, <1>6, <1>7 DEF V!Next

(* In every state, while the library stays what a run has read, the run    *)
(* works on leaves the account can have, and the sweep selects nothing the *)
(* explicit path would refuse or resolve to something else (src/db/items.rs*)
(* missing_download_asins, src/commands/items.rs).                         *)
THEOREM RunsTakeLeaves == V!ViewsSpec => []SelectionIsDownloadable
<1>1. V!Init => SelectionInv
  BY DEF V!Init, V!NoRun, SelectionInv, SelectionIsDownloadable, V!SelectionIsDownloadable
<1>2. SelectionInv /\ [V!Next]_(V!vvars) => SelectionInv'
  <2>1. SelectionInv /\ UNCHANGED V!vvars => SelectionInv'
    BY DEF V!vvars, SelectionInv, SelectionIsDownloadable, V!SelectionIsDownloadable,
           V!LapsedTitles, V!UnknownAsins, V!ResolveAsinDownload, V!ClassifyAsin, V!v_books,
           V!v_episodes, V!Consumable, V!OwnItem
  <2> QED
    BY <2>1, SelectionKeeps
<1>3. SelectionInv => SelectionIsDownloadable
  BY DEF SelectionInv
<1> QED
  BY <1>1, <1>2, <1>3, PTL DEF V!ViewsSpec

(* The show is neither a book nor one of its episodes.                     *)
ShowApart == Show \notin Books \cup Episodes

ListingInv == ViewRows /\ ShowHoldsEpisodes

(* A soft-deleted show leaves no active episode.                           *)
LEMMA FlippedRows ==
  ASSUME ListingInv
  PROVE  /\ V!Flipped(episodes) \in [Episodes -> V!Stored(V!EpisodeDocs)]
         /\ \A e \in Episodes : V!Flipped(episodes)[e].st # "active"
<1>1. \A x \in V!Stored(V!EpisodeDocs) : x.st = "active" =>
         /\ [x EXCEPT !.st = "deleted"] \in V!Stored(V!EpisodeDocs)
         /\ [x EXCEPT !.st = "deleted"].st = "deleted"
  BY DEF V!Stored, V!NoRow
<1>2. \A e \in Episodes : episodes[e] \in V!Stored(V!EpisodeDocs)
  BY DEF ListingInv, ViewRows
<1> QED
  BY <1>1, <1>2 DEF V!Flipped

(* Nothing goes on listing a show's episodes when the show has gone.       *)
LEMMA ListingKeeps ==
  ASSUME ShowApart, ListingInv, V!Next
  PROVE  ListingInv'
<1>1. CASE \E a \in V!Items, doc \in Docs : V!Upsert(a, doc)
  <2>1. PICK a \in V!Items, doc \in Docs : V!Upsert(a, doc)
    BY <1>1
  <2>2. ViewRows'
    BY <2>1 DEF V!Upsert, ListingInv, ViewRows, V!Stored
  <2>3. \A e \in V!Items : items[e].st = "active" => items'[e].st = "active"
    BY <2>1 DEF V!Upsert, ListingInv, ViewRows
  <2> QED
    BY <2>1, <2>2, <2>3 DEF V!Upsert, ListingInv, ShowHoldsEpisodes, V!v_books, V!v_episodes
<1>2. CASE \E a \in V!Items : V!SoftDelete(a)
  <2>1. PICK a \in V!Items : V!SoftDelete(a)
    BY <1>2
  <2>2. \A e \in Episodes : V!Flipped(episodes)[e].st # "active"
    BY FlippedRows
  <2>3. V!Flipped(episodes) \in [Episodes -> V!Stored(V!EpisodeDocs)]
    BY FlippedRows
  <2>4. [items[a] EXCEPT !.st = "deleted"] \in V!Stored(Docs)
    BY <2>1 DEF V!SoftDelete, ListingInv, ViewRows, V!Stored, V!NoRow
  <2>5. ViewRows'
    BY <2>1, <2>3, <2>4 DEF V!SoftDelete, ListingInv, ViewRows
  <2>6. CASE a = Show
    BY <2>1, <2>2, <2>5, <2>6 DEF V!SoftDelete, ListingInv, ShowHoldsEpisodes, V!v_episodes
  <2>7. CASE a # Show
    <3>1. episodes' = episodes /\ items'[Show] = items[Show]
      BY <2>1, <2>7 DEF V!SoftDelete, ListingInv, ViewRows
    <3> QED
      BY <2>5, <3>1 DEF ListingInv, ShowHoldsEpisodes, V!v_books, V!v_episodes
  <2> QED
    BY <2>6, <2>7
<1>3. CASE \E a \in V!Items : V!RemoveItem(a)
  <2>1. PICK a \in V!Items : V!RemoveItem(a)
    BY <1>3
  <2>2. ViewRows'
    BY <2>1 DEF V!RemoveItem, ListingInv, ViewRows, V!Stored
  <2>3. CASE a = Show
    BY <2>1, <2>2, <2>3 DEF V!RemoveItem, V!NoRow, ListingInv, ShowHoldsEpisodes, V!v_episodes
  <2>4. CASE a # Show
    <3>1. episodes' = episodes /\ items'[Show] = items[Show]
      BY <2>1, <2>4 DEF V!RemoveItem, ListingInv, ViewRows
    <3> QED
      BY <2>2, <3>1 DEF ListingInv, ShowHoldsEpisodes, V!v_books, V!v_episodes
  <2> QED
    BY <2>3, <2>4
<1>4. CASE \E list \in SUBSET Episodes, doc \in V!EpisodeDocs : V!ApplyEpisodes(list, doc)
  <2>1. PICK list \in SUBSET Episodes, doc \in V!EpisodeDocs : V!ApplyEpisodes(list, doc)
    BY <1>4
  <2>2. V!Flipped(episodes) \in [Episodes -> V!Stored(V!EpisodeDocs)]
    BY FlippedRows
  <2>3. ViewRows'
    BY <2>1, <2>2 DEF V!ApplyEpisodes, ListingInv, ViewRows, V!Stored
  <2> QED
    BY <2>1, <2>3 DEF V!ApplyEpisodes, ListingInv, ShowHoldsEpisodes, V!v_books
<1>5. CASE UNCHANGED <<items, episodes>>
  BY <1>5 DEF ListingInv, ViewRows, ShowHoldsEpisodes, V!v_books, V!v_episodes
<1> QED
  BY <1>1, <1>2, <1>3, <1>4, <1>5
     DEF V!Next, V!Sweep, V!Named, V!Runs, V!DownloadOne, V!Finish, V!Forget

(* Where audio is not asked for, the sweep asks what the listing asks.     *)
LEMMA LacksIsMissing ==
  ASSUME NEW a, NEW candidates, NEW table
  PROVE  V!Lacks(a, {"pdf", "chapter"}, candidates, table)
            <=> V!Missing(a, {"pdf", "chapter"}, table) # {}
<1>1. {"pdf", "chapter"} \ {"audio"} = {"pdf", "chapter"}
  OBVIOUS
<1> QED
  BY <1>1 DEF V!Lacks

(* What the two queries say of the rows there are.                         *)
LEMMA ListingAndSweep ==
  ASSUME ShowApart, ShowHoldsEpisodes
  PROVE  ListingAgreesWithSweep
<1>1. PICK kinds : kinds = {"pdf", "chapter"}
  OBVIOUS
<1>2. PICK listed : listed = V!BooksMissing(kinds, FALSE, FALSE)
  OBVIOUS
<1>3. PICK swept : swept = V!MissingDownloadAsins(kinds, V!RequestKinds, FALSE, FALSE, TRUE)
  OBVIOUS
<1>4. \A a \in V!v_books : a \in listed <=> V!MissingKinds(a, kinds) # {} /\ V!Admitted(a, FALSE, FALSE)
  BY <1>2 DEF V!BooksMissing
<1>5. \A a : a \in swept <=>
         \/ /\ a \in V!v_books /\ V!Kind(a) # "podcast"
            /\ V!Missing(a, kinds, "items") # {} /\ V!Admitted(a, FALSE, FALSE)
         \/ /\ a \in V!v_episodes /\ a \notin V!v_books
            /\ V!Missing(a, kinds, "episodes") # {} /\ V!Admitted(Show, FALSE, FALSE)
  BY <1>1, <1>3, LacksIsMissing DEF V!MissingDownloadAsins, V!Holder, V!OwnItem
<1>6. listed \subseteq V!v_books
  BY <1>2 DEF V!BooksMissing
<1>7. V!Kind(Show) = "podcast"
  BY DEF V!Kind, ShowApart
<1>8. \A a : V!Kind(a) # "podcast" => V!MissingKinds(a, kinds) = V!Missing(a, kinds, "items")
  BY DEF V!MissingKinds
<1>9. V!MissingKinds(Show, kinds) # {} <=>
         \E e \in V!v_episodes : V!Missing(e, kinds, "episodes") # {}
  <2>1. V!MissingKinds(Show, kinds) = UNION {V!Missing(e, kinds, "episodes") : e \in V!v_episodes}
    BY <1>7 DEF V!MissingKinds
  <2> QED
    BY <2>1
<1>10. listed \cap V!Leaves = swept \cap V!v_books
  <2>1. \A a \in V!Leaves : V!Kind(a) # "podcast"
    BY DEF V!Leaves, V!Kind, ShowApart
  <2>2. \A a \in V!v_books : V!Kind(a) # "podcast" => a \in V!Leaves
    BY TitlesInViews
  <2> QED
    BY <1>4, <1>5, <1>6, <1>8, <2>1, <2>2
<1>11. swept \ V!v_books # {} => Show \in listed
  BY <1>4, <1>5, <1>9 DEF ShowHoldsEpisodes
<1>12. Show \in listed => \E e \in V!EpisodesMissing(kinds) : e \in swept \/ V!OwnItem(e)
  BY <1>4, <1>5, <1>6, <1>9 DEF V!EpisodesMissing, V!OwnItem
<1> QED
  BY <1>1, <1>2, <1>3, <1>10, <1>11, <1>12 DEF ListingAgreesWithSweep, V!ListingAgreesWithSweep

(* In every state the listing of what is missing and the sweep that        *)
(* downloads it tell the same story (src/db/items.rs, books_missing and    *)
(* missing_download_asins): a show's episodes never outlive it.            *)
THEOREM QueriesAgree == ShowApart => (V!ViewsSpec => []ListingAgreesWithSweep)
<1> SUFFICES ASSUME ShowApart PROVE V!ViewsSpec => []ListingAgreesWithSweep
  OBVIOUS
<1>1. V!Init => ListingInv
  BY DEF V!Init, V!NoRow, V!Stored, V!v_episodes, ListingInv, ViewRows, ShowHoldsEpisodes
<1>2. ListingInv /\ [V!Next]_(V!vvars) => ListingInv'
  <2>1. ListingInv /\ UNCHANGED V!vvars => ListingInv'
    BY DEF V!vvars, ListingInv, ViewRows, ShowHoldsEpisodes, V!v_books, V!v_episodes
  <2> QED
    BY <2>1, ListingKeeps
<1>3. ListingInv => ListingAgreesWithSweep
  BY ListingAndSweep DEF ListingInv
<1> QED
  BY <1>1, <1>2, <1>3, PTL DEF V!ViewsSpec
================================================================================
