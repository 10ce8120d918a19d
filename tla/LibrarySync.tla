----------------------------- MODULE LibrarySync -----------------------------
(***************************************************************************)
(* The library sync engine (src/library_sync.rs) for one marketplace: runs *)
(* of `library sync` and of the read commands' auto-sync page through the  *)
(* server's library feed and write the account database, while the server  *)
(* goes on changing, `library remove` and `db library remove` touch the    *)
(* same rows without the sync lock, runs abort, and the machine loses      *)
(* power.                                                                  *)
(*                                                                         *)
(* The server is external: its feed gives every change a time, a delta     *)
(* lists what changed after the state token, a full listing what is        *)
(* Active, and the token it hands out is the time of the first page.       *)
(***************************************************************************)
EXTENDS LibraryDb, FiniteSets

CONSTANTS Procs,        \* sync runs that compete for the library's lock
          Untitled,     \* ASINs whose documents carry no title: never stored
          NoProc,       \* nobody holds the lock
          MaxClock      \* bound on the number of server changes

ASSUME NoProcAssumption == NoProc \notin Procs
ASSUME MaxClockAssumption == MaxClock \in Nat

VARIABLES
    clock,      \* server: time of the latest change
    srv,        \* server: state and change time of every item in the feed
    db,         \* the committed database
    durable,    \* the state of the database that survives a power loss
    lock,       \* holder of the fs lock beside the database file
    pc,         \* where each run stands
    req,        \* the token a run sends (0: none, a full listing)
    listing,    \* the feed as of the run's first page
    rsp,        \* the token that page carried
    left,       \* listed items whose page is not applied yet
    flight      \* `library remove` calls between DELETE and soft-delete

server == <<clock, srv>>
runs == <<lock, pc, req, listing, rsp, left>>
vars == <<server, db, durable, runs, flight>>

ItemState == {"none", "active", "revoked"}
Feed == [Asins -> [st : ItemState, ver : Nat]]

(* `token` is sync_state.last_state_token.  History, which no code reads:  *)
(* `fullAt` is the token of the last complete full listing, `local` the    *)
(* items whose row a local command, and not a sync, wrote last.            *)
Database == [items : Table, token : Nat,
             fullAt : Nat, local : SUBSET Asins]

Phase == {"idle", "begun", "paging", "applied", "resolving"}

(* The variables stay in their sets, whatever the steps.                   *)
TypeOK ==
    /\ clock \in Nat /\ srv \in Feed
    /\ db \in Database /\ durable \in Database
    /\ lock \in Procs \cup {NoProc}
    /\ pc \in [Procs -> Phase]
    /\ req \in [Procs -> Nat] /\ rsp \in [Procs -> Nat]
    /\ listing \in [Procs -> Feed]
    /\ left \in [Procs -> SUBSET Asins]
    /\ flight \subseteq Asins

EmptyFeed == [a \in Asins |-> [st |-> "none", ver |-> 0]]
EmptyDb == [items |-> [a \in Asins |-> NoRow], token |-> 0, fullAt |-> 0, local |-> {}]

(* A new database; the account already owns any set of titles.             *)
Init ==
    /\ clock = 1
    /\ \E own \in SUBSET Asins :
          srv = [a \in Asins |-> IF a \in own THEN [st |-> "active", ver |-> 1]
                                              ELSE [st |-> "none", ver |-> 0]]
    /\ db = EmptyDb /\ durable = EmptyDb
    /\ lock = NoProc
    /\ pc = [p \in Procs |-> "idle"]
    /\ req = [p \in Procs |-> 0] /\ rsp = [p \in Procs |-> 0]
    /\ listing = [p \in Procs |-> EmptyFeed]
    /\ left = [p \in Procs |-> {}]
    /\ flight = {}

-----------------------------------------------------------------------------
(* The server (external).                                                  *)

(* A purchase, a borrow, or a changed document enters the feed.            *)
PublishActive(a) ==
    /\ clock < MaxClock
    /\ clock' = clock + 1
    /\ srv' = [srv EXCEPT ![a] = [st |-> "active", ver |-> clock + 1]]
    /\ UNCHANGED <<db, durable, runs, flight>>

(* A revocation enters the feed, minutes after an accepted DELETE or       *)
(* because the item was returned elsewhere.                                *)
PublishRevoked(a) ==
    /\ srv[a].st = "active"
    /\ clock < MaxClock
    /\ clock' = clock + 1
    /\ srv' = [srv EXCEPT ![a] = [st |-> "revoked", ver |-> clock + 1]]
    /\ UNCHANGED <<db, durable, runs, flight>>

-----------------------------------------------------------------------------
(* A sync run.                                                             *)

(* Seeded fault: a run starts beside another one.                          *)
BeginUnlocked(p, full) ==
    /\ pc[p] = "idle"
    /\ lock' = p
    /\ pc' = [pc EXCEPT ![p] = "begun"]
    /\ req' = [req EXCEPT ![p] = IF full THEN 0 ELSE db.token]
    /\ UNCHANGED <<server, db, durable, listing, rsp, left, flight>>

(* The lock is tried once; the holder reads the stored token.  `full` is   *)
(* the --full flag, which the auto-sync never sets.                        *)
Begin(p, full) ==
    /\ pc[p] = "idle" /\ lock = NoProc
    /\ lock' = p
    /\ pc' = [pc EXCEPT ![p] = "begun"]
    /\ req' = [req EXCEPT ![p] = IF full THEN 0 ELSE db.token]
    /\ UNCHANGED <<server, db, durable, listing, rsp, left, flight>>

(* Seeded fault: the delta asks for Active items only, like a full listing.*)
ListedActive(p) == {a \in Asins : srv[a].st = "active" /\ srv[a].ver > req[p]}

Listed(p) ==
    IF req[p] = 0 THEN {a \in Asins : srv[a].st = "active"}
                  ELSE {a \in Asins : srv[a].ver > req[p]}

(* Seeded fault: the token is dated back before the account existed.       *)
ListBackdated(p) ==
    /\ pc[p] = "begun"
    /\ pc' = [pc EXCEPT ![p] = "paging"]
    /\ listing' = [listing EXCEPT ![p] = srv]
    /\ left' = [left EXCEPT ![p] = Listed(p)]
    /\ rsp' = [rsp EXCEPT ![p] = clock - 2]
    /\ UNCHANGED <<server, db, durable, lock, req, flight>>

(* The first page fixes what the run will be served, and carries the token.*)
List(p) ==
    /\ pc[p] = "begun"
    /\ pc' = [pc EXCEPT ![p] = "paging"]
    /\ listing' = [listing EXCEPT ![p] = srv]
    /\ left' = [left EXCEPT ![p] = Listed(p)]
    /\ rsp' = [rsp EXCEPT ![p] = clock]
    /\ UNCHANGED <<server, db, durable, lock, req, flight>>

Upserts(p, page) ==
    {a \in page : listing[p][a].st = "active" /\ a \notin Untitled}
Deletes(p, page) == {a \in page : listing[p][a].st = "revoked"}

(* The database after a page: all its rows in one transaction, the token   *)
(* never.                                                                  *)
PageApplied(p, page) ==
    [db EXCEPT !.items = ApplyPage(db.items, Upserts(p, page),
                             [a \in Asins |-> listing[p][a].ver],
                             Deletes(p, page)),
               !.local = db.local \ (Upserts(p, page) \cup Deletes(p, page))]

(* Seeded fault: the token is stored with the page that carries it.        *)
SyncPageWithToken(p) ==
    /\ pc[p] = "paging"
    /\ \E page \in SUBSET left[p] :
          /\ page = {} => left[p] = {}
          /\ db' = [PageApplied(p, page) EXCEPT !.token = rsp[p]]
          /\ left' = [left EXCEPT ![p] = left[p] \ page]
          /\ pc' = [pc EXCEPT ![p] = IF page = left[p] THEN "applied"
                                                       ELSE "paging"]
    /\ UNCHANGED <<server, durable, lock, req, listing, rsp, flight>>

(* The server decides how many items a page carries; an empty listing is   *)
(* one empty page.                                                         *)
SyncPage(p) ==
    /\ pc[p] = "paging"
    /\ \E page \in SUBSET left[p] :
          /\ page = {} => left[p] = {}
          /\ db' = PageApplied(p, page)
          /\ left' = [left EXCEPT ![p] = left[p] \ page]
          /\ pc' = [pc EXCEPT ![p] = IF page = left[p] THEN "applied"
                                                       ELSE "paging"]
    /\ UNCHANGED <<server, durable, lock, req, listing, rsp, flight>>

(* Every page is applied: the token may advance.                           *)
PersistToken(p) ==
    /\ pc[p] = "applied"
    /\ pc' = [pc EXCEPT ![p] = "resolving"]
    /\ db' = [db EXCEPT !.token = rsp[p],
                        !.fullAt = IF req[p] = 0 THEN rsp[p] ELSE db.fullAt]
    /\ UNCHANGED <<server, durable, lock, req, listing, rsp, left, flight>>

(* No page carried a usable token: the stored one stays.                   *)
NoToken(p) ==
    /\ pc[p] = "applied"
    /\ pc' = [pc EXCEPT ![p] = "resolving"]
    /\ UNCHANGED <<server, db, durable, lock, req, listing, rsp, left, flight>>

(* The run's locals go with it, and the operating system drops its lock.   *)
Stopped(p) ==
    /\ pc' = [pc EXCEPT ![p] = "idle"]
    /\ lock' = NoProc
    /\ req' = [req EXCEPT ![p] = 0] /\ rsp' = [rsp EXCEPT ![p] = 0]
    /\ listing' = [listing EXCEPT ![p] = EmptyFeed]
    /\ left' = [left EXCEPT ![p] = {}]
    /\ UNCHANGED <<server, db, durable, flight>>

(* Episodes resolved (module EpisodeSync) and change log pruned.           *)
Finish(p) == pc[p] = "resolving" /\ Stopped(p)

(* A request or a transaction fails for good, or the process is killed.    *)
Abort(p) == pc[p] # "idle" /\ Stopped(p)

-----------------------------------------------------------------------------
(* Local commands, which take no lock.                                     *)

(* `library remove`: the stored document says the loan is removable, and   *)
(* the server accepts the DELETE.                                          *)
ReturnLoan(a) ==
    /\ a \notin flight
    /\ db.items[a].st = "active" /\ srv[a].st = "active"
    /\ flight' = flight \cup {a}
    /\ UNCHANGED <<server, db, durable, runs>>

HideReturned(a) ==
    /\ a \in flight
    /\ flight' = flight \ {a}
    /\ db' = [db EXCEPT !.items = SoftDeleteItem(db.items, a),
                        !.local = IF db.items[a].st = "active"
                                  THEN db.local \cup {a} ELSE db.local]
    /\ UNCHANGED <<server, durable, runs>>

(* The command dies, or the server accepted but the answer was lost.       *)
ReturnDies(a) ==
    /\ a \in flight
    /\ flight' = flight \ {a}
    /\ UNCHANGED <<server, db, durable, runs>>

DbLibraryRemove(a) ==
    /\ db.items[a].st # "absent"
    /\ db' = [db EXCEPT !.items = RemoveItem(db.items, a),
                        !.local = db.local \cup {a}]
    /\ UNCHANGED <<server, durable, runs, flight>>

-----------------------------------------------------------------------------
(* Durability: WAL with synchronous=NORMAL syncs at checkpoints only, so a *)
(* power loss takes the database back to the last one.                     *)

Checkpoint ==
    /\ durable # db
    /\ durable' = db
    /\ UNCHANGED <<server, db, runs, flight>>

PowerLoss ==
    /\ db' = durable
    /\ flight' = {}
    /\ lock' = NoProc
    /\ pc' = [p \in Procs |-> "idle"]
    /\ req' = [p \in Procs |-> 0] /\ rsp' = [p \in Procs |-> 0]
    /\ listing' = [p \in Procs |-> EmptyFeed]
    /\ left' = [p \in Procs |-> {}]
    /\ UNCHANGED <<server, durable>>

Run(p) ==
    \/ \E full \in BOOLEAN : Begin(p, full)
    \/ List(p) \/ SyncPage(p) \/ PersistToken(p) \/ NoToken(p) \/ Finish(p)
    \/ Abort(p)

Environment ==
    \/ \E a \in Asins : PublishActive(a) \/ PublishRevoked(a)
    \/ \E a \in Asins : ReturnLoan(a) \/ HideReturned(a) \/ ReturnDies(a)
    \/ Checkpoint

Next ==
    \/ \E p \in Procs : Run(p)
    \/ Environment
    \/ \E a \in Asins : DbLibraryRemove(a)
    \/ PowerLoss

Spec == Init /\ [][Next]_vars

-----------------------------------------------------------------------------
(* Safety.                                                                 *)

(* What a database still owes its token, item by item.                     *)
MissedUpsert(d, a) ==
    /\ srv[a].st = "active" /\ srv[a].ver <= d.token
    /\ a \notin Untitled /\ a \notin d.local
    /\ d.items[a] # [st |-> "active", doc |-> srv[a].ver]

MissedRevocation(d, a) ==
    /\ srv[a].st = "revoked"
    /\ d.fullAt < srv[a].ver /\ srv[a].ver <= d.token
    /\ d.items[a].st = "active"

Covers(d) == \A a \in Asins : ~MissedUpsert(d, a) /\ ~MissedRevocation(d, a)

(* The stored state token is never ahead of the rows: everything the       *)
(* server published up to it is in the database, so no delta can skip it.  *)
(* Excepted are revocations from before the last full listing, which asks  *)
(* for Active items only and deletes nothing.  It holds for the database   *)
(* a power loss falls back to as well, whatever was aborted or raced.      *)
TokenCovers == Covers(db) /\ Covers(durable)

(* Two runs never work on one library: only the lock's holder has begun.   *)
OneRun == \A p, q \in Procs : pc[p] # "idle" /\ pc[q] # "idle" => p = q

(* A step other than a power loss never takes the token back: the next     *)
(* delta starts where a complete run ended.                                *)
TokenNeverRegresses == [][db'.token >= db.token \/ db' = durable]_vars

-----------------------------------------------------------------------------
(* Convergence.                                                            *)

(* Users stop deleting rows by hand and the power stays on; runs may still *)
(* abort at any step, titles be returned and --full be used.               *)
CalmNext == \/ \E p \in Procs : Run(p)
            \/ Environment

(* A begun run goes on: every request has a timeout and at most            *)
(* MAX_RETRIES retries, so each step ends in success or in Abort.          *)
CalmSpec ==
    /\ Init /\ [][CalmNext]_vars
    /\ \A p \in Procs :
          WF_vars(List(p) \/ SyncPage(p) \/ PersistToken(p) \/ NoToken(p)
                  \/ Finish(p) \/ Abort(p))

(* The database shows what the feed holds, up to what a local command      *)
(* wrote over it and revocations older than the last full listing.         *)
Converged ==
    \A a \in Asins :
       /\ srv[a].st = "active" /\ a \notin Untitled /\ a \notin db.local
             => db.items[a] = [st |-> "active", doc |-> srv[a].ver]
       /\ srv[a].st = "revoked" /\ srv[a].ver > db.fullAt
             => db.items[a].st # "active"

(* If runs complete again and again, however many abort in between, and    *)
(* the server has nothing new to say, the library view settles on the      *)
(* server's.                                                               *)
Converges ==
    []<><<\E p \in Procs : PersistToken(p)>>_vars => <>[]Converged
=============================================================================
