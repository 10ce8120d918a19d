------------------------------ MODULE AgentProofs ------------------------------
(***************************************************************************)
(* Theorems about the agent: of AgentSessions, for any accounts, any number*)
(* of requests in flight and any requests, what an unlock grants lasts and *)
(* what a lock takes back is gone; of AppTokens, for any number of commands*)
(* and lookups, what a lookup answers is what the file says; of            *)
(* AgentProcess, for any number of processes and commands, its type        *)
(* invariant and that a serving daemon is reachable by its files.          *)
(***************************************************************************)
EXTENDS AgentProcess, AgentSessions, AppTokens, FiniteSetTheorems, TLAPS

(* The value for nothing is no account and no session.                     *)
Distinct == Nothing \notin Accounts /\ Nothing \notin Session

Fields == {"r", "at", "name", "ctx", "status", "seen"}

(* What the argument needs of the types: nothing about what a request says.*)
ConfigTyped ==
    /\ DOMAIN config = {"source", "approved", "default"}
    /\ config.source \in [Accounts -> {"prompt", "file", Nothing}]
    /\ config.default \in Configured \cup {Nothing}

MapTyped ==
    /\ sessions \in [Accounts -> Session \cup {Nothing}]
    /\ granted \in [Accounts -> BOOLEAN]

(* A request that derives a key has the session it will store, and one that*)
(* opens a session or starts a job knows its account.                      *)
SlotsTyped ==
    /\ DOMAIN req = Slots
    /\ \A q \in Slots :
          /\ DOMAIN req[q] = Fields
          /\ req[q].at = "kdf" => req[q].name \in Accounts /\ req[q].ctx \in Session
          /\ req[q].at \in {"open", "again"} => req[q].name \in Accounts

IInv == ConfigTyped /\ MapTyped /\ SlotsTyped /\ UnlockSticks

-----------------------------------------------------------------------------
(* The operators.                                                          *)

(* A configuration names an account it has, or none.                       *)
LEMMA AccountNameConfigured ==
  ASSUME ConfigTyped, NEW a
  PROVE  AccountName(a) \in Configured \cup {Nothing}
<1>1. Cardinality(Configured) = 1 => Configured # {}
  BY FS_EmptySet
<1> QED
  BY <1>1 DEF AccountName, ConfigTyped

(* A session is built from the source the account has.                     *)
LEMMA BuildCtxSession ==
  ASSUME ConfigTyped, NEW name \in Configured
  PROVE  name \in Accounts /\ BuildCtx(name) \in Session
  BY DEF ConfigTyped, Configured, BuildCtx, Session

(* An answer ends the request.                                             *)
LEMMA AnswerFields ==
  ASSUME NEW slot, DOMAIN slot = Fields, NEW status
  PROVE  DOMAIN Answer(slot, status) = Fields /\ Answer(slot, status).at = "done"
  BY DEF Answer, Fields

(* From the session map a request goes on to the client, to a child, to a  *)
(* job under the same name, or to its answer.                              *)
LEMMA SelectedFields ==
  ASSUME NEW slot, DOMAIN slot = Fields, NEW ctx
  PROVE  /\ DOMAIN Selected(slot, ctx) = Fields
         /\ Selected(slot, ctx).at \in {"done", "client", "child", "again"}
         /\ Selected(slot, ctx).at = "again" => Selected(slot, ctx).name = slot.name
<1>1. \A status : DOMAIN Answer(slot, status) = Fields /\ Answer(slot, status).at = "done"
  BY AnswerFields
<1>2. DOMAIN Queued(slot) = Fields /\ Queued(slot).at = "again" /\ Queued(slot).name = slot.name
  BY DEF Queued, Fields
<1>3. DOMAIN Child(slot) = Fields /\ Child(slot).at = "child"
  BY DEF Child, Fields
<1> DEFINE client == [slot EXCEPT !.at = "client", !.ctx = ctx]
<1>4. DOMAIN client = Fields /\ client.at = "client"
  BY DEF Fields
<1> QED
  BY <1>1, <1>2, <1>3, <1>4 DEF Selected, ConfigResolved

(* One request moves, the others stay as they are.                         *)
LEMMA SlotStep ==
  ASSUME SlotsTyped, NEW q \in Slots, NEW slot, SlotBecomes(q, slot),
         DOMAIN slot = Fields,
         slot.at = "kdf" => slot.name \in Accounts /\ slot.ctx \in Session,
         slot.at \in {"open", "again"} => slot.name \in Accounts
  PROVE  SlotsTyped'
  BY DEF SlotsTyped, SlotBecomes

(* An answered request.                                                    *)
LEMMA ReplyStep ==
  ASSUME SlotsTyped, NEW q \in Slots, NEW status, Reply(q, status)
  PROVE  SlotsTyped'
<1>1. DOMAIN req[q] = Fields
  BY DEF SlotsTyped
<1> QED
  BY <1>1, AnswerFields, SlotStep DEF Reply

-----------------------------------------------------------------------------
(* The steps.                                                              *)

(* Nothing is open at first.                                               *)
LEMMA InitHolds == SInit => IInv
<1> SUFFICES ASSUME SInit PROVE IInv
  OBVIOUS
<1>1. ConfigTyped /\ MapTyped /\ UnlockSticks
  BY DEF SInit, ConfigTyped, MapTyped, UnlockSticks
<1>2. DOMAIN Free = Fields /\ Free.at = "free"
  BY DEF Free, Fields
<1>3. SlotsTyped
  BY <1>2 DEF SInit, SlotsTyped
<1> QED
  BY <1>1, <1>3 DEF IInv

(* A request that arrives changes nothing else; an unlock takes along the  *)
(* session its account would get now.                                      *)
LEMMA ArriveKeeps ==
  ASSUME IInv, NEW q \in Slots, NEW r, Arrive(q, r)
  PROVE  IInv'
<1> DEFINE new == [Free EXCEPT !.r = r, !.seen = {a \in Accounts : granted[a]}]
           name == AccountName(r.account)
           kdf == [new EXCEPT !.at = "kdf", !.name = name, !.ctx = BuildCtx(name)]
           locked == [new EXCEPT !.at = "lock"]
           session == [new EXCEPT !.at = "session"]
<1>1. DOMAIN new = Fields
  BY DEF Free, Fields
<1> HIDE DEF new
<1>2. UNCHANGED <<config, sessions, granted>>
  BY DEF Arrive
<1>3. \A status : DOMAIN Answer(new, status) = Fields /\ Answer(new, status).at = "done"
  BY <1>1, AnswerFields
<1>4. DOMAIN locked = Fields /\ locked.at = "lock" /\ DOMAIN session = Fields /\ session.at = "session"
  BY <1>1 DEF Fields
<1>5. DOMAIN kdf = Fields /\ kdf.at = "kdf" /\ kdf.name = name /\ kdf.ctx = BuildCtx(name)
  BY <1>1 DEF Fields
<1>6. name # Nothing => name \in Accounts /\ BuildCtx(name) \in Session
  BY AccountNameConfigured, BuildCtxSession DEF IInv
<1> HIDE DEF name, kdf, locked, session
<1>7. \/ \E status : SlotBecomes(q, Answer(new, status))
      \/ name # Nothing /\ SlotBecomes(q, kdf)
      \/ SlotBecomes(q, locked) \/ SlotBecomes(q, session)
  BY DEF Arrive, new, name, kdf, locked, session
<1>8. SlotsTyped'
  <2>1. ASSUME NEW status, SlotBecomes(q, Answer(new, status)) PROVE SlotsTyped'
    BY <2>1, <1>3, SlotStep DEF IInv
  <2>2. CASE name # Nothing /\ SlotBecomes(q, kdf)
    BY <2>2, <1>5, <1>6, SlotStep DEF IInv
  <2>3. CASE SlotBecomes(q, locked) \/ SlotBecomes(q, session)
    BY <2>3, <1>4, SlotStep DEF IInv
  <2> QED
    BY <1>7, <2>1, <2>2, <2>3
<1> QED
  BY <1>2, <1>8 DEF IInv, ConfigTyped, Configured, MapTyped, UnlockSticks

(* The read lock changes no session.                                       *)
LEMMA SessionReadKeeps ==
  ASSUME IInv, NEW q \in Slots, SessionRead(q)
  PROVE  IInv'
<1> DEFINE name == AccountName(EffectiveAccount(req[q].r))
           slot == [req[q] EXCEPT !.name = name]
           opened == [slot EXCEPT !.at = "open"]
<1>1. UNCHANGED <<config, sessions, granted>>
  BY DEF SessionRead
<1>2. name # Nothing => name \in Accounts
  BY AccountNameConfigured DEF IInv, Configured
<1>3. DOMAIN slot = Fields /\ slot.name = name
  BY DEF IInv, SlotsTyped, Fields
<1>4. DOMAIN opened = Fields /\ opened.at = "open" /\ opened.name = name
  BY <1>3 DEF Fields
<1>5. SlotsTyped'
  <2>1. CASE name = Nothing
    BY <2>1, ReplyStep DEF SessionRead, IInv
  <2>2. CASE name # Nothing /\ sessions[name] = Nothing
    <3>1. SlotBecomes(q, opened)
      BY <2>2 DEF SessionRead
    <3> HIDE DEF opened, slot, name
    <3> QED
      BY <1>2, <1>4, <2>2, <3>1, SlotStep DEF IInv
  <2>3. CASE name # Nothing /\ sessions[name] # Nothing
    <3> DEFINE next == Selected(slot, sessions[name])
    <3>1. SlotBecomes(q, next)
      BY <2>3 DEF SessionRead
    <3>2. /\ DOMAIN next = Fields /\ next.at \in {"done", "client", "child", "again"}
          /\ next.at = "again" => next.name = name
      BY <1>3, SelectedFields
    <3> HIDE DEF next, slot, name
    <3> QED
      BY <1>2, <2>3, <3>1, <3>2, SlotStep DEF IInv
  <2> QED
    BY <2>1, <2>2, <2>3
<1> QED
  BY <1>1, <1>5 DEF IInv, ConfigTyped, Configured, MapTyped, UnlockSticks

(* The write lock: a session is built only where there is none, so that no *)
(* unlocked one is replaced.                                               *)
LEMMA SessionOpenKeeps ==
  ASSUME IInv, NEW q \in Slots, SessionOpen(q)
  PROVE  IInv'
<1> DEFINE name == req[q].name
           ctx == IF StillMissing(name) THEN BuildCtx(name) ELSE sessions[name]
<1>1. UNCHANGED <<config, granted>> /\ name \in Accounts /\ DOMAIN req[q] = Fields
  BY DEF SessionOpen, IInv, SlotsTyped
<1>2. CASE name \notin Configured
  <2>1. Reply(q, 400) /\ UNCHANGED sessions
    BY <1>2 DEF SessionOpen
  <2>2. SlotsTyped'
    BY <2>1, ReplyStep DEF IInv
  <2> QED
    BY <1>1, <2>1, <2>2 DEF IInv, ConfigTyped, Configured, MapTyped, UnlockSticks
<1>3. CASE name \in Configured
  <2> DEFINE next == Selected(req[q], ctx)
  <2>1. sessions' = [sessions EXCEPT ![name] = ctx] /\ SlotBecomes(q, next)
    BY <1>3 DEF SessionOpen
  <2>2. ctx \in Session \cup {Nothing} /\ (sessions[name] # Nothing => ctx = sessions[name])
    BY <1>1, <1>3, BuildCtxSession DEF IInv, MapTyped, StillMissing
  <2>3. /\ DOMAIN next = Fields /\ next.at \in {"done", "client", "child", "again"}
        /\ next.at = "again" => next.name = name
    BY <1>1, SelectedFields
  <2> HIDE DEF next, ctx
  <2>4. SlotsTyped'
    <3> HIDE DEF name
    <3> QED
      BY <1>1, <2>1, <2>3, SlotStep DEF IInv
  <2>5. MapTyped' /\ UnlockSticks'
    BY <1>1, <2>1, <2>2 DEF IInv, MapTyped, UnlockSticks
  <2> QED
    BY <1>1, <2>4, <2>5 DEF IInv, ConfigTyped, Configured
<1> QED
  BY <1>2, <1>3

(* A job, too, builds a session only where there is none.                  *)
LEMMA StartJobKeeps ==
  ASSUME IInv, NEW q \in Slots, StartJob(q)
  PROVE  IInv'
<1> DEFINE name == req[q].name
<1>1. UNCHANGED <<config, granted>> /\ name \in Accounts
  BY DEF StartJob, IInv, SlotsTyped
<1>2. SlotsTyped'
  <2>1. Reply(q, 500) \/ Reply(q, 202)
    BY DEF StartJob
  <2> QED
    BY <2>1, ReplyStep DEF IInv
<1>3. \/ UNCHANGED sessions
      \/ /\ name \in Configured /\ sessions[name] = Nothing
         /\ sessions' = [sessions EXCEPT ![name] = BuildCtx(name)]
  BY DEF StartJob
<1>4. MapTyped' /\ UnlockSticks'
  <2>1. CASE UNCHANGED sessions
    BY <1>1, <2>1 DEF IInv, MapTyped, UnlockSticks
  <2>2. CASE /\ name \in Configured /\ sessions[name] = Nothing
             /\ sessions' = [sessions EXCEPT ![name] = BuildCtx(name)]
    <3>1. BuildCtx(name) \in Session
      BY <2>2, BuildCtxSession DEF IInv
    <3> QED
      BY <1>1, <2>2, <3>1 DEF IInv, MapTyped, UnlockSticks
  <2> QED
    BY <1>3, <2>1, <2>2
<1> QED
  BY <1>1, <1>2, <1>4 DEF IInv, ConfigTyped, Configured

(* What a request does with its session leaves the map alone.              *)
LEMMA EndKeeps ==
  ASSUME IInv, NEW q \in Slots, InvokeCommand(q) \/ Call(q) \/ Finish(q)
  PROVE  IInv'
<1>1. UNCHANGED <<config, sessions, granted>>
  BY DEF InvokeCommand, Call, Finish
<1>2. SlotsTyped'
  <2>1. CASE \E status : Reply(q, status)
    BY <2>1, ReplyStep DEF IInv
  <2>2. CASE Finish(q)
    <3>1. DOMAIN Free = Fields /\ Free.at = "free"
      BY DEF Free, Fields
    <3> QED
      BY <2>2, <3>1, SlotStep DEF Finish, SlotBecomes, IInv
  <2>3. InvokeCommand(q) \/ Call(q) => \E status : Reply(q, status)
    BY DEF InvokeCommand, Call
  <2> QED
    BY <2>1, <2>2, <2>3
<1> QED
  BY <1>1, <1>2 DEF IInv, ConfigTyped, Configured, MapTyped, UnlockSticks

(* An unlock stores its session over whatever is there.                    *)
LEMMA UnlockKeeps ==
  ASSUME Distinct, IInv, NEW q \in Slots, Unlock(q)
  PROVE  IInv'
<1> DEFINE name == req[q].name
           ctx == [req[q].ctx EXCEPT !.unlocked = TRUE]
<1>1. UNCHANGED config
  BY DEF Unlock
<1>2. CASE Reply(q, 400) /\ UNCHANGED <<sessions, granted>>
  <2>1. SlotsTyped'
    BY <1>2, ReplyStep DEF IInv
  <2> QED
    BY <1>1, <1>2, <2>1 DEF IInv, ConfigTyped, Configured, MapTyped, UnlockSticks
<1>3. CASE /\ sessions' = [sessions EXCEPT ![name] = ctx]
           /\ granted' = [granted EXCEPT ![name] = TRUE]
           /\ req' = [s \in Slots |-> IF s = q THEN Answer(req[s], 200)
                                      ELSE [req[s] EXCEPT !.seen = @ \cup {name}]]
  <2>1. req[q].at = "kdf" /\ name \in Accounts /\ req[q].ctx \in Session
    BY DEF Unlock, IInv, SlotsTyped
  <2>2. ctx \in Session /\ ctx.unlocked /\ ctx # Nothing
    BY <2>1 DEF Session, Distinct
  <2>3. MapTyped' /\ UnlockSticks'
    <3> HIDE DEF ctx, name
    <3> QED
      BY <1>3, <2>1, <2>2 DEF IInv, MapTyped, UnlockSticks
  <2>4. \A s \in Slots \ {q} : LET next == [req[s] EXCEPT !.seen = @ \cup {name}] IN
           /\ DOMAIN next = Fields /\ next.at = req[s].at
           /\ next.name = req[s].name /\ next.ctx = req[s].ctx
    BY DEF IInv, SlotsTyped, Fields
  <2>5. DOMAIN Answer(req[q], 200) = Fields /\ Answer(req[q], 200).at = "done"
    BY AnswerFields DEF IInv, SlotsTyped
  <2>6. SlotsTyped'
    BY <1>3, <2>4, <2>5 DEF IInv, SlotsTyped
  <2> QED
    BY <1>1, <2>3, <2>6 DEF IInv, ConfigTyped, Configured
<1> QED
  BY <1>2, <1>3 DEF Unlock

(* A lock takes back what it drops.                                        *)
LEMMA LockKeeps ==
  ASSUME IInv, NEW q \in Slots, Lock(q)
  PROVE  IInv'
<1>1. UNCHANGED config
  BY DEF Lock
<1>2. SlotsTyped'
  <2>1. \E status : Reply(q, status)
    BY DEF Lock
  <2> QED
    BY <2>1, ReplyStep DEF IInv
<1>3. MapTyped' /\ UnlockSticks'
  <2> DEFINE r == req[q].r
             name == AccountName(r.account)
  <2>1. sessions' \in [Accounts -> Session \cup {Nothing}] /\ granted' \in [Accounts -> BOOLEAN]
    BY DEF Lock, IInv, MapTyped
  <2>2. ASSUME NEW a \in Accounts, granted'[a]
        PROVE  granted[a] /\ sessions'[a] = sessions[a]
    BY <2>2 DEF Lock, Locked, IInv, MapTyped
  <2> QED
    BY <2>1, <2>2 DEF IInv, MapTyped, UnlockSticks
<1> QED
  BY <1>1, <1>2, <1>3 DEF IInv, ConfigTyped, Configured

(* So does the sweeper.                                                    *)
LEMMA EvictIdleKeeps ==
  ASSUME IInv, EvictIdle
  PROVE  IInv'
  BY DEF EvictIdle, IInv, ConfigTyped, Configured, MapTyped, SlotsTyped, UnlockSticks

(* The configuration is edited under the open sessions.                    *)
LEMMA EditKeeps ==
  ASSUME IInv, Edit
  PROVE  IInv'
<1>1. UNCHANGED <<sessions, granted, req>>
  BY DEF Edit
<1>2. ConfigTyped'
  <2>1. ASSUME NEW a \in Accounts, NEW s \in {"prompt", "file", Nothing},
               config' = [config EXCEPT !.source[a] = s,
                                        !.default = IF @ = a /\ s = Nothing THEN Nothing ELSE @]
        PROVE  ConfigTyped'
    BY <2>1 DEF IInv, ConfigTyped, Configured
  <2>2. CASE config' = [config EXCEPT !.approved = ~@]
    BY <2>2 DEF IInv, ConfigTyped, Configured
  <2>3. ASSUME NEW a \in Configured, config' = [config EXCEPT !.default = a]
        PROVE  ConfigTyped'
    BY <2>3 DEF IInv, ConfigTyped, Configured
  <2> QED
    BY <2>1, <2>2, <2>3 DEF Edit
<1> QED
  BY <1>1, <1>2 DEF IInv, MapTyped, SlotsTyped, UnlockSticks

-----------------------------------------------------------------------------
(* Every step keeps what was granted.                                      *)
LEMMA StepKeeps ==
  ASSUME Distinct, IInv, [SNext]_svars
  PROVE  IInv'
<1>1. ASSUME NEW q \in Slots, RequestStep(q)
      PROVE  IInv'
  BY <1>1, SessionReadKeeps, SessionOpenKeeps, StartJobKeeps, EndKeeps, UnlockKeeps, LockKeeps
     DEF RequestStep
<1>2. CASE Tick \/ UNCHANGED svars
  BY <1>2 DEF Tick, svars, IInv, ConfigTyped, Configured, MapTyped, SlotsTyped, UnlockSticks
<1> QED
  BY <1>1, <1>2, ArriveKeeps, EvictIdleKeeps, EditKeeps DEF SNext

(* An unlock that has succeeded holds until a lock or an eviction, however *)
(* requests that open the account at the same moment interleave with it.   *)
THEOREM UnlockLasts == Distinct => (SessionSpec => []UnlockSticks)
<1> SUFFICES ASSUME Distinct PROVE SessionSpec => []UnlockSticks
  OBVIOUS
<1>1. IInv /\ [SNext]_svars => IInv'
  BY StepKeeps
<1>2. IInv => UnlockSticks
  BY DEF IInv
<1> QED
  BY <1>1, <1>2, InitHolds, PTL DEF SessionSpec

-----------------------------------------------------------------------------
(* After a lock: no session is open that nothing vouches for.              *)

(* What a request in flight carries: no status yet, every account that is  *)
(* granted now among those it has seen, and an unlocked session only under *)
(* a name it has seen granted.                                             *)
Knows(slot, grants) ==
    /\ slot.at \notin {"free", "done"} =>
          /\ slot.status = 0
          /\ \A a \in Accounts : grants[a] => a \in slot.seen
    /\ slot.at = "client" /\ slot.ctx.unlocked => slot.name \in slot.seen

OpenIsGranted ==
    \A a \in Accounts : sessions[a] # Nothing /\ sessions[a].unlocked => granted[a]

SlotsKnow == \A q \in Slots : Knows(req[q], granted)

Vouched == IInv /\ OpenIsGranted /\ SlotsKnow

(* A request that is answered, or free, carries nothing.                   *)
LEMMA EndedKnows ==
  ASSUME NEW slot, slot.at \in {"free", "done"}, NEW grants
  PROVE  Knows(slot, grants)
  BY DEF Knows

(* One request moves, and nothing is granted anew.                         *)
LEMMA SlotKnows ==
  ASSUME SlotsTyped, SlotsKnow, NEW q \in Slots, NEW slot, SlotBecomes(q, slot),
         Knows(slot, granted), \A a \in Accounts : granted'[a] => granted[a]
  PROVE  SlotsKnow'
<1>1. ASSUME NEW s \in Slots PROVE Knows(req'[s], granted)
  BY DEF SlotsTyped, SlotsKnow, SlotBecomes
<1>2. ASSUME NEW slot2, Knows(slot2, granted) PROVE Knows(slot2, granted')
  BY <1>2 DEF Knows
<1> QED
  BY <1>1, <1>2 DEF SlotsKnow

(* An answer.                                                              *)
LEMMA ReplyKnows ==
  ASSUME SlotsTyped, SlotsKnow, NEW q \in Slots, NEW status, Reply(q, status),
         \A a \in Accounts : granted'[a] => granted[a]
  PROVE  SlotsKnow'
<1>1. Answer(req[q], status).at = "done"
  BY AnswerFields DEF SlotsTyped
<1>2. Knows(Answer(req[q], status), granted)
  BY <1>1, EndedKnows
<1> QED
  BY <1>2, SlotKnows DEF Reply

(* A request takes a session along under its own name.                     *)
LEMMA SelectedKnows ==
  ASSUME NEW slot, DOMAIN slot = Fields, slot.status = 0,
         \A a \in Accounts : granted[a] => a \in slot.seen,
         NEW ctx, ctx.unlocked => slot.name \in slot.seen
  PROVE  Knows(Selected(slot, ctx), granted)
<1> DEFINE client == [slot EXCEPT !.at = "client", !.ctx = ctx]
<1>1. \A status : Knows(Answer(slot, status), granted)
  BY AnswerFields, EndedKnows
<1>2. Knows(Queued(slot), granted) /\ Knows(Child(slot), granted)
  BY DEF Knows, Queued, Child, Fields
<1>3. Knows(client, granted)
  BY DEF Knows, Fields
<1> HIDE DEF client
<1>4. \/ \E status : Selected(slot, ctx) = Answer(slot, status)
      \/ Selected(slot, ctx) \in {Queued(slot), Child(slot), client}
  BY DEF Selected, ConfigResolved, client
<1> QED
  BY <1>1, <1>2, <1>3, <1>4

(* Nothing is open at first.                                               *)
LEMMA InitVouched == SInit => Vouched
<1>1. ASSUME SInit PROVE OpenIsGranted /\ SlotsKnow
  BY <1>1 DEF SInit, OpenIsGranted, SlotsKnow, Knows, Free
<1> QED
  BY <1>1, InitHolds DEF Vouched

(* A request that arrives has seen what is granted now.                    *)
LEMMA ArriveVouched ==
  ASSUME Vouched, NEW q \in Slots, NEW r, Arrive(q, r)
  PROVE  OpenIsGranted' /\ SlotsKnow'
<1> DEFINE new == [Free EXCEPT !.r = r, !.seen = {a \in Accounts : granted[a]}]
           name == AccountName(r.account)
           kdf == [new EXCEPT !.at = "kdf", !.name = name, !.ctx = BuildCtx(name)]
           locked == [new EXCEPT !.at = "lock"]
           session == [new EXCEPT !.at = "session"]
<1>1. UNCHANGED <<sessions, granted>>
  BY DEF Arrive
<1>2. DOMAIN new = Fields /\ new.status = 0 /\ new.seen = {a \in Accounts : granted[a]}
  BY DEF Free, Fields
<1> HIDE DEF new
<1>3. \A status : Knows(Answer(new, status), granted)
  BY <1>2, AnswerFields, EndedKnows
<1>4. Knows(kdf, granted) /\ Knows(locked, granted) /\ Knows(session, granted)
  BY <1>2 DEF Knows, Fields
<1> HIDE DEF name, kdf, locked, session
<1>5. \/ \E status : SlotBecomes(q, Answer(new, status))
      \/ SlotBecomes(q, kdf) \/ SlotBecomes(q, locked) \/ SlotBecomes(q, session)
  BY DEF Arrive, new, name, kdf, locked, session
<1>6. SlotsKnow'
  BY <1>1, <1>3, <1>4, <1>5, SlotKnows DEF Vouched, IInv
<1> QED
  BY <1>1, <1>6 DEF Vouched, OpenIsGranted

(* A session that is found open is granted, and so the request has seen    *)
(* its account.                                                            *)
LEMMA SessionReadVouched ==
  ASSUME Vouched, NEW q \in Slots, SessionRead(q)
  PROVE  OpenIsGranted' /\ SlotsKnow'
<1> DEFINE name == AccountName(EffectiveAccount(req[q].r))
           slot == [req[q] EXCEPT !.name = name]
           opened == [slot EXCEPT !.at = "open"]
<1>1. UNCHANGED <<config, sessions, granted>>
  BY DEF SessionRead
<1>2. name # Nothing => name \in Accounts
  BY AccountNameConfigured DEF Vouched, IInv, Configured
<1>3. /\ DOMAIN slot = Fields /\ slot.name = name /\ slot.status = 0
      /\ \A a \in Accounts : granted[a] => a \in slot.seen
  BY DEF Vouched, IInv, SlotsTyped, Fields, SlotsKnow, Knows, SessionRead
<1>4. SlotsKnow'
  <2>1. CASE name = Nothing
    BY <1>1, <2>1, ReplyKnows DEF SessionRead, Vouched, IInv
  <2>2. CASE name # Nothing /\ sessions[name] = Nothing
    <3>1. SlotBecomes(q, opened)
      BY <2>2 DEF SessionRead
    <3> HIDE DEF slot
    <3>2. Knows(opened, granted)
      BY <1>3 DEF Knows, Fields
    <3> HIDE DEF opened
    <3> QED
      BY <1>1, <3>1, <3>2, SlotKnows DEF Vouched, IInv
  <2>3. CASE name # Nothing /\ sessions[name] # Nothing
    <3> DEFINE next == Selected(slot, sessions[name])
    <3>1. SlotBecomes(q, next)
      BY <2>3 DEF SessionRead
    <3> HIDE DEF slot, name
    <3>2. Knows(next, granted)
      BY <1>2, <1>3, <2>3, SelectedKnows DEF Vouched, OpenIsGranted
    <3> HIDE DEF next
    <3> QED
      BY <1>1, <3>1, <3>2, SlotKnows DEF Vouched, IInv
  <2> QED
    BY <2>1, <2>2, <2>3
<1> QED
  BY <1>1, <1>4 DEF Vouched, OpenIsGranted

(* A session that is built is locked, one found under the write lock is    *)
(* granted if it is open.                                                  *)
LEMMA SessionOpenVouched ==
  ASSUME Vouched, NEW q \in Slots, SessionOpen(q)
  PROVE  OpenIsGranted' /\ SlotsKnow'
<1> DEFINE name == req[q].name
           ctx == IF StillMissing(name) THEN BuildCtx(name) ELSE sessions[name]
<1>1. UNCHANGED <<config, granted>> /\ name \in Accounts /\ DOMAIN req[q] = Fields
  BY DEF SessionOpen, Vouched, IInv, SlotsTyped
<1>2. CASE name \notin Configured
  <2>1. Reply(q, 400) /\ UNCHANGED sessions
    BY <1>2 DEF SessionOpen
  <2>2. SlotsKnow'
    BY <1>1, <2>1, ReplyKnows DEF Vouched, IInv
  <2> QED
    BY <1>1, <2>1, <2>2 DEF Vouched, OpenIsGranted
<1>3. CASE name \in Configured
  <2> DEFINE next == Selected(req[q], ctx)
  <2>1. sessions' = [sessions EXCEPT ![name] = ctx] /\ SlotBecomes(q, next)
    BY <1>3 DEF SessionOpen
  <2>2. ctx.unlocked => granted[name]
    BY <1>1 DEF StillMissing, BuildCtx, Vouched, OpenIsGranted
  <2>3. /\ req[q].status = 0 /\ \A a \in Accounts : granted[a] => a \in req[q].seen
    BY DEF SessionOpen, Vouched, SlotsKnow, Knows
  <2> HIDE DEF ctx
  <2>4. Knows(next, granted)
    BY <1>1, <2>2, <2>3, SelectedKnows
  <2> HIDE DEF next
  <2>5. SlotsKnow'
    BY <1>1, <2>1, <2>4, SlotKnows DEF Vouched, IInv
  <2>6. OpenIsGranted'
    BY <1>1, <2>1, <2>2 DEF Vouched, IInv, MapTyped, OpenIsGranted
  <2> QED
    BY <2>5, <2>6
<1> QED
  BY <1>2, <1>3

(* A job builds a locked session, if any.                                  *)
LEMMA StartJobVouched ==
  ASSUME Vouched, NEW q \in Slots, StartJob(q)
  PROVE  OpenIsGranted' /\ SlotsKnow'
<1> DEFINE name == req[q].name
<1>1. UNCHANGED granted /\ name \in Accounts
  BY DEF StartJob, Vouched, IInv, SlotsTyped
<1>2. Reply(q, 500) \/ Reply(q, 202)
  BY DEF StartJob
<1>3. UNCHANGED sessions \/ sessions' = [sessions EXCEPT ![name] = BuildCtx(name)]
  BY DEF StartJob
<1>4. SlotsKnow'
  BY <1>1, <1>2, ReplyKnows DEF Vouched, IInv
<1>5. ~BuildCtx(name).unlocked
  BY DEF BuildCtx
<1>6. OpenIsGranted'
  BY <1>1, <1>3, <1>5 DEF Vouched, IInv, MapTyped, OpenIsGranted
<1> QED
  BY <1>4, <1>6

(* The end of a request.                                                   *)
LEMMA EndVouched ==
  ASSUME Vouched, NEW q \in Slots, InvokeCommand(q) \/ Call(q) \/ Finish(q)
  PROVE  OpenIsGranted' /\ SlotsKnow'
<1>1. UNCHANGED <<sessions, granted>>
  BY DEF InvokeCommand, Call, Finish
<1>2. SlotsKnow'
  <2>1. CASE \E status : Reply(q, status)
    BY <1>1, <2>1, ReplyKnows DEF Vouched, IInv
  <2>2. CASE Finish(q)
    <3>1. Knows(Free, granted)
      BY EndedKnows DEF Free
    <3> QED
      BY <1>1, <2>2, <3>1, SlotKnows DEF Finish, SlotBecomes, Vouched, IInv
  <2>3. InvokeCommand(q) \/ Call(q) => \E status : Reply(q, status)
    BY DEF InvokeCommand, Call
  <2> QED
    BY <2>1, <2>2, <2>3
<1> QED
  BY <1>1, <1>2 DEF Vouched, OpenIsGranted

(* Every request in flight sees an unlock.                                 *)
LEMMA UnlockVouched ==
  ASSUME Vouched, NEW q \in Slots, Unlock(q)
  PROVE  OpenIsGranted' /\ SlotsKnow'
<1> DEFINE name == req[q].name
           ctx == [req[q].ctx EXCEPT !.unlocked = TRUE]
<1>1. CASE Reply(q, 400) /\ UNCHANGED <<sessions, granted>>
  <2>1. SlotsKnow'
    BY <1>1, ReplyKnows DEF Vouched, IInv
  <2> QED
    BY <1>1, <2>1 DEF Vouched, OpenIsGranted
<1>2. CASE /\ sessions' = [sessions EXCEPT ![name] = ctx]
           /\ granted' = [granted EXCEPT ![name] = TRUE]
           /\ req' = [s \in Slots |-> IF s = q THEN Answer(req[s], 200)
                                      ELSE [req[s] EXCEPT !.seen = @ \cup {name}]]
  <2>1. name \in Accounts
    BY DEF Unlock, Vouched, IInv, SlotsTyped
  <2>2. OpenIsGranted'
    <3> HIDE DEF ctx, name
    <3> QED
      BY <1>2, <2>1 DEF Vouched, IInv, MapTyped, OpenIsGranted
  <2>3. ASSUME NEW s \in Slots PROVE Knows(req'[s], granted')
    <3>1. CASE s = q
      <4>1. req'[s].at = "done"
        BY <1>2, <3>1, AnswerFields DEF Vouched, IInv, SlotsTyped
      <4> QED
        BY <4>1, EndedKnows
    <3>2. CASE s # q
      <4> DEFINE next == [req[s] EXCEPT !.seen = @ \cup {name}]
      <4>1. /\ next.at = req[s].at /\ next.status = req[s].status
            /\ next.ctx = req[s].ctx /\ next.name = req[s].name
            /\ next.seen = req[s].seen \cup {name}
        BY DEF Vouched, IInv, SlotsTyped, Fields
      <4>2. req'[s] = next
        BY <1>2, <3>2
      <4>3. \A a \in Accounts : granted'[a] => granted[a] \/ a = name
        BY <1>2, <2>1 DEF Vouched, IInv, MapTyped
      <4>4. Knows(req[s], granted)
        BY DEF Vouched, SlotsKnow
      <4> HIDE DEF next, name
      <4> QED
        BY <4>1, <4>2, <4>3, <4>4 DEF Knows
    <3> QED
      BY <3>1, <3>2
  <2> QED
    BY <2>2, <2>3 DEF SlotsKnow
<1> QED
  BY <1>1, <1>2 DEF Unlock

(* What a lock takes back it also drops from the map, and the other way    *)
(* round.                                                                  *)
LEMMA LockVouched ==
  ASSUME Distinct, Vouched, NEW q \in Slots, Lock(q)
  PROVE  OpenIsGranted' /\ SlotsKnow'
<1> DEFINE r == req[q].r
           name == AccountName(r.account)
           all == r.route = "lock_all"
           dropped == IF all THEN Accounts ELSE IF name = Nothing THEN {} ELSE Locked(name)
<1>1. /\ sessions' = [a \in Accounts |-> IF a \in dropped THEN Nothing ELSE sessions[a]]
      /\ granted' = [a \in Accounts |-> granted[a] /\ ~(all \/ a = name)]
  BY DEF Lock
<1>2. \A a \in Accounts : granted'[a] => granted[a]
  BY <1>1
<1>3. SlotsKnow'
  <2>1. \E status : Reply(q, status)
    BY DEF Lock
  <2> QED
    BY <1>2, <2>1, ReplyKnows DEF Vouched, IInv
<1>4. \A a \in Accounts : a \notin dropped => ~(all \/ a = name)
  BY DEF Locked, Distinct
<1> HIDE DEF dropped, all, name
<1>5. OpenIsGranted'
  <2> SUFFICES ASSUME NEW a \in Accounts, sessions'[a] # Nothing, sessions'[a].unlocked
               PROVE  granted'[a]
    BY DEF OpenIsGranted
  <2>1. a \notin dropped /\ sessions'[a] = sessions[a]
    BY <1>1
  <2>2. granted[a]
    BY <2>1 DEF Vouched, OpenIsGranted
  <2> QED
    BY <1>1, <1>4, <2>1, <2>2
<1> QED
  BY <1>3, <1>5

(* The sweeper drops what it takes back.                                   *)
LEMMA EvictIdleVouched ==
  ASSUME Vouched, EvictIdle
  PROVE  OpenIsGranted' /\ SlotsKnow'
<1> DEFINE keep == {a \in Accounts : sessions[a] # Nothing /\ age[a] < Timeout}
<1>1. /\ sessions' = [a \in Accounts |-> IF a \in keep THEN sessions[a] ELSE Nothing]
      /\ granted' = [a \in Accounts |-> granted[a] /\ a \in keep]
      /\ UNCHANGED req
  BY DEF EvictIdle
<1> HIDE DEF keep
<1> QED
  BY <1>1 DEF Vouched, OpenIsGranted, SlotsKnow, Knows

(* Every step keeps it.                                                    *)
LEMMA StepVouched ==
  ASSUME Distinct, Vouched, [SNext]_svars
  PROVE  Vouched'
<1>1. IInv'
  BY StepKeeps DEF Vouched
<1>2. ASSUME NEW q \in Slots, RequestStep(q)
      PROVE  OpenIsGranted' /\ SlotsKnow'
  BY <1>2, SessionReadVouched, SessionOpenVouched, StartJobVouched, EndVouched,
     UnlockVouched, LockVouched DEF RequestStep
<1>3. CASE Edit \/ Tick \/ UNCHANGED svars
  <2>1. UNCHANGED <<sessions, granted, req>>
    BY <1>3 DEF Edit, Tick, svars
  <2> QED
    BY <1>1, <2>1 DEF Vouched, OpenIsGranted, SlotsKnow, Knows
<1> QED
  BY <1>1, <1>2, <1>3, ArriveVouched, EvictIdleVouched DEF SNext, Vouched

(* A request that waits at the client ends only by its own call, and gets  *)
(* through to a locked account only if that was granted while it ran.      *)
LEMMA CallVouched ==
  ASSUME Vouched, SNext, NEW q \in Slots, req[q].at = "client",
         req[q].ctx.source = "prompt", req'[q].status = 200
  PROVE  req[q].name \in req[q].seen
<1>1. req[q].status = 0 /\ DOMAIN req[q] = Fields /\ DOMAIN req = Slots
  BY DEF Vouched, SlotsKnow, Knows, IInv, SlotsTyped
<1>2. ASSUME NEW s \in Slots, NEW slot, s # q, SlotBecomes(s, slot) PROVE FALSE
  BY <1>1, <1>2 DEF SlotBecomes
<1>3. ASSUME NEW s \in Slots, s # q, RequestStep(s) PROVE FALSE
  <2>1. CASE \E slot : SlotBecomes(s, slot)
    BY <1>2, <1>3, <2>1
  <2>2. CASE \E status : Reply(s, status)
    BY <2>1, <2>2 DEF Reply
  <2>3. CASE Unlock(s) /\ ~\E status : Reply(s, status)
    <3>1. req'[q] = [req[q] EXCEPT !.seen = @ \cup {req[s].name}]
      BY <1>3, <2>3 DEF Unlock
    <3> QED
      BY <1>1, <3>1 DEF Fields
  <2>4. SessionRead(s) \/ SessionOpen(s) => \/ \E status : Reply(s, status)
                                            \/ \E slot : SlotBecomes(s, slot)
    BY DEF SessionRead, SessionOpen
  <2>5. StartJob(s) \/ InvokeCommand(s) \/ Call(s) \/ Lock(s) => \E status : Reply(s, status)
    BY DEF StartJob, InvokeCommand, Call, Lock
  <2>6. Finish(s) => \E slot : SlotBecomes(s, slot)
    BY DEF Finish, SlotBecomes
  <2> QED
    BY <1>3, <2>1, <2>2, <2>3, <2>4, <2>5, <2>6 DEF RequestStep
<1>4. ASSUME NEW s \in Slots, NEW r \in Requests, Arrive(s, r) PROVE FALSE
  <2>1. s # q /\ \E slot : SlotBecomes(s, slot)
    BY <1>4 DEF Arrive
  <2> QED
    BY <1>2, <2>1
<1>5. CASE EvictIdle \/ Tick \/ Edit
  <2>1. UNCHANGED req
    BY <1>5 DEF EvictIdle, Tick, Edit
  <2>2. req'[q].status = 0
    BY <1>1, <2>1
  <2> QED
    BY <2>2
<1>6. CASE RequestStep(q)
  <2>1. Call(q)
    BY <1>6 DEF RequestStep, SessionRead, SessionOpen, StartJob, InvokeCommand, Unlock,
                Lock, Finish
  <2>2. CASE ~req[q].ctx.unlocked
    <3>1. Reply(q, 423) \/ Reply(q, 403)
      BY <2>1, <2>2 DEF Call
    <3>2. ASSUME NEW status, Reply(q, status) PROVE req'[q].status = status
      <4>1. req'[q] = Answer(req[q], status)
        BY <1>1, <3>2 DEF Reply, SlotBecomes
      <4>2. Answer(req[q], status).status = status
        BY <1>1 DEF Answer, Fields
      <4> QED
        BY <4>1, <4>2
    <3>3. req'[q].status = 423 \/ req'[q].status = 403
      BY <3>1, <3>2
    <3> QED
      BY <3>3
  <2>3. CASE req[q].ctx.unlocked
    BY <2>3 DEF Vouched, SlotsKnow, Knows
  <2> QED
    BY <2>2, <2>3
<1> QED
  BY <1>3, <1>4, <1>5, <1>6 DEF SNext

(* After a lock no request that starts later gets through to an account    *)
(* whose passphrase has to be typed, unless it was unlocked again.         *)
THEOREM LocksHold == Distinct => (SessionSpec => LockHolds)
<1> SUFFICES ASSUME Distinct PROVE SessionSpec => LockHolds
  OBVIOUS
<1> DEFINE A == \A q \in Slots :
                   req[q].at = "client" /\ req[q].ctx.source = "prompt"
                   /\ req'[q].status = 200 => req[q].name \in req[q].seen
<1>1. Vouched /\ [SNext]_svars => Vouched'
  BY StepVouched
<1>2. Vouched /\ SNext => A
  BY CallVouched
<1> HIDE DEF A
<1>3. Vouched /\ [SNext]_svars => [A]_svars
  BY <1>2
<1>4. SessionSpec => [][A]_svars
  BY <1>1, <1>3, InitVouched, PTL DEF SessionSpec
<1> QED
  BY <1>4 DEF A, LockHolds

-----------------------------------------------------------------------------
(* App tokens: what is cached under the file's modification time is what   *)
(* the file says, as long as no two writes share one.                      *)

LookFields == {"at", "label", "tick", "records", "quiet", "found"}

TicksTyped ==
    /\ file.tick \in Nat /\ cache.tick \in Nat
    /\ DOMAIN look = Lookups
    /\ \A k \in Lookups : DOMAIN look[k] = LookFields /\ look[k].tick \in Nat

(* No time read from the file is ahead of the file's.                      *)
NotAhead ==
    /\ cache.tick <= file.tick
    /\ \A k \in Lookups : look[k].tick <= file.tick

CacheFits == cache.filled /\ cache.tick = file.tick => cache.records = Load

LookFits(k) ==
    /\ look[k].at = "read" /\ look[k].tick = file.tick => look[k].records = Load
    /\ look[k].quiet => look[k].tick = file.tick /\ file.whole

TInv == TicksTyped /\ NotAhead /\ CacheFits /\ \A k \in Lookups : LookFits(k)

(* Nothing is cached at first.                                             *)
LEMMA TokensInit == TInit => TInv
<1> SUFFICES ASSUME TInit PROVE TInv
  OBVIOUS
<1>1. DOMAIN NoLook = LookFields /\ NoLook.tick = 0 /\ NoLook.at = "idle" /\ ~NoLook.quiet
  BY DEF NoLook, LookFields
<1> QED
  BY <1>1 DEF TInit, TInv, TicksTyped, NotAhead, CacheFits, LookFits

(* A write moves the file ahead of every time taken before it.             *)
LEMMA WriteFits ==
  ASSUME ~Coarse, TInv, NEW whole, NEW records, Write(whole, records)
  PROVE  TInv'
<1>1. file'.tick = file.tick + 1 /\ UNCHANGED cache
  BY DEF Write, Ticks
<1>2. DOMAIN look' = Lookups
  BY DEF Write
<1>3. ASSUME NEW k \in Lookups
      PROVE  /\ DOMAIN look'[k] = LookFields /\ look'[k].tick = look[k].tick
             /\ ~look'[k].quiet
  BY DEF Write, TInv, TicksTyped, LookFields
<1> QED
  BY <1>1, <1>2, <1>3 DEF TInv, TicksTyped, NotAhead, CacheFits, LookFits

(* A lookup that moves without a write.                                    *)
LEMMA LookStep ==
  ASSUME TInv, UNCHANGED file, NEW k \in Lookups, NEW l, look' = [look EXCEPT ![k] = l],
         DOMAIN l = LookFields, l.tick \in Nat, l.tick <= file.tick,
         l.at = "read" /\ l.tick = file.tick => l.records = Load,
         l.quiet => l.tick = file.tick /\ file.whole,
         cache'.tick \in Nat, cache'.tick <= file.tick,
         cache'.filled /\ cache'.tick = file.tick => cache'.records = Load
  PROVE  TInv'
<1>1. DOMAIN look' = Lookups /\ look'[k] = l /\ \A j \in Lookups \ {k} : look'[j] = look[j]
  BY DEF TInv, TicksTyped
<1>2. Load' = Load
  BY DEF Load
<1>3. ASSUME NEW j \in Lookups
      PROVE  /\ DOMAIN look'[j] = LookFields /\ look'[j].tick \in Nat
             /\ look'[j].tick <= file.tick
             /\ look'[j].at = "read" /\ look'[j].tick = file.tick => look'[j].records = Load
             /\ look'[j].quiet => look'[j].tick = file.tick /\ file.whole
  BY <1>1 DEF TInv, TicksTyped, NotAhead, LookFits
<1> HIDE DEF Load
<1> QED
  BY <1>1, <1>2, <1>3 DEF TInv, TicksTyped, NotAhead, CacheFits, LookFits

(* The cache itself is no newer than the file.                             *)
LEMMA CacheStays ==
  ASSUME TInv, UNCHANGED <<file, cache>>
  PROVE  /\ UNCHANGED file /\ cache'.tick \in Nat /\ cache'.tick <= file.tick
         /\ cache'.filled /\ cache'.tick = file.tick => cache'.records = Load
  BY DEF TInv, TicksTyped, NotAhead, CacheFits

(* The time is taken before the file is read: what is read is cached under *)
(* a time that is the file's only if nobody wrote in between.              *)
LEMMA TokensStep ==
  ASSUME ~Coarse, TInv, [TNext]_kvars
  PROVE  TInv'
<1>1. ASSUME NEW e \in Editors, NEW l \in Labels, Create(e, l) \/ Revoke(e, l)
      PROVE  TInv'
  BY <1>1 DEF Create, Revoke, TInv, TicksTyped, NotAhead, CacheFits, LookFits, Load
<1>2. ASSUME NEW e \in Editors, Truncate(e) \/ Save(e)
      PROVE  TInv'
  BY <1>2, WriteFits DEF Truncate, Save
<1>3. ASSUME NEW k \in Lookups, NEW l \in Labels, LookupStat(k, l)
      PROVE  TInv'
  <2> DEFINE next == [NoLook EXCEPT !.at = "stat", !.label = l,
                                    !.tick = file.tick, !.quiet = file.whole]
  <2>1. /\ DOMAIN next = LookFields /\ next.at = "stat" /\ next.tick = file.tick
        /\ next.quiet = file.whole
    BY DEF NoLook, LookFields
  <2>2. look' = [look EXCEPT ![k] = next] /\ UNCHANGED <<file, cache>>
    BY <1>3 DEF LookupStat
  <2> HIDE DEF next
  <2>3. /\ next.tick \in Nat /\ next.tick <= file.tick
        /\ next.quiet => next.tick = file.tick /\ file.whole
    BY <2>1 DEF TInv, TicksTyped
  <2> QED
    BY <2>1, <2>2, <2>3, CacheStays, LookStep
<1>4. ASSUME NEW k \in Lookups, LookupRead(k)
      PROVE  TInv'
  <2> DEFINE records == IF Stale(k) THEN Load ELSE cache.records
             next == [look[k] EXCEPT !.at = "read", !.records = records]
  <2>1. /\ DOMAIN next = LookFields /\ next.at = "read" /\ next.tick = look[k].tick
        /\ next.quiet = look[k].quiet /\ next.records = records
    BY DEF TInv, TicksTyped, LookFields
  <2>2. look[k].tick = file.tick => records = Load
    BY DEF Stale, TInv, CacheFits
  <2>3. look' = [look EXCEPT ![k] = next] /\ UNCHANGED <<file, cache>>
    BY <1>4 DEF LookupRead, TInv, TicksTyped
  <2> HIDE DEF next, records
  <2>4. /\ next.tick \in Nat /\ next.tick <= file.tick
        /\ next.tick = file.tick => next.records = Load
        /\ next.quiet => next.tick = file.tick /\ file.whole
    BY <2>1, <2>2 DEF TInv, TicksTyped, NotAhead, LookFits
  <2> QED
    BY <2>1, <2>3, <2>4, CacheStays, LookStep
<1>5. ASSUME NEW k \in Lookups, LookupAnswer(k)
      PROVE  TInv'
  <2> DEFINE next == [NoLook EXCEPT !.label = look[k].label,
                                    !.found = look[k].label \in look[k].records]
  <2>1. DOMAIN next = LookFields /\ next.at = "idle" /\ next.tick = 0 /\ ~next.quiet
    BY DEF NoLook, LookFields
  <2>2. /\ look' = [look EXCEPT ![k] = next] /\ UNCHANGED file
        /\ cache'.records = look[k].records
        /\ cache'.tick = look[k].tick \/ (cache'.tick = cache.tick /\ ~Stale(k))
    BY <1>5 DEF LookupAnswer, CachedUnder
  <2>3. cache'.tick = look[k].tick
    BY <2>2 DEF Stale
  <2>4. look[k].tick = file.tick => look[k].records = Load
    BY <1>5 DEF LookupAnswer, TInv, LookFits
  <2> HIDE DEF next
  <2>5. next.tick \in Nat /\ next.tick <= file.tick
    BY <2>1 DEF TInv, TicksTyped
  <2>6. /\ cache'.tick \in Nat /\ cache'.tick <= file.tick
        /\ cache'.tick = file.tick => cache'.records = Load
    BY <2>2, <2>3, <2>4 DEF TInv, TicksTyped, NotAhead
  <2> QED
    BY <2>1, <2>2, <2>5, <2>6, LookStep
<1>6. CASE UNCHANGED kvars
  BY <1>6 DEF kvars, TInv, TicksTyped, NotAhead, CacheFits, LookFits, Load
<1> QED
  BY <1>1, <1>2, <1>3, <1>4, <1>5, <1>6 DEF TNext

(* Where no two writes fall into one tick of the file's modification time, *)
(* creating and revoking a token take effect at once: a lookup during which*)
(* nobody writes answers by what the file says.                            *)
THEOREM LookupsAreCurrent == ~Coarse => (TokenSpec => LookupSeesLastWrite)
<1> SUFFICES ASSUME ~Coarse PROVE TokenSpec => LookupSeesLastWrite
  OBVIOUS
<1> DEFINE A == \A k \in Lookups :
                   LookupAnswer(k) /\ look[k].quiet
                   => (look'[k].found <=> look[k].label \in file.records)
<1>1. TInv /\ [TNext]_kvars => TInv'
  BY TokensStep
<1>2. TInv => A
  <2> SUFFICES ASSUME TInv, NEW k \in Lookups, LookupAnswer(k), look[k].quiet
               PROVE  look'[k].found <=> look[k].label \in file.records
    OBVIOUS
  <2>1. look[k].records = file.records
    BY DEF LookupAnswer, TInv, LookFits, Load
  <2>2. look'[k].found = (look[k].label \in look[k].records)
    BY DEF LookupAnswer, NoLook, TInv, TicksTyped
  <2> QED
    BY <2>1, <2>2
<1> HIDE DEF A
<1>3. TInv /\ [TNext]_kvars => [A]_kvars
  BY <1>2
<1>4. TokenSpec => [][A]_kvars
  BY <1>1, <1>3, TokensInit, PTL DEF TokenSpec
<1> QED
  BY <1>4 DEF A, LookupSeesLastWrite

-----------------------------------------------------------------------------
(* The process: a daemon's files are safe because it holds the run lock    *)
(* from before it writes the first of them until it has removed the last.  *)

Holding == Daemon \ {"spawned"}
Recorded == {"recorded", "cleared", "bound", "serving", "stopping", "unlinked"}

(* The files a daemon has written by the stage it is in; a new one has     *)
(* written none, and its PID is not the one an earlier run left.           *)
Owns ==
    \A d \in Pids :
       /\ proc[d] \in Holding => lock = d
       /\ proc[d] \in Recorded => pidfile = d
       /\ proc[d] \in {"bound", "serving", "stopping"} => sock = d
       /\ proc[d] = "serving" => token = d
       /\ proc[d] = "spawned" => pidfile # d

(* A command that found the lock free holds it until it gives it back.     *)
Probes == \A c \in Cmds : cmd[c].at = "free" => lock = c

ProcessInv == TypeOK /\ Owns /\ Probes

USE DEF Daemon, Starting, Stopping, Command

(* What a command that is not under way holds.                             *)
LEMMA IdleType == Idle \in Command /\ Idle.at = "idle"
  BY DEF Idle

(* No process, no file: the invariant holds at first.                      *)
THEOREM AgentInit == Init => ProcessInv
<1> SUFFICES ASSUME Init PROVE ProcessInv
  OBVIOUS
<1>1. proc \in [Pids -> Daemon \cup {"none", "other"}] /\ Owns
  BY PidsAssumption DEF Init, Owns, Holding, Recorded
<1>2. cmd \in [Cmds -> Command]
  BY IdleType DEF Init
<1>3. \A c \in Cmds : cmd[c].at \in {"wait", "signal"} => cmd[c].pid # None
  BY IdleType DEF Init
<1>4. Probes
  BY IdleType DEF Init, Probes
<1>5. trouble \in 0 .. MaxTrouble
  BY MaxTroubleAssumption, SMT DEF Init
<1>6. struck \in BOOLEAN
  BY Zenon DEF Init
<1> QED BY <1>1, <1>2, <1>3, <1>4, <1>5, <1>6 DEF ProcessInv, TypeOK, Init

(* A daemon writes and removes files only under its lock.                  *)
LEMMA DaemonKeeps ==
    ASSUME ProcessInv, NEW d \in Pids, DaemonStep(d)
    PROVE  ProcessInv'
<1>1. CASE AcquireRunLock(d)
  BY <1>1, PidsAssumption DEF AcquireRunLock, Becomes, disk, ProcessInv, TypeOK, Owns, Probes, Holding, Recorded
<1>2. CASE RecordPid(d)
  BY <1>2, PidsAssumption DEF RecordPid, Becomes, ProcessInv, TypeOK, Owns, Probes, Holding, Recorded
<1>3. CASE BindSocket(d)
  BY <1>3, PidsAssumption DEF BindSocket, Becomes, ProcessInv, TypeOK, Owns, Probes, Holding, Recorded
<1>4. CASE Serve(d)
  BY <1>4, PidsAssumption DEF Serve, Becomes, ProcessInv, TypeOK, Owns, Probes, Holding, Recorded
<1>5. CASE Shutdown(d)
  BY <1>5, PidsAssumption DEF Shutdown, Becomes, ProcessInv, TypeOK, Owns, Probes, Holding, Recorded
<1> QED BY <1>1, <1>2, <1>3, <1>4, <1>5 DEF DaemonStep

(* Processes that end or come leave the files of the others alone.         *)
LEMMA SystemKeeps ==
    ASSUME ProcessInv, NEW d \in Pids, Crash(d) \/ ReusePid(d) \/ OtherEnds(d)
    PROVE  ProcessInv'
<1>1. CASE Crash(d)
  BY <1>1, PidsAssumption, MaxTroubleAssumption
     DEF Crash, Trouble, Dies, Becomes, disk, ProcessInv, TypeOK, Owns, Probes, Holding, Recorded
<1>2. CASE ReusePid(d)
  BY <1>2, PidsAssumption, MaxTroubleAssumption
     DEF ReusePid, Trouble, Becomes, disk, ProcessInv, TypeOK, Owns, Probes, Holding, Recorded
<1>3. CASE OtherEnds(d)
  BY <1>3, PidsAssumption DEF OtherEnds, Becomes, disk, ProcessInv, TypeOK, Owns, Probes, Holding, Recorded
<1> QED BY <1>1, <1>2, <1>3

(* A command never writes a file; of the lock it takes only a free one and *)
(* gives back only its own.                                                *)
LEMMA CommandKeeps ==
    ASSUME ProcessInv, NEW c \in Cmds, CommandStep(c)
    PROVE  ProcessInv'
<1>1. CASE RunLockHeld(c)
  BY <1>1, PidsAssumption DEF RunLockHeld, Goto, disk, ProcessInv, TypeOK, Owns, Probes, Holding, Recorded
<1>2. CASE NotRunning(c)
  <2>1. cmd' \in [Cmds -> Command]
    BY <1>2, IdleType DEF NotRunning, Goto, Return, ProcessInv, TypeOK
  <2>2. \A x \in Cmds : cmd'[x].at \in {"wait", "signal"} => cmd'[x].pid # None
    BY <1>2, IdleType DEF NotRunning, Goto, Return, ProcessInv, TypeOK
  <2>3. Probes'
    BY <1>2, IdleType DEF NotRunning, Goto, Return, ProcessInv, TypeOK, Probes
  <2>4. lock = c
    BY <1>2 DEF NotRunning, ProcessInv, Probes
  <2> QED BY <1>2, <2>1, <2>2, <2>3, <2>4, PidsAssumption
             DEF NotRunning, disk, ProcessInv, TypeOK, Owns, Probes, Holding, Recorded
<1>3. CASE Running(c)
  BY <1>3, PidsAssumption DEF Running, Return, Idle, disk, ProcessInv, TypeOK, Owns, Probes, Holding, Recorded
<1>4. CASE ReadPid(c)
  <2>1. CASE pidfile = None
    BY <1>4, <2>1, IdleType
       DEF ReadPid, Return, disk, ProcessInv, TypeOK, Owns, Probes
  <2>2. CASE pidfile # None
    <3> DEFINE stale == lock \notin {None, pidfile}
    <3>1. stale \in BOOLEAN
      OBVIOUS
    <3>2. cmd' = [cmd EXCEPT ![c].at = "signal", ![c].pid = pidfile,
                             ![c].stale = stale]
      BY <1>4, <2>2 DEF ReadPid
    <3> HIDE DEF stale
    <3>3. /\ cmd' \in [Cmds -> Command]
          /\ \A x \in Cmds : cmd'[x].at \in {"wait", "signal"} => cmd'[x].pid # None
          /\ Probes'
      BY <1>4, <2>2, <3>1, <3>2 DEF ReadPid, ProcessInv, TypeOK, Probes
    <3> QED BY <1>4, <3>3 DEF ReadPid, disk, ProcessInv, TypeOK, Owns
  <2> QED BY <2>1, <2>2
<1>5. CASE Stop(c)
  BY <1>5, PidsAssumption DEF Stop, Dies, Becomes, Return, Idle, disk, ProcessInv, TypeOK, Owns, Probes, Holding, Recorded
<1>6. CASE Spawn(c)
  BY <1>6, PidsAssumption DEF Spawn, Becomes, disk, ProcessInv, TypeOK, Owns, Probes, Holding, Recorded
<1>7. CASE Ready(c)
  BY <1>7, PidsAssumption DEF Ready, Return, Idle, disk, ProcessInv, TypeOK, Owns, Probes, Holding, Recorded
<1>8. CASE GiveUp(c)
  BY <1>8, PidsAssumption, MaxTroubleAssumption
     DEF GiveUp, Trouble, Return, Idle, disk, ProcessInv, TypeOK, Owns, Probes, Holding, Recorded
<1> QED BY <1>1, <1>2, <1>3, <1>4, <1>5, <1>6, <1>7, <1>8 DEF CommandStep

(* The invariant is inductive.                                             *)
THEOREM AgentNext == ProcessInv /\ [Next]_vars => ProcessInv'
<1> SUFFICES ASSUME ProcessInv, [Next]_vars PROVE ProcessInv'
  OBVIOUS
<1>1. CASE \E d \in Pids : DaemonStep(d)
  BY <1>1, DaemonKeeps
<1>2. CASE \E d \in Pids : Crash(d) \/ ReusePid(d) \/ OtherEnds(d)
  BY <1>2, SystemKeeps
<1>3. CASE \E c \in Cmds : CommandStep(c)
  BY <1>3, CommandKeeps
<1>4. ASSUME NEW c \in Cmds, NEW does \in {"start", "stop", "status"}, Invoke(c, does)
      PROVE  ProcessInv'
  <2> DEFINE new == [Idle EXCEPT !.does = does, !.at = "probe"]
  <2>1. new \in Command /\ new.at = "probe"
    BY DEF Idle
  <2>2. cmd' = [cmd EXCEPT ![c] = new]
    BY <1>4 DEF Invoke
  <2> HIDE DEF new
  <2>3. /\ cmd' \in [Cmds -> Command]
        /\ \A x \in Cmds : cmd'[x].at \in {"wait", "signal"} => cmd'[x].pid # None
        /\ Probes'
    BY <1>4, <2>1, <2>2 DEF Invoke, ProcessInv, TypeOK, Probes
  <2>4. trouble' \in 0 .. MaxTrouble
    BY <1>4, MaxTroubleAssumption DEF Invoke, Trouble, ProcessInv, TypeOK
  <2> QED BY <1>4, <2>3, <2>4 DEF Invoke, disk, ProcessInv, TypeOK, Owns
<1>5. CASE UNCHANGED vars
  BY <1>5 DEF vars, disk, ProcessInv, TypeOK, Owns, Probes
<1> QED BY <1>1, <1>2, <1>3, <1>4, <1>5 DEF Next

(* The invariant holds in every state of the specification.                *)
THEOREM AgentInvariant == Spec => []ProcessInv
<1> QED BY AgentInit, AgentNext, PTL DEF Spec

(* Every variable keeps its type.                                          *)
THEOREM AgentTypeCorrect == Spec => []TypeOK
<1>1. ProcessInv => TypeOK
  BY DEF ProcessInv
<1> QED BY <1>1, AgentInvariant, PTL

(* While a daemon serves, the socket, the PID file and the token file are  *)
(* its own.                                                                *)
THEOREM ServingStaysReachable == Spec => []ServingIsReachable
<1>1. ProcessInv => ServingIsReachable
  BY DEF ProcessInv, Owns, Recorded, ServingIsReachable
<1> QED BY <1>1, AgentInvariant, PTL

(* When `start` reports an agent, the daemon it spawned has the run lock,  *)
(* or has ended since: the PID file it waits for names that daemon, which  *)
(* writes it under its lock.                                               *)
THEOREM StartNamesTheHolder == Spec => StartedHasLock
<1>1. ASSUME ProcessInv, NEW c \in Cmds, Ready(c)
      PROVE  lock = cmd[c].pid \/ proc[cmd[c].pid] \notin Daemon
  <2>1. cmd[c].pid = pidfile /\ pidfile \in Pids
    BY <1>1 DEF Ready, ProcessInv, TypeOK
  <2> QED BY <1>1, <2>1 DEF ProcessInv, Owns, Holding
<1>2. ProcessInv => [\A c \in Cmds : Ready(c)
         => \/ lock = cmd[c].pid
            \/ proc[cmd[c].pid] \notin Daemon]_vars
  BY <1>1
<1> QED BY <1>2, AgentInvariant, PTL DEF StartedHasLock
================================================================================
