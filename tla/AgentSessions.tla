----------------------------- MODULE AgentSessions ----------------------------
(***************************************************************************)
(* What the running agent does with requests: the routes and their gates   *)
(* (src/session/rpc.rs) and the map of unlocked accounts behind them       *)
(* (AgentBackend in src/session/agent.rs).  Requests overlap at every      *)
(* await; the configuration is edited by other commands meanwhile; idle    *)
(* sessions are evicted by a sweeper.                                      *)
(***************************************************************************)
EXTENDS Integers, FiniteSets, Sequences

CONSTANTS Accounts,     \* names of accounts
          Slots,        \* requests that may be in flight at once
          Nothing,      \* no account, no session
          Requests,     \* the requests clients send (subset of Request)
          TcpExternal,  \* whether allow_external_over_tcp is set
          Timeout,      \* idle_timeout, in ticks of the clock
          MaxEdits      \* bound on edits of the configuration

(* A caller's token: what it may do, and the account it is bound to.       *)
(* "admin" is the bootstrap token, "app" one of agent-tokens.json.         *)
Token == [kind : {"admin", "app", "unknown"},
          scopes : SUBSET {"api", "config", "invoke", "hosts"},
          bound : Accounts \cup {Nothing}]

Routes == {"api", "external", "config", "accounts", "invoke", "start_job",
           "list_jobs", "unknown"}
AdminRoutes == {"unlock", "lock", "lock_all", "status", "unknown_admin"}

(* `body`: readable; without what the route asks for; no JSON; too long.   *)
(* `narrowed`: the marketplace and settings headers: none, one of the      *)
(* account's, several of them, one it does not have, or not readable.      *)
Request == [token : Token, trusted : BOOLEAN, route : Routes \cup AdminRoutes,
            account : Accounts \cup {Nothing}, body : {"ok", "unfit", "garbled", "huge"},
            narrowed : {"no", "one", "many", "foreign", "garbled"}]

(* A Ctx as built for a session: how the account opens, as configured then;*)
(* whether the auth file is open.                                          *)
Session == [source : {"prompt", "file"}, unlocked : BOOLEAN]

VARIABLES
    config,     \* config.toml: each account's password source, approved host
    sessions,   \* the session map
    age,        \* ticks since a session was last touched
    jobs,       \* owners of the jobs started so far
    req,        \* each slot's request
    granted,    \* history: an unlock has succeeded, nothing undid it
    edits       \* edits so far (bound)

svars == <<config, sessions, age, jobs, req, granted, edits>>

(* `seen`: the accounts that were unlocked at some point of the request.   *)
Slot == [r : Requests, at : {"free", "session", "open", "client", "again", "child",
                             "kdf", "lock", "done"},
         name : Accounts \cup {Nothing}, ctx : Session \cup {Nothing},
         status : {0, 200, 202, 400, 401, 403, 404, 413, 423, 500},
         seen : SUBSET Accounts]

(* The variables stay in their sets, whatever the steps.                   *)
SessionsTypeOK ==
    /\ config \in [source : [Accounts -> {"prompt", "file", Nothing}],
                   approved : BOOLEAN, default : Accounts \cup {Nothing}]
    /\ sessions \in [Accounts -> Session \cup {Nothing}]
    /\ age \in [Accounts -> 0 .. Timeout + 1]
    /\ jobs \subseteq Accounts
    /\ req \in [Slots -> Slot]
    /\ granted \in [Accounts -> BOOLEAN]
    /\ edits \in 0 .. MaxEdits

-----------------------------------------------------------------------------
(* Deciding about a request.                                               *)

(* The admin token is good for every scope, but only over the socket; over *)
(* TCP it is a token no record has.                                        *)
Authenticated(r) ==
    \/ r.token.kind = "admin" /\ r.trusted
    \/ r.token.kind = "app"

Scopes(r) == IF r.token.kind = "admin" THEN {"api", "config", "invoke", "hosts"}
                                       ELSE r.token.scopes

(* What `route` answers before any route runs; 0: go on.                   *)
Gate(r) ==
    CASE r.route \in AdminRoutes /\ ~r.trusted -> 403
      [] r.route \in AdminRoutes /\ r.token.kind # "admin" -> 401
      [] r.route \in AdminRoutes -> 0
      [] ~Authenticated(r) -> 401
      [] r.narrowed = "garbled" -> 400
      [] OTHER -> 0

Needs(route) ==
    CASE route \in {"api", "external"} -> {"api"}
      [] route \in {"config", "accounts"} -> {"config"}
      [] route \in {"invoke", "start_job", "list_jobs"} -> {"invoke"}
      [] OTHER -> {}

HasBody == {"api", "external", "invoke", "start_job", "unlock", "lock", "lock_all"}

ReadBody(r) ==
    CASE r.route \notin HasBody -> 0
      [] r.body = "huge" -> 413
      [] r.body = "garbled" -> 400
      [] OTHER -> 0

(* An array of strings that begins with a built-in command.                *)
ParseInvoke(r) ==
    IF r.route \in {"invoke", "start_job"} /\ r.body = "unfit" THEN 400 ELSE 0

(* A path or an https URL, and a method; unlock: a passphrase.             *)
Target(r) ==
    IF r.route \in {"api", "external", "unlock"} /\ r.body = "unfit" THEN 400 ELSE 0

First(statuses) == IF \E i \in DOMAIN statuses : statuses[i] # 0
                   THEN statuses[CHOOSE i \in DOMAIN statuses :
                                   statuses[i] # 0 /\ \A j \in 1 .. i - 1 : statuses[j] = 0]
                   ELSE 0

Scoped(r) ==
    CASE r.route = "unknown" -> 404
      [] ~(Needs(r.route) \subseteq Scopes(r)) -> 403
      [] OTHER -> 0

AdminRoute(r) == IF r.route = "unknown_admin" THEN 404 ELSE 0

(* The account a request is about; Nothing is the server's default.        *)
EffectiveAccount(r) ==
    IF r.token.bound # Nothing THEN r.token.bound ELSE r.account

Foreign(r) == /\ r.token.bound # Nothing /\ r.account # Nothing
              /\ r.token.bound # r.account

(* Whose jobs a caller sees: without an account everyone's, and then no    *)
(* other selector makes sense.                                             *)
JobsOfAll(r) == r.route = "list_jobs" /\ EffectiveAccount(r) = Nothing

Decision(r) ==
    LET first == First(<<Gate(r),
                         IF r.route \in AdminRoutes THEN AdminRoute(r) ELSE Scoped(r),
                         ReadBody(r), ParseInvoke(r), Target(r)>>)
    IN CASE first # 0 -> first
         [] r.route = "accounts" -> 200
         [] r.route \notin AdminRoutes /\ Foreign(r) -> 403
         [] JobsOfAll(r) -> IF r.narrowed = "no" THEN 200 ELSE 400
         [] OTHER -> 0

(* The selectors are held against the session's copy of the configuration. *)
SelectorsFit(r) == r.narrowed # "foreign"

-----------------------------------------------------------------------------
(* The configuration decides about names afresh with every request.        *)

Configured == {a \in Accounts : config.source[a] # Nothing}

(* Nothing if there is no such account, no default, or a choice to be made.*)
AccountName(a) ==
    CASE a # Nothing -> IF a \in Configured THEN a ELSE Nothing
      [] config.default # Nothing -> config.default
      [] Cardinality(Configured) = 1 -> CHOOSE b \in Configured : TRUE
      [] OTHER -> Nothing

BuildCtx(name) == [source |-> config.source[name], unlocked |-> FALSE]

AllowedHosts == config.approved

Free == [at |-> "free", r |-> CHOOSE r \in Requests : TRUE, name |-> Nothing,
         ctx |-> Nothing, status |-> 0, seen |-> {}]

SInit ==
    /\ \E s \in [Accounts -> {"prompt", "file"}] :
          config = [source |-> s, approved |-> TRUE, default |-> Nothing]
    /\ sessions = [a \in Accounts |-> Nothing]
    /\ age = [a \in Accounts |-> 0]
    /\ jobs = {}
    /\ req = [q \in Slots |-> Free]
    /\ granted = [a \in Accounts |-> FALSE]
    /\ edits = 0

Answer(slot, status) ==
    [slot EXCEPT !.at = "done", !.status = status, !.ctx = Nothing, !.seen = {}]

SlotBecomes(q, slot) == req' = [req EXCEPT ![q] = slot]

Reply(q, status) == SlotBecomes(q, Answer(req[q], status))

Touch(name) ==
    age' = [age EXCEPT ![name] = 0]

(* The handler up to its first await: a request is refused, answered, or   *)
(* goes on to the session map.                                             *)
Arrive(q, r) ==
    LET new == [Free EXCEPT !.r = r, !.seen = {a \in Accounts : granted[a]}]
        name == AccountName(r.account)
    IN /\ req[q].at = "free"
       /\ SlotBecomes(q,
            CASE Decision(r) # 0 -> Answer(new, Decision(r))
              [] r.route = "unlock" ->
                    IF name = Nothing THEN Answer(new, 400)
                    ELSE [new EXCEPT !.at = "kdf", !.name = name, !.ctx = BuildCtx(name)]
              [] r.route \in {"lock", "lock_all"} -> [new EXCEPT !.at = "lock"]
              [] r.route = "status" -> Answer(new, 200)
              [] OTHER -> [new EXCEPT !.at = "session"])
       /\ UNCHANGED <<config, sessions, age, jobs, granted, edits>>

(* A job is queued under the name select_session answered with.            *)
Queued(slot) == [slot EXCEPT !.at = "again"]

(* A command runs as a child with that account's selectors before its own. *)
Child(slot) == [slot EXCEPT !.at = "child"]

(* The effective settings of the account, without secrets.                 *)
ConfigResolved(slot) == Answer(slot, 200)

(* select_session's checks of the selectors, then where the route goes.    *)
Selected(slot, ctx) ==
    LET r == slot.r
    IN CASE ~SelectorsFit(r) -> Answer(slot, 400)
         [] r.route \in {"api", "external"} ->
               IF r.narrowed = "many" THEN Answer(slot, 400)
               ELSE [slot EXCEPT !.at = "client", !.ctx = ctx]
         [] r.route = "start_job" -> Queued(slot)
         [] r.route = "invoke" -> Child(slot)
         [] OTHER -> ConfigResolved(slot)

(* The read lock: the account is named by the configuration of now, the    *)
(* session may be from before.                                             *)
SessionRead(q) ==
    LET name == AccountName(EffectiveAccount(req[q].r))
        slot == [req[q] EXCEPT !.name = name]
    IN /\ req[q].at = "session"
       /\ IF name = Nothing
          THEN Reply(q, 400) /\ UNCHANGED age
          ELSE IF sessions[name] = Nothing
               THEN SlotBecomes(q, [slot EXCEPT !.at = "open"]) /\ UNCHANGED age
               ELSE SlotBecomes(q, Selected(slot, sessions[name])) /\ Touch(name)
       /\ UNCHANGED <<config, sessions, jobs, granted, edits>>

(* Seeded fault: the map is not looked at again under the write lock.      *)
StillMissingUnchecked(name) == TRUE

(* Another request may have opened, or unlocked, the account meanwhile.    *)
StillMissing(name) == sessions[name] = Nothing

(* An account that has gone since gets no session that answers.            *)
SessionOpen(q) ==
    LET name == req[q].name
        ctx == IF StillMissing(name) THEN BuildCtx(name) ELSE sessions[name]
    IN /\ req[q].at = "open"
       /\ IF name \notin Configured
          THEN Reply(q, 400) /\ UNCHANGED <<sessions, age>>
          ELSE /\ sessions' = [sessions EXCEPT ![name] = ctx]
               /\ SlotBecomes(q, Selected(req[q], ctx))
               /\ Touch(name)
       /\ UNCHANGED <<config, jobs, granted, edits>>

(* A job resolves the session once more, by the name it was selected under.*)
StartJob(q) ==
    LET name == req[q].name
    IN /\ req[q].at = "again"
       /\ IF name \notin Configured
          THEN Reply(q, 500) /\ UNCHANGED <<sessions, age, jobs>>
          ELSE /\ sessions' = IF sessions[name] = Nothing
                              THEN [sessions EXCEPT ![name] = BuildCtx(name)]
                              ELSE sessions
               /\ Touch(name)
               /\ jobs' = jobs \cup {name}
               /\ Reply(q, 202)
       /\ UNCHANGED <<config, granted, edits>>

(* The command runs as a child under the account's name, if it starts.     *)
InvokeCommand(q) ==
    /\ req[q].at = "child"
    /\ Reply(q, 200) \/ Reply(q, 500)
    /\ UNCHANGED <<config, sessions, age, jobs, granted, edits>>

(* The hosts scope, the opt-in for TCP, the allowlist.                     *)
ExternalRefused(r) == "hosts" \notin Scopes(r) \/ ~(r.trusted \/ TcpExternal) \/ ~AllowedHosts

(* Nobody can be asked for a passphrase; the other sources open by         *)
(* themselves, or fail.  The allowlist is read right before the call; an   *)
(* error of the network is a 500.                                          *)
Call(q) ==
    /\ req[q].at = "client"
    /\ CASE ~req[q].ctx.unlocked /\ req[q].ctx.source = "prompt" -> Reply(q, 423)
         [] req[q].r.route = "external" /\ ExternalRefused(req[q].r) -> Reply(q, 403)
         [] OTHER -> Reply(q, 200) \/ Reply(q, 500)
    /\ UNCHANGED <<config, sessions, age, jobs, granted, edits>>

Finish(q) ==
    /\ req[q].at = "done"
    /\ req' = [req EXCEPT ![q] = Free]
    /\ UNCHANGED <<config, sessions, age, jobs, granted, edits>>

-----------------------------------------------------------------------------
(* The admin's unlock and lock, the sweeper, and the world around.         *)

(* The key is derived without the lock; a wrong passphrase changes nothing.*)
(* The configuration the new session carries is the one of the request.    *)
Unlock(q) ==
    LET name == req[q].name
    IN /\ req[q].at = "kdf"
       /\ \/ Reply(q, 400) /\ UNCHANGED <<sessions, age, granted>>
          \/ /\ sessions' = [sessions EXCEPT
                               ![name] = [req[q].ctx EXCEPT !.unlocked = TRUE]]
             /\ Touch(name)
             /\ granted' = [granted EXCEPT ![name] = TRUE]
             /\ req' = [s \in Slots |->
                          IF s = q THEN Answer(req[s], 200)
                          ELSE [req[s] EXCEPT !.seen = @ \cup {name}]]
       /\ UNCHANGED <<config, jobs, edits>>

(* Seeded fault: locking one account keeps a session that opens by itself, *)
(* judged by the configuration of now.                                     *)
LockedByNow(name) == IF config.source[name] = "file" THEN {} ELSE {name}

Locked(name) == {name}

Lock(q) ==
    LET r == req[q].r
        name == AccountName(r.account)
        dropped == IF r.route = "lock_all" THEN Accounts
                   ELSE IF name = Nothing THEN {} ELSE Locked(name)
    IN /\ req[q].at = "lock"
       /\ sessions' = [a \in Accounts |-> IF a \in dropped THEN Nothing ELSE sessions[a]]
       /\ granted' = [a \in Accounts |->
                        granted[a] /\ ~(r.route = "lock_all" \/ a = name)]
       /\ Reply(q, IF r.route = "lock" /\ name = Nothing THEN 500 ELSE 200)
       /\ UNCHANGED <<config, age, jobs, edits>>

(* The sweeper, once a minute.                                             *)
EvictIdle ==
    LET keep == {a \in Accounts : sessions[a] # Nothing /\ age[a] < Timeout}
    IN /\ \E a \in Accounts : sessions[a] # Nothing
       /\ sessions' = [a \in Accounts |-> IF a \in keep THEN sessions[a] ELSE Nothing]
       /\ granted' = [a \in Accounts |-> granted[a] /\ a \in keep]
       /\ UNCHANGED <<config, age, jobs, req, edits>>

(* Counted as long as it can make a difference.                            *)
Older(n) == IF n <= Timeout THEN n + 1 ELSE n

Tick ==
    /\ \E a \in Accounts : sessions[a] # Nothing /\ age[a] <= Timeout
    /\ age' = [a \in Accounts |-> IF sessions[a] = Nothing THEN 0 ELSE Older(age[a])]
    /\ UNCHANGED <<config, sessions, jobs, req, granted, edits>>

(* Other commands: an account comes, goes or changes its source; a host is *)
(* approved or withdrawn.                                                  *)
Edit ==
    /\ edits < MaxEdits /\ edits' = edits + 1
    /\ \/ \E a \in Accounts, s \in {"prompt", "file", Nothing} :
             /\ config' = [config EXCEPT !.source[a] = s,
                                         !.default = IF @ = a /\ s = Nothing THEN Nothing ELSE @]
       \/ config' = [config EXCEPT !.approved = ~@]
       \/ \E a \in Configured : config' = [config EXCEPT !.default = a]
    /\ config' # config
    /\ UNCHANGED <<sessions, age, jobs, req, granted>>

RequestStep(q) ==
    \/ SessionRead(q) \/ SessionOpen(q) \/ StartJob(q) \/ InvokeCommand(q) \/ Call(q)
    \/ Unlock(q) \/ Lock(q) \/ Finish(q)

SNext ==
    \/ \E q \in Slots, r \in Requests : Arrive(q, r)
    \/ \E q \in Slots : RequestStep(q)
    \/ EvictIdle \/ Tick \/ Edit

(* The clock runs and the sweeper with it; requests are served.            *)
SessionSpec == SInit /\ [][SNext]_svars /\ WF_svars(Tick) /\ WF_svars(EvictIdle)

-----------------------------------------------------------------------------

(* agent.rs:258, the second look under the write lock: a passphrase given  *)
(* once is good until a lock or an idle eviction.  No request that opens   *)
(* the account lazily at the same moment puts a locked session back.       *)
UnlockSticks ==
    \A a \in Accounts : granted[a] => sessions[a] # Nothing /\ sessions[a].unlocked

(* After `agent lock` no request that starts later gets through to an      *)
(* account whose passphrase has to be typed, unless it was unlocked again. *)
LockHolds ==
    [][\A q \in Slots :
          req[q].at = "client" /\ req[q].ctx.source = "prompt" /\ req'[q].status = 200
          => req[q].name \in req[q].seen]_svars

=============================================================================
