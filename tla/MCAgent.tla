-------------------------------- MODULE MCAgent --------------------------------
(***************************************************************************)
(* The three sides of the agent, each checked for itself: one of them      *)
(* moves, the others stay in their initial states.                         *)
(***************************************************************************)
EXTENDS AgentProcess, AgentSessions, AppTokens

CONSTANTS a, b    \* two accounts

VARIABLE side

Admin == [kind |-> "admin", scopes |-> {}, bound |-> Nothing]
App == [kind |-> "app", scopes |-> {"api", "hosts", "invoke"}, bound |-> Nothing]
Bound == [kind |-> "app", scopes |-> {"api", "config", "invoke"}, bound |-> a]
Wrong == [kind |-> "unknown", scopes |-> {}, bound |-> Nothing]
Plain(who, route) == [token |-> who, trusted |-> TRUE, route |-> route,
    account |-> Nothing, body |-> "ok", narrowed |-> "no"]
Of(request) == [request EXCEPT !.account = a]

MCRequests ==
    {Of(Plain(Admin, "unlock")), Of(Plain(Admin, "lock")), Plain(Admin, "lock_all"),
     Of(Plain(App, "api")), Of(Plain(App, "external")),
     Plain(Bound, "start_job"), [Plain(Bound, "api") EXCEPT !.account = b],
     Plain(Bound, "invoke"), [Plain(Admin, "unlock") EXCEPT !.trusted = FALSE],
     Plain(App, "list_jobs"), [Plain(Bound, "start_job") EXCEPT !.body = "unfit"]}

MCInit ==
    /\ Init /\ SInit /\ TInit /\ config.source[b] = "file"
    /\ side \in {"process", "sessions", "tokens"}
allvars == <<side, vars, svars, kvars>>

Process(A) == side = "process" /\ A /\ UNCHANGED <<side, svars, kvars>>
Serving(A) == side = "sessions" /\ A /\ UNCHANGED <<side, vars, kvars>>
Tokens(A) == side = "tokens" /\ A /\ UNCHANGED <<side, vars, svars>>

MCNext == Process(Next) \/ Serving(SNext) \/ Tokens(TNext)

(* The fairness of AgentProcess!Spec and AgentSessions!SessionSpec.        *)
MCSpec ==
    /\ MCInit /\ [][MCNext]_allvars
    /\ \A d \in Pids : /\ WF_allvars(Process(DaemonStep(d)))
                      /\ WF_allvars(Process(OtherEnds(d)))
    /\ \A c \in Cmds : /\ WF_allvars(Process(CommandStep(c)))
                      /\ WF_allvars(Process(Invoke(c, "start")))
    /\ WF_allvars(Serving(Tick)) /\ WF_allvars(Serving(EvictIdle))

-----------------------------------------------------------------------------
(* AgentProcess!ComesUp: whatever was killed, repeating `start` brings an  *)
(* agent up, and it stays.                                                 *)
AgentComesUp == <>[](side = "process" => \E d \in Pids : proc[d] = "serving")
================================================================================
