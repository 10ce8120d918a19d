------------------------------ MODULE LoginServer ------------------------------
(***************************************************************************)
(* `audible account login server` (src/auth/login/server.rs): a local proxy*)
(* in front of Amazon's sign-in pages.  Browser tabs load its form, submit *)
(* it and browse the proxied pages; each request is a task of its own.  The*)
(* first authorization code seen ends the wait, and is registered with the *)
(* device and verifier of the session that is stored then.                 *)
(***************************************************************************)
EXTENDS Integers, Sequences

CONSTANTS Tabs,          \* browser tabs
          MaxSessions    \* bound on the sign-ins that are started

VARIABLES signin,        \* the stored session, by number; 0 is None
          started,       \* the sessions made so far
          tabs,          \* what each tab shows or waits for
          channel,       \* the code on its way to run(): capacity one
          wait,          \* what run() does
          result         \* what it returned

lvars == <<signin, started, tabs, channel, wait, result>>

(* A code belongs to the session whose authorize URL the tab went through. *)
Sessions == 1..MaxSessions
Page == [shows : {"nothing", "success", "unavailable"}]
          \cup [shows : {"form"}, restart : BOOLEAN]
          \cup [shows : {"starting"}, restart : BOOLEAN]
          \cup [shows : {"amazon", "request"}, of : Sessions]
Form(restart) == [shows |-> "form", restart |-> restart]
InProgress == signin # 0

LInit ==
    /\ signin = 0 /\ started = 0
    /\ tabs = [t \in Tabs |-> [shows |-> "nothing"]]
    /\ channel = <<>>
    /\ wait = "code"
    /\ result = [kind |-> "none"]

-----------------------------------------------------------------------------
(* The requests of a tab.  Its connection outlives the accept loop.        *)

(* GET of the landing page: the form has the restart marker when a sign-in *)
(* is in progress.  The user may go back there from any page.              *)
Landing(t) ==
    /\ tabs' = [tabs EXCEPT ![t] = Form(InProgress)]
    /\ UNCHANGED <<signin, started, channel, wait, result>>

(* Seeded fault: a restart drops the session before it has another.        *)
StartSessionAbandons(t) ==
    /\ tabs[t].shows = "form"
    /\ ~InProgress \/ tabs[t].restart
    /\ tabs' = [tabs EXCEPT ![t].shows = "starting"]
    /\ signin' = 0
    /\ UNCHANGED <<started, channel, wait, result>>

(* POST /__start up to the choice of the marketplace.  The look at the     *)
(* session is over before the session is made.                             *)
StartSession(t) ==
    /\ tabs[t].shows = "form"
    /\ \/ /\ InProgress /\ ~tabs[t].restart
          /\ tabs' = [tabs EXCEPT ![t] = Form(TRUE)]
       \/ \* no marketplace, or a username where there is none
          /\ ~InProgress \/ tabs[t].restart
          /\ tabs' = [tabs EXCEPT ![t] = Form(InProgress)]
       \/ /\ ~InProgress \/ tabs[t].restart
          /\ tabs' = [tabs EXCEPT ![t].shows = "starting"]
    /\ UNCHANGED <<signin, started, channel, wait, result>>

(* Device, PKCE pair and cookie jar are made and stored; the browser is    *)
(* sent to the authorize URL.                                              *)
StoreSession(t) ==
    /\ tabs[t].shows = "starting" /\ started < MaxSessions
    /\ started' = started + 1
    /\ signin' = started + 1
    /\ tabs' = [tabs EXCEPT ![t] = [shows |-> "amazon", of |-> started + 1]]
    /\ UNCHANGED <<channel, wait, result>>

(* A proxied request: without a session it leads back to the form.         *)
Browse(t) ==
    /\ tabs[t].shows = "amazon"
    /\ tabs' = [tabs EXCEPT ![t] = IF InProgress THEN [@ EXCEPT !.shows = "request"]
                                   ELSE Form(FALSE)]
    /\ UNCHANGED <<signin, started, channel, wait, result>>

(* try_send: the second of two codes, and one nobody waits for, is dropped;*)
(* the page says success all the same.                                     *)
Capture(code) ==
    channel' = IF wait # "over" /\ channel = <<>> THEN <<code>> ELSE channel

(* Amazon's answer: the code (in the browser's own request or in a         *)
(* redirect), another page, or an error.                                   *)
Answer(t) ==
    /\ tabs[t].shows = "request"
    /\ \/ /\ Capture(tabs[t].of)
          /\ tabs' = [tabs EXCEPT ![t] = [shows |-> "success"]]
       \/ /\ tabs' = [tabs EXCEPT ![t].shows = "amazon"]
          /\ UNCHANGED channel
       \/ /\ tabs' = [tabs EXCEPT ![t] = [shows |-> "unavailable"]]
          /\ UNCHANGED channel
    /\ UNCHANGED <<signin, started, wait, result>>

-----------------------------------------------------------------------------
(* run().                                                                  *)

(* Receives the code, and lets the success page flush.                     *)
Receive ==
    /\ wait = "code" /\ channel # <<>>
    /\ wait' = "flush"
    /\ result' = [kind |-> "code", code |-> Head(channel)]
    /\ channel' = <<>>
    /\ UNCHANGED <<signin, started, tabs>>

(* Requests under way go on: their tasks are detached.                     *)
Timeout ==
    /\ wait = "code"
    /\ wait' = "over"
    /\ result' = [kind |-> "timeout"]
    /\ UNCHANGED <<signin, started, tabs, channel>>

(* Takes the session that is stored when the grace is over.                *)
TakeSession ==
    /\ wait = "flush"
    /\ wait' = "over"
    /\ result' = IF InProgress THEN [kind |-> "login", code |-> result.code, signin |-> signin]
                 ELSE [kind |-> "no session"]
    /\ signin' = 0
    /\ UNCHANGED <<started, tabs, channel>>

LNext ==
    \/ \E t \in Tabs : \/ Landing(t) \/ StartSession(t) \/ StoreSession(t)
                       \/ Browse(t) \/ Answer(t)
    \/ Receive \/ Timeout \/ TakeSession

LSpec == LInit /\ [][LNext]_lvars

-----------------------------------------------------------------------------
(* The variables stay in their sets, whatever the steps.                   *)
LTypeOK ==
    /\ signin \in 0..MaxSessions /\ started \in 0..MaxSessions
    /\ tabs \in [Tabs -> Page]
    /\ channel \in {<<>>} \cup {<<k>> : k \in Sessions}
    /\ wait \in {"code", "flush", "over"}
    /\ result.kind \in {"none", "code", "timeout", "login", "no session"}

(* A code finds a session: the internal error `no active session` is out of*)
(* reach, whatever tabs restart.                                           *)
CodeHasSession == result.kind # "no session"

(* A submit without the restart marker never replaces a session (the       *)
(* comment of start_session).                                              *)
OnlyRestartReplaces ==
    [][\A t \in Tabs : StoreSession(t) /\ signin # 0 => tabs[t].restart]_lvars

=============================================================================
