------------------------------ MODULE KeySession ------------------------------
(***************************************************************************)
(* One FairPlay transfer or playback (src/fairplay/driver.rs,              *)
(* src/fairplay/apple/): AVFoundation's delegates put key events and       *)
(* download events into two channels; the driver runs the main loop in     *)
(* slices and between two of them answers the keys, then looks at the      *)
(* transfer or the player.  The delegates run only while the loop runs;    *)
(* the handler of an SPC runs on a queue of AVFoundation's at any time.    *)
(***************************************************************************)
EXTENDS Naturals, Sequences

CONSTANTS Contents,      \* content ids of the asset's keys
          MaxRequests,   \* key requests raised
          Grace          \* slices a finished transfer waits for its key

VARIABLES mode, given,   \* the session's mode and the stored keys it was given
          request,       \* the key requests: content, stage, who waits for a CKC
          keyEvents, events,
          media,         \* the transfer and its package, or the player
          driver

kvars == <<mode, given, request, keyEvents, events, media, driver>>

Stages == {"raised", "asked", "spc", "answered", "failed"}
Request == [content : Contents, stage : Stages, pending : BOOLEAN]
KeyEvent == [tag : {"needs ckc", "updated", "accepted", "failed"}, content : Contents,
             request : 0..MaxRequests]     \* 0: no request waits
Media == [state : {"loading", "running", "finished", "failed", "cancelled"},
          package : {"none", "partial", "whole"}]
Driver == [at : {"pump", "stop", "keys", "exchange", "media", "look", "ended"},
           event : KeyEvent, stored : SUBSET Contents, location : BOOLEAN,
           waited : 0..Grace + 2, result : {"none", "ok", "error"}]

Event(tag, c, id) == [tag |-> tag, content |-> c, request |-> id]
NoEvent == Event("accepted", CHOOSE c \in Contents : TRUE, 0)
Downloads == mode = "Persist"
Unfinished == Grace + 2       \* `waited` before the transfer has finished

(* The variables stay in their sets, whatever the steps.                   *)
KTypeOK ==
    /\ mode \in {"Streaming", "Persist", "Stored"} /\ given \subseteq Contents
    /\ request \in Seq(Request) /\ Len(request) <= MaxRequests
    /\ keyEvents \in Seq(KeyEvent) /\ events \in Seq({"location", "finished", "failed"})
    /\ media \in Media /\ driver \in Driver

KInit ==
    /\ mode \in {"Streaming", "Persist", "Stored"}
    /\ given \in IF mode = "Stored" THEN SUBSET Contents ELSE {{}}
    /\ request = << >> /\ keyEvents = << >> /\ events = << >>
    /\ media = [state |-> "loading", package |-> IF mode = "Stored" THEN "whole" ELSE "none"]
    /\ driver = [at |-> "pump", event |-> NoEvent, stored |-> {}, location |-> FALSE,
                 waited |-> Unfinished, result |-> "none"]

-----------------------------------------------------------------------------
(* AVFoundation's callbacks: on the main queue, while the loop runs.       *)

Pumping == driver.at = "pump"
Reported(event) == keyEvents' = Append(keyEvents, event)

(* on_request: streaming asks for the SPC, else for the persistable kind   *)
(* of request, which AVFoundation may refuse.                              *)
OnRequest(c) ==
    /\ Pumping /\ Len(request) < MaxRequests
    /\ \/ /\ mode = "Streaming"
          /\ request' = Append(request, [content |-> c, stage |-> "asked", pending |-> TRUE])
          /\ UNCHANGED keyEvents
       \/ /\ mode # "Streaming"
          /\ \E ok \in BOOLEAN :
                /\ request' = Append(request, [content |-> c, pending |-> FALSE,
                                               stage |-> IF ok THEN "raised" ELSE "failed"])
                /\ IF ok THEN UNCHANGED keyEvents ELSE Reported(Event("failed", c, 0))
    /\ UNCHANGED <<mode, given, events, media, driver>>

(* on_persistable_request.                                                 *)
OnPersistableRequest(i) ==
    LET c == request[i].content IN
    /\ Pumping /\ request[i].stage = "raised"
    /\ \/ /\ mode = "Persist"
          /\ request' = [request EXCEPT ![i].stage = "asked", ![i].pending = TRUE]
          /\ UNCHANGED keyEvents
       \/ /\ mode = "Stored" /\ c \in given
          /\ request' = [request EXCEPT ![i].stage = "answered"]
          /\ UNCHANGED keyEvents
       \/ /\ mode = "Stored" /\ c \notin given
          /\ request' = [request EXCEPT ![i].stage = "failed"]
          /\ Reported(Event("failed", c, 0))
    /\ UNCHANGED <<mode, given, events, media, driver>>

(* The handler of the SPC: it needs a CKC, or there is no SPC.             *)
SpcReady(i, ok) ==
    /\ request[i].stage = "asked"
    /\ request' = [request EXCEPT ![i].stage = "spc"]
    /\ Reported(Event(IF ok THEN "needs ckc" ELSE "failed", request[i].content, i))
    /\ UNCHANGED <<mode, given, events, media, driver>>

(* didSucceed, didFail, didUpdatePersistableContentKey.                    *)
DidSucceed(i) ==
    /\ Pumping /\ request[i].stage = "answered" /\ Len(keyEvents) < 2
    /\ Reported(Event("accepted", request[i].content, 0))
    /\ UNCHANGED <<mode, given, request, events, media, driver>>

DidFail(i) ==
    /\ Pumping /\ request[i].stage = "answered" /\ Len(keyEvents) < 2
    /\ request' = [request EXCEPT ![i].stage = "failed"]
    /\ Reported(Event("failed", request[i].content, 0))
    /\ UNCHANGED <<mode, given, events, media, driver>>

DidUpdate(c) ==
    /\ Pumping /\ mode = "Stored" /\ c \in given /\ Len(keyEvents) < 2
    /\ Reported(Event("updated", c, 0))
    /\ UNCHANGED <<mode, given, request, events, media, driver>>

(* The transfer names its package, and ends well or not; the player is     *)
(* ready, or fails.                                                        *)
WillDownload ==
    /\ Pumping /\ Downloads /\ media.state = "loading"
    /\ media' = [state |-> "running", package |-> "partial"]
    /\ events' = Append(events, "location")
    /\ UNCHANGED <<mode, given, request, keyEvents, driver>>

DidComplete(ok) ==
    /\ Pumping /\ Downloads
    /\ media.state = "running" \/ (media.state = "loading" /\ ~ok)
    /\ media' = [media EXCEPT !.state = IF ok THEN "finished" ELSE "failed",
                              !.package = IF ok THEN "whole" ELSE @]
    /\ events' = Append(events, IF ok THEN "finished" ELSE "failed")
    /\ UNCHANGED <<mode, given, request, keyEvents, driver>>

PlayerMoves(state) ==
    /\ Pumping /\ ~Downloads
    /\ <<media.state, state>> \in {<<"loading", "running">>, <<"running", "finished">>,
                                   <<"loading", "failed">>, <<"running", "failed">>}
    /\ media' = [media EXCEPT !.state = state]
    /\ UNCHANGED <<mode, given, request, keyEvents, events, driver>>

AVFoundation ==
    \/ \E c \in Contents : OnRequest(c) \/ DidUpdate(c)
    \/ \E i \in DOMAIN request :
          \/ OnPersistableRequest(i) \/ DidSucceed(i) \/ DidFail(i)
          \/ \E ok \in BOOLEAN : SpcReady(i, ok)
    \/ WillDownload
    \/ \E ok \in BOOLEAN : DidComplete(ok)
    \/ \E state \in {"running", "finished", "failed"} : PlayerMoves(state)

-----------------------------------------------------------------------------
(* The driver.                                                             *)

Goto(at) == driver' = [driver EXCEPT !.at = at]

(* An error cancels the transfer and removes the partial package, if its   *)
(* place is known; playback just ends.                                     *)
Ended(result) ==
    /\ driver' = [driver EXCEPT !.at = "ended", !.result = result]
    /\ media' = IF Downloads /\ result = "error"
                THEN [state |-> "cancelled",
                      package |-> IF driver.location THEN "none" ELSE media.package]
                ELSE media

(* request.process...: at most once, the pending entry is taken.           *)
Take(i, stage) == request' = [request EXCEPT ![i].stage = stage, ![i].pending = FALSE]

Slice ==
    /\ driver.at = "pump" /\ Goto("stop")
    /\ UNCHANGED <<mode, given, request, keyEvents, events, media>>

(* Ctrl-C is an error of a download and the end of a playback.             *)
Stop(asked) ==
    /\ driver.at = "stop"
    /\ IF asked THEN Ended(IF Downloads THEN "error" ELSE "ok") ELSE Goto("keys") /\ UNCHANGED media
    /\ UNCHANGED <<mode, given, request, keyEvents, events>>

(* answer_keys: one event after the other.                                 *)
NoMoreKeys ==
    /\ driver.at = "keys" /\ keyEvents = << >>
    /\ Goto("media")
    /\ UNCHANGED <<mode, given, request, keyEvents, events, media>>

NeedsCkc ==
    /\ driver.at = "keys" /\ keyEvents # << >> /\ Head(keyEvents).tag = "needs ckc"
    /\ driver' = [driver EXCEPT !.at = "exchange", !.event = Head(keyEvents)]
    /\ keyEvents' = Tail(keyEvents)
    /\ UNCHANGED <<mode, given, request, events, media>>

(* The CKC came and made a key (persistable keys are stored), made none,   *)
(* or did not come.                                                        *)
Exchanged ==
    LET i == driver.event.request IN
    /\ driver.at = "exchange"
    /\ \/ /\ Take(i, "answered")
          /\ driver' = [driver EXCEPT !.at = "keys", !.event = NoEvent,
                           !.stored = IF Downloads THEN @ \cup {driver.event.content} ELSE @]
          /\ UNCHANGED media
       \/ Take(i, "failed") /\ Ended("error")
    /\ UNCHANGED <<mode, given, keyEvents, events>>

KeyAccepted ==
    /\ driver.at = "keys" /\ keyEvents # << >> /\ Head(keyEvents).tag \in {"accepted", "updated"}
    /\ driver' = [driver EXCEPT !.stored =
                     IF Head(keyEvents).tag = "updated" THEN @ \cup {Head(keyEvents).content} ELSE @]
    /\ keyEvents' = Tail(keyEvents)
    /\ UNCHANGED <<mode, given, request, events, media>>

KeyFailed ==
    LET i == Head(keyEvents).request IN
    /\ driver.at = "keys" /\ keyEvents # << >> /\ Head(keyEvents).tag = "failed"
    /\ IF i # 0 THEN Take(i, "failed") ELSE UNCHANGED request
    /\ keyEvents' = Tail(keyEvents)
    /\ Ended("error")
    /\ UNCHANGED <<mode, given, events>>

(* The transfer's events, all that are there; the player's status.         *)
Transfer ==
    /\ driver.at = "media" /\ Downloads
    /\ LET seen == {events[i] : i \in DOMAIN events}
           located == driver.location \/ "location" \in seen IN
       IF "failed" \in seen
       THEN /\ driver' = [driver EXCEPT !.at = "ended", !.result = "error", !.location = located]
            /\ media' = [state |-> "cancelled",
                         package |-> IF located THEN "none" ELSE media.package]
       ELSE /\ driver' = [driver EXCEPT !.at = "look", !.location = located,
                             !.waited = IF "finished" \in seen /\ @ = Unfinished THEN 0 ELSE @]
            /\ UNCHANGED media
    /\ events' = << >>
    /\ UNCHANGED <<mode, given, request, keyEvents>>

Playback ==
    /\ driver.at = "media" /\ ~Downloads
    /\ CASE media.state = "failed" -> Ended("error")
         [] media.state = "loading" -> Goto("pump") /\ UNCHANGED media
         [] media.state = "running" -> Goto("pump") /\ UNCHANGED media
         [] media.state = "finished" -> Ended("ok")
    /\ UNCHANGED <<mode, given, request, keyEvents, events>>

(* Seeded fault: the wait for the key begins again with each slice.        *)
LookPatiently(playable) ==
    /\ driver.at = "look"
    /\ IF driver.waited # Unfinished /\ driver.stored # {}
       THEN Ended(IF driver.location /\ playable THEN "ok" ELSE "error")
       ELSE Goto("pump") /\ UNCHANGED media
    /\ UNCHANGED <<mode, given, request, keyEvents, events>>

(* The transfer can end before the key exchange does.                      *)
Look(playable) ==
    /\ driver.at = "look"
    /\ IF driver.waited = Unfinished \/ (driver.stored = {} /\ driver.waited <= Grace)
       THEN Goto("pump") /\ UNCHANGED media
       ELSE Ended(IF driver.stored # {} /\ driver.location /\ playable THEN "ok" ELSE "error")
    /\ UNCHANGED <<mode, given, request, keyEvents, events>>

(* Time passes for a finished transfer.                                    *)
Wait ==
    /\ driver.at # "ended" /\ driver.waited <= Grace
    /\ driver' = [driver EXCEPT !.waited = @ + 1]
    /\ UNCHANGED <<mode, given, request, keyEvents, events, media>>

Drive ==
    \/ Slice \/ NoMoreKeys \/ NeedsCkc \/ Exchanged \/ KeyAccepted \/ KeyFailed
    \/ \E asked \in BOOLEAN : Stop(asked)
    \/ Transfer \/ Playback
    \/ \E playable \in BOOLEAN : Look(playable)

KNext == Drive \/ Wait \/ AVFoundation

(* The driver's loop runs, the clock too, and the exchange is answered.    *)
KSpec == KInit /\ [][KNext]_kvars /\ WF_kvars(Drive) /\ WF_kvars(Wait)

-----------------------------------------------------------------------------

(* A transfer that finished is over some time later, with a key or without.*)
FinishedEnds == Downloads /\ driver.waited = 0 ~> driver.result # "none"

=============================================================================
