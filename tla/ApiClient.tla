------------------------------- MODULE ApiClient -------------------------------
(***************************************************************************)
(* The client of one account (src/api/client.rs, paginator.rs and the      *)
(* freshness rules of src/auth/): requests run as tasks of one process and *)
(* share the account's auth data behind a mutex.  A request that finds the *)
(* access token or the website cookies stale exchanges the refresh token   *)
(* for new ones while it holds the mutex; the others queue on it.          *)
(***************************************************************************)
EXTENDS Integers, FiniteSets

CONSTANTS Tasks,         \* requests under way
          Ttl,           \* how long a token or a cookie session lasts
          Margin,        \* TOKEN_REFRESH_MARGIN_SECS
          MaxRetries,    \* of fetch_with_retry
          MaxClock       \* bound on the time

VARIABLES auth,          \* the auth data in memory
          origin,        \* the kind of account
          lock,          \* the task that holds the mutex, or Free
          task,          \* what each request does
          clock

avars == <<auth, origin, lock, task, clock>>

Free == "free"
Never == -1
Origins == {"Amazon", "AudibleLegacy"}
Domains == {".amazon.de", ".audible.de"}
Requests == [mode : {"auto", "signing"}, host : {"api.audible.de", "cde-ta-g7g.amazon.com"}]
              \cup [mode : {"cookies"}, host : {"api.audible.de", "www.amazon.de", "example.com"}]
Absent == [held |-> FALSE, ttl |-> Never]

(* In memory: the token's expiry, the keys, and the cookies of each domain *)
(* with their session's expiry.                                            *)
AuthData == [access : Int, refresh : BOOLEAN, signer : BOOLEAN,
             cookies : [Domains -> [held : BOOLEAN, ttl : Int]]]

At(t, at) == task[t].at = at
Goto(t, at) == task' = [task EXCEPT ![t].at = at]
End(t, how) == task' = [task EXCEPT ![t].at = "done", ![t].how = how]

-----------------------------------------------------------------------------
(* The freshness of what is held.                                          *)

AccessTokenExpired == auth.access = Never \/ clock >= auth.access - Margin

(* Every bucket counts that belongs to the host or to its sibling of the   *)
(* other family; one without a session of known length is stale.           *)
CookieStatus(data, host) ==
    LET matched == IF host \in {"api.audible.de", "www.amazon.de"}
                   THEN {d \in Domains : data.cookies[d].held} ELSE {}
    IN CASE matched = {} -> "absent"
         [] \E d \in matched : data.cookies[d].ttl = Never \/ clock >= data.cookies[d].ttl -> "stale"
         [] OTHER -> "fresh"

(* The host family of the exchange.                                        *)
ExchangeTarget == IF origin = "AudibleLegacy" THEN ".audible.de" ELSE ".amazon.de"

(* The mode of a request, for its host.                                    *)
Resolved(mode, host) ==
    IF mode # "auto" THEN mode
    ELSE IF host = "cde-ta-g7g.amazon.com" THEN "signing" ELSE "token"

-----------------------------------------------------------------------------
(* A registration stores no cookies; a legacy import puts them, without a  *)
(* session, under the Amazon domain.                                       *)
AInit ==
    /\ origin \in Origins
    /\ clock = 0
    /\ auth \in [access : {Never, Ttl}, refresh : BOOLEAN, signer : BOOLEAN,
                 cookies : {[d \in Domains |-> Absent],
                            [d \in Domains |-> [Absent EXCEPT !.held = d = ".amazon.de"]]}]
    /\ lock = Free
    /\ task = [t \in Tasks |-> [at |-> "new", host |-> "none", page |-> FALSE, attempt |-> 0,
                                how |-> "none"]]

(* Builds a request: its auth comes first, the signing without the mutex.  *)
Begin(t, mode, host, page) ==
    LET request == [at |-> Resolved(mode, host), host |-> host, page |-> page, attempt |-> 1,
                    how |-> "none"] IN
    /\ At(t, "new")
    /\ task' = [task EXCEPT ![t] = IF request.at = "signing" /\ ~auth.signer
                                   THEN [request EXCEPT !.at = "done", !.how = "unavailable"]
                                   ELSE request]
    /\ UNCHANGED <<auth, origin, lock, clock>>

(* A download takes the token by ensure_fresh_access_token as well.        *)
EnsureFreshAccessToken(t) ==
    /\ At(t, "token") /\ lock = Free
    /\ \/ ~AccessTokenExpired /\ Goto(t, "send") /\ UNCHANGED lock
       \/ AccessTokenExpired /\ auth.refresh /\ Goto(t, "refreshing") /\ lock' = t
       \/ AccessTokenExpired /\ ~auth.refresh /\ End(t, "no refresh token") /\ UNCHANGED lock
    /\ UNCHANGED <<auth, origin, clock>>

(* force_refresh_access_token: `account token refresh`.                    *)
ForceRefresh(t) ==
    /\ At(t, "new") /\ lock = Free
    /\ IF auth.refresh THEN Goto(t, "refreshing") /\ lock' = t
       ELSE End(t, "no refresh token") /\ UNCHANGED lock
    /\ UNCHANGED <<auth, origin, clock>>

(* The server's answer to the refresh; the write-back may fail unnoticed.  *)
PerformTokenRefresh(t) ==
    /\ At(t, "refreshing")
    /\ \/ /\ auth' = [auth EXCEPT !.access = clock + Ttl]
          /\ IF task[t].host = "none" THEN End(t, "refreshed") ELSE Goto(t, "send")
       \/ End(t, "failed") /\ UNCHANGED auth
    /\ lock' = Free
    /\ UNCHANGED <<origin, clock>>

(* The first look at the cookies; a host of no marketplace ends it.        *)
LookAtCookies(t) ==
    /\ At(t, "cookies") /\ lock = Free
    /\ LET status == CookieStatus(auth, task[t].host) IN
          \/ status = "fresh" /\ Goto(t, "send")
          \/ status # "fresh" /\ task[t].host # "example.com" /\ Goto(t, "recheck")
          \/ status # "fresh" /\ task[t].host = "example.com" /\ End(t, "unavailable")
    /\ UNCHANGED <<auth, origin, lock, clock>>

(* Seeded fault: what the first look said is still believed.               *)
NoSecondLook(t) ==
    /\ At(t, "recheck") /\ lock = Free
    /\ auth.refresh
    /\ Goto(t, "exchanging") /\ lock' = t
    /\ UNCHANGED <<auth, origin, clock>>

(* The second look, under the lock that the exchange holds.                *)
RecheckCookies(t) ==
    /\ At(t, "recheck") /\ lock = Free
    /\ LET status == CookieStatus(auth, task[t].host) IN
          \/ status = "fresh" /\ Goto(t, "send") /\ UNCHANGED lock
          \/ status # "fresh" /\ auth.refresh /\ Goto(t, "exchanging") /\ lock' = t
          \/ status # "fresh" /\ ~auth.refresh /\ End(t, "no refresh token") /\ UNCHANGED lock
    /\ UNCHANGED <<auth, origin, clock>>

(* refresh_cookies: `account cookies refresh`.                             *)
RefreshCookies(t) ==
    /\ At(t, "new") /\ lock = Free
    /\ IF auth.refresh THEN Goto(t, "exchanging") /\ lock' = t
       ELSE End(t, "no refresh token") /\ UNCHANGED lock
    /\ UNCHANGED <<auth, origin, clock>>

(* The exchange: the target's cookies and session replace that domain's,   *)
(* the other domains stay; an answer may hold none.                        *)
PerformCookieExchange(t) ==
    /\ At(t, "exchanging")
    /\ \/ \E some \in BOOLEAN :
             LET fetched == IF ~some THEN auth
                     ELSE [auth EXCEPT !.cookies[ExchangeTarget] = [held |-> TRUE, ttl |-> clock + Ttl]]
             IN /\ auth' = fetched
                /\ CASE task[t].host = "none" -> End(t, "refreshed")
                     [] CookieStatus(fetched, task[t].host) = "fresh" -> Goto(t, "send")
                     [] OTHER -> End(t, IF some THEN "exchanged in vain" ELSE "unavailable")
       \/ End(t, "failed") /\ UNCHANGED auth
    /\ lock' = Free
    /\ UNCHANGED <<origin, clock>>

(* The request itself: the pages of a list are retried from the auth on.   *)
Send(t) ==
    /\ \E mode \in {"signing", "send"} : At(t, mode)
    /\ \/ End(t, "answered")
       \/ /\ task[t].page /\ task[t].attempt <= MaxRetries
          /\ task' = [task EXCEPT ![t].at = "token", ![t].attempt = @ + 1]
       \/ (~task[t].page \/ task[t].attempt > MaxRetries) /\ End(t, "failed")
    /\ UNCHANGED <<auth, origin, lock, clock>>

(* clear_access_token and remove_cookies.                                  *)
ClearAccessToken ==
    /\ lock = Free
    /\ auth' = [auth EXCEPT !.access = Never]
    /\ UNCHANGED <<origin, lock, task, clock>>

RemoveCookies(domains) ==
    /\ lock = Free
    /\ auth' = [auth EXCEPT !.cookies = [d \in Domains |-> IF d \in domains THEN Absent ELSE @[d]]]
    /\ UNCHANGED <<origin, lock, task, clock>>

Tick ==
    /\ clock < MaxClock
    /\ clock' = clock + 1
    /\ UNCHANGED <<auth, origin, lock, task>>

ANext ==
    \/ \E t \in Tasks :
          \/ \E r \in Requests : Begin(t, r.mode, r.host, FALSE)
          \/ Begin(t, "auto", "api.audible.de", TRUE)
          \/ EnsureFreshAccessToken(t) \/ ForceRefresh(t) \/ PerformTokenRefresh(t)
          \/ LookAtCookies(t) \/ RecheckCookies(t) \/ RefreshCookies(t) \/ PerformCookieExchange(t)
          \/ Send(t)
    \/ ClearAccessToken
    \/ \E domains \in (SUBSET Domains) \ {{}} : RemoveCookies(domains)
    \/ Tick

ASpec == AInit /\ [][ANext]_avars

-----------------------------------------------------------------------------
(* The variables stay in their sets, whatever the steps.                   *)
ATypeOK ==
    /\ auth \in AuthData /\ origin \in Origins /\ clock \in 0..MaxClock
    /\ lock \in Tasks \cup {Free}
    /\ lock # Free => task[lock].at \in {"refreshing", "exchanging"}
    /\ \A t \in Tasks : task[t].attempt \in 0..(MaxRetries + 1)

(* A request spends the refresh token only when what it needs is stale: the*)
(* callers that queued behind an exchange find what it brought (the        *)
(* comments of ensure_fresh_access_token and ensure_fresh_cookies).        *)
OneExchangePerLapse ==
    [][\A t \in Tasks : task[t].host # "none" =>
          /\ task[t].at # "refreshing" /\ task'[t].at = "refreshing" => AccessTokenExpired
          /\ task[t].at # "exchanging" /\ task'[t].at = "exchanging"
                => CookieStatus(auth, task[t].host) # "fresh"]_avars

=============================================================================
