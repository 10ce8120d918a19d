-------------------------------- MODULE SignIn --------------------------------
(***************************************************************************)
(* The sign-ins of `audible account login` (src/auth/login/, account/      *)
(* login.rs): by a device code that is polled for, by a pasted redirect    *)
(* URL, and scripted, answering Amazon's challenge pages.  Each ends with  *)
(* a registration of the device.                                           *)
(***************************************************************************)
EXTENDS Integers, FiniteSetsExt

CONSTANTS Intervals,     \* polling intervals Amazon may ask for
          Lifetime,      \* how long a device code is valid
          RetryAfters,   \* pauses a Retry-After may ask for
          RequestTimeout,\* DEVICE_CODE_REQUEST_TIMEOUT
          MinInterval, MaxBackoff, MaxBackoffDoublings,   \* of device_code.rs
          Attempts,      \* of read_authorization_code
          MaxSteps,      \* MAX_STEPS of internal.rs
          ApprovalPolls  \* APPROVAL_POLL_MAX

VARIABLES phase,         \* what the command does
          clock,
          pair,          \* the code pair: its deadline and interval
          poll,          \* the pause before the next poll, and the failures in a row
          notBefore,     \* until when Amazon asked not to be polled
          tries,         \* pastes or challenge pages so far
          polls,         \* of an approval, so far
          page,          \* the page of the scripted login
          amazon         \* the device at Amazon

svars == <<phase, clock, pair, poll, notBefore, tries, polls, page, amazon>>

CodePair == [expires_at : Nat, interval : Nat]

Ended == {"registered", "failed"}
Challenges == {"captcha", "mfa_choice", "otp", "cvf"}
Pages == {"anti_automation", "approval", "error", "code"} \cup Challenges

-----------------------------------------------------------------------------
(* The device code.                                                        *)

TimeLeft(now) == Max({0, pair.expires_at - now})

(* The pair: its deadline counts from the request, its interval is at least*)
(* a second.  An error (in a 200, too) ends the login.                     *)
CreateCodePair ==
    /\ phase = "start"
    /\ \/ /\ \E asked \in Intervals : LET interval == Max({asked, MinInterval}) IN
                /\ pair' = [expires_at |-> clock + Lifetime, interval |-> interval]
                /\ poll' = [delay |-> interval, failures |-> 0]
                /\ \E took \in 0..RequestTimeout : clock' = clock + took
          /\ notBefore' = clock' + pair'.interval
          /\ phase' = "sleep"
       \/ /\ phase' = "failed"
          /\ UNCHANGED <<clock, pair, poll, notBefore>>
    /\ UNCHANGED <<tries, polls, page, amazon>>

(* Seeded fault: the server's wish is read and forgotten.                  *)
RetryDelayDeaf(wanted, failures) ==
    Max({pair.interval, Min({MaxBackoff, pair.interval * 2 ^ Min({failures, MaxBackoffDoublings})})})

(* The interval doubled for each failure up to a cap, never below what     *)
(* Retry-After or the pair asks for.                                       *)
RetryDelay(wanted, failures) ==
    LET backoff == Min({MaxBackoff, pair.interval * 2 ^ Min({failures, MaxBackoffDoublings})})
    IN Max({pair.interval, backoff, wanted})

(* Sleeps until the next poll or the deadline.                             *)
Sleep ==
    /\ phase = "sleep"
    /\ clock' = clock + Min({poll.delay, TimeLeft(clock)})
    /\ phase' = IF TimeLeft(clock') = 0 THEN "failed" ELSE "poll"
    /\ UNCHANGED <<pair, poll, notBefore, tries, polls, page, amazon>>

(* The user enters the code; Amazon counts its time itself.                *)
ConfirmCode ==
    /\ phase \in {"sleep", "poll"} /\ amazon = "unlinked"
    /\ clock < pair.expires_at
    /\ amazon' = "confirmed"
    /\ UNCHANGED <<phase, clock, pair, poll, notBefore, tries, polls, page>>

Failed(wanted, took) ==
    /\ poll' = [delay |-> RetryDelay(wanted, poll.failures + 1), failures |-> poll.failures + 1]
    /\ notBefore' = clock + took + Max({wanted, pair.interval})
    /\ phase' = "sleep"

(* One poll: the registration request, which may be lost, be answered too  *)
(* late or by an error to retry; a confirmed pair registers the device even*)
(* if the answer is lost.                                                  *)
Poll ==
    /\ phase = "poll"
    /\ \E took \in 0..RequestTimeout :
          /\ clock' = clock + took
          /\ \/ \E wanted \in RetryAfters \cup {0} : Failed(wanted, took) /\ UNCHANGED amazon
             \/ /\ amazon = "unlinked"
                /\ poll' = [delay |-> pair.interval, failures |-> 0]
                /\ notBefore' = clock + took + pair.interval
                /\ phase' = "sleep"
                /\ UNCHANGED amazon
             \/ /\ amazon = "confirmed"
                /\ amazon' = "registered"
                /\ \/ Failed(0, took)
                   \/ phase' \in Ended /\ UNCHANGED <<poll, notBefore>>
             \/ \* a registered or an unknown pair is rejected
                /\ phase' = "failed"
                /\ UNCHANGED <<poll, notBefore, amazon>>
    /\ UNCHANGED <<pair, tries, polls, page>>

-----------------------------------------------------------------------------
(* The browser's URL, pasted: as often as Attempts.                        *)

ReadAuthorizationCode ==
    /\ phase \in {"start", "paste"} /\ tries < Attempts
    /\ tries' = tries + 1
    /\ phase' \in {"register", IF tries' < Attempts THEN "paste" ELSE "failed"}
    /\ UNCHANGED <<clock, pair, poll, notBefore, polls, page, amazon>>

(* A code registers the device; its answer may be lost or not fit.         *)
RegisterReply(device) == IF device = "registered" THEN Ended ELSE {"failed"}

Register ==
    /\ phase = "register"
    /\ amazon' \in {amazon, "registered"}
    /\ phase' \in RegisterReply(amazon')
    /\ UNCHANGED <<clock, pair, poll, notBefore, tries, polls, page>>

-----------------------------------------------------------------------------
(* The scripted login.                                                     *)

(* The first page takes both, or the email alone and then the password.    *)
SubmitCredentials ==
    /\ \/ phase = "start" /\ phase' \in {"password", "challenge", "failed"}
       \/ phase = "password" /\ phase' \in {"challenge", "failed"}
    /\ page' \in Pages
    /\ UNCHANGED <<clock, pair, poll, notBefore, tries, polls, amazon>>

(* A challenge answered by the user (or cancelled) leads to another page.  *)
Answer ==
    /\ phase = "challenge" /\ page \in Challenges /\ tries < MaxSteps
    /\ \/ page' \in Pages /\ tries' = tries + 1 /\ UNCHANGED phase
       \/ phase' = "failed" /\ UNCHANGED <<page, tries>>
    /\ UNCHANGED <<clock, pair, poll, notBefore, polls, amazon>>

(* The user says they approved; then the page is asked until it is another.*)
PollApproval ==
    /\ phase \in {"challenge", "approving"} /\ page = "approval" /\ tries < MaxSteps
    /\ \/ /\ page' \in Pages \ {"approval"}
          /\ phase' = "challenge" /\ tries' = tries + 1 /\ polls' = 0
       \/ /\ polls < ApprovalPolls
          /\ phase' = "approving" /\ polls' = polls + 1
          /\ UNCHANGED <<page, tries>>
       \/ /\ phase' = "failed"
          /\ UNCHANGED <<page, tries, polls>>
    /\ UNCHANGED <<clock, pair, poll, notBefore, amazon>>

(* A code in the URL registers; a page without a challenge, one a script   *)
(* cannot answer and one challenge too many end the login.                 *)
Resolve ==
    /\ phase = "challenge"
    /\ \/ page = "code" /\ tries < MaxSteps /\ phase' = "register"
       \/ page \in {"anti_automation", "error"} /\ phase' = "failed"
       \/ tries = MaxSteps /\ phase' = "failed"
    /\ UNCHANGED <<clock, pair, poll, notBefore, tries, polls, page, amazon>>

-----------------------------------------------------------------------------
SInit ==
    /\ phase = "start" /\ clock = 0
    /\ pair = [expires_at |-> 0, interval |-> 0]
    /\ poll = [delay |-> 0, failures |-> 0]
    /\ notBefore = 0 /\ tries = 0 /\ polls = 0 /\ page = "error"
    /\ amazon = "unlinked"

(* The command goes on by itself; whether the user confirms is theirs.     *)
Work ==
    \/ CreateCodePair \/ Sleep \/ Poll
    \/ ReadAuthorizationCode \/ Register
    \/ SubmitCredentials \/ Answer \/ PollApproval \/ Resolve

SNext == Work \/ ConfirmCode

SSpec == SInit /\ [][SNext]_svars /\ WF_svars(Work)

-----------------------------------------------------------------------------
(* The variables stay in their sets, whatever the steps.                   *)
STypeOK ==
    /\ phase \in {"start", "sleep", "poll", "paste", "register", "password", "challenge", "approving"} \cup Ended
    /\ clock \in 0..(Lifetime + RequestTimeout)
    /\ pair \in CodePair
    /\ poll.failures \in Nat /\ tries \in 0..Max({Attempts, MaxSteps}) /\ polls \in 0..ApprovalPolls
    /\ page \in Pages
    /\ amazon \in {"unlinked", "confirmed", "registered"}

(* A poll goes out only when Amazon's interval, and the pause its answer   *)
(* asked for, have passed since.                                           *)
PollsAreSpaced == phase = "poll" => clock >= notBefore

=============================================================================
