------------------------------ MODULE MCTransfer ------------------------------
(***************************************************************************)
(* What moves audio to the disk and keeps it there, each checked for       *)
(* itself: the transfer engine (Transfer), the key session that runs       *)
(* beside a FairPlay transfer (KeySession), and the scan for files nobody  *)
(* records (Orphans).  One side moves, the others stay in one of their     *)
(* initial states.                                                         *)
(***************************************************************************)
EXTENDS Transfer

CONSTANTS KeyIds, MaxRequests, Grace, Accounts, Retries

VARIABLES side,
          mode, given, request, keyEvents, events, media, driver,
          file, records, busy, damaged, scan, kept

K == INSTANCE KeySession WITH Contents <- KeyIds
O == INSTANCE Orphans

kv == <<mode, given, request, keyEvents, events, media, driver>>
ov == <<file, records, busy, damaged, scan, kept>>
allvars == <<side, vars, kv, ov>>

MCInit ==
    /\ side \in {"transfer", "session", "orphans"}
    /\ Init /\ K!KInit /\ O!OInit
    /\ side # "transfer" => kind = "tagged" /\ ext = "planned"
                            /\ current = CHOOSE v \in Versions : TRUE
    /\ side # "session" => mode = "Streaming"
    /\ side # "orphans" => damaged = {}

Transfers(A) == side = "transfer" /\ A /\ UNCHANGED <<side, kv, ov>>
Sessions(A) == side = "session" /\ A /\ UNCHANGED <<side, vars, ov>>
Scans(A) == side = "orphans" /\ A /\ UNCHANGED <<side, vars, kv>>

MCNext == Transfers(Next) \/ Sessions(K!KNext) \/ Scans(O!ONext)

(* The fairness of Transfer!Spec and KeySession!KSpec.                     *)
MCSpec ==
    /\ MCInit /\ [][MCNext]_allvars
    /\ \A p \in Procs : /\ WF_allvars(Transfers(Step(p)))
                        /\ WF_allvars(Transfers(Start(p, FALSE, FALSE)))
    /\ WF_allvars(Transfers(Expire))
    /\ WF_allvars(Sessions(K!Drive)) /\ WF_allvars(Sessions(K!Wait))

-----------------------------------------------------------------------------
(* The properties of the three sides, stated in full in their modules.     *)

(* Transfer!Completes: once the trouble ends, repeating the download ends  *)
(* with the file, whatever part and marker were left.                      *)
TransferCompletes ==
    <>[](side = "transfer" => \E e \in Exts : LenOf(files[e]) = Size(current))

(* A transfer that has finished ends the run, key or no key.               *)
FinishedEnds == K!FinishedEnds

(* A file recorded since before a scan began is not deleted by it.         *)
LongRecordedIsKept == O!LongRecordedIsKept
================================================================================
