------------------------------ MODULE MCAccounts ------------------------------
(***************************************************************************)
(* Seven sides of an account, each checked for itself: its auth file and   *)
(* its entries (Accounts), the commands that edit config.toml, the client  *)
(* that keeps its tokens fresh, the request files of `audible api`, the    *)
(* login proxy, the account's titles and lists at Audible, and its         *)
(* annotations.  One side moves, the others stay in their initial states.  *)
(***************************************************************************)
EXTENDS Accounts, LoginServer, TLC

CONSTANTS Users, Markets, Bundles, Hosts, TableNames, MaxWrites,
          Tasks, Ttl, Margin, MaxRetries, MaxClock,
          QueryKeys, Values, BodyPaths, MaxPairs,
          Asins, Plus, Rounds, MaxChanges, MaxElsewhere,
          Titles, Marked, Stems, Lost, NoRow, NoPath, MaxVersion, MaxTrouble

VARIABLES side,
          toml, editor, writes,
          auth, origin, lock, task, clock,
          stage, composer, request, args, saved, outcome,
          rights, archive, wishlist, unindexed, feed, delta, row, change,
          others, changes, elsewhere,
          server, base, rows, files, annotating, trouble

F == INSTANCE ConfigFile WITH Names <- TableNames, config <- toml, cmd <- editor
C == INSTANCE ApiClient
Q == INSTANCE RequestFiles WITH file <- request, Composers <- {"flags"}
M == INSTANCE Membership WITH cmd <- change, commands <- changes, MaxCommands <- MaxChanges
N == INSTANCE Annotations WITH cmd <- annotating

fv == <<toml, editor, writes>>
av == <<auth, origin, lock, task, clock>>
qv == <<stage, composer, request, args, saved, outcome>>
mv == <<rights, archive, wishlist, unindexed, feed, delta, row, change, others, changes,
        elsewhere>>
nv == <<server, base, rows, files, annotating, trouble>>
allvars == <<side, vars, fv, av, qv, lvars, mv, nv>>

MCInit ==
    /\ side \in {"accounts", "config", "client", "requests", "login", "membership",
               "annotations"}
    /\ Init /\ F!Init /\ C!AInit /\ Q!RInit /\ LInit /\ M!MInit
    /\ N!AInit
    /\ side # "client" => auth.access = C!Never /\ origin = "Amazon" /\ ~auth.refresh
                          /\ ~auth.signer /\ ~auth.cookies[".amazon.de"].held
    /\ side # "annotations" => \A t, u \in Titles : base[t] = base[u]

Commands == side = "accounts" /\ Next /\ UNCHANGED <<side, fv, av, qv, lvars, mv, nv>>
Edits == side = "config" /\ F!Next /\ UNCHANGED <<side, vars, av, qv, lvars, mv, nv>>
Requests == side = "client" /\ C!ANext /\ UNCHANGED <<side, vars, fv, qv, lvars, mv, nv>>
Saves == side = "requests" /\ Q!RNext /\ UNCHANGED <<side, vars, fv, av, lvars, mv, nv>>
SignsIn == side = "login" /\ LNext /\ UNCHANGED <<side, vars, fv, av, qv, mv, nv>>
Joins == side = "membership" /\ M!MNext /\ UNCHANGED <<side, vars, fv, av, qv, lvars, nv>>
Notes == side = "annotations" /\ N!ANext /\ UNCHANGED <<side, vars, fv, av, qv, lvars, mv>>

MCNext == Commands \/ Edits \/ Requests \/ Saves \/ SignsIn \/ Joins \/ Notes

MCSpec == MCInit /\ [][MCNext]_allvars

Symm == Permutations(Names) \cup Permutations(Passphrases)

-----------------------------------------------------------------------------
(* The properties of the instances, stated in full there.                  *)

(* The gate never locks anyone in.                                         *)
NothingIsStuck == F!NothingIsStuck

(* A request that was saved replays as the one that was composed.          *)
SavedReplays == Q!SavedReplays

(* What `--sync` has reported as reflected stays so.                       *)
ReflectedStays == M!ReflectedStays

(* A run of `annotations sync` that reports success has saved all it was   *)
(* asked for.                                                              *)
SuccessIsSaved == N!SuccessIsSaved

(* A client whose cookies have lapsed exchanges for new ones once, however *)
(* many of its requests wait for them.                                     *)
OneExchangePerLapse == C!OneExchangePerLapse

================================================================================
