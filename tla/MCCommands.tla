------------------------------ MODULE MCCommands ------------------------------
(***************************************************************************)
(* Commands that keep state of their own, each checked for itself: the     *)
(* restore of a database (DbRestore), the download of an item              *)
(* (ItemDownload), the FairPlay package store (FairPlay), plugins          *)
(* (Plugins), the look for releases (Releases) and the sign-in (SignIn).   *)
(* One side moves, the others stay in one of their initial states.         *)
(***************************************************************************)
EXTENDS DbRestore

CONSTANTS Qualities, Others, MaxEncodes, MaxRuns,
          Titles, Procs, Formats, MaxPackageRuns,
          PageSize, MaxCommits, MaxReleases,
          Intervals, Lifetime, RetryAfters, RequestTimeout, MinInterval,
          MaxBackoff, MaxBackoffDoublings, Attempts, MaxSteps, ApprovalPolls,
          PluginContents, PythonVaries

VARIABLES side,
          asset, encode, file, records, license, run, runs, fetched,
          index, package, keys, fproc, fruns,
          plugins, original, python, proc,
          main, releases, running, answer,
          phase, clock, pair, poll, notBefore, tries, polls, page, amazon

I == INSTANCE ItemDownload WITH release <- encode, MaxReleases <- MaxEncodes
F == INSTANCE FairPlay WITH proc <- fproc, runs <- fruns, MaxRuns <- MaxPackageRuns
G == INSTANCE Plugins WITH dir <- plugins, Contents <- PluginContents
R == INSTANCE Releases WITH said <- answer
S == INSTANCE SignIn

iv == <<asset, encode, file, records, license, run, runs, fetched>>
fv == <<index, package, keys, fproc, fruns>>
gv == <<plugins, original, python, proc>>
rv == <<main, releases, running, answer>>
sv == <<phase, clock, pair, poll, notBefore, tries, polls, page, amazon>>
allvars == <<side, dvars, iv, fv, gv, rv, sv>>

(* A plugin that invokes commands, a file that is no program, and one that *)
(* cannot describe itself.                                                 *)
MCContents == {[exec |-> TRUE, usable |-> TRUE, scopes |-> {"invoke"}],
               [exec |-> FALSE, usable |-> TRUE, scopes |-> {}],
               [exec |-> TRUE, usable |-> FALSE, scopes |-> {}]}

Resting(p) == p.exec /\ p.usable

MCInit ==
    /\ side \in {"restore", "item", "fairplay", "plugins", "releases", "signin"}
    /\ Init /\ I!IInit /\ F!FInit /\ G!PInit /\ R!Init /\ S!SInit
    /\ side # "item" => asset = "adrm"
    /\ side # "fairplay" => \A t \in Titles : index[t] = F!NoEntry
    /\ side # "plugins" => python /\ \A f \in DOMAIN original : Resting(original[f])
    /\ side # "releases" => \A r \in releases : ~r.prerelease /\ running.commit = R!NoCommit

Restores == side = "restore" /\ Next /\ UNCHANGED <<side, iv, fv, gv, rv, sv>>
Items == side = "item" /\ I!INext /\ UNCHANGED <<side, dvars, fv, gv, rv, sv>>
Packages == side = "fairplay" /\ F!FNext /\ UNCHANGED <<side, dvars, iv, gv, rv, sv>>
Extends == side = "plugins" /\ G!PNext /\ UNCHANGED <<side, dvars, iv, fv, rv, sv>>
Asks == side = "releases" /\ R!Next /\ UNCHANGED <<side, dvars, iv, fv, gv, sv>>
SignsIn == side = "signin" /\ S!SNext /\ UNCHANGED <<side, dvars, iv, fv, gv, rv>>

MCNext == Restores \/ Items \/ Packages \/ Extends \/ Asks \/ SignsIn

MCSpec == MCInit /\ [][MCNext]_allvars

-----------------------------------------------------------------------------
(* The properties of the sides, stated in full in their modules.           *)

(* An intent once recorded is not downloaded again without --force.        *)
DownloadedOnce == I!DownloadedOnce

(* A package under its final name is complete.                             *)
PackageIsWhole == F!PackageIsWhole

(* No code of a plugin runs before the user has agreed to it.              *)
ConsentBeforeCode == G!ConsentBeforeCode

(* A plugin's name stands for one file.                                    *)
OneFilePerName == G!OneFilePerName

(* `self check` says "up to date" only of the newest release there is.     *)
UpToDateIsNewest == R!UpToDateIsNewest

(* Amazon is not polled more often than it asked for.                      *)
PollsAreSpaced == S!PollsAreSpaced
================================================================================
