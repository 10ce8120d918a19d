-------------------------------- MODULE Releases --------------------------------
(***************************************************************************)
(* `audible self` (src/commands/selfcmd.rs): which releases a check and a  *)
(* changelog name, and what `--unreleased` compares.  The repository is    *)
(* external: commits on main in one line, releases cut from its head with  *)
(* growing versions, the newest page of them in the answer of its API.     *)
(***************************************************************************)
EXTENDS Integers, FiniteSets

CONSTANTS PageSize,     \* releases in one answer of the API
          MaxCommits,   \* bound on main
          MaxReleases   \* bound on releases

VARIABLES
    main,      \* the number of commits on main
    releases,  \* the published releases: version, track, commit they are cut from
    running,   \* this binary: the version it reports, and its commit if built from source
    said       \* the last answer

rvars == <<main, releases, running, said>>

Versions == 1 .. MaxReleases
NoCommit == 0
Release == [version : Versions, prerelease : BOOLEAN, at : 1 .. MaxCommits]
Slice(name, from, pre) == [slice |-> name, from |-> from, pre |-> pre]
All == Slice("All", 1, FALSE)
Installed == Slice("Installed", 1, FALSE)
NewerOnes == Slice("Newer", 1, FALSE)
From == {Slice("From", v, pre) : v \in Versions, pre \in BOOLEAN}
Selections == {All, Installed, NewerOnes} \cup From
Nothing == [kind |-> "nothing"]

(* The variables stay in their sets, whatever the steps.                   *)
ReleasesTypeOK ==
    /\ main \in 1 .. MaxCommits /\ releases \subseteq Release
    /\ running.version \in Versions /\ running.prerelease \in BOOLEAN
    /\ running.commit \in 0 .. MaxCommits
    /\ said.kind \in {"nothing", "up to date", "releases", "unreleased"}

Binary(r, commit) == [version |-> r.version, prerelease |-> r.prerelease, commit |-> commit]

Init ==
    /\ main = 1 /\ said = Nothing
    /\ \E pre \in BOOLEAN : releases = {[version |-> 1, prerelease |-> pre, at |-> 1]}
    /\ running \in {Binary(r, c) : r \in releases, c \in {NoCommit, 1}}

-----------------------------------------------------------------------------
(* What the commands work out.                                             *)

dev_commit == running.commit

(* The API answers with the newest releases first, and one page is asked.  *)
fetch_releases == {r \in releases : Cardinality({x \in releases : x.version > r.version}) < PageSize}

(* Seeded fault: only --pre shows pre-releases.                            *)
TrackingAsked(selection, pre) == pre

(* Asked for, named, run already, or all there is.                         *)
TrackingPrereleases(selection, pre) ==
    \/ pre \/ running.prerelease
    \/ selection.slice = "From" /\ selection.pre
    \/ \A r \in fetch_releases : r.prerelease

(* Precedence ignores the commit in a build's version.                     *)
Newer(v) == v > running.version

Covers(selection, v) ==
    CASE selection = All -> TRUE
      [] selection = Installed -> v = running.version
      [] selection = NewerOnes -> Newer(v)
      [] OTHER -> v >= selection.from

SelectReleases(selection, pre) ==
    {r \in fetch_releases : /\ TrackingPrereleases(selection, pre) \/ ~r.prerelease
                            /\ Covers(selection, r.version)}

Newest(R) == CHOOSE r \in R : \A x \in R : x.version <= r.version

(* The compare API: what head has and base has not (external).             *)
Comparison(base, head) == {c \in 1 .. head : c > base.at}

(* The newest pre-release the stable track hides.                          *)
NewestSkippedPrerelease(base, tracking) ==
    LET newer == {r \in fetch_releases : r.prerelease /\ r.version > base.version}
    IN IF tracking \/ newer = {} THEN {} ELSE {Newest(newer)}

-----------------------------------------------------------------------------
(* The repository, and this installation.                                  *)

Commits ==
    /\ main < MaxCommits /\ main' = main + 1 /\ said' = Nothing
    /\ UNCHANGED <<releases, running>>

Publish(version, pre) ==
    /\ \A r \in releases : r.version < version
    /\ releases' = releases \cup {[version |-> version, prerelease |-> pre, at |-> main]}
    /\ said' = Nothing /\ UNCHANGED <<main, running>>

Withdraw(r) ==
    /\ releases' = releases \ {r} /\ said' = Nothing /\ UNCHANGED <<main, running>>

(* Installed from a release, or built from main.                           *)
Install(r, source) ==
    /\ running' = Binary(r, IF source THEN main ELSE NoCommit)
    /\ (source => \A x \in releases : x.version <= r.version)
    /\ said' = Nothing /\ UNCHANGED <<main, releases>>

-----------------------------------------------------------------------------
(* The commands.  A fetch that fails is a notice, and no answer.           *)

Answers(answer) == said' \in {answer, Nothing} /\ UNCHANGED <<main, releases, running>>

(* `self check`: a build from source is never called up to date.           *)
Check(pre) ==
    LET selected == SelectReleases(NewerOnes, pre)
    IN Answers(IF selected # {}
               THEN [kind |-> "releases", releases |-> selected, pre |-> pre,
                     selection |-> NewerOnes, adds |-> {}]
               ELSE IF dev_commit # NoCommit THEN Nothing
               ELSE [kind |-> "up to date", pre |-> pre])

(* --current says what a build from source adds to its release.            *)
Changelog(selection, pre) ==
    LET selected == SelectReleases(selection, pre)
    IN Answers(IF selected = {} THEN Nothing
               ELSE [kind |-> "releases", releases |-> selected, pre |-> pre,
                     selection |-> selection,
                     adds |-> IF selection = Installed /\ dev_commit # NoCommit
                              THEN Comparison(Newest(selected), dev_commit) ELSE {}])

(* A build from source asks about its own commit, or about main when that  *)
(* is not at GitHub.                                                       *)
Unreleased(pre, pushed) ==
    LET all == SelectReleases(All, pre)
        base == Newest(all)
        tracking == TrackingPrereleases(All, pre)
        head == IF dev_commit # NoCommit /\ pushed THEN dev_commit ELSE main
    IN Answers(IF all = {} THEN Nothing
               ELSE [kind |-> "unreleased", commits |-> Comparison(base, head),
                     skipped |-> NewestSkippedPrerelease(base, tracking), pre |-> pre])

Next ==
    \/ Commits
    \/ \E v \in Versions, pre \in BOOLEAN : Publish(v, pre)
    \/ \E r \in releases : Withdraw(r) \/ \E source \in BOOLEAN : Install(r, source)
    \/ \E pre \in BOOLEAN : \/ Check(pre)
                            \/ \E s \in Selections : Changelog(s, pre)
                            \/ \E pushed \in BOOLEAN : Unreleased(pre, pushed)

ReleasesSpec == Init /\ [][Next]_rvars

-----------------------------------------------------------------------------

(* A user who is told to be up to date runs a release build, and none      *)
(* of the user's track is newer: any at all while no stable one exists,    *)
(* or with a pre-release installed.                                        *)
UpToDateIsNewest ==
    said.kind = "up to date" =>
        /\ running.commit = NoCommit
        /\ \A r \in releases : r.version > running.version =>
              /\ r.prerelease /\ ~said.pre /\ ~running.prerelease
              /\ \E x \in releases : ~x.prerelease

================================================================================
