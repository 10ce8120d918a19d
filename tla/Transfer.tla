------------------------------- MODULE Transfer -------------------------------
(***************************************************************************)
(* The resumable transfer engine (stream_to_file in src/downloader.rs) of  *)
(* one artifact: runs stage its bytes in <dest>.part, remember in the      *)
(* marker <dest>.part.ver which release they belong to, and rename the     *)
(* part onto the destination.  Runs are interrupted anywhere, the server   *)
(* ignores ranges or closes early, and the title is re-released.           *)
(*                                                                         *)
(* A file is a sequence of blocks <<release, index>>.  Nothing keeps two   *)
(* processes off the same part, so files are followed through their        *)
(* descriptors: `fd` says which name the file a run writes goes by now.    *)
(***************************************************************************)
EXTENDS Integers, Sequences, FiniteSets

CONSTANTS Procs,        \* processes that download this artifact
          Versions,     \* its releases
          Longer,       \* the releases that are one block longer
          Length,       \* blocks of every other release
          NoVersion,    \* no marker
          Unopened,     \* whether opening the marker can fail: it then stays
          MaxFaults     \* bound on interruptions and failures

ASSUME VersionsAssumption == NoVersion \notin Versions /\ Longer \subseteq Versions
ASSUME LengthAssumption == Length \in Nat \ {0} /\ MaxFaults \in Nat /\ Unopened \in BOOLEAN

VARIABLES
    kind,      \* which of the artifacts this is, see Tagged and Sized
    ext,       \* the extension its Content-Type calls for
    current,   \* the release the server has now
    released,  \* history: the releases it has had
    license,   \* the release the stored license names
    part,      \* <dest>.part: the set of its contents, empty without a file
    marker,    \* <dest>.part.ver
    files,     \* the destination under each extension, likewise
    run,       \* each process's locals
    faults     \* interruptions so far

vars == <<kind, ext, current, released, license, part, marker, files, run, faults>>

Kinds == {"tagged", "sized", "bare"}
Exts == {"planned", "corrected"}

\* A license gives the size of its audio and, if it has a content reference,
\* the version.  Covers and PDFs come without a license.
Tagged == kind = "tagged"
Sized == kind \in {"tagged", "sized"}

Size(v) == IF v \in Longer THEN Length + 1 ELSE Length
Whole(v) == [i \in 1 .. Size(v) |-> <<v, i>>]
Hole == <<NoVersion, 0>>
Contents == Seq((Versions \X (1 .. Length + 1)) \cup {Hole})

\* No file is {}, a file with contents c is {c}.
File == {{}} \cup {{c} : c \in Contents}
LenOf(f) == IF f = {} THEN 0 ELSE Len(CHOOSE c \in f : TRUE)

Stage == {"idle", "measure", "gate", "size", "request", "open", "stream"}
Idle == [at |-> "idle", force |-> FALSE, want |-> NoVersion, off |-> 0,
         serves |-> NoVersion, wrote |-> 0, fd |-> "none"]

(* The variables stay in their sets, whatever the steps.                   *)
TypeOK ==
    /\ kind \in Kinds /\ ext \in Exts
    /\ released \subseteq Versions /\ current \in released
    /\ license \in released \cup {NoVersion}
    /\ Cardinality(part) <= 1 /\ \A c \in part : c \in Contents
    /\ marker \in Versions \cup {NoVersion}
    /\ \A e \in Exts : Cardinality(files[e]) <= 1
                       /\ \A c \in files[e] : c \in Contents
    /\ \A p \in Procs :
          /\ run[p].at \in Stage /\ run[p].force \in BOOLEAN
          /\ run[p].want \in Versions \cup {NoVersion}
          /\ run[p].serves \in Versions \cup {NoVersion}
          /\ run[p].off \in Nat /\ run[p].wrote \in Nat
          /\ run[p].fd \in {"none", "part"} \cup Exts
    /\ faults \in 0 .. MaxFaults

Init ==
    /\ kind \in Kinds
    /\ ext \in (IF Sized THEN Exts ELSE {"planned"})
    /\ current \in Versions /\ released = {current} /\ license = NoVersion
    /\ part = {} /\ marker = NoVersion
    /\ files = [e \in Exts |-> {}]
    /\ run = [p \in Procs |-> Idle]
    /\ faults = 0

-----------------------------------------------------------------------------

server == <<kind, ext, current, released>>
disk == <<part, marker, files>>

(* The server publishes a corrected release (external).                    *)
Release(v) ==
    /\ v \notin released
    /\ current' = v /\ released' = released \cup {v}
    /\ UNCHANGED <<kind, ext, license, disk, run, faults>>

(* The signed URL of the stored license expires, so it is not used again.  *)
Expire ==
    /\ license # NoVersion
    /\ license' = NoVersion
    /\ UNCHANGED <<server, disk, run, faults>>

Goto(p, next) == run' = [run EXCEPT ![p] = next]

(* A file is unlinked or renamed under whoever has it open.                *)
Elsewhere(from, to) ==
    [q \in Procs |-> [run[q] EXCEPT !.fd = IF @ = from THEN to
                                           ELSE IF @ = to THEN "none" ELSE @]]

(* The destination and every corrected name of it; only a size can tell.   *)
Complete(v) == Sized /\ \E e \in Exts : files[e] # {} /\ LenOf(files[e]) = Size(v)

(* The license fixes the release a run asks for.  A fresh one is stored,   *)
(* unless --no-db-write, and reused while its URL lasts; covers and PDFs   *)
(* come without.                                                           *)
Licensed(reuse, want) ==
    IF reuse THEN /\ license # NoVersion
                  /\ want = license /\ UNCHANGED license
             ELSE /\ want = current
                  /\ license' \in (IF Sized THEN {license, current} ELSE {license})

Start(p, force, reuse) ==
    /\ run[p].at = "idle"
    /\ \E want \in Versions :
          /\ Licensed(reuse, want)
          /\ force \/ ~Complete(want)
          /\ Goto(p, [Idle EXCEPT !.at = "measure", !.force = force, !.want = want])
    /\ UNCHANGED <<server, disk, faults>>

Measure(p) ==
    /\ run[p].at = "measure"
    /\ Goto(p, [run[p] EXCEPT !.at = "gate",
                              !.off = IF run[p].force THEN 0 ELSE LenOf(part)])
    /\ UNCHANGED <<server, license, disk, faults>>

DiscardPart == part' = {}

(* A9: the marker must name the release the partial will be resumed with.  *)
(* Removing the marker is best effort; a part that is gone is an error.    *)
Gate(p) ==
    /\ run[p].at = "gate"
    /\ IF run[p].off > 0 /\ Tagged /\ marker # run[p].want
       THEN IF part = {}
            THEN Goto(p, Idle) /\ UNCHANGED disk
            ELSE /\ DiscardPart
                 /\ marker' \in {marker, NoVersion}
                 /\ run' = [Elsewhere("part", "none") EXCEPT
                              ![p] = [run[p] EXCEPT !.at = "size", !.off = 0]]
                 /\ UNCHANGED files
       ELSE Goto(p, [run[p] EXCEPT !.at = "size"]) /\ UNCHANGED disk
    /\ UNCHANGED <<server, license, faults>>

Publish(p, e) ==
    /\ files' = [files EXCEPT ![e] = part]
    /\ DiscardPart
    /\ marker' \in {marker, NoVersion}
    /\ run' = [Elsewhere("part", e) EXCEPT ![p] = Idle]

(* An oversized partial is corrupt, one of full size needs no request.     *)
SizeGate(p) ==
    /\ run[p].at = "size"
    /\ LET off == run[p].off
           size == Size(run[p].want)
       IN CASE Sized /\ off >= size /\ part = {}
                 -> Goto(p, Idle) /\ UNCHANGED disk
            [] Sized /\ off > size /\ part # {}
                 -> /\ DiscardPart /\ UNCHANGED <<marker, files>>
                    /\ run' = [Elsewhere("part", "none") EXCEPT
                                 ![p] = [run[p] EXCEPT !.at = "request", !.off = 0]]
            [] Sized /\ off = size /\ part # {}
                 -> Publish(p, "planned")
            [] OTHER
                 -> Goto(p, [run[p] EXCEPT !.at = "request"]) /\ UNCHANGED disk
    /\ UNCHANGED <<server, license, faults>>

(* A signed content URL names a release; any other URL serves the current. *)
Serves(p) == IF Tagged THEN run[p].want ELSE current

Answered(p, off) ==
    [run[p] EXCEPT !.at = "open", !.off = off, !.serves = Serves(p)]

(* 206, or 200 when the server ignores the range.                          *)
Request(p) ==
    /\ run[p].at = "request"
    /\ run[p].off < Size(Serves(p))
    /\ \E off \in {0, run[p].off} : Goto(p, Answered(p, off))
    /\ UNCHANGED <<server, license, disk, faults>>

(* Seeded fault: a 416 is an error like any other status.                  *)
PastEndFails(p) ==
    /\ run[p].at = "request"
    /\ run[p].off >= Size(Serves(p))
    /\ Goto(p, Idle)
    /\ UNCHANGED <<server, license, disk, faults>>

(* 416 proves only that the partial is at the end or past it: start over.  *)
PastEnd(p) ==
    /\ run[p].at = "request"
    /\ run[p].off >= Size(Serves(p))
    /\ IF part = {}
       THEN Goto(p, Idle) /\ UNCHANGED disk
       ELSE /\ DiscardPart /\ UNCHANGED <<marker, files>>
            /\ run' = [Elsewhere("part", "none") EXCEPT ![p] = Answered(p, 0)]
    /\ UNCHANGED <<server, license, faults>>

(* Opened to append or truncated; then stamped, as well as can be: a write *)
(* that fails leaves the marker empty.                                     *)
Open(p) ==
    /\ run[p].at = "open"
    /\ part' = IF run[p].off > 0 /\ part # {} THEN part ELSE {<<>>}
    /\ marker' \in IF Tagged
                   THEN {run[p].want, NoVersion} \cup (IF Unopened THEN {marker} ELSE {})
                   ELSE {marker}
    /\ Goto(p, [run[p] EXCEPT !.at = "stream", !.fd = "part", !.wrote = run[p].off])
    /\ UNCHANGED <<server, license, files, faults>>

(* A resumed run writes at the end of the file, a fresh one where it is.   *)
Written(p, c) ==
    LET block == <<run[p].serves, run[p].wrote + 1>>
        at == IF run[p].off > 0 THEN Len(c) + 1 ELSE run[p].wrote + 1
    IN [i \in 1 .. (IF at > Len(c) THEN at ELSE Len(c)) |->
          IF i = at THEN block ELSE IF i <= Len(c) THEN c[i] ELSE Hole]

Stream(p) ==
    /\ run[p].at = "stream" /\ run[p].wrote < Size(run[p].serves)
    /\ part' = IF run[p].fd = "part" THEN {Written(p, c) : c \in part} ELSE part
    /\ files' = [e \in Exts |-> IF run[p].fd = e THEN {Written(p, c) : c \in files[e]}
                                                 ELSE files[e]]
    /\ Goto(p, [run[p] EXCEPT !.wrote = @ + 1])
    /\ UNCHANGED <<server, license, marker, faults>>

(* Seeded fault: the stream's end is the file's end.                       *)
FinishUncounted(p) ==
    /\ run[p].at = "stream"
    /\ IF part = {} THEN Goto(p, Idle) /\ UNCHANGED disk ELSE Publish(p, ext)
    /\ UNCHANGED <<server, license, faults>>

(* The stream ends; only with a size can a wrong byte count be told.  A    *)
(* long file is discarded, a short partial kept for the next run.          *)
Finish(p) ==
    /\ run[p].at = "stream"
    /\ run[p].wrote = Size(run[p].serves)
    /\ LET expected == IF Sized THEN Size(run[p].want) ELSE run[p].wrote
       IN CASE run[p].wrote > expected /\ part # {}
                 -> /\ DiscardPart
                    /\ marker' \in {marker, NoVersion}
                    /\ run' = [Elsewhere("part", "none") EXCEPT ![p] = Idle]
                    /\ UNCHANGED files
            [] run[p].wrote = expected /\ part # {}
                 -> Publish(p, ext)
            [] OTHER
                 -> Goto(p, Idle) /\ UNCHANGED disk
    /\ UNCHANGED <<server, license, faults>>

(* The process is killed, a request or a write fails, the server answers   *)
(* with an error or another type, or it closes early on a sized transfer.  *)
Interrupt(p) ==
    /\ run[p].at # "idle" /\ faults < MaxFaults
    /\ faults' = faults + 1
    /\ Goto(p, Idle)
    /\ UNCHANGED <<server, license, disk>>

(* An early end that looks clean is taken for the whole file when nobody   *)
(* knows its size.                                                         *)
EndsEarly(p) ==
    /\ ~Sized /\ run[p].at = "stream" /\ run[p].wrote < Size(run[p].serves)
    /\ faults < MaxFaults
    /\ faults' = faults + 1
    /\ IF part = {} THEN Goto(p, Idle) /\ UNCHANGED disk ELSE Publish(p, ext)
    /\ UNCHANGED <<server, license>>

Step(p) ==
    \/ Measure(p) \/ Gate(p) \/ SizeGate(p) \/ Request(p) \/ PastEnd(p)
    \/ Open(p) \/ Stream(p) \/ Finish(p)

Next ==
    \/ \E v \in Versions : Release(v)
    \/ Expire
    \/ \E p \in Procs : \/ \E force, reuse \in BOOLEAN : Start(p, force, reuse)
                        \/ Step(p) \/ Interrupt(p) \/ EndsEarly(p)

(* A run that is not interrupted goes on (connect and read timeouts), and  *)
(* the user repeats the download until it is there.                        *)
Spec ==
    /\ Init /\ [][Next]_vars
    /\ \A p \in Procs : WF_vars(Step(p)) /\ WF_vars(Start(p, FALSE, FALSE))
    /\ WF_vars(Expire)

-----------------------------------------------------------------------------

(* Without a license version only an artifact that was never re-released   *)
(* can be vouched for, and without a size none.                            *)
Vouched == Tagged \/ (Sized /\ released = {current})

(* downloader.rs:206: what the destination holds is one release, complete: *)
(* never head-of-old + tail-of-new, never a short or a long transfer,      *)
(* however often it was interrupted and re-released, at the same length    *)
(* too.                                                                    *)
PublishedIsWhole ==
    Vouched => \A e \in Exts : \A c \in files[e] : \E v \in Versions : c = Whole(v)

(* A marker vouches for every block of the partial beside it.              *)
MarkerVouches ==
    Tagged /\ marker # NoVersion =>
        \A c \in part : \A i \in 1 .. Len(c) :
            c[i] = <<marker, i>> /\ i <= Size(marker)

(* A destination that is there stays there: a re-download, forced or not,  *)
(* replaces it in one step.                                                *)
NeverTakenAway == [][\A e \in Exts : files[e] # {} => files'[e] # {}]_vars

(* Repeated runs get the artifact in the end, whatever state an            *)
(* interruption left the part and its marker in.                           *)
Completes == <>[](\E e \in Exts : LenOf(files[e]) = Size(current))
=============================================================================
