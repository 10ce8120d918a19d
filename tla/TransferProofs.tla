----------------------------- MODULE TransferProofs -----------------------------
(***************************************************************************)
(* Theorems about Transfer, for any releases of any length and any number  *)
(* of interruptions, when one process downloads the artifact: what it      *)
(* publishes is one release, complete.                                     *)
(*                                                                         *)
(* (Two processes break this: the run transfer_shared.)                    *)
(*                                                                         *)
(* And about Orphans, for any accounts: a scan for files nobody records    *)
(* deletes none that has been recorded since before it began.              *)
(***************************************************************************)
EXTENDS MCTransfer, TLAPS

(* One process, and a marker that can at least be opened.                  *)
OneWriter == ~Unopened /\ \A p, q \in Procs : p = q

Local == [at : Stage, force : BOOLEAN, want : Versions \cup {NoVersion}, off : Nat,
          serves : Versions \cup {NoVersion}, wrote : Nat,
          fd : {"none", "part"} \cup Exts]

(* The first n blocks of a release, and a part that consists of them.      *)
Blocks(v, n) == [i \in 1 .. n |-> <<v, i>>]
Holding(v, n) == n \in 0 .. Size(v) /\ part = {Blocks(v, n)}
Holds(v) == part = {} \/ \E n \in Nat : Holding(v, n)

(* The server's side: a license names a release there has been.            *)
Known ==
    /\ kind \in Kinds /\ ext \in Exts
    /\ released \subseteq Versions /\ current \in released
    /\ license \in released \cup {NoVersion}

(* The part consists of one release's blocks: of the one that the marker   *)
(* names, or, without a version, of the only one there has been.           *)
Staged ==
    /\ marker \in Versions \cup {NoVersion}
    /\ \E v \in Versions : Holds(v)
    /\ Tagged /\ marker # NoVersion => Holds(marker)
    /\ ~Tagged => Holds(current)

(* What is published.                                                      *)
Published ==
    /\ files = [e \in Exts |-> files[e]]
    /\ \A e \in Exts : \A c \in files[e] : \E v \in Versions : c = Whole(v)

(* A run with the locals r resumes what the part holds, of the release it  *)
(* wants, or starts over.                                                  *)
Fits(r) ==
    /\ r \in Local
    /\ r.at # "idle" => r.want \in Versions /\ (~Tagged => r.want = current)
    /\ r.at = "gate" => r.off \in {0, LenOf(part)}
    /\ r.at \in {"size", "request", "open"} => r.off = 0 \/ Holding(r.want, r.off)
    /\ r.at \in {"open", "stream"} => r.serves = r.want
    /\ r.at = "stream" => /\ r.fd = "part" /\ Holding(r.want, r.wrote)
                          /\ Tagged => marker \in {r.want, NoVersion}

Running == DOMAIN run = Procs /\ \A p \in Procs : Fits(run[p])

Sound == Staged /\ Published /\ Running

IInv == Known /\ (Vouched => Sound)

-----------------------------------------------------------------------------
(* The data.                                                               *)

(* A release has at least one block.                                       *)
LEMMA SizeType == ASSUME NEW v PROVE Size(v) \in Nat /\ Size(v) >= 1
  BY LengthAssumption DEF Size

(* A part of n blocks has length n.                                        *)
LEMMA BlocksLen == ASSUME NEW v, NEW n \in Nat PROVE Len(Blocks(v, n)) = n
  BY DEF Blocks

(* The size of what a part holds.                                          *)
LEMMA HoldingLen ==
  ASSUME NEW v, NEW n \in Nat, part = {Blocks(v, n)}
  PROVE  LenOf(part) = n
<1>1. (CHOOSE c \in part : TRUE) = Blocks(v, n)
  OBVIOUS
<1> QED
  BY <1>1, BlocksLen DEF LenOf

(* The size of a part is a number.                                         *)
LEMMA PartLen ==
  ASSUME Staged
  PROVE  LenOf(part) \in Nat
<1>1. CASE part = {}
  BY <1>1 DEF LenOf
<1>2. CASE part # {}
  <2>1. PICK v \in Versions, n \in Nat : Holding(v, n)
    BY <1>2 DEF Staged, Holds
  <2> QED
    BY <2>1, HoldingLen DEF Holding
<1> QED
  BY <1>1, <1>2

(* All the blocks are the release.                                         *)
LEMMA BlocksWhole == ASSUME NEW v PROVE Blocks(v, Size(v)) = Whole(v)
  BY DEF Blocks, Whole

(* One more block.                                                         *)
LEMMA BlocksNext ==
  ASSUME NEW v, NEW n \in Nat, NEW p, run[p].serves = v, run[p].wrote = n
  PROVE  Written(p, Blocks(v, n)) = Blocks(v, n + 1)
<1>1. Len(Blocks(v, n)) = n
  BY BlocksLen
<1>2. Written(p, Blocks(v, n)) =
        [i \in 1 .. n + 1 |-> IF i = n + 1 THEN <<v, n + 1>>
                              ELSE IF i <= n THEN Blocks(v, n)[i] ELSE Hole]
  BY <1>1 DEF Written
<1>3. \A i \in 1 .. n : Blocks(v, n)[i] = <<v, i>>
  BY DEF Blocks
<1>4. \A i \in 1 .. n + 1 : i # n + 1 => i \in 1 .. n /\ i <= n
  OBVIOUS
<1>5. \A i \in 1 .. n + 1 : (IF i = n + 1 THEN <<v, n + 1>>
                            ELSE IF i <= n THEN Blocks(v, n)[i] ELSE Hole) = <<v, i>>
  BY <1>3, <1>4
<1>6. Blocks(v, n + 1) = [i \in 1 .. n + 1 |-> <<v, i>>]
  BY DEF Blocks
<1> QED
  BY <1>2, <1>5, <1>6

(* What can be vouched for sizes its parts; a new release ends the vouching*)
(* unless there is a version.                                              *)
LEMMA VouchedSized == Vouched => Sized
  BY DEF Vouched, Tagged, Sized

(* The locals of a run are what its step made of them: nobody else runs.   *)
LEMMA Alone ==
  ASSUME OneWriter, Running, NEW p \in Procs, NEW r, NEW from, NEW to,
         Goto(p, r) \/ run' = [Elsewhere(from, to) EXCEPT ![p] = r],
         Fits(r)'
  PROVE  Running'
<1>1. DOMAIN run' = Procs /\ run'[p] = r
  BY DEF Goto, Elsewhere, Running
<1> QED
  BY <1>1 DEF Running, OneWriter

-----------------------------------------------------------------------------
(* The steps.                                                              *)

(* Nothing but a run's locals changes.                                     *)
LEMMA QuietStep ==
  ASSUME OneWriter, Sound, NEW p \in Procs, NEW r, Goto(p, r), Fits(r),
         UNCHANGED <<kind, current, disk>>
  PROVE  Sound'
<1>1. Fits(r)'
  BY DEF Fits, disk, Holding, LenOf, Tagged
<1>2. Running'
  BY <1>1, Alone DEF Sound
<1>3. Staged' /\ Published'
  BY DEF Sound, Staged, Published, Holds, Holding, Tagged, disk
<1> QED
  BY <1>2, <1>3 DEF Sound

(* The part is gone, and the marker perhaps.                               *)
LEMMA ClearedStep ==
  ASSUME OneWriter, Known, Sound, NEW p \in Procs, NEW r, NEW from, NEW to,
         run' = [Elsewhere(from, to) EXCEPT ![p] = r],
         part' = {}, marker' \in {marker, NoVersion}, UNCHANGED <<kind, current>>,
         Fits(r)', Published'
  PROVE  Sound'
<1>1. Running'
  BY Alone DEF Sound
<1>2. Staged'
  BY DEF Sound, Staged, Holds, Known
<1> QED
  BY <1>1, <1>2 DEF Sound

(* A run that is over fits whatever is there.                              *)
LEMMA IdleFits == Fits(Idle) /\ Fits(Idle)'
  BY DEF Fits, Idle, Local, Stage

(* A part that is all of a release can be published under any name.        *)
LEMMA PublishStep ==
  ASSUME OneWriter, Known, Sound, NEW p \in Procs, NEW e \in Exts, Publish(p, e),
         UNCHANGED <<kind, current>>, NEW v \in Versions, Holding(v, Size(v))
  PROVE  Sound'
<1>1. part = {Whole(v)}
  BY BlocksWhole DEF Holding
<1>2. Published'
  BY <1>1 DEF Publish, Sound, Published, Whole, Size
<1> QED
  BY <1>2, IdleFits, ClearedStep DEF Publish, DiscardPart

(* A run begins with the release of its license.                           *)
LEMMA StartKeeps ==
  ASSUME OneWriter, Known, Vouched, Sound, NEW p \in Procs,
         NEW force \in BOOLEAN, NEW reuse \in BOOLEAN, Start(p, force, reuse)
  PROVE  Sound'
<1>1. UNCHANGED <<kind, current, disk>>
  BY DEF Start, server
<1>2. PICK want \in Versions :
         /\ Licensed(reuse, want)
         /\ Goto(p, [Idle EXCEPT !.at = "measure", !.force = force, !.want = want])
  BY DEF Start
<1>3. ~Tagged => want = current
  BY <1>2 DEF Licensed, Vouched, Known
<1>4. PICK r : r = [Idle EXCEPT !.at = "measure", !.force = force, !.want = want]
  OBVIOUS
<1>5. Fits(r)
  BY <1>3, <1>4 DEF Fits, Idle, Local, Stage
<1> QED
  BY <1>1, <1>2, <1>4, <1>5, QuietStep

(* The size of the part is measured.                                       *)
LEMMA MeasureKeeps ==
  ASSUME OneWriter, Sound, NEW p \in Procs, Measure(p)
  PROVE  Sound'
<1>1. PICK r : r = [run[p] EXCEPT !.at = "gate", !.off = IF run[p].force THEN 0 ELSE LenOf(part)]
  OBVIOUS
<1>2. LenOf(part) \in Nat
  BY PartLen DEF Sound
<1>3. Fits(run[p]) /\ run[p].at = "measure"
  BY DEF Sound, Running, Measure
<1>4. Fits(r)
  BY <1>1, <1>2, <1>3 DEF Fits, Local, Stage
<1> QED
  BY <1>1, <1>4, QuietStep DEF Measure, server

(* The gate lets a partial pass only when the marker vouches for it.       *)
LEMMA GateKeeps ==
  ASSUME OneWriter, Known, Vouched, Sound, NEW p \in Procs, Gate(p)
  PROVE  Sound'
<1>1. Fits(run[p]) /\ run[p].at = "gate" /\ UNCHANGED <<kind, current>>
  BY DEF Sound, Running, Gate, server
<1>2. CASE run[p].off > 0 /\ Tagged /\ marker # run[p].want /\ part = {}
  BY <1>1, <1>2, IdleFits, QuietStep DEF Gate
<1>3. CASE run[p].off > 0 /\ Tagged /\ marker # run[p].want /\ part # {}
  <2>1. PICK r : r = [run[p] EXCEPT !.at = "size", !.off = 0]
    OBVIOUS
  <2>2. Fits(r)'
    BY <1>1, <2>1 DEF Fits, Local, Stage, Tagged
  <2>3. /\ run' = [Elsewhere("part", "none") EXCEPT ![p] = r]
        /\ part' = {} /\ marker' \in {marker, NoVersion} /\ UNCHANGED files
    BY <1>3, <2>1 DEF Gate, DiscardPart
  <2>4. Published'
    BY <2>3 DEF Sound, Published
  <2> QED
    BY <1>1, <2>2, <2>3, <2>4, ClearedStep
<1>4. CASE ~(run[p].off > 0 /\ Tagged /\ marker # run[p].want)
  <2>1. PICK r : r = [run[p] EXCEPT !.at = "size"]
    OBVIOUS
  <2>2. Goto(p, r) /\ UNCHANGED disk
    BY <1>4, <2>1 DEF Gate
  <2>3. run[p].off = 0 \/ Holding(run[p].want, run[p].off)
    <3> SUFFICES ASSUME run[p].off # 0 PROVE Holding(run[p].want, run[p].off)
      OBVIOUS
    <3>1. run[p].off = LenOf(part) /\ run[p].off \in Nat /\ run[p].want \in Versions
      BY <1>1 DEF Fits, Local
    <3>2. Holds(run[p].want)
      BY <1>1, <1>4, <3>1, VersionsAssumption DEF Sound, Staged, Fits
    <3>3. part # {}
      BY <3>1 DEF LenOf
    <3>4. PICK n \in Nat : Holding(run[p].want, n)
      BY <3>2, <3>3 DEF Holds
    <3> QED
      BY <3>1, <3>4, HoldingLen DEF Holding
  <2>4. Fits(r)
    BY <1>1, <2>1, <2>3 DEF Fits, Local, Stage
  <2> QED
    BY <1>1, <2>2, <2>4, QuietStep
<1> QED
  BY <1>2, <1>3, <1>4

(* A partial of full size is published; one that is kept is not longer.    *)
LEMMA SizeGateKeeps ==
  ASSUME OneWriter, Known, Vouched, Sound, NEW p \in Procs, SizeGate(p)
  PROVE  Sound'
<1> DEFINE off == run[p].off
           size == Size(run[p].want)
<1>1. Fits(run[p]) /\ run[p].at = "size" /\ UNCHANGED <<kind, current>>
  BY DEF Sound, Running, SizeGate, server
<1>2. off \in Nat /\ run[p].want \in Versions /\ (off = 0 \/ Holding(run[p].want, off))
  BY <1>1 DEF Fits, Local
<1>3. size \in Nat /\ size >= 1 /\ off <= size
  BY <1>2, SizeType DEF Holding
<1>4. CASE off = size /\ part # {}
  <2>1. Holding(run[p].want, Size(run[p].want))
    BY <1>2, <1>3, <1>4
  <2>2. Publish(p, "planned")
    BY <1>3, <1>4, VouchedSized DEF SizeGate
  <2> QED
    BY <1>1, <1>2, <2>1, <2>2, PublishStep DEF Exts
<1>5. CASE off < size
  <2>1. PICK r : r = [run[p] EXCEPT !.at = "request"]
    OBVIOUS
  <2>2. Goto(p, r) /\ UNCHANGED disk
    BY <1>2, <1>3, <1>5, <2>1, VouchedSized DEF SizeGate
  <2>3. Fits(r)
    BY <1>1, <1>2, <2>1 DEF Fits, Local, Stage
  <2> QED
    BY <1>1, <2>2, <2>3, QuietStep
<1>6. part # {} \/ off < size
  BY <1>2, <1>3 DEF Holding
<1> QED
  BY <1>2, <1>3, <1>4, <1>5, <1>6

(* What the server sends is what the run wants.                            *)
LEMMA ServesWanted ==
  ASSUME Sound, NEW p \in Procs, run[p].at # "idle"
  PROVE  Serves(p) = run[p].want
  BY DEF Sound, Running, Fits, Serves

(* An answer continues the part or starts it over.                         *)
LEMMA RequestKeeps ==
  ASSUME OneWriter, Sound, NEW p \in Procs, Request(p)
  PROVE  Sound'
<1>1. Fits(run[p]) /\ run[p].at = "request" /\ UNCHANGED <<kind, current, disk>>
  BY DEF Sound, Running, Request, server
<1>2. PICK off \in {0, run[p].off} : Goto(p, Answered(p, off))
  BY DEF Request
<1>3. PICK r : r = [run[p] EXCEPT !.at = "open", !.off = off, !.serves = run[p].want]
  OBVIOUS
<1>4. Answered(p, off) = r
  BY <1>1, <1>3, ServesWanted DEF Answered
<1>5. off \in Nat /\ (off = 0 \/ Holding(run[p].want, off))
  BY <1>1, <1>2 DEF Fits, Local
<1>6. Fits(r)
  BY <1>1, <1>3, <1>5 DEF Fits, Local, Stage
<1> QED
  BY <1>1, <1>2, <1>4, <1>6, QuietStep

(* Past the end the part is discarded.                                     *)
LEMMA PastEndKeeps ==
  ASSUME OneWriter, Known, Sound, NEW p \in Procs, PastEnd(p)
  PROVE  Sound'
<1>1. Fits(run[p]) /\ run[p].at = "request" /\ UNCHANGED <<kind, current>>
  BY DEF Sound, Running, PastEnd, server
<1>2. CASE part = {}
  BY <1>1, <1>2, IdleFits, QuietStep DEF PastEnd
<1>3. CASE part # {}
  <2>1. PICK r : r = Answered(p, 0)
    OBVIOUS
  <2>2. Fits(r)'
    BY <1>1, <2>1, ServesWanted DEF Fits, Local, Stage, Answered, Tagged
  <2>3. /\ run' = [Elsewhere("part", "none") EXCEPT ![p] = r]
        /\ part' = {} /\ UNCHANGED <<marker, files>>
    BY <1>3, <2>1 DEF PastEnd, DiscardPart
  <2>4. Published'
    BY <2>3 DEF Sound, Published
  <2> QED
    BY <1>1, <2>2, <2>3, <2>4, ClearedStep
<1> QED
  BY <1>2, <1>3

(* An open part continues the wanted release from what it holds, or from   *)
(* nothing; the stamp names that release, or none.                         *)
LEMMA OpenKeeps ==
  ASSUME OneWriter, Known, Vouched, Sound, NEW p \in Procs, Open(p)
  PROVE  Sound'
<1>0. PICK want, off : want = run[p].want /\ off = run[p].off
  OBVIOUS
<1>1. Fits(run[p]) /\ run[p].at = "open" /\ UNCHANGED <<kind, current, files>>
  BY DEF Sound, Running, Open, server
<1>2. off \in Nat /\ want \in Versions /\ (off = 0 \/ Holding(want, off))
  BY <1>0, <1>1 DEF Fits, Local
<1>3. Holding(want, off)'
  <2>1. CASE off = 0
    <3>1. part' = {<<>>} /\ Blocks(want, 0) = <<>>
      BY <1>0, <2>1 DEF Open, Blocks
    <3>2. 0 \in 0 .. Size(want)
      BY SizeType
    <3> QED
      BY <2>1, <3>1, <3>2 DEF Holding, Size
  <2>2. CASE off # 0
    <3>1. part' = part
      BY <1>0, <1>2, <2>2 DEF Open, Holding
    <3> QED
      BY <1>2, <2>2, <3>1 DEF Holding
  <2> QED
    BY <2>1, <2>2
<1>4. /\ marker' \in {marker, want, NoVersion}
      /\ Tagged => marker' \in {want, NoVersion}
  BY <1>0 DEF Open, OneWriter
<1>5. PICK r : r = [run[p] EXCEPT !.at = "stream", !.fd = "part", !.wrote = off]
  OBVIOUS
<1>6. Goto(p, r)
  BY <1>0, <1>5 DEF Open
<1>7. Fits(r)'
  <2>1. r \in Local /\ r.want = want /\ r.serves = want /\ r.wrote = off /\ r.fd = "part" /\ r.at = "stream"
    BY <1>0, <1>1, <1>2, <1>5 DEF Fits, Local, Stage
  <2>2. ~Tagged => want = current
    BY <1>0, <1>1 DEF Fits
  <2> QED
    BY <1>1, <1>2, <1>3, <1>4, <2>1, <2>2 DEF Fits, Tagged
<1>8. Staged'
  <2>1. Holds(want)'
    BY <1>2, <1>3 DEF Holds
  <2>2. ~Tagged => want = current
    BY <1>0, <1>1 DEF Fits
  <2>3. marker' \in Versions \cup {NoVersion}
    BY <1>2, <1>4 DEF Sound, Staged
  <2> QED
    BY <1>1, <1>2, <1>4, <2>1, <2>2, <2>3 DEF Staged, Tagged
<1>9. Running' /\ Published'
  <2>1. Running'
    BY <1>6, <1>7, Alone DEF Sound
  <2> QED
    BY <1>1, <2>1 DEF Sound, Published
<1> QED
  BY <1>8, <1>9 DEF Sound

(* A block is written behind the last.                                     *)
LEMMA StreamKeeps ==
  ASSUME OneWriter, Known, Vouched, Sound, NEW p \in Procs, Stream(p)
  PROVE  Sound'
<1>0. PICK want, n : want = run[p].want /\ n = run[p].wrote
  OBVIOUS
<1>1. Fits(run[p]) /\ run[p].at = "stream" /\ UNCHANGED <<kind, current, marker>>
  BY DEF Sound, Running, Stream, server
<1>2. /\ n \in Nat /\ want \in Versions /\ run[p].serves = want /\ run[p].fd = "part"
      /\ part = {Blocks(want, n)} /\ n < Size(want)
  BY <1>0, <1>1 DEF Fits, Local, Holding, Stream
<1>3. part' = {Blocks(want, n + 1)} /\ UNCHANGED files
  <2>1. Written(p, Blocks(want, n)) = Blocks(want, n + 1)
    BY <1>0, <1>2, BlocksNext
  <2>2. part' = {Written(p, Blocks(want, n))}
    BY <1>0, <1>2 DEF Stream
  <2>3. files' = [e \in Exts |-> files[e]]
    BY <1>2 DEF Stream, Exts
  <2> QED
    BY <2>1, <2>2, <2>3 DEF Sound, Published
<1>4. Holding(want, n + 1)'
  <2>1. n + 1 \in 0 .. Size(want)
    BY <1>2, SizeType
  <2> QED
    BY <1>3, <2>1 DEF Holding, Size
<1>5. PICK r : r = [run[p] EXCEPT !.wrote = n + 1]
  OBVIOUS
<1>6. Goto(p, r)
  BY <1>0, <1>5 DEF Stream
<1>7. Fits(r)'
  <2>1. /\ r \in Local /\ r.want = want /\ r.serves = want /\ r.wrote = n + 1
        /\ r.fd = "part" /\ r.at = "stream"
    BY <1>0, <1>1, <1>2, <1>5 DEF Fits, Local
  <2>2. (~Tagged => want = current) /\ (Tagged => marker \in {want, NoVersion})
    BY <1>0, <1>1 DEF Fits
  <2> QED
    BY <1>1, <1>2, <1>4, <2>1, <2>2 DEF Fits, Tagged
<1>8. Staged'
  <2>1. Holds(want)'
    BY <1>2, <1>4 DEF Holds
  <2>2. (~Tagged => want = current) /\ (Tagged => marker \in {want, NoVersion})
    BY <1>0, <1>1 DEF Fits
  <2> QED
    BY <1>1, <1>2, <2>1, <2>2 DEF Staged, Tagged, Sound
<1>9. Running' /\ Published'
  <2>1. Running'
    BY <1>6, <1>7, Alone DEF Sound
  <2> QED
    BY <1>3, <2>1 DEF Sound, Published
<1> QED
  BY <1>8, <1>9 DEF Sound

(* The stream has brought all of the wanted release: it is published.      *)
LEMMA FinishKeeps ==
  ASSUME OneWriter, Known, Vouched, Sound, NEW p \in Procs, Finish(p)
  PROVE  Sound'
<1>1. Fits(run[p]) /\ run[p].at = "stream" /\ UNCHANGED <<kind, current>>
  BY DEF Sound, Running, Finish, server
<1>2. /\ run[p].want \in Versions /\ run[p].serves = run[p].want
      /\ run[p].wrote = Size(run[p].want) /\ Holding(run[p].want, run[p].wrote)
  BY <1>1 DEF Fits, Finish
<1>3. part # {} /\ Size(run[p].want) \in Nat
  BY <1>2, SizeType DEF Holding
<1>4. Publish(p, ext)
  BY <1>2, <1>3, VouchedSized DEF Finish
<1> QED
  BY <1>1, <1>2, <1>4, PublishStep DEF Known

(* An interrupted run leaves all as it is.                                 *)
LEMMA InterruptKeeps ==
  ASSUME OneWriter, Sound, NEW p \in Procs, Interrupt(p)
  PROVE  Sound'
  BY IdleFits, QuietStep DEF Interrupt, server

-----------------------------------------------------------------------------
(* No run begins with a part, a file or a re-release.                      *)
LEMMA InitHolds == Init => IInv
<1> SUFFICES ASSUME Init PROVE IInv
  OBVIOUS
<1>1. Known
  BY DEF Init, Known, Exts
<1>2. Staged /\ Published
  BY DEF Init, Staged, Published, Holds, Exts
<1>3. Running
  BY IdleFits DEF Init, Running
<1> QED
  BY <1>1, <1>2, <1>3 DEF IInv, Sound

(* The server's side changes by releases and licenses only; what can be    *)
(* vouched for after a step could be before it, and is then untouched.     *)
LEMMA ServerKeeps ==
  ASSUME Known, [Next]_vars
  PROVE  Known' /\ (Vouched' => Vouched /\ UNCHANGED kind /\ (Tagged \/ UNCHANGED current))
<1>1. ASSUME NEW v \in Versions, Release(v)
      PROVE  Known' /\ (Vouched' => Vouched /\ UNCHANGED kind /\ (Tagged \/ UNCHANGED current))
  BY <1>1 DEF Release, Known, Vouched, Tagged, Sized
<1>2. CASE UNCHANGED server /\ license' \in {license, current, NoVersion}
  BY <1>2 DEF server, Known, Vouched, Tagged, Sized
<1>3. CASE Expire
  BY <1>2, <1>3 DEF Expire
<1>4. ASSUME NEW p \in Procs, NEW force \in BOOLEAN, NEW reuse \in BOOLEAN, Start(p, force, reuse)
      PROVE  UNCHANGED server /\ license' \in {license, current}
  BY <1>4 DEF Start, Licensed
<1>5. ASSUME NEW p \in Procs, Step(p) \/ Interrupt(p) \/ EndsEarly(p)
      PROVE  UNCHANGED server /\ license' = license
  BY <1>5 DEF Step, Measure, Gate, SizeGate, Request, PastEnd, Open, Stream, Finish,
              Interrupt, EndsEarly
<1>6. CASE UNCHANGED vars
  BY <1>2, <1>6 DEF vars, server
<1> QED
  BY <1>1, <1>2, <1>3, <1>4, <1>5, <1>6 DEF Next

(* Every step keeps what is vouched for.                                   *)
LEMMA StepKeeps ==
  ASSUME OneWriter, IInv, [Next]_vars
  PROVE  IInv'
<1>1. Known' /\ (Vouched' => Vouched /\ UNCHANGED kind /\ (Tagged \/ UNCHANGED current))
  BY ServerKeeps DEF IInv
<1> SUFFICES ASSUME Vouched' PROVE Sound'
  BY <1>1 DEF IInv
<1>2. Known /\ Vouched /\ Sound
  BY <1>1 DEF IInv
<1>3. CASE UNCHANGED <<part, marker, files, run>>
  <2>1. \A r : Fits(r) => Fits(r)'
    BY <1>1, <1>3 DEF Fits, Holding, LenOf, Tagged
  <2>2. Staged' /\ Published' /\ Running'
    BY <1>1, <1>2, <1>3, <2>1 DEF Sound, Staged, Published, Running, Holds, Holding, Tagged
  <2> QED
    BY <2>2 DEF Sound
<1>4. ASSUME NEW p \in Procs, NEW force \in BOOLEAN, NEW reuse \in BOOLEAN, Start(p, force, reuse)
      PROVE  Sound'
  BY <1>2, <1>4, StartKeeps
<1>5. ASSUME NEW p \in Procs, Step(p)
      PROVE  Sound'
  BY <1>2, <1>5, MeasureKeeps, GateKeeps, SizeGateKeeps, RequestKeeps, PastEndKeeps,
     OpenKeeps, StreamKeeps, FinishKeeps DEF Step
<1>6. ASSUME NEW p \in Procs, Interrupt(p) \/ EndsEarly(p)
      PROVE  Sound'
  BY <1>2, <1>6, InterruptKeeps, VouchedSized DEF EndsEarly
<1>7. (\E v \in Versions : Release(v)) \/ Expire \/ UNCHANGED vars => UNCHANGED <<part, marker, files, run>>
  BY DEF Release, Expire, vars, disk
<1> QED
  BY <1>3, <1>4, <1>5, <1>6, <1>7 DEF Next

(* Whatever interrupts one process, and however often the title is         *)
(* re-released, what the destination holds is one release, complete.       *)
THEOREM PublishesWhole == OneWriter => (Spec => []PublishedIsWhole)
<1> SUFFICES ASSUME OneWriter PROVE Spec => []PublishedIsWhole
  OBVIOUS
<1>1. IInv /\ [Next]_vars => IInv'
  BY StepKeeps
<1>2. IInv => PublishedIsWhole
  BY DEF IInv, Sound, Published, PublishedIsWhole
<1> QED
  BY <1>1, <1>2, InitHolds, PTL DEF Spec

-----------------------------------------------------------------------------
(* Orphans: what a scan deletes, against what was recorded meanwhile.      *)

ScanFields == {"at", "unread", "referenced", "listed", "tries"}

(* Only audio files are recorded, each by one account.                     *)
RecordsApart ==
    /\ DOMAIN records = Accounts
    /\ \A a \in Accounts : \A p \in records[a] : \E s \in O!Stems : p = O!Audio(s)
    /\ \A a, b \in Accounts : a # b => records[a] \cap records[b] = {}

(* What stays recorded is referenced, or is still to be read.              *)
Covered ==
    \A p \in kept : \/ p \in scan.referenced
                    \/ \E a \in scan.unread : p \in O!Owned(records[a])

ScanInv ==
    /\ RecordsApart
    /\ DOMAIN scan = ScanFields /\ scan.unread \subseteq Accounts
    /\ scan.at = "walk" => scan.unread = {}
    /\ scan.at \in {"read", "walk"} => Covered
    /\ scan.at \in {"ask", "delete"} => kept \cap scan.listed = {}

(* A record owns its path and the key beside it.                           *)
LEMMA OwnedMembers ==
  ASSUME NEW r, NEW p
  PROVE  p \in O!Owned(r) <=> p \in r \/ \E q \in r : p \in O!Sidecar(q)
<1>1. PICK beside : beside = UNION {O!Sidecar(q) : q \in r}
  OBVIOUS
<1>2. p \in beside <=> \E q \in r : p \in O!Sidecar(q)
  BY <1>1
<1>3. O!Owned(r) = r \cup beside
  BY <1>1 DEF O!Owned
<1> QED
  BY <1>2, <1>3

(* What all records together own, one of them owns.                        *)
LEMMA OwnedByOne ==
  ASSUME NEW owner, DOMAIN owner = Accounts, NEW p \in O!Owned(UNION {owner[a] : a \in Accounts})
  PROVE  \E a \in Accounts : p \in O!Owned(owner[a])
<1>1. PICK all : all = UNION {owner[a] : a \in Accounts}
  OBVIOUS
<1>2. \A q \in all : \E a \in Accounts : q \in owner[a]
  BY <1>1
<1>3. p \in all \/ \E q \in all : p \in O!Sidecar(q)
  BY <1>1, OwnedMembers
<1>4. PICK a \in Accounts : p \in owner[a] \/ \E q \in owner[a] : p \in O!Sidecar(q)
  BY <1>2, <1>3
<1> QED
  BY <1>4, OwnedMembers

(* And no two of them own the same.                                        *)
LEMMA OneOwner ==
  ASSUME RecordsApart, NEW a \in Accounts, NEW b \in Accounts, NEW p,
         p \in O!Owned(records[a]), p \in O!Owned(records[b])
  PROVE  a = b
<1>1. \A q : \A s \in O!Stems : q \in O!Sidecar(O!Audio(s)) => q = O!Key(s)
  BY DEF O!Sidecar, O!Audio
<1>2. \A s, t : O!Key(s) # O!Audio(t) /\ (O!Key(s) = O!Key(t) => s = t)
  BY DEF O!Key, O!Audio
<1>3. PICK s \in O!Stems : O!Audio(s) \in records[a] /\ (p = O!Audio(s) \/ p = O!Key(s))
  BY <1>1, OwnedMembers DEF RecordsApart
<1>4. PICK t \in O!Stems : O!Audio(t) \in records[b] /\ (p = O!Audio(t) \/ p = O!Key(t))
  BY <1>1, OwnedMembers DEF RecordsApart
<1>5. O!Audio(s) = O!Audio(t)
  BY <1>2, <1>3, <1>4
<1> QED
  BY <1>3, <1>4, <1>5 DEF RecordsApart

(* An account's records change: what stays recorded stays with its owner.  *)
LEMMA RecordsCover ==
  ASSUME ScanInv, NEW a \in Accounts, NEW new,
         records' = [records EXCEPT ![a] = new], RecordsApart',
         O!StillKept, scan' = scan
  PROVE  ScanInv'
<1>1. kept' \subseteq kept
  BY DEF O!StillKept
<1>2. DOMAIN records = Accounts /\ DOMAIN records' = Accounts
  BY DEF ScanInv, RecordsApart
<1>3. ASSUME Covered PROVE Covered'
  <2> SUFFICES ASSUME NEW p \in kept', p \notin scan.referenced
               PROVE  \E b \in scan.unread : p \in O!Owned(records'[b])
    BY DEF Covered
  <2>1. PICK b \in scan.unread : p \in O!Owned(records[b])
    BY <1>1, <1>3 DEF Covered
  <2>2. b \in Accounts
    BY DEF ScanInv
  <2>3. PICK owner : owner = records'
    OBVIOUS
  <2>4. p \in O!Owned(UNION {owner[c] : c \in Accounts}) /\ DOMAIN owner = Accounts
    BY <1>2, <2>3 DEF O!StillKept
  <2>5. PICK c \in Accounts : p \in O!Owned(owner[c])
    BY <2>4, OwnedByOne
  <2>6. CASE c = a
    <3>1. CASE b = a
      BY <2>1, <2>3, <2>5, <2>6, <3>1
    <3>2. CASE b # a
      BY <1>2, <2>1, <2>2, <3>2
    <3> QED
      BY <3>1, <3>2
  <2>7. CASE c # a
    <3>1. owner[c] = records[c]
      BY <1>2, <2>3, <2>7
    <3>2. p \in O!Owned(records[c])
      BY <2>5, <3>1
    <3>3. c = b
      BY <2>1, <2>2, <3>2, OneOwner DEF ScanInv
    <3> QED
      BY <2>1, <2>3, <2>5, <3>3
  <2> QED
    BY <2>6, <2>7
<1> QED
  BY <1>1, <1>3 DEF ScanInv

(* The commands beside the scan.                                           *)
LEMMA CommandsCover ==
  ASSUME ScanInv,
         \/ \E s \in O!Stems : O!BeginDownload(s) \/ O!Publish(s)
         \/ \E a \in Accounts, s, t \in O!Stems : \E which \in {"aaxc", "voucher"} :
               O!MoveFile(a, s, t, which)
         \/ \E a \in Accounts : O!Holds(a)
  PROVE  ScanInv'
<1>1. UNCHANGED <<records, scan, kept>>
  BY DEF O!BeginDownload, O!Publish, O!MoveFile, O!Holds
<1> QED
  BY <1>1 DEF ScanInv, RecordsApart, Covered

(* A new record takes nothing from what others own.                        *)
LEMMA RecordDownloadCovers ==
  ASSUME ScanInv, NEW a \in Accounts, NEW s \in O!Stems, O!RecordDownload(a, s)
  PROVE  ScanInv'
<1>1. records' = [records EXCEPT ![a] = records[a] \cup {O!Audio(s)}] /\ UNCHANGED <<scan, kept>>
  BY DEF O!RecordDownload
<1>2. \A b \in Accounts : O!Audio(s) \notin records[b]
  BY DEF O!RecordDownload, O!Recorded
<1>3. RecordsApart'
  BY <1>1, <1>2 DEF ScanInv, RecordsApart
<1>4. \A b \in Accounts : records[b] \subseteq records'[b]
  BY <1>1 DEF ScanInv, RecordsApart
<1>5. \A b \in Accounts : \A p : p \in O!Owned(records[b]) => p \in O!Owned(records'[b])
  BY <1>4, OwnedMembers
<1>6. Covered => Covered'
  BY <1>1, <1>5 DEF ScanInv, Covered
<1> QED
  BY <1>1, <1>3, <1>6 DEF ScanInv

(* A record moves or goes.                                                 *)
LEMMA RecordMovesCover ==
  ASSUME ScanInv, NEW a \in Accounts, NEW s \in O!Stems,
         \/ \E t \in O!Stems : O!MoveRecord(a, s, t)
         \/ \E gone \in BOOLEAN : O!Forget(a, s, gone)
  PROVE  ScanInv'
<1>1. CASE \E t \in O!Stems : O!MoveRecord(a, s, t)
  <2>1. PICK t \in O!Stems : O!MoveRecord(a, s, t)
    BY <1>1
  <2>2. PICK new : new = (records[a] \ {O!Audio(s)}) \cup {O!Audio(t)}
    OBVIOUS
  <2>3. records' = [records EXCEPT ![a] = new] /\ O!StillKept /\ scan' = scan
    BY <2>1, <2>2 DEF O!MoveRecord
  <2>4. \A b \in Accounts : O!Audio(t) \notin records[b]
    BY <2>1 DEF O!MoveRecord, O!Recorded
  <2>5. RecordsApart'
    BY <2>2, <2>3, <2>4 DEF ScanInv, RecordsApart
  <2> QED
    BY <2>3, <2>5, RecordsCover
<1>2. CASE \E gone \in BOOLEAN : O!Forget(a, s, gone)
  <2>1. PICK new : new = records[a] \ {O!Audio(s)}
    OBVIOUS
  <2>2. records' = [records EXCEPT ![a] = new] /\ O!StillKept /\ scan' = scan
    BY <1>2, <2>1 DEF O!Forget
  <2>3. RecordsApart'
    BY <2>1, <2>2 DEF ScanInv, RecordsApart
  <2> QED
    BY <2>2, <2>3, RecordsCover
<1> QED
  BY <1>1, <1>2

(* The databases are read, one after the other.                            *)
LEMMA ReadCovers ==
  ASSUME ScanInv, NEW a \in Accounts, O!Read(a)
  PROVE  ScanInv'
<1>1. /\ scan.at = "read" /\ a \in scan.unread
      /\ scan' = [scan EXCEPT !.unread = @ \ {a}, !.tries = 0,
                              !.referenced = @ \cup O!Owned(records[a]),
                              !.at = IF scan.unread = {a} THEN "walk" ELSE "read"]
      /\ UNCHANGED <<records, kept>>
  BY DEF O!Read
<1>2. PICK owned : owned = O!Owned(records[a])
  OBVIOUS
<1>3. PICK at : at = IF scan.unread = {a} THEN "walk" ELSE "read"
  OBVIOUS
<1>4. PICK fewer : fewer = scan.unread \ {a}
  OBVIOUS
<1>5. PICK more : more = scan.referenced \cup owned
  OBVIOUS
<1>6. /\ DOMAIN scan' = ScanFields /\ scan'.at = at /\ scan'.unread = fewer
      /\ scan'.referenced = more /\ scan'.listed = scan.listed
  BY <1>1, <1>2, <1>3, <1>4, <1>5 DEF ScanInv, ScanFields
<1>7. at = "walk" => fewer = {}
  BY <1>3, <1>4
<1>8. Covered'
  <2>1. Covered
    BY <1>1 DEF ScanInv
  <2> SUFFICES ASSUME NEW p \in kept, p \notin more
               PROVE  \E b \in fewer : p \in O!Owned(records[b])
    BY <1>1, <1>6 DEF Covered
  <2>2. PICK b \in scan.unread : p \in O!Owned(records[b])
    BY <1>5, <2>1 DEF Covered
  <2>3. b # a
    BY <1>2, <1>5, <2>2
  <2> QED
    BY <1>4, <2>2, <2>3
<1> QED
  BY <1>1, <1>3, <1>4, <1>6, <1>7, <1>8 DEF ScanInv, RecordsApart

(* The scan begins, tries again, gives up, walks, asks and deletes.        *)
LEMMA ScanCovers ==
  ASSUME ScanInv,
         \/ O!Begin \/ O!Walk
         \/ \E a \in Accounts : O!Retry(a) \/ O!Abort(a)
         \/ \E yes \in BOOLEAN : O!Confirm(yes)
         \/ \E p \in O!Paths : O!Delete(p)
  PROVE  ScanInv'
<1>1. UNCHANGED records /\ RecordsApart'
  BY DEF O!Begin, O!Walk, O!Retry, O!Abort, O!Confirm, O!Delete, ScanInv, RecordsApart
<1>2. CASE scan' = O!Idle
  BY <1>1, <1>2 DEF O!Idle, ScanInv, ScanFields
<1>3. CASE O!Begin
  <2>1. /\ DOMAIN scan' = ScanFields /\ scan'.at = "read" /\ scan'.unread = Accounts
        /\ kept' = O!Owned(UNION {records[a] : a \in Accounts})
    BY <1>3 DEF O!Begin, O!Idle, O!Recorded, ScanFields
  <2>2. PICK owner : owner = records
    OBVIOUS
  <2>3. DOMAIN owner = Accounts /\ kept' = O!Owned(UNION {owner[a] : a \in Accounts})
    BY <2>1, <2>2 DEF ScanInv, RecordsApart
  <2>4. \A p \in kept' : \E a \in Accounts : p \in O!Owned(owner[a])
    BY <2>3, OwnedByOne
  <2>5. Covered'
    BY <1>1, <2>1, <2>2, <2>4 DEF Covered
  <2> QED
    BY <1>1, <2>1, <2>5 DEF ScanInv
<1>4. CASE O!Walk /\ scan' # O!Idle
  <2>1. PICK orphans : orphans = {p \in file : ~O!Partial(p)} \ scan.referenced
    OBVIOUS
  <2>2. scan.at = "walk" /\ scan' = [scan EXCEPT !.at = "ask", !.listed = orphans] /\ kept' = kept
    BY <1>4, <2>1 DEF O!Walk
  <2>3. /\ DOMAIN scan' = ScanFields /\ scan'.at = "ask" /\ scan'.unread = scan.unread
        /\ scan'.listed = orphans
    BY <2>2 DEF ScanInv, ScanFields
  <2>4. kept \cap orphans = {}
    BY <2>1, <2>2 DEF ScanInv, Covered
  <2> QED
    BY <1>1, <2>2, <2>3, <2>4 DEF ScanInv
<1>5. CASE \E a \in Accounts : O!Retry(a)
  <2>1. /\ DOMAIN scan' = ScanFields /\ scan'.at = scan.at /\ scan'.unread = scan.unread
        /\ scan'.referenced = scan.referenced /\ scan'.listed = scan.listed /\ kept' = kept
    BY <1>5 DEF O!Retry, ScanInv, ScanFields
  <2> QED
    BY <1>1, <2>1 DEF ScanInv, Covered
<1>6. CASE \E a \in Accounts : O!Abort(a)
  BY <1>2, <1>6 DEF O!Abort
<1>7. CASE (\E yes \in BOOLEAN : O!Confirm(yes)) /\ scan' # O!Idle
  <2>1. scan.at = "ask" /\ scan' = [scan EXCEPT !.at = "delete"] /\ kept' = kept
    BY <1>7 DEF O!Confirm
  <2>2. /\ DOMAIN scan' = ScanFields /\ scan'.at = "delete" /\ scan'.unread = scan.unread
        /\ scan'.listed = scan.listed
    BY <2>1 DEF ScanInv, ScanFields
  <2> QED
    BY <1>1, <2>1, <2>2 DEF ScanInv
<1>8. CASE (\E p \in O!Paths : O!Delete(p)) /\ scan' # O!Idle
  <2>1. PICK p \in O!Paths : O!Delete(p)
    BY <1>8
  <2>2. PICK fewer : fewer = scan.listed \ {p}
    OBVIOUS
  <2>3. scan.at = "delete" /\ scan' = [scan EXCEPT !.listed = fewer] /\ kept' = kept
    BY <1>8, <2>1, <2>2 DEF O!Delete
  <2>4. /\ DOMAIN scan' = ScanFields /\ scan'.at = "delete" /\ scan'.unread = scan.unread
        /\ scan'.listed = fewer
    BY <2>3 DEF ScanInv, ScanFields
  <2> QED
    BY <1>1, <2>2, <2>3, <2>4 DEF ScanInv
<1> QED
  BY <1>2, <1>3, <1>4, <1>5, <1>6, <1>7, <1>8

(* Every step keeps what a scan knows true.                                *)
LEMMA ScanKeeps ==
  ASSUME ScanInv, [O!ONext]_(O!ovars)
  PROVE  ScanInv'
<1>1. CASE UNCHANGED O!ovars
  BY <1>1 DEF O!ovars, ScanInv, RecordsApart, Covered
<1>2. CASE O!ONext
  BY <1>2, CommandsCover, RecordDownloadCovers, RecordMovesCover, ReadCovers, ScanCovers
     DEF O!ONext
<1> QED
  BY <1>1, <1>2

(* A file that has been recorded since before a scan began is not deleted  *)
(* by it, nor is its key (src/commands/download/orphans.rs), for any number*)
(* of accounts and any downloads, moves and removals meanwhile.            *)
THEOREM ScansKeepRecorded == O!OSpec => LongRecordedIsKept
<1> DEFINE A == \A p \in O!Paths : O!Delete(p) => p \notin kept
<1>1. O!OInit => ScanInv
  BY DEF O!OInit, O!Idle, ScanInv, RecordsApart, ScanFields
<1>2. ScanInv => A
  BY DEF ScanInv, O!Delete
<1> HIDE DEF A
<1>3. O!OSpec => []ScanInv
  BY <1>1, ScanKeeps, PTL DEF O!OSpec
<1>4. ScanInv /\ [O!ONext]_(O!ovars) => [A]_(O!ovars)
  BY <1>2
<1>5. O!OSpec => [][A]_(O!ovars)
  BY <1>3, <1>4, PTL DEF O!OSpec
<1> QED
  BY <1>5 DEF A, LongRecordedIsKept, O!LongRecordedIsKept

=============================================================================
