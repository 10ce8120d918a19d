---------------------------- MODULE DbRestoreProofs ----------------------------
(***************************************************************************)
(* The restore of a database implements DbReplace: every step of DbRestore *)
(* is a step of the promise or none, whatever fails, dies or reaches the   *)
(* disk in which order, for any number of versions and mishaps.            *)
(*                                                                         *)
(* The argument runs over the pairs of a database and a log that a power   *)
(* loss may leave: any log that may be there belongs to any database that  *)
(* may be there, and has all of its commits.                               *)
(***************************************************************************)
EXTENDS DbRestore, FiniteSetTheorems, TLAPS

-----------------------------------------------------------------------------
(* A finite set has a member of the greatest value.                        *)
LEMMA Greatest ==
  ASSUME NEW K, IsFiniteSet(K), K # {}, NEW f, \A k \in K : f[k] \in Int
  PROVE  \E i \in K : \A k \in K : f[k] <= f[i]
<1> DEFINE above(i) == {k \in K : f[k] > f[i]}
           T == {above(i) : i \in K}
<1>1. T \subseteq FiniteSubsetsOf(K) /\ T # {}
  <2>1. \A i \in K : above(i) \in SUBSET K
    OBVIOUS
  <2>2. \A A \in SUBSET K : IsFiniteSet(A)
    BY FS_Subset
  <2> QED
    BY <2>1, <2>2 DEF FiniteSubsetsOf
<1>2. PICK A \in T : \A B \in T : ~(<<B, A>> \in StrictSubsetOrdering(K))
  BY <1>1, FS_StrictSubsetOrderingWellFounded, WFMin, Zenon
<1>3. PICK i \in K : A = above(i)
  OBVIOUS
<1>4. ASSUME NEW k \in K, ~(f[k] <= f[i])
      PROVE  FALSE
  <2>1. f[k] > f[i] /\ f[k] \in Int /\ f[i] \in Int
    BY <1>4
  <2>2. above(k) \subseteq above(i) /\ k \in above(i) /\ k \notin above(k)
    BY <2>1
  <2>3. above(k) \in T
    OBVIOUS
  <2>4. <<above(k), above(i)>> \in StrictSubsetOrdering(K)
    BY <2>2 DEF StrictSubsetOrdering
  <2> QED
    BY <1>2, <1>3, <2>3, <2>4
<1> QED
  BY <1>4

-----------------------------------------------------------------------------
(* Versions are numbers, and no file is none of the files.                 *)
Bounds == MaxVersion \in Nat /\ None \notin File /\ None \notin 1 .. MaxVersion

(* What a database and its log make together.                              *)
Read(f, log) ==
    CASE f = None -> None
      [] f # None /\ log = None -> f.version
      [] f # None /\ log # None -> IF log.of = f.of THEN log.version ELSE 0

(* The database and log a power loss may leave, in pairs.                  *)
Pairs == {<<Written(kept)["db"], Written(kept)["wal"]>> : kept \in SUBSET DOMAIN pending}

(* The versions a power loss may leave.                                    *)
Possible == {Found(d) : d \in AfterPowerLoss}

(* No file, or one of the versions so far.                                 *)
Known == {None} \cup [of : 1 .. last, version : 1 .. last]

(* The names that matter to who opens the database.                        *)
Telling == {"db", "wal", "staged", "wal aside"}

(* A log that belongs to the database, and has all of its commits.         *)
Match(f, log) == log.of = f.of /\ f.version <= log.version

(* The stages of a restore before it publishes, and with the log aside.    *)
Restoring == {"locked", "staging", "filled", "wal moved", "moved", "barred"}
Putting == {"wal moved", "moved", "barred", "undo"}

(* Pairs are of one database, and any file of it may meet any log.         *)
PairsFit ==
    /\ \A x \in Pairs : x[1] \in Known /\ x[2] \in Known
    /\ \A x \in Pairs : x[1] # None /\ x[2] # None => Match(x[1], x[2])
    /\ \A x, y \in Pairs : <<x[1], y[2]>> \in Pairs
    /\ <<dir["db"], dir["wal"]>> \in Pairs

(* A log that is aside belongs to the database it may go back to.          *)
AsideFits ==
    /\ at \notin Putting \cup {"published"} => dir["wal aside"] = None
    /\ at \in {"wal moved", "moved", "barred"} => dir["wal"] = None
    /\ at = "undo" => dir["wal"] = None \/ dir["wal aside"] = None
    /\ at = "barred" => Pairs = {<<dir["db"], dir["wal"]>>}
    /\ at \in Putting /\ dir["wal aside"] # None =>
          \A x \in Pairs : x[1] # None =>
              /\ Match(x[1], dir["wal aside"])
              /\ dir["db"] # None \/ <<x[1], dir["wal aside"]>> \in Pairs

(* What a restore has staged, and what it has done so far.                 *)
StageFits ==
    /\ at \in Restoring => snap \in snapshots
    /\ at \in {"staging", "filled", "wal moved", "moved", "barred"} =>
          dir["staged"] # None /\ dir["staged"].version = snap
    /\ at \in Restoring \cup {"deleting"} => did = "nothing"
    /\ at \in {"undo", "unlinked", "cut"} => did # "replaced"
    /\ at = "published" => did = "replaced"

(* The inductive invariant.                                                *)
DbInv ==
    /\ last \in 0 .. MaxVersion /\ snapshots \subseteq 1 .. last
    /\ \E S : pending \in Seq(S)
    /\ DOMAIN dir = Names /\ \A n \in Telling : dir[n] \in Known
    /\ PairsFit /\ AsideFits /\ StageFits

(* A name after a change.                                                  *)
Over(change, n, v) == IF n \in DOMAIN change THEN change[n] ELSE v

(* The last change of a name decides; one more change comes last.          *)
LEMMA WrittenAppend ==
  ASSUME NEW S, pending \in Seq(S), NEW change, pending' = Append(pending, change),
         disk' = disk, NEW kept \in SUBSET DOMAIN pending', NEW n \in Names
  PROVE  Written(kept)'[n] = IF Len(pending) + 1 \in kept
                             THEN Over(change, n, Written(kept \ {Len(pending) + 1})[n])
                             ELSE Written(kept)[n]
<1> DEFINE last1 == Len(pending) + 1
           earlier == kept \ {last1}
           C == {i \in earlier : n \in DOMAIN pending[i]}
           D == {i \in kept : n \in DOMAIN pending'[i]}
           top(X) == CHOOSE i \in X : \A k \in X : k <= i
<1>1. /\ Len(pending) \in Nat /\ DOMAIN pending = 1 .. Len(pending)
      /\ DOMAIN pending' = 1 .. last1 /\ pending'[last1] = change
      /\ \A i \in 1 .. Len(pending) : pending'[i] = pending[i]
  OBVIOUS
<1>2. earlier \subseteq 1 .. Len(pending) /\ (last1 \notin kept => earlier = kept)
  BY <1>1
<1>3. Written(kept)'[n] = IF D = {} THEN disk[n] ELSE pending'[top(D)][n]
  <2>1. Written(kept)'[n] = IF D = {} THEN disk'[n] ELSE pending'[top(D)][n]
    BY Zenon DEF Written
  <2> QED
    BY <2>1
<1>4. Written(earlier)[n] = IF C = {} THEN disk[n] ELSE pending[top(C)][n]
  BY Zenon DEF Written
<1>5. C \subseteq D /\ D \subseteq C \cup {last1} /\ (last1 \in D <=> last1 \in kept /\ n \in DOMAIN change)
  BY <1>1, <1>2
<1>6. CASE last1 \in D
  <2>1. \A k \in D : k <= last1
    BY <1>1
  <2>2. top(D) = last1
    <3>1. \A i \in D : (\A k \in D : k <= i) => i = last1
      BY <2>1, <1>6, <1>1
    <3> QED
      BY <2>1, <3>1, <1>6, Zenon
  <2> QED
    BY <1>3, <2>2, <1>5, <1>6, <1>1 DEF Over
<1>7. CASE last1 \notin D
  <2>1. D = C
    BY <1>5, <1>7
  <2>2. CASE C = {}
    BY <2>1, <2>2, <1>3, <1>4, <1>5, <1>7, <1>2 DEF Over
  <2>3. CASE C # {}
    <3>1. C \in SUBSET (1 .. Len(pending))
      BY <1>2
    <3>2. IsFiniteSet(C)
      <4>1. IsFiniteSet(1 .. Len(pending))
        BY <1>1, FS_Interval
      <4> HIDE DEF C
      <4> QED
        BY <3>1, <4>1, FS_Subset
    <3> DEFINE f == [i \in C |-> i]
    <3>3. \A i \in C : f[i] \in Int
      BY <3>1, <1>1
    <3>4. \E i \in C : \A k \in C : f[k] <= f[i]
      <4> HIDE DEF f
      <4> QED
        BY <3>2, <3>3, <2>3, Greatest
    <3>5. \E i \in C : \A k \in C : k <= i
      BY <3>4
    <3>6. top(C) \in C
      BY <3>5, Zenon
    <3>7. pending'[top(C)] = pending[top(C)]
      BY <3>6, <3>1, <1>1
    <3>8. Written(kept)'[n] = Written(earlier)[n]
      BY <3>7, <2>1, <2>3, <1>3, <1>4
    <3> QED
      BY <3>8, <1>5, <1>7, <1>2 DEF Over
  <2> QED
    BY <2>2, <2>3
<1> QED
  BY <1>6, <1>7

(* What a change adds to the pairs: the same pairs, changed.               *)
LEMMA PairsAppend ==
  ASSUME NEW S, pending \in Seq(S), NEW change, pending' = Append(pending, change),
         disk' = disk
  PROVE  Pairs' = Pairs \cup {<<Over(change, "db", x[1]), Over(change, "wal", x[2])>> : x \in Pairs}
<1> PICK last1 : last1 = Len(pending) + 1
  OBVIOUS
<1> DEFINE moved(x) == <<Over(change, "db", x[1]), Over(change, "wal", x[2])>>
           pair(kept) == <<Written(kept)["db"], Written(kept)["wal"]>>
           P == {moved(x) : x \in Pairs}
<1>0. "db" \in Names /\ "wal" \in Names
  BY DEF Names
<1>1. /\ Len(pending) \in Nat /\ DOMAIN pending = 1 .. Len(pending)
      /\ DOMAIN pending' = 1 .. last1
  OBVIOUS
<1>2. ASSUME NEW kept \in SUBSET DOMAIN pending', last1 \notin kept
      PROVE  pair(kept)' = pair(kept) /\ kept \in SUBSET DOMAIN pending
  BY <1>0, <1>1, <1>2, WrittenAppend
<1>3. ASSUME NEW kept \in SUBSET DOMAIN pending', last1 \in kept
      PROVE  /\ pair(kept)' = moved(pair(kept \ {last1}))
             /\ kept \ {last1} \in SUBSET DOMAIN pending
  BY <1>0, <1>1, <1>3, WrittenAppend
<1>4. Pairs = {pair(kept) : kept \in SUBSET DOMAIN pending}
  BY DEF Pairs
<1>5. \A y : y \in Pairs' <=> \E kept \in SUBSET DOMAIN pending' : y = pair(kept)'
  BY DEF Pairs
<1> HIDE DEF pair, moved
<1>6. Pairs' \subseteq Pairs \cup P
  <2> SUFFICES ASSUME NEW y, y \in Pairs'
               PROVE  y \in Pairs \cup P
    OBVIOUS
  <2>1. PICK kept \in SUBSET DOMAIN pending' : y = pair(kept)'
    BY <1>5
  <2> QED
    BY <2>1, <1>2, <1>3, <1>4
<1>7. ASSUME NEW kept \in SUBSET DOMAIN pending
      PROVE  pair(kept) \in Pairs' /\ moved(pair(kept)) \in Pairs'
  <2>1. kept \in SUBSET DOMAIN pending' /\ last1 \notin kept
    BY <1>1
  <2>2. kept \cup {last1} \in SUBSET DOMAIN pending' /\ (kept \cup {last1}) \ {last1} = kept
    BY <1>1
  <2>3. pair(kept)' = pair(kept)
    BY <2>1, <1>2
  <2>4. pair(kept \cup {last1})' = moved(pair(kept))
    BY <2>2, <1>3
  <2>5. pair(kept) \in Pairs'
    BY <2>1, <2>3, <1>5, Zenon
  <2>6. moved(pair(kept)) \in Pairs'
    BY <2>2, <2>4, <1>5, Zenon
  <2> QED
    BY <2>5, <2>6
<1>8. Pairs \cup P \subseteq Pairs'
  BY <1>4, <1>7
<1> QED
  BY <1>6, <1>8 DEF moved

(* Nothing is pending: the disk decides.                                   *)
LEMMA PairsSynced ==
  ASSUME pending' = <<>>
  PROVE  Pairs' = {<<disk'["db"], disk'["wal"]>>}
<1>1. DOMAIN pending' = {} /\ "db" \in Names /\ "wal" \in Names
  BY DEF Names
<1>2. \A kept \in SUBSET DOMAIN pending' : kept = {}
  BY <1>1
<1>3. Written({})'["db"] = disk'["db"] /\ Written({})'["wal"] = disk'["wal"]
  BY <1>1 DEF Written
<1>4. Pairs' = {<<Written({})'["db"], Written({})'["wal"]>>}
  BY <1>1, <1>2 DEF Pairs
<1> QED
  BY <1>3, <1>4

(* What an opener finds: in the directory, and after a power loss.         *)
FoundReads ==
    /\ Found(dir) = Read(dir["db"], IF dir["wal"] # None THEN dir["wal"]
                                    ELSE IF at \in Putting THEN dir["wal aside"] ELSE None)
    /\ Possible = {Read(x[1], x[2]) : x \in Pairs}

(* It is the database with the log beside it or, during a restore, aside.  *)
LEMMA OpenerReads == FoundReads
<1>1. Found(dir) = Read(dir["db"], IF dir["wal"] # None THEN dir["wal"]
                                   ELSE IF at \in Putting THEN dir["wal aside"] ELSE None)
  BY Zenon DEF Found, Read, Putting
<1>2. \A kept : LET d == Clear(Written(kept))
                IN  d["db"] = Written(kept)["db"] /\ d["wal"] = Written(kept)["wal"] /\ d["wal aside"] = None
  BY DEF Clear, Names, Temporary
<1>3. \A kept : Found(Clear(Written(kept))) = Read(Written(kept)["db"], Written(kept)["wal"])
  BY <1>2, Zenon DEF Found, Read
<1>4. Possible = {Found(Clear(Written(kept))) : kept \in SUBSET DOMAIN pending}
  BY Zenon DEF Possible, AfterPowerLoss
<1>5. ASSUME NEW kept \in SUBSET DOMAIN pending
      PROVE  Read(Written(kept)["db"], Written(kept)["wal"]) \in {Read(x[1], x[2]) : x \in Pairs}
  <2> DEFINE x == <<Written(kept)["db"], Written(kept)["wal"]>>
  <2>1. x \in Pairs
    BY Zenon DEF Pairs
  <2>2. x[1] = Written(kept)["db"] /\ x[2] = Written(kept)["wal"]
    OBVIOUS
  <2> HIDE DEF x
  <2> QED
    BY <2>1, <2>2, Zenon
<1>6. ASSUME NEW x \in Pairs
      PROVE  Read(x[1], x[2]) \in Possible
  <2>1. PICK kept \in SUBSET DOMAIN pending : x = <<Written(kept)["db"], Written(kept)["wal"]>>
    BY Zenon DEF Pairs
  <2>2. x[1] = Written(kept)["db"] /\ x[2] = Written(kept)["wal"]
    BY <2>1
  <2> QED
    BY <2>2, <1>3, <1>4, Zenon
<1>7. Possible \subseteq {Read(x[1], x[2]) : x \in Pairs}
  BY <1>3, <1>4, <1>5, Zenon
<1>8. {Read(x[1], x[2]) : x \in Pairs} \subseteq Possible
  BY <1>6, Zenon
<1> QED
  BY <1>1, <1>7, <1>8, Zenon DEF FoundReads

(* The same of the next state.                                             *)
LEMMA OpenerWillRead == FoundReads'
BY OpenerReads, PTL

(* Numbers, snapshots and files as they are at every stage.                *)
Shape ==
    /\ last \in 0 .. MaxVersion /\ snapshots \subseteq 1 .. last
    /\ \E S : pending \in Seq(S)
    /\ DOMAIN dir = Names /\ \A n \in Telling : dir[n] \in Known
    /\ PairsFit

(* Versions only grow.                                                     *)
Later == last' \in {last, last + 1} /\ last' \in 0 .. MaxVersion /\ snapshots' = snapshots

(* What is known stays known.                                              *)
LEMMA KnownStays ==
  ASSUME Shape, Later
  PROVE  Known \subseteq Known' /\ snapshots' \subseteq 1 .. last'
BY DEF Shape, Later, Known

(* Pairs are pairs.                                                        *)
LEMMA PairsArePairs == \A x \in Pairs : x = <<x[1], x[2]>>
BY DEF Pairs

(* One more change, of the database or of its log or of neither.           *)
LEMMA ShapeChange ==
  ASSUME Shape, Later, NEW change, Change(change), DOMAIN change \subseteq Names,
         "db" \notin DOMAIN change \/ "wal" \notin DOMAIN change,
         \A n \in DOMAIN change \cap Telling : change[n] \in Known',
         \A x \in Pairs : LET f == Over(change, "db", x[1])
                              g == Over(change, "wal", x[2])
                          IN  f # None /\ g # None => Match(f, g)
  PROVE  /\ Shape' /\ Pairs \subseteq Pairs'
         /\ Pairs' = Pairs \cup {<<Over(change, "db", x[1]), Over(change, "wal", x[2])>> : x \in Pairs}
<1> DEFINE moved(x) == <<Over(change, "db", x[1]), Over(change, "wal", x[2])>>
<1>0. PICK S : pending \in Seq(S)
  BY DEF Shape
<1>1. pending' = Append(pending, change) /\ disk' = disk /\ dir' = Patched(dir, change)
  BY DEF Change
<1>2. Pairs' = Pairs \cup {moved(x) : x \in Pairs}
  BY <1>0, <1>1, PairsAppend
<1>3. Known \subseteq Known' /\ snapshots' \subseteq 1 .. last' /\ last' \in 0 .. MaxVersion
  BY KnownStays DEF Later
<1>4. pending' \in Seq(S \cup {change})
  <2>1. pending \in Seq(S \cup {change})
    BY <1>0
  <2> QED
    BY <2>1, <1>1
<1>5. DOMAIN dir' = Names /\ \A n \in Telling : dir'[n] \in Known'
  BY <1>1, <1>3 DEF Patched, Shape, Telling, Names
<1>6. ASSUME NEW x \in Pairs
      PROVE  /\ moved(x)[1] = Over(change, "db", x[1]) /\ moved(x)[2] = Over(change, "wal", x[2])
             /\ moved(x)[1] \in Known' /\ moved(x)[2] \in Known'
             /\ moved(x)[1] # None /\ moved(x)[2] # None => Match(moved(x)[1], moved(x)[2])
  <2>1. "db" \in Telling /\ "wal" \in Telling
    BY DEF Telling
  <2>2. "db" \in DOMAIN change => change["db"] \in Known'
    BY <2>1
  <2>3. "wal" \in DOMAIN change => change["wal"] \in Known'
    BY <2>1
  <2> QED
    BY <2>2, <2>3, <1>3, Zenon DEF Shape, PairsFit, Over
<1>7. \A x \in Pairs' : /\ x[1] \in Known' /\ x[2] \in Known'
                        /\ x[1] # None /\ x[2] # None => Match(x[1], x[2])
  <2> HIDE DEF moved
  <2> QED
    BY <1>2, <1>3, <1>6 DEF Shape, PairsFit
<1>8. ASSUME NEW x \in Pairs', NEW y \in Pairs'
      PROVE  <<x[1], y[2]>> \in Pairs'
  <2>1. \A u, v \in Pairs : <<u[1], v[2]>> \in Pairs /\ moved(<<u[1], v[2]>>) \in Pairs'
    <3> HIDE DEF moved
    <3> QED
      BY <1>2 DEF Shape, PairsFit
  <2>2. \A u, v \in Pairs : <<Over(change, "db", u[1]), Over(change, "wal", v[2])>> \in Pairs'
    BY <2>1
  <2>3. PICK u \in Pairs : x[1] = u[1] \/ x[1] = Over(change, "db", u[1])
    BY <1>2
  <2>4. PICK v \in Pairs : y[2] = v[2] \/ y[2] = Over(change, "wal", v[2])
    BY <1>2
  <2>5. <<u[1], v[2]>> \in Pairs'
    BY <2>1, <1>2
  <2>6. CASE x[1] = u[1] /\ y[2] = Over(change, "wal", v[2])
    <3>1. CASE "wal" \in DOMAIN change
      <4>1. u[1] = Over(change, "db", u[1])
        BY <3>1 DEF Over
      <4> QED
        BY <4>1, <2>2, <2>6
    <3>2. CASE "wal" \notin DOMAIN change
      BY <3>2, <2>5, <2>6 DEF Over
    <3> QED
      BY <3>1, <3>2
  <2>7. CASE x[1] = Over(change, "db", u[1]) /\ y[2] = v[2]
    <3>1. CASE "db" \in DOMAIN change
      <4>1. v[2] = Over(change, "wal", v[2])
        BY <3>1 DEF Over
      <4> QED
        BY <4>1, <2>2, <2>7
    <3>2. CASE "db" \notin DOMAIN change
      BY <3>2, <2>5, <2>7 DEF Over
    <3> QED
      BY <3>1, <3>2
  <2> QED
    BY <2>2, <2>3, <2>4, <2>5, <2>6, <2>7
<1>9. <<dir'["db"], dir'["wal"]>> \in Pairs'
  <2>1. dir'["db"] = Over(change, "db", dir["db"]) /\ dir'["wal"] = Over(change, "wal", dir["wal"])
    BY <1>1 DEF Patched, Over, Names
  <2>2. <<dir["db"], dir["wal"]>> \in Pairs
    BY DEF Shape, PairsFit
  <2>3. moved(<<dir["db"], dir["wal"]>>) \in Pairs'
    <3> HIDE DEF moved
    <3> QED
      BY <1>2, <2>2
  <2> QED
    BY <2>1, <2>3
<1>10. PairsFit'
  BY <1>7, <1>8, <1>9 DEF PairsFit, Match
<1> QED
  BY <1>2, <1>3, <1>4, <1>5, <1>10 DEF Shape

(* The directory is synced.                                                *)
LEMMA ShapeSynced ==
  ASSUME Shape, Later, pending' = <<>>, disk' = dir', DOMAIN dir' = Names,
         \A n \in Telling : dir'[n] \in Known',
         dir'["db"] # None /\ dir'["wal"] # None => Match(dir'["db"], dir'["wal"])
  PROVE  Shape' /\ Pairs' = {<<dir'["db"], dir'["wal"]>>}
<1>1. Pairs' = {<<dir'["db"], dir'["wal"]>>}
  BY PairsSynced
<1>2. PairsFit'
  <2>1. \A x \in Pairs' : x = <<dir'["db"], dir'["wal"]>>
    BY <1>1
  <2>2. dir'["db"] \in Known' /\ dir'["wal"] \in Known'
    BY DEF Telling
  <2> QED
    BY <2>1, <2>2, <1>1 DEF PairsFit, Match
<1>3. pending' \in Seq({})
  OBVIOUS
<1> QED
  BY <1>1, <1>2, <1>3, KnownStays DEF Shape, Later

(* The names of the database and its log stay as they are.                 *)
LEMMA ShapeKept ==
  ASSUME Shape, UNCHANGED <<disk, pending, last>>, snapshots' \subseteq 1 .. last,
         DOMAIN dir' = Names, \A n \in Telling : dir'[n] \in Known,
         dir'["db"] = dir["db"], dir'["wal"] = dir["wal"]
  PROVE  Shape' /\ Pairs' = Pairs
<1>1. Pairs' = Pairs /\ Known' = Known
  BY DEF Pairs, Written, Known
<1>2. PairsFit'
  BY <1>1 DEF Shape, PairsFit, Match
<1> QED
  BY <1>1, <1>2 DEF Shape

-----------------------------------------------------------------------------
(* What is found.                                                          *)

(* A known file has a version, and none is no version.                     *)
LEMMA KnownVersion ==
  ASSUME Bounds, Shape, NEW f \in Known, f # None
  PROVE  f.version \in 1 .. last /\ f.version \in 1 .. MaxVersion /\ f.version # None
BY DEF Bounds, Shape, Known

(* A pair reads as nothing, as the database or as its log.                 *)
LEMMA PairReads ==
  ASSUME NEW f, NEW g, f # None /\ g # None => Match(f, g)
  PROVE  /\ f = None => Read(f, g) = None
         /\ f # None /\ g = None => Read(f, g) = f.version
         /\ f # None /\ g # None => Read(f, g) = g.version
BY Zenon DEF Read, Match

(* What is not written yet was possible, or is what is found.              *)
LEMMA OnlyUnwritten ==
  ASSUME \A x \in Pairs' : \E v \in Possible \cup {Found(dir), Found(dir)'} :
            Read(x[1], x[2]) \in Replaces!UpTo(v)
  PROVE  Replaces!Unwritten
<1>1. \A w \in Possible' : \E v \in Possible \cup {Found(dir), Found(dir)'} : w \in Replaces!UpTo(v)
  BY OpenerWillRead DEF FoundReads
<1>2. Possible' \subseteq UNION {Replaces!UpTo(v) : v \in Possible \cup {Found(dir), Found(dir)'}}
  BY <1>1
<1> QED
  BY <1>2 DEF Replaces!Unwritten, Possible

(* A pair without its log reads as less.                                   *)
LEMMA ReadsLess ==
  ASSUME Bounds, Shape, NEW f \in Known, NEW g \in Known,
         f # None /\ g # None => Match(f, g)
  PROVE  Read(f, None) \in Replaces!UpTo(Read(f, g))
<1>1. CASE f = None \/ g = None
  BY <1>1, PairReads DEF Replaces!UpTo
<1>2. CASE f # None /\ g # None
  <2>1. Read(f, None) = f.version /\ Read(f, g) = g.version /\ f.version <= g.version
    BY <1>2, PairReads DEF Match
  <2>2. f.version \in 1 .. MaxVersion /\ g.version \in 1 .. MaxVersion /\ g.version # None
    BY <1>2, KnownVersion
  <2> QED
    BY <2>1, <2>2 DEF Replaces!UpTo, Replaces!Versions, Bounds
<1> QED
  BY <1>1, <1>2

(* What the steps of the promise are, in terms of this module.             *)
Implements == [Replaces!Next]_(Replaces!avars)

(* Nothing the promise speaks of has changed.                              *)
LEMMA Stutters ==
  ASSUME Found(dir)' = Found(dir), Possible' = Possible, (at # "idle") = (at' # "idle"),
         UNCHANGED <<snapshots, did, said>>
  PROVE  Implements
BY DEF Implements, Replaces!avars, Possible

(* A step on the way, which leaves the contents.                           *)
LEMMA Prepares ==
  ASSUME at # "idle", at' # "idle", Found(dir)' = Found(dir), UNCHANGED <<snapshots, did, said>>,
         Replaces!Unwritten
  PROVE  Implements
BY DEF Implements, Replaces!Next, Replaces!Prepare

(* The end of a command that replaced nothing.                             *)
LEMMA Ends ==
  ASSUME at # "idle", at' = "idle", Found(dir)' = Found(dir), UNCHANGED snapshots,
         did # "replaced", said' = did, did' = "nothing", Replaces!Unwritten
  PROVE  Implements
BY DEF Implements, Replaces!Next, Replaces!End

(* The beginning of one.                                                   *)
LEMMA Begins ==
  ASSUME at = "idle", at' # "idle", Found(dir)' = Found(dir), Possible' = Possible,
         UNCHANGED <<snapshots, said>>, did' = "nothing"
  PROVE  Implements
BY DEF Implements, Replaces!Next, Replaces!Begin, Possible

(* The log an opener reads.                                                *)
Log == IF dir["wal"] # None THEN dir["wal"] ELSE IF at \in Putting THEN dir["wal aside"] ELSE None

(* It belongs to the database.                                             *)
LEMMA LogFits ==
  ASSUME DbInv
  PROVE  /\ Found(dir) = Read(dir["db"], Log)
         /\ dir["db"] \in Known /\ Log \in Known
         /\ dir["db"] # None /\ Log # None => Match(dir["db"], Log)
<1>1. Found(dir) = Read(dir["db"], Log)
  BY OpenerReads DEF FoundReads, Log
<1>2. dir["db"] \in Known /\ dir["wal"] \in Known /\ dir["wal aside"] \in Known /\ None \in Known
  BY DEF DbInv, Telling, Known
<1>3. <<dir["db"], dir["wal"]>> \in Pairs
  BY DEF DbInv, PairsFit
<1>4. ASSUME dir["db"] # None, Log # None
      PROVE  Match(dir["db"], Log)
  <2>1. CASE dir["wal"] # None
    BY <2>1, <1>3, <1>4 DEF DbInv, PairsFit, Log
  <2>2. CASE dir["wal"] = None
    BY <2>2, <1>3, <1>4 DEF DbInv, AsideFits, Log
  <2> QED
    BY <2>1, <2>2
<1> QED
  BY <1>1, <1>2, <1>4 DEF Log

(* The invariant is its parts.                                             *)
LEMMA InvShape == DbInv <=> Shape /\ AsideFits /\ StageFits
BY DEF DbInv, Shape

(* Nothing is found where there is no database, and a version else.        *)
LEMMA FoundVersion ==
  ASSUME Bounds, DbInv
  PROVE  /\ dir["db"] = None => Found(dir) = None
         /\ dir["db"] # None => Found(dir) \in 1 .. last /\ Found(dir) \in 1 .. MaxVersion /\ Found(dir) # None
  BY LogFits, PairReads, KnownVersion, InvShape

-----------------------------------------------------------------------------
(* What SQLite does while nothing is replaced.                             *)

(* A durable change leaves one pair, and what a restore has staged.        *)
LEMMA SqliteStep ==
  ASSUME Bounds, DbInv, Undisturbed, Later, NEW change, Durably(change),
         DOMAIN change \subseteq {"db", "wal", "shm"}, \A n \in DOMAIN change \cap Telling : change[n] \in Known',
         dir'["db"] # None /\ dir'["wal"] # None => Match(dir'["db"], dir'["wal"]),
         UNCHANGED <<snapshots, at, snap, did, said>>
  PROVE  /\ DbInv' /\ Possible' = {Found(dir)'}
         /\ Found(dir)' = Read(dir'["db"], dir'["wal"])
<1>1. dir' = Patched(dir, change) /\ disk' = dir' /\ pending' = <<>>
  BY DEF Durably
<1>2. Shape /\ AsideFits /\ StageFits
  BY InvShape
<1>3. Known \subseteq Known'
  BY <1>2, KnownStays
<1>4. DOMAIN dir' = Names /\ \A n \in Telling : dir'[n] \in Known'
  BY <1>1, <1>2, <1>3 DEF Patched, Shape, Telling, Names
<1>5. Shape' /\ Pairs' = {<<dir'["db"], dir'["wal"]>>}
  BY <1>1, <1>2, <1>4, ShapeSynced
<1>6. dir'["staged"] = dir["staged"] /\ dir'["wal aside"] = dir["wal aside"]
  BY <1>1 DEF Patched, Names
<1>7. at' \in {"idle", "locked", "staging", "filled"}
  BY DEF Undisturbed
<1>8. AsideFits'
  BY <1>2, <1>6, <1>7 DEF AsideFits, Putting
<1>9. StageFits'
  BY <1>2, <1>6, <1>7 DEF StageFits
<1>10. DbInv'
  BY <1>5, <1>8, <1>9 DEF DbInv, Shape
<1>11. Found(dir)' = Read(dir'["db"], dir'["wal"])
  BY OpenerWillRead, <1>7 DEF FoundReads, Putting
<1>12. Possible' = {Found(dir)'}
  <2>1. Possible' = {Read(x[1], x[2]) : x \in Pairs'}
    BY OpenerWillRead DEF FoundReads
  <2>2. Possible' = {Read(dir'["db"], dir'["wal"])}
    BY <2>1, <1>5
  <2> QED
    BY <2>2, <1>11
<1> QED
  BY <1>10, <1>11, <1>12

(* A new version.                                                          *)
LEMMA CommitStep ==
  ASSUME Bounds, DbInv, Create \/ Commit
  PROVE  DbInv' /\ Implements
<1>1. /\ Undisturbed /\ Later /\ last' = last + 1 /\ last' \in 1 .. MaxVersion
      /\ UNCHANGED <<snapshots, at, snap, did, said>>
  BY DEF Create, Commit, Fresh, Later, DbInv, Bounds
<1>2. [of |-> last + 1, version |-> last + 1] \in Known' /\ None \in Known'
  BY <1>1 DEF Known
<1>3. /\ DbInv' /\ Possible' = {Found(dir)'} /\ Found(dir)' = last + 1
      /\ Found(dir) # last + 1
  <2>1. CASE Create
    <3> DEFINE c == [n \in {"db", "wal", "shm"} |->
                        IF n = "db" THEN [of |-> last + 1, version |-> last + 1] ELSE None]
    <3>1. Durably(c) /\ dir["db"] = None
      BY <2>1 DEF Create
    <3>2. DOMAIN c \subseteq {"db", "wal", "shm"} /\ \A n \in DOMAIN c \cap Telling : c[n] \in Known'
      BY <1>2
    <3>3. dir'["db"] = [of |-> last + 1, version |-> last + 1] /\ dir'["wal"] = None
      BY <3>1 DEF Durably, Patched, Names
    <3>4. PICK change : change = c
      OBVIOUS
    <3> HIDE DEF c
    <3>5. DbInv' /\ Possible' = {Found(dir)'} /\ Found(dir)' = Read(dir'["db"], dir'["wal"])
      BY <1>1, <3>1, <3>2, <3>3, <3>4, SqliteStep
    <3>6. dir'["db"] \in Known' /\ dir'["db"] # None
      BY <3>3, <1>1, <1>2 DEF Bounds, File
    <3>7. Found(dir)' = last + 1
      BY <3>3, <3>5, <3>6, PairReads
    <3>8. Found(dir) = None /\ last + 1 # None
      BY <3>1, <1>1, FoundVersion DEF Bounds
    <3> QED
      BY <3>5, <3>7, <3>8
  <2>2. CASE Commit
    <3> DEFINE c == [n \in {"wal", "shm"} |-> [of |-> dir["db"].of, version |-> last + 1]]
    <3>1. Durably(c) /\ dir["db"] # None
      BY <2>2 DEF Commit
    <3>2. dir["db"].of \in 1 .. last /\ dir["db"].version \in 1 .. last /\ last \in 0 .. MaxVersion
      BY <3>1 DEF DbInv, Telling, Known
    <3>3. DOMAIN c \subseteq {"db", "wal", "shm"} /\ \A n \in DOMAIN c \cap Telling : c[n] \in Known'
      BY <1>1, <3>2 DEF Known
    <3>4. dir'["wal"] = [of |-> dir["db"].of, version |-> last + 1] /\ dir'["db"] = dir["db"]
      BY <3>1 DEF Durably, Patched, Names
    <3>5. Match(dir'["db"], dir'["wal"])
      BY <3>2, <3>4 DEF Match
    <3>6. dir'["wal"] # None
      BY <3>2, <3>4, <1>1 DEF Bounds, File
    <3> HIDE DEF c
    <3>7. DbInv' /\ Possible' = {Found(dir)'} /\ Found(dir)' = Read(dir'["db"], dir'["wal"])
      BY <1>1, <3>1, <3>3, <3>5, SqliteStep
    <3>8. Found(dir)' = last + 1
      BY <3>1, <3>4, <3>5, <3>6, <3>7, PairReads
    <3>9. Found(dir) \in 1 .. last
      BY <3>1, FoundVersion
    <3> QED
      BY <3>2, <3>7, <3>8, <3>9
  <2> QED
    BY <2>1, <2>2
<1>4. Implements
  <2>1. Found(dir)' \in Replaces!Versions \ {Found(dir)}
    BY <1>1, <1>3 DEF Replaces!Versions
  <2>2. UNCHANGED <<snapshots, at # "idle", did, said>>
    BY <1>1
  <2> QED
    BY <1>3, <2>1, <2>2 DEF Implements, Replaces!Next, Replaces!Commit, Possible
<1> QED
  BY <1>3, <1>4

(* The log goes into the database.                                         *)
LEMMA CheckpointStep ==
  ASSUME Bounds, DbInv, Checkpoint
  PROVE  DbInv' /\ Implements
<1> DEFINE c == [n \in {"db", "wal", "shm"} |-> IF n = "db" THEN dir["wal"] ELSE None]
<1>1. /\ Undisturbed /\ Later /\ dir["db"] # None /\ dir["wal"] # None /\ Durably(c)
      /\ UNCHANGED <<snapshots, at, snap, did, said, last>>
  BY DEF Checkpoint, Later, DbInv
<1>2. DOMAIN c \subseteq {"db", "wal", "shm"} /\ \A n \in DOMAIN c \cap Telling : c[n] \in Known'
  BY <1>1 DEF DbInv, Known, Telling
<1>3. dir'["db"] = dir["wal"] /\ dir'["wal"] = None
  BY <1>1 DEF Durably, Patched, Names
<1> HIDE DEF c
<1>4. DbInv' /\ Possible' = {Found(dir)'} /\ Found(dir)' = Read(dir["wal"], None)
  BY <1>1, <1>2, <1>3, SqliteStep
<1>5. Found(dir)' = dir["wal"].version
  BY <1>1, <1>4, PairReads
<1>6. Found(dir) = dir["wal"].version
  BY <1>1, LogFits, PairReads DEF Log
<1>7. Implements
  BY <1>1, <1>4, <1>5, <1>6 DEF Implements, Replaces!Next, Replaces!Checkpoint, Possible
<1> QED
  BY <1>4, <1>7

(* A snapshot.                                                             *)
LEMMA BackupStep ==
  ASSUME Bounds, DbInv, Backup
  PROVE  DbInv' /\ Implements
<1>1. /\ dir["db"] # None /\ snapshots' = snapshots \cup {Found(dir)}
      /\ UNCHANGED <<dir, disk, pending, at, snap, did, said, last>>
  BY DEF Backup, fs
<1>2. Found(dir) \in 1 .. last /\ Found(dir) # None
  BY <1>1, FoundVersion
<1>3. Shape /\ AsideFits /\ StageFits
  BY InvShape
<1>4. Shape' /\ Pairs' = Pairs
  BY <1>1, <1>2, <1>3, ShapeKept DEF Shape
<1>5. AsideFits' /\ StageFits'
  BY <1>1, <1>3, <1>4 DEF AsideFits, StageFits, Match
<1>6. Found(dir)' = Found(dir) /\ Possible' = Possible
  BY <1>1, <1>4, OpenerReads, OpenerWillRead DEF FoundReads
<1>7. Implements
  BY <1>1, <1>2, <1>6 DEF Implements, Replaces!Next, Replaces!Backup, Possible
<1> QED
  BY <1>4, <1>5, <1>7 DEF DbInv, Shape

-----------------------------------------------------------------------------
(* The steps of a restore and of a reset.                                  *)

(* Where the files are is all an opener and the pairs depend on.           *)
LEMMA SameFiles ==
  ASSUME DbInv, UNCHANGED <<dir, disk, pending, snapshots, last>>
  PROVE  /\ Shape' /\ Pairs' = Pairs /\ Possible' = Possible
         /\ Found(dir)' = Read(dir["db"], Log)' /\ Log' \in {Log, dir["wal aside"], None}
         /\ (at' \in Putting <=> at \in Putting) => Found(dir)' = Found(dir)
         /\ dir["wal aside"] = None => Found(dir)' = Found(dir)
<1>1. Shape /\ AsideFits
  BY InvShape
<1>2. Shape' /\ Pairs' = Pairs
  BY <1>1, ShapeKept DEF Shape
<1>3. Possible' = Possible
  BY <1>2, OpenerReads, OpenerWillRead DEF FoundReads
<1>4. Found(dir) = Read(dir["db"], Log) /\ Found(dir)' = Read(dir["db"], Log)'
  BY OpenerReads, OpenerWillRead DEF FoundReads, Log
<1>5. Log' \in {Log, dir["wal aside"], None} /\ ((at' \in Putting <=> at \in Putting) => Log' = Log)
      /\ (dir["wal aside"] = None => Log' = Log)
  BY DEF Log
<1>6. Read(dir["db"], Log)' = Read(dir["db"], Log')
  OBVIOUS
<1> QED
  BY <1>2, <1>3, <1>4, <1>5, <1>6

(* Unwritten pairs when no pair is new.                                    *)
LEMMA SamePairs ==
  ASSUME Pairs' = Pairs
  PROVE  Possible' = Possible /\ Replaces!Unwritten
<1>1. Possible' = Possible
  BY OpenerReads, OpenerWillRead DEF FoundReads
<1>2. \A x \in Pairs' : Read(x[1], x[2]) \in Possible
  BY OpenerReads DEF FoundReads
<1>3. \A v : v \in Replaces!UpTo(v)
  BY DEF Replaces!UpTo
<1> QED
  BY <1>1, <1>2, <1>3, OnlyUnwritten

(* Lock and reset begin; a step goes wrong or needs nothing done.          *)
LEMMA BeginStep ==
  ASSUME DbInv, Lock \/ Reset
  PROVE  DbInv' /\ Implements
<1>1. /\ UNCHANGED <<dir, disk, pending, snapshots, last, said>> /\ at = "idle" /\ did' = "nothing"
      /\ at' \in {"locked", "deleting"} /\ (at' = "locked" => snap' \in snapshots)
  BY DEF Lock, Reset, Goto, fs
<1>2. dir["wal aside"] = None /\ Shape /\ AsideFits /\ StageFits
  BY <1>1, InvShape DEF AsideFits, Putting
<1>3. Shape' /\ Pairs' = Pairs /\ Possible' = Possible /\ Found(dir)' = Found(dir)
  BY <1>1, <1>2, SameFiles
<1>4. AsideFits' /\ StageFits'
  BY <1>1, <1>2 DEF AsideFits, StageFits, Putting, Restoring
<1>5. Implements
  BY <1>1, <1>3, Begins
<1> QED
  BY <1>3, <1>4, <1>5, InvShape DEF DbInv, Shape

(* A change of names other than the database's and its log's.              *)
LEMMA OtherChange ==
  ASSUME Shape, Later, NEW change, Change(change), DOMAIN change \subseteq Names,
         "db" \notin DOMAIN change, "wal" \notin DOMAIN change,
         \A n \in DOMAIN change \cap Telling : change[n] \in Known'
  PROVE  /\ Shape' /\ Pairs' = Pairs /\ Possible' = Possible /\ Replaces!Unwritten
         /\ dir'["db"] = dir["db"] /\ dir'["wal"] = dir["wal"]
         /\ \A n \in Names \ DOMAIN change : dir'[n] = dir[n]
<1>1. \A x \in Pairs : /\ Over(change, "db", x[1]) = x[1] /\ Over(change, "wal", x[2]) = x[2]
                       /\ x = <<x[1], x[2]>> /\ (x[1] # None /\ x[2] # None => Match(x[1], x[2]))
  BY PairsArePairs DEF Over, Shape, PairsFit
<1>2. /\ Shape'
      /\ Pairs' = Pairs \cup {<<Over(change, "db", x[1]), Over(change, "wal", x[2])>> : x \in Pairs}
  BY <1>1, ShapeChange
<1>3. Pairs' = Pairs
  BY <1>1, <1>2
<1>4. \A n \in Names \ DOMAIN change : dir'[n] = dir[n]
  BY DEF Change, Patched
<1> QED
  BY <1>2, <1>3, <1>4, SamePairs DEF Names

(* The removal of a name, and the renaming of one.                         *)
LEMMA RemoveIs ==
  ASSUME NEW name \in Names, DOMAIN dir = Names, Remove(name)
  PROVE  /\ \E change : /\ Change(change) /\ DOMAIN change = {name} /\ change[name] = None
         /\ dir'[name] = None /\ \A n \in Names \ {name} : dir'[n] = dir[n]
<1> DEFINE c == [n \in {name} |-> None]
<1>1. Change(c) /\ DOMAIN c = {name} /\ c[name] = None
  BY DEF Remove
<1>2. dir' = Patched(dir, c)
  BY <1>1 DEF Change
<1> HIDE DEF c
<1>3. dir'[name] = None /\ \A n \in Names \ {name} : dir'[n] = dir[n]
  BY <1>1, <1>2 DEF Patched
<1> QED
  BY <1>1, <1>3

(* The renaming of one.                                                    *)
LEMMA RenameIs ==
  ASSUME NEW from \in Names, NEW to \in Names, from # to, DOMAIN dir = Names, Rename(from, to)
  PROVE  /\ \E change : /\ Change(change) /\ DOMAIN change = {from, to}
                        /\ change[from] = None /\ change[to] = dir[from]
         /\ dir'[from] = None /\ dir'[to] = dir[from]
         /\ \A n \in Names \ {from, to} : dir'[n] = dir[n]
<1> DEFINE c == [n \in {from, to} |-> IF n = from THEN None ELSE dir[from]]
<1>1. Change(c) /\ DOMAIN c = {from, to} /\ c[from] = None /\ c[to] = dir[from]
  BY DEF Rename
<1>2. dir' = Patched(dir, c)
  BY <1>1 DEF Change
<1> HIDE DEF c
<1>3. /\ dir'[from] = None /\ dir'[to] = dir[from]
      /\ \A n \in Names \ {from, to} : dir'[n] = dir[n]
  BY <1>1, <1>2 DEF Patched
<1> QED
  BY <1>1, <1>3

(* The snapshot is staged under a name of its own.                         *)
LEMMA StageStep ==
  ASSUME Bounds, DbInv, Stage
  PROVE  DbInv' /\ Implements
<1> DEFINE c == [n \in {"staged"} |-> [of |-> last + 1, version |-> snap]]
<1>1. /\ at = "locked" /\ at' = "staging" /\ Later /\ last' = last + 1 /\ Change(c)
      /\ UNCHANGED <<snapshots, snap, did, said>>
  BY DEF Stage, Fresh, Goto, Later, DbInv, Bounds
<1>2. Shape /\ AsideFits /\ StageFits /\ dir["wal aside"] = None
  BY <1>1, InvShape DEF AsideFits, Putting
<1>3. snap \in snapshots /\ did = "nothing" /\ snap \in 1 .. last
  BY <1>1, <1>2 DEF StageFits, Restoring, Shape
<1>4. [of |-> last + 1, version |-> snap] \in Known' /\ [of |-> last + 1, version |-> snap] # None
  <2>1. last \in Nat /\ last' = last + 1 /\ last' \in 1 .. MaxVersion /\ MaxVersion \in Nat
    <3>1. last \in 0 .. MaxVersion /\ MaxVersion \in Nat
      BY <1>2 DEF Shape, Bounds
    <3>2. last' = last + 1 /\ last' \in 0 .. MaxVersion
      BY <1>1 DEF Later
    <3> QED
      BY <3>1, <3>2
  <2>2. last + 1 \in 1 .. last' /\ snap \in 1 .. last' /\ last + 1 \in 1 .. MaxVersion
        /\ snap \in 1 .. MaxVersion
    BY <2>1, <1>3
  <2>3. [of |-> last + 1, version |-> snap] \in Known'
    BY <2>2 DEF Known
  <2>4. [of |-> last + 1, version |-> snap] \in File
    BY <2>2 DEF File
  <2> QED
    BY <2>3, <2>4 DEF Bounds
<1>5. DOMAIN c = {"staged"} /\ \A n \in DOMAIN c \cap Telling : c[n] \in Known'
  BY <1>4
<1>6. dir'["staged"] = [of |-> last + 1, version |-> snap]
  BY <1>1 DEF Change, Patched, Names
<1> HIDE DEF c
<1>7. /\ Shape' /\ Pairs' = Pairs /\ Possible' = Possible /\ Replaces!Unwritten
      /\ dir'["db"] = dir["db"] /\ dir'["wal"] = dir["wal"]
      /\ \A n \in Names \ {"staged"} : dir'[n] = dir[n]
  BY <1>1, <1>2, <1>5, OtherChange DEF Names
<1>8. dir'["wal aside"] = None
  BY <1>2, <1>7 DEF Names
<1>9. AsideFits' /\ StageFits'
  <2>1. AsideFits'
    BY <1>1, <1>8 DEF AsideFits, Putting
  <2>2. dir'["staged"].version = snap' /\ dir'["staged"] # None /\ snap' \in snapshots'
    BY <1>1, <1>3, <1>4, <1>6
  <2>3. StageFits'
    BY <1>1, <1>3, <2>2 DEF StageFits
  <2> QED
    BY <2>1, <2>3
<1>10. Found(dir)' = Found(dir)
  BY <1>1, <1>7, OpenerReads, OpenerWillRead DEF FoundReads, Putting
<1>11. Implements
  BY <1>1, <1>7, <1>10, Prepares
<1> QED
  BY <1>7, <1>9, <1>11, InvShape DEF DbInv, Shape

(* A staged file that is in place, or taken away again with the command.   *)
LEMMA UnstageStep ==
  ASSUME Bounds, DbInv, at \in {"staging", "filled"}, Remove("staged"), Report("nothing"),
         UNCHANGED <<snapshots, snap, last>>
  PROVE  DbInv' /\ Implements
<1>1. at' = "idle" /\ said' = "nothing" /\ did' = "nothing"
  BY DEF Report, Goto
<1>2. Shape /\ AsideFits /\ StageFits /\ dir["wal aside"] = None /\ did = "nothing" /\ Later
  BY InvShape DEF AsideFits, StageFits, Putting, Restoring, Later, Shape
<1>3. PICK c : Change(c) /\ DOMAIN c = {"staged"} /\ c["staged"] = None
  BY <1>2, RemoveIs DEF Shape, Names
<1>4. \A n \in DOMAIN c \cap Telling : c[n] \in Known'
  BY <1>3 DEF Known
<1>5. /\ Shape' /\ Pairs' = Pairs /\ Possible' = Possible /\ Replaces!Unwritten
      /\ dir'["db"] = dir["db"] /\ dir'["wal"] = dir["wal"]
      /\ \A n \in Names \ {"staged"} : dir'[n] = dir[n]
  BY <1>2, <1>3, <1>4, OtherChange DEF Names
<1>6. dir'["wal aside"] = None
  BY <1>2, <1>5 DEF Names
<1>7. AsideFits' /\ StageFits'
  BY <1>1, <1>6 DEF AsideFits, StageFits, Putting, Restoring
<1>8. Found(dir)' = Found(dir)
  <2>1. at \notin Putting /\ at' \notin Putting
    BY <1>1 DEF Putting
  <2> QED
    BY <2>1, <1>5, OpenerReads, OpenerWillRead DEF FoundReads
<1>9. Implements
  BY <1>1, <1>2, <1>5, <1>8, Ends
<1> QED
  BY <1>5, <1>7, <1>9, InvShape DEF DbInv, Shape

(* The snapshot is copied, or the restore ends.                            *)
LEMMA FillStep ==
  ASSUME Bounds, DbInv, FillStaged
  PROVE  DbInv' /\ Implements
<1>1. CASE Goto("filled") /\ UNCHANGED <<fs, did, said, trouble>>
  <2>1. /\ at = "staging" /\ at' = "filled"
        /\ UNCHANGED <<dir, disk, pending, snapshots, last, said, did, snap>>
    BY <1>1 DEF FillStaged, Goto, fs
  <2>2. dir["wal aside"] = None /\ Shape /\ AsideFits /\ StageFits
    BY <2>1, InvShape DEF AsideFits, Putting
  <2>3. Shape' /\ Pairs' = Pairs /\ Possible' = Possible /\ Found(dir)' = Found(dir)
    BY <2>1, <2>2, SameFiles
  <2>4. AsideFits' /\ StageFits'
    BY <2>1, <2>2 DEF AsideFits, StageFits, Putting, Restoring
  <2>5. Implements
    BY <2>1, <2>3, Stutters
  <2> QED
    BY <2>3, <2>4, <2>5, InvShape DEF DbInv, Shape
<1>2. CASE Remove("staged") /\ Report("nothing")
  BY <1>2, UnstageStep DEF FillStaged
<1> QED
  BY <1>1, <1>2 DEF FillStaged

-----------------------------------------------------------------------------
(* The log comes and goes.                                                 *)

(* One more change, which takes the log away or puts one there.            *)
LEMMA LogChange ==
  ASSUME Shape, Later, NEW change, Change(change), DOMAIN change \subseteq Names,
         "db" \notin DOMAIN change, "wal" \in DOMAIN change,
         \A n \in DOMAIN change \cap Telling : change[n] \in Known',
         \A x \in Pairs : x[1] # None /\ change["wal"] # None => Match(x[1], change["wal"])
  PROVE  /\ Shape' /\ Pairs \subseteq Pairs'
         /\ \A x \in Pairs : <<x[1], change["wal"]>> \in Pairs'
         /\ \A x \in Pairs' : \E u \in Pairs : x[1] = u[1] /\ (x[2] = u[2] \/ x[2] = change["wal"])
<1>1. \A x \in Pairs : Over(change, "db", x[1]) = x[1] /\ Over(change, "wal", x[2]) = change["wal"]
  BY DEF Over
<1>2. /\ Shape' /\ Pairs \subseteq Pairs'
      /\ Pairs' = Pairs \cup {<<Over(change, "db", x[1]), Over(change, "wal", x[2])>> : x \in Pairs}
  BY <1>1, ShapeChange
<1>3. Pairs' = Pairs \cup {<<x[1], change["wal"]>> : x \in Pairs}
  BY <1>1, <1>2
<1> QED
  BY <1>2, <1>3

(* Without its log, what was possible reads as less.                       *)
LEMMA LogGone ==
  ASSUME Bounds, Shape,
         \A x \in Pairs' : \E u \in Pairs : x[1] = u[1] /\ (x[2] = u[2] \/ x[2] = None)
  PROVE  Replaces!Unwritten
<1>1. ASSUME NEW x \in Pairs'
      PROVE  \E v \in Possible : Read(x[1], x[2]) \in Replaces!UpTo(v)
  <2>1. PICK u \in Pairs : x[1] = u[1] /\ (x[2] = u[2] \/ x[2] = None)
    OBVIOUS
  <2>2. Read(u[1], u[2]) \in Possible
    BY OpenerReads DEF FoundReads
  <2>3. Read(u[1], None) \in Replaces!UpTo(Read(u[1], u[2]))
    BY ReadsLess DEF Shape, PairsFit
  <2>4. Read(u[1], u[2]) \in Replaces!UpTo(Read(u[1], u[2]))
    BY DEF Replaces!UpTo
  <2> QED
    BY <2>1, <2>2, <2>3, <2>4
<1> QED
  BY <1>1, OnlyUnwritten

(* The log is put aside: an opener still counts it.                        *)
LEMMA SetAside ==
  ASSUME Bounds, DbInv, at = "filled", dir["wal"] # None, Rename("wal", "wal aside"),
         at' = "wal moved", UNCHANGED <<snapshots, snap, last, did, said>>
  PROVE  DbInv' /\ Implements
<1>1. Shape /\ AsideFits /\ StageFits /\ Later /\ did = "nothing"
  BY InvShape DEF StageFits, Restoring, Later, Shape
<1>2. PICK g : g = dir["wal"]
  OBVIOUS
<1>3. /\ \E change : /\ Change(change) /\ DOMAIN change = {"wal", "wal aside"}
                     /\ change["wal"] = None /\ change["wal aside"] = g
      /\ dir'["wal"] = None /\ dir'["wal aside"] = g
      /\ \A n \in Names \ {"wal", "wal aside"} : dir'[n] = dir[n]
  BY <1>1, <1>2, RenameIs DEF Shape, Names
<1>4. PICK c : /\ Change(c) /\ DOMAIN c = {"wal", "wal aside"}
               /\ c["wal"] = None /\ c["wal aside"] = g
  BY <1>3
<1>5. Known \subseteq Known' /\ g \in Known /\ None \in Known'
  BY <1>1, <1>2, KnownStays DEF Shape, Telling, Known
<1>6. /\ Shape' /\ Pairs \subseteq Pairs'
      /\ \A x \in Pairs' : \E u \in Pairs : x[1] = u[1] /\ (x[2] = u[2] \/ x[2] = None)
  BY <1>1, <1>4, <1>5, LogChange DEF Names
<1>7. dir'["db"] = dir["db"] /\ dir'["staged"] = dir["staged"]
  BY <1>3 DEF Names
<1>8. AsideFits'
  <2>1. ASSUME NEW x \in Pairs', x[1] # None
        PROVE  Match(x[1], g) /\ <<x[1], g>> \in Pairs'
    <3>1. PICK u \in Pairs : x[1] = u[1]
      BY <1>6
    <3>2. <<u[1], g>> \in Pairs
      BY <1>1, <1>2 DEF Shape, PairsFit
    <3>3. Match(u[1], g)
      BY <3>1, <3>2, <2>1, <1>2, <1>1 DEF Shape, PairsFit
    <3> QED
      BY <3>1, <3>2, <3>3, <1>6
  <2>2. at' = "wal moved" /\ dir'["wal"] = None /\ dir'["wal aside"] = g
    BY <1>3
  <2> QED
    BY <2>1, <2>2 DEF AsideFits, Putting, Match
<1>9. StageFits'
  BY <1>1, <1>7 DEF StageFits, Restoring
<1>10. Found(dir)' = Found(dir)
  <2>1. at \notin Putting /\ at' \in Putting
    BY DEF Putting
  <2>2. Found(dir) = Read(dir["db"], g)
    BY <1>2, OpenerReads DEF FoundReads
  <2>3. Found(dir)' = Read(dir["db"], g)
    BY <2>1, <1>3, <1>7, OpenerWillRead DEF FoundReads
  <2> QED
    BY <2>2, <2>3
<1>11. Replaces!Unwritten
  BY <1>1, <1>6, LogGone
<1>12. Implements
  BY <1>10, <1>11, Prepares
<1> QED
  BY <1>6, <1>8, <1>9, <1>12, InvShape DEF DbInv, Shape

(* Steps of a restore that go on without a change of names.                *)
LEMMA GoOn ==
  ASSUME DbInv, UNCHANGED <<dir, disk, pending, snapshots, snap, last, did, said>>,
         \/ at = "filled" /\ at' = "wal moved" /\ dir["wal"] = None
         \/ at = "wal moved" /\ at' \in {"moved", "undo"}
         \/ at = "barred" /\ at' = "undo"
  PROVE  DbInv' /\ Implements
<1>1. Shape /\ AsideFits /\ StageFits
  BY InvShape
<1>2. Shape' /\ Pairs' = Pairs /\ Possible' = Possible
  BY SameFiles
<1>3. Found(dir)' = Found(dir)
  <2>1. (at' \in Putting <=> at \in Putting) \/ dir["wal aside"] = None
    BY <1>1 DEF AsideFits, Putting
  <2> QED
    BY <2>1, SameFiles
<1>4. AsideFits'
  <2>1. CASE at = "filled"
    BY <2>1, <1>1 DEF AsideFits, Putting
  <2>2. CASE at # "filled"
    <3>1. at \in {"wal moved", "barred"} /\ at' \in {"moved", "undo"}
      BY <2>2
    <3> QED
      BY <3>1, <1>1, <1>2 DEF AsideFits, Putting, Match
  <2> QED
    BY <2>1, <2>2
<1>5. StageFits'
  BY <1>1 DEF StageFits, Restoring
<1>6. Implements
  BY <1>2, <1>3, Stutters
<1> QED
  BY <1>2, <1>4, <1>5, <1>6, InvShape DEF DbInv, Shape

(* A restore or its undoing moves or removes the index, which nobody needs.*)
LEMMA IndexStep ==
  ASSUME Bounds, DbInv, NEW change, Change(change), DOMAIN change \subseteq {"shm", "shm aside"},
         \/ at = "wal moved" /\ at' = "moved"
         \/ at = "undo" /\ at' = "undo",
         UNCHANGED <<snapshots, snap, last, did, said>>
  PROVE  DbInv' /\ Implements
<1>1. Shape /\ AsideFits /\ StageFits /\ Later
  BY InvShape DEF Later, Shape
<1>2. DOMAIN change \subseteq Names /\ DOMAIN change \cap Telling = {}
      /\ "db" \notin DOMAIN change /\ "wal" \notin DOMAIN change
  BY DEF Names, Telling
<1>3. /\ Shape' /\ Pairs' = Pairs /\ Replaces!Unwritten
      /\ dir'["db"] = dir["db"] /\ dir'["wal"] = dir["wal"]
      /\ \A n \in Names \ DOMAIN change : dir'[n] = dir[n]
  BY <1>1, <1>2, OtherChange
<1>4. dir'["wal aside"] = dir["wal aside"] /\ dir'["staged"] = dir["staged"]
  BY <1>3 DEF Names
<1>5. Found(dir)' = Found(dir)
  <2>1. at \in Putting /\ at' \in Putting
    BY DEF Putting
  <2>2. Found(dir) = Read(dir["db"], IF dir["wal"] # None THEN dir["wal"] ELSE dir["wal aside"])
    BY <2>1, OpenerReads DEF FoundReads
  <2>3. Found(dir)' = Read(dir'["db"], IF dir'["wal"] # None THEN dir'["wal"] ELSE dir'["wal aside"])
    BY <2>1, OpenerWillRead DEF FoundReads
  <2>4. /\ dir'["db"] = dir["db"] /\ dir'["wal"] = dir["wal"]
        /\ dir'["wal aside"] = dir["wal aside"]
    BY <1>3, <1>4
  <2>5. Found(dir)' = Read(dir["db"], IF dir["wal"] # None THEN dir["wal"] ELSE dir["wal aside"])
    BY <2>3, <2>4, Zenon
  <2> QED
    BY <2>2, <2>5, Zenon
<1>6. AsideFits'
  BY <1>1, <1>3, <1>4 DEF AsideFits, Putting, Match
<1>7. StageFits'
  BY <1>1, <1>4 DEF StageFits, Restoring
<1>8. Implements
  BY <1>3, <1>5, Prepares
<1> QED
  BY <1>3, <1>6, <1>7, <1>8, InvShape DEF DbInv, Shape

(* The sidecars are put aside, one after the other, or the restore ends.   *)
LEMMA QuarantineStep ==
  ASSUME Bounds, DbInv, QuarantineSidecars
  PROVE  DbInv' /\ Implements
<1>1. CASE at = "filled" /\ Goto("wal moved")
           /\ (IF Quarantined("wal") THEN Rename("wal", Aside["wal"]) ELSE UNCHANGED fs)
           /\ UNCHANGED <<did, said, trouble>>
  <2>1. UNCHANGED <<snapshots, snap, last, did, said>> /\ at' = "wal moved" /\ Aside["wal"] = "wal aside"
    BY <1>1 DEF QuarantineSidecars, Goto, Aside
  <2>2. CASE dir["wal"] # None
    BY <1>1, <2>1, <2>2, SetAside DEF Quarantined
  <2>3. CASE dir["wal"] = None
    BY <1>1, <2>1, <2>3, GoOn DEF Quarantined, fs
  <2> QED
    BY <2>2, <2>3
<1>2. CASE at = "filled" /\ Remove("staged") /\ Report("nothing")
  BY <1>2, UnstageStep DEF QuarantineSidecars
<1>3. CASE at = "wal moved" /\ Goto("moved")
           /\ (IF Quarantined("shm") THEN Rename("shm", Aside["shm"]) ELSE UNCHANGED fs)
           /\ UNCHANGED <<did, said, trouble>>
  <2>1. UNCHANGED <<snapshots, snap, last, did, said>> /\ at' = "moved" /\ Aside["shm"] = "shm aside"
    BY <1>3 DEF QuarantineSidecars, Goto, Aside
  <2>2. CASE Quarantined("shm")
    <3>1. Rename("shm", "shm aside")
      BY <1>3, <2>1, <2>2
    <3>2. PICK c : Change(c) /\ DOMAIN c = {"shm", "shm aside"}
      BY <3>1, RenameIs DEF DbInv, Names
    <3> QED
      BY <1>3, <2>1, <3>2, IndexStep
  <2>3. CASE ~Quarantined("shm")
    BY <1>3, <2>1, <2>3, GoOn DEF fs
  <2> QED
    BY <2>2, <2>3
<1>4. CASE at = "wal moved" /\ Goto("undo") /\ UNCHANGED <<fs, did, said>>
  BY <1>4, GoOn DEF QuarantineSidecars, Goto, fs
<1> QED
  BY <1>1, <1>2, <1>3, <1>4 DEF QuarantineSidecars

(* The quarantine reaches the disk.                                        *)
LEMMA BarrierStep ==
  ASSUME Bounds, DbInv, Barrier
  PROVE  DbInv' /\ Implements
<1>1. /\ at = "moved" /\ at' = "barred" /\ disk' = dir /\ pending' = <<>> /\ dir' = dir
      /\ UNCHANGED <<snapshots, snap, last, did, said>>
  BY DEF Barrier, Goto, SyncParentDir
<1>2. Shape /\ AsideFits /\ StageFits /\ Later /\ Known' = Known
  BY <1>1, InvShape DEF Later, Shape, Known
<1>3. <<dir["db"], dir["wal"]>> \in Pairs /\ dir["wal"] = None
  BY <1>1, <1>2 DEF Shape, PairsFit, AsideFits
<1>4. Shape' /\ Pairs' = {<<dir["db"], dir["wal"]>>}
  BY <1>1, <1>2, <1>3, ShapeSynced DEF Shape
<1>5. AsideFits'
  <2>1. \A x \in Pairs' : x \in Pairs /\ x[1] = dir["db"]
    BY <1>3, <1>4
  <2> QED
    BY <2>1, <1>1, <1>2, <1>4 DEF AsideFits, Putting, Match
<1>6. StageFits'
  BY <1>1, <1>2 DEF StageFits, Restoring
<1>7. Found(dir)' = Found(dir)
  <2>1. at \in Putting /\ at' \in Putting
    BY <1>1 DEF Putting
  <2> QED
    BY <2>1, <1>1, OpenerReads, OpenerWillRead DEF FoundReads
<1>8. Replaces!Unwritten
  <2>1. \A x \in Pairs' : \E u \in Pairs : x[1] = u[1] /\ (x[2] = u[2] \/ x[2] = None)
    BY <1>3, <1>4
  <2> QED
    BY <2>1, <1>2, LogGone
<1>9. Implements
  BY <1>1, <1>7, <1>8, Prepares
<1> QED
  BY <1>4, <1>5, <1>6, <1>9, InvShape DEF DbInv, Shape

(* The snapshot takes the database's place, with no log beside it.         *)
LEMMA PublishStep ==
  ASSUME Bounds, DbInv, Publish
  PROVE  DbInv' /\ Implements
<1>1. CASE Goto("undo") /\ UNCHANGED <<fs, did>>
  BY <1>1, GoOn DEF Publish, Goto, fs
<1>2. CASE Rename("staged", "db") /\ did' = "replaced" /\ Goto("published")
  <2>1. /\ at = "barred" /\ at' = "published" /\ did' = "replaced"
        /\ UNCHANGED <<snapshots, snap, last, said>>
    BY <1>2 DEF Publish, Goto
  <2>2. Shape /\ AsideFits /\ StageFits /\ Later
    BY <2>1, InvShape DEF Later, Shape
  <2>3. /\ dir["wal"] = None /\ Pairs = {<<dir["db"], dir["wal"]>>} /\ did = "nothing"
        /\ snap \in snapshots /\ dir["staged"] # None /\ dir["staged"].version = snap
    BY <2>1, <2>2 DEF AsideFits, StageFits, Restoring
  <2>4. PICK s : s = dir["staged"]
    OBVIOUS
  <2>5. /\ \E change : /\ Change(change) /\ DOMAIN change = {"staged", "db"}
                       /\ change["staged"] = None /\ change["db"] = s
        /\ dir'["db"] = s /\ \A n \in Names \ {"staged", "db"} : dir'[n] = dir[n]
    BY <1>2, <2>2, <2>4, RenameIs DEF Shape, Names
  <2>6. PICK c : /\ Change(c) /\ DOMAIN c = {"staged", "db"}
                 /\ c["staged"] = None /\ c["db"] = s
    BY <2>5
  <2>7. \A n \in DOMAIN c \cap Telling : c[n] \in Known'
    <3>1. Known \subseteq Known' /\ s \in Known /\ None \in Known
      BY <2>2, <2>4, KnownStays DEF Shape, Telling, Known
    <3> QED
      BY <2>6, <3>1
  <2>8. \A x \in Pairs : Over(c, "db", x[1]) = s /\ Over(c, "wal", x[2]) = None
    BY <2>3, <2>6 DEF Over
  <2>9. /\ Shape'
        /\ Pairs' = Pairs \cup {<<Over(c, "db", x[1]), Over(c, "wal", x[2])>> : x \in Pairs}
    BY <2>2, <2>6, <2>7, <2>8, ShapeChange DEF Names
  <2>10. dir'["wal"] = None
    BY <2>3, <2>5 DEF Names
  <2>11. AsideFits' /\ StageFits'
    BY <2>1 DEF AsideFits, StageFits, Putting, Restoring
  <2>12. Found(dir)' = snap
    <3>1. at' \notin Putting
      BY <2>1 DEF Putting
    <3>2. Found(dir)' = Read(s, None)
      BY <3>1, <2>5, <2>10, OpenerWillRead DEF FoundReads
    <3> QED
      BY <3>2, <2>3, <2>4, PairReads
  <2>13. Replaces!Unwritten
    <3>1. ASSUME NEW x \in Pairs'
          PROVE  Read(x[1], x[2]) \in Possible \cup {Found(dir)'}
      <4>1. CASE x \in Pairs
        BY <4>1, OpenerReads DEF FoundReads
      <4>2. CASE x = <<s, None>>
        <5>1. Read(s, None) = snap
          BY <2>3, <2>4, PairReads
        <5> QED
          BY <5>1, <4>2, <2>12
      <4> QED
        BY <4>1, <4>2, <2>8, <2>9
    <3>2. \A v : v \in Replaces!UpTo(v)
      BY DEF Replaces!UpTo
    <3> QED
      BY <3>1, <3>2, OnlyUnwritten
  <2>14. Implements
    BY <2>1, <2>3, <2>12, <2>13 DEF Implements, Replaces!Next, Replaces!Replace
  <2> QED
    BY <2>9, <2>11, <2>14, InvShape DEF DbInv, Shape
<1> QED
  BY <1>1, <1>2 DEF Publish

(* The log goes back beside its database.                                  *)
LEMMA PutBack ==
  ASSUME Bounds, DbInv, at = "undo", dir["wal aside"] # None, Rename("wal aside", "wal"),
         UNCHANGED <<at, snapshots, snap, last, did, said>>
  PROVE  DbInv' /\ Implements
<1>1. Shape /\ AsideFits /\ StageFits /\ Later /\ dir["wal"] = None
  BY InvShape DEF Later, Shape, AsideFits
<1>2. PICK g : g = dir["wal aside"]
  OBVIOUS
<1>3. /\ \E change : /\ Change(change) /\ DOMAIN change = {"wal aside", "wal"}
                     /\ change["wal aside"] = None /\ change["wal"] = g
      /\ dir'["wal aside"] = None /\ dir'["wal"] = g
      /\ \A n \in Names \ {"wal aside", "wal"} : dir'[n] = dir[n]
  BY <1>1, <1>2, RenameIs DEF Shape, Names
<1>4. PICK c : /\ Change(c) /\ DOMAIN c = {"wal aside", "wal"}
               /\ c["wal aside"] = None /\ c["wal"] = g
  BY <1>3
<1>5. Known \subseteq Known' /\ g \in Known /\ None \in Known'
  BY <1>1, <1>2, KnownStays DEF Shape, Telling, Known
<1>6. \A x \in Pairs : x[1] # None =>
         Match(x[1], g) /\ (dir["db"] # None \/ <<x[1], g>> \in Pairs)
  BY <1>1, <1>2 DEF AsideFits, Putting
<1>7. /\ Shape' /\ Pairs \subseteq Pairs'
      /\ \A x \in Pairs' : \E u \in Pairs : x[1] = u[1] /\ (x[2] = u[2] \/ x[2] = g)
  BY <1>1, <1>4, <1>5, <1>6, LogChange DEF Names
<1>8. dir'["db"] = dir["db"]
  BY <1>3 DEF Names
<1>9. AsideFits' /\ StageFits'
  BY <1>1, <1>3 DEF AsideFits, StageFits, Putting, Restoring
<1>10. Found(dir) = Read(dir["db"], g) /\ Found(dir)' = Read(dir["db"], g)
  <2>1. at \in Putting
    BY DEF Putting
  <2>2. Found(dir) = Read(dir["db"], g)
    BY <2>1, <1>1, <1>2, OpenerReads DEF FoundReads
  <2>3. Found(dir)' = Read(dir["db"], g)
    BY <1>2, <1>3, <1>8, OpenerWillRead DEF FoundReads
  <2> QED
    BY <2>2, <2>3
<1>11. ASSUME NEW x \in Pairs'
       PROVE  Read(x[1], x[2]) \in Possible \cup {Found(dir)}
  <2>1. PICK u \in Pairs : x[1] = u[1] /\ (x[2] = u[2] \/ x[2] = g)
    BY <1>7
  <2>2. Read(u[1], u[2]) \in Possible
    BY OpenerReads DEF FoundReads
  <2>3. CASE x[1] = None
    <3>1. Read(x[1], x[2]) = None /\ Read(u[1], u[2]) = None
      BY <2>1, <2>3, PairReads
    <3> QED
      BY <3>1, <2>2
  <2>4. CASE x[1] # None /\ x[2] = g
    <3>1. Match(x[1], g) /\ (dir["db"] # None \/ <<x[1], g>> \in Pairs)
      BY <2>1, <2>4, <1>6
    <3>2. CASE <<x[1], g>> \in Pairs
      <4>1. <<x[1], g>>[1] = x[1] /\ <<x[1], g>>[2] = g
        OBVIOUS
      <4> QED
        BY <4>1, <3>2, <2>4, OpenerReads, Zenon DEF FoundReads
    <3>3. CASE dir["db"] # None
      <4>1. <<dir["db"], dir["wal"]>> \in Pairs
        BY <1>1 DEF Shape, PairsFit
      <4>2. Match(dir["db"], g)
        BY <4>1, <3>3, <1>6
      <4>3. Read(dir["db"], g) = g.version /\ Read(x[1], g) = g.version
        BY <4>2, <3>1, <3>3, <2>4, <1>2, PairReads
      <4> QED
        BY <4>3, <2>4, <1>10
    <3> QED
      BY <3>1, <3>2, <3>3
  <2>5. CASE x[2] = u[2]
    BY <2>1, <2>2, <2>5
  <2> QED
    BY <2>1, <2>3, <2>4, <2>5
<1>12. Replaces!Unwritten
  <2>1. \A v : v \in Replaces!UpTo(v)
    BY DEF Replaces!UpTo
  <2> QED
    BY <2>1, <1>11, OnlyUnwritten
<1>13. Implements
  BY <1>10, <1>12, Prepares
<1> QED
  BY <1>7, <1>9, <1>13, InvShape DEF DbInv, Shape

(* The log cannot go back: its commits are lost.                           *)
LEMMA LogLost ==
  ASSUME Bounds, DbInv, at = "undo", dir["wal aside"] # None, Remove("wal aside"),
         did' = "lost", UNCHANGED <<at, snapshots, snap, last, said>>
  PROVE  DbInv' /\ Implements
<1>1. Shape /\ AsideFits /\ StageFits /\ Later /\ dir["wal"] = None
  BY InvShape DEF Later, Shape, AsideFits
<1>2. /\ \E change : Change(change) /\ DOMAIN change = {"wal aside"} /\ change["wal aside"] = None
      /\ dir'["wal aside"] = None /\ \A n \in Names \ {"wal aside"} : dir'[n] = dir[n]
  BY <1>1, RemoveIs DEF Shape, Names
<1>3. PICK c : Change(c) /\ DOMAIN c = {"wal aside"} /\ c["wal aside"] = None
  BY <1>2
<1>4. \A n \in DOMAIN c \cap Telling : c[n] \in Known'
  BY <1>3 DEF Known
<1>5. /\ Shape' /\ Pairs' = Pairs /\ Replaces!Unwritten
      /\ dir'["db"] = dir["db"] /\ dir'["wal"] = None
  BY <1>1, <1>3, <1>4, OtherChange DEF Names
<1>6. AsideFits' /\ StageFits'
  BY <1>1, <1>2 DEF AsideFits, StageFits, Putting, Restoring
<1>7. Found(dir)' \in Replaces!UpTo(Found(dir))
  <2>1. Found(dir)' = Read(dir["db"], None)
    BY <1>2, <1>5, OpenerWillRead DEF FoundReads
  <2> QED
    BY <2>1, <1>1, LogFits, ReadsLess
<1>8. Implements
  BY <1>5, <1>7 DEF Implements, Replaces!Next, Replaces!Lose
<1> QED
  BY <1>5, <1>6, <1>8, InvShape DEF DbInv, Shape

(* What was put aside goes back, or is lost; then the restore ends.        *)
LEMMA UndoStep ==
  ASSUME Bounds, DbInv, Undo
  PROVE  DbInv' /\ Implements
<1>1. at = "undo" /\ UNCHANGED <<snapshots, snap, last>> /\ DOMAIN dir = Names
  BY DEF Undo, DbInv
<1>2. CASE dir["wal aside"] = None /\ dir["shm aside"] = None
  <2>1. Remove("staged") /\ at' = "idle" /\ said' = did /\ did' = "nothing"
    BY <1>2 DEF Undo, Report, Goto
  <2>2. Shape /\ AsideFits /\ StageFits /\ Later /\ did # "replaced"
    BY <1>1, InvShape DEF Later, Shape, StageFits
  <2>3. PICK c : Change(c) /\ DOMAIN c = {"staged"} /\ c["staged"] = None
    BY <1>1, <2>1, RemoveIs DEF Names
  <2>4. \A n \in DOMAIN c \cap Telling : c[n] \in Known'
    BY <2>3 DEF Known
  <2>5. /\ Shape' /\ Pairs' = Pairs /\ Replaces!Unwritten
        /\ dir'["db"] = dir["db"] /\ dir'["wal"] = dir["wal"]
        /\ \A n \in Names \ {"staged"} : dir'[n] = dir[n]
    BY <2>2, <2>3, <2>4, OtherChange DEF Names
  <2>6. dir'["wal aside"] = None
    BY <1>2, <2>5 DEF Names
  <2>7. AsideFits' /\ StageFits'
    BY <2>1, <2>6 DEF AsideFits, StageFits, Putting, Restoring
  <2>8. Found(dir)' = Found(dir)
    <3>1. Found(dir) = Read(dir["db"], dir["wal"])
      BY <1>2, OpenerReads DEF FoundReads
    <3>2. Found(dir)' = Read(dir'["db"], dir'["wal"])
      BY <2>6, OpenerWillRead DEF FoundReads
    <3> QED
      BY <3>1, <3>2, <2>5
  <2>9. Implements
    BY <1>1, <2>1, <2>2, <2>5, <2>8, Ends
  <2> QED
    BY <2>5, <2>7, <2>9, InvShape DEF DbInv, Shape
<1>3. CASE dir["wal aside"] # None
  <2>1. \/ Rename("wal aside", "wal") /\ UNCHANGED <<at, did, said>>
        \/ Remove("wal aside") /\ did' = "lost" /\ UNCHANGED <<at, said>>
    BY <1>3 DEF Undo, Aside
  <2> QED
    BY <2>1, <1>1, <1>3, PutBack, LogLost
<1>4. CASE dir["wal aside"] = None /\ dir["shm aside"] # None
  <2>1. (Rename("shm aside", "shm") \/ Remove("shm aside")) /\ UNCHANGED <<at, did, said>>
    BY <1>4 DEF Undo, Aside
  <2>2. \E c : Change(c) /\ DOMAIN c \subseteq {"shm", "shm aside"}
    <3>1. CASE Rename("shm aside", "shm")
      BY <3>1, <1>1, RenameIs DEF Names
    <3>2. CASE Remove("shm aside")
      BY <3>2, <1>1, RemoveIs DEF Names
    <3> QED
      BY <2>1, <3>1, <3>2
  <2> QED
    BY <2>1, <2>2, <1>1, IndexStep
<1> QED
  BY <1>2, <1>3, <1>4

(* The old sidecars are gone and all is on the disk.                       *)
LEMMA CleanUpStep ==
  ASSUME Bounds, DbInv, CleanUp
  PROVE  DbInv' /\ Implements
<1>1. /\ at = "published" /\ at' = "idle" /\ said' = "replaced" /\ did' = "nothing"
      /\ dir' = [n \in Names |-> IF n \in Temporary THEN None ELSE dir[n]]
      /\ disk' = dir' /\ pending' = <<>> /\ UNCHANGED <<snapshots, snap, last>>
  BY DEF CleanUp, Report, Goto
<1>2. Shape /\ AsideFits /\ StageFits /\ Later /\ Known' = Known /\ did = "replaced"
  BY <1>1, InvShape DEF Later, Shape, Known, StageFits
<1>3. dir'["db"] = dir["db"] /\ dir'["wal"] = dir["wal"] /\ dir'["wal aside"] = None
  BY <1>1 DEF Names, Temporary
<1>4. DOMAIN dir' = Names /\ \A n \in Telling : dir'[n] \in Known'
  BY <1>1, <1>2 DEF Shape, Telling, Names, Known
<1>5. dir'["db"] # None /\ dir'["wal"] # None => Match(dir'["db"], dir'["wal"])
  BY <1>2, <1>3 DEF Shape, PairsFit
<1>6. Shape' /\ Pairs' = {<<dir'["db"], dir'["wal"]>>}
  BY <1>1, <1>2, <1>4, <1>5, ShapeSynced
<1>7. AsideFits' /\ StageFits'
  BY <1>1, <1>3 DEF AsideFits, StageFits, Putting, Restoring
<1>8. Found(dir) = Read(dir["db"], dir["wal"]) /\ Found(dir)' = Read(dir["db"], dir["wal"])
  <2>1. at \notin Putting /\ at' \notin Putting
    BY <1>1 DEF Putting
  <2>2. Found(dir) = Read(dir["db"], dir["wal"])
    BY <2>1, OpenerReads DEF FoundReads
  <2>3. Found(dir)' = Read(dir'["db"], dir'["wal"])
    BY <2>1, OpenerWillRead DEF FoundReads
  <2> QED
    BY <2>2, <2>3, <1>3
<1>9. Possible' = {Found(dir)}
  <2>1. Possible' = {Read(x[1], x[2]) : x \in Pairs'}
    BY OpenerWillRead DEF FoundReads
  <2>2. Pairs' = {<<dir["db"], dir["wal"]>>}
    BY <1>3, <1>6
  <2>3. Possible' = {Read(dir["db"], dir["wal"])}
    BY <2>1, <2>2
  <2> QED
    BY <2>3, <1>8
<1>10. Implements
  BY <1>1, <1>2, <1>8, <1>9 DEF Implements, Replaces!Next, Replaces!End, Possible
<1> QED
  BY <1>6, <1>7, <1>10, InvShape DEF DbInv, Shape

-----------------------------------------------------------------------------
(* Reset.                                                                  *)

(* A removal that fails, and one that had nothing to remove but its name.  *)
LEMMA ResetGoesOn ==
  ASSUME DbInv, UNCHANGED <<dir, disk, pending, snapshots, snap, last>>,
         \/ at = "deleting" /\ at' = "unlinked" /\ UNCHANGED <<did, said>>
         \/ at = "unlinked" /\ at' = "cut" /\ UNCHANGED <<did, said>>
         \/ at = "cut" /\ at' = "idle" /\ said' = did /\ did' = "nothing"
  PROVE  DbInv' /\ Implements
<1>1. Shape /\ AsideFits /\ StageFits
  BY InvShape
<1>2. Shape' /\ Pairs' = Pairs /\ Possible' = Possible
  BY SameFiles
<1>3. dir["wal aside"] = None
  BY <1>1 DEF AsideFits, Putting
<1>4. Found(dir)' = Found(dir)
  BY <1>3, SameFiles
<1>5. AsideFits'
  BY <1>3 DEF AsideFits, Putting
<1>6. StageFits'
  BY <1>1 DEF StageFits, Restoring
<1>7. Implements
  <2>1. CASE at = "cut"
    <3>1. did # "replaced" /\ at' = "idle" /\ said' = did /\ did' = "nothing"
      BY <1>1, <2>1 DEF StageFits
    <3>2. Replaces!Unwritten
      BY <1>2, SamePairs
    <3> QED
      BY <2>1, <3>1, <3>2, <1>4, Ends
  <2>2. CASE at # "cut"
    BY <2>2, <1>2, <1>4, Stutters
  <2> QED
    BY <2>1, <2>2
<1> QED
  BY <1>2, <1>5, <1>6, <1>7, InvShape DEF DbInv, Shape

(* The database is removed.                                                *)
LEMMA DeleteStep ==
  ASSUME Bounds, DbInv, at = "deleting", at' = "unlinked", Remove("db"),
         did' = IF dir["db"] # None THEN "deleted" ELSE did,
         UNCHANGED <<snapshots, snap, last, said>>
  PROVE  DbInv' /\ Implements
<1>1. Shape /\ AsideFits /\ StageFits /\ Later
  BY InvShape DEF Later, Shape
<1>2. did = "nothing" /\ dir["wal aside"] = None
  BY <1>1 DEF StageFits, AsideFits, Putting
<1>3. /\ \E change : Change(change) /\ DOMAIN change = {"db"} /\ change["db"] = None
      /\ dir'["db"] = None /\ \A n \in Names \ {"db"} : dir'[n] = dir[n]
  BY <1>1, RemoveIs DEF Shape, Names
<1>4. PICK c : Change(c) /\ DOMAIN c = {"db"} /\ c["db"] = None
  BY <1>3
<1>5. \A n \in DOMAIN c \cap Telling : c[n] \in Known'
  BY <1>4 DEF Known
<1>6. \A x \in Pairs : Over(c, "db", x[1]) = None /\ Over(c, "wal", x[2]) = x[2]
  BY <1>4 DEF Over
<1>7. /\ Shape'
      /\ Pairs' = Pairs \cup {<<Over(c, "db", x[1]), Over(c, "wal", x[2])>> : x \in Pairs}
  BY <1>1, <1>4, <1>5, <1>6, ShapeChange DEF Names
<1>8. dir'["wal aside"] = None
  BY <1>2, <1>3 DEF Names
<1>9. AsideFits' /\ StageFits'
  BY <1>2, <1>8 DEF AsideFits, StageFits, Putting, Restoring
<1>10. Found(dir)' = None
  <2>1. Found(dir)' = Read(None, Log)'
    BY <1>3, OpenerWillRead DEF FoundReads, Log
  <2>2. Read(None, Log)' = None
    BY PairReads DEF Read
  <2> QED
    BY <2>1, <2>2
<1>11. Replaces!Unwritten
  <2>1. ASSUME NEW x \in Pairs'
        PROVE  Read(x[1], x[2]) \in Possible \cup {Found(dir)'}
    <3>1. CASE x \in Pairs
      BY <3>1, OpenerReads DEF FoundReads
    <3>2. CASE x[1] = None
      BY <3>2, <1>10, PairReads
    <3> QED
      BY <3>1, <3>2, <1>6, <1>7
  <2>2. \A v : v \in Replaces!UpTo(v)
    BY DEF Replaces!UpTo
  <2> QED
    BY <2>1, <2>2, OnlyUnwritten
<1>12. Implements
  <2>1. CASE dir["db"] # None
    BY <2>1, <1>2, <1>10, <1>11 DEF Implements, Replaces!Next, Replaces!Delete
  <2>2. CASE dir["db"] = None
    <3>1. Found(dir) = None
      BY <2>2, LogFits, PairReads
    <3> QED
      BY <2>2, <3>1, <1>10, <1>11, Prepares
  <2> QED
    BY <2>1, <2>2
<1> QED
  BY <1>7, <1>9, <1>12, InvShape DEF DbInv, Shape

(* The log is removed: a loss when its database stayed.                    *)
LEMMA DeleteLogStep ==
  ASSUME Bounds, DbInv, at = "unlinked", at' = "cut", Remove("wal"),
         did' = IF dir["wal"] # None /\ dir["db"] # None THEN "lost" ELSE did,
         UNCHANGED <<snapshots, snap, last, said>>
  PROVE  DbInv' /\ Implements
<1>1. Shape /\ AsideFits /\ StageFits /\ Later
  BY InvShape DEF Later, Shape
<1>2. did # "replaced" /\ dir["wal aside"] = None
  BY <1>1 DEF StageFits, AsideFits, Putting
<1>3. /\ \E change : Change(change) /\ DOMAIN change = {"wal"} /\ change["wal"] = None
      /\ dir'["wal"] = None /\ \A n \in Names \ {"wal"} : dir'[n] = dir[n]
  BY <1>1, RemoveIs DEF Shape, Names
<1>4. PICK c : Change(c) /\ DOMAIN c = {"wal"} /\ c["wal"] = None
  BY <1>3
<1>5. \A n \in DOMAIN c \cap Telling : c[n] \in Known'
  BY <1>4 DEF Known
<1>6. /\ Shape'
      /\ \A x \in Pairs' : \E u \in Pairs : x[1] = u[1] /\ (x[2] = u[2] \/ x[2] = None)
  BY <1>1, <1>4, <1>5, LogChange DEF Names
<1>7. dir'["wal aside"] = None /\ dir'["db"] = dir["db"]
  BY <1>2, <1>3 DEF Names
<1>8. AsideFits'
  BY <1>7 DEF AsideFits, Putting
<1>9. StageFits'
  BY <1>2 DEF StageFits, Restoring
<1>10. Found(dir) = Read(dir["db"], dir["wal"]) /\ Found(dir)' = Read(dir["db"], None)
  <2>1. Found(dir) = Read(dir["db"], dir["wal"])
    BY <1>2, OpenerReads DEF FoundReads
  <2>2. Found(dir)' = Read(dir'["db"], None)
    BY <1>3, <1>7, OpenerWillRead DEF FoundReads
  <2> QED
    BY <2>1, <2>2, <1>7
<1>11. Replaces!Unwritten
  BY <1>1, <1>6, LogGone
<1>12. Implements
  <2>1. CASE dir["wal"] # None /\ dir["db"] # None
    <3>1. <<dir["db"], dir["wal"]>> \in Pairs
      BY <1>1 DEF Shape, PairsFit
    <3>2. Read(dir["db"], None) \in Replaces!UpTo(Read(dir["db"], dir["wal"]))
      BY <3>1, <1>1, ReadsLess DEF Shape, PairsFit, Telling
    <3> QED
      BY <2>1, <3>2, <1>10, <1>11 DEF Implements, Replaces!Next, Replaces!Lose
  <2>2. CASE dir["wal"] = None \/ dir["db"] = None
    <3>1. Read(dir["db"], None) = Read(dir["db"], dir["wal"])
      BY <2>2, PairReads
    <3> QED
      BY <2>2, <3>1, <1>10, <1>11, Prepares
  <2> QED
    BY <2>1, <2>2
<1> QED
  BY <1>6, <1>8, <1>9, <1>12, InvShape DEF DbInv, Shape

(* The index is removed, and the reset ends.                               *)
LEMMA DeleteIndexStep ==
  ASSUME Bounds, DbInv, at = "cut", at' = "idle", Remove("shm"), said' = did, did' = "nothing",
         UNCHANGED <<snapshots, snap, last>>
  PROVE  DbInv' /\ Implements
<1>1. Shape /\ AsideFits /\ StageFits /\ Later
  BY InvShape DEF Later, Shape
<1>2. did # "replaced" /\ dir["wal aside"] = None
  BY <1>1 DEF StageFits, AsideFits, Putting
<1>3. PICK c : Change(c) /\ DOMAIN c = {"shm"}
  BY <1>1, RemoveIs DEF Shape, Names
<1>4. DOMAIN c \cap Telling = {}
  BY <1>3 DEF Telling
<1>5. /\ Shape' /\ Pairs' = Pairs /\ Replaces!Unwritten
      /\ dir'["db"] = dir["db"] /\ dir'["wal"] = dir["wal"]
      /\ \A n \in Names \ {"shm"} : dir'[n] = dir[n]
  BY <1>1, <1>3, <1>4, OtherChange DEF Names
<1>6. dir'["wal aside"] = None
  BY <1>2, <1>5 DEF Names
<1>7. AsideFits' /\ StageFits'
  BY <1>6 DEF AsideFits, StageFits, Putting, Restoring
<1>8. Found(dir)' = Found(dir)
  <2>1. Found(dir) = Read(dir["db"], dir["wal"])
    BY <1>2, OpenerReads DEF FoundReads
  <2>2. Found(dir)' = Read(dir'["db"], dir'["wal"])
    BY <1>6, OpenerWillRead DEF FoundReads
  <2> QED
    BY <2>1, <2>2, <1>5
<1>9. Implements
  BY <1>2, <1>5, <1>8, Ends
<1> QED
  BY <1>5, <1>7, <1>9, InvShape DEF DbInv, Shape

(* The three removals.                                                     *)
LEMMA ResetStep ==
  ASSUME Bounds, DbInv, RemoveDatabaseFiles
  PROVE  DbInv' /\ Implements
<1>1. UNCHANGED <<snapshots, snap, last>> /\ at \in {"deleting", "unlinked", "cut"}
  BY DEF RemoveDatabaseFiles, Victim
<1>2. CASE at = "deleting"
  <2>1. /\ at' = "unlinked" /\ said' = said
        /\ \/ Remove("db") /\ did' = (IF dir["db"] # None THEN "deleted" ELSE did)
           \/ UNCHANGED fs /\ did' = did
    BY <1>2 DEF RemoveDatabaseFiles, Victim, Goto
  <2> QED
    BY <2>1, <1>1, <1>2, DeleteStep, ResetGoesOn DEF fs
<1>3. CASE at = "unlinked"
  <2>1. /\ at' = "cut" /\ said' = said
        /\ \/ /\ Remove("wal")
              /\ did' = (IF dir["wal"] # None /\ dir["db"] # None THEN "lost" ELSE did)
           \/ UNCHANGED fs /\ did' = did
    BY <1>3 DEF RemoveDatabaseFiles, Victim, Goto
  <2> QED
    BY <2>1, <1>1, <1>3, DeleteLogStep, ResetGoesOn DEF fs
<1>4. CASE at = "cut"
  <2>1. /\ at' = "idle" /\ said' = did /\ did' = "nothing"
        /\ Remove("shm") \/ UNCHANGED fs
    BY <1>4 DEF RemoveDatabaseFiles, Victim, Report, Goto
  <2> QED
    BY <2>1, <1>1, <1>4, DeleteIndexStep, ResetGoesOn DEF fs
<1> QED
  BY <1>1, <1>2, <1>3, <1>4

-----------------------------------------------------------------------------
(* A killed process leaves the log where it was; what is aside is lost.    *)
LEMMA KilledStep ==
  ASSUME Bounds, DbInv, Killed
  PROVE  DbInv' /\ Implements
<1>1. /\ at # "idle" /\ at' = "idle" /\ did' = "nothing"
      /\ dir' = [n \in Names |-> IF n \in Temporary THEN None ELSE dir[n]]
      /\ UNCHANGED <<disk, pending, snapshots, snap, last, said>>
  BY DEF Killed, Goto, Clear
<1>2. Shape /\ AsideFits
  BY InvShape
<1>3. dir'["db"] = dir["db"] /\ dir'["wal"] = dir["wal"] /\ dir'["wal aside"] = None
  BY <1>1 DEF Names, Temporary
<1>4. DOMAIN dir' = Names /\ \A n \in Telling : dir'[n] \in Known
  BY <1>1, <1>2 DEF Shape, Telling, Names, Known
<1>5. Shape' /\ Pairs' = Pairs
  BY <1>1, <1>2, <1>3, <1>4, ShapeKept DEF Shape
<1>6. AsideFits' /\ StageFits'
  BY <1>1, <1>3 DEF AsideFits, StageFits, Putting, Restoring
<1>7. Found(dir)' \in Replaces!UpTo(Found(dir))
  <2>1. Found(dir)' = Read(dir["db"], dir["wal"])
    <3>1. Found(dir)' = Read(dir'["db"], dir'["wal"])
      BY <1>3, OpenerWillRead DEF FoundReads
    <3> QED
      BY <3>1, <1>3
  <2>2. CASE dir["wal"] # None
    <3>1. Found(dir) = Read(dir["db"], dir["wal"])
      BY <2>2, OpenerReads DEF FoundReads
    <3> QED
      BY <2>1, <3>1 DEF Replaces!UpTo
  <2>3. CASE dir["wal"] = None
    BY <2>1, <2>3, <1>2, LogFits, ReadsLess
  <2> QED
    BY <2>2, <2>3
<1>8. Implements
  BY <1>1, <1>5, <1>7, SamePairs DEF Implements, Replaces!Next, Replaces!Die
<1> QED
  BY <1>5, <1>6, <1>8, InvShape DEF DbInv, Shape

(* After a power loss one of the pairs is all there is.                    *)
LEMMA PowerLossStep ==
  ASSUME Bounds, DbInv, PowerLoss
  PROVE  DbInv' /\ Implements
<1>1. /\ at' = "idle" /\ did' = "nothing" /\ dir' \in AfterPowerLoss
      /\ disk' = dir' /\ pending' = <<>> /\ UNCHANGED <<snapshots, snap, last, said>>
  BY DEF PowerLoss, Goto
<1>2. Shape /\ Later /\ Known' = Known
  BY <1>1, InvShape DEF Later, Shape, Known
<1>3. PICK kept \in SUBSET DOMAIN pending : dir' = Clear(Written(kept))
  BY <1>1 DEF AfterPowerLoss
<1>4. PICK x \in Pairs : x = <<Written(kept)["db"], Written(kept)["wal"]>>
  BY DEF Pairs
<1>5. /\ dir'["db"] = x[1] /\ dir'["wal"] = x[2]
      /\ dir'["wal aside"] = None /\ dir'["staged"] = None /\ DOMAIN dir' = Names
  BY <1>3, <1>4 DEF Clear, Names, Temporary
<1>6. \A n \in Telling : dir'[n] \in Known'
  BY <1>2, <1>5 DEF Shape, PairsFit, Telling, Known
<1>7. dir'["db"] # None /\ dir'["wal"] # None => Match(dir'["db"], dir'["wal"])
  BY <1>2, <1>5 DEF Shape, PairsFit
<1>8. Shape' /\ Pairs' = {<<dir'["db"], dir'["wal"]>>}
  BY <1>1, <1>2, <1>5, <1>6, <1>7, ShapeSynced
<1>9. AsideFits' /\ StageFits'
  BY <1>1, <1>5 DEF AsideFits, StageFits, Putting, Restoring
<1>10. Found(dir)' = Read(x[1], x[2])
  <2>1. Found(dir)' = Read(dir'["db"], dir'["wal"])
    BY <1>5, OpenerWillRead DEF FoundReads
  <2> QED
    BY <2>1, <1>5
<1>11. Found(dir)' \in Possible
  BY <1>10, OpenerReads DEF FoundReads
<1>12. Possible' = {Found(dir)'}
  <2>1. Possible' = {Read(u[1], u[2]) : u \in Pairs'}
    BY OpenerWillRead DEF FoundReads
  <2>2. Pairs' = {<<x[1], x[2]>>}
    BY <1>5, <1>8
  <2>3. Possible' = {Read(x[1], x[2])}
    BY <2>1, <2>2
  <2> QED
    BY <2>3, <1>10
<1>13. Implements
  <2>1. (at' # "idle") = FALSE
    BY <1>1
  <2> QED
    BY <2>1, <1>1, <1>11, <1>12 DEF Implements, Replaces!Next, Replaces!PowerLoss, Possible
<1> QED
  BY <1>8, <1>9, <1>13, InvShape DEF DbInv, Shape

(* Every step keeps the invariant and is one of the promise.               *)
LEMMA DbNext ==
  ASSUME Bounds, DbInv, [Next]_dvars
  PROVE  DbInv' /\ Implements
<1>1. CASE UNCHANGED dvars
  <2>1. UNCHANGED <<dir, disk, pending, snapshots, at, snap, did, said, last>>
    BY <1>1 DEF dvars, fs
  <2>2. Shape' /\ Pairs' = Pairs /\ Possible' = Possible /\ Found(dir)' = Found(dir)
    BY <2>1, SameFiles
  <2>3. AsideFits' /\ StageFits'
    BY <2>1, <2>2, InvShape DEF AsideFits, StageFits, Match
  <2>4. Implements
    BY <2>1, <2>2, Stutters
  <2> QED
    BY <2>2, <2>3, <2>4, InvShape DEF DbInv, Shape
<1> QED
  BY <1>1, CommitStep, CheckpointStep, BackupStep, BeginStep, StageStep, FillStep, QuarantineStep,
     BarrierStep, PublishStep, UndoStep, CleanUpStep, ResetStep, KilledStep, PowerLossStep DEF Next

(* Whatever fails, dies or reaches the disk in which order, an opener finds*)
(* the old database, the snapshot, or the old one without its last commits,*)
(* and the command's last word is true: the restore step by step implements*)
(* the promise.                                                            *)
THEOREM RestoreImplementsReplace == Bounds => (DbSpec => ImplementsReplace)
<1> SUFFICES ASSUME Bounds
             PROVE  DbSpec => ImplementsReplace
  OBVIOUS
<1>1. Init => DbInv /\ Replaces!Init
  <2> SUFFICES ASSUME Init
               PROVE  DbInv /\ Replaces!Init
    OBVIOUS
  <2>1. /\ dir = [n \in Names |-> None] /\ disk = dir /\ pending = <<>> /\ snapshots = {}
        /\ at = "idle" /\ snap = 0 /\ did = "nothing" /\ said = "nothing" /\ last = 0
    BY DEF Init
  <2>2. DOMAIN dir = Names /\ \A n \in Names : dir[n] = None
    BY <2>1
  <2>3. Pairs = {<<None, None>>}
    <3>0. pending = <<>>
      BY <2>1
    <3>1. DOMAIN pending = {} /\ "db" \in Names /\ "wal" \in Names
      BY <3>0 DEF Names
    <3>2. \A kept \in SUBSET DOMAIN pending : kept = {}
      BY <3>1
    <3>3. Written({})["db"] = None /\ Written({})["wal"] = None
      BY <3>1, <2>1, <2>2 DEF Written
    <3>4. Pairs = {<<Written({})["db"], Written({})["wal"]>>}
      BY <3>1, <3>2 DEF Pairs
    <3> QED
      BY <3>3, <3>4
  <2>4. PairsFit
    <3>1. \A x \in Pairs : x = <<None, None>> /\ x[1] = None /\ x[2] = None
      BY <2>3
    <3>2. None \in Known /\ dir["db"] = None /\ dir["wal"] = None /\ <<None, None>> \in Pairs
      BY <2>2, <2>3 DEF Known, Names
    <3> QED
      BY <3>1, <3>2 DEF PairsFit
  <2>5. AsideFits /\ StageFits
    BY <2>1, <2>2 DEF AsideFits, StageFits, Names, Putting, Restoring
  <2>6. last \in 0 .. MaxVersion /\ snapshots \subseteq 1 .. last /\ \E S : pending \in Seq(S)
    <3>1. pending \in Seq({})
      BY <2>1
    <3> QED
      BY <3>1, <2>1 DEF Bounds
  <2>7. \A n \in Telling : dir[n] \in Known
    BY <2>2 DEF Telling, Names, Known
  <2>8. DbInv
    BY <2>2, <2>4, <2>5, <2>6, <2>7 DEF DbInv
  <2>9. Found(dir) = None
    BY <2>2, LogFits, <2>8, PairReads DEF Names
  <2>10. Possible = {None}
    <3>1. Possible = {Read(x[1], x[2]) : x \in Pairs}
      BY OpenerReads DEF FoundReads
    <3>2. Read(None, None) = None
      BY PairReads
    <3> QED
      BY <3>1, <3>2, <2>3
  <2>11. Replaces!Init
    BY <2>1, <2>9, <2>10 DEF Replaces!Init, Possible
  <2> QED
    BY <2>8, <2>11
<1>2. DbInv /\ [Next]_dvars => DbInv' /\ [Replaces!Next]_(Replaces!avars)
  BY DbNext DEF Implements
<1> QED
  BY <1>1, <1>2, PTL DEF DbSpec, ImplementsReplace, Replaces!Spec
=============================================================================
