---------------------------- MODULE DownloadsProofs ----------------------------
(***************************************************************************)
(* The download directory and its records: two titles of one name stay     *)
(* apart, a record names a file of its own title, and what a record names  *)
(* is touched only by work on its title.                                   *)
(***************************************************************************)
EXTENDS Downloads, FiniteSetTheorems, TLAPS

(* A title has claimed or recorded a stem.                                 *)
Mine(t, s) == <<s, t>> \in claims \/ Recorded(t, s)

(* The fields of a command and of a move.                                  *)
CmdFields == {"at", "moves", "now", "copy", "paths"}

(* What a file of a title's may hold instead of the title.                 *)
Holds(t) == {t, None, Broken}

-----------------------------------------------------------------------------
(* The inductive invariant.                                                *)

(* Batches and commands exclude each other; without a batch nothing is     *)
(* claimed and no item is on its way; without a command nothing is planned.*)
OneWorks ==
    /\ ~run.on => claims = {} /\ \A t \in Titles : item[t].at = "none"
    /\ run.on => cmd.at = "idle"
    /\ DOMAIN cmd = CmdFields
    /\ cmd.at \in {"idle", "unlink"} => cmd.moves = {} /\ cmd.now = None

(* The ASIN in a stem is that of the title that has it.                    *)
Own(t, s) == s \in Names \X {None, t}

Owned ==
    /\ \A t \in Titles, v \in Variant : rec[t][v] # None => Own(t, rec[t][v])
    /\ \A t \in Titles, s \in Stem : <<s, t>> \in claims => Own(t, s)
    /\ \A t \in Titles : item[t].at = "looked" => item[t].stem \in Names \X {None}

(* An item writes to a stem that its title has claimed or recorded.        *)
Held(t) == Writing(t) => item[t].stem \in Stem /\ Mine(t, item[t].stem)

(* No two titles have one stem.                                            *)
Apart == \A t, u \in Titles, s \in Stem : t # u /\ Mine(t, s) => ~Mine(u, s)

(* Whoever recorded the name that an item found free has claimed it.       *)
LooksAhead(t) ==
    item[t].at = "looked" /\ ~item[t].taken =>
        \A u \in Titles \ {t} : Recorded(u, item[t].stem) => <<item[t].stem, u>> \in claims

(* How an item's files stand at each of its stages.                        *)
ItemFits(t) ==
    LET i == item[t]
        f == disk[i.stem]
        opens == f["aaxc"] = t /\ f["key"] = t
    IN  /\ i.at \in {"downloaded", "keyed"} => f["aaxc"] = t
        /\ i.fresh => i.at = "decrypt" /\ rec[t]["original"] = i.stem
        /\ i.at = "tool" => i.out \in Holds(t) /\ (opens => i.out = t)
        /\ i.at \in {"made", "cleanup"} => f["m4b"] \in Holds(t) /\ (opens => f["m4b"] = t)
        /\ i.at = "cleanup" => rec[t]["decrypted"] = i.stem

(* A move that is planned, or under way, is of a record as it stands; each *)
(* record is moved once.                                                   *)
Movable(m) == rec[m.key[1]][m.key[2]] = m.old /\ m.old # m.new /\ m.new \in Names \X {None}

MovesFit ==
    /\ \A m \in cmd.moves : Movable(m)
    /\ \A m, n \in cmd.moves : m.key = n.key => m = n
    /\ cmd.now # None => Movable(cmd.now) /\ \A m \in cmd.moves : m.key # cmd.now.key

(* Where a file was moved to, no other title is recorded, and what the     *)
(* file holds is the title's.                                              *)
NowFits ==
    cmd.now # None =>
        LET t == cmd.now.key[1]  s == cmd.now.new
        IN  /\ \A u \in Titles \ {t} : ~Recorded(u, s)
            /\ disk[s][KindOf[cmd.now.key[2]]] \in Holds(t)

(* What is about to be deleted is no file of a record that is left.        *)
PathsFit ==
    cmd.at = "unlink" =>
        \A t \in Titles, v \in Variant :
            rec[t][v] # None => <<rec[t][v], KindOf[v]>> \notin cmd.paths

IInv ==
    /\ TypeOK /\ OneWorks /\ Owned /\ MovesFit
    /\ \A t \in Titles : Held(t)
    /\ ~spoiled =>
          /\ Apart
          /\ \A t \in Titles : LooksAhead(t) /\ ItemFits(t)
          /\ NowFits /\ PathsFit
    /\ RecordsAreTrue

-----------------------------------------------------------------------------
(* What the types say of one title.                                        *)

ItemRecord == [at : Phase, stem : Stem \cup {None}, taken : BOOLEAN, fresh : BOOLEAN,
               out : Titles \cup {None, Broken}]
Tree == [Stem -> [Kind -> Titles \cup {None, Broken}]]
Table == [Titles -> [Variant -> Stem \cup {None}]]

(* The types, by name.                                                     *)
LEMMA Types == TypeOK => disk \in Tree /\ rec \in Table /\ item \in [Titles -> ItemRecord]
  BY DEF TypeOK, ItemRecord, Tree, Table

(* An item on its way: its batch runs, and no command does.                *)
LEMMA BatchRuns ==
  ASSUME OneWorks, NEW t \in Titles, item[t].at # "none"
  PROVE  run.on /\ cmd.at = "idle" /\ cmd.moves = {} /\ cmd.now = None
  BY DEF OneWorks

(* No title has two stems' worth: who has claimed or recorded a stem is    *)
(* the only one to whom an item or a record of another can bring nothing.  *)
LEMMA OthersApart ==
  ASSUME Apart, NEW t \in Titles, NEW u \in Titles, t # u,
         NEW s \in Stem, NEW x \in Stem, Mine(t, s), Mine(u, x)
  PROVE  s # x
  BY DEF Apart

(* A step of an item: it touches the files of a stem of its own, and its   *)
(* own records, and leaves its own affairs in order.                       *)
LEMMA ItemWorks ==
  ASSUME IInv, NEW t \in Titles, NEW r \in ItemRecord, NEW s,
         item[t].at # "none", item' = [item EXCEPT ![t] = r],
         UNCHANGED <<name, run, cmd, claims, spoiled>>, trouble' \in 0 .. MaxTrouble,
         disk' \in Tree, rec' \in Table,
         \A x \in Stem \ {s} : disk'[x] = disk[x],
         \A u \in Titles \ {t} : rec'[u] = rec[u],
         \A v \in Variant : rec'[t][v] \in {rec[t][v], None, s},
         UNCHANGED <<disk, rec>> \/ (s \in Stem /\ Mine(t, s)),
         r.at = "looked" => r.stem \in Names \X {None},
         r.at \notin {"none", "waiting", "looked"} => r.stem \in Stem /\ Mine(t, r.stem)',
         ~spoiled => LooksAhead(t)' /\ ItemFits(t)',
         ~spoiled => \A v \in Variant : rec'[t][v] # None =>
                        disk'[rec'[t][v]][KindOf[v]] \in Holds(t)
  PROVE  IInv'
<1>1. TypeOK /\ OneWorks /\ Owned /\ MovesFit /\ \A u \in Titles : Held(u)
  BY DEF IInv
<1>2. /\ run.on /\ cmd.at = "idle" /\ cmd.moves = {} /\ cmd.now = None
      /\ cmd' = cmd
  BY <1>1, BatchRuns
<1>3. disk \in Tree /\ rec \in Table /\ item \in [Titles -> ItemRecord]
  BY <1>1, Types
<1>4. item' \in [Titles -> ItemRecord] /\ item'[t] = r /\ \A u \in Titles \ {t} : item'[u] = item[u]
  BY <1>3
<1>5. TypeOK'
  BY <1>1, <1>4 DEF TypeOK, ItemRecord, Tree, Table
<1>6. OneWorks'
  BY <1>1, <1>2 DEF OneWorks
<1>7. None \notin Stem
  BY NoneAssumption DEF Stem
<1>8. \A u \in Titles \ {t} : \A x : Mine(u, x)' <=> Mine(u, x)
  BY DEF Mine, Recorded
<1>9. \A x \in Stem : Mine(t, x)' => Mine(t, x)
  <2>1. SUFFICES ASSUME NEW x \in Stem, Recorded(t, x)'
                 PROVE  Mine(t, x)
    BY DEF Mine
  <2>2. PICK v \in Variant : rec'[t][v] = x
    BY <2>1 DEF Recorded
  <2>3. CASE rec[t][v] = x
    BY <2>3 DEF Mine, Recorded
  <2>4. CASE rec[t][v] # x
    BY <1>7, <2>2, <2>4
  <2> QED
    BY <2>3, <2>4
<1>10. Owned'
  <2>1. ASSUME NEW u \in Titles, NEW v \in Variant, rec'[u][v] # None
        PROVE  Own(u, rec'[u][v])
    <3>1. CASE u # t
      BY <1>1, <2>1, <3>1 DEF Owned
    <3>2. CASE u = t /\ rec'[t][v] = rec[t][v]
      BY <1>1, <2>1, <3>2 DEF Owned
    <3>3. CASE u = t /\ rec'[t][v] # rec[t][v]
      <4>1. rec'[t][v] = s /\ s \in Stem /\ Mine(t, s)
        BY <2>1, <3>3
      <4> QED
        BY <1>1, <1>7, <3>3, <4>1 DEF Owned, Mine, Recorded
    <3> QED
      BY <3>1, <3>2, <3>3
  <2>2. \A u \in Titles : item'[u].at = "looked" => item'[u].stem \in Names \X {None}
    BY <1>1, <1>4 DEF Owned
  <2> QED
    BY <1>1, <2>1, <2>2 DEF Owned, Own
<1>11. MovesFit'
  BY <1>2 DEF MovesFit
<1>12. ASSUME NEW u \in Titles
       PROVE  Held(u)'
  BY <1>1, <1>4, <1>8 DEF Held, Writing
<1>13. ASSUME ~spoiled
       PROVE  Apart' /\ NowFits' /\ PathsFit'
  <2>1. Apart
    BY <1>13 DEF IInv
  <2>2. Apart'
    BY <2>1, <1>8, <1>9 DEF Apart
  <2> QED
    BY <2>2, <1>2 DEF NowFits, PathsFit
<1>14. ASSUME ~spoiled, NEW u \in Titles \ {t}
       PROVE  LooksAhead(u)'
  <2>1. SUFFICES ASSUME item[u].at = "looked", ~item[u].taken,
                        NEW w \in Titles \ {u}, Recorded(w, item[u].stem)'
                 PROVE  <<item[u].stem, w>> \in claims
    BY <1>4 DEF LooksAhead
  <2>2. LooksAhead(u) /\ item[u].stem \in Stem
    BY <1>1, <1>14, <2>1 DEF IInv, Owned, Stem
  <2>3. Mine(w, item[u].stem)
    BY <1>8, <1>9, <2>1, <2>2 DEF Mine
  <2> QED
    BY <2>1, <2>2, <2>3 DEF LooksAhead, Mine
<1>15. ASSUME ~spoiled, NEW u \in Titles \ {t}, NEW x \in Stem, Mine(u, x)
       PROVE  disk'[x] = disk[x]
  BY <1>15 DEF IInv, Apart
<1>16. ASSUME ~spoiled, NEW u \in Titles \ {t}
       PROVE  ItemFits(u)'
  <2>1. ItemFits(u) /\ Held(u)
    BY <1>1, <1>16 DEF IInv
  <2>2. item'[u] = item[u] /\ rec'[u] = rec[u]
    BY <1>4
  <2>3. CASE ~Writing(u)
    BY <2>1, <2>2, <2>3 DEF Writing, ItemFits
  <2>4. CASE Writing(u)
    <3>1. disk'[item[u].stem] = disk[item[u].stem]
      BY <1>15, <1>16, <2>1, <2>4 DEF Held
    <3> QED
      BY <2>1, <2>2, <3>1 DEF ItemFits, Holds
  <2> QED
    BY <2>3, <2>4
<1>17. RecordsAreTrue'
  <2>1. SUFFICES ASSUME ~spoiled, NEW u \in Titles, NEW v \in Variant, rec'[u][v] # None
                 PROVE  disk'[rec'[u][v]][KindOf[v]] \in {u, None, Broken}
    BY DEF RecordsAreTrue
  <2>2. CASE u = t
    BY <2>1, <2>2 DEF Holds
  <2>3. CASE u # t
    <3>1. rec'[u][v] = rec[u][v] /\ rec[u][v] \in Stem /\ Mine(u, rec[u][v])
      BY <1>3, <2>1, <2>3 DEF Table, Mine, Recorded
    <3>2. disk'[rec[u][v]] = disk[rec[u][v]]
      BY <1>15, <2>1, <2>3, <3>1
    <3> QED
      BY <2>1, <3>1, <3>2 DEF IInv, RecordsAreTrue
  <2> QED
    BY <2>2, <2>3
<1> QED
  BY <1>5, <1>6, <1>10, <1>11, <1>12, <1>13, <1>14, <1>16, <1>17 DEF IInv

-----------------------------------------------------------------------------
(* An item's steps.                                                        *)

(* What an item that is on its way may rely on.                            *)
LEMMA ItemStands ==
  ASSUME IInv, NEW t \in Titles
  PROVE  /\ disk \in Tree /\ rec \in Table /\ item \in [Titles -> ItemRecord]
         /\ item[t] \in ItemRecord
         /\ trouble \in 0 .. MaxTrouble
         /\ Writing(t) => item[t].stem \in Stem /\ Mine(t, item[t].stem)
         /\ ~spoiled => ItemFits(t)
         /\ None \notin Stem
<1>1. TypeOK /\ None \notin Stem
  BY NoneAssumption DEF IInv, Stem
<1> QED
  BY <1>1, Types DEF IInv, Held, TypeOK

(* A mishap is counted up to the bound.                                    *)
LEMMA TroubleTyped ==
  ASSUME TypeOK, Quiet \/ UNCHANGED trouble \/ Trouble
  PROVE  trouble' \in 0 .. MaxTrouble
  BY MaxTroubleAssumption DEF TypeOK, Quiet, Trouble

(* An item that goes on, or ends, without touching files or records.       *)
LEMMA ItemGoesOn ==
  ASSUME IInv, NEW t \in Titles, NEW r \in ItemRecord,
         item[t].at # "none", item' = [item EXCEPT ![t] = r],
         UNCHANGED <<name, disk, rec, run, cmd, claims, spoiled>>,
         Quiet \/ UNCHANGED trouble \/ Trouble,
         \/ r.at = "none"
         \/ r.at \in {"transfer", "decrypt", "made"} /\ Writing(t) /\ r.stem = item[t].stem,
         ~spoiled => ItemFits(t)'
  PROVE  IInv'
<1>1. /\ disk' \in Tree /\ rec' \in Table /\ item'[t] = r
      /\ Writing(t) => item[t].stem \in Stem /\ Mine(t, item[t].stem)
  BY ItemStands
<1>2. trouble' \in 0 .. MaxTrouble
  BY TroubleTyped DEF IInv
<1>3. ~spoiled => \A v \in Variant : rec'[t][v] # None =>
                     disk'[rec'[t][v]][KindOf[v]] \in Holds(t)
  BY DEF IInv, RecordsAreTrue, Holds
<1>4. LooksAhead(t)'
  BY <1>1 DEF LooksAhead
<1>5. r.at \notin {"none", "waiting", "looked"} => r.stem \in Stem /\ Mine(t, r.stem)'
  BY <1>1 DEF Mine, Recorded
<1> QED
  BY <1>1, <1>2, <1>3, <1>4, <1>5, ItemWorks

(* An item that ends, whether it is done or fails.                         *)
LEMMA DoneStep ==
  ASSUME IInv, NEW t \in Titles, item[t].at # "none", Done(t),
         UNCHANGED <<name, disk, rec, run, cmd, claims, spoiled>>,
         Quiet \/ UNCHANGED trouble \/ Trouble
  PROVE  IInv'
<1>1. NoItem \in ItemRecord /\ NoItem.at = "none" /\ ~NoItem.fresh
  BY DEF NoItem, ItemRecord, Phase
<1>2. item' = [item EXCEPT ![t] = NoItem] /\ item'[t] = NoItem
  BY ItemStands DEF Done
<1>3. ItemFits(t)'
  BY <1>1, <1>2 DEF ItemFits
<1> QED
  BY <1>1, <1>2, <1>3, ItemGoesOn

(* What the records say of a name is looked up, and nothing else changes.  *)
LEMMA BaseFilenameStep ==
  ASSUME IInv, NEW t \in Titles, BaseFilename(t)
  PROVE  IInv'
<1> PICK s : s = <<name[t], None>>
  OBVIOUS
<1> PICK taken \in BOOLEAN : taken = (\E u \in Titles \ {t} : Recorded(u, s))
  OBVIOUS
<1> PICK r : r = [item[t] EXCEPT !.at = "looked", !.stem = s, !.taken = taken]
  OBVIOUS
<1>1. item[t].at = "waiting" /\ UNCHANGED <<name, disk, rec, run, claims, cmd, trouble, spoiled>>
  BY DEF BaseFilename, Quiet
<1>2. s \in Names \X {None} /\ s \in Stem
  BY DEF IInv, TypeOK, Stem
<1>3. /\ r \in ItemRecord /\ r.at = "looked" /\ r.stem = s /\ r.taken = taken
      /\ r.fresh = item[t].fresh
  BY <1>2, ItemStands DEF ItemRecord, Phase
<1>4. item' = [item EXCEPT ![t] = r] /\ item'[t] = r
  BY ItemStands DEF BaseFilename, ItemRecord
<1>5. ASSUME ~spoiled
      PROVE  LooksAhead(t)' /\ ItemFits(t)'
  <2>1. ~r.fresh
    BY <1>1, <1>3, <1>5, ItemStands DEF ItemFits
  <2>2. ItemFits(t)'
    BY <1>3, <1>4, <2>1 DEF ItemFits
  <2>3. taken \/ \A u \in Titles \ {t} : ~Recorded(u, s)'
    BY <1>1 DEF Recorded
  <2> QED
    BY <1>3, <1>4, <2>2, <2>3 DEF LooksAhead
<1>6. disk' \in Tree /\ rec' \in Table /\ trouble' \in 0 .. MaxTrouble
  BY <1>1, ItemStands
<1>7. ~spoiled => \A v \in Variant : rec'[t][v] # None =>
                     disk'[rec'[t][v]][KindOf[v]] \in Holds(t)
  BY <1>1 DEF IInv, RecordsAreTrue, Holds
<1> QED
  BY <1>1, <1>2, <1>3, <1>4, <1>5, <1>6, <1>7, ItemWorks

(* The name is free, or the one with the ASIN is taken: either way nobody  *)
(* else has it.                                                            *)
LEMMA ClaimStep ==
  ASSUME IInv, NEW t \in Titles, Claim(t)
  PROVE  IInv'
<1> PICK s : s = item[t].stem
  OBVIOUS
<1> PICK free \in BOOLEAN : free = (~item[t].taken /\ \A u \in Titles \ {t} : <<s, u>> \notin claims)
  OBVIOUS
<1> PICK mine : mine = IF free THEN s ELSE <<s[1], t>>
  OBVIOUS
<1> PICK r : r = [item[t] EXCEPT !.at = "named", !.stem = mine, !.taken = FALSE]
  OBVIOUS
<1>1. /\ item[t].at = "looked" /\ claims' = claims \cup {<<mine, t>>}
      /\ UNCHANGED <<name, disk, rec, run, cmd, trouble, spoiled>>
  BY DEF Claim, Quiet
<1>2. s \in Names \X {None} /\ mine \in Stem /\ Own(t, mine) /\ (~free => mine \in Names \X {t})
  BY <1>1 DEF IInv, Owned, Stem, Own
<1>3. r \in ItemRecord /\ r.at = "named" /\ r.stem = mine /\ r.fresh = item[t].fresh
  BY <1>2, ItemStands DEF ItemRecord, Phase
<1>4. item' = [item EXCEPT ![t] = r]
  BY ItemStands DEF Claim, ItemRecord
<1>5. item' \in [Titles -> ItemRecord] /\ item'[t] = r /\ \A u \in Titles \ {t} : item'[u] = item[u]
  BY <1>3, <1>4, ItemStands
<1>6. TypeOK'
  <2>1. claims' \in SUBSET (Stem \X Titles)
    <3>1. claims \in SUBSET (Stem \X Titles) /\ <<mine, t>> \in Stem \X Titles
      BY <1>2 DEF IInv, TypeOK
    <3> QED
      BY <1>1, <3>1
  <2> QED
    BY <1>1, <1>5, <2>1 DEF IInv, TypeOK, ItemRecord
<1>7. OneWorks'
  BY <1>1, <1>5, BatchRuns DEF IInv, OneWorks
<1>8. Owned'
  <2>1. \A u \in Titles, x \in Stem : <<x, u>> \in claims' => Own(u, x)
    BY <1>1, <1>2 DEF IInv, Owned
  <2>2. \A u \in Titles : item'[u].at = "looked" => item'[u].stem \in Names \X {None}
    BY <1>3, <1>5 DEF IInv, Owned
  <2>3. \A u \in Titles, v \in Variant : rec'[u][v] # None => Own(u, rec'[u][v])
    BY <1>1 DEF IInv, Owned
  <2> QED
    BY <2>1, <2>2, <2>3 DEF Owned, Own
<1>9. MovesFit' /\ (RecordsAreTrue /\ ~spoiled => RecordsAreTrue')
  BY <1>1 DEF IInv, MovesFit, Movable, RecordsAreTrue
<1>10. \A u \in Titles, x \in Stem : Mine(u, x)' <=> Mine(u, x) \/ (u = t /\ x = mine)
  BY <1>1 DEF Mine, Recorded
<1>11. ASSUME NEW u \in Titles
       PROVE  Held(u)'
  <2>1. CASE u = t
    BY <1>1, <1>2, <1>3, <1>5, <2>1 DEF Held, Mine
  <2>2. CASE u # t
    BY <1>5, <1>10, <2>2 DEF IInv, Held, Writing
  <2> QED
    BY <2>1, <2>2
<1>12. ASSUME ~spoiled, NEW u \in Titles \ {t}
       PROVE  ~Mine(u, mine)
  <2>1. LooksAhead(t) /\ None \notin Titles
    BY <1>12, NoneAssumption DEF IInv
  <2>2. CASE free
    BY <1>1, <2>1, <2>2 DEF Mine, LooksAhead
  <2>3. CASE ~free
    <3>1. ~Own(u, mine)
      BY <1>2, <2>1, <2>3 DEF Own
    <3> QED
      BY <1>2, <3>1, ItemStands DEF IInv, Owned, Mine, Recorded
  <2> QED
    BY <2>2, <2>3
<1>13. ASSUME ~spoiled
       PROVE  Apart' /\ NowFits' /\ PathsFit'
  <2>1. Apart'
    BY <1>10, <1>12, <1>13 DEF IInv, Apart
  <2>2. cmd'.now = None /\ cmd'.at = "idle"
    BY <1>1, BatchRuns DEF IInv
  <2> QED
    BY <2>1, <2>2 DEF NowFits, PathsFit
<1>14. ASSUME ~spoiled, NEW u \in Titles
       PROVE  LooksAhead(u)' /\ ItemFits(u)'
  <2>1. LooksAhead(u) /\ ItemFits(u)
    BY <1>14 DEF IInv
  <2>2. CASE u = t
    <3>1. ~r.fresh
      BY <1>1, <1>3, <2>1, <2>2 DEF ItemFits
    <3> QED
      BY <1>3, <1>5, <2>2, <3>1 DEF LooksAhead, ItemFits
  <2>3. CASE u # t
    <3>1. LooksAhead(u)'
      BY <1>1, <1>5, <2>1, <2>3 DEF LooksAhead, Recorded
    <3>2. ItemFits(u)'
      BY <1>1, <1>5, <2>1, <2>3 DEF ItemFits, Holds
    <3> QED
      BY <3>1, <3>2
  <2> QED
    BY <2>2, <2>3
<1>15. RecordsAreTrue'
  BY <1>1, <1>9 DEF IInv, RecordsAreTrue
<1> QED
  BY <1>1, <1>6, <1>7, <1>8, <1>9, <1>11, <1>13, <1>14, <1>15 DEF IInv

(* A title that is recorded is skipped, or decrypted from what there is.   *)
LEMMA SkipStep ==
  ASSUME IInv, NEW t \in Titles, SkipAlreadyDownloaded(t)
  PROVE  IInv'
<1>1. /\ item[t].at = "named" /\ UNCHANGED <<name, disk, rec, run, claims, cmd, trouble, spoiled>>
      /\ Done(t) \/ Goto(t, "transfer") \/ Goto(t, "decrypt")
  BY DEF SkipAlreadyDownloaded, Quiet
<1>2. CASE Done(t)
  BY <1>1, <1>2, DoneStep
<1>3. ASSUME NEW at \in {"transfer", "decrypt"}, Goto(t, at)
      PROVE  IInv'
  <2> PICK r : r = [item[t] EXCEPT !.at = at]
    OBVIOUS
  <2>1. r \in ItemRecord /\ r.at = at /\ r.stem = item[t].stem /\ r.fresh = item[t].fresh
    BY ItemStands DEF ItemRecord, Phase
  <2>2. item' = [item EXCEPT ![t] = r] /\ item'[t] = r
    BY <1>3, ItemStands DEF Goto, ItemRecord
  <2>3. ~spoiled => ~item[t].fresh
    BY <1>1, ItemStands DEF ItemFits
  <2>4. ~spoiled => ItemFits(t)'
    BY <2>1, <2>2, <2>3 DEF ItemFits
  <2>5. Writing(t)
    BY <1>1 DEF Writing
  <2> QED
    BY <1>1, <2>1, <2>2, <2>4, <2>5, ItemGoesOn
<1> QED
  BY <1>1, <1>2, <1>3

(* An item that writes or removes the files at a stem of its title's.      *)
LEMMA FilesStep ==
  ASSUME IInv, NEW t \in Titles, NEW r \in ItemRecord, NEW s \in Stem,
         NEW f \in [Kind -> Titles \cup {None, Broken}],
         item[t].at # "none", item' = [item EXCEPT ![t] = r], Mine(t, s),
         disk' = [disk EXCEPT ![s] = f],
         UNCHANGED <<name, rec, run, cmd, claims, spoiled>>,
         Quiet \/ UNCHANGED trouble \/ Trouble,
         r.at \notin {"waiting", "looked"}, r.at # "none" => r.stem = s,
         ~spoiled => ItemFits(t)',
         \A v \in Variant : f[KindOf[v]] \in Holds(t) \cup {disk[s][KindOf[v]]}
  PROVE  IInv'
<1>1. /\ disk \in Tree /\ rec \in Table /\ item' \in [Titles -> ItemRecord]
      /\ item'[t] = r
  BY ItemStands
<1>2. disk' \in Tree /\ disk'[s] = f /\ \A x \in Stem \ {s} : disk'[x] = disk[x]
  BY <1>1 DEF Tree
<1>3. trouble' \in 0 .. MaxTrouble
  BY TroubleTyped DEF IInv
<1>4. ASSUME ~spoiled, NEW v \in Variant, rec'[t][v] # None
      PROVE  disk'[rec'[t][v]][KindOf[v]] \in Holds(t)
  <2>1. rec[t][v] \in Stem /\ disk[rec[t][v]][KindOf[v]] \in Holds(t)
    BY <1>1, <1>4 DEF IInv, RecordsAreTrue, Holds, Table
  <2> QED
    BY <1>2, <2>1
<1>5. r.at \notin {"none", "waiting", "looked"} => r.stem \in Stem /\ Mine(t, r.stem)'
  BY DEF Mine, Recorded
<1>6. LooksAhead(t)'
  BY <1>1 DEF LooksAhead
<1> QED
  BY <1>1, <1>2, <1>3, <1>4, <1>5, <1>6, ItemWorks

(* An item that records a file, or drops a record.                         *)
LEMMA RecordStep ==
  ASSUME IInv, NEW t \in Titles, NEW r \in ItemRecord, NEW w \in Variant, NEW p,
         Writing(t), item' = [item EXCEPT ![t] = r],
         rec' = [rec EXCEPT ![t][w] = p], p \in {None, item[t].stem},
         UNCHANGED <<name, disk, run, cmd, claims, spoiled>>,
         Quiet \/ UNCHANGED trouble \/ Trouble,
         \/ r.at = "none"
         \/ /\ p = item[t].stem /\ r.stem = item[t].stem
            /\ r.at \notin {"waiting", "looked"},
         ~spoiled => ItemFits(t)',
         ~spoiled /\ p # None => disk[p][KindOf[w]] \in Holds(t)
  PROVE  IInv'
<1> PICK s : s = item[t].stem
  OBVIOUS
<1>1. /\ disk \in Tree /\ rec \in Table /\ item' \in [Titles -> ItemRecord]
      /\ item'[t] = r /\ s \in Stem /\ Mine(t, s) /\ item[t].at # "none"
  BY ItemStands DEF Writing
<1>2. /\ rec' \in Table /\ rec'[t][w] = p
      /\ \A v \in Variant \ {w} : rec'[t][v] = rec[t][v]
      /\ \A u \in Titles \ {t} : rec'[u] = rec[u]
  BY <1>1 DEF Table
<1>3. trouble' \in 0 .. MaxTrouble
  BY TroubleTyped DEF IInv
<1>4. ASSUME ~spoiled, NEW v \in Variant, rec'[t][v] # None
      PROVE  disk'[rec'[t][v]][KindOf[v]] \in Holds(t)
  BY <1>2, <1>4 DEF IInv, RecordsAreTrue, Holds
<1>5. r.at \notin {"none", "waiting", "looked"} => r.stem \in Stem /\ Mine(t, r.stem)'
  BY <1>1, <1>2 DEF Mine, Recorded
<1>6. LooksAhead(t)'
  BY <1>1 DEF LooksAhead
<1>7. \A v \in Variant : rec'[t][v] \in {rec[t][v], None, s}
  BY <1>2
<1> QED
  BY <1>1, <1>2, <1>3, <1>4, <1>5, <1>6, <1>7, ItemWorks

(* The transfer writes to a stem that is the title's.                      *)
LEMMA TransferStep ==
  ASSUME IInv, NEW t \in Titles, Transfer(t)
  PROVE  IInv'
<1> PICK s : s = item[t].stem
  OBVIOUS
<1> PICK f : f = [disk[s] EXCEPT !["aaxc"] = t]
  OBVIOUS
<1> PICK r : r = [item[t] EXCEPT !.at = "downloaded"]
  OBVIOUS
<1>1. /\ item[t].at = "transfer" /\ UNCHANGED <<name, rec, run, claims, cmd>> /\ Quiet
      /\ UNCHANGED spoiled /\ Writing(t)
  BY DEF Transfer, Quiet, Writing
<1>2. /\ disk \in Tree /\ item \in [Titles -> ItemRecord] /\ s \in Stem /\ Mine(t, s)
      /\ ~spoiled => ItemFits(t)
  BY <1>1, ItemStands
<1>3. /\ f \in [Kind -> Titles \cup {None, Broken}] /\ f["aaxc"] = t
      /\ f["m4b"] = disk[s]["m4b"] /\ disk' = [disk EXCEPT ![s] = f] /\ disk'[s] = f
  BY <1>2 DEF Transfer, Tree, Kind
<1>4. /\ r \in ItemRecord /\ r.at = "downloaded" /\ r.stem = s /\ r.fresh = item[t].fresh
      /\ item' = [item EXCEPT ![t] = r] /\ item'[t] = r
  BY <1>2 DEF Transfer, Goto, ItemRecord, Phase
<1>5. ~spoiled => ItemFits(t)'
  BY <1>1, <1>2, <1>3, <1>4 DEF ItemFits
<1>6. \A v \in Variant : f[KindOf[v]] \in Holds(t) \cup {disk[s][KindOf[v]]}
  BY <1>3 DEF Variant, KindOf, Holds
<1> QED
  BY <1>1, <1>2, <1>3, <1>4, <1>5, <1>6, FilesStep

(* So does the sidecar, if it can be written.                              *)
LEMMA WriteKeyfileStep ==
  ASSUME IInv, NEW t \in Titles, WriteKeyfile(t)
  PROVE  IInv'
<1> PICK s : s = item[t].stem
  OBVIOUS
<1> PICK r : r = [item[t] EXCEPT !.at = "keyed"]
  OBVIOUS
<1>1. /\ item[t].at = "downloaded" /\ UNCHANGED <<name, rec, run, claims, cmd, spoiled>>
      /\ (UNCHANGED trouble \/ Trouble) /\ Writing(t)
  BY DEF WriteKeyfile, Writing
<1>2. /\ disk \in Tree /\ item \in [Titles -> ItemRecord] /\ s \in Stem /\ Mine(t, s)
      /\ ~spoiled => ItemFits(t)
  BY <1>1, ItemStands
<1> PICK key : key = IF disk' = disk THEN disk[s]["key"] ELSE t
  OBVIOUS
<1> PICK f : f = [disk[s] EXCEPT !["key"] = key]
  OBVIOUS
<1>3. /\ f \in [Kind -> Titles \cup {None, Broken}] /\ f["aaxc"] = disk[s]["aaxc"]
      /\ f["m4b"] = disk[s]["m4b"] /\ disk' = [disk EXCEPT ![s] = f] /\ disk'[s] = f
  <2>1. disk' = [disk EXCEPT ![s]["key"] = key]
    <3>1. CASE disk' = disk
      BY <1>2, <3>1 DEF Tree, Kind
    <3>2. CASE disk' # disk
      BY <3>2 DEF WriteKeyfile
    <3> QED
      BY <3>1, <3>2
  <2>2. key \in Titles \cup {None, Broken}
    BY <1>2 DEF Tree, Kind
  <2> QED
    BY <1>2, <2>1, <2>2 DEF Tree, Kind
<1>4. /\ r \in ItemRecord /\ r.at = "keyed" /\ r.stem = s /\ r.fresh = item[t].fresh
      /\ item' = [item EXCEPT ![t] = r] /\ item'[t] = r
  BY <1>2 DEF WriteKeyfile, Goto, ItemRecord, Phase
<1>5. ~spoiled => ItemFits(t)'
  BY <1>1, <1>2, <1>3, <1>4 DEF ItemFits
<1>6. \A v \in Variant : f[KindOf[v]] \in Holds(t) \cup {disk[s][KindOf[v]]}
  BY <1>3 DEF Variant, KindOf, Holds
<1> QED
  BY <1>1, <1>2, <1>3, <1>4, <1>5, <1>6, FilesStep

(* The record names the file that this run has transferred.                *)
LEMMA RecordDownloadStep ==
  ASSUME IInv, NEW t \in Titles, RecordDownload(t)
  PROVE  IInv'
<1> PICK s : s = item[t].stem
  OBVIOUS
<1> PICK on : on = [item[t] EXCEPT !.at = "decrypt", !.fresh = TRUE]
  OBVIOUS
<1> PICK r : r = IF run.decrypt THEN on ELSE NoItem
  OBVIOUS
<1>1. /\ item[t].at = "keyed" /\ UNCHANGED <<name, disk, run, claims, cmd>> /\ Quiet
      /\ UNCHANGED spoiled /\ Writing(t)
  BY DEF RecordDownload, Quiet, Writing
<1>2. /\ rec \in Table /\ item \in [Titles -> ItemRecord] /\ s \in Stem /\ Mine(t, s)
      /\ ~spoiled => ItemFits(t)
  BY <1>1, ItemStands
<1>3. /\ r \in ItemRecord /\ item' = [item EXCEPT ![t] = r] /\ item'[t] = r
      /\ \/ r.at = "none" /\ ~r.fresh
         \/ r.at = "decrypt" /\ r.stem = s
  <2>1. CASE run.decrypt
    <3>1. item' = [item EXCEPT ![t].at = "decrypt", ![t].fresh = TRUE]
      BY <2>1 DEF RecordDownload
    <3> QED
      BY <1>2, <2>1, <3>1 DEF ItemRecord, Phase
  <2>2. CASE ~run.decrypt
    <3>1. r = NoItem /\ item' = [item EXCEPT ![t] = NoItem]
      BY <2>2 DEF RecordDownload, Done
    <3>2. NoItem \in ItemRecord /\ NoItem.at = "none" /\ ~NoItem.fresh
      BY DEF NoItem, ItemRecord, Phase
    <3> QED
      BY <1>2, <3>1, <3>2
  <2> QED
    BY <2>1, <2>2
<1>4. rec' = [rec EXCEPT ![t]["original"] = s] /\ rec'[t]["original"] = s
  BY <1>2 DEF RecordDownload, Table, Variant
<1>5. ~spoiled => ItemFits(t)'
  BY <1>1, <1>3, <1>4 DEF ItemFits
<1>6. ~spoiled => disk[s]["aaxc"] = t
  BY <1>1, <1>2 DEF ItemFits
<1>7. "original" \in Variant /\ KindOf["original"] = "aaxc"
  BY DEF Variant, KindOf
<1> QED
  BY <1>1, <1>3, <1>4, <1>5, <1>6, <1>7, RecordStep DEF Holds

(* The tool is given the title's own file; what it makes of it, with the   *)
(* title's own key, is the title's.                                        *)
LEMMA DecryptItemStep ==
  ASSUME IInv, NEW t \in Titles, DecryptItem(t)
  PROVE  IInv'
<1> PICK s : s = Source(t)
  OBVIOUS
<1>1. /\ item[t].at = "decrypt" /\ UNCHANGED <<name, rec, run, claims, cmd>> /\ Quiet
      /\ UNCHANGED spoiled /\ Writing(t)
  BY DEF DecryptItem, Quiet, Writing
<1>2. /\ disk \in Tree /\ rec \in Table /\ item \in [Titles -> ItemRecord]
      /\ item[t].stem \in Stem /\ Mine(t, item[t].stem)
      /\ ~spoiled => ItemFits(t)
      /\ None \notin Stem
  BY <1>1, ItemStands
<1>3. CASE Done(t) /\ UNCHANGED disk
  BY <1>1, <1>3, DoneStep
<1>4. CASE s # None /\ ~(Done(t) /\ UNCHANGED disk)
  <2> PICK out : out = IF disk[s]["key"] = disk[s]["aaxc"] THEN disk[s]["aaxc"] ELSE Broken
    OBVIOUS
  <2> PICK f : f = [disk[s] EXCEPT !["m4b"] = Broken]
    OBVIOUS
  <2> PICK r : r = [item[t] EXCEPT !.at = "tool", !.stem = s, !.fresh = FALSE, !.out = out]
    OBVIOUS
  <2>1. s \in Stem /\ Mine(t, s) /\ (~spoiled => Recorded(t, s) /\ rec[t]["original"] = s)
    <3>1. CASE item[t].fresh
      <4>1. s = item[t].stem
        BY <1>4, <3>1 DEF Source
      <4>2. ~spoiled => rec[t]["original"] = s
        BY <1>2, <3>1, <4>1 DEF ItemFits
      <4> QED
        BY <1>2, <4>1, <4>2 DEF Recorded, Variant
    <3>2. CASE ~item[t].fresh
      <4>1. s = rec[t]["original"]
        BY <1>4, <3>2 DEF Source
      <4> QED
        BY <1>2, <1>4, <4>1 DEF Mine, Recorded, Variant, Table
    <3> QED
      BY <3>1, <3>2
  <2>2. /\ disk' = [disk EXCEPT ![s]["m4b"] = Broken]
        /\ item' = [item EXCEPT ![t].at = "tool", ![t].stem = s, ![t].fresh = FALSE,
                                ![t].out = out]
    BY <1>4 DEF DecryptItem
  <2>3. /\ f \in [Kind -> Titles \cup {None, Broken}] /\ f["aaxc"] = disk[s]["aaxc"]
        /\ f["key"] = disk[s]["key"]
        /\ f["m4b"] = Broken /\ disk' = [disk EXCEPT ![s] = f] /\ disk'[s] = f
    BY <1>2, <2>1, <2>2 DEF Tree, Kind
  <2>4. out \in Titles \cup {None, Broken}
    BY <1>2, <2>1 DEF Tree, Kind
  <2>5. /\ r \in ItemRecord /\ r.at = "tool" /\ r.stem = s /\ ~r.fresh /\ r.out = out
        /\ item' = [item EXCEPT ![t] = r] /\ item'[t] = r
    BY <1>2, <2>1, <2>2, <2>4 DEF ItemRecord, Phase
  <2>6. ASSUME ~spoiled
        PROVE  ItemFits(t)'
    <3>1. disk[s]["aaxc"] \in Holds(t)
      BY <1>2, <2>1, <2>6 DEF IInv, RecordsAreTrue, Holds, Variant, KindOf
    <3>2. out \in Holds(t) /\ (f["aaxc"] = t /\ f["key"] = t => out = t)
      BY <2>3, <3>1 DEF Holds
    <3> QED
      <4>1. disk'[item'[t].stem] = f /\ item'[t].at = "tool" /\ item'[t].out = out /\ ~item'[t].fresh
        BY <2>3, <2>5
      <4> QED
        BY <3>2, <4>1 DEF ItemFits, Holds
  <2>7. \A v \in Variant : f[KindOf[v]] \in Holds(t) \cup {disk[s][KindOf[v]]}
    BY <2>3 DEF Variant, KindOf, Holds
  <2> QED
    BY <1>1, <2>1, <2>3, <2>5, <2>6, <2>7, FilesStep
<1>5. s = None => Done(t) /\ UNCHANGED disk
  BY DEF DecryptItem
<1> QED
  BY <1>3, <1>4, <1>5

(* What the tool has made is what it was begun with.                       *)
LEMMA ToolSucceedsStep ==
  ASSUME IInv, NEW t \in Titles, ToolSucceeds(t)
  PROVE  IInv'
<1> PICK s : s = item[t].stem
  OBVIOUS
<1> PICK out : out = item[t].out
  OBVIOUS
<1> PICK f : f = [disk[s] EXCEPT !["m4b"] = out]
  OBVIOUS
<1> PICK r : r = [item[t] EXCEPT !.at = "made", !.out = None]
  OBVIOUS
<1>1. /\ item[t].at = "tool" /\ UNCHANGED <<name, rec, run, claims, cmd>> /\ Quiet
      /\ UNCHANGED spoiled /\ Writing(t)
  BY DEF ToolSucceeds, Quiet, Writing
<1>2. /\ disk \in Tree /\ item \in [Titles -> ItemRecord] /\ s \in Stem /\ Mine(t, s)
      /\ ~spoiled => ItemFits(t)
      /\ out \in Titles \cup {None, Broken}
  BY <1>1, ItemStands DEF ItemRecord
<1>3. /\ f \in [Kind -> Titles \cup {None, Broken}] /\ f["aaxc"] = disk[s]["aaxc"]
      /\ f["key"] = disk[s]["key"] /\ f["m4b"] = out
      /\ disk' = [disk EXCEPT ![s] = f] /\ disk'[s] = f
  BY <1>2 DEF ToolSucceeds, Tree, Kind
<1>4. /\ r \in ItemRecord /\ r.at = "made" /\ r.stem = s /\ r.fresh = item[t].fresh
      /\ item' = [item EXCEPT ![t] = r] /\ item'[t] = r
  BY <1>2 DEF ToolSucceeds, ItemRecord, Phase
<1>5. ~spoiled => ItemFits(t)'
  BY <1>1, <1>2, <1>3, <1>4 DEF ItemFits, Holds
<1>6. CASE ~spoiled
  <2>1. out \in Holds(t)
    BY <1>1, <1>2, <1>6 DEF ItemFits
  <2>2. \A v \in Variant : f[KindOf[v]] \in Holds(t) \cup {disk[s][KindOf[v]]}
    BY <1>3, <2>1 DEF Variant, KindOf
  <2> QED
    BY <1>1, <1>2, <1>3, <1>4, <1>5, <2>2, FilesStep
<1>7. CASE spoiled
  <2>1. disk' \in Tree /\ rec' \in Table /\ trouble' \in 0 .. MaxTrouble
    BY <1>1, <1>2, <1>3, ItemStands, TroubleTyped DEF IInv, Tree
  <2>2. \A x \in Stem \ {s} : disk'[x] = disk[x]
    BY <1>2, <1>3 DEF Tree
  <2>3. Mine(t, r.stem)'
    BY <1>1, <1>2, <1>4 DEF Mine, Recorded
  <2> QED
    BY <1>1, <1>2, <1>4, <1>7, <2>1, <2>2, <2>3, ItemWorks
<1> QED
  BY <1>6, <1>7 DEF IInv, TypeOK

(* A tool that fails leaves no output.                                     *)
LEMMA ToolFailsStep ==
  ASSUME IInv, NEW t \in Titles, ToolFails(t)
  PROVE  IInv'
<1> PICK s : s = item[t].stem
  OBVIOUS
<1> PICK f : f = [disk[s] EXCEPT !["m4b"] = None]
  OBVIOUS
<1>1. /\ item[t].at = "tool" /\ UNCHANGED <<name, rec, run, claims, cmd, spoiled>> /\ Trouble
      /\ Writing(t)
  BY DEF ToolFails, Writing
<1>2. /\ disk \in Tree /\ item \in [Titles -> ItemRecord] /\ s \in Stem /\ Mine(t, s)
  BY <1>1, ItemStands
<1>3. /\ f \in [Kind -> Titles \cup {None, Broken}] /\ f["aaxc"] = disk[s]["aaxc"]
      /\ f["m4b"] = None /\ disk' = [disk EXCEPT ![s] = f]
  BY <1>2 DEF ToolFails, Tree, Kind
<1>4. /\ NoItem \in ItemRecord /\ NoItem.at = "none" /\ ~NoItem.fresh
      /\ item' = [item EXCEPT ![t] = NoItem] /\ item'[t] = NoItem
  BY <1>2 DEF ToolFails, Done, NoItem, ItemRecord, Phase
<1>5. ItemFits(t)'
  BY <1>4 DEF ItemFits
<1>6. \A v \in Variant : f[KindOf[v]] \in Holds(t) \cup {disk[s][KindOf[v]]}
  BY <1>3 DEF Variant, KindOf, Holds
<1> QED
  BY <1>1, <1>2, <1>3, <1>4, <1>5, <1>6, FilesStep

(* The record names the file that the tool has made.                       *)
LEMMA RecordDecryptedStep ==
  ASSUME IInv, NEW t \in Titles, RecordDecrypted(t)
  PROVE  IInv'
<1> PICK s : s = item[t].stem
  OBVIOUS
<1> PICK on : on = [item[t] EXCEPT !.at = "cleanup"]
  OBVIOUS
<1> PICK r : r = IF run.keep THEN NoItem ELSE on
  OBVIOUS
<1>1. /\ item[t].at = "made" /\ UNCHANGED <<name, disk, run, claims, cmd>> /\ Quiet
      /\ UNCHANGED spoiled /\ Writing(t)
  BY DEF RecordDecrypted, Quiet, Writing
<1>2. /\ rec \in Table /\ item \in [Titles -> ItemRecord] /\ s \in Stem /\ Mine(t, s)
      /\ ~spoiled => ItemFits(t)
  BY <1>1, ItemStands
<1>3. /\ r \in ItemRecord /\ item' = [item EXCEPT ![t] = r] /\ item'[t] = r
      /\ \/ r.at = "none" /\ ~r.fresh
         \/ r.at = "cleanup" /\ r.stem = s /\ r.fresh = item[t].fresh
  <2>1. CASE ~run.keep
    <3>1. item' = [item EXCEPT ![t].at = "cleanup"]
      BY <2>1 DEF RecordDecrypted, Goto
    <3> QED
      BY <1>2, <2>1, <3>1 DEF ItemRecord, Phase
  <2>2. CASE run.keep
    <3>1. r = NoItem /\ item' = [item EXCEPT ![t] = NoItem]
      BY <2>2 DEF RecordDecrypted, Done
    <3>2. NoItem \in ItemRecord /\ NoItem.at = "none" /\ ~NoItem.fresh
      BY DEF NoItem, ItemRecord, Phase
    <3> QED
      BY <1>2, <3>1, <3>2
  <2> QED
    BY <2>1, <2>2
<1>4. rec' = [rec EXCEPT ![t]["decrypted"] = s] /\ rec'[t]["decrypted"] = s
  BY <1>2 DEF RecordDecrypted, Table, Variant
<1>5. ~spoiled => disk[s]["m4b"] \in Holds(t) /\ ~item[t].fresh
  BY <1>1, <1>2 DEF ItemFits
<1>6. ~spoiled => ItemFits(t)'
  BY <1>1, <1>2, <1>3, <1>4, <1>5 DEF ItemFits, Holds
<1>7. "decrypted" \in Variant /\ KindOf["decrypted"] = "m4b"
  BY DEF Variant, KindOf
<1> QED
  BY <1>1, <1>3, <1>4, <1>5, <1>6, <1>7, RecordStep

(* The source goes when its decrypted file is recorded.                    *)
LEMMA RemoveSourceStep ==
  ASSUME IInv, NEW t \in Titles, RemoveSource(t)
  PROVE  IInv'
<1> PICK s : s = item[t].stem
  OBVIOUS
<1> PICK r : r = [item[t] EXCEPT !.at = "drop"]
  OBVIOUS
<1>1. /\ item[t].at = "cleanup" /\ UNCHANGED <<name, rec, run, claims, cmd, spoiled>>
      /\ (UNCHANGED trouble \/ Trouble) /\ Writing(t)
  BY DEF RemoveSource, Writing
<1>2. /\ disk \in Tree /\ item \in [Titles -> ItemRecord] /\ s \in Stem /\ Mine(t, s)
      /\ ~spoiled => ItemFits(t)
  BY <1>1, ItemStands
<1>3. PICK key \in {None, disk[s]["key"]} :
         disk' = [disk EXCEPT ![s]["aaxc"] = None, ![s]["key"] = key]
  <2>1. CASE disk' = [disk EXCEPT ![s]["aaxc"] = None, ![s]["key"] = None]
    BY <2>1
  <2>2. CASE disk' = [disk EXCEPT ![s]["aaxc"] = None]
    <3>1. disk' = [disk EXCEPT ![s]["aaxc"] = None, ![s]["key"] = disk[s]["key"]]
      BY <1>2, <2>2 DEF Tree, Kind
    <3> QED
      BY <3>1
  <2> QED
    BY <2>1, <2>2 DEF RemoveSource
<1> PICK f : f = [disk[s] EXCEPT !["aaxc"] = None, !["key"] = key]
  OBVIOUS
<1>4. /\ f \in [Kind -> Titles \cup {None, Broken}] /\ f["aaxc"] = None
      /\ f["m4b"] = disk[s]["m4b"] /\ disk' = [disk EXCEPT ![s] = f]
  <2> PICK g : g = [disk[s] EXCEPT !["aaxc"] = None]
    OBVIOUS
  <2>1. g \in [Kind -> Titles \cup {None, Broken}] /\ f = [g EXCEPT !["key"] = key]
    BY <1>2 DEF Tree, Kind
  <2>2. key \in Titles \cup {None, Broken}
    BY <1>2, <1>3 DEF Tree, Kind
  <2>3. f \in [Kind -> Titles \cup {None, Broken}] /\ f["aaxc"] = None /\ f["m4b"] = disk[s]["m4b"]
    BY <1>2, <2>1, <2>2 DEF Tree, Kind
  <2>4. disk' = [[disk EXCEPT ![s] = g] EXCEPT ![s] = f]
    BY <1>2, <1>3, <2>1 DEF Tree, Kind
  <2> QED
    BY <1>2, <2>3, <2>4 DEF Tree
<1>5. /\ r \in ItemRecord /\ r.at = "drop" /\ r.stem = s /\ r.fresh = item[t].fresh
      /\ item' = [item EXCEPT ![t] = r] /\ item'[t] = r
  BY <1>2 DEF RemoveSource, Goto, ItemRecord, Phase
<1>6. ~spoiled => ItemFits(t)'
  BY <1>1, <1>2, <1>5 DEF ItemFits
<1>7. \A v \in Variant : f[KindOf[v]] \in Holds(t) \cup {disk[s][KindOf[v]]}
  BY <1>4 DEF Variant, KindOf, Holds
<1> QED
  BY <1>1, <1>2, <1>4, <1>5, <1>6, <1>7, FilesStep

(* The record of a source that was removed goes after it.                  *)
LEMMA DropOriginalRecordStep ==
  ASSUME IInv, NEW t \in Titles, DropOriginalRecord(t)
  PROVE  IInv'
<1>1. /\ item[t].at = "drop" /\ UNCHANGED <<name, disk, run, claims, cmd>> /\ Quiet
      /\ UNCHANGED spoiled /\ Writing(t)
      /\ rec' = [rec EXCEPT ![t]["original"] = None]
  BY DEF DropOriginalRecord, Quiet, Writing
<1>2. /\ NoItem \in ItemRecord /\ NoItem.at = "none" /\ ~NoItem.fresh
      /\ item' = [item EXCEPT ![t] = NoItem] /\ item'[t] = NoItem
  BY ItemStands DEF DropOriginalRecord, Done, NoItem, ItemRecord, Phase
<1>3. ItemFits(t)' /\ "original" \in Variant
  BY <1>2 DEF ItemFits, Variant
<1> QED
  BY <1>1, <1>2, <1>3, RecordStep

(* An item that fails leaves what it has done.                             *)
LEMMA ItemFailsStep ==
  ASSUME IInv, NEW t \in Titles, ItemFails(t)
  PROVE  IInv'
  BY DoneStep DEF ItemFails

(* No step of an item breaks the invariant.                                *)
LEMMA ItemStepInvariant ==
  ASSUME IInv, NEW t \in Titles, ItemStep(t)
  PROVE  IInv'
  BY BaseFilenameStep, ClaimStep, SkipStep, TransferStep, WriteKeyfileStep, RecordDownloadStep,
     DecryptItemStep, ToolSucceedsStep, ToolFailsStep, RecordDecryptedStep, RemoveSourceStep,
     DropOriginalRecordStep, ItemFailsStep
     DEF ItemStep

-----------------------------------------------------------------------------
(* Batches and commands.                                                   *)

(* No two titles are recorded on one stem.                                 *)
RecordsApart ==
    \A t, u \in Titles, v, w \in Variant :
        t # u /\ rec[t][v] # None => rec[t][v] # rec[u][w]

RecordsOwn == \A t \in Titles, v \in Variant : rec[t][v] # None => Own(t, rec[t][v])

(* What a command may rely on.                                             *)
LEMMA CommandStands ==
  ASSUME IInv
  PROVE  /\ TypeOK /\ disk \in Tree /\ rec \in Table /\ item \in [Titles -> ItemRecord]
         /\ OneWorks /\ DOMAIN cmd = CmdFields /\ MovesFit /\ RecordsOwn /\ RecordsAreTrue
         /\ ~spoiled => RecordsApart /\ NowFits /\ PathsFit
         /\ None \notin Stem /\ None \notin Titles /\ Broken \notin Titles /\ None # Broken
<1>1. TypeOK /\ disk \in Tree /\ rec \in Table /\ item \in [Titles -> ItemRecord]
  BY Types DEF IInv
<1>2. None \notin Stem /\ None \notin Titles /\ Broken \notin Titles /\ None # Broken
  BY NoneAssumption DEF Stem
<1>3. ASSUME Apart
      PROVE  RecordsApart
  <2>1. SUFFICES ASSUME NEW t \in Titles, NEW u \in Titles, NEW v \in Variant, NEW w \in Variant,
                        t # u, rec[t][v] # None, rec[t][v] = rec[u][w]
                 PROVE  FALSE
    BY DEF RecordsApart
  <2>2. rec[t][v] \in Stem /\ Mine(t, rec[t][v]) /\ Mine(u, rec[t][v])
    BY <1>1, <2>1 DEF Mine, Recorded, Table
  <2> QED
    BY <1>3, <2>1, <2>2 DEF Apart
<1> QED
  BY <1>1, <1>2, <1>3 DEF IInv, OneWorks, Owned, RecordsOwn

(* A step outside a batch: claims and items do not come into it.           *)
LEMMA CommandWorks ==
  ASSUME IInv, ~run.on, UNCHANGED batch,
         TypeOK', DOMAIN cmd' = CmdFields, RecordsOwn', MovesFit', RecordsAreTrue',
         cmd'.at \in {"idle", "unlink"} => cmd'.moves = {} /\ cmd'.now = None,
         spoiled => spoiled', ~spoiled' => RecordsApart' /\ NowFits' /\ PathsFit'
  PROVE  IInv'
<1>1. /\ ~run'.on /\ claims' = {} /\ \A t \in Titles : item'[t].at = "none" /\ item'[t] = item[t]
      /\ OneWorks'
  BY DEF batch, IInv, OneWorks
<1>2. Owned'
  BY <1>1 DEF Owned, RecordsOwn, Own
<1>3. \A t \in Titles : Held(t)' /\ LooksAhead(t)'
  BY <1>1 DEF Held, Writing, LooksAhead
<1>4. ASSUME ~spoiled', NEW t \in Titles
      PROVE  ItemFits(t)'
  BY <1>1, <1>4 DEF IInv, ItemFits
<1>5. ~spoiled' => Apart'
  BY <1>1, CommandStands DEF Apart, RecordsApart, Mine, Recorded
<1> QED
  BY <1>1, <1>2, <1>3, <1>4, <1>5 DEF IInv

(* Records that only go leave what is left in order.                       *)
LEMMA RecordsGo ==
  ASSUME IInv, rec' \in Table,
         \A t \in Titles, v \in Variant : rec'[t][v] \in {rec[t][v], None}
  PROVE  RecordsOwn' /\ (~spoiled => RecordsApart') /\ (UNCHANGED <<disk, spoiled>> => RecordsAreTrue')
<1>1. RecordsOwn /\ (~spoiled => RecordsApart) /\ RecordsAreTrue
  BY CommandStands
<1>2. RecordsOwn'
  BY <1>1 DEF RecordsOwn, Own
<1>3. ~spoiled => RecordsApart'
  BY <1>1 DEF RecordsApart
<1>4. UNCHANGED <<disk, spoiled>> => RecordsAreTrue'
  BY <1>1 DEF RecordsAreTrue
<1> QED
  BY <1>2, <1>3, <1>4

(* What depends on the records only.                                       *)
LEMMA RecordsStay ==
  ASSUME IInv, UNCHANGED rec
  PROVE  /\ RecordsOwn' /\ (~spoiled => RecordsApart')
         /\ UNCHANGED <<disk, spoiled>> => RecordsAreTrue'
<1>1. rec' \in Table /\ \A t \in Titles, v \in Variant : rec'[t][v] \in {rec[t][v], None}
  BY CommandStands
<1> QED
  BY <1>1, RecordsGo

(* A batch begins with nothing claimed.                                    *)
LEMMA StartBatchStep ==
  ASSUME IInv, StartBatch
  PROVE  IInv'
<1>1. /\ ~run.on /\ cmd.at = "idle" /\ UNCHANGED <<name, disk, rec, claims, cmd, trouble, spoiled>>
      /\ run' \in [on : BOOLEAN, force : BOOLEAN, decrypt : BOOLEAN, keep : BOOLEAN] /\ run'.on
  BY DEF StartBatch
<1>2. /\ OneWorks /\ claims = {} /\ cmd.moves = {} /\ cmd.now = None /\ TypeOK /\ RecordsOwn
      /\ ~spoiled => RecordsApart
  BY <1>1, CommandStands DEF OneWorks
<1> PICK waiting : waiting = [NoItem EXCEPT !.at = "waiting"]
  OBVIOUS
<1>3. /\ NoItem \in ItemRecord /\ NoItem.at = "none" /\ ~NoItem.fresh
      /\ waiting \in ItemRecord /\ waiting.at = "waiting" /\ ~waiting.fresh
  BY DEF NoItem, ItemRecord, Phase
<1>4. item' \in [Titles -> {NoItem, waiting}]
  BY DEF StartBatch
<1>5. \A t \in Titles : item'[t] \in ItemRecord /\ item'[t].at \in {"none", "waiting"} /\ ~item'[t].fresh
  BY <1>3, <1>4
<1>6. TypeOK'
  <2>1. item' \in [Titles -> ItemRecord]
    BY <1>3, <1>4
  <2> QED
    BY <1>1, <1>2, <2>1 DEF TypeOK, ItemRecord
<1>7. OneWorks'
  BY <1>1, <1>2 DEF OneWorks
<1>8. Owned' /\ MovesFit' /\ RecordsAreTrue'
  <2>1. Owned'
    BY <1>1, <1>2, <1>5 DEF Owned, RecordsOwn, Own
  <2>2. MovesFit'
    BY <1>1, <1>2 DEF MovesFit
  <2>3. RecordsAreTrue'
    BY <1>1, RecordsStay
  <2> QED
    BY <2>1, <2>2, <2>3
<1>9. \A t \in Titles : Held(t)' /\ LooksAhead(t)' /\ ItemFits(t)'
  BY <1>5 DEF Held, Writing, LooksAhead, ItemFits
<1>10. ~spoiled' => Apart' /\ NowFits' /\ PathsFit'
  <2>1. ~spoiled => Apart'
    BY <1>1 DEF IInv, Apart, Mine, Recorded
  <2>2. NowFits' /\ PathsFit'
    BY <1>1, <1>2 DEF NowFits, PathsFit
  <2> QED
    BY <1>1, <2>1, <2>2
<1> QED
  BY <1>6, <1>7, <1>8, <1>9, <1>10 DEF IInv

(* The end of a batch, or of whatever runs.                                *)
LEMMA RestStep ==
  ASSUME IInv, run' = NoRun, claims' = {}, \A t \in Titles : item'[t].at = "none",
         item' \in [Titles -> ItemRecord], UNCHANGED item \/ \A t \in Titles : ~item'[t].fresh,
         UNCHANGED <<name, disk, rec, spoiled>>, trouble' \in 0 .. MaxTrouble,
         cmd' = NoCmd \/ (cmd' = cmd /\ cmd.at = "idle")
  PROVE  IInv'
<1>1. /\ OneWorks /\ TypeOK /\ RecordsOwn
      /\ ~spoiled => RecordsApart
  BY CommandStands
<1>2. ~NoRun.on
  BY DEF NoRun
<1>3. /\ cmd'.at = "idle" /\ cmd'.moves = {} /\ cmd'.now = None /\ DOMAIN cmd' = CmdFields
      /\ cmd'.copy \in BOOLEAN /\ cmd'.paths \subseteq Stem \X Kind
  <2>1. CASE cmd' = NoCmd
    BY <2>1 DEF NoCmd, CmdFields
  <2>2. CASE cmd' = cmd /\ cmd.at = "idle"
    BY <1>1, <2>2 DEF OneWorks, TypeOK
  <2> QED
    BY <2>1, <2>2
<1>4. TypeOK'
  <2>1. run' \in [on : BOOLEAN, force : BOOLEAN, decrypt : BOOLEAN, keep : BOOLEAN]
    BY DEF NoRun
  <2> QED
    BY <1>1, <1>3, <2>1 DEF TypeOK, ItemRecord
<1>5. OneWorks'
  BY <1>2, <1>3 DEF OneWorks
<1>6. Owned' /\ MovesFit' /\ RecordsAreTrue'
  <2>1. Owned'
    BY <1>1, <1>2 DEF Owned, RecordsOwn, Own
  <2>2. MovesFit'
    BY <1>3 DEF MovesFit
  <2>3. RecordsAreTrue'
    BY RecordsStay
  <2> QED
    BY <2>1, <2>2, <2>3
<1>7. \A t \in Titles : Held(t)' /\ LooksAhead(t)'
  BY DEF Held, Writing, LooksAhead
<1>8. ASSUME ~spoiled, NEW t \in Titles
      PROVE  ItemFits(t)'
  BY <1>8 DEF IInv, ItemFits
<1>9. ~spoiled' => Apart' /\ NowFits' /\ PathsFit'
  <2>1. ~spoiled => Apart'
    BY <1>1, CommandStands DEF RecordsApart, Apart, Mine, Recorded
  <2>2. NowFits' /\ PathsFit'
    BY <1>3 DEF NowFits, PathsFit
  <2> QED
    BY <2>1, <2>2
<1> QED
  BY <1>4, <1>5, <1>6, <1>7, <1>9, <1>8 DEF IInv

(* A batch ends when its items have ended.                                 *)
LEMMA EndBatchStep ==
  ASSUME IInv, EndBatch
  PROVE  IInv'
<1>1. /\ run.on /\ (\A t \in Titles : item[t].at = "none") /\ run' = NoRun /\ claims' = {}
      /\ UNCHANGED <<name, disk, rec, item, cmd, trouble, spoiled>>
  BY DEF EndBatch
<1>2. cmd.at = "idle" /\ trouble' \in 0 .. MaxTrouble /\ item' \in [Titles -> ItemRecord]
  BY <1>1, CommandStands DEF OneWorks, TypeOK
<1> QED
  BY <1>1, <1>2, RestStep

(* A crash ends batch and command, and leaves disk and records.            *)
LEMMA CrashStep ==
  ASSUME IInv, Crash
  PROVE  IInv'
<1>1. NoItem \in ItemRecord /\ NoItem.at = "none" /\ ~NoItem.fresh
  BY DEF NoItem, ItemRecord, Phase
<1>2. trouble' \in 0 .. MaxTrouble
  BY TroubleTyped, CommandStands DEF Crash
<1> QED
  BY <1>1, <1>2, RestStep DEF Crash

(* Files that only go leave the records true.                              *)
LEMMA FilesGo ==
  ASSUME IInv, UNCHANGED <<rec, spoiled>>,
         \A s \in Stem, k \in Kind : disk'[s][k] \in {disk[s][k], None}
  PROVE  RecordsAreTrue'
<1>1. RecordsAreTrue /\ rec \in Table
  BY CommandStands
<1>2. ASSUME ~spoiled, NEW t \in Titles, NEW v \in Variant, rec[t][v] # None
      PROVE  disk'[rec[t][v]][KindOf[v]] \in {t, None, Broken}
  <2>1. rec[t][v] \in Stem /\ KindOf[v] \in Kind
    BY <1>1, <1>2 DEF Table, Variant, KindOf, Kind
  <2> QED
    BY <1>1, <1>2, <2>1 DEF RecordsAreTrue
<1> QED
  BY <1>2 DEF RecordsAreTrue

(* A command that is done, or has not begun.                               *)
LEMMA NoCmdTyped ==
  /\ NoCmd.at = "idle" /\ NoCmd.moves = {} /\ NoCmd.now = None /\ NoCmd.copy \in BOOLEAN
  /\ NoCmd.paths = {} /\ DOMAIN NoCmd = CmdFields
  BY DEF NoCmd, CmdFields

(* No command is under way afterwards.                                     *)
LEMMA CommandRests ==
  ASSUME cmd'.at = "idle", cmd'.moves = {}, cmd'.now = None
  PROVE  MovesFit' /\ NowFits' /\ PathsFit'
  BY DEF MovesFit, NowFits, PathsFit

(* The kinds of a variant's files are no other's.                          *)
LEMMA KindsApart ==
  ASSUME NEW s, NEW x, NEW v \in Variant, NEW w \in Variant,
         <<x, KindOf[v]>> \in FilesAt(s, w)
  PROVE  x = s /\ v = w
  BY DEF FilesAt, Variant, KindOf

(* What is to be deleted belongs to records that have gone.                *)
LEMMA DownloadsRemoveStep ==
  ASSUME IInv, NEW asins \in SUBSET Titles, NEW variants \in SUBSET Variant, NEW files \in BOOLEAN,
         DownloadsRemove(asins, variants, files)
  PROVE  IInv'
<1> PICK keys : keys = {k \in asins \X variants : rec[k[1]][k[2]] # None}
  OBVIOUS
<1> PICK paths : paths = UNION {FilesAt(rec[k[1]][k[2]], k[2]) : k \in keys}
  OBVIOUS
<1>1. /\ ~run.on /\ cmd.at = "idle" /\ UNCHANGED <<name, disk, batch, trouble, spoiled>>
      /\ rec' = [t \in Titles |-> [v \in Variant |->
                    IF <<t, v>> \in keys THEN None ELSE rec[t][v]]]
      /\ IF files THEN cmd' = [NoCmd EXCEPT !.at = "unlink", !.paths = paths] ELSE UNCHANGED cmd
  BY DEF DownloadsRemove, Free, Quiet
<1>2. /\ TypeOK /\ rec \in Table /\ OneWorks /\ (~spoiled => RecordsApart)
      /\ cmd.moves = {} /\ cmd.now = None /\ DOMAIN cmd = CmdFields
  BY <1>1, CommandStands DEF OneWorks
<1>3. /\ rec' \in Table
      /\ \A t \in Titles, v \in Variant :
            rec'[t][v] = IF <<t, v>> \in keys THEN None ELSE rec[t][v]
  BY <1>1, <1>2 DEF Table
<1>4. RecordsOwn' /\ (~spoiled => RecordsApart') /\ RecordsAreTrue'
  BY <1>1, <1>3, RecordsGo
<1>5. paths \subseteq Stem \X Kind
  <2>1. ASSUME NEW k \in keys
        PROVE  FilesAt(rec[k[1]][k[2]], k[2]) \subseteq Stem \X Kind
    <3>1. k[1] \in Titles /\ k[2] \in Variant /\ rec[k[1]][k[2]] # None
      OBVIOUS
    <3>2. rec[k[1]][k[2]] \in Stem
      BY <1>2, <3>1 DEF Table
    <3> QED
      BY <3>2 DEF FilesAt, Kind
  <2> QED
    BY <2>1
<1>6. CASE ~files
  <2>1. TypeOK'
    BY <1>1, <1>2, <1>3, <1>6 DEF TypeOK, batch, Table
  <2>2. cmd' = cmd
    BY <1>1, <1>6
  <2> QED
    BY <1>1, <1>2, <1>4, <2>1, <2>2, CommandRests, CommandWorks
<1>7. CASE files
  <2>1. /\ cmd'.at = "unlink" /\ cmd'.moves = {} /\ cmd'.now = None /\ cmd'.copy \in BOOLEAN
        /\ cmd'.paths = paths /\ DOMAIN cmd' = CmdFields
    BY <1>1, <1>7 DEF NoCmd, CmdFields
  <2>2. TypeOK'
    BY <1>1, <1>2, <1>3, <1>5, <2>1 DEF TypeOK, batch, Table
  <2>3. ASSUME ~spoiled
        PROVE  PathsFit'
    <3>1. SUFFICES ASSUME NEW t \in Titles, NEW v \in Variant, rec'[t][v] # None,
                          <<rec'[t][v], KindOf[v]>> \in paths
                   PROVE  FALSE
      BY <2>1 DEF PathsFit
    <3>2. rec'[t][v] = rec[t][v] /\ <<t, v>> \notin keys
      BY <1>3, <3>1
    <3>3. PICK k \in keys : <<rec[t][v], KindOf[v]>> \in FilesAt(rec[k[1]][k[2]], k[2])
      BY <3>1, <3>2
    <3>4. k[1] \in Titles /\ k[2] \in Variant /\ k = <<k[1], k[2]>>
      OBVIOUS
    <3>5. rec[t][v] = rec[k[1]][k[2]] /\ v = k[2]
      BY <3>3, <3>4, KindsApart
    <3>6. t = k[1]
      BY <1>2, <2>3, <3>1, <3>2, <3>4, <3>5 DEF RecordsApart
    <3> QED
      BY <3>2, <3>4, <3>5, <3>6
  <2>4. MovesFit' /\ NowFits'
    BY <2>1 DEF MovesFit, NowFits
  <2> QED
    BY <1>1, <1>4, <2>1, <2>2, <2>3, <2>4, CommandWorks
<1> QED
  BY <1>6, <1>7

(* Records without a file go.                                              *)
LEMMA DownloadsPruneStep ==
  ASSUME IInv, DownloadsPrune
  PROVE  IInv'
<1> DEFINE missing(t, v) == rec[t][v] # None /\ disk[rec[t][v]][KindOf[v]] = None
<1>1. /\ ~run.on /\ cmd.at = "idle" /\ UNCHANGED <<name, disk, batch, cmd, trouble, spoiled>>
      /\ rec' = [t \in Titles |-> [v \in Variant |-> IF missing(t, v) THEN None ELSE rec[t][v]]]
  BY DEF DownloadsPrune, Free, Quiet
<1>2. /\ TypeOK /\ rec \in Table /\ cmd.moves = {} /\ cmd.now = None /\ DOMAIN cmd = CmdFields
  BY <1>1, CommandStands DEF OneWorks
<1> HIDE DEF missing
<1>3. rec' \in Table /\ \A t \in Titles, v \in Variant : rec'[t][v] \in {rec[t][v], None}
  BY <1>1, <1>2 DEF Table
<1>4. RecordsOwn' /\ (~spoiled => RecordsApart') /\ RecordsAreTrue'
  BY <1>1, <1>3, RecordsGo
<1>5. TypeOK'
  BY <1>1, <1>2, <1>3 DEF TypeOK, batch, Table
<1> QED
  BY <1>1, <1>2, <1>4, <1>5, CommandRests, CommandWorks

(* The files go that were set aside for it.                                *)
LEMMA DeleteFilesStep ==
  ASSUME IInv, DeleteFiles
  PROVE  IInv'
<1>1. /\ cmd.at = "unlink" /\ cmd' = NoCmd /\ UNCHANGED <<name, rec, batch, trouble, spoiled>>
      /\ disk' = [s \in Stem |-> [k \in Kind |->
                     IF <<s, k>> \in cmd.paths THEN None ELSE disk[s][k]]]
  BY DEF DeleteFiles, Quiet
<1>2. TypeOK /\ disk \in Tree /\ ~run.on
  BY <1>1, CommandStands DEF OneWorks
<1>3. disk' \in Tree /\ \A s \in Stem, k \in Kind : disk'[s][k] \in {disk[s][k], None}
  BY <1>1, <1>2 DEF Tree
<1>4. RecordsOwn' /\ (~spoiled => RecordsApart') /\ RecordsAreTrue'
  BY <1>1, <1>3, RecordsStay, FilesGo
<1>5. TypeOK'
  BY <1>1, <1>2, <1>3, NoCmdTyped DEF TypeOK, batch, Tree
<1> QED
  BY <1>1, <1>2, <1>4, <1>5, NoCmdTyped, CommandRests, CommandWorks

(* A name changes between commands, and no record with it.                 *)
LEMMA RenameStep ==
  ASSUME IInv, NEW t \in Titles, Rename(t)
  PROVE  IInv'
<1>1. /\ ~run.on /\ cmd.at = "idle" /\ UNCHANGED <<disk, rec, batch, cmd, spoiled>> /\ Trouble
  BY DEF Rename, Free
<1>2. /\ TypeOK /\ cmd.moves = {} /\ cmd.now = None /\ DOMAIN cmd = CmdFields
  BY <1>1, CommandStands DEF OneWorks
<1>3. RecordsOwn' /\ (~spoiled => RecordsApart') /\ RecordsAreTrue'
  BY <1>1, RecordsStay
<1>4. TypeOK'
  <2>1. name' \in [Titles -> Names]
    BY <1>2 DEF Rename, TypeOK
  <2> QED
    BY <1>1, <1>2, <2>1, TroubleTyped DEF TypeOK, batch
<1> QED
  BY <1>1, <1>2, <1>3, <1>4, CommandRests, CommandWorks

(* A file that goes by hand leaves its record.                             *)
LEMMA DeletedByHandStep ==
  ASSUME IInv, NEW s \in Stem, NEW kind \in Kind, DeletedByHand(s, kind)
  PROVE  IInv'
<1>1. /\ ~run.on /\ cmd.at = "idle" /\ UNCHANGED <<name, rec, batch, cmd, spoiled>> /\ Trouble
      /\ disk' = [disk EXCEPT ![s][kind] = None]
  BY DEF DeletedByHand, Free
<1>2. /\ TypeOK /\ cmd.moves = {} /\ cmd.now = None /\ DOMAIN cmd = CmdFields /\ disk \in Tree
  BY <1>1, CommandStands DEF OneWorks
<1>3. disk' \in Tree /\ \A x \in Stem, k \in Kind : disk'[x][k] \in {disk[x][k], None}
  BY <1>1, <1>2 DEF Tree
<1>4. RecordsOwn' /\ (~spoiled => RecordsApart') /\ RecordsAreTrue'
  BY <1>1, <1>3, RecordsStay, FilesGo
<1>5. TypeOK'
  BY <1>1, <1>2, <1>3, TroubleTyped DEF TypeOK, batch, Tree
<1> QED
  BY <1>1, <1>2, <1>4, <1>5, CommandRests, CommandWorks

-----------------------------------------------------------------------------
(* A reorganization.                                                       *)

(* A move's parts.                                                         *)
LEMMA MoveTyped ==
  ASSUME NEW m \in Move
  PROVE  /\ m.key[1] \in Titles /\ m.key[2] \in Variant /\ m.key = <<m.key[1], m.key[2]>>
         /\ m.old \in Stem /\ m.new \in Stem /\ KindOf[m.key[2]] \in Kind
  BY DEF Move, Key, Variant, KindOf, Kind

(* What a move of one file leaves on the disk.                             *)
LEMMA Relocation ==
  ASSUME disk \in Tree, NEW m \in Move, m.old # m.new, NEW kind \in Kind,
         disk' = Relocated(m, kind)
  PROVE  /\ disk' \in Tree
         /\ disk'[m.new][kind] = disk[m.old][kind]
         /\ disk'[m.old][kind] = IF cmd.copy THEN disk[m.old][kind] ELSE None
         /\ \A s \in Stem, k \in Kind :
               ~(k = kind /\ s \in {m.old, m.new}) => disk'[s][k] = disk[s][k]
<1>1. m.old \in Stem /\ m.new \in Stem
  BY MoveTyped
<1> PICK x : x = disk[m.old][kind]
  OBVIOUS
<1> PICK y : y = IF cmd.copy THEN disk[m.old][kind] ELSE None
  OBVIOUS
<1>2. x \in Titles \cup {None, Broken} /\ y \in Titles \cup {None, Broken}
  BY <1>1 DEF Tree
<1> PICK g : g = [disk EXCEPT ![m.new][kind] = x]
  OBVIOUS
<1>3. /\ g \in Tree /\ g[m.new][kind] = x /\ g[m.old] = disk[m.old]
      /\ \A s \in Stem, k \in Kind : ~(k = kind /\ s = m.new) => g[s][k] = disk[s][k]
  BY <1>1, <1>2 DEF Tree
<1>4. disk' = [g EXCEPT ![m.old][kind] = y]
  BY <1>1, <1>3 DEF Relocated, Tree
<1>5. /\ disk' \in Tree /\ disk'[m.old][kind] = y /\ disk'[m.new] = g[m.new]
      /\ \A s \in Stem, k \in Kind : ~(k = kind /\ s = m.old) => disk'[s][k] = g[s][k]
  BY <1>1, <1>2, <1>3, <1>4 DEF Tree
<1> QED
  BY <1>3, <1>5

(* A record is moved once, and to another place.                           *)
LEMMA PlanFits ==
  ASSUME TypeOK
  PROVE  /\ Planned \subseteq Move
         /\ \A m \in Planned : Movable(m)
         /\ \A m, n \in Planned : m.key = n.key => m = n
<1>1. rec \in Table /\ name \in [Titles -> Names]
  BY Types DEF TypeOK
<1>2. ASSUME NEW m \in Planned
      PROVE  /\ m \in Move /\ Movable(m)
             /\ m = [key |-> <<m.key[1], m.key[2]>>, old |-> rec[m.key[1]][m.key[2]],
                     new |-> <<name[m.key[1]], None>>]
  <2>1. PICK t \in Titles, v \in Variant :
           m = [key |-> <<t, v>>, old |-> rec[t][v], new |-> <<name[t], None>>]
    BY DEF Planned, PlannedMoves
  <2>2. m.old \notin {None, m.new}
    BY DEF Planned
  <2>3. m.key = <<t, v>> /\ m.old = rec[t][v] /\ m.new = <<name[t], None>>
    BY <2>1
  <2>4. m.old \in Stem /\ m.new \in Names \X {None} /\ m.new \in Stem
    BY <1>1, <2>2, <2>3 DEF Table, Stem
  <2>5. m \in Move
    BY <2>1, <2>3, <2>4 DEF Move, Key
  <2> QED
    BY <2>1, <2>2, <2>3, <2>4, <2>5 DEF Movable
<1> QED
  BY <1>2

(* The plan is made from the records as they are.                          *)
LEMMA ReorganizeStep ==
  ASSUME IInv, NEW copy \in BOOLEAN, Reorganize(copy)
  PROVE  IInv'
<1>1. /\ ~run.on /\ UNCHANGED <<name, disk, rec, batch, trouble, spoiled>>
      /\ cmd' = [NoCmd EXCEPT !.at = "next", !.moves = Planned, !.copy = copy]
  BY DEF Reorganize, Free, Quiet
<1>2. TypeOK
  BY CommandStands
<1>3. /\ cmd'.at = "next" /\ cmd'.moves = Planned /\ cmd'.now = None /\ cmd'.copy = copy
      /\ cmd'.paths = {} /\ DOMAIN cmd' = CmdFields
  BY <1>1 DEF NoCmd, CmdFields
<1>4. TypeOK'
  BY <1>1, <1>2, <1>3, PlanFits DEF TypeOK, batch
<1>5. MovesFit' /\ NowFits' /\ PathsFit'
  BY <1>1, <1>2, <1>3, PlanFits DEF MovesFit, Movable, NowFits, PathsFit
<1>6. RecordsOwn' /\ (~spoiled => RecordsApart') /\ RecordsAreTrue'
  BY <1>1, RecordsStay
<1> QED
  BY <1>1, <1>3, <1>4, <1>5, <1>6, CommandWorks

(* A file is moved to where nothing is, or its move is skipped.            *)
LEMMA RelocateFileStep ==
  ASSUME IInv, NEW m \in cmd.moves, RelocateFile(m)
  PROVE  IInv'
<1> PICK t : t = m.key[1]
  OBVIOUS
<1> PICK v : v = m.key[2]
  OBVIOUS
<1> PICK kind : kind = KindOf[v]
  OBVIOUS
<1>1. cmd.at = "next" /\ UNCHANGED <<name, rec, batch, trouble>>
  BY DEF RelocateFile
<1>2. /\ ~run.on /\ TypeOK /\ disk \in Tree /\ rec \in Table /\ DOMAIN cmd = CmdFields /\ MovesFit
      /\ m \in Move
  BY <1>1, CommandStands DEF OneWorks, TypeOK
<1>3. /\ t \in Titles /\ v \in Variant /\ m.key = <<t, v>> /\ kind \in Kind
      /\ m.old \in Stem /\ m.new \in Stem /\ m.old # m.new /\ rec[t][v] = m.old /\ Movable(m)
  BY <1>2, MoveTyped DEF MovesFit, Movable
<1>4. /\ None \notin Move
      /\ RecordsOwn' /\ (~spoiled => RecordsApart') /\ (UNCHANGED <<disk, spoiled>> => RecordsAreTrue')
  BY <1>1, RecordsStay, NoneAssumption
<1>5. CASE CanRelocate(m, kind)
  <2>1. /\ disk' = Relocated(m, kind)
        /\ cmd' = [cmd EXCEPT !.moves = @ \ {m}, !.now = m,
                     !.at = IF kind = "aaxc" THEN "key" ELSE "path"]
        /\ spoiled' = (spoiled \/ \E u \in Titles \ {t} : Recorded(u, m.new))
    BY <1>5 DEF RelocateFile
  <2>2. /\ cmd'.at \in {"key", "path"} /\ cmd'.moves = cmd.moves \ {m} /\ cmd'.now = m
        /\ cmd'.copy = cmd.copy /\ cmd'.paths = cmd.paths /\ DOMAIN cmd' = CmdFields
    BY <1>2, <2>1 DEF CmdFields
  <2>3. /\ disk' \in Tree /\ disk'[m.new][kind] = disk[m.old][kind]
        /\ disk'[m.old][kind] \in {disk[m.old][kind], None}
        /\ \A s \in Stem, k \in Kind :
              ~(k = kind /\ s \in {m.old, m.new}) => disk'[s][k] = disk[s][k]
    BY <1>2, <1>3, <2>1, Relocation
  <2>4. TypeOK'
    BY <1>1, <1>2, <1>4, <2>1, <2>2, <2>3 DEF TypeOK, batch, Tree
  <2>5. MovesFit'
    BY <1>1, <1>2, <1>3, <2>2 DEF MovesFit, Movable
  <2>6. ASSUME ~spoiled'
        PROVE  NowFits' /\ PathsFit' /\ RecordsApart'
    <3>1. ~spoiled /\ \A u \in Titles \ {t} : ~Recorded(u, m.new)
      BY <2>1, <2>6
    <3>2. disk[m.old][kind] \in Holds(t)
      BY <1>2, <1>3, <3>1, CommandStands, NoneAssumption DEF RecordsAreTrue, Holds, Stem
    <3> QED
      BY <1>1, <1>3, <1>4, <2>2, <2>3, <3>1, <3>2 DEF NowFits, PathsFit, Recorded, Holds
  <2>7. RecordsAreTrue'
    <3>1. SUFFICES ASSUME ~spoiled', NEW u \in Titles, NEW w \in Variant, rec[u][w] # None
                   PROVE  disk'[rec[u][w]][KindOf[w]] \in {u, None, Broken}
      BY <1>1 DEF RecordsAreTrue
    <3>2. /\ disk[rec[u][w]][KindOf[w]] \in {u, None, Broken}
          /\ rec[u][w] \in Stem /\ KindOf[w] \in Kind
      <4>1. RecordsAreTrue /\ ~spoiled
        BY <2>1, <3>1, CommandStands
      <4>2. rec[u][w] \in Stem
        BY <1>2, <3>1 DEF Table
      <4> QED
        BY <3>1, <4>1, <4>2 DEF RecordsAreTrue, Variant, KindOf, Kind
    <3>3. ~(KindOf[w] = kind /\ rec[u][w] = m.new)
      <4>1. KindOf[w] = kind => w = v
        BY <1>3 DEF Variant, KindOf
      <4>2. rec[u][w] = m.new => u = t
        BY <2>1, <3>1 DEF Recorded
      <4> QED
        BY <1>3, <4>1, <4>2
    <3> QED
      BY <2>3, <3>2, <3>3
  <2> QED
    BY <1>1, <1>2, <1>4, <2>1, <2>2, <2>4, <2>5, <2>6, <2>7, CommandWorks
<1>6. CASE ~CanRelocate(m, kind)
  <2>1. UNCHANGED <<disk, spoiled>> /\ cmd' = [cmd EXCEPT !.moves = @ \ {m}]
    BY <1>6 DEF RelocateFile
  <2>2. /\ cmd'.at = "next" /\ cmd'.moves = cmd.moves \ {m} /\ cmd'.now = cmd.now
        /\ cmd'.copy = cmd.copy /\ cmd'.paths = cmd.paths /\ DOMAIN cmd' = CmdFields
    BY <1>1, <1>2, <2>1 DEF CmdFields
  <2>3. TypeOK'
    BY <1>1, <1>2, <2>1, <2>2 DEF TypeOK, batch
  <2>4. cmd.now = None
    BY <1>1, <1>2 DEF TypeOK
  <2>5. MovesFit' /\ NowFits' /\ PathsFit'
    BY <1>1, <1>2, <2>1, <2>2, <2>4 DEF MovesFit, Movable, NowFits, PathsFit
  <2> QED
    BY <1>1, <1>2, <1>4, <2>1, <2>2, <2>3, <2>5, CommandWorks
<1> QED
  BY <1>5, <1>6

(* No record names a sidecar.                                              *)
LEMMA RelocateSidecarStep ==
  ASSUME IInv, RelocateSidecar
  PROVE  IInv'
<1> PICK m : m = cmd.now
  OBVIOUS
<1>1. /\ cmd.at = "key" /\ UNCHANGED <<name, rec, batch, trouble, spoiled>>
      /\ disk' = IF CanRelocate(m, "key") THEN Relocated(m, "key") ELSE disk
      /\ cmd' = [cmd EXCEPT !.at = "path"]
  BY DEF RelocateSidecar, Quiet
<1>2. /\ ~run.on /\ TypeOK /\ disk \in Tree /\ rec \in Table /\ DOMAIN cmd = CmdFields /\ MovesFit
      /\ cmd.now # None /\ ~spoiled => NowFits
  BY <1>1, CommandStands DEF OneWorks, TypeOK
<1>3. m \in Move /\ m.old # m.new /\ cmd.now # None
  BY <1>1, <1>2 DEF TypeOK, MovesFit, Movable
<1>4. /\ RecordsOwn' /\ (~spoiled => RecordsApart')
      /\ UNCHANGED <<disk, spoiled>> => RecordsAreTrue'
  BY <1>1, RecordsStay
<1>5. /\ cmd'.at = "path" /\ cmd'.moves = cmd.moves /\ cmd'.now = cmd.now
      /\ cmd'.copy = cmd.copy /\ cmd'.paths = cmd.paths /\ DOMAIN cmd' = CmdFields
  BY <1>1, <1>2 DEF CmdFields
<1>6. disk' \in Tree /\ \A s \in Stem, k \in Kind \ {"key"} : disk'[s][k] = disk[s][k]
  <2>1. CASE CanRelocate(m, "key")
    BY <1>1, <1>2, <1>3, <2>1, Relocation DEF Kind
  <2>2. CASE ~CanRelocate(m, "key")
    BY <1>1, <1>2, <2>2
  <2> QED
    BY <2>1, <2>2
<1>7. \A v \in Variant : KindOf[v] \in Kind \ {"key"}
  BY DEF Variant, KindOf, Kind
<1>8. TypeOK'
  BY <1>1, <1>2, <1>3, <1>5, <1>6 DEF TypeOK, batch, Tree
<1>9. MovesFit' /\ PathsFit'
  BY <1>1, <1>2, <1>5 DEF MovesFit, Movable, PathsFit
<1>10. ~spoiled => NowFits'
  <2>1. m.new \in Stem /\ KindOf[m.key[2]] \in Kind \ {"key"}
    BY <1>3, <1>7, MoveTyped
  <2> QED
    BY <1>1, <1>2, <1>5, <1>6, <2>1 DEF NowFits, Recorded, Holds
<1>11. RecordsAreTrue'
  <2>1. SUFFICES ASSUME ~spoiled, NEW t \in Titles, NEW v \in Variant, rec[t][v] # None
                 PROVE  disk'[rec[t][v]][KindOf[v]] \in {t, None, Broken}
    BY <1>1 DEF RecordsAreTrue
  <2>2. rec[t][v] \in Stem /\ disk[rec[t][v]][KindOf[v]] \in {t, None, Broken}
    BY <1>2, <2>1, CommandStands DEF RecordsAreTrue, Table
  <2> QED
    BY <1>6, <1>7, <2>2
<1> QED
  BY <1>1, <1>2, <1>4, <1>5, <1>8, <1>9, <1>10, <1>11, CommandWorks

(* The record follows its file to where no other title is recorded.        *)
LEMMA UpdateDownloadPathStep ==
  ASSUME IInv, UpdateDownloadPath
  PROVE  IInv'
<1> PICK m : m = cmd.now
  OBVIOUS
<1> PICK t : t = m.key[1]
  OBVIOUS
<1> PICK v : v = m.key[2]
  OBVIOUS
<1>1. /\ cmd.at = "path" /\ UNCHANGED <<name, disk, batch, trouble, spoiled>>
      /\ rec' = IF rec[t][v] = None THEN rec ELSE [rec EXCEPT ![t][v] = m.new]
      /\ cmd' = [cmd EXCEPT !.at = "next", !.now = None]
  BY DEF UpdateDownloadPath, Quiet
<1>2. /\ ~run.on /\ TypeOK /\ disk \in Tree /\ rec \in Table /\ DOMAIN cmd = CmdFields /\ MovesFit
      /\ cmd.now # None /\ RecordsOwn /\ RecordsAreTrue
      /\ ~spoiled => NowFits /\ RecordsApart
      /\ None \notin Stem
  BY <1>1, CommandStands DEF OneWorks, TypeOK
<1>3. /\ m \in Move /\ Movable(m) /\ t \in Titles /\ v \in Variant /\ m.key = <<t, v>>
      /\ m.new \in Stem /\ m.new \in Names \X {None} /\ rec[t][v] = m.old /\ m.old \in Stem
  <2>1. m \in Move /\ Movable(m)
    BY <1>2 DEF TypeOK, MovesFit
  <2> QED
    BY <2>1, MoveTyped DEF Movable
<1>4. /\ rec' \in Table /\ rec'[t][v] = m.new
      /\ \A u \in Titles, w \in Variant : ~(u = t /\ w = v) => rec'[u][w] = rec[u][w]
  <2>1. rec' = [rec EXCEPT ![t][v] = m.new]
    BY <1>1, <1>2, <1>3
  <2> QED
    BY <1>2, <1>3, <2>1 DEF Table
<1>5. /\ cmd'.at = "next" /\ cmd'.moves = cmd.moves /\ cmd'.now = None
      /\ cmd'.copy = cmd.copy /\ cmd'.paths = cmd.paths /\ DOMAIN cmd' = CmdFields
  BY <1>1, <1>2 DEF CmdFields
<1>6. TypeOK'
  BY <1>1, <1>2, <1>4, <1>5 DEF TypeOK, batch, Table
<1>7. RecordsOwn'
  BY <1>2, <1>3, <1>4 DEF RecordsOwn, Own
<1>8. MovesFit'
  <2>1. ASSUME NEW n \in cmd.moves
        PROVE  Movable(n)'
    <3>1. n \in Move /\ Movable(n) /\ n.key # m.key
      BY <1>2 DEF TypeOK, MovesFit
    <3>2. n.key[1] \in Titles /\ n.key[2] \in Variant /\ n.key = <<n.key[1], n.key[2]>>
      BY <3>1, MoveTyped
    <3>3. ~(n.key[1] = t /\ n.key[2] = v)
      BY <1>3, <3>1, <3>2
    <3> QED
      BY <1>4, <3>1, <3>2, <3>3 DEF Movable
  <2> QED
    BY <1>2, <1>5, <2>1 DEF MovesFit
<1>9. NowFits' /\ PathsFit'
  BY <1>5 DEF NowFits, PathsFit
<1>10. ASSUME ~spoiled
       PROVE  RecordsApart' /\ RecordsAreTrue'
  <2>1. /\ \A u \in Titles \ {t} : \A w \in Variant : rec[u][w] # m.new
        /\ disk[m.new][KindOf[v]] \in {t, None, Broken}
    BY <1>2, <1>10 DEF NowFits, Recorded, Holds
  <2>2. RecordsApart'
    BY <1>2, <1>4, <1>10, <2>1 DEF RecordsApart
  <2>3. RecordsAreTrue'
    BY <1>1, <1>2, <1>4, <1>10, <2>1 DEF RecordsAreTrue
  <2> QED
    BY <2>2, <2>3
<1>11. RecordsAreTrue'
  BY <1>1, <1>10 DEF RecordsAreTrue
<1> QED
  BY <1>1, <1>2, <1>5, <1>6, <1>7, <1>8, <1>9, <1>10, <1>11, CommandWorks

(* A reorganization ends when its moves have been tried.                   *)
LEMMA EndReorganizeStep ==
  ASSUME IInv, EndReorganize
  PROVE  IInv'
<1>1. /\ cmd.at = "next" /\ cmd' = NoCmd /\ UNCHANGED <<name, disk, rec, batch, trouble, spoiled>>
  BY DEF EndReorganize, Quiet
<1>2. TypeOK /\ ~run.on
  BY <1>1, CommandStands DEF OneWorks
<1>3. RecordsOwn' /\ (~spoiled => RecordsApart') /\ RecordsAreTrue'
  BY <1>1, RecordsStay
<1>4. TypeOK'
  BY <1>1, <1>2, NoCmdTyped DEF TypeOK, batch
<1> QED
  BY <1>1, <1>2, <1>3, <1>4, NoCmdTyped, CommandRests, CommandWorks

(* Nor does a step of a maintenance command.                               *)
LEMMA MaintenanceInvariant == IInv /\ Maintenance => IInv'
  BY DownloadsRemoveStep, DownloadsPruneStep, DeleteFilesStep, ReorganizeStep, RelocateFileStep,
     RelocateSidecarStep, UpdateDownloadPathStep, EndReorganizeStep
     DEF Maintenance

-----------------------------------------------------------------------------
(* The invariant, and what it says.                                        *)

(* Nothing has been downloaded, nothing runs.                              *)
LEMMA InitInvariant == Init => IInv
<1> SUFFICES ASSUME Init PROVE IInv
  OBVIOUS
<1>1. NoItem \in ItemRecord /\ NoItem.at = "none" /\ ~NoItem.fresh /\ ~NoRun.on
  BY DEF NoItem, ItemRecord, Phase, NoRun
<1>2. \A t \in Titles : item[t] = NoItem /\ \A v \in Variant : rec[t][v] = None
  BY DEF Init
<1>3. NoRun \in [on : BOOLEAN, force : BOOLEAN, decrypt : BOOLEAN, keep : BOOLEAN]
  BY DEF NoRun
<1>4. TypeOK
  <2>1. item \in [Titles -> ItemRecord]
    BY <1>1 DEF Init
  <2>2. disk \in Tree /\ rec \in Table
    BY DEF Init, Tree, Table
  <2>3. /\ cmd.at = "idle" /\ cmd.moves = {} /\ cmd.now = None /\ cmd.copy \in BOOLEAN
        /\ cmd.paths = {}
    BY NoCmdTyped DEF Init
  <2>4. /\ name \in [Titles -> Names] /\ claims = {} /\ spoiled \in BOOLEAN
        /\ run \in [on : BOOLEAN, force : BOOLEAN, decrypt : BOOLEAN, keep : BOOLEAN]
    BY <1>3 DEF Init
  <2>5. trouble \in 0 .. MaxTrouble
    BY MaxTroubleAssumption DEF Init
  <2> QED
    BY <2>1, <2>2, <2>3, <2>4, <2>5 DEF TypeOK, Tree, Table, ItemRecord
<1>5. OneWorks /\ MovesFit
  BY <1>1, <1>2, NoCmdTyped DEF Init, OneWorks, MovesFit
<1>6. Owned /\ RecordsAreTrue
  BY <1>1, <1>2 DEF Init, Owned, RecordsAreTrue
<1>7. \A t \in Titles : Held(t) /\ LooksAhead(t) /\ ItemFits(t)
  BY <1>1, <1>2 DEF Held, Writing, LooksAhead, ItemFits
<1>8. Apart /\ NowFits /\ PathsFit
  <2>1. None \notin Stem
    BY NoneAssumption
  <2> QED
    BY <1>2, <2>1, NoCmdTyped DEF Init, Apart, Mine, Recorded, NowFits, PathsFit
<1> QED
  BY <1>4, <1>5, <1>6, <1>7, <1>8 DEF IInv

(* A step in which nothing changes.                                        *)
LEMMA StutterInvariant == IInv /\ UNCHANGED vars => IInv'
<1> SUFFICES ASSUME IInv, UNCHANGED vars PROVE IInv'
  OBVIOUS
<1>1. UNCHANGED <<name, disk, rec, run, claims, item, cmd, trouble, spoiled>>
  BY DEF vars, batch
<1>2. TypeOK' /\ OneWorks' /\ Owned' /\ MovesFit' /\ RecordsAreTrue'
  BY <1>1 DEF IInv, TypeOK, OneWorks, Owned, MovesFit, Movable, RecordsAreTrue
<1>3. \A t \in Titles : Held(t)'
  BY <1>1 DEF IInv, Held, Writing, Mine, Recorded
<1>4. ASSUME ~spoiled
      PROVE  /\ Apart' /\ NowFits' /\ PathsFit'
             /\ \A t \in Titles : LooksAhead(t)' /\ ItemFits(t)'
  <2>1. Apart' /\ NowFits' /\ PathsFit'
    BY <1>1, <1>4 DEF IInv, Apart, Mine, Recorded, NowFits, PathsFit, Holds
  <2>2. ASSUME NEW t \in Titles
        PROVE  LooksAhead(t)' /\ ItemFits(t)'
    <3>1. LooksAhead(t) /\ ItemFits(t)
      BY <1>4 DEF IInv
    <3> QED
      BY <1>1, <3>1 DEF LooksAhead, Recorded, ItemFits, Holds
  <2> QED
    BY <2>1, <2>2
<1> QED
  BY <1>1, <1>2, <1>3, <1>4 DEF IInv

(* The invariant of the downloads: claims and records keep titles apart,   *)
(* and each stage of an item and of a command knows what is on the disk.   *)
THEOREM DownloadsInvariant == Spec => []IInv
<1>1. ASSUME IInv, [Next]_vars
      PROVE  IInv'
  <2>1. CASE UNCHANGED vars
    BY <1>1, <2>1, StutterInvariant
  <2>2. CASE Next
    BY <1>1, <2>2, ItemStepInvariant, MaintenanceInvariant, StartBatchStep, EndBatchStep,
       CrashStep, RenameStep, DeletedByHandStep DEF Next
  <2> QED
    BY <1>1, <2>1, <2>2
<1> QED
  BY <1>1, InitInvariant, PTL DEF Spec

(* Every variable of the downloads keeps its type.                         *)
THEOREM DownloadsTypeCorrect == Spec => []TypeOK
<1>1. IInv => TypeOK
  BY DEF IInv
<1> QED
  BY <1>1, DownloadsInvariant, PTL

(* naming.rs, ClaimedStems and base_filename: an item's stem is no other   *)
(* item's, and no other title's record names it.                           *)
THEOREM NamesKeepApart == Spec => []StemsApart
<1>1. ASSUME IInv
      PROVE  StemsApart
  <2>1. SUFFICES ASSUME NEW t \in Titles, NEW u \in Titles, t # u, Writing(t), ~spoiled
                 PROVE  /\ Writing(u) => item[t].stem # item[u].stem
                        /\ ~Recorded(u, item[t].stem)
    BY DEF StemsApart
  <2>2. Apart /\ Held(t) /\ Held(u)
    BY <1>1, <2>1 DEF IInv
  <2>3. ~Mine(u, item[t].stem)
    BY <2>1, <2>2 DEF Held, Apart
  <2> QED
    BY <2>2, <2>3 DEF Held, Mine
<1> QED
  BY <1>1, DownloadsInvariant, PTL

(* A record whose file is there names a file of its own title.             *)
THEOREM RecordsStayTrue == Spec => []RecordsAreTrue
<1>1. IInv => RecordsAreTrue
  BY DEF IInv
<1> QED
  BY <1>1, DownloadsInvariant, PTL

-----------------------------------------------------------------------------
(* What a step may never do.                                               *)

(* --remove-source, decrypt.rs: an original goes only when the title's     *)
(* decrypted file plays and is recorded, if its sidecar was its own.       *)
THEOREM SourceIsKept == Spec => SourceKeptUntilDecrypted
<1> DEFINE A == \A t \in Titles :
          item[t].at = "cleanup" /\ disk[item[t].stem]["aaxc"] = t
            /\ disk[item[t].stem]["key"] = t
            /\ disk'[item[t].stem]["aaxc"] # t /\ ~spoiled
          => disk[item[t].stem]["m4b"] = t /\ rec[t]["decrypted"] = item[t].stem
<1>1. IInv => A
  BY DEF IInv, ItemFits
<1> HIDE DEF A
<1>2. IInv /\ [Next]_vars => [A]_vars
  BY <1>1
<1>3. Spec => [][A]_vars
  BY <1>2, DownloadsInvariant, PTL DEF Spec
<1> QED
  BY <1>3 DEF SourceKeptUntilDecrypted, A

(* An item touches files of its title's only, and goes on when it does.    *)
LEMMA ItemTouches ==
  ASSUME IInv, NEW t \in Titles, ItemStep(t)
  PROVE  /\ UNCHANGED <<cmd, spoiled>>
         /\ \/ UNCHANGED disk
            \/ /\ item'[t] # item[t]
               /\ \E s \in Stem : Mine(t, s) /\ \A x \in Stem \ {s} : disk'[x] = disk[x]
<1>1. /\ disk \in Tree /\ rec \in Table /\ item \in [Titles -> ItemRecord]
      /\ Writing(t) => item[t].stem \in Stem /\ Mine(t, item[t].stem)
      /\ None \notin Stem
  BY ItemStands
<1>2. UNCHANGED <<cmd, spoiled>>
  BY DEF ItemStep, BaseFilename, Claim, SkipAlreadyDownloaded, Transfer, WriteKeyfile,
         RecordDownload, DecryptItem, ToolSucceeds, ToolFails, RecordDecrypted, RemoveSource,
         DropOriginalRecord, ItemFails, Quiet
<1>3. CASE BaseFilename(t) \/ Claim(t) \/ SkipAlreadyDownloaded(t) \/ RecordDownload(t)
           \/ RecordDecrypted(t) \/ DropOriginalRecord(t) \/ ItemFails(t)
  BY <1>2, <1>3 DEF BaseFilename, Claim, SkipAlreadyDownloaded, RecordDownload,
                    RecordDecrypted, DropOriginalRecord, ItemFails
<1>4. CASE Transfer(t) \/ WriteKeyfile(t) \/ ToolSucceeds(t) \/ ToolFails(t) \/ RemoveSource(t)
  <2>1. Writing(t)
    BY <1>4 DEF Transfer, WriteKeyfile, ToolSucceeds, ToolFails, RemoveSource, Writing
  <2>2. item'[t].at # item[t].at
    BY <1>1, <1>4 DEF Transfer, WriteKeyfile, ToolSucceeds, ToolFails, RemoveSource,
                      Goto, Done, NoItem, ItemRecord
  <2>3. \A x \in Stem \ {item[t].stem} : disk'[x] = disk[x]
    BY <1>1, <1>4, <2>1 DEF Transfer, WriteKeyfile, ToolSucceeds, ToolFails, RemoveSource, Tree
  <2> QED
    BY <1>1, <1>2, <2>1, <2>2, <2>3
<1>5. CASE DecryptItem(t)
  <2> PICK s : s = Source(t)
    OBVIOUS
  <2>1. CASE UNCHANGED disk
    BY <1>2, <2>1
  <2>2. CASE ~UNCHANGED disk
    <3>1. /\ s # None /\ disk' = [disk EXCEPT ![s]["m4b"] = Broken]
          /\ item[t].at = "decrypt" /\ Writing(t)
      BY <1>5, <2>2 DEF DecryptItem, Writing
    <3>2. item'[t].at = "tool"
      BY <1>1, <1>5, <2>2 DEF DecryptItem, ItemRecord
    <3>3. s \in Stem /\ Mine(t, s)
      BY <1>1, <3>1 DEF Source, Mine, Recorded, Table, Variant
    <3>4. \A x \in Stem \ {s} : disk'[x] = disk[x]
      BY <1>1, <3>1 DEF Tree
    <3> QED
      BY <1>2, <3>1, <3>2, <3>3, <3>4
  <2> QED
    BY <2>1, <2>2
<1> QED
  BY <1>3, <1>4, <1>5 DEF ItemStep

(* A move touches the moved file, and where it goes.                       *)
LEMMA MoveTouches ==
  ASSUME IInv, NEW m \in cmd.moves, RelocateFile(m)
  PROVE  /\ m \in Move /\ Movable(m) /\ UNCHANGED batch
         /\ \/ UNCHANGED disk
            \/ /\ CanRelocate(m, KindOf[m.key[2]]) /\ cmd'.now = m
               /\ disk' = Relocated(m, KindOf[m.key[2]])
<1>1. m \in Move /\ Movable(m) /\ DOMAIN cmd = CmdFields
  BY CommandStands DEF TypeOK, MovesFit
<1>2. CASE CanRelocate(m, KindOf[m.key[2]])
  BY <1>1, <1>2 DEF RelocateFile, CmdFields
<1>3. CASE ~CanRelocate(m, KindOf[m.key[2]])
  BY <1>1, <1>3 DEF RelocateFile
<1> QED
  BY <1>1, <1>2, <1>3 DEF RelocateFile

(* reorganize, db downloads, a batch: whatever runs, a file that its own   *)
(* title's records alone name goes only with work on that title.           *)
LEMMA TrackedStep ==
  ASSUME IInv, Next, NEW t \in Titles, NEW v \in Variant, NEW s, s = rec[t][v],
         s # None, ~spoiled', disk[s][KindOf[v]] = t, disk'[s][KindOf[v]] # t
  PROVE  WorkOn(t)
<1>1. /\ disk \in Tree /\ rec \in Table /\ s \in Stem /\ Mine(t, s) /\ Recorded(t, s)
      /\ KindOf[v] \in {"aaxc", "m4b"} /\ KindOf[v] \in Kind /\ t # None
      /\ None \notin Stem
  BY CommandStands DEF Table, Mine, Recorded, Variant, KindOf, Kind
<1>2. ASSUME NEW u \in Titles, ItemStep(u)
      PROVE  WorkOn(t)
  <2>1. CASE u = t
    BY <1>1, <1>2, <2>1, ItemTouches DEF WorkOn
  <2>2. CASE u # t
    <3>1. PICK x \in Stem : Mine(u, x) /\ \A y \in Stem \ {x} : disk'[y] = disk[y]
      BY <1>1, <1>2, ItemTouches
    <3>2. Apart
      BY <1>2, ItemTouches DEF IInv
    <3> QED
      BY <1>1, <2>2, <3>1, <3>2 DEF Apart
  <2> QED
    BY <2>1, <2>2
<1>3. CASE DeleteFiles
  <2>1. /\ ~spoiled /\ cmd.at = "unlink"
        /\ disk'[s][KindOf[v]] = IF <<s, KindOf[v]>> \in cmd.paths THEN None ELSE disk[s][KindOf[v]]
    BY <1>1, <1>3 DEF DeleteFiles, Quiet
  <2>2. <<s, KindOf[v]>> \notin cmd.paths
    BY <2>1, CommandStands DEF PathsFit
  <2> QED
    BY <2>1, <2>2
<1>4. ASSUME NEW m \in cmd.moves, RelocateFile(m)
      PROVE  WorkOn(t)
  <2> PICK kind : kind = KindOf[m.key[2]]
    OBVIOUS
  <2>1. /\ m \in Move /\ Movable(m) /\ CanRelocate(m, kind) /\ cmd'.now = m
        /\ disk' = Relocated(m, kind)
    BY <1>1, <1>4, MoveTouches
  <2>2. m.key[1] \in Titles /\ m.key[2] \in Variant /\ kind \in Kind /\ m.old # m.new
    BY <2>1, MoveTyped DEF Movable
  <2>3. s \in {m.old, m.new} /\ KindOf[v] = kind
    BY <1>1, <2>1, <2>2, Relocation
  <2>4. s = m.old
    BY <1>1, <2>1, <2>3 DEF CanRelocate
  <2>5. Recorded(m.key[1], s)
    BY <2>1, <2>2, <2>4 DEF Movable, Recorded
  <2>6. ~spoiled
    BY <1>4 DEF RelocateFile
  <2>7. m.key[1] = t
    BY <1>1, <2>2, <2>5, <2>6 DEF IInv, Apart, Mine
  <2>8. m # None
    BY <2>1, NoneAssumption
  <2> QED
    BY <2>1, <2>7, <2>8 DEF WorkOn
<1>5. CASE RelocateSidecar
  <2> PICK m : m = cmd.now
    OBVIOUS
  <2>1. m \in Move /\ m.old # m.new
    <3>1. cmd.now # None
      BY <1>5, CommandStands DEF TypeOK, RelocateSidecar
    <3> QED
      BY <3>1, CommandStands DEF TypeOK, MovesFit, Movable
  <2>2. disk' = Relocated(m, "key")
    BY <1>1, <1>5 DEF RelocateSidecar
  <2>3. disk'[s][KindOf[v]] = disk[s][KindOf[v]]
    BY <1>1, <2>1, <2>2, Relocation DEF Kind
  <2> QED
    BY <2>3
<1>6. ASSUME NEW x \in Stem, NEW kind \in Kind, DeletedByHand(x, kind)
      PROVE  WorkOn(t)
  BY <1>6 DEF WorkOn
<1>7. CASE UNCHANGED disk
  BY <1>7
<1>8. Maintenance => \/ DeleteFiles \/ RelocateSidecar \/ UNCHANGED disk
                     \/ \E m \in cmd.moves : RelocateFile(m)
  BY DEF Maintenance, DownloadsRemove, DownloadsPrune, Reorganize, UpdateDownloadPath, EndReorganize
<1>9. StartBatch \/ EndBatch \/ Crash \/ (\E u \in Titles : Rename(u)) => UNCHANGED disk
  BY DEF StartBatch, EndBatch, Crash, Rename
<1> QED
  BY <1>2, <1>3, <1>4, <1>5, <1>6, <1>7, <1>8, <1>9 DEF Next

(* A file that its own title's records alone name is replaced or deleted   *)
(* only by work on that title (item.rs, reorganize.rs, db.rs).             *)
THEOREM TrackedStays == Spec => TrackedIsKept
<1> DEFINE A == \A t \in Titles, v \in Variant :
          LET s == rec[t][v]
          IN  s # None /\ ~spoiled' /\ disk[s][KindOf[v]] = t /\ disk'[s][KindOf[v]] # t
                => WorkOn(t)
<1>1. IInv /\ Next => A
  BY TrackedStep
<1> HIDE DEF A
<1>2. IInv /\ [Next]_vars => [A]_vars
  BY <1>1
<1>3. Spec => [][A]_vars
  BY <1>2, DownloadsInvariant, PTL DEF Spec
<1> QED
  BY <1>3 DEF TrackedIsKept, A

(* There are finitely many names of files.                                 *)
FinitelyMany == IsFiniteSet(Stem)

(* A file that is moved, or copied, to where none was, is not lost.        *)
LEMMA RelocationKeeps ==
  ASSUME FinitelyMany, disk \in Tree, NEW m \in Move, m.old # m.new, NEW kind \in Kind,
         disk' = Relocated(m, kind), disk[m.new][kind] = None,
         NEW k \in Kind, NEW t \in Titles \cup {Broken}
  PROVE  Copies(disk', k, t) >= Copies(disk, k, t)
<1> DEFINE S == {s \in Stem : disk[s][k] = t}
<1> DEFINE T == {s \in Stem : disk'[s][k] = t}
<1>1. IsFiniteSet(S) /\ IsFiniteSet(T)
  BY FS_Subset DEF FinitelyMany
<1>2. Cardinality(S) \in Nat /\ Cardinality(T) \in Nat
  BY <1>1, FS_CardinalityType
<1>3. m.old \in Stem /\ m.new \in Stem /\ t # None
  BY MoveTyped, NoneAssumption
<1>4. CASE k = kind /\ disk[m.old][k] = t /\ ~cmd.copy
  <2>1. T = (S \ {m.old}) \cup {m.new} /\ m.old \in S /\ m.new \notin S
    BY <1>3, <1>4, Relocation
  <2>2. Cardinality(S \ {m.old}) = Cardinality(S) - 1 /\ IsFiniteSet(S \ {m.old})
    BY <1>1, <2>1, FS_RemoveElement
  <2>3. Cardinality(T) = Cardinality(S \ {m.old}) + 1
    BY <2>1, <2>2, FS_AddElement
  <2>4. Cardinality(T) = Cardinality(S)
    BY <1>2, <2>2, <2>3
  <2> QED
    BY <1>2, <2>4 DEF Copies
<1>5. CASE ~(k = kind /\ disk[m.old][k] = t /\ ~cmd.copy)
  <2>1. S \subseteq T
    BY <1>3, <1>5, Relocation
  <2>2. Cardinality(S) <= Cardinality(T)
    BY <1>1, <2>1, FS_Subset
  <2> QED
    BY <1>2, <2>2 DEF Copies
<1> QED
  BY <1>4, <1>5

(* A step of a reorganization is a move, or leaves the files alone.        *)
LEMMA ReorganizeKeeps ==
  ASSUME FinitelyMany, IInv, Next, cmd.at \in {"next", "key", "path"},
         NEW k \in Kind, NEW t \in Titles \cup {Broken}
  PROVE  Copies(disk', k, t) >= Copies(disk, k, t)
<1>1. /\ ~run.on /\ (\A u \in Titles : item[u].at = "none") /\ disk \in Tree
  BY CommandStands DEF OneWorks
<1>2. CASE UNCHANGED disk
  <2>1. Copies(disk, k, t) \in Nat
    BY FS_Subset, FS_CardinalityType DEF Copies, FinitelyMany
  <2> QED
    BY <1>2, <2>1
<1>3. ASSUME NEW m \in cmd.moves, RelocateFile(m), ~UNCHANGED disk
      PROVE  Copies(disk', k, t) >= Copies(disk, k, t)
  <2> PICK kind : kind = KindOf[m.key[2]]
    OBVIOUS
  <2>1. /\ m \in Move /\ Movable(m) /\ CanRelocate(m, kind) /\ disk' = Relocated(m, kind)
    BY <1>3, MoveTouches
  <2>2. kind \in Kind /\ m.old # m.new /\ disk[m.new][kind] = None
    BY <2>1, MoveTyped DEF Movable, CanRelocate
  <2> QED
    BY <1>1, <2>1, <2>2, RelocationKeeps
<1>4. CASE RelocateSidecar /\ ~UNCHANGED disk
  <2> PICK m : m = cmd.now
    OBVIOUS
  <2>1. m \in Move /\ m.old # m.new
    <3>1. cmd.now # None
      BY <1>4, CommandStands DEF TypeOK, RelocateSidecar
    <3> QED
      BY <3>1, CommandStands DEF TypeOK, MovesFit, Movable
  <2>2. disk' = Relocated(m, "key") /\ disk[m.new]["key"] = None
    BY <1>4 DEF RelocateSidecar, CanRelocate
  <2> QED
    BY <1>1, <2>1, <2>2, RelocationKeeps DEF Kind
<1>5. \A u \in Titles : ~ItemStep(u)
  BY <1>1 DEF ItemStep, BaseFilename, Claim, SkipAlreadyDownloaded, Transfer, WriteKeyfile,
     RecordDownload, DecryptItem, ToolSucceeds, ToolFails, RecordDecrypted, RemoveSource,
     DropOriginalRecord, ItemFails
<1>6. Maintenance => \/ RelocateSidecar \/ UNCHANGED disk
                     \/ \E m \in cmd.moves : RelocateFile(m)
  BY DEF Maintenance, DownloadsRemove, DownloadsPrune, DeleteFiles, Free, Reorganize,
         UpdateDownloadPath, EndReorganize
<1>7. /\ StartBatch \/ EndBatch \/ Crash \/ (\E u \in Titles : Rename(u)) => UNCHANGED disk
      /\ \A s \in Stem, kind \in Kind : ~DeletedByHand(s, kind)
  BY DEF StartBatch, EndBatch, Crash, Rename, DeletedByHand, Free
<1> QED
  BY <1>2, <1>3, <1>4, <1>5, <1>6, <1>7 DEF Next

(* reorganize.rs: moving files neither overwrites nor loses any.           *)
THEOREM MovesKeepFiles == FinitelyMany => (Spec => ReorganizeLosesNothing)
<1> SUFFICES ASSUME FinitelyMany PROVE Spec => ReorganizeLosesNothing
  OBVIOUS
<1> DEFINE A == cmd.at \in {"next", "key", "path"}
         => \A kind \in Kind, t \in Titles \cup {Broken} :
               Copies(disk', kind, t) >= Copies(disk, kind, t)
<1>1. IInv /\ Next => A
  BY ReorganizeKeeps
<1> HIDE DEF A
<1>2. IInv /\ [Next]_vars => [A]_vars
  BY <1>1
<1>3. Spec => [][A]_vars
  BY <1>2, DownloadsInvariant, PTL DEF Spec
<1> QED
  BY <1>3 DEF ReorganizeLosesNothing, A

=============================================================================
