------------------------------ MODULE LibraryViews ------------------------------
(***************************************************************************)
(* What commands take from the library database: which titles a listing    *)
(* calls missing, which ones `download --missing` sweeps up and which ones *)
(* --asin and --title stand for.  The queries are those of src/db/items.rs *)
(* and src/db/episodes.rs, built from the fragments of src/db/mod.rs; the  *)
(* resolution is src/commands/items.rs and src/commands/download/mod.rs.   *)
(* One marketplace: every statement names it.  Order and paging are left   *)
(* out, an episode's own document is only its PDF flag.                    *)
(***************************************************************************)
EXTENDS Integers, FiniteSets

CONSTANTS Books, Show, Episodes,  \* ASINs; an episode may be an item of its own
          Docs,                   \* documents: archived, consumable, pdf
          MaxMoves                \* bound on changes of the library and runs

VARIABLES
    items, episodes,  \* their rows
    downloads,        \* the records of artifacts, audio with its request_kind
    run,              \* the download run, with its selection
    moves             \* changes of the library and runs so far (bound)

vvars == <<items, episodes, downloads, run, moves>>

Items == Books \cup {Show} \cup Episodes
Leaves == Books \cup Episodes
Kind(a) == IF a \in Books THEN "book" ELSE IF a = Show THEN "podcast" ELSE "episode"

NoRow == [st |-> "absent"]
Stored(S) == {NoRow} \cup [st : {"active", "deleted"}, doc : S]
EpisodeDocs == [pdf : BOOLEAN]

RequestKinds == {"adrm", "widevine", "mpeg"}
Records == [asin : Leaves, kind : {"audio"}, request : RequestKinds]
           \cup [asin : Leaves, kind : {"pdf", "chapter"}, request : {""}]

NoRun == [on |-> FALSE]

(* The variables stay in their sets, whatever the steps.                   *)
ViewsTypeOK ==
    /\ items \in [Items -> Stored(Docs)] /\ episodes \in [Episodes -> Stored(EpisodeDocs)]
    /\ downloads \subseteq Records
    /\ run.on => /\ run.todo \subseteq Items /\ run.from \in {"missing", "named"}
                 /\ run.external \subseteq Items
                 /\ run.kinds \subseteq {"audio", "pdf", "chapter"}
                 /\ run.forced \in BOOLEAN /\ run.podcasts \in BOOLEAN
                 /\ run.still \in BOOLEAN
    /\ moves \in 0 .. MaxMoves

Init ==
    /\ items = [a \in Items |-> NoRow] /\ episodes = [e \in Episodes |-> NoRow]
    /\ downloads = {} /\ run = NoRun /\ moves = 0

-----------------------------------------------------------------------------
(* The views and the fragments queries are made of.                        *)

v_books == {a \in Items : items[a].st = "active"}
v_episodes == {e \in Episodes : episodes[e].st = "active"}

(* An episode has the archive flag and the right of its show.  The lookups *)
(* do not ask whether that row is soft-deleted.                            *)
Holder(a, table) == IF table = "episodes" THEN Show ELSE a
Archived(a) == items[a].st # "absent" /\ items[a].doc.archived
Consumable(a) == items[a].st # "absent" /\ items[a].doc.consumable

Admitted(a, archived, lapsed) ==
    /\ archived \/ ~Archived(a)
    /\ lapsed \/ Consumable(a)

Pdf(a, table) == IF table = "episodes" THEN episodes[a].doc.pdf ELSE items[a].doc.pdf

(* Only a PDF is announced; chapters and covers may always be there.       *)
Possible(a, kind, table) == kind = "pdf" => Pdf(a, table)

Recorded(a, kind) == \E d \in downloads : d.asin = a /\ d.kind = kind

Missing(a, kinds, table) ==
    {k \in kinds : ~Recorded(a, k) /\ Possible(a, k, table)}

(* Seeded fault: a show is asked for records of its own.                   *)
MissingOwn(a, kinds) == Missing(a, kinds, "items")

(* A show lacks what one of its episodes lacks.                            *)
MissingKinds(a, kinds) ==
    IF Kind(a) = "podcast"
    THEN UNION {Missing(e, kinds, "episodes") : e \in v_episodes}
    ELSE Missing(a, kinds, "items")

(* `library list --missing`.                                               *)
BooksMissing(kinds, archived, lapsed) ==
    {a \in v_books : MissingKinds(a, kinds) # {} /\ Admitted(a, archived, lapsed)}

EpisodesMissing(kinds) == {e \in v_episodes : Missing(e, kinds, "episodes") # {}}

(* The request kinds a run may resolve to: a match of any is a download.   *)
Candidates(forced) == IF forced THEN {"widevine", "mpeg"} ELSE RequestKinds

AudioMissing(a, candidates) ==
    ~\E d \in downloads : d.asin = a /\ d.kind = "audio" /\ d.request \in candidates

Lacks(a, kinds, candidates, table) ==
    \/ Missing(a, kinds \ {"audio"}, table) # {}
    \/ "audio" \in kinds /\ AudioMissing(a, candidates)

(* An episode that is an item of its own is the items branch's.            *)
OwnItem(e) == e \in v_books

(* `download --missing`: leaves only.                                      *)
MissingDownloadAsins(kinds, candidates, archived, lapsed, podcasts) ==
    {a \in v_books :
        /\ Lacks(a, kinds, candidates, "items")
        /\ Admitted(a, archived, lapsed)
        /\ IF podcasts THEN Kind(a) # "podcast" ELSE Kind(a) = "book"}
    \cup
    {e \in v_episodes :
        /\ podcasts /\ ~OwnItem(e)
        /\ Lacks(e, kinds, candidates, "episodes")
        /\ Admitted(Holder(e, "episodes"), archived, lapsed)}

(* The memberships behind a selection whose right is not proven.           *)
LapsedTitles(asins) ==
    {a \in asins \cap v_books : ~Consumable(a)}
    \cup {Show : e \in {x \in asins \cap v_episodes :
                           Show \in v_books /\ ~OwnItem(x) /\ ~Consumable(Show)}}

-----------------------------------------------------------------------------
(* --asin and --title.                                                     *)

ClassifyAsin(a) ==
    CASE a \in v_books /\ Kind(a) = "podcast" -> "parent"
      [] a \in v_books /\ Kind(a) # "podcast" -> Kind(a)
      [] a \notin v_books /\ a \in v_episodes -> "episode"
      [] OTHER -> "unknown"

UnknownAsins(asins) == {a \in asins : ClassifyAsin(a) = "unknown"}

(* A show stands for its episodes.                                         *)
ResolveAsinDownload(a, include) ==
    CASE ClassifyAsin(a) = "parent" -> IF include THEN v_episodes ELSE {}
      [] ClassifyAsin(a) = "episode" -> IF include THEN {a} ELSE {}
      [] OTHER -> {a}

(* What the hits of a title search offer: the items, and unless podcasts   *)
(* are excluded the episodes with such a title.                            *)
TitleCandidates(hits, include) ==
    {a \in hits \cap v_books : include \/ Kind(a) = "book"}
    \cup {e \in hits \cap v_episodes : include}

(* Seeded fault: what is chosen is what is downloaded.                     *)
ChooseItself(a) == {a}

(* A chosen show stands for its episodes, and never for itself.            *)
Choose(a) == IF a \in v_books /\ Kind(a) = "podcast" THEN v_episodes ELSE {a}

ResolveAsins(asins, picked, include) ==
    (UNION {ResolveAsinDownload(a, include) : a \in asins})
    \cup (UNION {Choose(a) : a \in picked})

(* What the library does not hold is taken only with --allow-external and  *)
(* when the catalog says that the account may have it.                     *)
ReconcileExternal(asins, allow, covered) ==
    UnknownAsins(asins) = {} \/ (allow /\ UnknownAsins(asins) \subseteq covered)

-----------------------------------------------------------------------------
(* The library changes under the commands.                                 *)

Moves ==
    /\ moves < MaxMoves /\ moves' = moves + 1
    /\ run' = IF run.on THEN [run EXCEPT !.still = FALSE] ELSE run
    /\ UNCHANGED downloads

Upsert(a, doc) ==
    /\ items' = [items EXCEPT ![a] = [st |-> "active", doc |-> doc]]
    /\ Moves /\ UNCHANGED episodes

Flipped(rows) ==
    [e \in Episodes |-> IF rows[e].st = "active" THEN [rows[e] EXCEPT !.st = "deleted"]
                        ELSE rows[e]]

SoftDelete(a) ==
    /\ items[a].st = "active"
    /\ items' = [items EXCEPT ![a].st = "deleted"]
    /\ episodes' = IF a = Show THEN Flipped(episodes) ELSE episodes
    /\ Moves

(* `db library remove` leaves the records of downloads alone.              *)
RemoveItem(a) ==
    /\ items[a].st # "absent"
    /\ items' = [items EXCEPT ![a] = NoRow]
    /\ episodes' = IF a = Show THEN [e \in Episodes |-> NoRow] ELSE episodes
    /\ Moves

ApplyEpisodes(feed, doc) ==
    /\ Show \in v_books
    /\ episodes' = [e \in Episodes |->
                       IF e \in feed THEN [st |-> "active", doc |-> doc]
                       ELSE Flipped(episodes)[e]]
    /\ Moves /\ UNCHANGED items

-----------------------------------------------------------------------------
(* A download run.                                                         *)

Runs(from, asins, external, kinds, forced, podcasts) ==
    /\ ~run.on
    /\ run' = [on |-> TRUE, from |-> from, todo |-> asins, external |-> external,
               kinds |-> kinds, forced |-> forced, podcasts |-> podcasts, still |-> TRUE]
    /\ moves < MaxMoves /\ moves' = moves + 1
    /\ UNCHANGED <<items, episodes, downloads>>

Sweep(kinds, forced, podcasts) ==
    Runs("missing", MissingDownloadAsins(kinds, Candidates(forced), FALSE, FALSE, podcasts),
         {}, kinds, forced, podcasts)

(* An unproven right among the named refuses them all.                     *)
Named(asins, hits, picked, allow, covered, kinds, include) ==
    LET resolved == ResolveAsins(asins, picked, include)
    IN /\ picked \subseteq TitleCandidates(hits, include)
       /\ ReconcileExternal(asins, allow, covered)
       /\ LapsedTitles(resolved) = {}
       /\ Runs("named", resolved, UnknownAsins(asins), kinds, FALSE, include)

(* A PDF is fetched when the stored document announces one.                *)
LibraryPdfFlag(a) ==
    IF a \in v_books THEN items[a].doc.pdf ELSE a \in v_episodes /\ episodes[a].doc.pdf

(* A leaf is done, with what its request resolved to, or has failed.       *)
DownloadOne(a, request) ==
    /\ run.on /\ a \in run.todo
    /\ \/ /\ a \in Leaves /\ request \in Candidates(run.forced)
          /\ downloads' = downloads \cup
                 {[asin |-> a, kind |-> k, request |-> IF k = "audio" THEN request ELSE ""] :
                     k \in {x \in run.kinds : x = "pdf" => LibraryPdfFlag(a)}}
          /\ run' = [run EXCEPT !.todo = @ \ {a}]
       \/ run' = [run EXCEPT !.todo = @ \ {a}, !.still = FALSE] /\ UNCHANGED downloads
    /\ UNCHANGED <<items, episodes, moves>>

Finish ==
    /\ run.on /\ run.todo = {} /\ run' = NoRun
    /\ UNCHANGED <<items, episodes, downloads, moves>>

(* `db downloads remove`.                                                  *)
Forget(a) ==
    /\ ~run.on /\ \E d \in downloads : d.asin = a
    /\ moves < MaxMoves /\ moves' = moves + 1
    /\ downloads' = {d \in downloads : d.asin # a}
    /\ UNCHANGED <<items, episodes, run>>

KindSets == {{"audio", "pdf"}, {"pdf", "chapter"}}

Next ==
    \/ \E a \in Items : (\E doc \in Docs : Upsert(a, doc)) \/ SoftDelete(a) \/ RemoveItem(a)
    \/ \E feed \in SUBSET Episodes, doc \in EpisodeDocs : ApplyEpisodes(feed, doc)
    \/ \E kinds \in KindSets, forced, podcasts \in BOOLEAN : Sweep(kinds, forced, podcasts)
    \/ \E a \in Items, allow, include \in BOOLEAN, covered \in {{}, Items} :
          Named({a}, {}, {}, allow, covered, {"audio"}, include)
    \/ \E a \in Items, include \in BOOLEAN :
          Named({}, Items, {a}, FALSE, {}, {"audio"}, include)
    \/ \E a \in Items, request \in RequestKinds : DownloadOne(a, request)
    \/ Finish
    \/ \E a \in Leaves : Forget(a)

ViewsSpec == Init /\ [][Next]_vvars

-----------------------------------------------------------------------------

(* A run works on leaves the account can have: no show, unless it is named *)
(* from outside the library; nothing the explicit path would refuse or     *)
(* resolve to something else; no podcast with --exclude-podcasts.          *)
SelectionIsDownloadable ==
    run.on /\ run.still =>
        /\ run.todo \ run.external \subseteq Leaves
        /\ LapsedTitles(run.todo) = {}
        /\ run.from = "missing" =>
              /\ UnknownAsins(run.todo) = {}
              /\ \A a \in run.todo : ResolveAsinDownload(a, run.podcasts) = {a}

(* The listing and the sweep, two queries, tell the same story where audio *)
(* is not in question: a title is listed when it or one of its episodes is *)
(* swept, unless those are archived or lapsed in their own right.          *)
ListingAgreesWithSweep ==
    LET kinds == {"pdf", "chapter"}
        listed == BooksMissing(kinds, FALSE, FALSE)
        swept == MissingDownloadAsins(kinds, RequestKinds, FALSE, FALSE, TRUE)
    IN /\ listed \cap Leaves = swept \cap v_books
       /\ swept \ v_books # {} => Show \in listed
       /\ Show \in listed => \E e \in EpisodesMissing(kinds) :
                                e \in swept \/ OwnItem(e)
================================================================================
