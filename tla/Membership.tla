------------------------------ MODULE Membership ------------------------------
(***************************************************************************)
(* What the user has at Audible and what the local library shows of it:    *)
(* `library add` and `library remove` (src/commands/library/membership.rs) *)
(* and the archive and the wishlist (src/commands/collections.rs), in one  *)
(* marketplace.  The server takes a change at once and brings it into the  *)
(* library feed later; `--sync` polls until the local rows show it.        *)
(***************************************************************************)
EXTENDS Integers, FiniteSets

CONSTANTS Asins,
          Plus,          \* \subseteq Asins: in the subscription
          Rounds,        \* REFLECT_ATTEMPT_DELAYS
          MaxCommands,   \* bound on the commands
          MaxElsewhere   \* bound on changes made in the app or on the web

VARIABLES rights,        \* what the account has of a title
          archive,       \* __ARCHIVE
          wishlist,      \* __WISHLIST
          unindexed,     \* changes that the library feed does not show yet
          feed,          \* the library feed
          delta,         \* what the next sync will be told
          row,           \* the items table
          cmd,           \* the running command, and how it ended
          others,        \* titles changed elsewhere since it began
          commands, elsewhere

mvars == <<rights, archive, wishlist, unindexed, feed, delta, row, cmd, others,
           commands, elsewhere>>

Rights == {"none", "loan", "purchase"}
Seen == [rights : Rights, archived : BOOLEAN]
Hidden == [rights |-> "none", archived |-> FALSE]
Idle == [op |-> "none", stage |-> "idle", named |-> {}, targets |-> {}, todo |-> {},
         sync |-> FALSE, rounds |-> 0]
Ops == {"add", "remove", "archive", "unarchive", "wish", "unwish"}
Stages == {"idle", "began", "looked", "change", "deleted", "poll", "look", "done", "reflected",
           "warned", "failed"}

MInit ==
    /\ rights = [a \in Asins |-> "none"] /\ archive = {} /\ wishlist = {}
    /\ unindexed = {} /\ delta = {}
    /\ feed = [a \in Asins |-> Hidden]
    /\ row = [a \in Asins |-> Hidden]
    /\ cmd = Idle /\ others = {}
    /\ commands = 0 /\ elsewhere = 0

server == <<rights, archive, wishlist, unindexed>>
view == <<feed, delta, row>>
bounds == <<others, commands, elsewhere>>

(* item_doc: the document of a title that is in the library.               *)
Present(a) == row[a].rights # "none"

-----------------------------------------------------------------------------
(* The server.                                                             *)

Changed(as) == unindexed' = unindexed \cup as

Index(a) ==
    /\ a \in unindexed
    /\ unindexed' = unindexed \ {a}
    /\ feed' = [feed EXCEPT ![a] = IF rights[a] = "none" THEN Hidden
                                   ELSE [rights |-> rights[a], archived |-> a \in archive]]
    /\ delta' = delta \cup {a}
    /\ UNCHANGED <<rights, archive, wishlist, row, cmd, bounds>>

(* A purchase, a loan or a turn in the archive in another client.          *)
Elsewhere(a) ==
    /\ elsewhere < MaxElsewhere
    /\ \/ \E r \in Rights \ {rights[a]} :
             /\ rights' = [rights EXCEPT ![a] = r]
             /\ archive' = IF r = "none" THEN archive \ {a} ELSE archive
       \/ /\ rights[a] # "none"
          /\ archive' = IF a \in archive THEN archive \ {a} ELSE archive \cup {a}
          /\ UNCHANGED rights
    /\ Changed({a})
    /\ others' = others \cup {a}
    /\ elsewhere' = elsewhere + 1
    /\ UNCHANGED <<wishlist, feed, delta, row, cmd, commands>>

(* A delta sync, of this command or of another.                            *)
Synced ==
    /\ row' = [a \in Asins |-> IF a \in delta THEN feed[a] ELSE row[a]]
    /\ delta' = {}

Sync == Synced /\ UNCHANGED <<server, feed, cmd, bounds>>

-----------------------------------------------------------------------------
(* The commands, up to their changes at the server.                        *)

Step(stage) == cmd' = [cmd EXCEPT !.stage = stage]

Ended == cmd.stage \in {"idle", "done", "reflected", "warned", "failed"}

(* The titles as they were named: verbatim ASINs, or titles found in the   *)
(* catalog, the library or the collection; none is an error.               *)
Named == (SUBSET Asins) \ {{}}

Begin(op, named, sync) ==
    /\ Ended /\ commands < MaxCommands
    /\ sync => op \notin {"remove", "wish", "unwish"}
    /\ cmd' = [Idle EXCEPT !.op = op, !.stage = "began", !.named = named, !.sync = sync]
    /\ others' = {} /\ commands' = commands + 1
    /\ UNCHANGED <<server, view, elsewhere>>

(* An answer that is no success ends the command: what was done stays.     *)
Fail ==
    /\ ~Ended
    /\ Step("failed")
    /\ UNCHANGED <<server, view, bounds>>

(* library add: what the catalog says of the account's rights.  A hollow   *)
(* echo says nothing.                                                      *)
IsBorrowable(a) == rights[a] = "loan" \/ (rights[a] = "none" /\ a \in Plus)

Eligibility ==
    /\ cmd.op = "add" /\ cmd.stage = "began"
    /\ cmd' = [cmd EXCEPT !.stage = "change", !.todo = cmd.named,
                          !.targets = {a \in cmd.named : IsBorrowable(a)}]
    /\ UNCHANGED <<server, view, bounds>>

(* PUT of one title, or not: it is here, out of --kind, owned or for sale  *)
(* only.  Those that were added remain the targets.                        *)
AddOne(a) ==
    /\ cmd.op = "add" /\ cmd.stage = "change" /\ a \in cmd.todo
    /\ \/ /\ ~Present(a) /\ a \in cmd.targets
          /\ rights' = [rights EXCEPT ![a] = IF @ = "none" THEN "loan" ELSE @]
          /\ Changed({a})
          /\ cmd' = [cmd EXCEPT !.todo = @ \ {a}]
       \/ /\ cmd' = [cmd EXCEPT !.todo = @ \ {a}, !.targets = @ \ {a}]
          /\ UNCHANGED <<rights, unindexed>>
    /\ UNCHANGED <<archive, wishlist, view, bounds>>

(* library remove: loans that the local library knows, after a question.   *)
Removable(a) == row[a].rights = "loan"

ChooseLoans ==
    /\ cmd.op = "remove" /\ cmd.stage = "began"
    /\ LET loans == {a \in cmd.named : Removable(a)} IN
          cmd' = [cmd EXCEPT !.targets = loans, !.todo = loans,
                             !.stage = IF loans = {} THEN "done" ELSE "looked"]
    /\ UNCHANGED <<server, view, bounds>>

(* remove_from_archive, by the archive's own items.                        *)
RemoveFromArchive ==
    /\ cmd.op = "remove" /\ cmd.stage = "looked"
    /\ archive' = archive \ cmd.targets
    /\ Changed(archive \cap cmd.targets)
    /\ Step("change")
    /\ UNCHANGED <<rights, wishlist, view, bounds>>

(* DELETE of one title; the server clears the archive, too.                *)
DeleteOne(a) ==
    /\ cmd.op = "remove" /\ cmd.stage = "change" /\ a \in cmd.todo
    /\ rights' = [rights EXCEPT ![a] = IF @ = "loan" THEN "none" ELSE @]
    /\ archive' = IF rights[a] = "loan" THEN archive \ {a} ELSE archive
    /\ Changed({a})
    /\ cmd' = [cmd EXCEPT !.stage = "deleted", !.targets = {a}, !.todo = @ \ {a}]
    /\ UNCHANGED <<wishlist, view, bounds>>

(* soft_delete_item, without a sync.                                       *)
SoftDeleteItem ==
    /\ cmd.stage = "deleted"
    /\ row' = [a \in Asins |-> IF a \in cmd.targets THEN Hidden ELSE row[a]]
    /\ Step("change")
    /\ UNCHANGED <<server, feed, delta, bounds>>

(* collections: what the list holds is left out of an add, and what it does*)
(* not hold out of a removal.                                              *)
Collection == IF cmd.op \in {"archive", "unarchive"} THEN archive ELSE wishlist

Adding == cmd.op \in {"archive", "wish"}

ResolveRemovals == cmd.named \cap Collection

LookAtItems ==
    /\ cmd.op \in {"archive", "unarchive", "wish", "unwish"} /\ cmd.stage = "began"
    /\ LET chosen == IF Adding THEN cmd.named \ Collection ELSE ResolveRemovals IN
          cmd' = [cmd EXCEPT !.targets = chosen,
                             !.stage = IF chosen # {} THEN "looked"
                                       ELSE IF Adding THEN "done" ELSE "failed"]
    /\ UNCHANGED <<server, view, bounds>>

(* The fresh state token, and the batched POST or DELETE.                  *)
MutateItems ==
    /\ cmd.op \in {"archive", "unarchive", "wish", "unwish"} /\ cmd.stage = "looked"
    /\ LET after == IF Adding THEN Collection \cup cmd.targets ELSE Collection \ cmd.targets IN
          IF cmd.op \in {"archive", "unarchive"}
          THEN archive' = after /\ Changed(cmd.targets) /\ UNCHANGED wishlist
          ELSE wishlist' = after /\ UNCHANGED <<archive, unindexed>>
    /\ Step("change")
    /\ UNCHANGED <<rights, view, bounds>>

-----------------------------------------------------------------------------
(* poll_until_reflected.                                                   *)

(* Without --sync, and without a change, there is nothing to wait for.     *)
Polls == cmd.sync /\ cmd.targets # {}

Changes ==
    /\ cmd.stage = "change" /\ cmd.todo = {}
    /\ Step(IF Polls THEN "poll" ELSE "done")
    /\ UNCHANGED <<server, view, bounds>>

(* One round: a sync that fails ends the command.                          *)
Poll ==
    /\ cmd.stage = "poll"
    /\ Synced
    /\ cmd' = [cmd EXCEPT !.stage = "look", !.rounds = @ + 1]
    /\ UNCHANGED <<server, feed, bounds>>

(* Seeded fault: any document will do.                                     *)
ReflectedAnyhow(a) == cmd.op = "add" => Present(a)

(* A title without a row cannot be verified, and counts as archived or not,*)
(* as wanted.                                                              *)
Reflected(a) ==
    IF cmd.op = "add" THEN Present(a) ELSE Present(a) => (row[a].archived <=> Adding)

LookAtRows ==
    /\ cmd.stage = "look"
    /\ Step(IF \A a \in cmd.targets : Reflected(a) THEN "reflected"
            ELSE IF cmd.rounds < Rounds THEN "poll" ELSE "warned")
    /\ UNCHANGED <<server, view, bounds>>

MNext ==
    \/ \E a \in Asins : Index(a) \/ Elsewhere(a) \/ AddOne(a) \/ DeleteOne(a)
    \/ \E op \in Ops, named \in Named, sync \in BOOLEAN : Begin(op, named, sync)
    \/ Sync \/ Fail \/ Eligibility \/ ChooseLoans \/ RemoveFromArchive \/ SoftDeleteItem
    \/ LookAtItems \/ MutateItems \/ Changes \/ Poll \/ LookAtRows

MSpec == MInit /\ [][MNext]_mvars

-----------------------------------------------------------------------------
(* The variables stay in their sets, whatever the steps.                   *)
MTypeOK ==
    /\ rights \in [Asins -> Rights] /\ archive \subseteq Asins /\ wishlist \subseteq Asins
    /\ unindexed \subseteq Asins /\ delta \subseteq Asins /\ others \subseteq Asins
    /\ feed \in [Asins -> Seen] /\ row \in [Asins -> Seen]
    /\ cmd.op \in Ops \cup {"none"} /\ cmd.stage \in Stages /\ cmd.rounds \in 0..Rounds

(* What `--sync` has reported as reflected stays so while nobody changes   *)
(* the title elsewhere, whatever the feed still has to show: of a change   *)
(* that was undone and made again, the row never shows the undoing (the    *)
(* comment of sync_or_hint: the flip lands as a no-op).                    *)
ReflectedStays ==
    cmd.stage = "reflected" =>
        \A a \in cmd.targets \ others :
            /\ cmd.op = "add" => Present(a)
            /\ cmd.op = "archive" => row[a].archived \/ ~Present(a)
            /\ cmd.op = "unarchive" => ~row[a].archived
===============================================================================
