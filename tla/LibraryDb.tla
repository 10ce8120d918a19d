------------------------------ MODULE LibraryDb ------------------------------
(***************************************************************************)
(* The library rows of one marketplace in the per-account SQLite database, *)
(* and what each transaction of src/db/items.rs does to them.  A document  *)
(* is known by its version: the server time of the item's last change.     *)
(* Every transaction is one operator on the whole table, because SQLite    *)
(* commits it whole or not at all.                                         *)
(***************************************************************************)
EXTENDS Integers

CONSTANT Asins

\* An items row: missing, present with is_deleted = 0, or soft-deleted.
RowState == {"absent", "active", "deleted"}
Row == [st : RowState, doc : Nat]
Table == [Asins -> Row]

NoRow == [st |-> "absent", doc |-> 0]

\* The upsert writes the fresh document and clears the soft-delete flag.
Upsert(items, S, docs) ==
    [a \in Asins |-> IF a \in S THEN [st |-> "active", doc |-> docs[a]]
                                ELSE items[a]]

\* The page's UPDATE has no is_deleted guard; an unknown ASIN updates nothing.
SoftDelete(items, D) ==
    [a \in Asins |-> IF a \in D /\ items[a].st # "absent"
                     THEN [items[a] EXCEPT !.st = "deleted"] ELSE items[a]]

\* One page: the upserts first, then the soft-deletes.
ApplyPage(items, S, docs, D) == SoftDelete(Upsert(items, S, docs), D)

\* `library remove` after the server's answer: flips an active row only.
SoftDeleteItem(items, a) ==
    IF items[a].st = "active" THEN SoftDelete(items, {a}) ELSE items

\* `db library remove`: the row is gone.
RemoveItem(items, a) == [items EXCEPT ![a] = NoRow]
=============================================================================
