------------------------------- MODULE AppTokens -------------------------------
(***************************************************************************)
(* The agent's app tokens (src/session/tokens.rs): `agent token create`    *)
(* and `revoke` rewrite agent-tokens.json, without a lock and in place; the*)
(* running agent looks presented tokens up in a cache it renews when the   *)
(* modification time of the file has moved.                                *)
(***************************************************************************)
EXTENDS Integers

CONSTANTS Labels,       \* names of app tokens
          Editors,      \* commands that may run at once
          Lookups,      \* requests the agent authenticates at once
          Coarse,       \* whether two writes may fall into one tick of mtime
          MaxWrites     \* bound on writes to the file

VARIABLES
    file,     \* the file: its records, unless it is just truncated; its mtime
    cache,    \* what the agent has cached, and under which mtime
    editor,   \* each command's locals
    look,     \* each lookup's locals
    writes    \* writes so far (bound)

kvars == <<file, cache, editor, look, writes>>

Done == [at |-> "idle", label |-> CHOOSE l \in Labels : TRUE, records |-> {}]
NoLook == [at |-> "idle", label |-> CHOOSE l \in Labels : TRUE, tick |-> 0,
           records |-> {}, quiet |-> FALSE, found |-> FALSE]

(* The variables stay in their sets, whatever the steps.                   *)
TokensTypeOK ==
    /\ file \in [records : SUBSET Labels, whole : BOOLEAN, tick : 0 .. MaxWrites]
    /\ cache \in [records : SUBSET Labels, tick : 0 .. MaxWrites, filled : BOOLEAN]
    /\ editor \in [Editors -> [at : {"idle", "loaded", "truncated"}, label : Labels,
                               records : SUBSET Labels]]
    /\ look \in [Lookups -> [at : {"idle", "stat", "read"}, label : Labels,
                             records : SUBSET Labels, tick : 0 .. MaxWrites,
                             quiet : BOOLEAN, found : BOOLEAN]]
    /\ writes \in 0 .. MaxWrites

TInit ==
    /\ file = [records |-> {}, whole |-> TRUE, tick |-> 0]
    /\ cache = [records |-> {}, tick |-> 0, filled |-> FALSE]
    /\ editor = [e \in Editors |-> Done]
    /\ look = [k \in Lookups |-> NoLook]
    /\ writes = 0

(* A truncated file does not parse.  The commands give up on one; the      *)
(* agent takes it for an empty list.                                       *)
Load == IF file.whole THEN file.records ELSE {}

Ticks == IF Coarse THEN {file.tick, file.tick + 1} ELSE {file.tick + 1}

(* Every write stamps the file; lookups in flight may see either version.  *)
Write(whole, records) ==
    /\ writes < MaxWrites /\ writes' = writes + 1
    /\ \E t \in Ticks : file' = [records |-> records, whole |-> whole, tick |-> t]
    /\ look' = [k \in Lookups |-> [look[k] EXCEPT !.quiet = FALSE]]
    /\ UNCHANGED cache

(* A duplicate label is refused.                                           *)
Create(e, l) ==
    /\ editor[e].at = "idle" /\ file.whole /\ l \notin file.records
    /\ editor' = [editor EXCEPT ![e] = [at |-> "loaded", label |-> l,
                                        records |-> file.records \cup {l}]]
    /\ UNCHANGED <<file, cache, look, writes>>

(* Nothing is written when nothing goes.                                   *)
Revoke(e, l) ==
    /\ editor[e].at = "idle" /\ file.whole /\ l \in file.records
    /\ editor' = [editor EXCEPT ![e] = [at |-> "loaded", label |-> l,
                                        records |-> file.records \ {l}]]
    /\ UNCHANGED <<file, cache, look, writes>>

(* write_private: open with truncation, then the bytes.                    *)
Truncate(e) ==
    /\ editor[e].at = "loaded"
    /\ Write(FALSE, {})
    /\ editor' = [editor EXCEPT ![e].at = "truncated"]

Save(e) ==
    /\ editor[e].at = "truncated"
    /\ Write(TRUE, editor[e].records)
    /\ editor' = [editor EXCEPT ![e] = Done]

-----------------------------------------------------------------------------

(* The modification time is read first, without the cache's mutex.         *)
LookupStat(k, l) ==
    /\ look[k].at = "idle"
    /\ look' = [look EXCEPT ![k] = [NoLook EXCEPT !.at = "stat", !.label = l,
                                    !.tick = file.tick, !.quiet = file.whole]]
    /\ UNCHANGED <<file, cache, editor, writes>>

Stale(k) == ~cache.filled \/ cache.tick # look[k].tick

(* Under the mutex: the file if the cache is stale.                        *)
LookupRead(k) ==
    /\ look[k].at = "stat"
    /\ \A other \in Lookups : look[other].at # "read"
    /\ look' = [look EXCEPT ![k].at = "read",
                           ![k].records = IF Stale(k) THEN Load ELSE cache.records]
    /\ UNCHANGED <<file, cache, editor, writes>>

(* Seeded fault: the time is taken after the file has been read.           *)
CachedUnderNow(k) == file.tick

CachedUnder(k) == look[k].tick

LookupAnswer(k) ==
    /\ look[k].at = "read"
    /\ cache' = [filled |-> TRUE, records |-> look[k].records,
                 tick |-> IF Stale(k) THEN CachedUnder(k) ELSE cache.tick]
    /\ look' = [look EXCEPT ![k] = [NoLook EXCEPT
                   !.label = look[k].label, !.found = look[k].label \in look[k].records]]
    /\ UNCHANGED <<file, editor, writes>>

TNext ==
    \/ \E e \in Editors, l \in Labels : Create(e, l) \/ Revoke(e, l)
    \/ \E e \in Editors : Truncate(e) \/ Save(e)
    \/ \E k \in Lookups, l \in Labels : LookupStat(k, l)
    \/ \E k \in Lookups : LookupRead(k) \/ LookupAnswer(k)

TokenSpec == TInit /\ [][TNext]_kvars

-----------------------------------------------------------------------------

(* tokens.rs:89-92: create and revoke take effect without a restart: a     *)
(* lookup during which nobody writes answers by what the file says.        *)
LookupSeesLastWrite ==
    [][\A k \in Lookups :
          LookupAnswer(k) /\ look[k].quiet
          => (look'[k].found <=> look[k].label \in file.records)]_kvars
================================================================================
