------------------------------ MODULE RequestFiles ------------------------------
(***************************************************************************)
(* `audible api` and its request files (src/commands/api/).  A request is  *)
(* composed from flags, a request file or prompts; it is sent, or saved to *)
(* a file that is loaded and sent later.  Texts may hold a placeholder, or *)
(* one that is escaped; headers obey the rules of the query.               *)
(***************************************************************************)
EXTENDS Integers, SequencesExt

CONSTANTS QueryKeys,     \* query keys
          Values,        \* of --var and [vars]
          Composers,     \* \subseteq {"flags", "prompts"}
          BodyPaths,     \* \subseteq {"absolute", "relative"}: of body files
          MaxPairs       \* bound on the query parameters of each source

VARIABLES stage,         \* "compose", "save", "replay", "end"
          composer,
          file,          \* the loaded request file
          args,          \* what the flags, or the prompts, say
          saved,         \* the file that was written
          outcome        \* what the replay sends

rvars == <<stage, composer, file, args, saved, outcome>>

None == "none"
Texts == {"plain", "{{x}}", "escaped {{x}}"}
Pairs == QueryKeys \X Texts
Vars == Values \cup {None}                  \* of x
Body == Texts \cup BodyPaths \cup {None}
ContentType == {"json", "raw"}
RequestFile == [query : UNION {[ks -> Texts] : ks \in SUBSET QueryKeys}, body : Body,
                content_type : ContentType, vars : Vars]
NoFile == [query |-> <<>>, body |-> None, content_type |-> "json", vars |-> None]
Args == [query : SeqOf(Pairs, MaxPairs), body : Body, content_type : ContentType, vars : Vars]

(* What becomes of a text, and of a request.                               *)
Itself(text) == [means |-> "itself", of |-> text]
Value(x) == [means |-> "value", of |-> x]
Missing == [means |-> "missing", of |-> None]
Failed == [sent |-> FALSE, query |-> {}, body |-> Itself(None), content_type |-> "json"]

-----------------------------------------------------------------------------
(* request_file.rs.                                                        *)

QueryAsStrings(map) == SetToSeq({<<k, map[k]>> : k \in DOMAIN map})

(* A map of pairs, the last of a key counts.                               *)
Collected(pairs) ==
    [k \in {p[1] : p \in ToSet(pairs)} |-> SelectLastInSeq(pairs, LAMBDA p : p[1] = k)]

MapOf(pairs) == [k \in DOMAIN Collected(pairs) |-> pairs[Collected(pairs)[k]][2]]

(* Seeded fault: the last value of a key is kept.                          *)
LastValueWins(pairs) == {MapOf(pairs)}

(* One value per key: a key with two is refused.                           *)
ParseQueryStrings(pairs) ==
    IF \A p, q \in ToSet(pairs) : p[1] = q[1] => p = q THEN {MapOf(pairs)} ELSE {}

(* [vars], overlaid by --var.                                              *)
CollectVars(f, a) == IF a.vars # None THEN a.vars ELSE f.vars

(* A placeholder takes its variable's value, or is missing; an escape is   *)
(* undone.                                                                 *)
Render(text, x) ==
    CASE text = "{{x}}" -> IF x = None THEN Missing ELSE Value(x)
      [] text = "escaped {{x}}" -> Itself("{{x}}")
      [] OTHER -> Itself(text)

-----------------------------------------------------------------------------
(* run: the request before substitution.  Any body input of the flags      *)
(* replaces the file's; a file's relative body file is beside it.          *)
CliBody(a) == a.body # None \/ a.content_type = "raw"

ResolveBodyPath(body) == IF body = "relative" THEN "beside the request" ELSE body

Composed(f, a) ==
    [query |-> QueryAsStrings(f.query) \o a.query,
     body |-> IF CliBody(a) THEN a.body ELSE ResolveBodyPath(f.body),
     content_type |-> IF CliBody(a) THEN a.content_type ELSE f.content_type,
     vars |-> CollectVars(f, a)]

(* finalize_body, classify_body: a type without a body fails.              *)
Finalized(query, body, content_type) ==
    IF body = Itself(None) /\ content_type = "raw" THEN Failed
    ELSE [sent |-> TRUE, query |-> query, body |-> body, content_type |-> content_type]

(* merge_query: repeats of a key stay, an exact repeat is dropped.         *)
MergeQuery(pairs) == ToSet(pairs)

(* What a composed request sends.                                          *)
Sent(spec) ==
    LET query == {<<p[1], Render(p[2], spec.vars)>> : p \in MergeQuery(spec.query)}
        body == Render(spec.body, spec.vars)
    IN IF body = Missing \/ \E p \in query : p[2] = Missing THEN Failed
       ELSE Finalized(query, body, spec.content_type)

(* What the prompts compose is sent as it was typed.                       *)
SentVerbatim(a) ==
    Finalized({<<p[1], Itself(p[2])>> : p \in MergeQuery(a.query)}, Itself(a.body), a.content_type)

Original == IF composer = "flags" THEN Sent(Composed(file, args)) ELSE SentVerbatim(args)

-----------------------------------------------------------------------------
RInit ==
    /\ stage = "compose" /\ composer \in Composers
    /\ file = NoFile /\ args = NoFile
    /\ saved = NoFile /\ outcome = Failed

(* The flags with or without --request-file, or the prompts: these take a  *)
(* content type only with a body, and read a body file at once.            *)
Compose ==
    /\ stage = "compose"
    /\ args' \in IF composer = "flags" THEN Args
                 ELSE {a \in Args : a.vars = None /\ a.body \notin BodyPaths
                                     /\ (a.body = None => a.content_type = "json")}
    /\ file' \in IF composer = "flags" THEN RequestFile ELSE {NoFile}
    /\ stage' = "save"
    /\ UNCHANGED <<composer, saved, outcome>>

(* --save-request: the request before substitution.                        *)
SaveRequest ==
    /\ stage = "save" /\ composer = "flags"
    /\ LET spec == Composed(file, args) IN
          IF ParseQueryStrings(spec.query) = {} THEN stage' = "end" /\ UNCHANGED saved
          ELSE /\ saved' \in {[spec EXCEPT !.query = map] : map \in ParseQueryStrings(spec.query)}
               /\ stage' = "replay"
    /\ UNCHANGED <<composer, file, args, outcome>>

(* request_file_from_parts: what the prompts composed.                     *)
SaveFromParts ==
    /\ stage = "save" /\ composer = "prompts"
    /\ saved' = [NoFile EXCEPT !.query = MapOf(args.query), !.body = args.body,
                               !.content_type = args.content_type]
    /\ stage' = "replay"
    /\ UNCHANGED <<composer, file, args, outcome>>

(* A later `api --request-file` without more flags.                        *)
Replay ==
    /\ stage = "replay"
    /\ outcome' = Sent(Composed(saved, NoFile))
    /\ stage' = "end"
    /\ UNCHANGED <<composer, file, args, saved>>

RNext == Compose \/ SaveRequest \/ SaveFromParts \/ Replay

RSpec == RInit /\ [][RNext]_rvars

-----------------------------------------------------------------------------
(* A saved request replays as the one that was composed would have been    *)
(* sent, or it is not saved (the comment of parse_query_strings).          *)
SavedReplays ==
    stage = "end" /\ saved # NoFile => outcome = Original
=============================================================================
