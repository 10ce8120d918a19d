-------------------------------- MODULE FairPlay --------------------------------
(***************************************************************************)
(* The FairPlay store (src/commands/fairplay/, src/fairplay/license.rs):   *)
(* `fairplay download` gets a license, lets the system download a package, *)
(* writes its keys, moves it into the store and saves the whole index it   *)
(* read when it began; `fairplay play` plays a package with its keys and   *)
(* writes the renewed ones back when it ends.  Nothing locks the store.    *)
(***************************************************************************)
EXTENDS Naturals, FiniteSets

CONSTANTS Titles, Procs,
          Formats,     \* what may be granted: each has a content id of its own
          MaxRuns      \* commands begun

VARIABLES index,       \* index.json: title -> entry or NoEntry
          package,     \* package[t][place]: a package, or nothing
          keys,        \* keys[t]: the content ids of the key file
          proc, runs

fpvars == <<index, package, keys, proc, runs>>

(* The store's own path, the partial copy beside it, the system's cache    *)
(* (one place per download: per command), and where an earlier layout      *)
(* left packages.                                                          *)
Places == {"target", "partial", "earlier"} \cup Procs
NoPackage == [format |-> "none", whole |-> FALSE]
Package == [format : Formats \cup {"none"}, whole : BOOLEAN]
NoEntry == [format |-> "none", place |-> "target"]
Entry == [format : Formats \cup {"none"}, place : {"target", "earlier"}]

Steps == {"idle", "next", "license", "certificate", "transfer", "keys", "displace", "move",
          "copy", "copied", "clean", "record", "save", "playing"}
Idle == [at |-> "idle", todo |-> {}, index |-> [t \in Titles |-> NoEntry], force |-> FALSE,
         single |-> FALSE, title |-> CHOOSE t \in Titles : TRUE, format |-> "none", keys |-> {}]

At(p, at) == proc[p].at = at
Goto(p, at) == proc' = [proc EXCEPT ![p].at = at]
End(p) == proc' = [proc EXCEPT ![p] = Idle]
Begun == runs < MaxRuns /\ runs' = runs + 1

(* The variables stay in their sets, whatever the steps.                   *)
TypeOK ==
    /\ index \in [Titles -> Entry]
    /\ package \in [Titles -> [Places -> Package]]
    /\ keys \in [Titles -> SUBSET Formats]
    /\ \A p \in Procs :
          /\ proc[p].at \in Steps /\ proc[p].todo \subseteq Titles
          /\ proc[p].index \in [Titles -> Entry] /\ proc[p].keys \subseteq Formats
    /\ runs \in 0..MaxRuns

Exists(t, place) == package[t][place] # NoPackage

(* A store without titles, or with one an earlier layout recorded.         *)
FInit ==
    /\ \E t \in Titles, f \in Formats, old \in BOOLEAN :
          LET has(u) == old /\ u = t IN
          /\ index = [u \in Titles |-> IF has(u) THEN [format |-> f, place |-> "earlier"] ELSE NoEntry]
          /\ package = [u \in Titles |-> [x \in Places |-> IF has(u) /\ x = "earlier"
                           THEN [format |-> f, whole |-> TRUE] ELSE NoPackage]]
          /\ keys = [u \in Titles |-> IF has(u) THEN {f} ELSE {}]
    /\ proc = [p \in Procs |-> Idle] /\ runs = 0

-----------------------------------------------------------------------------
(* fairplay download.                                                      *)

(* The index is read once, before the titles are resolved; --missing       *)
(* leaves out those whose package exists.                                  *)
Missing(ts) == {t \in ts : ~(index[t] # NoEntry /\ Exists(t, index[t].place))}

Download(p, asked, missing, force) ==
    /\ At(p, "idle") /\ Begun
    /\ LET todo == IF missing THEN Missing(asked) ELSE asked IN
       proc' = [proc EXCEPT ![p] = [Idle EXCEPT !.at = "next", !.todo = todo, !.index = index,
                                    !.force = force, !.single = Cardinality(todo) = 1]]
    /\ UNCHANGED <<index, package, keys>>

Done(p) ==
    /\ At(p, "next") /\ proc[p].todo = {}
    /\ End(p)
    /\ UNCHANGED <<index, package, keys, runs>>

(* Ctrl-C between two titles.                                              *)
Interrupt(p) ==
    /\ At(p, "next") /\ proc[p].todo # {}
    /\ End(p)
    /\ UNCHANGED <<index, package, keys, runs>>

Next1(p, t) ==
    /\ At(p, "next") /\ t \in proc[p].todo
    /\ LET entry == proc[p].index[t] IN
       IF entry # NoEntry /\ ~proc[p].force /\ Exists(t, entry.place)
       THEN proc' = [proc EXCEPT ![p].todo = @ \ {t}]
       ELSE proc' = [proc EXCEPT ![p].title = t, ![p].at = "license"]
    /\ UNCHANGED <<index, package, keys, runs>>

(* An error ends a run of one title and is counted by a longer one.        *)
Fail(p) == IF proc[p].single THEN End(p)
           ELSE proc' = [proc EXCEPT ![p].at = "next", ![p].todo = @ \ {proc[p].title}]

(* Granted (the certificate inline or not), or denied, of another DRM,     *)
(* without an HTTPS playlist, rejected.                                    *)
RequestLicense(p, f, inline) ==
    /\ At(p, "license")
    /\ proc' = [proc EXCEPT ![p].format = f, ![p].at = IF inline THEN "transfer" ELSE "certificate"]
    /\ UNCHANGED <<index, package, keys, runs>>

Refused(p) ==
    /\ At(p, "license") \/ At(p, "certificate")
    /\ Fail(p)
    /\ UNCHANGED <<index, package, keys, runs>>

RequestCertificate(p) ==
    /\ At(p, "certificate") /\ Goto(p, "transfer")
    /\ UNCHANGED <<index, package, keys, runs>>

(* driver::download, step by step in KeySession.                           *)
Transfer(p) ==
    /\ At(p, "transfer") /\ Goto(p, "keys")
    /\ package' = [package EXCEPT ![proc[p].title][p] = [format |-> proc[p].format, whole |-> TRUE]]
    /\ UNCHANGED <<index, keys, runs>>

TransferFails(p) ==
    /\ At(p, "transfer") /\ Fail(p)
    /\ package' = [package EXCEPT ![proc[p].title][p] = NoPackage]
    /\ UNCHANGED <<index, keys, runs>>

WriteKeys(p) ==
    /\ At(p, "keys") /\ Goto(p, "displace")
    /\ keys' = [keys EXCEPT ![proc[p].title] = {proc[p].format}]
    /\ UNCHANGED <<index, package, runs>>

(* adopt_package: the earlier package goes, the new one is renamed, or     *)
(* copied to a partial name, renamed, and removed where it came from.      *)
Displace(p) ==
    /\ At(p, "displace") /\ Goto(p, "move")
    /\ package' = [package EXCEPT ![proc[p].title]["target"] = NoPackage]
    /\ UNCHANGED <<index, keys, runs>>

Move(p) ==
    LET t == proc[p].title IN
    /\ At(p, "move") /\ Goto(p, "record")
    /\ Exists(t, p) /\ ~Exists(t, "target")
    /\ package' = [package EXCEPT ![t]["target"] = package[t][p], ![t][p] = NoPackage]
    /\ UNCHANGED <<index, keys, runs>>

(* Seeded fault: the copy goes straight to the package's name.             *)
BeginCopyInPlace(p) ==
    LET t == proc[p].title IN
    /\ At(p, "move") /\ Goto(p, "copied")
    /\ package' = [package EXCEPT ![t]["target"] = [format |-> proc[p].format, whole |-> FALSE]]
    /\ UNCHANGED <<index, keys, runs>>

BeginCopy(p) ==
    LET t == proc[p].title IN
    /\ At(p, "move") /\ Goto(p, "copy")
    /\ package' = [package EXCEPT ![t]["partial"] = [format |-> proc[p].format, whole |-> FALSE]]
    /\ UNCHANGED <<index, keys, runs>>

EndCopy(p) ==
    LET t == proc[p].title IN
    /\ At(p, "copy") /\ Goto(p, "copied")
    /\ package' = [package EXCEPT ![t]["partial"] = [format |-> proc[p].format, whole |-> TRUE]]
    /\ UNCHANGED <<index, keys, runs>>

RenameCopy(p) ==
    LET t == proc[p].title IN
    /\ At(p, "copied") /\ Goto(p, "clean")
    /\ Exists(t, "partial") /\ ~Exists(t, "target")
    /\ package' = [package EXCEPT ![t]["target"] = package[t]["partial"], ![t]["partial"] = NoPackage]
    /\ UNCHANGED <<index, keys, runs>>

RemoveSource(p) ==
    /\ At(p, "clean") /\ Goto(p, "record")
    /\ package' = [package EXCEPT ![proc[p].title][p] = NoPackage]
    /\ UNCHANGED <<index, keys, runs>>

(* The disk fills, a directory cannot be removed: the title fails, and the *)
(* downloaded package with it if it was to be adopted.                     *)
DiskFails(p) ==
    LET t == proc[p].title IN
    /\ \E at \in {"keys", "displace", "copy", "copied", "clean"} : At(p, at)
    /\ Fail(p)
    /\ package' = IF At(p, "keys") THEN package ELSE [package EXCEPT ![t][p] = NoPackage]
    /\ UNCHANGED <<index, keys, runs>>

(* The entry's package elsewhere is removed; then the index of this run    *)
(* is saved, as it was read and with its own entries.                      *)
Record(p) ==
    LET t == proc[p].title IN
    /\ At(p, "record") /\ Goto(p, "save")
    /\ package' = [package EXCEPT ![t][proc[p].index[t].place] =
                      IF proc[p].index[t].place = "target" THEN @ ELSE NoPackage]
    /\ UNCHANGED <<index, keys, runs>>

Save(p) ==
    LET t == proc[p].title
        mine == [proc[p].index EXCEPT ![t] = [format |-> proc[p].format, place |-> "target"]] IN
    /\ At(p, "save")
    /\ index' = mine
    /\ proc' = [proc EXCEPT ![p].index = mine, ![p].todo = @ \ {t}, ![p].at = "next"]
    /\ UNCHANGED <<package, keys, runs>>

-----------------------------------------------------------------------------
(* fairplay play: the keys are read when it begins; a renewed one and all  *)
(* that were read are written when it ends.                                *)
Play(p, t) ==
    /\ At(p, "idle") /\ Begun
    /\ index[t] # NoEntry /\ Exists(t, index[t].place) /\ keys[t] # {}
    /\ proc' = [proc EXCEPT ![p] = [Idle EXCEPT !.at = "playing", !.title = t, !.keys = keys[t]]]
    /\ UNCHANGED <<index, package, keys>>

EndPlay(p, renewed) ==
    /\ At(p, "playing") /\ End(p)
    /\ keys' = IF renewed THEN [keys EXCEPT ![proc[p].title] = proc[p].keys] ELSE keys
    /\ UNCHANGED <<index, package, runs>>

(* The command is killed; macOS purges a package.                          *)
Killed(p) ==
    /\ ~At(p, "idle") /\ End(p)
    /\ UNCHANGED <<index, package, keys, runs>>

Purge(t, place) ==
    /\ Exists(t, place)
    /\ package' = [package EXCEPT ![t][place] = NoPackage]
    /\ UNCHANGED <<index, keys, proc, runs>>

FNext ==
    \/ \E p \in Procs :
          \/ \E asked \in (SUBSET Titles) \ {{}}, missing, force \in BOOLEAN :
                Download(p, asked, missing, force)
          \/ Done(p) \/ Interrupt(p)
          \/ \E t \in Titles : Next1(p, t) \/ Play(p, t)
          \/ \E f \in Formats, inline \in BOOLEAN : RequestLicense(p, f, inline)
          \/ Refused(p) \/ RequestCertificate(p) \/ Transfer(p) \/ TransferFails(p)
          \/ WriteKeys(p) \/ Displace(p) \/ Move(p) \/ BeginCopy(p) \/ EndCopy(p)
          \/ RenameCopy(p) \/ RemoveSource(p) \/ DiskFails(p) \/ Record(p) \/ Save(p)
          \/ \E renewed \in BOOLEAN : EndPlay(p, renewed)
          \/ Killed(p)
    \/ \E t \in Titles, place \in Places : Purge(t, place)

FSpec == FInit /\ [][FNext]_fpvars

-----------------------------------------------------------------------------
(* A package under its name in the store is whole: no copy that broke off  *)
(* looks complete (store.rs, adopt_package).                               *)
PackageIsWhole == \A t \in Titles : Exists(t, "target") => package[t]["target"].whole

=============================================================================
