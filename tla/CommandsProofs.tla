---------------------------- MODULE CommandsProofs ----------------------------
(***************************************************************************)
(* Safety of the commands that keep state of their own, proved for every   *)
(* number of commands, titles, qualities, plugin contents and Amazon's     *)
(* timings: consent and names of plugins, the pauses of the sign-in, whole *)
(* FairPlay packages, audio that is downloaded once, and releases that are *)
(* not hidden.  One section for each, with its inductive invariant, the    *)
(* lemmas of its steps, and the theorem.                                   *)
(***************************************************************************)
EXTENDS MCCommands, DbRestoreProofs, FiniteSetTheorems, TLAPS

-----------------------------------------------------------------------------
(* Plugins: no code of a download runs before the user agreed.             *)

(* The fields of a command.                                                *)
ProcFields == {"at", "file", "content", "symlink", "remote", "agreed", "executed",
               "broken", "broker"}

(* A command past its first question has the user's consent.               *)
Consented(r) ==
    /\ DOMAIN r = ProcFields
    /\ r.remote /\ r.executed => r.agreed
    /\ r.remote /\ r.at # "ask probe" => r.agreed
    /\ r.at = "ask probe" => ~r.executed

(* The inductive invariant.                                                *)
AllConsented == DOMAIN proc = Procs /\ \A p \in Procs : Consented(proc[p])

(* A command that is done, or begins with a file of this machine.          *)
LEMMA IdleConsents ==
  ASSUME NEW r, DOMAIN r = ProcFields, r.remote = FALSE, r.at # "ask probe"
  PROVE  Consented(r)
  BY DEF Consented

(* A command that is done.                                                 *)
LEMMA IdleFields ==
  /\ DOMAIN G!Idle = ProcFields /\ G!Idle.at = "idle"
  /\ G!Idle.remote = FALSE /\ G!Idle.executed = FALSE /\ G!Idle.file = "audible-a"
  BY DEF G!Idle, ProcFields

(* One command moves.                                                      *)
LEMMA ConsentStep ==
  ASSUME AllConsented, NEW p \in Procs, NEW r, proc' = [proc EXCEPT ![p] = r], Consented(r)
  PROVE  AllConsented'
<1>1. DOMAIN proc' = Procs /\ \A q \in Procs : Consented(proc'[q])
  BY DEF AllConsented
<1> QED
  BY <1>1 DEF AllConsented, Consented

(* A command goes on without anything new to agree to.                     *)
LEMMA ConsentGoesOn ==
  ASSUME AllConsented, NEW p \in Procs, proc[p].at # "ask probe",
         NEW r, proc' = [proc EXCEPT ![p] = r], DOMAIN r = ProcFields,
         r.remote = proc[p].remote, r.agreed = proc[p].agreed, r.at # "ask probe"
  PROVE  AllConsented'
<1>1. Consented(r)
  BY DEF AllConsented, Consented
<1> QED
  BY <1>1, ConsentStep

(* A command that goes on to a named step.                                 *)
LEMMA ConsentGoto ==
  ASSUME AllConsented, NEW p \in Procs, proc[p].at # "ask probe",
         NEW stage, stage # "ask probe", G!Goto(p, stage)
  PROVE  AllConsented'
<1> DEFINE r == [proc[p] EXCEPT !.at = stage]
<1>1. /\ DOMAIN r = ProcFields /\ r.remote = proc[p].remote /\ r.agreed = proc[p].agreed
      /\ r.at = stage
  BY DEF AllConsented, Consented, ProcFields
<1>2. proc' = [proc EXCEPT ![p] = r]
  BY DEF G!Goto, AllConsented
<1> HIDE DEF r
<1> QED
  BY <1>1, <1>2, ConsentGoesOn

(* A command that ends.                                                    *)
LEMMA ConsentEnd ==
  ASSUME AllConsented, NEW p \in Procs, G!End(p)
  PROVE  AllConsented'
<1>1. Consented(G!Idle)
  BY IdleFields, IdleConsents
<1> QED
  BY <1>1, ConsentStep DEF G!End

(* The commands of `plugin add`.                                           *)
LEMMA AddConsents ==
  ASSUME AllConsented, NEW p \in Procs, NEW f, NEW symlink, G!Add(p, f, symlink)
  PROVE  AllConsented'
<1> DEFINE r == [G!Idle EXCEPT !.at = "probe", !.file = f, !.symlink = symlink]
<1>1. DOMAIN r = ProcFields /\ r.remote = FALSE /\ r.at = "probe"
  BY IdleFields DEF ProcFields
<1>2. proc' = [proc EXCEPT ![p] = r]
  BY DEF G!Add
<1> HIDE DEF r
<1> QED
  BY <1>1, <1>2, IdleConsents, ConsentStep

(* A download waits for the first question and has run nothing.            *)
LEMMA FetchConsents ==
  ASSUME AllConsented, NEW p \in Procs, NEW f, NEW content, G!Fetch(p, f, content)
  PROVE  AllConsented'
<1> DEFINE r == [G!Idle EXCEPT !.at = "ask probe", !.file = f, !.remote = TRUE,
                               !.content = [content EXCEPT !.exec = TRUE]]
<1>1. DOMAIN r = ProcFields /\ r.executed = FALSE /\ r.at = "ask probe"
  BY IdleFields DEF ProcFields
<1>2. Consented(r)
  BY <1>1 DEF Consented
<1>3. proc' = [proc EXCEPT ![p] = r]
  BY DEF G!Fetch
<1> HIDE DEF r
<1> QED
  BY <1>2, <1>3, ConsentStep

(* The first yes is remembered; the second comes after it.                 *)
LEMMA AgreeConsents ==
  ASSUME AllConsented, NEW p \in Procs, G!Agree(p)
  PROVE  AllConsented'
<1>1. CASE G!At(p, "ask probe") /\ proc' = [proc EXCEPT ![p].at = "probe first", ![p].agreed = TRUE]
  <2> DEFINE r == [proc[p] EXCEPT !.at = "probe first", !.agreed = TRUE]
  <2>1. DOMAIN r = ProcFields /\ r.at = "probe first" /\ r.agreed = TRUE
    BY DEF AllConsented, Consented, ProcFields
  <2>2. Consented(r)
    BY <2>1 DEF Consented
  <2>3. proc' = [proc EXCEPT ![p] = r]
    BY <1>1 DEF AllConsented
  <2> HIDE DEF r
  <2> QED
    BY <2>2, <2>3, ConsentStep
<1>2. CASE G!At(p, "ask install") /\ G!Goto(p, "install")
  BY <1>2, ConsentGoto DEF G!At
<1> QED
  BY <1>1, <1>2 DEF G!Agree

(* A candidate is run: a download first of all, then what is installed.    *)
LEMMA ProbesConsent ==
  ASSUME AllConsented, NEW p \in Procs, G!ProbeFirst(p) \/ G!Probe(p)
  PROVE  AllConsented'
<1>1. CASE G!End(p)
  BY <1>1, ConsentEnd
<1>2. ASSUME NEW stage \in {"ask install", "land"}, proc[p].at # "ask probe",
             proc' = [proc EXCEPT ![p].at = stage, ![p].executed = TRUE]
      PROVE  AllConsented'
  <2> DEFINE r == [proc[p] EXCEPT !.at = stage, !.executed = TRUE]
  <2>1. /\ DOMAIN r = ProcFields /\ r.remote = proc[p].remote /\ r.agreed = proc[p].agreed
        /\ r.at = stage
    BY DEF AllConsented, Consented, ProcFields
  <2>2. proc' = [proc EXCEPT ![p] = r]
    BY <1>2 DEF AllConsented
  <2> HIDE DEF r
  <2> QED
    BY <1>2, <2>1, <2>2, ConsentGoesOn
<1> QED
  BY <1>1, <1>2 DEF G!ProbeFirst, G!Probe, G!At

(* Landing only moves a candidate that was agreed to.                      *)
LEMMA LandConsents ==
  ASSUME AllConsented, NEW p \in Procs, G!Land(p)
  PROVE  AllConsented'
<1> DEFINE r == [proc[p] EXCEPT !.at = "copy", !.content = G!Source(p)]
<1>1. /\ DOMAIN r = ProcFields /\ r.remote = proc[p].remote /\ r.agreed = proc[p].agreed
      /\ r.at = "copy"
  BY DEF AllConsented, Consented, ProcFields
<1>2. G!End(p) \/ proc' = [proc EXCEPT ![p] = r]
  BY DEF G!Land, AllConsented
<1>3. proc[p].at # "ask probe"
  BY DEF G!Land, G!At
<1> HIDE DEF r
<1> QED
  BY <1>1, <1>2, <1>3, ConsentEnd, ConsentGoesOn

(* Finding a plugin, and running one that is installed.                    *)
LEMMA FindConsents ==
  ASSUME AllConsented, NEW p \in Procs, NEW f, G!Find(p, f) \/ G!RunExternal(p, f)
  PROVE  AllConsented'
<1> DEFINE found == [G!Idle EXCEPT !.at = "remove", !.file = f]
           ran == [G!Idle EXCEPT !.at = "describe", !.file = f, !.broken = G!Broken(f)]
<1>1. /\ DOMAIN found = ProcFields /\ found.remote = FALSE /\ found.at = "remove"
      /\ DOMAIN ran = ProcFields /\ ran.remote = FALSE /\ ran.at = "describe"
  BY IdleFields DEF ProcFields
<1>2. proc' = [proc EXCEPT ![p] = found] \/ proc' = [proc EXCEPT ![p] = ran]
  BY DEF G!Find, G!RunExternal
<1> HIDE DEF found, ran
<1>3. Consented(found) /\ Consented(ran)
  BY <1>1, IdleConsents
<1> QED
  BY <1>2, <1>3, ConsentStep

(* What is installed was agreed to before.                                 *)
LEMMA InvokeConsents ==
  ASSUME AllConsented, NEW p \in Procs, G!Invoke(p)
  PROVE  AllConsented'
<1> DEFINE r == [proc[p] EXCEPT !.at = "spawn", !.broker = G!ContentAt(proc[p].file).scopes]
<1>1. /\ DOMAIN r = ProcFields /\ r.remote = proc[p].remote /\ r.agreed = proc[p].agreed
      /\ r.at = "spawn"
  BY DEF AllConsented, Consented, ProcFields
<1>2. G!End(p) \/ proc' = [proc EXCEPT ![p] = r]
  BY DEF G!Invoke, AllConsented
<1>3. proc[p].at # "ask probe"
  BY DEF G!Invoke, G!At
<1> HIDE DEF r
<1> QED
  BY <1>1, <1>2, <1>3, ConsentEnd, ConsentGoesOn

(* Every step keeps the consents.                                          *)
LEMMA ConsentNext ==
  ASSUME AllConsented, [G!PNext]_(G!pvars)
  PROVE  AllConsented'
<1>1. ASSUME NEW p \in Procs,
             \/ G!Decline(p) \/ G!Copied(p) \/ G!Remove(p) \/ G!Shutdown(p) \/ G!Die(p)
      PROVE  AllConsented'
  BY <1>1, ConsentEnd DEF G!Decline, G!Copied, G!Remove, G!Shutdown, G!Die
<1>2. ASSUME NEW p \in Procs, G!Install(p) \/ G!Spawn(p) \/ G!Exit(p)
      PROVE  AllConsented'
  <2>1. proc[p].at # "ask probe"
    BY <1>2 DEF G!Install, G!Spawn, G!Exit, G!At
  <2>2. G!End(p) \/ \E stage \in {"probe", "shutdown", "run"} : G!Goto(p, stage)
    BY <1>2 DEF G!Install, G!Spawn, G!Exit
  <2> QED
    BY <2>1, <2>2, ConsentEnd, ConsentGoto
<1>3. CASE UNCHANGED proc
  BY <1>3 DEF AllConsented, Consented
<1>4. ASSUME NEW p \in Procs, NEW f, G!InvokeBuiltin(p, f) PROVE UNCHANGED proc
  BY <1>4 DEF G!InvokeBuiltin
<1>5. ASSUME NEW f, NEW content, G!EditOriginal(f, content) PROVE UNCHANGED proc
  BY <1>5 DEF G!EditOriginal
<1>6. G!InterpreterChanges \/ UNCHANGED G!pvars => UNCHANGED proc
  BY DEF G!InterpreterChanges, G!pvars
<1> QED
  BY <1>1, <1>2, <1>3, <1>4, <1>5, <1>6, AddConsents, FetchConsents, AgreeConsents,
     ProbesConsent, LandConsents, FindConsents, InvokeConsents DEF G!PNext

(* No code of a downloaded plugin runs before the user agreed to it,       *)
(* whatever happens to the files and the interpreter meanwhile.            *)
THEOREM ConsentComesFirst == G!PSpec => []ConsentBeforeCode
<1>1. G!PInit => AllConsented
  <2> SUFFICES ASSUME G!PInit PROVE AllConsented
    OBVIOUS
  <2>1. Consented(G!Idle)
    BY IdleFields, IdleConsents
  <2> QED
    BY <2>1 DEF G!PInit, AllConsented
<1>2. AllConsented /\ [G!PNext]_(G!pvars) => AllConsented'
  BY ConsentNext
<1>3. AllConsented => ConsentBeforeCode
  BY DEF AllConsented, Consented, ConsentBeforeCode, G!ConsentBeforeCode
<1> QED
  BY <1>1, <1>2, <1>3, PTL DEF G!PSpec

-----------------------------------------------------------------------------
(* Plugins: one file for a name.  The names of the entries, what a command *)
(* that installs has found vacant, and the scripts, which are installed    *)
(* with an interpreter only.                                               *)

(* Commands run one after the other; the interpreter stays or stays away.  *)
OneAtATime == (\A p, q \in Procs : p = q) /\ ~PythonVaries

Installing == {"probe", "land", "copy"}

(* No other file of the name is there, and a script has its interpreter.   *)
Vacant(f) ==
    /\ f = "cmd_a.py" => python
    /\ \A g \in G!Files : g # f /\ G!Name(g) = G!Name(f) => plugins[g].kind = "none"

(* A command that installs found its name vacant.                          *)
Placed(r) == r.file \in G!Files /\ (r.at \in Installing => Vacant(r.file))

(* A script is there only with an interpreter.                             *)
ScriptsRun == plugins["cmd_a.py"].kind # "none" => python

(* The names and the commands that install.                                *)
NamesInv ==
    /\ AllConsented
    /\ DOMAIN plugins = G!Files
    /\ ScriptsRun /\ OneFilePerName
    /\ \A p \in Procs : Placed(proc[p])

(* What install finds vacant is, also where the listing hides a script or  *)
(* a link leads nowhere.                                                   *)
LEMMA InstallableIsVacant ==
  ASSUME ScriptsRun, NEW f \in G!Files, NEW content, G!Installable(f, content)
  PROVE  Vacant(f)
<1>1. \A g \in G!Files : plugins[g].kind # "none" => G!Listed(g)
  BY DEF G!Listed, G!Python, ScriptsRun
<1>2. \A g \in G!Discovered : G!Name(g) # G!Name(f)
  BY DEF G!Installable
<1>3. ASSUME NEW g \in G!Files, G!Name(g) = G!Name(f), plugins[g].kind # "none"
      PROVE  FALSE
  <2>1. G!Listed(g) /\ g \notin G!Discovered
    BY <1>1, <1>2, <1>3
  <2>2. g = "cmd_a.py" /\ G!Listed("audible-a")
    BY <2>1 DEF G!Discovered
  <2>3. "audible-a" \in G!Discovered
    BY <2>2 DEF G!Discovered, G!Files
  <2>4. G!Name("audible-a") = G!Name(f)
    BY <1>3, <2>2 DEF G!Name
  <2> QED
    BY <1>2, <2>3, <2>4
<1>4. f = "cmd_a.py" => python
  BY DEF G!Installable, G!Python
<1> QED
  BY <1>3, <1>4 DEF Vacant

(* One command moves; the directory and the interpreter stay.              *)
LEMMA PlaceStep ==
  ASSUME NamesInv, AllConsented', UNCHANGED <<plugins, python>>,
         NEW p \in Procs, NEW r, proc' = [proc EXCEPT ![p] = r], Placed(r)
  PROVE  NamesInv'
<1>1. \A q \in Procs : Placed(proc'[q])
  BY DEF NamesInv, AllConsented
<1>2. \A q \in Procs : Placed(proc[q])'
  BY <1>1 DEF Placed, Vacant
<1> QED
  BY <1>2 DEF NamesInv, ScriptsRun, OneFilePerName, G!OneFilePerName

(* A command that is done has nothing to place.                            *)
LEMMA IdlePlaced == Placed(G!Idle)
  BY IdleFields DEF Placed, Installing, G!Files

(* A command that keeps its file and does not begin to install.            *)
LEMMA PlaceKept ==
  ASSUME NamesInv, AllConsented', UNCHANGED <<plugins, python>>,
         NEW p \in Procs, NEW r, proc' = [proc EXCEPT ![p] = r],
         r.file \in G!Files, r.at \in Installing => Vacant(r.file)
  PROVE  NamesInv'
  BY PlaceStep DEF Placed

(* The steps that leave the directory alone.                               *)
LEMMA QuietPlaced ==
  ASSUME NamesInv, AllConsented', UNCHANGED <<plugins, python>>, NEW p \in Procs,
         NEW f \in G!Files, NEW symlink, NEW content,
         \/ G!Add(p, f, symlink) \/ G!Fetch(p, f, content) \/ G!Find(p, f)
         \/ G!RunExternal(p, f) \/ G!Agree(p) \/ G!Decline(p) \/ G!ProbeFirst(p)
         \/ G!Install(p) \/ G!Probe(p) \/ G!Invoke(p) \/ G!Spawn(p) \/ G!Exit(p)
         \/ G!Shutdown(p) \/ G!Die(p)
  PROVE  NamesInv'
<1>1. DOMAIN proc = Procs /\ DOMAIN proc[p] = ProcFields /\ proc[p].file \in G!Files
  BY DEF NamesInv, AllConsented, Consented, Placed
<1>2. CASE G!End(p)
  BY <1>2, IdlePlaced, PlaceStep DEF G!End
<1>3. ASSUME NEW r, proc' = [proc EXCEPT ![p] = r], r.file \in G!Files, r.at \notin Installing
      PROVE  NamesInv'
  BY <1>3, PlaceStep DEF Placed
<1>4. ASSUME NEW stage, stage \notin Installing, G!Goto(p, stage) PROVE NamesInv'
  <2> DEFINE r == [proc[p] EXCEPT !.at = stage]
  <2>1. r.file = proc[p].file /\ r.at = stage /\ proc' = [proc EXCEPT ![p] = r]
    BY <1>1, <1>4 DEF G!Goto, ProcFields
  <2> HIDE DEF r
  <2> QED
    BY <1>1, <1>3, <1>4, <2>1
<1>5. CASE G!Add(p, f, symlink)
  <2> DEFINE r == [G!Idle EXCEPT !.at = "probe", !.file = f, !.symlink = symlink]
  <2>1. r.file = f /\ proc' = [proc EXCEPT ![p] = r]
    BY <1>5, IdleFields DEF G!Add, ProcFields
  <2>2. Vacant(f)
    BY <1>5, InstallableIsVacant DEF G!Add, NamesInv
  <2> HIDE DEF r
  <2> QED
    BY <2>1, <2>2, PlaceStep DEF Placed
<1>6. CASE G!Fetch(p, f, content)
  <2> DEFINE r == [G!Idle EXCEPT !.at = "ask probe", !.file = f, !.remote = TRUE,
                                 !.content = [content EXCEPT !.exec = TRUE]]
  <2>1. r.file = f /\ r.at = "ask probe" /\ proc' = [proc EXCEPT ![p] = r]
    BY <1>6, IdleFields DEF G!Fetch, ProcFields
  <2> HIDE DEF r
  <2> QED
    BY <1>3, <2>1 DEF Installing
<1>7. CASE G!Find(p, f) \/ G!RunExternal(p, f)
  <2> DEFINE found == [G!Idle EXCEPT !.at = "remove", !.file = f]
             ran == [G!Idle EXCEPT !.at = "describe", !.file = f, !.broken = G!Broken(f)]
  <2>1. found.file = f /\ found.at = "remove" /\ ran.file = f /\ ran.at = "describe"
    BY IdleFields DEF ProcFields
  <2>2. proc' = [proc EXCEPT ![p] = found] \/ proc' = [proc EXCEPT ![p] = ran]
    BY <1>7 DEF G!Find, G!RunExternal
  <2> HIDE DEF found, ran
  <2> QED
    BY <1>3, <2>1, <2>2 DEF Installing
<1>8. CASE G!Agree(p)
  <2> DEFINE r == [proc[p] EXCEPT !.at = "probe first", !.agreed = TRUE]
  <2>1. r.file = proc[p].file /\ r.at = "probe first"
    BY <1>1 DEF ProcFields
  <2>2. proc' = [proc EXCEPT ![p] = r] \/ G!Goto(p, "install")
    BY <1>1, <1>8 DEF G!Agree
  <2> HIDE DEF r
  <2> QED
    BY <1>1, <1>3, <1>4, <2>1, <2>2 DEF Installing
<1>9. CASE G!ProbeFirst(p)
  <2> DEFINE r == [proc[p] EXCEPT !.at = "ask install", !.executed = TRUE]
  <2>1. r.file = proc[p].file /\ r.at = "ask install"
    BY <1>1 DEF ProcFields
  <2>2. proc' = [proc EXCEPT ![p] = r] \/ G!End(p)
    BY <1>1, <1>9 DEF G!ProbeFirst
  <2> HIDE DEF r
  <2> QED
    BY <1>1, <1>2, <1>3, <2>1, <2>2 DEF Installing
<1>10. CASE G!Install(p)
  <2> DEFINE r == [proc[p] EXCEPT !.at = "probe"]
  <2>1. r.file = proc[p].file
    BY <1>1 DEF ProcFields
  <2>2. \/ G!End(p)
        \/ /\ proc' = [proc EXCEPT ![p] = r]
           /\ G!Installable(proc[p].file, proc[p].content)
    BY <1>1, <1>10 DEF G!Install, G!Goto
  <2> HIDE DEF r
  <2>3. CASE /\ proc' = [proc EXCEPT ![p] = r]
             /\ G!Installable(proc[p].file, proc[p].content)
    <3>1. Vacant(proc[p].file)
      BY <1>1, <2>3, InstallableIsVacant DEF NamesInv
    <3> QED
      BY <1>1, <2>1, <2>3, <3>1, PlaceKept
  <2> QED
    BY <1>2, <2>2, <2>3
<1>11. CASE G!Probe(p)
  <2> DEFINE r == [proc[p] EXCEPT !.at = "land", !.executed = TRUE]
  <2>1. r.file = proc[p].file
    BY <1>1 DEF ProcFields
  <2>2. proc' = [proc EXCEPT ![p] = r] \/ G!End(p)
    BY <1>1, <1>11 DEF G!Probe
  <2>3. Vacant(proc[p].file)
    BY <1>11 DEF G!Probe, G!At, NamesInv, Placed, Installing
  <2> HIDE DEF r
  <2> QED
    BY <1>1, <1>2, <2>1, <2>2, <2>3, PlaceKept
<1>12. CASE G!Invoke(p)
  <2> DEFINE r == [proc[p] EXCEPT !.at = "spawn", !.broker = G!ContentAt(proc[p].file).scopes]
  <2>1. r.file = proc[p].file /\ r.at = "spawn"
    BY <1>1 DEF ProcFields
  <2>2. proc' = [proc EXCEPT ![p] = r] \/ G!End(p)
    BY <1>1, <1>12 DEF G!Invoke
  <2> HIDE DEF r
  <2> QED
    BY <1>1, <1>2, <1>3, <2>1, <2>2 DEF Installing
<1>13. CASE G!Decline(p) \/ G!Shutdown(p) \/ G!Die(p) \/ G!Spawn(p) \/ G!Exit(p)
  <2>1. G!End(p) \/ G!Goto(p, "shutdown") \/ G!Goto(p, "run")
    BY <1>13 DEF G!Decline, G!Shutdown, G!Die, G!Spawn, G!Exit
  <2> QED
    BY <1>2, <1>4, <2>1 DEF Installing
<1> QED
  BY <1>5, <1>6, <1>7, <1>8, <1>9, <1>10, <1>11, <1>12, <1>13

(* An entry comes only where its name is vacant, and then of the one       *)
(* command that runs.                                                      *)
LEMMA DirStep ==
  ASSUME OneAtATime, NamesInv, AllConsented', UNCHANGED python, NEW p \in Procs,
         NEW f \in G!Files, NEW entry, plugins' = [plugins EXCEPT ![f] = entry],
         entry.kind # "none" => plugins[f].kind # "none" \/ Vacant(f),
         proc'[p].file \in G!Files,
         proc'[p].at \in Installing => proc'[p].file = f /\ Vacant(f)
  PROVE  NamesInv'
<1>1. DOMAIN plugins' = G!Files /\ plugins'[f] = entry
      /\ \A g \in G!Files \ {f} : plugins'[g] = plugins[g]
  BY DEF NamesInv
<1>2. ScriptsRun'
  BY <1>1 DEF NamesInv, ScriptsRun, Vacant, G!Files
<1>3. OneFilePerName'
  <2> SUFFICES ASSUME NEW g \in G!Files, NEW h \in G!Files, g # h, G!Name(g) = G!Name(h),
                      plugins'[g].kind # "none", plugins'[h].kind # "none"
               PROVE  FALSE
    BY DEF OneFilePerName, G!OneFilePerName
  <2>1. CASE f # g /\ f # h
    BY <1>1, <2>1 DEF NamesInv, OneFilePerName, G!OneFilePerName
  <2>2. ASSUME NEW other \in G!Files, other # f, G!Name(other) = G!Name(f),
               plugins[other].kind # "none", entry.kind # "none"
        PROVE  FALSE
    BY <2>2 DEF NamesInv, OneFilePerName, G!OneFilePerName, Vacant
  <2> QED
    BY <1>1, <2>1, <2>2
<1>4. ASSUME NEW q \in Procs PROVE Placed(proc[q])'
  <2>1. q = p
    BY DEF OneAtATime
  <2>2. proc'[p].at \in Installing => Vacant(proc[p].file)'
    BY <1>1 DEF Vacant
  <2> QED
    BY <2>1, <2>2 DEF Placed
<1> QED
  BY <1>1, <1>2, <1>3, <1>4 DEF NamesInv

(* The steps that change the directory.                                    *)
LEMMA DirPlaced ==
  ASSUME OneAtATime, NamesInv, AllConsented', NEW p \in Procs, NEW f \in G!Files,
         G!Land(p) \/ G!Copied(p) \/ G!Remove(p) \/ G!InvokeBuiltin(p, f)
  PROVE  NamesInv'
<1> DEFINE target == proc[p].file
<1>1. /\ UNCHANGED python /\ DOMAIN proc = Procs /\ DOMAIN proc[p] = ProcFields
      /\ target \in G!Files
  BY DEF G!Land, G!Copied, G!Remove, G!InvokeBuiltin, NamesInv, AllConsented, Consented, Placed
<1>2. G!End(p) => proc'[p].at = "idle" /\ proc'[p].file \in G!Files
  BY <1>1, IdleFields DEF G!End, G!Files
<1>3. CASE G!Land(p)
  <2>1. Vacant(target)
    BY <1>3 DEF G!Land, G!At, NamesInv, Placed, Installing
  <2> DEFINE link == [kind |-> "link", content |-> G!Gone]
             part == [kind |-> "file", content |-> G!Gone]
             r == [proc[p] EXCEPT !.at = "copy", !.content = G!Source(p)]
  <2>2. r.file = target
    BY <1>1 DEF ProcFields
  <2>3. \/ G!End(p) /\ UNCHANGED plugins
        \/ G!End(p) /\ plugins' = [plugins EXCEPT ![target] = link]
        \/ /\ proc' = [proc EXCEPT ![p] = r]
           /\ plugins' = [plugins EXCEPT ![target] = part]
    BY <1>1, <1>3 DEF G!Land
  <2> HIDE DEF r, link, part, target
  <2>4. CASE G!End(p) /\ UNCHANGED plugins
    BY <1>1, <2>4, IdlePlaced, PlaceStep DEF G!End
  <2>5. CASE G!End(p) /\ plugins' = [plugins EXCEPT ![target] = link]
    BY <1>1, <1>2, <2>1, <2>5, DirStep DEF Installing
  <2>6. CASE proc' = [proc EXCEPT ![p] = r] /\ plugins' = [plugins EXCEPT ![target] = part]
    <3>1. proc'[p].file = target
      BY <1>1, <2>2, <2>6
    <3> QED
      BY <1>1, <2>1, <2>6, <3>1, DirStep
  <2> QED
    BY <2>3, <2>4, <2>5, <2>6
<1>4. CASE G!Copied(p)
  <2> DEFINE entry == IF plugins[target].kind = "none" THEN plugins[target]
                      ELSE [kind |-> "file", content |-> proc[p].content]
  <2>1. plugins' = [plugins EXCEPT ![target] = entry] /\ G!End(p)
    BY <1>4 DEF G!Copied, NamesInv
  <2>2. entry.kind # "none" => plugins[target].kind # "none"
    OBVIOUS
  <2> HIDE DEF entry, target
  <2> QED
    BY <1>1, <1>2, <2>1, <2>2, DirStep DEF Installing
<1>5. CASE G!Remove(p)
  <2>1. plugins' = [plugins EXCEPT ![target] = G!NoEntry] /\ G!End(p) /\ G!NoEntry.kind = "none"
    BY <1>5 DEF G!Remove, G!NoEntry
  <2> HIDE DEF target
  <2> QED
    BY <1>1, <1>2, <2>1, DirStep DEF Installing
<1>6. CASE G!InvokeBuiltin(p, f)
  <2>1. /\ plugins' = [plugins EXCEPT ![f] = G!NoEntry] /\ G!NoEntry.kind = "none"
        /\ proc'[p].at = "run" /\ proc'[p].file \in G!Files
    BY <1>1, <1>6 DEF G!InvokeBuiltin, G!NoEntry, G!At
  <2> QED
    BY <1>1, <2>1, DirStep DEF Installing
<1> QED
  BY <1>3, <1>4, <1>5, <1>6

(* Every step keeps the names apart.                                       *)
LEMMA NamesNext ==
  ASSUME OneAtATime, NamesInv, [G!PNext]_(G!pvars)
  PROVE  NamesInv'
<1>1. AllConsented'
  BY ConsentNext DEF NamesInv
<1>2. CASE UNCHANGED <<plugins, python, proc>>
  BY <1>1, <1>2 DEF NamesInv, ScriptsRun, OneFilePerName, G!OneFilePerName, Placed, Vacant
<1>3. ASSUME NEW f, NEW content, G!EditOriginal(f, content)
      PROVE  UNCHANGED <<plugins, python, proc>>
  BY <1>3 DEF G!EditOriginal
<1>4. G!InterpreterChanges \/ UNCHANGED G!pvars => UNCHANGED <<plugins, python, proc>>
  BY DEF G!InterpreterChanges, G!pvars, OneAtATime
<1>5. ASSUME NEW p \in Procs, NEW f \in G!Files, NEW symlink, NEW content,
             \/ G!Add(p, f, symlink) \/ G!Fetch(p, f, content) \/ G!Find(p, f)
             \/ G!RunExternal(p, f) \/ G!Agree(p) \/ G!Decline(p) \/ G!ProbeFirst(p)
             \/ G!Install(p) \/ G!Probe(p) \/ G!Invoke(p) \/ G!Spawn(p) \/ G!Exit(p)
             \/ G!Shutdown(p) \/ G!Die(p)
      PROVE  NamesInv'
  <2>1. UNCHANGED <<plugins, python>>
    BY <1>5 DEF G!Add, G!Fetch, G!Find, G!RunExternal, G!Agree, G!Decline, G!ProbeFirst,
                G!Install, G!Probe, G!Invoke, G!Spawn, G!Exit, G!Shutdown, G!Die
  <2> QED
    BY <1>1, <1>5, <2>1, QuietPlaced
<1>6. "audible-a" \in G!Files
  BY DEF G!Files
<1> QED
  BY <1>1, <1>2, <1>3, <1>4, <1>5, <1>6, DirPlaced DEF G!PNext

(* A plugin's name stands for one file, also when that cannot run any more,*)
(* as long as commands do not overlap.                                     *)
THEOREM NamesAreUnique == OneAtATime => (G!PSpec => []OneFilePerName)
<1> SUFFICES ASSUME OneAtATime PROVE G!PSpec => []OneFilePerName
  OBVIOUS
<1>1. G!PInit => NamesInv
  <2> SUFFICES ASSUME G!PInit PROVE NamesInv
    OBVIOUS
  <2>1. AllConsented
    <3>1. Consented(G!Idle)
      BY IdleFields, IdleConsents
    <3> QED
      BY <3>1 DEF G!PInit, AllConsented
  <2>2. \A f \in G!Files : plugins[f].kind = "none"
    BY DEF G!PInit, G!NoEntry
  <2>3. \A p \in Procs : Placed(proc[p])
    BY IdlePlaced DEF G!PInit
  <2> QED
    BY <2>1, <2>2, <2>3
       DEF G!PInit, NamesInv, ScriptsRun, OneFilePerName, G!OneFilePerName, G!Files
<1>2. NamesInv /\ [G!PNext]_(G!pvars) => NamesInv'
  BY NamesNext
<1>3. NamesInv => OneFilePerName
  BY DEF NamesInv
<1> QED
  BY <1>1, <1>2, <1>3, PTL DEF G!PSpec

-----------------------------------------------------------------------------
(* The device code: Amazon's pauses are kept.                              *)

(* Times are whole seconds, and failures are counted up to a bound.        *)
Seconds ==
    /\ Intervals \subseteq Int /\ RetryAfters \subseteq Int
    /\ Lifetime \in Int /\ RequestTimeout \in Int /\ MinInterval \in Int /\ MaxBackoff \in Int
    /\ MaxBackoffDoublings \in Nat

(* The larger of two times is one of them, and no less than either.        *)
LEMMA MaxOfTwo ==
  ASSUME NEW x \in Int, NEW y \in Int
  PROVE  S!Max({x, y}) \in {x, y} /\ S!Max({x, y}) >= x /\ S!Max({x, y}) >= y
<1>1. \E m \in {x, y} : \A z \in {x, y} : m >= z
  OBVIOUS
<1> QED
  BY <1>1 DEF S!Max

(* The same for three.                                                     *)
LEMMA MaxOfThree ==
  ASSUME NEW x \in Int, NEW y \in Int, NEW z \in Int
  PROVE  /\ S!Max({x, y, z}) \in {x, y, z}
         /\ S!Max({x, y, z}) >= x /\ S!Max({x, y, z}) >= y /\ S!Max({x, y, z}) >= z
<1>1. \E m \in {x, y, z} : \A w \in {x, y, z} : m >= w
  OBVIOUS
<1> QED
  BY <1>1 DEF S!Max

(* The smaller of two times.                                               *)
LEMMA MinOfTwo ==
  ASSUME NEW x \in Int, NEW y \in Int
  PROVE  S!Min({x, y}) \in {x, y} /\ S!Min({x, y}) <= x /\ S!Min({x, y}) <= y
<1>1. \E m \in {x, y} : \A z \in {x, y} : m <= z
  OBVIOUS
<1> QED
  BY <1>1 DEF S!Min

(* The pause before the next poll is as long as what Amazon asked for.     *)
Paused ==
    /\ clock \in Int /\ notBefore \in Int
    /\ pair.expires_at \in Int /\ pair.interval \in Int
    /\ poll.delay \in Int /\ poll.failures \in Nat
    /\ phase = "sleep" => clock + poll.delay >= notBefore
    /\ PollsAreSpaced

(* A pause after a failure respects the pair's interval and the server.    *)
LEMMA RetryDelayLongEnough ==
  ASSUME Seconds, Paused, NEW wanted \in Int, NEW failures \in Nat
  PROVE  /\ S!RetryDelay(wanted, failures) \in Int
         /\ S!RetryDelay(wanted, failures) >= S!Max({wanted, pair.interval})
         /\ S!Max({wanted, pair.interval}) \in Int
<1> DEFINE doublings == S!Min({failures, MaxBackoffDoublings})
           product == pair.interval * 2 ^ doublings
           backoff == S!Min({MaxBackoff, product})
<1>1. doublings \in Nat
  BY MinOfTwo DEF Seconds
<1> HIDE DEF doublings
<1>2. 2 ^ doublings \in Int
  BY <1>1, SMT
<1>3. product \in Int
  <2> DEFINE power == 2 ^ doublings
  <2> HIDE DEF power
  <2>1. power \in Int
    BY <1>2 DEF power
  <2>2. pair.interval * power \in Int
    BY <2>1 DEF Paused
  <2> QED
    BY <2>2 DEF power
<1> HIDE DEF product
<1>4. backoff \in Int
  BY <1>3, MinOfTwo DEF Seconds
<1> HIDE DEF backoff
<1>5. S!RetryDelay(wanted, failures) = S!Max({pair.interval, backoff, wanted})
  BY DEF S!RetryDelay, backoff, product, doublings
<1>6. pair.interval \in Int
  BY DEF Paused
<1> DEFINE interval == pair.interval
           delay == S!Max({interval, backoff, wanted})
           pause == S!Max({wanted, interval})
<1> HIDE DEF interval
<1>7. interval \in Int
  BY <1>6 DEF interval
<1>8. delay \in {interval, backoff, wanted} /\ delay >= interval /\ delay >= wanted
  BY <1>4, <1>7, MaxOfThree
<1>9. pause \in {wanted, interval}
  BY <1>7, MaxOfTwo
<1> HIDE DEF delay, pause
<1>10. delay \in Int /\ delay >= pause /\ pause \in Int
  BY <1>4, <1>7, <1>8, <1>9
<1> QED
  BY <1>5, <1>10 DEF delay, pause, interval

(* A poll that failed sets its pause and the earliest next poll together.  *)
LEMMA FailedPauses ==
  ASSUME Seconds, Paused, NEW wanted \in Int, NEW took \in 0 .. RequestTimeout,
         clock' = clock + took, UNCHANGED pair, S!Failed(wanted, took)
  PROVE  Paused'
<1>1. poll.failures + 1 \in Nat
  BY DEF Paused
<1> DEFINE delay == S!RetryDelay(wanted, poll.failures + 1)
           pause == S!Max({wanted, pair.interval})
<1>2. delay \in Int /\ delay >= pause /\ pause \in Int
  BY <1>1, RetryDelayLongEnough
<1>3. /\ poll'.delay = delay /\ poll'.failures = poll.failures + 1
      /\ notBefore' = clock + took + pause /\ phase' = "sleep"
  BY DEF S!Failed
<1> HIDE DEF delay, pause
<1> QED
  BY <1>1, <1>2, <1>3 DEF Paused, PollsAreSpaced, S!PollsAreSpaced

(* A pair of codes comes with the interval of its own polls.               *)
LEMMA CreateCodePairPauses ==
  ASSUME Seconds, Paused, S!CreateCodePair
  PROVE  Paused'
<1>1. CASE phase' = "failed" /\ UNCHANGED <<clock, pair, poll, notBefore>>
  BY <1>1 DEF Paused, PollsAreSpaced, S!PollsAreSpaced
<1>2. ASSUME NEW asked \in Intervals, NEW took \in 0 .. RequestTimeout,
             pair' = [expires_at |-> clock + Lifetime, interval |-> S!Max({asked, MinInterval})],
             poll' = [delay |-> S!Max({asked, MinInterval}), failures |-> 0],
             clock' = clock + took, notBefore' = clock' + pair'.interval, phase' = "sleep"
      PROVE  Paused'
  <2>1. S!Max({asked, MinInterval}) \in Int
    BY MaxOfTwo DEF Seconds
  <2> QED
    BY <1>2, <2>1 DEF Seconds, Paused, PollsAreSpaced, S!PollsAreSpaced
<1> QED
  BY <1>1, <1>2 DEF S!CreateCodePair

(* Who wakes up before the deadline has slept all of the pause.            *)
LEMMA SleepPauses ==
  ASSUME Paused, S!Sleep
  PROVE  Paused'
<1> DEFINE left == S!Max({0, pair.expires_at - clock})
           slept == S!Min({poll.delay, left})
<1>1. left \in Int /\ left >= pair.expires_at - clock /\ left \in {0, pair.expires_at - clock}
  <2> DEFINE rest == pair.expires_at - clock
  <2>1. rest \in Int
    BY DEF Paused
  <2> HIDE DEF rest
  <2>2. S!Max({0, rest}) \in {0, rest} /\ S!Max({0, rest}) >= rest
    BY <2>1, MaxOfTwo
  <2>3. S!Max({0, rest}) \in Int
    BY <2>1, <2>2
  <2> QED
    BY <2>2, <2>3 DEF rest
<1>2. slept \in {poll.delay, left} /\ slept <= poll.delay /\ slept <= left
  BY <1>1, MinOfTwo DEF Paused
<1>3. /\ clock' = clock + slept /\ UNCHANGED <<pair, poll, notBefore>>
      /\ phase' = IF S!Max({0, pair.expires_at - clock'}) = 0 THEN "failed" ELSE "poll"
      /\ phase = "sleep"
  BY DEF S!Sleep, S!TimeLeft
<1> HIDE DEF left, slept
<1>4. clock' \in Int
  BY <1>1, <1>2, <1>3 DEF Paused
<1>5. S!Max({0, pair.expires_at - clock'}) # 0 => slept = poll.delay
  <2> DEFINE rest == pair.expires_at - clock'
  <2>1. rest \in Int
    BY <1>4 DEF Paused
  <2> HIDE DEF rest
  <2>2. S!Max({0, rest}) \in {0, rest} /\ S!Max({0, rest}) >= 0
    BY <2>1, MaxOfTwo
  <2>3. S!Max({0, rest}) # 0 => rest > 0
    BY <2>1, <2>2
  <2>4. rest > 0 => slept = poll.delay
    BY <1>1, <1>2, <1>3 DEF rest, Paused
  <2> QED
    BY <2>3, <2>4 DEF rest
<1>6. phase' = "poll" => clock' >= notBefore'
  BY <1>3, <1>5 DEF Paused
<1> QED
  BY <1>3, <1>4, <1>6 DEF Paused, PollsAreSpaced, S!PollsAreSpaced

(* Each answer to a poll, a failure among them, sets the next pause.       *)
LEMMA PollPauses ==
  ASSUME Seconds, Paused, S!Poll
  PROVE  Paused'
<1>1. PICK took \in 0 .. RequestTimeout :
         /\ clock' = clock + took
         /\ \/ \E wanted \in RetryAfters \cup {0} : S!Failed(wanted, took)
            \/ /\ poll' = [delay |-> pair.interval, failures |-> 0]
               /\ notBefore' = clock + took + pair.interval
               /\ phase' = "sleep"
            \/ phase' \in {"registered", "failed"} /\ UNCHANGED <<poll, notBefore>>
  BY DEF S!Poll, S!Ended
<1>2. UNCHANGED pair
  BY DEF S!Poll
<1>3. CASE \E wanted \in RetryAfters \cup {0} : S!Failed(wanted, took)
  BY <1>1, <1>2, <1>3, FailedPauses DEF Seconds
<1>4. CASE /\ poll' = [delay |-> pair.interval, failures |-> 0]
           /\ notBefore' = clock + took + pair.interval
           /\ phase' = "sleep"
  BY <1>1, <1>2, <1>4 DEF Paused, PollsAreSpaced, S!PollsAreSpaced
<1>5. CASE phase' \in {"registered", "failed"} /\ UNCHANGED <<poll, notBefore>>
  BY <1>1, <1>2, <1>5 DEF Paused, PollsAreSpaced, S!PollsAreSpaced
<1> QED
  BY <1>1, <1>3, <1>4, <1>5

(* The other sign-ins do not poll for a device code.                       *)
LEMMA SignInPauses ==
  ASSUME Seconds, Paused, [S!SNext]_(S!svars)
  PROVE  Paused'
<1>1. CASE /\ UNCHANGED <<clock, pair, poll, notBefore>>
           /\ phase' \notin {"sleep", "poll"} \/ UNCHANGED phase
  BY <1>1 DEF Paused, PollsAreSpaced, S!PollsAreSpaced
<1>2. S!ReadAuthorizationCode \/ S!Register =>
         UNCHANGED <<clock, pair, poll, notBefore>> /\ phase' \notin {"sleep", "poll"}
  BY DEF S!ReadAuthorizationCode, S!Register, S!RegisterReply, S!Ended
<1>3. S!SubmitCredentials \/ S!PollApproval \/ S!Resolve =>
         UNCHANGED <<clock, pair, poll, notBefore>> /\ phase' \notin {"sleep", "poll"}
  BY DEF S!SubmitCredentials, S!PollApproval, S!Resolve
<1>4. S!Answer \/ S!ConfirmCode =>
         /\ UNCHANGED <<clock, pair, poll, notBefore>>
         /\ phase' \notin {"sleep", "poll"} \/ UNCHANGED phase
  BY DEF S!Answer, S!ConfirmCode
<1>5. UNCHANGED S!svars => UNCHANGED <<clock, pair, poll, notBefore, phase>>
  BY DEF S!svars
<1> QED
  BY <1>1, <1>2, <1>3, <1>4, <1>5, CreateCodePairPauses, SleepPauses, PollPauses
     DEF S!SNext, S!Work

(* Amazon is polled no more often than it asked for, whatever it asks for  *)
(* and however long its answers take.                                      *)
THEOREM PausesAreKept == Seconds => (S!SSpec => []PollsAreSpaced)
<1> SUFFICES ASSUME Seconds PROVE S!SSpec => []PollsAreSpaced
  OBVIOUS
<1>1. S!SInit => Paused
  BY DEF S!SInit, Paused, PollsAreSpaced, S!PollsAreSpaced
<1>2. Paused /\ [S!SNext]_(S!svars) => Paused'
  BY SignInPauses
<1>3. Paused => PollsAreSpaced
  BY DEF Paused
<1> QED
  BY <1>1, <1>2, <1>3, PTL DEF S!SSpec

-----------------------------------------------------------------------------
(* FairPlay: packages under their final names are whole.                   *)

(* One command at a time, and no command is a name in the store.           *)
OneDownload ==
    /\ \A p, q \in Procs : p = q
    /\ Procs \cap {"target", "partial", "earlier"} = {}

(* The locals of a command.                                                *)
RunFields == {"at", "todo", "index", "force", "single", "title", "format", "keys"}

(* A package at a place is complete when it is there.                      *)
Whole(t, place) == F!Exists(t, place) => package[t][place].whole

(* Where the copy of a package stands, besides the store's own name: what  *)
(* the system has downloaded, and a copy that is done.                     *)
PackageInv ==
    /\ DOMAIN package = Titles /\ \A t \in Titles : DOMAIN package[t] = F!Places
    /\ DOMAIN fproc = Procs
    /\ \A p \in Procs :
          /\ DOMAIN fproc[p] = RunFields
          /\ fproc[p].at \notin {"idle", "next"} => fproc[p].title \in Titles
    /\ PackageIsWhole
    /\ \A t \in Titles, p \in Procs : Whole(t, p)
    /\ \A p \in Procs : fproc[p].at = "copied" => Whole(fproc[p].title, "partial")

(* A command that is done.                                                 *)
LEMMA NoRunFields == DOMAIN F!Idle = RunFields /\ F!Idle.at = "idle"
  BY DEF F!Idle, RunFields

(* How a command may go on, as far as packages depend on it.               *)
RunGoesOn(p, r) ==
    /\ DOMAIN r = RunFields
    /\ r.at \notin {"idle", "next"} => r.title \in Titles
    /\ r.at = "copied" => F!At(p, "copied") /\ r.title = fproc[p].title

(* A command goes on and no package changes.                               *)
LEMMA RunStep ==
  ASSUME PackageInv, NEW p \in Procs, NEW r, fproc' = [fproc EXCEPT ![p] = r],
         RunGoesOn(p, r), UNCHANGED package
  PROVE  PackageInv'
<1>1. DOMAIN fproc' = Procs /\ fproc'[p] = r /\ \A q \in Procs \ {p} : fproc'[q] = fproc[q]
  BY DEF PackageInv
<1>2. \A t, place : Whole(t, place) => Whole(t, place)'
  BY DEF Whole, F!Exists
<1>3. PackageIsWhole'
  BY DEF PackageInv, PackageIsWhole, F!PackageIsWhole, F!Exists
<1>4. ASSUME NEW q \in Procs
      PROVE  /\ DOMAIN fproc'[q] = RunFields
             /\ fproc'[q].at \notin {"idle", "next"} => fproc'[q].title \in Titles
             /\ fproc'[q].at = "copied" => Whole(fproc[q].title, "partial")'
  BY <1>1, <1>2 DEF PackageInv, RunGoesOn, F!At
<1> QED
  BY <1>1, <1>2, <1>3, <1>4 DEF PackageInv

(* A command goes to its next step, ends, or leaves a title.               *)
LEMMA GotoGoesOn ==
  ASSUME PackageInv, NEW p \in Procs, fproc[p].at \notin {"idle", "next"}, NEW stage, stage # "copied"
  PROVE  RunGoesOn(p, [fproc[p] EXCEPT !.at = stage])
<1> DEFINE r == [fproc[p] EXCEPT !.at = stage]
<1>1. DOMAIN r = RunFields /\ r.at = stage /\ r.title = fproc[p].title
  BY DEF PackageInv, RunFields
<1> HIDE DEF r
<1>2. RunGoesOn(p, r)
  BY <1>1 DEF PackageInv, RunGoesOn
<1> QED
  BY <1>2 DEF r

(* A command that ends.                                                    *)
LEMMA EndGoesOn ==
  ASSUME NEW p
  PROVE  RunGoesOn(p, F!Idle)
  BY NoRunFields DEF RunGoesOn

(* A title that fails ends the command or leaves it to the next title.     *)
LEMMA FailGoesOn ==
  ASSUME PackageInv, NEW p \in Procs, F!Fail(p)
  PROVE  \E r : fproc' = [fproc EXCEPT ![p] = r] /\ RunGoesOn(p, r) /\ r.at \in {"idle", "next"}
<1> DEFINE r == [fproc[p] EXCEPT !.at = "next", !.todo = @ \ {fproc[p].title}]
<1>1. fproc' = [fproc EXCEPT ![p] = F!Idle] \/ fproc' = [fproc EXCEPT ![p] = r]
  BY DEF F!Fail, F!End, PackageInv
<1>2. DOMAIN r = RunFields /\ r.at = "next"
  BY DEF PackageInv, RunFields
<1> HIDE DEF r
<1>3. RunGoesOn(p, r)
  BY <1>2 DEF RunGoesOn
<1> QED
  BY <1>1, <1>2, <1>3, NoRunFields, EndGoesOn

(* One package changes and one command moves: what is put under a final    *)
(* name or a download's own is whole or nothing.                           *)
LEMMA PackageStep ==
  ASSUME OneDownload, PackageInv, NEW p \in Procs,
         NEW r, fproc' = [fproc EXCEPT ![p] = r], RunGoesOn(p, r),
         NEW t \in Titles, NEW place, NEW new,
         package' = [package EXCEPT ![t][place] = new],
         new # F!NoPackage /\ place # "partial" => new.whole,
         r.at # "copied"
  PROVE  PackageInv'
<1>1. DOMAIN fproc' = Procs /\ fproc'[p] = r
  BY DEF PackageInv
<1>2. /\ DOMAIN package' = Titles
      /\ \A u \in Titles : DOMAIN package'[u] = F!Places
      /\ \A u \in Titles, x \in F!Places :
            package'[u][x] = IF u = t /\ x = place THEN new ELSE package[u][x]
  BY DEF PackageInv
<1>3. ASSUME NEW u \in Titles, NEW x \in F!Places, x # "partial", Whole(u, x)
      PROVE  Whole(u, x)'
  BY <1>2, <1>3 DEF Whole, F!Exists
<1>4. "target" \in F!Places /\ Procs \subseteq F!Places /\ "partial" \notin Procs
  BY DEF F!Places, OneDownload
<1>5. PackageIsWhole'
  <2>1. \A u \in Titles : Whole(u, "target")
    BY DEF PackageInv, PackageIsWhole, F!PackageIsWhole, Whole
  <2> QED
    BY <1>3, <1>4, <2>1 DEF PackageIsWhole, F!PackageIsWhole, Whole
<1>6. \A u \in Titles, q \in Procs : Whole(u, q)'
  BY <1>3, <1>4 DEF PackageInv
<1>7. ASSUME NEW q \in Procs
      PROVE  /\ DOMAIN fproc'[q] = RunFields
             /\ fproc'[q].at \notin {"idle", "next"} => fproc'[q].title \in Titles
             /\ fproc'[q].at = "copied" => Whole(fproc[q].title, "partial")'
  <2>1. q = p
    BY DEF OneDownload
  <2> QED
    BY <1>1, <2>1 DEF RunGoesOn
<1> QED
  BY <1>1, <1>2, <1>5, <1>6, <1>7 DEF PackageInv

-----------------------------------------------------------------------------
(* The steps that touch no package.                                        *)
LEMMA QuietRun ==
  ASSUME PackageInv, NEW p \in Procs, UNCHANGED package,
         \/ \E asked, missing, force : F!Download(p, asked, missing, force)
         \/ F!Done(p) \/ F!Interrupt(p)
         \/ \E t \in Titles : F!Next1(p, t) \/ F!Play(p, t)
         \/ \E f, inline : F!RequestLicense(p, f, inline)
         \/ F!Refused(p) \/ F!RequestCertificate(p) \/ F!WriteKeys(p) \/ F!Save(p)
         \/ \E renewed : F!EndPlay(p, renewed)
         \/ F!Killed(p)
  PROVE  PackageInv'
<1>1. DOMAIN fproc = Procs /\ DOMAIN fproc[p] = RunFields
  BY DEF PackageInv
<1>2. ASSUME NEW asked, NEW missing, NEW force, F!Download(p, asked, missing, force)
      PROVE  PackageInv'
  <2> DEFINE todo == IF missing THEN F!Missing(asked) ELSE asked
             r == [F!Idle EXCEPT !.at = "next", !.todo = todo, !.index = index,
                                 !.force = force, !.single = F!Cardinality(todo) = 1]
  <2>1. DOMAIN r = RunFields /\ r.at = "next"
    BY NoRunFields DEF RunFields
  <2>2. fproc' = [fproc EXCEPT ![p] = r]
    BY <1>2 DEF F!Download
  <2> HIDE DEF r
  <2> QED
    BY <2>1, <2>2, RunStep DEF RunGoesOn
<1>3. CASE F!End(p)
  BY <1>3, EndGoesOn, RunStep DEF F!End
<1>4. CASE F!Fail(p)
  BY <1>4, FailGoesOn, RunStep
<1>5. ASSUME NEW t \in Titles, F!Next1(p, t)
      PROVE  PackageInv'
  <2> DEFINE skip == [fproc[p] EXCEPT !.todo = @ \ {t}]
             start == [fproc[p] EXCEPT !.title = t, !.at = "license"]
  <2>1. /\ DOMAIN skip = RunFields /\ skip.at = fproc[p].at
        /\ DOMAIN start = RunFields /\ start.title = t /\ start.at = "license"
    BY <1>1 DEF RunFields
  <2>2. fproc' = [fproc EXCEPT ![p] = skip] \/ fproc' = [fproc EXCEPT ![p] = start]
    BY <1>1, <1>5 DEF F!Next1
  <2>3. fproc[p].at = "next"
    BY <1>5 DEF F!Next1, F!At
  <2> HIDE DEF skip, start
  <2>4. RunGoesOn(p, skip) /\ RunGoesOn(p, start)
    BY <2>1, <2>3 DEF RunGoesOn
  <2> QED
    BY <2>2, <2>4, RunStep
<1>6. ASSUME NEW t \in Titles, F!Play(p, t)
      PROVE  PackageInv'
  <2> DEFINE r == [F!Idle EXCEPT !.at = "playing", !.title = t, !.keys = keys[t]]
  <2>1. DOMAIN r = RunFields /\ r.at = "playing" /\ r.title = t
    BY NoRunFields DEF RunFields
  <2>2. fproc' = [fproc EXCEPT ![p] = r]
    BY <1>6 DEF F!Play
  <2> HIDE DEF r
  <2> QED
    BY <2>1, <2>2, RunStep DEF RunGoesOn
<1>7. ASSUME NEW f, NEW inline, F!RequestLicense(p, f, inline)
      PROVE  PackageInv'
  <2> DEFINE stage == IF inline THEN "transfer" ELSE "certificate"
             r == [fproc[p] EXCEPT !.format = f, !.at = stage]
  <2>1. DOMAIN r = RunFields /\ r.at = stage /\ r.title = fproc[p].title
    BY <1>1 DEF RunFields
  <2>2. fproc' = [fproc EXCEPT ![p] = r]
    BY <1>1, <1>7 DEF F!RequestLicense
  <2>3. fproc[p].title \in Titles
    BY <1>7 DEF F!RequestLicense, F!At, PackageInv
  <2> HIDE DEF r
  <2>4. RunGoesOn(p, r)
    BY <2>1, <2>3 DEF RunGoesOn
  <2> QED
    BY <2>2, <2>4, RunStep
<1>8. CASE F!RequestCertificate(p) \/ F!WriteKeys(p)
  <2>1. PICK stage \in {"transfer", "displace"} : F!Goto(p, stage)
    BY <1>8 DEF F!RequestCertificate, F!WriteKeys
  <2>2. fproc[p].at \notin {"idle", "next"}
    BY <1>8 DEF F!RequestCertificate, F!WriteKeys, F!At
  <2>3. fproc' = [fproc EXCEPT ![p] = [fproc[p] EXCEPT !.at = stage]]
    BY <1>1, <2>1 DEF F!Goto
  <2>4. RunGoesOn(p, [fproc[p] EXCEPT !.at = stage])
    BY <2>2, GotoGoesOn
  <2> QED
    BY <2>3, <2>4, RunStep
<1>9. CASE F!Save(p)
  <2> DEFINE mine == [fproc[p].index EXCEPT ![fproc[p].title] =
                        [format |-> fproc[p].format, place |-> "target"]]
             r == [fproc[p] EXCEPT !.index = mine, !.todo = @ \ {fproc[p].title}, !.at = "next"]
  <2>1. DOMAIN r = RunFields /\ r.at = "next"
    BY <1>1 DEF RunFields
  <2>2. fproc' = [fproc EXCEPT ![p] = r]
    BY <1>1, <1>9 DEF F!Save
  <2> HIDE DEF r
  <2> QED
    BY <2>1, <2>2, RunStep DEF RunGoesOn
<1> QED
  BY <1>2, <1>3, <1>4, <1>5, <1>6, <1>7, <1>8, <1>9
     DEF F!Done, F!Interrupt, F!Refused, F!EndPlay, F!Killed

(* The steps of a title's package, one place at a time.                    *)
LEMMA PackageRun ==
  ASSUME OneDownload, PackageInv, NEW p \in Procs,
         \/ F!Transfer(p) \/ F!TransferFails(p) \/ F!Displace(p) \/ F!BeginCopy(p)
         \/ F!RemoveSource(p) \/ F!DiskFails(p) \/ F!Record(p)
  PROVE  PackageInv'
<1> DEFINE t == fproc[p].title
<1>1. /\ fproc[p].at \notin {"idle", "next"} /\ t \in Titles /\ DOMAIN fproc = Procs
  BY DEF F!Transfer, F!TransferFails, F!Displace, F!BeginCopy, F!RemoveSource,
         F!DiskFails, F!Record, F!At, PackageInv
<1>2. p \in F!Places /\ "partial" \in F!Places /\ "target" \in F!Places /\ p # "partial"
  BY DEF F!Places, OneDownload
<1>3. ASSUME NEW stage, stage # "copied", F!Goto(p, stage)
      PROVE  \E r : fproc' = [fproc EXCEPT ![p] = r] /\ RunGoesOn(p, r) /\ r.at # "copied"
  <2> DEFINE r == [fproc[p] EXCEPT !.at = stage]
  <2>1. fproc' = [fproc EXCEPT ![p] = r] /\ r.at = stage
    BY <1>1, <1>3 DEF F!Goto, PackageInv, RunFields
  <2>2. RunGoesOn(p, r)
    BY <1>1, <1>3, GotoGoesOn
  <2> HIDE DEF r
  <2> QED
    BY <1>3, <2>1, <2>2
<1>4. ASSUME F!Fail(p)
      PROVE  \E r : fproc' = [fproc EXCEPT ![p] = r] /\ RunGoesOn(p, r) /\ r.at # "copied"
  BY <1>4, FailGoesOn
<1> HIDE DEF t
<1>5. ASSUME NEW place, NEW new, package' = [package EXCEPT ![t][place] = new],
             new # F!NoPackage /\ place # "partial" => new.whole,
             NEW r, fproc' = [fproc EXCEPT ![p] = r], RunGoesOn(p, r), r.at # "copied"
      PROVE  PackageInv'
  BY <1>1, <1>5, PackageStep
<1>6. CASE F!Transfer(p)
  <2> DEFINE new == [format |-> fproc[p].format, whole |-> TRUE]
  <2>1. F!Goto(p, "keys") /\ package' = [package EXCEPT ![t][p] = new] /\ new.whole
    BY <1>6 DEF F!Transfer, t
  <2> HIDE DEF new
  <2> QED
    BY <1>2, <1>3, <1>5, <2>1
<1>7. CASE F!TransferFails(p)
  <2>1. F!Fail(p) /\ package' = [package EXCEPT ![t][p] = F!NoPackage]
    BY <1>7 DEF F!TransferFails, t
  <2> QED
    BY <1>2, <1>4, <1>5, <2>1
<1>8. CASE F!Displace(p)
  <2>1. F!Goto(p, "move") /\ package' = [package EXCEPT ![t]["target"] = F!NoPackage]
    BY <1>8 DEF F!Displace, t
  <2> QED
    BY <1>2, <1>3, <1>5, <2>1
<1>9. CASE F!BeginCopy(p)
  <2> DEFINE new == [format |-> fproc[p].format, whole |-> FALSE]
  <2>1. F!Goto(p, "copy") /\ package' = [package EXCEPT ![t]["partial"] = new]
    BY <1>9 DEF F!BeginCopy, t
  <2> HIDE DEF new
  <2> QED
    BY <1>2, <1>3, <1>5, <2>1
<1>10. CASE F!RemoveSource(p)
  <2>1. F!Goto(p, "record") /\ package' = [package EXCEPT ![t][p] = F!NoPackage]
    BY <1>10 DEF F!RemoveSource, t
  <2> QED
    BY <1>2, <1>3, <1>5, <2>1
<1>11. CASE F!DiskFails(p)
  <2>1. F!Fail(p) /\ (UNCHANGED package \/ package' = [package EXCEPT ![t][p] = F!NoPackage])
    BY <1>11 DEF F!DiskFails, t
  <2>2. CASE UNCHANGED package
    BY <1>4, <2>1, <2>2, RunStep
  <2>3. CASE package' = [package EXCEPT ![t][p] = F!NoPackage]
    BY <1>2, <1>4, <1>5, <2>1, <2>3
  <2> QED
    BY <2>1, <2>2, <2>3
<1>12. CASE F!Record(p)
  <2> DEFINE place == fproc[p].index[t].place
             new == IF place = "target" THEN package[t][place] ELSE F!NoPackage
  <2>1. F!Goto(p, "save") /\ package' = [package EXCEPT ![t][place] = new]
    BY <1>12 DEF F!Record, t
  <2>2. new # F!NoPackage => new.whole
    BY <1>1 DEF PackageInv, PackageIsWhole, F!PackageIsWhole, F!Exists
  <2> HIDE DEF new, place
  <2> QED
    BY <1>3, <1>5, <2>1, <2>2
<1> QED
  BY <1>6, <1>7, <1>8, <1>9, <1>10, <1>11, <1>12

(* The steps that move a package, and the one that completes a copy.       *)
LEMMA MoveRun ==
  ASSUME OneDownload, PackageInv, NEW p \in Procs,
         F!Move(p) \/ F!RenameCopy(p) \/ F!EndCopy(p)
  PROVE  PackageInv'
<1> DEFINE t == fproc[p].title
<1>1. /\ fproc[p].at \notin {"idle", "next"} /\ t \in Titles /\ DOMAIN fproc = Procs
      /\ DOMAIN fproc[p] = RunFields /\ DOMAIN package = Titles
      /\ \A u \in Titles : DOMAIN package[u] = F!Places
  BY DEF F!Move, F!RenameCopy, F!EndCopy, F!At, PackageInv
<1>2. p \in F!Places /\ Procs \subseteq F!Places /\ p # "partial" /\ p # "target"
      /\ "partial" \in F!Places /\ "target" \in F!Places
  BY DEF F!Places, OneDownload
<1>3. \A q \in Procs : q = p
  BY DEF OneDownload
<1>4. ASSUME NEW stage, F!Goto(p, stage)
      PROVE  /\ DOMAIN fproc' = Procs /\ DOMAIN fproc'[p] = RunFields
             /\ fproc'[p].at = stage /\ fproc'[p].title = t
  BY <1>1, <1>4 DEF F!Goto, RunFields
<1>5. \A u \in Titles : Whole(u, "target") /\ Whole(u, p)
  BY DEF PackageInv, PackageIsWhole, F!PackageIsWhole, Whole
<1> HIDE DEF t
<1>6. ASSUME NEW stage \in {"record", "clean"}, F!Goto(p, stage),
             NEW place, place \in {p, "partial"}, Whole(t, place),
             package' = [package EXCEPT ![t]["target"] = package[t][place],
                                        ![t][place] = F!NoPackage]
      PROVE  PackageInv'
  <2>1. /\ DOMAIN package' = Titles
        /\ \A u \in Titles : DOMAIN package'[u] = F!Places
        /\ \A u \in Titles, x \in F!Places :
              package'[u][x] = IF u = t /\ x = place THEN F!NoPackage
                               ELSE IF u = t /\ x = "target" THEN package[t][place]
                               ELSE package[u][x]
    BY <1>1, <1>2, <1>6
  <2>2. \A u \in Titles : Whole(u, "target")' /\ Whole(u, p)'
    BY <1>2, <1>5, <1>6, <2>1 DEF Whole, F!Exists
  <2>3. PackageIsWhole'
    BY <2>2 DEF PackageIsWhole, F!PackageIsWhole, Whole
  <2> QED
    BY <1>1, <1>3, <1>4, <1>6, <2>1, <2>2, <2>3 DEF PackageInv
<1>7. CASE F!Move(p)
  BY <1>5, <1>1, <1>6, <1>7 DEF F!Move, t
<1>8. CASE F!RenameCopy(p)
  <2>1. Whole(t, "partial")
    BY <1>8 DEF F!RenameCopy, F!At, PackageInv, t
  <2> QED
    BY <1>6, <1>8, <2>1 DEF F!RenameCopy, t
<1>9. CASE F!EndCopy(p)
  <2> DEFINE new == [format |-> fproc[p].format, whole |-> TRUE]
  <2>1. F!Goto(p, "copied") /\ package' = [package EXCEPT ![t]["partial"] = new]
    BY <1>9 DEF F!EndCopy, t
  <2>2. new.whole
    OBVIOUS
  <2> HIDE DEF new
  <2>3. /\ DOMAIN package' = Titles
        /\ \A u \in Titles : DOMAIN package'[u] = F!Places
        /\ \A u \in Titles, x \in F!Places :
              package'[u][x] = IF u = t /\ x = "partial" THEN new ELSE package[u][x]
    BY <1>1, <1>2, <2>1
  <2>4. \A u \in Titles : Whole(u, "target")' /\ Whole(u, p)'
    BY <1>2, <1>5, <2>3 DEF Whole, F!Exists
  <2>5. PackageIsWhole'
    BY <2>4 DEF PackageIsWhole, F!PackageIsWhole, Whole
  <2>6. fproc'[p].title = t /\ DOMAIN fproc' = Procs /\ DOMAIN fproc'[p] = RunFields
    BY <1>4, <2>1
  <2>7. Whole(fproc[p].title, "partial")'
    BY <1>1, <1>2, <2>2, <2>3, <2>6 DEF Whole
  <2> QED
    BY <1>1, <1>3, <2>3, <2>4, <2>5, <2>6, <2>7 DEF PackageInv
<1> QED
  BY <1>7, <1>8, <1>9

(* macOS takes a package away.                                             *)
LEMMA PurgeKeepsWhole ==
  ASSUME PackageInv, NEW t \in Titles, NEW place \in F!Places, F!Purge(t, place)
  PROVE  PackageInv'
<1>1. UNCHANGED fproc
  BY DEF F!Purge
<1>2. /\ DOMAIN package' = Titles
      /\ \A u \in Titles : DOMAIN package'[u] = F!Places
      /\ \A u \in Titles, x \in F!Places :
            package'[u][x] = IF u = t /\ x = place THEN F!NoPackage ELSE package[u][x]
  BY DEF F!Purge, PackageInv
<1>3. \A u \in Titles, x \in F!Places : Whole(u, x) => Whole(u, x)'
  BY <1>2 DEF Whole, F!Exists
<1>4. Procs \subseteq F!Places /\ "partial" \in F!Places /\ "target" \in F!Places
  BY DEF F!Places
<1>5. PackageIsWhole'
  <2>1. \A u \in Titles : Whole(u, "target")
    BY DEF PackageInv, PackageIsWhole, F!PackageIsWhole, Whole
  <2>2. \A u \in Titles : Whole(u, "target")'
    BY <1>3, <1>4, <2>1
  <2> QED
    BY <2>2 DEF PackageIsWhole, F!PackageIsWhole, Whole
<1>6. ASSUME NEW q \in Procs, fproc[q].at = "copied"
      PROVE  Whole(fproc[q].title, "partial")'
  <2>1. fproc[q].title \in Titles /\ Whole(fproc[q].title, "partial")
    BY <1>6 DEF PackageInv
  <2>2. PICK u \in Titles : u = fproc[q].title
    BY <2>1
  <2>3. Whole(u, "partial")'
    BY <1>3, <1>4, <2>1, <2>2
  <2> QED
    BY <1>1, <2>2, <2>3
<1>7. \A u \in Titles, q \in Procs : Whole(u, q)'
  BY <1>3, <1>4 DEF PackageInv
<1> QED
  BY <1>1, <1>2, <1>5, <1>6, <1>7 DEF PackageInv

(* Every step keeps the packages whole.                                    *)
LEMMA PackageNext ==
  ASSUME OneDownload, PackageInv, [F!FNext]_(F!fpvars)
  PROVE  PackageInv'
<1>1. CASE UNCHANGED F!fpvars
  <2>1. UNCHANGED <<fproc, package>>
    BY <1>1 DEF F!fpvars
  <2> QED
    BY <2>1 DEF PackageInv, PackageIsWhole, F!PackageIsWhole, Whole, F!Exists
<1>2. ASSUME NEW p \in Procs,
             \/ \E asked, missing, force : F!Download(p, asked, missing, force)
             \/ F!Done(p) \/ F!Interrupt(p)
             \/ \E t \in Titles : F!Next1(p, t) \/ F!Play(p, t)
             \/ \E f, inline : F!RequestLicense(p, f, inline)
             \/ F!Refused(p) \/ F!RequestCertificate(p) \/ F!WriteKeys(p) \/ F!Save(p)
             \/ \E renewed : F!EndPlay(p, renewed)
             \/ F!Killed(p)
      PROVE  PackageInv'
  <2>1. UNCHANGED package
    BY <1>2 DEF F!Download, F!Done, F!Interrupt, F!Next1, F!Play, F!RequestLicense, F!Refused,
                F!RequestCertificate, F!WriteKeys, F!Save, F!EndPlay, F!Killed
  <2> QED
    BY <1>2, <2>1, QuietRun
<1>3. ASSUME NEW p \in Procs,
             \/ \E asked \in (SUBSET Titles) \ {{}}, missing, force \in BOOLEAN :
                   F!Download(p, asked, missing, force)
             \/ F!Done(p) \/ F!Interrupt(p)
             \/ \E t \in Titles : F!Next1(p, t) \/ F!Play(p, t)
             \/ \E f \in Formats, inline \in BOOLEAN : F!RequestLicense(p, f, inline)
             \/ F!Refused(p) \/ F!RequestCertificate(p) \/ F!Transfer(p) \/ F!TransferFails(p)
             \/ F!WriteKeys(p) \/ F!Displace(p) \/ F!Move(p) \/ F!BeginCopy(p) \/ F!EndCopy(p)
             \/ F!RenameCopy(p) \/ F!RemoveSource(p) \/ F!DiskFails(p) \/ F!Record(p) \/ F!Save(p)
             \/ \E renewed \in BOOLEAN : F!EndPlay(p, renewed)
             \/ F!Killed(p)
      PROVE  PackageInv'
  BY <1>2, <1>3, PackageRun, MoveRun
<1> QED
  BY <1>1, <1>3, PurgeKeepsWhole DEF F!FNext

(* A package under its name in the store is whole, wherever a download was *)
(* interrupted, as long as downloads do not overlap.                       *)
THEOREM StoreHoldsWholePackages == OneDownload => (F!FSpec => []PackageIsWhole)
<1> SUFFICES ASSUME OneDownload PROVE F!FSpec => []PackageIsWhole
  OBVIOUS
<1>1. F!FInit => PackageInv
  <2> SUFFICES ASSUME F!FInit PROVE PackageInv
    OBVIOUS
  <2> DEFINE there(f) == [format |-> f, whole |-> TRUE]
  <2>0. PICK t \in Titles, f \in Formats, old \in BOOLEAN :
           LET has(u) == old /\ u = t IN
           package = [u \in Titles |-> [x \in F!Places |->
                        IF has(u) /\ x = "earlier" THEN there(f) ELSE F!NoPackage]]
    BY Zenon DEF F!FInit
  <2>1. /\ package = [u \in Titles |-> [x \in F!Places |-> package[u][x]]]
        /\ \A u \in Titles, x \in F!Places : package[u][x] \in {there(f), F!NoPackage}
    <3> HIDE DEF there
    <3> QED
      BY <2>0
  <2>2. \A u \in Titles, x \in F!Places : package[u][x] # F!NoPackage => package[u][x].whole
    <3>1. there(f).whole
      OBVIOUS
    <3> HIDE DEF there
    <3> QED
      BY <2>1, <3>1
  <2>3. DOMAIN package = Titles /\ \A u \in Titles : DOMAIN package[u] = F!Places
    BY <2>1
  <2>4. Procs \subseteq F!Places /\ "target" \in F!Places
    BY DEF F!Places
  <2>5. fproc = [p \in Procs |-> F!Idle]
    BY DEF F!FInit
  <2> QED
    BY <2>2, <2>3, <2>4, <2>5, NoRunFields
       DEF PackageInv, PackageIsWhole, F!PackageIsWhole, F!Exists, Whole
<1>2. PackageInv /\ [F!FNext]_(F!fpvars) => PackageInv'
  BY PackageNext
<1>3. PackageInv => PackageIsWhole
  BY DEF PackageInv
<1> QED
  BY <1>1, <1>2, <1>3, PTL DEF F!FSpec

-----------------------------------------------------------------------------
(* An item: what was recorded once is not downloaded again.                *)

(* The titles are asked for in one quality.                                *)
OneQuality == \E q : Qualities = {q}

(* The locals of a run.                                                    *)
ItemFields == {"at", "opt", "todo", "dash", "granted", "source", "request", "key", "got"}

(* The request a file of audio answers.                                    *)
Fits(request, f) ==
    \/ f \in {"aaxc", "m4b"} /\ request \in {"adrm"} \X Qualities
    \/ f \in {"cenc", "widevine m4b"} /\ request \in {"widevine"} \X Qualities
    \/ f = "mp3" /\ request = I!Mpeg

RecordsFit == \A r \in records : r.kind = "audio" => Fits(r.request, r.file)

(* Audio that was recorded still is, as its original or decrypted.         *)
Standing(request) == \E r \in records : r.kind = "audio" /\ r.request = request

FetchedStand == \A request \in fetched : Standing(request)

(* What a run's locals say of each other at its steps.                     *)
Decrypted(r) == \E s \in records : /\ s.kind = "audio" /\ s.variant = "decrypted"
                                   /\ s.request = r.request

RunFits(r) ==
    /\ DOMAIN r = ItemFields
    /\ r.at # "idle" => r.opt.quality \in Qualities
    /\ r.at \in {"skip", "license"} => ~r.got
    /\ r.at = "artifacts" /\ "audio" \in r.todo /\ ~r.dash =>
          r.request \in ({"adrm"} \X Qualities) \cup {I!Mpeg}
    /\ r.at = "artifacts" /\ r.got => Fits(r.request, r.source)
    /\ r.at \in {"voucher", "record"} => Fits(r.request, r.source)
    /\ r.at \in {"key", "cenc", "record cenc", "decrypt cenc"} =>
          r.source = "cenc" /\ Fits(r.request, "cenc")
    /\ r.at \in {"tool", "recorded", "remove source", "remove key", "drop record"} =>
          r.source \in {"aaxc", "cenc"} /\ Fits(r.request, r.source)
    /\ r.at \in {"decrypt cenc", "tool", "recorded", "remove source", "remove key",
                 "drop record"} => "audio" \notin r.todo
    /\ r.at \in {"remove source", "remove key", "drop record"} /\ r.opt.write => Decrypted(r)

(* A run that is to download has no candidate that was fetched before.     *)
Once(r) ==
    "audio" \in r.todo /\ r.at # "skip" /\ ~r.opt.force /\ r.opt.write
        => I!Candidates(r.opt) \cap fetched = {}

(* The inductive invariant.                                                *)
ItemInv ==
    /\ asset \in {"adrm", "widevine", "mpeg"}
    /\ RecordsFit /\ FetchedStand /\ RunFits(run) /\ Once(run)

-----------------------------------------------------------------------------

(* A run that is done.                                                     *)
LEMMA IdleRunFits ==
  /\ DOMAIN I!Idle = ItemFields /\ I!Idle.at = "idle" /\ I!Idle.todo = {} /\ I!Idle.got = FALSE
  BY DEF I!Idle, ItemFields

(* A run that is done fits whatever is recorded.                           *)
LEMMA IdleItem ==
  ASSUME NEW r, r = I!Idle
  PROVE  RunFits(r) /\ Once(r)
  BY IdleRunFits DEF RunFits, Once

(* In one quality a file answers one request.                              *)
LEMMA FitsIsFunction ==
  ASSUME OneQuality, NEW a, NEW b, NEW f, Fits(a, f), Fits(b, f)
  PROVE  a = b
<1>1. PICK q : Qualities = {q}
  BY DEF OneQuality
<1>2. /\ \A c \in {"adrm"} \X Qualities : c = <<"adrm", q>>
      /\ \A c \in {"widevine"} \X Qualities : c = <<"widevine", q>>
  BY <1>1
<1>3. ASSUME NEW c, Fits(c, f)
      PROVE  c = IF f \in {"aaxc", "m4b"} THEN <<"adrm", q>>
                 ELSE IF f = "mp3" THEN I!Mpeg ELSE <<"widevine", q>>
  BY <1>2, <1>3, Zenon DEF Fits
<1> QED
  BY <1>3

(* One row for an artifact, variant and file: the row it replaces answered *)
(* the same request.                                                       *)
LEMMA RecordedStands ==
  ASSUME OneQuality, RecordsFit, NEW r, r.kind = "audio" => Fits(r.request, r.file)
  PROVE  /\ \A s \in I!Recorded(r) : s.kind = "audio" => Fits(s.request, s.file)
         /\ \A s \in records : s.kind = "audio" =>
               \E u \in I!Recorded(r) : u.kind = "audio" /\ u.request = s.request
         /\ run.opt.write => r \in I!Recorded(r)
         /\ \A s \in records : s.kind = "audio" /\ r.kind = "audio" /\ r.variant # s.variant =>
               s \in I!Recorded(r)
<1>1. ASSUME NEW s \in records, s.kind = "audio", s \notin I!Recorded(r)
      PROVE  r \in I!Recorded(r) /\ r.kind = "audio" /\ r.request = s.request
  <2>1. r \in I!Recorded(r) /\ s.kind = r.kind /\ s.file = r.file
    BY <1>1 DEF I!Recorded
  <2>2. Fits(s.request, s.file) /\ Fits(r.request, r.file)
    BY <1>1, <2>1 DEF RecordsFit
  <2> QED
    BY <1>1, <2>1, <2>2, FitsIsFunction
<1>2. \A s \in I!Recorded(r) : s \in records \/ s = r
  BY DEF I!Recorded
<1>3. run.opt.write => r \in I!Recorded(r)
  BY DEF I!Recorded
<1>4. \A s \in records : s.variant # r.variant => s \in I!Recorded(r)
  BY DEF I!Recorded
<1> QED
  BY <1>1, <1>2, <1>3, <1>4 DEF RecordsFit

(* A step of a run that records nothing.                                   *)
LEMMA ItemStep ==
  ASSUME ItemInv, UNCHANGED <<asset, records, fetched>>, RunFits(run'), Once(run')
  PROVE  ItemInv'
<1>1. RunFits(run)' /\ Once(run)'
  BY DEF RunFits, Once, Decrypted, Fits
<1> QED
  BY <1>1 DEF ItemInv, RecordsFit, FetchedStand, Standing, Fits

(* A run that ends.                                                        *)
LEMMA ItemEnds ==
  ASSUME ItemInv, UNCHANGED <<asset, records, fetched>>, I!End
  PROVE  ItemInv'
  BY IdleItem, ItemStep DEF I!End

(* A run that goes on with the same locals.                                *)
LEMMA GotoFields ==
  ASSUME ItemInv, NEW stage, I!Goto(stage)
  PROVE  /\ DOMAIN run' = ItemFields /\ run'.at = stage
         /\ run'.opt = run.opt /\ run'.todo = run.todo /\ run'.dash = run.dash
         /\ run'.source = run.source /\ run'.request = run.request /\ run'.got = run.got
  BY DEF I!Goto, ItemInv, RunFits, ItemFields

(* Begin and skip: what is recorded is left out.                           *)
LEMMA BeginItem ==
  ASSUME ItemInv, NEW o \in I!Options, I!Begin(o)
  PROVE  ItemInv'
<1> DEFINE r == [I!Idle EXCEPT !.at = "skip", !.opt = o, !.todo = o.kinds, !.dash = o.widevine]
<1>1. DOMAIN r = ItemFields /\ r.at = "skip" /\ r.opt = o /\ ~r.got
  BY IdleRunFits DEF ItemFields
<1>2. run' = r /\ UNCHANGED <<asset, records, fetched>>
  BY DEF I!Begin
<1>3. o.quality \in Qualities
  BY DEF I!Options
<1> HIDE DEF r
<1>4. RunFits(r) /\ Once(r)
  BY <1>1, <1>3 DEF RunFits, Once
<1> QED
  BY <1>2, <1>4, ItemStep

(* What is recorded leaves the run's list.                                 *)
LEMMA SkipItem ==
  ASSUME ItemInv, I!Skip
  PROVE  ItemInv'
<1> DEFINE o == run.opt
           done == IF o.force \/ ~o.write THEN {}
                   ELSE {k \in run.todo : \/ k = "audio" /\ I!AudioRecorded(o)
                                          \/ k # "audio" /\ I!RecordedAs(k, "original") # {}}
           r == [run EXCEPT !.todo = run.todo \ done, !.at = "license"]
<1>1. (I!End \/ run' = r) /\ UNCHANGED <<asset, records, fetched>>
  BY DEF I!Skip
<1>2. /\ DOMAIN r = ItemFields /\ r.at = "license" /\ r.opt = run.opt
      /\ r.todo = run.todo \ done /\ ~r.got
  BY DEF I!Skip, I!At, ItemInv, RunFits, ItemFields
<1>3. run.opt.quality \in Qualities
  BY DEF I!Skip, I!At, ItemInv, RunFits
<1> HIDE DEF r
<1>4. RunFits(r)
  BY <1>2, <1>3 DEF RunFits
<1>5. Once(r)
  <2> SUFFICES ASSUME "audio" \in r.todo, ~o.force, o.write,
                      NEW k, k \in I!Candidates(o), k \in fetched
               PROVE  FALSE
    BY <1>2 DEF Once
  <2>1. ~I!AudioRecorded(o)
    BY <1>2
  <2>2. Standing(k)
    BY DEF ItemInv, FetchedStand
  <2> QED
    BY <2>1, <2>2 DEF Standing, I!AudioRecorded
<1> QED
  BY <1>1, <1>4, <1>5, ItemEnds, ItemStep

(* The license says what the audio is.                                     *)
LEMMA LicenseItem ==
  ASSUME ItemInv, I!NoLicense \/ I!ReuseLicense \/ I!AcquireLicense
  PROVE  ItemInv'
<1> DEFINE reuse == [run EXCEPT !.granted = license, !.at = "artifacts",
                                !.request = I!Resolved("adrm", run.opt)]
           dash == [run EXCEPT !.dash = TRUE, !.at = "artifacts"]
           granted == [run EXCEPT !.granted = encode, !.at = "artifacts",
                                  !.request = I!Resolved(asset, run.opt)]
           none == [run EXCEPT !.at = "artifacts"]
<1>1. /\ run.at = "license" /\ DOMAIN run = ItemFields /\ run.opt.quality \in Qualities
      /\ ~run.got /\ Once(run) /\ UNCHANGED <<asset, records, fetched>>
  BY DEF I!NoLicense, I!ReuseLicense, I!AcquireLicense, I!At, ItemInv, RunFits
<1>2. \/ run' = reuse \/ run' = dash
      \/ asset # "widevine" /\ run' = granted
      \/ ("audio" \notin run.todo \/ run.dash) /\ run' = none
  BY DEF I!NoLicense, I!ReuseLicense, I!AcquireLicense, I!Goto, I!WantsAaxc
<1>3. \A r \in {reuse, dash, granted, none} :
         /\ DOMAIN r = ItemFields /\ r.at = "artifacts" /\ r.opt = run.opt
         /\ r.todo = run.todo /\ ~r.got
  BY <1>1 DEF ItemFields
<1>4. /\ dash.dash /\ none.dash = run.dash
      /\ reuse.request = I!Resolved("adrm", run.opt) /\ granted.request = I!Resolved(asset, run.opt)
  BY <1>1 DEF ItemFields
<1>5. /\ I!Resolved("adrm", run.opt) \in {"adrm"} \X Qualities
      /\ asset # "widevine" =>
            I!Resolved(asset, run.opt) \in ({"adrm"} \X Qualities) \cup {I!Mpeg}
  BY <1>1 DEF I!Resolved, ItemInv
<1> HIDE DEF reuse, dash, granted, none
<1>6. RunFits(run')
  BY <1>1, <1>2, <1>3, <1>4, <1>5 DEF RunFits
<1>7. Once(run')
  BY <1>1, <1>2, <1>3 DEF Once
<1> QED
  BY <1>1, <1>6, <1>7, ItemStep

-----------------------------------------------------------------------------
(* The audio is fetched in the request its file answers.                   *)
LEMMA AudioItem ==
  ASSUME ItemInv, I!Audio
  PROVE  ItemInv'
<1> DEFINE f == IF run.request = I!Mpeg THEN "mp3" ELSE "aaxc"
           stage == IF f = "aaxc" THEN "voucher" ELSE "record"
           r == [run EXCEPT !.source = f, !.at = stage]
<1>1. /\ DOMAIN run = ItemFields /\ Once(run) /\ run.at = "artifacts"
      /\ run.opt.quality \in Qualities
      /\ run.request \in ({"adrm"} \X Qualities) \cup {I!Mpeg}
  BY DEF I!Audio, I!At, ItemInv, RunFits
<1>2. run' = r /\ UNCHANGED <<asset, records, fetched>>
  BY DEF I!Audio
<1>3. /\ DOMAIN r = ItemFields /\ r.at = stage /\ r.source = f /\ r.request = run.request
      /\ r.opt = run.opt /\ r.todo = run.todo
  BY <1>1 DEF ItemFields
<1>4. Fits(run.request, f)
  BY <1>1 DEF Fits
<1> HIDE DEF r
<1>5. RunFits(r) /\ Once(r)
  BY <1>1, <1>3, <1>4 DEF RunFits, Once
<1> QED
  BY <1>2, <1>5, ItemStep

(* Widevine audio is fetched as the request of its license.                *)
LEMMA WidevineItem ==
  ASSUME ItemInv, I!Widevine
  PROVE  ItemInv'
<1> DEFINE plain == [run EXCEPT !.source = "mp3", !.request = I!Mpeg, !.at = "record"]
           cenc == [run EXCEPT !.at = "key", !.granted = encode, !.source = "cenc",
                               !.request = I!Resolved("widevine", run.opt)]
<1>1. /\ DOMAIN run = ItemFields /\ Once(run) /\ run.at = "artifacts"
      /\ run.opt.quality \in Qualities
  BY DEF I!Widevine, I!At, ItemInv, RunFits
<1>2. (run' = plain \/ run' = cenc) /\ UNCHANGED <<asset, records, fetched>>
  BY DEF I!Widevine
<1>3. /\ DOMAIN plain = ItemFields /\ plain.at = "record" /\ plain.source = "mp3"
      /\ plain.request = I!Mpeg /\ plain.opt = run.opt /\ plain.todo = run.todo
  BY <1>1 DEF ItemFields
<1>4. /\ DOMAIN cenc = ItemFields /\ cenc.at = "key" /\ cenc.source = "cenc"
      /\ cenc.request = I!Resolved("widevine", run.opt)
      /\ cenc.opt = run.opt /\ cenc.todo = run.todo
  BY <1>1 DEF ItemFields
<1>5. Fits(I!Mpeg, "mp3") /\ Fits(I!Resolved("widevine", run.opt), "cenc")
  BY <1>1 DEF Fits, I!Resolved
<1> HIDE DEF plain, cenc
<1>6. RunFits(plain) /\ Once(plain) /\ RunFits(cenc) /\ Once(cenc)
  BY <1>1, <1>3, <1>4, <1>5 DEF RunFits, Once
<1> QED
  BY <1>2, <1>6, ItemStep

(* Steps on the way to a record, and from a decrypted one to the removal   *)
(* of its original.                                                        *)
LEMMA KeyItem ==
  ASSUME ItemInv, \/ \E b : I!WriteKeyfile(b) \/ I!RemoveKey(b)
                  \/ I!ContentKey \/ I!TransferCenc \/ I!ToolWrites \/ I!RemoveSource
  PROVE  ItemInv'
<1>1. UNCHANGED <<asset, records, fetched>> /\ DOMAIN run = ItemFields
  BY DEF I!WriteKeyfile, I!RemoveKey, I!ContentKey, I!TransferCenc, I!ToolWrites,
         I!RemoveSource, ItemInv, RunFits
<1>2. ASSUME NEW stage, run' = [run EXCEPT !.at = stage] \/ (\E k : run' = [run EXCEPT !.key = k, !.at = stage]),
             <<run.at, stage>> \in {<<"voucher", "record">>, <<"remove key", "drop record">>,
                <<"key", "cenc">>, <<"cenc", "record cenc">>, <<"tool", "recorded">>,
                <<"remove source", "remove key">>}
      PROVE  ItemInv'
  <2>1. /\ DOMAIN run' = ItemFields /\ run'.at = stage /\ run'.opt = run.opt /\ run'.todo = run.todo
        /\ run'.source = run.source /\ run'.request = run.request
    BY <1>1, <1>2 DEF ItemFields
  <2>2. RunFits(run') /\ Once(run')
    BY <1>2, <2>1 DEF ItemInv, RunFits, Once, Decrypted
  <2> QED
    BY <1>1, <2>2, ItemStep
<1>3. ASSUME NEW b, I!WriteKeyfile(b) \/ I!RemoveKey(b)
      PROVE  ItemInv'
  BY <1>2, <1>3 DEF I!WriteKeyfile, I!RemoveKey, I!At, I!Goto
<1>4. CASE I!ContentKey
  BY <1>2, <1>4 DEF I!ContentKey, I!At
<1>5. CASE I!TransferCenc \/ I!ToolWrites \/ I!RemoveSource
  BY <1>2, <1>5 DEF I!TransferCenc, I!ToolWrites, I!RemoveSource, I!At, I!Goto
<1> QED
  BY <1>3, <1>4, <1>5

(* The records.                                                            *)

(* Audio is recorded under the request its file answers, and is done.      *)
LEMMA OriginalItem ==
  ASSUME OneQuality, ItemInv, NEW r,
         r.kind = "audio", Fits(r.request, r.file),
         records' = I!Recorded(r), I!Remembered(r), UNCHANGED asset,
         "audio" \notin run'.todo, RunFits(run)'
  PROVE  ItemInv'
<1>1. RecordsFit /\ FetchedStand
  BY DEF ItemInv
<1>2. /\ \A s \in records' : s.kind = "audio" => Fits(s.request, s.file)
      /\ \A s \in records : s.kind = "audio" =>
            \E u \in records' : u.kind = "audio" /\ u.request = s.request
      /\ run.opt.write => r \in records'
  BY <1>1, RecordedStands
<1>3. RecordsFit'
  BY <1>2 DEF RecordsFit, Fits
<1>4. FetchedStand'
  <2>1. ASSUME NEW k \in fetched PROVE Standing(k)'
    BY <1>1, <1>2 DEF FetchedStand, Standing
  <2>2. \A k \in fetched' : k \in fetched \/ (k = r.request /\ run.opt.write)
    BY DEF I!Remembered
  <2>3. run.opt.write => Standing(r.request)'
    BY <1>2 DEF Standing
  <2> QED
    BY <2>1, <2>2, <2>3 DEF FetchedStand
<1>5. Once(run)'
  BY DEF Once
<1> QED
  BY <1>3, <1>4, <1>5 DEF ItemInv

(* The two records of audio.                                               *)
LEMMA RecordItem ==
  ASSUME OneQuality, ItemInv, I!RecordAudio \/ I!RecordCenc
  PROVE  ItemInv'
<1> DEFINE audio == [run EXCEPT !.todo = @ \ {"audio"}, !.at = "artifacts", !.got = TRUE]
           stage == IF run.opt.decrypt THEN "decrypt cenc" ELSE "artifacts"
           cenc == [run EXCEPT !.todo = @ \ {"audio"}, !.at = stage]
           row(f) == [kind |-> "audio", variant |-> "original", request |-> run.request,
                      file |-> f]
<1>1. /\ DOMAIN run = ItemFields /\ run.opt.quality \in Qualities /\ UNCHANGED asset
  BY DEF I!RecordAudio, I!RecordCenc, I!At, ItemInv, RunFits
<1>2. CASE I!RecordAudio
  <2>1. /\ run' = audio /\ records' = I!Recorded(row(run.source))
        /\ I!Remembered(row(run.source))
    BY <1>2 DEF I!RecordAudio
  <2>2. /\ DOMAIN audio = ItemFields /\ audio.at = "artifacts" /\ audio.opt = run.opt
        /\ "audio" \notin audio.todo /\ audio.source = run.source /\ audio.request = run.request
    BY <1>1 DEF ItemFields
  <2>3. Fits(run.request, run.source)
    BY <1>2 DEF I!RecordAudio, I!At, ItemInv, RunFits
  <2>4. row(run.source).kind = "audio" /\ Fits(row(run.source).request, row(run.source).file)
    BY <2>3
  <2> HIDE DEF audio, row
  <2>5. RunFits(run)'
    BY <1>1, <2>1, <2>2, <2>3 DEF RunFits, Fits
  <2> QED
    BY <1>1, <2>1, <2>2, <2>4, <2>5, OriginalItem
<1>3. CASE I!RecordCenc
  <2>1. /\ run' = cenc /\ records' = I!Recorded(row("cenc")) /\ I!Remembered(row("cenc"))
    BY <1>3 DEF I!RecordCenc
  <2>2. /\ DOMAIN cenc = ItemFields /\ cenc.at = stage /\ cenc.opt = run.opt
        /\ "audio" \notin cenc.todo /\ cenc.source = run.source /\ cenc.request = run.request
    BY <1>1 DEF ItemFields
  <2>3. run.source = "cenc" /\ Fits(run.request, "cenc")
    BY <1>3 DEF I!RecordCenc, I!At, ItemInv, RunFits
  <2>4. row("cenc").kind = "audio" /\ Fits(row("cenc").request, row("cenc").file)
    BY <2>3
  <2> HIDE DEF cenc, row
  <2>5. RunFits(run)'
    BY <1>1, <2>1, <2>2, <2>3 DEF RunFits, Fits
  <2> QED
    BY <1>1, <2>1, <2>2, <2>4, <2>5, OriginalItem
<1> QED
  BY <1>2, <1>3

(* Rows that come or go while every request that was recorded stands.      *)
LEMMA RecordsStep ==
  ASSUME ItemInv, UNCHANGED <<asset, fetched>>,
         \A s \in records' : s.kind = "audio" => Fits(s.request, s.file),
         \A s \in records : s.kind = "audio" =>
            \E u \in records' : u.kind = "audio" /\ u.request = s.request,
         RunFits(run)', Once(run')
  PROVE  ItemInv'
<1>1. RecordsFit'
  BY DEF RecordsFit, Fits
<1>2. FetchedStand'
  BY DEF ItemInv, FetchedStand, Standing
<1>3. Once(run)'
  BY DEF Once
<1> QED
  BY <1>1, <1>2, <1>3 DEF ItemInv

(* Other artifacts leave the audio's rows alone.                           *)
LEMMA ArtifactItem ==
  ASSUME OneQuality, ItemInv, NEW k, I!Artifact(k)
  PROVE  ItemInv'
<1> DEFINE r == [kind |-> k, variant |-> "original", request |-> I!NoKind, file |-> k]
           next == [run EXCEPT !.todo = @ \ {k}]
<1>1. /\ DOMAIN run = ItemFields /\ run.at = "artifacts" /\ "audio" \notin run.todo
      /\ k # "audio" /\ UNCHANGED <<asset, fetched>>
      /\ run' = next /\ (records' = records \/ records' = I!Recorded(r))
  BY DEF I!Artifact, I!At, ItemInv, RunFits
<1>2. /\ DOMAIN next = ItemFields /\ next.at = "artifacts" /\ "audio" \notin next.todo
      /\ next.source = run.source /\ next.request = run.request /\ next.got = run.got
      /\ next.opt = run.opt
  BY <1>1 DEF ItemFields
<1>3. r.kind # "audio"
  BY <1>1
<1> HIDE DEF r, next
<1>4. /\ \A s \in I!Recorded(r) : s.kind = "audio" => Fits(s.request, s.file)
      /\ \A s \in records : s.kind = "audio" =>
            \E u \in I!Recorded(r) : u.kind = "audio" /\ u.request = s.request
  BY <1>3, RecordedStands DEF ItemInv
<1>5. RunFits(run)' /\ Once(run')
  BY <1>1, <1>2 DEF ItemInv, RunFits, Once, Fits
<1>6. \A s \in records : s.kind = "audio" => Fits(s.request, s.file)
  BY DEF ItemInv, RecordsFit
<1> QED
  BY <1>1, <1>4, <1>5, <1>6, RecordsStep

-----------------------------------------------------------------------------
(* The decryption.                                                         *)
LEMMA DecryptItem ==
  ASSUME ItemInv, \/ I!DecryptCenc
                  \/ \E source, request : I!Decrypt(source, request)
  PROVE  ItemInv'
<1>1. CASE I!DecryptCenc
  <2>1. PICK stage \in {"artifacts", "tool"} : I!Goto(stage)
    BY <1>1 DEF I!DecryptCenc
  <2>2. run.at = "decrypt cenc" /\ UNCHANGED <<asset, records, fetched>>
    BY <1>1 DEF I!DecryptCenc, I!At
  <2>3. RunFits(run') /\ Once(run')
    BY <2>1, <2>2, GotoFields DEF ItemInv, RunFits, Once
  <2> QED
    BY <2>2, <2>3, ItemStep
<1>2. ASSUME NEW source, NEW request, I!Decrypt(source, request)
      PROVE  ItemInv'
  <2> DEFINE tool == [run EXCEPT !.at = "tool", !.source = source, !.request = request,
                                 !.key = file["voucher"]]
  <2>1. /\ DOMAIN run = ItemFields /\ run.at = "artifacts" /\ run.todo = {}
        /\ run.opt.quality \in Qualities /\ UNCHANGED <<asset, records, fetched>>
    BY <1>2 DEF I!Decrypt, I!AllDone, I!At, ItemInv, RunFits
  <2>2. I!End \/ (source = "aaxc" /\ run' = tool)
    BY <1>2 DEF I!Decrypt
  <2>3. /\ DOMAIN tool = ItemFields /\ tool.at = "tool" /\ tool.source = source
        /\ tool.request = request /\ tool.opt = run.opt /\ tool.todo = run.todo
    BY <2>1 DEF ItemFields
  <2>4. Fits(request, source)
    <3>1. \/ run.got /\ source = run.source /\ request = run.request
          \/ \E r \in records : r.kind = "audio" /\ r.file = source /\ request = r.request
      BY <1>2 DEF I!Decrypt, I!Source, I!RecordedAs
    <3> QED
      BY <2>1, <3>1 DEF ItemInv, RunFits, RecordsFit
  <2> HIDE DEF tool
  <2>5. CASE source = "aaxc" /\ run' = tool
    <3>1. RunFits(tool) /\ Once(tool)
      BY <2>1, <2>3, <2>4, <2>5 DEF RunFits, Once
    <3> QED
      BY <2>1, <2>5, <3>1, ItemStep
  <2> QED
    BY <2>1, <2>2, <2>5, ItemEnds
<1> QED
  BY <1>1, <1>2

(* The decrypted row is there before the original one goes.                *)
LEMMA RecordDecryptedItem ==
  ASSUME OneQuality, ItemInv, I!RecordDecrypted
  PROVE  ItemInv'
<1> DEFINE r == [kind |-> "audio", variant |-> "decrypted", request |-> run.request,
                 file |-> I!Playable(run.source)]
<1>1. /\ run.at = "recorded" /\ DOMAIN run = ItemFields /\ UNCHANGED <<asset, fetched>>
      /\ records' = I!Recorded(r)
      /\ I!End \/ I!Goto("artifacts") \/ I!Goto("remove source")
  BY DEF I!RecordDecrypted, I!At, ItemInv, RunFits
<1>2. Fits(run.request, run.source) /\ run.source \in {"aaxc", "cenc"} /\ "audio" \notin run.todo
  BY <1>1 DEF ItemInv, RunFits
<1>3. Fits(run.request, I!Playable(run.source))
  BY <1>2 DEF Fits, I!Playable
<1>4. /\ r.kind = "audio" /\ r.variant = "decrypted" /\ r.request = run.request
      /\ Fits(r.request, r.file)
  BY <1>3
<1> HIDE DEF r
<1>5. /\ \A s \in records' : s.kind = "audio" => Fits(s.request, s.file)
      /\ \A s \in records : s.kind = "audio" =>
            \E u \in records' : u.kind = "audio" /\ u.request = s.request
      /\ run.opt.write => r \in records'
  BY <1>1, <1>4, RecordedStands DEF ItemInv
<1>6. CASE I!End
  <2>1. run' = I!Idle
    BY <1>6 DEF I!End
  <2>2. RunFits(run)' /\ Once(run')
    BY <2>1, IdleRunFits DEF RunFits, Once
  <2> QED
    BY <1>1, <1>5, <2>2, RecordsStep
<1>7. ASSUME NEW stage \in {"artifacts", "remove source"}, I!Goto(stage)
      PROVE  ItemInv'
  <2>1. /\ DOMAIN run' = ItemFields /\ run'.at = stage
        /\ run'.opt = run.opt /\ run'.todo = run.todo /\ run'.dash = run.dash
        /\ run'.source = run.source /\ run'.request = run.request /\ run'.got = run.got
    BY <1>7, GotoFields
  <2>2. run.opt.write => Decrypted(run)'
    BY <1>4, <1>5, <2>1 DEF Decrypted
  <2>3. run.opt.quality \in Qualities
    BY <1>1 DEF ItemInv, RunFits
  <2>4. RunFits(run)' /\ Once(run')
    BY <1>2, <2>1, <2>2, <2>3 DEF RunFits, Once, Fits
  <2> QED
    BY <1>1, <1>5, <2>4, RecordsStep
<1> QED
  BY <1>1, <1>6, <1>7

(* The original row goes when the decrypted one stands.                    *)
LEMMA DropItem ==
  ASSUME OneQuality, ItemInv, I!DropOriginalRecord
  PROVE  ItemInv'
<1>1. /\ run.at = "drop record" /\ DOMAIN run = ItemFields /\ UNCHANGED <<asset, fetched>>
      /\ run.opt.quality \in Qualities /\ "audio" \notin run.todo
      /\ Fits(run.request, run.source)
      /\ I!End \/ I!Goto("artifacts")
  BY DEF I!DropOriginalRecord, I!At, ItemInv, RunFits
<1>2. records' \subseteq records
      /\ \A s \in records : s \notin records' =>
            run.opt.write /\ s.variant = "original" /\ s.file = run.source
  BY DEF I!DropOriginalRecord
<1>3. ASSUME NEW s \in records, s.kind = "audio"
      PROVE  \E u \in records' : u.kind = "audio" /\ u.request = s.request
  <2>1. CASE s \in records'
    BY <1>3, <2>1
  <2>2. CASE s \notin records'
    <3>1. run.opt.write /\ s.file = run.source /\ Fits(s.request, s.file)
      BY <1>2, <1>3, <2>2 DEF ItemInv, RecordsFit
    <3>2. s.request = run.request
      BY <1>1, <3>1, FitsIsFunction
    <3>3. PICK u \in records : u.kind = "audio" /\ u.variant = "decrypted" /\ u.request = run.request
      BY <1>1, <3>1 DEF ItemInv, RunFits, Decrypted
    <3>4. u \in records'
      BY <1>2, <3>3
    <3> QED
      BY <3>2, <3>3, <3>4
  <2> QED
    BY <2>1, <2>2
<1>4. \A s \in records' : s.kind = "audio" => Fits(s.request, s.file)
  BY <1>2 DEF ItemInv, RecordsFit
<1>5. RunFits(run)' /\ Once(run')
  <2>1. CASE I!End
    <3>1. run' = I!Idle
      BY <2>1 DEF I!End
    <3> QED
      BY <3>1, IdleRunFits DEF RunFits, Once
  <2>2. CASE I!Goto("artifacts")
    <3>1. /\ DOMAIN run' = ItemFields /\ run'.at = "artifacts"
          /\ run'.opt = run.opt /\ run'.todo = run.todo
          /\ run'.source = run.source /\ run'.request = run.request
      BY <2>2, GotoFields
    <3> QED
      BY <1>1, <3>1 DEF RunFits, Once, Fits
  <2> QED
    BY <1>1, <2>1, <2>2
<1> QED
  BY <1>1, <1>3, <1>4, <1>5, RecordsStep

(* Every step keeps the rows and the run's locals in agreement.            *)
LEMMA ItemNext ==
  ASSUME OneQuality, ItemInv, [I!INext]_(I!ivars)
  PROVE  ItemInv'
<1>1. I!Done \/ I!ToolFails \/ I!Fails \/ I!Killed => I!End /\ UNCHANGED <<asset, records, fetched>>
  BY DEF I!Done, I!ToolFails, I!Fails, I!Killed
<1>2. I!Reencoded \/ UNCHANGED I!ivars => UNCHANGED <<asset, records, fetched, run>>
  BY DEF I!Reencoded, I!ivars
<1>3. CASE UNCHANGED <<asset, records, fetched, run>>
  <2>1. RunFits(run') /\ Once(run')
    BY <1>3 DEF ItemInv
  <2> QED
    BY <1>3, <2>1, ItemStep
<1> QED
  BY <1>1, <1>2, <1>3, ItemEnds, BeginItem, SkipItem, LicenseItem, AudioItem, WidevineItem,
     KeyItem, RecordItem, ArtifactItem, DecryptItem, RecordDecryptedItem, DropItem
     DEF I!INext

(* A title's audio that was recorded once is not downloaded again without  *)
(* --force, also after its original was decrypted and removed, wherever    *)
(* runs were interrupted and whatever the server grants.                   *)
THEOREM AudioIsDownloadedOnce == OneQuality => (I!ISpec => []DownloadedOnce)
<1> SUFFICES ASSUME OneQuality PROVE I!ISpec => []DownloadedOnce
  OBVIOUS
<1>1. I!IInit => ItemInv
  BY IdleItem DEF I!IInit, ItemInv, RecordsFit, FetchedStand
<1>2. ItemInv /\ [I!INext]_(I!ivars) => ItemInv'
  BY ItemNext
<1>3. ItemInv => DownloadedOnce
  BY DEF ItemInv, Once, DownloadedOnce, I!DownloadedOnce, I!At
<1> QED
  BY <1>1, <1>2, <1>3, PTL DEF I!ISpec

-----------------------------------------------------------------------------
(* Releases: who is told to be up to date has no newer one of the track.   *)

(* A page of the API's answer names a release at least.                    *)
Pages == PageSize \in Nat \ {0}

(* Versions are numbers, and there are finitely many releases.             *)
Catalogued ==
    /\ IsFiniteSet(releases)
    /\ \A r \in releases : r.version \in Int
    /\ running.version \in Int
    /\ UpToDateIsNewest

(* The newer ones of a release.                                            *)
After(v) == {x \in releases : x.version > v}

(* A page reaches down without a gap, and holds something.                 *)
LEMMA PageIsNewest ==
  ASSUME Pages, Catalogued
  PROVE  /\ releases # {} => R!fetch_releases # {}
         /\ \A r \in releases \ R!fetch_releases :
               \A x \in R!fetch_releases : x.version > r.version
<1>1. ASSUME NEW v
      PROVE  IsFiniteSet(After(v)) /\ Cardinality(After(v)) \in Nat
  BY FS_Subset, FS_CardinalityType DEF After, Catalogued
<1>2. \A r : r \in R!fetch_releases <=> r \in releases /\ Cardinality(After(r.version)) < PageSize
  <2>1. \A T : R!Cardinality(T) = Cardinality(T)
    BY DEF R!Cardinality, Cardinality
  <2> QED
    BY <2>1 DEF R!fetch_releases, After
<1>3. ASSUME releases # {}
      PROVE  R!fetch_releases # {}
  <2> DEFINE f == [r \in releases |-> r.version]
  <2>1. PICK i \in releases : \A k \in releases : f[k] <= f[i]
    <3>1. \A k \in releases : f[k] \in Int
      BY DEF Catalogued
    <3> HIDE DEF f
    <3> QED
      BY <3>1, <1>3, Greatest DEF Catalogued
  <2>2. After(i.version) = {}
    BY <2>1 DEF After, Catalogued
  <2>3. Cardinality(After(i.version)) < PageSize
    BY <2>2, FS_EmptySet DEF Pages
  <2> QED
    BY <2>3, <1>2
<1>4. ASSUME NEW r \in releases, r \notin R!fetch_releases, NEW x \in R!fetch_releases,
             ~(x.version > r.version)
      PROVE  FALSE
  <2>1. x \in releases /\ Cardinality(After(x.version)) < PageSize
    BY <1>2
  <2>2. ~(Cardinality(After(r.version)) < PageSize)
    BY <1>2, <1>4
  <2>3. After(r.version) \in SUBSET After(x.version)
    BY <2>1, <1>4 DEF After, Catalogued
  <2>4. Cardinality(After(r.version)) <= Cardinality(After(x.version))
    BY <2>3, <1>1, FS_Subset
  <2>5. Cardinality(After(r.version)) \in Nat /\ Cardinality(After(x.version)) \in Nat
    BY <1>1
  <2> QED
    BY <2>1, <2>2, <2>4, <2>5 DEF Pages
<1> QED
  BY <1>3, <1>4

(* Nothing newer on the page that the track shows: nothing newer at all.   *)
LEMMA NothingNewer ==
  ASSUME Pages, Catalogued, NEW pre, R!SelectReleases(R!NewerOnes, pre) = {},
         NEW r \in releases, r.version > running.version
  PROVE  /\ r.prerelease /\ ~pre /\ ~running.prerelease
         /\ \E x \in releases : ~x.prerelease
<1> DEFINE tracking == R!TrackingPrereleases(R!NewerOnes, pre)
<1>1. \A x \in R!fetch_releases : x.version > running.version => ~tracking /\ x.prerelease
  BY DEF R!SelectReleases, R!Covers, R!Newer, R!NewerOnes, R!All, R!Installed, R!Slice
<1>2. R!fetch_releases \subseteq releases
  BY DEF R!fetch_releases
<1>3. PICK x \in R!fetch_releases :
         x.version > running.version /\ (x = r \/ \A y \in R!fetch_releases : y.version > r.version)
  <2>1. CASE r \in R!fetch_releases
    BY <2>1
  <2>2. CASE r \notin R!fetch_releases
    <3>1. \A y \in R!fetch_releases : y.version > r.version
      BY <2>2, PageIsNewest
    <3>2. PICK y \in R!fetch_releases : TRUE
      BY PageIsNewest
    <3>3. y.version > running.version
      BY <3>1, <1>2 DEF Catalogued
    <3> QED
      BY <3>1, <3>3
  <2> QED
    BY <2>1, <2>2
<1>4. ~tracking
  BY <1>1, <1>3
<1>5. ~pre /\ ~running.prerelease /\ \E y \in R!fetch_releases : ~y.prerelease
  BY <1>4 DEF R!TrackingPrereleases
<1>6. r.prerelease
  <2>1. CASE x = r
    BY <2>1, <1>1, <1>3
  <2>2. CASE \A y \in R!fetch_releases : y.version > r.version
    <3>1. \A y \in R!fetch_releases : y.version > running.version
      BY <2>2, <1>2 DEF Catalogued
    <3> QED
      BY <3>1, <1>1, <1>5
  <2> QED
    BY <2>1, <2>2, <1>3
<1> QED
  BY <1>2, <1>5, <1>6

(* A command answers or is silent, and changes nothing.                    *)
LEMMA OnlyAnswers ==
  ASSUME NEW x, R!Answers(x)
  PROVE  answer' \in {x, R!Nothing} /\ UNCHANGED <<releases, running>>
BY DEF R!Answers

(* Only the check says "up to date"; every other step takes it back.       *)
LEMMA ReleasesNext ==
  ASSUME Pages, Catalogued, [R!Next]_(R!rvars)
  PROVE  Catalogued'
<1>1. CASE R!Commits
  BY <1>1 DEF R!Commits, Catalogued, UpToDateIsNewest, R!UpToDateIsNewest, R!Nothing
<1>2. ASSUME NEW v \in R!Versions, NEW pre \in BOOLEAN, R!Publish(v, pre)
      PROVE  Catalogued'
  <2>1. releases' = releases \cup {[version |-> v, prerelease |-> pre, at |-> main]}
    BY <1>2 DEF R!Publish
  <2>2. IsFiniteSet(releases')
    BY <2>1, FS_AddElement DEF Catalogued
  <2>3. answer'.kind # "up to date" /\ UNCHANGED running
    BY <1>2 DEF R!Publish, R!Nothing
  <2>4. \A r \in releases' : r.version \in Int
    BY <2>1 DEF Catalogued, R!Versions
  <2> QED
    BY <2>2, <2>3, <2>4 DEF Catalogued, UpToDateIsNewest, R!UpToDateIsNewest
<1>3. ASSUME NEW r \in releases, R!Withdraw(r)
      PROVE  Catalogued'
  <2>1. releases' = releases \ {r} /\ answer'.kind # "up to date" /\ UNCHANGED running
    BY <1>3 DEF R!Withdraw, R!Nothing
  <2>2. IsFiniteSet(releases')
    BY <2>1, FS_RemoveElement DEF Catalogued
  <2> QED
    BY <2>1, <2>2 DEF Catalogued, UpToDateIsNewest, R!UpToDateIsNewest
<1>4. ASSUME NEW r \in releases, NEW source \in BOOLEAN, R!Install(r, source)
      PROVE  Catalogued'
  <2>1. running'.version = r.version /\ answer'.kind # "up to date" /\ UNCHANGED releases
    BY <1>4 DEF R!Install, R!Binary, R!Nothing
  <2> QED
    BY <2>1 DEF Catalogued, UpToDateIsNewest, R!UpToDateIsNewest
<1>5. ASSUME NEW pre \in BOOLEAN, R!Check(pre)
      PROVE  Catalogued'
  <2> DEFINE selected == R!SelectReleases(R!NewerOnes, pre)
             x == IF selected # {}
                  THEN [kind |-> "releases", releases |-> selected, pre |-> pre,
                        selection |-> R!NewerOnes, adds |-> {}]
                  ELSE IF running.commit # R!NoCommit THEN R!Nothing
                  ELSE [kind |-> "up to date", pre |-> pre]
  <2>0. R!Answers(x)
    BY <1>5 DEF R!Check, R!dev_commit
  <2>1. answer' \in {x, R!Nothing} /\ UNCHANGED <<releases, running>>
    <3> HIDE DEF x
    <3> QED
      BY <2>0, OnlyAnswers
  <2>2. ASSUME answer'.kind = "up to date"
        PROVE  /\ R!SelectReleases(R!NewerOnes, pre) = {}
               /\ running.commit = R!NoCommit /\ answer'.pre = pre
    <3>1. R!Nothing.kind # "up to date"
      BY DEF R!Nothing
    <3>2. answer' = x
      BY <2>1, <2>2, <3>1
    <3> QED
      BY <3>2, <2>2, <3>1
  <2>3. UpToDateIsNewest'
    BY <2>1, <2>2, NothingNewer DEF UpToDateIsNewest, R!UpToDateIsNewest
  <2> QED
    BY <2>1, <2>3 DEF Catalogued
<1>6. ASSUME UNCHANGED <<releases, running>>, answer'.kind # "up to date"
      PROVE  Catalogued'
  BY <1>6 DEF Catalogued, UpToDateIsNewest, R!UpToDateIsNewest
<1>7. ASSUME NEW pre \in BOOLEAN, NEW s \in R!Selections, R!Changelog(s, pre)
      PROVE  Catalogued'
  <2> DEFINE selected == R!SelectReleases(s, pre)
             x == IF selected = {} THEN R!Nothing
                  ELSE [kind |-> "releases", releases |-> selected, pre |-> pre, selection |-> s,
                        adds |-> IF s = R!Installed /\ R!dev_commit # R!NoCommit
                                 THEN R!Comparison(R!Newest(selected), R!dev_commit) ELSE {}]
  <2>1. R!Answers(x)
    BY <1>7 DEF R!Changelog
  <2>2. x.kind # "up to date"
    BY DEF R!Nothing
  <2> HIDE DEF x
  <2>3. answer' \in {x, R!Nothing} /\ UNCHANGED <<releases, running>>
    BY <2>1, OnlyAnswers
  <2>4. R!Nothing.kind # "up to date"
    BY DEF R!Nothing
  <2>5. answer'.kind # "up to date"
    BY <2>2, <2>3, <2>4
  <2>6. UNCHANGED <<releases, running>>
    BY <2>3
  <2> QED
    BY <2>5, <2>6, <1>6
<1>8. ASSUME NEW pre \in BOOLEAN, NEW pushed \in BOOLEAN, R!Unreleased(pre, pushed)
      PROVE  Catalogued'
  <2> DEFINE all == R!SelectReleases(R!All, pre)
             base == R!Newest(all)
             head == IF R!dev_commit # R!NoCommit /\ pushed THEN R!dev_commit ELSE main
             skipped == R!NewestSkippedPrerelease(base, R!TrackingPrereleases(R!All, pre))
             x == IF all = {} THEN R!Nothing
                  ELSE [kind |-> "unreleased", commits |-> R!Comparison(base, head),
                        skipped |-> skipped, pre |-> pre]
  <2>1. R!Answers(x)
    BY <1>8 DEF R!Unreleased
  <2>2. x.kind # "up to date"
    BY DEF R!Nothing
  <2> HIDE DEF x
  <2>3. answer' \in {x, R!Nothing} /\ UNCHANGED <<releases, running>>
    BY <2>1, OnlyAnswers
  <2>4. R!Nothing.kind # "up to date"
    BY DEF R!Nothing
  <2>5. answer'.kind # "up to date"
    BY <2>2, <2>3, <2>4
  <2>6. UNCHANGED <<releases, running>>
    BY <2>3
  <2> QED
    BY <2>5, <2>6, <1>6
<1>9. CASE UNCHANGED R!rvars
  BY <1>9 DEF R!rvars, Catalogued, UpToDateIsNewest, R!UpToDateIsNewest
<1> QED
  BY <1>1, <1>2, <1>3, <1>4, <1>5, <1>7, <1>8, <1>9 DEF R!Next

(* Who is told to be up to date runs a release and has missed none of the  *)
(* track, though only the newest page of the releases was read.            *)
THEOREM NoNewerReleaseIsHidden == Pages => (R!ReleasesSpec => []UpToDateIsNewest)
<1> SUFFICES ASSUME Pages
             PROVE  R!ReleasesSpec => []UpToDateIsNewest
  OBVIOUS
<1>1. R!Init => Catalogued
  <2> SUFFICES ASSUME R!Init
               PROVE  Catalogued
    OBVIOUS
  <2>1. PICK pre \in BOOLEAN : releases = {[version |-> 1, prerelease |-> pre, at |-> 1]}
    BY DEF R!Init
  <2>2. IsFiniteSet(releases)
    BY <2>1, FS_Singleton
  <2>3. \A r \in releases : r.version = 1
    BY <2>1
  <2>4. running.version = 1 /\ answer.kind = "nothing"
    BY <2>3 DEF R!Init, R!Binary, R!Nothing
  <2> QED
    BY <2>2, <2>3, <2>4 DEF Catalogued, UpToDateIsNewest, R!UpToDateIsNewest
<1>2. Catalogued /\ [R!Next]_(R!rvars) => Catalogued'
  BY ReleasesNext
<1>3. Catalogued => UpToDateIsNewest
  BY DEF Catalogued
<1> QED
  BY <1>1, <1>2, <1>3, PTL DEF R!ReleasesSpec
=============================================================================
