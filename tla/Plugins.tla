-------------------------------- MODULE Plugins --------------------------------
(***************************************************************************)
(* Plugins (src/plugins/, src/commands/plugin.rs): executables and Python  *)
(* scripts in the plugin directory, found by their file names.  `plugin    *)
(* add` lets a file describe itself before it is installed; a remote file  *)
(* is run only after the user agreed.  `audible <name>` describes the      *)
(* plugin again, serves the scopes of its manifest over a broker of its    *)
(* own, and ends the broker with the plugin.                               *)
(***************************************************************************)
EXTENDS FiniteSets

CONSTANTS Procs,         \* commands that may run at once
          Contents,      \* what a plugin file may be: \subseteq Content
          PythonVaries   \* whether the Python interpreter comes and goes

VARIABLES dir,           \* the plugin directory
          original,      \* the files `plugin add` is given
          python,        \* an interpreter is found
          proc           \* what each command does

pvars == <<dir, original, python, proc>>

Scopes == {"api", "invoke"}
Content == [exec : BOOLEAN, usable : BOOLEAN, scopes : SUBSET Scopes]
Gone == [exec |-> FALSE, usable |-> FALSE, scopes |-> {}]    \* no file, or part of one

(* Two files of one name, and one that is named as a built-in command.     *)
Files == {"audible-a", "cmd_a.py", "audible-list"}
Builtins == {"list"}
Name(f) == IF f = "audible-list" THEN "list" ELSE "a"
Python(f) == f = "cmd_a.py"

Entry == [kind : {"none", "file", "link"}, content : Content]
NoEntry == [kind |-> "none", content |-> Gone]

Steps == {"idle", "ask probe", "probe first", "ask install", "install", "probe", "land",
          "copy", "remove", "describe", "spawn", "run", "shutdown"}
Idle == [at |-> "idle", file |-> "audible-a", content |-> Gone, symlink |-> FALSE,
         remote |-> FALSE, agreed |-> FALSE, executed |-> FALSE, broken |-> FALSE,
         broker |-> {}]

-----------------------------------------------------------------------------
(* Discovery.                                                              *)

ContentAt(f) == IF dir[f].kind = "link" THEN original[f] ELSE dir[f].content
Dangling(f) == dir[f].kind = "link" /\ original[f] = Gone

(* Seeded fault: a symlink whose target is gone is passed over.            *)
ListedAlive(f) == dir[f].kind # "none" /\ ~Dangling(f) /\ (Python(f) => python)

(* Scripts are skipped without an interpreter; a dangling link is kept.    *)
Listed(f) == dir[f].kind # "none" /\ (Dangling(f) \/ (Python(f) => python))

(* The first file of a name wins.                                          *)
Discovered == {f \in Files : Listed(f) /\ (f = "cmd_a.py" => ~Listed("audible-a"))}

(* Why a discovered plugin cannot run, known before it is described.       *)
Broken(f) == \/ Dangling(f)
             \/ Name(f) \in Builtins
             \/ ~Python(f) /\ ~ContentAt(f).exec

(* What describe makes of a file.                                          *)
Described(content) == content.usable

-----------------------------------------------------------------------------
At(p, at) == proc[p].at = at
Goto(p, at) == proc' = [proc EXCEPT ![p].at = at]
End(p) == proc' = [proc EXCEPT ![p] = Idle]

PInit ==
    /\ dir = [f \in Files |-> NoEntry]
    /\ original \in [Files -> Contents]
    /\ python \in BOOLEAN
    /\ proc = [p \in Procs |-> Idle]

(* The checks of install.                                                  *)
Installable(f, content) ==
    /\ IF Python(f) THEN python ELSE content.exec
    /\ Name(f) \notin Builtins
    /\ \A g \in Discovered : Name(g) # Name(f)

(* plugin add FILE.                                                        *)
Add(p, f, symlink) ==
    /\ At(p, "idle")
    /\ original[f] # Gone /\ Installable(f, original[f])
    /\ proc' = [proc EXCEPT ![p] = [Idle EXCEPT !.at = "probe", !.file = f, !.symlink = symlink]]
    /\ UNCHANGED <<dir, original, python>>

(* Seeded fault: the download is described before the user is asked.       *)
FetchAndProbe(p, f, content) ==
    /\ At(p, "idle")
    /\ proc' = [proc EXCEPT ![p] = [Idle EXCEPT !.at = "ask probe", !.file = f, !.remote = TRUE,
                                    !.content = [content EXCEPT !.exec = TRUE], !.executed = TRUE]]
    /\ UNCHANGED <<dir, original, python>>

(* plugin add URL: into a temporary directory, executable.                 *)
Fetch(p, f, content) ==
    /\ At(p, "idle")
    /\ proc' = [proc EXCEPT ![p] = [Idle EXCEPT !.at = "ask probe", !.file = f, !.remote = TRUE,
                                    !.content = [content EXCEPT !.exec = TRUE]]]
    /\ UNCHANGED <<dir, original, python>>

(* The two questions; --yes answers both.                                  *)
Agree(p) ==
    /\ \/ At(p, "ask probe")
          /\ proc' = [proc EXCEPT ![p].at = "probe first", ![p].agreed = TRUE]
       \/ At(p, "ask install") /\ Goto(p, "install")
    /\ UNCHANGED <<dir, original, python>>

Decline(p) ==
    /\ At(p, "ask probe") \/ At(p, "ask install")
    /\ End(p)
    /\ UNCHANGED <<dir, original, python>>

(* The candidate describes itself: it is run.                              *)
ProbeFirst(p) ==
    /\ At(p, "probe first")
    /\ IF Described(proc[p].content) /\ (Python(proc[p].file) => python)
       THEN proc' = [proc EXCEPT ![p].at = "ask install", ![p].executed = TRUE] ELSE End(p)
    /\ UNCHANGED <<dir, original, python>>

Install(p) ==
    /\ At(p, "install")
    /\ IF Installable(proc[p].file, proc[p].content) THEN Goto(p, "probe") ELSE End(p)
    /\ UNCHANGED <<dir, original, python>>

Source(p) == IF proc[p].remote THEN proc[p].content ELSE original[proc[p].file]

Probe(p) ==
    /\ At(p, "probe")
    /\ IF Described(Source(p)) /\ (Python(proc[p].file) => python)
       THEN proc' = [proc EXCEPT ![p].at = "land", ![p].executed = TRUE] ELSE End(p)
    /\ UNCHANGED <<dir, original, python>>

(* An entry in the way is kept; a copy takes a while.                      *)
Land(p) ==
    /\ At(p, "land")
    /\ LET f == proc[p].file IN
          CASE dir[f].kind # "none" -> End(p) /\ UNCHANGED dir
            [] proc[p].symlink -> End(p) /\ dir' = [dir EXCEPT ![f] = [kind |-> "link", content |-> Gone]]
            [] Source(p) = Gone -> End(p) /\ UNCHANGED dir
            [] OTHER -> /\ proc' = [proc EXCEPT ![p].at = "copy", ![p].content = Source(p)]
                        /\ dir' = [dir EXCEPT ![f] = [kind |-> "file", content |-> Gone]]
    /\ UNCHANGED <<original, python>>

Copied(p) ==
    /\ At(p, "copy")
    /\ dir' = [dir EXCEPT ![proc[p].file] =
                  IF @.kind = "none" THEN @ ELSE [kind |-> "file", content |-> proc[p].content]]
    /\ End(p)
    /\ UNCHANGED <<original, python>>

(* plugin remove: the entry, never a link's target.                        *)
Find(p, f) ==
    /\ At(p, "idle") /\ f \in Discovered
    /\ proc' = [proc EXCEPT ![p] = [Idle EXCEPT !.at = "remove", !.file = f]]
    /\ UNCHANGED <<dir, original, python>>

Remove(p) ==
    /\ At(p, "remove")
    /\ dir' = [dir EXCEPT ![proc[p].file] = NoEntry]
    /\ End(p)
    /\ UNCHANGED <<original, python>>

-----------------------------------------------------------------------------
(* audible <name>: the plugin of a name that is no built-in command.       *)
RunExternal(p, f) ==
    /\ At(p, "idle") /\ f \in Discovered /\ Name(f) \notin Builtins
    /\ proc' = [proc EXCEPT ![p] = [Idle EXCEPT !.at = "describe", !.file = f, !.broken = Broken(f)]]
    /\ UNCHANGED <<dir, original, python>>

(* A plugin with scopes gets a broker, which may fail to start.            *)
Invoke(p) ==
    /\ At(p, "describe")
    /\ LET f == proc[p].file IN
          \/ /\ ~proc[p].broken /\ Described(ContentAt(f)) /\ (Python(f) => python)
             /\ proc' = [proc EXCEPT ![p].at = "spawn", ![p].broker = ContentAt(f).scopes]
          \/ /\ proc[p].broken \/ ~Described(ContentAt(f)) \/ (Python(f) /\ ~python)
                \/ ContentAt(f).scopes # {}
             /\ End(p)
    /\ UNCHANGED <<dir, original, python>>

Spawn(p) ==
    /\ At(p, "spawn")
    /\ LET f == proc[p].file IN
          IF ContentAt(f) = Gone \/ (Python(f) /\ ~python) THEN Goto(p, "shutdown") ELSE Goto(p, "run")
    /\ UNCHANGED <<dir, original, python>>

(* The plugin invokes a built-in command, which may itself be `plugin      *)
(* remove`, when its manifest has the scope.                               *)
InvokeBuiltin(p, f) ==
    /\ At(p, "run") /\ "invoke" \in proc[p].broker
    /\ f \in Discovered
    /\ dir' = [dir EXCEPT ![f] = NoEntry]
    /\ UNCHANGED <<original, python, proc>>

Exit(p) ==
    /\ At(p, "run")
    /\ Goto(p, "shutdown")
    /\ UNCHANGED <<dir, original, python>>

Shutdown(p) ==
    /\ At(p, "shutdown")
    /\ End(p)
    /\ UNCHANGED <<dir, original, python>>

-----------------------------------------------------------------------------
(* A command is killed: a copy stays as far as it came.                    *)
Die(p) ==
    /\ ~At(p, "idle")
    /\ End(p)
    /\ UNCHANGED <<dir, original, python>>

(* The files outside change, and vanish.                                   *)
EditOriginal(f, content) ==
    /\ original' = [original EXCEPT ![f] = content]
    /\ UNCHANGED <<dir, python, proc>>

InterpreterChanges ==
    /\ PythonVaries
    /\ python' = ~python
    /\ UNCHANGED <<dir, original, proc>>

PNext ==
    \/ \E p \in Procs :
          \/ \E f \in Files :
                \/ \E symlink \in BOOLEAN : Add(p, f, symlink)
                \/ \E content \in Contents : Fetch(p, f, content)
                \/ Find(p, f) \/ RunExternal(p, f) \/ InvokeBuiltin(p, f)
          \/ Agree(p) \/ Decline(p) \/ ProbeFirst(p) \/ Install(p) \/ Probe(p) \/ Land(p)
          \/ Copied(p) \/ Remove(p) \/ Invoke(p) \/ Spawn(p) \/ Exit(p) \/ Shutdown(p) \/ Die(p)
    \/ \E f \in Files, content \in Contents \cup {Gone} : EditOriginal(f, content)
    \/ InterpreterChanges

PSpec == PInit /\ [][PNext]_pvars

-----------------------------------------------------------------------------
(* The variables stay in their sets, whatever the steps.                   *)
PTypeOK ==
    /\ dir \in [Files -> Entry]
    /\ original \in [Files -> Contents \cup {Gone}]
    /\ \A p \in Procs :
          /\ proc[p].at \in Steps /\ proc[p].file \in Files
          /\ proc[p].broker # {} => proc[p].at \in {"spawn", "run", "shutdown"}

(* A download is run, by the probe of its manifest first of all, only      *)
(* after the user agreed to that (the comment of add_remote).              *)
ConsentBeforeCode ==
    \A p \in Procs : proc[p].remote /\ proc[p].executed => proc[p].agreed

(* A name is one file's: `plugin add` refuses a name that is installed,    *)
(* also when what it is installed as cannot run any more (the comment of   *)
(* install).                                                               *)
OneFilePerName ==
    \A f, g \in Files :
        dir[f].kind # "none" /\ dir[g].kind # "none" /\ Name(f) = Name(g) => f = g
=============================================================================
