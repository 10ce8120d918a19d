----------------------------- MODULE AccountsProofs -----------------------------
(***************************************************************************)
(* Theorems about an account, for any names, registrations, titles and     *)
(* requests: what commands and the agent leave of its files, the session   *)
(* behind a sign-in's code, what `library --sync` reports as reflected,    *)
(* exchanges of stale tokens, annotations that a run calls saved, saved    *)
(* requests, and the configuration file.  One section for each, with its   *)
(* inductive invariant.                                                    *)
(***************************************************************************)
EXTENDS MCAccounts, FiniteSetTheorems, WellFoundedInduction, TLAPS

-----------------------------------------------------------------------------
(* The account's files.                                                    *)

Open == [copy : Copy, pending : Scopes \cup {Nothing}]

(* The value for nothing is no passphrase and no record.                   *)
Distinct ==
    /\ Nothing \notin Passphrases /\ Plain \notin Passphrases
    /\ Nothing \notin Scopes
    /\ Nothing \notin AuthData /\ Nothing \notin Account /\ Nothing \notin Open
    /\ MaxReg \in Nat

Conf == [accounts : [Names -> Account \cup {Nothing}], default : Names \cup {Nothing}]

FilesTyped == authFiles \in [Names -> AuthData \cup {Nothing}]

Typed ==
    /\ config \in Conf /\ Valid(config)
    /\ passwords \in [Names -> Passphrases \cup {Nothing}]
    /\ FilesTyped
    /\ active \subseteq Regs /\ nextReg \in 0 .. MaxReg
    /\ session \in [Names -> Open \cup {Nothing}]

CmdFields == {"op", "name", "at", "arg", "conf", "mem"}

Material == [reg : Regs, access : Secret, cookies : Secret, act : Secret]

(* Amazon has forgotten the device whose material is in the file.          *)
Spent(f) == authFiles[f] # Nothing /\ authFiles[f].reg \notin active

(* What a command has loaded and what its steps so far have left: the      *)
(* material a logout is going to delete is spent, the entry a source is    *)
(* going to point at is there, and the entry that is going to be dropped   *)
(* has nothing that points at it.                                          *)
CommandFits ==
    cmd # Idle =>
        /\ DOMAIN cmd = CmdFields /\ cmd.name \in Names /\ cmd.conf \in Conf
        /\ (cmd.op = "login" /\ cmd.at = "save") => cmd.mem \in Material
        /\ cmd.op = "remove" => config.accounts[cmd.name] = Nothing
        /\ cmd.op \in {"remove", "logout"} => cmd.conf.accounts[cmd.name] \in Account
        /\ cmd.op = "logout" =>
              /\ cmd.at = "config" => config = cmd.conf
              /\ cmd.at # "config" => config.accounts[cmd.name] = Nothing
              /\ Spent(cmd.conf.accounts[cmd.name].file)
        /\ cmd.op = "passwordSet" => cmd.arg \in Passphrases
        /\ cmd.op = "sourceFile" => passwords[cmd.name] # Nothing
        /\ cmd.op = "sourcePrompt" =>
              config.accounts[cmd.name] = Nothing \/ config.accounts[cmd.name].source = "prompt"
        /\ cmd.op \in {"edit", "refresh"} => cmd.mem \in Copy
        /\ cmd.op = "edit" => cmd.arg \in {"access", "cookies", "act"}
        /\ cmd.op = "refresh" => cmd.arg \in Scopes

(* An account whose entry is missing is one that is being changed.         *)
Entries ==
    \A n \in Names \ spoiled :
        config.accounts[n] # Nothing /\ config.accounts[n].source = "file"
          => \/ passwords[n] # Nothing
             \/ At("passwordRemove", "config") /\ cmd.name = n

AccountsInv == Typed /\ CommandFits /\ Entries

-----------------------------------------------------------------------------
(* The operators.                                                          *)

(* A merge takes the scope's field from the copy, and nothing else.        *)
LEMMA Merged ==
  ASSUME NEW disk \in AuthData, NEW mine \in AuthData, NEW scope \in Scopes
  PROVE  LET m == [MergeScope(disk, mine, scope) EXCEPT !.pass = mine.pass]
         IN  /\ m \in AuthData
             /\ \A field \in {"reg", "access", "cookies", "act"} \ {scope} : m[field] = disk[field]
<1>1. CASE scope = "access"
  BY <1>1 DEF MergeScope, AuthData
<1>2. CASE scope = "cookies"
  BY <1>2 DEF MergeScope, AuthData
<1> QED
  BY <1>1, <1>2 DEF Scopes

(* One file is replaced.                                                   *)
LEMMA PersistTyped ==
  ASSUME FilesTyped, NEW f \in Names, NEW data \in AuthData \cup {Nothing}, Persist(f, data)
  PROVE  FilesTyped' /\ authFiles'[f] = data /\ \A g \in Names \ {f} : authFiles'[g] = authFiles[g]
BY DEF FilesTyped, Persist

(* A background write-back keeps each file, and of its fields all that it  *)
(* has not refreshed.                                                      *)
LEMMA WriteBack ==
  ASSUME Distinct, FilesTyped, NEW copy \in Copy, NEW scope \in Scopes, SaveMerged(copy, scope)
  PROVE  /\ FilesTyped'
         /\ \A f \in Names : authFiles[f] # Nothing =>
              /\ authFiles'[f] \in AuthData
              /\ \A field \in {"reg", "access", "cookies", "act"} \ {scope} :
                    authFiles'[f][field] = authFiles[f][field]
<1>1. copy.path \in Names /\ copy.data \in AuthData
  BY DEF Copy
<1> PICK disk \in AuthData \cup {Nothing} : disk = authFiles[copy.path]
  BY <1>1 DEF FilesTyped
<1>2. CASE disk = Nothing
  BY <1>1, <1>2, PersistTyped DEF SaveMerged, FilesTyped
<1>3. CASE disk # Nothing
  <2> DEFINE m == [MergeScope(disk, copy.data, scope) EXCEPT !.pass = copy.data.pass]
  <2>1. Persist(copy.path, m) \/ UNCHANGED authFiles
    BY <1>3 DEF SaveMerged
  <2>2. /\ m \in AuthData
        /\ \A field \in {"reg", "access", "cookies", "act"} \ {scope} : m[field] = disk[field]
    BY <1>1, <1>3, Merged
  <2> HIDE DEF m
  <2>3. CASE Persist(copy.path, m)
    BY <1>1, <2>2, <2>3, PersistTyped DEF FilesTyped
  <2>4. CASE UNCHANGED authFiles
    BY <2>4 DEF FilesTyped
  <2> QED
    BY <2>1, <2>3, <2>4
<1> QED
  BY <1>2, <1>3

(* What is loaded from an account that opens is the file of its entry.     *)
LEMMA LoadedFits ==
  ASSUME Distinct, Typed, NEW n \in Names, Opens(config, n)
  PROVE  /\ config.accounts[n] \in Account
         /\ Loaded(config, n) \in Copy
         /\ Loaded(config, n).path = config.accounts[n].file
         /\ Loaded(config, n).data = authFiles[config.accounts[n].file]
         /\ authFiles[config.accounts[n].file] \in AuthData
<1> PICK account \in Account \cup {Nothing} : account = config.accounts[n]
  BY DEF Typed, Conf
<1>1. account \in Account
  BY DEF Opens
<1>2. account.file \in Names
  BY <1>1 DEF Account
<1> PICK disk \in AuthData \cup {Nothing} : disk = authFiles[account.file]
  BY <1>2 DEF Typed, FilesTyped
<1>3. disk \in AuthData
  BY DEF Opens, Reads
<1>4. Resolved(config, n) \in Passphrases \cup {Nothing}
  <2>1. disk.pass \in Passphrases \cup {Plain}
    BY <1>3 DEF AuthData
  <2>2. passwords[n] \in Passphrases \cup {Nothing}
    BY DEF Typed
  <2> QED
    BY <2>1, <2>2 DEF Resolved
<1> QED
  BY <1>1, <1>2, <1>3, <1>4 DEF Loaded, Copy

(* The copy as a command or the agent refreshes it.                        *)
LEMMA Refreshed ==
  ASSUME NEW copy \in Copy, NEW scope \in Scopes
  PROVE  [copy EXCEPT !.data[scope] = copy.data.reg] \in Copy
<1>1. copy.data \in AuthData /\ copy.data.reg \in Secret
  BY DEF Copy, AuthData, Secret
<1>2. [copy.data EXCEPT ![scope] = copy.data.reg] \in AuthData
  BY <1>1 DEF AuthData, Scopes
<1> QED
  BY <1>2 DEF Copy

(* The edits of config.toml: each loads again, and changes what it says.   *)
LEMMA SourceEdit ==
  ASSUME Distinct, NEW conf \in Conf, Valid(conf), NEW n \in Names, NEW source \in {"prompt", "file"}
  PROVE  LET c == SetSource(conf, n, source)
         IN  /\ c \in Conf /\ Valid(c)
             /\ \A m \in Names \ {n} : c.accounts[m] = conf.accounts[m]
             /\ c.accounts[n] = Nothing \/ c.accounts[n].source = source
<1>1. CASE conf.accounts[n] = Nothing
  BY <1>1 DEF SetSource
<1>2. CASE conf.accounts[n] # Nothing
  <2> PICK account \in Account : account = conf.accounts[n]
    BY <1>2 DEF Conf
  <2> DEFINE moved == [account EXCEPT !.source = source]
  <2>1. moved \in Account /\ moved.source = source
    BY DEF Account
  <2> HIDE DEF moved
  <2> PICK c : c = [conf EXCEPT !.accounts = [conf.accounts EXCEPT ![n] = moved]]
    OBVIOUS
  <2>2. SetSource(conf, n, source) = c
    BY <1>2 DEF SetSource, moved, Conf
  <2>3. c \in Conf /\ c.default = conf.default /\ c.accounts = [conf.accounts EXCEPT ![n] = moved]
    BY <2>1 DEF Conf
  <2>4. moved # Nothing
    BY <2>1 DEF Distinct
  <2>5. c.accounts[n] = moved /\ \A m \in Names \ {n} : c.accounts[m] = conf.accounts[m]
    BY <2>3 DEF Conf
  <2>6. Valid(c)
    BY <1>2, <2>3, <2>4, <2>5 DEF Valid, Conf
  <2> QED
    BY <2>1, <2>2, <2>3, <2>5, <2>6
<1> QED
  BY <1>1, <1>2

(* An account goes with the default that names it.                         *)
LEMMA DropEdit ==
  ASSUME NEW conf \in Conf, Valid(conf), NEW n \in Names, NEW clears \in BOOLEAN,
         conf.default = n => clears
  PROVE  LET c == Dropped(conf, n, clears)
         IN  /\ c \in Conf /\ Valid(c) /\ c.accounts[n] = Nothing
             /\ \A m \in Names \ {n} : c.accounts[m] = conf.accounts[m]
  BY DEF Dropped, Conf, Valid

(* The table moves, and the default with it.                               *)
LEMMA RenameEdit ==
  ASSUME Distinct, NEW conf \in Conf, Valid(conf), NEW old \in Names, NEW new \in Names, old # new,
         conf.accounts[old] # Nothing
  PROVE  LET c == Renamed(conf, old, new)
         IN  /\ c \in Conf /\ Valid(c)
             /\ c.accounts[new] = conf.accounts[old] /\ c.accounts[old] = Nothing
             /\ \A m \in Names \ {old, new} : c.accounts[m] = conf.accounts[m]
  BY DEF Renamed, Conf, Valid

(* An entry that is replaced keeps its source, a new one asks.             *)
LEMMA RegisterEdit ==
  ASSUME Distinct, NEW conf \in Conf, Valid(conf), NEW n \in Names, NEW makeDefault \in BOOLEAN
  PROVE  LET c == Registered(conf, n, makeDefault)
         IN  /\ c \in Conf /\ Valid(c)
             /\ \A m \in Names \ {n} : c.accounts[m] = conf.accounts[m]
             /\ c.accounts[n].source = "file" =>
                   conf.accounts[n] # Nothing /\ conf.accounts[n].source = "file"
<1> DEFINE account == [file |-> n, source |-> IF conf.accounts[n] = Nothing THEN "prompt"
                                              ELSE conf.accounts[n].source]
<1>1. account \in Account
  <2>1. conf.accounts[n] # Nothing => conf.accounts[n].source \in {"prompt", "file"}
    BY DEF Conf, Account
  <2> QED
    BY <2>1 DEF Account
<1>2. account.source = "file" => conf.accounts[n] # Nothing /\ conf.accounts[n].source = "file"
  OBVIOUS
<1>3. account # Nothing
  BY <1>1 DEF Distinct
<1>4. Registered(conf, n, makeDefault) =
        [accounts |-> [conf.accounts EXCEPT ![n] = account],
         default |-> IF makeDefault THEN n ELSE conf.default]
  BY DEF Registered
<1> HIDE DEF account
<1> QED
  BY <1>1, <1>2, <1>3, <1>4 DEF Conf, Valid

(* A command starts, with the config it loads.                             *)
LEMMA Begun ==
  ASSUME NEW op, NEW n, NEW step, NEW arg, NEW mem, Start(op, n, step, arg, mem)
  PROVE  /\ cmd = Idle
         /\ step = "done" => cmd' = Idle
         /\ step # "done" =>
               /\ DOMAIN cmd' = CmdFields /\ cmd'.op = op /\ cmd'.name = n /\ cmd'.at = step
               /\ cmd'.arg = arg /\ cmd'.conf = config /\ cmd'.mem = mem
  BY DEF Start, CmdFields

(* The same of a command that is under way.                                *)
LEMMA Continued ==
  ASSUME CommandFits, cmd # Idle, NEW step, Goto(step)
  PROVE  /\ step = "done" => cmd' = Idle
         /\ step # "done" =>
               /\ DOMAIN cmd' = CmdFields /\ cmd'.op = cmd.op /\ cmd'.name = cmd.name
               /\ cmd'.at = step /\ cmd'.arg = cmd.arg /\ cmd'.conf = cmd.conf /\ cmd'.mem = cmd.mem
  BY DEF Goto, CommandFits, CmdFields

-----------------------------------------------------------------------------
(* The agent.                                                              *)

(* What a command relies on, where each file that is there stays that of   *)
(* its registration.                                                       *)
LEMMA FitsBeside ==
  ASSUME Distinct, AccountsInv, UNCHANGED <<config, passwords, active, cmd, spoiled>>,
         \A f \in Names : authFiles[f] # Nothing =>
            authFiles'[f] # Nothing /\ authFiles'[f].reg = authFiles[f].reg
  PROVE  CommandFits' /\ Entries'
<1>1. Entries'
  BY DEF AccountsInv, Entries, At
<1>2. ASSUME cmd # Idle, cmd.op \in {"remove", "logout"}
      PROVE  cmd.conf.accounts[cmd.name].file \in Names
  BY <1>2 DEF AccountsInv, CommandFits, Account
<1>3. ASSUME cmd # Idle, cmd.op = "logout"
      PROVE  Spent(cmd.conf.accounts[cmd.name].file)'
  BY <1>2, <1>3 DEF AccountsInv, CommandFits, Spent
<1>4. CommandFits'
  BY <1>3 DEF AccountsInv, CommandFits
<1> QED
  BY <1>1, <1>4

(* One session changes, and nothing on disk.                               *)
LEMMA SessionStep ==
  ASSUME Distinct, AccountsInv, NEW n \in Names, NEW s \in Open \cup {Nothing},
         session' = [session EXCEPT ![n] = s],
         UNCHANGED <<config, passwords, authFiles, active, nextReg, cmd, spoiled>>
  PROVE  AccountsInv'
<1>1. Typed'
  BY DEF AccountsInv, Typed, FilesTyped, Valid
<1> QED
  BY <1>1, FitsBeside DEF AccountsInv

(* An exchange: the copy in memory is renewed, under its lock.             *)
LEMMA SessionExchangeKeeps ==
  ASSUME Distinct, AccountsInv, NEW n \in Names, NEW scope \in Scopes, SessionExchange(n, scope)
  PROVE  AccountsInv'
<1> PICK s \in Open : s = session[n]
  BY DEF SessionExchange, AccountsInv, Typed
<1> PICK copy : copy = [s.copy EXCEPT !.data[scope] = s.copy.data.reg]
  OBVIOUS
<1>1. copy \in Copy
  BY Refreshed DEF Open
<1> DEFINE t == [copy |-> copy, pending |-> scope]
<1>2. [s EXCEPT !.copy.data[scope] = s.copy.data.reg, !.pending = scope] = t
  <2>1. [s EXCEPT !.copy.data[scope] = s.copy.data.reg] = [s EXCEPT !.copy = copy]
    BY DEF Open
  <2>2. [s EXCEPT !.copy.data[scope] = s.copy.data.reg, !.pending = scope]
          = [[s EXCEPT !.copy.data[scope] = s.copy.data.reg] EXCEPT !.pending = scope]
    OBVIOUS
  <2> PICK r : r = [s EXCEPT !.copy = copy]
    OBVIOUS
  <2>3. r = [copy |-> copy, pending |-> s.pending]
    BY DEF Open
  <2>4. [r EXCEPT !.pending = scope] = t
    <3> PICK v : v = [r EXCEPT !.pending = scope]
      OBVIOUS
    <3>1. DOMAIN v = {"copy", "pending"} /\ v.copy = copy /\ v.pending = scope
      BY <2>3
    <3>2. v = [x \in {"copy", "pending"} |-> v[x]]
      BY <2>3, <3>1
    <3> QED
      BY <3>1, <3>2
  <2> QED
    BY <2>1, <2>2, <2>4
<1>3. t \in Open
  BY <1>1 DEF Open
<1>4. session' = [session EXCEPT ![n] = t]
  BY <1>2 DEF SessionExchange, AccountsInv, Typed
<1> HIDE DEF t
<1> QED
  BY <1>3, <1>4, SessionStep DEF SessionExchange

(* And written back.                                                       *)
LEMMA SessionMergeKeeps ==
  ASSUME Distinct, AccountsInv, NEW n \in Names, SessionMerge(n)
  PROVE  AccountsInv'
<1> PICK s \in Open : s = session[n]
  BY DEF SessionMerge, AccountsInv, Typed
<1>1. s.copy \in Copy /\ s.pending \in Scopes
  BY DEF SessionMerge, Open
<1>2. SaveMerged(s.copy, s.pending)
  BY DEF SessionMerge
<1>3. /\ FilesTyped'
      /\ \A f \in Names : authFiles[f] # Nothing =>
            authFiles'[f] # Nothing /\ authFiles'[f].reg = authFiles[f].reg
  BY <1>1, <1>2, WriteBack DEF AccountsInv, Typed, Distinct, Scopes
<1> PICK t : t = [s EXCEPT !.pending = Nothing]
  OBVIOUS
<1>4. t \in Open
  BY DEF Open
<1>5. session' = [session EXCEPT ![n] = t]
  BY DEF SessionMerge, AccountsInv, Typed
<1>6. Typed'
  BY <1>3, <1>4, <1>5 DEF SessionMerge, AccountsInv, Typed, Valid
<1> QED
  BY <1>3, <1>6, FitsBeside DEF SessionMerge, AccountsInv

(* The agent's steps take nothing back of what a command relies on.        *)
LEMMA AgentKeeps ==
  ASSUME Distinct, AccountsInv, Agent
  PROVE  AccountsInv'
<1>1. ASSUME NEW n \in Names, SessionOpen(n) PROVE AccountsInv'
  <2> DEFINE s == [copy |-> Loaded(config, n), pending |-> Nothing]
  <2>1. s \in Open
    BY <1>1, LoadedFits DEF SessionOpen, AccountsInv, Open
  <2>2. session' = [session EXCEPT ![n] = s]
    BY <1>1 DEF SessionOpen
  <2> HIDE DEF s
  <2> QED
    BY <1>1, <2>1, <2>2, SessionStep DEF SessionOpen
<1>2. ASSUME NEW n \in Names, SessionDrop(n) PROVE AccountsInv'
  BY <1>2, SessionStep DEF SessionDrop
<1> QED
  BY <1>1, <1>2, SessionExchangeKeeps, SessionMergeKeeps DEF Agent

-----------------------------------------------------------------------------
(* The commands.                                                           *)

(* A command that is under way is told from none.                          *)
LEMMA CommandIsNotIdle ==
  ASSUME NEW c, DOMAIN c = CmdFields
  PROVE  c # Idle
<1>1. DOMAIN Idle = {"op"}
  BY DEF Idle
<1> QED
  BY <1>1 DEF CmdFields

(* Nothing is configured at first.                                         *)
LEMMA InitAccounts == Distinct /\ Init => AccountsInv
  BY DEF Distinct, Init, AccountsInv, Typed, FilesTyped, CommandFits, Entries, Conf, Valid

(* login: the registration is made first, then the file, then the entry.   *)
LEMMA LoginKeeps ==
  ASSUME Distinct, AccountsInv,
         \/ \E n \in Names, force \in BOOLEAN : LoginRegister(n, force)
         \/ \E pass \in Passphrases \cup {Plain} : LoginSave(pass)
         \/ LoginConfig
  PROVE  AccountsInv'
<1>1. ASSUME NEW n \in Names, NEW force \in BOOLEAN, LoginRegister(n, force)
      PROVE  AccountsInv'
  <2> DEFINE mem == [reg |-> nextReg', access |-> nextReg', cookies |-> nextReg', act |-> Nothing]
  <2>1. Start("login", n, "save", force, mem)
    BY <1>1 DEF LoginRegister
  <2>2. nextReg' \in 1 .. MaxReg /\ nextReg' \in Regs
    BY <1>1 DEF LoginRegister, AccountsInv, Typed, Distinct, Regs
  <2>3. mem \in Material
    BY <2>2 DEF Material, Secret
  <2> HIDE DEF mem
  <2>4. /\ cmd = Idle /\ DOMAIN cmd' = CmdFields /\ cmd'.op = "login" /\ cmd'.name = n
        /\ cmd'.at = "save" /\ cmd'.conf = config /\ cmd'.mem = mem
    BY <2>1, Begun
  <2>5. Typed'
    BY <1>1, <2>2 DEF LoginRegister, AccountsInv, Typed, FilesTyped, Valid
  <2>6. CommandFits'
    BY <2>3, <2>4 DEF CommandFits, AccountsInv, Typed
  <2>7. Entries'
    BY <1>1, <2>4 DEF LoginRegister, AccountsInv, Entries, At
  <2> QED
    BY <2>5, <2>6, <2>7 DEF AccountsInv
<1>2. ASSUME NEW pass \in Passphrases \cup {Plain}, LoginSave(pass)
      PROVE  AccountsInv'
  <2> DEFINE data == [reg |-> cmd.mem.reg, access |-> cmd.mem.access, cookies |-> cmd.mem.cookies,
                      act |-> cmd.mem.act, pass |-> pass]
  <2>1. cmd # Idle /\ cmd.op = "login" /\ cmd.name \in Names /\ cmd.mem \in Material /\ cmd.conf \in Conf
    BY <1>2 DEF LoginSave, At, AccountsInv, CommandFits
  <2>2. data \in AuthData
    BY <2>1 DEF Material, AuthData
  <2>3. \/ Goto("done") /\ UNCHANGED authFiles
        \/ Goto("config") /\ Persist(cmd.name, data)
    BY <1>2 DEF LoginSave
  <2> HIDE DEF data
  <2>4. FilesTyped'
    BY <2>1, <2>2, <2>3, PersistTyped DEF AccountsInv, Typed, FilesTyped
  <2>5. Typed'
    BY <1>2, <2>4 DEF LoginSave, AccountsInv, Typed, Valid
  <2>6. \/ cmd' = Idle
        \/ /\ DOMAIN cmd' = CmdFields /\ cmd'.op = "login" /\ cmd'.name = cmd.name
           /\ cmd'.at = "config" /\ cmd'.conf = cmd.conf
    BY <2>1, <2>3, Continued DEF AccountsInv
  <2>7. CommandFits'
    BY <2>1, <2>6 DEF CommandFits
  <2>8. Entries'
    BY <1>2, <2>1, <2>6 DEF LoginSave, AccountsInv, Entries, At
  <2> QED
    BY <2>5, <2>7, <2>8 DEF AccountsInv
<1>3. CASE LoginConfig
  <2> DEFINE makeDefault == cmd.conf.default = Nothing
             c == Registered(config, cmd.name, makeDefault)
  <2>1. cmd # Idle /\ cmd.op = "login" /\ cmd.name \in Names
    BY <1>3 DEF LoginConfig, At, AccountsInv, CommandFits
  <2>2. /\ c \in Conf /\ Valid(c)
        /\ \A m \in Names \ {cmd.name} : c.accounts[m] = config.accounts[m]
        /\ c.accounts[cmd.name].source = "file" =>
              config.accounts[cmd.name] # Nothing /\ config.accounts[cmd.name].source = "file"
    BY <2>1, RegisterEdit DEF AccountsInv, Typed
  <2>3. config' = c
    BY <1>3, <2>2 DEF LoginConfig, EditFile
  <2> HIDE DEF c
  <2>4. cmd' = Idle
    BY <1>3, <2>1, Continued DEF LoginConfig, AccountsInv
  <2>5. Typed'
    BY <1>3, <2>2, <2>3 DEF LoginConfig, AccountsInv, Typed, FilesTyped, Valid
  <2>6. Entries'
    BY <1>3, <2>1, <2>2, <2>3, <2>4 DEF LoginConfig, AccountsInv, Entries, At
  <2> QED
    BY <2>4, <2>5, <2>6 DEF AccountsInv, CommandFits
<1> QED
  BY <1>1, <1>2, <1>3

(* remove, logout: the config's entry goes first, the file last.           *)
LEMMA LogoutKeeps ==
  ASSUME Distinct, AccountsInv,
         \/ \E n \in Names : \/ \E expired \in BOOLEAN : LogoutDeregister(n, expired)
                             \/ \E deleteAuth \in BOOLEAN : RemoveConfig(n, deleteAuth)
         \/ LogoutConfig \/ DropEntry \/ DropFile
  PROVE  AccountsInv'
<1>1. ASSUME NEW n \in Names, NEW expired \in BOOLEAN, LogoutDeregister(n, expired)
      PROVE  AccountsInv'
  <2> DEFINE f == config.accounts[n].file
  <2> PICK copy : copy = Loaded(config, n)
    OBVIOUS
  <2>1. /\ config.accounts[n] \in Account /\ copy \in Copy
        /\ copy.path = f /\ copy.data = authFiles[f] /\ authFiles[f] \in AuthData
    BY <1>1, LoadedFits DEF LogoutDeregister, AccountsInv
  <2>2. f \in Names
    BY <2>1 DEF Account
  <2> PICK mine : mine = [copy EXCEPT !.data.access = copy.data.reg]
    OBVIOUS
  <2>3. mine \in Copy
    <3>1. copy.data \in AuthData /\ copy.data.reg \in Secret
      BY <2>1 DEF Copy, AuthData, Secret
    <3>2. [copy.data EXCEPT !.access = copy.data.reg] \in AuthData
      BY <3>1 DEF AuthData
    <3> QED
      BY <2>1, <3>2 DEF Copy
  <2>4. SaveMerged(mine, "access") \/ UNCHANGED authFiles
    BY <1>1 DEF LogoutDeregister
  <2>5. FilesTyped' /\ authFiles'[f] # Nothing /\ authFiles'[f].reg = authFiles[f].reg
    <3>1. CASE SaveMerged(mine, "access")
      <4>1. "access" \in Scopes /\ "reg" \in {"reg", "access", "cookies", "act"} \ {"access"}
        BY DEF Scopes
      <4>2. FilesTyped' /\ authFiles'[f] \in AuthData /\ authFiles'[f].reg = authFiles[f].reg
        BY <2>1, <2>2, <2>3, <3>1, <4>1, WriteBack DEF AccountsInv, Typed, Distinct
      <4> QED
        BY <4>2 DEF Distinct
    <3>2. CASE UNCHANGED authFiles
      BY <2>1, <3>2 DEF AccountsInv, Typed, FilesTyped, Distinct
    <3> QED
      BY <2>4, <3>1, <3>2
  <2>6. active' = active \ {authFiles[f].reg}
    BY <1>1, <2>1 DEF LogoutDeregister
  <2>7. /\ cmd = Idle /\ DOMAIN cmd' = CmdFields /\ cmd'.op = "logout" /\ cmd'.name = n
        /\ cmd'.at = "config" /\ cmd'.conf = config
    <3>1. Start("logout", n, "config", TRUE, Nothing)
      BY <1>1 DEF LogoutDeregister
    <3> QED
      BY <3>1 DEF Start, CmdFields
  <2>8. Typed'
    BY <1>1, <2>5, <2>6 DEF LogoutDeregister, AccountsInv, Typed, Valid
  <2>9. Spent(f)'
    BY <1>1, <2>5, <2>6 DEF Spent, LogoutDeregister
  <2>10. UNCHANGED config
    BY <1>1 DEF LogoutDeregister
  <2>11. CommandFits'
    BY <2>1, <2>7, <2>9, <2>10 DEF CommandFits, AccountsInv, Typed
  <2>12. Entries'
    BY <1>1, <2>7 DEF LogoutDeregister, AccountsInv, Entries, At
  <2> QED
    BY <2>8, <2>11, <2>12 DEF AccountsInv
<1>2. ASSUME NEW n \in Names, NEW deleteAuth \in BOOLEAN, RemoveConfig(n, deleteAuth)
      PROVE  AccountsInv'
  <2> DEFINE c == Dropped(config, n, config.default = n)
  <2>1. /\ c \in Conf /\ Valid(c) /\ c.accounts[n] = Nothing
        /\ \A m \in Names \ {n} : c.accounts[m] = config.accounts[m]
    BY DropEdit DEF AccountsInv, Typed
  <2>2. config' = c
    BY <1>2, <2>1 DEF RemoveConfig, EditFile
  <2> HIDE DEF c
  <2>3. /\ cmd = Idle /\ DOMAIN cmd' = CmdFields /\ cmd'.op = "remove" /\ cmd'.name = n
        /\ cmd'.at = "entry" /\ cmd'.conf = config
    BY <1>2, Begun DEF RemoveConfig
  <2>4. config.accounts[n] \in Account
    BY <1>2 DEF RemoveConfig, AccountsInv, Typed, Conf
  <2>5. Typed'
    BY <1>2, <2>1, <2>2 DEF RemoveConfig, AccountsInv, Typed, FilesTyped, Valid
  <2>6. CommandFits'
    BY <2>1, <2>2, <2>3, <2>4 DEF CommandFits, AccountsInv, Typed
  <2>7. Entries'
    BY <1>2, <2>1, <2>2, <2>3 DEF RemoveConfig, AccountsInv, Entries, At
  <2> QED
    BY <2>5, <2>6, <2>7 DEF AccountsInv
<1>3. CASE LogoutConfig
  <2> DEFINE clears == cmd.conf.default = cmd.name
             c == Dropped(config, cmd.name, clears)
  <2>1. /\ cmd # Idle /\ cmd.op = "logout" /\ cmd.at = "config" /\ cmd.name \in Names
        /\ cmd.conf = config /\ cmd.conf.accounts[cmd.name] \in Account
        /\ Spent(cmd.conf.accounts[cmd.name].file) /\ cmd.conf \in Conf
    BY <1>3 DEF LogoutConfig, At, AccountsInv, CommandFits
  <2>2. /\ c \in Conf /\ Valid(c) /\ c.accounts[cmd.name] = Nothing
        /\ \A m \in Names \ {cmd.name} : c.accounts[m] = config.accounts[m]
    BY <2>1, DropEdit DEF AccountsInv, Typed
  <2>3. config' = c
    BY <1>3, <2>2 DEF LogoutConfig, EditFile
  <2> HIDE DEF c
  <2>4. /\ DOMAIN cmd' = CmdFields /\ cmd'.op = "logout" /\ cmd'.name = cmd.name
        /\ cmd'.at = "entry" /\ cmd'.conf = cmd.conf
    BY <1>3, <2>1, Continued DEF LogoutConfig, AccountsInv
  <2>5. Typed'
    BY <1>3, <2>2, <2>3 DEF LogoutConfig, AccountsInv, Typed, FilesTyped, Valid
  <2>6. Spent(cmd.conf.accounts[cmd.name].file)'
    BY <1>3, <2>1, <2>4 DEF LogoutConfig, Spent
  <2>7. CommandFits'
    BY <2>1, <2>2, <2>3, <2>4, <2>6 DEF CommandFits
  <2>8. Entries'
    BY <1>3, <2>1, <2>2, <2>3, <2>4 DEF LogoutConfig, AccountsInv, Entries, At
  <2> QED
    BY <2>5, <2>7, <2>8 DEF AccountsInv
<1>4. CASE DropEntry
  <2>1. /\ cmd # Idle /\ cmd.op \in {"remove", "logout"} /\ cmd.at = "entry" /\ cmd.name \in Names
        /\ config.accounts[cmd.name] = Nothing /\ cmd.conf \in Conf
        /\ cmd.conf.accounts[cmd.name] \in Account
        /\ cmd.op = "logout" => Spent(cmd.conf.accounts[cmd.name].file)
    BY <1>4 DEF DropEntry, At, AccountsInv, CommandFits
  <2>2. passwords' = [passwords EXCEPT ![cmd.name] = Nothing]
    BY <1>4 DEF DropEntry, RemoveEntry
  <2>3. \/ cmd' = Idle
        \/ /\ DOMAIN cmd' = CmdFields /\ cmd'.op = cmd.op /\ cmd'.name = cmd.name
           /\ cmd'.at = "file" /\ cmd'.conf = cmd.conf
    BY <1>4, <2>1, Continued DEF DropEntry, AccountsInv
  <2>4. Typed'
    BY <1>4, <2>2 DEF DropEntry, AccountsInv, Typed, FilesTyped, Valid
  <2>5. CommandFits'
    BY <1>4, <2>1, <2>3 DEF DropEntry, CommandFits, Spent
  <2>6. \A n \in Names \ {cmd.name} : passwords'[n] = passwords[n]
    BY <2>2 DEF AccountsInv, Typed
  <2>7. Entries'
    BY <1>4, <2>1, <2>6 DEF DropEntry, AccountsInv, Entries, At
  <2> QED
    BY <2>4, <2>5, <2>7 DEF AccountsInv
<1>5. CASE DropFile
  <2>1. /\ cmd # Idle /\ cmd.op \in {"remove", "logout"} /\ cmd.at = "file"
        /\ cmd.conf.accounts[cmd.name] \in Account
    BY <1>5 DEF DropFile, At, AccountsInv, CommandFits
  <2>2. cmd.conf.accounts[cmd.name].file \in Names
    BY <2>1 DEF Account
  <2>3. FilesTyped'
    BY <1>5, <2>2, PersistTyped DEF DropFile, AccountsInv, Typed
  <2>4. cmd' = Idle
    BY <1>5, <2>1, Continued DEF DropFile, AccountsInv
  <2>5. Typed' /\ Entries'
    BY <1>5, <2>1, <2>3, <2>4 DEF DropFile, AccountsInv, Typed, Valid, Entries, At
  <2> QED
    BY <2>4, <2>5 DEF AccountsInv, CommandFits
<1> QED
  BY <1>1, <1>2, <1>3, <1>4, <1>5

(* rename, set-default: an entry that does not follow is noted.            *)
LEMMA RenameKeeps ==
  ASSUME Distinct, AccountsInv,
         NEW n \in Names, SetDefault(n) \/ \E new \in Names : Rename(n, new)
  PROVE  AccountsInv'
<1>1. ASSUME NEW new \in Names, Rename(n, new) PROVE AccountsInv'
  <2> DEFINE c == Renamed(config, n, new)
  <2>1. /\ c \in Conf /\ Valid(c)
        /\ c.accounts[new] = config.accounts[n] /\ c.accounts[n] = Nothing
        /\ \A m \in Names \ {n, new} : c.accounts[m] = config.accounts[m]
    BY <1>1, RenameEdit DEF Rename, AccountsInv, Typed
  <2>2. config' = c
    BY <1>1, <2>1 DEF Rename, EditFile
  <2> HIDE DEF c
  <2>3. cmd = Idle /\ cmd' = Idle
    BY <1>1, Begun DEF Rename
  <2>4. Typed'
    BY <1>1, <2>1, <2>2 DEF Rename, AccountsInv, Typed, FilesTyped, Valid
  <2>5. Entries'
    BY <1>1, <2>1, <2>2, <2>3 DEF Rename, AccountsInv, Entries, At
  <2> QED
    BY <2>3, <2>4, <2>5 DEF AccountsInv, CommandFits
<1>2. CASE SetDefault(n)
  <2> DEFINE c == [config EXCEPT !.default = n]
  <2>1. c \in Conf /\ Valid(c) /\ c.accounts = config.accounts
    BY <1>2 DEF SetDefault, AccountsInv, Typed, Conf, Valid
  <2>2. config' = c
    BY <1>2, <2>1 DEF SetDefault, EditFile
  <2> HIDE DEF c
  <2>3. cmd = Idle /\ cmd' = Idle
    BY <1>2, Begun DEF SetDefault
  <2>4. Typed'
    BY <1>2, <2>1, <2>2 DEF SetDefault, AccountsInv, Typed, FilesTyped, Valid
  <2>5. Entries'
    BY <1>2, <2>1, <2>2, <2>3 DEF SetDefault, AccountsInv, Entries, At
  <2> QED
    BY <2>3, <2>4, <2>5 DEF AccountsInv, CommandFits
<1> QED
  BY <1>1, <1>2

(* A file that has opened is written with a new protection.                *)
LEMMA PasswordFile ==
  ASSUME Distinct, AccountsInv, NEW n \in Names, Opens(config, n),
         NEW pass \in Passphrases \cup {Plain}, SaveTo(config.accounts[n].file, pass)
  PROVE  FilesTyped'
<1> PICK f \in Names : f = config.accounts[n].file
  BY LoadedFits DEF AccountsInv, Account
<1> PICK data : data = [authFiles[f] EXCEPT !.pass = pass]
  OBVIOUS
<1>1. data \in AuthData
  BY LoadedFits DEF AccountsInv, AuthData
<1> QED
  BY <1>1, PersistTyped DEF SaveTo, AccountsInv, Typed

(* A step of a command that changes an entry of the passwords file.        *)
LEMMA EntryStep ==
  ASSUME Typed, Entries, NEW n \in Names, NEW pass \in Passphrases \cup {Nothing},
         passwords' = [passwords EXCEPT ![n] = pass],
         UNCHANGED <<config, authFiles, active, nextReg, session, spoiled>>,
         ~At("passwordRemove", "config"),
         \/ pass \in Passphrases /\ Distinct
         \/ config.accounts[n] = Nothing \/ config.accounts[n].source = "prompt"
         \/ At("passwordRemove", "config")' /\ cmd'.name = n
  PROVE  Typed' /\ Entries' /\ passwords'[n] = pass
<1>1. passwords'[n] = pass /\ \A m \in Names \ {n} : passwords'[m] = passwords[m]
  BY DEF Typed
<1>2. Typed'
  BY DEF Typed, FilesTyped, Valid
<1>3. Entries'
  BY <1>1 DEF Entries, Distinct
<1> QED
  BY <1>1, <1>2, <1>3

(* password set | remove: the entry follows, and then the source.           *)
LEMMA PasswordKeeps ==
  ASSUME Distinct, AccountsInv,
         \/ \E n \in Names : \/ \E pass \in Passphrases : PasswordSet(n, pass)
                             \/ PasswordRemove(n)
         \/ PasswordSetEntry \/ PasswordRemoveEntry \/ PasswordRemoveConfig
  PROVE  AccountsInv'
<1>1. ASSUME NEW n \in Names, NEW pass \in Passphrases, PasswordSet(n, pass)
      PROVE  AccountsInv'
  <2> DEFINE next == IF config.accounts[n].source = "file" THEN "entry" ELSE "done"
  <2>1. Start("passwordSet", n, next, pass, Nothing)
    BY <1>1 DEF PasswordSet
  <2>2. FilesTyped'
    BY <1>1, PasswordFile DEF PasswordSet
  <2>3. /\ cmd = Idle
        /\ \/ cmd' = Idle
           \/ /\ DOMAIN cmd' = CmdFields /\ cmd'.op = "passwordSet" /\ cmd'.name = n
              /\ cmd'.arg = pass /\ cmd'.conf = config
    BY <2>1, Begun
  <2>4. Typed'
    BY <1>1, <2>2 DEF PasswordSet, AccountsInv, Typed, Valid
  <2>5. CommandFits'
    BY <2>3 DEF CommandFits, AccountsInv, Typed
  <2>6. Entries'
    BY <1>1, <2>3 DEF PasswordSet, AccountsInv, Entries, At
  <2> QED
    BY <2>4, <2>5, <2>6 DEF AccountsInv
<1>2. ASSUME NEW n \in Names, PasswordRemove(n)
      PROVE  AccountsInv'
  <2> DEFINE next == IF config.accounts[n].source = "file" THEN "entry" ELSE "done"
  <2>1. Start("passwordRemove", n, next, Nothing, Nothing)
    BY <1>2 DEF PasswordRemove
  <2>2. FilesTyped'
    BY <1>2, PasswordFile DEF PasswordRemove
  <2>3. /\ cmd = Idle
        /\ \/ cmd' = Idle
           \/ /\ DOMAIN cmd' = CmdFields /\ cmd'.op = "passwordRemove" /\ cmd'.name = n
              /\ cmd'.at = "entry" /\ cmd'.conf = config
    BY <2>1, Begun
  <2>4. Typed'
    BY <1>2, <2>2 DEF PasswordRemove, AccountsInv, Typed, Valid
  <2>5. CommandFits'
    BY <2>3 DEF CommandFits, AccountsInv, Typed
  <2>6. Entries'
    BY <1>2, <2>3 DEF PasswordRemove, AccountsInv, Entries, At
  <2> QED
    BY <2>4, <2>5, <2>6 DEF AccountsInv
<1>3. CASE PasswordSetEntry
  <2>1. cmd # Idle /\ cmd.op = "passwordSet" /\ cmd.name \in Names /\ cmd.arg \in Passphrases
    BY <1>3 DEF PasswordSetEntry, At, AccountsInv, CommandFits
  <2>2. cmd' = Idle
    BY <1>3, <2>1, Continued DEF PasswordSetEntry, AccountsInv
  <2>3. passwords' = [passwords EXCEPT ![cmd.name] = cmd.arg]
    BY <1>3 DEF PasswordSetEntry, Upsert
  <2>4. ~At("passwordRemove", "config")
    BY <2>1 DEF At
  <2> PICK n \in Names, pass \in Passphrases : n = cmd.name /\ pass = cmd.arg
    BY <2>1
  <2>5. Typed' /\ Entries'
    BY <1>3, <2>3, <2>4, EntryStep DEF PasswordSetEntry, AccountsInv
  <2> QED
    BY <2>2, <2>5 DEF AccountsInv, CommandFits
<1>4. CASE PasswordRemoveEntry
  <2>1. cmd # Idle /\ cmd.op = "passwordRemove" /\ cmd.at = "entry" /\ cmd.name \in Names
        /\ cmd.conf \in Conf
    BY <1>4 DEF PasswordRemoveEntry, At, AccountsInv, CommandFits
  <2>2. /\ DOMAIN cmd' = CmdFields /\ cmd'.op = "passwordRemove" /\ cmd'.name = cmd.name
        /\ cmd'.at = "config" /\ cmd'.conf = cmd.conf
    BY <1>4, <2>1, Continued DEF PasswordRemoveEntry, AccountsInv
  <2>3. cmd' # Idle
    BY <2>2, CommandIsNotIdle
  <2> PICK n \in Names : n = cmd.name
    BY <2>1
  <2>4. passwords' = [passwords EXCEPT ![n] = Nothing]
    BY <1>4 DEF PasswordRemoveEntry, RemoveEntry
  <2>5. ~At("passwordRemove", "config") /\ At("passwordRemove", "config")' /\ cmd'.name = n
    BY <2>1, <2>2, <2>3 DEF At
  <2>6. Typed' /\ Entries'
    BY <1>4, <2>4, <2>5, EntryStep DEF PasswordRemoveEntry, AccountsInv
  <2> QED
    BY <2>1, <2>2, <2>6 DEF AccountsInv, CommandFits
<1>5. CASE PasswordRemoveConfig
  <2>1. cmd # Idle /\ cmd.name \in Names /\ At("passwordRemove", "config")
    BY <1>5 DEF PasswordRemoveConfig, At, AccountsInv, CommandFits
  <2> DEFINE c == SetSource(config, cmd.name, "prompt")
  <2>2. /\ c \in Conf /\ Valid(c)
        /\ \A m \in Names \ {cmd.name} : c.accounts[m] = config.accounts[m]
        /\ c.accounts[cmd.name] = Nothing \/ c.accounts[cmd.name].source = "prompt"
    BY <2>1, SourceEdit DEF AccountsInv, Typed
  <2>3. config' = c
    BY <1>5, <2>2 DEF PasswordRemoveConfig, EditFile
  <2> HIDE DEF c
  <2>4. cmd' = Idle
    BY <1>5, <2>1, Continued DEF PasswordRemoveConfig, AccountsInv
  <2>5. Typed'
    BY <1>5, <2>2, <2>3 DEF PasswordRemoveConfig, AccountsInv, Typed, FilesTyped, Valid
  <2>6. Entries'
    BY <1>5, <2>1, <2>2, <2>3, <2>4 DEF PasswordRemoveConfig, AccountsInv, Entries, At
  <2> QED
    BY <2>4, <2>5, <2>6 DEF AccountsInv, CommandFits
<1> QED
  BY <1>1, <1>2, <1>3, <1>4, <1>5

(* password source: the entry is there before the source points at it, and *)
(* goes after the source has moved away.                                   *)
LEMMA SourceKeeps ==
  ASSUME Distinct, AccountsInv,
         \/ \E n \in Names : SourceFile(n) \/ SourcePrompt(n)
         \/ SourceFileConfig \/ SourcePromptEntry
  PROVE  AccountsInv'
<1>1. ASSUME NEW n \in Names, SourceFile(n) PROVE AccountsInv'
  <2> PICK pass : pass = authFiles[config.accounts[n].file].pass
    OBVIOUS
  <2>1. pass \in Passphrases
    BY <1>1, LoadedFits DEF SourceFile, AccountsInv, AuthData
  <2>2. /\ cmd = Idle /\ DOMAIN cmd' = CmdFields /\ cmd'.op = "sourceFile" /\ cmd'.name = n
        /\ cmd'.conf = config
    BY <1>1, Begun DEF SourceFile
  <2>3. passwords' = [passwords EXCEPT ![n] = pass]
    BY <1>1 DEF SourceFile, Upsert
  <2>4. ~At("passwordRemove", "config")
    BY <2>2 DEF At
  <2>5. Typed' /\ Entries' /\ passwords'[n] = pass
    BY <1>1, <2>1, <2>3, <2>4, EntryStep DEF SourceFile, AccountsInv
  <2>6. CommandFits'
    BY <2>1, <2>2, <2>5 DEF CommandFits, AccountsInv, Typed, Distinct
  <2> QED
    BY <2>5, <2>6 DEF AccountsInv
<1>2. ASSUME NEW n \in Names, SourcePrompt(n) PROVE AccountsInv'
  <2> DEFINE c == SetSource(config, n, "prompt")
             next == IF config.accounts[n].source = "file" THEN "entry" ELSE "done"
  <2>1. /\ c \in Conf /\ Valid(c)
        /\ \A m \in Names \ {n} : c.accounts[m] = config.accounts[m]
        /\ c.accounts[n] = Nothing \/ c.accounts[n].source = "prompt"
    BY SourceEdit DEF AccountsInv, Typed
  <2>2. config' = c
    BY <1>2, <2>1 DEF SourcePrompt, EditFile
  <2> HIDE DEF c
  <2>3. Start("sourcePrompt", n, next, Nothing, Nothing)
    BY <1>2 DEF SourcePrompt
  <2>4. /\ cmd = Idle
        /\ \/ cmd' = Idle
           \/ /\ DOMAIN cmd' = CmdFields /\ cmd'.op = "sourcePrompt" /\ cmd'.name = n
              /\ cmd'.at = "entry" /\ cmd'.conf = config
    BY <2>3, Begun
  <2>5. Typed'
    BY <1>2, <2>1, <2>2 DEF SourcePrompt, AccountsInv, Typed, FilesTyped, Valid
  <2>6. CommandFits'
    BY <2>1, <2>2, <2>4 DEF CommandFits, AccountsInv, Typed
  <2>7. Entries'
    BY <1>2, <2>1, <2>2, <2>4 DEF SourcePrompt, AccountsInv, Entries, At
  <2> QED
    BY <2>5, <2>6, <2>7 DEF AccountsInv
<1>3. CASE SourceFileConfig
  <2>1. cmd # Idle /\ cmd.op = "sourceFile" /\ cmd.name \in Names /\ passwords[cmd.name] # Nothing
    BY <1>3 DEF SourceFileConfig, At, AccountsInv, CommandFits
  <2> DEFINE c == SetSource(config, cmd.name, "file")
  <2>2. /\ c \in Conf /\ Valid(c)
        /\ \A m \in Names \ {cmd.name} : c.accounts[m] = config.accounts[m]
    BY <2>1, SourceEdit DEF AccountsInv, Typed
  <2>3. config' = c
    BY <1>3, <2>2 DEF SourceFileConfig, EditFile
  <2> HIDE DEF c
  <2>4. cmd' = Idle
    BY <1>3, <2>1, Continued DEF SourceFileConfig, AccountsInv
  <2>5. Typed'
    BY <1>3, <2>2, <2>3 DEF SourceFileConfig, AccountsInv, Typed, FilesTyped, Valid
  <2>6. Entries'
    BY <1>3, <2>1, <2>2, <2>3 DEF SourceFileConfig, AccountsInv, Entries, At
  <2> QED
    BY <2>4, <2>5, <2>6 DEF AccountsInv, CommandFits
<1>4. CASE SourcePromptEntry
  <2>1. /\ cmd # Idle /\ cmd.op = "sourcePrompt" /\ cmd.name \in Names
        /\ config.accounts[cmd.name] = Nothing \/ config.accounts[cmd.name].source = "prompt"
    BY <1>4 DEF SourcePromptEntry, At, AccountsInv, CommandFits
  <2> PICK n \in Names : n = cmd.name
    BY <2>1
  <2>2. passwords' = [passwords EXCEPT ![n] = Nothing]
    BY <1>4 DEF SourcePromptEntry, RemoveEntry
  <2>3. cmd' = Idle
    BY <1>4, <2>1, Continued DEF SourcePromptEntry, AccountsInv
  <2>4. ~At("passwordRemove", "config")
    BY <2>1 DEF At
  <2>5. Typed' /\ Entries'
    BY <1>4, <2>1, <2>2, <2>4, EntryStep DEF SourcePromptEntry, AccountsInv
  <2> QED
    BY <2>3, <2>5 DEF AccountsInv, CommandFits
<1> QED
  BY <1>1, <1>2, <1>3, <1>4

(* token | cookies | activation-bytes: a whole file, or a merge.           *)
LEMMA EditKeeps ==
  ASSUME Distinct, AccountsInv,
         \/ \E n \in Names : \/ \E field \in {"access", "cookies", "act"} : Edit(n, field)
                             \/ \E scope \in Scopes : Refresh(n, scope)
         \/ EditSave \/ RefreshMerge
  PROVE  AccountsInv'
<1>1. ASSUME NEW n \in Names, NEW field \in {"access", "cookies", "act"}, Edit(n, field)
      PROVE  AccountsInv'
  <2> PICK mem \in Copy : mem = Loaded(config, n)
    BY <1>1, LoadedFits DEF Edit, AccountsInv
  <2>1. /\ cmd = Idle /\ DOMAIN cmd' = CmdFields /\ cmd'.op = "edit" /\ cmd'.name = n
        /\ cmd'.arg = field /\ cmd'.conf = config /\ cmd'.mem = mem
    BY <1>1, Begun DEF Edit
  <2>2. Typed'
    BY <1>1 DEF Edit, AccountsInv, Typed, FilesTyped, Valid
  <2>3. CommandFits'
    BY <2>1 DEF CommandFits, AccountsInv, Typed
  <2>4. Entries'
    BY <1>1, <2>1 DEF Edit, AccountsInv, Entries, At
  <2> QED
    BY <2>2, <2>3, <2>4 DEF AccountsInv
<1>2. ASSUME NEW n \in Names, NEW scope \in Scopes, Refresh(n, scope)
      PROVE  AccountsInv'
  <2> PICK copy \in Copy : copy = Loaded(config, n)
    BY <1>2, LoadedFits DEF Refresh, AccountsInv
  <2> PICK mem \in Copy : mem = [copy EXCEPT !.data[scope] = copy.data.reg]
    BY Refreshed
  <2>1. /\ cmd = Idle /\ DOMAIN cmd' = CmdFields /\ cmd'.op = "refresh" /\ cmd'.name = n
        /\ cmd'.arg = scope /\ cmd'.conf = config /\ cmd'.mem = mem
    BY <1>2, Begun DEF Refresh
  <2>2. Typed'
    BY <1>2 DEF Refresh, AccountsInv, Typed, FilesTyped, Valid
  <2>3. CommandFits'
    BY <2>1 DEF CommandFits, AccountsInv, Typed
  <2>4. Entries'
    BY <1>2, <2>1 DEF Refresh, AccountsInv, Entries, At
  <2> QED
    BY <2>2, <2>3, <2>4 DEF AccountsInv
<1>3. CASE EditSave
  <2>1. cmd # Idle /\ cmd.op = "edit" /\ cmd.mem \in Copy /\ cmd.arg \in {"access", "cookies", "act"}
    BY <1>3 DEF EditSave, At, AccountsInv, CommandFits
  <2> PICK mem \in Copy, field \in {"access", "cookies", "act"} : mem = cmd.mem /\ field = cmd.arg
    BY <2>1
  <2> PICK to : to = IF field = "act" THEN mem.data.reg ELSE Nothing
    OBVIOUS
  <2> PICK data : data = [mem.data EXCEPT ![field] = to]
    OBVIOUS
  <2>2. mem.path \in Names /\ mem.data \in AuthData /\ mem.data.reg \in Regs
    BY DEF Copy, AuthData
  <2>3. to \in Secret
    BY <2>2 DEF Secret
  <2>4. data \in AuthData
    BY <2>2, <2>3 DEF AuthData
  <2>5. Persist(mem.path, data)
    BY <1>3 DEF EditSave
  <2>6. FilesTyped'
    BY <2>2, <2>4, <2>5, PersistTyped DEF AccountsInv, Typed
  <2>7. cmd' = Idle
    BY <1>3, <2>1, Continued DEF EditSave, AccountsInv
  <2>8. Typed' /\ Entries'
    BY <1>3, <2>1, <2>6, <2>7 DEF EditSave, AccountsInv, Typed, Valid, Entries, At
  <2> QED
    BY <2>7, <2>8 DEF AccountsInv, CommandFits
<1>4. CASE RefreshMerge
  <2>1. cmd # Idle /\ cmd.op = "refresh" /\ cmd.mem \in Copy /\ cmd.arg \in Scopes
    BY <1>4 DEF RefreshMerge, At, AccountsInv, CommandFits
  <2> PICK mem \in Copy, scope \in Scopes : mem = cmd.mem /\ scope = cmd.arg
    BY <2>1
  <2>2. FilesTyped'
    BY <1>4, WriteBack DEF RefreshMerge, AccountsInv, Typed
  <2>3. cmd' = Idle
    BY <1>4, <2>1, Continued DEF RefreshMerge, AccountsInv
  <2>4. Typed' /\ Entries'
    BY <1>4, <2>1, <2>2, <2>3 DEF RefreshMerge, AccountsInv, Typed, Valid, Entries, At
  <2> QED
    BY <2>3, <2>4 DEF AccountsInv, CommandFits
<1> QED
  BY <1>1, <1>2, <1>3, <1>4

(* Whatever ends a command early, nothing but the entry that it has dropped*)
(* is missing.                                                             *)
LEMMA InterruptKeeps ==
  ASSUME AccountsInv, Interrupt
  PROVE  AccountsInv'
<1>1. Typed'
  BY DEF Interrupt, AccountsInv, Typed, FilesTyped, Valid
<1>2. Entries'
  BY DEF Interrupt, AccountsInv, Entries, At
<1>3. CommandFits'
  BY DEF Interrupt, CommandFits
<1> QED
  BY <1>1, <1>2, <1>3 DEF AccountsInv

(* Every step.                                                             *)
LEMMA AccountsStep ==
  ASSUME Distinct, AccountsInv, [Next]_vars
  PROVE  AccountsInv'
<1>1. CASE Command
  BY <1>1, LoginKeeps, LogoutKeeps, RenameKeeps, PasswordKeeps, SourceKeeps, EditKeeps,
     InterruptKeeps DEF Command
<1>2. CASE UNCHANGED vars
  BY <1>2 DEF vars, AccountsInv, Typed, FilesTyped, Valid, CommandFits, Spent, Entries, At
<1> QED
  BY <1>1, <1>2, AgentKeeps DEF Next

-----------------------------------------------------------------------------
(* The theorems about the account's files.                                 *)

(* Every reachable state is typed, and a command finds what it relies on.  *)
THEOREM AccountsInvariant == Distinct => (Spec => []AccountsInv)
<1> SUFFICES ASSUME Distinct PROVE Spec => []AccountsInv
  OBVIOUS
<1>1. Init => AccountsInv
  BY InitAccounts
<1>2. AccountsInv /\ [Next]_vars => AccountsInv'
  BY AccountsStep
<1> QED
  BY <1>1, <1>2, PTL DEF Spec

(* An account whose passphrase comes from the passwords file has an entry  *)
(* there, unless a rename or an interrupted `password remove` has spoiled  *)
(* it.                                                                     *)
THEOREM FileSourcesOpen == Distinct => (Spec => []FileSourceHasEntry)
<1> SUFFICES ASSUME Distinct PROVE Spec => []FileSourceHasEntry
  OBVIOUS
<1>1. AccountsInv => FileSourceHasEntry
  BY DEF AccountsInv, Entries, FileSourceHasEntry
<1> QED
  BY <1>1, AccountsInvariant, PTL

(* A background write-back changes in an existing file nothing but the     *)
(* field it refreshed, at any distance from the load of its copy.          *)
LEMMA MergesKeep ==
  ASSUME Distinct, AccountsInv, Next, NEW n \in Names, NEW f \in Names,
         session[n] # Nothing, session[n].pending # Nothing, session'[n] # session[n],
         authFiles[f] # Nothing,
         NEW field \in {"reg", "access", "cookies", "act"}, field # session[n].pending
  PROVE  authFiles'[f][field] = authFiles[f][field]
<1>1. ASSUME Command PROVE session' = session
  BY <1>1 DEF Command, LoginRegister, LogoutDeregister, RemoveConfig, Rename, SetDefault,
     PasswordSet, PasswordRemove, SourceFile, SourcePrompt, Edit, Refresh, LoginSave, LoginConfig,
     LogoutConfig, DropEntry, DropFile, PasswordSetEntry, PasswordRemoveEntry,
     PasswordRemoveConfig, SourceFileConfig, SourcePromptEntry, EditSave, RefreshMerge, Interrupt
<1>2. ASSUME NEW m \in Names,
             \/ SessionOpen(m) \/ SessionDrop(m)
             \/ \E scope \in Scopes : SessionExchange(m, scope)
      PROVE  session'[n] = session[n]
  <2>1. m # n
    BY <1>2 DEF SessionOpen, SessionDrop, SessionExchange
  <2>2. \A k \in Names \ {m} : session'[k] = session[k]
    BY <1>2 DEF SessionOpen, SessionDrop, SessionExchange, AccountsInv, Typed
  <2> QED
    BY <2>1, <2>2
<1>3. SessionMerge(n)
  <2>1. PICK m \in Names : SessionMerge(m)
    BY <1>1, <1>2 DEF Next, Agent
  <2>2. \A k \in Names \ {m} : session'[k] = session[k]
    BY <2>1 DEF SessionMerge, AccountsInv, Typed
  <2> QED
    BY <2>1, <2>2
<1> PICK s \in Open : s = session[n]
  BY DEF AccountsInv, Typed
<1>4. s.copy \in Copy /\ s.pending \in Scopes
  BY DEF Open
<1>5. SaveMerged(s.copy, s.pending)
  BY <1>3 DEF SessionMerge
<1> QED
  BY <1>4, <1>5, WriteBack DEF AccountsInv, Typed

(* What the user has changed in a file stays, whenever the agent loaded it.*)
THEOREM WriteBacksKeepEdits == Distinct => (Spec => MergeKeepsEdits)
<1> SUFFICES ASSUME Distinct PROVE Spec => MergeKeepsEdits
  OBVIOUS
<1> DEFINE A == \A n, f \in Names :
         /\ session[n] # Nothing
         /\ session[n].pending # Nothing
         /\ session'[n] # session[n]
         /\ authFiles[f] # Nothing
         => \A field \in {"reg", "access", "cookies", "act"} :
              field # session[n].pending =>
                authFiles'[f][field] = authFiles[f][field]
<1>1. AccountsInv /\ Next => A
  BY MergesKeep
<1> HIDE DEF A
<1>2. AccountsInv /\ [Next]_vars => [A]_vars
  BY <1>1
<1>3. Spec => [][A]_vars
  BY <1>2, AccountsInvariant, PTL DEF Spec
<1> QED
  BY <1>3 DEF A, MergeKeepsEdits

(* Material goes away only when its user said so, or when it is spent.     *)
LEMMA DeletesSpent ==
  ASSUME Distinct, AccountsInv, Next, NEW f \in Names, authFiles[f] # Nothing, authFiles'[f] = Nothing
  PROVE  authFiles[f].reg \notin active \/ At("remove", "file")
<1>1. ASSUME NEW copy \in Copy, NEW scope \in Scopes, SaveMerged(copy, scope) PROVE FALSE
  BY <1>1, WriteBack DEF AccountsInv, Typed, Distinct
<1>2. ASSUME NEW g \in Names, NEW data \in AuthData, Persist(g, data) PROVE FALSE
  BY <1>2, PersistTyped DEF AccountsInv, Typed, Distinct
<1>3. ASSUME Agent PROVE FALSE
  <2>1. PICK n \in Names : SessionMerge(n)
    BY <1>3 DEF Agent, SessionOpen, SessionExchange, SessionDrop
  <2> PICK s \in Open : s = session[n]
    BY <2>1 DEF SessionMerge, AccountsInv, Typed
  <2>2. s.copy \in Copy /\ s.pending \in Scopes /\ SaveMerged(s.copy, s.pending)
    BY <2>1 DEF SessionMerge, Open
  <2> QED
    BY <2>2, <1>1
<1>4. ASSUME NEW n \in Names, NEW expired \in BOOLEAN, LogoutDeregister(n, expired) PROVE FALSE
  <2> PICK copy \in Copy : copy = Loaded(config, n)
    BY <1>4, LoadedFits DEF LogoutDeregister, AccountsInv
  <2> PICK mine : mine = [copy EXCEPT !.data.access = copy.data.reg]
    OBVIOUS
  <2>1. "access" \in Scopes
    BY DEF Scopes
  <2>2. mine \in Copy
    BY <2>1, Refreshed
  <2>3. SaveMerged(mine, "access")
    BY <1>4 DEF LogoutDeregister
  <2> QED
    BY <2>1, <2>2, <2>3, <1>1
<1>5. ASSUME NEW n \in Names, NEW pass \in Passphrases \cup {Plain}, Opens(config, n),
             SaveTo(config.accounts[n].file, pass)
      PROVE  FALSE
  <2> PICK g \in Names : g = config.accounts[n].file
    BY <1>5, LoadedFits DEF AccountsInv, Account
  <2> PICK data : data = [authFiles[g] EXCEPT !.pass = pass]
    OBVIOUS
  <2>1. data \in AuthData
    BY <1>5, LoadedFits DEF AccountsInv, AuthData
  <2> QED
    BY <1>5, <2>1, <1>2 DEF SaveTo
<1>6. ASSUME NEW pass \in Passphrases \cup {Plain}, LoginSave(pass) PROVE FALSE
  <2> PICK data : data = [reg |-> cmd.mem.reg, access |-> cmd.mem.access,
                          cookies |-> cmd.mem.cookies, act |-> cmd.mem.act, pass |-> pass]
    OBVIOUS
  <2>1. cmd.name \in Names /\ cmd.mem \in Material
    BY <1>6 DEF LoginSave, At, AccountsInv, CommandFits
  <2>2. data \in AuthData
    BY <2>1 DEF Material, AuthData
  <2>3. Persist(cmd.name, data)
    BY <1>6 DEF LoginSave
  <2> QED
    BY <2>1, <2>2, <2>3, <1>2
<1>7. ASSUME EditSave PROVE FALSE
  <2>1. cmd.mem \in Copy /\ cmd.arg \in {"access", "cookies", "act"}
    BY <1>7 DEF EditSave, At, AccountsInv, CommandFits
  <2> PICK mem \in Copy, field \in {"access", "cookies", "act"} : mem = cmd.mem /\ field = cmd.arg
    BY <2>1
  <2> PICK to : to = IF field = "act" THEN mem.data.reg ELSE Nothing
    OBVIOUS
  <2> PICK data : data = [mem.data EXCEPT ![field] = to]
    OBVIOUS
  <2>2. mem.path \in Names /\ mem.data \in AuthData /\ to \in Secret
    BY DEF Copy, AuthData, Secret
  <2>3. data \in AuthData
    BY <2>2 DEF AuthData
  <2>4. Persist(mem.path, data)
    BY <1>7 DEF EditSave
  <2> QED
    BY <2>2, <2>3, <2>4, <1>2
<1>8. ASSUME RefreshMerge PROVE FALSE
  BY <1>8, <1>1 DEF RefreshMerge, At, AccountsInv, CommandFits
<1>9. DropFile
  <2>1. Command
    BY <1>3 DEF Next
  <2> QED
    BY <2>1, <1>4, <1>5, <1>6, <1>7, <1>8
       DEF Command, LoginRegister, RemoveConfig, Rename, SetDefault, PasswordSet, PasswordRemove,
           SourceFile, SourcePrompt, Edit, Refresh, LoginConfig, LogoutConfig, DropEntry,
           PasswordSetEntry, PasswordRemoveEntry, PasswordRemoveConfig, SourceFileConfig,
           SourcePromptEntry, Interrupt
<1>10. CASE At("remove", "file")
  BY <1>10
<1>11. CASE At("logout", "file")
  <2>1. cmd # Idle /\ cmd.op = "logout" /\ cmd.conf.accounts[cmd.name] \in Account
    BY <1>11 DEF At, AccountsInv, CommandFits
  <2>2. cmd.conf.accounts[cmd.name].file \in Names
    BY <2>1 DEF Account
  <2>3. f = cmd.conf.accounts[cmd.name].file
    BY <1>9, <2>2, PersistTyped DEF DropFile, AccountsInv, Typed
  <2> QED
    BY <2>1, <2>3 DEF AccountsInv, CommandFits, Spent
<1> QED
  BY <1>9, <1>10, <1>11 DEF DropFile

(* A logout that fails leaves the material for a retry.                    *)
THEOREM LogoutsDeleteSpent == Distinct => (Spec => LogoutDeletesSpent)
<1> SUFFICES ASSUME Distinct PROVE Spec => LogoutDeletesSpent
  OBVIOUS
<1> DEFINE A == \A f \in Names :
         authFiles[f] # Nothing /\ authFiles'[f] = Nothing =>
           \/ authFiles[f].reg \notin active
           \/ At("remove", "file")
<1>1. AccountsInv /\ Next => A
  BY DeletesSpent
<1> HIDE DEF A
<1>2. AccountsInv /\ [Next]_vars => [A]_vars
  BY <1>1
<1>3. Spec => [][A]_vars
  BY <1>2, AccountsInvariant, PTL DEF Spec
<1> QED
  BY <1>3 DEF A, LogoutDeletesSpent


-----------------------------------------------------------------------------
(* The sign-in's pages.                                                    *)

(* What a tab may show, with sessions numbered without a bound.            *)
Shown == [shows : {"nothing", "success", "unavailable"}]
           \cup [shows : {"form", "starting"}, restart : BOOLEAN]
           \cup [shows : {"amazon", "request"}, of : Nat]

TabsTyped ==
    /\ signin \in Nat /\ started \in Nat
    /\ tabs \in [Tabs -> Shown]
    /\ wait \in {"code", "flush", "over"}

(* A code is on its way once a proxied request is out that may bring it,   *)
(* and until run() has it and the grace is over.                           *)
UnderWay ==
    \/ \E t \in Tabs : tabs[t].shows = "request"
    \/ channel # <<>>
    \/ wait = "flush"

(* Until run() ends, whoever may bring a code has a session behind it.     *)
Backed == wait # "over" /\ UnderWay => InProgress

LoginInv == TabsTyped /\ Backed /\ CodeHasSession

-----------------------------------------------------------------------------
(* Nothing is under way at first.                                          *)
LEMMA LoginInit == LInit => LoginInv
  BY DEF LInit, LoginInv, TabsTyped, Shown, Backed, UnderWay, InProgress, CodeHasSession

(* A form is something a tab may show, and no request.                     *)
LEMMA FormShown ==
  ASSUME NEW restart \in BOOLEAN
  PROVE  Form(restart) \in Shown /\ Form(restart).shows # "request"
  BY DEF Form, Shown

(* A page that is no request in one tab puts no code under way.            *)
LEMMA QuietStep ==
  ASSUME LoginInv, NEW t \in Tabs, NEW page \in Shown, page.shows # "request",
         tabs' = [tabs EXCEPT ![t] = page],
         UNCHANGED <<signin, started, channel, wait, result>>
  PROVE  LoginInv'
<1>1. TabsTyped'
  BY DEF LoginInv, TabsTyped
<1>2. \A u \in Tabs : tabs'[u].shows = "request" => tabs[u].shows = "request"
  BY DEF LoginInv, TabsTyped
<1>3. Backed'
  BY <1>2 DEF LoginInv, Backed, UnderWay, InProgress
<1> QED
  BY <1>1, <1>3 DEF LoginInv, CodeHasSession

(* The landing page.                                                       *)
LEMMA LandingKeeps ==
  ASSUME LoginInv, NEW t \in Tabs, Landing(t)
  PROVE  LoginInv'
<1>1. InProgress \in BOOLEAN
  BY DEF InProgress
<1> QED
  BY <1>1, FormShown, QuietStep DEF Landing

(* A submitted form leads to a form, or on to the making of a session.     *)
LEMMA StartSessionKeeps ==
  ASSUME LoginInv, NEW t \in Tabs, StartSession(t)
  PROVE  LoginInv'
<1>1. UNCHANGED <<signin, started, channel, wait, result>>
  BY DEF StartSession
<1>2. CASE tabs' = [tabs EXCEPT ![t] = Form(TRUE)]
  BY <1>1, <1>2, FormShown, QuietStep
<1>3. CASE tabs' = [tabs EXCEPT ![t] = Form(InProgress)]
  <2>1. InProgress \in BOOLEAN
    BY DEF InProgress
  <2> QED
    BY <1>1, <1>3, <2>1, FormShown, QuietStep
<1>4. CASE tabs' = [tabs EXCEPT ![t].shows = "starting"]
  <2>1. tabs[t] \in Shown /\ tabs[t].shows = "form"
    BY DEF LoginInv, TabsTyped, StartSession
  <2> DEFINE page == [tabs[t] EXCEPT !.shows = "starting"]
  <2>2. page \in Shown /\ page.shows # "request"
    BY <2>1 DEF Shown
  <2>3. tabs' = [tabs EXCEPT ![t] = page]
    BY <1>4
  <2> QED
    BY <1>1, <2>2, <2>3, QuietStep
<1> QED
  BY <1>2, <1>3, <1>4 DEF StartSession

(* A session that is stored backs every code, whosever it is.              *)
LEMMA StoreSessionKeeps ==
  ASSUME LoginInv, NEW t \in Tabs, StoreSession(t)
  PROVE  LoginInv'
<1>1. started' = started + 1 /\ signin' = started + 1 /\ UNCHANGED <<channel, wait, result>>
  BY DEF StoreSession
<1>2. tabs' = [tabs EXCEPT ![t] = [shows |-> "amazon", of |-> started + 1]]
  BY DEF StoreSession
<1>3. started \in Nat
  BY DEF LoginInv, TabsTyped
<1>4. [shows |-> "amazon", of |-> started + 1] \in Shown
  BY <1>3 DEF Shown
<1>5. TabsTyped'
  BY <1>1, <1>2, <1>3, <1>4 DEF LoginInv, TabsTyped
<1>6. Backed'
  BY <1>1, <1>3 DEF Backed, InProgress
<1> QED
  BY <1>1, <1>5, <1>6 DEF LoginInv, CodeHasSession

(* A proxied request goes out only while there is a session.               *)
LEMMA BrowseKeeps ==
  ASSUME LoginInv, NEW t \in Tabs, Browse(t)
  PROVE  LoginInv'
<1>1. UNCHANGED <<signin, started, channel, wait, result>>
  BY DEF Browse
<1>2. CASE InProgress
  <2> DEFINE page == [tabs[t] EXCEPT !.shows = "request"]
  <2>1. tabs[t] \in Shown /\ tabs[t].shows = "amazon"
    BY DEF LoginInv, TabsTyped, Browse
  <2>2. page \in Shown
    BY <2>1 DEF Shown
  <2>3. tabs' = [tabs EXCEPT ![t] = page]
    BY <1>2 DEF Browse
  <2>4. TabsTyped'
    BY <1>1, <2>2, <2>3 DEF LoginInv, TabsTyped
  <2>5. Backed'
    BY <1>1, <1>2 DEF Backed, InProgress
  <2> QED
    BY <1>1, <2>4, <2>5 DEF LoginInv, CodeHasSession
<1>3. CASE ~InProgress
  <2>1. tabs' = [tabs EXCEPT ![t] = Form(FALSE)]
    BY <1>3 DEF Browse
  <2> QED
    BY <1>1, <2>1, FormShown, QuietStep
<1> QED
  BY <1>2, <1>3

(* The answer of a request that was backed passes on a code that is.       *)
LEMMA AnswerKeeps ==
  ASSUME LoginInv, NEW t \in Tabs, Answer(t)
  PROVE  LoginInv'
<1>1. UNCHANGED <<signin, started, wait, result>> /\ tabs[t].shows = "request"
  BY DEF Answer
<1>2. wait # "over" => InProgress
  BY <1>1 DEF LoginInv, Backed, UnderWay
<1>3. Backed'
  BY <1>1, <1>2 DEF Backed, InProgress
<1>4. tabs' \in [Tabs -> Shown]
  <2>1. tabs[t] \in Shown
    BY DEF LoginInv, TabsTyped
  <2>2. [tabs[t] EXCEPT !.shows = "amazon"] \in Shown
    BY <1>1, <2>1 DEF Shown
  <2>3. [shows |-> "success"] \in Shown /\ [shows |-> "unavailable"] \in Shown
    BY DEF Shown
  <2> QED
    BY <2>2, <2>3 DEF Answer, LoginInv, TabsTyped
<1> QED
  BY <1>1, <1>3, <1>4 DEF LoginInv, TabsTyped, CodeHasSession

(* run(): a code that is received was backed, and stays so.                *)
LEMMA RunKeeps ==
  ASSUME LoginInv, Receive \/ Timeout \/ TakeSession
  PROVE  LoginInv'
<1>1. CASE Receive
  <2>1. InProgress
    BY <1>1 DEF Receive, LoginInv, Backed, UnderWay
  <2> QED
    BY <1>1, <2>1 DEF Receive, LoginInv, TabsTyped, Backed, InProgress, CodeHasSession
<1>2. CASE Timeout
  BY <1>2 DEF Timeout, LoginInv, TabsTyped, Backed, CodeHasSession
<1>3. CASE TakeSession
  <2>1. InProgress
    BY <1>3 DEF TakeSession, LoginInv, Backed, UnderWay
  <2> QED
    BY <1>3, <2>1 DEF TakeSession, LoginInv, TabsTyped, Backed, CodeHasSession
<1> QED
  BY <1>1, <1>2, <1>3

-----------------------------------------------------------------------------
(* Every reachable state is typed, and every code under way is backed.     *)
THEOREM LoginInvariant == LSpec => []LoginInv
<1>1. LoginInv /\ [LNext]_lvars => LoginInv'
  <2> SUFFICES ASSUME LoginInv, [LNext]_lvars PROVE LoginInv'
    OBVIOUS
  <2>1. ASSUME NEW t \in Tabs,
               Landing(t) \/ StartSession(t) \/ StoreSession(t) \/ Browse(t) \/ Answer(t)
        PROVE  LoginInv'
    BY <2>1, LandingKeeps, StartSessionKeeps, StoreSessionKeeps, BrowseKeeps, AnswerKeeps
  <2>2. CASE UNCHANGED lvars
    BY <2>2 DEF lvars, LoginInv, TabsTyped, Backed, UnderWay, InProgress, CodeHasSession
  <2> QED
    BY <2>1, <2>2, RunKeeps DEF LNext
<1> QED
  BY <1>1, LoginInit, PTL DEF LSpec

(* A code that run() receives has a session to be registered with, however *)
(* many tabs submit, restart and browse: only run() takes a session away,  *)
(* and it takes no second one.                                             *)
THEOREM CodeFindsSession == LSpec => []CodeHasSession
<1>1. LoginInv => CodeHasSession
  BY DEF LoginInv
<1> QED
  BY <1>1, LoginInvariant, PTL


-----------------------------------------------------------------------------
(* Membership: what `--sync` has reported as reflected.                    *)

(* A title that is not in the library is not archived.                     *)
Docs == {d \in M!Seen : d.rights = "none" => ~d.archived}

MarkFields == {"op", "stage", "named", "targets", "todo", "sync", "rounds"}

(* What the property asks of a title's document.                           *)
Meets(op, d) ==
    /\ op = "add" => d.rights # "none"
    /\ op = "archive" => d.archived \/ d.rights = "none"
    /\ op = "unarchive" => ~d.archived

ListsTyped ==
    /\ rights \in [Asins -> M!Rights]
    /\ feed \in [Asins -> Docs] /\ row \in [Asins -> Docs]
    /\ DOMAIN change = MarkFields
    /\ change.targets \subseteq Asins /\ change.named \subseteq Asins
    /\ change.stage = "deleted" => change.op = "remove"
    /\ change.op \in {"archive", "unarchive"} => change.todo = {}

(* The titles the command answers for.                                     *)
Answered == (change.targets \ others) \ change.todo

(* The server has the change from the moment it was made...                *)
Granted ==
    change.stage \in {"change", "poll", "look", "reflected"} =>
        \A a \in Answered :
            /\ change.op = "add" => rights[a] # "none"
            /\ change.op = "archive" => a \in archive
            /\ change.op = "unarchive" => a \notin archive

(* ... what the next sync will bring shows it once a sync of the command   *)
(* has taken what was there before...                                      *)
ComesNext ==
    change.stage \in {"look", "reflected"} =>
        \A a \in Answered : a \in delta => Meets(change.op, feed[a])

(* ... and so does the row once it did.                                    *)
ShowsNow ==
    change.stage = "reflected" => \A a \in Answered : Meets(change.op, row[a])

NothingLeft == change.stage \in {"poll", "look", "reflected"} => change.todo = {}

MembershipInv == ListsTyped /\ Granted /\ ComesNext /\ ShowsNow /\ NothingLeft

(* A step of the command that leaves the lists alone, into a stage that    *)
(* claims nothing new.                                                     *)
LEMMA QuietChange ==
  ASSUME MembershipInv, UNCHANGED <<rights, archive, feed, delta, row, others>>,
         DOMAIN change' = MarkFields, change'.targets \subseteq Asins, change'.named \subseteq Asins,
         change'.stage \notin {"deleted", "change", "poll", "look", "reflected"},
         change'.op \in {"archive", "unarchive"} => change'.todo = {}
  PROVE  MembershipInv'
  BY DEF MembershipInv, ListsTyped, Granted, ComesNext, ShowsNow, NothingLeft

(* Stages are a field of the command.                                      *)
LEMMA StepOf ==
  ASSUME DOMAIN change = MarkFields, NEW s, M!Step(s)
  PROVE  /\ DOMAIN change' = MarkFields /\ change'.stage = s
         /\ change'.op = change.op /\ change'.targets = change.targets
         /\ change'.todo = change.todo /\ change'.named = change.named
  BY DEF M!Step, MarkFields

(* At first nothing is claimed of any title.                               *)
LEMMA MembershipInit == M!MInit => MembershipInv
  BY DEF M!MInit, M!Idle, M!Hidden, M!Rights, M!Seen, Docs, MarkFields, MembershipInv,
         ListsTyped, Granted, ComesNext, ShowsNow, NothingLeft, Answered

(* The server's side: the feed, another client, a sync.                    *)
LEMMA IndexKeeps ==
  ASSUME MembershipInv, NEW a \in Asins, M!Index(a)
  PROVE  MembershipInv'
<1> DEFINE doc == IF rights[a] = "none" THEN M!Hidden
                  ELSE [rights |-> rights[a], archived |-> a \in archive]
<1>1. feed' = [feed EXCEPT ![a] = doc] /\ delta' = delta \cup {a}
      /\ UNCHANGED <<rights, archive, row, change, others>>
  BY DEF M!Index, M!bounds
<1>2. doc \in Docs
  <2>1. rights[a] \in M!Rights /\ (a \in archive) \in BOOLEAN
    BY DEF MembershipInv, ListsTyped
  <2> QED
    BY <2>1 DEF Docs, M!Seen, M!Hidden, M!Rights
<1>3. ListsTyped'
  BY <1>1, <1>2 DEF MembershipInv, ListsTyped
<1>4. change.stage \in {"look", "reflected"} /\ a \in Answered => Meets(change.op, doc)
  BY DEF MembershipInv, Granted, Meets, M!Hidden
<1> HIDE DEF doc
<1>5. ComesNext'
  BY <1>1, <1>4 DEF MembershipInv, ListsTyped, ComesNext, Answered
<1> QED
  BY <1>1, <1>3, <1>5 DEF MembershipInv, Granted, ShowsNow, NothingLeft, Answered

(* A title changed in another client is answered for no longer.            *)
LEMMA ElsewhereKeeps ==
  ASSUME MembershipInv, NEW a \in Asins, M!Elsewhere(a)
  PROVE  MembershipInv'
<1>1. /\ others' = others \cup {a} /\ UNCHANGED <<feed, delta, row, change>>
      /\ \A b \in Asins \ {a} : rights'[b] = rights[b] /\ (b \in archive' <=> b \in archive)
      /\ rights' \in [Asins -> M!Rights]
  BY DEF M!Elsewhere, MembershipInv, ListsTyped
<1>2. Answered' = Answered \ {a} /\ Answered \subseteq Asins
  BY <1>1 DEF Answered, MembershipInv, ListsTyped
<1>3. ListsTyped'
  BY <1>1 DEF MembershipInv, ListsTyped
<1> QED
  BY <1>1, <1>2, <1>3 DEF MembershipInv, Granted, ComesNext, ShowsNow, NothingLeft

(* A sync in any stage but that of a poll.                                 *)
LEMMA SyncedRows ==
  ASSUME ListsTyped, M!Synced
  PROVE  /\ row' \in [Asins -> Docs] /\ delta' = {}
         /\ \A a \in Asins : row'[a] = row[a] \/ (a \in delta /\ row'[a] = feed[a])
  BY DEF ListsTyped, M!Synced

(* A sync brings what the feed shows, or nothing.                          *)
LEMMA SyncKeeps ==
  ASSUME MembershipInv, M!Sync
  PROVE  MembershipInv'
<1>1. M!Synced /\ UNCHANGED <<rights, archive, feed, change, others>>
  BY DEF M!Sync, M!server, M!bounds
<1>2. /\ row' \in [Asins -> Docs] /\ delta' = {}
      /\ \A a \in Asins : row'[a] = row[a] \/ (a \in delta /\ row'[a] = feed[a])
  BY <1>1, SyncedRows DEF MembershipInv
<1>3. ShowsNow'
  BY <1>1, <1>2 DEF MembershipInv, ListsTyped, ShowsNow, ComesNext, Answered, Meets
<1> QED
  BY <1>1, <1>2, <1>3 DEF MembershipInv, ListsTyped, Granted, ComesNext, NothingLeft, Answered

(* The commands up to their changes.                                       *)
LEMMA BeginKeeps ==
  ASSUME MembershipInv, NEW op \in M!Ops, NEW named \in M!Named, NEW sync \in BOOLEAN,
         M!Begin(op, named, sync)
  PROVE  MembershipInv'
  BY DEF M!Begin, M!Idle, M!server, M!view, M!Named, MarkFields, MembershipInv, ListsTyped, Granted,
         ComesNext, ShowsNow, NothingLeft

(* All titles of an add are still before it.                               *)
LEMMA EligibilityKeeps ==
  ASSUME MembershipInv, M!Eligibility
  PROVE  MembershipInv'
<1>1. /\ UNCHANGED <<rights, archive, feed, delta, row, others>>
      /\ change.op = "add" /\ change'.op = "add" /\ DOMAIN change' = MarkFields
      /\ change'.stage = "change" /\ change'.todo = change.named
      /\ change'.named = change.named /\ change'.targets = {a \in change.named : M!IsBorrowable(a)}
  BY DEF M!Eligibility, M!server, M!view, M!bounds, MarkFields, MembershipInv, ListsTyped
<1> QED
  BY <1>1 DEF MembershipInv, ListsTyped, Granted, ComesNext, ShowsNow, NothingLeft, Answered

(* A title is added, or is no target.                                      *)
LEMMA AddOneKeeps ==
  ASSUME MembershipInv, NEW a \in Asins, M!AddOne(a)
  PROVE  MembershipInv'
<1>1. /\ UNCHANGED <<archive, feed, delta, row, others>>
      /\ change.op = "add" /\ change.stage = "change" /\ DOMAIN change = MarkFields
  BY DEF M!AddOne, M!view, M!bounds, MembershipInv, ListsTyped
<1>2. CASE /\ rights' = [rights EXCEPT ![a] = IF @ = "none" THEN "loan" ELSE @]
           /\ change' = [change EXCEPT !.todo = @ \ {a}]
  <2>1. /\ DOMAIN change' = MarkFields /\ change'.op = "add" /\ change'.stage = "change"
        /\ change'.targets = change.targets /\ change'.named = change.named
        /\ change'.todo = change.todo \ {a}
    BY <1>1, <1>2 DEF MarkFields
  <2>2. /\ rights' \in [Asins -> M!Rights] /\ rights'[a] # "none"
        /\ \A b \in Asins \ {a} : rights'[b] = rights[b]
    BY <1>2 DEF MembershipInv, ListsTyped, M!Rights
  <2> QED
    BY <1>1, <2>1, <2>2 DEF MembershipInv, ListsTyped, Granted, ComesNext, ShowsNow, NothingLeft,
                            Answered
<1>3. CASE /\ change' = [change EXCEPT !.todo = @ \ {a}, !.targets = @ \ {a}]
           /\ UNCHANGED <<rights, unindexed>>
  <2>1. /\ DOMAIN change' = MarkFields /\ change'.op = "add" /\ change'.stage = "change"
        /\ change'.targets = change.targets \ {a} /\ change'.named = change.named
        /\ change'.todo = change.todo \ {a}
    BY <1>1, <1>3 DEF MarkFields
  <2> QED
    BY <1>1, <1>3, <2>1 DEF MembershipInv, ListsTyped, Granted, ComesNext, ShowsNow, NothingLeft,
                            Answered
<1> QED
  BY <1>2, <1>3 DEF M!AddOne

(* What a removal leaves is nothing that a reflected change speaks of.     *)
LEMMA RemovalKeeps ==
  ASSUME MembershipInv, change.op = "remove", change'.op = "remove", DOMAIN change' = MarkFields,
         change'.targets \subseteq Asins, change'.named \subseteq Asins,
         change'.stage \in {"poll", "look", "reflected"} => change'.todo = {},
         rights' \in [Asins -> M!Rights], row' \in [Asins -> Docs], UNCHANGED feed
  PROVE  MembershipInv'
  BY DEF MembershipInv, ListsTyped, Granted, ComesNext, ShowsNow, NothingLeft, Meets

(* A removal looks for its loans, and takes them out of the archive.       *)
LEMMA RemoveKeeps ==
  ASSUME MembershipInv, M!ChooseLoans \/ M!RemoveFromArchive
  PROVE  MembershipInv'
<1> USE DEF MarkFields
<1>1. CASE M!ChooseLoans
  BY <1>1, RemovalKeeps DEF M!ChooseLoans, M!server, M!view, M!bounds, MembershipInv, ListsTyped
<1>2. CASE M!RemoveFromArchive
  BY <1>2, RemovalKeeps
     DEF M!RemoveFromArchive, M!Step, M!view, M!bounds, MembershipInv, ListsTyped
<1> QED
  BY <1>1, <1>2

(* A loan is given back.                                                   *)
LEMMA DeleteOneKeeps ==
  ASSUME MembershipInv, NEW a \in Asins, M!DeleteOne(a)
  PROVE  MembershipInv'
  BY RemovalKeeps DEF M!DeleteOne, M!view, M!bounds, M!Rights, MarkFields, MembershipInv, ListsTyped

(* Its row goes.                                                           *)
LEMMA SoftDeleteKeeps ==
  ASSUME MembershipInv, M!SoftDeleteItem
  PROVE  MembershipInv'
<1>1. M!Hidden \in Docs
  BY DEF M!Hidden, Docs, M!Seen, M!Rights
<1>2. row' \in [Asins -> Docs]
  BY <1>1 DEF M!SoftDeleteItem, MembershipInv, ListsTyped
<1> QED
  BY <1>2, RemovalKeeps
     DEF M!SoftDeleteItem, M!Step, M!server, M!bounds, MarkFields, MembershipInv, ListsTyped

(* A collection's command finds its targets.                               *)
LEMMA LookAtItemsKeeps ==
  ASSUME MembershipInv, M!LookAtItems
  PROVE  MembershipInv'
<1>1. /\ UNCHANGED <<rights, archive, feed, delta, row, others>>
      /\ DOMAIN change' = MarkFields
      /\ change'.op = change.op /\ change'.todo = change.todo /\ change'.named = change.named
      /\ change'.targets \subseteq change.named /\ change'.stage \in {"looked", "done", "failed"}
  BY DEF M!LookAtItems, M!ResolveRemovals, M!server, M!view, M!bounds, MarkFields, MembershipInv,
         ListsTyped
<1> QED
  BY <1>1, QuietChange DEF MembershipInv, ListsTyped

(* The list is changed.                                                    *)
LEMMA MutateItemsKeeps ==
  ASSUME MembershipInv, M!MutateItems
  PROVE  MembershipInv'
<1>1. /\ UNCHANGED <<rights, feed, delta, row, others>> /\ M!Step("change")
      /\ change.op \in {"archive", "unarchive", "wish", "unwish"}
  BY DEF M!MutateItems, M!view, M!bounds
<1>2. /\ DOMAIN change' = MarkFields /\ change'.stage = "change"
      /\ change'.op = change.op /\ change'.targets = change.targets
      /\ change'.todo = change.todo /\ change'.named = change.named
  BY <1>1, StepOf DEF MembershipInv, ListsTyped
<1>3. change.op = "archive" => archive' = archive \cup change.targets
  BY DEF M!MutateItems, M!Collection, M!Adding
<1>4. change.op = "unarchive" => archive' = archive \ change.targets
  BY DEF M!MutateItems, M!Collection, M!Adding
<1> QED
  BY <1>1, <1>2, <1>3, <1>4 DEF MembershipInv, ListsTyped, Granted, ComesNext, ShowsNow,
                                NothingLeft, Answered

(* The poll.                                                               *)
LEMMA ChangesKeeps ==
  ASSUME MembershipInv, M!Changes
  PROVE  MembershipInv'
<1>1. /\ UNCHANGED <<rights, archive, feed, delta, row, others>>
      /\ change.stage = "change" /\ change.todo = {}
      /\ M!Step("poll") \/ M!Step("done")
  BY DEF M!Changes, M!server, M!view, M!bounds
<1>2. /\ DOMAIN change' = MarkFields /\ change'.stage \in {"poll", "done"}
      /\ change'.op = change.op /\ change'.targets = change.targets
      /\ change'.todo = change.todo /\ change'.named = change.named
  BY <1>1, StepOf DEF MembershipInv, ListsTyped
<1> QED
  BY <1>1, <1>2 DEF MembershipInv, ListsTyped, Granted, ComesNext, ShowsNow, NothingLeft, Answered

(* A round syncs, and leaves nothing to be told of before it.              *)
LEMMA PollKeeps ==
  ASSUME MembershipInv, M!Poll
  PROVE  MembershipInv'
<1>1. /\ M!Synced /\ UNCHANGED <<rights, archive, feed, others>> /\ change.stage = "poll"
      /\ DOMAIN change' = MarkFields /\ change'.stage = "look"
      /\ change'.op = change.op /\ change'.targets = change.targets
      /\ change'.todo = change.todo /\ change'.named = change.named
  BY DEF M!Poll, M!server, M!bounds, MarkFields, MembershipInv, ListsTyped
<1>2. row' \in [Asins -> Docs] /\ delta' = {}
  BY <1>1, SyncedRows DEF MembershipInv
<1> QED
  BY <1>1, <1>2 DEF MembershipInv, ListsTyped, Granted, ComesNext, ShowsNow, NothingLeft, Answered

(* The rows decide.                                                        *)
LEMMA LookAtRowsKeeps ==
  ASSUME MembershipInv, M!LookAtRows
  PROVE  MembershipInv'
<1>1. /\ UNCHANGED <<rights, archive, feed, delta, row, others>> /\ change.stage = "look"
      /\ \/ M!Step("reflected") /\ \A a \in change.targets : M!Reflected(a)
         \/ M!Step("poll") \/ M!Step("warned")
  BY DEF M!LookAtRows, M!server, M!view, M!bounds
<1>2. /\ DOMAIN change' = MarkFields /\ change'.stage \in {"reflected", "poll", "warned"}
      /\ change'.op = change.op /\ change'.targets = change.targets
      /\ change'.todo = change.todo /\ change'.named = change.named
      /\ change'.stage = "reflected" => \A a \in change.targets : M!Reflected(a)
  BY <1>1, StepOf DEF MembershipInv, ListsTyped
<1>3. ASSUME NEW a \in change.targets, M!Reflected(a)
      PROVE  Meets(change.op, row[a])
  <2>1. row[a] \in Docs
    BY DEF MembershipInv, ListsTyped
  <2> QED
    BY <1>3, <2>1 DEF M!Reflected, M!Present, M!Adding, Meets, Docs, M!Seen
<1>4. ShowsNow'
  BY <1>1, <1>2, <1>3 DEF ShowsNow, Answered
<1> QED
  BY <1>1, <1>2, <1>4 DEF MembershipInv, ListsTyped, Granted, ComesNext, NothingLeft, Answered

-----------------------------------------------------------------------------
(* A change that `--sync` has reported as reflected stays in the rows, for *)
(* any titles, changes elsewhere and rounds.                               *)
THEOREM ReflectedChangesStay == M!MSpec => []ReflectedStays
<1>1. MembershipInv /\ [M!MNext]_(M!mvars) => MembershipInv'
  <2> SUFFICES ASSUME MembershipInv, [M!MNext]_(M!mvars) PROVE MembershipInv'
    OBVIOUS
  <2>1. ASSUME M!Fail PROVE MembershipInv'
    <3>1. /\ UNCHANGED <<rights, archive, feed, delta, row, others>> /\ M!Step("failed")
      BY <2>1 DEF M!Fail, M!server, M!view, M!bounds
    <3> QED
      BY <3>1, StepOf, QuietChange DEF MembershipInv, ListsTyped
  <2>2. CASE UNCHANGED M!mvars
    BY <2>2 DEF M!mvars, MembershipInv, ListsTyped, Granted, ComesNext, ShowsNow, NothingLeft,
                Answered
  <2> QED
    BY <2>1, <2>2, IndexKeeps, ElsewhereKeeps, AddOneKeeps, DeleteOneKeeps, BeginKeeps, SyncKeeps,
       EligibilityKeeps, RemoveKeeps, SoftDeleteKeeps, LookAtItemsKeeps, MutateItemsKeeps,
       ChangesKeeps, PollKeeps, LookAtRowsKeeps
       DEF M!MNext
<1>2. MembershipInv => ReflectedStays
  <2> SUFFICES ASSUME MembershipInv, change.stage = "reflected", NEW a \in change.targets \ others
               PROVE  /\ change.op = "add" => M!Present(a)
                      /\ change.op = "archive" => row[a].archived \/ ~M!Present(a)
                      /\ change.op = "unarchive" => ~row[a].archived
    BY DEF ReflectedStays, M!ReflectedStays
  <2> QED
    BY DEF MembershipInv, ShowsNow, NothingLeft, Answered, Meets, M!Present
<1> QED
  BY <1>1, <1>2, MembershipInit, PTL DEF M!MSpec

-----------------------------------------------------------------------------
(* ApiClient: an exchange for what is stale.                               *)

TaskFields == {"at", "host", "page", "attempt", "how"}

(* A request has its host from its start; a task without one is a command  *)
(* that exchanges in any case.                                             *)
HostsKnown ==
    /\ DOMAIN task = Tasks
    /\ \A t \in Tasks : DOMAIN task[t] = TaskFields /\ (task[t].at = "new" => task[t].host = "none")

(* A step of one task that ends it or takes it to another stage.           *)
LEMMA TaskGoes ==
  ASSUME HostsKnown, NEW t \in Tasks, NEW at, at # "new",
         C!Goto(t, at) \/ (at = "done" /\ \E how : C!End(t, how))
  PROVE  /\ HostsKnown' /\ task'[t].at = at /\ task'[t].host = task[t].host
         /\ \A u \in Tasks \ {t} : task'[u] = task[u]
<1>1. PICK r : r = task[t]
  OBVIOUS
<1>2. DOMAIN r = TaskFields
  BY <1>1 DEF HostsKnown
<1>3. PICK s : task' = [task EXCEPT ![t] = s] /\ DOMAIN s = TaskFields /\ s.at = at /\ s.host = r.host
  <2>1. CASE C!Goto(t, at)
    <3>1. PICK s : s = [r EXCEPT !.at = at]
      OBVIOUS
    <3>2. DOMAIN s = TaskFields /\ s.at = at /\ s.host = r.host
      BY <1>2, <3>1 DEF TaskFields
    <3>3. task' = [task EXCEPT ![t] = s]
      BY <1>1, <2>1, <3>1 DEF C!Goto, HostsKnown
    <3> QED
      BY <3>2, <3>3
  <2>2. ASSUME at = "done", NEW how, C!End(t, how)
        PROVE  \E s : task' = [task EXCEPT ![t] = s] /\ DOMAIN s = TaskFields /\ s.at = at
                      /\ s.host = r.host
    <3>1. PICK s : s = [r EXCEPT !.at = "done", !.how = how]
      OBVIOUS
    <3>2. DOMAIN s = TaskFields /\ s.at = at /\ s.host = r.host
      BY <1>2, <2>2, <3>1 DEF TaskFields
    <3>3. task' = [task EXCEPT ![t] = s]
      BY <1>1, <2>2, <3>1 DEF C!End, HostsKnown
    <3> QED
      BY <3>2, <3>3
  <2> QED
    BY <2>1, <2>2
<1>4. /\ DOMAIN task' = Tasks /\ task'[t] = s
      /\ \A u \in Tasks \ {t} : task'[u] = task[u]
  BY <1>3 DEF HostsKnown
<1> QED
  BY <1>1, <1>3, <1>4 DEF HostsKnown

(* What the property asks of one task's step.                              *)
SpendsWhenStale(t) ==
    task[t].host # "none" =>
        /\ task[t].at # "refreshing" /\ task'[t].at = "refreshing" => C!AccessTokenExpired
        /\ task[t].at # "exchanging" /\ task'[t].at = "exchanging"
              => C!CookieStatus(auth, task[t].host) # "fresh"

(* A step that takes a task somewhere else than to an exchange, or ends it.*)
LEMMA TaskSends ==
  ASSUME HostsKnown, NEW t \in Tasks, C!Goto(t, "send")
  PROVE  HostsKnown' /\ \A u \in Tasks : SpendsWhenStale(u)
  BY TaskGoes DEF SpendsWhenStale

(* A second look at the cookies.                                           *)
LEMMA TaskRechecks ==
  ASSUME HostsKnown, NEW t \in Tasks, C!Goto(t, "recheck")
  PROVE  HostsKnown' /\ \A u \in Tasks : SpendsWhenStale(u)
  BY TaskGoes DEF SpendsWhenStale

(* The end of a request.                                                   *)
LEMMA TaskEnds ==
  ASSUME HostsKnown, NEW t \in Tasks, NEW how, C!End(t, how)
  PROVE  HostsKnown' /\ \A u \in Tasks : SpendsWhenStale(u)
  BY TaskGoes DEF SpendsWhenStale

(* A step to a refresh or to an exchange, by a command or for what is stale.*)
LEMMA TaskRefreshes ==
  ASSUME HostsKnown, NEW t \in Tasks, C!Goto(t, "refreshing"),
         task[t].host = "none" \/ C!AccessTokenExpired
  PROVE  HostsKnown' /\ \A u \in Tasks : SpendsWhenStale(u)
<1>1. /\ HostsKnown' /\ task'[t].at = "refreshing"
      /\ \A u \in Tasks \ {t} : task'[u] = task[u]
  BY TaskGoes
<1> QED
  BY <1>1 DEF SpendsWhenStale

(* An exchange of cookies.                                                 *)
LEMMA TaskExchanges ==
  ASSUME HostsKnown, NEW t \in Tasks, C!Goto(t, "exchanging"),
         task[t].host = "none" \/ C!CookieStatus(auth, task[t].host) # "fresh"
  PROVE  HostsKnown' /\ \A u \in Tasks : SpendsWhenStale(u)
<1>1. /\ HostsKnown' /\ task'[t].at = "exchanging"
      /\ \A u \in Tasks \ {t} : task'[u] = task[u]
  BY TaskGoes
<1> QED
  BY <1>1 DEF SpendsWhenStale

(* The start of a request.                                                 *)
LEMMA RequestBegins ==
  ASSUME HostsKnown, NEW t \in Tasks, NEW mode \in {"auto", "signing", "cookies"}, NEW host,
         NEW page, C!Begin(t, mode, host, page)
  PROVE  HostsKnown' /\ \A u \in Tasks : SpendsWhenStale(u)
<1>1. C!Resolved(mode, host) \in {"token", "signing", "cookies"}
  BY DEF C!Resolved
<1>2. PICK r : r = [at |-> C!Resolved(mode, host), host |-> host, page |-> page, attempt |-> 1,
                    how |-> "none"]
  OBVIOUS
<1>3. PICK s : s = IF r.at = "signing" /\ ~auth.signer
                   THEN [r EXCEPT !.at = "done", !.how = "unavailable"] ELSE r
  OBVIOUS
<1>4. task' = [task EXCEPT ![t] = s]
  BY <1>2, <1>3 DEF C!Begin
<1>5. DOMAIN s = TaskFields /\ s.at \in {"token", "signing", "cookies", "done"}
  BY <1>1, <1>2, <1>3 DEF TaskFields
<1> QED
  BY <1>4, <1>5 DEF HostsKnown, SpendsWhenStale

(* The steps of the token.                                                 *)
LEMMA TokenSteps ==
  ASSUME HostsKnown, NEW t \in Tasks,
         C!EnsureFreshAccessToken(t) \/ C!ForceRefresh(t) \/ C!PerformTokenRefresh(t)
  PROVE  HostsKnown' /\ \A u \in Tasks : SpendsWhenStale(u)
<1>1. CASE C!EnsureFreshAccessToken(t)
  <2>1. CASE C!AccessTokenExpired /\ C!Goto(t, "refreshing")
    BY <2>1, TaskRefreshes
  <2>2. CASE C!Goto(t, "send") \/ C!End(t, "no refresh token")
    BY <2>2, TaskSends, TaskRechecks, TaskEnds
  <2> QED
    BY <1>1, <2>1, <2>2 DEF C!EnsureFreshAccessToken
<1>2. CASE C!ForceRefresh(t)
  <2>1. task[t].host = "none"
    BY <1>2 DEF C!ForceRefresh, C!At, HostsKnown
  <2>2. CASE C!Goto(t, "refreshing")
    BY <2>1, <2>2, TaskRefreshes
  <2>3. CASE C!End(t, "no refresh token")
    BY <2>3, TaskSends, TaskRechecks, TaskEnds
  <2> QED
    BY <1>2, <2>2, <2>3 DEF C!ForceRefresh
<1>3. CASE C!PerformTokenRefresh(t)
  BY <1>3, TaskSends, TaskRechecks, TaskEnds DEF C!PerformTokenRefresh
<1> QED
  BY <1>1, <1>2, <1>3

(* The steps of the cookies.                                               *)
LEMMA CookieSteps ==
  ASSUME HostsKnown, NEW t \in Tasks,
         C!LookAtCookies(t) \/ C!RecheckCookies(t) \/ C!RefreshCookies(t)
           \/ C!PerformCookieExchange(t)
  PROVE  HostsKnown' /\ \A u \in Tasks : SpendsWhenStale(u)
<1>1. CASE C!LookAtCookies(t)
  BY <1>1, TaskSends, TaskRechecks, TaskEnds DEF C!LookAtCookies
<1>2. CASE C!RecheckCookies(t)
  <2>1. CASE C!CookieStatus(auth, task[t].host) # "fresh" /\ C!Goto(t, "exchanging")
    BY <2>1, TaskExchanges
  <2>2. CASE C!Goto(t, "send") \/ C!End(t, "no refresh token")
    BY <2>2, TaskSends, TaskRechecks, TaskEnds
  <2> QED
    BY <1>2, <2>1, <2>2 DEF C!RecheckCookies
<1>3. CASE C!RefreshCookies(t)
  <2>1. task[t].host = "none"
    BY <1>3 DEF C!RefreshCookies, C!At, HostsKnown
  <2>2. CASE C!Goto(t, "exchanging")
    BY <2>1, <2>2, TaskExchanges
  <2>3. CASE C!End(t, "no refresh token")
    BY <2>3, TaskSends, TaskRechecks, TaskEnds
  <2> QED
    BY <1>3, <2>2, <2>3 DEF C!RefreshCookies
<1>4. CASE C!PerformCookieExchange(t)
  <2>1. C!Goto(t, "send") \/ \E how : C!End(t, how)
    BY <1>4 DEF C!PerformCookieExchange
  <2> QED
    BY <2>1, TaskSends, TaskRechecks, TaskEnds
<1> QED
  BY <1>1, <1>2, <1>3, <1>4

(* The request itself.                                                     *)
LEMMA SendStep ==
  ASSUME HostsKnown, NEW t \in Tasks, C!Send(t)
  PROVE  HostsKnown' /\ \A u \in Tasks : SpendsWhenStale(u)
<1>1. CASE task' = [task EXCEPT ![t].at = "token", ![t].attempt = @ + 1]
  <2>1. PICK s : s = [task[t] EXCEPT !.at = "token", !.attempt = @ + 1]
    OBVIOUS
  <2>2. DOMAIN s = TaskFields /\ s.at = "token"
    BY <2>1 DEF HostsKnown, TaskFields
  <2>3. task' = [task EXCEPT ![t] = s]
    BY <1>1, <2>1 DEF HostsKnown
  <2> QED
    BY <2>2, <2>3 DEF HostsKnown, SpendsWhenStale
<1>2. CASE C!End(t, "answered") \/ C!End(t, "failed")
  BY <1>2, TaskSends, TaskRechecks, TaskEnds
<1> QED
  BY <1>1, <1>2 DEF C!Send

-----------------------------------------------------------------------------
(* A request spends the refresh token only on what is stale at that moment,*)
(* for any requests and any time.                                          *)
THEOREM RequestsShareExchanges == C!ASpec => OneExchangePerLapse
<1> DEFINE A == \A t \in Tasks : SpendsWhenStale(t)
<1>1. C!AInit => HostsKnown
  BY DEF C!AInit, HostsKnown, TaskFields
<1>2. HostsKnown /\ C!ANext => HostsKnown' /\ A
  <2> SUFFICES ASSUME HostsKnown, C!ANext PROVE HostsKnown' /\ A
    OBVIOUS
  <2>1. ASSUME UNCHANGED task PROVE HostsKnown' /\ A
    BY <2>1 DEF HostsKnown, SpendsWhenStale
  <2>2. ASSUME NEW t \in Tasks,
               \/ \E r \in C!Requests : C!Begin(t, r.mode, r.host, FALSE)
               \/ C!Begin(t, "auto", "api.audible.de", TRUE)
        PROVE  HostsKnown' /\ A
    <3>1. \A r \in C!Requests : r.mode \in {"auto", "signing", "cookies"}
      BY DEF C!Requests
    <3> QED
      BY <2>2, <3>1, RequestBegins
  <2>3. ASSUME C!ClearAccessToken \/ C!Tick \/ \E domains \in SUBSET C!Domains : C!RemoveCookies(domains)
        PROVE  UNCHANGED task
    BY <2>3 DEF C!ClearAccessToken, C!Tick, C!RemoveCookies
  <2> QED
    BY <2>1, <2>2, <2>3, TokenSteps, CookieSteps, SendStep DEF C!ANext
<1>3. HostsKnown /\ [C!ANext]_(C!avars) => HostsKnown'
  BY <1>2 DEF C!avars, HostsKnown
<1> HIDE DEF A
<1>4. HostsKnown /\ [C!ANext]_(C!avars) => [A]_(C!avars)
  BY <1>2
<1>5. C!ASpec => [][A]_(C!avars)
  BY <1>1, <1>3, <1>4, PTL DEF C!ASpec
<1> QED
  BY <1>5 DEF A, SpendsWhenStale, OneExchangePerLapse, C!OneExchangePerLapse

-----------------------------------------------------------------------------
(* Annotations: what a run that reports success has saved.                 *)

NoteRow == [status : {"ok", "none"}, doc : Nat, path : Stems \cup {NoPath}]

(* A row is something else than none.                                      *)
RowsTell == NoRow \notin NoteRow

NoteFields == {"stage", "save", "targets", "task", "doc"}

NotesTyped ==
    /\ server \in [Titles -> Nat] /\ \A t \in Marked \cap Titles : server[t] # 0
    /\ base \in [Titles -> Stems]
    /\ rows \in [Titles -> NoteRow \cup {NoRow}]
    /\ DOMAIN files = Stems
    /\ DOMAIN annotating = NoteFields /\ annotating.targets \subseteq Titles
    /\ DOMAIN annotating.task = annotating.targets
    /\ annotating.doc \in [annotating.targets -> Nat]

(* The file that is there under the name of a title was written by this    *)
(* run, unless a write has failed.                                         *)
Filed(t) ==
    \/ \E v \in annotating.targets : annotating.task[v] = "failed"
    \/ \E u \in annotating.targets :
          /\ base[u] = base[t] /\ annotating.task[u] \in {"written", "ok"}
          /\ files[base[t]] = [of |-> u, doc |-> annotating.doc[u]]

(* What the run has of a title at each of its stages.                      *)
NoteFits(t) ==
    /\ annotating.task[t] \in {"fetched", "stored", "written", "ok", "none"} /\ t \in Marked
          => annotating.doc[t] # 0
    /\ annotating.task[t] \in {"stored", "written", "ok", "none"}
          => /\ rows[t] # NoRow /\ rows[t].doc = annotating.doc[t]
             /\ rows[t].status = IF annotating.doc[t] = 0 THEN "none" ELSE "ok"
    /\ annotating.task[t] = "none" => annotating.doc[t] = 0
    /\ annotating.task[t] = "ok" /\ annotating.save => rows[t].path = base[t]
    /\ annotating.task[t] = "written" \/ (annotating.task[t] = "ok" /\ annotating.save) => Filed(t)

NotesInv ==
    /\ NotesTyped
    /\ annotating.stage \in {"running", "ok"} => \A t \in annotating.targets : NoteFits(t)
    /\ annotating.stage = "ok" => \A t \in annotating.targets : annotating.task[t] \in {"ok", "none"}

(* At first there is neither a row nor a command.                          *)
LEMMA NotesInit == N!AInit => NotesInv
  BY DEF N!AInit, N!Idle, NotesInv, NotesTyped, NoteFields

(* A command that has no title under way and claims no success.            *)
LEMMA NotesRest ==
  ASSUME NotesInv, annotating' = N!Idle, UNCHANGED <<server, base>>,
         rows' \in [Titles -> NoteRow \cup {NoRow}], DOMAIN files' = Stems
  PROVE  NotesInv'
  BY DEF N!Idle, NotesInv, NotesTyped, NoteFields

(* One title goes to another stage, the command stays what it is.          *)
LEMMA TitleGoes ==
  ASSUME NotesTyped, NEW t \in annotating.targets, NEW s, N!Goes(t, s)
  PROVE  /\ DOMAIN annotating' = NoteFields
         /\ annotating'.stage = annotating.stage /\ annotating'.save = annotating.save
         /\ annotating'.targets = annotating.targets /\ annotating'.doc = annotating.doc
         /\ DOMAIN annotating'.task = annotating.targets /\ annotating'.task[t] = s
         /\ \A u \in annotating.targets \ {t} : annotating'.task[u] = annotating.task[u]
<1>1. PICK f : f = [annotating.task EXCEPT ![t] = s]
  OBVIOUS
<1>2. annotating' = [annotating EXCEPT !.task = f]
  BY <1>1 DEF N!Goes
<1> QED
  BY <1>1, <1>2 DEF NotesTyped, NoteFields

(* A failure takes every claim about the files with it.                    *)
LEMMA TitleFails ==
  ASSUME NotesInv, annotating.stage = "running", NEW t \in annotating.targets, N!Goes(t, "failed"),
         UNCHANGED <<server, base, rows>>, DOMAIN files' = Stems
  PROVE  NotesInv'
<1>1. /\ DOMAIN annotating' = NoteFields
      /\ annotating'.stage = "running" /\ annotating'.save = annotating.save
      /\ annotating'.targets = annotating.targets /\ annotating'.doc = annotating.doc
      /\ DOMAIN annotating'.task = annotating.targets /\ annotating'.task[t] = "failed"
      /\ \A u \in annotating.targets \ {t} : annotating'.task[u] = annotating.task[u]
  BY TitleGoes DEF NotesInv
<1>2. NotesTyped'
  BY <1>1 DEF NotesInv, NotesTyped
<1>3. ASSUME NEW u \in annotating.targets PROVE NoteFits(u)'
  <2>1. Filed(u)'
    BY <1>1 DEF Filed
  <2>2. NoteFits(u)
    BY DEF NotesInv
  <2> QED
    BY <1>1, <2>1, <2>2 DEF NoteFits
<1> QED
  BY <1>1, <1>2, <1>3 DEF NotesInv

(* The other titles, when one goes on: the files are what they were, or    *)
(* have that title's in the place of another's.                            *)
LEMMA OthersFit ==
  ASSUME NotesInv, annotating.stage = "running", NEW t \in annotating.targets,
         annotating.task[t] # "failed",
         annotating'.save = annotating.save, annotating'.targets = annotating.targets,
         annotating.task[t] \in {"written", "ok"} => annotating'.task[t] \in {"written", "ok"},
         annotating'.doc[t] = annotating.doc[t] \/ annotating.task[t] = "waiting",
         \A u \in annotating.targets \ {t} :
             /\ annotating'.task[u] = annotating.task[u] /\ annotating'.doc[u] = annotating.doc[u]
             /\ rows'[u] = rows[u],
         UNCHANGED base,
         \/ UNCHANGED files
         \/ /\ files' = [files EXCEPT ![base[t]] = [of |-> t, doc |-> annotating.doc[t]]]
            /\ annotating'.task[t] = "written" /\ annotating'.doc[t] = annotating.doc[t]
  PROVE  \A u \in annotating.targets \ {t} : NoteFits(u)'
<1> SUFFICES ASSUME NEW u \in annotating.targets \ {t} PROVE NoteFits(u)'
  OBVIOUS
<1>1. NoteFits(u)
  BY DEF NotesInv
<1>2. Filed(u) => Filed(u)'
  <2>1. CASE \E v \in annotating.targets : annotating.task[v] = "failed"
    BY <2>1 DEF Filed
  <2>2. ASSUME NEW w \in annotating.targets, base[w] = base[u],
               annotating.task[w] \in {"written", "ok"},
               files[base[u]] = [of |-> w, doc |-> annotating.doc[w]]
        PROVE  Filed(u)'
    <3>1. annotating'.task[w] \in {"written", "ok"} /\ annotating'.doc[w] = annotating.doc[w]
      BY <2>2
    <3>2. CASE UNCHANGED files \/ base[t] # base[u]
      <4>1. files'[base[u]] = files[base[u]]
        BY <3>2 DEF NotesInv, NotesTyped
      <4> QED
        BY <2>2, <3>1, <4>1 DEF Filed
    <3>3. CASE /\ files' = [files EXCEPT ![base[t]] = [of |-> t, doc |-> annotating.doc[t]]]
               /\ annotating'.task[t] = "written" /\ annotating'.doc[t] = annotating.doc[t]
               /\ base[t] = base[u]
      <4>1. files'[base[u]] = [of |-> t, doc |-> annotating'.doc[t]]
        BY <3>3 DEF NotesInv, NotesTyped
      <4> QED
        BY <3>3, <4>1 DEF Filed
    <3> QED
      BY <3>2, <3>3
  <2> QED
    BY <2>1, <2>2 DEF Filed
<1> QED
  BY <1>1, <1>2 DEF NoteFits

(* The answer.                                                             *)
LEMMA AnswerIsFetched ==
  ASSUME NotesInv, NEW t \in Titles, N!RequestAnnotations(t)
  PROVE  NotesInv'
<1>1. /\ annotating.stage = "running" /\ t \in annotating.targets /\ annotating.task[t] = "waiting"
      /\ UNCHANGED <<server, base, rows, files>>
  BY DEF N!RequestAnnotations, N!At
<1>2. CASE N!Goes(t, "failed")
  BY <1>1, <1>2, TitleFails DEF NotesInv, NotesTyped
<1>3. CASE annotating' = [annotating EXCEPT !.task[t] = "fetched", !.doc[t] = server[t]]
  <2>1. PICK f : f = [annotating.task EXCEPT ![t] = "fetched"]
    OBVIOUS
  <2>2. PICK g : g = [annotating.doc EXCEPT ![t] = server[t]]
    OBVIOUS
  <2>3. annotating' = [annotating EXCEPT !.task = f, !.doc = g]
    BY <1>3, <2>1, <2>2 DEF NotesInv, NotesTyped, NoteFields
  <2>4. /\ DOMAIN annotating' = NoteFields
        /\ annotating'.stage = "running" /\ annotating'.save = annotating.save
        /\ annotating'.targets = annotating.targets
        /\ annotating'.task = f /\ annotating'.doc = g
    BY <1>1, <2>3 DEF NotesInv, NotesTyped, NoteFields
  <2>5. /\ DOMAIN f = annotating.targets /\ f[t] = "fetched"
        /\ \A u \in annotating.targets \ {t} : f[u] = annotating.task[u]
    BY <1>1, <2>1 DEF NotesInv, NotesTyped
  <2>6. /\ g \in [annotating.targets -> Nat] /\ g[t] = server[t]
        /\ \A u \in annotating.targets \ {t} : g[u] = annotating.doc[u]
    BY <1>1, <2>2 DEF NotesInv, NotesTyped
  <2>7. NotesTyped'
    BY <1>1, <2>4, <2>5, <2>6 DEF NotesInv, NotesTyped
  <2>8. \A u \in annotating.targets \ {t} : NoteFits(u)'
    BY <1>1, <2>4, <2>5, <2>6, OthersFit
  <2>9. t \in Marked => server[t] # 0
    BY DEF NotesInv, NotesTyped
  <2>10. NoteFits(t)'
    BY <2>4, <2>5, <2>6, <2>9 DEF NoteFits
  <2> QED
    BY <2>4, <2>7, <2>8, <2>10 DEF NotesInv
<1> QED
  BY <1>2, <1>3 DEF N!RequestAnnotations

(* The row.                                                                *)
LEMMA RowIsStored ==
  ASSUME RowsTell, NotesInv, NEW t \in Titles, N!UpsertAnnotation(t)
  PROVE  NotesInv'
<1>1. /\ annotating.stage = "running" /\ t \in annotating.targets /\ annotating.task[t] = "fetched"
      /\ UNCHANGED <<server, base, files>>
  BY DEF N!UpsertAnnotation, N!At
<1>2. CASE N!Goes(t, "failed") /\ UNCHANGED rows
  BY <1>1, <1>2, TitleFails DEF NotesInv, NotesTyped
<1>3. CASE /\ rows' = [rows EXCEPT ![t] = N!Stored(t, annotating.doc[t])]
           /\ N!Goes(t, IF annotating.doc[t] = 0 THEN "none"
                        ELSE IF annotating.save THEN "stored" ELSE "ok")
  <2>1. PICK s : s = IF annotating.doc[t] = 0 THEN "none"
                     ELSE IF annotating.save THEN "stored" ELSE "ok"
    OBVIOUS
  <2>2. N!Goes(t, s)
    BY <1>3, <2>1
  <2>3. /\ DOMAIN annotating' = NoteFields
        /\ annotating'.stage = "running" /\ annotating'.save = annotating.save
        /\ annotating'.targets = annotating.targets /\ annotating'.doc = annotating.doc
        /\ DOMAIN annotating'.task = annotating.targets /\ annotating'.task[t] = s
        /\ \A u \in annotating.targets \ {t} : annotating'.task[u] = annotating.task[u]
    BY <1>1, <2>2, TitleGoes DEF NotesInv
  <2>4. PICK r : r = N!Stored(t, annotating.doc[t])
    OBVIOUS
  <2>5. /\ r \in NoteRow /\ r # NoRow /\ r.doc = annotating.doc[t]
        /\ r.status = IF annotating.doc[t] = 0 THEN "none" ELSE "ok"
    <3>1. annotating.doc[t] \in Nat /\ rows[t] \in NoteRow \cup {NoRow}
      BY <1>1 DEF NotesInv, NotesTyped
    <3> QED
      BY <2>4, <3>1 DEF N!Stored, NoteRow, RowsTell
  <2>6. /\ rows' \in [Titles -> NoteRow \cup {NoRow}] /\ rows'[t] = r
        /\ \A u \in Titles \ {t} : rows'[u] = rows[u]
    BY <1>3, <2>4, <2>5 DEF NotesInv, NotesTyped
  <2>7. NotesTyped'
    BY <1>1, <2>3, <2>6 DEF NotesInv, NotesTyped
  <2>8. \A u \in annotating.targets \ {t} : NoteFits(u)'
    BY <1>1, <2>3, <2>6, OthersFit DEF NotesInv, NotesTyped
  <2>9. NoteFits(t)'
    <3>1. NoteFits(t)
      BY <1>1 DEF NotesInv
    <3> QED
      BY <1>1, <2>1, <2>3, <2>5, <2>6, <3>1 DEF NoteFits
  <2> QED
    BY <2>3, <2>7, <2>8, <2>9 DEF NotesInv
<1> QED
  BY <1>2, <1>3 DEF N!UpsertAnnotation

(* The file.                                                               *)
LEMMA FileIsWritten ==
  ASSUME NotesInv, NEW t \in Titles, N!SaveAnnot(t)
  PROVE  NotesInv'
<1>1. /\ annotating.stage = "running" /\ t \in annotating.targets /\ annotating.task[t] = "stored"
      /\ UNCHANGED <<server, base, rows>>
  BY DEF N!SaveAnnot, N!At
<1>2. CASE N!Goes(t, "failed") /\ files' \in {files, [files EXCEPT ![base[t]] = Lost]}
  <2>1. DOMAIN files' = Stems
    BY <1>2 DEF NotesInv, NotesTyped
  <2> QED
    BY <1>1, <1>2, <2>1, TitleFails
<1>3. CASE /\ files' = [files EXCEPT ![base[t]] = [of |-> t, doc |-> annotating.doc[t]]]
           /\ N!Goes(t, "written")
  <2>1. /\ DOMAIN annotating' = NoteFields
        /\ annotating'.stage = "running" /\ annotating'.save = annotating.save
        /\ annotating'.targets = annotating.targets /\ annotating'.doc = annotating.doc
        /\ DOMAIN annotating'.task = annotating.targets /\ annotating'.task[t] = "written"
        /\ \A u \in annotating.targets \ {t} : annotating'.task[u] = annotating.task[u]
    BY <1>1, <1>3, TitleGoes DEF NotesInv
  <2>2. NotesTyped'
    BY <1>1, <1>3, <2>1 DEF NotesInv, NotesTyped
  <2>3. \A u \in annotating.targets \ {t} : NoteFits(u)'
    BY <1>1, <1>3, <2>1, OthersFit
  <2>4. Filed(t)'
    <3>1. files'[base[t]] = [of |-> t, doc |-> annotating'.doc[t]]
      BY <1>3, <2>1 DEF NotesInv, NotesTyped
    <3> QED
      BY <1>1, <2>1, <3>1 DEF Filed
  <2>5. NoteFits(t)'
    <3>1. NoteFits(t)
      BY <1>1 DEF NotesInv
    <3> QED
      BY <1>1, <2>1, <2>4, <3>1 DEF NoteFits
  <2> QED
    BY <2>1, <2>2, <2>3, <2>5 DEF NotesInv
<1> QED
  BY <1>2, <1>3 DEF N!SaveAnnot

(* The path in the row.                                                    *)
LEMMA PathIsSet ==
  ASSUME RowsTell, NotesInv, NEW t \in Titles, N!SetAnnotationPath(t)
  PROVE  NotesInv'
<1>1. /\ annotating.stage = "running" /\ t \in annotating.targets /\ annotating.task[t] = "written"
      /\ UNCHANGED <<server, base, files>>
  BY DEF N!SetAnnotationPath, N!At
<1>2. CASE N!Goes(t, "failed") /\ UNCHANGED rows
  BY <1>1, <1>2, TitleFails DEF NotesInv, NotesTyped
<1>3. CASE rows' = [rows EXCEPT ![t].path = base[t]] /\ N!Goes(t, "ok")
  <2>1. /\ DOMAIN annotating' = NoteFields
        /\ annotating'.stage = "running" /\ annotating'.save = annotating.save
        /\ annotating'.targets = annotating.targets /\ annotating'.doc = annotating.doc
        /\ DOMAIN annotating'.task = annotating.targets /\ annotating'.task[t] = "ok"
        /\ \A u \in annotating.targets \ {t} : annotating'.task[u] = annotating.task[u]
    BY <1>1, <1>3, TitleGoes DEF NotesInv
  <2>2. NoteFits(t)
    BY <1>1 DEF NotesInv
  <2>3. rows[t] \in NoteRow
    BY <1>1, <2>2 DEF NotesInv, NotesTyped, NoteFits
  <2>4. PICK r : r = [rows[t] EXCEPT !.path = base[t]]
    OBVIOUS
  <2>5. /\ r \in NoteRow /\ r # NoRow /\ r.path = base[t]
        /\ r.doc = rows[t].doc /\ r.status = rows[t].status
    BY <2>3, <2>4 DEF NoteRow, RowsTell, NotesInv, NotesTyped
  <2>6. /\ rows' \in [Titles -> NoteRow \cup {NoRow}] /\ rows'[t] = r
        /\ \A u \in Titles \ {t} : rows'[u] = rows[u]
    BY <1>3, <2>4, <2>5 DEF NotesInv, NotesTyped
  <2>7. NotesTyped'
    BY <1>1, <2>1, <2>6 DEF NotesInv, NotesTyped
  <2>8. \A u \in annotating.targets \ {t} : NoteFits(u)'
    BY <1>1, <2>1, <2>6, OthersFit DEF NotesInv, NotesTyped
  <2>9. Filed(t)'
    BY <1>1, <2>1, <2>2 DEF NoteFits, Filed
  <2>10. NoteFits(t)'
    BY <1>1, <2>1, <2>2, <2>5, <2>6, <2>9 DEF NoteFits
  <2> QED
    BY <2>1, <2>7, <2>8, <2>10 DEF NotesInv
<1> QED
  BY <1>2, <1>3 DEF N!SetAnnotationPath

(* A command that begins has all of its titles before it.                  *)
LEMMA SyncBegins ==
  ASSUME NotesInv, NEW save \in BOOLEAN, N!Begin(save)
  PROVE  NotesInv'
<1>1. PICK targets \in N!Selections :
         annotating' = [stage |-> "running", save |-> save, targets |-> targets,
                        task |-> [t \in targets |-> "waiting"], doc |-> [t \in targets |-> 0]]
  BY DEF N!Begin
<1>2. targets \subseteq Titles
  BY DEF N!Selections, N!AnnotationTargets
<1>3. /\ DOMAIN annotating' = NoteFields /\ annotating'.stage = "running"
      /\ annotating'.targets = targets /\ annotating'.doc = [t \in targets |-> 0]
      /\ annotating'.task = [t \in targets |-> "waiting"]
  BY <1>1 DEF NoteFields
<1>4. UNCHANGED <<server, base, rows, files>>
  BY DEF N!Begin
<1>5. NotesTyped'
  BY <1>2, <1>3, <1>4 DEF NotesInv, NotesTyped
<1>6. \A t \in targets : NoteFits(t)'
  BY <1>3 DEF NoteFits
<1> QED
  BY <1>3, <1>5, <1>6 DEF NotesInv

(* The report.                                                             *)
LEMMA SyncFinishes ==
  ASSUME NotesInv, N!Finish
  PROVE  NotesInv'
<1>1. PICK s : s = IF \E t \in annotating.targets : annotating.task[t] = "failed"
                   THEN "failed" ELSE "ok"
  OBVIOUS
<1>2. annotating.stage = "running" /\ annotating' = [annotating EXCEPT !.stage = s]
      /\ UNCHANGED <<server, base, rows, files>>
  BY <1>1 DEF N!Finish
<1>3. /\ DOMAIN annotating' = NoteFields /\ annotating'.stage = s
      /\ annotating'.save = annotating.save /\ annotating'.targets = annotating.targets
      /\ annotating'.task = annotating.task /\ annotating'.doc = annotating.doc
  BY <1>2 DEF NotesInv, NotesTyped, NoteFields
<1>4. NotesTyped'
  BY <1>2, <1>3 DEF NotesInv, NotesTyped
<1>5. \A t \in annotating.targets : NoteFits(t)'
  BY <1>2, <1>3 DEF NotesInv, NoteFits, Filed
<1>6. s = "ok" => \A t \in annotating.targets : annotating.task[t] \in {"ok", "none"}
  BY <1>1 DEF N!Finish
<1> QED
  BY <1>3, <1>4, <1>5, <1>6 DEF NotesInv

(* What moves or changes while no command runs, and in Audible's players.  *)
LEMMA NotesStay ==
  ASSUME NotesInv, UNCHANGED <<base, rows, files, annotating>>,
         server' \in [Titles -> Nat], \A u \in Marked \cap Titles : server'[u] # 0
  PROVE  NotesInv'
<1>1. NotesTyped'
  BY DEF NotesInv, NotesTyped
<1>2. ASSUME NEW t \in annotating.targets, NoteFits(t) PROVE NoteFits(t)'
  <2>1. Filed(t) => Filed(t)'
    BY DEF Filed
  <2> QED
    BY <1>2, <2>1 DEF NoteFits
<1> QED
  BY <1>1, <1>2 DEF NotesInv

(* A bookmark is set in a player.                                          *)
LEMMA PlayerAnnotates ==
  ASSUME NotesInv, NEW t \in Titles, N!Annotate(t)
  PROVE  NotesInv'
<1>1. server' \in [Titles -> Nat] /\ \A u \in Marked \cap Titles : server'[u] # 0
  BY DEF N!Annotate, NotesInv, NotesTyped
<1>2. UNCHANGED <<base, rows, files, annotating>>
  BY DEF N!Annotate
<1> QED
  BY <1>1, <1>2, NotesStay

(* A title gets another name.                                              *)
LEMMA TitleIsRenamed ==
  ASSUME NotesInv, NEW t \in Titles, NEW s \in Stems, N!Rename(t, s)
  PROVE  NotesInv'
  BY DEF N!Rename, NotesInv, NotesTyped

(* `reorganize` moves a file, and perhaps its row.                         *)
LEMMA NoteIsMoved ==
  ASSUME RowsTell, NotesInv, NEW t \in Titles, N!Reorganize(t)
  PROVE  NotesInv'
<1>1. rows' \in [Titles -> NoteRow \cup {NoRow}]
  <2>1. CASE UNCHANGED rows
    BY <2>1 DEF NotesInv, NotesTyped
  <2>2. CASE rows' = [rows EXCEPT ![t].path = base[t]]
    <3>1. rows[t] \in NoteRow
      BY DEF N!Reorganize, N!Planned, NotesInv, NotesTyped
    <3>2. PICK r : r = [rows[t] EXCEPT !.path = base[t]]
      OBVIOUS
    <3>3. r \in NoteRow
      BY <3>1, <3>2 DEF NoteRow, NotesInv, NotesTyped
    <3> QED
      BY <2>2, <3>2, <3>3 DEF NotesInv, NotesTyped
  <2> QED
    BY <2>1, <2>2 DEF N!Reorganize
<1>2. DOMAIN files' = Stems /\ annotating.stage = "idle" /\ UNCHANGED <<server, base, annotating>>
  BY DEF N!Reorganize, NotesInv, NotesTyped
<1> QED
  BY <1>1, <1>2 DEF NotesInv, NotesTyped

(* A run that was killed, or whose report has been read.                   *)
LEMMA SyncIsKilled ==
  ASSUME NotesInv, N!Killed \/ N!Forget
  PROVE  NotesInv'
<1>1. DOMAIN files' = Stems
  BY DEF N!Killed, N!Forget, NotesInv, NotesTyped
<1> QED
  BY <1>1, NotesRest DEF N!Killed, N!Forget, NotesInv, NotesTyped

-----------------------------------------------------------------------------
(* What the summary calls a success has been saved, for any titles and     *)
(* names, also when titles share one.                                      *)
THEOREM SuccessesAreSaved == RowsTell => (N!ASpec => []SuccessIsSaved)
<1> SUFFICES ASSUME RowsTell PROVE N!ASpec => []SuccessIsSaved
  OBVIOUS
<1>1. NotesInv /\ [N!ANext]_(N!avars) => NotesInv'
  <2> SUFFICES ASSUME NotesInv, [N!ANext]_(N!avars) PROVE NotesInv'
    OBVIOUS
  <2>1. CASE UNCHANGED N!avars
    BY <2>1, NotesStay DEF N!avars, NotesInv, NotesTyped
  <2> QED
    BY <2>1, AnswerIsFetched, RowIsStored, FileIsWritten, PathIsSet, SyncBegins, SyncFinishes,
       PlayerAnnotates, TitleIsRenamed, NoteIsMoved, SyncIsKilled
       DEF N!ANext
<1>2. NotesInv => SuccessIsSaved
  <2> SUFFICES ASSUME NotesInv, annotating.stage = "ok", NEW t \in annotating.targets
               PROVE  /\ rows[t] # NoRow /\ rows[t].doc = annotating.doc[t]
                      /\ t \in Marked => rows[t].status = "ok"
                      /\ annotating.save /\ rows[t].status = "ok" =>
                            /\ rows[t].path = base[t]
                            /\ \E u \in {v \in annotating.targets : base[v] = base[t]} :
                                  files[base[t]] = [of |-> u, doc |-> rows[u].doc]
    BY DEF SuccessIsSaved, N!SuccessIsSaved
  <2>1. NoteFits(t) /\ annotating.task[t] \in {"ok", "none"}
    BY DEF NotesInv
  <2>2. rows[t] # NoRow /\ rows[t].doc = annotating.doc[t] /\ (t \in Marked => rows[t].status = "ok")
    BY <2>1 DEF NoteFits
  <2>3. ASSUME annotating.save, rows[t].status = "ok"
        PROVE  /\ rows[t].path = base[t]
               /\ \E u \in {v \in annotating.targets : base[v] = base[t]} :
                     files[base[t]] = [of |-> u, doc |-> rows[u].doc]
    <3>1. annotating.task[t] = "ok"
      BY <2>1, <2>3 DEF NoteFits
    <3>2. rows[t].path = base[t] /\ Filed(t)
      BY <2>1, <2>3, <3>1 DEF NoteFits
    <3>3. PICK u \in annotating.targets :
             base[u] = base[t] /\ files[base[t]] = [of |-> u, doc |-> annotating.doc[u]]
      BY <3>2 DEF Filed, NotesInv
    <3>4. rows[u].doc = annotating.doc[u]
      BY DEF NotesInv, NoteFits
    <3> QED
      BY <3>2, <3>3, <3>4
  <2> QED
    BY <2>2, <2>3
<1> QED
  BY <1>1, <1>2, NotesInit, PTL DEF N!ASpec

-----------------------------------------------------------------------------
(* RequestFiles: a saved request replays as the one that was composed.     *)

(* Numbers are well-founded, so that a bounded set of them has a maximum.  *)
LEMMA NatOrder ==
  \E R : IsWellFoundedOn(R, Nat) /\ \A y, z \in Nat : <<y, z>> \in R <=> y < z
<1>1. \A y, z \in Nat : <<y, z>> \in OpToRel(<, Nat) <=> y < z
  BY DEF OpToRel
<1> QED
  BY <1>1, NatLessThanWellFounded, Zenon

(* The least of a set of numbers.                                          *)
LEMMA LeastNat ==
  ASSUME NEW S, S \subseteq Nat, S # {}
  PROVE  \E n \in S : \A m \in S : n <= m
<1>1. PICK R : IsWellFoundedOn(R, Nat) /\ \A y, z \in Nat : <<y, z>> \in R <=> y < z
  BY NatOrder
<1>0. IsWellFoundedOn(R, Nat)
  BY <1>1
<1>2. PICK x \in S : \A y \in S : ~(<<y, x>> \in R)
  <2> HIDE <1>1
  <2> QED
    BY <1>0, WFMin
<1>3. ASSUME NEW y \in S PROVE x <= y
  <2>1. x \in Nat /\ y \in Nat
    OBVIOUS
  <2>2. ~(y < x)
    BY <1>1, <1>2, <2>1
  <2> QED
    BY <2>1, <2>2
<1> QED
  BY <1>3

(* The last place that a search finds is one of those it looked for.       *)
LEMMA MaxIsMember ==
  ASSUME NEW n \in Nat, NEW I, I \subseteq 0 .. n, I # {}
  PROVE  Q!Max(I) \in I
<1> DEFINE S == {k \in Nat : n - k \in I}
<1>1. S # {}
  <2> PICK i \in I : TRUE
    OBVIOUS
  <2>1. n - i \in S
    OBVIOUS
  <2> QED
    BY <2>1
<1>2. PICK s \in S : \A m \in S : s <= m
  BY <1>1, LeastNat
<1>3. ASSUME NEW i \in I PROVE n - s >= i
  <2>1. n - i \in S
    OBVIOUS
  <2>2. s <= n - i
    BY <1>2, <2>1
  <2> QED
    BY <2>2
<1>4. \E x \in I : \A i \in I : x >= i
  BY <1>3
<1> QED
  BY <1>4 DEF Q!Max

(* A finite set becomes a sequence of its members.                         *)
LEMMA SetAsSequence ==
  ASSUME NEW S, IsFiniteSet(S)
  PROVE  Q!SetToSeq(S) \in Seq(S) /\ Q!ToSet(Q!SetToSeq(S)) = S
<1> DEFINE n == Cardinality(S)
<1>1. n \in Nat /\ ExistsBijection(1 .. n, S)
  BY FS_CardinalityType
<1>2. IsFiniteSet(1 .. n) /\ Cardinality(1 .. n) = n
  BY <1>1, FS_Interval
<1>3. \E f \in [1 .. n -> S] : Q!IsInjective(f)
  BY <1>1 DEF ExistsBijection, Bijection, Injection, IsInjective, Q!IsInjective
<1>4. PICK f : f = CHOOSE g \in [1 .. n -> S] : Q!IsInjective(g)
  OBVIOUS
<1>5. f \in [1 .. n -> S] /\ Q!IsInjective(f)
  <2> HIDE DEF n
  <2> QED
    BY <1>3, <1>4, Zenon
<1>6. f \in Injection(1 .. n, S)
  BY <1>5 DEF Injection, IsInjective, Q!IsInjective
<1>7. f \in Surjection(1 .. n, S)
  BY <1>2, <1>6, FS_Injection
<1>8. Q!ToSet(f) = S
  BY <1>5, <1>7 DEF Surjection, Q!ToSet
<1>9. f \in Seq(S)
  BY <1>1, <1>5
<1>10. f = Q!SetToSeq(S)
  <2>1. Q!Cardinality(S) = n
    BY DEF Cardinality, Q!Cardinality
  <2> QED
    BY <1>4, <2>1 DEF Q!SetToSeq
<1> QED
  BY <1>8, <1>9, <1>10

Texts == Q!Texts

(* What a saved query says of each key is a pair of the one it was saved   *)
(* from.                                                                   *)
LEMMA MapHasPairs ==
  ASSUME NEW pairs \in Seq(QueryKeys \X Texts), NEW k \in DOMAIN Q!MapOf(pairs)
  PROVE  <<k, Q!MapOf(pairs)[k]>> \in Q!ToSet(pairs)
<1> DEFINE I == {i \in 1 .. Len(pairs) : pairs[i][1] = k}
<1>1. Len(pairs) \in Nat /\ DOMAIN pairs = 1 .. Len(pairs)
  OBVIOUS
<1>2. k \in {p[1] : p \in Q!ToSet(pairs)}
  BY DEF Q!MapOf, Q!Collected
<1>3. I # {}
  BY <1>1, <1>2 DEF Q!ToSet
<1>4. Q!Collected(pairs)[k] = Q!Max(I)
  BY <1>2, <1>3 DEF Q!Collected, Q!SelectLastInSeq
<1>5. Q!Max(I) \in I
  <2>1. I \subseteq 0 .. Len(pairs)
    BY <1>1
  <2> HIDE DEF I
  <2> QED
    BY <1>1, <1>3, <2>1, MaxIsMember
<1>6. PICK i \in 1 .. Len(pairs) : i = Q!Collected(pairs)[k] /\ pairs[i][1] = k
  BY <1>4, <1>5
<1>7. Q!MapOf(pairs)[k] = pairs[i][2]
  BY <1>6 DEF Q!MapOf
<1>8. pairs[i] = <<pairs[i][1], pairs[i][2]>>
  BY <1>1
<1> QED
  BY <1>1, <1>6, <1>7, <1>8 DEF Q!ToSet

(* The queries of a composed request are pairs of a key and a text.        *)
LEMMA QueryTyped ==
  ASSUME IsFiniteSet(QueryKeys), NEW map, NEW ks \in SUBSET QueryKeys, map \in [ks -> Texts]
  PROVE  /\ Q!QueryAsStrings(map) \in Seq(QueryKeys \X Texts)
         /\ Q!ToSet(Q!QueryAsStrings(map)) = {<<k, map[k]>> : k \in ks}
<1> DEFINE T == {<<k, map[k]>> : k \in ks}
<1>1. PICK f : f = [k \in ks |-> <<k, map[k]>>]
  OBVIOUS
<1>2. f \in Surjection(ks, T)
  BY <1>1 DEF Surjection
<1>3. IsFiniteSet(ks)
  BY FS_Subset
<1>4. IsFiniteSet(T)
  BY <1>2, <1>3, FS_Surjection
<1>5. T \subseteq QueryKeys \X Texts
  OBVIOUS
<1>6. DOMAIN map = ks
  OBVIOUS
<1>7. Q!QueryAsStrings(map) = Q!SetToSeq(T)
  BY <1>6 DEF Q!QueryAsStrings
<1>8. Q!SetToSeq(T) \in Seq(T) /\ Q!ToSet(Q!SetToSeq(T)) = T
  BY <1>4, SetAsSequence
<1> HIDE DEF T
<1>9. Q!SetToSeq(T) \in Seq(QueryKeys \X Texts)
  BY <1>5, <1>8
<1> QED
  BY <1>7, <1>8, <1>9 DEF T

(* A query without a key that has two values comes back from its file.     *)
LEMMA QueryRoundTrip ==
  ASSUME IsFiniteSet(QueryKeys), NEW pairs \in Seq(QueryKeys \X Texts),
         \A p, q \in Q!ToSet(pairs) : p[1] = q[1] => p = q
  PROVE  /\ Q!QueryAsStrings(Q!MapOf(pairs)) \in Seq(QueryKeys \X Texts)
         /\ Q!ToSet(Q!QueryAsStrings(Q!MapOf(pairs))) = Q!ToSet(pairs)
<1>1. PICK map : map = Q!MapOf(pairs)
  OBVIOUS
<1>2. PICK ks : ks = {p[1] : p \in Q!ToSet(pairs)}
  OBVIOUS
<1>3. map = [k \in ks |-> map[k]]
  BY <1>1, <1>2 DEF Q!MapOf, Q!Collected
<1>4. Q!ToSet(pairs) \subseteq QueryKeys \X Texts
  BY DEF Q!ToSet
<1>5. ks \in SUBSET QueryKeys
  BY <1>2, <1>4
<1>6. \A k \in ks : <<k, map[k]>> \in Q!ToSet(pairs)
  BY <1>1, <1>3, MapHasPairs
<1>7. map \in [ks -> Texts]
  BY <1>3, <1>4, <1>6
<1>8. /\ Q!QueryAsStrings(map) \in Seq(QueryKeys \X Texts)
      /\ Q!ToSet(Q!QueryAsStrings(map)) = {<<k, map[k]>> : k \in ks}
  BY <1>5, <1>7, QueryTyped
<1>9. ASSUME NEW p \in Q!ToSet(pairs) PROVE p = <<p[1], map[p[1]]>> /\ p[1] \in ks
  <2>1. p[1] \in ks
    BY <1>2
  <2> QED
    BY <1>6, <2>1
<1>10. {<<k, map[k]>> : k \in ks} = Q!ToSet(pairs)
  BY <1>6, <1>9
<1> QED
  BY <1>1, <1>8, <1>10

(* There are finitely many keys, and no body file of the flags is named by *)
(* a relative path.                                                        *)
Portable == IsFiniteSet(QueryKeys) /\ "relative" \notin BodyPaths

(* The query of what was composed.                                         *)
LEMMA ComposedQuery ==
  ASSUME Portable, NEW f \in Q!RequestFile, NEW a \in Q!Args
  PROVE  Q!Composed(f, a).query \in Seq(QueryKeys \X Texts)
<1>1. PICK ks \in SUBSET QueryKeys : f.query \in [ks -> Texts]
  BY DEF Q!RequestFile, Texts
<1>2. Q!QueryAsStrings(f.query) \in Seq(QueryKeys \X Texts)
  BY <1>1, QueryTyped DEF Portable
<1>3. a.query \in Q!SeqOf(Q!Pairs, MaxPairs)
  BY DEF Q!Args
<1>4. PICK m \in 0 .. MaxPairs : a.query \in [1 .. m -> QueryKeys \X Texts]
  BY <1>3 DEF Q!SeqOf, Q!Pairs, Texts
<1>5. a.query \in Seq(QueryKeys \X Texts)
  BY <1>4
<1> QED
  BY <1>2, <1>5 DEF Q!Composed

(* What was saved is sent as what was composed.                            *)
LEMMA SavedIsSent ==
  ASSUME Portable, NEW f \in Q!RequestFile, NEW a \in Q!Args,
         NEW map \in Q!ParseQueryStrings(Q!Composed(f, a).query)
  PROVE  Q!Sent(Q!Composed([Q!Composed(f, a) EXCEPT !.query = map], Q!NoFile))
           = Q!Sent(Q!Composed(f, a))
<1>1. PICK spec : spec = Q!Composed(f, a)
  OBVIOUS
<1>2. PICK kept : kept = [spec EXCEPT !.query = map]
  OBVIOUS
<1>3. PICK again : again = Q!Composed(kept, Q!NoFile)
  OBVIOUS
<1>4. /\ kept.query = map /\ kept.body = spec.body /\ kept.content_type = spec.content_type
      /\ kept.vars = spec.vars
  BY <1>1, <1>2 DEF Q!Composed
<1>5. /\ map = Q!MapOf(spec.query)
      /\ \A p, q \in Q!ToSet(spec.query) : p[1] = q[1] => p = q
  BY <1>1 DEF Q!ParseQueryStrings
<1>6. spec.query \in Seq(QueryKeys \X Texts)
  BY <1>1, ComposedQuery
<1>7. /\ Q!QueryAsStrings(map) \in Seq(QueryKeys \X Texts)
      /\ Q!ToSet(Q!QueryAsStrings(map)) = Q!ToSet(spec.query)
  BY <1>5, <1>6, QueryRoundTrip DEF Portable
<1>8. again.query = Q!QueryAsStrings(map)
  <2>1. Q!QueryAsStrings(map) \o <<>> = Q!QueryAsStrings(map)
    BY <1>7
  <2> QED
    BY <1>3, <1>4, <2>1 DEF Q!Composed, Q!NoFile
<1>9. spec.body # "relative"
  <2>1. a.body # "relative"
    BY DEF Portable, Q!Args, Q!Body, Q!Texts, Q!None
  <2> QED
    BY <1>1, <2>1 DEF Q!Composed, Q!ResolveBodyPath
<1>10. again.body = spec.body /\ again.content_type = spec.content_type /\ again.vars = spec.vars
  BY <1>3, <1>4, <1>9
     DEF Q!Composed, Q!CliBody, Q!NoFile, Q!None, Q!ResolveBodyPath, Q!CollectVars
<1>11. Q!MergeQuery(again.query) = Q!MergeQuery(spec.query)
  BY <1>7, <1>8 DEF Q!MergeQuery
<1>12. Q!Sent(again) = Q!Sent(spec)
  BY <1>10, <1>11 DEF Q!Sent
<1> QED
  BY <1>1, <1>2, <1>3, <1>12

-----------------------------------------------------------------------------
(* What is composed is what was typed, what is saved can be sent again, and*)
(* what a replay has sent is the request that was composed.                *)
SavesFit ==
    /\ composer = "flags"
    /\ stage \in {"compose", "save"} => saved = Q!NoFile
    /\ stage \in {"save", "replay"} => request \in Q!RequestFile /\ args \in Q!Args
    /\ stage = "replay" =>
          \E map \in Q!ParseQueryStrings(Q!Composed(request, args).query) :
             saved = [Q!Composed(request, args) EXCEPT !.query = map]
    /\ stage = "end" => saved = Q!NoFile \/ outcome = Q!Original

(* A request saved with --save-request replays as the one that was         *)
(* composed would have been sent, for any keys and values and any number   *)
(* of parameters.                                                          *)
THEOREM SavesReplay == Portable => (Q!RSpec => []SavedReplays)
<1> SUFFICES ASSUME Portable PROVE Q!RSpec => []SavedReplays
  OBVIOUS
<1>1. Q!RInit => SavesFit
  BY DEF Q!RInit, SavesFit
<1>2. SavesFit /\ [Q!RNext]_(Q!rvars) => SavesFit'
  <2> SUFFICES ASSUME SavesFit, [Q!RNext]_(Q!rvars) PROVE SavesFit'
    OBVIOUS
  <2>1. CASE Q!Compose
    BY <2>1 DEF Q!Compose, SavesFit
  <2>2. CASE Q!SaveRequest
    <3>1. /\ stage = "save" /\ UNCHANGED <<composer, request, args, outcome>>
          /\ \/ stage' = "end" /\ UNCHANGED saved
             \/ /\ stage' = "replay"
                /\ \E map \in Q!ParseQueryStrings(Q!Composed(request, args).query) :
                      saved' = [Q!Composed(request, args) EXCEPT !.query = map]
      BY <2>2 DEF Q!SaveRequest
    <3> QED
      BY <3>1 DEF SavesFit
  <2>3. ~Q!SaveFromParts
    BY DEF Q!SaveFromParts, SavesFit
  <2>4. CASE Q!Replay
    <3>1. PICK map \in Q!ParseQueryStrings(Q!Composed(request, args).query) :
             saved = [Q!Composed(request, args) EXCEPT !.query = map]
      BY <2>4 DEF Q!Replay, SavesFit
    <3>2. request \in Q!RequestFile /\ args \in Q!Args
      BY <2>4 DEF Q!Replay, SavesFit
    <3>3. Q!Sent(Q!Composed(saved, Q!NoFile)) = Q!Sent(Q!Composed(request, args))
      BY <3>1, <3>2, SavedIsSent
    <3>4. outcome' = Q!Sent(Q!Composed(request, args))
      BY <2>4, <3>3 DEF Q!Replay
    <3>5. stage' = "end" /\ UNCHANGED <<composer, request, args, saved>>
      BY <2>4 DEF Q!Replay
    <3>6. Q!Original' = Q!Sent(Q!Composed(request, args))
      BY <3>5 DEF Q!Original, SavesFit
    <3> QED
      BY <3>4, <3>5, <3>6 DEF SavesFit
  <2>5. CASE UNCHANGED Q!rvars
    BY <2>5 DEF Q!rvars, SavesFit, Q!Original
  <2> QED
    BY <2>1, <2>2, <2>3, <2>4, <2>5 DEF Q!RNext
<1>3. SavesFit => SavedReplays
  BY DEF SavesFit, SavedReplays, Q!SavedReplays
<1> QED
  BY <1>1, <1>2, <1>3, PTL DEF Q!RSpec

-----------------------------------------------------------------------------
(* ConfigFile: what the gate lets through, and what it leaves possible.    *)

(* No account is called like having none.                                  *)
Named == F!None \notin TableNames

(* The gate passes what it is given, and only what is valid.               *)
LEMMA GatePasses ==
  /\ \A c : \A d \in F!Gate(c) : F!Valid(d)
  /\ \A c : F!Valid(c) => c \in F!Gate(c) /\ F!Gate(c) # F!Refused
  BY DEF F!Gate, F!Refused

(* The edits of config::write end with the gate.                           *)
LEMMA EditsAreGated ==
  /\ \A c, key : \A d \in F!UnsetKey(c, key) : F!Valid(d)
  /\ \A c, n, field, list : \A d \in F!SetArray(c, n, field, list) : F!Valid(d)
  /\ \A c, n : \A d \in F!SetDefaultAccount(c, n) : F!Valid(d)
  /\ \A c : \A d \in F!UnsetDefaultAccount(c) : F!Valid(d)
  /\ \A c, n : \A d \in F!UnsetAccount(c, n) : F!Valid(d)
  /\ \A c, old, new : \A d \in F!RenameAccount(c, old, new) : F!Valid(d)
  /\ \A c, h : \A d \in F!AddAllowedHost(c, h) : F!Valid(d)
  /\ \A c, h : \A d \in F!RemoveAllowedHost(c, h) : F!Valid(d)
<1>1. \A c, key : \A d \in F!UnsetKey(c, key) : F!Valid(d)
  BY GatePasses DEF F!UnsetKey, F!If, F!Refused
<1>2. \A c, n, field, list : \A d \in F!SetArray(c, n, field, list) : F!Valid(d)
  BY GatePasses DEF F!SetArray, F!If, F!Refused
<1>3. \A c, n : \A d \in F!SetDefaultAccount(c, n) : F!Valid(d)
  BY GatePasses DEF F!SetDefaultAccount
<1>4. \A c : \A d \in F!UnsetDefaultAccount(c) : F!Valid(d)
  BY GatePasses DEF F!UnsetDefaultAccount, F!If, F!Refused
<1>5. \A c, n : \A d \in F!UnsetAccount(c, n) : F!Valid(d)
  BY GatePasses DEF F!UnsetAccount, F!If, F!Refused
<1>6. \A c, old, new : \A d \in F!RenameAccount(c, old, new) : F!Valid(d)
  BY GatePasses DEF F!RenameAccount, F!If, F!Refused
<1>7. \A c, h : \A d \in F!AddAllowedHost(c, h) : F!Valid(d)
  BY GatePasses DEF F!AddAllowedHost, F!If, F!Refused
<1>8. \A c, h : \A d \in F!RemoveAllowedHost(c, h) : F!Valid(d)
  BY GatePasses DEF F!RemoveAllowedHost, F!If, F!Refused
<1> QED
  BY <1>1, <1>2, <1>3, <1>4, <1>5, <1>6, <1>7, <1>8

(* A registration, and the default it may become.                          *)
LEMMA RegisterIsGated ==
  ASSUME NEW ctx, NEW c, NEW n, NEW markets, NEW d \in F!Register(ctx, c, n, markets)
  PROVE  F!Valid(d)
  BY GatePasses, EditsAreGated DEF F!Register, F!If, F!Refused, F!Then

(* Whatever types the texts of set_many end up with.                       *)
LEMMA SetManyIsGated ==
  ASSUME NEW c, NEW entries, NEW d \in F!SetMany(c, entries)
  PROVE  F!Valid(d)
  BY GatePasses DEF F!SetMany

(* A removal or logout, the default first.                                 *)
LEMMA RemovesAreGated ==
  ASSUME NEW ctx, NEW c, NEW n, NEW d \in F!RemoveAccount(ctx, c, n)
  PROVE  F!Valid(d)
  BY GatePasses, EditsAreGated DEF F!RemoveAccount, F!If, F!Refused, F!Then


(* The lists of an account.                                                *)
LEMMA MarketplacesAreGated ==
  ASSUME NEW ctx, NEW c, NEW n, NEW cc, NEW setDefault,
         NEW d \in F!MarketplacesAdd(ctx, c, n, cc, setDefault)
                   \cup F!MarketplacesRemove(ctx, c, n, cc)
  PROVE  F!Valid(d)
<1>1. CASE d \in F!MarketplacesAdd(ctx, c, n, cc, setDefault)
  BY <1>1, EditsAreGated DEF F!MarketplacesAdd, F!If, F!Refused, F!Then
<1>2. CASE d \in F!MarketplacesRemove(ctx, c, n, cc)
  BY <1>2, EditsAreGated DEF F!MarketplacesRemove, F!If, F!Refused, F!Then
<1> QED
  BY <1>1, <1>2

(* The wizard, and the editor.                                             *)
LEMMA SetupIsGated ==
  ASSUME NEW ctx, NEW c, NEW decrypt, NEW keep, NEW d \in F!Setup(ctx, c, decrypt, keep)
  PROVE  F!Valid(d)
  BY GatePasses, EditsAreGated DEF F!Setup, F!If, F!Refused, F!Then

(* The editor's copy becomes the file if it loads.                         *)
LEMMA EditIsGated ==
  ASSUME NEW copy, NEW c, NEW key, NEW raw, NEW d \in F!Edit(copy, c, key, raw)
  PROVE  F!Valid(d)
  BY GatePasses DEF F!Edit, F!Then

(* What a command writes is valid, whatever it had loaded and whatever the *)
(* file says by now.                                                       *)
LEMMA WrittenIsValid ==
  ASSUME NEW m \in F!Commands, NEW ctx, NEW c, NEW d \in F!Written(m, ctx, c)
  PROVE  F!Valid(d)
<1>1. m.op \in {"register", "set default", "remove", "rename", "marketplaces add",
                "marketplaces remove", "marketplaces default", "settings add",
                "settings remove", "settings default", "set", "edit", "unset",
                "unset default", "setup", "allow host", "remove host"}
  BY DEF F!Commands
<1>2. CASE m.op = "register"
  <2>1. F!Written(m, ctx, c) = F!Register(ctx, c, m.n, m.markets)
    BY <1>2 DEF F!Written
  <2> QED
    BY <2>1, RegisterIsGated
<1>3. CASE m.op = "set default"
  <2>1. F!Written(m, ctx, c) = F!SetDefault(ctx, c, m.n)
    BY <1>3 DEF F!Written
  <2> QED
    BY <2>1, EditsAreGated DEF F!SetDefault, F!If, F!Refused
<1>4. CASE m.op = "remove"
  <2>1. F!Written(m, ctx, c) = F!RemoveAccount(ctx, c, m.n)
    BY <1>4 DEF F!Written
  <2> QED
    BY <2>1, RemovesAreGated
<1>5. CASE m.op = "rename"
  <2>1. F!Written(m, ctx, c) = F!Rename(ctx, c, m.n, m.to)
    BY <1>5 DEF F!Written
  <2> QED
    BY <2>1, EditsAreGated DEF F!Rename, F!If, F!Refused
<1>6. CASE m.op = "marketplaces add"
  <2>1. F!Written(m, ctx, c) = F!MarketplacesAdd(ctx, c, m.n, m.cc, m.default)
    BY <1>6 DEF F!Written
  <2> QED
    BY <2>1, MarketplacesAreGated
<1>7. CASE m.op = "marketplaces remove"
  <2>1. F!Written(m, ctx, c) = F!MarketplacesRemove(ctx, c, m.n, m.cc)
    BY <1>7 DEF F!Written
  <2> QED
    BY <2>1, MarketplacesAreGated
<1>8. CASE m.op = "marketplaces default"
  <2>1. F!Written(m, ctx, c) = F!MarketplacesSetDefault(ctx, c, m.n, m.list)
    BY <1>8 DEF F!Written
  <2> QED
    BY <2>1, EditsAreGated DEF F!MarketplacesSetDefault, F!If, F!Refused
<1>9. CASE m.op \in {"settings add", "settings remove", "settings default"}
  <2>1. F!Written(m, ctx, c) \in {F!SettingsAdd(ctx, c, m.b), F!SettingsRemove(ctx, c, m.b),
                                  F!SettingsSetDefault(ctx, c, m.n, m.b)}
    BY <1>9 DEF F!Written
  <2> QED
    BY <2>1, GatePasses, EditsAreGated
       DEF F!SettingsAdd, F!SettingsRemove, F!SettingsSetDefault, F!If, F!Refused
<1>10. CASE m.op \in {"set", "edit"}
  <2>1. F!Written(m, ctx, c) \in {F!Set(c, m.key, m.raw), F!Edit(ctx, c, m.key, m.raw)}
    BY <1>10 DEF F!Written
  <2> QED
    BY <2>1, EditIsGated, SetManyIsGated DEF F!Set
<1>11. CASE m.op \in {"unset", "unset default", "allow host", "remove host"}
  <2>1. F!Written(m, ctx, c) \in {F!UnsetKey(c, m.key), F!UnsetDefaultAccount(c),
                                  F!AddAllowedHost(c, m.h), F!RemoveAllowedHost(c, m.h)}
    BY <1>11 DEF F!Written
  <2> QED
    BY <2>1, EditsAreGated
<1>12. CASE m.op = "setup"
  <2>1. F!Written(m, ctx, c) = F!Setup(ctx, c, m.decrypt, m.keep)
    BY <1>12 DEF F!Written
  <2> QED
    BY <2>1, SetupIsGated
<1> QED
  BY <1>1, <1>2, <1>3, <1>4, <1>5, <1>6, <1>7, <1>8, <1>9, <1>10, <1>11, <1>12


ConfigInv ==
    /\ F!Valid(toml)
    /\ \A u \in Users : editor[u] = F!Idle \/ editor[u].does \in F!Commands
    /\ DOMAIN editor = Users

(* A command loads, and its write passes the gate or changes nothing.      *)
LEMMA ConfigKeeps ==
  ASSUME ConfigInv, [F!Next]_(F!fvars)
  PROVE  ConfigInv'
<1>1. CASE UNCHANGED F!fvars
  BY <1>1 DEF F!fvars, ConfigInv
<1>2. ASSUME NEW u \in Users, NEW m \in F!Commands, F!Load(u, m)
      PROVE  ConfigInv'
  BY <1>2 DEF F!Load, ConfigInv
<1>3. ASSUME NEW u \in Users, F!EditFile(u)
      PROVE  ConfigInv'
  <2>1. PICK m : m = editor[u].does
    OBVIOUS
  <2>2. PICK written : written = F!Written(m, editor[u].ctx, toml)
    OBVIOUS
  <2>3. m \in F!Commands
    BY <1>3, <2>1 DEF F!EditFile, ConfigInv
  <2>4. toml' = IF written = F!Refused THEN toml ELSE CHOOSE c \in written : TRUE
    BY <1>3, <2>1, <2>2 DEF F!EditFile
  <2>5. written = F!Refused \/ (CHOOSE c \in written : TRUE) \in written
    BY DEF F!Refused
  <2>6. \A d \in written : F!Valid(d)
    BY <2>2, <2>3, WrittenIsValid
  <2>7. F!Valid(toml')
    BY <2>4, <2>5, <2>6 DEF ConfigInv
  <2>8. F!Valid(toml)'
    BY <2>7 DEF F!Valid
  <2>9. editor' = [editor EXCEPT ![u] = F!Idle]
    BY <1>3 DEF F!EditFile
  <2> QED
    BY <2>8, <2>9 DEF ConfigInv
<1> QED
  BY <1>1, <1>2, <1>3 DEF F!Next

(* An account can be removed.                                              *)
LEMMA CanRemove ==
  ASSUME Named, F!Valid(toml), NEW n \in DOMAIN toml.accounts
  PROVE  F!RemoveAccount(toml, toml, n) # F!Refused
<1>1. PICK c : c = toml
  OBVIOUS
<1>2. F!Valid(c)
  BY <1>1
<1>3. n \in TableNames /\ n # F!None
  BY <1>1, <1>2 DEF Named, F!Valid
<1>4. ASSUME NEW d, F!Valid(d), d.default_account # n
      PROVE  F!UnsetAccount(d, n) # F!Refused \/ n \notin DOMAIN d.accounts
  <2>1. PICK left : left = [m \in DOMAIN d.accounts \ {n} |-> d.accounts[m]]
    OBVIOUS
  <2>2. PICK e : e = [d EXCEPT !.accounts = left]
    OBVIOUS
  <2>3. /\ DOMAIN e = DOMAIN d /\ e.accounts = left /\ e.settings = d.settings
        /\ e.keys = d.keys /\ e.default_account = d.default_account
    BY <1>4, <2>2 DEF F!Valid
  <2>4. F!Valid(e)
    BY <1>4, <2>1, <2>3 DEF F!Valid
  <2> QED
    BY <2>1, <2>2, <2>4, GatePasses DEF F!UnsetAccount, F!If
<1>5. CASE c.default_account # n
  <2>1. F!UnsetAccount(c, n) # F!Refused
    BY <1>1, <1>2, <1>4, <1>5
  <2> QED
    BY <1>1, <1>5, <2>1 DEF F!RemoveAccount, F!If
<1>6. CASE c.default_account = n
  <2>1. PICK d : d = [c EXCEPT !.default_account = F!None]
    OBVIOUS
  <2>2. /\ DOMAIN d = DOMAIN c /\ d.accounts = c.accounts /\ d.settings = c.settings
        /\ d.keys = c.keys /\ d.default_account = F!None
    BY <1>2, <2>1 DEF F!Valid
  <2>3. F!Valid(d)
    BY <1>2, <2>2 DEF F!Valid
  <2>4. d \in F!UnsetDefaultAccount(c)
    BY <1>3, <1>6, <2>1, <2>3, GatePasses DEF F!UnsetDefaultAccount, F!If
  <2>5. F!UnsetAccount(d, n) # F!Refused
    BY <1>1, <1>3, <1>4, <2>2, <2>3
  <2>6. PICK e : e \in F!UnsetAccount(d, n)
    BY <2>5 DEF F!Refused
  <2>7. e \in F!RemoveAccount(c, c, n)
    BY <1>1, <1>6, <2>4, <2>6 DEF F!RemoveAccount, F!If, F!Then
  <2> QED
    BY <1>1, <2>7 DEF F!Refused
<1> QED
  BY <1>5, <1>6

(* And be given a name that is free.                                       *)
LEMMA CanRename ==
  ASSUME Named, F!Valid(toml), NEW n \in DOMAIN toml.accounts,
         NEW new \in TableNames \ DOMAIN toml.accounts
  PROVE  F!Rename(toml, toml, n, new) # F!Refused
<1>1. PICK c : c = toml
  OBVIOUS
<1>2. F!Valid(c) /\ n \in DOMAIN c.accounts /\ new \notin DOMAIN c.accounts
  BY <1>1
<1>3. PICK moved : moved = [m \in (DOMAIN c.accounts \ {n}) \cup {new} |->
                              c.accounts[IF m = new THEN n ELSE m]]
  OBVIOUS
<1>4. PICK default : default = IF c.default_account = n THEN new ELSE c.default_account
  OBVIOUS
<1>5. PICK d : d = [c EXCEPT !.accounts = moved, !.default_account = default]
  OBVIOUS
<1>6. /\ DOMAIN d = DOMAIN c /\ d.accounts = moved /\ d.settings = c.settings
      /\ d.keys = c.keys /\ d.default_account = default
  BY <1>2, <1>5 DEF F!Valid
<1>7. /\ DOMAIN moved = (DOMAIN c.accounts \ {n}) \cup {new}
      /\ \A m \in DOMAIN moved : \E k \in DOMAIN c.accounts : moved[m] = c.accounts[k]
  BY <1>2, <1>3
<1>8. default # F!None => default \in DOMAIN moved
  BY <1>2, <1>4, <1>7 DEF F!Valid
<1>9. F!Valid(d)
  BY <1>2, <1>6, <1>7, <1>8 DEF F!Valid
<1>10. F!RenameAccount(c, n, new) = F!Gate(d)
  BY <1>2, <1>3, <1>4, <1>5 DEF F!RenameAccount, F!If
<1> QED
  BY <1>1, <1>2, <1>9, <1>10, GatePasses DEF F!Rename, F!If

(* A list of an account that fits the other one may be written.            *)
LEMMA CanSetArray ==
  ASSUME NEW c, F!Valid(c), NEW n \in DOMAIN c.accounts,
         NEW field \in {"marketplaces", "default_marketplaces"}, NEW list \in SUBSET Markets,
         field = "marketplaces" => c.accounts[n].default_marketplaces \subseteq list,
         field = "default_marketplaces" => list \subseteq c.accounts[n].marketplaces
  PROVE  \E d \in F!SetArray(c, n, field, list) :
            /\ F!Valid(d) /\ n \in DOMAIN d.accounts
            /\ field = "default_marketplaces" =>
                  /\ d.accounts[n].marketplaces = c.accounts[n].marketplaces
                  /\ d.accounts[n].default_marketplaces = list
<1>1. PICK account : account = c.accounts[n]
  OBVIOUS
<1>2. account \in F!Account
  BY <1>1 DEF F!Valid
<1>3. PICK new : new = [account EXCEPT ![field] = list]
  OBVIOUS
<1>4. /\ new \in F!Account /\ new.default_marketplaces \subseteq new.marketplaces
      /\ new.default_settings = account.default_settings
      /\ field = "default_marketplaces" =>
            new.marketplaces = account.marketplaces /\ new.default_marketplaces = list
  <2>1. account.default_marketplaces \subseteq account.marketplaces
    BY <1>1 DEF F!Valid
  <2>2. CASE field = "marketplaces"
    BY <1>1, <1>2, <1>3, <2>1, <2>2 DEF F!Account
  <2>3. CASE field = "default_marketplaces"
    BY <1>1, <1>2, <1>3, <2>1, <2>3 DEF F!Account
  <2> QED
    BY <2>2, <2>3
<1>5. PICK table : table = [c.accounts EXCEPT ![n] = new]
  OBVIOUS
<1>6. /\ DOMAIN table = DOMAIN c.accounts /\ table[n] = new
      /\ \A m \in DOMAIN c.accounts : m # n => table[m] = c.accounts[m]
  BY <1>5
<1>7. PICK d : d = [c EXCEPT !.accounts = table]
  OBVIOUS
<1>8. /\ DOMAIN d = DOMAIN c /\ d.accounts = table /\ d.settings = c.settings
      /\ d.keys = c.keys /\ d.default_account = c.default_account
  BY <1>7 DEF F!Valid
<1>9. account.default_settings \in c.settings \cup {F!None}
  BY <1>1 DEF F!Valid
<1>10. F!Valid(d)
  BY <1>4, <1>6, <1>8, <1>9 DEF F!Valid
<1>11. F!SetArray(c, n, field, list) = F!Gate(d)
  BY <1>1, <1>3, <1>5, <1>7 DEF F!SetArray, F!If
<1> QED
  BY <1>1, <1>4, <1>6, <1>8, <1>10, <1>11, GatePasses

(* A marketplace can be taken from an account, first from its defaults.    *)
LEMMA CanTakeMarketplace ==
  ASSUME F!Valid(toml), NEW n \in DOMAIN toml.accounts,
         NEW cc \in toml.accounts[n].marketplaces
  PROVE  F!MarketplacesRemove(toml, toml, n, cc) # F!Refused
<1>1. PICK c : c = toml
  OBVIOUS
<1>2. F!Valid(c) /\ n \in DOMAIN c.accounts /\ cc \in c.accounts[n].marketplaces
  BY <1>1
<1>3. PICK defaults : defaults = c.accounts[n].default_marketplaces \ {cc}
  OBVIOUS
<1>4. PICK markets : markets = c.accounts[n].marketplaces \ {cc}
  OBVIOUS
<1>5. /\ c.accounts[n].marketplaces \subseteq Markets
      /\ c.accounts[n].default_marketplaces \subseteq c.accounts[n].marketplaces
  BY <1>2 DEF F!Valid, F!Account
<1>6. /\ defaults \in SUBSET Markets /\ markets \in SUBSET Markets
      /\ defaults \subseteq c.accounts[n].marketplaces /\ defaults \subseteq markets
  BY <1>3, <1>4, <1>5
<1>7. PICK d \in F!SetArray(c, n, "default_marketplaces", defaults) :
        /\ F!Valid(d) /\ n \in DOMAIN d.accounts
        /\ d.accounts[n].marketplaces = c.accounts[n].marketplaces
        /\ d.accounts[n].default_marketplaces = defaults
  BY <1>2, <1>6, CanSetArray
<1>8. PICK e : e \in F!SetArray(d, n, "marketplaces", markets)
  BY <1>6, <1>7, CanSetArray
<1>9. e \in F!MarketplacesRemove(c, c, n, cc)
  BY <1>2, <1>3, <1>4, <1>7, <1>8 DEF F!MarketplacesRemove, F!If, F!Then
<1> QED
  BY <1>1, <1>9 DEF F!Refused

(* The account that is made the default is the one commands use.           *)
LEMMA DefaultIsUsed ==
  ASSUME Named, F!Valid(toml), NEW n \in DOMAIN toml.accounts,
         NEW c \in F!SetDefault(toml, toml, n)
  PROVE  F!AccountName(c, F!None) = {n}
<1>1. PICK d : d = [toml EXCEPT !.default_account = n]
  OBVIOUS
<1>2. d.default_account = n /\ d.accounts = toml.accounts
  BY <1>1 DEF F!Valid
<1>3. c = d
  BY <1>1 DEF F!SetDefault, F!SetDefaultAccount, F!If, F!Gate, F!Refused
<1>4. n # F!None
  BY DEF Named, F!Valid
<1> QED
  BY <1>2, <1>3, <1>4 DEF F!AccountName

(* Whatever commands have written, each account can be removed, renamed,   *)
(* made the default and relieved of each marketplace: the gate of          *)
(* config::write never locks anyone in (src/config/write.rs).              *)
THEOREM GateLocksNobodyIn == Named => (F!ConfigSpec => []NothingIsStuck)
<1> SUFFICES ASSUME Named PROVE F!ConfigSpec => []NothingIsStuck
  OBVIOUS
<1>1. F!Init => ConfigInv
  <2> SUFFICES ASSUME F!Init PROVE ConfigInv
    OBVIOUS
  <2>1. F!Valid(F!Seed)
    BY DEF F!Seed, F!Valid, F!Value, F!Unset
  <2> QED
    BY <2>1 DEF F!Init, ConfigInv
<1>2. ConfigInv /\ [F!Next]_(F!fvars) => ConfigInv'
  BY ConfigKeeps
<1>3. ConfigInv => NothingIsStuck
  BY CanRemove, CanRename, CanTakeMarketplace, DefaultIsUsed
     DEF ConfigInv, NothingIsStuck, F!NothingIsStuck
<1> QED
  BY <1>1, <1>2, <1>3, PTL DEF F!ConfigSpec

=============================================================================
