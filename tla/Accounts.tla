------------------------------ MODULE Accounts ------------------------------
(***************************************************************************)
(* The local life of accounts: config.toml's account table, the passwords  *)
(* file, the auth files, and the device registrations they stand for.      *)
(* `account login|import|logout|remove|rename|set-default|password|token|  *)
(* cookies|activation-bytes` run one after the other, each in the file     *)
(* writes of its code and interruptible between any two, while the session *)
(* agent holds copies of auth files in memory and merges refreshed tokens  *)
(* and cookies back into them.                                             *)
(*                                                                         *)
(* A secret is its owner: the access token, cookies and activation bytes   *)
(* in a file are the registration that obtained them.                      *)
(***************************************************************************)
EXTENDS Naturals, FiniteSets

CONSTANTS
    Names,        \* account names; the auth file of a login is <name>.auth
    Passphrases,  \* passphrases a user may type
    MaxReg,       \* bound: device registrations
    MaxCommands,  \* bound: CLI commands run
    Nothing,      \* an absent value
    Plain         \* the protection of an unencrypted auth file

VARIABLES
    config,     \* config.toml: accounts and default_account
    passwords,  \* the passwords file: account name -> passphrase
    authFiles,  \* <name>.auth on disk
    active,     \* registrations Amazon honours
    nextReg,    \* registrations made so far
    cmd,        \* the running CLI command
    commands,   \* CLI commands started
    session,    \* the agent's copy per account
    spoiled     \* history: accounts a rename or a crash left without entry

vars == <<config, passwords, authFiles, active, nextReg, cmd, commands,
          session, spoiled>>

Regs == 1..MaxReg

Secret == Regs \cup {Nothing}

AuthData == [reg: Regs, access: Secret, cookies: Secret, act: Secret,
             pass: Passphrases \cup {Plain}]

\* A loaded Authenticator: its data with the protection found on disk, the
\* path it writes back to and the passphrase it was opened with.
Copy == [data: AuthData, path: Names, known: Passphrases \cup {Nothing}]

Account == [file: Names, source: {"prompt", "file"}]

Scopes == {"access", "cookies"}

Idle == [op |-> "idle"]

(***************************************************************************)
(* Opening an auth file                                                    *)
(***************************************************************************)

\* resolve_password: the entry of the passwords file, or the passphrase the
\* user types when the encrypted file asks for one.
Resolved(conf, n) ==
    LET account == conf.accounts[n]
        disk    == authFiles[account.file]
    IN  IF account.source = "file" THEN passwords[n]
        ELSE IF disk # Nothing /\ disk.pass # Plain THEN disk.pass
        ELSE Nothing

\* authfile::read: a plain envelope opens with or without a passphrase, an
\* encrypted one with its own.
Reads(disk, known) == disk # Nothing /\ disk.pass \in {Plain, known}

\* load_account_auth: a `file` source needs its entry even for a plain file.
Opens(conf, n) ==
    /\ conf.accounts[n] # Nothing
    /\ conf.accounts[n].source = "file" => passwords[n] # Nothing
    /\ Reads(authFiles[conf.accounts[n].file], Resolved(conf, n))

\* Authenticator::load_file remembers path, protection and passphrase.
Loaded(conf, n) ==
    [data  |-> authFiles[conf.accounts[n].file],
     path  |-> conf.accounts[n].file,
     known |-> Resolved(conf, n)]

\* persist_atomically under write_lock: a file is replaced in one step.
Persist(f, data) == authFiles' = [authFiles EXCEPT ![f] = data]

\* Seeded fault: a failing write of the entry goes unnoticed.
UpsertLost(n, pass) == UNCHANGED passwords

\* passwords::upsert, passwords::remove.
Upsert(n, pass) == passwords' = [passwords EXCEPT ![n] = pass]

RemoveEntry(n) == passwords' = [passwords EXCEPT ![n] = Nothing]

\* Seeded fault: every field comes from the copy.
MergeAll(base, mine, scope) == mine

\* merge_scope: the fields of the scope come from the copy.
MergeScope(base, mine, scope) == [base EXCEPT ![scope] = mine[scope]]

\* save_merged, one step under the file's write lock: re-read, merge, write
\* with the copy's protection. A missing file is written whole; one the
\* copy's passphrase does not open is left alone.
SaveMerged(copy, scope) ==
    LET disk == authFiles[copy.path]
    IN  IF disk = Nothing THEN Persist(copy.path, copy.data)
        ELSE IF Reads(disk, copy.known)
          THEN Persist(copy.path,
                       [MergeScope(disk, copy.data, scope)
                           EXCEPT !.pass = copy.data.pass])
        ELSE UNCHANGED authFiles

(***************************************************************************)
(* edit_file: read, edit, validate and replace under the write lock        *)
(***************************************************************************)

\* Config::validate, of what is modelled: default_account names an account.
Valid(conf) ==
    conf.default # Nothing => conf.accounts[conf.default] # Nothing

\* An edit whose result does not validate leaves the file as it was.
EditFile(conf) == config' = IF Valid(conf) THEN conf ELSE config

SetSource(conf, n, source) ==
    IF conf.accounts[n] = Nothing THEN conf
    ELSE [conf EXCEPT !.accounts[n].source = source]

\* rename_account: the table moves, default_account follows it.
Renamed(conf, old, new) ==
    [accounts |-> [conf.accounts EXCEPT ![new] = conf.accounts[old],
                                        ![old] = Nothing],
     default  |-> IF conf.default = old THEN new ELSE conf.default]

\* delete_account_locally: default_account is cleared before the table goes.
Dropped(conf, n, clears) ==
    [accounts |-> [conf.accounts EXCEPT ![n] = Nothing],
     default  |-> IF clears THEN Nothing ELSE conf.default]

\* finalize_account: other keys of an entry that is replaced stay.
Registered(conf, n, makeDefault) ==
    [accounts |-> [conf.accounts EXCEPT ![n] =
        [file   |-> n,
         source |-> IF conf.accounts[n] = Nothing THEN "prompt"
                    ELSE conf.accounts[n].source]],
     default  |-> IF makeDefault THEN n ELSE conf.default]

(***************************************************************************)
(* The initial state: nothing is configured                                *)
(***************************************************************************)

Init ==
    /\ config = [accounts |-> [n \in Names |-> Nothing], default |-> Nothing]
    /\ passwords = [n \in Names |-> Nothing]
    /\ authFiles = [n \in Names |-> Nothing]
    /\ active = {}
    /\ nextReg = 0
    /\ cmd = Idle
    /\ commands = 0
    /\ session = [n \in Names |-> Nothing]
    /\ spoiled = {}

\* A command starts with its first step; it keeps the config it loaded
\* (its Ctx) to its end.
Start(op, n, at, arg, mem) ==
    /\ cmd = Idle
    /\ commands < MaxCommands
    /\ commands' = commands + 1
    /\ cmd' = IF at = "done" THEN Idle
              ELSE [op |-> op, name |-> n, at |-> at, arg |-> arg,
                    conf |-> config, mem |-> mem]

At(op, at) == cmd # Idle /\ cmd.op = op /\ cmd.at = at

Goto(at) == cmd' = IF at = "done" THEN Idle ELSE [cmd EXCEPT !.at = at]
(***************************************************************************)
(* account login, login server, import                                     *)
(***************************************************************************)

\* The sign-in registers a device with Amazon before anything local is
\* looked at.
LoginRegister(n, force) ==
    /\ nextReg < MaxReg
    /\ nextReg' = nextReg + 1
    /\ active' = active \cup {nextReg'}
    /\ Start("login", n, "save", force,
             [reg |-> nextReg', access |-> nextReg', cookies |-> nextReg',
              act |-> Nothing])
    /\ UNCHANGED <<config, passwords, authFiles, session, spoiled>>

\* finalize_account refuses a known name or an existing file without
\* --force, with the registration already made; else it writes the file.
LoginSave(pass) ==
    /\ At("login", "save")
    /\ LET n == cmd.name
           taken == cmd.conf.accounts[n] # Nothing \/ authFiles[n] # Nothing
           m == cmd.mem
       IN  IF taken /\ ~cmd.arg
           THEN /\ Goto("done")
                /\ UNCHANGED authFiles
           ELSE /\ Persist(n, [reg |-> m.reg, access |-> m.access,
                              cookies |-> m.cookies, act |-> m.act,
                              pass |-> pass])
                /\ Goto("config")
    /\ UNCHANGED <<config, passwords, active, nextReg, commands, session,
                   spoiled>>

LoginConfig ==
    /\ At("login", "config")
    /\ EditFile(Registered(config, cmd.name,
                                   cmd.conf.default = Nothing))
    /\ Goto("done")
    /\ UNCHANGED <<passwords, authFiles, active, nextReg, commands, session,
                   spoiled>>

(***************************************************************************)
(* account logout, account remove                                          *)
(***************************************************************************)

\* Seeded fault: the local files go first, Amazon is asked afterwards.
LogoutLocally(n, expired) ==
    /\ Opens(config, n)
    /\ UNCHANGED <<authFiles, active>>
    /\ Start("logout", n, "config", expired, Nothing)
    /\ UNCHANGED <<config, passwords, nextReg, session, spoiled>>

\* deregister: an expired access token is refreshed (and merged into the
\* file) first; Amazon then forgets the device.
LogoutDeregister(n, expired) ==
    /\ Opens(config, n)
    /\ LET copy == Loaded(config, n)
           mine == [copy EXCEPT !.data.access = copy.data.reg]
       IN  /\ copy.data.reg \in active
           /\ IF expired THEN SaveMerged(mine, "access")
              ELSE UNCHANGED authFiles
           /\ active' = active \ {copy.data.reg}
    /\ Start("logout", n, "config", TRUE, Nothing)
    /\ UNCHANGED <<config, passwords, nextReg, session, spoiled>>

\* delete_account_locally: the config entry, the passwords entry, and with
\* the flag the auth file.
RemoveConfig(n, deleteAuth) ==
    /\ config.accounts[n] # Nothing
    /\ EditFile(Dropped(config, n, config.default = n))
    /\ Start("remove", n, "entry", deleteAuth, Nothing)
    /\ UNCHANGED <<passwords, authFiles, active, nextReg, session, spoiled>>

LogoutConfig ==
    /\ At("logout", "config")
    /\ EditFile(Dropped(config, cmd.name, cmd.conf.default = cmd.name))
    /\ Goto("entry")
    /\ UNCHANGED <<passwords, authFiles, active, nextReg, commands, session,
                   spoiled>>

DropEntry ==
    /\ At("remove", "entry") \/ At("logout", "entry")
    /\ RemoveEntry(cmd.name)
    /\ Goto(IF cmd.arg THEN "file" ELSE "done")
    /\ UNCHANGED <<config, authFiles, active, nextReg, commands, session,
                   spoiled>>

DropFile ==
    /\ At("remove", "file") \/ At("logout", "file")
    /\ Persist(cmd.conf.accounts[cmd.name].file, Nothing)
    /\ Goto("done")
    /\ UNCHANGED <<config, passwords, active, nextReg, commands, session,
                   spoiled>>

(***************************************************************************)
(* account rename, account set-default                                     *)
(***************************************************************************)

\* Only config.toml changes: the auth file keeps its name, and so does the
\* entry of the passwords file.
Rename(old, new) ==
    /\ old # new
    /\ config.accounts[old] # Nothing
    /\ config.accounts[new] = Nothing
    /\ EditFile(Renamed(config, old, new))
    /\ spoiled' = IF config.accounts[old].source = "file"
                  THEN spoiled \cup {new} ELSE spoiled
    /\ Start("rename", old, "done", new, Nothing)
    /\ UNCHANGED <<passwords, authFiles, active, nextReg, session>>

SetDefault(n) ==
    /\ config.accounts[n] # Nothing
    /\ EditFile([config EXCEPT !.default = n])
    /\ Start("default", n, "done", Nothing, Nothing)
    /\ UNCHANGED <<passwords, authFiles, active, nextReg, session, spoiled>>

(***************************************************************************)
(* account password set | remove | source                                  *)
(***************************************************************************)

\* save_to writes the whole file just loaded with a new protection.
SaveTo(f, pass) == Persist(f, [authFiles[f] EXCEPT !.pass = pass])

\* password set: the file is written first; a `file` source
\* then has its entry rewritten.
PasswordSet(n, pass) ==
    /\ Opens(config, n)
    /\ SaveTo(config.accounts[n].file, pass)
    /\ Start("passwordSet", n,
             IF config.accounts[n].source = "file" THEN "entry" ELSE "done",
             pass, Nothing)
    /\ UNCHANGED <<config, passwords, active, nextReg, session, spoiled>>

PasswordSetEntry ==
    /\ At("passwordSet", "entry")
    /\ Upsert(cmd.name, cmd.arg)
    /\ Goto("done")
    /\ UNCHANGED <<config, authFiles, active, nextReg, commands, session,
                   spoiled>>

PasswordRemove(n) ==
    /\ Opens(config, n)
    /\ authFiles[config.accounts[n].file].pass # Plain
    /\ SaveTo(config.accounts[n].file, Plain)
    /\ Start("passwordRemove", n,
             IF config.accounts[n].source = "file" THEN "entry" ELSE "done",
             Nothing, Nothing)
    /\ UNCHANGED <<config, passwords, active, nextReg, session, spoiled>>

PasswordRemoveEntry ==
    /\ At("passwordRemove", "entry")
    /\ RemoveEntry(cmd.name)
    /\ Goto("config")
    /\ UNCHANGED <<config, authFiles, active, nextReg, commands, session,
                   spoiled>>

PasswordRemoveConfig ==
    /\ At("passwordRemove", "config")
    /\ EditFile(SetSource(config, cmd.name, "prompt"))
    /\ Goto("done")
    /\ UNCHANGED <<passwords, authFiles, active, nextReg, commands, session,
                   spoiled>>

\* `file`: the passphrase that opens the (encrypted) file is stored before
\* the source points at it.
SourceFile(n) ==
    /\ Opens(config, n)
    /\ authFiles[config.accounts[n].file].pass # Plain
    /\ Upsert(n, authFiles[config.accounts[n].file].pass)
    /\ Start("sourceFile", n, "config", Nothing, Nothing)
    /\ UNCHANGED <<config, authFiles, active, nextReg, session, spoiled>>

SourceFileConfig ==
    /\ At("sourceFile", "config")
    /\ EditFile(SetSource(config, cmd.name, "file"))
    /\ spoiled' = spoiled \ {cmd.name}
    /\ Goto("done")
    /\ UNCHANGED <<passwords, authFiles, active, nextReg, commands, session>>

\* `prompt`, `env`: the source moves away before the entry goes.
SourcePrompt(n) ==
    /\ config.accounts[n] # Nothing
    /\ EditFile(SetSource(config, n, "prompt"))
    /\ Start("sourcePrompt", n,
             IF config.accounts[n].source = "file" THEN "entry" ELSE "done",
             Nothing, Nothing)
    /\ UNCHANGED <<passwords, authFiles, active, nextReg, session, spoiled>>

SourcePromptEntry ==
    /\ At("sourcePrompt", "entry")
    /\ RemoveEntry(cmd.name)
    /\ Goto("done")
    /\ UNCHANGED <<config, authFiles, active, nextReg, commands, session,
                   spoiled>>

(***************************************************************************)
(* account token | cookies | activation-bytes                              *)
(***************************************************************************)

\* Foreground edits load the file, change one field and save all of it;
\* `--fetch` talks to Audible in between.
Edit(n, field) ==
    /\ Opens(config, n)
    /\ field = "act" => authFiles[config.accounts[n].file].reg \in active
    /\ Start("edit", n, "save", field, Loaded(config, n))
    /\ UNCHANGED <<config, passwords, authFiles, active, nextReg, session,
                   spoiled>>

\* save: whole file, preserving the protection it was loaded with.
EditSave ==
    /\ At("edit", "save")
    /\ LET mem == cmd.mem
           to == IF cmd.arg = "act" THEN mem.data.reg ELSE Nothing
       IN  Persist(mem.path, [mem.data EXCEPT ![cmd.arg] = to])
    /\ Goto("done")
    /\ UNCHANGED <<config, passwords, active, nextReg, commands, session,
                   spoiled>>

\* token refresh, cookies refresh: the CLI's own client merges as well.
Refresh(n, scope) ==
    /\ Opens(config, n)
    /\ authFiles[config.accounts[n].file].reg \in active
    /\ LET copy == Loaded(config, n)
       IN  Start("refresh", n, "merge", scope,
                 [copy EXCEPT !.data[scope] = copy.data.reg])
    /\ UNCHANGED <<config, passwords, authFiles, active, nextReg, session,
                   spoiled>>

RefreshMerge ==
    /\ At("refresh", "merge")
    /\ SaveMerged(cmd.mem, cmd.arg)
    /\ Goto("done")
    /\ UNCHANGED <<config, passwords, active, nextReg, commands, session,
                   spoiled>>

\* Ctrl-C, a crash or a failing write ends a command between two steps.
\* Removing a password drops the entry before the source stops asking for it.
Interrupt ==
    /\ cmd # Idle
    /\ spoiled' = IF At("passwordRemove", "config")
                  THEN spoiled \cup {cmd.name} ELSE spoiled
    /\ cmd' = Idle
    /\ UNCHANGED <<config, passwords, authFiles, active, nextReg, commands,
                   session>>

(***************************************************************************)
(* The session agent                                                       *)
(***************************************************************************)

\* A session opens the account's file, by its source or by `unlock`.
SessionOpen(n) ==
    /\ session[n] = Nothing
    /\ Opens(config, n)
    /\ session' = [session EXCEPT ![n] =
                     [copy |-> Loaded(config, n), pending |-> Nothing]]
    /\ UNCHANGED <<config, passwords, authFiles, active, nextReg, cmd,
                   commands, spoiled>>

\* perform_token_refresh, perform_cookie_exchange: Amazon answers and the
\* copy in memory is updated, under the session's auth mutex.
SessionExchange(n, scope) ==
    /\ session[n] # Nothing
    /\ session[n].pending = Nothing
    /\ session[n].copy.data.reg \in active
    /\ session' = [session EXCEPT
         ![n].copy.data[scope] = session[n].copy.data.reg,
         ![n].pending = scope]
    /\ UNCHANGED <<config, passwords, authFiles, active, nextReg, cmd,
                   commands, spoiled>>

\* The write-back that follows.
SessionMerge(n) ==
    /\ session[n] # Nothing
    /\ session[n].pending # Nothing
    /\ SaveMerged(session[n].copy, session[n].pending)
    /\ session' = [session EXCEPT ![n].pending = Nothing]
    /\ UNCHANGED <<config, passwords, active, nextReg, cmd, commands, spoiled>>

\* lock, idle eviction; a request in flight finishes its write-back first.
SessionDrop(n) ==
    /\ session[n] # Nothing
    /\ session[n].pending = Nothing
    /\ session' = [session EXCEPT ![n] = Nothing]
    /\ UNCHANGED <<config, passwords, authFiles, active, nextReg, cmd,
                   commands, spoiled>>

Agent ==
    \E n \in Names :
        \/ SessionOpen(n)
        \/ \E scope \in Scopes : SessionExchange(n, scope)
        \/ SessionMerge(n)
        \/ SessionDrop(n)

Command ==
    \/ \E n \in Names :
        \/ \E force \in BOOLEAN : LoginRegister(n, force)
        \/ \E expired \in BOOLEAN : LogoutDeregister(n, expired)
        \/ \E deleteAuth \in BOOLEAN : RemoveConfig(n, deleteAuth)
        \/ \E new \in Names : Rename(n, new)
        \/ SetDefault(n)
        \/ \E pass \in Passphrases : PasswordSet(n, pass)
        \/ PasswordRemove(n)
        \/ SourceFile(n)
        \/ SourcePrompt(n)
        \/ \E field \in {"access", "cookies", "act"} : Edit(n, field)
        \/ \E scope \in Scopes : Refresh(n, scope)
    \/ \E pass \in Passphrases \cup {Plain} : LoginSave(pass)
    \/ LoginConfig \/ LogoutConfig \/ DropEntry \/ DropFile
    \/ PasswordSetEntry \/ PasswordRemoveEntry \/ PasswordRemoveConfig
    \/ SourceFileConfig \/ SourcePromptEntry
    \/ EditSave \/ RefreshMerge \/ Interrupt

Next == Command \/ Agent

Spec == Init /\ [][Next]_vars

(***************************************************************************)
(* Properties                                                              *)
(***************************************************************************)

\* Types of the state.
TypeOK ==
    /\ config \in [accounts : [Names -> Account \cup {Nothing}],
                   default : Names \cup {Nothing}]
    /\ passwords \in [Names -> Passphrases \cup {Nothing}]
    /\ authFiles \in [Names -> AuthData \cup {Nothing}]
    /\ active \subseteq Regs
    /\ session \in [Names ->
         [copy : Copy, pending : Scopes \cup {Nothing}] \cup {Nothing}]

\* A background write-back (the agent's, at any distance from the load of
\* its copy) changes in an existing file nothing but the field it refreshed:
\* a cookie the user removed, activation bytes a command stored, stay as they
\* are (save_merged re-reads under the lock).
MergeKeepsEdits ==
    [][\A n, f \in Names :
         /\ session[n] # Nothing
         /\ session[n].pending # Nothing
         /\ session'[n] # session[n]
         /\ authFiles[f] # Nothing
         => \A field \in {"reg", "access", "cookies", "act"} :
              field # session[n].pending =>
                authFiles'[f][field] = authFiles[f][field]]_vars

\* A file with auth material goes away only when its user said so, or after
\* Amazon has forgotten the device: logout deregisters first and deletes
\* last, so that a failure in between leaves the material for a retry.
LogoutDeletesSpent ==
    [][\A f \in Names :
         authFiles[f] # Nothing /\ authFiles'[f] = Nothing =>
           \/ authFiles[f].reg \notin active
           \/ At("remove", "file")]_vars

\* An account whose passphrase comes from the passwords file has an entry
\* there, so that it opens unattended, unless a rename or an interrupted
\* `password remove` has spoiled it.
FileSourceHasEntry ==
    \A n \in Names \ spoiled :
        /\ config.accounts[n] # Nothing
        /\ config.accounts[n].source = "file"
        /\ ~At("passwordRemove", "config")
        => passwords[n] # Nothing

=============================================================================
