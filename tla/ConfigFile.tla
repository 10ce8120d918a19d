------------------------------- MODULE ConfigFile -------------------------------
(***************************************************************************)
(* config.toml (src/config/, src/commands/config.rs, settings.rs, setup.rs,*)
(* hosts.rs, account/manage.rs).  A command loads the config when it       *)
(* starts, and may ask questions or open an editor; it writes under the    *)
(* file's lock, by editing the text it reads there, and only what loads    *)
(* again.  TOML text is what it says: tables, keys and typed values.       *)
(***************************************************************************)
EXTENDS Integers, SequencesExt

CONSTANTS Names,         \* account names
          Markets,       \* country codes
          Bundles,       \* settings bundles besides "default"
          Hosts,         \* external hosts
          Users,         \* commands that may be under way at once
          MaxWrites      \* bound on commands

VARIABLES config,        \* what config.toml says
          cmd,           \* of each user: the command under way, and the config it loaded
          writes         \* the commands so far

fvars == <<config, cmd, writes>>

None == "none"
Types == [download_dir |-> "string", filename_max_length |-> "integer", decrypt |-> "bool",
          decrypt_keep_source |-> "bool", cover_size |-> "array"]
Keys == DOMAIN Types
Raw == {"true", "false", "230", "books"}
Unset == [type |-> "unset"]
Account == [marketplaces : SUBSET Markets, default_marketplaces : SUBSET Markets,
            default_settings : Bundles \cup {None}]
Value == {Unset} \cup [type : {"string", "integer", "bool", "array"}, raw : Raw]
Idle == [op |-> "idle"]

-----------------------------------------------------------------------------
(* Validation: the result of an edit is the set of the one config it gives,*)
(* or empty when it is refused.                                            *)

Refused == {}

(* It parses, references exist, and every value is of its field's type.    *)
Valid(c) ==
    /\ DOMAIN c = {"default_account", "accounts", "settings", "allowed_hosts", "keys"}
    /\ DOMAIN c.accounts \subseteq Names /\ c.settings \subseteq Bundles
    /\ \A n \in DOMAIN c.accounts : c.accounts[n] \in Account
    /\ c.keys \in [Keys -> Value]
    /\ c.default_account # None => c.default_account \in DOMAIN c.accounts
    /\ \A n \in DOMAIN c.accounts :
          /\ c.accounts[n].default_marketplaces \subseteq c.accounts[n].marketplaces
          /\ c.accounts[n].default_settings \in c.settings \cup {None}
    /\ \A k \in Keys : c.keys[k].type \in {"unset", Types[k]}

Gate(c) == IF Valid(c) THEN {c} ELSE Refused

(* A step of a longer edit: each is validated.                             *)
Then(edits, Next(_)) == UNION {Next(c) : c \in edits}

If(condition, edits) == IF condition THEN edits ELSE Refused

-----------------------------------------------------------------------------
(* set_many: which TOML type each text becomes.                            *)

InferValue(raw) ==
    CASE raw \in {"true", "false"} -> "bool" [] raw = "230" -> "integer" [] OTHER -> "string"

SetPath(c, e, type) == [c EXCEPT !.keys[e.key] = [type |-> type, raw |-> e.raw]]

(* All as strings; then all as inferred, or else each for itself where     *)
(* that makes the whole valid; at last lists.                              *)
SetMany(c, entries) ==
    LET strings == FoldLeft(LAMBDA d, e : SetPath(d, e, "string"), c, entries)
        inferred == FoldLeft(LAMBDA d, e : SetPath(d, e, InferValue(e.raw)), c, entries)
        Upgrade(d, e, type) == IF Valid(SetPath(d, e, type)) THEN SetPath(d, e, type) ELSE d
        each == FoldLeft(LAMBDA d, e : Upgrade(d, e, InferValue(e.raw)), strings, entries)
        scalars == IF Valid(inferred) THEN inferred ELSE each
        arrays == FoldLeft(LAMBDA d, e : Upgrade(d, e, "array"), scalars, entries)
    IN Gate(IF Valid(scalars) THEN scalars ELSE arrays)

Set(c, key, raw) == SetMany(c, <<[key |-> key, raw |-> raw]>>)

UnsetKey(c, key) ==
    If(c.keys[key] # Unset, Gate([c EXCEPT !.keys[key] = Unset]))

-----------------------------------------------------------------------------
(* The other edits of config::write.                                       *)

(* A table without auth_file does not parse.                               *)
SetArray(c, n, field, list) ==
    If(n \in DOMAIN c.accounts, Gate([c EXCEPT !.accounts[n][field] = list]))

SetDefaultAccount(c, n) == Gate([c EXCEPT !.default_account = n])

UnsetDefaultAccount(c) ==
    If(c.default_account # None, Gate([c EXCEPT !.default_account = None]))

UnsetAccount(c, n) ==
    If(n \in DOMAIN c.accounts,
       Gate([c EXCEPT !.accounts = [m \in DOMAIN @ \ {n} |-> @[m]]]))

(* The table moves, and the default with it.                               *)
RenameAccount(c, old, new) ==
    If(old \in DOMAIN c.accounts /\ new \notin DOMAIN c.accounts,
       Gate([c EXCEPT
          !.accounts = [m \in (DOMAIN @ \ {old}) \cup {new} |-> @[IF m = new THEN old ELSE m]],
          !.default_account = IF @ = old THEN new ELSE @]))

AddAllowedHost(c, h) ==
    If(h \notin c.allowed_hosts, Gate([c EXCEPT !.allowed_hosts = @ \cup {h}]))

RemoveAllowedHost(c, h) ==
    If(h \in c.allowed_hosts, Gate([c EXCEPT !.allowed_hosts = @ \ {h}]))

-----------------------------------------------------------------------------
(* The commands: what each writes into c, having loaded ctx.               *)

(* Registers an account (the config's part of finalize_account).           *)
Register(ctx, c, n, markets) ==
    LET registered == [c EXCEPT !.accounts =
            [m \in DOMAIN @ \cup {n} |->
                IF m # n THEN @[m]
                ELSE [marketplaces |-> markets, default_marketplaces |-> markets,
                      default_settings |-> IF n \in DOMAIN @ THEN @[n].default_settings ELSE None]]]
        d == Gate(registered)
    IN If(n \notin DOMAIN ctx.accounts,
          IF ctx.default_account = None THEN Then(d, LAMBDA x : SetDefaultAccount(x, n)) ELSE d)

SetDefault(ctx, c, n) == If(n \in DOMAIN ctx.accounts, SetDefaultAccount(c, n))

Rename(ctx, c, old, new) ==
    If(old \in DOMAIN ctx.accounts /\ new \notin DOMAIN ctx.accounts, RenameAccount(c, old, new))

(* Seeded fault: the table goes before what points to it.                  *)
RemoveTableFirst(ctx, c, n) ==
    If(n \in DOMAIN ctx.accounts,
       IF ctx.default_account = n THEN Then(UnsetAccount(c, n), UnsetDefaultAccount)
       ELSE UnsetAccount(c, n))

(* remove, and logout: the default first.                                  *)
RemoveAccount(ctx, c, n) ==
    If(n \in DOMAIN ctx.accounts,
       IF ctx.default_account = n
       THEN Then(UnsetDefaultAccount(c), LAMBDA d : UnsetAccount(d, n)) ELSE UnsetAccount(c, n))

(* The lists are those of the loaded config, and one more.                 *)
MarketplacesAdd(ctx, c, n, cc, setDefault) ==
    LET account == ctx.accounts[n]
        defaults == account.default_marketplaces \cup {cc}
        Default(d) == IF setDefault THEN SetArray(d, n, "default_marketplaces", defaults) ELSE {d}
    IN If(n \in DOMAIN ctx.accounts,
          IF cc \in account.marketplaces
          THEN If(setDefault /\ cc \notin account.default_marketplaces, Default(c))
          ELSE Then(SetArray(c, n, "marketplaces", account.marketplaces \cup {cc}), Default))

MarketplacesRemove(ctx, c, n, cc) ==
    LET account == ctx.accounts[n]
    IN If(n \in DOMAIN ctx.accounts /\ cc \in account.marketplaces,
          Then(SetArray(c, n, "default_marketplaces", account.default_marketplaces \ {cc}),
               LAMBDA d : SetArray(d, n, "marketplaces", account.marketplaces \ {cc})))

MarketplacesSetDefault(ctx, c, n, list) ==
    If(n \in DOMAIN ctx.accounts, SetArray(c, n, "default_marketplaces", list))

SettingsAdd(ctx, c, b) ==
    If(b \notin ctx.settings, Gate([c EXCEPT !.settings = @ \cup {b}]))

SettingsRemove(ctx, c, b) ==
    If(b \in ctx.settings \cap c.settings, Gate([c EXCEPT !.settings = @ \ {b}]))

SettingsSetDefault(ctx, c, n, b) ==
    If(n \in DOMAIN ctx.accounts /\ b \in ctx.settings, SetArray(c, n, "default_settings", b))

(* The wizard: what it asked is set, what it had no reason to ask goes.    *)
Setup(ctx, c, decrypt, keep) ==
    LET fields == <<[key |-> "download_dir", raw |-> "books"],
                    [key |-> "filename_max_length", raw |-> "230"],
                    [key |-> "decrypt", raw |-> decrypt]>>
        asked == IF decrypt = "true" THEN <<[key |-> "decrypt_keep_source", raw |-> keep]>>
                 ELSE <<>>
        Drop(d) == IF decrypt = "true" \/ d.keys["decrypt_keep_source"] = Unset THEN {d}
                   ELSE UnsetKey(d, "decrypt_keep_source")
        sizes(d) == Gate(SetPath(d, [key |-> "cover_size", raw |-> "230"], "array"))
    IN Then(Then(SetMany(c, fields \o asked), sizes), Drop)

(* The editor works on a copy of the file, which then becomes the file.    *)
Edit(copy, c, key, raw) ==
    Then(Set(copy, key, raw), LAMBDA edited : Gate(edited))

-----------------------------------------------------------------------------

Commands ==
    [op : {"register"}, n : Names, markets : (SUBSET Markets) \ {{}}]
    \cup [op : {"set default", "remove"}, n : Names]
    \cup {r \in [op : {"rename"}, n : Names, to : Names] : r.n # r.to}
    \cup [op : {"marketplaces add"}, n : Names, cc : Markets, default : BOOLEAN]
    \cup [op : {"marketplaces remove"}, n : Names, cc : Markets]
    \cup [op : {"marketplaces default"}, n : Names, list : (SUBSET Markets) \ {{}}]
    \cup [op : {"settings add", "settings remove"}, b : Bundles]
    \cup [op : {"settings default"}, n : Names, b : Bundles]
    \cup [op : {"set", "edit"}, key : {"download_dir", "decrypt", "cover_size"}, raw : {"true", "230"}]
    \cup [op : {"unset"}, key : {"decrypt", "decrypt_keep_source"}]
    \cup [op : {"unset default"}]
    \cup [op : {"setup"}, decrypt : {"true", "false"}, keep : {"true"}]
    \cup [op : {"allow host", "remove host"}, h : Hosts]

(* What command m, having loaded ctx, writes when the file says c.         *)
Written(m, ctx, c) ==
    CASE m.op = "register" -> Register(ctx, c, m.n, m.markets)
      [] m.op = "set default" -> SetDefault(ctx, c, m.n)
      [] m.op = "remove" -> RemoveAccount(ctx, c, m.n)
      [] m.op = "rename" -> Rename(ctx, c, m.n, m.to)
      [] m.op = "marketplaces add" -> MarketplacesAdd(ctx, c, m.n, m.cc, m.default)
      [] m.op = "marketplaces remove" -> MarketplacesRemove(ctx, c, m.n, m.cc)
      [] m.op = "marketplaces default" -> MarketplacesSetDefault(ctx, c, m.n, m.list)
      [] m.op = "settings add" -> SettingsAdd(ctx, c, m.b)
      [] m.op = "settings remove" -> SettingsRemove(ctx, c, m.b)
      [] m.op = "settings default" -> SettingsSetDefault(ctx, c, m.n, m.b)
      [] m.op = "set" -> Set(c, m.key, m.raw)
      [] m.op = "edit" -> Edit(ctx, c, m.key, m.raw)
      [] m.op = "unset" -> UnsetKey(c, m.key)
      [] m.op = "unset default" -> UnsetDefaultAccount(c)
      [] m.op = "setup" -> Setup(ctx, c, m.decrypt, m.keep)
      [] m.op = "allow host" -> AddAllowedHost(c, m.h)
      [] m.op = "remove host" -> RemoveAllowedHost(c, m.h)

(* A missing file reads as its seed: a version and nothing else.           *)
Seed == [default_account |-> None, accounts |-> <<>>, settings |-> {}, allowed_hosts |-> {},
         keys |-> [k \in Keys |-> Unset]]

Init == config = Seed /\ cmd = [u \in Users |-> Idle] /\ writes = 0

(* Ctx::with_dir; a command its own checks refuse changes nothing.         *)
Load(u, m) ==
    /\ cmd[u] = Idle /\ writes < MaxWrites /\ Written(m, config, config) # Refused
    /\ cmd' = [cmd EXCEPT ![u] = [op |-> "load", does |-> m, ctx |-> config]]
    /\ writes' = writes + 1 /\ UNCHANGED config

(* edit_file: read, edit and replace under one lock.                       *)
EditFile(u) ==
    /\ cmd[u] # Idle
    /\ LET written == Written(cmd[u].does, cmd[u].ctx, config)
       IN config' = IF written = Refused THEN config ELSE CHOOSE c \in written : TRUE
    /\ cmd' = [cmd EXCEPT ![u] = Idle] /\ UNCHANGED writes

Next == \E u \in Users : EditFile(u) \/ \E m \in Commands : Load(u, m)

ConfigSpec == Init /\ [][Next]_fvars

-----------------------------------------------------------------------------
(* account_name: selected, default, or the only one.                       *)
AccountName(c, selected) ==
    IF selected # None THEN DOMAIN c.accounts \cap {selected}
    ELSE IF c.default_account # None THEN DOMAIN c.accounts \cap {c.default_account}
    ELSE IF Cardinality(DOMAIN c.accounts) = 1 THEN DOMAIN c.accounts ELSE {}

(* The config keeps its type, and loads.                                   *)
ConfigTypeOK ==
    /\ Valid(config)
    /\ writes \in 0 .. MaxWrites

(* The gate never locks anyone in: whatever the sequence of writes, a      *)
(* command that starts now can remove or rename each account, take each    *)
(* marketplace from it, and make it the one commands use.                  *)
NothingIsStuck ==
    \A n \in DOMAIN config.accounts :
        /\ RemoveAccount(config, config, n) # Refused
        /\ \A new \in Names \ DOMAIN config.accounts : Rename(config, config, n, new) # Refused
        /\ \A cc \in config.accounts[n].marketplaces :
              MarketplacesRemove(config, config, n, cc) # Refused
        /\ \A c \in SetDefault(config, config, n) : AccountName(c, None) = {n}

================================================================================
