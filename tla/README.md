# Verification of audible-rs

TLA+ models of audible-rs (the `audible` command line and its session agent), the TLC runs that check them on small instances, and TLAPS proofs of the most important results for every instance. Paths are relative to the repository's `src/` directory unless they name a module.

## The system

One binary, several processes at a time. A command reads `config.toml` and the account's auth file, opens the account's SQLite database, talks to Audible's API and writes files. Commands run beside each other and beside the agent; what they share is on disk: the databases (SQLite transactions, a lock file beside each database), the download directory (no lock), the auth files and `config.toml` (a lock file beside each), and the agent's files.

| Component | State | Operations | Hard behaviour | What makes it correct |
|---|---|---|---|---|
| Library database (`db/`) | `items`, `episodes`, `sync_state`, `sync_log`, `change_log`, `downloads`, `licenses`, `annotations` | apply a page, soft delete, remove, record, query | statements of several processes interleave; WAL with synchronous=NORMAL loses its last commits with the power | rows, token, change log and queries agree with each other after any interleaving and crash |
| Library sync (`library_sync.rs`) | the run's request token, page, response token | list, apply pages, store token, resolve podcasts | failure between any two steps; the server's feed moves | the token never promises more than the rows hold; runs converge |
| Podcast episodes | parents noted by the run, announced counts | capped listing, relationships, apply | feed, membership and hard removal change under a resolution | a resolution loses no episode of the feed and leaves none behind its parent |
| Automatic sync of reads | staleness per marketplace | judge, skip, sync, serve offline | an explicit sync that fails halfway | what is served is as fresh as `sync_max_age` says |
| Transfer engine (`downloader.rs`) | `<dest>.part`, its version marker, `<dest>` | gate, request, append, count, rename | interruption, re-release, 200/206/416, early close, a second process | a finished file is one release, whole; repetition finishes |
| Download pipeline (`commands/download/`) | records, sidecars, claimed stems | license, audio, PDF, covers, chapters, decrypt | a file and its record are two steps; two titles of one name; what an earlier run recorded | a record names a file that is there and belongs to it; nothing is fetched twice |
| Download upkeep (`reorganize`, `orphans`, `db downloads`) | records against the tree | move, remove, prune, scan | moves that collide; a scan beside a download | nothing is overwritten, nothing recorded is deleted as an orphan |
| Session agent (`session/agent.rs`, `rpc.rs`) | run lock, PID, socket and token files; sessions, jobs | start, stop, status, unlock, lock, evict, route | crash leaves files behind; probes; requests overlap at every await | one agent, reachable; unlocked only what was unlocked |
| App tokens (`session/tokens.rs`) | the token file, a cache by its mtime | create, revoke, look up | no lock; a write between the look at the mtime and the read | a lookup sees the last write |
| Auth files (`auth/`, `commands/account/`) | auth file, passwords entry, account table; copies in each process | login, logout, remove, rename, password, token, cookies; merge | three files per command, killed between any two; an agent's copy is hours old | a merge undoes no edit; an account can be opened; a live registration is not thrown away |
| API client (`api/client.rs`) | the account's tokens and cookies behind a mutex | refresh, exchange, retry, deregister | requests queue on the mutex while one refreshes | one exchange per lapse |
| Config (`config/`) | `config.toml` | locked read-modify-write behind a validation gate | a command acts on what it read at its start | no sequence of accepted edits locks the user out |
| `audible api` (`commands/api/`) | request files | compose, save, replay | flags, prompts, files and variables merge | a saved request replays as it was sent |
| Login (`auth/login/`) | the proxy's session, its tabs, the code; the device-code poll | submit, browse, capture; poll, back off | each request is a task; deadlines, Retry-After | a code meets a session; Amazon is not polled too fast |
| Membership (`library add`/`remove`, collections) | what the account has at Audible, the rows that show it | add, remove, archive, wishlist, `--sync` | the feed lags behind the change | what `--sync` reports as done stays |
| Annotations (`commands/annotations.rs`) | a row and an `.annot` file per title | sync, show, save, reorganize | many fetches at once; a write that fails | success means saved |
| FairPlay (`fairplay/`, `commands/fairplay/`) | the package store and its index; a transfer's keys | download, play, remove; the driver's loop | callbacks in any order; copies that break off | a package in the store is whole; a transfer ends |
| Plugins (`plugins/`) | the plugin directory | add, discover, run, remove | describing a plugin runs it | no code before consent; one file per name |
| Database maintenance (`commands/db.rs`) | the database file and its `-wal`/`-shm` | reset, backup, restore | crash or an opener between the steps | a database never meets a foreign log |
| Self-update (`commands/selfcmd.rs`) | none; GitHub's releases | check, changelog | one page of releases, pre-releases, builds from source | "up to date" is true |
| CLI, output, statistics | none | parsing, formatting | | not modelled |

The hazards of this code, each at its line with the property that would catch it, are in `PROJECT.json`.

## Modules

One module per component; a state variable is named for the table, file or local it stands for, an action for the function or the step of it.

| Module | Models |
|---|---|
| `LibraryDb` | the row operations the syncs are built from (`db/items.rs`): `ApplyPage`, `SoftDeleteItem`, `RemoveItem` |
| `LibrarySync` | `sync_library` up to the token, the lock, `library remove`, `db library remove`, durability. `srv` is the server's feed (external), `db` and `durable` the committed database and what a power loss leaves; one action per step of a run |
| `EpisodeSync` | the second half of `sync_library` and `apply_episodes`: `job` is the resolution of each show |
| `AutoSync` | `maybe_auto_sync` and `library sync` over several marketplaces: `logged` is the newest `sync_log` row of each, `whole` (history) the last sync that applied everything |
| `ChangeLog` | `apply_page_recording`, `apply_episodes`, `prune` and the judgement of a change: `latest` is the newest entry of a title, `quiet` (history) the titles that changed unlogged since |
| `LibraryViews` | the queries that commands act on (`missing_download_asins`, the listings, title search) and how `download` resolves shows, episodes and titles |
| `Transfer` | `stream_to_file` for one artifact, with the licenses that choose its release: `part`, `marker`, `files` are the three names on disk |
| `ItemDownload` | one title's runs of `download`: grant, license, skip, aaxc or Widevine audio, sidecars, other artifacts, decryption, records |
| `Downloads` | batches of `download`, `reorganize`, `db downloads remove` and `prune`, for titles that may share a name: `disk` holds whose bytes each file has, `claims` the batch's `ClaimedStems` |
| `Orphans` | the scan for orphans over the databases of several accounts, beside downloads |
| `AgentProcess` | `serve`, `start`, `stop`, `status`: `proc` is what runs under each PID |
| `AgentSessions` | the agent's routes and the sessions behind them: requests hold what they read before an await in `req` |
| `AppTokens` | the token file, its editors (read, then write) and the lookup's cache |
| `Accounts` | `account login`, `import`, `logout`, `remove`, `rename`, `password`, `token`, `cookies`, `activation-bytes`, one action per file written, and the agent's write-backs |
| `ApiClient` | tasks of one client: freshness, the mutex, refresh, exchange, retries, pagination |
| `ConfigFile` | the writes of `config.toml` and the gate: operators over the file's contents, applied by commands that read earlier |
| `RequestFiles` | composition of a request from flags, prompts and file; saving, loading, replay |
| `LoginServer` | the login proxy: tabs, the stored session, the code's channel, `run()` |
| `SignIn` | the device-code poll, the pasted URL and the scripted sign-in, with a clock |
| `Membership` | `library add`, `library remove`, the archive and the wishlist, `poll_until_reflected` |
| `Annotations` | `annotations sync` and `show --refresh`, `--save`, and `reorganize` of `.annot` files |
| `FairPlay` | the package store, its index and its keys under downloads, playback, removal and crashes |
| `KeySession` | the driver's loop of a FairPlay transfer or playback, with AVFoundation external |
| `Plugins` | `plugin add` (local and remote), discovery, running, the broker's scopes, removal |
| `Releases` | `self check` and `self changelog` against what is published |
| `DbReplace`, `DbRestore` | what backup, restore and reset promise, and how they do it, step by step on a directory that may lose power |
| `LibrarySyncProofs`, `EpisodeSyncProofs`, `TransferProofs`, `DownloadsProofs`, `AgentProofs`, `AccountsProofs`, `DbRestoreProofs`, `CommandsProofs` | theorems, see below |
| `MC...` | suites, see below |

Abstractions they share: an ASIN, a release, a marketplace and a PID are model values; a document is the server time at which it was written, or a small record of what the code reads from it; a file is a sequence of blocks that name their release, or whose bytes it has. HTTP retries end in success or in failure, which are both actions. Operators called a *seeded fault* in a comment are mutated forms of the definition after them; nothing uses them except `PROJECT.json`, which lists for each property a fault it catches.

## Runs

The components do not share state with each other except where a module composes them (records and files in `Downloads`, accounts and the agent in `Accounts`), so that runs check several of them at a time: an MC module is a *suite*. Its variable `side` chooses one component at the start; that one moves, the others stay in an initial state. A property of one side is then checked on exactly the behaviours its module has by itself.

| Run | Sides | Properties |
|---|---|---|
| `library_sync` | `LibrarySync`, `EpisodeSync`: 2 competing runs, 2 items, 2 shows | `TypeOK`, `TokenCovers`, `TokenNeverRegresses`: the stored token is never ahead of the rows and never goes back. `RevokedShowHasNoEpisodes`, `UndisturbedResolutionKeepsFeed` |
| `library` | `LibrarySync` (one run at a time), `AutoSync`, `ChangeLog`, `LibraryViews` | `SyncConverges`: whatever aborts, the database ends as the server's view. `ServedIsFresh`. `LogAgreesWithRows`: the newest entry of a title agrees with its row. `SelectionIsDownloadable`, `ListingAgreesWithSweep` |
| `transfer` | `Transfer`, `KeySession`, `Orphans` | `PublishedIsWhole`, `TransferCompletes`, `FinishedEnds`, `LongRecordedIsKept` |
| `downloads` | `Downloads` | `StemsApart`, `RecordsAreTrue`, `SourceKeptUntilDecrypted`, `TrackedIsKept`, `ReorganizeLosesNothing` |
| `agent` | `AgentProcess`, `AgentSessions`, `AppTokens` | `ServingIsReachable`, `AgentComesUp`, `UnlockSticks`, `LockHolds`, `LookupSeesLastWrite` |
| `accounts` | `Accounts`, `ConfigFile`, `ApiClient`, `RequestFiles`, `LoginServer`, `Membership`, `Annotations` | `FileSourceHasEntry`, `MergeKeepsEdits`, `LogoutDeletesSpent`, `NothingIsStuck`, `OneExchangePerLapse`, `SavedReplays`, `CodeHasSession`, `ReflectedStays`, `SuccessIsSaved` |
| `commands` | `DbRestore`, `ItemDownload`, `FairPlay`, `Plugins`, `Releases`, `SignIn` | `ImplementsReplace`, `DownloadedOnce`, `PackageIsWhole`, `ConsentBeforeCode`, `OneFilePerName`, `UpToDateIsNewest`, `PollsAreSpaced` |
| `episode_stale_count` | `EpisodeSync`, 1 show | refutes `OnlyVanishedEpisodesDeleted` (finding) |
| `auto_sync_never` | the `library` suite | refutes `NeverSyncedIsNotServed` (finding) |
| `transfer_shared` | `Transfer`, 2 processes, no interruption | refutes `PublishedIsWhole` (finding) |
| `login_resubmit` | `LoginServer`, 2 tabs | refutes `OnlyRestartReplaces` (finding) |
| `saved_prompts` | `RequestFiles`, composed at the prompts | refutes `SavedReplays` (finding) |

Each module states its type invariant. `TypeOK` of `LibrarySync` is checked by a run and proved, those of `AgentProcess` and `Downloads` are proved; the others have been checked on the instances of the suites and are not in the runs' lists.

`DbReplace` is the abstract specification of a library database: whoever opens it finds a version that was committed, a snapshot that was taken, or nothing. `DbRestore` implements it: its refinement mapping takes the database file, its log and the directory that has not reached the disk to one version (`ImplementsReplace`).

### Bounds

- `MaxClock` (LibrarySync) counts server changes. Three suffice for an item that is added, revoked and added again around one run, or for two items that change on either side of a page; two items are what it takes to put one on the page before a failure and one after.
- `Cap = 1` with two episodes makes the listing fall short, suffice, and fall short unnoticed; `MaxChanges = 4` lets a feed change before, during and after a resolution.
- `MaxAge = 1`, `MaxNow = 3` (AutoSync) give data that is fresh, stale, and fresh again. `MaxChanges = 2` (ChangeLog): a title comes and goes, or changes twice, around two aborted runs. `MaxMoves = 4` (LibraryViews): a book, and a show with an episode that is also an item of its own, in every state of archive, rights and downloads within four moves.
- `Length = 2` blocks (3 for the longer release) give an empty, a partial, a full and an oversized part. `MaxFaults = 3` allows an interruption of each of three releases' transfers; the number of runs is not bounded. Two key ids and two key requests (KeySession) are a renewal, or two formats. Two accounts and one retry (Orphans) make a database busy, then read, then damaged.
- `MaxTrouble = 1` (Downloads) is one failed item, failed tool, unwritten or undeleted sidecar, crash, changed name or file deleted by hand, anywhere in an unbounded sequence of batches and commands; the titles have one name or two from the start. `Unspoiled` stops TLC where a reorganization has put a file on a stem that another title's record names (see *Also noticed*): every property speaks of what comes before. `spoiled` is that history.
- `MaxTrouble = 3` (AgentProcess) allows a crash, the reuse of its PID, and one command beside a start; three PIDs are a dead daemon's, its successor's and a contender's. Two request slots, two accounts and a timeout of two ticks (AgentSessions) put an unlock, a lock or an eviction between any two steps of another request.
- `MaxCommands = 4` (Accounts) is what a login, a password, an interrupted command and one after it take. Two tabs and three sessions (LoginServer) are a second tab and a restart. Two titles, two changes, two rounds and one change elsewhere (Membership) let a row show the state before a change that was undone; two titles that may share a name and one failure or rename (Annotations).
- `MaxVersion = 4`, `MaxTrouble = 2` (DbRestore): a version under a snapshot, the snapshot, and one written during the restore; a power loss and a failing step. Three runs of a title (ItemDownload): one that downloads, one that decrypts with other options, one that decides whether there is anything left. Three releases in pages of two (Releases) hide one from the page.
- The clocks of `ApiClient` and `SignIn` are small numbers in the proportions of the code (margin below lifetime, backoff above interval).

Deadlock is not checked: every model may come to rest (a bounded server, nobody issuing commands). The suites' side wrappers are their next-state relations' disjuncts.

### Fairness

- `LibrarySync` (`CalmSpec`): a begun run takes a next step, which may be `Abort`: requests have timeouts and at most `MAX_RETRIES` retries. `Begin` is not fair; `SyncConverges` speaks of behaviours in which runs keep completing. In `CalmSpec` there is no power loss and no `db library remove`, which would let the view differ for ever.
- `Transfer`: a run takes a next step (the clients have connect and read timeouts), a stored URL expires, and a download that is not there is started again without `--force`. Interruptions are bounded.
- `KeySession`: the driver's loop runs in slices and its clock with it; an exchange over HTTP is answered or times out.
- `AgentProcess`: a process takes its next step unless it dies, a process under a reused PID ends at some time, and `start` is repeated. Everything that can undo a start (crashes, stops, probes beside it, a child slower than the three seconds) is bounded by `MaxTrouble`.
- `AgentSessions`: the clock ticks and the sweeper runs once a minute. No property rests on it.

## Proofs

`LibrarySyncProofs` proves, for any set of items, any number of runs and any `MaxClock`, from `NoProcAssumption` and `MaxClockAssumption`:

- `TypeCorrect`, `RunsExclude` (`OneRun`), `TokenIsCovered` (`TokenCovers`), `TokenAdvances` (`TokenNeverRegresses`).

`TokenCovers` is not inductive: that storing a token is safe depends on everything the run did since its first page. The inductive invariant `IInv` adds what that was:

- `Locked`: a run that has begun holds the lock, so nobody else moves the token (`SentToken`).
- `Past`: no time is later than the server's clock.
- `Snapshot`: what the server changed since the run's first page is newer than the token of that page.
- `Progress`: each listed item whose page is applied, and each item that was not listed, is `Settled`: its row agrees with the listing, unless a local command wrote it last.

`List` establishes `Progress` for what it leaves out, because the old token covered it; `SyncPage` extends it to the page; `PersistToken` then turns it into `TokenCovers` of the new token, and `Snapshot` says why what the server changed meanwhile does not matter. One lemma per action, each with one step per conjunct of `IInv`.

It also proves the properties of the other sides of the `library` suite:

- `AutoSync`: `ReadsAreFresh` (`Timed => (A!Spec => []ServedIsFresh)`) for any marketplaces and any number of explicit syncs beside the read; `Timed` says that `Never` is no number and `MaxAge` is one. A marketplace that the read did not judge stale was fresh then and has not got older (`FreshThen`); one that a sync has begun and that is no longer `busy` has been synced whole since the read asked (`Syncing`).
- `ChangeLog`: `EntriesAgree` (`LogAgreesWithRows`) under `Apart`: an episode's ASIN is no book's and not the show's. The property is inductive but for the types; the work is in each transaction: what it logs is true of the rows that it leaves (`EntriesFit`), and it is silent on no title that it brings or takes (`EntriesTell`), a soft-deleted show's episodes included.
- `LibraryViews`: `RunsTakeLeaves` (`SelectionIsDownloadable`), with no assumption, and `QueriesAgree` (`ListingAgreesWithSweep`) under `ShowApart` (the show is no book and no episode). The first is about what a selection reads: of each way to select it is shown to give leaves of the library that resolve to themselves, and until the library moves on that stays so. The second rests on `ShowHoldsEpisodes`: no episode is active under a show that is not. The sweep takes an episode by its own row, the listing names the show for it, and would be silent about one that outlived its show.

`EpisodeSyncProofs` proves, for any shows, episodes and deltas and with no assumption, `RevokedStaysEmpty` (`RevokedShowHasNoEpisodes`) and `EpisodesHaveTheirShow` (no active episode without its show's row). What has to be excluded is a resolution that is under way while its show is revoked and that writes episodes afterwards. `Settled` says of every show that the account no longer has and that no delta will list again that it has no active episode and no resolution open: its removal is in the next delta, and no run reads that delta before the resolution has ended.

Its other result is `CappedListingIsNoFeed` (`UndisturbedResolutionKeepsFeed`), for feeds of any length and any `Cap`. The invariant (`Collected`) says of a resolution whose feed stood still that it knows the feed's length and has listed only members of it, and of one that is about to be applied and can be trusted (no count, or a feed that stood still) that it has all that the feed kept. What leads from the first to the second is a count: a set of members of the feed that is as large as the feed is long is the whole feed (`CountTells`); where it falls short the relationships are asked, and they list everything.

`TransferProofs` proves `PublishesWhole` (`OneWriter => (Spec => []PublishedIsWhole)`) for releases of any length and any number of interruptions. `OneWriter` is one process and a marker that can be opened; two processes are refuted by `transfer_shared`. The invariant has two halves. `Staged`: the part consists of the first blocks of one release, of the one that the marker names if it names one, and without a version of the only one there has been. `Fits`: a run that resumes wants the release that the part holds, from where it ends, and while it streams the marker names that release or none. The gate turns the first into the second, `Open` and `Stream` the second back into the first. The invariant holds as long as there is something to vouch (`Vouched`: a version, or a release that has never changed).

It also proves `ScansKeepRecorded` (`LongRecordedIsKept`) over `Orphans`, for any accounts and paths and with no assumption. What has been recorded since before the scan began is referenced by what the scan has read, or its owner's database is still to be read (`Covered`); an account whose database cannot be read ends the scan. No two records own the same path (`RecordsApart`), which is why a change of one account's records takes nothing from what the scan has seen of another's.

`DownloadsProofs` proves, for any titles and stems, from `NoneAssumption` and `MaxTroubleAssumption`: `DownloadsTypeCorrect`, `NamesKeepApart` (`StemsApart`), `RecordsStayTrue` (`RecordsAreTrue`), `SourceIsKept` (`SourceKeptUntilDecrypted`), `TrackedStays` (`TrackedIsKept`) and, for finitely many stems (`FinitelyMany`), `MovesKeepFiles` (`ReorganizeLosesNothing`), which counts files. None of them is inductive. `IInv` adds:

- `OneWorks`, `Owned`: of a running batch one title at a time is past its name, and what a title is about to write is on a stem that it has claimed. Claims last as long as the batch.
- `Apart`, `LooksAhead`: no record of another title names a claimed stem, nor one that a title has looked up and found free. A title looks up the records some steps before it claims; what makes this safe is that in between only a title of the same batch can record the stem, and that one has claimed it first, which the claim then sees.
- `ItemFits`, `NowFits`, `PathsFit`, `MovesFit`, `Held`: the file that a title, a removal or a move is working on is there, is its own, and is the one the plan was made of.

All of it speaks of what comes before `spoiled`. One lemma per action, one step per conjunct.

`AgentProofs` has three parts.

- `AgentProcess`: for any number of PIDs and commands, from `PidsAssumption` and `MaxTroubleAssumption`, `AgentTypeCorrect` (`TypeOK`), `ServingStaysReachable` (`ServingIsReachable`) and `StartNamesTheHolder` (`StartedHasLock`). None of the three properties is inductive. `Owns` ties each stage of `serve` to the files that stage has written so far, and to the lock from the moment it is taken until the process is gone: the lock is why no other daemon touches them. `Probes` says that a command which found the lock free holds it, so that giving it back takes it from nobody. That a daemon that has not tried the lock yet is not named by the PID file rests on `Spawn` choosing a PID no file remembers (assumption below).
- `AgentSessions`: for any accounts, sessions and requests, `UnlockLasts` (`Distinct => (SessionSpec => []UnlockSticks)`) and `LocksHold` (`LockHolds`); `Distinct` says that `Nothing` is neither an account nor a session. `SlotsTyped` and `ConfigTyped` say what a request may hold at each of its stages: a session that a request opened is put into the map only where there is none, so that a request which was opening the account when `unlock` ran keeps the unlocked session instead of replacing it. For `LockHolds` the invariant is `Vouched`: a session that stands open in the map has an unlock behind it that nothing has undone (`OpenIsGranted`), and a request in flight knows every account that is granted, and holds an open session only of an account it has known so (`SlotsKnow`).
- `AppTokens`: for any tokens, commands and lookups, `LookupsAreCurrent` (`~Coarse => (TokenSpec => LookupSeesLastWrite)`). `Coarse` is the clock of a file system that gives two writes one mtime. The invariant (`TInv`): what is cached, or about to be, under the file's mtime is what the file says; the mtime is taken before the file is read, so that nothing is ever cached under a time later than its content.

`AccountsProofs` proves the properties of the `accounts` suite, one section for each module and each with its inductive invariant.

- `Accounts`: for any names, registrations and passphrases, `AccountsInvariant`, `FileSourcesOpen` (`FileSourceHasEntry`), `WriteBacksKeepEdits` (`MergeKeepsEdits`) and `LogoutsDeleteSpent` (`LogoutDeletesSpent`), under `Distinct` (the value for nothing is no record, no passphrase and no scope). `CommandFits` says what a command has loaded and what its steps so far have left: the material that a logout is going to delete is spent, the entry a source is going to point at is there, and nothing points at the entry that is going to be dropped. It has to survive every step of the agent, whose write-backs keep each file's registration, and the death of the command. `Entries` turns it into `FileSourceHasEntry`. `MergeKeepsEdits` is an action property that needs only that a merge takes its scope's field from the copy (`FilesTyped`).
- `LoginServer`: `CodeFindsSession` (`CodeHasSession`) for any number of tabs, with no assumption. `Backed` says that behind every code that is on its way there is a session, since sessions are replaced and never removed, except by `run()`, which takes the code with it and no second one.
- `Membership`: `ReflectedChangesStay` (`ReflectedStays`), with no assumption. A change that a command answers for is in the server's state from the moment it was made (`Granted`), in whatever the next sync will bring once a sync of the command has taken what was there before (`ComesNext`), and in the row when the command reports it (`ShowsNow`). The poll reads the rows only after its own sync has emptied the delta of older states.
- `ApiClient`: `RequestsShareExchanges` (`OneExchangePerLapse`), for any number of tasks and any times. An action property, shown step by step: whoever reaches an exchange without being told to has looked at the clock or at the cookies under the mutex, in the same step. `HostsKnown` tells a command that exchanges in any case from a request.
- `Annotations`: `SuccessesAreSaved` (`SuccessIsSaved`) under `RowsTell` (a row is something else than none). `NoteFits` says what the run has of a title at each of its stages; the hard step is a file that lands under the name of another title of the same run, which must not take back what was claimed of that one.
- `RequestFiles`: `SavesReplay` (`SavedReplays`, composed with flags) under `Portable`: finitely many query keys, and no body file of the flags with a relative path, which the run reads from the working directory and a replay beside the saved file (`commands/api/mod.rs:409`). A saved query is a map from keys, so the proof is about the round trip from pairs to a map and back, in any order the map may be listed in.
- `ConfigFile`: `GateLocksNobodyIn` (`NothingIsStuck`) under `Named` (no account has the name that stands for no account). Every edit ends with the gate, so that every config written is `Valid`; and of a valid config it is shown for each of the remedies that what it writes is valid again: the removal clears the default first, the rename moves it, a marketplace leaves both lists.

`DbRestoreProofs` proves `RestoreImplementsReplace` (`Bounds => (Spec => ImplementsReplace)`), the refinement of `DbReplace` by `DbRestore`: the initial states map to initial states, and each action has a lemma that maps it to an action of `DbReplace` or to a stutter. `Bounds` says that the bounds are numbers. What the database shows after a crash depends on which of its file and its log has reached the disk, and the two are replaced one after the other. The invariant `DbInv` says that whichever pair of them a power loss leaves, the log is the file's (`PairsFit`), that a log put aside belongs to every database it may be put back beside (`AsideFits`), and what a restore has staged and done at each of its steps (`StageFits`).

`CommandsProofs` proves the properties of the `commands` suite, except the refinement, each over its own module:

- `ConsentComesFirst` (`ConsentBeforeCode`), for any number of commands and with no assumption: a command that has code of a remote origin is past its first question only with the user's agreement, and has run nothing before it (`AllConsented`).
- `NamesAreUnique` (`OneFilePerName`) under `OneAtATime`: one command, and an interpreter that stays there or stays away. Two commands that look for a name before either has placed its file give it twice. The invariant (`NamesInv`): a command between its look and the end of its copy still has its name to itself, and a script is there only with its interpreter, which is why a script that the listing hides cannot be overlooked.
- `PausesAreKept` (`PollsAreSpaced`) under `Seconds`: times are integers, and the doublings of the backoff a natural number.
- `StoreHoldsWholePackages` (`PackageIsWhole`) under `OneDownload`: one command at a time. Two downloads of a title share the name of the partial package, and one of them renames what the other has copied half.
- `AudioIsDownloadedOnce` (`DownloadedOnce`) under `OneQuality`. The run decides from the records and the files what is left to do, with the grant that is not yet known; the invariant says at each step what the run has found, asked for and got.
- `NoNewerReleaseIsHidden` (`UpToDateIsNewest`) under `Pages`: a page has room for a release. `Catalogued`: there are finitely many releases, and no two of one version.

The hypotheses are those of the suite's instance (one process, one quality, `PythonVaries = FALSE`).

Every safety invariant and every action property that a passing run checks is stated by a theorem. Only model-checked are the liveness properties (`SyncConverges`, `TransferCompletes`, `FinishedEnds`, `AgentComesUp`), which are out of the prover's reach, the type invariants of the modules whose proofs need only parts of them, and the refuted properties below, which TLC refutes by a behaviour.

## Findings

- `episode_stale_count` (`library_sync.rs:415`): a show gains an episode after its page announced the old count; the capped listing passes for complete and a stored episode is soft-deleted though it never left the feed.
- `auto_sync_never` (`db/items.rs:1517`): a first sync that fails after a page counts as a sync; reads serve the fragment without a warning.
- `transfer_shared` (`downloader.rs:428`): two processes share one part file, each counts only its own bytes, and a file that is no release is renamed into place.
- `login_resubmit` (`auth/login/server.rs:352`): two submits of the form that both looked for a session before either stored one; the second replaces the first without the restart marker.
- `saved_prompts` (`commands/api/mod.rs:500`): a request composed at the prompts is sent with every value of a repeated query key, and saved with the last one.

### Also noticed

Read from the code while it was modelled; no run shows these.

- `agent stop` (`session/agent.rs:598`): a held lock does not mean that the PID file is its holder's; beside another command's probe or a starting daemon it signals the PID of a dead run (`AgentProcess!StopSparesOthers` says what should hold).
- `reorganize` (`commands/download/reorganize.rs:302`): with two titles of one name, it plans the ASIN out of the second one's file name and compares its moves with each other only, so the second title's m4b can land on the first one's stem. Two titles of one name also share one `.annot` path, since `save_annot` does not disambiguate.
- `account rename` leaves the passwords entry under the old name (`commands/account/manage.rs:107`), so that an account with the source `file` does not open unattended any more. `account password remove` drops the entry before it resets the source (`password.rs:73`).
- Whole-file saves (`activation-bytes --fetch`, `token remove`, `cookies remove`) take back a token that was merged between their load and their save; the reverse direction is `MergeKeepsEdits`.
- `marketplaces add` and `remove` write an array worked out from the command's snapshot (`manage.rs:134`), `config edit` the file it copied before the editor opened (`commands/config.rs:138`).
- A restart of the sign-in in one tab while another tab's code is on its way pairs the code with the new session's verifier (`auth/login/server.rs:182`); the sign-in fails and has to be repeated.
- A decryption with `--force` that is killed leaves a truncated m4b under an existing record (`commands/download/decrypt.rs:364`); `annotations sync --missing --save` does not come back to a title whose file could not be written (`commands/annotations.rs:192`, whose comment says a re-run does).

## Assumptions of the models

- `Transfer`: opening the marker succeeds once the part could be opened (`Unopened = FALSE`); its write may fail and leave it empty. With `Unopened = TRUE` an old marker can stay beside new blocks, and a run with a reused license would resume them.
- `Transfer`: a corrected release gets a new version in the license, and a signed URL serves the release it names.
- `Downloads`: one account, one marketplace, one audio format, and one command at a time. A sidecar opens the aaxc if both are the same title's; a tool that is given another's makes noise and succeeds.
- `AgentProcess`: PIDs are handed out in turn, so a new daemon never gets one that the PID file or a waiting command still names; unrelated processes may.
- `LibrarySync`: SQLite transactions are atomic and a power loss falls back to a state that was committed.
- `Accounts`: commands run one at a time; the agent runs beside them. An interrupted command stops between two file writes, each of which is atomic (`persist_atomically`).
- `Membership`: the feed shows the newest state of a title, later; a row changes only by it and by `library remove`. Commands run one at a time; syncs of others run beside them.
- `AppTokens`: two writes of the token file within one tick of the file system's clock are apart (`Coarse = FALSE`).

## Not modelled, and plan

Not modelled: the tags, series and statistics queries and the migrations of the database; `downloads add` and `check`; the audit log; protobuf, cryptography, XML, playlists and scraping of sign-in pages; the replacement of the executable; argument parsing, output and the TUI. They are parsing, formatting or I/O without a state that several steps could bring out of order.

Planned, in order:

1. Composition: `Accounts` with two commands at a time, `Downloads` with two processes, and the theorems about them.
2. Weaker hypotheses: `StoreHoldsWholePackages` and `NamesAreUnique` for commands of different titles and names that overlap.
