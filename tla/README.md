# Clamp: a TLA+ development

Clamp keeps an organisation's knowledge as Markdown concepts in a Git
repository. `kb publish` moves a clone's edits to the remote's `main`,
`kb sync` derives a search index from `main` in PostgreSQL, `kb search` and
`kb get` read that index, and a Telegram bridge passes the owner's messages to
an Amp thread. Local commands write tasks together with a generated `TODO.md`,
replace the generated scaffold of a repository, or upgrade the installed
runtime, and `kb database migrate` brings the schema up to date. A repository is
locked to a release; `setup-local`, with the Python tool `runtime_metadata.py`,
installs that release for one user, qualifies and records the user's Amp, and
the launcher `kb` executes what the lock names. This directory holds TLA+
models of the parts of Clamp where processes, remotes, editors and crashes meet,
the TLC configurations that check them, and TLAPS proofs about all of them.
Paths below are relative to the repository's root.

    tlc  -config PublishFaults.cfg MCPublication.tla     # check one run
    tlapm PublicationProofs.tla                          # check the proofs

`PROJECT.json` lists the runs, maps every definition to the lines it models,
and gives, for every property, a mutation of the model that breaks it.

## 1. The system

| Component | State | Operations | Interacts by |
|---|---|---|---|
| **publication**, `lib/publication.ml` | branch, HEAD and rebase of the clone; `refs/clamp/publish/<thread>/{original,state}`; `main`, `conflicts/*`, `recovery/*` of the remote | `kb publish`, its rerun (`resume`), `--preserve-conflict` | the exclusive repository lock; fetches and pushes; ends with a sync |
| **index sync**, `lib/sync.ml` | `concepts`, `index_state`, `access_stats`; a session advisory lock | `kb sync` with `--commit`, `--reembed`, `--allow-mass-delete` | `refs/remotes/origin/main`; one transaction; embeddings over HTTP |
| **retrieval**, `lib/retrieval.ml` | a row count in `access_stats` | `kb search`, `kb get` | transactions over the rows a sync writes |
| **database access**, `lib/database.ml` | connections, the migration ledger | connect, run a transaction, migrate | used by both of the above |
| **database schema**, `db/migrations` | the tables | | the cascades a sync relies on |
| **Telegram bridge**, `integrations/telegram-bridge/src` | a queue and a memory of update ids, in memory; stored voice notes | webhook, worker, stop; reminder tool | Telegram redelivery; prompts to Amp |
| **local writes**, `lib/local.ml` | concept files, tasks and the generated `TODO.md` | create, update, task writes | leave the managed change that publication commits |
| **scaffold migration**, `lib/scaffold.ml` | `.clamp/scaffold-upgrade`, renamed entries | migrate, recover, roll back | repository lock |
| **runtime upgrade**, `lib/upgrade.ml` | the installed runtime directory | install, exchange, finalise, restore | a lock on the parent directory |
| **runtime metadata**, `runtime/templates/runtime_metadata.py` | `~/.local` directories with cached manifests and installed runtimes; the Amp record `local.json` | parse locks and manifests; extract, install, cache; preflight; qualify and enrol Amp; run a command within bounds; answer Git's credential requests | called by `setup-local` and `kb`; runs Git and Amp |
| **runtime templates and setup**, `runtime/templates/setup-local`, `kb` | the checked-out lock, temporary files | set up a machine; select and execute the runtime of the lock | call the Python tool; curl |
| **embedding client**, `lib/openrouter.ml` | a deadline and an attempt count | `embed` | called by sync and search |
| initialisation, file-system primitives, document formats, command line, release tooling | none that outlives a call, or a single rename | | |

The hard behaviours:

* *Publication* must survive a stop between any two of its Git commands, with
  other publishers winning races, pushes whose outcome is unknown, a `kb sync`
  that moves `origin/main` under it, and an owner who edits files in between.
  It is right when no committed change is lost, the state is forgotten only
  when the change is on the remote, reports are true, `TODO.md` on `main`
  agrees with the tasks, and every publication can be brought to an end.
* *Index sync* plans outside a transaction. What protects the plan is a session
  lock that can vanish with its session. It is right when the rows are always
  those of the checkpoint, the checkpoint only advances, access counts survive,
  and mass deletions need approval.
* *Retrieval* reads in several statements while syncs commit. It is right when
  it returns what one commit holds, and counts an access when it says so.
* *The bridge* has redelivery on one side, timeouts on the other and no
  persistence. It is right when the thread gets messages in order and not
  twice, the owner is told the truth, and no job is stranded in the queue.
* *Scaffold migration* replaces several files one rename at a time and can be
  killed between any two. It is right when the outcome is all old or all new,
  nothing of the owner's is destroyed, and a rerun ends what was interrupted.
* *Local writes* rename over files that editors may replace between a check and
  the rename, without a recovery after a crash. They are right when both files
  are written or neither, the report says which, and every file that was
  replaced or captured can still be found.

* *Database access* races connections to several addresses under one deadline
  and starts over after failures. It is right when it ends with the winner's
  connection and no other. A *migration* meets other commands, other programs
  and the remains of commands that were cut off. It is right when the ledger
  tells what the schema has, at every commit.

* *Runtime upgrade* exchanges two directories and removes the old one, and the
  power can fail before the exchange is on the disk. It is right when a complete
  release has the name of the installation at every moment, success means the
  new one, and trees of other programs are not removed.

* *Installation* is done by several setups of one user side by side, with no
  lock among them, while the repository's lock may be switched and the power may
  fail. It is right when the launcher executes the runtime of its lock or
  nothing, a report of success is true, no valid runtime is taken away, and
  running setup again installs what is sound.
* *Enrolment* asks an executable for its version and for a login, and records
  it, while its updater renames others to its place. It is right when kb trusts
  only what passed both, a reported record survives a power cut, and running
  setup again ends with a record of what is there.
* *Bounded commands* run programs that may hang, flood or close their output,
  or leave children behind, and are nested: setup runs git, git the credential
  helper, the helper Amp. They are right when every call returns, nothing it
  started survives it, no foreign process group is signalled, and git is handed
  a whole answer or none.

`PROJECT.json` lists forty hazards at the lines where they bite. Three of them
have a note: windows that the code leaves open, and one that no property covers.

## 2. The modules

    KnowledgeLog <--implements-- Publication <-- MCPublication (TLC)
                                     ^------ PublicationProofs (TLAPS)
    IndexSync <-- MCIndexSync
        ^------ Retrieval <-- MCRetrieval
                    ^------ IndexProofs (TLAPS)
    Bridge <-- BridgeProofs (TLAPS)
    Scaffold <-- ScaffoldProofs (TLAPS)
    LocalWrites <-- LocalWritesProofs (TLAPS)
    Upgrade <-- UpgradeProofs (TLAPS)
    Connect <-- Migration <-- MCMigration
                    ^------ MigrationProofs (TLAPS)
    RuntimeMetadata <-- RuntimeInstall <-- MCRuntimeInstall
                            |
    Setup <-----------------+-- Enrollment <-- MCEnrollment
                            |       |
    Command <-- MCCommand   |       |
        ^-------------------+-------+-- SetupProofs (TLAPS)

`SetupProofs` proves about what a setup does on a machine: install, enrol, run
commands. It extends three specifications at once, so that the names they would
share carry a letter in two of them: `CSpec` and `CTypeOK` of `Command`, `ESpec`
and `ETypeOK` of `Enrollment`.

`Bridge`, `Scaffold`, `LocalWrites` and `Upgrade` declare everything TLC needs and are
checked without an MC module.

### KnowledgeLog: what publication promises

The remote `main` is a log to which changes are appended one at a time and
once each. A change that has reached the remote stays known.

### Publication: one clone and its remote

A commit is the sequence of the entries of its history; an ancestor is a
prefix. An entry is one owner's change plus a flag: does `TODO.md` agree with
the tasks of that commit?

| Variable | In the program |
|---|---|
| `origin`, `side` | `refs/heads/main` and the `conflicts/`, `recovery/` branches of the remote |
| `flight` | pushes whose client has gone but that the server may still carry out |
| `tracking`, `main`, `head`, `attached`, `rb` | the clone's refs, HEAD, and `.git/rebase-*` |
| `st` | the retained publication: the pair of refs and the JSON state |
| `work`, `unwritten`, `stray` | the owner's managed change, the changes to come, edits elsewhere |
| `run`, `out` | the running command and the last report |
| `durable` | history: changes that have been on the remote |

Each durable effect of the command is one action, with the guards and early
returns that lead up to it:

| Code | Actions |
|---|---|
| `publish`, `resume` and the preflight checks | `Invoke` (through `Route`) |
| `commit_managed`, `create_state`, `detach_publication` | `CommitManaged`, `CreateState`, `DetachPublication` |
| `fetch`, `rebase_onto_origin` | `Fetch`, `RebaseOntoOrigin`, `ReportConflict`, `RebaseKilled` |
| `continue_rebase`, `finalize_rebased_commit` | `ContinueRebase`, `FinalizeRebasedCommit`, `ClearConflicts`, `CountCleanRace` |
| `publish_attempts` | `PublishAttempt`, `PushMain`, `PushMainUncertain`, `FetchAfterPush`, `PushRecovery` |
| `attach_published_main`, `cleanup_state` | `AttachMain`, `SwitchToMain`, `CleanupPublished`, `CleanupExhausted`, `CleanupPreserved` |
| `preserve_conflict`, `verify_abort`, `allocate_pending_preservation`, `push_pending_preservation`, `mark_preservation_proven`, `retry_proven_cleanup` | `AbortRebase`, `RestoreMain`, `VerifyAbort`, `AllocatePending`, `PushPending`, `PushPendingUncertain`, `QueryBranch`, `MarkProven` |

The environment: `Interrupt` stops a run anywhere (a crash, or a local error
after which the state stays), `RemoteUnavailable` fails a network step,
`FlightEnds` settles an abandoned push late, `ForeignPush` and `ForeignBranch`
are the other publishers, `SyncFetch` is a `kb sync` (which does not take the
repository lock), and `WriteChange`, `ResolveConflict`, `StrayEdit`,
`UndoStray`, `ResetToOrigin` are the owner and the agent. Runs of one clone hold
the exclusive lock and do not interleave.

Abstractions. The legacy `unresolved` preservation state is merged with none.
`TODO.md` is the flag, and a text merge may leave it right or wrong. The paths
of a conflict are one Boolean, plus whether stray edits were in the worktree
when its fingerprint was taken. Resolving a conflict keeps a non-empty change.
Managed edits are made only with nothing pending, other edits only between
runs. Validating the tree or the Git configuration is a failure that stops the
run. The command pushes by URL, so `origin/main` of the clone is behind after a
publication until the sync that follows.

### IndexSync: the clones that write the index

Clones of several repositories share one database. A commit is a position in
its repository's history and stands for a map from paths to blobs; a blob is
what embeddings are computed from and the rest. `sync[c]` is the process of
clone `c` from `Precheck` (the lock), `FetchTarget`, `ReadState` and `ReadRows`
(the plan and its safeguard) to `Apply` (the single transaction, `run_locked`
and `apply`) and `Unlock`. `Fail` is any error on the way, `DropSession` and
`NoticeDrop` a session that ends before its client knows, `LoseState` a restore
that lost the checkpoint, `OperatorClear` the remedy of `docs/recovery.md`.
Source identity is modelled; model identity and vector dimension are one value,
`ModelOf`.

### Retrieval: readers on top of IndexSync

It extends `IndexSync`. A `get` goes through `Begin`, `Preflight`, `LockRow`,
`ReadContent`, `CheckState`, `CheckRef`, `Deliver`, and a `search` takes
`Snapshot` instead of the row's statements, in a repeatable-read transaction.
`LoseReply` loses the answer to COMMIT, `GiveUp` is the deadline or another
error. A row held `FOR SHARE` delays the `Apply` of a sync
(`ApplyAmongReaders`). The insert into `access_stats` takes effect at COMMIT.
`told` records, for each row since it was inserted, how many gets were told that
their access was counted and how many that this is uncertain; `CountedOnce`
compares the column of the database, `stats`, with it.
Visibility filters, ranking and byte limits are left out.

### Bridge: the queue and its worker

`Deliver`, `LoseAnswer` and `DeliverLate` are the webhook (the answer to
Telegram is lost; remembered ids have expired), `Work` is the loop of
`queue.ts` with the attempts of `amp.ts` and the confirmations of `bridge.ts`,
`Stop` and `Restart` end the process. A prompt is taken to have reached Amp
only if Amp has sent an event, which is what `amp.ts` relies on to repeat an
attempt. Payloads, the rate limit, the media store and the reminder tool are
left out.

### Scaffold: a transaction of renames

The generated files are the entries `1 .. N` in the order of the record;
`Legacy` are those that replace a file, the others are added. A file is what
the recorded digest and inode tell about it: `old`, `new`, a `copy` of the old
contents in another inode, or `foreign`. `dir` is the transaction directory with
its name, record, COMMITTED and one slot per entry; `marker` holds the cleanup
and the rollback record beside it.

| Code | Actions |
|---|---|
| `upgrade`, `recover` | `Upgrade` (through `Recover`) |
| `perform` | `Snapshot`, `Discard`, `WriteRecord`, `WriteSlot`, `PublishTransaction`, `CheckEntry`, `ExchangeEntry`, `VerifyEntry`, `Commit`, `CommitSynced` |
| `rollback` | `RollbackEntry`, `UndoEntry`, `RolledBack` |
| `cleanup_transaction` | `Mark`, `FillMarker`, `RenameTransaction`, `EmptySlot`, `RemoveCommitted`, `RemoveRecord`, `RemoveDirectory`, `RemoveMarker` |
| `recover_cleanup_record`, `recover_preparing` | `FinishMarker`, `RemovePreparing` |

`Crash` kills the command between two system calls, with kind "tear" between
the creation of a marker and its contents; `CallFails` is a system call that
fails, in any step of a command, its rollback and its cleanup included; `Edit` and
`Restore` are the owner. `Raise` is the handler that catches at that point.
A command that finds all of the new scaffold reports `already_current`.
`.clamp` itself is taken to be private to the program. A crash between the
rename and the removal of an abandoned empty directory (`Discard`) leaves one
without a record, which `recover` refuses from then on; it needs an edit in the
same instance, which `RecoveryEnds` excludes.

### LocalWrites: two files and their editors

A file is `old` (the one the command took a snapshot of), `new` (the one it
prepared) or `foreign`. `public` is what is in the worktree, `held` and `aside`
what is in the transaction directory of the command. `run` holds the state
that the OCaml code spreads over the transaction and closures: the phase of the
task input, the sticky mismatch, receipts, witnesses, and what is still to undo.

| Code | Actions |
|---|---|
| `mutate`, `transition`, `todo`, `capture_task_input`, `snapshot_private` | `Begin`, `OpenTask`, `CaptureInput`, `SnapshotTodo` |
| `prepare_private_file` | `PrepareTask`, `PrepareTodo` |
| `install_private` | `GateInstall`, `Install`, `VerifyInstall`, `Displace`, `GateRecapture`, `Recapture`, `GateReturn`, `Return` |
| `rollback_install`, `release_initial_state` | `Drop`, `GateUndo`, `UndoTake`, `UndoCreated`, `UndoReturn`, `UndoReplaced`, `UndoRestore`, `UndoClean` |
| `paired_task_write_private`, `finish_install` | `Confirm`, `Clear`, `Settle` |
| `with_transaction` | `Close`, `Report` |

A gate and its rename are two actions, so that `Edit` can come between them;
every gate first asks `InputsMatch`. The rest of `knowledge/` and `clamp.yaml`
is one input that `EditOther` moves. Left out: the creation of missing
directories, validation and canonical forms, and the plain write of a single
concept. A call that fails while the inputs are opened, captured or read (`OpenTask`,
`CaptureInput`, `SnapshotTodo`) ends the command before it has touched a file, and
is not an action. `Report` compares all completion witnesses in one step, which the
code does one after the other: an edit between two of these comparisons, or after
the last, is an edit after the report. A crash inside a rollback can leave a name
absent and its file in `.clamp/transactions` only: no later command restores it.

### Upgrade: an exchange of directories

`names` says which tree has which name in the parent directory of the
installation; `unsynced` holds what it was since that directory was last
flushed. A tree has files and two flags: it has been flushed, and it has been
changed since it was recorded. A release with a manifest is copied to the stage
(kind `prepared`); an older archive is extracted and moved there (`archive`).

| Code | Actions |
|---|---|
| `run`, `fetch`, `with_manifest_release` | `Begin`, `Fetch`, `Verify` |
| `install_prepared` | `Lock`, `MakeStage`, `Copy`, `SyncStage`, `Guard`, `Exchange` |
| `install_archive` | `Lock`, `MakeTemp`, `Extract`, `Move`, `Moved`, `Guard`, `Exchange` |
| `finalize_exchange` | `Fsync`, `CleanOld`, `Reverse`, `ExchangeBack`, `CheckRestored` |
| `cleanup_expected`, `Secure_fs.remove_tree_at` | `CheckTree`, `TakeTree`, `RemoveFiles`, `RemoveDone` |
| `finish` | `FinishRun` |

`PowerFails` goes back to any state of the directory since its last flush, and
may empty a tree that was not flushed. `Writeback` is the assumption that the
directory is on the disk by the time the next command has the lock. `Edit`
replaces or removes a tree, `Tamper` changes the candidate. The lock serialises
installers. A download is sound or not, and `Sound` is every check made of it.
Left out: the choice of a release, the refusals for installations that setup
manages or that have the requested version, and a parent directory that is
itself replaced. `MakeTemp` makes and opens the temporary directory in one step:
see below for what the code leaves if it can only do the first.

### Connect: from a URL to one connection

`conn[c]` is the command of client `c` in `with_remote_connection`: the round,
the addresses found and tried, and the `pending` and `opened` lists of the race;
`pending` says of each address what its connection has come to.
`sockets[c]` is what is really open, which the code can only reach through those
lists. A command that comes to its end is `idle` again.

| Code | Actions |
|---|---|
| `with_remote_connection`, `resolve_targets`, `resolve_host_with` | `Dial`, `ResolveTargets`, `SomeUnresolved`, `EndRound` (in `Inspect` and `Exhausted`) |
| `race_remote_connections` | `Launch`, `LaunchFails`, `Poll`, `Inspect`, `Win`, `Exhausted` |
| the looks at the clock | `TooLate` |

A host has one address. The 250 ms between two launches and the pauses between
rounds may end at any time, and any look at the clock may be the one that finds
the deadline passed. What the caller does with the failure is left out.

### Migration: one transaction over the schema and its ledger

It extends `Connect`: a command that holds a connection (`use`) runs the
transaction of `apply_migrations`. `db` is what is committed: the ledger, with
its shape and rows, and the set of migrations whose SQL has been run. `tx[c]` is
the transaction as the server has it, with the checkout it was given, its view,
and its locks. It can outlive its client: pc `gone`, until the server notices.

| Code | Actions |
|---|---|
| `migrate_remote_from`, `with_migrations` | `Begin` |
| `apply_migrations` | `TakeAdvisory`, `Apply`, `Commit` |
| `prepare_ledger` | `Present`, `Create`, `Unblock`, `Again`, `LockLedger` |
| `ledger_shape`, `validate_ledger_catalog`, `validate_ledger_rows`, `upgrade_legacy_ledger` | `Validate` |

A statement sees what is committed when it starts and its own changes (read
committed). The advisory lock serialises commands only; `OtherBegins` and
`OtherEnds` are a program that knows nothing of it and creates, drops, reshapes
or extends the ledger. Its table lock and the unique index on table names are
what it shares with a command. A migration is a name: its checksum is part of
its identity. `Lose` is a client or connection that disappears, with a COMMIT
that may have been carried out. The clauses of the catalog checks are left out,
as is the check of the local cluster (`migrate_local`).

### RuntimeMetadata and RuntimeInstall: from a lock to a runtime

`RuntimeMetadata` has what the Python tool accepts, as operators without state:
locks of both forms, manifests, archives, installations, machines. A file is
represented by its digest; `Manifest` and `Archive` say what a digest was taken
of, and a false digest is one that names something else. `RuntimeInstall` is the
two shell scripts around it.

| Variable | In the program |
|---|---|
| `machine`, `lock` | the tools and the file system; `clamp-runtime.lock` in the checkout |
| `directories` | the private directories exist |
| `manifests` | the cached manifests by digest, and whether their directory was flushed |
| `runtimes` | the installations by digest: the archive they came from, the marker `.archive-sha256`, and what of them was flushed |
| `setup` | of each process: where it is, the lock it read, its temporary manifest, whether it changed anything |

| Code | Actions |
|---|---|
| `setup-local` up to the lock, `local_preflight`, `parse_lock` | `ReadLock` |
| `private_directories` | `LookForDirectories`, `MakeDirectories` |
| curl, `verify_digest`, `parse_manifest` | `FetchManifest` |
| `installed` | `LookForInstallation` |
| curl, `archive_entries`, `extract_archive`, the marker | `FetchArchive` |
| `install` | `Install`, `FlushRuntimes` |
| `cache` | `LookForManifest`, `LinkManifest`, `SyncManifests` |
| the last two calls of the launcher, `qualify-amp`, the report | `Launch`, `Report` |
| `kb` | `Launched` |

`SwitchLock` is a checkout, `Kill` ends a setup anywhere, `PowerCut` keeps what
was flushed and any part of the rest, `Rerun` is the owner. Left out: the checks
of owners, modes and link counts, the reader of JSON, the repository a release is
taken from, the checks of the Git checkout before the lock, and the order of a
manifest's targets. The gates of setup before the lock (`setup-local:79-109`, of
which one logs in with Amp) fail as a fault of `ReadLock` only: an Amp that is
missing, too old or not logged in ends every setup there, and is the subject of
`Enrollment`. A digest belongs to one content. A directory that a new name
was flushed into is taken to be named itself, as on the journaling file systems
that the preflight demands.

### Enrollment: Amp is qualified and recorded

`path` is the inode of `~/.amp/bin/amp`, `backup` the one its updater keeps,
`build` the content of each. `setup` is a process in `qualify_amp` and
`enroll_amp`, with the inode it holds open; an inode that a name or a descriptor
refers to is not given out again. `record` is `local.json`; `disk` holds every
record that a power cut may leave, which until the directory is flushed is any of
those that were renamed to it since the last flush. `Trusted` is what `lib/sync.ml` compares
before kb runs Amp: inode and digest, and the version, which is the string that a
build prints (`VersionOf`), so that different builds may have the same. `slipped` is
history: what was written into the file between the login of a setup and its digest.
The processes and the count of their faults, common to `RuntimeInstall`, are in
`Setup`.

| Code | Actions |
|---|---|
| `verify_amp`, `open_amp` | `OpenAmp` |
| `pinned_amp_path`, `amp_version_result` | `AskVersion`, `Pin` |
| `check_amp_remote` | `CheckRemote` |
| `amp_digest_descriptor`, `amp_digest` | `DigestOpen`, `Prepare` |
| the rest of `enroll_amp` | `WriteRecord`, `ReplaceRecord`, `SyncDirectory` |

`Update`, `Rollback` and `Rewrite` are the updater and another process that
writes into the executable; `EKill` and `EPowerCut` are faults. Content is
identified by size and digest: the code also compares the times of the file, which
are not modelled. Left out: the directories of the record, their owners and modes.

### Command: two bounded calls, one in the other

`proc` is each process, `pipe` what was written and not yet read, `call` each
`bounded_output`: where it is, what it read, whether its input was passed on and
whether its process group was killed. The outer call (`check_amp_remote`)
starts git in a session of its own; the inner call is made by the helper that git
starts (`setup_credential_helper`) and runs Amp in git's group.

| Code | Actions |
|---|---|
| from `Popen` to the `try` | `EnterTry` |
| the selector loop | `LoopTimeout`, `ReadChunk`, `ReadEnd`, `WriteInput` |
| `waitid` without collecting, `killpg`, `wait` | `ProbeExit`, `ProbeTimeout`, `KillRest`, `MarkCleaned`, `Wait` |
| `finally` | `FinallyGroup`, `FinallyChild` |
| `valid_credential_protocol`, `setup_credential_helper` | `GitAsks`, `HelperEnds` |

`Write`, `AmpForks`, `CloseOutput` and `Exit` are git and Amp, which may do this
at any time; `Interrupt` is Ctrl-C at any step of the outer call, which unwinds it
through its `finally` or, before the `try` and in the `finally` itself, leaves it
at once (`Left`; the result is then "abandoned" unless the group was killed);
`NumberReused` is the kernel, which gives the number of an ended group to another one. A chunk is a line, a deadline may pass
at any step. A child that starts a session of its own, and a SIGKILL of setup,
escape the group in the program as well and are not modelled.

## 3. The runs

| Run | Instance | States | Checks |
|---|---|---|---|
| `publish_faults` | two own changes, three foreign ones of which one conflicts, race limit 2; two faults among crash, network, branch, stray edit | 2,455,500 | `NothingLost`, `TruthfulReport`, `TodoAgreesOnMain`, `ForgottenOnlyWhenDurable`, `ImplementsKnowledgeLog` |
| `publish_live` | two own changes, a conflicting foreign one; one network fault; `FairSpec` | 9,208 | `EverySettled` |
| `index_faults` | repository A with three trees and two clones with different models, B with one; one fault among failure, lost session, restore | 1,002,883 | `IndexMatchesCheckpoint`, `CheckpointAdvances` |
| `retrieval` | two clones, two trees, a reader with three reads; one fault; `RFairSpec` | 298,614 | `ReadsCapturedTree`, `CountedOnce`, `IndexCatchesUp` |
| `bridge_restarts` | four updates, queue of two, three remembered ids, two attempts; two faults; `FairSpec` | 397,678 | `InOrder`, `AtMostOnce`, `EverySettled` |
| `scaffold_faults` | four files, two replaced and two added; three faults among crash, torn marker, failing call, edit; `FairSpec` | 95,276 | `AllOrNothing`, `ReportsTrue`, `ForeignKept`, `RecoveryEnds` |
| `local_faults` | a task and `TODO.md`, any sequence of `write` and `todo`; three faults among crash, failing call, edit; `FairSpec` | 77,580 | `AllOrRecoverable`, `ReportsTrue`, `ForeignKept`, `TodoRepaired` |
| `upgrade_faults` | releases of two files, any sequence of both kinds; three faults among kill, power failure, failing call, edit; `FairSpec` | 88,695 | `TargetWhole`, `ReportsTrue`, `ForeignKept`, `Upgraded` |
| `migration_faults` | two clients, one with the complete checkout and one with either; two migrations, two hosts, two rounds; two faults among host, connection, deadline, statement, lost client, other program; `FairSpec` | 182,263 | `OneSession`, `LedgerTellsSchema`, `Migrated` |
| `install_faults` | two setups, nine manifests, two of them of sound releases and the others with one flaw each, and locks of both forms, sound or not; three machines; one switch of the lock; one fault among kill, power cut, failed download, full disk; `FairSpec` | 160,201 | `SelectedIsLocked`, `TruthfulReport`, `PriorKept`, `RerunInstalls` |
| `enrollment_races` | two setups, three inodes; builds that qualify, print the same version and lack the helper, are too old, or are newer; two changes of the executable, each an update, a rollback or a write; one fault; `EFairSpec` | 1,820,208 | `TrustedWasQualified`, `EnrolledIsDurable`, `RerunEnrolls` |
| `command_bounded` | one credential exchange: answers of up to three lines over user name, password and blank, a good and a bad request; Ctrl-C at any step of the outer call; `CFairSpec` | 343,796 | `NoSurvivors`, `OnlyOwnGroup`, `AnswerIsWhole`, `Returns` |

Why the bounds are enough to be interesting:

* `RaceLimit` is 3 in the code and a constant here. With 2 in `publish_faults`,
  three foreign changes are what it takes to lose the counted races and still
  have a conflicting winner, so the recovery branch, the race limit and a
  conflict after counted races all occur; the other runs use 3. With two own
  changes a second publication starts from whatever the first left behind, and
  collides with its branch name (there is one stamp). Two faults allow a fault
  during the recovery from a fault. The foreign changes that do not conflict are
  interchangeable, which `publish_faults` uses as a symmetry.
* A's history changes a row without and with its embedding input and then
  deletes two of three rows, which crosses the safeguard (`MassLimit` is 2
  instead of 10). Two models make one clone re-embed what another wrote, and B
  competes for the identity of an empty database. One lost session is enough
  for a stale plan to reach `Apply`.
* A queue of two holds an order: a worker that took the newest job would be seen
  (`TakeNewest`), and with a third job in work a fourth update finds it full.
  Three remembered ids are fewer than the updates, and both capacities keep the
  order the code gives them.
* Three reads leave a row with counts that were told as done and as uncertain
  while syncs rewrite it, and with others after it was deleted and inserted again.

* Four entries put an added file before and after a replaced one in the order of
  the exchange and of the rollback. Three faults allow an edit, a crash and a
  failure of the recovery.
* `local_faults` starts from every combination of existing and missing files and
  repeats commands for ever; an edit before the gate, one before the rename and
  one during the recapture are three faults.
* Two files make a release that is half copied or half removed. Three faults
  allow a failed flush, an edit before the exchange is taken back, and a power
  failure.
* Two hosts give a winner and a loser of the race in every order, and two rounds
  one retry (the code has four). Two migrations distinguish an empty, a partial
  and a complete ledger; the client with the old checkout meets a ledger that is
  ahead of it. Two faults lose a command and let another program interfere with
  the next one.

* The releases of `install_faults` differ from a sound one in one respect each:
  a version file of another release, a member twice, a member that is not
  listed, an archive built again after its manifest, a missing target, a listed
  file no archive may hold, and a manifest that was issued again with fewer
  files. One switch makes a setup verify one lock and report on another; two
  setups meet in every name they create. One fault is enough for the two states
  that setup never repairs.
* Two changes of the executable are an update and its rollback, a build
  that comes and goes between two steps, or two writes, of which the second
  restores what the first replaced. Three inodes let an inode number be
  given again. Two builds that print the same version are what kb can only tell
  apart by the digest and the login.
* Amp's limit of three lines admits the two lines of an answer and a blank one,
  and an Amp that says more exceeds it. One stray child of Amp, with or without
  the output, is one more writer than the program that was called.

A type invariant is stated in every module for its reader. All of them are
proved; no run checks them again. That access counts survive a sync and that mass deletions
need approval are guards of `Apply` and its plan, and no run states them.

Deadlock is checked everywhere but in `bridge_restarts`, where the owner has a
finite number of messages and the system rightly comes to rest, and in
`command_bounded`, which ends with its call.

### Where the code and its documentation part

No run states these; they are what the models do where a reader of the documents
may expect something else.

* `runtime/templates/skill.md` says that the pending cleanup of a publication
  goes when the command is run again. A stop between `update-ref` and `switch`,
  then a foreign push: the rerun reports `publish_local_main_changed`, every time.
* Interrupted and foreign states of a scaffold migration are to stay
  recoverable. COMMITTED is removed first; if an edit then stops the cleanup, the
  rerun rolls a part of the committed upgrade back.
* A comment in `install_private` says that a captured file is put back if its
  name is free. The gate of the rename that puts it back does not accept the free
  name if the file was captured between gate and exchange.
* `kb:78` and the following lines ask for setup to be run again if the runtime
  is missing or damaged. A cached manifest that was cut short
  (`runtime_metadata.py:972` takes one `os.write` to write everything) is then
  found, not accepted and not replaced; so is an installation whose marker was
  not on the disk when the power failed (`setup-local:214` does not flush it).
  `RerunInstalls` excludes both (`Wedged`), and `TruthfulReport` the first.
* An installation is compared with its lock and its marker, and not with the
  files of the manifest: `0.2 again` in the instance is a manifest that lists
  fewer files than the archive installed before, and kb runs it
  (`SelectedIsLocked` says so).
* Two setups that create the private directories or the same manifest at the
  same moment: the one that comes second raises an uncaught `FileExistsError`
  (`MakeDirectories`, `LinkManifest`). Run again, it succeeds.
* A setup that finds its installation taken by another one does not flush the
  directory (`Install`), although the other may not have done so yet.
* `runtime_metadata.py:550-565` and `634-638`: Ctrl-C between the return of
  `Popen` and the `try`, or in the `finally` before its `killpg`, leaves git's
  session, the helper and Amp running. `bounded_output` cleans up after every other
  end of a call; `NoSurvivors` excepts the calls that were abandoned in these two
  windows, and no others.
* `runtime_metadata.py:755-756`: between the login through the executable and the
  digest that is recorded for it, another process may write into the file. If what
  it writes prints the same version, its digest is recorded, and kb trusts a build
  that never logged in: `lib/sync.ml:1008` compares the strings.
  `TrustedWasQualified` excepts what was written in this window (`slipped`), and
  says that nothing else leads there.
* `upgrade.ml:870` and `secure_fs.ml:101-105`: if the temporary directory of an
  archive's upgrade is made and cannot be opened, the command does not know it as
  its own, leaves it and reports a plain internal error; with the stage
  (`upgrade.ml:1099`) the report is uncertain. `ReportsTrue` does not speak of the
  first, since `MakeTemp` is one step. The name is random: nothing reads what is left.
* `publication.ml:1272-1279`: an abort is verified only if the paths of the
  conflict are in the baseline and those of the baseline are conflicts or
  `TODO.md`. The model asks whether stray edits were in the baseline (`strayBase`),
  and so verifies a few aborts that the code refuses.
* `runtime_metadata.py:608`: if the deadline passes between its test and the
  sleep, the sleep raises `ValueError` in the place of the timeout's message.

`RecoveryEnds` holds under `Untorn`, which excludes two places: a kill between
the creation and the writing of a marker, which every later recovery then
refuses as foreign, and a rollback by a `perform` that created COMMITTED and failed to sync it. That
rollback cleans up after itself; interrupted, it is taken for a committed one
that does not match.

Five more: a stop between the finished rebase and the
clearing of the recorded conflict leads to the refusal that otherwise means an
aborted rebase; edits made before the fingerprint of a conflict is taken become
its baseline, and the abort resets them; a `kb sync` that fetches the winner of
a race before `remote_before` is read makes a lost race a failed push; and a
sync between the preflight and the row read of a `get` turns a stale index into
`concept_not_found`; and a confirmation of the bridge that fails after the
message was forwarded makes it tell the owner that it was not (`queue.ts` has
one `catch` for both, `AfterConfirm` in `Bridge`).

## 4. Fairness

* `Publication.FairSpec`: a started run proceeds (a process is not suspended
  forever). The agent reruns the command in the form that the last report asks
  for, and resolves a conflict, as `runtime/templates/skill.md` instructs it.
  The sync after a refusal happens, and the owner returns to `origin/main` after
  a preservation. Pushes in flight end. Strong fairness is used where the
  environment can disable the action and enable it again. Nothing is assumed of
  other publishers; the race limit and the finite supply of foreign changes end
  the races.
* `Retrieval.RFairSpec`: started syncs and retrievals proceed (both have
  deadlines). Every clone starts syncs again and again with approval of
  deletions, and an operator clears an index without identity, which
  `docs/recovery.md` asks for. Reads are bounded by `MaxReads`: whether an
  endless sequence of readers could starve a sync past its 30 s statement
  timeout is not decided here.
* `Bridge.FairSpec`: Telegram redelivers what was not answered with success,
  every promise of the worker settles within its timeout, and a stopped process
  is started again.
* `Scaffold.FairSpec`: a started command proceeds, and the command is run again
  (what the reports "required" and "foreign" ask for). The owner need not act.
* `LocalWrites.FairSpec`: a started command proceeds, and somebody runs `kb todo`
  infinitely often among the writes: strong fairness, since another command
  disables it while it runs.
* `Upgrade.FairSpec`: a started command proceeds and the system writes
  directories back, upgrades are attempted again, and not every download is
  unsound. `Upgraded` is stated where no editor interferes.
* `Migration.FairSpec`: a command proceeds and so does its transaction, strongly
  where others can take the lock it waits for (PostgreSQL queues lock requests);
  the server ends the transaction of a lost client, other programs end theirs,
  and somebody with the complete checkout runs the command again and again.

* `RuntimeInstall.FairSpec` and `Enrollment.EFairSpec`: a setup goes on, and its
  owner runs it again when it has ended, well or not. Weak fairness of each
  setup's own steps suffices, since nothing another process does can disable
  them for good. That downloads succeed is not assumed but follows from the
  finite number of faults.
* `Command.CFairSpec`: a call that is alive takes its next step. The passing of
  its deadline is one, so this assumes that time goes on and nothing of git,
  Amp or what Amp leaves behind.

Faults are finitely many in all modules.

## 5. What is proved

| Module | Obligations | Theorems |
|---|---|---|
| `PublicationProofs` | 4,510 | as listed below |
| `IndexProofs` | 1,269 | `SyncInvariance`, `MatchesCheckpoint` (`[]IndexMatchesCheckpoint`), `NeverGoesBack` (`CheckpointAdvances`); among readers `RetrievalInvariance`, `MatchesCheckpointAmongReaders`, `ReadsOneTree` (`[]ReadsCapturedTree`), `CountsOnce` (`[]CountedOnce`) |
| `BridgeProofs` | 825 | `BridgeInvariance`, `TypeCorrectness`, `AdmittedOrder` (`[]InOrder`), `ForwardedOnce` (`[]AtMostOnce`) |
| `ScaffoldProofs` | 1,886 | `ScaffoldInvariance`, `TypeCorrectness`, `Atomicity` (`[]AllOrNothing`), `Truthfulness` (`ReportsTrue`), `OwnerFilesKept` (`ForeignKept`) |
| `MigrationProofs` | 1,331 | `MigrationInvariance`, `TypeCorrectness`, `SessionsClosed` (`[]OneSession`), `LedgerIsTrue` (`[]LedgerTellsSchema`), `LedgerExclusive` (`[]Excluded`) |
| `SetupProofs` | 2,008 | installation: `InstallTypes`, `LaunchesLocked` (`[]SelectedIsLocked`), `ReportsAreTrue` (`[]TruthfulReport`), `ValidOnesStay` (`PriorKept`); enrolment: `EnrollmentTypes`, `TrustIsEarned` (`[]TrustedWasQualified`), `EnrolmentLasts` (`[]EnrolledIsDurable`); bounded commands: `CommandTypes`, `NothingSurvives` (`[]NoSurvivors`), `SignalsItsOwn` (`[]OnlyOwnGroup`), `WholeAnswers` (`[]AnswerIsWhole`) |
| `UpgradeProofs` | 2,642 | `UpgradeInvariance`, `UpgradeTypes`, `InstallationWhole` (`[]TargetWhole`), `UpgradeReports` (`ReportsTrue`), `UpgradeForeign` (`ForeignKept`) |
| `LocalWritesProofs` | 2,788 | `WritesInvariance`, `WritesTypes`, `WritesRecoverable` (`[]AllOrRecoverable`), `WritesReports` (`ReportsTrue`), `WritesForeign` (`ForeignKept`) |

Every theorem is of `Spec` (`ESpec`, `CSpec`), without fairness, and for every value of the
constants that the assumptions of the module admit. TLC evaluates these in each
run, and every inductive invariant was checked by TLC on an instance first.

### Publication

`PublicationProofs` proves, for any sets of changes, threads and stamps and any
number of faults:

| Theorem | Establishes |
|---|---|
| `Invariance` | `Spec => []IInv` |
| `TypeCorrectness` | `[]TypeOK`, including the race counter's limit |
| `NeverLost` | `[]NothingLost` |
| `ForgetsOnlyDurable` | `ForgottenOnlyWhenDurable` |
| `ProvenOnlyAfterPush` | `[]ProvenWasPushed` |
| `NeverRepushes` | `ProvenNeverRepushed` |
| `PublishesOneCommit` | `[]OneCommitAhead` |
| `TodoAgrees` | `[]TodoAgreesOnMain` |
| `LogInvariance` | `Spec => []LogInv` |
| `ReportsAreTrue` | `[]TruthfulReport` |
| `Refinement` | `ImplementsKnowledgeLog`: every step is one of the abstract log, or none |

The assumptions are those of the module: own and foreign changes are disjoint,
`Clash` is part of the foreign ones, the race limit is positive, the fault bound
is a natural number, and
`None` is none of the values it stands beside. TLC evaluates them in each run.

None of these properties is inductive. `NothingLost`, for instance, allows any
relation between HEAD and the retained original, and a push from such a state
could publish the wrong commit. `IInv` adds:

* `Staged`: where a run can be, given the retained state, the rebase, the race
  counter and the preservation;
* `Following`: `origin/main` is never ahead of the remote, and what is on the
  remote is `durable`;
* `CheckedOut`: how HEAD, `main` and a rebase in progress fit together;
* `Carrying`: the run carries its own change and nothing else that
  `origin/main` lacks. This is the heart of the argument: it makes
  `OneCommitAhead` true and gives every push the right content;
* `Landed`: the steps after a push are reached only with the change on the
  remote;
* `Agreeing`: what is on `main`, may still land on it or is about to be pushed
  to it has the right `TODO.md`;
* `Accounted`: where each committed change that is not yet on the remote is.

The proof has lemmas about commits as sequences (prefix, append, replay), one
lemma per conjunct with one step per action, and groups the actions that leave
the remote or the tree alone (`LocalStep`, `StillStep`) so that they are
treated once.

The refinement and `TruthfulReport` are about what is still under way: a push
whose client has gone can land at any later moment, and the log must not get the
same change twice. `LogInv` adds to `IInv`:

* `Distinct`: no change is on `main` twice;
* `Pending`: what is retained is committed and has never been forgotten, and a
  request in flight carries one committed change;
* `Single`: at most one commit can still land, the one that is carried; if its
  change is on `main` already, so is that very commit. This is what makes a late
  push harmless;
* `Conflicted`: a publication that met a conflict cannot land before it is
  rebased, and none of its earlier pushes can;
* `Raced`: when a race is counted, it was lost for good, so that a change
  reported as exhausted never comes to `main`;
* `Arrived`, `Reported`: what the last steps, and the report, rest on.

`Refinement` then maps each step: `PushMain` and `FlightEnds` append the new
change, `PushRecovery`, `PushPending` and their late forms put it aside, a
foreign push is one of the abstract log, and every other step leaves both alone.

`TypeOK`, `OneCommitAhead`, `ProvenWasPushed` and `ProvenNeverRepushed` are
proved and in no run.

### The index and its readers

Assumed are `IndexAssumption` (each repository has a history of at least one
tree, each clone belongs to one; `None` is not a value) and
`RetrievalAssumption`. `IndexMatchesCheckpoint` is not inductive: a plan is made
from rows read earlier, and applied later. `SyncInv` adds `Sessions` (the
advisory lock belongs to the one open session), `Targets` (what a plan aims at is
a commit) and `Planned`: while its session lasts, the rows and the checkpoint a
sync has read are still those of the index, unless it has become another
repository's, and then `Apply` refuses. A sync whose session was lost is excluded
by the look `Apply` takes at it in its transaction. `Advancing` adds that nobody
rewrites `main`, so that a target is not before the checkpoint.

Readers change access counts only and never what `SyncInv` is about (`RInv`):
`HeldRows` is that a `get` holds the row it has read, `Snapshots` that a search
reads one state, `Checked` that what was read before the look at the checkpoint
is what the captured commit holds. `CountedOnce` relates the column of the
database with what gets were told: a step of a reader adds to both (`CountedBounds`
and the lemma of its action, for an answer that arrives and for the lost answer of a
COMMIT), a step of a sync keeps the count of a row it rewrites and drops both with a
row it deletes, by the cascade.

### The bridge

Assumed is `BridgeAssumption`, with its order of the two capacities. `Ordered`
says that admission numbers grow from the thread over the worker's job to the end
of the queue, so that appending keeps `InOrder`. `Accounted` counts the
admissions of an update that are in the thread or may still get there: one if its
id is remembered, and one more for each time it was forgotten. `AtMostOnce`
follows, as the thread holds some of these.

### Scaffold migration

Assumed are `EntryAssumption` and `NoneAssumption`. `AllOrNothing` speaks of the
end of a transaction only; `IInv` adds what holds within it:

* `Placed`: where a command is tells whether there is a directory, and its name;
* `Recorded`: one outcome is recorded at most, and a cleanup works for it;
* `Filled`: an entry has one new file at most, and what a cleanup has passed is
  empty. A directory is removed only when its slots hold nothing;
* `Before`: until the transaction is published, the old scaffold is there;
* `Doomed`: the difficult one. A rollback can begin after the new scaffold was
  recorded as the outcome, if an edit stopped the cleanup after COMMITTED was
  removed. It must not end well, for then both outcomes would be recorded.
  `Spoiled` entries, whose new file is in neither place, are why it does not: only
  an edit makes one, no step mends it, and the rollback comes to it later or has
  failed on it already.

Every way to stop (`Raise`, `Exit`) and every rename is treated in a lemma of its
own, and each action has one. `ForeignKept` follows: a rename conserves what is
held of an entry (`ExchangeFacts`), and a slot is emptied only of the file that
the outcome put aside.

### Local writes

Assumed is that the fault bound is a natural number; edits, failing calls and
crashes may come anywhere. A command can fail at each of its gates, with one target
installed and the other half way, and undoing can fail as well. What the three
properties say of its end therefore has to be known of every place before it:

* `Ordered`: which target a command is at, in which of its parts, and what is
  still to be taken back;
* `Sorted` and `Undone`: what each target has in the directory of the command,
  `held` and `aside`, on the way forward and on the way back. It follows that no
  step puts a file over one that is needed, nor removes any but the command's own.
  This gives `ForeignKept`: an exchange may catch a file of an editor anywhere, and
  it is moved on until it is back or left in the directory;
* `Recoverable`: where editors stay away, what is replaced is at its name or held
  (`Kept`), until all is installed. `kb todo` can still fail when it has removed the
  old file, and starts to undo with the new one in place;
* `Accounted`: a command that will report an error has a witness of every target,
  and the last step compares the targets with these. An editor can change a target
  at any moment, so that nothing could be said of the files themselves;
* `Shown`: the prepared `TODO.md` is made from the task the command has captured;
* `Counted`: there are as many files of editors as there were edits, at most.

The ways a part can end have a lemma each (`Failing`, `Landing`, `EndBad`,
`EndWell`, `GoingBack`), which the lemmas of the actions cite. `ReportsTrue` needs in
addition that nothing is reported while a command runs (`Unreported`).

### Runtime upgrade

Assumed are `FaultAssumption` and `NoneAssumption` (`None` is no tree); the files of
a release are any set. `TargetWhole` speaks of the present, but a power failure
makes an earlier state of the directory the present one. `Whole` therefore is about
`unsynced`, every state that may come back: in each of them the tree with the name
of the installation is complete and was flushed. A tree is only removed, file by
file, when no such state gives it that name: `Whole` excludes the old one while it
is removed, after the flush of the exchange, and the new one while that is, after
the flush of the exchange back. The other conjuncts are

* `Owned` and `Aimed`: what a command owns, why it removes a tree, whether it has
  verified the download, and what it is going to report;
* `Located`: a tree has one name at most, and those no longer owned have none,
  unless the report will be uncertain;
* `Undisturbed`: where editors stay away, the trees have the names the command has
  given them, and a certain report is about a directory that is on the disk;
* `Counted`: trees of editors, in any state that may come back, are no more than
  the edits there were.

`Labels` of the removal are entered for four reasons (`For`), each of which has its
own claim to the tree. `UpgradeReports` and `UpgradeForeign` are of one step each:
the last one of a run, and any of a run that was not killed.

### Connections and migrations

Assumed are `ConnectAssumption`, `CheckoutAssumption` (the complete checkout is a
sequence of at least one migration, the others are parts of it) and
`NoneAssumption`. `OneSession` needs `Linked`: what is open is exactly what is on
the list of what is to be closed. `LedgerTellsSchema` needs `Excluded` (who holds
the lock of the ledger's table, or has created it, is alone), `Staged` (where a
transaction may be, given its command, and that it validates under the lock) and
`Viewed` (what it is about to commit is consistent after each migration, not only
after the last). That nobody else commits between the validation and COMMIT is
what ties the view to what is committed then; `Create` and `Unblock` are the steps
where the lock does not exist yet and the index on table names stands for it.

### Installation

Assumed are `MetadataAssumption` (the target is supported, every runtime has the
three files the launcher looks for), `InstallAssumption` (the bounds are natural
numbers) and `ServedAssumption` (an accepted manifest names an archive that
somebody has made; without it a digest would stand for nothing).

`SelectedIsLocked` is not inductive: nothing in it says how an installation came
to its name. `IInv` adds `FromArchive` (an installation under a digest was
extracted from the archive with that digest, which was checked against the
manifest of some lock) and `Knows` (a setup that is about to install has checked
that archive, and what it flushes is there). The marker plays no part: it may be
lost, and what is accepted is then less. One lemma treats the steps that only
move a setup; the steps that change the manifests, the runtimes or everything at
once have a lemma each.

The second part adds what each setup has established by the place it has
come to (`Progress`): the lock and the manifest are accepted, the directories
exist, the installation stands, the manifest is cached. A setup passes these
checks once, so they have to survive the steps of all others: `Kept` is that
nothing but a power cut takes away a directory, a cached manifest or an
installation, or changes what they hold, and a power cut ends every setup. `Kept`
gives `PriorKept` as well.

### Enrolment

Assumed is `EnrollmentAssumption`: every build prints something, and there is an
inode. Writes may be as many as the bound of changes, which is any number. A record
is `Qualified` if kb could trust it, its digest being of a build that prints its
version, only when that build can log in or has slipped in. `EKnows` carries this
through a setup: from the login to the digest, what is in the open inode can log in,
or prints another version than the one the setup was told, or was written in the
meantime. While a setup holds an inode open its number is not given again, so that
renames do not matter. `EInv` says it of every record that a power cut may leave
(`disk`), since one of them is the record afterwards; `EnrolledIsDurable` follows
from the same set, because after a flush nothing older is in it.

### Bounded commands

Assumed is `CommandAssumption`, of which the limits matter. `Led` says that
until the group was killed its leader is not collected, so that the number is
the group's own, and that from then on the group is empty, unless the call was
abandoned by Ctrl-C without a kill; nothing starts in an
empty group (`Others`). `AnswerInv` says that the inner call waits for Amp, and
succeeds, only after its output has ended, and that nobody can write to it from
then on: a child of Amp inherits an output only from a writer (`StaysDrained`).
The content is a lemma about `ValidCredentialProtocol` (`Acceptable`).

### What is only model-checked

Every invariant and every action property of the runs is proved, and so is the
refinement. Liveness under fairness (`EverySettled`, `IndexCatchesUp`,
`RecoveryEnds`, `TodoRepaired`, `Upgraded`, `Migrated`, `RerunInstalls`,
`RerunEnrolls`, `Returns`) is beyond TLAPS and stays with TLC, as does any use of
ENABLED.

## 6. What is not modelled

* Parsers, validators and the command line keep no state between calls. Release
  tooling is sequential; `runtime/templates/skill.md` is used for what the agent
  does.
* Of the Python tool: the JSON reader and its limits, the checks of owners,
  modes, link counts and symbolic links, `source_repository`, and the directories
  of the enrolment. They refuse a state that somebody else has made and have no
  effect. What crashes leave behind (`.manifest-*`, `.setup-*`, `.clamp-exec-*`)
  is read by nothing. The OCaml parser of the same files, `runtime_metadata.ml`.
* Of the templates: the checks of the checkout before the lock is read, the
  report about credentials, the cloud setup and `resume`.
* The file-system primitives appear as atomic steps of the modules that will
  use them. Initialisation is one rename of a staged directory.
* Single-concept writes, the embedding client's retries, the connection to a
  local cluster, the process runner of `sync.ml`, the bridge's media store and
  reminder tool: see the plan.
* Three stops of publication end in a documented refusal for which no run
  exists: between `create_state` and detaching HEAD (a later abort is refused),
  between `rebase --abort` and `switch main` (the abort cannot be verified), and
  between `commit_managed` and `create_state` (the commit stays unpublished on
  `main`). They are behaviours of the model, and `NothingLost` covers them; what
  is not stated is a claim they would contradict. Nor does `publish_live`
  include crashes, since these stops need a human's repair.

## 7. Plan

Done: `KnowledgeLog`, `Publication`, `IndexSync`, `Retrieval`, `Bridge`, `Scaffold`,
`LocalWrites`, `Upgrade`, `Connect`, `Migration`, `RuntimeMetadata`,
`RuntimeInstall`, `Enrollment` and `Command`, each with its proofs. Next, in this
order:

1. The embedding client's retry of paid requests under one deadline.
2. The bridge's media store and reminder tool, and the single-concept write of
   `local.ml`.

No theorem about the properties of the runs is left to add, except for liveness.
