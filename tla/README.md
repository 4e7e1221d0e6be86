# A verification development for DSM Pass

DSM Pass lets users of an identity provider (WeCom, Feishu, DingTalk) log in to a
Synology DSM. A backend speaks OAuth and synchronises the directory; a privileged
Helper changes DSM accounts. DSM offers no login without a password, so the Helper
*lends* one: it writes a one-time hash into the account's row of `/etc/shadow`, lets
DSM (or the user's browser) log in with it, and puts the permanent hash back. That
must be right under concurrent logins, password changes, disabled accounts, failed
writes and kills. It is the heart of this development.

Paths below are under `src/go/internal/` unless they say otherwise.

## 1. Inventory

| Component | State it keeps | Operations | Hard behaviours | Correct when |
|---|---|---|---|---|
| Helper login, journals, recovery (`helperserver/relay.go`, `journal_store.go`, `account_recovery.go`, `startup.go`) | journal file per request, active index per account, `completed/` archive, shadow rows | relay login, browser login, completion, TTL, recovery scan, first pass after a start, pruning | every step is a disk write that may be the last; concurrent logins and callbacks; retries | no permanent password is lost, no temporary one stays, one lease per account |
| Helper locks (`account_lock.go`, `shadow_system_lock.go`) | `flock` files: account, project writer, DSM's `lock_pw`, instance, control | take with time-out, release | lock order, a native child that locks what its parent holds | exclusion, no deadlock |
| Permanent reset (`sync_password.go`, `password_reset_state.go`) | record per request, marker per account | reset | duplicate, late and killed requests; a native command with unknown result | no old password is put back, no login while unconfirmed |
| Account and group commands (`account_commands.go`, `group_commands.go`) | DSM's accounts | provision, disable, groups | meets a lease on the account lock | a disable is never undone |
| Account policy (`account_policy.go`, `account_migration.go`) | root's grants, bound to UIDs | authorize, revoke, migrate | account deleted and created again under its name | only granted accounts are touched |
| Shadow store (`shadow_store.go`, `shadow_password.go`) | `/etc/shadow` | compare, write aside, rename, verify | writers that ignore the lock | the row is replaced whole or not at all |
| RPC server (`server.go`, `authorization.go`) | nonces, readiness | dispatch, replay check | not ready until the first pass has ended | no call runs twice or too early |
| Helper control (`control.go`, `upgrade.go`, `install.go`, `uninstall.go`, `../helperupdate`) | PID record, installed files, backup | start, stop, upgrade, roll back, uninstall | kills between files, a record of a dead process, old instance with open journals | one instance; nothing replaced over an open journal; a failed upgrade leaves the old one |
| Client and signing (`helperclient/`, `signing/`) | none | signed request, time-outs | time-out racing a late answer | a request is accepted once in its window |
| OAuth flow (`backend/relay_handlers.go`, `oauth_state.go`) | pending states in memory | launch, callback, completion | two callbacks, expiry, several tabs | a state is consumed once, by its browser |
| Directory sync (`backend/sync_handlers.go`, `scheduler.go`, `source_reset.go`, `../syncsvc`) | SQLite: accounts, mappings, members, runs | manual and scheduled sync, full sync, cleanup | transaction, then DSM calls one by one; several sources | database and DSM agree after a run that succeeds |
| Identity mapping (`identity/`) | identities, accounts, links | resolve, create, mark conflicts | reserved and duplicate names, people of several sources | one DSM account per identity, a shared one kept while somebody has it |
| Administration, settings (`backend/`, `settings/`) | settings rows, sessions | CRUD | little | - |
| Providers (`provider/`) | tokens | list departments and people, exchange codes | pages, an organisation that changes while it is read | what is read is the organisation; the walk ends |
| Storage, logs, certificates, start-up, frontend, packaging | - | I/O | - | - |

How they meet: the browser calls the backend; the backend calls the Helper over a
Unix socket with a signed request; the Helper asks the backend's database again
whether the account may be touched; Helper threads, root's policy commands and the
recovery goroutine meet on file locks; DSM's own tools meet the Helper on `lock_pw`.

## 2. Plan

In order of what would hurt most.

| Module | Composes | Status |
|---|---|---|
| `LoginJournal` - the lending of a password | implements `PasswordLease` | done, section 3 |
| `PasswordReset` - permanent resets and the run that makes them | | done, section 4 |
| `IdentityMapping`, `DirectorySync` - tables, transaction and runs | `DirectorySync` extends `IdentityMapping` | done, section 5 |
| `DirectoryFetch`, `SourceSync` - the providers' walks inside a run | `SourceSync` = `DirectorySync` + `DirectoryFetch` | done, section 6 |
| `LoginFlow` - OAuth states and authorization | `LoginFlow` = logins + `DirectorySync` | done, section 7 |
| `HelperControl` - start, stop, upgrade, rollback, uninstall, install | | done, section 8 |
| `AccountPolicy` - grants and migration across a change of UID | | left |
| `ShadowStore` - comparison and rename against a writer without lock | | left |
| `AdminSession` - administrators' sessions and initial passwords | | left |

Each module has its proofs beside it: `LoginJournalProofs`, `PasswordResetProofs`,
`HelperControlProofs`, `MappingProofs` and `DirectorySyncProofs` (with `Folding`, what holds
of a loop over a list), `SourceSyncProofs`, `LoginFlowProofs`. Left for proof:
`StayersStayMapped` of `SourceSync`. Its plan: what a snapshot holds of those who stayed is
`SourceInvariant`; to follow from it through `CommitMappings` and `RetireAndList` needs
that no other source's step changes this source's rows, and, over the walk of `Folding`, that a
person's row is written by that person's step alone.

## 3. The core: LoginJournal

### Modules

- `LoginJournal.tla` - state, actions, `Spec`, `FairSpec`.
- `LoginJournalProps.tla` - properties, refinement mapping, inductive invariant.
- `PasswordLease.tla` - the abstract promise: a row is lent to one login at a time
  and given back.
- `MCLoginJournal.tla` and `Login*.cfg` - instances for TLC.
- `LoginJournalProofs.tla` - proofs.

A definition whose comment begins with "Broken" is not part of the model. It is a
plausible mistake; put in place of the definition that follows it, it makes the
property named in `PROJECT.json` fail.

### State and code

| Variable | Code |
|---|---|
| `account` | passwd and shadow row: existence, UID, hash, `!` lock, expiry mark, administrator |
| `policy` | `AccountPolicyPath`: the UID root bound the name to |
| `marker` | accounts whose password-reset record is not `completed` |
| `journal` | `<request>.json`, flat or in `completed/`: status, account, permanent hash, UID, whether an attempt failed |
| `index` | `active-index/<account>.json` |
| `expired`, `backoff` | `expires_at` against the clock, `next_recovery_at` against the clock |
| `proc` | each goroutine: its step, operation, account, request and what it has read |
| `pass`, `ready` | the recovery goroutine's scan; the not-ready gate |
| `reply` | the answer to the last login call of a request |
| `secret` | ghost: the permanent hash last set by owner, administrator or reset |
| `faults`, `edits` | bounds |

A journal status of the model is the code's without the suffix `_login`. The statuses
`failed`, `conflict` and `unresolved_browser_login` are only written by or for older
releases and are not modelled.

### Actions and code

A login goes through `LoginCall`, `LoginEnters` (account lock, authorization, lease),
`ReadOriginal` (system lock, row), `AddToIndex`, `WriteJournal`, `SwapIn`, `Activate`
(second save) and, for a relay, `DsmLogin` with the account lock alone. `LoginRepeated`
is the second call of a request whose lease is active. A restore, whoever asks for it,
goes through `MarkRestoring`, then one of `RestoreRefused`, `RestoreKeeps`,
`RestoreSwaps`, then `FinishJournal`, `Archive`, `RemoveFromIndex`; a failure is noted
by `RecordFailure`. A failed preparation restores at step `undo`, still under the system
lock. `MutationEnters`, `Native`, `ResetMark`, `SetPassword`, `ResetDone` and
`PolicyChanges` are the other operations on the account. `PassBegins`, `PassTakes`,
`TidyArchive`, `TidyUnindex` and `PassEnds` are the scan.

Every durable write is one step with three outcomes: done; failed without effect; failed
although it took effect (the rename happened, the directory sync did not). `Killed` may
come between any two steps.

Locks are not variables. A thread holds the account lock while its step is in
`AccountPcs`, the system lock in `SystemPcs`; a killed process holds none, which is what
`flock` gives.

### Abstractions worth knowing

- The project writer lock and DSM's `lock_pw` are one lock. A direct shadow write holds
  both; a native command's parent holds the first and its child takes the second. A reset
  keeps the project lock from its marker to its end in the code but not here, so that the
  model allows more interleavings than the code.
- After a failed preparation the code records the failure before it lets go of the system
  lock, the model after. Both keep the account lock.
- A kill stops the policy command of root too. The code could lose only one of the two
  processes; the command is then a thread whose account lock stays taken a while longer.
- `MarkRestoring` writes index and journal in one step: the index has the entry already.
- The index entries of a pass are read at its start; the code reads each account's when it
  comes to it. A stale entry is checked against its journal either way.
- The TTL goroutine runs the same function as a completion; one operation stands for both.
- A lock that is taken may be waited for in vain (`AccountBusy`); a system lock may also
  be held by other accounts or DSM for its whole time-out (`SystemBusy`, counted as fault).
- Journals of releases without a fingerprint, and the indexing of flat journals, are left out.
- A record is pruned after a week in `completed/` (`Prunable`); an operation or a failed
  index write that lasts a week is not considered.

### Runs

| Run | Instance | What it shows |
|---|---|---|
| `login_crash` | one account, two requests, two threads, one fault | the inductive invariant of the proofs; recovery material precedes every temporary hash; one lease; scan, answers and temporary passwords respect the lease |
| `login_accounts` | one account, one request, two permanent passwords, all operations, one fault, two edits | permanent passwords, marks and verdicts survive every interleaving; the code implements `PasswordLease` |
| `login_liveness` | one account, one thread and the scan, two faults, one edit | temporary hashes leave, calls return, the Helper opens |
| `login_dangling_index` | one fault | violation: index entry without journal |

Two threads and the scan are enough for every pair of actors that can meet on an account,
and a third would only wait. One fault is one kill, one failed write or one time-out; two
of them (a failed write, then a kill) are in `login_liveness`. Two edits let an account be
deleted and created again, or a password be changed twice under one lease. Everything
beyond these bounds is covered for the safety properties of section 9 by the proofs.

Symmetry (`Interchangeable`) is used in the safety runs only: nothing in the specification
tells accounts, threads, requests or passwords apart.

Fairness is weak and per thread: a goroutine that can step does, because the Go scheduler
runs it and its waits end; the ticker of `runRecoveryLoop` fires; clocks pass `expires_at`
and `next_recovery_at`. Nothing is assumed of callers, administrators, failures or DSM's
answer to a login. `TempIsRemoved` uses only the scan.

### What the violation means, and an observation

- **Index before journal** (`login_dangling_index`). `saveJournal` indexes a request before its first journal
  exists. A kill in between leaves an entry nothing removes: from then on every login,
  reset, provision and disable of that account is refused, and the scan only reports it.
  The order is right for safety (see `LentIsRecoverable`); what is missing is a clean-up
  of entries that have no journal and hence no temporary hash.
- **Scan against owner** (seen while modelling, no run). The scan archives a finished record
  it finds in place without the account lock (`relay.go:384-403`). When its owner is just
  about to do so the owner's rename fails (`journal_store.go:94`), and a login that succeeded
  and was restored is answered as failed, although `docs/testing.md:97-98` says that
  completion and scan meet under the account lock. No password is at risk.

## 4. Permanent resets: PasswordReset

A full synchronization gives every account of its source the source's initial password.
DSM keeps a password in two stores, and its command sets one after the other, so that a
kill leaves them different. The Helper cannot roll that back; it writes down what it is
about to do and refuses logins until it knows the command has succeeded.

`PasswordReset.tla` holds the backend's run, the call, the Helper and the command;
`PasswordResetProps.tla` the properties and the inductive invariant; `MCPasswordReset` and
`Reset*.cfg` the instances; `PasswordResetProofs.tla` the proofs.

| Variable | Code |
|---|---|
| `granted` | database: the sources through which an account is in force (`SyncedPasswordResetAllowed`) |
| `store` | the account's password in DSM's two stores |
| `record` | status in `password-resets/requests/<request>.json` |
| `current` | `password-resets/<account>.json`: request and status |
| `issued`, `args`, `run` | `resetFullSyncPasswords`: request IDs, their arguments, accounts left and errors so far |
| `inbox`, `answer` | the socket: calls sent, what they were told |
| `proc` | each goroutine of the Helper: its step and request |
| `cmd` | the process group of `synouser --setpw`: alive, stores it has not written yet |
| `started`, `done`, `stray` | ghosts: starts and successes of commands, accounts a command of a dead Helper may still write |

`BeginFull`, `NextAccount`, `HearsAnswer`, `TimesOut`, `RunAborts`, `RunEnds` are the backend.
`Deliver` (or `DeliverAgain`: a request that arrives once more after its sender stopped
waiting) takes the account lock with `Authorized`, the project lock with `ReadHistory`.
`WriteRequest`, `Mark`, `StartCommand`, `CommandSucceeds` or `CommandFails`, then `Complete`
and `Confirm`, or `RecordUnknown` and `MarkUnknown`, are `applyPermanentPassword`, one step
per durable write. `CommandWrites` and `OrphanEnds` are the command, which goes on when
`Killed` ends the Helper. `Refuse` stands for every way a call ends before the history is
read: a lock not had in time, the database, a lease, root's grant.

Abstractions: a source has one initial password, so that the source stands for it; requests
are numbered in the order they are made; passwords their owners change, and leases, are in
`LoginJournal` and not here; in turn `LoginJournal` has no command that outlives its Helper
except as an edit by an administrator. The backend takes its accounts in any order.

| Run | Instance | What it shows |
|---|---|---|
| `reset_crash` | an account shared by two sources, two runs, two goroutines, two faults, two changes of the database, one request again | no request sets a password twice; a completed marker and a login that is let through can rely on the stores; success is durable |
| `reset_liveness` | two accounts of one source, two goroutines, one fault | the inductive invariant; a run that ends as a success has confirmed every reset it asked for; runs end |
| `reset_orphan` | as `reset_crash` with one goroutine and one fault | violation: a killed Helper's command rewrites an older password |

Two sources are what it takes to have an older and a newer password, two goroutines what it
takes to have a late request meet its successor; two faults are a time-out and a kill, or
two kills; two changes give the account to another source and back, without which a late
request would be refused. A fault is a kill, a failed write, a failed command, a time-out or an abandoned
run. Fairness is weak, per run, goroutine, request and command: goroutines run, the socket
is served, the command ends (the Helper kills it after twenty seconds; in the model it also
may fail, which is not assumed). Nothing is assumed of retries, failures or new runs.

**The violation.** The command runs in a process group of its own and only the Helper's
20-second context ends it. Killed in between, the Helper leaves it running without any
lock of the Helper's. The next Helper serves a newer full synchronization, marks it
completed, and the old command then writes the old password. The properties about markers
and logins therefore except accounts in `stray`, and hold for all others; a newer command
that starts when no orphan is left takes the account out of `stray` again.

## 5. Directory synchronisation: IdentityMapping and DirectorySync

A run of a source reads the directory, writes identities, accounts, groups, members and
mapping entries in one transaction, and then works through lists that it reads from the
database: groups, users, members, missing users. `syncRuns` lets one run or cleanup hold a
source; different sources run side by side and share accounts and groups of one name.

`IdentityMapping.tla` is the database half, as operators on one record of tables;
`DirectorySync.tla` the runs, administrators and the platform; `DirectorySyncProps.tla` the
properties; `MCDirectorySync` and `DirectorySync.cfg` the instance; `Folding.tla`,
`MappingProofs.tla` and `DirectorySyncProofs.tla` the proofs.

| State | Code |
|---|---|
| `db.ext`, `db.acc` | `external_accounts`; `app_identities` with its `dsm_accounts` row (created and deleted together, so one id) |
| `db.unit`, `db.grp`, `db.mem` | `provider_groups` with its link, `dsm_groups`, `group_members` |
| `db.umap`, `db.gmap`, `db.mmap` | `dsm_mapping_entries` of the three types |
| `fresh` in a row | `updated_at` against `syncStart`: `CURRENT_TIMESTAMP` counts seconds, so a run may begin in the second in which its rows were written (`StartRun`) |
| `db.spent` | the ids of deleted rows: a UUID is never given again |
| `src` | `identity_sources`: on (`enabled`, `login_enabled` and `directory_sync_enabled` in one), off, deleted |
| `dsmUser`, `dsmGroup` | accounts and groups of DSM |
| `run` | the goroutine that holds the source: phase, list, call under way; `crossed`: another source's transaction has committed since the list was read |
| `due`, `record` | `autoSync` against the interval; the latest row of `sync_runs` |
| `banned`, `renamed` | ghosts: login bans; names changed while a run's list held the old one |

`StartRun`, `ReadDirectory`, `ListMembers`, `CommitMappings` (all of `SyncProvider`: users, departments,
members, retirement, final members), `RetireAndList`, `ProvisionGroup`, `AuthorizeUser` and
`ProvisionUser`, `AddMember`, `MembersDone`, `DisableUser`, `FinishRun` are a run;
`RunAborts`, `GroupFails`, `UserFails`, `MemberFails`, `DisableFails` its ends on the way.
`BeginCleanup` to `CleanupDelete`, `DeleteSource`, `SwitchSource`, `SetLogin`,
`SetUsername`, `SetGroupname`, `ProvisionAccount`, `ProvisionDSMGroup`, `ProvisionMember` are
the administrators. A Helper call's authorization is a step before its effect for users,
where the code checks it before the account lock.

Abstractions: names are members of a small set, so that the cleaning of display names is in
the constants; a conflict's placeholder name carries the id; the password phase of a full
synchronisation is `PasswordReset`. A snapshot's users come in any order (the code ranges
over a Go map). DSM's group members are not kept: the code never removes one, it only marks
the row.

A snapshot with departments and nobody active is a case of its own (`sync.go:217-228`): the
transaction asks the platform again for the members of each department that has a group and
no conflict (`AskedUnits`), maps whomever it names, suspended or new, if they have an account
(`MapMembers`), and fails as a whole if one department is not answered for. `ListMembers` is
one such answer, kept in `told` of the snapshot; `CommitMappings` waits until there is one for
each. A department is answered for in one moment, its pages and details included; of the
platforms, `SourceSync` says which departments they answer for (`Listable`). While the
platform is asked, SQLite's write lock keeps others from writing; the model lets them write,
so it has more interleavings than the code.

`ProvisionAccount`, `ProvisionDSMGroup` and `ProvisionMember` are one step each, although the
Helper is called between reading the row and writing its status (`dsm_handlers.go:533-627`):
another administrator's rename or a run's transaction during that call is not modelled, and
`CreatedExists` says nothing of it. Runs, which make the same calls, have the two apart.

Run `directory_sync`: two sources that share a person; the second lists somebody else of the
same name; both have a department of one name; three of one change of the
directory, one order, one failure and one further interval, or a restart with a change and a
failure (`MCBudget`). It takes two sources to share or cross, two people of one name in one
source to collide, and one order or failure between any two steps. The first source's Ana may
stay, leave or be suspended; in the last two cases the members are asked for again (a
suspension comes alone here, and with a restart in `source_sync`). The same instance with two orders and without
failures and restarts was explored once as well (3.2 million states) and holds; it is too
long for a regular run.

The properties except exactly two races that the code has: a list of missing or owned users
is read, and before the last of them is disabled or deleted another source's transaction
maps one of them (`crossed`), or an administrator gives a name of the list to another
account (`NamesCurrent`; the Helper is called with the name alone).

What reading the code for this model showed besides:

- Every run sets `allow_login = 1` for each active user it provisions
  (`sync_handlers.go:407`), so that a user-level ban, which `README.md:39` lists as
  supported, lasts until the next run.
- A restart, or a failing `BeginTx`, leaves the row of `sync_runs` at `running` for ever.
- When nobody in a directory is active any more, but departments are, the members are those
  the platform names (see above): suspended people who have an account then keep, or get,
  active group members, while their login is retired. No document says either.
- A cleanup that fails half-way leaves users disabled until the source's next run.

## 6. Reading a directory: DirectoryFetch and SourceSync

`DirectoryFetch.tla` has the three providers' `ListUsersAndGroups`, one answer of the
platform per step: WeCom's department list, members, and without a visible department the
application's scope or the id list and the details; Feishu's tree and members in pages;
DingTalk's tree, ids in pages, details once. `SourceSync.tla` puts the walk into the `fetch`
phase of `DirectorySync`; the organisation may change between any two answers.

| State | Code |
|---|---|
| `platform` | external: which provider, whether its page tokens are stuck, whether it tells a person's departments |
| `fetch` | the locals of the walk: queue of departments, page token and `seenCursors`, ids, users so far |
| `moved` | ghost: people whose place changed since the run began; all of them when a department did |

An order that a platform chooses freely is any order: the departments of a list, the children
of a department. People and their ids are read page by page in the platform's order, and
kept as sets, since the clients keep them in maps.

`ReadExactly` compares the snapshot with a reference definition of the organisation
(`Found`, `Listed`, `Seen`), when nobody moved meanwhile; `StayersStayMapped` says that who
did not move is not retired, whoever else did; `LeaversUnmapped` that who has not been listed
since the run began comes out of every mapping older than the run, also when the members are
asked for again, at a moment later than the snapshot. `RunsFinish` and `DepartedLosesLogin` are
liveness.

Run `source_sync`: one source of each kind, one with stuck tokens; two people, a department
below the root, pages of one entry, so that every list of two has two pages; at first both
are active or both suspended; one change while it is read, one restart, scheduled runs without end. Fairness: the ticker fires; every
HTTP request and Helper call has a time-out, so the goroutine goes on; and infinitely often
a scheduled run starts in a later second than the one before wrote its rows, which holds
because intervals are minutes. Nothing is assumed of administrators or failures. The commit
is fair through `LeaveMap`, the part of `CommitMappings` without its large successor and
without the wait for answers: before a commit there are finitely many answers, each of which
is there to be given or fails the run.

Facts the model keeps and the properties except: a person who moves between departments
during a walk may be missed and is then retired until the next run (`moved`); Feishu's client
reads no status and takes everybody listed for active (`Seen`).

## 7. Logins through a source: LoginFlow

`LoginFlow.tla` runs beside `DirectorySync`: while a callback looks up person, account and
authorization, one query after the other, the tables change.

| State | Code |
|---|---|
| `states` | `Server.states` under `stateMu`: source, browser (the hash of the cookie's nonce), expired |
| `jar` | the cookies of the browsers, one per launch |
| `req` | each callback: its step and what it has read |
| `begun`, `passed`, `over` | ghosts: who launched a state, which have let a callback through, which have ended |

`Launch`, `StateExpires`, `Callback` (`consumeOAuthState`), `Exchange`, `ResolveExternal`,
`ResolveAccount` (`ResolveAuthorizedLogin`, two queries), `AuthorizeLogin`
(`HelperAccountAllowed`, in the Helper), `LoginEnds`, `CallbackFails`; `Beside` says what a
step of `DirectorySync` does to logins: a restart forgets states and callbacks. The code
exchange names any person of the source. A callback may come from any browser, for any
source, again and late.

Run `login_flow`: two browsers, two states, one callback at a time, one source whose person
leaves and is followed by another of the same name, one order, one restart. Two states make
two tabs, two browsers a foreign callback. Callbacks meet only in `states`, under one mutex,
and in the database, which they do not write, so one at a time is enough. Browsers and
states are symmetric. The system may stop: callers need not come.

`LoginIsOwn` is about the Helper's own query: what the backend has looked up may be stale by
then. The database is not asked again between that query and the lending of the password;
`LoginJournal` covers what then happens. The query asks for identity and source, not for the
person. With two sources there is a case the property therefore leaves open, found with TLC
on an instance of its own: an identity that another source shares outlives the cleanup of
the first source's data, and if a new person of the same name is linked to it between lookup
and query, the old callback passes. The property holds as long as the external account the
callback found still stands.

## 8. Process control: HelperControl

`HelperControl.tla` has the controller's actions (start, stop, restart, upgrade with backup
and rollback, uninstall, purge), the root installer and the Helper process, one file or
process step at a time.

| State | Code |
|---|---|
| `files`, `backup`, `package` | installed binary, controller and sudo rule; `previous-helper`; the package's payload; as version numbers |
| `proc`, `record` | the Helper and `helper.pid`, which names it by PID and start time, so that the record of a process that ended names none, and a PID that is used again is taken for no Helper; a process of the same PID and start time is not represented |
| `lock` | `helper.instance.lock`, held by Helper, controller or installer |
| `open` | some account has a temporary password or an open journal |
| `ctl`, `queue` | the action that holds `control.lock`, with its version, saved files and loop; the controller that waits for it and runs the binary that was installed when it was started |
| `inst` | the root installer, which takes only the instance lock |

`Queue`, `Leave`, `Begin` are the entry; `Spawn`, `WriteRecord`, `AwaitHealth` are
`startPrivilegedHelperVersion`; `Terminate`, `Recover`, `RestartAfterAbort` are
`stopPrivilegedHelper`; `BackUp`, `TakeLock`, `Write`, `Release`, `Restore`, `AfterRestore`
the upgrade; `Clear`, `RemoveFiles`, `Removed` the uninstall. `HelperServes`, `HelperGivesUp`,
`HelperWorks`, `HelperDies` are the Helper; `ControlDies` and `PowerFails` end processes
anywhere, with one exception: a controller killed between exec and `helper.pid` dies only
once its Helper has its lock, or is gone.

Run `helper_control`: two versions, two faults (a failing file operation, a time-out, a death
or a loss of power each), which gives an upgrade that fails and a rollback that fails too.
Two versions are an upgrade. An installer that comes while an action runs marks it `crossed`,
and a rollback that could not restore every file `torn`; both are in the code's answers or
outside its lock, and the properties except them.

**The violation** (`helper_rollback`). A comment and the packaging notes say that a stop that
is given up brings the Helper back. Before a rollback it does not: the new Helper has served
and lent a password, the write of `helper.pid` fails, the rollback's stop cannot restore that
password, and the restart waits for the *controller's* version while the new binary is
installed; the new Helper answers with another version and is killed. The Helper stays
offline with a password open until a new start.

Seen while modelling, without a run:

- A controller that waited up to three seconds for `control.lock` behind an upgrade runs the
  old binary; its restart waits for the old version and ends the new Helper
  (`AbortedStopRestarts` and `UpgradeServes` speak of the version a controller has).
- An upgrade killed between controller and rule is taken for done on the next try, with the
  old rule (`upgrade.go:38-43`), which the second half of `UpgradeServes` therefore excepts.
- A retry after an incomplete rollback overwrites the only whole backup.
- An upgrade killed between binary and controller is refused until root installs again.

## 9. What is proved

### LoginJournal

For every set of accounts, requests, passwords and threads and every bound, from the two
assumptions `ConstantsApart` (temporary, permanent and absent values differ; the scan is
not a serving thread) and `BoundsAreNumbers`:

| Theorem | Module | States |
|---|---|---|
| `TypeCorrect` | LoginJournalProofs | `Spec => []TypeOK` |
| `Recovery` | LoginJournalProofs | `Spec => []RecoveryInvariant` |
| `LentStaysRecoverable` | LoginJournalProofs | `Spec => []LentIsRecoverable` |
| `PermanentStaysKept` | LoginJournalProofs | `Spec => []PermanentKept` |
| `LeaseStaysSingle` | LoginJournalProofs | `Spec => []OneLeasePerAccount` |
| `ResetStaysExclusive` | LoginJournalProofs | `Spec => []ResetExcludesLease` |
| `OrderKept` | LoginJournalProofs | `Spec => []LeaseInvariant` |
| `ScanStaysPatient` | LoginJournalProofs | `Spec => []ScanHonoursLease` |
| `VerdictStaysFinal` | LoginJournalProofs | `Spec => VerdictIsFinal` |
| `TempStaysLent` | LoginJournalProofs | `Spec => TempOnlyWhileLent` |
| `SessionsAreRestored` | LoginJournalProofs | `Spec => SessionMeansRestored` |
| `MarksAreKept` | LoginJournalProofs | `Spec => MarksStay` |
| `LoginImplementsLease` | LoginJournalProofs | `Spec => ImplementsLease` |

None of the four after `Recovery` is inductive alone. A journal is written from what a thread read
earlier, so one must know that the reading still holds (`ReadHolds`), which holds because
no one else can write the row meanwhile (`Exclusion`), which needs the account of every
operation (`OperationsNamed`). A restore writes what its journal says, so the journal must
still be live and its account's (`OwnsWork`), which needs that a login has found the
account without lease (`HasItAlone`), which rests on every live journal being indexed
(`JournalsSound`). `RecoveryInvariant` is their conjunction with the state of the disk
(`DiskSound`). The proof goes action by action; for each it shows what happens to the disk
and to the moving thread, and that the other threads' facts are not disturbed: a thread
under another account's lock, or without the system lock, relies on nothing that changed.

The action properties and the refinement need a little about the order of steps besides,
`LeaseInvariant`: the row a login is to write is not locked
(`RowUnlocked`), nobody restores a lease that is still being prepared (`LeaseFresh`), native
commands and scans come from the operations they belong to (`TasksRouted`), and what made a
scan take a journal stays so while it works on it (`ScanTakesDue`). `LoginImplementsLease`
goes write by write: every step that writes an account's row lends, gives back, marks or
creates, or is an edit, and maps to the step of `PasswordLease` of that name; every other
step leaves the row, and with `RecoveryInvariant` what the mapping reads of the journals,
as it is.

### PasswordReset

For every finite set of accounts, every set of sources and goroutines and every bound, from
`ResetConstants` (the accounts are finitely many, so that requests can be numbered; the
absent values are no accounts, sources or passwords):

| Theorem | States |
|---|---|
| `ResetInvariantHolds`, `TypeCorrect` | `Spec => []ResetInvariant`, `Spec => []TypeOK` |
| `StartedAtMostOnce` | `Spec => []AtMostOnce` |
| `ConfirmedMarkers` | `Spec => []ConfirmedIsSet` |
| `LoginsAreSafe` | `Spec => []LoginsWait` |
| `SuccessesAreDurable` | `Spec => []SuccessIsDurable` |
| `SuccessfulRunsConfirm` | `Spec => SuccessfulRunConfirms` |

What a marker says of the stores is not inductive: it depends on which commands run. A
command that is not stray is waited for by a goroutine (`MarkerKnows`), of which there is one
in `applyPermanentPassword` (`OneWriter`), which knows the marker to be its own
(`StepKnows`); so no second command writes the account, and what the goroutine has seen of
history and command agrees with the files (`HistoryKnows`). The last theorem adds `RunsKnow`:
until a run has failed, the history has completed all it asked for but the request it waits
for; a completed request stays completed (`HistoryKept`).

### HelperControl

For every number of versions and faults, from `ControlAssumption` (they are numbers):

| Theorem | States |
|---|---|
| `ControlIsSound` | `Spec => []ControlInvariant` |
| `FilesWrittenWhenQuiet` | `Spec => FilesOnlyWhenQuiet` |
| `FailedUpgradesRestore` | `Spec => FailedUpgradeRestores` |
| `UpgradesServe` | `Spec => UpgradeServes` |
| `AbortedStopsRestart` | `Spec => AbortedStopRestarts` |

Two arguments meet. Who holds the instance lock is known from where everybody is
(`LockKnown`); with it the points from the stop on are quiet without being asked again
(`Quiet`), since a Helper needs the lock and an account can only be opened by a Helper that
serves. And at each step of an upgrade the files are known: `Behind` says which of them
the loop has written (`UpgradeKnown`), unless an installer came between (`CrossedKnown`).
`AbortKnown` does the same for the restart of a stop that is given up. `StartEnds` and
`OtherEnds` say by which steps an action can end, and how.

### DirectorySync

For any sources, people and departments (finitely many), any names, directories, policies
and bounds, from `MappingAssumption` and `SyncAssumption` (tables of names are functions,
absent values are no values, a placeholder is no name) and the hypothesis
`~IsFiniteSet(Ids)`, which says that UUIDs do not run out:

| Theorem | Module | States |
|---|---|---|
| `SyncProviderKeeps` | MappingProofs | one transaction keeps the tables `Sound`, adds only, and settles members |
| `SyncIsSound` | DirectorySyncProofs | `Spec => []SyncInvariant` |
| `DatabaseStaysSound` | DirectorySyncProofs | `Spec => []DatabaseSound` |
| `NamesStayDistinct` | DirectorySyncProofs | `Spec => []NamesDistinct` |
| `CreatedIsThere` | DirectorySyncProofs | `Spec => []CreatedExists` |
| `MappingsSettleMembers` | DirectorySyncProofs | `Spec => MappingSettlesMembers` |
| `SharedAccountsStay` | DirectorySyncProofs | `Spec => SharedAccountKept` |
| `OnlyUnmappedDisabled` | DirectorySyncProofs | `Spec => DisableOnlyUnmapped` |

The transaction folds over lists, and the library's induction theorems cannot be used (they
take an operator as a parameter). `Folding` does the induction once by a least
counterexample, with the turn of the loop and what it keeps as constants of the module, and
`MappingProofs` instantiates it for each of the four loops of `SyncProvider`. A turn keeps
`Sound`: names distinct, two people of one source with two accounts, every reference to a
row that is or was there, no id used twice. From the database alone one cannot say that an
account exists in DSM, and a run's lists say what was true when they were read; so
`SyncInvariant` adds `CreatedExists` and, for each run, that its list is still true of the
tables or is known not to be (`RunsSound`): the row was deleted (`spent`), its name was
changed meanwhile (`renamed`), another transaction was committed (`crossed`). These are the
races of section 5, and the invariant shows that there are no others.

### LoginFlow

For any browsers, launches, callbacks, sources and subjects, from `FlowAssumption` (the
absent value is no entry):

| Theorem | States |
|---|---|
| `StatesAccounted` | `FlowSpec => []StatesInvariant` |
| `StatesUsedOnce` | `FlowSpec => StateUsedOnce` |
| `OwnStatesAccepted` | `FlowSpec => OwnStateAccepted` |
| `LoginsOnlyRead` | `FlowSpec => Spec`, the specification of DirectorySync |
| `RequestsStaySound` | `FlowSpec => [](SyncInvariant /\ RequestsSound)`, if ids do not run out |
| `LoginsAreOwn` | `FlowSpec => LoginIsOwn`, if ids do not run out |

The invariant of the first three accounts for every state: not launched, held by server and
browser, passed or over; whatever a run does. For the last, logins write no table
(`LoginsOnlyRead`), so that `SyncInvariant` holds of them too; what a callback carries is of
its column (`RequestsSound`); and the person the Helper's query finds is the one the platform
named, because two people of one source have two accounts (`OneAccountEach`) and an id is not
used again.

### SourceSync

For every set of platforms, people, departments, every page size and every bound, from the
assumptions of `DirectorySync` and `FetchAssumption` (the platform lists each person and
department in one order for its pages; every source can have a first department):

| Theorem | States |
|---|---|
| `SourceIsSound` | `SourceSpec => []SourceInvariant`, if ids do not run out |
| `SnapshotsAreExact` | `SourceSpec => ReadExactly`, if ids do not run out |

`SourceInvariant` is `SyncInvariant` with `ReadingInvariant`, which says of each walk what it
has and what it has left: of the departments, as long as none has changed, that each one
found is still in the queue, or its children have been found too (`TreeKnown`); of each
person who has not moved, that what was read is true (`ToldTruly`) and that every department
already passed, or the part of a page already passed, has shown the person
(`MemberKnown`, `VisibleKnown`). Each answer of a platform is one lemma (`...Keeps`); a change
of the organisation makes those it moves nobody's concern. At the end nothing is left, so
what has been read is what there is: the queue is empty, so the departments found are closed
under children, and `Found` is the least such set.

### What is only model-checked

`StayersStayMapped` and `LeaversUnmapped` of SourceSync; and liveness (`TempIsRemoved`,
`CallsReturn`, `BecomesReady`, `RunsEnd`, `RunsFinish`, `DepartedLosesLogin`), which is outside what the proof system supports, as is anything with
ENABLED.

## 10. Not modelled

- *Left by the plan*: the migration of older installations and group grants
  (`account_migration.go`, part of `account_policy.go`); the comparison and rename of shadow
  against a writer that takes no lock (`shadow_store.go:84`); administrators' sessions and
  initial passwords (`admin_auth.go`, `initial_passwords.go`), which write one row at a time.
- *Nonces* (`server.go:320`): the client never sends a request twice.
- *HTTP and decoding* in the providers, access tokens, the exchange of a code for a person.
- *Names*: how a display name becomes a user name (`username.go`, `reserved.go`); the modules
  take the result as a constant.
- Certificates and TLS, configuration, settings forms, logs and their retention, the React
  client, packaging scripts, start-up: input, output and wiring without a protocol of their own.

Each hazard of the code with the properties that are about it, or the reason why none is, is
in `PROJECT.json`.
