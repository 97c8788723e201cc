# Blockstead in TLA+

Blockstead runs Minecraft servers for a household: a FastAPI service (one
asyncio loop, a pool of threads, SQLite, files) that launches one server at a
time, backs it up, upgrades it, manages its extensions and its files, reports to
Discord through a relay, and updates itself through a root-owned helper. This
directory models the parts of it whose correctness depends on the order in
which things happen, checks them with TLC on small instances, and proves the
safety results with TLAPS for every instance.

Paths below are relative to the repository; `app.py`, `process.py` and so on
are in `backend/src/blockstead/`, the relay in `relay/src/discord_relay/`.

## 1. Inventory

| part | state | operations | interacts with | module |
|---|---|---|---|---|
| process manager (`process.py`) | state, process handle, reader task, owner, force flag, lock, log history, subscribers | start, stop, force_stop, command, save_world, subscribe, close | every mutation asks its state; scheduler, updater, backups and validation start call it | `ServerProcess` |
| updater (`updates.py`, `app.py` 2156-2511) | `update-state.json`, hand-off flag, latest commit, critical-operation tokens, `update_lock` | check, install, resume, acknowledge | files shared with the helper; stops and starts the server; backups and restores register tokens | `UpdateHandoff` |
| update helper and installer (`packaging/blockstead-update`, `scripts/install-linux.sh`, systemd units) | request and status files, `BUILD`, the installed tree, the rollback transaction | claim, authorise, check for children, stop, deploy, start, health check, roll back | the service's files; systemd | `UpdateHandoff` |
| launch upgrades (`upgrade_ops.py`, `app.py` 8674-9140) | the launch jar, recovery folders with manifests, the profile's version | apply, restore, undo, compensate, list | holds `update_lock`; listings rewrite the version | `LaunchUpgrade` |
| maintenance reviews (`maintenance.py`, `server_upgrades.py`) | none: a plan with an id | review, book, apply | reads state, players, backups, releases; gates upgrades and windows | `MaintenancePlan` |
| scheduler (`scheduler.py`) | plans with last dates, one-time events, run records | tick, run now, maintenance window, backup, start, stop, power off | process manager, backups, updater tokens | `Automation`, `Backups` |
| backups, restore, retention (`backups.py`, `retention.py`, `world_care.py`) | records (in progress, verified, failed), archives | create, verify, restore with a safety copy, drill, prune | process manager's `save_world`, tokens, start-up clean-up | `Backups` |
| extensions (`extension_ops.py`, `extension_updates.py`, `manual_imports.py`) | the loadout, the disabled jars, recovery copies, staged imports | install, update, undo, import, upload, enable, disable, remove | require a stopped server | `Loadout` |
| private validation start (`safe_start.py`) | reviewed batches, a clone of the server folder | clone, run, stop, quarantine | process manager (the same one), the loadout | `Loadout` |
| provisioning, import, migration, modpacks, saved setups (`provisioning.py`, `loader_migration.py`, `modpacks.py`, `app.py`) | folders under the server root, profiles, setups, the active profile | make, install, copy, register, undo, switch, remove | process manager, `update_lock`, backups | `ServerFolders` |
| settings and files (`server_settings.py`, `server_files.py`, `mod_configs.py`, `shared_map.py`) | text files, snapshots | edit by revision, write, delete, rename, upload, extract | the server's own writes | `ServerFiles` |
| notifications (`app.py` 657-833, 10050-10965) | webhooks, delivery rows with attempts | queue, send, retry, test | webhook | `Alerts` |
| Discord connector and relay (`discord_relay.py`, the relay) | identity files, secrets, pairings, connections, snapshots, messages | pair, rotate, switch, revoke, send a status, deliver | each other, over HTTP and a WebSocket | `ConnectorRotation`, `DiscordLink`, `StatusDelivery` |
| sessions and accounts, player sessions, activity, diagnosis, reports, command tables, catalogue clients, command line, frontend | mostly derived | | | not modelled (section 7) |

### Behaviours that are hard

* *Interleaving at awaits.* Handlers read `manager.state`, then await a backup,
  a stop, a download or a fetch, and go on. `update_lock` serialises some of
  them, `ProcessManager._lock` others, and several take neither. Synchronous
  handlers run in threads and interleave with the loop anywhere.
* *Tasks that outlive what they watch.* The reader of a server's output acts on
  the manager's current fields when that output ends.
* *Two processes and a set of files.* The updater and the root helper agree only
  through files that either may find in any order after a crash.
* *Transactions over files and a database.* A jar is swapped or a folder is
  copied, then a row is committed; either may fail and the service may die
  between any two steps.
* *Timeouts.* A graceful stop that times out has still told the server to stop.
* *Reviews.* What an owner approves is made from evidence read between several
  awaits, and is read again when it is acted on.
* *A lossy link.* Host and relay each keep a record of one connection; answers,
  sockets and services go away between any two messages.

What makes each part correct is in the properties of section 3. `PROJECT.json`
lists the hazards one by one, each at its line, with the properties that would
catch it.

## 2. Plan

| step | modules | state |
|---|---|---|
| 1 | `ServerProcess` and its promise `ServerPromise` | done, refinement proved |
| 2 | `UpdateHandoff` | done, proved |
| 3 | `LaunchUpgrade`, with `MaintenancePlan` before it | done, proved |
| 4 | `Backups` | done, proved; the renames inside a restore are left |
| 5 | `Loadout` | done; `NoJarIsLost` proved, `AnswersAreTrue` model-checked |
| 6 | `ServerFolders`, `ServerFiles` | done, proved |
| 7 | `ConnectorRotation`, `StatusDelivery`, `DiscordLink` | done, proved |
| 8 | `Alerts`, `Automation` | done, proved |

`MCServerData` composes `ServerFolders`, `Loadout` and `ServerFiles`,
`MCDiscord` `ConnectorRotation` and `StatusDelivery`, `MCBackground` `Alerts` and
`Automation`, `MCLaunchUpgrade` `LaunchUpgrade` and `MaintenancePlan`: these
parts do not share variables in the code at the grain modelled here, so that a
behaviour takes the steps of one of them, chosen at the start.

Modules that are proved about use no recursive operator; parameters are
CONSTANTS with named assumptions; invariants are conjunctions of named parts.

What is left: the renames inside a restore at the grain of `LaunchUpgrade`
(`backups.py` 492), `save_world` with the console's lines (`process.py` 242),
several days and weekdays of the schedule, and the renaming of preserved files.

## 3. The modules

### ServerProcess, ServerPromise

An action is what one coroutine does between two awaits. `state`, `process`,
`force_requested`, `owner` and `lock` are the fields of `ProcessManager`; `pc`
and `target` say where each caller of the manager is suspended and on which
launch. `os`, `eof`, `sig`, `asked` and `ready` are the operating system's and
the server's side of each launch. The process's end and the end of its output
are separate events, because a child of the server inherits the pipe
(`PipeMayLinger`). `MCServerProcess` has two copies of the manager: one whose
pipes close with their servers, and one in which they may linger.

| actions | code |
|---|---|
| `StartBegin`, `SpawnFails`, `Fork`, `SpawnReturns` | `start()`, `process.py` 137-189 |
| `ReadLine`, `ReadDone`, `ReaderEnds` | `_read_output()`, `_publish()`, 189-225 |
| `StopBegin`, `StopExited`, `StopReturns`, `StopTimeout` | `stop()`, 271-298 |
| `ForceBegin`, `ForceEscalates`, `ForceReturns` | `force_stop()`, 300-331 |
| `BeginShutdown`, `Cancel`, `CloseBegin`, `CloseTimeout`, `CloseSeesExit`, `CloseReturns` | `close()` and the lifespan, `app.py` 1868-1905 |

Two facts about asyncio are built in and named where they are used: waiters of
an exited process are resumed before a later spawn returns, and the reader is
resumed when the output ends before a new `start()` is served.

`ServerPromise` is what callers rely on: down, starting, running, stopping; at
most one server; no server launched twice; down only when none is left.
`ServerProcess` implements it with `phase` from `state` and `live` from the
processes that exist (`KeepsPromise`).

### UpdateHandoff

`st`, `req`, `status` and `build` are the four files; `up`, `booted`, `latest`,
`handoff`, `critical`, `op` and `mine` are the service's memory, lost when it
dies; `helper` is the root-owned helper and installer. Every updater operation
holds `update_lock`, so one counter `op` serves whichever is running. `cause`
is a history variable: who made the server what it is (its owner, a start that
asked nobody about updates, the updater, or the updater after it has given up
its intent to start the server again). Commits are numbered in the order of
promotion. An attempt id is random in the code; here it is any of five that
nobody remembers (four places can remember one, and the lemma `AttemptsSuffice`
proves that one is always free).

| actions | code |
|---|---|
| `CheckBegin` … `StopRefused` | `_check_for_update`, `app.py` 2339-2446 |
| `RecordRequest`, `MakeRequest`, `QueueFails` | `queue_update`, 2213-2256 |
| `ResumeMoot`, `ResumeBegin`, `ResumeEnds` | `resume_server_after_update`, 2258-2337 |
| `InstallNow`, `Acknowledge` | `updates_install`, `updates.acknowledge` |
| `StartServer`, `StartUnguarded`, `StopServer`, `begin_/end_critical_update_operation` | the other users of the lock and the starts that ignore it |
| `Claim` … `RolledBack` | `packaging/blockstead-update`, `scripts/install-linux.sh` 876-1309 |

Left out: the owner's manual `blockstead update`; switching automatic updates
off; more than one profile; an installer rollback that itself fails; a claim or
quarantine that fails; failing writes of the state record outside
`queue_update`; a service that is inactive at the very moment the installer
looks for it. `HourPasses` (the sixty-minute limits) happens only while
`update_lock` is free, because an operation that holds it takes minutes.

### LaunchUpgrade

A jar is named by its version, so "verified by SHA-256" is equality. `files`
holds, for each recovery, the copies in the recovery folder (`previous`,
`replaced`) and the displaced and staged jars in the server folder (`d`, `s`,
`n`, `o`, after the code's file names); `manifest` is `recovery.json`.
`promote_launch_upgrade`, `rollback_launch_upgrade` and
`restore_newer_launch_after_failed_recovery` share one swap (aside, in,
manifest, tidy), and so do the actions; `op.fn` says which of them runs, and for
whom: `restore` is the owner's, `undo` follows a failed commit of an upgrade,
`compensate` a failed commit of a restore.

| actions | code |
|---|---|
| `ApplyUpgrade`, `Keep` | `apply_server_upgrade`, `promote_launch_upgrade` |
| `RestorePrevious`, `UndoBegins`, `Snapshot`, `CopyToStage` | `rollback_launch_upgrade` and its two callers |
| `CompensateBegins`, `Rebuild` | `restore_newer_launch_after_failed_recovery` |
| `Displace`, `Place`, `Record`, `Tidy`, `Drop`, `Commit`, `CommitFails` | the steps in the order of the code, and the commit of the profile |
| `StepFails`, `PutBack`, `PutBackFails`, `CleanUp` | the `except` blocks |
| `ListingLoads`, `ListingScans`, `ListingSaves` | `refresh_profile_facts`, in the thread of `GET /profiles` |

Left out: a jar replaced by hand in the middle of an operation (the code compares
digests, which narrows that window and does not close it); loader and build
numbers, which travel with the version; an owner who types a version; power
loss after a rename that was not synced.

### MaintenancePlan

`evidence` is the world a review looks at; `request` is the review in progress
with what it has read so far (`read`). The code reads in pieces, with awaits
between them: the state of the server, a probe of its players, the newest
backup, its verification in a thread, the rest, and for an upgrade the releases,
the jar in use and the pin. `Move` changes the evidence between any two. The
findings, the steps, the readiness and the id are operators over what was read
(`Unproven`: with plugins installed, `Paper` proves nothing about their support
of another release, and the review says so, `maintenance.py` 682-699).
Applying goes as far as the gate; what follows is `LaunchUpgrade`.

| actions and operators | code |
|---|---|
| `AskForReview`, `ReadPlayers`, `FindBackup`, `VerifyBackup`, `ReadTheRest`, `ReadReleases`, `ReadActive`, `PinTarget`, `AnswerReview` | `build_maintenance_plan`, `app.py` 9142-9497, and what it calls |
| `ActOn`, `Act`, `Refuse` | `apply_server_upgrade`, 8674-8730, and `schedule_reviewed_plan`, 9532-9660 |
| `StateFinding` … `UpgradeFinding`, `Readiness`, `Steps`, `Fingerprint` | `maintenance.py` 401-1060 |

Left out: the practice server, a server of unknown distribution, the refresh of
`profile.paper_build`, the measurement of the world's size, the limit of twenty
pending events. The finding about the schedule compares the next operation with
the present, not with the time the window is booked for: booking a window may
make the next review "due". "Not applicable" outranks "blocked".

### Backups

`server` is the promise of `ServerPromise` with what backups add to it: which
launch it is, whether its start asked about restores (`by`), and whether it
saves (`save-off`, `save-on`). `task` says what each request, and the
scheduler's loop, is doing and where it is suspended. `status`, `about` and
`created` are the committed `BackupRecord`s, `files` the archive and the manifest
of each; `policy` is the thread of `update_backup_policy`, which runs retention
beside the loop. Retention may expire whatever `select_expired` could choose
under some counts, ages and sizes, that is anything but the newest.

| actions | code |
|---|---|
| `CreateBegins`, `Flushed`, `ArchiveWritten`, `ArchiveFails`, `Unpause`, `Commit`, `CommitFails` | `create_backup`, `app.py` 3394-3537; `_backup`, `scheduler.py` 491-569; the last two with `enforce_retention` |
| `PolicyLoads`, `PolicyRemoves`, `PolicyCommits` | `update_backup_policy`, 3787-3825 |
| `StopBegins`, `RecordBegins`, `CriticalRefused`, `Stop` | `process_stop` with `backup_before_manual_stop` |
| `StopOutright` | stops that wait for no backup |
| `MaintainBegins`, `PlayersOnline`, `Announce` | `_execute_maintenance`, `_maintenance_commands`, `scheduler.py` 285-359 |
| `RestoreAsks`, `RestoreBegins`, `RestoreVerifies`, `RestoreEnds` | `restore_backup`, 3699-3759 |
| `StartServer`, `StartUnasked`, `ServerReady`, `ServerEnds`, `Crash` | `process_start`; the starts that ask for no restore; the server; the service's death and the lifespan's clean-up, 1783-1792 |

Left out: the renames of a restore and its safety copy; the recovery drill;
mirrors; power-off; a server without a world, which has nothing to back up. The
gate of a running update is `CriticalRefused`, at any time. One policy change
runs at a time. A start is one step: what may happen while it waits is
`ServerProcess`'s subject.

### Loadout

`live` and `disabled` are the jars of the mod folder and of its disabled
sibling, by name; a jar is its checksum. `bundles` are the recovery copies of
updates, `batches` the reviewed batches on record, `review` the staged import,
`abandoned` the jars in staging folders that were left behind. The async
handlers run in the event loop and give way only where they await (`turn` is the
one inside a stretch without an await). The others (`InThread`: enable, disable,
import, undo) run in threads of the pool, beside the loop and beside each other.
Every rename is a step of its own, apart from the look that preceded it. Each may
fail, so may each step that takes a failed change back and the removal of a
staging folder, and the service may die after any of them.

| actions | code |
|---|---|
| `Toggle`, `Look`, `Rename`, `RenameFails`, `Remove` | `extension_ops.py` 268-315, `app.py` 6112-6180 |
| `Upload`, `Place` | `place_upload`, `app.py` 5671-5697 |
| `Install`, `Update`, `Resolve`, `Prepare`, `Download`, `Refuse`, `NothingStaged`, `Commit` | `app.py` 5600-5669, 5742-6015; `extension_updates.py` 78-239 |
| `Promote`, `SetAside`, `PromoteOne`, `PromoteFails`, `TakeBack`, `PutBack`, `Clean` | `promote_staged_files`, `_remove_staging`, `extension_ops.py` 151-263; `app.py` 5255-5257 |
| `ImportReview`, `ImportCancel`, `ImportApply` | `app.py` 6186-6495 |
| `Undo`, `UndoBegins`, `UndoRefused`, `Claim`, `Displace`, `OldNameIsFree`, `RestoreOld`, `Record`, `UndoFails`, `ReturnOld`, `ReturnOne`, `Returned` | `extension_updates.py` 241-440, `app.py` 6031-6084 |
| `Test`, `Clone`, `Launch`, `Poll`, `StopValidation`, `Judge`, `QuarantineOne`, `QuarantineFails`, `BringBack`, `BroughtBack`, `Quarantined` | `safe_start.py` 298-355, 495-552, 649-959; `app.py` 6498-6596 |

Two history variables name what the code gives up. `risked` collects the jars
that one of five causes may have lost: a rename or an unlink that meets a file
which another request put there after the look; an update that copies or sets
aside another file than the one it read (`extension_updates.py` 161 does not
compare the copy with the checksum it is kept for); what was set aside and
cannot be put back; the staging folder of a completed update that resists its
removal; an undo of an update that is still in progress. `touched` says, for
each request, which files others changed beside it. The stop of a validation
stops whatever server the manager holds by then (`safe_start.py` 804), and
`require_server_stopped` is asked once, at the start. Left out: the registry of
origins, the reading of jars, the validation's clone beyond the jars in it.

### ServerFolders

`folders` says of each folder under the server root whether it is whole and
which version of each world it holds; `profiles`, `setup`, `backups` are
committed rows; `lock` is `update_lock`. A request (`tasks`) makes a folder
(upload, provisioning, modpack, copy for another loader or a saved setup),
switches between setups or removes a profile.

| actions | code |
|---|---|
| `Import`, `Upload`, `UploadFails`, `FinishUpload` | `app.py` 2925-3071, 3828-3865 |
| `Provision`, `Modpack`, `BadModpack`, `Make`, `Unpack`, `PlanFails`, `Install`, `InstallFails` | `provisioning.py` 418-689, `modpacks.py`, `app.py` 3877-3958, 7215-7274 |
| `Migrate`, `CreateVariant`, `CopyRoot`, `CopyFails`, `Register`, `RegisterFails`, `CreateSetup` | `loader_migration.py`, `app.py` 4054-4389, 4461-4683 |
| `Switch`, `SwitchLocks`, `SwitchStops`, `SwitchStarts`, `SwitchReturns` | `app.py` 4704-4874 |
| `Remove`, `RemoveEnds` | `app.py` 3163-3335 |
| `StartBegins`, `StartReturns`, `StopBegins`, `Plays`, `ServerEnds`, `BackupBegins`, `BackupEnds`, `Crash` | starts, stops, play, backups and the end of the service beside them |

The server is stopped, up, or stopping: a graceful stop that timed out leaves it
alive in `STOPPING` (`process.py` 281-298). The review of a switch takes that for
no server (`Current`, `app.py` 4719-4723), the switch does not stop it (4829), and
its start is refused, so that "both profiles remain stopped" is answered beside
it (4839-4862). `AnswersHold` claims of that answer what is true: no server is
left but one that is still stopping.

`crossed` marks a request whose folder, or whose source, another request or the
server has used or written meanwhile. The cases are: a removal asked for between
`manager.start` and the assignment of `active_profile_id` (`app.py` 2120-2121); an
import of a folder that is still being installed, which a failing installation
then deletes; the start of a copy's source, which gives a torn copy; backups
that were removed while a switch stops; another request that writes or removes
the folder. A switch that waited for the lock may stop a server nobody reviewed
(`app.py` 4745). The deletion of a folder and the commit that follows are one
action; one backup runs at a time; the threads of one upload are one.

### ServerFiles

`files` is the content of each text file, `kept` what is in a snapshot, a
preserved sibling or an older backup. `recent` are the backups of the present
second under the names the code gives them (the file, the second, the revision
that was opened), which a later copy of that name overwrites; `NextSecond` moves
them to `kept`. `draft` is the staged map configuration, which has one name for
all requests. A job works in a thread, beside other jobs, the server and whoever
works in the folder.

| actions | code |
|---|---|
| `Edit`, `Settings`, `RawSettings`, `EnableLan`, `Snapshot`, `Compare`, `Replace` | `server_files.py` 357-468, `server_settings.py` 434-748, `app.py` 6931-6966, 9841-9904 |
| `WriteConfig`, `LowResource`, `KeepCopy`, `NextSecond`, `Stage`, `SwapIn` | `mod_configs.py` 130-154, `shared_map.py` 169-260 |
| `Delete`, `Unlink`, `Rename`, `Renames` | `server_files.py` 471-539, `app.py` 6969-7038 |
| `Upload`, `Place`, `Extract`, `Unpack`, `SetAside`, `Promote` | `server_files.py` 542-568, `file_paths.py` 228-333, `app.py` 7041-7170 |

`moved` marks a job whose file somebody else changed after its last look: the
window between the question and the rename cannot be closed with these system
calls. `Destroys` says what a job may take away in it, and which backup of this
second it may replace. The editor of a mod's configuration does not compare
again before it replaces, but keeps a copy of what is there. Left out: the tables of settings,
their parsing, path checks, a name for two preserved siblings within one second.

### ConnectorRotation, StatusDelivery

`ConnectorRotation` is the change of the secret that identifies the host:
`committed` and `pending` at the relay, `disk` the identity file with an active
and a fallback secret, `identity` and `client` the copies in memory. It goes
prepare, stage, probe, switch, or back.

| actions | code |
|---|---|
| `RotatePrepare`, `RotateStage`, `RotateProbe`, `RotateSwitch`, `RotateUndo`, `RotateRestore`, `RotateCancel` | `rotate_discord_connector`, `app.py` 10555-10592; `discord_relay.py` 350-419 |
| `Connect`, `Greeted`, `SessionLost`, `Start` | `RelayConnector.run`, `_hello`, `_session`, `discord_relay.py` 369-485 |
| `PendingExpires` and the relay's side of a hello | `relay/store.py` 432-487, 1190-1238 |

A probe waits for its hello for up to ten seconds, while the loop reconnects
after two (`discord_relay.py` 27, 462), so the loop runs during a rotation.
`overtaken` records that its last hello came in the middle of one that has not
put the file right since: being greeted, it makes the old secret final over the
staged file (`discord_overlap` shows where that ends). A restore that cannot
write the file leaves the connector stopped and the replacement staged
(`RotateRestore`). A lost acknowledgement of the probe leaves the connector
without a session until the service restarts, and the owner is told that it
could not be verified.

`StatusDelivery` is one connection's status: the host's pass (`pass`), the
socket (`statuses`), the relay's newest snapshot, its delivery worker
(`worker`) and the message in the channel.

| actions | code |
|---|---|
| `PassReads`, `PassSends`, `PassCommits`, `PassFails` | `relay_status_pass`, `app.py` 1475-1574 |
| `RelayReceives`, `RelayRefuses`, `ShareSwitched`, `GrowsStale` | `relay/store.py` 786-1040, `relay/app.py` 113-172 |
| `WorkerDecides`, `CallSucceeds`, `CallFails`, `CallBreaks`, `WorkerWaits`, `WorkerEnds`, `Scan` | `relay/app.py` 376-493 |

A call may fail so that it is tried again, or for good (an error that is not
retryable, the last attempt, any other exception: `relay/app.py` 427-438), and
Discord may have carried it out all the same. After a last word the same content
is not tried again (455-461). `StatusIsShown` therefore names three states that
may last: the last word was about the text that is due; the message is not the
one that the relay has on record; the host used a number twice (`forgot`), so
that a newer status passes for an old one. A worker that waits and finds the same
text published ends, and the next scan takes over.

### DiscordLink

`rpair`, `rconn` are the relay's pairings and connections, `hpair`, `hconn` the
host's rows; requests over HTTP (`pc` of a caller) and one WebSocket carry the
changes. Answers, sockets and the host may be lost.

| actions | code |
|---|---|
| `Create`, `Confirm`, `Update`, `Revoke` with their commits, `DeleteProfile` | `app.py` 10142-10532, 3230-3364 |
| `Claim`, `Unpair`, `PairingLapses` | `relay/app.py` 722-746, `relay/store.py` 592-664 |
| `Connect`, `Replay`, `RelayReceives`, `Heartbeat`, `HostReceives` | `relay/app.py` 1018-1145, `app.py` 1040-1473 |
| `Hangup`, `HostSeesClose`, `CloseBoth`, `SocketLost`, `HostRestarts` | both ends of the socket |

What the model shows beside its properties: a lost answer to a confirmation
leaves the pairing pending at the host until it reconnects; a replayed
`connection_activated` can undo a newer switch when there are two or more
connections; a connection disabled at the relay is not replayed, so that the
host revokes it when it reconnects; a late commit of a confirmation inserts a row
for a connection that was revoked, until the next heartbeat; SQLite enforces no
foreign keys, so rows of a deleted profile stay.

### Alerts, Automation

`Alerts`: a row of deliveries is named by who queued it (the loop, the page, a
test), its webhook and its key; `loop`, `page` and `test` are the sessions that
work on rows, each with its copies.

| actions | code |
|---|---|
| `LoopLooks`, `LoopQueues`, `LoopTakes`, `LoopSends`, `LoopRecords`, `LoopFails`, `LoopSleeps` | `notification_loop`, `app.py` 758-833 |
| `PageLooks`, `PageQueues` | `local_notifications`, 10799-10965 |
| `TestBegins`, `TestSends`, `TestRecords`, `Create`, `Toggle`, `Delete` | 10616-10770 |

Attempts are committed before the send, so that a crash costs one more send. A
switched-off webhook turns waiting rows into failures for good. The page names
whichever crash is shown by one key, the loop each by its own. The key of a full
disk is constant: it is told once ever. Preferences, acknowledging and templates
are left out.

`Automation`: the tick with its one session (`tick.draft` is what is not yet
committed), the manual run, and the owner's changes. One day, one profile and two
events; a plan without times stands for a disabled one.

| actions | code |
|---|---|
| `TickBegins`, `TickTakesPlan`, `TickLooksForEvents`, `TickTakesEvent`, `TickWorks`, `TickRecords`, `TickCommits`, `TickFails`, `TickMeetsCancelled` | `Scheduler.tick`, `scheduler.py` 174-234, and what it runs |
| `RunNow`, `RunWorks`, `RunRecords` | `run_now`, 236-263; `run_automation`, `app.py` 11298-11325 |
| `SavePlan`, `CreateEvent`, `CancelEvent` | `app.py` 11189-11296 |

Left out: weekdays, the change of day, the warnings' countdown, power-off, the
list of next executions, several profiles.

## 4. Runs

| run | instance | shows |
|---|---|---|
| `server_process` | 2 callers, 2 launches, 2 profiles, fairness; 1 caller, 2 launches, pipes that outlive their processes | one live server, nothing survives `close()`, the promise kept, calls return, deaths are noticed; a live server always has a reader for its console |
| `update_handoff` | 3 commits, 1 crash anywhere, 1 power cut, failing writes, stop timeouts, fairness | an update is visible, has the floor, is not overtaken; an owed server is remembered and comes back; every update ends |
| `update_handoff_newer` | 3 commits, no fault | **violation** of `StoppedServerStartsAgain` |
| `launch_upgrade` | 2 versions, 2 recoveries, 2 failures, 1 crash, 1 jar replaced by hand; reviews with 1 change of evidence and 2 requests, on Paper with and without plugins | no jar lost, one failure repaired, offers can be taken up, version names the jar; what is acted on was reviewed |
| `launch_upgrade_fabric` | nothing fails; jars carry no version | **violation** of `ListingTellsTheTruth` |
| `backups` | 1 profile, 2 tasks, 2 records, 2 launches, 1 failure, 1 crash, symmetric | the last good backup survives, saving comes back, protected stops, guarded restores, the owner's records end |
| `backups_conflict` | nothing fails | **violation** of `OperationsDoNotConflict` |
| `discord` | rotation: 2 new secrets, 2 faults; status: 2 changes, 1 fault; fairness | never locked out unless overtaken, the owner told the truth, a start reconnects; an address needs consent, the status is shown |
| `discord_overlap` | rotation: 1 new secret, 1 crash; the status rests | **violation** of `InterruptedHostGetsIn` |
| `discord_link` | 2 pairings, 1 fault, 1 switch, fairness | a confirmed connection is known until revoked; records reconcile |
| `server_data` | 2 folders, 2 requests; 2 jars, 2 tasks, 2 requests; 2 files, 2 jobs, 3 contents | answers hold, folders stay, switches are protected; no jar lost but by a named cause, answers true; no content lost but in a named window, edits are reviewed |
| `background` | 1 webhook, 2 attempts, 1 report or crash, 1 fault; 2 events and a plan for one minute, 1 fault; fairness | the history is true, alerts reach an end; everything once and on record, due events end |

*Why the bounds are enough.* Two callers give every race over the manager's lock,
with shutdown as a third; two launches let a late reader meet a second start.
A channel that moves twice puts an old, a requested and a newer commit in play at
once. One crash reaches every single interrupted step; two failures reach a
repair that fails. Two versions and two recoveries let a jar be upgraded, put
back and upgraded again under a second recovery. Two tasks beside the policy's
thread and two records let two sweeps of retention meet over a profile's only
two backups, a backup meet a restore, and two tasks hold saving off at once; a
second launch lets a task come back to a server that is not the one it left.
Two overlapping requests over two folders, two jars or two files give each race
between a look and a use of one name, and a second name to move things to.
Two replacement secrets let a rotation follow one that was cut short. Two
pairings put a replaced and a replacing connection of one profile side by side.
Two events beside a plan make a tick with something before and after whatever
fails. Beyond the runs, the status was checked with two faults (1.4 million
states) and the texts with four contents (4.9 million), without an error. The
safety results are also proved without bounds, where section 6 says
so.

*Types.* The type invariants are not among the runs' properties: those of all
modules but `MaintenancePlan` are theorems.

*Deadlock* is checked where the system cannot stop (`update_handoff*`,
`launch_upgrade*`). It is not for `ServerProcess`, which ends when `close()` has
returned; for `Backups`, `DiscordLink`, `MCServerData` and `MCBackground`, whose
requests, records, pairings and minutes run out while nothing is under way; nor
for `MCDiscord`, where a lost acknowledgement leaves the connector
stopped until the service restarts.

### What the violations say

* *A newer commit.* The helper gives up on one update; before the service polls
  its status, a check finds the next commit and queues it. `queue_update` is
  given the profile to start again only if the record's `resume_commit` is the
  commit being queued (`app.py` 2440), so the server that was stopped for the
  first update stays down, although the README says it is started again.
* *Old log.* After an upgrade of a server whose jar carries no `version.json`
  (Fabric's launcher), the next listing of the profiles reads the old version
  from the newest log and writes it over the right one, until the server has run.
* *Two archives at once.* `_backup` commits its record so that the owner's backup
  waits for it, but does not itself wait for the owner's, nor for a restore.
  While the owner's backup of a stopped server is archived, the server can be
  started and a maintenance window archives the same world beside it; the first
  to finish turns saving on under the other. The starts of the scheduler, of a
  restart, of a switch and after an update do not ask for a restore either.
* *A hello in the middle of a rotation.* While the probe of a rotation waits, the
  loop reconnects with the old secret, which the relay still accepts, and puts it
  in place of the staged file. The probe then promotes the replacement; if the
  service dies before it has stored it, the file holds nothing the relay knows,
  although `docs/discord-status-bot-project.md` 201-203 says that startup tries
  the stored replacement first after such an interruption.

### Known limits, stated in the properties

Where the code has a window that it cannot or does not close, a property names
the case instead of hiding it. `crossed`, `moved`, `waited`, `lost`, `Stranded`,
`risked`, `touched`, `overtaken`, `forgot` and the values `unasked` and `forgone` of `cause` are those cases; the sections
above and the notes in `PROJECT.json` say which lines make them.

* `saved_switch` and the private validation start do not ask whether an update is
  being installed (`app.py` 4828, 11427): `UpdateHasTheFloor` excepts the servers
  they start.
* A graceful stop that times out clears the intent to start the server again,
  though the server was told to stop and goes down (`app.py` 2432):
  `OwedIsRemembered` excepts it. A crash between `queue_update`'s two writes, or a
  power cut after the helper consumed the request, leaves a record that nobody
  answers for an hour.
* If a child of a server keeps the pipe open past a forced stop and a new start,
  the old reader later marks the new, live server crashed (`process.py` 198):
  of the manager with such pipes only `OutputIsDrained` is claimed.
* After a failed `unlink`, or a crash just before it, a recovery is still
  offered and always refused (`upgrade_ops.py` 363, 530).
* Retention unlinks before its commit, so that a commit that fails leaves records
  of files that are gone. A backup of the scheduler that fails with anything but
  a `BackupError` stays in progress, and blocks restores and the owner's backups
  of its profile, until the service starts again. `manager.stop()` takes no
  argument: a stop that waited for a backup reaches whatever server runs by then.
* A plan can be booked twice unless a window is due within the hour; what was
  read before a wait may have changed when the window is booked, although
  `app.py` 9546-9548 says otherwise.
* An event that is cancelled while the tick works makes its flush fail and loses
  the records of what was carried out.
* Jars are lost for five reasons (`risked`, section 3). One needs a
  single failing file operation: a staging folder that cannot be removed after a
  completed promotion ends the update as a failure, with its recovery copy
  discarded (`extension_ops.py` 151-160, 265). Another needs a second one: a file
  that was set aside and cannot be put back goes with the staging folder (`app.py`
  5255-5257). `extension_updates.py` 129-131 promises that the copy is there. Nothing stops a validation's clean-up from
  stopping somebody else's server (`safe_start.py` 804), and no property claims it.
* A jar that arrives under a name after the look is overwritten, and so is a file
  under the name of an upload, although `server_files.py` 555-557 promises that an
  upload never overwrites. A save of a configuration overwrites the backup that
  another save of the same file and revision made in the same second
  (`mod_configs.py` 144-148, `shared_map.py` 240-246), which may be the only copy.
* "Both profiles remain stopped" is answered beside a server that is still
  stopping (`app.py` 4829-4862).

## 5. Fairness

`ServerProcess`: the event loop resumes what is ready, timers fire, the kernel
ends a killed process, a pipe without writers closes. Nothing forces a server to
become ready or to obey `stop`. `UpdateHandoff`: an operation that has begun
goes on (weak fairness); `update_loop` comes round every interval and queues for
`update_lock`, so checks, answers of the network and the resume get strong
fairness, as does the passing of an hour; systemd runs the helper and restarts
the service; a server that was told to stop goes down. `ConnectorRotation`: the
loop runs, the service is started again and a rotation that has begun goes on.
`StatusDelivery`: the host connects and its pass comes round, messages on the
socket are read, the worker and the scan go on. `DiscordLink`: both ends of the
socket run, a request thread that has begun commits, heartbeats are sent.
`Alerts`: the loop comes round every two seconds whatever happened, and a
retry's time comes. `Automation`: the tick comes round every half minute.
Owners, players and Discord's users never have to do anything. `LaunchUpgrade`,
`MaintenancePlan`, `Backups` and `MCServerData` claim no liveness: what they do
ends by itself, and that it does not hang on another is said as safety
(`SavingComesBack`, `OwnerBackupEnds`).

## 6. Proofs

Checked by TLAPS for every value of the constants. No assumption but the named
ones of the modules (bounds are numbers, null values are none of the others),
except where a theorem's statement names the switch `~PipeMayLinger`.

`ServerProcess_proofs`. Types and `OutputIsRead` hold in general. Under
`PipeMayLinger = FALSE`: `AtMostOneServer`, `DownMeansGone`, `EveryServerIsHeld`,
`StopIsHeard`, `ForceIsLastResort`, `CloseLeavesNothing`, `LinesAreFiledRight` and
`PromiseKept` (the refinement). The inductive invariant says that every live or
undrained launch is either the one the manager holds, with its reader running,
or the one a `start()` that holds the lock is spawning; the rest follows from
where each task can stand while that is so. `AskInv` adds which launches were
asked to stop, and the close and owner lemmas what shutdown and the log rely on.

`UpdateHandoff_proofs`. `TypeCorrect`, `AlwaysVisible`, `ResumeIsPatient`,
`UpdateIsAlone` and `NobodyForgetsTheServer`. None of the properties is inductive
alone; the invariant `Core` adds who may hold the lock while the helper works
(`LockExcludesHelper`), that an active note is live (`NoteIsLive`), when the
hand-off flag is up (`HandoffRaised`), that the attempt in the record is the one
the helper answers (`AnswerAwaited`), that the commit is known while a request is
written (`CommitKnown`) and that a request follows its record (`JustRecorded`).
That a server is not forgotten needs more: the service's copy of the record is
the file's (`CopyIsExact`), the intent is written before the server is asked to
stop (`IntentFirst`), a server that is not yet down is not yet owed
(`NotYetOwed`, `StillStopping`), and a resume cannot clear the intent while the
helper is busy (lemma `BusyDelaysResume`).

`LaunchUpgrade_proofs`. `TypeCorrect`, `TheJarInUseSurvives`,
`RecoveriesAreHonest`, `TheProfileIsRight`, `OneFailureLeavesNoAlarm`,
`WhatIsOfferedWorks`, for any number of versions, recoveries, failures, crashes
and hand-made swaps. The invariant lists, per operation and place, what the
manifest says (`Recorded`) and which file is the jar the operation began with
(`Kept`); `Agreed` adds that version and jar moved together. That one failure is
always repaired needs, for each place of each repair, that its step cannot be
refused by what an earlier step left; that an offer can be taken up, that an
operation that meets no failure leaves no displaced jar behind. Of
`MaintenancePlan`: `ReviewsHold` and `ReadyMeansReady`; the invariant ties each
request to the plan that was seen and what it has read so far to the id that
plan was given, which determines the facts that count (lemmas about
`Fingerprint`).

`Backups_proofs`. All five properties of the `backups` run and the types, for any
number of profiles, tasks, records, launches, failures and crashes. The
invariant `Hands` is the types with where each operation passes (`Route`), whose
each task, record and server is (`Owned`), that a task's record is in progress
and no other task's (`Work`), and that the policy's thread chose completed
backups and has removed those it is done with (`Swept`). `NewestStays` carries
the last good backup: the newest completed one of a profile has both files and
no sweep in progress has chosen it. It needs the order of `select_expired` to be
total, and that a sweep chosen before a newer backup completed leaves that newer
one alone. `Protecting` says that a task on its way to a stop has a completed
backup of the profile it looked at, `Pausing` who holds saving off, and `Steady`
that no step takes a completed record away or gives a launched server another
owner.

`Discord_proofs`. Of the rotation: `TypeCorrect`, `HostIsNeverLockedOut`,
`OwnerIsToldTheTruth`, however long a probe takes. The invariant says for each
place of a rotation which secrets the file, the relay and the memory hold
(`MidwayInv`, `RestInv`); that the file is enough unless the loop has overtaken
the rotation (`FileIsEnough`); and that a loop which has done so knows no other
secret than the client's (`LoopKnowsClient`), which is why the owner is told the
truth even then. Of the status: `StatusTypesHold` and `AddressesAreShared`.
`Consented` says that whatever the relay stores of an address is stored while it
is shared and scrubbed in the same step that ends the sharing, and `InHand` that
a worker whose text is older than the wish has been told.

`DiscordLink_proofs`. `TypeCorrect` and `ConfirmedIsKnown`: between a
confirmation and its revocation every message on its way that could make the
host drop the row is about another connection or comes after the revocation.

`ServerData_proofs`. Of `ServerFolders`: `TypeCorrect`, `AnswersTrue`,
`ProfilesKeepFolders`, `SwitchStopsTheReviewed`. The invariant says what each
request relies on at each place unless it was crossed: the folder it makes is no
profile's and is what it has written so far (`MakingInv`, `WholeInv`, `CopyInv`),
the profile it removes is not in use (`RemovalInv`), the switch holds the lock
(`LockInv`). Of `ServerFiles`: `FileTypesHold`, `FilesAreKept`, `EditsAreReviewed`;
`Holds` says that what a job is about to take out of a file is kept already, in
a backup of that file or elsewhere, or that the file has moved.
Of `Loadout`: `JarTypesHold`, `JarsStayOnDisk`, with every interleaving of threads
and every failing file operation of section 3. Where a jar is while it is moved
depends on how far its request has come. `JarInv` says what each request has in
hand (`Formed`), that the recovery copy of an update in progress has the jar
which the update is to retire or has set aside (`Backed`), and that no two
updates share a copy (`Alone`). `SafeInv` is the property with a stronger
witness: a jar of the owner's that is not at risk is in a folder, set aside,
abandoned, or in a recovery copy that no update in progress may still discard
(`Settled`). `AnswersAreTrue` is model-checked only: it needs what every request
knows of both folders at each place.

`Background_proofs`. Of `Alerts`: `AlertTypes`, `HistoryHolds`; the invariant
counts, for every row, the sends that its attempts, the loop's copy and the
faults account for. Of `Automation`: `ScheduleTypesHold`, `ScheduleHolds`; the
invariant counts how often each job was carried out against what is committed,
what is in the draft, and what was lost.

Out of the prover's reach, and only model-checked: all liveness and the fairness
behind it (`EveryCallReturns`, `DeathIsNoticed`, `EveryUpdateEnds`,
`EmptyServerComesBack`, `StartReconnects`, `StatusIsShown`, `RecordsReconcile`,
`AlertsReachAnEnd`, `DueEventsEnd`).
Of the safety properties, `AnswersAreTrue` of `Loadout` (why, is said above).

## 7. Not modelled

The renames of a restore, its safety copy, drills and mirrors; `save_world` and
the console's lines; weekdays, several days and the power-off of the schedule
(section 2 says what is next). Sessions and accounts: checks of credentials
without a protocol of their own. Player sessions, activity, diagnosis, overview
and reports: derived from state the modelled parts own. Catalogue clients,
command tables, exports, installation and power scripts, the command line and
the frontend: network and text, with no state that the modelled parts rely on.
