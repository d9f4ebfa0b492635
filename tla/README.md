# A TLA+ model of the SENTIENT Platform Manager

The Platform Manager installs, updates, migrates, backs up and restores SENTIENT
on one computer: a server with a PostgreSQL database, telemetry history in
PostgreSQL (plain or TimescaleDB) or ClickHouse, run natively (Windows services,
systemd) or in Docker. It holds almost no state of its own. What can go wrong is
in what it does to the state of others (program directories, databases,
tables, image tags, services), in long jobs of many steps none of which is
atomic with the next, each of which may fail, and any of which may be the last
one before the computer goes down.

## The system

Paths are relative to `src/`: IC is `crates/sentient-installer-core/src`, BC is
`crates/sentient-backup-core/src`, APP is `app/src`.

| Component | State it changes | Operations | Hard behaviour | What makes it correct |
|---|---|---|---|---|
| Safe update, native (IC/native/safe_update.rs) | program directories `install_dir`, `previous-version`, `rolled-back-version`; `ROLLBACK.txt`; databases by name; the service | `safe_update`, `rollback`, `rollback_point` | each rename, copy and SQL statement fails alone; undo from any point; kills; names made of the minute | the copy holds while it is needed; no stored write is lost; a failure restores one version on its own database |
| Safe update, Docker (IC/distro/docker_ops.rs) | image tags, databases by name, the container | the same | the tag is moved before anything is checked | the same, and what runs was checked first |
| Migration between databases (APP/migration.rs, BC/telemetry_move.rs) | `ts_kv` and its kept copies, ClickHouse tables, the record, the saved state | `run`, `resume`, `prepare_stores`, `undo_stores`, `copy_history` | a failure between preparing and copying; copying resumed after a kill while SENTIENT writes | every row of the old history arrives in the new one; a failed migration leaves the old one in use |
| Restore switch (APP/restore_switch.rs, APP/secrets_key.rs) | database names, exchanged ClickHouse tables, the key file | `run` | a partial exchange undone by exchanging again; undo errors ignored | either everything is the restored data or nothing |
| Backup and restore (BC/backup.rs, restore.rs, files.rs, APP/backup_jobs.rs) | the archive, the new database | `backup::run`, `restore::run`, verification | the dump and the telemetry copies are not one snapshot | what verifies restores to what was backed up |
| Kept data (APP/kept.rs, IC/kept_db.rs) | kept tables and databases | `list`, `remove` | nothing keeps the list from removing what a job still needs | what the operator gives up is only what the removed copy alone had |
| Jobs (APP/jobs.rs, rootjob.rs, IC/cancel.rs, exec.rs) | a job's state, the cancel flag, the tracked child | `Job::start`, `request`, `register_pid` | a request between spawn and registration | a cancelled job stops; one job per screen |
| Update checks (APP/updates.rs, IC/releases.rs, manifest.rs) | preferences, what was found | `check`, `set_channel`, `dismiss_*` | a channel changed during a check | an offer is of the channel chosen (not modelled) |
| Setup (APP/installer/) | the saved plan and passwords | `run`, `save_pending`, `take_pending` | a restart in the middle of an installation | an interrupted installation can be continued |
| Record and screens (APP/installation.rs, manager/, settings.rs, maintenance.rs) | `installation.json` | load, save | screens hold copies | no screen undoes another's change |
| Native installation (IC/native.rs, native_linux.rs, kept_db.rs, clickhouse_wsl.rs) | PostgreSQL's cluster, ClickHouse, services, environment files, the saved passwords | `setup`, `prepare_existing`, `deploy`, `reconfigure`, `uninstall`, `cleanup`, adoption | what a setup that failed left passes for done; passwords in several places | setup run again finishes; kept databases survive; every password fits |
| Docker deployment (IC/distro.rs, distro/adopt.rs) | volumes, containers, compose files | the same, and taking a stack over | two projects over the same volumes; passwords read back from containers | the same |
| Gateway, headless commands, checks, desktop integration, user interface | operating system | commands and files | | not modelled: glue, rendering, generated files |

How they interact: a screen of the manager (or a headless command) starts one
`Job`, whose thread calls one operation of the engine crates; the operation
calls PostgreSQL (`psql` or a client), ClickHouse over HTTP, the service manager
or Docker, and the file system. SENTIENT itself runs beside it and writes to the
same database until it is stopped. The update screen and the migration screen
share the kept copies with the Kept list, which can remove them. Setup's
maintenance and the manager's screens write the same installation record.

The screens stay open while a job runs: the manager locks neither the navigation nor
the jobs of other screens (manager/mod.rs:284-306, 349-419). So in the middle of an
update Control can start SENTIENT (control.rs:152-158) and Kept can drop a database by
force (kept.rs:206-235). SafeUpdate, DockerUpdate and Migration have a constant for what
the operator does while a job runs (`Meddles`, `StartsAt`, the steps of `RemoveKept`),
and each one's section says what then holds and what does not. Manager has two screens'
jobs at once, over the record. In Restore, Archive and the setups the operator's starts
and removals come between the jobs only: left out, and said in their sections.

The hazards, each with its line in the source and the properties that cover it,
are in `PROJECT.json`.

## SafeUpdate: update and rollback of a native installation

`SafeUpdate.tla` models `safe_update` and `rollback` of IC/native/safe_update.rs.

State. `dirs` gives, for the three directories, what each item of `ITEMS` holds:
the tree of a version, nothing, or a partial tree. `marker` is the copy
`ROLLBACK.txt` names. `dbs` maps each name a database can have (the name in use,
and `before`, `failed`, `rolled` with a minute) to its identity, schema, stored
writes and whether it lets connections in. `service` says whether SENTIENT runs.
`pc` is where the running job is; `pkg`, `snapshot`, `aside`, `undoDb` are its local
variables. `pre`, `acked`, `last` and `meddled` are history variables: what was there when
the job had stopped SENTIENT, which writes were stored while no job ran, how the last
job ended, what the operator did in the course of it.

Actions. One action is one call that changes something. What the two jobs share is
an operator over the program points it is entered and left by: `StopServer`
(`stop_server`), `MoveItems` (`move_items`, `swap_back`, the first loop of
`swap_in`, one item a step), `Close` ... `Open` (`exclusive` around its statement),
`SetDatabaseAside` and `PutDatabaseBack` (`restore_database`), `StartService` and
`Check` (`start_and_check`). The four lists `SafeUpdateStep`, `UndoUpdateStep`,
`RollbackStep`, `UndoRollbackStep` then read like the functions. A call at a point
in `MayFail` may fail, as long as the job's budget of `faults` lasts, and leaves
what a failure of it can leave: a directory removed in part, a database migrated in
part (the schema `Partial`), connections refused. Around the job the clock moves,
SENTIENT stores writes, the operator starts SENTIENT from Control and removes kept
copies, between jobs and, as far as `Meddles` says, at any step of one, and the job is
killed anywhere.

`DatabaseVault.tla` is the abstract specification of what happens to the databases:
with names left out there is a set of databases; one is copied, one is written to,
one is migrated only while an exact copy exists, unless others acted on the databases in
the course of the job (`disturbed`, here `meddled # {}`), and databases go only when what
is to be kept is in others. `ImplementsVault` is the refinement.

Runs (module `MCSafeUpdate`):

| Run | Bounds | Shows |
|---|---|---|
| failures | 2 versions, 2 items, 2 jobs, any call fails once per job, 1 kill, both jobs may be in the same minute, SENTIENT started and copies removed at any step | `SnapshotHeld`, `WritesKept`, `ImplementsVault` |
| single | 3 versions (two with an item more), 2 items, 3 jobs a minute apart, one failure per job at any call but six, SENTIENT started at any step, copies removed between jobs, fairness | `FailedUpdateUndone`, `FailedRollbackUndone`, `RollbackPointCoherent`, `EndsRunning` |

The bounds. Two items are the fewest with a failure between two renames. Two jobs are an update and the
rollback of it, or a second update over the first; three add a rollback after a
second update, which meets what two earlier jobs left. One failure in each job
reaches every undo path; a second failure inside an undo is what the code reports
and gives up on. One kill between any two steps followed by a whole job reaches
every state a killed job leaves. `single` leaves out the two failures the code does
not recover from (`clear`, removing the earlier `previous-version`, and `r_aside`, moving
the current version to `rolled-back-version`), those `EndsRunning` has to leave out (below)
and two jobs in the same minute, whose copies would have the same name; `failures` has all
of them.

With `r_aside` in `MayFail`, `FailedRollbackUndone` is violated: `rollback`'s undo moves
`install_dir` over `previous-version` whatever the first move left there
(safe_update.rs:575), although "If the previous version does not come up, everything is put
back as it was" (safe_update.rs:519). A job killed between the renames of `swap_in` leaves
the only copy of some items in `previous-version`, which the next update removes first: the
databases survive (`SnapshotHeld`, `WritesKept`), the program has to be installed again. A
failed update leaves behind items only the new version has, which the version that is back
does not load.

The operator during a job. What the code promises then is less than it does alone, and
the properties say how much less.

- Started from Control between the stop and the copy, SENTIENT stores into what is about
  to be copied; between the copy and the upgrade, into a database whose copy lacks it. In
  both cases the copy has all that was there at the stop (`SnapshotHeld`), which is what
  the undo gives back (`FailedUpdateUndone`). It is exact, as the vault wants it for a
  migration, only when nothing of the kind happened.
- Removed in Kept while the job runs, the copy is gone, and no property says anything of
  it: `SnapshotHeld` ends with the removal, and `FailedUpdateUndone`, `FailedRollbackUndone`
  and `RollbackPointCoherent` are checked with removals between jobs only. With `remove`
  in `Meddles` they do not hold.
- `WritesKept` and `ImplementsVault` hold with both. What the operator gives up by removing
  a copy is what no lasting database has. `Lasting` leaves out one case more: removed while
  a rollback runs, the copy frees its name, and the rollback's undo then gives that name to
  the database in use (safe_update.rs:552-560), which the next update drops.

Control's stop and restart during a job are left out. On Linux a stop acts on a job the
way a failure at `check` does, which is injected; on Windows it also stops PostgreSQL, and
every statement after it fails.

Fairness. `FairSpec` assumes only that the job's own steps go on (`WF_vars(JobStep)`):
a thread runs until it returns, every call in it has a timeout or is a local
command. Nothing is assumed of SENTIENT, of the clock or of the operator.
`EndsRunning` leaves out three kinds of failure: that stopping times out (whether the
service comes up then is up to the service manager), that connections cannot be let
in, and that the last start itself fails.

Proofs. `SafeUpdateProofs` proves the type invariant, `SnapshotSafe`, `WritesSafe` and
the refinement, for any number of versions, items, failures, kills, jobs and writes, from `SafeUpdateAssumption` alone.

- `TypeInv` is `TypeOK` and `DatabasesThere`: at each step that renames, copies or opens
  a database, the database it names exists.
- `SnapshotSafe`: `SnapshotInv` says, per program point, where the copy is. While it is
  made SENTIENT is stopped, unless started from Control, and the database in use has all
  it had then; from then on the database named `snapshot`, a name of the kind an update
  drops, has it, unless removed in Kept; and while the undo works `aside` is a name of the failed one, so never that of the copy.
  It is needed because `SnapshotHeld` says nothing of the steps before the copy is made.
- `WritesSafe`: `WritesInv` says that what was stored while no job ran is in a
  database whose name is not one an update drops, or, while a rollback puts the
  copy back, still in that copy. The only statement that drops databases names those
  before an update; every other step renames one or adds one.

- `KeepsTheVault` proves the refinement. Most steps only rename
  a database, open or close it, or leave the databases alone: they are no step of
  `DatabaseVault` (`Quietly`), for which no two databases may have the same identity
  (`Distinct`; a set would lose one of two equal ones). The copy, the migration, the
  pruning, a write and the operator's removal are one step each. That the migration
  finds an exact copy is `VaultInv`: SENTIENT stays down from the copy to the migration
  when the operator leaves the job alone. In the other case the vault asks for no copy,
  and the theorem is about all that is left of it: nothing but the migration changes a
  schema, and nothing goes whose writes are not in others.
  `SnapshotInv` alone would not do, it compares the copy with what was there when
  SENTIENT was stopped, not with what is migrated. That what is pruned is stored
  elsewhere is `WritesInv`.

Its second half proves `FailedUpdateUndone`, `FailedRollbackUndone` and
`RollbackPointCoherent` under `OneFailure`: at most one failure per job and no kill, jobs in
different minutes, copies removed between jobs only, and the two calls work whose failure the code does not undo (`clear`,
which removes the earlier previous-version, and `r_aside`; see the hazards). These are the
restrictions of run `single`, in which as in the theorems SENTIENT may be started at any
step; the proof needs none of that run's others (it also lets
stopping SENTIENT, letting connections in and the answer to a dry run fail, which
`EndsRunning` does not survive) and holds for any number of versions, items, jobs and
minutes. With two failures in one job, the second in its undo, none of the three holds.

The invariant, `UndoInv`, says at each step where everything is, one predicate for each
stretch of a job. TLC found it to hold on the bounds of run `single` before it was proved.

- An item on its way is in one of two directories and not in the other (`Moving`), so
  moving back those that are there completes the undo, wherever the move stopped.
- In every undo `faults = 0`: its own failure has been spent. For the check after the
  start this needs that files and database fit, because only then is a job that does not
  come up one that failed (`Migrated` for the update, `Switched` for the rollback).
  So nothing in an undo fails, and `Fresh` says that no rename in it meets a name.
- `Point` says that what a rollback would choose fits: the files in previous-version, and
  every copy its marker allows. While a rollback runs the same is said of the other copies
  (`Others`), the chosen one being `Restorable`.

The three are proved together: a rollback whose copy did not fit would fail its check
with no failure spent, and its undo could then fail as well; and a job begins from what
the last undo left. `UndoInv` uses `SnapshotSafe`, for what the copy holds that the undo of
an update puts back. `EndsRunning` is liveness and stays with TLC.

What the module leaves out: disk space and the size query before the copy (they
refuse before anything changes, like a failing copy), the report's text, package
unpacking (`staged` in APP/updating.rs), on Windows the rename of a program that still runs
(it fails, as any rename in `MayFail` may), Control's stop and restart during a job (above),
breaking changes the operator accepted
(a dry run refuses or it does not).

## DockerUpdate: update and rollback of a Docker installation

`DockerUpdate.tla` models `safe_update`, `rollback`, `reconfigure` of
IC/distro/docker_ops.rs, `control` of IC/distro.rs, and the record that `run` and
`rollback` of APP/updating.rs write when they return.

State. `tag` gives the version each image reference names: the references an update
can ask for (`Refs`) and the two tags the jobs make, `:spm-previous` and
`:spm-rolled-back`. `compose` is the reference in the stack's compose file, `container`
the version SENTIENT's container was created from, `running` whether it is up,
`record` the image reference and version in `installation.json`. `dbs` and the history
variables are as in `SafeUpdate`; two more, `disturbed` and `unpaired`, are explained below. What distinguishes Docker is that three things say
which version is installed (the container, the compose file's tag, the record) and
only `docker compose up -d` (`Up`) makes the first agree with the second.

Actions. One action is one docker command (`Keep`, `Pull`, `StopApp`, `Retag`, `Start`,
`RemoveTags`), one SQL statement (`Close`, `CopyDatabase`, `Open`, `SetDatabaseAside`,
`PutDatabaseBack`, `DropOlder`), the tool run on the new image (`DryRun`, `RunUpgrade`),
the waiting for an answer (`Check`, `LastCheck`) or the writing of the record. The four
lists at the end of the jobs read like the functions. A rollback's undo has two
entries, because it puts the database back only if it was swapped. Around a job the
operator does what `Operator` holds (starts and stops the stack, loads images, saves
settings, removes kept copies), and during one what `Meddles` holds: start, stop, remove.

External behaviour: an image that starts on an older schema upgrades it (what the
module's first comment says) or stays down; both are allowed.

| Run | Bounds | Shows |
|---|---|---|
| docker_recovers | 2 versions, 1 reference, 3 jobs a minute apart, one failure per job at any call but two; start at any step; stop, reconfigure and removals between jobs | `FailedUpdateUndone`, `FailedRollbackUndone`, `RollbackPointCoherent`, `ImplementsVault` |
| docker_anything | 2 versions, 2 references, 2 jobs that may share a minute, any call fails once per job, 1 kill, images loaded by hand, copies removed at any step | `WritesKept` |

The bounds. Three jobs are an update, a second one and a rollback, or an update, a
rollback and an update; with two versions the second update goes back, or to the version
there is. `docker_recovers` leaves out two failures: stopping SENTIENT at the start of an
update, and putting the tag back after a refusal, which `put_image_back` does not notice.
With the first (`stop` in `MayFail`) `ImplementsVault` is violated: the pull has moved the
tag already, and `compose up -d` (docker_ops.rs:472) then starts the new version on a
database nobody copied, although "the database is copied before the new image ever runs"
(docker_ops.rs:8-10). It has no kills: after one the tag may name a version
nobody checked, and the code has nothing that notices (see the hazards); that no write
is lost then either is what `docker_anything` shows. It has one reference, the case of
the button that updates to whatever the installation's own reference names now: with
two, an update to a version by its own tag pulls the reference in the compose file and is
refused with that one moved (see the hazard at update.rs:95).

The operator's hand. In two ways what the operator does, on a screen that stays open,
takes from an update what it promises, and the code does not stop it.

- `RemoveKept`. `rollback_point` pairs `:spm-previous` with the newest copy there is
  (docker_ops.rs:560-568), and an update's failure to drop an older copy is ignored
  (docker_ops.rs:539-541). Two updates, the second of which left the first one's copy, and
  the newest copy removed in Kept: a rollback is then offered that puts the second
  update's previous image on the first one's database. So `RollbackPointCoherent` is said
  of rollback points the operator has not touched: `unpaired` is set when the copy a
  rollback would choose is removed, or when the operator acts during a job, and cleared by
  the next update nobody disturbed (`DropOlder`). Removing any other copy leaves it as it is.
- `ControlStart` during an update, after the pull, is `compose up -d` with the tag already
  moved: the new image starts, before anything is copied or tried, and upgrades the
  database. `ImplementsVault` therefore asks for the exact copy only while `disturbed` is
  false: from a start, stop or removal during a job until a job begins with everything in
  order (`InOrder`), or, for a rollback, with its rollback point untouched as well. The undo
  of such an update puts the previous image on the upgraded database, so
  `FailedUpdateUndone` and `FailedRollbackUndone` too speak of jobs the operator kept out of.

The runs have start (docker_recovers) and removal (docker_anything) during a job. With
start, stop and remove during jobs together the state space outgrows a run; checked once with
two jobs and three versions (1.1 million states), and start with remove with three jobs (2.3
million), the properties hold, as the theorems say for all values. Reconfigure and Load
during a job are left out: a settings job while an update runs rewrites the
compose file under it, and what the container is then is the settings' doing.

Proofs. `DockerUpdateProofs` proves `TypeOK` and `WritesKept` for any versions, references,
failures, kills and jobs, from `DockerAssumption` (the two special tags are no references, the
markers are no values, `Operator` and `Meddles` are sets of the acts named above). `WritesKept` is not inductive: the undo of a rollback renames the
database in use to a copy's name (docker_ops.rs:618), and copies are what the next update drops.
The invariant adds why that is safe (`Swapped`): from `rollback`'s beginning on the copy is
there, so the rename is refused, or it has become the database in use, and then what the
rollback set aside holds every write, or the operator has removed it, and with it what
`Lasting` no longer counts. The rest of it says that the name made for the
replaced database is never a copy's (`Named`) and what each statement finds (`Present`).

Its second half proves `FailedUpdateUndone`, `FailedRollbackUndone` and
`RollbackPointCoherent` under `OneFailure`: at most one failure per job and no kill, jobs in
different minutes, the two calls work whose failure the code does not undo (`stop`, after the
pull has moved the tag, and `abort`, which moves it back; see the hazards), and one reference
that nobody moves by hand. These are the restrictions of run `docker_recovers`, for any
number of versions, jobs, minutes and writes, and whatever the operator starts, stops and
removes, at any step. The invariant says `UndoInv` as long as `disturbed` is false and, when
it is true, only what the clock and the bounds are (`Bearings`); a job that begins in order
leads back to `UndoInv`. `UndoInv` held on that run's bounds before it was proved.

- `Point`: when no job runs, what a rollback would choose fits: the image `:spm-previous`
  names and the newest copy of the database. A job ends with a new pair (`DropOlder` has
  found the copy just made the youngest, `Youngest`), with the old one, or with no previous
  image, or one that is the image in service, which `PointImage` does not count. It is said only
  while `unpaired` is false (`Paired`).
- `InService`: the tag, the container and the schema of the database in use agree.
  `compose up -d` then changes nothing, and no image upgrades a database by itself, wherever
  an undo or the operator starts the stack (`UpStarts`, `OperatorStays`).
- In every undo `faults = 0`: for the checks after a start this needs that container and
  database fit (`Migrated`, `Switched`) and that connections are let in; a copy keeps
  letting them in (`Dated`), and where the update's own call to do so failed, the failure
  is spent.
- `Fresh` and `Dated`: nothing is named after this minute or a later one, so no rename in a
  rollback or an undo meets a name. Two jobs in one minute would break this; the run
  `docker_anything` has them.

The three are one invariant: a job begins from what the last one left, and its undo puts
back what `Point` and `InService` say of that.

`KeepsTheVault` is the refinement, under `OneFailure` as well: where the stack may be
started on a tag nobody checked, an image upgrades a database of which there is no copy
(the hazard at docker_ops.rs:472). A step is `Silent`, no step of the vault, or it is the copy,
the trial's upgrade (`RunUpgrade`), the dropping of older copies or a write, one step each.
That starting the stack is silent is what `UndoInv` says of each place where it happens
(`StartSilent`); that the upgrade finds an exact copy is `VaultInv`, SENTIENT being down from
its stop to the upgrade; that what is dropped is stored elsewhere is the invariant of `WritesSafe`.

Left out: disk space, secrets, the wait for PostgreSQL, the stack's other containers,
the report's text; `distro::update`, the command line tool's update without a copy.

## Migration: changing the database type

`Migration.tla` models `run`, `resume`, `prepare_stores`, `undo_stores` and
`copy_history` of APP/migration.rs, the table work and the copy by months of
BC/telemetry_move.rs, the removal of kept history in APP/kept.rs, and what
`deploy` does to tables and image on the way (IC/distro.rs, IC/native.rs).

State. `stores` gives each table that history is or was in (`ts_kv`, ClickHouse,
and one name per job for a `ts_kv` set aside) its layout, its rows (the value
stored for each key and time, 0 for none) and the months whose partition does not
bear the name `ts_kv` partitions have. `latest` are the two tables of latest values, `conf` and `image` what
SENTIENT and PostgreSQL are started with, `record` is `installation.json`, `state`
is `migration.json`, `now` the clock. `pc`, `old`, `new`, `aside`, `cutover`, `leg`,
`month` are where the running job is and its variables. `acked` (what SENTIENT has
stored and nobody removed), `pre` and `last` are history variables.

Actions. One action is one step of the job that changes something: `BeginMigration`
with the guards of `run`, `Prepare` (install ClickHouse, back up), `StopSentient`,
`PrepareImage`, `SetAside`, `CreateTable`, `BringLatest`, the switch (`Deploy`,
`Answer`), the two ways back (`ImageBack`, `RestartAsWas` before the switch;
`UndoStop`, `UndoStores`, `UndoDeploy` after it), `WriteRecord`, `SaveState`, and the
copy (`CopyWindow` for one month from one source, `CopyLatest`, `Finish`). `Resume`
continues from the state file. A step that fails or during which the job is killed
leaves what `HalfDone` says: the new configuration without its image, the
partitions renamed without their parent, a plain `ts_kv` that is not a hypertable yet,
part of a month in ClickHouse. Around the job SENTIENT writes, late values of
earlier months too, the clock moves, the operator starts SENTIENT (`StartByOperator`,
between jobs and at the steps of `StartsAt`) and removes kept history (`RemoveKept`, between
jobs and while a migration prepares or copies).

Runs (module `MCMigration`: two keys, two months of two or three times each):

| Run | Bounds | Shows |
|---|---|---|
| migration_history | native and Docker, any type to any type, 2 jobs from a non-empty history, one failure per job at any step but the eight below, 1 kill while preparing or copying, 2 writes, SENTIENT started by the operator at any step but the switch's, removals of what no copy reads, also while preparing and copying, `FairSpec` | `NothingDeleted`, `HistoryReachable`, `LatestNewest`, `FailedMigrationUndone`, `SourceKept`, `CopyFinishes` |
| migration_late_answer | the late answer | a sentence of the code's documentation the code does not keep: see the finding in `PROJECT.json` |

The bounds. Two jobs are a migration and the way back, or a migration that failed
or was killed and another one: the second meets the tables, the latest values and
the image the first left. Two months make the copy stop between months and SENTIENT
write into one that is copied and one that is not; the second source of a copy
(the store left and a table set aside) needs no third job, as a migration from
ClickHouse to a type whose `ts_kv` has another shape has both. Two writes are one
before and one during a migration, or one on time and one late. One value is stored
once (`MaxVersion` 1): with 2, a value corrected after a move and then moved back is
shown uncorrected, because the code compares months by count and sums (see the hazard
at telemetry_move.rs:422), and `HistoryReachable` fails.

What `migration_history` leaves out: failures at `create`, `latest`, `record`, `save`,
`image_back`, `u_stop`, `u_stores`, `u_deploy`, after which the code does not say it
recovers, or says it does and does not; kills at other steps, which leave the installation
between two types; the removal of a table an unfinished copy reads from (kept.rs:206), after
which the copy neither finishes nor can be given up; and an empty history (`MCOrNone`), with
which `set_aside` drops `ts_kv` instead of renaming it, so that the undo of a failed switch
finds nothing to put back. What holds in all of these is proved: `NothingDeleted` and
`SourceKept`, for every failure, kill and removal.

Control lets the operator start SENTIENT during the switch too (manager/mod.rs:284-306), and
the code does not survive that everywhere: SENTIENT stores into a table that is about to be
set aside, replaced or dropped, which is what the late answer does as well. With `create`,
`deploy`, `answer`, `u_stop` or `u_stores` in `StartsAt` TLC finds `NothingDeleted` violated;
with `image`, `aside`, `latest`, `image_back` or `u_deploy`, `HistoryReachable` (what is stored
after the switch's time is in a table the copy reads only up to that time). `restart` does
no harm. So `StartsAt` of the run, `MCServing`, is every other step. Control's stop during a
job makes deploying or the copy's end wait and fail, which is injected, and is left out, as is
the removal of kept tables from the stop to the saved state.

Fairness. `FairSpec` assumes that the job's steps go on (its thread runs until it
returns) and that the operator continues an interrupted copy (`WF_vars(Resume)`),
which the migration screen offers until it is done. `CopyFinishes` holds because a job's
budget of failures is finite; `Resume` does not renew it.

Abstractions. A value is a number that says how often it was stored. SENTIENT takes
no writes between its start and its answer, except when `LateAnswer` lets it come up
after the wait. The comparison of a month and its insertion are one step, because
nothing writes to what is being copied (`SourceKept`); the target may be written to
before and after. ClickHouse shows either of two rows with one key until it merges them, so
inserting over a row chooses. Left out: the content of the backup, disk space, whether
the TimescaleDB extension stays in the database on an image without it (the code
decides by the tables' layout, which is modelled).

Proofs. `MigrationProofs` proves `TypeOK` and every safety property of the runs, for any
number of keys, times, months, jobs, failures, kills and writes, both engines, from
`MigrationAssumption`. `NothingDeleted` also needs `LateAnswer = FALSE`, without which it is
false (run `migration_late_answer`), and no step of the switch in `StartsAt` (`NewStart`); the hypotheses of `FailedMigrationUndone`,
`HistoryReachable` and `LatestNewest` are below.

- `TypeInv` adds to `TypeOK` that what is to be put back exists, and that a copy has
  a state file and a source at its position.
- `KeptInv`: no table bears a name above the last job's number, so that setting
  aside overwrites nothing; from before `ts_kv` is set aside until it need not be put
  back SENTIENT is stopped, and the operator does not start it, so that the `ts_kv` the undo drops is empty. The lemmas show
  of each other step that every table keeps its rows (`Keeps`).
- `SourceInv`: no job but the copy runs while a copy is unfinished, and SENTIENT is
  configured for the copy's target, so that neither writes to the copy's sources.

`FailedMigrationUndone` is proved from `Recoverable`, which says what `migration_history`
checks: no late answer, no start by the operator during the switch, a history at the beginning, removals of what no copy reads, no
failure at `create`, `latest`, `record`, `save` and the undoing steps except `u_stop`, no kill
from the image to the state file. It bounds neither the failures of a job nor the kills
elsewhere. The theorem says nothing of the runs it excludes; those are the cases listed above
in which the installation is left between two types. Its inductive invariant has four parts,
each checked by TLC first with two failures per job and kills at `stop`:

- `SetupInv`: between jobs SENTIENT has the configuration of the record and the image that
  goes with it, and until `deploy` a native installation keeps its configuration; putting the
  old one back therefore restores what `pre` recorded.
- `SwitchInv`: from the stop to the answer SENTIENT is down, and `ts_kv` is as it was, or is
  the table set aside, or was empty and not in use.
- `UseInv`: between jobs the store in use has rows, or a row waits in a source the copy has
  not passed. It is needed because `set_aside` drops an empty `ts_kv`: the undo works
  only if the table in use is not empty, after any number of migrations before. Its step
  through a month uses that equal fingerprints mean equally many rows (`CopiedHolds`).
- `Past`: no stored value has a time to come, so that what is stored when SENTIENT stops is
  before the switch and will be copied.

`HistoryReachable` and `LatestNewest` are proved from `Recoverable` and, for the first, from
`MaxVersion = 1` (with a correction it fails, see above). What they need of the copy is that a
month skipped because its count and sums are equal lacks no row (`FingerprintsTell`); the
theorems `HistoryIsReachable` and `LatestIsNewest` assume it of the behaviour. The code does not
ensure it: TLC finds it to hold with `migration_history`'s constants and to be violated when both
keys may be late and three values are written. `HistoryOnTime` proves it when no value is
late (`LateKeys` empty), whatever the other constants. So a row is passed over by the copy only
if values with a time before the switch arrive while it runs, and their number, keys and times add
up to those of what is missing. The invariants, each checked by TLC first with more faults,
kills, writes or versions than the run has:

- `ReachInv`: during the switch every value is from before it and in the store left, or in
  the `ts_kv` that `pre` recorded; from the answer on each is in the new store or waits in a
  source of the copy, at its place or after it.
- `LatestInv`: where the newest latest value is at each step. From ClickHouse it is brought
  to PostgreSQL before the switch; to ClickHouse only at the end of the copy, and until
  then one of the two stores has it.
- `OnTimeInv`: what is in a table was stored by SENTIENT; the first source of a copy has every
  value of before the switch, and the target has those of the months passed. Of two months
  compared one therefore contains the other (the source the target's while the first source
  is read, the target the source's after it), and equally many rows are the same rows.

`CopyFinishes` is checked and not proved: it is liveness.
## Restore: restoring a backup and putting it into service

`Restore.tla` models `restore` of APP/backup_jobs.rs (the page of APP/manager/backup.rs
makes the same calls) with `run` of BC/restore.rs below it, and the switch, `run` of
APP/restore_switch.rs, with APP/secrets_key.rs.

State. `pg` holds PostgreSQL's databases by name: whose data each holds (`data`: 0 for
this installation's own, else the number of the job that restored it), its schema seen
from the installed SENTIENT, the key its passwords are sealed with, the key file noted in
its comment, the writes in it, whether connections are let in. `ch` holds, for each
ClickHouse database, whose data its two tables hold. `keyfile` is SENTIENT's key file,
`wanted` whether its service is to run, `server` whose data the running SENTIENT loaded.
`job` is what the running job works with (the locals of `run`).

Actions. One action is one statement or command: `CreateDatabase`, `CloneSchema`,
`ReadArchive`, `Load`, `LoadTelemetry`, `ImportTables`, `Convert`, `MatchSchema`, `NoteKey`
for the restore; `PlanSwitch`, `StopSentient`, the renames (`RenameStep`: shut, rename, let
in), the exchanges of one table at a time, `InstallKey`, `StartSentient`, `Wait` for the
switch, then the undo of each place `run` returns an error from. Around them SENTIENT
starts, stores and rotates its key, and a job is killed.

What the code does not check is not checked in the model either: `BeginSwitch` takes any
name there are databases of, the results of the undo's calls are dropped, and a database
whose restore failed stays.

| Run | Bounds | Shows |
|---|---|---|
| restore_switch | native with ClickHouse and Docker without, 3 jobs, one name to restore into, 3 backups (older of this installation; another installation's and type, with its key file; newer, without), one failed call per job, 1 kill, 1 rotation, 1 write, 2 minutes | `DataKept`, `MatchedInService`, `KeysKept`, `FailedSwitchUndone` |

The bounds. Three jobs are enough to restore, switch, and restore again into a name whose
ClickHouse database now holds the data from before, or to switch twice with a failure in
between. The kinds of installation differ in steps (ClickHouse) and in who upgrades an
older schema (Docker); the two kinds together take every step. In `restore_switch` an
exchange fails only when ClickHouse refuses that table each time, the case the undo is
written for; any failure that passes (`exchange` in `MayFail`) violates `FailedSwitchUndone`: exchanging
both tables again, whichever of them had been exchanged (restore_switch.rs:222), puts the
restored history in service under the live database, although "A partial exchange is undone
by exchanging again." (restore_switch.rs:221).

What the properties leave out, because the code does: after a kill, and after a call of
the undo itself failed, only `DataKept` holds; a key rotated between the switch's look at
the key file and its writing it is lost (`raced`); a database restored in part may be in
service if the operator asks for it by name. After a failed switch the restored database
is not always unchanged, as the report says: SENTIENT may have started on it, upgraded its
schema (Docker) and stored values in it.

Proofs. `RestoreProofs` proves `TypeOK` and `DataKept` for any names, backups, keys, writes,
failures, kills and jobs, from `RestoreAssumption`. `DataKept` is not inductive; the invariant
adds what a job may have before it at each step (`Placed`): a restore fills only a ClickHouse
database it has made itself, whose tables hold nothing or this job's data; both ClickHouse
databases are there throughout a switch; a database that is renamed is there and its new
name is free. From it follows that the tables of all data restored completely are always
in some database (`Tabled`).

Its second half proves the other three properties, for the same constants, from
`NoTransient`: an exchange of ClickHouse tables fails only because ClickHouse refuses that
table, and then refuses it again. The run has the same restriction, and without it the
properties are false (the hazard at restore_switch.rs:222). Three invariants build on one another:

- `Undoable` says of every step of a switch how the databases, the tables and the key file
  differ from those there were when it began (`was`): which database stands where
  (`Arranged`), which tables are exchanged (`Moved`), whether the key file is written. What an
  undo does from there leads back, so that `FailedSwitchIsUndone` holds of its last step.
- `Together` says that every set of data is under one name, with both of its ClickHouse
  tables if it was restored completely, and that SENTIENT has loaded what is in service, or
  is stopped. While a switch runs the first is said of `was`: the states between are reached
  from it by renames (`Undoable`). From it follows `MatchedIsInService`.
- `KeyOpens` says the same of the keys: all data that are to be opened are opened by the
  file there was when the switch began, and what is put in service by the one it will write
  (`KeyPlanned`). From it follows `KeysAreKept`.

A key file is its current key and the set of the others: which of the others
is tried first makes no difference to what it opens.

What the operator does on other screens comes between the jobs: SENTIENT's start from
Control during a switch is left out. Checked once with that action added to a copy of the module
(10.7 million states), `DataKept`, `KeysKept` and `FailedSwitchUndone` still hold;
`MatchedInService` does not, because SENTIENT started between the renames and the exchanges has
loaded the data of one with the history of the other, until it is started again. Left
out too is the removal in Kept of the database a switch has just set aside (kept.rs:103 lists it
as soon as it is renamed), after which the undo has nothing to put back.

Left out: the members of the archive and the file stores (`Archive` has them), temporary files, a key set in the environment, disk space.

## Archive: making and restoring a backup

`Archive.tla` models `run` of BC/backup.rs with the readers it calls (`partitions_of`,
`dump_compressed`, `copy_out_compressed`, `export_all`, the file stores, `write_archive`)
and `run` of BC/restore.rs with `verify_all`, `restore_as_backed_up`, `restore_converted`
and the file stores' extraction.

State. `live` is the running installation's database (rows of `ts_kv` with the write each
is from, its partitions, ClickHouse's history, latest values, reports, a device), `store`
the files of its reports, `job` what the running job has read so far (the staged
members), `archive` the backup file (its manifest, the members listed and those written),
`target` the database the last restore went into.

Actions. One action is one read of the live system: `List` the partitions whose rows are
left out, `DumpDatabase`, `CopyTelemetry`, `ListMonths`, `CountMonth` and `ExportMonth`
of each month of ClickHouse, `ExportLatest`, `ArchiveFiles`; then `CreateArchive` and one
`WriteArchive` per member. A restore is `ReadArchive` (with the verification),
`Load`, `LoadTelemetry`, `ImportMonth`, `ImportLatest`, or `Convert`, then `Extract`.
Between any two of them SENTIENT stores values, makes reports, configures a device,
ClickHouse merges; a call fails or the job is killed (`Stop`); a member of the archive is
damaged (`Damage`).

| Run | Bounds | Shows |
|---|---|---|
| archive | the three types of database, restored into each, two months of two times and of one, 4 choices of what to back up, 2 writes, 1 backup, 1 restore, 1 failed call or kill, 1 damaged member | `SelectedRestored`, `ReportsHaveFiles`, `Restorable`, `OnlyWholeRestored` |

The bounds. One value stored between two reads of the same table is what a backup of a
running system has to stand; two let the first be overwritten (a merge) or two months
change. One backup and one restore: a second would start from the same state, since a
restore goes into a database made for it.

Three things do not hold for the code, and the run leaves each out by a named constant of
`MCArchive`. Each is reproduced by changing that constant alone:

- a month that begins after the partitions were listed and before `ts_kv` is copied is in
  the dump and in the copy (`MonthAt` with "dump" or "copy"): the restore fails on its own
  backup, `Restorable`;
- a merge in ClickHouse between the count of a month and the rows that are counted, on
  either side (`MergeAt` with "ch_export" or "import"): the number differs, `Restorable`;
- latest values selected without the whole history on ClickHouse (`Offered` set to
  `MCOfferedAll`): without history they are not exported, and converted from the last N
  days they are only those days', `SelectedRestored`.

Also seen, and modelled as the code does it: backups from the command line pass no file
stores although the module says "everything included" (APP/backup_jobs.rs); the archive is
written over an earlier one of its name; PostgreSQL's latest values are those of the
dump's moment and may be behind the history copied after it.

Proofs. `ArchiveProofs` proves the four properties for any rows, months, types of database,
choices, writes, backups, restores, failures and damaged members, from `ArchiveAssumption`.

- `Inv` says what every member read so far holds (`Holds`): everything that was due when the
  backup began and nothing newer than the live database and its file store. `Kept` compares
  the two: the live one has each value of the earlier one, or a newer one. A finished backup
  holds all of its members (`Complete`), an archive that is read the members it lists
  (`Verifying`), and each step of a restore what it has put in so far (`Stepping`). From
  `Inv` follow `OnlyWholeIsRestored` and `ReportsKeepTheirFiles` without further assumption,
  and `HistoryIsRestored`: the part of `SelectedRestored` that no choice of the operator spoils.
- `SelectedIsRestored` assumes what the run's `Offered` does, that on ClickHouse latest values
  are chosen together with the whole history. It is not only a bound: without it the code does
  restore less than was selected (above).
- `AlwaysRestorable` assumes `Quiet`, that no month begins between the list of the partitions
  and the copy, and that ClickHouse does not merge around a count. Under it `AgreeInv` says of
  the counts and partitions of each member that they are those of the rows it has.

Left out: the bytes of Native, COPY, tar, zstd and age (what each holds is modelled), the
components recorded next to the data, progress, disk space.

## Setup: installing on Windows

`Setup.tla` models the wizard of APP/installer (the plan, `run`, retrying, the restart
for WSL2 and resuming after it), IC/native.rs with IC/kept_db.rs and
IC/native/adopt_windows.rs, IC/clickhouse_wsl.rs, the password store of APP/secrets.rs,
and repair, settings and removal (APP/maintenance.rs). `KeptDatabase.tla` is what
IC/kept_db.rs decides about a database an earlier installation left: keep it, set it
aside, or refuse it. The three setups share it.

State. `pc` is the computer: the downloaded and unpacked files, the PostgreSQL cluster
(its port, roles, passwords, whether it asks for one, its databases by name), ClickHouse's
databases, the service's settings `env`, the manager's saved passwords, the record, the
saved plan. `at` and `job` are the running job's task and plan. `held` are the databases
and histories SENTIENT has served and nobody deleted.

Actions. One action is one task of the plan: `Wsl` and `Provision` for ClickHouse,
`DatabaseSteps`, `KeptSteps`, `DeploySteps`, then the administrator, the passwords and the
record. A task first looks at the computer, as the code does ("already present"), so
that a setup can be run again over what one that failed left; which file, service or
database makes it think so is what the model is about. Any step may fail, be cancelled
or be the last before the manager is killed; those of `TearAt` may end half done. What
the operator starts and stops (`Control`) comes between the jobs, here as in `LinuxSetup` and
`DockerSetup`: Control pressed while a repair or a settings job runs is left out.

| Run | Bounds | Shows |
|---|---|---|
| setup | 2 setups and 2 changes, every type, kept, fresh or nothing there, the same or another password, admin password and port, 1 failure | `SetupAgainFinishes`, `KeptSurvives`, `CredentialsAgree`, `InstalledAsChosen` |

The bounds. One setup that fails at any task and one that is run over it; two changes
are a repair, a new setting or a removal before and after. Two passwords and two ports
are the same and another.

A kept history is plain without rows, `filled` (plain with rows), partitioned, or a hypertable.
`Partition` is `stock_ts_kv_sql`: it partitions a plain one only if it has no row
(native.rs:1071-1083). PostgreSQL only over a `filled` one ends as "done" with the history as it
was found, because `verdict_from` says Fine of it (kept_db.rs:13-17), although SENTIENT cannot
write to it there (native.rs:1067-1069): `InstalledAsChosen` names the case (`AsFound`)
instead of denying it.

What the code does not survive is left out by a named constant, and is seen by changing
it alone:

- interrupted while downloading PostgreSQL or unpacking the package, setup fails at that
  task whenever it is run again: a file of the download's name counts as a finished
  download (native.rs:164), a package whose first program is there as an unpacked one
  (native.rs:1613), and there is no record yet to remove it by. The wizard says "run
  setup again to finish or remove it" (installer/mod.rs:661). `TearAt <- MCTearFiles`
  violates `SetupAgainFinishes`;
- a failure at `preload` leaves TimescaleDB's files without the line that loads them; with
  a third setup (`MaxSetups = 3`, `MaxChanges = 0`), one at `timescale`, `service` or `start`
  after a setup on another port leaves the new port in the file of a server running on the old
  one, and the next finds nothing to change and waits for a port nobody listens on:
  `SetupAgainFinishes`;
- a plan saved for the restart and resumed after another setup (`LateResume = TRUE`,
  `MaxSetups = 3`) installs over that one: `InstalledAsChosen`, `CredentialsAgree` and
  `SetupAgainFinishes`;
- a password that could not be saved is only logged (plan.rs:376): "secrets" in `TearAt`
  violates `CredentialsAgree`, because a repair then writes an older one.

Not stated: whose history a new database gets (a ClickHouse query that fails reads as an
empty ClickHouse, plan.rs:292, and Start fresh on another type leaves a history for a
later Keep); that a refused kept database (kept_db.rs:203) leaves the role's password
unchanged, which it does not; that adopting with a new `postgres` password and then
failing leaves the old one. Repair reports that SENTIENT was restarted although it runs
`sc start`.

Proofs. `AppProofs` proves `TypeOK` and all four properties, for any plans, passwords, ports,
failures and numbers of setups and changes, from `SetupAssumption` (plans are filled in, and a
password the manager makes, `NewSuper`, is one nobody entered) and `NoneAssumption`:

| Theorem | Property | Also assumed |
|---|---|---|
| `TypeCorrect`, `ServedDataSurvive` | `TypeOK`, `KeptSurvives` | nothing: every step may fail, tear or be killed, and a plan be resumed late |
| `PasswordsAgree` | `CredentialsAgree` | no plan is resumed after another setup; `secrets` does not tear |
| `SetupFinishes` | `SetupAgainFinishes` | no late plan; no failure at `timescale`, `preload`, `service`, `start`; no tear at `timescale`, `preload`, `service`, `postgres`, `stage` |
| `InstallationIsAsChosen` | `InstalledAsChosen` | no late plan |

The run's constants satisfy all of these. Each condition is one of the four cases above: TLC
refutes `SetupAgainFinishes` with any one of the failures and tears left in (those of
`timescale`, `service` and `start` with three setups), and the others as said there. Five
invariants, each checked by TLC first:

- `Inv`: which cluster, database and service there must be at each task, and that what `held`
  remembers is in service or set aside. It holds with every failure, and gives
  `KeptSurvives`: the place a kept database is renamed to is never one that is taken, and
  ClickHouse's histories are set aside before they are replaced.
- `PlanInv`: a setup that failed is tried again with the plan it had (the wizard cannot
  go back), so that what the first left on the computer, its port, passwords and settings,
  are still that plan's when the second skips the tasks it finds done (`Settled`,
  `Reached`). None of the three other properties is inductive without it, and it is what a
  late plan breaks.
- `PasswordsInv`: the settings have the role's password, and the store both or none.
- `FinishInv`: what a task needs, the tasks before it left whole, in this setup or an
  earlier one (`Provided`), TimescaleDB's files come with the line that loads them (`Loads`),
  and PostgreSQL stands still or runs on its port (`OnPort`).
- `ChosenInv`: at each task, whose database there is, of which shape (the chosen type's,
  or as it was found) and with which administrator (`Met`); with no choice made, that its shape can become the one chosen
  (`Fitted`).
## LinuxSetup: installing on Linux

`LinuxSetup.tla` models IC/native_linux.rs: `setup`, `prepare_existing`, `deploy`, repair
with passwords made anew, `reconfigure` under APP/settings.rs, `control`, `uninstall`,
`cleanup`, and adoption. The PostgreSQL and ClickHouse servers belong to the computer:
they stay, hold others' databases, and what an earlier installation left. A kept plain history
with rows is left as it is, as on Windows (`Partition`).

State. `pc.pg` and `pc.ch` are the two servers, `pc.env` the environment file (the only place
with the passwords), `pc.unit`, the programs, the record. A job is one or more scripts run as
root under `set -e`; one action is one of their commands that changes something. The
operator starts and stops SENTIENT, and loses files (`Lose`).

| Run | Bounds | Shows |
|---|---|---|
| linux_setup | 2 setups and 4 changes, plain PostgreSQL or ClickHouse, kept, fresh or nothing there, either password the same or not, a setting SENTIENT does not start with, 1 failure, half-done step, kill or cancellation | `SetupAgainFinishes`, `KeptSurvives`, `CredentialsAgree`, `SettingsTogether` |

Four changes are an adoption or a removal, a loss, a repair and a new setting in any order.

What is left out by a named constant, or said in the property, because the code does not
survive it:

- `CREATE USER IF NOT EXISTS` (native_linux.rs:310) leaves a ClickHouse user of an earlier
  installation its password: `SetupAgainFinishes` lets that one setup stop, although
  maintenance.rs:178 says the database "can be reused by a new install";
- parameters PostgreSQL does not start with cannot be put back, because the script that
  would needs a PostgreSQL that answers (settings.rs:147), although "If it does not start
  with the new settings, the previous ones are put back." (manager/settings.rs:101).
  `Values <- MCTooLarge` with `UnfitPg = {1}` violates `SettingsTogether`;
- a settings job killed between PostgreSQL's parameters and the record (`MCMayDie`).

Also as the code does it: after a setup that failed past the unit a new wizard says
"already installed"; deleting the data leaves databases set aside, and `DROP USER` then
fails unseen; Start fresh sets no ClickHouse history aside on Linux; a setup that reaches
PostgreSQL by its default port stops when an earlier one has moved it (the run has one
port).

Proofs. `LinuxSetupProofs` proves `TypeOK` and `KeptSurvives` for any plans, ports, settings,
failures, kills and numbers of setups and changes, from `LinuxSetupAssumption` and
`NoneAssumption` (what says "not there" is none of the things that may be there). `KeptSurvives`
is not inductive: nothing in it keeps `prepare_existing` from setting a database aside under
a name that is taken. The invariant adds `NamesOK`: the names of the installations to come,
and the running one's until it has set a database aside, are free, because a name is the
number of an installation (in the code the minute, kept_db.rs:157; PostgreSQL refuses a name
that is taken, which only a second installation in the same minute would meet). Most steps
keep all that is under any name (`Keeps`); a database set aside is still there under its new
name (`Preserves`); `cleanup` drops what it says is no longer to be held and nothing else.

The other three properties are proved in the same module.

- `PasswordsAgree` (`CredentialsAgree`) has no hypothesis: it holds whatever fails, tears or is
  killed. The property is about an idle manager with a record and an environment file, so it says
  nothing of the states on the way; the invariant `PasswordsOK` does. A registered service starts
  on the password PostgreSQL's role has (`UnitOK`), because a computer that restarts starts it.
  A recorded installation has the passwords that are taken or no environment file (`RecordOK`);
  then `reissue` makes new ones and sets both. An installation finds at each step the role's
  password as the steps before left it (`Installs`), and one that failed leaves what trying it
  again needs (`Tried`). A change of settings and a repair carry the passwords of the file
  (`Manages`).
- `SetupsFinish` (`SetupAgainFinishes`) assumes `Tunable`, that PostgreSQL starts with every
  parameter it is given, and `OnePort`, that no plan moves PostgreSQL. Both are of constants only,
  the run's satisfy them, and both are needed: a PostgreSQL that does not start stops every later
  setup, and one on another port is not reached by a setup that has to move it. `SetupsOK` says
  that PostgreSQL is up on its port, what each step of an installation finds made by earlier ones
  (`Provides`), and that a stuck setup met another ClickHouse password.
- `SettingsChangeTogether` (`SettingsTogether`) assumes `Tunable` and `Unhurt`: saving the record
  and putting the old settings back do not fail, and the manager is not killed from the change of
  PostgreSQL's parameters to the record. `SettingsOK` says that, but during a change of settings,
  the environment file, the running SENTIENT and PostgreSQL have what the record says (`Matches`),
  with the ports and a found installation's settings (`PortsOK`), and during a change which of the
  three have the old settings and which the new (`Sets`). `Unhurt` allows one kill less than the
  run: a job killed at `alter`, after the environment file and before PostgreSQL's parameters,
  leaves a file that the record does not agree with, so `Matches` fails. The run, with one fault,
  finds no harm in it, because what is put back at the next failure is what worked before. With
  more faults than one, kills and failures, and an adoption between, what is put back need not
  have worked; nothing is claimed of that.
## DockerSetup: installing in Docker

`DockerSetup.tla` models IC/distro.rs (`setup`, `deploy_with`, `prepare_existing`, `control`,
`uninstall`), IC/distro/adopt.rs (`take_over`), the reading of passwords in
IC/distro/docker_ops.rs, APP/settings.rs and the repairs and removals of
APP/maintenance.rs for a Docker stack.

State. `pc.vol` is PostgreSQL's volume with its databases and SENTIENT's role, `pc.hist`
ClickHouse's, `pc.pg` and `pc.app` the containers with the settings they were created with,
`pc.own` and `pc.other` the manager's compose file and the operator's own, `pc.record` the
record. A compose project is known by its file: `From` says which one the containers run
from. `Secrets` reads the passwords as `read_secrets` does, from the manager's compose file
or else from the containers.

| Run | Bounds | Shows |
|---|---|---|
| docker_setup | 2 setups and 4 changes; volumes an earlier installation left, a stack the operator started, or an empty computer; two passwords, a setting SENTIENT does not start with, either compose file lost, 1 failure, half-done step, kill or cancellation | `SetupAgainFinishes`, `KeptSurvives`, `SecretsWork`, `SettingsTogether` |

An operator's stack may have been created with another password than the one SENTIENT
uses now: `first` is the one in PostgreSQL's environment, which counts in an empty volume
only. That is why the code asks SENTIENT's container first.

Left out by a named constant (`MCMayFail`, `MCMayTear`, `MCMayDie`):

- a failure or a kill between setting the kept database aside and creating the new one
  (distro.rs:744): the next setup finds a volume and no database to keep, and never
  creates one. With it `SetupAgainFinishes` does not hold;
- a failure of what puts settings or a take-over back, and of saving the record after
  either;
- a removal of containers (`down`, `remove`) that stops half way: of an operator's stack it leaves
  PostgreSQL's container alone, whose first password is then what is read;
- the manager's death between the two projects of a take-over, or between the new
  settings and the record: nothing puts them back. After a kill between `down` and
  `up` the passwords can be read from nowhere.

Also as the code does it: Start fresh keeps ClickHouse's history; deleting the data of an
adopted stack removes the operator's volumes; a take-over whose compose file is gone fails
at its first command. Not modelled: an image that cannot read a hypertable.

Proofs. `DockerSetupProofs` proves `TypeOK` and `KeptSurvives` for any plans, settings, failures,
kills and numbers of setups and changes, from `DockerSetupAssumption` and `NoneAssumption`. The
invariant adds `NamesOK`, as for Linux, and `StepOK`, what the steps of an installation find: the
compose file written, the volume there from `pgup` on, and no database of SENTIENT's when
`CreateDatabase` makes one. The last is what keeps a database that is served from being replaced
by an empty one; it holds because `create` is reached only from `kept`, in the one case in which
the database was set aside (`FollowingIs`).

The same module proves the other three properties under the hypothesis `Quiet`, which is the list
above, of constants only; the run's constants satisfy it and are the largest that do. Their
invariant is `FitOK`. `SecretsWork` speaks of an idle manager with a record, so by itself it says
nothing of what a job needs: `FitOK` adds to it what each job keeps while it runs.

- `Works`: the manager's compose file and all containers have the password the volume's role
  takes, and no container is of another project. It holds whenever a record of a stack of its own
  is there, and when there is no record but SENTIENT's container is the manager's, so that
  adopting it again is right. An adopted stack has `Theirs` instead: all containers are the
  operator's, and PostgreSQL's is not there without SENTIENT's.
- `InstallOK`: what every try of an installation leaves the next. It is what `Retry` starts from
  (`Outcome`), because the wizard's fields, the password among them, stay as they were. `Installs`
  adds what each step finds: the role has the installation's password from `kept` on or, without
  an existing database, always; so PostgreSQL's containers are in no other project's way, the
  schema is made, and SENTIENT answers.
- `Sets`: the password the job read works, what `Secrets` reads is still that password, and the
  old settings would serve if they did; so putting them back serves. `TakesOver`: the operator's
  file is still there when his containers are not.
- `Outcome`: an installation does not end stuck, and a change of settings ends with everything
  at the new value or everything at the old one.

## Manager: the window, its screens and their jobs

`Manager.tla` models APP/manager/mod.rs with the screens that run jobs, APP/jobs.rs,
APP/rootjob.rs and APP/installation.rs.

State. `disk` is `installation.json`, `real` the same facts as they are, `main` the copy the
window holds and `screens` the copies each screen was made with, with the state of its
Jobs; `works` are the threads that run, whether a screen still shows them or not. `dbs` are the
databases backups were restored into. What a job does is in the other modules: here it
succeeds whole or changes nothing, but changing SENTIENT (`Work`) and saving the record
(`Save`) are two steps.

Actions. `Open` a screen, `Start` a job on one, `Work`, `Save`, `Finish` or `JobFails`, the
observers (`Observed`, `Reloaded`: when a record changes the window makes its screens anew and
drops those it had, jobs and all), the ticker's last announcement (`Tick`), and `Quit`, the
new Platform Manager started over the old. On native Linux a job runs as root in a copy of
the program that reads the record itself (`Given`).

| Run | Bounds | Shows |
|---|---|---|
| manager | native Linux and Docker, 3 jobs of any of the eight kinds, two versions, values and types, one name to restore into, 1 replacement of the manager | `RecordTrue`, `OfferedIsWhole` |

Three jobs are what it takes for two screens to work from each other's old copies: one
opened before a job, that job, one that makes it outdated, one that writes it back.

`RecordTrue` says when the record is right, and by that when it need not be. The ghost
`outdated` marks what the code lets happen: an update saves the record and tells no screen
(update.rs:52), so that Settings, Migration and Repair opened before keep the earlier one;
on Windows and Docker their jobs work from it and write it back (on Docker the old image
is then started on the upgraded database). Migration and Settings stay as they are after
each other's changes (mod.rs:273). Reloading drops a screen whose job runs: it goes on
unseen, and nothing stops a second one. "Install and restart" ends the manager with a
job running (updates.rs:211). Without `~outdated` in its premise, `RecordTrue` is violated
in each of these ways.

`RestoredOffered` is stated and does not hold: the observer of the restore's Job takes
`restoring` each time the Job says it is done, and it says so once more at its ticker's next
tick (jobs.rs:103-116), so that the offer to put the restored data into service, which
backup.rs:67 documents as the last one restored successfully, goes at most a second after
it came. It is seen by adding it to the invariants of `Manager_screens.cfg`.

Proved (`AppProofs.tla`, after Setup's proofs): `RecordIsTrue`, that `RecordTrue` holds always, for any versions,
values, types and names, any number of jobs and of replaced managers, from
`ManagerAssumption` (what is installed first is a record) and `NilAssumption` (no record
and no screen is `Nil`). `RecordTrue` speaks only of states in which no job changes
SENTIENT, and is kept by no step alone: its invariant `ManagerInv` adds what every screen and job
knows (`Known`: a screen has a record exactly when the window has, before that only taking
over runs, a job that is seen has its screen) and, while nothing began outdated (`Alone`),
that a job that changes SENTIENT is the only such one, began from the record as SENTIENT
was, and after its work will save exactly what it has made of it. An announcement that makes
the screens anew changes only which jobs are seen, which `Alone` does not depend on
(`HiddenAlone`).

Also proved: `OfferedIsAlwaysWhole`, that `OfferedIsWhole` holds always. Its invariant
`OfferInv` says that a switch that has not begun has a whole database to itself and a restore
that has begun one it fills (`Promised`), seen or not and of whichever manager; that what is
offered is whole and no switch is about to use it (`Ready`); and that the screen follows at most
one restore or switch, and shows the name that is its own (`Followed`).

Left out: checking for updates (its own state, the channel and what was dismissed), taking
over, removing, starting and stopping, backing up, the gateway's screen.

## Not modelled

Update checks (APP/updates.rs): their state is the window's, and multiplied with it was too
large for one run. The registration of child processes with the cancel flag
(IC/cancel.rs). The gateway, whose update is the Docker update's without a database. The
headless commands, which call what is modelled. Checks before an installation (queries of
the computer), desktop integration (registry, units, shortcuts) and the user interface.
Each is listed with its reason under `components` in `PROJECT.json`.

The modules' `TypeOK` states the shape of each variable; SafeUpdate's, Migration's,
DockerUpdate's, Restore's, Archive's, Setup's, LinuxSetup's and DockerSetup's are proved, as are Manager's shapes.

## Only model-checked

- Liveness (`EndsRunning` and its like): the prover has no ENABLED.
- `Migration`: that equal count and sums of a month mean that no row is missing, when values
  come late. It is proved when none does, holds within the run's bounds, and not beyond them.
- What the hypotheses of theorems leave out (`Unhurt`, `Quiet` and their like): the runs check
  some of it on small bounds, as each section says.

## Plan

Done: `SafeUpdate`, `DockerUpdate`, `Migration`, `Restore`, `Archive`, `Manager`, `Setup`,
`LinuxSetup` and `DockerSetup`, with their proofs; `DatabaseVault`. Left, in this order:

1. `UpdateCheck` (the channel changed during a check, what was dismissed), `Cancel` (a
   request between spawn and registration).
2. Control's start and stop, and Kept's removals, in the middle of a restore's switch and of
   the setups' repairs and settings jobs, as `SafeUpdate`, `DockerUpdate` and `Migration` have them.
3. `month_windows` as a pure function against a reference definition.
## What stays with TLC, and why

Liveness under fairness and anything about ENABLED are model-checked only: the
proof system has no rules for them. Induction over data is out of the provers'
reach (the library's induction theorems take an operator as parameter), so what
a recursive definition computes for every input is checked over bounded inputs.
No module with a theorem reaches a RECURSIVE operator.
