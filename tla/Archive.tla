------------------------------ MODULE Archive ------------------------------
(***************************************************************************)
(* Making a backup of a running SENTIENT (sentient-backup-core/backup.rs,  *)
(* clickhouse.rs, files.rs, categories.rs) and restoring it into an empty  *)
(* database of the same or of another type (restore.rs, ch_native.rs).     *)
(*                                                                         *)
(* A backup is one file, but what is in it is read at different moments    *)
(* while SENTIENT writes: the list of ts_kv's partitions, whose rows stay  *)
(* out of the dump; the dump; ts_kv's rows; ClickHouse's months one after  *)
(* the other; the latest values; the files of the reports.  One action is  *)
(* one such read, one member written into the archive, or one step of the  *)
(* restore.  The database and the ClickHouse database it goes into are     *)
(* made anew (module Restore has their creation and the switch to them).   *)
(***************************************************************************)
EXTENDS Naturals, Sequences, FiniteSets, FiniteSetsExt, SequencesExt

CONSTANTS
  Flavors,      \* the types of database SENTIENT runs on here
  Time,         \* the times values are stored at
  MonthOf,      \* the month of each, its partition
  Since,        \* the first time of the "last N days"
  Offered,      \* what an operator may choose to back up, by type
  None,         \* nothing there
  MayFail,      \* the program points at which a call may fail
  MonthAt,      \* the program points at which a month may begin
  MergeAt,      \* the program points at which ClickHouse may merge
  MaxWrites,    \* bound: changes SENTIENT makes
  MaxBackups,   \* bound: backups started
  MaxRestores,  \* bound: restores started
  MaxFaults,    \* bound: calls that fail
  MaxDamage     \* bound: members of a finished archive that are damaged

(* categories::catalog, of whose twelve categories four tell the kinds     *)
(* apart; the others are like "reports" without its file store.            *)
Catalog ==
  [telemetry_historical |-> [tables |-> {"ts_kv"}, store |-> FALSE],
   telemetry_latest |-> [tables |-> {"ts_kv_latest"}, store |-> FALSE],
   reports |-> [tables |-> {"report"}, store |-> TRUE],
   configuration |-> [tables |-> {}, store |-> FALSE]]
Categories == DOMAIN Catalog

(* One row of the history: its time, and which write it is from.           *)
Version == 0..MaxWrites
Row == Time \X Version
Month == {MonthOf[t] : t \in Time}
Latest == Time \union {0}
Database ==
  [ts_kv : SUBSET Row, parts : SUBSET Month, ch : SUBSET Row, latest : Latest, chLatest : Latest,
   report : SUBSET Version, device : Version]
Option == [include : SUBSET Categories, days : BOOLEAN, stores : BOOLEAN, locked : BOOLEAN]

(* The members an archive can have, in the order they are staged.          *)
Dump == <<"db/dump", 0>>
Telemetry == <<"db/telemetry", 0>>
History(m) == <<"clickhouse/ts_kv", m>>
ChLatest == <<"clickhouse/ts_kv_latest_agg", 0>>
Files == <<"files/reports", 0>>
MonthSeq == SetToSortSeq(Month, <)
MemberSeq ==
  <<Dump, Telemetry>> \o [i \in 1..Len(MonthSeq) |-> History(MonthSeq[i])] \o <<ChLatest, Files>>
Member == {MemberSeq[i] : i \in DOMAIN MemberSeq}

BackupSteps == {"list", "dump", "copy", "ch_list", "ch_count", "ch_export", "ch_latest", "files", "create",
  "write"}
RestoreSteps == {"read", "load", "telemetry", "import", "convert", "extract"}
Steps == BackupSteps \union RestoreSteps

ASSUME ArchiveAssumption ==
  /\ Flavors \subseteq {"stock", "timescaledb", "clickhouse"}
  /\ Time \subseteq Nat \ {0} /\ MonthOf \in [Time -> Nat] /\ Since \in Time
  /\ \A t1, t2 \in Time : t1 <= t2 => MonthOf[t1] <= MonthOf[t2]
  /\ Offered \in [Flavors -> SUBSET Option]
  /\ MayFail \subseteq Steps /\ MonthAt \subseteq Steps \union {"idle"} /\ MergeAt \subseteq Steps \union {"idle"}
  /\ MaxWrites \in Nat /\ MaxBackups \in Nat /\ MaxRestores \in Nat /\ MaxFaults \in Nat /\ MaxDamage \in Nat

VARIABLES
  flavor,    \* the type of the installation that is backed up
  live,      \* its database and its ClickHouse
  store,     \* the files of its reports
  at,        \* where the running job is
  job,       \* what the running job has read
  archive,   \* the backup file
  target,    \* the database the last restore went into
  last,      \* how the last job ended
  writes, backups, restores, faults, damage    \* used up of the bounds

bounds == <<backups, restores>>
vars == <<flavor, live, store, at, job, archive, target, last, writes, bounds, faults, damage>>
sentient == <<flavor, live, store, writes>>

----------------------------------------------------------------------------
(* Rows.                                                                   *)
OfMonth(rows, m) == {r \in rows : MonthOf[r[1]] = m}
MonthsOf(rows) == {MonthOf[r[1]] : r \in rows}
From(rows, t) == {r \in rows : r[1] >= t}
Times(rows) == {r[1] : r \in rows}
Newer(a, b) == IF a >= b THEN a ELSE b
Newest(rows) == IF rows = {} THEN 0 ELSE Max(Times(rows))
(* SELECT DISTINCT ON (entity_id, key, ts) ... ORDER BY inserted_at DESC.  *)
Distinct(rows) == {r \in rows : \A q \in rows : q[1] = r[1] => q[2] <= r[2]}
(* inserting rows keyed by time                                            *)
Conflict(rows, more) == Times(rows) \cap Times(more) # {}

(* Selection::is_included, Selection::telemetry_mode.                      *)
Included(o, c) == c = "configuration" \/ c \in o.include
Mode(o) == IF "telemetry_historical" \notin o.include THEN "none" ELSE IF o.days THEN "last" ELSE "all"

(* What of a database is of interest afterwards.                           *)
HistoryOf(f, db) == IF f = "clickhouse" THEN db.ch ELSE db.ts_kv
LatestOf(f, db) == IF f = "clickhouse" THEN db.chLatest ELSE db.latest

Nothing ==
  [ts_kv |-> {}, parts |-> {}, ch |-> {}, latest |-> 0, chLatest |-> 0, report |-> {}, device |-> 0]
NoJob == [kind |-> "none"]
NewBackup(o) ==
  [kind |-> "backup", options |-> o, excluded |-> {}, todo |-> {}, rows |-> 0, counts |-> [m \in Month |-> 0],
   staged |-> [n \in {} |-> 0], before |-> live]

Init ==
  /\ flavor \in Flavors
  /\ LET first == {<<t, 0>> : t \in {Min(Time)}}
     IN live = [Nothing EXCEPT
          !.ts_kv = IF flavor = "clickhouse" THEN {} ELSE first,
          !.ch = IF flavor = "clickhouse" THEN first ELSE {},
          !.parts = IF flavor = "stock" THEN MonthsOf(first) ELSE {},
          !.latest = IF flavor = "clickhouse" THEN 0 ELSE Newest(first),
          !.chLatest = IF flavor = "clickhouse" THEN Newest(first) ELSE 0]
  /\ store = {}
  /\ at = "idle" /\ job = NoJob
  /\ archive = None /\ target = None /\ last = "none"
  /\ writes = 0 /\ backups = 0 /\ restores = 0 /\ faults = 0 /\ damage = 0

----------------------------------------------------------------------------
(* SENTIENT, its databases and the disk while the jobs run (external).     *)

(* A value is stored.  On plain PostgreSQL its month's partition is made   *)
(* first; ClickHouse adds a row beside the one of the same time.           *)
Store(t) ==
  /\ writes < MaxWrites
  /\ writes' = writes + 1
  /\ LET r == <<t, writes + 1>>
     IN live' = IF flavor = "clickhouse"
          THEN [live EXCEPT !.ch = @ \union {r}, !.chLatest = Newer(@, t)]
          ELSE [live EXCEPT
            !.ts_kv = {q \in @ : q[1] # t} \union {r}, !.latest = Newer(@, t),
            !.parts = IF flavor = "stock" THEN @ \union {MonthOf[t]} ELSE @]
  /\ flavor = "stock" /\ MonthOf[t] \notin live.parts => at \in MonthAt
  /\ UNCHANGED <<flavor, store, at, job, archive, target, last, bounds, faults, damage>>
(* A report is made: its file, and its row.                                *)
Report ==
  /\ writes < MaxWrites
  /\ writes' = writes + 1
  /\ store' = store \union {writes + 1}
  /\ live' = [live EXCEPT !.report = @ \union {writes + 1}]
  /\ UNCHANGED <<flavor, at, job, archive, target, last, bounds, faults, damage>>
(* A device is changed: the configuration.                                 *)
Configure ==
  /\ writes < MaxWrites
  /\ writes' = writes + 1
  /\ live' = [live EXCEPT !.device = writes + 1]
  /\ UNCHANGED <<flavor, store, at, job, archive, target, last, bounds, faults, damage>>
(* ClickHouse merges the rows of a time into the newest.                   *)
Merge ==
  /\ at \in MergeAt
  /\ live.ch # Distinct(live.ch)
  /\ live' = [live EXCEPT !.ch = Distinct(@)]
  /\ UNCHANGED <<flavor, store, at, job, archive, target, last, writes, bounds, faults, damage>>
(* A member of the finished archive is altered on the disk.                *)
Damage(n) ==
  /\ damage < MaxDamage /\ at = "idle"
  /\ archive # None /\ n \in archive.members
  /\ damage' = damage + 1
  /\ archive' = [archive EXCEPT !.altered = @ \union {n}]
  /\ UNCHANGED <<sentient, at, job, target, last, bounds, faults>>

----------------------------------------------------------------------------
(* Making a backup.                                                        *)
Go(next) == at' = next
End(how) == at' = "idle" /\ job' = NoJob /\ last' = how

BeginBackup(o) ==
  /\ at = "idle" /\ backups < MaxBackups
  /\ o \in Offered[flavor]
  /\ backups' = backups + 1
  /\ Go("list")
  /\ job' = NewBackup(o)
  /\ UNCHANGED <<sentient, archive, target, last, restores, faults, damage>>

BackupStep == UNCHANGED <<sentient, archive, target, last, bounds, faults, damage>>
Staged(n, data) == [m \in DOMAIN job.staged \union {n} |-> IF m = n THEN data ELSE job.staged[m]]

(* partitions_of("public.ts_kv").                                          *)
List ==
  /\ at = "list" /\ Go("dump")
  /\ job' = [job EXCEPT !.excluded = live.parts]
  /\ BackupStep

(* Variant with a fault: the categories that are selected.                 *)
OmittedSelected(o) == {"ts_kv"} \union UNION {Catalog[c].tables : c \in {c \in Categories : Included(o, c)}}
(* exclude_data_args: whose data stay out of the dump.                     *)
Omitted(o) == {"ts_kv"} \union UNION {Catalog[c].tables : c \in {c \in Categories : ~Included(o, c)}}
Dumped(o, excluded) ==
  [live EXCEPT
    !.ts_kv = IF flavor = "stock" THEN {r \in @ : MonthOf[r[1]] \notin excluded} ELSE {},
    !.ch = {}, !.chLatest = 0,
    !.latest = IF "ts_kv_latest" \in Omitted(o) THEN 0 ELSE @,
    !.report = IF "report" \in Omitted(o) THEN {} ELSE @]
DumpDatabase ==
  /\ at = "dump"
  /\ Go(IF Mode(job.options) = "none" THEN "files" ELSE "copy")
  /\ job' = [job EXCEPT !.staged = Staged(Dump, Dumped(job.options, job.excluded))]
  /\ BackupStep

(* COPY (SELECT * FROM ts_kv WHERE ts >= ...).                             *)
TelemetryRows(o) == IF Mode(o) = "last" THEN From(live.ts_kv, Since) ELSE live.ts_kv
CopyTelemetry ==
  /\ at = "copy"
  /\ Go(IF flavor = "clickhouse" THEN "ch_list" ELSE "files")
  /\ job' = [job EXCEPT !.staged = Staged(Telemetry, TelemetryRows(job.options))]
  /\ BackupStep

(* clickhouse::export_all: the months there are, then each of them counted *)
(* and read, then the latest values.                                       *)
NextMonth(todo) == IF todo = {} THEN "ch_latest" ELSE "ch_count"
ListMonths ==
  /\ at = "ch_list"
  /\ LET todo == {m \in MonthsOf(live.ch) : Mode(job.options) = "last" => m >= MonthOf[Since]}
     IN Go(NextMonth(todo)) /\ job' = [job EXCEPT !.todo = todo]
  /\ BackupStep
CountMonth ==
  /\ at = "ch_count" /\ Go("ch_export")
  /\ job' = [job EXCEPT !.rows = Cardinality(OfMonth(live.ch, Min(job.todo)))]
  /\ BackupStep
(* Variant with a fault: read first, counted afterwards.                    *)
ReadThenCount ==
  /\ at = "ch_export"
  /\ LET m == Min(job.todo)
         now == OfMonth(live.ch, m)
         earlier == {r \in now : Cardinality({q \in now : q[2] < r[2]}) < job.rows}
     IN /\ Go(NextMonth(job.todo \ {m}))
        /\ job' = [job EXCEPT !.todo = @ \ {m}, !.counts[m] = Cardinality(now), !.rows = 0,
             !.staged = Staged(History(m), earlier)]
  /\ BackupStep
ExportMonth ==
  /\ at = "ch_export"
  /\ LET m == Min(job.todo)
     IN /\ Go(NextMonth(job.todo \ {m}))
        /\ job' = [job EXCEPT !.todo = @ \ {m}, !.counts[m] = job.rows, !.rows = 0,
             !.staged = Staged(History(m), OfMonth(live.ch, m))]
  /\ BackupStep
ExportLatest ==
  /\ at = "ch_latest" /\ Go("files")
  /\ job' = [job EXCEPT !.staged = Staged(ChLatest, live.chLatest)]
  /\ BackupStep

(* The file stores the caller passes: those of the selected categories,    *)
(* when they can be read.                                                  *)
StoresPassed(o) == o.stores /\ \E c \in Categories : Catalog[c].store /\ Included(o, c)
ArchiveFiles ==
  /\ at = "files" /\ Go("create")
  /\ job' = IF StoresPassed(job.options)
       THEN [job EXCEPT !.staged = Staged(Files, store)]
       ELSE job
  /\ BackupStep

(* write_archive makes the file, over the one of that name; write_tar      *)
(* appends the manifest, then the members.                                 *)
CreateArchive ==
  /\ at = "create" /\ Go("write")
  /\ archive' = [manifest |-> FALSE, listed |-> DOMAIN job.staged, members |-> {}, altered |-> {},
       finished |-> FALSE, locked |-> job.options.locked, content |-> job.staged, counts |-> job.counts,
       of |-> flavor, options |-> job.options, before |-> job.before]
  /\ UNCHANGED <<sentient, job, target, last, bounds, faults, damage>>
(* The staged members the tar does not have yet, in their order.           *)
Unwritten == {i \in 1..Len(MemberSeq) : MemberSeq[i] \in archive.listed \ archive.members}
WriteArchive ==
  /\ at = "write"
  /\ IF ~archive.manifest
     THEN archive' = [archive EXCEPT !.manifest = TRUE] /\ UNCHANGED <<at, job, last>>
     ELSE IF Unwritten # {}
     THEN /\ archive' = [archive EXCEPT !.members = @ \union {MemberSeq[Min(Unwritten)]}]
          /\ UNCHANGED <<at, job, last>>
     ELSE archive' = [archive EXCEPT !.finished = TRUE] /\ End("done")
  /\ UNCHANGED <<sentient, target, bounds, faults, damage>>

----------------------------------------------------------------------------
(* Restoring it.                                                           *)
BeginRestore(into, password) ==
  /\ at = "idle" /\ restores < MaxRestores
  /\ archive # None
  /\ restores' = restores + 1
  /\ Go("read")
  /\ job' = [kind |-> "restore", password |-> password, todo |-> {}]
  /\ target' = [db |-> Nothing, into |-> into, from |-> None, files |-> {}, done |-> FALSE]
  /\ UNCHANGED <<sentient, archive, last, backups, faults, damage>>

RestoreRest == UNCHANGED <<flavor, live, writes, archive, bounds, faults, damage>>
Refuse(how) == End(how) /\ UNCHANGED target
Fill(db) == target' = [target EXCEPT !.db = db]

(* read_archive: the age layer needs its password and its end, the tar its *)
(* manifest.                                                               *)
Opens(a) == a.manifest /\ (a.locked => job.password /\ a.finished)
(* Variant with a fault: only the members that are there are verified.     *)
VerifiedPresent(a) == a.members \cap a.altered = {}
(* verify_all: every member the manifest lists is there and is what was    *)
(* written.                                                                *)
Verified(a) == a.listed \subseteq a.members /\ a.listed \cap a.altered = {}

(* source_store; how the installation restored into keeps telemetry.       *)
SourceStore(a) ==
  IF ChLatest \in a.listed THEN "clickhouse"
  ELSE IF a.of = "timescaledb" THEN "timescaledb"
  ELSE IF a.of = "stock" /\ a.content[Dump].parts # {} THEN "stock"
  ELSE "plain"
Converts == SourceStore(target.from) # target.into
HistoryMembers(a) == {m \in Month : History(m) \in a.listed}

ReadArchive ==
  /\ at = "read"
  /\ IF Opens(archive) /\ Verified(archive)
     THEN target' = [target EXCEPT !.from = archive] /\ Go("load") /\ UNCHANGED <<job, last>>
     ELSE Refuse("unreadable")
  /\ UNCHANGED store /\ RestoreRest

(* Where a restore goes on.                                                *)
AfterTelemetry(a) == IF ChLatest \in a.listed THEN "import" ELSE "extract"
AfterLoad(a) ==
  IF Converts THEN "convert" ELSE IF Telemetry \in a.listed THEN "telemetry" ELSE AfterTelemetry(a)
Load ==
  /\ at = "load"
  /\ LET a == target.from
     IN /\ Fill(IF Converts THEN [a.content[Dump] EXCEPT !.ts_kv = {}, !.parts = {}] ELSE a.content[Dump])
        /\ Go(AfterLoad(a))
        /\ job' = [job EXCEPT !.todo = HistoryMembers(a)]
  /\ UNCHANGED <<store, last>> /\ RestoreRest

(* COPY ts_kv FROM STDIN: the key (entity, key, ts) is unique, and on      *)
(* plain PostgreSQL every row needs its partition.                         *)
Fits(of, db, rows) ==
  /\ ~Conflict(db.ts_kv, rows)
  /\ of = "stock" => MonthsOf(rows) \subseteq db.parts
LoadTelemetry ==
  /\ at = "telemetry"
  /\ LET a == target.from
         rows == a.content[Telemetry]
         db == target.db
     IN IF ~Fits(a.of, db, rows)
        THEN Refuse("refused")
        ELSE Fill([db EXCEPT !.ts_kv = @ \union rows]) /\ Go(AfterTelemetry(a)) /\ UNCHANGED <<job, last>>
  /\ UNCHANGED store /\ RestoreRest

(* clickhouse::import, month by month: the rows that arrived are counted.  *)
(* Inserting the history also makes the latest values; the exported ones   *)
(* are merged with them last.                                              *)
ImportMonth ==
  /\ at = "import" /\ job.todo # {}
  /\ LET a == target.from
         m == Min(job.todo)
         rows == a.content[History(m)]
     IN \E got \in {rows} \union (IF "import" \in MergeAt THEN {Distinct(rows)} ELSE {}) :
          IF Cardinality(got) < a.counts[m]
          THEN Refuse("refused")
          ELSE /\ Fill([target.db EXCEPT !.ch = @ \union got, !.chLatest = Newer(@, Newest(rows))])
               /\ job' = [job EXCEPT !.todo = @ \ {m}]
               /\ UNCHANGED <<at, last>>
  /\ UNCHANGED store /\ RestoreRest
ImportLatest ==
  /\ at = "import" /\ job.todo = {}
  /\ Fill([target.db EXCEPT !.chLatest = Newer(@, target.from.content[ChLatest])])
  /\ Go("extract")
  /\ UNCHANGED <<store, job, last>> /\ RestoreRest

(* restore_converted: the telemetry rows and, from ClickHouse, the newest  *)
(* row of each time are gathered, then moved where the target keeps them.  *)
Gathered(a) ==
  (IF Telemetry \in a.listed THEN a.content[Telemetry] ELSE {})
    \union Distinct(UNION {a.content[History(m)] : m \in HistoryMembers(a)})
Convert ==
  /\ at = "convert"
  /\ LET a == target.from
         rows == Gathered(a)
         db == target.db
     IN Fill(IF target.into = "clickhouse"
             THEN [db EXCEPT !.ch = rows, !.chLatest = Newer(Newest(rows), db.latest)]
             ELSE [db EXCEPT !.ts_kv = rows,
               !.parts = IF target.into = "stock" THEN MonthsOf(rows) ELSE {},
               !.latest = IF SourceStore(a) = "clickhouse" THEN Newer(@, Newest(rows)) ELSE @])
  /\ Go("extract")
  /\ UNCHANGED <<store, job, last>> /\ RestoreRest

(* The files of the reports, into the directory SENTIENT uses: those there *)
(* stay.                                                                   *)
ExtractDir(files) == store' = store \union files /\ target' = [target EXCEPT !.files = files, !.done = TRUE]
(* Variant with a fault: a converted restore ends without the files.       *)
ExtractUnconverted ==
  /\ at = "extract" /\ End("done")
  /\ ExtractDir(IF Files \in target.from.listed /\ ~Converts THEN target.from.content[Files] ELSE {})
  /\ RestoreRest
Extract ==
  /\ at = "extract" /\ End("done")
  /\ ExtractDir(IF Files \in target.from.listed THEN target.from.content[Files] ELSE {})
  /\ RestoreRest

(* A call of the job fails, or the manager is killed: what was made stays. *)
Stop ==
  /\ at \in MayFail /\ faults < MaxFaults
  /\ faults' = faults + 1
  /\ End("failed")
  /\ UNCHANGED <<sentient, archive, target, bounds, damage>>

----------------------------------------------------------------------------
SentientStep == (\E t \in Time : Store(t)) \/ Report \/ Configure \/ Merge
BackupJobStep ==
  \/ List \/ DumpDatabase \/ CopyTelemetry
  \/ ListMonths \/ CountMonth \/ ExportMonth \/ ExportLatest
  \/ ArchiveFiles \/ CreateArchive \/ WriteArchive
RestoreJobStep ==
  \/ ReadArchive \/ Load \/ LoadTelemetry \/ ImportMonth \/ ImportLatest \/ Convert \/ Extract
Begin ==
  \/ \E o \in Offered[flavor] : BeginBackup(o)
  \/ \E into \in Flavors, password \in BOOLEAN : BeginRestore(into, password)
Next == SentientStep \/ Begin \/ BackupJobStep \/ RestoreJobStep \/ Stop \/ \E n \in Member : Damage(n)
Spec == Init /\ [][Next]_vars

----------------------------------------------------------------------------
Contents(c) ==
  /\ DOMAIN c \subseteq Member
  /\ \A n \in DOMAIN c :
       CASE n = Dump -> c[n] \in Database
         [] n = ChLatest -> c[n] \in Latest
         [] n = Files -> c[n] \subseteq Version
         [] OTHER -> c[n] \subseteq Row
Archived(a) ==
  /\ a.manifest \in BOOLEAN /\ a.finished \in BOOLEAN /\ a.locked \in BOOLEAN
  /\ a.members \subseteq a.listed /\ a.altered \subseteq a.members /\ a.listed = DOMAIN a.content
  /\ Contents(a.content) /\ a.counts \in [Month -> Nat]
  /\ a.of = flavor /\ a.options \in Option /\ a.before \in Database

(* What the variables are.                                                 *)
TypeOK ==
  /\ flavor \in Flavors /\ live \in Database /\ store \subseteq Version
  /\ at \in Steps \union {"idle"}
  /\ \/ at = "idle" /\ job = NoJob
     \/ /\ at \in BackupSteps
        /\ job.options \in Offered[flavor] /\ job.excluded \subseteq Month /\ job.todo \subseteq Month
        /\ job.rows \in Nat /\ Contents(job.staged) /\ job.before \in Database
     \/ at \in RestoreSteps /\ job.password \in BOOLEAN /\ job.todo \subseteq Month
  /\ archive # None => Archived(archive)
  /\ target # None =>
       /\ target.db \in Database /\ target.into \in Flavors /\ target.done \in BOOLEAN
       /\ target.from # None => Archived(target.from)
  /\ last \in {"none", "done", "failed", "unreadable", "refused"}
  /\ writes \in 0..MaxWrites /\ backups \in 0..MaxBackups /\ restores \in 0..MaxRestores
  /\ faults \in 0..MaxFaults /\ damage \in 0..MaxDamage

(* A restore that ended well, of what backup, and what it was of.          *)
Restored == target # None /\ target.done
From0 == target.from.before
Wanted(c) == Included(target.from.options, c)
(* The rows are there, each of a write at least as new.                    *)
Covers(rows, more) == \A r \in rows : \E q \in more : q[1] = r[1] /\ q[2] >= r[2]

(* Only deselected data is omitted (Selection, backup.rs:43): everything   *)
(* of the selected categories that was there when the backup began is in   *)
(* what was restored from it, in values as new, wherever the installation  *)
(* it was restored into keeps it, and whatever SENTIENT wrote meanwhile.   *)
SelectedRestored ==
  Restored =>
    LET db == target.db
        of == target.from.of
        rows == HistoryOf(of, From0)
    IN /\ Mode(target.from.options) = "all" => Covers(rows, HistoryOf(target.into, db))
       /\ Mode(target.from.options) = "last" => Covers(From(rows, Since), HistoryOf(target.into, db))
       /\ Wanted("telemetry_latest") => LatestOf(target.into, db) >= LatestOf(of, From0)
       /\ Wanted("reports") => From0.report \subseteq db.report
       /\ db.device >= From0.device

(* The database and the file store are read at different moments: every    *)
(* report the restored database lists has its file, when the backup has    *)
(* the file store.                                                         *)
ReportsHaveFiles ==
  Restored /\ Files \in target.from.listed => target.db.report \subseteq target.files

(* A backup that is whole can be restored: what SENTIENT wrote while it    *)
(* was made never makes the restore refuse its own data.                   *)
Restorable == last # "refused"

(* An archive whose writing was interrupted, or that was altered since, is *)
(* never restored in part and called restored.                             *)
OnlyWholeRestored ==
  Restored => target.from.members = DOMAIN target.from.content /\ target.from.altered = {}
=============================================================================
