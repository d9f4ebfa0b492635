------------------------------ MODULE Migration ------------------------------
(***************************************************************************)
(* Changing the database type of an installation (app/src/migration.rs)    *)
(* and moving its history (sentient-backup-core/src/telemetry_move.rs).    *)
(*                                                                         *)
(* The telemetry is in PostgreSQL's ts_kv (a partitioned table on plain    *)
(* PostgreSQL, a hypertable on TimescaleDB) or in ClickHouse.  A migration *)
(* stops SENTIENT, sets ts_kv aside when it has not the shape the target   *)
(* needs, starts SENTIENT on the target, and then copies the history from  *)
(* before the switch, month by month, while SENTIENT writes on.  The copy  *)
(* can be interrupted and resumed; what is left is in the state file.      *)
(*                                                                         *)
(* One action is one step of the job that changes something.  A step that  *)
(* fails or is killed leaves what HalfDone says.                           *)
(***************************************************************************)
EXTENDS Naturals, Sequences, FiniteSets, FiniteSetsExt

CONSTANTS
  Keys,         \* the telemetry keys SENTIENT stores
  LateKeys,     \* those whose values may arrive late, with an earlier time
  MaxTime,      \* bound: the clock
  NMonths,      \* how many months that is ...
  MonthOf,      \* ... and the month of each time
  StartTime,    \* the clock at the beginning
  Histories,    \* the histories the installation may begin with
  InitialTypes, \* the database types the installation may begin with
  Offered,      \* the types a migration may go to on this system
  Engines,      \* native, Docker, or both
  None,         \* no table, no state file
  MayFail,      \* the steps that may fail
  Killable,     \* the steps the job may be killed at
  StartsAt,     \* the steps of a job at which the operator may start SENTIENT
  LateAnswer,   \* may SENTIENT come up when deploy has given up waiting
  MayRemove,    \* the kept history the operator may remove: what an unfinished copy reads,
                \* what none does
  MaxVersion,   \* bound: how often one value is stored (2: corrected once)
  MaxFaults, MaxKills, MaxJobs, MaxWrites   \* bounds

Types == {"stock", "timescaledb", "clickhouse"}
Time == 1..MaxTime
Row == Keys \X Time      \* (entity, key) and ts: the primary key
Rows == [Row -> 0..MaxVersion]   \* the stored value of each, 0 for none
Months == 1..NMonths

Ts == <<"ts_kv", 0>>
Ch == <<"clickhouse", 0>>
Aside(n) == <<"aside", n>>   \* ts_kv_<type>_<minute>
Asides == {Aside(n) : n \in 1..MaxJobs}
Store == {Ts, Ch} \union Asides
Layout == {"plain", "partitioned", "hypertable", "clickhouse"}
(* alien: the months whose partition is not called ts_kv_YYYY_MM.          *)
Table == [layout : Layout, rows : Rows, alien : SUBSET Months]

Config == [type : Types, keep : BOOLEAN]   \* keep: keep_timescale_image
Image == {"native", "plain", "timescale"}
State ==   \* migration.json
  [from : Types, to : Types, cutover : Nat, aside : Asides \union {None}, done : BOOLEAN]
Steps == {"idle", "prepare", "stop", "image", "aside", "create", "latest",
  "image_back", "restart", "deploy", "answer", "u_stop", "u_stores", "u_deploy",
  "record", "save", "copy", "copy_latest", "finish"}

ASSUME MigrationAssumption ==
  /\ Keys \subseteq Nat /\ IsFiniteSet(Keys) /\ LateKeys \subseteq Keys
  /\ MaxTime \in Nat /\ NMonths \in Nat \ {0} /\ StartTime \in Time
  /\ MonthOf \in [Time -> Months]
  /\ \A H \in Histories : H \subseteq {r \in Row : r[2] <= StartTime}
  /\ InitialTypes \subseteq Types /\ Offered \subseteq Types
  /\ LateAnswer \in BOOLEAN /\ MayRemove \subseteq {"spare", "source"}
  /\ Engines \subseteq {"native", "docker"}
  /\ None \notin Table /\ None \notin Asides
  /\ None \notin State
  /\ MayFail \subseteq Steps /\ Killable \subseteq Steps /\ StartsAt \subseteq Steps
  /\ MaxVersion \in Nat \ {0}
  /\ MaxFaults \in Nat /\ MaxKills \in Nat /\ MaxJobs \in Nat /\ MaxWrites \in Nat

VARIABLES
  stores,    \* the tables history is or was in
  latest,    \* the time of each key's latest value, in PostgreSQL and ClickHouse
  conf,      \* the configuration SENTIENT is started with
  image,     \* what PostgreSQL runs on
  service,   \* is SENTIENT running
  record,    \* the type the installation record names
  state,     \* migration.json
  now,       \* the wall clock
  pc,        \* where the running job is
  old, new,  \* its configurations
  aside,     \* the table it set aside
  cutover,   \* when it switched
  leg, month,   \* the history copy: which source, which month
  acked,     \* the values SENTIENT has stored and nobody removed
  pre,       \* as it was when the job had stopped SENTIENT
  last,      \* how the last job ended
  faults, kills, jobs, writes   \* used up of the bounds

data == <<stores, latest>>
setup == <<conf, image>>
files == <<record, state>>
locals == <<old, new, aside, cutover>>
cursor == <<leg, month>>
ghosts == <<acked, pre>>
bounds == <<kills, jobs, writes>>
vars == <<data, setup, service, files, now, pc, locals, cursor, ghosts, last, faults, bounds>>

-----------------------------------------------------------------------------
(* Configurations.                                                         *)

Used(type) == IF type = "clickhouse" THEN Ch ELSE Ts

Docker == image # "native"

(* Setup::with_flavor: once TimescaleDB, the image that reads it stays.    *)
WithType(c, type) ==
  [type |-> type, keep |-> c.keep \/ (Docker /\ c.type = "timescaledb")]

Wants(c) == c.type = "timescaledb" \/ c.keep
ImageFor(c) == IF Wants(c) THEN "timescale" ELSE "plain"
Deploys(c) == conf' = c /\ image' = IF Docker THEN ImageFor(c) ELSE image
HalfDeploys(c) == conf' = c /\ (UNCHANGED image \/ Deploys(c))

LayoutOf(s) == IF stores[s] = None THEN "missing" ELSE stores[s].layout
Readable(s) == LayoutOf(s) = "hypertable" => image # "plain"

Shape(type) == [stock |-> {"partitioned"}, timescaledb |-> {"plain", "hypertable"},
                clickhouse |-> {"clickhouse"}][type]

(* SENTIENT can store telemetry.                                           *)
Accepts(type) == LayoutOf(Used(type)) \in Shape(type) /\ Readable(Used(type))

Unfinished == state # None /\ ~state.done

-----------------------------------------------------------------------------
(* Tables.                                                                 *)

NoRows == [r \in Row |-> 0]
Fresh(layout) == [layout |-> layout, rows |-> NoRows, alien |-> {}]
Stored(rows) == {r \in Row : rows[r] # 0}
Everywhere == UNION {Stored(stores[s].rows) : s \in {n \in Store : stores[n] # None}}

Newer(a, b) == IF a < b THEN b ELSE a

(* The partitions of a table set aside bear the name it had aside.         *)
RenamedBack(table) ==
  IF table.layout = "partitioned"
  THEN [table EXCEPT !.alien = {MonthOf[r[2]] : r \in Stored(table.rows)}]
  ELSE table

(* native deploy, plain PostgreSQL: an empty unpartitioned ts_kv is replaced. *)
StockFix(table, c) ==
  IF /\ ~Docker /\ c.type = "stock"
     /\ table # None /\ table.layout # "partitioned" /\ Stored(table.rows) = {}
  THEN Fresh("partitioned") ELSE table

(* What deploying c makes of the stores: its schema steps.                 *)
Deployed(c) ==
  [stores EXCEPT ![Ts] = StockFix(@, c),
                 ![Ch] = IF c.type = "clickhouse" /\ @ = None THEN Fresh("clickhouse") ELSE @]

(* ts_kv as a new installation of the type has it, and its other tables.   *)
FirstLayout == [stock |-> "partitioned", timescaledb |-> "hypertable", clickhouse |-> "plain"]
FirstTable(type, s) ==
  IF s = Ts THEN Fresh(FirstLayout[type])
  ELSE IF s = Used(type) THEN Fresh("clickhouse") ELSE None
RowsOf(H) == [r \in Row |-> IF r \in H THEN 1 ELSE 0]
NewestOf(H, newest) ==
  \A k \in Keys : /\ newest[k] # 0 => <<k, newest[k]>> \in H
                  /\ \A t \in Time : <<k, t>> \in H => t <= newest[k]

Init ==
  /\ \E type \in InitialTypes, engine \in Engines, H \in Histories,
        newest \in [Keys -> {0} \union Time] :
       /\ NewestOf(H, newest)
       /\ stores = [s \in Store |->
            IF s = Used(type) THEN [FirstTable(type, s) EXCEPT !.rows = RowsOf(H)]
            ELSE FirstTable(type, s)]
       /\ latest = [s \in {Ts, Ch} |-> IF s = Used(type) THEN newest ELSE [k \in Keys |-> 0]]
       /\ acked = RowsOf(H)
       /\ conf = [type |-> type, keep |-> FALSE]
       /\ image = IF engine = "native" THEN "native" ELSE ImageFor(conf)
  /\ service = "up"
  /\ record = conf
  /\ state = None
  /\ now = StartTime
  /\ pc = "idle"
  /\ old = conf /\ new = conf /\ aside = None /\ cutover = StartTime
  /\ leg = 1 /\ month = 1
  /\ pre = [ts |-> None, setup |-> <<conf, image>>]
  /\ last = "none"
  /\ faults = 0 /\ kills = 0 /\ jobs = 0 /\ writes = 0

-----------------------------------------------------------------------------
(* The history copy's data.                                                *)

(* Variant with a fault: a table set aside is read instead of ClickHouse.  *)
LegsAsideFirst(s) ==
  IF s.aside # None THEN <<s.aside>>
  ELSE IF s.to = "clickhouse" THEN <<Ts>> ELSE IF s.from = "clickhouse" THEN <<Ch>> ELSE <<>>

(* copy_history: the store left, then the table set aside.                 *)
Legs(s) ==
  (IF s.to = "clickhouse" THEN <<Ts>> ELSE IF s.from = "clickhouse" THEN <<Ch>> ELSE <<>>)
  \o (IF s.aside # None THEN <<s.aside>> ELSE <<>>)
Source == Legs(state)[leg]
Target == Used(state.to)

Missing == "missing" \in {LayoutOf(Source), LayoutOf(Target)}

(* window_filter: the month, cut at the switch.                            *)
Window == {r \in Row : MonthOf[r[2]] = month /\ r[2] < state.cutover}

(* count, sum(key), sum(ts)                                                *)
Fingerprint(R) ==
  LET Key(r) == r[1]
      At(r) == r[2]
  IN <<Cardinality(R), MapThenSumSet(Key, R), MapThenSumSet(At, R)>>
InWindow(s) == Stored(stores[s].rows) \cap Window

(* Inserting the rows R: PostgreSQL keeps its own on conflict, ClickHouse  *)
(* has two of the same key until one of them replaces the other.           *)
Inserted(R) ==
  LET from == stores[Source].rows
      to == stores[Target].rows
  IN {[r \in Row |-> IF r \in R /\ to[r] = 0 THEN from[r] ELSE to[r]]} \union
     (IF Target = Ch THEN {[r \in Row |-> IF r \in R THEN from[r] ELSE to[r]]} ELSE {})

-----------------------------------------------------------------------------
(* Steps.  What a step that failed or was killed can leave of its work:    *)
(* set_aside renames the partitions one by one before their parent,        *)
(* create_hypertable creates the plain table first, deploy writes the      *)
(* configuration before anything else, ClickHouse takes an insert in blocks. *)
HalfDone(at) ==
  \/ UNCHANGED <<stores, setup>>
  \/ /\ at = "image" /\ Docker /\ Wants(new) # Wants(old)
     /\ HalfDeploys(new) /\ UNCHANGED stores
  \/ /\ at = "image_back" /\ Docker
     /\ HalfDeploys(old) /\ UNCHANGED stores
  \/ /\ at = "aside" /\ LayoutOf(Ts) = "partitioned"
     /\ new.type = "timescaledb"
     /\ stores' = [stores EXCEPT ![Ts] = RenamedBack(@)] /\ UNCHANGED setup
  \/ /\ at = "create" /\ new.type = "timescaledb"
     /\ stores' = [stores EXCEPT ![Ts] = Fresh("plain")] /\ UNCHANGED setup
  \/ /\ at = "deploy"
     /\ HalfDeploys(new)
     /\ stores' \in {stores, Deployed(new)}
  \/ /\ at = "u_deploy"
     /\ HalfDeploys(old)
     /\ stores' \in {stores, Deployed(old)}
  \/ /\ at = "copy" /\ Target = Ch /\ ~Missing
     /\ \E R \in SUBSET InWindow(Source) : \E rows \in Inserted(R) :
          stores' = [stores EXCEPT ![Ch].rows = rows]
     /\ UNCHANGED setup

Fails(at) == at \in MayFail /\ faults > 0 /\ faults' = faults - 1

Goto(step) == pc' = step /\ UNCHANGED last
Return(result) == pc' = "idle" /\ last' = result

(* Variant with a fault: a copy not finished is not asked for.             *)
BeginMigrationAnyTime(target) ==
  /\ pc = "idle" /\ jobs < MaxJobs
  /\ target # record.type
  /\ old' = record /\ new' = WithType(record, target) /\ aside' = None
  /\ faults' = MaxFaults /\ jobs' = jobs + 1
  /\ Goto("prepare")
  /\ UNCHANGED <<data, setup, service, files, now, cutover, cursor, ghosts, kills, writes>>

(* run begins: the guards before anything is done.                         *)
BeginMigration(target) ==
  /\ pc = "idle" /\ jobs < MaxJobs
  /\ target # record.type
  /\ ~Unfinished
  /\ old' = record /\ new' = WithType(record, target) /\ aside' = None
  /\ faults' = MaxFaults /\ jobs' = jobs + 1
  /\ Goto("prepare")
  /\ UNCHANGED <<data, setup, service, files, now, cutover, cursor, ghosts, kills, writes>>

(* ClickHouse installed, the backup written: nothing of SENTIENT changes.  *)
Prepare ==
  /\ pc = "prepare"
  /\ \/ Readable(Ts) /\ Goto("stop") /\ UNCHANGED faults
     \/ /\ Fails(pc) \/ (~Readable(Ts) /\ UNCHANGED faults)
        /\ Return("refused")
  /\ UNCHANGED <<data, setup, service, files, now, locals, cursor, ghosts, bounds>>

(* SENTIENT is stopped, and the clock read: every row has an earlier time. *)
StopSentient ==
  /\ pc = "stop"
  /\ \/ /\ service' = "down"
        /\ now' = now + 1 /\ cutover' = now + 1
        /\ pre' = [ts |-> stores[Ts], setup |-> <<conf, image>>]
        /\ Goto("image")
        /\ UNCHANGED faults
     \/ /\ Fails(pc)
        /\ service' \in {"up", "down"}
        /\ Return("refused")
        /\ UNCHANGED <<now, cutover, pre>>
  /\ UNCHANGED <<data, setup, files, old, new, aside, cursor, acked, bounds>>

(* A step fails before the switch, or is done.                             *)
Fail(at, orElse) == Fails(at) /\ HalfDone(at) /\ Goto(orElse)

(* prepare_postgres, which on Docker writes the new compose file too.      *)
PrepareImage ==
  /\ pc = "image"
  /\ \/ /\ IF Docker /\ Wants(new) # Wants(old)
             THEN Deploys(new)
             ELSE UNCHANGED setup
        /\ Goto("aside")
        /\ UNCHANGED <<stores, faults>>
     \/ Fail("image", "image_back")
  /\ UNCHANGED <<latest, service, files, now, locals, cursor, ghosts, bounds>>

AfterCreate == IF old.type = "clickhouse" THEN "latest" ELSE "deploy"
NeedsNew ==
  \/ new.type = "timescaledb" /\ LayoutOf(Ts) # "hypertable"
  \/ new.type = "stock" /\ LayoutOf(Ts) # "partitioned"

(* set_aside.                                                              *)
SetAside ==
  /\ pc = "aside"
  /\ \/ ~NeedsNew /\ Goto(AfterCreate) /\ UNCHANGED <<stores, setup, aside, faults>>
     \/ /\ NeedsNew
        /\ IF stores[Ts] = None \/ Stored(stores[Ts].rows) = {}
             THEN stores' = [stores EXCEPT ![Ts] = None] /\ UNCHANGED aside
             ELSE /\ stores' = [stores EXCEPT ![Aside(jobs)] = stores[Ts], ![Ts] = None]
                  /\ aside' = Aside(jobs)
        /\ Goto("create")
        /\ UNCHANGED <<setup, faults>>
     \/ Fail("aside", "image_back") /\ UNCHANGED aside
  /\ UNCHANGED <<latest, service, files, now, old, new, cutover, cursor, ghosts, bounds>>

(* create_hypertable, create_partitioned.                                  *)
CreateTable ==
  /\ pc = "create"
  /\ \/ /\ stores' = [stores EXCEPT ![Ts] =
             Fresh(IF new.type = "stock" THEN "partitioned" ELSE "hypertable")]
        /\ Goto(AfterCreate)
        /\ UNCHANGED <<setup, faults>>
     \/ Fail("create", "image_back")
  /\ UNCHANGED <<latest, service, files, now, locals, cursor, ghosts, bounds>>

(* Variant with a fault: ON CONFLICT DO UPDATE without its condition.      *)
BroughtAnyway(from, to) ==
  [latest EXCEPT ![to] = [k \in Keys |-> IF latest[from][k] # 0 THEN latest[from][k] ELSE @[k]]]

(* latest_ch_to_pg, latest_pg_to_ch: the newer of the two stays.           *)
Brought(from, to) ==
  [latest EXCEPT ![to] = [k \in Keys |-> Newer(latest[to][k], latest[from][k])]]

BringLatest ==
  /\ pc = "latest"
  /\ \/ latest' = Brought(Ch, Ts) /\ Goto("deploy") /\ UNCHANGED <<stores, setup, faults>>
     \/ Fail("latest", "image_back") /\ UNCHANGED latest
  /\ UNCHANGED <<service, files, now, locals, cursor, ghosts, bounds>>

(* Variant with a fault: SENTIENT is started without that.                 *)
ImageStays ==
  /\ pc = "image_back"
  /\ Goto("restart")
  /\ UNCHANGED <<data, setup, service, files, now, locals, cursor, ghosts, faults, bounds>>

(* Preparing failed: the image back (its failure is ignored), SENTIENT up. *)
ImageBack ==
  /\ pc = "image_back"
  /\ \/ /\ IF Docker THEN Deploys(old) ELSE UNCHANGED setup
        /\ UNCHANGED <<stores, faults>>
     \/ Fails(pc) /\ HalfDone(pc)
  /\ Goto("restart")
  /\ UNCHANGED <<latest, service, files, now, locals, cursor, ghosts, bounds>>
RestartAsWas ==
  /\ pc = "restart"
  /\ service' = "up"
  /\ Return("failed")
  /\ UNCHANGED <<data, setup, files, now, locals, cursor, ghosts, faults, bounds>>

(* The switch: the new configuration, then a wait for SENTIENT's answer.   *)
Deploy ==
  /\ pc = "deploy"
  /\ \/ /\ Deploys(new) /\ stores' = Deployed(new)
        /\ Goto("answer")
        /\ UNCHANGED faults
     \/ Fail("deploy", "u_stop")
  /\ UNCHANGED <<latest, service, files, now, locals, cursor, ghosts, bounds>>
Answer ==
  /\ pc = "answer"
  /\ \/ service' = "up" /\ Goto("record") /\ UNCHANGED faults
     \/ /\ Fails(pc)
        /\ service' \in {"down"} \union (IF LateAnswer THEN {"up"} ELSE {})
        /\ Goto("u_stop")
  /\ UNCHANGED <<data, setup, files, now, locals, cursor, ghosts, bounds>>

(* It did not answer: stop it, ts_kv back (undo_stores), the old type.     *)
UndoStop ==
  /\ pc = "u_stop"
  /\ \/ service' = "down" /\ UNCHANGED faults
     \/ Fails(pc) /\ UNCHANGED service
  /\ Goto("u_stores")
  /\ UNCHANGED <<data, setup, files, now, locals, cursor, ghosts, bounds>>

(* Variant with a fault: ts_kv is dropped though none was set aside.       *)
UndoStoresAlways ==
  /\ pc = "u_stores"
  /\ stores' = IF aside = None THEN [stores EXCEPT ![Ts] = None]
               ELSE [stores EXCEPT ![Ts] = RenamedBack(stores[aside]), ![aside] = None]
  /\ Goto("u_deploy")
  /\ UNCHANGED <<latest, setup, service, files, now, locals, cursor, ghosts, faults, bounds>>

UndoStores ==
  /\ pc = "u_stores"
  /\ \/ /\ stores' = IF aside = None THEN stores
                     ELSE [stores EXCEPT ![Ts] = RenamedBack(stores[aside]), ![aside] = None]
        /\ UNCHANGED faults
     \/ Fails(pc) /\ UNCHANGED stores
  /\ Goto("u_deploy")
  /\ UNCHANGED <<latest, setup, service, files, now, locals, cursor, ghosts, bounds>>

UndoDeploy ==
  /\ pc = "u_deploy"
  /\ \/ /\ Deploys(old) /\ stores' = Deployed(old)
        /\ service' = "up"
        /\ UNCHANGED faults
     \/ Fails(pc) /\ HalfDone(pc) /\ UNCHANGED service
  /\ Return("failed")
  /\ UNCHANGED <<latest, files, now, locals, cursor, ghosts, bounds>>

(* write_record and save_state, each of which ends the job if it fails.    *)
WriteRecord ==
  /\ pc = "record"
  /\ \/ record' = new /\ Goto("save") /\ UNCHANGED faults
     \/ Fails(pc) /\ Return("lost") /\ UNCHANGED record
  /\ UNCHANGED <<data, setup, service, state, now, locals, cursor, ghosts, bounds>>

CopyFrom(s) ==
  /\ leg' = 1 /\ month' = 1
  /\ Goto(IF Legs(s) = <<>> THEN "finish" ELSE "copy")

SaveState ==
  /\ pc = "save"
  /\ LET saved == [from |-> old.type, to |-> new.type, cutover |-> cutover,
                   aside |-> aside, done |-> FALSE]
     IN \/ state' = saved /\ CopyFrom(saved) /\ UNCHANGED faults
        \/ Fails(pc) /\ state' = state /\ Return("lost") /\ UNCHANGED cursor
        \* secrets::save, after it.
        \/ Fails(pc) /\ state' = saved /\ Return("interrupted") /\ UNCHANGED cursor
  /\ UNCHANGED <<data, setup, service, record, now, locals, ghosts, bounds>>

-----------------------------------------------------------------------------
(* copy_history.                                                           *)

Resume ==
  /\ pc = "idle" /\ Unfinished
  /\ CopyFrom(state)
  /\ UNCHANGED <<data, setup, service, files, now, locals, ghosts, faults, bounds>>

(* The next month, or the next source, or what follows the history.        *)
NextWindow ==
  IF month < NMonths THEN month' = month + 1 /\ leg' = leg /\ Goto("copy")
  ELSE /\ month' = 1
       /\ IF leg < Len(Legs(state)) THEN leg' = leg + 1 /\ Goto("copy")
          ELSE leg' = 1 /\ Goto(IF state.to = "clickhouse" THEN "copy_latest" ELSE "finish")

(* One month: nothing there, already copied, or inserted.  It fails when a *)
(* table is gone, or when the month's partition has another name           *)
(* (ensure_partition).                                                     *)
Copied ==
  InWindow(Source) = {} \/ Fingerprint(InWindow(Source)) = Fingerprint(InWindow(Target))
(* Variant with a fault: CREATE TABLE without IF NOT EXISTS.               *)
OverlapsItself == LayoutOf(Target) = "partitioned" /\ InWindow(Target) # {}

Overlaps == LayoutOf(Target) = "partitioned" /\ month \in stores[Target].alien
Stuck == IF Missing THEN TRUE ELSE ~Copied /\ Overlaps
CopyWindow ==
  /\ pc = "copy"
  /\ \/ /\ ~Stuck
        /\ IF Copied THEN UNCHANGED stores
           ELSE \E rows \in Inserted(InWindow(Source)) :
                  stores' = [stores EXCEPT ![Target].rows = rows]
        /\ NextWindow
        /\ UNCHANGED <<setup, faults>>
     \/ /\ Stuck
        /\ Return("interrupted")
        /\ UNCHANGED <<stores, setup, cursor, faults>>
     \/ Fails(pc) /\ HalfDone(pc) /\ Return("interrupted") /\ UNCHANGED cursor
  /\ UNCHANGED <<latest, service, files, now, locals, ghosts, bounds>>

CopyLatest ==
  /\ pc = "copy_latest"
  /\ \/ latest' = Brought(Ts, Ch) /\ Goto("finish") /\ UNCHANGED faults
     \/ Fails(pc) /\ Return("interrupted") /\ UNCHANGED latest
  /\ UNCHANGED <<stores, setup, service, files, now, locals, cursor, ghosts, bounds>>

Finish ==
  /\ pc = "finish"
  /\ \/ state' = [state EXCEPT !.done = TRUE] /\ Return("done") /\ UNCHANGED faults
     \/ Fails(pc) /\ Return("interrupted") /\ UNCHANGED state
  /\ UNCHANGED <<data, setup, service, record, now, locals, cursor, ghosts, bounds>>

-----------------------------------------------------------------------------
(* Around the job.                                                         *)

(* SENTIENT stores a value, in the store it is configured for.             *)
Write(k, t) ==
  LET r == <<k, t>>
      used == Used(conf.type)
  IN /\ service = "up" /\ writes < MaxWrites
     /\ Accepts(conf.type)
     /\ t = now \/ (k \in LateKeys /\ t < now)
     /\ acked[r] < MaxVersion
     /\ stores' = [stores EXCEPT ![used].rows[r] = acked[r] + 1]
     /\ latest' = [latest EXCEPT ![used][k] = Newer(@, t)]
     /\ acked' = [acked EXCEPT ![r] = @ + 1]
     /\ writes' = writes + 1
     /\ UNCHANGED <<setup, service, files, now, pc, locals, cursor, pre, last, faults, kills, jobs>>

(* The time each job not yet begun takes is left over for it.              *)
Tick ==
  /\ pc \in {"idle", "copy"}
  /\ now + (MaxJobs - jobs) < MaxTime
  /\ now' = now + 1
  /\ UNCHANGED <<data, setup, service, files, pc, locals, cursor, ghosts, last, faults, bounds>>

(* The screen Control starts SENTIENT, whatever another one is doing.      *)
StartByOperator ==
  /\ pc \in {"idle"} \union StartsAt /\ service = "down"
  /\ service' = "up"
  /\ UNCHANGED <<data, setup, files, now, pc, locals, cursor, ghosts, last, faults, bounds>>

(* What the operator would remove with this table.                         *)
Kept(s) == IF Unfinished /\ s \in Range(Legs(state)) THEN "source" ELSE "spare"

(* kept::remove of what kept::list offers: a table set aside, and ClickHouse *)
(* when the record names another type.  What it held is given up.          *)
RemoveKept(s) ==
  /\ pc \in {"idle", "prepare", "copy", "copy_latest", "finish"} /\ Kept(s) \in MayRemove
  /\ s \in Asides \union (IF record.type = "clickhouse" THEN {} ELSE {Ch})
  /\ stores[s] # None
  /\ stores' = [stores EXCEPT ![s] = None]
  /\ latest' = [n \in {Ts, Ch} |-> IF n = s THEN [k \in Keys |-> 0] ELSE latest[n]]
  /\ acked' = [r \in Row |-> IF r \in Everywhere' THEN acked[r] ELSE 0]
  /\ UNCHANGED <<setup, service, files, now, pc, locals, cursor, pre, last, faults, bounds>>

(* The program ends in the middle of a step.                               *)
Kill ==
  /\ pc \in Killable /\ pc # "idle" /\ kills < MaxKills
  /\ kills' = kills + 1
  /\ HalfDone(pc)
  /\ Return("killed")
  /\ UNCHANGED <<latest, service, files, now, locals, cursor, ghosts, faults, jobs, writes>>

JobStep ==
  \/ Prepare \/ StopSentient \/ PrepareImage \/ SetAside \/ CreateTable \/ BringLatest
  \/ ImageBack \/ RestartAsWas
  \/ Deploy \/ Answer \/ UndoStop \/ UndoStores \/ UndoDeploy
  \/ WriteRecord \/ SaveState \/ CopyWindow \/ CopyLatest \/ Finish

Next ==
  \/ \E target \in Offered : BeginMigration(target)
  \/ Resume
  \/ JobStep
  \/ \E k \in Keys, t \in Time : Write(k, t)
  \/ Tick \/ StartByOperator
  \/ \E s \in Store : RemoveKept(s)
  \/ Kill

Spec == Init /\ [][Next]_vars

(* The job goes on until it returns; the operator continues a copy that was *)
(* interrupted.                                                            *)
FairSpec == Spec /\ WF_vars(JobStep) /\ WF_vars(Resume)

-----------------------------------------------------------------------------
(* Properties.                                                             *)

TypeOK ==
  /\ stores \in [Store -> Table \union {None}]
  /\ latest \in [{Ts, Ch} -> [Keys -> Nat]]
  /\ conf \in Config /\ image \in Image /\ service \in {"up", "down"}
  /\ record \in Config /\ state \in State \union {None}
  /\ now \in Nat /\ pc \in Steps
  /\ old \in Config /\ new \in Config /\ aside \in Asides \union {None} /\ cutover \in Nat
  /\ leg \in Nat /\ month \in Months
  /\ acked \in Rows
  /\ pre \in [ts : Table \union {None}, setup : Config \X Image]
  /\ last \in {"none", "refused", "failed", "lost", "interrupted", "done", "killed"}
  /\ faults \in Nat /\ kills \in Nat /\ jobs \in 0..MaxJobs /\ writes \in Nat

(* "Nothing is deleted": every value SENTIENT stored is in some table until *)
(* the operator removes the last that holds it, whatever fails and wherever *)
(* the job is killed.                                                      *)
NothingDeleted == \A r \in Row : acked[r] # 0 => r \in Everywhere

(* The tables an unfinished copy reads from are not written to, dropped or *)
(* renamed by anything but the operator's removal: the copy can be continued *)
(* from where it is, whatever was started since.                           *)
SourceKept ==
  [][Unfinished /\ ~(\E s \in Store : RemoveKept(s)) =>
       \A i \in DOMAIN Legs(state) : stores'[Legs(state)[i]] = stores[Legs(state)[i]]]_vars

(* While no job runs, SENTIENT shows every value as it was stored last, or *)
(* the state file says which table a continued copy will bring it from.    *)
HistoryReachable ==
  pc = "idle" /\ service = "up" =>
    \A r \in Row : acked[r] # 0 =>
      \/ stores[Used(conf.type)].rows[r] = acked[r]
      \/ /\ Unfinished /\ r[2] < state.cutover
         /\ \E i \in DOMAIN Legs(state) : stores[Legs(state)[i]].rows[r] = acked[r]

(* With nothing left to copy, the latest value SENTIENT shows of a key is  *)
(* its newest, across every change of store and late values.               *)
LatestNewest ==
  pc = "idle" /\ service = "up" /\ ~Unfinished =>
    \A k \in Keys : LET shown == latest[Used(conf.type)][k]
                    IN /\ shown # 0 => acked[<<k, shown>>] # 0
                       /\ \A t \in Time : acked[<<k, t>>] # 0 => t <= shown

(* A migration that failed before or at the switch leaves the configuration   *)
(* and the image of before, and ts_kv in its shape and with its rows, unless  *)
(* it was empty and not in use.                                            *)
FailedMigrationUndone ==
  pc = "idle" /\ last = "failed" =>
    /\ <<conf, image>> = pre.setup
    /\ Stored(pre.ts.rows) # {} \/ conf.type # "clickhouse" =>
         /\ LayoutOf(Ts) = pre.ts.layout
         /\ Stored(pre.ts.rows) \subseteq Stored(stores[Ts].rows)

(* A history copy that is continued when it was interrupted gets done.     *)
CopyFinishes == Unfinished ~> ~Unfinished

=============================================================================
