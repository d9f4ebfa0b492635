------------------------------ MODULE Restore ------------------------------
(***************************************************************************)
(* Restoring a backup beside the live data (app/src/backup_jobs.rs,        *)
(* manager/backup.rs, sentient-backup-core/src/restore.rs) and putting it  *)
(* into service (app/src/restore_switch.rs, secrets_key.rs).               *)
(*                                                                         *)
(* SENTIENT's data is in three places that change one after the other: a   *)
(* PostgreSQL database, found by its name; on a ClickHouse installation    *)
(* two tables of the ClickHouse database of that name; and the file with   *)
(* the key that opens the passwords stored in the database.  A restore     *)
(* makes the first two anew under another name; the switch renames the     *)
(* databases, exchanges the tables one by one, and writes the key file.    *)
(* One action is one statement, one command, or the waiting for an answer. *)
(***************************************************************************)
EXTENDS Naturals, FiniteSets, Sequences

CONSTANTS
  Installations,   \* the kinds of installation: with ClickHouse, of Docker
  Targets,      \* the names an operator restores into
  FirstKey,     \* the key SENTIENT made when it was installed
  Keys,         \* all keys
  Backups,      \* the backups there are
  Partial,      \* a schema half upgraded, or no schema
  None,         \* nothing there
  MayFail,      \* the program points at which a call may fail
  MayRefuse,    \* the tables ClickHouse may refuse to exchange, each time
  MaxFaults,    \* bound: failures injected into one job
  MaxCrashes,   \* bound: jobs killed
  MaxJobs,      \* bound: jobs started
  MaxMinute,    \* bound: the clock the kept names are made of
  MaxWrites     \* bound: writes by SENTIENT

Live == <<"live", 0>>
Aside == {"before_restore"} \X (0..MaxMinute)
Name == {Live} \union Aside \union Targets
ChName == {Live} \union Targets
Tables == <<"ts_kv", "ts_kv_latest_agg">>
Table == {Tables[i] : i \in DOMAIN Tables}
Schemas == {"older", "same", "newer", Partial}   \* seen from the installed SENTIENT
Data == 0..MaxJobs                               \* whose data: 0 is this installation's
(* SENTIENT seals with the file's first key; the others it only tries.     *)
KeyFile == [now : Keys, before : SUBSET Keys]

Database ==
  [data : Data, schema : Schemas, key : Keys \union {None}, note : KeyFile \union {None},
   writes : SUBSET Nat, open : BOOLEAN]
(* What it holds, the key file beside it, and whether it is of this        *)
(* installation's database type.                                           *)
Backup ==
  [schema : Schemas \ {Partial}, key : Keys \union {None}, beside : KeyFile \union {None},
   sameType : BOOLEAN]

RestoreSteps == {"create", "clone", "read", "load", "telemetry", "import", "convert", "match", "note"}
SwitchSteps == {"plan", "stop", "aside", "put", "put_back", "exchange", "again", "p_name", "p_aside",
  "install", "start", "wait", "u_stop", "u_key", "u_exchange", "u_name", "u_aside", "restart"}
Steps == RestoreSteps \union SwitchSteps
(* The steps that put back what earlier ones changed. *)
UndoSteps == {"put_back", "again", "p_name", "p_aside", "u_stop", "u_key", "u_exchange", "u_name",
  "u_aside", "restart"}

ASSUME RestoreAssumption ==
  /\ Installations \subseteq [clickhouse : BOOLEAN, docker : BOOLEAN]
  /\ Targets \cap ({Live} \union Aside) = {}
  /\ FirstKey \in Keys
  /\ Backups \subseteq Backup
  /\ Partial \notin {"older", "same", "newer"} /\ None \notin Database
  /\ None \notin Data \union Keys \union KeyFile /\ None \notin [Table -> Data \union {None}]
  /\ MayFail \subseteq Steps /\ MayRefuse \subseteq Table
  /\ MaxFaults \in Nat /\ MaxCrashes \in Nat /\ MaxJobs \in Nat
  /\ MaxMinute \in Nat /\ MaxWrites \in Nat

VARIABLES
  kind,       \* the kind of this installation
  pg,         \* PostgreSQL's databases, by name
  ch,         \* ClickHouse's: whose data each table holds
  keyfile,    \* SENTIENT's key file
  wanted,     \* is the service to run
  server,     \* whose data the running SENTIENT has loaded
  minute,     \* the wall clock, as the names see it
  at,         \* where the running job is
  job,        \* what the running job works with
  faults, crashes, jobs, nextWrite,   \* used up of the bounds
  undoFailed, \* a call failed while the job was undoing
  last,       \* how the last job ended
  complete,   \* the data that were restored completely
  served,     \* the data that were in service
  stored,     \* the writes SENTIENT was told are stored, by data
  opened,     \* the data the key file is to open
  raced       \* the key was rotated while a switch was planned

stores == <<pg, ch>>
sentient == <<wanted, server>>
bounds == <<crashes, jobs, nextWrite>>
history == <<complete, served, stored, opened>>
trouble == <<faults, undoFailed>>
vars == <<kind, stores, keyfile, sentient, minute, at, job, last, trouble, bounds, history, raced>>

ClickHouse == kind.clickhouse
Docker == kind.docker   \* there SENTIENT upgrades its schema itself
Exists(n) == pg[n] # None
NoKeyChange == [new |-> None, previous |-> None]

(* What a job works with: the restored database's name; the backup being   *)
(* restored; the switch's plan for the key file and its report on it, the  *)
(* name the live database gets, the table to be exchanged next and those   *)
(* ClickHouse refuses to exchange; and what stood when the switch began.   *)
name == job.name
backup == job.backup
key == job.key
said == job.said
aside == job.aside
pos == job.pos
refused == job.refused
was == job.was
NoJob ==
  [name |-> Live, backup |-> None, key |-> NoKeyChange, said |-> "nothing", aside |-> Live,
   pos |-> 1, refused |-> {}, was |-> None]
Empty == [t \in Table |-> None]

(* Variant with a fault: the restored data's key file replaces the other. *)
OnlyFirst(first, then) == first

(* secrets_key::opens, secrets_key::merged. The order in which a file's    *)
(* other keys are tried makes no difference.                               *)
KeysOf(file) == IF file = None THEN {} ELSE {file.now} \union file.before
Opens(file, k) == k \in KeysOf(file)
Merged(first, then) == [first EXCEPT !.before = @ \union (KeysOf(then) \ {first.now})]

(* Whether SENTIENT comes up on its database. *)
Fits(db) ==
  /\ db # None /\ db.open
  /\ db.schema = "same" \/ (Docker /\ db.schema = "older")

(* What a switch that fails puts back. *)
Stand ==
  [data |-> [n \in Name |-> IF Exists(n) THEN pg[n].data ELSE None],
   letIn |-> {n \in Name : Exists(n) /\ pg[n].open},
   ch |-> ch, keyfile |-> keyfile]

Init ==
  /\ kind \in Installations
  /\ pg = [n \in Name |-> IF n = Live
             THEN [data |-> 0, schema |-> "same", key |-> FirstKey, note |-> None,
                   writes |-> {}, open |-> TRUE]
             ELSE None]
  /\ ch = [n \in ChName |-> IF n = Live /\ ClickHouse THEN [t \in Table |-> 0] ELSE None]
  /\ keyfile = [now |-> FirstKey, before |-> {}]
  /\ wanted = TRUE /\ server = 0
  /\ minute = 0
  /\ at = "idle"
  /\ job = NoJob /\ last = "none"
  /\ faults = 0 /\ undoFailed = FALSE
  /\ crashes = 0 /\ jobs = 0 /\ nextWrite = 0
  /\ complete = {0} /\ served = {0} /\ stored = {} /\ opened = {0}
  /\ raced = FALSE

-----------------------------------------------------------------------------
(* A call at a point of MayFail fails while the job's budget lasts; one     *)
(* that fails while something is being put back is noted.                  *)
FailsWhile(undoing) ==
  /\ at \in MayFail /\ faults > 0
  /\ faults' = faults - 1
  /\ undoFailed' = (undoFailed \/ undoing)
Fails == FailsWhile(at \in UndoSteps)
Works == UNCHANGED trouble

Goto(step) == at' = step /\ UNCHANGED job
GotoWith(step, working) == at' = step /\ job' = working
Return(how) == at' = "idle" /\ job' = NoJob /\ last' = how

-----------------------------------------------------------------------------
(* Restoring: backup_jobs::restore, manager/backup.rs run_restore. *)

(* The job begins: the name is no name SENTIENT uses. *)
BeginRestore(target, b) ==
  /\ at = "idle" /\ jobs < MaxJobs
  /\ jobs' = jobs + 1
  /\ faults' = MaxFaults /\ UNCHANGED undoFailed
  /\ GotoWith("create", [NoJob EXCEPT !.name = target, !.backup = b]) /\ last' = "none"
  /\ UNCHANGED <<stores, keyfile, sentient, minute, crashes, nextWrite, history, raced>>

RestoreFails == Return("notrestored")

(* CREATE DATABASE: PostgreSQL refuses a name it has. *)
CreateDatabase ==
  /\ at = "create"
  /\ \/ ~Exists(name) /\ Works
        /\ pg' = [pg EXCEPT ![name] =
                    [data |-> jobs, schema |-> Partial, key |-> None, note |-> None,
                     writes |-> {}, open |-> TRUE]]
        /\ Goto(IF ClickHouse THEN "clone" ELSE "read") /\ UNCHANGED last
     \/ (Fails \/ (Exists(name) /\ Works)) /\ RestoreFails /\ UNCHANGED pg
  /\ UNCHANGED <<ch, keyfile, sentient, minute, bounds, history, raced>>

(* Variant with a fault: a ClickHouse database of that name is made anew. *)
CloneSchemaOver ==
  /\ at = "clone"
  /\ ch' = [ch EXCEPT ![name] = Empty] /\ Works
  /\ Goto("read")
  /\ UNCHANGED <<pg, keyfile, sentient, minute, last, bounds, history, raced>>

(* clone_schema: never into a ClickHouse database there is.  The empty     *)
(* PostgreSQL database stays when it refuses.                              *)
CloneSchema ==
  /\ at = "clone"
  /\ \/ ch[name] = None /\ Works
        /\ ch' = [ch EXCEPT ![name] = Empty]
        /\ Goto("read") /\ UNCHANGED last
     \/ ch[name] # None /\ Works /\ RestoreFails /\ UNCHANGED ch
     \/ Fails /\ RestoreFails
        /\ ch' \in {ch, [ch EXCEPT ![name] = IF @ = None THEN Empty ELSE @]}
  /\ UNCHANGED <<pg, keyfile, sentient, minute, bounds, history, raced>>

(* The archive is read and every part's checksum compared before anything  *)
(* is loaded.                                                              *)
ReadArchive ==
  /\ at = "read"
  /\ \/ Works /\ Goto("load") /\ UNCHANGED last
     \/ Fails /\ RestoreFails
  /\ UNCHANGED <<stores, keyfile, sentient, minute, bounds, history, raced>>

(* pg_restore, which stops at the first error.  It may have loaded enough  *)
(* for SENTIENT to start on it.                                            *)
Load ==
  /\ at = "load"
  /\ \/ Works
        /\ pg' = [pg EXCEPT ![name].schema = backup.schema, ![name].key = backup.key]
        /\ Goto(IF backup.sameType THEN "telemetry" ELSE "convert") /\ UNCHANGED last
     \/ Fails /\ RestoreFails
        /\ \E s \in {Partial, backup.schema}, k \in {None, backup.key} :
             pg' = [pg EXCEPT ![name].schema = s, ![name].key = k]
  /\ UNCHANGED <<ch, keyfile, sentient, minute, bounds, history, raced>>

(* ts_kv of a backup of the same type, copied in. *)
LoadTelemetry ==
  /\ at = "telemetry"
  /\ \/ Works /\ Goto(IF ClickHouse THEN "import" ELSE "match") /\ UNCHANGED last
        /\ complete' = IF ClickHouse THEN complete ELSE complete \union {jobs}
     \/ Fails /\ RestoreFails /\ UNCHANGED complete
  /\ UNCHANGED <<stores, keyfile, sentient, minute, bounds, served, stored, opened, raced>>

(* ClickHouse's tables filled, the history before the latest values. *)
FillTables ==
  /\ \/ Works
        /\ ch' = [ch EXCEPT ![name] = [t \in Table |-> jobs]]
        /\ complete' = complete \union {jobs}
        /\ Goto("match") /\ UNCHANGED last
     \/ Fails /\ RestoreFails
        /\ ch' \in {ch, [ch EXCEPT ![name]["ts_kv"] = jobs]}
        /\ UNCHANGED complete
  /\ UNCHANGED <<pg, keyfile, sentient, minute, bounds, served, stored, opened, raced>>

(* ClickHouse's own members of the backup, every part counted. *)
ImportTables == at = "import" /\ FillTables

(* Telemetry of another type, through a staging table: to ClickHouse, or   *)
(* into ts_kv.                                                             *)
Convert ==
  /\ at = "convert"
  /\ \/ ClickHouse /\ FillTables
     \/ /\ ~ClickHouse
        /\ \/ Works /\ complete' = complete \union {jobs} /\ Goto("match") /\ UNCHANGED last
           \/ Fails /\ RestoreFails /\ UNCHANGED complete
        /\ UNCHANGED <<stores, keyfile, sentient, minute, bounds, served, stored, opened, raced>>

(* match_schema: a newer schema is refused, though all the data are there;  *)
(* natively an older one is upgraded now.                                  *)
MatchSchema ==
  /\ at = "match"
  /\ LET schema == pg[name].schema
         upgrade == schema = "older" /\ ~Docker
     IN \/ schema # "newer" /\ Works
           /\ pg' = [pg EXCEPT ![name].schema = IF upgrade THEN "same" ELSE @]
           /\ Goto("note") /\ UNCHANGED last
        \/ schema = "newer" /\ Works /\ RestoreFails /\ UNCHANGED pg
        \/ Fails /\ RestoreFails
           /\ \E s \in IF upgrade THEN {schema, Partial} ELSE {schema} :
                pg' = [pg EXCEPT ![name].schema = s]
  /\ UNCHANGED <<ch, keyfile, sentient, minute, bounds, history, raced>>

(* after_restore: the key file beside the backup is noted on the database  *)
(* when it opens what is stored there.                                     *)
NoteKey ==
  /\ at = "note"
  /\ \/ Works /\ Return("restored")
        /\ pg' = [pg EXCEPT ![name].note = IF Opens(backup.beside, backup.key) THEN backup.beside ELSE @]
     \/ Fails /\ RestoreFails /\ UNCHANGED pg
  /\ UNCHANGED <<ch, keyfile, sentient, minute, bounds, history, raced>>

RestoreStep ==
  \/ CreateDatabase \/ CloneSchema \/ ReadArchive \/ Load \/ LoadTelemetry
  \/ ImportTables \/ Convert \/ MatchSchema \/ NoteKey

-----------------------------------------------------------------------------
(* Putting a restored database into service: restore_switch::run. *)

(* Both databases must be there; nobody asks what is in them.              *)
BeginSwitch(n) ==
  /\ at = "idle" /\ jobs < MaxJobs
  /\ n # Live /\ Exists(n)
  /\ ClickHouse => n \in ChName /\ ch[n] # None
  /\ jobs' = jobs + 1
  /\ faults' = MaxFaults /\ UNCHANGED undoFailed
  /\ \E refuses \in {{}} \union {{t} : t \in MayRefuse} :
       GotoWith("plan", [NoJob EXCEPT !.name = n, !.refused = refuses, !.was = Stand])
  /\ last' = "none"
  /\ UNCHANGED <<stores, keyfile, sentient, minute, crashes, nextWrite, history, raced>>

(* secrets_key::plan_switch, with SENTIENT still running. *)
NeedsNoKey(db) == db.key = None \/ Opens(keyfile, db.key)
PlanSwitch ==
  /\ at = "plan"
  /\ LET db == pg[name] IN
     \/ Works /\ db.open /\ NeedsNoKey(db) /\ Goto("stop")
     \/ Works /\ db.open /\ ~NeedsNoKey(db) /\ Opens(db.note, db.key)
        /\ GotoWith("stop", [job EXCEPT !.said = "installed",
                              !.key = [new |-> Merged(db.note, keyfile), previous |-> keyfile]])
     \/ Works /\ db.open /\ ~NeedsNoKey(db) /\ ~Opens(db.note, db.key)
        /\ GotoWith("stop", [job EXCEPT !.said = "missing"])
     \/ (Fails \/ ((~db.open \/ db.schema = Partial) /\ Works))
        /\ GotoWith("stop", [job EXCEPT !.said = "unchecked"])
  /\ UNCHANGED <<stores, keyfile, sentient, minute, last, bounds, history, raced>>

(* The job gives up, after SENTIENT was told to start again. *)
StopSentient ==
  /\ at = "stop"
  /\ \/ Works /\ wanted' = FALSE /\ server' = None
        /\ GotoWith("aside", [job EXCEPT !.aside = <<"before_restore", minute>>])
     \/ Fails /\ Goto("restart")
        /\ \/ UNCHANGED sentient
           \/ wanted' = FALSE /\ server' = None
  /\ UNCHANGED <<stores, keyfile, minute, last, bounds, history, raced>>

(* rename_database: connections are shut out before and let in after, under *)
(* whichever name it then has; that they are let in is not checked.        *)
Renamed(from, to, done, letIn) ==
  IF done THEN [pg EXCEPT ![to] = [pg[from] EXCEPT !.open = letIn], ![from] = None]
  ELSE [pg EXCEPT ![from].open = letIn]
Rename(from, to, then, otherwise) ==
  LET can == ~Exists(to) IN
  \/ Exists(from) /\ pg' = Renamed(from, to, can, TRUE) /\ Works /\ Goto(IF can THEN then ELSE otherwise)
  \/ Exists(from) /\ pg' = Renamed(from, to, can, FALSE)
     /\ FailsWhile(at \in UndoSteps \/ ~can) /\ Goto(IF can THEN then ELSE otherwise)
  \/ Exists(from) /\ pg' = Renamed(from, to, FALSE, TRUE) /\ Fails /\ Goto(otherwise)
  \/ UNCHANGED pg /\ (Fails \/ (~Exists(from) /\ Works)) /\ Goto(otherwise)

RenameStep(step, from, to, then, otherwise) ==
  /\ at = step
  /\ Rename(from, to, then, otherwise)
  /\ UNCHANGED <<ch, keyfile, sentient, minute, last, bounds, history, raced>>

(* Variant with a fault: the second rename fails and the first stays. *)
PutLiveBackForgotten ==
  /\ at = "put_back" /\ Works
  /\ Goto("restart")
  /\ UNCHANGED <<stores, keyfile, sentient, minute, last, bounds, history, raced>>

AfterRename == IF ClickHouse THEN "exchange" ELSE "install"
SetLiveAside == RenameStep("aside", Live, aside, "put", "restart")
PutRestored == RenameStep("put", name, Live, AfterRename, "put_back")
PutLiveBack == RenameStep("put_back", aside, Live, "restart", "restart")

(* undo_pg, from either of its callers. *)
UndoName(step, then) == RenameStep(step, Live, name, then, then)
UndoAside(step) == RenameStep(step, aside, Live, "restart", "restart")

(* ch_exchange: EXCHANGE TABLES, one table after the other until one fails. *)
Exchanged(t) ==
  [ch EXCEPT ![Live][t] = ch[name][t], ![name][t] = ch[Live][t]]
Exchange(step, then, otherwise) ==
  /\ at = step
  /\ LET t == Tables[pos] IN
     \/ /\ t \notin refused /\ Works
        /\ ch' = Exchanged(t)
        /\ IF pos = Len(Tables) THEN GotoWith(then, [job EXCEPT !.pos = 1])
                              ELSE GotoWith(at, [job EXCEPT !.pos = @ + 1])
     \/ /\ Fails \/ (t \in refused /\ Works)
        /\ GotoWith(otherwise, [job EXCEPT !.pos = 1]) /\ UNCHANGED ch
  /\ UNCHANGED <<pg, keyfile, sentient, minute, last, bounds, history, raced>>


(* Variant with a fault: the latest values are forgotten. *)
ExchangeHistoryOnly ==
  /\ at = "exchange" /\ Works
  /\ ch' = Exchanged("ts_kv")
  /\ Goto("install")
  /\ UNCHANGED <<pg, keyfile, sentient, minute, last, bounds, history, raced>>

ExchangeTables == Exchange("exchange", "install", "again")
ExchangeAgain == Exchange("again", "p_name", "p_name")
ExchangeBack == Exchange("u_exchange", "u_name", "u_name")

(* secrets_key::install: the file is replaced, or it is not. *)
InstallKey ==
  /\ at = "install"
  /\ \/ Works /\ key = NoKeyChange /\ Goto("start") /\ UNCHANGED keyfile
     \/ Works /\ key # NoKeyChange /\ Goto("start") /\ keyfile' = key.new
     \/ Fails /\ key # NoKeyChange /\ GotoWith("start", [job EXCEPT !.said = "notinstalled"])
        /\ UNCHANGED keyfile
  /\ UNCHANGED <<stores, sentient, minute, last, bounds, history, raced>>

(* restart_as_was, its result ignored. *)
StartSentient ==
  /\ at = "start"
  /\ \/ Works /\ wanted' = TRUE
     \/ Fails /\ UNCHANGED wanted
  /\ Goto("wait")
  /\ UNCHANGED <<stores, keyfile, server, minute, last, bounds, history, raced>>

(* wait_answering: three minutes.  A SENTIENT that could come up may still *)
(* not answer in them.                                                     *)
Wait ==
  /\ at = "wait"
  /\ \/ /\ server # None /\ Works
        /\ Return("switched")
        /\ opened' = IF said \in {"nothing", "installed"} THEN opened \union {pg[Live].data} ELSE opened
     \/ /\ Fails \/ (server = None /\ ~(wanted /\ Fits(pg[Live])) /\ Works)
        /\ Goto("u_stop") /\ UNCHANGED <<last, opened>>
  /\ UNCHANGED <<stores, keyfile, sentient, minute, bounds, complete, served, stored, raced>>

(* Undoing a switch SENTIENT did not answer after. *)
StopAgain ==
  /\ at = "u_stop"
  /\ \/ Works /\ wanted' = FALSE /\ server' = None
     \/ Fails /\ UNCHANGED sentient
  /\ Goto("u_key")
  /\ UNCHANGED <<stores, keyfile, minute, last, bounds, history, raced>>

PutKeyBack ==
  /\ at = "u_key"
  /\ \/ Works /\ keyfile' = IF key # NoKeyChange THEN key.previous ELSE keyfile
     \/ Fails /\ key # NoKeyChange /\ UNCHANGED keyfile
  /\ Goto(IF ClickHouse THEN "u_exchange" ELSE "u_name")
  /\ UNCHANGED <<stores, sentient, minute, last, bounds, history, raced>>

(* The last start of a switch that failed. *)
Restart ==
  /\ at = "restart"
  /\ \/ Works /\ wanted' = TRUE
     \/ Fails /\ UNCHANGED wanted
  /\ Return("undone")
  /\ UNCHANGED <<stores, keyfile, server, minute, bounds, history, raced>>

SwitchStep ==
  \/ PlanSwitch \/ StopSentient
  \/ SetLiveAside \/ PutRestored \/ PutLiveBack
  \/ ExchangeTables \/ ExchangeAgain \/ UndoName("p_name", "p_aside") \/ UndoAside("p_aside")
  \/ InstallKey \/ StartSentient \/ Wait
  \/ StopAgain \/ PutKeyBack \/ ExchangeBack
  \/ UndoName("u_name", "u_aside") \/ UndoAside("u_aside") \/ Restart

-----------------------------------------------------------------------------
(* Around the jobs. *)

Tick ==
  /\ minute < MaxMinute
  /\ minute' = minute + 1
  /\ UNCHANGED <<stores, keyfile, sentient, at, job, last, trouble, bounds, history, raced>>

(* SENTIENT comes up: on Docker it upgrades its schema first; it seals a   *)
(* key check in a database that has none.                                  *)
Boot ==
  /\ wanted /\ server = None /\ Fits(pg[Live])
  /\ server' = pg[Live].data
  /\ pg' = [pg EXCEPT ![Live].schema = "same",
                      ![Live].key = IF @ = None THEN keyfile.now ELSE @]
  /\ served' = served \union {pg[Live].data}
  /\ UNCHANGED <<ch, keyfile, wanted, minute, at, job, last, trouble, bounds, complete, stored, opened, raced>>

(* SENTIENT stores something, whatever database its name stands for now.   *)
Write ==
  /\ server # None /\ Exists(Live) /\ pg[Live].open
  /\ nextWrite < MaxWrites
  /\ nextWrite' = nextWrite + 1
  /\ pg' = [pg EXCEPT ![Live].writes = @ \union {nextWrite}]
  /\ stored' = stored \union {<<pg[Live].data, nextWrite>>}
  /\ UNCHANGED <<ch, keyfile, sentient, minute, at, job, last, trouble, crashes, jobs, complete, served, opened, raced>>

(* The operator rotates the key in SENTIENT: everything is sealed anew, the *)
(* keys before are dropped, and with them what only they opened.           *)
Rotate(k) ==
  /\ server # None /\ Exists(Live) /\ pg[Live].open
  /\ Opens(keyfile, pg[Live].key)
  /\ k \notin KeysOf(keyfile)
  /\ \A n \in Name : Exists(n) => pg[n].key # k
  /\ \A b \in Backups : b.key # k
  /\ pg' = [pg EXCEPT ![Live].key = k]
  /\ keyfile' = [now |-> k, before |-> {}]
  /\ opened' = {pg[Live].data}
  /\ raced' = (raced \/ at \in SwitchSteps)
  /\ UNCHANGED <<ch, sentient, minute, at, job, last, trouble, bounds, complete, served, stored>>

(* The job is killed; SENTIENT stays as it is, or restarts with the         *)
(* computer.  A database shut for a rename stays shut.                     *)
Shut(n) == [pg EXCEPT ![n].open = FALSE]
BeingRenamed ==
  CASE at \in {"aside", "p_name", "u_name"} -> Live
    [] at = "put" -> name
    [] at \in {"put_back", "p_aside", "u_aside"} -> aside
    [] OTHER -> None
Crash ==
  /\ at # "idle" /\ crashes < MaxCrashes
  /\ crashes' = crashes + 1
  /\ Return("killed")
  /\ LET n == BeingRenamed IN
       pg' \in {pg} \union IF n \in Name THEN IF Exists(n) THEN {Shut(n)} ELSE {} ELSE {}
  /\ \/ UNCHANGED sentient
     \/ wanted' = TRUE /\ server' = None
  /\ UNCHANGED <<ch, keyfile, minute, trouble, jobs, nextWrite, history, raced>>

Job ==
  \/ \E target \in Targets, b \in Backups : BeginRestore(target, b)
  \/ \E n \in Name : BeginSwitch(n)
Environment == Tick \/ Boot \/ Write \/ Crash \/ \E k \in Keys : Rotate(k)
Next == (Job \/ RestoreStep \/ SwitchStep \/ Environment) /\ UNCHANGED kind
Spec == Init /\ [][Next]_vars

-----------------------------------------------------------------------------
TypeOK ==
  /\ kind \in Installations
  /\ pg \in [Name -> Database \union {None}]
  /\ ch \in [ChName -> [Table -> Data \union {None}] \union {None}]
  /\ keyfile \in KeyFile
  /\ wanted \in BOOLEAN /\ server \in Data \union {None}
  /\ minute \in 0..MaxMinute
  /\ at \in Steps \union {"idle"}
  /\ name \in Name /\ aside \in Name /\ backup \in Backups \union {None}
  /\ key \in [new : KeyFile \union {None}, previous : KeyFile \union {None}]
  /\ said \in {"nothing", "installed", "notinstalled", "missing", "unchecked"}
  /\ pos \in 1..Len(Tables) /\ refused \subseteq MayRefuse
  /\ last \in {"none", "restored", "notrestored", "switched", "undone", "killed"}
  /\ faults \in 0..MaxFaults /\ undoFailed \in BOOLEAN
  /\ crashes \in 0..MaxCrashes /\ jobs \in 0..MaxJobs /\ nextWrite \in 0..MaxWrites
  /\ complete \subseteq Data /\ served \subseteq Data /\ opened \subseteq Data
  /\ raced \in BOOLEAN

(* "Nothing is deleted": whatever is restored and switched, fails or is    *)
(* killed, every write SENTIENT stored is in the database it was stored    *)
(* in, under whatever name, and on a ClickHouse installation the history   *)
(* and the latest values of all data that were in service are somewhere.   *)
DataKept ==
  /\ \A s \in stored : \E n \in Name : Exists(n) /\ pg[n].data = s[1] /\ s[2] \in pg[n].writes
  /\ ClickHouse => \A d \in served \cap complete, t \in Table :
       \E c \in ChName : ch[c] # None /\ ch[c][t] = d

(* When no job runs SENTIENT works on one installation's data: what it     *)
(* has loaded, its PostgreSQL database and both ClickHouse tables belong   *)
(* together.  Not after a kill between two of the steps, not after a call  *)
(* that failed while a switch was undone, and not for a database whose     *)
(* restore did not finish, which the switch accepts too.                   *)
Undisturbed == crashes = 0 /\ ~undoFailed
MatchedInService ==
  at = "idle" /\ server # None /\ Undisturbed =>
    /\ Exists(Live) /\ server = pg[Live].data
    /\ ClickHouse /\ server \in complete => \A t \in Table : ch[Live][t] = server

(* A switch that failed has put everything back: every database under its  *)
(* name, every table in its database, the key file, and SENTIENT started:  *)
(* "SENTIENT runs on its data as before".                                  *)
FailedSwitchUndone ==
  [][at # "idle" /\ at' = "idle" /\ last' = "undone" /\ ~undoFailed' =>
       /\ Stand'.data = was.data /\ was.letIn \subseteq Stand'.letIn
       /\ ch' = was.ch
       /\ keyfile' = was.keyfile \/ raced'
       /\ wanted']_vars

(* The key file opens what the last rotation or a switch that said so left *)
(* openable, the data kept from before among them: "the previous key stays *)
(* in the key file so the data from before still opens".  Not when the key *)
(* is rotated between the switch's look at the file and its writing it.    *)
KeysKept ==
  at = "idle" /\ Undisturbed /\ ~raced =>
    \A n \in Name : Exists(n) /\ pg[n].data \in opened => NeedsNoKey(pg[n])

=============================================================================
