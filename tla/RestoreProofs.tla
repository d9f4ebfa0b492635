--------------------------- MODULE RestoreProofs ---------------------------
(***************************************************************************)
(* "Nothing is deleted": DataKept of Restore, for any names, backups,      *)
(* keys, writes, failures, kills and jobs.                                 *)
(*                                                                         *)
(* What a switch puts into service belongs together, a switch that failed  *)
(* has put everything back, and the key file still opens what it opened:   *)
(* FailedSwitchUndone, MatchedInService and KeysKept of Restore, for the   *)
(* same constants, as long as a table that ClickHouse refuses to exchange  *)
(* is refused again.                                                       *)
(***************************************************************************)
EXTENDS Restore, TLAPS

(* The writes of a set are in PostgreSQL's databases, and both tables of   *)
(* every set of data in ClickHouse's.                                      *)
Holds(dbs, writes) ==
  \A s \in writes : \E n \in Name : dbs[n] # None /\ dbs[n].data = s[1] /\ s[2] \in dbs[n].writes
HoldsTables(chs, done) ==
  \A d \in done, t \in Table : \E c \in ChName : chs[c] # None /\ chs[c][t] = d

(* What a job works with, and where it may be with it: a restore fills      *)
(* what it made itself, and a switch exchanges tables there are.           *)
Exchanging == {"exchange", "again", "u_exchange"}
InService == {"exchange", "install", "start", "wait"}
Placed(step, n, dbs, chs) ==
  /\ step \in RestoreSteps => n \in Targets /\ backup \in Backups
  /\ step \in (RestoreSteps \ {"create"}) \union {"plan"} => dbs[n] # None
  /\ step \in RestoreSteps \ {"create", "clone"} /\ ClickHouse => chs[n] \in [Table -> {None, jobs}]
  /\ step \in Exchanging \union {"import", "clone"} => ClickHouse
  /\ step \in SwitchSteps /\ ClickHouse => n \in ChName /\ chs[n] # None
  /\ step \in InService => dbs[Live] # None
  /\ key # NoKeyChange => key.new # None /\ key.previous # None
Fields == {"name", "backup", "key", "said", "aside", "pos", "refused", "was"}

Typed == TypeOK /\ DOMAIN job = Fields /\ Placed(at, name, pg, ch)
Tabled == ClickHouse => ch[Live] # None /\ HoldsTables(ch, complete)
Inv == Typed /\ Tabled /\ Holds(pg, stored)

----------------------------------------------------------------------------
(* Live is a name, no target and no name data are kept under.              *)
LEMMA Names ==
  /\ Live \in Name /\ Live \in ChName /\ Live \notin Targets
  /\ Targets \subseteq Name /\ Targets \subseteq ChName /\ ChName \subseteq Name
  /\ \A m \in 0..MaxMinute : <<"before_restore", m>> \in Name
BY RestoreAssumption DEF Name, ChName, Aside

(* The two tables, by position.                                            *)
LEMMA TheTables ==
  /\ Table = {"ts_kv", "ts_kv_latest_agg"} /\ Len(Tables) = 2
  /\ \A i \in 1..2 : Tables[i] \in Table
<1>1. DOMAIN Tables = {1, 2} /\ Len(Tables) = 2
  BY DEF Tables
<1>2. Tables[1] = "ts_kv" /\ Tables[2] = "ts_kv_latest_agg"
  BY DEF Tables
<1>3. Table = {"ts_kv", "ts_kv_latest_agg"}
  BY <1>1, <1>2 DEF Table
<1> QED BY <1>1, <1>2, <1>3

(* None is none of the things that may not be there.                       *)
LEMMA Nothing ==
  /\ None \notin Database /\ None \notin Data /\ None \notin Keys /\ None \notin KeyFile
  /\ None \notin [Table -> Data \union {None}]
BY RestoreAssumption

(* A change to one database that keeps its data and writes loses nothing.  *)
LEMMA ChangeHolds ==
  ASSUME pg \in [Name -> Database \union {None}], Holds(pg, stored), NEW n \in Name, pg[n] # None,
         NEW db \in Database, db.data = pg[n].data, pg[n].writes \subseteq db.writes
  PROVE  /\ [pg EXCEPT ![n] = db] \in [Name -> Database \union {None}]
         /\ Holds([pg EXCEPT ![n] = db], stored)
<1> DEFINE after == [pg EXCEPT ![n] = db]
<1>1. /\ after \in [Name -> Database \union {None}]
      /\ after[n] = db /\ db # None
      /\ \A m \in Name \ {n} : after[m] = pg[m]
  BY Nothing
<1> HIDE DEF after
<1>2. ASSUME NEW s \in stored
      PROVE  \E m \in Name : after[m] # None /\ after[m].data = s[1] /\ s[2] \in after[m].writes
  <2>1. PICK m \in Name : pg[m] # None /\ pg[m].data = s[1] /\ s[2] \in pg[m].writes
    BY DEF Holds
  <2> QED BY <1>1, <2>1
<1> QED BY <1>1, <1>2 DEF Holds, after

(* A name changed for another that is free, or not: no data are lost.      *)
LEMMA RenameHolds ==
  ASSUME pg \in [Name -> Database \union {None}], Holds(pg, stored),
         NEW from \in Name, NEW to \in Name,
         pg[from] # None, NEW done \in BOOLEAN, done => pg[to] = None, NEW letIn \in BOOLEAN
  PROVE  /\ Renamed(from, to, done, letIn) \in [Name -> Database \union {None}]
         /\ Holds(Renamed(from, to, done, letIn), stored)
         /\ done => Renamed(from, to, done, letIn)[to] # None
<1> DEFINE moved == [pg[from] EXCEPT !.open = letIn]
<1> SUFFICES ASSUME NEW after, after = Renamed(from, to, done, letIn)
             PROVE  after \in [Name -> Database \union {None}] /\ Holds(after, stored) /\ (done => after[to] # None)
  OBVIOUS
<1>1. moved \in Database /\ moved.data = pg[from].data /\ moved.writes = pg[from].writes
  BY DEF Database
<1> HIDE DEF moved
<1>2. CASE done
  <2>1. after = [pg EXCEPT ![to] = moved, ![from] = None] /\ from # to
    BY <1>2 DEF Renamed, moved
  <2>2. /\ after \in [Name -> Database \union {None}]
        /\ after[to] = moved /\ moved # None
        /\ \A m \in Name \ {from, to} : after[m] = pg[m]
    BY <1>1, <2>1, Nothing
  <2>3. ASSUME NEW s \in stored
        PROVE  \E m \in Name : after[m] # None /\ after[m].data = s[1] /\ s[2] \in after[m].writes
    <3>1. PICK m \in Name : pg[m] # None /\ pg[m].data = s[1] /\ s[2] \in pg[m].writes
      BY DEF Holds
    <3>2. m # to
      BY <1>2, <3>1
    <3> QED BY <1>1, <2>2, <3>1, <3>2
  <2>4. Holds(after, stored)
    BY <2>3 DEF Holds
  <2> QED BY <2>2, <2>4
<1>3. CASE ~done
  <2>1. after = [pg EXCEPT ![from] = moved]
    BY <1>3 DEF Renamed, moved
  <2>2. pg[from].writes \subseteq moved.writes
    BY <1>1
  <2>3. /\ [pg EXCEPT ![from] = moved] \in [Name -> Database \union {None}]
        /\ Holds([pg EXCEPT ![from] = moved], stored)
    BY <1>1, <2>2, ChangeHolds
  <2> QED BY <1>3, <2>1, <2>3
<1> QED BY <1>2, <1>3

----------------------------------------------------------------------------
(* The fields of the job and the groups of variables are abbreviations.     *)
USE DEF name, backup, key, said, aside, pos, refused, ClickHouse, Docker, Exists
USE DEF stores, sentient, bounds, history, trouble

(* A job that ended works with nothing any more.                           *)
LEMMA Ended ==
  ASSUME NEW how \in {"none", "restored", "notrestored", "switched", "undone", "killed"}, Return(how)
  PROVE  /\ at' = "idle" /\ last' = how /\ DOMAIN job' = Fields
         /\ job'.name \in Name /\ job'.aside \in Name /\ job'.backup = None
         /\ job'.key = NoKeyChange /\ job'.said = "nothing" /\ job'.pos = 1 /\ job'.refused = {}
         /\ \A n, dbs, chs : Placed(at, n, dbs, chs)'
BY Names DEF Return, NoJob, Fields, Placed, RestoreSteps, SwitchSteps, Exchanging, InService

(* A call that fails uses one of the failures there are left.              *)
LEMMA Injected ==
  ASSUME Typed
  PROVE  /\ \A undoing \in BOOLEAN : FailsWhile(undoing) => faults' \in 0..MaxFaults /\ undoFailed' \in BOOLEAN
         /\ Fails => faults' \in 0..MaxFaults /\ undoFailed' \in BOOLEAN
         /\ Works => faults' \in 0..MaxFaults /\ undoFailed' \in BOOLEAN
<1>1. faults \in 0..MaxFaults /\ undoFailed \in BOOLEAN /\ MaxFaults \in Nat
  BY RestoreAssumption DEF Typed, TypeOK
<1>2. ASSUME NEW undoing \in BOOLEAN, FailsWhile(undoing)
      PROVE  faults' \in 0..MaxFaults /\ undoFailed' \in BOOLEAN
  <2>1. faults' \in 0..MaxFaults
    BY <1>1, <1>2 DEF FailsWhile
  <2>2. undoFailed' \in BOOLEAN
    BY <1>1, <1>2 DEF FailsWhile
  <2> QED BY <2>1, <2>2
<1>3. Fails => faults' \in 0..MaxFaults /\ undoFailed' \in BOOLEAN
  BY <1>1 DEF Fails, FailsWhile
<1> QED BY <1>1, <1>2, <1>3 DEF Works

(* Every restore makes what it fills, and leaves the rest alone.           *)
LEMMA RestoreBegins ==
  ASSUME Inv, NEW target \in Targets, NEW b \in Backups, BeginRestore(target, b), UNCHANGED kind
  PROVE  Inv'
<1>1. /\ at' = "create" /\ job' = [NoJob EXCEPT !.name = target, !.backup = b]
      /\ jobs' = jobs + 1 /\ jobs < MaxJobs /\ faults' = MaxFaults /\ last' = "none"
      /\ UNCHANGED <<kind, pg, ch, keyfile, wanted, server, minute, undoFailed, crashes, nextWrite>>
      /\ UNCHANGED <<complete, served, stored, opened, raced>>
  BY DEF BeginRestore, GotoWith
<1>2. /\ DOMAIN job' = Fields /\ name' = target /\ backup' = b /\ key' = NoKeyChange
      /\ said' = "nothing" /\ aside' = Live /\ pos' = 1 /\ refused' = {}
  BY <1>1 DEF NoJob, Fields
<1>3. TypeOK'
  BY <1>1, <1>2, Names, TheTables, RestoreAssumption
     DEF Inv, Typed, TypeOK, Steps, RestoreSteps, NoKeyChange, Data
<1>4. Placed(at, name, pg, ch)'
  BY <1>1, <1>2 DEF Placed, Exchanging, InService, RestoreSteps, SwitchSteps
<1> QED BY <1>1, <1>2, <1>3, <1>4 DEF Inv, Typed, Tabled

(* A step of a restore: it ends, or goes on with a database and tables of  *)
(* its own, and has kept what was there.                                   *)
LEMMA RestoreMoves ==
  ASSUME Inv, at \in RestoreSteps,
         pg' \in [Name -> Database \union {None}], Holds(pg', stored),
         ch' \in [ChName -> [Table -> Data \union {None}] \union {None}],
         complete' \subseteq Data,
         ClickHouse => ch'[Live] # None /\ HoldsTables(ch', complete'),
         faults' \in 0..MaxFaults, undoFailed' \in BOOLEAN,
         UNCHANGED <<kind, keyfile, wanted, server, minute, crashes, jobs, nextWrite>>,
         UNCHANGED <<served, stored, opened, raced>>,
         \/ \E how \in {"restored", "notrestored"} : Return(how)
         \/ \E step \in RestoreSteps \ {"create"} :
              /\ Goto(step) /\ last' = last /\ pg'[name] # None
              /\ step \in {"clone", "import"} => ClickHouse
              /\ step # "clone" /\ ClickHouse => ch'[name] \in [Table -> {None, jobs}]
  PROVE  Inv'
<1>1. CASE \E how \in {"restored", "notrestored"} : Return(how)
  <2>1. PICK how \in {"restored", "notrestored"} : Return(how)
    BY <1>1
  <2>2. DOMAIN job' = Fields /\ Placed(at, name, pg, ch)'
    BY <2>1, Ended
  <2>3. at' \in Steps \union {"idle"} /\ last' = how
    BY <2>1, Ended
  <2>4. /\ name' \in Name /\ aside' \in Name /\ backup' \in Backups \union {None}
        /\ key' \in [new : KeyFile \union {None}, previous : KeyFile \union {None}]
        /\ said' \in {"nothing", "installed", "notinstalled", "missing", "unchecked"}
        /\ pos' \in 1..Len(Tables) /\ refused' \subseteq MayRefuse
    BY <2>1, Ended, TheTables DEF NoKeyChange
  <2>5. TypeOK'
    BY <2>3, <2>4 DEF Inv, Typed, TypeOK
  <2> QED BY <2>2, <2>5 DEF Inv, Typed, Tabled
<1>2. ASSUME NEW step \in RestoreSteps \ {"create"},
             Goto(step), last' = last, pg'[name] # None,
             step \in {"clone", "import"} => ClickHouse,
             step # "clone" /\ ClickHouse => ch'[name] \in [Table -> {None, jobs}]
      PROVE  Inv'
  <2>1. at' = step /\ job' = job /\ step \in Steps
    BY <1>2 DEF Goto, Steps
  <2>2. TypeOK' /\ DOMAIN job' = Fields
    BY <1>2, <2>1 DEF Inv, Typed, TypeOK
  <2>3. Placed(at, name, pg, ch)'
    BY <1>2, <2>1 DEF Inv, Typed, Placed, RestoreSteps, SwitchSteps, Exchanging, InService
  <2> QED BY <2>2, <2>3 DEF Inv, Typed, Tabled
<1> QED BY <1>1, <1>2

(* CREATE DATABASE: under a name that was free.                            *)
LEMMA Created ==
  ASSUME Inv, CreateDatabase, UNCHANGED kind
  PROVE  Inv'
<1>1. /\ at \in RestoreSteps /\ name \in Name
      /\ pg \in [Name -> Database \union {None}] /\ Holds(pg, stored)
      /\ ch' \in [ChName -> [Table -> Data \union {None}] \union {None}]
      /\ complete' \subseteq Data
      /\ ClickHouse => ch'[Live] # None /\ HoldsTables(ch', complete')
      /\ faults' \in 0..MaxFaults /\ undoFailed' \in BOOLEAN
  BY Injected DEF CreateDatabase, Inv, Typed, TypeOK, Tabled, RestoreSteps
<1>2. /\ UNCHANGED <<kind, ch, keyfile, wanted, server, minute, crashes, jobs, nextWrite>>
      /\ UNCHANGED <<complete, served, stored, opened, raced>>
  BY DEF CreateDatabase
<1>3. CASE RestoreFails /\ UNCHANGED pg
  BY <1>1, <1>2, <1>3, RestoreMoves DEF RestoreFails
<1>4. CASE /\ ~Exists(name)
           /\ pg' = [pg EXCEPT ![name] = [data |-> jobs, schema |-> Partial, key |-> None, note |-> None,
                                          writes |-> {}, open |-> TRUE]]
           /\ Goto(IF ClickHouse THEN "clone" ELSE "read") /\ UNCHANGED last
  <2> DEFINE db == [data |-> jobs, schema |-> Partial, key |-> None, note |-> None, writes |-> {}, open |-> TRUE]
  <2>1. db \in Database /\ db # None
    <3>1. jobs \in Data /\ Partial \in Schemas
      BY DEF Schemas, Data, Inv, Typed, TypeOK
    <3>2. db \in Database
      BY <3>1 DEF Database
    <3> QED BY <3>2, Nothing
  <2> HIDE DEF db
  <2>2. pg' = [pg EXCEPT ![name] = db]
    BY <1>4 DEF db
  <2>3. /\ pg' \in [Name -> Database \union {None}]
        /\ pg'[name] = db
        /\ \A n \in Name \ {name} : pg'[n] = pg[n]
    BY <1>1, <2>1, <2>2
  <2>4. Holds(pg', stored)
    BY <1>1, <1>4, <2>3 DEF Holds
  <2> DEFINE step == IF ClickHouse THEN "clone" ELSE "read"
  <2>5. /\ step \in RestoreSteps \ {"create"} /\ Goto(step) /\ last' = last /\ pg'[name] # None
        /\ step \in {"clone", "import"} => ClickHouse
        /\ step # "clone" => ~ClickHouse
    BY <1>4, <2>1, <2>3 DEF RestoreSteps
  <2> HIDE DEF step
  <2> QED BY <1>1, <1>2, <2>3, <2>4, <2>5, RestoreMoves
<1> QED BY <1>3, <1>4 DEF CreateDatabase

(* What is there while a restore runs.                                     *)
LEMMA Restoring ==
  ASSUME Inv, at \in RestoreSteps \ {"create"}
  PROVE  /\ name \in Targets /\ name \in Name /\ name \in ChName /\ backup \in Backup /\ name # Live
         /\ pg \in [Name -> Database \union {None}] /\ Holds(pg, stored) /\ pg[name] \in Database
         /\ ch \in [ChName -> [Table -> Data \union {None}] \union {None}]
         /\ jobs \in Data /\ complete \subseteq Data /\ None \notin complete
         /\ ClickHouse => ch[Live] # None /\ HoldsTables(ch, complete)
         /\ ClickHouse /\ at # "clone" => ch[name] \in [Table -> {None, jobs}]
         /\ at \in {"clone", "import"} => ClickHouse
<1>1. name \in Targets /\ backup \in Backups /\ Exists(name)
  BY DEF Inv, Typed, Placed
<1> QED BY <1>1, Names, Nothing, RestoreAssumption
        DEF Inv, Typed, TypeOK, Tabled, Placed, Data, Exchanging

(* Tables filled with a restore's own data, in tables that held nothing    *)
(* else: no history is lost.                                               *)
LEMMA FillHolds ==
  ASSUME ch \in [ChName -> [Table -> Data \union {None}] \union {None}],
         NEW n \in ChName, ch[n] \in [Table -> {None, jobs}], jobs \in Data,
         NEW done \in SUBSET Data, HoldsTables(ch, done),
         NEW filled \in [Table -> {None, jobs}], \A t \in Table : ch[n][t] = jobs => filled[t] = jobs
  PROVE  /\ [ch EXCEPT ![n] = filled] \in [ChName -> [Table -> Data \union {None}] \union {None}]
         /\ HoldsTables([ch EXCEPT ![n] = filled], done)
<1> SUFFICES ASSUME NEW after, after = [ch EXCEPT ![n] = filled]
             PROVE  /\ after \in [ChName -> [Table -> Data \union {None}] \union {None}]
                    /\ HoldsTables(after, done)
  OBVIOUS
<1>1. filled \in [Table -> Data \union {None}] /\ filled # None
  BY Nothing
<1>2. /\ after \in [ChName -> [Table -> Data \union {None}] \union {None}]
      /\ after[n] = filled /\ \A c \in ChName \ {n} : after[c] = ch[c]
  BY <1>1
<1>3. ASSUME NEW d \in done, NEW t \in Table
      PROVE  \E c \in ChName : after[c] # None /\ after[c][t] = d
  <2>1. PICK c \in ChName : ch[c] # None /\ ch[c][t] = d
    BY DEF HoldsTables
  <2>2. CASE c = n
    <3>1. d # None /\ ch[n][t] \in {None, jobs}
      BY Nothing
    <3>2. filled[t] = d
      BY <2>1, <2>2, <3>1
    <3> QED BY <1>1, <1>2, <3>2
  <2>3. CASE c # n
    BY <1>2, <2>1, <2>3
  <2> QED BY <2>2, <2>3
<1> QED BY <1>2, <1>3 DEF HoldsTables

(* clone_schema: tables made under a name ClickHouse did not have.         *)
LEMMA SchemaCloned ==
  ASSUME Inv, CloneSchema, UNCHANGED kind
  PROVE  Inv'
<1>1. /\ at = "clone" /\ at \in RestoreSteps \ {"create"} /\ at \in RestoreSteps
      /\ UNCHANGED <<kind, pg, keyfile, wanted, server, minute, crashes, jobs, nextWrite>>
      /\ UNCHANGED <<complete, served, stored, opened, raced>>
      /\ faults' \in 0..MaxFaults /\ undoFailed' \in BOOLEAN
  BY Injected DEF CloneSchema, Inv, Typed, RestoreSteps
<1>2. Empty \in [Table -> {None, jobs}] /\ Empty \in [Table -> Data \union {None}] /\ Empty # None
  BY Nothing DEF Empty
<1>3. ASSUME ch[name] = None, ch' = [ch EXCEPT ![name] = Empty]
      PROVE  /\ ch' \in [ChName -> [Table -> Data \union {None}] \union {None}]
             /\ ch'[name] = Empty /\ ch'[Live] = ch[Live]
             /\ ClickHouse => HoldsTables(ch', complete)
  <2>1. /\ ch' \in [ChName -> [Table -> Data \union {None}] \union {None}]
        /\ ch'[name] = Empty /\ \A c \in ChName \ {name} : ch'[c] = ch[c]
    BY <1>1, <1>2, <1>3, Restoring
  <2>2. ClickHouse => HoldsTables(ch', complete)
    BY <1>1, <1>2, <1>3, <2>1, Restoring DEF HoldsTables
  <2> QED BY <1>1, <2>1, <2>2, Restoring, Names
<1>4. CASE ch[name] = None /\ ch' = [ch EXCEPT ![name] = Empty] /\ Goto("read") /\ UNCHANGED last
  <2>1. "read" \in RestoreSteps \ {"create"}
    BY DEF RestoreSteps
  <2>2. pg'[name] # None
    BY <1>1, Restoring, Nothing
  <2> QED BY <1>1, <1>2, <1>3, <1>4, <2>1, <2>2, Restoring, RestoreMoves
<1>5. CASE RestoreFails /\ (UNCHANGED ch \/ (ch[name] = None /\ ch' = [ch EXCEPT ![name] = Empty]))
  BY <1>1, <1>3, <1>5, Restoring, RestoreMoves DEF RestoreFails
<1>6. ch[name] # None => [ch EXCEPT ![name] = IF @ = None THEN Empty ELSE @] = ch
  BY <1>1, Restoring
<1>7. ch[name] = None =>
        [ch EXCEPT ![name] = IF @ = None THEN Empty ELSE @] = [ch EXCEPT ![name] = Empty]
  OBVIOUS
<1> QED BY <1>4, <1>5, <1>6, <1>7 DEF CloneSchema

(* The archive is read: nothing is changed.                                *)
LEMMA ArchiveRead ==
  ASSUME Inv, ReadArchive, UNCHANGED kind
  PROVE  Inv'
<1>1. /\ at = "read" /\ at \in RestoreSteps \ {"create"} /\ at \in RestoreSteps
      /\ "load" \in RestoreSteps \ {"create"}
      /\ UNCHANGED <<kind, pg, ch, keyfile, wanted, server, minute, crashes, jobs, nextWrite>>
      /\ UNCHANGED <<complete, served, stored, opened, raced>>
      /\ faults' \in 0..MaxFaults /\ undoFailed' \in BOOLEAN
      /\ (Goto("load") /\ last' = last) \/ Return("notrestored")
  BY Injected DEF ReadArchive, Inv, Typed, RestoreSteps, RestoreFails
<1>2. pg'[name] # None
  BY <1>1, Restoring, Nothing
<1> QED BY <1>1, <1>2, Restoring, RestoreMoves

(* A step that changes only what the restored database is like.            *)
LEMMA DatabaseChanged ==
  ASSUME Inv, at \in RestoreSteps \ {"create", "clone", "import"}, NEW db \in Database,
         db.data = pg[name].data, db.writes = pg[name].writes,
         pg' = [n \in Name |-> IF n = name THEN db ELSE pg[n]], UNCHANGED ch,
         faults' \in 0..MaxFaults, undoFailed' \in BOOLEAN,
         UNCHANGED <<kind, keyfile, wanted, server, minute, crashes, jobs, nextWrite>>,
         UNCHANGED <<complete, served, stored, opened, raced>>,
         \/ \E how \in {"restored", "notrestored"} : Return(how)
         \/ \E step \in RestoreSteps \ {"create", "clone", "import"} : Goto(step) /\ last' = last
  PROVE  Inv'
<1>1. at \in RestoreSteps /\ at \in RestoreSteps \ {"create"} /\ at # "clone"
  OBVIOUS
<1>2. pg[name] # None /\ pg[name].writes \subseteq db.writes
  BY <1>1, Restoring, Nothing
<1>3. pg' = [pg EXCEPT ![name] = db]
  BY <1>1, Restoring
<1>4. pg' \in [Name -> Database \union {None}] /\ Holds(pg', stored)
  BY <1>1, <1>2, <1>3, Restoring, ChangeHolds
<1>5. pg'[name] = db /\ db # None
  BY <1>1, Restoring, Nothing
<1> QED BY <1>1, <1>4, <1>5, Restoring, RestoreMoves

(* pg_restore, whether it goes through or stops at an error.               *)
LEMMA Loaded ==
  ASSUME Inv, Load, UNCHANGED kind
  PROVE  Inv'
<1>1. /\ at \in RestoreSteps \ {"create", "clone", "import"} /\ at \in RestoreSteps \ {"create"}
      /\ UNCHANGED <<kind, ch, keyfile, wanted, server, minute, crashes, jobs, nextWrite>>
      /\ UNCHANGED <<complete, served, stored, opened, raced>>
      /\ faults' \in 0..MaxFaults /\ undoFailed' \in BOOLEAN
  BY Injected DEF Load, Inv, Typed, RestoreSteps
<1>2. \/ \E how \in {"restored", "notrestored"} : Return(how)
      \/ \E step \in RestoreSteps \ {"create", "clone", "import"} : Goto(step) /\ last' = last
  BY DEF Load, RestoreFails, RestoreSteps
<1>3. PICK s \in {Partial, backup.schema}, k \in {None, backup.key} :
        pg' = [pg EXCEPT ![name].schema = s, ![name].key = k]
  BY DEF Load
<1> DEFINE db == [pg[name] EXCEPT !.schema = s, !.key = k]
<1>4. s \in Schemas /\ k \in Keys \union {None} /\ pg[name] \in Database
  BY <1>1, <1>3, Restoring DEF Backup, Schemas
<1>5. db \in Database /\ db.data = pg[name].data /\ db.writes = pg[name].writes
  BY <1>4 DEF Database
<1>6. pg' = [n \in Name |-> IF n = name THEN db ELSE pg[n]]
  BY <1>1, <1>3, Restoring
<1> HIDE DEF db
<1> QED BY <1>1, <1>2, <1>5, <1>6, DatabaseChanged

(* match_schema: an older schema is made the same, refused or half made.   *)
LEMMA SchemaMatched ==
  ASSUME Inv, MatchSchema, UNCHANGED kind
  PROVE  Inv'
<1>1. /\ at \in RestoreSteps \ {"create", "clone", "import"} /\ at \in RestoreSteps \ {"create"}
      /\ UNCHANGED <<kind, ch, keyfile, wanted, server, minute, crashes, jobs, nextWrite>>
      /\ UNCHANGED <<complete, served, stored, opened, raced>>
      /\ faults' \in 0..MaxFaults /\ undoFailed' \in BOOLEAN
  BY Injected DEF MatchSchema, Inv, Typed, RestoreSteps
<1>2. \/ \E how \in {"restored", "notrestored"} : Return(how)
      \/ \E step \in RestoreSteps \ {"create", "clone", "import"} : Goto(step) /\ last' = last
  BY DEF MatchSchema, RestoreFails, RestoreSteps
<1>3. pg \in [Name -> Database \union {None}] /\ name \in Name /\ pg[name] \in Database
  BY <1>1, Restoring
<1>4. \E s \in Schemas : pg' = [pg EXCEPT ![name].schema = s]
  <2>1. pg = [pg EXCEPT ![name].schema = pg[name].schema]
    <3>1. pg[name] = [pg[name] EXCEPT !.schema = pg[name].schema]
      BY <1>3 DEF Database
    <3> QED BY <1>3, <3>1
  <2>2. pg[name].schema \in Schemas /\ "same" \in Schemas /\ Partial \in Schemas
    BY <1>3 DEF Database, Schemas
  <2> QED BY <2>1, <2>2 DEF MatchSchema
<1>5. PICK s \in Schemas : pg' = [pg EXCEPT ![name].schema = s]
  BY <1>4
<1> DEFINE db == [pg[name] EXCEPT !.schema = s]
<1>6. db \in Database /\ db.data = pg[name].data /\ db.writes = pg[name].writes
  BY <1>3 DEF Database
<1>7. pg' = [n \in Name |-> IF n = name THEN db ELSE pg[n]]
  BY <1>3, <1>5
<1> HIDE DEF db
<1> QED BY <1>1, <1>2, <1>6, <1>7, DatabaseChanged

(* after_restore: the key file is noted on the database, or is not.        *)
LEMMA KeyNoted ==
  ASSUME Inv, NoteKey, UNCHANGED kind
  PROVE  Inv'
<1>1. /\ at \in RestoreSteps \ {"create", "clone", "import"} /\ at \in RestoreSteps \ {"create"}
      /\ UNCHANGED <<kind, ch, keyfile, wanted, server, minute, crashes, jobs, nextWrite>>
      /\ UNCHANGED <<complete, served, stored, opened, raced>>
      /\ faults' \in 0..MaxFaults /\ undoFailed' \in BOOLEAN
      /\ \E how \in {"restored", "notrestored"} : Return(how)
  BY Injected DEF NoteKey, Inv, Typed, RestoreSteps, RestoreFails
<1>2. pg \in [Name -> Database \union {None}] /\ name \in Name /\ pg[name] \in Database /\ backup \in Backup
  BY <1>1, Restoring
<1>3. \E note \in KeyFile \union {None} : pg' = [pg EXCEPT ![name].note = note]
  <2>1. pg = [pg EXCEPT ![name].note = pg[name].note]
    <3>1. pg[name] = [pg[name] EXCEPT !.note = pg[name].note]
      BY <1>2 DEF Database
    <3> QED BY <1>2, <3>1
  <2>2. pg[name].note \in KeyFile \union {None} /\ backup.beside \in KeyFile \union {None}
    BY <1>2 DEF Database, Backup
  <2> QED BY <2>1, <2>2 DEF NoteKey
<1>4. PICK note \in KeyFile \union {None} : pg' = [pg EXCEPT ![name].note = note]
  BY <1>3
<1> DEFINE db == [pg[name] EXCEPT !.note = note]
<1>5. db \in Database /\ db.data = pg[name].data /\ db.writes = pg[name].writes
  BY <1>2 DEF Database
<1>6. pg' = [n \in Name |-> IF n = name THEN db ELSE pg[n]]
  BY <1>2, <1>4
<1> HIDE DEF db
<1> QED BY <1>1, <1>5, <1>6, DatabaseChanged

(* ClickHouse's tables filled, or the first of them: with this restore's   *)
(* data, in tables that were made for it.                                  *)
LEMMA TablesFilled ==
  ASSUME Inv, at \in {"import", "convert"}, ClickHouse, FillTables,
         UNCHANGED <<kind, keyfile, wanted, server, minute, crashes, jobs, nextWrite>>,
         UNCHANGED <<pg, served, stored, opened, raced>>
  PROVE  Inv'
<1>1. /\ at \in RestoreSteps \ {"create"} /\ at \in RestoreSteps /\ at # "clone"
      /\ "match" \in RestoreSteps \ {"create"}
      /\ faults' \in 0..MaxFaults /\ undoFailed' \in BOOLEAN
  BY Injected DEF FillTables, Inv, Typed, RestoreSteps
<1>2. /\ name \in ChName /\ name # Live /\ ch[name] \in [Table -> {None, jobs}] /\ jobs \in Data
      /\ ch \in [ChName -> [Table -> Data \union {None}] \union {None}]
      /\ complete \subseteq Data /\ HoldsTables(ch, complete) /\ ch[Live] # None
      /\ pg \in [Name -> Database \union {None}] /\ Holds(pg, stored) /\ pg[name] # None
  BY <1>1, Restoring, Nothing
<1> DEFINE full == [t \in Table |-> jobs]
           half == [t \in Table |-> IF t = "ts_kv" THEN jobs ELSE ch[name][t]]
<1>3. CASE /\ ch' = [ch EXCEPT ![name] = full] /\ complete' = complete \union {jobs}
           /\ Goto("match") /\ last' = last
  <2>1. full \in [Table -> {None, jobs}] /\ \A t \in Table : full[t] = jobs
    OBVIOUS
  <2> HIDE DEF full
  <2>2. /\ ch' \in [ChName -> [Table -> Data \union {None}] \union {None}]
        /\ HoldsTables(ch', complete)
    BY <1>2, <1>3, <2>1, FillHolds
  <2>3. full # None
    BY <1>2, <2>1, Nothing
  <2>4. ch'[name] = full /\ ch'[Live] = ch[Live]
    BY <1>2, <1>3, Names
  <2>5. HoldsTables(ch', complete')
    BY <1>2, <1>3, <2>1, <2>2, <2>3, <2>4 DEF HoldsTables
  <2>6. complete' \subseteq Data
    BY <1>2, <1>3
  <2> QED BY <1>1, <1>2, <1>3, <2>1, <2>2, <2>4, <2>5, <2>6, RestoreMoves
<1>4. CASE RestoreFails /\ ch' = [ch EXCEPT ![name]["ts_kv"] = jobs] /\ UNCHANGED complete
  <2>1. /\ half \in [Table -> {None, jobs}]
        /\ \A t \in Table : ch[name][t] = jobs => half[t] = jobs
    BY <1>2
  <2>2. ch' = [ch EXCEPT ![name] = half]
    <3>1. [ch[name] EXCEPT !["ts_kv"] = jobs] = half
      BY <1>2
    <3> QED BY <1>4, <3>1
  <2> HIDE DEF half
  <2>3. /\ ch' \in [ChName -> [Table -> Data \union {None}] \union {None}]
        /\ HoldsTables(ch', complete)
    BY <1>2, <2>1, <2>2, FillHolds
  <2>4. ch'[Live] = ch[Live]
    BY <1>2, <2>2, Names
  <2> QED BY <1>1, <1>2, <1>4, <2>3, <2>4, RestoreMoves DEF RestoreFails
<1>5. CASE RestoreFails /\ ch' = ch /\ UNCHANGED complete
  BY <1>1, <1>2, <1>5, RestoreMoves DEF RestoreFails
<1> QED BY <1>3, <1>4, <1>5 DEF FillTables

(* The telemetry, wherever it goes on this installation.                   *)
LEMMA TelemetryLoaded ==
  ASSUME Inv, LoadTelemetry \/ ImportTables \/ Convert, UNCHANGED kind
  PROVE  Inv'
<1>1. CASE ImportTables \/ (Convert /\ ClickHouse)
  <2>1. /\ at \in {"import", "convert"} /\ FillTables
        /\ UNCHANGED <<kind, keyfile, wanted, server, minute, crashes, jobs, nextWrite>>
        /\ UNCHANGED <<pg, served, stored, opened, raced>>
    BY <1>1 DEF ImportTables, Convert, FillTables
  <2>2. ClickHouse
    BY <1>1 DEF ImportTables, Inv, Typed, Placed
  <2> QED BY <2>1, <2>2, TablesFilled
<1>2. CASE LoadTelemetry \/ (Convert /\ ~ClickHouse)
  <2>1. /\ at \in RestoreSteps \ {"create"} /\ at \in RestoreSteps /\ at # "clone"
        /\ UNCHANGED <<kind, pg, ch, keyfile, wanted, server, minute, crashes, jobs, nextWrite>>
        /\ UNCHANGED <<served, stored, opened, raced>>
        /\ faults' \in 0..MaxFaults /\ undoFailed' \in BOOLEAN
    BY <1>2, Injected DEF LoadTelemetry, Convert, Inv, Typed, RestoreSteps
  <2>2. /\ complete' \in {complete, complete \union {jobs}}
        /\ ClickHouse => complete' = complete
    BY <1>2 DEF LoadTelemetry, Convert
  <2>3. \/ Return("notrestored")
        \/ /\ \E step \in RestoreSteps \ {"create", "clone"} :
                Goto(step) /\ (step = "import" => ClickHouse)
           /\ last' = last
    BY <1>2 DEF LoadTelemetry, Convert, RestoreFails, RestoreSteps
  <2>4. complete' \subseteq Data /\ pg'[name] # None
    BY <2>1, <2>2, Restoring, Nothing
  <2>5. ClickHouse => ch'[name] \in [Table -> {None, jobs}] /\ HoldsTables(ch', complete') /\ ch'[Live] # None
    BY <2>1, <2>2, Restoring
  <2> QED BY <2>1, <2>3, <2>4, <2>5, Restoring, RestoreMoves
<1> QED BY <1>1, <1>2

(* Every step of a restore.                                                *)
LEMMA RestoreKeeps ==
  ASSUME Inv, RestoreStep, UNCHANGED kind
  PROVE  Inv'
BY Created, SchemaCloned, ArchiveRead, Loaded, TelemetryLoaded, SchemaMatched, KeyNoted DEF RestoreStep

----------------------------------------------------------------------------
(* What a switch's step makes of what the job works with: still the same   *)
(* restored database.                                                      *)
Said == {"nothing", "installed", "notinstalled", "missing", "unchecked"}
Carried ==
  /\ DOMAIN job' = Fields /\ name' = name /\ backup' = backup /\ aside' \in Name
  /\ key' \in [new : KeyFile \union {None}, previous : KeyFile \union {None}]
  /\ key' # NoKeyChange => key'.new # None /\ key'.previous # None
  /\ said' \in Said /\ pos' \in 1..2 /\ refused' = refused

(* Where a switch may go, and with what.                                   *)
LEMMA Going ==
  ASSUME Typed
  PROVE  /\ \A step : Goto(step) => at' = step /\ Carried
         /\ \A step : \A it \in Said : GotoWith(step, [job EXCEPT !.said = it]) => at' = step /\ Carried
         /\ \A step : \A i \in 1..2 : GotoWith(step, [job EXCEPT !.pos = i]) => at' = step /\ Carried
         /\ \A step : \A n \in Name : GotoWith(step, [job EXCEPT !.aside = n]) => at' = step /\ Carried
<1>1. /\ DOMAIN job = Fields /\ aside \in Name
      /\ key \in [new : KeyFile \union {None}, previous : KeyFile \union {None}]
      /\ key # NoKeyChange => key.new # None /\ key.previous # None
      /\ said \in Said /\ pos \in 1..2
  BY TheTables DEF Typed, TypeOK, Placed, Said
<1>2. \A step : Goto(step) => at' = step /\ Carried
  BY <1>1 DEF Goto, Carried
<1>3. \A step : \A it \in Said : GotoWith(step, [job EXCEPT !.said = it]) => at' = step /\ Carried
  BY <1>1 DEF GotoWith, Carried, Fields
<1>4. \A step : \A i \in 1..2 : GotoWith(step, [job EXCEPT !.pos = i]) => at' = step /\ Carried
  BY <1>1 DEF GotoWith, Carried, Fields
<1>5. \A step : \A n \in Name : GotoWith(step, [job EXCEPT !.aside = n]) => at' = step /\ Carried
  BY <1>1 DEF GotoWith, Carried, Fields
<1> QED BY <1>2, <1>3, <1>4, <1>5

(* A step of a switch: it ends, or goes on with the same database.         *)
LEMMA SwitchMoves ==
  ASSUME Inv, at \in SwitchSteps,
         pg' \in [Name -> Database \union {None}], Holds(pg', stored),
         ch' \in [ChName -> [Table -> Data \union {None}] \union {None}],
         ClickHouse => ch'[Live] # None /\ ch'[name] # None /\ HoldsTables(ch', complete),
         keyfile' \in KeyFile, wanted' \in BOOLEAN, server' \in Data \union {None},
         opened' \subseteq Data, faults' \in 0..MaxFaults, undoFailed' \in BOOLEAN,
         UNCHANGED <<kind, minute, crashes, jobs, nextWrite, complete, served, stored, raced>>,
         \/ \E how \in {"switched", "undone"} : Return(how)
         \/ /\ at' \in SwitchSteps \ {"plan"} /\ last' = last /\ Carried
            /\ at' \in Exchanging => ClickHouse
            /\ at' \in InService => pg'[Live] # None
  PROVE  Inv'
<1>1. CASE \E how \in {"switched", "undone"} : Return(how)
  <2>1. PICK how \in {"switched", "undone"} : Return(how)
    BY <1>1
  <2>2. DOMAIN job' = Fields /\ Placed(at, name, pg, ch)'
    BY <2>1, Ended
  <2>3. at' \in Steps \union {"idle"} /\ last' = how
    BY <2>1, Ended
  <2>4. /\ name' \in Name /\ aside' \in Name /\ backup' \in Backups \union {None}
        /\ key' \in [new : KeyFile \union {None}, previous : KeyFile \union {None}]
        /\ said' \in {"nothing", "installed", "notinstalled", "missing", "unchecked"}
        /\ pos' \in 1..Len(Tables) /\ refused' \subseteq MayRefuse
    BY <2>1, Ended, TheTables DEF NoKeyChange
  <2>5. TypeOK'
    BY <2>3, <2>4 DEF Inv, Typed, TypeOK
  <2> QED BY <2>2, <2>5 DEF Inv, Typed, Tabled
<1>2. CASE at' \in SwitchSteps \ {"plan"} /\ last' = last /\ Carried
           /\ (at' \in Exchanging => ClickHouse) /\ (at' \in InService => pg'[Live] # None)
  <2>1. at' \in Steps
    BY <1>2 DEF Steps
  <2>2. TypeOK' /\ DOMAIN job' = Fields
    BY <1>2, <2>1, TheTables DEF Inv, Typed, TypeOK, Carried, Said
  <2>3. Placed(at, name, pg, ch)'
    BY <1>2, <2>1 DEF Inv, Typed, Placed, RestoreSteps, SwitchSteps, Exchanging, InService, Carried
  <2> QED BY <1>2, <2>2, <2>3 DEF Inv, Typed, Tabled
<1> QED BY <1>1, <1>2

(* What is there while a switch runs.                                      *)
LEMMA Switching ==
  ASSUME Inv, at \in SwitchSteps
  PROVE  /\ name \in Name /\ aside \in Name
         /\ pg \in [Name -> Database \union {None}] /\ Holds(pg, stored)
         /\ ch \in [ChName -> [Table -> Data \union {None}] \union {None}]
         /\ ClickHouse => name \in ChName /\ ch[Live] # None /\ ch[name] # None /\ HoldsTables(ch, complete)
         /\ keyfile \in KeyFile /\ wanted \in BOOLEAN /\ server \in Data \union {None}
         /\ opened \subseteq Data /\ pos \in 1..2 /\ minute \in 0..MaxMinute
         /\ at \in Exchanging => ClickHouse
         /\ at \in InService => pg[Live] \in Database
BY TheTables, Names DEF Inv, Typed, TypeOK, Tabled, Placed

(* A switch begins with two databases that are there.                      *)
LEMMA SwitchBegins ==
  ASSUME Inv, NEW n \in Name, BeginSwitch(n), UNCHANGED kind
  PROVE  Inv'
<1>1. /\ jobs' = jobs + 1 /\ jobs < MaxJobs /\ faults' = MaxFaults /\ last' = "none"
      /\ UNCHANGED <<kind, pg, ch, keyfile, wanted, server, minute, undoFailed, crashes, nextWrite>>
      /\ UNCHANGED <<complete, served, stored, opened, raced>>
      /\ Exists(n) /\ (ClickHouse => n \in ChName /\ ch[n] # None)
  BY DEF BeginSwitch
<1>2. PICK refuses \in {{}} \union {{t} : t \in MayRefuse} :
        GotoWith("plan", [NoJob EXCEPT !.name = n, !.refused = refuses, !.was = Stand])
  BY DEF BeginSwitch
<1>3. /\ at' = "plan" /\ DOMAIN job' = Fields /\ name' = n /\ backup' = None /\ key' = NoKeyChange
      /\ said' = "nothing" /\ aside' = Live /\ pos' = 1 /\ refused' = refuses
  BY <1>2 DEF NoJob, Fields, GotoWith
<1>4. TypeOK'
  <2>1. refuses \subseteq MayRefuse
    BY <1>2
  <2> QED BY <1>1, <1>3, <2>1, Names, TheTables, RestoreAssumption
          DEF Inv, Typed, TypeOK, Steps, SwitchSteps, NoKeyChange, Data
<1>5. Placed(at, name, pg, ch)'
  BY <1>1, <1>3 DEF Placed, Exchanging, InService, RestoreSteps, SwitchSteps
<1> QED BY <1>1, <1>3, <1>4, <1>5 DEF Inv, Typed, Tabled

(* The steps that touch no stored data: the look at the key, stopping,     *)
(* starting and waiting for SENTIENT, and the key file.                    *)
LEMMA Planned ==
  ASSUME Inv, PlanSwitch, UNCHANGED kind
  PROVE  Inv'
<1>1. /\ at \in SwitchSteps /\ faults' \in 0..MaxFaults /\ undoFailed' \in BOOLEAN
      /\ UNCHANGED <<kind, pg, ch, keyfile, wanted, server, minute, last, crashes, jobs, nextWrite>>
      /\ UNCHANGED <<complete, served, stored, opened, raced>>
  BY Injected DEF PlanSwitch, Inv, Typed, SwitchSteps
<1>2. at' = "stop" /\ Carried
  <2>1. pg[name] # None => pg[name] \in Database
    BY <1>1, Switching
  <2>2. Typed /\ {"missing", "unchecked"} \subseteq Said
    BY DEF Inv, Said
  <2>4. CASE Goto("stop")
    BY <2>2, <2>4, Going
  <2>5. ASSUME NEW it \in {"missing", "unchecked"}, GotoWith("stop", [job EXCEPT !.said = it])
        PROVE  at' = "stop" /\ Carried
    BY <2>2, <2>5, Going
  <2>3. CASE /\ pg[name].open /\ ~NeedsNoKey(pg[name]) /\ Opens(pg[name].note, pg[name].key)
             /\ GotoWith("stop", [job EXCEPT !.said = "installed",
                       !.key = [new |-> Merged(pg[name].note, keyfile), previous |-> keyfile]])
    <3>1. pg[name] # None
      BY DEF PlanSwitch, Inv, Typed, Placed
    <3>2. pg[name].note \in KeyFile
      BY <2>1, <2>3, <3>1 DEF Opens, KeysOf, Database
    <3>3. Merged(pg[name].note, keyfile) \in KeyFile /\ keyfile \in KeyFile
      <4>1. KeysOf(keyfile) \subseteq Keys
        BY <1>1, Switching DEF KeysOf, KeyFile
      <4> QED BY <1>1, <3>2, <4>1, Switching DEF Merged, KeyFile
    <3>4. /\ DOMAIN job = Fields /\ aside \in Name /\ pos \in 1..2
      BY <1>1, Switching DEF Inv, Typed
    <3> QED BY <2>3, <3>3, <3>4, Nothing DEF GotoWith, Carried, Fields, Said
  <2> QED BY <2>3, <2>4, <2>5 DEF PlanSwitch
<1> QED BY <1>1, <1>2, Switching, SwitchMoves DEF SwitchSteps, Exchanging, InService

(* ... and the others.                                                     *)
LEMMA Quietly ==
  ASSUME Inv, UNCHANGED kind,
         \/ StopSentient \/ InstallKey \/ StartSentient \/ Wait \/ StopAgain \/ PutKeyBack \/ Restart
  PROVE  Inv'
<1>1. /\ at \in SwitchSteps /\ faults' \in 0..MaxFaults /\ undoFailed' \in BOOLEAN
      /\ UNCHANGED <<kind, pg, ch, minute, crashes, jobs, nextWrite, complete, served, stored, raced>>
  BY Injected DEF StopSentient, InstallKey, StartSentient, Wait, StopAgain, PutKeyBack, Restart,
                  Inv, Typed, SwitchSteps
<1>2. wanted' \in BOOLEAN /\ server' \in Data \union {None}
  BY <1>1, Switching DEF StopSentient, InstallKey, StartSentient, Wait, StopAgain, PutKeyBack, Restart
<1>3. keyfile' \in KeyFile
  <2>1. key # NoKeyChange => key.new \in KeyFile /\ key.previous \in KeyFile
    BY DEF Inv, Typed, TypeOK, Placed
  <2> QED BY <1>1, <2>1, Switching
          DEF StopSentient, InstallKey, StartSentient, Wait, StopAgain, PutKeyBack, Restart
<1>4. opened' \subseteq Data
  <2>1. ASSUME Wait PROVE opened' \subseteq Data
    <3>1. at \in InService
      BY <2>1 DEF Wait, InService
    <3>2. pg[Live].data \in Data /\ opened \subseteq Data
      BY <1>1, <3>1, Switching DEF Database
    <3> QED BY <2>1, <3>2 DEF Wait
  <2>2. CASE opened' = opened
    BY <1>1, <2>2, Switching
  <2> QED BY <2>1, <2>2 DEF StopSentient, InstallKey, StartSentient, StopAgain, PutKeyBack, Restart
<1>5. \/ \E how \in {"switched", "undone"} : Return(how)
      \/ /\ at' \in SwitchSteps \ {"plan"} /\ last' = last /\ Carried
         /\ at' \in Exchanging => ClickHouse
         /\ at' \in InService => pg'[Live] # None
  <2>1. CASE StopSentient
    <3>1. <<"before_restore", minute>> \in Name
      BY <1>1, Switching, Names
    <3>2. at' \in {"aside", "restart"} /\ Carried /\ last' = last
      BY <2>1, <3>1, Going DEF StopSentient, Inv
    <3> QED BY <3>2 DEF SwitchSteps, Exchanging, InService
  <2>2. CASE InstallKey
    <3>1. at' = "start" /\ Carried /\ last' = last
      BY <2>2, Going DEF InstallKey, Inv, Said
    <3>2. at \in InService
      BY <2>2 DEF InstallKey, InService
    <3> QED BY <1>1, <3>1, <3>2, Switching, Nothing DEF SwitchSteps, Exchanging
  <2>3. CASE StartSentient
    <3>1. at' = "wait" /\ Carried /\ last' = last
      BY <2>3, Going DEF StartSentient, Inv
    <3>2. at \in InService
      BY <2>3 DEF StartSentient, InService
    <3> QED BY <1>1, <3>1, <3>2, Switching, Nothing DEF SwitchSteps, Exchanging
  <2>4. CASE Wait
    <3>1. Return("switched") \/ (at' = "u_stop" /\ Carried /\ last' = last)
      BY <2>4, Going DEF Wait, Inv
    <3> QED BY <3>1 DEF SwitchSteps, Exchanging, InService
  <2>5. CASE StopAgain
    <3>1. at' = "u_key" /\ Carried /\ last' = last
      BY <2>5, Going DEF StopAgain, Inv
    <3> QED BY <3>1 DEF SwitchSteps, Exchanging, InService
  <2>6. CASE PutKeyBack
    <3>1. at' = (IF ClickHouse THEN "u_exchange" ELSE "u_name") /\ Carried /\ last' = last
      BY <2>6, Going DEF PutKeyBack, Inv
    <3> QED BY <3>1 DEF SwitchSteps, Exchanging, InService
  <2>7. CASE Restart
    BY <2>7 DEF Restart
  <2> QED BY <2>1, <2>2, <2>3, <2>4, <2>5, <2>6, <2>7
<1> QED BY <1>1, <1>2, <1>3, <1>4, <1>5, Switching, SwitchMoves

(* A database renamed, back or forth.                                      *)
LEMMA RenameKeeps ==
  ASSUME Inv, UNCHANGED kind, NEW step \in SwitchSteps, NEW from \in Name, NEW to \in Name,
         NEW then \in SwitchSteps \ {"plan"}, NEW otherwise \in SwitchSteps \ {"plan"},
         then \in Exchanging => ClickHouse, otherwise \notin Exchanging,
         then \in InService => to = Live, otherwise \notin InService,
         RenameStep(step, from, to, then, otherwise)
  PROVE  Inv'
<1>1. /\ at \in SwitchSteps /\ Rename(from, to, then, otherwise)
      /\ UNCHANGED <<kind, ch, keyfile, wanted, server, minute, last, crashes, jobs, nextWrite>>
      /\ UNCHANGED <<complete, served, stored, opened, raced>>
  BY DEF RenameStep
<1>2. faults' \in 0..MaxFaults /\ undoFailed' \in BOOLEAN
  <2>1. \A undoing \in BOOLEAN : FailsWhile(undoing) => faults' \in 0..MaxFaults /\ undoFailed' \in BOOLEAN
    BY Injected DEF Inv
  <2>2. (at \in UndoSteps \/ Exists(to)) \in BOOLEAN
    OBVIOUS
  <2> QED BY <1>1, <2>1, <2>2, Injected DEF Rename, Inv
<1>3. \/ /\ pg' = pg
         /\ at' = otherwise /\ Carried
      \/ \E done, letIn \in BOOLEAN :
           /\ pg[from] # None /\ (done => pg[to] = None)
           /\ pg' = Renamed(from, to, done, letIn)
           /\ at' = (IF done THEN then ELSE otherwise) /\ Carried
  <2>1. Typed
    BY DEF Inv
  <2> DEFINE can == ~Exists(to)
  <2>2. can \in BOOLEAN /\ FALSE \in BOOLEAN /\ TRUE \in BOOLEAN /\ (can => pg[to] = None)
    OBVIOUS
  <2>3. CASE pg' = pg /\ Goto(otherwise)
    BY <2>1, <2>3, Going
  <2>4. ASSUME NEW letIn \in BOOLEAN, Exists(from), pg' = Renamed(from, to, can, letIn),
               Goto(IF can THEN then ELSE otherwise)
        PROVE  \E done, other \in BOOLEAN :
                 /\ pg[from] # None /\ (done => pg[to] = None)
                 /\ pg' = Renamed(from, to, done, other)
                 /\ at' = (IF done THEN then ELSE otherwise) /\ Carried
    BY <2>1, <2>2, <2>4, Going
  <2>5. CASE Exists(from) /\ pg' = Renamed(from, to, FALSE, TRUE) /\ Goto(otherwise)
    BY <2>1, <2>2, <2>5, Going
  <2> QED BY <1>1, <2>2, <2>3, <2>4, <2>5 DEF Rename
<1>4. /\ pg' \in [Name -> Database \union {None}] /\ Holds(pg', stored)
      /\ at' \in {then, otherwise} /\ Carried
      /\ at' \in InService => pg'[Live] # None
  <2>1. CASE pg' = pg /\ at' = otherwise /\ Carried
    BY <1>1, <2>1, Switching
  <2>2. ASSUME NEW done \in BOOLEAN, NEW letIn \in BOOLEAN,
               pg[from] # None, done => pg[to] = None,
               pg' = Renamed(from, to, done, letIn),
               at' = (IF done THEN then ELSE otherwise), Carried
        PROVE  /\ pg' \in [Name -> Database \union {None}] /\ Holds(pg', stored)
               /\ at' \in {then, otherwise}
               /\ at' \in InService => pg'[Live] # None
    <3>1. /\ pg' \in [Name -> Database \union {None}] /\ Holds(pg', stored)
          /\ done => pg'[to] # None
      BY <1>1, <2>2, Switching, RenameHolds
    <3> QED BY <2>2, <3>1
  <2> QED BY <1>3, <2>1, <2>2
<1>5. /\ at' \in SwitchSteps \ {"plan"} /\ (at' \in Exchanging => ClickHouse)
  BY <1>4
<1> QED BY <1>1, <1>2, <1>4, <1>5, Switching, SwitchMoves

(* One table exchanged between two databases that have both: the tables     *)
(* hold what they held, in the other.                                      *)
LEMMA ExchangeHolds ==
  ASSUME ch \in [ChName -> [Table -> Data \union {None}] \union {None}],
         name \in ChName, ch[Live] # None, ch[name] # None, HoldsTables(ch, complete), NEW t \in Table
  PROVE  /\ Exchanged(t) \in [ChName -> [Table -> Data \union {None}] \union {None}]
         /\ Exchanged(t)[Live] # None /\ Exchanged(t)[name] # None
         /\ HoldsTables(Exchanged(t), complete)
<1> SUFFICES ASSUME NEW after, after = Exchanged(t)
             PROVE  /\ after \in [ChName -> [Table -> Data \union {None}] \union {None}]
                    /\ after[Live] # None /\ after[name] # None
                    /\ HoldsTables(after, complete)
  OBVIOUS
<1>1. Live \in ChName /\ ch[Live] \in [Table -> Data \union {None}] /\ ch[name] \in [Table -> Data \union {None}]
  BY Names
<1> DEFINE live == [ch[Live] EXCEPT ![t] = ch[name][t]]
           restored == [ch[name] EXCEPT ![t] = ch[Live][t]]
<1>2. /\ live \in [Table -> Data \union {None}] /\ restored \in [Table -> Data \union {None}]
      /\ live[t] = ch[name][t] /\ restored[t] = ch[Live][t]
      /\ \A u \in Table \ {t} : live[u] = ch[Live][u] /\ restored[u] = ch[name][u]
  BY <1>1
<1>3. CASE name # Live
  <2>1. /\ after \in [ChName -> [Table -> Data \union {None}] \union {None}]
        /\ after[Live] = live /\ after[name] = restored
        /\ \A c \in ChName \ {Live, name} : after[c] = ch[c]
    BY <1>1, <1>2, <1>3 DEF Exchanged
  <2> HIDE DEF live, restored
  <2>2. live # None /\ restored # None
    BY <1>2, Nothing
  <2>3. ASSUME NEW d \in complete, NEW u \in Table
        PROVE  \E c \in ChName : after[c] # None /\ after[c][u] = d
    <3>1. PICK c \in ChName : ch[c] # None /\ ch[c][u] = d
      BY DEF HoldsTables
    <3>2. CASE u = t /\ c = Live
      BY <1>2, <2>1, <2>2, <3>1, <3>2
    <3>3. CASE u = t /\ c = name
      BY <1>1, <1>2, <2>1, <2>2, <3>1, <3>3
    <3>4. CASE u # t \/ c \notin {Live, name}
      BY <1>1, <1>2, <2>1, <2>2, <3>1, <3>4
    <3> QED BY <3>2, <3>3, <3>4
  <2> QED BY <2>1, <2>2, <2>3 DEF HoldsTables
<1>4. CASE name = Live
  <2>1. after = ch
    BY <1>1, <1>4 DEF Exchanged
  <2> QED BY <2>1
<1> QED BY <1>3, <1>4

(* EXCHANGE TABLES, one after the other.                                   *)
LEMMA ExchangeKeeps ==
  ASSUME Inv, UNCHANGED kind, NEW step \in {"exchange", "again", "u_exchange"},
         NEW then \in SwitchSteps \ {"plan"}, NEW otherwise \in SwitchSteps \ ({"plan"} \union InService),
         then \notin Exchanging, otherwise = "again" \/ otherwise \notin Exchanging,
         then \in InService => step = "exchange",
         Exchange(step, then, otherwise)
  PROVE  Inv'
<1>1. /\ at = step /\ at \in SwitchSteps /\ at \in Exchanging
      /\ UNCHANGED <<kind, pg, keyfile, wanted, server, minute, last, crashes, jobs, nextWrite>>
      /\ UNCHANGED <<complete, served, stored, opened, raced>>
      /\ faults' \in 0..MaxFaults /\ undoFailed' \in BOOLEAN
  BY Injected DEF Exchange, Inv, Typed, SwitchSteps, Exchanging
<1>2. ClickHouse /\ pos \in 1..2 /\ Tables[pos] \in Table
  BY <1>1, Switching, TheTables
<1>3. /\ at' \in {step, then, otherwise} /\ Carried
      /\ ch' = Exchanged(Tables[pos]) \/ ch' = ch
  <2>1. Typed /\ 1 \in 1..2 /\ (pos # Len(Tables) => pos + 1 \in 1..2)
    BY <1>2, TheTables DEF Inv
  <2>2. CASE /\ ch' = Exchanged(Tables[pos])
             /\ IF pos = Len(Tables) THEN GotoWith(then, [job EXCEPT !.pos = 1])
                ELSE GotoWith(at, [job EXCEPT !.pos = @ + 1])
    <3>1. CASE pos = Len(Tables)
      BY <2>1, <2>2, <3>1, Going
    <3>2. CASE pos # Len(Tables)
      BY <1>1, <2>1, <2>2, <3>2, Going
    <3> QED BY <3>1, <3>2
  <2>3. CASE GotoWith(otherwise, [job EXCEPT !.pos = 1]) /\ UNCHANGED ch
    BY <2>1, <2>3, Going
  <2> QED BY <2>2, <2>3 DEF Exchange
<1>4. /\ ch' \in [ChName -> [Table -> Data \union {None}] \union {None}]
      /\ ch'[Live] # None /\ ch'[name] # None /\ HoldsTables(ch', complete)
  BY <1>1, <1>2, <1>3, Switching, ExchangeHolds
<1>5. at' \in SwitchSteps \ {"plan"} /\ (at' \in InService => pg'[Live] # None)
  <2>1. at' \in InService => step = "exchange"
    BY <1>3 DEF InService
  <2>2. step = "exchange" => pg'[Live] # None
    BY <1>1, Switching, Nothing DEF InService
  <2>3. step \in SwitchSteps \ {"plan"}
    BY DEF SwitchSteps
  <2> QED BY <1>3, <2>1, <2>2, <2>3
<1> QED BY <1>1, <1>2, <1>3, <1>4, <1>5, Switching, SwitchMoves

(* Every step of a switch.                                                 *)
LEMMA SwitchKeeps ==
  ASSUME Inv, SwitchStep, UNCHANGED kind
  PROVE  Inv'
<1>1. name \in Name /\ aside \in Name /\ Live \in Name
  BY Names DEF Inv, Typed, TypeOK
<1>2. ASSUME SetLiveAside \/ PutRestored \/ PutLiveBack PROVE Inv'
  <2>1. CASE SetLiveAside
    BY <1>1, <2>1, RenameKeeps DEF SetLiveAside, SwitchSteps, Exchanging, InService
  <2>2. CASE PutRestored
    BY <1>1, <2>2, RenameKeeps DEF PutRestored, AfterRename, SwitchSteps, Exchanging, InService
  <2>3. CASE PutLiveBack
    BY <1>1, <2>3, RenameKeeps DEF PutLiveBack, SwitchSteps, Exchanging, InService
  <2> QED BY <1>2, <2>1, <2>2, <2>3
<1>3. ASSUME \/ UndoName("p_name", "p_aside") \/ UndoAside("p_aside")
             \/ UndoName("u_name", "u_aside") \/ UndoAside("u_aside")
      PROVE  Inv'
  <2>1. CASE UndoName("p_name", "p_aside") \/ UndoName("u_name", "u_aside")
    BY <1>1, <2>1, RenameKeeps DEF UndoName, SwitchSteps, Exchanging, InService
  <2>2. CASE UndoAside("p_aside") \/ UndoAside("u_aside")
    BY <1>1, <2>2, RenameKeeps DEF UndoAside, SwitchSteps, Exchanging, InService
  <2> QED BY <1>3, <2>1, <2>2
<1>4. ASSUME ExchangeTables \/ ExchangeAgain \/ ExchangeBack PROVE Inv'
  <2>1. CASE ExchangeTables
    BY <2>1, ExchangeKeeps DEF ExchangeTables, SwitchSteps, Exchanging, InService
  <2>2. CASE ExchangeAgain
    BY <2>2, ExchangeKeeps DEF ExchangeAgain, SwitchSteps, Exchanging, InService
  <2>3. CASE ExchangeBack
    BY <2>3, ExchangeKeeps DEF ExchangeBack, SwitchSteps, Exchanging, InService
  <2> QED BY <1>4, <2>1, <2>2, <2>3
<1> QED BY <1>2, <1>3, <1>4, Planned, Quietly DEF SwitchStep

----------------------------------------------------------------------------
(* What SENTIENT and the operator do around a job: they change the live    *)
(* database and add to it.                                                 *)
LEMMA LiveMoves ==
  ASSUME Inv, UNCHANGED <<kind, ch, at, job, last, jobs, complete, wanted, crashes, faults, undoFailed, minute>>,
         NEW db \in Database, pg[Live] \in Database,
         db.data = pg[Live].data, pg[Live].writes \subseteq db.writes,
         pg' = [n \in Name |-> IF n = Live THEN db ELSE pg[n]],
         stored' = stored \/ \E w \in db.writes : stored' = stored \union {<<db.data, w>>},
         keyfile' \in KeyFile, server' \in Data \union {None}, nextWrite' \in 0..MaxWrites,
         served' \subseteq Data, opened' \subseteq Data, raced' \in BOOLEAN
  PROVE  Inv'
<1>1. Live \in Name /\ pg \in [Name -> Database \union {None}] /\ Holds(pg, stored)
  BY Names DEF Inv, Typed, TypeOK
<1>2. pg' = [pg EXCEPT ![Live] = db]
  BY <1>1
<1>3. pg' \in [Name -> Database \union {None}] /\ Holds(pg', stored)
  BY <1>1, <1>2, Nothing, ChangeHolds
<1>4. pg'[Live] = db /\ db # None /\ \A n \in Name \ {Live} : pg'[n] = pg[n]
  BY <1>1, Nothing
<1>5. Holds(pg', stored')
  BY <1>1, <1>3, <1>4 DEF Holds
<1>6. TypeOK'
  BY <1>3 DEF Inv, Typed, TypeOK
<1>7. Placed(at, name, pg, ch)'
  BY <1>4, Names DEF Inv, Typed, TypeOK, Placed
<1> QED BY <1>5, <1>6, <1>7 DEF Inv, Typed, Tabled

(* Boot, writes and rotations.                                             *)
LEMMA LiveKeeps ==
  ASSUME Inv, UNCHANGED kind, Boot \/ Write \/ \E k \in Keys : Rotate(k)
  PROVE  Inv'
<1>1. /\ Live \in Name /\ pg \in [Name -> Database \union {None}] /\ pg[Live] \in Database
      /\ keyfile \in KeyFile /\ server \in Data \union {None} /\ nextWrite \in 0..MaxWrites
      /\ served \subseteq Data /\ opened \subseteq Data /\ raced \in BOOLEAN
  BY Names DEF Boot, Write, Rotate, Fits, Inv, Typed, TypeOK
<1>2. UNCHANGED <<kind, ch, at, job, last, jobs, complete, wanted, crashes, faults, undoFailed, minute>>
  BY DEF Boot, Write, Rotate
<1>3. pg[Live].data \in Data
  BY <1>1 DEF Database
<1>4. CASE Boot
  <2> DEFINE k == IF pg[Live].key = None THEN keyfile.now ELSE pg[Live].key
             db == [pg[Live] EXCEPT !.schema = "same", !.key = k]
  <2>1. k \in Keys \union {None} /\ "same" \in Schemas
    BY <1>1 DEF Database, KeyFile, Schemas
  <2>2. /\ db \in Database /\ db.data = pg[Live].data /\ pg[Live].writes \subseteq db.writes
    BY <1>1, <2>1 DEF Database
  <2>3. pg' = [n \in Name |-> IF n = Live THEN db ELSE pg[n]]
    BY <1>1, <1>4 DEF Boot, Database
  <2>4. /\ stored' = stored /\ keyfile' = keyfile /\ server' = pg[Live].data
        /\ nextWrite' = nextWrite /\ served' = served \union {pg[Live].data}
        /\ opened' = opened /\ raced' = raced
    BY <1>4 DEF Boot
  <2> HIDE DEF db
  <2> QED BY <1>1, <1>2, <1>3, <2>2, <2>3, <2>4, LiveMoves
<1>5. CASE Write
  <2> DEFINE db == [pg[Live] EXCEPT !.writes = @ \union {nextWrite}]
  <2>1. /\ db \in Database /\ db.data = pg[Live].data /\ pg[Live].writes \subseteq db.writes
        /\ nextWrite \in db.writes
    BY <1>1 DEF Database
  <2>2. pg' = [n \in Name |-> IF n = Live THEN db ELSE pg[n]]
    BY <1>1, <1>5 DEF Write
  <2>3. /\ stored' = stored \union {<<db.data, nextWrite>>} /\ nextWrite' = nextWrite + 1 /\ nextWrite < MaxWrites
        /\ UNCHANGED <<keyfile, server, served, opened, raced>>
    BY <1>5, <2>1 DEF Write
  <2>4. nextWrite' \in 0..MaxWrites
    BY <1>1, <2>3, RestoreAssumption
  <2> HIDE DEF db
  <2> QED BY <1>1, <1>2, <2>1, <2>2, <2>3, <2>4, LiveMoves
<1>6. ASSUME NEW k \in Keys, Rotate(k) PROVE Inv'
  <2> DEFINE db == [pg[Live] EXCEPT !.key = k]
  <2>1. /\ db \in Database /\ db.data = pg[Live].data /\ pg[Live].writes \subseteq db.writes
    BY <1>1 DEF Database
  <2>2. pg' = [n \in Name |-> IF n = Live THEN db ELSE pg[n]]
    BY <1>1, <1>6 DEF Rotate
  <2>3. /\ stored' = stored /\ keyfile' = [now |-> k, before |-> {}] /\ opened' = {pg[Live].data}
        /\ UNCHANGED <<server, nextWrite, served>>
        /\ raced' = (raced \/ at \in SwitchSteps)
    BY <1>6 DEF Rotate
  <2>4. keyfile' \in KeyFile /\ opened' \subseteq Data /\ raced' \in BOOLEAN
    BY <1>1, <1>3, <2>3 DEF KeyFile
  <2> HIDE DEF db
  <2> QED BY <1>1, <1>2, <2>1, <2>2, <2>3, <2>4, LiveMoves
<1> QED BY <1>4, <1>5, <1>6

(* A kill: the database being renamed may stay shut.                       *)
LEMMA CrashKeeps ==
  ASSUME Inv, UNCHANGED kind, Crash
  PROVE  Inv'
<1>1. /\ at # "idle" /\ crashes < MaxCrashes /\ crashes' = crashes + 1 /\ Return("killed")
      /\ UNCHANGED <<kind, ch, keyfile, minute, faults, undoFailed, jobs, nextWrite>>
      /\ UNCHANGED <<complete, served, stored, opened, raced>>
      /\ wanted' \in {wanted, TRUE} /\ server' \in {server, None}
  BY DEF Crash
<1>2. pg \in [Name -> Database \union {None}] /\ Holds(pg, stored)
  BY DEF Inv, Typed, TypeOK
<1>3. pg' \in [Name -> Database \union {None}] /\ Holds(pg', stored)
  <2>1. CASE pg' = pg
    BY <1>2, <2>1
  <2>2. ASSUME NEW n \in Name, Exists(n), pg' = Shut(n)
        PROVE  pg' \in [Name -> Database \union {None}] /\ Holds(pg', stored)
    <3> DEFINE db == [pg[n] EXCEPT !.open = FALSE]
    <3>1. db \in Database /\ db.data = pg[n].data /\ pg[n].writes \subseteq db.writes
      BY <1>2, <2>2 DEF Database
    <3>2. pg' = [pg EXCEPT ![n] = db]
      BY <2>2 DEF Shut
    <3> HIDE DEF db
    <3> QED BY <1>2, <2>2, <3>1, <3>2, ChangeHolds, ZenonT(60)
  <2> QED BY <2>1, <2>2 DEF Crash
<1>4. DOMAIN job' = Fields /\ Placed(at, name, pg, ch)'
  BY <1>1, Ended
<1>5. at' \in Steps \union {"idle"} /\ last' = "killed"
  BY <1>1, Ended
<1>6. /\ name' \in Name /\ aside' \in Name /\ backup' \in Backups \union {None}
      /\ key' \in [new : KeyFile \union {None}, previous : KeyFile \union {None}]
      /\ said' \in {"nothing", "installed", "notinstalled", "missing", "unchecked"}
      /\ pos' \in 1..Len(Tables) /\ refused' \subseteq MayRefuse
  BY <1>1, Ended, TheTables DEF NoKeyChange
<1>7. crashes' \in 0..MaxCrashes
  BY <1>1, RestoreAssumption DEF Inv, Typed, TypeOK
<1>8. TypeOK'
  BY <1>1, <1>3, <1>5, <1>6, <1>7 DEF Inv, Typed, TypeOK
<1> QED BY <1>1, <1>3, <1>4, <1>8 DEF Inv, Typed, Tabled

----------------------------------------------------------------------------
(* Every step keeps it.                                                    *)
LEMMA Kept ==
  ASSUME Inv, [Next]_vars
  PROVE  Inv'
<1>1. CASE UNCHANGED vars
  BY <1>1 DEF vars, Inv, Typed, TypeOK, Placed, Tabled, Holds, HoldsTables
<1>2. CASE Next
  <2>1. UNCHANGED kind
    BY <1>2 DEF Next
  <2>2. CASE Job
    BY <2>1, <2>2, RestoreBegins, SwitchBegins DEF Job
  <2>3. CASE RestoreStep
    BY <2>1, <2>3, RestoreKeeps
  <2>4. CASE SwitchStep
    BY <2>1, <2>4, SwitchKeeps
  <2>5. CASE Tick
    <3>1. /\ minute' = minute + 1 /\ minute < MaxMinute
          /\ UNCHANGED <<pg, ch, keyfile, wanted, server, at, job, last, faults, undoFailed, crashes, jobs, nextWrite>>
          /\ UNCHANGED <<complete, served, stored, opened, raced>>
      BY <2>5 DEF Tick
    <3>2. minute' \in 0..MaxMinute
      BY <3>1, RestoreAssumption DEF Inv, Typed, TypeOK
    <3> QED BY <2>1, <3>1, <3>2 DEF Inv, Typed, TypeOK, Placed, Tabled
  <2>6. CASE Boot \/ Write \/ \E k \in Keys : Rotate(k)
    BY <2>1, <2>6, LiveKeeps
  <2>7. CASE Crash
    BY <2>1, <2>7, CrashKeeps
  <2> QED BY <1>2, <2>2, <2>3, <2>4, <2>5, <2>6, <2>7 DEF Next, Environment
<1> QED BY <1>1, <1>2

(* What the proof rests on holds throughout: the types, and what a job may *)
(* have before it at each of its steps.                                    *)
LEMMA InvAlways == Spec => []Inv
<1>1. Init => Inv
  <2> SUFFICES ASSUME Init PROVE Inv
    OBVIOUS
  <2> DEFINE db == [data |-> 0, schema |-> "same", key |-> FirstKey, note |-> None,
                    writes |-> {}, open |-> TRUE]
             empty == [t \in Table |-> 0]
  <2>1. 0 \in Data /\ FirstKey \in Keys /\ MaxJobs \in Nat /\ MaxMinute \in Nat
        /\ MaxFaults \in Nat /\ MaxCrashes \in Nat /\ MaxWrites \in Nat
    BY RestoreAssumption DEF Data
  <2>2. db \in Database /\ db # None
    <3>1. db \in Database
      BY <2>1 DEF Database, Schemas
    <3> QED BY <3>1, Nothing
  <2>3. empty \in [Table -> Data \union {None}] /\ empty # None
    BY <2>1, Nothing
  <2>4. pg = [n \in Name |-> IF n = Live THEN db ELSE None]
    BY DEF Init
  <2>5. ch = [n \in ChName |-> IF n = Live /\ ClickHouse THEN empty ELSE None]
    BY DEF Init
  <2>6. /\ DOMAIN job = Fields /\ at = "idle" /\ name = Live /\ aside = Live /\ backup = None
        /\ key = NoKeyChange /\ said = "nothing" /\ pos = 1 /\ refused = {}
    BY DEF Init, NoJob, Fields
  <2>7. keyfile \in KeyFile
    BY <2>1 DEF Init, KeyFile
  <2>8. pg \in [Name -> Database \union {None}]
    BY <2>2, <2>4
  <2>9. ch \in [ChName -> [Table -> Data \union {None}] \union {None}]
    BY <2>3, <2>5
  <2>10. TypeOK
    <3>1. /\ at \in Steps \union {"idle"} /\ name \in Name /\ aside \in Name
          /\ backup \in Backups \union {None}
          /\ key \in [new : KeyFile \union {None}, previous : KeyFile \union {None}]
          /\ said \in {"nothing", "installed", "notinstalled", "missing", "unchecked"}
          /\ pos \in 1..Len(Tables) /\ refused \subseteq MayRefuse
      BY <2>6, Names, TheTables DEF NoKeyChange
    <3>2. /\ faults \in 0..MaxFaults /\ crashes \in 0..MaxCrashes /\ jobs \in 0..MaxJobs
          /\ nextWrite \in 0..MaxWrites /\ minute \in 0..MaxMinute
      BY <2>1 DEF Init
    <3>3. /\ kind \in Installations /\ wanted \in BOOLEAN /\ server \in Data \union {None}
          /\ undoFailed \in BOOLEAN /\ raced \in BOOLEAN
          /\ last \in {"none", "restored", "notrestored", "switched", "undone", "killed"}
          /\ complete \subseteq Data /\ served \subseteq Data /\ opened \subseteq Data
      BY <2>1 DEF Init
    <3> QED BY <2>7, <2>8, <2>9, <3>1, <3>2, <3>3 DEF TypeOK
  <2>11. Placed(at, name, pg, ch)
    BY <2>6 DEF Placed, RestoreSteps, SwitchSteps, Exchanging, InService
  <2>12. Tabled
    BY <2>3, <2>5, Names DEF Init, Tabled, HoldsTables
  <2>13. Holds(pg, stored)
    BY DEF Init, Holds
  <2> QED BY <2>6, <2>10, <2>11, <2>12, <2>13 DEF Inv, Typed
<1>2. Inv /\ [Next]_vars => Inv'
  BY Kept
<1> QED BY <1>1, <1>2, PTL DEF Spec

(* Every variable of Restore keeps its type.                               *)
THEOREM TypeCorrect == Spec => []TypeOK
<1>1. Inv => TypeOK
  BY DEF Inv, Typed
<1> QED BY <1>1, InvAlways, PTL

(* "Nothing is deleted" (restore_switch.rs): whatever is restored and put  *)
(* into service, fails or is killed, in whatever order, every write that   *)
(* SENTIENT stored is in a database that is there, and both ClickHouse     *)
(* tables of all data restored completely are in a database.               *)
THEOREM DataSafe == Spec => []DataKept
<1>1. Inv => DataKept
  BY DEF Inv, Tabled, Holds, HoldsTables, DataKept
<1> QED BY <1>1, InvAlways, PTL

----------------------------------------------------------------------------
USE DEF name, backup, key, said, aside, pos, refused, was, ClickHouse, Docker, Exists
USE DEF stores, sentient, bounds, history, trouble

(* The exchange of a table fails only by ClickHouse's refusing that table:  *)
(* one that is only lost once is exchanged by the way back.                *)
NoTransient == "exchange" \notin MayFail

(* What PostgreSQL holds under each name, and which names let SENTIENT in.  *)
Holding(dbs) == [n \in Name |-> IF dbs[n] # None THEN dbs[n].data ELSE None]
LetIn(dbs) == {n \in Name : dbs[n] # None /\ dbs[n].open}

(* Where the databases are at each step of a switch, compared to how they   *)
(* stood when it began: as then; with the live one set aside; or with the   *)
(* restored one in its place.                                               *)
Begun == {"plan", "stop", "aside", "restart"}
Set == {"put", "put_back", "p_aside", "u_aside"}
Replaced == {"exchange", "again", "p_name", "install", "start", "wait", "u_stop", "u_key",
  "u_exchange", "u_name"}
Arranged(step, h, open) ==
  /\ name # Live /\ was.data[name] # None
  /\ step \in Begun => h = was.data /\ was.letIn \subseteq open
  /\ step \in Set \union Replaced => was.data[Live] # None /\ was.data[aside] = None
  /\ step \in Set =>
       /\ h = [was.data EXCEPT ![Live] = None, ![aside] = was.data[Live]]
       /\ was.letIn \ {Live} \subseteq open
  /\ step \in Replaced =>
       /\ h = [was.data EXCEPT ![Live] = was.data[name], ![name] = None, ![aside] = was.data[Live]]
       /\ was.letIn \ {Live, name} \subseteq open

(* The tables that are exchanged at each step, and what refusals say of the *)
(* step: a table refused once is refused again.                             *)
AllExchanged == {"install", "start", "wait", "u_stop", "u_key"}
Moved(step) ==
  CASE ~ClickHouse -> {}
    [] step \in AllExchanged -> Table
    [] step = "exchange" /\ pos = 2 -> {"ts_kv"}
    [] step = "again" /\ pos = 1 /\ "ts_kv" \notin refused -> {"ts_kv"}
    [] step = "u_exchange" /\ pos = 1 -> Table
    [] step = "u_exchange" /\ pos = 2 -> {"ts_kv_latest_agg"}
    [] OTHER -> {}
Refusing(step) ==
  /\ step \notin Exchanging => pos = 1
  /\ step = "exchange" /\ pos = 2 => "ts_kv" \notin refused
  /\ step = "again" => refused \cap Table # {} /\ (pos = 2 => "ts_kv_latest_agg" \in refused)
  /\ step \in AllExchanged \union {"u_exchange"} /\ ClickHouse => refused \cap Table = {}
Swapped(chs, moved) ==
  /\ \A c \in ChName \ {Live, name} : chs[c] = was.ch[c]
  /\ ClickHouse => \A t \in Table :
       /\ chs[Live][t] = was.ch[IF t \in moved THEN name ELSE Live][t]
       /\ chs[name][t] = was.ch[IF t \in moved THEN Live ELSE name][t]
  /\ ~ClickHouse => chs = was.ch

(* The key file: unless it was rotated meanwhile it is the one there was,   *)
(* or the one that the switch writes.                                       *)
MaybeWritten == {"start", "wait", "u_stop", "u_key"}
KeyAsPlanned(step, file) ==
  ~raced =>
    /\ key # NoKeyChange => key.previous = was.keyfile
    /\ step \in SwitchSteps \ MaybeWritten => file = was.keyfile
    /\ step \in MaybeWritten => file = was.keyfile \/ (key # NoKeyChange /\ file = key.new)

WasTyped ==
  /\ was.data \in [Name -> Data \union {None}]
  /\ was.letIn \subseteq {n \in Name : was.data[n] # None}
  /\ was.keyfile \in KeyFile
  /\ was.ch \in [ChName -> [Table -> Data \union {None}] \union {None}]
  /\ ClickHouse => name \in ChName /\ was.ch[Live] # None /\ was.ch[name] # None
Undoable ==
  at \in SwitchSteps /\ ~undoFailed =>
    /\ WasTyped /\ Arranged(at, Holding(pg), LetIn(pg))
    /\ Refusing(at) /\ Swapped(ch, Moved(at)) /\ KeyAsPlanned(at, keyfile)

----------------------------------------------------------------------------
(* What the job works with after a step that goes on.                      *)
LEMMA Carrying ==
  ASSUME Typed
  PROVE  /\ \A step : Goto(step) => at' = step /\ job' = job
         /\ \A step, i : GotoWith(step, [job EXCEPT !.pos = i]) =>
              at' = step /\ pos' = i /\ UNCHANGED <<name, backup, key, said, aside, refused, was>>
         /\ \A step, it : GotoWith(step, [job EXCEPT !.said = it]) =>
              at' = step /\ said' = it /\ UNCHANGED <<name, backup, key, pos, aside, refused, was>>
         /\ \A step, n : GotoWith(step, [job EXCEPT !.aside = n]) =>
              at' = step /\ aside' = n /\ UNCHANGED <<name, backup, key, said, pos, refused, was>>
         /\ \A step, it, k : GotoWith(step, [job EXCEPT !.said = it, !.key = k]) =>
              at' = step /\ said' = it /\ key' = k /\ UNCHANGED <<name, backup, pos, aside, refused, was>>
<1>1. DOMAIN job = Fields
  BY DEF Typed
<1> QED BY <1>1 DEF Goto, GotoWith, Fields

(* What the names hold, of databases that are there or not.                *)
LEMMA HoldingTyped ==
  ASSUME NEW dbs \in [Name -> Database \union {None}]
  PROVE  /\ Holding(dbs) \in [Name -> Data \union {None}] /\ LetIn(dbs) \subseteq Name
         /\ \A n \in Name : (dbs[n] # None <=> Holding(dbs)[n] # None)
                            /\ (dbs[n] # None => Holding(dbs)[n] = dbs[n].data)
<1>1. \A n \in Name : dbs[n] # None => dbs[n].data \in Data /\ dbs[n].data # None
  BY Nothing DEF Database
<1> QED BY <1>1 DEF Holding, LetIn

(* A database renamed: what it holds goes with it.                         *)
LEMMA RenamedHolding ==
  ASSUME NEW dbs \in [Name -> Database \union {None}], pg = dbs,
         NEW from \in Name, NEW to \in Name, pg[from] # None,
         NEW done \in BOOLEAN, done => pg[to] = None, NEW letIn \in BOOLEAN,
         NEW after, after = Renamed(from, to, done, letIn)
  PROVE  /\ after \in [Name -> Database \union {None}]
         /\ done => Holding(after) = [Holding(dbs) EXCEPT ![to] = Holding(dbs)[from], ![from] = None]
         /\ ~done => Holding(after) = Holding(dbs)
         /\ LetIn(dbs) \ {from} \subseteq LetIn(after)
         /\ letIn => (IF done THEN to ELSE from) \in LetIn(after)
<1> DEFINE moved == [pg[from] EXCEPT !.open = letIn]
<1>1. moved \in Database /\ moved.data = pg[from].data /\ moved.open = letIn /\ moved # None
  <2>1. moved \in Database /\ moved.data = pg[from].data /\ moved.open = letIn
    BY DEF Database
  <2> QED BY <2>1, Nothing
<1> HIDE DEF moved
<1>2. CASE done
  <2>1. after = [pg EXCEPT ![to] = moved, ![from] = None] /\ from # to
    BY <1>2 DEF Renamed, moved
  <2>2. /\ after \in [Name -> Database \union {None}]
        /\ after[to] = moved /\ after[from] = None
        /\ \A n \in Name \ {from, to} : after[n] = dbs[n]
    BY <1>1, <2>1
  <2>3. \A n \in Name : Holding(after)[n] = [Holding(dbs) EXCEPT ![to] = Holding(dbs)[from], ![from] = None][n]
    BY <1>1, <2>1, <2>2 DEF Holding
  <2>4. Holding(after) = [Holding(dbs) EXCEPT ![to] = Holding(dbs)[from], ![from] = None]
    BY <2>3 DEF Holding
  <2>5. LetIn(dbs) \ {from} \subseteq LetIn(after) /\ (letIn => to \in LetIn(after))
    BY <1>1, <1>2, <2>2 DEF LetIn
  <2> QED BY <1>2, <2>2, <2>4, <2>5
<1>3. CASE ~done
  <2>1. after = [pg EXCEPT ![from] = moved]
    BY <1>3 DEF Renamed, moved
  <2>2. /\ after \in [Name -> Database \union {None}] /\ after[from] = moved
        /\ \A n \in Name \ {from} : after[n] = dbs[n]
    BY <1>1, <2>1
  <2>3. Holding(after) = Holding(dbs)
    BY <1>1, <2>2 DEF Holding
  <2>4. LetIn(dbs) \ {from} \subseteq LetIn(after) /\ (letIn => from \in LetIn(after))
    BY <1>1, <2>2 DEF LetIn
  <2> QED BY <1>3, <2>2, <2>3, <2>4
<1> QED BY <1>2, <1>3

(* The same of a rename as a step of a switch makes it: one that goes wrong *)
(* leaves what there was, and one that undoes only goes wrong when there is *)
(* nothing to rename, or something in the way.                             *)
LEMMA RenamingHolding ==
  ASSUME Inv, NEW step, NEW from \in Name, NEW to \in Name, NEW then, NEW otherwise,
         RenameStep(step, from, to, then, otherwise), ~undoFailed', NEW h, h = Holding(pg)
  PROVE  /\ ~undoFailed /\ job' = job
         /\ \/ /\ at' = then /\ h[from] # None /\ h[to] = None
               /\ Holding(pg') = [h EXCEPT ![to] = h[from], ![from] = None]
               /\ LetIn(pg) \ {from} \subseteq LetIn(pg')
               /\ step \in UndoSteps => to \in LetIn(pg')
            \/ /\ at' = otherwise /\ Holding(pg') = h /\ LetIn(pg) \subseteq LetIn(pg')
               /\ step \in UndoSteps => h[from] = None \/ h[to] # None
<1>1. at = step /\ Rename(from, to, then, otherwise)
  BY DEF RenameStep
<1>2. pg \in [Name -> Database \union {None}] /\ Typed
  BY DEF Inv, Typed, TypeOK
<1>3. \A n \in Name : pg[n] # None <=> h[n] # None
  BY <1>2, HoldingTyped
<1>4. \A undoing \in BOOLEAN : FailsWhile(undoing) => ~undoFailed /\ ~undoing
  BY <1>2 DEF FailsWhile, Typed, TypeOK
<1>5. Works => ~undoFailed
  BY DEF Works
<1>6. Fails => ~undoFailed /\ step \notin UndoSteps
  BY <1>1, <1>2 DEF Fails, FailsWhile, Typed, TypeOK
<1>7. \A where : Goto(where) => at' = where /\ job' = job
  BY DEF Goto
<1>8. LetIn(pg) \subseteq Name
  BY <1>2, HoldingTyped
<1>9. ASSUME NEW done \in BOOLEAN, NEW letIn \in BOOLEAN, pg[from] # None, done => pg[to] = None,
             pg' = Renamed(from, to, done, letIn)
      PROVE  /\ done => Holding(pg') = [h EXCEPT ![to] = h[from], ![from] = None]
             /\ ~done => Holding(pg') = h
             /\ LetIn(pg) \ {from} \subseteq LetIn(pg')
             /\ letIn => (IF done THEN to ELSE from) \in LetIn(pg')
  BY <1>2, <1>9, RenamedHolding
<1>10. CASE /\ Exists(from) /\ pg' = Renamed(from, to, ~Exists(to), TRUE) /\ Works
            /\ Goto(IF ~Exists(to) THEN then ELSE otherwise)
  BY <1>3, <1>5, <1>7, <1>9, <1>10
<1>11. CASE /\ Exists(from) /\ pg' = Renamed(from, to, ~Exists(to), FALSE)
            /\ FailsWhile(at \in UndoSteps \/ ~(~Exists(to))) /\ Goto(IF ~Exists(to) THEN then ELSE otherwise)
  <2>1. ~undoFailed /\ step \notin UndoSteps /\ ~Exists(to)
    BY <1>1, <1>4, <1>11
  <2> QED BY <1>3, <1>7, <1>9, <1>11, <2>1
<1>12. CASE Exists(from) /\ pg' = Renamed(from, to, FALSE, TRUE) /\ Fails /\ Goto(otherwise)
  BY <1>6, <1>7, <1>9, <1>12
<1>13. CASE UNCHANGED pg /\ (Fails \/ (~Exists(from) /\ Works)) /\ Goto(otherwise)
  BY <1>3, <1>5, <1>6, <1>7, <1>13
<1> QED BY <1>1, <1>10, <1>11, <1>12, <1>13 DEF Rename

----------------------------------------------------------------------------
(* What can be undone, step by step: first as the databases are renamed.   *)
LEMMA LiveNames ==
  ASSUME Inv, at \in SwitchSteps
  PROVE  /\ Live \in Name /\ name \in Name /\ aside \in Name
         /\ Live \in ChName /\ pg \in [Name -> Database \union {None}]
         /\ Holding(pg) \in [Name -> Data \union {None}] /\ LetIn(pg) \subseteq Name
         /\ \A n \in Name : pg[n] # None <=> Holding(pg)[n] # None
BY Names, HoldingTyped DEF Inv, Typed, TypeOK

(* What a rename makes of one arrangement is another: l is what is live, n  *)
(* the restored database's name, a the name data are kept under.           *)
LEMMA Arrangements ==
  ASSUME NEW S, NEW V, NEW d \in [S -> V], NEW l \in S, NEW n \in S, NEW a \in S,
         None \in V, n # l, a # l, a # n, d[a] = None
  PROVE  LET set == [d EXCEPT ![l] = None, ![a] = d[l]]
             replaced == [d EXCEPT ![l] = d[n], ![n] = None, ![a] = d[l]]
         IN /\ [d EXCEPT ![a] = d[l], ![l] = None] = set
            /\ set[l] = None /\ set[a] = d[l] /\ set[n] = d[n]
            /\ replaced[l] = d[n] /\ replaced[n] = None
            /\ [set EXCEPT ![l] = set[n], ![n] = None] = replaced
            /\ [replaced EXCEPT ![n] = replaced[l], ![l] = None] = set
            /\ [set EXCEPT ![l] = set[a], ![a] = None] = d
<1> DEFINE set == [d EXCEPT ![l] = None, ![a] = d[l]]
           replaced == [d EXCEPT ![l] = d[n], ![n] = None, ![a] = d[l]]
<1>1. /\ set \in [S -> V] /\ set[l] = None /\ set[a] = d[l]
      /\ \A m \in S \ {l, a} : set[m] = d[m]
  OBVIOUS
<1>2. /\ replaced \in [S -> V] /\ replaced[l] = d[n] /\ replaced[n] = None /\ replaced[a] = d[l]
      /\ \A m \in S \ {l, n, a} : replaced[m] = d[m]
  OBVIOUS
<1>3. [d EXCEPT ![a] = d[l], ![l] = None] = set
  OBVIOUS
<1> HIDE DEF set, replaced
<1>4. [set EXCEPT ![l] = set[n], ![n] = None] = replaced
  BY <1>1, <1>2
<1>5. [replaced EXCEPT ![n] = replaced[l], ![l] = None] = set
  BY <1>1, <1>2
<1>6. [set EXCEPT ![l] = set[a], ![a] = None] = d
  BY <1>1
<1> QED BY <1>1, <1>2, <1>3, <1>4, <1>5, <1>6 DEF set, replaced

(* A step that leaves the tables and the key file alone.                   *)
LEMMA OnlyRenamed ==
  ASSUME Inv, Undoable, ~undoFailed, at \in SwitchSteps, ~undoFailed',
         job' = job, UNCHANGED <<kind, ch, keyfile, raced>>,
         at' \in SwitchSteps,
         at = at' \/ (at' = "exchange" /\ at = "put" /\ ClickHouse) \/ (at' = "install" /\ at = "put" /\ ~ClickHouse)
           \/ {at, at'} \cap (Exchanging \union AllExchanged) = {},
         Arranged(at', Holding(pg'), LetIn(pg'))
  PROVE  Undoable'
<1>1. WasTyped /\ Refusing(at) /\ Swapped(ch, Moved(at)) /\ KeyAsPlanned(at, keyfile)
  BY DEF Undoable
<1>2. WasTyped' /\ Refusing(at)' /\ KeyAsPlanned(at, keyfile)'
  <2>1. WasTyped'
    BY <1>1 DEF WasTyped
  <2>2. Refusing(at)'
    <3>1. pos' = pos /\ refused' = refused /\ ClickHouse' = ClickHouse
      OBVIOUS
    <3>2. CASE at' = at
      BY <1>1, <3>1, <3>2 DEF Refusing
    <3>3. CASE at = "put" /\ (at' = "exchange" \/ (at' = "install" /\ ~ClickHouse))
      BY <1>1, <3>1, <3>3 DEF Refusing, Exchanging, AllExchanged
    <3>4. CASE {at, at'} \cap (Exchanging \union AllExchanged) = {}
      BY <1>1, <3>1, <3>4 DEF Refusing, Exchanging, AllExchanged
    <3> QED BY <3>2, <3>3, <3>4
  <2>3. KeyAsPlanned(at, keyfile)'
    BY <1>1 DEF KeyAsPlanned, MaybeWritten, AllExchanged, Exchanging
  <2> QED BY <2>1, <2>2, <2>3
<1>3. Moved(at)' = Moved(at)
  BY <1>1 DEF Moved, Refusing, Exchanging, AllExchanged
<1>4. Swapped(ch, Moved(at))'
  BY <1>1, <1>3 DEF Swapped
<1>5. Arranged(at, Holding(pg), LetIn(pg))'
  BY DEF Arranged
<1> QED BY <1>2, <1>4, <1>5 DEF Undoable

(* The live database is set aside, under a name that was free.             *)
LEMMA AsideUndoable ==
  ASSUME Inv, Undoable, UNCHANGED kind, SetLiveAside
  PROVE  Undoable'
<1> SUFFICES ASSUME ~undoFailed' PROVE Undoable'
  BY DEF Undoable
<1> DEFINE h == Holding(pg)
<1>0. Live \in Name /\ name \in Name /\ aside \in Name
  BY Names DEF Inv, Typed, TypeOK
<1>1. /\ RenameStep("aside", Live, aside, "put", "restart") /\ at = "aside" /\ at \in SwitchSteps
      /\ UNCHANGED <<kind, ch, keyfile, raced>>
  BY DEF SetLiveAside, RenameStep, SwitchSteps
<1>2. /\ ~undoFailed /\ job' = job
      /\ \/ /\ at' = "put" /\ h[Live] # None /\ h[aside] = None
            /\ Holding(pg') = [h EXCEPT ![aside] = h[Live], ![Live] = None]
            /\ LetIn(pg) \ {Live} \subseteq LetIn(pg')
         \/ at' = "restart" /\ Holding(pg') = h /\ LetIn(pg) \subseteq LetIn(pg')
  BY <1>0, <1>1, RenamingHolding
<1>3. WasTyped /\ Arranged("aside", h, LetIn(pg))
  BY <1>1, <1>2 DEF Undoable
<1> HIDE DEF h
<1>4. h = was.data /\ was.letIn \subseteq LetIn(pg) /\ name # Live /\ was.data[name] # None
  BY <1>3 DEF Arranged, Begun
<1>5. CASE at' = "put" /\ h[Live] # None /\ h[aside] = None
           /\ Holding(pg') = [h EXCEPT ![aside] = h[Live], ![Live] = None]
           /\ LetIn(pg) \ {Live} \subseteq LetIn(pg')
  <2>1. aside # Live
    BY <1>5
  <2>2. [h EXCEPT ![aside] = h[Live], ![Live] = None] = [was.data EXCEPT ![Live] = None, ![aside] = was.data[Live]]
    <3>1. was.data \in [Name -> Data \union {None}] /\ aside # name /\ was.data[aside] = None
      BY <1>3, <1>4, <1>5 DEF WasTyped
    <3> QED BY <1>0, <1>4, <2>1, <3>1, Arrangements
  <2>3. Arranged(at', Holding(pg'), LetIn(pg'))
    BY <1>4, <1>5, <2>2 DEF Arranged, Begun, Set, Replaced
  <2> QED BY <1>1, <1>2, <1>5, <2>3, OnlyRenamed DEF SwitchSteps, Exchanging, AllExchanged
<1>6. CASE at' = "restart" /\ Holding(pg') = h /\ LetIn(pg) \subseteq LetIn(pg')
  <2>1. Arranged(at', Holding(pg'), LetIn(pg'))
    BY <1>4, <1>6 DEF Arranged, Begun, Set, Replaced
  <2> QED BY <1>1, <1>2, <1>6, <2>1, OnlyRenamed DEF SwitchSteps, Exchanging, AllExchanged
<1> QED BY <1>2, <1>5, <1>6

(* The restored one takes its name.                                        *)
LEMMA PutUndoable ==
  ASSUME Inv, Undoable, UNCHANGED kind, PutRestored
  PROVE  Undoable'
<1> SUFFICES ASSUME ~undoFailed', NEW goes, goes = IF ClickHouse THEN "exchange" ELSE "install"
             PROVE  Undoable'
  BY DEF Undoable
<1> DEFINE h == Holding(pg)
<1>0. Live \in Name /\ name \in Name /\ aside \in Name
  BY Names DEF Inv, Typed, TypeOK
<1>1. /\ RenameStep("put", name, Live, goes, "put_back") /\ at = "put" /\ at \in SwitchSteps
      /\ UNCHANGED <<kind, ch, keyfile, raced>>
  BY DEF PutRestored, RenameStep, SwitchSteps, AfterRename
<1>2. /\ ~undoFailed /\ job' = job
      /\ \/ /\ at' = goes /\ h[name] # None /\ h[Live] = None
            /\ Holding(pg') = [h EXCEPT ![Live] = h[name], ![name] = None]
            /\ LetIn(pg) \ {name} \subseteq LetIn(pg')
         \/ at' = "put_back" /\ Holding(pg') = h /\ LetIn(pg) \subseteq LetIn(pg')
  BY <1>0, <1>1, RenamingHolding, SMTT(60)
<1>3. WasTyped /\ Arranged("put", h, LetIn(pg))
  BY <1>1, <1>2 DEF Undoable
<1> HIDE DEF h
<1>4. /\ name # Live /\ was.data[name] # None /\ was.data[Live] # None /\ was.data[aside] = None
      /\ h = [was.data EXCEPT ![Live] = None, ![aside] = was.data[Live]]
      /\ was.letIn \ {Live} \subseteq LetIn(pg)
  BY <1>3 DEF Arranged, Set
<1>5. CASE /\ at' = goes /\ Holding(pg') = [h EXCEPT ![Live] = h[name], ![name] = None]
           /\ LetIn(pg) \ {name} \subseteq LetIn(pg')
  <2>1. aside # Live /\ aside # name
    BY <1>4
  <2>2. [h EXCEPT ![Live] = h[name], ![name] = None]
          = [was.data EXCEPT ![Live] = was.data[name], ![name] = None, ![aside] = was.data[Live]]
    <3>1. was.data \in [Name -> Data \union {None}]
      BY <1>3 DEF WasTyped
    <3> QED BY <1>0, <1>4, <2>1, <3>1, Arrangements
  <2>3. at' \in {"exchange", "install"} /\ was.letIn \ {Live, name} \subseteq LetIn(pg')
    BY <1>4, <1>5
  <2>4. Arranged(at', Holding(pg'), LetIn(pg'))
    BY <1>4, <1>5, <2>2, <2>3 DEF Arranged, Begun, Set, Replaced
  <2>5. at' = IF ClickHouse THEN "exchange" ELSE "install"
    BY <1>5
  <2> QED BY <1>1, <1>2, <2>4, <2>5, OnlyRenamed DEF SwitchSteps
<1>6. CASE at' = "put_back" /\ Holding(pg') = h /\ LetIn(pg) \subseteq LetIn(pg')
  <2>1. Arranged(at', Holding(pg'), LetIn(pg'))
    BY <1>4, <1>6 DEF Arranged, Begun, Set, Replaced
  <2> QED BY <1>1, <1>2, <1>6, <2>1, OnlyRenamed DEF SwitchSteps, Exchanging, AllExchanged
<1> QED BY <1>2, <1>5, <1>6

(* The way back: the restored database gets its own name again ...         *)
LEMMA NameUndoable ==
  ASSUME Inv, Undoable, UNCHANGED kind,
         NEW step \in {"p_name", "u_name"}, NEW then \in {"p_aside", "u_aside"}, UndoName(step, then)
  PROVE  Undoable'
<1> SUFFICES ASSUME ~undoFailed' PROVE Undoable'
  BY DEF Undoable
<1> DEFINE h == Holding(pg)
<1>0. Live \in Name /\ name \in Name /\ aside \in Name
  BY Names DEF Inv, Typed, TypeOK
<1>1. /\ RenameStep(step, Live, name, then, then) /\ at = step /\ at \in SwitchSteps
      /\ step \in UndoSteps /\ UNCHANGED <<kind, ch, keyfile, raced>>
  BY DEF UndoName, RenameStep, SwitchSteps, UndoSteps
<1>2. /\ ~undoFailed /\ job' = job
      /\ \/ /\ at' = then
            /\ Holding(pg') = [h EXCEPT ![name] = h[Live], ![Live] = None]
            /\ LetIn(pg) \ {Live} \subseteq LetIn(pg') /\ name \in LetIn(pg')
         \/ h[Live] = None \/ h[name] # None
  BY <1>0, <1>1, RenamingHolding
<1>3. WasTyped /\ Arranged(step, h, LetIn(pg))
  BY <1>1, <1>2 DEF Undoable
<1> HIDE DEF h
<1>4. /\ name # Live /\ was.data[name] # None /\ was.data[Live] # None /\ was.data[aside] = None
      /\ h = [was.data EXCEPT ![Live] = was.data[name], ![name] = None, ![aside] = was.data[Live]]
      /\ was.letIn \ {Live, name} \subseteq LetIn(pg)
  BY <1>3 DEF Arranged, Replaced
<1>5. aside # Live /\ aside # name
  BY <1>4
<1>6. was.data \in [Name -> Data \union {None}]
  BY <1>3 DEF WasTyped
<1>7. /\ h[Live] # None /\ h[name] = None
      /\ [h EXCEPT ![name] = h[Live], ![Live] = None] = [was.data EXCEPT ![Live] = None, ![aside] = was.data[Live]]
  BY <1>0, <1>4, <1>5, <1>6, Arrangements
<1>8. Arranged(at', Holding(pg'), LetIn(pg'))
  BY <1>2, <1>4, <1>7 DEF Arranged, Begun, Set, Replaced
<1> QED BY <1>1, <1>2, <1>7, <1>8, OnlyRenamed DEF SwitchSteps, Exchanging, AllExchanged

(* ... and the live one its own.                                           *)
LEMMA LiveBackUndoable ==
  ASSUME Inv, Undoable, UNCHANGED kind,
         NEW step \in {"put_back", "p_aside", "u_aside"}, RenameStep(step, aside, Live, "restart", "restart")
  PROVE  Undoable'
<1> SUFFICES ASSUME ~undoFailed' PROVE Undoable'
  BY DEF Undoable
<1> DEFINE h == Holding(pg)
<1>0. Live \in Name /\ name \in Name /\ aside \in Name
  BY Names DEF Inv, Typed, TypeOK
<1>1. /\ at = step /\ at \in SwitchSteps
      /\ step \in UndoSteps /\ UNCHANGED <<kind, ch, keyfile, raced>>
  BY DEF RenameStep, SwitchSteps, UndoSteps
<1>2. /\ ~undoFailed /\ job' = job
      /\ \/ /\ at' = "restart"
            /\ Holding(pg') = [h EXCEPT ![Live] = h[aside], ![aside] = None]
            /\ LetIn(pg) \ {aside} \subseteq LetIn(pg') /\ Live \in LetIn(pg')
         \/ h[aside] = None \/ h[Live] # None
  BY <1>0, <1>1, RenamingHolding
<1>3. WasTyped /\ Arranged(step, h, LetIn(pg))
  BY <1>1, <1>2 DEF Undoable
<1> HIDE DEF h
<1>4. /\ name # Live /\ was.data[name] # None /\ was.data[Live] # None /\ was.data[aside] = None
      /\ h = [was.data EXCEPT ![Live] = None, ![aside] = was.data[Live]]
      /\ was.letIn \ {Live} \subseteq LetIn(pg)
  BY <1>3 DEF Arranged, Set
<1>5. aside # Live /\ aside # name /\ aside \notin was.letIn /\ was.data \in [Name -> Data \union {None}]
  BY <1>3, <1>4 DEF WasTyped
<1>6. h[aside] # None /\ h[Live] = None
  BY <1>0, <1>4, <1>5, Arrangements
<1>7. [h EXCEPT ![Live] = h[aside], ![aside] = None] = was.data
  BY <1>0, <1>4, <1>5, Arrangements
<1>8. was.letIn \subseteq LetIn(pg')
  BY <1>2, <1>4, <1>5, <1>6
<1>9. Arranged(at', Holding(pg'), LetIn(pg'))
  BY <1>2, <1>4, <1>6, <1>7, <1>8 DEF Arranged, Begun, Set, Replaced
<1> QED BY <1>1, <1>2, <1>6, <1>9, OnlyRenamed DEF SwitchSteps, Exchanging, AllExchanged

----------------------------------------------------------------------------
(* The tables, as they are exchanged and exchanged back.                   *)
LEMMA ExchangedSwaps ==
  ASSUME Inv, WasTyped, at \in SwitchSteps, ClickHouse, name # Live, NEW moved, Swapped(ch, moved),
         NEW t \in Table, NEW after, after = Exchanged(t)
  PROVE  /\ t \notin moved => Swapped(after, moved \union {t})
         /\ t \in moved => Swapped(after, moved \ {t})
<1>1. /\ Live \in ChName /\ name \in ChName /\ ch[Live] # None /\ ch[name] # None
      /\ ch \in [ChName -> [Table -> Data \union {None}] \union {None}]
  BY Names, Switching
<1> DEFINE live == [ch[Live] EXCEPT ![t] = ch[name][t]]
           restored == [ch[name] EXCEPT ![t] = ch[Live][t]]
<1>2. /\ live[t] = ch[name][t] /\ restored[t] = ch[Live][t]
      /\ \A u \in Table \ {t} : live[u] = ch[Live][u] /\ restored[u] = ch[name][u]
  BY <1>1
<1>3. /\ after[Live] = live /\ after[name] = restored
      /\ \A c \in ChName \ {Live, name} : after[c] = ch[c]
  BY <1>1, <1>2 DEF Exchanged
<1> HIDE DEF live, restored
<1>4. ASSUME NEW now, \A u \in Table \ {t} : u \in now <=> u \in moved, t \in now <=> t \notin moved
      PROVE  Swapped(after, now)
  <2>1. ASSUME NEW u \in Table
        PROVE  /\ after[Live][u] = was.ch[IF u \in now THEN name ELSE Live][u]
               /\ after[name][u] = was.ch[IF u \in now THEN Live ELSE name][u]
    <3>1. /\ ch[Live][u] = was.ch[IF u \in moved THEN name ELSE Live][u]
          /\ ch[name][u] = was.ch[IF u \in moved THEN Live ELSE name][u]
      BY DEF Swapped
    <3>2. CASE u = t
      BY <1>2, <1>3, <1>4, <3>1, <3>2
    <3>3. CASE u # t
      BY <1>2, <1>3, <1>4, <3>1, <3>3
    <3> QED BY <3>2, <3>3
  <2> QED BY <1>3, <2>1 DEF Swapped
<1>5. t \notin moved => Swapped(after, moved \union {t})
  BY <1>4
<1>6. t \in moved => Swapped(after, moved \ {t})
  BY <1>4
<1> QED BY <1>5, <1>6

(* What a step of an exchange does when nothing fails in the way back:      *)
(* it goes as far as the table that is refused.                            *)
LEMMA ExchangingTables ==
  ASSUME Inv, NoTransient, NEW step \in Exchanging, NEW then, NEW otherwise, Exchange(step, then, otherwise),
         ~undoFailed'
  PROVE  /\ ~undoFailed /\ at = step /\ pos \in 1..2
         /\ UNCHANGED <<pg, keyfile, raced, name, key, aside, refused, was>>
         /\ \/ pos = 1 /\ "ts_kv" \notin refused /\ ch' = Exchanged("ts_kv") /\ at' = step /\ pos' = 2
            \/ pos = 2 /\ "ts_kv_latest_agg" \notin refused /\ ch' = Exchanged("ts_kv_latest_agg")
               /\ at' = then /\ pos' = 1
            \/ pos = 1 /\ "ts_kv" \in refused /\ ch' = ch /\ at' = otherwise /\ pos' = 1
            \/ pos = 2 /\ "ts_kv_latest_agg" \in refused /\ ch' = ch /\ at' = otherwise /\ pos' = 1
<1>1. /\ at = step /\ pos \in 1..2 /\ Typed /\ UNCHANGED <<pg, keyfile, raced>>
  BY TheTables DEF Exchange, Inv, Typed, TypeOK
<1>2. Tables[1] = "ts_kv" /\ Tables[2] = "ts_kv_latest_agg" /\ Len(Tables) = 2
  BY DEF Tables
<1>3. step \in UndoSteps \/ step \notin MayFail
  BY DEF Exchanging, UndoSteps, NoTransient
<1>4. ~Fails
  BY <1>1, <1>3 DEF Fails, FailsWhile
<1>5. Works => ~undoFailed
  BY DEF Works
<1>6. CASE /\ Tables[pos] \notin refused /\ Works /\ ch' = Exchanged(Tables[pos])
           /\ IF pos = Len(Tables) THEN GotoWith(then, [job EXCEPT !.pos = 1])
              ELSE GotoWith(at, [job EXCEPT !.pos = @ + 1])
  <2>1. CASE pos = 1
    <3>1. at' = at /\ pos' = pos + 1 /\ UNCHANGED <<name, key, aside, refused, was>>
      BY <1>1, <1>2, <1>6, <2>1, Carrying
    <3> QED BY <1>1, <1>2, <1>5, <1>6, <2>1, <3>1
  <2>2. CASE pos = 2
    <3>1. at' = then /\ pos' = 1 /\ UNCHANGED <<name, key, aside, refused, was>>
      BY <1>1, <1>2, <1>6, <2>2, Carrying
    <3> QED BY <1>1, <1>2, <1>5, <1>6, <2>2, <3>1
  <2> QED BY <1>1, <2>1, <2>2
<1>7. CASE Tables[pos] \in refused /\ Works /\ GotoWith(otherwise, [job EXCEPT !.pos = 1]) /\ UNCHANGED ch
  <2>1. at' = otherwise /\ pos' = 1 /\ UNCHANGED <<name, key, aside, refused, was>>
    BY <1>1, <1>7, Carrying
  <2> QED BY <1>1, <1>2, <1>5, <1>7, <2>1
<1> QED BY <1>4, <1>6, <1>7 DEF Exchange

LEMMA ExchangeUndoable ==
  ASSUME Inv, NoTransient, Undoable, UNCHANGED kind, ExchangeTables \/ ExchangeAgain \/ ExchangeBack
  PROVE  Undoable'
<1> SUFFICES ASSUME ~undoFailed' PROVE Undoable'
  BY DEF Undoable
<1>1. PICK step \in Exchanging, then \in {"install", "p_name", "u_name"}, otherwise \in {"again", "p_name", "u_name"} :
        /\ Exchange(step, then, otherwise)
        /\ step = "exchange" => then = "install" /\ otherwise = "again"
        /\ step = "again" => then = "p_name" /\ otherwise = "p_name"
        /\ step = "u_exchange" => then = "u_name" /\ otherwise = "u_name"
  BY DEF ExchangeTables, ExchangeAgain, ExchangeBack, Exchanging
<1>2. /\ ~undoFailed /\ at = step /\ pos \in 1..2
      /\ UNCHANGED <<pg, keyfile, raced, name, key, aside, refused, was>>
      /\ \/ pos = 1 /\ "ts_kv" \notin refused /\ ch' = Exchanged("ts_kv") /\ at' = step /\ pos' = 2
         \/ pos = 2 /\ "ts_kv_latest_agg" \notin refused /\ ch' = Exchanged("ts_kv_latest_agg")
            /\ at' = then /\ pos' = 1
         \/ pos = 1 /\ "ts_kv" \in refused /\ ch' = ch /\ at' = otherwise /\ pos' = 1
         \/ pos = 2 /\ "ts_kv_latest_agg" \in refused /\ ch' = ch /\ at' = otherwise /\ pos' = 1
  BY <1>1, ExchangingTables, SMTT(60)
<1>3. at \in SwitchSteps /\ ClickHouse /\ at \in Replaced
  BY <1>2, Switching DEF Exchanging, SwitchSteps, Replaced
<1>4. /\ WasTyped /\ Arranged(at, Holding(pg), LetIn(pg))
      /\ Refusing(at) /\ Swapped(ch, Moved(at)) /\ KeyAsPlanned(at, keyfile)
  BY <1>2, <1>3 DEF Undoable
<1>5. Table = {"ts_kv", "ts_kv_latest_agg"} /\ name # Live
  BY <1>4, TheTables DEF Arranged
<1>6. at' \in Replaced /\ at' \in SwitchSteps
  BY <1>1, <1>2 DEF Exchanging, SwitchSteps, Replaced
<1>7. WasTyped'
  BY <1>2, <1>4 DEF WasTyped
<1>8. Arranged(at, Holding(pg), LetIn(pg))'
  BY <1>2, <1>3, <1>4, <1>6 DEF Arranged, Begun, Set, Replaced
<1>9. KeyAsPlanned(at, keyfile)'
  BY <1>1, <1>2, <1>4, <1>6 DEF KeyAsPlanned, SwitchSteps, MaybeWritten, Exchanging
<1>10. \A moved : Swapped(ch, moved) => \A t \in Table :
         /\ t \notin moved => Swapped(Exchanged(t), moved \union {t})
         /\ t \in moved => Swapped(Exchanged(t), moved \ {t})
  BY <1>3, <1>4, <1>5, ExchangedSwaps
<1>11. \A chs, moved : Swapped(chs, moved)' <=> Swapped(chs, moved)
  BY <1>2 DEF Swapped
<1>12. Refusing(at)' /\ Swapped(ch', Moved(at)')
  <2>1. CASE at = "exchange"
    <3>1. CASE pos = 1 /\ "ts_kv" \notin refused /\ ch' = Exchanged("ts_kv") /\ at' = "exchange" /\ pos' = 2
      <4>1. Moved(at) = {} /\ Moved(at)' = {"ts_kv"}
        BY <1>3, <2>1, <3>1 DEF Moved, AllExchanged
      <4>2. Refusing(at)'
        BY <1>2, <3>1 DEF Refusing, Exchanging, AllExchanged
      <4>3. Swapped(Exchanged("ts_kv"), {} \union {"ts_kv"})
        BY <1>4, <1>5, <1>10, <4>1
      <4> QED BY <3>1, <4>1, <4>2, <4>3
    <3>2. CASE pos = 2 /\ "ts_kv_latest_agg" \notin refused /\ ch' = Exchanged("ts_kv_latest_agg")
               /\ at' = "install" /\ pos' = 1
      <4>1. Moved(at) = {"ts_kv"} /\ Moved(at)' = Table
        BY <1>3, <2>1, <3>2 DEF Moved, AllExchanged
      <4>2. Refusing(at)'
        BY <1>2, <1>4, <1>5, <2>1, <3>2 DEF Refusing, Exchanging, AllExchanged
      <4>3. Swapped(Exchanged("ts_kv_latest_agg"), {"ts_kv"} \union {"ts_kv_latest_agg"})
        BY <1>4, <1>5, <1>10, <4>1
      <4>4. {"ts_kv"} \union {"ts_kv_latest_agg"} = Table
        BY <1>5
      <4> QED BY <3>2, <4>1, <4>2, <4>3, <4>4
    <3>3. CASE ch' = ch /\ at' = "again" /\ pos' = 1 /\ pos = 1 /\ "ts_kv" \in refused
      <4>1. Moved(at) = {} /\ Moved(at)' = {}
        BY <1>2, <1>3, <2>1, <3>3 DEF Moved, AllExchanged
      <4>2. Refusing(at)'
        BY <1>2, <1>5, <3>3 DEF Refusing, Exchanging, AllExchanged
      <4> QED BY <1>4, <3>3, <4>1, <4>2
    <3>4. CASE ch' = ch /\ at' = "again" /\ pos' = 1 /\ pos = 2 /\ "ts_kv_latest_agg" \in refused
      <4>1. Moved(at) = {"ts_kv"} /\ Moved(at)' = {"ts_kv"}
        BY <1>2, <1>3, <1>4, <2>1, <3>4 DEF Moved, Refusing, AllExchanged
      <4>2. Refusing(at)'
        BY <1>2, <1>5, <3>4 DEF Refusing, Exchanging, AllExchanged
      <4> QED BY <1>4, <3>4, <4>1, <4>2
    <3> QED BY <1>1, <1>2, <2>1, <3>1, <3>2, <3>3, <3>4
  <2>2. CASE at = "again"
    <3>1. CASE pos = 1 /\ "ts_kv" \notin refused /\ ch' = Exchanged("ts_kv") /\ at' = "again" /\ pos' = 2
      <4>1. Moved(at) = {"ts_kv"} /\ Moved(at)' = {}
        BY <1>3, <2>2, <3>1 DEF Moved, AllExchanged
      <4>2. Refusing(at)'
        BY <1>2, <1>4, <1>5, <2>2, <3>1 DEF Refusing, Exchanging, AllExchanged
      <4>3. Swapped(Exchanged("ts_kv"), {"ts_kv"} \ {"ts_kv"})
        BY <1>4, <1>5, <1>10, <4>1
      <4>4. {"ts_kv"} \ {"ts_kv"} = {}
        OBVIOUS
      <4> QED BY <3>1, <4>1, <4>2, <4>3, <4>4
    <3>2. CASE ch' = ch /\ at' = "p_name" /\ pos' = 1 /\ (pos = 2 \/ "ts_kv" \in refused)
      <4>1. Moved(at) = {} /\ Moved(at)' = {}
        BY <1>3, <2>2, <3>2 DEF Moved, AllExchanged
      <4>2. Refusing(at)'
        BY <3>2 DEF Refusing, Exchanging, AllExchanged
      <4> QED BY <1>4, <3>2, <4>1, <4>2
    <3>3. pos = 2 => "ts_kv_latest_agg" \in refused
      BY <1>4, <2>2 DEF Refusing
    <3> QED BY <1>1, <1>2, <2>2, <3>1, <3>2, <3>3
  <2>3. CASE at = "u_exchange"
    <3>1. "ts_kv" \notin refused /\ "ts_kv_latest_agg" \notin refused
      BY <1>3, <1>4, <1>5, <2>3 DEF Refusing
    <3>2. CASE pos = 1 /\ ch' = Exchanged("ts_kv") /\ at' = "u_exchange" /\ pos' = 2
      <4>1. Moved(at) = Table /\ Moved(at)' = {"ts_kv_latest_agg"}
        BY <1>3, <2>3, <3>2 DEF Moved, AllExchanged
      <4>2. Refusing(at)'
        BY <1>2, <1>4, <2>3, <3>2 DEF Refusing, Exchanging, AllExchanged
      <4>3. Swapped(Exchanged("ts_kv"), Table \ {"ts_kv"})
        BY <1>4, <1>5, <1>10, <4>1
      <4>4. Table \ {"ts_kv"} = {"ts_kv_latest_agg"}
        BY <1>5
      <4> QED BY <3>2, <4>1, <4>2, <4>3, <4>4
    <3>3. CASE pos = 2 /\ ch' = Exchanged("ts_kv_latest_agg") /\ at' = "u_name" /\ pos' = 1
      <4>1. Moved(at) = {"ts_kv_latest_agg"} /\ Moved(at)' = {}
        BY <1>3, <2>3, <3>3 DEF Moved, AllExchanged
      <4>2. Refusing(at)'
        BY <3>3 DEF Refusing, Exchanging, AllExchanged
      <4>3. Swapped(Exchanged("ts_kv_latest_agg"), {"ts_kv_latest_agg"} \ {"ts_kv_latest_agg"})
        BY <1>4, <1>5, <1>10, <4>1
      <4>4. {"ts_kv_latest_agg"} \ {"ts_kv_latest_agg"} = {}
        OBVIOUS
      <4> QED BY <3>3, <4>1, <4>2, <4>3, <4>4
    <3> QED BY <1>1, <1>2, <2>3, <3>1, <3>2, <3>3
  <2> QED BY <1>2, <2>1, <2>2, <2>3 DEF Exchanging
<1> QED BY <1>7, <1>8, <1>9, <1>11, <1>12 DEF Undoable

----------------------------------------------------------------------------
(* The other steps of a switch: it begins, SENTIENT is stopped and started,  *)
(* A switch begins with what stands, and no key to be written.             *)
LEMMA BeginPlans ==
  ASSUME NEW n, BeginSwitch(n)
  PROVE  /\ at' = "plan" /\ name' = n /\ key' = NoKeyChange /\ said' = "nothing" /\ pos' = 1
         /\ was' = Stand
<1>1. PICK refuses : GotoWith("plan", [NoJob EXCEPT !.name = n, !.refused = refuses, !.was = Stand])
  BY DEF BeginSwitch
<1> QED BY <1>1 DEF NoJob, GotoWith

(* and the key file is written and put back.                               *)
LEMMA BeginUndoable ==
  ASSUME Inv, NEW n \in Name, BeginSwitch(n), UNCHANGED kind
  PROVE  Undoable'
<1>2. /\ at' = "plan" /\ name' = n /\ key' = NoKeyChange /\ pos' = 1
      /\ was' = Stand
  BY BeginPlans
<1>3. /\ n # Live /\ Exists(n) /\ (ClickHouse => n \in ChName /\ ch[n] # None)
      /\ UNCHANGED <<pg, ch, keyfile>>
  BY DEF BeginSwitch
<1>4. /\ pg \in [Name -> Database \union {None}] /\ keyfile \in KeyFile
      /\ ch \in [ChName -> [Table -> Data \union {None}] \union {None}]
      /\ ClickHouse => ch[Live] # None
  BY DEF Inv, Typed, TypeOK, Tabled
<1> DEFINE h == Holding(pg)
<1>5. /\ h \in [Name -> Data \union {None}] /\ h[n] # None
      /\ LetIn(pg) \subseteq {m \in Name : h[m] # None}
  BY <1>3, <1>4, HoldingTyped DEF LetIn
<1>6. was'.data = h /\ was'.letIn = LetIn(pg) /\ was'.ch = ch /\ was'.keyfile = keyfile
  BY <1>2 DEF Stand, Holding, LetIn
<1>7. WasTyped'
  BY <1>2, <1>3, <1>4, <1>5, <1>6 DEF WasTyped
<1> HIDE DEF h
<1>8. Arranged(at, h, LetIn(pg))'
  <2>1. h' = h /\ LetIn(pg)' = LetIn(pg)
    BY <1>3 DEF h, Holding, LetIn
  <2> QED BY <1>2, <1>3, <1>5, <1>6, <2>1 DEF Arranged, Set, Replaced
<1>9. Refusing(at)'
  BY <1>2 DEF Refusing, Exchanging, AllExchanged
<1>10. Moved(at)' = {}
  BY <1>2 DEF Moved, AllExchanged
<1>11. Swapped(ch, Moved(at))'
  BY <1>3, <1>6, <1>10 DEF Swapped
<1>12. KeyAsPlanned(at, keyfile)'
  BY <1>2, <1>3, <1>6 DEF KeyAsPlanned, MaybeWritten
<1> QED BY <1>7, <1>8, <1>9, <1>10, <1>11, <1>12 DEF Undoable, h

(* A step that renames nothing and exchanges nothing.                      *)
LEMMA OtherUndoable ==
  ASSUME Inv, Undoable, at \in SwitchSteps, ~undoFailed, at' \in SwitchSteps,
         UNCHANGED <<kind, pg, ch, raced, name, pos, refused, was>>,
         aside' = aside \/ {at, at'} \subseteq Begun,
         {at, at'} \subseteq Begun \/ {at, at'} \subseteq Replaced,
         {at, at'} \subseteq AllExchanged \/ {at, at'} \cap (AllExchanged \union Exchanging) = {}
           \/ (at = "u_key" /\ at' = IF ClickHouse THEN "u_exchange" ELSE "u_name"),
         KeyAsPlanned(at, keyfile)'
  PROVE  Undoable'
<1>1. /\ WasTyped /\ Arranged(at, Holding(pg), LetIn(pg))
      /\ Refusing(at) /\ Swapped(ch, Moved(at))
  BY DEF Undoable
<1>2. WasTyped'
  BY <1>1 DEF WasTyped
<1>3. Arranged(at, Holding(pg), LetIn(pg))'
  <2>1. UNCHANGED <<Holding(pg), LetIn(pg)>>
    BY DEF Holding, LetIn
  <2>2. CASE {at, at'} \subseteq Begun
    BY <1>1, <2>1, <2>2 DEF Arranged, Begun, Set, Replaced
  <2>3. CASE {at, at'} \subseteq Replaced /\ aside' = aside
    BY <1>1, <2>1, <2>3 DEF Arranged, Begun, Set, Replaced
  <2> QED BY <2>2, <2>3
<1>4. Refusing(at)' /\ Moved(at)' = Moved(at)
  <2>1. CASE {at, at'} \subseteq AllExchanged
    BY <1>1, <2>1 DEF Refusing, Moved, Exchanging, AllExchanged
  <2>2. CASE {at, at'} \cap (AllExchanged \union Exchanging) = {}
    BY <1>1, <2>2 DEF Refusing, Moved, Exchanging, AllExchanged
  <2>3. CASE at = "u_key" /\ at' = IF ClickHouse THEN "u_exchange" ELSE "u_name"
    BY <1>1, <2>3 DEF Refusing, Moved, Exchanging, AllExchanged
  <2> QED BY <2>1, <2>2, <2>3
<1>5. Swapped(ch, Moved(at))'
  BY <1>1, <1>4 DEF Swapped
<1> QED BY <1>2, <1>3, <1>4, <1>5 DEF Undoable

(* The plan for the key file, and SENTIENT's being stopped.                *)
LEMMA PlanUndoable ==
  ASSUME Inv, Undoable, UNCHANGED kind, PlanSwitch \/ StopSentient
  PROVE  Undoable'
<1> SUFFICES ASSUME ~undoFailed' PROVE Undoable'
  BY DEF Undoable
<1>1. Typed /\ undoFailed \in BOOLEAN
  BY DEF Inv, Typed, TypeOK
<1>2. ~undoFailed
  BY <1>1 DEF PlanSwitch, StopSentient, Works, Fails, FailsWhile
<1>3. /\ at \in {"plan", "stop"} /\ UNCHANGED <<pg, ch, keyfile, raced>>
  BY DEF PlanSwitch, StopSentient
<1>4. KeyAsPlanned(at, keyfile)
  BY <1>2, <1>3 DEF Undoable, SwitchSteps
<1>5. CASE PlanSwitch
  <2>1. /\ at = "plan" /\ at' = "stop" /\ UNCHANGED <<name, aside, pos, refused, was>>
        /\ key' = key \/ key'.previous = keyfile
    <3>1. CASE Goto("stop")
      BY <1>1, <1>5, <3>1, Carrying DEF PlanSwitch
    <3>2. CASE GotoWith("stop", [job EXCEPT !.said = "installed",
                              !.key = [new |-> Merged(pg[name].note, keyfile), previous |-> keyfile]])
      BY <1>1, <1>5, <3>2 DEF PlanSwitch, GotoWith, Typed, Fields
    <3>3. CASE \E it \in {"missing", "unchecked"} : GotoWith("stop", [job EXCEPT !.said = it])
      BY <1>1, <1>5, <3>3, Carrying DEF PlanSwitch
    <3> QED BY <1>5, <3>1, <3>2, <3>3 DEF PlanSwitch
  <2>2. KeyAsPlanned(at, keyfile)'
    BY <1>3, <1>4, <2>1 DEF KeyAsPlanned, MaybeWritten, SwitchSteps
  <2> QED BY <1>2, <1>3, <2>1, <2>2, OtherUndoable
          DEF SwitchSteps, Begun, Replaced, AllExchanged, Exchanging
<1>6. CASE StopSentient
  <2>1. /\ at = "stop" /\ at' \in {"aside", "restart"} /\ UNCHANGED <<name, key, pos, refused, was>>
    BY <1>1, <1>6, Carrying DEF StopSentient
  <2>2. KeyAsPlanned(at, keyfile)'
    BY <1>3, <1>4, <2>1 DEF KeyAsPlanned, MaybeWritten, SwitchSteps
  <2> QED BY <1>2, <1>3, <2>1, <2>2, OtherUndoable
          DEF SwitchSteps, Begun, Replaced, AllExchanged, Exchanging
<1> QED BY <1>5, <1>6

(* What is done once everything is in its place, and first undone.         *)
LEMMA InstalledUndoable ==
  ASSUME Inv, Undoable, UNCHANGED kind,
         InstallKey \/ StartSentient \/ Wait \/ StopAgain \/ PutKeyBack
  PROVE  Undoable'
<1> SUFFICES ASSUME ~undoFailed', at' # "idle" PROVE Undoable'
  BY DEF Undoable, SwitchSteps
<1>1. Typed /\ undoFailed \in BOOLEAN
  BY DEF Inv, Typed, TypeOK
<1>2. ~undoFailed
  BY <1>1 DEF InstallKey, StartSentient, Wait, StopAgain, PutKeyBack, Works, Fails, FailsWhile
<1>3. /\ at \in AllExchanged /\ at \in SwitchSteps /\ UNCHANGED <<pg, ch, raced>>
  BY DEF InstallKey, StartSentient, Wait, StopAgain, PutKeyBack, AllExchanged, SwitchSteps
<1>4. KeyAsPlanned(at, keyfile)
  BY <1>2, <1>3 DEF Undoable
<1>5. CASE InstallKey
  <2>1. at = "install" /\ at' = "start" /\ UNCHANGED <<name, key, aside, pos, refused, was>>
    BY <1>1, <1>5, Carrying DEF InstallKey
  <2>2. KeyAsPlanned(at, keyfile)'
    BY <1>3, <1>4, <1>5, <2>1 DEF KeyAsPlanned, MaybeWritten, SwitchSteps, InstallKey
  <2> QED BY <1>2, <1>3, <2>1, <2>2, OtherUndoable
          DEF SwitchSteps, Begun, Replaced, AllExchanged, Exchanging
<1>6. CASE StartSentient \/ Wait \/ StopAgain
  <2>1. /\ at \in MaybeWritten /\ at' \in MaybeWritten /\ job' = job /\ keyfile' = keyfile
    BY <1>1, <1>6, Carrying DEF StartSentient, Wait, StopAgain, MaybeWritten, Return
  <2>2. KeyAsPlanned(at, keyfile)'
    BY <1>3, <1>4, <2>1 DEF KeyAsPlanned, MaybeWritten, SwitchSteps
  <2> QED BY <1>2, <1>3, <2>1, <2>2, OtherUndoable
          DEF SwitchSteps, Begun, Replaced, AllExchanged, Exchanging, MaybeWritten
<1>7. CASE PutKeyBack
  <2>1. /\ at = "u_key" /\ at' = (IF ClickHouse THEN "u_exchange" ELSE "u_name") /\ job' = job
    BY <1>1, <1>7, Carrying DEF PutKeyBack
  <2>2. keyfile' = IF key # NoKeyChange THEN key.previous ELSE keyfile
    BY <1>1, <1>7, <2>1 DEF PutKeyBack, Fails, FailsWhile, UndoSteps
  <2>3. KeyAsPlanned(at, keyfile)'
    BY <1>3, <1>4, <2>1, <2>2 DEF KeyAsPlanned, MaybeWritten, SwitchSteps
  <2> QED BY <1>2, <1>3, <2>1, <2>3, OtherUndoable
          DEF SwitchSteps, Begun, Replaced, AllExchanged, Exchanging
<1> QED BY <1>5, <1>6, <1>7

(* What SENTIENT does meanwhile leaves every database where it is.         *)
LEMMA LiveHolding ==
  ASSUME Inv, Boot \/ Write \/ \E k \in Keys : Rotate(k)
  PROVE  /\ UNCHANGED <<Holding(pg), LetIn(pg), ch, at, job, undoFailed, crashes, jobs, complete, wanted>>
         /\ pg[Live] \in Database /\ \A n \in Name \ {Live} : pg'[n] = pg[n]
<1>1. Live \in Name /\ pg \in [Name -> Database \union {None}] /\ pg[Live] # None
  BY Names DEF Boot, Write, Rotate, Fits, Inv, Typed, TypeOK
<1>2. pg[Live] \in Database
  BY <1>1
<1>3. PICK db : /\ pg' = [pg EXCEPT ![Live] = db]
                /\ db # None /\ db.data = pg[Live].data /\ db.open = pg[Live].open
  <2> DEFINE booted(k) == [pg[Live] EXCEPT !.schema = "same", !.key = k]
             written == [pg[Live] EXCEPT !.writes = @ \union {nextWrite}]
             rotated(k) == [pg[Live] EXCEPT !.key = k]
  <2>1. CASE Boot
    <3> DEFINE k == IF pg[Live].key = None THEN keyfile.now ELSE pg[Live].key
    <3>1. pg' = [pg EXCEPT ![Live] = booted(k)]
      BY <1>1, <1>2, <2>1 DEF Boot, Database
    <3>2. booted(k).data = pg[Live].data /\ booted(k).open = pg[Live].open
      BY <1>2 DEF Database
    <3>3. booted(k) \in Database
      BY <1>2 DEF Database, Schemas, KeyFile, Inv, Typed, TypeOK
    <3> QED BY <3>1, <3>2, <3>3, Nothing
  <2>2. CASE Write
    <3>1. pg' = [pg EXCEPT ![Live] = written]
      BY <1>1, <2>2 DEF Write
    <3>2. written.data = pg[Live].data /\ written.open = pg[Live].open
      BY <1>2 DEF Database
    <3>3. written \in Database
      BY <1>2 DEF Database, Inv, Typed, TypeOK
    <3> QED BY <3>1, <3>2, <3>3, Nothing
  <2>3. ASSUME NEW k \in Keys, Rotate(k)
        PROVE  \E db : /\ pg' = [pg EXCEPT ![Live] = db]
                       /\ db # None /\ db.data = pg[Live].data /\ db.open = pg[Live].open
    <3>1. pg' = [pg EXCEPT ![Live] = rotated(k)]
      BY <1>1, <2>3 DEF Rotate
    <3>2. rotated(k).data = pg[Live].data /\ rotated(k).open = pg[Live].open
      BY <1>2 DEF Database
    <3>3. rotated(k) \in Database
      BY <1>2, <2>3 DEF Database
    <3> QED BY <3>1, <3>2, <3>3, Nothing
  <2> QED BY <2>1, <2>2, <2>3
<1>4. /\ pg'[Live] = db /\ \A n \in Name \ {Live} : pg'[n] = pg[n]
  BY <1>1, <1>3
<1>5. UNCHANGED <<Holding(pg), LetIn(pg)>>
  BY <1>1, <1>3, <1>4 DEF Holding, LetIn
<1> QED BY <1>2, <1>4, <1>5 DEF Boot, Write, Rotate

LEMMA LiveUndoable ==
  ASSUME Inv, Undoable, UNCHANGED kind, Boot \/ Write \/ \E k \in Keys : Rotate(k)
  PROVE  Undoable'
<1>1. UNCHANGED <<Holding(pg), LetIn(pg), ch, at, job, undoFailed>>
  BY LiveHolding
<1>2. (keyfile' = keyfile /\ raced' = raced) \/ (at \in SwitchSteps => raced')
  BY DEF Boot, Write, Rotate
<1> SUFFICES ASSUME at \in SwitchSteps, ~undoFailed PROVE Undoable'
  BY <1>1 DEF Undoable
<1>3. /\ WasTyped /\ Arranged(at, Holding(pg), LetIn(pg))
      /\ Refusing(at) /\ Swapped(ch, Moved(at)) /\ KeyAsPlanned(at, keyfile)
  BY DEF Undoable
<1>4. WasTyped' /\ Refusing(at)' /\ Arranged(at, Holding(pg), LetIn(pg))'
  BY <1>1, <1>3 DEF WasTyped, Refusing, Arranged
<1>5. Swapped(ch, Moved(at))'
  BY <1>1, <1>3 DEF Swapped, Moved
<1>6. KeyAsPlanned(at, keyfile)'
  BY <1>1, <1>2, <1>3 DEF KeyAsPlanned
<1> QED BY <1>4, <1>5, <1>6 DEF Undoable

(* Every step keeps it.                                                    *)
LEMMA UndoableKept ==
  ASSUME NoTransient, Inv, Undoable, [Next]_vars
  PROVE  Undoable'
<1>1. CASE UNCHANGED vars
  <2>1. UNCHANGED <<pg, ch, keyfile, at, job, undoFailed, raced, kind>>
    BY <1>1 DEF vars
  <2>2. UNCHANGED <<Holding(pg), LetIn(pg)>>
    BY <2>1 DEF Holding, LetIn
  <2> QED BY <2>1, <2>2 DEF Undoable, WasTyped, Refusing, Arranged, Swapped, Moved, KeyAsPlanned
<1>2. CASE Next
  <2>1. UNCHANGED kind
    BY <1>2 DEF Next
  <2>2. at' \notin SwitchSteps => Undoable'
    BY DEF Undoable
  <2>3. CASE Job
    <3>1. CASE \E target \in Targets, b \in Backups : BeginRestore(target, b)
      BY <2>2, <3>1 DEF BeginRestore, GotoWith, SwitchSteps
    <3>2. CASE \E n \in Name : BeginSwitch(n)
      BY <2>1, <3>2, BeginUndoable
    <3> QED BY <2>3, <3>1, <3>2 DEF Job
  <2>4. CASE RestoreStep
    <3>1. at' \in RestoreSteps \union {"idle"}
      BY <2>4 DEF RestoreStep, CreateDatabase, CloneSchema, ReadArchive, Load, LoadTelemetry, ImportTables,
        FillTables, Convert, MatchSchema, NoteKey, RestoreFails, Return, Goto, RestoreSteps
    <3> QED BY <2>2, <3>1 DEF RestoreSteps, SwitchSteps
  <2>5. CASE SwitchStep
    <3>1. CASE Restart
      BY <2>2, <3>1 DEF Restart, Return, SwitchSteps
    <3>2. CASE PutLiveBack \/ UndoAside("p_aside") \/ UndoAside("u_aside")
      BY <2>1, <3>2, LiveBackUndoable DEF PutLiveBack, UndoAside
    <3> QED BY <2>1, <2>5, <3>1, <3>2, AsideUndoable, PutUndoable, NameUndoable, ExchangeUndoable,
               PlanUndoable, InstalledUndoable DEF SwitchStep
  <2>6. CASE Tick
    <3>1. UNCHANGED <<pg, ch, keyfile, at, job, undoFailed, raced>>
      BY <2>6 DEF Tick
    <3>2. UNCHANGED <<Holding(pg), LetIn(pg)>>
      BY <3>1 DEF Holding, LetIn
    <3> QED BY <2>1, <3>1, <3>2 DEF Undoable, WasTyped, Refusing, Arranged, Swapped, Moved, KeyAsPlanned
  <2>7. CASE Boot \/ Write \/ \E k \in Keys : Rotate(k)
    BY <2>1, <2>7, LiveUndoable
  <2>8. CASE Crash
    BY <2>2, <2>8 DEF Crash, Return, SwitchSteps
  <2> QED BY <1>2, <2>3, <2>4, <2>5, <2>6, <2>7, <2>8 DEF Next, Environment
<1> QED BY <1>1, <1>2

LEMMA UndoableAlways ==
  ASSUME NoTransient
  PROVE  Spec => []Undoable
<1>1. Init => Undoable
  BY DEF Init, Undoable, SwitchSteps
<1>2. Inv /\ Undoable /\ [Next]_vars => Undoable'
  BY UndoableKept
<1> QED BY <1>1, <1>2, InvAlways, PTL DEF Spec

(* What there is when a switch that failed starts SENTIENT again.          *)
LEMMA AsBefore ==
  ASSUME Inv, Undoable, at = "restart", ~undoFailed
  PROVE  /\ Holding(pg) = was.data /\ was.letIn \subseteq LetIn(pg) /\ ch = was.ch
         /\ keyfile = was.keyfile \/ raced
<1>1. /\ WasTyped /\ Arranged("restart", Holding(pg), LetIn(pg))
      /\ Swapped(ch, Moved("restart")) /\ KeyAsPlanned("restart", keyfile)
  BY DEF Undoable, SwitchSteps
<1>2. Holding(pg) = was.data /\ was.letIn \subseteq LetIn(pg)
  BY <1>1 DEF Arranged, Begun
<1>3. Moved("restart") = {}
  BY DEF Moved, AllExchanged
<1>4. ch = was.ch
  <2>1. CASE ~ClickHouse
    BY <1>1, <2>1 DEF Swapped
  <2>2. CASE ClickHouse
    <3>1. /\ ch \in [ChName -> [Table -> Data \union {None}] \union {None}]
          /\ was.ch \in [ChName -> [Table -> Data \union {None}] \union {None}]
          /\ Live \in ChName /\ name \in ChName
          /\ ch[Live] # None /\ ch[name] # None /\ was.ch[Live] # None /\ was.ch[name] # None
      BY <1>1, <2>2, Names, Switching DEF WasTyped, SwitchSteps
    <3>2. ch[Live] = was.ch[Live] /\ ch[name] = was.ch[name]
      <4>1. /\ ch[Live] \in [Table -> Data \union {None}] /\ was.ch[Live] \in [Table -> Data \union {None}]
            /\ ch[name] \in [Table -> Data \union {None}] /\ was.ch[name] \in [Table -> Data \union {None}]
        BY <3>1
      <4>2. \A t \in Table : ch[Live][t] = was.ch[Live][t] /\ ch[name][t] = was.ch[name][t]
        BY <1>1, <1>3, <2>2 DEF Swapped
      <4> QED BY <4>1, <4>2
    <3>3. \A c \in ChName : ch[c] = was.ch[c]
      BY <1>1, <3>2 DEF Swapped
    <3> QED BY <3>1, <3>3
  <2> QED BY <2>1, <2>2
<1>5. keyfile = was.keyfile \/ raced
  BY <1>1 DEF KeyAsPlanned, SwitchSteps, MaybeWritten
<1> QED BY <1>2, <1>4, <1>5

(* A switch that failed has put everything back (restore_switch.rs, undo_pg, *)
(* ch_exchange, secrets_key::put_back): the databases under their names and *)
(* let in, the tables, the key file, and SENTIENT was started; with any     *)
(* number of failures that are not in putting back, at any point.          *)
THEOREM FailedSwitchIsUndone ==
  ASSUME NoTransient
  PROVE  Spec => FailedSwitchUndone
<1> DEFINE A == at # "idle" /\ at' = "idle" /\ last' = "undone" /\ ~undoFailed' =>
       /\ Stand'.data = was.data /\ was.letIn \subseteq Stand'.letIn
       /\ ch' = was.ch
       /\ keyfile' = was.keyfile \/ raced'
       /\ wanted'
<1>1. ASSUME Inv, Undoable, [Next]_vars PROVE [A]_vars
  <2> SUFFICES ASSUME Next, at # "idle", at' = "idle", last' = "undone", ~undoFailed' PROVE A
    BY <1>1
  <2>1. Restart /\ UNCHANGED kind
    BY DEF Next, Job, RestoreStep, SwitchStep, Environment, BeginRestore, BeginSwitch, CreateDatabase,
      CloneSchema, ReadArchive, Load, LoadTelemetry, ImportTables, FillTables, Convert, MatchSchema, NoteKey,
      RestoreFails, Return, Goto, GotoWith, PlanSwitch, StopSentient, SetLiveAside, PutRestored, PutLiveBack,
      RenameStep, Rename, ExchangeTables, ExchangeAgain, ExchangeBack, Exchange, UndoName, UndoAside,
      InstallKey, StartSentient, Wait, StopAgain, PutKeyBack, Tick, Boot, Write, Rotate, Crash, AfterRename
  <2>2. /\ at = "restart" /\ UNCHANGED <<pg, ch, keyfile, raced>> /\ Inv
    BY <1>1, <2>1 DEF Restart
  <2>3. ~undoFailed /\ wanted'
    BY <2>1, <2>2 DEF Restart, Works, Fails, FailsWhile, UndoSteps, Inv, Typed, TypeOK
  <2>4. /\ Holding(pg) = was.data /\ was.letIn \subseteq LetIn(pg) /\ ch = was.ch
        /\ keyfile = was.keyfile \/ raced
    BY <1>1, <2>2, <2>3, AsBefore
  <2>5. Stand'.data = Holding(pg) /\ Stand'.letIn = LetIn(pg)
    BY <2>2 DEF Stand, Holding, LetIn
  <2> QED BY <2>2, <2>3, <2>4, <2>5
<1>2. Spec => [][A]_vars
  BY <1>1, InvAlways, UndoableAlways, PTL DEF Spec
<1> QED BY <1>2 DEF FailedSwitchUndone

----------------------------------------------------------------------------
(* What belongs together: every set of data is under one name, and what was *)
(* restored completely has both of its tables beside it.                   *)
Sound(h, chs) ==
  /\ \A n \in Name : h[n] # None => h[n] \in 0..jobs
  /\ \A m, n \in Name : h[m] # None /\ h[m] = h[n] => m = n
  /\ ClickHouse => \A n \in ChName : h[n] \in complete =>
       chs[n] # None /\ \A t \in Table : chs[n][t] = h[n]

(* A restore makes data that nobody has yet.                               *)
Filling == {"create", "clone", "read", "load", "telemetry", "import", "convert"}
Fresh(h) ==
  /\ at = "create" => \A n \in Name : h[n] # jobs
  /\ at \in RestoreSteps \ {"create"} => h[name] = jobs
  /\ at \in Filling => jobs \notin complete

(* SENTIENT has loaded what is in service, and is stopped while it changes. *)
Stopped == {"aside", "put", "put_back", "exchange", "again", "p_name", "p_aside", "install",
  "start", "u_key", "u_exchange", "u_name", "u_aside"}
Serving(h) ==
  /\ server # None => h[Live] = server
  /\ at \in Stopped => server = None /\ ~wanted
Together ==
  Undisturbed =>
    /\ complete \subseteq 0..jobs
    /\ Serving(Holding(pg))
    /\ at \notin SwitchSteps => Sound(Holding(pg), ch) /\ Fresh(Holding(pg))
    /\ at \in SwitchSteps => Sound(was.data, was.ch)
    /\ at \in Stopped \union {"wait", "u_stop"} => aside \in Aside

(* Nothing is undisturbed again.                                           *)
LEMMA Calm ==
  ASSUME Inv, [Next]_vars, Undisturbed'
  PROVE  Undisturbed /\ (at # "idle" => ~Crash)
<1>1. /\ crashes \in Nat /\ undoFailed \in BOOLEAN /\ crashes' = 0 /\ ~undoFailed'
  BY RestoreAssumption DEF Inv, Typed, TypeOK, Undisturbed
<1>2. crashes' = crashes \/ crashes' = crashes + 1
  BY DEF vars, Next, Job, RestoreStep, SwitchStep, Environment, BeginRestore, BeginSwitch, CreateDatabase,
      CloneSchema, ReadArchive, Load, LoadTelemetry, ImportTables, FillTables, Convert, MatchSchema, NoteKey,
      PlanSwitch, StopSentient, SetLiveAside, PutRestored, PutLiveBack,
      RenameStep, ExchangeTables, ExchangeAgain, ExchangeBack, Exchange, UndoName, UndoAside,
      InstallKey, StartSentient, Wait, StopAgain, PutKeyBack, Restart, Tick, Boot, Write, Rotate, Crash
<1>3. undoFailed' = undoFailed \/ (\E undoing : undoFailed' = (undoFailed \/ undoing))
  BY DEF vars, Next, Job, RestoreStep, SwitchStep, Environment, BeginRestore, BeginSwitch, CreateDatabase,
      CloneSchema, ReadArchive, Load, LoadTelemetry, ImportTables, FillTables, Convert, MatchSchema, NoteKey,
      PlanSwitch, StopSentient, SetLiveAside, PutRestored, PutLiveBack,
      RenameStep, Rename, ExchangeTables, ExchangeAgain, ExchangeBack, Exchange, UndoName, UndoAside,
      InstallKey, StartSentient, Wait, StopAgain, PutKeyBack, Restart, Tick, Boot, Write, Rotate, Crash,
      Works, Fails, FailsWhile
<1>4. ~undoFailed
  BY <1>1, <1>3
<1>5. ~Crash
  BY <1>1 DEF Crash
<1> QED BY <1>1, <1>2, <1>4, <1>5 DEF Undisturbed

(* A restore fills data of its own, under a name of its own.               *)
LEMMA RestoreMovesTogether ==
  ASSUME Inv, Together, Undisturbed, at \in RestoreSteps,
         UNCHANGED <<kind, jobs, server, wanted>>,
         NEW h, h = Holding(pg), NEW g, g = Holding(pg'), g \in [Name -> Data \union {None}],
         \A n \in Name : n # name => g[n] = h[n], g[name] = jobs \/ g[name] = h[name],
         \A c \in ChName : c # name => ch'[c] = ch[c],
         complete' = complete \/ complete' = complete \union {jobs},
         at \notin Filling \ {"create"} => ch' = ch /\ complete' = complete,
         complete' # complete /\ ClickHouse => ch'[name] # None /\ \A t \in Table : ch'[name][t] = jobs,
         \/ at' = "idle"
         \/ at' \in RestoreSteps \ {"create"} /\ name' = name /\ g[name] = jobs
            /\ (at' \in Filling => at \in Filling /\ complete' = complete)
  PROVE  Together'
<1>1. /\ complete \subseteq 0..jobs /\ Serving(h) /\ Sound(h, ch) /\ Fresh(h)
  BY DEF Together, RestoreSteps, SwitchSteps
<1>2. name \in Targets /\ name # Live /\ name \in Name /\ Live \in Name /\ ChName \subseteq Name
  BY Names DEF Inv, Typed, Placed
<1>3. jobs \in Nat /\ h \in [Name -> Data \union {None}] /\ None # jobs
  BY HoldingTyped, Nothing, RestoreAssumption DEF Inv, Typed, TypeOK, Data
<1>4. complete' \subseteq 0..jobs /\ jobs' = jobs /\ ClickHouse' = ClickHouse
  <2>1. jobs \in 0..jobs
    BY <1>3
  <2> QED BY <1>1, <2>1
<1>5. at' \notin SwitchSteps /\ at' \notin Stopped
  BY DEF RestoreSteps, SwitchSteps, Stopped
<1>6. Serving(Holding(pg))'
  BY <1>1, <1>2, <1>5 DEF Serving
<1>7. \A n \in Name : h[n] = jobs => n = name
  <2>1. CASE at = "create"
    BY <1>1, <2>1 DEF Fresh
  <2>2. CASE at # "create"
    <3>1. h[name] = jobs
      BY <1>1, <2>2 DEF Fresh
    <3> QED BY <1>1, <1>2, <1>3, <3>1 DEF Sound
  <2> QED BY <2>1, <2>2
<1>8. Sound(Holding(pg), ch)'
  <2>1. \A n \in Name : g[n] # None => g[n] \in 0..jobs
    BY <1>1, <1>3 DEF Sound
  <2>2. \A m, n \in Name : g[m] # None /\ g[m] = g[n] => m = n
    BY <1>1, <1>7 DEF Sound
  <2>3. ASSUME ClickHouse, NEW n \in ChName, g[n] \in complete'
        PROVE  ch'[n] # None /\ \A t \in Table : ch'[n][t] = g[n]
    <3>1. CASE n # name
      <4>1. g[n] = h[n] /\ n \in Name
        BY <1>2, <3>1
      <4>2. h[n] \in complete
        BY <1>7, <2>3, <3>1, <4>1
      <4> QED BY <1>1, <2>3, <3>1, <4>1, <4>2 DEF Sound
    <3>2. CASE n = name /\ complete' # complete
      <4>1. at \in Filling \ {"create"}
        BY <3>2
      <4>2. g[name] = jobs
        BY <1>1, <4>1 DEF Fresh
      <4> QED BY <2>3, <3>2, <4>2
    <3>3. CASE n = name /\ complete' = complete
      <4>1. at \notin Filling \ {"create"}
        <5>1. ASSUME at \in Filling \ {"create"} PROVE FALSE
          <6>1. jobs \notin complete /\ h[name] = jobs
            BY <1>1, <5>1 DEF Fresh
          <6> QED BY <2>3, <3>3, <6>1
        <5> QED BY <5>1
      <4>2. ch' = ch
        BY <4>1
      <4>3. g[name] = h[name]
        <5>1. CASE at = "create"
          <6>1. jobs \notin complete
            BY <1>1, <5>1 DEF Fresh, Filling
          <6> QED BY <2>3, <3>3, <6>1
        <5>2. CASE at # "create"
          BY <1>1, <5>2 DEF Fresh
        <5> QED BY <5>1, <5>2
      <4> QED BY <1>1, <2>3, <3>3, <4>2, <4>3 DEF Sound
    <3> QED BY <3>1, <3>2, <3>3
  <2> QED BY <1>4, <2>1, <2>2, <2>3 DEF Sound
<1>9. Fresh(Holding(pg))'
  BY <1>1, <1>4 DEF Fresh, RestoreSteps, Filling
<1> QED BY <1>4, <1>5, <1>6, <1>8, <1>9 DEF Together, SwitchSteps

(* What a step of a restore does to PostgreSQL's databases: to its own only. *)
LEMMA RestoreWritesItsOwn ==
  ASSUME Inv, RestoreStep
  PROVE  \/ pg' = pg
         \/ \E db \in Database : /\ pg' = [pg EXCEPT ![name] = db]
                                 /\ db.data = IF at = "create" THEN jobs ELSE pg[name].data
<1>1. CASE CloneSchema \/ ReadArchive \/ LoadTelemetry \/ ImportTables \/ Convert
  BY <1>1 DEF CloneSchema, ReadArchive, LoadTelemetry, ImportTables, Convert, FillTables
<1>2. CASE CreateDatabase
  <2> DEFINE db == [data |-> jobs, schema |-> Partial, key |-> None, note |-> None, writes |-> {}, open |-> TRUE]
  <2>1. db \in Database /\ db.data = jobs
    <3>1. jobs \in Data /\ Partial \in Schemas
      BY DEF Schemas, Data, Inv, Typed, TypeOK
    <3> QED BY <3>1 DEF Database
  <2>2. pg' = pg \/ (pg' = [pg EXCEPT ![name] = db] /\ at = "create")
    BY <1>2 DEF CreateDatabase
  <2> HIDE DEF db
  <2> QED BY <2>1, <2>2
<1>3. CASE Load
  <2>1. at = "load" /\ at \in RestoreSteps \ {"create"}
    BY <1>3 DEF Load, RestoreSteps
  <2>2. PICK s \in {Partial, backup.schema}, k \in {None, backup.key} :
          pg' = [pg EXCEPT ![name].schema = s, ![name].key = k]
    BY <1>3 DEF Load
  <2> DEFINE db == [pg[name] EXCEPT !.schema = s, !.key = k]
  <2>3. s \in Schemas /\ k \in Keys \union {None} /\ pg[name] \in Database
    BY <2>1, <2>2, Restoring DEF Backup, Schemas
  <2>4. db \in Database /\ db.data = pg[name].data
    BY <2>3 DEF Database
  <2>5. pg' = [pg EXCEPT ![name] = db]
    BY <2>1, <2>2, Restoring
  <2> HIDE DEF db
  <2> QED BY <2>1, <2>4, <2>5
<1>4. CASE MatchSchema
  <2>1. at = "match" /\ at \in RestoreSteps \ {"create"}
    BY <1>4 DEF MatchSchema, RestoreSteps
  <2>2. pg' = pg \/ \E s \in {pg[name].schema, "same", Partial} : pg' = [pg EXCEPT ![name].schema = s]
    BY <1>4 DEF MatchSchema
  <2>3. ASSUME NEW s \in {pg[name].schema, "same", Partial}, pg' = [pg EXCEPT ![name].schema = s]
        PROVE  \E db \in Database : pg' = [pg EXCEPT ![name] = db] /\ db.data = pg[name].data
    <3> DEFINE db == [pg[name] EXCEPT !.schema = s]
    <3>1. pg[name] \in Database
      BY <2>1, Restoring
    <3>2. db \in Database /\ db.data = pg[name].data
      BY <2>3, <3>1 DEF Database, Schemas
    <3>3. pg' = [pg EXCEPT ![name] = db]
      BY <2>3
    <3> HIDE DEF db
    <3> QED BY <3>2, <3>3
  <2> QED BY <2>1, <2>2, <2>3
<1>5. CASE NoteKey
  <2>1. at = "note" /\ at \in RestoreSteps \ {"create"}
    BY <1>5 DEF NoteKey, RestoreSteps
  <2>2. pg' = pg \/ \E note \in {pg[name].note, backup.beside} : pg' = [pg EXCEPT ![name].note = note]
    BY <1>5 DEF NoteKey
  <2>3. ASSUME NEW note \in {pg[name].note, backup.beside}, pg' = [pg EXCEPT ![name].note = note]
        PROVE  \E db \in Database : pg' = [pg EXCEPT ![name] = db] /\ db.data = pg[name].data
    <3> DEFINE db == [pg[name] EXCEPT !.note = note]
    <3>1. pg[name] \in Database /\ backup \in Backup
      BY <2>1, Restoring
    <3>2. db \in Database /\ db.data = pg[name].data
      BY <2>3, <3>1 DEF Database, Backup
    <3>3. pg' = [pg EXCEPT ![name] = db]
      BY <2>3
    <3> HIDE DEF db
    <3> QED BY <3>2, <3>3
  <2> QED BY <2>1, <2>2, <2>3
<1> QED BY <1>1, <1>2, <1>3, <1>4, <1>5 DEF RestoreStep

(* What it does to ClickHouse's tables, and to what is complete.           *)
LEMMA RestoreFillsItsOwn ==
  ASSUME Inv, RestoreStep
  PROVE  /\ \A c \in ChName : c # name => ch'[c] = ch[c]
         /\ complete' = complete \/ complete' = complete \union {jobs}
         /\ at \notin Filling \ {"create"} => ch' = ch /\ complete' = complete
         /\ complete' # complete /\ ClickHouse => ch'[name] # None /\ \A t \in Table : ch'[name][t] = jobs
<1>1. CASE CreateDatabase \/ ReadArchive \/ Load \/ MatchSchema \/ NoteKey
  BY <1>1 DEF CreateDatabase, ReadArchive, Load, MatchSchema, NoteKey
<1>2. CASE CloneSchema
  <2>1. complete' = complete /\ at \in Filling \ {"create"}
    BY <1>2 DEF CloneSchema, Filling
  <2>2. ch' = ch \/ \E tables : ch' = [ch EXCEPT ![name] = tables]
    BY <1>2 DEF CloneSchema
  <2>3. \A c \in ChName : c # name => ch'[c] = ch[c]
    BY <2>2 DEF Inv, Typed, TypeOK
  <2> QED BY <2>1, <2>3
<1>3. CASE LoadTelemetry
  BY <1>3 DEF LoadTelemetry, Filling
<1>4. CASE FillTables /\ at \in {"import", "convert"} /\ ClickHouse
  <2>1. at \in Filling \ {"create"} /\ at \in RestoreSteps \ {"create"}
    BY <1>4 DEF Filling, RestoreSteps
  <2>2. CASE ch' = [ch EXCEPT ![name] = [t \in Table |-> jobs]] /\ complete' = complete \union {jobs}
    <3> DEFINE filled == [t \in Table |-> jobs]
    <3>1. filled # None /\ \A t \in Table : filled[t] = jobs
      <4>1. filled \in [Table -> Data \union {None}]
        BY <2>1, Restoring
      <4> QED BY <4>1, Nothing
    <3>2. ch' = [ch EXCEPT ![name] = filled]
      BY <2>2
    <3> HIDE DEF filled
    <3>3. ch'[name] = filled /\ \A c \in ChName : c # name => ch'[c] = ch[c]
      BY <2>1, <3>2, Restoring
    <3> QED BY <2>1, <2>2, <3>1, <3>3
  <2>3. CASE ch' \in {ch, [ch EXCEPT ![name]["ts_kv"] = jobs]} /\ complete' = complete
    BY <2>1, <2>3, Restoring
  <2> QED BY <1>4, <2>2, <2>3 DEF FillTables
<1>5. CASE ImportTables
  <2>1. at = "import" /\ FillTables /\ at \in RestoreSteps \ {"create"}
    BY <1>5 DEF ImportTables, RestoreSteps
  <2> QED BY <1>4, <2>1, Restoring
<1>6. CASE Convert
  <2>1. at = "convert"
    BY <1>6 DEF Convert
  <2>2. CASE ~ClickHouse
    BY <1>6, <2>1, <2>2 DEF Convert, Filling
  <2> QED BY <1>4, <1>6, <2>1, <2>2 DEF Convert
<1> QED BY <1>1, <1>2, <1>3, <1>5, <1>6 DEF RestoreStep

(* A restore goes on with what it made, or ends.                           *)
LEMMA RestoreGoes ==
  ASSUME Inv, RestoreStep
  PROVE  /\ UNCHANGED <<keyfile, jobs, server, wanted, opened, raced>>
         /\ at \in RestoreSteps
         /\ \/ at' = "idle"
            \/ /\ at' \in RestoreSteps \ {"create"} /\ job' = job
               /\ at' \in Filling => at \in Filling /\ complete' = complete
               /\ at = "create" => pg' # pg
<1>1. CASE CreateDatabase
  <2>1. CASE ~Exists(name) /\ pg' = [pg EXCEPT ![name] = [data |-> jobs, schema |-> Partial, key |-> None,
               note |-> None, writes |-> {}, open |-> TRUE]]
    <3> DEFINE db == [data |-> jobs, schema |-> Partial, key |-> None, note |-> None, writes |-> {}, open |-> TRUE]
    <3>1. db \in Database
      <4>1. jobs \in Data /\ Partial \in Schemas
        BY DEF Schemas, Data, Inv, Typed, TypeOK
      <4> QED BY <4>1 DEF Database
    <3>2. pg' = [pg EXCEPT ![name] = db] /\ pg[name] = None
      BY <2>1
    <3> HIDE DEF db
    <3>3. pg' # pg
      BY <3>1, <3>2, Nothing DEF Inv, Typed, TypeOK
    <3> QED BY <1>1, <3>3 DEF CreateDatabase, Goto, Return, RestoreFails, RestoreSteps, Filling
  <2>2. CASE RestoreFails
    BY <1>1, <2>2 DEF CreateDatabase, Return, RestoreFails, RestoreSteps
  <2> QED BY <1>1, <2>1, <2>2 DEF CreateDatabase
<1>2. CASE CloneSchema \/ ReadArchive \/ Load
  BY <1>2 DEF CloneSchema, ReadArchive, Load, Goto, Return, RestoreFails, RestoreSteps, Filling
<1>3. CASE LoadTelemetry \/ ImportTables \/ Convert
  BY <1>3 DEF LoadTelemetry, ImportTables, Convert, FillTables, Goto, Return, RestoreFails, RestoreSteps, Filling
<1>4. CASE MatchSchema \/ NoteKey
  BY <1>4 DEF MatchSchema, NoteKey, Goto, Return, RestoreFails, RestoreSteps, Filling
<1> QED BY <1>1, <1>2, <1>3, <1>4 DEF RestoreStep

LEMMA RestoreTogether ==
  ASSUME Inv, Together, RestoreStep, UNCHANGED kind, Undisturbed
  PROVE  Together'
<1>1. /\ UNCHANGED <<kind, jobs, server, wanted>> /\ at \in RestoreSteps
      /\ \/ at' = "idle"
         \/ /\ at' \in RestoreSteps \ {"create"} /\ job' = job
            /\ at' \in Filling => at \in Filling /\ complete' = complete
            /\ at = "create" => pg' # pg
  BY RestoreGoes
<1>2. /\ pg \in [Name -> Database \union {None}] /\ pg' \in [Name -> Database \union {None}]
      /\ name \in Name
  BY RestoreKeeps DEF Inv, Typed, TypeOK
<1> DEFINE h == Holding(pg)
           g == Holding(pg')
<1>3. g \in [Name -> Data \union {None}] /\ h \in [Name -> Data \union {None}]
  BY <1>2, HoldingTyped
<1>4. pg' = pg \/ \E db \in Database : /\ pg' = [pg EXCEPT ![name] = db]
                                       /\ db.data = IF at = "create" THEN jobs ELSE pg[name].data
  BY RestoreWritesItsOwn
<1>5. \A n \in Name : n # name => g[n] = h[n]
  BY <1>2, <1>4 DEF Holding
<1>6. at # "create" => h[name] = jobs /\ pg[name] # None
  <2>1. at # "create" => h[name] = jobs
    BY <1>1 DEF Together, Fresh, RestoreSteps, SwitchSteps
  <2>2. at # "create" => pg[name] # None
    BY <1>1, Restoring, Nothing
  <2> QED BY <2>1, <2>2
<1>7. pg' = pg \/ g[name] = jobs
  <2>1. ASSUME NEW db \in Database, pg' = [pg EXCEPT ![name] = db],
               db.data = IF at = "create" THEN jobs ELSE pg[name].data
        PROVE  g[name] = jobs
    <3>1. pg'[name] = db /\ db # None
      BY <1>2, <2>1, Nothing
    <3>2. g[name] = db.data
      BY <1>2, <3>1 DEF Holding
    <3>3. at # "create" => h[name] = pg[name].data
      BY <1>2, <1>6 DEF Holding
    <3> QED BY <1>6, <2>1, <3>2, <3>3
  <2> QED BY <1>4, <2>1
<1>8. g[name] = jobs \/ g[name] = h[name]
  BY <1>7
<1>9. \/ at' = "idle"
      \/ at' \in RestoreSteps \ {"create"} /\ name' = name /\ g[name] = jobs
         /\ (at' \in Filling => at \in Filling /\ complete' = complete)
  BY <1>1, <1>6, <1>7
<1>10. h = Holding(pg) /\ g = Holding(pg')
  OBVIOUS
<1> HIDE DEF h, g
<1> QED BY <1>1, <1>3, <1>5, <1>8, <1>9, <1>10, RestoreFillsItsOwn, RestoreMovesTogether

(* A job begins: nobody has its data yet, and it notes what there is.      *)
LEMMA BeginsTogether ==
  ASSUME Inv, Together, UNCHANGED kind, Undisturbed, Job
  PROVE  Together'
<1>1. /\ at = "idle" /\ jobs' = jobs + 1 /\ at' \in {"create", "plan"}
      /\ UNCHANGED <<kind, pg, ch, wanted, server, complete>>
      /\ at' = "plan" => was' = Stand
  <2>1. ASSUME NEW target \in Targets, NEW b \in Backups, BeginRestore(target, b)
        PROVE  /\ at = "idle" /\ jobs' = jobs + 1 /\ at' \in {"create", "plan"}
               /\ UNCHANGED <<kind, pg, ch, wanted, server, complete>>
               /\ at' = "plan" => was' = Stand
    BY <2>1 DEF BeginRestore, GotoWith
  <2>2. ASSUME NEW n \in Name, BeginSwitch(n)
        PROVE  /\ at = "idle" /\ jobs' = jobs + 1 /\ at' \in {"create", "plan"}
               /\ UNCHANGED <<kind, pg, ch, wanted, server, complete>>
               /\ at' = "plan" => was' = Stand
    <3>1. at' = "plan" /\ was' = Stand
      BY <2>2, BeginPlans
    <3> QED BY <2>2, <3>1 DEF BeginSwitch
  <2> QED BY <2>1, <2>2 DEF Job
<1>2. /\ complete \subseteq 0..jobs /\ Serving(Holding(pg)) /\ Sound(Holding(pg), ch)
  BY <1>1 DEF Together, SwitchSteps
<1>3. jobs \in Nat /\ 0..jobs \subseteq 0..jobs' /\ jobs' \notin 0..jobs
  BY <1>1, RestoreAssumption DEF Inv, Typed, TypeOK
<1>4. Holding(pg)' = Holding(pg)
  BY <1>1 DEF Holding
<1>5. \A n \in Name : Holding(pg)[n] # jobs'
  <2>1. None # jobs'
    <3>1. jobs < MaxJobs
      <4>1. ASSUME NEW n, BeginSwitch(n) PROVE jobs < MaxJobs
        BY <4>1 DEF BeginSwitch
      <4>2. ASSUME NEW target, NEW b, BeginRestore(target, b) PROVE jobs < MaxJobs
        BY <4>2 DEF BeginRestore
      <4> QED BY <4>1, <4>2 DEF Job
    <3>2. jobs' \in Data
      BY <1>1, <1>3, <3>1, RestoreAssumption DEF Data
    <3> QED BY <3>2, Nothing
  <2> QED BY <1>2, <1>3, <2>1 DEF Sound
<1>6. Serving(Holding(pg))'
  BY <1>1, <1>2, <1>4 DEF Serving, Stopped
<1>7. Sound(Holding(pg), ch)'
  BY <1>1, <1>2, <1>3, <1>4 DEF Sound
<1>8. Fresh(Holding(pg))'
  BY <1>1, <1>2, <1>3, <1>4, <1>5 DEF Fresh, RestoreSteps
<1>9. at' = "plan" => was'.data = Holding(pg) /\ was'.ch = ch
  BY <1>1 DEF Stand, Holding
<1>10. at' = "plan" => Sound(was.data, was.ch)'
  BY <1>1, <1>2, <1>3, <1>9 DEF Sound
<1> QED BY <1>1, <1>2, <1>3, <1>6, <1>7, <1>8, <1>10 DEF Together, SwitchSteps, Stopped

(* SENTIENT is answering on what a switch put in place: that belongs        *)
(* together as what it replaced did.                                        *)
LEMMA SwitchedSound ==
  ASSUME Inv, Undoable, Together, Undisturbed, at = "wait"
  PROVE  Sound(Holding(pg), ch)
<1>1. /\ WasTyped /\ Arranged("wait", Holding(pg), LetIn(pg)) /\ Swapped(ch, Moved("wait"))
      /\ aside \in Aside /\ complete \subseteq 0..jobs /\ Sound(was.data, was.ch)
  BY DEF Undoable, Together, Undisturbed, SwitchSteps
<1> DEFINE h == Holding(pg)
<1>2. /\ h = [was.data EXCEPT ![Live] = was.data[name], ![name] = None, ![aside] = was.data[Live]]
      /\ was.data[Live] # None /\ was.data[aside] = None /\ name # Live /\ was.data[name] # None
  BY <1>1 DEF Arranged, Set, Replaced
<1>3. /\ Live \in Name /\ name \in Name /\ aside \in Name /\ aside \notin ChName /\ aside # Live
      /\ ChName \subseteq Name /\ Live \in ChName
  <2>1. Live \notin Aside
    BY DEF Live, Aside
  <2>2. aside \notin {Live} \union Targets
    BY <1>1, <2>1, RestoreAssumption
  <2> QED BY <2>2, Names DEF Inv, Typed, TypeOK, ChName
<1>4. /\ h[Live] = was.data[name] /\ h[name] = None /\ h[aside] = was.data[Live]
      /\ \A n \in Name \ {Live, name, aside} : h[n] = was.data[n]
  BY <1>1, <1>2, <1>3 DEF WasTyped
<1>5. None \notin complete
  BY Nothing DEF Inv, Typed, TypeOK
<1> HIDE DEF h
<1>6. \A n \in Name : h[n] # None => h[n] \in 0..jobs
  BY <1>1, <1>3, <1>4 DEF Sound
<1>7. \A m, n \in Name : h[m] # None /\ h[m] = h[n] => m = n
  BY <1>1, <1>2, <1>3, <1>4 DEF Sound
<1>8. ASSUME ClickHouse, NEW n \in ChName, h[n] \in complete
      PROVE  ch[n] # None /\ \A t \in Table : ch[n][t] = h[n]
  <2>1. n # name /\ n # aside /\ n \in Name
    BY <1>3, <1>4, <1>5, <1>8
  <2>2. Moved("wait") = Table
    BY <1>8 DEF Moved, AllExchanged
  <2>3. CASE n = Live
    <3>1. name \in ChName /\ ch[Live] # None
      BY <1>1, <1>8 DEF WasTyped, Inv, Tabled
    <3>2. \A t \in Table : was.ch[name][t] = was.data[name]
      BY <1>1, <1>4, <1>8, <2>3, <3>1 DEF Sound
    <3>3. \A t \in Table : ch[Live][t] = was.ch[name][t]
      BY <1>1, <1>8, <2>2 DEF Swapped
    <3> QED BY <1>4, <2>3, <3>1, <3>2, <3>3
  <2>4. CASE n # Live
    <3>1. ch[n] = was.ch[n] /\ h[n] = was.data[n]
      BY <1>1, <1>4, <2>1, <2>4 DEF Swapped
    <3> QED BY <1>1, <1>8, <3>1 DEF Sound
  <2> QED BY <2>3, <2>4
<1> QED BY <1>6, <1>7, <1>8 DEF Sound, h

(* A switch changes what is in service while SENTIENT is stopped.          *)
LEMMA SwitchServes ==
  ASSUME Inv, SwitchStep, Undisturbed, Undisturbed'
  PROVE  /\ server' \in {server, None}
         /\ at' \in Stopped => (at \in Stopped /\ UNCHANGED <<server, wanted>>) \/ (server' = None /\ ~wanted')
         /\ pg' # pg => at \in Stopped
<1>1. CASE PlanSwitch
  BY <1>1 DEF PlanSwitch, Goto, GotoWith, Stopped
<1>2. CASE StopSentient
  BY <1>2 DEF StopSentient, Goto, GotoWith, Stopped
<1>3. ASSUME NEW from, NEW to, NEW step \in Stopped, NEW then, NEW otherwise,
             RenameStep(step, from, to, then, otherwise)
      PROVE  at \in Stopped /\ UNCHANGED <<server, wanted>>
  BY <1>3 DEF RenameStep
<1>4. CASE \/ SetLiveAside \/ PutRestored \/ PutLiveBack \/ UndoName("p_name", "p_aside")
           \/ UndoAside("p_aside") \/ UndoName("u_name", "u_aside") \/ UndoAside("u_aside")
  <2>1. {"aside", "put", "put_back", "p_name", "p_aside", "u_name", "u_aside"} \subseteq Stopped
    BY DEF Stopped
  <2> QED BY <1>3, <1>4, <2>1 DEF SetLiveAside, PutRestored, PutLiveBack, UndoName, UndoAside
<1>5. CASE ExchangeTables \/ ExchangeAgain \/ ExchangeBack
  BY <1>5 DEF ExchangeTables, ExchangeAgain, ExchangeBack, Exchange, Stopped
<1>6. CASE InstallKey \/ PutKeyBack
  BY <1>6 DEF InstallKey, PutKeyBack, Stopped
<1>7. CASE StartSentient \/ Wait \/ Restart
  BY <1>7 DEF StartSentient, Wait, Restart, Goto, Return, Stopped
<1>8. CASE StopAgain
  <2>1. Works
    <3>1. ~undoFailed' /\ undoFailed \in BOOLEAN
      BY DEF Undisturbed, Inv, Typed, TypeOK
    <3>2. ~Fails
      BY <1>8, <3>1 DEF StopAgain, Fails, FailsWhile, UndoSteps
    <3> QED BY <1>8, <3>2 DEF StopAgain
  <2>2. (wanted' = FALSE /\ server' = None) \/ (Fails /\ UNCHANGED <<server, wanted>>)
    BY <1>8 DEF StopAgain
  <2>3. ~Fails
    <3>1. ~undoFailed' /\ undoFailed \in BOOLEAN
      BY DEF Undisturbed, Inv, Typed, TypeOK
    <3> QED BY <1>8, <3>1 DEF StopAgain, Fails, FailsWhile, UndoSteps
  <2> QED BY <1>8, <2>2, <2>3 DEF StopAgain
<1> QED BY <1>1, <1>2, <1>4, <1>5, <1>6, <1>7, <1>8 DEF SwitchStep

(* What the job of a switch keeps, while it goes on.                       *)
LEMMA SwitchGoes ==
  ASSUME Inv, SwitchStep
  PROVE  /\ at \in SwitchSteps /\ UNCHANGED <<jobs, complete, raced>>
         /\ Restart \/ (at = "wait" /\ at' = "idle" /\ UNCHANGED <<pg, ch, server, wanted, keyfile>>)
              \/ (at' \in SwitchSteps /\ UNCHANGED <<name, was>>)
         /\ at' \in Stopped \union {"wait", "u_stop"} =>
              (at \in Stopped \union {"wait", "u_stop"} /\ aside' = aside) \/ aside' \in Aside
<1>0. minute \in 0..MaxMinute /\ DOMAIN job = Fields
  BY DEF Inv, Typed, TypeOK
<1>1. CASE PlanSwitch
  <2>1. at' = "stop" /\ UNCHANGED <<name, was>>
    <3>1. CASE Goto("stop")
      BY <3>1 DEF Goto
    <3>2. CASE GotoWith("stop", [job EXCEPT !.said = "installed",
                              !.key = [new |-> Merged(pg[name].note, keyfile), previous |-> keyfile]])
      BY <1>0, <3>2 DEF GotoWith, Fields
    <3>3. CASE \E it \in {"missing", "unchecked"} : GotoWith("stop", [job EXCEPT !.said = it])
      BY <1>0, <3>3 DEF GotoWith, Fields
    <3> QED BY <1>1, <3>1, <3>2, <3>3 DEF PlanSwitch
  <2> QED BY <1>1, <2>1 DEF PlanSwitch, SwitchSteps, Stopped
<1>2. CASE StopSentient
  <2>1. CASE Goto("restart")
    BY <1>2, <2>1 DEF StopSentient, Goto, SwitchSteps, Stopped
  <2>2. CASE GotoWith("aside", [job EXCEPT !.aside = <<"before_restore", minute>>])
    <3>1. aside' \in Aside /\ at' = "aside" /\ UNCHANGED <<name, was>>
      BY <1>0, <2>2 DEF Aside, GotoWith, Fields
    <3> QED BY <1>2, <3>1 DEF StopSentient, SwitchSteps
  <2> QED BY <1>2, <2>1, <2>2 DEF StopSentient
<1>3. ASSUME NEW from, NEW to, NEW step \in Stopped, NEW then \in Stopped \union {"restart"},
             NEW otherwise \in Stopped \union {"restart"}, RenameStep(step, from, to, then, otherwise)
      PROVE  at \in Stopped /\ at' \in Stopped \union {"restart"} /\ UNCHANGED <<job, jobs, complete, raced>>
  BY <1>3 DEF RenameStep, Rename, Goto
<1>4. CASE \/ SetLiveAside \/ PutRestored \/ PutLiveBack \/ UndoName("p_name", "p_aside")
           \/ UndoAside("p_aside") \/ UndoName("u_name", "u_aside") \/ UndoAside("u_aside")
  <2>1. /\ {"aside", "put", "put_back", "p_name", "p_aside", "u_name", "u_aside"} \subseteq Stopped
        /\ AfterRename \in Stopped /\ Stopped \subseteq SwitchSteps /\ "restart" \in SwitchSteps
        /\ "restart" \notin Stopped
    BY DEF Stopped, AfterRename, SwitchSteps
  <2>2. at \in Stopped /\ at' \in Stopped \union {"restart"} /\ UNCHANGED <<job, jobs, complete, raced>>
    BY <1>3, <1>4, <2>1 DEF SetLiveAside, PutRestored, PutLiveBack, UndoName, UndoAside
  <2> QED BY <2>1, <2>2
<1>5. ASSUME NEW step \in {"exchange", "again", "u_exchange"}, NEW then \in Stopped, NEW otherwise \in Stopped,
             Exchange(step, then, otherwise)
      PROVE  at \in Stopped /\ at' \in Stopped /\ UNCHANGED <<name, was, aside, jobs, complete, raced>>
  <2>1. at = step /\ step \in Stopped /\ UNCHANGED <<jobs, complete, raced>>
    BY <1>5 DEF Exchange, Stopped
  <2>2. PICK where \in {then, at, otherwise}, i \in {1, pos + 1} : GotoWith(where, [job EXCEPT !.pos = i])
    BY <1>5 DEF Exchange
  <2>3. at' = where /\ UNCHANGED <<name, was, aside>>
    BY <1>0, <2>2 DEF GotoWith, Fields
  <2> QED BY <2>1, <2>2, <2>3
<1>6. CASE ExchangeTables \/ ExchangeAgain \/ ExchangeBack
  <2>1. at \in Stopped /\ at' \in Stopped /\ UNCHANGED <<name, was, aside, jobs, complete, raced>>
    BY <1>5, <1>6 DEF ExchangeTables, ExchangeAgain, ExchangeBack, Stopped
  <2> QED BY <2>1 DEF Stopped, SwitchSteps
<1>7. CASE InstallKey
  <2>1. at' = "start" /\ UNCHANGED <<name, was, aside>>
    BY <1>0, <1>7 DEF InstallKey, Goto, GotoWith, Fields
  <2> QED BY <1>7, <2>1 DEF InstallKey, Stopped, SwitchSteps
<1>8. CASE StartSentient \/ StopAgain
  BY <1>8 DEF StartSentient, StopAgain, Goto, Stopped, SwitchSteps
<1>11. CASE PutKeyBack
  <2>1. at = "u_key" /\ at' \in {"u_exchange", "u_name"} /\ UNCHANGED <<job, jobs, complete, raced>>
    BY <1>11 DEF PutKeyBack, Goto
  <2> QED BY <2>1 DEF Stopped, SwitchSteps
<1>9. CASE Wait
  BY <1>9 DEF Wait, Goto, Return, Stopped, SwitchSteps
<1>10. CASE Restart
  BY <1>10 DEF Restart, Return, Stopped, SwitchSteps
<1> QED BY <1>1, <1>2, <1>4, <1>6, <1>7, <1>8, <1>9, <1>10, <1>11 DEF SwitchStep

LEMMA SwitchTogether ==
  ASSUME Inv, Undoable, Together, UNCHANGED kind, Undisturbed, Undisturbed', SwitchStep
  PROVE  Together'
<1>1. /\ at \in SwitchSteps /\ UNCHANGED <<jobs, complete>>
      /\ Restart \/ (at = "wait" /\ at' = "idle" /\ UNCHANGED <<pg, ch, server, wanted>>)
           \/ (at' \in SwitchSteps /\ UNCHANGED was)
      /\ at' \in Stopped \union {"wait", "u_stop"} =>
           (at \in Stopped \union {"wait", "u_stop"} /\ aside' = aside) \/ aside' \in Aside
  BY SwitchGoes
<1>2. /\ complete \subseteq 0..jobs /\ Serving(Holding(pg)) /\ Sound(was.data, was.ch)
      /\ at \in Stopped \union {"wait", "u_stop"} => aside \in Aside
  BY <1>1 DEF Together
<1>3. Serving(Holding(pg))'
  <2>1. CASE pg' = pg
    <3>1. Holding(pg)' = Holding(pg)
      BY <2>1 DEF Holding
    <3> QED BY <1>2, <3>1, SwitchServes DEF Serving
  <2>2. CASE pg' # pg
    BY <1>2, <2>2, SwitchServes DEF Serving
  <2> QED BY <2>1, <2>2
<1>4. at' \in Stopped \union {"wait", "u_stop"} => aside' \in Aside
  BY <1>1, <1>2
<1>5. CASE at' \in SwitchSteps /\ UNCHANGED was
  <2>1. Sound(was.data, was.ch)'
    BY <1>1, <1>2, <1>5 DEF Sound
  <2> QED BY <1>1, <1>2, <1>3, <1>4, <1>5, <2>1 DEF Together
<1>6. CASE at' = "idle" /\ UNCHANGED <<pg, ch>> /\ at \in {"restart", "wait"}
  <2>1. Sound(Holding(pg), ch)
    <3>1. CASE at = "wait"
      BY <3>1, SwitchedSound
    <3>2. CASE at = "restart"
      BY <1>2, <3>2, AsBefore DEF Undisturbed
    <3> QED BY <1>6, <3>1, <3>2
  <2>2. Holding(pg)' = Holding(pg)
    BY <1>6 DEF Holding
  <2>3. Sound(Holding(pg), ch)'
    BY <1>1, <1>6, <2>1, <2>2 DEF Sound
  <2>4. Fresh(Holding(pg))'
    BY <1>6 DEF Fresh, RestoreSteps, Filling
  <2> QED BY <1>1, <1>2, <1>3, <1>4, <1>6, <2>3, <2>4 DEF Together, SwitchSteps
<1>7. Restart => at' = "idle" /\ UNCHANGED <<pg, ch>> /\ at \in {"restart", "wait"}
  BY DEF Restart, Return
<1> QED BY <1>1, <1>5, <1>6, <1>7

(* SENTIENT at work: what there is stays where it is.                      *)
LEMMA LiveTogether ==
  ASSUME Inv, Together, UNCHANGED kind, Undisturbed, Boot \/ Write \/ \E k \in Keys : Rotate(k)
  PROVE  Together'
<1>1. UNCHANGED <<Holding(pg), ch, at, job, jobs, complete, wanted>> /\ pg[Live] \in Database
  BY LiveHolding
<1>2. Live \in Name /\ pg[Live] # None
  BY <1>1, Nothing, Names
<1>3. UNCHANGED server \/ (wanted /\ server' = Holding(pg)[Live])
  BY <1>2 DEF Boot, Write, Rotate, Holding
<1>4. Serving(Holding(pg)) => Serving(Holding(pg))'
  BY <1>1, <1>3 DEF Serving
<1>5. Sound(Holding(pg), ch) => Sound(Holding(pg), ch)'
  BY <1>1 DEF Sound
<1>6. Fresh(Holding(pg)) => Fresh(Holding(pg))'
  BY <1>1 DEF Fresh
<1>7. Sound(was.data, was.ch) => Sound(was.data, was.ch)'
  BY <1>1 DEF Sound
<1> QED BY <1>1, <1>4, <1>5, <1>6, <1>7 DEF Together

LEMMA TogetherKept ==
  ASSUME Inv, Undoable, Together, [Next]_vars
  PROVE  Together'
<1> SUFFICES ASSUME Undisturbed' PROVE Together'
  BY DEF Together
<1>1. Undisturbed /\ (at # "idle" => ~Crash)
  BY Calm
<1>2. CASE UNCHANGED <<pg, ch, at, job, jobs, complete, wanted, server, kind>>
  <2>1. Holding(pg)' = Holding(pg)
    BY <1>2 DEF Holding
  <2> QED BY <1>1, <1>2, <2>1 DEF Together, Serving, Sound, Fresh
<1>3. CASE UNCHANGED vars
  BY <1>2, <1>3 DEF vars
<1>4. CASE Next
  <2>1. UNCHANGED kind
    BY <1>4 DEF Next
  <2>2. CASE Tick
    BY <1>2, <2>1, <2>2 DEF Tick
  <2>3. ~Crash
    BY <1>1 DEF Crash
  <2> QED BY <1>1, <1>4, <2>1, <2>2, <2>3, BeginsTogether, RestoreTogether, SwitchTogether, LiveTogether
          DEF Next, Environment
<1> QED BY <1>3, <1>4

LEMMA TogetherAlways ==
  ASSUME NoTransient
  PROVE  Spec => []Together
<1>1. Init => Together
  <2> SUFFICES ASSUME Init PROVE Together
    OBVIOUS
  <2>1. /\ at = "idle" /\ complete = {0} /\ jobs = 0 /\ server = 0 /\ 0 \in Data
    BY RestoreAssumption DEF Init, Data
  <2>2. /\ Holding(pg)[Live] = 0 /\ \A n \in Name \ {Live} : Holding(pg)[n] = None
    <3>1. \A n \in Name \ {Live} : pg[n] = None
      BY DEF Init
    <3>2. pg[Live].data = 0 /\ pg[Live] # None
      <4>1. pg[Live] = [data |-> 0, schema |-> "same", key |-> FirstKey, note |-> None,
                        writes |-> {}, open |-> TRUE]
        BY Names DEF Init
      <4>2. pg[Live] \in Database /\ pg[Live].data = 0
        BY <2>1, <4>1, RestoreAssumption DEF Database, Schemas
      <4> QED BY <4>2, Nothing
    <3> QED BY <3>1, <3>2, Names DEF Holding
  <2>3. None # 0
    BY <2>1, Nothing
  <2>4. ClickHouse => ch[Live] = [t \in Table |-> 0] /\ ch[Live] # None
    <3>1. ClickHouse => ch[Live] = [t \in Table |-> 0]
      BY Names DEF Init
    <3>2. [t \in Table |-> 0] \in [Table -> Data \union {None}]
      BY <2>1
    <3> QED BY <3>1, <3>2, Nothing
  <2>5. Sound(Holding(pg), ch)
    <3>1. \A n \in ChName : n = Live \/ n \in Name \ {Live}
      BY Names
    <3> QED BY <2>1, <2>2, <2>3, <2>4, <3>1, Names DEF Sound
  <2> QED BY <2>1, <2>2, <2>5 DEF Together, Serving, Fresh, Stopped, RestoreSteps, SwitchSteps, Filling
<1>2. Inv /\ Undoable /\ Together /\ [Next]_vars => Together'
  BY TogetherKept
<1> QED BY <1>1, <1>2, InvAlways, UndoableAlways, PTL DEF Spec

(* When no job runs SENTIENT works on one installation's data: its          *)
(* PostgreSQL database and both ClickHouse tables belong together, whatever *)
(* was restored and switched, and whatever of it failed (restore_switch.rs, *)
(* ch_exchange and its undoing).                                            *)
THEOREM MatchedIsInService ==
  ASSUME NoTransient
  PROVE  Spec => []MatchedInService
<1>1. Inv /\ Together => MatchedInService
  <2> SUFFICES ASSUME Inv, Together, at = "idle", server # None, Undisturbed
               PROVE  /\ Exists(Live) /\ server = pg[Live].data
                      /\ ClickHouse /\ server \in complete => \A t \in Table : ch[Live][t] = server
    BY DEF MatchedInService
  <2>1. Serving(Holding(pg)) /\ Sound(Holding(pg), ch)
    BY DEF Together, SwitchSteps
  <2>2. Live \in Name /\ Live \in ChName
    BY Names
  <2>3. Holding(pg)[Live] = server
    BY <2>1 DEF Serving
  <2>4. Exists(Live) /\ server = pg[Live].data
    BY <2>2, <2>3 DEF Holding
  <2> QED BY <2>1, <2>2, <2>3, <2>4 DEF Sound
<1> QED BY <1>1, InvAlways, TogetherAlways, PTL

----------------------------------------------------------------------------
(* The keys: what is to be opened is opened by the key file there was when  *)
(* the switch began, and what the switch puts in service by the one it      *)
(* writes.  Nothing is to be opened of data a restore still makes.         *)
OpenedBy(file) ==
  \A n \in Name : pg[n] # None /\ pg[n].data \in opened => pg[n].key \in {None} \union KeysOf(file)
Putting == {"stop", "aside", "put"}
PutIn == {"exchange", "install", "start", "wait", "u_stop"}
KeyPlanned(k) ==
  /\ said = "nothing" => key = NoKeyChange /\ k \in {None} \union KeysOf(was.keyfile)
  /\ said = "installed" => key # NoKeyChange /\ k \in KeysOf(key.new)
  /\ key # NoKeyChange => k # None /\ KeysOf(was.keyfile) \subseteq KeysOf(key.new)
KeyOpens ==
  Undisturbed /\ ~raced =>
    /\ opened \subseteq 0..jobs
    /\ at \in RestoreSteps => jobs \notin opened
    /\ at \notin SwitchSteps => OpenedBy(keyfile)
    /\ at = "plan" => key = NoKeyChange /\ said = "nothing"
    /\ at \in SwitchSteps => OpenedBy(was.keyfile)
    /\ at \in Putting => KeyPlanned(pg[name].key)
    /\ at \in PutIn => KeyPlanned(pg[Live].key)
    /\ at \in {"start", "wait"} /\ said = "installed" => keyfile = key.new

(* Whatever is under a name was there before, with its key.                *)
LEMMA OpenedStill ==
  ASSUME NEW file, OpenedBy(file), opened' = opened,
         \A n \in Name : pg'[n] # None =>
           \E m \in Name : pg[m] # None /\ pg'[n].data = pg[m].data /\ pg'[n].key = pg[m].key
  PROVE  \A n \in Name : pg'[n] # None /\ pg'[n].data \in opened' => pg'[n].key \in {None} \union KeysOf(file)
BY DEF OpenedBy

(* A rename takes the key with the data.                                   *)
LEMMA RenamedKeys ==
  ASSUME Inv, NEW step, NEW from \in Name, NEW to \in Name, NEW then, NEW otherwise,
         RenameStep(step, from, to, then, otherwise)
  PROVE  /\ \A n \in Name : pg'[n] # None =>
              \E m \in Name : pg[m] # None /\ pg'[n].data = pg[m].data /\ pg'[n].key = pg[m].key
         /\ \A n \in Name \ {from} : pg[n] # None => pg'[n] = pg[n]
         /\ at' = then /\ then # otherwise => pg[from] # None /\ pg'[to].key = pg[from].key
<1>1. pg \in [Name -> Database \union {None}]
  BY DEF Inv, Typed, TypeOK
<1>2. ASSUME NEW done \in BOOLEAN, NEW letIn \in BOOLEAN, pg[from] # None, done => pg[to] = None,
             pg' = Renamed(from, to, done, letIn)
      PROVE  /\ \A n \in Name : pg'[n] # None =>
                  \E m \in Name : pg[m] # None /\ pg'[n].data = pg[m].data /\ pg'[n].key = pg[m].key
             /\ \A n \in Name \ {from} : pg[n] # None => pg'[n] = pg[n]
             /\ done => pg'[to].key = pg[from].key
  <2> DEFINE moved == [pg[from] EXCEPT !.open = letIn]
  <2>1. moved.data = pg[from].data /\ moved.key = pg[from].key
    BY <1>1, <1>2 DEF Database
  <2>2. CASE done
    <3>1. pg' = [pg EXCEPT ![to] = moved, ![from] = None] /\ from # to
      BY <1>2, <2>2 DEF Renamed
    <3> HIDE DEF moved
    <3>2. pg'[to] = moved /\ pg'[from] = None /\ \A n \in Name \ {from, to} : pg'[n] = pg[n]
      BY <1>1, <3>1
    <3> QED BY <1>2, <2>1, <2>2, <3>2
  <2>3. CASE ~done
    <3>1. pg' = [pg EXCEPT ![from] = moved]
      BY <1>2, <2>3 DEF Renamed
    <3> HIDE DEF moved
    <3>2. pg'[from] = moved /\ \A n \in Name \ {from} : pg'[n] = pg[n]
      BY <1>1, <3>1
    <3> QED BY <1>2, <2>1, <2>3, <3>2
  <2> QED BY <2>2, <2>3
<1>3. Rename(from, to, then, otherwise)
  BY DEF RenameStep
<1>4. \A where : Goto(where) => at' = where
  BY DEF Goto
<1>5. CASE \E letIn \in BOOLEAN : Exists(from) /\ pg' = Renamed(from, to, ~Exists(to), letIn)
                                    /\ Goto(IF ~Exists(to) THEN then ELSE otherwise)
  BY <1>2, <1>4, <1>5
<1>6. CASE Exists(from) /\ pg' = Renamed(from, to, FALSE, TRUE) /\ Goto(otherwise)
  BY <1>2, <1>4, <1>6
<1>7. CASE UNCHANGED pg /\ Goto(otherwise)
  BY <1>4, <1>7
<1> QED BY <1>3, <1>5, <1>6, <1>7 DEF Rename

(* A job begins: it is opened what was.                                    *)
LEMMA BeginsOpening ==
  ASSUME Inv, KeyOpens, UNCHANGED kind, Undisturbed, ~raced, Job
  PROVE  KeyOpens'
<1>1. ASSUME NEW target, NEW b, BeginRestore(target, b)
      PROVE  /\ at = "idle" /\ jobs' = jobs + 1 /\ at' = "create"
             /\ UNCHANGED <<pg, keyfile, opened>>
  BY <1>1 DEF BeginRestore, GotoWith
<1>2. ASSUME NEW n, BeginSwitch(n)
      PROVE  /\ at = "idle" /\ jobs' = jobs + 1 /\ at' = "plan" /\ UNCHANGED <<pg, keyfile, opened>>
             /\ key' = NoKeyChange /\ said' = "nothing" /\ was'.keyfile = keyfile
  <2>1. at' = "plan" /\ key' = NoKeyChange /\ said' = "nothing" /\ was' = Stand
    BY <1>2, BeginPlans
  <2> QED BY <1>2, <2>1 DEF BeginSwitch, Stand
<1>3. /\ at = "idle" /\ jobs' = jobs + 1 /\ UNCHANGED <<pg, keyfile, opened>>
      /\ at' = "create" \/ (at' = "plan" /\ key' = NoKeyChange /\ said' = "nothing" /\ was'.keyfile = keyfile)
  BY <1>1, <1>2 DEF Job
<1>4. opened \subseteq 0..jobs /\ OpenedBy(keyfile)
  BY <1>3 DEF KeyOpens, SwitchSteps
<1>5. opened' \subseteq 0..jobs' /\ jobs' \notin opened'
  <2>1. jobs \in Nat
    BY RestoreAssumption DEF Inv, Typed, TypeOK
  <2> QED BY <1>3, <1>4, <2>1
<1>6. OpenedBy(keyfile)' /\ (at' = "plan" => OpenedBy(was.keyfile)')
  BY <1>3, <1>4 DEF OpenedBy
<1> QED BY <1>3, <1>5, <1>6 DEF KeyOpens, RestoreSteps, SwitchSteps, Putting, PutIn

(* A restore makes data that are not to be opened.                         *)
LEMMA RestoreOpening ==
  ASSUME Inv, Together, KeyOpens, UNCHANGED kind, Undisturbed, ~raced, RestoreStep
  PROVE  KeyOpens'
<1>1. /\ UNCHANGED <<keyfile, jobs, opened>> /\ at \in RestoreSteps /\ at' \in {"idle"} \union RestoreSteps
  BY RestoreGoes
<1>2. opened \subseteq 0..jobs /\ jobs \notin opened /\ OpenedBy(keyfile)
  BY <1>1 DEF KeyOpens, RestoreSteps, SwitchSteps
<1>3. pg \in [Name -> Database \union {None}] /\ name \in Name
  BY DEF Inv, Typed, TypeOK
<1>4. at # "create" => pg[name].data = jobs
  <2>1. at # "create" => Holding(pg)[name] = jobs /\ pg[name] # None
    BY <1>1, Restoring, Nothing DEF Together, Fresh, RestoreSteps, SwitchSteps
  <2> QED BY <1>3, <2>1 DEF Holding
<1>5. OpenedBy(keyfile)'
  <2>1. CASE pg' = pg
    BY <1>1, <1>2, <2>1 DEF OpenedBy
  <2>2. ASSUME NEW db \in Database, pg' = [pg EXCEPT ![name] = db],
               db.data = IF at = "create" THEN jobs ELSE pg[name].data
        PROVE  OpenedBy(keyfile)'
    <3>1. pg'[name].data = jobs /\ \A n \in Name \ {name} : pg'[n] = pg[n]
      BY <1>3, <1>4, <2>2
    <3> QED BY <1>1, <1>2, <3>1 DEF OpenedBy
  <2> QED BY <2>1, <2>2, RestoreWritesItsOwn
<1> QED BY <1>1, <1>2, <1>5 DEF KeyOpens, RestoreSteps, SwitchSteps, Putting, PutIn

(* SENTIENT at work: it seals a new database with the key in use, and a     *)
(* rotation seals everything in service anew.                              *)
LEMMA LiveOpening ==
  ASSUME Inv, Undoable, Together, KeyOpens, UNCHANGED kind, Undisturbed, ~raced',
         Boot \/ Write \/ \E k \in Keys : Rotate(k)
  PROVE  KeyOpens'
<1>1. UNCHANGED <<Holding(pg), at, job, jobs>> /\ pg[Live] \in Database
      /\ \A n \in Name \ {Live} : pg'[n] = pg[n]
  BY LiveHolding
<1>2. Live \in Name /\ pg[Live] # None /\ pg \in [Name -> Database \union {None}] /\ raced \in BOOLEAN
      /\ keyfile \in KeyFile
  BY <1>1, Nothing, Names DEF Inv, Typed, TypeOK
<1>3. ~raced
  BY <1>2 DEF Boot, Write, Rotate
<1>4. at \in SwitchSteps => name # Live /\ KeyAsPlanned(at, keyfile)
  BY DEF Undoable, Arranged, Undisturbed
<1>5. at \in Stopped => ~wanted
  BY DEF Together, Serving
<1>6. CASE Boot \/ Write
  <2>1. /\ UNCHANGED <<keyfile, opened>> /\ pg'[Live].data = pg[Live].data
        /\ pg'[Live].key = pg[Live].key
             \/ (pg[Live].key = None /\ pg'[Live].key = keyfile.now /\ at \notin Stopped)
    <3>1. CASE Boot
      <4> DEFINE k == IF pg[Live].key = None THEN keyfile.now ELSE pg[Live].key
                 db == [pg[Live] EXCEPT !.schema = "same", !.key = k]
      <4>1. pg' = [pg EXCEPT ![Live] = db]
        BY <1>1, <1>2, <3>1 DEF Boot, Database
      <4>2. db.data = pg[Live].data /\ db.key = k
        BY <1>1 DEF Database
      <4>3. pg'[Live].data = pg[Live].data /\ pg'[Live].key = k
        BY <1>2, <4>1, <4>2
      <4>4. UNCHANGED <<keyfile, opened>> /\ wanted
        BY <3>1 DEF Boot
      <4> QED BY <1>5, <4>3, <4>4
    <3>2. CASE Write
      <4> DEFINE db == [pg[Live] EXCEPT !.writes = @ \union {nextWrite}]
      <4>1. pg' = [pg EXCEPT ![Live] = db]
        BY <1>1, <1>2, <3>2 DEF Write
      <4>2. db.data = pg[Live].data /\ db.key = pg[Live].key
        BY <1>1 DEF Database
      <4>3. pg'[Live].data = pg[Live].data /\ pg'[Live].key = pg[Live].key
        BY <1>2, <4>1, <4>2
      <4>4. UNCHANGED <<keyfile, opened>>
        BY <3>2 DEF Write
      <4> QED BY <4>3, <4>4
    <3> QED BY <1>6, <3>1, <3>2
  <2>2. keyfile.now \in KeysOf(keyfile) /\ keyfile.now # None
    BY <1>2, Nothing DEF KeysOf, KeyFile
  <2>3. ASSUME NEW file, OpenedBy(file), keyfile.now \in KeysOf(file)
        PROVE  OpenedBy(file)'
    BY <1>1, <1>2, <2>1, <2>3 DEF OpenedBy
  <2>4. at \notin SwitchSteps => OpenedBy(keyfile)'
    BY <1>3, <2>1, <2>2, <2>3 DEF KeyOpens
  <2>5. at \in SwitchSteps => OpenedBy(was.keyfile)'
    <3> SUFFICES ASSUME at \in SwitchSteps PROVE OpenedBy(was.keyfile)'
      OBVIOUS
    <3>1. OpenedBy(was.keyfile) /\ was' = was
      BY <1>1, <1>3 DEF KeyOpens
    <3>2. CASE keyfile = was.keyfile
      BY <2>2, <2>3, <3>1, <3>2
    <3>3. CASE pg'[Live].key = pg[Live].key
      BY <1>1, <1>2, <2>1, <3>1, <3>3 DEF OpenedBy
    <3>4. CASE keyfile # was.keyfile /\ pg[Live].key = None /\ at \notin Stopped
      <4>1. at \in PutIn /\ key # NoKeyChange
        BY <1>3, <1>4, <3>4 DEF KeyAsPlanned, MaybeWritten, PutIn, Stopped
      <4>2. KeyPlanned(pg[Live].key)
        BY <1>3, <4>1 DEF KeyOpens
      <4> QED BY <3>4, <4>1, <4>2 DEF KeyPlanned
    <3> QED BY <2>1, <3>2, <3>3, <3>4
  <2>6. at \in Putting => KeyPlanned(pg[name].key)'
    <3> SUFFICES ASSUME at \in Putting PROVE KeyPlanned(pg[name].key)'
      OBVIOUS
    <3>1. KeyPlanned(pg[name].key) /\ name # Live /\ name \in Name
      BY <1>3, <1>4 DEF KeyOpens, Putting, SwitchSteps, Inv, Typed, TypeOK
    <3>2. pg'[name] = pg[name]
      BY <1>1, <3>1
    <3> QED BY <1>1, <3>1, <3>2 DEF KeyPlanned
  <2>7. at \in PutIn => KeyPlanned(pg[Live].key)'
    <3> SUFFICES ASSUME at \in PutIn PROVE KeyPlanned(pg[Live].key)'
      OBVIOUS
    <3>1. KeyPlanned(pg[Live].key)
      BY <1>3 DEF KeyOpens
    <3>2. CASE pg'[Live].key = pg[Live].key
      BY <1>1, <3>1, <3>2 DEF KeyPlanned
    <3>3. CASE pg[Live].key = None /\ pg'[Live].key = keyfile.now /\ at \notin Stopped
      <4>1. key = NoKeyChange
        BY <3>1, <3>3 DEF KeyPlanned
      <4>2. keyfile = was.keyfile
        BY <1>3, <1>4, <4>1 DEF KeyAsPlanned, PutIn, SwitchSteps, MaybeWritten
      <4> QED BY <1>1, <2>2, <3>1, <3>3, <4>1, <4>2 DEF KeyPlanned
    <3> QED BY <2>1, <3>2, <3>3
  <2> QED BY <1>1, <1>3, <2>1, <2>4, <2>5, <2>6, <2>7 DEF KeyOpens, Undisturbed
<1>7. ASSUME NEW k \in Keys, Rotate(k)
      PROVE  KeyOpens'
  <2>1. /\ at \notin SwitchSteps /\ keyfile' = [now |-> k, before |-> {}] /\ opened' = {pg[Live].data}
        /\ pg' = [pg EXCEPT ![Live].key = k]
    BY <1>7 DEF Rotate
  <2>2. Sound(Holding(pg), ch) /\ Fresh(Holding(pg))
    BY <2>1 DEF Together
  <2> DEFINE h == Holding(pg)
  <2>3. h[Live] = pg[Live].data /\ h[Live] # None /\ h[Live] \in 0..jobs
    <3>1. h[Live] = pg[Live].data /\ h[Live] # None
      BY <1>2, HoldingTyped
    <3> QED BY <1>2, <2>2, <3>1 DEF Sound
  <2>4. at \in RestoreSteps => h[Live] # jobs
    <3>1. CASE at = "create"
      BY <1>2, <2>2, <3>1 DEF Fresh
    <3>2. CASE at \in RestoreSteps \ {"create"}
      <4>1. h[name] = jobs /\ name # Live /\ name \in Name /\ h[name] # None
        BY <1>2, <2>2, <3>2, Restoring, Nothing, HoldingTyped DEF Fresh
      <4> QED BY <1>2, <2>2, <4>1 DEF Sound
    <3> QED BY <3>1, <3>2
  <2>5. OpenedBy(keyfile)'
    <3>1. pg'[Live].key = k /\ k \in KeysOf(keyfile')
      <4>1. pg'[Live] = [pg[Live] EXCEPT !.key = k]
        BY <1>2, <2>1
      <4>2. [pg[Live] EXCEPT !.key = k].key = k
        BY <1>1 DEF Database
      <4>3. keyfile' # None /\ keyfile'.now = k
        BY <1>7, <2>1, Nothing DEF KeyFile
      <4> QED BY <4>1, <4>2, <4>3 DEF KeysOf
    <3>2. ASSUME NEW n \in Name, pg'[n] # None, pg'[n].data \in opened', n # Live
          PROVE  FALSE
      <4>1. pg'[n] = pg[n] /\ h[n] = pg[n].data /\ h[n] = h[Live]
        BY <1>1, <1>2, <2>1, <2>3, <3>2 DEF Holding
      <4> QED BY <1>2, <2>2, <2>3, <3>2, <4>1 DEF Sound
    <3> QED BY <3>1, <3>2 DEF OpenedBy
  <2> HIDE DEF h
  <2> QED BY <1>1, <2>1, <2>3, <2>4, <2>5 DEF KeyOpens, Undisturbed, Putting, PutIn, SwitchSteps
<1> QED BY <1>6, <1>7

(* A step of a switch that goes on, with the key planned as it was.        *)
LEMMA SwitchOpensOn ==
  ASSUME Inv, KeyOpens, Undisturbed, ~raced, at \in SwitchSteps, at' \in SwitchSteps \ {"plan"},
         UNCHANGED <<opened, jobs, was>>,
         pg' = pg \/ \A n \in Name : pg'[n] # None =>
           \E m \in Name : pg[m] # None /\ pg'[n].data = pg[m].data /\ pg'[n].key = pg[m].key,
         at' \in Putting => KeyPlanned(pg[name].key)',
         at' \in PutIn => KeyPlanned(pg[Live].key)',
         at' \in {"start", "wait"} /\ said' = "installed" => keyfile' = key'.new
  PROVE  KeyOpens'
<1>1. opened \subseteq 0..jobs /\ OpenedBy(was.keyfile)
  BY DEF KeyOpens
<1>2. OpenedBy(was.keyfile)'
  <2>1. CASE pg' = pg
    BY <1>1, <2>1 DEF OpenedBy
  <2>2. CASE pg' # pg
    <3>1. \A n \in Name : pg'[n] # None /\ pg'[n].data \in opened' => pg'[n].key \in {None} \union KeysOf(was.keyfile)
      BY <1>1, <2>2, OpenedStill
    <3> QED BY <3>1 DEF OpenedBy
  <2> QED BY <2>1, <2>2
<1> QED BY <1>1, <1>2 DEF KeyOpens, RestoreSteps, SwitchSteps

(* The plan: the database needs no key, or the file that opens it is made   *)
(* of the one noted on it and the one there is.                            *)
LEMMA PlanOpens ==
  ASSUME Inv, Undoable, KeyOpens, Undisturbed, ~raced, PlanSwitch
  PROVE  KeyOpens'
<1>1. /\ at = "plan" /\ at \in SwitchSteps /\ key = NoKeyChange /\ said = "nothing"
      /\ keyfile = was.keyfile /\ DOMAIN job = Fields /\ keyfile \in KeyFile
  BY DEF PlanSwitch, KeyOpens, Undoable, Undisturbed, KeyAsPlanned, SwitchSteps, MaybeWritten, Inv, Typed, TypeOK
<1>2. UNCHANGED <<pg, keyfile, opened, jobs>>
  BY DEF PlanSwitch
<1>3. at' = "stop" /\ UNCHANGED <<name, was>> /\ KeyPlanned(pg[name].key)'
  <2>1. CASE NeedsNoKey(pg[name]) /\ Goto("stop")
    <3>1. at' = "stop" /\ job' = job
      BY <2>1 DEF Goto
    <3>2. pg[name].key \in {None} \union KeysOf(was.keyfile)
      BY <1>1, <2>1 DEF NeedsNoKey, Opens
    <3> QED BY <1>1, <1>2, <3>1, <3>2 DEF KeyPlanned
  <2>2. CASE /\ ~NeedsNoKey(pg[name]) /\ Opens(pg[name].note, pg[name].key)
             /\ GotoWith("stop", [job EXCEPT !.said = "installed",
                              !.key = [new |-> Merged(pg[name].note, keyfile), previous |-> keyfile]])
    <3> DEFINE note == pg[name].note
               merged == Merged(note, keyfile)
    <3>1. /\ at' = "stop" /\ said' = "installed" /\ UNCHANGED <<name, was>>
          /\ key' = [new |-> merged, previous |-> keyfile]
      BY <1>1, <2>2 DEF GotoWith, Fields
    <3>2. pg[name].key # None /\ pg[name].key \in KeysOf(note)
      BY <2>2 DEF NeedsNoKey, Opens
    <3>3. note \in KeyFile
      <4>1. note # None
        BY <3>2 DEF KeysOf
      <4>2. pg[name] \in Database
        BY <1>1 DEF Inv, Typed, TypeOK, Placed
      <4> QED BY <4>1, <4>2 DEF Database
    <3>4. merged.now = note.now /\ merged.before = note.before \union (KeysOf(keyfile) \ {note.now})
          /\ merged \in KeyFile
      BY <1>1, <3>3, Nothing DEF Merged, KeyFile, KeysOf
    <3>5. KeysOf(note) \subseteq KeysOf(merged) /\ KeysOf(keyfile) \subseteq KeysOf(merged)
      BY <3>3, <3>4, Nothing DEF KeysOf
    <3> HIDE DEF merged
    <3>6. key'.new = merged /\ key'.previous # None /\ key' # NoKeyChange
      BY <1>1, <3>1, Nothing DEF NoKeyChange
    <3> QED BY <1>1, <1>2, <3>1, <3>2, <3>5, <3>6 DEF KeyPlanned
  <2>3. CASE \E it \in {"missing", "unchecked"} : GotoWith("stop", [job EXCEPT !.said = it])
    <3>1. at' = "stop" /\ said' \in {"missing", "unchecked"} /\ UNCHANGED <<name, was, key>>
      BY <1>1, <2>3 DEF GotoWith, Fields
    <3> QED BY <1>1, <3>1 DEF KeyPlanned
  <2> QED BY <2>1, <2>2, <2>3 DEF PlanSwitch
<1> QED BY <1>1, <1>2, <1>3, SwitchOpensOn DEF SwitchSteps, Putting, PutIn

(* A rename: the plan goes with the restored database.                     *)
LEMMA RenamingOpens ==
  ASSUME Inv, Undoable, KeyOpens, Undisturbed, ~raced,
         \/ SetLiveAside \/ PutRestored \/ PutLiveBack \/ UndoName("p_name", "p_aside")
         \/ UndoAside("p_aside") \/ UndoName("u_name", "u_aside") \/ UndoAside("u_aside"),
         UNCHANGED kind
  PROVE  KeyOpens'
<1>1. /\ at \in SwitchSteps /\ WasTyped /\ Arranged(at, Holding(pg), LetIn(pg)) /\ DOMAIN job = Fields
      /\ Live \in Name /\ name \in Name /\ aside \in Name
      /\ \A n \in Name : pg[n] # None <=> Holding(pg)[n] # None
  <2>1. at \in SwitchSteps
    BY DEF SetLiveAside, PutRestored, PutLiveBack, UndoName, UndoAside, RenameStep, SwitchSteps
  <2>2. DOMAIN job = Fields
    BY DEF Inv, Typed
  <2>3. WasTyped /\ Arranged(at, Holding(pg), LetIn(pg))
    BY <2>1 DEF Undoable, Undisturbed
  <2>4. /\ Live \in Name /\ name \in Name /\ aside \in Name
        /\ \A n \in Name : pg[n] # None <=> Holding(pg)[n] # None
    BY <2>1, LiveNames
  <2> QED BY <2>1, <2>2, <2>3, <2>4
<1>2. ASSUME NEW step, NEW from \in Name, NEW to \in Name, NEW then, NEW otherwise,
             RenameStep(step, from, to, then, otherwise)
      PROVE  /\ at = step /\ at' \in {then, otherwise} /\ UNCHANGED <<opened, jobs, job, keyfile>>
             /\ \A n \in Name : pg'[n] # None =>
                  \E m \in Name : pg[m] # None /\ pg'[n].data = pg[m].data /\ pg'[n].key = pg[m].key
  BY <1>2, RenamedKeys DEF RenameStep, Rename, Goto
<1>3. CASE SetLiveAside
  <2>1. /\ at = "aside" /\ at' \in {"put", "restart"} /\ UNCHANGED <<opened, jobs, job, keyfile>>
        /\ \A n \in Name : pg'[n] # None =>
             \E m \in Name : pg[m] # None /\ pg'[n].data = pg[m].data /\ pg'[n].key = pg[m].key
    BY <1>1, <1>2, <1>3 DEF SetLiveAside
  <2>2. pg[name] # None /\ name # Live /\ KeyPlanned(pg[name].key)
    BY <1>1, <2>1 DEF Arranged, Begun, KeyOpens, Putting
  <2>3. pg'[name] = pg[name]
    BY <1>1, <1>3, <2>2, RenamedKeys DEF SetLiveAside
  <2>4. KeyPlanned(pg[name].key)'
    BY <2>1, <2>2, <2>3 DEF KeyPlanned
  <2> QED BY <1>1, <2>1, <2>4, SwitchOpensOn DEF SwitchSteps, Putting, PutIn
<1>4. CASE PutRestored
  <2>1. /\ at = "put" /\ at' \in {AfterRename, "put_back"} /\ UNCHANGED <<opened, jobs, job, keyfile>>
        /\ \A n \in Name : pg'[n] # None =>
             \E m \in Name : pg[m] # None /\ pg'[n].data = pg[m].data /\ pg'[n].key = pg[m].key
    BY <1>1, <1>2, <1>4 DEF PutRestored
  <2>2. KeyPlanned(pg[name].key)
    BY <2>1 DEF KeyOpens, Putting
  <2>3. at' = AfterRename => pg'[Live].key = pg[name].key
    BY <1>1, <1>4, RenamedKeys DEF PutRestored, AfterRename
  <2>4. at' = AfterRename => KeyPlanned(pg[Live].key)'
    BY <2>1, <2>2, <2>3 DEF KeyPlanned
  <2>5. AfterRename \in {"exchange", "install"}
    BY DEF AfterRename
  <2> QED BY <1>1, <2>1, <2>4, <2>5, SwitchOpensOn DEF SwitchSteps, Putting, PutIn
<1>5. CASE \/ PutLiveBack \/ UndoName("p_name", "p_aside")
           \/ UndoAside("p_aside") \/ UndoName("u_name", "u_aside") \/ UndoAside("u_aside")
  <2>1. /\ at' \in {"p_aside", "u_aside", "restart"} /\ UNCHANGED <<opened, jobs, job, keyfile>>
        /\ \A n \in Name : pg'[n] # None =>
             \E m \in Name : pg[m] # None /\ pg'[n].data = pg[m].data /\ pg'[n].key = pg[m].key
    BY <1>1, <1>2, <1>5 DEF PutLiveBack, UndoName, UndoAside
  <2> QED BY <1>1, <2>1, SwitchOpensOn DEF SwitchSteps, Putting, PutIn
<1> QED BY <1>3, <1>4, <1>5

(* A step that renames nothing.                                            *)
LEMMA OtherOpens ==
  ASSUME Inv, Undoable, KeyOpens, Undisturbed, ~raced,
         \/ StopSentient \/ ExchangeTables \/ ExchangeAgain \/ ExchangeBack \/ InstallKey
         \/ StartSentient \/ StopAgain \/ PutKeyBack
  PROVE  KeyOpens'
<1>1. DOMAIN job = Fields /\ Stopped \subseteq SwitchSteps
  BY DEF Inv, Typed, Stopped, SwitchSteps
<1>2. ASSUME at \in SwitchSteps, at' \in SwitchSteps \ {"plan"}, UNCHANGED <<pg, opened, jobs, was, name>>,
             at' \in Putting => at \in Putting /\ UNCHANGED <<key, said>>,
             at' \in PutIn => at \in PutIn /\ (UNCHANGED <<key, said>> \/ (UNCHANGED key /\ said' = "notinstalled")),
             at' \in {"start", "wait"} /\ said' = "installed" => keyfile' = key'.new
      PROVE  KeyOpens'
  <2>1. at' \in Putting => KeyPlanned(pg[name].key)'
    BY <1>2 DEF KeyOpens, KeyPlanned
  <2>2. at' \in PutIn => KeyPlanned(pg[Live].key)'
    BY <1>2 DEF KeyOpens, KeyPlanned
  <2> QED BY <1>2, <2>1, <2>2, SwitchOpensOn
<1>3. CASE StopSentient
  <2>1. at' \in {"aside", "restart"} /\ UNCHANGED <<key, said, name, was>>
    <3>1. CASE Goto("restart")
      BY <3>1 DEF Goto
    <3>2. CASE GotoWith("aside", [job EXCEPT !.aside = <<"before_restore", minute>>])
      BY <1>1, <3>2 DEF GotoWith, Fields
    <3> QED BY <1>3, <3>1, <3>2 DEF StopSentient
  <2> QED BY <1>2, <1>3, <2>1 DEF StopSentient, SwitchSteps, Putting, PutIn
<1>4. ASSUME NEW step \in Stopped, NEW then, NEW otherwise, Exchange(step, then, otherwise)
      PROVE  at = step /\ at' \in {step, then, otherwise} /\ UNCHANGED <<pg, opened, jobs, was, name, key, said, keyfile>>
  <2>1. PICK where \in {then, at, otherwise}, i \in {1, pos + 1} : GotoWith(where, [job EXCEPT !.pos = i])
    BY <1>4 DEF Exchange
  <2>2. at' = where /\ UNCHANGED <<was, name, key, said>>
    BY <1>1, <2>1 DEF GotoWith, Fields
  <2> QED BY <1>4, <2>2 DEF Exchange
<1>5. CASE ExchangeTables
  <2>1. at = "exchange" /\ at' \in {"exchange", "install", "again"}
        /\ UNCHANGED <<pg, opened, jobs, was, name, key, said, keyfile>>
    BY <1>4, <1>5 DEF ExchangeTables, Stopped
  <2> QED BY <1>2, <2>1 DEF SwitchSteps, Putting, PutIn
<1>6. CASE ExchangeAgain \/ ExchangeBack
  <2>1. at \in SwitchSteps /\ at' \in {"again", "u_exchange", "p_name", "u_name"}
        /\ UNCHANGED <<pg, opened, jobs, was, name, key, said, keyfile>>
    BY <1>1, <1>4, <1>6 DEF ExchangeAgain, ExchangeBack, Stopped
  <2> QED BY <1>2, <2>1 DEF SwitchSteps, Putting, PutIn
<1>7. CASE InstallKey
  <2>1. at' = "start" /\ UNCHANGED <<name, was, key>> /\ (UNCHANGED said \/ said' = "notinstalled")
    BY <1>1, <1>7 DEF InstallKey, Goto, GotoWith, Fields
  <2>2. at = "install" /\ UNCHANGED <<pg, opened, jobs>> /\ (key # NoKeyChange /\ said' # "notinstalled" => keyfile' = key.new)
    <3>1. KeyPlanned(pg[Live].key)
      BY <1>7 DEF InstallKey, KeyOpens, PutIn
    <3> QED BY <1>1, <1>7, <3>1 DEF InstallKey, GotoWith, Fields
  <2>3. said = "installed" => key # NoKeyChange
    BY <1>7 DEF InstallKey, KeyOpens, PutIn, KeyPlanned
  <2> QED BY <1>2, <2>1, <2>2, <2>3 DEF SwitchSteps, Putting, PutIn
<1>8. CASE StartSentient
  BY <1>2, <1>8 DEF StartSentient, Goto, SwitchSteps, Putting, PutIn, KeyOpens
<1>9. CASE StopAgain
  BY <1>2, <1>9 DEF StopAgain, Goto, SwitchSteps, Putting, PutIn
<1>10. CASE PutKeyBack
  <2>1. at = "u_key" /\ at' \in {"u_exchange", "u_name"} /\ UNCHANGED <<job, jobs, opened, pg>>
    BY <1>10 DEF PutKeyBack, Goto
  <2> QED BY <1>2, <2>1 DEF SwitchSteps, Putting, PutIn
<1> QED BY <1>3, <1>5, <1>6, <1>7, <1>8, <1>9, <1>10

(* SENTIENT answers: the key file opens what it opened, and what is now in  *)
(* service when the switch says so.                                        *)
LEMMA WaitOpens ==
  ASSUME Inv, Undoable, Together, KeyOpens, Undisturbed, ~raced, Wait
  PROVE  KeyOpens'
<1>1. /\ at = "wait" /\ at \in SwitchSteps /\ UNCHANGED <<pg, keyfile, jobs>>
      /\ Live \in Name /\ pg \in [Name -> Database \union {None}]
  BY Names DEF Wait, SwitchSteps, Inv, Typed, TypeOK
<1>2. /\ KeyPlanned(pg[Live].key) /\ OpenedBy(was.keyfile) /\ opened \subseteq 0..jobs
      /\ said = "installed" => keyfile = key.new
      /\ keyfile = was.keyfile \/ (key # NoKeyChange /\ keyfile = key.new)
  BY <1>1 DEF KeyOpens, PutIn, Undoable, Undisturbed, KeyAsPlanned, MaybeWritten
<1>3. CASE Goto("u_stop") /\ UNCHANGED opened
  <2>1. at' = "u_stop" /\ job' = job
    BY <1>3 DEF Goto
  <2>2. KeyPlanned(pg[Live].key)'
    BY <1>1, <1>2, <2>1 DEF KeyPlanned
  <2> QED BY <1>1, <1>3, <2>1, <2>2, SwitchOpensOn DEF SwitchSteps, Putting, PutIn
<1>4. CASE /\ Return("switched")
           /\ opened' = IF said \in {"nothing", "installed"} THEN opened \union {pg[Live].data} ELSE opened
  <2>1. at' = "idle"
    BY <1>4 DEF Return
  <2>2. Sound(Holding(pg), ch) /\ pg[Live] # None /\ Holding(pg)[Live] = pg[Live].data
        /\ Holding(pg)[Live] # None
    <3>1. pg[Live] # None
      BY <1>1 DEF Inv, Typed, Placed, InService
    <3> QED BY <1>1, <3>1, SwitchedSound, HoldingTyped
  <2>3. opened' \subseteq 0..jobs
    BY <1>1, <1>2, <1>4, <2>2 DEF Sound
  <2>4. OpenedBy(keyfile)
    BY <1>2 DEF OpenedBy, KeyPlanned
  <2>5. said \in {"nothing", "installed"} => pg[Live].key \in {None} \union KeysOf(keyfile)
    BY <1>2 DEF KeyPlanned
  <2>6. \A n \in Name : pg[n] # None /\ pg[n].data = pg[Live].data => n = Live
    <3>1. ASSUME NEW n \in Name, pg[n] # None, pg[n].data = pg[Live].data
          PROVE  n = Live
      <4>1. Holding(pg)[n] = Holding(pg)[Live]
        BY <1>1, <2>2, <3>1, HoldingTyped
      <4> QED BY <1>1, <2>2, <4>1 DEF Sound
    <3> QED BY <3>1
  <2>7. \A n \in Name : pg[n] # None /\ pg[n].data \in opened' => pg[n].key \in {None} \union KeysOf(keyfile)
    BY <1>4, <2>4, <2>5, <2>6 DEF OpenedBy
  <2>8. OpenedBy(keyfile)'
    BY <1>1, <2>7 DEF OpenedBy
  <2> QED BY <1>1, <2>1, <2>3, <2>8 DEF KeyOpens, RestoreSteps, SwitchSteps, Putting, PutIn
<1> QED BY <1>3, <1>4 DEF Wait

LEMMA KeyOpensKept ==
  ASSUME Inv, Undoable, Together, KeyOpens, [Next]_vars
  PROVE  KeyOpens'
<1> SUFFICES ASSUME Undisturbed', ~raced' PROVE KeyOpens'
  BY DEF KeyOpens
<1>1. Undisturbed /\ (at # "idle" => ~Crash)
  BY Calm
<1>2. CASE UNCHANGED <<pg, keyfile, at, job, jobs, opened, raced, kind>>
  <2>1. KeyOpens
    OBVIOUS
  <2> QED BY <1>1, <1>2 DEF KeyOpens, OpenedBy, KeyPlanned, Undisturbed
<1>3. CASE UNCHANGED vars
  BY <1>2, <1>3 DEF vars
<1>4. CASE Next
  <2>1. UNCHANGED kind
    BY <1>4 DEF Next
  <2>2. CASE Tick
    BY <1>2, <2>1, <2>2 DEF Tick
  <2>3. ~Crash
    BY <1>1 DEF Crash
  <2>4. CASE Job
    <3>1. ~raced
      <4>1. ASSUME NEW n, BeginSwitch(n) PROVE ~raced
        BY <4>1 DEF BeginSwitch
      <4>2. ASSUME NEW target, NEW b, BeginRestore(target, b) PROVE ~raced
        BY <4>2 DEF BeginRestore
      <4> QED BY <2>4, <4>1, <4>2 DEF Job
    <3> QED BY <1>1, <2>1, <2>4, <3>1, BeginsOpening
  <2>5. CASE RestoreStep
    BY <1>1, <2>1, <2>5, RestoreGoes, RestoreOpening
  <2>6. CASE Boot \/ Write \/ \E k \in Keys : Rotate(k)
    BY <1>1, <2>1, <2>6, LiveOpening
  <2>7. CASE SwitchStep
    <3>1. ~raced
      BY <2>7, SwitchGoes
    <3>2. CASE Restart
      <4>1. at = "restart" /\ at' = "idle" /\ UNCHANGED <<pg, keyfile, jobs, opened>>
        BY <3>2 DEF Restart, Return
      <4>2. keyfile = was.keyfile /\ OpenedBy(was.keyfile) /\ opened \subseteq 0..jobs
        BY <1>1, <3>1, <4>1, AsBefore DEF Undisturbed, KeyOpens, SwitchSteps
      <4>3. OpenedBy(keyfile)'
        BY <4>1, <4>2 DEF OpenedBy
      <4> QED BY <4>1, <4>2, <4>3 DEF KeyOpens, RestoreSteps, SwitchSteps, Putting, PutIn
    <3> QED BY <1>1, <2>1, <2>7, <3>1, <3>2, PlanOpens, RenamingOpens, OtherOpens, WaitOpens DEF SwitchStep
  <2> QED BY <1>4, <2>2, <2>3, <2>4, <2>5, <2>6, <2>7 DEF Next, Environment
<1> QED BY <1>3, <1>4

(* The key file opens what it is to open, the data kept from before among   *)
(* them, as long as the key is not rotated between a switch's look at the   *)
(* file and its writing it (secrets_key.rs, merged, plan_switch, install).  *)
THEOREM KeysAreKept ==
  ASSUME NoTransient
  PROVE  Spec => []KeysKept
<1>1. Init => KeyOpens
  <2> SUFFICES ASSUME Init PROVE KeyOpens
    OBVIOUS
  <2>1. at = "idle" /\ opened = {0} /\ jobs = 0 /\ keyfile = [now |-> FirstKey, before |-> {}]
    BY DEF Init
  <2>2. \A n \in Name \ {Live} : pg[n] = None
    BY DEF Init
  <2>3. pg[Live].key = FirstKey
    BY Names DEF Init
  <2>4. FirstKey \in KeysOf(keyfile)
    <3>1. keyfile \in KeyFile /\ keyfile.now = FirstKey
      BY <2>1, RestoreAssumption DEF KeyFile
    <3> QED BY <3>1, Nothing DEF KeysOf
  <2>5. OpenedBy(keyfile)
    BY <2>2, <2>3, <2>4 DEF OpenedBy
  <2> QED BY <2>1, <2>5 DEF KeyOpens, RestoreSteps, SwitchSteps, Putting, PutIn
<1>2. Inv /\ Undoable /\ Together /\ KeyOpens /\ [Next]_vars => KeyOpens'
  BY KeyOpensKept
<1>3. KeyOpens => KeysKept
  BY DEF KeyOpens, KeysKept, OpenedBy, NeedsNoKey, Opens, SwitchSteps
<1> QED BY <1>1, <1>2, <1>3, InvAlways, UndoableAlways, TogetherAlways, PTL DEF Spec

=============================================================================
