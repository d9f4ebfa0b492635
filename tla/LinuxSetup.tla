----------------------------- MODULE LinuxSetup -----------------------------
(***************************************************************************)
(* SENTIENT as a systemd service on Linux (installer-core/native_linux):   *)
(* installed over the distribution's PostgreSQL and ClickHouse, which stay *)
(* when it goes and may hold what an earlier one left; adopted; repaired;  *)
(* its settings changed, SENTIENT's and PostgreSQL's; started, stopped and *)
(* removed.                                                                *)
(*                                                                         *)
(* The passwords are nowhere but in the service's environment file.  A job *)
(* is one or more scripts run as root under `set -e`; one action is one of *)
(* their commands that changes something.                                  *)
(***************************************************************************)
EXTENDS KeptDatabase, Sequences, FiniteSets, SequencesExt

CONSTANTS
  Plans,        \* what the wizard may be filled in with
  Values,       \* settings: of SENTIENT (app) and of PostgreSQL (pg)
  Unfit,        \* those of SENTIENT it does not start with
  UnfitPg,      \* those of PostgreSQL it does not start with
  MayFail,      \* the jobs' steps that may fail or be cancelled
  MayTear,      \* those that may fail half way
  MayDie,       \* those before which the manager may be killed
  MaxSetups,    \* bound: installations started and tried again
  MaxChanges,   \* bound: the operator's other actions
  MaxFaults     \* bound: failures

(* The steps of each job: plan::run with native_linux's setup and deploy   *)
(* and prepare_existing; run_repair; settings::apply with reconfigure;     *)
(* run_uninstall with uninstall and cleanup.                               *)
SetupSteps == <<"packages", "port", "clickhouse">>
KeptSteps == <<"role", "kept">>
DeploySteps == <<"programs", "create", "chuser", "env", "schema", "partition", "unit", "serve">>
ReconfigureSteps == <<"stop", "env", "alter", "launch">>
Paths ==
  [install |-> SetupSteps \o KeptSteps \o DeploySteps \o <<"admin", "record">>,
   repair |-> <<"reissue">> \o DeploySteps,
   settings |-> ReconfigureSteps \o <<"answer", "record", "back">>,
   uninstall |-> <<"remove", "unrecord">>, delete |-> <<"remove", "drop", "unrecord">>]
Kinds == DOMAIN Paths
Steps == UNION {{k} \X ToSet(Paths[k]) : k \in Kinds}

ASSUME LinuxSetupAssumption ==
  /\ \A c \in Plans :
       /\ c.flavor \in Flavors \ {"timescaledb"} /\ c.existing \in {"none", "keep", "fresh"}
       /\ c.pw \in 1..9 /\ c.chpw \in 1..9 /\ c.port \in Nat
  /\ Values \subseteq [app : Nat, pg : Nat] /\ [app |-> 0, pg |-> 0] \in Values
  /\ Unfit \subseteq Nat \ {0} /\ UnfitPg \subseteq Nat \ {0}
  /\ MayFail \subseteq Steps /\ MayTear \subseteq Steps /\ MayDie \subseteq Steps
  /\ MaxSetups \in Nat /\ MaxChanges \in Nat /\ MaxFaults \in Nat

VARIABLES
  pc,      \* the databases, SENTIENT's files and service, and the record
  at,      \* the step the running job is at
  job,     \* what it was started with
  last,    \* how the last job ended, and what it was
  held,    \* the databases and histories SENTIENT has served, unless deleted
  setups, changes, faults    \* used up of the bounds

vars == <<pc, at, job, last, held, setups, changes, faults>>

----------------------------------------------------------------------------
(* The computer.                                                           *)
DefaultPort == 5432
DefaultValue == [app |-> 0, pg |-> 0]
Name == 0..MaxSetups
NoDatabases == [n \in Name |-> None]
NoJob == [kind |-> "none"]
Nothing == [end |-> "none", job |-> NoJob]

(* The distribution's cluster: SENTIENT's role, the databases, and the     *)
(* port and the parameters it was last started with.                       *)
Cluster(role, dbs) == [role |-> role, dbs |-> dbs, port |-> DefaultPort, value |-> 0, up |-> TRUE]
(* What the environment file tells SENTIENT.                               *)
EnvFile(j) == [pw |-> j.pw, chpw |-> j.chpw, flavor |-> j.flavor, port |-> j.port, value |-> j.value.app]

(* ch: whose history ClickHouse holds, and its user's password; started:   *)
(* what SENTIENT read when its unit was started.                           *)
Fresh ==
  [pg |-> None, ch |-> None, programs |-> FALSE, env |-> None, unit |-> FALSE, started |-> None,
   record |-> None]
(* A computer whose PostgreSQL serves something else, and one with the     *)
(* databases of an installation that was removed.                          *)
OtherUse == [Fresh EXCEPT !.pg = Cluster(0, NoDatabases)]
Left(c, shape) ==
  [Fresh EXCEPT
    !.pg = Cluster(c.pw, [NoDatabases EXCEPT ![0] = Finished(shape)]),
    !.ch = IF c.flavor = "clickhouse" THEN [of |-> 0, user |-> c.chpw] ELSE None]
(* The history table as each type leaves it, or with rows of before that.  *)
Makes(flavor) == {"filled", IF flavor = "stock" THEN "partitioned" ELSE "plain"}

Init ==
  /\ \E c \in Plans : \E shape \in Makes(c.flavor) : pc \in {Fresh, OtherUse, Left(c, shape)}
  /\ at = "idle" /\ job = NoJob /\ last = Nothing
  /\ held = (IF pc.pg = None \/ pc.pg.dbs[0] = None THEN {} ELSE {<<"database", 0>>}) \union
            (IF pc.ch = None THEN {} ELSE {<<"history", 0>>})
  /\ setups = 0 /\ changes = 0 /\ faults = 0

Database == IF pc.pg = None THEN None ELSE pc.pg.dbs[0]
(* psql as the postgres user: through the socket, on a port.               *)
Sql(p, port) == p.pg # None /\ p.pg.up /\ p.pg.port = port
(* SENTIENT answers: it signs in to the databases it was told of.          *)
Serving(p) ==
  /\ p.started # None /\ Sql(p, p.started.port)
  /\ p.started.pw = p.pg.role /\ p.started.value \notin Unfit
  /\ p.pg.dbs[0] # None /\ p.pg.dbs[0].shape # "missing"
  /\ p.started.flavor = "clickhouse" => p.ch # None /\ p.ch.user = p.started.chpw
Serves(p) ==
  IF ~Serving(p) THEN {}
  ELSE {<<"database", p.pg.dbs[0].of>>} \union
         (IF p.started.flavor = "clickhouse" /\ p.ch.of # None THEN {<<"history", p.ch.of>>} ELSE {})

(* systemctl start: PostgreSQL, which the unit requires, is started first. *)
CanLaunch(p) ==
  /\ p.unit /\ p.programs /\ p.env # None
  /\ p.pg # None /\ p.pg.value \notin UnfitPg
  /\ p.env.flavor = "clickhouse" => p.ch # None
Launched(p) ==
  IF p.started = None /\ CanLaunch(p) THEN [p EXCEPT !.pg.up = TRUE, !.started = p.env] ELSE p
Halted(p) == [p EXCEPT !.started = None]
(* PostgreSQL restarted, and with it SENTIENT when it runs.                *)
Tuned(p, value) ==
  LET q == [p EXCEPT !.pg.value = value, !.pg.up = value \notin UnfitPg]
  IN IF p.started = None THEN q ELSE Launched(Halted(q))

----------------------------------------------------------------------------
(* Jobs.                                                                   *)
Applies(j, s) ==
  /\ s \in {"clickhouse", "chuser"} => j.flavor = "clickhouse"
  /\ s \in ToSet(KeptSteps) => j.existing # "none"
  /\ s = "partition" => j.flavor = "stock"
  /\ s = "reissue" => j.pw = 0
  /\ s = "alter" => j.value.pg # j.was.value.pg
(* The step after the one at position i of a job's path.                   *)
Later(j, i) == {k \in DOMAIN Paths[j.kind] : k > i /\ Applies(j, Paths[j.kind][k])}
StepAfter(j, i) == Paths[j.kind][Min(Later(j, i))]
Following == StepAfter(job, CHOOSE i \in DOMAIN Paths[job.kind] : Paths[job.kind][i] = at)
Begin(new) == at' = StepAfter(new, 0) /\ job' = new /\ last' = Nothing
End(how) == at' = "idle" /\ job' = NoJob /\ last' = [end |-> how, job |-> job]
Ends == at = "record" \/ at = Last(Paths[job.kind])
Bounds == UNCHANGED <<setups, changes, faults>>
(* A step that succeeds with the computer as new, and one that does not:   *)
(* changed settings are put back.                                          *)
Does(new) ==
  /\ pc' = new /\ held' = held \union Serves(new)
  /\ IF Ends THEN End("done") ELSE at' = Following /\ UNCHANGED <<job, last>>
PutsBack == job.kind = "settings" /\ at \in ToSet(ReconfigureSteps) \union {"answer"}
Fails(how, new) ==
  /\ pc' = new /\ held' = held \union Serves(new)
  /\ IF PutsBack THEN at' = "back" /\ UNCHANGED <<job, last>> ELSE End(how)
DoesIf(can, new) == IF can THEN Does(new) ELSE Fails("stuck", pc)

(* The wizard: SENTIENT's unit must not be there, and what to do with the  *)
(* database is asked when there is a cluster (existing_cluster).           *)
Was == [value |-> DefaultValue, serving |-> FALSE]
PlanOf(c) ==
  [kind |-> "install", flavor |-> c.flavor, pw |-> c.pw, chpw |-> c.chpw, port |-> c.port,
   value |-> DefaultValue, existing |-> c.existing, was |-> Was]
StartInstall(plan) ==
  /\ setups < MaxSetups /\ setups' = setups + 1
  /\ Begin(plan) /\ UNCHANGED <<pc, held, changes, faults>>
Install(c) ==
  /\ at = "idle" /\ pc.record = None /\ ~pc.unit
  /\ c.existing = "none" <=> pc.pg = None
  /\ StartInstall(PlanOf(c))
Retry ==
  /\ at = "idle" /\ last.job.kind = "install" /\ last.end \in {"failed", "refused", "stuck"}
  /\ StartInstall(last.job)

(* The manager's other jobs: the passwords are read from the environment   *)
(* file; without it only a repair goes on, and removing SENTIENT.          *)
Secrets == IF pc.env = None THEN [pw |-> 0, chpw |-> 0] ELSE [pw |-> pc.env.pw, chpw |-> pc.env.chpw]
FromRecord(kind, value) ==
  [kind |-> kind, flavor |-> pc.record.flavor, pw |-> Secrets.pw, chpw |-> Secrets.chpw,
   port |-> pc.record.port, value |-> value, existing |-> "none",
   was |-> [value |-> pc.record.value, serving |-> Serving(pc) /\ CanLaunch(pc)]]
Change == at = "idle" /\ changes < MaxChanges /\ changes' = changes + 1
StartJob(plan) == Change /\ Begin(plan) /\ UNCHANGED <<pc, held, setups, faults>>
Manage(kind) == pc.record # None /\ StartJob(FromRecord(kind, pc.record.value))
ApplySettings(v) ==
  /\ pc.record # None /\ pc.env # None /\ v # pc.record.value
  /\ StartJob(FromRecord("settings", v))

(* Add existing instance: what the unit, the environment file and          *)
(* PostgreSQL say (read_installed), when the databases can be reached      *)
(* (verify_installed).                                                     *)
Candidate == pc.record = None /\ pc.unit /\ pc.env # None
Recorded(env, value) == [flavor |-> env.flavor, port |-> env.port, value |-> value]
Shown == IF Sql(pc, pc.env.port) THEN pc.pg.value ELSE 0
Found == Recorded(pc.env, [app |-> pc.env.value, pg |-> Shown])
Verified ==
  /\ Sql(pc, pc.env.port) /\ Database # None
  /\ pc.env.flavor = "clickhouse" => pc.ch # None /\ pc.ch.user = pc.env.chpw
  /\ pc.started # None => Serving(pc)
Adopt ==
  /\ Change /\ Candidate /\ Verified
  /\ pc' = [pc EXCEPT !.record = Found] /\ last' = Nothing
  /\ UNCHANGED <<at, job, held, setups, faults>>
(* systemctl start and stop; and the computer restarted.                   *)
Happens(new) ==
  /\ Change /\ pc' = new /\ held' = held \union Serves(new) /\ last' = Nothing
  /\ UNCHANGED <<at, job, setups, faults>>
Control(run) == pc.record # None /\ Happens(IF run THEN Launched(pc) ELSE Halted(pc))
Reboot ==
  /\ pc.pg # None
  /\ Happens(Launched(Halted([pc EXCEPT !.pg.up = pc.pg.value \notin UnfitPg])))
(* Someone deletes the environment file, the unit or the programs, or the  *)
(* record is lost.                                                         *)
Lose(what) ==
  /\ IF what \in {"env", "record"} THEN pc[what] # None ELSE pc[what]
  /\ Happens([pc EXCEPT ![what] = IF what \in {"env", "record"} THEN None ELSE FALSE])

----------------------------------------------------------------------------
(* The steps of setup: the distribution's packages, then PostgreSQL's port *)
(* and parameters, set through the socket of the default port.             *)
InstallPackages ==
  /\ at = "packages"
  /\ Does(IF pc.pg = None THEN [pc EXCEPT !.pg = Cluster(0, NoDatabases)]
          ELSE [pc EXCEPT !.pg.up = @ \/ pc.pg.value \notin UnfitPg])
SetPort ==
  /\ at = "port"
  /\ DoesIf(Sql(pc, DefaultPort), Tuned([pc EXCEPT !.pg.port = job.port], job.value.pg))
InstallClickhouse ==
  /\ at = "clickhouse"
  /\ Does(IF pc.ch = None THEN [pc EXCEPT !.ch = [of |-> None, user |-> 0]] ELSE pc)
(* prepare_existing.  Variant with a fault: the role keeps its password.   *)
SyncNoRole == at = "role" /\ Does(pc)
SyncRole ==
  /\ at = "role"
  /\ DoesIf(Sql(pc, job.port), [pc EXCEPT !.pg.role = IF @ = 0 THEN 0 ELSE job.pw])
PrepareExisting ==
  /\ at = "kept"
  /\ IF Refuses(pc.pg.dbs, job.existing, job.flavor) THEN Fails("refused", pc)
     ELSE DoesIf(Sql(pc, job.port),
                 [pc EXCEPT !.pg.dbs = Prepared(@, job.existing, job.flavor, setups)])

(* The steps of deploy.  A repair has no package to unpack programs from.  *)
InstallPrograms ==
  /\ at = "programs"
  /\ IF job.kind = "repair" /\ ~pc.programs THEN Fails("refused", pc)
     ELSE DoesIf(pc.pg # None, [pc EXCEPT !.programs = TRUE])
(* CREATE USER and CREATE DATABASE: any error is "already there".          *)
Create ==
  /\ at = "create"
  /\ Does(IF ~Sql(pc, job.port) THEN pc
          ELSE [pc EXCEPT !.pg.role = IF @ = 0 THEN job.pw ELSE @,
                          !.pg.dbs[0] = IF @ = None THEN Created(setups) ELSE @])
(* CREATE USER IF NOT EXISTS: one that is there keeps its password.        *)
ProvisionClickhouse ==
  /\ at = "chuser"
  /\ DoesIf(pc.ch # None, [pc EXCEPT !.ch.user = IF @ = 0 THEN job.chpw ELSE @])
WriteEnv == at = "env" /\ Does([pc EXCEPT !.env = EnvFile(job)])
(* sentient-install (external), whose error is "already installed".        *)
InstallSchema ==
  /\ at = "schema"
  /\ Does(IF ~(Sql(pc, job.port) /\ pc.pg.role = job.pw /\ Database # None) THEN pc
          ELSE [pc EXCEPT
            !.pg.dbs[0] = WithSchema(@, "plain"),
            !.ch = IF job.flavor = "clickhouse" /\ @ # None /\ @.of = None /\ @.user = job.chpw
                   THEN [@ EXCEPT !.of = pc.pg.dbs[0].of] ELSE @])
(* stock_ts_kv_sql: a plain history becomes a partitioned one, unless it   *)
(* has rows.                                                               *)
Partition ==
  /\ at = "partition"
  /\ DoesIf(Sql(pc, job.port) /\ Database # None,
            IF Database.shape = "plain" THEN [pc EXCEPT !.pg.dbs[0].shape = "partitioned"] ELSE pc)
RegisterUnit ==
  /\ at = "unit"
  /\ LET new == Launched(Halted([pc EXCEPT !.unit = TRUE]))
     IN IF new.started # None THEN Does(new) ELSE Fails("stuck", new)
Serve == at = "serve" /\ DoesIf(Serving(pc), pc)
SetAdmin ==
  /\ at = "admin"
  /\ DoesIf(Sql(pc, job.port) /\ Database # None, [pc EXCEPT !.pg.dbs[0] = WithAdministrator(@)])
SaveRecord == at = "record" /\ Does([pc EXCEPT !.record = Recorded(EnvFile(job), job.value)])

----------------------------------------------------------------------------
(* The steps of the other jobs.                                            *)
(* reissue_secrets: the environment file is missing, so the database users *)
(* get new passwords, which the repair then writes.                        *)
Generated == 10 + changes
(* Variant with a fault: only SENTIENT is given the new passwords.         *)
ReissueForSentient ==
  /\ at = "reissue" /\ pc' = pc /\ job' = [job EXCEPT !.pw = Generated, !.chpw = Generated]
  /\ at' = "programs" /\ UNCHANGED <<last, held>>
Reissue ==
  /\ at = "reissue"
  /\ IF Sql(pc, job.port) /\ pc.pg.role # 0 /\ (job.flavor = "clickhouse" => pc.ch # None)
     THEN /\ pc' = [pc EXCEPT !.pg.role = Generated,
                              !.ch = IF job.flavor = "clickhouse" THEN [@ EXCEPT !.user = Generated] ELSE @]
          /\ job' = [job EXCEPT !.pw = Generated, !.chpw = Generated]
          /\ at' = "programs" /\ UNCHANGED <<last, held>>
     ELSE Fails("refused", pc)

(* reconfigure, and waiting for SENTIENT to answer.                        *)
StopSentient == at = "stop" /\ Does(Halted(pc))
Alter ==
  /\ at = "alter"
  /\ IF ~Sql(pc, job.port) THEN Fails("failed", pc)
     ELSE LET new == Tuned(pc, job.value.pg)
          IN IF new.pg.up THEN Does(new) ELSE Fails("failed", new)
Launch ==
  /\ at = "launch"
  /\ IF CanLaunch(pc) THEN Does(Launched(pc)) ELSE Fails("failed", pc)
Answer == at = "answer" /\ IF Serving(pc) THEN Does(pc) ELSE Fails("failed", pc)
(* What apply puts back, by the same script.  Variant with a fault:        *)
(* PostgreSQL's parameters stay.                                           *)
OldEnv == EnvFile([job EXCEPT !.value = job.was.value])
RestoredForSentient(p) == Launched([Halted(p) EXCEPT !.env = OldEnv])
Restored(p) ==
  LET old == [Halted(p) EXCEPT !.env = OldEnv]
  IN IF job.value.pg = job.was.value.pg THEN Launched(old)
     ELSE IF Sql(p, job.port) THEN Launched(Tuned(old, job.was.value.pg))
     ELSE old
PutBack ==
  /\ at = "back"
  /\ pc' = Restored(pc) /\ held' = held \union Serves(pc') /\ End("undone")

(* uninstall: the service, the programs and /etc/sentient.                 *)
RemovePlatform ==
  /\ at = "remove"
  /\ Does([pc EXCEPT !.unit = FALSE, !.programs = FALSE, !.env = None, !.started = None])
(* cleanup: SENTIENT's database and, unless another one is its own, its    *)
(* role; ClickHouse's when the installation uses it.  Variant with a       *)
(* fault: what was set aside goes too.                                     *)
DroppedAll(pg) == [pg EXCEPT !.dbs = NoDatabases, !.role = 0]
Dropped(pg) ==
  [pg EXCEPT !.dbs[0] = None, !.role = IF \E n \in Name \ {0} : pg.dbs[n] # None THEN @ ELSE 0]
DroppedClickhouse(ch) == IF job.flavor = "clickhouse" /\ ch # None THEN [of |-> None, user |-> 0] ELSE ch
DropDatabases ==
  /\ at = "drop"
  /\ LET reached == Sql(pc, job.port)
         gone == (IF reached /\ Database # None THEN {<<"database", Database.of>>} ELSE {}) \union
                 (IF job.flavor = "clickhouse" /\ pc.ch # None THEN {<<"history", pc.ch.of>>} ELSE {})
     IN /\ pc' = [pc EXCEPT !.pg = IF reached THEN Dropped(@) ELSE @, !.ch = DroppedClickhouse(@)]
        /\ held' = held \ gone
  /\ at' = Following /\ UNCHANGED <<job, last>>
RemoveRecord == at = "unrecord" /\ Does([pc EXCEPT !.record = None])

----------------------------------------------------------------------------
(* A call fails or is cancelled, having done nothing or a part of its      *)
(* work; or the manager is killed before it.                               *)
Torn(s) ==
  CASE s = "reissue" /\ Sql(pc, job.port) /\ pc.pg.role # 0 -> [pc EXCEPT !.pg.role = Generated]
    [] s = "unit" -> [Halted(pc) EXCEPT !.unit = TRUE]
    [] s = "remove" -> [Halted(pc) EXCEPT !.unit = FALSE]
    [] OTHER -> pc
Fail ==
  /\ faults < MaxFaults /\ faults' = faults + 1
  /\ \/ <<job.kind, at>> \in MayFail /\ Fails("failed", pc)
     \/ <<job.kind, at>> \in MayTear /\ Fails("failed", Torn(at))
  /\ UNCHANGED <<setups, changes>>
Die ==
  /\ faults < MaxFaults /\ faults' = faults + 1
  /\ <<job.kind, at>> \in MayDie /\ End("killed")
  /\ UNCHANGED <<pc, held, setups, changes>>

Step ==
  /\ \/ InstallPackages \/ SetPort \/ InstallClickhouse \/ SyncRole \/ PrepareExisting
     \/ InstallPrograms \/ Create \/ ProvisionClickhouse \/ WriteEnv \/ InstallSchema \/ Partition
     \/ RegisterUnit \/ Serve \/ SetAdmin \/ SaveRecord
     \/ Reissue \/ StopSentient \/ Alter \/ Launch \/ Answer \/ PutBack
     \/ RemovePlatform \/ DropDatabases \/ RemoveRecord
  /\ Bounds
Operator ==
  \/ \E c \in Plans : Install(c)
  \/ Retry \/ Adopt \/ Reboot
  \/ \E kind \in {"repair", "uninstall", "delete"} : Manage(kind)
  \/ \E v \in Values : ApplySettings(v)
  \/ \E run \in BOOLEAN : Control(run)
  \/ \E what \in {"env", "unit", "programs", "record"} : Lose(what)
Next == Operator \/ Step \/ Fail \/ Die
Spec == Init /\ [][Next]_vars

----------------------------------------------------------------------------
(* What the variables are.                                                 *)
Value == [app : Nat, pg : Nat]
Postgres == [role : Nat, dbs : [Name -> Databases(Name) \union {None}], port : Nat, value : Nat, up : BOOLEAN]
History == [of : Name \union {None}, user : Nat]
Env == [pw : Nat, chpw : Nat, flavor : Flavors, port : Nat, value : Nat]
Record == [flavor : Flavors, port : Nat, value : Value]
Computer ==
  [pg : Postgres \union {None}, ch : History \union {None}, programs : BOOLEAN,
   env : Env \union {None}, unit : BOOLEAN, started : Env \union {None}, record : Record \union {None}]
Job ==
  [kind : Kinds, flavor : Flavors, pw : Nat, chpw : Nat, port : Nat, value : Value,
   existing : {"none", "keep", "fresh"}, was : [value : Value, serving : BOOLEAN]]
(* None is nothing of what it may stand in the place of.                   *)
ASSUME NoneAssumption ==
  None \notin Name \union Databases(Name) \union Postgres \union History \union Env \union Record

TypeOK ==
  /\ pc \in Computer
  /\ IF at = "idle" THEN job = NoJob ELSE job \in Job /\ at \in ToSet(Paths[job.kind])
  /\ last.job \in Job \union {NoJob}
  /\ held \subseteq {"database", "history"} \X Name
  /\ setups \in 0..MaxSetups /\ changes \in 0..MaxChanges /\ faults \in 0..MaxFaults

(* "The database was kept and can be reused by a new install"              *)
(* (maintenance.rs:178): a setup in which no call fails is not stopped by  *)
(* what an earlier one, finished or not, left; but for ClickHouse's user,  *)
(* whose password only the setup that makes it sets.                       *)
SetupAgainFinishes ==
  last.job.kind = "install" /\ last.end = "stuck" =>
    last.job.flavor = "clickhouse" /\ pc.ch # None /\ pc.ch.user # last.job.chpw

(* A database or a history SENTIENT has served is still there, under its   *)
(* own name or set aside, whatever is installed, repaired or removed,      *)
(* until its own data are deleted on purpose.                              *)
HeldIsThere(h) ==
  IF h[1] = "database" THEN pc.pg # None /\ Holds(pc.pg.dbs, h[2]) ELSE pc.ch # None /\ pc.ch.of = h[2]
KeptSurvives == \A h \in held : HeldIsThere(h)

(* The environment file, the only place with the passwords, has the ones   *)
(* the databases take, also after it was lost and they were set anew.      *)
CredentialsAgree ==
  at = "idle" /\ pc.record # None /\ pc.env # None =>
    /\ pc.env.pw = pc.pg.role
    /\ pc.env.flavor = "clickhouse" => pc.ch # None /\ pc.ch.user = pc.env.chpw

(* "If it does not start with the new settings, the previous ones are put  *)
(* back" (manager/settings.rs:101): the environment file's, PostgreSQL's   *)
(* and the record's are the new ones or the old ones together, and a       *)
(* SENTIENT that answered before does again.                               *)
SettingsTogether ==
  last.job.kind = "settings" /\ last.end # "killed" =>
    LET value == IF last.end = "done" THEN last.job.value ELSE last.job.was.value
    IN /\ pc.record.value = value /\ pc.env.value = value.app /\ pc.pg.value = value.pg
       /\ last.job.was.serving => Serving(pc)
=============================================================================
