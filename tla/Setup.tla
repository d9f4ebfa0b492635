------------------------------- MODULE Setup -------------------------------
(***************************************************************************)
(* Installing SENTIENT on Windows (app/installer, installer-core/native):  *)
(* the wizard's plan carried out task by task, what each task finds from   *)
(* earlier setups and leaves for later ones, the restart WSL2 needs, the   *)
(* databases an earlier installation left, kept or set aside, adopting an  *)
(* installation the manager has no record of, repairing, changing the      *)
(* settings and removing.                                                  *)
(*                                                                         *)
(* One action is one task with its calls.  A task looks at the computer    *)
(* before it acts ("already present"), so that a setup that failed can be  *)
(* run again; the properties are about every such sequence of setups.      *)
(***************************************************************************)
EXTENDS KeptDatabase, Sequences, FiniteSets, FiniteSetsExt, SequencesExt

CONSTANTS
  Plans,      \* what the wizard may be filled in with
  GivenSuper,   \* what an operator may give as PostgreSQL's admin password
  NewSuper,     \* the one the manager makes up
  MayFail,      \* the tasks of which a call may fail, or before which setup may be killed
  TearAt,       \* the tasks that a failure may leave half done
  LateResume,   \* the plan saved for a restart may be resumed after another setup
  MaxSetups,    \* bound: installations started, tried again and resumed
  MaxChanges,   \* bound: repairs, settings changes and removals
  MaxFaults     \* bound: failures

(* The tasks of each job, in their order: plan::run with native::setup,    *)
(* kept_db and native::deploy in it; maintenance::run_repair and           *)
(* run_uninstall; native::reconfigure.                                     *)
ClickhouseSteps == <<"wsl", "account", "provision", "history">>
DatabaseSteps ==
  <<"runtime", "postgres", "initdb", "port", "timescale", "preload", "service", "start", "extension", "tune">>
KeptSteps == <<"role", "kept">>
DeploySteps == <<"stage", "create", "passwords", "env", "schema", "partition", "register", "serve">>
FinishSteps == <<"admin", "secrets", "shortcuts", "record">>
InstallSteps == <<"manager">> \o ClickhouseSteps \o DatabaseSteps \o KeptSteps \o DeploySteps \o FinishSteps
ReconfigureSteps == <<"stop", "tune", "env", "register", "serve">>
UninstallSteps == <<"remove", "release">>
DeleteSteps == <<"remove", "clean", "forget">>
Paths ==
  [install |-> InstallSteps, repair |-> DeploySteps, reconfigure |-> ReconfigureSteps,
   uninstall |-> Append(UninstallSteps, "unrecord"), delete |-> Append(DeleteSteps, "unrecord")]
Kinds == DOMAIN Paths
Steps == UNION {ToSet(Paths[k]) : k \in Kinds}

ASSUME SetupAssumption ==
  /\ \A c \in Plans :
       /\ c.flavor \in Flavors /\ c.existing \in {"none", "keep", "fresh"}
       /\ c.pw \in Nat \ {0} /\ c.super \in Nat \ {0} /\ c.port \in Nat \ {0}
  /\ GivenSuper \subseteq Nat
  /\ NewSuper \in Nat \ ({0} \union GivenSuper \union {c.super : c \in Plans})
  /\ MayFail \subseteq Steps /\ TearAt \subseteq Steps /\ LateResume \in BOOLEAN
  /\ MaxSetups \in Nat /\ MaxChanges \in Nat /\ MaxFaults \in Nat

VARIABLES
  pc,      \* the computer
  at,      \* the task the running job is at
  job,     \* its plan
  last,    \* how the last job ended, and its plan
  held,    \* the databases and histories SENTIENT has served, unless deleted
  setups, changes, faults    \* used up of the bounds

vars == <<pc, at, job, last, held, setups, changes, faults>>

----------------------------------------------------------------------------
(* The computer.                                                           *)

(* SENTIENT's database is name 0; setup k sets one aside under name k.     *)
Name == 0..MaxSetups
NoDatabases == [n \in Name |-> None]
(* The secret store: SENTIENT's password and PostgreSQL's admin password;  *)
(* 0 is one that is not known or not stored.                               *)
Stored(db, super) == [db |-> db, super |-> super]
NoSecrets == Stored(0, 0)

NoJob == [kind |-> "none"]
NoEnv == None

(* A computer without SENTIENT, or with the databases an installation left *)
(* that was removed: its clusters accepted local connections unasked.      *)
Fresh ==
  [files |-> {}, partial |-> {}, cluster |-> None, service |-> "none", port |-> 0,
   ch |-> [ready |-> FALSE, account |-> FALSE, there |-> FALSE, db |-> None, aside |-> {}],
   env |-> NoEnv, up |-> FALSE, saved |-> NoSecrets, record |-> None, pending |-> None]
Left(c, shape) ==
  [Fresh EXCEPT
    !.files = {"postgres", "timescale"}, !.service = "demand",
    !.cluster = [super |-> c.super, port |-> c.port, trust |-> TRUE, preload |-> TRUE, role |-> c.pw,
      dbs |-> [NoDatabases EXCEPT ![0] = Finished(shape)]]]

Init ==
  /\ pc \in {Fresh} \union {Left(c, s) : c \in Plans, s \in Unpartitioned \union {"partitioned", "hypertable"}}
  /\ at = "idle" /\ job = NoJob
  /\ last = [end |-> "none", plan |-> NoJob]
  /\ held = IF pc.cluster = None THEN {} ELSE {<<"database", 0>>}
  /\ setups = 0 /\ changes = 0 /\ faults = 0

(* What SENTIENT's database is, and what its service needs to answer.      *)
Database == IF pc.cluster = None THEN None ELSE pc.cluster.dbs[0]
Answers(p) ==
  /\ p.env # NoEnv /\ p.cluster # None /\ p.port = p.env.port /\ p.port # 0
  /\ p.env.pw = p.cluster.role
  /\ p.cluster.dbs[0] # None /\ p.cluster.dbs[0].shape # "missing"
  /\ p.env.flavor = "clickhouse" => p.ch.db # None
(* service_env: what SENTIENT is told; record: what the manager keeps.     *)
Settings(plan) == [pw |-> plan.pw, flavor |-> plan.flavor, port |-> plan.port]
Recorded(plan) == [flavor |-> plan.flavor, port |-> plan.port]
(* psql as the superuser, over the port the job was told.                  *)
SignsIn(super, port) ==
  /\ pc.cluster # None /\ pc.port = port
  /\ pc.cluster.trust \/ super = pc.cluster.super
Sql == SignsIn(job.super, job.port)

----------------------------------------------------------------------------
(* Jobs.                                                                   *)
Applies(j, s) ==
  /\ s \in ToSet(ClickhouseSteps) => j.flavor = "clickhouse"
  /\ s \in ToSet(KeptSteps) => j.existing # "none"
  /\ s = "partition" => j.flavor = "stock"
(* The task after the one at position i of a job's path.                   *)
Later(j, i) == {k \in DOMAIN Paths[j.kind] : k > i /\ Applies(j, Paths[j.kind][k])}
StepAfter(j, i) == Paths[j.kind][Min(Later(j, i))]
Following == StepAfter(job, CHOOSE i \in DOMAIN Paths[job.kind] : Paths[job.kind][i] = at)

Begin(plan) == at' = Head(Paths[plan.kind]) /\ job' = plan
End(how) == at' = "idle" /\ job' = NoJob /\ last' = [end |-> how, plan |-> job]
Rest == UNCHANGED <<held, setups, changes, faults>>
(* A task that succeeds with the computer as new; the last of a repair or  *)
(* of a settings change ends it.                                           *)
Does(new) ==
  /\ pc' = new /\ Rest
  /\ IF at = Last(Paths[job.kind])
     THEN End("done")
     ELSE at' = Following /\ UNCHANGED <<job, last>>
Stops(how) == UNCHANGED pc /\ End(how) /\ Rest
(* A statement the job cannot go on without, of the server or of           *)
(* SENTIENT's database.                                                    *)
DoesSql(new) == IF Sql THEN Does(new) ELSE Stops("refused")
DoesInDatabase(new) == IF Sql /\ Database # None THEN Does(new) ELSE Stops("refused")

(* The wizard: SENTIENT must not be installed already, and the choice what *)
(* to do with a cluster is offered when there is one.                      *)
CanInstall == at = "idle" /\ setups < MaxSetups /\ pc.record = None /\ pc.env = NoEnv
StartInstall(plan) ==
  /\ setups' = setups + 1
  /\ Begin(plan)
  /\ UNCHANGED <<last, held, changes, faults>>
(* find_existing                                                           *)
Offers(c) == c.existing = "none" <=> pc.cluster = None
PlanOf(c) ==
  [kind |-> "install", flavor |-> c.flavor, pw |-> c.pw, super |-> c.super, port |-> c.port,
   existing |-> c.existing, before |-> Database, resumed |-> FALSE, moved |-> FALSE, n |-> setups + 1]
Install(c) ==
  /\ CanInstall /\ Offers(c)
  /\ StartInstall(PlanOf(c))
  /\ UNCHANGED pc
(* "Only reachable when the install failed: try again."  The wizard's      *)
(* fields are as they were, and so is the choice.                          *)
Retry ==
  /\ at = "idle" /\ setups < MaxSetups
  /\ last.plan.kind = "install" /\ last.end \in {"failed", "refused", "stuck"}
  /\ ~last.plan.resumed
  /\ StartInstall([last.plan EXCEPT !.n = setups + 1, !.moved = FALSE, !.before = Database])
  /\ UNCHANGED pc
(* Windows is restarted, which starts the services that start by           *)
(* themselves, and setup goes on with the plan it saved (take_pending).    *)
Booted(p) ==
  LET port == IF p.service = "auto" THEN p.cluster.port ELSE 0
      q == [p EXCEPT !.port = port]
  IN [q EXCEPT !.up = Answers(q), !.ch.ready = TRUE]
TakePending == [pc.pending EXCEPT !.resumed = TRUE, !.n = setups + 1]
Resume ==
  /\ at = "idle" /\ setups < MaxSetups
  /\ pc.pending # None
  /\ LateResume \/ pc.pending.n = setups
  /\ pc' = [Booted(pc) EXCEPT !.pending = None]
  /\ StartInstall(TakePending)

(* Add existing instance: the record is made from the service's settings   *)
(* (adopt::adopt, adopt_windows).  PostgreSQL's admin password is the one  *)
(* given, the one stored, or a new one that SENTIENT's role sets.          *)
Found == Recorded(pc.env)
Opens(super) == super # 0 /\ SignsIn(super, pc.env.port)
(* Variant with a fault: the one given, or the one stored, is not tried.   *)
AdminPasswordUntried(given) ==
  IF given # 0 THEN given ELSE IF pc.saved.super # 0 THEN pc.saved.super ELSE NewSuper
AdminPassword(given) ==
  IF given # 0 THEN IF Opens(given) THEN given ELSE 0
  ELSE IF Opens(pc.saved.super) THEN pc.saved.super ELSE NewSuper
AppReaches == pc.port = pc.env.port /\ pc.env.pw = pc.cluster.role /\ pc.cluster.dbs[0] # None
WithAdmin(given) ==
  IF given = 0 /\ AdminPassword(0) = NewSuper /\ AppReaches THEN [pc EXCEPT !.cluster.super = NewSuper] ELSE pc
(* adopt_windows::verify.                                                  *)
Verified == AppReaches /\ (pc.up => Answers(pc))
Candidate == pc.record = None /\ pc.env # NoEnv
Adopt(given) ==
  /\ at = "idle" /\ Candidate
  /\ changes < MaxChanges /\ changes' = changes + 1
  /\ LET super == AdminPassword(given)
     IN pc' = IF super # 0 /\ Verified
          THEN [WithAdmin(given) EXCEPT !.saved = Stored(pc.env.pw, super), !.record = Found]
          ELSE WithAdmin(given)
  /\ UNCHANGED <<at, job, last, held, setups, faults>>

(* The jobs of an installation there is a record of.  Repair and a change  *)
(* of the settings need its passwords (native_config_with_secrets).        *)
HasSecrets == pc.saved.db # 0 /\ pc.saved.super # 0
FromRecord(kind) ==
  [kind |-> kind, flavor |-> pc.record.flavor, pw |-> pc.saved.db, super |-> pc.saved.super,
   port |-> pc.record.port, existing |-> "none", before |-> Database, resumed |-> FALSE, moved |-> FALSE,
   n |-> 0]
StartChange(kind) ==
  /\ at = "idle" /\ pc.record # None
  /\ changes < MaxChanges /\ changes' = changes + 1
  /\ kind \in {"repair", "reconfigure"} => HasSecrets
  /\ Begin(FromRecord(kind))
  /\ UNCHANGED <<pc, last, held, setups, faults>>
(* native::control, in the order of the services' dependency.              *)
Control(run) ==
  /\ at = "idle" /\ pc.env # NoEnv
  /\ changes < MaxChanges /\ changes' = changes + 1
  /\ LET p == [pc EXCEPT !.port = IF run THEN pc.cluster.port ELSE 0]
     IN pc' = [p EXCEPT !.up = run /\ Answers(p)]
  /\ UNCHANGED <<at, job, last, held, setups, faults>>

----------------------------------------------------------------------------
(* The tasks of an installation.                                           *)
Add(f) == [pc EXCEPT !.files = @ \union {f}]
InstallManager == at = "manager" /\ Does(Add("manager"))

(* ClickHouse in WSL2, under an account of its own (plan.rs,               *)
(* clickhouse_wsl.rs).  Windows may have to restart first.                 *)
SavePending == [pc EXCEPT !.pending = job]
EnableWsl ==
  /\ at = "wsl"
  /\ \/ Does([pc EXCEPT !.ch.ready = TRUE])
     \/ ~pc.ch.ready /\ pc' = SavePending /\ End("restart") /\ Rest
MakeAccount == at = "account" /\ Does([pc EXCEPT !.ch.account = TRUE])
(* A job of the account, in its own session (run_as_account).              *)
AsAccount(new) == IF pc.ch.ready /\ pc.ch.account THEN Does(new) ELSE Stops("stuck")
Provision == at = "provision" /\ AsAccount([pc EXCEPT !.ch.there = TRUE])
(* set_aside_clickhouse_history, unless the database is kept.              *)
SetAsideHistory ==
  /\ at = "history"
  /\ Does(IF job.existing = "keep" \/ pc.ch.db = None
          THEN pc
          ELSE [pc EXCEPT !.ch.db = None, !.ch.aside = @ \union {pc.ch.db}])

(* native::setup: PostgreSQL's files and its cluster, each only when       *)
(* missing.                                                                *)
InstallRuntime == at = "runtime" /\ Does(pc)
(* obtain: a file that was downloaded before is used again, whole or not.  *)
Obtain(f) == IF f \in pc.partial THEN Stops("stuck") ELSE Does(Add(f))
InstallPostgres ==
  /\ at = "postgres"
  /\ IF "postgres" \in pc.files THEN Does(pc) ELSE Obtain("postgres")
NewCluster ==
  [super |-> job.super, port |-> 0, trust |-> FALSE, preload |-> FALSE, role |-> 0, dbs |-> NoDatabases]
(* Variant with a fault: the data folder is always made anew.              *)
InitDbAlways == at = "initdb" /\ Does([pc EXCEPT !.cluster = NewCluster])
InitDb ==
  /\ at = "initdb"
  /\ Does(IF pc.cluster = None THEN [pc EXCEPT !.cluster = NewCluster] ELSE pc)
(* set_pg_port: a server that runs takes it up only at a restart.          *)
SetPort ==
  /\ at = "port"
  /\ pc' = [pc EXCEPT !.cluster.port = job.port]
  /\ at' = Following /\ job' = [job EXCEPT !.moved = pc.cluster.port # job.port]
  /\ UNCHANGED last /\ Rest
(* TimescaleDB's files, and with them the line that loads it.              *)
InstallTimescale ==
  /\ at = "timescale"
  /\ IF "timescale" \in pc.files
     THEN pc' = pc /\ at' = "service" /\ UNCHANGED <<job, last>> /\ Rest
     ELSE Obtain("timescale")
Preload == at = "preload" /\ Does([pc EXCEPT !.cluster.preload = TRUE])
RegisterPostgres ==
  /\ at = "service"
  /\ Does(IF pc.service = "none" THEN [pc EXCEPT !.service = "auto"] ELSE pc)
(* The service is stopped only when nothing that depends on it runs.       *)
Stopped(port) == IF pc.up THEN port ELSE 0
Started(port) == IF port = 0 THEN pc.cluster.port ELSE port
StartPostgres ==
  /\ at = "start"
  /\ LET port == Started(IF job.moved THEN Stopped(pc.port) ELSE pc.port)
     IN IF port = job.port
        THEN Does([pc EXCEPT !.port = port])
        ELSE pc' = [pc EXCEPT !.port = port] /\ End("stuck") /\ Rest
EnableTimescale ==
  /\ at = "extension"
  /\ IF Sql /\ ~pc.cluster.preload THEN Stops("stuck") ELSE DoesSql(pc)
(* apply_pg_tuning: ALTER SYSTEM, and the server restarted.                *)
Tune ==
  /\ at = "tune"
  /\ DoesSql([pc EXCEPT !.port = Started(Stopped(@))])

(* prepare_existing: the role's password; then the database is checked,    *)
(* and converted, or set aside.                                            *)
(* Variant with a fault: left to the statement that makes the role.        *)
SyncNoRole == at = "role" /\ DoesSql(pc)
SyncRolePassword ==
  /\ at = "role"
  /\ DoesSql(IF pc.cluster.role = 0 THEN pc ELSE [pc EXCEPT !.cluster.role = job.pw])
PrepareExisting ==
  /\ at = "kept"
  /\ IF Refuses(pc.cluster.dbs, job.existing, job.flavor) THEN Stops("refused")
     ELSE DoesSql([pc EXCEPT !.cluster.dbs = Prepared(@, job.existing, job.flavor, job.n)])

(* native::deploy.  The package: SENTIENT's programs and the wrapper its   *)
(* service runs under; it counts as unpacked when the first are there.     *)
Prerequisites == {"postgres", "timescale"} \subseteq pc.files /\ pc.service # "none"
Programs == "programs" \in pc.files
Stage ==
  /\ at = "stage"
  /\ IF ~Prerequisites THEN Stops("stuck")
     ELSE IF Programs THEN Does(pc)
     ELSE IF job.kind = "repair" THEN Stops("refused")
     ELSE Does([pc EXCEPT !.files = @ \union {"programs", "wrapper"}])
(* CREATE USER and CREATE DATABASE, whose errors are taken for "already    *)
(* there"; CREATE EXTENSION, whose error is not.                           *)
Create ==
  /\ at = "create"
  /\ IF ~Sql
     THEN IF job.flavor = "timescaledb" THEN Stops("refused") ELSE Does(pc)
     ELSE Does([pc EXCEPT
       !.cluster.role = IF @ = 0 THEN job.pw ELSE @,
       !.cluster.dbs[0] = IF @ = None THEN Created(job.n) ELSE @])
(* pg_hba_without_trust.                                                   *)
WithoutTrust == [pc EXCEPT !.cluster.trust = FALSE]
(* require_password_auth: put back when the superuser cannot sign in.      *)
RequirePasswords ==
  /\ at = "passwords"
  /\ Does(IF Sql /\ job.super = pc.cluster.super THEN WithoutTrust ELSE pc)
WriteEnv == at = "env" /\ Does(pc)
(* sentient-install.exe (external): an installed database makes it fail,   *)
(* which is taken for "already installed".                                 *)
Installed(db) == WithSchema(db, IF job.flavor = "timescaledb" THEN "hypertable" ELSE "plain")
AppSignsIn == pc.port = job.port /\ pc.cluster.role = job.pw /\ Database # None
InstallSchema ==
  /\ at = "schema"
  /\ IF ~Programs THEN Stops("stuck")
     ELSE IF ~AppSignsIn THEN Does(pc)
     ELSE Does([pc EXCEPT
       !.cluster.dbs[0] = Installed(@),
       !.ch.db = IF job.flavor = "clickhouse" /\ pc.ch.there /\ @ = None THEN pc.cluster.dbs[0].of ELSE @])
(* stock_ts_kv_sql: a plain history becomes a partitioned one, unless it   *)
(* has rows.                                                               *)
Partition ==
  /\ at = "partition"
  /\ DoesInDatabase(IF Database.shape = "plain" THEN [pc EXCEPT !.cluster.dbs[0].shape = "partitioned"] ELSE pc)
(* register_app_service: the descriptor has SENTIENT's settings in it.     *)
Register ==
  /\ at = "register"
  /\ IF "wrapper" \notin pc.files THEN Stops("stuck")
     ELSE Does([pc EXCEPT !.env = Settings(job)])
(* Starting the service, unless it runs, and waiting until it answers.     *)
(* reconfigure leaves the waiting to its caller.                           *)
Serves ==
  (IF Database = None THEN {} ELSE {<<"database", Database.of>>}) \union
  (IF pc.env.flavor = "clickhouse" /\ pc.ch.db # None THEN {<<"history", pc.ch.db>>} ELSE {})
Serve ==
  /\ at = "serve"
  /\ IF pc.up \/ Answers(pc)
     THEN /\ pc' = [pc EXCEPT !.up = TRUE]
          /\ held' = held \union Serves
          /\ IF job.kind = "install" THEN at' = Following /\ UNCHANGED <<job, last>> ELSE End("done")
          /\ UNCHANGED <<setups, changes, faults>>
     ELSE Stops(IF Sql THEN "stuck" ELSE "refused")

(* set_admin_account, which replaces the administrator the schema made.    *)
SetAdmin ==
  /\ at = "admin"
  /\ DoesInDatabase([pc EXCEPT !.cluster.dbs[0] = WithAdministrator(@)])
(* The services start with Windows, and the secret store has the passwords. *)
SetAutostart == [pc EXCEPT !.service = "auto"]
SaveSecrets ==
  /\ at = "secrets"
  /\ Does([SetAutostart EXCEPT !.saved = Stored(job.pw, job.super)])
MakeShortcuts == at = "shortcuts" /\ Does(pc)
(* The record: of an installation its last task, of a removal its end.     *)
SaveRecord ==
  /\ at = "record"
  /\ Does([pc EXCEPT !.record = Recorded(job)])

----------------------------------------------------------------------------
(* The tasks of the other jobs.                                            *)
StopServer == at = "stop" /\ Does([pc EXCEPT !.up = FALSE])
(* remove_platform: SENTIENT's service and its programs.                   *)
RemovePlatform ==
  /\ at = "remove"
  /\ Does([pc EXCEPT !.up = FALSE, !.env = NoEnv, !.files = @ \ {"programs", "wrapper"}])
(* Keeping the data, PostgreSQL is stopped and stays.                      *)
Release ==
  /\ at = "release"
  /\ Does([pc EXCEPT !.port = 0, !.service = IF @ = "none" THEN @ ELSE "demand"])
(* cleanup: everything goes, unless Windows still has it open.             *)
Clean ==
  /\ at = "clean"
  /\ pc' = [pc EXCEPT !.port = 0, !.service = "none", !.cluster = None, !.files = @ \ {"postgres", "timescale"}]
  /\ held' = {h \in held : h[1] # "database"}
  /\ at' = Following
  /\ UNCHANGED <<job, last, setups, changes, faults>>
(* ClickHouse's account with its disk, then the secrets.                   *)
AccountRemoved == [pc.ch EXCEPT !.account = FALSE, !.there = FALSE, !.db = None, !.aside = {}]
Forget ==
  /\ at = "forget"
  /\ pc' = [pc EXCEPT !.ch = AccountRemoved, !.saved = NoSecrets]
  /\ held' = {}
  /\ at' = Following
  /\ UNCHANGED <<job, last, setups, changes, faults>>
RemoveRecord ==
  /\ at = "unrecord"
  /\ Does([pc EXCEPT !.record = None, !.files = @ \ {"manager"}])

----------------------------------------------------------------------------
(* What a task leaves when it is interrupted, besides nothing.             *)
Torn(s) ==
  CASE s = "stage" /\ Prerequisites /\ ~Programs -> [pc EXCEPT !.files = @ \union {"programs"}]
    [] s \in {"postgres", "timescale"} \ pc.files -> [pc EXCEPT !.partial = @ \union {s}]
    [] s = "start" -> [pc EXCEPT !.port = IF job.moved THEN Stopped(@) ELSE @]
    [] s = "tune" /\ Sql -> [pc EXCEPT !.port = Stopped(@)]
    [] s = "clean" -> [pc EXCEPT !.port = 0, !.service = "none"]
    [] OTHER -> pc
(* A call of a task fails, or setup is cancelled or killed before it.      *)
Fail ==
  /\ faults < MaxFaults /\ faults' = faults + 1
  /\ \/ at \in MayFail /\ pc' = pc
     \/ at \in TearAt \ {"secrets"} /\ pc' = Torn(at)
  /\ End("failed")
  /\ UNCHANGED <<held, setups, changes>>
(* Saving passwords fails: that is logged, and the installation goes on,   *)
(* with the ones an earlier installation saved if it did.                  *)
SecretsUnsaved ==
  /\ at = "secrets" /\ (at \in TearAt \/ pc.saved = NoSecrets)
  /\ faults < MaxFaults /\ faults' = faults + 1
  /\ \E db \in {pc.saved.db, job.pw}, super \in {pc.saved.super, job.super} :
       pc' = [SetAutostart EXCEPT !.saved = Stored(db, super)]
  /\ at' = Following
  /\ UNCHANGED <<job, last, held, setups, changes>>

Task ==
  \/ InstallManager \/ EnableWsl \/ MakeAccount \/ Provision \/ SetAsideHistory
  \/ InstallRuntime \/ InstallPostgres \/ InitDb \/ SetPort \/ InstallTimescale \/ Preload
  \/ RegisterPostgres \/ StartPostgres \/ EnableTimescale \/ Tune
  \/ SyncRolePassword \/ PrepareExisting
  \/ Stage \/ Create \/ RequirePasswords \/ WriteEnv \/ InstallSchema \/ Partition \/ Register \/ Serve
  \/ SetAdmin \/ SaveSecrets \/ MakeShortcuts \/ SaveRecord
  \/ StopServer \/ RemovePlatform \/ Release \/ Clean \/ Forget \/ RemoveRecord
Operator ==
  \/ \E c \in Plans : Install(c)
  \/ Retry \/ Resume
  \/ \E g \in GivenSuper : Adopt(g)
  \/ \E k \in Kinds \ {"install"} : StartChange(k)
  \/ \E run \in BOOLEAN : Control(run)
Next == Operator \/ Task \/ Fail \/ SecretsUnsaved
Spec == Init /\ [][Next]_vars

----------------------------------------------------------------------------
(* What the variables are.                                                 *)
Cluster ==
  [super : Nat, port : Nat, trust : BOOLEAN, preload : BOOLEAN, role : Nat,
   dbs : [Name -> Databases(Name) \union {None}]]
Clickhouse ==
  [ready : BOOLEAN, account : BOOLEAN, there : BOOLEAN, db : Name \union {None}, aside : SUBSET Name]
Env == [pw : Nat, flavor : Flavors, port : Nat]
Installation == [flavor : Flavors, port : Nat]
Job ==
  [kind : Kinds, flavor : Flavors, pw : Nat, super : Nat, port : Nat, existing : {"none", "keep", "fresh"},
   before : Databases(Name) \union {None}, resumed : BOOLEAN, moved : BOOLEAN, n : Name]
Computer ==
  [files : SUBSET {"manager", "postgres", "timescale", "programs", "wrapper"},
   partial : SUBSET {"postgres", "timescale"}, cluster : Cluster \union {None},
   service : {"none", "auto", "demand"}, port : Nat, ch : Clickhouse, env : Env \union {None}, up : BOOLEAN,
   saved : [db : Nat, super : Nat], record : Installation \union {None}, pending : Job \union {None}]
(* None is nothing of what it may stand in the place of.                   *)
ASSUME NoneAssumption ==
  None \notin Name \union Databases(Name) \union Cluster \union Env \union Installation \union Job

TypeOK ==
  /\ pc \in Computer
  /\ IF at = "idle" THEN job = NoJob ELSE job \in Job /\ at \in ToSet(Paths[job.kind])
  /\ last.end \in {"none", "done", "failed", "refused", "stuck", "restart"}
  /\ last.plan \in Job \union {NoJob}
  /\ held \subseteq {"database", "history"} \X Name
  /\ setups \in 0..MaxSetups /\ changes \in 0..MaxChanges /\ faults \in 0..MaxFaults

(* "Anything already installed stays on this computer; run setup again to  *)
(* finish or remove it" (installer/mod.rs:661): a setup in which no call   *)
(* fails and no answer of the operator is refused is never stopped by what *)
(* an earlier one left.                                                    *)
SetupAgainFinishes == last.plan.kind = "install" => last.end # "stuck"

(* Whatever setups fail, are tried again, keep or start fresh: a database  *)
(* or a history SENTIENT has served is still there, under its own name or  *)
(* set aside, until its data are deleted on purpose.                       *)
HeldIsThere(h) ==
  IF h[1] = "database"
  THEN pc.cluster # None /\ Holds(pc.cluster.dbs, h[2])
  ELSE h[2] = pc.ch.db \/ h[2] \in pc.ch.aside
KeptSurvives == \A h \in held : HeldIsThere(h)

(* The service's settings, PostgreSQL and the manager's secret store are   *)
(* written by different tasks: once there is a record, SENTIENT can sign   *)
(* in, and so can the manager.                                             *)
CredentialsAgree ==
  at = "idle" /\ pc.record # None /\ pc.env # NoEnv =>
    /\ pc.env.pw = pc.cluster.role /\ pc.env.port = pc.cluster.port
    /\ pc.saved.db \in {0, pc.env.pw}
    /\ pc.saved.super = 0 \/ pc.cluster.trust \/ pc.saved.super = pc.cluster.super

(* PostgreSQL only keeps a plain history with rows "as is" (kept_db.rs:17), *)
(* though SENTIENT cannot write to it there (native.rs:1067-1069).          *)
AsFound(plan) == IF plan.flavor = "stock" /\ plan.existing = "keep" THEN {"filled"} ELSE {}
(* An installation that ended is the one that was chosen: the history has  *)
(* the shape its type needs, or is one that is kept as it was found; a     *)
(* database that was kept is the one in service and one set aside is not;  *)
(* and the administrator is the operator's, not the schema's.              *)
JustInstalled == at = "idle" /\ last.end = "done" /\ last.plan.kind = "install"
InstalledAsChosen ==
  JustInstalled =>
    LET plan == last.plan
    IN /\ pc.record.flavor = plan.flavor /\ pc.env.flavor = plan.flavor
       /\ Database.shape \in Shapes(plan.flavor) \union AsFound(plan) /\ Database.admin = "chosen"
       /\ plan.before # None =>
            IF plan.existing = "fresh" THEN Database.of # plan.before.of ELSE Database.of = plan.before.of
=============================================================================
