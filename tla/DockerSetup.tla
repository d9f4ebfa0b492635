---------------------------- MODULE DockerSetup ----------------------------
(***************************************************************************)
(* SENTIENT in Docker on Linux (installer-core/distro, distro/adopt): the  *)
(* stack installed by the wizard, over the volumes an earlier one left or  *)
(* not; a stack the operator started from a compose file of his own,       *)
(* adopted as it runs and taken over later; repairing it, changing its     *)
(* settings, starting and stopping it, and removing it.                    *)
(*                                                                         *)
(* The passwords are nowhere but in the compose file and the containers,   *)
(* and each of the two may be missing.  One action is one call of docker   *)
(* or of psql, with what the code does before the next.                    *)
(***************************************************************************)
EXTENDS KeptDatabase, Sequences, FiniteSets, SequencesExt

CONSTANTS
  Plans,        \* what the wizard may be filled in with
  Values,       \* values of a setting; 0 is its default
  Unfit,        \* those SENTIENT, or PostgreSQL, does not start with
  MayFail,      \* the jobs' steps that may fail or be cancelled
  MayTear,      \* those that may fail half way
  MayDie,       \* those before which the manager may be killed
  MaxSetups,    \* bound: installations started and tried again
  MaxChanges,   \* bound: the operator's other actions
  MaxFaults     \* bound: failures

(* The steps of each job: plan::run with distro::setup, deploy_with and    *)
(* prepare_existing in it; run_repair, run_uninstall; settings::apply;     *)
(* take_over_compose with adopt::take_over in it.                          *)
KeptSteps == <<"pgup", "role", "kept", "create">>
InstallSteps ==
  <<"docker", "write", "pull">> \o KeptSteps \o <<"schema", "up", "serve", "admin", "record">>
SettingsSteps == <<"write", "up", "serve", "record", "back">>
TakeOverSteps == <<"down", "write", "up", "serve", "record", "back">>
Paths ==
  [install |-> InstallSteps, settings |-> SettingsSteps, takeover |-> TakeOverSteps,
   repair |-> <<"write", "up">>, start |-> <<"start">>,
   uninstall |-> <<"remove", "unrecord">>, delete |-> <<"remove", "unrecord">>]
Kinds == DOMAIN Paths
Steps == UNION {{k} \X ToSet(Paths[k]) : k \in Kinds}

ASSUME DockerSetupAssumption ==
  /\ \A c \in Plans :
       c.flavor \in Flavors /\ c.existing \in {"none", "keep", "fresh"} /\ c.pw \in Nat \ {0}
  /\ 0 \in Values /\ Values \subseteq Nat /\ Unfit \subseteq Values \ {0}
  /\ MayFail \subseteq Steps /\ MayTear \subseteq Steps /\ MayDie \subseteq Steps
  /\ MaxSetups \in Nat /\ MaxChanges \in Nat /\ MaxFaults \in Nat

VARIABLES
  pc,      \* Docker, its volumes and containers, the files and the record
  at,      \* the step the running job is at
  job,     \* what it was started with
  last,    \* how the last job ended, and what it was
  held,    \* the databases and histories SENTIENT has served, unless deleted
  setups, changes, faults    \* used up of the bounds

vars == <<pc, at, job, last, held, setups, changes, faults>>

----------------------------------------------------------------------------
(* The computer.  A compose file and a container have settings; first is   *)
(* the password PostgreSQL gives SENTIENT's role in an empty volume.       *)
Settings(pw, flavor, value) == [pw |-> pw, first |-> pw, flavor |-> flavor, value |-> value]

Name == 0..MaxSetups
NoDatabases == [n \in Name |-> None]
NoJob == [kind |-> "none"]
Nothing == [end |-> "none", job |-> NoJob]

(* vol: PostgreSQL's volume, with SENTIENT's role; hist: whose history     *)
(* ClickHouse's volume holds; pg and app: the containers of PostgreSQL and *)
(* SENTIENT; own and other: the manager's and the operator's compose file. *)
Fresh ==
  [docker |-> FALSE, images |-> FALSE, vol |-> None, hist |-> None, pg |-> None, app |-> None,
   own |-> None, other |-> None, record |-> None]
Volume(pw, db) == [role |-> pw, dbs |-> [NoDatabases EXCEPT ![0] = db]]
Container(from, set) == [from |-> from, set |-> set, up |-> TRUE]
(* The history the image's schema installer makes (external).              *)
Makes(flavor) ==
  CASE flavor = "stock" -> {"plain", "partitioned"} [] flavor = "timescaledb" -> {"hypertable"}
    [] flavor = "clickhouse" -> {"plain"}
(* What an installation that was removed left, and a stack the operator    *)
(* started from his own compose file, with a password he may have changed  *)
(* since.                                                                  *)
Left(c, shape) ==
  LET set == Settings(c.pw, c.flavor, 0)
  IN [Fresh EXCEPT !.docker = TRUE, !.images = TRUE, !.own = set,
       !.vol = Volume(c.pw, Finished(shape)), !.hist = IF c.flavor = "clickhouse" THEN 0 ELSE None]
Stack(c, first, shape) ==
  LET set == [Settings(c.pw, c.flavor, 0) EXCEPT !.first = first]
  IN [Left(c, shape) EXCEPT !.own = None, !.other = set,
       !.pg = Container("other", set), !.app = Container("other", set)]

Database == IF pc.vol = None THEN None ELSE pc.vol.dbs[0]
(* SENTIENT is restarted until it answers, and then answers for good.      *)
Serving(p) ==
  /\ p.app # None /\ p.app.up /\ p.pg # None /\ p.pg.up /\ p.vol # None
  /\ p.app.set.pw = p.vol.role /\ p.app.set.value \notin Unfit
  /\ p.vol.dbs[0] # None /\ p.vol.dbs[0].shape # "missing"
Serves(p) ==
  IF ~Serving(p) THEN {}
  ELSE {<<"database", p.vol.dbs[0].of>>} \union
         (IF p.app.set.flavor = "clickhouse" /\ p.hist # None THEN {<<"history", p.hist>>} ELSE {})

Init ==
  /\ \E c, d \in Plans : \E shape \in Makes(c.flavor) :
       pc \in {Fresh, Left(c, shape), Stack(c, d.pw, shape)}
  /\ at = "idle" /\ job = NoJob /\ last = Nothing
  /\ held = (IF pc.vol = None THEN {} ELSE {<<"database", 0>>}) \union
            (IF pc.hist = None THEN {} ELSE {<<"history", 0>>})
  /\ setups = 0 /\ changes = 0 /\ faults = 0

(* A compose project is known by its file (compose_cmd): the containers of *)
(* another one with the same names are in its way.                         *)
From(external) == IF external THEN "other" ELSE "own"
File(p, from) == IF from = "own" THEN p.own ELSE p.other
Free(p, from) == \A c \in {p.app, p.pg} : c # None => c.from = from
(* docker compose up -d, of PostgreSQL alone or of everything: the image   *)
(* makes SENTIENT's role and database in an empty volume only.             *)
PgUp(p, from, set) ==
  [p EXCEPT !.pg = Container(from, set),
            !.vol = IF @ = None THEN Volume(set.first, Created(setups)) ELSE @]
Up(p, from) ==
  LET set == File(p, from) IN [PgUp(p, from, set) EXCEPT !.app = Container(from, set), !.images = TRUE]
CanUp(p, from) == File(p, from) # None /\ Free(p, from)
Down(p) == [p EXCEPT !.app = None, !.pg = None]

(* read_secrets: from the compose file, or from the containers when it is  *)
(* missing or not the manager's; 0 when there are none either.             *)
(* Variant with a fault: PostgreSQL's container is asked first.            *)
ContainerSecretsOfPostgres(p) ==
  IF p.pg # None THEN p.pg.set.first ELSE IF p.app # None THEN p.app.set.pw ELSE 0
ContainerSecrets(p) ==
  IF p.app # None THEN p.app.set.pw ELSE IF p.pg # None THEN p.pg.set.first ELSE 0
Secrets(p, external) == IF ~external /\ p.own # None THEN p.own.pw ELSE ContainerSecrets(p)

----------------------------------------------------------------------------
(* Jobs.                                                                   *)
Applies(s) == s \in ToSet(KeptSteps) => job.existing # "none"
(* The step after the one at position i of the job's path.                 *)
Later(i) == {k \in DOMAIN Paths[job.kind] : k > i /\ Applies(Paths[job.kind][k])}
StepAfter(i) == Paths[job.kind][Min(Later(i))]
Following == StepAfter(CHOOSE i \in DOMAIN Paths[job.kind] : Paths[job.kind][i] = at)
Begin(new) == at' = Head(Paths[new.kind]) /\ job' = new /\ last' = Nothing
End(how) == at' = "idle" /\ job' = NoJob /\ last' = [end |-> how, job |-> job]
Ends == at = "record" \/ (at # "back" /\ at = Last(Paths[job.kind]))
Bounds == UNCHANGED <<setups, changes, faults>>
(* A step that succeeds with the computer as new, and one that does not:   *)
(* a settings change and a take-over that have begun are put back.         *)
Does(new) ==
  /\ pc' = new /\ held' = held \union Serves(new)
  /\ IF Ends THEN End("done") ELSE at' = Following /\ UNCHANGED <<job, last>>
(* Variant with a fault: only when SENTIENT does not answer.               *)
PutsBackUnanswered == at = "serve" /\ job.kind \in {"settings", "takeover"}
PutsBack == at \in {"write", "up", "serve"} /\ job.kind \in {"settings", "takeover"}
Fails(how, new) ==
  /\ pc' = new /\ held' = held \union Serves(new)
  /\ IF PutsBack THEN at' = "back" /\ UNCHANGED <<job, last>> ELSE End(how)

(* The wizard: no SENTIENT is there already, and what to do with a volume  *)
(* is asked when there is one.                                             *)
PlanOf(c) ==
  [kind |-> "install", flavor |-> c.flavor, pw |-> c.pw, value |-> 0, external |-> FALSE,
   existing |-> c.existing, before |-> Database]
StartInstall(plan) ==
  /\ setups < MaxSetups /\ setups' = setups + 1
  /\ Begin(plan) /\ UNCHANGED <<pc, held, changes, faults>>
Install(c) ==
  /\ at = "idle" /\ pc.record = None /\ pc.app = None
  /\ c.existing = "none" <=> pc.vol = None
  /\ StartInstall(PlanOf(c))
(* ... which stays open when the installation fails, its fields as they    *)
(* were.                                                                   *)
Retry ==
  /\ at = "idle" /\ last.job.kind = "install" /\ last.end \in {"failed", "refused", "stuck"}
  /\ StartInstall([last.job EXCEPT !.before = Database])

(* The manager's other jobs, of the installation it has a record of; was   *)
(* is how things were.                                                     *)
Change == at = "idle" /\ changes < MaxChanges /\ changes' = changes + 1
FromRecord(kind, value) ==
  [kind |-> kind, flavor |-> pc.record.flavor, value |-> value, external |-> pc.record.external,
   pw |-> Secrets(pc, pc.record.external), existing |-> "none",
   was |-> [value |-> pc.record.value, serving |-> Serving(pc)]]
StartJob(plan) == Change /\ Begin(plan) /\ UNCHANGED <<pc, held, setups, faults>>
Readable == pc.record # None /\ Secrets(pc, pc.record.external) # 0
(* run_repair: without readable passwords, what is there is started.       *)
Repair == pc.record # None /\ StartJob(FromRecord(IF Readable THEN "repair" ELSE "start", pc.record.value))
ApplySettings(v) == Readable /\ pc.record.value # v /\ StartJob(FromRecord("settings", v))
TakeOver == Readable /\ pc.record.external /\ StartJob(FromRecord("takeover", pc.record.value))
Uninstall(kind) == pc.record # None /\ StartJob(FromRecord(kind, pc.record.value))

(* Add existing instance: what the containers say of themselves (describe), *)
(* when PostgreSQL's is one of them, its database can be reached and a      *)
(* SENTIENT that is up answers (verify).                                    *)
Candidate == pc.record = None /\ pc.app # None /\ pc.pg # None
OwnStack(app) == app.from = "own"
Describe(app) == [flavor |-> app.set.flavor, value |-> app.set.value, external |-> ~OwnStack(app)]
Verified == Database # None /\ pc.pg.up /\ (pc.app.up => Serving(pc))
Adopt ==
  /\ Change /\ Candidate /\ Verified
  /\ pc' = [pc EXCEPT !.record = Describe(pc.app)] /\ last' = Nothing
  /\ UNCHANGED <<at, job, held, setups, faults>>
(* Start and stop (control): compose, in the project the record names.     *)
Stopped(p, from) ==
  LET stop(c) == IF c # None /\ c.from = from THEN [c EXCEPT !.up = FALSE] ELSE c
  IN [p EXCEPT !.app = stop(@), !.pg = stop(@)]
Control(run) ==
  /\ Change /\ pc.record # None
  /\ LET from == From(pc.record.external)
         new == IF File(pc, from) = None THEN pc
                ELSE IF ~run THEN Stopped(pc, from)
                ELSE IF Free(pc, from) THEN Up(pc, from) ELSE pc
     IN pc' = new /\ held' = held \union Serves(new)
  /\ last' = Nothing /\ UNCHANGED <<at, job, setups, faults>>
(* Someone deletes a compose file, or the record is lost.                  *)
Lose(what) ==
  /\ Change /\ pc[what] # None
  /\ pc' = [pc EXCEPT ![what] = None] /\ last' = Nothing
  /\ UNCHANGED <<at, job, held, setups, faults>>

----------------------------------------------------------------------------
(* The steps of an installation.                                           *)
(* setup_linux: Docker installed and started, the user let in.             *)
SetUpDocker == at = "docker" /\ Does([pc EXCEPT !.docker = TRUE])
(* write_stack_files: the operator's compose file is never written.  A     *)
(* repair and a settings change write theirs from what they read.          *)
Write ==
  /\ at = "write"
  /\ IF job.external /\ job.kind # "takeover" THEN Fails("refused", pc)
     ELSE Does([pc EXCEPT !.own = Settings(job.pw, job.flavor, job.value)])
Pull == at = "pull" /\ Does([pc EXCEPT !.images = TRUE])
(* prepare_existing.                                                       *)
StartPostgres ==
  /\ at = "pgup"
  /\ IF Free(pc, "own") THEN Does(PgUp(pc, "own", pc.own)) ELSE Fails("stuck", pc)
(* Variant with a fault: the role keeps the password it has.               *)
SyncNoRole == at = "role" /\ Does(pc)
SyncRole == at = "role" /\ Does([pc EXCEPT !.vol.role = job.pw])
PrepareExisting ==
  /\ at = "kept"
  /\ IF Refuses(pc.vol.dbs, job.existing, job.flavor) THEN Fails("refused", pc)
     ELSE IF Database # None /\ job.existing = "fresh"
     THEN Does([pc EXCEPT !.vol.dbs = Prepared(@, job.existing, job.flavor, setups)])
     ELSE /\ pc' = [pc EXCEPT !.vol.dbs = Prepared(@, job.existing, job.flavor, setups)]
          /\ at' = "schema" /\ UNCHANGED <<job, last, held>>
CreateDatabase == at = "create" /\ Does([pc EXCEPT !.vol.dbs[0] = Created(setups)])
(* The one-time installer, in a container of its own that brings the       *)
(* databases up: it makes the schema in an empty database, and its refusal *)
(* of any other is expected.  ClickHouse's tables are made if missing.     *)
InstallSchema ==
  /\ at = "schema"
  /\ IF ~Free(pc, "own") THEN Does(pc)
     ELSE LET p == PgUp(pc, "own", pc.own)
          IN IF p.vol.role # p.own.pw THEN Does(p)
             ELSE \E shape \in Makes(job.flavor) :
                    Does([p EXCEPT !.vol.dbs[0] = WithSchema(@, shape),
                                   !.hist = IF job.flavor = "clickhouse" /\ @ = None /\ p.vol.dbs[0] # None
                                            THEN p.vol.dbs[0].of ELSE @])
ComposeUp ==
  /\ at = "up"
  /\ IF CanUp(pc, "own") THEN Does(Up(pc, "own")) ELSE Fails("stuck", pc)
(* The wait for SENTIENT to answer.                                        *)
Answers == Serving(pc)
Serve == at = "serve" /\ IF Answers THEN Does(pc) ELSE Fails("stuck", pc)
SetAdmin == at = "admin" /\ Does([pc EXCEPT !.vol.dbs[0] = WithAdministrator(@)])
(* The record: of an installation, of changed settings, and without the    *)
(* operator's project when it was taken over.                              *)
SaveRecord ==
  /\ at = "record"
  /\ Does([pc EXCEPT !.record = [flavor |-> job.flavor, value |-> job.value, external |-> FALSE]])

----------------------------------------------------------------------------
(* The steps of the other jobs.                                            *)
(* take_over: the operator's project goes first, its volumes stay.         *)
TakeDown ==
  /\ at = "down"
  /\ IF pc.other # None THEN Does(Down(pc)) ELSE Fails("refused", pc)
Restored(p) ==
  IF job.kind = "takeover" THEN IF CanUp(Down(p), "other") THEN Up(Down(p), "other") ELSE Down(p)
  ELSE IF job.external THEN p
  ELSE Up([p EXCEPT !.own = Settings(Secrets(p, FALSE), job.flavor, job.was.value)], "own")
PutBack ==
  /\ at = "back"
  /\ pc' = Restored(pc) /\ held' = held \union Serves(pc') /\ End("undone")
(* run_repair without passwords.                                           *)
Start ==
  /\ at = "start"
  /\ LET from == From(job.external)
     IN IF CanUp(pc, from) THEN Does(Up(pc, from)) ELSE Fails("refused", pc)
(* remove_keeping_data, uninstall: the containers go, whoever's they are.  *)
WithoutData(p) ==
  [p EXCEPT !.vol = None, !.hist = None, !.images = FALSE, !.own = IF job.external THEN @ ELSE None]
(* Variant with a fault: the volumes go with the containers.               *)
RemoveVolumes == at = "remove" /\ Does(WithoutData(Down(pc)))
RemoveStack ==
  /\ at = "remove"
  /\ pc' = IF job.kind = "delete" THEN WithoutData(Down(pc)) ELSE Down(pc)
  /\ held' = IF job.kind = "delete" THEN {} ELSE held
  /\ at' = Following /\ UNCHANGED <<job, last>>
RemoveRecord == at = "unrecord" /\ Does([pc EXCEPT !.record = None])

----------------------------------------------------------------------------
(* A call fails or is cancelled, having done nothing or a part of its      *)
(* work; or the manager is killed before it.                               *)
Torn(s) ==
  CASE s \in {"up", "schema"} /\ CanUp(pc, "own") -> PgUp(pc, "own", pc.own)
    [] s \in {"down", "remove"} -> [pc EXCEPT !.app = None]
    [] OTHER -> pc
Fail ==
  /\ faults < MaxFaults /\ faults' = faults + 1
  /\ \/ <<job.kind, at>> \in MayFail /\ Fails("failed", pc)
     \/ <<job.kind, at>> \in MayTear /\ Fails("failed", Torn(at))
  /\ UNCHANGED <<setups, changes>>
Die ==
  /\ faults < MaxFaults /\ faults' = faults + 1
  /\ <<job.kind, at>> \in MayDie /\ End("killed")
  /\ UNCHANGED <<pc, held, setups, changes>>

Step ==
  /\ \/ SetUpDocker \/ Write \/ Pull \/ StartPostgres \/ SyncRole \/ PrepareExisting \/ CreateDatabase
     \/ InstallSchema \/ ComposeUp \/ Serve \/ SetAdmin \/ SaveRecord
     \/ TakeDown \/ PutBack \/ Start \/ RemoveStack \/ RemoveRecord
  /\ Bounds
Operator ==
  \/ \E c \in Plans : Install(c)
  \/ Retry \/ Repair \/ TakeOver \/ Adopt
  \/ \E v \in Values : ApplySettings(v)
  \/ \E kind \in {"uninstall", "delete"} : Uninstall(kind)
  \/ \E run \in BOOLEAN : Control(run)
  \/ \E what \in {"own", "other", "record"} : Lose(what)
Next == Operator \/ Step \/ Fail \/ Die
Spec == Init /\ [][Next]_vars

----------------------------------------------------------------------------
(* What the variables are.                                                 *)
AllSettings == [pw : Nat, first : Nat, flavor : Flavors, value : Nat]
Volumes == [role : Nat, dbs : [Name -> Databases(Name) \union {None}]]
Containers == [from : {"own", "other"}, set : AllSettings, up : BOOLEAN]
Records == [flavor : Flavors, value : Nat, external : BOOLEAN]
Computer ==
  [docker : BOOLEAN, images : BOOLEAN, vol : Volumes \union {None}, hist : Name \union {None},
   pg : Containers \union {None}, app : Containers \union {None}, own : AllSettings \union {None},
   other : AllSettings \union {None}, record : Records \union {None}]
Installing ==
  [kind : {"install"}, flavor : Flavors, pw : Nat, value : Nat, external : BOOLEAN,
   existing : {"none", "keep", "fresh"}, before : Databases(Name) \union {None}]
Managing ==
  [kind : Kinds \ {"install"}, flavor : Flavors, pw : Nat, value : Nat, external : BOOLEAN,
   existing : {"none"}, was : [value : Nat, serving : BOOLEAN]]
Job == Installing \union Managing
(* None is nothing of what it may stand in the place of.                   *)
ASSUME NoneAssumption ==
  None \notin Name \union Databases(Name) \union Volumes \union AllSettings \union Containers \union Records

TypeOK ==
  /\ pc \in Computer
  /\ IF at = "idle" THEN job = NoJob ELSE job \in Job /\ at \in ToSet(Paths[job.kind])
  /\ last.job \in Job \union {NoJob}
  /\ held \subseteq {"database", "history"} \X Name
  /\ setups \in 0..MaxSetups /\ changes \in 0..MaxChanges /\ faults \in 0..MaxFaults

(* "Anything already installed stays on this computer; run setup again to  *)
(* finish or remove it" (installer/mod.rs:661): a setup in which no call   *)
(* fails is never stopped by what an earlier one left.                     *)
SetupAgainFinishes == last.job.kind = "install" => last.end # "stuck"

(* A database or a history SENTIENT has served is still there, under its   *)
(* own name or set aside, until its data are deleted on purpose, whatever  *)
(* is installed, taken over, changed or removed.                           *)
HeldIsThere(h) ==
  IF h[1] = "database" THEN pc.vol # None /\ Holds(pc.vol.dbs, h[2]) ELSE pc.hist = h[2]
KeptSurvives == \A h \in held : HeldIsThere(h)

(* The passwords the manager reads back are the ones the databases take,   *)
(* whether from its compose file or from the containers: a repair never    *)
(* writes others over the working ones.  (The operator's compose file,     *)
(* started anew on an empty volume, may itself have one that fails.)       *)
SignsIn(app) == app.set.pw = pc.vol.role
SecretsWork ==
  at = "idle" /\ pc.record # None /\ Secrets(pc, pc.record.external) # 0
     /\ (pc.app # None /\ pc.app.from = "other" => SignsIn(pc.app)) =>
    Secrets(pc, pc.record.external) = pc.vol.role

(* "If it does not start with the new settings, the previous ones are put  *)
(* back" (manager/settings.rs:101): the settings in force, the compose     *)
(* file's and the record's are the new ones or the old ones together.      *)
SettingsTogether ==
  last.job.kind = "settings" /\ last.end # "killed" =>
    LET value == IF last.end = "done" THEN last.job.value ELSE last.job.was.value
    IN /\ pc.record.value = value
       /\ ~last.job.external => pc.own.value = value /\ pc.app.set.value = value
       /\ last.job.was.serving => Serving(pc)
=============================================================================
