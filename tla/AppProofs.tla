------------------------------ MODULE AppProofs ------------------------------
(***************************************************************************)
(* The window of app/: Setup, which installs SENTIENT on Windows, for any  *)
(* plans, passwords, ports, failures and number of setups and changes; and *)
(* the manager's screens (Manager, whose proofs are at the end), for any   *)
(* number of jobs, versions, settings and replacements of the manager.     *)
(* The two have no variable and no proof in common.                        *)
(***************************************************************************)
EXTENDS Setup, Manager, WellFoundedInduction, TLAPS

(* The tasks of an installation that come after some of its tasks.         *)
AfterServe == {"admin", "secrets", "shortcuts", "record"}
AfterRegister == {"serve"} \union AfterServe
AfterSchema == {"partition", "register"} \union AfterRegister
AfterCreate == {"passwords", "env", "schema"} \union AfterSchema
AfterStage == {"create"} \union AfterCreate
AfterRole == {"kept", "stage"} \union AfterStage
AfterExtension == {"tune", "role"} \union AfterRole
AfterPort == {"timescale", "preload", "service", "start", "extension"} \union AfterExtension
AfterInitdb == {"port"} \union AfterPort

(* An installation before it has set a database aside.                     *)
Early ==
  {"manager", "wsl", "account", "provision", "history", "runtime", "postgres", "initdb"} \union
  (AfterInitdb \ ({"stage"} \union AfterStage))
IsEarly == job.kind = "install" /\ at \in Early
(* The tasks of each job before which there is a cluster.                  *)
Clustered ==
  [install |-> AfterInitdb, repair |-> AfterStage, reconfigure |-> {"env", "register", "serve"},
   uninstall |-> {}, delete |-> {}]

(* A database and a history that are there.                                *)
DatabaseIn(p, n) == p.cluster # None /\ Holds(p.cluster.dbs, n)
HistoryIn(p, n) == n = p.ch.db \/ n \in p.ch.aside
Has(p, h) == IF h[1] = "database" THEN DatabaseIn(p, h[2]) ELSE HistoryIn(p, h[2])
Under(p, k) == IF p.cluster = None THEN None ELSE p.cluster.dbs[k]

(* Without a cluster there is no service of one; SENTIENT's has settings.  *)
Services(p) ==
  /\ p.cluster = None => p.port = 0 /\ p.env = None /\ p.service = "none"
  /\ p.up => p.env # None
  /\ p.pending # None => p.pending.kind = "install"
(* What a task leaves there; and one that sets nothing aside.              *)
Preserves(p, q) ==
  /\ q \in Computer /\ Services(q)
  /\ p.cluster # None => q.cluster # None
  /\ \A n \in Name : DatabaseIn(p, n) => DatabaseIn(q, n)
  /\ \A n \in Name : HistoryIn(p, n) => HistoryIn(q, n)
Keeps(p, q) == Preserves(p, q) /\ \A k \in Name \ {0} : Under(q, k) = Under(p, k)

JobOK ==
  /\ IF at = "idle" THEN job = NoJob
     ELSE job \in Job /\ at \in ToSet(Paths[job.kind]) /\ Applies(job, at)
  /\ last.end \in {"none", "done", "failed", "refused", "stuck", "restart"}
  /\ last.plan \in Job \union {NoJob}
  /\ setups \in 0..MaxSetups /\ changes \in 0..MaxChanges /\ faults \in 0..MaxFaults
  /\ job.kind = "install" => setups > 0 /\ job.n = setups
ClusterOK ==
  at # "idle" =>
    /\ at \in Clustered[job.kind] => pc.cluster # None
    /\ job.kind \in {"uninstall", "delete"} /\ at # "remove" => pc.env = None
HeldOK == held \subseteq {"database", "history"} \X Name /\ \A h \in held : Has(pc, h)
(* Databases are set aside under the names of the setups so far.           *)
NamesOK == \A k \in Name : k > setups \/ (IsEarly /\ k = setups) => Under(pc, k) = None

(* How a job goes on after a task that succeeded.                          *)
Goes == IF at = Last(Paths[job.kind]) THEN End("done") ELSE at' = Following /\ UNCHANGED <<job, last>>

Inv == pc \in Computer /\ Services(pc) /\ JobOK /\ ClusterOK /\ HeldOK /\ NamesOK

----------------------------------------------------------------------------
(* The paths of the jobs.                                                  *)
LEMMA MinIs ==
  ASSUME NEW S \in SUBSET Nat, S # {}
  PROVE  Min(S) \in S /\ \A y \in S : Min(S) <= y
<1>1. PICK x \in S : \A y \in S : <<y, x>> \notin OpToRel(<, Nat)
  BY WFMin, NatLessThanWellFounded
<1>2. \A y \in S : ~(y < x)
  BY <1>1, Zenon DEF OpToRel
<1>3. \A y \in S : x <= y
  BY <1>2
<1> QED BY <1>3 DEF Min

LEMMA KindsAre == Kinds = {"install", "repair", "reconfigure", "uninstall", "delete"}
BY DEF Kinds, Paths

LEMMA DeployIs ==
  /\ Len(DeploySteps) = 8 /\ DOMAIN DeploySteps = 1..8
  /\ DeploySteps[1] = "stage" /\ DeploySteps[2] = "create" /\ DeploySteps[3] = "passwords"
  /\ DeploySteps[4] = "env" /\ DeploySteps[5] = "schema" /\ DeploySteps[6] = "partition"
  /\ DeploySteps[7] = "register" /\ DeploySteps[8] = "serve"
BY DEF DeploySteps

LEMMA InstallPath ==
  LET path == Paths["install"]
  IN /\ Len(path) = 29 /\ DOMAIN path = 1..29
     /\ path[1] = "manager" /\ path[2] = "wsl" /\ path[3] = "account" /\ path[4] = "provision"
     /\ path[5] = "history" /\ path[6] = "runtime" /\ path[7] = "postgres" /\ path[8] = "initdb"
     /\ path[9] = "port" /\ path[10] = "timescale" /\ path[11] = "preload" /\ path[12] = "service"
     /\ path[13] = "start" /\ path[14] = "extension" /\ path[15] = "tune" /\ path[16] = "role"
     /\ path[17] = "kept" /\ path[18] = "stage" /\ path[19] = "create" /\ path[20] = "passwords"
     /\ path[21] = "env" /\ path[22] = "schema" /\ path[23] = "partition" /\ path[24] = "register"
     /\ path[25] = "serve" /\ path[26] = "admin" /\ path[27] = "secrets" /\ path[28] = "shortcuts"
     /\ path[29] = "record"
BY DEF Paths, InstallSteps, ClickhouseSteps, DatabaseSteps, KeptSteps, DeploySteps, FinishSteps

LEMMA OtherPaths ==
  /\ Paths["repair"] = DeploySteps
  /\ LET path == Paths["reconfigure"]
     IN /\ Len(path) = 5 /\ DOMAIN path = 1..5
        /\ path[1] = "stop" /\ path[2] = "tune" /\ path[3] = "env" /\ path[4] = "register" /\ path[5] = "serve"
  /\ LET path == Paths["uninstall"]
     IN /\ Len(path) = 3 /\ DOMAIN path = 1..3
        /\ path[1] = "remove" /\ path[2] = "release" /\ path[3] = "unrecord"
  /\ LET path == Paths["delete"]
     IN /\ Len(path) = 4 /\ DOMAIN path = 1..4
        /\ path[1] = "remove" /\ path[2] = "clean" /\ path[3] = "forget" /\ path[4] = "unrecord"
BY DEF Paths, ReconfigureSteps, UninstallSteps, DeleteSteps

LEMMA RepairPath ==
  LET path == Paths["repair"]
  IN /\ Len(path) = 8 /\ DOMAIN path = 1..8
     /\ path[1] = "stage" /\ path[2] = "create" /\ path[3] = "passwords" /\ path[4] = "env"
     /\ path[5] = "schema" /\ path[6] = "partition" /\ path[7] = "register" /\ path[8] = "serve"
BY DeployIs, OtherPaths

(* Each ends with a task that is always taken.                             *)
LEMMA Ending ==
  ASSUME NEW k \in Kinds
  PROVE  /\ Len(Paths[k]) \in Nat \ {0} /\ DOMAIN Paths[k] = 1..Len(Paths[k])
         /\ Last(Paths[k]) = Paths[k][Len(Paths[k])]
         /\ Last(Paths[k]) \in {"record", "serve", "unrecord"}
<1>1. CASE k = "install"
  BY <1>1, InstallPath DEF Last
<1>2. CASE k = "repair"
  BY <1>2, RepairPath DEF Last
<1>3. CASE k \in {"reconfigure", "uninstall", "delete"}
  BY <1>3, OtherPaths DEF Last
<1> QED BY <1>1, <1>2, <1>3, KindsAre

LEMMA Lasts ==
  /\ Last(Paths["install"]) = "record" /\ Last(Paths["repair"]) = "serve" /\ Last(Paths["reconfigure"]) = "serve"
  /\ Last(Paths["uninstall"]) = "unrecord" /\ Last(Paths["delete"]) = "unrecord"
BY InstallPath, RepairPath, OtherPaths DEF Last

LEMMA Firsts ==
  /\ Head(Paths["install"]) = "manager" /\ Head(Paths["repair"]) = "stage" /\ Head(Paths["reconfigure"]) = "stop"
  /\ Head(Paths["uninstall"]) = "remove" /\ Head(Paths["delete"]) = "remove"
BY InstallPath, RepairPath, OtherPaths

LEMMA StepAfterIs ==
  ASSUME NEW j, j.kind \in Kinds, NEW i \in 0..(Len(Paths[j.kind]) - 1)
  PROVE  \E k \in DOMAIN Paths[j.kind] :
           /\ k > i /\ StepAfter(j, i) = Paths[j.kind][k] /\ Applies(j, Paths[j.kind][k])
           /\ \A n \in DOMAIN Paths[j.kind] : n > i /\ n < k => ~Applies(j, Paths[j.kind][n])
<1> DEFINE path == Paths[j.kind]
<1>1. /\ Len(path) \in Nat \ {0} /\ DOMAIN path = 1..Len(path)
      /\ path[Len(path)] \in {"record", "serve", "unrecord"}
  BY Ending
<1>2. Applies(j, path[Len(path)])
  BY <1>1 DEF Applies, ToSet, ClickhouseSteps, KeptSteps
<1>3. Len(path) \in Later(j, i)
  BY <1>1, <1>2 DEF Later
<1>4. Later(j, i) \in SUBSET Nat
  BY <1>1 DEF Later
<1>5. Min(Later(j, i)) \in Later(j, i) /\ \A n \in Later(j, i) : Min(Later(j, i)) <= n
  BY <1>3, <1>4, MinIs
<1>6. \A n \in DOMAIN path : n > i /\ n < Min(Later(j, i)) => n \notin Later(j, i)
  BY <1>1, <1>4, <1>5
<1>7. \A n \in DOMAIN path : n > i /\ n \notin Later(j, i) => ~Applies(j, path[n])
  BY Zenon DEF Later
<1> QED BY <1>5, <1>6, <1>7 DEF StepAfter, Later

(* The task that follows the one at position n.                            *)
LEMMA FollowingAmong ==
  ASSUME job.kind \in Kinds, NEW n \in DOMAIN Paths[job.kind], at = Paths[job.kind][n],
         \A i \in DOMAIN Paths[job.kind] : Paths[job.kind][i] = at => i = n,
         n # Len(Paths[job.kind])
  PROVE  \E k \in DOMAIN Paths[job.kind] :
           /\ k > n /\ Following = Paths[job.kind][k] /\ Applies(job, Paths[job.kind][k])
           /\ \A i \in DOMAIN Paths[job.kind] : i > n /\ i < k => ~Applies(job, Paths[job.kind][i])
<1> DEFINE path == Paths[job.kind]
           i == CHOOSE i \in DOMAIN path : path[i] = at
<1>1. i = n
  BY Zenon
<1>2. Following = StepAfter(job, i)
  BY DEF Following
<1> HIDE DEF i
<1>3. Len(path) \in Nat /\ DOMAIN path = 1..Len(path)
  BY Ending
<1>4. n \in 0..(Len(path) - 1)
  BY <1>3
<1> QED BY <1>1, <1>2, <1>4, StepAfterIs

LEMMA AppliesIs ==
  ASSUME NEW j
  PROVE  /\ \A s : s \notin {"wsl", "account", "provision", "history", "role", "kept", "partition"} => Applies(j, s)
         /\ \A s \in {"wsl", "account", "provision", "history"} : Applies(j, s) <=> j.flavor = "clickhouse"
         /\ \A s \in {"role", "kept"} : Applies(j, s) <=> j.existing # "none"
         /\ Applies(j, "partition") <=> j.flavor = "stock"
BY DEF ToSet, KeptSteps, ClickhouseSteps, Applies

(* The tasks of an installation in their order, but those of some plans.   *)
LEMMA InstallNext ==
  ASSUME job.kind = "install", at \in ToSet(Paths["install"]), Applies(job, at), at # "record"
  PROVE  /\ at = "manager" => IF job.flavor = "clickhouse" THEN Following = "wsl" ELSE Following = "runtime"
         /\ at = "wsl" => Following = "account"
         /\ at = "account" => Following = "provision"
         /\ at = "provision" => Following = "history"
         /\ at = "history" => Following = "runtime"
         /\ at = "runtime" => Following = "postgres"
         /\ at = "postgres" => Following = "initdb"
         /\ at = "initdb" => Following = "port"
         /\ at = "port" => Following = "timescale"
         /\ at = "timescale" => Following = "preload"
         /\ at = "preload" => Following = "service"
         /\ at = "service" => Following = "start"
         /\ at = "start" => Following = "extension"
         /\ at = "extension" => Following = "tune"
         /\ at = "tune" => IF job.existing = "none" THEN Following = "stage" ELSE Following = "role"
         /\ at = "role" => Following = "kept"
         /\ at = "kept" => Following = "stage"
         /\ at = "stage" => Following = "create"
         /\ at = "create" => Following = "passwords"
         /\ at = "passwords" => Following = "env"
         /\ at = "env" => Following = "schema"
         /\ at = "schema" => IF job.flavor = "stock" THEN Following = "partition" ELSE Following = "register"
         /\ at = "partition" => Following = "register"
         /\ at = "register" => Following = "serve"
         /\ at = "serve" => Following = "admin"
         /\ at = "admin" => Following = "secrets"
         /\ at = "secrets" => Following = "shortcuts"
         /\ at = "shortcuts" => Following = "record"
<1> DEFINE path == Paths["install"]
<1>1. job.kind \in Kinds
  BY KindsAre
<1>2. PICK n \in 1..29 : at = path[n]
  BY InstallPath, Zenon DEF ToSet
<1>3. n # 29 /\ \A i \in 1..29 : path[i] = at => i = n
  BY <1>2, InstallPath
<1>4. PICK k \in 1..29 : /\ k > n /\ Following = path[k] /\ Applies(job, path[k])
                         /\ \A i \in 1..29 : i > n /\ i < k => ~Applies(job, path[i])
  BY <1>1, <1>2, <1>3, InstallPath, FollowingAmong
<1> HIDE DEF path
<1>5. /\ path[1] = "manager" /\ path[2] = "wsl" /\ path[3] = "account" /\ path[4] = "provision" /\ path[5] = "history"
      /\ path[6] = "runtime" /\ path[7] = "postgres" /\ path[8] = "initdb" /\ path[9] = "port" /\ path[10] = "timescale"
      /\ path[11] = "preload" /\ path[12] = "service" /\ path[13] = "start" /\ path[14] = "extension" /\ path[15] = "tune"
      /\ path[16] = "role" /\ path[17] = "kept" /\ path[18] = "stage" /\ path[19] = "create" /\ path[20] = "passwords"
      /\ path[21] = "env" /\ path[22] = "schema" /\ path[23] = "partition" /\ path[24] = "register" /\ path[25] = "serve"
      /\ path[26] = "admin" /\ path[27] = "secrets" /\ path[28] = "shortcuts" /\ path[29] = "record"
  BY InstallPath DEF path
<1>6. /\ \A i \in (6..15) \union (18..22) \union (24..29) : Applies(job, path[i])
      /\ \A i \in 2..5 : Applies(job, path[i]) <=> job.flavor = "clickhouse"
      /\ \A i \in 16..17 : Applies(job, path[i]) <=> job.existing # "none"
      /\ Applies(job, path[23]) <=> job.flavor = "stock"
  BY <1>5, AppliesIs
<1>7. Applies(job, path[n])
  BY <1>2
<1>8. /\ n = 1 => IF job.flavor = "clickhouse" THEN k = 2 ELSE k = 6
      /\ n \in (2..14) \union (16..21) \union (23..28) => k = n + 1
      /\ n = 15 => IF job.existing = "none" THEN k = 18 ELSE k = 16
      /\ n = 22 => IF job.flavor = "stock" THEN k = 23 ELSE k = 24
  BY <1>3, <1>4, <1>6, <1>7
<1> QED BY <1>2, <1>3, <1>4, <1>5, <1>8

LEMMA RepairNext ==
  ASSUME job.kind = "repair", at \in ToSet(Paths["repair"]), at # "serve"
  PROVE  /\ at = "stage" => Following = "create"
         /\ at = "create" => Following = "passwords"
         /\ at = "passwords" => Following = "env"
         /\ at = "env" => Following = "schema"
         /\ at = "schema" => IF job.flavor = "stock" THEN Following = "partition" ELSE Following = "register"
         /\ at = "partition" => Following = "register"
         /\ at = "register" => Following = "serve"
<1> DEFINE path == Paths["repair"]
<1>1. job.kind \in Kinds
  BY KindsAre
<1>2. PICK n \in 1..8 : at = path[n]
  BY RepairPath, Zenon DEF ToSet
<1>3. n # 8 /\ \A i \in 1..8 : path[i] = at => i = n
  BY <1>2, RepairPath
<1>4. PICK k \in 1..8 : /\ k > n /\ Following = path[k] /\ Applies(job, path[k])
                         /\ \A i \in 1..8 : i > n /\ i < k => ~Applies(job, path[i])
  BY <1>1, <1>2, <1>3, RepairPath, FollowingAmong
<1>5. /\ \A i \in (1..5) \union (7..8) : Applies(job, path[i])
      /\ Applies(job, path[6]) <=> job.flavor = "stock"
  BY RepairPath, AppliesIs
<1> QED BY <1>2, <1>3, <1>4, <1>5, RepairPath

LEMMA OtherNext ==
  ASSUME job.kind \in {"reconfigure", "uninstall", "delete"}, at \in ToSet(Paths[job.kind]),
         at # Last(Paths[job.kind])
  PROVE  /\ at = "stop" => Following = "tune"
         /\ at = "tune" => Following = "env"
         /\ at = "env" => Following = "register"
         /\ at = "register" => Following = "serve"
         /\ at = "remove" => Following = IF job.kind = "delete" THEN "clean" ELSE "release"
         /\ at = "release" => Following = "unrecord"
         /\ at = "clean" => Following = "forget"
         /\ at = "forget" => Following = "unrecord"
<1> DEFINE path == Paths[job.kind]
<1>1. job.kind \in Kinds
  BY KindsAre
<1>2. PICK n \in DOMAIN path : at = path[n]
  BY Zenon DEF ToSet
<1>3. n # Len(path) /\ \A i \in DOMAIN path : path[i] = at => i = n
  BY <1>2, OtherPaths, Lasts
<1>4. PICK k \in DOMAIN path : /\ k > n /\ Following = path[k] /\ Applies(job, path[k])
                               /\ \A i \in DOMAIN path : i > n /\ i < k => ~Applies(job, path[i])
  BY <1>1, <1>2, <1>3, FollowingAmong
<1>5. \A i \in DOMAIN path : Applies(job, path[i])
  <2>1. \A i \in DOMAIN path : path[i] \notin {"wsl", "account", "provision", "history", "role", "kept", "partition"}
    BY OtherPaths
  <2> QED BY <2>1, AppliesIs, Zenon
<1>6. DOMAIN path = 1..Len(path) /\ Len(path) \in Nat
  BY <1>1, Ending
<1>7. k = n + 1
  <2>1. n + 1 \in 1..Len(path) /\ n \in 1..Len(path) /\ k \in 1..Len(path)
    BY <1>2, <1>3, <1>4, <1>6
  <2>2. ~(n + 1 > n /\ n + 1 < k)
    BY <2>1, <1>4, <1>5, <1>6, Zenon
  <2> QED BY <2>1, <2>2, <1>4
<1> QED BY <1>2, <1>4, <1>7, OtherPaths

(* Which jobs a task is of.                                                *)
LEMMA TasksAre ==
  /\ ToSet(Paths["install"]) = {"manager"} \union {"wsl", "account", "provision", "history"} \union
       {"runtime", "postgres", "initdb"} \union AfterInitdb
  /\ ToSet(Paths["repair"]) = {"stage"} \union (AfterStage \ AfterServe)
  /\ ToSet(Paths["reconfigure"]) = {"stop", "tune", "env", "register", "serve"}
  /\ ToSet(Paths["uninstall"]) = {"remove", "release", "unrecord"}
  /\ ToSet(Paths["delete"]) = {"remove", "clean", "forget", "unrecord"}
<1>1. \A s : s \in ToSet(Paths["install"]) <=> \E i \in 1..29 : s = Paths["install"][i]
  BY InstallPath, Zenon DEF ToSet
<1>2. \A s : s \in ToSet(Paths["repair"]) <=> \E i \in 1..8 : s = Paths["repair"][i]
  BY RepairPath, Zenon DEF ToSet
<1>3. ToSet(Paths["repair"]) = {"stage"} \union (AfterStage \ AfterServe)
  BY <1>2, RepairPath DEF AfterServe, AfterRegister, AfterSchema, AfterCreate, AfterStage
<1>4. ToSet(Paths["install"]) = {"manager"} \union {"wsl", "account", "provision", "history"} \union
       {"runtime", "postgres", "initdb"} \union AfterInitdb
  BY <1>1, InstallPath DEF AfterServe, AfterRegister, AfterSchema, AfterCreate, AfterStage, AfterRole,
     AfterExtension, AfterPort, AfterInitdb
<1>5. /\ ToSet(Paths["reconfigure"]) = {"stop", "tune", "env", "register", "serve"}
      /\ ToSet(Paths["uninstall"]) = {"remove", "release", "unrecord"}
      /\ ToSet(Paths["delete"]) = {"remove", "clean", "forget", "unrecord"}
  BY OtherPaths DEF ToSet
<1> QED BY <1>3, <1>4, <1>5

(* Where jobs are.                                                         *)
LEMMA AfterIs ==
  /\ AfterServe = {"admin", "secrets", "shortcuts", "record"}
  /\ AfterRegister = {"serve", "admin", "secrets", "shortcuts", "record"}
  /\ AfterSchema = {"partition", "register", "serve", "admin", "secrets", "shortcuts", "record"}
  /\ AfterCreate = {"passwords", "env", "schema", "partition", "register", "serve", "admin", "secrets", "shortcuts", "record"}
  /\ AfterStage = {"create"} \union AfterCreate
  /\ AfterRole = {"kept", "stage"} \union AfterStage
  /\ AfterExtension = {"tune", "role"} \union AfterRole
  /\ AfterPort = {"timescale", "preload", "service", "start", "extension"} \union AfterExtension
  /\ AfterInitdb = {"port"} \union AfterPort
  /\ Early = {"manager", "wsl", "account", "provision", "history", "runtime", "postgres", "initdb", "port", "timescale",
              "preload", "service", "start", "extension", "tune", "role", "kept"}
BY DEF AfterServe, AfterRegister, AfterSchema, AfterCreate, AfterStage, AfterRole, AfterExtension, AfterPort,
   AfterInitdb, Early

LEMMA ClusteredIs ==
  /\ Clustered["install"] = AfterInitdb /\ Clustered["repair"] = AfterStage
  /\ Clustered["reconfigure"] = {"env", "register", "serve"}
  /\ Clustered["uninstall"] = {} /\ Clustered["delete"] = {}
BY DEF Clustered

LEMMA JobKind ==
  ASSUME JobOK, at # "idle"
  PROVE  /\ job \in Job /\ job.kind \in Kinds /\ at \in ToSet(Paths[job.kind]) /\ Applies(job, at)
         /\ job.kind \in {"install", "repair", "reconfigure", "uninstall", "delete"}
BY KindsAre DEF JobOK, Job

(* A task of one job alone.                                                *)
LEMMA OwnTasks ==
  ASSUME JobOK, at # "idle"
  PROVE  /\ at \in {"manager", "wsl", "account", "provision", "history", "runtime", "postgres", "initdb", "port",
                    "timescale", "preload", "service", "start", "extension", "role", "kept", "admin", "secrets",
                    "shortcuts", "record"} => job.kind = "install"
         /\ at \in {"stage", "create", "passwords", "schema", "partition"} => job.kind \in {"install", "repair"}
         /\ at \in {"env", "register", "serve"} => job.kind \in {"install", "repair", "reconfigure"}
         /\ at = "tune" => job.kind \in {"install", "reconfigure"}
         /\ at = "stop" => job.kind = "reconfigure"
         /\ at \in {"remove", "unrecord"} => job.kind \in {"uninstall", "delete"}
         /\ at = "release" => job.kind = "uninstall"
         /\ at \in {"clean", "forget"} => job.kind = "delete"
BY JobKind, TasksAre, AfterIs

LEMMA NotIdle ==
  ASSUME NEW k \in Kinds
  PROVE  "idle" \notin ToSet(Paths[k])
BY TasksAre, KindsAre, AfterIs

LEMMA FollowingIs ==
  ASSUME JobOK, at # "idle", at # Last(Paths[job.kind])
  PROVE  /\ Following \in ToSet(Paths[job.kind]) /\ Following # "idle" /\ Applies(job, Following)
         /\ job.kind = "install" /\ Following \in Early => at \in Early \ {"kept"}
         /\ Following \in Clustered[job.kind] =>
              at \in Clustered[job.kind] \/ <<job.kind, at>> \in
                {<<"install", "initdb">>, <<"repair", "stage">>, <<"reconfigure", "tune">>}
<1> DEFINE path == Paths[job.kind]
<1>1. job \in Job /\ job.kind \in Kinds /\ at \in ToSet(path) /\ Applies(job, at)
      /\ job.kind \in {"install", "repair", "reconfigure", "uninstall", "delete"}
  BY JobKind
<1>2. Following \in ToSet(path) /\ Applies(job, Following)
  <2>1. PICK n \in DOMAIN path : at = path[n]
    BY <1>1, Zenon DEF ToSet
  <2>2. /\ Len(path) \in Nat \ {0} /\ DOMAIN path = 1..Len(path) /\ Last(path) = path[Len(path)]
    BY <1>1, Ending
  <2> DEFINE i == CHOOSE i \in DOMAIN path : path[i] = at
  <2>3. i \in DOMAIN path /\ path[i] = at
    BY <2>1, Zenon
  <2>4. Following = StepAfter(job, i)
    BY DEF Following
  <2> HIDE DEF i
  <2>5. i # Len(path)
    BY <2>2, <2>3, Zenon
  <2>6. i \in 0..(Len(path) - 1)
    BY <2>2, <2>3, <2>5
  <2>7. PICK k \in DOMAIN path : Following = path[k] /\ Applies(job, path[k])
    BY <1>1, <2>4, <2>6, StepAfterIs
  <2> QED BY <2>7, Zenon DEF ToSet
<1>3. Following # "idle"
  BY <1>1, <1>2, NotIdle
<1>4. CASE job.kind = "install"
  <2>1. at # "record"
    BY <1>4, Lasts
  <2> QED BY <1>1, <1>2, <1>3, <1>4, <2>1, InstallNext, TasksAre, AfterIs, ClusteredIs
<1>5. CASE job.kind = "repair"
  <2>1. at # "serve"
    BY <1>5, Lasts
  <2> QED BY <1>1, <1>2, <1>3, <1>5, <2>1, RepairNext, TasksAre, AfterIs, ClusteredIs
<1>6. CASE job.kind \in {"reconfigure", "uninstall", "delete"}
  BY <1>1, <1>2, <1>3, <1>6, OtherNext, TasksAre, AfterIs, ClusteredIs
<1> QED BY <1>1, <1>4, <1>5, <1>6

----------------------------------------------------------------------------
(* What is there stays there.                                              *)
LEMMA SameKeeps ==
  ASSUME NEW p \in Computer, Services(p)
  PROVE  Keeps(p, p)
BY DEF Keeps, Preserves

(* The databases and the histories as they are.                            *)
LEMMA DataKeeps ==
  ASSUME NEW p \in Computer, NEW q \in Computer, Services(q),
         p.cluster # None => q.cluster # None /\ q.cluster.dbs = p.cluster.dbs,
         p.cluster = None => q.cluster = None \/ q.cluster.dbs = NoDatabases,
         q.ch.db = p.ch.db, q.ch.aside = p.ch.aside
  PROVE  Keeps(p, q)
BY DEF DatabaseIn, HistoryIn, Under, NoDatabases, Keeps, Preserves

(* The cluster changed but for its databases.                              *)
LEMMA ClusterKeeps ==
  ASSUME NEW p \in Computer, Services(p), p.cluster # None, NEW c \in Cluster, c.dbs = p.cluster.dbs
  PROVE  Keeps(p, [p EXCEPT !.cluster = c])
<1> DEFINE q == [p EXCEPT !.cluster = c]
<1>1. c # None
  BY NoneAssumption
<1>2. q \in Computer /\ q.cluster = c /\ q.ch = p.ch
  BY DEF Computer
<1>3. Services(q)
  BY <1>1 DEF Services, Computer
<1> HIDE DEF q
<1> QED BY <1>1, <1>2, <1>3, DataKeeps DEF q

(* SENTIENT's database made, or with the same installation's data.         *)
LEMMA KeepsInService ==
  ASSUME NEW p \in Computer, NEW q \in Computer, Services(q), NEW d \in Databases(Name) \union {None},
         p.cluster # None, q.cluster # None, q.cluster.dbs = [p.cluster.dbs EXCEPT ![0] = d],
         p.cluster.dbs[0] # None => d # None /\ d.of = p.cluster.dbs[0].of,
         p.ch.db # None => q.ch.db = p.ch.db, q.ch.aside = p.ch.aside
  PROVE  Keeps(p, q)
<1>1. p.cluster.dbs \in [Name -> Databases(Name) \union {None}] /\ 0 \in Name
  BY SetupAssumption DEF Computer, Cluster, Name
<1>2. q.cluster.dbs \in [Name -> Databases(Name) \union {None}] /\ q.cluster.dbs[0] = d
  BY <1>1
<1>3. ASSUME NEW n \in Name, DatabaseIn(p, n)
      PROVE  DatabaseIn(q, n)
  BY <1>1, <1>2, <1>3 DEF DatabaseIn, Holds
<1>4. \A n \in Name : HistoryIn(p, n) => HistoryIn(q, n)
  BY NoneAssumption DEF HistoryIn
<1>5. \A k \in Name \ {0} : Under(q, k) = Under(p, k)
  BY <1>1 DEF Under
<1> QED BY <1>3, <1>4, <1>5 DEF Keeps, Preserves

LEMMA HeldStays ==
  ASSUME pc \in Computer, HeldOK, Preserves(pc, pc'), held' = held
  PROVE  HeldOK'
<1>1. ASSUME NEW h \in held
      PROVE  h \in {"database", "history"} \X Name /\ Has(pc', h)
  BY DEF HeldOK, Has, Preserves
<1> QED BY <1>1, Zenon DEF HeldOK, Has, DatabaseIn, HistoryIn

LEMMA NamesStay ==
  ASSUME pc \in Computer, JobOK, NamesOK, Keeps(pc, pc'), setups' = setups, IsEarly' => IsEarly
  PROVE  NamesOK'
<1> SUFFICES ASSUME NEW k \in Name, (k > setups) \/ (IsEarly' /\ k = setups)
             PROVE  Under(pc', k) = None
  BY Zenon DEF NamesOK, Under
<1>1. k # 0
  BY DEF JobOK, IsEarly, Name
<1>2. Under(pc', k) = Under(pc, k)
  BY <1>1 DEF Keeps
<1> QED BY <1>2 DEF NamesOK

(* How jobs go on and end.                                                 *)
LEMMA JobEnds ==
  ASSUME JobOK, NEW how \in {"done", "failed", "refused", "stuck", "restart"}, End(how),
         UNCHANGED <<setups, changes>>, faults' \in 0..MaxFaults
  PROVE  JobOK' /\ ~IsEarly' /\ ClusterOK'
BY DEF JobOK, End, NoJob, IsEarly, ClusterOK

LEMMA DoesIs ==
  ASSUME NEW new, Does(new)
  PROVE  pc' = new /\ Goes /\ Rest
BY Zenon DEF Does, Goes

LEMMA GoesJob ==
  ASSUME JobOK, at # "idle", Goes, UNCHANGED <<setups, changes>>, faults' \in 0..MaxFaults
  PROVE  /\ JobOK' /\ (IsEarly' => IsEarly /\ at # "kept")
         /\ at' # "idle" =>
              /\ job' = job /\ last' = last /\ at' = Following /\ at # Last(Paths[job.kind])
              /\ at' \in ToSet(Paths[job.kind]) /\ Applies(job, at')
         /\ at' = "idle" => at = Last(Paths[job.kind]) /\ End("done")
<1>1. CASE at = Last(Paths[job.kind])
  BY <1>1, JobEnds DEF Goes, End
<1>2. CASE at # Last(Paths[job.kind])
  <2>1. at' = Following /\ UNCHANGED <<job, last>>
    BY <1>2 DEF Goes
  <2>2. /\ Following \in ToSet(Paths[job.kind]) /\ Following # "idle" /\ Applies(job, Following)
        /\ job.kind = "install" /\ Following \in Early => at \in Early \ {"kept"}
    BY <1>2, FollowingIs
  <2>3. JobOK'
    <3>1. job \in Job
      BY JobKind
    <3> QED BY <2>1, <2>2, <3>1, Zenon DEF JobOK, Applies
  <2> QED BY <1>2, <2>1, <2>2, <2>3 DEF IsEarly
<1> QED BY <1>1, <1>2

LEMMA GoesClustered ==
  ASSUME JobOK, ClusterOK, at # "idle", Goes, UNCHANGED <<setups, changes>>, faults' \in 0..MaxFaults,
         pc.cluster # None => pc'.cluster # None,
         at \in {"initdb", "stage", "tune"} => pc'.cluster # None,
         job.kind \in {"uninstall", "delete"} => pc'.env = None
  PROVE  ClusterOK'
<1>1. CASE at' = "idle"
  BY <1>1 DEF ClusterOK
<1>2. CASE at' # "idle"
  BY <1>2, GoesJob, FollowingIs DEF ClusterOK
<1> QED BY <1>1, <1>2

(* A task that succeeds or that is stopped, and sets nothing aside.        *)
LEMMA GoesKeeps ==
  ASSUME Inv, at # "idle", Goes, Keeps(pc, pc'), UNCHANGED <<held, setups, changes>>,
         faults' \in 0..MaxFaults,
         at \in {"initdb", "stage", "tune"} => pc'.cluster # None,
         job.kind \in {"uninstall", "delete"} => pc'.env = None
  PROVE  Inv'
<1>1. JobOK' /\ (IsEarly' => IsEarly)
  BY GoesJob DEF Inv
<1>2. Preserves(pc, pc') /\ pc' \in Computer /\ Services(pc') /\ (pc.cluster # None => pc'.cluster # None)
  BY DEF Keeps, Preserves
<1>3. ClusterOK'
  BY <1>2, GoesClustered DEF Inv
<1>4. HeldOK' /\ NamesOK'
  BY <1>1, <1>2, HeldStays, NamesStay DEF Inv
<1> QED BY <1>1, <1>2, <1>3, <1>4, Zenon DEF Inv, Services

LEMMA DoesKeeps ==
  ASSUME Inv, at # "idle", NEW new, Keeps(pc, new), Does(new),
         at \in {"initdb", "stage", "tune"} => new.cluster # None,
         job.kind \in {"uninstall", "delete"} => new.env = None
  PROVE  Inv'
<1>1. pc' = new /\ Goes /\ UNCHANGED <<held, setups, changes>> /\ faults' \in 0..MaxFaults
  BY DoesIs DEF Rest, Inv, JobOK
<1>2. /\ Keeps(pc, pc') /\ (at \in {"initdb", "stage", "tune"} => pc'.cluster # None)
      /\ job.kind \in {"uninstall", "delete"} => pc'.env = None
  BY <1>1, Zenon
<1> QED BY <1>1, <1>2, GoesKeeps

LEMMA EndKeeps ==
  ASSUME Inv, NEW how \in {"done", "failed", "refused", "stuck", "restart"}, End(how), Keeps(pc, pc'),
         UNCHANGED <<held, setups, changes>>, faults' \in 0..MaxFaults
  PROVE  Inv'
<1>1. JobOK' /\ ~IsEarly' /\ ClusterOK'
  BY JobEnds DEF Inv
<1>2. Preserves(pc, pc') /\ pc' \in Computer /\ Services(pc')
  BY DEF Keeps, Preserves
<1>3. HeldOK' /\ NamesOK'
  BY <1>1, <1>2, HeldStays, NamesStay DEF Inv
<1> QED BY <1>1, <1>2, <1>3, Zenon DEF Inv, Services

LEMMA StopsInv ==
  ASSUME Inv, NEW how \in {"refused", "stuck"}, Stops(how)
  PROVE  Inv'
BY SameKeeps, EndKeeps DEF Stops, Rest, Inv, JobOK

----------------------------------------------------------------------------
(* The beginnings of jobs, and what the operator does while none runs.     *)
LEMMA InitFacts ==
  ASSUME Init
  PROVE  /\ pc \in Computer /\ Services(pc) /\ at = "idle" /\ job = NoJob
         /\ last = [end |-> "none", plan |-> NoJob] /\ setups = 0 /\ changes = 0 /\ faults = 0
         /\ pc.env = None /\ pc.record = None /\ pc.pending = None /\ pc.partial = {} /\ pc.up = FALSE
         /\ pc.files \subseteq {"postgres", "timescale"} /\ pc.ch.db = None /\ pc.port = 0
         /\ pc.cluster = None => pc.files = {} /\ held = {}
         /\ pc.cluster # None =>
              /\ pc.cluster.preload /\ pc.cluster.dbs[0] # None /\ pc.cluster.dbs[0].of = 0
              /\ pc.cluster.dbs[0].shape # "missing" /\ pc.cluster.dbs[0].admin = "chosen"
              /\ \A k \in Name \ {0} : pc.cluster.dbs[k] = None
              /\ held = {<<"database", 0>>}
<1>1. /\ at = "idle" /\ job = NoJob /\ last = [end |-> "none", plan |-> NoJob]
      /\ setups = 0 /\ changes = 0 /\ faults = 0
      /\ held = IF pc.cluster = None THEN {} ELSE {<<"database", 0>>}
  BY DEF Init
<1>2. CASE pc = Fresh
  BY <1>1, <1>2 DEF Fresh, Computer, NoEnv, NoSecrets, Stored, Clickhouse, Services
<1>3. CASE pc # Fresh
  <2>1. PICK c \in Plans, s \in Unpartitioned \union {"partitioned", "hypertable"} : pc = Left(c, s)
    BY <1>3 DEF Init
  <2>2. c.super \in Nat /\ c.port \in Nat /\ c.pw \in Nat /\ 0 \in Name
    BY SetupAssumption DEF Name
  <2> DEFINE dd == [NoDatabases EXCEPT ![0] = Finished(s)]
             c1 == [super |-> c.super, port |-> c.port, trust |-> TRUE, preload |-> TRUE, role |-> c.pw, dbs |-> dd]
  <2>3. Finished(s) \in Databases(Name)
    BY <2>2 DEF Finished, Databases, Unpartitioned
  <2>4. dd \in [Name -> Databases(Name) \union {None}] /\ dd[0] = Finished(s) /\ \A k \in Name \ {0} : dd[k] = None
    BY <2>2, <2>3 DEF NoDatabases
  <2>5. Finished(s) # None /\ Finished(s).of = 0 /\ Finished(s).shape # "missing" /\ Finished(s).admin = "chosen"
    BY <2>2, <2>3, NoneAssumption DEF Finished, Unpartitioned
  <2>6. pc = [Fresh EXCEPT !.files = {"postgres", "timescale"}, !.service = "demand", !.cluster = c1]
    BY <2>1 DEF Left
  <2> HIDE DEF dd
  <2>7. c1 \in Cluster /\ c1.dbs = dd /\ c1.preload
    BY <2>2, <2>4 DEF Cluster
  <2> HIDE DEF c1
  <2>8. Fresh \in Computer
    BY DEF Fresh, Computer, NoEnv, NoSecrets, Stored, Clickhouse
  <2>9. /\ pc \in Computer /\ pc.cluster = c1 /\ pc.env = None /\ pc.record = None /\ pc.pending = None
        /\ pc.partial = {} /\ pc.up = FALSE /\ pc.files = {"postgres", "timescale"} /\ pc.ch.db = None /\ pc.port = 0
    BY <2>6, <2>7, <2>8 DEF Computer, Fresh, NoEnv
  <2>10. pc.cluster # None
    BY <2>7, <2>9, NoneAssumption
  <2> QED BY <1>1, <2>4, <2>5, <2>7, <2>9, <2>10 DEF Services
<1> QED BY <1>2, <1>3

LEMMA InitInv == Init => Inv
<1> SUFFICES ASSUME Init PROVE Inv
  OBVIOUS
<1>1. JobOK
  BY InitFacts, SetupAssumption DEF JobOK, NoJob
<1>2. NamesOK
  BY InitFacts DEF NamesOK, IsEarly, NoJob, Name, Under
<1>3. HeldOK
  <2>1. 0 \in Name
    BY SetupAssumption DEF Name
  <2>2. CASE pc.cluster = None
    BY <2>2, InitFacts DEF HeldOK
  <2>3. CASE pc.cluster # None
    BY <2>1, <2>3, InitFacts DEF Computer, Cluster, Holds, Has, DatabaseIn, HeldOK
  <2> QED BY <2>2, <2>3
<1>4. ClusterOK
  BY InitFacts DEF ClusterOK
<1> QED BY <1>1, <1>2, <1>3, <1>4, InitFacts DEF Inv

(* A job begins, on the computer as it is or as it was booted.             *)
LEMMA BeginsInv ==
  ASSUME Inv, at = "idle", NEW new \in Job, Begin(new), Keeps(pc, pc'), UNCHANGED <<last, held, faults>>,
         \/ setups' = setups + 1 /\ setups < MaxSetups /\ changes' = changes /\ new.n = setups + 1
         \/ setups' = setups /\ new.kind # "install" /\ changes < MaxChanges /\ changes' = changes + 1
  PROVE  Inv'
<1>1. setups \in 0..MaxSetups /\ changes \in 0..MaxChanges /\ faults \in 0..MaxFaults
  BY DEF Inv, JobOK
<1>2. setups' \in 0..MaxSetups /\ changes' \in 0..MaxChanges /\ faults' \in 0..MaxFaults
      /\ (new.kind = "install" => setups' > 0 /\ new.n = setups')
  BY <1>1, SetupAssumption
<1>3. new.kind \in Kinds /\ job' = new /\ at' = Head(Paths[new.kind])
  BY DEF Begin, Job
<1>4. at' \in {"manager", "stage", "stop", "remove"} /\ at' \in ToSet(Paths[new.kind])
      /\ (at' # "remove" => new.kind \notin {"uninstall", "delete"}) /\ at' \notin Clustered[new.kind]
  BY <1>3, KindsAre, Firsts, TasksAre, AfterIs, ClusteredIs
<1>5. JobOK'
  <2>1. Applies(new, at')
    BY <1>4, AppliesIs
  <2> QED BY <1>2, <1>3, <1>4, <2>1, Zenon DEF JobOK, Applies, Inv
<1>6. Preserves(pc, pc') /\ pc' \in Computer /\ Services(pc')
  BY DEF Keeps, Preserves
<1>7. NamesOK'
  <2> SUFFICES ASSUME NEW k \in Name, (k > setups') \/ (IsEarly' /\ k = setups')
               PROVE  Under(pc', k) = None
    BY Zenon DEF NamesOK, Under
  <2>1. k > setups /\ k # 0
    BY <1>1, <1>3 DEF IsEarly, Name
  <2> QED BY <2>1 DEF Inv, NamesOK, Keeps
<1>8. ClusterOK'
  BY <1>3, <1>4, KindsAre, Zenon DEF ClusterOK
<1>9. HeldOK'
  BY <1>6, HeldStays DEF Inv
<1> QED BY <1>5, <1>6, <1>7, <1>8, <1>9, Zenon DEF Inv, Services

LEMMA PlanOfIs ==
  ASSUME pc \in Computer, setups \in 0..MaxSetups, setups < MaxSetups, NEW c \in Plans
  PROVE  PlanOf(c) \in Job /\ PlanOf(c).kind = "install" /\ PlanOf(c).n = setups + 1
BY SetupAssumption, KindsAre DEF Name, Database, Computer, Cluster, PlanOf, Job

LEMMA InstallInv ==
  ASSUME Inv, NEW c \in Plans, Install(c)
  PROVE  Inv'
BY PlanOfIs, SameKeeps, BeginsInv DEF Inv, JobOK, Install, CanInstall, StartInstall

LEMMA RetryInv ==
  ASSUME Inv, Retry
  PROVE  Inv'
<1> DEFINE new == [last.plan EXCEPT !.n = setups + 1, !.moved = FALSE, !.before = Database]
<1>1. last.plan \in Job /\ setups + 1 \in Name /\ 0 \in Name
  BY SetupAssumption DEF Inv, JobOK, Retry, NoJob, Name
<1>2. Database \in Databases(Name) \union {None}
  BY <1>1 DEF Database, Inv, Computer, Cluster
<1>3. new \in Job /\ new.n = setups + 1
  BY <1>1, <1>2 DEF Job
<1>4. /\ at = "idle" /\ setups < MaxSetups /\ pc' = pc /\ setups' = setups + 1 /\ Begin(new)
      /\ UNCHANGED <<last, held, changes, faults>>
  BY DEF Retry, StartInstall
<1>5. Keeps(pc, pc')
  BY <1>4, SameKeeps DEF Inv
<1> HIDE DEF new
<1> QED BY <1>3, <1>4, <1>5, BeginsInv

(* Windows restarted: which services run, and nothing else.                *)
LEMMA BootedIs ==
  ASSUME NEW p \in Computer, Services(p)
  PROVE  /\ Booted(p) \in Computer /\ Services(Booted(p))
         /\ Booted(p).cluster = p.cluster /\ Booted(p).env = p.env /\ Booted(p).record = p.record
         /\ Booted(p).files = p.files /\ Booted(p).partial = p.partial /\ Booted(p).service = p.service
         /\ Booted(p).saved = p.saved /\ Booted(p).pending = p.pending
         /\ Booted(p).ch.db = p.ch.db /\ Booted(p).ch.aside = p.ch.aside /\ Booted(p).ch.there = p.ch.there
         /\ Booted(p).ch.account = p.ch.account /\ Booted(p).ch.ready
         /\ Booted(p).port \in {0} \union (IF p.cluster = None THEN {} ELSE {p.cluster.port})
         /\ Booted(p).up => Answers(Booted(p)) \/ p.env # None
<1> DEFINE port == IF p.service = "auto" THEN p.cluster.port ELSE 0
           q == [p EXCEPT !.port = port]
           c1 == [q.ch EXCEPT !.ready = TRUE]
<1>1. port \in Nat /\ (p.cluster = None => port = 0) /\ (p.cluster # None => port \in {0, p.cluster.port})
  BY DEF Services, Computer, Cluster
<1> HIDE DEF port
<1>2. q \in Computer /\ q.cluster = p.cluster /\ q.env = p.env /\ q.ch = p.ch /\ q.port = port /\ q.record = p.record
      /\ q.files = p.files /\ q.partial = p.partial /\ q.service = p.service /\ q.saved = p.saved /\ q.pending = p.pending
  BY <1>1 DEF Computer
<1>3. Booted(p) = [q EXCEPT !.up = Answers(q), !.ch.ready = TRUE]
  BY DEF Booted, port
<1> HIDE DEF q
<1>4. Answers(q) \in BOOLEAN /\ (Answers(q) => q.env # None)
  BY DEF Answers, NoEnv
<1>5. c1 \in Clickhouse /\ c1.ready /\ c1.db = p.ch.db /\ c1.aside = p.ch.aside /\ c1.there = p.ch.there /\ c1.account = p.ch.account
  BY <1>2 DEF Computer, Clickhouse
<1>6. Booted(p) = [q EXCEPT !.up = Answers(q), !.ch = c1]
  BY <1>3, <1>2 DEF Computer
<1> HIDE DEF c1
<1>7. /\ Booted(p) \in Computer /\ Booted(p).ch = c1 /\ Booted(p).up = Answers(q) /\ Booted(p).cluster = q.cluster
      /\ Booted(p).env = q.env /\ Booted(p).record = q.record /\ Booted(p).files = q.files /\ Booted(p).port = q.port
      /\ Booted(p).partial = q.partial /\ Booted(p).service = q.service /\ Booted(p).saved = q.saved
      /\ Booted(p).pending = q.pending
  BY <1>2, <1>4, <1>5, <1>6 DEF Computer
<1> QED BY <1>1, <1>2, <1>4, <1>5, <1>7 DEF Services

LEMMA ResumeIs ==
  ASSUME Inv, Resume
  PROVE  /\ pc.pending \in Job /\ pc.pending.kind = "install"
         /\ TakePending \in Job /\ TakePending.n = setups + 1 /\ TakePending.kind = "install"
         /\ pc' = [Booted(pc) EXCEPT !.pending = None] /\ pc' \in Computer /\ Services(pc')
         /\ job' = TakePending /\ at' = "manager" /\ setups' = setups + 1
<1>1. pc.pending \in Job /\ setups + 1 \in Name /\ pc.pending.kind = "install"
  BY SetupAssumption DEF Inv, Services, JobOK, Resume, Name, Computer
<1>2. TakePending \in Job /\ TakePending.n = setups + 1 /\ TakePending.kind = "install"
  BY <1>1 DEF TakePending, Job
<1>3. /\ pc' = [Booted(pc) EXCEPT !.pending = None] /\ job' = TakePending /\ at' = "manager" /\ setups' = setups + 1
  BY <1>2, Firsts DEF Resume, StartInstall, Begin
<1>4. Booted(pc) \in Computer /\ Services(Booted(pc))
  BY BootedIs DEF Inv
<1>5. pc' \in Computer /\ Services(pc')
  BY <1>3, <1>4 DEF Computer, Services
<1> QED BY <1>1, <1>2, <1>3, <1>5

LEMMA ResumeInv ==
  ASSUME Inv, Resume
  PROVE  Inv'
<1>1. /\ at = "idle" /\ setups < MaxSetups /\ setups' = setups + 1 /\ Begin(TakePending)
      /\ UNCHANGED <<last, held, changes, faults>>
  BY DEF Resume, StartInstall
<1>2. TakePending \in Job /\ TakePending.n = setups + 1
  BY ResumeIs
<1>3. Booted(pc) \in Computer /\ Booted(pc).cluster = pc.cluster /\ Booted(pc).ch.db = pc.ch.db
      /\ Booted(pc).ch.aside = pc.ch.aside
  BY BootedIs DEF Inv
<1>4. pc' \in Computer /\ Services(pc') /\ pc'.cluster = pc.cluster /\ pc'.ch = Booted(pc).ch
  BY <1>3, ResumeIs DEF Computer
<1>5. Keeps(pc, pc')
  BY <1>3, <1>4, DataKeeps DEF Inv
<1> QED BY <1>1, <1>2, <1>5, BeginsInv

LEMMA FromRecordIs ==
  ASSUME Inv, pc.record # None, NEW kind \in Kinds
  PROVE  FromRecord(kind) \in Job /\ FromRecord(kind).kind = kind
BY SetupAssumption DEF Inv, Computer, Name, Database, Cluster, FromRecord, Job, Installation

LEMMA StartChangeInv ==
  ASSUME Inv, NEW kind \in Kinds \ {"install"}, StartChange(kind)
  PROVE  Inv'
BY FromRecordIs, SameKeeps, BeginsInv DEF StartChange, Inv

(* Something happens to the computer while no job runs.                    *)
LEMMA IdleInv ==
  ASSUME Inv, at = "idle", Keeps(pc, pc'), changes < MaxChanges, changes' = changes + 1,
         UNCHANGED <<at, job, last, held, setups, faults>>
  PROVE  Inv'
<1>1. JobOK'
  BY SetupAssumption DEF Inv, JobOK
<1>2. Preserves(pc, pc') /\ pc' \in Computer /\ Services(pc')
  BY DEF Keeps, Preserves
<1>3. IsEarly' => IsEarly
  BY Zenon DEF IsEarly
<1>4. ClusterOK'
  BY Zenon DEF ClusterOK
<1> QED BY <1>1, <1>2, <1>3, <1>4, HeldStays, NamesStay DEF Inv

(* The superuser's password is the one given or stored, or a new one that  *)
(* SENTIENT's role sets; then the record is made.                          *)
LEMMA WithAdminIs ==
  ASSUME Inv, NEW given \in GivenSuper, pc.env # None
  PROVE  /\ WithAdmin(given) \in Computer /\ WithAdmin(given).cluster # None
         /\ WithAdmin(given) = [pc EXCEPT !.cluster = WithAdmin(given).cluster]
         /\ WithAdmin(given).cluster \in
              {pc.cluster} \union (IF given = 0 /\ AdminPassword(0) = NewSuper /\ AppReaches
                                   THEN {[pc.cluster EXCEPT !.super = NewSuper]} ELSE {})
         /\ given = 0 /\ AdminPassword(0) = NewSuper /\ AppReaches =>
              WithAdmin(given).cluster = [pc.cluster EXCEPT !.super = NewSuper]
         /\ AdminPassword(given) \in Nat
<1>1. pc \in Computer /\ pc.cluster # None /\ pc.cluster \in Cluster
  BY DEF Inv, Services, Computer
<1>2. NewSuper \in Nat /\ given \in Nat
  BY SetupAssumption
<1>3. AdminPassword(given) \in Nat
  BY <1>1, <1>2 DEF AdminPassword, Computer
<1>4. CASE given = 0 /\ AdminPassword(0) = NewSuper /\ AppReaches
  <2> DEFINE c1 == [pc.cluster EXCEPT !.super = NewSuper]
  <2>1. c1 \in Cluster /\ c1 # None
    BY <1>1, <1>2, NoneAssumption DEF Cluster
  <2>2. WithAdmin(given) = [pc EXCEPT !.cluster = c1]
    BY <1>4, <1>1 DEF WithAdmin, Computer
  <2> HIDE DEF c1
  <2>3. WithAdmin(given) \in Computer /\ WithAdmin(given).cluster = c1
    BY <2>1, <2>2, <1>1 DEF Computer
  <2> QED BY <1>3, <1>4, <2>1, <2>2, <2>3 DEF c1
<1>5. CASE ~(given = 0 /\ AdminPassword(0) = NewSuper /\ AppReaches)
  <2>1. WithAdmin(given) = pc
    BY <1>5, Zenon DEF WithAdmin
  <2>2. pc = [pc EXCEPT !.cluster = pc.cluster]
    BY <1>1 DEF Computer
  <2> QED BY <1>1, <1>3, <1>5, <2>1, <2>2
<1> QED BY <1>4, <1>5

LEMMA AdoptIs ==
  ASSUME Inv, NEW given \in GivenSuper, Adopt(given)
  PROVE  /\ at = "idle" /\ changes < MaxChanges /\ changes' = changes + 1
         /\ UNCHANGED <<at, job, last, held, setups, faults>>
         /\ pc.record = None /\ pc.env # None /\ pc.cluster # None
         /\ LET c1 == WithAdmin(given).cluster
            IN /\ c1 \in Cluster /\ c1 # None
               /\ c1 \in {pc.cluster} \union (IF given = 0 /\ AdminPassword(0) = NewSuper /\ AppReaches
                                             THEN {[pc.cluster EXCEPT !.super = NewSuper]} ELSE {})
               /\ \/ pc' = [pc EXCEPT !.cluster = c1]
                  \/ /\ AdminPassword(given) # 0 /\ Verified
                     /\ given = 0 /\ AdminPassword(0) = NewSuper => c1 = [pc.cluster EXCEPT !.super = NewSuper]
                     /\ pc' = [pc EXCEPT !.cluster = c1, !.saved = Stored(pc.env.pw, AdminPassword(given)),
                                         !.record = Recorded(pc.env)]
         /\ pc' \in Computer
<1>1. /\ at = "idle" /\ changes < MaxChanges /\ changes' = changes + 1
      /\ UNCHANGED <<at, job, last, held, setups, faults>> /\ pc.record = None /\ pc.env # None
  BY DEF Adopt, Candidate, NoEnv
<1>2. pc \in Computer /\ pc.cluster # None /\ pc.env \in Env
  BY <1>1 DEF Inv, Services, Computer
<1> DEFINE w == WithAdmin(given)
           c1 == w.cluster
           a == AdminPassword(given)
<1>3. /\ w \in Computer /\ c1 # None /\ w = [pc EXCEPT !.cluster = c1] /\ a \in Nat
      /\ c1 \in {pc.cluster} \union (IF given = 0 /\ AdminPassword(0) = NewSuper /\ AppReaches
                                     THEN {[pc.cluster EXCEPT !.super = NewSuper]} ELSE {})
      /\ given = 0 /\ AdminPassword(0) = NewSuper /\ AppReaches => c1 = [pc.cluster EXCEPT !.super = NewSuper]
  BY <1>1, WithAdminIs
<1>4. c1 \in Cluster
  BY <1>3 DEF Computer
<1>5. pc' = IF a # 0 /\ Verified
            THEN [w EXCEPT !.saved = Stored(pc.env.pw, a), !.record = Recorded(pc.env)] ELSE w
  BY Zenon DEF Adopt, Found
<1>6. Stored(pc.env.pw, a) \in [db : Nat, super : Nat] /\ Recorded(pc.env) \in Installation
  BY <1>2, <1>3 DEF Stored, Recorded, Env, Installation
<1> HIDE DEF w, c1, a
<1>7. CASE a # 0 /\ Verified
  BY <1>1, <1>2, <1>3, <1>4, <1>5, <1>6, <1>7 DEF Computer, Verified, w, c1, a
<1>8. CASE ~(a # 0 /\ Verified)
  BY <1>1, <1>2, <1>3, <1>4, <1>5, <1>8 DEF w, c1, a
<1> QED BY <1>7, <1>8

LEMMA AdoptInv ==
  ASSUME Inv, NEW given \in GivenSuper, Adopt(given)
  PROVE  Inv'
<1> DEFINE c1 == WithAdmin(given).cluster
<1>1. pc.cluster \in Cluster /\ pc.cluster # None /\ c1 \in Cluster /\ c1 # None /\ pc' \in Computer
  BY AdoptIs DEF Inv, Computer
<1>2. c1.dbs = pc.cluster.dbs
  BY <1>1, AdoptIs DEF Cluster
<1>3. pc'.cluster = c1 /\ pc'.ch = pc.ch /\ pc'.env = pc.env /\ pc'.up = pc.up /\ pc'.pending = pc.pending
  <2>1. PICK s, r : \/ pc' = [pc EXCEPT !.cluster = c1]
                    \/ pc' = [pc EXCEPT !.cluster = c1, !.saved = s, !.record = r]
    BY AdoptIs
  <2> HIDE DEF c1
  <2> QED BY <2>1 DEF Inv, Computer
<1> HIDE DEF c1
<1>4. Services(pc')
  BY <1>1, <1>3 DEF Inv, Services
<1>5. Keeps(pc, pc')
  BY <1>1, <1>2, <1>3, <1>4, DataKeeps DEF Inv
<1> QED BY <1>5, AdoptIs, IdleInv

LEMMA ControlIs ==
  ASSUME Inv, NEW run \in BOOLEAN, Control(run)
  PROVE  /\ at = "idle" /\ changes < MaxChanges /\ changes' = changes + 1
         /\ UNCHANGED <<at, job, last, held, setups, faults>> /\ pc.env # None /\ pc.cluster # None
         /\ \E port \in {0, pc.cluster.port}, up \in BOOLEAN :
              /\ pc' = [pc EXCEPT !.port = port, !.up = up]
              /\ run => port = pc.cluster.port
         /\ pc' \in Computer
<1> DEFINE port == IF run THEN pc.cluster.port ELSE 0
           p == [pc EXCEPT !.port = port]
           up == run /\ Answers(p)
<1>1. /\ at = "idle" /\ changes < MaxChanges /\ changes' = changes + 1
      /\ UNCHANGED <<at, job, last, held, setups, faults>> /\ pc.env # None /\ pc' = [p EXCEPT !.up = up]
  BY DEF Control, NoEnv
<1>2. pc \in Computer /\ pc.cluster # None /\ pc.cluster \in Cluster
  BY <1>1 DEF Inv, Services, Computer
<1>3. port \in Nat /\ up \in BOOLEAN /\ port \in {0, pc.cluster.port} /\ (run => port = pc.cluster.port)
  BY <1>2 DEF Cluster, Answers
<1> HIDE DEF up, port
<1>4. pc' = [pc EXCEPT !.port = port, !.up = up] /\ pc' \in Computer
  BY <1>1, <1>2, <1>3 DEF Computer
<1> QED BY <1>1, <1>2, <1>3, <1>4

LEMMA ControlInv ==
  ASSUME Inv, NEW run \in BOOLEAN, Control(run)
  PROVE  Inv'
<1>1. PICK port, up : pc' = [pc EXCEPT !.port = port, !.up = up]
  BY ControlIs
<1>2. pc'.cluster = pc.cluster /\ pc'.ch = pc.ch /\ pc'.env = pc.env /\ pc'.pending = pc.pending
  BY <1>1 DEF Inv, Computer
<1>3. Services(pc') /\ pc' \in Computer
  BY <1>2, ControlIs DEF Inv, Services
<1>4. Keeps(pc, pc')
  BY <1>2, <1>3, DataKeeps DEF Inv
<1> QED BY <1>4, ControlIs, IdleInv

----------------------------------------------------------------------------
(* The tasks that change neither the databases nor the histories.          *)
LEMMA ApartKeeps ==
  ASSUME Inv, NEW q \in Computer, q.cluster = pc.cluster, q.ch.db = pc.ch.db, q.ch.aside = pc.ch.aside, Services(q)
  PROVE  Keeps(pc, q)
BY DataKeeps DEF Inv

LEMMA TaskFacts ==
  ASSUME Inv, at # "idle"
  PROVE  /\ pc \in Computer /\ job \in Job
         /\ job.kind \in {"install", "repair", "reconfigure", "uninstall", "delete"}
         /\ at \in Clustered[job.kind] => pc.cluster # None /\ pc.cluster \in Cluster
         /\ pc.cluster # None => pc.cluster \in Cluster
         /\ faults' = faults => faults' \in 0..MaxFaults
BY JobKind DEF Inv, ClusterOK, Computer, JobOK

LEMMA FileTasksInv ==
  ASSUME Inv, InstallManager \/ InstallRuntime \/ InstallPostgres \/ Stage \/ WriteEnv \/ MakeShortcuts
  PROVE  Inv'
<1>1. at \in {"manager", "runtime", "postgres", "stage", "env", "shortcuts"}
  BY DEF InstallManager, InstallRuntime, InstallPostgres, Stage, WriteEnv, MakeShortcuts
<1>2. at # "idle" /\ pc \in Computer /\ job.kind \notin {"uninstall", "delete"}
  BY <1>1, OwnTasks, TaskFacts DEF Inv
<1>3. ASSUME NEW fs \in SUBSET {"manager", "postgres", "timescale", "programs", "wrapper"},
             Does([pc EXCEPT !.files = fs]), at # "stage" \/ pc.cluster # None
      PROVE  Inv'
  <2> DEFINE q == [pc EXCEPT !.files = fs]
  <2>1. q \in Computer /\ q.cluster = pc.cluster /\ q.ch = pc.ch /\ q.env = pc.env /\ q.up = pc.up /\ q.pending = pc.pending
        /\ q.port = pc.port /\ q.service = pc.service
    BY <1>2, <1>3 DEF Computer
  <2> HIDE DEF q
  <2>2. Services(q)
    BY <2>1 DEF Inv, Services
  <2>3. Keeps(pc, q)
    BY <2>1, <2>2, ApartKeeps
  <2> QED BY <1>1, <1>2, <1>3, <2>1, <2>3, DoesKeeps DEF q
<1>4. ASSUME NEW how \in {"refused", "stuck"}, Stops(how) PROVE Inv'
  BY <1>4, StopsInv
<1>5. pc = [pc EXCEPT !.files = pc.files] /\ pc.files \in SUBSET {"manager", "postgres", "timescale", "programs", "wrapper"}
  BY <1>2 DEF Computer
<1>6. CASE InstallManager
  BY <1>3, <1>5, <1>6 DEF InstallManager, Add
<1>7. CASE InstallRuntime \/ WriteEnv \/ MakeShortcuts
  BY <1>3, <1>5, <1>7 DEF InstallRuntime, WriteEnv, MakeShortcuts
<1>8. CASE InstallPostgres
  BY <1>3, <1>4, <1>5, <1>8 DEF InstallPostgres, Obtain, Add
<1>9. CASE Stage
  BY <1>3, <1>4, <1>5, <1>9 DEF Stage, Prerequisites, Inv, Services
<1> QED BY <1>6, <1>7, <1>8, <1>9

(* The tasks of ClickHouse in WSL2.                                        *)
LEMMA ClickhouseTasksInv ==
  ASSUME Inv, EnableWsl \/ MakeAccount \/ Provision
  PROVE  Inv'
<1>1. at \in {"wsl", "account", "provision"}
  BY DEF EnableWsl, MakeAccount, Provision
<1>2. at # "idle" /\ pc \in Computer /\ job.kind = "install" /\ job \in Job /\ (faults' = faults => faults' \in 0..MaxFaults)
  BY <1>1, OwnTasks, TaskFacts DEF Inv
<1>3. ASSUME NEW c \in Clickhouse, c.db = pc.ch.db, c.aside = pc.ch.aside, Does([pc EXCEPT !.ch = c])
      PROVE  Inv'
  <2> DEFINE q == [pc EXCEPT !.ch = c]
  <2>1. q \in Computer /\ q.cluster = pc.cluster /\ q.ch = c /\ q.env = pc.env /\ q.up = pc.up /\ q.pending = pc.pending
        /\ q.port = pc.port /\ q.service = pc.service
    BY <1>2 DEF Computer
  <2> HIDE DEF q
  <2>2. Keeps(pc, q)
    BY <1>3, <2>1, ApartKeeps DEF Inv, Services
  <2> QED BY <1>1, <1>2, <1>3, <2>2, DoesKeeps DEF q
<1>4. pc.ch \in Clickhouse
  BY <1>2 DEF Computer
<1>5. CASE EnableWsl
  <2>1. CASE Does([pc EXCEPT !.ch.ready = TRUE])
    BY <1>2, <1>3, <1>4, <2>1 DEF Computer, Clickhouse
  <2>2. CASE pc' = SavePending /\ End("restart") /\ Rest
    BY <1>2, <2>2, ApartKeeps, EndKeeps DEF SavePending, Computer, Inv, Services, Rest
  <2> QED BY <1>5, <2>1, <2>2 DEF EnableWsl
<1>6. CASE MakeAccount
  BY <1>2, <1>3, <1>4, <1>6 DEF Computer, Clickhouse, MakeAccount
<1>7. CASE Provision
  BY <1>2, <1>3, <1>4, <1>7, StopsInv DEF Computer, Clickhouse, Provision, AsAccount
<1> QED BY <1>5, <1>6, <1>7

(* The history in service is set aside with those that are.                *)
LEMMA SetAsideHistoryInv ==
  ASSUME Inv, SetAsideHistory
  PROVE  Inv'
<1> DEFINE c == [pc.ch EXCEPT !.db = None, !.aside = pc.ch.aside \union {pc.ch.db}]
           q == [pc EXCEPT !.ch = c]
<1>1. at = "history" /\ at # "idle" /\ pc \in Computer /\ job.kind = "install" /\ pc.ch \in Clickhouse
  BY OwnTasks, TaskFacts DEF Inv, SetAsideHistory, Computer
<1>2. CASE Does(pc)
  BY <1>1, <1>2, SameKeeps, DoesKeeps DEF Inv
<1>3. CASE pc.ch.db # None /\ Does(q)
  <2>1. c \in Clickhouse /\ \A n : n = pc.ch.db \/ n \in pc.ch.aside => n \in c.aside
    BY <1>1, <1>3 DEF Clickhouse
  <2> HIDE DEF c
  <2>2. q \in Computer /\ q.cluster = pc.cluster /\ q.ch = c /\ q.env = pc.env /\ q.up = pc.up /\ q.pending = pc.pending
        /\ q.port = pc.port /\ q.service = pc.service
    BY <1>1, <2>1 DEF Computer
  <2> HIDE DEF q
  <2>3. Services(q)
    BY <2>2 DEF Inv, Services
  <2>4. Keeps(pc, q)
    BY <2>1, <2>2, <2>3 DEF Keeps, Preserves, DatabaseIn, HistoryIn, Under
  <2> QED BY <1>1, <1>3, <2>4, DoesKeeps
<1>4. q = [pc EXCEPT !.ch.db = None, !.ch.aside = @ \union {pc.ch.db}]
  BY <1>1 DEF Computer
<1>5. Does(pc) \/ (pc.ch.db # None /\ Does(q))
  BY <1>4, Zenon DEF SetAsideHistory
<1> QED BY <1>2, <1>3, <1>5

----------------------------------------------------------------------------
(* The tasks of the server.                                                *)

(* Once there is a cluster, changed but for its databases.                 *)
LEMMA ClusterTaskInv ==
  ASSUME Inv, at # "idle", job.kind \notin {"uninstall", "delete"}, pc.cluster # None,
         NEW c \in Cluster, c.dbs = pc.cluster.dbs, Does([pc EXCEPT !.cluster = c])
  PROVE  Inv'
<1> DEFINE q == [pc EXCEPT !.cluster = c]
<1>1. Keeps(pc, q)
  BY ClusterKeeps DEF Inv
<1>2. q.cluster # None
  BY NoneAssumption DEF Inv, Computer
<1> HIDE DEF q
<1> QED BY <1>1, <1>2, DoesKeeps DEF q

(* Its port, its service and whether it runs.                              *)
LEMMA ServerKeeps ==
  ASSUME Inv, pc.cluster # None, NEW port \in Nat, NEW service \in {"none", "auto", "demand"}
  PROVE  Keeps(pc, [pc EXCEPT !.port = port, !.service = service])
<1> DEFINE q == [pc EXCEPT !.port = port, !.service = service]
<1>1. q \in Computer /\ q.cluster = pc.cluster /\ q.ch = pc.ch /\ q.env = pc.env /\ q.up = pc.up
      /\ q.pending = pc.pending
  BY DEF Inv, Computer
<1> HIDE DEF q
<1>2. Services(q)
  BY <1>1 DEF Inv, Services
<1> QED BY <1>1, <1>2, ApartKeeps DEF q

LEMMA ServerTaskInv ==
  ASSUME Inv, at # "idle", job.kind \notin {"uninstall", "delete"}, pc.cluster # None,
         NEW port \in Nat, NEW service \in {"none", "auto", "demand"},
         Does([pc EXCEPT !.port = port, !.service = service])
  PROVE  Inv'
<1> DEFINE q == [pc EXCEPT !.port = port, !.service = service]
<1>1. Keeps(pc, q)
  BY ServerKeeps
<1>2. q.cluster # None
  BY DEF Inv, Computer
<1> HIDE DEF q
<1> QED BY <1>1, <1>2, DoesKeeps DEF q

LEMMA InitDbInv ==
  ASSUME Inv, InitDb
  PROVE  Inv'
<1> DEFINE c == [super |-> job.super, port |-> 0, trust |-> FALSE, preload |-> FALSE, role |-> 0, dbs |-> NoDatabases]
           q == [pc EXCEPT !.cluster = c]
<1>1. at = "initdb" /\ at # "idle" /\ pc \in Computer /\ job \in Job /\ job.kind = "install"
  BY OwnTasks, TaskFacts DEF Inv, InitDb
<1>2. CASE pc.cluster # None
  BY <1>1, <1>2, SameKeeps, DoesKeeps DEF InitDb, Inv
<1>3. CASE pc.cluster = None
  <2>1. Does(q)
    BY <1>3, Zenon DEF InitDb, NewCluster
  <2>2. c \in Cluster /\ c.dbs = NoDatabases
    BY <1>1 DEF Cluster, Job, NoDatabases
  <2> HIDE DEF c
  <2>3. c # None
    BY <2>2, NoneAssumption
  <2>4. q \in Computer /\ q.cluster = c /\ q.ch = pc.ch /\ q.env = pc.env /\ q.up = pc.up /\ q.pending = pc.pending
    BY <1>1, <2>2 DEF Computer
  <2> HIDE DEF q
  <2>5. Services(q)
    BY <2>3, <2>4 DEF Inv, Services
  <2>6. Keeps(pc, q)
    BY <1>1, <1>3, <2>2, <2>4, <2>5, DataKeeps
  <2> QED BY <1>1, <2>1, <2>3, <2>4, <2>6, DoesKeeps
<1> QED BY <1>2, <1>3

LEMMA SetPortInv ==
  ASSUME Inv, SetPort
  PROVE  Inv'
<1> DEFINE c == [pc.cluster EXCEPT !.port = job.port]
           q == [pc EXCEPT !.cluster = c]
<1>1. at = "port" /\ at # "idle" /\ pc \in Computer /\ job \in Job /\ job.kind = "install"
  BY OwnTasks, TaskFacts DEF Inv, SetPort
<1>2. pc.cluster # None /\ pc.cluster \in Cluster
  BY <1>1, TaskFacts, ClusteredIs, AfterIs
<1>3. c \in Cluster /\ c.dbs = pc.cluster.dbs
  BY <1>1, <1>2 DEF Cluster, Job
<1>4. pc' = q
  BY <1>1 DEF SetPort, Computer
<1> HIDE DEF c
<1>5. Keeps(pc, q) /\ q.cluster # None
  BY <1>1, <1>2, <1>3, NoneAssumption, ClusterKeeps DEF Computer, Inv
<1> HIDE DEF q
<1>6. Keeps(pc, pc') /\ pc'.cluster # None /\ pc' \in Computer /\ Services(pc') /\ Preserves(pc, pc')
  BY <1>4, <1>5 DEF Keeps, Preserves
<1>7. /\ at' = Following /\ job' = [job EXCEPT !.moved = pc.cluster.port # job.port] /\ last' = last
      /\ UNCHANGED <<held, setups, changes, faults>>
  BY DEF SetPort, Rest
<1>8. Following = "timescale"
  BY <1>1, JobKind, InstallNext DEF Inv
<1>9. job' \in Job /\ job'.kind = "install" /\ job'.n = job.n
  BY <1>1, <1>7 DEF Job
<1>10. at' \in ToSet(Paths["install"]) /\ at' # "idle"
  BY <1>7, <1>8, TasksAre, AfterIs
<1>11. Applies(job', "timescale")
  BY AppliesIs
<1>12. JobOK'
  BY <1>1, <1>7, <1>8, <1>9, <1>10, <1>11, Zenon DEF Inv, JobOK, Applies
<1>13. IsEarly' => IsEarly
  BY <1>1, AfterIs DEF IsEarly
<1>14. HeldOK' /\ NamesOK'
  BY <1>1, <1>6, <1>7, <1>13, HeldStays, NamesStay DEF Inv
<1>15. ClusterOK'
  BY <1>6, <1>9 DEF ClusterOK
<1> QED BY <1>6, <1>12, <1>14, <1>15, Zenon DEF Inv, Services

LEMMA InstallTimescaleInv ==
  ASSUME Inv, InstallTimescale
  PROVE  Inv'
<1>1. at = "timescale" /\ at # "idle" /\ pc \in Computer /\ job \in Job /\ job.kind = "install"
  BY OwnTasks, TaskFacts DEF Inv, InstallTimescale
<1>2. pc.cluster # None
  BY <1>1, TaskFacts, ClusteredIs, AfterIs
<1>3. CASE Does([pc EXCEPT !.files = pc.files \union {"timescale"}])
  <2> DEFINE q == [pc EXCEPT !.files = pc.files \union {"timescale"}]
  <2>1. q \in Computer /\ q.cluster = pc.cluster /\ q.ch = pc.ch /\ q.env = pc.env /\ q.up = pc.up
        /\ q.pending = pc.pending /\ q.port = pc.port /\ q.service = pc.service
    BY <1>1 DEF Computer
  <2> HIDE DEF q
  <2>2. Keeps(pc, q)
    BY <2>1, ApartKeeps DEF Inv, Services
  <2> QED BY <1>1, <1>3, <2>2, DoesKeeps DEF q
<1>4. CASE pc' = pc /\ at' = "service" /\ UNCHANGED <<job, last>> /\ Rest
  <2>1. "service" \in ToSet(Paths["install"]) /\ at' # "idle"
    BY <1>4, TasksAre, AfterIs
  <2>2. Applies(job, "service")
    BY AppliesIs
  <2>3. JobOK'
    BY <1>1, <1>4, <2>1, <2>2, Zenon DEF Inv, JobOK, Applies, Rest
  <2>4. IsEarly' => IsEarly
    BY <1>1, AfterIs DEF IsEarly
  <2>5. Keeps(pc, pc') /\ Preserves(pc, pc') /\ setups' = setups /\ held' = held
    BY <1>4, SameKeeps DEF Inv, Keeps, Rest
  <2>6. HeldOK' /\ NamesOK'
    BY <1>1, <2>4, <2>5, HeldStays, NamesStay DEF Inv
  <2>7. ClusterOK'
    BY <1>1, <1>2, <1>4 DEF ClusterOK
  <2> QED BY <1>4, <2>3, <2>6, <2>7, Zenon DEF Inv, Services
<1>5. \/ pc' = pc /\ at' = "service" /\ UNCHANGED <<job, last>> /\ Rest
      \/ Does([pc EXCEPT !.files = pc.files \union {"timescale"}]) \/ Stops("stuck")
  BY DEF InstallTimescale, Obtain, Add
<1> QED BY <1>3, <1>4, <1>5, StopsInv

(* The rest of PostgreSQL's own tasks.                                     *)
LEMMA ServerTasksInv ==
  ASSUME Inv, Preload \/ RegisterPostgres \/ StartPostgres \/ EnableTimescale \/ Tune
  PROVE  Inv'
<1>1. at \in {"preload", "service", "start", "extension", "tune"}
  BY DEF Preload, RegisterPostgres, StartPostgres, EnableTimescale, Tune
<1>2. /\ at # "idle" /\ pc \in Computer /\ job.kind \notin {"uninstall", "delete"}
      /\ job.kind = "install" => pc.cluster # None
      /\ at \in {"preload", "service", "start", "extension"} => job.kind = "install"
      /\ pc.cluster # None => pc.cluster \in Cluster
      /\ (faults' = faults => faults' \in 0..MaxFaults)
  BY <1>1, OwnTasks, TaskFacts, ClusteredIs, AfterIs DEF Inv
<1>3. pc.port \in Nat /\ pc.service \in {"none", "auto", "demand"} /\ pc.up \in BOOLEAN
      /\ \A port : [pc EXCEPT !.port = port] = [pc EXCEPT !.port = port, !.service = pc.service]
  BY <1>2 DEF Computer
<1>4. CASE Preload
  <2> DEFINE c == [pc.cluster EXCEPT !.preload = TRUE]
  <2>1. pc.cluster # None /\ pc.cluster \in Cluster
    BY <1>2, <1>4 DEF Preload
  <2>2. c \in Cluster /\ c.dbs = pc.cluster.dbs
    BY <2>1 DEF Cluster
  <2>3. Does([pc EXCEPT !.cluster = c])
    BY <1>2, <1>4 DEF Computer, Preload
  <2> HIDE DEF c
  <2> QED BY <1>2, <2>1, <2>2, <2>3, ClusterTaskInv
<1>5. CASE RegisterPostgres
  <2>1. pc.cluster # None
    BY <1>2, <1>5 DEF RegisterPostgres
  <2>2. /\ [pc EXCEPT !.service = "auto"] = [pc EXCEPT !.port = pc.port, !.service = "auto"]
        /\ pc = [pc EXCEPT !.port = pc.port, !.service = pc.service]
    BY <1>2 DEF Computer
  <2>3. \/ Does([pc EXCEPT !.port = pc.port, !.service = "auto"])
        \/ Does([pc EXCEPT !.port = pc.port, !.service = pc.service])
    BY <1>5, <2>2 DEF RegisterPostgres
  <2> QED BY <1>2, <1>3, <2>1, <2>3, ServerTaskInv
<1>6. ASSUME NEW p, p \in Nat PROVE pc.cluster # None => Started(p) \in Nat /\ Stopped(p) \in Nat
  BY <1>2, <1>6 DEF Started, Stopped, Cluster
<1>7. CASE StartPostgres
  <2> DEFINE port == Started(IF job.moved THEN Stopped(pc.port) ELSE pc.port)
  <2>1. pc.cluster # None
    BY <1>2, <1>7 DEF StartPostgres
  <2>2. port \in Nat
    BY <1>3, <1>6, <2>1
  <2>3. Keeps(pc, [pc EXCEPT !.port = port])
    BY <1>3, <2>1, <2>2, ServerKeeps
  <2>4. \/ Does([pc EXCEPT !.port = port, !.service = pc.service])
        \/ pc' = [pc EXCEPT !.port = port] /\ End("stuck") /\ Rest
    BY <1>3, <1>7 DEF StartPostgres
  <2> HIDE DEF port
  <2>5. CASE Does([pc EXCEPT !.port = port, !.service = pc.service])
    BY <1>2, <1>3, <2>1, <2>2, <2>5, ServerTaskInv
  <2>6. CASE pc' = [pc EXCEPT !.port = port] /\ End("stuck") /\ Rest
    BY <1>2, <2>3, <2>6, EndKeeps DEF Rest
  <2> QED BY <2>4, <2>5, <2>6
<1>8. CASE EnableTimescale
  <2>1. Stops("stuck") \/ Stops("refused") \/ Does(pc)
    BY <1>8, Zenon DEF EnableTimescale, DoesSql
  <2>2. at # "tune" /\ at # "stage" /\ at # "initdb"
    BY <1>8 DEF EnableTimescale
  <2> QED BY <1>2, <2>1, <2>2, StopsInv, SameKeeps, DoesKeeps DEF Inv
<1>9. CASE Tune
  <2> DEFINE port == Started(Stopped(pc.port))
  <2>1. (Sql /\ Does([pc EXCEPT !.port = port])) \/ Stops("refused")
    BY <1>9 DEF Tune, DoesSql
  <2>2. Sql => pc.cluster # None
    BY DEF Sql, SignsIn
  <2>3. pc.cluster # None => port \in Nat
    BY <1>3, <1>6
  <2>4. Sql => Does([pc EXCEPT !.port = port, !.service = pc.service]) \/ Stops("refused")
    BY <1>3, <2>1
  <2> HIDE DEF port
  <2> QED BY <1>2, <1>3, <2>1, <2>2, <2>3, <2>4, ServerTaskInv, StopsInv
<1> QED BY <1>4, <1>5, <1>7, <1>8, <1>9

----------------------------------------------------------------------------
(* The tasks of the databases.                                             *)
LEMMA SyncRolePasswordInv ==
  ASSUME Inv, SyncRolePassword
  PROVE  Inv'
<1> DEFINE c == [pc.cluster EXCEPT !.role = job.pw]
<1>1. at = "role" /\ at # "idle" /\ pc \in Computer /\ job \in Job /\ job.kind = "install"
  BY OwnTasks, TaskFacts DEF Inv, SyncRolePassword
<1>2. pc.cluster # None /\ pc.cluster \in Cluster
  BY <1>1, TaskFacts, ClusteredIs, AfterIs
<1>3. [pc EXCEPT !.cluster.role = job.pw] = [pc EXCEPT !.cluster = c]
  BY <1>1 DEF Computer
<1>4. c \in Cluster /\ c.dbs = pc.cluster.dbs
  BY <1>1, <1>2 DEF Cluster, Job
<1>5. Stops("refused") \/ Does(pc) \/ Does([pc EXCEPT !.cluster = c])
  BY <1>3, Zenon DEF SyncRolePassword, DoesSql
<1> HIDE DEF c
<1>6. Does(pc) => Inv'
  BY <1>1, SameKeeps, DoesKeeps DEF Inv
<1> QED BY <1>1, <1>2, <1>4, <1>5, <1>6, ClusterTaskInv, StopsInv

(* The database stays, as it is or converted, or is set aside under a name *)
(* nothing is under.                                                       *)
LEMMA PreparedIs ==
  ASSUME NEW under \in [Name -> Databases(Name) \union {None}], NEW existing, NEW flavor,
         NEW n \in Name \ {0}, under[n] = None
  PROVE  /\ Prepared(under, existing, flavor, n) \in [Name -> Databases(Name) \union {None}]
         /\ \A i \in Name : Holds(under, i) => Holds(Prepared(under, existing, flavor, n), i)
         /\ \A k \in Name \ {0, n} : Prepared(under, existing, flavor, n)[k] = under[k]
         /\ under[0] = None => Prepared(under, existing, flavor, n) = under
         /\ under[0] # None /\ existing = "fresh" =>
              /\ Prepared(under, existing, flavor, n)[0] = None
              /\ Prepared(under, existing, flavor, n)[n] = under[0]
         /\ under[0] # None /\ existing # "fresh" =>
              \/ Prepared(under, existing, flavor, n) = under /\ Verdict(under[0].shape, flavor) # "convert"
              \/ /\ Prepared(under, existing, flavor, n) = [under EXCEPT ![0] = [under[0] EXCEPT !.shape = "hypertable"]]
                 /\ Verdict(under[0].shape, flavor) = "convert"
<1> DEFINE new == Prepared(under, existing, flavor, n)
<1>1. 0 \in Name
  BY SetupAssumption DEF Name
<1>2. CASE under[0] = None
  BY <1>2 DEF Prepared
<1>3. CASE under[0] # None /\ existing = "fresh"
  <2>1. new = SetAside(under, n)
    BY <1>3 DEF Prepared
  <2>2. new \in [Name -> Databases(Name) \union {None}]
    BY <2>1, <1>1 DEF SetAside
  <2>3. new[0] = None /\ new[n] = under[0] /\ \A k \in Name \ {0, n} : new[k] = under[k]
    BY <2>1, <1>1 DEF SetAside
  <2> HIDE DEF new
  <2>4. ASSUME NEW i \in Name, Holds(under, i)
        PROVE  Holds(new, i)
    <3>1. PICK k \in Name : under[k] # None /\ under[k].of = i
      BY <2>4 DEF Holds
    <3>2. CASE k = 0
      BY <2>2, <2>3, <3>1, <3>2 DEF Holds
    <3>3. CASE k # 0
      BY <2>2, <2>3, <3>1, <3>3 DEF Holds
    <3> QED BY <3>2, <3>3
  <2> QED BY <1>3, <2>2, <2>3, <2>4 DEF new
<1>4. CASE under[0] # None /\ existing # "fresh"
  <2>1. CASE Verdict(under[0].shape, flavor) # "convert"
    BY <1>4, <2>1 DEF Prepared
  <2>2. CASE Verdict(under[0].shape, flavor) = "convert"
    <3> DEFINE d == [under[0] EXCEPT !.shape = "hypertable"]
    <3>1. d \in Databases(Name) /\ d.of = under[0].of
      BY <1>1, <1>4 DEF Databases
    <3>2. new = [under EXCEPT ![0] = d]
      BY <1>1, <1>4, <2>2 DEF Prepared, Converted
    <3> HIDE DEF d
    <3>3. new \in [Name -> Databases(Name) \union {None}] /\ new[0] = d /\ \A k \in Name \ {0} : new[k] = under[k]
      BY <1>1, <3>1, <3>2
    <3> HIDE DEF new
    <3>4. ASSUME NEW i \in Name, Holds(under, i)
          PROVE  Holds(new, i)
      BY <3>1, <3>3, <3>4, NoneAssumption DEF Holds
    <3> QED BY <1>4, <2>2, <3>2, <3>3, <3>4 DEF d, new
  <2> QED BY <2>1, <2>2
<1> QED BY <1>2, <1>3, <1>4

LEMMA PrepareExistingInv ==
  ASSUME Inv, PrepareExisting
  PROVE  Inv'
<1> DEFINE under == Prepared(pc.cluster.dbs, job.existing, job.flavor, job.n)
           c == [pc.cluster EXCEPT !.dbs = under]
           q == [pc EXCEPT !.cluster = c]
<1>1. at = "kept" /\ at # "idle" /\ pc \in Computer /\ job \in Job /\ job.kind = "install"
  BY OwnTasks, TaskFacts DEF Inv, PrepareExisting
<1>2. pc.cluster # None /\ pc.cluster \in Cluster
  BY <1>1, TaskFacts, ClusteredIs, AfterIs
<1>3. job.n = setups /\ job.n \in Name \ {0} /\ setups \in Nat
  BY <1>1 DEF Inv, JobOK, Job, Name
<1>4. pc.cluster.dbs \in [Name -> Databases(Name) \union {None}] /\ pc.cluster.dbs[job.n] = None
  BY <1>1, <1>2, <1>3, AfterIs DEF IsEarly, Inv, NamesOK, Under, Cluster
<1>5. /\ under \in [Name -> Databases(Name) \union {None}]
      /\ \A i \in Name : Holds(pc.cluster.dbs, i) => Holds(under, i)
      /\ \A k \in Name \ {0, job.n} : under[k] = pc.cluster.dbs[k]
  BY <1>3, <1>4, PreparedIs
<1>6. [pc EXCEPT !.cluster.dbs = Prepared(@, job.existing, job.flavor, job.n)] = q
  BY <1>1 DEF Computer
<1>7. Stops("refused") \/ Does(q)
  BY <1>6, Zenon DEF PrepareExisting, DoesSql
<1> HIDE DEF under
<1>8. c \in Cluster /\ c.dbs = under
  BY <1>2, <1>5 DEF Cluster
<1> HIDE DEF c
<1>9. q \in Computer /\ q.cluster = c /\ q.ch = pc.ch /\ q.env = pc.env /\ q.up = pc.up /\ q.pending = pc.pending
      /\ c # None
  BY <1>1, <1>8, NoneAssumption DEF Computer
<1> HIDE DEF q
<1>10. CASE Does(q)
  <2>1. pc' = q /\ Goes /\ UNCHANGED <<held, setups, changes, faults>> /\ faults' \in 0..MaxFaults
    BY <1>10, DoesIs DEF Rest, Inv, JobOK
  <2>2. Services(q)
    BY <1>9 DEF Inv, Services
  <2>3. \A n \in Name : DatabaseIn(pc, n) => DatabaseIn(q, n)
    BY <1>5, <1>8, <1>9 DEF DatabaseIn
  <2>4. \A n \in Name : HistoryIn(pc, n) => HistoryIn(q, n)
    BY <1>9 DEF HistoryIn
  <2>5. Preserves(pc, pc')
    BY <1>9, <2>1, <2>2, <2>3, <2>4 DEF Preserves
  <2>6. HeldOK'
    BY <2>1, <2>5, HeldStays DEF Inv
  <2>7. JobOK' /\ ~IsEarly'
    BY <1>1, <2>1, GoesJob DEF Inv
  <2>8. NamesOK'
    <3> SUFFICES ASSUME NEW k \in Name, k > setups
                 PROVE  Under(pc', k) = None
      BY <2>1, <2>7, Zenon DEF NamesOK, Under
    <3>1. k \in Name \ {0, job.n}
      BY <1>3 DEF Name
    <3>2. pc.cluster.dbs[k] = None
      BY <1>2 DEF Inv, NamesOK, Under
    <3> QED BY <3>1, <3>2, <1>5, <1>8, <1>9, <2>1 DEF Under
  <2>9. ClusterOK'
    BY <1>1, <1>9, <2>1, GoesClustered DEF Inv
  <2> QED BY <2>1, <1>9, <2>2, <2>6, <2>7, <2>8, <2>9, Zenon DEF Inv, Services
<1> QED BY <1>7, <1>10, StopsInv

(* SENTIENT's database is made, or changed in place.                       *)
LEMMA ServedDatabaseIs ==
  ASSUME NEW db \in Databases(Name), NEW shape \in {"plain", "partitioned", "hypertable"}
  PROVE  /\ WithSchema(db, shape) \in Databases(Name) /\ WithSchema(db, shape).of = db.of
         /\ WithSchema(db, shape).shape # "missing"
         /\ WithAdministrator(db) \in Databases(Name) /\ WithAdministrator(db).of = db.of
         /\ [db EXCEPT !.shape = shape] \in Databases(Name) /\ [db EXCEPT !.shape = shape].of = db.of
<1> DEFINE e == [db EXCEPT !.shape = shape, !.admin = "default"]
<1>1. /\ [db EXCEPT !.shape = shape] \in Databases(Name) /\ [db EXCEPT !.shape = shape].of = db.of
      /\ [db EXCEPT !.admin = "chosen"] \in Databases(Name) /\ [db EXCEPT !.admin = "chosen"].of = db.of
  BY DEF Databases
<1>2. e \in Databases(Name) /\ e.of = db.of /\ e.shape = shape
  BY DEF Databases
<1> HIDE DEF e
<1>3. WithSchema(db, shape) = IF db.shape = "missing" THEN e ELSE db
  BY NoneAssumption DEF WithSchema, e
<1>4. WithAdministrator(db) = IF db.admin = "default" THEN [db EXCEPT !.admin = "chosen"] ELSE db
  BY DEF WithAdministrator
<1> QED BY <1>1, <1>2, <1>3, <1>4

InPlace(role, d, h) ==
  [pc EXCEPT !.cluster = [pc.cluster EXCEPT !.role = role, !.dbs = [pc.cluster.dbs EXCEPT ![0] = d]],
             !.ch = [pc.ch EXCEPT !.db = h]]
LEMMA InServiceTaskInv ==
  ASSUME Inv, at # "idle", job.kind \notin {"uninstall", "delete"}, pc.cluster # None,
         NEW role \in Nat, NEW d \in Databases(Name) \union {None}, NEW h \in Name \union {None},
         Under(pc, 0) # None => d # None /\ d.of = Under(pc, 0).of,
         pc.ch.db # None => h = pc.ch.db,
         NEW q, Does(q),
         q = InPlace(role, d, h)
  PROVE  Inv'
<1> DEFINE dd == [pc.cluster.dbs EXCEPT ![0] = d]
           c == [pc.cluster EXCEPT !.role = role, !.dbs = dd]
           e == [pc.ch EXCEPT !.db = h]
<1>1. pc \in Computer /\ pc.cluster \in Cluster /\ pc.ch \in Clickhouse /\ 0 \in Name
  BY SetupAssumption DEF Inv, Computer, Name
<1>2. dd \in [Name -> Databases(Name) \union {None}]
  BY <1>1 DEF Cluster
<1> HIDE DEF dd
<1>3. c \in Cluster /\ c.dbs = dd
  BY <1>1, <1>2 DEF Cluster
<1>4. e \in Clickhouse /\ e.db = h /\ e.aside = pc.ch.aside
  BY <1>1 DEF Clickhouse
<1>5. q = [pc EXCEPT !.cluster = c, !.ch = e]
  BY DEF c, e, dd, InPlace
<1> HIDE DEF c, e
<1>6. q \in Computer /\ q.cluster = c /\ q.ch = e /\ q.env = pc.env /\ q.up = pc.up /\ q.pending = pc.pending /\ c # None
  <2>1. c \in Cluster /\ e \in Clickhouse /\ pc \in Computer
    BY <1>1, <1>3, <1>4
  <2> QED BY <2>1, <1>5, NoneAssumption DEF Computer
<1>7. Services(q)
  BY <1>6 DEF Inv, Services
<1>8. Keeps(pc, q)
  BY <1>1, <1>3, <1>4, <1>6, <1>7, KeepsInService DEF Under, dd
<1> QED BY <1>6, <1>8, DoesKeeps

LEMMA CreateInv ==
  ASSUME Inv, Create
  PROVE  Inv'
<1> DEFINE d == IF pc.cluster.dbs[0] = None THEN Created(job.n) ELSE pc.cluster.dbs[0]
           role == IF pc.cluster.role = 0 THEN job.pw ELSE pc.cluster.role
           q == [pc EXCEPT !.cluster.role = IF @ = 0 THEN job.pw ELSE @,
                           !.cluster.dbs[0] = IF @ = None THEN Created(job.n) ELSE @]
<1>1. at = "create" /\ at # "idle" /\ pc \in Computer /\ job \in Job /\ job.kind \notin {"uninstall", "delete"}
  BY OwnTasks, TaskFacts DEF Inv, Create
<1>2. pc.cluster # None /\ pc.cluster \in Cluster
  BY <1>1, OwnTasks, TaskFacts, ClusteredIs, AfterIs DEF Inv
<1>3. Does(q) \/ Does(pc) \/ Stops("refused")
  BY Zenon DEF Create
<1>4. q = InPlace(role, d, pc.ch.db)
  <2> DEFINE c == [pc.cluster EXCEPT !.role = role, !.dbs = [pc.cluster.dbs EXCEPT ![0] = d]]
  <2>1. q = [pc EXCEPT !.cluster = c]
    BY <1>1, <1>2, SetupAssumption DEF Computer, Cluster, Name
  <2> HIDE DEF c, q
  <2>2. [pc EXCEPT !.cluster = c] = [pc EXCEPT !.cluster = c, !.ch = pc.ch] /\ pc.ch = [pc.ch EXCEPT !.db = pc.ch.db]
    BY <1>1 DEF Computer, Clickhouse
  <2> QED BY <2>1, <2>2 DEF InPlace, c
<1>5. 0 \in Name /\ job.n \in Name /\ job.pw \in Nat
  BY <1>1, SetupAssumption DEF Job, Name
<1>6. d \in Databases(Name) /\ (Under(pc, 0) # None => d # None /\ d.of = Under(pc, 0).of)
      /\ role \in Nat /\ pc.ch.db \in Name \union {None}
  BY <1>1, <1>2, <1>5 DEF Cluster, Databases, Created, Under, Computer, Clickhouse
<1> HIDE DEF q, d, role
<1>7. Does(q) => Inv'
  BY <1>1, <1>2, <1>4, <1>6, InServiceTaskInv
<1> QED BY <1>1, <1>3, <1>7, StopsInv, SameKeeps, DoesKeeps DEF Inv

LEMMA RequirePasswordsInv ==
  ASSUME Inv, RequirePasswords
  PROVE  Inv'
<1> DEFINE c == [pc.cluster EXCEPT !.trust = FALSE]
<1>1. at = "passwords" /\ at # "idle" /\ pc \in Computer /\ job.kind \notin {"uninstall", "delete"}
  BY OwnTasks, TaskFacts DEF Inv, RequirePasswords
<1>2. pc.cluster # None /\ pc.cluster \in Cluster
  BY <1>1, OwnTasks, TaskFacts, ClusteredIs, AfterIs DEF Inv
<1>3. [pc EXCEPT !.cluster.trust = FALSE] = [pc EXCEPT !.cluster = c]
  BY <1>1 DEF Computer
<1>4. c \in Cluster /\ c.dbs = pc.cluster.dbs
  BY <1>1, <1>2 DEF Cluster
<1>5. Does(pc) \/ Does([pc EXCEPT !.cluster = c])
  BY <1>3, Zenon DEF RequirePasswords, WithoutTrust
<1> HIDE DEF c
<1> QED BY <1>1, <1>2, <1>4, <1>5, ClusterTaskInv, SameKeeps, DoesKeeps DEF Inv

LEMMA InstallSchemaInv ==
  ASSUME Inv, InstallSchema
  PROVE  Inv'
<1> DEFINE d == Installed(pc.cluster.dbs[0])
           h == IF job.flavor = "clickhouse" /\ pc.ch.there /\ pc.ch.db = None THEN pc.cluster.dbs[0].of ELSE pc.ch.db
           q == [pc EXCEPT !.cluster.dbs[0] = Installed(@),
                  !.ch.db = IF job.flavor = "clickhouse" /\ pc.ch.there /\ @ = None THEN pc.cluster.dbs[0].of ELSE @]
<1>1. at = "schema" /\ at # "idle" /\ pc \in Computer /\ job \in Job /\ job.kind \notin {"uninstall", "delete"}
  BY OwnTasks, TaskFacts DEF Inv, InstallSchema
<1>2. pc.cluster # None /\ pc.cluster \in Cluster
  BY <1>1, OwnTasks, TaskFacts, ClusteredIs, AfterIs DEF Inv
<1>3. (AppSignsIn /\ Does(q)) \/ Does(pc) \/ Stops("stuck")
  BY Zenon DEF InstallSchema
<1>4. q = InPlace(pc.cluster.role, d, h)
  BY <1>1, <1>2, SetupAssumption DEF InPlace, Computer, Cluster, Clickhouse, Name
<1>5. ASSUME AppSignsIn, Does(q)
      PROVE  Inv'
  <2>1. pc.cluster.dbs[0] \in Databases(Name) /\ pc.ch \in Clickhouse /\ pc.cluster.role \in Nat
    BY <1>1, <1>2, <1>5, SetupAssumption DEF AppSignsIn, Database, Cluster, Name, Computer
  <2>2. d \in Databases(Name) /\ d.of = pc.cluster.dbs[0].of
    BY <2>1, ServedDatabaseIs DEF Installed
  <2>3. d # None
    BY <2>2, NoneAssumption
  <2>4. h \in Name \union {None} /\ (pc.ch.db # None => h = pc.ch.db)
    BY <2>1 DEF Databases, Clickhouse
  <2> HIDE DEF q, d, h
  <2> QED BY <1>1, <1>2, <1>4, <1>5, <2>1, <2>2, <2>3, <2>4, InServiceTaskInv DEF Under
<1> HIDE DEF q
<1> QED BY <1>1, <1>3, <1>5, StopsInv, SameKeeps, DoesKeeps DEF Inv

(* Of a database that is there.                                            *)
LEMMA InDatabaseTaskInv ==
  ASSUME Inv, at # "idle", job.kind \notin {"uninstall", "delete"},
         NEW d, pc.cluster # None /\ pc.cluster.dbs[0] # None => d \in Databases(Name) /\ d.of = pc.cluster.dbs[0].of,
         NEW q, Sql /\ Database # None => q = [pc EXCEPT !.cluster.dbs[0] = d],
         DoesInDatabase(q)
  PROVE  Inv'
<1>1. pc \in Computer
  BY DEF Inv
<1>2. CASE Sql /\ Database # None
  <2>1. pc.cluster # None /\ pc.cluster.dbs[0] # None /\ pc.cluster \in Cluster /\ pc.ch \in Clickhouse
    BY <1>1, <1>2 DEF Sql, SignsIn, Database, Computer
  <2>2. q = InPlace(pc.cluster.role, d, pc.ch.db)
    <3> DEFINE dd == [pc.cluster.dbs EXCEPT ![0] = d]
    <3>1. [pc EXCEPT !.cluster.dbs[0] = d] = [pc EXCEPT !.cluster = [pc.cluster EXCEPT !.dbs = dd]]
      BY <1>1, <2>1 DEF Computer, Cluster
    <3> HIDE DEF dd
    <3>2. [pc.cluster EXCEPT !.dbs = dd] = [pc.cluster EXCEPT !.role = pc.cluster.role, !.dbs = dd]
      BY <2>1 DEF Cluster
    <3>3. pc.ch = [pc.ch EXCEPT !.db = pc.ch.db]
      BY <2>1 DEF Clickhouse
    <3>4. \A c : [pc EXCEPT !.cluster = c] = [pc EXCEPT !.cluster = c, !.ch = pc.ch]
      BY <1>1 DEF Computer
    <3>5. q = [pc EXCEPT !.cluster.dbs[0] = d]
      BY <1>2
    <3> QED BY <3>1, <3>2, <3>3, <3>4, <3>5 DEF InPlace, dd
  <2>3. d \in Databases(Name) /\ d # None /\ d.of = pc.cluster.dbs[0].of
    BY <2>1, NoneAssumption
  <2>4. Does(q) /\ pc.cluster.role \in Nat /\ pc.ch.db \in Name \union {None}
    BY <1>2, <2>1 DEF DoesInDatabase, Cluster, Clickhouse
  <2> QED BY <2>1, <2>2, <2>3, <2>4, InServiceTaskInv DEF Under
<1>3. CASE ~(Sql /\ Database # None)
  BY <1>3, StopsInv DEF DoesInDatabase
<1> QED BY <1>2, <1>3

LEMMA PartitionInv ==
  ASSUME Inv, Partition
  PROVE  Inv'
<1> DEFINE d == IF pc.cluster.dbs[0].shape = "plain" THEN [pc.cluster.dbs[0] EXCEPT !.shape = "partitioned"]
                ELSE pc.cluster.dbs[0]
           q == IF Database.shape = "plain" THEN [pc EXCEPT !.cluster.dbs[0].shape = "partitioned"] ELSE pc
<1>1. at = "partition" /\ at # "idle" /\ pc \in Computer /\ job.kind \notin {"uninstall", "delete"}
  BY OwnTasks, TaskFacts DEF Inv, Partition
<1>2. ASSUME pc.cluster # None, pc.cluster.dbs[0] # None
      PROVE  d \in Databases(Name) /\ d.of = pc.cluster.dbs[0].of
  <2>1. pc.cluster.dbs[0] \in Databases(Name)
    BY <1>1, <1>2, SetupAssumption DEF Computer, Cluster, Name
  <2> QED BY <2>1, ServedDatabaseIs
<1>3. ASSUME Sql, Database # None
      PROVE  q = [pc EXCEPT !.cluster.dbs[0] = d]
  <2>1. pc.cluster # None /\ pc.cluster \in Cluster /\ Database = pc.cluster.dbs[0]
    BY <1>1, <1>3 DEF Sql, SignsIn, Database, Computer
  <2>2. CASE Database.shape = "plain"
    BY <1>1, <2>1, <2>2, SetupAssumption DEF Cluster, Name, Computer
  <2>3. CASE Database.shape # "plain"
    BY <1>1, <2>1, <2>3 DEF Computer, Cluster
  <2> QED BY <2>2, <2>3
<1>4. DoesInDatabase(q)
  BY DEF Partition
<1> HIDE DEF q, d
<1> QED BY <1>1, <1>2, <1>3, <1>4, InDatabaseTaskInv

LEMMA SetAdminInv ==
  ASSUME Inv, SetAdmin
  PROVE  Inv'
<1> DEFINE d == WithAdministrator(pc.cluster.dbs[0])
           q == [pc EXCEPT !.cluster.dbs[0] = WithAdministrator(@)]
<1>1. at = "admin" /\ at # "idle" /\ pc \in Computer /\ job.kind \notin {"uninstall", "delete"}
  BY OwnTasks, TaskFacts DEF Inv, SetAdmin
<1>2. ASSUME pc.cluster # None, pc.cluster.dbs[0] # None
      PROVE  d \in Databases(Name) /\ d.of = pc.cluster.dbs[0].of
  <2>1. pc.cluster.dbs[0] \in Databases(Name)
    BY <1>1, <1>2, SetupAssumption DEF Computer, Cluster, Name
  <2> QED BY <2>1, ServedDatabaseIs
<1>3. ASSUME Sql, Database # None
      PROVE  q = [pc EXCEPT !.cluster.dbs[0] = d]
  BY <1>1, <1>3, SetupAssumption DEF Sql, SignsIn, Computer, Cluster, Name
<1>4. DoesInDatabase(q)
  BY DEF SetAdmin
<1> HIDE DEF q, d
<1> QED BY <1>1, <1>2, <1>3, <1>4, InDatabaseTaskInv

(* The settings, the passwords and the record.                             *)
LEMMA NoteTasksInv ==
  ASSUME Inv, Register \/ SaveSecrets \/ SaveRecord
  PROVE  Inv'
<1>1. at \in {"register", "secrets", "record"}
  BY DEF Register, SaveSecrets, SaveRecord
<1>2. at # "idle" /\ pc \in Computer /\ job \in Job /\ job.kind \notin {"uninstall", "delete"}
  BY <1>1, OwnTasks, TaskFacts DEF Inv
<1>3. pc.cluster # None
  BY <1>1, OwnTasks, TaskFacts, ClusteredIs, AfterIs DEF Inv
<1>4. CASE Register
  <2> DEFINE q == [pc EXCEPT !.env = Settings(job)]
  <2>1. Settings(job) \in Env
    BY <1>2 DEF Settings, Env, Job
  <2>2. Settings(job) # None
    BY <2>1, NoneAssumption
  <2>3. q \in Computer /\ q.cluster = pc.cluster /\ q.ch = pc.ch /\ q.env = Settings(job) /\ q.pending = pc.pending
    BY <1>2, <2>1 DEF Computer
  <2>4. Stops("stuck") \/ Does(q)
    BY <1>4, Zenon DEF Register
  <2> HIDE DEF q
  <2>5. Keeps(pc, q)
    BY <1>3, <2>2, <2>3, ApartKeeps DEF Inv, Services
  <2> QED BY <1>1, <1>2, <1>4, <2>4, <2>5, StopsInv, DoesKeeps DEF Register
<1>5. CASE SaveSecrets
  <2> DEFINE q == [pc EXCEPT !.service = "auto", !.saved = Stored(job.pw, job.super)]
  <2>1. Stored(job.pw, job.super) \in [db : Nat, super : Nat]
    BY <1>2 DEF Stored, Job
  <2>2. q \in Computer /\ q.cluster = pc.cluster /\ q.ch = pc.ch /\ q.env = pc.env /\ q.up = pc.up /\ q.pending = pc.pending
    BY <1>2, <2>1 DEF Computer
  <2>3. Does(q)
    BY <1>5, Zenon DEF SaveSecrets, SetAutostart
  <2> HIDE DEF q
  <2>4. Keeps(pc, q)
    BY <1>3, <2>2, ApartKeeps DEF Inv, Services
  <2> QED BY <1>1, <1>2, <1>5, <2>3, <2>4, DoesKeeps DEF SaveSecrets
<1>6. CASE SaveRecord
  <2> DEFINE q == [pc EXCEPT !.record = Recorded(job)]
  <2>1. Recorded(job) \in Installation
    BY <1>2 DEF Recorded, Installation, Job
  <2>2. q \in Computer /\ q.cluster = pc.cluster /\ q.ch = pc.ch /\ q.env = pc.env /\ q.up = pc.up /\ q.pending = pc.pending
    BY <1>2, <2>1 DEF Computer
  <2>3. Does(q)
    BY <1>6, Zenon DEF SaveRecord
  <2> HIDE DEF q
  <2>4. Keeps(pc, q)
    BY <1>3, <2>2, ApartKeeps DEF Inv, Services
  <2> QED BY <1>1, <1>2, <1>6, <2>3, <2>4, DoesKeeps DEF SaveRecord
<1> QED BY <1>4, <1>5, <1>6

LEMMA SecretsUnsavedInv ==
  ASSUME Inv, SecretsUnsaved
  PROVE  Inv'
<1>1. PICK db \in {pc.saved.db, job.pw}, super \in {pc.saved.super, job.super} :
        pc' = [SetAutostart EXCEPT !.saved = Stored(db, super)]
  BY DEF SecretsUnsaved
<1>2. at = "secrets" /\ at' = Following /\ UNCHANGED <<job, last, held, setups, changes>> /\ faults < MaxFaults
      /\ faults' = faults + 1
  BY DEF SecretsUnsaved
<1>3. at # "idle" /\ pc \in Computer /\ job \in Job /\ job.kind = "install"
  BY <1>2, OwnTasks, TaskFacts DEF Inv
<1>4. pc.cluster # None /\ at # Last(Paths[job.kind])
  BY <1>2, <1>3, TaskFacts, ClusteredIs, AfterIs, Lasts DEF Inv
<1>5. Stored(db, super) \in [db : Nat, super : Nat]
  BY <1>1, <1>3 DEF Stored, Job, Computer
<1>6. pc' \in Computer /\ pc'.cluster = pc.cluster /\ pc'.ch = pc.ch /\ pc'.env = pc.env /\ pc'.up = pc.up
      /\ pc'.pending = pc.pending
  BY <1>1, <1>3, <1>5 DEF SetAutostart, Computer
<1>7. Services(pc')
  BY <1>4, <1>6 DEF Inv, Services
<1>8. Keeps(pc, pc')
  BY <1>6, <1>7, ApartKeeps
<1>9. Goes
  BY <1>2, <1>4 DEF Goes
<1>10. faults' \in 0..MaxFaults
  BY <1>2, SetupAssumption DEF Inv, JobOK
<1> QED BY <1>2, <1>3, <1>8, <1>9, <1>10, GoesKeeps

(* The service starts: its database and its history are held now.          *)
LEMMA ServeInv ==
  ASSUME Inv, Serve
  PROVE  Inv'
<1>1. at = "serve" /\ at # "idle" /\ pc \in Computer /\ job \in Job /\ job.kind \in {"install", "repair", "reconfigure"}
  BY OwnTasks, TaskFacts DEF Inv, Serve
<1>2. CASE ~(pc.up \/ Answers(pc))
  BY <1>2, StopsInv DEF Serve
<1>3. CASE pc.up \/ Answers(pc)
  <2>1. /\ pc' = [pc EXCEPT !.up = TRUE] /\ held' = held \union Serves /\ UNCHANGED <<setups, changes, faults>>
        /\ IF job.kind = "install" THEN at' = Following /\ UNCHANGED <<job, last>> ELSE End("done")
    BY <1>3 DEF Serve
  <2>2. pc' \in Computer /\ pc'.cluster = pc.cluster /\ pc'.ch = pc.ch /\ pc'.env = pc.env /\ pc'.pending = pc.pending
        /\ pc'.port = pc.port /\ pc'.service = pc.service
    BY <1>1, <2>1 DEF Computer
  <2>3. pc.env # None
    BY <1>3 DEF Inv, Services, Answers, NoEnv
  <2>4. Services(pc')
    BY <2>2, <2>3 DEF Inv, Services
  <2>5. Keeps(pc, pc') /\ Preserves(pc, pc')
    BY <2>2, <2>4, ApartKeeps DEF Keeps
  <2>6. Goes
    BY <1>1, <2>1, Lasts DEF Goes
  <2>7. faults' \in 0..MaxFaults
    BY <2>1 DEF Inv, JobOK
  <2>8. JobOK' /\ (IsEarly' => IsEarly)
    BY <1>1, <2>1, <2>6, <2>7, GoesJob DEF Inv
  <2>9. NamesOK'
    BY <2>1, <2>5, <2>8, NamesStay DEF Inv
  <2>10. ClusterOK'
    BY <1>1, <2>1, <2>2, <2>6, <2>7, GoesClustered DEF Inv
  <2>11. HeldOK'
    <3>1. ASSUME NEW h \in Serves
          PROVE  h \in {"database", "history"} \X Name /\ Has(pc', h)
      <4>1. CASE Database # None /\ h = <<"database", Database.of>>
        <5>1. pc.cluster # None /\ Database = pc.cluster.dbs[0] /\ Database \in Databases(Name)
              /\ pc.cluster.dbs \in [Name -> Databases(Name) \union {None}] /\ 0 \in Name
          BY <1>1, <4>1, SetupAssumption DEF Database, Computer, Cluster, Name
        <5>2. Holds(pc.cluster.dbs, Database.of)
          BY <4>1, <5>1 DEF Holds
        <5>3. h \in {"database", "history"} \X Name
          BY <4>1, <5>1 DEF Databases
        <5> QED BY <2>2, <4>1, <5>1, <5>2, <5>3 DEF Has, DatabaseIn
      <4>2. CASE pc.ch.db # None /\ h = <<"history", pc.ch.db>>
        BY <1>1, <2>2, <4>2 DEF Computer, Clickhouse, Has, HistoryIn
      <4> QED BY <4>1, <4>2 DEF Serves
    <3>2. ASSUME NEW h \in held
          PROVE  h \in {"database", "history"} \X Name /\ Has(pc', h)
      BY <2>5 DEF Inv, HeldOK, Has, Preserves
    <3> QED BY <2>1, <3>1, <3>2, Zenon DEF HeldOK, Has, DatabaseIn, HistoryIn
  <2> QED BY <2>2, <2>4, <2>8, <2>9, <2>10, <2>11, Zenon DEF Inv, Services
<1> QED BY <1>2, <1>3

----------------------------------------------------------------------------
(* Removing, and what does not finish.                                     *)
LEMMA RemovalTasksInv ==
  ASSUME Inv, StopServer \/ RemovePlatform \/ Release \/ RemoveRecord
  PROVE  Inv'
<1>1. at \in {"stop", "remove", "release", "unrecord"}
  BY DEF StopServer, RemovePlatform, Release, RemoveRecord
<1>2. at # "idle" /\ pc \in Computer
      /\ (at \in {"remove", "release", "unrecord"} => job.kind \in {"uninstall", "delete"})
      /\ (at = "stop" => job.kind = "reconfigure")
  BY <1>1, OwnTasks, TaskFacts DEF Inv
<1>3. at \in {"release", "unrecord"} => pc.env = None
  BY <1>1, <1>2 DEF Inv, ClusterOK
<1>4. ASSUME NEW q, Does(q), q \in Computer, q.cluster = pc.cluster, q.ch = pc.ch, q.pending = pc.pending,
             Services(q), at # "stop" => q.env = None
      PROVE  Inv'
  BY <1>1, <1>2, <1>4, ApartKeeps, DoesKeeps
<1>5. CASE StopServer
  <2> DEFINE q == [pc EXCEPT !.up = FALSE]
  <2>1. q \in Computer /\ q.cluster = pc.cluster /\ q.ch = pc.ch /\ q.env = pc.env /\ q.up = FALSE /\ q.pending = pc.pending
        /\ q.port = pc.port /\ q.service = pc.service
    BY <1>2 DEF Computer
  <2>2. Does(q) /\ at = "stop"
    BY <1>5, Zenon DEF StopServer
  <2> HIDE DEF q
  <2>3. Services(q)
    BY <2>1 DEF Inv, Services
  <2> QED BY <1>4, <2>1, <2>2, <2>3
<1>6. CASE RemovePlatform
  <2> DEFINE q == [pc EXCEPT !.up = FALSE, !.env = None, !.files = @ \ {"programs", "wrapper"}]
  <2>1. q \in Computer /\ q.cluster = pc.cluster /\ q.ch = pc.ch /\ q.env = None /\ q.up = FALSE /\ q.pending = pc.pending
        /\ q.port = pc.port /\ q.service = pc.service
    BY <1>2 DEF Computer
  <2>2. Does(q)
    BY <1>6, Zenon DEF RemovePlatform, NoEnv
  <2> HIDE DEF q
  <2>3. Services(q)
    BY <2>1 DEF Inv, Services
  <2> QED BY <1>4, <2>1, <2>2, <2>3
<1>7. CASE Release
  <2> DEFINE service == IF pc.service = "none" THEN "none" ELSE "demand"
             q == [pc EXCEPT !.port = 0, !.service = service]
  <2>1. service \in {"none", "demand"} /\ (pc.service = "none" => service = "none")
    OBVIOUS
  <2>2. [pc EXCEPT !.port = 0, !.service = IF @ = "none" THEN @ ELSE "demand"] = q
    BY <1>2 DEF Computer
  <2>3. Does(q) /\ at = "release"
    BY <1>7, <2>2 DEF Release
  <2> HIDE DEF service
  <2>4. q \in Computer /\ q.cluster = pc.cluster /\ q.ch = pc.ch /\ q.env = pc.env /\ q.up = pc.up /\ q.pending = pc.pending
        /\ q.port = 0 /\ q.service = service
    BY <1>2, <2>1 DEF Computer
  <2> HIDE DEF q
  <2>5. Services(q)
    BY <2>1, <2>4 DEF Inv, Services
  <2> QED BY <1>3, <1>4, <2>3, <2>4, <2>5
<1>8. CASE RemoveRecord
  <2> DEFINE q == [pc EXCEPT !.record = None, !.files = @ \ {"manager"}]
  <2>1. q \in Computer /\ q.cluster = pc.cluster /\ q.ch = pc.ch /\ q.env = pc.env /\ q.up = pc.up /\ q.pending = pc.pending
        /\ q.port = pc.port /\ q.service = pc.service
    BY <1>2 DEF Computer
  <2>2. Does(q) /\ at = "unrecord"
    BY <1>8, Zenon DEF RemoveRecord
  <2> HIDE DEF q
  <2>3. Services(q)
    BY <2>1 DEF Inv, Services
  <2> QED BY <1>3, <1>4, <2>1, <2>2, <2>3
<1> QED BY <1>5, <1>6, <1>7, <1>8

(* Deleting the data, on purpose.                                          *)
LEMMA DeletionTasksInv ==
  ASSUME Inv, Clean \/ Forget
  PROVE  Inv'
<1>1. at \in {"clean", "forget"} /\ at' = Following /\ UNCHANGED <<job, last, setups, changes, faults>>
  BY DEF Clean, Forget
<1>2. at # "idle" /\ pc \in Computer /\ job.kind = "delete" /\ pc.env = None /\ pc.up = FALSE
  BY <1>1, OwnTasks, TaskFacts DEF Inv, ClusterOK, Services, Computer
<1>3. Goes /\ faults' \in 0..MaxFaults
  BY <1>1, <1>2, Lasts DEF Goes, Inv, JobOK
<1>4. JobOK' /\ (IsEarly' => IsEarly) /\ ~IsEarly
  BY <1>1, <1>2, <1>3, GoesJob DEF Inv, IsEarly
<1>5. ClusterOK'
  BY <1>1, <1>2, <1>4, ClusteredIs DEF ClusterOK, Clean, Forget, Computer
<1>6. CASE Clean
  <2>1. pc' = [pc EXCEPT !.port = 0, !.service = "none", !.cluster = None, !.files = @ \ {"postgres", "timescale"}]
        /\ held' = {h \in held : h[1] # "database"}
    BY <1>6 DEF Clean
  <2>2. pc' \in Computer /\ pc'.cluster = None /\ pc'.ch = pc.ch /\ pc'.env = None /\ pc'.up = FALSE /\ pc'.port = 0
        /\ pc'.service = "none" /\ pc'.pending = pc.pending
    BY <1>2, <2>1 DEF Computer
  <2>3. Services(pc')
    BY <2>2 DEF Inv, Services
  <2>4. HeldOK'
    <3>1. ASSUME NEW h \in held'
          PROVE  h \in {"database", "history"} \X Name /\ Has(pc', h)
      BY <2>1, <2>2 DEF Inv, HeldOK, Has, HistoryIn
    <3> QED BY <3>1, Zenon DEF HeldOK, Has, DatabaseIn, HistoryIn
  <2>5. NamesOK'
    BY <2>2, Zenon DEF NamesOK, Under
  <2> QED BY <1>4, <1>5, <2>2, <2>3, <2>4, <2>5, Zenon DEF Inv, Services
<1>7. CASE Forget
  <2> DEFINE c == [pc.ch EXCEPT !.account = FALSE, !.there = FALSE, !.db = None, !.aside = {}]
  <2>1. pc' = [pc EXCEPT !.ch = c, !.saved = [db |-> 0, super |-> 0]] /\ held' = {}
    BY <1>7 DEF Forget, AccountRemoved, NoSecrets, Stored
  <2>2. c \in Clickhouse
    BY <1>2 DEF Computer, Clickhouse
  <2> HIDE DEF c
  <2>3. pc' \in Computer /\ pc'.cluster = pc.cluster /\ pc'.env = None /\ pc'.up = FALSE /\ pc'.port = pc.port
        /\ pc'.service = pc.service /\ pc'.pending = pc.pending
    BY <1>2, <2>1, <2>2 DEF Computer
  <2>4. Services(pc')
    BY <1>2, <2>3 DEF Inv, Services
  <2>5. HeldOK'
    BY <2>1 DEF HeldOK
  <2>6. NamesOK'
    <3> SUFFICES ASSUME NEW k \in Name, k > setups
                 PROVE  Under(pc', k) = None
      BY <1>1, <1>4, Zenon DEF NamesOK, Under
    <3> QED BY <2>3 DEF Inv, NamesOK, Under
  <2> QED BY <1>4, <1>5, <2>3, <2>4, <2>5, <2>6, Zenon DEF Inv, Services
<1> QED BY <1>6, <1>7 DEF Clean, Forget

(* A task leaves its files, or the server stopped, half done.              *)
LEMMA TornIs ==
  ASSUME Inv, at # "idle"
  PROVE  /\ Torn(at) \in Computer
         /\ Torn(at).cluster = pc.cluster /\ Torn(at).ch = pc.ch /\ Torn(at).env = pc.env /\ Torn(at).up = pc.up
         /\ Torn(at).pending = pc.pending /\ Torn(at).saved = pc.saved /\ Torn(at).record = pc.record
         /\ Torn(at).port \in {pc.port, 0} /\ Torn(at).service \in {pc.service, "none"}
         /\ at # "clean" => Torn(at).service = pc.service
         /\ Torn(at).port # pc.port => at = "clean" \/ ~pc.up
         /\ \/ Torn(at).files = pc.files
            \/ at = "stage" /\ Prerequisites /\ ~Programs /\ Torn(at).files = pc.files \union {"programs"}
         /\ \/ Torn(at).partial = pc.partial
            \/ at \in {"postgres", "timescale"} /\ at \notin pc.files /\ Torn(at).partial = pc.partial \union {at}
<1>1. pc \in Computer
  BY DEF Inv
<1>2. CASE at = "stage" /\ Prerequisites /\ ~Programs
  BY <1>1, <1>2 DEF Torn, Computer
<1>3. CASE at \in {"postgres", "timescale"} /\ at \notin pc.files
  BY <1>1, <1>3 DEF Torn, Computer
<1>4. CASE at \in {"start", "tune", "clean"}
  <2>1. PICK port \in {pc.port, 0}, service \in {pc.service, "none"} :
          /\ Torn(at) = [pc EXCEPT !.port = port, !.service = service]
          /\ at # "clean" => service = pc.service
          /\ port # pc.port => at = "clean" \/ ~pc.up
    <3>1. pc = [pc EXCEPT !.port = pc.port, !.service = pc.service]
          /\ \A port : [pc EXCEPT !.port = port] = [pc EXCEPT !.port = port, !.service = pc.service]
      BY <1>1 DEF Computer
    <3>2. CASE at = "start"
      BY <3>1, <3>2 DEF Torn, Stopped
    <3>3. CASE at = "tune"
      BY <3>1, <3>3 DEF Torn, Stopped
    <3>4. CASE at = "clean"
      BY <3>1, <3>4 DEF Torn
    <3> QED BY <1>4, <3>2, <3>3, <3>4
  <2>2. port \in Nat /\ service \in {"none", "auto", "demand"}
    BY <1>1, <2>1 DEF Computer
  <2> QED BY <1>1, <1>4, <2>1, <2>2 DEF Computer
<1>5. CASE ~(at = "stage" /\ Prerequisites /\ ~Programs) /\ ~(at \in {"postgres", "timescale"} /\ at \notin pc.files)
           /\ at \notin {"start", "tune", "clean"}
  BY <1>1, <1>5 DEF Torn
<1> QED BY <1>2, <1>3, <1>4, <1>5

LEMMA FailInv ==
  ASSUME Inv, Fail
  PROVE  Inv'
<1>1. /\ at \in MayFail \/ at \in TearAt
      /\ End("failed") /\ UNCHANGED <<held, setups, changes>> /\ faults < MaxFaults /\ faults' = faults + 1
      /\ pc' = pc \/ (at \in TearAt /\ pc' = Torn(at))
  BY DEF Fail
<1>2. at # "idle"
  <2>1. at \in Steps
    BY <1>1, SetupAssumption
  <2>2. \A k \in Kinds : "idle" \notin ToSet(Paths[k])
    BY NotIdle
  <2> QED BY <2>1, <2>2, Zenon DEF Steps
<1>3. faults' \in 0..MaxFaults
  BY <1>1, SetupAssumption DEF Inv, JobOK
<1>4. Keeps(pc, pc')
  <2>1. CASE pc' = pc
    BY <2>1, SameKeeps DEF Inv
  <2>2. CASE pc' = Torn(at)
    <3> DEFINE q == Torn(at)
    <3>1. /\ q \in Computer /\ q.cluster = pc.cluster /\ q.ch = pc.ch /\ q.env = pc.env /\ q.up = pc.up
          /\ q.pending = pc.pending /\ q.port \in {pc.port, 0} /\ q.service \in {pc.service, "none"}
      BY <1>2, TornIs
    <3> HIDE DEF q
    <3>2. Services(q)
      BY <3>1 DEF Inv, Services
    <3> QED BY <2>2, <3>1, <3>2, ApartKeeps DEF q
  <2> QED BY <1>1, <2>1, <2>2
<1> QED BY <1>1, <1>3, <1>4, EndKeeps

----------------------------------------------------------------------------
LEMMA NextInv ==
  ASSUME Inv, [Next]_vars
  PROVE  Inv'
<1>1. CASE UNCHANGED vars
  BY <1>1, Zenon DEF vars, Inv, Services, JobOK, ClusterOK, HeldOK, NamesOK, IsEarly, Has, DatabaseIn, HistoryIn, Under,
     Applies
<1>2. CASE Operator
  BY <1>2, InstallInv, RetryInv, ResumeInv, AdoptInv, StartChangeInv, ControlInv DEF Operator
<1>3. CASE Task
  <2>1. CASE InstallManager \/ InstallRuntime \/ InstallPostgres \/ Stage \/ WriteEnv \/ MakeShortcuts
    BY <2>1, FileTasksInv
  <2>2. CASE EnableWsl \/ MakeAccount \/ Provision
    BY <2>2, ClickhouseTasksInv
  <2>3. CASE SetAsideHistory
    BY <2>3, SetAsideHistoryInv
  <2>4. CASE InitDb \/ SetPort \/ InstallTimescale
    BY <2>4, InitDbInv, SetPortInv, InstallTimescaleInv
  <2>5. CASE Preload \/ RegisterPostgres \/ StartPostgres \/ EnableTimescale \/ Tune
    BY <2>5, ServerTasksInv
  <2>6. CASE SyncRolePassword \/ PrepareExisting \/ Create \/ RequirePasswords
    BY <2>6, SyncRolePasswordInv, PrepareExistingInv, CreateInv, RequirePasswordsInv
  <2>7. CASE InstallSchema \/ Partition \/ SetAdmin
    BY <2>7, InstallSchemaInv, PartitionInv, SetAdminInv
  <2>8. CASE Register \/ SaveSecrets \/ SaveRecord
    BY <2>8, NoteTasksInv
  <2>9. CASE Serve
    BY <2>9, ServeInv
  <2>10. CASE StopServer \/ RemovePlatform \/ Release \/ RemoveRecord
    BY <2>10, RemovalTasksInv
  <2>11. CASE Clean \/ Forget
    BY <2>11, DeletionTasksInv
  <2> QED BY <1>3, <2>1, <2>2, <2>3, <2>4, <2>5, <2>6, <2>7, <2>8, <2>9, <2>10, <2>11 DEF Task
<1>4. CASE Fail
  BY <1>4, FailInv
<1>5. CASE SecretsUnsaved
  BY <1>5, SecretsUnsavedInv
<1> QED BY <1>1, <1>2, <1>3, <1>4, <1>5 DEF Next

THEOREM Invariant == Spec => []Inv
<1>1. Init => Inv
  BY InitInv
<1>2. Inv /\ [Next]_vars => Inv'
  BY NextInv
<1> QED BY <1>1, <1>2, PTL DEF Spec

(* Every variable keeps its type: the computer, the running job and its    *)
(* plan, and the bounds.                                                   *)
THEOREM TypeCorrect == Spec => []TypeOK
<1>1. Inv => TypeOK
  BY Zenon DEF Inv, JobOK, HeldOK, TypeOK
<1> QED BY <1>1, Invariant, PTL

(* A database or a history that SENTIENT has served is never lost: however *)
(* many setups fail, are killed half way, tried again or resumed late, and *)
(* whatever is kept, set aside, adopted, repaired or removed, it is there  *)
(* until its data are deleted on purpose (kept_db::prepare_existing,       *)
(* plan::run).                                                             *)
THEOREM ServedDataSurvive == Spec => []KeptSurvives
<1>1. Inv => KeptSurvives
  <2> SUFFICES ASSUME Inv, NEW h \in held
               PROVE  HeldIsThere(h)
    BY DEF KeptSurvives
  <2>1. Has(pc, h)
    BY DEF Inv, HeldOK
  <2> QED BY <2>1, Zenon DEF Has, DatabaseIn, HistoryIn, HeldIsThere
<1> QED BY <1>1, Invariant, PTL

----------------------------------------------------------------------------
(* What the tasks leave, part by part.                                     *)
SameFiles(p, q) == q.files = p.files /\ q.partial = p.partial
SameServer(p, q) == q.service = p.service /\ q.port = p.port /\ q.up = p.up
SameNotes(p, q) == q.env = p.env /\ q.saved = p.saved /\ q.record = p.record /\ q.pending = p.pending
SameData(p, q) == q.cluster = p.cluster /\ q.ch = p.ch

LEMMA SameIs ==
  ASSUME NEW p
  PROVE  SameFiles(p, p) /\ SameServer(p, p) /\ SameNotes(p, p) /\ SameData(p, p)
BY DEF SameFiles, SameServer, SameNotes, SameData

LEMMA FilesAre ==
  ASSUME pc \in Computer, NEW fs, NEW q, q = [pc EXCEPT !.files = fs]
  PROVE  q.files = fs /\ q.partial = pc.partial /\ SameServer(pc, q) /\ SameNotes(pc, q) /\ SameData(pc, q)
BY DEF Computer, SameServer, SameNotes, SameData

LEMMA ClusterIs ==
  ASSUME pc \in Computer, NEW c, NEW q, q = [pc EXCEPT !.cluster = c]
  PROVE  q.cluster = c /\ q.ch = pc.ch /\ SameServer(pc, q) /\ SameNotes(pc, q) /\ SameFiles(pc, q)
BY DEF Computer, SameServer, SameNotes, SameFiles

LEMMA ClickhouseIs ==
  ASSUME pc \in Computer, NEW c, NEW q, q = [pc EXCEPT !.ch = c]
  PROVE  q.ch = c /\ q.cluster = pc.cluster /\ SameServer(pc, q) /\ SameNotes(pc, q) /\ SameFiles(pc, q)
BY DEF Computer, SameServer, SameNotes, SameFiles

LEMMA PortIs ==
  ASSUME pc \in Computer, NEW port, NEW q, q = [pc EXCEPT !.port = port]
  PROVE  /\ q.port = port /\ q.service = pc.service /\ q.up = pc.up
         /\ SameFiles(pc, q) /\ SameNotes(pc, q) /\ SameData(pc, q)
BY DEF Computer, SameFiles, SameNotes, SameData

LEMMA ServiceIs ==
  ASSUME pc \in Computer, NEW service, NEW q, q = [pc EXCEPT !.service = service]
  PROVE  /\ q.port = pc.port /\ q.service = service /\ q.up = pc.up
         /\ SameFiles(pc, q) /\ SameNotes(pc, q) /\ SameData(pc, q)
BY DEF Computer, SameFiles, SameNotes, SameData

(* A task that succeeds, but the last: the next one of its job.            *)
NextTask == at' = Following /\ job' = job /\ last' = last /\ at # Last(Paths[job.kind])
LEMMA GoesNext ==
  ASSUME Inv, at # "idle", at \notin {"record", "serve", "unrecord"}, Goes
  PROVE  NextTask
BY JobKind, Ending DEF Inv, Goes, NextTask

LEMMA DoesNext ==
  ASSUME Inv, at # "idle", at \notin {"record", "serve", "unrecord"}, NEW new, Does(new)
  PROVE  pc' = new /\ NextTask /\ Rest
BY DoesIs, GoesNext

LEMMA FileTasksAre ==
  ASSUME Inv, InstallManager \/ InstallRuntime \/ InstallPostgres \/ Stage \/ WriteEnv \/ MakeShortcuts
  PROVE  /\ at \in {"manager", "runtime", "postgres", "stage", "env", "shortcuts"} /\ Rest
         /\ SameServer(pc, pc') /\ SameNotes(pc, pc') /\ SameData(pc, pc') /\ pc'.partial = pc.partial
         /\ \/ /\ NextTask
               /\ \/ pc'.files = pc.files \/ pc'.files = pc.files \union {"manager"}
                  \/ at = "postgres" /\ pc'.files = pc.files \union {"postgres"}
                  \/ at = "stage" /\ job.kind # "repair" /\ pc'.files = pc.files \union {"programs", "wrapper"}
               /\ at = "postgres" => "postgres" \in pc'.files
               /\ at = "stage" => "programs" \in pc'.files
            \/ pc' = pc /\ End("refused")
            \/ /\ pc' = pc /\ End("stuck")
               /\ at = "stage" => ~Prerequisites
               /\ at = "postgres" => "postgres" \in pc.partial
               /\ at \in {"postgres", "stage"}
<1> DEFINE Unmoved(q) == q.partial = pc.partial /\ SameServer(pc, q) /\ SameNotes(pc, q) /\ SameData(pc, q)
<1>1. at \in {"manager", "runtime", "postgres", "stage", "env", "shortcuts"}
  BY DEF InstallManager, InstallRuntime, InstallPostgres, Stage, WriteEnv, MakeShortcuts
<1>2. pc \in Computer /\ at # "idle" /\ at \notin {"record", "serve", "unrecord"}
  BY <1>1 DEF Inv
<1>3. Unmoved(pc)
  BY SameIs
<1>4. ASSUME NEW fs, Does([pc EXCEPT !.files = fs])
      PROVE  Unmoved(pc') /\ pc'.files = fs /\ NextTask /\ Rest
  BY <1>2, <1>4, DoesNext, FilesAre
<1>5. Does(pc) => pc' = pc /\ NextTask /\ Rest
  BY <1>2, DoesNext
<1>6. ASSUME NEW how, Stops(how) PROVE pc' = pc /\ End(how) /\ Rest
  BY <1>6 DEF Stops
<1> HIDE DEF Unmoved
<1>7. CASE InstallManager
  BY <1>1, <1>4, <1>7 DEF InstallManager, Add, Unmoved
<1>8. CASE InstallRuntime \/ WriteEnv \/ MakeShortcuts
  BY <1>1, <1>3, <1>5, <1>8 DEF InstallRuntime, WriteEnv, MakeShortcuts, Unmoved
<1>9. CASE InstallPostgres
  BY <1>1, <1>3, <1>4, <1>5, <1>6, <1>9 DEF InstallPostgres, Obtain, Add, Unmoved
<1>10. CASE Stage
  BY <1>1, <1>3, <1>4, <1>5, <1>6, <1>10 DEF Stage, Programs, Unmoved
<1> QED BY <1>7, <1>8, <1>9, <1>10

LEMMA ClickhouseTasksAre ==
  ASSUME Inv, EnableWsl \/ MakeAccount \/ Provision \/ SetAsideHistory
  PROVE  /\ at \in {"wsl", "account", "provision", "history"} /\ Rest
         /\ pc'.cluster = pc.cluster /\ SameServer(pc, pc') /\ SameFiles(pc, pc')
         /\ pc'.env = pc.env /\ pc'.saved = pc.saved /\ pc'.record = pc.record
         /\ \/ /\ NextTask /\ pc'.pending = pc.pending
               /\ pc'.ch.ready <=> pc.ch.ready \/ at = "wsl"
               /\ pc'.ch.account <=> pc.ch.account \/ at = "account"
               /\ pc'.ch.there <=> pc.ch.there \/ at = "provision"
            \/ at = "wsl" /\ ~pc.ch.ready /\ pc'.ch = pc.ch /\ pc'.pending = job /\ End("restart")
            \/ at = "provision" /\ pc' = pc /\ End("stuck") /\ ~(pc.ch.ready /\ pc.ch.account)
<1> DEFINE Unmoved(q) == /\ q.cluster = pc.cluster /\ SameServer(pc, q) /\ SameFiles(pc, q)
                         /\ q.env = pc.env /\ q.saved = pc.saved /\ q.record = pc.record
<1>1. at \in {"wsl", "account", "provision", "history"}
  BY DEF EnableWsl, MakeAccount, Provision, SetAsideHistory
<1>2. pc \in Computer /\ at # "idle" /\ at \notin {"record", "serve", "unrecord"} /\ pc.ch \in Clickhouse
  BY <1>1 DEF Inv, Computer
<1>3. Unmoved(pc)
  BY DEF SameServer, SameFiles
<1>4. ASSUME NEW c, Does([pc EXCEPT !.ch = c])
      PROVE  Unmoved(pc') /\ pc'.ch = c /\ pc'.pending = pc.pending /\ NextTask /\ Rest
  <2>1. pc' = [pc EXCEPT !.ch = c] /\ NextTask /\ Rest
    BY <1>2, <1>4, DoesNext
  <2> QED BY <1>2, <2>1, ClickhouseIs DEF SameNotes
<1>5. Does(pc) => pc' = pc /\ NextTask /\ Rest
  BY <1>2, DoesNext
<1> HIDE DEF Unmoved
<1>6. CASE EnableWsl
  <2>1. CASE Does([pc EXCEPT !.ch.ready = TRUE])
    BY <1>2, <1>4, <1>6, <2>1 DEF Computer, EnableWsl, Unmoved, Clickhouse
  <2>2. CASE ~pc.ch.ready /\ pc' = SavePending /\ End("restart") /\ Rest
    BY <1>2, <1>6, <2>2 DEF SavePending, Computer, Unmoved, SameServer, SameFiles, EnableWsl
  <2> QED BY <1>6, <2>1, <2>2 DEF EnableWsl
<1>7. CASE MakeAccount
  BY <1>2, <1>4, <1>7 DEF Computer, MakeAccount, Unmoved, Clickhouse
<1>8. CASE Provision
  <2>1. CASE pc.ch.ready /\ pc.ch.account
    BY <1>2, <1>4, <1>8, <2>1 DEF Computer, Provision, AsAccount, Unmoved, Clickhouse
  <2>2. CASE ~(pc.ch.ready /\ pc.ch.account)
    BY <1>3, <1>8, <2>2 DEF Provision, AsAccount, Stops, Unmoved
  <2> QED BY <2>1, <2>2
<1>9. CASE SetAsideHistory
  <2> DEFINE c == [pc.ch EXCEPT !.db = None, !.aside = pc.ch.aside \union {pc.ch.db}]
  <2>1. [pc EXCEPT !.ch.db = None, !.ch.aside = @ \union {pc.ch.db}] = [pc EXCEPT !.ch = c]
    BY <1>2 DEF Computer
  <2>2. c.ready = pc.ch.ready /\ c.account = pc.ch.account /\ c.there = pc.ch.there
    BY <1>2 DEF Clickhouse
  <2> HIDE DEF c
  <2>3. Does(pc) \/ Does([pc EXCEPT !.ch = c])
    BY <1>9, <2>1, Zenon DEF SetAsideHistory
  <2>4. CASE Does(pc)
    BY <1>3, <1>5, <1>9, <2>4 DEF SetAsideHistory, Unmoved
  <2>5. CASE Does([pc EXCEPT !.ch = c])
    BY <1>4, <1>9, <2>2, <2>5 DEF SetAsideHistory, Unmoved
  <2> QED BY <2>3, <2>4, <2>5
<1> QED BY <1>6, <1>7, <1>8, <1>9

LEMMA InitDbIs ==
  ASSUME Inv, InitDb
  PROVE  /\ at = "initdb" /\ job.kind = "install" /\ job \in Job /\ Rest /\ NextTask
         /\ SameFiles(pc, pc') /\ SameServer(pc, pc') /\ SameNotes(pc, pc') /\ pc'.ch = pc.ch
         /\ pc.cluster # None => pc'.cluster = pc.cluster
         /\ pc.cluster = None =>
              /\ pc'.cluster # None /\ pc'.cluster.super = job.super /\ pc'.cluster.port = 0
              /\ ~pc'.cluster.trust /\ ~pc'.cluster.preload /\ pc'.cluster.role = 0 /\ pc'.cluster.dbs = NoDatabases
<1> DEFINE c == [super |-> job.super, port |-> 0, trust |-> FALSE, preload |-> FALSE, role |-> 0, dbs |-> NoDatabases]
<1>1. at = "initdb" /\ at # "idle" /\ pc \in Computer /\ job.kind = "install" /\ job \in Job
  BY OwnTasks, TaskFacts DEF Inv, InitDb
<1>2. CASE pc.cluster # None
  BY <1>1, <1>2, DoesNext, SameIs DEF InitDb, SameData
<1>3. CASE pc.cluster = None
  <2>1. Does([pc EXCEPT !.cluster = c])
    BY <1>3, Zenon DEF InitDb, NewCluster
  <2>2. c \in Cluster
    BY <1>1 DEF Cluster, Job, NoDatabases
  <2>3. c # None
    BY <2>2, NoneAssumption
  <2>4. /\ c.super = job.super /\ c.port = 0 /\ ~c.trust /\ ~c.preload /\ c.role = 0 /\ c.dbs = NoDatabases
    OBVIOUS
  <2> HIDE DEF c
  <2>5. /\ NextTask /\ Rest /\ pc'.cluster = c /\ pc'.ch = pc.ch
        /\ SameServer(pc, pc') /\ SameNotes(pc, pc') /\ SameFiles(pc, pc')
    <3>1. pc' = [pc EXCEPT !.cluster = c] /\ NextTask /\ Rest
      BY <1>1, <2>1, DoesNext
    <3> QED BY <1>1, <3>1, ClusterIs
  <2> QED BY <1>1, <1>3, <2>3, <2>4, <2>5
<1> QED BY <1>2, <1>3

LEMMA SetPortIs ==
  ASSUME Inv, SetPort
  PROVE  /\ at = "port" /\ job.kind = "install" /\ job \in Job /\ Rest /\ pc.cluster # None /\ pc'.cluster # None
         /\ at' = "timescale" /\ last' = last
         /\ job' = [job EXCEPT !.moved = pc.cluster.port # job.port] /\ job' \in Job
         /\ SameFiles(pc, pc') /\ SameServer(pc, pc') /\ SameNotes(pc, pc') /\ pc'.ch = pc.ch
         /\ pc'.cluster.port = job.port /\ pc'.cluster.super = pc.cluster.super /\ pc'.cluster.trust = pc.cluster.trust
         /\ pc'.cluster.preload = pc.cluster.preload /\ pc'.cluster.role = pc.cluster.role
         /\ pc'.cluster.dbs = pc.cluster.dbs
<1> DEFINE c == [pc.cluster EXCEPT !.port = job.port]
<1>1. at = "port" /\ at # "idle" /\ pc \in Computer /\ job \in Job /\ job.kind = "install"
  BY OwnTasks, TaskFacts DEF Inv, SetPort
<1>2. pc.cluster # None /\ pc.cluster \in Cluster
  BY <1>1, TaskFacts, ClusteredIs, AfterIs
<1>3. /\ c \in Cluster /\ c.port = job.port /\ c.super = pc.cluster.super /\ c.trust = pc.cluster.trust
      /\ c.preload = pc.cluster.preload /\ c.role = pc.cluster.role /\ c.dbs = pc.cluster.dbs
  BY <1>1, <1>2 DEF Cluster, Job
<1>4. pc' = [pc EXCEPT !.cluster = c]
  BY <1>1 DEF SetPort, Computer
<1> HIDE DEF c
<1>5. pc'.cluster = c /\ pc'.ch = pc.ch /\ SameServer(pc, pc') /\ SameNotes(pc, pc') /\ SameFiles(pc, pc')
  BY <1>1, <1>4, ClusterIs
<1>6. Following = "timescale"
  BY <1>1, JobKind, InstallNext DEF Inv
<1>7. at' = Following /\ job' = [job EXCEPT !.moved = pc.cluster.port # job.port] /\ last' = last /\ Rest
  BY DEF SetPort
<1>8. job' \in Job
  BY <1>1, <1>7 DEF Job
<1> QED BY <1>1, <1>2, <1>3, <1>5, <1>6, <1>7, <1>8, NoneAssumption

LEMMA InstallTimescaleIs ==
  ASSUME Inv, InstallTimescale
  PROVE  /\ at = "timescale" /\ job.kind = "install" /\ Rest /\ pc.cluster # None
         /\ SameData(pc, pc') /\ SameServer(pc, pc') /\ SameNotes(pc, pc') /\ pc'.partial = pc.partial
         /\ \/ "timescale" \in pc.files /\ pc' = pc /\ at' = "service" /\ job' = job /\ last' = last
            \/ pc'.files = pc.files \union {"timescale"} /\ at' = "preload" /\ job' = job /\ last' = last
            \/ pc' = pc /\ End("stuck") /\ "timescale" \in pc.partial
<1>1. at = "timescale" /\ at # "idle" /\ pc \in Computer /\ job \in Job /\ job.kind = "install"
  BY OwnTasks, TaskFacts DEF Inv, InstallTimescale
<1>2. pc.cluster # None
  BY <1>1, TaskFacts, ClusteredIs, AfterIs
<1>3. Following = "preload"
  BY <1>1, JobKind, InstallNext DEF Inv
<1>4. CASE "timescale" \in pc.files /\ pc' = pc /\ at' = "service" /\ UNCHANGED <<job, last>> /\ Rest
  BY <1>1, <1>2, <1>4, SameIs
<1>5. CASE Does([pc EXCEPT !.files = pc.files \union {"timescale"}])
  <2>1. /\ NextTask /\ Rest /\ pc'.files = pc.files \union {"timescale"} /\ pc'.partial = pc.partial
        /\ SameServer(pc, pc') /\ SameNotes(pc, pc') /\ SameData(pc, pc')
    BY <1>1, <1>5, DoesNext, FilesAre
  <2> QED BY <1>1, <1>2, <1>3, <2>1 DEF NextTask
<1>6. CASE "timescale" \in pc.partial /\ Stops("stuck")
  BY <1>1, <1>2, <1>6, SameIs DEF Stops
<1> QED BY <1>4, <1>5, <1>6 DEF InstallTimescale, Obtain, Add

LEMMA PreloadIs ==
  ASSUME Inv, Preload
  PROVE  /\ at = "preload" /\ job.kind = "install" /\ NextTask /\ Rest /\ pc.cluster # None /\ pc'.cluster # None
         /\ SameFiles(pc, pc') /\ SameServer(pc, pc') /\ SameNotes(pc, pc') /\ pc'.ch = pc.ch
         /\ pc'.cluster.preload /\ pc'.cluster.port = pc.cluster.port /\ pc'.cluster.super = pc.cluster.super
         /\ pc'.cluster.trust = pc.cluster.trust /\ pc'.cluster.role = pc.cluster.role /\ pc'.cluster.dbs = pc.cluster.dbs
<1> DEFINE c == [pc.cluster EXCEPT !.preload = TRUE]
<1>1. at = "preload" /\ at # "idle" /\ pc \in Computer /\ job.kind = "install"
  BY OwnTasks, TaskFacts DEF Inv, Preload
<1>2. pc.cluster # None /\ pc.cluster \in Cluster
  BY <1>1, TaskFacts, ClusteredIs, AfterIs
<1>3. /\ c \in Cluster /\ c.preload /\ c.port = pc.cluster.port /\ c.super = pc.cluster.super
      /\ c.trust = pc.cluster.trust /\ c.role = pc.cluster.role /\ c.dbs = pc.cluster.dbs
  BY <1>2 DEF Cluster
<1>4. [pc EXCEPT !.cluster.preload = TRUE] = [pc EXCEPT !.cluster = c]
  BY <1>1 DEF Computer
<1>5. Does([pc EXCEPT !.cluster = c])
  BY <1>4, Zenon DEF Preload
<1> HIDE DEF c
<1>6. /\ NextTask /\ Rest /\ pc'.cluster = c /\ pc'.ch = pc.ch
      /\ SameServer(pc, pc') /\ SameNotes(pc, pc') /\ SameFiles(pc, pc')
  <2>1. pc' = [pc EXCEPT !.cluster = c] /\ NextTask /\ Rest
    BY <1>1, <1>5, DoesNext
  <2> QED BY <1>1, <2>1, ClusterIs
<1> QED BY <1>1, <1>2, <1>3, <1>6, NoneAssumption

LEMMA RegisterPostgresIs ==
  ASSUME Inv, RegisterPostgres
  PROVE  /\ at = "service" /\ job.kind = "install" /\ NextTask /\ Rest /\ pc.cluster # None
         /\ SameFiles(pc, pc') /\ SameData(pc, pc') /\ SameNotes(pc, pc') /\ pc'.port = pc.port /\ pc'.up = pc.up
         /\ pc'.service # "none" /\ (pc.service # "none" => pc'.service = pc.service)
<1>1. at = "service" /\ at # "idle" /\ pc \in Computer /\ job.kind = "install"
  BY OwnTasks, TaskFacts DEF Inv, RegisterPostgres
<1>2. pc.cluster # None
  BY <1>1, TaskFacts, ClusteredIs, AfterIs
<1>3. CASE pc.service # "none"
  BY <1>1, <1>2, <1>3, DoesNext, SameIs DEF RegisterPostgres, SameServer
<1>4. CASE pc.service = "none"
  BY <1>1, <1>2, <1>4, DoesNext, ServiceIs DEF RegisterPostgres
<1> QED BY <1>3, <1>4

LEMMA StartPostgresIs ==
  ASSUME Inv, StartPostgres
  PROVE  /\ at = "start" /\ job.kind = "install" /\ Rest /\ pc.cluster # None
         /\ SameFiles(pc, pc') /\ SameData(pc, pc') /\ SameNotes(pc, pc') /\ pc'.service = pc.service /\ pc'.up = pc.up
         /\ pc'.port = Started(IF job.moved THEN Stopped(pc.port) ELSE pc.port)
         /\ (pc'.port = job.port /\ NextTask) \/ (pc'.port # job.port /\ End("stuck"))
<1> DEFINE port == Started(IF job.moved THEN Stopped(pc.port) ELSE pc.port)
<1>1. at = "start" /\ at # "idle" /\ pc \in Computer /\ job.kind = "install"
  BY OwnTasks, TaskFacts DEF Inv, StartPostgres
<1>2. pc.cluster # None
  BY <1>1, TaskFacts, ClusteredIs, AfterIs
<1>3. IF port = job.port THEN Does([pc EXCEPT !.port = port]) ELSE pc' = [pc EXCEPT !.port = port] /\ End("stuck") /\ Rest
  BY DEF StartPostgres
<1> HIDE DEF port
<1>4. pc' = [pc EXCEPT !.port = port] /\ Rest /\ ((port = job.port /\ NextTask) \/ (port # job.port /\ End("stuck")))
  BY <1>1, <1>3, DoesNext
<1>5. /\ SameFiles(pc, pc') /\ SameData(pc, pc') /\ SameNotes(pc, pc') /\ pc'.service = pc.service /\ pc'.up = pc.up
      /\ pc'.port = port
  BY <1>1, <1>4, PortIs
<1> QED BY <1>1, <1>2, <1>4, <1>5 DEF port

LEMMA EnableTimescaleIs ==
  ASSUME Inv, EnableTimescale
  PROVE  /\ at = "extension" /\ job.kind = "install" /\ Rest /\ pc.cluster # None /\ pc' = pc
         /\ \/ NextTask /\ Sql
            \/ End("refused")
            \/ End("stuck") /\ Sql /\ ~pc.cluster.preload
<1>1. at = "extension" /\ at # "idle" /\ pc \in Computer /\ job.kind = "install"
  BY OwnTasks, TaskFacts DEF Inv, EnableTimescale
<1>2. pc.cluster # None
  BY <1>1, TaskFacts, ClusteredIs, AfterIs
<1>3. (Sql /\ Does(pc)) \/ Stops("refused") \/ (Stops("stuck") /\ Sql /\ ~pc.cluster.preload)
  BY Zenon DEF EnableTimescale, DoesSql
<1>4. \A how : Stops(how) <=> (pc' = pc /\ End(how) /\ Rest)
  BY Zenon DEF Stops
<1> QED BY <1>1, <1>2, <1>3, <1>4, DoesNext

LEMMA TuneIs ==
  ASSUME Inv, Tune
  PROVE  /\ at = "tune" /\ job.kind \in {"install", "reconfigure"} /\ Rest
         /\ SameFiles(pc, pc') /\ SameData(pc, pc') /\ SameNotes(pc, pc') /\ pc'.service = pc.service /\ pc'.up = pc.up
         /\ \/ NextTask /\ Sql /\ pc.cluster # None /\ pc'.port = Started(Stopped(pc.port))
            \/ End("refused") /\ pc' = pc
<1> DEFINE port == Started(Stopped(pc.port))
<1>1. at = "tune" /\ at # "idle" /\ pc \in Computer /\ job.kind \in {"install", "reconfigure"}
  BY OwnTasks, TaskFacts DEF Inv, Tune
<1>2. (Sql /\ Does([pc EXCEPT !.port = port])) \/ Stops("refused")
  BY Zenon DEF Tune, DoesSql
<1>3. Sql => pc.cluster # None
  BY DEF Sql, SignsIn
<1> HIDE DEF port
<1>5. CASE Sql /\ Does([pc EXCEPT !.port = port])
  <2>1. pc' = [pc EXCEPT !.port = port] /\ NextTask /\ Rest
    BY <1>1, <1>5, DoesNext
  <2>2. /\ SameFiles(pc, pc') /\ SameData(pc, pc') /\ SameNotes(pc, pc') /\ pc'.service = pc.service
        /\ pc'.up = pc.up /\ pc'.port = port
    BY <1>1, <2>1, PortIs
  <2> QED BY <1>1, <1>3, <1>5, <2>1, <2>2 DEF port
<1>6. CASE Stops("refused")
  BY <1>1, <1>6, SameIs DEF Stops, SameServer
<1> QED BY <1>2, <1>5, <1>6

LEMMA SyncRolePasswordIs ==
  ASSUME Inv, SyncRolePassword
  PROVE  /\ at = "role" /\ job.kind = "install" /\ Rest /\ pc.cluster # None /\ pc'.cluster # None
         /\ SameFiles(pc, pc') /\ SameServer(pc, pc') /\ SameNotes(pc, pc') /\ pc'.ch = pc.ch
         /\ pc'.cluster.port = pc.cluster.port /\ pc'.cluster.super = pc.cluster.super
         /\ pc'.cluster.trust = pc.cluster.trust /\ pc'.cluster.preload = pc.cluster.preload
         /\ pc'.cluster.dbs = pc.cluster.dbs
         /\ \/ NextTask /\ Sql /\ pc'.cluster.role = IF pc.cluster.role = 0 THEN 0 ELSE job.pw
            \/ End("refused") /\ pc' = pc
<1> DEFINE c == [pc.cluster EXCEPT !.role = job.pw]
<1>1. at = "role" /\ at # "idle" /\ pc \in Computer /\ job \in Job /\ job.kind = "install"
  BY OwnTasks, TaskFacts DEF Inv, SyncRolePassword
<1>2. pc.cluster # None /\ pc.cluster \in Cluster
  BY <1>1, TaskFacts, ClusteredIs, AfterIs
<1>3. [pc EXCEPT !.cluster.role = job.pw] = [pc EXCEPT !.cluster = c]
  BY <1>1 DEF Computer
<1>4. /\ c \in Cluster /\ c.role = job.pw /\ c.port = pc.cluster.port /\ c.super = pc.cluster.super
      /\ c.trust = pc.cluster.trust /\ c.preload = pc.cluster.preload /\ c.dbs = pc.cluster.dbs
  BY <1>1, <1>2 DEF Cluster, Job
<1>5. \/ Stops("refused") \/ (Sql /\ pc.cluster.role = 0 /\ Does(pc))
      \/ (Sql /\ pc.cluster.role # 0 /\ Does([pc EXCEPT !.cluster = c]))
  BY <1>3, Zenon DEF SyncRolePassword, DoesSql
<1> HIDE DEF c
<1>6. CASE Stops("refused")
  BY <1>1, <1>2, <1>6, SameIs DEF Stops
<1>7. CASE Sql /\ pc.cluster.role = 0 /\ Does(pc)
  BY <1>1, <1>2, <1>7, DoesNext, SameIs
<1>8. CASE Sql /\ pc.cluster.role # 0 /\ Does([pc EXCEPT !.cluster = c])
  <2>1. /\ NextTask /\ Rest /\ pc'.cluster = c /\ pc'.ch = pc.ch
        /\ SameServer(pc, pc') /\ SameNotes(pc, pc') /\ SameFiles(pc, pc')
    BY <1>1, <1>8, DoesNext, ClusterIs
  <2> QED BY <1>1, <1>2, <1>4, <1>8, <2>1, NoneAssumption
<1> QED BY <1>5, <1>6, <1>7, <1>8

LEMMA PrepareExistingIs ==
  ASSUME Inv, PrepareExisting
  PROVE  /\ at = "kept" /\ job.kind = "install" /\ job.existing # "none" /\ Rest /\ pc.cluster # None /\ pc'.cluster # None
         /\ SameFiles(pc, pc') /\ SameServer(pc, pc') /\ SameNotes(pc, pc') /\ pc'.ch = pc.ch
         /\ pc'.cluster.port = pc.cluster.port /\ pc'.cluster.super = pc.cluster.super
         /\ pc'.cluster.trust = pc.cluster.trust /\ pc'.cluster.preload = pc.cluster.preload
         /\ pc'.cluster.role = pc.cluster.role
         /\ \/ /\ NextTask /\ Sql /\ ~Refuses(pc.cluster.dbs, job.existing, job.flavor)
               /\ pc'.cluster.dbs = Prepared(pc.cluster.dbs, job.existing, job.flavor, job.n)
            \/ End("refused") /\ pc' = pc
<1> DEFINE under == Prepared(pc.cluster.dbs, job.existing, job.flavor, job.n)
           c == [pc.cluster EXCEPT !.dbs = under]
<1>1. at = "kept" /\ at # "idle" /\ pc \in Computer /\ job \in Job /\ job.kind = "install" /\ job.existing # "none"
  BY JobKind, AppliesIs, OwnTasks, TaskFacts DEF PrepareExisting, Inv
<1>2. pc.cluster # None /\ pc.cluster \in Cluster
  BY <1>1, TaskFacts, ClusteredIs, AfterIs
<1>3. job.n = setups /\ job.n \in Name \ {0} /\ setups \in Nat
  BY <1>1 DEF Inv, JobOK, Job, Name
<1>4. pc.cluster.dbs \in [Name -> Databases(Name) \union {None}] /\ pc.cluster.dbs[job.n] = None
  BY <1>1, <1>2, <1>3, AfterIs DEF IsEarly, Inv, NamesOK, Under, Cluster
<1>5. under \in [Name -> Databases(Name) \union {None}]
  BY <1>3, <1>4, PreparedIs
<1>6. [pc EXCEPT !.cluster.dbs = Prepared(@, job.existing, job.flavor, job.n)] = [pc EXCEPT !.cluster = c]
  BY <1>1 DEF Computer
<1>7. \/ Stops("refused")
      \/ (Sql /\ ~Refuses(pc.cluster.dbs, job.existing, job.flavor) /\ Does([pc EXCEPT !.cluster = c]))
  BY <1>6, Zenon DEF PrepareExisting, DoesSql
<1> HIDE DEF under
<1>8. /\ c \in Cluster /\ c.dbs = under /\ c.port = pc.cluster.port /\ c.super = pc.cluster.super
      /\ c.trust = pc.cluster.trust /\ c.preload = pc.cluster.preload /\ c.role = pc.cluster.role
  BY <1>2, <1>5 DEF Cluster
<1> HIDE DEF c
<1>9. CASE Stops("refused")
  BY <1>1, <1>2, <1>9, SameIs DEF Stops
<1>10. CASE Sql /\ ~Refuses(pc.cluster.dbs, job.existing, job.flavor) /\ Does([pc EXCEPT !.cluster = c])
  <2>1. /\ NextTask /\ Rest /\ pc'.cluster = c /\ pc'.ch = pc.ch
        /\ SameServer(pc, pc') /\ SameNotes(pc, pc') /\ SameFiles(pc, pc')
    <3>1. pc' = [pc EXCEPT !.cluster = c] /\ NextTask /\ Rest
      BY <1>1, <1>10, DoesNext
    <3> QED BY <1>1, <3>1, ClusterIs
  <2> QED BY <1>1, <1>2, <1>8, <1>10, <2>1, NoneAssumption DEF under
<1> QED BY <1>7, <1>9, <1>10

(* The tasks of the databases.                                             *)
LEMMA InPlaceIs ==
  ASSUME pc \in Computer, pc.cluster # None, NEW role \in Nat, NEW d \in Databases(Name) \union {None}, NEW h,
         NEW q, q = InPlace(role, d, h)
  PROVE  /\ q.cluster # None /\ q.cluster.super = pc.cluster.super /\ q.cluster.port = pc.cluster.port
         /\ q.cluster.trust = pc.cluster.trust /\ q.cluster.preload = pc.cluster.preload /\ q.cluster.role = role
         /\ q.cluster.dbs = [pc.cluster.dbs EXCEPT ![0] = d] /\ q.cluster.dbs[0] = d
         /\ q.ch.ready = pc.ch.ready /\ q.ch.account = pc.ch.account /\ q.ch.there = pc.ch.there /\ q.ch.db = h
         /\ q.ch.aside = pc.ch.aside
         /\ SameFiles(pc, q) /\ SameServer(pc, q) /\ SameNotes(pc, q)
<1> DEFINE dd == [pc.cluster.dbs EXCEPT ![0] = d]
           c == [pc.cluster EXCEPT !.role = role, !.dbs = dd]
           e == [pc.ch EXCEPT !.db = h]
<1>1. pc.cluster \in Cluster /\ pc.ch \in Clickhouse /\ 0 \in Name
  BY SetupAssumption DEF Computer, Name
<1>2. dd[0] = d
  BY <1>1 DEF Cluster
<1>0. dd \in [Name -> Databases(Name) \union {None}]
  BY <1>1 DEF Cluster
<1> HIDE DEF dd
<1>3. /\ c \in Cluster /\ c.super = pc.cluster.super /\ c.port = pc.cluster.port /\ c.trust = pc.cluster.trust
      /\ c.preload = pc.cluster.preload /\ c.role = role /\ c.dbs = dd
  BY <1>0, <1>1 DEF Cluster
<1>4. /\ e.ready = pc.ch.ready /\ e.account = pc.ch.account /\ e.there = pc.ch.there /\ e.db = h
      /\ e.aside = pc.ch.aside
  BY <1>1 DEF Clickhouse
<1>5. q = [pc EXCEPT !.cluster = c, !.ch = e]
  BY DEF c, e, dd, InPlace
<1>6. c # None
  BY <1>3, NoneAssumption
<1> HIDE DEF c, e
<1>7. /\ q.cluster = c /\ q.ch = e /\ SameFiles(pc, q) /\ SameServer(pc, q) /\ SameNotes(pc, q)
  BY <1>5 DEF Computer, SameFiles, SameServer, SameNotes
<1> QED BY <1>2, <1>3, <1>4, <1>6, <1>7 DEF dd

LEMMA CreateIs ==
  ASSUME Inv, Create
  PROVE  /\ at = "create" /\ job.kind \in {"install", "repair"} /\ Rest /\ pc.cluster # None /\ pc'.cluster # None
         /\ SameFiles(pc, pc') /\ SameServer(pc, pc') /\ SameNotes(pc, pc')
         /\ pc'.ch.ready = pc.ch.ready /\ pc'.ch.account = pc.ch.account /\ pc'.ch.there = pc.ch.there
         /\ pc'.ch.db = pc.ch.db
         /\ pc'.cluster.port = pc.cluster.port /\ pc'.cluster.super = pc.cluster.super
         /\ pc'.cluster.trust = pc.cluster.trust /\ pc'.cluster.preload = pc.cluster.preload
         /\ \/ /\ NextTask /\ Sql
               /\ pc'.cluster.role = IF pc.cluster.role = 0 THEN job.pw ELSE pc.cluster.role
               /\ LET d == IF pc.cluster.dbs[0] = None THEN Created(job.n) ELSE pc.cluster.dbs[0]
                  IN pc'.cluster.dbs[0] = d /\ pc'.cluster.dbs = [pc.cluster.dbs EXCEPT ![0] = d] /\ d \in Databases(Name)
            \/ NextTask /\ ~Sql /\ pc' = pc
            \/ End("refused") /\ pc' = pc
<1> DEFINE d == IF pc.cluster.dbs[0] = None THEN Created(job.n) ELSE pc.cluster.dbs[0]
           role == IF pc.cluster.role = 0 THEN job.pw ELSE pc.cluster.role
           q == [pc EXCEPT !.cluster.role = IF @ = 0 THEN job.pw ELSE @,
                           !.cluster.dbs[0] = IF @ = None THEN Created(job.n) ELSE @]
<1>1. at = "create" /\ at # "idle" /\ pc \in Computer /\ job \in Job /\ job.kind \in {"install", "repair"}
  BY OwnTasks, TaskFacts DEF Inv, Create
<1>2. pc.cluster # None /\ pc.cluster \in Cluster
  BY <1>1, OwnTasks, TaskFacts, ClusteredIs, AfterIs DEF Inv
<1>3. (Sql /\ Does(q)) \/ (~Sql /\ Does(pc)) \/ Stops("refused")
  BY Zenon DEF Create
<1>4. q = InPlace(role, d, pc.ch.db)
  <2> DEFINE c == [pc.cluster EXCEPT !.role = role, !.dbs = [pc.cluster.dbs EXCEPT ![0] = d]]
  <2>1. q = [pc EXCEPT !.cluster = c]
    BY <1>1, <1>2, SetupAssumption DEF Computer, Cluster, Name
  <2> HIDE DEF c, q
  <2>2. [pc EXCEPT !.cluster = c] = [pc EXCEPT !.cluster = c, !.ch = pc.ch] /\ pc.ch = [pc.ch EXCEPT !.db = pc.ch.db]
    BY <1>1 DEF Computer, Clickhouse
  <2> QED BY <2>1, <2>2 DEF InPlace, c
<1>5. 0 \in Name /\ job.n \in Name /\ job.pw \in Nat
  BY <1>1, SetupAssumption DEF Job, Name
<1>6. d \in Databases(Name) /\ role \in Nat
  BY <1>1, <1>2, <1>5 DEF Cluster, Databases, Created
<1>7. CASE Sql /\ Does(q)
  <2> HIDE DEF q, d, role
  <2>1. pc' = q /\ NextTask /\ Rest
    BY <1>1, <1>7, DoesNext
  <2>2. pc' = InPlace(role, d, pc.ch.db) /\ d \in Databases(Name) \union {None}
    BY <1>4, <1>6, <2>1
  <2>3. /\ pc'.cluster # None /\ pc'.cluster.super = pc.cluster.super /\ pc'.cluster.port = pc.cluster.port
        /\ pc'.cluster.trust = pc.cluster.trust /\ pc'.cluster.preload = pc.cluster.preload /\ pc'.cluster.role = role
        /\ pc'.cluster.dbs = [pc.cluster.dbs EXCEPT ![0] = d] /\ pc'.cluster.dbs[0] = d
        /\ pc'.ch.ready = pc.ch.ready /\ pc'.ch.account = pc.ch.account /\ pc'.ch.there = pc.ch.there /\ pc'.ch.db = pc.ch.db
        /\ SameFiles(pc, pc') /\ SameServer(pc, pc') /\ SameNotes(pc, pc')
    BY <1>1, <1>2, <1>6, <2>2, InPlaceIs
  <2> QED BY <1>1, <1>2, <1>6, <1>7, <2>1, <2>3, Zenon DEF d, role
<1>8. CASE ~Sql /\ Does(pc)
  BY <1>1, <1>2, <1>8, DoesNext, SameIs
<1>9. CASE Stops("refused")
  BY <1>1, <1>2, <1>9, SameIs DEF Stops
<1> QED BY <1>3, <1>7, <1>8, <1>9

LEMMA RequirePasswordsIs ==
  ASSUME Inv, RequirePasswords
  PROVE  /\ at = "passwords" /\ job.kind \in {"install", "repair"} /\ NextTask /\ Rest
         /\ pc.cluster # None /\ pc'.cluster # None
         /\ SameFiles(pc, pc') /\ SameServer(pc, pc') /\ SameNotes(pc, pc') /\ pc'.ch = pc.ch
         /\ pc'.cluster.port = pc.cluster.port /\ pc'.cluster.super = pc.cluster.super
         /\ pc'.cluster.role = pc.cluster.role /\ pc'.cluster.preload = pc.cluster.preload
         /\ pc'.cluster.dbs = pc.cluster.dbs
         /\ IF Sql /\ job.super = pc.cluster.super THEN ~pc'.cluster.trust ELSE pc'.cluster.trust = pc.cluster.trust
<1> DEFINE c == [pc.cluster EXCEPT !.trust = FALSE]
<1>1. at = "passwords" /\ at # "idle" /\ pc \in Computer /\ job.kind \in {"install", "repair"}
  BY OwnTasks, TaskFacts DEF Inv, RequirePasswords
<1>2. pc.cluster # None /\ pc.cluster \in Cluster
  BY <1>1, OwnTasks, TaskFacts, ClusteredIs, AfterIs DEF Inv
<1>3. [pc EXCEPT !.cluster.trust = FALSE] = [pc EXCEPT !.cluster = c]
  BY <1>1 DEF Computer
<1>4. /\ c \in Cluster /\ ~c.trust /\ c.port = pc.cluster.port /\ c.super = pc.cluster.super
      /\ c.role = pc.cluster.role /\ c.preload = pc.cluster.preload /\ c.dbs = pc.cluster.dbs
  BY <1>1, <1>2 DEF Cluster
<1>5. IF Sql /\ job.super = pc.cluster.super THEN Does([pc EXCEPT !.cluster = c]) ELSE Does(pc)
  BY <1>3, Zenon DEF RequirePasswords, WithoutTrust
<1> HIDE DEF c
<1>6. CASE Sql /\ job.super = pc.cluster.super
  <2>1. pc' = [pc EXCEPT !.cluster = c] /\ NextTask /\ Rest
    BY <1>1, <1>5, <1>6, DoesNext
  <2>2. /\ pc'.cluster = c /\ pc'.ch = pc.ch
        /\ SameServer(pc, pc') /\ SameNotes(pc, pc') /\ SameFiles(pc, pc')
    BY <1>1, <2>1, ClusterIs
  <2> QED BY <1>1, <1>2, <1>4, <1>6, <2>1, <2>2, NoneAssumption
<1>7. CASE ~(Sql /\ job.super = pc.cluster.super)
  BY <1>1, <1>2, <1>5, <1>7, DoesNext, SameIs
<1> QED BY <1>6, <1>7

LEMMA InstallSchemaIs ==
  ASSUME Inv, InstallSchema
  PROVE  /\ at = "schema" /\ job.kind \in {"install", "repair"} /\ Rest /\ pc.cluster # None /\ pc'.cluster # None
         /\ SameFiles(pc, pc') /\ SameServer(pc, pc') /\ SameNotes(pc, pc')
         /\ pc'.ch.ready = pc.ch.ready /\ pc'.ch.account = pc.ch.account /\ pc'.ch.there = pc.ch.there
         /\ pc'.cluster.port = pc.cluster.port /\ pc'.cluster.super = pc.cluster.super
         /\ pc'.cluster.trust = pc.cluster.trust /\ pc'.cluster.preload = pc.cluster.preload
         /\ pc'.cluster.role = pc.cluster.role
         /\ \/ /\ NextTask /\ AppSignsIn
               /\ pc.cluster.dbs[0] \in Databases(Name)
               /\ pc'.cluster.dbs[0] = Installed(pc.cluster.dbs[0])
               /\ pc'.cluster.dbs = [pc.cluster.dbs EXCEPT ![0] = Installed(pc.cluster.dbs[0])]
               /\ pc'.ch.db = IF job.flavor = "clickhouse" /\ pc.ch.there /\ pc.ch.db = None
                              THEN pc.cluster.dbs[0].of ELSE pc.ch.db
            \/ NextTask /\ ~AppSignsIn /\ pc' = pc
            \/ End("stuck") /\ pc' = pc /\ ~Programs
<1> DEFINE d == Installed(pc.cluster.dbs[0])
           h == IF job.flavor = "clickhouse" /\ pc.ch.there /\ pc.ch.db = None THEN pc.cluster.dbs[0].of ELSE pc.ch.db
           q == [pc EXCEPT !.cluster.dbs[0] = Installed(@),
                  !.ch.db = IF job.flavor = "clickhouse" /\ pc.ch.there /\ @ = None THEN pc.cluster.dbs[0].of ELSE @]
<1>1. at = "schema" /\ at # "idle" /\ pc \in Computer /\ job \in Job /\ job.kind \in {"install", "repair"}
  BY OwnTasks, TaskFacts DEF Inv, InstallSchema
<1>2. pc.cluster # None /\ pc.cluster \in Cluster
  BY <1>1, OwnTasks, TaskFacts, ClusteredIs, AfterIs DEF Inv
<1>3. (AppSignsIn /\ Does(q)) \/ (~AppSignsIn /\ Does(pc)) \/ (Stops("stuck") /\ ~Programs)
  BY Zenon DEF InstallSchema
<1>4. q = InPlace(pc.cluster.role, d, h)
  BY <1>1, <1>2, SetupAssumption DEF InPlace, Computer, Cluster, Clickhouse, Name
<1>5. CASE AppSignsIn /\ Does(q)
  <2>1. pc.cluster.dbs[0] \in Databases(Name) /\ pc.cluster.role \in Nat
    BY <1>1, <1>2, <1>5, SetupAssumption DEF AppSignsIn, Database, Cluster, Name, Computer
  <2>2. d \in Databases(Name) \union {None}
    BY <2>1, ServedDatabaseIs DEF Installed
  <2> HIDE DEF q, d, h
  <2>3. pc' = q /\ NextTask /\ Rest
    BY <1>1, <1>5, DoesNext
  <2>4. pc' = InPlace(pc.cluster.role, d, h)
    BY <1>4, <2>3
  <2>5. /\ pc'.cluster # None /\ pc'.cluster.super = pc.cluster.super /\ pc'.cluster.port = pc.cluster.port
        /\ pc'.cluster.trust = pc.cluster.trust /\ pc'.cluster.preload = pc.cluster.preload
        /\ pc'.cluster.role = pc.cluster.role
        /\ pc'.cluster.dbs = [pc.cluster.dbs EXCEPT ![0] = d] /\ pc'.cluster.dbs[0] = d
        /\ pc'.ch.ready = pc.ch.ready /\ pc'.ch.account = pc.ch.account /\ pc'.ch.there = pc.ch.there /\ pc'.ch.db = h
        /\ SameFiles(pc, pc') /\ SameServer(pc, pc') /\ SameNotes(pc, pc')
    BY <1>1, <1>2, <2>1, <2>2, <2>4, InPlaceIs
  <2> QED BY <1>1, <1>2, <1>5, <2>1, <2>3, <2>5, Zenon DEF d, h
<1>6. CASE ~AppSignsIn /\ Does(pc)
  BY <1>1, <1>2, <1>6, DoesNext, SameIs
<1>7. CASE Stops("stuck") /\ ~Programs
  BY <1>1, <1>2, <1>7, SameIs DEF Stops
<1> QED BY <1>3, <1>5, <1>6, <1>7

(* The history partitioned, and the administrator set.                     *)
InDatabase(d) ==
  /\ pc.cluster # None /\ pc'.cluster # None /\ Rest
  /\ SameFiles(pc, pc') /\ SameServer(pc, pc') /\ SameNotes(pc, pc')
  /\ pc'.ch.ready = pc.ch.ready /\ pc'.ch.account = pc.ch.account /\ pc'.ch.there = pc.ch.there
  /\ pc'.ch.db = pc.ch.db
  /\ pc'.cluster.port = pc.cluster.port /\ pc'.cluster.super = pc.cluster.super
  /\ pc'.cluster.trust = pc.cluster.trust /\ pc'.cluster.preload = pc.cluster.preload
  /\ pc'.cluster.role = pc.cluster.role
  /\ \/ /\ NextTask /\ Sql /\ pc.cluster.dbs[0] \in Databases(Name)
        /\ pc'.cluster.dbs[0] = d /\ pc'.cluster.dbs = [pc.cluster.dbs EXCEPT ![0] = d]
     \/ End("refused") /\ pc' = pc

LEMMA InDatabaseIs ==
  ASSUME Inv, at # "idle", at \notin {"record", "serve", "unrecord"}, pc.cluster # None,
         NEW d, pc.cluster.dbs[0] # None => d \in Databases(Name),
         NEW q, Sql /\ Database # None => q = [pc EXCEPT !.cluster.dbs[0] = d],
         DoesInDatabase(q)
  PROVE  InDatabase(d)
<1>1. pc \in Computer
  BY DEF Inv
<1>2. CASE Sql /\ Database # None
  <2>1. pc.cluster.dbs[0] # None /\ pc.cluster \in Cluster /\ pc.ch \in Clickhouse /\ 0 \in Name
    BY <1>1, <1>2, SetupAssumption DEF Database, Computer, Name
  <2>2. q = InPlace(pc.cluster.role, d, pc.ch.db)
    <3> DEFINE dd == [pc.cluster.dbs EXCEPT ![0] = d]
    <3>1. [pc EXCEPT !.cluster.dbs[0] = d] = [pc EXCEPT !.cluster = [pc.cluster EXCEPT !.dbs = dd]]
      BY <1>1, <2>1 DEF Computer, Cluster
    <3> HIDE DEF dd
    <3>2. [pc.cluster EXCEPT !.dbs = dd] = [pc.cluster EXCEPT !.role = pc.cluster.role, !.dbs = dd]
      BY <2>1 DEF Cluster
    <3>3. pc.ch = [pc.ch EXCEPT !.db = pc.ch.db]
      BY <2>1 DEF Clickhouse
    <3>4. \A c : [pc EXCEPT !.cluster = c] = [pc EXCEPT !.cluster = c, !.ch = pc.ch]
      BY <1>1 DEF Computer
    <3>5. q = [pc EXCEPT !.cluster.dbs[0] = d]
      BY <1>2
    <3> QED BY <3>1, <3>2, <3>3, <3>4, <3>5 DEF InPlace, dd
  <2>3. d \in Databases(Name) \union {None} /\ pc.cluster.role \in Nat /\ pc.cluster.dbs[0] \in Databases(Name)
    BY <2>1 DEF Cluster
  <2>4. Does(q)
    BY <1>2 DEF DoesInDatabase
  <2>5. pc' = q /\ NextTask /\ Rest
    BY <2>4, DoesNext
  <2>6. pc' = InPlace(pc.cluster.role, d, pc.ch.db)
    BY <2>2, <2>5
  <2>7. /\ pc'.cluster # None /\ pc'.cluster.super = pc.cluster.super /\ pc'.cluster.port = pc.cluster.port
        /\ pc'.cluster.trust = pc.cluster.trust /\ pc'.cluster.preload = pc.cluster.preload
        /\ pc'.cluster.role = pc.cluster.role
        /\ pc'.cluster.dbs = [pc.cluster.dbs EXCEPT ![0] = d] /\ pc'.cluster.dbs[0] = d
        /\ pc'.ch.ready = pc.ch.ready /\ pc'.ch.account = pc.ch.account /\ pc'.ch.there = pc.ch.there
        /\ pc'.ch.db = pc.ch.db
        /\ SameFiles(pc, pc') /\ SameServer(pc, pc') /\ SameNotes(pc, pc')
    BY <1>1, <2>3, <2>6, InPlaceIs
  <2> QED BY <1>2, <2>3, <2>5, <2>7, Zenon DEF InDatabase
<1>3. CASE ~(Sql /\ Database # None)
  BY <1>3, SameIs DEF DoesInDatabase, Stops, InDatabase
<1> QED BY <1>2, <1>3

LEMMA PartitionIs ==
  ASSUME Inv, Partition
  PROVE  /\ at = "partition" /\ job.kind \in {"install", "repair"} /\ job.flavor = "stock"
         /\ InDatabase(IF pc.cluster.dbs[0].shape = "plain" THEN [pc.cluster.dbs[0] EXCEPT !.shape = "partitioned"]
                       ELSE pc.cluster.dbs[0])
<1> DEFINE d == IF pc.cluster.dbs[0].shape = "plain" THEN [pc.cluster.dbs[0] EXCEPT !.shape = "partitioned"]
                ELSE pc.cluster.dbs[0]
           q == IF Database.shape = "plain" THEN [pc EXCEPT !.cluster.dbs[0].shape = "partitioned"] ELSE pc
<1>1. at = "partition" /\ at # "idle" /\ pc \in Computer /\ job.kind \in {"install", "repair"} /\ job.flavor = "stock"
  BY JobKind, AppliesIs, OwnTasks, TaskFacts DEF Partition, Inv
<1>2. pc.cluster # None /\ pc.cluster \in Cluster
  BY <1>1, OwnTasks, TaskFacts, ClusteredIs, AfterIs DEF Inv
<1>3. pc.cluster.dbs[0] # None => d \in Databases(Name)
  <2>1. pc.cluster.dbs[0] # None => pc.cluster.dbs[0] \in Databases(Name)
    BY <1>2, SetupAssumption DEF Cluster, Name
  <2> QED BY <2>1, ServedDatabaseIs
<1>4. ASSUME Sql, Database # None
      PROVE  q = [pc EXCEPT !.cluster.dbs[0] = d]
  <2>1. Database = pc.cluster.dbs[0]
    BY <1>2 DEF Database
  <2>2. CASE Database.shape = "plain"
    BY <1>1, <1>2, <2>1, <2>2, SetupAssumption DEF Cluster, Name, Computer
  <2>3. CASE Database.shape # "plain"
    BY <1>1, <1>2, <2>1, <2>3 DEF Computer, Cluster
  <2> QED BY <2>2, <2>3
<1>5. DoesInDatabase(q)
  BY DEF Partition
<1> HIDE DEF q, d
<1>6. InDatabase(d)
  BY <1>1, <1>2, <1>3, <1>4, <1>5, InDatabaseIs
<1> QED BY <1>1, <1>6 DEF d

LEMMA SetAdminIs ==
  ASSUME Inv, SetAdmin
  PROVE  at = "admin" /\ job.kind = "install" /\ InDatabase(WithAdministrator(pc.cluster.dbs[0]))
<1> DEFINE d == WithAdministrator(pc.cluster.dbs[0])
           q == [pc EXCEPT !.cluster.dbs[0] = WithAdministrator(@)]
<1>1. at = "admin" /\ at # "idle" /\ pc \in Computer /\ job.kind = "install"
  BY OwnTasks, TaskFacts DEF Inv, SetAdmin
<1>2. pc.cluster # None /\ pc.cluster \in Cluster
  BY <1>1, OwnTasks, TaskFacts, ClusteredIs, AfterIs DEF Inv
<1>3. pc.cluster.dbs[0] # None => d \in Databases(Name)
  <2>1. pc.cluster.dbs[0] # None => pc.cluster.dbs[0] \in Databases(Name)
    BY <1>2, SetupAssumption DEF Cluster, Name
  <2> QED BY <2>1, ServedDatabaseIs
<1>4. ASSUME Sql, Database # None
      PROVE  q = [pc EXCEPT !.cluster.dbs[0] = d]
  BY <1>1, <1>2, SetupAssumption DEF Cluster, Name, Computer
<1>5. DoesInDatabase(q)
  BY DEF SetAdmin
<1> HIDE DEF q, d
<1>6. InDatabase(d)
  BY <1>1, <1>2, <1>3, <1>4, <1>5, InDatabaseIs
<1> QED BY <1>1, <1>6 DEF d

(* The settings, the passwords and the record.                             *)
LEMMA RegisterIs ==
  ASSUME Inv, Register
  PROVE  /\ at = "register" /\ job.kind \in {"install", "repair", "reconfigure"} /\ Rest /\ pc.cluster # None
         /\ SameFiles(pc, pc') /\ SameServer(pc, pc') /\ SameData(pc, pc')
         /\ pc'.saved = pc.saved /\ pc'.record = pc.record /\ pc'.pending = pc.pending
         /\ \/ NextTask /\ "wrapper" \in pc.files /\ pc'.env = Settings(job) /\ pc'.env # None
            \/ End("stuck") /\ pc' = pc /\ "wrapper" \notin pc.files
<1>1. at = "register" /\ at # "idle" /\ pc \in Computer /\ job \in Job /\ job.kind \in {"install", "repair", "reconfigure"}
  BY OwnTasks, TaskFacts DEF Inv, Register
<1>2. pc.cluster # None
  BY <1>1, OwnTasks, TaskFacts, ClusteredIs, AfterIs DEF Inv
<1>3. Settings(job) # None
  BY <1>1, NoneAssumption DEF Settings, Env, Job
<1>4. \/ Stops("stuck") /\ "wrapper" \notin pc.files
      \/ Does([pc EXCEPT !.env = Settings(job)]) /\ "wrapper" \in pc.files
  BY Zenon DEF Register
<1>5. CASE Stops("stuck") /\ "wrapper" \notin pc.files
  BY <1>1, <1>2, <1>5, SameIs DEF Stops, SameNotes
<1>6. CASE Does([pc EXCEPT !.env = Settings(job)]) /\ "wrapper" \in pc.files
  BY <1>1, <1>2, <1>3, <1>6, DoesNext DEF Computer, SameFiles, SameServer, SameData
<1> QED BY <1>4, <1>5, <1>6

LEMMA ServeIs ==
  ASSUME Inv, Serve
  PROVE  /\ at = "serve" /\ job.kind \in {"install", "repair", "reconfigure"} /\ pc.cluster # None
         /\ UNCHANGED <<setups, changes, faults>>
         /\ SameFiles(pc, pc') /\ SameData(pc, pc') /\ SameNotes(pc, pc')
         /\ pc'.service = pc.service /\ pc'.port = pc.port
         /\ \/ /\ pc.up \/ Answers(pc)
               /\ pc'.up
               /\ IF job.kind = "install" THEN at' = "admin" /\ job' = job /\ last' = last ELSE End("done")
            \/ End("stuck") /\ pc' = pc /\ ~pc.up /\ ~Answers(pc) /\ Sql
            \/ End("refused") /\ pc' = pc
<1>1. at = "serve" /\ at # "idle" /\ pc \in Computer /\ job \in Job /\ job.kind \in {"install", "repair", "reconfigure"}
  BY OwnTasks, TaskFacts DEF Inv, Serve
<1>2. pc.cluster # None
  BY <1>1, OwnTasks, TaskFacts, ClusteredIs, AfterIs DEF Inv
<1>3. job.kind = "install" => Following = "admin"
  BY <1>1, JobKind, InstallNext DEF Inv
<1>4. CASE pc.up \/ Answers(pc)
  BY <1>1, <1>2, <1>3, <1>4 DEF Serve, Computer, SameFiles, SameData, SameNotes
<1>5. CASE ~(pc.up \/ Answers(pc))
  BY <1>1, <1>2, <1>5, SameIs DEF Serve, Stops, Rest
<1> QED BY <1>4, <1>5

(* Saved, or some of them or none.                                         *)
LEMMA SaveSecretsIs ==
  ASSUME Inv, SaveSecrets \/ SecretsUnsaved
  PROVE  /\ at = "secrets" /\ job.kind = "install" /\ NextTask /\ pc.cluster # None
         /\ UNCHANGED <<held, setups, changes>>
         /\ SameFiles(pc, pc') /\ SameData(pc, pc') /\ pc'.port = pc.port /\ pc'.up = pc.up /\ pc'.service = "auto"
         /\ pc'.env = pc.env /\ pc'.record = pc.record /\ pc'.pending = pc.pending
         /\ pc'.saved.db \in {pc.saved.db, job.pw} /\ pc'.saved.super \in {pc.saved.super, job.super}
         /\ at \in TearAt \/ pc.saved = NoSecrets \/ pc'.saved = Stored(job.pw, job.super)
<1>1. at = "secrets" /\ at # "idle" /\ pc \in Computer /\ job.kind = "install"
  BY OwnTasks, TaskFacts DEF Inv, SaveSecrets, SecretsUnsaved
<1>2. pc.cluster # None
  BY <1>1, OwnTasks, TaskFacts, ClusteredIs, AfterIs DEF Inv
<1>3. ASSUME NEW db, NEW super, pc' = [SetAutostart EXCEPT !.saved = Stored(db, super)]
      PROVE  /\ SameFiles(pc, pc') /\ SameData(pc, pc') /\ pc'.port = pc.port /\ pc'.up = pc.up /\ pc'.service = "auto"
             /\ pc'.env = pc.env /\ pc'.record = pc.record /\ pc'.pending = pc.pending
             /\ pc'.saved = Stored(db, super)
  BY <1>1, <1>3 DEF SetAutostart, Computer, SameFiles, SameData
<1>4. \A db, super : Stored(db, super).db = db /\ Stored(db, super).super = super
  BY DEF Stored
<1>5. CASE SaveSecrets
  BY <1>1, <1>2, <1>3, <1>4, <1>5, DoesNext DEF SaveSecrets, Rest
<1>6. CASE SecretsUnsaved
  BY <1>1, <1>2, <1>3, <1>4, <1>6, Lasts DEF SecretsUnsaved, NextTask
<1> QED BY <1>5, <1>6

LEMMA SaveRecordIs ==
  ASSUME Inv, SaveRecord
  PROVE  /\ at = "record" /\ job.kind = "install" /\ pc.cluster # None /\ Rest /\ End("done")
         /\ SameFiles(pc, pc') /\ SameData(pc, pc') /\ SameServer(pc, pc')
         /\ pc'.env = pc.env /\ pc'.saved = pc.saved /\ pc'.pending = pc.pending
         /\ pc'.record = Recorded(job) /\ pc'.record # None
<1>1. at = "record" /\ at # "idle" /\ pc \in Computer /\ job \in Job /\ job.kind = "install"
  BY OwnTasks, TaskFacts DEF Inv, SaveRecord
<1>2. pc.cluster # None
  BY <1>1, OwnTasks, TaskFacts, ClusteredIs, AfterIs DEF Inv
<1>3. Recorded(job) # None
  BY <1>1, NoneAssumption DEF Recorded, Installation, Job
<1>4. Does([pc EXCEPT !.record = Recorded(job)])
  BY DEF SaveRecord
<1>5. pc' = [pc EXCEPT !.record = Recorded(job)] /\ Goes /\ Rest
  BY <1>4, DoesIs
<1>6. End("done")
  BY <1>1, <1>5, Lasts DEF Goes
<1>7. /\ SameFiles(pc, pc') /\ SameData(pc, pc') /\ SameServer(pc, pc')
      /\ pc'.env = pc.env /\ pc'.saved = pc.saved /\ pc'.pending = pc.pending /\ pc'.record = Recorded(job)
  BY <1>1, <1>5 DEF Computer, SameFiles, SameData, SameServer
<1> QED BY <1>1, <1>2, <1>3, <1>5, <1>6, <1>7

(* Stopping and removing.                                                  *)
LEMMA RemovalTasksAre ==
  ASSUME Inv, StopServer \/ RemovePlatform \/ Release
  PROVE  /\ at \in {"stop", "remove", "release"} /\ job.kind # "install" /\ NextTask /\ Rest
         /\ SameData(pc, pc') /\ pc'.saved = pc.saved /\ pc'.record = pc.record /\ pc'.pending = pc.pending
         /\ pc'.partial = pc.partial
         /\ pc'.env \in {pc.env, None} /\ (at # "stop" => pc'.env = None)
         /\ \/ pc'.files = pc.files
            \/ pc'.files = pc.files \ {"programs", "wrapper"}
         /\ pc'.files # pc.files \/ pc'.env = pc.env \/ "wrapper" \notin pc'.files
         /\ pc'.port \in {pc.port, 0}
         /\ at = "stop" => job.kind = "reconfigure"
<1>1. at \in {"stop", "remove", "release"}
  BY DEF StopServer, RemovePlatform, Release
<1>2. /\ at # "idle" /\ pc \in Computer /\ job.kind # "install"
      /\ (at \in {"remove", "release"} => job.kind \in {"uninstall", "delete"})
      /\ at = "stop" => job.kind = "reconfigure"
  BY <1>1, OwnTasks, TaskFacts DEF Inv
<1>3. at = "release" => pc.env = None
  BY <1>1, <1>2 DEF Inv, ClusterOK
<1>4. CASE StopServer
  BY <1>2, <1>4, DoesNext DEF StopServer, Computer, SameData
<1>5. CASE RemovePlatform
  <2>1. Does([pc EXCEPT !.up = FALSE, !.env = None, !.files = @ \ {"programs", "wrapper"}]) /\ at = "remove"
    BY <1>5, Zenon DEF RemovePlatform, NoEnv
  <2>2. pc' = [pc EXCEPT !.up = FALSE, !.env = None, !.files = @ \ {"programs", "wrapper"}] /\ NextTask /\ Rest
    BY <1>2, <2>1, DoesNext
  <2>3. /\ SameData(pc, pc') /\ pc'.saved = pc.saved /\ pc'.record = pc.record /\ pc'.pending = pc.pending
        /\ pc'.env = None /\ pc'.files = pc.files \ {"programs", "wrapper"} /\ pc'.port = pc.port
        /\ pc'.partial = pc.partial
    BY <1>2, <2>2 DEF Computer, SameData
  <2> QED BY <1>2, <2>1, <2>2, <2>3
<1>6. CASE Release
  <2> DEFINE service == IF pc.service = "none" THEN pc.service ELSE "demand"
             q == [pc EXCEPT !.port = 0, !.service = service]
  <2>1. Does([pc EXCEPT !.port = 0, !.service = IF @ = "none" THEN @ ELSE "demand"]) /\ at = "release"
    BY <1>6 DEF Release
  <2>2. [pc EXCEPT !.port = 0, !.service = IF @ = "none" THEN @ ELSE "demand"] = q
    BY <1>2 DEF Computer
  <2> HIDE DEF service
  <2>3. /\ q.files = pc.files /\ q.partial = pc.partial /\ q.cluster = pc.cluster /\ q.ch = pc.ch /\ q.saved = pc.saved
        /\ q.record = pc.record /\ q.pending = pc.pending /\ q.env = pc.env /\ q.port = 0
    BY <1>2 DEF Computer
  <2> HIDE DEF q
  <2>4. pc' = q /\ NextTask /\ Rest
    BY <1>2, <2>1, <2>2, DoesNext
  <2> QED BY <1>2, <1>3, <2>1, <2>3, <2>4 DEF SameData
<1> QED BY <1>4, <1>5, <1>6

LEMMA RemoveRecordIs ==
  ASSUME Inv, RemoveRecord
  PROVE  /\ at = "unrecord" /\ job.kind # "install" /\ End("done") /\ Rest /\ pc.env = None
         /\ SameData(pc, pc') /\ SameServer(pc, pc') /\ pc'.env = None /\ pc'.saved = pc.saved
         /\ pc'.pending = pc.pending /\ pc'.partial = pc.partial
         /\ pc'.record = None /\ pc'.files = pc.files \ {"manager"}
<1>1. at = "unrecord" /\ at # "idle" /\ pc \in Computer /\ job.kind \in {"uninstall", "delete"}
  BY OwnTasks, TaskFacts DEF Inv, RemoveRecord
<1>2. pc.env = None
  BY <1>1 DEF Inv, ClusterOK
<1>3. Does([pc EXCEPT !.record = None, !.files = @ \ {"manager"}])
  BY DEF RemoveRecord
<1>4. pc' = [pc EXCEPT !.record = None, !.files = @ \ {"manager"}] /\ Goes /\ Rest
  BY <1>3, DoesIs
<1>5. End("done")
  BY <1>1, <1>4, Lasts DEF Goes
<1>6. /\ SameData(pc, pc') /\ SameServer(pc, pc') /\ pc'.env = pc.env /\ pc'.saved = pc.saved
      /\ pc'.pending = pc.pending /\ pc'.partial = pc.partial
      /\ pc'.record = None /\ pc'.files = pc.files \ {"manager"}
  BY <1>1, <1>4 DEF Computer, SameData, SameServer
<1> QED BY <1>1, <1>2, <1>4, <1>5, <1>6

LEMMA DeletionTasksAre ==
  ASSUME Inv, Clean \/ Forget
  PROVE  /\ at \in {"clean", "forget"} /\ job.kind = "delete" /\ NextTask /\ UNCHANGED <<setups, changes, faults>>
         /\ pc.env = None /\ pc'.env = None /\ pc'.record = pc.record /\ pc'.pending = pc.pending
         /\ pc'.partial = pc.partial /\ pc'.ch.ready = pc.ch.ready
         /\ \/ /\ at = "clean" /\ pc'.cluster = None /\ pc'.port = 0 /\ pc'.saved = pc.saved
               /\ pc'.files = pc.files \ {"postgres", "timescale"}
            \/ /\ at = "forget" /\ pc'.cluster = pc.cluster /\ pc'.port = pc.port /\ pc'.saved = NoSecrets
               /\ pc'.files = pc.files
<1>1. at \in {"clean", "forget"} /\ at' = Following /\ UNCHANGED <<job, last, setups, changes, faults>>
  BY DEF Clean, Forget
<1>2. at # "idle" /\ pc \in Computer /\ job.kind = "delete" /\ pc.env = None
  BY <1>1, OwnTasks, TaskFacts DEF Inv, ClusterOK
<1>3. NextTask
  BY <1>1, <1>2, Lasts DEF NextTask
<1>4. CASE Clean
  BY <1>1, <1>2, <1>3, <1>4 DEF Clean, Computer
<1>5. CASE Forget
  <2> DEFINE c == [pc.ch EXCEPT !.account = FALSE, !.there = FALSE, !.db = None, !.aside = {}]
  <2>1. pc' = [pc EXCEPT !.ch = c, !.saved = NoSecrets]
    BY <1>5 DEF Forget, AccountRemoved
  <2>2. c.ready = pc.ch.ready
    BY <1>2 DEF Computer, Clickhouse
  <2> HIDE DEF c
  <2>3. /\ pc'.cluster = pc.cluster /\ pc'.ch = c /\ pc'.env = pc.env /\ pc'.port = pc.port /\ pc'.pending = pc.pending
        /\ pc'.record = pc.record /\ pc'.partial = pc.partial /\ pc'.saved = NoSecrets /\ pc'.files = pc.files
    BY <1>2, <2>1 DEF Computer
  <2> QED BY <1>1, <1>2, <1>3, <1>5, <2>2, <2>3 DEF Forget
<1> QED BY <1>4, <1>5

(* What fails.                                                             *)
LEMMA FailIs ==
  ASSUME Inv, Fail
  PROVE  /\ at # "idle" /\ at \in Steps /\ End("failed") /\ UNCHANGED <<held, setups, changes>>
         /\ SameData(pc, pc') /\ SameNotes(pc, pc') /\ pc'.up = pc.up
         /\ \/ at \in MayFail /\ pc' = pc
            \/ at \in TearAt /\ at # "secrets" /\ pc' = Torn(at)
<1>1. /\ End("failed") /\ UNCHANGED <<held, setups, changes>>
      /\ \/ at \in MayFail /\ pc' = pc
         \/ at \in TearAt /\ at # "secrets" /\ pc' = Torn(at)
  BY DEF Fail
<1>2. at \in Steps
  BY <1>1, SetupAssumption
<1>3. at # "idle"
  <2>1. \A k \in Kinds : "idle" \notin ToSet(Paths[k])
    BY NotIdle
  <2> QED BY <1>2, <2>1, Zenon DEF Steps
<1>4. SameData(pc, pc') /\ SameNotes(pc, pc') /\ pc'.up = pc.up
  BY <1>1, <1>3, SameIs, TornIs DEF SameData, SameNotes
<1> QED BY <1>1, <1>2, <1>3, <1>4

----------------------------------------------------------------------------
(* The plan, and what is on the computer: a setup that failed is tried     *)
(* again with the plan it had, so that the settings of SENTIENT's service, *)
(* PostgreSQL's port and its passwords are still that plan's.              *)
AfterPasswords == {"env", "schema"} \union AfterSchema
AfterStart == {"extension"} \union AfterExtension

Filled(j) == j.pw # 0 /\ j.port # 0 /\ j.super # NewSuper
(* Between setups with plan j, and in them.                                *)
Settled(p, j) ==
  /\ p.env # None => p.env = Settings(j)
  /\ p.record # None => p.env # None
  /\ p.env # None /\ p.cluster.trust => j.super # p.cluster.super
  /\ j.existing = "none" /\ p.cluster # None => p.cluster.role \in {0, j.pw}
(* The settings of SENTIENT's service go with PostgreSQL and the record.   *)
Together(p) ==
  /\ p.env # None =>
       /\ p.env.port = p.cluster.port /\ p.env.pw # 0
       /\ p.env.flavor = "clickhouse" => p.ch.ready
       /\ p.record # None => p.record = Recorded(p.env)
  /\ p.record # None /\ "wrapper" \in p.files => p.env # None
(* What the tasks before task s of an installation have established.       *)
Reached(p, j, s) ==
  /\ s \in AfterPort => p.cluster.port = j.port
  /\ s \in AfterStart => p.port = j.port
  /\ s \in AfterExtension => p.cluster.trust \/ j.super = p.cluster.super
  /\ s \in AfterRole => p.cluster.role \in {0, j.pw}
  /\ s \in AfterCreate => p.cluster.role = j.pw /\ p.cluster.dbs[0] # None
  /\ s \in AfterPasswords => ~p.cluster.trust \/ j.super # p.cluster.super
  /\ s \in AfterSchema => p.cluster.dbs[0].shape # "missing"
  /\ s \in AfterRegister => p.env # None
  /\ j.flavor = "clickhouse" /\ s \notin {"manager", "wsl"} => p.ch.ready
(* The plan of a job of the record.                                        *)
Handed(p, j, s) ==
  /\ p.record # None /\ j.flavor = p.record.flavor /\ j.port = p.record.port
  /\ s # "unrecord" => j.pw = p.saved.db /\ j.super = p.saved.super
  /\ j.kind \in {"repair", "reconfigure"} => j.pw # 0

PlansFilled ==
  /\ job.kind = "install" => Filled(job)
  /\ last.plan.kind = "install" => Filled(last.plan)
  /\ pc.pending # None => Filled(pc.pending)
(* The plan saved for a restart is the last setup's, or is not resumed.    *)
PendingOK ==
  pc.pending # None =>
    /\ pc.pending.n <= setups
    /\ job.kind = "install" => pc.pending.n < setups
    /\ pc.pending.n = setups =>
         at = "idle" /\ pc.env = None /\ pc.record = None /\ Settled(pc, pc.pending)
Again == at = "idle" /\ last.plan.kind = "install" /\ last.end \in {"failed", "refused", "stuck"}
PlanInv ==
  /\ PlansFilled /\ PendingOK /\ Together(pc)
  /\ job.kind = "install" => Settled(pc, job) /\ Reached(pc, job, at)
  /\ at # "idle" /\ job.kind # "install" => Handed(pc, job, at)
  /\ Again => Settled(pc, last.plan)

LEMMA AfterAre ==
  /\ AfterPasswords = {"env", "schema", "partition", "register", "serve", "admin", "secrets", "shortcuts", "record"}
  /\ AfterStart = {"extension"} \union AfterExtension
BY AfterIs DEF AfterPasswords, AfterStart

(* Which task of an installation comes before one.                         *)
LEMMA InstallBefore ==
  ASSUME job.kind = "install", at \in ToSet(Paths["install"]), Applies(job, at), at # "record"
  PROVE  /\ Following \in AfterPort => at \in {"port"} \union AfterPort
         /\ Following \in AfterStart => at \in {"start"} \union AfterStart
         /\ Following \in AfterExtension => at \in {"extension"} \union AfterExtension
         /\ Following \in AfterRole => at \in {"role"} \union AfterRole \/ (at = "tune" /\ job.existing = "none")
         /\ Following \in {"stage"} \union AfterStage =>
              at \in {"kept", "stage"} \union AfterStage \/ (at = "tune" /\ job.existing = "none")
         /\ Following \in AfterStage => at \in {"stage"} \union AfterStage
         /\ Following \in AfterCreate => at \in {"create"} \union AfterCreate
         /\ Following \in AfterPasswords => at \in {"passwords"} \union AfterPasswords
         /\ Following \in AfterSchema => at \in {"schema"} \union AfterSchema
         /\ Following \in AfterRegister => at \in {"register"} \union AfterRegister
         /\ Following \in AfterServe => at \in {"serve"} \union AfterServe
         /\ Following # "manager" /\ (Following = "wsl" <=> at = "manager" /\ job.flavor = "clickhouse")
         /\ Following = "account" <=> at = "wsl"
         /\ Following = "provision" <=> at = "account"
         /\ Following = "history" <=> at = "provision"
         /\ Following = "runtime" <=> at = "history" \/ (at = "manager" /\ job.flavor # "clickhouse")
         /\ Following = "postgres" <=> at = "runtime"
         /\ Following \notin {"manager", "wsl", "account", "provision", "history", "runtime", "postgres"} =>
              at \notin {"manager", "wsl", "account", "provision", "history", "runtime"}
BY TasksAre, AfterIs, AppliesIs, InstallNext, AfterAre

(* A task of an installation hands on what was established before it, with *)
(* what it establishes itself.                                             *)
LEMMA ReachedNext ==
  ASSUME Inv, job.kind = "install", at # "idle", at # "record", NEW p, Settled(p, job), Reached(p, job, at),
         at = "port" => p.cluster.port = job.port,
         at = "start" => p.port = job.port,
         at = "extension" => p.cluster.trust \/ job.super = p.cluster.super,
         at = "tune" => p.cluster # None,
         at = "role" => p.cluster.role \in {0, job.pw},
         at = "create" => p.cluster.role = job.pw /\ p.cluster.dbs[0] # None,
         at = "passwords" => ~p.cluster.trust \/ job.super # p.cluster.super,
         at = "schema" => p.cluster.dbs[0].shape # "missing",
         at = "register" => p.env # None,
         at = "wsl" => p.ch.ready
  PROVE  Reached(p, job, Following)
BY JobKind, InstallBefore DEF Inv, Reached, Settled

(* How the plan goes on, and ends.                                         *)
LEMMA PlanNext ==
  ASSUME Inv, PlanInv, at # "idle", NextTask, setups' = setups, pc'.pending = pc.pending, Together(pc'),
         job.kind = "install" => Settled(pc', job) /\ Reached(pc', job, Following),
         job.kind # "install" => Handed(pc', job, Following)
  PROVE  PlanInv'
<1>1. at' = Following /\ job' = job /\ last' = last /\ at' # "idle"
  BY FollowingIs DEF NextTask, Inv
<1>2. PlansFilled'
  BY <1>1 DEF PlanInv, PlansFilled
<1>3. PendingOK'
  BY <1>1 DEF PlanInv, PendingOK
<1>4. ~Again'
  BY <1>1 DEF Again
<1>5. Together(pc)'
  BY DEF Together
<1>6. (job.kind = "install" => Settled(pc, job) /\ Reached(pc, job, at))'
  BY <1>1 DEF Settled, Reached
<1>7. (at # "idle" /\ job.kind # "install" => Handed(pc, job, at))'
  BY <1>1 DEF Handed
<1> QED BY <1>2, <1>3, <1>4, <1>5, <1>6, <1>7 DEF PlanInv

LEMMA PlanEnd ==
  ASSUME Inv, PlanInv, at # "idle", NEW how, End(how), setups' = setups, pc'.pending = pc.pending, Together(pc'),
         job.kind = "install" => Settled(pc', job)
  PROVE  PlanInv'
BY DEF End, NoJob, PlanInv, PlansFilled, PendingOK, Together, Again, Settled

(* A task that leaves the settings, PostgreSQL's port and its passwords,   *)
(* but for a role that gets the plan's and connections no longer trusted.  *)
Leaves(p, q) ==
  /\ q.env = p.env /\ q.record = p.record /\ q.pending = p.pending
  /\ p.cluster # None => q.cluster # None /\ q.cluster.port = p.cluster.port /\ q.cluster.super = p.cluster.super
  /\ p.ch.ready => q.ch.ready

LEMMA TogetherStays ==
  ASSUME Inv, PlanInv, Leaves(pc, pc'),
         pc'.record # None /\ "wrapper" \in pc'.files => "wrapper" \in pc.files \/ pc.env # None
  PROVE  Together(pc')
BY DEF PlanInv, Together, Leaves, Inv, Services

LEMMA InstallStays ==
  ASSUME Inv, PlanInv, at # "idle", job.kind = "install", Leaves(pc, pc'),
         pc.cluster # None =>
           /\ pc'.cluster.role \in {pc.cluster.role, job.pw}
           /\ pc'.cluster.trust = pc.cluster.trust \/ (~pc'.cluster.trust /\ job.super = pc.cluster.super)
           /\ at \in AfterCreate => pc'.cluster.dbs[0] # None
           /\ at \in AfterSchema => pc'.cluster.dbs[0].shape # "missing",
         pc.cluster = None => pc'.cluster = None \/ (at = "initdb" /\ pc'.cluster.role = 0),
         at \in AfterStart => pc'.port = pc.port
  PROVE  Together(pc') /\ Settled(pc', job) /\ Reached(pc', job, at)
<1>1. Settled(pc, job) /\ Reached(pc, job, at) /\ Together(pc)
  BY DEF PlanInv
<1>2. pc.record # None => pc.env # None
  BY <1>1 DEF Settled
<1>3. Together(pc')
  BY <1>2, TogetherStays DEF Leaves
<1>4. pc.cluster = None => pc.env = None
  BY DEF Inv, Services
<1>5. pc.cluster = None => at \notin AfterPort
  BY AfterIs, ClusteredIs DEF Inv, ClusterOK
<1>6. Settled(pc', job)
  BY <1>1, <1>4 DEF Settled, Leaves
<1>7. /\ AfterStart \subseteq AfterPort /\ AfterExtension \subseteq AfterPort /\ AfterRole \subseteq AfterPort
      /\ AfterCreate \subseteq AfterPort /\ AfterPasswords \subseteq AfterPort /\ AfterSchema \subseteq AfterPort
      /\ AfterPasswords \subseteq AfterCreate /\ AfterSchema \subseteq AfterCreate
  BY AfterIs, AfterAre
<1>8. Reached(pc', job, at)
  BY <1>1, <1>5, <1>7 DEF Reached, Leaves, AfterRegister, AfterPort, AfterExtension, AfterRole,
     AfterStage, AfterCreate, AfterSchema
<1> QED BY <1>3, <1>6, <1>8

LEMMA ChangeStays ==
  ASSUME Inv, PlanInv, at # "idle", job.kind # "install", Leaves(pc, pc'),
         "wrapper" \in pc'.files => "wrapper" \in pc.files,
         pc'.saved = pc.saved
  PROVE  Together(pc') /\ (NextTask => Handed(pc', job, Following))
BY TogetherStays, Lasts, JobKind, OwnTasks DEF PlanInv, NextTask, Inv, Handed, Leaves

LEMMA SameLeaves ==
  ASSUME NEW p, NEW q, SameData(p, q), SameNotes(p, q)
  PROVE  Leaves(p, q)
BY DEF SameData, SameNotes, Leaves

LEMMA FilesPlan ==
  ASSUME Inv, PlanInv, InstallManager \/ InstallRuntime \/ InstallPostgres \/ Stage \/ WriteEnv \/ MakeShortcuts
  PROVE  PlanInv'
<1>1. /\ at \in {"manager", "runtime", "postgres", "stage", "env", "shortcuts"} /\ Rest
      /\ SameServer(pc, pc') /\ SameNotes(pc, pc') /\ SameData(pc, pc')
      /\ NextTask \/ \E how : End(how)
      /\ job.kind # "install" /\ "wrapper" \in pc'.files => "wrapper" \in pc.files
  BY OwnTasks, FileTasksAre DEF Inv
<1>2. at # "idle" /\ at # "record" /\ setups' = setups /\ pc'.pending = pc.pending
  BY <1>1 DEF Rest, SameNotes
<1>3. Leaves(pc, pc') /\ pc'.cluster = pc.cluster /\ pc'.port = pc.port /\ pc'.saved = pc.saved
  BY <1>1, SameLeaves DEF SameData, SameServer, SameNotes
<1>4. CASE job.kind = "install"
  <2>0. Reached(pc, job, at)
    BY <1>4 DEF PlanInv
  <2>1. AfterSchema \subseteq AfterCreate
    BY AfterIs
  <2>2. Together(pc') /\ Settled(pc', job) /\ Reached(pc', job, at)
    BY <1>2, <1>3, <1>4, <2>0, <2>1, InstallStays DEF Reached
  <2>3. Reached(pc', job, Following)
    BY <1>1, <1>2, <1>4, <2>2, ReachedNext
  <2> QED BY <1>1, <1>2, <1>4, <2>2, <2>3, PlanNext, PlanEnd
<1>5. CASE job.kind # "install"
  BY <1>1, <1>2, <1>3, <1>5, ChangeStays, PlanNext, PlanEnd
<1> QED BY <1>4, <1>5

LEMMA ClickhousePlan ==
  ASSUME Inv, PlanInv, EnableWsl \/ MakeAccount \/ Provision \/ SetAsideHistory
  PROVE  PlanInv'
<1>1. /\ at \in {"wsl", "account", "provision", "history"} /\ Rest
      /\ pc'.cluster = pc.cluster /\ SameServer(pc, pc') /\ SameFiles(pc, pc')
      /\ pc'.env = pc.env /\ pc'.saved = pc.saved /\ pc'.record = pc.record
      /\ pc.ch.ready => pc'.ch.ready
      /\ \/ NextTask /\ pc'.pending = pc.pending /\ (at = "wsl" => pc'.ch.ready)
         \/ at = "wsl" /\ ~pc.ch.ready /\ pc'.pending = job /\ End("restart")
         \/ pc'.pending = pc.pending /\ End("stuck")
  BY ClickhouseTasksAre
<1>2. at # "idle" /\ at # "record" /\ setups' = setups /\ job.kind = "install" /\ job \in Job
  BY <1>1, OwnTasks, JobKind DEF Rest, Inv
<1>3. Settled(pc, job) /\ Reached(pc, job, at) /\ Together(pc)
  BY <1>2 DEF PlanInv
<1>4. at \notin AfterPort /\ at \notin AfterCreate /\ at \notin AfterSchema /\ at \notin AfterStart
  BY <1>1, AfterIs, AfterAre
<1>5. CASE pc'.pending = pc.pending
  <2>1. Leaves(pc, pc')
    BY <1>1, <1>5 DEF Leaves
  <2>2. Together(pc') /\ Settled(pc', job) /\ Reached(pc', job, at)
    BY <1>1, <1>2, <1>4, <2>1, InstallStays
  <2>3. NextTask => Reached(pc', job, Following)
    <3>1. NextTask => (at = "wsl" => pc'.ch.ready)
      BY <1>1, <1>2, FollowingIs DEF NextTask, Inv, End
    <3> QED BY <1>1, <1>2, <2>2, <3>1, ReachedNext
  <2> QED BY <1>1, <1>2, <1>5, <2>2, <2>3, PlanNext, PlanEnd
<1>6. CASE at = "wsl" /\ ~pc.ch.ready /\ pc'.pending = job /\ End("restart")
  <2>1. pc.env = None /\ pc.record = None
    BY <1>2, <1>3, <1>6, JobKind, AppliesIs DEF Inv, Settled, Together, Settings
  <2>2. at' = "idle" /\ job'.kind # "install" /\ last'.plan = job /\ last'.end = "restart"
    BY <1>6 DEF End, NoJob
  <2>3. PlansFilled'
    BY <1>2, <1>6, <2>2 DEF PlanInv, PlansFilled
  <2>4. Settled(pc', job)
    BY <1>1, <1>3 DEF Settled
  <2>5. PendingOK'
    BY <1>1, <1>2, <1>6, <2>1, <2>2, <2>4 DEF Inv, JobOK, PendingOK, Settled
  <2>6. Together(pc)' /\ ~Again'
    BY <1>1, <2>1, <2>2 DEF Together, Again
  <2> QED BY <2>2, <2>3, <2>5, <2>6 DEF PlanInv
<1> QED BY <1>1, <1>5, <1>6

LEMMA InitDbPlan ==
  ASSUME Inv, PlanInv, InitDb
  PROVE  PlanInv'
BY InitDbIs, AfterIs, AfterAre, InstallStays, ReachedNext, PlanNext DEF Rest, Leaves, SameNotes

LEMMA SetPortPlan ==
  ASSUME Inv, PlanInv, SetPort
  PROVE  PlanInv'
<1>1. /\ at = "port" /\ job.kind = "install" /\ job \in Job /\ Rest /\ pc.cluster # None /\ pc'.cluster # None
      /\ at' = "timescale" /\ last' = last
      /\ job' = [job EXCEPT !.moved = pc.cluster.port # job.port]
      /\ SameNotes(pc, pc') /\ pc'.ch = pc.ch /\ pc'.files = pc.files
      /\ pc'.cluster.port = job.port /\ pc'.cluster.super = pc.cluster.super /\ pc'.cluster.trust = pc.cluster.trust
      /\ pc'.cluster.role = pc.cluster.role
  BY SetPortIs DEF SameFiles
<1>2. /\ job'.kind = "install" /\ job'.pw = job.pw /\ job'.super = job.super /\ job'.port = job.port
      /\ job'.flavor = job.flavor /\ job'.existing = job.existing
  BY <1>1 DEF Job
<1>3. Settled(pc, job) /\ Reached(pc, job, at) /\ Together(pc)
  BY <1>1 DEF PlanInv
<1>4. pc'.env = pc.env /\ pc'.record = pc.record /\ pc'.pending = pc.pending /\ setups' = setups
  BY <1>1 DEF SameNotes, Rest
<1>5. Settled(pc', job')
  BY <1>1, <1>2, <1>3, <1>4 DEF Settled, Settings
<1>6. Together(pc)'
  BY <1>1, <1>3, <1>4 DEF Together, Settled, Settings
<1>7. Reached(pc', job', "timescale")
  BY <1>1, <1>2, <1>3, AfterIs, AfterAre DEF Reached
<1>8. PlansFilled'
  BY <1>1, <1>2, <1>4 DEF PlanInv, PlansFilled, Filled
<1>9. PendingOK'
  BY <1>1, <1>2, <1>4 DEF PlanInv, PendingOK
<1>10. (job.kind = "install" => Settled(pc, job) /\ Reached(pc, job, at))'
  BY <1>1, <1>5, <1>7 DEF Settled, Reached
<1>11. ~Again' /\ at' # "idle"
  BY <1>1 DEF Again
<1> QED BY <1>2, <1>6, <1>8, <1>9, <1>10, <1>11 DEF PlanInv

(* A task that leaves the rest, and establishes what comes after it.       *)
LEMMA TaskPlan ==
  ASSUME Inv, PlanInv, at # "idle", at # "record", Leaves(pc, pc'), setups' = setups,
         NextTask \/ \E how : End(how),
         job.kind # "install" => pc'.saved = pc.saved /\ ("wrapper" \in pc'.files => "wrapper" \in pc.files),
         pc.cluster # None,
         job.kind = "install" =>
           /\ pc'.cluster.role \in {pc.cluster.role, job.pw}
           /\ pc'.cluster.trust = pc.cluster.trust \/ (~pc'.cluster.trust /\ job.super = pc.cluster.super)
           /\ at \in AfterCreate => pc'.cluster.dbs[0] # None
           /\ at \in AfterSchema => pc'.cluster.dbs[0].shape # "missing"
           /\ at \in AfterStart => pc'.port = pc.port,
         job.kind = "install" /\ NextTask =>
           /\ at \notin {"port", "register", "wsl"}
           /\ at = "start" => pc'.port = job.port
           /\ at = "extension" => pc'.cluster.trust \/ job.super = pc'.cluster.super
           /\ at = "role" => pc'.cluster.role \in {0, job.pw}
           /\ at = "create" => pc'.cluster.role = job.pw /\ pc'.cluster.dbs[0] # None
           /\ at = "passwords" => ~pc'.cluster.trust \/ job.super # pc'.cluster.super
           /\ at = "schema" => pc'.cluster.dbs[0].shape # "missing"
  PROVE  PlanInv'
<1>1. pc'.pending = pc.pending /\ pc'.cluster # None
  BY DEF Leaves
<1>2. CASE job.kind = "install"
  BY <1>1, <1>2, InstallStays, ReachedNext, PlanNext, PlanEnd
<1>3. CASE job.kind # "install"
  BY <1>1, <1>3, ChangeStays, PlanNext, PlanEnd
<1> QED BY <1>2, <1>3

(* What a task of an installation may use of the tasks before it.          *)
LEMMA ReachedIs ==
  ASSUME Inv, PlanInv, job.kind = "install"
  PROVE  /\ at \in AfterPort => pc.cluster # None /\ pc.cluster.port = job.port
         /\ at \in AfterStart => pc.port = job.port
         /\ at \in AfterExtension => Sql
         /\ at \in AfterRole => pc.cluster.role \in {0, job.pw}
         /\ at \in AfterCreate => pc.cluster.role = job.pw /\ pc.cluster.dbs[0] # None
         /\ at \in AfterPasswords => ~pc.cluster.trust \/ job.super # pc.cluster.super
         /\ at \in AfterSchema => pc.cluster.dbs[0].shape # "missing"
         /\ at \in AfterRegister => pc.env # None
BY AfterIs, ClusteredIs, AfterAre DEF PlanInv, Inv, ClusterOK, Reached, Sql, SignsIn

LEMMA InstallTimescalePlan ==
  ASSUME Inv, PlanInv, InstallTimescale
  PROVE  PlanInv'
<1>1. /\ at = "timescale" /\ job.kind = "install" /\ Rest /\ pc.cluster # None
      /\ SameData(pc, pc') /\ SameServer(pc, pc') /\ SameNotes(pc, pc')
      /\ \/ at' = "service" /\ job' = job /\ last' = last
         \/ at' = "preload" /\ job' = job /\ last' = last
         \/ End("stuck")
  BY InstallTimescaleIs
<1>2. Leaves(pc, pc') /\ pc'.pending = pc.pending /\ setups' = setups /\ pc'.cluster = pc.cluster /\ pc'.port = pc.port
  BY <1>1, SameLeaves DEF SameNotes, Rest, SameData, SameServer
<1>3. at \notin AfterCreate /\ at \notin AfterSchema /\ at \notin AfterStart /\ at # "idle"
  BY <1>1, AfterIs, AfterAre
<1>4. Together(pc') /\ Settled(pc', job) /\ Reached(pc', job, at)
  BY <1>1, <1>2, <1>3, InstallStays
<1>5. CASE End("stuck")
  BY <1>1, <1>2, <1>3, <1>4, <1>5, PlanEnd
<1>6. CASE at' \in {"service", "preload"} /\ job' = job /\ last' = last
  <2>1. Reached(pc', job, at')
    BY <1>1, <1>4, <1>6, AfterIs, AfterAre DEF Reached
  <2>2. PlansFilled'
    BY <1>2, <1>6 DEF PlanInv, PlansFilled
  <2>3. PendingOK'
    BY <1>1, <1>2, <1>6 DEF PlanInv, PendingOK
  <2>4. (job.kind = "install" => Settled(pc, job) /\ Reached(pc, job, at))'
    BY <1>4, <1>6, <2>1 DEF Settled, Reached
  <2>5. Together(pc)' /\ ~Again' /\ at' # "idle"
    BY <1>4, <1>6 DEF Together, Again
  <2> QED BY <1>1, <1>6, <2>2, <2>3, <2>4, <2>5 DEF PlanInv
<1> QED BY <1>1, <1>5, <1>6

LEMMA ServerPlan ==
  ASSUME Inv, PlanInv, Preload \/ RegisterPostgres \/ StartPostgres \/ EnableTimescale \/ Tune
  PROVE  PlanInv'
<1>1. CASE Preload
  BY <1>1, PreloadIs, AfterIs, AfterAre, TaskPlan DEF Leaves, SameNotes, Rest
<1>2. CASE RegisterPostgres
  BY <1>2, RegisterPostgresIs, SameLeaves, AfterIs, AfterAre, TaskPlan DEF SameData, Rest
<1>3. CASE StartPostgres
  BY <1>3, StartPostgresIs, SameLeaves, AfterIs, AfterAre, FollowingIs, TaskPlan DEF SameData,
     Rest, NextTask, End, Inv
<1>4. CASE EnableTimescale
  BY <1>4, EnableTimescaleIs, SameIs, SameLeaves, AfterIs, AfterAre, FollowingIs,
     TaskPlan DEF Rest, NextTask, End, Inv, Sql, SignsIn
<1>5. CASE Tune
  <2>1. /\ at = "tune" /\ job.kind \in {"install", "reconfigure"} /\ Rest
        /\ SameFiles(pc, pc') /\ SameData(pc, pc') /\ SameNotes(pc, pc')
        /\ \/ NextTask /\ Sql /\ pc.cluster # None /\ pc'.port = Started(Stopped(pc.port))
           \/ End("refused") /\ pc' = pc
    BY <1>5, TuneIs
  <2>2. Leaves(pc, pc') /\ setups' = setups /\ pc'.cluster = pc.cluster /\ pc'.pending = pc.pending /\ pc'.saved = pc.saved
        /\ pc'.files = pc.files
    BY <2>1, SameLeaves DEF SameData, Rest, SameNotes, SameFiles
  <2>3. at \notin AfterCreate /\ at \notin AfterSchema
    BY <2>1, AfterIs, AfterAre
  <2>4. CASE job.kind = "install"
    BY <2>1, <2>2, <2>3, <2>4, ReachedIs, AfterIs, AfterAre, TaskPlan DEF Started, Stopped
  <2>5. CASE job.kind # "install"
    BY <2>1, <2>2, <2>5, ChangeStays, PlanNext, PlanEnd
  <2> QED BY <2>4, <2>5
<1> QED BY <1>1, <1>2, <1>3, <1>4, <1>5

LEMMA KeptPlan ==
  ASSUME Inv, PlanInv, SyncRolePassword \/ PrepareExisting
  PROVE  PlanInv'
<1>1. /\ at \in {"role", "kept"} /\ job.kind = "install" /\ Rest /\ pc.cluster # None /\ pc'.cluster # None
      /\ SameServer(pc, pc') /\ SameNotes(pc, pc') /\ pc'.ch = pc.ch
      /\ pc'.cluster.port = pc.cluster.port /\ pc'.cluster.super = pc.cluster.super
      /\ pc'.cluster.trust = pc.cluster.trust
      /\ NextTask \/ \E how : End(how)
  BY SyncRolePasswordIs, PrepareExistingIs
<1>2. /\ pc'.cluster.role \in {pc.cluster.role, job.pw}
      /\ NextTask => (at = "role" => pc'.cluster.role \in {0, job.pw})
  <2>1. CASE SyncRolePassword
    BY <1>1, <2>1, SyncRolePasswordIs, FollowingIs DEF NextTask, End, Inv
  <2>2. CASE PrepareExisting
    BY <2>2, PrepareExistingIs
  <2> QED BY <2>1, <2>2
<1>3. Leaves(pc, pc') /\ setups' = setups /\ pc'.port = pc.port
  BY <1>1 DEF Leaves, SameNotes, SameServer, Rest
<1>4. at \notin AfterCreate /\ at \notin AfterSchema
  BY <1>1, AfterIs, AfterAre
<1> QED BY <1>1, <1>2, <1>3, <1>4, TaskPlan

LEMMA CreatePlan ==
  ASSUME Inv, PlanInv, Create
  PROVE  PlanInv'
<1>1. /\ at = "create" /\ job.kind \in {"install", "repair"} /\ Rest /\ pc.cluster # None /\ pc'.cluster # None
      /\ SameFiles(pc, pc') /\ SameServer(pc, pc') /\ SameNotes(pc, pc')
      /\ pc'.ch.ready = pc.ch.ready
      /\ pc'.cluster.port = pc.cluster.port /\ pc'.cluster.super = pc.cluster.super
      /\ pc'.cluster.trust = pc.cluster.trust
      /\ \/ NextTask /\ Sql /\ pc'.cluster.role = (IF pc.cluster.role = 0 THEN job.pw ELSE pc.cluster.role)
            /\ pc'.cluster.dbs[0] # None
         \/ NextTask /\ ~Sql /\ pc' = pc
         \/ End("refused") /\ pc' = pc
  BY NoneAssumption, CreateIs
<1>2. Leaves(pc, pc') /\ setups' = setups /\ pc'.port = pc.port /\ pc'.saved = pc.saved /\ pc'.files = pc.files
  BY <1>1 DEF Leaves, SameNotes, SameServer, SameFiles, Rest
<1>3. at \notin AfterCreate /\ at \notin AfterSchema
  BY <1>1, AfterIs, AfterAre
<1>4. CASE job.kind = "install"
  <2>1. Sql /\ pc.cluster.role \in {0, job.pw}
    BY <1>1, <1>4, ReachedIs, AfterIs
  <2>2. NextTask => pc'.cluster.role = job.pw /\ pc'.cluster.dbs[0] # None
    BY <1>1, <2>1, FollowingIs DEF NextTask, End, Inv
  <2>3. pc'.cluster.role \in {pc.cluster.role, job.pw}
    BY <1>1
  <2> QED BY <1>1, <1>2, <1>3, <1>4, <2>2, <2>3, TaskPlan
<1>5. CASE job.kind # "install"
  BY <1>1, <1>2, <1>3, <1>5, TaskPlan
<1> QED BY <1>4, <1>5

LEMMA RequirePasswordsPlan ==
  ASSUME Inv, PlanInv, RequirePasswords
  PROVE  PlanInv'
<1>1. /\ at = "passwords" /\ job.kind \in {"install", "repair"} /\ NextTask /\ Rest
      /\ pc.cluster # None /\ pc'.cluster # None
      /\ SameFiles(pc, pc') /\ SameServer(pc, pc') /\ SameNotes(pc, pc') /\ pc'.ch = pc.ch
      /\ pc'.cluster.port = pc.cluster.port /\ pc'.cluster.super = pc.cluster.super
      /\ pc'.cluster.role = pc.cluster.role /\ pc'.cluster.dbs = pc.cluster.dbs
      /\ IF Sql /\ job.super = pc.cluster.super THEN ~pc'.cluster.trust ELSE pc'.cluster.trust = pc.cluster.trust
  BY RequirePasswordsIs
<1>2. Leaves(pc, pc') /\ setups' = setups /\ pc'.port = pc.port /\ pc'.saved = pc.saved /\ pc'.files = pc.files
  BY <1>1 DEF Leaves, SameNotes, SameServer, SameFiles, Rest
<1>3. at \in AfterCreate /\ at \notin AfterSchema /\ at \in AfterExtension
  BY <1>1, AfterIs, AfterAre
<1>4. CASE job.kind = "install"
  BY <1>1, <1>2, <1>3, <1>4, ReachedIs, TaskPlan
<1>5. CASE job.kind # "install"
  BY <1>1, <1>2, <1>3, <1>5, TaskPlan
<1> QED BY <1>4, <1>5

LEMMA InstalledShape ==
  ASSUME NEW d \in Databases(Name)
  PROVE  /\ Installed(d) \in Databases(Name) /\ Installed(d) # None /\ Installed(d).shape # "missing"
         /\ Installed(d).of = d.of
         /\ d.shape # "missing" => Installed(d) = d
         /\ d.shape = "missing" =>
              /\ Installed(d).shape = IF job.flavor = "timescaledb" THEN "hypertable" ELSE "plain"
              /\ Installed(d).admin = "default"
BY NoneAssumption DEF Installed, WithSchema, Databases

LEMMA SchemaPlan ==
  ASSUME Inv, PlanInv, InstallSchema
  PROVE  PlanInv'
<1>1. /\ at = "schema" /\ job.kind \in {"install", "repair"} /\ Rest /\ pc.cluster # None /\ pc'.cluster # None
      /\ SameFiles(pc, pc') /\ SameServer(pc, pc') /\ SameNotes(pc, pc')
      /\ pc'.ch.ready = pc.ch.ready
      /\ pc'.cluster.port = pc.cluster.port /\ pc'.cluster.super = pc.cluster.super
      /\ pc'.cluster.trust = pc.cluster.trust /\ pc'.cluster.role = pc.cluster.role
      /\ \/ /\ NextTask /\ pc.cluster.dbs[0] \in Databases(Name)
            /\ pc'.cluster.dbs[0] = Installed(pc.cluster.dbs[0])
         \/ NextTask /\ ~AppSignsIn /\ pc' = pc
         \/ End("stuck") /\ pc' = pc
  BY InstallSchemaIs
<1>2. Leaves(pc, pc') /\ setups' = setups /\ pc'.port = pc.port /\ pc'.saved = pc.saved /\ pc'.files = pc.files
  BY <1>1 DEF Leaves, SameNotes, SameServer, SameFiles, Rest
<1>3. at \in AfterCreate /\ at \notin AfterSchema /\ at \in AfterStart
  BY <1>1, AfterIs, AfterAre
<1>4. CASE job.kind = "install"
  <2>1. pc.port = job.port /\ pc.cluster.role = job.pw /\ pc.cluster.dbs[0] # None
    BY <1>3, <1>4, ReachedIs
  <2>2. AppSignsIn
    BY <1>1, <2>1 DEF AppSignsIn, Database
  <2>3. pc'.cluster.dbs[0] # None
    BY <1>1, <2>1, InstalledShape
  <2>4. NextTask => pc'.cluster.dbs[0].shape # "missing"
    BY <1>1, <2>2, FollowingIs, InstalledShape DEF NextTask, End, Inv
  <2> QED BY <1>1, <1>2, <1>3, <1>4, <2>3, <2>4, TaskPlan
<1>5. CASE job.kind # "install"
  BY <1>1, <1>2, <1>3, <1>5, TaskPlan
<1> QED BY <1>4, <1>5

LEMMA InDatabasePlan ==
  ASSUME Inv, PlanInv, Partition \/ SetAdmin
  PROVE  PlanInv'
<1>1. /\ at \in {"partition", "admin"} /\ Rest /\ pc.cluster # None /\ pc'.cluster # None
      /\ SameFiles(pc, pc') /\ SameServer(pc, pc') /\ SameNotes(pc, pc')
      /\ pc'.ch.ready = pc.ch.ready
      /\ pc'.cluster.port = pc.cluster.port /\ pc'.cluster.super = pc.cluster.super
      /\ pc'.cluster.trust = pc.cluster.trust /\ pc'.cluster.role = pc.cluster.role
      /\ \/ /\ NextTask /\ pc'.cluster.dbs[0] # None
            /\ pc.cluster.dbs[0].shape # "missing" => pc'.cluster.dbs[0].shape # "missing"
         \/ End("refused") /\ pc' = pc
  <2> DEFINE part == IF pc.cluster.dbs[0].shape = "plain" THEN [pc.cluster.dbs[0] EXCEPT !.shape = "partitioned"]
                     ELSE pc.cluster.dbs[0]
  <2>1. \A d \in Databases(Name) :
          /\ d # None /\ WithAdministrator(d) # None /\ WithAdministrator(d).shape = d.shape
          /\ d.shape = "plain" => [d EXCEPT !.shape = "partitioned"] # None
          /\ [d EXCEPT !.shape = "partitioned"].shape # "missing"
    BY NoneAssumption DEF WithAdministrator, Databases
  <2>2. CASE Partition
    BY <2>1, <2>2, PartitionIs DEF InDatabase
  <2>3. CASE SetAdmin
    BY <2>1, <2>3, SetAdminIs DEF InDatabase
  <2> QED BY <2>2, <2>3
<1>2. Leaves(pc, pc') /\ setups' = setups /\ pc'.port = pc.port /\ pc'.saved = pc.saved /\ pc'.files = pc.files
  BY <1>1 DEF Leaves, SameNotes, SameServer, SameFiles, Rest
<1>3. at \in AfterCreate /\ at \in AfterSchema
  BY <1>1, AfterIs, AfterAre
<1>4. CASE job.kind = "install"
  BY <1>1, <1>2, <1>3, <1>4, ReachedIs, TaskPlan
<1>5. CASE job.kind # "install"
  BY <1>1, <1>2, <1>3, <1>5, TaskPlan
<1> QED BY <1>4, <1>5

(* The settings written are the plan's, which are the record's.            *)
LEMMA RegisterPlan ==
  ASSUME Inv, PlanInv, Register
  PROVE  PlanInv'
<1>1. /\ at = "register" /\ job.kind \in {"install", "repair", "reconfigure"} /\ Rest /\ pc.cluster # None
      /\ SameFiles(pc, pc') /\ SameServer(pc, pc') /\ SameData(pc, pc')
      /\ pc'.saved = pc.saved /\ pc'.record = pc.record /\ pc'.pending = pc.pending
      /\ \/ NextTask /\ "wrapper" \in pc.files /\ pc'.env = Settings(job) /\ pc'.env # None
         \/ End("stuck") /\ pc' = pc
  BY RegisterIs
<1>2. at # "idle" /\ at # "record" /\ setups' = setups /\ pc'.cluster = pc.cluster /\ pc'.ch = pc.ch /\ pc'.port = pc.port
  BY <1>1 DEF SameServer, SameData, Rest
<1>3. CASE pc' = pc /\ End("stuck")
  BY <1>1, <1>2, <1>3, PlanEnd DEF PlanInv
<1>4. CASE NextTask /\ "wrapper" \in pc.files /\ pc'.env = Settings(job) /\ pc'.env # None
  <2>1. /\ pc'.env.pw = job.pw /\ pc'.env.flavor = job.flavor /\ pc'.env.port = job.port
        /\ Recorded(pc'.env) = Recorded(job)
    BY <1>4 DEF Settings, Recorded
  <2>2. Together(pc)
    BY DEF PlanInv
  <2>3. CASE job.kind = "install"
    <3>1. Settled(pc, job) /\ Reached(pc, job, at) /\ Filled(job)
      BY <2>3 DEF PlanInv, PlansFilled
    <3>2. at \in AfterPasswords /\ at \in AfterPort /\ at \notin {"manager", "wsl"}
      BY <1>1, AfterIs, AfterAre
    <3>3. Settled(pc', job)
      BY <1>1, <1>2, <1>4, <3>1, <3>2 DEF Settled, Reached
    <3>4. pc.record # None => pc'.record = Recorded(pc'.env)
      BY <1>1, <1>4, <2>1, <2>2, <3>1 DEF Settled, Together
    <3>5. Together(pc')
      BY <1>1, <1>2, <1>4, <2>1, <3>1, <3>2, <3>4 DEF Together, Reached, Filled
    <3>6. Reached(pc', job, at)
      BY <1>1, <1>2, <1>4, <3>1 DEF Reached
    <3>7. Reached(pc', job, Following)
      BY <1>1, <1>2, <1>4, <2>3, <3>3, <3>6, ReachedNext
    <3> QED BY <1>1, <1>2, <1>4, <2>3, <3>3, <3>5, <3>7, PlanNext
  <2>4. CASE job.kind # "install"
    <3>1. Handed(pc, job, at) /\ job.pw # 0
      BY <1>1, <2>4 DEF PlanInv, Handed
    <3>2. pc.env # None /\ pc.record = Recorded(pc.env)
      BY <1>4, <2>2, <3>1 DEF Handed, Together
    <3>3. pc.env.flavor = job.flavor /\ pc.env.port = job.port /\ pc.record = Recorded(job)
      BY <3>1, <3>2 DEF Recorded, Handed
    <3>4. Together(pc')
      BY <1>1, <1>2, <1>4, <2>1, <2>2, <3>1, <3>2, <3>3 DEF Together
    <3>6. Handed(pc', job, Following)
      BY <1>1, <3>1 DEF Handed
    <3> QED BY <1>1, <1>2, <1>4, <2>4, <3>4, <3>6, PlanNext
  <2> QED BY <2>3, <2>4
<1> QED BY <1>1, <1>3, <1>4

LEMMA ServePlan ==
  ASSUME Inv, PlanInv, Serve
  PROVE  PlanInv'
<1>1. /\ at = "serve" /\ job.kind \in {"install", "repair", "reconfigure"} /\ pc.cluster # None
      /\ UNCHANGED <<setups, changes, faults>>
      /\ SameFiles(pc, pc') /\ SameData(pc, pc') /\ SameNotes(pc, pc') /\ pc'.port = pc.port
      /\ \/ IF job.kind = "install" THEN at' = "admin" /\ job' = job /\ last' = last ELSE End("done")
         \/ End("stuck")
         \/ End("refused")
  BY ServeIs
<1>2. NextTask \/ \E how : End(how)
  <2>1. job.kind = "install" => Following = "admin" /\ Last(Paths[job.kind]) = "record"
    BY <1>1, JobKind, InstallNext, Lasts DEF Inv
  <2> QED BY <1>1, <2>1 DEF NextTask
<1>3. Leaves(pc, pc') /\ setups' = setups /\ pc'.saved = pc.saved /\ pc'.files = pc.files /\ pc'.cluster = pc.cluster
  BY <1>1, SameLeaves DEF SameNotes, SameData, SameFiles
<1>4. job.kind = "install" => (at \in AfterCreate => pc.cluster.dbs[0] # None)
                           /\ (at \in AfterSchema => pc.cluster.dbs[0].shape # "missing")
  BY ReachedIs
<1> QED BY <1>1, <1>2, <1>3, <1>4, TaskPlan

LEMMA FinishPlan ==
  ASSUME Inv, PlanInv, SaveSecrets \/ SecretsUnsaved
  PROVE  PlanInv'
BY SaveSecretsIs, ReachedIs, TaskPlan DEF Leaves, SameData

LEMMA SaveRecordPlan ==
  ASSUME Inv, PlanInv, SaveRecord
  PROVE  PlanInv'
BY SaveRecordIs, ReachedIs, AfterIs, PlanEnd DEF SameData, Rest, PlanInv, Settled, Settings,
   Recorded, Together

LEMMA RemovalPlan ==
  ASSUME Inv, PlanInv, StopServer \/ RemovePlatform \/ Release \/ Clean \/ Forget
  PROVE  PlanInv'
<1>1. Together(pc) /\ (at # "idle" /\ job.kind # "install" => Handed(pc, job, at))
  BY DEF PlanInv
<1>2. CASE StopServer \/ RemovePlatform \/ Release
  BY <1>1, <1>2, RemovalTasksAre, PlanNext DEF SameData, Rest, Together, StopServer,
     RemovePlatform, Release, Handed
<1>3. CASE Clean \/ Forget
  BY <1>1, <1>3, DeletionTasksAre, JobKind, OtherNext, PlanNext DEF Together, Inv, NextTask,
     Handed
<1> QED BY <1>2, <1>3

LEMMA RemoveRecordPlan ==
  ASSUME Inv, PlanInv, RemoveRecord
  PROVE  PlanInv'
BY RemoveRecordIs, PlanEnd DEF Rest, Together

LEMMA FailPlan ==
  ASSUME Inv, PlanInv, Fail
  PROVE  PlanInv'
<1>1. /\ at # "idle" /\ End("failed") /\ setups' = setups
      /\ SameData(pc, pc') /\ SameNotes(pc, pc')
      /\ "wrapper" \in pc'.files => "wrapper" \in pc.files
  BY TornIs, FailIs
<1>2. Together(pc) /\ (job.kind = "install" => Settled(pc, job))
  BY DEF PlanInv
<1>3. pc'.cluster = pc.cluster /\ pc'.ch = pc.ch /\ pc'.env = pc.env /\ pc'.record = pc.record /\ pc'.pending = pc.pending
  BY <1>1 DEF SameData, SameNotes
<1>4. Together(pc') /\ (job.kind = "install" => Settled(pc', job))
  BY <1>1, <1>2, <1>3 DEF Together, Settled
<1> QED BY <1>1, <1>3, <1>4, PlanEnd

(* A setup begins, with a plan that is right for what is there.            *)
LEMMA PlanBegins ==
  ASSUME Inv, PlanInv, NEW new, Begin(new), new.kind = "install", setups' = setups + 1,
         pc'.pending \in {pc.pending, None}, last' = last, Together(pc'), Settled(pc', new), Filled(new)
  PROVE  PlanInv'
<1>1. at' = "manager" /\ job' = new
  BY Firsts DEF Begin
<1>2. PlansFilled'
  BY <1>1 DEF PlanInv, PlansFilled
<1>3. PendingOK'
  BY <1>1 DEF PlanInv, PendingOK, Inv, Computer, Job, Name, JobOK
<1>4. Reached(pc', new, "manager")
  BY AfterIs, AfterAre DEF Reached
<1>5. (Together(pc) /\ Settled(pc, job) /\ Reached(pc, job, at))' /\ ~Again' /\ job'.kind = "install"
  BY <1>1, <1>4 DEF Together, Settled, Reached, Again
<1> QED BY <1>2, <1>3, <1>5 DEF PlanInv

LEMMA InstallPlan ==
  ASSUME Inv, PlanInv, NEW c \in Plans, Install(c)
  PROVE  PlanInv'
<1> DEFINE new == PlanOf(c)
<1>1. /\ pc.record = None /\ pc.env = None /\ pc' = pc /\ setups' = setups + 1 /\ last' = last /\ Begin(new)
      /\ c.existing = "none" => pc.cluster = None
  BY DEF Install, CanInstall, Offers, StartInstall, NoEnv
<1>2. /\ new.kind = "install" /\ new.pw = c.pw /\ new.super = c.super /\ new.port = c.port
      /\ new.existing = c.existing
  BY DEF PlanOf
<1>3. Filled(new)
  BY <1>2, SetupAssumption DEF Filled
<1>4. Settled(pc, new)
  BY <1>1, <1>2 DEF Settled
<1>5. Together(pc)
  BY DEF PlanInv
<1> HIDE DEF new
<1> QED BY <1>1, <1>2, <1>3, <1>4, <1>5, PlanBegins

LEMMA RetryPlan ==
  ASSUME Inv, PlanInv, Retry
  PROVE  PlanInv'
<1> DEFINE new == [last.plan EXCEPT !.n = setups + 1, !.moved = FALSE, !.before = Database]
<1>1. /\ Again /\ pc' = pc /\ setups' = setups + 1 /\ last' = last /\ Begin(new)
  BY DEF Retry, StartInstall, Again
<1>2. last.plan \in Job /\ last.plan.kind = "install"
  BY <1>1 DEF Again, Inv, JobOK, NoJob
<1>3. /\ new.kind = "install" /\ new.pw = last.plan.pw /\ new.super = last.plan.super /\ new.port = last.plan.port
      /\ new.existing = last.plan.existing /\ new.flavor = last.plan.flavor
  BY <1>2 DEF Job
<1>4. Settled(pc, last.plan) /\ Filled(last.plan) /\ Together(pc)
  BY <1>1, <1>2 DEF PlanInv, PlansFilled
<1> HIDE DEF new
<1>5. Settled(pc, new) /\ Filled(new)
  BY <1>3, <1>4 DEF Settled, Filled, Settings
<1> QED BY <1>1, <1>3, <1>4, <1>5, PlanBegins

LEMMA ResumePlan ==
  ASSUME ~LateResume, Inv, PlanInv, Resume
  PROVE  PlanInv'
<1> DEFINE new == TakePending
<1>1. pc.pending # None /\ pc.pending.n = setups /\ last' = last /\ setups' = setups + 1 /\ Begin(new)
  BY DEF Resume, StartInstall
<1>2. pc.pending \in Job /\ pc.pending.kind = "install"
  BY ResumeIs
<1>3. /\ new.kind = "install" /\ new.pw = pc.pending.pw /\ new.super = pc.pending.super /\ new.port = pc.pending.port
      /\ new.existing = pc.pending.existing /\ new.flavor = pc.pending.flavor
  BY <1>2 DEF Job, TakePending
<1>4. Settled(pc, pc.pending) /\ Filled(pc.pending) /\ pc.env = None /\ pc.record = None
  BY <1>1 DEF PlanInv, PlansFilled, PendingOK
<1>5. pc'.cluster = pc.cluster /\ pc'.env = None /\ pc'.record = None /\ pc'.pending = None
  <2> DEFINE q == Booted(pc)
  <2>1. q \in Computer /\ q.cluster = pc.cluster /\ q.env = None /\ q.record = None
    BY <1>4, BootedIs DEF Inv
  <2>2. pc' = [q EXCEPT !.pending = None]
    BY ResumeIs
  <2> HIDE DEF q
  <2> QED BY <2>1, <2>2 DEF Computer
<1> HIDE DEF new
<1>6. Settled(pc', new) /\ Filled(new) /\ Together(pc')
  BY <1>3, <1>4, <1>5 DEF Settled, Filled, Together
<1> QED BY <1>1, <1>3, <1>5, <1>6, PlanBegins

LEMMA StartChangePlan ==
  ASSUME Inv, PlanInv, NEW kind \in Kinds \ {"install"}, StartChange(kind)
  PROVE  PlanInv'
<1> DEFINE new == FromRecord(kind)
<1>1. /\ at = "idle" /\ pc.record # None /\ pc' = pc /\ setups' = setups /\ last' = last /\ Begin(new)
      /\ kind \in {"repair", "reconfigure"} => pc.saved.db # 0
  BY DEF StartChange, HasSecrets
<1>2. /\ new.kind = kind /\ new.flavor = pc.record.flavor /\ new.pw = pc.saved.db /\ new.super = pc.saved.super
      /\ new.port = pc.record.port
  BY DEF FromRecord
<1> HIDE DEF new
<1>3. at' # "idle" /\ job' = new
  BY <1>1, <1>2, KindsAre, Firsts DEF Begin
<1>4. Handed(pc, new, at')
  BY <1>1, <1>2 DEF Handed
<1>5. PlansFilled'
  BY <1>1, <1>2, <1>3 DEF PlanInv, PlansFilled
<1>6. PendingOK'
  BY <1>1, <1>2, <1>3, Zenon DEF PlanInv, PendingOK, Handed, Settled
<1>7. Together(pc)' /\ Handed(pc, job, at)' /\ ~Again'
  BY <1>1, <1>3, <1>4 DEF PlanInv, Together, Handed, Again
<1> QED BY <1>2, <1>3, <1>5, <1>6, <1>7 DEF PlanInv

(* What an adoption changes: the record, the passwords stored, and         *)
(* PostgreSQL's admin password, to one no plan has.                        *)
LEMMA AdoptLeaves ==
  ASSUME Inv, NEW given \in GivenSuper, Adopt(given)
  PROVE  /\ at = "idle" /\ UNCHANGED <<at, job, last, held, setups, faults>>
         /\ pc.record = None /\ pc.env # None /\ pc.cluster # None /\ pc'.cluster # None
         /\ SameFiles(pc, pc') /\ SameServer(pc, pc') /\ pc'.ch = pc.ch /\ pc'.env = pc.env /\ pc'.pending = pc.pending
         /\ pc'.cluster.port = pc.cluster.port /\ pc'.cluster.trust = pc.cluster.trust
         /\ pc'.cluster.preload = pc.cluster.preload /\ pc'.cluster.role = pc.cluster.role
         /\ pc'.cluster.dbs = pc.cluster.dbs
         /\ \/ pc'.cluster.super = pc.cluster.super
            \/ pc'.cluster.super = NewSuper /\ given = 0 /\ AdminPassword(0) = NewSuper
         /\ \/ pc'.saved = pc.saved /\ pc'.record = None
            \/ /\ AdminPassword(given) # 0 /\ Verified /\ pc'.record = Recorded(pc.env)
               /\ given = 0 /\ AdminPassword(0) = NewSuper => pc'.cluster.super = NewSuper
               /\ pc'.saved = Stored(pc.env.pw, AdminPassword(given))
<1> DEFINE c1 == WithAdmin(given).cluster
           other == [pc.cluster EXCEPT !.super = NewSuper]
<1>1. /\ at = "idle" /\ UNCHANGED <<at, job, last, held, setups, faults>>
      /\ pc.record = None /\ pc.env # None /\ pc.cluster # None /\ c1 \in Cluster /\ c1 # None
      /\ c1 = pc.cluster \/ (c1 = other /\ given = 0 /\ AdminPassword(0) = NewSuper)
      /\ \/ pc' = [pc EXCEPT !.cluster = c1]
         \/ /\ AdminPassword(given) # 0 /\ Verified
            /\ given = 0 /\ AdminPassword(0) = NewSuper => c1 = other
            /\ pc' = [pc EXCEPT !.cluster = c1, !.saved = Stored(pc.env.pw, AdminPassword(given)),
                                !.record = Recorded(pc.env)]
  BY AdoptIs
<1>2. pc \in Computer /\ pc.cluster \in Cluster
  BY <1>1 DEF Inv, Computer
<1>3. /\ other.super = NewSuper /\ other.port = pc.cluster.port /\ other.trust = pc.cluster.trust
      /\ other.preload = pc.cluster.preload /\ other.role = pc.cluster.role /\ other.dbs = pc.cluster.dbs
  BY <1>2 DEF Cluster
<1> HIDE DEF c1, other
<1>4. CASE pc' = [pc EXCEPT !.cluster = c1]
  BY <1>1, <1>2, <1>3, <1>4, ClusterIs DEF SameNotes
<1>5. CASE /\ AdminPassword(given) # 0 /\ Verified
           /\ given = 0 /\ AdminPassword(0) = NewSuper => c1 = other
           /\ pc' = [pc EXCEPT !.cluster = c1, !.saved = Stored(pc.env.pw, AdminPassword(given)),
                               !.record = Recorded(pc.env)]
  <2> DEFINE s == Stored(pc.env.pw, AdminPassword(given))
             r == Recorded(pc.env)
  <2>1. pc' = [pc EXCEPT !.cluster = c1, !.saved = s, !.record = r]
    BY <1>5
  <2> HIDE DEF s, r
  <2>2. /\ pc'.cluster = c1 /\ pc'.ch = pc.ch /\ SameServer(pc, pc') /\ SameFiles(pc, pc')
        /\ pc'.env = pc.env /\ pc'.pending = pc.pending /\ pc'.saved = s /\ pc'.record = r
    BY <1>2, <2>1 DEF Computer, SameServer, SameFiles
  <2> QED BY <1>1, <1>3, <1>5, <2>2 DEF s, r
<1> QED BY <1>1, <1>4, <1>5

LEMMA AdoptPlan ==
  ASSUME Inv, PlanInv, NEW given \in GivenSuper, Adopt(given)
  PROVE  PlanInv'
<1>1. /\ at = "idle" /\ at' = at /\ job' = job /\ last' = last /\ setups' = setups
      /\ pc.record = None /\ pc.env # None /\ pc.cluster # None /\ pc'.cluster # None
      /\ pc'.ch = pc.ch /\ pc'.env = pc.env /\ pc'.pending = pc.pending
      /\ pc'.cluster.port = pc.cluster.port /\ pc'.cluster.trust = pc.cluster.trust
      /\ pc'.cluster.role = pc.cluster.role
      /\ pc'.cluster.super = pc.cluster.super \/ pc'.cluster.super = NewSuper
      /\ pc'.record = None \/ pc'.record = Recorded(pc.env)
  BY AdoptLeaves
<1>2. job.kind # "install"
  BY <1>1 DEF Inv, JobOK, NoJob
<1>3. Together(pc)'
  BY <1>1 DEF PlanInv, Together
<1>4. ASSUME Again' PROVE Settled(pc, last.plan)'
  BY <1>1, <1>4 DEF PlanInv, PlansFilled, Filled, Again, Settled
<1>5. PlansFilled' /\ PendingOK'
  BY <1>1, <1>2 DEF PlanInv, PlansFilled, PendingOK
<1> QED BY <1>1, <1>2, <1>3, <1>4, <1>5 DEF PlanInv

LEMMA ControlLeaves ==
  ASSUME Inv, NEW run \in BOOLEAN, Control(run)
  PROVE  /\ at = "idle" /\ UNCHANGED <<at, job, last, held, setups, faults>> /\ pc.env # None /\ pc.cluster # None
         /\ SameFiles(pc, pc') /\ SameNotes(pc, pc') /\ SameData(pc, pc') /\ pc'.service = pc.service
         /\ pc'.port \in {0, pc.cluster.port} /\ (run => pc'.port = pc.cluster.port)
<1>1. PICK port \in {0, pc.cluster.port}, up \in BOOLEAN :
        /\ pc' = [pc EXCEPT !.port = port, !.up = up]
        /\ run => port = pc.cluster.port
  BY ControlIs
<1>2. /\ SameFiles(pc, pc') /\ SameNotes(pc, pc') /\ SameData(pc, pc') /\ pc'.service = pc.service
      /\ pc'.port = port
  BY <1>1 DEF Inv, Computer, SameFiles, SameNotes, SameData
<1> QED BY <1>1, <1>2, ControlIs

LEMMA ControlPlan ==
  ASSUME Inv, PlanInv, NEW run \in BOOLEAN, Control(run)
  PROVE  PlanInv'
<1>1. /\ at = "idle" /\ at' = at /\ job' = job /\ last' = last /\ setups' = setups
      /\ pc'.cluster = pc.cluster /\ pc'.ch = pc.ch /\ pc'.env = pc.env /\ pc'.pending = pc.pending
      /\ pc'.record = pc.record /\ pc'.files = pc.files
  BY ControlLeaves DEF SameNotes, SameData, SameFiles
<1>2. job.kind # "install"
  BY <1>1 DEF Inv, JobOK, NoJob
<1>3. Together(pc)' /\ PlansFilled'
  BY <1>1 DEF PlanInv, Together, PlansFilled
<1>4. PendingOK' /\ (Again => Settled(pc, last.plan))'
  BY <1>1 DEF PlanInv, PendingOK, Again, Settled
<1> QED BY <1>1, <1>2, <1>3, <1>4 DEF PlanInv

LEMMA PlanInit == Init => PlanInv
BY InitFacts DEF NoJob, Again, PlanInv, PlansFilled, PendingOK, Together

LEMMA PlanNextInv ==
  ASSUME ~LateResume, Inv, PlanInv, [Next]_vars
  PROVE  PlanInv'
<1>1. CASE UNCHANGED vars
  <2>1. UNCHANGED <<pc, at, job, last, setups>>
    BY <1>1 DEF vars
  <2>2. PlansFilled' /\ PendingOK' /\ Together(pc)'
    BY <2>1, Zenon DEF PlanInv, PlansFilled, PendingOK, Together, Settled
  <2>3. (job.kind = "install" => Settled(pc, job) /\ Reached(pc, job, at))'
    BY <2>1, Zenon DEF PlanInv, Settled, Reached
  <2>4. (at # "idle" /\ job.kind # "install" => Handed(pc, job, at))' /\ (Again => Settled(pc, last.plan))'
    BY <2>1, Zenon DEF PlanInv, Handed, Again, Settled
  <2> QED BY <2>2, <2>3, <2>4 DEF PlanInv
<1>2. CASE Operator
  BY <1>2, InstallPlan, RetryPlan, ResumePlan, AdoptPlan, StartChangePlan,
     ControlPlan DEF Operator
<1>3. CASE Task
  <2>1. CASE InstallManager \/ InstallRuntime \/ InstallPostgres \/ Stage \/ WriteEnv \/ MakeShortcuts
    BY <2>1, FilesPlan
  <2>2. CASE EnableWsl \/ MakeAccount \/ Provision \/ SetAsideHistory
    BY <2>2, ClickhousePlan
  <2>3. CASE InitDb \/ SetPort \/ InstallTimescale
    BY <2>3, InitDbPlan, SetPortPlan, InstallTimescalePlan
  <2>4. CASE Preload \/ RegisterPostgres \/ StartPostgres \/ EnableTimescale \/ Tune
    BY <2>4, ServerPlan
  <2>5. CASE SyncRolePassword \/ PrepareExisting
    BY <2>5, KeptPlan
  <2>6. CASE Create \/ RequirePasswords \/ InstallSchema
    BY <2>6, CreatePlan, RequirePasswordsPlan, SchemaPlan
  <2>7. CASE Partition \/ SetAdmin
    BY <2>7, InDatabasePlan
  <2>8. CASE Register \/ Serve \/ SaveRecord
    BY <2>8, RegisterPlan, ServePlan, SaveRecordPlan
  <2>9. CASE SaveSecrets
    BY <2>9, FinishPlan
  <2>10. CASE StopServer \/ RemovePlatform \/ Release \/ Clean \/ Forget
    BY <2>10, RemovalPlan
  <2>11. CASE RemoveRecord
    BY <2>11, RemoveRecordPlan
  <2> QED BY <1>3, <2>1, <2>2, <2>3, <2>4, <2>5, <2>6, <2>7, <2>8, <2>9, <2>10, <2>11 DEF Task
<1>4. CASE Fail
  BY <1>4, FailPlan
<1>5. CASE SecretsUnsaved
  BY <1>5, FinishPlan
<1> QED BY <1>1, <1>2, <1>3, <1>4, <1>5 DEF Next

LEMMA PlanKept ==
  ASSUME ~LateResume
  PROVE  Spec => []PlanInv
<1>1. Init => PlanInv
  BY PlanInit
<1>2. Inv /\ PlanInv /\ [Next]_vars => PlanInv'
  BY PlanNextInv
<1> QED BY <1>1, <1>2, Invariant, PTL DEF Spec

----------------------------------------------------------------------------
(* The passwords, of a job that saves all of them: the settings have the   *)
(* role's, and the store has both, or has none yet.                        *)
Agree(p) ==
  /\ p.env # None => p.env.pw = p.cluster.role
  /\ p.record # None /\ p.env # None =>
       /\ p.saved.db \in {0, p.env.pw}
       /\ p.saved.super = 0 \/ p.cluster.trust \/ p.saved.super = p.cluster.super
PasswordsInv ==
  /\ Agree(pc)
  /\ job.kind = "install" /\ at \in {"shortcuts", "record"} =>
       pc.saved.db \in {0, job.pw} /\ pc.saved.super \in {0, job.super}

SamePasswords(p, q) ==
  /\ q.env = p.env /\ q.record = p.record /\ q.saved = p.saved
  /\ p.cluster # None =>
       q.cluster.role = p.cluster.role /\ q.cluster.super = p.cluster.super /\ q.cluster.trust = p.cluster.trust

LEMMA SameAgree ==
  ASSUME Inv, Agree(pc), SamePasswords(pc, pc')
  PROVE  Agree(pc')
BY DEF Inv, Services, Agree, SamePasswords

LEMMA SecretsBefore ==
  ASSUME Inv, at # "idle", at # "secrets", NextTask, job.kind = "install", Following \in {"shortcuts", "record"}
  PROVE  at = "shortcuts"
BY JobKind, Lasts, InstallNext, TasksAre, AfterIs DEF Inv, NextTask

(* A task with these passwords known afterwards.                           *)
LEMMA PasswordsTask ==
  ASSUME Inv, PasswordsInv, at # "idle", at # "secrets", NextTask \/ \E how : End(how), Agree(pc'),
         at = "shortcuts" => pc'.saved = pc.saved
  PROVE  PasswordsInv'
<1>1. Agree(pc)'
  BY DEF Agree
<1>2. CASE NextTask
  BY <1>1, <1>2, SecretsBefore DEF NextTask, PasswordsInv
<1>3. CASE \E how : End(how)
  BY <1>1, <1>3 DEF PasswordsInv, End, NoJob
<1> QED BY <1>2, <1>3

LEMMA PasswordsSame ==
  ASSUME Inv, PasswordsInv, at # "idle", at # "secrets", NextTask \/ \E how : End(how), SamePasswords(pc, pc')
  PROVE  PasswordsInv'
BY SameAgree, PasswordsTask DEF PasswordsInv, SamePasswords

LEMMA SameNotesPasswords ==
  ASSUME NEW p, NEW q, SameData(p, q), SameNotes(p, q)
  PROVE  SamePasswords(p, q)
BY DEF SameData, SameNotes, SamePasswords

LEMMA FilesPasswords ==
  ASSUME Inv, PasswordsInv, InstallManager \/ InstallRuntime \/ InstallPostgres \/ Stage \/ WriteEnv \/ MakeShortcuts
  PROVE  PasswordsInv'
BY FileTasksAre, SameNotesPasswords, PasswordsSame

LEMMA ClickhousePasswords ==
  ASSUME Inv, PasswordsInv, EnableWsl \/ MakeAccount \/ Provision \/ SetAsideHistory
  PROVE  PasswordsInv'
BY ClickhouseTasksAre, PasswordsSame DEF SamePasswords

LEMMA SetupServerPasswords ==
  ASSUME Inv, PasswordsInv, InitDb \/ SetPort \/ InstallTimescale
  PROVE  PasswordsInv'
<1>1. CASE InitDb
  BY <1>1, InitDbIs, PasswordsSame DEF SameNotes, SamePasswords
<1>2. CASE SetPort
  BY <1>2, SetPortIs, SameAgree DEF SameNotes, SamePasswords, PasswordsInv, Agree
<1>3. CASE InstallTimescale
  BY <1>3, InstallTimescaleIs, SameNotesPasswords, SameAgree DEF PasswordsInv, Agree, End
<1> QED BY <1>1, <1>2, <1>3

LEMMA ServerPasswords ==
  ASSUME Inv, PasswordsInv, Preload \/ RegisterPostgres \/ StartPostgres \/ EnableTimescale \/ Tune
  PROVE  PasswordsInv'
<1>1. CASE Preload
  BY <1>1, PreloadIs, PasswordsSame DEF SameNotes, SamePasswords
<1>2. CASE RegisterPostgres
  BY <1>2, RegisterPostgresIs, SameNotesPasswords, PasswordsSame
<1>3. CASE StartPostgres
  BY <1>3, StartPostgresIs, SameNotesPasswords, PasswordsSame
<1>4. CASE EnableTimescale
  BY <1>4, EnableTimescaleIs, SameIs, SameNotesPasswords, PasswordsSame
<1>5. CASE Tune
  BY <1>5, TuneIs, SameNotesPasswords, PasswordsSame
<1> QED BY <1>1, <1>2, <1>3, <1>4, <1>5

LEMMA DatabasePasswords ==
  ASSUME Inv, PasswordsInv, PrepareExisting \/ InstallSchema \/ Partition \/ SetAdmin
  PROVE  PasswordsInv'
<1>1. /\ at \in {"kept", "schema", "partition", "admin"} /\ (NextTask \/ \E how : End(how))
      /\ SameNotes(pc, pc') /\ pc'.cluster.super = pc.cluster.super
      /\ pc'.cluster.trust = pc.cluster.trust /\ pc'.cluster.role = pc.cluster.role
  BY PrepareExistingIs, InstallSchemaIs, PartitionIs, SetAdminIs DEF InDatabase
<1>2. SamePasswords(pc, pc')
  BY <1>1 DEF SameNotes, SamePasswords
<1> QED BY <1>1, <1>2, PasswordsSame

(* The settings are the plan's before its password is made the role's.     *)
LEMMA RolePasswords ==
  ASSUME Inv, PlanInv, PasswordsInv, SyncRolePassword \/ Create
  PROVE  PasswordsInv'
<1>1. /\ at \in {"role", "create"} /\ (NextTask \/ \E how : End(how)) /\ pc.cluster # None
      /\ SameNotes(pc, pc') /\ pc'.cluster.super = pc.cluster.super /\ pc'.cluster.trust = pc.cluster.trust
  BY SyncRolePasswordIs, CreateIs
<1>2. pc'.env = pc.env /\ pc'.record = pc.record /\ pc'.saved = pc.saved
  BY <1>1 DEF SameNotes
<1>3. pc.env # None => pc'.cluster.role = pc.cluster.role
  <2>1. pc.env # None => pc.env.pw = pc.cluster.role /\ pc.env.pw # 0
    BY DEF PasswordsInv, Agree, PlanInv, Together
  <2>2. CASE SyncRolePassword
    BY <2>1, <2>2, SyncRolePasswordIs DEF PlanInv, Settled, Settings
  <2>3. CASE Create
    BY <2>1, <2>3, CreateIs
  <2> QED BY <2>2, <2>3
<1>4. Agree(pc')
  BY <1>1, <1>2, <1>3 DEF PasswordsInv, Agree
<1> QED BY <1>1, <1>4, PasswordsTask

(* Connections are trusted no longer when the superuser signs in with the  *)
(* password of the job, which is the one the store has.                    *)
LEMMA TrustPasswords ==
  ASSUME Inv, PlanInv, PasswordsInv, RequirePasswords
  PROVE  PasswordsInv'
BY RequirePasswordsIs, PasswordsTask DEF SameNotes, PlanInv, Settled, Handed, PasswordsInv, Agree

LEMMA RegisterPasswords ==
  ASSUME Inv, PlanInv, PasswordsInv, Register
  PROVE  PasswordsInv'
<1>1. /\ at = "register" /\ job.kind \in {"install", "repair", "reconfigure"} /\ pc.cluster # None
      /\ SameData(pc, pc') /\ pc'.saved = pc.saved /\ pc'.record = pc.record
      /\ \/ NextTask /\ "wrapper" \in pc.files /\ pc'.env = Settings(job)
         \/ End("stuck") /\ pc' = pc
  BY RegisterIs
<1>2. Agree(pc)
  BY DEF PasswordsInv
<1>3. CASE NextTask /\ "wrapper" \in pc.files /\ pc'.env = Settings(job)
  <2>1. pc'.env.pw = job.pw /\ pc'.cluster = pc.cluster
    BY <1>1, <1>3 DEF Settings, SameData
  <2>2. job.pw = pc.cluster.role
    <3>1. CASE job.kind = "install"
      BY <1>1, <3>1, ReachedIs, AfterIs
    <3>2. CASE job.kind # "install"
      BY <1>1, <1>2, <1>3, <3>2 DEF PlanInv, Handed, Together, Agree
    <3> QED BY <3>1, <3>2
  <2>3. pc.record # None => pc.env # None
    BY <1>1, <1>3 DEF PlanInv, Together
  <2>4. Agree(pc')
    BY <1>1, <1>2, <2>1, <2>2, <2>3 DEF Agree
  <2> QED BY <1>1, <2>4, PasswordsTask
<1>4. CASE End("stuck") /\ pc' = pc
  BY <1>1, <1>2, <1>4, PasswordsTask
<1> QED BY <1>1, <1>3, <1>4

LEMMA ServePasswords ==
  ASSUME Inv, PasswordsInv, Serve
  PROVE  PasswordsInv'
BY ServeIs, SameNotesPasswords, SameAgree DEF PasswordsInv, Agree, End

(* Saved are the plan's, or nothing where there was nothing.               *)
LEMMA SecretsPasswords ==
  ASSUME "secrets" \notin TearAt, Inv, PlanInv, PasswordsInv, SaveSecrets \/ SecretsUnsaved
  PROVE  PasswordsInv'
<1>1. /\ at = "secrets" /\ job.kind = "install" /\ NextTask
      /\ SameData(pc, pc') /\ pc'.env = pc.env /\ pc'.record = pc.record
      /\ pc'.saved.db \in {pc.saved.db, job.pw} /\ pc'.saved.super \in {pc.saved.super, job.super}
      /\ pc.saved = NoSecrets \/ pc'.saved = Stored(job.pw, job.super)
  BY SaveSecretsIs
<1>2. pc'.saved.db \in {0, job.pw} /\ pc'.saved.super \in {0, job.super}
  BY <1>1 DEF NoSecrets, Stored
<1>3. pc'.cluster = pc.cluster
  BY <1>1 DEF SameData
<1>4. Agree(pc')
  BY <1>1, <1>2, <1>3, ReachedIs, AfterIs DEF PlanInv, Settled, Settings, Sql, SignsIn,
     PasswordsInv, Agree
<1>5. job' = job
  BY <1>1 DEF NextTask
<1> QED BY <1>2, <1>4, <1>5 DEF PasswordsInv, Agree

LEMMA RecordPasswords ==
  ASSUME Inv, PlanInv, PasswordsInv, SaveRecord
  PROVE  PasswordsInv'
BY SaveRecordIs, ReachedIs, AfterIs DEF Sql, SignsIn, PlanInv, Settled, Settings, SameData,
   PasswordsInv, Agree, End

LEMMA RemovalPasswords ==
  ASSUME Inv, PasswordsInv, StopServer \/ RemovePlatform \/ Release \/ Clean \/ Forget \/ RemoveRecord
  PROVE  PasswordsInv'
<1>1. CASE StopServer \/ RemovePlatform \/ Release
  BY <1>1, RemovalTasksAre, PasswordsTask DEF PasswordsInv, Agree, SameData
<1>2. CASE Clean \/ Forget
  BY <1>2, DeletionTasksAre, PasswordsTask DEF Agree
<1>3. CASE RemoveRecord
  BY <1>3, RemoveRecordIs, PasswordsTask DEF Agree
<1> QED BY <1>1, <1>2, <1>3

LEMMA FailPasswords ==
  ASSUME Inv, PasswordsInv, Fail
  PROVE  PasswordsInv'
BY FailIs, SameNotesPasswords, SameAgree DEF PasswordsInv, Agree, End

(* No job runs: an adoption stores a password that signs in.               *)
LEMMA AdoptPasswords ==
  ASSUME Inv, PasswordsInv, NEW given \in GivenSuper, Adopt(given)
  PROVE  PasswordsInv'
<1>1. /\ at = "idle" /\ at' = at /\ pc.env # None
      /\ pc.record = None /\ pc'.env = pc.env
      /\ pc'.cluster.trust = pc.cluster.trust /\ pc'.cluster.role = pc.cluster.role
      /\ \/ pc'.cluster.super = pc.cluster.super
         \/ given = 0 /\ AdminPassword(0) = NewSuper
      /\ \/ pc'.record = None
         \/ /\ AdminPassword(given) # 0
            /\ given = 0 /\ AdminPassword(0) = NewSuper => pc'.cluster.super = NewSuper
            /\ pc'.saved = Stored(pc.env.pw, AdminPassword(given))
  BY AdoptLeaves
<1>2. \/ given = 0 /\ AdminPassword(given) = NewSuper
      \/ AdminPassword(given) # 0 => Opens(AdminPassword(given))
  BY DEF AdminPassword, Opens
<1>3. Opens(AdminPassword(given)) => pc.cluster.trust \/ AdminPassword(given) = pc.cluster.super
  BY DEF Opens, SignsIn
<1>4. pc'.record # None =>
        /\ pc'.saved.db = pc.env.pw /\ pc'.saved.super = AdminPassword(given)
        /\ pc'.cluster.trust \/ pc'.saved.super = pc'.cluster.super
  BY <1>1, <1>2, <1>3 DEF Stored
<1>5. Agree(pc')
  BY <1>1, <1>4 DEF PasswordsInv, Agree
<1> QED BY <1>1, <1>5 DEF PasswordsInv, Agree

LEMMA IdlePasswords ==
  ASSUME Inv, PasswordsInv, at' \notin {"shortcuts", "record"}, SamePasswords(pc, pc')
  PROVE  PasswordsInv'
BY SameAgree DEF PasswordsInv, Agree

LEMMA OperatorPasswords ==
  ASSUME Inv, PasswordsInv, Operator
  PROVE  PasswordsInv'
<1>1. CASE \/ (\E c \in Plans : Install(c)) \/ Retry \/ \E k \in Kinds \ {"install"} : StartChange(k)
  <2>1. pc' = pc /\ \E k \in Kinds : at' = Head(Paths[k])
    <3>1. CASE \E c \in Plans : Install(c)
      BY <3>1, KindsAre DEF PlanOf, Install, StartInstall, Begin
    <3>2. CASE Retry
      BY <3>2 DEF Inv, JobOK, Retry, NoJob, StartInstall, Begin, Job
    <3>3. CASE \E k \in Kinds \ {"install"} : StartChange(k)
      BY <3>3 DEF FromRecord, StartChange, Begin
    <3> QED BY <1>1, <3>1, <3>2, <3>3
  <2>2. SamePasswords(pc, pc')
    BY <2>1 DEF SamePasswords
  <2>3. at' \notin {"shortcuts", "record"}
    BY <2>1, KindsAre, Firsts
  <2> QED BY <2>2, <2>3, IdlePasswords
<1>2. CASE Resume
  BY <1>2, BootedIs, ResumeIs, IdlePasswords DEF Inv, Computer, SamePasswords
<1>3. CASE \E g \in GivenSuper : Adopt(g)
  BY <1>3, AdoptPasswords
<1>4. CASE \E run \in BOOLEAN : Control(run)
  BY <1>4, ControlLeaves, SameNotesPasswords, IdlePasswords
<1> QED BY <1>1, <1>2, <1>3, <1>4 DEF Operator

LEMMA PasswordsInit == Init => PasswordsInv
BY InitFacts DEF NoJob, PasswordsInv, Agree

LEMMA PasswordsNext ==
  ASSUME "secrets" \notin TearAt, Inv, PlanInv, PasswordsInv, [Next]_vars
  PROVE  PasswordsInv'
<1>1. CASE UNCHANGED vars
  BY <1>1, Zenon DEF vars, PasswordsInv, Agree
<1>2. CASE Operator
  BY <1>2, OperatorPasswords
<1>3. CASE Task
  <2>1. CASE InstallManager \/ InstallRuntime \/ InstallPostgres \/ Stage \/ WriteEnv \/ MakeShortcuts
    BY <2>1, FilesPasswords
  <2>2. CASE EnableWsl \/ MakeAccount \/ Provision \/ SetAsideHistory
    BY <2>2, ClickhousePasswords
  <2>3. CASE InitDb \/ SetPort \/ InstallTimescale
    BY <2>3, SetupServerPasswords
  <2>4. CASE Preload \/ RegisterPostgres \/ StartPostgres \/ EnableTimescale \/ Tune
    BY <2>4, ServerPasswords
  <2>5. CASE PrepareExisting \/ InstallSchema \/ Partition \/ SetAdmin
    BY <2>5, DatabasePasswords
  <2>6. CASE SyncRolePassword \/ Create \/ RequirePasswords
    BY <2>6, RolePasswords, TrustPasswords
  <2>7. CASE Register \/ Serve \/ SaveRecord
    BY <2>7, RegisterPasswords, ServePasswords, RecordPasswords
  <2>8. CASE SaveSecrets
    BY <2>8, SecretsPasswords
  <2>9. CASE StopServer \/ RemovePlatform \/ Release \/ Clean \/ Forget \/ RemoveRecord
    BY <2>9, RemovalPasswords
  <2> QED BY <1>3, <2>1, <2>2, <2>3, <2>4, <2>5, <2>6, <2>7, <2>8, <2>9 DEF Task
<1>4. CASE Fail
  BY <1>4, FailPasswords
<1>5. CASE SecretsUnsaved
  BY <1>5, SecretsPasswords
<1> QED BY <1>1, <1>2, <1>3, <1>4, <1>5 DEF Next

(* Once there is a record, SENTIENT signs in to PostgreSQL with what its   *)
(* settings say, and the manager with what the secret store has, however   *)
(* setups fail, are tried again, resumed, adopted or repaired: when a plan *)
(* saved for a restart is not resumed after another setup                  *)
(* (plan::save_pending), and saving the passwords fails only where none    *)
(* were saved before (secrets::Secrets::save).                             *)
THEOREM PasswordsAgree ==
  ASSUME ~LateResume, "secrets" \notin TearAt
  PROVE  Spec => []CredentialsAgree
<1>1. Init => PasswordsInv
  BY PasswordsInit
<1>2. Inv /\ PlanInv /\ PasswordsInv /\ [Next]_vars => PasswordsInv'
  BY PasswordsNext
<1>3. PlanInv /\ PasswordsInv => CredentialsAgree
  BY DEF PlanInv, Together, PasswordsInv, Agree, CredentialsAgree, NoEnv
<1>4. Spec => []PlanInv
  BY PlanKept
<1>5. Spec => []PasswordsInv
  BY <1>1, <1>2, <1>4, Invariant, PTL DEF Spec
<1> QED BY <1>3, <1>4, <1>5, PTL

----------------------------------------------------------------------------
(* A setup run again finishes: what a task needs, the tasks before it left *)
(* whole, in this setup or in one before.                                  *)
Whole(p) ==
  /\ p.partial = {}
  /\ "programs" \in p.files => "wrapper" \in p.files
  /\ "timescale" \in p.files => p.cluster # None
Loads(p) == "timescale" \in p.files => p.cluster.preload
(* PostgreSQL stands still or runs on its port, unless it is about to be   *)
(* stopped because that has changed.                                       *)
OnPort(p) == p.cluster # None => p.port \in {0, p.cluster.port}
Moving(p, j, s) == s \in {"timescale", "preload", "service", "start"} /\ j.moved /\ ~p.up
AfterWsl == {"manager", "wsl", "account"}
ToPostgres == AfterWsl \union {"provision", "history", "runtime", "postgres"}
Provided(p, j, s) ==
  /\ s \notin ToPostgres => "postgres" \in p.files
  /\ s \in AfterPort \ {"timescale"} => "timescale" \in p.files
  /\ s \in {"start"} \union AfterStart => p.service # "none"
  /\ s \in {"service", "start", "extension"} => p.cluster.preload
  /\ s \in AfterStage => "programs" \in p.files
  /\ j.flavor = "clickhouse" =>
       /\ s \notin AfterWsl => p.ch.account
       /\ s \notin AfterWsl \union {"provision"} => p.ch.there
       /\ s \in AfterSchema => p.ch.db # None
FinishInv ==
  /\ Whole(pc) /\ (Loads(pc) \/ at = "preload") /\ (OnPort(pc) \/ Moving(pc, job, at))
  /\ job.kind = "install" => Provided(pc, job, at)
  /\ last.plan.kind = "install" => last.end # "stuck"

LEMMA ProvidedNext ==
  ASSUME Inv, job.kind = "install", at # "idle", at # "record", NEW p, Provided(p, job, at),
         at = "postgres" => "postgres" \in p.files,
         at = "timescale" => "timescale" \in p.files,
         at = "service" => p.service # "none",
         at = "preload" => p.cluster.preload,
         at = "stage" => "programs" \in p.files,
         at = "account" => p.ch.account,
         at = "provision" => p.ch.there,
         at = "schema" /\ job.flavor = "clickhouse" => p.ch.db # None
  PROVE  Provided(p, job, Following)
<1>1. at \in ToSet(Paths["install"]) /\ Applies(job, at)
  BY JobKind DEF Inv
<1>2. /\ Following \in AfterStage => at \in {"stage"} \union AfterStage
      /\ Following \in AfterSchema => at \in {"schema"} \union AfterSchema
      /\ Following = "account" <=> at = "wsl"
      /\ Following = "provision" <=> at = "account"
      /\ Following = "wsl" => at = "manager"
      /\ Following \in AfterStart => at \in {"start"} \union AfterStart
  BY <1>1, InstallBefore
<1>3. /\ Following \notin ToPostgres => at \notin ToPostgres \/ at = "postgres"
      /\ Following \in AfterPort \ {"timescale"} => at \in AfterPort
      /\ Following = "start" => at = "service"
      /\ Following \in {"service", "start", "extension"} => at \in {"preload", "service", "start"}
  <2>1. CASE at \in ToPostgres \union {"initdb", "port", "timescale", "preload", "service", "start"}
    BY <1>1, <2>1, AppliesIs, InstallNext, AfterIs DEF ToPostgres, AfterWsl
  <2>2. CASE at \notin ToPostgres \union {"initdb", "port", "timescale", "preload", "service", "start"}
    <3>1. at \in AfterPort
      BY <1>1, <2>2, TasksAre, AfterIs DEF ToPostgres, AfterWsl
    <3>2. Following \notin {"service", "start", "extension"}
      BY <1>1, <2>2, <3>1, AfterIs, InstallNext DEF ToPostgres, AfterWsl
    <3> QED BY <2>2, <3>1, <3>2
  <2> QED BY <2>1, <2>2
<1>4. /\ Following \notin AfterWsl => at \notin AfterWsl \/ at = "account" \/ job.flavor # "clickhouse"
      /\ Following \notin AfterWsl \union {"provision"} =>
           at \notin AfterWsl \union {"provision"} \/ at = "provision" \/ job.flavor # "clickhouse"
  BY <1>1, InstallNext DEF AfterWsl
<1> QED BY <1>2, <1>3, <1>4 DEF Provided

LEMMA FinishNext ==
  ASSUME Inv, FinishInv, at # "idle", NextTask, Whole(pc'), Loads(pc') \/ Following = "preload",
         OnPort(pc') \/ Moving(pc', job, Following),
         job.kind = "install" => Provided(pc', job, Following)
  PROVE  FinishInv'
BY DEF NextTask, Whole, Loads, OnPort, Moving, Provided, FinishInv

LEMMA FinishEnd ==
  ASSUME Inv, FinishInv, at # "idle", NEW how, End(how), Whole(pc'), Loads(pc'), OnPort(pc'),
         job.kind = "install" => how # "stuck"
  PROVE  FinishInv'
BY DEF End, NoJob, Whole, Loads, OnPort, FinishInv

(* A task that moves neither PostgreSQL nor what loads TimescaleDB, and    *)
(* leaves what is there of the rest.                                       *)
LEMMA FinishTask ==
  ASSUME Inv, FinishInv, at # "idle", at # "record", at \notin {"timescale", "preload", "service", "start"},
         NextTask \/ \E how : End(how) /\ (job.kind = "install" => how # "stuck"),
         pc'.partial = pc.partial,
         "programs" \in pc'.files => "wrapper" \in pc'.files,
         "timescale" \in pc'.files => "timescale" \in pc.files,
         pc.cluster # None =>
           pc'.cluster # None /\ pc'.cluster.preload = pc.cluster.preload /\ pc'.cluster.port = pc.cluster.port,
         pc'.port \in {pc.port, 0} \/ (pc.cluster # None /\ pc'.port = pc.cluster.port),
         job.kind = "install" =>
           /\ pc.files \subseteq pc'.files
           /\ pc.service # "none" => pc'.service # "none"
           /\ pc.ch.account => pc'.ch.account
           /\ pc.ch.there => pc'.ch.there
           /\ at \in AfterSchema => (pc.ch.db # None => pc'.ch.db # None),
         job.kind = "install" /\ NextTask =>
           /\ at = "postgres" => "postgres" \in pc'.files
           /\ at = "stage" => "programs" \in pc'.files
           /\ at = "account" => pc'.ch.account
           /\ at = "provision" => pc'.ch.there
           /\ at = "schema" /\ job.flavor = "clickhouse" => pc'.ch.db # None
  PROVE  FinishInv'
<1>1. Whole(pc) /\ Loads(pc) /\ OnPort(pc)
  BY DEF FinishInv, Moving
<1>2. pc.cluster = None => pc.port = 0
  BY DEF Inv, Services
<1>3. Whole(pc') /\ Loads(pc')
  BY <1>1 DEF Whole, Loads
<1>4. OnPort(pc')
  BY <1>1, <1>2 DEF OnPort
<1>5. CASE job.kind = "install"
  BY <1>3, <1>4, <1>5, AfterIs, ClusteredIs, ProvidedNext, FinishNext, FinishEnd DEF FinishInv,
     Inv, ClusterOK, Provided
<1>6. CASE job.kind # "install"
  BY <1>3, <1>4, <1>6, FinishNext, FinishEnd
<1> QED BY <1>5, <1>6

(* No call fails between TimescaleDB's files and PostgreSQL's start on its *)
(* port, and no file is left half written.                                 *)
Finishable ==
  /\ ~LateResume
  /\ {"timescale", "preload", "service", "start"} \cap MayFail = {}
  /\ {"timescale", "preload", "service", "postgres", "stage"} \cap TearAt = {}

LEMMA FilesFinish ==
  ASSUME Inv, FinishInv, InstallManager \/ InstallRuntime \/ InstallPostgres \/ Stage \/ WriteEnv \/ MakeShortcuts
  PROVE  FinishInv'
<1>1. /\ at \in {"manager", "runtime", "postgres", "stage", "env", "shortcuts"}
      /\ SameServer(pc, pc') /\ SameData(pc, pc') /\ pc'.partial = pc.partial
      /\ \/ /\ NextTask
            /\ \/ pc'.files = pc.files \/ pc'.files = pc.files \union {"manager"}
               \/ at = "postgres" /\ pc'.files = pc.files \union {"postgres"}
               \/ at = "stage" /\ job.kind # "repair" /\ pc'.files = pc.files \union {"programs", "wrapper"}
            /\ at = "postgres" => "postgres" \in pc'.files
            /\ at = "stage" => "programs" \in pc'.files
         \/ pc' = pc /\ End("refused")
         \/ /\ pc' = pc /\ End("stuck")
            /\ at = "stage" => ~Prerequisites
            /\ at = "postgres" => "postgres" \in pc.partial
            /\ at \in {"postgres", "stage"}
  BY FileTasksAre
<1>2. NextTask \/ \E how : End(how) /\ (job.kind = "install" => how # "stuck")
  <2>1. CASE End("stuck") /\ job.kind = "install"
    BY <1>1, <2>1, AfterIs, AfterAre DEF FinishInv, Whole, ToPostgres, AfterWsl, Provided,
       Prerequisites, End
  <2>2. CASE End("stuck") /\ job.kind # "install"
    BY <2>2
  <2>3. CASE ~End("stuck")
    BY <1>1, <2>3
  <2> QED BY <2>1, <2>2, <2>3
<1>3. /\ pc.files \subseteq pc'.files
      /\ "programs" \in pc'.files => "wrapper" \in pc'.files
      /\ "timescale" \in pc'.files => "timescale" \in pc.files
  BY <1>1 DEF FinishInv, Whole
<1>4. /\ pc'.cluster = pc.cluster /\ pc'.ch = pc.ch /\ pc'.service = pc.service /\ pc'.port = pc.port
  BY <1>1 DEF SameServer, SameData
<1>5. NextTask => (at = "postgres" => "postgres" \in pc'.files) /\ (at = "stage" => "programs" \in pc'.files)
  BY <1>1, FollowingIs DEF NextTask, Inv, End
<1> QED BY <1>1, <1>2, <1>3, <1>4, <1>5, FinishTask

LEMMA ClickhouseFinish ==
  ASSUME Inv, PlanInv, FinishInv, EnableWsl \/ MakeAccount \/ Provision \/ SetAsideHistory
  PROVE  FinishInv'
<1>1. /\ at \in {"wsl", "account", "provision", "history"}
      /\ pc'.cluster = pc.cluster /\ SameServer(pc, pc') /\ SameFiles(pc, pc')
      /\ \/ /\ NextTask
            /\ pc'.ch.account <=> pc.ch.account \/ at = "account"
            /\ pc'.ch.there <=> pc.ch.there \/ at = "provision"
         \/ at = "wsl" /\ pc'.ch = pc.ch /\ End("restart")
         \/ at = "provision" /\ pc' = pc /\ End("stuck") /\ ~(pc.ch.ready /\ pc.ch.account)
  BY ClickhouseTasksAre
<1>2. job.kind = "install" /\ job.flavor = "clickhouse" /\ at # "idle"
  BY <1>1, JobKind, OwnTasks, AppliesIs DEF Inv
<1>3. at = "provision" => pc.ch.ready /\ pc.ch.account
  BY <1>2 DEF FinishInv, PlanInv, Provided, Reached, AfterWsl
<1>4. NextTask \/ \E how : End(how) /\ (job.kind = "install" => how # "stuck")
  BY <1>1, <1>3
<1>5. /\ pc'.files = pc.files /\ pc'.partial = pc.partial /\ pc'.service = pc.service /\ pc'.port = pc.port
  BY <1>1 DEF SameServer, SameFiles
<1>6. at \notin AfterSchema
  BY <1>1, AfterIs
<1>7. "programs" \in pc.files => "wrapper" \in pc.files
  BY DEF FinishInv, Whole
<1>8. (pc.ch.account => pc'.ch.account) /\ (pc.ch.there => pc'.ch.there)
  BY <1>1
<1>9. NextTask => (at = "account" => pc'.ch.account) /\ (at = "provision" => pc'.ch.there)
  BY <1>1, <1>2, <1>3, FollowingIs DEF NextTask, Inv, End
<1> QED BY <1>1, <1>2, <1>4, <1>5, <1>6, <1>7, <1>8, <1>9, FinishTask

(* PostgreSQL runs on the port of SENTIENT's settings while SENTIENT runs. *)
LEMMA SetPortFinish ==
  ASSUME Inv, PlanInv, FinishInv, SetPort
  PROVE  FinishInv'
<1>1. /\ at = "port" /\ job.kind = "install" /\ job \in Job /\ pc.cluster # None /\ pc'.cluster # None
      /\ at' = "timescale" /\ last' = last
      /\ job' = [job EXCEPT !.moved = pc.cluster.port # job.port]
      /\ SameFiles(pc, pc') /\ SameServer(pc, pc') /\ pc'.ch = pc.ch
      /\ pc'.cluster.port = job.port /\ pc'.cluster.preload = pc.cluster.preload
  BY SetPortIs
<1>2. /\ job'.kind = "install" /\ job'.flavor = job.flavor /\ job'.moved = (pc.cluster.port # job.port)
  BY <1>1 DEF Job
<1>3. /\ pc'.files = pc.files /\ pc'.partial = pc.partial /\ pc'.service = pc.service /\ pc'.port = pc.port
      /\ pc'.up = pc.up
  BY <1>1 DEF SameFiles, SameServer
<1>4. Whole(pc) /\ Loads(pc) /\ OnPort(pc) /\ Provided(pc, job, at)
  BY <1>1 DEF FinishInv, Moving
<1>5. (Whole(pc) /\ Loads(pc))'
  BY <1>1, <1>3, <1>4 DEF Whole, Loads
<1>6. pc.up => pc.cluster.port = job.port
  BY <1>1 DEF Inv, Services, PlanInv, Settled, Together, Settings
<1>7. (OnPort(pc) \/ Moving(pc, job, at))'
  BY <1>1, <1>2, <1>3, <1>4, <1>6 DEF OnPort, Moving
<1>8. Provided(pc, job, at)'
  BY <1>1, <1>2, <1>3, <1>4, AfterIs, AfterAre DEF ToPostgres, AfterWsl, Provided
<1> QED BY <1>1, <1>2, <1>5, <1>7, <1>8 DEF FinishInv

LEMMA InstallTimescaleFinish ==
  ASSUME Inv, FinishInv, InstallTimescale
  PROVE  FinishInv'
<1>1. /\ at = "timescale" /\ job.kind = "install" /\ pc.cluster # None
      /\ SameData(pc, pc') /\ SameServer(pc, pc') /\ pc'.partial = pc.partial
      /\ \/ "timescale" \in pc.files /\ pc' = pc /\ at' = "service" /\ job' = job /\ last' = last
         \/ pc'.files = pc.files \union {"timescale"} /\ at' = "preload" /\ job' = job /\ last' = last
         \/ End("stuck") /\ "timescale" \in pc.partial
  BY InstallTimescaleIs
<1>2. Whole(pc) /\ Loads(pc) /\ (OnPort(pc) \/ Moving(pc, job, at)) /\ Provided(pc, job, at)
  BY <1>1 DEF FinishInv
<1>3. "timescale" \notin pc.partial
  BY <1>2 DEF Whole
<1>4. /\ pc'.cluster = pc.cluster /\ pc'.ch = pc.ch /\ pc'.service = pc.service /\ pc'.port = pc.port /\ pc'.up = pc.up
  BY <1>1 DEF SameServer, SameData
<1>5. /\ at' \in {"service", "preload"} /\ job' = job /\ last' = last
      /\ pc.files \subseteq pc'.files /\ "timescale" \in pc'.files /\ pc'.files \subseteq pc.files \union {"timescale"}
      /\ at' = "service" => pc'.files = pc.files /\ "timescale" \in pc.files
  BY <1>1, <1>3
<1>6. (Whole(pc) /\ (Loads(pc) \/ at = "preload"))'
  BY <1>1, <1>2, <1>4, <1>5 DEF Whole, Loads
<1>7. (OnPort(pc) \/ Moving(pc, job, at))'
  BY <1>1, <1>2, <1>4, <1>5 DEF OnPort, Moving
<1>8. Provided(pc', job, at')
  BY <1>1, <1>2, <1>4, <1>5, AfterIs, AfterAre DEF ToPostgres, AfterWsl, Provided, Loads
<1> QED BY <1>1, <1>5, <1>6, <1>7, <1>8 DEF FinishInv, Provided

LEMMA ServerFinish ==
  ASSUME Inv, PlanInv, FinishInv, Preload \/ RegisterPostgres \/ StartPostgres
  PROVE  FinishInv'
<1>0. at \in {"preload", "service", "start"} /\ job.kind = "install" /\ pc.cluster # None
  BY PreloadIs, RegisterPostgresIs, StartPostgresIs
<1>1. Whole(pc) /\ (Loads(pc) \/ at = "preload") /\ (OnPort(pc) \/ Moving(pc, job, at)) /\ Provided(pc, job, at)
  BY <1>0 DEF FinishInv
<1>3. at \in ToSet(Paths["install"]) /\ Applies(job, at)
  BY <1>0, JobKind DEF Inv
<1>4. CASE Preload
  BY <1>0, <1>1, <1>3, <1>4, PreloadIs, InstallNext, ProvidedNext, FinishNext DEF SameFiles,
     SameServer, Whole, Loads, OnPort, Moving, Provided
<1>5. CASE RegisterPostgres
  BY <1>0, <1>1, <1>3, <1>5, RegisterPostgresIs, InstallNext, ProvidedNext,
     FinishNext DEF SameFiles, SameData, Whole, Loads, OnPort, Moving, Provided
<1>6. CASE StartPostgres
  BY <1>0, <1>1, <1>6, StartPostgresIs, ReachedIs, AfterIs, ProvidedNext,
     FinishNext DEF SameFiles, SameData, OnPort, Moving, Started, Stopped, Whole, Loads, Provided
<1> QED BY <1>4, <1>5, <1>6

LEMMA OwnPrograms ==
  ASSUME FinishInv
  PROVE  "programs" \in pc.files => "wrapper" \in pc.files
BY DEF FinishInv, Whole

LEMMA RunningFinish ==
  ASSUME Inv, PlanInv, FinishInv, InitDb \/ EnableTimescale \/ Tune
  PROVE  FinishInv'
<1>1. CASE InitDb
  BY <1>1, InitDbIs, OwnPrograms, FinishTask DEF SameFiles, SameServer
<1>2. CASE EnableTimescale
  BY <1>2, EnableTimescaleIs, OwnPrograms, FinishTask DEF FinishInv, Provided
<1>3. CASE Tune
  BY <1>3, TuneIs, OwnPrograms, FinishTask DEF SameFiles, SameData, Started, Stopped
<1> QED BY <1>1, <1>2, <1>3

LEMMA DatabaseFinish ==
  ASSUME Inv, PlanInv, FinishInv,
         SyncRolePassword \/ PrepareExisting \/ Create \/ RequirePasswords \/ Partition \/ SetAdmin
  PROVE  FinishInv'
<1>1. /\ at \in {"role", "kept", "create", "passwords", "partition", "admin"}
      /\ NextTask \/ \E how : End(how) /\ (job.kind = "install" => how # "stuck")
      /\ pc.cluster # None /\ pc'.cluster # None
      /\ SameFiles(pc, pc') /\ SameServer(pc, pc')
      /\ pc'.ch.account = pc.ch.account /\ pc'.ch.there = pc.ch.there /\ pc'.ch.db = pc.ch.db
      /\ pc'.cluster.port = pc.cluster.port /\ pc'.cluster.preload = pc.cluster.preload
  BY SyncRolePasswordIs, PrepareExistingIs, CreateIs, RequirePasswordsIs, PartitionIs,
     SetAdminIs DEF InDatabase
<1>2. /\ pc'.files = pc.files /\ pc'.partial = pc.partial /\ pc'.service = pc.service /\ pc'.port = pc.port
  BY <1>1 DEF SameFiles, SameServer
<1> QED BY <1>1, <1>2, OwnPrograms, FinishTask

LEMMA SchemaFinish ==
  ASSUME Inv, PlanInv, FinishInv, InstallSchema
  PROVE  FinishInv'
<1>1. /\ at = "schema" /\ pc.cluster # None /\ pc'.cluster # None
      /\ SameFiles(pc, pc') /\ SameServer(pc, pc')
      /\ pc'.ch.account = pc.ch.account /\ pc'.ch.there = pc.ch.there
      /\ pc'.cluster.port = pc.cluster.port /\ pc'.cluster.preload = pc.cluster.preload
      /\ \/ /\ NextTask /\ pc.cluster.dbs[0] \in Databases(Name)
            /\ pc'.ch.db = IF job.flavor = "clickhouse" /\ pc.ch.there /\ pc.ch.db = None
                           THEN pc.cluster.dbs[0].of ELSE pc.ch.db
         \/ NextTask /\ ~AppSignsIn /\ pc' = pc
         \/ End("stuck") /\ pc' = pc /\ ~Programs
  BY InstallSchemaIs
<1>2. /\ pc'.files = pc.files /\ pc'.partial = pc.partial /\ pc'.service = pc.service /\ pc'.port = pc.port
  BY <1>1 DEF SameFiles, SameServer
<1>3. at \in AfterStage /\ at \in AfterCreate /\ at \in AfterStart /\ at \notin AfterSchema
      /\ at \notin AfterWsl \union {"provision"}
  BY <1>1, AfterIs, AfterAre DEF AfterWsl
<1>4. job.kind = "install" =>
        /\ AppSignsIn /\ Programs
        /\ job.flavor = "clickhouse" => pc.ch.there
  BY <1>1, <1>3, ReachedIs DEF FinishInv, Provided, Programs, AppSignsIn, Database
<1>5. NextTask \/ \E how : End(how) /\ (job.kind = "install" => how # "stuck")
  BY <1>1, <1>4
<1>6. job.kind = "install" /\ NextTask => (job.flavor = "clickhouse" => pc'.ch.db # None)
  BY <1>1, <1>4, FollowingIs, NoneAssumption DEF NextTask, End, Inv, Databases
<1> QED BY <1>1, <1>2, <1>3, <1>5, <1>6, OwnPrograms, FinishTask

LEMMA ServiceFinish ==
  ASSUME Inv, PlanInv, FinishInv, Register \/ Serve
  PROVE  FinishInv'
<1>1. /\ at \in {"register", "serve"} /\ SameFiles(pc, pc') /\ SameData(pc, pc') /\ pc'.service = pc.service
      /\ pc'.port = pc.port
      /\ NextTask \/ \E how : End(how) /\ (job.kind = "install" => how # "stuck")
  <2>1. CASE Register
    <3>1. /\ at = "register" /\ SameFiles(pc, pc') /\ SameServer(pc, pc') /\ SameData(pc, pc')
          /\ NextTask \/ (End("stuck") /\ "wrapper" \notin pc.files)
      BY <2>1, RegisterIs
    <3>2. job.kind = "install" => "wrapper" \in pc.files
      BY <3>1, AfterIs, OwnPrograms DEF FinishInv, Provided
    <3> QED BY <3>1, <3>2 DEF SameServer
  <2>2. CASE Serve
    <3>1. /\ at = "serve" /\ SameFiles(pc, pc') /\ SameData(pc, pc') /\ pc'.service = pc.service /\ pc'.port = pc.port
          /\ job.kind \in {"install", "repair", "reconfigure"}
          /\ \/ IF job.kind = "install" THEN at' = "admin" /\ job' = job /\ last' = last ELSE End("done")
             \/ End("stuck") /\ ~Answers(pc)
             \/ End("refused")
      BY <2>2, ServeIs
    <3>2. job.kind = "install" => Answers(pc)
      BY <3>1, AfterIs, AfterAre, ReachedIs DEF AfterWsl, PlanInv, PlansFilled, Filled, Settled,
         FinishInv, Provided, Answers, Settings, NoEnv
    <3>3. job.kind = "install" => Following = "admin" /\ at # Last(Paths[job.kind])
      BY <3>1, JobKind, InstallNext, Lasts DEF Inv
    <3>4. NextTask \/ \E how : End(how) /\ (job.kind = "install" => how # "stuck")
      BY <3>1, <3>2, <3>3 DEF NextTask
    <3> QED BY <3>1, <3>4
  <2> QED BY <2>1, <2>2
<1>2. pc'.files = pc.files /\ pc'.partial = pc.partial /\ pc'.cluster = pc.cluster /\ pc'.ch = pc.ch
  BY <1>1 DEF SameFiles, SameData
<1> QED BY <1>1, <1>2, OwnPrograms, FinishTask

LEMMA FinishFinish ==
  ASSUME Inv, FinishInv, SaveSecrets \/ SecretsUnsaved \/ SaveRecord
  PROVE  FinishInv'
<1>1. CASE SaveSecrets \/ SecretsUnsaved
  BY <1>1, SaveSecretsIs, OwnPrograms, FinishTask DEF SameFiles, SameData
<1>2. CASE SaveRecord
  BY <1>2, SaveRecordIs, FinishEnd DEF SameFiles, SameData, SameServer, FinishInv, Moving, Whole,
     Loads, OnPort
<1> QED BY <1>1, <1>2

LEMMA RemovalFinish ==
  ASSUME Inv, FinishInv, StopServer \/ RemovePlatform \/ Release \/ Clean \/ Forget \/ RemoveRecord
  PROVE  FinishInv'
<1>1. CASE StopServer \/ RemovePlatform \/ Release
  BY <1>1, RemovalTasksAre, OwnPrograms, FinishTask DEF SameData
<1>2. CASE Clean \/ Forget
  BY <1>2, DeletionTasksAre, FinishNext DEF FinishInv, Moving, Whole, Loads, OnPort
<1>3. CASE RemoveRecord
  BY <1>3, RemoveRecordIs, FinishEnd DEF SameData, SameServer, FinishInv, Moving, Whole, Loads,
     OnPort
<1> QED BY <1>1, <1>2, <1>3

LEMMA FailFinish ==
  ASSUME Finishable, Inv, FinishInv, Fail
  PROVE  FinishInv'
<1>1. /\ at # "idle" /\ End("failed") /\ SameData(pc, pc') /\ pc'.up = pc.up
      /\ \/ at \in MayFail /\ pc' = pc
         \/ at \in TearAt /\ at # "secrets" /\ pc' = Torn(at)
  BY FailIs
<1>2. at \notin {"timescale", "preload", "service"}
  BY <1>1 DEF Finishable
<1>3. /\ pc'.partial = pc.partial /\ pc'.files = pc.files
      /\ \/ pc'.port \in {pc.port, 0} /\ (at = "start" /\ job.moved => pc'.port = Stopped(pc.port))
         \/ pc' = pc /\ at # "start"
  <2>1. CASE at \in MayFail /\ pc' = pc
    BY <2>1 DEF Finishable
  <2>2. CASE at \in TearAt /\ pc' = Torn(at)
    BY <2>2 DEF Finishable, Inv, Torn, Stopped, Computer
  <2> QED BY <1>1, <2>1, <2>2
<1>4. Whole(pc) /\ Loads(pc) /\ (OnPort(pc) \/ (at = "start" /\ job.moved /\ ~pc.up))
  BY <1>2 DEF FinishInv, Moving
<1>5. pc'.cluster = pc.cluster
  BY <1>1 DEF SameData
<1>6. Whole(pc') /\ Loads(pc')
  BY <1>3, <1>4, <1>5 DEF Whole, Loads
<1>7. OnPort(pc')
  BY <1>3, <1>4, <1>5 DEF OnPort, Stopped
<1> QED BY <1>1, <1>6, <1>7, FinishEnd

(* Between jobs, and a job that begins.                                    *)
LEMMA FinishIdle ==
  ASSUME Inv, FinishInv, at = "idle", last' = last, job'.kind = "install" => at' = "manager",
         SameFiles(pc, pc'),
         pc'.cluster # None => pc.cluster # None /\ pc'.cluster.preload = pc.cluster.preload
                               /\ pc'.cluster.port = pc.cluster.port,
         pc.cluster # None => pc'.cluster # None,
         pc'.port \in {pc.port, 0} \/ (pc.cluster # None /\ pc'.port = pc.cluster.port)
  PROVE  FinishInv'
<1>1. pc'.files = pc.files /\ pc'.partial = pc.partial
  BY DEF SameFiles
<1>2. Whole(pc) /\ Loads(pc) /\ OnPort(pc)
  BY DEF FinishInv, Moving
<1>3. (Whole(pc) /\ Loads(pc))'
  BY <1>1, <1>2 DEF Whole, Loads
<1>4. OnPort(pc)'
  BY <1>2 DEF OnPort
<1>5. (job.kind = "install" => Provided(pc, job, at))'
  BY AfterIs, AfterAre DEF AfterWsl, ToPostgres, Provided
<1> QED BY <1>3, <1>4, <1>5 DEF FinishInv

LEMMA OperatorFinish ==
  ASSUME Inv, FinishInv, Operator
  PROVE  FinishInv'
<1>1. CASE \/ (\E c \in Plans : Install(c)) \/ Retry \/ \E k \in Kinds \ {"install"} : StartChange(k)
  BY <1>1, Firsts, SameIs, FinishIdle DEF Install, CanInstall, Retry, StartChange, StartInstall,
     Begin
<1>2. CASE Resume
  BY <1>2, BootedIs, ResumeIs, FinishIdle DEF Inv, Resume, StartInstall, Computer, SameFiles
<1>3. CASE \E g \in GivenSuper : Adopt(g)
  BY <1>3, AdoptLeaves, FinishIdle DEF Inv, JobOK, NoJob, SameServer
<1>4. CASE \E run \in BOOLEAN : Control(run)
  BY <1>4, ControlLeaves, FinishIdle DEF Inv, JobOK, NoJob, SameData
<1> QED BY <1>1, <1>2, <1>3, <1>4 DEF Operator

LEMMA FinishInit == Init => FinishInv
BY InitFacts DEF NoJob, Whole, Loads, OnPort, FinishInv

LEMMA FinishNextInv ==
  ASSUME Finishable, Inv, PlanInv, FinishInv, [Next]_vars
  PROVE  FinishInv'
<1>1. CASE UNCHANGED vars
  <2>1. UNCHANGED <<pc, at, job, last>>
    BY <1>1 DEF vars
  <2>2. (Whole(pc) /\ (Loads(pc) \/ at = "preload") /\ (OnPort(pc) \/ Moving(pc, job, at)))'
    BY <2>1, Zenon DEF FinishInv, Whole, Loads, OnPort, Moving
  <2>3. (job.kind = "install" => Provided(pc, job, at))'
    BY <2>1, Zenon DEF FinishInv, Provided
  <2> QED BY <2>1, <2>2, <2>3 DEF FinishInv
<1>2. CASE Operator
  BY <1>2, OperatorFinish
<1>3. CASE Task
  <2>1. CASE InstallManager \/ InstallRuntime \/ InstallPostgres \/ Stage \/ WriteEnv \/ MakeShortcuts
    BY <2>1, FilesFinish
  <2>2. CASE EnableWsl \/ MakeAccount \/ Provision \/ SetAsideHistory
    BY <2>2, ClickhouseFinish
  <2>3. CASE SetPort \/ InstallTimescale
    BY <2>3, SetPortFinish, InstallTimescaleFinish
  <2>4. CASE Preload \/ RegisterPostgres \/ StartPostgres
    BY <2>4, ServerFinish
  <2>5. CASE InitDb \/ EnableTimescale \/ Tune
    BY <2>5, RunningFinish
  <2>6. CASE SyncRolePassword \/ PrepareExisting \/ Create \/ RequirePasswords \/ Partition \/ SetAdmin
    BY <2>6, DatabaseFinish
  <2>7. CASE InstallSchema
    BY <2>7, SchemaFinish
  <2>8. CASE Register \/ Serve
    BY <2>8, ServiceFinish
  <2>9. CASE SaveSecrets \/ SaveRecord
    BY <2>9, FinishFinish
  <2>10. CASE StopServer \/ RemovePlatform \/ Release \/ Clean \/ Forget \/ RemoveRecord
    BY <2>10, RemovalFinish
  <2> QED BY <1>3, <2>1, <2>2, <2>3, <2>4, <2>5, <2>6, <2>7, <2>8, <2>9, <2>10 DEF Task
<1>4. CASE Fail
  BY <1>4, FailFinish
<1>5. CASE SecretsUnsaved
  BY <1>5, FinishFinish
<1> QED BY <1>1, <1>2, <1>3, <1>4, <1>5 DEF Next

(* A setup that ends in the middle leaves nothing a later one is stopped   *)
(* by, wherever it ends, as long as no file is left half written and no    *)
(* call fails from TimescaleDB's files until PostgreSQL has started on its *)
(* port (native::setup, native::set_pg_port): "run setup again to finish   *)
(* or remove it".                                                          *)
THEOREM SetupFinishes ==
  ASSUME ~LateResume,
         {"timescale", "preload", "service", "start"} \cap MayFail = {},
         {"timescale", "preload", "service", "postgres", "stage"} \cap TearAt = {}
  PROVE  Spec => []SetupAgainFinishes
<1>1. Init => FinishInv
  BY FinishInit
<1>2. Finishable
  BY DEF Finishable
<1>3. Inv /\ PlanInv /\ FinishInv /\ [Next]_vars => FinishInv'
  BY <1>2, FinishNextInv
<1>4. FinishInv => SetupAgainFinishes
  BY DEF FinishInv, SetupAgainFinishes
<1>5. Spec => []PlanInv
  BY PlanKept
<1>6. Spec => []FinishInv
  BY <1>1, <1>3, <1>5, Invariant, PTL DEF Spec
<1> QED BY <1>4, <1>6, PTL

----------------------------------------------------------------------------
(* An installation ends as it was chosen: what its tasks find and leave of *)
(* SENTIENT's database.                                                    *)
Fits(flavor) ==
  CASE flavor = "stock" -> {"missing", "plain", "partitioned"}
    [] flavor = "timescaledb" -> {"missing", "hypertable"}
    [] flavor = "clickhouse" -> Unpartitioned \union {"missing", "partitioned", "hypertable"}
Staged == {"stage"} \union AfterStage
Suits(d, j) == d # None => d.shape \in Fits(j.flavor) \union AsFound(j)
(* With no choice made there was no cluster, or only what setups made.     *)
Fitted(d, j) == j.existing = "none" => Suits(d, j)
StillThere(d, j) == j.before # None => d # None /\ d.of = j.before.of
Met(d, j, s) ==
  /\ j.before # None => j.before.of < j.n
  /\ j.existing = "none" \/ s \in Staged => Suits(d, j)
  /\ IF j.existing = "fresh" /\ s \in Staged THEN d # None => d.of = j.n ELSE StillThere(d, j)
  /\ j.flavor = "stock" /\ s \in AfterRegister \union {"register"} => d.shape \in {"partitioned"} \union AsFound(j)
  /\ s \in {"secrets", "shortcuts", "record"} => d.admin = "chosen"
(* An administrator comes with the schema.                                 *)
Sound(d, n) == d # None => d.of <= n /\ (d.shape # "missing" => d.admin # "none")
Right(p, d, plan) ==
  /\ p.record # None /\ p.env # None /\ p.record.flavor = plan.flavor /\ p.env.flavor = plan.flavor
  /\ d.shape \in Shapes(plan.flavor) \union AsFound(plan) /\ d.admin = "chosen"
  /\ plan.before # None => IF plan.existing = "fresh" THEN d.of # plan.before.of ELSE d.of = plan.before.of
ChosenInv ==
  /\ Sound(Database, setups) /\ (at # "idle" => job.n <= setups)
  /\ job.kind = "install" => Met(Database, job, at)
  /\ Again => Fitted(Database, last.plan)
  /\ pc.pending # None /\ pc.pending.n = setups => Fitted(Database, pc.pending) /\ StillThere(Database, pc.pending)
  /\ JustInstalled => Right(pc, Database, last.plan)

LEMMA ChosenNext ==
  ASSUME Inv, PlanInv, PlanInv', ChosenInv, at # "idle", NextTask, setups' = setups, Sound(Database', setups),
         job.kind = "install" => Met(Database', job, Following)
  PROVE  ChosenInv'
<1>1. at' = Following /\ job' = job /\ last' = last /\ at' # "idle"
  BY FollowingIs DEF NextTask, Inv
<1>2. (Sound(Database, setups) /\ (at # "idle" => job.n <= setups))'
  BY <1>1 DEF ChosenInv, Sound
<1>3. (job.kind = "install" => Met(Database, job, at))'
  BY <1>1 DEF Met, StillThere, Suits
<1>4. ~Again' /\ ~JustInstalled' /\ ~(pc.pending # None /\ pc.pending.n = setups)'
  BY <1>1 DEF Again, JustInstalled, PlanInv, PendingOK
<1> QED BY <1>2, <1>3, <1>4 DEF ChosenInv

LEMMA ChosenEnd ==
  ASSUME Inv, PlanInv, ChosenInv, at # "idle", NEW how, End(how), setups' = setups, Sound(Database', setups),
         job.kind = "install" => Fitted(Database', job),
         \/ pc'.pending = pc.pending
         \/ job.kind = "install" /\ pc'.pending = job /\ StillThere(Database', job),
         job.kind = "install" /\ how = "done" => Right(pc', Database', job)
  PROVE  ChosenInv'
<1>1. at' = "idle" /\ job'.kind # "install" /\ last'.plan = job /\ last'.end = how
  BY DEF End, NoJob
<1>2. (Sound(Database, setups) /\ (at # "idle" => job.n <= setups))'
  BY <1>1 DEF Sound
<1>3. (Again => Fitted(Database, last.plan))'
  BY <1>1 DEF Again, Fitted, Suits
<1>4. (JustInstalled => Right(pc, Database, last.plan))'
  BY <1>1 DEF JustInstalled, Right
<1>5. (pc.pending # None /\ pc.pending.n = setups => Fitted(Database, pc.pending) /\ StillThere(Database, pc.pending))'
  BY DEF PlanInv, PendingOK, Fitted, StillThere, Suits
<1> QED BY <1>1, <1>2, <1>3, <1>4, <1>5 DEF ChosenInv

(* What a task has met, the next one finds.                                *)
LEMMA MetNext ==
  ASSUME Inv, job.kind = "install", at # "idle", at # "record", at # "kept", NEW d, Met(d, job, at),
         at \in {"register", "partition"} /\ job.flavor = "stock" => d.shape \in {"partitioned"} \union AsFound(job),
         at = "admin" => d.admin = "chosen"
  PROVE  Met(d, job, Following)
<1>1. at \in ToSet(Paths["install"]) /\ Applies(job, at)
  BY JobKind DEF Inv
<1>2. /\ Following \in Staged => at \in Staged \/ job.existing = "none"
      /\ Following \in AfterRegister \union {"register"} =>
           \/ at \in AfterRegister \union {"register", "partition"}
           \/ at = "schema" /\ Following # "partition"
      /\ Following \in {"secrets", "shortcuts", "record"} => at \in {"admin", "secrets", "shortcuts", "record"}
  BY <1>1, InstallBefore, InstallNext, AfterIs DEF Staged
<1>3. at \in Staged => Following \in Staged
  BY <1>1, InstallNext, AfterIs DEF Staged
<1>4. job.existing = "none" \/ Following \in Staged => Suits(d, job)
  BY <1>2 DEF Met
<1>5. IF job.existing = "fresh" /\ Following \in Staged THEN d # None => d.of = job.n ELSE StillThere(d, job)
  BY <1>2, <1>3 DEF Met
<1>6. job.flavor = "stock" /\ Following \in AfterRegister \union {"register"} => d.shape \in {"partitioned"} \union AsFound(job)
  BY <1>1, <1>2, InstallNext, AfterIs DEF Met
<1> QED BY <1>2, <1>4, <1>5, <1>6 DEF Met

(* A task that leaves SENTIENT's database as it is.                        *)
LEMMA ChosenSame ==
  ASSUME Inv, PlanInv, PlanInv', ChosenInv, at # "idle", at \notin {"record", "kept", "partition", "admin"},
         setups' = setups, Database' = Database,
         NextTask \/ \E how : End(how) /\ (job.kind = "install" => how # "done") /\ pc'.pending = pc.pending
  PROVE  ChosenInv'
<1>1. Sound(Database', setups) /\ (job.kind = "install" => Met(Database', job, at))
  BY DEF ChosenInv
<1>2. job.kind = "install" => Fitted(Database', job)
  BY <1>1 DEF Met, Fitted
<1>3. CASE NextTask
  BY <1>1, <1>3, MetNext, ChosenNext DEF Met
<1>4. CASE ~NextTask
  BY <1>1, <1>2, <1>4, ChosenEnd
<1> QED BY <1>3, <1>4

(* Setting the port changes the plan, and TimescaleDB's files may be there *)
(* already.                                                                *)
LEMMA ChosenServer ==
  ASSUME Inv, PlanInv, PlanInv', ChosenInv, SetPort \/ InstallTimescale
  PROVE  ChosenInv'
<1>1. /\ at \in {"port", "timescale"} /\ setups' = setups /\ job.kind = "install" /\ job \in Job
      /\ Database' = Database /\ pc'.pending = pc.pending
      /\ \/ /\ at' \in {"timescale", "preload", "service"}
            /\ job' = job \/ job' = [job EXCEPT !.moved = pc.cluster.port # job.port]
         \/ End("stuck")
  <2>1. CASE SetPort
    BY <2>1, SetPortIs DEF SameNotes, Database, Rest
  <2>2. CASE InstallTimescale
    BY <2>2, InstallTimescaleIs DEF Inv, JobOK, SameNotes, SameData, Database, Rest
  <2> QED BY <2>1, <2>2
<1>2. Met(Database, job, at) /\ Sound(Database, setups) /\ job.n <= setups
  BY <1>1 DEF ChosenInv
<1>3. at \notin Staged /\ at # "idle"
  BY <1>1, AfterIs DEF Staged
<1>4. CASE End("stuck")
  BY <1>1, <1>2, <1>3, <1>4, ChosenEnd DEF Met, Fitted
<1>5. CASE ~End("stuck")
  <2>1. /\ at' \in {"timescale", "preload", "service"} /\ job'.kind = "install" /\ job'.flavor = job.flavor
        /\ job'.existing = job.existing /\ job'.before = job.before /\ job'.n = job.n
    BY <1>1, <1>5 DEF Job
  <2>2. at' \notin Staged /\ at' \notin AfterRegister \union {"register", "secrets", "shortcuts", "record"}
    BY <2>1, AfterIs DEF Staged
  <2>3. Met(Database, job, at)'
    BY <1>1, <1>2, <1>3, <2>1, <2>2 DEF Met, StillThere, Suits, AsFound
  <2>4. Sound(Database, setups)'
    BY <1>1, <1>2 DEF Sound
  <2>5. ~Again' /\ ~JustInstalled' /\ ~(pc.pending # None /\ pc.pending.n = setups)'
    BY <2>1 DEF Again, JustInstalled, PlanInv, PendingOK
  <2> QED BY <1>1, <1>2, <2>1, <2>3, <2>4, <2>5 DEF ChosenInv
<1> QED BY <1>4, <1>5

LEMMA FilesChosen ==
  ASSUME Inv, PlanInv, PlanInv', ChosenInv,
         InstallManager \/ InstallRuntime \/ InstallPostgres \/ Stage \/ WriteEnv \/ MakeShortcuts
  PROVE  ChosenInv'
BY FileTasksAre, ChosenSame DEF SameNotes, SameData, Database, Rest

LEMMA ClickhouseChosen ==
  ASSUME Inv, PlanInv, PlanInv', ChosenInv, EnableWsl \/ MakeAccount \/ Provision \/ SetAsideHistory
  PROVE  ChosenInv'
<1>1. /\ at \in {"wsl", "account", "provision", "history"} /\ Rest /\ pc'.cluster = pc.cluster
      /\ \/ NextTask
         \/ at = "wsl" /\ pc'.pending = job /\ End("restart")
         \/ pc' = pc /\ End("stuck")
  BY ClickhouseTasksAre
<1>2. Database' = Database /\ setups' = setups
  BY <1>1 DEF Database, Rest
<1>3. CASE at = "wsl" /\ pc'.pending = job /\ End("restart")
  BY <1>2, <1>3, OwnTasks, AfterIs, ChosenEnd DEF Inv, Staged, ChosenInv, Met, Fitted
<1>4. CASE NextTask \/ (pc' = pc /\ End("stuck"))
  BY <1>1, <1>2, <1>4, ChosenSame
<1> QED BY <1>1, <1>3, <1>4

LEMMA ServerChosen ==
  ASSUME Inv, PlanInv, PlanInv', ChosenInv,
         InitDb \/ Preload \/ RegisterPostgres \/ StartPostgres \/ EnableTimescale \/ Tune
  PROVE  ChosenInv'
<1>1. CASE InitDb \/ Preload
  <2>1. at \in {"initdb", "preload"} /\ NextTask /\ Rest
    BY <1>1, InitDbIs, PreloadIs
  <2>2. Database' = Database
    <3>1. CASE InitDb
      BY <3>1, SetupAssumption, InitDbIs DEF Name, Database, NoDatabases
    <3>2. CASE Preload
      BY <3>2, PreloadIs DEF Database
    <3> QED BY <1>1, <3>1, <3>2
  <2>3. setups' = setups
    BY <2>1 DEF Rest
  <2> QED BY <2>1, <2>2, <2>3, ChosenSame
<1>2. CASE RegisterPostgres \/ StartPostgres \/ EnableTimescale \/ Tune
  BY <1>2, RegisterPostgresIs, StartPostgresIs, EnableTimescaleIs, TuneIs, SameIs,
     ChosenSame DEF SameNotes, SameData, Database, Rest
<1> QED BY <1>1, <1>2

LEMMA RolesChosen ==
  ASSUME Inv, PlanInv, PlanInv', ChosenInv, SyncRolePassword \/ RequirePasswords
  PROVE  ChosenInv'
BY SyncRolePasswordIs, RequirePasswordsIs, ChosenSame DEF SameNotes, Database, Rest

(* A database that is kept fits its type, or is refused; one that is set   *)
(* aside is gone.                                                          *)
LEMMA KeptChosen ==
  ASSUME Inv, PlanInv, PlanInv', ChosenInv, PrepareExisting
  PROVE  ChosenInv'
<1>1. /\ at = "kept" /\ job.kind = "install" /\ job.existing # "none" /\ setups' = setups
      /\ pc.cluster # None /\ pc'.cluster # None /\ pc'.pending = pc.pending
      /\ \/ /\ NextTask /\ ~Refuses(pc.cluster.dbs, job.existing, job.flavor)
            /\ pc'.cluster.dbs = Prepared(pc.cluster.dbs, job.existing, job.flavor, job.n)
         \/ End("refused") /\ pc' = pc
  BY PrepareExistingIs DEF SameNotes, Rest
<1>2. Met(Database, job, at) /\ Sound(Database, setups) /\ Fitted(Database, job)
  BY <1>1 DEF ChosenInv, Fitted
<1>3. CASE End("refused") /\ pc' = pc
  BY <1>1, <1>2, <1>3, ChosenEnd DEF Database
<1>4. CASE /\ NextTask /\ ~Refuses(pc.cluster.dbs, job.existing, job.flavor)
           /\ pc'.cluster.dbs = Prepared(pc.cluster.dbs, job.existing, job.flavor, job.n)
  <2>1. /\ job.existing \in {"keep", "fresh"} /\ job.flavor \in Flavors /\ 0 \in Name /\ job.n \in Name \ {0}
        /\ pc.cluster.dbs \in [Name -> Databases(Name) \union {None}]
        /\ job.before \in Databases(Name) \union {None}
    BY <1>1, SetupAssumption DEF Inv, JobOK, Computer, Job, Name, Cluster
  <2>2. Following = "stage"
    BY <1>1, JobKind, InstallNext DEF Inv
  <2>3. Database = pc.cluster.dbs[0] /\ Database' = pc'.cluster.dbs[0]
    BY <1>1 DEF Database
  <2>4. CASE Database = None \/ job.existing = "fresh"
    <3>1. Database' = None
      BY <1>4, <2>1, <2>3, <2>4 DEF Prepared, SetAside
    <3>2. job.existing # "fresh" => job.before = None
      BY <1>1, <1>2, <2>4 DEF Met, StillThere
    <3>3. "stage" \notin AfterRegister \union {"register", "secrets", "shortcuts", "record"}
      BY AfterIs
    <3>4. Sound(Database', setups) /\ Met(Database', job, "stage")
      BY <1>2, <3>1, <3>2, <3>3 DEF Sound, Met, Suits, StillThere, Staged
    <3> QED BY <1>1, <1>4, <2>2, <3>4, ChosenNext
  <2>5. CASE Database # None /\ job.existing = "keep"
    <3>1. Database \in Databases(Name) /\ Verdict(Database.shape, job.flavor) # "refused"
      BY <1>4, <2>1, <2>3, <2>5 DEF Refuses
    <3>2. /\ Database' # None /\ Database'.of = Database.of /\ Database'.admin = Database.admin
          /\ Database'.shape = IF Verdict(Database.shape, job.flavor) = "convert" THEN "hypertable" ELSE Database.shape
      <4>1. CASE Verdict(Database.shape, job.flavor) = "convert"
        BY <1>4, <2>1, <2>3, <2>5, <3>1, <4>1, NoneAssumption DEF Prepared, Converted, Databases
      <4>2. CASE Verdict(Database.shape, job.flavor) # "convert"
        BY <1>4, <2>1, <2>3, <2>5, <4>2 DEF Prepared
      <4> QED BY <4>1, <4>2
    <3>3. Database'.shape \in Fits(job.flavor) \union AsFound(job)
      BY <2>1, <2>5, <3>1, <3>2 DEF Verdict, Fits, Unpartitioned, AsFound, Databases, Flavors
    <3>4. Verdict(Database.shape, job.flavor) = "convert" => Database.shape \in Unpartitioned
      BY DEF Verdict, Unpartitioned
    <3>5. Sound(Database', setups)
      BY <1>2, <2>5, <3>2, <3>4 DEF Sound, Unpartitioned
    <3>6. "stage" \notin AfterRegister \union {"register", "secrets", "shortcuts", "record"}
      BY AfterIs
    <3>7. Met(Database', job, "stage")
      BY <1>1, <1>2, <2>5, <3>2, <3>3, <3>6 DEF Met, Suits, StillThere
    <3> QED BY <1>1, <1>4, <2>2, <3>5, <3>7, ChosenNext
  <2> QED BY <2>1, <2>4, <2>5
<1> QED BY <1>1, <1>3, <1>4

(* The database a setup makes is its own.                                  *)
LEMMA CreateChosen ==
  ASSUME Inv, PlanInv, PlanInv', ChosenInv, Create
  PROVE  ChosenInv'
<1> DEFINE d == IF pc.cluster.dbs[0] = None THEN Created(job.n) ELSE pc.cluster.dbs[0]
<1>1. /\ at = "create" /\ Rest /\ pc.cluster # None /\ pc'.cluster # None /\ SameNotes(pc, pc')
      /\ \/ NextTask /\ pc'.cluster.dbs[0] = d
         \/ (NextTask \/ End("refused")) /\ pc' = pc
  BY CreateIs
<1>2. setups' = setups /\ pc'.pending = pc.pending /\ Database = pc.cluster.dbs[0] /\ Database' = pc'.cluster.dbs[0]
  BY <1>1 DEF Rest, SameNotes, Database
<1>3. CASE Database' = Database
  BY <1>1, <1>2, <1>3, ChosenSame
<1>4. CASE Database' # Database
  <2>1. NextTask /\ Database = None /\ Database' = Created(job.n)
    BY <1>1, <1>2, <1>4
  <2>2. job.n <= setups /\ Sound(Database', setups)
    BY <1>1, <2>1 DEF ChosenInv, Sound, Created
  <2>3. job.kind = "install" => Met(Database', job, at)
    <3> SUFFICES ASSUME job.kind = "install" PROVE Met(Database', job, at)
      OBVIOUS
    <3>1. Met(Database, job, at) /\ at \in Staged /\ at \notin AfterRegister \union {"register", "secrets", "shortcuts", "record"}
      BY <1>1, AfterIs DEF ChosenInv, Staged
    <3>2. job.flavor \in Flavors
      BY <1>1 DEF Inv, JobOK, Job
    <3>3. Suits(Database', job) /\ Database'.of = job.n
      BY <2>1, <3>2 DEF Suits, Created, Fits, Unpartitioned, Flavors
    <3> QED BY <2>1, <3>1, <3>3 DEF Met, StillThere
  <2> QED BY <1>1, <1>2, <2>1, <2>2, <2>3, MetNext, ChosenNext
<1> QED BY <1>3, <1>4

(* The schema has the shape the type is installed with.                    *)
LEMMA SchemaChosen ==
  ASSUME Inv, PlanInv, PlanInv', ChosenInv, InstallSchema
  PROVE  ChosenInv'
<1>1. /\ at = "schema" /\ Rest /\ pc.cluster # None /\ pc'.cluster # None /\ SameNotes(pc, pc')
      /\ \/ /\ NextTask /\ pc.cluster.dbs[0] \in Databases(Name)
            /\ pc'.cluster.dbs[0] = Installed(pc.cluster.dbs[0])
         \/ (NextTask \/ End("stuck")) /\ pc' = pc
  BY InstallSchemaIs
<1>2. setups' = setups /\ pc'.pending = pc.pending /\ Database = pc.cluster.dbs[0] /\ Database' = pc'.cluster.dbs[0]
  BY <1>1 DEF Rest, SameNotes, Database
<1>3. CASE Database' = Database
  BY <1>1, <1>2, <1>3, ChosenSame
<1>4. CASE Database' # Database
  <2>1. NextTask /\ Database \in Databases(Name) /\ Database' = Installed(Database)
    BY <1>1, <1>2, <1>4
  <2>2. /\ Database # None /\ Database' # None /\ Database'.of = Database.of /\ Database.shape = "missing"
        /\ Database'.shape = IF job.flavor = "timescaledb" THEN "hypertable" ELSE "plain"
        /\ Database'.admin = "default"
    BY <1>4, <2>1, InstalledShape, NoneAssumption
  <2>3. Sound(Database', setups)
    BY <2>2 DEF ChosenInv, Sound
  <2>4. job.kind = "install" => Met(Database', job, at)
    BY <1>1, <2>2, AfterIs DEF ChosenInv, Inv, JobOK, Job, Suits, Fits, Unpartitioned, Flavors, Met, StillThere
  <2> QED BY <1>1, <1>2, <2>1, <2>3, <2>4, MetNext, ChosenNext
<1> QED BY <1>3, <1>4

LEMMA PartitionChosen ==
  ASSUME Inv, PlanInv, PlanInv', ChosenInv, Partition
  PROVE  ChosenInv'
<1> DEFINE d == IF pc.cluster.dbs[0].shape = "plain" THEN [pc.cluster.dbs[0] EXCEPT !.shape = "partitioned"]
                ELSE pc.cluster.dbs[0]
<1>1. /\ at = "partition" /\ job.flavor = "stock" /\ Rest /\ pc.cluster # None /\ pc'.cluster # None /\ SameNotes(pc, pc')
      /\ \/ NextTask /\ pc.cluster.dbs[0] \in Databases(Name) /\ pc'.cluster.dbs[0] = d
         \/ End("refused") /\ pc' = pc
  BY PartitionIs DEF InDatabase
<1>2. setups' = setups /\ pc'.pending = pc.pending /\ Database = pc.cluster.dbs[0] /\ Database' = pc'.cluster.dbs[0]
  BY <1>1 DEF Rest, SameNotes, Database
<1>3. CASE End("refused") /\ pc' = pc
  BY <1>1, <1>2, <1>3, ChosenEnd DEF ChosenInv, Met, Fitted
<1>4. CASE NextTask /\ pc.cluster.dbs[0] \in Databases(Name) /\ pc'.cluster.dbs[0] = d
  <2>1. /\ Database \in Databases(Name) /\ Database # None
        /\ Database' = IF Database.shape = "plain" THEN [Database EXCEPT !.shape = "partitioned"] ELSE Database
    BY <1>2, <1>4, NoneAssumption
  <2>2. /\ Database'.of = Database.of /\ Database'.admin = Database.admin
        /\ Database'.shape = IF Database.shape = "plain" THEN "partitioned" ELSE Database.shape
        /\ Database' # None
    BY <2>1, NoneAssumption DEF Databases
  <2>3. Sound(Database', setups)
    BY <2>1, <2>2 DEF ChosenInv, Sound
  <2>4. job.kind = "install" => Met(Database', job, at) /\ Database'.shape \in {"partitioned"} \union AsFound(job)
    BY <1>1, <1>2, <2>1, <2>2, AfterIs, ReachedIs DEF ChosenInv, Staged, Met, Suits, Fits, AsFound,
       StillThere
  <2> QED BY <1>1, <1>2, <1>4, <2>3, <2>4, MetNext, ChosenNext
<1> QED BY <1>1, <1>3, <1>4

LEMMA AdminChosen ==
  ASSUME Inv, PlanInv, PlanInv', ChosenInv, SetAdmin
  PROVE  ChosenInv'
<1>1. /\ at = "admin" /\ job.kind = "install" /\ Rest /\ pc.cluster # None /\ pc'.cluster # None /\ SameNotes(pc, pc')
      /\ \/ NextTask /\ pc.cluster.dbs[0] \in Databases(Name) /\ pc'.cluster.dbs[0] = WithAdministrator(pc.cluster.dbs[0])
         \/ End("refused") /\ pc' = pc
  BY SetAdminIs DEF InDatabase
<1>2. setups' = setups /\ pc'.pending = pc.pending /\ Database = pc.cluster.dbs[0] /\ Database' = pc'.cluster.dbs[0]
  BY <1>1 DEF Rest, SameNotes, Database
<1>3. Met(Database, job, at) /\ Sound(Database, setups) /\ Fitted(Database, job)
  BY <1>1 DEF ChosenInv, Met, Fitted
<1>4. CASE End("refused") /\ pc' = pc
  BY <1>1, <1>2, <1>3, <1>4, ChosenEnd
<1>5. CASE NextTask /\ pc.cluster.dbs[0] \in Databases(Name) /\ pc'.cluster.dbs[0] = WithAdministrator(pc.cluster.dbs[0])
  <2>1. Database \in Databases(Name) /\ Database # None /\ Database' = WithAdministrator(Database)
    BY <1>2, <1>5, NoneAssumption
  <2>2. at \in AfterSchema /\ Database.shape # "missing"
    BY <1>1, <1>2, AfterIs, ReachedIs
  <2>3. Database.admin \in {"default", "chosen"}
    BY <1>3, <2>1, <2>2 DEF Sound, Databases
  <2>4. /\ Database'.of = Database.of /\ Database'.admin = "chosen" /\ Database'.shape = Database.shape
        /\ Database' # None
    BY <2>1, <2>3, NoneAssumption DEF WithAdministrator, Databases
  <2>5. Sound(Database', setups)
    BY <1>3, <2>1, <2>4 DEF Sound
  <2>6. Met(Database', job, at)
    BY <1>3, <2>1, <2>4 DEF Met, Suits, StillThere
  <2> QED BY <1>1, <1>2, <1>5, <2>4, <2>5, <2>6, MetNext, ChosenNext
<1> QED BY <1>1, <1>4, <1>5

LEMMA ServiceChosen ==
  ASSUME Inv, PlanInv, PlanInv', ChosenInv, Register \/ Serve \/ SaveSecrets \/ SecretsUnsaved
  PROVE  ChosenInv'
<1>1. CASE Register \/ SaveSecrets \/ SecretsUnsaved
  BY <1>1, RegisterIs, SaveSecretsIs, ChosenSame DEF Rest, SameData, Database
<1>2. CASE Serve
  <2>1. /\ at = "serve" /\ setups' = setups /\ SameData(pc, pc') /\ SameNotes(pc, pc')
        /\ \/ IF job.kind = "install" THEN at' = "admin" /\ job' = job /\ last' = last ELSE End("done")
           \/ End("stuck")
           \/ End("refused")
    BY <1>2, ServeIs
  <2>2. pc'.pending = pc.pending /\ Database' = Database
    BY <2>1 DEF SameData, SameNotes, Database
  <2>3. job.kind = "install" => Following = "admin" /\ at # Last(Paths[job.kind])
    BY <2>1, JobKind, InstallNext, Lasts DEF Inv
  <2>4. NextTask \/ \E how : End(how) /\ (job.kind = "install" => how # "done")
    BY <2>1, <2>3 DEF NextTask
  <2> QED BY <2>1, <2>2, <2>4, ChosenSame
<1> QED BY <1>1, <1>2

(* The record is the last thing an installation makes.                     *)
LEMMA RecordChosen ==
  ASSUME Inv, PlanInv, PlanInv', ChosenInv, SaveRecord
  PROVE  ChosenInv'
<1>1. /\ at = "record" /\ job.kind = "install" /\ pc.cluster # None /\ setups' = setups /\ End("done")
      /\ SameData(pc, pc') /\ pc'.env = pc.env /\ pc'.pending = pc.pending
      /\ pc'.record = Recorded(job) /\ pc'.record # None
  BY SaveRecordIs DEF Rest
<1>2. Database' = Database /\ Database = pc.cluster.dbs[0]
  BY <1>1 DEF SameData, Database
<1>3. Met(Database, job, at) /\ Sound(Database, setups) /\ Fitted(Database, job)
  BY <1>1 DEF ChosenInv, Met, Fitted
<1>4. /\ at \in AfterSchema /\ at \in AfterRegister /\ at \in AfterCreate /\ at \in Staged
      /\ Database # None /\ Database.shape # "missing" /\ pc.env # None
  BY <1>1, <1>2, AfterIs, ReachedIs DEF Staged
<1>5. pc.env = Settings(job)
  BY <1>1, <1>4 DEF PlanInv, Settled
<1>6. /\ pc'.record.flavor = job.flavor /\ pc'.env.flavor = job.flavor /\ pc'.env # None
  BY <1>1, <1>4, <1>5 DEF Recorded, Settings
<1>7. job.flavor \in Flavors /\ job.n \in Nat /\ (job.before # None => job.before.of \in Nat)
  BY <1>1 DEF Inv, JobOK, Job, Databases, Name
<1>8. Database.shape \in Shapes(job.flavor) \union AsFound(job)
  BY <1>3, <1>4, <1>7 DEF Met, Suits, Fits, AsFound, Unpartitioned, Shapes, Flavors
<1>9. job.before # None =>
        IF job.existing = "fresh" THEN Database.of # job.before.of ELSE Database.of = job.before.of
  BY <1>3, <1>4, <1>7 DEF Met, StillThere
<1>10. Right(pc', Database', job)
  BY <1>1, <1>2, <1>3, <1>6, <1>8, <1>9 DEF Right, Met
<1> QED BY <1>1, <1>2, <1>3, <1>10, ChosenEnd

LEMMA RemovalChosen ==
  ASSUME Inv, PlanInv, PlanInv', ChosenInv, StopServer \/ RemovePlatform \/ Release \/ Clean \/ Forget \/ RemoveRecord
  PROVE  ChosenInv'
<1>1. CASE StopServer \/ RemovePlatform \/ Release
  BY <1>1, RemovalTasksAre, ChosenNext DEF Rest, SameData, Database, ChosenInv
<1>2. CASE Clean \/ Forget
  BY <1>2, DeletionTasksAre, ChosenNext DEF Database, ChosenInv, Sound
<1>3. CASE RemoveRecord
  BY <1>3, RemoveRecordIs, ChosenEnd DEF Rest, SameData, Database, ChosenInv
<1> QED BY <1>1, <1>2, <1>3

LEMMA FailChosen ==
  ASSUME Inv, PlanInv, PlanInv', ChosenInv, Fail
  PROVE  ChosenInv'
BY FailIs, ChosenEnd DEF SameData, SameNotes, Database, ChosenInv, Met, Fitted

LEMMA DatabaseType ==
  ASSUME Inv
  PROVE  Database \in Databases(Name) \union {None}
BY SetupAssumption DEF Inv, Name, Database, Computer, Cluster

(* A setup begins with what is there.                                      *)
LEMMA ChosenBegins ==
  ASSUME Inv, PlanInv', ChosenInv, NEW new, Begin(new), new.kind = "install", new.n = setups + 1,
         setups' = setups + 1, Database' = Database, Fitted(Database, new), StillThere(Database, new)
  PROVE  ChosenInv'
<1>1. at' = "manager" /\ job' = new
  BY Firsts DEF Begin
<1>2. setups \in Nat /\ (Database # None => Database.of \in Nat)
  BY DatabaseType DEF Inv, JobOK, Databases, Name
<1>3. (Sound(Database, setups) /\ (at # "idle" => job.n <= setups))'
  BY <1>1, <1>2 DEF ChosenInv, Sound
<1>4. "manager" \notin Staged \union AfterRegister \union {"register", "secrets", "shortcuts", "record"}
  BY AfterIs DEF Staged
<1>5. Met(Database, new, "manager")
  BY <1>2, <1>4 DEF ChosenInv, Sound, Met, Fitted, StillThere
<1>6. Met(Database, job, at)'
  BY <1>1, <1>5 DEF Met, Suits, StillThere
<1>7. ~Again' /\ ~JustInstalled' /\ ~(pc.pending # None /\ pc.pending.n = setups)'
  BY <1>1 DEF Again, JustInstalled, PlanInv, PendingOK
<1> QED BY <1>3, <1>6, <1>7 DEF ChosenInv

LEMMA SetupChosen ==
  ASSUME ~LateResume, Inv, PlanInv, PlanInv', ChosenInv, (\E c \in Plans : Install(c)) \/ Retry \/ Resume
  PROVE  ChosenInv'
<1>1. CASE \E c \in Plans : Install(c)
  <2>1. PICK c \in Plans : Install(c)
    BY <1>1
  <2> DEFINE new == PlanOf(c)
  <2>2. /\ pc' = pc /\ setups' = setups + 1 /\ Begin(new)
        /\ c.existing = "none" => pc.cluster = None
    BY <2>1 DEF Install, CanInstall, Offers, StartInstall
  <2>3. new.kind = "install" /\ new.n = setups + 1 /\ new.before = Database /\ new.existing = c.existing
    BY DEF PlanOf
  <2> HIDE DEF new
  <2>4. Database' = Database
    BY <2>2 DEF Database
  <2>5. Fitted(Database, new) /\ StillThere(Database, new)
    BY <2>2, <2>3 DEF Fitted, Suits, StillThere, Database
  <2> QED BY <2>2, <2>3, <2>4, <2>5, ChosenBegins
<1>2. CASE Retry
  <2> DEFINE new == [last.plan EXCEPT !.n = setups + 1, !.moved = FALSE, !.before = Database]
  <2>1. Again /\ pc' = pc /\ setups' = setups + 1 /\ Begin(new)
    BY <1>2 DEF Retry, StartInstall, Again
  <2>2. last.plan \in Job /\ last.plan.kind = "install"
    BY <2>1 DEF Again, Inv, JobOK, NoJob
  <2>3. /\ new.kind = "install" /\ new.n = setups + 1 /\ new.before = Database
        /\ new.existing = last.plan.existing /\ new.flavor = last.plan.flavor
    BY <2>2 DEF Job
  <2> HIDE DEF new
  <2>4. Database' = Database
    BY <2>1 DEF Database
  <2>5. Fitted(Database, new) /\ StillThere(Database, new)
    BY <2>1, <2>3 DEF ChosenInv, Fitted, Suits, AsFound, StillThere
  <2> QED BY <2>1, <2>3, <2>4, <2>5, ChosenBegins
<1>3. CASE Resume
  <2> DEFINE new == TakePending
  <2>1. pc.pending # None /\ pc.pending.n = setups /\ setups' = setups + 1 /\ Begin(new)
    BY <1>3 DEF Resume, StartInstall
  <2>2. pc.pending \in Job /\ pc.pending.kind = "install"
    BY <1>3, ResumeIs
  <2>3. /\ new.kind = "install" /\ new.n = setups + 1 /\ new.before = pc.pending.before
        /\ new.existing = pc.pending.existing /\ new.flavor = pc.pending.flavor
    BY <2>2 DEF Job, TakePending
  <2> HIDE DEF new
  <2>4. Database' = Database
    BY <1>3, BootedIs, ResumeIs DEF Inv, Computer, Database
  <2>5. Fitted(Database, new) /\ StillThere(Database, new)
    BY <2>1, <2>3 DEF ChosenInv, Fitted, Suits, AsFound, StillThere
  <2> QED BY <2>1, <2>3, <2>4, <2>5, ChosenBegins
<1> QED BY <1>1, <1>2, <1>3

LEMMA ChangeChosen ==
  ASSUME Inv, PlanInv, PlanInv', ChosenInv, NEW kind \in Kinds \ {"install"}, StartChange(kind)
  PROVE  ChosenInv'
<1> DEFINE new == FromRecord(kind)
<1>1. pc' = pc /\ setups' = setups /\ Begin(new)
  BY DEF StartChange
<1>2. new.kind = kind /\ new.n = 0
  BY DEF FromRecord
<1> HIDE DEF new
<1>3. at' # "idle" /\ job' = new /\ Database' = Database /\ setups \in Nat
  BY <1>1, <1>2, KindsAre, Firsts DEF Begin, Database, Inv, JobOK
<1>4. ~Again' /\ ~JustInstalled' /\ ~(pc.pending # None /\ pc.pending.n = setups)'
  BY <1>3 DEF Again, JustInstalled, PlanInv, PendingOK
<1>5. Sound(Database, setups)'
  BY <1>1, <1>3 DEF ChosenInv, Sound
<1> QED BY <1>1, <1>2, <1>3, <1>4, <1>5 DEF ChosenInv

LEMMA ChosenStays ==
  ASSUME ChosenInv, UNCHANGED <<at, job, last, setups>>, Database' = Database, pc'.pending = pc.pending,
         JustInstalled => pc'.record = pc.record /\ pc'.env = pc.env
  PROVE  ChosenInv'
<1>1. (Sound(Database, setups) /\ (at # "idle" => job.n <= setups))'
  BY Zenon DEF ChosenInv, Sound
<1>2. (job.kind = "install" => Met(Database, job, at))'
  BY Zenon DEF ChosenInv, Met, Suits, StillThere
<1>3. (Again => Fitted(Database, last.plan))'
  BY Zenon DEF ChosenInv, Again, Fitted, Suits
<1>4. (pc.pending # None /\ pc.pending.n = setups => Fitted(Database, pc.pending) /\ StillThere(Database, pc.pending))'
  BY Zenon DEF ChosenInv, Fitted, Suits, StillThere
<1>5. (JustInstalled => Right(pc, Database, last.plan))'
  BY DEF ChosenInv, JustInstalled, Right
<1> QED BY <1>1, <1>2, <1>3, <1>4, <1>5 DEF ChosenInv

LEMMA OperatorChosen ==
  ASSUME ~LateResume, Inv, PlanInv, PlanInv', ChosenInv, Operator
  PROVE  ChosenInv'
<1>1. CASE (\E c \in Plans : Install(c)) \/ Retry \/ Resume
  BY <1>1, SetupChosen
<1>2. CASE \E k \in Kinds \ {"install"} : StartChange(k)
  BY <1>2, ChangeChosen
<1>3. CASE \E g \in GivenSuper : Adopt(g)
  BY <1>3, AdoptLeaves, ChosenStays DEF Database, ChosenInv, Right
<1>4. CASE \E run \in BOOLEAN : Control(run)
  BY <1>4, ControlLeaves, ChosenStays DEF Database, SameNotes, SameData
<1> QED BY <1>1, <1>2, <1>3, <1>4 DEF Operator

LEMMA ChosenInit == Init => ChosenInv
BY InitFacts DEF NoJob, Database, ChosenInv, Sound, Again, JustInstalled

LEMMA ChosenNextInv ==
  ASSUME ~LateResume, Inv, PlanInv, ChosenInv, [Next]_vars
  PROVE  ChosenInv'
<1>0. PlanInv'
  BY PlanNextInv
<1>1. CASE UNCHANGED vars
  BY <1>1, ChosenStays DEF vars, Database
<1>2. CASE Operator
  BY <1>0, <1>2, OperatorChosen
<1>3. CASE Task
  <2>1. CASE InstallManager \/ InstallRuntime \/ InstallPostgres \/ Stage \/ WriteEnv \/ MakeShortcuts
    BY <1>0, <2>1, FilesChosen
  <2>2. CASE EnableWsl \/ MakeAccount \/ Provision \/ SetAsideHistory
    BY <1>0, <2>2, ClickhouseChosen
  <2>3. CASE SetPort \/ InstallTimescale
    BY <1>0, <2>3, ChosenServer
  <2>4. CASE InitDb \/ Preload \/ RegisterPostgres \/ StartPostgres \/ EnableTimescale \/ Tune
    BY <1>0, <2>4, ServerChosen
  <2>5. CASE SyncRolePassword \/ RequirePasswords
    BY <1>0, <2>5, RolesChosen
  <2>6. CASE PrepareExisting \/ Create \/ InstallSchema
    BY <1>0, <2>6, KeptChosen, CreateChosen, SchemaChosen
  <2>7. CASE Partition \/ SetAdmin
    BY <1>0, <2>7, PartitionChosen, AdminChosen
  <2>8. CASE Register \/ Serve \/ SaveSecrets
    BY <1>0, <2>8, ServiceChosen
  <2>9. CASE SaveRecord
    BY <1>0, <2>9, RecordChosen
  <2>10. CASE StopServer \/ RemovePlatform \/ Release \/ Clean \/ Forget \/ RemoveRecord
    BY <1>0, <2>10, RemovalChosen
  <2> QED BY <1>3, <2>1, <2>2, <2>3, <2>4, <2>5, <2>6, <2>7, <2>8, <2>9, <2>10 DEF Task
<1>4. CASE Fail
  BY <1>0, <1>4, FailChosen
<1>5. CASE SecretsUnsaved
  BY <1>0, <1>5, ServiceChosen
<1> QED BY <1>1, <1>2, <1>3, <1>4, <1>5 DEF Next

(* An installation that ends has what was chosen, whatever setups before   *)
(* it failed and left: a history table of the shape its type is served     *)
(* from, the operator's administrator, and the database that was kept, not *)
(* the one set aside (kept_db::prepare_existing, native::deploy).          *)
THEOREM InstallationIsAsChosen ==
  ASSUME ~LateResume
  PROVE  Spec => []InstalledAsChosen
<1>1. Init => ChosenInv
  BY ChosenInit
<1>2. Inv /\ PlanInv /\ ChosenInv /\ [Next]_vars => ChosenInv'
  BY ChosenNextInv
<1>3. ChosenInv => InstalledAsChosen
  BY DEF ChosenInv, Right, InstalledAsChosen
<1>4. Spec => []PlanInv
  BY PlanKept
<1>5. Spec => []ChosenInv
  BY <1>1, <1>2, <1>4, Invariant, PTL DEF Spec
<1> QED BY <1>3, <1>5, PTL

----------------------------------------------------------------------------
(* The manager's screens: the record is right and what is offered is whole,*)
(* from an invariant that says what every screen and every running job may *)
(* hold.                                                                   *)

(* The shape of the state, as far as the proof needs it.                   *)
Argument == Versions \union Values \union Types \union Names \union {Nil}
Working ==
  {w \in [id : Nat, kind : DOMAIN ScreenOf, arg : Argument, record : Record \union {Nil},
          saving : BOOLEAN, shown : BOOLEAN] :
     /\ w.kind = "update" => w.arg \in Versions
     /\ w.kind = "settings" => w.arg \in Values
     /\ w.kind = "migration" => w.arg \in Types
     /\ w.kind \in {"restore", "switch"} => w.arg \in Names
     /\ w.kind # "adopt" => w.record \in Record}
TypeInv ==
  /\ real \in Record /\ disk \in Record \union {Nil} /\ main \in Record \union {Nil}
  /\ screens \in [Pages -> Screen \union {Nil}]
  /\ works \subseteq Working /\ jobs \in Nat /\ outdated \in BOOLEAN

(* The window has a record only when there is one, its screens have one    *)
(* exactly when it has, and before that only adopting runs.                *)
Knows(shown, record) ==
  \A p \in Pages :
    shown[p] # Nil =>
      /\ shown[p].record = Nil <=> record = Nil
      /\ record = Nil /\ p # "status" => shown[p].ticks = {}
(* A job that is still seen has its screen.                                *)
Screened(ws, shown) == \A w \in ws : w.shown => shown[ScreenOf[w.kind]] # Nil
Known ==
  /\ main # Nil => disk # Nil
  /\ main = Nil => \A w \in works : w.kind = "adopt"
  /\ Knows(screens, main) /\ Screened(works, screens)

(* What a job that changes SENTIENT saves.                                 *)
Written(w, d) ==
  CASE w.kind = "update" -> [w.record EXCEPT !.version = w.arg]
    [] w.kind = "migration" -> [w.record EXCEPT !.type = w.arg]
    [] w.kind = "settings" -> [w.record EXCEPT !.value = w.arg]
    [] OTHER -> d
(* Unless one began outdated, a job that changes SENTIENT runs alone, began *)
(* with the record as SENTIENT was, and saves what it has made of it.       *)
Adopting(ws) == \A w \in ws : w.kind \in Changing => w.kind = "adopt"
Alone(ws, d, r) ==
  /\ \A w \in ws : w.kind \in Changing \ {"adopt"} =>
       /\ \A v \in ws : v.kind \in Changing => v = w
       /\ w.saving => Written(w, d) = r
       /\ ~w.saving => d = r /\ w.record = r
  /\ d # Nil /\ Adopting(ws) => d = r
ManagerInv == TypeInv /\ Known /\ (~outdated => Alone(works, disk, real))

----------------------------------------------------------------------------
(* What a screen is after one of its Jobs has announced a change: only its *)
(* record, or what it offers, is another.                                  *)
LEMMA ObservedScreen ==
  ASSUME NEW p \in Pages, NEW slot \in Slots, NEW screen \in Screen, NEW saved \in Record \union {Nil}
  PROVE  LET seen == Observed(p, slot, screen, saved)
         IN seen \in Screen /\ seen.ticks = screen.ticks
            /\ (seen.record = screen.record \/ (seen.record = saved /\ p # "status"))
<1> DEFINE state == screen.state[slot]
<1>1. CASE slot = "restore"
  <2>1. Offer(screen, state) \in Screen /\ Offer(screen, state).ticks = screen.ticks
        /\ Offer(screen, state).record = screen.record
    BY DEF Offer, Screen
  <2> QED BY <1>1, <2>1 DEF Observed, Screen
<1>2. CASE slot # "restore" /\ slot = "switch" /\ state = "done"
  BY <1>2 DEF Observed, Screen
<1>3. CASE slot # "restore" /\ ~(slot = "switch" /\ state = "done")
  BY <1>3 DEF Observed, Screen
<1> QED BY <1>1, <1>2, <1>3

(* The jobs whose screens were made again, or whose manager was replaced:  *)
(* only whether they are seen changes.                                     *)
Hidden(ws, seen) == {[w EXCEPT !.shown = seen[w]] : w \in ws}

(* Whether a job is seen changes nothing of what it does to the record.    *)
LEMMA HiddenAlone ==
  ASSUME NEW ws \in SUBSET Working, NEW seen \in [Working -> BOOLEAN]
  PROVE  /\ Hidden(ws, seen) \subseteq Working
         /\ (\A w \in ws : w.kind = "adopt") => \A w \in Hidden(ws, seen) : w.kind = "adopt"
         /\ \A d, r : Alone(ws, d, r) => Alone(Hidden(ws, seen), d, r)
<1> DEFINE Seen(w) == [w EXCEPT !.shown = seen[w]]
<1>1. \A w \in ws : /\ Seen(w) \in Working
                    /\ Seen(w).kind = w.kind /\ Seen(w).arg = w.arg
                    /\ Seen(w).record = w.record /\ Seen(w).saving = w.saving
  BY DEF Working
<1>2. Hidden(ws, seen) = {Seen(w) : w \in ws}
  BY DEF Hidden
<1>3. \A w \in ws : \A d : Written(Seen(w), d) = Written(w, d)
  BY <1>1 DEF Written
<1> HIDE DEF Seen
<1>4. ASSUME NEW d, NEW r, Alone(ws, d, r)
      PROVE  Alone(Hidden(ws, seen), d, r)
  BY <1>1, <1>2, <1>3, <1>4 DEF Alone, Adopting
<1> QED BY <1>1, <1>2, <1>4

(* A Job's announcement: screens are made again or learn what was saved,   *)
(* and jobs may go on unseen.                                              *)
LEMMA Announced ==
  ASSUME TypeInv, Knows(screens, main),
         NEW p \in Pages, NEW slot \in Slots, NEW screen \in Screen,
         NEW saved \in Record \union {Nil}, NEW running \in SUBSET Working,
         screen.record = Nil <=> main = Nil,
         main # Nil => saved # Nil, Screened(running, screens),
         main = Nil => p = "status" /\ \A w \in running : w.kind = "adopt",
         Announce(p, slot, screen, saved, running)
  PROVE  /\ screens' \in [Pages -> Screen \union {Nil}]
         /\ main' \in {main, saved} /\ Knows(screens', main')
         /\ main' = Nil => \A w \in running : w.kind = "adopt"
         /\ Screened(works', screens')
         /\ \E seen \in [Working -> BOOLEAN] : works' = Hidden(running, seen)
<1> DEFINE met == Observed(p, slot, screen, saved)
           shown == [screens EXCEPT ![p] = met]
           after == Reloaded(shown)
<1>1. /\ met \in Screen /\ met.ticks = screen.ticks
      /\ met.record = screen.record \/ (met.record = saved /\ p # "status")
  BY ObservedScreen
<1> HIDE DEF met
<1>2. shown \in [Pages -> Screen \union {Nil}]
  BY <1>1 DEF TypeInv
<1>3. met.record = Nil <=> main = Nil
  BY <1>1
<1>4. Knows(shown, main)
  BY <1>1, <1>3 DEF Knows, TypeInv
<1>8. Screened(running, shown)
  BY <1>1, NilAssumption DEF Screened, TypeInv, Working, Pages
<1> HIDE DEF shown
<1>5. after \in [Pages -> Screen \union {Nil}] /\ Knows(after, saved)
  BY <1>2, <1>4 DEF Reloaded, Stays, Knows
<1> HIDE DEF after
<1>6. CASE Reloads(p, screen.state[slot])
  <2>1. /\ main' = saved /\ screens' = after
        /\ works' = {[w EXCEPT !.shown = @ /\ after[ScreenOf[w.kind]] # Nil] : w \in running}
    BY <1>6 DEF Announce, met, shown, after
  <2> DEFINE seen == [w \in Working |-> w.shown /\ after[ScreenOf[w.kind]] # Nil]
  <2>2. seen \in [Working -> BOOLEAN]
    BY DEF Working
  <2>3. works' = Hidden(running, seen)
    BY <2>1 DEF Hidden
  <2>4. Screened(works', screens')
    BY <2>1 DEF Screened, Working
  <2> QED BY <1>5, <2>1, <2>2, <2>3, <2>4
<1>7. CASE ~Reloads(p, screen.state[slot])
  <2>1. main' = main /\ screens' = shown /\ works' = running
    BY <1>7 DEF Announce, met, shown
  <2> DEFINE seen == [w \in Working |-> w.shown]
  <2>2. seen \in [Working -> BOOLEAN]
    BY DEF Working
  <2>3. \A w \in running : [w EXCEPT !.shown = seen[w]] = w
    BY DEF Working
  <2> HIDE DEF seen
  <2>4. \A w : w \in Hidden(running, seen) <=> w \in running
    BY <2>3 DEF Hidden
  <2>5. works' = Hidden(running, seen)
    BY <2>1, <2>4
  <2> QED BY <1>2, <1>4, <1>8, <2>1, <2>2, <2>5
<1> QED BY <1>6, <1>7

(* The job's end: the same, of the job's own screen if it is still seen.   *)
LEMMA FinishedScreen ==
  ASSUME ManagerInv, NEW w \in works, NEW state \in {"idle", "running", "done", "failed"},
         disk' \in Record \union {Nil}, disk # Nil => disk' # Nil,
         Finish(w, state, disk'), UNCHANGED <<real, jobs, outdated>>
  PROVE  /\ TypeInv' /\ Known'
         /\ \E seen \in [Working -> BOOLEAN] : works' = Hidden(works \ {w}, seen)
<1> DEFINE p == ScreenOf[w.kind]
           slot == Slot(w.kind)
           told == [screens[p] EXCEPT !.state[slot] = state, !.ticks = @ \union {slot}]
           running == works \ {w}
<1>1. w \in Working /\ running \in SUBSET Working /\ w.kind \in DOMAIN ScreenOf
  BY DEF ManagerInv, TypeInv, Working
<1>2. p \in Pages /\ slot \in Slots
  BY <1>1 DEF Pages, Slot, Slots
<1>3. main # Nil => disk' # Nil
  BY DEF ManagerInv, Known
<1>4. main = Nil => w.kind = "adopt" /\ p = "status" /\ \A v \in running : v.kind = "adopt"
  BY DEF ManagerInv, Known, ScreenOf
<1> DEFINE Outcome ==
      /\ screens' \in [Pages -> Screen \union {Nil}]
      /\ main' \in {main, disk'} /\ Knows(screens', main')
      /\ main' = Nil => \A v \in running : v.kind = "adopt"
      /\ Screened(works', screens')
      /\ \E seen \in [Working -> BOOLEAN] : works' = Hidden(running, seen)
<1>5. ASSUME w.shown PROVE Outcome
  <2>1. screens[p] \in Screen
    BY <1>2, <1>5 DEF ManagerInv, TypeInv, Known, Screened
  <2>2. told \in Screen /\ told.record = screens[p].record
    BY <1>2, <2>1 DEF Screen
  <2>3. told.record = Nil <=> main = Nil
    BY <1>2, <2>1, <2>2, NilAssumption DEF ManagerInv, Known, Knows
  <2>4. Announce(p, slot, told, disk', running)
    BY <1>5 DEF Finish
  <2>5. Screened(running, screens) /\ TypeInv /\ Knows(screens, main)
    BY DEF ManagerInv, Known, Screened
  <2>6. main = Nil => p = "status" /\ \A v \in running : v.kind = "adopt"
    BY <1>4
  <2>7. disk' \in Record \union {Nil}
    OBVIOUS
  <2>8. running \in SUBSET Working
    BY <1>1
  <2> HIDE DEF p, slot, told, running
  <2> QED BY <1>2, <1>3, <2>2, <2>3, <2>4, <2>5, <2>6, <2>7, <2>8, Announced
<1>6. ASSUME ~w.shown PROVE Outcome
  <2>1. works' = running /\ screens' = screens /\ main' = main
    BY <1>6 DEF Finish
  <2> DEFINE seen == [v \in Working |-> v.shown]
  <2>2. seen \in [Working -> BOOLEAN]
    BY DEF Working
  <2>3. \A v \in running : [v EXCEPT !.shown = seen[v]] = v
    BY <1>1 DEF Working
  <2> HIDE DEF seen
  <2>4. \A v : v \in Hidden(running, seen) <=> v \in running
    BY <2>3 DEF Hidden
  <2>5. works' = Hidden(running, seen)
    BY <2>1, <2>4
  <2> QED BY <1>4, <2>1, <2>2, <2>5 DEF ManagerInv, TypeInv, Known, Screened
<1>7. Outcome
  BY <1>5, <1>6
<1>8. works' \subseteq Working /\ (main' = Nil => \A v \in works' : v.kind = "adopt")
  <2>1. PICK seen \in [Working -> BOOLEAN] : works' = Hidden(running, seen)
    BY <1>7
  <2> HIDE DEF running
  <2> QED BY <1>1, <1>7, <2>1, HiddenAlone
<1>9. TypeInv' /\ Known'
  BY <1>3, <1>7, <1>8 DEF ManagerInv, TypeInv, Known
<1> QED BY <1>7, <1>9

(* Starting a job: its screen has the window's record, and unless the ghost *)
(* is set the job is alone with SENTIENT and knows what is installed.      *)
LEMMA StartedWork ==
  ASSUME ManagerInv, NEW kind \in DOMAIN ScreenOf, NEW arg, Start(kind, arg),
         kind = "update" => arg \in Versions,
         kind = "settings" => arg \in Values,
         kind = "migration" => arg \in Types,
         kind \in {"restore", "switch"} => arg \in Names,
         kind \notin {"update", "settings", "migration", "restore", "switch"} => arg = Nil
  PROVE  ManagerInv'
<1> DEFINE p == ScreenOf[kind]
           screen == screens[p]
           w == [id |-> jobs, kind |-> kind, arg |-> arg, record |-> Given(p), saving |-> FALSE, shown |-> TRUE]
           opened == [screen EXCEPT !.state[Slot(kind)] = "running", !.ticks = @ \ {Slot(kind)},
                                    !.restoring = IF kind = "restore" THEN arg ELSE @,
                                    !.restored = IF kind = "restore" THEN Nil ELSE @]
<1>1. /\ p \in Pages /\ screen \in Screen /\ Slot(kind) \in Slots
      /\ kind = "adopt" <=> screen.record = Nil
  BY DEF Start, ManagerInv, TypeInv, Pages, Slot, Slots
<1>2. /\ works' = works \union {w} /\ screens' = [screens EXCEPT ![p] = opened]
      /\ outdated' = (outdated \/ Outdated(kind, p)) /\ jobs' = jobs + 1
      /\ UNCHANGED <<engine, disk, real, main>>
  BY DEF Start
<1>3. /\ opened \in Screen /\ opened.record = screen.record
      /\ opened.ticks \subseteq screen.ticks
  BY <1>1 DEF Screen
<1>4. kind = "adopt" <=> main = Nil
  BY <1>1, NilAssumption DEF ManagerInv, Known, Knows
<1>5. kind # "adopt" => screen.record \in Record /\ disk \in Record /\ Given(p) \in Record
  BY <1>1, <1>4, NilAssumption DEF ManagerInv, TypeInv, Known, Given, Screen
<1>6. Given(p) \in Record \union {Nil}
  BY <1>1 DEF ManagerInv, TypeInv, Given, Screen
<1>7. w \in Working /\ w.kind = kind /\ w.shown /\ ~w.saving /\ w.record = Given(p)
  BY <1>5, <1>6 DEF Working, Argument, ManagerInv, TypeInv
<1>8. outdated' \in BOOLEAN
  BY <1>2 DEF ManagerInv, TypeInv
<1> HIDE DEF w, opened
<1>9. TypeInv'
  BY <1>1, <1>2, <1>3, <1>7, <1>8 DEF ManagerInv, TypeInv
<1>10. Known'
  BY <1>1, <1>2, <1>3, <1>4, <1>7, NilAssumption DEF ManagerInv, TypeInv, Known, Knows, Screened,
     Working, Pages
<1>11. ASSUME ~outdated' PROVE Alone(works', disk', real')
  <2>1. Alone(works, disk, real) /\ ~Outdated(kind, p)
    BY <1>2, <1>11 DEF ManagerInv
  <2>2. CASE kind \in Changing \ {"adopt"}
    BY <1>2, <1>5, <1>7, <2>1, <2>2, NilAssumption DEF Outdated, Adopting, Alone, Given
  <2>3. CASE kind = "adopt"
    BY <1>2, <1>4, <1>7, <2>1, <2>3 DEF ManagerInv, Known, Alone, Adopting
  <2>4. CASE kind \notin Changing
    BY <1>2, <1>7, <2>1, <2>4 DEF Alone, Adopting, Written
  <2> QED BY <2>2, <2>3, <2>4
<1> QED BY <1>9, <1>10, <1>11 DEF ManagerInv

(* Every screen starts out with the window's record.                       *)
LEMMA Opened ==
  ASSUME ManagerInv, NEW p \in Pages, Open(p)
  PROVE  ManagerInv'
BY NilAssumption DEF New, Screen, ManagerInv, TypeInv, Open, Known, Knows, Screened, Working,
   Pages

(* A job's work: the one job that changes SENTIENT changes what it found.  *)
LEMMA Worked ==
  ASSUME ManagerInv, NEW w \in works, Work(w)
  PROVE  ManagerInv'
<1> DEFINE saving == [w EXCEPT !.saving = TRUE]
<1>1. /\ ~w.saving /\ real' = Applied(w) /\ works' = (works \ {w}) \union {saving}
      /\ UNCHANGED <<engine, disk, main, screens, jobs, outdated>>
  BY DEF Work
<1>2. w \in Working /\ w.kind \in DOMAIN ScreenOf
  BY DEF ManagerInv, TypeInv, Working
<1>3. /\ saving \in Working /\ saving.kind = w.kind /\ saving.arg = w.arg
      /\ saving.record = w.record /\ saving.shown = w.shown /\ saving.saving
  BY <1>2 DEF Working
<1>4. \A d : Written(saving, d) = Written(w, d)
  BY <1>3 DEF Written
<1> HIDE DEF saving
<1>5. real' \in Record
  BY <1>1, <1>2 DEF ManagerInv, TypeInv, Applied, Image, Working, Record
<1>6. TypeInv' /\ Known'
  BY <1>1, <1>3, <1>5 DEF ManagerInv, TypeInv, Known, Screened
<1>7. ASSUME ~outdated' PROVE Alone(works', disk', real')
  <2>1. Alone(works, disk, real)
    BY <1>1, <1>7 DEF ManagerInv
  <2>2. CASE w.kind \in Changing \ {"adopt"}
    BY <1>1, <1>2, <1>3, <1>4, <2>1, <2>2 DEF Alone, Working, Applied, Image, Written, Changing,
       Record, Adopting
  <2>3. CASE w.kind \notin Changing \ {"adopt"}
    BY <1>1, <1>2, <1>3, <2>1, <2>3 DEF Applied, Changing, Adopting, Alone
  <2> QED BY <2>2, <2>3
<1> QED BY <1>6, <1>7 DEF ManagerInv

(* A job saves what it has made of SENTIENT, and is gone.                  *)
LEMMA SavedAndGone ==
  ASSUME ManagerInv, NEW w \in works, Save(w)
  PROVE  ManagerInv'
<1>1. /\ w.saving /\ disk' = Saved(w) /\ Finish(w, "done", disk')
      /\ UNCHANGED <<real, jobs, outdated>>
  BY DEF Save
<1>2. w \in Working /\ w.kind \in DOMAIN ScreenOf
  BY DEF ManagerInv, TypeInv, Working
<1>3. disk' \in Record \union {Nil} /\ (disk # Nil => disk' # Nil)
  BY <1>1, <1>2, NilAssumption DEF ManagerInv, TypeInv, Saved, Working, Record
<1>4. /\ TypeInv' /\ Known'
      /\ \E seen \in [Working -> BOOLEAN] : works' = Hidden(works \ {w}, seen)
  BY <1>1, <1>3, FinishedScreen
<1>5. ASSUME ~outdated' PROVE Alone(works', disk', real')
  <2>1. Alone(works, disk, real)
    BY <1>1, <1>5 DEF ManagerInv
  <2>2. Alone(works \ {w}, disk', real)
    <3>1. CASE w.kind \in Changing \ {"adopt"}
      BY <1>1, <1>2, <2>1, <3>1 DEF Alone, Saved, Written, Changing
    <3>2. CASE w.kind = "adopt"
      BY <1>1, <2>1, <3>2 DEF Saved, Alone, Changing
    <3>3. CASE w.kind \notin Changing
      BY <1>1, <1>2, <2>1, <3>3 DEF Saved, Changing, Alone, Adopting
    <3> QED BY <3>1, <3>2, <3>3
  <2>3. works \ {w} \in SUBSET Working
    BY DEF ManagerInv, TypeInv
  <2>4. PICK seen \in [Working -> BOOLEAN] : works' = Hidden(works \ {w}, seen)
    BY <1>4
  <2> QED BY <1>1, <2>2, <2>3, <2>4, HiddenAlone
<1> QED BY <1>4, <1>5 DEF ManagerInv

(* A job that fails has changed nothing, or restored part of a database.   *)
LEMMA FailedAndGone ==
  ASSUME ManagerInv, NEW w \in works, JobFails(w)
  PROVE  ManagerInv'
<1>1. /\ ~w.saving \/ w.kind = "restore"
      /\ disk' = disk /\ Finish(w, "failed", disk')
      /\ UNCHANGED <<real, jobs, outdated>>
  BY DEF JobFails
<1>2. /\ TypeInv' /\ Known'
      /\ \E seen \in [Working -> BOOLEAN] : works' = Hidden(works \ {w}, seen)
  BY <1>1, FinishedScreen DEF ManagerInv, TypeInv
<1>3. ASSUME ~outdated' PROVE Alone(works', disk', real')
  <2>1. Alone(works, disk, real)
    BY <1>1, <1>3 DEF ManagerInv
  <2>2. Alone(works \ {w}, disk, real)
    BY <1>1, <2>1 DEF Alone, Changing, Adopting
  <2>3. works \ {w} \in SUBSET Working
    BY DEF ManagerInv, TypeInv
  <2>4. PICK seen \in [Working -> BOOLEAN] : works' = Hidden(works \ {w}, seen)
    BY <1>2
  <2> QED BY <1>1, <2>2, <2>3, <2>4, HiddenAlone
<1> QED BY <1>2, <1>3 DEF ManagerInv

(* A ticker tells a screen once more how its Job stands.                   *)
LEMMA Ticked ==
  ASSUME ManagerInv, NEW p \in Pages, NEW slot \in Slots, Tick(p, slot)
  PROVE  ManagerInv'
<1> DEFINE told == [screens[p] EXCEPT !.ticks = @ \ {slot}]
<1>1. /\ screens[p] # Nil /\ slot \in screens[p].ticks
      /\ Announce(p, slot, told, disk, works)
      /\ UNCHANGED <<disk, real, jobs, outdated>>
  BY DEF Tick
<1>2. screens[p] \in Screen
  BY <1>1 DEF ManagerInv, TypeInv
<1>3. told \in Screen /\ told.record = screens[p].record
  BY <1>2 DEF Screen
<1>4. told.record = Nil <=> main = Nil
  BY <1>1, <1>2, <1>3 DEF ManagerInv, Known, Knows
<1>5. main # Nil => disk # Nil
  BY DEF ManagerInv, Known
<1>6. main = Nil => p = "status" /\ \A w \in works : w.kind = "adopt"
  BY <1>1, <1>3, <1>4 DEF ManagerInv, Known, Knows
<1>7. /\ TypeInv /\ Knows(screens, main) /\ Screened(works, screens)
      /\ disk \in Record \union {Nil} /\ works \in SUBSET Working
  BY DEF ManagerInv, TypeInv, Known
<1> HIDE DEF told
<1>8. /\ screens' \in [Pages -> Screen \union {Nil}]
      /\ main' \in {main, disk} /\ Knows(screens', main')
      /\ main' = Nil => \A w \in works : w.kind = "adopt"
      /\ Screened(works', screens')
      /\ \E seen \in [Working -> BOOLEAN] : works' = Hidden(works, seen)
  BY <1>1, <1>3, <1>4, <1>5, <1>6, <1>7, Announced
<1>9. PICK seen \in [Working -> BOOLEAN] : works' = Hidden(works, seen)
  BY <1>8
<1>10. /\ works' \subseteq Working
       /\ main' = Nil => \A w \in works' : w.kind = "adopt"
       /\ ~outdated => Alone(works', disk, real)
  BY <1>7, <1>8, <1>9, HiddenAlone DEF ManagerInv
<1> QED BY <1>1, <1>5, <1>8, <1>10 DEF ManagerInv, TypeInv, Known

(* A new manager: root's jobs go on unseen, and one that changed SENTIENT  *)
(* and was ended is in the ghost.                                          *)
LEMMA Replaced ==
  ASSUME ManagerInv, Quit
  PROVE  ManagerInv'
<1>1. PICK going \in SUBSET works :
        /\ works' = {[w EXCEPT !.shown = FALSE] : w \in going}
        /\ outdated' = (outdated \/ \E w \in works \ going : w.kind \in Changing)
  BY DEF Quit
<1>2. main' = disk /\ screens' = NoScreens /\ UNCHANGED <<disk, real, jobs>>
  BY DEF Quit
<1> DEFINE seen == [w \in Working |-> FALSE]
<1>3. seen \in [Working -> BOOLEAN] /\ going \in SUBSET Working
  BY DEF ManagerInv, TypeInv
<1>4. works' = Hidden(going, seen)
  BY <1>1, <1>3 DEF Hidden
<1>5. \A w \in works' : ~w.shown
  BY <1>1, <1>3 DEF Working
<1> HIDE DEF seen
<1>6. works' \subseteq Working /\ ((\A w \in going : w.kind = "adopt") => \A w \in works' : w.kind = "adopt")
  BY <1>3, <1>4, HiddenAlone
<1>7. outdated' \in BOOLEAN
  BY <1>1 DEF ManagerInv, TypeInv
<1>8. TypeInv'
  BY <1>2, <1>6, <1>7 DEF ManagerInv, TypeInv, NoScreens
<1>9. Known'
  BY <1>2, <1>5, <1>6 DEF ManagerInv, Known, Knows, Screened, NoScreens
<1>10. ASSUME ~outdated' PROVE Alone(works', disk', real')
  <2>1. Alone(works, disk, real) /\ \A w \in works \ going : w.kind \notin Changing
    BY <1>1, <1>10 DEF ManagerInv
  <2>2. Alone(going, disk, real)
    BY <2>1 DEF Alone, Adopting
  <2> QED BY <1>2, <1>3, <1>4, <2>2, HiddenAlone
<1> QED BY <1>8, <1>9, <1>10 DEF ManagerInv

----------------------------------------------------------------------------
(* Every step keeps it.                                                    *)
LEMMA ManagerKeeps ==
  ASSUME ManagerInv, [ManagerNext]_managerVars
  PROVE  ManagerInv'
<1>1. CASE UNCHANGED managerVars
  BY <1>1 DEF managerVars, ManagerInv, TypeInv, Known, Knows, Screened, Alone, Adopting, Written
<1>2. CASE \E p \in Pages : Open(p)
  BY <1>2, Opened
<1>3. CASE AdoptExisting \/ RemoveKept \/ Repair
  BY <1>3, StartedWork DEF AdoptExisting, RemoveKept, Repair, ScreenOf
<1>4. CASE Quit
  BY <1>4, Replaced
<1>5. CASE \E v \in Versions : Update(v)
  BY <1>5, StartedWork DEF Update, ScreenOf
<1>6. CASE \E v \in Values : ApplySettings(v)
  BY <1>6, StartedWork DEF ApplySettings, ScreenOf
<1>7. CASE \E t \in Types : Migrate(t)
  BY <1>7, StartedWork DEF Migrate, ScreenOf
<1>8. CASE \E n \in Names : Restore(n) \/ Switch(n)
  BY <1>8, StartedWork DEF Restore, Switch, ScreenOf
<1>9. CASE \E w \in works : Work(w) \/ Save(w) \/ JobFails(w)
  BY <1>9, Worked, SavedAndGone, FailedAndGone
<1>10. CASE \E p \in Pages, slot \in Slots : Tick(p, slot)
  BY <1>10, Ticked
<1> QED BY <1>1, <1>2, <1>3, <1>4, <1>5, <1>6, <1>7, <1>8, <1>9, <1>10 DEF ManagerNext, Operating, Background

(* The shapes the screens and jobs have, what the window and its screens   *)
(* know, and the job that is alone with SENTIENT: in every behaviour, with *)
(* any number of jobs, versions, settings and replacements of the manager. *)
THEOREM InvAlways == ManagerSpec => []ManagerInv
<1>1. ManagerInit => ManagerInv
  <2> SUFFICES ASSUME ManagerInit PROVE ManagerInv
    OBVIOUS
  <2>1. TypeInv
    BY ManagerAssumption DEF ManagerInit, TypeInv, NoScreens
  <2>2. Known
    BY DEF ManagerInit, Known, Knows, Screened, NoScreens
  <2>3. Alone(works, disk, real)
    BY DEF ManagerInit, Alone
  <2> QED BY <2>1, <2>2, <2>3 DEF ManagerInv
<1>2. ManagerInv /\ [ManagerNext]_managerVars => ManagerInv'
  BY ManagerKeeps
<1> QED BY <1>1, <1>2, PTL DEF ManagerSpec

(* The installation record is what is installed (installation.rs), unless a *)
(* job began with an outdated one, or while another one changed SENTIENT,   *)
(* or was ended: whatever was opened, reloaded, started, failed or unseen.  *)
THEOREM RecordIsTrue == ManagerSpec => []RecordTrue
<1>1. ManagerInv => RecordTrue
  BY DEF ManagerInv, RecordTrue, Alone, Adopting
<1> QED BY <1>1, InvAlways, PTL

----------------------------------------------------------------------------
(* What a restore and a switch may count on, and the Backup screen's offer. *)
(* A switch that has not begun has a whole database to itself; a restore    *)
(* that has begun has one it fills.  Seen or unseen, of this manager or of  *)
(* one before it.                                                           *)
Aside == {"restore", "switch"}
Promised(ws, d) ==
  /\ \A w \in ws : w.kind = "switch" /\ ~w.saving =>
       /\ d[w.arg] = "whole"
       /\ \A v \in ws : v.kind = "switch" /\ ~v.saving /\ v.arg = w.arg => v = w
  /\ \A w \in ws : w.kind = "restore" /\ w.saving =>
       /\ d[w.arg] = "partial"
       /\ \A v \in ws : v.kind = "restore" /\ v.saving /\ v.arg = w.arg => v = w

(* The database n can be put in service, and nobody is about to.           *)
Ready(n, ws, d) ==
  n \in Names /\ d[n] = "whole" /\ \A w \in ws : ~(w.kind = "switch" /\ ~w.saving /\ w.arg = n)

(* What the Backup screen b shows of the job w that it follows: the only one. *)
Follows(b, w) ==
  /\ b.state[w.kind] = "running"
  /\ w.kind = "restore" => b.restoring = w.arg
  /\ w.kind = "switch" => b.restored \in {Nil, w.arg}
Followed(b, ws) ==
  \A w \in ws : w.kind \in Aside /\ w.shown =>
    Follows(b, w) /\ \A v \in ws : v.kind \in Aside /\ v.shown => v = w
OffersWhole(b, ws, d) ==
  /\ b.state["restore"] # "running" \/ b.state["switch"] # "running"
  /\ b.state["restore"] = "done" => b.restoring = Nil
  /\ b.restored # Nil /\ b.state["switch"] # "running" => Ready(b.restored, ws, d)

Backup(ws, b, d) == Promised(ws, d) /\ (b # Nil => OffersWhole(b, ws, d) /\ Followed(b, ws))
OfferInv ==
  /\ dbs \in [Names -> {"absent", "partial", "whole"}]
  /\ Backup(works, screens["backup"], dbs)

(* Jobs that end, or go on unseen, leave the others what they count on.    *)
LEMMA FewerBackup ==
  ASSUME NEW ws, NEW ws2 \in SUBSET ws, NEW b, NEW d, Backup(ws, b, d)
  PROVE  Backup(ws2, b, d)
<1>1. Promised(ws2, d)
  BY DEF Backup, Promised
<1>2. ASSUME b # Nil PROVE OffersWhole(b, ws2, d) /\ Followed(b, ws2)
  BY <1>2 DEF Backup, OffersWhole, Ready, Followed
<1> QED BY <1>1, <1>2 DEF Backup

LEMMA HiddenPromised ==
  ASSUME NEW ws \in SUBSET Working, NEW seen \in [Working -> BOOLEAN], NEW d, Promised(ws, d)
  PROVE  Promised(Hidden(ws, seen), d)
<1> DEFINE Seen(w) == [w EXCEPT !.shown = seen[w]]
<1>1. \A w \in ws : Seen(w).kind = w.kind /\ Seen(w).arg = w.arg /\ Seen(w).saving = w.saving
  BY DEF Working
<1>2. Hidden(ws, seen) = {Seen(w) : w \in ws}
  BY DEF Hidden
<1> HIDE DEF Seen
<1>3. ASSUME NEW w \in ws, w.kind = "switch", ~w.saving
      PROVE  d[w.arg] = "whole" /\ \A v \in ws : v.kind = "switch" /\ ~v.saving /\ v.arg = w.arg => Seen(v) = Seen(w)
  BY <1>3 DEF Promised
<1>4. ASSUME NEW w \in ws, w.kind = "restore", w.saving
      PROVE  d[w.arg] = "partial" /\ \A v \in ws : v.kind = "restore" /\ v.saving /\ v.arg = w.arg => Seen(v) = Seen(w)
  BY <1>4 DEF Promised
<1> QED BY <1>1, <1>2, <1>3, <1>4 DEF Promised

(* What an announcement is to the Backup screen: its own Jobs tell it; those *)
(* of the other screens leave it alone, or have it made again, and then its *)
(* jobs go on unseen.                                                       *)
LEMMA AnnouncedBackup ==
  ASSUME TypeInv, NEW p \in Pages, NEW slot \in Slots, NEW screen \in Screen,
         NEW saved, NEW running \in SUBSET Working,
         Announce(p, slot, screen, saved, running)
  PROVE  \/ /\ p = "backup" /\ works' = running
            /\ screens'["backup"] = Observed(p, slot, screen, saved)
         \/ p # "backup" /\ works' = running /\ screens'["backup"] = screens["backup"]
         \/ /\ screens'["backup"] = Nil
            /\ \E seen \in [Working -> BOOLEAN] : works' = Hidden(running, seen)
<1> DEFINE met == Observed(p, slot, screen, saved)
           shown == [screens EXCEPT ![p] = met]
           after == Reloaded(shown)
<1>0. "backup" \in Pages
  BY DEF Pages, ScreenOf
<1>1. CASE Reloads(p, screen.state[slot])
  <2>1. screens' = after /\ works' = {[w EXCEPT !.shown = @ /\ after[ScreenOf[w.kind]] # Nil] : w \in running}
    BY <1>1 DEF Announce
  <2>2. after["backup"] = Nil
    BY <1>0 DEF Reloaded, Stays
  <2> DEFINE seen == [w \in Working |-> w.shown /\ after[ScreenOf[w.kind]] # Nil]
  <2>3. seen \in [Working -> BOOLEAN]
    BY DEF Working
  <2> HIDE DEF after
  <2>4. works' = Hidden(running, seen)
    BY <2>1 DEF Hidden
  <2> QED BY <2>1, <2>2, <2>3, <2>4
<1>2. CASE ~Reloads(p, screen.state[slot])
  <2>1. screens' = shown /\ works' = running
    BY <1>2 DEF Announce
  <2> HIDE DEF met
  <2>2. p = "backup" => screens'["backup"] = met
    BY <1>0, <2>1 DEF TypeInv
  <2>3. p # "backup" => screens'["backup"] = screens["backup"]
    BY <1>0, <2>1 DEF TypeInv
  <2> QED BY <2>1, <2>2, <2>3 DEF met
<1> QED BY <1>1, <1>2

(* A job ends: the others keep what they count on, and the Backup screen    *)
(* that followed it offers what it restored, or still what it did not put   *)
(* in service.                                                              *)
LEMMA FinishedBackup ==
  ASSUME ManagerInv, NEW w \in works, NEW state \in {"done", "failed"}, NEW saved, NEW d,
         Finish(w, state, saved),
         Backup(works \ {w}, screens["backup"], d),
         screens["backup"] # Nil => Followed(screens["backup"], works),
         w.kind = "restore" /\ state = "done" => Ready(w.arg, works \ {w}, d),
         w.kind = "switch" /\ state = "failed" => Ready(w.arg, works \ {w}, d)
  PROVE  Backup(works', screens'["backup"], d)
<1> DEFINE p == ScreenOf[w.kind]
           slot == Slot(w.kind)
           screen == screens[p]
           told == [screen EXCEPT !.state[slot] = state, !.ticks = @ \union {slot}]
           running == works \ {w}
<1>1. w \in Working /\ running \in SUBSET Working /\ w.kind \in DOMAIN ScreenOf
  BY DEF ManagerInv, TypeInv, Working
<1>2. p \in Pages /\ slot \in Slots
  BY <1>1 DEF Pages, Slot, Slots
<1>3. CASE ~w.shown
  BY <1>3 DEF Finish
<1>4. CASE w.shown
  <2>1. screen \in Screen
    BY <1>2, <1>4 DEF ManagerInv, TypeInv, Known, Screened
  <2>2. told \in Screen
    BY <1>2, <2>1 DEF Screen
  <2>3. Announce(p, slot, told, saved, running)
    BY <1>4 DEF Finish
  <2>4. TypeInv
    BY DEF ManagerInv
  <2>5. \/ /\ p = "backup" /\ works' = running
           /\ screens'["backup"] = Observed(p, slot, told, saved)
        \/ p # "backup" /\ works' = running /\ screens'["backup"] = screens["backup"]
        \/ /\ screens'["backup"] = Nil
           /\ \E seen \in [Working -> BOOLEAN] : works' = Hidden(running, seen)
    <3> HIDE DEF p, slot, told, running
    <3> QED BY <1>1, <1>2, <2>2, <2>3, <2>4, AnnouncedBackup DEF running
  <2>6. CASE p = "backup" /\ works' = running /\ screens'["backup"] = Observed(p, slot, told, saved)
    <3>1. w.kind \in Aside /\ slot = w.kind
      BY <1>1, <2>6 DEF ScreenOf, Slot, Aside
    <3>2. screen = screens["backup"] /\ screen # Nil
      BY <2>1, <2>6, NilAssumption
    <3>3. Follows(screen, w) /\ \A v \in running : ~(v.kind \in Aside /\ v.shown)
      BY <1>4, <3>1, <3>2 DEF Followed
    <3>4. Promised(running, d) /\ OffersWhole(screen, running, d)
      BY <3>2 DEF Backup
    <3>5. /\ told.restored = screen.restored /\ told.restoring = screen.restoring
          /\ told.state[slot] = state
          /\ \A s \in Slots \ {slot} : told.state[s] = screen.state[s]
      BY <1>2, <2>1 DEF Screen
    <3>6. \A b : Followed(b, running)
      BY <3>3 DEF Followed
    <3> DEFINE b == Observed(p, slot, told, saved)
    <3>8. p = "backup"
      BY <2>6
    <3>9. told.state[slot] = state
      BY <3>5
    <3> HIDE DEF p, slot, told
    <3>7. OffersWhole(b, running, d) /\ b # Nil
      <4>1. CASE w.kind = "restore" /\ state = "done"
        BY <2>2, <3>1, <3>3, <3>5, <3>8, <3>9, <4>1, NilAssumption DEF Observed, Offer, Follows,
           Screen, OffersWhole
      <4>2. CASE w.kind = "restore" /\ state # "done"
        BY <2>2, <3>1, <3>4, <3>5, <3>8, <3>9, <4>2, NilAssumption DEF Observed, Offer, Slots,
           OffersWhole
      <4>3. CASE w.kind = "switch" /\ state = "done"
        BY <2>2, <3>1, <3>4, <3>5, <3>8, <3>9, <4>3, NilAssumption DEF Observed, Screen, Slots,
           OffersWhole
      <4>4. CASE w.kind = "switch" /\ state # "done"
        <5>1. b = told
          BY <3>1, <3>8, <3>9, <4>4 DEF Observed
        <5>2. told.state["switch"] # "running" /\ told.state["restore"] = screen.state["restore"]
          BY <3>1, <3>5, <4>4 DEF Slots
        <5>3. told.restored \in {Nil, w.arg}
          BY <3>3, <3>5, <4>4 DEF Follows
        <5> QED BY <2>2, <3>4, <3>5, <4>4, <5>1, <5>2, <5>3, NilAssumption DEF OffersWhole
      <4> QED BY <3>1, <4>1, <4>2, <4>3, <4>4 DEF Aside
    <3> QED BY <2>6, <3>4, <3>6, <3>7 DEF Backup
  <2>7. CASE p # "backup" /\ works' = running /\ screens'["backup"] = screens["backup"]
    BY <2>7
  <2>8. CASE /\ screens'["backup"] = Nil
             /\ \E seen \in [Working -> BOOLEAN] : works' = Hidden(running, seen)
    BY <1>1, <2>8, HiddenPromised DEF Backup
  <2> QED BY <2>5, <2>6, <2>7, <2>8
<1> QED BY <1>3, <1>4

(* The screen the operator opens first offers nothing.                     *)
LEMMA OpenedBackup ==
  ASSUME ManagerInv, OfferInv, NEW p \in Pages, Open(p)
  PROVE  OfferInv'
<1>0. "backup" \in Pages
  BY DEF Pages, ScreenOf
<1>1. screens[p] = Nil /\ screens' = [screens EXCEPT ![p] = New(main)] /\ UNCHANGED <<works, dbs>>
  BY DEF Open
<1>2. CASE p = "backup"
  <2> DEFINE b == New(main)
  <2>1. screens'["backup"] = b
    BY <1>0, <1>1, <1>2 DEF ManagerInv, TypeInv
  <2>2. /\ b.restored = Nil /\ b.restoring = Nil
        /\ b.state["restore"] = "idle" /\ b.state["switch"] = "idle"
    BY DEF New, Slots
  <2> HIDE DEF b
  <2>3. OffersWhole(b, works, dbs)
    BY <2>2 DEF OffersWhole
  <2>4. \A w \in works : ~(w.kind \in Aside /\ w.shown)
    BY <1>1, <1>2 DEF ManagerInv, Known, Screened, Aside, ScreenOf
  <2>5. Followed(b, works)
    BY <2>4 DEF Followed
  <2> QED BY <1>1, <2>1, <2>3, <2>5 DEF OfferInv, Backup
<1>3. CASE p # "backup"
  BY <1>0, <1>1, <1>3 DEF ManagerInv, TypeInv, OfferInv
<1> QED BY <1>2, <1>3

(* A job of another screen, or a restore or a switch when nothing runs on  *)
(* the Backup screen: a switch of what is offered, which is ready for it.  *)
LEMMA StartedBackup ==
  ASSUME ManagerInv, OfferInv, NEW kind \in DOMAIN ScreenOf, NEW arg, Start(kind, arg),
         UNCHANGED dbs,
         kind \in Aside => arg \in Names,
         kind = "switch" => screens["backup"].restored = arg
  PROVE  OfferInv'
<1> DEFINE p == ScreenOf[kind]
           screen == screens[p]
           w == [id |-> jobs, kind |-> kind, arg |-> arg, record |-> Given(p), saving |-> FALSE, shown |-> TRUE]
           opened == [screen EXCEPT !.state[Slot(kind)] = "running", !.ticks = @ \ {Slot(kind)},
                                    !.restoring = IF kind = "restore" THEN arg ELSE @,
                                    !.restored = IF kind = "restore" THEN Nil ELSE @]
<1>1. p \in Pages /\ "backup" \in Pages /\ screen \in Screen /\ Slot(kind) \in Slots
  BY DEF Start, ManagerInv, TypeInv, Pages, ScreenOf, Slot, Slots
<1>2. /\ works' = works \union {w} /\ screens' = [screens EXCEPT ![p] = opened]
      /\ ~Busy(screen) /\ dbs' = dbs
  BY DEF Start
<1>3. w.kind = kind /\ w.arg = arg /\ w.shown /\ ~w.saving
  OBVIOUS
<1>4. CASE kind \notin Aside
  <2>1. p # "backup"
    BY <1>4 DEF ScreenOf, Aside
  <2> HIDE DEF w, opened, p
  <2>2. screens'["backup"] = screens["backup"]
    BY <1>1, <1>2, <2>1 DEF ManagerInv, TypeInv
  <2>3. Promised(works', dbs)
    BY <1>2, <1>3, <1>4 DEF OfferInv, Backup, Promised, Aside
  <2>4. ASSUME screens["backup"] # Nil
        PROVE  OffersWhole(screens["backup"], works', dbs) /\ Followed(screens["backup"], works')
    BY <1>2, <1>3, <1>4, <2>4 DEF OfferInv, Backup, OffersWhole, Ready, Aside, Followed
  <2> QED BY <1>2, <2>2, <2>3, <2>4 DEF OfferInv, Backup
<1>5. CASE kind \in Aside
  <2>1. p = "backup" /\ Slot(kind) = kind /\ arg \in Names
    BY <1>5 DEF ScreenOf, Aside, Slot
  <2>2. screen = screens["backup"] /\ screen # Nil
    BY <1>1, <2>1, NilAssumption
  <2>3. OffersWhole(screen, works, dbs) /\ Followed(screen, works) /\ Promised(works, dbs)
    BY <2>2 DEF OfferInv, Backup
  <2>4. \A s \in Slots : screen.state[s] # "running"
    BY <1>2 DEF Busy
  <2>5. \A v \in works : ~(v.kind \in Aside /\ v.shown)
    BY <2>3, <2>4 DEF Followed, Follows, Aside, Slots
  <2>6. /\ opened.state[kind] = "running"
        /\ \A s \in Slots \ {kind} : opened.state[s] = screen.state[s]
        /\ opened.restoring = IF kind = "restore" THEN arg ELSE screen.restoring
        /\ opened.restored = IF kind = "restore" THEN Nil ELSE screen.restored
        /\ opened \in Screen
    BY <1>1, <2>1 DEF Screen, Slots
  <2>7. kind = "switch" => screen.restored = arg /\ Ready(arg, works, dbs)
    BY <2>1, <2>2, <2>3, <2>4, NilAssumption DEF OffersWhole, Slots
  <2>8. screens'["backup"] = opened
    BY <1>1, <1>2, <2>1 DEF ManagerInv, TypeInv
  <2> HIDE DEF w, opened, screen
  <2>9. Promised(works', dbs)
    BY <1>2, <1>3, <2>3, <2>7 DEF Promised, Ready
  <2>10. OffersWhole(opened, works', dbs)
    BY <1>5, <2>3, <2>4, <2>6 DEF OffersWhole, Slots, Aside
  <2>11. Followed(opened, works')
    BY <1>2, <1>3, <2>5, <2>6, <2>7 DEF Followed, Follows
  <2> QED BY <1>2, <2>8, <2>9, <2>10, <2>11 DEF OfferInv, Backup
<1> QED BY <1>4, <1>5

(* A restore fills a database that was not there; a switch puts the one it *)
(* has to itself in service: nothing else was about to use either.         *)
LEMMA WorkedBackup ==
  ASSUME ManagerInv, OfferInv, NEW w \in works, Work(w)
  PROVE  OfferInv'
<1> DEFINE saving == [w EXCEPT !.saving = TRUE]
           b == screens["backup"]
<1>1. /\ ~w.saving /\ Can(w) /\ works' = (works \ {w}) \union {saving} /\ screens' = screens
      /\ dbs' = CASE w.kind = "restore" -> [dbs EXCEPT ![w.arg] = "partial"]
                  [] w.kind = "switch" -> [dbs EXCEPT ![w.arg] = "absent"]
                  [] OTHER -> dbs
  BY DEF Work
<1>2. w \in Working /\ (w.kind \in Aside => w.arg \in Names)
  BY DEF ManagerInv, TypeInv, Working, Aside
<1>3. /\ saving.kind = w.kind /\ saving.arg = w.arg
      /\ saving.shown = w.shown /\ saving.saving
  BY <1>2 DEF Working
<1> HIDE DEF saving
<1>4. Promised(works, dbs) /\ dbs \in [Names -> {"absent", "partial", "whole"}]
  BY DEF OfferInv, Backup
<1>5. Followed(b, works) => Followed(b, works')
  BY <1>1, <1>3 DEF Followed, Follows
<1>6. Promised(works', dbs') /\ dbs' \in [Names -> {"absent", "partial", "whole"}]
      /\ (b # Nil => OffersWhole(b, works', dbs'))
  <2>1. CASE w.kind = "restore"
    BY <1>1, <1>2, <1>3, <1>4, <2>1 DEF Can, Aside, ManagerInv, TypeInv, Working, Promised, Ready,
       OfferInv, Backup, OffersWhole
  <2>2. CASE w.kind = "switch"
    BY <1>1, <1>2, <1>3, <1>4, <2>2 DEF Promised, Aside, ManagerInv, TypeInv, Working, Ready,
       OfferInv, Backup, OffersWhole
  <2>3. CASE w.kind \notin Aside
    BY <1>1, <1>3, <1>4, <2>3 DEF Aside, Promised, Ready, OfferInv, Backup, OffersWhole
  <2> QED BY <2>1, <2>2, <2>3 DEF Aside
<1> QED BY <1>1, <1>5, <1>6 DEF OfferInv, Backup

(* A restore that ends well leaves its database whole.                     *)
LEMMA SavedBackup ==
  ASSUME ManagerInv, OfferInv, NEW w \in works, Save(w)
  PROVE  OfferInv'
<1> DEFINE b == screens["backup"]
           running == works \ {w}
<1>1. /\ w.saving /\ Finish(w, "done", Saved(w))
      /\ dbs' = IF w.kind = "restore" THEN [dbs EXCEPT ![w.arg] = "whole"] ELSE dbs
  BY DEF Save
<1>2. w.kind \in Aside => w.arg \in Names
  BY DEF ManagerInv, TypeInv, Working, Aside
<1>3. /\ Promised(works, dbs) /\ dbs \in [Names -> {"absent", "partial", "whole"}]
      /\ Backup(running, b, dbs)
  BY FewerBackup DEF OfferInv, Backup
<1>4. dbs' \in [Names -> {"absent", "partial", "whole"}]
  BY <1>1, <1>2, <1>3 DEF Aside
<1>5. Backup(running, b, dbs') /\ (w.kind = "restore" => Ready(w.arg, running, dbs'))
  <2>1. CASE w.kind = "restore"
    BY <1>1, <1>2, <1>3, <2>1 DEF Promised, Aside, ManagerInv, TypeInv, Working, Ready, Backup,
       OffersWhole
  <2>2. CASE w.kind # "restore"
    BY <1>1, <1>3, <2>2
  <2> QED BY <2>1, <2>2
<1>6. b # Nil => Followed(b, works)
  BY DEF OfferInv, Backup
<1>7. Backup(works', screens'["backup"], dbs')
  BY <1>1, <1>5, <1>6, FinishedBackup
<1> QED BY <1>4, <1>7 DEF OfferInv

(* One that fails leaves it as it is, and a switch that could not begin     *)
(* leaves its database ready.                                               *)
LEMMA FailedBackup ==
  ASSUME ManagerInv, OfferInv, NEW w \in works, JobFails(w)
  PROVE  OfferInv'
<1>1. /\ ~w.saving \/ w.kind = "restore"
      /\ Finish(w, "failed", disk) /\ dbs' = dbs
  BY DEF JobFails
<1>2. w.kind \in Aside => w.arg \in Names
  BY DEF ManagerInv, TypeInv, Working, Aside
<1>3. Backup(works \ {w}, screens["backup"], dbs)
  BY FewerBackup DEF OfferInv
<1>4. w.kind = "switch" => Ready(w.arg, works \ {w}, dbs)
  BY <1>1, <1>2 DEF OfferInv, Backup, Promised, Ready, Aside
<1>5. screens["backup"] # Nil => Followed(screens["backup"], works)
  BY DEF OfferInv, Backup
<1>6. Backup(works', screens'["backup"], dbs)
  BY <1>1, <1>3, <1>4, <1>5, FinishedBackup
<1> QED BY <1>1, <1>6 DEF OfferInv

(* The tick that comes after the end takes an offer back at most.          *)
LEMMA TickedBackup ==
  ASSUME ManagerInv, OfferInv, NEW p \in Pages, NEW slot \in Slots, Tick(p, slot)
  PROVE  OfferInv'
<1> DEFINE told == [screens[p] EXCEPT !.ticks = @ \ {slot}]
<1>1. screens[p] # Nil /\ Announce(p, slot, told, disk, works) /\ dbs' = dbs
  BY DEF Tick
<1>2. screens[p] \in Screen
  BY <1>1 DEF ManagerInv, TypeInv
<1>3. /\ told \in Screen /\ told.state = screens[p].state
      /\ told.restored = screens[p].restored /\ told.restoring = screens[p].restoring
  BY <1>2 DEF Screen
<1>4. TypeInv /\ works \in SUBSET Working
  BY DEF ManagerInv, TypeInv
<1> HIDE DEF told
<1>5. \/ /\ p = "backup" /\ works' = works
         /\ screens'["backup"] = Observed(p, slot, told, disk)
      \/ p # "backup" /\ works' = works /\ screens'["backup"] = screens["backup"]
      \/ /\ screens'["backup"] = Nil
         /\ \E seen \in [Working -> BOOLEAN] : works' = Hidden(works, seen)
  BY <1>1, <1>3, <1>4, AnnouncedBackup
<1>6. CASE p = "backup" /\ works' = works /\ screens'["backup"] = Observed(p, slot, told, disk)
  <2> DEFINE b == screens'["backup"]
             s == screens["backup"]
  <2>1. OffersWhole(s, works, dbs) /\ Followed(s, works) /\ Promised(works, dbs)
    BY <1>1, <1>6 DEF OfferInv, Backup
  <2>2. b \in Screen /\ b.state = s.state /\ b.restoring \in {s.restoring, Nil} /\ b.restored \in {s.restored, Nil}
        /\ (b.restoring # s.restoring => s.state["restore"] = "done")
    <3>1. CASE slot = "restore" /\ s.state["restore"] = "done"
      BY <1>3, <1>6, <2>1, <3>1 DEF OffersWhole, Observed, Offer, Screen
    <3>2. CASE slot = "restore" /\ s.state["restore"] # "done"
      BY <1>3, <1>6, <3>2 DEF Observed, Offer
    <3>3. CASE slot = "switch" /\ s.state["switch"] = "done"
      BY <1>3, <1>6, <3>3 DEF Observed, Screen
    <3>4. CASE slot # "restore" /\ ~(slot = "switch" /\ s.state["switch"] = "done")
      BY <1>3, <1>6, <3>4 DEF Observed
    <3> QED BY <3>1, <3>2, <3>3, <3>4
  <2> HIDE DEF b, s
  <2>3. OffersWhole(b, works, dbs)
    BY <2>1, <2>2 DEF OffersWhole
  <2>4. Followed(b, works)
    BY <2>1, <2>2 DEF Followed, Follows, OffersWhole
  <2> QED BY <1>1, <1>6, <2>1, <2>3, <2>4 DEF OfferInv, Backup, b
<1>7. CASE p # "backup" /\ works' = works /\ screens'["backup"] = screens["backup"]
  BY <1>1, <1>7 DEF OfferInv
<1>8. CASE /\ screens'["backup"] = Nil
           /\ \E seen \in [Working -> BOOLEAN] : works' = Hidden(works, seen)
  BY <1>1, <1>4, <1>8, HiddenPromised DEF OfferInv, Backup
<1> QED BY <1>5, <1>6, <1>7, <1>8

(* A new manager offers nothing; the restores and switches of root go on.  *)
LEMMA ReplacedBackup ==
  ASSUME ManagerInv, OfferInv, Quit
  PROVE  OfferInv'
<1>1. PICK going \in SUBSET works : works' = {[w EXCEPT !.shown = FALSE] : w \in going}
  BY DEF Quit
<1>2. screens' = NoScreens /\ dbs' = dbs
  BY DEF Quit
<1> DEFINE seen == [w \in Working |-> FALSE]
<1>3. seen \in [Working -> BOOLEAN] /\ going \in SUBSET Working
  BY DEF ManagerInv, TypeInv
<1>4. works' = Hidden(going, seen)
  BY <1>1, <1>3 DEF Hidden
<1> HIDE DEF seen
<1>5. Promised(going, dbs)
  BY FewerBackup DEF OfferInv, Backup
<1>6. Promised(works', dbs)
  BY <1>3, <1>4, <1>5, HiddenPromised
<1>7. screens'["backup"] = Nil
  BY <1>2 DEF NoScreens, Pages, ScreenOf
<1> QED BY <1>2, <1>6, <1>7 DEF OfferInv, Backup

(* Every step keeps it.                                                    *)
LEMMA KeptBackup ==
  ASSUME ManagerInv, OfferInv, [ManagerNext]_managerVars
  PROVE  OfferInv'
<1>1. CASE UNCHANGED managerVars
  BY <1>1 DEF managerVars, OfferInv
<1>2. CASE \E p \in Pages : Open(p)
  BY <1>2, OpenedBackup
<1>3. ASSUME NEW kind \in DOMAIN ScreenOf, NEW arg, Start(kind, arg)
      PROVE  UNCHANGED dbs
  BY <1>3 DEF Start
<1>4. CASE AdoptExisting \/ RemoveKept \/ Repair
  BY <1>3, <1>4, StartedBackup DEF AdoptExisting, RemoveKept, Repair, ScreenOf, Aside
<1>5. CASE Quit
  BY <1>5, ReplacedBackup
<1>6. CASE \E v \in Versions : Update(v)
  BY <1>3, <1>6, StartedBackup DEF Update, ScreenOf, Aside
<1>7. CASE \E v \in Values : ApplySettings(v)
  BY <1>3, <1>7, StartedBackup DEF ApplySettings, ScreenOf, Aside
<1>8. CASE \E t \in Types : Migrate(t)
  BY <1>3, <1>8, StartedBackup DEF Migrate, ScreenOf, Aside
<1>9. CASE \E n \in Names : Restore(n) \/ Switch(n)
  BY <1>3, <1>9, StartedBackup DEF Restore, Switch, ScreenOf
<1>10. CASE \E w \in works : Work(w) \/ Save(w) \/ JobFails(w)
  BY <1>10, WorkedBackup, SavedBackup, FailedBackup
<1>11. CASE \E p \in Pages, slot \in Slots : Tick(p, slot)
  BY <1>11, TickedBackup
<1> QED BY <1>1, <1>2, <1>4, <1>5, <1>6, <1>7, <1>8, <1>9, <1>10, <1>11 DEF ManagerNext, Operating, Background

(* What the Backup screen offers to put in service was restored completely *)
(* (manager/backup.rs), for any number of databases, jobs and replacements  *)
(* of the manager: even when restores and switches of a screen that is gone *)
(* go on unseen, and a tick comes late.                                     *)
THEOREM OfferedIsAlwaysWhole == ManagerSpec => []OfferedIsWhole
<1>1. ManagerInit => OfferInv
  BY DEF ManagerInit, NoScreens, Pages, ScreenOf, OfferInv, Backup, Promised
<1>2. ManagerInv /\ OfferInv /\ [ManagerNext]_managerVars => OfferInv'
  BY KeptBackup
<1>3. OfferInv => OfferedIsWhole
  BY DEF OfferInv, Backup, OffersWhole, Ready, OfferedIsWhole, Offered
<1> QED BY <1>1, <1>2, <1>3, InvAlways, PTL DEF ManagerSpec
=============================================================================
