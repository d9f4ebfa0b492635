-------------------------- MODULE LinuxSetupProofs --------------------------
(***************************************************************************)
(* LinuxSetup for any plans, ports, settings, failures, deaths and number  *)
(* of installations and changes.  "The database was kept and can be        *)
(* reused": Inv, and KeptSurvives.  The passwords fit, whatever fails or   *)
(* is killed: PasswordsOK, and CredentialsAgree.  Where PostgreSQL takes   *)
(* every parameter and keeps its port a setup finishes: SetupsOK, and      *)
(* SetupAgainFinishes; and where what the code has no way back from does   *)
(* not fail the settings fit: SettingsOK, and SettingsTogether.            *)
(***************************************************************************)
EXTENDS LinuxSetup, WellFoundedInduction, TLAPS

(* The steps of an installation before which the name it sets a database   *)
(* aside under is not used.                                                *)
Early == {"packages", "port", "clickhouse", "role", "kept"}
IsEarly == job.kind = "install" /\ at \in Early

(* A database and a history that are there.                                *)
DatabaseIn(p, n) == p.pg # None /\ Holds(p.pg.dbs, n)
HistoryIn(p, n) == p.ch # None /\ p.ch.of = n
In(p, h) == IF h[1] = "database" THEN DatabaseIn(p, h[2]) ELSE HistoryIn(p, h[2])
Under(p, k) == IF p.pg = None THEN None ELSE p.pg.dbs[k]

(* What a step of a computer leaves there; and one that sets nothing aside. *)
Preserves(p, q) ==
  /\ q \in Computer
  /\ \A n \in Name : DatabaseIn(p, n) => DatabaseIn(q, n)
  /\ \A n \in Name : HistoryIn(p, n) => HistoryIn(q, n)
Keeps(p, q) == Preserves(p, q) /\ \A k \in Name \ {0} : Under(q, k) = Under(p, k)

JobOK ==
  /\ IF at = "idle" THEN job = NoJob ELSE job \in Job /\ at \in ToSet(Paths[job.kind])
  /\ last.job \in Job \union {NoJob}
  /\ setups \in 0..MaxSetups /\ changes \in 0..MaxChanges /\ faults \in 0..MaxFaults
  /\ job.kind = "install" => setups > 0
HeldOK == held \subseteq {"database", "history"} \X Name /\ \A h \in held : In(pc, h)
(* Databases are set aside under the names of the installations so far.    *)
NamesOK == \A k \in Name : k > setups \/ (IsEarly /\ k = setups) => Under(pc, k) = None

Inv == pc \in Computer /\ JobOK /\ HeldOK /\ NamesOK

----------------------------------------------------------------------------
(* The paths of the jobs.                                                  *)
LEMMA MinIs ==
  ASSUME NEW S \in SUBSET Nat, S # {}
  PROVE  Min(S) \in S /\ \A y \in S : Min(S) <= y
<1>1. PICK x \in S : \A y \in S : <<y, x>> \notin OpToRel(<, Nat)
  BY WFMin, NatLessThanWellFounded
<1>2. \A y \in S : ~(y < x)
  BY <1>1, Zenon DEF OpToRel
<1>3. \A y \in S : x <= y
  BY <1>2
<1> QED BY <1>3 DEF Min

LEMMA KindsAre == Kinds = {"install", "repair", "settings", "uninstall", "delete"}
BY DEF Kinds, Paths

(* Each ends with a step that is always taken.                             *)
LEMMA Ending ==
  ASSUME NEW k \in Kinds
  PROVE  /\ Len(Paths[k]) \in Nat \ {0} /\ DOMAIN Paths[k] = 1..Len(Paths[k])
         /\ Last(Paths[k]) = Paths[k][Len(Paths[k])]
         /\ Last(Paths[k]) \in {"record", "serve", "back", "unrecord"}
<1> DEFINE IsPath(n, s) == Len(Paths[k]) = n /\ DOMAIN Paths[k] = 1..n /\ Paths[k][n] = s
<1>1. CASE k = "install"
  <2>1. IsPath(15, "record")
    BY <1>1 DEF Paths, SetupSteps, KeptSteps, DeploySteps
  <2> QED BY <2>1 DEF Last
<1>2. CASE k = "repair"
  <2>1. IsPath(9, "serve")
    BY <1>2 DEF Paths, DeploySteps
  <2> QED BY <2>1 DEF Last
<1>3. CASE k = "settings"
  <2>1. IsPath(7, "back")
    BY <1>3 DEF Paths, ReconfigureSteps
  <2> QED BY <2>1 DEF Last
<1>4. CASE k = "uninstall"
  <2>1. IsPath(2, "unrecord")
    BY <1>4 DEF Paths
  <2> QED BY <2>1 DEF Last
<1>5. CASE k = "delete"
  <2>1. IsPath(3, "unrecord")
    BY <1>5 DEF Paths
  <2> QED BY <2>1 DEF Last
<1> QED BY <1>1, <1>2, <1>3, <1>4, <1>5, KindsAre

(* ... and the first five of an installation are the early ones.           *)
LEMMA InstallPath ==
  \A i \in DOMAIN Paths["install"] : IF i < 5 THEN Paths["install"][i] \in Early \ {"kept"}
                                   ELSE i > 5 => Paths["install"][i] \notin Early
BY DEF Early, Paths, SetupSteps, KeptSteps, DeploySteps

(* The names of the steps some jobs do not have.                           *)
LEMMA OwnSteps ==
  /\ \A k \in Kinds : "kept" \in ToSet(Paths[k]) => k = "install"
  /\ \A k \in Kinds : "reissue" \in ToSet(Paths[k]) => k = "repair"
  /\ \A k \in Kinds : "drop" \in ToSet(Paths[k]) => k = "delete"
  /\ "programs" \in ToSet(Paths["repair"]) /\ "back" \in ToSet(Paths["settings"])
  /\ \A k \in Kinds : "idle" \notin ToSet(Paths[k])
  /\ \A k \in Kinds : Last(Paths[k]) # "drop"
<1>1. \A k \in Kinds : \A s \in {"kept", "reissue", "drop", "idle"} : s \in ToSet(Paths[k]) =>
        <<k, s>> \in {<<"install", "kept">>, <<"repair", "reissue">>, <<"delete", "drop">>}
  <2> SUFFICES ASSUME NEW k \in Kinds, NEW s \in {"kept", "reissue", "drop", "idle"}, s \in ToSet(Paths[k])
               PROVE  <<k, s>> \in {<<"install", "kept">>, <<"repair", "reissue">>, <<"delete", "drop">>}
    OBVIOUS
  <2>1. CASE k = "install"
    BY <2>1 DEF Paths, SetupSteps, KeptSteps, DeploySteps, ToSet
  <2>2. CASE k = "repair"
    BY <2>2 DEF Paths, DeploySteps, ToSet
  <2>3. CASE k = "settings"
    BY <2>3 DEF Paths, ReconfigureSteps, ToSet
  <2>4. CASE k = "uninstall"
    BY <2>4 DEF Paths, ToSet
  <2>5. CASE k = "delete"
    BY <2>5 DEF Paths, ToSet
  <2> QED BY <2>1, <2>2, <2>3, <2>4, <2>5, KindsAre
<1>2. "programs" \in ToSet(Paths["repair"])
  <2>1. Paths["repair"][2] = "programs" /\ 2 \in DOMAIN Paths["repair"]
    BY DEF Paths, DeploySteps
  <2> QED BY <2>1 DEF ToSet
<1>3. "back" \in ToSet(Paths["settings"])
  <2>1. Paths["settings"][7] = "back" /\ 7 \in DOMAIN Paths["settings"]
    BY DEF Paths, ReconfigureSteps
  <2> QED BY <2>1 DEF ToSet
<1> QED BY <1>1, <1>2, <1>3, Ending

LEMMA StepAfterIs ==
  ASSUME NEW j, j.kind \in Kinds, NEW i \in 0..(Len(Paths[j.kind]) - 1)
  PROVE  \E k \in DOMAIN Paths[j.kind] :
           /\ k > i /\ StepAfter(j, i) = Paths[j.kind][k] /\ Applies(j, Paths[j.kind][k])
           /\ \A n \in DOMAIN Paths[j.kind] : n > i /\ n < k => ~Applies(j, Paths[j.kind][n])
<1> DEFINE path == Paths[j.kind]
<1>1. /\ Len(path) \in Nat \ {0} /\ DOMAIN path = 1..Len(path)
      /\ path[Len(path)] \in {"record", "serve", "back", "unrecord"}
  BY Ending
<1>2. Applies(j, path[Len(path)])
  BY <1>1 DEF Applies, ToSet, KeptSteps
<1>3. Len(path) \in Later(j, i)
  BY <1>1, <1>2 DEF Later
<1>4. Later(j, i) \in SUBSET Nat
  BY <1>1 DEF Later
<1>5. Min(Later(j, i)) \in Later(j, i) /\ \A n \in Later(j, i) : Min(Later(j, i)) <= n
  BY <1>3, <1>4, MinIs
<1>6. \A n \in DOMAIN path : n > i /\ n < Min(Later(j, i)) => n \notin Later(j, i)
  BY <1>1, <1>4, <1>5
<1>7. \A n \in DOMAIN path : n > i /\ n \notin Later(j, i) => ~Applies(j, path[n])
  BY Zenon DEF Later
<1> QED BY <1>5, <1>6, <1>7 DEF StepAfter, Later

LEMMA StepAfterInPath ==
  ASSUME NEW j, j.kind \in Kinds
  PROVE  StepAfter(j, 0) \in ToSet(Paths[j.kind])
<1>1. 0 \in 0..(Len(Paths[j.kind]) - 1)
  BY Ending
<1>2. PICK k \in DOMAIN Paths[j.kind] : StepAfter(j, 0) = Paths[j.kind][k]
  BY <1>1, StepAfterIs
<1> QED BY <1>2, Zenon DEF ToSet

(* The step that follows is one of the job's, and no early one but after   *)
(* another.                                                                *)
LEMMA FollowingIs ==
  ASSUME job.kind \in Kinds, at \in ToSet(Paths[job.kind]), at # Last(Paths[job.kind])
  PROVE  /\ Following \in ToSet(Paths[job.kind])
         /\ job.kind = "install" /\ Following \in Early => at \in Early \ {"kept"}
<1> DEFINE path == Paths[job.kind]
           i == CHOOSE i \in DOMAIN path : path[i] = at
<1>1. i \in DOMAIN path /\ path[i] = at
  BY Zenon DEF ToSet
<1>2. Len(path) \in Nat \ {0} /\ DOMAIN path = 1..Len(path) /\ Last(path) = path[Len(path)]
  BY Ending
<1>3. i # Len(path)
  BY <1>1, <1>2, Zenon
<1>4. Following = StepAfter(job, i)
  BY DEF Following
<1> HIDE DEF i
<1>5. i \in 0..(Len(path) - 1)
  BY <1>1, <1>2, <1>3
<1>6. PICK k \in DOMAIN path : k > i /\ Following = path[k]
  BY <1>4, <1>5, StepAfterIs
<1>7. Following \in ToSet(path)
  BY <1>6, Zenon DEF ToSet
<1>8. ASSUME job.kind = "install", Following \in Early
      PROVE  at \in Early \ {"kept"}
  <2>1. k <= 5
    BY <1>8, <1>6, <1>2, InstallPath
  <2>2. i < 5
    BY <2>1, <1>6, <1>1, <1>2
  <2> QED BY <2>2, <1>1, <1>8, InstallPath
<1> QED BY <1>7, <1>8

----------------------------------------------------------------------------
(* What is there stays there.                                              *)
LEMMA SameKeeps ==
  ASSUME NEW p \in Computer
  PROVE  Keeps(p, p)
BY DEF Keeps, Preserves

LEMMA KeepsTransitive ==
  ASSUME NEW p, NEW q, NEW r, Keeps(p, q), Keeps(q, r)
  PROVE  Keeps(p, r)
BY DEF Keeps, Preserves

(* What SENTIENT serves is there.                                          *)
LEMMA ServesIsIn ==
  ASSUME NEW p \in Computer, NEW h \in Serves(p)
  PROVE  h \in {"database", "history"} \X Name /\ In(p, h)
<1>1. Serving(p) /\ h \in {<<"database", p.pg.dbs[0].of>>} \union
         (IF p.started.flavor = "clickhouse" /\ p.ch.of # None THEN {<<"history", p.ch.of>>} ELSE {})
  BY DEF Serves
<1>2. 0 \in Name
  BY LinuxSetupAssumption DEF Name
<1>3. p.pg # None /\ p.pg.dbs[0] # None /\ (p.started.flavor = "clickhouse" => p.ch # None)
  BY <1>1 DEF Serving, Sql
<1>4. p.pg \in Postgres /\ p.pg.dbs[0] \in Databases(Name)
  BY <1>2, <1>3 DEF Computer, Postgres
<1>5. p.pg.dbs[0].of \in Name /\ 0 \in DOMAIN p.pg.dbs
  BY <1>4, <1>2 DEF Databases, Postgres
<1>6. CASE h = <<"database", p.pg.dbs[0].of>>
  <2>1. h[1] = "database" /\ h[2] = p.pg.dbs[0].of
    BY <1>6
  <2>2. DatabaseIn(p, h[2])
    BY <2>1, <1>3, <1>5 DEF DatabaseIn, Holds
  <2> QED BY <1>6, <2>1, <2>2, <1>5 DEF In
<1>7. CASE p.started.flavor = "clickhouse" /\ p.ch.of # None /\ h = <<"history", p.ch.of>>
  <2>1. p.ch.of \in Name
    BY <1>7, <1>3 DEF Computer, History
  <2>2. h[1] = "history" /\ h[2] = p.ch.of
    BY <1>7
  <2> QED BY <1>7, <2>1, <2>2, <1>3 DEF In, HistoryIn
<1> QED BY <1>1, <1>6, <1>7

LEMMA HeldStays ==
  ASSUME pc \in Computer, HeldOK, Preserves(pc, pc'), held' \subseteq held \union Serves(pc')
  PROVE  HeldOK'
<1>1. pc' \in Computer
  BY DEF Preserves
<1>2. ASSUME NEW h \in held'
      PROVE  h \in {"database", "history"} \X Name /\ In(pc', h)
  <2>1. CASE h \in held
    <3>1. h \in {"database", "history"} \X Name /\ In(pc, h)
      BY <2>1 DEF HeldOK
    <3>2. h[2] \in Name
      BY <3>1
    <3>3. In(pc', h)
      BY <3>1, <3>2 DEF In, Preserves
    <3> QED BY <3>1, <3>3
  <2>2. CASE h \in Serves(pc')
    BY <2>2, <1>1, ServesIsIn
  <2> QED BY <2>1, <2>2
<1> QED BY <1>2, Zenon DEF HeldOK, In, DatabaseIn, HistoryIn

LEMMA NamesStay ==
  ASSUME pc \in Computer, JobOK, NamesOK, Keeps(pc, pc'), setups' = setups, IsEarly' => IsEarly
  PROVE  NamesOK'
<1> SUFFICES ASSUME NEW k \in Name, (k > setups) \/ (IsEarly' /\ k = setups)
             PROVE  Under(pc', k) = None
  BY Zenon DEF NamesOK, Under
<1>1. k # 0
  BY DEF JobOK, IsEarly, Name
<1>2. Under(pc', k) = Under(pc, k)
  BY <1>1 DEF Keeps
<1> QED BY <1>2 DEF NamesOK

(* How jobs go on and end.                                                 *)
LEMMA JobKind ==
  ASSUME JobOK, at # "idle"
  PROVE  job \in Job /\ job.kind \in Kinds /\ at \in ToSet(Paths[job.kind])
BY DEF JobOK, Job

LEMMA JobEnds ==
  ASSUME JobOK, NEW how, End(how), UNCHANGED <<setups, changes>>, faults' \in 0..MaxFaults
  PROVE  JobOK' /\ ~IsEarly'
<1>1. job \in Job \union {NoJob}
  BY DEF JobOK
<1>2. at' = "idle" /\ job' = NoJob /\ last'.job = job
  BY DEF End
<1>3. job'.kind # "install"
  BY <1>2 DEF NoJob
<1> QED BY <1>1, <1>2, <1>3 DEF JobOK, IsEarly

LEMMA JobGoesOn ==
  ASSUME JobOK, at # "idle", at' \in ToSet(Paths[job.kind]), UNCHANGED <<job, last, setups, changes>>,
         faults' \in 0..MaxFaults
  PROVE  JobOK'
<1>1. at' # "idle"
  BY JobKind, OwnSteps
<1> QED BY <1>1, JobKind DEF JobOK

LEMMA DoesJob ==
  ASSUME JobOK, at # "idle", NEW new, Does(new), Bounds
  PROVE  JobOK' /\ (IsEarly' => at \in Early \ {"kept"} /\ IsEarly)
<1>1. faults' \in 0..MaxFaults /\ UNCHANGED <<setups, changes>>
  BY DEF JobOK, Bounds
<1>2. CASE Ends
  BY <1>1, <1>2, JobEnds DEF Does
<1>3. CASE ~Ends
  <2>1. at' = Following /\ UNCHANGED <<job, last>>
    BY <1>3 DEF Does
  <2>2. at # Last(Paths[job.kind])
    BY <1>3 DEF Ends
  <2>3. Following \in ToSet(Paths[job.kind]) /\ (job.kind = "install" /\ Following \in Early => at \in Early \ {"kept"})
    BY <2>2, JobKind, FollowingIs
  <2> QED BY <2>1, <2>3, <1>1, JobGoesOn DEF IsEarly
<1> QED BY <1>2, <1>3

LEMMA FailsJob ==
  ASSUME JobOK, at # "idle", NEW how, NEW new, Fails(how, new), UNCHANGED <<setups, changes>>,
         faults' \in 0..MaxFaults
  PROVE  JobOK' /\ ~IsEarly'
<1>1. CASE PutsBack
  <2>1. job.kind = "settings" /\ at' = "back" /\ UNCHANGED <<job, last>>
    BY <1>1 DEF PutsBack, Fails
  <2> QED BY <2>1, JobGoesOn, OwnSteps DEF IsEarly
<1>2. CASE ~PutsBack
  BY <1>2, JobEnds DEF Fails
<1> QED BY <1>1, <1>2

(* A step that sets nothing aside.                                         *)
LEMMA DoesKeeps ==
  ASSUME Inv, at # "idle", NEW new, Keeps(pc, new), Does(new), Bounds
  PROVE  Inv'
<1>1. pc' = new /\ held' = held \union Serves(pc') /\ setups' = setups
  BY Zenon DEF Does, Bounds
<1>2. JobOK' /\ (IsEarly' => IsEarly)
  BY DoesJob DEF Inv
<1>3. Keeps(pc, pc') /\ Preserves(pc, pc') /\ pc' \in Computer
  BY <1>1 DEF Keeps, Preserves
<1> QED BY <1>1, <1>2, <1>3, HeldStays, NamesStay DEF Inv

LEMMA FailsKeeps ==
  ASSUME Inv, at # "idle", NEW how, NEW new, Keeps(pc, new), Fails(how, new), UNCHANGED <<setups, changes>>,
         faults' \in 0..MaxFaults
  PROVE  Inv'
<1>1. pc' = new /\ held' = held \union Serves(pc')
  BY Zenon DEF Fails
<1>2. JobOK' /\ ~IsEarly'
  BY FailsJob DEF Inv
<1>3. Keeps(pc, pc') /\ Preserves(pc, pc') /\ pc' \in Computer
  BY <1>1 DEF Keeps, Preserves
<1> QED BY <1>1, <1>2, <1>3, HeldStays, NamesStay DEF Inv

LEMMA DoesIfKeeps ==
  ASSUME Inv, at # "idle", NEW can, NEW new, can => Keeps(pc, new), DoesIf(can, new), Bounds
  PROVE  Inv'
<1>1. CASE can
  BY <1>1, DoesKeeps DEF DoesIf
<1>2. CASE ~can
  <2>1. Fails("stuck", pc)
    BY <1>2, Zenon DEF DoesIf
  <2>2. Keeps(pc, pc) /\ faults' \in 0..MaxFaults
    BY SameKeeps DEF Inv, JobOK, Bounds
  <2> QED BY <2>1, <2>2, FailsKeeps DEF Bounds
<1> QED BY <1>1, <1>2

----------------------------------------------------------------------------
(* What the computer becomes.                                              *)
LEMMA NotNone ==
  ASSUME NEW q \in Computer
  PROVE  /\ q.pg \in Postgres => q.pg # None
         /\ q.ch \in History => q.ch # None
BY NoneAssumption

(* The databases as they are, and ClickHouse with the same history.        *)
LEMMA KeepsDatabases ==
  ASSUME NEW p \in Computer, NEW q \in Computer,
         p.pg # None => q.pg # None /\ q.pg.dbs = p.pg.dbs,
         p.pg = None => q.pg = None \/ q.pg.dbs = NoDatabases,
         p.ch # None => q.ch # None /\ q.ch.of = p.ch.of
  PROVE  Keeps(p, q)
<1>1. \A n \in Name : DatabaseIn(p, n) => DatabaseIn(q, n)
  BY DEF DatabaseIn
<1>2. \A n \in Name : HistoryIn(p, n) => HistoryIn(q, n)
  BY DEF HistoryIn
<1>3. \A k \in Name : Under(q, k) = Under(p, k)
  BY DEF Under, NoDatabases
<1> QED BY <1>1, <1>2, <1>3 DEF Keeps, Preserves

(* PostgreSQL changed but for its databases.                               *)
LEMMA PostgresKeeps ==
  ASSUME NEW p \in Computer, NEW q \in Computer, p.pg # None, q.pg \in Postgres, q.pg.dbs = p.pg.dbs,
         q.ch = p.ch
  PROVE  Keeps(p, q) /\ q.pg # None
<1>1. q.pg # None
  BY NoneAssumption
<1> QED BY <1>1, KeepsDatabases

(* SENTIENT's database made, or with the same installation's data.         *)
LEMMA KeepsInService ==
  ASSUME NEW p \in Computer, NEW q \in Computer, NEW d \in Databases(Name) \union {None},
         p.pg # None, q.pg # None, q.pg.dbs = [p.pg.dbs EXCEPT ![0] = d],
         p.pg.dbs[0] # None => d # None /\ d.of = p.pg.dbs[0].of,
         p.ch # None => q.ch # None /\ (p.ch.of # None => q.ch.of = p.ch.of)
  PROVE  Keeps(p, q)
<1>1. p.pg.dbs \in [Name -> Databases(Name) \union {None}] /\ 0 \in Name
  BY LinuxSetupAssumption DEF Computer, Postgres, Name
<1>2. q.pg.dbs \in [Name -> Databases(Name) \union {None}] /\ q.pg.dbs[0] = d
  BY <1>1
<1>3. ASSUME NEW n \in Name, DatabaseIn(p, n)
      PROVE  DatabaseIn(q, n)
  <2>1. PICK k \in Name : p.pg.dbs[k] # None /\ p.pg.dbs[k].of = n
    BY <1>1, <1>3 DEF DatabaseIn, Holds
  <2>2. q.pg.dbs[k] # None /\ q.pg.dbs[k].of = n
    BY <2>1, <1>1, <1>2
  <2> QED BY <2>2, <1>2 DEF DatabaseIn, Holds
<1>4. \A n \in Name : HistoryIn(p, n) => HistoryIn(q, n)
  <2> SUFFICES ASSUME NEW n \in Name, HistoryIn(p, n)
               PROVE  HistoryIn(q, n)
    OBVIOUS
  <2>1. n # None
    BY NoneAssumption DEF Name
  <2> QED BY <2>1 DEF HistoryIn
<1>5. \A k \in Name \ {0} : Under(q, k) = Under(p, k)
  BY <1>1 DEF Under
<1> QED BY <1>3, <1>4, <1>5 DEF Keeps, Preserves

LEMMA HaltedKeeps ==
  ASSUME NEW p \in Computer
  PROVE  Keeps(p, Halted(p)) /\ Halted(p) \in Computer /\ Halted(p).pg = p.pg
<1>1. Halted(p) \in Computer /\ Halted(p).pg = p.pg /\ Halted(p).ch = p.ch
  BY DEF Halted, Computer
<1> QED BY <1>1, KeepsDatabases, Zenon

LEMMA LaunchedKeeps ==
  ASSUME NEW p \in Computer
  PROVE  Keeps(p, Launched(p)) /\ Launched(p) \in Computer
<1>1. CASE p.started = None /\ CanLaunch(p)
  <2>1. p.pg # None /\ p.pg \in Postgres /\ p.env \in Env
    BY <1>1 DEF CanLaunch, Computer
  <2> DEFINE pg == [p.pg EXCEPT !.up = TRUE]
  <2>2. pg \in Postgres /\ pg.dbs = p.pg.dbs
    BY <2>1 DEF Postgres
  <2>3. Launched(p) = [p EXCEPT !.pg = pg, !.started = p.env]
    BY <1>1 DEF Launched
  <2> HIDE DEF pg
  <2>4. Launched(p) \in Computer /\ Launched(p).pg = pg /\ Launched(p).ch = p.ch
    BY <2>1, <2>2, <2>3 DEF Computer
  <2>5. Launched(p).pg # None
    BY <2>2, <2>4, NoneAssumption
  <2> QED BY <2>1, <2>2, <2>4, <2>5, KeepsDatabases, Zenon
<1>2. CASE ~(p.started = None /\ CanLaunch(p))
  <2>1. Launched(p) = p
    BY <1>2 DEF Launched
  <2> QED BY <2>1, SameKeeps
<1> QED BY <1>1, <1>2

(* PostgreSQL restarted with a parameter. *)
LEMMA TunedKeeps ==
  ASSUME NEW p \in Computer, p.pg # None, NEW value \in Nat
  PROVE  Keeps(p, Tuned(p, value)) /\ Tuned(p, value) \in Computer
<1> DEFINE q == [p EXCEPT !.pg.value = value, !.pg.up = value \notin UnfitPg]
<1>1. p.pg \in Postgres
  BY DEF Computer
<1>2. q.pg = [p.pg EXCEPT !.value = value, !.up = value \notin UnfitPg]
  BY DEF Computer
<1>3. q.pg \in Postgres /\ q.pg.dbs = p.pg.dbs
  BY <1>1, <1>2 DEF Postgres
<1>4. q \in Computer /\ q.ch = p.ch
  BY <1>1, <1>3 DEF Computer
<1>5. Tuned(p, value) = IF p.started = None THEN q ELSE Launched(Halted(q))
  BY DEF Tuned
<1> HIDE DEF q
<1>6. Keeps(p, q)
  BY <1>3, <1>4, PostgresKeeps
<1>7. Halted(q) \in Computer /\ Keeps(q, Halted(q))
  BY <1>4, HaltedKeeps
<1>8. Launched(Halted(q)) \in Computer /\ Keeps(Halted(q), Launched(Halted(q)))
  BY <1>7, LaunchedKeeps
<1>9. Keeps(p, Launched(Halted(q)))
  BY <1>6, <1>7, <1>8, KeepsTransitive, Zenon
<1> QED BY <1>4, <1>5, <1>6, <1>8, <1>9

LEMMA RelaunchedKeeps ==
  ASSUME NEW p \in Computer
  PROVE  Keeps(p, Launched(Halted(p))) /\ Launched(Halted(p)) \in Computer
<1>1. Halted(p) \in Computer /\ Keeps(p, Halted(p))
  BY HaltedKeeps
<1>2. Launched(Halted(p)) \in Computer /\ Keeps(Halted(p), Launched(Halted(p)))
  BY <1>1, LaunchedKeeps
<1> QED BY <1>1, <1>2, KeepsTransitive, Zenon

(* Only what belongs to SENTIENT's service changed.                        *)
LEMMA ServiceKeeps ==
  ASSUME NEW p \in Computer, NEW q \in Computer, q.pg = p.pg, q.ch = p.ch
  PROVE  Keeps(p, q)
BY KeepsDatabases, Zenon

----------------------------------------------------------------------------
(* The beginnings of jobs, and what others do.                             *)
LEMMA InitInv == Init => Inv
<1> SUFFICES ASSUME Init PROVE Inv
  OBVIOUS
<1>1. PICK c \in Plans : \E shape \in Makes(c.flavor) : pc \in {Fresh, OtherUse, Left(c, shape)}
  BY DEF Init
<1>2. PICK shape \in Makes(c.flavor) : pc \in {Fresh, OtherUse, Left(c, shape)}
  BY <1>1
<1>3. at = "idle" /\ job = NoJob /\ last = Nothing /\ setups = 0 /\ changes = 0 /\ faults = 0
      /\ held = (IF pc.pg = None \/ pc.pg.dbs[0] = None THEN {} ELSE {<<"database", 0>>}) \union
                (IF pc.ch = None THEN {} ELSE {<<"history", 0>>})
  BY DEF Init
<1>4. 0 \in Name /\ shape \in {"missing", "plain", "filled", "partitioned", "hypertable"} /\ c.pw \in Nat /\ c.chpw \in Nat
  BY LinuxSetupAssumption DEF Name, Makes
<1>5. NoDatabases \in [Name -> Databases(Name) \union {None}] /\ \A n \in Name : NoDatabases[n] = None
  BY DEF NoDatabases
<1>6. Finished(shape) \in Databases(Name) /\ Finished(shape).of = 0
  BY <1>4 DEF Finished, Databases
<1>7. Fresh \in Computer /\ Fresh.pg = None /\ Fresh.ch = None
  BY DEF Fresh, Computer
<1> DEFINE dbs == [NoDatabases EXCEPT ![0] = Finished(shape)]
           ch == IF c.flavor = "clickhouse" THEN [of |-> 0, user |-> c.chpw] ELSE None
<1>8. dbs \in [Name -> Databases(Name) \union {None}] /\ dbs[0] = Finished(shape) /\ \A n \in Name \ {0} : dbs[n] = None
  BY <1>4, <1>5, <1>6
<1>9. \A role \in Nat, d \in [Name -> Databases(Name) \union {None}] :
        Cluster(role, d) \in Postgres /\ Cluster(role, d).dbs = d /\ Cluster(role, d) # None
  <2> SUFFICES ASSUME NEW role \in Nat, NEW d \in [Name -> Databases(Name) \union {None}]
               PROVE  Cluster(role, d) \in Postgres /\ Cluster(role, d).dbs = d /\ Cluster(role, d) # None
    OBVIOUS
  <2>1. Cluster(role, d) \in Postgres /\ Cluster(role, d).dbs = d
    BY DEF Cluster, Postgres, DefaultPort
  <2> QED BY <2>1, NoneAssumption
<1>10. ch \in History \union {None} /\ (ch # None => ch.of = 0)
  BY <1>4 DEF History
<1> HIDE DEF dbs, ch
<1>11. OtherUse \in Computer /\ OtherUse.pg = Cluster(0, NoDatabases) /\ OtherUse.ch = None
  <2>1. Cluster(0, NoDatabases) \in Postgres
    BY <1>5, <1>9
  <2> QED BY <2>1, <1>7 DEF OtherUse, Computer
<1>12. Left(c, shape) \in Computer /\ Left(c, shape).pg = Cluster(c.pw, dbs) /\ Left(c, shape).ch = ch
  <2>1. Cluster(c.pw, dbs) \in Postgres
    BY <1>4, <1>8, <1>9
  <2>2. Left(c, shape) = [Fresh EXCEPT !.pg = Cluster(c.pw, dbs), !.ch = ch]
    BY DEF Left, dbs, ch
  <2> QED BY <2>1, <2>2, <1>10, <1>7 DEF Computer
<1>13. /\ pc \in Computer /\ (pc.ch # None => pc.ch.of = 0)
       /\ pc.pg = None \/ pc.pg = Cluster(0, NoDatabases) \/ pc.pg = Cluster(c.pw, dbs)
  BY <1>2, <1>7, <1>10, <1>11, <1>12
<1>14. ASSUME pc.pg # None
       PROVE  /\ \A n \in Name \ {0} : pc.pg.dbs[n] = None
              /\ pc.pg.dbs[0] # None => pc.pg.dbs[0].of = 0
  BY <1>13, <1>14, <1>9, <1>8, <1>5, <1>4, <1>6
<1>15. JobOK
  BY <1>3, LinuxSetupAssumption DEF JobOK, Nothing, NoJob
<1>16. NamesOK
  <2> SUFFICES ASSUME NEW k \in Name, k > setups \/ (IsEarly /\ k = setups)
               PROVE  Under(pc, k) = None
    BY DEF NamesOK
  <2>1. ~IsEarly
    BY <1>3 DEF IsEarly, NoJob
  <2>2. k # 0
    BY <2>1, <1>3 DEF Name
  <2> QED BY <2>2, <1>14 DEF Under
<1>17. HeldOK
  <2>1. ASSUME NEW h \in held
        PROVE  h \in {"database", "history"} \X Name /\ In(pc, h)
    <3>1. CASE pc.pg # None /\ pc.pg.dbs[0] # None /\ h = <<"database", 0>>
      <4>1. 0 \in DOMAIN pc.pg.dbs
        BY <3>1, <1>13, <1>4 DEF Computer, Postgres
      <4>2. Holds(pc.pg.dbs, 0)
        BY <3>1, <1>14, <4>1 DEF Holds
      <4>3. h[1] = "database" /\ h[2] = 0
        BY <3>1
      <4> QED BY <3>1, <4>2, <4>3, <1>4 DEF In, DatabaseIn
    <3>2. CASE pc.ch # None /\ h = <<"history", 0>>
      BY <3>2, <1>13, <1>4 DEF In, HistoryIn
    <3> QED BY <2>1, <3>1, <3>2, <1>3
  <2> QED BY <2>1, Zenon DEF HeldOK
<1> QED BY <1>13, <1>15, <1>16, <1>17 DEF Inv

(* Nothing of the computer changes, and a job begins.                      *)
LEMMA BeginsNames ==
  ASSUME Inv, at = "idle", NEW new \in Job, Begin(new), UNCHANGED <<pc, held, faults>>,
         \/ setups' = setups + 1 /\ setups < MaxSetups /\ changes' = changes
         \/ setups' = setups /\ new.kind # "install" /\ changes < MaxChanges /\ changes' = changes + 1
  PROVE  Inv'
<1>1. setups \in 0..MaxSetups /\ changes \in 0..MaxChanges /\ faults \in 0..MaxFaults
  BY DEF Inv, JobOK
<1>2. setups' \in 0..MaxSetups /\ changes' \in 0..MaxChanges /\ faults' \in 0..MaxFaults
      /\ (new.kind = "install" => setups' > 0)
  BY <1>1, LinuxSetupAssumption
<1>3. at' \in ToSet(Paths[new.kind]) /\ new.kind \in Kinds /\ job' = new /\ last' = Nothing
  BY StepAfterInPath DEF Begin, Job
<1>4. JobOK'
  <2>1. at' # "idle"
    BY <1>3, OwnSteps
  <2> QED BY <1>2, <1>3, <2>1 DEF JobOK, Nothing
<1>5. NamesOK'
  <2> SUFFICES ASSUME NEW k \in Name, (k > setups') \/ (IsEarly' /\ k = setups')
               PROVE  Under(pc, k) = None
    BY Zenon DEF NamesOK, Under
  <2>1. k > setups
    BY <1>1, <1>3 DEF IsEarly, Name
  <2> QED BY <2>1 DEF Inv, NamesOK
<1>6. HeldOK'
  BY Zenon DEF Inv, HeldOK, In, DatabaseIn, HistoryIn
<1> QED BY <1>4, <1>5, <1>6, Zenon DEF Inv

(* Something happens to the computer while no job runs.                    *)
LEMMA HappensKeeps ==
  ASSUME Inv, Change, NEW new, Keeps(pc, new), pc' = new, held' \subseteq held \union Serves(pc'),
         last' = Nothing, UNCHANGED <<at, job, setups, faults>>
  PROVE  Inv'
<1>1. JobOK'
  <2>1. changes' \in 0..MaxChanges
    BY LinuxSetupAssumption DEF Inv, JobOK, Change
  <2>2. last'.job \in Job \union {NoJob}
    BY DEF Nothing
  <2> QED BY <2>1, <2>2 DEF Inv, JobOK
<1>2. Preserves(pc, pc') /\ Keeps(pc, pc') /\ pc' \in Computer
  BY DEF Keeps, Preserves
<1>3. IsEarly' => IsEarly
  BY Zenon DEF IsEarly
<1> QED BY <1>1, <1>2, <1>3, HeldStays, NamesStay DEF Inv

LEMMA EnvFileIs ==
  ASSUME NEW j \in Job
  PROVE  EnvFile(j) \in Env /\ \A v \in Value : Recorded(EnvFile(j), v) \in Record
BY DEF EnvFile, Job, Env, Value, Recorded, Record

(* A job of the record is of a record there is.                            *)
LEMMA FromRecordIs ==
  ASSUME pc \in Computer, pc.record # None, NEW kind \in Kinds, NEW value \in Value
  PROVE  FromRecord(kind, value) \in Job /\ FromRecord(kind, value).kind = kind
<1>1. pc.record \in Record
  BY DEF Computer
<1>2. Secrets.pw \in Nat /\ Secrets.chpw \in Nat
  BY DEF Secrets, Computer, Env
<1> QED BY <1>1, <1>2 DEF FromRecord, Job, Record

LEMMA InstallInv ==
  ASSUME Inv, NEW c \in Plans, Install(c)
  PROVE  Inv'
<1>1. PlanOf(c) \in Job
  BY LinuxSetupAssumption, KindsAre DEF PlanOf, Job, DefaultValue, Value, Was, Flavors
<1>2. at = "idle" /\ StartInstall(PlanOf(c))
  BY DEF Install
<1> QED BY <1>1, <1>2, BeginsNames, Zenon DEF StartInstall

LEMMA RetryInv ==
  ASSUME Inv, Retry
  PROVE  Inv'
<1>1. last.job \in Job
  BY DEF Inv, JobOK, Retry, NoJob
<1>2. at = "idle" /\ StartInstall(last.job)
  BY DEF Retry
<1> QED BY <1>1, <1>2, BeginsNames, Zenon DEF StartInstall

LEMMA StartJobInv ==
  ASSUME Inv, pc.record # None, NEW kind \in Kinds \ {"install"}, NEW value \in Value,
         StartJob(FromRecord(kind, value))
  PROVE  Inv'
<1>1. FromRecord(kind, value) \in Job /\ FromRecord(kind, value).kind # "install"
  BY FromRecordIs DEF Inv
<1>2. /\ at = "idle" /\ Begin(FromRecord(kind, value)) /\ UNCHANGED <<pc, held, faults>>
      /\ setups' = setups /\ changes < MaxChanges /\ changes' = changes + 1
  BY Zenon DEF StartJob, Change
<1> QED BY <1>1, <1>2, BeginsNames

LEMMA ManageInv ==
  ASSUME Inv, NEW kind \in {"repair", "uninstall", "delete"}, Manage(kind)
  PROVE  Inv'
<1>1. pc.record # None /\ StartJob(FromRecord(kind, pc.record.value))
  BY DEF Manage
<1>2. pc.record.value \in Value /\ kind \in Kinds \ {"install"}
  BY <1>1, KindsAre DEF Inv, Computer, Record
<1> QED BY <1>1, <1>2, StartJobInv

LEMMA ApplySettingsInv ==
  ASSUME Inv, NEW v \in Values, ApplySettings(v)
  PROVE  Inv'
<1>1. pc.record # None /\ StartJob(FromRecord("settings", v))
  BY DEF ApplySettings
<1>2. v \in Value /\ "settings" \in Kinds \ {"install"}
  BY LinuxSetupAssumption, KindsAre DEF Value
<1> QED BY <1>1, <1>2, StartJobInv

LEMMA AdoptInv ==
  ASSUME Inv, Adopt
  PROVE  Inv'
<1> DEFINE new == [pc EXCEPT !.record = Found]
<1>1. pc \in Computer /\ pc.env # None /\ pc.env \in Env
  BY DEF Inv, Adopt, Candidate, Computer
<1>2. Shown \in Nat
  BY <1>1 DEF Shown, Sql, Computer, Postgres
<1>3. Found \in Record
  BY <1>1, <1>2 DEF Found, Recorded, Record, Env, Value
<1>4. new \in Computer /\ new.pg = pc.pg /\ new.ch = pc.ch
  BY <1>1, <1>3 DEF Computer
<1>5. Change /\ pc' = new /\ last' = Nothing /\ UNCHANGED <<at, job, held, setups, faults>>
  BY DEF Adopt
<1> HIDE DEF new
<1>6. Keeps(pc, new)
  BY <1>1, <1>4, ServiceKeeps
<1> QED BY <1>5, <1>6, HappensKeeps

LEMMA HappensInv ==
  ASSUME Inv, NEW new, Keeps(pc, new), Happens(new)
  PROVE  Inv'
<1>1. /\ Change /\ pc' = new /\ held' \subseteq held \union Serves(pc') /\ last' = Nothing
      /\ UNCHANGED <<at, job, setups, faults>>
  BY Zenon DEF Happens
<1> QED BY <1>1, HappensKeeps

LEMMA ControlInv ==
  ASSUME Inv, NEW run \in BOOLEAN, Control(run)
  PROVE  Inv'
<1>1. Keeps(pc, Launched(pc)) /\ Keeps(pc, Halted(pc))
  BY LaunchedKeeps, HaltedKeeps DEF Inv
<1> QED BY <1>1, HappensInv DEF Control

LEMMA RebootInv ==
  ASSUME Inv, Reboot
  PROVE  Inv'
<1> DEFINE q == [pc EXCEPT !.pg.up = pc.pg.value \notin UnfitPg]
<1>1. pc \in Computer /\ pc.pg # None /\ pc.pg \in Postgres
  BY DEF Inv, Reboot, Computer
<1>2. q.pg = [pc.pg EXCEPT !.up = pc.pg.value \notin UnfitPg]
  BY <1>1 DEF Computer
<1>3. q.pg \in Postgres /\ q.pg.dbs = pc.pg.dbs
  BY <1>1, <1>2 DEF Postgres
<1>4. q \in Computer /\ q.ch = pc.ch
  BY <1>1, <1>3 DEF Computer
<1>5. Happens(Launched(Halted(q)))
  BY DEF Reboot
<1> HIDE DEF q
<1>6. Keeps(pc, q)
  BY <1>1, <1>3, <1>4, PostgresKeeps
<1>7. Keeps(q, Launched(Halted(q)))
  BY <1>4, RelaunchedKeeps
<1> QED BY <1>5, <1>6, <1>7, KeepsTransitive, HappensInv

LEMMA LoseInv ==
  ASSUME Inv, NEW what \in {"env", "unit", "programs", "record"}, Lose(what)
  PROVE  Inv'
<1> DEFINE q == [pc EXCEPT ![what] = IF what \in {"env", "record"} THEN None ELSE FALSE]
<1>1. pc \in Computer
  BY DEF Inv
<1>2. q \in Computer /\ q.pg = pc.pg /\ q.ch = pc.ch
  <2>1. CASE what = "env"
    BY <1>1, <2>1 DEF Computer
  <2>2. CASE what = "record"
    BY <1>1, <2>2 DEF Computer
  <2>3. CASE what = "unit"
    BY <1>1, <2>3 DEF Computer
  <2>4. CASE what = "programs"
    BY <1>1, <2>4 DEF Computer
  <2> QED BY <2>1, <2>2, <2>3, <2>4
<1>3. Happens(q)
  BY DEF Lose
<1> HIDE DEF q
<1>4. Keeps(pc, q)
  BY <1>1, <1>2, ServiceKeeps
<1> QED BY <1>3, <1>4, HappensInv

----------------------------------------------------------------------------
(* The steps of setup and deploy.                                          *)
LEMMA StepFacts ==
  ASSUME Inv, at # "idle"
  PROVE  /\ pc \in Computer /\ job \in Job /\ job.kind \in Kinds /\ at \in ToSet(Paths[job.kind])
         /\ pc.pg # None => pc.pg \in Postgres
         /\ pc.ch # None => pc.ch \in History
         /\ 0 \in Name /\ setups \in Name
BY JobKind, LinuxSetupAssumption DEF Inv, Computer, Name, JobOK

LEMMA InstallPackagesInv ==
  ASSUME Inv, InstallPackages, Bounds
  PROVE  Inv'
<1>1. at = "packages" /\ pc \in Computer
  BY DEF InstallPackages, Inv
<1>2. CASE pc.pg = None
  <2> DEFINE q == [pc EXCEPT !.pg = Cluster(0, NoDatabases)]
  <2>1. Cluster(0, NoDatabases) \in Postgres /\ Cluster(0, NoDatabases).dbs = NoDatabases
    BY DEF Cluster, Postgres, DefaultPort, NoDatabases
  <2>2. q \in Computer /\ q.pg = Cluster(0, NoDatabases) /\ q.ch = pc.ch
    BY <1>1, <2>1 DEF Computer
  <2>3. Does(q)
    BY <1>2 DEF InstallPackages
  <2> HIDE DEF q
  <2>4. Keeps(pc, q)
    BY <1>1, <1>2, <2>1, <2>2, KeepsDatabases
  <2> QED BY <1>1, <2>3, <2>4, DoesKeeps
<1>3. CASE pc.pg # None
  <2> DEFINE q == [pc EXCEPT !.pg.up = @ \/ pc.pg.value \notin UnfitPg]
  <2>1. pc.pg \in Postgres
    BY <1>1, <1>3 DEF Computer
  <2>2. q.pg = [pc.pg EXCEPT !.up = @ \/ pc.pg.value \notin UnfitPg]
    BY <1>1 DEF Computer
  <2>3. q.pg \in Postgres /\ q.pg.dbs = pc.pg.dbs
    BY <2>1, <2>2 DEF Postgres
  <2>4. q \in Computer /\ q.ch = pc.ch
    BY <1>1, <2>3 DEF Computer
  <2>5. Does(q)
    BY <1>3 DEF InstallPackages
  <2> HIDE DEF q
  <2>6. Keeps(pc, q)
    BY <1>1, <1>3, <2>3, <2>4, PostgresKeeps
  <2> QED BY <1>1, <2>5, <2>6, DoesKeeps
<1> QED BY <1>2, <1>3

LEMMA SetPortInv ==
  ASSUME Inv, SetPort, Bounds
  PROVE  Inv'
<1> DEFINE q == [pc EXCEPT !.pg.port = job.port]
<1>1. at = "port" /\ at # "idle" /\ DoesIf(Sql(pc, DefaultPort), Tuned(q, job.value.pg))
  BY DEF SetPort
<1>2. pc \in Computer /\ job \in Job /\ job.port \in Nat /\ job.value.pg \in Nat
  BY <1>1, StepFacts DEF Job, Value
<1>3. ASSUME Sql(pc, DefaultPort)
      PROVE  Keeps(pc, Tuned(q, job.value.pg))
  <2>1. pc.pg # None /\ pc.pg \in Postgres
    BY <1>2, <1>3 DEF Sql, Computer
  <2>2. q.pg = [pc.pg EXCEPT !.port = job.port]
    BY <1>2 DEF Computer
  <2>3. q.pg \in Postgres /\ q.pg.dbs = pc.pg.dbs
    BY <2>1, <2>2, <1>2 DEF Postgres
  <2>4. q \in Computer /\ q.ch = pc.ch
    BY <1>2, <2>3 DEF Computer
  <2> HIDE DEF q
  <2>5. Keeps(pc, q) /\ q.pg # None
    BY <1>2, <2>1, <2>3, <2>4, PostgresKeeps
  <2> QED BY <2>4, <2>5, <1>2, TunedKeeps, KeepsTransitive
<1> HIDE DEF q
<1> QED BY <1>1, <1>3, DoesIfKeeps

LEMMA InstallClickhouseInv ==
  ASSUME Inv, InstallClickhouse, Bounds
  PROVE  Inv'
<1>1. at = "clickhouse" /\ at # "idle" /\ pc \in Computer
  BY DEF InstallClickhouse, Inv
<1>2. CASE pc.ch = None
  <2> DEFINE q == [pc EXCEPT !.ch = [of |-> None, user |-> 0]]
  <2>1. q \in Computer /\ q.pg = pc.pg
    BY <1>1 DEF Computer, History
  <2>2. Does(q)
    BY <1>2 DEF InstallClickhouse
  <2> HIDE DEF q
  <2>3. Keeps(pc, q)
    BY <1>1, <1>2, <2>1, KeepsDatabases
  <2> QED BY <1>1, <2>2, <2>3, DoesKeeps
<1>3. CASE pc.ch # None
  <2>1. Does(pc)
    BY <1>3 DEF InstallClickhouse
  <2> QED BY <1>1, <2>1, SameKeeps, DoesKeeps
<1> QED BY <1>2, <1>3

LEMMA SyncRoleInv ==
  ASSUME Inv, SyncRole, Bounds
  PROVE  Inv'
<1> DEFINE q == [pc EXCEPT !.pg.role = IF @ = 0 THEN 0 ELSE job.pw]
<1>1. at = "role" /\ at # "idle" /\ DoesIf(Sql(pc, job.port), q)
  BY DEF SyncRole
<1>2. pc \in Computer /\ job.pw \in Nat
  BY <1>1, StepFacts DEF Job
<1>3. ASSUME Sql(pc, job.port)
      PROVE  Keeps(pc, q)
  <2>1. pc.pg # None /\ pc.pg \in Postgres
    BY <1>2, <1>3 DEF Sql, Computer
  <2>2. q.pg = [pc.pg EXCEPT !.role = IF @ = 0 THEN 0 ELSE job.pw]
    BY <1>2 DEF Computer
  <2>3. q.pg \in Postgres /\ q.pg.dbs = pc.pg.dbs
    BY <2>1, <2>2, <1>2 DEF Postgres
  <2>4. q \in Computer /\ q.ch = pc.ch
    BY <1>2, <2>3 DEF Computer
  <2> HIDE DEF q
  <2> QED BY <1>2, <2>1, <2>3, <2>4, PostgresKeeps
<1> HIDE DEF q
<1> QED BY <1>1, <1>3, DoesIfKeeps

(* prepare_existing: the database stays, as it is or converted, or is set  *)
(* aside under a name nothing is under.                                    *)
LEMMA PreparedIs ==
  ASSUME NEW dbs \in [Name -> Databases(Name) \union {None}], NEW existing, NEW flavor,
         NEW n \in Name \ {0}, dbs[n] = None
  PROVE  /\ Prepared(dbs, existing, flavor, n) \in [Name -> Databases(Name) \union {None}]
         /\ \A i \in Name : Holds(dbs, i) => Holds(Prepared(dbs, existing, flavor, n), i)
         /\ \A k \in Name \ {0, n} : Prepared(dbs, existing, flavor, n)[k] = dbs[k]
<1> DEFINE new == Prepared(dbs, existing, flavor, n)
<1>1. 0 \in Name
  BY LinuxSetupAssumption DEF Name
<1>2. CASE new = dbs
  BY <1>2
<1>3. CASE dbs[0] # None /\ new = SetAside(dbs, n)
  <2>1. new \in [Name -> Databases(Name) \union {None}]
    BY <1>3, <1>1 DEF SetAside
  <2>2. new[n] = dbs[0] /\ \A k \in Name \ {0, n} : new[k] = dbs[k]
    BY <1>3, <1>1 DEF SetAside
  <2> HIDE DEF new
  <2>3. ASSUME NEW i \in Name, Holds(dbs, i)
        PROVE  Holds(new, i)
    <3>1. PICK k \in Name : dbs[k] # None /\ dbs[k].of = i
      BY <2>3 DEF Holds
    <3>2. CASE k = 0
      <4>1. new[n] # None /\ new[n].of = i /\ n \in DOMAIN new
        BY <3>1, <3>2, <2>1, <2>2
      <4> QED BY <4>1 DEF Holds
    <3>3. CASE k # 0
      <4>1. k # n
        BY <3>1
      <4>2. new[k] # None /\ new[k].of = i /\ k \in DOMAIN new
        BY <3>1, <3>3, <4>1, <2>1, <2>2
      <4> QED BY <4>2 DEF Holds
    <3> QED BY <3>2, <3>3
  <2> QED BY <2>1, <2>2, <2>3 DEF new
<1>4. CASE dbs[0] # None /\ new = Converted(dbs)
  <2>1. dbs[0] \in Databases(Name)
    BY <1>4, <1>1
  <2>2. new[0] = [dbs[0] EXCEPT !.shape = "hypertable"]
    BY <1>4, <1>1 DEF Converted
  <2>3. new[0] \in Databases(Name) /\ new[0].of = dbs[0].of
    BY <2>1, <2>2 DEF Databases
  <2>4. DOMAIN new = Name /\ \A k \in Name \ {0} : new[k] = dbs[k]
    BY <1>4 DEF Converted
  <2>5. new \in [Name -> Databases(Name) \union {None}]
    BY <1>4, <2>3, <1>1 DEF Converted
  <2> HIDE DEF new
  <2>6. ASSUME NEW i \in Name, Holds(dbs, i)
        PROVE  Holds(new, i)
    <3>1. PICK k \in Name : dbs[k] # None /\ dbs[k].of = i
      BY <2>6 DEF Holds
    <3>2. new[k] # None /\ new[k].of = i
      BY <3>1, <2>3, <2>4, NoneAssumption
    <3> QED BY <3>2, <2>4 DEF Holds
  <2> QED BY <2>4, <2>5, <2>6 DEF new
<1>5. new = dbs \/ (dbs[0] # None /\ (new = SetAside(dbs, n) \/ new = Converted(dbs)))
  BY Zenon DEF Prepared
<1> QED BY <1>2, <1>3, <1>4, <1>5

LEMMA PrepareExistingInv ==
  ASSUME Inv, PrepareExisting, Bounds
  PROVE  Inv'
<1> DEFINE dbs == Prepared(pc.pg.dbs, job.existing, job.flavor, setups)
           q == [pc EXCEPT !.pg.dbs = dbs]
<1>1. at = "kept" /\ at # "idle"
  BY DEF PrepareExisting
<1>2. pc \in Computer /\ job.kind = "install" /\ setups \in Name \ {0}
  BY <1>1, StepFacts, OwnSteps DEF Inv, JobOK
<1>3. faults' \in 0..MaxFaults /\ UNCHANGED <<setups, changes>>
  BY DEF Inv, JobOK, Bounds
<1>4. ASSUME NEW how, Fails(how, pc)
      PROVE  Inv'
  BY <1>1, <1>2, <1>3, <1>4, SameKeeps, FailsKeeps
<1>5. ASSUME Sql(pc, job.port), Does(q)
      PROVE  Inv'
  <2>1. pc.pg # None /\ pc.pg \in Postgres
    BY <1>2, <1>5 DEF Sql, Computer
  <2>2. IsEarly
    BY <1>1, <1>2 DEF IsEarly, Early
  <2>3. pc.pg.dbs[setups] = None /\ pc.pg.dbs \in [Name -> Databases(Name) \union {None}]
    BY <2>1, <2>2, <1>2 DEF Inv, NamesOK, Under, Postgres
  <2>4. /\ dbs \in [Name -> Databases(Name) \union {None}]
        /\ \A i \in Name : Holds(pc.pg.dbs, i) => Holds(dbs, i)
        /\ \A k \in Name \ {0, setups} : dbs[k] = pc.pg.dbs[k]
    BY <2>3, <1>2, PreparedIs
  <2> HIDE DEF dbs
  <2>5. q.pg = [pc.pg EXCEPT !.dbs = dbs]
    BY <1>2 DEF Computer
  <2>6. q.pg \in Postgres /\ q.pg.dbs = dbs
    BY <2>1, <2>4, <2>5 DEF Postgres
  <2>7. q \in Computer /\ q.ch = pc.ch
    BY <1>2, <2>6 DEF Computer
  <2>8. pc' = q /\ held' = held \union Serves(pc')
    BY <1>5, Zenon DEF Does
  <2> HIDE DEF q
  <2>9. Preserves(pc, pc')
    BY <2>1, <2>4, <2>6, <2>7, <2>8, NoneAssumption DEF Preserves, DatabaseIn, HistoryIn
  <2>10. HeldOK'
    BY <2>8, <2>9, HeldStays DEF Inv
  <2>11. JobOK' /\ ~IsEarly'
    BY <1>1, <1>5, DoesJob DEF Inv
  <2>12. NamesOK'
    <3> SUFFICES ASSUME NEW k \in Name, k > setups
                 PROVE  Under(pc', k) = None
      BY <2>11, <1>3, Zenon DEF NamesOK, Under
    <3>1. k \in Name \ {0, setups}
      BY <1>2 DEF Name
    <3>2. pc.pg.dbs[k] = None
      BY <2>1 DEF Inv, NamesOK, Under
    <3> QED BY <3>1, <3>2, <2>4, <2>6, <2>8 DEF Under
  <2> QED BY <2>7, <2>8, <2>10, <2>11, <2>12, Zenon DEF Inv
<1>6. Fails("refused", pc) \/ DoesIf(Sql(pc, job.port), q)
  BY Zenon DEF PrepareExisting
<1>7. DoesIf(Sql(pc, job.port), q) => (Sql(pc, job.port) /\ Does(q)) \/ Fails("stuck", pc)
  BY Zenon DEF DoesIf
<1> QED BY <1>4, <1>5, <1>6, <1>7

(* SENTIENT's database is made when there is none, and changed in place.   *)
LEMMA ServedDatabaseIs ==
  ASSUME NEW db \in Databases(Name), NEW shape \in {"plain", "partitioned"}
  PROVE  /\ WithSchema(db, shape) \in Databases(Name) /\ WithSchema(db, shape).of = db.of
         /\ WithAdministrator(db) \in Databases(Name) /\ WithAdministrator(db).of = db.of
         /\ [db EXCEPT !.shape = shape] \in Databases(Name) /\ [db EXCEPT !.shape = shape].of = db.of
BY DEF WithSchema, WithAdministrator, Databases

LEMMA CreateInv ==
  ASSUME Inv, Create, Bounds
  PROVE  Inv'
<1> DEFINE db == IF pc.pg.dbs[0] = None THEN Created(setups) ELSE pc.pg.dbs[0]
           q == [pc EXCEPT !.pg.role = IF @ = 0 THEN job.pw ELSE @,
                           !.pg.dbs[0] = IF @ = None THEN Created(setups) ELSE @]
<1>1. at = "create" /\ at # "idle" /\ (Does(pc) \/ (Sql(pc, job.port) /\ Does(q)))
  BY Zenon DEF Create
<1>2. pc \in Computer /\ job.pw \in Nat /\ setups \in Name /\ 0 \in Name
  BY <1>1, StepFacts DEF Job
<1>3. ASSUME Sql(pc, job.port)
      PROVE  Keeps(pc, q)
  <2>1. pc.pg # None /\ pc.pg \in Postgres
    BY <1>2, <1>3 DEF Sql, Computer
  <2>2. db \in Databases(Name) /\ (pc.pg.dbs[0] # None => db.of = pc.pg.dbs[0].of)
    BY <2>1, <1>2 DEF Postgres, Created, Databases
  <2>3. q.pg = [pc.pg EXCEPT !.role = IF @ = 0 THEN job.pw ELSE @,
                             !.dbs[0] = IF @ = None THEN Created(setups) ELSE @]
    BY <1>2 DEF Computer
  <2>4. q.pg.dbs = [pc.pg.dbs EXCEPT ![0] = db]
    BY <2>1, <2>3 DEF Postgres
  <2> HIDE DEF db
  <2>5. q.pg \in Postgres
    <3>1. q.pg = [pc.pg EXCEPT !.role = IF @ = 0 THEN job.pw ELSE @, !.dbs = q.pg.dbs]
      BY <2>1, <2>3 DEF Postgres
    <3>2. q.pg.dbs \in [Name -> Databases(Name) \union {None}]
      BY <2>1, <2>2, <2>4, <1>2 DEF Postgres
    <3> HIDE DEF q
    <3> QED BY <2>1, <3>1, <3>2, <1>2 DEF Postgres
  <2>6. q \in Computer /\ q.ch = pc.ch
    BY <1>2, <2>5 DEF Computer
  <2> HIDE DEF q
  <2>7. q.pg # None /\ db # None
    BY <2>2, <2>5, NoneAssumption
  <2> QED BY <1>2, <2>1, <2>2, <2>4, <2>6, <2>7, KeepsInService
<1> HIDE DEF q
<1> QED BY <1>1, <1>2, <1>3, SameKeeps, DoesKeeps

LEMMA ProvisionClickhouseInv ==
  ASSUME Inv, ProvisionClickhouse, Bounds
  PROVE  Inv'
<1> DEFINE q == [pc EXCEPT !.ch.user = IF @ = 0 THEN job.chpw ELSE @]
<1>1. at = "chuser" /\ at # "idle" /\ DoesIf(pc.ch # None, q)
  BY DEF ProvisionClickhouse
<1>2. pc \in Computer /\ job.chpw \in Nat
  BY <1>1, StepFacts DEF Job
<1>3. ASSUME pc.ch # None
      PROVE  Keeps(pc, q)
  <2>1. pc.ch \in History
    BY <1>2, <1>3 DEF Computer
  <2>2. q.ch = [pc.ch EXCEPT !.user = IF @ = 0 THEN job.chpw ELSE @]
    BY <1>2 DEF Computer
  <2>3. q.ch \in History /\ q.ch.of = pc.ch.of
    BY <2>1, <2>2, <1>2 DEF History
  <2>4. q \in Computer /\ q.pg = pc.pg
    BY <1>2, <2>3 DEF Computer
  <2> HIDE DEF q
  <2>5. q.ch # None
    BY <2>3, NoneAssumption
  <2> QED BY <1>2, <2>3, <2>4, <2>5, KeepsDatabases
<1> HIDE DEF q
<1> QED BY <1>1, <1>3, DoesIfKeeps

(* sentient-install makes the tables, and ClickHouse's when it has none.   *)
LEMMA InstallSchemaInv ==
  ASSUME Inv, InstallSchema, Bounds
  PROVE  Inv'
<1> DEFINE ch == IF job.flavor = "clickhouse" /\ pc.ch # None /\ pc.ch.of = None /\ pc.ch.user = job.chpw
                 THEN [pc.ch EXCEPT !.of = pc.pg.dbs[0].of] ELSE pc.ch
           db == WithSchema(pc.pg.dbs[0], "plain")
           q == [pc EXCEPT
            !.pg.dbs[0] = WithSchema(@, "plain"),
            !.ch = IF job.flavor = "clickhouse" /\ @ # None /\ @.of = None /\ @.user = job.chpw
                   THEN [@ EXCEPT !.of = pc.pg.dbs[0].of] ELSE @]
<1>1. at = "schema" /\ at # "idle" /\ (Does(pc) \/ (Sql(pc, job.port) /\ Database # None /\ Does(q)))
  BY Zenon DEF InstallSchema
<1>2. pc \in Computer /\ 0 \in Name
  BY <1>1, StepFacts
<1>3. ASSUME Sql(pc, job.port), Database # None
      PROVE  Keeps(pc, q)
  <2>1. pc.pg # None /\ pc.pg \in Postgres /\ pc.pg.dbs[0] \in Databases(Name)
    BY <1>2, <1>3 DEF Sql, Computer, Database, Postgres
  <2>2. db \in Databases(Name) /\ db.of = pc.pg.dbs[0].of /\ pc.pg.dbs[0].of \in Name
    BY <2>1, ServedDatabaseIs DEF Databases
  <2>3. q.pg = [pc.pg EXCEPT !.dbs[0] = WithSchema(@, "plain")]
    BY <1>2 DEF Computer
  <2>4. q.pg.dbs = [pc.pg.dbs EXCEPT ![0] = db]
    BY <2>1, <2>3 DEF Postgres
  <2> HIDE DEF db
  <2>5. q.pg \in Postgres
    BY <2>1, <2>2, <2>3, <2>4, <1>2 DEF Postgres
  <2>6. q.ch = ch
    BY <1>2 DEF Computer
  <2>7. /\ ch \in History \union {None}
        /\ pc.ch # None => ch \in History /\ (pc.ch.of # None => ch.of = pc.ch.of)
    BY <2>2, <1>2 DEF Computer, History
  <2> HIDE DEF ch
  <2>8. q \in Computer
    <3>1. q = [pc EXCEPT !.pg = q.pg, !.ch = q.ch]
      BY <1>2 DEF Computer
    <3> HIDE DEF q
    <3> QED BY <3>1, <1>2, <2>5, <2>6, <2>7 DEF Computer
  <2> HIDE DEF q
  <2>9. q.pg # None /\ db # None /\ (ch \in History => ch # None)
    BY <2>2, <2>5, NoneAssumption
  <2> QED BY <1>2, <2>1, <2>2, <2>4, <2>6, <2>7, <2>8, <2>9, KeepsInService
<1> HIDE DEF q
<1> QED BY <1>1, <1>2, <1>3, SameKeeps, DoesKeeps

(* The database in service changed in place.                               *)
LEMMA WithDatabaseKeeps ==
  ASSUME NEW p \in Computer, p.pg # None, NEW d \in Databases(Name), p.pg.dbs[0] # None,
         d.of = p.pg.dbs[0].of
  PROVE  Keeps(p, [p EXCEPT !.pg.dbs[0] = d])
<1> DEFINE q == [p EXCEPT !.pg.dbs[0] = d]
<1>1. p.pg \in Postgres /\ 0 \in Name
  BY LinuxSetupAssumption DEF Computer, Name
<1>2. q.pg = [p.pg EXCEPT !.dbs[0] = d]
  BY DEF Computer
<1>3. q.pg.dbs = [p.pg.dbs EXCEPT ![0] = d] /\ q.pg \in Postgres
  BY <1>1, <1>2 DEF Postgres
<1>4. q \in Computer /\ q.ch = p.ch
  BY <1>3 DEF Computer
<1> HIDE DEF q
<1>5. q.pg # None /\ d # None
  BY <1>3, NoneAssumption
<1>6. Keeps(p, q)
  BY <1>3, <1>4, <1>5, KeepsInService
<1> QED BY <1>6 DEF q

LEMMA PartitionInv ==
  ASSUME Inv, Partition, Bounds
  PROVE  Inv'
<1> DEFINE new == IF Database.shape = "plain" THEN [pc EXCEPT !.pg.dbs[0].shape = "partitioned"] ELSE pc
           d == [pc.pg.dbs[0] EXCEPT !.shape = "partitioned"]
<1>1. at = "partition" /\ at # "idle" /\ DoesIf(Sql(pc, job.port) /\ Database # None, new)
  BY DEF Partition
<1>2. pc \in Computer /\ 0 \in Name
  BY <1>1, StepFacts
<1>3. ASSUME Sql(pc, job.port), Database # None
      PROVE  Keeps(pc, new)
  <2>1. pc.pg # None /\ pc.pg.dbs[0] \in Databases(Name) /\ pc.pg.dbs[0] # None
    BY <1>2, <1>3 DEF Sql, Computer, Database, Postgres
  <2>2. d \in Databases(Name) /\ d.of = pc.pg.dbs[0].of
    BY <2>1, ServedDatabaseIs
  <2>3. Keeps(pc, [pc EXCEPT !.pg.dbs[0] = d]) /\ Keeps(pc, pc)
    BY <1>2, <2>1, <2>2, WithDatabaseKeeps, SameKeeps
  <2>4. new = pc \/ new = [pc EXCEPT !.pg.dbs[0] = d]
    BY <1>2 DEF Computer, Postgres
  <2> QED BY <2>3, <2>4
<1> HIDE DEF new
<1> QED BY <1>1, <1>3, DoesIfKeeps

LEMMA SetAdminInv ==
  ASSUME Inv, SetAdmin, Bounds
  PROVE  Inv'
<1> DEFINE new == [pc EXCEPT !.pg.dbs[0] = WithAdministrator(@)]
           d == WithAdministrator(pc.pg.dbs[0])
<1>1. at = "admin" /\ at # "idle" /\ DoesIf(Sql(pc, job.port) /\ Database # None, new)
  BY DEF SetAdmin
<1>2. pc \in Computer /\ 0 \in Name
  BY <1>1, StepFacts
<1>3. ASSUME Sql(pc, job.port), Database # None
      PROVE  Keeps(pc, new)
  <2>1. pc.pg # None /\ pc.pg.dbs[0] \in Databases(Name) /\ pc.pg.dbs[0] # None
    BY <1>2, <1>3 DEF Sql, Computer, Database, Postgres
  <2>2. d \in Databases(Name) /\ d.of = pc.pg.dbs[0].of
    BY <2>1, ServedDatabaseIs
  <2>3. new = [pc EXCEPT !.pg.dbs[0] = d]
    BY <1>2 DEF Computer, Postgres
  <2> QED BY <1>2, <2>1, <2>2, <2>3, WithDatabaseKeeps
<1> HIDE DEF new
<1> QED BY <1>1, <1>3, DoesIfKeeps

(* The steps that change the service, its files or the record alone.       *)
LEMMA ServiceStepsInv ==
  ASSUME Inv, Bounds, InstallPrograms \/ WriteEnv \/ Serve \/ SaveRecord \/ StopSentient \/ Launch \/ Answer
                        \/ RemovePlatform \/ RemoveRecord
  PROVE  Inv'
<1> DEFINE with == [pc EXCEPT !.programs = TRUE]
           told == [pc EXCEPT !.env = EnvFile(job)]
           known == [pc EXCEPT !.record = Recorded(EnvFile(job), job.value)]
           gone == [pc EXCEPT !.unit = FALSE, !.programs = FALSE, !.env = None, !.started = None]
           unknown == [pc EXCEPT !.record = None]
<1>1. at # "idle"
  BY DEF InstallPrograms, WriteEnv, Serve, SaveRecord, StopSentient, Launch, Answer, RemovePlatform, RemoveRecord
<1>2. pc \in Computer /\ job \in Job
  BY <1>1, StepFacts
<1>3. EnvFile(job) \in Env /\ Recorded(EnvFile(job), job.value) \in Record
  BY <1>2, EnvFileIs DEF Job
<1>4. /\ with \in Computer /\ with.pg = pc.pg /\ with.ch = pc.ch
      /\ told \in Computer /\ told.pg = pc.pg /\ told.ch = pc.ch
      /\ known \in Computer /\ known.pg = pc.pg /\ known.ch = pc.ch
  BY <1>2, <1>3 DEF Computer
<1>5. /\ gone \in Computer /\ gone.pg = pc.pg /\ gone.ch = pc.ch
      /\ unknown \in Computer /\ unknown.pg = pc.pg /\ unknown.ch = pc.ch
  BY <1>2 DEF Computer
<1>6. \/ \E how : Fails(how, pc)
      \/ Does(with) \/ Does(told) \/ Does(known) \/ Does(gone) \/ Does(unknown)
      \/ Does(pc) \/ Does(Halted(pc)) \/ Does(Launched(pc))
  BY Zenon DEF InstallPrograms, WriteEnv, Serve, SaveRecord, StopSentient, Launch, Answer, RemovePlatform,
    RemoveRecord, DoesIf
<1> HIDE DEF with, told, known, gone, unknown
<1>7. Keeps(pc, with) /\ Keeps(pc, told) /\ Keeps(pc, known) /\ Keeps(pc, gone) /\ Keeps(pc, unknown)
  BY <1>2, <1>4, <1>5, ServiceKeeps
<1>8. Keeps(pc, pc) /\ Keeps(pc, Halted(pc)) /\ Keeps(pc, Launched(pc))
  BY <1>2, SameKeeps, HaltedKeeps, LaunchedKeeps
<1>9. ASSUME NEW how, Fails(how, pc)
      PROVE  Inv'
  <2>1. faults' \in 0..MaxFaults /\ UNCHANGED <<setups, changes>>
    BY DEF Inv, JobOK, Bounds
  <2> QED BY <1>1, <1>8, <1>9, <2>1, FailsKeeps
<1>10. CASE Does(with) \/ Does(told) \/ Does(known) \/ Does(gone) \/ Does(unknown)
  BY <1>1, <1>7, <1>10, DoesKeeps
<1>11. CASE Does(pc) \/ Does(Halted(pc)) \/ Does(Launched(pc))
  BY <1>1, <1>8, <1>11, DoesKeeps
<1> QED BY <1>6, <1>9, <1>10, <1>11

LEMMA RegisterUnitInv ==
  ASSUME Inv, RegisterUnit, Bounds
  PROVE  Inv'
<1> DEFINE q == [pc EXCEPT !.unit = TRUE]
<1>1. at = "unit" /\ at # "idle" /\ (Does(Launched(Halted(q))) \/ Fails("stuck", Launched(Halted(q))))
  BY DEF RegisterUnit
<1>2. pc \in Computer
  BY DEF Inv
<1>3. q \in Computer /\ q.pg = pc.pg /\ q.ch = pc.ch
  BY <1>2 DEF Computer
<1> HIDE DEF q
<1>4. Keeps(pc, q) /\ Keeps(q, Launched(Halted(q)))
  BY <1>2, <1>3, ServiceKeeps, RelaunchedKeeps
<1>5. Keeps(pc, Launched(Halted(q)))
  BY <1>4, KeepsTransitive
<1>6. faults' \in 0..MaxFaults /\ UNCHANGED <<setups, changes>>
  BY DEF Inv, JobOK, Bounds
<1> QED BY <1>1, <1>5, <1>6, DoesKeeps, FailsKeeps

LEMMA AlterInv ==
  ASSUME Inv, Alter, Bounds
  PROVE  Inv'
<1> DEFINE new == Tuned(pc, job.value.pg)
<1>1. at = "alter" /\ at # "idle"
  BY DEF Alter
<1>2. pc \in Computer /\ job.value.pg \in Nat
  BY <1>1, StepFacts DEF Job, Value
<1>3. \/ Fails("failed", pc)
      \/ Sql(pc, job.port) /\ (Does(new) \/ Fails("failed", new))
  BY DEF Alter
<1> HIDE DEF new
<1>4. ASSUME Sql(pc, job.port)
      PROVE  Keeps(pc, new)
  BY <1>2, <1>4, TunedKeeps DEF Sql, new
<1>5. faults' \in 0..MaxFaults /\ UNCHANGED <<setups, changes>>
  BY DEF Inv, JobOK, Bounds
<1>6. Keeps(pc, pc)
  BY <1>2, SameKeeps
<1> QED BY <1>1, <1>3, <1>4, <1>5, <1>6, DoesKeeps, FailsKeeps

(* reissue_secrets: other passwords for the same data.                     *)
LEMMA ReissueInv ==
  ASSUME Inv, Reissue, Bounds
  PROVE  Inv'
<1> DEFINE ch == IF job.flavor = "clickhouse" THEN [pc.ch EXCEPT !.user = Generated] ELSE pc.ch
           q == [pc EXCEPT !.pg.role = Generated,
                           !.ch = IF job.flavor = "clickhouse" THEN [@ EXCEPT !.user = Generated] ELSE @]
           j == [job EXCEPT !.pw = Generated, !.chpw = Generated]
<1>1. at = "reissue" /\ at # "idle"
  BY DEF Reissue
<1>2. pc \in Computer /\ job \in Job /\ job.kind = "repair" /\ Generated \in Nat
  BY <1>1, StepFacts, OwnSteps DEF Generated, Inv, JobOK
<1>3. faults' \in 0..MaxFaults /\ UNCHANGED <<setups, changes>>
  BY DEF Inv, JobOK, Bounds
<1>4. CASE Fails("refused", pc)
  BY <1>1, <1>2, <1>3, <1>4, SameKeeps, FailsKeeps
<1>5. CASE /\ Sql(pc, job.port) /\ (job.flavor = "clickhouse" => pc.ch # None)
           /\ pc' = q /\ job' = j /\ at' = "programs" /\ UNCHANGED <<last, held>>
  <2>1. pc.pg # None /\ pc.pg \in Postgres
    BY <1>2, <1>5 DEF Sql, Computer
  <2>2. q.pg = [pc.pg EXCEPT !.role = Generated] /\ q.ch = ch
    BY <1>2 DEF Computer
  <2>3. q.pg \in Postgres /\ q.pg.dbs = pc.pg.dbs
    BY <2>1, <2>2, <1>2 DEF Postgres
  <2>4. ch \in History \union {None} /\ (pc.ch # None => ch \in History /\ ch.of = pc.ch.of)
    BY <1>2, <1>5 DEF Computer, History
  <2> HIDE DEF ch
  <2>5. q \in Computer
    <3>1. q = [pc EXCEPT !.pg = q.pg, !.ch = q.ch]
      BY <1>2 DEF Computer
    <3> HIDE DEF q
    <3> QED BY <3>1, <1>2, <2>2, <2>3, <2>4 DEF Computer
  <2> HIDE DEF q
  <2>6. q.pg # None /\ (ch \in History => ch # None)
    BY <2>3, NoneAssumption
  <2>7. Keeps(pc, q)
    BY <1>2, <2>1, <2>2, <2>3, <2>4, <2>5, <2>6, KeepsDatabases
  <2>8. j \in Job /\ j.kind = "repair"
    BY <1>2 DEF Job
  <2> HIDE DEF j
  <2>9. JobOK' /\ ~IsEarly'
    BY <1>2, <1>3, <1>5, <2>8, OwnSteps DEF Inv, JobOK, IsEarly
  <2>10. Preserves(pc, pc') /\ Keeps(pc, pc') /\ pc' \in Computer /\ held' \subseteq held \union Serves(pc')
    BY <1>5, <2>5, <2>7 DEF Keeps
  <2> QED BY <1>3, <2>9, <2>10, HeldStays, NamesStay DEF Inv
<1>6. \/ Fails("refused", pc)
      \/ /\ Sql(pc, job.port) /\ (job.flavor = "clickhouse" => pc.ch # None)
         /\ pc' = q /\ job' = j /\ at' = "programs" /\ UNCHANGED <<last, held>>
  BY Zenon DEF Reissue
<1> QED BY <1>4, <1>5, <1>6

LEMMA PutBackInv ==
  ASSUME Inv, PutBack, Bounds
  PROVE  Inv'
<1> DEFINE old == [Halted(pc) EXCEPT !.env = OldEnv]
<1>1. at = "back" /\ at # "idle"
  BY DEF PutBack
<1>2. pc \in Computer /\ job \in Job /\ job.was.value.pg \in Nat
  BY <1>1, StepFacts DEF Job, Value
<1>3. OldEnv \in Env
  <2>1. [job EXCEPT !.value = job.was.value] \in Job
    BY <1>2 DEF Job
  <2> QED BY <2>1, EnvFileIs DEF OldEnv
<1>4. Halted(pc) \in Computer /\ Halted(pc).pg = pc.pg /\ Keeps(pc, Halted(pc))
  BY <1>2, HaltedKeeps
<1>5. old \in Computer /\ old.pg = Halted(pc).pg /\ old.ch = Halted(pc).ch
  <2> DEFINE h == Halted(pc)
  <2>1. h \in Computer
    BY <1>4
  <2> HIDE DEF h
  <2>2. [h EXCEPT !.env = OldEnv] \in Computer /\ [h EXCEPT !.env = OldEnv].pg = h.pg /\ [h EXCEPT !.env = OldEnv].ch = h.ch
    BY <2>1, <1>3 DEF Computer
  <2> QED BY <2>2 DEF h
<1>6. Restored(pc) \in {Launched(old), old} \/ (Sql(pc, job.port) /\ Restored(pc) = Launched(Tuned(old, job.was.value.pg)))
  BY Zenon DEF Restored
<1> HIDE DEF old
<1>7. Keeps(pc, old)
  BY <1>4, <1>5, ServiceKeeps, KeepsTransitive
<1>8. Keeps(pc, Launched(old))
  BY <1>5, <1>7, LaunchedKeeps, KeepsTransitive
<1>9. ASSUME Sql(pc, job.port)
      PROVE  Keeps(pc, Launched(Tuned(old, job.was.value.pg)))
  <2>1. old.pg # None
    BY <1>4, <1>5, <1>9 DEF Sql
  <2>2. Tuned(old, job.was.value.pg) \in Computer /\ Keeps(old, Tuned(old, job.was.value.pg))
    BY <2>1, <1>2, <1>5, TunedKeeps
  <2> QED BY <2>2, <1>7, LaunchedKeeps, KeepsTransitive
<1>10. Keeps(pc, Restored(pc))
  BY <1>6, <1>7, <1>8, <1>9
<1>11. pc' = Restored(pc) /\ held' = held \union Serves(pc') /\ End("undone")
  BY DEF PutBack
<1>12. JobOK' /\ ~IsEarly'
  <2>1. UNCHANGED <<setups, changes>> /\ faults' \in 0..MaxFaults
    BY DEF Inv, JobOK, Bounds
  <2> QED BY <2>1, <1>11, JobEnds DEF Inv
<1>13. Preserves(pc, pc') /\ Keeps(pc, pc') /\ pc' \in Computer /\ held' \subseteq held \union Serves(pc')
  BY <1>10, <1>11 DEF Keeps, Preserves
<1> QED BY <1>12, <1>13, HeldStays, NamesStay DEF Inv, Bounds

(* cleanup drops what is no longer to be held, and nothing set aside.      *)
LEMMA DropDatabasesInv ==
  ASSUME Inv, DropDatabases, Bounds
  PROVE  Inv'
<1> DEFINE reached == Sql(pc, job.port)
           gone == (IF reached /\ Database # None THEN {<<"database", Database.of>>} ELSE {}) \union
                   (IF job.flavor = "clickhouse" /\ pc.ch # None THEN {<<"history", pc.ch.of>>} ELSE {})
           pg == IF reached THEN Dropped(pc.pg) ELSE pc.pg
           ch == DroppedClickhouse(pc.ch)
<1>1. at = "drop" /\ at # "idle"
  BY DEF DropDatabases
<1>2. pc \in Computer /\ job.kind = "delete" /\ job.kind \in Kinds /\ at \in ToSet(Paths[job.kind]) /\ 0 \in Name
  BY <1>1, StepFacts, OwnSteps
<1>3. pc' = [pc EXCEPT !.pg = pg, !.ch = ch] /\ held' = held \ gone /\ at' = Following /\ UNCHANGED <<job, last>>
  BY DEF DropDatabases
<1>4. ASSUME reached
      PROVE  /\ pc.pg # None /\ pc.pg \in Postgres /\ pg \in Postgres
             /\ pg.dbs = [pc.pg.dbs EXCEPT ![0] = None]
  <2>1. pc.pg # None /\ pc.pg \in Postgres
    BY <1>2, <1>4 DEF Sql, Computer
  <2>2. pg = Dropped(pc.pg)
    BY <1>4
  <2> QED BY <2>1, <2>2 DEF Dropped, Postgres
<1>5. pg \in Postgres \union {None}
  BY <1>2, <1>4 DEF Computer
<1>6. ch \in History \union {None}
  BY <1>2 DEF DroppedClickhouse, History, Computer
<1>7. Database = None \/ (pc.pg # None /\ Database = pc.pg.dbs[0])
  BY DEF Database
<1>8. gone = (IF reached /\ Database # None THEN {<<"database", Database.of>>} ELSE {}) \union
             (IF job.flavor = "clickhouse" /\ pc.ch # None THEN {<<"history", pc.ch.of>>} ELSE {})
  OBVIOUS
<1>9. ~reached => pg = pc.pg
  OBVIOUS
<1>10. ch = pc.ch \/ (job.flavor = "clickhouse" /\ pc.ch # None)
  BY DEF DroppedClickhouse
<1> HIDE DEF pg, ch, gone
<1>11. pc' \in Computer /\ pc'.pg = pg /\ pc'.ch = ch
  BY <1>2, <1>3, <1>5, <1>6 DEF Computer
<1>12. ASSUME NEW h \in held \ gone
       PROVE  h \in {"database", "history"} \X Name /\ In(pc', h)
  <2>1. h \in {"database", "history"} \X Name /\ In(pc, h)
    BY <1>12 DEF Inv, HeldOK
  <2>2. CASE h[1] = "database"
    <3>1. DatabaseIn(pc, h[2])
      BY <2>1, <2>2 DEF In
    <3>2. CASE ~reached
      BY <3>1, <3>2, <2>1, <2>2, <1>9, <1>11 DEF In, DatabaseIn
    <3>3. CASE reached
      <4>1. pc.pg.dbs \in [Name -> Databases(Name) \union {None}]
        BY <1>4, <3>3 DEF Postgres
      <4>2. PICK k \in Name : pc.pg.dbs[k] # None /\ pc.pg.dbs[k].of = h[2]
        BY <3>1, <4>1 DEF DatabaseIn, Holds
      <4>3. k # 0
        <5> SUFFICES ASSUME k = 0 PROVE FALSE
          OBVIOUS
        <5>1. Database # None /\ Database.of = h[2]
          BY <4>2, <3>3, <1>4 DEF Database
        <5>2. <<"database", Database.of>> = h
          BY <5>1, <2>1, <2>2
        <5> QED BY <5>1, <5>2, <3>3, <1>8, <1>12
      <4>4. pg.dbs[k] = pc.pg.dbs[k] /\ k \in DOMAIN pg.dbs
        BY <4>1, <4>3, <1>4, <3>3
      <4>5. pg # None
        BY <1>4, <3>3, NoneAssumption
      <4> QED BY <4>2, <4>4, <4>5, <2>1, <2>2, <1>11 DEF In, DatabaseIn, Holds
    <3> QED BY <3>2, <3>3
  <2>3. CASE h[1] = "history"
    <3>1. HistoryIn(pc, h[2])
      BY <2>1, <2>3 DEF In
    <3>2. h = <<"history", pc.ch.of>> /\ pc.ch # None
      BY <3>1, <2>1, <2>3 DEF HistoryIn
    <3>3. job.flavor # "clickhouse"
      BY <3>2, <1>8, <1>12
    <3> QED BY <3>1, <3>3, <2>1, <2>3, <1>10, <1>11 DEF In, HistoryIn
  <2> QED BY <2>1, <2>2, <2>3
<1>13. HeldOK'
  BY <1>3, <1>12, Zenon DEF HeldOK, In, DatabaseIn, HistoryIn
<1>14. Following \in ToSet(Paths[job.kind])
  BY <1>1, <1>2, FollowingIs, OwnSteps
<1>15. JobOK' /\ ~IsEarly'
  <2>1. faults' \in 0..MaxFaults /\ UNCHANGED <<setups, changes>>
    BY DEF Inv, JobOK, Bounds
  <2> QED BY <2>1, <1>1, <1>2, <1>3, <1>14, JobGoesOn DEF Inv, IsEarly
<1>16. NamesOK'
  <2> SUFFICES ASSUME NEW k \in Name, k > setups
               PROVE  Under(pc', k) = None
    BY <1>15, Zenon DEF NamesOK, Under, Bounds
  <2>1. k # 0 /\ Under(pc, k) = None
    BY DEF Inv, JobOK, NamesOK, Name
  <2>2. CASE ~reached
    BY <2>1, <2>2, <1>9, <1>11 DEF Under
  <2>3. CASE reached
    <3>1. pg.dbs[k] = None
      BY <2>1, <2>3, <1>4 DEF Under, Postgres
    <3> QED BY <3>1, <1>11 DEF Under
  <2> QED BY <2>2, <2>3
<1> QED BY <1>11, <1>13, <1>15, <1>16 DEF Inv

----------------------------------------------------------------------------
(* What is interrupted keeps what is there too.                            *)
LEMMA InSteps ==
  ASSUME <<job.kind, at>> \in Steps
  PROVE  at # "idle"
<1>1. PICK k \in Kinds : <<job.kind, at>> \in {k} \X ToSet(Paths[k])
  BY Zenon DEF Steps
<1>2. at \in ToSet(Paths[k])
  BY <1>1
<1> QED BY <1>2, OwnSteps

LEMMA TornKeeps ==
  ASSUME Inv, NEW s
  PROVE  Keeps(pc, Torn(s))
<1> DEFINE role == [pc EXCEPT !.pg.role = Generated]
           unit == [Halted(pc) EXCEPT !.unit = TRUE]
           none == [Halted(pc) EXCEPT !.unit = FALSE]
<1>1. pc \in Computer /\ Generated \in Nat
  BY DEF Inv, JobOK, Generated
<1>2. Torn(s) \in {unit, none, pc} \/ (Sql(pc, job.port) /\ Torn(s) = role)
  <2>1. CASE s = "reissue" /\ Sql(pc, job.port) /\ pc.pg.role # 0
    BY <2>1 DEF Torn
  <2>2. CASE s = "unit"
    BY <2>2 DEF Torn
  <2>3. CASE s = "remove"
    BY <2>3 DEF Torn
  <2>4. CASE ~(s = "reissue" /\ Sql(pc, job.port) /\ pc.pg.role # 0) /\ s # "unit" /\ s # "remove"
    BY <2>4 DEF Torn
  <2> QED BY <2>1, <2>2, <2>3, <2>4
<1>3. Halted(pc) \in Computer /\ Keeps(pc, Halted(pc))
  BY <1>1, HaltedKeeps
<1>4. Keeps(pc, unit) /\ Keeps(pc, none)
  <2> DEFINE h == Halted(pc)
  <2>1. h \in Computer /\ Keeps(pc, h)
    BY <1>3
  <2> HIDE DEF h
  <2>2. \A b \in BOOLEAN : /\ [h EXCEPT !.unit = b] \in Computer
                           /\ [h EXCEPT !.unit = b].pg = h.pg /\ [h EXCEPT !.unit = b].ch = h.ch
    BY <2>1 DEF Computer
  <2>3. \A b \in BOOLEAN : Keeps(h, [h EXCEPT !.unit = b])
    BY <2>1, <2>2, ServiceKeeps
  <2>4. \A b \in BOOLEAN : Keeps(pc, [h EXCEPT !.unit = b])
    BY <2>1, <2>3, KeepsTransitive
  <2> QED BY <2>4 DEF h
<1>5. ASSUME Sql(pc, job.port)
      PROVE  Keeps(pc, role)
  <2>1. pc.pg # None /\ pc.pg \in Postgres
    BY <1>1, <1>5 DEF Sql, Computer
  <2>2. role.pg = [pc.pg EXCEPT !.role = Generated]
    BY <1>1 DEF Computer
  <2>3. role.pg \in Postgres /\ role.pg.dbs = pc.pg.dbs
    BY <2>1, <2>2, <1>1 DEF Postgres
  <2>4. role \in Computer /\ role.ch = pc.ch
    BY <1>1, <2>3 DEF Computer
  <2> HIDE DEF role
  <2> QED BY <1>1, <2>1, <2>3, <2>4, PostgresKeeps
<1> HIDE DEF role, unit, none
<1> QED BY <1>1, <1>2, <1>4, <1>5, SameKeeps

LEMMA FailInv ==
  ASSUME Inv, Fail
  PROVE  Inv'
<1>1. at # "idle"
  BY LinuxSetupAssumption, InSteps DEF Fail
<1>2. Fails("failed", pc) \/ Fails("failed", Torn(at))
  BY DEF Fail
<1>3. faults' \in 0..MaxFaults /\ UNCHANGED <<setups, changes>>
  BY LinuxSetupAssumption DEF Fail, Inv, JobOK
<1>4. Keeps(pc, pc) /\ Keeps(pc, Torn(at))
  BY SameKeeps, TornKeeps DEF Inv
<1> QED BY <1>1, <1>2, <1>3, <1>4, FailsKeeps

LEMMA DieInv ==
  ASSUME Inv, Die
  PROVE  Inv'
<1>1. End("killed") /\ UNCHANGED <<pc, held, setups, changes>>
  BY DEF Die
<1>2. faults' \in 0..MaxFaults
  BY LinuxSetupAssumption DEF Die, Inv, JobOK
<1>3. JobOK' /\ ~IsEarly'
  BY <1>1, <1>2, JobEnds DEF Inv
<1>4. Keeps(pc, pc') /\ Preserves(pc, pc') /\ pc' \in Computer /\ held' \subseteq held \union Serves(pc')
  BY <1>1, SameKeeps DEF Inv, Keeps
<1> QED BY <1>1, <1>3, <1>4, HeldStays, NamesStay DEF Inv

LEMMA NextInv ==
  ASSUME Inv, [Next]_vars
  PROVE  Inv'
<1>1. CASE Operator
  <2>1. ASSUME NEW c \in Plans, Install(c) PROVE Inv'
    BY <2>1, InstallInv
  <2>2. ASSUME NEW v \in Values, ApplySettings(v) PROVE Inv'
    BY <2>2, ApplySettingsInv
  <2>3. ASSUME NEW kind \in {"repair", "uninstall", "delete"}, Manage(kind) PROVE Inv'
    BY <2>3, ManageInv
  <2>4. ASSUME NEW run \in BOOLEAN, Control(run) PROVE Inv'
    BY <2>4, ControlInv
  <2>5. ASSUME NEW what \in {"env", "unit", "programs", "record"}, Lose(what) PROVE Inv'
    BY <2>5, LoseInv
  <2> QED BY <1>1, <2>1, <2>2, <2>3, <2>4, <2>5, RetryInv, AdoptInv, RebootInv DEF Operator
<1>2. CASE Step
  BY <1>2, InstallPackagesInv, SetPortInv, InstallClickhouseInv, SyncRoleInv, PrepareExistingInv, CreateInv,
     ProvisionClickhouseInv, InstallSchemaInv, PartitionInv, SetAdminInv, ServiceStepsInv, RegisterUnitInv,
     AlterInv, ReissueInv, PutBackInv, DropDatabasesInv DEF Step
<1>3. CASE Fail
  BY <1>3, FailInv
<1>4. CASE Die
  BY <1>4, DieInv
<1>5. CASE UNCHANGED vars
  BY <1>5, Zenon DEF vars, Inv, JobOK, HeldOK, NamesOK, IsEarly, In, DatabaseIn, HistoryIn, Under
<1> QED BY <1>1, <1>2, <1>3, <1>4, <1>5 DEF Next

LEMMA Invariant == Spec => []Inv
<1>1. Init => Inv
  BY InitInv
<1>2. Inv /\ [Next]_vars => Inv'
  BY NextInv
<1> QED BY <1>1, <1>2, PTL DEF Spec

(* Every variable of LinuxSetup keeps its type.                            *)
THEOREM TypeCorrect == Spec => []TypeOK
<1>1. Inv => TypeOK
  BY Zenon DEF Inv, JobOK, HeldOK, TypeOK
<1> QED BY <1>1, Invariant, PTL

(* Whatever is installed, fails, is tried again, repaired, changed or      *)
(* removed on Linux: a database or a history SENTIENT has served is there, *)
(* in service or set aside, until its own data are deleted (prepare_existing, *)
(* cleanup).                                                               *)
THEOREM ServedDataSurvive == Spec => []KeptSurvives
<1>1. ASSUME Inv PROVE KeptSurvives
  <2> SUFFICES ASSUME NEW h \in held PROVE HeldIsThere(h)
    BY DEF KeptSurvives
  <2>1. In(pc, h)
    BY <1>1 DEF Inv, HeldOK
  <2> QED BY <2>1 DEF In, DatabaseIn, HistoryIn, HeldIsThere
<1> QED BY <1>1, Invariant, PTL

----------------------------------------------------------------------------
(* The step that follows each step.                                        *)
LEMMA FollowingAmong ==
  ASSUME job.kind \in Kinds, NEW n \in DOMAIN Paths[job.kind], at = Paths[job.kind][n],
         \A i \in DOMAIN Paths[job.kind] : Paths[job.kind][i] = at => i = n,
         n # Len(Paths[job.kind])
  PROVE  \E k \in DOMAIN Paths[job.kind] :
           /\ k > n /\ Following = Paths[job.kind][k] /\ Applies(job, Paths[job.kind][k])
           /\ \A i \in DOMAIN Paths[job.kind] : i > n /\ i < k => ~Applies(job, Paths[job.kind][i])
<1> DEFINE path == Paths[job.kind]
           i == CHOOSE i \in DOMAIN path : path[i] = at
<1>1. i = n
  BY Zenon
<1>2. Following = StepAfter(job, i)
  BY DEF Following
<1> HIDE DEF i
<1>3. Len(path) \in Nat /\ DOMAIN path = 1..Len(path)
  BY Ending
<1>4. n \in 0..(Len(path) - 1)
  BY <1>3
<1> QED BY <1>1, <1>2, <1>4, StepAfterIs

LEMMA FirstStep ==
  ASSUME NEW j, j.kind \in Kinds
  PROVE  \E k \in DOMAIN Paths[j.kind] :
           /\ StepAfter(j, 0) = Paths[j.kind][k] /\ Applies(j, Paths[j.kind][k])
           /\ \A n \in DOMAIN Paths[j.kind] : n < k => ~Applies(j, Paths[j.kind][n])
<1> DEFINE i == 0
<1>1. i \in 0..(Len(Paths[j.kind]) - 1) /\ i = 0 /\ \A n \in DOMAIN Paths[j.kind] : n \in Nat \ {0}
  BY Ending
<1> HIDE DEF i
<1>2. PICK k \in DOMAIN Paths[j.kind] :
        /\ StepAfter(j, i) = Paths[j.kind][k] /\ Applies(j, Paths[j.kind][k])
        /\ \A n \in DOMAIN Paths[j.kind] : n > i /\ n < k => ~Applies(j, Paths[j.kind][n])
  BY <1>1, StepAfterIs
<1> QED BY <1>1, <1>2

LEMMA AppliesIs ==
  ASSUME NEW j
  PROVE  /\ \A s : s \notin {"clickhouse", "chuser", "role", "kept", "partition", "reissue", "alter"} => Applies(j, s)
         /\ \A s \in {"clickhouse", "chuser"} : Applies(j, s) <=> j.flavor = "clickhouse"
         /\ \A s \in {"role", "kept"} : Applies(j, s) <=> j.existing # "none"
         /\ Applies(j, "partition") <=> j.flavor = "stock"
         /\ Applies(j, "reissue") <=> j.pw = 0
         /\ Applies(j, "alter") <=> j.value.pg # j.was.value.pg
<1>1. ToSet(KeptSteps) = {"role", "kept"}
  BY DEF ToSet, KeptSteps
<1> QED BY <1>1 DEF Applies

LEMMA InstallSteps ==
  LET path == Paths["install"]
  IN /\ Len(path) = 15 /\ DOMAIN path = 1..15
     /\ path[1] = "packages" /\ path[2] = "port" /\ path[3] = "clickhouse" /\ path[4] = "role" /\ path[5] = "kept"
     /\ path[6] = "programs" /\ path[7] = "create" /\ path[8] = "chuser" /\ path[9] = "env" /\ path[10] = "schema"
     /\ path[11] = "partition" /\ path[12] = "unit" /\ path[13] = "serve" /\ path[14] = "admin" /\ path[15] = "record"
BY DEF Paths, SetupSteps, KeptSteps, DeploySteps

LEMMA RepairSteps ==
  LET path == Paths["repair"]
  IN /\ Len(path) = 9 /\ DOMAIN path = 1..9
     /\ path[1] = "reissue" /\ path[2] = "programs" /\ path[3] = "create" /\ path[4] = "chuser" /\ path[5] = "env"
     /\ path[6] = "schema" /\ path[7] = "partition" /\ path[8] = "unit" /\ path[9] = "serve"
BY DEF Paths, DeploySteps

LEMMA OtherSteps ==
  /\ LET path == Paths["settings"]
     IN /\ Len(path) = 7 /\ DOMAIN path = 1..7
        /\ path[1] = "stop" /\ path[2] = "env" /\ path[3] = "alter" /\ path[4] = "launch" /\ path[5] = "answer"
        /\ path[6] = "record" /\ path[7] = "back"
  /\ LET path == Paths["uninstall"]
     IN Len(path) = 2 /\ DOMAIN path = 1..2 /\ path[1] = "remove" /\ path[2] = "unrecord"
  /\ LET path == Paths["delete"]
     IN Len(path) = 3 /\ DOMAIN path = 1..3 /\ path[1] = "remove" /\ path[2] = "drop" /\ path[3] = "unrecord"
BY DEF Paths, ReconfigureSteps

LEMMA InstallNext ==
  ASSUME job.kind = "install", at \in ToSet(Paths["install"]), at # "record"
  PROVE  /\ at = "packages" => Following = "port"
         /\ at \in {"port", "clickhouse"} =>
              Following \in {"clickhouse", "role"} \/ (Following = "programs" /\ job.existing = "none")
         /\ at = "port" /\ Following # "clickhouse" => job.flavor # "clickhouse"
         /\ at = "clickhouse" => Following # "clickhouse"
         /\ at = "role" => Following \in {"kept", "programs"}
         /\ at = "kept" => Following = "programs"
         /\ at = "programs" => Following = "create"
         /\ at = "create" => Following \in {"chuser", "env"}
         /\ at = "chuser" => Following = "env"
         /\ at = "env" => Following = "schema"
         /\ at = "schema" => Following \in {"partition", "unit"}
         /\ at = "partition" => Following = "unit"
         /\ at = "unit" => Following = "serve"
         /\ at = "serve" => Following = "admin"
         /\ at = "admin" => Following = "record"
         /\ Following = "chuser" => job.flavor = "clickhouse"
<1> DEFINE path == Paths["install"]
<1>1. job.kind \in Kinds
  BY KindsAre
<1>2. PICK n \in 1..15 : at = path[n]
  BY InstallSteps, Zenon DEF ToSet
<1>3. n # 15 /\ \A i \in 1..15 : path[i] = at => i = n
  BY <1>2, InstallSteps
<1>4. PICK k \in 1..15 : /\ k > n /\ Following = path[k] /\ Applies(job, path[k])
                         /\ \A i \in 1..15 : i > n /\ i < k => ~Applies(job, path[i])
  BY <1>1, <1>2, <1>3, InstallSteps, FollowingAmong
<1> HIDE DEF path
<1>5. /\ path[1] = "packages" /\ path[2] = "port" /\ path[3] = "clickhouse" /\ path[4] = "role" /\ path[5] = "kept"
      /\ path[6] = "programs" /\ path[7] = "create" /\ path[8] = "chuser" /\ path[9] = "env" /\ path[10] = "schema"
      /\ path[11] = "partition" /\ path[12] = "unit" /\ path[13] = "serve" /\ path[14] = "admin" /\ path[15] = "record"
  BY InstallSteps DEF path
<1>6. /\ Applies(job, path[2]) /\ Applies(job, path[6]) /\ Applies(job, path[7]) /\ Applies(job, path[9])
      /\ Applies(job, path[10]) /\ Applies(job, path[12]) /\ Applies(job, path[13]) /\ Applies(job, path[14])
      /\ Applies(job, path[15])
  BY <1>5, AppliesIs
<1>7. /\ Applies(job, path[3]) <=> job.flavor = "clickhouse"
      /\ Applies(job, path[4]) <=> job.existing # "none"
      /\ Applies(job, path[5]) <=> job.existing # "none"
  BY <1>5, AppliesIs
<1>8. /\ n = 1 => k = 2
      /\ n = 2 => k \in {3, 4} \/ (k = 6 /\ job.existing = "none")
      /\ n = 2 /\ k # 3 => job.flavor # "clickhouse"
      /\ n = 3 => k = 4 \/ (k = 6 /\ job.existing = "none")
      /\ n = 4 => k \in {5, 6}
      /\ n = 5 => k = 6
      /\ n = 6 => k = 7
  BY <1>3, <1>4, <1>6, <1>7
<1>9. /\ n = 7 => k \in {8, 9}
      /\ n = 8 => k = 9
      /\ n = 9 => k = 10
      /\ n = 10 => k \in {11, 12}
      /\ n = 11 => k = 12
      /\ n = 12 => k = 13
      /\ n = 13 => k = 14
      /\ n = 14 => k = 15
  BY <1>3, <1>4, <1>6
<1>10. Following = "chuser" => job.flavor = "clickhouse"
  BY <1>4, AppliesIs
<1> QED BY <1>2, <1>3, <1>4, <1>5, <1>8, <1>9, <1>10

LEMMA RepairNext ==
  ASSUME job.kind = "repair", at \in ToSet(Paths["repair"]), at # "serve"
  PROVE  /\ at # "reissue" => Following # "reissue"
         /\ at = "env" => Following = "schema"
         /\ at = "unit" => Following = "serve"
<1> DEFINE path == Paths["repair"]
<1>1. job.kind \in Kinds
  BY KindsAre
<1>2. PICK n \in 1..9 : at = path[n]
  BY RepairSteps, Zenon DEF ToSet
<1>3. n # 9 /\ \A i \in 1..9 : path[i] = at => i = n
  BY <1>2, RepairSteps
<1>4. PICK k \in 1..9 : /\ k > n /\ Following = path[k] /\ Applies(job, path[k])
                         /\ \A i \in 1..9 : i > n /\ i < k => ~Applies(job, path[i])
  BY <1>1, <1>2, <1>3, RepairSteps, FollowingAmong
<1>5. Applies(job, path[6]) /\ Applies(job, path[9])
  BY RepairSteps, AppliesIs
<1> QED BY <1>2, <1>3, <1>4, <1>5, RepairSteps

LEMMA SettingsNext ==
  ASSUME job.kind = "settings", at \in ToSet(Paths["settings"]), at # "back"
  PROVE  /\ at = "stop" => Following = "env"
         /\ at = "env" => Following = "alter" \/ (Following = "launch" /\ job.value.pg = job.was.value.pg)
         /\ at = "alter" => Following = "launch"
         /\ at = "launch" => Following = "answer"
         /\ at = "answer" => Following = "record"
<1> DEFINE path == Paths["settings"]
<1>1. job.kind \in Kinds
  BY KindsAre
<1>2. PICK n \in 1..7 : at = path[n]
  BY OtherSteps, Zenon DEF ToSet
<1>3. n # 7 /\ \A i \in 1..7 : path[i] = at => i = n
  BY <1>2, OtherSteps
<1>4. PICK k \in 1..7 : /\ k > n /\ Following = path[k] /\ Applies(job, path[k])
                         /\ \A i \in 1..7 : i > n /\ i < k => ~Applies(job, path[i])
  BY <1>1, <1>2, <1>3, OtherSteps, FollowingAmong
<1>5. /\ Applies(job, path[2]) /\ Applies(job, path[4]) /\ Applies(job, path[5]) /\ Applies(job, path[6])
      /\ Applies(job, path[3]) <=> job.value.pg # job.was.value.pg
  BY OtherSteps, AppliesIs
<1> QED BY <1>2, <1>3, <1>4, <1>5, OtherSteps

LEMMA RemovalNext ==
  ASSUME job.kind \in {"uninstall", "delete"}, at \in ToSet(Paths[job.kind]), at # "unrecord"
  PROVE  Following \in {"drop", "unrecord"}
<1>1. job.kind \in Kinds
  BY KindsAre
<1>2. CASE job.kind = "uninstall"
  <2>1. at = Paths["uninstall"][1]
    BY <1>2, OtherSteps DEF ToSet
  <2>2. \A i \in 1..2 : Paths["uninstall"][i] = at => i = 1
    BY <2>1, OtherSteps
  <2> QED BY <1>1, <1>2, <2>1, <2>2, OtherSteps, FollowingAmong
<1>3. CASE job.kind = "delete"
  <2> DEFINE path == Paths["delete"]
  <2>1. PICK n \in 1..3 : at = path[n]
    BY <1>3, OtherSteps, Zenon DEF ToSet
  <2>2. n # 3 /\ \A i \in 1..3 : path[i] = at => i = n
    BY <2>1, OtherSteps
  <2>3. PICK k \in 1..3 : k > n /\ Following = path[k]
    BY <1>1, <1>3, <2>1, <2>2, OtherSteps, FollowingAmong
  <2> QED BY <2>1, <2>3, OtherSteps
<1> QED BY <1>2, <1>3

LEMMA Firsts ==
  ASSUME NEW j, j.kind \in Kinds
  PROVE  /\ j.kind = "install" => StepAfter(j, 0) = "packages"
         /\ j.kind = "repair" => IF j.pw = 0 THEN StepAfter(j, 0) = "reissue" ELSE StepAfter(j, 0) = "programs"
         /\ j.kind = "settings" => StepAfter(j, 0) = "stop"
         /\ j.kind \in {"uninstall", "delete"} => StepAfter(j, 0) = "remove"
<1>1. PICK k \in DOMAIN Paths[j.kind] :
           /\ StepAfter(j, 0) = Paths[j.kind][k] /\ Applies(j, Paths[j.kind][k])
           /\ \A n \in DOMAIN Paths[j.kind] : n < k => ~Applies(j, Paths[j.kind][n])
  BY FirstStep
<1>2. CASE j.kind = "install"
  <2>1. Applies(j, Paths["install"][1])
    BY InstallSteps, AppliesIs
  <2> QED BY <1>1, <1>2, <2>1, InstallSteps
<1>3. CASE j.kind = "repair"
  <2>1. Applies(j, Paths["repair"][2]) /\ (Applies(j, Paths["repair"][1]) <=> j.pw = 0)
    BY RepairSteps, AppliesIs
  <2>2. IF j.pw = 0 THEN k = 1 ELSE k = 2
    BY <1>1, <1>3, <2>1, RepairSteps
  <2> QED BY <1>1, <1>3, <2>2, RepairSteps
<1>4. CASE j.kind \in {"settings", "uninstall", "delete"}
  <2>1. Applies(j, Paths[j.kind][1]) /\ 1 \in DOMAIN Paths[j.kind] /\ DOMAIN Paths[j.kind] \subseteq Nat \ {0}
    BY <1>4, OtherSteps, AppliesIs
  <2>2. k = 1
    BY <1>1, <2>1
  <2> QED BY <1>1, <1>4, <2>2, OtherSteps
<1> QED BY <1>2, <1>3, <1>4, KindsAre

LEMMA Lasts ==
  /\ Last(Paths["install"]) = "record" /\ Last(Paths["repair"]) = "serve" /\ Last(Paths["settings"]) = "back"
  /\ Last(Paths["uninstall"]) = "unrecord" /\ Last(Paths["delete"]) = "unrecord"
BY InstallSteps, RepairSteps, OtherSteps, Ending, KindsAre

----------------------------------------------------------------------------
(* What each step makes of the computer, and how the job goes on.          *)
Goes == IF Ends THEN End("done") ELSE at' = Following /\ UNCHANGED <<job, last>>
Stops(how) == IF PutsBack THEN at' = "back" /\ UNCHANGED <<job, last>> ELSE End(how)
Stuck == pc' = pc /\ Stops("stuck")
(* SENTIENT's files and the record, and PostgreSQL but for its databases   *)
(* and its role, are left alone.                                           *)
Files(p, q) == q.programs = p.programs /\ q.env = p.env /\ q.unit = p.unit /\ q.record = p.record
Server(p, q) == q.pg # None /\ q.pg.port = p.pg.port /\ q.pg.up = p.pg.up /\ q.pg.value = p.pg.value
(* ... and PostgreSQL but for its parameters and whether it is up.         *)
Served(p, q) ==
  /\ p.pg = None <=> q.pg = None
  /\ p.pg # None => q.pg.role = p.pg.role /\ q.pg.dbs = p.pg.dbs /\ q.pg.port = p.pg.port

LEMMA DoesIs ==
  ASSUME NEW new, Does(new)
  PROVE  pc' = new /\ Goes
BY Zenon DEF Does, Goes

LEMMA FailsIs ==
  ASSUME NEW how, NEW new, Fails(how, new)
  PROVE  pc' = new /\ Stops(how)
BY Zenon DEF Fails, Stops

LEMMA DoesIfIs ==
  ASSUME NEW can, NEW new, DoesIf(can, new)
  PROVE  (can => pc' = new /\ Goes) /\ (~can => Stuck)
BY DoesIs, FailsIs, Zenon DEF DoesIf, Stuck

LEMMA HaltedIs ==
  ASSUME NEW p \in Computer
  PROVE  /\ Halted(p) \in Computer /\ Halted(p).pg = p.pg /\ Halted(p).ch = p.ch /\ Files(p, Halted(p))
         /\ Halted(p).started = None
BY DEF Halted, Computer, Files

LEMMA LaunchedIs ==
  ASSUME NEW p \in Computer
  PROVE  /\ Launched(p) \in Computer /\ Launched(p).ch = p.ch /\ Files(p, Launched(p)) /\ Served(p, Launched(p))
         /\ p.pg # None => /\ Launched(p).pg.value = p.pg.value
                           /\ p.pg.up => Launched(p).pg.up
         /\ IF p.started = None /\ CanLaunch(p) THEN Launched(p).started = p.env /\ Launched(p).pg.up
            ELSE Launched(p) = p
<1>1. CASE p.started = None /\ CanLaunch(p)
  <2>1. p.pg # None /\ p.pg \in Postgres /\ p.env \in Env
    BY <1>1 DEF CanLaunch, Computer
  <2> DEFINE pg == [p.pg EXCEPT !.up = TRUE]
  <2>2. /\ pg \in Postgres /\ pg.dbs = p.pg.dbs /\ pg.role = p.pg.role /\ pg.port = p.pg.port
        /\ pg.value = p.pg.value /\ pg.up
    BY <2>1 DEF Postgres
  <2>3. Launched(p) = [p EXCEPT !.pg = pg, !.started = p.env]
    BY <1>1 DEF Launched
  <2> HIDE DEF pg
  <2>4. /\ Launched(p) \in Computer /\ Launched(p).pg = pg /\ Launched(p).ch = p.ch /\ Launched(p).started = p.env
        /\ Launched(p).programs = p.programs /\ Launched(p).env = p.env /\ Launched(p).unit = p.unit
        /\ Launched(p).record = p.record
    BY <2>1, <2>2, <2>3 DEF Computer
  <2>5. Launched(p).pg # None
    BY <2>2, <2>4, NoneAssumption
  <2> QED BY <1>1, <2>1, <2>2, <2>4, <2>5 DEF Files, Served
<1>2. CASE ~(p.started = None /\ CanLaunch(p))
  <2>1. Launched(p) = p
    BY <1>2 DEF Launched
  <2> QED BY <1>2, <2>1 DEF Files, Served
<1> QED BY <1>1, <1>2

(* PostgreSQL with another port or parameter, and restarted.               *)
LEMMA TunedIs ==
  ASSUME NEW p \in Computer, p.pg # None, NEW value \in Nat
  PROVE  LET q == Tuned(p, value)
         IN /\ q \in Computer /\ q.ch = p.ch /\ Files(p, q) /\ Served(p, q)
            /\ q.pg.value = value /\ (q.pg.up <=> value \notin UnfitPg)
            /\ q.started \in {None, p.env} /\ (p.started = None => q.started = None)
<1> DEFINE pg == [p.pg EXCEPT !.value = value, !.up = value \notin UnfitPg]
           q == [p EXCEPT !.pg.value = value, !.pg.up = value \notin UnfitPg]
<1>1. p.pg \in Postgres
  BY DEF Computer
<1>2. q.pg = pg /\ q = [p EXCEPT !.pg = pg]
  BY DEF Computer
<1>3. /\ pg \in Postgres /\ pg.dbs = p.pg.dbs /\ pg.role = p.pg.role /\ pg.port = p.pg.port
      /\ pg.value = value /\ (pg.up <=> value \notin UnfitPg)
  BY <1>1 DEF Postgres
<1>4. Tuned(p, value) = IF p.started = None THEN q ELSE Launched(Halted(q))
  BY DEF Tuned
<1> HIDE DEF pg
<1>5. /\ q \in Computer /\ q.ch = p.ch /\ q.started = p.started /\ q.programs = p.programs /\ q.env = p.env
      /\ q.unit = p.unit /\ q.record = p.record /\ q.pg = pg
  BY <1>2, <1>3 DEF Computer
<1>6. pg # None
  BY <1>3, NoneAssumption
<1> HIDE DEF q
<1>7. Files(p, q) /\ Served(p, q)
  BY <1>3, <1>5, <1>6 DEF Files, Served
<1>8. CASE p.started = None
  BY <1>3, <1>4, <1>5, <1>7, <1>8
<1>9. CASE p.started # None
  <2> DEFINE h == Halted(q)
             l == Launched(h)
  <2>1. h \in Computer /\ h.pg = pg /\ h.ch = p.ch /\ Files(q, h) /\ h.started = None
    BY <1>5, HaltedIs
  <2>2. CanLaunch(h) => value \notin UnfitPg
    BY <2>1, <1>3 DEF CanLaunch
  <2> HIDE DEF h
  <2>3. /\ l \in Computer /\ l.ch = h.ch /\ Files(h, l) /\ Served(h, l) /\ l.pg.value = h.pg.value
        /\ h.pg.up => l.pg.up
        /\ IF CanLaunch(h) THEN l.started = h.env /\ l.pg.up ELSE l = h
    BY <2>1, <1>6, LaunchedIs
  <2>4. Tuned(p, value) = l
    BY <1>4, <1>9 DEF h
  <2> HIDE DEF l
  <2>5. Files(p, l) /\ Served(p, l)
    BY <2>1, <2>3, <1>7, <1>5 DEF Files, Served
  <2>6. l.started \in {None, p.env}
    BY <2>1, <2>3, <1>5 DEF Files
  <2>7. l.pg.up <=> value \notin UnfitPg
    BY <2>1, <2>2, <2>3, <1>3
  <2> QED BY <2>1, <2>3, <2>4, <2>5, <2>6, <2>7, <1>3, <1>9
<1> QED BY <1>8, <1>9

LEMMA InstallPackagesIs ==
  ASSUME Inv, InstallPackages
  PROVE  /\ Goes /\ Files(pc, pc') /\ pc'.ch = pc.ch /\ pc'.started = pc.started /\ pc'.pg # None
         /\ pc.pg = None => /\ pc'.pg.role = 0 /\ pc'.pg.up /\ pc'.pg.port = DefaultPort /\ pc'.pg.value = 0
         /\ pc.pg # None => /\ Served(pc, pc') /\ pc'.pg.value = pc.pg.value
                            /\ pc.pg.up => pc'.pg.up
<1>1. pc \in Computer
  BY DEF Inv
<1>2. CASE pc.pg = None
  <2>1. pc' = [pc EXCEPT !.pg = Cluster(0, NoDatabases)] /\ Goes
    BY <1>2, DoesIs DEF InstallPackages
  <2>2. Cluster(0, NoDatabases) \in Postgres
    BY DEF Cluster, Postgres, DefaultPort, NoDatabases
  <2>3. pc'.pg = Cluster(0, NoDatabases) /\ Cluster(0, NoDatabases) # None
    BY <1>1, <2>1, <2>2, NoneAssumption DEF Computer
  <2>4. Files(pc, pc') /\ pc'.ch = pc.ch /\ pc'.started = pc.started
    BY <1>1, <2>1 DEF Computer, Files
  <2> QED BY <1>2, <2>1, <2>3, <2>4 DEF Cluster
<1>3. CASE pc.pg # None
  <2> DEFINE pg == [pc.pg EXCEPT !.up = @ \/ pc.pg.value \notin UnfitPg]
  <2>1. pc' = [pc EXCEPT !.pg.up = @ \/ pc.pg.value \notin UnfitPg] /\ Goes
    BY <1>3, DoesIs DEF InstallPackages
  <2>2. pc.pg \in Postgres
    BY <1>1, <1>3 DEF Computer
  <2>3. /\ pc'.pg = pg /\ Files(pc, pc') /\ pc'.ch = pc.ch /\ pc'.started = pc.started
    BY <1>1, <2>1 DEF Computer, Files
  <2>4. /\ pg \in Postgres /\ pg.dbs = pc.pg.dbs /\ pg.role = pc.pg.role /\ pg.port = pc.pg.port
        /\ pg.value = pc.pg.value /\ (pc.pg.up => pg.up)
    BY <2>2 DEF Postgres
  <2> HIDE DEF pg
  <2>5. pg # None
    BY <2>4, NoneAssumption
  <2> QED BY <1>3, <2>1, <2>3, <2>4, <2>5 DEF Served
<1> QED BY <1>2, <1>3

LEMMA SetPortIs ==
  ASSUME Inv, SetPort
  PROVE  IF Sql(pc, DefaultPort)
         THEN /\ Goes /\ Files(pc, pc') /\ pc'.ch = pc.ch /\ pc.pg # None /\ pc'.pg # None
              /\ pc'.pg.role = pc.pg.role /\ pc'.pg.dbs = pc.pg.dbs /\ pc'.pg.port = job.port
              /\ pc'.pg.value = job.value.pg /\ (pc'.pg.up <=> job.value.pg \notin UnfitPg)
              /\ pc'.started \in {None, pc.env} /\ (pc.started = None => pc'.started = None)
         ELSE Stuck
<1> DEFINE q == [pc EXCEPT !.pg.port = job.port]
           new == Tuned(q, job.value.pg)
<1>1. at = "port" /\ at # "idle" /\ DoesIf(Sql(pc, DefaultPort), new)
  BY DEF SetPort
<1>2. pc \in Computer /\ job \in Job /\ job.port \in Nat /\ job.value.pg \in Nat
  BY <1>1, StepFacts DEF Job, Value
<1>3. CASE Sql(pc, DefaultPort)
  <2>1. pc.pg # None /\ pc.pg \in Postgres
    BY <1>2, <1>3 DEF Sql, Computer
  <2>2. q.pg = [pc.pg EXCEPT !.port = job.port]
    BY <1>2 DEF Computer
  <2>3. q.pg \in Postgres /\ q.pg.dbs = pc.pg.dbs /\ q.pg.role = pc.pg.role /\ q.pg.port = job.port
    BY <2>1, <2>2, <1>2 DEF Postgres
  <2>4. q \in Computer /\ q.ch = pc.ch /\ Files(pc, q) /\ q.started = pc.started
    BY <1>2, <2>3 DEF Computer, Files
  <2> HIDE DEF q
  <2>5. q.pg # None
    BY <2>3, NoneAssumption
  <2>6. /\ new.ch = q.ch /\ Files(q, new) /\ Served(q, new)
        /\ new.pg.value = job.value.pg /\ (new.pg.up <=> job.value.pg \notin UnfitPg)
        /\ new.started \in {None, q.env} /\ (q.started = None => new.started = None)
    BY <2>4, <2>5, <1>2, TunedIs
  <2>7. pc' = new /\ Goes
    BY <1>1, <1>3, DoesIfIs
  <2> HIDE DEF new
  <2> QED BY <1>3, <2>1, <2>3, <2>4, <2>5, <2>6, <2>7 DEF Files, Served
<1>4. CASE ~Sql(pc, DefaultPort)
  <2> HIDE DEF new
  <2> QED BY <1>1, <1>4, DoesIfIs
<1> QED BY <1>3, <1>4

LEMMA InstallClickhouseIs ==
  ASSUME Inv, InstallClickhouse
  PROVE  /\ Goes /\ Files(pc, pc') /\ pc'.pg = pc.pg /\ pc'.started = pc.started
         /\ pc'.ch # None /\ (pc.ch # None => pc'.ch = pc.ch)
<1>1. pc \in Computer
  BY DEF Inv
<1>2. pc' = (IF pc.ch = None THEN [pc EXCEPT !.ch = [of |-> None, user |-> 0]] ELSE pc) /\ Goes
  BY DoesIs DEF InstallClickhouse
<1>3. [of |-> None, user |-> 0] \in History
  BY DEF History
<1>4. [of |-> None, user |-> 0] # None
  BY <1>3, NoneAssumption
<1>5. CASE pc.ch = None
  <2>1. pc' = [pc EXCEPT !.ch = [of |-> None, user |-> 0]]
    BY <1>2, <1>5
  <2> QED BY <1>1, <1>2, <1>4, <1>5, <2>1 DEF Computer, Files
<1>6. CASE pc.ch # None
  BY <1>2, <1>6 DEF Files
<1> QED BY <1>5, <1>6

LEMMA SyncRoleIs ==
  ASSUME Inv, SyncRole
  PROVE  IF Sql(pc, job.port)
         THEN /\ Goes /\ Files(pc, pc') /\ pc'.ch = pc.ch /\ pc'.started = pc.started /\ Server(pc, pc')
              /\ pc'.pg.dbs = pc.pg.dbs /\ pc'.pg.role = (IF pc.pg.role = 0 THEN 0 ELSE job.pw)
         ELSE Stuck
<1> DEFINE q == [pc EXCEPT !.pg.role = IF @ = 0 THEN 0 ELSE job.pw]
<1>1. at = "role" /\ at # "idle" /\ DoesIf(Sql(pc, job.port), q)
  BY DEF SyncRole
<1>2. pc \in Computer /\ job.pw \in Nat
  BY <1>1, StepFacts DEF Job
<1>3. CASE Sql(pc, job.port)
  <2>1. pc.pg # None /\ pc.pg \in Postgres
    BY <1>2, <1>3 DEF Sql, Computer
  <2>2. q.pg = [pc.pg EXCEPT !.role = IF @ = 0 THEN 0 ELSE job.pw] /\ q.ch = pc.ch /\ q.started = pc.started
        /\ Files(pc, q)
    BY <1>2 DEF Computer, Files
  <2>3. q.pg \in Postgres /\ q.pg.dbs = pc.pg.dbs /\ q.pg.port = pc.pg.port /\ q.pg.up = pc.pg.up
        /\ q.pg.value = pc.pg.value /\ q.pg.role = (IF pc.pg.role = 0 THEN 0 ELSE job.pw)
    BY <2>1, <2>2, <1>2 DEF Postgres
  <2> HIDE DEF q
  <2>4. pc' = q /\ Goes
    BY <1>1, <1>3, DoesIfIs
  <2>5. q.pg # None
    BY <2>3, NoneAssumption
  <2> QED BY <1>3, <2>2, <2>3, <2>4, <2>5 DEF Server
<1> HIDE DEF q
<1>4. CASE ~Sql(pc, job.port)
  BY <1>1, <1>4, DoesIfIs
<1> QED BY <1>3, <1>4

LEMMA PrepareExistingIs ==
  ASSUME Inv, PrepareExisting
  PROVE  \/ /\ Sql(pc, job.port) /\ Goes /\ Files(pc, pc') /\ pc'.ch = pc.ch /\ pc'.started = pc.started
            /\ Server(pc, pc') /\ pc'.pg.role = pc.pg.role
         \/ pc' = pc /\ Stops("refused")
         \/ ~Sql(pc, job.port) /\ Stuck
<1> DEFINE dbs == Prepared(pc.pg.dbs, job.existing, job.flavor, setups)
           q == [pc EXCEPT !.pg.dbs = dbs]
<1>1. at = "kept" /\ at # "idle"
  BY DEF PrepareExisting
<1>2. pc \in Computer /\ job.kind = "install" /\ setups \in Name \ {0}
  BY <1>1, StepFacts, OwnSteps DEF Inv, JobOK
<1>3. Fails("refused", pc) \/ DoesIf(Sql(pc, job.port), q)
  BY Zenon DEF PrepareExisting
<1>4. ASSUME Sql(pc, job.port)
      PROVE  Files(pc, q) /\ q.ch = pc.ch /\ q.started = pc.started /\ Server(pc, q) /\ q.pg.role = pc.pg.role
  <2>1. pc.pg # None /\ pc.pg \in Postgres
    BY <1>2, <1>4 DEF Sql, Computer
  <2>2. IsEarly
    BY <1>1, <1>2 DEF IsEarly, Early
  <2>3. pc.pg.dbs[setups] = None /\ pc.pg.dbs \in [Name -> Databases(Name) \union {None}]
    BY <2>1, <2>2, <1>2 DEF Inv, NamesOK, Under, Postgres
  <2>4. dbs \in [Name -> Databases(Name) \union {None}]
    BY <2>3, <1>2, PreparedIs
  <2> HIDE DEF dbs
  <2>5. /\ q.pg = [pc.pg EXCEPT !.dbs = dbs]
        /\ q.ch = pc.ch /\ q.started = pc.started /\ Files(pc, q)
    BY <1>2 DEF Computer, Files
  <2>6. /\ q.pg \in Postgres /\ q.pg.port = pc.pg.port /\ q.pg.up = pc.pg.up /\ q.pg.value = pc.pg.value
        /\ q.pg.role = pc.pg.role
    BY <2>1, <2>4, <2>5 DEF Postgres
  <2>7. q.pg # None
    BY <2>6, NoneAssumption
  <2> QED BY <2>5, <2>6, <2>7 DEF Server
<1> HIDE DEF q
<1>5. CASE Fails("refused", pc)
  BY <1>5, FailsIs
<1>6. CASE DoesIf(Sql(pc, job.port), q) /\ Sql(pc, job.port)
  <2>1. pc' = q /\ Goes
    BY <1>6, DoesIfIs, Zenon
  <2>2. /\ Sql(pc, job.port) /\ Goes /\ Files(pc, pc') /\ pc'.ch = pc.ch /\ pc'.started = pc.started
        /\ Server(pc, pc') /\ pc'.pg.role = pc.pg.role
    BY <1>4, <1>6, <2>1
  <2> QED BY <2>2
<1>7. CASE DoesIf(Sql(pc, job.port), q) /\ ~Sql(pc, job.port)
  <2>1. Stuck
    BY <1>7, DoesIfIs
  <2> QED BY <1>7, <2>1
<1> QED BY <1>3, <1>5, <1>6, <1>7

LEMMA InstallProgramsIs ==
  ASSUME Inv, InstallPrograms
  PROVE  \/ /\ pc.pg # None /\ Goes /\ pc'.programs /\ pc'.pg = pc.pg /\ pc'.ch = pc.ch /\ pc'.env = pc.env
            /\ pc'.unit = pc.unit /\ pc'.started = pc.started /\ pc'.record = pc.record
         \/ job.kind = "repair" /\ pc' = pc /\ Stops("refused")
         \/ pc.pg = None /\ Stuck
<1> DEFINE q == [pc EXCEPT !.programs = TRUE]
<1>1. (job.kind = "repair" /\ Fails("refused", pc)) \/ DoesIf(pc.pg # None, q)
  BY Zenon DEF InstallPrograms
<1>2. /\ q.programs /\ q.pg = pc.pg /\ q.ch = pc.ch /\ q.env = pc.env
      /\ q.unit = pc.unit /\ q.started = pc.started /\ q.record = pc.record
  BY DEF Inv, Computer
<1> HIDE DEF q
<1>3. CASE job.kind = "repair" /\ Fails("refused", pc)
  BY <1>3, FailsIs
<1>4. CASE DoesIf(pc.pg # None, q) /\ pc.pg # None
  <2>1. pc' = q /\ Goes
    BY <1>4, DoesIfIs, Zenon
  <2> QED BY <1>2, <1>4, <2>1
<1>5. CASE DoesIf(pc.pg # None, q) /\ pc.pg = None
  BY <1>5, DoesIfIs, Zenon
<1> QED BY <1>1, <1>3, <1>4, <1>5

LEMMA CreateIs ==
  ASSUME Inv, Create
  PROVE  IF Sql(pc, job.port)
         THEN /\ Goes /\ Files(pc, pc') /\ pc'.ch = pc.ch /\ pc'.started = pc.started /\ Server(pc, pc')
              /\ pc'.pg.role = (IF pc.pg.role = 0 THEN job.pw ELSE pc.pg.role) /\ pc'.pg.dbs[0] # None
         ELSE Goes /\ pc' = pc
<1> DEFINE db == IF pc.pg.dbs[0] = None THEN Created(setups) ELSE pc.pg.dbs[0]
           q == [pc EXCEPT !.pg.role = IF @ = 0 THEN job.pw ELSE @,
                           !.pg.dbs[0] = IF @ = None THEN Created(setups) ELSE @]
<1>1. at = "create" /\ at # "idle" /\ Does(IF ~Sql(pc, job.port) THEN pc ELSE q)
  BY Zenon DEF Create
<1>2. pc \in Computer /\ job.pw \in Nat /\ setups \in Name /\ 0 \in Name
  BY <1>1, StepFacts DEF Job
<1>3. ASSUME Sql(pc, job.port)
      PROVE  /\ Files(pc, q) /\ q.ch = pc.ch /\ q.started = pc.started /\ Server(pc, q)
             /\ q.pg.role = (IF pc.pg.role = 0 THEN job.pw ELSE pc.pg.role) /\ q.pg.dbs[0] # None
  <2>1. pc.pg # None /\ pc.pg \in Postgres
    BY <1>2, <1>3 DEF Sql, Computer
  <2>2. db \in Databases(Name)
    BY <2>1, <1>2 DEF Postgres, Created, Databases
  <2>3. q.pg = [pc.pg EXCEPT !.role = IF @ = 0 THEN job.pw ELSE @,
                             !.dbs[0] = IF @ = None THEN Created(setups) ELSE @]
    BY <1>2 DEF Computer
  <2>9. q.ch = pc.ch /\ q.started = pc.started /\ Files(pc, q)
    BY <1>2 DEF Computer, Files
  <2>4. q.pg.dbs = [pc.pg.dbs EXCEPT ![0] = db]
    BY <2>1, <2>3 DEF Postgres
  <2> HIDE DEF db
  <2>5. q.pg.dbs \in [Name -> Databases(Name) \union {None}] /\ q.pg.dbs[0] = db
    BY <2>1, <2>2, <2>4, <1>2 DEF Postgres
  <2>6. q.pg = [pc.pg EXCEPT !.role = IF @ = 0 THEN job.pw ELSE @, !.dbs = q.pg.dbs]
    BY <2>1, <2>3 DEF Postgres
  <2> HIDE DEF q
  <2>7. /\ q.pg \in Postgres /\ q.pg.port = pc.pg.port /\ q.pg.up = pc.pg.up /\ q.pg.value = pc.pg.value
        /\ q.pg.role = (IF pc.pg.role = 0 THEN job.pw ELSE pc.pg.role)
    BY <2>1, <2>5, <2>6, <1>2 DEF Postgres
  <2>8. q.pg # None /\ db # None
    BY <2>2, <2>7, NoneAssumption
  <2> QED BY <2>5, <2>7, <2>8, <2>9 DEF Server
<1> HIDE DEF q
<1>4. (Sql(pc, job.port) => Does(q)) /\ (~Sql(pc, job.port) => Does(pc))
  BY <1>1
<1>5. CASE Sql(pc, job.port)
  <2>1. pc' = q /\ Goes
    BY <1>4, <1>5, DoesIs
  <2> QED BY <1>3, <1>5, <2>1
<1>6. CASE ~Sql(pc, job.port)
  BY <1>4, <1>6, DoesIs
<1> QED BY <1>5, <1>6

LEMMA ProvisionClickhouseIs ==
  ASSUME Inv, ProvisionClickhouse
  PROVE  IF pc.ch # None
         THEN /\ Goes /\ Files(pc, pc') /\ pc'.pg = pc.pg /\ pc'.started = pc.started /\ pc'.ch # None
              /\ pc'.ch.user = (IF pc.ch.user = 0 THEN job.chpw ELSE pc.ch.user)
         ELSE Stuck
<1> DEFINE q == [pc EXCEPT !.ch.user = IF @ = 0 THEN job.chpw ELSE @]
<1>1. at = "chuser" /\ at # "idle" /\ DoesIf(pc.ch # None, q)
  BY DEF ProvisionClickhouse
<1>2. pc \in Computer /\ job.chpw \in Nat
  BY <1>1, StepFacts DEF Job
<1>3. ASSUME pc.ch # None
      PROVE  /\ Files(pc, q) /\ q.pg = pc.pg /\ q.started = pc.started /\ q.ch # None
             /\ q.ch.user = (IF pc.ch.user = 0 THEN job.chpw ELSE pc.ch.user)
  <2>1. pc.ch \in History
    BY <1>2, <1>3 DEF Computer
  <2>2. /\ q.ch = [pc.ch EXCEPT !.user = IF @ = 0 THEN job.chpw ELSE @]
        /\ Files(pc, q) /\ q.pg = pc.pg /\ q.started = pc.started
    BY <1>2 DEF Computer, Files
  <2>3. q.ch \in History /\ q.ch.user = (IF pc.ch.user = 0 THEN job.chpw ELSE pc.ch.user)
    BY <2>1, <2>2, <1>2 DEF History
  <2> HIDE DEF q
  <2>4. q.ch # None
    BY <2>3, NoneAssumption
  <2> QED BY <2>2, <2>3, <2>4
<1> HIDE DEF q
<1>4. (pc.ch # None => pc' = q /\ Goes) /\ (pc.ch = None => Stuck)
  BY <1>1, DoesIfIs, Zenon
<1> QED BY <1>3, <1>4

LEMMA WriteEnvIs ==
  ASSUME Inv, WriteEnv
  PROVE  /\ Goes /\ pc'.env = EnvFile(job) /\ pc'.env # None /\ pc'.pg = pc.pg /\ pc'.ch = pc.ch
         /\ pc'.programs = pc.programs /\ pc'.unit = pc.unit /\ pc'.started = pc.started /\ pc'.record = pc.record
<1>1. pc' = [pc EXCEPT !.env = EnvFile(job)] /\ Goes
  BY DoesIs DEF WriteEnv
<1>2. EnvFile(job) \in Env
  BY StepFacts, EnvFileIs DEF WriteEnv
<1>3. EnvFile(job) # None
  BY <1>2, NoneAssumption
<1> QED BY <1>1, <1>3 DEF Inv, Computer

LEMMA InstallSchemaIs ==
  ASSUME Inv, InstallSchema
  PROVE  /\ Goes /\ Files(pc, pc') /\ pc'.started = pc.started
         /\ IF Sql(pc, job.port) /\ pc.pg.role = job.pw /\ Database # None
            THEN /\ Server(pc, pc') /\ pc'.pg.role = pc.pg.role /\ pc'.pg.dbs[0] # None
                 /\ pc'.pg.dbs[0].shape # "missing"
                 /\ pc.ch = None <=> pc'.ch = None
                 /\ pc.ch # None => pc'.ch.user = pc.ch.user
            ELSE pc' = pc
<1> DEFINE ch == IF job.flavor = "clickhouse" /\ pc.ch # None /\ pc.ch.of = None /\ pc.ch.user = job.chpw
                 THEN [pc.ch EXCEPT !.of = pc.pg.dbs[0].of] ELSE pc.ch
           db == WithSchema(pc.pg.dbs[0], "plain")
           q == [pc EXCEPT
            !.pg.dbs[0] = WithSchema(@, "plain"),
            !.ch = IF job.flavor = "clickhouse" /\ @ # None /\ @.of = None /\ @.user = job.chpw
                   THEN [@ EXCEPT !.of = pc.pg.dbs[0].of] ELSE @]
           can == Sql(pc, job.port) /\ pc.pg.role = job.pw /\ Database # None
<1>1. at = "schema" /\ at # "idle" /\ Does(IF ~can THEN pc ELSE q)
  BY Zenon DEF InstallSchema
<1>2. pc \in Computer /\ 0 \in Name
  BY <1>1, StepFacts
<1>3. ASSUME can
      PROVE  /\ Server(pc, q) /\ q.pg.role = pc.pg.role /\ q.pg.dbs[0] # None /\ q.pg.dbs[0].shape # "missing"
             /\ pc.ch = None <=> q.ch = None
             /\ pc.ch # None => q.ch.user = pc.ch.user
             /\ Files(pc, q) /\ q.started = pc.started
  <2>1. pc.pg # None /\ pc.pg \in Postgres /\ pc.pg.dbs[0] \in Databases(Name)
    BY <1>2, <1>3 DEF Sql, Computer, Database, Postgres
  <2>2. db \in Databases(Name) /\ pc.pg.dbs[0].of \in Name
    BY <2>1, ServedDatabaseIs DEF Databases
  <2>3. db # None
    BY <2>2, NoneAssumption
  <2>4. db.shape # "missing"
    BY <2>1, <1>3 DEF WithSchema, Databases, Database
  <2>5. q.pg = [pc.pg EXCEPT !.dbs[0] = WithSchema(@, "plain")] /\ q.ch = ch /\ Files(pc, q) /\ q.started = pc.started
    BY <1>2 DEF Computer, Files
  <2>6. q.pg.dbs = [pc.pg.dbs EXCEPT ![0] = db]
    BY <2>1, <2>5 DEF Postgres
  <2> HIDE DEF db
  <2>7. /\ q.pg.dbs[0] = db /\ q.pg \in Postgres /\ q.pg.port = pc.pg.port /\ q.pg.up = pc.pg.up
        /\ q.pg.value = pc.pg.value /\ q.pg.role = pc.pg.role
    BY <2>1, <2>2, <2>5, <2>6, <1>2 DEF Postgres
  <2>8. /\ ch \in History \union {None}
        /\ pc.ch # None => ch \in History /\ ch.user = pc.ch.user
        /\ pc.ch = None => ch = None
    BY <2>2, <1>2 DEF Computer, History
  <2> HIDE DEF ch, q
  <2>9. q.pg # None /\ (ch \in History => ch # None)
    BY <2>7, NoneAssumption
  <2> QED BY <2>3, <2>4, <2>5, <2>7, <2>8, <2>9 DEF Server
<1> HIDE DEF q, can
<1>4. (can => Does(q)) /\ (~can => Does(pc))
  BY <1>1
<1>5. CASE can
  <2>1. pc' = q /\ Goes
    BY <1>4, <1>5, DoesIs
  <2> QED BY <1>3, <1>5, <2>1 DEF can
<1>6. CASE ~can
  <2>1. pc' = pc /\ Goes
    BY <1>4, <1>6, DoesIs
  <2> QED BY <1>6, <2>1 DEF can, Files
<1> QED BY <1>5, <1>6

(* The database in service changed in place.                               *)
LEMMA WithDatabaseIs ==
  ASSUME NEW p \in Computer, p.pg # None, NEW d \in Databases(Name)
  PROVE  LET q == [p EXCEPT !.pg.dbs[0] = d]
         IN Files(p, q) /\ q.ch = p.ch /\ q.started = p.started /\ Server(p, q) /\ q.pg.role = p.pg.role
            /\ q.pg.dbs[0] = d
<1> DEFINE q == [p EXCEPT !.pg.dbs[0] = d]
<1>1. p.pg \in Postgres /\ 0 \in Name
  BY LinuxSetupAssumption DEF Computer, Name
<1>2. q.pg = [p.pg EXCEPT !.dbs[0] = d] /\ Files(p, q) /\ q.ch = p.ch /\ q.started = p.started
  BY DEF Computer, Files
<1>3. /\ q.pg \in Postgres /\ q.pg.dbs[0] = d /\ q.pg.port = p.pg.port /\ q.pg.up = p.pg.up
      /\ q.pg.value = p.pg.value /\ q.pg.role = p.pg.role
  BY <1>1, <1>2 DEF Postgres
<1> HIDE DEF q
<1>4. q.pg # None
  BY <1>3, NoneAssumption
<1> QED BY <1>2, <1>3, <1>4 DEF Server, q

LEMMA PartitionIs ==
  ASSUME Inv, Partition
  PROVE  IF Sql(pc, job.port) /\ Database # None
         THEN /\ Goes /\ Files(pc, pc') /\ pc'.ch = pc.ch /\ pc'.started = pc.started /\ Server(pc, pc')
              /\ pc'.pg.role = pc.pg.role /\ pc'.pg.dbs[0] # None
              /\ pc.pg.dbs[0].shape # "missing" => pc'.pg.dbs[0].shape # "missing"
         ELSE Stuck
<1> DEFINE new == IF Database.shape = "plain" THEN [pc EXCEPT !.pg.dbs[0].shape = "partitioned"] ELSE pc
           d == [pc.pg.dbs[0] EXCEPT !.shape = "partitioned"]
           can == Sql(pc, job.port) /\ Database # None
<1>1. at = "partition" /\ at # "idle" /\ DoesIf(can, new)
  BY DEF Partition
<1>2. pc \in Computer /\ 0 \in Name
  BY <1>1, StepFacts
<1>3. ASSUME can
      PROVE  /\ Files(pc, new) /\ new.ch = pc.ch /\ new.started = pc.started /\ Server(pc, new)
             /\ new.pg.role = pc.pg.role /\ new.pg.dbs[0] # None
             /\ pc.pg.dbs[0].shape # "missing" => new.pg.dbs[0].shape # "missing"
  <2>1. pc.pg # None /\ pc.pg.dbs[0] \in Databases(Name) /\ pc.pg.dbs[0] # None
    BY <1>2, <1>3 DEF Sql, Computer, Database, Postgres
  <2>2. d \in Databases(Name) /\ d.shape = "partitioned"
    BY <2>1, ServedDatabaseIs DEF Databases
  <2>3. new = pc \/ new = [pc EXCEPT !.pg.dbs[0] = d]
    BY <1>2 DEF Computer, Postgres
  <2> HIDE DEF d, new
  <2>4. d # None
    BY <2>2, NoneAssumption
  <2>5. CASE new = pc
    BY <2>1, <2>5 DEF Files, Server
  <2>6. CASE new = [pc EXCEPT !.pg.dbs[0] = d]
    BY <2>1, <2>2, <2>4, <2>6, <1>2, WithDatabaseIs
  <2> QED BY <2>3, <2>5, <2>6
<1> HIDE DEF new, can
<1>4. (can => pc' = new /\ Goes) /\ (~can => Stuck)
  BY <1>1, DoesIfIs
<1>5. CASE can
  <2>1. pc' = new
    BY <1>4, <1>5
  <2> QED BY <1>3, <1>4, <1>5, <2>1 DEF can
<1>6. CASE ~can
  BY <1>4, <1>6 DEF can
<1> QED BY <1>5, <1>6

LEMMA RegisterUnitIs ==
  ASSUME Inv, RegisterUnit
  PROVE  /\ pc'.unit /\ pc'.programs = pc.programs /\ pc'.env = pc.env /\ pc'.record = pc.record /\ pc'.ch = pc.ch
         /\ Served(pc, pc') /\ (pc.pg # None => pc'.pg.value = pc.pg.value /\ (pc.pg.up => pc'.pg.up))
         /\ pc'.started \in {None, pc.env}
         /\ \/ Goes /\ pc'.started = pc.env /\ pc'.pg # None /\ pc'.pg.up
            \/ /\ Stops("stuck") /\ pc'.started = None
               /\ ~CanLaunch([pc EXCEPT !.unit = TRUE])
<1> DEFINE q == [pc EXCEPT !.unit = TRUE]
           h == Halted(q)
           new == Launched(h)
<1>1. at = "unit" /\ (IF new.started # None THEN Does(new) ELSE Fails("stuck", new))
  BY Zenon DEF RegisterUnit
<1>2. pc \in Computer
  BY DEF Inv
<1>3. /\ q \in Computer /\ q.pg = pc.pg /\ q.ch = pc.ch /\ q.unit /\ q.programs = pc.programs /\ q.env = pc.env
      /\ q.record = pc.record
  BY <1>2 DEF Computer
<1> HIDE DEF q
<1>4. h \in Computer /\ h.pg = q.pg /\ h.ch = q.ch /\ Files(q, h) /\ h.started = None
  BY <1>3, HaltedIs
<1>5. CanLaunch(h) <=> CanLaunch(q)
  BY <1>4 DEF CanLaunch, Files
<1> HIDE DEF h
<1>6. /\ new \in Computer /\ new.ch = h.ch /\ Files(h, new) /\ Served(h, new)
      /\ h.pg # None => new.pg.value = h.pg.value /\ (h.pg.up => new.pg.up)
      /\ IF CanLaunch(h) THEN new.started = h.env /\ new.pg.up ELSE new = h
  BY <1>4, LaunchedIs
<1>7. CanLaunch(h) => h.pg # None /\ h.env # None
  BY DEF CanLaunch
<1> HIDE DEF new
<1>8. IF CanLaunch(q) THEN pc' = new /\ Goes ELSE pc' = new /\ Stops("stuck")
  BY <1>1, <1>4, <1>5, <1>6, <1>7, DoesIs, FailsIs
<1>9. pc' = new
  BY <1>8
<1>10. CASE CanLaunch(q)
  BY <1>3, <1>4, <1>5, <1>6, <1>7, <1>8, <1>9, <1>10 DEF Files, Served
<1>11. CASE ~CanLaunch(q)
  BY <1>3, <1>4, <1>5, <1>6, <1>8, <1>9, <1>11 DEF Files, Served, q
<1> QED BY <1>10, <1>11

LEMMA ServeIs ==
  ASSUME Inv, Serve
  PROVE  IF Serving(pc) THEN Goes /\ pc' = pc ELSE Stuck
BY DoesIfIs DEF Serve

LEMMA SetAdminIs ==
  ASSUME Inv, SetAdmin
  PROVE  IF Sql(pc, job.port) /\ Database # None
         THEN /\ Goes /\ Files(pc, pc') /\ pc'.ch = pc.ch /\ pc'.started = pc.started /\ Server(pc, pc')
              /\ pc'.pg.role = pc.pg.role /\ pc'.pg.dbs[0] # None
              /\ pc.pg.dbs[0].shape # "missing" => pc'.pg.dbs[0].shape # "missing"
         ELSE Stuck
<1> DEFINE new == [pc EXCEPT !.pg.dbs[0] = WithAdministrator(@)]
           d == WithAdministrator(pc.pg.dbs[0])
           can == Sql(pc, job.port) /\ Database # None
<1>1. at = "admin" /\ at # "idle" /\ DoesIf(can, new)
  BY DEF SetAdmin
<1>2. pc \in Computer /\ 0 \in Name
  BY <1>1, StepFacts
<1>3. ASSUME can
      PROVE  /\ Files(pc, new) /\ new.ch = pc.ch /\ new.started = pc.started /\ Server(pc, new)
             /\ new.pg.role = pc.pg.role /\ new.pg.dbs[0] # None
             /\ pc.pg.dbs[0].shape # "missing" => new.pg.dbs[0].shape # "missing"
  <2>1. pc.pg # None /\ pc.pg.dbs[0] \in Databases(Name) /\ pc.pg.dbs[0] # None
    BY <1>2, <1>3 DEF Sql, Computer, Database, Postgres
  <2>2. d \in Databases(Name) /\ d.shape = pc.pg.dbs[0].shape
    BY <2>1, ServedDatabaseIs DEF WithAdministrator, Databases
  <2>3. new = [pc EXCEPT !.pg.dbs[0] = d]
    BY <1>2 DEF Computer, Postgres
  <2> HIDE DEF d, new
  <2>4. d # None
    BY <2>2, NoneAssumption
  <2> QED BY <2>1, <2>2, <2>3, <2>4, <1>2, WithDatabaseIs
<1> HIDE DEF new, can
<1>4. (can => pc' = new /\ Goes) /\ (~can => Stuck)
  BY <1>1, DoesIfIs
<1>5. CASE can
  <2>1. pc' = new
    BY <1>4, <1>5
  <2> QED BY <1>3, <1>4, <1>5, <2>1 DEF can
<1>6. CASE ~can
  BY <1>4, <1>6 DEF can
<1> QED BY <1>5, <1>6

LEMMA SaveRecordIs ==
  ASSUME Inv, SaveRecord
  PROVE  /\ Goes /\ pc'.record = Recorded(EnvFile(job), job.value) /\ pc'.record # None /\ pc'.pg = pc.pg
         /\ pc'.ch = pc.ch /\ pc'.programs = pc.programs /\ pc'.unit = pc.unit /\ pc'.started = pc.started
         /\ pc'.env = pc.env
<1>1. pc' = [pc EXCEPT !.record = Recorded(EnvFile(job), job.value)] /\ Goes
  BY DoesIs DEF SaveRecord
<1>2. Recorded(EnvFile(job), job.value) \in Record
  BY StepFacts, EnvFileIs DEF SaveRecord, Job
<1>3. Recorded(EnvFile(job), job.value) # None
  BY <1>2, NoneAssumption
<1> QED BY <1>1, <1>3 DEF Inv, Computer

(* The repair's passwords, made anew: an instance of the job.              *)
Reissued == [job EXCEPT !.pw = Generated, !.chpw = Generated]
LEMMA ReissueIs ==
  ASSUME Inv, Reissue
  PROVE  \/ /\ Files(pc, pc') /\ pc'.started = pc.started /\ Server(pc, pc') /\ pc'.pg.dbs = pc.pg.dbs
            /\ pc'.pg.role = Generated /\ job' = Reissued /\ at' = "programs" /\ last' = last
            /\ pc.pg # None
            /\ job.flavor = "clickhouse" => pc'.ch # None /\ pc'.ch.user = Generated
            /\ job.flavor # "clickhouse" => pc'.ch = pc.ch
         \/ pc' = pc /\ Stops("refused")
<1> DEFINE q == [pc EXCEPT !.pg.role = Generated,
                           !.ch = IF job.flavor = "clickhouse" THEN [@ EXCEPT !.user = Generated] ELSE @]
           can == Sql(pc, job.port) /\ pc.pg.role # 0 /\ (job.flavor = "clickhouse" => pc.ch # None)
<1>1. at = "reissue" /\ at # "idle"
  BY DEF Reissue
<1>2. pc \in Computer /\ job \in Job /\ Generated \in Nat
  BY <1>1, StepFacts, LinuxSetupAssumption DEF Inv, JobOK, Generated
<1>3. IF can THEN pc' = q /\ job' = Reissued /\ at' = "programs" /\ last' = last ELSE Fails("refused", pc)
  BY Zenon DEF Reissue, Reissued
<1>4. CASE can
  <2> DEFINE ch == IF job.flavor = "clickhouse" THEN [pc.ch EXCEPT !.user = Generated] ELSE pc.ch
  <2>1. pc.pg # None /\ pc.pg \in Postgres /\ (job.flavor = "clickhouse" => pc.ch \in History)
    BY <1>2, <1>4 DEF Sql, Computer
  <2>2. q.pg = [pc.pg EXCEPT !.role = Generated] /\ q.ch = ch
    BY <1>2 DEF Computer
  <2>3. Files(pc, q) /\ q.started = pc.started
    BY <1>2 DEF Computer, Files
  <2>4. /\ q.pg \in Postgres /\ q.pg.dbs = pc.pg.dbs /\ q.pg.role = Generated /\ q.pg.port = pc.pg.port
        /\ q.pg.up = pc.pg.up /\ q.pg.value = pc.pg.value
    BY <2>1, <2>2, <1>2 DEF Postgres
  <2>5. job.flavor = "clickhouse" => ch \in History /\ ch.user = Generated
    BY <2>1, <1>2 DEF History
  <2>6. job.flavor # "clickhouse" => ch = pc.ch
    OBVIOUS
  <2>7. pc' = q /\ job' = Reissued /\ at' = "programs" /\ last' = last
    BY <1>3, <1>4
  <2> HIDE DEF q, ch, can
  <2>8. q.pg # None /\ (ch \in History => ch # None)
    BY <2>4, NoneAssumption
  <2> QED BY <2>1, <2>2, <2>3, <2>4, <2>5, <2>6, <2>7, <2>8 DEF Server
<1>5. CASE ~can
  <2>1. Fails("refused", pc)
    BY <1>3, <1>5, Zenon
  <2> HIDE DEF can
  <2> QED BY <2>1, FailsIs
<1> HIDE DEF can
<1> QED BY <1>4, <1>5

LEMMA StopSentientIs ==
  ASSUME Inv, StopSentient
  PROVE  Goes /\ pc'.pg = pc.pg /\ pc'.ch = pc.ch /\ Files(pc, pc') /\ pc'.started = None
<1>1. pc' = Halted(pc) /\ Goes
  BY DoesIs DEF StopSentient
<1> QED BY <1>1, HaltedIs DEF Inv

LEMMA AlterIs ==
  ASSUME Inv, Alter
  PROVE  \/ ~Sql(pc, job.port) /\ pc' = pc /\ Stops("failed")
         \/ /\ pc'.ch = pc.ch /\ Files(pc, pc') /\ pc.pg # None /\ Served(pc, pc')
            /\ pc'.pg.value = job.value.pg /\ (pc'.pg.up <=> job.value.pg \notin UnfitPg)
            /\ pc'.started \in {None, pc.env} /\ (pc.started = None => pc'.started = None)
            /\ IF pc'.pg.up THEN Goes ELSE Stops("failed")
<1> DEFINE new == Tuned(pc, job.value.pg)
<1>1. pc \in Computer /\ job.value.pg \in Nat
  BY StepFacts DEF Alter, Job, Value
<1>2. CASE ~Sql(pc, job.port)
  BY <1>2, FailsIs DEF Alter
<1>3. CASE Sql(pc, job.port)
  <2>1. pc.pg # None
    BY <1>3 DEF Sql
  <2>2. IF new.pg.up THEN Does(new) ELSE Fails("failed", new)
    BY <1>3 DEF Alter
  <2>3. /\ new.ch = pc.ch /\ Files(pc, new) /\ Served(pc, new)
        /\ new.pg.value = job.value.pg /\ (new.pg.up <=> job.value.pg \notin UnfitPg)
        /\ new.started \in {None, pc.env} /\ (pc.started = None => new.started = None)
    BY <1>1, <2>1, TunedIs
  <2> HIDE DEF new
  <2>4. pc' = new /\ (IF new.pg.up THEN Goes ELSE Stops("failed"))
    BY <2>2, DoesIs, FailsIs
  <2>5. pc' = new
    BY <2>4
  <2> QED BY <2>1, <2>3, <2>4, <2>5
<1> QED BY <1>2, <1>3

LEMMA LaunchIs ==
  ASSUME Inv, Launch
  PROVE  \/ ~CanLaunch(pc) /\ pc' = pc /\ Stops("failed")
         \/ /\ CanLaunch(pc) /\ Goes /\ pc'.ch = pc.ch /\ Files(pc, pc') /\ Served(pc, pc')
            /\ pc'.pg.value = pc.pg.value /\ (pc.pg.up => pc'.pg.up)
            /\ pc'.started = (IF pc.started = None THEN pc.env ELSE pc.started)
<1>1. pc \in Computer
  BY DEF Inv
<1>2. CASE ~CanLaunch(pc)
  BY <1>2, FailsIs DEF Launch
<1>3. CASE CanLaunch(pc)
  <2>1. pc' = Launched(pc) /\ Goes
    BY <1>3, DoesIs DEF Launch
  <2>2. pc.pg # None
    BY <1>3 DEF CanLaunch
  <2> QED BY <1>1, <1>3, <2>1, <2>2, LaunchedIs
<1> QED BY <1>2, <1>3

LEMMA AnswerIs ==
  ASSUME Inv, Answer
  PROVE  pc' = pc /\ (IF Serving(pc) THEN Goes ELSE Stops("failed"))
BY DoesIs, FailsIs DEF Answer

LEMMA PutBackIs ==
  ASSUME Inv, PutBack
  PROVE  /\ End("undone") /\ pc'.ch = pc.ch /\ pc'.programs = pc.programs /\ pc'.unit = pc.unit
         /\ pc'.record = pc.record /\ pc'.env = OldEnv /\ pc'.env # None /\ Served(pc, pc')
         /\ pc'.started \in {None, OldEnv}
         /\ UnfitPg = {} /\ pc.pg # None /\ pc.pg.up => pc'.pg.up
         /\ pc.pg # None /\ pc.pg.up /\ pc.pg.port = job.port =>
              LET value == IF job.value.pg = job.was.value.pg THEN pc.pg.value ELSE job.was.value.pg
              IN /\ pc'.pg.value = value
                 /\ value \notin UnfitPg => pc'.pg.up
                 /\ /\ pc.unit /\ pc.programs /\ value \notin UnfitPg
                    /\ job.flavor = "clickhouse" => pc.ch # None
                    => pc'.started = OldEnv
<1> DEFINE h == Halted(pc)
           old == [h EXCEPT !.env = OldEnv]
<1>1. pc \in Computer /\ job \in Job
  BY StepFacts DEF PutBack
<1>2. OldEnv \in Env
  BY <1>1 DEF OldEnv, EnvFile, Job, Env, Value
<1>3. OldEnv # None /\ OldEnv.flavor = job.flavor /\ OldEnv \in Env
  BY <1>2, NoneAssumption DEF OldEnv, EnvFile, Job
<1>4. pc' = Restored(pc) /\ End("undone")
  BY DEF PutBack
<1>5. h \in Computer /\ h.pg = pc.pg /\ h.ch = pc.ch /\ Files(pc, h) /\ h.started = None
  BY <1>1, HaltedIs
<1>6. Restored(pc) = IF job.value.pg = job.was.value.pg THEN Launched(old)
                     ELSE IF Sql(pc, job.port) THEN Launched(Tuned(old, job.was.value.pg))
                     ELSE old
  BY DEF Restored
<1> HIDE DEF h
<1>7. /\ old \in Computer /\ old.pg = pc.pg /\ old.ch = pc.ch /\ old.env = OldEnv /\ old.unit = pc.unit
      /\ old.programs = pc.programs /\ old.record = pc.record /\ old.started = None
  BY <1>3, <1>5 DEF Computer, Files
<1> HIDE DEF old
<1>8. CASE job.value.pg = job.was.value.pg
  <2> DEFINE l == Launched(old)
  <2>1. pc' = l
    BY <1>4, <1>6, <1>8
  <2>2. /\ l.ch = old.ch /\ Files(old, l) /\ Served(old, l)
        /\ old.pg # None => l.pg.value = old.pg.value /\ (old.pg.up => l.pg.up)
        /\ IF CanLaunch(old) THEN l.started = old.env ELSE l = old
    BY <1>7, LaunchedIs
  <2> HIDE DEF l
  <2> QED BY <1>3, <1>4, <1>7, <1>8, <2>1, <2>2 DEF Files, Served, CanLaunch
<1>9. CASE job.value.pg # job.was.value.pg /\ Sql(pc, job.port)
  <2> DEFINE t == Tuned(old, job.was.value.pg)
             l == Launched(t)
  <2>1. pc' = l
    BY <1>4, <1>6, <1>9
  <2>2. old.pg # None /\ job.was.value.pg \in Nat
    BY <1>1, <1>7, <1>9 DEF Sql, Job, Value
  <2>3. /\ t \in Computer /\ t.ch = old.ch /\ Files(old, t) /\ Served(old, t)
        /\ t.pg.value = job.was.value.pg /\ (t.pg.up <=> job.was.value.pg \notin UnfitPg)
        /\ t.started = None
    BY <1>7, <2>2, TunedIs
  <2> HIDE DEF t
  <2>4. /\ l.ch = t.ch /\ Files(t, l) /\ Served(t, l)
        /\ t.pg # None => l.pg.value = t.pg.value /\ (t.pg.up => l.pg.up)
        /\ IF CanLaunch(t) THEN l.started = t.env ELSE l = t
    BY <2>3, LaunchedIs
  <2> HIDE DEF l
  <2> QED BY <1>3, <1>4, <1>7, <1>9, <2>1, <2>2, <2>3, <2>4 DEF Files, Served, CanLaunch
<1>10. CASE job.value.pg # job.was.value.pg /\ ~Sql(pc, job.port)
  <2>1. pc' = old
    BY <1>4, <1>6, <1>10
  <2> QED BY <1>3, <1>4, <1>7, <1>10, <2>1 DEF Served, Sql
<1> QED BY <1>8, <1>9, <1>10

LEMMA RemovePlatformIs ==
  ASSUME Inv, RemovePlatform
  PROVE  /\ Goes /\ ~pc'.unit /\ ~pc'.programs /\ pc'.env = None /\ pc'.started = None /\ pc'.pg = pc.pg
         /\ pc'.ch = pc.ch /\ pc'.record = pc.record
<1>1. pc' = [pc EXCEPT !.unit = FALSE, !.programs = FALSE, !.env = None, !.started = None] /\ Goes
  BY DoesIs DEF RemovePlatform
<1> QED BY <1>1 DEF Inv, Computer

LEMMA DropDatabasesIs ==
  ASSUME Inv, DropDatabases
  PROVE  /\ Files(pc, pc') /\ pc'.started = pc.started
         /\ at' = Following /\ UNCHANGED <<job, last>>
         /\ pc.pg = None <=> pc'.pg = None
         /\ pc.pg # None => Server(pc, pc')
<1> DEFINE reached == Sql(pc, job.port)
<1>1. pc \in Computer /\ 0 \in Name
  BY StepFacts DEF DropDatabases
<1>2. /\ pc' = [pc EXCEPT !.pg = IF reached THEN Dropped(@) ELSE @, !.ch = DroppedClickhouse(@)]
      /\ at' = Following /\ UNCHANGED <<job, last>>
  BY DEF DropDatabases
<1>3. /\ Files(pc, pc') /\ pc'.started = pc.started
      /\ pc'.pg = IF reached THEN Dropped(pc.pg) ELSE pc.pg
  BY <1>1, <1>2 DEF Computer, Files
<1>4. CASE reached
  <2> DEFINE d == Dropped(pc.pg)
  <2>1. pc.pg # None /\ pc.pg \in Postgres
    BY <1>1, <1>4 DEF Sql, Computer
  <2>2. d.dbs = [pc.pg.dbs EXCEPT ![0] = None] /\ d.port = pc.pg.port /\ d.up = pc.pg.up /\ d.value = pc.pg.value
        /\ d.role \in {0, pc.pg.role}
    BY <2>1 DEF Dropped, Postgres
  <2>5. d \in Postgres
    BY <2>1 DEF Dropped, Postgres
  <2> HIDE DEF d
  <2>6. d # None
    BY <2>5, NoneAssumption
  <2> QED BY <1>2, <1>3, <1>4, <2>1, <2>2, <2>6 DEF Server, d
<1>5. CASE ~reached
  BY <1>2, <1>3, <1>5 DEF Server
<1> QED BY <1>4, <1>5

LEMMA RemoveRecordIs ==
  ASSUME Inv, RemoveRecord
  PROVE  /\ Goes /\ pc'.record = None /\ pc'.pg = pc.pg /\ pc'.ch = pc.ch /\ pc'.programs = pc.programs
         /\ pc'.unit = pc.unit /\ pc'.env = pc.env /\ pc'.started = pc.started
<1>1. pc' = [pc EXCEPT !.record = None] /\ Goes
  BY DoesIs DEF RemoveRecord
<1> QED BY <1>1 DEF Inv, Computer

(* Which jobs a step is of.                                                *)
LEMMA StepKinds ==
  ASSUME job.kind \in Kinds, at \in ToSet(Paths[job.kind])
  PROVE  /\ at \in {"packages", "port", "clickhouse", "role", "kept", "admin"} => job.kind = "install"
         /\ at \in ToSet(DeploySteps) \ {"env"} => job.kind \in {"install", "repair"}
         /\ at = "env" => job.kind \in {"install", "repair", "settings"}
         /\ at = "record" => job.kind \in {"install", "settings"}
         /\ at = "reissue" => job.kind = "repair"
         /\ at \in {"stop", "alter", "launch", "answer", "back"} => job.kind = "settings"
         /\ at \in {"remove", "unrecord"} => job.kind \in {"uninstall", "delete"}
         /\ at = "drop" => job.kind = "delete"
<1>1. /\ Len(DeploySteps) = 8 /\ DOMAIN DeploySteps = 1..8 /\ DeploySteps[1] = "programs" /\ DeploySteps[2] = "create"
      /\ DeploySteps[3] = "chuser" /\ DeploySteps[4] = "env" /\ DeploySteps[5] = "schema"
      /\ DeploySteps[6] = "partition" /\ DeploySteps[7] = "unit" /\ DeploySteps[8] = "serve"
  BY DEF DeploySteps
<1>2. ToSet(DeploySteps) = {"programs", "create", "chuser", "env", "schema", "partition", "unit", "serve"}
  BY <1>1 DEF ToSet
<1>3. CASE job.kind = "install"
  <2>1. PICK n \in 1..15 : at = Paths["install"][n]
    BY <1>3, InstallSteps, Zenon DEF ToSet
  <2> QED BY <1>2, <1>3, <2>1, InstallSteps
<1>4. CASE job.kind = "repair"
  <2>1. PICK n \in 1..9 : at = Paths["repair"][n]
    BY <1>4, RepairSteps, Zenon DEF ToSet
  <2> QED BY <1>2, <1>4, <2>1, RepairSteps
<1>5. CASE job.kind = "settings"
  <2>1. PICK n \in 1..7 : at = Paths["settings"][n]
    BY <1>5, OtherSteps, Zenon DEF ToSet
  <2> QED BY <1>2, <1>5, <2>1, OtherSteps
<1>6. CASE job.kind = "uninstall"
  <2>1. PICK n \in 1..2 : at = Paths["uninstall"][n]
    BY <1>6, OtherSteps, Zenon DEF ToSet
  <2> QED BY <1>2, <1>6, <2>1, OtherSteps
<1>7. CASE job.kind = "delete"
  <2>1. PICK n \in 1..3 : at = Paths["delete"][n]
    BY <1>7, OtherSteps, Zenon DEF ToSet
  <2> QED BY <1>2, <1>7, <2>1, OtherSteps
<1> QED BY <1>3, <1>4, <1>5, <1>6, <1>7, KindsAre

LEMMA DeployIs == ToSet(DeploySteps) = {"programs", "create", "chuser", "env", "schema", "partition", "unit", "serve"}
<1>1. /\ Len(DeploySteps) = 8 /\ DOMAIN DeploySteps = 1..8 /\ DeploySteps[1] = "programs" /\ DeploySteps[2] = "create"
      /\ DeploySteps[3] = "chuser" /\ DeploySteps[4] = "env" /\ DeploySteps[5] = "schema"
      /\ DeploySteps[6] = "partition" /\ DeploySteps[7] = "unit" /\ DeploySteps[8] = "serve"
  BY DEF DeploySteps
<1> QED BY <1>1 DEF ToSet

(* What starts and stops SENTIENT, half-done work, and what is lost.       *)
LEMMA ControlIs ==
  ASSUME Inv, Reboot \/ \E run \in BOOLEAN : Control(run)
  PROVE  /\ at = "idle" /\ UNCHANGED <<at, job>> /\ last' = Nothing /\ pc'.ch = pc.ch /\ Files(pc, pc')
         /\ Served(pc, pc') /\ (pc.pg # None => pc'.pg.value = pc.pg.value)
         /\ pc.pg # None /\ pc.pg.up /\ pc.pg.value \notin UnfitPg => pc'.pg.up
         /\ pc'.started \in {None, pc.started, pc.env}
<1>1. pc \in Computer
  BY DEF Inv
<1>2. CASE Reboot
  <2> DEFINE pg == [pc.pg EXCEPT !.up = pc.pg.value \notin UnfitPg]
             q == [pc EXCEPT !.pg.up = pc.pg.value \notin UnfitPg]
             h == Halted(q)
  <2>1. /\ pc.pg # None /\ pc' = Launched(h)
        /\ at = "idle" /\ UNCHANGED <<at, job>> /\ last' = Nothing
    BY <1>2 DEF Reboot, Happens, Change
  <2>2. pc.pg \in Postgres
    BY <1>1, <2>1 DEF Computer
  <2>3. q.pg = pg /\ q = [pc EXCEPT !.pg = pg]
    BY <1>1 DEF Computer
  <2>4. /\ pg \in Postgres /\ pg.dbs = pc.pg.dbs /\ pg.role = pc.pg.role /\ pg.port = pc.pg.port
        /\ pg.value = pc.pg.value /\ (pg.up <=> pc.pg.value \notin UnfitPg)
    BY <2>2 DEF Postgres
  <2> HIDE DEF pg
  <2>5. q \in Computer /\ q.ch = pc.ch /\ Files(pc, q) /\ q.pg = pg
    BY <1>1, <2>3, <2>4 DEF Computer, Files
  <2>6. pg # None
    BY <2>4, NoneAssumption
  <2> HIDE DEF q
  <2>7. h \in Computer /\ h.pg = q.pg /\ h.ch = q.ch /\ Files(q, h) /\ h.started = None
    BY <2>5, HaltedIs
  <2> HIDE DEF h
  <2>8. /\ pc'.ch = h.ch /\ Files(h, pc') /\ Served(h, pc')
        /\ h.pg # None => pc'.pg.value = h.pg.value /\ (h.pg.up => pc'.pg.up)
        /\ pc'.started \in {None, h.env}
    BY <2>1, <2>7, LaunchedIs
  <2> QED BY <2>1, <2>4, <2>5, <2>6, <2>7, <2>8 DEF Files, Served
<1>3. CASE \E run \in BOOLEAN : Control(run)
  <2>1. /\ pc' = Launched(pc) \/ pc' = Halted(pc)
        /\ at = "idle" /\ UNCHANGED <<at, job>> /\ last' = Nothing
    BY <1>3 DEF Control, Happens, Change
  <2>2. CASE pc' = Launched(pc)
    BY <1>1, <2>1, <2>2, LaunchedIs
  <2>3. CASE pc' = Halted(pc)
    BY <1>1, <2>1, <2>3, HaltedIs DEF Served
  <2> QED BY <2>1, <2>2, <2>3
<1> QED BY <1>2, <1>3

LEMMA LoseIs ==
  ASSUME Inv, NEW what \in {"env", "unit", "programs", "record"}, Lose(what)
  PROVE  /\ at = "idle" /\ UNCHANGED <<at, job>> /\ last' = Nothing
         /\ pc'.ch = pc.ch /\ pc'.pg = pc.pg /\ pc'.started = pc.started
         /\ pc'.env = (IF what = "env" THEN None ELSE pc.env)
         /\ pc'.record = (IF what = "record" THEN None ELSE pc.record)
         /\ pc'.unit => pc.unit
<1> DEFINE q == [pc EXCEPT ![what] = IF what \in {"env", "record"} THEN None ELSE FALSE]
<1>1. pc' = q /\ at = "idle" /\ UNCHANGED <<at, job>> /\ last' = Nothing
  BY DEF Lose, Happens, Change
<1>2. pc \in Computer
  BY DEF Inv
<1>3. /\ q.ch = pc.ch /\ q.pg = pc.pg /\ q.started = pc.started
      /\ q.env = (IF what = "env" THEN None ELSE pc.env)
      /\ q.record = (IF what = "record" THEN None ELSE pc.record)
      /\ q.unit => pc.unit
  <2>1. CASE what = "env"
    BY <1>2, <2>1 DEF Computer
  <2>2. CASE what = "record"
    BY <1>2, <2>2 DEF Computer
  <2>3. CASE what = "unit"
    BY <1>2, <2>3 DEF Computer
  <2>4. CASE what = "programs"
    BY <1>2, <2>4 DEF Computer
  <2> QED BY <2>1, <2>2, <2>3, <2>4
<1> HIDE DEF q
<1> QED BY <1>1, <1>3

LEMMA AdoptIs ==
  ASSUME Inv, Adopt
  PROVE  /\ at = "idle" /\ UNCHANGED <<at, job>> /\ last' = Nothing /\ Candidate /\ Verified
         /\ pc'.ch = pc.ch /\ pc'.pg = pc.pg /\ pc'.started = pc.started /\ pc'.env = pc.env /\ pc'.unit = pc.unit
         /\ pc'.programs = pc.programs /\ pc'.record = Found
<1>1. pc' = [pc EXCEPT !.record = Found] /\ at = "idle" /\ UNCHANGED <<at, job>> /\ last' = Nothing
      /\ Candidate /\ Verified
  BY DEF Adopt, Change
<1> QED BY <1>1 DEF Inv, Computer

LEMMA TornIs ==
  ASSUME Inv, at # "idle", pc' = Torn(at)
  PROVE  /\ pc'.ch = pc.ch /\ pc'.env = pc.env /\ pc'.record = pc.record /\ pc'.programs = pc.programs
         /\ pc'.unit = pc.unit \/ (at = "unit" /\ pc'.unit) \/ (at = "remove" /\ ~pc'.unit)
         /\ pc'.started \in {None, pc.started}
         /\ at \notin {"unit", "remove"} => pc'.started = pc.started
         /\ pc.pg = None <=> pc'.pg = None
         /\ pc.pg # None => Server(pc, pc') /\ pc'.pg.dbs = pc.pg.dbs
         /\ at # "reissue" => pc'.pg = pc.pg
<1>1. pc \in Computer /\ Generated \in Nat
  BY StepFacts, LinuxSetupAssumption DEF Inv, JobOK, Generated
<1>2. CASE at = "reissue" /\ Sql(pc, job.port) /\ pc.pg.role # 0
  <2> DEFINE pg == [pc.pg EXCEPT !.role = Generated]
  <2>1. pc.pg # None /\ pc.pg \in Postgres
    BY <1>1, <1>2 DEF Sql, Computer
  <2>2. pc' = [pc EXCEPT !.pg.role = Generated]
    BY <1>2 DEF Torn
  <2>3. /\ pc'.pg = pg /\ pc'.ch = pc.ch /\ pc'.env = pc.env /\ pc'.record = pc.record
        /\ pc'.programs = pc.programs /\ pc'.unit = pc.unit /\ pc'.started = pc.started
    BY <1>1, <2>2 DEF Computer
  <2>4. /\ pg \in Postgres /\ pg.dbs = pc.pg.dbs /\ pg.port = pc.pg.port /\ pg.up = pc.pg.up
        /\ pg.value = pc.pg.value
    BY <1>1, <2>1 DEF Postgres
  <2> HIDE DEF pg
  <2>5. pg # None
    BY <2>4, NoneAssumption
  <2> QED BY <1>2, <2>1, <2>3, <2>4, <2>5 DEF Server
<1>3. CASE at = "unit"
  <2> DEFINE h == Halted(pc)
  <2>1. pc' = [h EXCEPT !.unit = TRUE]
    BY <1>3 DEF Torn
  <2>2. h \in Computer /\ h.pg = pc.pg /\ h.ch = pc.ch /\ Files(pc, h) /\ h.started = None
    BY <1>1, HaltedIs
  <2> HIDE DEF h
  <2> QED BY <1>3, <2>1, <2>2 DEF Computer, Files, Server
<1>4. CASE at = "remove"
  <2> DEFINE h == Halted(pc)
  <2>1. pc' = [h EXCEPT !.unit = FALSE]
    BY <1>4 DEF Torn
  <2>2. h \in Computer /\ h.pg = pc.pg /\ h.ch = pc.ch /\ Files(pc, h) /\ h.started = None
    BY <1>1, HaltedIs
  <2> HIDE DEF h
  <2> QED BY <1>4, <2>1, <2>2 DEF Computer, Files, Server
<1>5. CASE at \notin {"unit", "remove"} /\ ~(at = "reissue" /\ Sql(pc, job.port) /\ pc.pg.role # 0)
  <2>1. pc' = pc
    BY <1>5 DEF Torn
  <2> QED BY <2>1 DEF Server
<1> QED BY <1>2, <1>3, <1>4, <1>5

----------------------------------------------------------------------------
(* Passwords.                                                              *)

(* PostgreSQL and ClickHouse take the passwords SENTIENT is given.         *)
Take(p, told) ==
  /\ p.pg # None /\ told.pw # 0 /\ p.pg.role = told.pw
  /\ told.flavor = "clickhouse" => p.ch # None /\ p.ch.user = told.chpw
(* What the environment file says where it can be used again: by the unit  *)
(* and, once there is a record, by every job.                              *)
UnitOK(p) == p.unit /\ p.env # None => p.pg # None /\ p.env.pw # 0 /\ p.pg.role = p.env.pw
RecordOK(p) ==
  p.record # None =>
    /\ p.pg # None
    /\ p.env # None => p.env.flavor = p.record.flavor /\ Take(p, p.env)

(* What every try of an installation leaves the next one.                  *)
Tried(p, j) ==
  /\ p.record = None /\ j.pw # 0 /\ j.value = DefaultValue
  /\ p.unit => p.env # None /\ p.env.pw = j.pw
  /\ j.existing = "none" => p.pg = None \/ p.pg.role \in {0, j.pw}
AfterEnv == {"schema", "partition", "unit", "serve", "admin", "record"}
AfterCreate == {"chuser", "env"} \union AfterEnv
Installs(p, a, j) ==
  /\ Tried(p, j)
  /\ a \notin {"packages", "port"} => Sql(p, j.port)
  /\ a \in {"kept", "programs", "create"} => p.pg.role \in {0, j.pw}
  /\ a \in AfterCreate => p.pg.role = j.pw
  /\ a \in AfterEnv => p.env = EnvFile(j)
  /\ a \in {"serve", "admin", "record"} => p.unit
  /\ a = "serve" => p.started = p.env
  /\ a \in {"admin", "record"} => Take(p, j)
Manages(p, a, j) ==
  /\ p.record # None /\ j.flavor = p.record.flavor
  /\ a = "reissue" => p.env = None
  /\ (j.kind = "repair" /\ a # "reissue") \/ j.kind = "settings" => Take(p, j)
  /\ j.kind \in {"uninstall", "delete"} /\ a # "remove" => p.env = None
PasswordsFit(p, a, j) ==
  /\ UnitOK(p) /\ RecordOK(p)
  /\ j.kind = "install" => Installs(p, a, j)
  /\ a # "idle" /\ j.kind # "install" => Manages(p, a, j)
TriedAgain == {"failed", "refused", "stuck"}
PasswordsOK ==
  /\ PasswordsFit(pc, at, job)
  /\ at # "idle" => last = Nothing
  /\ last.job.kind = "install" /\ last.end \in TriedAgain => Tried(pc, last.job)

LEMMA PasswordsPrimed ==
  ASSUME NEW p, NEW a, NEW j, pc' = p, at' = a, job' = j, PasswordsFit(p, a, j)
  PROVE  PasswordsFit(pc, at, job)'
<1>1. Tried(p, j) => Tried(pc, job)'
  BY Zenon DEF Tried
<1>2. Take(p, j) => Take(pc, job)'
  BY Zenon DEF Take
<1>3. UnitOK(pc)'
  BY Zenon DEF PasswordsFit, UnitOK
<1>4. RecordOK(pc)'
  BY Zenon DEF PasswordsFit, RecordOK, Take
<1>5. Installs(p, a, j) => Installs(pc, at, job)'
  BY <1>1, <1>2 DEF Installs, Sql, EnvFile
<1>6. Manages(p, a, j) => Manages(pc, at, job)'
  BY <1>2 DEF Manages
<1> QED BY <1>3, <1>4, <1>5, <1>6 DEF PasswordsFit

LEMMA TriedPrimed ==
  ASSUME NEW p, NEW j, pc' = p, last'.job = j, Tried(p, j)
  PROVE  Tried(pc, last.job)'
BY Zenon DEF Tried

(* What a step that does not touch the passwords leaves as it was.         *)
LEMMA SamePasswords ==
  ASSUME NEW p, NEW q, q.unit = p.unit, q.env = p.env, q.record = p.record,
         IF p.pg = None THEN q.pg = None \/ q.pg.role = 0 ELSE q.pg # None /\ q.pg.role = p.pg.role,
         p.ch # None => q.ch # None /\ q.ch.user = p.ch.user
  PROVE  /\ UnitOK(p) => UnitOK(q)
         /\ RecordOK(p) => RecordOK(q)
         /\ \A j : Tried(p, j) => Tried(q, j)
         /\ \A j : Take(p, j) => Take(q, j)
         /\ \A j, a : Manages(p, a, j) => Manages(q, a, j)
<1>1. \A j : Take(p, j) => Take(q, j)
  BY DEF Take
<1>2. UnitOK(p) => UnitOK(q)
  BY DEF UnitOK
<1>3. \A j : Tried(p, j) => Tried(q, j)
  BY DEF Tried
<1>4. RecordOK(p) => RecordOK(q)
  BY <1>1 DEF RecordOK
<1>5. \A j, a : Manages(p, a, j) => Manages(q, a, j)
  BY <1>1 DEF Manages
<1> QED BY <1>1, <1>2, <1>3, <1>4, <1>5

(* How a job goes on and stops.                                            *)
LEMMA JobFacts ==
  ASSUME Inv, PasswordsOK, at # "idle"
  PROVE  /\ UnitOK(pc) /\ RecordOK(pc) /\ last = Nothing
         /\ job.kind = "install" => Installs(pc, at, job) /\ Tried(pc, job)
         /\ job.kind # "install" => Manages(pc, at, job)
         /\ job \in Job /\ job.kind \in Kinds /\ at \in ToSet(Paths[job.kind])
         /\ job.kind = "install" /\ at # "record" => ~Ends
BY StepFacts, Lasts DEF PasswordsOK, PasswordsFit, Ends, Installs

LEMMA EndPasswords ==
  ASSUME Inv, PasswordsOK, NEW how, End(how), UnitOK(pc'), RecordOK(pc'),
         job.kind = "install" /\ how \in TriedAgain => Tried(pc', job)
  PROVE  PasswordsOK'
<1>1. at' = "idle" /\ job' = NoJob /\ last' = [end |-> how, job |-> job]
  BY DEF End
<1>2. last'.end = how /\ last'.job = job /\ job'.kind = "none"
  BY <1>1 DEF NoJob
<1>3. PasswordsFit(pc, at, job)'
  <2>1. PasswordsFit(pc', at', job')
    BY <1>1, <1>2 DEF PasswordsFit
  <2> QED BY <2>1, PasswordsPrimed
<1>4. last'.job.kind = "install" /\ last'.end \in TriedAgain => Tried(pc, last.job)'
  BY <1>2, TriedPrimed
<1> QED BY <1>1, <1>3, <1>4 DEF PasswordsOK, TriedAgain

LEMMA GoesPasswords ==
  ASSUME Inv, PasswordsOK, at # "idle", NEW next, at' = next, next # "idle", UNCHANGED last,
         UnitOK(pc'), RecordOK(pc'),
         job'.kind = "install" => Installs(pc', next, job'),
         job'.kind # "install" => Manages(pc', next, job')
  PROVE  PasswordsOK'
<1>1. last' = Nothing
  BY JobFacts
<1>2. PasswordsFit(pc', at', job')
  BY DEF PasswordsFit
<1>3. PasswordsFit(pc, at, job)'
  BY <1>2, PasswordsPrimed
<1>4. last'.job.kind # "install"
  BY <1>1 DEF Nothing, NoJob
<1> QED BY <1>1, <1>3, <1>4, Zenon DEF PasswordsOK

LEMMA InstallGoes ==
  ASSUME Inv, PasswordsOK, at # "idle", job.kind = "install", at # "record", Goes,
         UnitOK(pc'), RecordOK(pc'), Installs(pc', Following, job)
  PROVE  PasswordsOK'
<1>1. at' = Following /\ UNCHANGED <<job, last>>
  BY JobFacts DEF Goes
<1>2. Following # "idle"
  <2>1. at # Last(Paths[job.kind]) /\ job.kind \in Kinds /\ at \in ToSet(Paths[job.kind])
    BY JobFacts DEF Ends
  <2> QED BY <2>1, FollowingIs, OwnSteps
<1> QED BY <1>1, <1>2, GoesPasswords

LEMMA ManagedGoes ==
  ASSUME Inv, PasswordsOK, job.kind \in {"repair", "settings"}, at \notin {"idle", "reissue"}, Goes,
         UnitOK(pc'), RecordOK(pc'), Manages(pc', at, job)
  PROVE  PasswordsOK'
<1>1. CASE Ends
  BY <1>1, EndPasswords DEF Goes
<1>2. CASE ~Ends
  <2>1. at' = Following /\ UNCHANGED <<job, last>>
    BY <1>2 DEF Goes
  <2>2. at # Last(Paths[job.kind]) /\ job.kind \in Kinds /\ at \in ToSet(Paths[job.kind])
    BY <1>2, JobFacts DEF Ends
  <2>3. Following # "idle" /\ Following \in ToSet(Paths[job.kind])
    BY <2>2, FollowingIs, OwnSteps
  <2>4. Following # "reissue"
    <3>1. CASE job.kind = "repair"
      BY <2>2, <3>1, RepairNext, Lasts
    <3>2. CASE job.kind = "settings"
      BY <2>2, <2>3, <3>2, OwnSteps
    <3> QED BY <3>1, <3>2
  <2>5. Manages(pc', Following, job)
    BY <2>4 DEF Manages
  <2> QED BY <2>1, <2>3, <2>5, GoesPasswords
<1> QED BY <1>1, <1>2

LEMMA StopsPasswords ==
  ASSUME Inv, PasswordsOK, at # "idle", NEW how, Stops(how), UnitOK(pc'), RecordOK(pc'),
         job.kind = "install" => Tried(pc', job),
         job.kind = "settings" => Manages(pc', at, job)
  PROVE  PasswordsOK'
<1>1. CASE PutsBack
  <2>1. at' = "back" /\ UNCHANGED <<job, last>> /\ job.kind = "settings"
    BY <1>1 DEF Stops, PutsBack
  <2>2. Manages(pc', "back", job)
    BY <2>1 DEF Manages
  <2> QED BY <2>1, <2>2, GoesPasswords
<1>2. CASE ~PutsBack
  BY <1>2, EndPasswords DEF Stops
<1> QED BY <1>1, <1>2

LEMMA SameStops ==
  ASSUME Inv, PasswordsOK, at # "idle", NEW how, Stops(how), pc' = pc
  PROVE  PasswordsOK'
BY JobFacts, StopsPasswords

LEMMA StuckPasswords ==
  ASSUME Inv, PasswordsOK, at # "idle", Stuck
  PROVE  PasswordsOK'
BY SameStops DEF Stuck

(* The steps of setup.                                                     *)
LEMMA SetupPasswords ==
  ASSUME Inv, PasswordsOK, InstallPackages \/ SetPort \/ InstallClickhouse
  PROVE  PasswordsOK'
<1>1. at \in {"packages", "port", "clickhouse"} /\ at # "idle"
  BY DEF InstallPackages, SetPort, InstallClickhouse
<1>2. /\ job.kind = "install" /\ UnitOK(pc) /\ RecordOK(pc) /\ Tried(pc, job) /\ Installs(pc, at, job)
      /\ at \in ToSet(Paths["install"])
  BY <1>1, JobFacts, StepKinds
<1>3. /\ at = "packages" => Following = "port"
      /\ at \in {"port", "clickhouse"} =>
           Following \in {"clickhouse", "role"} \/ (Following = "programs" /\ job.existing = "none")
  BY <1>1, <1>2, InstallNext
<1>4. CASE InstallPackages
  <2>1. /\ Goes /\ Files(pc, pc') /\ pc'.ch = pc.ch /\ pc'.pg # None /\ at = "packages"
        /\ pc.pg = None => pc'.pg.role = 0
        /\ pc.pg # None => Served(pc, pc')
    BY <1>4, InstallPackagesIs DEF InstallPackages
  <2>2. UnitOK(pc') /\ RecordOK(pc') /\ Tried(pc', job)
    BY <1>2, <2>1, SamePasswords DEF Files, Served
  <2>3. Installs(pc', "port", job)
    BY <2>2 DEF Installs, AfterEnv, AfterCreate
  <2> QED BY <1>2, <1>3, <2>1, <2>2, <2>3, InstallGoes
<1>5. CASE SetPort
  <2>1. at = "port" /\ job.value.pg = 0 /\ 0 \notin UnfitPg
    BY <1>2, <1>5, LinuxSetupAssumption DEF SetPort, Tried, DefaultValue
  <2>2. CASE Stuck
    BY <1>1, <2>2, StuckPasswords
  <2>3. CASE Sql(pc, DefaultPort)
    <3>1. /\ Goes /\ Files(pc, pc') /\ pc'.ch = pc.ch /\ pc.pg # None /\ pc'.pg # None
          /\ pc'.pg.role = pc.pg.role /\ pc'.pg.port = job.port /\ pc'.pg.up
      BY <1>5, <2>1, <2>3, SetPortIs
    <3>2. UnitOK(pc') /\ RecordOK(pc') /\ Tried(pc', job)
      BY <1>2, <3>1, SamePasswords DEF Files
    <3>3. Sql(pc', job.port)
      BY <3>1 DEF Sql
    <3>4. job.existing = "none" => pc'.pg.role \in {0, job.pw}
      BY <3>1, <3>2 DEF Tried
    <3>5. Installs(pc', Following, job)
      BY <1>3, <2>1, <3>2, <3>3, <3>4 DEF Installs, AfterEnv, AfterCreate
    <3> QED BY <1>2, <2>1, <3>1, <3>2, <3>5, InstallGoes
  <2> QED BY <1>5, <2>2, <2>3, SetPortIs
<1>6. CASE InstallClickhouse
  <2>1. /\ Goes /\ Files(pc, pc') /\ pc'.pg = pc.pg /\ at = "clickhouse"
        /\ pc'.ch # None /\ (pc.ch # None => pc'.ch = pc.ch)
    BY <1>6, InstallClickhouseIs DEF InstallClickhouse
  <2>2. UnitOK(pc') /\ RecordOK(pc') /\ Tried(pc', job)
    BY <1>2, <2>1, SamePasswords DEF Files
  <2>3. Sql(pc, job.port) /\ Sql(pc', job.port) /\ pc.pg # None
    BY <1>2, <2>1 DEF Installs, Sql
  <2>4. job.existing = "none" => pc'.pg.role \in {0, job.pw}
    BY <2>1, <2>2, <2>3 DEF Tried
  <2>5. Installs(pc', Following, job)
    BY <1>3, <2>1, <2>2, <2>3, <2>4 DEF Installs, AfterEnv, AfterCreate
  <2> QED BY <1>2, <2>1, <2>2, <2>5, InstallGoes
<1> QED BY <1>4, <1>5, <1>6

(* prepare_existing: the role takes the new installation's password.       *)
LEMMA PreparePasswords ==
  ASSUME Inv, PasswordsOK, SyncRole \/ PrepareExisting
  PROVE  PasswordsOK'
<1>1. at \in {"role", "kept"} /\ at # "idle"
  BY DEF SyncRole, PrepareExisting
<1>2. /\ job.kind = "install" /\ UnitOK(pc) /\ RecordOK(pc) /\ Tried(pc, job) /\ Installs(pc, at, job)
      /\ at \in ToSet(Paths["install"])
  BY <1>1, JobFacts, StepKinds
<1>3. /\ at = "role" => Following \in {"kept", "programs"}
      /\ at = "kept" => Following = "programs"
  BY <1>1, <1>2, InstallNext
<1>4. CASE Stuck
  BY <1>1, <1>4, StuckPasswords
<1>5. CASE SyncRole /\ Sql(pc, job.port)
  <2>1. /\ Goes /\ Files(pc, pc') /\ pc'.ch = pc.ch /\ Server(pc, pc') /\ at = "role" /\ pc.pg # None
        /\ pc'.pg.role = (IF pc.pg.role = 0 THEN 0 ELSE job.pw)
    BY <1>5, SyncRoleIs DEF SyncRole, Sql
  <2>2. RecordOK(pc') /\ Tried(pc', job)
    BY <1>2, <2>1 DEF RecordOK, Tried, Files, Server
  <2>3. UnitOK(pc')
    BY <1>2, <2>1 DEF UnitOK, Tried, Files, Server
  <2>4. Sql(pc', job.port) /\ pc'.pg.role \in {0, job.pw}
    BY <1>5, <2>1 DEF Sql, Server
  <2>5. Installs(pc', Following, job)
    BY <1>3, <2>1, <2>2, <2>4 DEF Installs, AfterEnv, AfterCreate
  <2> QED BY <1>2, <2>1, <2>2, <2>3, <2>5, InstallGoes
<1>6. CASE PrepareExisting /\ pc' = pc /\ Stops("refused")
  BY <1>1, <1>6, SameStops
<1>7. CASE PrepareExisting /\ Sql(pc, job.port) /\ Goes /\ Files(pc, pc') /\ pc'.ch = pc.ch /\ Server(pc, pc')
           /\ pc'.pg.role = pc.pg.role
  <2>1. at = "kept" /\ pc.pg # None
    BY <1>7 DEF PrepareExisting, Sql
  <2>2. UnitOK(pc') /\ RecordOK(pc') /\ Tried(pc', job)
    BY <1>2, <1>7, <2>1, SamePasswords DEF Files, Server
  <2>3. Sql(pc', job.port) /\ pc'.pg.role \in {0, job.pw}
    BY <1>2, <1>7, <2>1 DEF Sql, Server, Installs
  <2>4. Installs(pc', Following, job)
    BY <1>3, <2>1, <2>2, <2>3 DEF Installs, AfterEnv, AfterCreate
  <2> QED BY <1>2, <1>7, <2>1, <2>2, <2>4, InstallGoes
<1>8. SyncRole => Stuck \/ Sql(pc, job.port)
  BY SyncRoleIs
<1>9. PrepareExisting => \/ Stuck
                         \/ pc' = pc /\ Stops("refused")
                         \/ Sql(pc, job.port) /\ Goes /\ Files(pc, pc') /\ pc'.ch = pc.ch /\ Server(pc, pc')
                            /\ pc'.pg.role = pc.pg.role
  BY PrepareExistingIs
<1> QED BY <1>4, <1>5, <1>6, <1>7, <1>8, <1>9

(* The steps of deploy, of an installation and of a repair.                *)
LEMMA ProgramsPasswords ==
  ASSUME Inv, PasswordsOK, InstallPrograms
  PROVE  PasswordsOK'
<1>1. at = "programs" /\ at # "idle"
  BY DEF InstallPrograms
<1>2. job.kind \in {"install", "repair"} /\ UnitOK(pc) /\ RecordOK(pc) /\ at \in ToSet(Paths[job.kind])
  BY <1>1, JobFacts, StepKinds, DeployIs
<1>3. CASE Stops("refused") /\ pc' = pc
  BY <1>1, <1>3, SameStops
<1>4. CASE Stuck
  BY <1>1, <1>4, StuckPasswords
<1>5. CASE /\ pc.pg # None /\ Goes /\ pc'.pg = pc.pg /\ pc'.ch = pc.ch /\ pc'.env = pc.env
           /\ pc'.unit = pc.unit /\ pc'.record = pc.record
  <2>1. /\ UnitOK(pc') /\ RecordOK(pc') /\ (Tried(pc, job) => Tried(pc', job))
        /\ Manages(pc, at, job) => Manages(pc', at, job)
    BY <1>2, <1>5, SamePasswords
  <2>2. CASE job.kind = "install"
    <3>1. Following = "create" /\ Installs(pc, at, job) /\ Tried(pc, job)
      BY <1>1, <1>2, <2>2, JobFacts, InstallNext
    <3>2. Installs(pc', "create", job)
      BY <1>1, <1>5, <2>1, <3>1 DEF Installs, AfterEnv, AfterCreate, Sql
    <3> QED BY <1>1, <1>5, <2>1, <2>2, <3>1, <3>2, InstallGoes
  <2>3. CASE job.kind = "repair"
    BY <1>1, <1>5, <2>1, <2>3, JobFacts, ManagedGoes
  <2> QED BY <1>2, <2>2, <2>3
<1> QED BY <1>3, <1>4, <1>5, InstallProgramsIs

LEMMA CreatePasswords ==
  ASSUME Inv, PasswordsOK, Create
  PROVE  PasswordsOK'
<1>1. at = "create" /\ at # "idle"
  BY DEF Create
<1>2. job.kind \in {"install", "repair"} /\ UnitOK(pc) /\ RecordOK(pc) /\ at \in ToSet(Paths[job.kind])
  BY <1>1, JobFacts, StepKinds, DeployIs
<1>3. CASE job.kind = "install"
  <2>1. Following \in {"chuser", "env"} /\ Installs(pc, at, job) /\ Tried(pc, job)
    BY <1>1, <1>2, <1>3, JobFacts, InstallNext
  <2>2. Sql(pc, job.port) /\ pc.pg.role \in {0, job.pw} /\ job.pw # 0 /\ pc.pg # None
    BY <1>1, <2>1 DEF Installs, Tried, Sql
  <2>3. Goes /\ Files(pc, pc') /\ pc'.ch = pc.ch /\ Server(pc, pc') /\ pc'.pg.role = job.pw
    BY <2>2, CreateIs
  <2>4. Tried(pc', job) /\ UnitOK(pc') /\ RecordOK(pc')
    BY <1>2, <2>1, <2>2, <2>3 DEF Tried, UnitOK, RecordOK, Files, Server
  <2>5. Sql(pc', job.port)
    BY <2>2, <2>3 DEF Sql, Server
  <2>6. Installs(pc', Following, job)
    BY <2>1, <2>3, <2>4, <2>5 DEF Installs, AfterEnv, AfterCreate
  <2> QED BY <1>1, <1>3, <2>3, <2>4, <2>6, InstallGoes
<1>4. CASE job.kind = "repair"
  <2>1. Manages(pc, at, job) /\ Take(pc, job)
    BY <1>1, <1>4, JobFacts DEF Manages
  <2>2. /\ Goes /\ Files(pc, pc') /\ pc'.ch = pc.ch /\ pc'.pg # None /\ pc.pg # None
        /\ pc'.pg.role = pc.pg.role
    BY <2>1, CreateIs DEF Take, Server, Files
  <2>3. UnitOK(pc') /\ RecordOK(pc') /\ Manages(pc', at, job)
    BY <1>2, <2>1, <2>2, SamePasswords DEF Files
  <2> QED BY <1>1, <1>4, <2>2, <2>3, ManagedGoes
<1> QED BY <1>2, <1>3, <1>4

LEMMA ProvisionPasswords ==
  ASSUME Inv, PasswordsOK, ProvisionClickhouse
  PROVE  PasswordsOK'
<1>1. at = "chuser" /\ at # "idle"
  BY DEF ProvisionClickhouse
<1>2. job.kind \in {"install", "repair"} /\ UnitOK(pc) /\ RecordOK(pc) /\ at \in ToSet(Paths[job.kind])
  BY <1>1, JobFacts, StepKinds, DeployIs
<1>3. CASE pc.ch = None
  BY <1>1, <1>3, ProvisionClickhouseIs, StuckPasswords
<1>4. CASE pc.ch # None
  <2>1. /\ Goes /\ Files(pc, pc') /\ pc'.pg = pc.pg /\ pc'.ch # None
        /\ pc'.ch.user = (IF pc.ch.user = 0 THEN job.chpw ELSE pc.ch.user)
    BY <1>4, ProvisionClickhouseIs
  <2>2. CASE job.kind = "install"
    <3>1. Following = "env" /\ Installs(pc, at, job) /\ Tried(pc, job)
      BY <1>1, <1>2, <2>2, JobFacts, InstallNext
    <3>2. UnitOK(pc') /\ RecordOK(pc') /\ Tried(pc', job)
      BY <1>2, <2>1, <3>1 DEF UnitOK, RecordOK, Tried, Files
    <3>3. Installs(pc', "env", job)
      BY <1>1, <2>1, <3>1, <3>2 DEF Installs, AfterEnv, AfterCreate, Sql
    <3> QED BY <1>1, <2>1, <2>2, <3>1, <3>2, <3>3, InstallGoes
  <2>3. CASE job.kind = "repair"
    <3>1. Manages(pc, at, job) /\ Take(pc, job)
      BY <1>1, <2>3, JobFacts DEF Manages
    <3>2. Take(pc', job)
      BY <1>4, <2>1, <3>1 DEF Take
    <3>3. Manages(pc', at, job) /\ UnitOK(pc')
      BY <1>1, <1>2, <2>1, <2>3, <3>1, <3>2 DEF Manages, UnitOK, Files
    <3>4. RecordOK(pc')
      BY <1>2, <1>4, <2>1, <3>1 DEF RecordOK, Take, Manages, Files
    <3> QED BY <1>1, <2>1, <2>3, <3>3, <3>4, ManagedGoes
  <2> QED BY <1>2, <2>2, <2>3
<1> QED BY <1>3, <1>4

LEMMA WriteEnvPasswords ==
  ASSUME Inv, PasswordsOK, WriteEnv
  PROVE  PasswordsOK'
<1>1. at = "env" /\ at # "idle"
  BY DEF WriteEnv
<1>2. job.kind \in {"install", "repair", "settings"} /\ UnitOK(pc) /\ RecordOK(pc) /\ at \in ToSet(Paths[job.kind])
  BY <1>1, JobFacts, StepKinds
<1>3. /\ Goes /\ pc'.env = EnvFile(job) /\ pc'.env # None /\ pc'.pg = pc.pg /\ pc'.ch = pc.ch
      /\ pc'.unit = pc.unit /\ pc'.record = pc.record
  BY WriteEnvIs
<1>4. pc'.env.pw = job.pw /\ pc'.env.chpw = job.chpw /\ pc'.env.flavor = job.flavor
  BY <1>3 DEF EnvFile
<1>5. CASE job.kind = "install"
  <2>1. Following = "schema" /\ Installs(pc, at, job) /\ Tried(pc, job)
    BY <1>1, <1>2, <1>5, JobFacts, InstallNext
  <2>2. Sql(pc, job.port) /\ pc.pg.role = job.pw /\ pc.pg # None /\ job.pw # 0
    BY <1>1, <2>1 DEF Installs, AfterCreate, AfterEnv, Sql, Tried
  <2>3. Tried(pc', job) /\ UnitOK(pc') /\ RecordOK(pc')
    BY <1>3, <1>4, <2>1, <2>2 DEF Tried, UnitOK, RecordOK
  <2>4. Installs(pc', "schema", job)
    BY <1>3, <2>2, <2>3 DEF Installs, AfterCreate, AfterEnv, Sql
  <2> QED BY <1>1, <1>3, <1>5, <2>1, <2>3, <2>4, InstallGoes
<1>6. CASE job.kind \in {"repair", "settings"}
  <2>1. Manages(pc, at, job) /\ Take(pc, job)
    BY <1>1, <1>6, JobFacts DEF Manages
  <2>2. Take(pc', job) /\ Take(pc', pc'.env)
    BY <1>3, <1>4, <2>1 DEF Take
  <2>3. Manages(pc', at, job) /\ UnitOK(pc') /\ RecordOK(pc')
    BY <1>1, <1>3, <1>4, <1>6, <2>1, <2>2 DEF Manages, UnitOK, RecordOK, Take
  <2> QED BY <1>1, <1>3, <1>6, <2>3, ManagedGoes
<1> QED BY <1>2, <1>5, <1>6

LEMMA SchemaPasswords ==
  ASSUME Inv, PasswordsOK, InstallSchema \/ Partition
  PROVE  PasswordsOK'
<1>1. at \in {"schema", "partition"} /\ at # "idle" /\ at # "reissue"
  BY DEF InstallSchema, Partition
<1>2. job.kind \in {"install", "repair"} /\ UnitOK(pc) /\ RecordOK(pc) /\ at \in ToSet(Paths[job.kind])
  BY <1>1, JobFacts, StepKinds, DeployIs
<1>3. \/ Stuck
      \/ /\ Goes /\ Files(pc, pc')
         /\ IF pc.pg = None THEN pc'.pg = None ELSE Server(pc, pc') /\ pc'.pg.role = pc.pg.role
         /\ pc.ch # None => pc'.ch # None /\ pc'.ch.user = pc.ch.user
  <2>1. CASE InstallSchema
    BY <2>1, InstallSchemaIs DEF Files, Server, Sql
  <2>2. CASE Partition
    BY <2>2, PartitionIs DEF Files, Server, Sql
  <2> QED BY <2>1, <2>2
<1>4. CASE Stuck
  BY <1>1, <1>4, StuckPasswords
<1>5. CASE /\ Goes /\ Files(pc, pc')
           /\ IF pc.pg = None THEN pc'.pg = None ELSE Server(pc, pc') /\ pc'.pg.role = pc.pg.role
           /\ pc.ch # None => pc'.ch # None /\ pc'.ch.user = pc.ch.user
  <2>1. /\ UnitOK(pc') /\ RecordOK(pc') /\ (Tried(pc, job) => Tried(pc', job))
        /\ Manages(pc, at, job) => Manages(pc', at, job)
    BY <1>2, <1>5, SamePasswords DEF Files, Server
  <2>2. CASE job.kind = "install"
    <3>1. Following \in {"partition", "unit"} /\ Installs(pc, at, job) /\ Tried(pc, job)
      BY <1>1, <1>2, <2>2, JobFacts, InstallNext
    <3>2. Sql(pc, job.port) /\ pc.pg.role = job.pw /\ pc.env = EnvFile(job)
      BY <1>1, <3>1 DEF Installs, AfterCreate, AfterEnv
    <3>3. Sql(pc', job.port) /\ pc'.pg.role = job.pw /\ pc'.env = EnvFile(job)
      BY <1>5, <3>2 DEF Sql, Server, Files
    <3>4. Installs(pc', Following, job)
      BY <2>1, <3>1, <3>3 DEF Installs, AfterCreate, AfterEnv
    <3> QED BY <1>1, <1>5, <2>1, <2>2, <3>4, InstallGoes
  <2>3. CASE job.kind = "repair"
    BY <1>1, <1>5, <2>1, <2>3, JobFacts, ManagedGoes
  <2> QED BY <1>2, <2>2, <2>3
<1> QED BY <1>3, <1>4, <1>5

LEMMA UnitPasswords ==
  ASSUME Inv, PasswordsOK, RegisterUnit
  PROVE  PasswordsOK'
<1>1. at = "unit" /\ at # "idle"
  BY DEF RegisterUnit
<1>2. job.kind \in {"install", "repair"} /\ UnitOK(pc) /\ RecordOK(pc) /\ at \in ToSet(Paths[job.kind])
  BY <1>1, JobFacts, StepKinds, DeployIs
<1>3. /\ pc'.unit /\ pc'.env = pc.env /\ pc'.record = pc.record /\ pc'.ch = pc.ch /\ Served(pc, pc')
      /\ \/ Goes /\ pc'.started = pc.env /\ pc'.pg # None /\ pc'.pg.up
         \/ Stops("stuck")
  BY RegisterUnitIs
<1>4. CASE job.kind = "install"
  <2>1. Following = "serve" /\ Installs(pc, at, job) /\ Tried(pc, job)
    BY <1>1, <1>2, <1>4, JobFacts, InstallNext
  <2>2. /\ pc.env = EnvFile(job) /\ Sql(pc, job.port) /\ pc.pg.role = job.pw /\ job.pw # 0 /\ pc.pg # None
    BY <1>1, <2>1 DEF Installs, AfterCreate, AfterEnv, Sql, Tried
  <2>3. pc.env # None /\ pc.env.pw = job.pw
    <3>1. job \in Job
      BY <1>1, JobFacts
    <3>2. EnvFile(job) \in Env
      BY <3>1 DEF EnvFile, Job, Env, Value
    <3> QED BY <2>2, <3>2, NoneAssumption DEF EnvFile
  <2>4. Tried(pc', job) /\ UnitOK(pc') /\ RecordOK(pc')
    BY <1>3, <2>1, <2>2, <2>3 DEF Tried, UnitOK, RecordOK, Served
  <2>5. CASE Stops("stuck")
    BY <1>1, <1>4, <2>4, <2>5, StopsPasswords
  <2>6. CASE Goes /\ pc'.started = pc.env /\ pc'.pg # None /\ pc'.pg.up
    <3>1. Sql(pc', job.port) /\ pc'.pg.role = job.pw
      BY <1>3, <2>2, <2>6 DEF Sql, Served
    <3>2. Installs(pc', "serve", job)
      BY <1>3, <2>2, <2>4, <2>6, <3>1 DEF Installs, AfterCreate, AfterEnv
    <3> QED BY <1>1, <1>4, <2>1, <2>4, <2>6, <3>2, InstallGoes
  <2> QED BY <1>3, <2>5, <2>6
<1>5. CASE job.kind = "repair"
  <2>1. Manages(pc, at, job) /\ Take(pc, job) /\ pc.record # None
    BY <1>1, <1>5, JobFacts DEF Manages
  <2>2. Take(pc', job) /\ (pc.env # None => Take(pc', pc'.env))
    BY <1>2, <1>3, <2>1 DEF Take, RecordOK, Served
  <2>3. Manages(pc', at, job)
    BY <1>1, <1>3, <1>5, <2>1, <2>2 DEF Manages
  <2>4. UnitOK(pc') /\ RecordOK(pc')
    BY <1>2, <1>3, <2>1, <2>2 DEF UnitOK, RecordOK, Take
  <2> QED BY <1>1, <1>3, <1>5, <2>3, <2>4, ManagedGoes, StopsPasswords
<1> QED BY <1>2, <1>4, <1>5

LEMMA ServePasswords ==
  ASSUME Inv, PasswordsOK, Serve
  PROVE  PasswordsOK'
<1>1. at = "serve" /\ at # "idle"
  BY DEF Serve
<1>2. job.kind \in {"install", "repair"} /\ UnitOK(pc) /\ RecordOK(pc) /\ at \in ToSet(Paths[job.kind])
  BY <1>1, JobFacts, StepKinds, DeployIs
<1>3. CASE ~Serving(pc)
  BY <1>1, <1>3, ServeIs, StuckPasswords
<1>4. CASE Serving(pc)
  <2>1. Goes /\ pc' = pc
    BY <1>4, ServeIs
  <2>2. CASE job.kind = "install"
    <3>1. Following = "admin" /\ Installs(pc, at, job) /\ Tried(pc, job)
      BY <1>1, <1>2, <2>2, JobFacts, InstallNext
    <3>2. pc.started = EnvFile(job) /\ pc.unit /\ job.pw # 0
      BY <1>1, <3>1 DEF Installs, AfterEnv, Tried
    <3>3. pc.started.pw = job.pw /\ pc.started.flavor = job.flavor /\ pc.started.chpw = job.chpw
      BY <3>2 DEF EnvFile
    <3>4. Take(pc, job)
      BY <1>4, <3>2, <3>3 DEF Serving, Sql, Take
    <3>5. Installs(pc, "admin", job)
      BY <1>1, <3>1, <3>2, <3>4 DEF Installs, AfterCreate, AfterEnv
    <3> QED BY <1>1, <1>2, <2>1, <2>2, <3>1, <3>5, InstallGoes
  <2>3. CASE job.kind = "repair"
    BY <1>1, <1>2, <2>1, <2>3, JobFacts, ManagedGoes
  <2> QED BY <1>2, <2>2, <2>3
<1> QED BY <1>3, <1>4

LEMMA AdminPasswords ==
  ASSUME Inv, PasswordsOK, SetAdmin
  PROVE  PasswordsOK'
<1>1. at = "admin" /\ at # "idle"
  BY DEF SetAdmin
<1>2. /\ job.kind = "install" /\ UnitOK(pc) /\ RecordOK(pc) /\ Tried(pc, job) /\ Installs(pc, at, job)
      /\ at \in ToSet(Paths["install"])
  BY <1>1, JobFacts, StepKinds
<1>3. Following = "record"
  BY <1>1, <1>2, InstallNext
<1>4. CASE Stuck
  BY <1>1, <1>4, StuckPasswords
<1>5. CASE Sql(pc, job.port) /\ Database # None
  <2>1. /\ Goes /\ Files(pc, pc') /\ pc'.ch = pc.ch /\ Server(pc, pc') /\ pc'.pg.role = pc.pg.role /\ pc.pg # None
    BY <1>5, SetAdminIs DEF Sql
  <2>2. UnitOK(pc') /\ RecordOK(pc') /\ Tried(pc', job) /\ (Take(pc, job) => Take(pc', job))
    BY <1>2, <2>1, SamePasswords DEF Files, Server
  <2>3. Sql(pc', job.port) /\ pc'.pg.role = pc.pg.role
    BY <1>5, <2>1 DEF Sql, Server
  <2>4. Installs(pc', "record", job)
    BY <1>1, <1>2, <2>1, <2>2, <2>3 DEF Installs, AfterCreate, AfterEnv, Files
  <2> QED BY <1>1, <1>2, <1>3, <2>1, <2>2, <2>4, InstallGoes
<1> QED BY <1>4, <1>5, SetAdminIs

LEMMA RecordPasswords ==
  ASSUME Inv, PasswordsOK, SaveRecord
  PROVE  PasswordsOK'
<1>1. at = "record" /\ at # "idle"
  BY DEF SaveRecord
<1>2. job.kind \in {"install", "settings"} /\ UnitOK(pc) /\ RecordOK(pc) /\ at \in ToSet(Paths[job.kind])
  BY <1>1, JobFacts, StepKinds
<1>3. /\ Goes /\ pc'.record = Recorded(EnvFile(job), job.value) /\ pc'.record # None /\ pc'.pg = pc.pg
      /\ pc'.ch = pc.ch /\ pc'.unit = pc.unit /\ pc'.env = pc.env
  BY SaveRecordIs
<1>4. End("done") /\ pc'.record.flavor = job.flavor
  BY <1>1, <1>3 DEF Goes, Ends, Recorded, EnvFile
<1>5. UnitOK(pc')
  BY <1>2, <1>3 DEF UnitOK
<1>6. CASE job.kind = "install"
  <2>1. Take(pc, job) /\ pc.env = EnvFile(job)
    BY <1>1, <1>6, JobFacts DEF Installs, AfterEnv
  <2>2. RecordOK(pc')
    BY <1>3, <1>4, <2>1 DEF RecordOK, Take, EnvFile
  <2> QED BY <1>4, <1>5, <2>2, EndPasswords DEF TriedAgain
<1>7. CASE job.kind = "settings"
  <2>1. job.flavor = pc.record.flavor /\ pc.record # None
    BY <1>1, <1>7, JobFacts DEF Manages
  <2>2. RecordOK(pc')
    BY <1>2, <1>3, <1>4, <2>1 DEF RecordOK, Take
  <2> QED BY <1>4, <1>5, <1>7, <2>2, EndPasswords
<1> QED BY <1>2, <1>6, <1>7

(* The steps of the other jobs.                                            *)
LEMMA ReissuePasswords ==
  ASSUME Inv, PasswordsOK, Reissue
  PROVE  PasswordsOK'
<1>1. at = "reissue" /\ at # "idle"
  BY DEF Reissue
<1>2. job.kind = "repair" /\ UnitOK(pc) /\ RecordOK(pc) /\ Manages(pc, at, job) /\ job \in Job
  BY <1>1, JobFacts, StepKinds
<1>3. pc.env = None /\ pc.record # None /\ job.flavor = pc.record.flavor
  BY <1>1, <1>2 DEF Manages
<1>4. CASE pc' = pc /\ Stops("refused")
  BY <1>1, <1>4, SameStops
<1>5. CASE /\ Files(pc, pc') /\ Server(pc, pc') /\ pc'.pg.role = Generated /\ job' = Reissued
           /\ at' = "programs" /\ last' = last
           /\ job.flavor = "clickhouse" => pc'.ch # None /\ pc'.ch.user = Generated
  <2>1. Reissued.kind = "repair" /\ Reissued.pw = Generated /\ Reissued.chpw = Generated
        /\ Reissued.flavor = job.flavor
    BY <1>2 DEF Reissued, Job
  <2>2. UnitOK(pc') /\ RecordOK(pc')
    BY <1>3, <1>5 DEF UnitOK, RecordOK, Files, Server
  <2>3. Generated # 0
    BY StepFacts, LinuxSetupAssumption DEF Generated, Inv, JobOK
  <2>4. Take(pc', Reissued)
    BY <1>5, <2>1, <2>3 DEF Take, Server
  <2>5. Manages(pc', "programs", job')
    BY <1>3, <1>5, <2>1, <2>4 DEF Manages, Files
  <2> QED BY <1>1, <1>5, <2>1, <2>2, <2>5, GoesPasswords
<1> QED BY <1>4, <1>5, ReissueIs

LEMMA ReconfigurePasswords ==
  ASSUME Inv, PasswordsOK, StopSentient \/ Alter \/ Launch \/ Answer
  PROVE  PasswordsOK'
<1>1. at \in {"stop", "alter", "launch", "answer"} /\ at \notin {"idle", "reissue"}
  BY DEF StopSentient, Alter, Launch, Answer
<1>2. job.kind = "settings" /\ UnitOK(pc) /\ RecordOK(pc) /\ Manages(pc, at, job)
  BY <1>1, JobFacts, StepKinds
<1>3. /\ Files(pc, pc') /\ pc'.ch = pc.ch
      /\ IF pc.pg = None THEN pc'.pg = None ELSE pc'.pg # None /\ pc'.pg.role = pc.pg.role
      /\ Goes \/ Stops("failed")
  <2>1. CASE StopSentient
    BY <2>1, StopSentientIs
  <2>2. CASE Alter
    BY <2>2, AlterIs DEF Files, Served
  <2>3. CASE Launch
    BY <2>3, LaunchIs DEF Files, Served
  <2>4. CASE Answer
    BY <2>4, AnswerIs DEF Files
  <2> QED BY <2>1, <2>2, <2>3, <2>4
<1>4. UnitOK(pc') /\ RecordOK(pc') /\ Manages(pc', at, job)
  BY <1>2, <1>3, SamePasswords DEF Files
<1>5. CASE Goes
  BY <1>1, <1>2, <1>4, <1>5, ManagedGoes
<1>6. CASE Stops("failed")
  BY <1>1, <1>2, <1>4, <1>6, StopsPasswords
<1> QED BY <1>3, <1>5, <1>6

LEMMA PutBackPasswords ==
  ASSUME Inv, PasswordsOK, PutBack
  PROVE  PasswordsOK'
<1>1. at = "back" /\ at # "idle"
  BY DEF PutBack
<1>2. job.kind = "settings" /\ UnitOK(pc) /\ RecordOK(pc) /\ Manages(pc, at, job) /\ job \in Job
  BY <1>1, JobFacts, StepKinds
<1>3. Take(pc, job) /\ pc.record # None /\ job.flavor = pc.record.flavor
  BY <1>1, <1>2 DEF Manages
<1>4. /\ End("undone") /\ pc'.ch = pc.ch /\ pc'.unit = pc.unit
      /\ pc'.record = pc.record /\ pc'.env = OldEnv /\ pc'.env # None /\ Served(pc, pc')
  BY PutBackIs
<1>5. OldEnv.pw = job.pw /\ OldEnv.chpw = job.chpw /\ OldEnv.flavor = job.flavor
  BY <1>2 DEF OldEnv, EnvFile, Job
<1>6. UnitOK(pc') /\ RecordOK(pc')
  BY <1>3, <1>4, <1>5 DEF UnitOK, RecordOK, Take, Served
<1> QED BY <1>2, <1>4, <1>6, EndPasswords

LEMMA RemovePasswords ==
  ASSUME Inv, PasswordsOK, RemovePlatform \/ DropDatabases \/ RemoveRecord
  PROVE  PasswordsOK'
<1>1. at \in {"remove", "drop", "unrecord"} /\ at # "idle" /\ at # "reissue"
  BY DEF RemovePlatform, DropDatabases, RemoveRecord
<1>2. /\ job.kind \in {"uninstall", "delete"} /\ UnitOK(pc) /\ RecordOK(pc) /\ Manages(pc, at, job)
      /\ at \in ToSet(Paths[job.kind])
  BY <1>1, JobFacts, StepKinds
<1>3. pc.record # None /\ job.flavor = pc.record.flavor /\ (at # "remove" => pc.env = None) /\ pc.pg # None
  BY <1>1, <1>2 DEF Manages, RecordOK
<1>4. CASE RemovePlatform \/ DropDatabases
  <2>1. /\ at \in {"remove", "drop"} /\ Following \in {"drop", "unrecord"}
        /\ ~Ends
    BY <1>2, <1>4, RemovalNext, Lasts DEF RemovePlatform, DropDatabases, Ends
  <2>2. /\ at' = Following /\ UNCHANGED <<job, last>>
        /\ pc'.env = None /\ pc'.record = pc.record /\ pc'.pg # None
    <3>1. CASE RemovePlatform
      BY <1>3, <2>1, <3>1, RemovePlatformIs DEF Goes
    <3>2. CASE DropDatabases
      BY <1>3, <3>2, DropDatabasesIs DEF Files, DropDatabases
    <3> QED BY <1>4, <3>1, <3>2
  <2>3. UnitOK(pc') /\ RecordOK(pc')
    BY <2>2 DEF UnitOK, RecordOK
  <2>4. Manages(pc', Following, job)
    BY <1>2, <1>3, <2>1, <2>2 DEF Manages
  <2> QED BY <1>1, <1>2, <2>1, <2>2, <2>3, <2>4, GoesPasswords
<1>5. CASE RemoveRecord
  <2>1. at = "unrecord" /\ Ends
    BY <1>2, <1>5, Lasts DEF RemoveRecord, Ends
  <2>2. End("done") /\ pc'.record = None /\ pc'.env = None
    BY <1>3, <1>5, <2>1, RemoveRecordIs DEF Goes
  <2>3. UnitOK(pc') /\ RecordOK(pc')
    BY <2>2 DEF UnitOK, RecordOK
  <2> QED BY <1>1, <1>2, <2>2, <2>3, EndPasswords
<1> QED BY <1>4, <1>5

(* What the operator does while no job runs.                               *)
LEMMA BeginPasswords ==
  ASSUME Inv, PasswordsOK, NEW new, Begin(new), UNCHANGED pc, StepAfter(new, 0) # "idle",
         new.kind = "install" => Installs(pc, StepAfter(new, 0), new),
         new.kind # "install" => Manages(pc, StepAfter(new, 0), new)
  PROVE  PasswordsOK'
<1>1. at' = StepAfter(new, 0) /\ job' = new /\ last' = Nothing /\ pc' = pc
  BY DEF Begin
<1>2. PasswordsFit(pc', at', job')
  BY <1>1 DEF PasswordsFit, PasswordsOK
<1>3. PasswordsFit(pc, at, job)'
  BY <1>2, PasswordsPrimed
<1>4. last'.job.kind # "install"
  BY <1>1 DEF Nothing, NoJob
<1> QED BY <1>1, <1>3, <1>4, Zenon DEF PasswordsOK

LEMMA InstallPasswords ==
  ASSUME Inv, PasswordsOK, (\E c \in Plans : Install(c)) \/ Retry
  PROVE  PasswordsOK'
<1>1. CASE \E c \in Plans : Install(c)
  <2>1. PICK c \in Plans : Install(c)
    BY <1>1
  <2> DEFINE j == PlanOf(c)
  <2>2. /\ j.kind = "install" /\ j.pw = c.pw /\ j.value = DefaultValue /\ j.existing = c.existing
        /\ "install" \in Kinds
    BY KindsAre DEF PlanOf
  <2>3. /\ pc.record = None /\ ~pc.unit /\ (c.existing = "none" <=> pc.pg = None) /\ Begin(j)
        /\ UNCHANGED pc
    BY <2>1 DEF Install, StartInstall
  <2>4. c.pw # 0
    BY LinuxSetupAssumption
  <2> HIDE DEF j
  <2>5. StepAfter(j, 0) = "packages"
    BY <2>2, Firsts
  <2>6. Installs(pc, "packages", j)
    BY <2>2, <2>3, <2>4 DEF Installs, Tried, AfterCreate, AfterEnv
  <2> QED BY <2>2, <2>3, <2>5, <2>6, BeginPasswords
<1>2. CASE Retry
  <2> DEFINE j == last.job
  <2>1. j.kind = "install" /\ last.end \in TriedAgain /\ Begin(j) /\ UNCHANGED pc /\ "install" \in Kinds
    BY <1>2, KindsAre DEF Retry, StartInstall, TriedAgain
  <2>2. Tried(pc, j)
    BY <2>1 DEF PasswordsOK
  <2> HIDE DEF j
  <2>3. StepAfter(j, 0) = "packages"
    BY <2>1, Firsts
  <2>4. Installs(pc, "packages", j)
    BY <2>2 DEF Installs, AfterCreate, AfterEnv
  <2> QED BY <2>1, <2>3, <2>4, BeginPasswords
<1> QED BY <1>1, <1>2

LEMMA ManagePasswords ==
  ASSUME Inv, PasswordsOK,
         \/ \E kind \in {"repair", "uninstall", "delete"} : Manage(kind)
         \/ \E v \in Values : ApplySettings(v)
  PROVE  PasswordsOK'
<1>1. PICK kind, v :
        /\ kind \in {"repair", "uninstall", "delete", "settings"}
        /\ pc.record # None /\ Begin(FromRecord(kind, v)) /\ UNCHANGED pc
        /\ kind = "settings" => pc.env # None
  BY DEF Manage, ApplySettings, StartJob
<1> DEFINE j == FromRecord(kind, v)
<1>2. /\ j.kind = kind /\ kind \in Kinds /\ kind # "install" /\ j.flavor = pc.record.flavor /\ Begin(j)
      /\ j.pw = Secrets.pw /\ j.chpw = Secrets.chpw
  BY <1>1, KindsAre DEF FromRecord
<1>3. IF pc.env = None THEN Secrets.pw = 0 ELSE Secrets.pw = pc.env.pw /\ Secrets.chpw = pc.env.chpw
  BY DEF Secrets
<1>4. pc.env # None => pc.env.flavor = pc.record.flavor /\ Take(pc, pc.env)
  BY <1>1 DEF PasswordsOK, PasswordsFit, RecordOK
<1> HIDE DEF j
<1>5. pc.env # None => Take(pc, j) /\ j.pw # 0
  BY <1>2, <1>3, <1>4 DEF Take
<1>6. StepAfter(j, 0) # "idle" /\ Manages(pc, StepAfter(j, 0), j)
  <2>1. CASE kind = "repair"
    <3>1. IF j.pw = 0 THEN StepAfter(j, 0) = "reissue" ELSE StepAfter(j, 0) = "programs"
      BY <1>2, <2>1, Firsts
    <3> QED BY <1>1, <1>2, <1>3, <1>5, <2>1, <3>1 DEF Manages
  <2>2. CASE kind = "settings"
    <3>1. StepAfter(j, 0) = "stop"
      BY <1>2, <2>2, Firsts
    <3> QED BY <1>1, <1>2, <1>5, <2>2, <3>1 DEF Manages
  <2>3. CASE kind \in {"uninstall", "delete"}
    <3>1. StepAfter(j, 0) = "remove"
      BY <1>2, <2>3, Firsts
    <3> QED BY <1>1, <1>2, <2>3, <3>1 DEF Manages
  <2> QED BY <1>1, <2>1, <2>2, <2>3
<1> QED BY <1>1, <1>2, <1>6, BeginPasswords

(* What happens to the computer while no job runs.                         *)
LEMMA IdlePasswords ==
  ASSUME Inv, at = "idle", UNCHANGED <<at, job>>, last' = Nothing, UnitOK(pc'), RecordOK(pc')
  PROVE  PasswordsOK'
<1>1. at' = "idle" /\ job'.kind = "none" /\ last'.job.kind = "none"
  BY DEF Inv, JobOK, NoJob, Nothing
<1>2. PasswordsFit(pc', at', job')
  BY <1>1 DEF PasswordsFit
<1>3. PasswordsFit(pc, at, job)'
  BY <1>2, PasswordsPrimed
<1> QED BY <1>1, <1>3, Zenon DEF PasswordsOK

LEMMA HappensPasswords ==
  ASSUME Inv, PasswordsOK,
         \/ Adopt \/ Reboot \/ \E run \in BOOLEAN : Control(run)
         \/ \E what \in {"env", "unit", "programs", "record"} : Lose(what)
  PROVE  PasswordsOK'
<1>1. UnitOK(pc) /\ RecordOK(pc)
  BY DEF PasswordsOK, PasswordsFit
<1>2. CASE Adopt
  <2>1. /\ at = "idle" /\ UNCHANGED <<at, job>> /\ last' = Nothing /\ Candidate /\ Verified
        /\ pc'.ch = pc.ch /\ pc'.pg = pc.pg /\ pc'.env = pc.env /\ pc'.unit = pc.unit /\ pc'.record = Found
    BY <1>2, AdoptIs
  <2>2. Take(pc, pc.env) /\ Found.flavor = pc.env.flavor
    BY <1>1, <2>1 DEF UnitOK, Candidate, Verified, Sql, Take, Found, Recorded
  <2>3. UnitOK(pc') /\ RecordOK(pc')
    BY <1>1, <2>1, <2>2 DEF UnitOK, RecordOK, Take
  <2> QED BY <2>1, <2>3, IdlePasswords
<1>3. CASE Reboot \/ \E run \in BOOLEAN : Control(run)
  <2>1. /\ at = "idle" /\ UNCHANGED <<at, job>> /\ last' = Nothing /\ pc'.ch = pc.ch /\ Files(pc, pc')
        /\ Served(pc, pc')
    BY <1>3, ControlIs
  <2>2. UnitOK(pc') /\ RecordOK(pc')
    BY <1>1, <2>1, SamePasswords DEF Files, Served
  <2> QED BY <2>1, <2>2, IdlePasswords
<1>4. ASSUME NEW what \in {"env", "unit", "programs", "record"}, Lose(what)
      PROVE  PasswordsOK'
  <2>1. /\ at = "idle" /\ UNCHANGED <<at, job>> /\ last' = Nothing
        /\ pc'.ch = pc.ch /\ pc'.pg = pc.pg
        /\ pc'.env \in {None, pc.env} /\ pc'.record \in {None, pc.record}
        /\ pc'.unit => pc.unit
    BY <1>4, LoseIs
  <2>2. UnitOK(pc') /\ RecordOK(pc')
    BY <1>1, <2>1 DEF UnitOK, RecordOK, Take
  <2> QED BY <2>1, <2>2, IdlePasswords
<1> QED BY <1>2, <1>3, <1>4

(* Jobs that are interrupted.                                              *)
LEMMA TornPasswords ==
  ASSUME Inv, PasswordsOK, at # "idle", pc' = Torn(at), Stops("failed")
  PROVE  PasswordsOK'
<1>1. /\ UnitOK(pc) /\ RecordOK(pc) /\ job.kind \in Kinds /\ at \in ToSet(Paths[job.kind])
      /\ job.kind = "install" => Installs(pc, at, job) /\ Tried(pc, job)
      /\ job.kind # "install" => Manages(pc, at, job)
  BY JobFacts
<1>2. /\ pc'.ch = pc.ch /\ pc'.env = pc.env /\ pc'.record = pc.record
      /\ pc'.unit = pc.unit \/ (at = "unit" /\ pc'.unit) \/ (at = "remove" /\ ~pc'.unit)
      /\ pc.pg = None <=> pc'.pg = None
      /\ at # "reissue" => pc'.pg = pc.pg
  BY TornIs
<1>3. CASE at = "reissue"
  <2>1. job.kind = "repair" /\ pc.env = None
    BY <1>1, <1>3, StepKinds DEF Manages
  <2>2. UnitOK(pc') /\ RecordOK(pc')
    BY <1>1, <1>2, <2>1 DEF UnitOK, RecordOK
  <2> QED BY <2>1, <2>2, StopsPasswords
<1>4. CASE at = "unit"
  <2>1. job.kind \in {"install", "repair"}
    BY <1>1, <1>4, StepKinds, DeployIs
  <2>2. RecordOK(pc')
    BY <1>1, <1>2, <1>4 DEF RecordOK, Take
  <2>3. CASE job.kind = "install"
    <3>1. /\ Sql(pc, job.port) /\ pc.pg.role = job.pw /\ pc.env = EnvFile(job) /\ Tried(pc, job)
          /\ pc.pg # None /\ job.pw # 0
      BY <1>1, <1>4, <2>3 DEF Installs, AfterCreate, AfterEnv, Tried, Sql
    <3>2. pc.env # None /\ pc.env.pw = job.pw
      <4>1. EnvFile(job) \in Env
        BY StepFacts, EnvFileIs
      <4> QED BY <3>1, <4>1, NoneAssumption DEF EnvFile
    <3>3. UnitOK(pc') /\ Tried(pc', job)
      BY <1>2, <1>4, <3>1, <3>2 DEF UnitOK, Tried
    <3> QED BY <2>2, <2>3, <3>3, StopsPasswords
  <2>4. CASE job.kind = "repair"
    <3>1. UnitOK(pc')
      BY <1>1, <1>2, <1>4, <2>4 DEF UnitOK, RecordOK, Manages, Take
    <3> QED BY <2>2, <2>4, <3>1, StopsPasswords
  <2> QED BY <2>1, <2>3, <2>4
<1>5. CASE at = "remove"
  <2>1. job.kind \in {"uninstall", "delete"}
    BY <1>1, <1>5, StepKinds
  <2>2. UnitOK(pc') /\ RecordOK(pc')
    BY <1>1, <1>2, <1>5 DEF UnitOK, RecordOK, Take
  <2> QED BY <2>1, <2>2, StopsPasswords
<1>6. CASE at \notin {"reissue", "unit", "remove"}
  <2>1. /\ UnitOK(pc') /\ RecordOK(pc') /\ (Tried(pc, job) => Tried(pc', job))
        /\ Manages(pc, at, job) => Manages(pc', at, job)
    BY <1>1, <1>2, <1>6, SamePasswords
  <2> QED BY <1>1, <2>1, StopsPasswords
<1> QED BY <1>3, <1>4, <1>5, <1>6

LEMMA InterruptedPasswords ==
  ASSUME Inv, PasswordsOK, Fail \/ Die
  PROVE  PasswordsOK'
<1>1. at # "idle"
  BY LinuxSetupAssumption, InSteps DEF Fail, Die
<1>2. CASE Die
  <2>1. End("killed") /\ UNCHANGED pc
    BY <1>2 DEF Die
  <2> QED BY <1>1, <2>1, JobFacts, EndPasswords DEF TriedAgain
<1>3. CASE Fail
  <2>1. Fails("failed", pc) \/ Fails("failed", Torn(at))
    BY <1>3 DEF Fail
  <2>2. CASE Fails("failed", pc)
    BY <1>1, <2>2, FailsIs, SameStops
  <2>3. CASE Fails("failed", Torn(at))
    <3>1. pc' = Torn(at) /\ Stops("failed")
      BY <2>3, FailsIs
    <3> QED BY <1>1, <3>1, TornPasswords
  <2> QED BY <2>1, <2>2, <2>3
<1> QED BY <1>2, <1>3

LEMMA InitPasswords == Init => PasswordsOK
<1> SUFFICES ASSUME Init PROVE PasswordsOK
  OBVIOUS
<1>1. pc.env = None /\ pc.record = None /\ at = "idle" /\ job.kind = "none" /\ last.job.kind = "none"
  <2>1. PICK c, shape : pc \in {Fresh, OtherUse, Left(c, shape)}
    BY DEF Init
  <2>2. Fresh.env = None /\ Fresh.record = None
    BY DEF Fresh
  <2>3. OtherUse.env = None /\ OtherUse.record = None
    BY DEF OtherUse, Fresh
  <2>4. Left(c, shape).env = None /\ Left(c, shape).record = None
    BY DEF Left, Fresh
  <2> QED BY <2>1, <2>2, <2>3, <2>4 DEF Init, NoJob, Nothing
<1> QED BY <1>1 DEF PasswordsOK, PasswordsFit, UnitOK, RecordOK

LEMMA NextPasswords ==
  ASSUME Inv, PasswordsOK, [Next]_vars
  PROVE  PasswordsOK'
<1>1. CASE Operator
  BY <1>1, InstallPasswords, ManagePasswords, HappensPasswords DEF Operator
<1>2. CASE Step
  BY <1>2, SetupPasswords, PreparePasswords, ProgramsPasswords, CreatePasswords, ProvisionPasswords,
     WriteEnvPasswords, SchemaPasswords, UnitPasswords, ServePasswords, AdminPasswords, RecordPasswords,
     ReissuePasswords, ReconfigurePasswords, PutBackPasswords, RemovePasswords DEF Step
<1>3. CASE Fail \/ Die
  BY <1>3, InterruptedPasswords
<1>4. CASE UNCHANGED vars
  <2>1. UNCHANGED <<pc, at, job, last>>
    BY <1>4 DEF vars
  <2>2. PasswordsFit(pc, at, job)'
    BY <2>1, PasswordsPrimed DEF PasswordsOK
  <2>3. (last.job.kind = "install" /\ last.end \in TriedAgain)' => Tried(pc, last.job)'
    BY <2>1, TriedPrimed DEF PasswordsOK, TriedAgain
  <2> QED BY <2>1, <2>2, <2>3 DEF PasswordsOK, TriedAgain
<1> QED BY <1>1, <1>2, <1>3, <1>4 DEF Next

LEMMA Passwords == Spec => [](Inv /\ PasswordsOK)
<1>1. Init => Inv /\ PasswordsOK
  BY InitInv, InitPasswords
<1>2. Inv /\ PasswordsOK /\ [Next]_vars => (Inv /\ PasswordsOK)'
  BY NextInv, NextPasswords
<1> QED BY <1>1, <1>2, PTL DEF Spec

(* Whatever an installation, a repair, a change of settings or a removal   *)
(* met, and however it was stopped: once there is a record again, the      *)
(* passwords of the environment file are those PostgreSQL's role and       *)
(* ClickHouse's user have (prepare_existing, reissue_secrets, deploy).     *)
THEOREM PasswordsAgree == Spec => []CredentialsAgree
<1>1. ASSUME PasswordsOK PROVE CredentialsAgree
  BY <1>1 DEF PasswordsOK, PasswordsFit, RecordOK, Take, CredentialsAgree
<1> QED BY <1>1, Passwords, PTL

----------------------------------------------------------------------------
(* Setups that finish.                                                     *)

(* PostgreSQL starts with every parameter it is given.                     *)
Tunable == UnfitPg = {}
(* No installation moves PostgreSQL to another port.                       *)
OnePort == \A c \in Plans : c.port = DefaultPort

UpOK(p) == p.pg # None => p.pg.up
PortOK(p) == p.pg # None => p.pg.port = DefaultPort

(* What a step may find there, made by an earlier one.                     *)
Provides(p, a, j) ==
  /\ j.port = DefaultPort
  /\ a # "packages" => p.pg # None
  /\ j.flavor = "clickhouse" /\ a \notin {"packages", "port", "clickhouse"} => p.ch # None
  /\ a = "chuser" => j.flavor = "clickhouse"
  /\ a \in {"create"} \union AfterCreate => p.programs
  /\ a \in AfterCreate => p.pg.dbs[0] # None
  /\ a \in AfterEnv \ {"schema"} => p.pg.dbs[0].shape # "missing"
(* The one setup that may be stuck.                                        *)
OtherUser(p, j) == j.flavor = "clickhouse" /\ p.ch # None /\ p.ch.user # j.chpw
SetupsOK ==
  /\ UpOK(pc) /\ PortOK(pc)
  /\ job.kind = "install" => Provides(pc, at, job)
  /\ last.job.kind = "install" => last.job.port = DefaultPort
  /\ last.job.kind = "install" /\ last.end = "stuck" => OtherUser(pc, last.job)

LEMMA SetupsPrimed ==
  ASSUME UpOK(pc'), PortOK(pc'), job'.kind = "install" => Provides(pc', at', job'),
         last'.job.kind = "install" =>
           /\ last'.job.port = DefaultPort
           /\ last'.end = "stuck" => OtherUser(pc', last'.job)
  PROVE  SetupsOK'
<1>1. UpOK(pc)' /\ PortOK(pc)'
  BY Zenon DEF UpOK, PortOK
<1>2. (job.kind = "install" => Provides(pc, at, job))'
  BY Zenon DEF Provides
<1>3. (last.job.kind = "install" => last.job.port = DefaultPort)'
  OBVIOUS
<1>4. (last.job.kind = "install" /\ last.end = "stuck" => OtherUser(pc, last.job))'
  BY Zenon DEF OtherUser
<1> QED BY <1>1, <1>2, <1>3, <1>4 DEF SetupsOK

(* PostgreSQL stays up, and on its port.                                   *)
ServerOK ==
  /\ Tunable /\ UpOK(pc) => UpOK(pc')
  /\ PortOK(pc) /\ (at = "port" => job.port = DefaultPort) => PortOK(pc')
LEMMA SameServer ==
  ASSUME pc'.pg = pc.pg \/ (pc.pg # None /\ Server(pc, pc'))
  PROVE  ServerOK
BY DEF ServerOK, UpOK, PortOK, Server

LEMMA StepServer ==
  ASSUME Inv, Step
  PROVE  ServerOK
<1>1. CASE InstallPackages
  BY <1>1, InstallPackagesIs DEF ServerOK, UpOK, PortOK, Served
<1>2. CASE SetPort
  BY <1>2, SetPortIs DEF ServerOK, UpOK, PortOK, Tunable, Stuck, SetPort
<1>3. CASE InstallClickhouse \/ InstallPrograms \/ ProvisionClickhouse \/ WriteEnv \/ Serve \/ SaveRecord
           \/ StopSentient \/ Answer \/ RemovePlatform \/ RemoveRecord
  <2>1. pc'.pg = pc.pg
    BY <1>3, InstallClickhouseIs, InstallProgramsIs, ProvisionClickhouseIs, WriteEnvIs, ServeIs, SaveRecordIs,
       StopSentientIs, AnswerIs, RemovePlatformIs, RemoveRecordIs DEF Stuck
  <2> QED BY <2>1, SameServer
<1>4. CASE SyncRole \/ PrepareExisting \/ Create \/ InstallSchema \/ Partition \/ SetAdmin \/ Reissue
  <2>1. pc' = pc \/ (pc.pg # None /\ Server(pc, pc'))
    BY <1>4, SyncRoleIs, PrepareExistingIs, CreateIs, InstallSchemaIs, PartitionIs, SetAdminIs, ReissueIs
    DEF Stuck, Sql
  <2> QED BY <2>1, SameServer
<1>5. CASE RegisterUnit
  BY <1>5, RegisterUnitIs DEF ServerOK, UpOK, PortOK, Served
<1>6. CASE Alter
  BY <1>6, AlterIs DEF ServerOK, UpOK, PortOK, Served, Tunable
<1>7. CASE Launch
  BY <1>7, LaunchIs DEF ServerOK, UpOK, PortOK, Served
<1>8. CASE PutBack
  BY <1>8, PutBackIs DEF ServerOK, UpOK, PortOK, Served, Tunable
<1>9. CASE DropDatabases
  BY <1>9, DropDatabasesIs, SameServer
<1> QED BY <1>1, <1>2, <1>3, <1>4, <1>5, <1>6, <1>7, <1>8, <1>9 DEF Step

LEMMA NextServer ==
  ASSUME Inv, [Next]_vars
  PROVE  ServerOK
<1>1. CASE Operator
  <2>1. CASE Reboot \/ \E run \in BOOLEAN : Control(run)
    BY <2>1, ControlIs DEF ServerOK, UpOK, PortOK, Served, Tunable
  <2>2. CASE ~(Reboot \/ \E run \in BOOLEAN : Control(run))
    <3>1. pc'.pg = pc.pg
      BY <1>1, <2>2, AdoptIs, LoseIs, Zenon
      DEF Operator, Install, Retry, StartInstall, Manage, ApplySettings, StartJob
    <3> QED BY <3>1, SameServer
  <2> QED BY <2>1, <2>2
<1>2. CASE Step
  BY <1>2, StepServer
<1>3. CASE Fail \/ Die
  <2>1. at # "idle"
    BY <1>3, LinuxSetupAssumption, InSteps DEF Fail, Die
  <2>2. pc' = pc \/ pc' = Torn(at)
    BY <1>3, FailsIs DEF Fail, Die
  <2> QED BY <2>1, <2>2, TornIs, SameServer
<1>4. CASE UNCHANGED vars
  BY <1>4, SameServer DEF vars
<1> QED BY <1>1, <1>2, <1>3, <1>4 DEF Next

(* A job that is not an installation leaves none behind.                   *)
LEMMA OtherJobs ==
  ASSUME Inv, PasswordsOK, at # "idle", job.kind # "install", Step \/ Fail \/ Die
  PROVE  job'.kind # "install" /\ last'.job.kind # "install"
<1>1. last.job.kind # "install" /\ job \in Job
  BY JobFacts DEF Nothing, NoJob
<1>2. ASSUME NEW how, End(how)
      PROVE  job'.kind # "install" /\ last'.job.kind # "install"
  BY <1>2 DEF End, NoJob
<1>3. ASSUME NEW how, Stops(how)
      PROVE  job'.kind # "install" /\ last'.job.kind # "install"
  BY <1>1, <1>2, <1>3 DEF Stops
<1>4. Goes => job'.kind # "install" /\ last'.job.kind # "install"
  BY <1>1, <1>2 DEF Goes
<1>5. CASE Step
  <2>1. CASE Reissue
    <3>1. Reissued.kind = job.kind
      BY <1>1 DEF Reissued, Job
    <3> QED BY <1>1, <1>3, <2>1, <3>1, ReissueIs
  <2>2. CASE PutBack
    BY <1>2, <2>2, PutBackIs
  <2>3. CASE DropDatabases
    BY <1>1, <2>3, DropDatabasesIs
  <2>4. CASE InstallPackages \/ SetPort \/ InstallClickhouse \/ SyncRole \/ PrepareExisting \/ InstallPrograms
    BY <1>3, <1>4, <2>4, InstallPackagesIs, SetPortIs, InstallClickhouseIs, SyncRoleIs, PrepareExistingIs,
       InstallProgramsIs DEF Stuck
  <2>5. CASE Create \/ ProvisionClickhouse \/ WriteEnv \/ InstallSchema \/ Partition \/ RegisterUnit \/ Serve
             \/ SetAdmin \/ SaveRecord
    BY <1>3, <1>4, <2>5, CreateIs, ProvisionClickhouseIs, WriteEnvIs, InstallSchemaIs, PartitionIs,
       RegisterUnitIs, ServeIs, SetAdminIs, SaveRecordIs DEF Stuck
  <2>6. CASE StopSentient \/ Alter \/ Launch \/ Answer \/ RemovePlatform \/ RemoveRecord
    BY <1>3, <1>4, <2>6, StopSentientIs, AlterIs, LaunchIs, AnswerIs, RemovePlatformIs, RemoveRecordIs
  <2> QED BY <1>5, <2>1, <2>2, <2>3, <2>4, <2>5, <2>6 DEF Step
<1>6. CASE Fail
  BY <1>3, <1>6, FailsIs DEF Fail
<1>7. CASE Die
  BY <1>2, <1>7 DEF Die
<1> QED BY <1>5, <1>6, <1>7

(* An installation where it stands, and how it goes on or stops.           *)
LEMMA InstallFacts ==
  ASSUME Inv, PasswordsOK, SetupsOK, at # "idle", job.kind = "install"
  PROVE  /\ UpOK(pc) /\ PortOK(pc) /\ Provides(pc, at, job) /\ Installs(pc, at, job) /\ Tried(pc, job)
         /\ last = Nothing /\ at \in ToSet(Paths["install"]) /\ ~PutsBack
         /\ pc.pg # None => Sql(pc, DefaultPort) /\ Sql(pc, job.port)
BY JobFacts DEF SetupsOK, PutsBack, Provides, UpOK, PortOK, Sql

LEMMA InstallEnds ==
  ASSUME Inv, PasswordsOK, SetupsOK, at # "idle", job.kind = "install", UpOK(pc'), PortOK(pc'),
         NEW how, End(how), how = "stuck" => OtherUser(pc', job)
  PROVE  SetupsOK'
<1>1. job.port = DefaultPort
  BY InstallFacts DEF Provides
<1>2. job'.kind # "install" /\ last'.job = job /\ last'.end = how
  BY DEF End, NoJob
<1> QED BY <1>1, <1>2, SetupsPrimed

LEMMA ProvidedGoes ==
  ASSUME Inv, PasswordsOK, SetupsOK, at \notin {"idle", "record"}, job.kind = "install", UpOK(pc'), PortOK(pc'),
         Goes, Provides(pc', Following, job)
  PROVE  SetupsOK'
<1>1. at' = Following /\ job' = job /\ last' = Nothing
  BY JobFacts DEF Goes
<1>2. last'.job.kind # "install"
  BY <1>1 DEF Nothing, NoJob
<1> QED BY <1>1, <1>2, SetupsPrimed

(* The steps of setup are not stuck ...                                    *)
LEMMA SetupSetups ==
  ASSUME Inv, PasswordsOK, SetupsOK, UpOK(pc'), PortOK(pc'),
         InstallPackages \/ SetPort \/ InstallClickhouse \/ SyncRole \/ PrepareExisting
  PROVE  SetupsOK'
<1>1. at \in {"packages", "port", "clickhouse", "role", "kept"} /\ at \notin {"idle", "record"}
  BY DEF InstallPackages, SetPort, InstallClickhouse, SyncRole, PrepareExisting
<1>2. job.kind = "install"
  BY <1>1, JobFacts, StepKinds
<1>3. /\ Provides(pc, at, job) /\ at \in ToSet(Paths["install"]) /\ ~PutsBack
      /\ pc.pg # None => Sql(pc, DefaultPort) /\ Sql(pc, job.port)
  BY <1>1, <1>2, InstallFacts
<1>4. /\ at = "packages" => Following = "port"
      /\ at \in {"port", "clickhouse"} => Following \in {"clickhouse", "role", "programs"}
      /\ at = "port" /\ Following # "clickhouse" => job.flavor # "clickhouse"
      /\ at = "role" => Following \in {"kept", "programs"}
      /\ at = "kept" => Following = "programs"
  BY <1>1, <1>2, <1>3, InstallNext
<1>5. ASSUME Goes, Provides(pc', Following, job) PROVE SetupsOK'
  BY <1>1, <1>2, <1>5, ProvidedGoes
<1>6. CASE InstallPackages
  <2>1. Goes /\ pc'.pg # None /\ at = "packages"
    BY <1>6, InstallPackagesIs DEF InstallPackages
  <2>2. Provides(pc', Following, job)
    BY <1>3, <1>4, <2>1 DEF Provides, AfterCreate, AfterEnv
  <2> QED BY <1>5, <2>1, <2>2
<1>7. CASE SetPort
  <2>1. at = "port" /\ pc.pg # None
    BY <1>3, <1>7 DEF SetPort, Provides
  <2>2. Goes /\ pc'.ch = pc.ch /\ pc'.pg # None
    BY <1>3, <1>7, <2>1, SetPortIs
  <2>3. Provides(pc', Following, job)
    BY <1>3, <1>4, <2>1, <2>2 DEF Provides, AfterCreate, AfterEnv
  <2> QED BY <1>5, <2>2, <2>3
<1>8. CASE InstallClickhouse
  <2>1. Goes /\ pc'.pg = pc.pg /\ pc'.ch # None /\ at = "clickhouse"
    BY <1>8, InstallClickhouseIs DEF InstallClickhouse
  <2>2. Provides(pc', Following, job)
    BY <1>3, <1>4, <2>1 DEF Provides, AfterCreate, AfterEnv
  <2> QED BY <1>5, <2>1, <2>2
<1>9. CASE SyncRole
  <2>1. at = "role" /\ pc.pg # None
    BY <1>3, <1>9 DEF SyncRole, Provides
  <2>2. Goes /\ pc'.ch = pc.ch /\ pc'.pg # None
    BY <1>3, <1>9, <2>1, SyncRoleIs DEF Server
  <2>3. Provides(pc', Following, job)
    BY <1>3, <1>4, <2>1, <2>2 DEF Provides, AfterCreate, AfterEnv
  <2> QED BY <1>5, <2>2, <2>3
<1>10. CASE PrepareExisting
  <2>1. at = "kept" /\ pc.pg # None
    BY <1>3, <1>10 DEF PrepareExisting, Provides
  <2>2. CASE pc' = pc /\ Stops("refused")
    <3>1. End("refused")
      BY <1>3, <2>2 DEF Stops
    <3> QED BY <1>1, <1>2, <3>1, InstallEnds
  <2>3. CASE Goes /\ pc'.ch = pc.ch /\ Server(pc, pc')
    <3>1. Provides(pc', Following, job)
      BY <1>3, <1>4, <2>1, <2>3 DEF Provides, AfterCreate, AfterEnv, Server
    <3> QED BY <1>5, <2>3, <3>1
  <2> QED BY <1>3, <1>10, <2>1, <2>2, <2>3, PrepareExistingIs
<1> QED BY <1>6, <1>7, <1>8, <1>9, <1>10

(* ... nor those of deploy,                                                *)
LEMMA DeploySetups ==
  ASSUME Inv, PasswordsOK, SetupsOK, UpOK(pc'), PortOK(pc'), job.kind = "install",
         InstallPrograms \/ Create \/ ProvisionClickhouse \/ WriteEnv \/ InstallSchema \/ Partition
  PROVE  SetupsOK'
<1>1. /\ at \in {"programs", "create", "chuser", "env", "schema", "partition"} /\ at \notin {"idle", "record"}
  BY DEF InstallPrograms, Create, ProvisionClickhouse, WriteEnv, InstallSchema, Partition
<1>2. /\ Provides(pc, at, job) /\ Installs(pc, at, job) /\ at \in ToSet(Paths["install"])
      /\ Sql(pc, job.port) /\ pc.pg # None
  BY <1>1, InstallFacts DEF Provides
<1>3. /\ at = "programs" => Following = "create"
      /\ at = "create" => Following \in {"chuser", "env"}
      /\ at = "chuser" => Following = "env"
      /\ at = "env" => Following = "schema"
      /\ at = "schema" => Following \in {"partition", "unit"}
      /\ at = "partition" => Following = "unit"
      /\ Following = "chuser" => job.flavor = "clickhouse"
  BY <1>1, <1>2, InstallNext
<1>4. ASSUME Goes, Provides(pc', Following, job) PROVE SetupsOK'
  BY <1>1, <1>4, ProvidedGoes
<1>5. CASE InstallPrograms
  <2>1. Goes /\ pc'.programs /\ pc'.pg = pc.pg /\ pc'.ch = pc.ch /\ at = "programs"
    BY <1>2, <1>5, InstallProgramsIs DEF InstallPrograms
  <2>2. Provides(pc', Following, job)
    BY <1>2, <1>3, <2>1 DEF Provides, AfterCreate, AfterEnv
  <2> QED BY <1>4, <2>1, <2>2
<1>6. CASE Create
  <2>1. /\ Goes /\ pc'.programs = pc.programs /\ pc'.ch = pc.ch /\ pc'.pg # None /\ pc'.pg.dbs[0] # None
        /\ at = "create"
    BY <1>2, <1>6, CreateIs DEF Create, Files, Server
  <2>2. Provides(pc', Following, job)
    BY <1>2, <1>3, <2>1 DEF Provides, AfterCreate, AfterEnv
  <2> QED BY <1>4, <2>1, <2>2
<1>7. CASE ProvisionClickhouse
  <2>1. at = "chuser" /\ job.flavor = "clickhouse"
    BY <1>2, <1>7 DEF ProvisionClickhouse, Provides
  <2>2. pc.ch # None
    BY <1>2, <2>1 DEF Provides
  <2>3. Goes /\ pc'.programs = pc.programs /\ pc'.pg = pc.pg /\ pc'.ch # None
    BY <1>7, <2>2, ProvisionClickhouseIs DEF Files
  <2>4. Provides(pc', Following, job)
    BY <1>2, <1>3, <2>1, <2>3 DEF Provides, AfterCreate, AfterEnv
  <2> QED BY <1>4, <2>3, <2>4
<1>8. CASE WriteEnv
  <2>1. Goes /\ pc'.programs = pc.programs /\ pc'.pg = pc.pg /\ pc'.ch = pc.ch /\ at = "env"
    BY <1>8, WriteEnvIs DEF WriteEnv
  <2>2. Provides(pc', Following, job)
    BY <1>2, <1>3, <2>1 DEF Provides, AfterCreate, AfterEnv
  <2> QED BY <1>4, <2>1, <2>2
<1>9. CASE InstallSchema
  <2>1. at = "schema" /\ pc.pg.role = job.pw /\ Database # None
    BY <1>2, <1>9 DEF InstallSchema, Installs, Provides, AfterCreate, AfterEnv, Database
  <2>2. /\ Goes /\ pc'.programs = pc.programs /\ pc'.pg # None /\ pc'.pg.dbs[0] # None
        /\ pc'.pg.dbs[0].shape # "missing" /\ (pc.ch # None => pc'.ch # None)
    BY <1>2, <1>9, <2>1, InstallSchemaIs DEF Files, Server
  <2>3. Provides(pc', Following, job)
    BY <1>2, <1>3, <2>1, <2>2 DEF Provides, AfterCreate, AfterEnv
  <2> QED BY <1>4, <2>2, <2>3
<1>10. CASE Partition
  <2>1. at = "partition" /\ Database # None /\ pc.pg.dbs[0].shape # "missing"
    BY <1>2, <1>10 DEF Partition, Provides, AfterCreate, AfterEnv, Database
  <2>2. /\ Goes /\ pc'.programs = pc.programs /\ pc'.pg # None /\ pc'.pg.dbs[0] # None
        /\ pc'.pg.dbs[0].shape # "missing" /\ pc'.ch = pc.ch
    BY <1>2, <1>10, <2>1, PartitionIs DEF Files, Server
  <2>3. Provides(pc', Following, job)
    BY <1>2, <1>3, <2>1, <2>2 DEF Provides, AfterCreate, AfterEnv
  <2> QED BY <1>4, <2>2, <2>3
<1> QED BY <1>5, <1>6, <1>7, <1>8, <1>9, <1>10

(* ... and SENTIENT answers at its end.                                    *)
LEMMA ServedSetups ==
  ASSUME Tunable, Inv, PasswordsOK, SetupsOK, UpOK(pc'), PortOK(pc'), job.kind = "install",
         RegisterUnit \/ Serve \/ SetAdmin \/ SaveRecord
  PROVE  SetupsOK'
<1>1. at \in {"unit", "serve", "admin", "record"} /\ at # "idle"
  BY DEF RegisterUnit, Serve, SetAdmin, SaveRecord
<1>2. /\ Provides(pc, at, job) /\ Installs(pc, at, job) /\ at \in ToSet(Paths["install"])
      /\ Sql(pc, job.port) /\ pc.pg # None /\ ~PutsBack
  BY <1>1, InstallFacts DEF Provides
<1>3. /\ at = "unit" => Following = "serve"
      /\ at = "serve" => Following = "admin"
      /\ at = "admin" => Following = "record"
  BY <1>1, <1>2, InstallNext
<1>4. ASSUME Goes, Provides(pc', Following, job), at # "record" PROVE SetupsOK'
  BY <1>1, <1>4, ProvidedGoes
<1>5. CASE RegisterUnit
  <2> DEFINE u == [pc EXCEPT !.unit = TRUE]
  <2>1. at = "unit" /\ pc.env = EnvFile(job) /\ pc.programs /\ (job.flavor = "clickhouse" => pc.ch # None)
        /\ pc \in Computer /\ EnvFile(job) \in Env
    BY <1>2, <1>5, <1>1, StepFacts, EnvFileIs DEF RegisterUnit, Installs, Provides, AfterCreate, AfterEnv
  <2>2. pc.env # None /\ pc.env.flavor = job.flavor
    BY <2>1, NoneAssumption DEF EnvFile
  <2>3. u.unit /\ u.programs = pc.programs /\ u.env = pc.env /\ u.pg = pc.pg /\ u.ch = pc.ch
    BY <2>1 DEF Computer
  <2> HIDE DEF u
  <2>4. CanLaunch(u)
    BY <1>2, <2>1, <2>2, <2>3 DEF CanLaunch, Tunable
  <2>5. Goes /\ pc'.programs = pc.programs /\ pc'.ch = pc.ch /\ Served(pc, pc')
    BY <1>5, <2>4, RegisterUnitIs DEF u
  <2>6. Provides(pc', Following, job)
    BY <1>2, <1>3, <2>1, <2>5 DEF Provides, AfterCreate, AfterEnv, Served
  <2> QED BY <1>4, <2>1, <2>5, <2>6
<1>6. CASE Serve
  <2>1. at = "serve"
    BY <1>6 DEF Serve
  <2>2. CASE Serving(pc)
    <3>1. Goes /\ pc' = pc
      BY <1>6, <2>2, ServeIs
    <3>2. Provides(pc', Following, job)
      BY <1>2, <1>3, <2>1, <3>1 DEF Provides, AfterCreate, AfterEnv
    <3> QED BY <1>4, <2>1, <3>1, <3>2
  <2>3. CASE ~Serving(pc)
    <3>1. pc' = pc /\ End("stuck")
      BY <1>2, <1>6, <2>3, ServeIs DEF Stuck, Stops
    <3>2. /\ pc.started = EnvFile(job) /\ pc.pg.role = job.pw /\ pc.pg.dbs[0] # None
          /\ pc.pg.dbs[0].shape # "missing" /\ (job.flavor = "clickhouse" => pc.ch # None) /\ job.value = DefaultValue
      BY <1>2, <2>1 DEF Installs, Provides, AfterCreate, AfterEnv, Tried
    <3>3. pc.started # None
      <4>1. EnvFile(job) \in Env
        BY <1>1, StepFacts, EnvFileIs
      <4> QED BY <3>2, <4>1, NoneAssumption
    <3>4. /\ pc.started.pw = pc.pg.role /\ pc.started.port = job.port /\ pc.started.flavor = job.flavor
          /\ pc.started.chpw = job.chpw /\ pc.started.value \notin Unfit
      BY <3>2, LinuxSetupAssumption DEF EnvFile, DefaultValue
    <3>5. OtherUser(pc, job)
      BY <1>2, <2>3, <3>2, <3>3, <3>4 DEF Serving, OtherUser
    <3> QED BY <1>1, <3>1, <3>5, InstallEnds
  <2> QED BY <2>2, <2>3
<1>7. CASE SetAdmin
  <2>1. at = "admin" /\ Database # None
    BY <1>2, <1>7 DEF SetAdmin, Provides, AfterCreate, AfterEnv, Database
  <2>2. /\ Goes /\ pc'.programs = pc.programs /\ pc'.ch = pc.ch /\ pc'.pg # None /\ pc'.pg.dbs[0] # None
        /\ pc.pg.dbs[0].shape # "missing" => pc'.pg.dbs[0].shape # "missing"
    BY <1>2, <1>7, <2>1, SetAdminIs DEF Files, Server
  <2>3. Provides(pc', Following, job)
    BY <1>2, <1>3, <2>1, <2>2 DEF Provides, AfterCreate, AfterEnv
  <2> QED BY <1>4, <2>1, <2>2, <2>3
<1>8. CASE SaveRecord
  <2>1. End("done")
    BY <1>8, SaveRecordIs DEF SaveRecord, Goes, Ends
  <2> QED BY <1>1, <2>1, InstallEnds
<1> QED BY <1>5, <1>6, <1>7, <1>8

LEMMA JobSetups ==
  ASSUME Tunable, Inv, PasswordsOK, SetupsOK, Step \/ Fail \/ Die
  PROVE  SetupsOK'
<1>1. at # "idle"
  <2>1. CASE Step
    BY <2>1, OwnSteps
    DEF Step, InstallPackages, SetPort, InstallClickhouse, SyncRole, PrepareExisting, InstallPrograms, Create,
        ProvisionClickhouse, WriteEnv, InstallSchema, Partition, RegisterUnit, Serve, SetAdmin, SaveRecord,
        Reissue, StopSentient, Alter, Launch, Answer, PutBack, RemovePlatform, DropDatabases, RemoveRecord
  <2>2. CASE Fail \/ Die
    BY <2>2, LinuxSetupAssumption, InSteps DEF Fail, Die
  <2> QED BY <2>1, <2>2
<1>2. UpOK(pc') /\ PortOK(pc')
  <2>1. at = "port" => job.kind = "install"
    BY <1>1, JobFacts, StepKinds
  <2>2. at = "port" => job.port = DefaultPort
    BY <2>1 DEF SetupsOK, Provides
  <2>3. ServerOK
    BY NextServer DEF Next
  <2> QED BY <2>2, <2>3 DEF ServerOK, SetupsOK
<1>3. CASE job.kind # "install"
  BY <1>1, <1>2, <1>3, OtherJobs, SetupsPrimed
<1>4. CASE job.kind = "install" /\ Step
  <2>1. CASE InstallPackages \/ SetPort \/ InstallClickhouse \/ SyncRole \/ PrepareExisting
    BY <1>2, <2>1, SetupSetups
  <2>2. CASE InstallPrograms \/ Create \/ ProvisionClickhouse \/ WriteEnv \/ InstallSchema \/ Partition
    BY <1>2, <1>4, <2>2, DeploySetups
  <2>3. CASE RegisterUnit \/ Serve \/ SetAdmin \/ SaveRecord
    BY <1>2, <1>4, <2>3, ServedSetups
  <2>4. CASE Reissue \/ StopSentient \/ Alter \/ Launch \/ Answer \/ PutBack \/ RemovePlatform \/ DropDatabases
             \/ RemoveRecord
    BY <1>1, <1>4, <2>4, JobFacts, StepKinds
    DEF Reissue, StopSentient, Alter, Launch, Answer, PutBack, RemovePlatform, DropDatabases, RemoveRecord
  <2> QED BY <1>4, <2>1, <2>2, <2>3, <2>4 DEF Step
<1>5. CASE job.kind = "install" /\ (Fail \/ Die)
  <2>1. ~PutsBack
    BY <1>5 DEF PutsBack
  <2>2. End("failed") \/ End("killed")
    BY <1>5, <2>1, FailsIs DEF Fail, Die, Stops
  <2> QED BY <1>1, <1>2, <1>5, <2>2, InstallEnds
<1> QED BY <1>3, <1>4, <1>5

LEMMA OperatorSetups ==
  ASSUME Tunable, OnePort, Inv, PasswordsOK, SetupsOK, Operator
  PROVE  SetupsOK'
<1>1. UpOK(pc') /\ PortOK(pc')
  <2>1. at = "idle"
    BY AdoptIs, LoseIs, ControlIs
    DEF Operator, Install, Retry, Manage, ApplySettings, StartJob, Change
  <2>2. ServerOK
    BY NextServer DEF Next
  <2> QED BY <2>1, <2>2 DEF ServerOK, SetupsOK
<1>2. ASSUME NEW new, Begin(new), new.kind # "install" \/ new.port = DefaultPort, new.kind \in Kinds
      PROVE  SetupsOK'
  <2>1. at' = StepAfter(new, 0) /\ job' = new /\ last'.job.kind # "install"
    BY <1>2 DEF Begin, Nothing, NoJob
  <2>2. new.kind = "install" => StepAfter(new, 0) = "packages"
    BY <1>2, Firsts
  <2>3. new.kind = "install" => Provides(pc', "packages", new)
    BY <1>2 DEF Provides, AfterCreate, AfterEnv
  <2> QED BY <1>1, <2>1, <2>2, <2>3, SetupsPrimed
<1>3. CASE \E c \in Plans : Install(c)
  <2>1. PICK c \in Plans : Begin(PlanOf(c))
    BY <1>3 DEF Install, StartInstall
  <2>2. PlanOf(c).kind \in Kinds /\ PlanOf(c).port = DefaultPort
    BY KindsAre DEF PlanOf, OnePort
  <2> QED BY <1>2, <2>1, <2>2
<1>4. CASE Retry
  BY <1>2, <1>4, KindsAre DEF Retry, StartInstall, SetupsOK
<1>5. CASE \/ \E kind \in {"repair", "uninstall", "delete"} : Manage(kind)
           \/ \E v \in Values : ApplySettings(v)
  <2>1. PICK kind, v : kind \in {"repair", "uninstall", "delete", "settings"} /\ Begin(FromRecord(kind, v))
    BY <1>5 DEF Manage, ApplySettings, StartJob
  <2>2. FromRecord(kind, v).kind \in Kinds \ {"install"}
    BY <2>1, KindsAre DEF FromRecord
  <2> QED BY <1>2, <2>1, <2>2
<1>6. CASE \/ Adopt \/ Reboot \/ \E run \in BOOLEAN : Control(run)
           \/ \E what \in {"env", "unit", "programs", "record"} : Lose(what)
  <2>1. at = "idle" /\ job' = job /\ last' = Nothing
    BY <1>6, AdoptIs, ControlIs, LoseIs
  <2>2. job'.kind # "install" /\ last'.job.kind # "install"
    BY <2>1 DEF Inv, JobOK, NoJob, Nothing
  <2> QED BY <1>1, <2>2, SetupsPrimed
<1> QED BY <1>3, <1>4, <1>5, <1>6 DEF Operator

LEMMA InitSetups == Init => SetupsOK
<1> SUFFICES ASSUME Init PROVE SetupsOK
  OBVIOUS
<1>1. job.kind # "install" /\ last.job.kind # "install"
  BY DEF Init, NoJob, Nothing
<1>2. pc.pg # None => pc.pg.up /\ pc.pg.port = DefaultPort
  <2>1. PICK c, shape : pc \in {Fresh, OtherUse, Left(c, shape)}
    BY DEF Init
  <2>2. Fresh.pg = None
    BY DEF Fresh
  <2>3. \A role, dbs : Cluster(role, dbs).up /\ Cluster(role, dbs).port = DefaultPort
    BY DEF Cluster
  <2>4. \E role, dbs : OtherUse.pg = Cluster(role, dbs)
    BY DEF OtherUse, Fresh
  <2>5. \E role, dbs : Left(c, shape).pg = Cluster(role, dbs)
    BY DEF Left, Fresh
  <2> QED BY <2>1, <2>2, <2>3, <2>4, <2>5
<1> QED BY <1>1, <1>2 DEF SetupsOK, UpOK, PortOK

(* Where PostgreSQL starts with every parameter it is given and no setup   *)
(* moves it to another port: a setup in which no call fails finishes, on   *)
(* whatever an earlier one, a removal or lost files left, but for          *)
(* ClickHouse's user with another password (setup, prepare_existing,       *)
(* deploy).                                                                *)
THEOREM SetupsFinish ==
  ASSUME Tunable, OnePort
  PROVE  Spec => []SetupAgainFinishes
<1>1. Init => SetupsOK
  BY InitSetups
<1>2. (Inv /\ PasswordsOK) /\ SetupsOK /\ [Next]_vars => SetupsOK'
  <2> SUFFICES ASSUME Inv, PasswordsOK, SetupsOK, [Next]_vars PROVE SetupsOK'
    OBVIOUS
  <2>1. CASE UNCHANGED vars
    <3>1. UNCHANGED <<pc, at, job, last>>
      BY <2>1 DEF vars
    <3> QED BY <3>1, SetupsPrimed DEF SetupsOK
  <2> QED BY <2>1, JobSetups, OperatorSetups DEF Next
<1>3. SetupsOK => SetupAgainFinishes
  BY DEF SetupsOK, OtherUser, SetupAgainFinishes
<1> QED BY <1>1, <1>2, <1>3, Passwords, PTL DEF Spec

----------------------------------------------------------------------------
(* Settings.                                                               *)

(* Neither saving the record of new settings nor putting the old ones back *)
(* fails, and the manager is not killed from where PostgreSQL's parameters *)
(* change to the record of them.                                           *)
Unhurt ==
  /\ \A s \in {"record", "back"} : <<"settings", s>> \notin MayFail \union MayTear
  /\ \A s \in {"alter", "launch", "answer", "record", "back"} : <<"settings", s>> \notin MayDie

(* The environment file and a running SENTIENT have a setting.             *)
Has(p, v) == (p.env # None => p.env.value = v) /\ (p.started # None => p.started.value = v)
(* The ports, and what a record found by adoption will say.                *)
PortsOK(p) ==
  /\ p.record # None => p.pg # None /\ p.pg.port = p.record.port
  /\ p.record # None /\ p.env # None => p.env.port = p.record.port
  /\ p.unit /\ p.env # None /\ p.record = None => Has(p, p.env.value)
(* The record says what there is.                                          *)
Matches(p) == p.record # None => Has(p, p.record.value.app) /\ p.pg.value = p.record.value.pg

(* An installation, and a change of settings, where it stands.             *)
InstallSets(p, a, j) ==
  /\ p.unit => Has(p, 0)
  /\ a \notin {"packages", "port"} => p.pg # None /\ p.pg.value = 0 /\ p.pg.port = j.port
Began(p, j) ==
  /\ j.port = p.record.port /\ p.record.value = j.was.value
  /\ j.was.serving => /\ j.was.value.app \notin Unfit /\ p.unit /\ p.programs
                      /\ p.pg.dbs[0] # None /\ p.pg.dbs[0].shape # "missing"
Sets(p, a, j) ==
  /\ Began(p, j)
  /\ a \in {"stop", "env"} => Has(p, j.was.value.app)
  /\ a \in {"stop", "env", "alter"} => p.pg.value = j.was.value.pg
  /\ a \in {"env", "alter", "launch"} => p.started = None
  /\ a \in {"alter", "launch", "answer", "record"} => p.env = EnvFile(j)
  /\ a \in {"launch", "answer", "record"} => p.pg.value = j.value.pg
  /\ a \in {"answer", "record"} => p.started = p.env
  /\ a = "record" => Serving(p)
  /\ a = "back" /\ j.value.pg = j.was.value.pg => p.pg.value = j.value.pg
SettingsFit(p, a, j) ==
  /\ PortsOK(p) /\ (j.kind # "settings" => Matches(p))
  /\ j.kind = "install" => InstallSets(p, a, j)
  /\ j.kind = "settings" => Sets(p, a, j)
  /\ j.kind = "repair" => j.value = p.record.value /\ j.port = p.record.port
SettingsOK ==
  /\ UpOK(pc) /\ SettingsFit(pc, at, job)
  /\ last.job.kind = "install" /\ last.end \in TriedAgain /\ pc.unit => Has(pc, 0)
  /\ SettingsTogether

LEMMA SettingsPrimed ==
  ASSUME UpOK(pc'), SettingsFit(pc', at', job'),
         last'.job.kind = "install" /\ last'.end \in TriedAgain /\ pc'.unit => Has(pc', 0),
         SettingsTogether'
  PROVE  SettingsOK'
<1>1. UpOK(pc)'
  BY Zenon DEF UpOK
<1>2. PortsOK(pc)'
  BY Zenon DEF SettingsFit, PortsOK, Has
<1>3. (job.kind # "settings" => Matches(pc))'
  BY Zenon DEF SettingsFit, Matches, Has
<1>4. (job.kind = "install" => InstallSets(pc, at, job))'
  BY Zenon DEF SettingsFit, InstallSets, Has
<1>5. (job.kind = "settings" => Sets(pc, at, job))'
  <2> SUFFICES ASSUME job'.kind = "settings" PROVE Sets(pc, at, job)'
    OBVIOUS
  <2>1. Sets(pc', at', job')
    BY DEF SettingsFit
  <2>2. Began(pc, job)'
    BY <2>1, Zenon DEF Sets, Began
  <2>3. (at \in {"stop", "env"} => Has(pc, job.was.value.app))'
    BY <2>1, Zenon DEF Sets, Has
  <2>4. Serving(pc') => Serving(pc)'
    BY Zenon DEF Serving, Sql
  <2>5. EnvFile(job') = EnvFile(job)'
    BY DEF EnvFile
  <2> QED BY <2>1, <2>2, <2>3, <2>4, <2>5 DEF Sets
<1>6. (job.kind = "repair" => job.value = pc.record.value /\ job.port = pc.record.port)'
  BY Zenon DEF SettingsFit
<1>7. (last.job.kind = "install" /\ last.end \in TriedAgain /\ pc.unit => Has(pc, 0))'
  BY Zenon DEF Has, TriedAgain
<1> QED BY <1>1, <1>2, <1>3, <1>4, <1>5, <1>6, <1>7 DEF SettingsOK, SettingsFit

(* What a step that does not touch the settings leaves as it was.          *)
Steady(p, q) ==
  /\ q.env = p.env /\ q.record = p.record /\ q.started \in {None, p.started, p.env}
  /\ p.pg = None <=> q.pg = None
  /\ p.pg # None => q.pg.port = p.pg.port /\ q.pg.value = p.pg.value
  /\ q.unit => p.unit \/ p.record # None
LEMMA SteadyIs ==
  ASSUME NEW p, NEW q, Steady(p, q)
  PROVE  /\ \A v : Has(p, v) => Has(q, v)
         /\ PortsOK(p) => PortsOK(q)
         /\ PortsOK(p) /\ Matches(p) => Matches(q)
<1>1. \A v : Has(p, v) => Has(q, v)
  BY DEF Steady, Has
<1>2. PortsOK(p) => PortsOK(q)
  BY <1>1 DEF Steady, PortsOK
<1>3. PortsOK(p) /\ Matches(p) => Matches(q)
  BY <1>1 DEF Steady, Matches, PortsOK
<1> QED BY <1>1, <1>2, <1>3

(* Jobs where they stand.                                                  *)
LEMMA SettingsFacts ==
  ASSUME Inv, PasswordsOK, SettingsOK, at # "idle"
  PROVE  /\ UpOK(pc) /\ PortsOK(pc) /\ last = Nothing /\ job \in Job /\ at \in ToSet(Paths[job.kind])
         /\ job.kind # "settings" => Matches(pc)
         /\ job.kind = "install" => InstallSets(pc, at, job) /\ Installs(pc, at, job) /\ Tried(pc, job) /\ ~PutsBack
         /\ job.kind = "settings" => Sets(pc, at, job) /\ Manages(pc, at, job) /\ Take(pc, job)
         /\ job.kind = "repair" => job.value = pc.record.value /\ job.port = pc.record.port
         /\ job.kind \in {"repair", "uninstall", "delete"} => Manages(pc, at, job) /\ pc.record # None /\ ~PutsBack
BY JobFacts, KindsAre DEF SettingsOK, SettingsFit, PutsBack, Manages

LEMMA InstallSettingsEnds ==
  ASSUME job.kind = "install", UpOK(pc'), NEW how, End(how), PortsOK(pc'), Matches(pc'),
         how \in TriedAgain /\ pc'.unit => Has(pc', 0)
  PROVE  SettingsOK'
<1>1. job'.kind = "none" /\ last'.job = job /\ last'.end = how
  BY DEF End, NoJob
<1>2. SettingsTogether'
  BY <1>1 DEF SettingsTogether
<1>3. SettingsFit(pc', at', job')
  BY <1>1 DEF SettingsFit
<1> QED BY <1>1, <1>2, <1>3, SettingsPrimed

(* What an installation that has no record yet needs.                      *)
LEMMA NoRecordYet ==
  ASSUME NEW p, p.record = None, p.unit => Has(p, 0)
  PROVE  PortsOK(p) /\ Matches(p)
BY DEF PortsOK, Matches, Has

LEMMA InstallSettingsGoes ==
  ASSUME Inv, PasswordsOK, SettingsOK, at \notin {"idle", "record"}, job.kind = "install", UpOK(pc'), Goes,
         pc'.record = None, InstallSets(pc', Following, job)
  PROVE  SettingsOK'
<1>1. at' = Following /\ job' = job /\ last' = Nothing
  BY JobFacts DEF Goes
<1>2. last'.job.kind = "none"
  BY <1>1 DEF Nothing, NoJob
<1>3. SettingsTogether'
  BY <1>2 DEF SettingsTogether
<1>4. SettingsFit(pc', at', job')
  BY <1>1, NoRecordYet DEF SettingsFit, InstallSets
<1> QED BY <1>2, <1>3, <1>4, SettingsPrimed

LEMMA InstallSettingsStops ==
  ASSUME Inv, PasswordsOK, SettingsOK, at # "idle", job.kind = "install", UpOK(pc'),
         pc'.record = None, pc'.unit => Has(pc', 0), (\E how : Stops(how) \/ End(how))
  PROVE  SettingsOK'
<1>1. PICK how : End(how)
  BY SettingsFacts DEF Stops
<1> QED BY <1>1, NoRecordYet, InstallSettingsEnds

LEMMA InstallSettingsSteady ==
  ASSUME Inv, PasswordsOK, SettingsOK, at \notin {"idle", "record", "packages", "port"}, job.kind = "install",
         UpOK(pc'), Steady(pc, pc'), (\E how : Stops(how) \/ End(how)) \/ Goes
  PROVE  SettingsOK'
<1>1. /\ InstallSets(pc, at, job) /\ pc.record = None /\ at \in ToSet(Paths["install"])
  BY SettingsFacts DEF Tried
<1>2. pc'.record = None /\ (pc'.unit => Has(pc', 0)) /\ pc'.pg # None /\ pc'.pg.value = 0 /\ pc'.pg.port = job.port
  BY <1>1, SteadyIs DEF InstallSets, Steady
<1>3. InstallSets(pc', Following, job)
  BY <1>2 DEF InstallSets
<1> QED BY <1>2, <1>3, InstallSettingsStops, InstallSettingsGoes

LEMMA SetupSettings ==
  ASSUME Inv, PasswordsOK, SettingsOK, UpOK(pc'), InstallPackages \/ SetPort
  PROVE  SettingsOK'
<1>1. at \in {"packages", "port"} /\ at \notin {"idle", "record"}
  BY DEF InstallPackages, SetPort
<1>2. job.kind = "install"
  BY <1>1, JobFacts, StepKinds
<1>3. InstallSets(pc, at, job) /\ pc.record = None /\ at \in ToSet(Paths["install"]) /\ job.value = DefaultValue
  BY <1>1, <1>2, SettingsFacts DEF Tried
<1>4. CASE InstallPackages
  <2>1. Goes /\ Files(pc, pc') /\ pc'.started = pc.started /\ at = "packages"
    BY <1>4, InstallPackagesIs DEF InstallPackages
  <2>2. Following = "port"
    BY <1>2, <1>3, <2>1, InstallNext
  <2>3. pc'.record = None /\ InstallSets(pc', Following, job)
    BY <1>3, <2>1, <2>2 DEF InstallSets, Has, Files
  <2> QED BY <1>1, <1>2, <2>1, <2>3, InstallSettingsGoes
<1>5. CASE SetPort /\ Stuck
  BY <1>1, <1>2, <1>3, <1>5, InstallSettingsStops DEF Stuck, InstallSets
<1>6. CASE SetPort /\ ~Stuck
  <2>1. /\ Goes /\ Files(pc, pc') /\ pc'.pg # None /\ pc'.pg.port = job.port /\ pc'.pg.value = 0
        /\ pc'.started \in {None, pc.env}
    BY <1>3, <1>6, SetPortIs DEF DefaultValue
  <2>2. pc'.record = None /\ InstallSets(pc', Following, job)
    BY <1>3, <2>1 DEF InstallSets, Has, Files
  <2> QED BY <1>1, <1>2, <2>1, <2>2, InstallSettingsGoes
<1> QED BY <1>4, <1>5, <1>6

(* The steps of an installation and a repair that touch no setting.        *)
LEMMA SteadySteps ==
  ASSUME Inv, at # "idle",
         \/ InstallClickhouse \/ SyncRole \/ PrepareExisting \/ InstallPrograms \/ Create \/ ProvisionClickhouse
         \/ InstallSchema \/ Partition \/ Serve \/ SetAdmin
  PROVE  /\ Steady(pc, pc') /\ (Goes \/ \E how : Stops(how))
         /\ at \notin {"packages", "port", "env", "record"}
<1>1. CASE InstallClickhouse \/ InstallPrograms \/ ProvisionClickhouse \/ Serve
  BY <1>1, InstallClickhouseIs, InstallProgramsIs, ProvisionClickhouseIs, ServeIs
  DEF Steady, Files, Stuck, InstallClickhouse, InstallPrograms, ProvisionClickhouse, Serve
<1>2. CASE SyncRole \/ PrepareExisting
  BY <1>2, SyncRoleIs, PrepareExistingIs DEF Steady, Files, Server, Stuck, Sql, SyncRole, PrepareExisting
<1>3. CASE Create \/ InstallSchema
  BY <1>3, CreateIs, InstallSchemaIs DEF Steady, Files, Server, Sql, Create, InstallSchema
<1>4. CASE Partition \/ SetAdmin
  BY <1>4, PartitionIs, SetAdminIs DEF Steady, Files, Server, Stuck, Sql, Partition, SetAdmin
<1> QED BY <1>1, <1>2, <1>3, <1>4

(* ... and those that write them: the default ones.                        *)
LEMMA InstallWrites ==
  ASSUME Inv, PasswordsOK, SettingsOK, UpOK(pc'), job.kind = "install",
         WriteEnv \/ RegisterUnit \/ SaveRecord \/ (at = "unit" /\ pc' = Torn(at) /\ Stops("failed"))
  PROVE  SettingsOK'
<1>1. at \in {"env", "unit", "record"} /\ at # "idle"
  BY DEF WriteEnv, RegisterUnit, SaveRecord
<1>2. /\ InstallSets(pc, at, job) /\ Installs(pc, at, job) /\ pc.record = None /\ job.value = DefaultValue
      /\ at \in ToSet(Paths["install"])
  BY <1>1, SettingsFacts DEF Tried
<1>3. pc.pg # None /\ pc.pg.value = 0 /\ pc.pg.port = job.port
  BY <1>1, <1>2 DEF InstallSets
<1>4. at \in {"unit", "record"} => pc.env = EnvFile(job)
  BY <1>2 DEF Installs, AfterEnv
<1>5. EnvFile(job).value = 0 /\ EnvFile(job).port = job.port
  BY <1>2 DEF EnvFile, DefaultValue
<1>6. CASE WriteEnv
  <2>1. /\ Goes /\ pc'.env = EnvFile(job) /\ pc'.pg = pc.pg /\ pc'.unit = pc.unit /\ pc'.started = pc.started
        /\ pc'.record = pc.record /\ at = "env"
    BY <1>6, WriteEnvIs DEF WriteEnv
  <2>2. InstallSets(pc', Following, job)
    BY <1>2, <1>3, <1>5, <2>1 DEF InstallSets, Has
  <2> QED BY <1>1, <1>2, <2>1, <2>2, InstallSettingsGoes
<1>7. CASE RegisterUnit
  <2>1. at = "unit"
    BY <1>7 DEF RegisterUnit
  <2>2. /\ pc'.env = pc.env /\ pc'.record = pc.record /\ Served(pc, pc') /\ pc'.pg.value = pc.pg.value
        /\ pc'.started \in {None, pc.env} /\ (Goes \/ Stops("stuck"))
    BY <1>3, <1>7, RegisterUnitIs
  <2>3. InstallSets(pc', Following, job) /\ Has(pc', 0)
    BY <1>3, <1>4, <1>5, <2>1, <2>2 DEF InstallSets, Has, Served
  <2> QED BY <1>1, <1>2, <2>1, <2>2, <2>3, InstallSettingsGoes, InstallSettingsStops
<1>8. CASE SaveRecord
  <2>1. /\ Goes /\ pc'.record = Recorded(EnvFile(job), job.value) /\ pc'.record # None /\ pc'.pg = pc.pg
        /\ pc'.started = pc.started /\ pc'.env = pc.env /\ at = "record"
    BY <1>8, SaveRecordIs DEF SaveRecord
  <2>2. End("done")
    BY <2>1 DEF Goes, Ends
  <2>3. pc'.record.port = job.port /\ pc'.record.value = DefaultValue
    BY <1>2, <1>5, <2>1 DEF Recorded
  <2>4. Has(pc, 0)
    BY <1>2, <2>1 DEF Installs, InstallSets
  <2>5. PortsOK(pc') /\ Matches(pc')
    BY <1>3, <1>4, <1>5, <2>1, <2>3, <2>4 DEF PortsOK, Matches, Has, DefaultValue
  <2> QED BY <2>2, <2>5, InstallSettingsEnds DEF TriedAgain
<1>9. CASE at = "unit" /\ pc' = Torn(at) /\ Stops("failed")
  <2>1. pc'.env = pc.env /\ pc'.record = pc.record /\ pc'.started \in {None, pc.started}
    BY <1>9, TornIs
  <2>2. pc'.started = None
    <3>1. Halted(pc) \in Computer /\ Halted(pc).started = None
      BY <1>1, StepFacts, HaltedIs
    <3>2. pc' = [Halted(pc) EXCEPT !.unit = TRUE]
      BY <1>9 DEF Torn
    <3> QED BY <3>1, <3>2 DEF Computer
  <2>3. Has(pc', 0)
    BY <1>4, <1>5, <1>9, <2>1, <2>2 DEF Has
  <2> QED BY <1>1, <1>2, <1>9, <2>1, <2>3, InstallSettingsStops
<1> QED BY <1>6, <1>7, <1>8, <1>9

(* The steps of a repair and of a removal.                                 *)
LEMMA ManagedSettings ==
  ASSUME Inv, PasswordsOK, SettingsOK, at # "idle", job.kind \in {"repair", "uninstall", "delete"},
         UpOK(pc'), PortsOK(pc'), Matches(pc'), job.kind = "repair" => pc'.record = pc.record,
         Goes \/ (\E how : Stops(how) \/ End(how)) \/ (at' = Following /\ UNCHANGED <<job, last>>)
  PROVE  SettingsOK'
<1>1. CASE \E how : End(how)
  <2>1. job'.kind = "none" /\ last'.job = job
    BY <1>1 DEF End, NoJob
  <2> QED BY <2>1, SettingsPrimed DEF SettingsFit, SettingsTogether
<1>2. CASE job' = job /\ last' = last
  <2>1. last'.job.kind = "none"
    BY <1>2, SettingsFacts DEF Nothing, NoJob
  <2>2. job.kind = "repair" => job.value = pc'.record.value /\ job.port = pc'.record.port
    BY SettingsFacts
  <2> QED BY <1>2, <2>1, <2>2, SettingsPrimed DEF SettingsFit, SettingsTogether
<1> QED BY <1>1, <1>2, SettingsFacts DEF Goes, Stops

LEMMA ManagedSteady ==
  ASSUME Inv, PasswordsOK, SettingsOK, at # "idle", job.kind \in {"repair", "uninstall", "delete"},
         UpOK(pc'), Steady(pc, pc'),
         Goes \/ (\E how : Stops(how) \/ End(how)) \/ (at' = Following /\ UNCHANGED <<job, last>>)
  PROVE  SettingsOK'
<1>1. PortsOK(pc') /\ Matches(pc')
  BY SettingsFacts, SteadyIs
<1> QED BY <1>1, ManagedSettings DEF Steady

LEMMA RepairSettings ==
  ASSUME Inv, PasswordsOK, SettingsOK, UpOK(pc'), job.kind = "repair", WriteEnv \/ RegisterUnit \/ Reissue
  PROVE  SettingsOK'
<1>1. at \in {"env", "unit", "reissue"} /\ at # "idle"
  BY DEF WriteEnv, RegisterUnit, Reissue
<1>2. /\ PortsOK(pc) /\ Matches(pc) /\ pc.record # None /\ job \in Job /\ last = Nothing
      /\ job.value = pc.record.value /\ job.port = pc.record.port
  BY <1>1, SettingsFacts
<1>3. CASE WriteEnv
  <2>1. /\ Goes /\ pc'.env = EnvFile(job) /\ pc'.pg = pc.pg /\ pc'.started = pc.started /\ pc'.record = pc.record
    BY <1>3, WriteEnvIs
  <2>2. pc'.env.value = pc.record.value.app /\ pc'.env.port = pc.record.port
    BY <1>2, <2>1 DEF EnvFile
  <2>3. PortsOK(pc') /\ Matches(pc')
    BY <1>2, <2>1, <2>2 DEF PortsOK, Matches, Has
  <2> QED BY <1>1, <2>1, <2>3, ManagedSettings
<1>4. CASE RegisterUnit
  <2>1. Steady(pc, pc') /\ (Goes \/ Stops("stuck"))
    BY <1>2, <1>4, RegisterUnitIs DEF Steady, Served
  <2> QED BY <1>1, <2>1, ManagedSteady
<1>5. CASE Reissue /\ pc' = pc /\ Stops("refused")
  <2>1. Steady(pc, pc')
    BY <1>5 DEF Steady
  <2> QED BY <1>1, <1>5, <2>1, ManagedSteady
<1>6. CASE /\ Files(pc, pc') /\ pc'.started = pc.started /\ Server(pc, pc') /\ job' = Reissued
           /\ last' = last /\ pc.pg # None
  <2>1. Steady(pc, pc') /\ pc'.record = pc.record
    BY <1>6 DEF Steady, Files, Server
  <2>2. PortsOK(pc') /\ Matches(pc')
    BY <1>2, <2>1, SteadyIs
  <2>3. job'.kind = "repair" /\ job'.value = job.value /\ job'.port = job.port /\ last'.job.kind = "none"
    BY <1>2, <1>6 DEF Reissued, Job, Nothing, NoJob
  <2> QED BY <1>2, <2>1, <2>2, <2>3, SettingsPrimed DEF SettingsFit, SettingsTogether
<1> QED BY <1>3, <1>4, <1>5, <1>6, ReissueIs

LEMMA RemoveSettings ==
  ASSUME Inv, PasswordsOK, SettingsOK, UpOK(pc'), RemovePlatform \/ DropDatabases \/ RemoveRecord
  PROVE  SettingsOK'
<1>1. at \in {"remove", "drop", "unrecord"} /\ at # "idle"
  BY DEF RemovePlatform, DropDatabases, RemoveRecord
<1>2. job.kind \in {"uninstall", "delete"}
  BY <1>1, JobFacts, StepKinds
<1>3. PortsOK(pc) /\ Matches(pc) /\ pc.record # None /\ (at # "remove" => pc.env = None)
  BY <1>1, <1>2, SettingsFacts DEF Manages
<1>4. CASE RemovePlatform
  <2>1. /\ Goes /\ pc'.env = None /\ pc'.started = None /\ pc'.pg = pc.pg /\ pc'.record = pc.record
    BY <1>4, RemovePlatformIs
  <2>2. PortsOK(pc') /\ Matches(pc')
    BY <1>3, <2>1 DEF PortsOK, Matches, Has
  <2> QED BY <1>1, <1>2, <2>1, <2>2, ManagedSettings
<1>5. CASE DropDatabases
  <2>1. Steady(pc, pc') /\ at' = Following /\ UNCHANGED <<job, last>>
    BY <1>5, DropDatabasesIs DEF Steady, Files, Server
  <2> QED BY <1>1, <1>2, <2>1, ManagedSteady
<1>6. CASE RemoveRecord
  <2>1. Goes /\ pc'.record = None /\ pc'.env = None
    BY <1>3, <1>6, RemoveRecordIs DEF RemoveRecord
  <2>2. PortsOK(pc') /\ Matches(pc')
    BY <2>1 DEF PortsOK, Matches
  <2> QED BY <1>1, <1>2, <2>1, <2>2, ManagedSettings
<1> QED BY <1>4, <1>5, <1>6

(* A change of settings goes on, or starts to put the old ones back.       *)
LEMMA ChangeGoes ==
  ASSUME Inv, PasswordsOK, SettingsOK, at # "idle", job.kind = "settings", UpOK(pc'), PortsOK(pc'),
         NEW next, at' = next, UNCHANGED <<job, last>>, Sets(pc', next, job)
  PROVE  SettingsOK'
<1>1. last'.job.kind = "none"
  BY SettingsFacts DEF Nothing, NoJob
<1>2. SettingsFit(pc', at', job')
  BY DEF SettingsFit
<1> QED BY <1>1, <1>2, SettingsPrimed DEF SettingsTogether

LEMMA StillBegan ==
  ASSUME Began(pc, job), pc.pg # None, Served(pc, pc'), Files(pc, pc')
  PROVE  Began(pc', job)
BY DEF Began, Served, Files

LEMMA ChangeStops ==
  ASSUME Inv, PasswordsOK, SettingsOK, job.kind = "settings", UpOK(pc'),
         at \in {"stop", "env", "alter", "launch", "answer"}, (\E how : Stops(how)),
         Steady(pc, pc'), pc'.pg = pc.pg, pc'.unit = pc.unit, pc'.programs = pc.programs
  PROVE  SettingsOK'
<1>1. at # "idle" /\ Sets(pc, at, job) /\ PortsOK(pc)
  BY SettingsFacts
<1>2. PutsBack
  <2>1. /\ Len(ReconfigureSteps) = 4 /\ DOMAIN ReconfigureSteps = 1..4 /\ ReconfigureSteps[1] = "stop"
        /\ ReconfigureSteps[2] = "env" /\ ReconfigureSteps[3] = "alter" /\ ReconfigureSteps[4] = "launch"
    BY DEF ReconfigureSteps
  <2> QED BY <2>1 DEF PutsBack, ToSet
<1>3. at' = "back" /\ UNCHANGED <<job, last>>
  BY <1>2 DEF Stops
<1>4. Sets(pc', "back", job)
  BY <1>1 DEF Sets, Began, Steady
<1> QED BY <1>1, <1>3, <1>4, SteadyIs, ChangeGoes

LEMMA ReconfigureSettings ==
  ASSUME Tunable, Inv, PasswordsOK, SettingsOK, job.kind = "settings", UpOK(pc'),
         StopSentient \/ WriteEnv \/ Alter \/ Launch \/ Answer
  PROVE  SettingsOK'
<1>1. at \in {"stop", "env", "alter", "launch", "answer"} /\ at # "idle"
  BY DEF StopSentient, WriteEnv, Alter, Launch, Answer
<1>2. /\ Sets(pc, at, job) /\ PortsOK(pc) /\ UpOK(pc) /\ at \in ToSet(Paths["settings"])
      /\ pc.record # None /\ pc.pg # None /\ Began(pc, job)
  BY <1>1, SettingsFacts DEF Manages, PortsOK, Sets
<1>3. /\ at = "stop" => Following = "env"
      /\ at = "env" => Following = "alter" \/ (Following = "launch" /\ job.value.pg = job.was.value.pg)
      /\ at = "alter" => Following = "launch"
      /\ at = "launch" => Following = "answer"
      /\ at = "answer" => Following = "record"
  BY <1>1, <1>2, SettingsNext
<1>4. Goes => at' = Following /\ UNCHANGED <<job, last>>
  BY <1>1, Lasts DEF Goes, Ends
<1>5. Sql(pc, job.port)
  BY <1>2 DEF Sql, UpOK, PortsOK, Began
<1>6. CASE StopSentient
  <2>1. /\ Goes /\ pc'.pg = pc.pg /\ Files(pc, pc') /\ pc'.started = None /\ at = "stop"
    BY <1>6, StopSentientIs DEF StopSentient
  <2>2. Steady(pc, pc') /\ Began(pc', job)
    BY <1>2, <2>1 DEF Steady, Files, Began
  <2>3. Sets(pc', "env", job)
    BY <1>2, <2>1, <2>2, SteadyIs DEF Sets
  <2> QED BY <1>1, <1>2, <1>3, <1>4, <2>1, <2>2, <2>3, SteadyIs, ChangeGoes
<1>7. CASE WriteEnv
  <2>1. /\ Goes /\ pc'.env = EnvFile(job) /\ pc'.env # None /\ pc'.pg = pc.pg /\ pc'.programs = pc.programs
        /\ pc'.unit = pc.unit /\ pc'.started = pc.started /\ pc'.record = pc.record /\ at = "env"
    BY <1>7, WriteEnvIs DEF WriteEnv
  <2>2. Began(pc', job) /\ PortsOK(pc')
    BY <1>2, <2>1 DEF Began, PortsOK, EnvFile
  <2>3. Sets(pc', Following, job)
    BY <1>2, <1>3, <2>1, <2>2 DEF Sets
  <2> QED BY <1>1, <1>4, <2>1, <2>2, <2>3, ChangeGoes
<1>8. CASE Alter
  <2>1. /\ Goes /\ Files(pc, pc') /\ Served(pc, pc') /\ pc'.pg.value = job.value.pg
        /\ pc.started = None => pc'.started = None
    BY <1>5, <1>8, AlterIs DEF Tunable
  <2>2. at = "alter" /\ pc'.started = None
    BY <1>2, <1>8, <2>1 DEF Alter, Sets
  <2>3. Began(pc', job) /\ PortsOK(pc')
    BY <1>2, <2>1, StillBegan DEF PortsOK, Files, Served
  <2>4. Sets(pc', "launch", job)
    BY <1>2, <2>1, <2>2, <2>3 DEF Sets, Files
  <2> QED BY <1>1, <1>3, <1>4, <2>1, <2>2, <2>3, <2>4, ChangeGoes
<1>9. CASE Launch /\ pc' = pc /\ Stops("failed")
  BY <1>1, <1>9, ChangeStops DEF Steady
<1>10. CASE Launch /\ Goes /\ Files(pc, pc') /\ Served(pc, pc') /\ pc'.pg.value = pc.pg.value
            /\ pc'.started = (IF pc.started = None THEN pc.env ELSE pc.started)
  <2>1. at = "launch" /\ pc'.started = pc.env
    BY <1>2, <1>10 DEF Launch, Sets
  <2>2. Began(pc', job) /\ PortsOK(pc')
    BY <1>2, <1>10, StillBegan DEF PortsOK, Files, Served
  <2>3. Sets(pc', "answer", job)
    BY <1>2, <1>10, <2>1, <2>2 DEF Sets, Files
  <2> QED BY <1>1, <1>3, <1>4, <1>10, <2>1, <2>2, <2>3, ChangeGoes
<1>11. CASE Answer
  <2>1. pc' = pc /\ at = "answer" /\ (IF Serving(pc) THEN Goes ELSE Stops("failed"))
    BY <1>11, AnswerIs DEF Answer
  <2>2. CASE Serving(pc)
    <3>1. Sets(pc, "record", job)
      BY <1>2, <2>1, <2>2 DEF Sets
    <3> QED BY <1>1, <1>2, <1>3, <1>4, <2>1, <2>2, <3>1, ChangeGoes
  <2>3. CASE ~Serving(pc)
    BY <1>1, <2>1, <2>3, ChangeStops DEF Steady
  <2> QED BY <2>2, <2>3
<1> QED BY <1>6, <1>7, <1>8, <1>9, <1>10, <1>11, LaunchIs

(* The end of a change: the new settings are recorded, or the old ones are *)
(* back.                                                                   *)
LEMMA ChangeRecorded ==
  ASSUME Inv, PasswordsOK, SettingsOK, job.kind = "settings", UpOK(pc'), SaveRecord
  PROVE  SettingsOK'
<1>1. at = "record" /\ at # "idle"
  BY DEF SaveRecord
<1>2. /\ Sets(pc, at, job) /\ PortsOK(pc) /\ pc.record # None /\ pc.pg # None /\ job \in Job
  BY <1>1, SettingsFacts DEF Manages, PortsOK
<1>3. /\ Goes /\ pc'.record = Recorded(EnvFile(job), job.value) /\ pc'.record # None /\ pc'.pg = pc.pg
      /\ pc'.ch = pc.ch /\ pc'.started = pc.started /\ pc'.env = pc.env
  BY SaveRecordIs
<1>4. job'.kind = "none" /\ last'.job = job /\ last'.end = "done"
  BY <1>1, <1>3 DEF Goes, Ends, End, NoJob
<1>5. /\ pc.env = EnvFile(job) /\ pc.started = pc.env /\ pc.pg.value = job.value.pg /\ Serving(pc)
      /\ job.port = pc.record.port
  BY <1>1, <1>2 DEF Sets, Began
<1>6. pc'.record.value = job.value /\ pc'.record.port = job.port /\ pc.env.value = job.value.app
      /\ pc.env.port = job.port
  BY <1>3, <1>5 DEF Recorded, EnvFile
<1>7. PortsOK(pc') /\ Matches(pc')
  BY <1>2, <1>3, <1>5, <1>6 DEF PortsOK, Matches, Has
<1>8. Serving(pc')
  BY <1>3, <1>5 DEF Serving, Sql
<1>9. SettingsTogether'
  <2>1. Serving(pc)'
    BY <1>8 DEF Serving, Sql
  <2> QED BY <1>3, <1>4, <1>5, <1>6, <2>1 DEF SettingsTogether
<1> QED BY <1>4, <1>7, <1>9, SettingsPrimed DEF SettingsFit

LEMMA ChangeUndone ==
  ASSUME Tunable, Inv, PasswordsOK, SettingsOK, UpOK(pc'), PutBack
  PROVE  SettingsOK'
<1>1. at = "back" /\ at # "idle"
  BY DEF PutBack
<1>2. job.kind = "settings"
  BY <1>1, JobFacts, StepKinds
<1>3. /\ Sets(pc, at, job) /\ PortsOK(pc) /\ UpOK(pc) /\ Take(pc, job) /\ job \in Job
      /\ pc.record # None /\ pc.pg # None /\ Began(pc, job)
  BY <1>1, <1>2, SettingsFacts DEF Manages, PortsOK, Sets
<1>4. pc.pg.up /\ pc.pg.port = job.port
  BY <1>3 DEF UpOK, PortsOK, Began
<1>5. /\ End("undone") /\ pc'.ch = pc.ch /\ pc'.programs = pc.programs /\ pc'.unit = pc.unit
      /\ pc'.record = pc.record /\ pc'.env = OldEnv /\ pc'.env # None /\ Served(pc, pc')
      /\ pc'.started \in {None, OldEnv}
      /\ pc'.pg.value = (IF job.value.pg = job.was.value.pg THEN pc.pg.value ELSE job.was.value.pg)
      /\ pc.unit /\ pc.programs => pc'.started = OldEnv
  BY <1>3, <1>4, PutBackIs DEF Tunable, Take
<1>6. pc'.pg.value = job.was.value.pg
  BY <1>1, <1>3, <1>5 DEF Sets
<1>7. /\ OldEnv.value = job.was.value.app /\ OldEnv.port = job.port /\ OldEnv.flavor = job.flavor
      /\ OldEnv.pw = job.pw /\ OldEnv.chpw = job.chpw
  BY <1>3 DEF OldEnv, EnvFile, Job
<1>8. pc'.record.value = job.was.value /\ pc'.record.port = job.port
  BY <1>3, <1>5 DEF Began
<1>9. job'.kind = "none" /\ last'.job = job /\ last'.end = "undone"
  BY <1>5 DEF End, NoJob
<1>10. PortsOK(pc') /\ Matches(pc')
  BY <1>3, <1>4, <1>5, <1>6, <1>7, <1>8 DEF PortsOK, Matches, Has, Served
<1>11. job.was.serving => Serving(pc')
  BY <1>3, <1>4, <1>5, <1>7 DEF Began, Serving, Sql, Take, Served, UpOK
<1>12. SettingsTogether'
  <2>1. Serving(pc') => Serving(pc)'
    BY DEF Serving, Sql
  <2> QED BY <1>5, <1>6, <1>7, <1>8, <1>9, <1>11, <2>1 DEF SettingsTogether
<1> QED BY <1>2, <1>9, <1>10, <1>12, SettingsPrimed DEF SettingsFit

(* What fails, and before which the manager is killed.                     *)
LEMMA InterruptedSettings ==
  ASSUME Unhurt, Inv, PasswordsOK, SettingsOK, UpOK(pc'), Fail \/ Die
  PROVE  SettingsOK'
<1>1. at # "idle"
  BY LinuxSetupAssumption, InSteps DEF Fail, Die
<1>2. /\ PortsOK(pc) /\ at \in ToSet(Paths[job.kind]) /\ job.kind \in Kinds
      /\ job.kind # "settings" => Matches(pc)
  BY <1>1, SettingsFacts, JobFacts
<1>3. CASE Fail
  <2>1. /\ Stops("failed") /\ (pc' = pc \/ pc' = Torn(at))
        /\ <<job.kind, at>> \in MayFail \union MayTear
    BY <1>3, FailsIs DEF Fail
  <2>2. /\ pc'.env = pc.env /\ pc'.record = pc.record /\ pc'.programs = pc.programs
        /\ pc'.unit = pc.unit \/ (at = "unit" /\ pc'.unit) \/ (at = "remove" /\ ~pc'.unit)
        /\ pc'.started \in {None, pc.started}
        /\ pc.pg = None <=> pc'.pg = None
        /\ pc.pg # None => pc'.pg.port = pc.pg.port /\ pc'.pg.value = pc.pg.value
        /\ at # "reissue" => pc'.pg = pc.pg
    BY <1>1, <2>1, TornIs DEF Server
  <2>3. CASE job.kind = "install"
    <3>1. InstallSets(pc, at, job) /\ pc.record = None /\ at \notin {"reissue", "remove"}
      BY <1>1, <1>2, <2>3, SettingsFacts, StepKinds DEF Tried
    <3>2. CASE at = "unit" /\ pc' = Torn(at)
      BY <2>1, <2>3, <3>2, InstallWrites
    <3>3. CASE ~(at = "unit" /\ pc' = Torn(at))
      <4>1. pc'.unit = pc.unit
        BY <2>1, <2>2, <3>1, <3>3
      <4>2. pc'.record = None /\ (pc'.unit => Has(pc', 0))
        BY <2>2, <3>1, <4>1 DEF InstallSets, Has
      <4> QED BY <1>1, <2>1, <2>3, <4>2, InstallSettingsStops
    <3> QED BY <3>2, <3>3
  <2>4. CASE job.kind \in {"repair", "uninstall", "delete"}
    <3>1. Steady(pc, pc')
      BY <1>1, <2>2, <2>4, SettingsFacts DEF Steady
    <3> QED BY <1>1, <2>1, <2>4, <3>1, ManagedSteady
  <2>5. CASE job.kind = "settings"
    <3>1. at \notin {"unit", "remove", "reissue", "record", "back"} /\ at \in ToSet(Paths["settings"])
      BY <1>2, <2>1, <2>5, StepKinds, DeployIs DEF Unhurt
    <3>2. at \in {"stop", "env", "alter", "launch", "answer"}
      BY <3>1, OtherSteps DEF ToSet
    <3>3. Steady(pc, pc') /\ pc'.pg = pc.pg /\ pc'.unit = pc.unit
      BY <2>2, <3>1 DEF Steady
    <3> QED BY <2>1, <2>2, <2>5, <3>2, <3>3, ChangeStops
  <2> QED BY <1>2, <2>3, <2>4, <2>5, KindsAre
<1>4. CASE Die
  <2>1. End("killed") /\ pc' = pc /\ <<job.kind, at>> \in MayDie
    BY <1>4 DEF Die
  <2>2. job'.kind = "none" /\ last'.end = "killed" /\ "killed" \notin TriedAgain
    BY <2>1 DEF End, NoJob, TriedAgain
  <2>3. Matches(pc)
    <3>1. CASE job.kind = "settings"
      <4>1. at \in ToSet(Paths["settings"]) /\ at \notin {"alter", "launch", "answer", "record", "back"}
        BY <1>2, <2>1, <3>1 DEF Unhurt
      <4>2. at \in {"stop", "env"}
        BY <4>1, OtherSteps DEF ToSet
      <4> QED BY <1>1, <3>1, <4>2, SettingsFacts DEF Sets, Began, Matches
    <3> QED BY <1>2, <3>1
  <2> QED BY <1>2, <2>1, <2>2, <2>3, SettingsPrimed DEF SettingsFit, SettingsTogether
<1> QED BY <1>3, <1>4

LEMMA JobSettings ==
  ASSUME Tunable, Unhurt, Inv, PasswordsOK, SettingsOK, Step \/ Fail \/ Die
  PROVE  SettingsOK'
<1>1. at # "idle"
  <2>1. CASE Step
    BY <2>1, OwnSteps
    DEF Step, InstallPackages, SetPort, InstallClickhouse, SyncRole, PrepareExisting, InstallPrograms, Create,
        ProvisionClickhouse, WriteEnv, InstallSchema, Partition, RegisterUnit, Serve, SetAdmin, SaveRecord,
        Reissue, StopSentient, Alter, Launch, Answer, PutBack, RemovePlatform, DropDatabases, RemoveRecord
  <2>2. CASE Fail \/ Die
    BY <2>2, LinuxSetupAssumption, InSteps DEF Fail, Die
  <2> QED BY <2>1, <2>2
<1>2. UpOK(pc')
  <2>1. ServerOK
    BY NextServer DEF Next
  <2> QED BY <2>1 DEF ServerOK, SettingsOK
<1>3. CASE InstallPackages \/ SetPort
  BY <1>2, <1>3, SetupSettings
<1>4. CASE \/ InstallClickhouse \/ SyncRole \/ PrepareExisting \/ InstallPrograms \/ Create \/ ProvisionClickhouse
           \/ InstallSchema \/ Partition \/ Serve \/ SetAdmin
  <2>1. /\ Steady(pc, pc') /\ (Goes \/ \E how : Stops(how))
        /\ at \notin {"packages", "port", "env", "record"}
    BY <1>1, <1>4, SteadySteps
  <2>2. job.kind \in {"install", "repair"}
    <3>1. at \in {"clickhouse", "role", "kept", "admin"} \union (ToSet(DeploySteps) \ {"env"})
      BY <1>4, DeployIs
      DEF InstallClickhouse, SyncRole, PrepareExisting, InstallPrograms, Create, ProvisionClickhouse,
          InstallSchema, Partition, Serve, SetAdmin
    <3> QED BY <1>1, <3>1, JobFacts, StepKinds
  <2> QED BY <1>1, <1>2, <2>1, <2>2, InstallSettingsSteady, ManagedSteady
<1>5. CASE WriteEnv \/ RegisterUnit \/ SaveRecord
  <2>1. /\ job.kind \in {"install", "repair", "settings"}
        /\ SaveRecord => job.kind # "repair"
        /\ RegisterUnit => job.kind # "settings"
    BY <1>1, <1>5, JobFacts, StepKinds, DeployIs DEF WriteEnv, RegisterUnit, SaveRecord
  <2> QED BY <1>2, <1>5, <2>1, InstallWrites, RepairSettings, ReconfigureSettings, ChangeRecorded
<1>6. CASE Reissue
  <2>1. job.kind = "repair"
    BY <1>1, <1>6, JobFacts, StepKinds DEF Reissue
  <2> QED BY <1>2, <1>6, <2>1, RepairSettings
<1>7. CASE StopSentient \/ Alter \/ Launch \/ Answer
  <2>1. job.kind = "settings"
    BY <1>1, <1>7, JobFacts, StepKinds DEF StopSentient, Alter, Launch, Answer
  <2> QED BY <1>2, <1>7, <2>1, ReconfigureSettings
<1>8. CASE PutBack
  BY <1>2, <1>8, ChangeUndone
<1>9. CASE RemovePlatform \/ DropDatabases \/ RemoveRecord
  BY <1>2, <1>9, RemoveSettings
<1>10. CASE Fail \/ Die
  BY <1>2, <1>10, InterruptedSettings
<1> QED BY <1>3, <1>4, <1>5, <1>6, <1>7, <1>8, <1>9, <1>10 DEF Step

LEMMA OperatorSettings ==
  ASSUME Tunable, Inv, PasswordsOK, SettingsOK, Operator
  PROVE  SettingsOK'
<1>1. at = "idle"
  BY AdoptIs, LoseIs, ControlIs
  DEF Operator, Install, Retry, Manage, ApplySettings, StartJob, Change
<1>2. UpOK(pc')
  <2>1. ServerOK
    BY NextServer DEF Next
  <2> QED BY <2>1 DEF ServerOK, SettingsOK
<1>3. job.kind = "none" /\ PortsOK(pc) /\ Matches(pc)
  BY <1>1 DEF Inv, JobOK, NoJob, SettingsOK, SettingsFit
<1>4. ASSUME NEW new, Begin(new), UNCHANGED pc, SettingsFit(pc, StepAfter(new, 0), new)
      PROVE  SettingsOK'
  <2>1. at' = StepAfter(new, 0) /\ job' = new /\ last'.job.kind = "none" /\ pc' = pc
    BY <1>4 DEF Begin, Nothing, NoJob
  <2> QED BY <1>2, <1>4, <2>1, SettingsPrimed DEF SettingsTogether
<1>5. CASE \E c \in Plans : Install(c)
  <2>1. PICK c \in Plans : Begin(PlanOf(c)) /\ UNCHANGED pc /\ ~pc.unit
    BY <1>5 DEF Install, StartInstall
  <2>2. PlanOf(c).kind = "install" /\ "install" \in Kinds
    BY KindsAre DEF PlanOf
  <2>3. StepAfter(PlanOf(c), 0) = "packages"
    BY <2>2, Firsts
  <2>4. SettingsFit(pc, "packages", PlanOf(c))
    BY <1>3, <2>1, <2>2 DEF SettingsFit, InstallSets
  <2> QED BY <1>4, <2>1, <2>3, <2>4
<1>6. CASE Retry
  <2>1. /\ last.job.kind = "install" /\ last.end \in TriedAgain /\ Begin(last.job) /\ UNCHANGED pc
        /\ "install" \in Kinds
    BY <1>6, KindsAre DEF Retry, StartInstall, TriedAgain
  <2>2. StepAfter(last.job, 0) = "packages"
    BY <2>1, Firsts
  <2>3. SettingsFit(pc, "packages", last.job)
    BY <1>3, <2>1 DEF SettingsFit, InstallSets, SettingsOK
  <2> QED BY <1>4, <2>1, <2>2, <2>3
<1>7. CASE \E kind \in {"repair", "uninstall", "delete"} : Manage(kind)
  <2>1. PICK kind \in {"repair", "uninstall", "delete"} :
          Begin(FromRecord(kind, pc.record.value)) /\ UNCHANGED pc
    BY <1>7 DEF Manage, StartJob
  <2> DEFINE j == FromRecord(kind, pc.record.value)
  <2>2. j.kind = kind /\ j.value = pc.record.value /\ j.port = pc.record.port
    BY DEF FromRecord
  <2> HIDE DEF j
  <2>3. SettingsFit(pc, StepAfter(j, 0), j)
    BY <1>3, <2>2 DEF SettingsFit
  <2> QED BY <1>4, <2>1, <2>3 DEF j
<1>8. CASE \E v \in Values : ApplySettings(v)
  <2>1. PICK v \in Values : Begin(FromRecord("settings", v)) /\ UNCHANGED pc /\ pc.record # None
    BY <1>8 DEF ApplySettings, StartJob
  <2> DEFINE j == FromRecord("settings", v)
  <2>2. /\ j.kind = "settings" /\ j.port = pc.record.port /\ j.was.value = pc.record.value
        /\ j.was.serving = (Serving(pc) /\ CanLaunch(pc)) /\ "settings" \in Kinds
    BY KindsAre DEF FromRecord
  <2> HIDE DEF j
  <2>3. StepAfter(j, 0) = "stop"
    BY <2>2, Firsts
  <2>4. Has(pc, j.was.value.app) /\ pc.pg.value = j.was.value.pg
    BY <1>3, <2>1, <2>2 DEF Matches
  <2>5. Began(pc, j)
    BY <2>2, <2>4 DEF Began, Serving, CanLaunch, Has
  <2>6. SettingsFit(pc, "stop", j)
    BY <1>3, <2>2, <2>4, <2>5 DEF SettingsFit, Sets
  <2> QED BY <1>4, <2>1, <2>3, <2>6 DEF j
<1>9. ASSUME job' = job, last' = Nothing, PortsOK(pc'), Matches(pc')
      PROVE  SettingsOK'
  <2>1. last'.job.kind = "none" /\ job'.kind = "none"
    BY <1>3, <1>9 DEF Nothing, NoJob
  <2> QED BY <1>2, <1>9, <2>1, SettingsPrimed DEF SettingsFit, SettingsTogether
<1>10. CASE Adopt
  <2>1. /\ job' = job /\ last' = Nothing /\ Candidate /\ Verified /\ pc'.pg = pc.pg
        /\ pc'.started = pc.started /\ pc'.env = pc.env /\ pc'.unit = pc.unit /\ pc'.record = Found
    BY <1>10, AdoptIs
  <2>2. pc.pg # None /\ pc.pg.port = pc.env.port /\ Found.port = pc.env.port
        /\ Found.value.app = pc.env.value /\ Found.value.pg = pc.pg.value
    BY <2>1 DEF Verified, Sql, Found, Recorded, Shown
  <2>3. Has(pc, pc.env.value)
    BY <1>3, <2>1 DEF PortsOK, Candidate
  <2>4. Has(pc', pc.env.value)
    BY <2>1, <2>3 DEF Has
  <2>5. PortsOK(pc')
    BY <2>1, <2>2, <2>4 DEF PortsOK
  <2>6. Matches(pc')
    BY <2>1, <2>2, <2>4 DEF Matches
  <2> QED BY <1>9, <2>1, <2>5, <2>6
<1>11. CASE Reboot \/ \E run \in BOOLEAN : Control(run)
  <2>1. job' = job /\ last' = Nothing /\ Steady(pc, pc')
    BY <1>11, ControlIs DEF Steady, Files, Served
  <2> QED BY <1>3, <1>9, <2>1, SteadyIs
<1>12. CASE \E what \in {"env", "unit", "programs", "record"} : Lose(what)
  <2>1. /\ job' = job /\ last' = Nothing /\ pc'.pg = pc.pg /\ pc'.started = pc.started
        /\ \/ pc'.env = None /\ pc'.record = pc.record
           \/ pc'.env = pc.env /\ pc'.record \in {None, pc.record}
        /\ pc'.unit => pc.unit
    BY <1>12, LoseIs
  <2>2. PortsOK(pc') /\ Matches(pc')
    BY <1>3, <2>1 DEF PortsOK, Matches, Has
  <2> QED BY <1>9, <2>1, <2>2
<1> QED BY <1>5, <1>6, <1>7, <1>8, <1>10, <1>11, <1>12 DEF Operator

LEMMA InitSettings == Init => SettingsOK
<1> SUFFICES ASSUME Init PROVE SettingsOK
  OBVIOUS
<1>1. job.kind = "none" /\ last.job.kind = "none"
  BY DEF Init, NoJob, Nothing
<1>2. pc.env = None /\ pc.record = None
  <2>1. PICK c, shape : pc \in {Fresh, OtherUse, Left(c, shape)}
    BY DEF Init
  <2>2. Fresh.env = None /\ Fresh.record = None
    BY DEF Fresh
  <2>3. OtherUse.env = None /\ OtherUse.record = None
    BY DEF OtherUse, Fresh
  <2>4. Left(c, shape).env = None /\ Left(c, shape).record = None
    BY DEF Left, Fresh
  <2> QED BY <2>1, <2>2, <2>3, <2>4
<1>3. UpOK(pc)
  BY InitSetups DEF SetupsOK
<1> QED BY <1>1, <1>2, <1>3 DEF SettingsOK, SettingsFit, PortsOK, Matches, SettingsTogether

(* Where PostgreSQL starts with every parameter it is given, and nothing   *)
(* of Unhurt fails: after a change of settings, tried, failed, cancelled,  *)
(* on whatever was installed, adopted, lost or repaired before, the        *)
(* environment file, PostgreSQL and the record have the new settings or    *)
(* the old ones together, and a SENTIENT that answered before does again   *)
(* (settings::apply, reconfigure).                                         *)
THEOREM SettingsChangeTogether ==
  ASSUME Tunable, Unhurt
  PROVE  Spec => []SettingsTogether
<1>1. Init => SettingsOK
  BY InitSettings
<1>2. (Inv /\ PasswordsOK) /\ SettingsOK /\ [Next]_vars => SettingsOK'
  <2> SUFFICES ASSUME Inv, PasswordsOK, SettingsOK, [Next]_vars PROVE SettingsOK'
    OBVIOUS
  <2>1. CASE UNCHANGED vars
    <3>1. UNCHANGED <<pc, at, job, last>>
      BY <2>1 DEF vars
    <3>2. Serving(pc) => Serving(pc)'
      BY <3>1 DEF Serving, Sql
    <3>3. SettingsTogether'
      BY <3>1, <3>2 DEF SettingsOK, SettingsTogether
    <3> QED BY <3>1, <3>3, SettingsPrimed DEF SettingsOK
  <2> QED BY <2>1, JobSettings, OperatorSettings DEF Next
<1>3. SettingsOK => SettingsTogether
  BY DEF SettingsOK
<1> QED BY <1>1, <1>2, <1>3, Passwords, PTL DEF Spec
=============================================================================
