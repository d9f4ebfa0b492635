-------------------------- MODULE DockerSetupProofs --------------------------
(***************************************************************************)
(* DockerSetup for any plans, settings and number of installations and     *)
(* changes.  "The volumes stay", whatever fails or is killed: Inv, and     *)
(* KeptSurvives.  The passwords and settings fit together when what the    *)
(* code has no way back from does not fail: Quiet, FitOK, and the other    *)
(* three properties.                                                       *)
(***************************************************************************)
EXTENDS DockerSetup, WellFoundedInduction, TLAPS

(* The steps of an installation before which the name it sets a database   *)
(* aside under is not used.                                                *)
Early == {"docker", "write", "pull", "pgup", "role", "kept"}
IsEarly == job.kind = "install" /\ at \in Early
(* ... and those that find the compose file written.                       *)
Written == {"pull", "pgup", "role", "kept", "create", "schema"}

(* A database and a history that are there.                                *)
DatabaseIn(p, n) == p.vol # None /\ Holds(p.vol.dbs, n)
In(p, h) == IF h[1] = "database" THEN DatabaseIn(p, h[2]) ELSE p.hist = h[2]
Under(p, k) == IF p.vol = None THEN None ELSE p.vol.dbs[k]

(* What a step of a computer leaves there; and one that sets nothing aside. *)
Preserves(p, q) ==
  /\ q \in Computer
  /\ \A n \in Name : DatabaseIn(p, n) => DatabaseIn(q, n)
  /\ p.hist # None => q.hist = p.hist
Keeps(p, q) == Preserves(p, q) /\ \A k \in Name \ {0} : Under(q, k) = Under(p, k)

JobOK ==
  /\ IF at = "idle" THEN job = NoJob ELSE job \in Job /\ at \in ToSet(Paths[job.kind])
  /\ last.job \in Job \union {NoJob}
  /\ setups \in 0..MaxSetups /\ changes \in 0..MaxChanges /\ faults \in 0..MaxFaults
  /\ job.kind = "install" => setups > 0
HeldOK == held \subseteq {"database", "history"} \X Name /\ \A h \in held : In(pc, h)
(* Databases are set aside under the names of the installations so far.    *)
NamesOK == \A k \in Name : k > setups \/ (IsEarly /\ k = setups) => Under(pc, k) = None
(* What the steps of an installation find.                                 *)
Finds(p, s) ==
  /\ s \in Written => p.own # None
  /\ s \in {"role", "kept", "create"} => p.vol # None
  /\ s = "create" => p.vol.dbs[0] = None
  /\ s = "admin" => p.vol # None /\ p.vol.dbs[0] # None
StepOK == job.kind = "install" => Finds(pc, at)

Inv == pc \in Computer /\ JobOK /\ HeldOK /\ NamesOK /\ StepOK

----------------------------------------------------------------------------
(* The paths of the jobs.                                                  *)
LEMMA MinIs ==
  ASSUME NEW S \in SUBSET Nat, S # {}
  PROVE  Min(S) \in S /\ \A y \in S : Min(S) <= y
<1>1. PICK x \in S : \A y \in S : <<y, x>> \notin OpToRel(<, Nat)
  BY WFMin, NatLessThanWellFounded
<1>2. \A y \in S : ~(y < x)
  BY <1>1, Zenon DEF OpToRel
<1>3. \A y \in S : x <= y
  BY <1>2
<1> QED BY <1>3 DEF Min

LEMMA KindsAre ==
  Kinds = {"install", "settings", "takeover", "repair", "start", "uninstall", "delete"}
BY DEF Kinds, Paths

(* Each ends with a step that is always taken.                             *)
LEMMA Ending ==
  ASSUME NEW k \in Kinds
  PROVE  /\ Len(Paths[k]) \in Nat \ {0} /\ DOMAIN Paths[k] = 1..Len(Paths[k])
         /\ Last(Paths[k]) = Paths[k][Len(Paths[k])] /\ Head(Paths[k]) = Paths[k][1]
         /\ Last(Paths[k]) \in {"record", "up", "back", "start", "unrecord"}
<1> DEFINE IsPath(n, s) == Len(Paths[k]) = n /\ DOMAIN Paths[k] = 1..n /\ Paths[k][n] = s /\ Head(Paths[k]) = Paths[k][1]
<1>1. CASE k = "install"
  <2>1. IsPath(12, "record")
    BY <1>1 DEF Paths, InstallSteps, KeptSteps
  <2> QED BY <2>1 DEF Last
<1>2. CASE k = "settings"
  <2>1. IsPath(5, "back")
    BY <1>2 DEF Paths, SettingsSteps
  <2> QED BY <2>1 DEF Last
<1>3. CASE k = "takeover"
  <2>1. IsPath(6, "back")
    BY <1>3 DEF Paths, TakeOverSteps
  <2> QED BY <2>1 DEF Last
<1>4. CASE k = "repair"
  <2>1. IsPath(2, "up")
    BY <1>4 DEF Paths
  <2> QED BY <2>1 DEF Last
<1>5. CASE k = "start"
  <2>1. IsPath(1, "start")
    BY <1>5 DEF Paths
  <2> QED BY <2>1 DEF Last
<1>6. CASE k \in {"uninstall", "delete"}
  <2>1. IsPath(2, "unrecord")
    BY <1>6 DEF Paths
  <2> QED BY <2>1 DEF Last
<1> QED BY <1>1, <1>2, <1>3, <1>4, <1>5, <1>6, KindsAre

LEMMA InstallPath ==
  /\ DOMAIN InstallSteps = 1..12
  /\ InstallSteps[1] = "docker" /\ InstallSteps[2] = "write" /\ InstallSteps[3] = "pull"
  /\ InstallSteps[4] = "pgup" /\ InstallSteps[5] = "role" /\ InstallSteps[6] = "kept"
  /\ InstallSteps[7] = "create" /\ InstallSteps[8] = "schema" /\ InstallSteps[9] = "up"
  /\ InstallSteps[10] = "serve" /\ InstallSteps[11] = "admin" /\ InstallSteps[12] = "record"
BY DEF InstallSteps, KeptSteps

(* The names of the steps some jobs do not have.                           *)
LEMMA OwnSteps ==
  /\ \A k \in Kinds, s \in {"docker", "pull", "pgup", "role", "kept", "create", "schema", "admin"} :
       s \in ToSet(Paths[k]) => k = "install"
  /\ \A k \in Kinds : "remove" \in ToSet(Paths[k]) => k \in {"uninstall", "delete"} /\ Last(Paths[k]) # "remove"
  /\ \A k \in {"settings", "takeover"} : "back" \in ToSet(Paths[k])
  /\ "schema" \in ToSet(Paths["install"])
  /\ \A k \in Kinds : "idle" \notin ToSet(Paths[k])
<1> DEFINE Own == {"docker", "pull", "pgup", "role", "kept", "create", "schema", "admin", "remove", "idle"}
<1>1. \A k \in Kinds : \A s \in Own : s \in ToSet(Paths[k]) =>
        /\ s # "idle"
        /\ IF s = "remove" THEN k \in {"uninstall", "delete"} ELSE k = "install"
  <2> SUFFICES ASSUME NEW k \in Kinds, NEW s \in Own, s \in ToSet(Paths[k])
               PROVE  s # "idle" /\ IF s = "remove" THEN k \in {"uninstall", "delete"} ELSE k = "install"
    OBVIOUS
  <2>1. CASE k = "install"
    BY <2>1, InstallPath DEF Paths, ToSet
  <2>2. CASE k = "settings"
    BY <2>2 DEF Paths, SettingsSteps, ToSet
  <2>3. CASE k = "takeover"
    BY <2>3 DEF Paths, TakeOverSteps, ToSet
  <2>4. CASE k = "repair"
    BY <2>4 DEF Paths, ToSet
  <2>5. CASE k = "start"
    BY <2>5 DEF Paths, ToSet
  <2>6. CASE k \in {"uninstall", "delete"}
    BY <2>6 DEF Paths, ToSet
  <2> QED BY <2>1, <2>2, <2>3, <2>4, <2>5, <2>6, KindsAre
<1>2. "schema" \in ToSet(Paths["install"])
  <2>1. Paths["install"][8] = "schema" /\ 8 \in DOMAIN Paths["install"]
    BY InstallPath DEF Paths
  <2> QED BY <2>1 DEF ToSet
<1>3. "back" \in ToSet(Paths["settings"]) /\ "back" \in ToSet(Paths["takeover"])
  <2>1. Paths["settings"][5] = "back" /\ 5 \in DOMAIN Paths["settings"]
    BY DEF Paths, SettingsSteps
  <2>2. Paths["takeover"][6] = "back" /\ 6 \in DOMAIN Paths["takeover"]
    BY DEF Paths, TakeOverSteps
  <2> QED BY <2>1, <2>2 DEF ToSet
<1> QED BY <1>1, <1>2, <1>3, Ending

(* The next step that applies is taken, and none that applies passed over. *)
LEMMA StepAfterIs ==
  ASSUME job.kind \in Kinds, NEW i \in 0..(Len(Paths[job.kind]) - 1)
  PROVE  \E k \in DOMAIN Paths[job.kind] :
           /\ k > i /\ StepAfter(i) = Paths[job.kind][k] /\ Applies(Paths[job.kind][k])
           /\ \A j \in DOMAIN Paths[job.kind] : j > i /\ j < k => ~Applies(Paths[job.kind][j])
<1> DEFINE path == Paths[job.kind]
<1>1. /\ Len(path) \in Nat \ {0} /\ DOMAIN path = 1..Len(path)
      /\ path[Len(path)] \in {"record", "up", "back", "start", "unrecord"}
  BY Ending
<1>2. Applies(path[Len(path)])
  BY <1>1 DEF Applies, ToSet, KeptSteps
<1>3. Len(path) \in Later(i)
  BY <1>1, <1>2 DEF Later
<1>4. Later(i) \in SUBSET Nat
  BY <1>1 DEF Later
<1>5. Min(Later(i)) \in Later(i) /\ \A j \in Later(i) : Min(Later(i)) <= j
  BY <1>3, <1>4, MinIs
<1>6. \A j \in DOMAIN path : j > i /\ j < Min(Later(i)) => j \notin Later(i)
  BY <1>1, <1>4, <1>5
<1>7. \A j \in DOMAIN path : j > i /\ j \notin Later(i) => ~Applies(path[j])
  BY Zenon DEF Later
<1> QED BY <1>5, <1>6, <1>7 DEF StepAfter, Later

LEMMA FollowingIs ==
  ASSUME job.kind \in Kinds, at \in ToSet(Paths[job.kind]), at # Last(Paths[job.kind])
  PROVE  /\ Following \in ToSet(Paths[job.kind])
         /\ job.kind = "install" =>
              /\ Following \in Early => at \in Early \ {"kept"}
              /\ Following \in Written => at \in Written \union {"write"}
              /\ Following = "role" => at = "pgup"
              /\ Following = "kept" => at = "role"
              /\ Following = "create" => at = "kept"
              /\ Following = "admin" => at = "serve"
<1> DEFINE path == Paths[job.kind]
           i == CHOOSE i \in DOMAIN path : path[i] = at
<1>1. i \in DOMAIN path /\ path[i] = at
  BY Zenon DEF ToSet
<1>2. Len(path) \in Nat \ {0} /\ DOMAIN path = 1..Len(path) /\ Last(path) = path[Len(path)]
  BY Ending
<1>3. i # Len(path)
  BY <1>1, <1>2, Zenon
<1>4. Following = StepAfter(i)
  BY DEF Following
<1> HIDE DEF i
<1>5. i \in 0..(Len(path) - 1)
  BY <1>1, <1>2, <1>3
<1>6. PICK k \in DOMAIN path : /\ k > i /\ Following = path[k] /\ Applies(path[k])
                              /\ \A j \in DOMAIN path : j > i /\ j < k => ~Applies(path[j])
  BY <1>4, <1>5, StepAfterIs
<1>7. Following \in ToSet(path)
  BY <1>6, Zenon DEF ToSet
<1>8. ASSUME job.kind = "install"
      PROVE  /\ Following \in Early => at \in Early \ {"kept"}
             /\ Following \in Written => at \in Written \union {"write"}
             /\ Following = "role" => at = "pgup"
             /\ Following = "kept" => at = "role"
             /\ Following = "create" => at = "kept"
             /\ Following = "admin" => at = "serve"
  <2>1. path = InstallSteps
    BY <1>8 DEF Paths
  <2>2. i \in 1..12 /\ k \in 1..12 /\ i < k /\ at = InstallSteps[i] /\ Following = InstallSteps[k]
    BY <2>1, <1>1, <1>6, InstallPath
  <2>3. Applies("serve") /\ Applies("write") /\ Applies(InstallSteps[k])
    BY <1>6, <2>1 DEF Applies, ToSet, KeptSteps
  <2>4. \A j \in 1..12 : j > i /\ j < k => ~Applies(InstallSteps[j])
    BY <1>6, <2>1, InstallPath
  <2>5. \A s, t \in {"pgup", "role", "kept", "create"} : Applies(s) => Applies(t)
    BY DEF Applies, ToSet, KeptSteps
  <2>6. /\ Following = "role" => k = 5
        /\ Following = "kept" => k = 6
        /\ Following = "create" => k = 7
        /\ Following = "admin" => k = 11
        /\ Following \in Early => k <= 6
        /\ Following \in Written => k \in 3..8
    BY <2>2, InstallPath DEF Early, Written
  <2>7. ASSUME Following = "role"
        PROVE  i = 4
    <3>1. Applies("pgup") /\ InstallSteps[4] = "pgup" /\ k = 5
      BY <2>2, <2>3, <2>5, <2>6, <2>7, InstallPath
    <3> QED BY <3>1, <2>2, <2>4
  <2>8. ASSUME Following = "kept"
        PROVE  i = 5
    <3>1. Applies("role") /\ InstallSteps[5] = "role" /\ k = 6
      BY <2>2, <2>3, <2>5, <2>6, <2>8, InstallPath
    <3> QED BY <3>1, <2>2, <2>4
  <2>9. ASSUME Following = "create"
        PROVE  i = 6
    <3>1. Applies("kept") /\ InstallSteps[6] = "kept" /\ k = 7
      BY <2>2, <2>3, <2>5, <2>6, <2>9, InstallPath
    <3> QED BY <3>1, <2>2, <2>4
  <2>10. ASSUME Following = "admin"
         PROVE  i = 10
    <3>1. Applies("serve") /\ InstallSteps[10] = "serve" /\ k = 11
      BY <2>3, <2>6, <2>10, InstallPath
    <3> QED BY <3>1, <2>2, <2>4
  <2>11. Following \in Early => i < 6
    BY <2>2, <2>6
  <2>12. ASSUME Following \in Written
         PROVE  i \in 2..7
    <3>1. Applies("write") /\ InstallSteps[2] = "write" /\ k \in 3..8
      BY <2>3, <2>6, <2>12, InstallPath
    <3> QED BY <3>1, <2>2, <2>4
  <2> QED BY <2>2, <2>7, <2>8, <2>9, <2>10, <2>11, <2>12, InstallPath DEF Early, Written
<1> QED BY <1>7, <1>8

----------------------------------------------------------------------------
(* What is there stays there.                                              *)
LEMMA SameKeeps ==
  ASSUME NEW p \in Computer
  PROVE  Keeps(p, p)
BY DEF Keeps, Preserves

LEMMA KeepsTransitive ==
  ASSUME NEW p, NEW q, NEW r, Keeps(p, q), Keeps(q, r)
  PROVE  Keeps(p, r)
BY DEF Keeps, Preserves

(* What SENTIENT serves is there.                                          *)
LEMMA ServesIsIn ==
  ASSUME NEW p \in Computer, NEW h \in Serves(p)
  PROVE  h \in {"database", "history"} \X Name /\ In(p, h)
<1>1. Serving(p) /\ h \in {<<"database", p.vol.dbs[0].of>>} \union
         (IF p.app.set.flavor = "clickhouse" /\ p.hist # None THEN {<<"history", p.hist>>} ELSE {})
  BY DEF Serves
<1>2. 0 \in Name
  BY DockerSetupAssumption DEF Name
<1>3. p.vol # None /\ p.vol.dbs[0] # None
  BY <1>1 DEF Serving
<1>4. p.vol \in Volumes /\ p.vol.dbs[0] \in Databases(Name)
  BY <1>2, <1>3 DEF Computer, Volumes
<1>5. p.vol.dbs[0].of \in Name /\ 0 \in DOMAIN p.vol.dbs
  BY <1>4, <1>2 DEF Databases, Volumes
<1>6. CASE h = <<"database", p.vol.dbs[0].of>>
  <2>1. h[1] = "database" /\ h[2] = p.vol.dbs[0].of
    BY <1>6
  <2>2. DatabaseIn(p, h[2])
    BY <2>1, <1>3, <1>5 DEF DatabaseIn, Holds
  <2> QED BY <1>6, <2>1, <2>2, <1>5 DEF In
<1>7. CASE p.hist # None /\ h = <<"history", p.hist>>
  <2>1. p.hist \in Name
    BY <1>7 DEF Computer
  <2>2. h[1] = "history" /\ h[2] = p.hist
    BY <1>7
  <2> QED BY <1>7, <2>1, <2>2 DEF In
<1> QED BY <1>1, <1>6, <1>7

LEMMA HeldStays ==
  ASSUME pc \in Computer, HeldOK, Preserves(pc, pc'), held' \subseteq held \union Serves(pc')
  PROVE  HeldOK'
<1>1. pc' \in Computer
  BY DEF Preserves
<1>2. ASSUME NEW h \in held'
      PROVE  h \in {"database", "history"} \X Name /\ In(pc', h)
  <2>1. CASE h \in held
    <3>1. h \in {"database", "history"} \X Name /\ In(pc, h)
      BY <2>1 DEF HeldOK
    <3>2. h[2] \in Name /\ h[2] # None
      BY <3>1, NoneAssumption
    <3>3. In(pc', h)
      BY <3>1, <3>2 DEF In, Preserves
    <3> QED BY <3>1, <3>3
  <2>2. CASE h \in Serves(pc')
    BY <2>2, <1>1, ServesIsIn
  <2> QED BY <2>1, <2>2
<1> QED BY <1>2, Zenon DEF HeldOK, In, DatabaseIn

LEMMA NamesStay ==
  ASSUME pc \in Computer, JobOK, NamesOK, Keeps(pc, pc'), setups' = setups, IsEarly' => IsEarly
  PROVE  NamesOK'
<1> SUFFICES ASSUME NEW k \in Name, (k > setups) \/ (IsEarly' /\ k = setups)
             PROVE  Under(pc', k) = None
  BY Zenon DEF NamesOK, Under
<1>1. k # 0
  BY DEF JobOK, IsEarly, Name
<1>2. Under(pc', k) = Under(pc, k)
  BY <1>1 DEF Keeps
<1> QED BY <1>2 DEF NamesOK

(* How jobs go on and end.                                                 *)
LEMMA JobKind ==
  ASSUME JobOK, at # "idle"
  PROVE  job \in Job /\ job.kind \in Kinds /\ at \in ToSet(Paths[job.kind])
<1>1. job \in Job /\ at \in ToSet(Paths[job.kind])
  BY DEF JobOK
<1>2. "install" \in Kinds
  BY KindsAre
<1> QED BY <1>1, <1>2 DEF Job, Installing, Managing

LEMMA JobEnds ==
  ASSUME JobOK, NEW how, End(how), UNCHANGED <<setups, changes>>, faults' \in 0..MaxFaults
  PROVE  JobOK' /\ StepOK' /\ ~IsEarly'
<1>1. job \in Job \union {NoJob}
  BY DEF JobOK
<1>2. at' = "idle" /\ job' = NoJob /\ last'.job = job
  BY DEF End
<1>3. job'.kind # "install"
  BY <1>2 DEF NoJob
<1> QED BY <1>1, <1>2, <1>3 DEF JobOK, StepOK, IsEarly

LEMMA JobGoesOn ==
  ASSUME JobOK, at # "idle", at' \in ToSet(Paths[job.kind]), UNCHANGED <<job, last, setups, changes>>,
         faults' \in 0..MaxFaults
  PROVE  JobOK'
<1>1. at' # "idle"
  BY JobKind, OwnSteps
<1> QED BY <1>1, JobKind DEF JobOK

(* What the step after a step of an installation finds.                    *)
Leaves(p, s) ==
  /\ s \in Written \union {"write"} => p.own # None
  /\ s \in {"pgup", "role", "kept"} => p.vol # None
  /\ s = "kept" => p.vol.dbs[0] = None
  /\ s = "serve" => p.vol # None /\ p.vol.dbs[0] # None

LEMMA DoesJob ==
  ASSUME JobOK, at \notin {"idle", "back"}, NEW new, Does(new), Bounds, job.kind = "install" => Leaves(new, at)
  PROVE  JobOK' /\ StepOK' /\ (IsEarly' => at \in Early \ {"kept"} /\ IsEarly)
<1>1. faults' \in 0..MaxFaults /\ UNCHANGED <<setups, changes>>
  BY DEF JobOK, Bounds
<1>2. CASE Ends
  BY <1>1, <1>2, JobEnds DEF Does
<1>3. CASE ~Ends
  <2>1. at' = Following /\ UNCHANGED <<job, last>> /\ pc' = new
    BY <1>3 DEF Does
  <2>2. at # Last(Paths[job.kind])
    BY <1>3 DEF Ends
  <2>3. /\ Following \in ToSet(Paths[job.kind])
        /\ job.kind = "install" =>
             /\ Following \in Early => at \in Early \ {"kept"}
             /\ Following \in Written => at \in Written \union {"write"}
             /\ Following = "role" => at = "pgup"
             /\ Following = "kept" => at = "role"
             /\ Following = "create" => at = "kept"
             /\ Following = "admin" => at = "serve"
    BY <2>2, JobKind, FollowingIs
  <2>4. JobOK'
    BY <2>1, <2>3, <1>1, JobGoesOn
  <2>5. job.kind = "install" => Finds(new, Following)
    BY <2>3 DEF Finds, Leaves
  <2>6. StepOK'
    BY <2>1, <2>5, Zenon DEF StepOK, Finds
  <2> QED BY <2>1, <2>3, <2>4, <2>6 DEF IsEarly
<1> QED BY <1>2, <1>3

LEMMA FailsJob ==
  ASSUME JobOK, at # "idle", NEW how, NEW new, Fails(how, new), UNCHANGED <<setups, changes>>,
         faults' \in 0..MaxFaults
  PROVE  JobOK' /\ StepOK' /\ ~IsEarly'
<1>1. CASE PutsBack
  <2>1. job.kind \in {"settings", "takeover"} /\ at' = "back" /\ UNCHANGED <<job, last>>
    BY <1>1 DEF PutsBack, Fails
  <2>2. JobOK'
    BY <2>1, JobGoesOn, OwnSteps
  <2> QED BY <2>1, <2>2 DEF IsEarly, StepOK
<1>2. CASE ~PutsBack
  BY <1>2, JobEnds DEF Fails
<1> QED BY <1>1, <1>2

(* A step that sets nothing aside.                                         *)
LEMMA DoesKeeps ==
  ASSUME Inv, at \notin {"idle", "back"}, NEW new, Keeps(pc, new), job.kind = "install" => Leaves(new, at), Does(new), Bounds
  PROVE  Inv'
<1>1. pc' = new /\ held' = held \union Serves(pc') /\ setups' = setups
  BY Zenon DEF Does, Bounds
<1>2. JobOK' /\ StepOK' /\ (IsEarly' => IsEarly)
  BY DoesJob DEF Inv
<1>3. Keeps(pc, pc') /\ Preserves(pc, pc') /\ pc' \in Computer
  BY <1>1 DEF Keeps, Preserves
<1> QED BY <1>1, <1>2, <1>3, HeldStays, NamesStay DEF Inv

LEMMA FailsKeeps ==
  ASSUME Inv, at # "idle", NEW how, NEW new, Keeps(pc, new), Fails(how, new), UNCHANGED <<setups, changes>>,
         faults' \in 0..MaxFaults
  PROVE  Inv'
<1>1. pc' = new /\ held' = held \union Serves(pc')
  BY Zenon DEF Fails
<1>2. JobOK' /\ StepOK' /\ ~IsEarly'
  BY FailsJob DEF Inv
<1>3. Keeps(pc, pc') /\ Preserves(pc, pc') /\ pc' \in Computer
  BY <1>1 DEF Keeps, Preserves
<1> QED BY <1>1, <1>2, <1>3, HeldStays, NamesStay DEF Inv

LEMMA FailsSame ==
  ASSUME Inv, at # "idle", NEW how, Fails(how, pc), Bounds
  PROVE  Inv'
<1>1. Keeps(pc, pc) /\ faults' \in 0..MaxFaults
  BY SameKeeps DEF Inv, JobOK, Bounds
<1> QED BY <1>1, FailsKeeps DEF Bounds

(* A step that only goes on.                                               *)
LEMMA SameLeaves ==
  ASSUME Inv, at \notin {"write", "pgup", "kept", "serve"}, job.kind = "install",
         NEW q, q.own = pc.own, q.vol = pc.vol
  PROVE  Leaves(q, at)
BY DEF Inv, StepOK, Finds, Leaves

LEMMA StepFacts ==
  ASSUME Inv, at # "idle"
  PROVE  /\ pc \in Computer /\ job \in Job /\ job.kind \in Kinds /\ at \in ToSet(Paths[job.kind])
         /\ job.pw \in Nat /\ job.value \in Nat /\ job.flavor \in Flavors /\ job.external \in BOOLEAN
         /\ pc.vol # None => pc.vol \in Volumes
         /\ 0 \in Name /\ setups \in Name
BY JobKind, DockerSetupAssumption DEF Inv, Computer, Name, JobOK, Job, Installing, Managing

----------------------------------------------------------------------------
(* What the computer becomes.                                              *)
LEMMA VolumeKeeps ==
  ASSUME NEW p \in Computer, NEW q \in Computer, q.vol = p.vol, q.hist = p.hist
  PROVE  Keeps(p, q)
BY DEF Keeps, Preserves, DatabaseIn, Under

LEMMA SettingsAre ==
  ASSUME NEW pw \in Nat, NEW flavor \in Flavors, NEW value \in Nat
  PROVE  Settings(pw, flavor, value) \in AllSettings /\ Settings(pw, flavor, value) # None
<1>1. Settings(pw, flavor, value) \in AllSettings
  BY DEF Settings, AllSettings
<1> QED BY <1>1, NoneAssumption

LEMMA VolumeIs ==
  ASSUME NEW pw \in Nat, NEW db \in Databases(Name) \union {None}
  PROVE  /\ Volume(pw, db) \in Volumes /\ Volume(pw, db) # None
         /\ Volume(pw, db).dbs[0] = db /\ \A k \in Name \ {0} : Volume(pw, db).dbs[k] = None
<1>1. 0 \in Name
  BY DockerSetupAssumption DEF Name
<1>2. Volume(pw, db) \in Volumes
  BY <1>1 DEF Volume, Volumes, NoDatabases
<1>3. Volume(pw, db).dbs[0] = db /\ \A k \in Name \ {0} : Volume(pw, db).dbs[k] = None
  BY <1>1 DEF Volume, NoDatabases
<1> QED BY <1>2, <1>3, NoneAssumption

LEMMA CreatedIs ==
  ASSUME NEW n \in Name
  PROVE  Created(n) \in Databases(Name) /\ Created(n) # None
<1>1. Created(n) \in Databases(Name)
  BY DEF Created, Databases
<1> QED BY <1>1, NoneAssumption

(* PostgreSQL started over the volume there is, or over an empty one.      *)
LEMMA PgUpKeeps ==
  ASSUME NEW p \in Computer, NEW from \in {"own", "other"}, NEW set \in AllSettings, setups \in Name
  PROVE  LET q == PgUp(p, from, set)
         IN /\ q \in Computer /\ Keeps(p, q) /\ q.vol # None /\ q.own = p.own
            /\ p.vol # None => q.vol = p.vol
            /\ q.vol.dbs[0] = None => p.vol # None /\ p.vol.dbs[0] = None
<1> DEFINE pg == Container(from, set)
           vol == IF p.vol = None THEN Volume(set.first, Created(setups)) ELSE p.vol
           q == [p EXCEPT !.pg = pg, !.vol = vol]
<1>1. pg \in Containers
  BY DEF Container, Containers
<1>2. set.first \in Nat
  BY DEF AllSettings
<1>3. vol \in Volumes /\ vol # None /\ (p.vol # None => vol = p.vol)
  BY <1>2, VolumeIs, CreatedIs DEF Computer
<1>4. ASSUME p.vol = None
      PROVE  vol.dbs[0] # None /\ \A k \in Name \ {0} : vol.dbs[k] = None
  BY <1>2, <1>4, VolumeIs, CreatedIs
<1>5. PgUp(p, from, set) = q
  BY DEF PgUp, Computer
<1> HIDE DEF pg, vol
<1>6. q \in Computer /\ q.vol = vol /\ q.hist = p.hist /\ q.own = p.own
  BY <1>1, <1>3 DEF Computer
<1> HIDE DEF q
<1>7. Keeps(p, q)
  BY <1>3, <1>4, <1>6 DEF Keeps, Preserves, DatabaseIn, Under
<1> QED BY <1>3, <1>4, <1>5, <1>6, <1>7

LEMMA UpKeeps ==
  ASSUME NEW p \in Computer, NEW from \in {"own", "other"}, File(p, from) # None, setups \in Name
  PROVE  Up(p, from) \in Computer /\ Keeps(p, Up(p, from))
<1> DEFINE set == File(p, from)
           r == PgUp(p, from, set)
           q == [r EXCEPT !.app = Container(from, set), !.images = TRUE]
<1>1. set \in AllSettings
  BY DEF File, Computer
<1>2. Container(from, set) \in Containers
  BY <1>1 DEF Container, Containers
<1>3. r \in Computer /\ Keeps(p, r)
  BY <1>1, PgUpKeeps
<1>4. Up(p, from) = q
  BY DEF Up
<1> HIDE DEF r, set
<1>5. q \in Computer /\ q.vol = r.vol /\ q.hist = r.hist
  BY <1>2, <1>3 DEF Computer
<1> HIDE DEF q
<1>6. Keeps(r, q)
  BY <1>3, <1>5, VolumeKeeps
<1> QED BY <1>3, <1>4, <1>5, <1>6, KeepsTransitive

(* Its containers stopped or removed.                                      *)
LEMMA DownKeeps ==
  ASSUME NEW p \in Computer
  PROVE  /\ Down(p) \in Computer /\ Keeps(p, Down(p))
         /\ Down(p).vol = p.vol /\ Down(p).hist = p.hist
<1>1. Down(p) \in Computer /\ Down(p).vol = p.vol /\ Down(p).hist = p.hist
  BY DEF Down, Computer
<1> QED BY <1>1, VolumeKeeps

LEMMA StoppedKeeps ==
  ASSUME NEW p \in Computer, NEW from
  PROVE  Stopped(p, from) \in Computer /\ Keeps(p, Stopped(p, from))
<1> DEFINE stop(c) == IF c # None /\ c.from = from THEN [c EXCEPT !.up = FALSE] ELSE c
<1>1. ASSUME NEW c \in Containers \union {None}
      PROVE  stop(c) \in Containers \union {None}
  BY DEF Containers
<1>2. stop(p.app) \in Containers \union {None} /\ stop(p.pg) \in Containers \union {None}
  BY <1>1 DEF Computer
<1>3. Stopped(p, from) = [p EXCEPT !.app = stop(p.app), !.pg = stop(p.pg)]
  BY DEF Stopped, Computer
<1> HIDE DEF stop
<1>4. Stopped(p, from) \in Computer /\ Stopped(p, from).vol = p.vol /\ Stopped(p, from).hist = p.hist
  BY <1>2, <1>3 DEF Computer
<1> QED BY <1>4, VolumeKeeps

(* SENTIENT's database made, or with the same installation's data.         *)
LEMMA KeepsInService ==
  ASSUME NEW p \in Computer, NEW q \in Computer, NEW d \in Databases(Name) \union {None},
         p.vol # None, q.vol # None, q.vol.dbs = [p.vol.dbs EXCEPT ![0] = d],
         p.vol.dbs[0] # None => d # None /\ d.of = p.vol.dbs[0].of,
         p.hist # None => q.hist = p.hist
  PROVE  Keeps(p, q)
<1>1. p.vol.dbs \in [Name -> Databases(Name) \union {None}] /\ 0 \in Name
  BY DockerSetupAssumption DEF Computer, Volumes, Name
<1>2. q.vol.dbs \in [Name -> Databases(Name) \union {None}] /\ q.vol.dbs[0] = d
  BY <1>1
<1>3. ASSUME NEW n \in Name, DatabaseIn(p, n)
      PROVE  DatabaseIn(q, n)
  <2>1. PICK k \in Name : p.vol.dbs[k] # None /\ p.vol.dbs[k].of = n
    BY <1>1, <1>3 DEF DatabaseIn, Holds
  <2>2. q.vol.dbs[k] # None /\ q.vol.dbs[k].of = n
    BY <2>1, <1>1, <1>2
  <2> QED BY <2>2, <1>2 DEF DatabaseIn, Holds
<1>4. \A k \in Name \ {0} : Under(q, k) = Under(p, k)
  BY <1>1 DEF Under
<1> QED BY <1>3, <1>4 DEF Keeps, Preserves

LEMMA SecretsAre ==
  ASSUME NEW p \in Computer, NEW external \in BOOLEAN
  PROVE  Secrets(p, external) \in Nat
<1>1. ContainerSecrets(p) \in Nat
  BY DEF ContainerSecrets, Computer, Containers, AllSettings
<1> QED BY <1>1 DEF Secrets, Computer, AllSettings

----------------------------------------------------------------------------
(* The beginnings of jobs, and what others do.                             *)
LEMMA LeftIs ==
  ASSUME NEW c \in Plans, NEW shape \in Makes(c.flavor)
  PROVE  /\ Left(c, shape) \in Computer /\ Left(c, shape).vol = Volume(c.pw, Finished(shape))
         /\ Left(c, shape).hist \in {0, None}
<1> DEFINE set == Settings(c.pw, c.flavor, 0)
           vol == Volume(c.pw, Finished(shape))
           hist == IF c.flavor = "clickhouse" THEN 0 ELSE None
<1>1. 0 \in Name /\ shape \in {"plain", "partitioned", "hypertable"} /\ c.pw \in Nat /\ c.flavor \in Flavors
  BY DockerSetupAssumption DEF Name, Makes, Flavors
<1>2. Finished(shape) \in Databases(Name)
  BY <1>1 DEF Finished, Databases
<1>3. set \in AllSettings /\ vol \in Volumes
  BY <1>1, <1>2, SettingsAre, VolumeIs
<1>4. Left(c, shape) = [Fresh EXCEPT !.docker = TRUE, !.images = TRUE, !.own = set, !.vol = vol, !.hist = hist]
  BY DEF Left
<1>5. hist \in {0, None}
  OBVIOUS
<1> HIDE DEF set, vol, hist
<1>6. Left(c, shape) \in Computer /\ Left(c, shape).vol = vol /\ Left(c, shape).hist = hist
  BY <1>1, <1>3, <1>4, <1>5 DEF Fresh, Computer
<1> QED BY <1>5, <1>6 DEF vol

LEMMA StackIs ==
  ASSUME NEW c \in Plans, NEW d \in Plans, NEW shape \in Makes(c.flavor)
  PROVE  LET p == Stack(c, d.pw, shape)
         IN p \in Computer /\ p.vol = Volume(c.pw, Finished(shape)) /\ p.hist \in {0, None}
<1> DEFINE set == [Settings(c.pw, c.flavor, 0) EXCEPT !.first = d.pw]
           l == Left(c, shape)
           box == Container("other", set)
<1>1. c.pw \in Nat /\ d.pw \in Nat /\ c.flavor \in Flavors
  BY DockerSetupAssumption
<1>2. set \in AllSettings
  BY <1>1 DEF Settings, AllSettings
<1>3. box \in Containers
  BY <1>2 DEF Container, Containers
<1>4. l \in Computer /\ l.vol = Volume(c.pw, Finished(shape)) /\ l.hist \in {0, None}
  BY LeftIs
<1>5. Stack(c, d.pw, shape) = [l EXCEPT !.own = None, !.other = set, !.pg = box, !.app = box]
  BY DEF Stack
<1> HIDE DEF set, l, box
<1>6. [l EXCEPT !.own = None, !.other = set, !.pg = box, !.app = box] \in Computer
  BY <1>2, <1>3, <1>4 DEF Computer
<1> QED BY <1>4, <1>5, <1>6 DEF Computer

LEMMA InitInv == Init => Inv
<1> SUFFICES ASSUME Init PROVE Inv
  OBVIOUS
<1>1. PICK c \in Plans, d \in Plans : \E shape \in Makes(c.flavor) : pc \in {Fresh, Left(c, shape), Stack(c, d.pw, shape)}
  BY DEF Init
<1>2. PICK shape \in Makes(c.flavor) : pc \in {Fresh, Left(c, shape), Stack(c, d.pw, shape)}
  BY <1>1
<1>3. at = "idle" /\ job = NoJob /\ last = Nothing /\ setups = 0 /\ changes = 0 /\ faults = 0
      /\ held = (IF pc.vol = None THEN {} ELSE {<<"database", 0>>}) \union
                (IF pc.hist = None THEN {} ELSE {<<"history", 0>>})
  BY DEF Init
<1>4. 0 \in Name /\ c.pw \in Nat /\ shape \in {"plain", "partitioned", "hypertable"}
  BY DockerSetupAssumption DEF Name, Makes, Flavors
<1>5. Finished(shape) \in Databases(Name) /\ Finished(shape).of = 0 /\ Finished(shape) # None
  <2>1. Finished(shape) \in Databases(Name) /\ Finished(shape).of = 0
    BY <1>4 DEF Finished, Databases
  <2> QED BY <2>1, NoneAssumption
<1>6. Fresh \in Computer /\ Fresh.vol = None /\ Fresh.hist = None
  BY DEF Fresh, Computer
<1>7. pc \in Computer /\ (pc.vol = None \/ pc.vol = Volume(c.pw, Finished(shape))) /\ pc.hist \in {0, None}
  BY <1>2, <1>6, LeftIs, StackIs
<1>8. ASSUME pc.vol # None
      PROVE  /\ \A n \in Name \ {0} : pc.vol.dbs[n] = None
             /\ pc.vol.dbs[0] # None /\ pc.vol.dbs[0].of = 0 /\ 0 \in DOMAIN pc.vol.dbs
  <2>1. pc.vol = Volume(c.pw, Finished(shape))
    BY <1>7, <1>8
  <2>2. pc.vol.dbs[0] = Finished(shape) /\ \A n \in Name \ {0} : pc.vol.dbs[n] = None
    BY <2>1, <1>4, <1>5, VolumeIs
  <2> QED BY <2>2, <1>4, <1>5, <1>7, <1>8 DEF Computer, Volumes
<1>9. JobOK
  BY <1>3, DockerSetupAssumption DEF JobOK, Nothing, NoJob
<1>10. NamesOK /\ StepOK
  <2>1. ~IsEarly /\ job.kind # "install"
    BY <1>3 DEF IsEarly, NoJob
  <2>2. ASSUME NEW k \in Name, k > setups
        PROVE  Under(pc, k) = None
    <3>1. k # 0
      BY <2>2, <1>3 DEF Name
    <3> QED BY <3>1, <1>8 DEF Under
  <2> QED BY <2>1, <2>2 DEF NamesOK, StepOK
<1>11. HeldOK
  <2>1. ASSUME NEW h \in held
        PROVE  h \in {"database", "history"} \X Name /\ In(pc, h)
    <3>1. CASE pc.vol # None /\ h = <<"database", 0>>
      <4>1. Holds(pc.vol.dbs, 0)
        BY <3>1, <1>8 DEF Holds
      <4>2. h[1] = "database" /\ h[2] = 0
        BY <3>1
      <4> QED BY <3>1, <4>1, <4>2, <1>4 DEF In, DatabaseIn
    <3>2. CASE pc.hist # None /\ h = <<"history", 0>>
      <4>1. h[1] = "history" /\ h[2] = 0
        BY <3>2
      <4> QED BY <3>2, <4>1, <1>7, <1>4 DEF In
    <3> QED BY <2>1, <3>1, <3>2, <1>3
  <2> QED BY <2>1, Zenon DEF HeldOK
<1> QED BY <1>7, <1>9, <1>10, <1>11 DEF Inv

(* Nothing of the computer changes, and a job begins.                      *)
LEMMA BeginsAt ==
  ASSUME NEW k \in Kinds
  PROVE  Head(Paths[k]) \in ToSet(Paths[k]) /\ (k = "install" => Head(Paths[k]) = "docker")
<1>1. Head(Paths[k]) = Paths[k][1] /\ 1 \in DOMAIN Paths[k]
  BY Ending
<1>2. k = "install" => Paths[k][1] = "docker"
  BY InstallPath DEF Paths
<1>3. Paths[k][1] \in ToSet(Paths[k])
  BY <1>1, Zenon DEF ToSet
<1> QED BY <1>1, <1>2, <1>3

LEMMA BeginsInv ==
  ASSUME Inv, at = "idle", NEW new \in Job, Begin(new), UNCHANGED <<pc, held, faults>>,
         \/ setups' = setups + 1 /\ setups < MaxSetups /\ changes' = changes
         \/ setups' = setups /\ new.kind # "install" /\ changes < MaxChanges /\ changes' = changes + 1
  PROVE  Inv'
<1>1. setups \in 0..MaxSetups /\ changes \in 0..MaxChanges /\ faults \in 0..MaxFaults
  BY DEF Inv, JobOK
<1>2. setups' \in 0..MaxSetups /\ changes' \in 0..MaxChanges /\ faults' \in 0..MaxFaults
      /\ (new.kind = "install" => setups' > 0)
  BY <1>1, DockerSetupAssumption
<1>3. new.kind \in Kinds
  BY KindsAre DEF Job, Installing, Managing
<1>4. at' \in ToSet(Paths[new.kind]) /\ job' = new /\ last' = Nothing /\ (new.kind = "install" => at' = "docker")
  BY <1>3, BeginsAt DEF Begin
<1>5. JobOK'
  <2>1. at' # "idle"
    BY <1>3, <1>4, OwnSteps
  <2> QED BY <1>2, <1>4, <2>1 DEF JobOK, Nothing
<1>6. NamesOK'
  <2> SUFFICES ASSUME NEW k \in Name, (k > setups') \/ (IsEarly' /\ k = setups')
               PROVE  Under(pc, k) = None
    BY Zenon DEF NamesOK, Under
  <2>1. k > setups
    BY <1>1, <1>4 DEF IsEarly, Name
  <2> QED BY <2>1 DEF Inv, NamesOK
<1>7. HeldOK'
  BY Zenon DEF Inv, HeldOK, In, DatabaseIn
<1>8. StepOK'
  BY <1>4 DEF StepOK, Finds, Written
<1> QED BY <1>5, <1>6, <1>7, <1>8, Zenon DEF Inv

(* Something happens to the computer while no job runs.                    *)
LEMMA HappensKeeps ==
  ASSUME Inv, Change, NEW new, Keeps(pc, new), pc' = new, held' \subseteq held \union Serves(pc'),
         last' = Nothing, UNCHANGED <<at, job, setups, faults>>
  PROVE  Inv'
<1>1. JobOK'
  <2>1. changes' \in 0..MaxChanges
    BY DockerSetupAssumption DEF Inv, JobOK, Change
  <2>2. last'.job \in Job \union {NoJob}
    BY DEF Nothing
  <2> QED BY <2>1, <2>2 DEF Inv, JobOK
<1>2. Preserves(pc, pc') /\ Keeps(pc, pc') /\ pc' \in Computer
  BY DEF Keeps, Preserves
<1>3. IsEarly' => IsEarly
  BY Zenon DEF IsEarly
<1>4. StepOK'
  BY DEF StepOK, Change, Inv, JobOK, NoJob
<1> QED BY <1>1, <1>2, <1>3, <1>4, HeldStays, NamesStay DEF Inv

(* A job of the record is of a record there is.                            *)
LEMMA FromRecordIs ==
  ASSUME pc \in Computer, pc.record # None, NEW kind \in Kinds \ {"install"}, NEW value \in Nat
  PROVE  FromRecord(kind, value) \in Job /\ FromRecord(kind, value).kind = kind
<1>1. pc.record \in Records
  BY DEF Computer
<1>2. Secrets(pc, pc.record.external) \in Nat
  BY <1>1, SecretsAre DEF Records
<1>3. Serving(pc) \in BOOLEAN
  BY Zenon DEF Serving
<1>4. FromRecord(kind, value) \in Managing /\ FromRecord(kind, value).kind = kind
  <2> DEFINE pw == Secrets(pc, pc.record.external)
             serving == Serving(pc)
  <2>1. FromRecord(kind, value) =
          [kind |-> kind, flavor |-> pc.record.flavor, value |-> value, external |-> pc.record.external,
           pw |-> pw, existing |-> "none", was |-> [value |-> pc.record.value, serving |-> serving]]
    BY DEF FromRecord
  <2>2. pw \in Nat /\ serving \in BOOLEAN
    BY <1>2, <1>3
  <2> HIDE DEF pw, serving
  <2> QED BY <2>1, <2>2, <1>1 DEF Managing, Records
<1> QED BY <1>4 DEF Job

LEMMA BeforeIs ==
  ASSUME pc \in Computer
  PROVE  Database \in Databases(Name) \union {None}
<1>1. 0 \in Name
  BY DockerSetupAssumption DEF Name
<1> QED BY <1>1 DEF Database, Computer, Volumes

LEMMA InstallInv ==
  ASSUME Inv, NEW c \in Plans, Install(c)
  PROVE  Inv'
<1>1. Database \in Databases(Name) \union {None}
  BY BeforeIs DEF Inv
<1>2. PlanOf(c) \in Job
  BY <1>1, DockerSetupAssumption DEF PlanOf, Job, Installing
<1>3. at = "idle" /\ StartInstall(PlanOf(c))
  BY DEF Install
<1> QED BY <1>2, <1>3, BeginsInv, Zenon DEF StartInstall

LEMMA RetryInv ==
  ASSUME Inv, Retry
  PROVE  Inv'
<1> DEFINE db == Database
<1>1. db \in Databases(Name) \union {None}
  BY BeforeIs DEF Inv
<1>2. at = "idle" /\ StartInstall([last.job EXCEPT !.before = db]) /\ last.job.kind = "install"
  BY DEF Retry
<1> HIDE DEF db
<1>3. last.job \in Job
  BY <1>2 DEF Inv, JobOK, NoJob
<1>4. last.job \in Installing
  BY <1>2, <1>3 DEF Job, Managing
<1>5. [last.job EXCEPT !.before = db] \in Job
  BY <1>1, <1>4 DEF Job, Installing
<1> QED BY <1>2, <1>5, BeginsInv, Zenon DEF StartInstall

LEMMA StartJobInv ==
  ASSUME Inv, pc.record # None, NEW kind \in Kinds \ {"install"}, NEW value \in Nat,
         StartJob(FromRecord(kind, value))
  PROVE  Inv'
<1>1. FromRecord(kind, value) \in Job /\ FromRecord(kind, value).kind # "install"
  BY FromRecordIs DEF Inv
<1>2. /\ at = "idle" /\ Begin(FromRecord(kind, value)) /\ UNCHANGED <<pc, held, faults>>
      /\ setups' = setups /\ changes < MaxChanges /\ changes' = changes + 1
  BY Zenon DEF StartJob, Change
<1> QED BY <1>1, <1>2, BeginsInv

LEMMA RecordIs ==
  ASSUME Inv, pc.record # None
  PROVE  pc.record \in Records /\ pc.record.value \in Nat /\ pc.record.external \in BOOLEAN
BY DEF Inv, Computer, Records

(* Repairing, changing a setting, taking over and removing begin as jobs.  *)
LEMMA ManageInv ==
  ASSUME Inv, Repair \/ TakeOver \/ (\E v \in Values : ApplySettings(v))
                \/ (\E kind \in {"uninstall", "delete"} : Uninstall(kind))
  PROVE  Inv'
<1>1. pc.record # None
  BY DEF Repair, TakeOver, ApplySettings, Uninstall, Readable
<1>2. pc.record.value \in Nat
  BY <1>1, RecordIs
<1>3. CASE Repair
  <2>1. StartJob(FromRecord("repair", pc.record.value)) \/ StartJob(FromRecord("start", pc.record.value))
    BY <1>3 DEF Repair
  <2> QED BY <2>1, <1>1, <1>2, KindsAre, StartJobInv
<1>4. CASE TakeOver
  <2>1. StartJob(FromRecord("takeover", pc.record.value))
    BY <1>4 DEF TakeOver
  <2> QED BY <2>1, <1>1, <1>2, KindsAre, StartJobInv
<1>5. ASSUME NEW v \in Values, ApplySettings(v)
      PROVE  Inv'
  <2>1. StartJob(FromRecord("settings", v))
    BY <1>5 DEF ApplySettings
  <2>2. v \in Nat
    BY DockerSetupAssumption
  <2> QED BY <2>1, <2>2, <1>1, KindsAre, StartJobInv
<1>6. ASSUME NEW kind \in {"uninstall", "delete"}, Uninstall(kind)
      PROVE  Inv'
  <2>1. StartJob(FromRecord(kind, pc.record.value))
    BY <1>6 DEF Uninstall
  <2> QED BY <2>1, <1>1, <1>2, KindsAre, StartJobInv
<1> QED BY <1>3, <1>4, <1>5, <1>6

LEMMA AdoptInv ==
  ASSUME Inv, Adopt
  PROVE  Inv'
<1> DEFINE new == [pc EXCEPT !.record = Describe(pc.app)]
<1>1. pc \in Computer /\ pc.app \in Containers
  BY DEF Inv, Adopt, Candidate, Computer
<1>2. Describe(pc.app) \in Records
  BY <1>1 DEF Describe, OwnStack, Records, Containers, AllSettings
<1>3. new \in Computer /\ new.vol = pc.vol /\ new.hist = pc.hist
  BY <1>1, <1>2 DEF Computer
<1>4. Change /\ pc' = new /\ last' = Nothing /\ UNCHANGED <<at, job, held, setups, faults>>
  BY DEF Adopt
<1> HIDE DEF new
<1>5. Keeps(pc, new)
  BY <1>1, <1>3, VolumeKeeps
<1> QED BY <1>4, <1>5, HappensKeeps

LEMMA ControlInv ==
  ASSUME Inv, NEW run \in BOOLEAN, Control(run)
  PROVE  Inv'
<1> DEFINE from == From(pc.record.external)
           new == IF File(pc, from) = None THEN pc
                  ELSE IF ~run THEN Stopped(pc, from)
                  ELSE IF Free(pc, from) THEN Up(pc, from) ELSE pc
<1>1. pc \in Computer /\ setups \in Name /\ from \in {"own", "other"}
  BY DEF Inv, JobOK, Name, From
<1>2. Change /\ pc' = new /\ held' = held \union Serves(new) /\ last' = Nothing
      /\ UNCHANGED <<at, job, setups, faults>>
  BY DEF Control
<1>3. Keeps(pc, new)
  <2>1. Keeps(pc, pc) /\ Keeps(pc, Stopped(pc, from)) /\ (File(pc, from) # None => Keeps(pc, Up(pc, from)))
    BY <1>1, SameKeeps, StoppedKeeps, UpKeeps
  <2> QED BY <2>1
<1> HIDE DEF new
<1>4. held' \subseteq held \union Serves(pc')
  BY <1>2, Zenon
<1> QED BY <1>2, <1>3, <1>4, HappensKeeps

LEMMA LoseInv ==
  ASSUME Inv, NEW what \in {"own", "other", "record"}, Lose(what)
  PROVE  Inv'
<1> DEFINE new == [pc EXCEPT ![what] = None]
<1>1. pc \in Computer
  BY DEF Inv
<1>2. new \in Computer /\ new.vol = pc.vol /\ new.hist = pc.hist
  <2>1. CASE what = "own"
    BY <1>1, <2>1 DEF Computer
  <2>2. CASE what = "other"
    BY <1>1, <2>2 DEF Computer
  <2>3. CASE what = "record"
    BY <1>1, <2>3 DEF Computer
  <2> QED BY <2>1, <2>2, <2>3
<1>3. Change /\ pc' = new /\ last' = Nothing /\ UNCHANGED <<at, job, held, setups, faults>>
  BY DEF Lose
<1> HIDE DEF new
<1>4. Keeps(pc, new)
  BY <1>1, <1>2, VolumeKeeps
<1> QED BY <1>3, <1>4, HappensKeeps

----------------------------------------------------------------------------
(* The steps of an installation.                                           *)
LEMMA InstallStep ==
  ASSUME Inv, at \in {"docker", "pull", "pgup", "role", "kept", "create", "schema", "admin"}
  PROVE  /\ pc \in Computer /\ job.kind = "install" /\ setups \in Name \ {0} /\ 0 \in Name
         /\ job.flavor \in Flavors /\ job.pw \in Nat
<1>1. job.kind \in Kinds /\ at \in ToSet(Paths[job.kind]) /\ pc \in Computer /\ setups \in Name /\ 0 \in Name
      /\ job.flavor \in Flavors /\ job.pw \in Nat
  BY StepFacts
<1>2. job.kind = "install"
  BY <1>1, OwnSteps, Zenon
<1> QED BY <1>1, <1>2 DEF Inv, JobOK

LEMMA SetUpDockerInv ==
  ASSUME Inv, SetUpDocker, Bounds
  PROVE  Inv'
<1> DEFINE q == [pc EXCEPT !.docker = TRUE]
<1>1. at = "docker" /\ Does(q)
  BY DEF SetUpDocker
<1>2. pc \in Computer
  BY DEF Inv
<1>3. q \in Computer /\ q.vol = pc.vol /\ q.hist = pc.hist /\ q.own = pc.own
  BY <1>2 DEF Computer
<1> HIDE DEF q
<1>4. Leaves(q, at)
  BY <1>1 DEF Leaves, Written
<1> QED BY <1>1, <1>2, <1>3, <1>4, VolumeKeeps, DoesKeeps

LEMMA WriteInv ==
  ASSUME Inv, Write, Bounds
  PROVE  Inv'
<1> DEFINE set == Settings(job.pw, job.flavor, job.value)
           q == [pc EXCEPT !.own = set]
<1>1. at = "write" /\ (Fails("refused", pc) \/ Does(q))
  BY DEF Write
<1>2. CASE Fails("refused", pc)
  BY <1>1, <1>2, FailsSame
<1>3. CASE Does(q)
  <2>1. pc \in Computer /\ set \in AllSettings /\ set # None
    BY <1>1, StepFacts, SettingsAre
  <2> HIDE DEF set
  <2>2. q \in Computer /\ q.vol = pc.vol /\ q.hist = pc.hist /\ q.own = set
    BY <2>1 DEF Computer
  <2> HIDE DEF q
  <2>3. Leaves(q, at)
    BY <1>1, <2>1, <2>2 DEF Leaves
  <2> QED BY <1>1, <1>3, <2>1, <2>2, <2>3, VolumeKeeps, DoesKeeps
<1> QED BY <1>1, <1>2, <1>3

LEMMA PullInv ==
  ASSUME Inv, Pull, Bounds
  PROVE  Inv'
<1> DEFINE q == [pc EXCEPT !.images = TRUE]
<1>1. at = "pull" /\ Does(q)
  BY DEF Pull
<1>2. pc \in Computer
  BY DEF Inv
<1>3. q \in Computer /\ q.vol = pc.vol /\ q.hist = pc.hist /\ q.own = pc.own
  BY <1>2 DEF Computer
<1> HIDE DEF q
<1>4. job.kind = "install" => Leaves(q, at)
  BY <1>1, <1>3, SameLeaves
<1> QED BY <1>1, <1>2, <1>3, <1>4, VolumeKeeps, DoesKeeps

LEMMA StartPostgresInv ==
  ASSUME Inv, StartPostgres, Bounds
  PROVE  Inv'
<1> DEFINE q == PgUp(pc, "own", pc.own)
<1>1. at = "pgup" /\ (Fails("stuck", pc) \/ Does(q))
  BY DEF StartPostgres
<1>2. CASE Fails("stuck", pc)
  BY <1>1, <1>2, FailsSame
<1>3. CASE Does(q)
  <2>1. pc \in Computer /\ setups \in Name /\ job.kind = "install"
    BY <1>1, InstallStep
  <2>2. pc.own # None
    BY <1>1, <2>1 DEF Inv, StepOK, Finds, Written
  <2>3. pc.own \in AllSettings
    BY <2>1, <2>2 DEF Computer
  <2>4. Keeps(pc, q) /\ q.vol # None /\ q.own = pc.own
    BY <2>1, <2>3, PgUpKeeps
  <2> HIDE DEF q
  <2>5. Leaves(q, at)
    BY <1>1, <2>2, <2>4 DEF Leaves
  <2> QED BY <1>1, <1>3, <2>4, <2>5, DoesKeeps
<1> QED BY <1>1, <1>2, <1>3

LEMMA SyncRoleInv ==
  ASSUME Inv, SyncRole, Bounds
  PROVE  Inv'
<1> DEFINE q == [pc EXCEPT !.vol.role = job.pw]
<1>1. at = "role" /\ Does(q)
  BY DEF SyncRole
<1>2. pc \in Computer /\ job.kind = "install" /\ job.pw \in Nat
  BY <1>1, InstallStep
<1>3. pc.own # None /\ pc.vol # None
  BY <1>1, <1>2 DEF Inv, StepOK, Finds, Written
<1>4. pc.vol \in Volumes
  BY <1>2, <1>3 DEF Computer
<1>5. q.vol = [pc.vol EXCEPT !.role = job.pw]
  BY <1>2 DEF Computer
<1>6. q.vol \in Volumes /\ q.vol.dbs = pc.vol.dbs
  BY <1>2, <1>4, <1>5 DEF Volumes
<1>7. q \in Computer /\ q.hist = pc.hist /\ q.own = pc.own
  <2>1. q = [pc EXCEPT !.vol = q.vol]
    BY <1>2 DEF Computer
  <2> HIDE DEF q
  <2> QED BY <2>1, <1>2, <1>6 DEF Computer
<1> HIDE DEF q
<1>8. q.vol # None
  BY <1>6, NoneAssumption
<1>9. Keeps(pc, q)
  BY <1>3, <1>6, <1>7, <1>8 DEF Keeps, Preserves, DatabaseIn, Under
<1>10. Leaves(q, at)
  BY <1>1, <1>3, <1>7, <1>8 DEF Leaves
<1> QED BY <1>1, <1>9, <1>10, DoesKeeps

(* prepare_existing: the database stays, as it is or converted, or is set  *)
(* aside under a name nothing is under.                                    *)
LEMMA PreparedIs ==
  ASSUME NEW dbs \in [Name -> Databases(Name) \union {None}], NEW existing, NEW flavor,
         NEW n \in Name \ {0}, dbs[n] = None
  PROVE  /\ Prepared(dbs, existing, flavor, n) \in [Name -> Databases(Name) \union {None}]
         /\ \A i \in Name : Holds(dbs, i) => Holds(Prepared(dbs, existing, flavor, n), i)
         /\ \A k \in Name \ {0, n} : Prepared(dbs, existing, flavor, n)[k] = dbs[k]
<1> DEFINE new == Prepared(dbs, existing, flavor, n)
<1>1. 0 \in Name
  BY DockerSetupAssumption DEF Name
<1>2. CASE new = dbs
  BY <1>2
<1>3. CASE dbs[0] # None /\ new = SetAside(dbs, n)
  <2>1. new \in [Name -> Databases(Name) \union {None}]
    BY <1>3, <1>1 DEF SetAside
  <2>2. new[n] = dbs[0] /\ \A k \in Name \ {0, n} : new[k] = dbs[k]
    BY <1>3, <1>1 DEF SetAside
  <2> HIDE DEF new
  <2>3. ASSUME NEW i \in Name, Holds(dbs, i)
        PROVE  Holds(new, i)
    <3>1. PICK k \in Name : dbs[k] # None /\ dbs[k].of = i
      BY <2>3 DEF Holds
    <3>2. CASE k = 0
      <4>1. new[n] # None /\ new[n].of = i /\ n \in DOMAIN new
        BY <3>1, <3>2, <2>1, <2>2
      <4> QED BY <4>1 DEF Holds
    <3>3. CASE k # 0
      <4>1. k # n
        BY <3>1
      <4>2. new[k] # None /\ new[k].of = i /\ k \in DOMAIN new
        BY <3>1, <3>3, <4>1, <2>1, <2>2
      <4> QED BY <4>2 DEF Holds
    <3> QED BY <3>2, <3>3
  <2> QED BY <2>1, <2>2, <2>3 DEF new
<1>4. CASE dbs[0] # None /\ new = Converted(dbs)
  <2>1. dbs[0] \in Databases(Name)
    BY <1>4, <1>1
  <2>2. new[0] = [dbs[0] EXCEPT !.shape = "hypertable"]
    BY <1>4, <1>1 DEF Converted
  <2>3. new[0] \in Databases(Name) /\ new[0].of = dbs[0].of
    BY <2>1, <2>2 DEF Databases
  <2>4. DOMAIN new = Name /\ \A k \in Name \ {0} : new[k] = dbs[k]
    BY <1>4 DEF Converted
  <2>5. new \in [Name -> Databases(Name) \union {None}]
    BY <1>4, <2>3, <1>1 DEF Converted
  <2> HIDE DEF new
  <2>6. ASSUME NEW i \in Name, Holds(dbs, i)
        PROVE  Holds(new, i)
    <3>1. PICK k \in Name : dbs[k] # None /\ dbs[k].of = i
      BY <2>6 DEF Holds
    <3>2. new[k] # None /\ new[k].of = i
      BY <3>1, <2>3, <2>4, NoneAssumption
    <3> QED BY <3>2, <2>4 DEF Holds
  <2> QED BY <2>4, <2>5, <2>6 DEF new
<1>5. new = dbs \/ (dbs[0] # None /\ (new = SetAside(dbs, n) \/ new = Converted(dbs)))
  BY Zenon DEF Prepared
<1> QED BY <1>2, <1>3, <1>4, <1>5

LEMMA PrepareExistingInv ==
  ASSUME Inv, PrepareExisting, Bounds
  PROVE  Inv'
<1> DEFINE dbs == Prepared(pc.vol.dbs, job.existing, job.flavor, setups)
           q == [pc EXCEPT !.vol.dbs = dbs]
<1>1. at = "kept" /\ at # "idle"
  BY DEF PrepareExisting
<1>2. pc \in Computer /\ job.kind = "install" /\ setups \in Name \ {0} /\ 0 \in Name
  BY <1>1, InstallStep
<1>3. pc.own # None /\ pc.vol # None
  BY <1>1, <1>2 DEF Inv, StepOK, Finds, Written
<1>4. pc.vol \in Volumes /\ pc.vol.dbs \in [Name -> Databases(Name) \union {None}]
  BY <1>2, <1>3 DEF Computer, Volumes
<1>5. pc.vol.dbs[setups] = None
  <2>1. IsEarly
    BY <1>1, <1>2 DEF IsEarly, Early
  <2> QED BY <2>1, <1>2, <1>3 DEF Inv, NamesOK, Under
<1>6. /\ dbs \in [Name -> Databases(Name) \union {None}]
      /\ \A i \in Name : Holds(pc.vol.dbs, i) => Holds(dbs, i)
      /\ \A k \in Name \ {0, setups} : dbs[k] = pc.vol.dbs[k]
  BY <1>2, <1>4, <1>5, PreparedIs
<1>7. Database # None /\ job.existing = "fresh" => dbs[0] = None
  BY <1>2, <1>3, <1>4 DEF Database, Prepared, SetAside
<1>8. CASE Fails("refused", pc)
  BY <1>1, <1>8, FailsSame
<1>9. \/ Fails("refused", pc)
      \/ Database # None /\ job.existing = "fresh" /\ Does(q)
      \/ pc' = q /\ at' = "schema" /\ UNCHANGED <<job, last, held>>
  BY Zenon DEF PrepareExisting
<1> HIDE DEF dbs
<1>10. q.vol = [pc.vol EXCEPT !.dbs = dbs]
  BY <1>2 DEF Computer
<1>11. q.vol \in Volumes /\ q.vol.dbs = dbs
  BY <1>4, <1>6, <1>10 DEF Volumes
<1>12. q \in Computer /\ q.hist = pc.hist /\ q.own = pc.own
  <2>1. q = [pc EXCEPT !.vol = q.vol]
    BY <1>2 DEF Computer
  <2> HIDE DEF q
  <2> QED BY <2>1, <1>2, <1>11 DEF Computer
<1> HIDE DEF q
<1>13. q.vol # None
  BY <1>11, NoneAssumption
<1>14. Preserves(pc, q)
  BY <1>3, <1>6, <1>11, <1>12, <1>13 DEF Preserves, DatabaseIn
<1>15. ASSUME pc' = q, held' \subseteq held \union Serves(pc'), JobOK', StepOK', ~IsEarly'
       PROVE  Inv'
  <2>1. HeldOK'
    BY <1>2, <1>14, <1>15, HeldStays DEF Inv
  <2>2. NamesOK'
    <3> SUFFICES ASSUME NEW k \in Name, k > setups
                 PROVE  Under(pc', k) = None
      BY <1>15, Zenon DEF NamesOK, Under, Bounds
    <3>1. k \in Name \ {0, setups}
      BY <1>2 DEF Name
    <3>2. pc.vol.dbs[k] = None
      BY <1>3 DEF Inv, NamesOK, Under
    <3> QED BY <3>1, <3>2, <1>6, <1>11, <1>15 DEF Under
  <2> QED BY <2>1, <2>2, <1>12, <1>15, Zenon DEF Inv
<1>16. CASE Database # None /\ job.existing = "fresh" /\ Does(q)
  <2>1. Leaves(q, at)
    BY <1>1, <1>3, <1>7, <1>11, <1>12, <1>13, <1>16 DEF Leaves
  <2>2. JobOK' /\ StepOK' /\ ~IsEarly'
    BY <1>1, <1>16, <2>1, DoesJob DEF Inv
  <2>3. pc' = q /\ held' = held \union Serves(pc')
    BY <1>16, Zenon DEF Does
  <2> QED BY <1>15, <2>2, <2>3
<1>17. CASE pc' = q /\ at' = "schema" /\ UNCHANGED <<job, last, held>>
  <2>1. JobOK'
    BY <1>1, <1>2, <1>17, JobGoesOn, OwnSteps DEF Inv, JobOK, Bounds
  <2>2. StepOK' /\ ~IsEarly'
    <3>1. Finds(q, "schema")
      BY <1>3, <1>12 DEF Finds, Written
    <3> QED BY <3>1, <1>17, Zenon DEF StepOK, Finds, IsEarly, Early
  <2> QED BY <1>15, <1>17, <2>1, <2>2
<1> QED BY <1>8, <1>9, <1>16, <1>17

(* SENTIENT's database is made when there is none, and changed in place.   *)
LEMMA ServedDatabaseIs ==
  ASSUME NEW db \in Databases(Name) \union {None}, NEW shape \in {"plain", "partitioned", "hypertable"}
  PROVE  /\ WithSchema(db, shape) \in Databases(Name) \union {None}
         /\ db # None => /\ WithSchema(db, shape) # None /\ WithSchema(db, shape).of = db.of
                         /\ WithAdministrator(db) \in Databases(Name) /\ WithAdministrator(db) # None
                         /\ WithAdministrator(db).of = db.of
<1>1. CASE db = None
  BY <1>1 DEF WithSchema
<1>2. CASE db # None
  <2>1. /\ WithSchema(db, shape) \in Databases(Name) /\ WithSchema(db, shape).of = db.of
        /\ WithAdministrator(db) \in Databases(Name) /\ WithAdministrator(db).of = db.of
    BY <1>2 DEF WithSchema, WithAdministrator, Databases
  <2> QED BY <2>1, NoneAssumption
<1> QED BY <1>1, <1>2

LEMMA WithDatabaseKeeps ==
  ASSUME NEW p \in Computer, p.vol # None, NEW d \in Databases(Name) \union {None},
         p.vol.dbs[0] # None => d # None /\ d.of = p.vol.dbs[0].of
  PROVE  LET q == [p EXCEPT !.vol.dbs[0] = d]
         IN q \in Computer /\ Keeps(p, q) /\ q.own = p.own /\ q.hist = p.hist /\ q.vol # None
<1> DEFINE q == [p EXCEPT !.vol.dbs[0] = d]
<1>1. p.vol \in Volumes /\ 0 \in Name
  BY DockerSetupAssumption DEF Computer, Name
<1>2. q.vol = [p.vol EXCEPT !.dbs[0] = d]
  BY DEF Computer
<1>3. q.vol.dbs = [p.vol.dbs EXCEPT ![0] = d] /\ q.vol \in Volumes
  BY <1>1, <1>2 DEF Volumes
<1>4. q \in Computer /\ q.hist = p.hist /\ q.own = p.own
  <2>1. q = [p EXCEPT !.vol = q.vol]
    BY DEF Computer
  <2> HIDE DEF q
  <2> QED BY <2>1, <1>3 DEF Computer
<1> HIDE DEF q
<1>5. q.vol # None
  BY <1>3, NoneAssumption
<1>6. Keeps(p, q)
  BY <1>3, <1>4, <1>5, KeepsInService
<1> QED BY <1>4, <1>5, <1>6 DEF q

LEMMA CreateDatabaseInv ==
  ASSUME Inv, CreateDatabase, Bounds
  PROVE  Inv'
<1> DEFINE q == [pc EXCEPT !.vol.dbs[0] = Created(setups)]
<1>1. at = "create" /\ Does(q)
  BY DEF CreateDatabase
<1>2. pc \in Computer /\ job.kind = "install" /\ setups \in Name
  BY <1>1, InstallStep
<1>3. pc.vol # None /\ pc.vol.dbs[0] = None /\ pc.own # None
  BY <1>1, <1>2 DEF Inv, StepOK, Finds, Written
<1>4. Keeps(pc, q) /\ q.own = pc.own
  BY <1>2, <1>3, CreatedIs, WithDatabaseKeeps
<1> HIDE DEF q
<1>5. Leaves(q, at)
  BY <1>1, <1>3, <1>4 DEF Leaves
<1> QED BY <1>1, <1>4, <1>5, DoesKeeps

LEMMA InstallSchemaInv ==
  ASSUME Inv, InstallSchema, Bounds
  PROVE  Inv'
<1> DEFINE p == PgUp(pc, "own", pc.own)
           hist == IF job.flavor = "clickhouse" /\ p.hist = None /\ p.vol.dbs[0] # None
                   THEN p.vol.dbs[0].of ELSE p.hist
           new(shape) == [p EXCEPT !.vol.dbs[0] = WithSchema(@, shape),
                                   !.hist = IF job.flavor = "clickhouse" /\ @ = None /\ p.vol.dbs[0] # None
                                            THEN p.vol.dbs[0].of ELSE @]
<1>1. at = "schema" /\ (Does(pc) \/ Does(p) \/ (\E shape \in Makes(job.flavor) : Does(new(shape))))
  BY Zenon DEF InstallSchema
<1>2. pc \in Computer /\ job.kind = "install" /\ setups \in Name /\ 0 \in Name /\ job.flavor \in Flavors
  BY <1>1, InstallStep
<1>3. pc.own # None /\ pc.own \in AllSettings
  BY <1>1, <1>2 DEF Inv, StepOK, Finds, Written, Computer
<1>4. p \in Computer /\ Keeps(pc, p) /\ p.vol # None /\ p.own = pc.own
  BY <1>2, <1>3, PgUpKeeps
<1>5. ASSUME NEW q, Keeps(pc, q), q.own = pc.own, Does(q)
      PROVE  Inv'
  <2>1. Leaves(q, at)
    BY <1>1, <1>3, <1>5 DEF Leaves
  <2> QED BY <1>1, <1>5, <2>1, DoesKeeps
<1>6. CASE Does(pc)
  BY <1>2, <1>5, <1>6, SameKeeps
<1>7. CASE Does(p)
  BY <1>4, <1>5, <1>7
<1>8. ASSUME NEW shape \in Makes(job.flavor)
      PROVE  Keeps(p, new(shape)) /\ new(shape).own = p.own
  <2> DEFINE d == WithSchema(p.vol.dbs[0], shape)
             r == [p EXCEPT !.vol.dbs[0] = d]
             q == [r EXCEPT !.hist = hist]
  <2>1. shape \in {"plain", "partitioned", "hypertable"}
    BY <1>2, <1>8 DEF Makes, Flavors
  <2>2. p.vol \in Volumes /\ p.vol.dbs[0] \in Databases(Name) \union {None} /\ p.hist \in Name \union {None}
    BY <1>2, <1>4 DEF Computer, Volumes
  <2>3. d \in Databases(Name) \union {None} /\ (p.vol.dbs[0] # None => d # None /\ d.of = p.vol.dbs[0].of)
    BY <2>1, <2>2, ServedDatabaseIs
  <2>4. hist \in Name \union {None} /\ (p.hist # None => hist = p.hist)
    BY <2>2 DEF Databases
  <2> HIDE DEF p
  <2>5. new(shape) = q
    BY <1>2, <1>4, <2>2 DEF Computer, Volumes
  <2> HIDE DEF d, hist
  <2>6. r \in Computer /\ Keeps(p, r) /\ r.own = p.own /\ r.hist = p.hist
    BY <1>4, <2>3, WithDatabaseKeeps
  <2> HIDE DEF r
  <2>7. q \in Computer /\ q.vol = r.vol /\ q.hist = hist /\ q.own = r.own
    BY <2>4, <2>6 DEF Computer
  <2> HIDE DEF q
  <2>8. Keeps(r, q)
    BY <2>4, <2>6, <2>7 DEF Keeps, Preserves, DatabaseIn, Under
  <2>9. Keeps(p, q) /\ q.own = p.own
    BY <2>6, <2>7, <2>8, KeepsTransitive
  <2> QED BY <2>5, <2>9
<1>9. ASSUME NEW shape \in Makes(job.flavor), Does(new(shape))
      PROVE  Inv'
  <2> HIDE DEF p, new
  <2>1. Keeps(p, new(shape)) /\ new(shape).own = p.own
    BY <1>8
  <2>2. Keeps(pc, new(shape)) /\ new(shape).own = pc.own
    BY <2>1, <1>4, KeepsTransitive
  <2> QED BY <2>2, <1>5, <1>9
<1> QED BY <1>1, <1>6, <1>7, <1>9

LEMMA ComposeUpInv ==
  ASSUME Inv, ComposeUp, Bounds
  PROVE  Inv'
<1>1. at = "up" /\ (Fails("stuck", pc) \/ (CanUp(pc, "own") /\ Does(Up(pc, "own"))))
  BY DEF ComposeUp
<1>2. CASE Fails("stuck", pc)
  BY <1>1, <1>2, FailsSame
<1>3. CASE CanUp(pc, "own") /\ Does(Up(pc, "own"))
  <2>1. pc \in Computer /\ setups \in Name /\ File(pc, "own") # None
    BY <1>1, <1>3, StepFacts DEF CanUp
  <2>2. Keeps(pc, Up(pc, "own"))
    BY <2>1, UpKeeps
  <2>3. Leaves(Up(pc, "own"), at)
    BY <1>1 DEF Leaves, Written
  <2> QED BY <1>1, <1>3, <2>2, <2>3, DoesKeeps
<1> QED BY <1>1, <1>2, <1>3

LEMMA ServeInv ==
  ASSUME Inv, Serve, Bounds
  PROVE  Inv'
<1>1. at = "serve" /\ (Fails("stuck", pc) \/ (Serving(pc) /\ Does(pc)))
  BY DEF Serve, Answers
<1>2. CASE Fails("stuck", pc)
  BY <1>1, <1>2, FailsSame
<1>3. CASE Serving(pc) /\ Does(pc)
  <2>1. Leaves(pc, at)
    BY <1>1, <1>3 DEF Leaves, Written, Serving
  <2>2. Keeps(pc, pc)
    BY SameKeeps DEF Inv
  <2> QED BY <1>1, <1>3, <2>1, <2>2, DoesKeeps
<1> QED BY <1>1, <1>2, <1>3

LEMMA SetAdminInv ==
  ASSUME Inv, SetAdmin, Bounds
  PROVE  Inv'
<1> DEFINE d == WithAdministrator(pc.vol.dbs[0])
           q == [pc EXCEPT !.vol.dbs[0] = d]
<1>1. at = "admin" /\ Does([pc EXCEPT !.vol.dbs[0] = WithAdministrator(@)])
  BY DEF SetAdmin
<1>2. pc \in Computer /\ job.kind = "install" /\ 0 \in Name
  BY <1>1, InstallStep
<1>3. pc.vol # None /\ pc.vol.dbs[0] # None
  BY <1>1, <1>2 DEF Inv, StepOK, Finds
<1>4. pc.vol.dbs[0] \in Databases(Name)
  BY <1>2, <1>3 DEF Computer, Volumes
<1>5. d \in Databases(Name) /\ d # None /\ d.of = pc.vol.dbs[0].of
  BY <1>3, <1>4, ServedDatabaseIs
<1>6. Does(q)
  <2>1. [pc EXCEPT !.vol.dbs[0] = WithAdministrator(@)] = q
    BY <1>2, <1>3 DEF Computer, Volumes
  <2> HIDE DEF q
  <2> QED BY <1>1, <2>1
<1> HIDE DEF d
<1>7. Keeps(pc, q)
  BY <1>2, <1>3, <1>5, WithDatabaseKeeps
<1> HIDE DEF q
<1>8. Leaves(q, at)
  BY <1>1 DEF Leaves, Written
<1> QED BY <1>1, <1>6, <1>7, <1>8, DoesKeeps

LEMMA SaveRecordInv ==
  ASSUME Inv, SaveRecord, Bounds
  PROVE  Inv'
<1> DEFINE record == [flavor |-> job.flavor, value |-> job.value, external |-> FALSE]
           q == [pc EXCEPT !.record = record]
<1>1. at = "record" /\ Does(q)
  BY DEF SaveRecord
<1>2. pc \in Computer /\ record \in Records
  BY <1>1, StepFacts DEF Records
<1> HIDE DEF record
<1>3. q \in Computer /\ q.vol = pc.vol /\ q.hist = pc.hist
  BY <1>2 DEF Computer
<1> HIDE DEF q
<1>4. Leaves(q, at)
  BY <1>1 DEF Leaves, Written
<1> QED BY <1>1, <1>2, <1>3, <1>4, VolumeKeeps, DoesKeeps

----------------------------------------------------------------------------
(* The steps of the other jobs.                                            *)
LEMMA TakeDownInv ==
  ASSUME Inv, TakeDown, Bounds
  PROVE  Inv'
<1>1. at = "down" /\ (Fails("refused", pc) \/ Does(Down(pc)))
  BY DEF TakeDown
<1>2. CASE Fails("refused", pc)
  BY <1>1, <1>2, FailsSame
<1>3. CASE Does(Down(pc))
  <2>1. Keeps(pc, Down(pc))
    BY DownKeeps DEF Inv
  <2>2. Leaves(Down(pc), at)
    BY <1>1 DEF Leaves, Written
  <2> QED BY <1>1, <1>3, <2>1, <2>2, DoesKeeps
<1> QED BY <1>1, <1>2, <1>3

(* The old settings are written and started, or the operator's project.    *)
LEMMA RestoredKeeps ==
  ASSUME NEW p \in Computer, job \in Managing, setups \in Name
  PROVE  Keeps(p, Restored(p))
<1>1. Down(p) \in Computer /\ Keeps(p, Down(p))
  BY DownKeeps
<1>2. ASSUME CanUp(Down(p), "other")
      PROVE  Keeps(p, Up(Down(p), "other"))
  <2>1. Keeps(Down(p), Up(Down(p), "other"))
    BY <1>1, <1>2, UpKeeps DEF CanUp
  <2> QED BY <1>1, <2>1, KeepsTransitive
<1> DEFINE set == Settings(Secrets(p, FALSE), job.flavor, job.was.value)
           q == [p EXCEPT !.own = set]
<1>3. set \in AllSettings /\ set # None
  <2>1. Secrets(p, FALSE) \in Nat /\ job.flavor \in Flavors /\ job.was.value \in Nat
    BY SecretsAre DEF Managing
  <2> QED BY <2>1, SettingsAre
<1>4. Restored(p) \in {p, Down(p), Up(q, "own")} \/ (CanUp(Down(p), "other") /\ Restored(p) = Up(Down(p), "other"))
  BY Zenon DEF Restored
<1> HIDE DEF set
<1>5. q \in Computer /\ q.vol = p.vol /\ q.hist = p.hist /\ q.own = set
  BY <1>3 DEF Computer
<1> HIDE DEF q
<1>6. Keeps(p, q)
  BY <1>5, VolumeKeeps
<1>7. Keeps(q, Up(q, "own"))
  <2>1. File(q, "own") # None
    BY <1>3, <1>5 DEF File
  <2> QED BY <2>1, <1>5, UpKeeps
<1>8. Keeps(p, Up(q, "own"))
  BY <1>6, <1>7, KeepsTransitive
<1> QED BY <1>1, <1>2, <1>4, <1>8, SameKeeps

LEMMA PutBackInv ==
  ASSUME Inv, PutBack, Bounds
  PROVE  Inv'
<1>1. at = "back" /\ pc' = Restored(pc) /\ held' = held \union Serves(pc') /\ End("undone")
  BY DEF PutBack
<1>2. pc \in Computer /\ setups \in Name /\ job \in Managing
  <2>1. pc \in Computer /\ setups \in Name /\ job \in Job /\ at \in ToSet(Paths[job.kind])
    BY <1>1, StepFacts
  <2>2. job.kind # "install"
    <3>1. "back" \notin ToSet(InstallSteps)
      BY InstallPath DEF ToSet
    <3> QED BY <1>1, <2>1, <3>1 DEF Paths
  <2> QED BY <2>1, <2>2 DEF Job, Installing
<1>3. Keeps(pc, Restored(pc))
  BY <1>2, RestoredKeeps
<1>4. JobOK' /\ StepOK' /\ ~IsEarly'
  <2>1. UNCHANGED <<setups, changes>> /\ faults' \in 0..MaxFaults
    BY DEF Inv, JobOK, Bounds
  <2> QED BY <2>1, <1>1, JobEnds DEF Inv
<1>5. Preserves(pc, pc') /\ Keeps(pc, pc') /\ pc' \in Computer /\ held' \subseteq held \union Serves(pc')
  BY <1>1, <1>3, Zenon DEF Keeps, Preserves
<1> QED BY <1>4, <1>5, HeldStays, NamesStay DEF Inv, Bounds

LEMMA StartInv ==
  ASSUME Inv, Start, Bounds
  PROVE  Inv'
<1> DEFINE from == From(job.external)
<1>1. at = "start" /\ from \in {"own", "other"}
      /\ (Fails("refused", pc) \/ (CanUp(pc, from) /\ Does(Up(pc, from))))
  BY Zenon DEF Start, From
<1> HIDE DEF from
<1>2. CASE Fails("refused", pc)
  BY <1>1, <1>2, FailsSame
<1>3. CASE CanUp(pc, from) /\ Does(Up(pc, from))
  <2>1. pc \in Computer /\ setups \in Name /\ File(pc, from) # None
    BY <1>1, <1>3, StepFacts DEF CanUp
  <2>2. Keeps(pc, Up(pc, from))
    BY <1>1, <2>1, UpKeeps
  <2>3. Leaves(Up(pc, from), at)
    BY <1>1 DEF Leaves, Written
  <2> QED BY <1>1, <1>3, <2>2, <2>3, DoesKeeps
<1> QED BY <1>1, <1>2, <1>3

(* The containers go; the data only with what was to be held of them.      *)
LEMMA RemoveStackInv ==
  ASSUME Inv, RemoveStack, Bounds
  PROVE  Inv'
<1> DEFINE down == Down(pc)
           q == WithoutData(down)
<1>1. at = "remove" /\ at' = Following /\ UNCHANGED <<job, last>>
  BY DEF RemoveStack
<1>2. /\ pc \in Computer /\ job.kind \in {"uninstall", "delete"} /\ job.kind \in Kinds /\ at \in ToSet(Paths[job.kind])
      /\ at # Last(Paths[job.kind])
  BY <1>1, StepFacts, OwnSteps
<1>3. JobOK' /\ StepOK' /\ ~IsEarly'
  <2>1. Following \in ToSet(Paths[job.kind])
    BY <1>2, FollowingIs
  <2>2. faults' \in 0..MaxFaults /\ UNCHANGED <<setups, changes>>
    BY DEF Inv, JobOK, Bounds
  <2>3. JobOK'
    BY <1>1, <2>1, <2>2, JobGoesOn DEF Inv
  <2> QED BY <1>1, <1>2, <2>3 DEF StepOK, IsEarly
<1>4. down \in Computer /\ Keeps(pc, down)
  BY <1>2, DownKeeps
<1>5. CASE pc' = down /\ held' = held
  <2>1. Preserves(pc, pc') /\ Keeps(pc, pc') /\ pc' \in Computer /\ held' \subseteq held \union Serves(pc')
    BY <1>4, <1>5 DEF Keeps
  <2> QED BY <1>3, <2>1, HeldStays, NamesStay DEF Inv, Bounds
<1>6. CASE pc' = q /\ held' = {}
  <2> HIDE DEF down
  <2>1. q \in Computer /\ q.vol = None
    BY <1>4 DEF WithoutData, Computer
  <2> HIDE DEF q
  <2>2. HeldOK'
    BY <1>6 DEF HeldOK
  <2>3. NamesOK'
    BY <1>6, <2>1 DEF NamesOK, Under
  <2> QED BY <1>3, <1>6, <2>1, <2>2, <2>3 DEF Inv
<1> QED BY <1>5, <1>6 DEF RemoveStack

LEMMA RemoveRecordInv ==
  ASSUME Inv, RemoveRecord, Bounds
  PROVE  Inv'
<1> DEFINE q == [pc EXCEPT !.record = None]
<1>1. at = "unrecord" /\ Does(q)
  BY DEF RemoveRecord
<1>2. pc \in Computer
  BY DEF Inv
<1>3. q \in Computer /\ q.vol = pc.vol /\ q.hist = pc.hist
  BY <1>2 DEF Computer
<1> HIDE DEF q
<1>4. Leaves(q, at)
  BY <1>1 DEF Leaves, Written
<1> QED BY <1>1, <1>2, <1>3, <1>4, VolumeKeeps, DoesKeeps

----------------------------------------------------------------------------
(* What is interrupted keeps what is there too.                            *)
LEMMA InSteps ==
  ASSUME <<job.kind, at>> \in Steps
  PROVE  at # "idle"
<1>1. PICK k \in Kinds : <<job.kind, at>> \in {k} \X ToSet(Paths[k])
  BY Zenon DEF Steps
<1>2. at \in ToSet(Paths[k])
  BY <1>1
<1> QED BY <1>2, OwnSteps

LEMMA TornKeeps ==
  ASSUME Inv, NEW s
  PROVE  Keeps(pc, Torn(s))
<1> DEFINE q == [pc EXCEPT !.app = None]
<1>1. pc \in Computer /\ setups \in Name
  BY DEF Inv, JobOK, Name
<1>2. Torn(s) \in {q, pc} \/ (CanUp(pc, "own") /\ Torn(s) = PgUp(pc, "own", pc.own))
  <2>1. CASE s \in {"up", "schema"} /\ CanUp(pc, "own")
    BY <2>1 DEF Torn
  <2>2. CASE s \in {"down", "remove"}
    BY <2>2 DEF Torn
  <2>3. CASE ~(s \in {"up", "schema"} /\ CanUp(pc, "own")) /\ s \notin {"down", "remove"}
    BY <2>3, Zenon DEF Torn
  <2> QED BY <2>1, <2>2, <2>3
<1>3. q \in Computer /\ q.vol = pc.vol /\ q.hist = pc.hist
  BY <1>1 DEF Computer
<1> HIDE DEF q
<1>4. Keeps(pc, q) /\ Keeps(pc, pc)
  BY <1>1, <1>3, VolumeKeeps, SameKeeps
<1>5. ASSUME CanUp(pc, "own")
      PROVE  Keeps(pc, PgUp(pc, "own", pc.own))
  <2>1. pc.own \in AllSettings
    BY <1>1, <1>5 DEF CanUp, File, Computer
  <2> QED BY <1>1, <2>1, PgUpKeeps
<1> QED BY <1>2, <1>4, <1>5

LEMMA FailInv ==
  ASSUME Inv, Fail
  PROVE  Inv'
<1>1. at # "idle"
  BY DockerSetupAssumption, InSteps DEF Fail
<1>2. Fails("failed", pc) \/ Fails("failed", Torn(at))
  BY DEF Fail
<1>3. faults' \in 0..MaxFaults /\ UNCHANGED <<setups, changes>>
  BY DockerSetupAssumption DEF Fail, Inv, JobOK
<1>4. Keeps(pc, pc) /\ Keeps(pc, Torn(at))
  BY SameKeeps, TornKeeps DEF Inv
<1> QED BY <1>1, <1>2, <1>3, <1>4, FailsKeeps

LEMMA DieInv ==
  ASSUME Inv, Die
  PROVE  Inv'
<1>1. End("killed") /\ UNCHANGED <<pc, held, setups, changes>>
  BY DEF Die
<1>2. faults' \in 0..MaxFaults
  BY DockerSetupAssumption DEF Die, Inv, JobOK
<1>3. JobOK' /\ StepOK' /\ ~IsEarly'
  BY <1>1, <1>2, JobEnds DEF Inv
<1>4. Keeps(pc, pc') /\ Preserves(pc, pc') /\ pc' \in Computer /\ held' \subseteq held \union Serves(pc')
  BY <1>1, SameKeeps DEF Inv, Keeps
<1> QED BY <1>1, <1>3, <1>4, HeldStays, NamesStay DEF Inv

LEMMA NextInv ==
  ASSUME Inv, [Next]_vars
  PROVE  Inv'
<1>1. CASE Operator
  <2>1. ASSUME NEW c \in Plans, Install(c) PROVE Inv'
    BY <2>1, InstallInv
  <2>2. ASSUME NEW run \in BOOLEAN, Control(run) PROVE Inv'
    BY <2>2, ControlInv
  <2>3. ASSUME NEW what \in {"own", "other", "record"}, Lose(what) PROVE Inv'
    BY <2>3, LoseInv
  <2> QED BY <1>1, <2>1, <2>2, <2>3, RetryInv, ManageInv, AdoptInv, Zenon DEF Operator
<1>2. CASE Step
  BY <1>2, SetUpDockerInv, WriteInv, PullInv, StartPostgresInv, SyncRoleInv, PrepareExistingInv, CreateDatabaseInv,
     InstallSchemaInv, ComposeUpInv, ServeInv, SetAdminInv, SaveRecordInv, TakeDownInv, PutBackInv, StartInv,
     RemoveStackInv, RemoveRecordInv, Zenon DEF Step
<1>3. CASE Fail
  BY <1>3, FailInv
<1>4. CASE Die
  BY <1>4, DieInv
<1>5. CASE UNCHANGED vars
  BY <1>5, Zenon DEF vars, Inv, JobOK, HeldOK, NamesOK, StepOK, Finds, IsEarly, In, DatabaseIn, Under
<1> QED BY <1>1, <1>2, <1>3, <1>4, <1>5 DEF Next

LEMMA Invariant == Spec => []Inv
<1>1. Init => Inv
  BY InitInv
<1>2. Inv /\ [Next]_vars => Inv'
  BY NextInv
<1> QED BY <1>1, <1>2, PTL DEF Spec

(* Every variable of DockerSetup keeps its type.                           *)
THEOREM TypeCorrect == Spec => []TypeOK
<1>1. Inv => TypeOK
  BY Zenon DEF Inv, JobOK, HeldOK, TypeOK
<1> QED BY <1>1, Invariant, PTL

(* Whatever is installed, fails, is killed, tried again, adopted, taken    *)
(* over, changed or removed in Docker: a database or a history SENTIENT    *)
(* has served is in its volume, in service or set aside, until its data    *)
(* are deleted on purpose (prepare_existing, remove_keeping_data,          *)
(* uninstall).                                                             *)
THEOREM ServedDataSurvive == Spec => []KeptSurvives
<1>1. ASSUME Inv PROVE KeptSurvives
  <2> SUFFICES ASSUME NEW h \in held PROVE HeldIsThere(h)
    BY DEF KeptSurvives
  <2>1. In(pc, h)
    BY <1>1 DEF Inv, HeldOK
  <2> QED BY <2>1 DEF In, DatabaseIn, HeldIsThere
<1> QED BY <1>1, Invariant, PTL

----------------------------------------------------------------------------
(* The passwords and the settings, when what the code has no way back from *)
(* does not fail: see Quiet.                                               *)

(* Nothing tears but docker compose up; nothing fails, and the manager is  *)
(* not killed, where the code leaves things apart: no database when one    *)
(* was set aside (distro.rs:744), the record behind the settings it        *)
(* records, new settings or one of two projects not put back.              *)
Quiet ==
  /\ MayTear \subseteq Kinds \X {"up", "schema"}
  /\ <<"install", "create">> \notin MayFail \union MayDie
  /\ \A k \in {"settings", "takeover"} :
       /\ \A s \in {"record", "back"} : <<k, s>> \notin MayFail
       /\ \A s \in {"write", "up", "serve", "record", "back"} : <<k, s>> \notin MayDie

(* Every password the manager could read back of its own stack is the one  *)
(* the database takes; v is the setting its file and container have.       *)
Works(p) ==
  /\ Free(p, "own")
  /\ p.own # None => p.vol # None /\ p.own.pw = p.vol.role
  /\ p.app # None => p.vol # None /\ p.app.set.pw = p.vol.role
  /\ p.pg # None => p.vol # None /\ p.pg.set.first = p.vol.role
Has(p, v) ==
  /\ p.own # None => p.own.value = v
  /\ p.app # None => p.app.set.value = v
(* All containers there are are the operator's.                            *)
Theirs(p) ==
  /\ p.app # None => p.app.from = "other"
  /\ p.pg # None => p.app # None

FilesOK(p) ==
  /\ p.own # None => p.own.pw # 0 /\ p.own.first = p.own.pw
  /\ p.app # None => p.pg # None /\ p.pg.from = p.app.from
  /\ p.app = None /\ p.pg # None => p.pg.from = "own"
VolumeOK(p, a, j) ==
  p.vol # None => p.vol.dbs[0] # None \/ (j.kind = "install" /\ a = "create")
RecordOK(p, j) ==
  /\ p.record # None /\ ~p.record.external => Works(p) /\ (j.kind # "settings" => Has(p, p.record.value))
  /\ p.record # None /\ p.record.external /\ j.kind # "takeover" => Theirs(p)
  /\ p.record = None /\ p.app # None /\ p.app.from = "own" => Works(p) /\ Has(p, p.app.set.value)
(* What every try of an installation leaves the next one.                  *)
InstallOK(p, j) ==
  /\ p.record = None /\ j.value = 0 /\ j.pw # 0 /\ ~j.external
  /\ p.app # None => p.app.from = "own" /\ p.app.set.pw = j.pw /\ p.app.set.value = 0
  /\ p.vol # None /\ j.existing = "none" => p.vol.role = j.pw
Synced == {"kept", "create", "schema", "up", "serve", "admin", "record"}
Installs(p, a, j) ==
  /\ InstallOK(p, j)
  /\ a \notin {"docker", "write"} => p.own # None /\ p.own.pw = j.pw /\ p.own.value = 0
  /\ p.vol # None /\ a \in Synced => p.vol.role = j.pw
  /\ a \in {"up", "serve"} => p.vol # None /\ p.vol.dbs[0] # None /\ p.vol.dbs[0].shape # "missing"
  /\ a \in {"serve", "admin", "record"} => p.app # None /\ p.app.up /\ p.pg.up /\ p.vol # None
Manages(p, j) ==
  /\ p.record # None /\ j.external = p.record.external
  /\ j.kind # "settings" => j.value = p.record.value
Repairs(p, a, j) ==
  IF j.external THEN a = "write" ELSE j.pw # 0 /\ p.vol # None /\ j.pw = p.vol.role
Sets(p, a, j) ==
  /\ j.was.value = p.record.value
  /\ IF j.external THEN a \in {"write", "back"} /\ (j.was.serving => Serving(p))
     ELSE /\ j.pw # 0 /\ p.vol # None /\ j.pw = p.vol.role /\ Secrets(p, FALSE) = j.pw
          /\ j.was.serving => j.was.value \notin Unfit /\ p.vol.dbs[0] # None /\ p.vol.dbs[0].shape # "missing"
          /\ a \in {"up", "serve", "record"} => p.own # None /\ p.own.value = j.value
          /\ a \in {"serve", "record"} => p.app # None /\ p.app.set.value = j.value
          /\ a = "record" => Serving(p)
TakesOver(p, a, j) ==
  /\ j.external /\ j.pw # 0
  /\ a = "down" => Theirs(p)
  /\ a # "down" => p.other # None
  /\ a \in {"write", "up"} => p.app = None /\ p.pg = None
  /\ a \in {"up", "serve", "record"} => p.own # None /\ p.own.pw = j.pw /\ p.own.value = j.value
  /\ a \in {"serve", "record"} => /\ p.app # None /\ Free(p, "own")
                                  /\ p.app.set = p.own /\ p.pg.set = p.own /\ p.vol # None
  /\ a = "record" => Serving(p)
JobFits(p, a, j) ==
  /\ j.kind = "install" => Installs(p, a, j)
  /\ a # "idle" /\ j.kind # "install" => Manages(p, j)
  /\ j.kind = "repair" => Repairs(p, a, j)
  /\ j.kind = "settings" => Sets(p, a, j)
  /\ j.kind = "takeover" => TakesOver(p, a, j)
Fit(p, a, j) == FilesOK(p) /\ VolumeOK(p, a, j) /\ RecordOK(p, j) /\ JobFits(p, a, j)
(* How a job ended.                                                        *)
Settled(p, j, how) ==
  LET value == IF how = "done" THEN j.value ELSE j.was.value
  IN /\ p.record.value = value
     /\ ~j.external => p.own.value = value /\ p.app.set.value = value
     /\ j.was.serving => Serving(p)
Outcome(p, j, how) ==
  /\ j.kind = "install" => how # "stuck"
  /\ j.kind = "install" /\ how \in {"failed", "refused"} => InstallOK(p, j)
  /\ j.kind = "settings" /\ how # "killed" => Settled(p, j, how)
FitOK ==
  /\ Fit(pc, at, job)
  /\ at # "idle" => last = Nothing
  /\ Outcome(pc, last.job, last.end)

(* The step that follows each step.                                        *)
LEMMA StepsDistinct ==
  \A i \in 1..12, j \in 1..12 : InstallSteps[i] = InstallSteps[j] => i = j
BY InstallPath

LEMMA InstallFollowing ==
  ASSUME job.kind = "install", NEW n \in 1..11, at = InstallSteps[n]
  PROVE  \/ Following = InstallSteps[n + 1]
         \/ Following = "schema" /\ job.existing = "none" /\ n \in 3..7
<1> DEFINE i == CHOOSE i \in DOMAIN InstallSteps : InstallSteps[i] = at
<1>1. i \in 1..12 /\ InstallSteps[i] = at
  BY InstallPath
<1>2. i = n
  BY <1>1, StepsDistinct
<1>3. Following = StepAfter(i)
  BY DEF Following, Paths
<1> HIDE DEF i
<1>4. job.kind \in Kinds /\ Paths[job.kind] = InstallSteps /\ Len(InstallSteps) = 12
  <2>1. Len(InstallSteps) = 12
    BY DEF InstallSteps, KeptSteps
  <2> QED BY <2>1, KindsAre DEF Paths
<1>5. PICK k \in 1..12 : /\ k > n /\ Following = InstallSteps[k] /\ Applies(InstallSteps[k])
                         /\ \A j \in 1..12 : j > n /\ j < k => ~Applies(InstallSteps[j])
  BY <1>2, <1>3, <1>4, StepAfterIs, InstallPath
<1>6. \A s : s \notin {"pgup", "role", "kept", "create"} => Applies(s)
  BY DEF Applies, ToSet, KeptSteps
<1>7. job.existing # "none" => \A s : Applies(s)
  BY DEF Applies
<1>8. CASE Applies(InstallSteps[n + 1])
  BY <1>5, <1>8
<1>9. CASE ~Applies(InstallSteps[n + 1])
  <2>1. job.existing = "none" /\ InstallSteps[n + 1] \in {"pgup", "role", "kept", "create"}
    BY <1>6, <1>7, <1>9
  <2>2. n \in 3..6
    BY <2>1, InstallPath
  <2>3. \A s \in {"pgup", "role", "kept", "create"} : ~Applies(s)
    BY <2>1 DEF Applies, ToSet, KeptSteps
  <2>4. Applies(InstallSteps[8]) /\ k \notin {4, 5, 6, 7}
    BY <1>5, <1>6, <2>3, InstallPath
  <2>5. k = 8
    BY <2>2, <2>4, <1>5
  <2> QED BY <1>5, <2>1, <2>2, <2>5, InstallPath
<1> QED BY <1>8, <1>9

LEMMA InstallNext ==
  ASSUME job.kind = "install", at \in ToSet(InstallSteps), at # "record"
  PROVE  /\ at = "docker" => Following = "write"
         /\ at = "write" => Following = "pull"
         /\ at = "pull" => Following = "pgup" \/ (Following = "schema" /\ job.existing = "none")
         /\ at = "pgup" => Following = "role" \/ (Following = "schema" /\ job.existing = "none")
         /\ at = "role" => Following = "kept" \/ (Following = "schema" /\ job.existing = "none")
         /\ at = "kept" => Following = "create" \/ (Following = "schema" /\ job.existing = "none")
         /\ at = "create" => Following = "schema"
         /\ at = "schema" => Following = "up"
         /\ at = "up" => Following = "serve"
         /\ at = "serve" => Following = "admin"
         /\ at = "admin" => Following = "record"
<1>1. PICK n \in 1..12 : at = InstallSteps[n]
  BY InstallPath, Zenon DEF ToSet
<1>2. n # 12
  BY <1>1, InstallPath
<1>3. n \in 1..11
  BY <1>2
<1>4. Following = InstallSteps[n + 1] \/ (Following = "schema" /\ job.existing = "none" /\ n \in 3..7)
  BY <1>1, <1>3, InstallFollowing
<1> QED BY <1>1, <1>3, <1>4, InstallPath

LEMMA PathFollowing ==
  ASSUME job.kind \in Kinds \ {"install"}, NEW n \in Nat, n + 1 \in DOMAIN Paths[job.kind], n \in DOMAIN Paths[job.kind],
         at = Paths[job.kind][n], \A i \in DOMAIN Paths[job.kind] : Paths[job.kind][i] = at => i = n,
         \A i \in DOMAIN Paths[job.kind] : Paths[job.kind][i] \notin {"pgup", "role", "kept", "create"}
  PROVE  Following = Paths[job.kind][n + 1]
<1> DEFINE path == Paths[job.kind]
           i == CHOOSE i \in DOMAIN path : path[i] = at
<1>1. i = n
  BY Zenon
<1>2. Following = StepAfter(i)
  BY DEF Following
<1> HIDE DEF i
<1>3. Len(path) \in Nat /\ DOMAIN path = 1..Len(path)
  BY Ending
<1>4. PICK k \in DOMAIN path : /\ k > n /\ Following = path[k]
                               /\ \A j \in DOMAIN path : j > n /\ j < k => ~Applies(path[j])
  BY <1>1, <1>2, <1>3, StepAfterIs
<1>5. Applies(path[n + 1])
  BY DEF Applies, ToSet, KeptSteps
<1>6. ~(n + 1 < k)
  BY <1>4, <1>5
<1> QED BY <1>3, <1>4, <1>6

LEMMA ManageNext ==
  ASSUME job.kind \in Kinds \ {"install"}, at \in ToSet(Paths[job.kind]), at # Last(Paths[job.kind])
  PROVE  /\ at = "down" => job.kind = "takeover" /\ Following = "write"
         /\ at = "write" => job.kind \in {"settings", "takeover", "repair"} /\ Following = "up"
         /\ at = "up" => job.kind \in {"settings", "takeover"} /\ Following = "serve"
         /\ at = "serve" => job.kind \in {"settings", "takeover"} /\ Following = "record"
         /\ at = "remove" => job.kind \in {"uninstall", "delete"} /\ Following = "unrecord"
         /\ at \notin {"start", "unrecord", "back"}
<1>1. CASE job.kind = "settings"
  <2> DEFINE path == Paths["settings"]
  <2>1. /\ DOMAIN path = 1..5 /\ Last(path) = "back" /\ path[1] = "write" /\ path[2] = "up" /\ path[3] = "serve"
        /\ path[4] = "record" /\ path[5] = "back"
    BY DEF Paths, SettingsSteps, Last
  <2>2. PICK n \in 1..5 : at = path[n]
    BY <1>1, <2>1, Zenon DEF ToSet
  <2> HIDE DEF path
  <2>3. n \in 1..4 /\ \A i \in 1..5 : path[i] = at => i = n
    BY <1>1, <2>1, <2>2 DEF path
  <2>4. Following = path[n + 1]
    <3>1. \A i \in 1..5 : path[i] \notin {"pgup", "role", "kept", "create"}
      BY <2>1
    <3> QED BY <1>1, <2>1, <2>2, <2>3, <3>1, PathFollowing DEF path
  <2> QED BY <1>1, <2>1, <2>2, <2>3, <2>4
<1>2. CASE job.kind = "takeover"
  <2> DEFINE path == Paths["takeover"]
  <2>1. /\ DOMAIN path = 1..6 /\ Last(path) = "back" /\ path[1] = "down" /\ path[2] = "write" /\ path[3] = "up"
        /\ path[4] = "serve" /\ path[5] = "record" /\ path[6] = "back"
    BY DEF Paths, TakeOverSteps, Last
  <2>2. PICK n \in 1..6 : at = path[n]
    BY <1>2, <2>1, Zenon DEF ToSet
  <2> HIDE DEF path
  <2>3. n \in 1..5 /\ \A i \in 1..6 : path[i] = at => i = n
    BY <1>2, <2>1, <2>2 DEF path
  <2>4. Following = path[n + 1]
    <3>1. \A i \in 1..6 : path[i] \notin {"pgup", "role", "kept", "create"}
      BY <2>1
    <3> QED BY <1>2, <2>1, <2>2, <2>3, <3>1, PathFollowing DEF path
  <2> QED BY <1>2, <2>1, <2>2, <2>3, <2>4
<1>3. CASE job.kind = "repair"
  <2> DEFINE path == Paths["repair"]
  <2>1. DOMAIN path = 1..2 /\ Last(path) = "up" /\ path[1] = "write" /\ path[2] = "up"
    BY DEF Paths, Last
  <2>2. at = path[1]
    BY <1>3, <2>1 DEF ToSet, path
  <2> HIDE DEF path
  <2>3. Following = path[2]
    BY <1>3, <2>1, <2>2, PathFollowing DEF path
  <2> QED BY <1>3, <2>1, <2>2, <2>3
<1>4. CASE job.kind = "start"
  <2>1. DOMAIN Paths["start"] = 1..1 /\ Last(Paths["start"]) = "start" /\ Paths["start"][1] = "start"
    BY DEF Paths, Last
  <2> QED BY <1>4, <2>1 DEF ToSet
<1>5. CASE job.kind \in {"uninstall", "delete"}
  <2> DEFINE path == Paths[job.kind]
  <2>1. DOMAIN path = 1..2 /\ Last(path) = "unrecord" /\ path[1] = "remove" /\ path[2] = "unrecord"
    <3>1. \A k \in {"uninstall", "delete"} : Paths[k] = <<"remove", "unrecord">>
      BY DEF Paths
    <3>2. path = <<"remove", "unrecord">>
      BY <1>5, <3>1
    <3> HIDE DEF path
    <3> QED BY <3>2 DEF Last
  <2>2. at = path[1]
    BY <2>1 DEF ToSet
  <2> HIDE DEF path
  <2>3. Following = path[2]
    BY <1>5, <2>1, <2>2, PathFollowing DEF path
  <2> QED BY <1>5, <2>1, <2>2, <2>3
<1> QED BY <1>1, <1>2, <1>3, <1>4, <1>5, KindsAre

(* Which steps are the last of which jobs.                                 *)
LEMMA Lasts ==
  /\ Last(Paths["install"]) = "record" /\ Last(Paths["settings"]) = "back" /\ Last(Paths["takeover"]) = "back"
  /\ Last(Paths["repair"]) = "up" /\ Last(Paths["start"]) = "start"
  /\ Last(Paths["uninstall"]) = "unrecord" /\ Last(Paths["delete"]) = "unrecord"
BY Ending, InstallPath DEF Paths, SettingsSteps, TakeOverSteps, Last, KeptSteps, InstallSteps

(* How a step leads on.                                                    *)
LEMMA FitPrimed ==
  ASSUME NEW p, NEW a, NEW j, pc' = p, at' = a, job' = j, Fit(p, a, j)
  PROVE  Fit(pc, at, job)'
<1>1. FilesOK(pc)'
  BY Zenon DEF Fit, FilesOK
<1>2. VolumeOK(pc, at, job)'
  BY Zenon DEF Fit, VolumeOK
<1>3. RecordOK(pc, job)'
  BY Zenon DEF Fit, RecordOK, Works, Free, Has, Theirs
<1>4. JobFits(pc, at, job)'
  <2>1. Manages(p, j) => Manages(pc, job)'
    BY Zenon DEF Manages
  <2>2. Installs(p, a, j) => Installs(pc, at, job)'
    BY Zenon DEF Installs, InstallOK, Synced
  <2>3. Repairs(p, a, j) => Repairs(pc, at, job)'
    BY Zenon DEF Repairs
  <2>4. Serving(p) => Serving(pc)'
    BY Zenon DEF Serving
  <2>5. Secrets(pc, FALSE)' = Secrets(p, FALSE)
    BY Zenon DEF Secrets, ContainerSecrets
  <2>6. Sets(p, a, j) => Sets(pc, at, job)'
    BY <2>4, <2>5, Zenon DEF Sets
  <2>7. TakesOver(p, a, j) => TakesOver(pc, at, job)'
    BY <2>4, Zenon DEF TakesOver, Theirs, Free
  <2> QED BY <2>1, <2>2, <2>3, <2>6, <2>7, Zenon DEF Fit, JobFits
<1> QED BY <1>1, <1>2, <1>3, <1>4, Zenon DEF Fit

LEMMA OutcomePrimed ==
  ASSUME NEW p, NEW l, pc' = p, last' = l, Outcome(p, l.job, l.end)
  PROVE  Outcome(pc, last.job, last.end)'
<1>1. Serving(p) => Serving(pc)'
  BY Zenon DEF Serving
<1>2. Settled(p, l.job, l.end) => Settled(pc, last.job, last.end)'
  BY <1>1, Zenon DEF Settled
<1>3. InstallOK(p, l.job) => InstallOK(pc, last.job)'
  BY Zenon DEF InstallOK
<1> QED BY <1>2, <1>3, Zenon DEF Outcome

LEMMA FitBegins ==
  ASSUME NEW p, NEW a, NEW j, pc' = p, at' = a, job' = j, last' = Nothing, Fit(p, a, j)
  PROVE  FitOK'
<1>1. Outcome(p, Nothing.job, Nothing.end)
  BY DEF Outcome, Nothing, NoJob
<1> QED BY <1>1, FitPrimed, OutcomePrimed, Zenon DEF FitOK

LEMMA FitGoesOn ==
  ASSUME FitOK, at # "idle", UNCHANGED <<job, last>>, NEW p, pc' = p, NEW a, at' = a, Fit(p, a, job)
  PROVE  FitOK'
<1>1. last' = Nothing /\ job' = job
  BY Zenon DEF FitOK
<1> QED BY <1>1, FitBegins

LEMMA FitEnds ==
  ASSUME NEW p, pc' = p, NEW how, End(how), Fit(p, "idle", NoJob), Outcome(p, job, how)
  PROVE  FitOK'
<1>1. at' = "idle" /\ job' = NoJob /\ last' = [end |-> how, job |-> job]
  BY DEF End
<1>2. Outcome(p, [end |-> how, job |-> job].job, [end |-> how, job |-> job].end)
  OBVIOUS
<1> QED BY <1>1, <1>2, FitPrimed, OutcomePrimed, Zenon DEF FitOK

LEMMA FitDoes ==
  ASSUME FitOK, at # "idle", NEW p, Does(p),
         Ends => Fit(p, "idle", NoJob) /\ Outcome(p, job, "done"),
         ~Ends => Fit(p, Following, job)
  PROVE  FitOK'
<1>1. CASE Ends
  BY <1>1, FitEnds DEF Does
<1>2. CASE ~Ends
  <2>1. pc' = p /\ at' = Following /\ UNCHANGED <<job, last>>
    BY <1>2 DEF Does
  <2> QED BY <1>2, <2>1, FitGoesOn
<1> QED BY <1>1, <1>2

LEMMA FitFails ==
  ASSUME FitOK, at # "idle", NEW p, NEW how, Fails(how, p),
         PutsBack => Fit(p, "back", job),
         ~PutsBack => Fit(p, "idle", NoJob) /\ Outcome(p, job, how)
  PROVE  FitOK'
<1>1. CASE ~PutsBack
  BY <1>1, FitEnds DEF Fails
<1>2. CASE PutsBack
  <2>1. pc' = p /\ at' = "back" /\ UNCHANGED <<job, last>>
    BY <1>2 DEF Fails
  <2> QED BY <1>2, <2>1, FitGoesOn
<1> QED BY <1>1, <1>2

LEMMA FitHappens ==
  ASSUME FitOK, at = "idle", job = NoJob, NEW p, pc' = p, Fit(p, at, job), UNCHANGED <<at, job>>, last' = Nothing
  PROVE  FitOK'
BY FitBegins

(* What the computer becomes.                                              *)
LEMMA ContainerIs ==
  ASSUME NEW from \in {"own", "other"}, NEW set \in AllSettings
  PROVE  /\ Container(from, set) \in Containers /\ Container(from, set) # None
         /\ Container(from, set).from = from /\ Container(from, set).set = set /\ Container(from, set).up = TRUE
<1>1. Container(from, set) \in Containers
  BY DEF Container, Containers
<1>2. Container(from, set).from = from /\ Container(from, set).set = set /\ Container(from, set).up = TRUE
  BY DEF Container
<1>3. \A c \in Containers : c # None
  BY NoneAssumption
<1> QED BY <1>1, <1>2, <1>3

LEMMA PgUpIs ==
  ASSUME NEW p \in Computer, NEW from \in {"own", "other"}, NEW set \in AllSettings, setups \in Name
  PROVE  LET q == PgUp(p, from, set)
         IN /\ q.pg # None /\ q.pg.from = from /\ q.pg.set = set /\ q.pg.up
            /\ q.app = p.app /\ q.own = p.own /\ q.other = p.other /\ q.record = p.record
            /\ q.vol # None /\ (p.vol # None => q.vol = p.vol)
            /\ p.vol = None => q.vol.role = set.first /\ q.vol.dbs[0] # None
<1> DEFINE pg == Container(from, set)
           vol == IF p.vol = None THEN Volume(set.first, Created(setups)) ELSE p.vol
           q == [p EXCEPT !.pg = pg, !.vol = vol]
<1>1. pg # None /\ pg.from = from /\ pg.set = set /\ pg.up
  BY ContainerIs
<1>2. set.first \in Nat
  BY DEF AllSettings
<1>3. vol # None /\ (p.vol # None => vol = p.vol)
  BY <1>2, VolumeIs, CreatedIs
<1>4. ASSUME p.vol = None
      PROVE  vol.role = set.first /\ vol.dbs[0] # None
  <2>1. vol = Volume(set.first, Created(setups))
    BY <1>4
  <2>2. Volume(set.first, Created(setups)).role = set.first
    BY DEF Volume
  <2> QED BY <1>2, <2>1, <2>2, VolumeIs, CreatedIs
<1>5. PgUp(p, from, set) = q
  BY DEF PgUp, Computer
<1> HIDE DEF pg, vol
<1>6. /\ q.pg = pg /\ q.vol = vol /\ q.app = p.app /\ q.own = p.own /\ q.other = p.other /\ q.record = p.record
  BY DEF Computer
<1> HIDE DEF q
<1> QED BY <1>1, <1>3, <1>4, <1>5, <1>6

LEMMA UpIs ==
  ASSUME NEW p \in Computer, NEW from \in {"own", "other"}, File(p, from) # None, setups \in Name
  PROVE  LET q == Up(p, from)
         IN /\ q.pg # None /\ q.pg.from = from /\ q.pg.set = File(p, from) /\ q.pg.up
            /\ q.app # None /\ q.app.from = from /\ q.app.set = File(p, from) /\ q.app.up
            /\ q.own = p.own /\ q.other = p.other /\ q.record = p.record
            /\ q.vol # None /\ (p.vol # None => q.vol = p.vol)
            /\ p.vol = None => q.vol.role = File(p, from).first /\ q.vol.dbs[0] # None
<1> DEFINE set == File(p, from)
           r == PgUp(p, from, set)
           app == Container(from, set)
           q == [r EXCEPT !.app = app, !.images = TRUE]
<1>1. set \in AllSettings
  BY DEF File, Computer
<1>2. app # None /\ app.from = from /\ app.set = set /\ app.up
  BY <1>1, ContainerIs
<1>3. /\ r.pg # None /\ r.pg.from = from /\ r.pg.set = set /\ r.pg.up
      /\ r.own = p.own /\ r.other = p.other /\ r.record = p.record
      /\ r.vol # None /\ (p.vol # None => r.vol = p.vol)
      /\ p.vol = None => r.vol.role = set.first /\ r.vol.dbs[0] # None
  BY <1>1, PgUpIs
<1>4. r \in Computer
  BY <1>1, PgUpKeeps
<1>5. Up(p, from) = q
  BY DEF Up
<1> HIDE DEF r, app
<1>6. q.app = app /\ q.pg = r.pg /\ q.vol = r.vol /\ q.own = r.own /\ q.other = r.other /\ q.record = r.record
  BY <1>4 DEF Computer
<1> HIDE DEF q
<1> QED BY <1>2, <1>3, <1>5, <1>6

LEMMA DownIs ==
  ASSUME NEW p \in Computer
  PROVE  LET q == Down(p)
         IN /\ q.app = None /\ q.pg = None
            /\ q.vol = p.vol /\ q.own = p.own /\ q.other = p.other /\ q.record = p.record
BY DEF Down, Computer

(* The manager's file started over the volume its password opens.          *)
LEMMA UpWorks ==
  ASSUME NEW p \in Computer, Works(p), FilesOK(p), p.own # None, setups \in Name
  PROVE  LET q == Up(p, "own")
         IN Works(q) /\ Has(q, p.own.value) /\ FilesOK(q) /\ q.vol = p.vol
<1> DEFINE q == Up(p, "own")
<1>1. File(p, "own") = p.own
  BY DEF File
<1>2. /\ q.pg # None /\ q.pg.from = "own" /\ q.pg.set = p.own
      /\ q.app # None /\ q.app.from = "own" /\ q.app.set = p.own
      /\ q.own = p.own
  BY <1>1, UpIs
<1>3. p.vol # None /\ q.vol = p.vol
  BY <1>1, UpIs DEF Works
<1> HIDE DEF q
<1>4. Works(q) /\ Has(q, p.own.value) /\ FilesOK(q)
  BY <1>2, <1>3 DEF Works, Has, FilesOK, Free
<1> QED BY <1>3, <1>4 DEF q

LEMMA PgUpWorks ==
  ASSUME NEW p \in Computer, Works(p), FilesOK(p), p.own # None, setups \in Name
  PROVE  LET q == PgUp(p, "own", p.own)
         IN Works(q) /\ FilesOK(q) /\ q.vol = p.vol /\ (\A v : Has(p, v) => Has(q, v))
<1> DEFINE q == PgUp(p, "own", p.own)
<1>1. p.own \in AllSettings
  BY DEF Computer
<1>2. q.pg # None /\ q.pg.from = "own" /\ q.pg.set = p.own /\ q.app = p.app /\ q.own = p.own
  BY <1>1, PgUpIs
<1>3. p.vol # None /\ q.vol = p.vol
  BY <1>1, PgUpIs DEF Works
<1> HIDE DEF q
<1>4. Works(q) /\ FilesOK(q) /\ (\A v : Has(p, v) => Has(q, v))
  BY <1>2, <1>3 DEF Works, Has, FilesOK, Free
<1> QED BY <1>3, <1>4 DEF q

(* The same files and containers fit as they did.                          *)
LEMMA SameFits ==
  ASSUME NEW p, NEW q, q.vol = p.vol, q.pg = p.pg, q.app = p.app, q.own = p.own, q.other = p.other,
         q.record = p.record, NEW a, NEW j, Fit(p, a, j)
  PROVE  Fit(q, a, j)
<1>1. FilesOK(q) /\ VolumeOK(q, a, j) /\ RecordOK(q, j)
  BY Zenon DEF Fit, FilesOK, VolumeOK, RecordOK, Works, Free, Has, Theirs
<1>2. Serving(p) => Serving(q)
  BY Zenon DEF Serving
<1>3. Secrets(q, FALSE) = Secrets(p, FALSE)
  BY Zenon DEF Secrets, ContainerSecrets
<1>4. Sets(p, a, j) => Sets(q, a, j)
  BY <1>2, <1>3, Zenon DEF Sets
<1>5. TakesOver(p, a, j) => TakesOver(q, a, j)
  BY <1>2, Zenon DEF TakesOver, Theirs, Free
<1>6. Installs(p, a, j) => Installs(q, a, j)
  BY Zenon DEF Installs, InstallOK
<1>7. (Manages(p, j) => Manages(q, j)) /\ (Repairs(p, a, j) => Repairs(q, a, j))
  BY Zenon DEF Manages, Repairs
<1> QED BY <1>1, <1>4, <1>5, <1>6, <1>7, Zenon DEF Fit, JobFits

----------------------------------------------------------------------------
(* Which steps which jobs have.                                            *)
LEMMA StepsOf ==
  ASSUME NEW k \in Kinds, NEW s \in ToSet(Paths[k])
  PROVE  /\ k = "install" => s \in {"docker", "write", "pull", "pgup", "role", "kept", "create", "schema", "up",
                                    "serve", "admin", "record"}
         /\ k = "settings" => s \in {"write", "up", "serve", "record", "back"}
         /\ k = "takeover" => s \in {"down", "write", "up", "serve", "record", "back"}
         /\ k = "repair" => s \in {"write", "up"}
         /\ k = "start" => s = "start"
         /\ k \in {"uninstall", "delete"} => s \in {"remove", "unrecord"}
<1>1. CASE k = "install"
  BY <1>1, InstallPath DEF Paths, ToSet
<1>2. CASE k = "settings"
  BY <1>2 DEF Paths, SettingsSteps, ToSet
<1>3. CASE k = "takeover"
  BY <1>3 DEF Paths, TakeOverSteps, ToSet
<1>4. CASE k = "repair"
  BY <1>4 DEF Paths, ToSet
<1>5. CASE k = "start"
  BY <1>5 DEF Paths, ToSet
<1>6. CASE k \in {"uninstall", "delete"}
  BY <1>6 DEF Paths, ToSet
<1> QED BY <1>1, <1>2, <1>3, <1>4, <1>5, <1>6, KindsAre

LEMMA Heads ==
  /\ Head(Paths["install"]) = "docker" /\ Head(Paths["settings"]) = "write" /\ Head(Paths["takeover"]) = "down"
  /\ Head(Paths["repair"]) = "write"
BY DEF Paths, InstallSteps, KeptSteps, SettingsSteps, TakeOverSteps

(* Nothing running.                                                        *)
LEMMA FitIdle ==
  ASSUME NEW p, FilesOK(p), p.vol # None => p.vol.dbs[0] # None, RecordOK(p, NoJob)
  PROVE  Fit(p, "idle", NoJob)
<1>1. NoJob.kind = "none"
  BY DEF NoJob
<1>2. VolumeOK(p, "idle", NoJob) /\ JobFits(p, "idle", NoJob)
  BY <1>1 DEF VolumeOK, JobFits
<1> QED BY <1>2 DEF Fit

LEMMA IdleIs ==
  ASSUME NEW p, Fit(p, "idle", NoJob)
  PROVE  /\ FilesOK(p) /\ (p.vol # None => p.vol.dbs[0] # None)
         /\ p.record # None /\ ~p.record.external => Works(p) /\ Has(p, p.record.value)
         /\ p.record # None /\ p.record.external => Theirs(p)
         /\ p.record = None /\ p.app # None /\ p.app.from = "own" => Works(p) /\ Has(p, p.app.set.value)
BY DEF Fit, VolumeOK, RecordOK, NoJob

(* The records of jobs.                                                    *)
LEMMA RecordFits ==
  ASSUME NEW p, RecordOK(p, NoJob), NEW j
  PROVE  RecordOK(p, j)
BY DEF RecordOK, NoJob

LEMMA InstallIdle ==
  ASSUME NEW p, NEW a, NEW j, Fit(p, a, j), j.kind \notin {"settings", "takeover"}, ~(j.kind = "install" /\ a = "create")
  PROVE  Fit(p, "idle", NoJob)
<1>1. FilesOK(p) /\ (p.vol # None => p.vol.dbs[0] # None) /\ RecordOK(p, NoJob)
  BY DEF Fit, VolumeOK, RecordOK
<1> QED BY <1>1, FitIdle

LEMMA FitInstall ==
  ASSUME NEW p, NEW a, NEW j, j.kind = "install", FilesOK(p), RecordOK(p, j), Installs(p, a, j),
         p.vol # None => p.vol.dbs[0] # None \/ a = "create"
  PROVE  Fit(p, a, j)
BY DEF Fit, VolumeOK, JobFits

LEMMA FitManage ==
  ASSUME NEW p, NEW a, NEW j, j.kind # "install", FilesOK(p), RecordOK(p, j), Manages(p, j),
         p.vol # None => p.vol.dbs[0] # None,
         j.kind = "repair" => Repairs(p, a, j), j.kind = "settings" => Sets(p, a, j),
         j.kind = "takeover" => TakesOver(p, a, j)
  PROVE  Fit(p, a, j)
BY DEF Fit, VolumeOK, JobFits

(* The beginnings.                                                         *)
LEMMA InitFit == Init => FitOK
<1> SUFFICES ASSUME Init PROVE FitOK
  OBVIOUS
<1>1. PICK c \in Plans, d \in Plans : \E shape \in Makes(c.flavor) : pc \in {Fresh, Left(c, shape), Stack(c, d.pw, shape)}
  BY DEF Init
<1>2. PICK shape \in Makes(c.flavor) : pc \in {Fresh, Left(c, shape), Stack(c, d.pw, shape)}
  BY <1>1
<1>3. at = "idle" /\ job = NoJob /\ last = Nothing
  BY DEF Init
<1>4. 0 \in Name /\ c.pw \in Nat \ {0} /\ c.flavor \in Flavors /\ d.pw \in Nat \ {0}
      /\ shape \in {"plain", "partitioned", "hypertable"}
  BY DockerSetupAssumption DEF Name, Makes, Flavors
<1> DEFINE set == Settings(c.pw, c.flavor, 0)
           theirs == [set EXCEPT !.first = d.pw]
           vol == Volume(c.pw, Finished(shape))
           hist == IF c.flavor = "clickhouse" THEN 0 ELSE None
           box == Container("other", theirs)
           l == [Fresh EXCEPT !.docker = TRUE, !.images = TRUE, !.own = set, !.vol = vol, !.hist = hist]
<1>5. vol.role = c.pw /\ vol.dbs[0] # None
  <2>1. Finished(shape) \in Databases(Name)
    BY <1>4 DEF Finished, Databases
  <2>2. Finished(shape) # None
    BY <2>1, NoneAssumption
  <2>3. vol.dbs[0] = Finished(shape)
    BY <1>4, <2>1, VolumeIs
  <2> QED BY <2>2, <2>3 DEF Volume
<1>6. set.pw = c.pw /\ set.first = c.pw /\ set.value = 0
  BY DEF Settings
<1>7. box.from = "other" /\ box # None
  <2>1. theirs \in AllSettings
    BY <1>4 DEF Settings, AllSettings
  <2> QED BY <2>1, ContainerIs
<1>8. Left(c, shape) = l /\ Stack(c, d.pw, shape) = [l EXCEPT !.own = None, !.other = theirs, !.pg = box, !.app = box]
  BY DEF Left, Stack
<1> HIDE DEF set, theirs, vol, hist, box
<1>9. l.vol = vol /\ l.pg = None /\ l.app = None /\ l.own = set /\ l.record = None
  BY DEF Fresh
<1>10. CASE pc = Fresh
  <2>1. FilesOK(pc) /\ pc.vol = None /\ RecordOK(pc, NoJob)
    BY <1>10 DEF Fresh, FilesOK, RecordOK
  <2> QED BY <2>1, FitIdle, <1>3 DEF FitOK, Outcome, Nothing, NoJob
<1>11. CASE pc = Left(c, shape)
  <2> HIDE DEF l
  <2>1. FilesOK(pc) /\ RecordOK(pc, NoJob) /\ pc.vol.dbs[0] # None
    BY <1>4, <1>5, <1>6, <1>8, <1>9, <1>11 DEF FilesOK, RecordOK
  <2> QED BY <2>1, FitIdle, <1>3 DEF FitOK, Outcome, Nothing, NoJob
<1>12. CASE pc = Stack(c, d.pw, shape)
  <2>1. pc.vol = vol /\ pc.pg = box /\ pc.app = box /\ pc.own = None /\ pc.record = None
    BY <1>8, <1>12 DEF Fresh
  <2>2. FilesOK(pc) /\ RecordOK(pc, NoJob) /\ pc.vol.dbs[0] # None
    BY <1>5, <1>7, <2>1 DEF FilesOK, RecordOK
  <2> QED BY <2>2, FitIdle, <1>3 DEF FitOK, Outcome, Nothing, NoJob
<1> QED BY <1>2, <1>10, <1>11, <1>12

----------------------------------------------------------------------------
(* The beginnings of jobs.                                                 *)
LEMMA IdleJob ==
  ASSUME Inv, FitOK, at = "idle"
  PROVE  job = NoJob /\ Fit(pc, "idle", NoJob) /\ pc \in Computer
BY DEF Inv, JobOK, FitOK

LEMMA InstallBegins ==
  ASSUME Fit(pc, "idle", NoJob), NEW j, j.kind = "install", InstallOK(pc, j), StartInstall(j)
  PROVE  FitOK'
<1>1. FilesOK(pc) /\ RecordOK(pc, j) /\ (pc.vol # None => pc.vol.dbs[0] # None)
  BY IdleIs, RecordFits DEF Fit
<1>2. Installs(pc, "docker", j)
  BY DEF Installs, Synced
<1>3. Fit(pc, "docker", j)
  BY <1>1, <1>2, FitInstall
<1>4. pc' = pc /\ at' = "docker" /\ job' = j /\ last' = Nothing
  BY Heads DEF StartInstall, Begin
<1> QED BY <1>3, <1>4, FitBegins

LEMMA InstallFit ==
  ASSUME Inv, FitOK, NEW c \in Plans, Install(c)
  PROVE  FitOK'
<1>1. Fit(pc, "idle", NoJob)
  BY IdleJob DEF Install
<1>2. PlanOf(c).kind = "install" /\ InstallOK(pc, PlanOf(c)) /\ StartInstall(PlanOf(c))
  BY DockerSetupAssumption DEF Install, PlanOf, InstallOK
<1> QED BY <1>1, <1>2, InstallBegins

(* Trying again: what the try before left does.                            *)
LEMMA RetryFit ==
  ASSUME Inv, FitOK, Retry
  PROVE  FitOK'
<1> DEFINE db == Database
           j == [last.job EXCEPT !.before = db]
<1>1. at = "idle" /\ last.job.kind = "install" /\ last.end \in {"failed", "refused", "stuck"} /\ StartInstall(j)
  BY DEF Retry
<1>2. InstallOK(pc, last.job)
  BY <1>1 DEF FitOK, Outcome
<1>3. last.job \in Installing
  BY <1>1 DEF Inv, JobOK, NoJob, Job, Managing
<1> HIDE DEF db
<1>4. j.kind = "install" /\ j.value = last.job.value /\ j.pw = last.job.pw /\ j.external = last.job.external
      /\ j.existing = last.job.existing
  BY <1>3 DEF Installing
<1> HIDE DEF j
<1>5. InstallOK(pc, j)
  BY <1>2, <1>4 DEF InstallOK
<1>6. Fit(pc, "idle", NoJob)
  BY <1>1, IdleJob
<1> QED BY <1>1, <1>4, <1>5, <1>6, InstallBegins

LEMMA SecretsOfWorks ==
  ASSUME NEW p, Works(p), Secrets(p, FALSE) # 0
  PROVE  p.vol # None /\ Secrets(p, FALSE) = p.vol.role
BY DEF Works, Secrets, ContainerSecrets

(* Jobs of the record.                                                     *)
LEMMA ManageBegins ==
  ASSUME Inv, FitOK, pc.record # None, NEW kind \in Kinds \ {"install"}, NEW value,
         StartJob(FromRecord(kind, value)),
         kind # "settings" => value = pc.record.value,
         kind \in {"repair", "settings", "takeover"} => Readable,
         kind = "takeover" => pc.record.external
  PROVE  FitOK'
<1> DEFINE j == FromRecord(kind, value)
           pw == Secrets(pc, pc.record.external)
           was == [value |-> pc.record.value, serving |-> Serving(pc)]
<1>1. /\ at = "idle" /\ pc' = pc /\ at' = Head(Paths[kind]) /\ job' = j /\ last' = Nothing
  <2>1. j.kind = kind
    BY DEF FromRecord
  <2> QED BY <2>1 DEF StartJob, Change, Begin
<1>2. pc \in Computer /\ Fit(pc, "idle", NoJob)
  BY <1>1, IdleJob
<1>3. pc.record.external \in BOOLEAN
  BY <1>2 DEF Computer, Records
<1>4. /\ j.kind = kind /\ j.value = value /\ j.external = pc.record.external /\ j.pw = pw /\ j.was = was
  BY DEF FromRecord
<1>5. was.value = pc.record.value /\ (was.serving => Serving(pc))
  OBVIOUS
<1> HIDE DEF j, was
<1>6. FilesOK(pc) /\ (pc.vol # None => pc.vol.dbs[0] # None) /\ RecordOK(pc, j)
  BY <1>2, IdleIs, RecordFits DEF Fit
<1>7. Manages(pc, j)
  BY <1>4 DEF Manages
<1>8. ASSUME ~pc.record.external
      PROVE  pw = Secrets(pc, FALSE) /\ Works(pc) /\ Has(pc, pc.record.value)
             /\ (pw # 0 => pc.vol # None /\ pw = pc.vol.role)
  <2>1. pw = Secrets(pc, FALSE) /\ Works(pc) /\ Has(pc, pc.record.value)
    BY <1>2, <1>3, <1>8, IdleIs
  <2> HIDE DEF pw
  <2> QED BY <2>1, SecretsOfWorks
<1> HIDE DEF pw
<1>9. kind \in {"repair", "settings", "takeover"} => pw # 0
  BY DEF pw, Readable
<1>10. kind = "repair" => Repairs(pc, "write", j)
  BY <1>4, <1>8, <1>9 DEF Repairs
<1>11. ASSUME kind = "settings"
       PROVE  Sets(pc, "write", j)
  <2>1. CASE pc.record.external
    BY <1>4, <1>5, <2>1 DEF Sets
  <2>2. CASE ~pc.record.external
    <3>1. Serving(pc) => pc.record.value \notin Unfit /\ pc.vol.dbs[0] # None /\ pc.vol.dbs[0].shape # "missing"
      BY <1>8, <2>2 DEF Serving, Has
    <3> QED BY <1>4, <1>5, <1>8, <1>9, <1>11, <2>2, <3>1 DEF Sets
  <2> QED BY <2>1, <2>2
<1>12. ASSUME kind = "takeover"
       PROVE  TakesOver(pc, "down", j)
  <2>1. Theirs(pc)
    BY <1>2, <1>12, IdleIs
  <2> QED BY <1>4, <1>9, <1>12, <2>1 DEF TakesOver
<1>13. Fit(pc, Head(Paths[kind]), j)
  BY <1>4, <1>6, <1>7, <1>10, <1>11, <1>12, Heads, FitManage
<1> QED BY <1>1, <1>13, FitBegins

LEMMA ManageFit ==
  ASSUME Inv, FitOK, Repair \/ TakeOver \/ (\E v \in Values : ApplySettings(v))
                \/ (\E kind \in {"uninstall", "delete"} : Uninstall(kind))
  PROVE  FitOK'
<1>1. pc.record # None
  BY DEF Repair, TakeOver, ApplySettings, Uninstall, Readable
<1>2. CASE Repair
  <2>1. \/ Readable /\ StartJob(FromRecord("repair", pc.record.value))
        \/ StartJob(FromRecord("start", pc.record.value))
    BY <1>2 DEF Repair
  <2> QED BY <2>1, <1>1, KindsAre, ManageBegins
<1>3. CASE TakeOver
  <2>1. Readable /\ pc.record.external /\ StartJob(FromRecord("takeover", pc.record.value))
    BY <1>3 DEF TakeOver
  <2> QED BY <2>1, <1>1, KindsAre, ManageBegins
<1>4. ASSUME NEW v \in Values, ApplySettings(v)
      PROVE  FitOK'
  <2>1. Readable /\ StartJob(FromRecord("settings", v))
    BY <1>4 DEF ApplySettings
  <2> QED BY <2>1, <1>1, KindsAre, ManageBegins
<1>5. ASSUME NEW kind \in {"uninstall", "delete"}, Uninstall(kind)
      PROVE  FitOK'
  <2>1. StartJob(FromRecord(kind, pc.record.value))
    BY <1>5 DEF Uninstall
  <2> QED BY <2>1, <1>1, KindsAre, ManageBegins
<1> QED BY <1>2, <1>3, <1>4, <1>5

(* What happens while no job runs.                                         *)
LEMMA IdleFits ==
  ASSUME Inv, FitOK, at = "idle", NEW p, pc' = p, Fit(p, "idle", NoJob), last' = Nothing, UNCHANGED <<at, job>>
  PROVE  FitOK'
BY IdleJob, FitHappens

LEMMA AdoptFit ==
  ASSUME Inv, FitOK, Adopt
  PROVE  FitOK'
<1> DEFINE record == Describe(pc.app)
           q == [pc EXCEPT !.record = record]
<1>1. /\ at = "idle" /\ pc' = q /\ last' = Nothing /\ UNCHANGED <<at, job>>
      /\ pc.record = None /\ pc.app # None
  BY DEF Adopt, Change, Candidate
<1>2. pc \in Computer /\ Fit(pc, "idle", NoJob)
  BY <1>1, IdleJob
<1>3. pc.app \in Containers
  BY <1>1, <1>2 DEF Computer
<1>4. record.value = pc.app.set.value /\ (record.external <=> pc.app.from # "own")
  BY DEF Describe, OwnStack
<1> HIDE DEF record
<1>5. q.vol = pc.vol /\ q.pg = pc.pg /\ q.app = pc.app /\ q.own = pc.own /\ q.record = record
  BY <1>2 DEF Computer
<1> HIDE DEF q
<1>6. FilesOK(q) /\ (q.vol # None => q.vol.dbs[0] # None)
  BY <1>2, <1>5, IdleIs DEF FilesOK
<1>7. ASSUME pc.app.from = "own"
      PROVE  Works(q) /\ Has(q, record.value)
  <2>1. Works(pc) /\ Has(pc, pc.app.set.value)
    BY <1>1, <1>2, <1>7, IdleIs
  <2> QED BY <2>1, <1>4, <1>5 DEF Works, Has, Free
<1>8. ASSUME pc.app.from # "own"
      PROVE  Theirs(q)
  BY <1>1, <1>3, <1>5, <1>8 DEF Theirs, Containers
<1>9. RecordOK(q, NoJob)
  <2>1. record # None
    <3>1. record \in Records
      BY <1>3 DEF record, Describe, OwnStack, Records, Containers, AllSettings
    <3> QED BY <3>1, NoneAssumption
  <2> QED BY <1>4, <1>5, <1>7, <1>8, <2>1 DEF RecordOK
<1> QED BY <1>1, <1>6, <1>9, FitIdle, IdleFits

(* Containers stopped, or brought up from the file of the record's project. *)
LEMMA StoppedIs ==
  ASSUME NEW p \in Computer, NEW from
  PROVE  LET q == Stopped(p, from)
         IN /\ q.vol = p.vol /\ q.own = p.own /\ q.other = p.other /\ q.record = p.record
            /\ (p.app = None => q.app = None)
            /\ (p.app # None => q.app # None /\ q.app.from = p.app.from /\ q.app.set = p.app.set)
            /\ (p.pg = None => q.pg = None)
            /\ (p.pg # None => q.pg # None /\ q.pg.from = p.pg.from /\ q.pg.set = p.pg.set)
<1> DEFINE stop(c) == IF c # None /\ c.from = from THEN [c EXCEPT !.up = FALSE] ELSE c
<1>1. ASSUME NEW c \in Containers
      PROVE  stop(c) # None /\ stop(c).from = c.from /\ stop(c).set = c.set
  <2>1. stop(c) \in Containers /\ stop(c).from = c.from /\ stop(c).set = c.set
    BY DEF Containers
  <2> QED BY <2>1, NoneAssumption
<1>2. stop(None) = None
  OBVIOUS
<1>3. Stopped(p, from) = [p EXCEPT !.app = stop(p.app), !.pg = stop(p.pg)]
  BY DEF Stopped, Computer
<1> HIDE DEF stop
<1>4. /\ p.app # None => p.app \in Containers
      /\ p.pg # None => p.pg \in Containers
  BY DEF Computer
<1>5. LET q == Stopped(p, from)
      IN /\ q.vol = p.vol /\ q.own = p.own /\ q.other = p.other /\ q.record = p.record
         /\ q.app = stop(p.app) /\ q.pg = stop(p.pg)
  BY <1>3 DEF Computer
<1> QED BY <1>1, <1>2, <1>4, <1>5

LEMMA StoppedFits ==
  ASSUME NEW p \in Computer, NEW from, Fit(p, "idle", NoJob)
  PROVE  Fit(Stopped(p, from), "idle", NoJob)
<1> DEFINE q == Stopped(p, from)
<1>1. /\ q.vol = p.vol /\ q.own = p.own /\ q.record = p.record
      /\ (p.app = None => q.app = None)
      /\ (p.app # None => q.app # None /\ q.app.from = p.app.from /\ q.app.set = p.app.set)
      /\ (p.pg = None => q.pg = None)
      /\ (p.pg # None => q.pg # None /\ q.pg.from = p.pg.from /\ q.pg.set = p.pg.set)
  BY StoppedIs
<1> HIDE DEF q
<1>2. FilesOK(q) /\ (q.vol # None => q.vol.dbs[0] # None)
  BY <1>1, IdleIs DEF FilesOK
<1>3. Works(p) => Works(q)
  BY <1>1 DEF Works, Free
<1>4. (\A v : Has(p, v) => Has(q, v)) /\ (Theirs(p) => Theirs(q))
  BY <1>1 DEF Has, Theirs
<1>5. RecordOK(q, NoJob)
  BY <1>1, <1>3, <1>4, IdleIs DEF RecordOK
<1> QED BY <1>2, <1>5, FitIdle DEF q

LEMMA UpFits ==
  ASSUME NEW p \in Computer, setups \in Name, Fit(p, "idle", NoJob), p.record # None,
         NEW from, from = From(p.record.external), CanUp(p, from)
  PROVE  Fit(Up(p, from), "idle", NoJob)
<1> DEFINE q == Up(p, from)
<1>1. from \in {"own", "other"} /\ File(p, from) # None
  BY DEF From, CanUp
<1>2. /\ q.pg # None /\ q.pg.from = from /\ q.app # None /\ q.app.from = from
      /\ q.own = p.own /\ q.record = p.record /\ (p.vol # None => q.vol = p.vol)
      /\ (p.vol = None => q.vol.dbs[0] # None)
  BY <1>1, UpIs
<1>3. FilesOK(p) /\ (p.vol # None => p.vol.dbs[0] # None)
  BY IdleIs
<1>4. q.vol # None => q.vol.dbs[0] # None
  BY <1>2, <1>3
<1>5. FilesOK(q)
  <2> HIDE DEF q
  <2> QED BY <1>1, <1>2, <1>3 DEF FilesOK
<1>6. CASE p.record.external
  <2>1. from = "other"
    BY <1>6 DEF From
  <2> HIDE DEF q
  <2>2. RecordOK(q, NoJob)
    BY <1>2, <1>6, <2>1 DEF RecordOK, Theirs
  <2> QED BY <1>4, <1>5, <2>2, FitIdle DEF q
<1>7. CASE ~p.record.external
  <2>1. from = "own" /\ p.own # None
    BY <1>1, <1>7 DEF From, File
  <2>2. Works(p) /\ Has(p, p.record.value)
    BY <1>7, IdleIs
  <2>3. Works(q) /\ Has(q, p.own.value)
    BY <2>1, <2>2, <1>3, UpWorks
  <2>4. p.own.value = p.record.value
    BY <2>1, <2>2 DEF Has
  <2> HIDE DEF q
  <2>5. RecordOK(q, NoJob)
    BY <1>2, <1>7, <2>3, <2>4 DEF RecordOK
  <2> QED BY <1>4, <1>5, <2>5, FitIdle DEF q
<1> QED BY <1>6, <1>7

LEMMA ControlFit ==
  ASSUME Inv, FitOK, NEW run \in BOOLEAN, Control(run)
  PROVE  FitOK'
<1> DEFINE from == From(pc.record.external)
           new == IF File(pc, from) = None THEN pc
                  ELSE IF ~run THEN Stopped(pc, from)
                  ELSE IF Free(pc, from) THEN Up(pc, from) ELSE pc
<1>1. at = "idle" /\ pc.record # None /\ pc' = new /\ last' = Nothing /\ UNCHANGED <<at, job>>
  BY DEF Control, Change
<1>2. pc \in Computer /\ Fit(pc, "idle", NoJob) /\ setups \in Name
  BY <1>1, IdleJob DEF Inv, JobOK, Name
<1>3. Fit(Stopped(pc, from), "idle", NoJob)
  BY <1>2, StoppedFits
<1>4. CanUp(pc, from) => Fit(Up(pc, from), "idle", NoJob)
  BY <1>1, <1>2, UpFits
<1>5. Fit(new, "idle", NoJob)
  BY <1>2, <1>3, <1>4, Zenon DEF CanUp
<1> HIDE DEF new
<1> QED BY <1>1, <1>5, IdleFits

(* The record lost or removed.                                             *)
LEMMA WithoutRecord ==
  ASSUME NEW p \in Computer, Fit(p, "idle", NoJob)
  PROVE  Fit([p EXCEPT !.record = None], "idle", NoJob)
<1> DEFINE q == [p EXCEPT !.record = None]
<1>1. q.vol = p.vol /\ q.pg = p.pg /\ q.app = p.app /\ q.own = p.own /\ q.record = None
  BY DEF Computer
<1> HIDE DEF q
<1>2. FilesOK(q) /\ (q.vol # None => q.vol.dbs[0] # None)
  BY <1>1, IdleIs DEF FilesOK
<1>3. ASSUME p.app # None, p.app.from = "own"
      PROVE  Works(q) /\ Has(q, p.app.set.value)
  <2>1. Works(p) /\ Has(p, p.app.set.value)
    BY <1>3, IdleIs DEF Theirs, Has
  <2> QED BY <2>1, <1>1 DEF Works, Has, Free
<1>4. RecordOK(q, NoJob)
  BY <1>1, <1>3 DEF RecordOK
<1> QED BY <1>2, <1>4, FitIdle DEF q

LEMMA LoseFit ==
  ASSUME Inv, FitOK, NEW what \in {"own", "other", "record"}, Lose(what)
  PROVE  FitOK'
<1>1. /\ at = "idle" /\ pc' = [pc EXCEPT ![what] = None] /\ last' = Nothing /\ UNCHANGED <<at, job>>
  BY DEF Lose, Change
<1>2. pc \in Computer /\ Fit(pc, "idle", NoJob)
  BY <1>1, IdleJob
<1>3. CASE what = "record"
  BY <1>1, <1>2, <1>3, WithoutRecord, IdleFits
<1>4. CASE what # "record"
  <2> DEFINE q == [pc EXCEPT ![what] = None]
  <2>1. q.vol = pc.vol /\ q.pg = pc.pg /\ q.app = pc.app /\ q.own \in {pc.own, None} /\ q.record = pc.record
    BY <1>2, <1>4 DEF Computer
  <2> HIDE DEF q
  <2>2. FilesOK(q) /\ (q.vol # None => q.vol.dbs[0] # None)
    BY <1>2, <2>1, IdleIs DEF FilesOK
  <2>3. (Works(pc) => Works(q)) /\ (\A v : Has(pc, v) => Has(q, v)) /\ (Theirs(pc) => Theirs(q))
    BY <2>1 DEF Works, Has, Free, Theirs
  <2>4. RecordOK(q, NoJob)
    BY <1>2, <2>1, <2>3, IdleIs DEF RecordOK
  <2>5. Fit(q, "idle", NoJob)
    BY <2>2, <2>4, FitIdle
  <2> QED BY <1>1, <2>5, IdleFits DEF q
<1> QED BY <1>3, <1>4

----------------------------------------------------------------------------
(* The steps of an installation.                                           *)
LEMMA InstallNow ==
  ASSUME Inv, FitOK, at # "idle", job.kind = "install"
  PROVE  /\ pc \in Computer /\ setups \in Name /\ 0 \in Name /\ job.flavor \in Flavors /\ job.pw \in Nat
         /\ FilesOK(pc) /\ RecordOK(pc, job) /\ Installs(pc, at, job) /\ InstallOK(pc, job)
         /\ (pc.vol # None => pc.vol.dbs[0] # None \/ at = "create") /\ (~Ends \/ at = "record")
         /\ at \in ToSet(InstallSteps) /\ Finds(pc, at) /\ ~PutsBack
<1>1. Fit(pc, at, job) /\ StepOK
  BY DEF FitOK, Inv
<1>2. ~Ends \/ at = "record"
  BY Lasts DEF Ends
<1>3. at \in ToSet(InstallSteps)
  BY StepFacts DEF Paths
<1> QED BY <1>1, <1>2, <1>3, StepFacts DEF Fit, VolumeOK, JobFits, Installs, StepOK, PutsBack

(* A step of an installation that leads to the next.                       *)
LEMMA InstallDoes ==
  ASSUME Inv, FitOK, at \notin {"idle", "record"}, job.kind = "install", NEW q, Does(q),
         FilesOK(q), RecordOK(q, job), Installs(q, Following, job),
         q.vol # None => q.vol.dbs[0] # None \/ Following = "create"
  PROVE  FitOK'
<1>1. Fit(q, Following, job)
  BY FitInstall
<1>2. ~Ends
  BY InstallNow
<1> QED BY <1>1, <1>2, FitDoes

(* Nothing of another project is in the way of an installation, and what   *)
(* its containers sign in with is its own password.                        *)
LEMMA InstallFree ==
  ASSUME NEW p, NEW j, FilesOK(p), InstallOK(p, j)
  PROVE  Free(p, "own")
BY DEF FilesOK, InstallOK, Free

LEMMA InstallWorks ==
  ASSUME NEW p, NEW j, InstallOK(p, j), RecordOK(p, j), p.app # None
  PROVE  Works(p) /\ Has(p, 0) /\ p.vol # None /\ p.vol.role = j.pw
BY DEF InstallOK, RecordOK, Works

LEMMA InstallRecord ==
  ASSUME NEW p, NEW j, InstallOK(p, j), p.app # None => Works(p) /\ Has(p, 0)
  PROVE  RecordOK(p, j)
BY DEF InstallOK, RecordOK

(* PostgreSQL started by an installation.                                  *)
LEMMA InstallPgUp ==
  ASSUME pc \in Computer, setups \in Name, InstallOK(pc, job), FilesOK(pc), RecordOK(pc, job),
         pc.own # None, pc.own.pw = job.pw, pc.own.value = 0
  PROVE  LET q == PgUp(pc, "own", pc.own)
         IN /\ InstallOK(q, job) /\ FilesOK(q) /\ RecordOK(q, job) /\ q.own = pc.own /\ q.app = pc.app
            /\ q.vol # None /\ (pc.vol # None => q.vol = pc.vol)
            /\ pc.vol = None => q.vol.role = job.pw /\ q.vol.dbs[0] # None
<1> DEFINE q == PgUp(pc, "own", pc.own)
<1>1. pc.own \in AllSettings /\ pc.own.first = job.pw
  BY DEF Computer, FilesOK
<1>2. /\ q.pg # None /\ q.pg.from = "own" /\ q.app = pc.app /\ q.own = pc.own /\ q.record = pc.record
      /\ q.vol # None /\ (pc.vol # None => q.vol = pc.vol)
      /\ pc.vol = None => q.vol.role = job.pw /\ q.vol.dbs[0] # None
  BY <1>1, PgUpIs
<1>3. ASSUME pc.app # None
      PROVE  Works(q) /\ Has(q, 0)
  <2>1. Works(pc) /\ Has(pc, 0)
    BY <1>3, InstallWorks
  <2> QED BY <2>1, PgUpWorks
<1> HIDE DEF q
<1>4. FilesOK(q)
  BY <1>2 DEF FilesOK, InstallOK
<1>5. InstallOK(q, job)
  BY <1>2 DEF InstallOK
<1>6. RecordOK(q, job)
  BY <1>2, <1>3, <1>5, InstallRecord
<1> QED BY <1>2, <1>4, <1>5, <1>6 DEF q

LEMMA SetUpDockerFit ==
  ASSUME Inv, FitOK, SetUpDocker
  PROVE  FitOK'
<1> DEFINE q == [pc EXCEPT !.docker = TRUE]
<1>1. at = "docker" /\ Does(q)
  BY DEF SetUpDocker
<1>2. job.kind = "install"
  BY <1>1, InstallStep
<1>3. Following = "write"
  BY <1>1, <1>2, InstallNow, InstallNext
<1>4. pc \in Computer /\ FilesOK(pc) /\ RecordOK(pc, job) /\ InstallOK(pc, job) /\ (pc.vol # None => pc.vol.dbs[0] # None)
  BY <1>1, <1>2, InstallNow
<1>5. /\ q.vol = pc.vol /\ q.pg = pc.pg /\ q.app = pc.app /\ q.own = pc.own /\ q.other = pc.other
      /\ q.record = pc.record
  BY <1>4 DEF Computer
<1> HIDE DEF q
<1>6. Fit(pc, "write", job)
  BY <1>2, <1>4, FitInstall DEF Installs, Synced
<1>7. Fit(q, "write", job)
  BY <1>5, <1>6, SameFits
<1>8. ~Ends
  BY <1>1, <1>2, InstallNow
<1> QED BY <1>1, <1>3, <1>7, <1>8, FitDoes

(* The compose file of an installation.                                    *)
LEMMA InstallWriteFit ==
  ASSUME Inv, FitOK, Write, job.kind = "install"
  PROVE  FitOK'
<1> DEFINE set == Settings(job.pw, job.flavor, job.value)
           q == [pc EXCEPT !.own = set]
<1>1. at = "write"
  BY DEF Write
<1>2. pc \in Computer /\ FilesOK(pc) /\ RecordOK(pc, job) /\ InstallOK(pc, job) /\ (pc.vol # None => pc.vol.dbs[0] # None)
      /\ job.pw \in Nat /\ job.flavor \in Flavors
  BY <1>1, InstallNow
<1>3. job.value = 0 /\ ~job.external /\ job.pw # 0
  BY <1>2 DEF InstallOK
<1>4. Does(q)
  BY <1>3 DEF Write
<1>5. Following = "pull"
  BY <1>1, InstallNow, InstallNext
<1>6. set # None /\ set.pw = job.pw /\ set.first = job.pw /\ set.value = 0
  <2>1. set # None
    BY <1>2, <1>3, SettingsAre
  <2> QED BY <2>1, <1>3 DEF Settings
<1> HIDE DEF set
<1>7. /\ q.vol = pc.vol /\ q.pg = pc.pg /\ q.app = pc.app /\ q.own = set /\ q.record = pc.record
  BY <1>2 DEF Computer
<1> HIDE DEF q
<1>8. FilesOK(q)
  BY <1>2, <1>3, <1>6, <1>7 DEF FilesOK
<1>9. InstallOK(q, job)
  BY <1>2, <1>7 DEF InstallOK
<1>10. RecordOK(q, job)
  <2>1. ASSUME pc.app # None
        PROVE  Works(q) /\ Has(q, 0)
    <3>1. Works(pc) /\ Has(pc, 0) /\ pc.vol.role = job.pw
      BY <1>2, <2>1, InstallWorks
    <3> QED BY <3>1, <2>1, <1>6, <1>7 DEF Works, Has, Free
  <2> QED BY <2>1, <1>7, <1>9, InstallRecord
<1>11. Installs(q, "pull", job)
  BY <1>6, <1>7, <1>9 DEF Installs, Synced
<1> QED BY <1>1, <1>2, <1>4, <1>5, <1>7, <1>8, <1>10, <1>11, InstallDoes

LEMMA PullFit ==
  ASSUME Inv, FitOK, Pull
  PROVE  FitOK'
<1> DEFINE q == [pc EXCEPT !.images = TRUE]
<1>1. at = "pull" /\ Does(q)
  BY DEF Pull
<1>2. job.kind = "install"
  BY <1>1, InstallStep
<1>3. Following = "pgup" \/ (Following = "schema" /\ job.existing = "none")
  BY <1>1, <1>2, InstallNow, InstallNext
<1>4. /\ pc \in Computer /\ FilesOK(pc) /\ RecordOK(pc, job) /\ InstallOK(pc, job)
      /\ (pc.vol # None => pc.vol.dbs[0] # None) /\ Installs(pc, "pull", job)
  BY <1>1, <1>2, InstallNow
<1>5. /\ q.vol = pc.vol /\ q.pg = pc.pg /\ q.app = pc.app /\ q.own = pc.own /\ q.other = pc.other
      /\ q.record = pc.record
  BY <1>4 DEF Computer
<1> HIDE DEF q
<1>6. Installs(pc, Following, job)
  BY <1>3, <1>4 DEF Installs, Synced, InstallOK
<1>7. Fit(pc, Following, job)
  BY <1>2, <1>4, <1>6, FitInstall
<1>8. Fit(q, Following, job)
  BY <1>5, <1>7, SameFits
<1>9. ~Ends
  BY <1>1, <1>2, InstallNow
<1> QED BY <1>1, <1>8, <1>9, FitDoes

LEMMA StartPostgresFit ==
  ASSUME Inv, FitOK, StartPostgres
  PROVE  FitOK'
<1> DEFINE q == PgUp(pc, "own", pc.own)
<1>1. at = "pgup"
  BY DEF StartPostgres
<1>2. job.kind = "install"
  BY <1>1, InstallStep
<1>3. Following = "role" \/ (Following = "schema" /\ job.existing = "none")
  BY <1>1, <1>2, InstallNow, InstallNext
<1>4. /\ pc \in Computer /\ setups \in Name /\ FilesOK(pc) /\ RecordOK(pc, job) /\ InstallOK(pc, job)
      /\ (pc.vol # None => pc.vol.dbs[0] # None) /\ pc.own # None /\ pc.own.pw = job.pw /\ pc.own.value = 0
  BY <1>1, <1>2, InstallNow DEF Installs
<1>5. Does(q)
  BY <1>4, InstallFree DEF StartPostgres
<1>6. /\ InstallOK(q, job) /\ FilesOK(q) /\ RecordOK(q, job) /\ q.own = pc.own
      /\ q.vol # None /\ (pc.vol # None => q.vol = pc.vol)
      /\ pc.vol = None => q.vol.dbs[0] # None
  BY <1>4, InstallPgUp
<1> HIDE DEF q
<1>7. Installs(q, Following, job)
  BY <1>3, <1>4, <1>6 DEF Installs, Synced, InstallOK
<1> QED BY <1>1, <1>2, <1>4, <1>5, <1>6, <1>7, InstallDoes

(* The role takes the installation's password.                             *)
LEMMA SyncRoleFit ==
  ASSUME Inv, FitOK, SyncRole
  PROVE  FitOK'
<1> DEFINE q == [pc EXCEPT !.vol.role = job.pw]
<1>1. at = "role" /\ Does(q)
  BY DEF SyncRole
<1>2. job.kind = "install"
  BY <1>1, InstallStep
<1>3. Following = "kept" \/ (Following = "schema" /\ job.existing = "none")
  BY <1>1, <1>2, InstallNow, InstallNext
<1>4. /\ pc \in Computer /\ FilesOK(pc) /\ RecordOK(pc, job) /\ InstallOK(pc, job) /\ job.pw \in Nat
      /\ pc.vol # None /\ pc.vol.dbs[0] # None /\ pc.own # None /\ pc.own.pw = job.pw /\ pc.own.value = 0
  BY <1>1, <1>2, InstallNow DEF Installs, Finds
<1>5. pc.vol \in Volumes
  BY <1>4 DEF Computer
<1>6. q.vol = [pc.vol EXCEPT !.role = job.pw]
  BY <1>4 DEF Computer
<1>7. q.vol \in Volumes /\ q.vol.role = job.pw /\ q.vol.dbs = pc.vol.dbs
  BY <1>4, <1>5, <1>6 DEF Volumes
<1>8. q.pg = pc.pg /\ q.app = pc.app /\ q.own = pc.own /\ q.record = pc.record
  BY <1>4 DEF Computer
<1> HIDE DEF q
<1>9. q.vol # None
  BY <1>7, NoneAssumption
<1>10. FilesOK(q) /\ InstallOK(q, job)
  BY <1>4, <1>7, <1>8 DEF FilesOK, InstallOK
<1>11. RecordOK(q, job)
  <2>1. ASSUME pc.app # None
        PROVE  Works(q) /\ Has(q, 0)
    <3>1. Works(pc) /\ Has(pc, 0) /\ pc.vol.role = job.pw
      BY <1>4, <2>1, InstallWorks
    <3> QED BY <3>1, <1>7, <1>8, <1>9 DEF Works, Has, Free
  <2> QED BY <2>1, <1>8, <1>10, InstallRecord
<1>12. Installs(q, Following, job)
  BY <1>3, <1>4, <1>7, <1>8, <1>10 DEF Installs
<1> QED BY <1>1, <1>2, <1>4, <1>7, <1>10, <1>11, <1>12, InstallDoes

(* Other databases in the volume: nothing else of it changes.              *)
LEMMA WithDatabases ==
  ASSUME NEW p \in Computer, p.vol # None, NEW q, q.vol # None, q.vol.role = p.vol.role,
         q.pg = p.pg, q.app = p.app, q.own = p.own, q.record = p.record, NEW j,
         FilesOK(p), RecordOK(p, j), InstallOK(p, j)
  PROVE  FilesOK(q) /\ RecordOK(q, j) /\ InstallOK(q, j)
<1>1. FilesOK(q) /\ InstallOK(q, j)
  BY DEF FilesOK, InstallOK
<1>2. Works(p) => Works(q)
  BY DEF Works, Free
<1>3. Has(p, 0) => Has(q, 0)
  BY DEF Has
<1>4. RecordOK(q, j)
  BY <1>1, <1>2, <1>3, InstallWorks, InstallRecord
<1> QED BY <1>1, <1>4

LEMMA PreparedStays ==
  ASSUME NEW dbs \in [Name -> Databases(Name) \union {None}], 0 \in Name, dbs[0] # None,
         NEW existing, existing # "fresh", NEW flavor, NEW n
  PROVE  Prepared(dbs, existing, flavor, n)[0] # None
<1>1. dbs[0] \in Databases(Name)
  OBVIOUS
<1>2. Converted(dbs)[0] = [dbs[0] EXCEPT !.shape = "hypertable"]
  BY DEF Converted
<1>3. Converted(dbs)[0] \in Databases(Name)
  BY <1>1, <1>2 DEF Databases
<1>4. Converted(dbs)[0] # None
  BY <1>3, NoneAssumption
<1> QED BY <1>4 DEF Prepared

LEMMA PrepareExistingFit ==
  ASSUME Inv, FitOK, PrepareExisting
  PROVE  FitOK'
<1> DEFINE dbs == Prepared(pc.vol.dbs, job.existing, job.flavor, setups)
           q == [pc EXCEPT !.vol.dbs = dbs]
<1>1. at = "kept"
  BY DEF PrepareExisting
<1>2. job.kind = "install" /\ setups \in Name \ {0} /\ 0 \in Name
  BY <1>1, InstallStep
<1>3. Following = "create" \/ (Following = "schema" /\ job.existing = "none")
  BY <1>1, <1>2, InstallNow, InstallNext
<1>4. /\ pc \in Computer /\ FilesOK(pc) /\ RecordOK(pc, job) /\ InstallOK(pc, job) /\ ~PutsBack
      /\ pc.vol # None /\ pc.vol.dbs[0] # None /\ pc.own # None /\ pc.own.pw = job.pw /\ pc.own.value = 0
      /\ pc.vol.role = job.pw
  BY <1>1, <1>2, InstallNow DEF Installs, Finds, Synced
<1>5. pc.vol \in Volumes /\ pc.vol.dbs \in [Name -> Databases(Name) \union {None}]
  BY <1>4 DEF Computer, Volumes
<1>6. dbs \in [Name -> Databases(Name) \union {None}]
  <2>1. IsEarly
    BY <1>1, <1>2 DEF IsEarly, Early
  <2>2. pc.vol.dbs[setups] = None
    BY <2>1, <1>2, <1>4 DEF Inv, NamesOK, Under
  <2> QED BY <2>2, <1>2, <1>5, PreparedIs
<1>7. job.existing # "fresh" => dbs[0] # None
  BY <1>2, <1>4, <1>5, PreparedStays
<1>8. \/ Fails("refused", pc)
      \/ job.existing = "fresh" /\ Does(q)
      \/ job.existing # "fresh" /\ pc' = q /\ at' = "schema" /\ UNCHANGED <<job, last>>
  BY <1>4, Zenon DEF PrepareExisting, Database
<1> HIDE DEF dbs
<1>9. q.vol = [pc.vol EXCEPT !.dbs = dbs]
  BY <1>4 DEF Computer
<1>10. q.vol \in Volumes /\ q.vol.dbs = dbs /\ q.vol.role = job.pw
  BY <1>4, <1>5, <1>6, <1>9 DEF Volumes
<1>11. q.pg = pc.pg /\ q.app = pc.app /\ q.own = pc.own /\ q.record = pc.record
  BY <1>4 DEF Computer
<1> HIDE DEF q
<1>12. q.vol # None
  BY <1>10, NoneAssumption
<1>13. FilesOK(q) /\ RecordOK(q, job) /\ InstallOK(q, job)
  BY <1>4, <1>10, <1>11, <1>12, WithDatabases
<1>14. Installs(q, "create", job) /\ Installs(q, "schema", job)
  BY <1>4, <1>10, <1>11, <1>13 DEF Installs
<1>15. CASE Fails("refused", pc)
  <2>1. Fit(pc, "idle", NoJob)
    BY <1>1, <1>2, InstallIdle DEF FitOK
  <2>2. Outcome(pc, job, "refused")
    BY <1>2, <1>4 DEF Outcome
  <2> QED BY <1>1, <1>4, <1>15, <2>1, <2>2, FitFails
<1>16. CASE job.existing = "fresh" /\ Does(q)
  BY <1>1, <1>2, <1>3, <1>13, <1>14, <1>16, InstallDoes
<1>17. CASE job.existing # "fresh" /\ pc' = q /\ at' = "schema" /\ UNCHANGED <<job, last>>
  <2>1. Fit(q, "schema", job)
    BY <1>2, <1>7, <1>10, <1>13, <1>14, <1>17, FitInstall
  <2> QED BY <1>1, <1>17, <2>1, FitGoesOn
<1> QED BY <1>8, <1>15, <1>16, <1>17

(* A database with another in its place.                                   *)
LEMMA WithDatabaseIs ==
  ASSUME NEW p \in Computer, p.vol # None, NEW d \in Databases(Name) \union {None}
  PROVE  LET q == [p EXCEPT !.vol.dbs[0] = d]
         IN /\ q.vol # None /\ q.vol.role = p.vol.role /\ q.vol.dbs[0] = d
            /\ q.pg = p.pg /\ q.app = p.app /\ q.own = p.own /\ q.other = p.other /\ q.record = p.record
<1> DEFINE q == [p EXCEPT !.vol.dbs[0] = d]
<1>1. 0 \in Name /\ p.vol \in Volumes
  BY DockerSetupAssumption DEF Name, Computer
<1>2. q.vol = [p.vol EXCEPT !.dbs[0] = d]
  BY DEF Computer
<1>3. q.vol \in Volumes /\ q.vol.role = p.vol.role /\ q.vol.dbs[0] = d
  BY <1>1, <1>2 DEF Volumes
<1>4. q.pg = p.pg /\ q.app = p.app /\ q.own = p.own /\ q.other = p.other /\ q.record = p.record
  BY DEF Computer
<1> HIDE DEF q
<1>5. q.vol # None
  BY <1>3, NoneAssumption
<1> QED BY <1>3, <1>4, <1>5 DEF q

LEMMA CreateDatabaseFit ==
  ASSUME Inv, FitOK, CreateDatabase
  PROVE  FitOK'
<1> DEFINE d == Created(setups)
           q == [pc EXCEPT !.vol.dbs[0] = d]
<1>1. at = "create" /\ Does(q)
  BY DEF CreateDatabase
<1>2. job.kind = "install"
  BY <1>1, InstallStep
<1>3. Following = "schema"
  BY <1>1, <1>2, InstallNow, InstallNext
<1>4. /\ pc \in Computer /\ setups \in Name /\ FilesOK(pc) /\ RecordOK(pc, job) /\ InstallOK(pc, job)
      /\ pc.vol # None /\ pc.own # None /\ pc.own.pw = job.pw /\ pc.own.value = 0 /\ pc.vol.role = job.pw
  BY <1>1, <1>2, InstallNow DEF Installs, Finds, Synced
<1>5. d \in Databases(Name) /\ d # None
  BY <1>4, CreatedIs
<1> HIDE DEF d
<1>6. /\ q.vol # None /\ q.vol.role = pc.vol.role /\ q.vol.dbs[0] = d
      /\ q.pg = pc.pg /\ q.app = pc.app /\ q.own = pc.own /\ q.record = pc.record
  BY <1>4, <1>5, WithDatabaseIs
<1> HIDE DEF q
<1>7. FilesOK(q) /\ RecordOK(q, job) /\ InstallOK(q, job)
  BY <1>4, <1>6, WithDatabases
<1>8. Installs(q, "schema", job)
  BY <1>4, <1>6, <1>7 DEF Installs
<1> QED BY <1>1, <1>2, <1>3, <1>5, <1>6, <1>7, <1>8, InstallDoes

(* The schema, in a database that has one already or gets one.             *)
LEMMA InstallSchemaFit ==
  ASSUME Inv, FitOK, InstallSchema
  PROVE  FitOK'
<1> DEFINE p == PgUp(pc, "own", pc.own)
           hist == IF job.flavor = "clickhouse" /\ p.hist = None /\ p.vol.dbs[0] # None
                   THEN p.vol.dbs[0].of ELSE p.hist
           new(shape) == [p EXCEPT !.vol.dbs[0] = WithSchema(@, shape),
                                   !.hist = IF job.flavor = "clickhouse" /\ @ = None /\ p.vol.dbs[0] # None
                                            THEN p.vol.dbs[0].of ELSE @]
<1>1. at = "schema"
  BY DEF InstallSchema
<1>2. job.kind = "install" /\ job.flavor \in Flavors
  BY <1>1, InstallStep
<1>3. Following = "up"
  BY <1>1, <1>2, InstallNow, InstallNext
<1>4. /\ pc \in Computer /\ setups \in Name /\ 0 \in Name /\ FilesOK(pc) /\ RecordOK(pc, job) /\ InstallOK(pc, job)
      /\ (pc.vol # None => pc.vol.dbs[0] # None) /\ pc.own # None /\ pc.own.pw = job.pw /\ pc.own.value = 0
      /\ (pc.vol # None => pc.vol.role = job.pw)
  BY <1>1, <1>2, InstallNow DEF Installs, Synced
<1>5. /\ InstallOK(p, job) /\ FilesOK(p) /\ RecordOK(p, job) /\ p.own = pc.own
      /\ p.vol # None /\ (pc.vol # None => p.vol = pc.vol)
      /\ pc.vol = None => p.vol.role = job.pw /\ p.vol.dbs[0] # None
  BY <1>4, InstallPgUp
<1>6. p.vol.role = job.pw /\ p.vol.dbs[0] # None
  BY <1>4, <1>5
<1>7. p \in Computer
  <2>1. pc.own \in AllSettings
    BY <1>4 DEF Computer
  <2> QED BY <1>4, <2>1, PgUpKeeps
<1>8. PICK shape \in Makes(job.flavor) : Does(new(shape))
  <2>1. Free(pc, "own")
    BY <1>4, InstallFree
  <2>2. \E shape \in Makes(job.flavor) : Does(new(shape))
    <3>1. p.own.pw = p.vol.role
      BY <1>4, <1>5, <1>6
    <3> QED BY <1>1, <2>1, <3>1, Zenon DEF InstallSchema
  <2> QED BY <2>2
<1> HIDE DEF p
<1>9. shape \in {"plain", "partitioned", "hypertable"}
  BY <1>2, <1>8 DEF Makes, Flavors
<1> DEFINE d == WithSchema(p.vol.dbs[0], shape)
           r == [p EXCEPT !.vol.dbs[0] = d]
           q == [r EXCEPT !.hist = hist]
<1>10. p.vol \in Volumes /\ p.vol.dbs[0] \in Databases(Name) /\ p.hist \in Name \union {None}
  BY <1>4, <1>5, <1>6, <1>7 DEF Computer, Volumes
<1>11. d \in Databases(Name) /\ d.shape # "missing" /\ d.of = p.vol.dbs[0].of /\ d # None
  <2>1. d \in Databases(Name) /\ d.shape # "missing" /\ d.of = p.vol.dbs[0].of
    BY <1>9, <1>10, <1>6 DEF WithSchema, Databases
  <2> QED BY <2>1, NoneAssumption
<1>12. new(shape) = q
  BY <1>4, <1>7, <1>10 DEF Computer, Volumes
<1> HIDE DEF d, hist, new
<1>13. /\ r.vol # None /\ r.vol.role = p.vol.role /\ r.vol.dbs[0] = d
       /\ r.pg = p.pg /\ r.app = p.app /\ r.own = p.own /\ r.record = p.record
  BY <1>5, <1>7, <1>11, WithDatabaseIs
<1>14. r \in Computer
  BY <1>5, <1>7, <1>11, WithDatabaseKeeps DEF Keeps, Preserves
<1> HIDE DEF r
<1>15. q.vol = r.vol /\ q.pg = r.pg /\ q.app = r.app /\ q.own = r.own /\ q.record = r.record
  BY <1>14 DEF Computer
<1> HIDE DEF q
<1>16. FilesOK(q) /\ RecordOK(q, job) /\ InstallOK(q, job)
  BY <1>5, <1>7, <1>13, <1>15, WithDatabases
<1>17. Installs(q, "up", job)
  BY <1>4, <1>5, <1>6, <1>11, <1>13, <1>15, <1>16 DEF Installs
<1> QED BY <1>1, <1>2, <1>3, <1>8, <1>11, <1>12, <1>13, <1>15, <1>16, <1>17, InstallDoes

(* An installation's containers come up: none is in the way.               *)
LEMMA InstallUpFit ==
  ASSUME Inv, FitOK, ComposeUp, job.kind = "install"
  PROVE  FitOK'
<1> DEFINE q == Up(pc, "own")
<1>1. at = "up"
  BY DEF ComposeUp
<1>2. Following = "serve"
  BY <1>1, InstallNow, InstallNext
<1>3. /\ pc \in Computer /\ setups \in Name /\ FilesOK(pc) /\ InstallOK(pc, job)
      /\ pc.own # None /\ pc.own.pw = job.pw /\ pc.own.value = 0
      /\ pc.vol # None /\ pc.vol.role = job.pw /\ pc.vol.dbs[0] # None /\ pc.vol.dbs[0].shape # "missing"
  BY <1>1, InstallNow DEF Installs, Synced
<1>4. File(pc, "own") = pc.own
  BY DEF File
<1>5. Does(q)
  BY <1>3, <1>4, InstallFree DEF ComposeUp, CanUp
<1>6. /\ q.pg # None /\ q.pg.from = "own" /\ q.pg.set = pc.own /\ q.pg.up
      /\ q.app # None /\ q.app.from = "own" /\ q.app.set = pc.own /\ q.app.up
      /\ q.own = pc.own /\ q.record = pc.record /\ q.vol = pc.vol
  BY <1>3, <1>4, UpIs
<1> HIDE DEF q
<1>7. FilesOK(q) /\ InstallOK(q, job)
  BY <1>3, <1>6 DEF FilesOK, InstallOK
<1>8. Works(q) /\ Has(q, 0)
  BY <1>3, <1>6 DEF Works, Has, Free, FilesOK
<1>9. RecordOK(q, job)
  BY <1>7, <1>8, InstallRecord
<1>10. Installs(q, "serve", job)
  BY <1>3, <1>6, <1>7 DEF Installs
<1> QED BY <1>1, <1>2, <1>3, <1>5, <1>6, <1>7, <1>9, <1>10, InstallDoes

(* ... and SENTIENT answers.                                               *)
LEMMA InstallServeFit ==
  ASSUME Inv, FitOK, Serve, job.kind = "install"
  PROVE  FitOK'
<1>1. at = "serve"
  BY DEF Serve
<1>2. Following = "admin"
  BY <1>1, InstallNow, InstallNext
<1>3. FilesOK(pc) /\ InstallOK(pc, job) /\ RecordOK(pc, job) /\ Installs(pc, "serve", job)
  BY <1>1, InstallNow
<1>4. pc.app # None /\ pc.vol # None /\ pc.vol.dbs[0] # None
  BY <1>3 DEF Installs
<1>5. Serving(pc)
  BY <1>3, DockerSetupAssumption DEF Installs, InstallOK, Synced, FilesOK, Serving
<1>6. Does(pc)
  BY <1>5 DEF Serve, Answers
<1>7. Installs(pc, "admin", job)
  BY <1>3 DEF Installs, Synced
<1> QED BY <1>1, <1>2, <1>3, <1>4, <1>6, <1>7, InstallDoes

LEMMA SetAdminFit ==
  ASSUME Inv, FitOK, SetAdmin
  PROVE  FitOK'
<1> DEFINE d == WithAdministrator(pc.vol.dbs[0])
           q == [pc EXCEPT !.vol.dbs[0] = d]
<1>1. at = "admin" /\ Does([pc EXCEPT !.vol.dbs[0] = WithAdministrator(@)])
  BY DEF SetAdmin
<1>2. job.kind = "install"
  BY <1>1, InstallStep
<1>3. Following = "record"
  BY <1>1, <1>2, InstallNow, InstallNext
<1>4. /\ pc \in Computer /\ 0 \in Name /\ FilesOK(pc) /\ RecordOK(pc, job) /\ InstallOK(pc, job)
      /\ Installs(pc, "admin", job) /\ pc.vol # None /\ pc.vol.dbs[0] # None
  BY <1>1, <1>2, InstallNow DEF Finds
<1>5. pc.vol.dbs[0] \in Databases(Name)
  BY <1>4 DEF Computer, Volumes
<1>6. d \in Databases(Name) /\ d # None
  BY <1>4, <1>5, ServedDatabaseIs
<1>7. Does(q)
  <2>1. [pc EXCEPT !.vol.dbs[0] = WithAdministrator(@)] = q
    BY <1>4 DEF Computer, Volumes
  <2> HIDE DEF q
  <2> QED BY <1>1, <2>1
<1> HIDE DEF d
<1>8. /\ q.vol # None /\ q.vol.role = pc.vol.role /\ q.vol.dbs[0] = d
      /\ q.pg = pc.pg /\ q.app = pc.app /\ q.own = pc.own /\ q.record = pc.record
  BY <1>4, <1>6, WithDatabaseIs
<1> HIDE DEF q
<1>9. FilesOK(q) /\ RecordOK(q, job) /\ InstallOK(q, job)
  BY <1>4, <1>8, WithDatabases
<1>10. Installs(q, "record", job)
  BY <1>4, <1>8, <1>9 DEF Installs, Synced
<1> QED BY <1>1, <1>2, <1>3, <1>6, <1>7, <1>8, <1>9, <1>10, InstallDoes

----------------------------------------------------------------------------
(* The steps of the manager's other jobs.                                  *)
LEMMA ManageNow ==
  ASSUME Inv, FitOK, at # "idle", job.kind # "install"
  PROVE  /\ pc \in Computer /\ setups \in Name /\ job.kind \in Kinds /\ at \in ToSet(Paths[job.kind])
         /\ job.pw \in Nat /\ job.value \in Nat /\ job.flavor \in Flavors /\ job.external \in BOOLEAN
         /\ FilesOK(pc) /\ RecordOK(pc, job) /\ Manages(pc, job) /\ (pc.vol # None => pc.vol.dbs[0] # None)
         /\ job.kind = "repair" => Repairs(pc, at, job)
         /\ job.kind = "settings" => Sets(pc, at, job)
         /\ job.kind = "takeover" => TakesOver(pc, at, job)
         /\ pc.record # None /\ pc.record \in Records /\ job.external = pc.record.external
         /\ job \in Managing
<1>1. Fit(pc, at, job)
  BY DEF FitOK
<1>2. Manages(pc, job) /\ pc.record # None /\ job.external = pc.record.external
  BY <1>1 DEF Fit, JobFits, Manages
<1>3. job \in Managing
  BY StepFacts DEF Job, Installing
<1>4. pc.record \in Records
  BY <1>2, StepFacts DEF Computer
<1> QED BY <1>1, <1>2, <1>3, <1>4, StepFacts DEF Fit, VolumeOK, JobFits

(* A job that is neither a change of settings nor a take-over ends well.   *)
LEMMA PlainOutcome ==
  ASSUME NEW p, NEW j, NEW how, j.kind \notin {"install", "settings"}
  PROVE  Outcome(p, j, how)
BY DEF Outcome

(* The file the manager writes for a stack of its own.                     *)
LEMMA WrittenIs ==
  ASSUME NEW p \in Computer, FilesOK(p), Works(p), NEW pw \in Nat \ {0}, p.vol # None, p.vol.role = pw,
         NEW flavor \in Flavors, NEW value \in Nat
  PROVE  LET q == [p EXCEPT !.own = Settings(pw, flavor, value)]
         IN /\ q \in Computer /\ FilesOK(q) /\ Works(q)
            /\ q.own # None /\ q.own.pw = pw /\ q.own.value = value
            /\ q.vol = p.vol /\ q.pg = p.pg /\ q.app = p.app /\ q.other = p.other /\ q.record = p.record
<1> DEFINE set == Settings(pw, flavor, value)
           q == [p EXCEPT !.own = set]
<1>1. set \in AllSettings /\ set # None
  BY SettingsAre
<1>2. set.pw = pw /\ set.first = pw /\ set.value = value
  BY DEF Settings
<1> HIDE DEF set
<1>3. q \in Computer /\ q.vol = p.vol /\ q.pg = p.pg /\ q.app = p.app /\ q.own = set /\ q.other = p.other
      /\ q.record = p.record
  BY <1>1 DEF Computer
<1> HIDE DEF q
<1>4. FilesOK(q) /\ Works(q)
  BY <1>1, <1>2, <1>3 DEF FilesOK, Works, Free
<1> QED BY <1>1, <1>2, <1>3, <1>4 DEF q, set

LEMMA RepairWriteFit ==
  ASSUME Inv, FitOK, Write, job.kind = "repair"
  PROVE  FitOK'
<1> DEFINE q == [pc EXCEPT !.own = Settings(job.pw, job.flavor, job.value)]
<1>1. at = "write" /\ ~PutsBack
  BY DEF Write, PutsBack
<1>2. Fit(pc, "idle", NoJob)
  BY InstallIdle DEF FitOK
<1>3. CASE job.external
  <2>1. Fails("refused", pc)
    BY <1>3 DEF Write
  <2> QED BY <1>1, <1>2, <2>1, FitFails, PlainOutcome
<1>4. CASE ~job.external
  <2>1. Does(q)
    BY <1>4 DEF Write
  <2>2. /\ pc \in Computer /\ FilesOK(pc) /\ Manages(pc, job) /\ (pc.vol # None => pc.vol.dbs[0] # None)
        /\ job.pw \in Nat \ {0} /\ pc.vol # None /\ pc.vol.role = job.pw /\ job.flavor \in Flavors /\ job.value \in Nat
    BY <1>1, <1>4, ManageNow DEF Repairs
  <2>3. pc.record # None /\ ~pc.record.external /\ job.value = pc.record.value
    BY <1>4, <2>2 DEF Manages
  <2>4. Works(pc) /\ Has(pc, job.value)
    BY <1>2, <2>3, IdleIs
  <2>5. /\ FilesOK(q) /\ Works(q) /\ q.own # None /\ q.own.pw = job.pw /\ q.own.value = job.value
        /\ q.vol = pc.vol /\ q.app = pc.app /\ q.record = pc.record
    BY <2>2, <2>4, WrittenIs
  <2> HIDE DEF q
  <2>6. RecordOK(q, job)
    BY <2>3, <2>4, <2>5 DEF RecordOK, Has
  <2>7. Manages(q, job) /\ Repairs(q, "up", job)
    BY <1>4, <2>2, <2>5 DEF Manages, Repairs
  <2>8. Fit(q, "up", job)
    BY <2>2, <2>5, <2>6, <2>7, FitManage
  <2>9. ~Ends /\ Following = "up"
    <3>1. at # Last(Paths[job.kind])
      BY <1>1, Lasts
    <3> QED BY <1>1, <3>1, ManageNow, ManageNext DEF Ends
  <2> QED BY <1>1, <2>1, <2>8, <2>9, FitDoes
<1> QED BY <1>3, <1>4

LEMMA RepairUpFit ==
  ASSUME Inv, FitOK, ComposeUp, job.kind = "repair"
  PROVE  FitOK'
<1>1. at = "up" /\ ~PutsBack /\ (Fails("stuck", pc) \/ (CanUp(pc, "own") /\ Does(Up(pc, "own"))))
  BY DEF ComposeUp, PutsBack
<1>2. Fit(pc, "idle", NoJob)
  BY InstallIdle DEF FitOK
<1>3. CASE Fails("stuck", pc)
  BY <1>1, <1>2, <1>3, FitFails, PlainOutcome
<1>4. CASE CanUp(pc, "own") /\ Does(Up(pc, "own"))
  <2>1. pc \in Computer /\ setups \in Name /\ pc.record # None /\ ~pc.record.external
    BY <1>1, ManageNow DEF Repairs
  <2>2. From(pc.record.external) = "own"
    BY <2>1 DEF From
  <2>3. Fit(Up(pc, "own"), "idle", NoJob)
    BY <1>2, <1>4, <2>1, <2>2, UpFits
  <2>4. Ends
    BY <1>1, Lasts DEF Ends
  <2> QED BY <1>1, <1>4, <2>3, <2>4, FitDoes, PlainOutcome
<1> QED BY <1>1, <1>3, <1>4

LEMMA StartFit ==
  ASSUME Inv, FitOK, Start
  PROVE  FitOK'
<1> DEFINE from == From(job.external)
<1>1. at = "start" /\ ~PutsBack
  BY DEF Start, PutsBack
<1>2. job.kind = "start"
  BY <1>1, StepFacts, StepsOf, KindsAre, Zenon
<1>3. Fit(pc, "idle", NoJob)
  BY <1>2, InstallIdle DEF FitOK
<1>4. Fails("refused", pc) \/ (CanUp(pc, from) /\ Does(Up(pc, from)))
  BY DEF Start
<1>5. CASE Fails("refused", pc)
  BY <1>1, <1>2, <1>3, <1>5, FitFails, PlainOutcome
<1>6. CASE CanUp(pc, from) /\ Does(Up(pc, from))
  <2>1. pc \in Computer /\ setups \in Name /\ pc.record # None /\ from = From(pc.record.external)
    BY <1>1, <1>2, ManageNow
  <2>2. Fit(Up(pc, from), "idle", NoJob)
    BY <1>3, <1>6, <2>1, UpFits
  <2>3. Ends
    BY <1>1, <1>2, Lasts DEF Ends
  <2> QED BY <1>1, <1>2, <1>6, <2>2, <2>3, FitDoes, PlainOutcome
<1> QED BY <1>4, <1>5, <1>6

(* Removing.                                                               *)
LEMMA RemoveStackFit ==
  ASSUME Inv, FitOK, RemoveStack
  PROVE  FitOK'
<1>1. at = "remove" /\ UNCHANGED <<job, last>> /\ at' = Following /\ (pc' = WithoutData(Down(pc)) \/ pc' = Down(pc))
  BY Zenon DEF RemoveStack
<1>2. job.kind \in {"uninstall", "delete"}
  BY <1>1, StepFacts, OwnSteps
<1>3. Following = "unrecord"
  BY <1>1, <1>2, ManageNow, ManageNext, Lasts
<1>4. /\ pc \in Computer /\ FilesOK(pc) /\ RecordOK(pc, job) /\ Manages(pc, job) /\ (pc.vol # None => pc.vol.dbs[0] # None)
      /\ pc.record # None /\ job.external = pc.record.external
  BY <1>1, <1>2, ManageNow
<1> DEFINE down == Down(pc)
           q == WithoutData(down)
<1>5. /\ down.app = None /\ down.pg = None
      /\ down.vol = pc.vol /\ down.own = pc.own /\ down.record = pc.record
  BY <1>4, DownIs
<1>6. down \in Computer
  BY <1>4, DownKeeps
<1> HIDE DEF down
<1>7. /\ q.app = None /\ q.pg = None /\ q.vol = None /\ q.own = (IF job.external THEN down.own ELSE None)
      /\ q.record = pc.record
  BY <1>5, <1>6 DEF WithoutData, Computer
<1> HIDE DEF q
<1>8. FilesOK(down) /\ FilesOK(q)
  BY <1>4, <1>5, <1>7 DEF FilesOK
<1>9. RecordOK(down, job) /\ RecordOK(q, job)
  BY <1>2, <1>4, <1>5, <1>7 DEF RecordOK, Works, Has, Theirs, Free
<1>10. Manages(down, job) /\ Manages(q, job)
  BY <1>4, <1>5, <1>7 DEF Manages
<1>11. Fit(down, "unrecord", job)
  BY <1>2, <1>4, <1>5, <1>8, <1>9, <1>10, FitManage
<1>12. Fit(q, "unrecord", job)
  BY <1>2, <1>7, <1>8, <1>9, <1>10, FitManage
<1> QED BY <1>1, <1>3, <1>11, <1>12, FitGoesOn DEF down, q

LEMMA RemoveRecordFit ==
  ASSUME Inv, FitOK, RemoveRecord
  PROVE  FitOK'
<1>1. at = "unrecord" /\ Does([pc EXCEPT !.record = None])
  BY DEF RemoveRecord
<1>2. job.kind \in {"uninstall", "delete"}
  BY <1>1, StepFacts, StepsOf, KindsAre, Zenon
<1>3. Fit(pc, "idle", NoJob)
  BY <1>2, InstallIdle DEF FitOK
<1>4. Fit([pc EXCEPT !.record = None], "idle", NoJob)
  BY <1>3, WithoutRecord DEF Inv
<1>5. Ends
  BY <1>1, <1>2, Lasts DEF Ends
<1> QED BY <1>1, <1>2, <1>4, <1>5, FitDoes, PlainOutcome

(* A change of settings: of the manager's own stack, whose passwords work. *)
LEMMA SetsOwn ==
  ASSUME Inv, FitOK, at # "idle", job.kind = "settings", ~job.external
  PROVE  /\ Works(pc) /\ job.pw \in Nat \ {0} /\ pc.vol # None /\ pc.vol.role = job.pw
         /\ Secrets(pc, FALSE) = job.pw /\ pc.record # None /\ ~pc.record.external
         /\ job.was.value = pc.record.value /\ job.was.value \in Nat
         /\ job.was.serving => /\ job.was.value \notin Unfit
                               /\ pc.vol.dbs[0] # None /\ pc.vol.dbs[0].shape # "missing"
<1>1. /\ RecordOK(pc, job) /\ Sets(pc, at, job) /\ pc.record # None /\ ~pc.record.external /\ job.pw \in Nat
      /\ job \in Managing
  BY ManageNow
<1>2. Works(pc)
  BY <1>1 DEF RecordOK
<1> QED BY <1>1, <1>2 DEF Sets, Managing

(* It stays so while its file and its containers change together.          *)
LEMMA SetsStay ==
  ASSUME Inv, FitOK, at # "idle", job.kind = "settings", ~job.external,
         NEW q, FilesOK(q), Works(q), q.vol = pc.vol, q.record = pc.record, Secrets(q, FALSE) = job.pw, NEW a,
         a \in {"up", "serve", "record"} => q.own # None /\ q.own.value = job.value,
         a \in {"serve", "record"} => q.app # None /\ q.app.set.value = job.value,
         a = "record" => Serving(q)
  PROVE  Fit(q, a, job)
<1>1. /\ job.pw # 0 /\ pc.vol # None /\ pc.vol.role = job.pw /\ pc.record # None /\ ~pc.record.external
      /\ job.was.value = pc.record.value
      /\ job.was.serving => /\ job.was.value \notin Unfit
                            /\ pc.vol.dbs[0] # None /\ pc.vol.dbs[0].shape # "missing"
  BY SetsOwn
<1>2. Manages(pc, job) /\ (pc.vol # None => pc.vol.dbs[0] # None)
  BY ManageNow
<1>3. RecordOK(q, job)
  BY <1>1 DEF RecordOK
<1>4. Manages(q, job)
  BY <1>2 DEF Manages
<1>5. Sets(q, a, job)
  BY <1>1, Zenon DEF Sets
<1> QED BY <1>2, <1>3, <1>4, <1>5, FitManage

LEMMA SettingsGoOn ==
  ASSUME Inv, FitOK, job.kind = "settings", at \in {"write", "up", "serve"}
  PROVE  /\ PutsBack /\ ~Ends
         /\ at = "write" => Following = "up"
         /\ at = "up" => Following = "serve"
         /\ at = "serve" => Following = "record"
<1>1. at # Last(Paths[job.kind])
  BY Lasts
<1> QED BY <1>1, ManageNow, ManageNext DEF PutsBack, Ends

(* Whatever step fails, what it leaves can be put back.                    *)
LEMMA SettingsBack ==
  ASSUME Inv, FitOK, job.kind = "settings", at # "idle"
  PROVE  Fit(pc, "back", job)
<1>1. CASE job.external
  <2>1. FilesOK(pc) /\ RecordOK(pc, job) /\ Manages(pc, job) /\ (pc.vol # None => pc.vol.dbs[0] # None)
        /\ Sets(pc, at, job)
    BY ManageNow
  <2>2. Sets(pc, "back", job)
    BY <1>1, <2>1, Zenon DEF Sets
  <2> QED BY <2>1, <2>2, FitManage
<1>2. CASE ~job.external
  BY <1>2, SetsOwn, SetsStay, ManageNow
<1> QED BY <1>1, <1>2

LEMMA SettingsWriteFit ==
  ASSUME Inv, FitOK, Write, job.kind = "settings"
  PROVE  FitOK'
<1> DEFINE q == [pc EXCEPT !.own = Settings(job.pw, job.flavor, job.value)]
<1>1. at = "write"
  BY DEF Write
<1>2. CASE job.external
  <2>1. Fails("refused", pc)
    BY <1>2 DEF Write
  <2> QED BY <1>1, <2>1, SettingsBack, SettingsGoOn, FitFails
<1>3. CASE ~job.external
  <2>1. Does(q)
    BY <1>3 DEF Write
  <2>2. pc \in Computer /\ FilesOK(pc) /\ job.flavor \in Flavors /\ job.value \in Nat
    BY <1>1, ManageNow
  <2>3. /\ FilesOK(q) /\ Works(q) /\ q.own # None /\ q.own.pw = job.pw /\ q.own.value = job.value
        /\ q.vol = pc.vol /\ q.record = pc.record
    <3>1. Works(pc) /\ job.pw \in Nat \ {0} /\ pc.vol # None /\ pc.vol.role = job.pw
      BY <1>1, <1>3, SetsOwn
    <3> HIDE DEF q
    <3>2. LET r == [pc EXCEPT !.own = Settings(job.pw, job.flavor, job.value)]
          IN /\ FilesOK(r) /\ Works(r) /\ r.own # None /\ r.own.pw = job.pw /\ r.own.value = job.value
             /\ r.vol = pc.vol /\ r.record = pc.record
      BY <2>2, <3>1, WrittenIs
    <3> QED BY <3>2 DEF q
  <2> HIDE DEF q
  <2>4. Secrets(q, FALSE) = job.pw
    BY <2>3 DEF Secrets
  <2>5. Fit(q, "up", job)
    BY <1>1, <1>3, <2>3, <2>4, SetsStay
  <2> QED BY <1>1, <2>1, <2>5, SettingsGoOn, FitDoes
<1> QED BY <1>2, <1>3

LEMMA SettingsUpFit ==
  ASSUME Inv, FitOK, ComposeUp, job.kind = "settings"
  PROVE  FitOK'
<1> DEFINE q == Up(pc, "own")
<1>1. at = "up" /\ (Fails("stuck", pc) \/ Does(q))
  BY DEF ComposeUp
<1>2. CASE Fails("stuck", pc)
  BY <1>1, <1>2, SettingsBack, SettingsGoOn, FitFails
<1>3. CASE Does(q)
  <2>1. pc \in Computer /\ setups \in Name /\ FilesOK(pc) /\ Sets(pc, "up", job)
    BY <1>1, ManageNow
  <2>2. ~job.external /\ pc.own # None /\ pc.own.value = job.value
    BY <2>1 DEF Sets
  <2>3. Works(pc) /\ Secrets(pc, FALSE) = job.pw
    BY <1>1, <2>2, SetsOwn
  <2>4. Works(q) /\ FilesOK(q) /\ q.vol = pc.vol
    BY <2>1, <2>2, <2>3, UpWorks
  <2>5. File(pc, "own") = pc.own
    BY DEF File
  <2>6. q.app # None /\ q.app.set = pc.own /\ q.own = pc.own /\ q.record = pc.record
    BY <2>1, <2>2, <2>5, UpIs
  <2> HIDE DEF q
  <2>7. Secrets(q, FALSE) = job.pw
    BY <2>2, <2>3, <2>6 DEF Secrets
  <2>8. Fit(q, "serve", job)
    BY <1>1, <2>2, <2>4, <2>6, <2>7, SetsStay
  <2> QED BY <1>1, <1>3, <2>8, SettingsGoOn, FitDoes
<1> QED BY <1>1, <1>2, <1>3

LEMMA SettingsServeFit ==
  ASSUME Inv, FitOK, Serve, job.kind = "settings"
  PROVE  FitOK'
<1>1. at = "serve" /\ (Fails("stuck", pc) \/ (Serving(pc) /\ Does(pc)))
  BY DEF Serve, Answers
<1>2. CASE Fails("stuck", pc)
  BY <1>1, <1>2, SettingsBack, SettingsGoOn, FitFails
<1>3. CASE Serving(pc) /\ Does(pc)
  <2>1. Sets(pc, "serve", job) /\ FilesOK(pc)
    BY <1>1, ManageNow
  <2>2. ~job.external /\ pc.own # None /\ pc.own.value = job.value /\ pc.app # None /\ pc.app.set.value = job.value
    BY <2>1 DEF Sets
  <2>3. Fit(pc, "record", job)
    BY <1>1, <1>3, <2>1, <2>2, SetsOwn, SetsStay
  <2> QED BY <1>1, <1>3, <2>3, SettingsGoOn, FitDoes
<1> QED BY <1>1, <1>2, <1>3

(* Taking over.                                                            *)
LEMMA TakeOverNow ==
  ASSUME Inv, FitOK, at # "idle", job.kind = "takeover"
  PROVE  /\ pc \in Computer /\ setups \in Name /\ FilesOK(pc) /\ TakesOver(pc, at, job) /\ Manages(pc, job)
         /\ pc.record # None /\ pc.record.external /\ (pc.vol # None => pc.vol.dbs[0] # None)
         /\ job.pw \in Nat \ {0} /\ job.flavor \in Flavors /\ job.value \in Nat
BY ManageNow DEF TakesOver

LEMMA FitTakeOver ==
  ASSUME Inv, FitOK, at # "idle", job.kind = "takeover", NEW q, q.record = pc.record, FilesOK(q),
         q.vol # None => q.vol.dbs[0] # None, NEW a, TakesOver(q, a, job)
  PROVE  Fit(q, a, job)
<1>1. Manages(pc, job) /\ pc.record # None /\ pc.record.external
  BY TakeOverNow
<1>2. Manages(q, job)
  BY <1>1 DEF Manages
<1>3. RecordOK(q, job)
  BY <1>1 DEF RecordOK
<1> QED BY <1>2, <1>3, FitManage

LEMMA TakeOverGoesOn ==
  ASSUME Inv, FitOK, job.kind = "takeover", at \in {"down", "write", "up", "serve"}
  PROVE  /\ ~Ends /\ (PutsBack <=> at # "down")
         /\ at = "down" => Following = "write"
         /\ at = "write" => Following = "up"
         /\ at = "up" => Following = "serve"
         /\ at = "serve" => Following = "record"
<1>1. at # Last(Paths[job.kind])
  BY Lasts
<1> QED BY <1>1, ManageNow, ManageNext DEF PutsBack, Ends

LEMMA TakeOverBack ==
  ASSUME Inv, FitOK, job.kind = "takeover", at \notin {"idle", "down"}
  PROVE  Fit(pc, "back", job)
<1>1. FilesOK(pc) /\ TakesOver(pc, at, job) /\ (pc.vol # None => pc.vol.dbs[0] # None)
  BY TakeOverNow
<1>2. TakesOver(pc, "back", job)
  BY <1>1 DEF TakesOver
<1> QED BY <1>1, <1>2, FitTakeOver

(* Before the operator's project is down, nothing has changed.             *)
LEMMA TakeOverIdle ==
  ASSUME Inv, FitOK, job.kind = "takeover", at = "down"
  PROVE  Fit(pc, "idle", NoJob)
<1>1. /\ FilesOK(pc) /\ TakesOver(pc, "down", job) /\ (pc.vol # None => pc.vol.dbs[0] # None)
      /\ pc.record # None /\ pc.record.external
  BY TakeOverNow
<1>2. RecordOK(pc, NoJob)
  BY <1>1 DEF RecordOK, TakesOver
<1> QED BY <1>1, <1>2, FitIdle

LEMMA TakeDownFit ==
  ASSUME Inv, FitOK, TakeDown
  PROVE  FitOK'
<1> DEFINE q == Down(pc)
<1>1. at = "down" /\ (Fails("refused", pc) \/ (pc.other # None /\ Does(q)))
  BY DEF TakeDown
<1>2. job.kind = "takeover"
  BY <1>1, StepFacts, StepsOf, KindsAre, Zenon
<1>3. CASE Fails("refused", pc)
  BY <1>1, <1>2, <1>3, TakeOverIdle, TakeOverGoesOn, FitFails, PlainOutcome
<1>4. CASE pc.other # None /\ Does(q)
  <2>1. pc \in Computer /\ FilesOK(pc) /\ TakesOver(pc, "down", job) /\ (pc.vol # None => pc.vol.dbs[0] # None)
    BY <1>1, <1>2, TakeOverNow
  <2>2. q.app = None /\ q.pg = None /\ q.vol = pc.vol /\ q.own = pc.own /\ q.other = pc.other /\ q.record = pc.record
    BY <2>1, DownIs
  <2> HIDE DEF q
  <2>3. FilesOK(q) /\ TakesOver(q, "write", job)
    BY <1>4, <2>1, <2>2 DEF FilesOK, TakesOver
  <2>4. Fit(q, "write", job)
    BY <1>1, <1>2, <2>1, <2>2, <2>3, FitTakeOver
  <2> QED BY <1>1, <1>2, <1>4, <2>4, TakeOverGoesOn, FitDoes
<1> QED BY <1>1, <1>3, <1>4

LEMMA TakeOverWriteFit ==
  ASSUME Inv, FitOK, Write, job.kind = "takeover"
  PROVE  FitOK'
<1> DEFINE set == Settings(job.pw, job.flavor, job.value)
           q == [pc EXCEPT !.own = set]
<1>1. at = "write" /\ Does(q)
  BY DEF Write
<1>2. /\ pc \in Computer /\ FilesOK(pc) /\ TakesOver(pc, "write", job) /\ (pc.vol # None => pc.vol.dbs[0] # None)
      /\ job.pw \in Nat \ {0} /\ job.flavor \in Flavors /\ job.value \in Nat
  BY <1>1, TakeOverNow
<1>3. set # None /\ set.pw = job.pw /\ set.first = job.pw /\ set.value = job.value
  <2>1. set # None
    BY <1>2, SettingsAre
  <2> QED BY <2>1 DEF Settings
<1> HIDE DEF set
<1>4. /\ q.vol = pc.vol /\ q.pg = pc.pg /\ q.app = pc.app /\ q.own = set /\ q.other = pc.other
      /\ q.record = pc.record
  BY <1>2 DEF Computer
<1> HIDE DEF q
<1>5. FilesOK(q) /\ TakesOver(q, "up", job)
  BY <1>2, <1>3, <1>4 DEF FilesOK, TakesOver
<1>6. Fit(q, "up", job)
  BY <1>1, <1>2, <1>4, <1>5, FitTakeOver
<1> QED BY <1>1, <1>6, TakeOverGoesOn, FitDoes

LEMMA TakeOverUpFit ==
  ASSUME Inv, FitOK, ComposeUp, job.kind = "takeover"
  PROVE  FitOK'
<1> DEFINE q == Up(pc, "own")
<1>1. at = "up" /\ (Fails("stuck", pc) \/ (CanUp(pc, "own") /\ Does(q)))
  BY DEF ComposeUp
<1>2. CASE Fails("stuck", pc)
  BY <1>1, <1>2, TakeOverBack, TakeOverGoesOn, FitFails
<1>3. CASE CanUp(pc, "own") /\ Does(q)
  <2>1. /\ pc \in Computer /\ setups \in Name /\ FilesOK(pc) /\ TakesOver(pc, "up", job)
        /\ (pc.vol # None => pc.vol.dbs[0] # None)
    BY <1>1, TakeOverNow
  <2>2. File(pc, "own") = pc.own /\ pc.own # None
    BY <1>3 DEF File, CanUp
  <2>3. /\ q.pg # None /\ q.pg.from = "own" /\ q.pg.set = pc.own
        /\ q.app # None /\ q.app.from = "own" /\ q.app.set = pc.own
        /\ q.own = pc.own /\ q.other = pc.other /\ q.record = pc.record
        /\ q.vol # None /\ (pc.vol # None => q.vol = pc.vol)
        /\ pc.vol = None => q.vol.dbs[0] # None
    BY <2>1, <2>2, UpIs
  <2> HIDE DEF q
  <2>4. FilesOK(q) /\ TakesOver(q, "serve", job)
    BY <2>1, <2>3 DEF FilesOK, TakesOver, Free
  <2>5. q.vol.dbs[0] # None
    BY <2>1, <2>3
  <2>6. Fit(q, "serve", job)
    BY <1>1, <2>3, <2>4, <2>5, FitTakeOver
  <2> QED BY <1>1, <1>3, <2>6, TakeOverGoesOn, FitDoes
<1> QED BY <1>1, <1>2, <1>3

LEMMA TakeOverServeFit ==
  ASSUME Inv, FitOK, Serve, job.kind = "takeover"
  PROVE  FitOK'
<1>1. at = "serve" /\ (Fails("stuck", pc) \/ (Serving(pc) /\ Does(pc)))
  BY DEF Serve, Answers
<1>2. CASE Fails("stuck", pc)
  BY <1>1, <1>2, TakeOverBack, TakeOverGoesOn, FitFails
<1>3. CASE Serving(pc) /\ Does(pc)
  <2>1. FilesOK(pc) /\ TakesOver(pc, "serve", job) /\ (pc.vol # None => pc.vol.dbs[0] # None)
    BY <1>1, TakeOverNow
  <2>2. TakesOver(pc, "record", job)
    BY <1>3, <2>1 DEF TakesOver
  <2>3. Fit(pc, "record", job)
    BY <1>1, <2>1, <2>2, FitTakeOver
  <2> QED BY <1>1, <1>3, <2>3, TakeOverGoesOn, FitDoes
<1> QED BY <1>1, <1>2, <1>3

(* The steps that several jobs have.                                       *)
LEMMA WriteFit ==
  ASSUME Inv, FitOK, Write
  PROVE  FitOK'
<1>1. job.kind \in {"install", "settings", "takeover", "repair"}
  <2>1. at = "write"
    BY DEF Write
  <2> QED BY <2>1, StepFacts, StepsOf, KindsAre, Zenon
<1> QED BY <1>1, InstallWriteFit, SettingsWriteFit, TakeOverWriteFit, RepairWriteFit

LEMMA ComposeUpFit ==
  ASSUME Inv, FitOK, ComposeUp
  PROVE  FitOK'
<1>1. job.kind \in {"install", "settings", "takeover", "repair"}
  <2>1. at = "up"
    BY DEF ComposeUp
  <2> QED BY <2>1, StepFacts, StepsOf, KindsAre, Zenon
<1> QED BY <1>1, InstallUpFit, SettingsUpFit, TakeOverUpFit, RepairUpFit

LEMMA ServeFit ==
  ASSUME Inv, FitOK, Serve
  PROVE  FitOK'
<1>1. job.kind \in {"install", "settings", "takeover"}
  <2>1. at = "serve"
    BY DEF Serve
  <2> QED BY <2>1, StepFacts, StepsOf, KindsAre, Zenon
<1> QED BY <1>1, InstallServeFit, SettingsServeFit, TakeOverServeFit

(* What is recorded is what is there.                                      *)
LEMMA SaveRecordFit ==
  ASSUME Inv, FitOK, SaveRecord
  PROVE  FitOK'
<1> DEFINE record == [flavor |-> job.flavor, value |-> job.value, external |-> FALSE]
           q == [pc EXCEPT !.record = record]
<1>1. at = "record" /\ Does(q)
  BY DEF SaveRecord
<1>2. job.kind \in {"install", "settings", "takeover"}
  BY <1>1, StepFacts, StepsOf, KindsAre, Zenon
<1>3. pc \in Computer /\ job.flavor \in Flavors /\ job.value \in Nat
  BY <1>1, StepFacts
<1>4. record # None /\ record.value = job.value /\ ~record.external
  <2>1. record \in Records
    BY <1>3 DEF Records
  <2> QED BY <2>1, NoneAssumption
<1> HIDE DEF record
<1>5. q.vol = pc.vol /\ q.pg = pc.pg /\ q.app = pc.app /\ q.own = pc.own /\ q.record = record
  BY <1>3 DEF Computer
<1> HIDE DEF q
<1>6. FilesOK(pc) /\ (pc.vol # None => pc.vol.dbs[0] # None)
  BY <1>1, InstallNow, ManageNow
<1>7. Works(pc) /\ Has(pc, job.value)
  <2>1. CASE job.kind = "install"
    <3>1. InstallOK(pc, job) /\ RecordOK(pc, job) /\ pc.app # None
      BY <1>1, <2>1, InstallNow DEF Installs
    <3> QED BY <3>1, InstallWorks DEF InstallOK
  <2>2. CASE job.kind = "settings"
    <3>1. Sets(pc, "record", job)
      BY <1>1, <2>2, ManageNow
    <3>2. ~job.external /\ Has(pc, job.value)
      BY <3>1 DEF Sets, Has
    <3> QED BY <1>1, <2>2, <3>2, SetsOwn
  <2>3. CASE job.kind = "takeover"
    <3>1. TakesOver(pc, "record", job)
      BY <1>1, <2>3, TakeOverNow
    <3> QED BY <3>1, <1>6 DEF TakesOver, Serving, Works, Has, FilesOK
  <2> QED BY <1>2, <2>1, <2>2, <2>3
<1>8. Works(q) /\ Has(q, job.value) /\ FilesOK(q)
  BY <1>5, <1>6, <1>7 DEF Works, Has, Free, FilesOK
<1>9. RecordOK(q, NoJob)
  BY <1>4, <1>5, <1>8 DEF RecordOK
<1>10. Fit(q, "idle", NoJob)
  BY <1>5, <1>6, <1>8, <1>9, FitIdle
<1>11. Outcome(q, job, "done")
  <2>1. CASE job.kind = "settings"
    <3>1. Sets(pc, "record", job)
      BY <1>1, <2>1, ManageNow
    <3>2. pc.own.value = job.value /\ pc.app.set.value = job.value /\ Serving(pc)
      BY <3>1 DEF Sets
    <3>3. Serving(q)
      BY <3>2, <1>5, Zenon DEF Serving
    <3> QED BY <2>1, <3>2, <3>3, <1>4, <1>5 DEF Outcome, Settled
  <2>2. CASE job.kind # "settings"
    BY <2>2 DEF Outcome
  <2> QED BY <2>1, <2>2
<1>12. Ends
  BY <1>1 DEF Ends
<1> QED BY <1>1, <1>10, <1>11, <1>12, FitDoes

----------------------------------------------------------------------------
(* Putting back.                                                           *)
LEMMA BackIs ==
  ASSUME Inv, PutBack
  PROVE  job.kind \in {"settings", "takeover"} /\ at = "back"
<1>1. at = "back"
  BY DEF PutBack
<1> QED BY <1>1, StepFacts, StepsOf, KindsAre, Zenon

LEMMA SettingsPutBackFit ==
  ASSUME Inv, FitOK, PutBack, job.kind = "settings"
  PROVE  FitOK'
<1>1. at = "back" /\ pc' = Restored(pc) /\ End("undone")
  BY DEF PutBack
<1>2. /\ pc \in Computer /\ setups \in Name /\ FilesOK(pc) /\ RecordOK(pc, job) /\ Sets(pc, "back", job)
      /\ (pc.vol # None => pc.vol.dbs[0] # None) /\ pc.record # None /\ job.external = pc.record.external
      /\ job.flavor \in Flavors
  BY <1>1, ManageNow
<1>3. CASE job.external
  <2>1. Restored(pc) = pc
    BY <1>3 DEF Restored
  <2>2. Theirs(pc)
    BY <1>2, <1>3 DEF RecordOK
  <2>3. RecordOK(pc, NoJob)
    BY <1>2, <1>3, <2>2 DEF RecordOK
  <2>4. Fit(pc, "idle", NoJob)
    BY <1>2, <2>3, FitIdle
  <2>5. Outcome(pc, job, "undone")
    <3>1. pc.record.value = job.was.value /\ (job.was.serving => Serving(pc))
      BY <1>2, <1>3 DEF Sets
    <3> QED BY <3>1, <1>3 DEF Outcome, Settled
  <2> QED BY <1>1, <2>1, <2>4, <2>5, FitEnds
<1>4. CASE ~job.external
  <2> DEFINE value == job.was.value
             q == [pc EXCEPT !.own = Settings(job.pw, job.flavor, value)]
             r == Up(q, "own")
  <2>1. /\ Works(pc) /\ job.pw \in Nat \ {0} /\ pc.vol # None /\ pc.vol.role = job.pw
        /\ Secrets(pc, FALSE) = job.pw /\ ~pc.record.external
        /\ value = pc.record.value /\ value \in Nat
        /\ job.was.serving => /\ value \notin Unfit
                              /\ pc.vol.dbs[0] # None /\ pc.vol.dbs[0].shape # "missing"
    BY <1>1, <1>4, SetsOwn
  <2>2. Restored(pc) = r
    BY <1>4, <2>1 DEF Restored
  <2> HIDE DEF value
  <2>3. /\ q \in Computer /\ FilesOK(q) /\ Works(q)
        /\ q.own # None /\ q.own.pw = job.pw /\ q.own.value = value
        /\ q.vol = pc.vol /\ q.record = pc.record
    BY <1>2, <2>1, WrittenIs
  <2> HIDE DEF q
  <2>4. Works(r) /\ Has(r, value) /\ FilesOK(r) /\ r.vol = pc.vol
    BY <1>2, <2>3, UpWorks
  <2>5. File(q, "own") = q.own
    BY DEF File
  <2>6. /\ r.pg # None /\ r.pg.up /\ r.app # None /\ r.app.set = q.own /\ r.app.up
        /\ r.own = q.own /\ r.record = pc.record
    BY <1>2, <2>3, <2>5, UpIs
  <2> HIDE DEF r
  <2>7. RecordOK(r, NoJob)
    BY <1>2, <2>1, <2>4, <2>6 DEF RecordOK
  <2>8. Fit(r, "idle", NoJob)
    BY <1>2, <2>4, <2>7, FitIdle
  <2>9. Outcome(r, job, "undone")
    <3>1. job.was.serving => Serving(r)
      BY <2>1, <2>3, <2>4, <2>6 DEF Serving
    <3>2. r.record.value = value /\ r.own.value = value /\ r.app.set.value = value
      BY <2>1, <2>3, <2>6
    <3> QED BY <3>1, <3>2 DEF Outcome, Settled, value
  <2> QED BY <1>1, <2>2, <2>8, <2>9, FitEnds
<1> QED BY <1>3, <1>4

LEMMA TakeOverPutBackFit ==
  ASSUME Inv, FitOK, PutBack, job.kind = "takeover"
  PROVE  FitOK'
<1> DEFINE d == Down(pc)
           q == Up(d, "other")
<1>1. at = "back" /\ pc' = Restored(pc) /\ End("undone")
  BY DEF PutBack
<1>2. /\ pc \in Computer /\ setups \in Name /\ FilesOK(pc) /\ TakesOver(pc, "back", job)
      /\ (pc.vol # None => pc.vol.dbs[0] # None) /\ pc.record # None /\ pc.record.external
  BY <1>1, TakeOverNow
<1>3. /\ d.app = None /\ d.pg = None
      /\ d.vol = pc.vol /\ d.own = pc.own /\ d.other = pc.other /\ d.record = pc.record
  BY <1>2, DownIs
<1>4. d \in Computer
  BY <1>2, DownKeeps
<1>5. File(d, "other") # None /\ Free(d, "other")
  BY <1>2, <1>3 DEF File, Free, TakesOver
<1>6. Restored(pc) = q
  BY <1>5 DEF Restored, CanUp
<1> HIDE DEF d
<1>7. /\ q.pg # None /\ q.pg.from = "other" /\ q.app # None /\ q.app.from = "other"
      /\ q.own = d.own /\ q.record = d.record
      /\ q.vol # None /\ (d.vol # None => q.vol = d.vol)
      /\ d.vol = None => q.vol.dbs[0] # None
  BY <1>2, <1>4, <1>5, UpIs
<1> HIDE DEF q
<1>8. FilesOK(q) /\ q.vol.dbs[0] # None
  BY <1>2, <1>3, <1>7 DEF FilesOK
<1>9. RecordOK(q, NoJob)
  BY <1>2, <1>3, <1>7 DEF RecordOK, Theirs
<1>10. Fit(q, "idle", NoJob)
  BY <1>8, <1>9, FitIdle
<1> QED BY <1>1, <1>6, <1>10, FitEnds, PlainOutcome

(* What fails, and before which the manager is killed.                     *)
LEMMA TornIs ==
  ASSUME Quiet, Inv, <<job.kind, at>> \in MayTear
  PROVE  /\ at \in {"up", "schema"} /\ job.kind \in {"install", "settings", "takeover", "repair"}
         /\ (Torn(at) = pc \/ (pc.own # None /\ Torn(at) = PgUp(pc, "own", pc.own)))
<1>1. at \in {"up", "schema"}
  BY DEF Quiet
<1>2. Torn(at) = pc \/ (CanUp(pc, "own") /\ Torn(at) = PgUp(pc, "own", pc.own))
  <2>1. CASE CanUp(pc, "own")
    BY <1>1, <2>1 DEF Torn
  <2>2. CASE ~CanUp(pc, "own")
    BY <1>1, <2>2, Zenon DEF Torn
  <2> QED BY <2>1, <2>2
<1>3. job.kind \in {"install", "settings", "takeover", "repair"}
  BY <1>1, StepFacts, StepsOf, KindsAre, Zenon
<1> QED BY <1>1, <1>2, <1>3 DEF CanUp, File

LEMMA InstallFailFit ==
  ASSUME Quiet, Inv, FitOK, at # "idle", job.kind = "install",
         \/ <<job.kind, at>> \in MayFail /\ Fails("failed", pc)
         \/ <<job.kind, at>> \in MayTear /\ Fails("failed", Torn(at))
  PROVE  FitOK'
<1>1. at # "create"
  BY TornIs DEF Quiet
<1>2. InstallOK(pc, job) /\ ~PutsBack
  BY InstallNow
<1>3. CASE Fails("failed", pc)
  <2>1. Fit(pc, "idle", NoJob)
    BY <1>1, InstallIdle DEF FitOK
  <2>2. Outcome(pc, job, "failed")
    BY <1>2 DEF Outcome
  <2> QED BY <1>2, <1>3, <2>1, <2>2, FitFails
<1>4. CASE <<job.kind, at>> \in MayTear /\ pc.own # None /\ Fails("failed", PgUp(pc, "own", pc.own))
  <2> DEFINE q == PgUp(pc, "own", pc.own)
  <2>1. /\ pc \in Computer /\ setups \in Name /\ FilesOK(pc) /\ RecordOK(pc, job)
        /\ (pc.vol # None => pc.vol.dbs[0] # None) /\ pc.own.pw = job.pw /\ pc.own.value = 0
    BY <1>1, <1>4, TornIs, InstallNow DEF Installs
  <2>2. /\ InstallOK(q, job) /\ FilesOK(q) /\ RecordOK(q, job) /\ (pc.vol # None => q.vol = pc.vol)
        /\ pc.vol = None => q.vol.dbs[0] # None
    BY <1>2, <1>4, <2>1, InstallPgUp
  <2> HIDE DEF q
  <2>3. RecordOK(q, NoJob)
    BY <2>2 DEF RecordOK, InstallOK
  <2>4. Fit(q, "idle", NoJob)
    BY <2>1, <2>2, <2>3, FitIdle
  <2>5. Outcome(q, job, "failed")
    BY <2>2 DEF Outcome
  <2> QED BY <1>2, <1>4, <2>4, <2>5, FitFails DEF q
<1> QED BY <1>3, <1>4, TornIs

LEMMA SettingsFailFit ==
  ASSUME Quiet, Inv, FitOK, at # "idle", job.kind = "settings",
         \/ <<job.kind, at>> \in MayFail /\ Fails("failed", pc)
         \/ <<job.kind, at>> \in MayTear /\ Fails("failed", Torn(at))
  PROVE  FitOK'
<1>1. at \in {"write", "up", "serve"}
  <2>1. at \in {"write", "up", "serve", "record", "back"}
    BY ManageNow, StepsOf
  <2>2. at = "up" \/ at \notin {"record", "back"}
    BY TornIs DEF Quiet
  <2> QED BY <2>1, <2>2
<1>2. PutsBack
  BY <1>1, SettingsGoOn
<1>3. CASE Fails("failed", pc)
  BY <1>2, <1>3, SettingsBack, FitFails
<1>4. CASE <<job.kind, at>> \in MayTear /\ pc.own # None /\ Fails("failed", PgUp(pc, "own", pc.own))
  <2> DEFINE q == PgUp(pc, "own", pc.own)
  <2>1. pc \in Computer /\ setups \in Name /\ FilesOK(pc) /\ Sets(pc, "up", job)
    <3>1. at = "up"
      BY <1>1, <1>4, TornIs
    <3> QED BY <3>1, ManageNow
  <2>2. ~job.external
    BY <2>1 DEF Sets
  <2>3. Works(pc) /\ Secrets(pc, FALSE) = job.pw
    BY <2>2, SetsOwn
  <2>4. Works(q) /\ FilesOK(q) /\ q.vol = pc.vol
    BY <1>4, <2>1, <2>3, PgUpWorks
  <2>5. q.own = pc.own /\ q.record = pc.record
    <3>1. pc.own \in AllSettings
      BY <1>4, <2>1 DEF Computer
    <3> QED BY <2>1, <3>1, PgUpIs
  <2> HIDE DEF q
  <2>6. Secrets(q, FALSE) = job.pw
    BY <1>4, <2>3, <2>5 DEF Secrets
  <2>7. Fit(q, "back", job)
    BY <2>2, <2>4, <2>5, <2>6, SetsStay
  <2> QED BY <1>2, <1>4, <2>7, FitFails DEF q
<1> QED BY <1>3, <1>4, TornIs

LEMMA TakeOverFailFit ==
  ASSUME Quiet, Inv, FitOK, at # "idle", job.kind = "takeover",
         \/ <<job.kind, at>> \in MayFail /\ Fails("failed", pc)
         \/ <<job.kind, at>> \in MayTear /\ Fails("failed", Torn(at))
  PROVE  FitOK'
<1>1. at \in {"down", "write", "up", "serve"}
  <2>1. at \in {"down", "write", "up", "serve", "record", "back"}
    BY ManageNow, StepsOf
  <2>2. at = "up" \/ at \notin {"record", "back"}
    BY TornIs DEF Quiet
  <2> QED BY <2>1, <2>2
<1>2. PutsBack <=> at # "down"
  BY <1>1, TakeOverGoesOn
<1>3. CASE Fails("failed", pc)
  BY <1>1, <1>2, <1>3, TakeOverBack, TakeOverIdle, FitFails, PlainOutcome
<1>4. CASE <<job.kind, at>> \in MayTear /\ pc.own # None /\ Fails("failed", PgUp(pc, "own", pc.own))
  <2> DEFINE q == PgUp(pc, "own", pc.own)
  <2>1. at = "up"
    BY <1>1, <1>4, TornIs
  <2>2. /\ pc \in Computer /\ setups \in Name /\ FilesOK(pc) /\ TakesOver(pc, "up", job)
        /\ (pc.vol # None => pc.vol.dbs[0] # None)
    BY <2>1, TakeOverNow
  <2>3. pc.own \in AllSettings
    BY <1>4, <2>2 DEF Computer
  <2>4. /\ q.pg # None /\ q.pg.from = "own" /\ q.app = pc.app /\ q.own = pc.own /\ q.other = pc.other
        /\ q.record = pc.record /\ q.vol # None /\ (pc.vol # None => q.vol = pc.vol)
        /\ pc.vol = None => q.vol.dbs[0] # None
    BY <2>2, <2>3, PgUpIs
  <2> HIDE DEF q
  <2>5. FilesOK(q) /\ TakesOver(q, "back", job) /\ q.vol.dbs[0] # None
    BY <2>2, <2>4 DEF FilesOK, TakesOver
  <2>6. Fit(q, "back", job)
    BY <2>1, <2>4, <2>5, FitTakeOver
  <2> QED BY <1>2, <1>4, <2>1, <2>6, FitFails DEF q
<1> QED BY <1>3, <1>4, TornIs

LEMMA PlainFailFit ==
  ASSUME Quiet, Inv, FitOK, at # "idle", job.kind \notin {"install", "settings", "takeover"},
         \/ <<job.kind, at>> \in MayFail /\ Fails("failed", pc)
         \/ <<job.kind, at>> \in MayTear /\ Fails("failed", Torn(at))
  PROVE  FitOK'
<1>1. Fit(pc, "idle", NoJob) /\ ~PutsBack
  BY InstallIdle DEF FitOK, PutsBack
<1>2. CASE Fails("failed", pc)
  BY <1>1, <1>2, FitFails, PlainOutcome
<1>3. CASE <<job.kind, at>> \in MayTear /\ pc.own # None /\ Fails("failed", PgUp(pc, "own", pc.own))
  <2> DEFINE q == PgUp(pc, "own", pc.own)
  <2>1. job.kind = "repair"
    BY <1>3, TornIs
  <2>2. at = "up"
    BY <1>3, <2>1, TornIs, ManageNow, StepsOf
  <2>3. /\ pc \in Computer /\ setups \in Name /\ FilesOK(pc) /\ (pc.vol # None => pc.vol.dbs[0] # None)
        /\ pc.record # None /\ ~pc.record.external
    BY <2>1, <2>2, ManageNow DEF Repairs
  <2>4. Works(pc) /\ Has(pc, pc.record.value)
    BY <1>1, <2>3, IdleIs
  <2>5. Works(q) /\ FilesOK(q) /\ q.vol = pc.vol /\ Has(q, pc.record.value)
    BY <1>3, <2>3, <2>4, PgUpWorks
  <2>6. q.record = pc.record
    <3>1. pc.own \in AllSettings
      BY <1>3, <2>3 DEF Computer
    <3> QED BY <2>3, <3>1, PgUpIs
  <2> HIDE DEF q
  <2>7. RecordOK(q, NoJob)
    BY <2>3, <2>5, <2>6 DEF RecordOK
  <2>8. Fit(q, "idle", NoJob)
    BY <2>3, <2>5, <2>7, FitIdle
  <2> QED BY <1>1, <1>3, <2>1, <2>8, FitFails, PlainOutcome DEF q
<1> QED BY <1>2, <1>3, TornIs

LEMMA FailFit ==
  ASSUME Quiet, Inv, FitOK, Fail
  PROVE  FitOK'
<1>1. at # "idle"
  BY DockerSetupAssumption, InSteps DEF Fail
<1>2. \/ <<job.kind, at>> \in MayFail /\ Fails("failed", pc)
      \/ <<job.kind, at>> \in MayTear /\ Fails("failed", Torn(at))
  BY DEF Fail
<1> QED BY <1>1, <1>2, InstallFailFit, SettingsFailFit, TakeOverFailFit, PlainFailFit

LEMMA DieFit ==
  ASSUME Quiet, Inv, FitOK, Die
  PROVE  FitOK'
<1>1. <<job.kind, at>> \in MayDie /\ End("killed") /\ pc' = pc
  BY DEF Die
<1>2. at # "idle"
  BY <1>1, DockerSetupAssumption, InSteps
<1>3. job.kind # "settings"
  BY <1>1, <1>2, StepFacts, StepsOf DEF Quiet
<1>4. Fit(pc, "idle", NoJob)
  <2>1. CASE job.kind = "takeover"
    <3>1. at = "down"
      BY <1>1, <1>2, <2>1, StepFacts, StepsOf DEF Quiet
    <3> QED BY <2>1, <3>1, TakeOverIdle
  <2>2. CASE job.kind # "takeover"
    <3>1. ~(job.kind = "install" /\ at = "create")
      BY <1>1 DEF Quiet
    <3> QED BY <1>3, <2>2, <3>1, InstallIdle DEF FitOK
  <2> QED BY <2>1, <2>2
<1>5. Outcome(pc, job, "killed")
  BY <1>3 DEF Outcome
<1> QED BY <1>1, <1>4, <1>5, FitEnds

LEMMA StutterFit ==
  ASSUME FitOK, UNCHANGED vars
  PROVE  FitOK'
<1>1. pc' = pc /\ at' = at /\ job' = job /\ last' = last
  BY DEF vars
<1>2. Fit(pc, at, job)'
  BY <1>1, FitPrimed DEF FitOK
<1>3. Outcome(pc, last.job, last.end)'
  BY <1>1, OutcomePrimed DEF FitOK
<1> QED BY <1>1, <1>2, <1>3, Zenon DEF FitOK

LEMMA NextFit ==
  ASSUME Quiet, Inv, FitOK, [Next]_vars
  PROVE  FitOK'
<1>1. CASE Operator
  <2>1. ASSUME NEW c \in Plans, Install(c) PROVE FitOK'
    BY <2>1, InstallFit
  <2>2. ASSUME NEW run \in BOOLEAN, Control(run) PROVE FitOK'
    BY <2>2, ControlFit
  <2>3. ASSUME NEW what \in {"own", "other", "record"}, Lose(what) PROVE FitOK'
    BY <2>3, LoseFit
  <2> QED BY <1>1, <2>1, <2>2, <2>3, RetryFit, ManageFit, AdoptFit, Zenon DEF Operator
<1>2. CASE Step
  <2>1. PutBack => FitOK'
    BY BackIs, SettingsPutBackFit, TakeOverPutBackFit
  <2> QED BY <1>2, <2>1, SetUpDockerFit, WriteFit, PullFit, StartPostgresFit, SyncRoleFit, PrepareExistingFit,
         CreateDatabaseFit, InstallSchemaFit, ComposeUpFit, ServeFit, SetAdminFit, SaveRecordFit, TakeDownFit,
         StartFit, RemoveStackFit, RemoveRecordFit, Zenon DEF Step
<1>3. CASE Fail
  BY <1>3, FailFit
<1>4. CASE Die
  BY <1>4, DieFit
<1>5. CASE UNCHANGED vars
  BY <1>5, StutterFit
<1> QED BY <1>1, <1>2, <1>3, <1>4, <1>5 DEF Next

LEMMA Fits ==
  ASSUME Quiet
  PROVE  Spec => []FitOK
<1>1. Init => FitOK
  BY InitFit
<1>2. Inv /\ FitOK /\ [Next]_vars => FitOK'
  BY NextFit
<1> QED BY <1>1, <1>2, Invariant, PTL DEF Spec

(* A setup in which no call fails is never stopped by what an earlier one  *)
(* left (deploy_with, prepare_existing), when nothing the code has no way  *)
(* back from fails: PostgreSQL starts in no other project's way, the       *)
(* database takes the password, and SENTIENT answers.                      *)
THEOREM SetupsFinish ==
  ASSUME Quiet
  PROVE  Spec => []SetupAgainFinishes
<1>1. FitOK => SetupAgainFinishes
  BY DEF FitOK, Outcome, SetupAgainFinishes
<1> QED BY <1>1, Fits, PTL

(* The passwords the manager reads back, from its compose file or from the *)
(* containers when the file is gone (read_secrets), are the ones the       *)
(* databases take, when nothing the code has no way back from fails.       *)
THEOREM PasswordsReadBackWork ==
  ASSUME Quiet
  PROVE  Spec => []SecretsWork
<1>1. ASSUME Inv, FitOK PROVE SecretsWork
  <2> SUFFICES ASSUME at = "idle", pc.record # None, Secrets(pc, pc.record.external) # 0,
                      pc.app # None /\ pc.app.from = "other" => SignsIn(pc.app)
               PROVE  Secrets(pc, pc.record.external) = pc.vol.role
    BY DEF SecretsWork
  <2>1. pc \in Computer /\ Fit(pc, "idle", NoJob)
    BY <1>1, IdleJob
  <2>2. pc.record.external \in BOOLEAN
    BY <2>1 DEF Computer, Records
  <2>3. CASE ~pc.record.external
    <3>1. Works(pc) /\ Secrets(pc, FALSE) = Secrets(pc, pc.record.external)
      BY <2>1, <2>2, <2>3, IdleIs
    <3> QED BY <3>1, SecretsOfWorks
  <2>4. CASE pc.record.external
    <3>1. Theirs(pc)
      BY <2>1, <2>4, IdleIs
    <3>2. Secrets(pc, pc.record.external) = ContainerSecrets(pc)
      BY <2>4 DEF Secrets
    <3>3. pc.app # None
      BY <3>1, <3>2 DEF ContainerSecrets, Theirs
    <3> QED BY <3>1, <3>2, <3>3 DEF ContainerSecrets, Theirs, SignsIn
  <2> QED BY <2>3, <2>4
<1> QED BY <1>1, Invariant, Fits, PTL

(* The compose file, the container and the record have the new settings or *)
(* the old ones together when a change of settings has ended, and SENTIENT *)
(* serves again if it did (settings::apply), when nothing the code has no  *)
(* way back from fails.                                                    *)
THEOREM SettingsChangeTogether ==
  ASSUME Quiet
  PROVE  Spec => []SettingsTogether
<1>1. FitOK => SettingsTogether
  BY Zenon DEF FitOK, Outcome, Settled, SettingsTogether
<1> QED BY <1>1, Fits, PTL
=============================================================================
