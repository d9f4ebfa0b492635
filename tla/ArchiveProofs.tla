--------------------------- MODULE ArchiveProofs ---------------------------
(***************************************************************************)
(* What was selected is restored, for any number of times, months, backups *)
(* and restores: the properties of Archive, from an invariant that says    *)
(* what each read of the running database leaves in the archive and what   *)
(* each step of a restore has put where it belongs.                        *)
(***************************************************************************)
EXTENDS Archive, FiniteSetTheorems, WellFoundedInduction, TLAPS

----------------------------------------------------------------------------
(* The running database.                                                   *)
HasLatest(f, db) ==
  /\ \A r \in HistoryOf(f, db) : r[1] <= LatestOf(f, db)
  /\ LatestOf(f, db) # 0 => \E r \in HistoryOf(f, db) : r[1] = LatestOf(f, db)
(* What a database holds of the history; where it keeps it.                *)
Sound(f, db) ==
  /\ db \in Database /\ IsFiniteSet(db.ch) /\ HasLatest(f, db)
  /\ f = "clickhouse" => db.ts_kv = {}
  /\ f # "clickhouse" => db.ch = {}
  /\ f = "stock" => MonthsOf(db.ts_kv) \subseteq db.parts /\ db.parts # {}
(* The later database has everything of the earlier one, or newer.         *)
Kept(f, b, d) ==
  /\ Covers(HistoryOf(f, b), HistoryOf(f, d)) /\ LatestOf(f, b) <= LatestOf(f, d)
  /\ b.report \subseteq d.report /\ b.device <= d.device
(* The newest of its values.                                               *)
Now == LatestOf(flavor, live)
LiveInv ==
  /\ flavor \in Flavors /\ Sound(flavor, live) /\ live.report \subseteq store
  /\ writes \in 0..MaxWrites /\ live.device <= writes /\ \A r \in live.ts_kv : r[2] <= writes

(* The rows a backup has to have of what was there when it began.          *)
Due(o, rows) == IF Mode(o) = "last" THEN From(rows, Since) ELSE rows

(* What the members that were read hold, c by their names: of the database *)
(* b that was there when the backup began, and nothing later than now and *)
(* than the files there are.                                               *)
DumpHolds(c, f, o, b, files) ==
  LET d == c[Dump]
  IN /\ d \in Database /\ d.ch = {} /\ d.report \subseteq files
     /\ f # "stock" => d.ts_kv = {}
     /\ f = "stock" => d.parts # {}
     /\ b.device <= d.device
     /\ Included(o, "reports") => b.report \subseteq d.report
     /\ Included(o, "telemetry_latest") /\ f # "clickhouse" => b.latest <= d.latest
TelemetryHolds(c, f, o, b, now) ==
  /\ c[Telemetry] \subseteq Row
  /\ \A r \in c[Telemetry] : r[1] <= now
  /\ f # "clickhouse" => Covers(Due(o, b.ts_kv), c[Telemetry])
MonthHolds(c, m, o, b, now) ==
  /\ c[History(m)] \subseteq Row /\ IsFiniteSet(c[History(m)])
  /\ \A r \in c[History(m)] : r[1] <= now
  /\ Covers(OfMonth(Due(o, b.ch), m), c[History(m)])
Holds(c, f, o, b, now, files) ==
  /\ Dump \in DOMAIN c => DumpHolds(c, f, o, b, files)
  /\ Telemetry \in DOMAIN c => TelemetryHolds(c, f, o, b, now)
  /\ \A m \in Month : History(m) \in DOMAIN c => MonthHolds(c, m, o, b, now)
  /\ ChLatest \in DOMAIN c => c[ChLatest] \in Latest /\ b.chLatest <= c[ChLatest] /\ f = "clickhouse"
  /\ Files \in DOMAIN c => Dump \in DOMAIN c /\ c[Dump].report \subseteq c[Files] /\ c[Files] \subseteq files
(* ... and that everything selected was read.                              *)
HasMonths(c, o, b) == \A m \in MonthsOf(Due(o, b.ch)) : History(m) \in DOMAIN c
Complete(c, f, o, b) ==
  /\ Dump \in DOMAIN c
  /\ Mode(o) # "none" => Telemetry \in DOMAIN c
  /\ f = "clickhouse" /\ Mode(o) # "none" => ChLatest \in DOMAIN c /\ HasMonths(c, o, b)
  /\ Mode(o) = "none" => Telemetry \notin DOMAIN c /\ ChLatest \notin DOMAIN c

(* A backup that is being made: what was read so far.                      *)
Making ==
  [kind : {"backup"}, options : Offered[flavor], excluded : SUBSET Month, todo : SUBSET Month, rows : Nat,
   counts : [Month -> Nat], staged : {job.staged}, before : Database]
BackupInv ==
  at \in BackupSteps \ {"write"} =>
    LET c == job.staged  o == job.options  b == job.before
    IN /\ job \in Making
       /\ Sound(flavor, b) /\ Kept(flavor, b, live)
       /\ Holds(c, flavor, o, b, Now, store)
       /\ at \in {"list", "dump"} => DOMAIN c = {}
       /\ at = "copy" => DOMAIN c = {Dump}
       /\ at \notin {"list", "dump", "files", "create"} => Mode(o) # "none"
       /\ at \in {"ch_list", "ch_count", "ch_export", "ch_latest"} =>
            flavor = "clickhouse" /\ {Dump, Telemetry} \subseteq DOMAIN c
       /\ at \in {"ch_count", "ch_export", "ch_latest"} =>
            \A m \in MonthsOf(Due(o, b.ch)) : m \in job.todo \/ History(m) \in DOMAIN c
       /\ at \in {"ch_count", "ch_export"} => job.todo # {}
       /\ at = "ch_latest" => job.todo = {}
       /\ at \in {"files", "create"} => Complete(c, flavor, o, b)

(* An archive, whole or not: all it lists was read.                        *)
Made(a, f) ==
  a \in [manifest : BOOLEAN, listed : {a.listed}, members : SUBSET a.listed, altered : SUBSET a.listed,
         finished : BOOLEAN, locked : {a.locked}, content : {a.content}, counts : [Month -> Nat],
         of : {f}, options : Offered[f], before : Database]
Backup(a, f, now, files) ==
  /\ Made(a, f) /\ a.listed = DOMAIN a.content
  /\ Sound(f, a.before)
  /\ Holds(a.content, f, a.options, a.before, now, files)
  /\ Complete(a.content, f, a.options, a.before)
ArchiveInv == archive # None \/ at = "write" => Backup(archive, flavor, Now, store)

(* What a restore has put into its database when it is done: everything    *)
(* but the latest values, which an operator may choose without the history *)
(* they are computed from.                                                 *)
HistoryRestored ==
  LET a == target.from  db == target.db
  IN /\ Mode(a.options) # "none" =>
          Covers(Due(a.options, HistoryOf(a.of, a.before)), HistoryOf(target.into, db))
     /\ Included(a.options, "reports") => a.before.report \subseteq db.report
     /\ db.device >= a.before.device
LatestRestored ==
  LET a == target.from
  IN Included(a.options, "telemetry_latest") =>
       LatestOf(target.into, target.db) >= LatestOf(a.of, a.before)
(* On ClickHouse, latest values are chosen with the whole history.         *)
WithHistory(o) == Included(o, "telemetry_latest") => Mode(o) = "all"

Target ==
  [db : Database, into : Flavors, from : {target.from}, files : {target.files}, done : BOOLEAN]
Unchanged(a) == target.db.report = a.content[Dump].report /\ target.db.device = a.content[Dump].device
(* Each step of a restore, from the archive that was verified.             *)
Verifying(a) == Backup(a, flavor, Now, store) /\ a.members = a.listed /\ a.altered = {}
Outcome(a) ==
  /\ Unchanged(a) /\ HistoryRestored
  /\ (a.of = "clickhouse" => WithHistory(a.options)) => LatestRestored
Stepping ==
  LET a == target.from  db == target.db
  IN /\ job.todo \subseteq Month
     /\ at # "read" => a # None
     /\ at \notin {"read", "load"} => Unchanged(a)
     /\ at \in {"telemetry", "import"} => SourceStore(a) = target.into
     /\ at \in {"telemetry", "convert"} =>
          db.latest = a.content[Dump].latest
     /\ at = "telemetry" => Telemetry \in a.listed /\ db.ch = {} /\ job.todo = HistoryMembers(a)
     /\ at = "import" =>
          /\ ChLatest \in a.listed /\ job.todo \subseteq HistoryMembers(a)
          /\ \A m \in HistoryMembers(a) : m \in job.todo \/ Covers(a.content[History(m)], db.ch)
     /\ at = "convert" => SourceStore(a) # target.into
     /\ at = "extract" => Outcome(a)
RestoreInv ==
  /\ target # None \/ at \in RestoreSteps =>
       target \in Target /\ (target.from # None => Verifying(target.from))
  /\ at = "read" => archive # None
  /\ at \in RestoreSteps =>
       job \in [kind : {"restore"}, password : {job.password}, todo : SUBSET Month] /\ ~target.done /\ Stepping
  /\ target # None /\ target.done =>
       /\ target.from # None /\ Outcome(target.from)
       /\ Files \in target.from.listed => target.db.report \subseteq target.files

Inv == LiveInv /\ at \in Steps \union {"idle"} /\ BackupInv /\ ArchiveInv /\ RestoreInv

----------------------------------------------------------------------------
(* Numbers and sets of them.                                               *)
LEMMA MinIs ==
  ASSUME NEW S \in SUBSET Nat, S # {}
  PROVE  Min(S) \in S /\ \A y \in S : Min(S) <= y
<1>1. PICK x \in S : \A y \in S : <<y, x>> \notin OpToRel(<, Nat)
  BY WFMin, NatLessThanWellFounded
<1>2. \A y \in S : ~(y < x)
  BY <1>1, Zenon DEF OpToRel
<1>3. \A y \in S : x <= y
  BY <1>2
<1> QED BY <1>3 DEF Min

LEMMA MaxIs ==
  ASSUME NEW S \in SUBSET Nat, S # {}, NEW n \in Nat, \A y \in S : y <= n
  PROVE  Max(S) \in S /\ \A y \in S : y <= Max(S)
<1> DEFINE Above == {k \in Nat : \A y \in S : y <= k}
           least == Min(Above)
<1>1. n \in Above
  OBVIOUS
<1>2. least \in Above /\ \A k \in Above : least <= k
  BY <1>1, MinIs
<1> HIDE DEF least
<1>3. ASSUME least \notin S
      PROVE  FALSE
  <2>1. \A y \in S : y <= least - 1
    BY <1>2, <1>3
  <2>2. least - 1 \in Nat
    <3>1. PICK y \in S : y <= least - 1
      BY <2>1
    <3> QED BY <1>2, <3>1
  <2> QED BY <1>2, <2>1, <2>2
<1>4. least \in S /\ \A y \in S : least >= y
  BY <1>2, <1>3
<1> QED BY <1>4 DEF Max

LEMMA NewestIs ==
  ASSUME NEW rows \in SUBSET Row, NEW n \in Nat, \A r \in rows : r[1] <= n
  PROVE  /\ Newest(rows) \in Latest
         /\ \A r \in rows : r[1] <= Newest(rows)
<1>1. Times(rows) \in SUBSET Nat /\ \A y \in Times(rows) : y <= n
  BY ArchiveAssumption DEF Times, Row
<1>2. CASE rows = {}
  BY <1>2 DEF Newest, Latest
<1>3. CASE rows # {}
  <2>1. Times(rows) # {} /\ Times(rows) \subseteq Time
    BY <1>3 DEF Times, Row
  <2>2. Max(Times(rows)) \in Times(rows) /\ \A y \in Times(rows) : y <= Max(Times(rows))
    BY <1>1, <2>1, MaxIs
  <2> QED BY <1>3, <2>1, <2>2 DEF Newest, Latest, Times
<1> QED BY <1>2, <1>3

LEMMA NewerIs ==
  ASSUME NEW a \in Latest, NEW b \in Latest
  PROVE  Newer(a, b) \in Latest /\ a <= Newer(a, b) /\ b <= Newer(a, b)
BY ArchiveAssumption DEF Newer, Latest

LEMMA Numbers == Latest \subseteq Nat /\ \A r \in Row : r[1] \in Nat /\ r[2] \in Nat
<1>1. Latest \subseteq Nat
  BY ArchiveAssumption DEF Latest
<1>2. ASSUME NEW r \in Row
      PROVE  r[1] \in Nat /\ r[2] \in Nat
  <2>1. r[1] \in Time /\ r[2] \in Version
    BY DEF Row
  <2>2. Time \subseteq Nat /\ Version \subseteq Nat
    BY ArchiveAssumption DEF Version
  <2> QED BY <2>1, <2>2
<1> QED BY <1>1, <1>2

----------------------------------------------------------------------------
(* Rows that cover others.                                                 *)
LEMMA CoversSubset ==
  ASSUME NEW rows \in SUBSET Row, NEW more, rows \subseteq more
  PROVE  Covers(rows, more)
BY DEF Covers, Row, Version

LEMMA CoversMore ==
  ASSUME NEW rows, NEW some, NEW more, Covers(rows, some), some \subseteq more
  PROVE  Covers(rows, more)
BY DEF Covers

LEMMA CoversTransitive ==
  ASSUME NEW A \in SUBSET Row, NEW B \in SUBSET Row, NEW C \in SUBSET Row, Covers(A, B), Covers(B, C)
  PROVE  Covers(A, C)
<1> SUFFICES ASSUME NEW r \in A
             PROVE  \E q \in C : q[1] = r[1] /\ q[2] >= r[2]
  BY DEF Covers
<1>1. PICK q \in B : q[1] = r[1] /\ q[2] >= r[2]
  BY DEF Covers
<1>2. PICK p \in C : p[1] = q[1] /\ p[2] >= q[2]
  BY DEF Covers
<1>3. p[1] = r[1] /\ p[2] >= r[2]
  BY <1>1, <1>2, ArchiveAssumption DEF Row, Version
<1> QED BY <1>3

(* Merged, the rows of every time are as new as before.                    *)
LEMMA CoversDistinct ==
  ASSUME NEW rows \in SUBSET Row
  PROVE  Covers(rows, Distinct(rows)) /\ Distinct(rows) \subseteq rows
<1> SUFFICES ASSUME NEW r \in rows
             PROVE  \E q \in Distinct(rows) : q[1] = r[1] /\ q[2] >= r[2]
  BY DEF Covers, Distinct
<1> DEFINE Versions == {q[2] : q \in {q \in rows : q[1] = r[1]}}
<1>1. Versions \in SUBSET Nat /\ r[2] \in Versions /\ \A v \in Versions : v <= MaxWrites
  BY ArchiveAssumption DEF Row, Version
<1>2. Max(Versions) \in Versions /\ \A v \in Versions : v <= Max(Versions)
  BY <1>1, MaxIs, ArchiveAssumption
<1>3. PICK q \in rows : q[1] = r[1] /\ q[2] = Max(Versions)
  BY <1>2
<1> HIDE DEF Versions
<1>4. q \in Distinct(rows)
  BY <1>2, <1>3 DEF Distinct, Versions
<1> QED BY <1>1, <1>2, <1>3, <1>4

LEMMA CoversDue ==
  ASSUME NEW A \in SUBSET Row, NEW B \in SUBSET Row, NEW o, Covers(A, B)
  PROVE  /\ Due(o, A) \subseteq A /\ Covers(Due(o, A), Due(o, B))
         /\ \A m \in Month : Covers(OfMonth(Due(o, A), m), OfMonth(B, m))
BY DEF Covers, Due, From, OfMonth

----------------------------------------------------------------------------
(* What was read stays what it is while the database and the files grow.   *)
LEMMA HoldsLater ==
  ASSUME NEW c, NEW f, NEW o, NEW b, NEW now \in Latest, NEW then \in Latest, now <= then,
         NEW files, NEW more, files \subseteq more, Holds(c, f, o, b, now, files)
  PROVE  Holds(c, f, o, b, then, more)
<1>1. Latest \subseteq Nat
  BY ArchiveAssumption DEF Latest
<1>2. ASSUME NEW rows \in SUBSET Row, \A r \in rows : r[1] <= now
      PROVE  \A r \in rows : r[1] <= then
  <2> SUFFICES ASSUME NEW r \in rows
               PROVE  r[1] <= then
    OBVIOUS
  <2>1. r[1] \in Nat /\ r[1] <= now
    BY <1>2, ArchiveAssumption DEF Row
  <2> QED BY <1>1, <2>1
<1>3. Telemetry \in DOMAIN c => TelemetryHolds(c, f, o, b, then)
  BY <1>2 DEF Holds, TelemetryHolds
<1>4. \A m \in Month : History(m) \in DOMAIN c => MonthHolds(c, m, o, b, then)
  BY <1>2 DEF Holds, MonthHolds
<1>5. Dump \in DOMAIN c => DumpHolds(c, f, o, b, more)
  BY DEF Holds, DumpHolds
<1> QED BY <1>3, <1>4, <1>5 DEF Holds

LEMMA BackupLater ==
  ASSUME NEW a, NEW f, NEW now \in Latest, NEW then \in Latest, now <= then,
         NEW files, NEW more, files \subseteq more, Backup(a, f, now, files)
  PROVE  Backup(a, f, then, more)
BY HoldsLater DEF Backup

LEMMA HistoryIs ==
  ASSUME NEW f, NEW db \in Database
  PROVE  HistoryOf(f, db) \in SUBSET Row /\ LatestOf(f, db) \in Latest /\ db.device \in Nat
BY ArchiveAssumption DEF HistoryOf, LatestOf, Database, Version

LEMMA KeptTransitive ==
  ASSUME NEW f, NEW b \in Database, NEW d \in Database, NEW e \in Database, Kept(f, b, d), Kept(f, d, e)
  PROVE  Kept(f, b, e)
<1>1. Latest \subseteq Nat
  BY ArchiveAssumption DEF Latest
<1>2. Covers(HistoryOf(f, b), HistoryOf(f, e))
  BY HistoryIs, CoversTransitive DEF Kept
<1>3. /\ LatestOf(f, b) \in Nat /\ LatestOf(f, d) \in Nat /\ LatestOf(f, e) \in Nat
      /\ b.device \in Nat /\ d.device \in Nat /\ e.device \in Nat
  BY <1>1, HistoryIs
<1>4. /\ LatestOf(f, b) <= LatestOf(f, d) /\ LatestOf(f, d) <= LatestOf(f, e)
      /\ b.device <= d.device /\ d.device <= e.device
  BY DEF Kept
<1>5. LatestOf(f, b) <= LatestOf(f, e) /\ b.device <= e.device
  BY <1>3, <1>4
<1> QED BY <1>2, <1>5 DEF Kept

LEMMA KeptSame ==
  ASSUME NEW f, NEW db \in Database
  PROVE  Kept(f, db, db)
<1>1. Latest \subseteq Nat
  BY ArchiveAssumption DEF Latest
<1>2. LatestOf(f, db) \in Nat /\ db.device \in Nat
  BY <1>1, HistoryIs
<1>3. LatestOf(f, db) <= LatestOf(f, db) /\ db.device <= db.device
  BY <1>2
<1> QED BY <1>3, HistoryIs, CoversSubset DEF Kept

----------------------------------------------------------------------------
(* SENTIENT and its databases while a job runs.                            *)
Growing ==
  LiveInv' /\ flavor' = flavor /\ Kept(flavor, live, live') /\ store \subseteq store'

LEMMA StoreInClickHouse ==
  ASSUME Inv, NEW t \in Time, Store(t), flavor = "clickhouse"
  PROVE  Growing
<1> DEFINE r == <<t, writes + 1>>
<1>1. /\ writes + 1 \in Version /\ writes' \in 0..MaxWrites /\ writes' = writes + 1 /\ r \in Row
      /\ live \in Database /\ IsFiniteSet(live.ch) /\ HasLatest(flavor, live) /\ live.ts_kv = {}
      /\ live' = [live EXCEPT !.ch = @ \union {r}, !.chLatest = Newer(@, t)]
      /\ flavor' = flavor /\ store' = store /\ live.report \subseteq store /\ flavor \in Flavors
  BY ArchiveAssumption DEF Inv, LiveInv, Sound, Store, Version, Row
<1>2. /\ live.chLatest \in Latest /\ t \in Latest /\ live.ch \subseteq Row
      /\ Newer(live.chLatest, t) \in Latest /\ live.chLatest <= Newer(live.chLatest, t)
      /\ t <= Newer(live.chLatest, t) /\ Newer(live.chLatest, t) \in {live.chLatest, t}
  <2>1. live.chLatest \in Latest /\ t \in Latest /\ live.ch \subseteq Row
    BY <1>1 DEF Database, Latest
  <2>2. Newer(live.chLatest, t) \in {live.chLatest, t}
    BY DEF Newer
  <2> QED BY <2>1, <2>2, NewerIs
<1> HIDE DEF r
<1>3. /\ live' \in Database /\ live'.ch = live.ch \union {r} /\ live'.chLatest = Newer(live.chLatest, t)
      /\ live'.ts_kv = {} /\ live'.report = live.report /\ live'.device = live.device
  BY <1>1, <1>2 DEF Database
<1>4. IsFiniteSet(live'.ch)
  BY <1>1, <1>3, FS_AddElement
<1>5. Latest \subseteq Nat /\ \A q \in Row : q[1] \in Nat /\ q[2] \in Nat
  BY Numbers
<1>6. HasLatest(flavor, live')
  <2>1. r \in live'.ch /\ r[1] = t
    BY <1>3 DEF r
  <2>2. ASSUME NEW q \in live'.ch
        PROVE  q[1] <= live'.chLatest
    <3>1. CASE q = r
      BY <1>2, <1>3, <2>1, <3>1
    <3>2. CASE q \in live.ch
      <4>1. q[1] <= live.chLatest /\ q[1] \in Nat
        BY <1>1, <1>2, <1>5, <3>2 DEF HasLatest, HistoryOf, LatestOf
      <4>2. live.chLatest \in Nat /\ live'.chLatest \in Nat /\ live.chLatest <= live'.chLatest
        BY <1>2, <1>3, <1>5
      <4> QED BY <4>1, <4>2
    <3> QED BY <1>3, <3>1, <3>2
  <2>3. live'.chLatest # 0 => \E q \in live'.ch : q[1] = live'.chLatest
    BY <1>1, <1>2, <1>3, <2>1 DEF HasLatest, HistoryOf, LatestOf
  <2> QED BY <2>2, <2>3 DEF HasLatest, HistoryOf, LatestOf
<1>7. Covers(live.ch, live'.ch)
  BY <1>2, <1>3, CoversSubset
<1>8. live.device <= live'.device /\ live'.device <= writes'
  <2>1. live.device \in Nat /\ live.device <= writes /\ writes \in Nat
    BY <1>1, HistoryIs DEF Inv, LiveInv
  <2> QED BY <1>1, <1>3, <2>1
<1> QED BY <1>1, <1>2, <1>3, <1>4, <1>6, <1>7, <1>8 DEF Growing, LiveInv, Sound, Kept, HistoryOf, LatestOf

LEMMA StoreInPostgres ==
  ASSUME Inv, NEW t \in Time, Store(t), flavor # "clickhouse"
  PROVE  Growing
<1> DEFINE r == <<t, writes + 1>>
           older == {q \in live.ts_kv : q[1] # t}
           parts == IF flavor = "stock" THEN live.parts \union {MonthOf[t]} ELSE live.parts
<1>1. /\ writes \in Version /\ writes + 1 \in Version /\ writes' \in 0..MaxWrites /\ writes' = writes + 1 /\ r \in Row
      /\ live \in Database /\ IsFiniteSet(live.ch) /\ HasLatest(flavor, live) /\ live.ch = {}
      /\ live' = [live EXCEPT !.ts_kv = older \union {r}, !.latest = Newer(@, t), !.parts = parts]
      /\ flavor' = flavor /\ store' = store /\ live.report \subseteq store /\ flavor \in Flavors
      /\ \A q \in Row : q[2] \in Nat
  BY ArchiveAssumption DEF Inv, LiveInv, Sound, Store, Version, Row
<1>2. /\ live.latest \in Latest /\ t \in Latest /\ live.ts_kv \subseteq Row
      /\ Newer(live.latest, t) \in Latest /\ live.latest <= Newer(live.latest, t)
      /\ t <= Newer(live.latest, t) /\ Newer(live.latest, t) \in {live.latest, t}
  <2>1. live.latest \in Latest /\ t \in Latest /\ live.ts_kv \subseteq Row
    BY <1>1 DEF Database, Latest
  <2>2. Newer(live.latest, t) \in {live.latest, t}
    BY DEF Newer
  <2> QED BY <2>1, <2>2, NewerIs
<1>p. parts \subseteq Month
  BY <1>1 DEF Database, Month
<1>q. r[1] = t /\ r[2] = writes + 1
  OBVIOUS
<1>r. flavor = "stock" => MonthsOf(older \union {r}) \subseteq parts /\ parts # {}
  BY DEF Inv, LiveInv, Sound, MonthsOf
<1> HIDE DEF r, parts
<1>3. /\ live' \in Database /\ live'.ts_kv = older \union {r} /\ live'.latest = Newer(live.latest, t)
      /\ live'.ch = {} /\ live'.report = live.report /\ live'.device = live.device /\ live'.parts = parts
  BY <1>1, <1>2, <1>p DEF Database
<1>5. Latest \subseteq Nat /\ \A q \in Row : q[1] \in Nat /\ q[2] \in Nat
  BY Numbers
<1>6. HasLatest(flavor, live')
  <2>2. ASSUME NEW q \in live'.ts_kv
        PROVE  q[1] <= live'.latest
    <3>1. CASE q = r
      BY <1>2, <1>3, <1>q, <3>1
    <3>2. CASE q \in older
      <4>1. q[1] <= live.latest /\ q[1] \in Nat
        BY <1>1, <1>2, <1>5, <3>2 DEF HasLatest, HistoryOf, LatestOf
      <4>2. live.latest \in Nat /\ live'.latest \in Nat /\ live.latest <= live'.latest
        BY <1>2, <1>3, <1>5
      <4> QED BY <4>1, <4>2
    <3> QED BY <1>3, <3>1, <3>2
  <2>3. live'.latest # 0 => \E q \in live'.ts_kv : q[1] = live'.latest
    BY <1>1, <1>2, <1>3, <1>q DEF HasLatest, HistoryOf, LatestOf
  <2> QED BY <2>2, <2>3 DEF HasLatest, HistoryOf, LatestOf
<1>7. Covers(live.ts_kv, live'.ts_kv)
  <2> SUFFICES ASSUME NEW q \in live.ts_kv
               PROVE  \E p \in live'.ts_kv : p[1] = q[1] /\ p[2] >= q[2]
    BY DEF Covers
  <2>1. CASE q[1] = t
    <3>1. q[2] <= writes /\ q[2] \in Nat /\ writes \in Nat
      BY <1>1, <1>2, <1>5 DEF Inv, LiveInv, Version
    <3>2. r \in live'.ts_kv /\ r[1] = q[1] /\ r[2] >= q[2]
      BY <1>3, <1>q, <2>1, <3>1
    <3> QED BY <3>2
  <2>2. CASE q[1] # t
    <3>1. q \in live'.ts_kv /\ q[2] \in Nat
      BY <1>2, <1>3, <1>5, <2>2
    <3> QED BY <3>1
  <2> QED BY <2>1, <2>2
<1>8. live.device <= live'.device /\ live'.device <= writes'
  <2>1. live.device \in Nat /\ live.device <= writes /\ writes \in Nat
    BY <1>1, HistoryIs DEF Inv, LiveInv
  <2> QED BY <1>1, <1>3, <2>1
<1>9. IsFiniteSet(live'.ch)
  BY <1>3, FS_EmptySet
<1>10. ASSUME NEW q \in live'.ts_kv
       PROVE  q[2] <= writes'
  <2>1. q = r \/ (q[2] <= writes /\ q[2] \in Nat)
    BY <1>2, <1>3, <1>5 DEF Inv, LiveInv
  <2> QED BY <1>1, <1>q, <2>1 DEF Version
<1> QED BY <1>1, <1>2, <1>3, <1>r, <1>6, <1>7, <1>8, <1>9, <1>10 DEF Growing, LiveInv, Sound, Kept, HistoryOf, LatestOf

LEMMA ReportAndConfigure ==
  ASSUME Inv, Report \/ Configure
  PROVE  Growing
<1>1. /\ writes \in Nat /\ writes + 1 \in Version /\ writes' = writes + 1 /\ writes' \in 0..MaxWrites
      /\ live \in Database /\ flavor' = flavor /\ live.device <= writes + 1 /\ live.device \in Nat
      /\ \A r \in live.ts_kv : r[2] <= writes /\ r[2] \in Nat
  <2>1. live.device \in Version /\ live.ts_kv \subseteq Row /\ live \in Database /\ writes \in Nat
    BY ArchiveAssumption DEF Inv, LiveInv, Sound, Database
  <2>2. \A r \in live.ts_kv : r[2] <= writes /\ r[2] \in Nat
    BY <2>1, Numbers DEF Inv, LiveInv
  <2>3. live.device \in Nat /\ live.device <= writes
    BY <2>1, HistoryIs DEF Inv, LiveInv
  <2>4. live.device <= writes + 1
    BY <2>1, <2>3
  <2> QED BY <2>1, <2>2, <2>3, <2>4, ArchiveAssumption DEF Inv, LiveInv, Report, Configure, Version
<1>2. /\ live' \in Database /\ live'.ts_kv = live.ts_kv /\ live'.ch = live.ch /\ live'.parts = live.parts
      /\ live'.latest = live.latest /\ live'.chLatest = live.chLatest
      /\ live.report \subseteq live'.report /\ live'.device \in {live.device, writes + 1}
      /\ live'.report \subseteq store' /\ store \subseteq store'
  BY <1>1 DEF Report, Configure, Database, Inv, LiveInv
<1>3. live.device <= live'.device /\ live'.device <= writes'
  BY <1>1, <1>2
<1>4. \A r \in live'.ts_kv : r[2] <= writes'
  <2> SUFFICES ASSUME NEW r \in live.ts_kv
               PROVE  r[2] <= writes'
    BY <1>2
  <2>1. r[2] <= writes /\ r[2] \in Nat
    BY <1>1
  <2> QED BY <1>1, <2>1
<1>5. Kept(flavor, live, live)
  BY <1>1, KeptSame
<1> QED BY <1>1, <1>2, <1>3, <1>4, <1>5
        DEF Growing, Inv, LiveInv, Sound, HasLatest, Kept, HistoryOf, LatestOf

LEMMA MergeKeeps ==
  ASSUME Inv, Merge
  PROVE  Growing
<1>1. /\ live \in Database /\ flavor' = flavor /\ live' = [live EXCEPT !.ch = Distinct(live.ch)]
      /\ store' = store /\ writes' = writes
  BY DEF Inv, LiveInv, Sound, Merge
<1>2. Covers(live.ch, Distinct(live.ch)) /\ Distinct(live.ch) \subseteq live.ch
  BY <1>1, CoversDistinct DEF Database
<1>3. /\ live' \in Database /\ live'.ts_kv = live.ts_kv /\ live'.ch = Distinct(live.ch)
      /\ live'.parts = live.parts /\ live'.latest = live.latest /\ live'.chLatest = live.chLatest
      /\ live'.report = live.report /\ live'.device = live.device
  BY <1>1, <1>2 DEF Database
<1>4. IsFiniteSet(live'.ch)
  BY <1>2, <1>3, FS_Subset DEF Inv, LiveInv, Sound
<1>5. Kept(flavor, live, live')
  BY <1>1, <1>2, <1>3, KeptSame DEF Kept, HistoryOf, LatestOf
<1>6. HasLatest(flavor, live')
  <2>1. CASE flavor = "clickhouse"
    <3>1. \A r \in live'.ch : r[1] <= live'.chLatest
      BY <1>2, <1>3, <2>1 DEF Inv, LiveInv, Sound, HasLatest, HistoryOf, LatestOf
    <3>2. ASSUME live'.chLatest # 0
          PROVE  \E r \in live'.ch : r[1] = live'.chLatest
      <4>1. PICK r \in live.ch : r[1] = live.chLatest
        BY <1>3, <2>1, <3>2 DEF Inv, LiveInv, Sound, HasLatest, HistoryOf, LatestOf
      <4> QED BY <1>2, <1>3, <4>1 DEF Covers
    <3> QED BY <2>1, <3>1, <3>2 DEF HasLatest, HistoryOf, LatestOf
  <2>2. CASE flavor # "clickhouse"
    BY <1>3, <2>2 DEF Inv, LiveInv, Sound, HasLatest, HistoryOf, LatestOf
  <2> QED BY <2>1, <2>2
<1>7. flavor # "clickhouse" => live'.ch = {}
  BY <1>2, <1>3 DEF Inv, LiveInv, Sound
<1> QED BY <1>1, <1>3, <1>4, <1>5, <1>6, <1>7 DEF Growing, Inv, LiveInv, Sound

(* While it grows, what the jobs have read and written stays what it is.   *)
LEMMA JobsStay ==
  ASSUME Inv, Growing, UNCHANGED <<at, job, archive, target>>
  PROVE  Inv'
<1>1. /\ Now \in Latest /\ Now' \in Latest /\ Now <= Now' /\ store \subseteq store' /\ flavor' = flavor
      /\ live \in Database /\ live' \in Database
  BY HistoryIs DEF Inv, LiveInv, Sound, Growing, Kept, Now
<1>2. \A a : Backup(a, flavor, Now, store) => Backup(a, flavor', Now', store')
  BY <1>1, BackupLater
<1>3. BackupInv'
  <2> SUFFICES ASSUME at \in BackupSteps \ {"write"}
               PROVE  BackupInv'
    BY DEF BackupInv
  <2>1. /\ Sound(flavor, job.before) /\ Kept(flavor, job.before, live)
        /\ Holds(job.staged, flavor, job.options, job.before, Now, store)
    BY DEF Inv, BackupInv
  <2>2. Holds(job.staged, flavor, job.options, job.before, Now', store')
    BY <1>1, <2>1, HoldsLater
  <2>3. Kept(flavor, job.before, live')
    BY <1>1, <2>1, KeptTransitive DEF Sound, Growing
  <2> QED BY <1>1, <2>1, <2>2, <2>3 DEF Inv, BackupInv, Making
<1>4. ArchiveInv'
  BY <1>2 DEF Inv, ArchiveInv
<1>5. RestoreInv'
  BY <1>1, <1>2 DEF Inv, RestoreInv, Target, Verifying, Stepping, Outcome, Unchanged, HistoryRestored, LatestRestored
<1> QED BY <1>3, <1>4, <1>5 DEF Inv, Growing

LEMMA SentientKeeps ==
  ASSUME Inv, SentientStep
  PROVE  Inv' /\ Growing
<1>1. UNCHANGED <<at, job, archive, target>>
  BY DEF SentientStep, Store, Report, Configure, Merge
<1>2. Growing
  BY StoreInClickHouse, StoreInPostgres, ReportAndConfigure, MergeKeeps DEF SentientStep
<1> QED BY <1>1, <1>2, JobsStay

----------------------------------------------------------------------------
(* The steps of a backup.                                                  *)
LEMMA BackupFrame ==
  ASSUME Inv, UNCHANGED <<flavor, live, store, writes, archive, target>>,
         at \notin RestoreSteps, at' \in (BackupSteps \ {"write"}) \union {"idle"}
  PROVE  LiveInv' /\ ArchiveInv' /\ RestoreInv' /\ at' \in Steps \union {"idle"} /\ Now' = Now
<1>1. LiveInv' /\ ArchiveInv' /\ Now' = Now
  BY DEF Inv, LiveInv, ArchiveInv, Now
<1>2. RestoreInv'
  BY <1>1 DEF Inv, RestoreInv, Target, Verifying, Outcome, Unchanged, HistoryRestored, LatestRestored,
     BackupSteps, RestoreSteps
<1> QED BY <1>1, <1>2 DEF Steps

LEMMA StagedIs ==
  ASSUME NEW n, NEW data
  PROVE  /\ DOMAIN Staged(n, data) = DOMAIN job.staged \union {n} /\ Staged(n, data)[n] = data
         /\ \A k \in DOMAIN job.staged : k # n => Staged(n, data)[k] = job.staged[k]
BY DEF Staged

(* One more member: what the others hold does not change.                  *)
LEMMA StagedHolds ==
  ASSUME NEW n, NEW data, NEW f, NEW o, NEW b, NEW now, NEW files,
         Holds(job.staged, f, o, b, now, files),
         n = Dump => DumpHolds(Staged(n, data), f, o, b, files) /\ Files \notin DOMAIN job.staged,
         n = Telemetry => TelemetryHolds(Staged(n, data), f, o, b, now),
         \A m \in Month : n = History(m) => MonthHolds(Staged(n, data), m, o, b, now),
         n = ChLatest => data \in Latest /\ b.chLatest <= data /\ f = "clickhouse",
         n = Files => Dump \in DOMAIN job.staged /\ job.staged[Dump].report \subseteq data /\ data \subseteq files
  PROVE  Holds(Staged(n, data), f, o, b, now, files)
<1> DEFINE c == Staged(n, data)
<1>1. /\ DOMAIN c = DOMAIN job.staged \union {n} /\ c[n] = data
      /\ \A k \in DOMAIN job.staged : k # n => c[k] = job.staged[k]
  <2>1. DOMAIN c = DOMAIN job.staged \union {n} /\ c[n] = data
    BY StagedIs
  <2>2. ASSUME NEW k \in DOMAIN job.staged, k # n
        PROVE  c[k] = job.staged[k]
    BY <2>2 DEF Staged
  <2> QED BY <2>1, <2>2
<1> HIDE DEF c
<1>2. Dump \in DOMAIN c => DumpHolds(c, f, o, b, files)
  BY <1>1 DEF Holds, DumpHolds, c
<1>3. Telemetry \in DOMAIN c => TelemetryHolds(c, f, o, b, now)
  BY <1>1 DEF Holds, TelemetryHolds, c
<1>4. ASSUME NEW m \in Month, History(m) \in DOMAIN c
      PROVE  MonthHolds(c, m, o, b, now)
  BY <1>1, <1>4 DEF Holds, MonthHolds, c
<1>5. ChLatest \in DOMAIN c => c[ChLatest] \in Latest /\ b.chLatest <= c[ChLatest] /\ f = "clickhouse"
  BY <1>1 DEF Holds
<1>6. Files \in DOMAIN c =>
        Dump \in DOMAIN c /\ c[Dump].report \subseteq c[Files] /\ c[Files] \subseteq files
  BY <1>1 DEF Holds, Dump, Files
<1> QED BY <1>2, <1>3, <1>4, <1>5, <1>6 DEF Holds, c

LEMMA Started ==
  ASSUME Inv, NEW o \in Offered[flavor], BeginBackup(o)
  PROVE  Inv'
<1>1. LiveInv' /\ ArchiveInv' /\ RestoreInv' /\ at' \in Steps \union {"idle"} /\ Now' = Now
  BY BackupFrame DEF BeginBackup, Go, sentient, BackupSteps, RestoreSteps
<1>2. at' = "list" /\ job' = NewBackup(o) /\ flavor' = flavor /\ live' = live /\ live \in Database
  BY DEF BeginBackup, Go, sentient, Inv, LiveInv, Sound
<1>3. job' \in Making' /\ DOMAIN job'.staged = {} /\ job'.before = live
  BY <1>2 DEF NewBackup, Making
<1>4. Kept(flavor, live, live) /\ Sound(flavor, live)
  BY <1>2, KeptSame DEF Inv, LiveInv
<1>5. BackupInv'
  BY <1>2, <1>3, <1>4 DEF BackupInv, Holds
<1> QED BY <1>1, <1>5 DEF Inv

LEMMA Listed ==
  ASSUME Inv, List
  PROVE  Inv'
<1>1. LiveInv' /\ ArchiveInv' /\ RestoreInv' /\ at' \in Steps \union {"idle"} /\ Now' = Now
  BY BackupFrame DEF List, Go, BackupStep, sentient, BackupSteps, RestoreSteps
<1>2. /\ at = "list" /\ at' = "dump" /\ UNCHANGED <<flavor, live, store>>
      /\ job' = [job EXCEPT !.excluded = live.parts] /\ live.parts \subseteq Month
  BY DEF List, Go, BackupStep, sentient, Inv, LiveInv, Sound, Database
<1>3. job \in Making
  BY <1>2 DEF Inv, BackupInv, BackupSteps
<1>4. job' \in Making' /\ job'.staged = job.staged /\ job'.options = job.options /\ job'.before = job.before
  BY <1>2, <1>3 DEF Making
<1>5. BackupInv'
  BY <1>1, <1>2, <1>4 DEF Inv, BackupInv, BackupSteps
<1> QED BY <1>1, <1>5 DEF Inv

(* What pg_dump leaves out, and what it does not.                          *)
LEMMA DumpHasSelected ==
  ASSUME Inv, at = "dump", NEW c, c[Dump] = Dumped(job.options, job.excluded)
  PROVE  DumpHolds(c, flavor, job.options, job.before, store)
<1> DEFINE o == job.options  b == job.before  d == Dumped(o, job.excluded)
<1>1. /\ live \in Database /\ live.report \subseteq store /\ (flavor = "stock" => live.parts # {})
      /\ Kept(flavor, b, live)
  BY DEF Inv, LiveInv, Sound, BackupInv, BackupSteps
<1>r. /\ live.latest \in Latest /\ live.report \subseteq Version /\ live.ts_kv \subseteq Row
      /\ live.parts \subseteq Month /\ live.device \in Version
  BY <1>1 DEF Database
<1>z. 0 \in Latest
  BY DEF Latest
<1>2. /\ d \in Database /\ d.ch = {} /\ d.parts = live.parts /\ d.device = live.device
      /\ flavor # "stock" => d.ts_kv = {}
      /\ d.report = IF "report" \in Omitted(o) THEN {} ELSE live.report
      /\ d.latest = IF "ts_kv_latest" \in Omitted(o) THEN 0 ELSE live.latest
  <2> DEFINE rows == IF flavor = "stock" THEN {r \in live.ts_kv : MonthOf[r[1]] \notin job.excluded} ELSE {}
             latest == IF "ts_kv_latest" \in Omitted(o) THEN 0 ELSE live.latest
             report == IF "report" \in Omitted(o) THEN {} ELSE live.report
  <2>1. rows \subseteq Row /\ latest \in Latest /\ report \subseteq Version /\ (flavor # "stock" => rows = {})
    BY <1>r, <1>z
  <2>2. d = [ts_kv |-> rows, parts |-> live.parts, ch |-> {}, latest |-> latest, chLatest |-> 0,
             report |-> report, device |-> live.device]
    BY <1>1 DEF Dumped, Database
  <2> HIDE DEF rows, latest, report, d
  <2>3. d \in Database /\ d.ch = {} /\ d.parts = live.parts /\ d.device = live.device
        /\ d.ts_kv = rows /\ d.report = report /\ d.latest = latest
    BY <1>r, <1>z, <2>1, <2>2 DEF Database
  <2> QED BY <2>1, <2>3 DEF report, latest
<1>3. /\ Included(o, "reports") => "report" \notin Omitted(o)
      /\ Included(o, "telemetry_latest") => "ts_kv_latest" \notin Omitted(o)
  BY DEF Omitted, Catalog, Categories
<1>4. c[Dump] = d
  OBVIOUS
<1> HIDE DEF d
<1>5. /\ b.device <= d.device
      /\ Included(o, "reports") => b.report \subseteq d.report
      /\ Included(o, "telemetry_latest") /\ flavor # "clickhouse" => b.latest <= d.latest
  BY <1>1, <1>2, <1>3 DEF Kept, LatestOf
<1>6. d.report \subseteq store /\ (flavor = "stock" => d.parts # {})
  BY <1>1, <1>2
<1> QED BY <1>2, <1>4, <1>5, <1>6 DEF DumpHolds

LEMMA DumpMade ==
  ASSUME Inv, DumpDatabase
  PROVE  Inv'
<1> DEFINE o == job.options  b == job.before  d == Dumped(o, job.excluded)  c == Staged(Dump, d)
<1>1. LiveInv' /\ ArchiveInv' /\ RestoreInv' /\ at' \in Steps \union {"idle"} /\ Now' = Now
  BY BackupFrame DEF DumpDatabase, Go, BackupStep, sentient, BackupSteps, RestoreSteps
<1>2. /\ at = "dump" /\ UNCHANGED <<flavor, live, store>> /\ job' = [job EXCEPT !.staged = c]
      /\ at' = IF Mode(o) = "none" THEN "files" ELSE "copy"
  BY DEF DumpDatabase, Go, BackupStep, sentient
<1>3. /\ job \in Making /\ DOMAIN job.staged = {} /\ Holds(job.staged, flavor, o, b, Now, store)
      /\ Sound(flavor, b) /\ Kept(flavor, b, live)
  BY <1>2 DEF Inv, BackupInv, BackupSteps
<1>4. DOMAIN c = {Dump} /\ c[Dump] = d
  BY <1>3, StagedIs, ZenonT(60)
<1>5. DumpHolds(c, flavor, o, b, store)
  BY <1>2, <1>4, DumpHasSelected
<1>6. Holds(c, flavor, o, b, Now, store)
  BY <1>3, <1>5, StagedHolds DEF Dump, Telemetry, History, ChLatest, Files
<1> HIDE DEF c
<1>7. job' \in Making' /\ job'.staged = c /\ job'.options = o /\ job'.before = b
  BY <1>2, <1>3 DEF Making
<1>8. Mode(o) = "none" => Complete(c, flavor, o, b)
  BY <1>4 DEF Complete, Dump, Telemetry, ChLatest
<1>9. BackupInv'
  BY <1>1, <1>2, <1>3, <1>4, <1>6, <1>7, <1>8 DEF BackupInv
<1> QED BY <1>1, <1>9 DEF Inv

LEMMA Copied ==
  ASSUME Inv, CopyTelemetry
  PROVE  Inv'
<1> DEFINE o == job.options  b == job.before  rows == TelemetryRows(o)  c == Staged(Telemetry, rows)
<1>1. LiveInv' /\ ArchiveInv' /\ RestoreInv' /\ at' \in Steps \union {"idle"} /\ Now' = Now
  BY BackupFrame DEF CopyTelemetry, Go, BackupStep, sentient, BackupSteps, RestoreSteps
<1>2. /\ at = "copy" /\ UNCHANGED <<flavor, live, store>> /\ job' = [job EXCEPT !.staged = c]
      /\ at' = IF flavor = "clickhouse" THEN "ch_list" ELSE "files"
  BY DEF CopyTelemetry, Go, BackupStep, sentient
<1>3. /\ job \in Making /\ DOMAIN job.staged = {Dump} /\ Holds(job.staged, flavor, o, b, Now, store)
      /\ Sound(flavor, b) /\ Kept(flavor, b, live) /\ Mode(o) # "none" /\ b \in Database
  BY <1>2 DEF Inv, BackupInv, BackupSteps, Sound
<1>4. DOMAIN c = {Dump, Telemetry} /\ c[Telemetry] = rows
  <2>1. DOMAIN c = DOMAIN job.staged \union {Telemetry} /\ c[Telemetry] = rows
    BY StagedIs
  <2> QED BY <1>3, <2>1
<1>5. /\ live.ts_kv \subseteq Row /\ Sound(flavor, live) /\ rows = Due(o, live.ts_kv) /\ rows \subseteq live.ts_kv
      /\ b.ts_kv \subseteq Row
  BY <1>3 DEF Inv, LiveInv, Sound, Database, TelemetryRows, Due, From
<1> HIDE DEF rows
<1>6. TelemetryHolds(c, flavor, o, b, Now)
  <2>1. \A r \in rows : r[1] <= Now
    BY <1>5 DEF Sound, HasLatest, Now, HistoryOf, LatestOf
  <2>2. flavor # "clickhouse" => Covers(Due(o, b.ts_kv), rows)
    BY <1>3, <1>5, CoversDue DEF Kept, HistoryOf
  <2> QED BY <1>4, <1>5, <2>1, <2>2 DEF TelemetryHolds
<1> HIDE DEF c
<1>7. Holds(c, flavor, o, b, Now, store)
  BY <1>3, <1>6, StagedHolds DEF Dump, Telemetry, History, ChLatest, Files, c
<1>8. job' \in Making' /\ job'.staged = c /\ job'.options = o /\ job'.before = b
  BY <1>2, <1>3 DEF Making
<1>9. flavor # "clickhouse" => Complete(c, flavor, o, b)
  BY <1>3, <1>4 DEF Complete
<1>10. BackupInv'
  BY <1>1, <1>2, <1>3, <1>4, <1>7, <1>8, <1>9 DEF BackupInv
<1> QED BY <1>1, <1>10 DEF Inv

(* The months there were when the backup began are among those there are.  *)
LEMMA MonthsKept ==
  ASSUME NEW o, NEW b \in Database, NEW d \in Database, Covers(b.ch, d.ch)
  PROVE  \A m \in MonthsOf(Due(o, b.ch)) :
           m \in Month /\ m \in MonthsOf(d.ch) /\ (Mode(o) = "last" => m >= MonthOf[Since])
<1> SUFFICES ASSUME NEW r \in Due(o, b.ch)
             PROVE  LET m == MonthOf[r[1]]
                    IN m \in Month /\ m \in MonthsOf(d.ch) /\ (Mode(o) = "last" => m >= MonthOf[Since])
  BY DEF MonthsOf
<1>1. r \in b.ch /\ r[1] \in Time /\ (Mode(o) = "last" => r[1] >= Since)
  BY DEF Due, From, Database, Row
<1>2. MonthOf[r[1]] \in Month /\ MonthOf[r[1]] \in MonthsOf(d.ch)
  BY <1>1 DEF Month, Covers, MonthsOf
<1>3. Mode(o) = "last" => MonthOf[r[1]] >= MonthOf[Since]
  <2>1. r[1] \in Nat /\ Since \in Nat /\ MonthOf[r[1]] \in Nat /\ MonthOf[Since] \in Nat
    BY <1>1, ArchiveAssumption
  <2>2. Since <= r[1] => MonthOf[Since] <= MonthOf[r[1]]
    BY <1>1, ArchiveAssumption
  <2> QED BY <1>1, <2>1, <2>2
<1> QED BY <1>2, <1>3

LEMMA MonthsListed ==
  ASSUME Inv, ListMonths
  PROVE  Inv'
<1> DEFINE o == job.options  b == job.before
           todo == {m \in MonthsOf(live.ch) : Mode(o) = "last" => m >= MonthOf[Since]}
<1>1. LiveInv' /\ ArchiveInv' /\ RestoreInv' /\ at' \in Steps \union {"idle"} /\ Now' = Now
  BY BackupFrame DEF ListMonths, Go, NextMonth, BackupStep, sentient, BackupSteps, RestoreSteps
<1>2. /\ at = "ch_list" /\ UNCHANGED <<flavor, live, store>> /\ job' = [job EXCEPT !.todo = todo]
      /\ at' = IF todo = {} THEN "ch_latest" ELSE "ch_count"
  BY DEF ListMonths, Go, NextMonth, BackupStep, sentient
<1>3. /\ job \in Making /\ Kept(flavor, b, live) /\ flavor = "clickhouse" /\ b \in Database /\ live \in Database
      /\ Mode(o) # "none"
  BY <1>2 DEF Inv, BackupInv, BackupSteps, LiveInv, Sound
<1>4. todo \subseteq Month
  BY <1>3 DEF MonthsOf, Database, Row, Month
<1>5. \A m \in MonthsOf(Due(o, b.ch)) : m \in todo
  BY <1>3, MonthsKept DEF Kept, HistoryOf
<1> HIDE DEF todo
<1>6. /\ job' \in Making' /\ job'.staged = job.staged /\ job'.options = o /\ job'.before = b /\ job'.todo = todo
  BY <1>2, <1>3, <1>4 DEF Making
<1>7. BackupInv'
  BY <1>1, <1>2, <1>3, <1>5, <1>6 DEF Inv, BackupInv, BackupSteps
<1> QED BY <1>1, <1>7 DEF Inv

LEMMA MonthCounted ==
  ASSUME Inv, CountMonth
  PROVE  Inv'
<1>1. LiveInv' /\ ArchiveInv' /\ RestoreInv' /\ at' \in Steps \union {"idle"} /\ Now' = Now
  BY BackupFrame DEF CountMonth, Go, BackupStep, sentient, BackupSteps, RestoreSteps
<1>2. /\ at = "ch_count" /\ at' = "ch_export" /\ UNCHANGED <<flavor, live, store>>
      /\ job' = [job EXCEPT !.rows = Cardinality(OfMonth(live.ch, Min(job.todo)))]
  BY DEF CountMonth, Go, BackupStep, sentient
<1>3. job \in Making /\ IsFiniteSet(live.ch)
  BY <1>2 DEF Inv, BackupInv, BackupSteps, LiveInv, Sound
<1>4. Cardinality(OfMonth(live.ch, Min(job.todo))) \in Nat
  BY <1>3, FS_Subset, FS_CardinalityType DEF OfMonth
<1>5. /\ job' \in Making' /\ job'.staged = job.staged /\ job'.options = job.options /\ job'.before = job.before
      /\ job'.todo = job.todo
  BY <1>2, <1>3, <1>4 DEF Making
<1>6. BackupInv'
  BY <1>1, <1>2, <1>5 DEF Inv, BackupInv, BackupSteps
<1> QED BY <1>1, <1>6 DEF Inv

LEMMA MonthExported ==
  ASSUME Inv, ExportMonth
  PROVE  Inv'
<1> DEFINE o == job.options  b == job.before  m == Min(job.todo)
           rows == OfMonth(live.ch, m)  c == Staged(History(m), rows)
<1>1. LiveInv' /\ ArchiveInv' /\ RestoreInv' /\ at' \in Steps \union {"idle"} /\ Now' = Now
  BY BackupFrame DEF ExportMonth, Go, NextMonth, BackupStep, sentient, BackupSteps, RestoreSteps
<1>2. /\ at = "ch_export" /\ UNCHANGED <<flavor, live, store>>
      /\ job' = [job EXCEPT !.todo = @ \ {m}, !.counts[m] = job.rows, !.rows = 0, !.staged = c]
      /\ at' = IF job.todo \ {m} = {} THEN "ch_latest" ELSE "ch_count"
  BY DEF ExportMonth, Go, NextMonth, BackupStep, sentient
<1>3. /\ job \in Making /\ Holds(job.staged, flavor, o, b, Now, store) /\ Sound(flavor, b) /\ Kept(flavor, b, live)
      /\ flavor = "clickhouse" /\ Mode(o) # "none" /\ {Dump, Telemetry} \subseteq DOMAIN job.staged
      /\ \A k \in MonthsOf(Due(o, b.ch)) : k \in job.todo \/ History(k) \in DOMAIN job.staged
      /\ b \in Database /\ live \in Database /\ Sound(flavor, live)
  BY <1>2 DEF Inv, BackupInv, BackupSteps, LiveInv, Sound
<1>4. DOMAIN c = DOMAIN job.staged \union {History(m)} /\ c[History(m)] = rows
  BY StagedIs
<1>5. MonthHolds(c, m, o, b, Now)
  <2>1. rows \subseteq live.ch /\ live.ch \subseteq Row /\ b.ch \subseteq Row
    BY <1>3 DEF OfMonth, Database
  <2>2. IsFiniteSet(rows) /\ \A r \in rows : r[1] <= Now
    BY <1>3, <2>1, FS_Subset DEF Sound, HasLatest, Now, HistoryOf, LatestOf
  <2>3. Covers(OfMonth(Due(o, b.ch), m), rows)
    BY <1>3, <2>1 DEF Covers, Due, From, OfMonth, Kept, HistoryOf
  <2> QED BY <1>4, <2>1, <2>2, <2>3 DEF MonthHolds
<1> HIDE DEF c, rows
<1>6. \A k : History(m) = History(k) => m = k
  BY DEF History
<1> HIDE DEF m
<1>7. Holds(c, flavor, o, b, Now, store)
  BY <1>3, <1>5, <1>6, StagedHolds DEF Dump, Telemetry, History, ChLatest, Files, c
<1>8. \A k \in MonthsOf(Due(o, b.ch)) : k \in job.todo \ {m} \/ History(k) \in DOMAIN c
  BY <1>3, <1>4
<1>9. /\ job' \in Making' /\ job'.staged = c /\ job'.options = o /\ job'.before = b
      /\ job'.todo = job.todo \ {m}
  BY <1>2, <1>3 DEF Making
<1>10. BackupInv'
  BY <1>1, <1>2, <1>3, <1>4, <1>7, <1>8, <1>9 DEF BackupInv
<1> QED BY <1>1, <1>10 DEF Inv

LEMMA LatestExported ==
  ASSUME Inv, ExportLatest
  PROVE  Inv'
<1> DEFINE o == job.options  b == job.before  c == Staged(ChLatest, live.chLatest)
<1>1. LiveInv' /\ ArchiveInv' /\ RestoreInv' /\ at' \in Steps \union {"idle"} /\ Now' = Now
  BY BackupFrame DEF ExportLatest, Go, BackupStep, sentient, BackupSteps, RestoreSteps
<1>2. /\ at = "ch_latest" /\ at' = "files" /\ UNCHANGED <<flavor, live, store>>
      /\ job' = [job EXCEPT !.staged = c]
  BY DEF ExportLatest, Go, BackupStep, sentient
<1>3. /\ job \in Making /\ Holds(job.staged, flavor, o, b, Now, store) /\ Sound(flavor, b) /\ Kept(flavor, b, live)
      /\ flavor = "clickhouse" /\ Mode(o) # "none" /\ {Dump, Telemetry} \subseteq DOMAIN job.staged
      /\ \A k \in MonthsOf(Due(o, b.ch)) : History(k) \in DOMAIN job.staged
      /\ live.chLatest \in Latest /\ b.chLatest <= live.chLatest
  BY <1>2 DEF Inv, BackupInv, BackupSteps, LiveInv, Sound, Database, Kept, LatestOf
<1>4. DOMAIN c = DOMAIN job.staged \union {ChLatest}
  BY StagedIs
<1>5. Holds(c, flavor, o, b, Now, store)
  BY <1>3, StagedHolds DEF Dump, Telemetry, History, ChLatest, Files
<1> HIDE DEF c
<1>6. Complete(c, flavor, o, b)
  BY <1>3, <1>4 DEF Complete, HasMonths
<1>7. job' \in Making' /\ job'.staged = c /\ job'.options = o /\ job'.before = b
  BY <1>2, <1>3 DEF Making
<1>8. BackupInv'
  BY <1>1, <1>2, <1>3, <1>5, <1>6, <1>7 DEF BackupInv
<1> QED BY <1>1, <1>8 DEF Inv

LEMMA FilesArchived ==
  ASSUME Inv, ArchiveFiles
  PROVE  Inv'
<1> DEFINE o == job.options  b == job.before  c == Staged(Files, store)
<1>1. LiveInv' /\ ArchiveInv' /\ RestoreInv' /\ at' \in Steps \union {"idle"} /\ Now' = Now
  BY BackupFrame DEF ArchiveFiles, Go, BackupStep, sentient, BackupSteps, RestoreSteps
<1>2. /\ at = "files" /\ at' = "create" /\ UNCHANGED <<flavor, live, store>>
      /\ job' = job \/ job' = [job EXCEPT !.staged = c]
  BY DEF ArchiveFiles, Go, BackupStep, sentient
<1>3. /\ job \in Making /\ Holds(job.staged, flavor, o, b, Now, store) /\ Sound(flavor, b) /\ Kept(flavor, b, live)
      /\ Complete(job.staged, flavor, o, b)
  BY <1>2 DEF Inv, BackupInv, BackupSteps
<1>4. DOMAIN c = DOMAIN job.staged \union {Files}
  BY StagedIs
<1>5. Dump \in DOMAIN job.staged /\ job.staged[Dump].report \subseteq store
  BY <1>3 DEF Complete, Holds, DumpHolds
<1>6. Holds(c, flavor, o, b, Now, store)
  BY <1>3, <1>5, StagedHolds DEF Dump, Telemetry, History, ChLatest, Files
<1> HIDE DEF c
<1>7. Complete(c, flavor, o, b)
  BY <1>3, <1>4 DEF Complete, HasMonths, Telemetry, ChLatest, Files
<1>8. /\ job' \in Making' /\ job'.options = o /\ job'.before = b
      /\ Holds(job'.staged, flavor, o, b, Now, store) /\ Complete(job'.staged, flavor, o, b)
  <2>1. CASE job' = job
    BY <1>2, <1>3, <2>1 DEF Making
  <2>2. CASE job' = [job EXCEPT !.staged = c]
    <3>1. job' \in Making' /\ job'.options = o /\ job'.before = b /\ job'.staged = c
      BY <1>2, <1>3, <2>2 DEF Making
    <3> QED BY <3>1, <1>6, <1>7
  <2> QED BY <1>2, <2>1, <2>2
<1>9. BackupInv'
  BY <1>1, <1>2, <1>3, <1>8 DEF BackupInv
<1> QED BY <1>1, <1>9 DEF Inv

(* The archive lists what was read.                                        *)
LEMMA Created ==
  ASSUME Inv, CreateArchive
  PROVE  Inv'
<1> DEFINE o == job.options  b == job.before
<1>1. /\ at = "create" /\ at' = "write" /\ UNCHANGED <<flavor, live, store, writes, target>>
      /\ archive' = [manifest |-> FALSE, listed |-> DOMAIN job.staged, members |-> {}, altered |-> {},
           finished |-> FALSE, locked |-> o.locked, content |-> job.staged, counts |-> job.counts,
           of |-> flavor, options |-> o, before |-> b]
  BY DEF CreateArchive, Go, sentient
<1>2. /\ job \in Making /\ Holds(job.staged, flavor, o, b, Now, store) /\ Sound(flavor, b)
      /\ Complete(job.staged, flavor, o, b)
  BY <1>1 DEF Inv, BackupInv, BackupSteps
<1>3. job.counts \in [Month -> Nat] /\ o \in Offered[flavor] /\ b \in Database
  BY <1>2 DEF Making
<1>4. Made(archive', flavor)
  BY <1>1, <1>3 DEF Made
<1>5. Backup(archive', flavor, Now, store)
  BY <1>1, <1>2, <1>4 DEF Backup
<1>6. LiveInv' /\ Now' = Now
  BY <1>1 DEF Inv, LiveInv, Now
<1>7. RestoreInv'
  BY <1>1, <1>6 DEF Inv, RestoreInv, Target, Verifying, Outcome, Unchanged, HistoryRestored, LatestRestored,
     BackupSteps, RestoreSteps
<1> QED BY <1>1, <1>5, <1>6, <1>7 DEF Inv, BackupInv, ArchiveInv, Steps, BackupSteps

LEMMA NextMember ==
  ASSUME Unwritten # {}
  PROVE  MemberSeq[Min(Unwritten)] \in archive.listed
<1>1. Unwritten \in SUBSET Nat
  BY DEF Unwritten
<1> QED BY <1>1, MinIs DEF Unwritten

LEMMA Written ==
  ASSUME Inv, WriteArchive
  PROVE  Inv'
<1>1. /\ at = "write" /\ at' \in {"write", "idle"} /\ UNCHANGED <<flavor, live, store, writes, target>>
      /\ \/ archive' = [archive EXCEPT !.manifest = TRUE]
         \/ Unwritten # {} /\ archive' = [archive EXCEPT !.members = @ \union {MemberSeq[Min(Unwritten)]}]
         \/ archive' = [archive EXCEPT !.finished = TRUE]
  BY DEF WriteArchive, End, sentient
<1>2. Backup(archive, flavor, Now, store)
  BY <1>1 DEF Inv, ArchiveInv
<1>3. Made(archive, flavor) /\ (Unwritten # {} => MemberSeq[Min(Unwritten)] \in archive.listed)
  BY <1>2, NextMember DEF Backup
<1>4. /\ Made(archive', flavor) /\ archive'.listed = archive.listed /\ archive'.content = archive.content
      /\ archive'.options = archive.options /\ archive'.before = archive.before
  <2>1. CASE archive' = [archive EXCEPT !.manifest = TRUE]
    BY <1>1, <1>3, <2>1 DEF Made
  <2>2. CASE Unwritten # {} /\ archive' = [archive EXCEPT !.members = @ \union {MemberSeq[Min(Unwritten)]}]
    <3> DEFINE n == MemberSeq[Min(Unwritten)]
    <3>1. n \in archive.listed
      BY <1>3, <2>2
    <3> HIDE DEF n
    <3>2. archive' = [archive EXCEPT !.members = @ \union {n}]
      BY <2>2 DEF n
    <3> QED BY <1>1, <1>3, <3>1, <3>2 DEF Made
  <2>3. CASE archive' = [archive EXCEPT !.finished = TRUE]
    BY <1>1, <1>3, <2>3 DEF Made
  <2> QED BY <1>1, <2>1, <2>2, <2>3
<1>5. Backup(archive', flavor, Now, store)
  BY <1>2, <1>4 DEF Backup
<1>6. LiveInv' /\ Now' = Now
  BY <1>1 DEF Inv, LiveInv, Now
<1>7. RestoreInv'
  BY <1>1, <1>6 DEF Inv, RestoreInv, Target, Verifying, Outcome, Unchanged, HistoryRestored, LatestRestored,
     BackupSteps, RestoreSteps
<1> QED BY <1>1, <1>5, <1>6, <1>7 DEF Inv, BackupInv, ArchiveInv, Steps, BackupSteps

LEMMA Damaged ==
  ASSUME Inv, NEW n, Damage(n)
  PROVE  Inv'
<1>1. /\ at = "idle" /\ at' = "idle" /\ UNCHANGED <<flavor, live, store, writes, target>>
      /\ archive # None /\ n \in archive.members /\ archive' = [archive EXCEPT !.altered = @ \union {n}]
  BY DEF Damage, sentient
<1>2. Backup(archive, flavor, Now, store)
  BY <1>1 DEF Inv, ArchiveInv
<1>3. Made(archive, flavor) /\ n \in archive.listed
  BY <1>1, <1>2 DEF Backup, Made
<1>4. /\ Made(archive', flavor) /\ archive'.listed = archive.listed /\ archive'.content = archive.content
      /\ archive'.options = archive.options /\ archive'.before = archive.before
  BY <1>1, <1>3 DEF Made
<1>5. Backup(archive', flavor, Now, store)
  BY <1>2, <1>4 DEF Backup
<1>6. LiveInv' /\ Now' = Now
  BY <1>1 DEF Inv, LiveInv, Now
<1>7. RestoreInv'
  BY <1>1, <1>6 DEF Inv, RestoreInv, Target, Verifying, Outcome, Unchanged, HistoryRestored, LatestRestored,
     RestoreSteps
<1> QED BY <1>1, <1>5, <1>6, <1>7 DEF Inv, BackupInv, ArchiveInv, BackupSteps

(* A call fails, or the manager is killed.                                 *)
LEMMA Stopped ==
  ASSUME Inv, at \in Steps, End("failed") \/ End("unreadable") \/ End("refused"),
         UNCHANGED <<flavor, live, store, writes, archive, target>>
  PROVE  Inv'
<1>1. LiveInv' /\ Now' = Now /\ ArchiveInv' /\ at' = "idle"
  BY DEF Inv, LiveInv, Now, ArchiveInv, End
<1>2. RestoreInv'
  BY <1>1 DEF Inv, RestoreInv, Target, Verifying, Outcome, Unchanged, HistoryRestored, LatestRestored,
     RestoreSteps
<1> QED BY <1>1, <1>2 DEF Inv, BackupInv, BackupSteps

----------------------------------------------------------------------------
(* The steps of a restore.                                                 *)
LEMMA RestoreBegun ==
  ASSUME Inv, NEW into \in Flavors, NEW password \in BOOLEAN, BeginRestore(into, password)
  PROVE  Inv'
<1>1. /\ at' = "read" /\ archive # None /\ UNCHANGED <<flavor, live, store, writes, archive>>
      /\ job' = [kind |-> "restore", password |-> password, todo |-> {}]
      /\ target' = [db |-> Nothing, into |-> into, from |-> None, files |-> {}, done |-> FALSE]
  BY DEF BeginRestore, Go, sentient
<1>2. LiveInv' /\ Now' = Now /\ ArchiveInv'
  BY <1>1 DEF Inv, LiveInv, Now, ArchiveInv
<1>3. Nothing \in Database
  BY ArchiveAssumption DEF Nothing, Database, Latest, Version
<1>4. target' \in Target'
  BY <1>1, <1>3 DEF Target
<1>5. RestoreInv'
  BY <1>1, <1>4 DEF RestoreInv, Stepping
<1> QED BY <1>1, <1>2, <1>5 DEF Inv, BackupInv, BackupSteps, Steps, RestoreSteps

LEMMA RestoreFrame ==
  ASSUME Inv, UNCHANGED <<flavor, live, store, writes, archive>>,
         at \in RestoreSteps, at' \in RestoreSteps \union {"idle"}
  PROVE  /\ LiveInv' /\ ArchiveInv' /\ BackupInv' /\ at' \in Steps \union {"idle"} /\ Now' = Now
         /\ target \in Target /\ (target.from # None => Verifying(target.from)) /\ ~target.done /\ Stepping
         /\ job \in [kind : {"restore"}, password : {job.password}, todo : SUBSET Month]
<1>1. LiveInv' /\ ArchiveInv' /\ Now' = Now
  BY DEF Inv, LiveInv, ArchiveInv, Now, RestoreSteps
<1>2. BackupInv'
  BY DEF BackupInv, BackupSteps, RestoreSteps
<1> QED BY <1>1, <1>2 DEF Inv, RestoreInv, Steps

LEMMA Refused ==
  ASSUME Inv, at \in RestoreSteps, Refuse("unreadable") \/ Refuse("refused"),
         UNCHANGED <<flavor, live, store, writes, archive>>
  PROVE  Inv'
BY Stopped DEF Refuse, Steps

LEMMA ArchiveRead ==
  ASSUME Inv, ReadArchive
  PROVE  Inv'
<1>1. /\ at = "read" /\ archive # None /\ UNCHANGED <<flavor, live, store, writes, archive>>
      /\ Refuse("unreadable") \/ (/\ Verified(archive) /\ at' = "load" /\ job' = job
                                  /\ target' = [target EXCEPT !.from = archive])
  BY DEF ReadArchive, Go, RestoreRest, Inv, RestoreInv
<1>2. CASE Refuse("unreadable")
  BY <1>1, <1>2, Refused DEF RestoreSteps
<1>3. CASE /\ Verified(archive) /\ at' = "load" /\ job' = job
           /\ target' = [target EXCEPT !.from = archive]
  <2>1. /\ LiveInv' /\ ArchiveInv' /\ BackupInv' /\ at' \in Steps \union {"idle"} /\ Now' = Now
        /\ target \in Target /\ ~target.done /\ Stepping
        /\ job \in [kind : {"restore"}, password : {job.password}, todo : SUBSET Month]
    BY <1>1, <1>3, RestoreFrame DEF RestoreSteps
  <2>2. Backup(archive, flavor, Now, store)
    BY <1>1 DEF Inv, ArchiveInv
  <2>3. archive.members = archive.listed /\ archive.altered = {}
    BY <1>3, <2>2 DEF Backup, Made, Verified
  <2>4. target' \in Target' /\ target'.from = archive /\ ~target'.done
    BY <1>1, <1>3, <2>1 DEF Target
  <2>5. RestoreInv'
    BY <1>1, <1>3, <2>1, <2>2, <2>3, <2>4 DEF RestoreInv, Verifying, Stepping
  <2> QED BY <2>1, <2>5 DEF Inv
<1> QED BY <1>1, <1>2, <1>3

(* Where the history of an archive was, and where it goes.                 *)
LEMMA SourceIs ==
  ASSUME NEW a, NEW f, NEW now, NEW files, Backup(a, f, now, files)
  PROVE  /\ a.of = f /\ a.listed = DOMAIN a.content /\ Dump \in a.listed
         /\ SourceStore(a) = "clickhouse" <=> ChLatest \in a.listed
         /\ ChLatest \in a.listed => f = "clickhouse" /\ Mode(a.options) # "none"
         /\ f = "clickhouse" /\ Mode(a.options) # "none" => ChLatest \in a.listed
         /\ SourceStore(a) \in Flavors /\ ChLatest \notin a.listed => SourceStore(a) = f /\ f # "clickhouse"
         /\ Telemetry \in a.listed <=> Mode(a.options) # "none"
         /\ DumpHolds(a.content, f, a.options, a.before, files)
         /\ a.before \in Database /\ a.content[Dump] \in Database
<1>1. /\ a.of = f /\ a.listed = DOMAIN a.content /\ Complete(a.content, f, a.options, a.before)
      /\ Holds(a.content, f, a.options, a.before, now, files) /\ a.before \in Database
  BY DEF Backup, Made, Sound
<1>2. DumpHolds(a.content, f, a.options, a.before, files)
  BY <1>1 DEF Complete, Holds
<1>3. /\ ChLatest \in a.listed => f = "clickhouse" /\ Mode(a.options) # "none"
      /\ f = "clickhouse" /\ Mode(a.options) # "none" => ChLatest \in a.listed
      /\ Telemetry \in a.listed <=> Mode(a.options) # "none"
  BY <1>1 DEF Complete, Holds
<1>4. /\ SourceStore(a) = "clickhouse" <=> ChLatest \in a.listed
      /\ SourceStore(a) \in Flavors /\ ChLatest \notin a.listed => SourceStore(a) = f /\ f # "clickhouse"
  BY <1>1, ArchiveAssumption DEF SourceStore
<1> QED BY <1>1, <1>2, <1>3, <1>4 DEF Complete, DumpHolds

(* Every month of the history that was due has arrived.                    *)
LEMMA MonthsCover ==
  ASSUME NEW a, NEW f, NEW now, NEW files, Backup(a, f, now, files), ChLatest \in a.listed,
         NEW rows \in SUBSET Row, \A m \in HistoryMembers(a) : Covers(a.content[History(m)], rows)
  PROVE  Covers(Due(a.options, a.before.ch), rows)
<1> DEFINE due == Due(a.options, a.before.ch)
<1>1. /\ a.listed = DOMAIN a.content /\ HasMonths(a.content, a.options, a.before)
      /\ Holds(a.content, f, a.options, a.before, now, files) /\ a.before.ch \subseteq Row
  BY SourceIs DEF Backup, Complete, Database
<1>2. due \subseteq Row
  BY <1>1 DEF Due, From
<1> SUFFICES ASSUME NEW r \in due
             PROVE  \E q \in rows : q[1] = r[1] /\ q[2] >= r[2]
  BY DEF Covers
<1> DEFINE m == MonthOf[r[1]]
<1>3. m \in Month /\ r \in OfMonth(due, m) /\ m \in MonthsOf(due)
  BY <1>2 DEF Row, Month, OfMonth, MonthsOf
<1>4. History(m) \in DOMAIN a.content /\ m \in HistoryMembers(a)
  BY <1>1, <1>3 DEF HasMonths, HistoryMembers
<1> HIDE DEF m, due
<1>5. a.content[History(m)] \subseteq Row /\ Covers(OfMonth(due, m), a.content[History(m)])
  BY <1>1, <1>3, <1>4 DEF Holds, MonthHolds, due
<1>6. OfMonth(due, m) \subseteq Row
  BY <1>2 DEF OfMonth
<1>7. Covers(OfMonth(due, m), rows)
  BY <1>4, <1>5, <1>6, CoversTransitive
<1> QED BY <1>3, <1>7 DEF Covers

(* What the dump brings is restored with it.                               *)
LEMMA DumpRestores ==
  ASSUME NEW a, NEW f, NEW now, NEW files, Backup(a, f, now, files), NEW db \in Database,
         db.report = a.content[Dump].report, db.device = a.content[Dump].device
  PROVE  /\ Included(a.options, "reports") => a.before.report \subseteq db.report
         /\ db.device >= a.before.device
         /\ Included(a.options, "telemetry_latest") /\ f # "clickhouse" =>
              a.before.latest <= a.content[Dump].latest
<1>1. DumpHolds(a.content, f, a.options, a.before, files) /\ a.before \in Database
  BY SourceIs
<1>2. db.device \in Nat /\ a.before.device \in Nat
  BY <1>1, HistoryIs
<1> QED BY <1>1, <1>2 DEF DumpHolds

LEMMA Loaded ==
  ASSUME Inv, Load
  PROVE  Inv'
<1> DEFINE a == target.from  d == a.content[Dump]
           db == IF Converts THEN [d EXCEPT !.ts_kv = {}, !.parts = {}] ELSE d
<1>1. /\ at = "load" /\ UNCHANGED <<flavor, live, store, writes, archive>> /\ at' = AfterLoad(a)
      /\ target' = [target EXCEPT !.db = db] /\ job' = [job EXCEPT !.todo = HistoryMembers(a)]
      /\ at' \in {"convert", "telemetry", "import", "extract"}
  BY DEF Load, Fill, Go, RestoreRest, AfterLoad, AfterTelemetry
<1>2. /\ LiveInv' /\ ArchiveInv' /\ BackupInv' /\ at' \in Steps \union {"idle"} /\ Now' = Now
      /\ target \in Target /\ ~target.done /\ a # None /\ Verifying(a)
      /\ job \in [kind : {"restore"}, password : {job.password}, todo : SUBSET Month]
  BY <1>1, RestoreFrame DEF RestoreSteps, Stepping
<1>3. /\ Backup(a, flavor, Now, store) /\ d \in Database /\ d.ch = {} /\ target.into \in Flavors
      /\ a.of = flavor /\ a.before \in Database
      /\ SourceStore(a) = target.into /\ ChLatest \notin a.listed =>
           target.into = flavor /\ flavor # "clickhouse"
      /\ Telemetry \in a.listed <=> Mode(a.options) # "none"
  BY <1>2, SourceIs DEF Verifying, DumpHolds, Target
<1>4. /\ db \in Database /\ db.report = d.report /\ db.device = d.device /\ db.latest = d.latest /\ db.ch = {}
  BY <1>3 DEF Database
<1> HIDE DEF db
<1>5. target' \in Target' /\ target'.from = a /\ target'.into = target.into /\ target'.db = db /\ ~target'.done
  BY <1>1, <1>2, <1>4 DEF Target
<1>6. job' \in [kind : {"restore"}, password : {job'.password}, todo : SUBSET Month]
      /\ job'.todo = HistoryMembers(a)
  BY <1>1, <1>2 DEF HistoryMembers
<1>7. Verifying(a)'
  BY <1>1, <1>2, <1>5 DEF Verifying
<1>8. ASSUME at' = "extract"
      PROVE  Outcome(a)'
  <2>1. ~Converts /\ Telemetry \notin a.listed /\ ChLatest \notin a.listed
    BY <1>1, <1>8 DEF AfterLoad, AfterTelemetry
  <2>2. Mode(a.options) = "none" /\ target.into = flavor /\ flavor # "clickhouse"
    BY <1>3, <2>1 DEF Converts
  <2>3. /\ Included(a.options, "reports") => a.before.report \subseteq db.report
        /\ db.device >= a.before.device
        /\ Included(a.options, "telemetry_latest") => a.before.latest <= db.latest
    BY <1>3, <1>4, <2>2, DumpRestores
  <2>4. Included(a.options, "telemetry_latest") => db.latest >= a.before.latest
    BY <2>3
  <2> QED BY <1>3, <1>4, <1>5, <2>2, <2>3, <2>4
          DEF Outcome, Unchanged, HistoryRestored, LatestRestored, LatestOf
<1>9. Stepping'
  <2>1. at' \in {"telemetry", "import"} => SourceStore(a) = target.into
    BY <1>1 DEF AfterLoad, Converts
  <2>2. at' = "convert" => SourceStore(a) # target.into
    BY <1>1 DEF AfterLoad, AfterTelemetry, Converts
  <2>3. at' = "telemetry" => Telemetry \in a.listed
    BY <1>1 DEF AfterLoad, AfterTelemetry
  <2>4. at' = "import" => ChLatest \in a.listed
    BY <1>1 DEF AfterLoad, AfterTelemetry
  <2> QED BY <1>1, <1>2, <1>4, <1>5, <1>6, <1>8, <2>1, <2>2, <2>3, <2>4 DEF Stepping, Unchanged
<1>10. RestoreInv'
  BY <1>1, <1>5, <1>6, <1>7, <1>9 DEF RestoreInv
<1> QED BY <1>2, <1>10 DEF Inv

LEMMA TelemetryLoaded ==
  ASSUME Inv, LoadTelemetry
  PROVE  Inv'
<1> DEFINE a == target.from  rows == a.content[Telemetry]  db == [target.db EXCEPT !.ts_kv = @ \union rows]
<1>1. /\ at = "telemetry" /\ UNCHANGED <<flavor, live, store, writes, archive>>
      /\ Refuse("refused") \/ (target' = [target EXCEPT !.db = db] /\ at' = AfterTelemetry(a) /\ job' = job)
  BY DEF LoadTelemetry, Fill, Go, RestoreRest
<1>2. CASE Refuse("refused")
  BY <1>1, <1>2, Refused DEF RestoreSteps
<1>3. CASE target' = [target EXCEPT !.db = db] /\ at' = AfterTelemetry(a) /\ job' = job
  <2>1. at' \in {"import", "extract"}
    BY <1>3 DEF AfterTelemetry
  <2>2. /\ LiveInv' /\ ArchiveInv' /\ BackupInv' /\ at' \in Steps \union {"idle"} /\ Now' = Now
        /\ target \in Target /\ ~target.done /\ a # None /\ Verifying(a) /\ Stepping
        /\ job \in [kind : {"restore"}, password : {job.password}, todo : SUBSET Month]
        /\ job.todo = HistoryMembers(a) /\ Telemetry \in a.listed /\ SourceStore(a) = target.into
        /\ target.db.latest = a.content[Dump].latest /\ Unchanged(a)
    BY <1>1, <2>1, RestoreFrame DEF RestoreSteps, Stepping
  <2>3. /\ Backup(a, flavor, Now, store) /\ target.into \in Flavors /\ target.db \in Database
        /\ a.of = flavor /\ a.before \in Database /\ a.listed = DOMAIN a.content
        /\ SourceStore(a) = target.into /\ ChLatest \notin a.listed =>
             target.into = flavor /\ flavor # "clickhouse"
    BY <2>2, SourceIs DEF Verifying, Target
  <2>4. TelemetryHolds(a.content, flavor, a.options, a.before, Now)
    BY <2>2, <2>3 DEF Backup, Holds
  <2>5. rows \subseteq Row
    BY <2>4 DEF TelemetryHolds
  <2> HIDE DEF rows
  <2>6. /\ db \in Database /\ db.report = target.db.report /\ db.device = target.db.device
        /\ db.latest = target.db.latest /\ rows \subseteq db.ts_kv
    BY <2>3, <2>5 DEF Database
  <2> HIDE DEF db
  <2>7. target' \in Target' /\ target'.from = a /\ target'.into = target.into /\ target'.db = db /\ ~target'.done
    BY <1>3, <2>2, <2>6 DEF Target
  <2>8. Verifying(a)'
    BY <1>1, <2>2, <2>7 DEF Verifying
  <2>9. ASSUME at' = "extract"
        PROVE  Outcome(a)'
    <3>1. ChLatest \notin a.listed /\ target.into = flavor /\ flavor # "clickhouse"
      BY <1>3, <2>2, <2>3, <2>9 DEF AfterTelemetry
    <3>2. /\ Included(a.options, "reports") => a.before.report \subseteq db.report
          /\ db.device >= a.before.device
          /\ Included(a.options, "telemetry_latest") => a.before.latest <= db.latest
      BY <2>2, <2>3, <2>6, <3>1, DumpRestores DEF Unchanged
    <3>3. Included(a.options, "telemetry_latest") => db.latest >= a.before.latest
      BY <3>2
    <3>4. Covers(Due(a.options, a.before.ts_kv), db.ts_kv)
      BY <2>4, <2>6, <3>1, CoversMore DEF TelemetryHolds, rows
    <3> QED BY <2>2, <2>3, <2>6, <2>7, <3>1, <3>2, <3>3, <3>4
            DEF Outcome, Unchanged, HistoryRestored, LatestRestored, LatestOf, HistoryOf
  <2>10. Stepping'
    <3>1. at' = "import" => ChLatest \in a.listed
      BY <1>3 DEF AfterTelemetry
    <3> QED BY <1>3, <2>1, <2>2, <2>6, <2>7, <2>9, <3>1 DEF Stepping, Unchanged
  <2>11. RestoreInv'
    BY <1>3, <2>1, <2>2, <2>7, <2>8, <2>10 DEF RestoreInv
  <2> QED BY <2>2, <2>11 DEF Inv
<1> QED BY <1>1, <1>2, <1>3

(* What every step of a restore from its archive may rely on.              *)
LEMMA RestoreFacts ==
  ASSUME Inv, UNCHANGED <<flavor, live, store, writes, archive>>,
         at \in RestoreSteps \ {"read"}, at' \in RestoreSteps \union {"idle"}
  PROVE  LET a == target.from
         IN /\ LiveInv' /\ ArchiveInv' /\ BackupInv' /\ at' \in Steps \union {"idle"} /\ Now' = Now
            /\ target \in Target /\ ~target.done /\ a # None /\ Verifying(a) /\ Stepping
            /\ job \in [kind : {"restore"}, password : {job.password}, todo : SUBSET Month]
            /\ Backup(a, flavor, Now, store) /\ target.into \in Flavors /\ target.db \in Database
            /\ a.of = flavor /\ a.before \in Database /\ a.listed = DOMAIN a.content
            /\ at # "load" => Unchanged(a)
<1>1. target.from # None
  BY DEF Inv, RestoreInv, Stepping
<1> QED BY <1>1, RestoreFrame, SourceIs DEF Verifying, Target, Stepping

(* A step that only adds to the restored database keeps what it is from.   *)
LEMMA FillKeeps ==
  ASSUME NEW db \in Database, target \in Target, target' = [target EXCEPT !.db = db]
  PROVE  /\ target' \in Target' /\ target'.from = target.from /\ target'.into = target.into
         /\ target'.db = db /\ target'.done = target.done /\ target'.files = target.files
BY DEF Target

LEMMA MonthImported ==
  ASSUME Inv, ImportMonth
  PROVE  Inv'
<1> DEFINE a == target.from  m == Min(job.todo)  rows == a.content[History(m)]
<1>1. /\ at = "import" /\ job.todo # {} /\ UNCHANGED <<flavor, live, store, writes, archive>>
  BY DEF ImportMonth, RestoreRest
<1>2. PICK got \in {rows, Distinct(rows)} :
        \/ Refuse("refused")
        \/ /\ target' = [target EXCEPT
                !.db = [target.db EXCEPT !.ch = @ \union got, !.chLatest = Newer(@, Newest(rows))]]
           /\ job' = [job EXCEPT !.todo = @ \ {m}] /\ at' = at
  BY DEF ImportMonth, Fill
<1>3. CASE Refuse("refused")
  BY <1>1, <1>3, Refused DEF RestoreSteps
<1>4. CASE /\ target' = [target EXCEPT
                !.db = [target.db EXCEPT !.ch = @ \union got, !.chLatest = Newer(@, Newest(rows))]]
           /\ job' = [job EXCEPT !.todo = @ \ {m}] /\ at' = at
  <2> DEFINE db == [target.db EXCEPT !.ch = @ \union got, !.chLatest = Newer(@, Newest(rows))]
  <2>1. /\ LiveInv' /\ ArchiveInv' /\ BackupInv' /\ at' \in Steps \union {"idle"} /\ Now' = Now
        /\ target \in Target /\ ~target.done /\ a # None /\ Verifying(a) /\ Stepping
        /\ job \in [kind : {"restore"}, password : {job.password}, todo : SUBSET Month]
        /\ Backup(a, flavor, Now, store) /\ target.db \in Database /\ a.listed = DOMAIN a.content
        /\ Unchanged(a)
    BY <1>1, <1>4, RestoreFacts DEF RestoreSteps
  <2>2. m \in job.todo /\ m \in HistoryMembers(a)
    BY <1>1, <2>1, MinIs, ArchiveAssumption DEF Stepping, Month
  <2>3. rows \subseteq Row /\ \A r \in rows : r[1] <= Now
    BY <2>1, <2>2 DEF Backup, Holds, MonthHolds, HistoryMembers
  <2> HIDE DEF m, rows
  <2>4. Covers(rows, got) /\ got \subseteq Row
    BY <1>2, <2>3, CoversSubset, CoversDistinct
  <2>5. Newer(target.db.chLatest, Newest(rows)) \in Latest
    <3>1. Now \in Nat /\ target.db.chLatest \in Latest
      BY <2>1, HistoryIs, Numbers DEF Inv, LiveInv, Sound, Now, Database
    <3> QED BY <2>3, <3>1, NewestIs, NewerIs
  <2>6. /\ db \in Database /\ db.report = target.db.report /\ db.device = target.db.device
        /\ db.ch = target.db.ch \union got
    BY <2>1, <2>4, <2>5 DEF Database
  <2> HIDE DEF db
  <2>7. target' \in Target' /\ target'.from = a /\ target'.into = target.into /\ target'.db = db /\ ~target'.done
    BY <1>4, <2>1, <2>6, FillKeeps DEF db
  <2>8. Verifying(a)'
    BY <1>1, <2>1, <2>7 DEF Verifying
  <2>9. job' \in [kind : {"restore"}, password : {job'.password}, todo : SUBSET Month]
        /\ job'.todo = job.todo \ {m}
    BY <1>4, <2>1
  <2>10. ASSUME NEW k \in HistoryMembers(a)
         PROVE  k \in job'.todo \/ Covers(a.content[History(k)], db.ch)
    <3>1. CASE k = m
      BY <2>4, <2>6, <3>1, CoversMore DEF rows
    <3>2. CASE k # m
      <4>1. k \in job.todo \/ Covers(a.content[History(k)], target.db.ch)
        BY <1>1, <2>1 DEF Stepping
      <4> QED BY <2>6, <2>9, <3>2, <4>1, CoversMore
    <3> QED BY <3>1, <3>2
  <2>11. Stepping'
    BY <1>1, <1>4, <2>1, <2>6, <2>7, <2>9, <2>10 DEF Stepping, Unchanged, HistoryMembers
  <2>12. RestoreInv'
    BY <1>1, <1>4, <2>1, <2>7, <2>8, <2>9, <2>11 DEF RestoreInv
  <2> QED BY <2>1, <2>12 DEF Inv
<1> QED BY <1>2, <1>3, <1>4

LEMMA LatestImported ==
  ASSUME Inv, ImportLatest
  PROVE  Inv'
<1> DEFINE a == target.from  latest == Newer(target.db.chLatest, a.content[ChLatest])
           db == [target.db EXCEPT !.chLatest = latest]
<1>1. /\ at = "import" /\ job.todo = {} /\ UNCHANGED <<flavor, live, store, writes, archive, job>>
      /\ at' = "extract" /\ target' = [target EXCEPT !.db = db]
  BY DEF ImportLatest, Fill, Go, RestoreRest
<1>2. /\ LiveInv' /\ ArchiveInv' /\ BackupInv' /\ at' \in Steps \union {"idle"} /\ Now' = Now
      /\ target \in Target /\ ~target.done /\ a # None /\ Verifying(a) /\ Stepping
      /\ job \in [kind : {"restore"}, password : {job.password}, todo : SUBSET Month]
      /\ Backup(a, flavor, Now, store) /\ target.db \in Database /\ a.listed = DOMAIN a.content
      /\ a.of = flavor /\ a.before \in Database /\ Unchanged(a)
  BY <1>1, RestoreFacts DEF RestoreSteps
<1>3. /\ ChLatest \in a.listed /\ SourceStore(a) = target.into
      /\ \A m \in HistoryMembers(a) : Covers(a.content[History(m)], target.db.ch)
  BY <1>1, <1>2 DEF Stepping
<1>4. /\ target.into = "clickhouse" /\ flavor = "clickhouse" /\ target.db.ch \subseteq Row
      /\ a.content[ChLatest] \in Latest /\ a.before.chLatest <= a.content[ChLatest]
      /\ target.db.chLatest \in Latest /\ a.before.chLatest \in Latest
  BY <1>2, <1>3, SourceIs DEF Backup, Holds, Database
<1>5. Covers(Due(a.options, a.before.ch), target.db.ch)
  BY <1>2, <1>3, <1>4, MonthsCover
<1>6. latest \in Latest /\ a.content[ChLatest] <= latest
  BY <1>4, NewerIs
<1>7. latest >= a.before.chLatest
  <2>1. latest \in Nat /\ a.content[ChLatest] \in Nat /\ a.before.chLatest \in Nat
    BY <1>4, <1>6, Numbers
  <2> QED BY <1>4, <1>6, <2>1
<1> HIDE DEF latest
<1>8. /\ db \in Database /\ db.report = target.db.report /\ db.device = target.db.device
      /\ db.ch = target.db.ch /\ db.chLatest = latest
  BY <1>2, <1>6 DEF Database
<1> HIDE DEF db
<1>9. target' \in Target' /\ target'.from = a /\ target'.into = target.into /\ target'.db = db /\ ~target'.done
  BY <1>1, <1>2, <1>8, FillKeeps
<1>10. Verifying(a)'
  BY <1>1, <1>2, <1>9 DEF Verifying
<1>11. Outcome(a)'
  <2>1. /\ Included(a.options, "reports") => a.before.report \subseteq db.report
        /\ db.device >= a.before.device
    BY <1>2, <1>8, DumpRestores DEF Unchanged
  <2> QED BY <1>2, <1>4, <1>5, <1>7, <1>8, <1>9, <2>1
          DEF Outcome, Unchanged, HistoryRestored, LatestRestored, LatestOf, HistoryOf
<1>12. Stepping'
  BY <1>1, <1>2, <1>8, <1>9, <1>11 DEF Stepping, Unchanged
<1>13. RestoreInv'
  BY <1>1, <1>2, <1>9, <1>10, <1>12 DEF RestoreInv
<1> QED BY <1>2, <1>13 DEF Inv

(* The rows a conversion gathers, and that none that was due is missing.   *)
LEMMA GatheredIs ==
  ASSUME NEW a, NEW f, NEW now \in Nat, NEW files, Backup(a, f, now, files)
  PROVE  /\ Gathered(a) \subseteq Row /\ \A r \in Gathered(a) : r[1] <= now
         /\ Mode(a.options) # "none" => Covers(Due(a.options, HistoryOf(a.of, a.before)), Gathered(a))
<1> DEFINE months == UNION {a.content[History(m)] : m \in HistoryMembers(a)}
           telemetry == IF Telemetry \in a.listed THEN a.content[Telemetry] ELSE {}
<1>1. /\ a.listed = DOMAIN a.content /\ Holds(a.content, f, a.options, a.before, now, files)
      /\ a.of = f /\ a.before \in Database
  BY SourceIs DEF Backup
<1>2. \A m \in HistoryMembers(a) :
        a.content[History(m)] \subseteq Row /\ \A r \in a.content[History(m)] : r[1] <= now
  BY <1>1 DEF Holds, MonthHolds, HistoryMembers
<1>3. months \subseteq Row /\ \A r \in months : r[1] <= now
  BY <1>2
<1>4. telemetry \subseteq Row /\ \A r \in telemetry : r[1] <= now
  BY <1>1 DEF Holds, TelemetryHolds
<1>5. Covers(months, Distinct(months)) /\ Distinct(months) \subseteq months
  BY <1>3, CoversDistinct
<1>6. Gathered(a) = telemetry \union Distinct(months)
  BY DEF Gathered
<1>7. \A m \in HistoryMembers(a) : Covers(a.content[History(m)], months)
  <2> SUFFICES ASSUME NEW m \in HistoryMembers(a)
               PROVE  Covers(a.content[History(m)], months)
    OBVIOUS
  <2>1. a.content[History(m)] \subseteq months /\ a.content[History(m)] \subseteq Row
    BY <1>2
  <2> HIDE DEF months
  <2> QED BY <2>1, CoversSubset
<1> HIDE DEF months, telemetry
<1>8. Covers(months, Gathered(a)) /\ Gathered(a) \subseteq Row
  BY <1>3, <1>4, <1>5, <1>6, CoversMore
<1>9. ASSUME Mode(a.options) # "none"
      PROVE  Covers(Due(a.options, HistoryOf(a.of, a.before)), Gathered(a))
  <2>1. CASE f = "clickhouse"
    <3>1. ChLatest \in a.listed
      BY <1>9, <2>1, SourceIs
    <3>2. Covers(Due(a.options, a.before.ch), months)
      BY <1>3, <1>7, <3>1, MonthsCover
    <3>3. Due(a.options, a.before.ch) \subseteq Row
      BY <1>1 DEF Due, From, Database
    <3>4. Covers(Due(a.options, a.before.ch), Gathered(a))
      BY <1>3, <1>8, <3>2, <3>3, CoversTransitive
    <3> QED BY <1>1, <2>1, <3>4 DEF HistoryOf
  <2>2. CASE f # "clickhouse"
    <3>1. Telemetry \in a.listed
      BY <1>9, SourceIs
    <3>2. Covers(Due(a.options, a.before.ts_kv), telemetry)
      BY <1>1, <2>2, <3>1 DEF Holds, TelemetryHolds, telemetry
    <3> QED BY <1>1, <1>6, <2>2, <3>2, CoversMore DEF HistoryOf
  <2> QED BY <2>1, <2>2
<1> QED BY <1>3, <1>4, <1>5, <1>6, <1>8, <1>9

(* With the whole history, the newest of its rows is as new as the latest  *)
(* value was.                                                              *)
LEMMA NewestGathered ==
  ASSUME NEW a, NEW now \in Nat, NEW files, Backup(a, "clickhouse", now, files), Mode(a.options) = "all"
  PROVE  Newest(Gathered(a)) >= a.before.chLatest
<1> DEFINE rows == Gathered(a)
<1>1. /\ rows \subseteq Row /\ \A r \in rows : r[1] <= now
      /\ Covers(Due(a.options, HistoryOf(a.of, a.before)), rows)
      /\ a.of = "clickhouse" /\ a.before \in Database
  BY SourceIs, GatheredIs
<1> HIDE DEF rows
<1>2. Newest(rows) \in Latest /\ \A r \in rows : r[1] <= Newest(rows)
  BY <1>1, NewestIs
<1>3. Newest(rows) \in Nat /\ a.before.chLatest \in Nat
  BY <1>1, <1>2, Numbers DEF Database
<1> SUFFICES Newest(rows) >= a.before.chLatest
  BY DEF rows
<1>4. CASE a.before.chLatest = 0
  BY <1>3, <1>4
<1>5. CASE a.before.chLatest # 0
  <2>1. PICK r \in a.before.ch : r[1] = a.before.chLatest
    BY <1>5 DEF Backup, Sound, HasLatest, HistoryOf, LatestOf
  <2>2. PICK q \in rows : q[1] = r[1]
    BY <1>1 DEF Covers, Due, HistoryOf
  <2>3. a.before.chLatest <= Newest(rows)
    BY <1>2, <2>1, <2>2
  <2> QED BY <1>3, <2>3
<1> QED BY <1>4, <1>5

LEMMA Converted ==
  ASSUME Inv, Convert
  PROVE  Inv'
<1> DEFINE a == target.from  rows == Gathered(a)  newest == Newest(rows)  latest == target.db.latest
           parts == IF target.into = "stock" THEN MonthsOf(rows) ELSE {}
           toClickHouse == [target.db EXCEPT !.ch = rows, !.chLatest = Newer(newest, latest)]
           toPostgres == [target.db EXCEPT !.ts_kv = rows, !.parts = parts,
             !.latest = IF SourceStore(a) = "clickhouse" THEN Newer(latest, newest) ELSE latest]
           db == IF target.into = "clickhouse" THEN toClickHouse ELSE toPostgres
<1>1. /\ at = "convert" /\ UNCHANGED <<flavor, live, store, writes, archive, job>>
      /\ at' = "extract" /\ target' = [target EXCEPT !.db = db]
  BY DEF Convert, Fill, Go, RestoreRest
<1>2. /\ LiveInv' /\ ArchiveInv' /\ BackupInv' /\ at' \in Steps \union {"idle"} /\ Now' = Now
      /\ target \in Target /\ ~target.done /\ a # None /\ Verifying(a) /\ Stepping
      /\ job \in [kind : {"restore"}, password : {job.password}, todo : SUBSET Month]
      /\ Backup(a, flavor, Now, store) /\ target.db \in Database /\ a.listed = DOMAIN a.content
      /\ a.of = flavor /\ a.before \in Database /\ Unchanged(a)
      /\ SourceStore(a) # target.into /\ latest = a.content[Dump].latest
  BY <1>1, RestoreFacts DEF RestoreSteps, Stepping
<1>3. Now \in Nat /\ latest \in Latest
  BY <1>2, HistoryIs, Numbers DEF Inv, LiveInv, Sound, Now, Database
<1>4. /\ rows \subseteq Row /\ newest \in Latest
      /\ Mode(a.options) # "none" => Covers(Due(a.options, HistoryOf(a.of, a.before)), rows)
  BY <1>2, <1>3, GatheredIs, NewestIs
<1>5. /\ flavor = "clickhouse" /\ Mode(a.options) = "all" => newest >= a.before.chLatest
  BY <1>2, <1>3, NewestGathered
<1>6. parts \subseteq Month
  BY <1>4 DEF MonthsOf, Row, Month
<1> HIDE DEF rows, newest, parts, latest
<1>7. /\ Newer(newest, latest) \in Latest /\ newest <= Newer(newest, latest) /\ latest <= Newer(newest, latest)
      /\ Newer(latest, newest) \in Latest /\ newest <= Newer(latest, newest) /\ latest <= Newer(latest, newest)
  BY <1>3, <1>4, NewerIs
<1>8. target.into = "clickhouse" =>
        /\ db \in Database /\ db.ch = rows /\ db.chLatest = Newer(newest, latest)
        /\ db.report = target.db.report /\ db.device = target.db.device
  BY <1>2, <1>4, <1>7 DEF Database
<1>9. target.into # "clickhouse" =>
        /\ db \in Database /\ db.ts_kv = rows
        /\ db.latest = IF SourceStore(a) = "clickhouse" THEN Newer(latest, newest) ELSE latest
        /\ db.report = target.db.report /\ db.device = target.db.device
  BY <1>2, <1>3, <1>4, <1>6, <1>7 DEF Database
<1> HIDE DEF db
<1>10. target' \in Target' /\ target'.from = a /\ target'.into = target.into /\ target'.db = db /\ ~target'.done
  BY <1>1, <1>2, <1>8, <1>9, FillKeeps
<1>11. Verifying(a)'
  BY <1>1, <1>2, <1>10 DEF Verifying
<1>12. Mode(a.options) # "none" =>
         Covers(Due(a.options, HistoryOf(a.of, a.before)), HistoryOf(target.into, db))
  BY <1>4, <1>8, <1>9 DEF HistoryOf
<1>13. /\ Included(a.options, "reports") => a.before.report \subseteq db.report
       /\ db.device >= a.before.device
       /\ Included(a.options, "telemetry_latest") /\ flavor # "clickhouse" => a.before.latest <= latest
  BY <1>2, <1>8, <1>9, DumpRestores DEF Unchanged
<1>14. ASSUME flavor = "clickhouse" => WithHistory(a.options), Included(a.options, "telemetry_latest")
       PROVE  LatestOf(target.into, db) >= LatestOf(flavor, a.before)
  <2>1. /\ Newer(newest, latest) \in Nat /\ Newer(latest, newest) \in Nat /\ latest \in Nat /\ newest \in Nat
        /\ LatestOf(flavor, a.before) \in Nat
    BY <1>2, <1>3, <1>4, <1>7, HistoryIs, Numbers
  <2>2. CASE flavor # "clickhouse"
    <3>1. SourceStore(a) # "clickhouse"
      BY <1>2, <2>2, SourceIs
    <3> QED BY <1>7, <1>8, <1>9, <1>13, <1>14, <2>1, <2>2, <3>1 DEF LatestOf
  <2>3. CASE flavor = "clickhouse"
    <3>1. Mode(a.options) = "all" /\ newest >= a.before.chLatest
      BY <1>5, <1>14, <2>3 DEF WithHistory
    <3>2. SourceStore(a) = "clickhouse" /\ target.into # "clickhouse"
      BY <1>2, <2>3, <3>1, SourceIs
    <3> QED BY <1>7, <1>9, <2>1, <2>3, <3>1, <3>2 DEF LatestOf
  <2> QED BY <2>2, <2>3
<1>15. Outcome(a)'
  <2>1. db.report = a.content[Dump].report /\ db.device = a.content[Dump].device
    BY <1>2, <1>8, <1>9 DEF Unchanged
  <2> QED BY <1>2, <1>10, <1>12, <1>13, <1>14, <2>1
          DEF Outcome, Unchanged, HistoryRestored, LatestRestored
<1>16. Stepping'
  BY <1>1, <1>2, <1>10, <1>15 DEF Stepping, Outcome
<1>17. RestoreInv'
  BY <1>1, <1>2, <1>10, <1>11, <1>16 DEF RestoreInv
<1> QED BY <1>2, <1>17 DEF Inv

LEMMA Extracted ==
  ASSUME Inv, Extract
  PROVE  Inv'
<1> DEFINE a == target.from  files == IF Files \in a.listed THEN a.content[Files] ELSE {}
<1>1. /\ at = "extract" /\ at' = "idle" /\ UNCHANGED <<flavor, live, writes, archive>>
      /\ store' = store \union files
      /\ target' = [target EXCEPT !.files = files, !.done = TRUE]
  BY DEF Extract, ExtractDir, End, RestoreRest
<1>2. /\ target \in Target /\ a # None /\ Verifying(a) /\ Outcome(a)
  BY <1>1 DEF Inv, RestoreInv, Stepping, RestoreSteps
<1>3. /\ Now \in Latest /\ Now' = Now /\ Now <= Now /\ store \subseteq store' /\ LiveInv'
  <2>1. Now \in Latest /\ Now \in Nat
    BY HistoryIs, Numbers DEF Inv, LiveInv, Sound, Now
  <2> QED BY <1>1, <2>1 DEF Inv, LiveInv, Now
<1>4. \A b : Backup(b, flavor, Now, store) => Backup(b, flavor', Now', store')
  BY <1>1, <1>3, BackupLater
<1>5. ArchiveInv'
  BY <1>1, <1>4 DEF Inv, ArchiveInv
<1>6. Files \in a.listed => target.db.report \subseteq files
  BY <1>2 DEF Verifying, Backup, Holds, Outcome, Unchanged
<1> HIDE DEF files
<1>7. /\ target' \in Target' /\ target'.from = a /\ target'.into = target.into /\ target'.db = target.db
      /\ target'.files = files
  BY <1>1, <1>2 DEF Target
<1>8. Verifying(a)' /\ Outcome(a)'
  BY <1>1, <1>2, <1>4, <1>7 DEF Verifying, Outcome, Unchanged, HistoryRestored, LatestRestored
<1>9. RestoreInv'
  BY <1>1, <1>2, <1>6, <1>7, <1>8 DEF RestoreInv, RestoreSteps
<1> QED BY <1>1, <1>3, <1>5, <1>9 DEF Inv, BackupInv, BackupSteps

----------------------------------------------------------------------------
LEMMA InvInit == Init => Inv
<1> SUFFICES ASSUME Init
             PROVE  Inv
  OBVIOUS
<1> DEFINE t == Min(Time)
<1>1. t \in Time /\ t \in Nat /\ t # 0
  BY MinIs, ArchiveAssumption
<1> HIDE DEF t
<1>2. <<t, 0>> \in Row /\ MonthOf[t] \in Month /\ 0 \in Version
  BY <1>1, ArchiveAssumption DEF Row, Month, Version
<1>3. /\ Times({<<t, 0>>}) = {t} /\ MonthsOf({<<t, 0>>}) = {MonthOf[t]}
      /\ {<<t, 0>>} # {} /\ {<<t, 0>>} \subseteq Row
  BY <1>2 DEF Times, MonthsOf
<1>4. Max({t}) = t
  BY <1>1 DEF Max
<1>5. Newest({<<t, 0>>}) = t
  BY <1>3, <1>4 DEF Newest
<1>6. {<<q, 0>> : q \in {t}} = {<<t, 0>>}
  OBVIOUS
<1>7. live = [Nothing EXCEPT
          !.ts_kv = IF flavor = "clickhouse" THEN {} ELSE {<<t, 0>>},
          !.ch = IF flavor = "clickhouse" THEN {<<t, 0>>} ELSE {},
          !.parts = IF flavor = "stock" THEN {MonthOf[t]} ELSE {},
          !.latest = IF flavor = "clickhouse" THEN 0 ELSE t,
          !.chLatest = IF flavor = "clickhouse" THEN t ELSE 0]
  BY <1>3, <1>5, <1>6 DEF Init, t
<1>8. /\ live.ts_kv = (IF flavor = "clickhouse" THEN {} ELSE {<<t, 0>>})
      /\ live.ch = (IF flavor = "clickhouse" THEN {<<t, 0>>} ELSE {})
      /\ live.parts = (IF flavor = "stock" THEN {MonthOf[t]} ELSE {})
      /\ live.latest = (IF flavor = "clickhouse" THEN 0 ELSE t)
      /\ live.chLatest = (IF flavor = "clickhouse" THEN t ELSE 0)
      /\ live.report = {} /\ live.device = 0
  BY <1>7 DEF Nothing
<1>9. live \in Database
  <2>1. DOMAIN live = {"ts_kv", "parts", "ch", "latest", "chLatest", "report", "device"}
    BY <1>7 DEF Nothing
  <2>2. live = [ts_kv |-> live.ts_kv, parts |-> live.parts, ch |-> live.ch, latest |-> live.latest,
                chLatest |-> live.chLatest, report |-> live.report, device |-> live.device]
    BY <1>7 DEF Nothing
  <2>3. /\ live.ts_kv \subseteq Row /\ live.ch \subseteq Row /\ live.parts \subseteq Month
        /\ live.latest \in Latest /\ live.chLatest \in Latest /\ live.report \subseteq Version
        /\ live.device \in Version
    BY <1>1, <1>2, <1>8 DEF Latest
  <2> QED BY <2>2, <2>3 DEF Database
<1>10. IsFiniteSet(live.ch)
  BY <1>8, FS_EmptySet, FS_Singleton
<1>11. HasLatest(flavor, live)
  <2>1. HistoryOf(flavor, live) = {<<t, 0>>} /\ LatestOf(flavor, live) = t
    BY <1>8 DEF HistoryOf, LatestOf
  <2>2. <<t, 0>>[1] = t /\ t <= t
    BY <1>1
  <2> QED BY <2>1, <2>2 DEF HasLatest
<1>12. flavor = "stock" => MonthsOf(live.ts_kv) \subseteq live.parts /\ live.parts # {}
  BY <1>3, <1>8
<1>13. LiveInv
  BY <1>8, <1>9, <1>10, <1>11, <1>12, ArchiveAssumption DEF Init, LiveInv, Sound
<1> QED BY <1>13 DEF Init, Inv, BackupInv, ArchiveInv, RestoreInv, BackupSteps, RestoreSteps

LEMMA InvNext == Inv /\ [Next]_vars => Inv'
<1> SUFFICES ASSUME Inv, [Next]_vars
             PROVE  Inv'
  OBVIOUS
<1>1. CASE SentientStep
  BY <1>1, SentientKeeps
<1>2. CASE Begin
  BY <1>2, Started, RestoreBegun DEF Begin
<1>3. CASE BackupJobStep
  BY <1>3, Listed, DumpMade, Copied, MonthsListed, MonthCounted, MonthExported, LatestExported,
     FilesArchived, Created, Written DEF BackupJobStep
<1>4. CASE RestoreJobStep
  BY <1>4, ArchiveRead, Loaded, TelemetryLoaded, MonthImported, LatestImported, Converted, Extracted
     DEF RestoreJobStep
<1>5. CASE Stop
  BY <1>5, Stopped, ArchiveAssumption DEF Stop, sentient
<1>6. CASE \E n \in Member : Damage(n)
  BY <1>6, Damaged
<1>7. CASE UNCHANGED vars
  <2>1. Growing
    BY <1>7, KeptSame DEF vars, Growing, Inv, LiveInv, Sound
  <2> QED BY <1>7, <2>1, JobsStay DEF vars
<1> QED BY <1>1, <1>2, <1>3, <1>4, <1>5, <1>6, <1>7 DEF Next

THEOREM InvAlways == Spec => []Inv
BY InvInit, InvNext, PTL DEF Spec

(* An archive whose writing was interrupted, or that was altered since, is *)
(* never restored in part and called restored.                             *)
THEOREM OnlyWholeIsRestored == Spec => []OnlyWholeRestored
<1>1. Inv => OnlyWholeRestored
  BY DEF Inv, RestoreInv, Verifying, Backup, OnlyWholeRestored, Restored
<1> QED BY <1>1, InvAlways, PTL

(* Every report of the restored database has its file, though database and *)
(* files are read at different moments.                                    *)
THEOREM ReportsKeepTheirFiles == Spec => []ReportsHaveFiles
<1>1. Inv => ReportsHaveFiles
  BY DEF Inv, RestoreInv, ReportsHaveFiles, Restored
<1> QED BY <1>1, InvAlways, PTL

(* Whatever was chosen: the history that was due, the reports and the      *)
(* configuration are restored, and, but for a backup of ClickHouse, the    *)
(* latest values.                                                          *)
THEOREM HistoryIsRestored ==
  Spec => [](Restored => HistoryRestored /\ (target.from.of # "clickhouse" => LatestRestored))
<1>1. Inv => (Restored => HistoryRestored /\ (target.from.of # "clickhouse" => LatestRestored))
  BY DEF Inv, RestoreInv, Outcome, Restored
<1> QED BY <1>1, InvAlways, PTL

(* Everything selected is restored, into every type of database, whatever  *)
(* SENTIENT wrote meanwhile and whatever failed, when on ClickHouse latest *)
(* values are chosen together with the whole history.                      *)
THEOREM SelectedIsRestored ==
  ASSUME "clickhouse" \in Flavors => \A o \in Offered["clickhouse"] : WithHistory(o)
  PROVE  Spec => []SelectedRestored
<1>1. Inv => SelectedRestored
  <2> SUFFICES ASSUME Inv, Restored
               PROVE  SelectedRestored
    BY DEF SelectedRestored
  <2> DEFINE a == target.from
  <2>1. Verifying(a) /\ Outcome(a) /\ flavor \in Flavors
    BY DEF Inv, LiveInv, RestoreInv, Restored
  <2>2. a.of = flavor /\ a.options \in Offered[flavor]
    BY <2>1 DEF Verifying, Backup, Made
  <2>3. HistoryRestored /\ LatestRestored
    BY <2>1, <2>2 DEF Outcome
  <2> QED BY <2>3 DEF SelectedRestored, HistoryRestored, LatestRestored, From0, Wanted, Due
<1> QED BY <1>1, InvAlways, PTL

----------------------------------------------------------------------------
(* Between the list of the partitions and the copy of ts_kv no month       *)
(* begins; between a count and the rows it counts ClickHouse does not      *)
(* merge.                                                                  *)
Quiet == MonthAt \cap {"dump", "copy"} = {} /\ MergeAt \cap {"ch_export", "import"} = {}
(* What was counted and left out agrees with what was read.                *)
Agrees(c, f, counts) ==
  /\ Telemetry \in DOMAIN c /\ f = "stock" =>
       c[Dump].ts_kv = {} /\ MonthsOf(c[Telemetry]) \subseteq c[Dump].parts
  /\ \A m \in Month : History(m) \in DOMAIN c => counts[m] <= Cardinality(c[History(m)])
AgreeBackup ==
  /\ at \in BackupSteps \ {"write"} => Agrees(job.staged, flavor, job.counts)
  /\ at = "dump" => job.excluded = live.parts
  /\ at = "copy" /\ flavor = "stock" => job.staged[Dump].ts_kv = {} /\ job.staged[Dump].parts = live.parts
  /\ at = "ch_export" => job.rows <= Cardinality(OfMonth(live.ch, Min(job.todo)))
AgreeArchive == archive # None \/ at = "write" => Agrees(archive.content, flavor, archive.counts)
AgreeRestore ==
  /\ (target # None \/ at \in RestoreSteps) /\ target.from # None =>
       Agrees(target.from.content, flavor, target.from.counts)
  /\ at = "telemetry" => target.db.ts_kv = target.from.content[Dump].ts_kv
                         /\ target.db.parts = target.from.content[Dump].parts
  /\ last # "refused"

AgreeInv == AgreeBackup /\ AgreeArchive /\ AgreeRestore

(* Rows only become more where no merge may come between.                  *)
LEMMA StoresAgree ==
  ASSUME Quiet, Inv, AgreeInv, SentientStep
  PROVE  AgreeInv'
<1>1. /\ UNCHANGED <<flavor, at, job, archive, target, last>>
      /\ \/ live'.parts = live.parts
         \/ flavor = "stock" /\ at \in MonthAt
      /\ \/ live.ch \subseteq live'.ch
         \/ at \in MergeAt
  <2>1. live \in Database
    BY DEF Inv, LiveInv, Sound
  <2>2. CASE \E t \in Time : Store(t)
    BY <2>1, <2>2 DEF Store, Database
  <2>3. CASE Report \/ Configure \/ Merge
    BY <2>1, <2>3 DEF Report, Configure, Merge, Database
  <2> QED BY <2>2, <2>3 DEF SentientStep
<1>2. live'.ch \in SUBSET Row /\ IsFiniteSet(live'.ch)
  BY SentientKeeps DEF Growing, LiveInv, Sound, Database
<1>3. ASSUME at = "ch_export"
      PROVE  job.rows <= Cardinality(OfMonth(live'.ch, Min(job.todo)))
  <2> DEFINE m == Min(job.todo)
  <2>1. live.ch \subseteq live'.ch
    BY <1>1, <1>3 DEF Quiet
  <2>2. /\ OfMonth(live.ch, m) \subseteq OfMonth(live'.ch, m) /\ OfMonth(live'.ch, m) \subseteq live'.ch
    BY <2>1 DEF OfMonth
  <2>3. IsFiniteSet(OfMonth(live'.ch, m))
    BY <1>2, <2>2, FS_Subset
  <2>4. /\ Cardinality(OfMonth(live.ch, m)) <= Cardinality(OfMonth(live'.ch, m))
        /\ Cardinality(OfMonth(live.ch, m)) \in Nat /\ Cardinality(OfMonth(live'.ch, m)) \in Nat
    BY <2>2, <2>3, FS_Subset, FS_CardinalityType
  <2>5. job.rows \in Nat /\ job.rows <= Cardinality(OfMonth(live.ch, m))
    BY <1>3 DEF Inv, BackupInv, Making, BackupSteps, AgreeInv, AgreeBackup
  <2> QED BY <2>4, <2>5
<1>4. at \in {"dump", "copy"} => live'.parts = live.parts
  BY <1>1 DEF Quiet
<1> QED BY <1>1, <1>3, <1>4 DEF AgreeInv, AgreeBackup, AgreeArchive, AgreeRestore

LEMMA BackupAgrees ==
  ASSUME Inv, AgreeInv, BackupJobStep, ~CreateArchive, ~WriteArchive
  PROVE  AgreeInv'
<1>1. /\ at \in BackupSteps \ {"write"} /\ at' \in BackupSteps \ {"write"}
      /\ UNCHANGED <<flavor, live, archive, target, last>> /\ job \in Making
  <2>1. at \in BackupSteps \ {"write"} /\ at' \in BackupSteps \ {"write"}
        /\ UNCHANGED <<flavor, live, archive, target, last>>
    BY DEF BackupJobStep, List, DumpDatabase, CopyTelemetry, ListMonths, CountMonth, ExportMonth, ExportLatest,
       ArchiveFiles, Go, NextMonth, BackupStep, sentient, BackupSteps
  <2> QED BY <2>1 DEF Inv, BackupInv
<1>2. AgreeArchive' /\ AgreeRestore'
  BY <1>1 DEF AgreeInv, AgreeArchive, AgreeRestore, BackupSteps, RestoreSteps
<1>3. Agrees(job.staged, flavor, job.counts)
  BY <1>1 DEF AgreeInv, AgreeBackup
<1>4. CASE List
  <2>1. at' = "dump" /\ job'.staged = job.staged /\ job'.counts = job.counts /\ job'.excluded = live.parts
    BY <1>1, <1>4 DEF List, Go, Making
  <2> QED BY <1>1, <1>2, <1>3, <2>1 DEF AgreeInv, AgreeBackup
<1>5. CASE DumpDatabase
  <2> DEFINE d == Dumped(job.options, job.excluded)  c == Staged(Dump, d)
  <2>1. /\ at' \in {"files", "copy"} /\ job'.staged = c /\ job'.counts = job.counts
        /\ at = "dump" /\ job.excluded = live.parts /\ DOMAIN job.staged = {}
    BY <1>1, <1>5 DEF DumpDatabase, Go, Making, AgreeInv, AgreeBackup, Inv, BackupInv
  <2>2. DOMAIN c = {Dump} /\ c[Dump] = d
    BY <2>1 DEF Staged
  <2>3. flavor = "stock" => d.ts_kv = {} /\ d.parts = live.parts
    <3>1. live \in Database /\ flavor = "stock" => MonthsOf(live.ts_kv) \subseteq live.parts
      BY DEF Inv, LiveInv, Sound
    <3>2. live \in Database
      BY DEF Inv, LiveInv, Sound
    <3> QED BY <2>1, <3>1, <3>2 DEF Dumped, MonthsOf, Database
  <2> HIDE DEF c, d
  <2>4. Agrees(c, flavor, job.counts)
    BY <2>2 DEF Agrees, Dump, Telemetry, History
  <2> QED BY <1>1, <1>2, <2>1, <2>2, <2>3, <2>4 DEF AgreeInv, AgreeBackup
<1>6. CASE CopyTelemetry
  <2> DEFINE rows == TelemetryRows(job.options)  c == Staged(Telemetry, rows)
  <2>1. /\ at' \in {"files", "ch_list"} /\ job'.staged = c /\ job'.counts = job.counts
        /\ DOMAIN job.staged = {Dump} /\ at = "copy"
        /\ flavor = "stock" => job.staged[Dump].ts_kv = {} /\ job.staged[Dump].parts = live.parts
    BY <1>1, <1>6 DEF CopyTelemetry, Go, Making, AgreeInv, AgreeBackup, Inv, BackupInv
  <2>2. /\ DOMAIN c = DOMAIN job.staged \union {Telemetry} /\ c[Telemetry] = rows
        /\ c[Dump] = job.staged[Dump]
    BY <2>1 DEF Staged, Dump, Telemetry
  <2>3. flavor = "stock" => MonthsOf(rows) \subseteq live.parts
    BY DEF Inv, LiveInv, Sound, TelemetryRows, From, MonthsOf
  <2> HIDE DEF c, rows
  <2>4. \A m \in Month : History(m) \notin DOMAIN c
    BY <2>1, <2>2 DEF Dump, Telemetry, History
  <2>5. Agrees(c, flavor, job.counts)
    BY <2>1, <2>2, <2>3, <2>4 DEF Agrees
  <2> QED BY <1>1, <1>2, <2>1, <2>5 DEF AgreeInv, AgreeBackup
<1>7. CASE ListMonths
  <2>1. at' \in {"ch_latest", "ch_count"} /\ job'.staged = job.staged /\ job'.counts = job.counts
    BY <1>1, <1>7 DEF ListMonths, Go, NextMonth, Making
  <2> QED BY <1>1, <1>2, <1>3, <2>1 DEF AgreeInv, AgreeBackup
<1>8. CASE CountMonth
  <2>1. /\ at' = "ch_export" /\ job'.staged = job.staged /\ job'.counts = job.counts /\ job'.todo = job.todo
        /\ job'.rows = Cardinality(OfMonth(live.ch, Min(job.todo)))
    BY <1>1, <1>8 DEF CountMonth, Go, Making
  <2>2. job'.rows \in Nat
    BY <2>1, FS_Subset, FS_CardinalityType DEF OfMonth, Inv, LiveInv, Sound
  <2>3. job'.rows <= Cardinality(OfMonth(live'.ch, Min(job'.todo)))
    BY <1>1, <2>1, <2>2
  <2> QED BY <1>1, <1>2, <1>3, <2>1, <2>3 DEF AgreeInv, AgreeBackup
<1>9. CASE ExportMonth
  <2> DEFINE k == Min(job.todo)  rows == OfMonth(live.ch, k)  c == Staged(History(k), rows)
  <2>1. /\ at' \in {"ch_latest", "ch_count"} /\ job'.staged = c
        /\ job'.counts = [job.counts EXCEPT ![k] = job.rows] /\ job.counts \in [Month -> Nat]
        /\ job.rows <= Cardinality(rows)
    BY <1>1, <1>9 DEF ExportMonth, Go, NextMonth, Making, AgreeInv, AgreeBackup
  <2>2. /\ DOMAIN c = DOMAIN job.staged \union {History(k)} /\ c[History(k)] = rows
        /\ \A n \in DOMAIN job.staged : n # History(k) => c[n] = job.staged[n]
    BY DEF Staged
  <2> HIDE DEF c, rows, k
  <2>3. \A m \in Month : m # k => History(m) # History(k)
    BY DEF History
  <2>4. \A m \in Month : History(m) \in DOMAIN c => job'.counts[m] <= Cardinality(c[History(m)])
    BY <1>3, <2>1, <2>2, <2>3 DEF Agrees
  <2>5. /\ Telemetry \in DOMAIN c => Telemetry \in DOMAIN job.staged /\ c[Telemetry] = job.staged[Telemetry]
        /\ Dump \in DOMAIN job.staged => c[Dump] = job.staged[Dump]
    BY <2>2 DEF Dump, Telemetry, History
  <2>6. Dump \in DOMAIN job.staged
    BY <1>9 DEF ExportMonth, Inv, BackupInv, BackupSteps
  <2>7. Agrees(c, flavor, job'.counts)
    BY <1>3, <2>4, <2>5, <2>6 DEF Agrees
  <2> QED BY <1>1, <1>2, <2>1, <2>7 DEF AgreeInv, AgreeBackup
<1>10. CASE ExportLatest \/ ArchiveFiles
  <2> DEFINE n == IF ExportLatest THEN ChLatest ELSE Files
             data == IF ExportLatest THEN live.chLatest ELSE store
             c == Staged(n, data)
  <2>1. /\ at' \in {"files", "create"} /\ job'.counts = job.counts
        /\ job'.staged = c \/ job'.staged = job.staged
    BY <1>1, <1>10 DEF ExportLatest, ArchiveFiles, Go, Making
  <2>2. /\ DOMAIN c = DOMAIN job.staged \union {n}
        /\ \A k \in DOMAIN job.staged : k # n => c[k] = job.staged[k]
    BY DEF Staged
  <2>3. n \in {ChLatest, Files}
    OBVIOUS
  <2> HIDE DEF c, n, data
  <2>4. /\ Telemetry # n /\ Dump # n /\ \A m \in Month : History(m) # n
    BY <2>3 DEF ChLatest, Files, Dump, Telemetry, History
  <2>5. Dump \in DOMAIN job.staged
    BY <1>10 DEF ExportLatest, ArchiveFiles, Inv, BackupInv, BackupSteps, Complete
  <2>6. Agrees(c, flavor, job.counts)
    BY <1>3, <2>2, <2>4, <2>5 DEF Agrees
  <2> QED BY <1>1, <1>2, <1>3, <2>1, <2>6 DEF AgreeInv, AgreeBackup
<1> QED BY <1>4, <1>5, <1>6, <1>7, <1>8, <1>9, <1>10 DEF BackupJobStep

(* The archive, and jobs that begin or end.                                *)
LEMMA OthersAgree ==
  ASSUME Inv, AgreeInv, Begin \/ CreateArchive \/ WriteArchive \/ Stop \/ \E n \in Member : Damage(n)
  PROVE  AgreeInv'
<1>1. CASE Begin
  <2>1. CASE \E o \in Offered[flavor] : BeginBackup(o)
    BY <2>1 DEF BeginBackup, NewBackup, Go, sentient, AgreeInv, AgreeBackup, AgreeArchive, AgreeRestore, Agrees,
       RestoreSteps
  <2>2. CASE \E into \in Flavors, password \in BOOLEAN : BeginRestore(into, password)
    BY <2>2 DEF BeginRestore, Go, sentient, AgreeInv, AgreeBackup, AgreeArchive, AgreeRestore, BackupSteps
  <2> QED BY <1>1, <2>1, <2>2 DEF Begin
<1>2. CASE CreateArchive
  <2>1. Agrees(job.staged, flavor, job.counts)
    BY <1>2 DEF CreateArchive, AgreeInv, AgreeBackup, BackupSteps
  <2> QED BY <1>2, <2>1 DEF CreateArchive, Go, sentient, AgreeInv, AgreeBackup, AgreeArchive, AgreeRestore,
          RestoreSteps
<1>3. CASE WriteArchive \/ \E n \in Member : Damage(n)
  <2>1. /\ at \in {"write", "idle"} /\ at' \in {"write", "idle"} /\ UNCHANGED <<flavor, target>>
        /\ Backup(archive, flavor, Now, store) /\ Agrees(archive.content, flavor, archive.counts)
        /\ last' \in {last, "done"}
    BY <1>3 DEF WriteArchive, Damage, End, sentient, Inv, ArchiveInv, AgreeInv, AgreeArchive
  <2>2. Made(archive, flavor)
    BY <2>1 DEF Backup
  <2>3. archive'.content = archive.content /\ archive'.counts = archive.counts
    BY <1>3, <2>2 DEF WriteArchive, Damage, Made
  <2> QED BY <2>1, <2>3 DEF AgreeInv, AgreeBackup, AgreeArchive, AgreeRestore, BackupSteps, RestoreSteps
<1>4. CASE Stop
  BY <1>4 DEF Stop, End, sentient, AgreeInv, AgreeBackup, AgreeArchive, AgreeRestore, BackupSteps, RestoreSteps
<1> QED BY <1>1, <1>2, <1>3, <1>4

LEMMA RestoreAgrees ==
  ASSUME Quiet, Inv, AgreeInv, RestoreJobStep
  PROVE  AgreeInv'
<1> DEFINE a == target.from
<1>1. /\ at \in RestoreSteps /\ at' \in RestoreSteps \union {"idle"}
      /\ UNCHANGED <<flavor, live, archive>>
  BY DEF RestoreJobStep, ReadArchive, Load, LoadTelemetry, ImportMonth, ImportLatest, Convert, Extract, Go, End,
     Refuse, RestoreRest, AfterLoad, AfterTelemetry, RestoreSteps
<1>2. AgreeBackup' /\ AgreeArchive'
  BY <1>1 DEF AgreeInv, AgreeArchive, AgreeBackup, BackupSteps, RestoreSteps
<1>3. /\ target \in Target /\ (a # None => Verifying(a)) /\ (at # "read" => a # None) /\ Stepping
      /\ a # None => Agrees(a.content, flavor, a.counts)
  BY <1>1 DEF Inv, RestoreInv, Stepping, AgreeInv, AgreeRestore
<1>4. CASE ReadArchive
  <2>1. Agrees(archive.content, flavor, archive.counts)
    BY <1>4 DEF ReadArchive, Inv, RestoreInv, AgreeInv, AgreeArchive
  <2> QED BY <1>1, <1>2, <1>3, <1>4, <2>1
          DEF ReadArchive, Refuse, End, Go, Target, AgreeInv, AgreeRestore
<1>5. CASE Load
  <2> DEFINE d == a.content[Dump]  db == IF Converts THEN [d EXCEPT !.ts_kv = {}, !.parts = {}] ELSE d
  <2>1. target' = [target EXCEPT !.db = db] /\ at' = AfterLoad(a) /\ last' = last /\ a # None
    BY <1>3, <1>5 DEF Load, Fill, Go
  <2>2. at' = "telemetry" => db = d
    BY <2>1 DEF AfterLoad
  <2> HIDE DEF db
  <2>3. target'.from = a /\ target'.db = db
    BY <1>3, <2>1 DEF Target
  <2> QED BY <1>1, <1>2, <1>3, <2>1, <2>2, <2>3 DEF AgreeInv, AgreeRestore
<1>6. CASE LoadTelemetry
  <2>1. at = "telemetry" /\ a # None /\ Telemetry \in a.listed /\ Verifying(a)
    BY <1>3, <1>6 DEF LoadTelemetry, Stepping
  <2>2. /\ a.of = flavor /\ a.listed = DOMAIN a.content /\ DumpHolds(a.content, flavor, a.options, a.before, store)
    BY <2>1, SourceIs DEF Verifying
  <2>3. /\ target.db.ts_kv = a.content[Dump].ts_kv /\ target.db.parts = a.content[Dump].parts
        /\ Agrees(a.content, flavor, a.counts)
    BY <1>3, <2>1 DEF AgreeInv, AgreeRestore
  <2>4. target.db.ts_kv = {}
    BY <2>1, <2>2, <2>3 DEF DumpHolds, Agrees
  <2>5. Fits(a.of, target.db, a.content[Telemetry])
    BY <2>1, <2>2, <2>3, <2>4 DEF Fits, Conflict, Times, Agrees
  <2>6. /\ at' = AfterTelemetry(a) /\ last' = last
        /\ target' = [target EXCEPT !.db = [target.db EXCEPT !.ts_kv = @ \union a.content[Telemetry]]]
    BY <1>6, <2>5 DEF LoadTelemetry, Fill, Go
  <2>7. target'.from = a /\ at' # "telemetry"
    BY <1>3, <2>6 DEF Target, AfterTelemetry
  <2> QED BY <1>1, <1>2, <1>3, <2>1, <2>6, <2>7 DEF AgreeInv, AgreeRestore
<1>7. CASE ImportMonth
  <2> DEFINE m == Min(job.todo)  rows == a.content[History(m)]
  <2>1. at = "import" /\ job.todo # {} /\ a # None /\ Verifying(a) /\ job.todo \subseteq HistoryMembers(a)
    BY <1>3, <1>7 DEF ImportMonth, Stepping
  <2>2. m \in Month /\ History(m) \in a.listed
    <3>1. job.todo \subseteq Nat
      BY <2>1, ArchiveAssumption DEF HistoryMembers, Month
    <3>2. m \in HistoryMembers(a)
      BY <2>1, <3>1, MinIs
    <3> QED BY <3>2 DEF HistoryMembers
  <2>3. a.listed = DOMAIN a.content /\ IsFiniteSet(rows) /\ a.counts[m] \in Nat
    BY <2>1, <2>2 DEF Verifying, Backup, Made, Holds, MonthHolds
  <2> HIDE DEF m, rows
  <2>4. a.counts[m] <= Cardinality(rows) /\ Cardinality(rows) \in Nat
    BY <1>3, <2>1, <2>2, <2>3, FS_CardinalityType DEF Agrees, rows
  <2>5. ~(Cardinality(rows) < a.counts[m])
    BY <2>3, <2>4
  <2>6. "import" \notin MergeAt
    BY DEF Quiet
  <2>7. /\ at' = at /\ last' = last
        /\ target' = [target EXCEPT
             !.db = [target.db EXCEPT !.ch = @ \union rows, !.chLatest = Newer(@, Newest(rows))]]
    BY <1>7, <2>5, <2>6 DEF ImportMonth, Fill, rows, m
  <2>8. target'.from = a
    BY <1>3, <2>7 DEF Target
  <2> QED BY <1>1, <1>2, <1>3, <2>1, <2>7, <2>8 DEF AgreeInv, AgreeRestore
<1>8. CASE ImportLatest \/ Convert \/ Extract
  <2>1. at' \in {"extract", "idle"} /\ last' \in {last, "done"} /\ a # None
    BY <1>3, <1>8 DEF ImportLatest, Convert, Extract, Go, End
  <2>2. target'.from = a
    BY <1>3, <1>8 DEF ImportLatest, Convert, Extract, ExtractDir, Fill, Target
  <2> QED BY <1>1, <1>2, <1>3, <2>1, <2>2 DEF AgreeInv, AgreeRestore
<1> QED BY <1>4, <1>5, <1>6, <1>7, <1>8 DEF RestoreJobStep

LEMMA AgreeNext == Quiet /\ Inv /\ AgreeInv /\ [Next]_vars => AgreeInv'
<1> SUFFICES ASSUME Quiet, Inv, AgreeInv, [Next]_vars
             PROVE  AgreeInv'
  OBVIOUS
<1>1. CASE SentientStep
  BY <1>1, StoresAgree
<1>2. CASE BackupJobStep
  BY <1>2, BackupAgrees, OthersAgree
<1>3. CASE RestoreJobStep
  BY <1>3, RestoreAgrees
<1>4. CASE Begin \/ Stop \/ \E n \in Member : Damage(n)
  BY <1>4, OthersAgree
<1>5. CASE UNCHANGED vars
  BY <1>5 DEF vars, AgreeInv, AgreeBackup, AgreeArchive, AgreeRestore
<1> QED BY <1>1, <1>2, <1>3, <1>4, <1>5 DEF Next

(* A restore never refuses what a backup made while SENTIENT wrote, when   *)
(* no month begins between the list of the partitions and the copy and     *)
(* ClickHouse does not merge between a count and the rows it counts.       *)
THEOREM AlwaysRestorable ==
  ASSUME Quiet
  PROVE  Spec => []Restorable
<1>1. Init => AgreeInv
  BY DEF Init, AgreeInv, AgreeBackup, AgreeArchive, AgreeRestore, BackupSteps, RestoreSteps
<1>2. Inv /\ AgreeInv /\ [Next]_vars => AgreeInv'
  BY AgreeNext
<1>3. AgreeInv => Restorable
  BY DEF AgreeInv, AgreeRestore, Restorable
<1> QED BY <1>1, <1>2, <1>3, InvAlways, PTL DEF Spec

=============================================================================
