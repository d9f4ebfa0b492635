-------------------------- MODULE MigrationProofs --------------------------
(* What holds of Migration for every number of keys, months, jobs and      *)
(* values: nothing is deleted and what a copy reads is kept, wherever steps *)
(* fail or the job is killed; where the code recovers from what failed     *)
(* (Recoverable), a migration that failed is undone, and what SENTIENT     *)
(* stored is in the store it uses or waits to be copied there, the latest  *)
(* values with it, while equal fingerprints are those of equal months      *)
(* (FingerprintsTell), which they are while no value comes late.           *)
EXTENDS Migration, SequenceTheorems, FiniteSetTheorems, TLAPS

USE MigrationAssumption

-----------------------------------------------------------------------------
(* The tables.                                                             *)

Tables == [Store -> Table \union {None}]

LEMMA Names ==
  /\ Ts \in Store /\ Ch \in Store /\ Asides \subseteq Store
  /\ Ts # Ch /\ Ts \notin Asides /\ Ch \notin Asides
  /\ \A n \in 1..MaxJobs : Aside(n) \in Asides
  /\ \A m, n \in 1..MaxJobs : Aside(m) = Aside(n) => m = n
BY DEF Ts, Ch, Asides, Aside, Store

LEMMA UsedNames == \A type : Used(type) \in {Ts, Ch}
BY DEF Used

LEMMA FreshTable ==
  ASSUME NEW layout \in Layout
  PROVE  Fresh(layout) \in Table /\ Stored(Fresh(layout).rows) = {}
BY DEF Fresh, Table, NoRows, Rows, Stored

LEMMA RenamedBackTable ==
  ASSUME NEW table \in Table
  PROVE  RenamedBack(table) \in Table /\ RenamedBack(table).rows = table.rows
BY DEF Row, Stored, RenamedBack, Table

(* Deploying replaces an empty table by an empty table, and adds ClickHouse's. *)
LEMMA DeployedTables ==
  ASSUME stores \in Tables, NEW c \in Config
  PROVE  /\ Deployed(c) \in Tables
         /\ \A s \in Store \ {Ch} : Deployed(c)[s] = None <=> stores[s] = None
         /\ \A s \in Store : stores[s] # None =>
              Deployed(c)[s] # None /\ Stored(Deployed(c)[s].rows) = Stored(stores[s].rows)
<1>1. "partitioned" \in Layout /\ "clickhouse" \in Layout
  BY DEF Layout
<1>2. /\ Fresh("partitioned") \in Table /\ Stored(Fresh("partitioned").rows) = {}
      /\ Fresh("clickhouse") \in Table
  BY <1>1, FreshTable
<1>3. ASSUME NEW table \in Table \union {None}
      PROVE  /\ StockFix(table, c) \in Table \union {None}
             /\ StockFix(table, c) = None <=> table = None
             /\ table # None => Stored(StockFix(table, c).rows) = Stored(table.rows)
  BY <1>2 DEF StockFix
<1>4. stores[Ts] \in Table \union {None}
  BY Names DEF Tables
<1>5. ASSUME NEW s \in Store
      PROVE  Deployed(c)[s] =
               IF s = Ts THEN StockFix(stores[Ts], c)
               ELSE IF s = Ch /\ c.type = "clickhouse" /\ stores[Ch] = None THEN Fresh("clickhouse")
               ELSE stores[s]
  BY Names DEF Deployed, Tables
<1>6. DOMAIN Deployed(c) = Store /\ Deployed(c) = [s \in Store |-> Deployed(c)[s]]
  BY DEF Deployed, Tables
<1>7. Deployed(c) \in Tables
  BY <1>2, <1>3, <1>4, <1>5, <1>6 DEF Tables
<1>8. QED
  BY <1>2, <1>3, <1>4, <1>5, <1>7, Names

LEMMA ShortSequences ==
  ASSUME NEW S
  PROVE  <<>> \in Seq(S) /\ \A x \in S : <<x>> \in Seq(S)
OBVIOUS

LEMMA LegsStores ==
  ASSUME NEW s \in State
  PROVE  /\ Len(Legs(s)) \in Nat
         /\ \A i \in 1..Len(Legs(s)) : Legs(s)[i] \in Store /\ Legs(s)[i] # Used(s.to)
         /\ DOMAIN Legs(s) = 1..Len(Legs(s))
         /\ Len(Legs(s)) = 0 => Legs(s) = <<>>
<1> DEFINE kept == {n \in Store : n # Used(s.to)}
           first == IF s.to = "clickhouse" THEN <<Ts>>
                    ELSE IF s.from = "clickhouse" THEN <<Ch>> ELSE <<>>
           then == IF s.aside # None THEN <<s.aside>> ELSE <<>>
<1>1. first \in Seq(kept)
  <2>1. Ts \in kept \/ s.to # "clickhouse"
    BY Names DEF Used
  <2>2. Ch \in kept \/ s.to = "clickhouse"
    BY Names DEF Used
  <2> HIDE DEF kept
  <2>3. QED
    BY <2>1, <2>2, ShortSequences
<1>2. s.aside # None => s.aside \in kept
  BY Names, UsedNames DEF State
<1>3. then \in Seq(kept)
  <2> HIDE DEF kept
  <2>1. QED
    BY <1>2, ShortSequences
<1>4. Legs(s) = first \o then
  BY DEF Legs
<1> HIDE DEF first, then
<1>5. Legs(s) \in Seq(kept)
  <2> HIDE DEF kept
  <2>1. first \o then \in Seq(kept)
    BY <1>1, <1>3, ConcatProperties
  <2>2. QED
    BY <1>4, <2>1
<1>6. /\ Len(Legs(s)) \in Nat /\ DOMAIN Legs(s) = 1..Len(Legs(s))
      /\ \A i \in 1..Len(Legs(s)) : Legs(s)[i] \in kept
      /\ Len(Legs(s)) = 0 => Legs(s) = <<>>
  <2> HIDE DEF kept
  <2>1. QED
    BY <1>5, ElementOfSeq, EmptySeq
<1>7. QED
  BY <1>6

-----------------------------------------------------------------------------
(* Type correctness.                                                       *)

Preparing == {"prepare", "stop", "image", "aside"}
MayUndo == {"create", "latest", "deploy", "answer", "u_stop", "u_stores"}

(* What is set aside to be put back exists; a copy knows what it copies. *)
TypeInv ==
  /\ TypeOK
  /\ pc \in Preparing => jobs >= 1 /\ aside = None
  /\ pc \in MayUndo /\ aside # None => stores[aside] # None
  /\ pc \in {"copy", "copy_latest", "finish"} => state \in State
  /\ pc = "copy" => leg \in 1..Len(Legs(state))

Keeps(from, to) ==
  \A s \in Store : from[s] # None => to[s] # None /\ Stored(from[s].rows) \subseteq Stored(to[s].rows)

LEMMA SetupType ==
  ASSUME TypeOK, NEW c \in Config, HalfDeploys(c) \/ Deploys(c)
  PROVE  conf' \in Config /\ image' \in Image
BY DEF TypeOK, HalfDeploys, Deploys, ImageFor, Image

LEMMA InsertedRows ==
  ASSUME TypeInv, pc = "copy", ~Missing,
         NEW R \in SUBSET InWindow(Source), NEW rows \in Inserted(R),
         stores' = [stores EXCEPT ![Target].rows = rows]
  PROVE  /\ stores' \in Tables /\ Keeps(stores, stores')
         /\ \A s \in Store : s # Target => stores'[s] = stores[s]
<1>1. Source \in Store /\ Target \in {Ts, Ch} /\ Target \in Store
  BY LegsStores, UsedNames, Names DEF TypeInv, Source, Target
<1>2. stores[Source] \in Table /\ stores[Target] \in Table
  BY <1>1 DEF TypeInv, TypeOK, Missing, LayoutOf
<1>3. stores[Source].rows \in Rows /\ stores[Target].rows \in Rows
  BY <1>2 DEF Table
<1>4. \A r \in R : r \in Row /\ stores[Source].rows[r] # 0
  BY DEF InWindow, Stored
<1>5. rows \in Rows /\ Stored(stores[Target].rows) \subseteq Stored(rows)
  BY <1>3, <1>4 DEF Rows, Stored, Inserted
<1>6. [stores[Target] EXCEPT !.rows = rows] \in Table
  BY <1>2, <1>5 DEF Table
<1>7. \A s \in Store : stores'[s] = IF s = Target THEN [stores[Target] EXCEPT !.rows = rows]
                                    ELSE stores[s]
  BY <1>1 DEF TypeInv, TypeOK
<1>8. stores' \in Tables
  BY <1>6, <1>7 DEF TypeInv, TypeOK, Tables
<1>9. Keeps(stores, stores')
  BY <1>2, <1>5, <1>6, <1>7 DEF Table, Keeps
<1>10. QED
  BY <1>7, <1>8, <1>9

(* What a failed or killed step leaves loses no rows and no kept table. *)
LEMMA HalfDoneLeaves ==
  ASSUME TypeInv, HalfDone(pc)
  PROVE  /\ stores' \in Tables /\ conf' \in Config /\ image' \in Image
         /\ \A s \in Asides : stores'[s] = stores[s]
         /\ (pc = "create" => stores[Ts] = None) => Keeps(stores, stores')
<1> USE DEF TypeInv
<1>0. /\ stores \in Tables /\ old \in Config /\ new \in Config
      /\ conf \in Config /\ image \in Image
  BY DEF TypeOK, Tables
<1>1. ASSUME stores' = stores
      PROVE  /\ stores' \in Tables /\ \A s \in Asides : stores'[s] = stores[s]
             /\ Keeps(stores, stores')
  BY <1>0, <1>1 DEF Keeps
<1>2. ASSUME NEW c \in Config, stores' = Deployed(c)
      PROVE  /\ stores' \in Tables /\ \A s \in Asides : stores'[s] = stores[s]
             /\ Keeps(stores, stores')
  BY <1>0, <1>2, Names, DeployedTables DEF Deployed, Tables, Keeps
<1>3. CASE pc \in {"image", "image_back"} /\ UNCHANGED stores
            /\ (HalfDeploys(new) \/ HalfDeploys(old))
  BY <1>0, <1>1, <1>3, SetupType
<1>4. CASE /\ LayoutOf(Ts) = "partitioned" /\ UNCHANGED setup
           /\ stores' = [stores EXCEPT ![Ts] = RenamedBack(@)]
  BY <1>0, <1>4, Names, RenamedBackTable DEF LayoutOf, Tables, Keeps, setup
<1>5. CASE /\ pc = "create" /\ UNCHANGED setup
           /\ stores' = [stores EXCEPT ![Ts] = Fresh("plain")]
  BY <1>0, <1>5, FreshTable, Names DEF Layout, Tables, Keeps, setup
<1>6. CASE \E c \in {old, new} : HalfDeploys(c) /\ stores' \in {stores, Deployed(c)}
  BY <1>0, <1>1, <1>2, <1>6, SetupType
<1>7. CASE /\ pc = "copy" /\ Target = Ch /\ ~Missing /\ UNCHANGED setup
           /\ \E R \in SUBSET InWindow(Source) : \E rows \in Inserted(R) :
                stores' = [stores EXCEPT ![Ch].rows = rows]
  BY <1>0, <1>7, InsertedRows, Names DEF setup
<1>8. CASE UNCHANGED <<stores, setup>>
  BY <1>0, <1>1, <1>8 DEF setup
<1>9. QED
  BY <1>3, <1>4, <1>5, <1>6, <1>7, <1>8 DEF HalfDone

LEMMA InitType == Init => TypeInv
<1> SUFFICES ASSUME Init PROVE TypeInv
  OBVIOUS
<1>1. PICK type \in InitialTypes, engine \in Engines, H \in Histories,
           newest \in [Keys -> {0} \union Time] :
        /\ stores = [s \in Store |->
             IF s = Used(type) THEN [FirstTable(type, s) EXCEPT !.rows = RowsOf(H)]
             ELSE FirstTable(type, s)]
        /\ latest = [s \in {Ts, Ch} |-> IF s = Used(type) THEN newest ELSE [k \in Keys |-> 0]]
        /\ acked = RowsOf(H)
        /\ conf = [type |-> type, keep |-> FALSE]
        /\ image = IF engine = "native" THEN "native" ELSE ImageFor(conf)
  BY DEF Init
<1>2. RowsOf(H) \in Rows
  BY DEF RowsOf, Rows
<1>3. FirstLayout[type] \in Layout /\ "clickhouse" \in Layout
  BY DEF FirstLayout, Layout, Types
<1>4. stores \in Tables
  BY <1>1, <1>2, <1>3, FreshTable DEF FirstTable, Table, Tables
<1>5. latest \in [{Ts, Ch} -> [Keys -> Nat]]
  BY <1>1 DEF Time
<1>6. conf \in Config /\ image \in Image /\ acked \in Rows
  BY <1>1, <1>2 DEF Config, Image, ImageFor
<1>7. pre \in [ts : Table \union {None}, setup : Config \X Image]
  BY <1>6 DEF Init
<1>8. StartTime \in Nat /\ 1 \in Months /\ "idle" \in Steps
  BY DEF Time, Months, Steps
<1>9. /\ service = "up" /\ record = conf /\ state = None /\ now = StartTime /\ pc = "idle"
      /\ old = conf /\ new = conf /\ aside = None /\ cutover = StartTime
      /\ leg = 1 /\ month = 1 /\ last = "none"
      /\ faults = 0 /\ kills = 0 /\ jobs = 0 /\ writes = 0
  BY DEF Init
<1>10. QED
  BY <1>4, <1>5, <1>6, <1>7, <1>8, <1>9 DEF TypeInv, TypeOK, Tables, Preparing, MayUndo

LEMMA WithTypeConfig ==
  ASSUME NEW c \in Config, NEW type \in Types
  PROVE  WithType(c, type) \in Config
BY DEF WithType, Config

LEMMA BeginType ==
  ASSUME TypeInv, NEW target \in Offered, BeginMigration(target)
  PROVE  TypeInv'
<1>1. WithType(record, target) \in Config
  BY WithTypeConfig DEF TypeInv, TypeOK
<1>2. jobs' \in 1..MaxJobs
  BY DEF TypeInv, TypeOK, BeginMigration
<1>3. QED
  BY <1>1, <1>2
  DEF TypeInv, TypeOK, BeginMigration, Goto, data, setup, files, cursor, ghosts, Steps, Preparing,
      MayUndo

(* Up to the switch. *)
LEMMA PrepareType ==
  ASSUME TypeInv, Prepare \/ StopSentient
  PROVE  TypeInv'
<1> USE DEF TypeInv, TypeOK, Goto, Return, Fails, data, setup, files, locals, cursor, ghosts, bounds,
            Preparing, MayUndo
<1>1. CASE Prepare
  BY <1>1 DEF Prepare, Steps
<1>2. CASE StopSentient
  BY <1>2, Names DEF StopSentient, Steps
<1>3. QED
  BY <1>1, <1>2

LEMMA SwitchSteps ==
  /\ Preparing \union MayUndo \subseteq Steps
  /\ {"idle", "image_back", "restart", "u_deploy", "record", "save", "copy", "copy_latest",
      "finish"} \subseteq Steps
BY DEF Preparing, MayUndo, Steps

(* A step that fails, wherever it then goes. *)
LEMMA FailType ==
  ASSUME TypeInv, NEW at, pc = at, NEW orElse \in {"image_back", "u_stop"}, Fail(at, orElse),
         at \in Preparing \union MayUndo,
         orElse = "u_stop" => at \in MayUndo,
         UNCHANGED <<latest, service, files, now, locals, cursor, ghosts, bounds>>
  PROVE  TypeInv'
<1>1. /\ stores' \in Tables /\ conf' \in Config /\ image' \in Image
      /\ \A s \in Asides : stores'[s] = stores[s]
  BY HalfDoneLeaves DEF Fail
<1>2. aside \in Asides \union {None} /\ aside' = aside
  BY DEF TypeInv, TypeOK, locals
<1>3. pc' = orElse /\ pc' \in Steps /\ faults' \in Nat
  BY SwitchSteps DEF TypeInv, TypeOK, Fail, Fails, Goto, MayUndo
<1>4. pc' \in MayUndo /\ aside' # None => stores'[aside'] # None
  BY <1>1, <1>2, <1>3 DEF TypeInv, MayUndo
<1>5. QED
  BY <1>1, <1>3, <1>4
  DEF TypeInv, TypeOK, Fail, Goto, Tables, files, locals, cursor, ghosts, bounds, Preparing

LEMMA ImageType ==
  ASSUME TypeInv, PrepareImage
  PROVE  TypeInv'
<1>1. CASE Fail("image", "image_back")
  BY <1>1, FailType DEF PrepareImage, Preparing
<1>2. CASE ~Fail("image", "image_back")
  <2>1. conf' \in Config /\ image' \in Image
    BY <1>2, SetupType DEF PrepareImage, TypeInv, TypeOK, setup
  <2>2. QED
    BY <1>2, <2>1, SwitchSteps
    DEF PrepareImage, TypeInv, TypeOK, Goto, files, locals, cursor, ghosts, bounds,
        Preparing, MayUndo
<1>3. QED
  BY <1>1, <1>2

LEMMA SetAsideType ==
  ASSUME TypeInv, SetAside
  PROVE  TypeInv'
<1>0. AfterCreate \in MayUndo
  BY DEF AfterCreate, MayUndo
<1>1. CASE Fail("aside", "image_back") /\ UNCHANGED aside
  BY <1>1, FailType DEF SetAside, Preparing, locals
<1>2. CASE ~NeedsNew /\ Goto(AfterCreate) /\ UNCHANGED <<stores, setup, aside, faults>>
  BY <1>0, <1>2, SwitchSteps
  DEF SetAside, TypeInv, TypeOK, Goto, setup, files, cursor, ghosts, bounds, Preparing, MayUndo
<1>3. CASE ~(Fail("aside", "image_back") /\ UNCHANGED aside) /\ NeedsNew
  <2>1. Aside(jobs) \in Asides /\ Aside(jobs) \in Store /\ Aside(jobs) # Ts /\ Ts \in Store
    BY Names DEF TypeInv, TypeOK, SetAside, Preparing
  <2>2. CASE /\ stores' = [stores EXCEPT ![Ts] = None] /\ UNCHANGED aside
    BY <1>3, <2>2, <2>1, SwitchSteps
    DEF SetAside, TypeInv, TypeOK, Goto, setup, files, cursor, ghosts, bounds, Preparing, MayUndo
  <2>3. CASE /\ stores[Ts] # None
             /\ stores' = [stores EXCEPT ![Aside(jobs)] = stores[Ts], ![Ts] = None]
             /\ aside' = Aside(jobs)
    <3>1. stores' \in Tables /\ stores'[Aside(jobs)] = stores[Ts]
      BY <2>1, <2>3 DEF TypeInv, TypeOK, Tables
    <3>2. QED
      BY <1>3, <2>3, <2>1, <3>1, SwitchSteps
      DEF SetAside, TypeInv, TypeOK, Tables, Goto, setup, files, cursor, ghosts, bounds,
          Preparing, MayUndo
  <2>4. QED
    BY <1>3, <2>2, <2>3 DEF SetAside
<1>4. QED
  BY <1>1, <1>2, <1>3 DEF SetAside

LEMMA CreateType ==
  ASSUME TypeInv, CreateTable \/ BringLatest
  PROVE  TypeInv'
<1>0. AfterCreate \in MayUndo /\ "deploy" \in MayUndo
  BY DEF AfterCreate, MayUndo
<1>1. CASE CreateTable
  <2>1. CASE Fail("create", "image_back")
    BY <1>1, <2>1, FailType DEF CreateTable, MayUndo
  <2>2. CASE ~Fail("create", "image_back")
    <3>1. PICK layout \in {"partitioned", "hypertable"} :
            stores' = [stores EXCEPT ![Ts] = Fresh(layout)]
      BY <1>1, <2>2 DEF CreateTable
    <3>2. Fresh(layout) \in Table
      BY FreshTable DEF Layout
    <3>3. stores' \in Tables /\ \A s \in Asides : stores'[s] = stores[s]
      BY <3>1, <3>2, Names DEF TypeInv, TypeOK, Tables
    <3>4. QED
      BY <1>0, <1>1, <2>2, <3>3, SwitchSteps
      DEF CreateTable, TypeInv, TypeOK, Tables, Goto, setup, files, locals, cursor, ghosts, bounds,
          Preparing, MayUndo
  <2>3. QED
    BY <2>1, <2>2
<1>2. CASE BringLatest
  <2>1. CASE Fail("latest", "image_back") /\ UNCHANGED latest
    BY <1>2, <2>1, FailType DEF BringLatest, MayUndo
  <2>2. CASE latest' = Brought(Ch, Ts) /\ Goto("deploy") /\ UNCHANGED <<stores, setup, faults>>
    <3>1. latest' \in [{Ts, Ch} -> [Keys -> Nat]]
      BY <2>2 DEF TypeInv, TypeOK, Brought, Newer
    <3>2. QED
      BY <1>0, <1>2, <2>2, <3>1, SwitchSteps
      DEF BringLatest, TypeInv, TypeOK, Goto, setup, files, locals, cursor, ghosts, bounds,
          Preparing, MayUndo
  <2>3. QED
    BY <1>2, <2>1, <2>2 DEF BringLatest
<1>3. QED
  BY <1>1, <1>2

(* The switch, and what undoes a failed one. *)

LEMMA DeployType ==
  ASSUME TypeInv, Deploy
  PROVE  TypeInv'
<1>1. CASE Fail("deploy", "u_stop")
  BY <1>1, FailType DEF Deploy, MayUndo
<1>2. CASE ~Fail("deploy", "u_stop")
  <2>1. /\ stores' \in Tables /\ \A s \in Store : stores[s] # None => stores'[s] # None
        /\ conf' \in Config /\ image' \in Image
    BY <1>2, DeployedTables, SetupType DEF Deploy, TypeInv, TypeOK, Tables
  <2>2. aside # None => stores'[aside] # None
    BY <2>1, Names DEF TypeInv, TypeOK, Deploy, MayUndo
  <2>3. QED
    BY <1>2, <2>1, <2>2, SwitchSteps
    DEF Deploy, TypeInv, TypeOK, Tables, Goto, files, locals, cursor, ghosts, bounds,
        Preparing, MayUndo
<1>3. QED
  BY <1>1, <1>2

LEMMA AnswerType ==
  ASSUME TypeInv, Answer \/ UndoStop \/ ImageBack \/ RestartAsWas
  PROVE  TypeInv'
<1> USE SwitchSteps DEF TypeInv, TypeOK, Goto, Return, Fails, data, setup, files, locals, cursor,
      ghosts, bounds, Preparing, MayUndo
<1>1. CASE Answer
  BY <1>1 DEF Answer
<1>2. CASE UndoStop
  BY <1>2 DEF UndoStop
<1>3. CASE ImageBack
  BY <1>3, HalfDoneLeaves, SetupType DEF ImageBack, Tables
<1>4. CASE RestartAsWas
  BY <1>4 DEF RestartAsWas
<1>5. QED
  BY <1>1, <1>2, <1>3, <1>4

LEMMA UndoType ==
  ASSUME TypeInv, UndoStores \/ UndoDeploy
  PROVE  TypeInv'
<1>1. CASE UndoStores
  <2>1. stores' \in Tables
    <3>1. CASE aside = None
      BY <1>1, <3>1 DEF UndoStores, TypeInv, TypeOK, Tables
    <3>2. CASE aside # None
      BY <1>1, <3>2, Names, RenamedBackTable DEF UndoStores, TypeInv, TypeOK, MayUndo, Tables
    <3>3. QED
      BY <3>1, <3>2
  <2>2. QED
    BY <1>1, <2>1, SwitchSteps
    DEF UndoStores, TypeInv, TypeOK, Tables, Goto, Fails, setup, files, locals, cursor, ghosts,
        bounds, Preparing, MayUndo
<1>2. CASE UndoDeploy
  <2>1. stores' \in Tables /\ conf' \in Config /\ image' \in Image
    BY <1>2, HalfDoneLeaves, DeployedTables, SetupType DEF TypeInv, TypeOK, Tables, UndoDeploy
  <2>2. QED
    BY <1>2, <2>1, SwitchSteps
    DEF UndoDeploy, TypeInv, TypeOK, Tables, Return, Fails, files, locals, cursor, ghosts,
        bounds, Preparing, MayUndo
<1>3. QED
  BY <1>1, <1>2

(* The record, the state file, and the copy. *)

LEMMA CopyFromType ==
  ASSUME NEW s \in State, CopyFrom(s)
  PROVE  /\ leg' \in Nat /\ month' \in Months /\ pc' \in {"copy", "finish"} /\ last' = last
         /\ pc' = "copy" => leg' \in 1..Len(Legs(s))
BY LegsStores DEF Months, CopyFrom, Goto

LEMMA RecordType ==
  ASSUME TypeInv, WriteRecord \/ SaveState \/ Resume
  PROVE  TypeInv'
<1>1. CASE WriteRecord
  BY <1>1, SwitchSteps
  DEF WriteRecord, TypeInv, TypeOK, Goto, Return, Fails, data, setup, locals, cursor, ghosts, bounds,
      Preparing, MayUndo
<1>2. CASE SaveState
  <2> DEFINE saved == [from |-> old.type, to |-> new.type, cutover |-> cutover,
                       aside |-> aside, done |-> FALSE]
  <2>1. saved \in State
    BY DEF TypeInv, TypeOK, State, Config
  <2> HIDE DEF saved
  <2>2. CASE state' = saved /\ CopyFrom(saved) /\ UNCHANGED faults
    BY <1>2, <2>1, <2>2, CopyFromType, SwitchSteps
    DEF SaveState, TypeInv, TypeOK, data, setup, locals, ghosts, bounds, Preparing, MayUndo
  <2>3. CASE Fails(pc) /\ state' \in {state, saved} /\ pc' = "idle" /\ last' \in {"lost", "interrupted"}
             /\ UNCHANGED cursor
    BY <1>2, <2>1, <2>3, SwitchSteps
    DEF SaveState, TypeInv, TypeOK, Fails, data, setup, locals, cursor, ghosts, bounds,
        Preparing, MayUndo
  <2>4. QED
    BY <1>2, <2>2, <2>3 DEF SaveState, Return, saved
<1>3. CASE Resume
  <2>1. state \in State
    BY <1>3 DEF Resume, Unfinished, TypeInv, TypeOK
  <2>2. QED
    BY <1>3, <2>1, CopyFromType, SwitchSteps
    DEF Resume, TypeInv, TypeOK, data, setup, files, locals, ghosts, bounds, Preparing, MayUndo
<1>4. QED
  BY <1>1, <1>2, <1>3

LEMMA NextWindowType ==
  ASSUME TypeInv, pc = "copy", NextWindow
  PROVE  /\ leg' \in Nat /\ month' \in Months /\ last' = last
         /\ pc' \in {"copy", "copy_latest", "finish"}
         /\ pc' = "copy" => leg' \in 1..Len(Legs(state))
BY LegsStores DEF TypeInv, TypeOK, Months, NextWindow, Goto

LEMMA CopyType ==
  ASSUME TypeInv, CopyWindow
  PROVE  TypeInv'
<1>0. state \in State
  BY DEF CopyWindow, TypeInv
<1>1. CASE /\ ~Stuck
           /\ IF Copied THEN UNCHANGED stores
              ELSE \E rows \in Inserted(InWindow(Source)) :
                     stores' = [stores EXCEPT ![Target].rows = rows]
           /\ NextWindow
           /\ UNCHANGED <<setup, faults>>
  <2>1. stores' \in Tables
    BY <1>1, InsertedRows DEF TypeInv, TypeOK, Tables, CopyWindow, Stuck
  <2>2. QED
    BY <1>0, <1>1, <2>1, NextWindowType, SwitchSteps
    DEF CopyWindow, TypeInv, TypeOK, Tables, setup, files, locals, ghosts, bounds,
        Preparing, MayUndo
<1>2. CASE /\ Stuck \/ HalfDone(pc)
           /\ Return("interrupted") /\ UNCHANGED cursor
           /\ UNCHANGED <<stores, setup, faults>> \/ (Fails(pc) /\ HalfDone(pc))
  <2>1. stores' \in Tables /\ conf' \in Config /\ image' \in Image
    BY <1>2, HalfDoneLeaves DEF TypeInv, TypeOK, Tables, setup
  <2>2. faults' \in Nat
    BY <1>2 DEF TypeInv, TypeOK, Fails
  <2>3. QED
    BY <1>0, <1>2, <2>1, <2>2, SwitchSteps
    DEF CopyWindow, TypeInv, TypeOK, Tables, Return, cursor, files, locals, ghosts, bounds,
        Preparing, MayUndo
<1>3. QED
  BY <1>1, <1>2 DEF CopyWindow

LEMMA FinishType ==
  ASSUME TypeInv, CopyLatest \/ Finish
  PROVE  TypeInv'
<1> USE SwitchSteps DEF TypeInv, TypeOK, Goto, Return, Fails, data, setup, files, locals, cursor,
      ghosts, bounds, Preparing, MayUndo
<1>1. CASE CopyLatest
  BY <1>1 DEF CopyLatest, Brought, Newer
<1>2. CASE Finish
  <2>1. state' \in State
    BY <1>2 DEF Finish, State
  <2>2. pc' = "idle" /\ last' \in {"done", "interrupted"} /\ faults' \in Nat
    BY <1>2 DEF Finish
  <2>3. UNCHANGED <<data, setup, service, record, now, locals, cursor, ghosts, bounds>>
    BY <1>2 DEF Finish
  <2>4. QED
    BY <2>1, <2>2, <2>3
<1>3. QED
  BY <1>1, <1>2

(* Around the job. *)

(* A value written is in the table in use, and no other table changes. *)
LEMMA WrittenRows ==
  ASSUME TypeInv, NEW k \in Keys, NEW t \in Time, Write(k, t)
  PROVE  /\ stores' \in Tables /\ Keeps(stores, stores')
         /\ \A s \in Store : s # Used(conf.type) => stores'[s] = stores[s]
         /\ <<k, t>> \in Stored(stores'[Used(conf.type)].rows)
         /\ stores'[Used(conf.type)] # None
         /\ acked' \in Rows /\ \A r \in Row : r # <<k, t>> => acked'[r] = acked[r]
<1> DEFINE used == Used(conf.type)
           r == <<k, t>>
<1>1. used \in Store /\ r \in Row
  BY UsedNames, Names DEF Row
<1>2. stores[used] \in Table
  <2>1. LayoutOf(used) # "missing"
    <3>1. conf.type \in Types
      BY DEF TypeInv, TypeOK, Config
    <3>2. "missing" \notin Shape(conf.type)
      BY <3>1 DEF Shape, Types
    <3>3. QED
      BY <3>2 DEF Write, Accepts
  <2>2. QED
    BY <1>1, <2>1 DEF LayoutOf, TypeInv, TypeOK
<1>3. acked[r] + 1 \in 1..MaxVersion
  <2>1. acked \in [Row -> 0..MaxVersion]
    BY DEF TypeInv, TypeOK, Rows
  <2>2. acked[r] < MaxVersion
    BY DEF Write
  <2> HIDE DEF r
  <2>3. acked[r] \in 0..MaxVersion
    BY <1>1, <2>1
  <2>4. QED
    BY <2>2, <2>3
<1>4. [stores[used].rows EXCEPT ![r] = acked[r] + 1] \in Rows
  BY <1>1, <1>2, <1>3 DEF Table, Rows
<1> DEFINE written == [stores[used] EXCEPT !.rows = [@ EXCEPT ![r] = acked[r] + 1]]
<1>5. /\ written \in Table /\ written # None
      /\ written.rows = [stores[used].rows EXCEPT ![r] = acked[r] + 1]
  BY <1>2, <1>4 DEF Table
<1>6. stores' = [stores EXCEPT ![used] = written]
  BY DEF Write
<1>7. Stored(stores[used].rows) \subseteq Stored(written.rows) /\ r \in Stored(written.rows)
  <2>1. \A q \in Row : written.rows[q] = IF q = r THEN acked[r] + 1 ELSE stores[used].rows[q]
    BY <1>2, <1>5 DEF Table, Rows
  <2> HIDE DEF written
  <2>2. QED
    BY <1>1, <1>3, <2>1 DEF Stored
<1> HIDE DEF written
<1>8. stores' \in Tables /\ \A s \in Store : stores'[s] = IF s = used THEN written ELSE stores[s]
  BY <1>1, <1>5, <1>6 DEF TypeInv, TypeOK, Tables
<1>9. acked' \in Rows /\ \A q \in Row : q # r => acked'[q] = acked[q]
  <2>1. acked \in [Row -> 0..MaxVersion]
    BY DEF TypeInv, TypeOK, Rows
  <2>2. acked' = [acked EXCEPT ![r] = acked[r] + 1]
    BY DEF Write
  <2>3. acked[r] + 1 \in 0..MaxVersion
    BY <1>3
  <2> HIDE DEF r
  <2>4. QED
    BY <1>1, <2>1, <2>2, <2>3 DEF Rows
<1>10. QED
  BY <1>1, <1>5, <1>7, <1>8, <1>9 DEF Keeps

LEMMA WriteType ==
  ASSUME TypeInv, NEW k \in Keys, NEW t \in Time, Write(k, t)
  PROVE  TypeInv'
<1>1. /\ stores' \in Tables /\ \A s \in Asides : stores'[s] = stores[s]
      /\ acked' \in Rows
  BY WrittenRows, UsedNames, Names
<1>2. latest' \in [{Ts, Ch} -> [Keys -> Nat]]
  BY UsedNames, SMTT(60) DEF Write, TypeInv, TypeOK, Newer, Time
<1>3. /\ writes' \in Nat
      /\ UNCHANGED <<setup, service, files, now, pc, locals, cursor, pre, last, faults, kills, jobs>>
  BY SMTT(60) DEF Write, TypeInv, TypeOK
<1>4. QED
  BY <1>1, <1>2, <1>3 DEF TypeInv, TypeOK, Tables, setup, files, locals, cursor

LEMMA AroundType ==
  ASSUME TypeInv, Tick \/ StartByOperator \/ Kill \/ \E s \in Store : RemoveKept(s)
  PROVE  TypeInv'
<1>1. CASE Tick \/ StartByOperator
  BY <1>1 DEF Tick, StartByOperator, TypeInv, TypeOK, data, setup, files, locals, cursor, ghosts,
              bounds
<1>2. CASE Kill
  BY <1>2, HalfDoneLeaves, SwitchSteps
  DEF Kill, Return, TypeInv, TypeOK, Tables, files, locals, cursor, ghosts, Preparing, MayUndo
<1>3. ASSUME NEW s \in Store, RemoveKept(s)
      PROVE  TypeInv'
  <2>1. stores' \in Tables /\ acked' \in Rows /\ latest' \in [{Ts, Ch} -> [Keys -> Nat]]
    BY <1>3 DEF RemoveKept, TypeInv, TypeOK, Tables, Rows
  <2>2. /\ pc \in {"idle", "prepare", "copy", "copy_latest", "finish"}
        /\ UNCHANGED <<setup, service, files, now, pc, locals, cursor, pre, last, faults, bounds>>
    BY <1>3 DEF RemoveKept
  <2>3. QED
    BY <2>1, <2>2
    DEF TypeInv, TypeOK, Tables, setup, files, locals, cursor, bounds, Preparing, MayUndo
<1>4. QED
  BY <1>1, <1>2, <1>3

LEMMA StepType == TypeInv /\ [Next]_vars => TypeInv'
<1> SUFFICES ASSUME TypeInv, [Next]_vars PROVE TypeInv'
  OBVIOUS
<1>1. CASE UNCHANGED vars
  BY <1>1 DEF vars, data, setup, files, locals, cursor, ghosts, bounds, TypeInv, TypeOK
<1>2. CASE JobStep
  BY <1>2, PrepareType, ImageType, SetAsideType, CreateType, DeployType, AnswerType, UndoType,
     RecordType, CopyType, FinishType DEF JobStep
<1>3. CASE Next /\ ~JobStep
  BY <1>3, BeginType, RecordType, WriteType, AroundType DEF Next
<1>4. QED
  BY <1>1, <1>2, <1>3

(* Every variable keeps its type, and the names of tables stay those of    *)
(* tables: app/src/migration.rs, telemetry_move.rs.                        *)
THEOREM TypeCorrect == Spec => []TypeOK
<1>1. Spec => []TypeInv
  BY InitType, StepType, PTL DEF Spec
<1>2. TypeInv => TypeOK
  BY DEF TypeInv
<1>3. QED
  BY <1>1, <1>2, PTL

-----------------------------------------------------------------------------
(* Nothing is deleted.                                                     *)

NewStart == {"image", "aside"} \union MayUndo

NothingIn(s) == stores[s] = None \/ Stored(stores[s].rows) = {}

(* No table bears the name the next one set aside gets; SENTIENT is stopped *)
(* from before ts_kv is set aside until it need not be put back, so that the *)
(* new ts_kv holds nothing.                                                *)
KeptInv ==
  /\ NothingDeleted
  /\ \A n \in 1..MaxJobs : n > jobs \/ (n = jobs /\ pc \in Preparing) => stores[Aside(n)] = None
  /\ pc \in NewStart => service = "down"
  /\ pc = "create" => stores[Ts] = None
  /\ pc \in MayUndo \ {"create"} /\ aside # None => NothingIn(Ts)

LEMMA KeptOnes ==
  ASSUME stores \in Tables, stores' \in Tables, Keeps(stores, stores')
  PROVE  Everywhere \subseteq Everywhere'
BY DEF Everywhere, Keeps, Tables

LEMMA StillCovered ==
  ASSUME NothingDeleted, Everywhere \subseteq Everywhere',
         \A r \in Row : acked'[r] # 0 => acked[r] # 0 \/ r \in Everywhere'
  PROVE  NothingDeleted'
BY DEF NothingDeleted

(* A step that loses nothing and leaves the tables set aside alone. *)
Quiet ==
  /\ stores' \in Tables /\ Keeps(stores, stores') /\ acked' = acked
  /\ \A s \in Asides : stores'[s] = stores[s]

LEMMA QuietCovered ==
  ASSUME TypeInv, KeptInv, Quiet
  PROVE  NothingDeleted'
BY KeptOnes, StillCovered DEF Quiet, KeptInv, TypeInv, TypeOK, Tables

LEMMA QuietHalf ==
  ASSUME TypeInv, KeptInv, HalfDone(pc), UNCHANGED acked
  PROVE  Quiet
BY HalfDoneLeaves DEF Quiet, KeptInv

LEMMA QuietSame ==
  ASSUME TypeInv, UNCHANGED <<stores, acked>>
  PROVE  Quiet
BY DEF Quiet, TypeInv, TypeOK, Tables, Keeps

LEMMA QuietDeploy ==
  ASSUME TypeInv, NEW c \in Config, stores' = Deployed(c), UNCHANGED acked
  PROVE  Quiet /\ (NothingIn(Ts) => NothingIn(Ts)')
<1>1. stores \in Tables
  BY DEF TypeInv, TypeOK, Tables
<1>2. \A s \in Asides : Deployed(c)[s] = stores[s]
  BY <1>1, Names DEF Deployed, Tables
<1>3. QED
  BY <1>1, <1>2, DeployedTables, Names DEF Quiet, Keeps, NothingIn

LEMMA CreateSteps ==
  ASSUME TypeInv, KeptInv, CreateTable
  PROVE  Quiet /\ (pc' \in MayUndo => NothingIn(Ts)')
<1>1. CASE Fail("create", "image_back")
  BY <1>1, QuietHalf DEF CreateTable, Fail, Goto, MayUndo, ghosts
<1>2. CASE ~Fail("create", "image_back")
  BY <1>2, FreshTable, Names DEF CreateTable, Layout, TypeInv, TypeOK, Tables, KeptInv, ghosts,
     Quiet, Keeps, NothingIn
<1>3. QED
  BY <1>1, <1>2

LEMMA CopySteps ==
  ASSUME TypeInv, KeptInv, CopyWindow
  PROVE  Quiet
<1>1. CASE HalfDone(pc)
  BY <1>1, QuietHalf DEF CopyWindow, ghosts
<1>2. CASE UNCHANGED stores
  BY <1>2, QuietSame DEF CopyWindow, ghosts
<1>3. CASE ~Stuck /\ \E rows \in Inserted(InWindow(Source)) :
                       stores' = [stores EXCEPT ![Target].rows = rows]
  <2>1. Target \in {Ts, Ch}
    BY UsedNames DEF Target
  <2>2. QED
    BY <1>3, <2>1, InsertedRows, Names DEF CopyWindow, Stuck, Quiet, ghosts
<1>4. QED
  BY <1>1, <1>2, <1>3 DEF CopyWindow

LEMMA OtherSteps ==
  ASSUME TypeInv, KeptInv,
         \/ \E target \in Offered : BeginMigration(target)
         \/ Resume \/ Tick \/ StartByOperator \/ Kill
         \/ Prepare \/ StopSentient \/ PrepareImage \/ BringLatest \/ ImageBack \/ RestartAsWas
         \/ Answer \/ UndoStop \/ WriteRecord \/ SaveState \/ CopyLatest \/ Finish
  PROVE  Quiet
<1>1. acked' = acked
  BY DEF BeginMigration, Resume, Tick, StartByOperator, Kill, Prepare, StopSentient, PrepareImage,
     BringLatest, ImageBack, RestartAsWas, Answer, UndoStop, WriteRecord, SaveState, CopyLatest,
     Finish, ghosts
<1>2. stores' = stores \/ HalfDone(pc)
  BY DEF BeginMigration, Resume, Tick, StartByOperator, Kill, Prepare, StopSentient, PrepareImage,
     BringLatest, ImageBack, RestartAsWas, Answer, UndoStop, WriteRecord, SaveState, CopyLatest,
     Finish, data, Fail
<1>3. QED
  BY <1>1, <1>2, QuietSame, QuietHalf

LEMMA KeptInit == Init => KeptInv
<1> SUFFICES ASSUME Init PROVE KeptInv
  OBVIOUS
<1>1. PICK type \in InitialTypes, H \in Histories :
        /\ stores = [s \in Store |->
             IF s = Used(type) THEN [FirstTable(type, s) EXCEPT !.rows = RowsOf(H)]
             ELSE FirstTable(type, s)]
        /\ acked = RowsOf(H)
  BY DEF Init
<1>2. \A n \in 1..MaxJobs : stores[Aside(n)] = None
  BY <1>1, Names, UsedNames DEF FirstTable
<1>3. stores[Used(type)].rows = RowsOf(H) /\ stores[Used(type)] # None /\ Used(type) \in Store
  BY <1>1, FreshTable, UsedNames, Names DEF FirstLayout, Layout, Types, FirstTable, RowsOf, Rows,
     Table
<1>4. NothingDeleted
  BY <1>1, <1>3 DEF NothingDeleted, Everywhere, Stored
<1>5. pc = "idle"
  BY DEF Init
<1>6. QED
  BY <1>2, <1>4, <1>5 DEF KeptInv, NewStart, MayUndo, Preparing

(* The names above the last job's stay free. *)
LEMMA NamesFree ==
  ASSUME TypeInv, KeptInv, UNCHANGED jobs,
         pc' \in Preparing => pc \in Preparing,
         \A s \in Asides : stores'[s] = stores[s] \/ stores'[s] = None
  PROVE  \A n \in 1..MaxJobs :
           n > jobs' \/ (n = jobs' /\ pc' \in Preparing) => stores'[Aside(n)] = None
BY Names DEF KeptInv

(* The steps that leave ts_kv as it is, or nothing in it. *)
LEMMA KeptByQuiet ==
  ASSUME TypeInv, KeptInv, Quiet, UNCHANGED jobs,
         pc' \in Preparing => pc \in Preparing,
         pc' \in NewStart => service' = "down",
         pc' = "create" => stores'[Ts] = None,
         pc' \in MayUndo \ {"create"} /\ aside' # None => NothingIn(Ts)'
  PROVE  KeptInv'
BY QuietCovered, NamesFree DEF Quiet, KeptInv

LEMMA KeptBegin ==
  ASSUME TypeInv, KeptInv, NEW target \in Offered, BeginMigration(target)
  PROVE  KeptInv'
BY OtherSteps, QuietCovered DEF BeginMigration, Goto, data, TypeInv, TypeOK, KeptInv, NewStart,
   MayUndo, Preparing

LEMMA KeptPreparing ==
  ASSUME TypeInv, KeptInv,
         Prepare \/ StopSentient \/ PrepareImage \/ ImageBack \/ RestartAsWas
  PROVE  KeptInv'
<1>1. Quiet
  BY OtherSteps
<1>2. UNCHANGED jobs /\ pc' \notin MayUndo /\ pc' # "create"
  BY DEF Prepare, StopSentient, PrepareImage, ImageBack, RestartAsWas, Fail, Goto, Return, bounds,
     MayUndo
<1>3. pc' \in Preparing => pc \in Preparing
  BY DEF Prepare, StopSentient, PrepareImage, ImageBack, RestartAsWas, Fail, Goto, Return, Preparing
<1>4. pc' \in NewStart => service' = "down"
  BY <1>2 DEF Prepare, StopSentient, PrepareImage, ImageBack, RestartAsWas, Fail, Goto, Return,
     NewStart, KeptInv
<1>5. QED
  BY <1>1, <1>2, <1>3, <1>4, KeptByQuiet DEF MayUndo

LEMMA KeptSetAside ==
  ASSUME TypeInv, KeptInv, SetAside
  PROVE  KeptInv'
<1>0. /\ pc = "aside" /\ aside = None /\ jobs \in 1..MaxJobs /\ service = "down"
      /\ UNCHANGED <<service, jobs, acked>>
  BY DEF SetAside, TypeInv, TypeOK, KeptInv, NewStart, Preparing, ghosts, bounds
<1>1. CASE Fail("aside", "image_back") /\ UNCHANGED aside
  BY <1>0, <1>1, QuietHalf, KeptByQuiet DEF Fail, Goto, NewStart, MayUndo, Preparing
<1>2. CASE ~NeedsNew /\ Goto(AfterCreate) /\ UNCHANGED <<stores, setup, aside, faults>>
  BY <1>0, <1>2, QuietSame, KeptByQuiet DEF Goto, AfterCreate, NewStart, MayUndo, Preparing
<1>3. CASE NeedsNew /\ Goto("create")
  <2>1. /\ Aside(jobs) \in Store /\ Aside(jobs) # Ts /\ Ts \in Store
        /\ stores[Aside(jobs)] = None
    BY <1>0, Names DEF KeptInv, Preparing
  <2>2. pc' = "create"
    BY <1>3 DEF Goto
  <2>3. CASE stores[Ts] = None \/ Stored(stores[Ts].rows) = {}
    BY <1>0, <1>3, <2>1, <2>2, <2>3, Names, StillCovered, NamesFree DEF SetAside, Goto, Fail,
       TypeInv, TypeOK, Everywhere, KeptInv, NewStart, MayUndo, Preparing
  <2>4. CASE ~(stores[Ts] = None \/ Stored(stores[Ts].rows) = {})
    <3>1. stores' = [stores EXCEPT ![Aside(jobs)] = stores[Ts], ![Ts] = None]
      BY <1>3, <2>4 DEF SetAside, Goto, Fail
    <3>2. /\ stores'[Ts] = None /\ stores'[Aside(jobs)] = stores[Ts]
          /\ \A s \in Store \ {Ts, Aside(jobs)} : stores'[s] = stores[s]
      BY <2>1, <3>1 DEF TypeInv, TypeOK
    <3>3. Everywhere \subseteq Everywhere'
      BY <2>1, <3>2 DEF Everywhere
    <3>4. \A n \in 1..MaxJobs : n > jobs' => stores'[Aside(n)] = None
      BY <1>0, <3>2, Names DEF KeptInv
    <3>5. QED
      BY <1>0, <2>2, <3>2, <3>3, <3>4, StillCovered DEF KeptInv, NewStart, MayUndo, Preparing
  <2>5. QED
    BY <2>3, <2>4
<1>4. QED
  BY <1>1, <1>2, <1>3 DEF SetAside

LEMMA KeptCreate ==
  ASSUME TypeInv, KeptInv, CreateTable \/ BringLatest
  PROVE  KeptInv'
<1>1. Quiet /\ (pc' \in MayUndo /\ aside' # None => NothingIn(Ts)')
  BY CreateSteps, OtherSteps DEF BringLatest, Fail, Goto, KeptInv, MayUndo, NothingIn, locals
<1>2. /\ pc' \in {"latest", "deploy", "image_back"} /\ service' = "down" /\ UNCHANGED jobs
  BY DEF CreateTable, BringLatest, Fail, Goto, AfterCreate, KeptInv, NewStart, MayUndo, bounds
<1>3. QED
  BY <1>1, <1>2, KeptByQuiet DEF Preparing, MayUndo, NewStart

LEMMA KeptDeploy ==
  ASSUME TypeInv, KeptInv, Deploy
  PROVE  KeptInv'
<1>1. stores' \in {stores, Deployed(new)} /\ UNCHANGED acked
  BY DEF Deploy, Fail, HalfDone, ghosts
<1>2. new \in Config
  BY DEF TypeInv, TypeOK
<1>3. Quiet /\ (NothingIn(Ts) => NothingIn(Ts)')
  BY <1>1, <1>2, QuietDeploy, QuietSame DEF NothingIn
<1>4. pc' \in {"answer", "u_stop"} /\ service' = "down" /\ aside' = aside /\ UNCHANGED jobs
      /\ pc = "deploy"
  BY DEF Deploy, Fail, Goto, KeptInv, NewStart, MayUndo, bounds, locals
<1>5. pc \in MayUndo \ {"create"}
  BY <1>4 DEF MayUndo
<1>6. QED
  BY <1>3, <1>4, <1>5, KeptByQuiet DEF Preparing, MayUndo, NewStart, KeptInv

LEMMA KeptAnswer ==
  ASSUME LateAnswer = FALSE, TypeInv, KeptInv, Answer \/ UndoStop
  PROVE  KeptInv'
<1>1. Quiet
  BY OtherSteps
<1>2. UNCHANGED <<stores, aside, jobs>> /\ pc \in MayUndo \ {"create"}
  BY DEF Answer, UndoStop, data, locals, bounds, MayUndo
<1>3. pc' \in {"record", "u_stop", "u_stores"} /\ (pc' # "record" => service' = "down")
  BY DEF Answer, UndoStop, Goto, KeptInv, NewStart, MayUndo
<1>4. QED
  BY <1>1, <1>2, <1>3, KeptByQuiet DEF Preparing, MayUndo, NewStart, KeptInv, NothingIn

LEMMA KeptUndo ==
  ASSUME TypeInv, KeptInv, UndoStores \/ UndoDeploy
  PROVE  KeptInv'
<1>1. CASE UndoDeploy
  <2>1. Quiet
    BY <1>1, QuietHalf, QuietDeploy DEF UndoDeploy, ghosts, TypeInv, TypeOK
  <2>2. pc' = "idle" /\ UNCHANGED jobs
    BY <1>1 DEF UndoDeploy, Return, bounds
  <2>3. QED
    BY <2>1, <2>2, KeptByQuiet DEF Preparing, MayUndo, NewStart
<1>2. CASE UndoStores
  <2>1. pc = "u_stores" /\ pc' = "u_deploy" /\ UNCHANGED <<jobs, acked>>
    BY <1>2 DEF UndoStores, Goto, bounds, ghosts
  <2>2. CASE UNCHANGED stores
    BY <2>1, <2>2, QuietSame, KeptByQuiet DEF Preparing, MayUndo, NewStart
  <2>3. CASE aside # None /\ stores' = [stores EXCEPT ![Ts] = RenamedBack(stores[aside]),
                                                      ![aside] = None]
    BY <2>1, <2>3, Names, RenamedBackTable, StillCovered, NamesFree DEF TypeInv, TypeOK, KeptInv,
       MayUndo, Everywhere, NothingIn, Preparing, NewStart
  <2>4. QED
    BY <1>2, <2>2, <2>3 DEF UndoStores
<1>3. QED
  BY <1>1, <1>2

LEMMA KeptCopying ==
  ASSUME TypeInv, KeptInv, Resume \/ WriteRecord \/ SaveState \/ CopyWindow \/ CopyLatest \/ Finish
  PROVE  KeptInv'
<1>1. Quiet
  BY OtherSteps, CopySteps
<1>2. pc' \in {"idle", "save", "copy", "copy_latest", "finish"} /\ UNCHANGED jobs
  BY DEF Resume, WriteRecord, SaveState, CopyWindow, CopyLatest, Finish, CopyFrom, NextWindow, Goto,
     Return, bounds
<1>3. QED
  BY <1>1, <1>2, KeptByQuiet DEF Preparing, MayUndo, NewStart

LEMMA KeptAround ==
  ASSUME StartsAt \cap NewStart = {}, TypeInv, KeptInv,
         \/ \E k \in Keys, t \in Time : Write(k, t)
         \/ Tick \/ StartByOperator \/ Kill
         \/ \E s \in Store : RemoveKept(s)
  PROVE  KeptInv'
<1>1. ASSUME NEW k \in Keys, NEW t \in Time, Write(k, t)
      PROVE  KeptInv'
  <2>1. /\ stores' \in Tables /\ Keeps(stores, stores')
        /\ <<k, t>> \in Everywhere'
    BY <1>1, WrittenRows, UsedNames, Names DEF Everywhere
  <2>2. NothingDeleted'
    <3>1. Everywhere \subseteq Everywhere'
      BY <2>1, KeptOnes DEF TypeInv, TypeOK, Tables
    <3>2. \A r \in Row : acked'[r] # 0 => acked[r] # 0 \/ r \in Everywhere'
      BY <1>1, <2>1, WrittenRows
    <3>3. QED
      BY <3>1, <3>2, StillCovered DEF KeptInv
  <2>3. \A s \in Asides : stores'[s] = stores[s]
    BY <1>1, WrittenRows, UsedNames, Names
  <2>4. service = "up" /\ UNCHANGED <<service, pc, jobs>>
    BY <1>1 DEF Write
  <2>5. pc \notin NewStart
    BY <2>4 DEF KeptInv
  <2>6. QED
    BY <2>2, <2>3, <2>4, <2>5, NamesFree DEF KeptInv, NewStart, MayUndo
<1>2. CASE Tick \/ StartByOperator \/ Kill
  <2>1. Quiet
    BY <1>2, OtherSteps
  <2>2. CASE StartByOperator
    BY <2>1, <2>2, KeptByQuiet DEF StartByOperator, bounds, Preparing, MayUndo, NewStart
  <2>3. CASE Tick \/ Kill
    BY <2>1, <2>3, KeptByQuiet DEF Tick, Kill, Return, bounds, Preparing, MayUndo, NewStart
  <2> QED BY <1>2, <2>2, <2>3
<1>3. ASSUME NEW s \in Store, RemoveKept(s)
      PROVE  KeptInv'
  BY <1>3, Names, NamesFree DEF RemoveKept, bounds, NothingDeleted, TypeInv, TypeOK, KeptInv,
     Preparing, MayUndo, NewStart
<1>4. QED
  BY <1>1, <1>2, <1>3

LEMMA KeptStep ==
  ASSUME LateAnswer = FALSE, StartsAt \cap NewStart = {}, TypeInv, KeptInv, [Next]_vars
  PROVE  KeptInv'
<1>1. CASE UNCHANGED vars
  BY <1>1 DEF vars, data, setup, files, locals, cursor, ghosts, bounds, KeptInv, NothingDeleted,
              Everywhere, NothingIn
<1>2. CASE JobStep
  BY <1>2, KeptPreparing, KeptSetAside, KeptCreate, KeptDeploy, KeptAnswer, KeptUndo, KeptCopying
  DEF JobStep
<1>3. CASE Next /\ ~JobStep
  BY <1>3, KeptBegin, KeptCopying, KeptAround DEF Next
<1>4. QED
  BY <1>1, <1>2, <1>3

(* "Nothing is deleted" (app/src/migration.rs:17): if SENTIENT does not come *)
(* up once deploy has given up waiting for it, and nobody starts it between *)
(* its stop and its answer, every value it stored is in some table until   *)
(* the operator removes the last that holds it, whatever fails and wherever *)
(* jobs are killed.                                                        *)
THEOREM HistoryNotDeleted ==
  ASSUME LateAnswer = FALSE, StartsAt \cap NewStart = {}
  PROVE  Spec => []NothingDeleted
<1>1. Spec => []TypeInv
  BY InitType, StepType, PTL DEF Spec
<1>2. TypeInv /\ TypeInv' /\ KeptInv /\ [Next]_vars => KeptInv'
  BY KeptStep
<1>3. Spec => []KeptInv
  BY <1>1, <1>2, KeptInit, PTL DEF Spec
<1>4. KeptInv => NothingDeleted
  BY DEF KeptInv
<1>5. QED
  BY <1>3, <1>4, PTL

-----------------------------------------------------------------------------
(* The sources of an unfinished copy.                                      *)

(* No job is under way while a copy is unfinished, and SENTIENT writes where *)
(* the copy goes: the configuration is the new one from the switch on.     *)
SourceInv ==
  /\ Unfinished => pc \in {"idle", "copy", "copy_latest", "finish"} /\ conf.type = state.to
  /\ pc \in {"answer", "record", "save"} => conf = new

LEMMA SourceInit == Init => SourceInv
BY DEF Init, SourceInv, Unfinished

LEMMA SourceStep ==
  ASSUME TypeInv, SourceInv, [Next]_vars
  PROVE  SourceInv'
<1> USE DEF SourceInv, Unfinished, Goto, Return, setup, files, locals
<1>1. CASE UNCHANGED vars
  BY <1>1 DEF vars
<1>2. ASSUME NEW target \in Offered, BeginMigration(target)
      PROVE  SourceInv'
  BY <1>2 DEF BeginMigration
<1>3. CASE Prepare \/ StopSentient \/ RestartAsWas
  BY <1>3 DEF Prepare, StopSentient, RestartAsWas
<1>4. CASE PrepareImage \/ CreateTable \/ BringLatest \/ ImageBack
  BY <1>4 DEF PrepareImage, CreateTable, BringLatest, ImageBack, Fail, AfterCreate
<1>5. CASE SetAside
  BY <1>5 DEF SetAside, Fail, AfterCreate
<1>6. CASE Deploy
  BY <1>6 DEF Deploy, Fail, Deploys
<1>7. CASE Answer \/ UndoStop \/ UndoStores \/ UndoDeploy
  BY <1>7 DEF Answer, UndoStop, UndoStores, UndoDeploy
<1>8. CASE WriteRecord
  BY <1>8 DEF WriteRecord
<1>9. CASE SaveState
  BY <1>9 DEF SaveState, CopyFrom
<1>10. CASE Resume
  BY <1>10 DEF Resume, CopyFrom
<1>11. CASE CopyWindow
  BY <1>11 DEF CopyWindow, NextWindow, HalfDone
<1>12. CASE CopyLatest \/ Finish
  BY <1>12 DEF CopyLatest, Finish, TypeInv, State
<1>13. CASE Kill
  BY <1>13 DEF Kill, HalfDone, TypeInv
<1>14. ASSUME NEW k \in Keys, NEW t \in Time, Write(k, t)
       PROVE  SourceInv'
  BY <1>14 DEF Write
<1>15. CASE Tick \/ StartByOperator
  BY <1>15 DEF Tick, StartByOperator
<1>16. ASSUME NEW s \in Store, RemoveKept(s)
       PROVE  SourceInv'
  BY <1>16 DEF RemoveKept
<1>17. QED
  BY <1>1, <1>2, <1>3, <1>4, <1>5, <1>6, <1>7, <1>8, <1>9, <1>10, <1>11, <1>12, <1>13, <1>14,
     <1>15, <1>16 DEF Next, JobStep

(* Only where the copy goes to is written to while it is unfinished. *)
LEMMA OnlyTargetWritten ==
  ASSUME TypeInv, SourceInv, Unfinished, Next, ~(\E s \in Store : RemoveKept(s))
  PROVE  \A s \in Store : s # Target => stores'[s] = stores[s]
<1>1. pc \in {"idle", "copy", "copy_latest", "finish"} /\ conf.type = state.to
  BY DEF SourceInv
<1>2. CASE UNCHANGED stores
  BY <1>2
<1>3. ASSUME NEW k \in Keys, NEW t \in Time, Write(k, t)
      PROVE  \A s \in Store : s # Target => stores'[s] = stores[s]
  BY <1>1, <1>3, WrittenRows DEF Target
<1>4. CASE CopyWindow \/ Kill
  <2>1. CASE UNCHANGED stores
    BY <2>1
  <2>2. CASE /\ pc = "copy" /\ ~Missing
             /\ \E R \in SUBSET InWindow(Source) : \E rows \in Inserted(R) :
                  stores' = [stores EXCEPT ![Target].rows = rows]
    BY <2>2, InsertedRows
  <2>3. QED
    BY <1>1, <1>4, <2>1, <2>2 DEF CopyWindow, Stuck, Kill, HalfDone
<1>5. CASE ~(CopyWindow \/ Kill) /\ ~(\E k \in Keys, t \in Time : Write(k, t))
  BY <1>1, <1>5 DEF Next, JobStep, BeginMigration, Resume, Prepare, StopSentient, PrepareImage,
     SetAside, CreateTable, BringLatest, ImageBack, RestartAsWas, Deploy, Answer, UndoStop,
     UndoStores, UndoDeploy, WriteRecord, SaveState, CopyLatest, Finish, Tick, StartByOperator, data
<1>6. QED
  BY <1>3, <1>4, <1>5

(* While a copy is unfinished the tables it reads from are only the        *)
(* operator's to remove: nothing else writes to them, drops or renames     *)
(* them, so that app/src/migration.rs can continue the copy from where it is. *)
THEOREM CopySourceKept == Spec => SourceKept
<1>1. Spec => [](TypeInv /\ SourceInv)
  <2>1. Init => TypeInv /\ SourceInv
    BY InitType, SourceInit
  <2>2. TypeInv /\ SourceInv /\ [Next]_vars => (TypeInv /\ SourceInv)'
    BY StepType, SourceStep
  <2>3. QED
    BY <2>1, <2>2, PTL DEF Spec
<1>2. TypeInv /\ SourceInv /\ [Next]_vars =>
        [Unfinished /\ ~(\E s \in Store : RemoveKept(s)) =>
           \A i \in DOMAIN Legs(state) : stores'[Legs(state)[i]] = stores[Legs(state)[i]]]_vars
  BY LegsStores, OnlyTargetWritten DEF Unfinished, TypeInv, TypeOK, Target
<1>3. QED
  BY <1>1, <1>2, PTL DEF Spec, SourceKept

-----------------------------------------------------------------------------
(* A migration that failed is undone.                                      *)

(* The steps that are undone when the job fails, and those after them that *)
(* are not.                                                                *)
Switching == {"image", "aside", "image_back", "restart", "u_deploy"} \union MayUndo
Recording == {"record", "save"}
Copying == {"copy", "copy_latest", "finish"}

(* What the code recovers from: SENTIENT stays down when it has not        *)
(* answered; there is a history to move, and the operator leaves what an   *)
(* unfinished copy reads; nothing fails once ts_kv is set aside but what the *)
(* switch is made of, and the undoing does not fail; no kill from the image *)
(* to the state file.                                                      *)
Recoverable ==
  /\ LateAnswer = FALSE /\ StartsAt \cap Switching = {} /\ MayRemove \subseteq {"spare"}
  /\ \A H \in Histories : H # {}
  /\ MayFail \cap {"create", "latest", "image_back", "u_stores", "u_deploy", "record", "save"} = {}
  /\ Killable \cap (Switching \union Recording) = {}

LEMMA RecoverableStarts ==
  ASSUME Recoverable
  PROVE  StartsAt \cap NewStart = {}
BY DEF Recoverable, Switching, NewStart

(* The image of an installation deployed with c. *)
DeployedImage(c) == IF Docker THEN ImageFor(c) ELSE "native"

(* Between jobs SENTIENT has the configuration of the record, and its image; *)
(* until the switch a native one keeps it, and the old one is known.       *)
SetupInv ==
  /\ pc \in {"idle", "prepare", "stop"} \union Copying => conf = record
  /\ pc \in {"idle", "prepare", "stop", "answer"} \union Recording \union Copying =>
       image = DeployedImage(conf)
  /\ pc \in {"prepare", "stop"} \union Switching => old = record
  /\ pc \in Switching => pre.setup = <<old, DeployedImage(old)>>
  /\ pc \in {"image", "restart"} => conf = old /\ image = DeployedImage(old)
  /\ pc \in {"aside", "create", "latest", "deploy", "image_back"} /\ ~Docker => conf = old
  /\ pc = "save" => record = new
  /\ pc \in Copying => Unfinished

LEMMA SetupInit == Init => SetupInv
BY DEF Init, SetupInv, Switching, Recording, Copying, MayUndo, DeployedImage, Docker, ImageFor

(* What a configuration deployed, or half of it, leaves: native stays native. *)
LEMMA DeployedSetup ==
  ASSUME NEW c
  PROVE  /\ Deploys(c) => conf' = c /\ Docker' = Docker /\ image' = DeployedImage(c)
         /\ HalfDeploys(c) => Docker' = Docker
BY DEF Deploys, HalfDeploys, Docker, DeployedImage, ImageFor

LEMMA DockerStays ==
  ASSUME [Next]_vars
  PROVE  Docker' = Docker
<1>1. CASE UNCHANGED setup
  BY <1>1 DEF setup, Docker
<1>2. CASE HalfDone(pc)
  BY <1>2, DeployedSetup DEF HalfDone, setup, Docker
<1>3. CASE \E c \in {old, new} : Deploys(c)
  BY <1>3, DeployedSetup
<1>4. UNCHANGED setup \/ HalfDone(pc) \/ \E c \in {old, new} : Deploys(c)
  <2>1. CASE UNCHANGED vars
    BY <2>1 DEF vars
  <2>2. CASE PrepareImage \/ SetAside \/ CreateTable \/ BringLatest \/ ImageBack \/ Deploy
             \/ UndoDeploy \/ CopyWindow \/ Kill
    BY <2>2 DEF PrepareImage, SetAside, CreateTable, BringLatest, ImageBack, Deploy, UndoDeploy,
       CopyWindow, Kill, Fail
  <2>3. CASE Prepare \/ StopSentient \/ RestartAsWas \/ Answer \/ UndoStop \/ UndoStores
             \/ WriteRecord \/ SaveState \/ CopyLatest \/ Finish
    BY <2>3 DEF Prepare, StopSentient, RestartAsWas, Answer, UndoStop, UndoStores, WriteRecord,
       SaveState, CopyLatest, Finish
  <2>4. CASE Next /\ ~JobStep /\ ~Kill
    BY <2>4 DEF Next, BeginMigration, Resume, Write, Tick, StartByOperator, RemoveKept
  <2>5. QED
    BY <2>1, <2>2, <2>3, <2>4 DEF Next, JobStep
<1>5. QED
  BY <1>1, <1>2, <1>3, <1>4

(* What the state file will say. *)
Saved == [from |-> old.type, to |-> new.type, cutover |-> cutover, aside |-> aside, done |-> FALSE]

LEMMA SavedIs ==
  ASSUME TypeInv
  PROVE  /\ Saved \in State /\ Saved # None /\ ~Saved.done
         /\ Saved.from = old.type /\ Saved.to = new.type
         /\ Saved.cutover = cutover /\ Saved.aside = aside
<1>1. /\ old.type \in Types /\ new.type \in Types /\ cutover \in Nat
      /\ aside \in Asides \union {None}
  BY DEF TypeInv, TypeOK, Config
<1>2. Saved \in State
  BY <1>1 DEF Saved, State
<1>3. Saved # None
  BY <1>2
<1>4. ~Saved.done
  BY DEF Saved
<1>5. /\ Saved.from = old.type /\ Saved.to = new.type
      /\ Saved.cutover = cutover /\ Saved.aside = aside
  BY DEF Saved
<1>6. QED
  BY <1>2, <1>3, <1>4, <1>5

LEMMA SaveSteps ==
  ASSUME Recoverable, SaveState
  PROVE  state' = Saved /\ CopyFrom(Saved)
BY DEF Fails, Recoverable, SaveState, Saved

LEMMA SetupStep ==
  ASSUME Recoverable, TypeInv, SourceInv, SetupInv, [Next]_vars
  PROVE  SetupInv'
<1>0. Docker' = Docker /\ \A c : DeployedImage(c) = IF Docker THEN ImageFor(c) ELSE "native"
  BY DockerStays DEF DeployedImage
<1> USE DEF SetupInv, Switching, Recording, Copying, MayUndo, Unfinished, Goto, Return, setup,
            files, locals, ghosts
<1> HIDE DEF Docker
<1>1. CASE UNCHANGED vars
  BY <1>0, <1>1 DEF vars, DeployedImage
<1>2. ASSUME NEW target \in Offered, BeginMigration(target)
      PROVE  SetupInv'
  BY <1>0, <1>2 DEF BeginMigration, DeployedImage
<1>3. CASE Prepare
  BY <1>0, <1>3 DEF Prepare, DeployedImage
<1>4. CASE StopSentient
  BY <1>0, <1>4 DEF StopSentient, DeployedImage
<1>5. CASE PrepareImage
  BY <1>0, <1>5, DeployedSetup DEF PrepareImage, Fail, HalfDone, DeployedImage
<1>6. CASE SetAside
  BY <1>0, <1>6, DeployedSetup DEF SetAside, Fail, HalfDone, AfterCreate, DeployedImage
<1>7. CASE CreateTable
  BY <1>0, <1>7 DEF CreateTable, Fail, Fails, AfterCreate, DeployedImage, Recoverable
<1>8. CASE BringLatest
  BY <1>0, <1>8 DEF BringLatest, Fail, Fails, DeployedImage, Recoverable
<1>9. CASE ImageBack
  BY <1>0, <1>9, DeployedSetup DEF Docker, ImageBack, Fails, Recoverable, DeployedImage
<1>10. CASE RestartAsWas
  BY <1>0, <1>10 DEF RestartAsWas, DeployedImage
<1>11. CASE Deploy
  BY <1>0, <1>11, DeployedSetup DEF Deploy, Fail, DeployedImage
<1>12. CASE Answer \/ UndoStop \/ UndoStores
  BY <1>0, <1>12 DEF Answer, UndoStop, UndoStores, DeployedImage, SourceInv
<1>13. CASE UndoDeploy
  BY <1>0, <1>13, DeployedSetup DEF UndoDeploy, Fails, DeployedImage, Recoverable
<1>14. CASE WriteRecord
  BY <1>0, <1>14 DEF WriteRecord, Fails, DeployedImage, Recoverable, SourceInv
<1>15. CASE SaveState
  BY <1>0, <1>15, SaveSteps, SavedIs DEF SaveState, CopyFrom, Fails, Recoverable, DeployedImage,
     SourceInv
<1>16. CASE Resume
  BY <1>0, <1>16 DEF Resume, CopyFrom, DeployedImage
<1>17. CASE CopyWindow
  BY <1>0, <1>17 DEF CopyWindow, NextWindow, HalfDone, DeployedImage
<1>18. CASE CopyLatest \/ Finish
  BY <1>0, <1>18 DEF CopyLatest, Finish, DeployedImage, TypeInv, State
<1>19. CASE Kill
  BY <1>0, <1>19 DEF Kill, Recoverable, TypeInv, TypeOK, Steps, HalfDone, DeployedImage
<1>20. ASSUME NEW k \in Keys, NEW t \in Time, Write(k, t)
       PROVE  SetupInv'
  BY <1>0, <1>20 DEF Write, DeployedImage
<1>21. CASE Tick \/ StartByOperator
  BY <1>0, <1>21 DEF Tick, StartByOperator, DeployedImage
<1>22. ASSUME NEW s \in Store, RemoveKept(s)
       PROVE  SetupInv'
  BY <1>0, <1>22 DEF RemoveKept, DeployedImage
<1>23. QED
  BY <1>1, <1>2, <1>3, <1>4, <1>5, <1>6, <1>7, <1>8, <1>9, <1>10, <1>11, <1>12, <1>13, <1>14,
     <1>15, <1>16, <1>17, <1>18, <1>19, <1>20, <1>21, <1>22 DEF Next, JobStep

-----------------------------------------------------------------------------
(* The times of what is stored.                                            *)

(* The time of no stored value is to come. *)
Past == \A r \in Everywhere : r[2] <= now

LEMMA PastInit == Init => Past
<1> SUFFICES ASSUME Init PROVE Past
  OBVIOUS
<1>1. PICK type \in InitialTypes, H \in Histories :
        stores = [s \in Store |->
          IF s = Used(type) THEN [FirstTable(type, s) EXCEPT !.rows = RowsOf(H)]
          ELSE FirstTable(type, s)]
  BY DEF Init
<1>2. ASSUME NEW layout \in Layout, NEW rows \in Rows
      PROVE  /\ [Fresh(layout) EXCEPT !.rows = rows].rows = rows
             /\ Fresh(layout) # None /\ Stored(Fresh(layout).rows) = {}
  BY FreshTable DEF Fresh
<1>3. RowsOf(H) \in Rows /\ \A r \in Stored(RowsOf(H)) : r[2] <= now
  BY DEF RowsOf, Rows, Stored, Init
<1>4. ASSUME NEW s \in Store, stores[s] # None
      PROVE  Stored(stores[s].rows) \subseteq Stored(RowsOf(H))
  BY <1>1, <1>2, <1>3, <1>4 DEF FirstLayout, Layout, Types, FirstTable
<1>5. QED
  BY <1>3, <1>4 DEF Past, Everywhere

(* No table has a row that no table had. *)
NoneNew(from, to) ==
  \A s \in Store : to[s] # None =>
    \A r \in Stored(to[s].rows) : \E n \in Store : from[n] # None /\ r \in Stored(from[n].rows)

LEMMA DeployedAdds ==
  ASSUME stores \in Tables, NEW c \in Config
  PROVE  NoneNew(stores, Deployed(c))
<1>1. \A s \in Store : stores[s] # None => Stored(Deployed(c)[s].rows) = Stored(stores[s].rows)
  BY DeployedTables
<1>2. \A s \in Store : stores[s] = None /\ Deployed(c)[s] # None =>
        s = Ch /\ Deployed(c)[s] = Fresh("clickhouse")
  <2>1. \A s \in Store \ {Ch} : Deployed(c)[s] = None <=> stores[s] = None
    BY DeployedTables
  <2>2. Deployed(c)[Ch] = IF c.type = "clickhouse" /\ stores[Ch] = None THEN Fresh("clickhouse")
                          ELSE stores[Ch]
    BY Names DEF Deployed, Tables
  <2>3. QED
    BY <2>1, <2>2
<1>3. Stored(Fresh("clickhouse").rows) = {}
  BY FreshTable DEF Layout
<1>4. QED
  BY <1>1, <1>2, <1>3 DEF NoneNew

LEMMA InsertedAdds ==
  ASSUME TypeInv, pc = "copy", ~Missing,
         NEW R \in SUBSET InWindow(Source), NEW rows \in Inserted(R),
         stores' = [stores EXCEPT ![Target].rows = rows]
  PROVE  NoneNew(stores, stores')
<1>1. Source \in Store /\ Target \in Store
  BY LegsStores, UsedNames, Names DEF TypeInv, Source, Target
<1>2. stores[Source] \in Table /\ stores[Target] \in Table
  BY <1>1 DEF TypeInv, TypeOK, Missing, LayoutOf
<1>3. \A r \in R : r \in Stored(stores[Source].rows)
  BY DEF InWindow
<1>4. \A r \in Stored(rows) : r \in Stored(stores[Source].rows) \/ r \in Stored(stores[Target].rows)
  BY <1>3 DEF Stored, Inserted
<1>5. /\ \A s \in Store : s # Target => stores'[s] = stores[s]
      /\ stores'[Target].rows = rows
  BY <1>1, <1>2 DEF TypeInv, TypeOK, Table
<1>6. stores[Source] # None /\ stores[Target] # None
  BY <1>2
<1>7. QED
  BY <1>1, <1>4, <1>5, <1>6 DEF NoneNew

LEMMA NoneNewSame ==
  ASSUME NEW S
  PROVE  NoneNew(S, S)
BY DEF NoneNew

LEMMA HalfDoneAdds ==
  ASSUME TypeInv, HalfDone(pc)
  PROVE  NoneNew(stores, stores')
<1>0. stores \in Tables /\ old \in Config /\ new \in Config
  BY DEF TypeInv, TypeOK, Tables
<1>1. CASE UNCHANGED stores
  BY <1>1, NoneNewSame
<1>2. CASE \E c \in {old, new} : stores' = Deployed(c)
  BY <1>0, <1>2, DeployedAdds
<1>3. CASE LayoutOf(Ts) = "partitioned" /\ stores' = [stores EXCEPT ![Ts] = RenamedBack(@)]
  BY <1>0, <1>3, Names, RenamedBackTable DEF LayoutOf, Tables, NoneNew
<1>4. CASE stores' = [stores EXCEPT ![Ts] = Fresh("plain")]
  BY <1>0, <1>4, FreshTable DEF Layout, Tables, NoneNew
<1>5. CASE /\ pc = "copy" /\ Target = Ch /\ ~Missing
           /\ \E R \in SUBSET InWindow(Source) : \E rows \in Inserted(R) :
                stores' = [stores EXCEPT ![Ch].rows = rows]
  BY <1>5, InsertedAdds
<1>6. QED
  BY <1>1, <1>2, <1>3, <1>4, <1>5 DEF HalfDone

LEMMA JobAdds ==
  ASSUME TypeInv, SetAside \/ CreateTable \/ Deploy \/ UndoStores \/ UndoDeploy \/ CopyWindow
  PROVE  NoneNew(stores, stores')
<1>0. /\ stores \in Tables /\ old \in Config /\ new \in Config
      /\ jobs \in 0..MaxJobs /\ aside \in Asides \union {None}
  BY DEF TypeInv, TypeOK, Tables
<1>1. CASE UNCHANGED stores
  BY <1>1, NoneNewSame
<1>2. CASE HalfDone(pc)
  BY <1>2, HalfDoneAdds
<1>3. CASE \E c \in {old, new} : stores' = Deployed(c)
  BY <1>0, <1>3, DeployedAdds
<1>4. CASE SetAside /\ NeedsNew /\ Goto("create")
  <2>1. Aside(jobs) \in Store /\ Aside(jobs) # Ts /\ Ts \in Store
    BY <1>0, <1>4, Names DEF SetAside, TypeInv, Preparing
  <2>2. \/ stores' = [stores EXCEPT ![Ts] = None]
        \/ stores' = [stores EXCEPT ![Aside(jobs)] = stores[Ts], ![Ts] = None]
    BY <1>4 DEF SetAside, Fail, Goto
  <2>3. CASE stores' = [stores EXCEPT ![Ts] = None]
    BY <1>0, <2>3 DEF Tables, NoneNew
  <2>4. CASE stores' = [stores EXCEPT ![Aside(jobs)] = stores[Ts], ![Ts] = None]
    BY <1>0, <2>1, <2>4 DEF Tables, NoneNew
  <2>5. QED
    BY <2>2, <2>3, <2>4
<1>5. ASSUME NEW layout \in {"partitioned", "hypertable"},
             stores' = [stores EXCEPT ![Ts] = Fresh(layout)]
      PROVE  NoneNew(stores, stores')
  BY <1>0, <1>5, FreshTable DEF Layout, Tables, NoneNew
<1>6. CASE /\ pc = "u_stores" /\ aside # None
           /\ stores' = [stores EXCEPT ![Ts] = RenamedBack(stores[aside]), ![aside] = None]
  BY <1>0, <1>6, Names, RenamedBackTable DEF TypeInv, MayUndo, Tables, NoneNew
<1>7. CASE /\ pc = "copy" /\ ~Missing
           /\ \E rows \in Inserted(InWindow(Source)) :
                stores' = [stores EXCEPT ![Target].rows = rows]
  BY <1>7, InsertedAdds
<1>8. QED
  BY <1>1, <1>2, <1>3, <1>4, <1>5, <1>6, <1>7 DEF SetAside, Fail, CreateTable, Deploy, UndoStores,
     UndoDeploy, CopyWindow, Stuck

LEMMA PastKept ==
  ASSUME Past, TypeInv, NoneNew(stores, stores'), now' \in {now, now + 1}
  PROVE  Past'
BY DEF NoneNew, Everywhere, Stored, Row, Time, TypeInv, TypeOK, Past

(* A value written is the only one added, to a table with the shape it had. *)
LEMMA WrittenMore ==
  ASSUME TypeInv, NEW k \in Keys, NEW t \in Time, Write(k, t)
  PROVE  /\ Used(conf.type) \in Store /\ stores[Used(conf.type)] # None
         /\ \A s \in Store : s # Used(conf.type) => stores'[s] = stores[s]
         /\ \A r \in Stored(stores'[Used(conf.type)].rows) :
              r = <<k, t>> \/ r \in Stored(stores[Used(conf.type)].rows)
         /\ \A s \in Store : LayoutOf(s)' = LayoutOf(s)
<1> DEFINE used == Used(conf.type)
           r == <<k, t>>
<1>1. used \in Store /\ r \in Row
  BY UsedNames, Names DEF Row
<1>2. stores[used] \in Table
  <2>1. conf.type \in Types
    BY DEF TypeInv, TypeOK, Config
  <2>2. "missing" \notin Shape(conf.type)
    BY <2>1 DEF Shape, Types
  <2>3. QED
    BY <1>1, <2>2 DEF Write, Accepts, LayoutOf, TypeInv, TypeOK
<1> DEFINE written == [stores[used] EXCEPT !.rows = [@ EXCEPT ![r] = acked[r] + 1]]
<1>3. /\ written.rows = [stores[used].rows EXCEPT ![r] = acked[r] + 1]
      /\ written.layout = stores[used].layout
  BY <1>2 DEF Table
<1>4. stores' = [stores EXCEPT ![used] = written]
  BY DEF Write
<1>5. \A q \in Stored(written.rows) : q = r \/ q \in Stored(stores[used].rows)
  <2>1. \A q \in Row : written.rows[q] = IF q = r THEN acked[r] + 1 ELSE stores[used].rows[q]
    BY <1>2, <1>3 DEF Table, Rows
  <2> HIDE DEF written, r
  <2>2. QED
    BY <2>1 DEF Stored
<1>6. stores[used] # None /\ stores'[used] # None
  BY <1>2, WrittenRows
<1> HIDE DEF written, r
<1>7. \A s \in Store : stores'[s] = IF s = used THEN written ELSE stores[s]
  BY <1>1, <1>4 DEF TypeInv, TypeOK
<1>8. \A s \in Store : LayoutOf(s)' = LayoutOf(s)
  BY <1>1, <1>3, <1>6, <1>7 DEF LayoutOf
<1>9. QED
  BY <1>1, <1>5, <1>6, <1>7, <1>8 DEF r

LEMMA PastStep ==
  ASSUME TypeInv, Past, [Next]_vars
  PROVE  Past'
<1>1. CASE UNCHANGED <<stores, now>>
  BY <1>1, NoneNewSame, PastKept
<1>2. CASE UNCHANGED stores /\ now' = now + 1
  BY <1>2, NoneNewSame, PastKept
<1>3. CASE SetAside \/ CreateTable \/ Deploy \/ UndoStores \/ UndoDeploy \/ CopyWindow
  BY <1>3, JobAdds, PastKept DEF SetAside, CreateTable, Deploy, UndoStores, UndoDeploy, CopyWindow
<1>4. CASE HalfDone(pc) /\ now' = now
  BY <1>4, HalfDoneAdds, PastKept
<1>5. ASSUME NEW k \in Keys, NEW t \in Time, Write(k, t)
      PROVE  Past'
  <2>1. now' = now /\ t <= now
    <3>1. now \in Nat /\ t \in Nat
      BY DEF TypeInv, TypeOK, Time
    <3>2. QED
      BY <1>5, <3>1 DEF Write
  <2>2. /\ Used(conf.type) \in Store /\ stores[Used(conf.type)] # None
        /\ \A s \in Store : s # Used(conf.type) => stores'[s] = stores[s]
        /\ \A r \in Stored(stores'[Used(conf.type)].rows) :
             r = <<k, t>> \/ r \in Stored(stores[Used(conf.type)].rows)
    BY <1>5, WrittenMore
  <2>3. \A r \in Everywhere' : r = <<k, t>> \/ r \in Everywhere
    BY <2>2 DEF Everywhere
  <2>4. QED
    BY <2>1, <2>3 DEF Past
<1>6. ASSUME NEW s \in Store, RemoveKept(s)
      PROVE  Past'
  BY <1>6, PastKept DEF RemoveKept, TypeInv, TypeOK, NoneNew
<1>7. QED
  <2>1. CASE UNCHANGED vars
    BY <1>1, <2>1 DEF vars, data
  <2>2. CASE Prepare \/ StopSentient \/ PrepareImage \/ BringLatest \/ ImageBack \/ RestartAsWas
             \/ Answer \/ UndoStop \/ WriteRecord \/ SaveState \/ CopyLatest \/ Finish \/ Kill
    BY <1>1, <1>2, <1>4, <2>2 DEF Prepare, StopSentient, PrepareImage, BringLatest, ImageBack,
       RestartAsWas, Answer, UndoStop, WriteRecord, SaveState, CopyLatest, Finish, Kill, Fail, data
  <2>3. CASE Resume \/ Tick \/ StartByOperator \/ \E target \in Offered : BeginMigration(target)
    BY <1>1, <1>2, <2>3 DEF Resume, Tick, StartByOperator, BeginMigration, data
  <2>4. QED
    BY <1>3, <1>5, <1>6, <2>1, <2>2, <2>3 DEF Next, JobStep

-----------------------------------------------------------------------------
(* ts_kv during the switch.                                                *)

Holds(s) == stores[s] # None /\ Stored(stores[s].rows) # {}

(* A history that began before the switch. *)
Earlier(rows) == \E r \in Stored(rows) : r[2] < cutover

(* What FailedMigrationUndone is about: a ts_kv with rows, or in use. *)
Counts == old.type # "clickhouse" \/ Stored(pre.ts.rows) # {}

(* This table is the ts_kv of before. *)
AsBefore(s) ==
  stores[s] # None /\ stores[s].layout = pre.ts.layout /\ stores[s].rows = pre.ts.rows

(* From the stop of SENTIENT to its answer ts_kv is as it was, or is set   *)
(* aside, or was neither in use nor filled; what is to be copied is where  *)
(* it was.                                                                 *)
SwitchInv ==
  /\ pc # "create" => stores[Ts] # None
  /\ pc \in Switching => service = "down"
  /\ pc \in Switching \union Recording =>
       IF old.type = "clickhouse" THEN stores[Ch] # None /\ Earlier(stores[Ch].rows)
       ELSE Earlier(pre.ts.rows)
  /\ pc \in {"image", "aside", "image_back", "restart"} => AsBefore(Ts)
  /\ pc \in MayUndo => IF aside # None THEN AsBefore(aside) ELSE (Counts => AsBefore(Ts))
  /\ pc = "u_deploy" => (Counts => AsBefore(Ts))

(* Between jobs the table in use has rows, or there is something to copy   *)
(* to it, at the place of the copy or after it.                            *)
Waiting(s, i, r) ==
  stores[Legs(s)[i]] # None /\ r \in Stored(stores[Legs(s)[i]].rows) /\ r[2] < s.cutover

Ahead(i, r) == leg < i \/ (leg = i /\ month <= MonthOf[r[2]])

UseInv ==
  /\ pc \in {"idle", "prepare", "stop"} /\ ~Unfinished => Holds(Used(record.type))
  /\ pc \in Recording =>
       Holds(Used(new.type)) \/ \E i \in DOMAIN Legs(Saved), r \in Row : Waiting(Saved, i, r)
  /\ Unfinished =>
       \/ Holds(Used(state.to))
       \/ /\ pc \in {"idle", "copy"}
          /\ \E i \in DOMAIN Legs(state), r \in Row :
               Waiting(state, i, r) /\ (pc = "copy" => Ahead(i, r))

LEMMA SwitchInit == Init => SwitchInv
<1> SUFFICES ASSUME Init PROVE SwitchInv
  OBVIOUS
<1>1. pc = "idle"
  BY DEF Init
<1>2. stores[Ts] # None
  <2>1. PICK type \in InitialTypes, H \in Histories :
          stores = [s \in Store |->
            IF s = Used(type) THEN [FirstTable(type, s) EXCEPT !.rows = RowsOf(H)]
            ELSE FirstTable(type, s)]
    BY DEF Init
  <2>2. FirstLayout[type] \in Layout
    <3>1. type \in Types
      OBVIOUS
    <3>2. QED
      BY <3>1 DEF FirstLayout, Layout, Types
  <2>3. Fresh(FirstLayout[type]) \in Table /\ RowsOf(H) \in Rows
    BY <2>2, FreshTable DEF RowsOf, Rows
  <2>4. [Fresh(FirstLayout[type]) EXCEPT !.rows = RowsOf(H)] \in Table
    BY <2>3 DEF Table
  <2>5. stores[Ts] \in Table
    BY <2>1, <2>3, <2>4, Names DEF FirstTable
  <2>6. QED
    BY <2>5
<1>3. QED
  BY <1>1, <1>2 DEF SwitchInv, Switching, Recording, MayUndo

(* The steps that leave the switch's tables and what they are compared with. *)
LEMMA SwitchSame ==
  ASSUME SwitchInv, UNCHANGED <<stores, pre, old, aside, cutover>>,
         pc' # "create",
         pc' \in Switching => service' = "down",
         pc' \in Switching \union Recording => pc \in Switching \union Recording,
         pc' \in {"image", "aside", "image_back", "restart"} =>
           pc \in {"image", "aside", "image_back", "restart"},
         pc' \in MayUndo => pc \in MayUndo,
         pc' # "u_deploy" /\ pc # "create"
  PROVE  SwitchInv'
BY DEF SwitchInv, Earlier, AsBefore, Counts

LEMMA SwitchPreparing ==
  ASSUME TypeInv, SourceInv, SetupInv, Past, UseInv, SwitchInv, Prepare \/ StopSentient
  PROVE  SwitchInv'
<1>1. pc \in {"prepare", "stop"} /\ ~Unfinished /\ old = record /\ UNCHANGED <<stores, old>>
  BY DEF Prepare, StopSentient, SourceInv, SetupInv, data, locals, Copying, Switching
<1>2. stores[Ts] # None
  BY <1>1 DEF SwitchInv
<1>3. CASE pc' \in {"idle", "stop"}
  BY <1>1, <1>2, <1>3 DEF SwitchInv, Switching, Recording, MayUndo
<1>4. CASE StopSentient /\ pc' = "image"
  <2>1. /\ service' = "down" /\ cutover' = now + 1 /\ pre'.ts = stores[Ts]
    BY <1>4 DEF StopSentient, Return
  <2>2. Holds(Used(old.type)) /\ Used(old.type) \in Store
    BY <1>1, UsedNames, Names DEF UseInv
  <2>3. \A r \in Stored(stores[Used(old.type)].rows) : r[2] <= now
    BY <2>2 DEF Past, Everywhere, Holds
  <2>4. \A r \in Stored(stores[Used(old.type)].rows) : r[2] \in Nat
    BY DEF Stored, Row, Time
  <2>5. now \in Nat
    BY DEF TypeInv, TypeOK
  <2>6. PICK r \in Stored(stores[Used(old.type)].rows) : r[2] < cutover'
    BY <2>1, <2>2, <2>3, <2>4, <2>5 DEF Holds
  <2>7. IF old'.type = "clickhouse" THEN stores'[Ch] # None /\ Earlier(stores[Ch].rows)'
        ELSE Earlier(pre.ts.rows)'
    BY <1>1, <2>1, <2>2, <2>6 DEF Used, Earlier, Holds, Stored
  <2>8. AsBefore(Ts)'
    BY <1>1, <1>2, <2>1 DEF AsBefore
  <2>9. QED
    BY <1>1, <1>2, <1>4, <2>1, <2>7, <2>8 DEF SwitchInv, Switching, Recording, MayUndo
<1>5. QED
  BY <1>3, <1>4 DEF Prepare, StopSentient, Goto, Return

LEMMA SwitchImage ==
  ASSUME Recoverable, TypeInv, SwitchInv, PrepareImage \/ BringLatest \/ ImageBack \/ RestartAsWas
  PROVE  SwitchInv'
<1>1. UNCHANGED <<stores, pre, old, aside, cutover>>
  BY DEF PrepareImage, BringLatest, ImageBack, RestartAsWas, Fail, Fails, HalfDone, Recoverable,
     data, ghosts, locals
<1>2. /\ pc' # "create" /\ pc' # "u_deploy" /\ pc # "create"
      /\ pc' \in Switching => service' = "down"
      /\ pc' \in Switching \union Recording => pc \in Switching \union Recording
      /\ pc' \in {"image", "aside", "image_back", "restart"} =>
           pc \in {"image", "aside", "image_back", "restart"}
      /\ pc' \in MayUndo => pc \in MayUndo
  BY DEF PrepareImage, BringLatest, ImageBack, RestartAsWas, Fail, Fails, Goto, Return, Recoverable,
     SwitchInv, Switching, Recording, MayUndo
<1>3. QED
  BY <1>1, <1>2, SwitchSame

LEMMA SwitchAside ==
  ASSUME TypeInv, SwitchInv, SetAside
  PROVE  SwitchInv'
<1>0. /\ pc = "aside" /\ aside = None /\ jobs \in 1..MaxJobs /\ service' = "down"
      /\ UNCHANGED <<pre, old, cutover>>
      /\ AsBefore(Ts) /\ stores[Ts] \in Table
      /\ IF old.type = "clickhouse" THEN stores[Ch] # None /\ Earlier(stores[Ch].rows)
         ELSE Earlier(pre.ts.rows)
  BY Names DEF SetAside, TypeInv, TypeOK, SwitchInv, Preparing, Switching, ghosts, AsBefore
<1>1. CASE Fail("aside", "image_back") /\ UNCHANGED aside
  <2>1. pc' = "image_back" /\ stores' \in {stores, [stores EXCEPT ![Ts] = RenamedBack(@)]}
    BY <1>1 DEF Fail, Goto, HalfDone
  <2>2. RenamedBack(stores[Ts]).rows = stores[Ts].rows
        /\ RenamedBack(stores[Ts]).layout = stores[Ts].layout
        /\ RenamedBack(stores[Ts]) # None
    BY <1>0, RenamedBackTable DEF RenamedBack, Table
  <2>3. AsBefore(Ts)' /\ stores'[Ch] = stores[Ch]
    BY <1>0, <2>1, <2>2, Names DEF AsBefore, TypeInv, TypeOK
  <2>4. QED
    BY <1>0, <2>1, <2>3 DEF SwitchInv, Switching, Recording, MayUndo, AsBefore, Earlier
<1>2. CASE ~NeedsNew /\ Goto(AfterCreate) /\ UNCHANGED <<stores, setup, aside, faults>>
  BY <1>0, <1>2 DEF Goto, AfterCreate, SwitchInv, Switching, Recording, MayUndo, AsBefore, Earlier
<1>3. CASE NeedsNew /\ Goto("create")
  <2>1. pc' = "create" /\ Aside(jobs) \in Store /\ Aside(jobs) \notin {Ts, Ch} /\ Ts \in Store
        /\ Aside(jobs) # None /\ Ch \in Store /\ Ts # Ch
    BY <1>0, <1>3, Names DEF Goto
  <2>2. CASE Stored(stores[Ts].rows) = {}
    <3>1. stores' = [stores EXCEPT ![Ts] = None] /\ aside' = None
      BY <1>0, <1>3, <2>2 DEF SetAside, Goto, Fail
    <3>2. stores'[Ch] = stores[Ch]
      BY <2>1, <3>1 DEF TypeInv, TypeOK
    <3>3. Stored(pre.ts.rows) = {} /\ old.type = "clickhouse"
      BY <1>0, <2>2 DEF AsBefore, Earlier
    <3>4. ~Counts'
      BY <1>0, <3>3 DEF Counts
    <3>5. QED
      BY <1>0, <2>1, <3>1, <3>2, <3>3, <3>4 DEF SwitchInv, Switching, Recording, MayUndo, Earlier
  <2>3. CASE Stored(stores[Ts].rows) # {}
    <3>1. stores' = [stores EXCEPT ![Aside(jobs)] = stores[Ts], ![Ts] = None]
          /\ aside' = Aside(jobs)
      BY <1>0, <1>3, <2>3 DEF SetAside, Goto, Fail
    <3>2. stores'[Ch] = stores[Ch] /\ stores'[Aside(jobs)] = stores[Ts]
      BY <2>1, <3>1 DEF TypeInv, TypeOK
    <3>3. AsBefore(aside)' /\ aside' # None
      BY <1>0, <2>1, <3>1, <3>2 DEF AsBefore
    <3>4. QED
      BY <1>0, <2>1, <3>2, <3>3 DEF SwitchInv, Switching, Recording, MayUndo, Earlier
  <2>4. QED
    BY <2>2, <2>3
<1>4. QED
  BY <1>1, <1>2, <1>3 DEF SetAside

LEMMA SwitchCreate ==
  ASSUME Recoverable, TypeInv, KeptInv, SwitchInv, CreateTable
  PROVE  SwitchInv'
<1>0. /\ pc = "create" /\ stores[Ts] = None /\ service' = "down"
      /\ UNCHANGED <<pre, old, cutover, aside>>
      /\ IF old.type = "clickhouse" THEN stores[Ch] # None /\ Earlier(stores[Ch].rows)
         ELSE Earlier(pre.ts.rows)
      /\ aside # None => AsBefore(aside)
      /\ aside = None => ~Counts
  BY DEF CreateTable, KeptInv, SwitchInv, Switching, MayUndo, ghosts, locals, AsBefore
<1>1. pc' \in {"latest", "deploy"}
      /\ \E layout \in {"partitioned", "hypertable"} : stores' = [stores EXCEPT ![Ts] = Fresh(layout)]
  BY DEF CreateTable, Fail, Fails, Recoverable, Goto, AfterCreate
<1>2. PICK layout \in {"partitioned", "hypertable"} : stores' = [stores EXCEPT ![Ts] = Fresh(layout)]
  BY <1>1
<1>3. Fresh(layout) # None
  BY FreshTable DEF Layout
<1>4. /\ stores'[Ts] = Fresh(layout) /\ stores'[Ch] = stores[Ch]
      /\ aside # None => stores'[aside] = stores[aside]
  BY <1>2, Names DEF TypeInv, TypeOK
<1>5. ~Counts' <=> ~Counts
  BY <1>0 DEF Counts
<1>6. aside' # None => AsBefore(aside)'
  BY <1>0, <1>4 DEF AsBefore
<1>7. QED
  BY <1>0, <1>1, <1>3, <1>4, <1>5, <1>6 DEF SwitchInv, Switching, Recording, MayUndo, Earlier

(* Deploying leaves ts_kv as it was when that matters, and every table aside. *)
LEMMA DeploySame ==
  ASSUME TypeInv, NEW c \in Config, stores' \in {stores, Deployed(c)}, UNCHANGED <<pre, old, cutover>>,
         stores[Ts] # None
  PROVE  /\ stores'[Ts] # None /\ \A s \in Asides : stores'[s] = stores[s]
         /\ stores[Ch] # None => stores'[Ch] = stores[Ch]
         /\ AsBefore(Ts) /\ (Stored(pre.ts.rows) # {} \/ c.type # "stock") => AsBefore(Ts)'
BY Names, DeployedTables DEF TypeInv, TypeOK, Tables, Deployed, StockFix, AsBefore

LEMMA SwitchDeploy ==
  ASSUME Recoverable, TypeInv, SwitchInv, Deploy
  PROVE  SwitchInv'
<1>0. /\ pc = "deploy" /\ service' = "down" /\ stores[Ts] # None
      /\ UNCHANGED <<pre, old, cutover, aside>>
      /\ IF old.type = "clickhouse" THEN stores[Ch] # None /\ Earlier(stores[Ch].rows)
         ELSE Earlier(pre.ts.rows)
      /\ IF aside # None THEN AsBefore(aside) ELSE (Counts => AsBefore(Ts))
  BY DEF Deploy, SwitchInv, Switching, MayUndo, ghosts, locals
<1>1. pc' \in {"answer", "u_stop"} /\ stores' \in {stores, Deployed(new)}
  BY DEF Deploy, Fail, Goto, HalfDone
<1>2. new \in Config /\ aside \in Asides \union {None}
  BY DEF TypeInv, TypeOK
<1>3. /\ stores'[Ts] # None /\ \A s \in Asides : stores'[s] = stores[s]
      /\ stores[Ch] # None => stores'[Ch] = stores[Ch]
      /\ AsBefore(Ts) /\ (Stored(pre.ts.rows) # {} \/ new.type # "stock") => AsBefore(Ts)'
  BY <1>0, <1>1, <1>2, DeploySame
<1>4. Counts => Stored(pre.ts.rows) # {}
  BY <1>0 DEF Counts, Earlier
<1>5. Counts' <=> Counts
  BY <1>0 DEF Counts
<1>6. IF aside' # None THEN AsBefore(aside)' ELSE (Counts' => AsBefore(Ts)')
  BY <1>0, <1>2, <1>3, <1>4, <1>5 DEF AsBefore
<1>7. QED
  BY <1>0, <1>1, <1>3, <1>6 DEF SwitchInv, Switching, Recording, MayUndo, Earlier

LEMMA SwitchAnswer ==
  ASSUME Recoverable, TypeInv, SwitchInv, Answer \/ UndoStop \/ WriteRecord
  PROVE  SwitchInv'
<1>1. UNCHANGED <<stores, pre, old, aside, cutover>>
  BY DEF Answer, UndoStop, WriteRecord, data, ghosts, locals
<1>2. /\ pc' # "create" /\ pc' # "u_deploy" /\ pc # "create"
      /\ pc' \in Switching => service' = "down"
      /\ pc' \in Switching \union Recording => pc \in Switching \union Recording
      /\ pc' \notin {"image", "aside", "image_back", "restart"}
      /\ pc' \in MayUndo => pc \in MayUndo
  BY DEF Answer, UndoStop, WriteRecord, Goto, Return, Recoverable, SwitchInv, Switching, Recording,
     MayUndo
<1>3. QED
  BY <1>1, <1>2, SwitchSame

LEMMA SwitchUndo ==
  ASSUME Recoverable, TypeInv, SwitchInv, UndoStores
  PROVE  SwitchInv'
<1>0. /\ pc = "u_stores" /\ pc' = "u_deploy" /\ service' = "down" /\ stores[Ts] # None
      /\ UNCHANGED <<pre, old, cutover, aside>>
      /\ IF old.type = "clickhouse" THEN stores[Ch] # None /\ Earlier(stores[Ch].rows)
         ELSE Earlier(pre.ts.rows)
      /\ IF aside # None THEN AsBefore(aside) ELSE (Counts => AsBefore(Ts))
  BY DEF UndoStores, Goto, SwitchInv, Switching, MayUndo, ghosts, locals
<1>1. stores' = IF aside = None THEN stores
                ELSE [stores EXCEPT ![Ts] = RenamedBack(stores[aside]), ![aside] = None]
  BY DEF UndoStores, Fails, Recoverable
<1>2. Counts' <=> Counts
  BY <1>0 DEF Counts
<1>3. stores'[Ch] = stores[Ch] /\ stores'[Ts] # None /\ (Counts => AsBefore(Ts)')
  <2>1. CASE aside = None
    BY <1>0, <1>1, <2>1 DEF AsBefore
  <2>2. CASE aside # None
    BY <1>0, <1>1, <2>2, Names, RenamedBackTable DEF TypeInv, TypeOK, AsBefore, RenamedBack, Table
  <2>3. QED
    BY <2>1, <2>2
<1>4. QED
  BY <1>0, <1>2, <1>3 DEF SwitchInv, Switching, Recording, MayUndo, Earlier

(* Putting the old type back, and what it leaves. *)
LEMMA UndoneTables ==
  ASSUME Recoverable, TypeInv, SwitchInv, UndoDeploy
  PROVE  /\ pc' = "idle" /\ stores'[Ts] # None /\ UNCHANGED <<pre, old>>
         /\ Counts => AsBefore(Ts)'
         /\ old.type = "clickhouse" => stores[Ch] # None /\ stores'[Ch] = stores[Ch]
         /\ IF old.type = "clickhouse" THEN Earlier(stores[Ch].rows) ELSE Earlier(pre.ts.rows)
<1>0. /\ pc = "u_deploy" /\ pc' = "idle" /\ stores[Ts] # None
      /\ UNCHANGED <<pre, old, cutover, aside>>
      /\ IF old.type = "clickhouse" THEN stores[Ch] # None /\ Earlier(stores[Ch].rows)
         ELSE Earlier(pre.ts.rows)
      /\ Counts => AsBefore(Ts)
  BY DEF UndoDeploy, Return, SwitchInv, Switching, ghosts, locals
<1>1. stores' = Deployed(old) /\ old \in Config
  BY DEF UndoDeploy, Fails, Recoverable, TypeInv, TypeOK
<1>2. Counts => Stored(pre.ts.rows) # {}
  BY <1>0 DEF Counts, Earlier
<1>3. QED
  BY <1>0, <1>1, <1>2, DeploySame

(* Between jobs, and while the history is copied. *)
LEMMA SwitchElsewhere ==
  ASSUME Recoverable, TypeInv, KeptInv, SetupInv, SwitchInv,
         \/ \E target \in Offered : BeginMigration(target)
         \/ Resume \/ SaveState \/ CopyWindow \/ CopyLatest \/ Finish \/ Tick \/ StartByOperator
         \/ Kill \/ \E k \in Keys, t \in Time : Write(k, t)
         \/ \E s \in Store : RemoveKept(s)
  PROVE  SwitchInv'
<1>0. ASSUME stores'[Ts] # None, pc' \notin Switching \union Recording
      PROVE  SwitchInv'
  BY <1>0 DEF SwitchInv, Switching, MayUndo
<1>1. CASE Resume \/ SaveState \/ CopyWindow \/ CopyLatest \/ Finish \/ Kill \/ StartByOperator
           \/ \E target \in Offered : BeginMigration(target)
  <2>1. stores[Ts] # None
    <3>1. pc # "create"
      BY <1>1 DEF Resume, SaveState, CopyWindow, CopyLatest, Finish, Kill, StartByOperator,
         BeginMigration, Recoverable, Switching, MayUndo
    <3>2. QED
      BY <3>1 DEF SwitchInv
  <2>2. Quiet
    BY <1>1, OtherSteps, CopySteps
  <2>3. CASE StartByOperator
    <3>1. pc' = pc /\ pc \notin Switching /\ UNCHANGED <<stores, old, aside, cutover, pre>>
      BY <2>3 DEF StartByOperator, Recoverable, Switching, MayUndo, data, locals, ghosts
    <3>2. QED
      BY <2>1, <3>1 DEF SwitchInv, Recording, AsBefore, Earlier, Counts, LayoutOf
  <2>4. CASE ~StartByOperator
    <3>1. pc' \in {"idle", "prepare"} \union Copying
      BY <1>1, <2>4 DEF Resume, SaveState, CopyWindow, CopyLatest, Finish, Kill,
         BeginMigration, CopyFrom, NextWindow, Goto, Return, Copying
    <3>2. QED
      BY <1>0, <2>1, <2>2, <3>1, Names DEF Quiet, Keeps, Copying, Switching, Recording, MayUndo
  <2>5. QED
    BY <2>3, <2>4
<1>2. CASE Tick
  BY <1>0, <1>2 DEF Tick, data, SwitchInv, Switching, Recording, MayUndo
<1>3. ASSUME NEW k \in Keys, NEW t \in Time, Write(k, t)
      PROVE  SwitchInv'
  <2>1. service = "up" /\ UNCHANGED <<service, pc, old, aside, cutover, pre>>
    BY <1>3 DEF Write, locals
  <2>2. pc \notin Switching /\ stores[Ts] # None
    BY <2>1 DEF SwitchInv, Switching, MayUndo
  <2>3. Keeps(stores, stores')
    BY <1>3, WrittenRows
  <2>4. stores'[Ts] # None
    BY <2>2, <2>3, Names DEF Keeps
  <2>5. CASE pc \in Recording
    BY <2>1, <2>3, <2>4, <2>5, Names DEF SwitchInv, Keeps, Earlier, Switching, Recording, MayUndo
  <2>6. CASE pc \notin Recording
    BY <1>0, <2>1, <2>2, <2>4, <2>6
  <2>7. QED
    BY <2>5, <2>6
<1>4. ASSUME NEW s \in Store, RemoveKept(s)
      PROVE  SwitchInv'
  BY <1>0, <1>4, Names DEF RemoveKept, SwitchInv, TypeInv, TypeOK, Switching, Recording, MayUndo
<1>5. QED
  BY <1>1, <1>2, <1>3, <1>4

LEMMA SwitchStep ==
  ASSUME Recoverable, TypeInv, SourceInv, KeptInv, SetupInv, Past, UseInv, SwitchInv, [Next]_vars
  PROVE  SwitchInv'
<1>1. CASE UNCHANGED vars
  BY <1>1 DEF vars, data, locals, ghosts, SwitchInv, Earlier, AsBefore, Counts
<1>2. CASE UndoDeploy
  BY <1>2, UndoneTables DEF SwitchInv, Switching, Recording, MayUndo
<1>3. CASE JobStep /\ ~UndoDeploy
  BY <1>3, SwitchPreparing, SwitchImage, SwitchAside, SwitchCreate, SwitchDeploy, SwitchAnswer,
     SwitchUndo, SwitchElsewhere DEF JobStep
<1>4. CASE Next /\ ~JobStep
  BY <1>4, SwitchElsewhere DEF Next
<1>5. QED
  BY <1>1, <1>2, <1>3, <1>4

-----------------------------------------------------------------------------
(* Where the history is between jobs.                                      *)

(* What a copy reads from. *)
LEMMA LegsAre ==
  ASSUME NEW s \in State
  PROVE  /\ s.to = "clickhouse" => 1 \in DOMAIN Legs(s) /\ Legs(s)[1] = Ts
         /\ s.to # "clickhouse" /\ s.from = "clickhouse" => 1 \in DOMAIN Legs(s) /\ Legs(s)[1] = Ch
         /\ s.aside # None => \E i \in DOMAIN Legs(s) : Legs(s)[i] = s.aside
<1> DEFINE first == IF s.to = "clickhouse" THEN <<Ts>>
                    ELSE IF s.from = "clickhouse" THEN <<Ch>> ELSE <<>>
           then == IF s.aside # None THEN <<s.aside>> ELSE <<>>
           n == IF s.to = "clickhouse" \/ s.from = "clickhouse" THEN 1 ELSE 0
<1>1. /\ Legs(s) = first \o then
      /\ first \in Seq(Store) /\ then \in Seq(Store)
      /\ Len(first) = n /\ Len(then) = IF s.aside # None THEN 1 ELSE 0
  BY Names DEF Legs, State
<1>2. /\ n = 1 => first[1] = IF s.to = "clickhouse" THEN Ts ELSE Ch
      /\ s.aside # None => then[1] = s.aside
  OBVIOUS
<1> HIDE DEF first, then
<1>3. /\ Legs(s) \in Seq(Store) /\ Len(Legs(s)) = Len(first) + Len(then)
      /\ \A i \in 1..Len(first) + Len(then) :
           Legs(s)[i] = IF i <= Len(first) THEN first[i] ELSE then[i - Len(first)]
  <2>1. /\ first \o then \in Seq(Store) /\ Len(first \o then) = Len(first) + Len(then)
        /\ \A i \in 1..Len(first) + Len(then) :
             (first \o then)[i] = IF i <= Len(first) THEN first[i] ELSE then[i - Len(first)]
    <3>1. first \in Seq(Store) /\ then \in Seq(Store)
      BY <1>1
    <3>2. QED
      BY <3>1, ConcatProperties, Zenon
  <2>2. Legs(s) = first \o then
    BY <1>1
  <2>3. QED
    BY <2>1, <2>2, Zenon
<1>4. DOMAIN Legs(s) = 1..(Len(first) + Len(then))
  BY <1>3
<1>5. n = 1 => 1 \in DOMAIN Legs(s) /\ Legs(s)[1] = first[1]
  BY <1>1, <1>3, <1>4
<1>6. s.aside # None => n + 1 \in DOMAIN Legs(s) /\ Legs(s)[n + 1] = then[1]
  BY <1>1, <1>3, <1>4
<1>7. QED
  BY <1>2, <1>5, <1>6

LEMMA UseInit == Recoverable /\ Init => UseInv
<1> SUFFICES ASSUME Recoverable, Init PROVE UseInv
  OBVIOUS
<1>1. PICK type \in InitialTypes, H \in Histories :
        /\ stores = [s \in Store |->
             IF s = Used(type) THEN [FirstTable(type, s) EXCEPT !.rows = RowsOf(H)]
             ELSE FirstTable(type, s)]
        /\ conf = [type |-> type, keep |-> FALSE]
  BY DEF Init
<1>2. record.type = type /\ pc = "idle" /\ state = None
  BY <1>1 DEF Init
<1>3. Holds(Used(type))
  <2>1. FirstLayout[type] \in Layout /\ "clickhouse" \in Layout
    <3>1. type \in Types
      OBVIOUS
    <3>2. QED
      BY <3>1 DEF FirstLayout, Layout, Types
  <2>2. Fresh(FirstLayout[type]) \in Table /\ Fresh("clickhouse") \in Table
    BY <2>1, FreshTable
  <2>3. FirstTable(type, Used(type)) \in Table
    BY <2>2 DEF FirstTable
  <2>4. RowsOf(H) \in Rows /\ Stored(RowsOf(H)) # {}
    BY DEF RowsOf, Rows, Stored, Recoverable
  <2>5. /\ [FirstTable(type, Used(type)) EXCEPT !.rows = RowsOf(H)] \in Table
        /\ [FirstTable(type, Used(type)) EXCEPT !.rows = RowsOf(H)].rows = RowsOf(H)
    BY <2>3, <2>4 DEF Table
  <2>6. Used(type) \in Store
    BY UsedNames, Names
  <2>7. QED
    BY <1>1, <2>4, <2>5, <2>6 DEF Holds
<1>4. QED
  BY <1>2, <1>3 DEF UseInv, Unfinished, Recording

(* What is in a table stays there. *)
LEMMA HoldsStays ==
  ASSUME Keeps(stores, stores'), NEW s \in Store, Holds(s)
  PROVE  stores'[s] # None /\ Stored(stores'[s].rows) # {}
BY DEF Keeps, Holds

(* Before and during the switch. *)
LEMMA UseUnderway ==
  ASSUME Recoverable, TypeInv, SourceInv, SetupInv, UseInv,
         \/ \E target \in Offered : BeginMigration(target)
         \/ Prepare \/ StopSentient \/ PrepareImage \/ SetAside \/ CreateTable \/ BringLatest
         \/ ImageBack \/ Deploy \/ UndoStop \/ UndoStores
  PROVE  UseInv'
<1>1. ~Unfinished /\ UNCHANGED state
  BY DEF SourceInv, BeginMigration, Prepare, StopSentient, PrepareImage, SetAside, CreateTable,
     BringLatest, ImageBack, Deploy, UndoStop, UndoStores, files
<1>2. CASE (\E target \in Offered : BeginMigration(target)) \/ Prepare \/ StopSentient
  <2>1. /\ pc \in {"idle", "prepare", "stop"} /\ pc' \in {"prepare", "stop", "image", "idle"}
        /\ UNCHANGED <<stores, record>>
    BY <1>2 DEF BeginMigration, Prepare, StopSentient, Goto, Return, data, files
  <2>2. Holds(Used(record.type))
    BY <1>1, <2>1 DEF UseInv
  <2>3. Holds(Used(record.type))'
    BY <2>1, <2>2 DEF Holds, Used
  <2>4. QED
    BY <1>1, <2>1, <2>3 DEF UseInv, Unfinished, Recording
<1>3. CASE PrepareImage \/ SetAside \/ CreateTable \/ BringLatest \/ ImageBack \/ Deploy \/ UndoStop
           \/ UndoStores
  <2>1. pc' \notin {"idle", "prepare", "stop"} \union Recording
    BY <1>3 DEF PrepareImage, SetAside, CreateTable, BringLatest, ImageBack, Deploy, UndoStop,
       UndoStores, Fail, Goto, AfterCreate, Recording
  <2>2. QED
    BY <1>1, <2>1 DEF UseInv, Unfinished
<1>4. QED
  BY <1>2, <1>3

(* The old type again: its history is there. *)
LEMMA UseUndone ==
  ASSUME Recoverable, TypeInv, SourceInv, SetupInv, SwitchInv, RestartAsWas \/ UndoDeploy
  PROVE  UseInv'
<1>1. /\ ~Unfinished /\ old = record /\ pc' = "idle" /\ UNCHANGED <<state, record, old, pre>>
      /\ pc \in {"restart", "u_deploy"}
  BY DEF SourceInv, SetupInv, RestartAsWas, UndoDeploy, Return, files, locals, ghosts, Switching
<1>2. /\ Counts => AsBefore(Ts)'
      /\ old.type = "clickhouse" => stores[Ch] # None /\ stores'[Ch] = stores[Ch]
      /\ IF old.type = "clickhouse" THEN Earlier(stores[Ch].rows) ELSE Earlier(pre.ts.rows)
  BY <1>1, UndoneTables DEF RestartAsWas, SwitchInv, Switching, data, AsBefore
<1>3. Holds(Used(record.type))'
  BY <1>1, <1>2 DEF Holds, Used, Earlier, AsBefore, Counts
<1>4. QED
  BY <1>1, <1>3 DEF UseInv, Unfinished, Recording

(* SENTIENT answers: what is not in its new store is to be copied. *)
LEMMA UseAnswer ==
  ASSUME Recoverable, TypeInv, SourceInv, SwitchInv, Answer
  PROVE  UseInv'
<1>1. /\ pc = "answer" /\ pc' \in {"record", "u_stop"} /\ ~Unfinished
      /\ UNCHANGED <<stores, state, old, new, cutover, aside>>
  BY DEF Answer, Goto, SourceInv, data, files, locals
<1>2. CASE pc' = "u_stop"
  BY <1>1, <1>2 DEF UseInv, Unfinished, Recording
<1>3. CASE pc' = "record"
  <2>1. /\ IF old.type = "clickhouse" THEN stores[Ch] # None /\ Earlier(stores[Ch].rows)
           ELSE Earlier(pre.ts.rows)
        /\ IF aside # None THEN AsBefore(aside) ELSE (Counts => AsBefore(Ts))
    BY <1>1 DEF SwitchInv, Switching, MayUndo
  <2>2. Holds(Used(new.type)) \/ \E i \in DOMAIN Legs(Saved), r \in Row : Waiting(Saved, i, r)
    <3>1. CASE old.type = "clickhouse"
      <4>1. CASE new.type = "clickhouse"
        BY <2>1, <3>1, <4>1 DEF Holds, Used, Earlier
      <4>2. CASE new.type # "clickhouse"
        BY <2>1, <3>1, <4>2, SavedIs, LegsAre DEF Earlier, Waiting, Stored
      <4>3. QED
        BY <4>1, <4>2
    <3>2. CASE old.type # "clickhouse"
      <4>1. PICK r \in Stored(pre.ts.rows) : r[2] < cutover
        BY <2>1, <3>2 DEF Earlier
      <4>2. r \in Row
        BY DEF Stored
      <4>3. CASE aside # None
        BY <2>1, <4>1, <4>2, <4>3, SavedIs, LegsAre DEF Waiting, AsBefore
      <4>4. CASE aside = None
        <5>1. AsBefore(Ts)
          BY <2>1, <3>2, <4>4 DEF Counts
        <5>2. CASE new.type = "clickhouse"
          BY <4>1, <4>2, <5>1, <5>2, SavedIs, LegsAre DEF Waiting, AsBefore
        <5>3. CASE new.type # "clickhouse"
          BY <4>1, <5>1, <5>3 DEF Holds, Used, AsBefore
        <5>4. QED
          BY <5>2, <5>3
      <4>5. QED
        BY <4>3, <4>4
    <3>3. QED
      BY <3>1, <3>2
  <2>3. (Holds(Used(new.type)) \/ \E i \in DOMAIN Legs(Saved), r \in Row : Waiting(Saved, i, r))'
    BY <1>1, <2>2 DEF Holds, Used, Waiting, Saved, Legs
  <2>4. QED
    BY <1>1, <1>3, <2>3 DEF UseInv, Unfinished
<1>4. QED
  BY <1>1, <1>2, <1>3

(* A copy begins at its first source and month. *)
LEMMA CopyBegins ==
  ASSUME NEW s \in State, CopyFrom(s), s # None, ~s.done, state' = s, pc' # "idle",
         UNCHANGED stores,
         Holds(Used(s.to)) \/ \E i \in DOMAIN Legs(s), r \in Row : Waiting(s, i, r)
  PROVE  UseInv'
<1>1. pc' = (IF Legs(s) = <<>> THEN "finish" ELSE "copy") /\ leg' = 1 /\ month' = 1
  BY DEF CopyFrom, Goto
<1>2. CASE Holds(Used(s.to))
  BY <1>1, <1>2 DEF Holds, Used, UseInv, Recording, Unfinished
<1>3. ASSUME NEW i \in DOMAIN Legs(s), NEW r \in Row, Waiting(s, i, r)
      PROVE  UseInv'
  <2>1. DOMAIN Legs(s) = 1..Len(Legs(s)) /\ Len(Legs(s)) \in Nat
    BY LegsStores
  <2>2. i \in Nat \ {0} /\ MonthOf[r[2]] \in Nat \ {0}
    BY <2>1 DEF Row, Months
  <2>3. Legs(s) # <<>>
    BY <2>1
  <2>4. Ahead(i, r)'
    BY <1>1, <2>2 DEF Ahead
  <2>5. Waiting(state, i, r)'
    BY <1>3 DEF Waiting, Legs
  <2>6. i \in DOMAIN Legs(state)'
    BY DEF Legs
  <2>7. QED
    BY <1>1, <2>3, <2>4, <2>5, <2>6 DEF UseInv, Recording, Unfinished
<1>4. QED
  BY <1>2, <1>3

LEMMA UseSaved ==
  ASSUME Recoverable, TypeInv, SourceInv, SetupInv, UseInv, WriteRecord \/ SaveState \/ Resume
  PROVE  UseInv'
<1>1. CASE WriteRecord
  <2>1. /\ pc = "record" /\ pc' = "save" /\ ~Unfinished
        /\ UNCHANGED <<stores, state, old, new, cutover, aside>>
    BY <1>1 DEF WriteRecord, Fails, Recoverable, Goto, SourceInv, data, locals
  <2>2. (Holds(Used(new.type)) \/ \E i \in DOMAIN Legs(Saved), r \in Row : Waiting(Saved, i, r))'
    BY <2>1 DEF UseInv, Recording, Holds, Used, Waiting, Saved, Legs
  <2>3. QED
    BY <2>1, <2>2 DEF UseInv, Unfinished
<1>2. CASE SaveState
  BY <1>2, SaveSteps, SavedIs, CopyBegins DEF SaveState, data, UseInv, Recording, CopyFrom, Goto
<1>3. CASE Resume
  BY <1>3, CopyBegins DEF Resume, data, files, Unfinished, TypeInv, TypeOK, UseInv, CopyFrom, Goto
<1>4. QED
  BY <1>1, <1>2, <1>3

(* Waiting stays true of a source that is not touched. *)
LEMMA WaitingStays ==
  ASSUME TypeInv, SourceInv, Unfinished, Next, ~(\E s \in Store : RemoveKept(s)),
         UNCHANGED state, NEW i \in DOMAIN Legs(state), NEW r \in Row, Waiting(state, i, r)
  PROVE  Waiting(state, i, r)' /\ i \in DOMAIN Legs(state)'
BY LegsStores, OnlyTargetWritten DEF Unfinished, TypeInv, TypeOK, Target, Waiting, Legs

(* What is inserted is in the target. *)
LEMMA InsertedHolds ==
  ASSUME TypeInv, pc = "copy", ~Missing, NEW r \in InWindow(Source),
         NEW rows \in Inserted(InWindow(Source)),
         stores' = [stores EXCEPT ![Target].rows = rows]
  PROVE  stores'[Target] # None /\ r \in Stored(stores'[Target].rows)
<1>1. Source \in Store /\ Target \in Store
  BY LegsStores, UsedNames, Names DEF TypeInv, Source, Target
<1>2. stores[Source] \in Table /\ stores[Target] \in Table
  BY <1>1 DEF TypeInv, TypeOK, Missing, LayoutOf
<1>3. r \in Row /\ stores[Source].rows[r] # 0
  BY DEF InWindow, Stored
<1>4. rows[r] # 0
  BY <1>3 DEF Inserted
<1>5. stores' \in Tables /\ Keeps(stores, stores')
  BY InsertedRows
<1>6. stores'[Target] # None
  BY <1>1, <1>2, <1>5 DEF Keeps
<1>7. stores'[Target].rows = rows
  BY <1>1, <1>2 DEF TypeInv, TypeOK, Table
<1>8. QED
  BY <1>3, <1>4, <1>6, <1>7 DEF Stored

LEMMA RowsFinite == IsFiniteSet(Row)
<1>1. IsFiniteSet(Time)
  <2>1. 1 \in Int /\ MaxTime \in Int
    OBVIOUS
  <2>2. QED
    BY <2>1, FS_Interval, Zenon DEF Time
<1>2. QED
  BY <1>1, FS_Product DEF Row

(* Copying a month in which something waits puts it into the target. *)
LEMMA CopiedHolds ==
  ASSUME TypeInv, pc = "copy", ~Stuck,
         NEW r \in Row, Waiting(state, leg, r), month = MonthOf[r[2]],
         IF Copied THEN UNCHANGED stores
         ELSE \E rows \in Inserted(InWindow(Source)) :
                stores' = [stores EXCEPT ![Target].rows = rows]
  PROVE  stores'[Target] # None /\ Stored(stores'[Target].rows) # {}
<1>1. ~Missing /\ r \in InWindow(Source)
  BY DEF Stuck, Waiting, InWindow, Window, Source
<1>2. Source \in Store /\ Target \in Store
  BY LegsStores, UsedNames, Names DEF TypeInv, Source, Target
<1>3. stores[Source] \in Table /\ stores[Target] \in Table
  BY <1>1, <1>2 DEF TypeInv, TypeOK, Missing, LayoutOf
<1>4. CASE Copied
  <2>1. Fingerprint(InWindow(Source)) = Fingerprint(InWindow(Target))
    BY <1>1, <1>4 DEF Copied
  <2>2. Cardinality(InWindow(Source)) = Cardinality(InWindow(Target))
    BY <2>1 DEF Fingerprint
  <2>3. IsFiniteSet(Row)
    BY RowsFinite
  <2>4. IsFiniteSet(InWindow(Source)) /\ IsFiniteSet(InWindow(Target))
    BY <2>3, FS_Subset DEF InWindow, Window
  <2>5. InWindow(Target) # {}
    BY <1>1, <2>2, <2>4, FS_EmptySet
  <2>6. QED
    BY <1>3, <1>4, <2>5 DEF InWindow
<1>5. CASE ~Copied
  BY <1>1, <1>5, InsertedHolds
<1>6. QED
  BY <1>4, <1>5

LEMMA CopyRemovesNone ==
  ASSUME TypeInv, SourceInv, KeptInv, SetupInv, CopyWindow
  PROVE  ~(\E s \in Store : RemoveKept(s))
<1>1. Keeps(stores, stores')
  BY CopySteps DEF Quiet
<1>2. ASSUME NEW s \in Store, RemoveKept(s)
      PROVE  FALSE
  BY <1>1, <1>2 DEF RemoveKept, TypeInv, TypeOK, Keeps
<1>3. QED
  BY <1>2

LEMMA UseCopy ==
  ASSUME Recoverable, TypeInv, SourceInv, KeptInv, SetupInv, UseInv, CopyWindow
  PROVE  UseInv'
<1>0. /\ pc = "copy" /\ Unfinished /\ state \in State /\ UNCHANGED state
      /\ Used(state.to) \in Store /\ Target = Used(state.to)
  BY UsedNames, Names DEF CopyWindow, SetupInv, Copying, TypeInv, files, Target
<1>1. Unfinished' /\ pc' \in {"idle", "copy", "copy_latest", "finish"}
  BY <1>0 DEF CopyWindow, NextWindow, Goto, Return, Unfinished
<1>2. ASSUME Holds(Used(state.to))'
      PROVE  UseInv'
  BY <1>1, <1>2 DEF UseInv, Recording
<1>3. CASE Holds(Used(state.to))
  BY <1>0, <1>2, <1>3, CopySteps, HoldsStays DEF Quiet, Holds, Used
<1>4. CASE ~Holds(Used(state.to))
  <2>1. PICK i \in DOMAIN Legs(state), r \in Row : Waiting(state, i, r) /\ Ahead(i, r)
    BY <1>0, <1>4 DEF UseInv
  <2>2. Waiting(state, i, r)' /\ i \in DOMAIN Legs(state)'
    BY <1>0, <2>1, CopyRemovesNone, WaitingStays DEF Next, JobStep
  <2>3. CASE pc' = "idle"
    BY <1>1, <2>2, <2>3 DEF UseInv, Recording
  <2>4. CASE pc' # "idle"
    <3>1. /\ ~Stuck /\ NextWindow
          /\ IF Copied THEN UNCHANGED stores
             ELSE \E rows \in Inserted(InWindow(Source)) :
                    stores' = [stores EXCEPT ![Target].rows = rows]
      BY <2>4 DEF CopyWindow, Return
    <3>2. CASE leg = i /\ month = MonthOf[r[2]]
      BY <1>0, <1>2, <2>1, <3>1, <3>2, CopiedHolds DEF Holds, Used
    <3>3. CASE ~(leg = i /\ month = MonthOf[r[2]])
      <4>1. /\ i \in 1..Len(Legs(state)) /\ leg \in 1..Len(Legs(state)) /\ Len(Legs(state)) \in Nat
            /\ month \in 1..NMonths /\ MonthOf[r[2]] \in 1..NMonths /\ NMonths \in Nat
        BY <1>0, LegsStores DEF TypeInv, TypeOK, Months, Row
      <4>2. leg < i \/ (leg = i /\ month < MonthOf[r[2]])
        BY <2>1, <3>3, <4>1 DEF Ahead
      <4>3. /\ pc' = "copy"
            /\ \/ month' = month + 1 /\ leg' = leg /\ month < NMonths
               \/ month' = 1 /\ leg' = leg + 1 /\ month >= NMonths
        BY <3>1, <4>1, <4>2 DEF NextWindow, Goto
      <4>4. Ahead(i, r)'
        BY <4>1, <4>2, <4>3 DEF Ahead
      <4>5. QED
        BY <1>1, <2>2, <4>3, <4>4 DEF UseInv, Recording
    <3>4. QED
      BY <3>2, <3>3
  <2>5. QED
    BY <2>3, <2>4
<1>5. QED
  BY <1>3, <1>4

LEMMA UseCopied ==
  ASSUME Recoverable, TypeInv, SourceInv, SetupInv, UseInv, CopyLatest \/ Finish
  PROVE  UseInv'
<1>0. /\ pc \in {"copy_latest", "finish"} /\ Unfinished /\ conf.type = state.to /\ conf = record
      /\ UNCHANGED <<stores, record>>
  BY DEF CopyLatest, Finish, SetupInv, Copying, SourceInv, data, files
<1>1. Holds(Used(state.to))
  BY <1>0 DEF UseInv
<1>2. CASE UNCHANGED state
  BY <1>0, <1>1, <1>2 DEF CopyLatest, Finish, Goto, Return, Holds, Used, Unfinished, UseInv,
     Recording
<1>3. CASE pc = "finish" /\ state' = [state EXCEPT !.done = TRUE] /\ pc' = "idle"
  BY <1>0, <1>1, <1>3 DEF TypeInv, Unfinished, State, Holds, Used, UseInv, Recording
<1>4. QED
  BY <1>2, <1>3 DEF CopyLatest, Finish, Return, files

(* Nothing but a removal takes from the tables, and it leaves those in use. *)
LEMMA UseAround ==
  ASSUME Recoverable, TypeInv, SourceInv, KeptInv, SetupInv, UseInv,
         \/ \E k \in Keys, t \in Time : Write(k, t)
         \/ Tick \/ StartByOperator \/ Kill
  PROVE  UseInv'
<1>0. /\ Keeps(stores, stores')
      /\ UNCHANGED <<state, record, old, new, cutover, aside, leg, month>>
  <2>1. CASE Tick \/ StartByOperator \/ Kill
    BY <2>1, OtherSteps DEF Quiet, Tick, StartByOperator, Kill, files, locals, cursor
  <2>2. ASSUME NEW k \in Keys, NEW t \in Time, Write(k, t)
        PROVE  /\ Keeps(stores, stores')
               /\ UNCHANGED <<state, record, old, new, cutover, aside, leg, month>>
    BY <2>2, WrittenRows DEF Write, files, locals, cursor
  <2>3. QED
    BY <2>1, <2>2
<1>1. \/ pc' = pc
      \/ pc' = "idle" /\ pc \in {"idle", "prepare", "stop"} \union Copying
  <2>1. CASE Kill
    BY <2>1 DEF Kill, Return, Recoverable, TypeInv, TypeOK, Steps, Switching, Recording, Copying,
       MayUndo
  <2>2. CASE ~Kill
    BY <2>2 DEF Tick, StartByOperator, Write
  <2>3. QED
    BY <2>1, <2>2
<1>2. \A s \in Store : Holds(s) => stores'[s] # None /\ Stored(stores'[s].rows) # {}
  BY <1>0, HoldsStays
<1>3. \A type : Holds(Used(type)) => stores'[Used(type)] # None /\ Stored(stores'[Used(type)].rows) # {}
  BY <1>2, UsedNames, Names
<1>4. pc' \in {"idle", "prepare", "stop"} /\ ~Unfinished' => Holds(Used(record.type))'
  BY <1>0, <1>1, <1>3 DEF UseInv, Unfinished, SetupInv, Copying, Holds, Used
<1>5. pc' \in Recording =>
        (Holds(Used(new.type)) \/ \E i \in DOMAIN Legs(Saved), r \in Row : Waiting(Saved, i, r))'
  <2>1. ASSUME pc' \in Recording
        PROVE  (Holds(Used(new.type)) \/ \E i \in DOMAIN Legs(Saved), r \in Row : Waiting(Saved, i, r))'
    <3>1. pc \in Recording
      BY <1>1, <2>1 DEF Recording
    <3>2. CASE Holds(Used(new.type))
      BY <1>0, <1>3, <3>2 DEF Holds, Used
    <3>3. ASSUME NEW i \in DOMAIN Legs(Saved), NEW r \in Row, Waiting(Saved, i, r)
          PROVE  i \in DOMAIN Legs(Saved)' /\ Waiting(Saved, i, r)'
      <4>1. Saved' = Saved
        BY <1>0 DEF Saved
      <4>2. Legs(Saved)' = Legs(Saved)
        BY <4>1 DEF Legs
      <4>3. Legs(Saved)[i] \in Store
        BY SavedIs, LegsStores
      <4>4. stores'[Legs(Saved)[i]] # None
            /\ Stored(stores[Legs(Saved)[i]].rows) \subseteq Stored(stores'[Legs(Saved)[i]].rows)
        BY <1>0, <3>3, <4>3 DEF Keeps, Waiting
      <4>5. QED
        BY <3>3, <4>1, <4>2, <4>4 DEF Waiting
    <3>4. QED
      BY <3>1, <3>2, <3>3 DEF UseInv
  <2>2. QED
    BY <2>1
<1>6. Unfinished' =>
        (\/ Holds(Used(state.to))
         \/ /\ pc \in {"idle", "copy"}
            /\ \E i \in DOMAIN Legs(state), r \in Row :
                 Waiting(state, i, r) /\ (pc = "copy" => Ahead(i, r)))'
  <2> SUFFICES ASSUME Unfinished'
               PROVE  (\/ Holds(Used(state.to))
                       \/ /\ pc \in {"idle", "copy"}
                          /\ \E i \in DOMAIN Legs(state), r \in Row :
                               Waiting(state, i, r) /\ (pc = "copy" => Ahead(i, r)))'
    OBVIOUS
  <2>1. Unfinished
    BY <1>0 DEF Unfinished
  <2>2. CASE Holds(Used(state.to))
    BY <1>0, <1>3, <2>2 DEF Holds, Used
  <2>3. CASE ~Holds(Used(state.to))
    <3>1. PICK i \in DOMAIN Legs(state), r \in Row :
            Waiting(state, i, r) /\ (pc = "copy" => Ahead(i, r))
      BY <2>1, <2>3 DEF UseInv
    <3>2. pc \in {"idle", "copy"}
      BY <2>1, <2>3 DEF UseInv
    <3>3. Next /\ ~(\E s \in Store : RemoveKept(s))
      <4>1. Next
        BY DEF Next
      <4>2. ASSUME NEW s \in Store, RemoveKept(s)
            PROVE  FALSE
        BY <1>0, <4>2 DEF RemoveKept, TypeInv, TypeOK, Keeps
      <4>3. QED
        BY <4>1, <4>2
    <3>4. Waiting(state, i, r)' /\ i \in DOMAIN Legs(state)'
      BY <1>0, <2>1, <3>1, <3>3, WaitingStays
    <3>5. pc' \in {"idle", "copy"} /\ (pc' = "copy" => Ahead(i, r)')
      BY <1>0, <1>1, <3>1, <3>2 DEF Ahead
    <3>6. QED
      BY <3>4, <3>5
  <2>4. QED
    BY <2>2, <2>3
<1>7. QED
  BY <1>4, <1>5, <1>6 DEF UseInv

LEMMA RemovalLeaves ==
  ASSUME Recoverable, TypeInv, SourceInv, SetupInv, NEW s \in Store, RemoveKept(s)
  PROVE  /\ UNCHANGED <<pc, state, record, now, old, new, aside, cutover, leg, month>>
         /\ pc \in {"idle", "prepare"} \union Copying
         /\ s # Ts /\ Used(record.type) \in Store \ {s}
         /\ \A n \in Store \ {s} : stores'[n] = stores[n]
         /\ Unfinished => /\ state \in State /\ record.type = state.to
                          /\ \A i \in DOMAIN Legs(state) : Legs(state)[i] \in Store \ {s}
<1>1. /\ UNCHANGED <<pc, state, record, now, old, new, aside, cutover, leg, month>>
      /\ pc \in {"idle", "prepare"} \union Copying
      /\ stores' = [stores EXCEPT ![s] = None]
      /\ s # Ts /\ s # Used(record.type) /\ Kept(s) = "spare"
  BY UsedNames, Names DEF RemoveKept, Used, files, locals, cursor, Recoverable, Copying
<1>2. ASSUME Unfinished
      PROVE  /\ state \in State /\ record.type = state.to
             /\ \A i \in DOMAIN Legs(state) : Legs(state)[i] \in Store \ {s}
  <2>1. state \in State /\ record.type = state.to
    BY <1>1, <1>2 DEF Unfinished, TypeInv, TypeOK, SourceInv, SetupInv, Copying
  <2>2. QED
    BY <1>1, <1>2, <2>1, LegsStores DEF Range, Kept
<1>3. QED
  BY <1>1, <1>2, UsedNames, Names DEF TypeInv, TypeOK

LEMMA UseRemoved ==
  ASSUME Recoverable, TypeInv, SourceInv, SetupInv, UseInv, NEW s \in Store, RemoveKept(s)
  PROVE  UseInv'
<1>1. /\ UNCHANGED <<pc, state, record, leg, month>> /\ Used(record.type)' = Used(record.type)
      /\ pc \notin Recording
      /\ Holds(Used(record.type)) => Holds(Used(record.type))'
  BY RemovalLeaves DEF Holds, Used, Recording, Copying
<1>2. ASSUME Unfinished
      PROVE  Used(state.to)' = Used(record.type) /\ record.type = state.to
  BY <1>1, <1>2, RemovalLeaves DEF Used
<1>3. ASSUME Unfinished, NEW i \in DOMAIN Legs(state), NEW r \in Row, Waiting(state, i, r)
      PROVE  Waiting(state, i, r)' /\ i \in DOMAIN Legs(state)' /\ (Ahead(i, r)' <=> Ahead(i, r))
  BY <1>1, <1>3, RemovalLeaves DEF Waiting, Legs, Ahead
<1>4. QED
  BY <1>1, <1>2, <1>3 DEF UseInv, Unfinished, Holds

LEMMA UseStep ==
  ASSUME Recoverable, TypeInv, SourceInv, KeptInv, SetupInv, SwitchInv, UseInv, [Next]_vars
  PROVE  UseInv'
<1>1. CASE UNCHANGED vars
  BY <1>1 DEF vars, data, setup, files, locals, cursor, UseInv, Unfinished, Holds, Used, Waiting,
              Ahead, Saved, Legs
<1>2. CASE JobStep
  BY <1>2, UseUnderway, UseUndone, UseAnswer, UseSaved, UseCopy, UseCopied DEF JobStep
<1>3. CASE Next /\ ~JobStep
  BY <1>3, UseUnderway, UseSaved, UseAround, UseRemoved DEF Next
<1>4. QED
  BY <1>1, <1>2, <1>3

-----------------------------------------------------------------------------
(* What a failed migration leaves.                                         *)

LEMMA FailedInit == Init => FailedMigrationUndone
BY DEF Init, FailedMigrationUndone

LEMMA FailedStep ==
  ASSUME Recoverable, TypeInv, SourceInv, KeptInv, SetupInv, SwitchInv, UseInv,
         FailedMigrationUndone, [Next]_vars
  PROVE  FailedMigrationUndone'
<1> SUFFICES ASSUME pc' = "idle", last' = "failed"
             PROVE  /\ <<conf', image'>> = pre'.setup
                    /\ Stored(pre'.ts.rows) # {} \/ conf'.type # "clickhouse" =>
                         /\ LayoutOf(Ts)' = pre'.ts.layout
                         /\ Stored(pre'.ts.rows) \subseteq Stored(stores'[Ts].rows)
  BY DEF FailedMigrationUndone
<1>1. CASE RestartAsWas \/ UndoDeploy
  <2>1. UNCHANGED <<pre, old>> /\ pc \in {"restart", "u_deploy"} /\ Docker' = Docker
    BY <1>1, DockerStays DEF RestartAsWas, UndoDeploy, locals, ghosts
  <2>2. pre.setup = <<old, DeployedImage(old)>>
    BY <2>1 DEF SetupInv, Switching
  <2>3. conf' = old /\ image' = DeployedImage(old)
    <3>1. CASE RestartAsWas
      BY <3>1 DEF RestartAsWas, SetupInv, setup
    <3>2. CASE UndoDeploy
      BY <3>2, DeployedSetup DEF UndoDeploy, Fails, Recoverable
    <3>3. QED
      BY <1>1, <3>1, <3>2
  <2>4. Counts => AsBefore(Ts)'
    BY <1>1, UndoneTables DEF RestartAsWas, SwitchInv, data, ghosts, AsBefore
  <2>5. QED
    BY <2>1, <2>2, <2>3, <2>4 DEF Counts, AsBefore, LayoutOf
<1>2. CASE ~(RestartAsWas \/ UndoDeploy)
  <2>1. \/ UNCHANGED vars
        \/ Tick \/ StartByOperator \/ (\E k \in Keys, t \in Time : Write(k, t))
        \/ \E s \in Store : RemoveKept(s)
    BY <1>2 DEF Next, JobStep, BeginMigration, Resume, Prepare, StopSentient, PrepareImage,
       SetAside, CreateTable, BringLatest, ImageBack, Deploy, Answer, UndoStop, UndoStores,
       WriteRecord, SaveState, CopyWindow, CopyLatest, Finish, Kill, Fail, Goto, Return, CopyFrom,
       NextWindow, AfterCreate
  <2>2. UNCHANGED <<pc, last, conf, image, pre>>
    BY <2>1 DEF vars, setup, ghosts, Tick, StartByOperator, Write, RemoveKept
  <2>3. pc = "idle" /\ last = "failed" /\ stores[Ts] # None
    BY <2>2 DEF SwitchInv
  <2>4. LayoutOf(Ts)' = LayoutOf(Ts) /\ Stored(stores[Ts].rows) \subseteq Stored(stores'[Ts].rows)
    <3>1. CASE UNCHANGED stores
      BY <3>1 DEF LayoutOf
    <3>2. ASSUME NEW k \in Keys, NEW t \in Time, Write(k, t)
          PROVE  LayoutOf(Ts)' = LayoutOf(Ts)
                 /\ Stored(stores[Ts].rows) \subseteq Stored(stores'[Ts].rows)
      BY <2>3, <3>2, WrittenRows, WrittenMore, Names DEF Keeps
    <3>3. ASSUME NEW s \in Store, RemoveKept(s)
          PROVE  stores'[Ts] = stores[Ts]
      BY <3>3, Names DEF RemoveKept, TypeInv, TypeOK
    <3>4. QED
      BY <2>1, <3>1, <3>2, <3>3 DEF LayoutOf, vars, data, Tick, StartByOperator
  <2>5. QED
    BY <2>2, <2>3, <2>4 DEF FailedMigrationUndone
<1>3. QED
  BY <1>1, <1>2

(* app/src/migration.rs puts everything back when a migration fails before *)
(* or at the switch: SENTIENT runs again with the configuration and the    *)
(* image of before, and ts_kv, when it was in use or held rows, has its    *)
(* shape and all its rows, whatever was migrated, copied, written or removed *)
(* before and since.                                                       *)
THEOREM FailedMigrationIsUndone ==
  ASSUME Recoverable
  PROVE  Spec => []FailedMigrationUndone
<1> DEFINE I == /\ TypeInv /\ SourceInv /\ KeptInv /\ SetupInv /\ Past /\ SwitchInv /\ UseInv
                /\ FailedMigrationUndone
<1>1. Init => I
  BY InitType, SourceInit, KeptInit, SetupInit, PastInit, SwitchInit, UseInit, FailedInit
<1>2. I /\ [Next]_vars => I'
  BY RecoverableStarts, StepType, SourceStep, KeptStep, SetupStep, PastStep, SwitchStep, UseStep, FailedStep
  DEF Recoverable
<1>3. I => FailedMigrationUndone
  OBVIOUS
<1>4. QED
  BY <1>1, <1>2, <1>3, PTL DEF Spec

-----------------------------------------------------------------------------
(* What SENTIENT stored, in the store it uses or waiting to be copied.     *)

Known == {r \in Row : acked[r] # 0}
In(s, r) == stores[s] # None /\ r \in Stored(stores[s].rows)

(* A month is taken as copied when its fingerprints are equal; that is so  *)
(* when what was written to the new store does not make up for rows that   *)
(* are not there yet.                                                      *)
FingerprintsTell ==
  pc = "copy" /\ ~Missing /\ Fingerprint(InWindow(Source)) = Fingerprint(InWindow(Target)) =>
    InWindow(Source) \subseteq InWindow(Target)

(* Between jobs the store in use has every value; during the switch the    *)
(* store of before has, all from before the switch; and then each is in    *)
(* the new store or in a source of the copy, at its place or after it.     *)
ReachInv ==
  /\ pc \in {"idle", "prepare", "stop"} /\ ~Unfinished => \A r \in Known : In(Used(record.type), r)
  /\ pc \in Switching => \A r \in Known :
       /\ r[2] < cutover
       /\ IF old.type = "clickhouse" THEN In(Ch, r) ELSE r \in Stored(pre.ts.rows)
  /\ pc \in Recording => \A r \in Known :
       In(Used(new.type), r) \/ \E i \in DOMAIN Legs(Saved) : Waiting(Saved, i, r)
  /\ Unfinished => \A r \in Known :
       \/ In(Used(state.to), r)
       \/ /\ pc \in {"idle", "copy"}
          /\ \E i \in DOMAIN Legs(state) : Waiting(state, i, r) /\ (pc = "copy" => Ahead(i, r))

LEMMA ReachInit == Init => ReachInv
<1> SUFFICES ASSUME Init PROVE ReachInv
  OBVIOUS
<1>1. PICK type \in InitialTypes, H \in Histories :
        /\ stores = [s \in Store |->
             IF s = Used(type) THEN [FirstTable(type, s) EXCEPT !.rows = RowsOf(H)]
             ELSE FirstTable(type, s)]
        /\ acked = RowsOf(H)
        /\ conf = [type |-> type, keep |-> FALSE]
  BY DEF Init
<1>2. record.type = type /\ pc = "idle" /\ state = None
  BY <1>1 DEF Init
<1>3. \A r \in Known : In(Used(type), r)
  <2>1. FirstLayout[type] \in Layout /\ "clickhouse" \in Layout
    BY DEF FirstLayout, Layout, Types
  <2>2. Fresh(FirstLayout[type]) \in Table /\ Fresh("clickhouse") \in Table
    BY <2>1, FreshTable
  <2>3. FirstTable(type, Used(type)) \in Table
    BY <2>2 DEF FirstTable
  <2>4. RowsOf(H) \in Rows /\ Known = Stored(RowsOf(H))
    BY <1>1 DEF RowsOf, Rows, Stored, Known
  <2>5. /\ [FirstTable(type, Used(type)) EXCEPT !.rows = RowsOf(H)] \in Table
        /\ [FirstTable(type, Used(type)) EXCEPT !.rows = RowsOf(H)].rows = RowsOf(H)
    BY <2>3, <2>4 DEF Table
  <2>6. Used(type) \in Store
    BY UsedNames, Names
  <2>7. QED
    BY <1>1, <2>4, <2>5, <2>6 DEF In
<1>4. QED
  BY <1>2, <1>3 DEF ReachInv, Unfinished, Switching, Recording, MayUndo

(* What is in a table stays there. *)
LEMMA InStays ==
  ASSUME Keeps(stores, stores'), NEW s \in Store, NEW r \in Row, In(s, r)
  PROVE  In(s, r)'
BY DEF Keeps, In

(* ... ClickHouse's in the switch too. *)
LEMMA ClickhouseStays ==
  ASSUME TypeInv, KeptInv,
         \/ StopSentient \/ PrepareImage \/ SetAside \/ CreateTable \/ BringLatest \/ ImageBack
         \/ RestartAsWas \/ Deploy \/ Answer \/ UndoStop \/ UndoStores \/ UndoDeploy
  PROVE  acked' = acked /\ \A r \in Row : In(Ch, r) => In(Ch, r)'
<1>1. CASE Quiet
  BY <1>1, InStays, Names DEF Quiet
<1>2. CASE StopSentient \/ PrepareImage \/ BringLatest \/ ImageBack \/ RestartAsWas \/ Answer \/ UndoStop
  BY <1>1, <1>2, OtherSteps
<1>3. CASE CreateTable
  BY <1>1, <1>3, CreateSteps
<1>4. acked' = acked
  BY DEF StopSentient, PrepareImage, SetAside, CreateTable, BringLatest, ImageBack, RestartAsWas,
     Deploy, Answer, UndoStop, UndoStores, UndoDeploy, ghosts
<1>5. CASE HalfDone(pc)
  BY <1>1, <1>4, <1>5, QuietHalf
<1>6. CASE UNCHANGED stores
  BY <1>4, <1>6 DEF In
<1>7. CASE \E c \in {old, new} : stores' = Deployed(c)
  BY <1>1, <1>4, <1>7, QuietDeploy DEF TypeInv, TypeOK
<1>8. CASE stores'[Ch] = stores[Ch]
  BY <1>4, <1>8 DEF In
<1>9. CASE SetAside
  <2>1. CASE NeedsNew /\ ~Fail("aside", "image_back")
    BY <1>8, <1>9, <2>1, Names DEF SetAside, Ch, Ts, Aside, TypeInv, TypeOK
  <2>2. QED
    BY <1>5, <1>6, <1>9, <2>1 DEF SetAside, Fail
<1>10. CASE Deploy \/ UndoDeploy
  BY <1>5, <1>7, <1>10 DEF Deploy, UndoDeploy, Fail
<1>11. CASE UndoStores
  <2>1. CASE aside # None /\ stores' = [stores EXCEPT ![Ts] = RenamedBack(stores[aside]), ![aside] = None]
    BY <1>8, <2>1, Names DEF TypeInv, TypeOK
  <2>2. QED
    BY <1>6, <1>11, <2>1 DEF UndoStores
<1>12. QED
  BY <1>2, <1>3, <1>9, <1>10, <1>11

(* Before and during the switch. *)
LEMMA ReachUnderway ==
  ASSUME Recoverable, TypeInv, SourceInv, KeptInv, SetupInv, Past, ReachInv,
         \/ \E target \in Offered : BeginMigration(target)
         \/ Prepare \/ StopSentient \/ PrepareImage \/ SetAside \/ CreateTable \/ BringLatest
         \/ ImageBack \/ Deploy \/ UndoStop \/ UndoStores
  PROVE  ReachInv'
<1>1. ~Unfinished /\ UNCHANGED state
  BY DEF SourceInv, BeginMigration, Prepare, StopSentient, PrepareImage, SetAside, CreateTable,
     BringLatest, ImageBack, Deploy, UndoStop, UndoStores, files
<1>2. CASE (\E target \in Offered : BeginMigration(target)) \/ Prepare
           \/ (StopSentient /\ pc' # "image")
  <2>1. /\ pc \in {"idle", "prepare", "stop"} /\ pc' \in {"prepare", "stop", "idle"}
        /\ UNCHANGED <<stores, record, acked>>
    BY <1>2 DEF BeginMigration, Prepare, StopSentient, Goto, Return, data, files, ghosts
  <2>2. \A r \in Known : In(Used(record.type), r)
    BY <1>1, <2>1 DEF ReachInv
  <2>3. (\A r \in Known : In(Used(record.type), r))'
    BY <2>1, <2>2 DEF In, Used, Known
  <2>4. QED
    BY <1>1, <2>1, <2>3 DEF ReachInv, Unfinished, Recording, Switching, MayUndo
<1>3. CASE StopSentient /\ pc' = "image"
  <2>1. /\ pc = "stop" /\ UNCHANGED <<stores, acked, old>>
        /\ cutover' = now + 1 /\ pre'.ts = stores[Ts]
    BY <1>3 DEF StopSentient, Return, data, ghosts
  <2>2. old = record
    BY <2>1 DEF SetupInv
  <2>3. ASSUME NEW r \in Known
        PROVE  /\ r[2] < cutover'
               /\ IF old.type = "clickhouse" THEN In(Ch, r) ELSE r \in Stored(stores[Ts].rows)
    <3>1. In(Used(record.type), r)
      BY <1>1, <2>1 DEF ReachInv
    <3>2. r \in Everywhere /\ r \in Row
      BY DEF KeptInv, NothingDeleted, Known
    <3>3. r[2] <= now /\ now \in Nat /\ r[2] \in Nat
      BY <3>2 DEF Past, TypeInv, TypeOK, Row, Time
    <3>4. QED
      BY <2>1, <2>2, <3>1, <3>3 DEF In, Used
  <2>4. (\A r \in Known :
          /\ r[2] < cutover
          /\ IF old.type = "clickhouse" THEN In(Ch, r) ELSE r \in Stored(pre.ts.rows))'
    BY <2>1, <2>3 DEF Known, In
  <2>5. QED
    BY <1>1, <1>3, <2>4 DEF ReachInv, Unfinished, Recording
<1>4. CASE PrepareImage \/ SetAside \/ CreateTable \/ BringLatest \/ ImageBack \/ Deploy \/ UndoStop
           \/ UndoStores
  <2>1. pc' \notin {"idle", "prepare", "stop"} \union Recording
    BY <1>4 DEF PrepareImage, SetAside, CreateTable, BringLatest, ImageBack, Deploy, UndoStop,
       UndoStores, Fail, Goto, AfterCreate, Recording
  <2>2. pc \in Switching
    BY <1>4 DEF PrepareImage, SetAside, CreateTable, BringLatest, ImageBack, Deploy, UndoStop,
       UndoStores, Switching, MayUndo
  <2>3. acked' = acked /\ \A r \in Row : In(Ch, r) => In(Ch, r)'
    BY <1>4, ClickhouseStays
  <2>4. UNCHANGED <<old, pre, cutover>>
    BY <1>4 DEF PrepareImage, SetAside, CreateTable, BringLatest, ImageBack, Deploy, UndoStop,
       UndoStores, locals, ghosts
  <2>5. \A r \in Known : r \in Row /\ r[2] < cutover
          /\ IF old.type = "clickhouse" THEN In(Ch, r) ELSE r \in Stored(pre.ts.rows)
    BY <2>2 DEF ReachInv, Known
  <2>6. (\A r \in Known :
          /\ r[2] < cutover
          /\ IF old.type = "clickhouse" THEN In(Ch, r) ELSE r \in Stored(pre.ts.rows))'
    BY <2>3, <2>4, <2>5 DEF Known
  <2>7. QED
    BY <1>1, <2>1, <2>6 DEF ReachInv, Unfinished
<1>5. QED
  BY <1>2, <1>3, <1>4

(* The old type again: all of its history is there. *)
LEMMA ReachUndone ==
  ASSUME Recoverable, TypeInv, SourceInv, KeptInv, SetupInv, SwitchInv, ReachInv,
         RestartAsWas \/ UndoDeploy
  PROVE  ReachInv'
<1>1. /\ ~Unfinished /\ old = record /\ pc' = "idle" /\ UNCHANGED <<state, record, old, pre>>
      /\ pc \in {"restart", "u_deploy"}
  BY DEF SourceInv, SetupInv, RestartAsWas, UndoDeploy, Return, files, locals, ghosts, Switching
<1>2. Counts => AsBefore(Ts)'
  BY <1>1, UndoneTables DEF RestartAsWas, SwitchInv, Switching, data, AsBefore
<1>3. acked' = acked /\ \A r \in Row : In(Ch, r) => In(Ch, r)'
  BY ClickhouseStays
<1>4. ASSUME NEW r \in Known
      PROVE  In(Used(record.type), r)'
  BY <1>1, <1>2, <1>3 DEF ReachInv, Known, Switching, In, Used, AsBefore, Counts
<1>5. (\A r \in Known : In(Used(record.type), r))'
  BY <1>3, <1>4 DEF Known
<1>6. QED
  BY <1>1, <1>5 DEF ReachInv, Unfinished, Recording, Switching, MayUndo

(* SENTIENT answers: what is not in its new store is to be copied. *)
LEMMA ReachAnswer ==
  ASSUME Recoverable, TypeInv, SourceInv, KeptInv, SwitchInv, ReachInv, Answer
  PROVE  ReachInv'
<1>1. /\ pc = "answer" /\ pc' \in {"record", "u_stop"} /\ ~Unfinished
      /\ UNCHANGED <<stores, state, old, new, cutover, aside, acked, pre>>
  BY DEF Answer, Goto, SourceInv, data, files, locals, ghosts
<1>2. \A r \in Known :
        /\ r \in Row /\ r[2] < cutover
        /\ IF old.type = "clickhouse" THEN In(Ch, r) ELSE r \in Stored(pre.ts.rows)
  BY <1>1 DEF ReachInv, Switching, MayUndo, Known
<1>3. CASE pc' = "u_stop"
  BY <1>1, <1>2, <1>3 DEF Known, In, ReachInv, Unfinished, Recording
<1>4. CASE pc' = "record"
  <2>1. IF aside # None THEN AsBefore(aside) ELSE (Counts => AsBefore(Ts))
    BY <1>1 DEF SwitchInv, MayUndo
  <2>2. ASSUME NEW r \in Known
        PROVE  In(Used(new.type), r) \/ \E i \in DOMAIN Legs(Saved) : Waiting(Saved, i, r)
    <3>0. /\ r \in Row /\ r[2] < cutover
          /\ IF old.type = "clickhouse" THEN In(Ch, r) ELSE r \in Stored(pre.ts.rows)
      BY <1>2
    <3>1. CASE old.type = "clickhouse"
      <4>1. CASE new.type = "clickhouse"
        BY <3>0, <3>1, <4>1 DEF Used
      <4>2. CASE new.type # "clickhouse"
        BY <3>0, <3>1, <4>2, SavedIs, LegsAre DEF Waiting, In
      <4>3. QED
        BY <4>1, <4>2
    <3>2. CASE old.type # "clickhouse"
      <4>1. CASE aside # None
        BY <2>1, <3>0, <3>2, <4>1, SavedIs, LegsAre DEF Waiting, AsBefore
      <4>2. CASE aside = None
        <5>1. AsBefore(Ts)
          BY <2>1, <3>2, <4>2 DEF Counts
        <5>2. CASE new.type = "clickhouse"
          BY <3>0, <3>2, <5>1, <5>2, SavedIs, LegsAre DEF Waiting, AsBefore
        <5>3. CASE new.type # "clickhouse"
          BY <3>0, <3>2, <5>1, <5>3 DEF In, Used, AsBefore
        <5>4. QED
          BY <5>2, <5>3
      <4>3. QED
        BY <4>1, <4>2
    <3>3. QED
      BY <3>1, <3>2
  <2>3. (\A r \in Known : In(Used(new.type), r) \/ \E i \in DOMAIN Legs(Saved) : Waiting(Saved, i, r))'
    BY <1>1, <2>2 DEF In, Used, Waiting, Saved, Legs, Known
  <2>4. QED
    BY <1>1, <1>4, <2>3 DEF ReachInv, Unfinished, Switching, MayUndo
<1>5. QED
  BY <1>1, <1>3, <1>4

(* A copy begins before everything that waits. *)
LEMMA CopyReaches ==
  ASSUME NEW s \in State, CopyFrom(s), s # None, ~s.done, state' = s, pc' # "idle",
         UNCHANGED <<stores, acked>>,
         \A r \in Known : In(Used(s.to), r) \/ \E i \in DOMAIN Legs(s) : Waiting(s, i, r)
  PROVE  ReachInv'
<1>1. pc' = (IF Legs(s) = <<>> THEN "finish" ELSE "copy") /\ leg' = 1 /\ month' = 1
  BY DEF CopyFrom, Goto
<1>2. ASSUME NEW r \in Known
      PROVE  (\/ In(Used(state.to), r)
              \/ /\ pc \in {"idle", "copy"}
                 /\ \E i \in DOMAIN Legs(state) :
                      Waiting(state, i, r) /\ (pc = "copy" => Ahead(i, r)))'
  <2>1. CASE In(Used(s.to), r)
    BY <2>1 DEF In, Used
  <2>2. ASSUME NEW i \in DOMAIN Legs(s), Waiting(s, i, r)
        PROVE  (/\ pc \in {"idle", "copy"}
                /\ \E n \in DOMAIN Legs(state) :
                     Waiting(state, n, r) /\ (pc = "copy" => Ahead(n, r)))'
    <3>1. DOMAIN Legs(s) = 1..Len(Legs(s)) /\ Len(Legs(s)) \in Nat
      BY LegsStores
    <3>2. i \in Nat \ {0} /\ MonthOf[r[2]] \in Nat \ {0}
      BY <3>1 DEF Row, Months, Known
    <3>3. Legs(s) # <<>>
      BY <3>1
    <3>4. Ahead(i, r)'
      BY <1>1, <3>2 DEF Ahead
    <3>5. Waiting(state, i, r)'
      BY <2>2 DEF Waiting, Legs
    <3>6. i \in DOMAIN Legs(state)'
      BY DEF Legs
    <3>7. QED
      BY <1>1, <3>3, <3>4, <3>5, <3>6
  <2>3. QED
    BY <2>1, <2>2
<1>3. (\A r \in Known :
        \/ In(Used(state.to), r)
        \/ /\ pc \in {"idle", "copy"}
           /\ \E i \in DOMAIN Legs(state) : Waiting(state, i, r) /\ (pc = "copy" => Ahead(i, r)))'
  BY <1>2 DEF Known
<1>4. QED
  BY <1>1, <1>3 DEF ReachInv, Recording, Switching, MayUndo, Unfinished

LEMMA ReachSaved ==
  ASSUME Recoverable, TypeInv, SourceInv, SetupInv, ReachInv, WriteRecord \/ SaveState \/ Resume
  PROVE  ReachInv'
<1>1. CASE WriteRecord
  <2>1. /\ pc = "record" /\ pc' = "save" /\ ~Unfinished
        /\ UNCHANGED <<stores, state, old, new, cutover, aside, acked>>
    BY <1>1 DEF WriteRecord, Fails, Recoverable, Goto, SourceInv, data, locals, ghosts
  <2>2. \A r \in Known : In(Used(new.type), r) \/ \E i \in DOMAIN Legs(Saved) : Waiting(Saved, i, r)
    BY <2>1 DEF ReachInv, Recording
  <2>3. (\A r \in Known : In(Used(new.type), r) \/ \E i \in DOMAIN Legs(Saved) : Waiting(Saved, i, r))'
    BY <2>1, <2>2 DEF In, Used, Waiting, Saved, Legs, Known
  <2>4. QED
    BY <2>1, <2>3 DEF ReachInv, Unfinished, Switching, MayUndo
<1>2. CASE SaveState
  BY <1>2, SaveSteps, SavedIs, CopyReaches DEF SaveState, data, ghosts, ReachInv, Recording,
     CopyFrom, Goto
<1>3. CASE Resume
  BY <1>3, CopyReaches DEF Resume, data, files, ghosts, Unfinished, TypeInv, TypeOK, ReachInv,
     CopyFrom, Goto
<1>4. QED
  BY <1>1, <1>2, <1>3

(* Copying a month brings what waits in it. *)
LEMMA CopiedIn ==
  ASSUME TypeInv, FingerprintsTell, pc = "copy", ~Stuck,
         NEW r \in Row, Waiting(state, leg, r), month = MonthOf[r[2]],
         IF Copied THEN UNCHANGED stores
         ELSE \E rows \in Inserted(InWindow(Source)) :
                stores' = [stores EXCEPT ![Target].rows = rows]
  PROVE  stores'[Target] # None /\ r \in Stored(stores'[Target].rows)
<1>1. ~Missing /\ r \in InWindow(Source)
  BY DEF Stuck, Waiting, InWindow, Window, Source
<1>2. CASE Copied
  BY <1>1, <1>2 DEF Copied, FingerprintsTell, Missing, LayoutOf, InWindow
<1>3. CASE ~Copied
  BY <1>1, <1>3, InsertedHolds
<1>4. QED
  BY <1>2, <1>3

LEMMA ReachCopy ==
  ASSUME Recoverable, TypeInv, SourceInv, KeptInv, SetupInv, FingerprintsTell, ReachInv, CopyWindow
  PROVE  ReachInv'
<1>0. /\ pc = "copy" /\ Unfinished /\ state \in State /\ UNCHANGED <<state, acked>>
      /\ Used(state.to) \in Store /\ Target = Used(state.to)
  BY UsedNames, Names DEF CopyWindow, SetupInv, Copying, TypeInv, files, Target, ghosts
<1>1. Unfinished' /\ pc' \in {"idle", "copy", "copy_latest", "finish"}
  BY <1>0 DEF CopyWindow, NextWindow, Goto, Return, Unfinished
<1>2. ASSUME NEW r \in Known
      PROVE  (\/ In(Used(state.to), r)
              \/ /\ pc \in {"idle", "copy"}
                 /\ \E i \in DOMAIN Legs(state) :
                      Waiting(state, i, r) /\ (pc = "copy" => Ahead(i, r)))'
  <2>0. r \in Row
    BY DEF Known
  <2>1. CASE In(Used(state.to), r)
    BY <1>0, <2>0, <2>1, CopySteps DEF Quiet, In, Used, Keeps
  <2>2. ASSUME NEW i \in DOMAIN Legs(state), Waiting(state, i, r), Ahead(i, r)
        PROVE  (\/ In(Used(state.to), r)
                \/ /\ pc \in {"idle", "copy"}
                   /\ \E n \in DOMAIN Legs(state) :
                        Waiting(state, n, r) /\ (pc = "copy" => Ahead(n, r)))'
    <3>1. Waiting(state, i, r)' /\ i \in DOMAIN Legs(state)'
      BY <1>0, <2>0, <2>2, CopyRemovesNone, WaitingStays DEF Next, JobStep
    <3>2. CASE pc' = "idle"
      BY <3>1, <3>2
    <3>3. CASE pc' # "idle"
      <4>1. /\ ~Stuck /\ NextWindow
            /\ IF Copied THEN UNCHANGED stores
               ELSE \E rows \in Inserted(InWindow(Source)) :
                      stores' = [stores EXCEPT ![Target].rows = rows]
        BY <3>3 DEF CopyWindow, Return
      <4>2. CASE leg = i /\ month = MonthOf[r[2]]
        BY <1>0, <2>0, <2>2, <4>1, <4>2, CopiedIn DEF In, Used
      <4>3. CASE ~(leg = i /\ month = MonthOf[r[2]])
        <5>1. /\ i \in 1..Len(Legs(state)) /\ leg \in 1..Len(Legs(state)) /\ Len(Legs(state)) \in Nat
              /\ month \in 1..NMonths /\ MonthOf[r[2]] \in 1..NMonths /\ NMonths \in Nat
          BY <1>0, <2>0, LegsStores DEF TypeInv, TypeOK, Months, Row
        <5>2. leg < i \/ (leg = i /\ month < MonthOf[r[2]])
          BY <2>2, <4>3, <5>1 DEF Ahead
        <5>3. /\ pc' = "copy"
              /\ \/ month' = month + 1 /\ leg' = leg /\ month < NMonths
                 \/ month' = 1 /\ leg' = leg + 1 /\ month >= NMonths
          BY <4>1, <5>1, <5>2 DEF NextWindow, Goto
        <5>4. Ahead(i, r)'
          BY <5>1, <5>2, <5>3 DEF Ahead
        <5>5. QED
          BY <3>1, <5>3, <5>4
      <4>4. QED
        BY <4>2, <4>3
    <3>4. QED
      BY <3>2, <3>3
  <2>3. QED
    BY <1>0, <2>1, <2>2 DEF ReachInv
<1>3. (\A r \in Known :
        \/ In(Used(state.to), r)
        \/ /\ pc \in {"idle", "copy"}
           /\ \E i \in DOMAIN Legs(state) : Waiting(state, i, r) /\ (pc = "copy" => Ahead(i, r)))'
  BY <1>0, <1>2 DEF Known
<1>4. QED
  BY <1>1, <1>3 DEF ReachInv, Recording, Switching, MayUndo

LEMMA ReachCopied ==
  ASSUME Recoverable, TypeInv, SourceInv, SetupInv, ReachInv, CopyLatest \/ Finish
  PROVE  ReachInv'
<1>0. /\ pc \in {"copy_latest", "finish"} /\ Unfinished /\ conf.type = state.to /\ conf = record
      /\ UNCHANGED <<stores, record, acked>>
  BY DEF CopyLatest, Finish, SetupInv, Copying, SourceInv, data, files, ghosts
<1>1. \A r \in Known : In(Used(state.to), r)
  BY <1>0 DEF ReachInv
<1>2. CASE UNCHANGED state
  <2>1. pc' \in {"idle", "finish"} /\ Unfinished'
    BY <1>0, <1>2 DEF CopyLatest, Finish, Goto, Return, Unfinished
  <2>2. (\A r \in Known : In(Used(state.to), r))'
    BY <1>0, <1>1, <1>2 DEF In, Used, Known
  <2>3. QED
    BY <2>1, <2>2 DEF ReachInv, Recording, Switching, MayUndo
<1>3. CASE pc = "finish" /\ state' = [state EXCEPT !.done = TRUE] /\ pc' = "idle"
  BY <1>0, <1>1, <1>3 DEF TypeInv, Unfinished, State, In, Used, Known, ReachInv, Recording,
     Switching, MayUndo
<1>4. QED
  BY <1>2, <1>3 DEF CopyLatest, Finish, Return, files

LEMMA WrittenKnown ==
  ASSUME TypeInv, NEW k \in Keys, NEW t \in Time, Write(k, t)
  PROVE  Known' = Known \union {<<k, t>>}
<1>1. \A r \in Row : r # <<k, t>> => acked'[r] = acked[r]
  BY WrittenRows
<1>2. acked'[<<k, t>>] # 0
  <2> DEFINE r == <<k, t>>
  <2>1. r \in Row /\ acked \in [Row -> 0..MaxVersion] /\ acked' = [acked EXCEPT ![r] = acked[r] + 1]
    BY DEF Write, Row, TypeInv, TypeOK, Rows
  <2> HIDE DEF r
  <2>2. acked[r] \in Nat /\ acked'[r] = acked[r] + 1
    BY <2>1
  <2>3. QED
    BY <2>2 DEF r
<1>3. <<k, t>> \in Row
  BY DEF Row
<1>4. QED
  BY <1>1, <1>2, <1>3 DEF Known

(* SENTIENT stores a value where it is looked for, and not in the switch.  *)
LEMMA WrittenWhere ==
  ASSUME TypeInv, SourceInv, SetupInv, SwitchInv, NEW k \in Keys, NEW t \in Time, Write(k, t)
  PROVE  /\ pc \notin Switching
         /\ pc \in Recording => conf = new
         /\ Unfinished => conf.type = state.to
         /\ pc \in {"idle", "prepare", "stop"} => conf = record
         /\ Known' = Known \union {<<k, t>>}
         /\ In(Used(conf.type), <<k, t>>)'
BY WrittenRows, WrittenKnown DEF Write, SwitchInv, setup, SourceInv, SetupInv, Recording, In, Used

(* Nothing but a removal takes from the tables. *)
LEMMA ReachAround ==
  ASSUME Recoverable, TypeInv, SourceInv, KeptInv, SetupInv, SwitchInv, ReachInv,
         \/ \E k \in Keys, t \in Time : Write(k, t)
         \/ Tick \/ StartByOperator \/ Kill
  PROVE  ReachInv'
<1>0. /\ Keeps(stores, stores')
      /\ UNCHANGED <<state, record, old, new, cutover, aside, leg, month, pre>>
      /\ \/ acked' = acked
         \/ \E k \in Keys, t \in Time : Write(k, t)
  <2>1. CASE Tick \/ StartByOperator \/ Kill
    BY <2>1, OtherSteps DEF Quiet, Tick, StartByOperator, Kill, files, locals, cursor, ghosts
  <2>2. ASSUME NEW k \in Keys, NEW t \in Time, Write(k, t)
        PROVE  /\ Keeps(stores, stores')
               /\ UNCHANGED <<state, record, old, new, cutover, aside, leg, month, pre>>
    BY <2>2, WrittenRows DEF Write, files, locals, cursor
  <2>3. QED
    BY <2>1, <2>2
<1>1. \/ pc' = pc
      \/ /\ pc' = "idle" /\ pc \in {"idle", "prepare", "stop"} \union Copying
         /\ acked' = acked
  <2>1. CASE Kill
    BY <2>1 DEF Kill, Return, Recoverable, TypeInv, TypeOK, Steps, Switching, Recording, Copying,
       MayUndo, ghosts
  <2>2. CASE ~Kill
    BY <2>2 DEF Tick, StartByOperator, Write
  <2>3. QED
    BY <2>1, <2>2
<1>2. \A type : \A r \in Row : In(Used(type), r) => In(Used(type), r)'
  BY <1>0, InStays, UsedNames, Names DEF Used
<1>3. \A r \in Known' : r \in Row /\ (r \in Known \/ (\E k \in Keys, t \in Time : r = <<k, t>> /\ Write(k, t)))
  <2>1. \A r \in Known' : r \in Row
    BY DEF Known
  <2>2. CASE acked' = acked
    BY <2>1, <2>2 DEF Known
  <2>3. ASSUME NEW k \in Keys, NEW t \in Time, Write(k, t)
        PROVE  \A r \in Known' : r \in Known \/ (\E l \in Keys, u \in Time : r = <<l, u>> /\ Write(l, u))
    <3>1. Known' = Known \union {<<k, t>>}
      BY <2>3, WrittenWhere
    <3>2. QED
      BY <2>3, <3>1
  <2>4. QED
    BY <1>0, <2>1, <2>2, <2>3
<1>4. ASSUME pc' \in {"idle", "prepare", "stop"}, ~Unfinished', NEW r \in Known'
      PROVE  In(Used(record.type), r)'
  <2>1. ~Unfinished /\ pc \in {"idle", "prepare", "stop"}
    BY <1>0, <1>1, <1>4 DEF Unfinished, SetupInv, Copying
  <2>2. CASE r \in Known
    BY <1>0, <1>2, <1>3, <2>1, <2>2 DEF ReachInv, Used
  <2>3. ASSUME NEW k \in Keys, NEW t \in Time, r = <<k, t>>, Write(k, t)
        PROVE  In(Used(record.type), r)'
    BY <1>0, <2>1, <2>3, WrittenWhere DEF Used, Write, setup
  <2>4. QED
    BY <1>3, <2>2, <2>3
<1>5. ASSUME pc' \in Switching
      PROVE  UNCHANGED <<acked, pc>>
  BY <1>0, <1>1, <1>5, WrittenWhere DEF Switching, MayUndo, Write
<1>6. ASSUME pc' \in Switching, NEW r \in Known'
      PROVE  (/\ r[2] < cutover
              /\ IF old.type = "clickhouse" THEN In(Ch, r) ELSE r \in Stored(pre.ts.rows))'
  BY <1>0, <1>5, <1>6, InStays, Names DEF Known, ReachInv
<1>7. ASSUME pc' \in Recording, NEW r \in Known'
      PROVE  (In(Used(new.type), r) \/ \E i \in DOMAIN Legs(Saved) : Waiting(Saved, i, r))'
  <2>1. pc \in Recording
    BY <1>1, <1>7 DEF Recording
  <2>2. ASSUME r \in Known, NEW i \in DOMAIN Legs(Saved), Waiting(Saved, i, r)
        PROVE  i \in DOMAIN Legs(Saved)' /\ Waiting(Saved, i, r)'
    BY <1>0, <2>2, SavedIs, LegsStores DEF Saved, Legs, Keeps, Waiting
  <2>3. CASE r \in Known
    BY <1>0, <1>2, <1>3, <2>1, <2>2, <2>3 DEF Used, ReachInv
  <2>4. ASSUME NEW k \in Keys, NEW t \in Time, r = <<k, t>>, Write(k, t)
        PROVE  In(Used(new.type), r)'
    BY <1>0, <2>1, <2>4, WrittenWhere DEF Used, Write, setup
  <2>5. QED
    BY <1>3, <2>3, <2>4
<1>8. ASSUME Unfinished', NEW r \in Known'
      PROVE  (\/ In(Used(state.to), r)
              \/ /\ pc \in {"idle", "copy"}
                 /\ \E i \in DOMAIN Legs(state) :
                      Waiting(state, i, r) /\ (pc = "copy" => Ahead(i, r)))'
  <2>1. Unfinished
    BY <1>0, <1>8 DEF Unfinished
  <2>2. ASSUME r \in Known, In(Used(state.to), r)
        PROVE  In(Used(state.to), r)'
    BY <1>0, <1>2, <1>3, <2>2 DEF Used
  <2>3. ASSUME r \in Known, pc \in {"idle", "copy"},
               NEW i \in DOMAIN Legs(state), Waiting(state, i, r), pc = "copy" => Ahead(i, r)
        PROVE  (/\ pc \in {"idle", "copy"}
                /\ \E n \in DOMAIN Legs(state) :
                     Waiting(state, n, r) /\ (pc = "copy" => Ahead(n, r)))'
    <3>1. Next
      BY DEF Next
    <3>2. ~(\E s \in Store : RemoveKept(s))
      <4>1. ASSUME NEW s \in Store, RemoveKept(s)
            PROVE  FALSE
        BY <1>0, <4>1 DEF RemoveKept, TypeInv, TypeOK, Keeps
      <4>2. QED
        BY <4>1
    <3>3. Waiting(state, i, r)' /\ i \in DOMAIN Legs(state)'
      BY <1>0, <1>3, <2>1, <2>3, <3>1, <3>2, WaitingStays
    <3>4. pc' \in {"idle", "copy"} /\ (pc' = "copy" => Ahead(i, r)')
      BY <1>0, <1>1, <2>3 DEF Ahead
    <3>5. QED
      BY <3>3, <3>4
  <2>4. ASSUME NEW k \in Keys, NEW t \in Time, r = <<k, t>>, Write(k, t)
        PROVE  In(Used(state.to), r)'
    BY <1>0, <2>1, <2>4, WrittenWhere DEF Used, Write, setup
  <2>5. QED
    BY <1>3, <2>1, <2>2, <2>3, <2>4 DEF ReachInv
<1>9. QED
  BY <1>4, <1>6, <1>7, <1>8 DEF ReachInv

(* A removal leaves the store in use and what waits, and so every value.   *)
LEMMA ReachRemoved ==
  ASSUME Recoverable, TypeInv, SourceInv, KeptInv, SetupInv, ReachInv, NEW s \in Store, RemoveKept(s)
  PROVE  ReachInv' /\ acked' = acked
<1>1. /\ UNCHANGED <<pc, state, record, leg, month>> /\ Used(record.type)' = Used(record.type)
      /\ pc \notin Recording \union Switching
      /\ acked' = [r \in Row |-> IF r \in Everywhere' THEN acked[r] ELSE 0]
  BY RemovalLeaves DEF Used, Recording, Switching, MayUndo, Copying, RemoveKept
<1>2. \A n \in Store \ {s}, r \in Row : In(n, r) => In(n, r)' /\ r \in Everywhere'
  BY RemovalLeaves DEF In, Everywhere
<1>3. \A r \in Row : In(Used(record.type), r) => In(Used(record.type), r)'
  BY <1>1, <1>2, RemovalLeaves DEF In
<1>4. Unfinished => record.type = state.to /\ Used(state.to)' = Used(record.type)
  BY <1>1, RemovalLeaves DEF Used
<1>5. ASSUME Unfinished, NEW r \in Row, NEW i \in DOMAIN Legs(state), Waiting(state, i, r)
      PROVE  /\ Waiting(state, i, r)' /\ i \in DOMAIN Legs(state)' /\ (Ahead(i, r)' <=> Ahead(i, r))
             /\ r \in Everywhere'
  BY <1>1, <1>2, <1>5, RemovalLeaves DEF Waiting, Legs, In, Ahead
<1>6. \A r \in Known : r \in Everywhere'
  <2> SUFFICES ASSUME NEW r \in Known PROVE r \in Everywhere'
    OBVIOUS
  <2>1. CASE In(Used(record.type), r)
    BY <1>2, <2>1, RemovalLeaves DEF Known
  <2>2. CASE ~In(Used(record.type), r)
    <3>1. Unfinished
      BY <2>2, RemovalLeaves DEF ReachInv, SetupInv
    <3>2. QED
      BY <1>4, <1>5, <2>2, <3>1 DEF ReachInv, Known
  <2>3. QED
    BY <2>1, <2>2
<1>7. acked' = acked
  BY <1>1, <1>6 DEF TypeInv, TypeOK, Rows, Known
<1>8. Known' = Known /\ Unfinished' = Unfinished
  BY <1>1, <1>7 DEF Known, Unfinished
<1>9. pc \in {"idle", "prepare", "stop"} /\ ~Unfinished => \A r \in Known : In(Used(record.type), r)'
  BY <1>3 DEF ReachInv, Known
<1>10. ASSUME Unfinished, NEW r \in Known
       PROVE  (\/ In(Used(state.to), r)
               \/ /\ pc \in {"idle", "copy"}
                  /\ \E i \in DOMAIN Legs(state) : Waiting(state, i, r) /\ (pc = "copy" => Ahead(i, r)))'
  BY <1>1, <1>3, <1>4, <1>5, <1>10 DEF ReachInv, Known, In
<1>11. QED
  BY <1>1, <1>7, <1>8, <1>9, <1>10 DEF ReachInv

LEMMA ReachStep ==
  ASSUME Recoverable, TypeInv, SourceInv, KeptInv, SetupInv, Past, SwitchInv, FingerprintsTell,
         ReachInv, [Next]_vars
  PROVE  ReachInv'
<1>1. CASE UNCHANGED vars
  BY <1>1 DEF vars, data, setup, files, locals, cursor, ghosts, ReachInv, Unfinished, In, Used,
              Waiting, Ahead, Saved, Legs, Known
<1>2. CASE JobStep
  BY <1>2, ReachUnderway, ReachUndone, ReachAnswer, ReachSaved, ReachCopy, ReachCopied DEF JobStep
<1>3. CASE Next /\ ~JobStep
  BY <1>3, ReachUnderway, ReachSaved, ReachAround, ReachRemoved DEF Next
<1>4. QED
  BY <1>1, <1>2, <1>3

(* What SENTIENT stored can be had: while no job runs, and whichever were  *)
(* interrupted, killed or undone, the store it uses has every value, or    *)
(* app/src/migration.rs still has a copy to continue that brings it.  Of   *)
(* the constants this asks what the undoing of a migration needs, and that *)
(* no value is corrected (a copy may bring the earlier one); of the run,   *)
(* that equal fingerprints of a month are those of equal months.           *)
THEOREM HistoryIsReachable ==
  ASSUME Recoverable, MaxVersion = 1
  PROVE  Spec /\ []FingerprintsTell => []HistoryReachable
<1> DEFINE I == /\ TypeInv /\ SourceInv /\ KeptInv /\ SetupInv /\ Past /\ SwitchInv /\ UseInv
                /\ ReachInv
<1>1. Init => I
  BY InitType, SourceInit, KeptInit, SetupInit, PastInit, SwitchInit, UseInit, ReachInit
<1>2. I /\ FingerprintsTell /\ [Next]_vars => I'
  BY RecoverableStarts, StepType, SourceStep, KeptStep, SetupStep, PastStep, SwitchStep, UseStep, ReachStep
  DEF Recoverable
<1>3. I => HistoryReachable
  <2> SUFFICES ASSUME I, pc = "idle", NEW r \in Row, acked[r] # 0
               PROVE  \/ stores[Used(conf.type)].rows[r] = acked[r]
                      \/ /\ Unfinished /\ r[2] < state.cutover
                         /\ \E i \in DOMAIN Legs(state) : stores[Legs(state)[i]].rows[r] = acked[r]
    BY DEF HistoryReachable
  <2>1. r \in Known /\ conf = record
    BY DEF Known, SetupInv
  <2>2. ASSUME NEW s \in Store, In(s, r)
        PROVE  stores[s].rows[r] = acked[r]
    BY <2>2 DEF In, TypeInv, TypeOK, Table, Rows, Stored
  <2>3. \A type : Used(type) \in Store
    BY UsedNames, Names
  <2>4. CASE ~Unfinished
    BY <2>1, <2>2, <2>3, <2>4 DEF ReachInv
  <2>5. CASE Unfinished
    <3>1. conf.type = state.to /\ state \in State
      BY <2>5 DEF SourceInv, Unfinished, TypeInv, TypeOK
    <3>2. CASE In(Used(state.to), r)
      BY <2>2, <2>3, <3>1, <3>2
    <3>3. ASSUME NEW i \in DOMAIN Legs(state), Waiting(state, i, r)
          PROVE  r[2] < state.cutover /\ stores[Legs(state)[i]].rows[r] = acked[r]
      BY <2>2, <3>1, <3>3, LegsStores DEF Waiting, In
    <3>4. QED
      BY <2>1, <2>5, <3>2, <3>3 DEF ReachInv
  <2>6. QED
    BY <2>4, <2>5
<1>4. Spec /\ []FingerprintsTell => []I
  BY <1>1, <1>2, PTL DEF Spec
<1>5. QED
  BY <1>3, <1>4, PTL

-----------------------------------------------------------------------------
(* The latest values.                                                      *)

Newest(s) == \A r \in Known : r[2] <= latest[s][r[1]]
Between == \A r \in Known : r[2] <= latest[Ts][r[1]] \/ r[2] <= latest[Ch][r[1]]

(* A latest value is one that was stored.  Where it is the newest: in the  *)
(* store in use, during the switch in the one left, and in PostgreSQL once *)
(* ClickHouse's were brought there; ClickHouse gets PostgreSQL's only at   *)
(* the end of the copy, and until then one of the two has it.              *)
LatestInv ==
  /\ \A s \in {Ts, Ch}, k \in Keys : latest[s][k] # 0 => <<k, latest[s][k]>> \in Known
  /\ pc \in {"idle", "prepare", "stop"} /\ ~Unfinished => Newest(Used(record.type))
  /\ pc \in Switching => Newest(Used(old.type))
  /\ pc = "latest" => old.type = "clickhouse"
  /\ pc \in {"deploy", "answer"} /\ new.type # "clickhouse" => Newest(Ts)
  /\ pc \in Recording => IF new.type = "clickhouse" THEN Between ELSE Newest(Ts)
  /\ Unfinished => IF state.to # "clickhouse" THEN Newest(Ts)
                   ELSE IF pc = "finish" THEN Newest(Ch) ELSE Between

LEMMA LatestInit == Init => LatestInv
<1> SUFFICES ASSUME Init PROVE LatestInv
  OBVIOUS
<1>1. PICK type \in InitialTypes, H \in Histories, newest \in [Keys -> {0} \union Time] :
        /\ NewestOf(H, newest)
        /\ latest = [s \in {Ts, Ch} |-> IF s = Used(type) THEN newest ELSE [k \in Keys |-> 0]]
        /\ acked = RowsOf(H)
        /\ conf = [type |-> type, keep |-> FALSE]
  BY DEF Init
<1>2. record.type = type /\ pc = "idle" /\ state = None
  BY <1>1 DEF Init
<1>3. H \subseteq Row /\ Known = H
  BY <1>1 DEF Known, RowsOf
<1>4. latest[Used(type)] = newest
  BY <1>1, UsedNames
<1>5. ASSUME NEW r \in H
      PROVE  r[2] <= newest[r[1]]
  <2>1. r[1] \in Keys /\ r[2] \in Time /\ r = <<r[1], r[2]>>
    BY <1>3 DEF Row
  <2>2. QED
    BY <1>1, <2>1 DEF NewestOf
<1>6. Newest(Used(type))
  BY <1>3, <1>4, <1>5 DEF Newest
<1>7. ASSUME NEW s \in {Ts, Ch}, NEW k \in Keys, latest[s][k] # 0
      PROVE  <<k, latest[s][k]>> \in Known
  BY <1>1, <1>3, <1>7 DEF NewestOf
<1>8. QED
  BY <1>2, <1>6, <1>7 DEF LatestInv, Unfinished, Switching, Recording, MayUndo

(* The newest values when neither they nor what was stored changes.        *)
LEMMA NewestSame ==
  ASSUME UNCHANGED <<latest, acked>>
  PROVE  /\ \A s : Newest(s)' <=> Newest(s)
         /\ Between' <=> Between
         /\ (\A s \in {Ts, Ch}, k \in Keys : latest[s][k] # 0 => <<k, latest[s][k]>> \in Known)
              => (\A s \in {Ts, Ch}, k \in Keys : latest[s][k] # 0 => <<k, latest[s][k]>> \in Known)'
BY DEF Newest, Between, Known

LEMMA NewestBetween ==
  ASSUME NEW type, Newest(Used(type))
  PROVE  Between
BY DEF Newest, Between, Used

(* Before and during the switch. *)
LEMMA LatestUnderway ==
  ASSUME Recoverable, TypeInv, SourceInv, SetupInv, LatestInv, UNCHANGED <<latest, acked>>,
         \/ \E target \in Offered : BeginMigration(target)
         \/ Prepare \/ StopSentient \/ PrepareImage \/ SetAside \/ CreateTable
         \/ ImageBack \/ RestartAsWas \/ Deploy \/ Answer \/ UndoStop \/ UndoStores \/ UndoDeploy
  PROVE  LatestInv'
<1>1. ~Unfinished /\ UNCHANGED <<state, record>>
  BY DEF SourceInv, BeginMigration, Prepare, StopSentient, PrepareImage, SetAside, CreateTable,
     ImageBack, RestartAsWas, Deploy, Answer, UndoStop, UndoStores, UndoDeploy, files
<1>2. (\A s \in {Ts, Ch}, k \in Keys : latest[s][k] # 0 => <<k, latest[s][k]>> \in Known)'
  BY NewestSame DEF LatestInv
<1>3. CASE (\E target \in Offered : BeginMigration(target)) \/ Prepare \/ StopSentient
  <2>1. /\ pc \in {"idle", "prepare", "stop"} /\ pc' \in {"prepare", "stop", "image", "idle"}
        /\ pc' = "image" => pc = "stop" /\ UNCHANGED old
    BY <1>3 DEF BeginMigration, Prepare, StopSentient, Goto, Return
  <2>2. Newest(Used(record.type))
    BY <1>1, <2>1 DEF LatestInv
  <2>3. pc' = "image" => old' = record
    BY <2>1 DEF SetupInv
  <2>4. Newest(Used(record.type))' /\ (pc' = "image" => Newest(Used(old.type))')
    BY <1>1, <2>2, <2>3 DEF Newest, Known, Used
  <2>5. QED
    BY <1>1, <1>2, <2>1, <2>4 DEF LatestInv, Unfinished, Recording, Switching, MayUndo
<1>4. CASE PrepareImage \/ SetAside \/ CreateTable \/ ImageBack \/ Deploy \/ UndoStop \/ UndoStores
  <2>1. /\ pc \in Switching /\ pc' \in Switching
        /\ pc' = "latest" => old.type = "clickhouse"
        /\ pc' \in {"deploy", "answer"} =>
             (pc \in {"aside", "create"} /\ old.type # "clickhouse") \/ pc = "deploy"
    BY <1>4 DEF PrepareImage, SetAside, CreateTable, ImageBack, Deploy, UndoStop, UndoStores,
       Switching, MayUndo, Fail, Goto, AfterCreate
  <2>2. UNCHANGED <<old, new>>
    BY <1>4 DEF PrepareImage, SetAside, CreateTable, ImageBack, Deploy, UndoStop, UndoStores, locals
  <2>3. Newest(Used(old.type))
    BY <2>1 DEF LatestInv
  <2>4. Newest(Used(old.type))'
    BY <2>2, <2>3 DEF Newest, Known, Used
  <2>5. pc' \in {"deploy", "answer"} /\ new.type # "clickhouse" => Newest(Ts)
    BY <2>1, <2>3 DEF LatestInv, Used
  <2>6. pc' \in {"deploy", "answer"} /\ new'.type # "clickhouse" => Newest(Ts)'
    BY <2>2, <2>5, NewestSame
  <2>7. pc' \notin {"idle", "prepare", "stop"} \union Recording
    BY <2>1 DEF Switching, MayUndo, Recording
  <2>8. QED
    BY <1>1, <1>2, <2>1, <2>2, <2>4, <2>6, <2>7 DEF LatestInv, Unfinished
<1>5. CASE Answer
  <2>1. pc = "answer" /\ pc' \in {"record", "u_stop"} /\ UNCHANGED <<old, new>>
    BY <1>5 DEF Answer, Goto, locals
  <2>2. Newest(Used(old.type)) /\ Between /\ (new.type # "clickhouse" => Newest(Ts))
    BY <2>1, NewestBetween DEF LatestInv, Switching, MayUndo
  <2>3. Newest(Used(old.type))' /\ Between' /\ (new'.type # "clickhouse" => Newest(Ts)')
    BY <2>1, <2>2, NewestSame DEF Newest, Known, Used
  <2>4. QED
    BY <1>1, <1>2, <2>1, <2>3 DEF LatestInv, Unfinished, Recording, Switching, MayUndo
<1>6. CASE RestartAsWas \/ UndoDeploy
  <2>1. pc \in {"restart", "u_deploy"} /\ pc' = "idle"
    BY <1>6 DEF RestartAsWas, UndoDeploy, Return
  <2>2. old = record /\ Newest(Used(old.type))
    BY <2>1 DEF SetupInv, LatestInv, Switching
  <2>3. Newest(Used(record.type))'
    BY <1>1, <2>2 DEF Newest, Known, Used
  <2>4. QED
    BY <1>1, <1>2, <2>1, <2>3 DEF LatestInv, Unfinished, Recording, Switching, MayUndo
<1>7. QED
  BY <1>3, <1>4, <1>5, <1>6

(* The record, the state file and the copy. *)
LEMMA LatestCopying ==
  ASSUME Recoverable, TypeInv, SourceInv, SetupInv, LatestInv, UNCHANGED <<latest, acked>>,
         WriteRecord \/ SaveState \/ Resume \/ CopyWindow \/ CopyLatest \/ Finish
  PROVE  LatestInv'
<1>1. (\A s \in {Ts, Ch}, k \in Keys : latest[s][k] # 0 => <<k, latest[s][k]>> \in Known)'
  BY NewestSame DEF LatestInv
<1>2. Between' <=> Between
  BY NewestSame
<1>3. ASSUME NEW s
      PROVE  Newest(s)' <=> Newest(s)
  BY NewestSame
<1>4. CASE WriteRecord
  <2>1. /\ pc = "record" /\ pc' = "save" /\ ~Unfinished /\ UNCHANGED <<state, new>>
    BY <1>4 DEF WriteRecord, Fails, Recoverable, Goto, SourceInv, locals
  <2>2. IF new.type = "clickhouse" THEN Between ELSE Newest(Ts)
    BY <2>1 DEF LatestInv, Recording
  <2>3. IF new'.type = "clickhouse" THEN Between' ELSE Newest(Ts)'
    BY <1>2, <1>3, <2>1, <2>2
  <2>4. QED
    BY <1>1, <2>1, <2>3 DEF LatestInv, Unfinished, Switching, MayUndo
<1>5. ASSUME NEW s \in State, CopyFrom(s), state' = s,
             IF s.to = "clickhouse" THEN Between ELSE Newest(Ts)
      PROVE  LatestInv'
  <2>1. pc' = IF Legs(s) = <<>> THEN "finish" ELSE "copy"
    BY <1>5 DEF CopyFrom, Goto
  <2>2. s.to = "clickhouse" => pc' = "copy"
    BY <2>1, LegsAre
  <2>3. IF s.to = "clickhouse" THEN Between' ELSE Newest(Ts)'
    BY <1>2, <1>3, <1>5
  <2>4. QED
    BY <1>1, <1>5, <2>1, <2>2, <2>3 DEF LatestInv, Switching, Recording, MayUndo
<1>6. CASE SaveState
  BY <1>5, <1>6, SaveSteps, SavedIs DEF SaveState, LatestInv, Recording
<1>7. CASE Resume
  BY <1>5, <1>7 DEF Resume, files, Unfinished, TypeInv, TypeOK, LatestInv
<1>8. CASE CopyWindow
  <2>1. /\ Unfinished /\ pc = "copy" /\ state' = state /\ Unfinished'
        /\ pc' \in {"idle", "copy", "copy_latest", "finish"}
        /\ state.to = "clickhouse" => pc' # "finish"
    BY <1>8 DEF CopyWindow, NextWindow, Goto, Return, SetupInv, Copying, Unfinished, files
  <2>2. IF state.to = "clickhouse" THEN Between ELSE Newest(Ts)
    BY <2>1 DEF LatestInv
  <2>3. IF state'.to = "clickhouse" THEN Between' ELSE Newest(Ts)'
    BY <1>2, <1>3, <2>1, <2>2
  <2>4. QED
    BY <1>1, <2>1, <2>3 DEF LatestInv, Switching, Recording, MayUndo
<1>9. CASE CopyLatest \/ Finish
  <2>1. /\ pc \in {"copy_latest", "finish"} /\ Unfinished /\ conf.type = state.to /\ conf = record
        /\ UNCHANGED record
    BY <1>9 DEF CopyLatest, Finish, SetupInv, Copying, SourceInv, files
  <2> PICK used \in {Ts, Ch} : used = Used(state.to)
    BY UsedNames
  <2>2. Between /\ (state.to # "clickhouse" => Newest(Ts)) /\ (pc = "finish" => Newest(used))
    BY <2>1 DEF LatestInv, Used, Newest, Between
  <2>3. Between' /\ (state.to # "clickhouse" => Newest(Ts)') /\ (pc = "finish" => Newest(used)')
    BY <1>2, <1>3, <2>2
  <2>4. CASE pc' = "finish" /\ pc = "copy_latest"
    <3>1. latest' = Brought(Ts, Ch) /\ latest' = latest /\ state' = state
      BY <1>9, <2>4 DEF CopyLatest, Return, Finish, files
    <3>2. ASSUME NEW r \in Known
          PROVE  r[2] <= latest[Ch][r[1]]
      <4>1. r[1] \in Keys /\ r[2] \in Nat
        BY DEF Known, Row, Time
      <4>2. /\ latest[Ch] = [k \in Keys |-> Newer(latest[Ch][k], latest[Ts][k])]
            /\ latest[Ch][r[1]] \in Nat /\ latest[Ts][r[1]] \in Nat
        <5>1. latest \in [{Ts, Ch} -> [Keys -> Nat]]
          BY DEF TypeInv, TypeOK
        <5>2. latest[Ch] = [k \in Keys |-> Newer(latest[Ch][k], latest[Ts][k])]
          BY <3>1, <5>1 DEF Brought
        <5>3. QED
          BY <4>1, <5>1, <5>2
      <4>3. latest[Ch][r[1]] = Newer(latest[Ch][r[1]], latest[Ts][r[1]])
        BY <4>1, <4>2
      <4>4. QED
        BY <2>2, <4>1, <4>2, <4>3 DEF Between, Newer
    <3>3. Newest(Ch)
      BY <3>2 DEF Newest
    <3>4. QED
      BY <1>1, <1>3, <2>3, <2>4, <3>1, <3>3 DEF LatestInv, Unfinished, Switching, Recording, MayUndo
  <2>5. CASE pc' = "idle" /\ state' = state
    BY <1>1, <2>1, <2>3, <2>5 DEF LatestInv, Unfinished, Switching, Recording, MayUndo
  <2>6. CASE pc = "finish" /\ pc' = "idle" /\ state' = [state EXCEPT !.done = TRUE]
    BY <1>1, <2>1, <2>3, <2>6 DEF TypeInv, Unfinished, State, Newest, Used, Known, LatestInv,
       Switching, Recording, MayUndo
  <2>7. QED
    BY <1>9, <2>4, <2>5, <2>6 DEF CopyLatest, Finish, Goto, Return, files
<1>10. QED
  BY <1>4, <1>6, <1>7, <1>8, <1>9

(* The newer of two latest values. *)
LEMMA BroughtNewer ==
  ASSUME TypeInv, NEW from \in {Ts, Ch}, NEW to \in {Ts, Ch}, from # to, latest' = Brought(from, to),
         acked' = acked,
         \A s \in {Ts, Ch}, k \in Keys : latest[s][k] # 0 => <<k, latest[s][k]>> \in Known
  PROVE  /\ \A s \in {Ts, Ch}, k \in Keys : latest'[s][k] # 0 => <<k, latest'[s][k]>> \in Known'
         /\ latest'[from] = latest[from]
         /\ \A r \in Known : r[2] <= latest[from][r[1]] \/ r[2] <= latest[to][r[1]] => r[2] <= latest'[to][r[1]]
<1>1. /\ \A k \in Keys : latest[from][k] \in Nat /\ latest[to][k] \in Nat
      /\ \A k \in Keys : latest'[to][k] = Newer(latest[to][k], latest[from][k])
      /\ latest'[from] = latest[from]
  BY DEF Brought, TypeInv, TypeOK
<1>2. Known' = Known
  BY DEF Known
<1>3. \A k \in Keys : latest'[to][k] \in {latest[to][k], latest[from][k]}
  BY <1>1 DEF Newer
<1>4. \A r \in Known : r[1] \in Keys /\ r[2] \in Nat
  BY DEF Known, Row, Time
<1>5. ASSUME NEW r \in Known, r[2] <= latest[from][r[1]] \/ r[2] <= latest[to][r[1]]
      PROVE  r[2] <= latest'[to][r[1]]
  <2>1. r[1] \in Keys /\ r[2] \in Nat /\ latest[from][r[1]] \in Nat /\ latest[to][r[1]] \in Nat
    BY <1>1, <1>4
  <2>2. latest'[to][r[1]] = Newer(latest[to][r[1]], latest[from][r[1]])
    BY <1>1, <2>1
  <2>3. QED
    BY <1>5, <2>1, <2>2 DEF Newer
<1>6. ASSUME NEW s \in {Ts, Ch}, NEW k \in Keys, latest'[s][k] # 0
      PROVE  <<k, latest'[s][k]>> \in Known'
  BY <1>1, <1>2, <1>3, <1>6
<1>7. QED
  BY <1>1, <1>5, <1>6

LEMMA LatestBrings ==
  ASSUME Recoverable, TypeInv, SourceInv, SetupInv, LatestInv, BringLatest \/ CopyLatest
  PROVE  LatestInv'
<1>0. acked' = acked /\ Ts # Ch
  BY Names DEF BringLatest, CopyLatest, ghosts
<1>1. CASE BringLatest
  <2>1. /\ pc = "latest" /\ pc' = "deploy" /\ latest' = Brought(Ch, Ts) /\ ~Unfinished
        /\ UNCHANGED <<state, old, new>>
    BY <1>1 DEF BringLatest, Fail, Fails, Recoverable, Goto, SourceInv, files, locals
  <2>2. old.type = "clickhouse" /\ Newest(Ch)
    BY <2>1 DEF LatestInv, Switching, MayUndo, Used
  <2>3. /\ \A s \in {Ts, Ch}, k \in Keys : latest'[s][k] # 0 => <<k, latest'[s][k]>> \in Known'
        /\ latest'[Ch] = latest[Ch] /\ \A r \in Known : r[2] <= latest'[Ts][r[1]]
    BY <1>0, <2>1, <2>2, BroughtNewer DEF LatestInv, Newest
  <2>4. Known' = Known
    BY <1>0 DEF Known
  <2>5. Newest(Ch)' /\ Newest(Ts)'
    BY <2>2, <2>3, <2>4 DEF Newest
  <2>6. QED
    BY <2>1, <2>2, <2>3, <2>5 DEF LatestInv, Unfinished, Recording, Used
<1>2. CASE CopyLatest /\ ~UNCHANGED latest
  <2>1. /\ pc = "copy_latest" /\ pc' = "finish" /\ latest' = Brought(Ts, Ch) /\ Unfinished
        /\ UNCHANGED state
    BY <1>2 DEF CopyLatest, Goto, SetupInv, Copying, files
  <2>2. IF state.to # "clickhouse" THEN Newest(Ts) ELSE Between
    BY <2>1 DEF LatestInv
  <2>3. /\ \A s \in {Ts, Ch}, k \in Keys : latest'[s][k] # 0 => <<k, latest'[s][k]>> \in Known'
        /\ latest'[Ts] = latest[Ts]
        /\ \A r \in Known : r[2] <= latest[Ts][r[1]] \/ r[2] <= latest[Ch][r[1]] => r[2] <= latest'[Ch][r[1]]
    BY <1>0, <2>1, BroughtNewer DEF LatestInv
  <2>4. Known' = Known
    BY <1>0 DEF Known
  <2>5. IF state.to # "clickhouse" THEN Newest(Ts)' ELSE Newest(Ch)'
    BY <2>2, <2>3, <2>4 DEF Newest, Between
  <2>6. QED
    BY <2>1, <2>3, <2>5 DEF LatestInv, Switching, Recording, MayUndo
<1>3. CASE CopyLatest /\ UNCHANGED latest
  BY <1>0, <1>3, LatestCopying
<1>4. QED
  BY <1>1, <1>2, <1>3

(* SENTIENT writes the latest value where it is looked for. *)
LEMMA LatestWrite ==
  ASSUME TypeInv, SourceInv, SetupInv, SwitchInv, LatestInv, NEW k \in Keys, NEW t \in Time, Write(k, t)
  PROVE  LatestInv'
<1> DEFINE used == Used(conf.type)
<1>1. /\ pc \notin Switching
      /\ pc \in Recording => conf = new
      /\ Unfinished => conf.type = state.to
      /\ pc \in {"idle", "prepare", "stop"} => conf = record
      /\ Known' = Known \union {<<k, t>>}
      /\ UNCHANGED <<pc, state, record, new, old>>
  BY WrittenWhere DEF Write, files, locals
<1>2. used \in {Ts, Ch}
  BY UsedNames
<1>3. /\ \A s \in {Ts, Ch}, l \in Keys : latest[s][l] \in Nat
      /\ \A s \in {Ts, Ch}, l \in Keys :
           latest'[s][l] = IF s = used /\ l = k THEN Newer(latest[s][l], t) ELSE latest[s][l]
  BY <1>2 DEF Write, TypeInv, TypeOK
<1>4. \A s \in {Ts, Ch}, l \in Keys : latest[s][l] <= latest'[s][l] /\ latest'[s][l] \in Nat
  BY <1>3 DEF Newer, Time
<1>5. t <= latest'[used][k]
  <2>1. latest'[used][k] = Newer(latest[used][k], t) /\ latest[used][k] \in Nat /\ t \in Nat
    BY <1>2, <1>3 DEF Time
  <2>2. QED
    BY <2>1 DEF Newer
<1>6. \A r \in Known' : r \in Row /\ r[1] \in Keys /\ r[2] \in Nat /\ (r \in Known \/ r = <<k, t>>)
  BY <1>1 DEF Known, Row, Time
<1> HIDE DEF used
<1>7. ASSUME \A r \in Known : r[2] <= latest[used][r[1]]
      PROVE  \A r \in Known' : r[2] <= latest'[used][r[1]]
  <2> SUFFICES ASSUME NEW r \in Known'
               PROVE  r[2] <= latest'[used][r[1]]
    OBVIOUS
  <2>1. CASE r \in Known
    <3>1. r[2] <= latest[used][r[1]] /\ latest[used][r[1]] <= latest'[used][r[1]]
      BY <1>2, <1>4, <1>6, <1>7, <2>1
    <3>2. r[2] \in Nat /\ latest[used][r[1]] \in Nat /\ latest'[used][r[1]] \in Nat
      BY <1>2, <1>3, <1>4, <1>6
    <3>3. QED
      BY <3>1, <3>2
  <2>2. CASE r = <<k, t>>
    BY <1>5, <2>2
  <2>3. QED
    BY <1>6, <2>1, <2>2
<1>8. Between => Between'
  <2> SUFFICES ASSUME Between, NEW r \in Known'
               PROVE  r[2] <= latest'[Ts][r[1]] \/ r[2] <= latest'[Ch][r[1]]
    BY DEF Between
  <2>1. CASE r \in Known
    <3>1. PICK s \in {Ts, Ch} : r[2] <= latest[s][r[1]]
      BY <2>1 DEF Between
    <3>2. latest[s][r[1]] <= latest'[s][r[1]]
      BY <1>4, <1>6
    <3>3. r[2] \in Nat /\ latest[s][r[1]] \in Nat /\ latest'[s][r[1]] \in Nat
      BY <1>3, <1>4, <1>6
    <3>4. r[2] <= latest'[s][r[1]]
      BY <3>1, <3>2, <3>3
    <3>5. QED
      BY <3>4
  <2>2. CASE r = <<k, t>>
    BY <1>2, <1>5, <2>2
  <2>3. QED
    BY <1>6, <2>1, <2>2
<1>9. (\A s \in {Ts, Ch}, l \in Keys : latest[s][l] # 0 => <<l, latest[s][l]>> \in Known)'
  BY <1>1, <1>3 DEF LatestInv, Newer
<1>10. pc \in {"idle", "prepare", "stop"} /\ ~Unfinished => Newest(Used(record.type))'
  BY <1>1, <1>7 DEF used, LatestInv, Newest, Used
<1>11. pc \in Recording => IF new.type = "clickhouse" THEN Between' ELSE Newest(Ts)'
  BY <1>1, <1>7, <1>8 DEF used, Used, Newest, LatestInv
<1>12. Unfinished => IF state.to # "clickhouse" THEN Newest(Ts)'
                     ELSE IF pc = "finish" THEN Newest(Ch)' ELSE Between'
  BY <1>1, <1>7, <1>8 DEF used, Used, Newest, LatestInv
<1>13. Unfinished' = Unfinished
  BY <1>1 DEF Unfinished
<1>14. pc \notin {"latest", "deploy", "answer"}
  BY <1>1 DEF Switching, MayUndo
<1>15. QED
  BY <1>1, <1>9, <1>10, <1>11, <1>12, <1>13, <1>14 DEF LatestInv

LEMMA LatestElsewhere ==
  ASSUME Recoverable, TypeInv, SourceInv, KeptInv, SetupInv, ReachInv, LatestInv,
         Tick \/ StartByOperator \/ Kill \/ \E s \in Store : RemoveKept(s)
  PROVE  LatestInv'
<1>1. CASE Tick \/ StartByOperator \/ Kill
  <2>1. UNCHANGED <<latest, acked, state, record, old, new>>
    BY <1>1 DEF Tick, StartByOperator, Kill, data, files, locals, ghosts
  <2>2. \/ pc' = pc
        \/ pc' = "idle" /\ pc \in {"idle", "prepare", "stop"} \union Copying
    BY <1>1 DEF Tick, StartByOperator, Kill, Return, Recoverable, TypeInv, TypeOK, Steps, Switching,
       Recording, Copying, MayUndo
  <2>3. (\A s \in {Ts, Ch}, k \in Keys : latest[s][k] # 0 => <<k, latest[s][k]>> \in Known)'
    BY <2>1, NewestSame DEF LatestInv
  <2>4. Unfinished' = Unfinished
    BY <2>1 DEF Unfinished
  <2>5. Unfinished => IF state.to # "clickhouse" THEN Newest(Ts) ELSE Between
    BY DEF LatestInv, Newest, Between
  <2>6. /\ Between' <=> Between
        /\ Newest(Ts)' <=> Newest(Ts)
        /\ Newest(Ch)' <=> Newest(Ch)
        /\ Newest(Used(record.type))' <=> Newest(Used(record.type))
        /\ Newest(Used(old.type))' <=> Newest(Used(old.type))
    BY <2>1, NewestSame DEF Newest, Used, Known
  <2>7. CASE pc' = pc
    BY <2>1, <2>3, <2>4, <2>6, <2>7 DEF LatestInv
  <2>8. CASE pc' = "idle" /\ pc \in {"idle", "prepare", "stop"} \union Copying
    BY <2>1, <2>3, <2>4, <2>5, <2>6, <2>8 DEF LatestInv, SetupInv, Copying, Switching, Recording,
       MayUndo
  <2>9. QED
    BY <2>2, <2>7, <2>8
<1>2. ASSUME NEW s \in Store, RemoveKept(s)
      PROVE  LatestInv'
  <2>1. /\ UNCHANGED <<pc, state, record>> /\ Used(record.type)' = Used(record.type)
        /\ pc \notin Recording \union Switching \union {"latest", "deploy", "answer"}
        /\ (Unfinished => record.type = state.to) /\ (pc \in Copying => Unfinished)
    BY <1>2, RemovalLeaves DEF Used, Recording, Switching, MayUndo, Copying, SetupInv
  <2>2. Known' = Known /\ Unfinished' = Unfinished
    BY <1>2, <2>1, ReachRemoved DEF Known, Unfinished
  <2>3. /\ latest' = [n \in {Ts, Ch} |-> IF n = s THEN [k \in Keys |-> 0] ELSE latest[n]]
        /\ latest'[Ts] = latest[Ts] /\ latest'[Used(record.type)] = latest[Used(record.type)]
    BY <1>2, RemovalLeaves, UsedNames DEF RemoveKept
  <2>4. (\A n \in {Ts, Ch}, k \in Keys : latest[n][k] # 0 => <<k, latest[n][k]>> \in Known)'
    BY <2>2, <2>3 DEF LatestInv
  <2>5. /\ Newest(Ts)' <=> Newest(Ts)
        /\ Newest(Used(record.type))' <=> Newest(Used(record.type))
        /\ record.type = "clickhouse" => (Newest(Ch)' <=> Newest(Ch)) /\ (Between' <=> Between)
    BY <2>1, <2>2, <2>3 DEF Newest, Between, Used
  <2>6. QED
    BY <2>1, <2>2, <2>4, <2>5 DEF LatestInv
<1>3. QED
  BY <1>1, <1>2

LEMMA LatestStep ==
  ASSUME Recoverable, TypeInv, SourceInv, KeptInv, SetupInv, SwitchInv, ReachInv, LatestInv,
         [Next]_vars
  PROVE  LatestInv'
<1>1. CASE UNCHANGED vars
  BY <1>1 DEF vars, data, files, locals, ghosts, LatestInv, Newest, Between, Known, Unfinished, Used
<1>2. CASE BringLatest \/ CopyLatest
  BY <1>2, LatestBrings
<1>3. CASE JobStep /\ ~(BringLatest \/ CopyLatest)
  <2>1. UNCHANGED <<latest, acked>>
    BY <1>3 DEF JobStep, Prepare, StopSentient, PrepareImage, SetAside, CreateTable, ImageBack,
       RestartAsWas, Deploy, Answer, UndoStop, UndoStores, UndoDeploy, WriteRecord, SaveState,
       CopyWindow, Finish, data, ghosts
  <2>2. QED
    BY <1>3, <2>1, LatestUnderway, LatestCopying DEF JobStep
<1>4. CASE Resume \/ \E target \in Offered : BeginMigration(target)
  BY <1>4, LatestUnderway, LatestCopying DEF Resume, BeginMigration, data, ghosts
<1>5. CASE (\E k \in Keys, t \in Time : Write(k, t)) \/ Tick \/ StartByOperator \/ Kill
           \/ \E s \in Store : RemoveKept(s)
  BY <1>5, LatestWrite, LatestElsewhere
<1>6. QED
  BY <1>1, <1>2, <1>3, <1>4, <1>5 DEF Next

(* With no copy to continue, the latest value SENTIENT shows of a key is   *)
(* one that was stored, and the newest of them, also when values come late,*)
(* are copied meanwhile and the store is changed back and forth            *)
(* (telemetry_move::latest_ch_to_pg, latest_pg_to_ch).                     *)
THEOREM LatestIsNewest ==
  ASSUME Recoverable
  PROVE  Spec /\ []FingerprintsTell => []LatestNewest
<1> DEFINE I == /\ TypeInv /\ SourceInv /\ KeptInv /\ SetupInv /\ Past /\ SwitchInv /\ UseInv
                /\ ReachInv /\ LatestInv
<1>1. Init => I
  BY InitType, SourceInit, KeptInit, SetupInit, PastInit, SwitchInit, UseInit, ReachInit, LatestInit
<1>2. I /\ FingerprintsTell /\ [Next]_vars => I'
  BY RecoverableStarts, StepType, SourceStep, KeptStep, SetupStep, PastStep, SwitchStep, UseStep, ReachStep, LatestStep
  DEF Recoverable
<1>3. I => LatestNewest
  <2> SUFFICES ASSUME I, pc = "idle", ~Unfinished, NEW k \in Keys
               PROVE  LET shown == latest[Used(conf.type)][k]
                      IN /\ shown # 0 => acked[<<k, shown>>] # 0
                         /\ \A t \in Time : acked[<<k, t>>] # 0 => t <= shown
    BY DEF LatestNewest
  <2>1. conf = record /\ Newest(Used(conf.type)) /\ Used(conf.type) \in {Ts, Ch}
    BY UsedNames DEF SetupInv, LatestInv
  <2>2. latest[Used(conf.type)][k] # 0 => <<k, latest[Used(conf.type)][k]>> \in Known
    BY <2>1 DEF LatestInv
  <2>3. ASSUME NEW t \in Time, acked[<<k, t>>] # 0
        PROVE  t <= latest[Used(conf.type)][k]
    BY <2>1, <2>3 DEF Known, Row, Newest
  <2>4. QED
    BY <2>2, <2>3 DEF Known
<1>4. Spec /\ []FingerprintsTell => []I
  BY <1>1, <1>2, PTL DEF Spec
<1>5. QED
  BY <1>3, <1>4, PTL

-----------------------------------------------------------------------------
(* Without values that come late the fingerprints tell: the copy's first   *)
(* source has every value of before the switch, so that one of the two     *)
(* tables compared has every value of the month.                           *)

FirstHas(s) == Legs(s) # <<>> => \A r \in Known : r[2] < s.cutover => In(Legs(s)[1], r)

OnTimeInv ==
  /\ Everywhere \subseteq Known
  /\ pc \in {"prepare", "stop"} \union Switching \union Recording =>
       old.type # new.type /\ (new.type = "clickhouse" => aside = None)
  /\ pc \in Switching \union Recording => cutover <= now
  /\ pc \in Recording => FirstHas(Saved)
  /\ Unfinished =>
       /\ state.cutover <= now /\ FirstHas(state)
       /\ pc = "copy" => \A r \in Known : r[2] < state.cutover => In(Target, r) \/ Ahead(1, r)

LEMMA KnownRows ==
  ASSUME TypeInv
  PROVE  /\ Known \subseteq Row
         /\ \A r \in Row : r[2] \in Nat /\ MonthOf[r[2]] \in Nat \ {0}
         /\ now \in Nat /\ cutover \in Nat /\ (state # None => state \in State /\ state.cutover \in Nat)
BY DEF Known, Row, Time, Months, TypeInv, TypeOK, State

LEMMA OnTimeInit == Init => OnTimeInv
<1> SUFFICES ASSUME Init PROVE OnTimeInv
  OBVIOUS
<1>1. PICK type \in InitialTypes, H \in Histories :
        /\ stores = [s \in Store |->
             IF s = Used(type) THEN [FirstTable(type, s) EXCEPT !.rows = RowsOf(H)]
             ELSE FirstTable(type, s)]
        /\ acked = RowsOf(H)
  BY DEF Init
<1>2. RowsOf(H) \in Rows /\ Known = Stored(RowsOf(H))
  BY <1>1 DEF RowsOf, Rows, Stored, Known
<1>3. ASSUME NEW s \in Store, stores[s] # None
      PROVE  Stored(stores[s].rows) \subseteq Known
  <2>1. FirstLayout[type] \in Layout /\ "clickhouse" \in Layout
    BY DEF FirstLayout, Layout, Types
  <2>2. FirstTable(type, s) \in {None, Fresh(FirstLayout[type]), Fresh("clickhouse")}
    BY DEF FirstTable
  <2>3. s = Used(type) => FirstTable(type, s) # None
    BY <2>1, FreshTable DEF FirstTable
  <2>4. ASSUME NEW layout \in Layout, NEW rows \in Rows
        PROVE  /\ [Fresh(layout) EXCEPT !.rows = rows].rows = rows
               /\ Fresh(layout) # None /\ Stored(Fresh(layout).rows) = {}
    BY FreshTable DEF Fresh
  <2>5. CASE s = Used(type)
    <3>1. stores[s] = [FirstTable(type, s) EXCEPT !.rows = RowsOf(H)]
      BY <1>1, <2>5
    <3>2. FirstTable(type, s) \in {Fresh(FirstLayout[type]), Fresh("clickhouse")}
      BY <2>2, <2>3, <2>5
    <3>3. stores[s].rows = RowsOf(H)
      BY <1>2, <2>1, <2>4, <3>1, <3>2
    <3>4. QED
      BY <1>2, <3>3
  <2>6. CASE s # Used(type)
    BY <1>1, <1>2, <1>3, <2>1, <2>2, <2>4, <2>6
  <2>7. QED
    BY <2>5, <2>6
<1>4. Everywhere \subseteq Known
  BY <1>3 DEF Everywhere
<1>5. pc = "idle" /\ ~Unfinished
  BY DEF Init, Unfinished
<1>6. QED
  BY <1>4, <1>5 DEF OnTimeInv, Switching, Recording, MayUndo

(* What is in a table was stored by SENTIENT. *)
LEMMA KnownStays ==
  ASSUME TypeInv, Everywhere \subseteq Known, [Next]_vars
  PROVE  Everywhere' \subseteq Known'
<1>1. ASSUME NoneNew(stores, stores'), UNCHANGED acked
      PROVE  Everywhere' \subseteq Known'
  BY <1>1 DEF NoneNew, Everywhere, Known
<1>2. CASE UNCHANGED <<stores, acked>>
  BY <1>1, <1>2, NoneNewSame
<1>3. CASE SetAside \/ CreateTable \/ Deploy \/ UndoStores \/ UndoDeploy \/ CopyWindow
  BY <1>1, <1>3, JobAdds DEF SetAside, CreateTable, Deploy, UndoStores, UndoDeploy, CopyWindow,
     ghosts
<1>4. CASE HalfDone(pc) /\ UNCHANGED acked
  BY <1>1, <1>4, HalfDoneAdds
<1>5. ASSUME NEW k \in Keys, NEW t \in Time, Write(k, t)
      PROVE  Everywhere' \subseteq Known'
  BY <1>5, WrittenMore, WrittenKnown DEF Everywhere
<1>6. ASSUME NEW s \in Store, RemoveKept(s)
      PROVE  Everywhere' \subseteq Known'
  BY <1>6 DEF RemoveKept, TypeInv, TypeOK, Everywhere, Stored, Known
<1>7. QED
  <2>1. CASE UNCHANGED vars
    BY <1>2, <2>1 DEF vars, data, ghosts
  <2>2. CASE Prepare \/ StopSentient \/ PrepareImage \/ BringLatest \/ ImageBack \/ RestartAsWas
             \/ Answer \/ UndoStop \/ WriteRecord \/ SaveState \/ CopyLatest \/ Finish \/ Kill
    BY <1>2, <1>4, <2>2 DEF Prepare, StopSentient, PrepareImage, BringLatest, ImageBack,
       RestartAsWas, Answer, UndoStop, WriteRecord, SaveState, CopyLatest, Finish, Kill, Fail, data,
       ghosts
  <2>3. CASE Resume \/ Tick \/ StartByOperator \/ \E target \in Offered : BeginMigration(target)
    BY <1>2, <2>3 DEF Resume, Tick, StartByOperator, BeginMigration, data, ghosts
  <2>4. QED
    BY <1>3, <1>5, <1>6, <2>1, <2>2, <2>3 DEF Next, JobStep

(* Where the first source of a copy is. *)
LEMMA FirstLeg ==
  ASSUME NEW s \in State
  PROVE  /\ Legs(s) # <<>> =>
              /\ Legs(s)[1] \in Store
              /\ Legs(s)[1] = IF s.to = "clickhouse" THEN Ts
                              ELSE IF s.from = "clickhouse" THEN Ch ELSE s.aside
              /\ s.to # "clickhouse" /\ s.from # "clickhouse" => s.aside # None
<1>1. CASE s.to = "clickhouse" \/ s.from = "clickhouse"
  BY <1>1, LegsAre, Names
<1>2. CASE s.to # "clickhouse" /\ s.from # "clickhouse"
  <2>1. CASE s.aside = None
    BY <1>2, <2>1 DEF Legs
  <2>2. CASE s.aside # None
    BY <1>2, <2>2, Names DEF State, Legs
  <2>3. QED
    BY <2>1, <2>2
<1>3. QED
  BY <1>1, <1>2

(* Equally many rows, and one table's among the other's: the same rows. *)
LEMMA OnTimeTells ==
  ASSUME TypeInv, SetupInv, OnTimeInv
  PROVE  FingerprintsTell
<1> SUFFICES ASSUME pc = "copy", ~Missing,
                    Fingerprint(InWindow(Source)) = Fingerprint(InWindow(Target))
             PROVE  InWindow(Source) \subseteq InWindow(Target)
  BY DEF FingerprintsTell
<1>0. /\ Unfinished /\ state \in State
      /\ leg \in 1..Len(Legs(state)) /\ Len(Legs(state)) \in Nat /\ month \in Nat
      /\ Source \in Store /\ Target \in Store /\ stores[Source] # None /\ stores[Target] # None
  BY LegsStores, UsedNames, Names DEF SetupInv, Copying, TypeInv, TypeOK, Months, Missing,
     LayoutOf, Source, Target
<1>1. ASSUME NEW s \in {Source, Target}, NEW r \in InWindow(s)
      PROVE  r \in Known /\ r \in Row /\ MonthOf[r[2]] = month /\ r[2] < state.cutover
  BY <1>0, <1>1 DEF InWindow, Everywhere, OnTimeInv, Window
<1>2. CASE leg = 1
  <2>1. InWindow(Target) \subseteq InWindow(Source)
    BY <1>0, <1>1, <1>2 DEF OnTimeInv, FirstHas, Source, In, InWindow, Window
  <2>2. Cardinality(InWindow(Source)) = Cardinality(InWindow(Target))
    BY DEF Fingerprint
  <2>3. IsFiniteSet(InWindow(Source))
    BY RowsFinite, FS_Subset DEF InWindow, Window
  <2>4. InWindow(Source) = InWindow(Target)
    BY <2>1, <2>2, <2>3, FS_Subset
  <2>5. QED
    BY <2>4
<1>3. CASE leg # 1
  BY <1>0, <1>1, <1>3 DEF Ahead, OnTimeInv, In, InWindow, Window
<1>4. QED
  BY <1>2, <1>3

(* Before the copy. *)
LEMMA OnTimeUnderway ==
  ASSUME TypeInv, SourceInv, OnTimeInv, Everywhere' \subseteq Known',
         \/ \E target \in Offered : BeginMigration(target)
         \/ Prepare \/ StopSentient \/ PrepareImage \/ SetAside \/ CreateTable \/ BringLatest
         \/ ImageBack \/ RestartAsWas \/ Deploy \/ UndoStop \/ UndoStores \/ UndoDeploy
  PROVE  OnTimeInv'
<1>1. ~Unfinished /\ UNCHANGED state
  BY DEF SourceInv, BeginMigration, Prepare, StopSentient, PrepareImage, SetAside, CreateTable,
     BringLatest, ImageBack, RestartAsWas, Deploy, UndoStop, UndoStores, UndoDeploy, files
<1>2. pc' \notin Recording
  BY DEF BeginMigration, Prepare, StopSentient, PrepareImage, SetAside, CreateTable, BringLatest,
     ImageBack, RestartAsWas, Deploy, UndoStop, UndoStores, UndoDeploy, Fail, Goto, Return, AfterCreate,
     Recording
<1>3. pc' \in {"prepare", "stop"} \union Switching =>
        old'.type # new'.type /\ (new'.type = "clickhouse" => aside' = None)
  <2>1. ASSUME NEW target \in Offered, BeginMigration(target)
        PROVE  old'.type # new'.type /\ (new'.type = "clickhouse" => aside' = None)
    BY <2>1 DEF BeginMigration, WithType
  <2>2. CASE SetAside
    BY <2>2 DEF SetAside, NeedsNew, OnTimeInv, Switching
  <2>3. CASE Prepare \/ StopSentient \/ PrepareImage \/ CreateTable \/ BringLatest \/ ImageBack
             \/ RestartAsWas \/ Deploy \/ UndoStop \/ UndoStores \/ UndoDeploy
    <3>1. /\ UNCHANGED <<old, new, aside>>
          /\ pc \in {"prepare", "stop"} \union Switching
      BY <2>3 DEF Prepare, StopSentient, PrepareImage, CreateTable, BringLatest, ImageBack,
         RestartAsWas, Deploy, UndoStop, UndoStores, UndoDeploy, locals, Switching, MayUndo
    <3>2. QED
      BY <3>1 DEF OnTimeInv
  <2>4. QED
    BY <2>1, <2>2, <2>3
<1>4. pc' \in Switching => cutover' <= now'
  <2>1. CASE (\E target \in Offered : BeginMigration(target)) \/ Prepare
    BY <2>1 DEF BeginMigration, Prepare, Goto, Return, Switching, MayUndo
  <2>2. CASE StopSentient
    BY <2>2 DEF StopSentient, Return, Switching, MayUndo, TypeInv, TypeOK
  <2>3. CASE PrepareImage \/ SetAside \/ CreateTable \/ BringLatest \/ ImageBack
             \/ RestartAsWas \/ Deploy \/ UndoStop \/ UndoStores \/ UndoDeploy
    <3>1. UNCHANGED <<cutover, now>> /\ pc \in Switching
      BY <2>3 DEF PrepareImage, SetAside, CreateTable, BringLatest, ImageBack,
         RestartAsWas, Deploy, UndoStop, UndoStores, UndoDeploy, locals, Switching, MayUndo
    <3>2. QED
      BY <3>1 DEF OnTimeInv
  <2>4. QED
    BY <2>1, <2>2, <2>3
<1>5. QED
  BY <1>1, <1>2, <1>3, <1>4 DEF OnTimeInv, Unfinished

(* The first source has every value of before the switch. *)
LEMMA OnTimeAnswer ==
  ASSUME TypeInv, SourceInv, SwitchInv, ReachInv, OnTimeInv, Everywhere' \subseteq Known', Answer
  PROVE  OnTimeInv'
<1>1. /\ pc = "answer" /\ pc' \in {"record", "u_stop"} /\ ~Unfinished
      /\ UNCHANGED <<stores, state, old, new, cutover, aside, acked, pre, now>>
  BY DEF Answer, Goto, SourceInv, data, files, locals, ghosts
<1>2. \A r \in Known :
        r \in Row /\ IF old.type = "clickhouse" THEN In(Ch, r) ELSE r \in Stored(pre.ts.rows)
  BY <1>1 DEF ReachInv, Switching, MayUndo, Known
<1>3. IF aside # None THEN AsBefore(aside) ELSE (Counts => AsBefore(Ts))
  BY <1>1 DEF SwitchInv, MayUndo
<1>4. /\ old.type # new.type /\ (new.type = "clickhouse" => aside = None)
      /\ cutover <= now
  BY <1>1 DEF OnTimeInv, Switching, MayUndo
<1>5. FirstHas(Saved)
  <2> SUFFICES ASSUME Legs(Saved) # <<>>, NEW r \in Known
               PROVE  In(Legs(Saved)[1], r)
    BY DEF FirstHas
  <2>1. /\ Legs(Saved)[1] = IF new.type = "clickhouse" THEN Ts
                            ELSE IF old.type = "clickhouse" THEN Ch ELSE aside
        /\ new.type # "clickhouse" /\ old.type # "clickhouse" => aside # None
    BY SavedIs, FirstLeg
  <2>2. CASE new.type = "clickhouse"
    BY <1>2, <1>3, <1>4, <2>1, <2>2 DEF Counts, In, AsBefore
  <2>3. CASE new.type # "clickhouse" /\ old.type = "clickhouse"
    BY <1>2, <2>1, <2>3
  <2>4. CASE new.type # "clickhouse" /\ old.type # "clickhouse"
    BY <1>2, <1>3, <2>1, <2>4 DEF In, AsBefore
  <2>5. QED
    BY <2>2, <2>3, <2>4
<1>6. FirstHas(Saved)'
  BY <1>1, <1>5 DEF FirstHas, Saved, Legs, Known, In
<1>7. QED
  BY <1>1, <1>4, <1>6 DEF OnTimeInv, Unfinished

LEMMA OnTimeSaved ==
  ASSUME Recoverable, TypeInv, SourceInv, OnTimeInv, Everywhere' \subseteq Known',
         WriteRecord \/ SaveState \/ Resume
  PROVE  OnTimeInv'
<1>1. CASE WriteRecord
  <2>1. /\ pc = "record" /\ pc' = "save" /\ ~Unfinished
        /\ UNCHANGED <<stores, state, old, new, cutover, aside, acked, now>>
    BY <1>1 DEF WriteRecord, Fails, Recoverable, Goto, SourceInv, data, locals, ghosts
  <2>2. FirstHas(Saved)'
    BY <2>1 DEF OnTimeInv, Recording, FirstHas, Saved, Legs, Known, In
  <2>3. QED
    BY <2>1, <2>2 DEF OnTimeInv, Recording, Unfinished
<1>2. ASSUME NEW s \in State, CopyFrom(s), state' = s, s.cutover <= now, FirstHas(s),
             UNCHANGED <<stores, acked, now>>
      PROVE  OnTimeInv'
  <2>1. leg' = 1 /\ month' = 1 /\ pc' \in {"copy", "finish"}
    BY <1>2 DEF CopyFrom, Goto
  <2>2. FirstHas(state)'
    BY <1>2 DEF FirstHas, Legs, Known, In
  <2>3. ASSUME NEW r \in Known'
        PROVE  Ahead(1, r)'
    BY <1>2, <2>1, KnownRows DEF Known, Ahead
  <2>4. QED
    BY <1>2, <2>1, <2>2, <2>3 DEF OnTimeInv, Switching, Recording, MayUndo
<1>3. CASE SaveState
  BY <1>2, <1>3, SaveSteps, SavedIs DEF SaveState, data, ghosts, OnTimeInv, Recording
<1>4. CASE Resume
  BY <1>2, <1>4 DEF Resume, data, files, ghosts, Unfinished, TypeInv, TypeOK, OnTimeInv
<1>5. QED
  BY <1>1, <1>3, <1>4

(* The month copied is in the target, from the first source. *)
LEMMA OnTimeCopy ==
  ASSUME TypeInv, KeptInv, SetupInv, OnTimeInv, Everywhere' \subseteq Known', CopyWindow
  PROVE  OnTimeInv'
<1>0. /\ pc = "copy" /\ Unfinished /\ state \in State
      /\ UNCHANGED <<state, acked, now>>
      /\ Target \in Store /\ Target' = Target
  BY UsedNames, Names DEF CopyWindow, SetupInv, Copying, TypeInv, files, Target, Used, ghosts
<1>1. Keeps(stores, stores')
  BY CopySteps DEF Quiet
<1>2. Unfinished' /\ pc' \in {"idle", "copy", "copy_latest", "finish"} /\ Known' = Known
  BY <1>0 DEF CopyWindow, NextWindow, Goto, Return, Unfinished, Known
<1>3. FirstHas(state)
  BY <1>0 DEF OnTimeInv
<1>4. FirstHas(state)'
  BY <1>0, <1>1, <1>2, <1>3, FirstLeg, InStays DEF Known, Legs, FirstHas
<1>5. ASSUME pc' = "copy", NEW r \in Known, r[2] < state.cutover
      PROVE  In(Target, r)' \/ Ahead(1, r)'
  <2>0. r \in Row
    BY DEF Known
  <2>1. CASE In(Target, r)
    BY <1>0, <1>1, <2>0, <2>1, InStays
  <2>2. CASE Ahead(1, r)
    <3>1. /\ ~Stuck /\ NextWindow
          /\ IF Copied THEN UNCHANGED stores
             ELSE \E rows \in Inserted(InWindow(Source)) :
                    stores' = [stores EXCEPT ![Target].rows = rows]
      BY <1>5 DEF CopyWindow, Return
    <3>2. /\ leg \in 1..Len(Legs(state)) /\ Len(Legs(state)) \in Nat
          /\ month \in 1..NMonths /\ MonthOf[r[2]] \in 1..NMonths /\ NMonths \in Nat
      BY <1>0, <2>0, LegsStores DEF TypeInv, TypeOK, Months, Row
    <3>3. leg = 1 /\ month <= MonthOf[r[2]]
      BY <2>2, <3>2 DEF Ahead
    <3>4. Waiting(state, leg, r)
      BY <1>3, <1>5, <3>2, <3>3 DEF FirstHas, In, Waiting
    <3>5. CASE month = MonthOf[r[2]]
      BY <1>0, <2>0, <3>1, <3>4, <3>5, OnTimeTells, CopiedIn DEF In
    <3>6. CASE month # MonthOf[r[2]]
      BY <3>1, <3>2, <3>3, <3>6 DEF NextWindow, Ahead
    <3>7. QED
      BY <3>5, <3>6
  <2>3. QED
    BY <1>0, <1>5, <2>1, <2>2 DEF OnTimeInv
<1>6. (pc = "copy" => \A r \in Known : r[2] < state.cutover => In(Target, r) \/ Ahead(1, r))'
  BY <1>0, <1>2, <1>5
<1>7. state'.cutover <= now'
  BY <1>0 DEF OnTimeInv
<1>8. QED
  BY <1>2, <1>4, <1>6, <1>7 DEF OnTimeInv, Switching, Recording, MayUndo

LEMMA OnTimeCopied ==
  ASSUME TypeInv, SetupInv, OnTimeInv, Everywhere' \subseteq Known', CopyLatest \/ Finish
  PROVE  OnTimeInv'
<1>1. /\ UNCHANGED <<stores, acked, now>> /\ pc' \in {"idle", "finish"} /\ pc \in Copying
  BY DEF CopyLatest, Finish, Goto, Return, data, ghosts, Copying
<1>2. Unfinished /\ (state' = state \/ ~Unfinished')
  BY <1>1 DEF SetupInv, Unfinished, TypeInv, TypeOK, State, CopyLatest, Finish, files
<1>3. state' = state => FirstHas(state)' /\ state'.cutover <= now'
  BY <1>1, <1>2 DEF OnTimeInv, FirstHas, Legs, Known, In
<1>4. QED
  BY <1>1, <1>2, <1>3 DEF OnTimeInv, Switching, Recording, MayUndo

(* A value stored on time is of after the switch. *)
LEMMA OnTimeAround ==
  ASSUME Recoverable, LateKeys = {}, TypeInv, SourceInv, KeptInv, SetupInv, SwitchInv, OnTimeInv,
         Everywhere' \subseteq Known',
         \/ \E k \in Keys, t \in Time : Write(k, t)
         \/ Tick \/ StartByOperator \/ Kill
  PROVE  OnTimeInv'
<1>0. /\ Keeps(stores, stores')
      /\ UNCHANGED <<state, old, new, cutover, aside, leg, month>>
      /\ now' \in {now, now + 1}
  <2>1. CASE Tick \/ StartByOperator \/ Kill
    BY <2>1, OtherSteps DEF Quiet, Tick, StartByOperator, Kill, files, locals, cursor
  <2>2. CASE \E k \in Keys, t \in Time : Write(k, t)
    BY <2>2, WrittenRows DEF Write, files, locals, cursor
  <2>3. QED
    BY <2>1, <2>2
<1>1. \/ pc' = pc
      \/ pc' = "idle"
  BY DEF Tick, StartByOperator, Write, Kill, Return
<1>2. ASSUME NEW r \in Known'
      PROVE  r \in Row /\ (r \in Known \/ (r[2] = now /\ pc \notin Switching))
  <2>1. CASE Tick \/ StartByOperator \/ Kill
    BY <2>1 DEF Tick, StartByOperator, Kill, ghosts, Known
  <2>2. ASSUME NEW k \in Keys, NEW t \in Time, Write(k, t)
        PROVE  r \in Row /\ (r \in Known \/ (r[2] = now /\ pc \notin Switching))
    <3>1. Known' = Known \union {<<k, t>>} /\ pc \notin Switching
      BY <2>2, WrittenWhere
    <3>2. t = now
      BY <2>2 DEF Write
    <3>3. r \in Row
      BY DEF Known
    <3>4. QED
      BY <3>1, <3>2, <3>3
  <2>3. QED
    BY <2>1, <2>2
<1>3. now \in Nat /\ cutover \in Nat
  BY KnownRows
<1>4. ASSUME NEW s \in State, FirstHas(s), s.cutover <= now
      PROVE  FirstHas(s)'
  <2> SUFFICES ASSUME Legs(s) # <<>>, NEW r \in Known', r[2] < s.cutover
               PROVE  In(Legs(s)[1], r)'
    BY DEF FirstHas, Legs
  <2>1. r \in Row /\ r[2] \in Nat /\ s.cutover \in Nat
    BY <1>2 DEF Row, Time, State
  <2>2. r \in Known
    BY <1>2, <1>3, <1>4, <2>1
  <2>3. Legs(s)[1] \in Store /\ In(Legs(s)[1], r)
    BY <1>4, <2>2, FirstLeg DEF FirstHas
  <2>4. QED
    BY <1>0, <2>1, <2>3, InStays
<1>5. pc' \in Recording => FirstHas(Saved)'
  <2> SUFFICES ASSUME pc' \in Recording
               PROVE  FirstHas(Saved)'
    OBVIOUS
  <2>1. pc \in Recording /\ Saved' = Saved
    BY <1>0, <1>1 DEF Recording, Saved
  <2>2. FirstHas(Saved) /\ Saved.cutover <= now /\ Saved \in State
    BY <2>1, SavedIs DEF OnTimeInv
  <2> DEFINE s == Saved
  <2>3. PICK c \in State : c = Saved
    BY <2>2
  <2>4. FirstHas(c)'
    BY <1>4, <2>2, <2>3
  <2>5. QED
    BY <2>1, <2>3, <2>4 DEF FirstHas, Legs
<1>6. ASSUME Unfinished'
      PROVE  /\ state'.cutover <= now' /\ FirstHas(state)'
             /\ pc' = "copy" => \A r \in Known' : r[2] < state'.cutover => In(Target, r)' \/ Ahead(1, r)'
  <2>1. /\ Unfinished /\ state \in State /\ state.cutover \in Nat /\ state.cutover <= now
        /\ FirstHas(state)
    BY <1>0, <1>6, KnownRows DEF Unfinished, OnTimeInv
  <2>2. FirstHas(state)'
    BY <1>0, <1>4, <2>1 DEF FirstHas, Legs
  <2>3. ASSUME pc' = "copy", NEW r \in Known', r[2] < state'.cutover
        PROVE  In(Target, r)' \/ Ahead(1, r)'
    <3>1. r \in Row /\ r[2] \in Nat
      BY <1>2, KnownRows
    <3>2. r \in Known /\ pc = "copy"
      BY <1>0, <1>1, <1>2, <1>3, <2>1, <2>3, <3>1
    <3>3. In(Target, r) \/ Ahead(1, r)
      BY <1>0, <2>1, <2>3, <3>2 DEF OnTimeInv
    <3>4. Target' = Target /\ Target \in Store
      BY <1>0, UsedNames, Names DEF Target, Used
    <3>5. QED
      BY <1>0, <3>1, <3>3, <3>4, InStays DEF Ahead
  <2>4. QED
    BY <1>0, <1>3, <2>1, <2>2, <2>3
<1>7. pc' \in Switching \union Recording => cutover' <= now'
  BY <1>0, <1>1, <1>3 DEF OnTimeInv, Switching, Recording, MayUndo
<1>8. pc' \in {"prepare", "stop"} \union Switching \union Recording =>
        old'.type # new'.type /\ (new'.type = "clickhouse" => aside' = None)
  BY <1>0, <1>1 DEF OnTimeInv, Switching, Recording, MayUndo
<1>9. QED
  BY <1>5, <1>6, <1>7, <1>8 DEF OnTimeInv

LEMMA OnTimeRemoved ==
  ASSUME Recoverable, TypeInv, SourceInv, KeptInv, SetupInv, ReachInv, OnTimeInv,
         Everywhere' \subseteq Known', NEW s \in Store, RemoveKept(s)
  PROVE  OnTimeInv'
<1>1. /\ UNCHANGED <<pc, state, now, old, new, aside, cutover, leg, month>>
      /\ \A n \in Store \ {s} : stores'[n] = stores[n]
      /\ pc \notin Switching \union Recording
  BY RemovalLeaves DEF Switching, Recording, MayUndo, Copying
<1>2. Known' = Known
  BY ReachRemoved DEF Known
<1>3. ASSUME Unfinished
      PROVE  FirstHas(state)' /\ state.cutover <= now
  <2>1. FirstHas(state) /\ state.cutover <= now
    BY <1>3 DEF Unfinished, OnTimeInv
  <2>2. Legs(state)' = Legs(state) /\ (Legs(state) # <<>> => Legs(state)[1] \in Store \ {s})
    BY <1>1, <1>3, RemovalLeaves, FirstLeg DEF Legs
  <2>3. QED
    BY <1>1, <1>2, <2>1, <2>2 DEF FirstHas, In
<1>4. pc = "copy" => Unfinished /\ Target' = Target /\ Target \in Store \ {s}
  BY RemovalLeaves DEF SetupInv, Copying, Target, Used
<1>5. ASSUME pc = "copy", NEW r \in Known, r[2] < state.cutover
      PROVE  In(Target, r)' \/ Ahead(1, r)'
  BY <1>1, <1>4, <1>5 DEF OnTimeInv, In, Ahead
<1>6. QED
  BY <1>1, <1>2, <1>3, <1>5 DEF OnTimeInv, Unfinished, Switching, Recording, MayUndo

LEMMA OnTimeStep ==
  ASSUME Recoverable, LateKeys = {}, TypeInv, SourceInv, KeptInv, SetupInv, SwitchInv, ReachInv,
         OnTimeInv, [Next]_vars
  PROVE  OnTimeInv'
<1>1. Everywhere' \subseteq Known'
  BY KnownStays DEF OnTimeInv
<1>2. CASE UNCHANGED vars
  BY <1>1, <1>2 DEF vars, data, files, locals, cursor, ghosts, OnTimeInv, Unfinished, FirstHas, In,
     Ahead, Saved, Legs, Known, Target, Used
<1>3. CASE JobStep
  BY <1>1, <1>3, OnTimeUnderway, OnTimeAnswer, OnTimeSaved, OnTimeCopy, OnTimeCopied DEF JobStep
<1>4. CASE Next /\ ~JobStep
  BY <1>1, <1>4, OnTimeUnderway, OnTimeSaved, OnTimeAround, OnTimeRemoved DEF Next
<1>5. QED
  BY <1>2, <1>3, <1>4

(* While no value comes late: a month skipped because count and sums match *)
(* (telemetry_move.rs:10-12) has every row, and so the history can be had  *)
(* and the latest value is the newest, with nothing asked of the           *)
(* fingerprints; for any keys, months, jobs, failures that are undone,     *)
(* kills and removals.                                                     *)
THEOREM HistoryOnTime ==
  ASSUME Recoverable, LateKeys = {}
  PROVE  /\ Spec => []FingerprintsTell
         /\ MaxVersion = 1 => (Spec => []HistoryReachable)
         /\ Spec => []LatestNewest
<1> DEFINE I == /\ TypeInv /\ SourceInv /\ KeptInv /\ SetupInv /\ Past /\ SwitchInv /\ UseInv
                /\ ReachInv /\ OnTimeInv
<1>1. Init => I
  BY InitType, SourceInit, KeptInit, SetupInit, PastInit, SwitchInit, UseInit, ReachInit, OnTimeInit
<1>2. I => FingerprintsTell
  BY OnTimeTells
<1>3. I /\ [Next]_vars => I'
  BY <1>2, RecoverableStarts, StepType, SourceStep, KeptStep, SetupStep, PastStep, SwitchStep, UseStep, ReachStep,
     OnTimeStep DEF Recoverable
<1>4. Spec => []FingerprintsTell
  BY <1>1, <1>2, <1>3, PTL DEF Spec
<1>5. Spec /\ []FingerprintsTell => []LatestNewest
  BY LatestIsNewest
<1>6. MaxVersion = 1 => (Spec /\ []FingerprintsTell => []HistoryReachable)
  BY HistoryIsReachable
<1>7. QED
  BY <1>4, <1>5, <1>6, PTL
=============================================================================
