-------------------------- MODULE SafeUpdateProofs --------------------------
(* What holds of SafeUpdate for every number of versions, items, jobs and  *)
(* minutes, wherever calls fail or the job is killed, and whatever the     *)
(* operator does meanwhile that Meddles names; and in the second half what *)
(* a job of SafeUpdate that fails once leaves behind.                      *)
(* Two failures in one job, the second of them in its undo, are beyond     *)
(* what the code recovers from, and so is a kill; then SnapshotSafe,       *)
(* WritesSafe and KeepsTheVault still hold, and nothing else here does.    *)
EXTENDS SafeUpdate, TLAPS

(* A step that renames or copies the database in use finds it there. *)
DatabasesThere == pc \in {"copy", "u_aside", "r_dbaside", "b_dbaside"} => Exists(Main)

TypeInv == TypeOK /\ DatabasesThere

USE SafeUpdateAssumption

LEMMA NameFacts ==
  /\ Main \in Name
  /\ \A k \in {"before", "failed", "rolled"}, m \in 0..MaxMinute :
       <<k, m>> \in Name /\ <<k, m>> # Main
  /\ Before \subseteq Name
BY DEF Main, Name, Before

LEMMA InitType == Init => TypeInv
<1> SUFFICES ASSUME Init PROVE TypeInv
  OBVIOUS
<1>1. Main \in Name
  BY NameFacts
<1>2. dbs \in [Name -> Database \union {None}]
  BY <1>1 DEF Init, Database
<1>3. dirs \in [Dirs -> [Items -> Tree]]
  BY DEF Init, Dirs, Items, Tree, Package, Empty
<1>4. pre \in [live : [Items -> Tree], back : [Items -> Tree], main : Database \union {None}]
  BY DEF Init, Items, Tree, Package, Empty
<1>5. DatabasesThere
  BY DEF Init, DatabasesThere
<1>6. /\ marker \in Name \union {None} /\ acked \subseteq Nat /\ service \in {"up", "down"}
  BY DEF Init
<1>7. /\ nextId \in Nat /\ minute \in 0..MaxMinute
      /\ faults \in Nat /\ crashes \in Nat /\ jobs \in Nat /\ nextWrite \in Nat
  BY DEF Init
<1>8. /\ pkg \in Versions /\ snapshot \in Name /\ aside \in Name /\ undoDb \in BOOLEAN
  BY <1>1 DEF Init
<1>9. /\ pc \in Steps
      /\ last \in {"none", "refused", "updated", "undone", "rolledback", "rollbackundone", "killed"}
      /\ meddled \subseteq Meddles
  BY DEF Init, Steps
<1>10. QED
  BY <1>2, <1>3, <1>4, <1>5, <1>6, <1>7, <1>8, <1>9 DEF TypeInv, TypeOK

(* The actions, each from wherever it is used. *)

LEMMA StopType ==
  ASSUME TypeInv, NEW at, NEW then \in Steps,
         StopServer(at, then) \/ StopServerAgain(at, then) \/ StartService(at, then)
  PROVE  TypeOK' /\ pc' \in {then, "idle"}
<1> USE DEF TypeInv, TypeOK, files, databases, locals, ghosts, bounds, Goto, Return, Fails
<1>1. CASE StopServer(at, then)
  BY <1>1, NameFacts DEF StopServer, Dirs, Steps
<1>2. CASE StopServerAgain(at, then)
  BY <1>2 DEF StopServerAgain
<1>3. CASE StartService(at, then)
  BY <1>3 DEF StartService
<1>4. QED
  BY <1>1, <1>2, <1>3

LEMMA CheckType ==
  ASSUME TypeInv, NEW at, NEW then \in Steps, NEW orElse \in Steps,
         Check(at, then, orElse)
  PROVE  TypeOK' /\ pc' \in {then, orElse}
BY DEF TypeInv, TypeOK, files, databases, locals, ghosts, bounds, Goto, Fails, Check,
   ServerStaysUp, ServerGoesDown

LEMMA LastCheckType ==
  ASSUME TypeInv, NEW at, NEW result \in {"refused", "undone", "rollbackundone"},
         LastCheck(at, result)
  PROVE  TypeOK' /\ pc' = "idle"
BY DEF TypeInv, TypeOK, files, databases, locals, ghosts, bounds, Return, Fails, LastCheck,
   ServerStaysUp, ServerGoesDown, Steps

LEMMA TornTree == ASSUME NEW tree \in Tree PROVE Torn(tree) \subseteq Tree
BY DEF Torn, Tree

LEMMA MoveItemsType ==
  ASSUME TypeInv, NEW at, NEW then \in Steps, NEW orElse \in Steps,
         NEW from \in Dirs, NEW to \in Dirs, NEW replace \in BOOLEAN,
         MoveItems(at, from, to, replace, then, orElse)
  PROVE  /\ TypeOK' /\ pc' \in {at, then, orElse}
         /\ UNCHANGED <<dbs, snapshot, aside>>
<1> USE DEF TypeInv, TypeOK, databases, locals, ghosts, bounds, Goto
<1>1. dirs' \in [Dirs -> [Items -> Tree]] /\ faults' \in Nat /\ pc' \in {at, then, orElse}
  <2>1. CASE Present(from) = {} /\ Goto(then) /\ UNCHANGED <<dirs, faults>>
    BY <2>1
  <2>2. ASSUME NEW k \in Items, UNCHANGED <<pc, faults>>,
               dirs' = [dirs EXCEPT ![to][k] = dirs[from][k], ![from][k] = Absent], pc = at
        PROVE  dirs' \in [Dirs -> [Items -> Tree]] /\ faults' \in Nat /\ pc' \in {at, then, orElse}
    BY <2>2, ZenonT(60) DEF Tree
  <2>3. ASSUME NEW k \in Items, NEW rest \in Tree,
               dirs' = [dirs EXCEPT ![to][k] = rest], pc' = orElse,
               Fails(at) \/ UNCHANGED faults
        PROVE  dirs' \in [Dirs -> [Items -> Tree]] /\ faults' \in Nat /\ pc' \in {at, then, orElse}
    BY <2>3 DEF Fails
  <2>4. ASSUME NEW k \in Items PROVE dirs[to][k] \in Tree /\ Torn(dirs[to][k]) \subseteq Tree
    BY TornTree
  <2>5. QED
    BY <2>1, <2>2, <2>3, <2>4 DEF MoveItems, First, Present
<1>2. QED
  BY <1>1 DEF MoveItems, files

LEMMA FilesType ==
  ASSUME TypeInv, ClearBack \/ CopyTree \/ ClearCurrent \/ CleanUp
  PROVE  TypeInv'
<1> USE DEF TypeInv, TypeOK, DatabasesThere, databases, locals, ghosts, bounds, Goto, Return, Fails,
            Exists
<1>1. ASSUME NEW items \in [Items -> Tree] PROVE Remains(items) \subseteq [Items -> Tree]
  BY DEF Remains
<1>2. Empty \in [Items -> Tree]
  BY DEF Empty, Tree
<1>3. "back" \in Dirs /\ "live" \in Dirs /\ "current" \in Dirs
  BY DEF Dirs
<1>4. CASE ClearBack
  <2>1. dirs' \in [Dirs -> [Items -> Tree]]
    BY <1>1, <1>2, <1>3, <1>4 DEF ClearBack
  <2>2. QED
    BY <1>4, <2>1 DEF ClearBack, Steps
<1>5. CASE CopyTree
  BY <1>3, <1>5 DEF CopyTree, Tree, First, ToInstall, Steps
<1>6. CASE ClearCurrent
  <2>1. dirs' \in [Dirs -> [Items -> Tree]]
    BY <1>1, <1>2, <1>3, <1>6, ZenonT(60) DEF ClearCurrent
  <2>2. aside' \in Name
    BY <1>6, NameFacts DEF ClearCurrent
  <2>3. QED
    BY <1>6, <2>1, <2>2 DEF ClearCurrent, Steps
<1>7. CASE CleanUp
  <2>1. ASSUME NEW rest \in [Items -> Tree]
        PROVE  [dirs EXCEPT !.current = rest, !.back = Empty] \in [Dirs -> [Items -> Tree]]
    BY <1>2, <1>3
  <2>2. Remains(dirs.current) \subseteq [Items -> Tree]
    BY <1>1, <1>3
  <2>3. dirs' \in [Dirs -> [Items -> Tree]]
    <3>1. \E rest \in [Items -> Tree] : dirs' = [dirs EXCEPT !.current = rest, !.back = Empty]
      BY <1>2, <1>7, <2>2, ZenonT(60) DEF CleanUp
    <3>2. PICK rest \in [Items -> Tree] : dirs' = [dirs EXCEPT !.current = rest, !.back = Empty]
      BY <3>1
    <3>3. [dirs EXCEPT !.current = rest, !.back = Empty] \in [Dirs -> [Items -> Tree]]
      BY <2>1
    <3>4. QED
      BY <3>2, <3>3, Zenon
  <2>4. Return("rolledback") /\ UNCHANGED <<databases, service, minute, locals, pre, acked, bounds>>
    BY <1>7 DEF CleanUp
  <2>5. marker' \in Name \union {None}
    BY <1>7, Zenon DEF CleanUp
  <2>6. faults' \in Nat
    <3>1. UNCHANGED faults \/ Fails("r_clean")
      BY <1>7, Zenon DEF CleanUp
    <3>2. QED
      BY <3>1
  <2>7. QED
    BY <2>3, <2>4, <2>5, <2>6 DEF Steps
<1>8. QED
  BY <1>4, <1>5, <1>6, <1>7

(* A database stays one when it is closed, opened, migrated or written to. *)
LEMMA DatabaseKinds ==
  ASSUME NEW d \in Database
  PROVE  /\ \A o \in BOOLEAN : [d EXCEPT !.open = o] \in Database
         /\ \A s \in Versions \union {Partial} : [d EXCEPT !.schema = s] \in Database
         /\ \A w \in Nat : [d EXCEPT !.writes = @ \union {w}] \in Database
         /\ \A i \in Nat, o \in BOOLEAN : [d EXCEPT !.id = i, !.open = o] \in Database
         /\ d # None
BY DEF Database

(* So do all of them, when one that exists is opened, closed or changed.   *)
Databases == [Name -> Database \union {None}]

LEMMA ChangedDatabase ==
  ASSUME dbs \in Databases, NEW n \in Name, NEW d \in Database,
         dbs' = [dbs EXCEPT ![n] = d]
  PROVE  dbs' \in Databases /\ \A m \in Name : Exists(m)' <=> Exists(m) \/ m = n
BY DatabaseKinds DEF Databases, Exists

LEMMA OpenedDatabase ==
  ASSUME dbs \in Databases, NEW n \in Name, Exists(n), NEW o \in BOOLEAN,
         dbs' = [dbs EXCEPT ![n].open = o]
  PROVE  dbs' \in Databases /\ \A m \in Name : Exists(m)' <=> Exists(m)
<1>1. dbs[n] \in Database
  BY DEF Exists, Databases
<1>2. [dbs[n] EXCEPT !.open = o] \in Database
  BY <1>1, DatabaseKinds
<1>3. dbs' = [dbs EXCEPT ![n] = [dbs[n] EXCEPT !.open = o]]
  OBVIOUS
<1>4. QED
  BY <1>2, <1>3, ChangedDatabase

LEMMA CloseType ==
  ASSUME TypeInv, NEW at, NEW then \in Steps, NEW orElse \in Steps, NEW name \in Name,
         Close(at, name, then, orElse)
  PROVE  /\ TypeOK' /\ UNCHANGED snapshot
         /\ pc' \in {then, orElse} /\ (pc' = then /\ then # orElse => Exists(Main)')
<1>1. dbs \in Databases /\ Main \in Name
  BY NameFacts DEF TypeInv, TypeOK, Databases
<1>2. \/ Exists(Main) /\ dbs' = [dbs EXCEPT ![Main].open = FALSE] /\ pc' = then
      \/ UNCHANGED dbs /\ pc' = orElse
  BY DEF Close, Goto
<1>3. dbs' \in Databases /\ (pc' = then /\ then # orElse => Exists(Main)')
  BY <1>1, <1>2, OpenedDatabase
<1>4. QED
  BY <1>2, <1>3 DEF Close, Databases, TypeInv, TypeOK, files, ghosts, bounds, Fails

LEMMA OpenType ==
  ASSUME TypeInv, NEW at, NEW then \in Steps, NEW name \in Name,
         Open(at, name, then)
  PROVE  TypeOK' /\ UNCHANGED <<snapshot, aside>> /\ pc' = then
<1>1. dbs \in Databases
  BY DEF TypeInv, TypeOK, Databases
<1>2. (Exists(name) /\ dbs' = [dbs EXCEPT ![name].open = TRUE]) \/ UNCHANGED dbs
  BY DEF Open
<1>3. dbs' \in Databases
  BY <1>1, <1>2, OpenedDatabase
<1>4. QED
  BY <1>3 DEF Open, Databases, TypeInv, TypeOK, files, locals, ghosts, bounds, Fails, Goto

LEMMA ReopenedType ==
  ASSUME dbs \in Databases, Exists(Main), NEW obstructed \in BOOLEAN,
         dbs' \in Reopened(obstructed)
  PROVE  dbs' \in Databases /\ \A n \in Name : Exists(n)' <=> Exists(n)
<1>1. PICK o \in BOOLEAN : dbs' = [dbs EXCEPT ![Main].open = o]
  BY DEF Reopened
<1>2. QED
  BY <1>1, NameFacts, OpenedDatabase

LEMMA SetAsideType ==
  ASSUME TypeInv, NEW at, NEW then \in Steps, NEW orElse \in Steps, NEW name \in Name,
         SetDatabaseAside(at, name, then, orElse), Exists(Main)
  PROVE  /\ TypeOK' /\ UNCHANGED <<snapshot, aside>>
         /\ pc' \in {then, orElse}
<1>1. dbs \in Databases /\ Main \in Name
  BY NameFacts DEF TypeInv, TypeOK, Databases
<1>2. dbs' \in Databases
  BY <1>1, ReopenedType DEF Databases, Exists, SetDatabaseAside, Goto
<1>3. UNCHANGED <<files, nextId, service, minute, locals, ghosts, bounds>> /\ pc' \in {then, orElse}
  BY DEF SetDatabaseAside, Goto
<1>4. faults' \in Nat
  BY DEF SetDatabaseAside, TypeInv, TypeOK, Fails
<1>5. QED
  BY <1>2, <1>3, <1>4 DEF Databases, TypeInv, TypeOK, files, locals, ghosts, bounds

LEMMA PutBackType ==
  ASSUME TypeInv, NEW at, NEW then \in Steps, NEW orElse \in Steps, NEW name \in Name,
         PutDatabaseBack(at, name, then, orElse)
  PROVE  TypeOK' /\ UNCHANGED <<snapshot, aside>> /\ pc' \in {then, orElse}
<1> USE DEF TypeInv, TypeOK, files, locals, ghosts, bounds, Goto, Fails, Exists
<1>1. dbs' \in [Name -> Database \union {None}]
  BY NameFacts DEF PutDatabaseBack
<1>2. QED
  BY <1>1 DEF PutDatabaseBack

LEMMA CopyType ==
  ASSUME TypeInv, CopyDatabase
  PROVE  TypeInv'
<1>1. dbs \in Databases /\ Main \in Name /\ Exists(Main)
  BY NameFacts DEF TypeInv, TypeOK, DatabasesThere, Databases, CopyDatabase
<1>2. dbs' \in Databases /\ Exists(Main)'
  BY <1>1, DatabaseKinds, ChangedDatabase, ReopenedType DEF Databases, Exists, TypeInv, TypeOK,
     CopyDatabase
<1>3. nextId' \in Nat /\ faults' \in Nat /\ pc' \in {"open", "abort"}
  BY DEF CopyDatabase, TypeInv, TypeOK, Fails, Goto
<1>4. UNCHANGED <<files, service, minute, locals, ghosts, bounds>>
  BY DEF CopyDatabase
<1>5. QED
  BY <1>2, <1>3, <1>4 DEF Databases, TypeInv, TypeOK, DatabasesThere, Exists, files, locals,
     ghosts, bounds, Steps

LEMMA UpgradeType ==
  ASSUME TypeInv, RunUpgrade
  PROVE  TypeInv'
<1>1. dbs \in Databases /\ Main \in Name
  BY NameFacts DEF TypeInv, TypeOK, Databases
<1>2. dbs' \in Databases
  <2>1. ASSUME NEW s \in Versions \union {Partial}, Exists(Main),
               dbs' = [dbs EXCEPT ![Main].schema = s]
        PROVE  dbs' \in Databases
    BY <1>1, <2>1, DatabaseKinds, ChangedDatabase DEF Databases, Exists
  <2>2. CASE Exists(Main) /\ dbs' = [dbs EXCEPT ![Main].schema = pkg]
    BY <2>1, <2>2 DEF TypeInv, TypeOK
  <2>3. CASE /\ Exists(Main)
             /\ \E s \in {dbs[Main].schema, Partial} : dbs' = [dbs EXCEPT ![Main].schema = s]
    BY <1>1, <2>1, <2>3 DEF Databases, Exists, Database
  <2>4. CASE UNCHANGED dbs
    BY <1>1, <2>4
  <2>5. QED
    BY <2>2, <2>3, <2>4 DEF RunUpgrade
<1>3. faults' \in Nat /\ pc' \in {"start", "u_stop"}
  BY DEF RunUpgrade, TypeInv, TypeOK, Fails, Goto
<1>4. UNCHANGED <<files, nextId, service, minute, locals, ghosts, bounds>>
  BY DEF RunUpgrade
<1>5. QED
  BY <1>2, <1>3, <1>4 DEF Databases, TypeInv, TypeOK, DatabasesThere, files, locals,
     ghosts, bounds, Steps

LEMMA JobType ==
  ASSUME TypeInv,
         DryRun \/ DropOlder \/ WriteMarker \/ RollbackCheck \/ UndoDatabase
         \/ BeginUpdate \/ BeginRollback
  PROVE  TypeInv'
<1> USE DEF TypeInv, TypeOK, DatabasesThere, files, databases, locals, ghosts, bounds, Goto, Return,
            Fails
<1>1. CASE DryRun
  BY <1>1, NameFacts DEF DryRun, Steps
<1>2. CASE DropOlder
  BY <1>2 DEF DropOlder, Steps
<1>3. CASE WriteMarker
  BY <1>3 DEF WriteMarker, Steps
<1>4. CASE RollbackCheck
  <2>1. service' \in {"up", "down"} /\ faults' \in Nat
    BY <1>4 DEF RollbackCheck, ServerStaysUp, ServerGoesDown
  <2>2. /\ pc' \in {"r_clean", "b_stop"} /\ undoDb' \in BOOLEAN
        /\ UNCHANGED <<files, databases, minute, pkg, snapshot, aside, ghosts, bounds>>
    BY <1>4 DEF RollbackCheck
  <2>3. QED
    BY <2>1, <2>2 DEF Steps
<1>5. CASE UndoDatabase
  BY <1>5 DEF UndoDatabase, Steps
<1>6. CASE BeginUpdate
  BY <1>6 DEF BeginUpdate, Begin, Steps
<1>7. CASE BeginRollback
  <2>1. RollbackCopies \subseteq Name
    BY NameFacts DEF RollbackCopies, Newest, OlderSnapshots
  <2>2. undoDb' \in BOOLEAN
    BY <1>7 DEF BeginRollback
  <2>3. QED
    BY <1>7, <2>1, <2>2 DEF BeginRollback, Begin, Steps
<1>8. QED
  BY <1>1, <1>2, <1>3, <1>4, <1>5, <1>6, <1>7

LEMMA ProbeType ==
  ASSUME TypeInv, Probe
  PROVE  TypeInv'
<1>1. dbs \in Databases /\ Main \in Name /\ aside \in Name
  BY NameFacts DEF TypeInv, TypeOK, Databases
<1>2. dbs' \in Databases
  BY <1>1 DEF Databases, Probe
<1>3. undoDb' \in BOOLEAN /\ faults' \in Nat /\ pc' = "b_stop"
  BY DEF Probe, TypeInv, TypeOK, Fails, Goto
<1>4. UNCHANGED <<files, nextId, service, minute, pkg, snapshot, aside, ghosts, bounds>>
  BY DEF Probe
<1>5. QED
  BY <1>2, <1>3, <1>4 DEF Databases, TypeInv, TypeOK, DatabasesThere, files, ghosts, bounds, Steps

LEMMA WriteType ==
  ASSUME TypeInv, Write
  PROVE  TypeInv'
<1>1. dbs \in Databases /\ Main \in Name /\ Exists(Main) /\ nextWrite \in Nat
  BY NameFacts DEF TypeInv, TypeOK, Databases, Write
<1>2. dbs' \in Databases /\ \A n \in Name : Exists(n)' <=> Exists(n)
  BY <1>1, DatabaseKinds, ChangedDatabase DEF Write, Databases, Exists
<1>3. nextWrite' \in Nat /\ acked' \subseteq Nat
  BY DEF Write, TypeInv, TypeOK
<1>4. UNCHANGED <<files, nextId, service, minute, pc, locals, faults, pre, last, crashes, jobs,
                  meddled>>
  BY DEF Write
<1>5. QED
  BY <1>1, <1>2, <1>3, <1>4 DEF Databases, TypeInv, TypeOK, DatabasesThere, files, locals

LEMMA AroundType ==
  ASSUME TypeInv, Tick \/ ControlStart \/ RemoveKept \/ Crash
  PROVE  TypeInv'
<1> USE DEF TypeInv, TypeOK, DatabasesThere, files, databases, locals, ghosts, bounds, Return
<1>1. CASE Tick
  BY <1>1 DEF Tick, Exists
<1>2. CASE ControlStart
  BY <1>2 DEF ControlStart, Meddle, Exists
<1>3. CASE RemoveKept
  BY <1>3, NameFacts DEF RemoveKept, Exists, Meddle
<1>4. CASE Crash
  <2>1. ASSUME NEW d \in Dirs, NEW k \in Items, NEW rest \in Tree,
               dirs' = [dirs EXCEPT ![d][k] = rest]
        PROVE  dirs' \in [Dirs -> [Items -> Tree]]
    BY <2>1
  <2>2. CASE UNCHANGED dirs
    BY <1>4, <2>2 DEF Crash, Steps
  <2>3. CASE /\ pc \in DOMAIN Source
             /\ \E k \in First(Present(Source[pc])), rest \in Tree :
                  dirs' = [dirs EXCEPT ![Target[pc]][k] = rest]
    BY <1>4, <2>1, <2>3 DEF Source, Target, Dirs, First, Present, Crash, Steps
  <2>4. CASE \E k \in First(ToInstall) : dirs' = [dirs EXCEPT !.live[k] = Partial]
    <3>1. First(ToInstall) \subseteq Items /\ "live" \in Dirs /\ Partial \in Tree
      BY DEF First, ToInstall, Dirs, Tree
    <3>2. dirs' \in [Dirs -> [Items -> Tree]]
      BY <2>1, <2>4, <3>1
    <3>3. QED
      BY <1>4, <3>2 DEF Crash, Steps
  <2>5. QED
    BY <1>4, <2>2, <2>3, <2>4 DEF Crash
<1>5. QED
  BY <1>1, <1>2, <1>3, <1>4

-----------------------------------------------------------------------------
(* The steps of the jobs, each action at its points. *)

LEMMA SafeUpdateStepType == ASSUME TypeInv, SafeUpdateStep PROVE TypeInv'
<1>1. {"abort", "aborting", "check", "clear", "copy", "dryrun", "install", "prune", "u_stop"} \subseteq Steps
  BY DEF Steps
<1>2. /\ {Main, aside, snapshot, <<"failed", minute>>} \subseteq Name
      /\ {"live", "back", "current"} \subseteq Dirs
  BY NameFacts DEF TypeInv, TypeOK, Dirs
<1>3. CASE StopServer("stop", "dryrun")
  BY <1>1, <1>2, <1>3, StopType DEF TypeInv, DatabasesThere
<1>4. CASE StartService("abort", "aborting")
  BY <1>1, <1>2, <1>4, StopType DEF TypeInv, DatabasesThere
<1>5. CASE LastCheck("aborting", "refused")
  <2>1. TypeOK' /\ pc' = "idle"
    BY <1>1, <1>2, <1>5, LastCheckType
  <2>2. QED
    BY <2>1 DEF TypeInv, DatabasesThere
<1>6. CASE Close("close", aside, "copy", "abort")
  BY <1>1, <1>2, <1>6, CloseType DEF TypeInv, DatabasesThere
<1>7. CASE Open("open", Main, "clear")
  <2>1. TypeOK' /\ pc' = "clear"
    BY <1>1, <1>2, <1>7, OpenType
  <2>2. QED
    BY <2>1 DEF TypeInv, DatabasesThere
<1>8. CASE MoveItems("setaside", "live", "back", FALSE, "install", "u_stop")
  <2>1. TypeOK' /\ pc' \in {"setaside", "install", "u_stop"}
    BY <1>1, <1>2, <1>8, MoveItemsType
  <2>2. QED
    BY <2>1 DEF TypeInv, DatabasesThere
<1>9. CASE StartService("start", "check")
  BY <1>1, <1>2, <1>9, StopType DEF TypeInv, DatabasesThere
<1>10. CASE Check("check", "prune", "u_stop")
  BY <1>1, <1>2, <1>10, CheckType DEF TypeInv, DatabasesThere
<1>11. CASE DryRun \/ DropOlder \/ WriteMarker
  BY <1>11, JobType
<1>12. CASE CopyDatabase \/ RunUpgrade
  BY <1>12, CopyType, UpgradeType
<1>13. CASE ClearBack \/ CopyTree
  BY <1>13, FilesType
<1>14. QED
  BY <1>3, <1>4, <1>5, <1>6, <1>7, <1>8, <1>9, <1>10, <1>11, <1>12, <1>13 DEF SafeUpdateStep

LEMMA UndoUpdateStepType == ASSUME TypeInv, UndoUpdateStep PROVE TypeInv'
<1>1. {"u_aside", "u_check", "u_close", "u_files", "u_open", "u_put", "u_start"} \subseteq Steps
  BY DEF Steps
<1>2. /\ {Main, aside, snapshot, <<"failed", minute>>} \subseteq Name
      /\ {"live", "back", "current"} \subseteq Dirs
  BY NameFacts DEF TypeInv, TypeOK, Dirs
<1>3. CASE StopServerAgain("u_stop", "u_files")
  BY <1>1, <1>2, <1>3, StopType DEF TypeInv, DatabasesThere
<1>4. CASE MoveItems("u_files", "back", "live", TRUE, "u_close", "u_close")
  <2>1. TypeOK' /\ pc' \in {"u_files", "u_close", "u_close"}
    BY <1>1, <1>2, <1>4, MoveItemsType
  <2>2. QED
    BY <2>1 DEF TypeInv, DatabasesThere
<1>5. CASE Close("u_close", <<"failed", minute>>, "u_aside", "u_start")
  BY <1>1, <1>2, <1>5, CloseType DEF TypeInv, DatabasesThere
<1>6. CASE SetDatabaseAside("u_aside", aside, "u_open", "u_start")
  BY <1>1, <1>2, <1>6, SetAsideType DEF TypeInv, DatabasesThere, SetDatabaseAside
<1>7. CASE Open("u_open", aside, "u_put")
  <2>1. TypeOK' /\ pc' = "u_put"
    BY <1>1, <1>2, <1>7, OpenType
  <2>2. QED
    BY <2>1 DEF TypeInv, DatabasesThere
<1>8. CASE PutDatabaseBack("u_put", snapshot, "u_start", "u_start")
  BY <1>1, <1>2, <1>8, PutBackType DEF TypeInv, DatabasesThere
<1>9. CASE StartService("u_start", "u_check")
  BY <1>1, <1>2, <1>9, StopType DEF TypeInv, DatabasesThere
<1>10. CASE LastCheck("u_check", "undone")
  <2>1. TypeOK' /\ pc' = "idle"
    BY <1>1, <1>2, <1>10, LastCheckType
  <2>2. QED
    BY <2>1 DEF TypeInv, DatabasesThere
<1>11. QED
  BY <1>3, <1>4, <1>5, <1>6, <1>7, <1>8, <1>9, <1>10 DEF UndoUpdateStep

LEMMA RollbackStepType == ASSUME TypeInv, RollbackStep PROVE TypeInv'
<1>1. {"b_stop", "r_check", "r_clear", "r_close", "r_dbaside", "r_files", "r_open", "r_probe", "r_put", "r_start"} \subseteq Steps
  BY DEF Steps
<1>2. /\ {Main, aside, snapshot, <<"failed", minute>>} \subseteq Name
      /\ {"live", "back", "current"} \subseteq Dirs
  BY NameFacts DEF TypeInv, TypeOK, Dirs
<1>3. CASE StopServer("r_stop", "r_clear")
  BY <1>1, <1>2, <1>3, StopType DEF TypeInv, DatabasesThere
<1>4. CASE MoveItems("r_aside", "live", "current", TRUE, "r_files", "b_stop")
  <2>1. TypeOK' /\ pc' \in {"r_aside", "r_files", "b_stop"}
    BY <1>1, <1>2, <1>4, MoveItemsType
  <2>2. QED
    BY <2>1 DEF TypeInv, DatabasesThere
<1>5. CASE MoveItems("r_files", "back", "live", TRUE, "r_close", "b_stop")
  <2>1. TypeOK' /\ pc' \in {"r_files", "r_close", "b_stop"}
    BY <1>1, <1>2, <1>5, MoveItemsType
  <2>2. QED
    BY <2>1 DEF TypeInv, DatabasesThere
<1>6. CASE Close("r_close", aside, "r_dbaside", "r_probe")
  BY <1>1, <1>2, <1>6, CloseType DEF TypeInv, DatabasesThere
<1>7. CASE SetDatabaseAside("r_dbaside", aside, "r_open", "r_probe")
  BY <1>1, <1>2, <1>7, SetAsideType DEF TypeInv, DatabasesThere, SetDatabaseAside
<1>8. CASE Open("r_open", aside, "r_put")
  <2>1. TypeOK' /\ pc' = "r_put"
    BY <1>1, <1>2, <1>8, OpenType
  <2>2. QED
    BY <2>1 DEF TypeInv, DatabasesThere
<1>9. CASE PutDatabaseBack("r_put", snapshot, "r_start", "r_probe")
  BY <1>1, <1>2, <1>9, PutBackType DEF TypeInv, DatabasesThere
<1>10. CASE StartService("r_start", "r_check")
  BY <1>1, <1>2, <1>10, StopType DEF TypeInv, DatabasesThere
<1>11. CASE ClearCurrent \/ CleanUp
  BY <1>11, FilesType
<1>12. CASE Probe \/ RollbackCheck
  BY <1>12, ProbeType, JobType
<1>13. QED
  BY <1>3, <1>4, <1>5, <1>6, <1>7, <1>8, <1>9, <1>10, <1>11, <1>12 DEF RollbackStep

LEMMA UndoRollbackStepType == ASSUME TypeInv, UndoRollbackStep PROVE TypeInv'
<1>1. {"b_back", "b_check", "b_db", "b_dbaside", "b_files", "b_open", "b_put", "b_start"} \subseteq Steps
  BY DEF Steps
<1>2. /\ {Main, aside, snapshot, <<"failed", minute>>} \subseteq Name
      /\ {"live", "back", "current"} \subseteq Dirs
  BY NameFacts DEF TypeInv, TypeOK, Dirs
<1>3. CASE StopServerAgain("b_stop", "b_back")
  BY <1>1, <1>2, <1>3, StopType DEF TypeInv, DatabasesThere
<1>4. CASE MoveItems("b_back", "live", "back", TRUE, "b_files", "b_db")
  <2>1. TypeOK' /\ pc' \in {"b_back", "b_files", "b_db"}
    BY <1>1, <1>2, <1>4, MoveItemsType
  <2>2. QED
    BY <2>1 DEF TypeInv, DatabasesThere
<1>5. CASE MoveItems("b_files", "current", "live", TRUE, "b_db", "b_db")
  <2>1. TypeOK' /\ pc' \in {"b_files", "b_db", "b_db"}
    BY <1>1, <1>2, <1>5, MoveItemsType
  <2>2. QED
    BY <2>1 DEF TypeInv, DatabasesThere
<1>6. CASE Close("b_close", aside, "b_dbaside", "b_start")
  BY <1>1, <1>2, <1>6, CloseType DEF TypeInv, DatabasesThere
<1>7. CASE SetDatabaseAside("b_dbaside", snapshot, "b_open", "b_start")
  BY <1>1, <1>2, <1>7, SetAsideType DEF TypeInv, DatabasesThere, SetDatabaseAside
<1>8. CASE Open("b_open", snapshot, "b_put")
  <2>1. TypeOK' /\ pc' = "b_put"
    BY <1>1, <1>2, <1>8, OpenType
  <2>2. QED
    BY <2>1 DEF TypeInv, DatabasesThere
<1>9. CASE PutDatabaseBack("b_put", aside, "b_start", "b_start")
  BY <1>1, <1>2, <1>9, PutBackType DEF TypeInv, DatabasesThere
<1>10. CASE StartService("b_start", "b_check")
  BY <1>1, <1>2, <1>10, StopType DEF TypeInv, DatabasesThere
<1>11. CASE LastCheck("b_check", "rollbackundone")
  <2>1. TypeOK' /\ pc' = "idle"
    BY <1>1, <1>2, <1>11, LastCheckType
  <2>2. QED
    BY <2>1 DEF TypeInv, DatabasesThere
<1>12. CASE UndoDatabase
  BY <1>12, JobType
<1>13. QED
  BY <1>3, <1>4, <1>5, <1>6, <1>7, <1>8, <1>9, <1>10, <1>11, <1>12 DEF UndoRollbackStep

LEMMA StepType == TypeInv /\ [Next]_vars => TypeInv'
<1> SUFFICES ASSUME TypeInv, [Next]_vars PROVE TypeInv'
  OBVIOUS
<1>1. CASE SafeUpdateStep
  BY <1>1, SafeUpdateStepType
<1>2. CASE UndoUpdateStep
  BY <1>2, UndoUpdateStepType
<1>3. CASE RollbackStep
  BY <1>3, RollbackStepType
<1>4. CASE UndoRollbackStep
  BY <1>4, UndoRollbackStepType
<1>5. CASE BeginUpdate \/ BeginRollback
  BY <1>5, JobType
<1>6. CASE Write
  BY <1>6, WriteType
<1>7. CASE Tick \/ ControlStart \/ RemoveKept \/ Crash
  BY <1>7, AroundType
<1>8. CASE UNCHANGED vars
  BY <1>8 DEF vars, files, databases, locals, ghosts, bounds, TypeInv, TypeOK, DatabasesThere,
     Exists
<1>9. QED
  BY <1>1, <1>2, <1>3, <1>4, <1>5, <1>6, <1>7, <1>8 DEF Next

(* The shape of the state: no name holds two databases, no item is anything *)
(* but a version's tree or a part of one, and a step that renames or copies *)
(* the database in use finds it there.                                      *)
THEOREM Invariant == Spec => []TypeInv
BY InitType, StepType, PTL DEF Spec

(* The type invariant TypeOK, for every value of the constants. *)
THEOREM TypeCorrect == Spec => []TypeOK
<1>1. TypeInv => TypeOK
  BY DEF TypeInv
<1>2. QED
  BY <1>1, Invariant, PTL

-----------------------------------------------------------------------------
(* No update or rollback loses data: the copy an update would go back to   *)
(* stays exact, and what SENTIENT stored stays stored, whatever fails and  *)
(* whenever the job is killed.                                             *)

Copying == {"dryrun", "close", "copy"}
Holding == {"open"} \union Updating \union UndoingUpdate

(* It holds what the job found, and nothing but that unless the operator    *)
(* interfered.                                                             *)
Faithful(db) ==
  /\ db # None /\ pre.main # None
  /\ db.schema = pre.main.schema
  /\ pre.main.writes \subseteq db.writes
  /\ meddled = {} => db.writes = pre.main.writes

(* Why the copy is exact: unless started from Control SENTIENT is down from *)
(* the dry run until the copy is made, and afterwards only a removal in    *)
(* Kept touches the name the copy got.                                     *)
SnapshotInv ==
  /\ pc \in Copying => /\ "start" \notin meddled => service = "down"
                       /\ Exists(Main) => Faithful(dbs[Main])
  /\ pc \in {"close", "copy"} \union Holding => snapshot \in Before
  /\ pc \in Holding /\ "remove" \notin meddled => Faithful(dbs[snapshot])
  /\ pc \in {"u_aside", "u_open", "u_put"} => aside[1] = "failed"

LEMMA BeforeIsNotMain == Main \notin Before /\ \A n \in Before : n # Main /\ n[1] = "before"
BY DEF Before, Main, Name

(* Elsewhere in the jobs SnapshotInv says nothing ... *)
LEMMA Unwatched ==
  ASSUME pc' \notin Copying \union Holding
  PROVE  SnapshotInv'
BY DEF SnapshotInv, Copying, Holding, UndoingUpdate

(* ... and it is kept by what leaves the copy alone. *)
LEMMA StaysHeld ==
  ASSUME SnapshotInv, pc \in Holding, pc' \notin Copying,
         UNCHANGED <<snapshot, pre, meddled>>, dbs'[snapshot] = dbs[snapshot],
         pc' \in {"u_aside", "u_open", "u_put"} => aside'[1] = "failed"
  PROVE  SnapshotInv'
BY DEF SnapshotInv, Faithful, Copying, Holding, Updating, UndoingUpdate, UndoingFiles

(* Where each subroutine leaves the job. *)
LEMMA Leaves ==
  ASSUME NEW at, NEW then, NEW orElse, NEW from, NEW to, NEW replace, NEW name, NEW result
  PROVE  /\ StopServer(at, then) => pc' \in {then, "idle"}
         /\ StopServerAgain(at, then) => pc' = then
         /\ StartService(at, then) => pc' = then
         /\ Check(at, then, orElse) => pc' \in {then, orElse}
         /\ LastCheck(at, result) => pc' = "idle"
         /\ MoveItems(at, from, to, replace, then, orElse) => pc = at /\ pc' \in {at, then, orElse}
         /\ Close(at, name, then, orElse) => pc' \in {then, orElse}
         /\ SetDatabaseAside(at, name, then, orElse) => pc' \in {then, orElse}
         /\ Open(at, name, then) => pc' = then
         /\ PutDatabaseBack(at, name, then, orElse) => pc' \in {then, orElse}
<1>1. MoveItems(at, from, to, replace, then, orElse) => pc = at /\ pc' \in {at, then, orElse}
  BY DEF MoveItems, Goto
<1>2. QED
  BY <1>1 DEF StopServer, StopServerAgain, StartService, Check, LastCheck, Close,
     SetDatabaseAside, Open, PutDatabaseBack, Goto, Return

LEMMA RollbackUnwatched ==
  ASSUME RollbackStep \/ UndoRollbackStep
  PROVE  pc' \notin Copying \union Holding
<1>1. CASE RollbackStep
  <2>1. pc' \in {"idle", "r_clear", "r_aside", "r_files", "r_close", "r_dbaside", "r_open", "r_put",
                 "r_probe", "r_start", "r_check", "r_clean", "b_stop"}
    <3>1. ClearCurrent => pc' = "r_aside"
      BY DEF ClearCurrent, Goto
    <3>2. Probe => pc' = "b_stop"
      BY DEF Probe, Goto
    <3>3. RollbackCheck => pc' \in {"r_clean", "b_stop"}
      BY DEF RollbackCheck, Goto
    <3>4. CleanUp => pc' = "idle"
      BY DEF CleanUp, Return
    <3>5. /\ StopServer("r_stop", "r_clear") => pc' \in {"r_clear", "idle"}
          /\ StartService("r_start", "r_check") => pc' = "r_check"
          /\ MoveItems("r_aside", "live", "current", TRUE, "r_files", "b_stop")
               => pc' \in {"r_aside", "r_files", "b_stop"}
          /\ MoveItems("r_files", "back", "live", TRUE, "r_close", "b_stop")
               => pc' \in {"r_files", "r_close", "b_stop"}
      BY Leaves
    <3>6. /\ Close("r_close", aside, "r_dbaside", "r_probe") => pc' \in {"r_dbaside", "r_probe"}
          /\ SetDatabaseAside("r_dbaside", aside, "r_open", "r_probe") => pc' \in {"r_open", "r_probe"}
          /\ Open("r_open", aside, "r_put") => pc' = "r_put"
          /\ PutDatabaseBack("r_put", snapshot, "r_start", "r_probe") => pc' \in {"r_start", "r_probe"}
      BY Leaves
    <3>7. QED
      BY <1>1, <3>1, <3>2, <3>3, <3>4, <3>5, <3>6 DEF RollbackStep
  <2>2. QED
    BY <2>1 DEF Copying, Holding, Updating, UndoingUpdate, UndoingFiles
<1>2. CASE UndoRollbackStep
  <2>1. pc' \in {"idle", "b_back", "b_files", "b_db", "b_close", "b_dbaside", "b_open", "b_put",
                 "b_start", "b_check"}
    BY <1>2, Leaves, ZenonT(60) DEF UndoRollbackStep, UndoDatabase, Goto
  <2>2. QED
    BY <2>1 DEF Copying, Holding, Updating, UndoingUpdate, UndoingFiles
<1>3. QED
  BY <1>1, <1>2

(* What a change to the database in use leaves of the others. *)
LEMMA OnlyMain ==
  ASSUME TypeInv, NEW n \in Name \ {Main},
         \/ UNCHANGED dbs
         \/ \E o \in BOOLEAN : dbs' = [dbs EXCEPT ![Main].open = o]
         \/ \E s : dbs' = [dbs EXCEPT ![Main].schema = s]
         \/ \E w : dbs' = [dbs EXCEPT ![Main].writes = @ \union {w}]
  PROVE  dbs'[n] = dbs[n]
BY DEF TypeInv, TypeOK

LEMMA SnapshotInit == Init => SnapshotInv
BY DEF Init, SnapshotInv, Copying, Holding, Updating, UndoingUpdate, UndoingFiles

LEMMA SnapshotTaken ==
  ASSUME TypeInv, SnapshotInv,
         StopServer("stop", "dryrun") \/ DryRun \/ Close("close", aside, "copy", "abort") \/ CopyDatabase
  PROVE  SnapshotInv'
<1>0. Main \in Name /\ dbs \in Databases /\ snapshot \in Name
  BY NameFacts DEF TypeInv, TypeOK, Databases
<1>1. CASE StopServer("stop", "dryrun")
  <2>1. CASE pc' = "dryrun"
    BY <1>1, <2>1 DEF StopServer, databases, Return, Faithful, Exists, SnapshotInv, Holding,
       Updating, UndoingUpdate, UndoingFiles
  <2>2. CASE pc' = "idle"
    BY <2>2, Unwatched DEF Copying, Holding, Updating, UndoingUpdate, UndoingFiles
  <2>3. QED
    BY <1>1, <2>1, <2>2, Leaves
<1>2. CASE DryRun
  BY <1>2, NameFacts, Unwatched DEF DryRun, Goto, databases, ghosts, bounds, Before, TypeInv,
     TypeOK, SnapshotInv, Faithful, Copying, Exists, Holding, Updating, UndoingUpdate,
     UndoingFiles
<1>3. CASE Close("close", aside, "copy", "abort")
  BY <1>0, <1>3, Unwatched, Leaves DEF Close, Goto, ghosts, bounds, Databases, Database, Exists,
     SnapshotInv, Copying, Faithful, Holding, Updating, UndoingUpdate, UndoingFiles
<1>4. CASE CopyDatabase
  <2>1. CASE pc' = "open"
    <3>1. /\ pc = "copy" /\ UNCHANGED <<service, snapshot, pre, meddled>>
          /\ ~Exists(snapshot)
          /\ dbs' = [dbs EXCEPT ![snapshot] = [dbs[Main] EXCEPT !.id = nextId, !.open = TRUE]]
      BY <1>4, <2>1 DEF CopyDatabase, Goto, locals, ghosts, bounds
    <3>2. Exists(Main) /\ Faithful(dbs[Main]) /\ snapshot \in Before
      BY <3>1 DEF SnapshotInv, Copying, TypeInv, DatabasesThere
    <3>3. dbs[Main] \in Database
      BY <1>0, <3>2 DEF Databases, Exists
    <3>4. [dbs[Main] EXCEPT !.id = nextId, !.open = TRUE] \in Database
      BY <3>3, DatabaseKinds DEF TypeInv, TypeOK
    <3>5. Faithful(dbs[snapshot])'
      BY <1>0, <3>1, <3>2, <3>3, <3>4 DEF Databases, Database, Faithful
    <3>6. pc' \notin Copying /\ pc' \notin {"u_aside", "u_open", "u_put"}
      BY <2>1 DEF Copying
    <3>7. QED
      BY <3>1, <3>2, <3>5, <3>6 DEF SnapshotInv
  <2>2. CASE pc' = "abort"
    BY <2>2, Unwatched DEF Copying, Holding, Updating, UndoingUpdate, UndoingFiles
  <2>3. QED
    BY <1>4, <2>1, <2>2 DEF CopyDatabase, Goto
<1>5. QED
  BY <1>1, <1>2, <1>3, <1>4

LEMMA SnapshotUsed ==
  ASSUME TypeInv, SnapshotInv, pc \in Holding, SafeUpdateStep
  PROVE  SnapshotInv'
<1>0. snapshot \in Name \ {Main} /\ snapshot \in Before
  BY BeforeIsNotMain, NameFacts DEF SnapshotInv
<1>1. CASE Open("open", Main, "clear")
  BY <1>0, <1>1, OnlyMain, StaysHeld DEF Open, Goto, locals, ghosts, bounds, Copying
<1>2. CASE ClearBack \/ CopyTree \/ MoveItems("setaside", "live", "back", FALSE, "install", "u_stop")
  <2>1. pc' \in {"setaside", "u_stop", "upgrade", "install"} /\ UNCHANGED <<dbs, snapshot, pre, meddled>>
    <3>1. CASE ClearBack
      BY <3>1 DEF ClearBack, Goto, databases, locals, ghosts, bounds
    <3>2. CASE CopyTree
      BY <3>2 DEF CopyTree, Goto, databases, locals, ghosts, bounds
    <3>3. CASE MoveItems("setaside", "live", "back", FALSE, "install", "u_stop")
      <4>1. UNCHANGED <<dbs, snapshot, pre, meddled>>
        BY <3>3 DEF MoveItems, databases, locals, ghosts, bounds
      <4>2. QED
        BY <3>3, <4>1, Leaves
    <3>4. QED
      BY <1>2, <3>1, <3>2, <3>3
  <2>2. QED
    BY <2>1, StaysHeld DEF Copying
<1>3. CASE RunUpgrade
  BY <1>0, <1>3, OnlyMain, StaysHeld DEF RunUpgrade, Goto, locals, ghosts, bounds, Copying
<1>4. CASE StartService("start", "check") \/ Check("check", "prune", "u_stop")
  BY <1>4, StaysHeld DEF StartService, Check, Goto, databases, locals, ghosts, bounds, Copying
<1>5. CASE DropOlder
  BY <1>0, <1>5, StaysHeld DEF DropOlder, Goto, locals, ghosts, bounds, OlderSnapshots, Copying
<1>6. CASE WriteMarker \/ LastCheck("aborting", "refused") \/ StartService("abort", "aborting")
  <2>1. pc' \in {"idle", "aborting"}
    BY <1>6, Leaves DEF WriteMarker, Return
  <2>2. QED
    BY <2>1, Unwatched DEF Copying, Holding, Updating, UndoingUpdate, UndoingFiles
<1>7. pc \notin {"stop"} \union Copying
  BY DEF Copying, Holding, Updating, UndoingUpdate, UndoingFiles
<1>8. /\ ~StopServer("stop", "dryrun") /\ ~DryRun
      /\ ~Close("close", aside, "copy", "abort") /\ ~CopyDatabase
  BY <1>7 DEF StopServer, DryRun, Close, CopyDatabase, Copying
<1>9. QED
  BY <1>1, <1>2, <1>3, <1>4, <1>5, <1>6, <1>8 DEF SafeUpdateStep

LEMMA SnapshotUndo ==
  ASSUME TypeInv, SnapshotInv, UndoUpdateStep
  PROVE  SnapshotInv'
<1>1. ASSUME pc' \in {"u_start", "u_check", "idle"} PROVE SnapshotInv'
  BY <1>1, Unwatched DEF Copying, Holding, Updating, UndoingUpdate, UndoingFiles
<1>2. ASSUME pc \in UndoingUpdate PROVE pc \in Holding /\ snapshot \in Name \ {Main} /\ snapshot \in Before
  BY <1>2, BeforeIsNotMain, NameFacts DEF SnapshotInv, Holding
<1>3. CASE \/ StopServerAgain("u_stop", "u_files")
           \/ MoveItems("u_files", "back", "live", TRUE, "u_close", "u_close")
  <2>1. pc \in UndoingUpdate /\ pc' \in {"u_files", "u_close"}
    BY <1>3, Leaves DEF StopServerAgain, MoveItems, UndoingUpdate, UndoingFiles
  <2>2. UNCHANGED <<dbs, snapshot, pre, meddled>>
    BY <1>3 DEF StopServerAgain, MoveItems, databases, locals, ghosts, bounds
  <2>3. QED
    BY <1>2, <2>1, <2>2, StaysHeld DEF Copying
<1>4. CASE Close("u_close", <<"failed", minute>>, "u_aside", "u_start")
  BY <1>2, <1>4, OnlyMain, StaysHeld DEF Close, Goto, UndoingUpdate, ghosts, bounds, Copying
<1>5. CASE SetDatabaseAside("u_aside", aside, "u_open", "u_start")
  BY <1>1, <1>2, <1>5, BeforeIsNotMain, StaysHeld, Leaves DEF SetDatabaseAside, Goto, locals,
     ghosts, bounds, SnapshotInv, UndoingUpdate, TypeInv, TypeOK, Copying
<1>6. CASE Open("u_open", aside, "u_put")
  BY <1>2, <1>6, BeforeIsNotMain, StaysHeld DEF Open, Goto, locals, ghosts, bounds, SnapshotInv,
     UndoingUpdate, TypeInv, TypeOK, Copying
<1>7. CASE \/ PutDatabaseBack("u_put", snapshot, "u_start", "u_start")
           \/ StartService("u_start", "u_check") \/ LastCheck("u_check", "undone")
  BY <1>1, <1>7, Leaves
<1>8. QED
  BY <1>3, <1>4, <1>5, <1>6, <1>7 DEF UndoUpdateStep

LEMMA SnapshotAround ==
  ASSUME TypeInv, SnapshotInv,
         BeginUpdate \/ BeginRollback \/ Tick \/ ControlStart \/ Write \/ RemoveKept \/ Crash
         \/ UNCHANGED vars
  PROVE  SnapshotInv'
<1>1. CASE BeginUpdate \/ BeginRollback \/ Crash
  BY <1>1, Unwatched DEF BeginUpdate, BeginRollback, Crash, Goto, Return, Copying, Holding,
     Updating, UndoingUpdate, UndoingFiles
<1>2. CASE Write
  <2>1. pc' = pc /\ UNCHANGED <<service, snapshot, aside, pre, meddled>>
    BY <1>2 DEF Write, locals
  <2>5. CASE pc \in Copying
    <3>1. /\ Main \in Name /\ dbs[Main] \in Database
          /\ dbs'[Main] = [dbs[Main] EXCEPT !.writes = @ \union {nextWrite}]
      BY <1>2, NameFacts DEF Write, Exists, TypeInv, TypeOK
    <3>2. /\ dbs'[Main] # None /\ dbs'[Main].schema = dbs[Main].schema
          /\ dbs[Main].writes \subseteq dbs'[Main].writes
      <4>1. [dbs[Main] EXCEPT !.writes = @ \union {nextWrite}] \in Database
        BY <3>1, DatabaseKinds DEF TypeInv, TypeOK
      <4>2. /\ [dbs[Main] EXCEPT !.writes = @ \union {nextWrite}].schema = dbs[Main].schema
            /\ dbs[Main].writes \subseteq [dbs[Main] EXCEPT !.writes = @ \union {nextWrite}].writes
        BY <3>1 DEF Database
      <4>3. QED
        BY <3>1, <4>1, <4>2, DatabaseKinds
    <3>3. "start" \in meddled /\ Faithful(dbs[Main])
      BY <1>2, <2>5 DEF Write, SnapshotInv
    <3>4. Faithful(dbs[Main])'
      BY <2>1, <3>2, <3>3 DEF Faithful
    <3>5. pc \notin Holding
      BY <2>5 DEF Copying, Holding, Updating, UndoingUpdate, UndoingFiles
    <3>6. QED
      BY <2>1, <2>5, <3>3, <3>4, <3>5 DEF SnapshotInv, Copying
  <2>2. CASE pc \in Holding
    BY <1>2, <2>1, <2>2, BeforeIsNotMain, NameFacts, OnlyMain, StaysHeld DEF SnapshotInv, Write,
       Copying, Holding, Updating, UndoingUpdate, UndoingFiles
  <2>3. CASE pc \notin Copying \union Holding
    BY <2>1, <2>3, Unwatched
  <2>4. QED
    BY <2>2, <2>3, <2>5
<1>5. CASE ControlStart
  BY <1>5, Unwatched, NameFacts DEF ControlStart, Meddle, databases, locals, ghosts, Copying,
     Holding, Updating, UndoingUpdate, UndoingFiles, Faithful, SnapshotInv, Exists
<1>6. CASE RemoveKept
  BY <1>6, NameFacts, Unwatched DEF RemoveKept, Meddle, locals, TypeInv, TypeOK, Faithful,
     Copying, Holding, Updating, UndoingUpdate, UndoingFiles, SnapshotInv, Exists
<1>3. CASE Tick \/ UNCHANGED vars
  BY <1>3 DEF Tick, vars, SnapshotInv, Faithful, Exists, files, databases, locals, ghosts, bounds
<1>4. QED
  BY <1>1, <1>2, <1>3, <1>5, <1>6

LEMMA SnapshotStep == TypeInv /\ SnapshotInv /\ [Next]_vars => SnapshotInv'
<1> SUFFICES ASSUME TypeInv, SnapshotInv, [Next]_vars PROVE SnapshotInv'
  OBVIOUS
<1>1. CASE SafeUpdateStep
  <2>1. CASE pc \in Holding
    BY <1>1, <2>1, SnapshotUsed
  <2>2. CASE StopServer("stop", "dryrun") \/ DryRun \/ Close("close", aside, "copy", "abort") \/ CopyDatabase
    BY <2>2, SnapshotTaken
  <2>3. CASE StartService("abort", "aborting") \/ LastCheck("aborting", "refused")
    <3>1. pc' \in {"aborting", "idle"}
      BY <2>3, Leaves
    <3>2. QED
      BY <3>1, Unwatched DEF Copying, Holding, Updating, UndoingUpdate, UndoingFiles
  <2>4. QED
    BY <1>1, <2>1, <2>2, <2>3 DEF SafeUpdateStep, Open, ClearBack, MoveItems, CopyTree, RunUpgrade,
       StartService, Check, DropOlder, WriteMarker, Holding, Updating
<1>2. CASE UndoUpdateStep
  BY <1>2, SnapshotUndo
<1>3. CASE RollbackStep \/ UndoRollbackStep
  BY <1>3, RollbackUnwatched, Unwatched
<1>4. CASE BeginUpdate \/ BeginRollback \/ Tick \/ ControlStart \/ Write \/ RemoveKept \/ Crash
           \/ UNCHANGED vars
  BY <1>4, SnapshotAround
<1>5. QED
  BY <1>1, <1>2, <1>3, <1>4 DEF Next

(* From before an update touches the program files until it has finished   *)
(* or put the database back, the copy holds what the database held when    *)
(* SENTIENT was stopped, unless the operator removes it: exactly that when *)
(* SENTIENT is not started meanwhile, and at least that when it is.        *)
THEOREM SnapshotSafe == Spec => []SnapshotHeld
<1>1. SnapshotInv => SnapshotHeld
  BY DEF SnapshotInv, SnapshotHeld, Faithful, SameContent, Exists, Holding
<1>2. Spec => []SnapshotInv
  BY Invariant, SnapshotInit, SnapshotStep, PTL DEF Spec
<1>3. QED
  BY <1>1, <1>2, PTL

-----------------------------------------------------------------------------
(* What SENTIENT stored.  An update moves the database to a name that is   *)
(* not a Before name, or replaces it where it is.  Only rollback's undo    *)
(* renames the database in use to a Before name, which the next update     *)
(* drops: it can only if the copy is gone from there, and then what is to  *)
(* be kept is in the database set aside.                                   *)

KeptIn(names) == \A w \in acked : \E n \in names : Exists(n) /\ w \in dbs[n].writes

Replacing == {"r_aside", "r_files", "r_close", "r_dbaside", "r_open", "r_put", "r_probe"}

WritesInv ==
  /\ marker \in Before \union {None}
  /\ pc \in RollingBack => snapshot \in Before
  /\ pc \in Replacing => aside[1] = "rolled"
  /\ pc \in {"r_open", "r_put"} => ~Exists(Main)
  /\ pc \in RollingBack => Exists(snapshot) \/ KeptIn(Name \ (Before \union {Main}))
  /\ KeptIn(Name \ Before)

(* A step that renames nothing and drops nothing. *)
Intact ==
  /\ \A n \in Name : Exists(n) <=> dbs'[n] # None
  /\ \A n \in Name : Exists(n) => dbs[n].writes \subseteq dbs'[n].writes

LEMMA IntactKept ==
  ASSUME Intact, UNCHANGED acked, NEW names \in SUBSET Name, KeptIn(names)
  PROVE  KeptIn(names)'
BY DEF Intact, KeptIn, Exists

LEMMA IntactChange ==
  ASSUME TypeInv, NEW n \in Name, NEW d \in Database, Exists(n),
         dbs[n].writes \subseteq d.writes, dbs' = [dbs EXCEPT ![n] = d]
  PROVE  Intact
BY DatabaseKinds DEF Intact, Exists, TypeInv, TypeOK

LEMMA IntactDatabase ==
  ASSUME TypeInv, NEW n \in Name, Exists(n),
         \/ \E o \in BOOLEAN : dbs' = [dbs EXCEPT ![n].open = o]
         \/ \E s \in Versions \union {Partial} : dbs' = [dbs EXCEPT ![n].schema = s]
         \/ \E w \in Nat : dbs' = [dbs EXCEPT ![n].writes = @ \union {w}]
  PROVE  Intact
<1>1. dbs[n] \in Database
  BY DEF TypeInv, TypeOK, Exists
<1>2. ASSUME NEW o \in BOOLEAN, dbs' = [dbs EXCEPT ![n].open = o] PROVE Intact
  <2>1. [dbs[n] EXCEPT !.open = o] \in Database /\ [dbs[n] EXCEPT !.open = o].writes = dbs[n].writes
    BY <1>1, DatabaseKinds DEF Database
  <2>2. dbs' = [dbs EXCEPT ![n] = [dbs[n] EXCEPT !.open = o]]
    BY <1>2
  <2>3. QED
    BY <2>1, <2>2, IntactChange
<1>3. ASSUME NEW s \in Versions \union {Partial}, dbs' = [dbs EXCEPT ![n].schema = s] PROVE Intact
  <2>1. [dbs[n] EXCEPT !.schema = s] \in Database /\ [dbs[n] EXCEPT !.schema = s].writes = dbs[n].writes
    BY <1>1, DatabaseKinds DEF Database
  <2>2. dbs' = [dbs EXCEPT ![n] = [dbs[n] EXCEPT !.schema = s]]
    BY <1>3
  <2>3. QED
    BY <2>1, <2>2, IntactChange
<1>4. ASSUME NEW w \in Nat, dbs' = [dbs EXCEPT ![n].writes = @ \union {w}] PROVE Intact
  <2>1. [dbs[n] EXCEPT !.writes = @ \union {w}] \in Database
        /\ dbs[n].writes \subseteq [dbs[n] EXCEPT !.writes = @ \union {w}].writes
    BY <1>1, DatabaseKinds DEF Database
  <2>2. dbs' = [dbs EXCEPT ![n] = [dbs[n] EXCEPT !.writes = @ \union {w}]]
    BY <1>4
  <2>3. QED
    BY <2>1, <2>2, IntactChange
<1>5. QED
  BY <1>2, <1>3, <1>4

(* A rename to a name that is free and no Before name. *)
LEMMA RenamedKept ==
  ASSUME TypeInv, NEW from \in Name, NEW to \in Name \ Before, ~Exists(to),
         dbs' = [dbs EXCEPT ![to] = dbs[from], ![from] = None],
         UNCHANGED acked, KeptIn(Name \ Before)
  PROVE  KeptIn(Name \ Before)'
<1> SUFFICES ASSUME NEW w \in acked
             PROVE  \E n \in Name \ Before : dbs'[n] # None /\ w \in dbs'[n].writes
  BY DEF KeptIn, Exists
<1>1. PICK n \in Name \ Before : dbs[n] # None /\ w \in dbs[n].writes
  BY DEF KeptIn, Exists
<1>2. to # n
  BY <1>1 DEF Exists
<1>3. CASE n = from
  <2>1. dbs'[to] = dbs[n]
    BY <1>2, <1>3 DEF TypeInv, TypeOK
  <2>2. QED
    BY <1>1, <2>1
<1>4. CASE n # from
  <2>1. dbs'[n] = dbs[n]
    BY <1>2, <1>4 DEF TypeInv, TypeOK
  <2>2. QED
    BY <1>1, <2>1
<1>5. QED
  BY <1>3, <1>4

(* Outside a rollback WritesInv asks only for what is kept. *)
LEMMA Outside ==
  ASSUME pc' \notin RollingBack, marker' \in Before \union {None}, KeptIn(Name \ Before)'
  PROVE  WritesInv'
BY DEF WritesInv, RollingBack, Replacing

(* What each subroutine does to the databases. *)
LEMMA Effects ==
  ASSUME TypeInv, NEW at, NEW then, NEW orElse, NEW name \in Name
  PROVE  /\ Close(at, name, then, orElse) => Intact /\ UNCHANGED <<marker, acked, snapshot>>
         /\ Open(at, name, then) => Intact /\ UNCHANGED <<marker, acked, snapshot, aside>>
         /\ SetDatabaseAside(at, name, then, orElse) /\ Exists(Main) =>
              /\ \/ Intact /\ pc' = orElse
                 \/ /\ ~Exists(name) /\ pc' = then
                    /\ dbs' = [dbs EXCEPT ![name] = dbs[Main], ![Main] = None]
              /\ UNCHANGED <<marker, acked, snapshot, aside>>
         /\ PutDatabaseBack(at, name, then, orElse) =>
              /\ \/ Intact /\ pc' = orElse
                 \/ /\ ~Exists(Main) /\ pc' = then
                    /\ dbs' = [dbs EXCEPT ![Main] = dbs[name], ![name] = None]
              /\ UNCHANGED <<marker, acked, snapshot, aside>>
<1>1. UNCHANGED dbs => Intact
  BY DEF Intact, Exists
<1>2. ASSUME Exists(Main), NEW obstructed \in BOOLEAN, dbs' \in Reopened(obstructed) PROVE Intact
  BY <1>2, IntactDatabase, NameFacts DEF Reopened
<1>3. Close(at, name, then, orElse) => Intact /\ UNCHANGED <<marker, acked, snapshot>>
  BY <1>1, IntactDatabase, NameFacts DEF Close, files, ghosts
<1>4. Open(at, name, then) => Intact /\ UNCHANGED <<marker, acked, snapshot, aside>>
  BY <1>1, IntactDatabase DEF Open, files, ghosts, locals
<1>5. ASSUME SetDatabaseAside(at, name, then, orElse), Exists(Main)
      PROVE  /\ \/ Intact /\ pc' = orElse
                \/ /\ ~Exists(name) /\ pc' = then
                   /\ dbs' = [dbs EXCEPT ![name] = dbs[Main], ![Main] = None]
             /\ UNCHANGED <<marker, acked, snapshot, aside>>
  BY <1>2, <1>5 DEF SetDatabaseAside, files, ghosts, locals, Exists, Goto
<1>6. ASSUME PutDatabaseBack(at, name, then, orElse)
      PROVE  /\ \/ Intact /\ pc' = orElse
                \/ /\ ~Exists(Main) /\ pc' = then
                   /\ dbs' = [dbs EXCEPT ![Main] = dbs[name], ![name] = None]
             /\ UNCHANGED <<marker, acked, snapshot, aside>>
  BY <1>1, <1>6 DEF PutDatabaseBack, Goto, files, ghosts, locals
<1>7. QED
  BY <1>3, <1>4, <1>5, <1>6

LEMMA WritesInit == Init => WritesInv
BY DEF Init, WritesInv, RollingBack, Replacing, KeptIn

LEMMA UpdateKeeps ==
  ASSUME TypeInv, SnapshotInv, WritesInv, SafeUpdateStep
  PROVE  WritesInv'
<1>1. pc' \notin RollingBack
  <2>1. /\ DryRun => pc' \in {"close", "abort"}
        /\ CopyDatabase => pc' \in {"open", "abort"}
        /\ ClearBack => pc' \in {"setaside", "u_stop"}
        /\ CopyTree => pc' \in {"install", "upgrade", "u_stop"}
        /\ RunUpgrade => pc' \in {"start", "u_stop"}
        /\ DropOlder => pc' = "note"
        /\ WriteMarker => pc' = "idle"
    BY DEF CopyTree, Goto, DryRun, CopyDatabase, ClearBack, RunUpgrade, DropOlder, WriteMarker,
       Return
  <2>2. /\ StopServer("stop", "dryrun") => pc' \in {"dryrun", "idle"}
        /\ StartService("abort", "aborting") => pc' = "aborting"
        /\ LastCheck("aborting", "refused") => pc' = "idle"
        /\ StartService("start", "check") => pc' = "check"
        /\ Check("check", "prune", "u_stop") => pc' \in {"prune", "u_stop"}
    BY Leaves
  <2>3. /\ Close("close", aside, "copy", "abort") => pc' \in {"copy", "abort"}
        /\ Open("open", Main, "clear") => pc' = "clear"
        /\ MoveItems("setaside", "live", "back", FALSE, "install", "u_stop")
             => pc' \in {"setaside", "install", "u_stop"}
    BY Leaves
  <2>4. QED
    BY <2>1, <2>2, <2>3 DEF SafeUpdateStep, RollingBack, Replacing
<1>2. ASSUME Intact, UNCHANGED <<acked, marker>> PROVE WritesInv'
  BY <1>1, <1>2, IntactKept, Outside DEF WritesInv
<1>3. UNCHANGED dbs => Intact
  BY DEF Intact, Exists
<1>4. CASE \/ StopServer("stop", "dryrun") \/ DryRun \/ StartService("abort", "aborting")
           \/ LastCheck("aborting", "refused") \/ StartService("start", "check")
           \/ Check("check", "prune", "u_stop")
  BY <1>2, <1>3, <1>4 DEF StopServer, DryRun, StartService, LastCheck, Check, files, databases,
     ghosts
<1>5. CASE Close("close", aside, "copy", "abort")
  BY <1>2, <1>5, Effects DEF TypeInv, TypeOK
<1>6. CASE Open("open", Main, "clear")
  BY <1>2, <1>6, Effects, NameFacts
<1>7. CASE ClearBack \/ CopyTree \/ MoveItems("setaside", "live", "back", FALSE, "install", "u_stop")
  BY <1>1, <1>3, <1>7, IntactKept, Outside DEF ClearBack, databases, ghosts, CopyTree, MoveItems,
     WritesInv
<1>8. CASE CopyDatabase
  BY <1>1, <1>2, <1>8, IntactDatabase, NameFacts, Outside DEF CopyDatabase, files, ghosts,
     TypeInv, DatabasesThere, Reopened, TypeOK, WritesInv, KeptIn, Exists
<1>9. CASE RunUpgrade
  BY <1>2, <1>3, <1>9, IntactDatabase, NameFacts DEF RunUpgrade, files, ghosts, TypeInv, TypeOK,
     Exists, Database
<1>10. CASE DropOlder
  BY <1>1, <1>10, Outside DEF DropOlder, files, ghosts, OlderSnapshots, WritesInv, KeptIn, Exists
<1>11. CASE WriteMarker
  BY <1>1, <1>3, <1>11, IntactKept, Outside DEF WriteMarker, SnapshotInv, Holding, Updating,
     WritesInv, databases
<1>12. QED
  BY <1>4, <1>5, <1>6, <1>7, <1>8, <1>9, <1>10, <1>11 DEF SafeUpdateStep

LEMMA UndoKeeps ==
  ASSUME TypeInv, SnapshotInv, WritesInv, UndoUpdateStep
  PROVE  WritesInv'
<1>1. pc' \notin RollingBack
  <2>1. /\ StopServerAgain("u_stop", "u_files") => pc' = "u_files"
        /\ MoveItems("u_files", "back", "live", TRUE, "u_close", "u_close") => pc' \in {"u_files", "u_close"}
        /\ Close("u_close", <<"failed", minute>>, "u_aside", "u_start") => pc' \in {"u_aside", "u_start"}
        /\ SetDatabaseAside("u_aside", aside, "u_open", "u_start") => pc' \in {"u_open", "u_start"}
    BY Leaves
  <2>2. /\ Open("u_open", aside, "u_put") => pc' = "u_put"
        /\ PutDatabaseBack("u_put", snapshot, "u_start", "u_start") => pc' = "u_start"
        /\ StartService("u_start", "u_check") => pc' = "u_check"
        /\ LastCheck("u_check", "undone") => pc' = "idle"
    BY Leaves
  <2>3. QED
    BY <2>1, <2>2 DEF UndoUpdateStep, RollingBack, Replacing
<1>2. ASSUME Intact, UNCHANGED <<acked, marker>> PROVE WritesInv'
  BY <1>1, <1>2, IntactKept, Outside DEF WritesInv
<1>3. UNCHANGED dbs => Intact
  BY DEF Intact, Exists
<1>4. CASE \/ StopServerAgain("u_stop", "u_files") \/ StartService("u_start", "u_check")
           \/ LastCheck("u_check", "undone")
           \/ MoveItems("u_files", "back", "live", TRUE, "u_close", "u_close")
  BY <1>2, <1>3, <1>4 DEF StopServerAgain, StartService, LastCheck, MoveItems, files, databases,
     ghosts
<1>5. CASE Close("u_close", <<"failed", minute>>, "u_aside", "u_start")
  BY <1>2, <1>5, Effects, NameFacts DEF TypeInv, TypeOK
<1>6. CASE SetDatabaseAside("u_aside", aside, "u_open", "u_start")
  BY <1>1, <1>6, BeforeIsNotMain, Effects, IntactKept, RenamedKept, NameFacts, Outside DEF
     SetDatabaseAside, TypeInv, TypeOK, DatabasesThere, SnapshotInv, WritesInv
<1>7. CASE Open("u_open", aside, "u_put")
  BY <1>2, <1>7, Effects DEF TypeInv, TypeOK
<1>8. CASE PutDatabaseBack("u_put", snapshot, "u_start", "u_start")
  <2>1. snapshot \in Name /\ Main \in Name \ Before
    BY NameFacts, BeforeIsNotMain DEF TypeInv, TypeOK
  <2>2. KeptIn(Name \ Before)' /\ UNCHANGED marker
    BY <1>8, <2>1, Effects, IntactKept, RenamedKept DEF WritesInv
  <2>3. QED
    BY <1>1, <2>2, Outside DEF WritesInv
<1>9. QED
  BY <1>4, <1>5, <1>6, <1>7, <1>8 DEF UndoUpdateStep

(* Within a rollback: on from one point to the next, nothing renamed. *)
LEMMA RollbackOn ==
  ASSUME WritesInv, Intact, UNCHANGED <<acked, marker, snapshot>>, pc \in RollingBack,
         pc' \in Replacing => aside'[1] = "rolled",
         pc' \in {"r_open", "r_put"} => pc \in {"r_open", "r_put"}
  PROVE  WritesInv'
<1>1. snapshot \in Before /\ Before \subseteq Name
  BY NameFacts DEF WritesInv
<1>2. Exists(snapshot) <=> Exists(snapshot)'
  BY <1>1 DEF Intact, Exists
<1>3. Exists(Main) <=> Exists(Main)'
  BY NameFacts DEF Intact, Exists
<1>4. KeptIn(Name \ Before)'
  BY IntactKept DEF WritesInv
<1>5. Exists(snapshot)' \/ KeptIn(Name \ (Before \union {Main}))'
  BY <1>2, IntactKept DEF WritesInv
<1>6. QED
  BY <1>1, <1>2, <1>3, <1>4, <1>5 DEF WritesInv

LEMMA RollbackKeeps ==
  ASSUME TypeInv, WritesInv, RollbackStep
  PROVE  WritesInv'
<1>0. UNCHANGED dbs => Intact
  BY DEF Intact, Exists
<1> USE DEF RollingBack, Replacing
<1>1. CASE StopServer("r_stop", "r_clear")
  <2>1. UNCHANGED <<dbs, acked, marker, snapshot>> /\ pc = "r_stop" /\ pc' \in {"r_clear", "idle"}
    BY <1>1, Leaves DEF StopServer, files, databases, locals, ghosts
  <2>2. QED
    BY <1>0, <2>1, RollbackOn
<1>2. CASE ClearCurrent
  BY <1>0, <1>2, RollbackOn DEF ClearCurrent, Goto, files, databases, locals, ghosts
<1>3. CASE \/ MoveItems("r_aside", "live", "current", TRUE, "r_files", "b_stop")
           \/ MoveItems("r_files", "back", "live", TRUE, "r_close", "b_stop")
  <2>1. /\ UNCHANGED <<dbs, acked, marker, snapshot, aside>> /\ pc \in {"r_aside", "r_files"}
        /\ pc' \in {"r_aside", "r_files", "r_close", "b_stop"}
    <3>1. /\ MoveItems("r_aside", "live", "current", TRUE, "r_files", "b_stop")
               => pc = "r_aside" /\ pc' \in {"r_aside", "r_files", "b_stop"}
          /\ MoveItems("r_files", "back", "live", TRUE, "r_close", "b_stop")
               => pc = "r_files" /\ pc' \in {"r_files", "r_close", "b_stop"}
      BY Leaves
    <3>2. UNCHANGED <<dbs, acked, marker, snapshot, aside>>
      BY <1>3 DEF MoveItems, databases, locals, ghosts
    <3>3. QED
      BY <1>3, <3>1, <3>2
  <2>2. aside[1] = "rolled"
    BY <2>1 DEF WritesInv
  <2>3. QED
    BY <1>0, <2>1, <2>2, RollbackOn
<1>4. CASE Close("r_close", aside, "r_dbaside", "r_probe")
  BY <1>4, Effects, RollbackOn DEF Close, Goto, TypeInv, TypeOK, WritesInv
<1>5. CASE SetDatabaseAside("r_dbaside", aside, "r_open", "r_probe")
  <2>1. pc = "r_dbaside" /\ Exists(Main) /\ aside \in Name /\ aside[1] = "rolled"
    BY <1>5 DEF SetDatabaseAside, TypeInv, TypeOK, DatabasesThere, WritesInv
  <2>2. UNCHANGED <<marker, acked, snapshot, aside>>
    BY <1>5, <2>1, Effects
  <2>3. CASE Intact /\ pc' = "r_probe"
    BY <2>1, <2>2, <2>3, RollbackOn
  <2>4. CASE /\ ~Exists(aside) /\ pc' = "r_open"
             /\ dbs' = [dbs EXCEPT ![aside] = dbs[Main], ![Main] = None]
    <3>1. aside \in Name \ Before /\ snapshot \in Before /\ aside # Main
      BY <2>1, BeforeIsNotMain DEF WritesInv, Main
    <3>2. KeptIn(Name \ Before)'
      BY <2>2, <2>4, <3>1, RenamedKept, NameFacts DEF WritesInv
    <3>3. ~Exists(Main)'
      BY <2>1, <2>4, <3>1, NameFacts DEF TypeInv, TypeOK, Exists
    <3>4. KeptIn(Name \ (Before \union {Main}))'
      BY <3>2, <3>3 DEF KeptIn
    <3>5. QED
      BY <2>1, <2>2, <2>4, <3>1, <3>2, <3>3, <3>4 DEF WritesInv
  <2>5. QED
    BY <1>5, <2>1, <2>3, <2>4, Effects
<1>6. CASE Open("r_open", aside, "r_put")
  BY <1>6, Effects, RollbackOn DEF Open, Goto, TypeInv, TypeOK, WritesInv
<1>7. CASE PutDatabaseBack("r_put", snapshot, "r_start", "r_probe")
  <2>1. /\ pc = "r_put" /\ snapshot \in Name /\ snapshot \in Before /\ aside[1] = "rolled"
        /\ Main \in Name \ Before
    BY <1>7, NameFacts, BeforeIsNotMain DEF PutDatabaseBack, TypeInv, TypeOK, WritesInv
  <2>2. UNCHANGED <<marker, acked, snapshot, aside>>
    BY <1>7, <2>1, Effects
  <2>3. CASE Intact /\ pc' = "r_probe"
    BY <2>1, <2>2, <2>3, RollbackOn
  <2>4. CASE /\ ~Exists(Main) /\ pc' = "r_start"
             /\ dbs' = [dbs EXCEPT ![Main] = dbs[snapshot], ![snapshot] = None]
    BY <2>1, <2>2, <2>4, RenamedKept DEF WritesInv, TypeInv, TypeOK, KeptIn, Exists
  <2>5. QED
    BY <1>7, <2>1, <2>3, <2>4, Effects
<1>8. CASE Probe
  BY <1>0, <1>8, NameFacts, BeforeIsNotMain, RollbackOn, RenamedKept DEF Probe, Goto, files,
     ghosts, WritesInv, TypeInv, TypeOK, Exists
<1>9. CASE StartService("r_start", "r_check") \/ RollbackCheck
  BY <1>0, <1>9, RollbackOn DEF StartService, RollbackCheck, Goto, files, databases, locals,
     ghosts
<1>10. CASE CleanUp
  BY <1>0, <1>10, Zenon, IntactKept, Outside DEF CleanUp, Return, databases, ghosts, WritesInv
<1>11. QED
  BY <1>1, <1>2, <1>3, <1>4, <1>5, <1>6, <1>7, <1>8, <1>9, <1>10 DEF RollbackStep

LEMMA UndoRollbackKeeps ==
  ASSUME TypeInv, WritesInv, UndoRollbackStep
  PROVE  WritesInv'
<1>0. UNCHANGED dbs => Intact
  BY DEF Intact, Exists
<1> USE DEF RollingBack, Replacing
<1>1. CASE \/ StopServerAgain("b_stop", "b_back") \/ UndoDatabase
           \/ StartService("b_start", "b_check") \/ LastCheck("b_check", "rollbackundone")
  BY <1>0, <1>1, RollbackOn, IntactKept, Outside DEF StopServerAgain, UndoDatabase, StartService,
     LastCheck, files, databases, locals, ghosts, WritesInv, Goto, Return
<1>2. CASE \/ MoveItems("b_back", "live", "back", TRUE, "b_files", "b_db")
           \/ MoveItems("b_files", "current", "live", TRUE, "b_db", "b_db")
  <2>1. /\ MoveItems("b_back", "live", "back", TRUE, "b_files", "b_db")
             => pc = "b_back" /\ pc' \in {"b_back", "b_files", "b_db"}
        /\ MoveItems("b_files", "current", "live", TRUE, "b_db", "b_db")
             => pc = "b_files" /\ pc' \in {"b_files", "b_db"}
    BY Leaves
  <2>2. UNCHANGED <<dbs, acked, marker, snapshot>>
    BY <1>2 DEF MoveItems, databases, locals, ghosts
  <2>3. QED
    BY <1>0, <1>2, <2>1, <2>2, RollbackOn
<1>3. CASE Close("b_close", aside, "b_dbaside", "b_start")
  BY <1>3, Effects, RollbackOn, IntactKept, Outside DEF Close, Goto, TypeInv, TypeOK, WritesInv
<1>4. CASE SetDatabaseAside("b_dbaside", snapshot, "b_open", "b_start")
  <2>1. /\ pc = "b_dbaside" /\ Exists(Main) /\ snapshot \in Name /\ snapshot \in Before
        /\ Main \in Name
    BY <1>4, NameFacts DEF SetDatabaseAside, TypeInv, TypeOK, DatabasesThere, WritesInv
  <2>2. UNCHANGED <<marker, acked, snapshot, aside>>
    BY <1>4, <2>1, Effects
  <2>3. CASE Intact /\ pc' = "b_start"
    BY <2>2, <2>3, IntactKept, Outside DEF WritesInv
  <2>4. CASE /\ ~Exists(snapshot) /\ pc' = "b_open"
             /\ dbs' = [dbs EXCEPT ![snapshot] = dbs[Main], ![Main] = None]
    BY <2>1, <2>2, <2>4 DEF WritesInv, TypeInv, TypeOK, KeptIn, Exists
  <2>5. QED
    BY <1>4, <2>1, <2>3, <2>4, Effects
<1>5. CASE Open("b_open", snapshot, "b_put")
  BY <1>5, Effects, RollbackOn DEF Open, Goto, TypeInv, TypeOK
<1>6. CASE PutDatabaseBack("b_put", aside, "b_start", "b_start")
  <2>1. aside \in Name /\ Main \in Name \ Before
    BY NameFacts, BeforeIsNotMain DEF TypeInv, TypeOK
  <2>2. KeptIn(Name \ Before)' /\ UNCHANGED marker /\ pc' = "b_start"
    BY <1>6, <2>1, Effects, IntactKept, RenamedKept DEF WritesInv
  <2>3. QED
    BY <2>2, Outside DEF WritesInv
<1>7. QED
  BY <1>1, <1>2, <1>3, <1>4, <1>5, <1>6 DEF UndoRollbackStep

LEMMA AroundKeeps ==
  ASSUME TypeInv, WritesInv,
         BeginUpdate \/ BeginRollback \/ Tick \/ ControlStart \/ Write \/ RemoveKept \/ Crash
         \/ UNCHANGED vars
  PROVE  WritesInv'
<1>0. UNCHANGED dbs => Intact
  BY DEF Intact, Exists
<1>1. CASE BeginUpdate \/ Crash
  BY <1>0, <1>1, IntactKept, Outside DEF BeginUpdate, Crash, Goto, Return, files, databases,
     ghosts, WritesInv, RollingBack, Replacing
<1>2. CASE BeginRollback
  BY <1>0, <1>2, IntactKept DEF BeginRollback, Goto, files, databases, ghosts, RollbackCopies,
     Newest, OlderSnapshots, WritesInv, RollingBack, Replacing, Exists
<1>3. CASE Tick \/ ControlStart \/ UNCHANGED vars
  BY <1>3 DEF Tick, ControlStart, vars, WritesInv, KeptIn, Exists, files, databases, locals, ghosts
<1>4. CASE RemoveKept
  BY <1>4, NameFacts DEF RemoveKept, files, locals, TypeInv, TypeOK, Stored, Lasting, KeptIn,
     Exists, WritesInv
<1>5. CASE Write
  <2>1. /\ Exists(Main) /\ nextWrite \in Nat /\ UNCHANGED <<pc, marker, snapshot, aside>>
        /\ dbs' = [dbs EXCEPT ![Main].writes = @ \union {nextWrite}]
        /\ acked' = IF pc = "idle" THEN acked \union {nextWrite} ELSE acked
    BY <1>5 DEF Write, TypeInv, TypeOK, files, locals
  <2>2. Intact
    BY <2>1, IntactDatabase, NameFacts
  <2>3. CASE pc = "idle"
    BY <2>1, <2>2, <2>3, NameFacts, BeforeIsNotMain, Outside DEF Intact, TypeInv, TypeOK, Exists,
       Database, KeptIn, WritesInv, RollingBack, Replacing
  <2>4. CASE pc # "idle"
    BY <2>1, <2>2, <2>4, IntactKept, RollbackOn, Outside DEF WritesInv
  <2>5. QED
    BY <2>3, <2>4
<1>6. QED
  BY <1>1, <1>2, <1>3, <1>4, <1>5

LEMMA WritesStep == TypeInv /\ SnapshotInv /\ WritesInv /\ [Next]_vars => WritesInv'
BY UpdateKeeps, UndoKeeps, RollbackKeeps, UndoRollbackKeeps, AroundKeeps DEF Next

(* What SENTIENT stored while no job ran stays in a database no update     *)
(* drops, until the operator removes it.                                   *)
THEOREM WritesSafe == Spec => []WritesKept
<1>1. WritesInv => WritesKept
  BY BeforeIsNotMain DEF WritesInv, WritesKept, KeptIn, Stored, Lasting, Exists
<1>2. Spec => []WritesInv
  BY Invariant, SnapshotInit, SnapshotStep, WritesInit, WritesStep, PTL DEF Spec
<1>3. QED
  BY <1>1, <1>2, PTL

-----------------------------------------------------------------------------
(* SafeUpdate implements DatabaseVault: names apart, updates and rollbacks *)
(* do to the databases only what the vault allows, whatever fails and      *)
(* whenever the job is killed.                                             *)
(*                                                                         *)
(* Renames and letting connections in or not are no steps of the vault     *)
(* (Quietly).  The five others are one step each.  That the schema changes *)
(* only while an exact copy is there needs SENTIENT to be down from the    *)
(* copying to the migration (VaultInv), as it is when the operator leaves  *)
(* the job alone; that what is dropped is elsewhere needs what the writes' *)
(* safety rests on (WritesInv).                                            *)

(* What the vault holds: its databases without their names.                *)
Contents(d) == {Content(d[n]) : n \in {m \in Name : d[m] # None}}

(* No two databases are the same, and neither the next copy nor the next   *)
(* write is there already.                                                 *)
Distinct(d, id, w) ==
  /\ \A n \in Name : d[n] # None =>
       d[n].id < id /\ \A v \in d[n].writes : v < w
  /\ \A m, n \in Name : d[m] # None /\ d[n] # None /\ d[m].id = d[n].id => m = n

(* From the copy to the migration of the database. *)
Untouched == {"open", "clear", "setaside", "install", "upgrade"}
VaultInv ==
  /\ Distinct(dbs, nextId, nextWrite)
  /\ pc \in Untouched /\ meddled = {} =>
       service = "down" /\ SameContent(dbs[Main], dbs[snapshot])

SameContents ==
  \A n \in Name :
    /\ dbs[n] # None <=> dbs'[n] # None
    /\ dbs[n] # None => Content(dbs'[n]) = Content(dbs[n])
Renames(from, to) ==
  /\ dbs[from] # None /\ dbs[to] = None
  /\ dbs' = [dbs EXCEPT ![to] = dbs[from], ![from] = None]
Quietly ==
  /\ UNCHANGED <<acked, nextId, nextWrite>>
  /\ SameContents \/ \E from, to \in Name : Renames(from, to)

-----------------------------------------------------------------------------
(* The vault's steps, on the databases. *)

LEMMA VaultCopies ==
  ASSUME NEW d \in Contents(dbs), NEW c \in Contents(dbs'),
         Contents(dbs') = Contents(dbs) \union {c},
         \A other \in Contents(dbs) : c.id # other.id,
         c.schema = d.schema, c.writes = d.writes, UNCHANGED acked
  PROVE  Vault!Copy
BY DEF Vault!Copy, Contents, Exists

LEMMA VaultStores ==
  ASSUME NEW d \in Contents(dbs), NEW e \in Contents(dbs'), NEW w,
         e.id = d.id, e.schema = d.schema,
         Contents(dbs') = (Contents(dbs) \ {d}) \union {e},
         w \in e.writes, w \notin d.writes, e.writes = d.writes \union {w},
         acked' \in {acked, acked \union {w}}
  PROVE  Vault!Store
BY DEF Vault!Store, Contents, Exists

LEMMA VaultMigrates ==
  ASSUME NEW d \in Contents(dbs), NEW c \in Contents(dbs), NEW s \in Versions \union {Partial},
         meddled' # {} \/ (c.id # d.id /\ c.schema = d.schema /\ c.writes = d.writes),
         Contents(dbs') = (Contents(dbs) \ {d}) \union {[d EXCEPT !.schema = s]},
         UNCHANGED acked
  PROVE  Vault!Migrate
BY DEF Vault!Migrate, Vault!HasExactCopy, Contents, Exists

LEMMA VaultPrunes ==
  ASSUME Contents(dbs') \subseteq Contents(dbs), UNCHANGED acked,
         acked \subseteq Vault!Held(Contents(dbs'))
  PROVE  Vault!Prune
BY DEF Vault!Prune, Vault!Held, Contents, Exists

LEMMA VaultDiscards ==
  ASSUME NEW d \in Contents(dbs), Contents(dbs') = Contents(dbs) \ {d},
         acked' \subseteq acked, acked' \subseteq Vault!Held(Contents(dbs'))
  PROVE  Vault!Discard
BY DEF Vault!Discard, Vault!Held, Contents, Exists

-----------------------------------------------------------------------------
(* Steps that are none of the vault. *)

LEMMA ContentsOf ==
  ASSUME NEW d, NEW n \in Name, d[n] # None
  PROVE  Content(d[n]) \in Contents(d)
BY DEF Contents

LEMMA OpenSame ==
  ASSUME TypeInv, NEW n \in Name, Exists(n), NEW o \in BOOLEAN, dbs' = [dbs EXCEPT ![n].open = o]
  PROVE  SameContents
<1>1. dbs[n] \in Database
  BY DEF TypeInv, TypeOK, Exists
<1>2. dbs'[n] = [dbs[n] EXCEPT !.open = o] /\ \A m \in Name : m # n => dbs'[m] = dbs[m]
  BY DEF TypeInv, TypeOK
<1>3. [dbs[n] EXCEPT !.open = o] \in Database
  BY <1>1 DEF Database
<1>4. Content(dbs'[n]) = Content(dbs[n])
  BY <1>1, <1>2 DEF Content, Database
<1>5. QED
  BY <1>2, <1>3, <1>4, DatabaseKinds DEF SameContents, Exists

LEMMA Unchanged ==
  ASSUME UNCHANGED dbs
  PROVE  SameContents
BY DEF SameContents

LEMMA Moves ==
  ASSUME TypeInv, NEW at, NEW then, NEW orElse, NEW name \in Name
  PROVE  /\ Close(at, name, then, orElse) => Quietly /\ SameContents
         /\ Open(at, name, then) => Quietly /\ SameContents
         /\ SetDatabaseAside(at, name, then, orElse) /\ Exists(Main) => Quietly
         /\ PutDatabaseBack(at, name, then, orElse) => Quietly
<1> USE DEF bounds, ghosts, files, databases
<1>1. ASSUME Close(at, name, then, orElse) PROVE Quietly /\ SameContents
  BY <1>1, OpenSame, NameFacts, Unchanged DEF Close, Quietly
<1>2. ASSUME Open(at, name, then) PROVE Quietly /\ SameContents
  BY <1>2, OpenSame, Unchanged DEF Open, Quietly
<1>3. ASSUME SetDatabaseAside(at, name, then, orElse), Exists(Main) PROVE Quietly
  BY <1>3, NameFacts, OpenSame DEF SetDatabaseAside, Quietly, Renames, Exists, Reopened
<1>4. ASSUME PutDatabaseBack(at, name, then, orElse) PROVE Quietly
  BY <1>4, NameFacts, Unchanged DEF PutDatabaseBack, Quietly, Renames, Exists
<1>5. QED
  BY <1>1, <1>2, <1>3, <1>4

LEMMA Still ==
  ASSUME UNCHANGED <<dbs, acked, nextId, nextWrite>>
  PROVE  Quietly /\ SameContents
BY Unchanged DEF Quietly

LEMMA RenamedSame ==
  ASSUME TypeInv, NEW from \in Name, NEW to \in Name, Renames(from, to)
  PROVE  /\ Contents(dbs') = Contents(dbs)
         /\ \A id, w : Distinct(dbs, id, w) => Distinct(dbs', id, w)
<1>1. /\ from # to /\ dbs'[to] = dbs[from] /\ dbs'[from] = None
      /\ \A n \in Name \ {from, to} : dbs'[n] = dbs[n]
  BY DEF Renames, TypeInv, TypeOK
<1>2. \A n \in Name : dbs[n] # None => \E m \in Name : dbs'[m] = dbs[n]
  BY <1>1 DEF Renames
<1>3. \A n \in Name : dbs'[n] # None => \E m \in Name : dbs[m] = dbs'[n]
  BY <1>1
<1>4. Contents(dbs') = Contents(dbs)
  BY <1>2, <1>3 DEF Contents
<1>5. ASSUME NEW id, NEW w, Distinct(dbs, id, w) PROVE Distinct(dbs', id, w)
  <2> DEFINE Was(n) == IF n = to THEN from ELSE n
  <2>1. \A n \in Name : dbs'[n] # None => Was(n) \in Name /\ dbs[Was(n)] = dbs'[n] /\ n # from
    BY <1>1
  <2>2. \A m, n \in Name \ {from} : Was(m) = Was(n) => m = n
    OBVIOUS
  <2> HIDE DEF Was
  <2>3. \A n \in Name : dbs'[n] # None => dbs'[n].id < id /\ \A v \in dbs'[n].writes : v < w
    BY <1>5, <2>1 DEF Distinct
  <2>4. ASSUME NEW m \in Name, NEW n \in Name, dbs'[m] # None, dbs'[n] # None, dbs'[m].id = dbs'[n].id
        PROVE  m = n
    BY <1>5, <2>1, <2>2, <2>4 DEF Distinct
  <2>5. QED
    BY <2>3, <2>4 DEF Distinct
<1>6. QED
  BY <1>4, <1>5

LEMMA ContentFields ==
  ASSUME NEW a, NEW b, Content(a) = Content(b)
  PROVE  a.id = b.id /\ a.schema = b.schema /\ a.writes = b.writes
<1>1. /\ Content(a).id = a.id /\ Content(a).schema = a.schema /\ Content(a).writes = a.writes
      /\ Content(b).id = b.id /\ Content(b).schema = b.schema /\ Content(b).writes = b.writes
  BY DEF Content
<1>2. QED
  BY <1>1

LEMMA QuietlySame ==
  ASSUME TypeInv, Distinct(dbs, nextId, nextWrite), Quietly
  PROVE  /\ Contents(dbs') = Contents(dbs) /\ acked' = acked
         /\ Distinct(dbs', nextId', nextWrite')
<1>1. CASE SameContents
  BY <1>1, ContentFields DEF SameContents, Contents, Distinct, Quietly
<1>2. CASE \E from, to \in Name : Renames(from, to)
  BY <1>2, RenamedSame DEF Quietly
<1>3. QED
  BY <1>1, <1>2 DEF Quietly

-----------------------------------------------------------------------------
(* The jobs' steps: all but three are quiet. *)

LEMMA UpdateQuiet ==
  ASSUME TypeInv, SafeUpdateStep, ~CopyDatabase, ~RunUpgrade, ~DropOlder
  PROVE  Quietly
<1>1. CASE \/ StopServer("stop", "dryrun") \/ DryRun \/ StartService("abort", "aborting")
           \/ LastCheck("aborting", "refused") \/ StartService("start", "check")
           \/ Check("check", "prune", "u_stop") \/ WriteMarker
  BY <1>1, Still DEF StopServer, DryRun, StartService, LastCheck, Check, WriteMarker, databases, ghosts,
     bounds
<1>2. CASE ClearBack
  BY <1>2, Still DEF ClearBack, databases, ghosts, bounds
<1>3. CASE CopyTree
  BY <1>3, Still DEF CopyTree, databases, ghosts, bounds
<1>4. CASE MoveItems("setaside", "live", "back", FALSE, "install", "u_stop")
  BY <1>4, Still DEF MoveItems, databases, ghosts, bounds
<1>5. CASE Close("close", aside, "copy", "abort")
  BY <1>5, Moves DEF TypeInv, TypeOK
<1>6. CASE Open("open", Main, "clear")
  BY <1>6, Moves, NameFacts DEF TypeInv, TypeOK
<1>7. QED
  BY <1>1, <1>2, <1>3, <1>4, <1>5, <1>6 DEF SafeUpdateStep

LEMMA UndoQuiet ==
  ASSUME TypeInv, UndoUpdateStep
  PROVE  Quietly
<1>1. CASE \/ StopServerAgain("u_stop", "u_files") \/ StartService("u_start", "u_check")
           \/ LastCheck("u_check", "undone")
  BY <1>1, Still DEF StopServerAgain, StartService, LastCheck, databases, ghosts, bounds
<1>2. CASE MoveItems("u_files", "back", "live", TRUE, "u_close", "u_close")
  BY <1>2, Still DEF MoveItems, databases, ghosts, bounds
<1>3. CASE Close("u_close", <<"failed", minute>>, "u_aside", "u_start")
  BY <1>3, Moves, NameFacts DEF TypeInv, TypeOK
<1>4. CASE SetDatabaseAside("u_aside", aside, "u_open", "u_start")
  BY <1>4, Moves DEF SetDatabaseAside, TypeInv, TypeOK, DatabasesThere
<1>5. CASE Open("u_open", aside, "u_put")
  BY <1>5, Moves, NameFacts DEF TypeInv, TypeOK
<1>6. CASE PutDatabaseBack("u_put", snapshot, "u_start", "u_start")
  BY <1>6, Moves DEF TypeInv, TypeOK
<1>7. QED
  BY <1>1, <1>2, <1>3, <1>4, <1>5, <1>6 DEF UndoUpdateStep

LEMMA RollbackQuiet ==
  ASSUME TypeInv, RollbackStep
  PROVE  Quietly
<1>0. aside \in Name /\ snapshot \in Name /\ Main \in Name
  BY NameFacts DEF TypeInv, TypeOK
<1>1. CASE StopServer("r_stop", "r_clear") \/ ClearCurrent \/ StartService("r_start", "r_check")
           \/ RollbackCheck
  BY <1>1, Still DEF StopServer, ClearCurrent, StartService, RollbackCheck, databases, ghosts, bounds
<1>2. CASE CleanUp
  BY <1>2, Still DEF CleanUp, databases, bounds
<1>3. CASE MoveItems("r_aside", "live", "current", TRUE, "r_files", "b_stop")
  BY <1>3, Still DEF MoveItems, databases, ghosts, bounds
<1>4. CASE MoveItems("r_files", "back", "live", TRUE, "r_close", "b_stop")
  BY <1>4, Still DEF MoveItems, databases, ghosts, bounds
<1>5. CASE Close("r_close", aside, "r_dbaside", "r_probe")
  BY <1>0, <1>5, Moves
<1>6. CASE SetDatabaseAside("r_dbaside", aside, "r_open", "r_probe")
  <2>1. Exists(Main)
    BY <1>6 DEF SetDatabaseAside, TypeInv, DatabasesThere
  <2>2. QED
    BY <1>0, <1>6, <2>1, Moves
<1>7. CASE Open("r_open", aside, "r_put")
  BY <1>0, <1>7, Moves, NameFacts DEF TypeInv, TypeOK
<1>8. CASE PutDatabaseBack("r_put", snapshot, "r_start", "r_probe")
  BY <1>0, <1>8, Moves
<1>9. CASE Probe
  BY <1>0, <1>9, Still DEF Probe, ghosts, bounds, Quietly, Renames, Exists
<1>10. QED
  BY <1>1, <1>2, <1>3, <1>4, <1>5, <1>6, <1>7, <1>8, <1>9 DEF RollbackStep

LEMMA UndoRollbackQuiet ==
  ASSUME TypeInv, UndoRollbackStep
  PROVE  Quietly
<1>0. aside \in Name /\ snapshot \in Name /\ Main \in Name
  BY NameFacts DEF TypeInv, TypeOK
<1>1. CASE \/ StopServerAgain("b_stop", "b_back") \/ UndoDatabase
           \/ StartService("b_start", "b_check") \/ LastCheck("b_check", "rollbackundone")
  BY <1>1, Still DEF StopServerAgain, UndoDatabase, StartService, LastCheck, databases, ghosts, bounds
<1>2. CASE MoveItems("b_back", "live", "back", TRUE, "b_files", "b_db")
  BY <1>2, Still DEF MoveItems, databases, ghosts, bounds
<1>3. CASE MoveItems("b_files", "current", "live", TRUE, "b_db", "b_db")
  BY <1>3, Still DEF MoveItems, databases, ghosts, bounds
<1>4. CASE Close("b_close", aside, "b_dbaside", "b_start")
  BY <1>0, <1>4, Moves
<1>5. CASE SetDatabaseAside("b_dbaside", snapshot, "b_open", "b_start")
  <2>1. Exists(Main)
    BY <1>5 DEF SetDatabaseAside, TypeInv, DatabasesThere
  <2>2. QED
    BY <1>0, <1>5, <2>1, Moves
<1>6. CASE Open("b_open", snapshot, "b_put")
  BY <1>0, <1>6, Moves, NameFacts DEF TypeInv, TypeOK
<1>7. CASE PutDatabaseBack("b_put", aside, "b_start", "b_start")
  BY <1>0, <1>7, Moves
<1>8. QED
  BY <1>1, <1>2, <1>3, <1>4, <1>5, <1>6, <1>7 DEF UndoRollbackStep

LEMMA AroundQuiet ==
  ASSUME BeginUpdate \/ BeginRollback \/ Tick \/ ControlStart \/ Crash
  PROVE  Quietly
BY Still DEF BeginUpdate, BeginRollback, Begin, Tick, ControlStart, Crash, databases, ghosts, bounds

-----------------------------------------------------------------------------
(* The steps of the vault. *)

(* One database gets another schema or another write. *)
LEMMA ChangedOne ==
  ASSUME TypeInv, NEW n \in Name, Exists(n), NEW d \in Database, d.id = dbs[n].id,
         dbs' = [dbs EXCEPT ![n] = d], Distinct(dbs, nextId, nextWrite),
         nextId' = nextId, nextWrite' \in {nextWrite, nextWrite + 1},
         \A v \in d.writes : v < nextWrite'
  PROVE  /\ Contents(dbs') = (Contents(dbs) \ {Content(dbs[n])}) \union {Content(d)}
         /\ Content(d) \in Contents(dbs')
         /\ Distinct(dbs', nextId', nextWrite')
<1>1. /\ dbs'[n] = d /\ d # None
      /\ \A m \in Name \ {n} : dbs'[m] = dbs[m]
  BY DatabaseKinds DEF TypeInv, TypeOK
<1>2. \A m \in Name \ {n} : dbs[m] # None => Content(dbs[m]) # Content(dbs[n])
  BY ContentFields DEF Distinct, Exists
<1>3. Contents(dbs') = (Contents(dbs) \ {Content(dbs[n])}) \union {Content(d)}
  BY <1>1, <1>2 DEF Contents, Exists
<1>4. \A m \in Name : dbs'[m] # None =>
        dbs[m] # None /\ dbs'[m].id = dbs[m].id /\ \A v \in dbs'[m].writes : v < nextWrite'
  BY <1>1 DEF Distinct, Exists, TypeInv, TypeOK, Database
<1>5. Distinct(dbs', nextId', nextWrite')
  BY <1>4 DEF Distinct
<1>6. QED
  BY <1>1, <1>3, <1>5 DEF Contents

(* Databases go. *)
LEMMA Fewer ==
  ASSUME Distinct(dbs, nextId, nextWrite), UNCHANGED <<nextId, nextWrite>>,
         \A n \in Name : dbs'[n] \in {dbs[n], None}
  PROVE  Contents(dbs') \subseteq Contents(dbs) /\ Distinct(dbs', nextId', nextWrite')
BY DEF Contents, Distinct

(* CREATE DATABASE ... TEMPLATE. *)
LEMMA CopyVault ==
  ASSUME TypeInv, SnapshotInv, VaultInv, CopyDatabase
  PROVE  /\ Vault!Copy \/ Quietly
         /\ Distinct(dbs', nextId', nextWrite')
<1>0. Distinct(dbs, nextId, nextWrite) /\ Exists(Main) /\ Main \in Name /\ snapshot \in Name
  BY NameFacts DEF VaultInv, CopyDatabase, TypeInv, TypeOK, DatabasesThere
<1>1. CASE dbs' \in Reopened(Exists(snapshot)) /\ UNCHANGED nextId
  BY <1>0, <1>1, OpenSame, QuietlySame DEF Reopened, CopyDatabase, Quietly, ghosts, bounds
<1>2. CASE /\ ~Exists(snapshot) /\ nextId' = nextId + 1
           /\ dbs' = [dbs EXCEPT ![snapshot] = [dbs[Main] EXCEPT !.id = nextId, !.open = TRUE]]
  <2> DEFINE c == [dbs[Main] EXCEPT !.id = nextId, !.open = TRUE]
  <2>1. /\ dbs[Main] \in Database /\ nextId \in Nat /\ UNCHANGED <<acked, nextWrite>>
    BY <1>0, <1>2 DEF CopyDatabase, TypeInv, TypeOK, Exists, ghosts, bounds
  <2>2. /\ c \in Database /\ c # None /\ c.id = nextId
        /\ c.schema = dbs[Main].schema /\ c.writes = dbs[Main].writes
    <3>1. c \in Database /\ c.id = nextId
      BY <2>1 DEF Database
    <3>2. c.schema = dbs[Main].schema /\ c.writes = dbs[Main].writes
      BY <2>1 DEF Database
    <3>3. QED
      BY <3>1, <3>2, DatabaseKinds
  <2>3. dbs'[snapshot] = c /\ \A n \in Name \ {snapshot} : dbs'[n] = dbs[n]
    BY <1>0, <1>2 DEF TypeInv, TypeOK
  <2> HIDE DEF c
  <2>4. Contents(dbs') = Contents(dbs) \union {Content(c)}
    BY <1>0, <1>2, <2>2, <2>3 DEF Contents, Exists
  <2>5. \A n \in Name : dbs[n] # None => dbs[n].id # nextId /\ dbs[n].id \in Nat
    BY <1>0, <2>1 DEF Distinct, TypeInv, TypeOK, Database
  <2>6. \A other \in Contents(dbs) : Content(c).id # other.id
    BY <2>2, <2>5 DEF Contents, Content
  <2>7. /\ Content(c).schema = Content(dbs[Main]).schema
        /\ Content(c).writes = Content(dbs[Main]).writes
    BY <2>2 DEF Content
  <2>8. Content(dbs[Main]) \in Contents(dbs) /\ Content(c) \in Contents(dbs')
    BY <1>0, <2>4, ContentsOf DEF Exists
  <2>9. Vault!Copy
    BY <2>1, <2>4, <2>6, <2>7, <2>8, VaultCopies
  <2>10. ASSUME NEW n \in Name, dbs'[n] # None
         PROVE  dbs'[n].id < nextId + 1 /\ \A v \in dbs'[n].writes : v < nextWrite
    BY <1>0, <2>1, <2>2, <2>3, <2>5, <2>10 DEF Distinct, Exists
  <2>11. ASSUME NEW m \in Name, NEW n \in Name, dbs'[m] # None, dbs'[n] # None, dbs'[m].id = dbs'[n].id
         PROVE  m = n
    BY <1>0, <2>2, <2>3, <2>5, <2>11 DEF Distinct
  <2>12. QED
    BY <1>2, <2>1, <2>9, <2>10, <2>11 DEF Distinct
<1>3. QED
  BY <1>1, <1>2 DEF CopyDatabase

(* The schema tool. *)
LEMMA UpgradeVault ==
  ASSUME TypeInv, SnapshotInv, VaultInv, RunUpgrade
  PROVE  /\ Vault!Migrate \/ Quietly
         /\ Distinct(dbs', nextId', nextWrite')
<1>0. /\ Distinct(dbs, nextId, nextWrite) /\ Main \in Name /\ snapshot \in Name
      /\ UNCHANGED <<acked, nextId, nextWrite, meddled>> /\ pc = "upgrade"
  BY NameFacts DEF VaultInv, RunUpgrade, TypeInv, TypeOK, ghosts, bounds
<1>1. CASE UNCHANGED dbs
  BY <1>0, <1>1, Still, QuietlySame
<1>2. CASE Exists(Main) /\ \E s \in Versions \union {Partial} : dbs' = [dbs EXCEPT ![Main].schema = s]
  <2>1. PICK s \in Versions \union {Partial} : dbs' = [dbs EXCEPT ![Main].schema = s]
    BY <1>2
  <2> DEFINE d == [dbs[Main] EXCEPT !.schema = s]
  <2>2. dbs[Main] \in Database
    BY <1>0, <1>2 DEF TypeInv, TypeOK, Exists
  <2>3. /\ d \in Database /\ d.id = dbs[Main].id /\ d.writes = dbs[Main].writes /\ d.schema = s
    BY <2>2 DEF Database
  <2>4. dbs' = [dbs EXCEPT ![Main] = d]
    BY <2>1
  <2>5. Content(d) = [Content(dbs[Main]) EXCEPT !.schema = s]
    BY <2>3 DEF Content
  <2> HIDE DEF d
  <2>6. \A v \in d.writes : v < nextWrite'
    BY <1>0, <1>2, <2>3 DEF Distinct, Exists
  <2>7. /\ Contents(dbs') = (Contents(dbs) \ {Content(dbs[Main])}) \union {Content(d)}
        /\ Distinct(dbs', nextId', nextWrite')
    BY <1>0, <1>2, <2>3, <2>4, <2>6, ChangedOne
  <2>8. Content(dbs[Main]) \in Contents(dbs)
    BY <1>0, <1>2, ContentsOf DEF Exists
  <2>9. CASE meddled # {}
    BY <1>0, <2>5, <2>7, <2>8, <2>9, VaultMigrates
  <2>10. CASE meddled = {}
    <3>1. snapshot # Main /\ SameContent(dbs[Main], dbs[snapshot])
      BY <1>0, <2>10, BeforeIsNotMain DEF SnapshotInv, VaultInv, Holding, Updating, Untouched
    <3>2. Content(dbs[snapshot]) \in Contents(dbs) /\ dbs[snapshot].id # dbs[Main].id
      BY <1>0, <3>1, ContentsOf DEF SameContent, Distinct
    <3>3. PICK c \in Contents(dbs) : c = Content(dbs[snapshot])
      BY <3>2
    <3>4. PICK e \in Contents(dbs) : e = Content(dbs[Main])
      BY <2>8
    <3>5. c.id # e.id /\ c.schema = e.schema /\ c.writes = e.writes
      BY <3>1, <3>2, <3>3, <3>4 DEF Content, SameContent
    <3>6. Contents(dbs') = (Contents(dbs) \ {e}) \union {[e EXCEPT !.schema = s]}
      BY <2>5, <2>7, <3>4
    <3>7. QED
      BY <1>0, <2>7, <3>5, <3>6, VaultMigrates
  <2>11. QED
    BY <2>9, <2>10
<1>3. QED
  BY <1>0, <1>1, <1>2 DEF TypeInv, TypeOK, Exists, Database, RunUpgrade

(* The copies of earlier updates go. *)
LEMMA PruneVault ==
  ASSUME TypeInv, WritesInv, VaultInv, DropOlder
  PROVE  Vault!Prune /\ Distinct(dbs', nextId', nextWrite')
<1>1. /\ UNCHANGED <<acked, nextId, nextWrite>>
      /\ \A n \in Name : dbs'[n] \in {dbs[n], None}
      /\ \A n \in Name \ Before : dbs'[n] = dbs[n]
  BY DEF DropOlder, OlderSnapshots, ghosts, bounds
<1>2. Contents(dbs') \subseteq Contents(dbs) /\ Distinct(dbs', nextId', nextWrite')
  BY <1>1, Fewer DEF VaultInv
<1>3. ASSUME NEW w \in acked PROVE \E d \in Contents(dbs') : w \in d.writes
  <2>1. PICK n \in Name \ Before : dbs[n] # None /\ w \in dbs[n].writes
    BY DEF WritesInv, KeptIn, Exists
  <2>2. Content(dbs'[n]) \in Contents(dbs') /\ w \in Content(dbs'[n]).writes
    BY <1>1, <2>1, ContentsOf DEF Content
  <2>3. QED
    BY <2>2
<1>4. acked \subseteq Vault!Held(Contents(dbs'))
  BY <1>3 DEF Vault!Held
<1>5. QED
  BY <1>1, <1>2, <1>4, VaultPrunes

LEMMA WriteVault ==
  ASSUME TypeInv, VaultInv, Write
  PROVE  Vault!Store /\ Distinct(dbs', nextId', nextWrite')
<1>1. /\ Exists(Main) /\ Main \in Name /\ nextWrite \in Nat /\ dbs[Main] \in Database
      /\ nextWrite' = nextWrite + 1 /\ nextId' = nextId
      /\ acked' \in {acked, acked \union {nextWrite}}
      /\ dbs' = [dbs EXCEPT ![Main] = [dbs[Main] EXCEPT !.writes = @ \union {nextWrite}]]
  BY NameFacts DEF Write, TypeInv, TypeOK, Exists
<1> DEFINE d == [dbs[Main] EXCEPT !.writes = @ \union {nextWrite}]
<1>2. /\ d \in Database /\ d.id = dbs[Main].id /\ d.schema = dbs[Main].schema
      /\ d.writes = dbs[Main].writes \union {nextWrite}
  BY <1>1 DEF Database
<1>3. dbs' = [dbs EXCEPT ![Main] = d]
  BY <1>1
<1> HIDE DEF d
<1>4. \A v \in dbs[Main].writes : v \in Nat /\ v < nextWrite
  BY <1>1 DEF VaultInv, Distinct, Exists, Database
<1>5. nextWrite \notin dbs[Main].writes /\ \A v \in d.writes : v < nextWrite'
  BY <1>1, <1>2, <1>4
<1>6. /\ Contents(dbs') = (Contents(dbs) \ {Content(dbs[Main])}) \union {Content(d)}
      /\ Content(d) \in Contents(dbs')
      /\ Distinct(dbs', nextId', nextWrite')
  BY <1>1, <1>2, <1>3, <1>5, ChangedOne DEF VaultInv
<1>7. Content(dbs[Main]) \in Contents(dbs)
  BY <1>1, ContentsOf DEF Exists
<1>8. /\ Content(d).id = Content(dbs[Main]).id /\ Content(d).schema = Content(dbs[Main]).schema
      /\ nextWrite \in Content(d).writes /\ nextWrite \notin Content(dbs[Main]).writes
      /\ Content(d).writes = Content(dbs[Main]).writes \union {nextWrite}
  BY <1>2, <1>5 DEF Content
<1>9. QED
  BY <1>1, <1>6, <1>7, <1>8, VaultStores

LEMMA RemoveVault ==
  ASSUME TypeInv, VaultInv, RemoveKept
  PROVE  Vault!Discard /\ Distinct(dbs', nextId', nextWrite')
<1>1. PICK n \in Name \ {Main} : Exists(n) /\ dbs' = [dbs EXCEPT ![n] = None]
  BY DEF RemoveKept
<1>2. dbs'[n] = None /\ \A m \in Name \ {n} : dbs'[m] = dbs[m]
  BY <1>1 DEF TypeInv, TypeOK
<1>3. \A m \in Name \ {n} : dbs[m] # None => Content(dbs[m]) # Content(dbs[n])
  BY <1>1, ContentFields DEF VaultInv, Distinct, Exists
<1>4. Contents(dbs') = Contents(dbs) \ {Content(dbs[n])}
  BY <1>1, <1>2, <1>3 DEF Contents, Exists
<1>5. Distinct(dbs', nextId', nextWrite')
  BY <1>2, Fewer DEF RemoveKept, VaultInv, bounds
<1>6. acked' \subseteq acked /\ acked' \subseteq Stored'
  BY DEF RemoveKept
<1>7. ASSUME NEW w \in acked' PROVE \E d \in Contents(dbs') : w \in d.writes
  <2>1. PICK m \in Name : dbs'[m] # None /\ w \in dbs'[m].writes
    BY <1>6 DEF Stored, Lasting, Exists
  <2>2. Content(dbs'[m]) \in Contents(dbs') /\ w \in Content(dbs'[m]).writes
    BY <2>1, ContentsOf DEF Content
  <2>3. QED
    BY <2>2
<1>8. acked' \subseteq Vault!Held(Contents(dbs'))
  BY <1>7 DEF Vault!Held
<1>9. Content(dbs[n]) \in Contents(dbs)
  BY <1>1, ContentsOf DEF Exists
<1>10. QED
  BY <1>4, <1>5, <1>6, <1>8, <1>9, VaultDiscards

-----------------------------------------------------------------------------
(* SENTIENT stays down, and the copy exact, until the migration. *)

LEMMA StaysUntouched ==
  ASSUME VaultInv, pc \in Untouched, meddled = {}, SameContents, UNCHANGED <<service, snapshot>>,
         snapshot \in Name
  PROVE  service' = "down" /\ SameContent(dbs'[Main], dbs'[snapshot'])
<1>1. /\ dbs[Main] # None /\ dbs[snapshot] # None
      /\ dbs[Main].schema = dbs[snapshot].schema /\ dbs[Main].writes = dbs[snapshot].writes
  BY DEF VaultInv, SameContent
<1>2. /\ dbs'[Main] # None /\ Content(dbs'[Main]) = Content(dbs[Main])
      /\ dbs'[snapshot] # None /\ Content(dbs'[snapshot]) = Content(dbs[snapshot])
  BY <1>1, NameFacts DEF SameContents
<1>3. QED
  BY <1>1, <1>2, ContentFields DEF VaultInv, SameContent

LEMMA UntouchedStep ==
  ASSUME TypeInv, SnapshotInv, VaultInv, [Next]_vars, pc' \in Untouched, meddled' = {}
  PROVE  service' = "down" /\ SameContent(dbs'[Main], dbs'[snapshot'])
<1>0. snapshot \in Name /\ Main \in Name
  BY NameFacts DEF TypeInv, TypeOK
<1>1. CASE CopyDatabase
  BY <1>0, <1>1, SnapshotTaken DEF CopyDatabase, Goto, locals, ghosts, bounds, Untouched,
     SnapshotInv, Copying, Faithful, SameContent, TypeInv, DatabasesThere, Holding, TypeOK
<1>2. CASE Open("open", Main, "clear")
  BY <1>0, <1>2, Moves, StaysUntouched DEF Open, locals, bounds, Untouched
<1>3. CASE ClearBack \/ CopyTree \/ MoveItems("setaside", "live", "back", FALSE, "install", "u_stop")
  BY <1>0, <1>3, Unchanged, StaysUntouched DEF ClearBack, databases, locals, bounds, Untouched,
     CopyTree, MoveItems
<1>4. CASE \/ StopServer("stop", "dryrun") \/ StartService("abort", "aborting")
           \/ LastCheck("aborting", "refused") \/ Close("close", aside, "copy", "abort")
           \/ StartService("start", "check") \/ Check("check", "prune", "u_stop")
  <2>1. pc' \in {"dryrun", "idle", "aborting", "copy", "abort", "check", "prune", "u_stop"}
    BY <1>4, Leaves
  <2>2. QED
    BY <2>1 DEF Untouched
<1>5. CASE DryRun \/ RunUpgrade \/ DropOlder \/ WriteMarker
  BY <1>5 DEF DryRun, RunUpgrade, DropOlder, WriteMarker, Goto, Return, Untouched
<1>6. CASE UndoUpdateStep
  <2>1. pc' \in {"u_files", "u_close", "u_aside", "u_open", "u_put", "u_start", "u_check", "idle"}
    BY <1>6, Leaves DEF UndoUpdateStep
  <2>2. QED
    BY <2>1 DEF Untouched
<1>7. CASE RollbackStep \/ UndoRollbackStep
  BY <1>7, RollbackUnwatched DEF Untouched, Holding, Updating
<1>8. CASE BeginUpdate \/ BeginRollback \/ Crash
  BY <1>8 DEF BeginUpdate, BeginRollback, Crash, Goto, Return, Untouched
<1>12. CASE ControlStart \/ RemoveKept
  BY <1>12 DEF ControlStart, RemoveKept, Meddle, Untouched
<1>9. CASE Write
  BY <1>9 DEF Write, VaultInv
<1>10. CASE Tick \/ UNCHANGED vars
  BY <1>0, <1>10, Unchanged, StaysUntouched DEF Tick, vars, databases, locals, bounds
<1>11. QED
  BY <1>1, <1>2, <1>3, <1>4, <1>5, <1>6, <1>7, <1>8, <1>9, <1>10, <1>12 DEF Next, SafeUpdateStep

LEMMA VaultStep ==
  TypeInv /\ SnapshotInv /\ WritesInv /\ VaultInv /\ [Next]_vars =>
    VaultInv' /\ [Vault!Next]_<<{Content(dbs[n]) : n \in {m \in Name : Exists(m)}}, acked>>
<1> SUFFICES ASSUME TypeInv, SnapshotInv, WritesInv, VaultInv, [Next]_vars
             PROVE  VaultInv' /\ [Vault!Next]_<<Contents(dbs), acked>>
  BY DEF Contents, Exists
<1>1. ASSUME Distinct(dbs', nextId', nextWrite'), Vault!Next \/ UNCHANGED <<Contents(dbs), acked>>
      PROVE  VaultInv' /\ [Vault!Next]_<<Contents(dbs), acked>>
  BY <1>1, UntouchedStep DEF VaultInv
<1>2. ASSUME Quietly
      PROVE  Distinct(dbs', nextId', nextWrite') /\ UNCHANGED <<Contents(dbs), acked>>
  BY <1>2, QuietlySame DEF VaultInv
<1>3. CASE CopyDatabase
  BY <1>1, <1>2, <1>3, CopyVault DEF Vault!Next
<1>4. CASE RunUpgrade
  BY <1>1, <1>2, <1>4, UpgradeVault DEF Vault!Next
<1>5. CASE DropOlder
  BY <1>1, <1>5, PruneVault DEF Vault!Next
<1>6. CASE Write
  BY <1>1, <1>6, WriteVault DEF Vault!Next
<1>7. CASE RemoveKept
  BY <1>1, <1>7, RemoveVault DEF Vault!Next
<1>8. CASE UNCHANGED vars
  BY <1>1, <1>2, <1>8, Still DEF vars, databases, ghosts, bounds
<1>9. CASE \/ SafeUpdateStep /\ ~CopyDatabase /\ ~RunUpgrade /\ ~DropOlder
           \/ UndoUpdateStep \/ RollbackStep \/ UndoRollbackStep
           \/ BeginUpdate \/ BeginRollback \/ Tick \/ ControlStart \/ Crash
  <2>1. Quietly
    BY <1>9, UpdateQuiet, UndoQuiet, RollbackQuiet, UndoRollbackQuiet, AroundQuiet
  <2>2. QED
    BY <1>1, <1>2, <2>1
<1>10. QED
  BY <1>3, <1>4, <1>5, <1>6, <1>7, <1>8, <1>9 DEF Next

LEMMA VaultStarts == Init => VaultInv /\ Vault!Init
<1> SUFFICES ASSUME Init PROVE VaultInv /\ Vault!Init
  OBVIOUS
<1> DEFINE d == [id |-> 0, schema |-> Installed, writes |-> {}, open |-> TRUE]
<1>1. /\ Main \in Name /\ dbs[Main] = d /\ \A n \in Name \ {Main} : dbs[n] = None
      /\ nextId = 1 /\ acked = {} /\ pc = "idle"
  BY NameFacts DEF Init
<1>2. d.id = 0 /\ d.writes = {} /\ Content(d) = [id |-> 0, schema |-> Installed, writes |-> {}]
  BY DEF Content
<1>3. d # None
  <2>1. d \in Database
    BY SafeUpdateAssumption DEF Database
  <2>2. QED
    BY <2>1, DatabaseKinds
<1> HIDE DEF d
<1>4. VaultInv
  BY <1>1, <1>2 DEF VaultInv, Distinct, Untouched
<1>5. {Content(dbs[n]) : n \in {m \in Name : Exists(m)}} = {Content(d)}
  BY <1>1, <1>3 DEF Exists
<1>6. Vault!Init
  BY <1>1, <1>2, <1>5, SafeUpdateAssumption DEF Vault!Init
<1>7. QED
  BY <1>4, <1>6

(* Every step of an update, of a rollback, of their undo and of what goes  *)
(* on around them is one the vault allows or none at all: no database is   *)
(* migrated without an exact copy beside it, unless the operator started   *)
(* SENTIENT or removed a copy in the course of the job, and even then none *)
(* is dropped by a job whose writes are not in another.                    *)
THEOREM KeepsTheVault == Spec => ImplementsVault
<1>1. Spec => []TypeInv /\ []SnapshotInv /\ []WritesInv
  BY Invariant, SnapshotInit, SnapshotStep, WritesInit, WritesStep, PTL DEF Spec
<1>2. QED
  BY <1>1, VaultStarts, VaultStep, PTL DEF Spec, ImplementsVault, Vault!Spec


----------------------------------------------------------------------------
(* Each job meets at most one failure and is not killed; jobs begin in     *)
(* different minutes, which the names they keep things under consist of;   *)
(* the operator removes no database in the course of one, though SENTIENT  *)
(* may be started then; and the two calls work whose failure the code does *)
(* not undo: removing the earlier previous-version, and moving an item to  *)
(* rolled-back-version.                                                    *)
OneFailure ==
  /\ MaxFaults <= 1 /\ MaxCrashes = 0 /\ ~SameMinute
  /\ MayFail \cap {"clear", "r_aside"} = {}
  /\ "remove" \notin Meddles

-----------------------------------------------------------------------------
(* The parts of the invariant. *)

(* An item is in one of two directories and not in the other. *)
Moving(from, to, tree) ==
  \A k \in Items :
    \/ dirs[from][k] = tree[k] /\ dirs[to][k] = Absent
    \/ dirs[from][k] = Absent /\ dirs[to][k] = tree[k]

(* The job has met its failure, or the database lets connections in. *)
Reachable(n) == faults > 0 => dbs[n].open

(* The schema a database is on. *)
On(n, schema) == Exists(n) /\ dbs[n].schema = schema

(* The database rollback replaces, and the one it puts in its place. *)
Kept(n) == Exists(n) /\ dbs[n].id = pre.main.id /\ dbs[n].schema = pre.main.schema
Restorable(n) == Matches(pre.back, dbs[n])

(* No update or rollback of this minute has kept a database. *)
Fresh == \A n \in Name \ Before : Exists(n) => n[2] < minute

(* Whatever rollback would choose fits the previous version. *)
PointHolds(tree, others) ==
  \A n \in others : (marker \in {n, None} /\ Exists(n)) => Matches(tree, dbs[n])
Point == dirs.back[Bin] # Absent => PointHolds(dirs.back, Before)

(* Nothing is named after a minute to come; a copy from before an update   *)
(* lets connections in, but for a moment of an undone rollback.            *)
Names ==
  /\ \A n \in Name : Exists(n) => n[2] <= minute
  /\ snapshot[2] <= minute /\ aside[2] <= minute
  /\ marker \in Before \union {None}
  /\ \A n \in Before : Exists(n) /\ ~(pc = "b_open" /\ n = snapshot) => dbs[n].open
Limits == faults \in {0, 1} /\ crashes = 0

(* The update, before it touches the files ... *)
Prepared ==
  /\ dirs.live = pre.live /\ Matches(pre.live, pre.main)
  /\ On(Main, pre.main.schema) /\ Fresh

(* ... while the files of the version in use go to previous-version ... *)
SettingAside ==
  /\ Moving("live", "back", pre.live) /\ Matches(pre.live, pre.main)
  /\ On(Main, pre.main.schema) /\ Fresh /\ Reachable(Main)
  /\ marker = None /\ snapshot \in Before

(* ... while the package's take their place ... *)
Installing ==
  /\ dirs.back = pre.live /\ Matches(pre.live, pre.main)
  /\ On(Main, pre.main.schema) /\ Fresh /\ Reachable(Main)
  /\ \A k \in Items : dirs.live[k] \in {Absent, pkg}
  /\ marker = None /\ snapshot \in Before
ReadyToMigrate == Installing /\ ToInstall = {}

(* ... and once the database is on its schema. *)
Migrated ==
  /\ dirs.back = pre.live /\ Matches(pre.live, pre.main) /\ Fresh
  /\ \A k \in Ships[pkg] : dirs.live[k] = pkg
  /\ On(Main, pkg) /\ marker = None /\ snapshot \in Before
Alone == faults > 0 => \A n \in Before \ {snapshot} : ~Exists(n)

(* The undo of an update: the files ... *)
UndoingTheFiles ==
  /\ faults = 0 /\ marker = None /\ Fresh
  /\ Matches(pre.live, pre.main) /\ Exists(Main)
  /\ \A k \in Items : \/ dirs.back[k] = pre.live[k]
                      \/ dirs.back[k] = Absent /\ dirs.live[k] = pre.live[k]
FilesUndone ==
  /\ Matches(pre.live, pre.main) /\ dirs.back = Empty
  /\ \A k \in Items : pre.live[k] # Absent => dirs.live[k] = pre.live[k]

(* ... and the database. *)
DatabaseUndone ==
  /\ On(Main, pre.main.schema)
  /\ pre.main.writes \subseteq dbs[Main].writes

(* A rollback: everything is in its place when it begins. *)
Chosen == snapshot \in Before /\ (marker = None \/ marker = snapshot) /\ ~undoDb
Others == marker = None => PointHolds(pre.back, Before \ {snapshot})
RollbackBegins ==
  /\ Chosen /\ Others /\ Matches(pre.live, pre.main) /\ Kept(Main) /\ Restorable(snapshot)

(* The files of both versions as it goes on ... *)
SavingCurrent ==
  /\ dirs.back = pre.back
  /\ \A k \in Items : \/ dirs.live[k] = pre.live[k]
                      \/ dirs.live[k] = Absent /\ dirs.current[k] = pre.live[k]
  /\ faults > 0 => Moving("live", "current", pre.live)
PuttingPrevious ==
  Moving("back", "live", pre.back) /\ (faults > 0 => dirs.current = pre.live)
PreviousThere ==
  /\ dirs.back = Empty /\ dirs.live = pre.back
  /\ faults > 0 => dirs.current = pre.live

(* ... and the databases. *)
Renamed == ~Exists(Main) /\ Kept(aside) /\ Restorable(snapshot)
Switched ==
  /\ Restorable(Main) /\ Kept(aside) /\ ~Exists(snapshot)

(* The undo of a rollback. *)
Undoing == faults = 0 /\ snapshot \in Before /\ (marker = None \/ marker = snapshot) /\ Others
           /\ Matches(pre.live, pre.main)
           /\ aside[1] = "rolled"
UndoStart ==
  /\ Moving("back", "live", pre.back) /\ dirs.current = pre.live
BothBack == dirs.live = pre.live /\ dirs.back = pre.back
ToUndo == IF undoDb THEN Switched ELSE Kept(Main) /\ Restorable(snapshot)

(* What holds when no job runs. *)
AtRest ==
  /\ Coherent /\ Point
  /\ last = "undone" => FilesUndone /\ DatabaseUndone
  /\ last = "rollbackundone" => BothBack /\ Kept(Main)

AtUpdate ==
  /\ pc = "idle" => AtRest
  /\ pc = "stop" => Coherent /\ Point /\ Fresh
  /\ pc \in {"dryrun", "abort", "aborting"} => Prepared /\ Point
  /\ pc \in {"close", "copy"} => Prepared /\ Point /\ snapshot \in Before
  /\ pc = "open" => Prepared /\ snapshot \in Before
  /\ pc = "clear" => Prepared /\ snapshot \in Before /\ Reachable(Main)
  /\ pc = "setaside" => SettingAside
  /\ pc = "install" => Installing
  /\ pc = "upgrade" => ReadyToMigrate
  /\ pc \in {"start", "check"} => Migrated /\ Reachable(Main)
  /\ pc = "prune" => Migrated
  /\ pc = "note" => Migrated /\ Alone
AtUndoUpdate ==
  /\ pc \in {"u_stop", "u_files"} => UndoingTheFiles
  /\ pc \in {"u_close", "u_aside", "u_open", "u_put", "u_start", "u_check"} =>
       FilesUndone /\ faults = 0 /\ marker = None
  /\ pc = "u_close" => Exists(Main) /\ Fresh
  /\ pc = "u_aside" => Exists(Main) /\ ~Exists(aside) /\ aside[1] = "failed"
  /\ pc \in {"u_open", "u_put"} => ~Exists(Main) /\ aside[1] = "failed"
  /\ pc \in {"u_start", "u_check"} => DatabaseUndone
AtRollback ==
  /\ pc = "r_stop" => Chosen /\ Coherent /\ Exists(snapshot) /\ Fresh
                      /\ PointHolds(dirs.back, Before)
  /\ pc \in {"r_clear", "r_aside", "r_files", "r_close", "r_dbaside"} => RollbackBegins
  /\ pc = "r_clear" => BothBack /\ Fresh
  /\ pc \in {"r_aside", "r_files", "r_close", "r_dbaside"} => aside[1] = "rolled" /\ ~Exists(aside)
  /\ pc = "r_aside" => SavingCurrent
  /\ pc = "r_files" => PuttingPrevious
  /\ pc \in {"r_close", "r_dbaside", "r_open", "r_put", "r_start", "r_check", "r_clean"} => PreviousThere
  /\ pc \in {"r_open", "r_put", "r_start", "r_check", "r_clean"} =>
       Chosen /\ Others /\ Matches(pre.live, pre.main) /\ aside[1] = "rolled"
  /\ pc \in {"r_open", "r_put"} => Renamed
  /\ pc \in {"r_start", "r_check", "r_clean"} => Switched /\ dbs[Main].open
AtUndoRollback ==
  /\ pc \in {"r_probe", "b_stop", "b_back", "b_files", "b_db", "b_close", "b_dbaside",
             "b_open", "b_put", "b_start", "b_check"} => Undoing
  /\ pc \in {"r_probe", "b_stop", "b_back"} => UndoStart
  /\ pc = "r_probe" => (Kept(Main) /\ ~Exists(aside) /\ Restorable(snapshot)) \/ Renamed
  /\ pc \in {"b_stop", "b_back", "b_files", "b_db"} => ToUndo
  /\ pc = "b_files" => Moving("current", "live", pre.live) /\ dirs.back = pre.back
  /\ pc \in {"b_db", "b_close", "b_dbaside", "b_open", "b_put", "b_start", "b_check"} => BothBack
  /\ pc \in {"b_close", "b_dbaside"} => Switched
  /\ pc \in {"b_open", "b_put"} => Renamed
  /\ pc \in {"b_start", "b_check"} => Kept(Main) /\ Restorable(snapshot)

UndoInv == Names /\ Limits /\ AtUpdate /\ AtUndoUpdate /\ AtRollback /\ AtUndoRollback

-----------------------------------------------------------------------------
(* Steps that rename, migrate and drop nothing: each database stays where  *)
(* it is and what it is, though it may be opened, closed or written to.    *)

USE SafeUpdateAssumption

SameDatabases ==
  \A n \in Name :
    /\ dbs'[n] # None <=> dbs[n] # None
    /\ dbs[n] # None => /\ dbs'[n].id = dbs[n].id /\ dbs'[n].schema = dbs[n].schema
                        /\ dbs[n].writes \subseteq dbs'[n].writes

LEMMA LetIn ==
  ASSUME TypeInv, NEW n \in Name, Exists(n), NEW o \in BOOLEAN, dbs' = [dbs EXCEPT ![n].open = o]
  PROVE  SameDatabases /\ dbs'[n].open = o /\ \A m \in Name : m # n => dbs'[m] = dbs[m]
<1>1. dbs[n] \in Database
  BY DEF TypeInv, TypeOK, Exists
<1>2. dbs'[n] = [dbs[n] EXCEPT !.open = o] /\ \A m \in Name : m # n => dbs'[m] = dbs[m]
  BY DEF TypeInv, TypeOK
<1>3. [dbs[n] EXCEPT !.open = o] \in Database /\ [dbs[n] EXCEPT !.open = o] # None
  BY <1>1, DatabaseKinds
<1>4. /\ dbs'[n].id = dbs[n].id /\ dbs'[n].schema = dbs[n].schema
      /\ dbs'[n].writes = dbs[n].writes /\ dbs'[n].open = o
  BY <1>1, <1>2 DEF Database
<1>5. QED
  BY <1>2, <1>3, <1>4 DEF SameDatabases, Exists

LEMMA SameExist ==
  ASSUME SameDatabases, NEW n \in Name
  PROVE  Exists(n)' <=> Exists(n)
BY DEF SameDatabases, Exists

LEMMA SameOn ==
  ASSUME SameDatabases, NEW n \in Name, NEW s, On(n, s)
  PROVE  On(n, s)'
BY DEF SameDatabases, On, Exists

LEMMA SameMatches ==
  ASSUME SameDatabases, NEW n \in Name, NEW tree, Matches(tree, dbs[n])
  PROVE  Matches(tree, dbs'[n])
BY DEF SameDatabases, Matches

LEMMA SameKept ==
  ASSUME SameDatabases, UNCHANGED pre, NEW n \in Name
  PROVE  (Kept(n) => Kept(n)') /\ (Restorable(n) => Restorable(n)')
BY DEF SameDatabases, Kept, Restorable, Matches, Exists

LEMMA SamePoint ==
  ASSUME SameDatabases, UNCHANGED marker, NEW tree, NEW others \in SUBSET Name,
         PointHolds(tree, others)
  PROVE  PointHolds(tree, others)'
BY DEF SameDatabases, PointHolds, Matches, Exists

LEMMA SameRest ==
  ASSUME SameDatabases, UNCHANGED <<pre, marker>>, minute \in Nat, minute' \in Nat, minute <= minute'
  PROVE  /\ Fresh => Fresh'
         /\ DatabaseUndone => DatabaseUndone'
         /\ Matches(pre.live, pre.main) => Matches(pre.live, pre.main)'
         /\ UNCHANGED snapshot => (Others => Others')
         /\ UNCHANGED dirs => (Point => Point') /\ (Coherent => Coherent')
                              /\ (PointHolds(dirs.back, Before) => PointHolds(dirs.back, Before)')
<1>1. Fresh => Fresh'
  BY SMTT(60) DEF Fresh, SameDatabases, Exists, Name, Before
<1>2. DatabaseUndone => DatabaseUndone'
  BY NameFacts DEF DatabaseUndone, On, SameDatabases, Exists
<1>3. Matches(pre.live, pre.main) => Matches(pre.live, pre.main)'
  BY DEF Matches
<1>4. UNCHANGED snapshot => (Others => Others')
  BY NameFacts DEF Others, PointHolds, SameDatabases, Matches, Exists
<1>5. UNCHANGED dirs => (Point => Point')
  BY NameFacts DEF Point, PointHolds, SameDatabases, Matches, Exists
<1>6. UNCHANGED dirs => (Coherent => Coherent')
  BY NameFacts DEF Coherent, SameDatabases, Matches
<1>7. UNCHANGED dirs => (PointHolds(dirs.back, Before) => PointHolds(dirs.back, Before)')
  BY NameFacts DEF PointHolds, SameDatabases, Matches, Exists
<1>8. QED
  BY <1>1, <1>2, <1>3, <1>4, <1>5, <1>6, <1>7

(* What is said of the files alone, or of the databases alone, does not    *)
(* change with the rest.                                                   *)
LEMMA SameFiles ==
  ASSUME UNCHANGED <<dirs, pre>>, faults \in Nat, faults' \in Nat, faults' <= faults
  PROVE  /\ Moving("live", "back", pre.live) => Moving("live", "back", pre.live)'
         /\ SavingCurrent => SavingCurrent'
         /\ PuttingPrevious => PuttingPrevious'
         /\ PreviousThere => PreviousThere'
         /\ UndoStart => UndoStart'
         /\ Moving("current", "live", pre.live) => Moving("current", "live", pre.live)'
         /\ BothBack => BothBack'
BY DEF Moving, SavingCurrent, PuttingPrevious, PreviousThere, UndoStart, BothBack, Empty

LEMMA SameChosen ==
  ASSUME UNCHANGED <<marker, snapshot, undoDb>>
  PROVE  Chosen => Chosen'
BY DEF Chosen

(* What a step does to the clock and to what the names say. *)
LEMMA NamesKept ==
  ASSUME TypeInv, TypeInv', Names, SameDatabases, minute <= minute',
         UNCHANGED <<marker, snapshot>>, UNCHANGED aside \/ aside'[2] <= minute',
         \A n \in Before : Exists(n) => \/ dbs'[n].open = dbs[n].open
                                        \/ dbs'[n].open,
         pc = "b_open" => dbs'[snapshot].open \/ pc' = "b_open"
  PROVE  Names'
<1>1. minute \in Nat /\ minute' \in Nat /\ Before \subseteq Name
  BY NameFacts DEF TypeInv, TypeOK
<1>2. \A n \in Name : Exists(n)' => n[2] <= minute'
  <2> SUFFICES ASSUME NEW n \in Name, Exists(n)' PROVE n[2] <= minute'
    OBVIOUS
  <2>1. Exists(n) /\ n[2] \in Nat
    BY SameExist DEF Name
  <2>2. QED
    BY <1>1, <2>1 DEF Names
<1>3. snapshot'[2] <= minute' /\ aside'[2] <= minute'
  BY <1>1 DEF TypeInv, TypeOK, Name, Names
<1>4. \A n \in Before : Exists(n)' /\ ~(pc' = "b_open" /\ n = snapshot') => dbs'[n].open
  BY <1>1, SameExist DEF Names
<1>5. QED
  BY <1>2, <1>3, <1>4 DEF Names

LEMMA LimitsKept ==
  ASSUME OneFailure, TypeInv, TypeInv', Limits, crashes' = crashes,
         UNCHANGED faults \/ (faults > 0 /\ faults' = faults - 1) \/ faults' = MaxFaults
  PROVE  Limits' 
BY DEF OneFailure, Limits, TypeInv, TypeOK

-----------------------------------------------------------------------------
(* Steps that leave files and databases as they are: a service is stopped, *)
(* started or looked at, SENTIENT writes, time passes.                     *)
Calm ==
  /\ SameDatabases
  /\ \A n \in Name : Exists(n) => dbs'[n].open = dbs[n].open
  /\ UNCHANGED <<dirs, marker, pkg, snapshot, aside, pre, crashes>>
  /\ minute <= minute'
  /\ faults' = faults \/ (faults > 0 /\ faults' = faults - 1)

LEMMA CalmSame ==
  ASSUME UNCHANGED <<dirs, marker, dbs, minute, pkg, snapshot, aside, pre, crashes>>, TypeInv,
         faults' = faults \/ (faults > 0 /\ faults' = faults - 1)
  PROVE  Calm
BY DEF Calm, SameDatabases, TypeInv, TypeOK

LEMMA CalmFaults ==
  ASSUME TypeInv, TypeInv', Calm
  PROVE  /\ faults \in Nat /\ faults' \in Nat /\ faults' <= faults
         /\ minute \in Nat /\ minute' \in Nat /\ minute <= minute'
         /\ Main \in Name /\ snapshot \in Name /\ aside \in Name
BY NameFacts DEF Calm, TypeInv, TypeOK

LEMMA CalmParts ==
  ASSUME TypeInv, TypeInv', Calm
  PROVE  /\ Fresh => Fresh'
         /\ Point => Point'
         /\ Coherent => Coherent'
         /\ PointHolds(dirs.back, Before) => PointHolds(dirs.back, Before)'
         /\ Others => Others'
         /\ DatabaseUndone => DatabaseUndone'
         /\ Matches(pre.live, pre.main) => Matches(pre.live, pre.main)'
         /\ Kept(Main) => Kept(Main)'
         /\ Kept(aside) => Kept(aside)'
         /\ Restorable(snapshot) => Restorable(snapshot)'
         /\ Restorable(Main) => Restorable(Main)'
         /\ Exists(Main)' <=> Exists(Main)
         /\ Exists(aside)' <=> Exists(aside)
         /\ Exists(snapshot)' <=> Exists(snapshot)
         /\ On(Main, pkg) => On(Main, pkg)'
         /\ On(Main, pre.main.schema) => On(Main, pre.main.schema)'
<1> USE CalmFaults
<1>1. SameDatabases /\ UNCHANGED <<dirs, marker, pkg, snapshot, aside, pre>>
  BY DEF Calm
<1>2. /\ Fresh => Fresh'
      /\ Point => Point'
      /\ Coherent => Coherent'
      /\ PointHolds(dirs.back, Before) => PointHolds(dirs.back, Before)'
      /\ Others => Others'
      /\ DatabaseUndone => DatabaseUndone'
      /\ Matches(pre.live, pre.main) => Matches(pre.live, pre.main)'
  BY <1>1, SameRest
<1>3. /\ Kept(Main) => Kept(Main)'
      /\ Restorable(Main) => Restorable(Main)'
      /\ Exists(Main)' <=> Exists(Main)
  BY <1>1, SameKept, SameExist
<1>4. /\ Kept(aside) => Kept(aside)'
      /\ Exists(aside)' <=> Exists(aside)
  BY <1>1 DEF Kept, SameDatabases, Exists
<1>5. /\ Restorable(snapshot) => Restorable(snapshot)'
      /\ Exists(snapshot)' <=> Exists(snapshot)
  BY <1>1 DEF Restorable, Matches, SameDatabases, Exists
<1>6. /\ On(Main, pkg) => On(Main, pkg)'
      /\ On(Main, pre.main.schema) => On(Main, pre.main.schema)'
  BY <1>1 DEF On, SameDatabases, Exists
<1>7. QED
  BY <1>2, <1>3, <1>4, <1>5, <1>6

LEMMA CalmUpdate ==
  ASSUME TypeInv, TypeInv', Calm
  PROVE  /\ Prepared => Prepared'
         /\ On(Main, pre.main.schema) /\ Reachable(Main) => Reachable(Main)'
         /\ SettingAside => SettingAside'
         /\ Installing => Installing'
         /\ ReadyToMigrate => ReadyToMigrate'
         /\ Migrated => Migrated'
         /\ On(Main, pkg) /\ Reachable(Main) => Reachable(Main)'
         /\ Alone => Alone'
         /\ faults = 0 => faults' = 0
         /\ UndoingTheFiles => UndoingTheFiles'
         /\ FilesUndone => FilesUndone'
<1>1. UNCHANGED <<dirs, marker, pkg, snapshot, aside, pre>>
  BY DEF Calm
<1>2. Exists(Main) /\ Reachable(Main) => Reachable(Main)'
  BY CalmFaults DEF Reachable, Calm
<1>3. Alone => Alone'
  BY CalmFaults, SameExist, NameFacts DEF Alone, Calm
<1>4. Prepared => Prepared'
  BY <1>1, CalmParts DEF Prepared
<1>5. Moving("live", "back", pre.live) => Moving("live", "back", pre.live)'
  BY <1>1 DEF Moving
<1>6. SettingAside => SettingAside'
  BY <1>1, <1>2, <1>5, CalmParts DEF SettingAside, On
<1>7. Installing => Installing'
  BY <1>1, <1>2, CalmParts DEF Installing, On
<1>8. ReadyToMigrate => ReadyToMigrate'
  BY <1>1, <1>7 DEF ReadyToMigrate, ToInstall
<1>9. Migrated => Migrated'
  BY <1>1, CalmParts DEF Migrated
<1>10. faults = 0 => faults' = 0
  BY CalmFaults
<1>11. UndoingTheFiles => UndoingTheFiles'
  BY <1>1, <1>10, CalmParts DEF UndoingTheFiles
<1>12. FilesUndone => FilesUndone'
  BY <1>1, CalmParts DEF FilesUndone, Empty
<1>13. QED
  BY <1>2, <1>3, <1>4, <1>6, <1>7, <1>8, <1>9, <1>10, <1>11, <1>12 DEF On

LEMMA CalmRollback ==
  ASSUME TypeInv, TypeInv', Calm
  PROVE  /\ UNCHANGED undoDb => (Chosen => Chosen') /\ (RollbackBegins => RollbackBegins')
         /\ SavingCurrent => SavingCurrent'
         /\ PuttingPrevious => PuttingPrevious'
         /\ PreviousThere => PreviousThere'
         /\ Renamed => Renamed'
         /\ Switched => Switched'
         /\ Undoing => Undoing'
         /\ UndoStart => UndoStart'
         /\ BothBack => BothBack'
         /\ UNCHANGED undoDb => (ToUndo => ToUndo')
         /\ Moving("current", "live", pre.live) => Moving("current", "live", pre.live)'
<1>1. UNCHANGED <<dirs, marker, pkg, snapshot, aside, pre>>
  BY DEF Calm
<1>2. UNCHANGED undoDb => (Chosen => Chosen') /\ (RollbackBegins => RollbackBegins')
  BY <1>1, CalmParts DEF Chosen, RollbackBegins
<1>3. Renamed => Renamed'
  BY CalmParts DEF Renamed
<1>4. Switched => Switched'
  BY CalmParts DEF Switched
<1>5. Undoing => Undoing'
  BY <1>1, CalmParts, CalmFaults DEF Undoing
<1>6. UNCHANGED undoDb => (ToUndo => ToUndo')
  BY <1>4, CalmParts DEF ToUndo
<1>7. QED
  BY <1>1, <1>2, <1>3, <1>4, <1>5, <1>6, CalmFaults, SameFiles

LEMMA CalmNames ==
  ASSUME OneFailure, TypeInv, TypeInv', Calm, Names, Limits,
         pc = "b_open" => pc' = "b_open"
  PROVE  Names' /\ Limits'
<1>1. \A n \in Before : Exists(n) => dbs'[n].open = dbs[n].open
  BY NameFacts DEF Calm
<1>2. Names'
  BY <1>1, NamesKept DEF Calm
<1>3. Limits'
  BY LimitsKept DEF Calm
<1>4. QED
  BY <1>2, <1>3

(* Such a step of something other than the job changes nothing at all. *)
LEMMA CalmStays ==
  ASSUME OneFailure, TypeInv, TypeInv', UndoInv, Calm, UNCHANGED <<pc, last, undoDb>>
  PROVE  UndoInv'
<1>1. Names' /\ Limits'
  BY CalmNames DEF UndoInv
<1>2. UNCHANGED <<dirs, marker, pkg, snapshot, aside, pre>>
  BY DEF Calm
<1>3. AtRest => AtRest'
  BY CalmParts, CalmUpdate, CalmRollback DEF AtRest
<1>4. AtUpdate'
  BY <1>2, <1>3, CalmParts, CalmUpdate DEF AtUpdate, UndoInv, Migrated, Prepared
<1>5. AtUndoUpdate'
  BY <1>2, CalmParts, CalmUpdate DEF AtUndoUpdate, UndoInv
<1>6. AtRollback'
  BY <1>2, CalmFaults, CalmParts, CalmUpdate, CalmRollback DEF Calm, Switched, Restorable,
     Matches, Exists, AtRollback, UndoInv
<1>7. AtUndoRollback'
  BY <1>2, CalmParts, CalmUpdate, CalmRollback DEF AtUndoRollback, UndoInv
<1>8. QED
  BY <1>1, <1>4, <1>5, <1>6, <1>7 DEF UndoInv

-----------------------------------------------------------------------------
(* The loops over the items. *)

(* Nothing is left to move; one item is moved; one cannot be moved. *)
AllMoved(from) ==
  (\A k \in Items : dirs[from][k] = Absent) /\ UNCHANGED <<dirs, faults>>
OneMoved(from, to) ==
  \E k \in Items :
    /\ dirs[from][k] # Absent
    /\ dirs' = [dirs EXCEPT ![to][k] = dirs[from][k], ![from][k] = Absent]
    /\ UNCHANGED <<pc, faults>>
NotMoved(at, from, to) ==
  \E k \in Items :
    /\ dirs[from][k] # Absent
    /\ \E rest \in Torn(dirs[to][k]) : dirs' = [dirs EXCEPT ![to][k] = rest]
    /\ dirs[to][k] = Absent => Fails(at)

LEMMA MoveEffect ==
  ASSUME TypeInv, NEW at, NEW then, NEW orElse, NEW from \in Dirs, NEW to \in Dirs,
         NEW replace \in BOOLEAN, MoveItems(at, from, to, replace, then, orElse)
  PROVE  /\ UNCHANGED <<marker, dbs, nextId, minute, pkg, snapshot, aside, undoDb, pre, last, crashes>>
         /\ pc = at
         /\ \/ AllMoved(from) /\ pc' = then
            \/ OneMoved(from, to)
            \/ NotMoved(at, from, to) /\ (replace => Fails(at)) /\ pc' = orElse
         /\ UNCHANGED faults \/ (faults > 0 /\ faults' = faults - 1)
<1>1. UNCHANGED <<marker, databases, service, minute, locals, ghosts, bounds>> /\ pc = at
  BY DEF MoveItems
<1>2. CASE Present(from) = {} /\ Goto(then) /\ UNCHANGED <<dirs, faults>>
  BY <1>1, <1>2 DEF Present, Goto, databases, locals, ghosts, bounds, AllMoved
<1>3. ASSUME NEW k \in First(Present(from)),
             dirs' = [dirs EXCEPT ![to][k] = dirs[from][k], ![from][k] = Absent],
             UNCHANGED <<pc, faults>>
      PROVE  OneMoved(from, to)
  BY <1>3 DEF First, Present, OneMoved
<1>4. ASSUME NEW k \in First(Present(from)),
             IF replace \/ dirs[to][k] = Absent THEN Fails(at) ELSE UNCHANGED faults,
             \E rest \in IF replace THEN Torn(dirs[to][k]) ELSE {dirs[to][k]} :
               dirs' = [dirs EXCEPT ![to][k] = rest]
      PROVE  NotMoved(at, from, to) /\ (replace => Fails(at)) /\ (Fails(at) \/ UNCHANGED faults)
  BY <1>4 DEF First, Present, Torn, NotMoved
<1>5. \/ Present(from) = {} /\ Goto(then) /\ UNCHANGED <<dirs, faults>>
      \/ OneMoved(from, to)
      \/ /\ NotMoved(at, from, to) /\ (replace => Fails(at)) /\ (Fails(at) \/ UNCHANGED faults)
         /\ Goto(orElse)
  BY <1>3, <1>4, Zenon DEF MoveItems
<1>6. QED
  BY <1>1, <1>2, <1>5 DEF OneMoved, Goto, Fails, databases, locals, ghosts, bounds

LEMMA MovingStep ==
  ASSUME TypeInv, NEW from \in Dirs, NEW to \in Dirs, from # to, NEW tree,
         Moving(from, to, tree), OneMoved(from, to)
  PROVE  Moving(from, to, tree)'
<1>1. PICK k \in Items :
        /\ dirs[from][k] # Absent
        /\ dirs' = [dirs EXCEPT ![to][k] = dirs[from][k], ![from][k] = Absent]
  BY DEF OneMoved
<1>2. \A j \in Items : /\ dirs'[from][j] = IF j = k THEN Absent ELSE dirs[from][j]
                       /\ dirs'[to][j] = IF j = k THEN dirs[from][j] ELSE dirs[to][j]
  BY <1>1 DEF TypeInv, TypeOK
<1>3. QED
  BY <1>1, <1>2 DEF Moving

LEMMA MovingDone ==
  ASSUME TypeInv, NEW from \in Dirs, NEW to \in Dirs, NEW tree \in [Items -> Tree],
         \A k \in Items : dirs[from][k] = Absent, Moving(from, to, tree)
  PROVE  dirs[from] = Empty /\ dirs[to] = tree
<1>1. dirs[from] \in [Items -> Tree] /\ dirs[to] \in [Items -> Tree] /\ Empty \in [Items -> Tree]
  BY DEF TypeInv, TypeOK, Empty, Tree
<1>2. \A k \in Items : dirs[from][k] = Empty[k] /\ dirs[to][k] = tree[k]
  BY DEF Moving, Empty
<1>3. QED
  BY <1>1, <1>2

LEMMA MovingTorn ==
  ASSUME TypeInv, NEW at, NEW from \in Dirs, NEW to \in Dirs, NEW tree,
         Moving(from, to, tree), NotMoved(at, from, to)
  PROVE  dirs' = dirs /\ Fails(at)
<1>1. PICK k \in Items :
        /\ dirs[from][k] # Absent
        /\ \E rest \in Torn(dirs[to][k]) : dirs' = [dirs EXCEPT ![to][k] = rest]
        /\ dirs[to][k] = Absent => Fails(at)
  BY DEF NotMoved
<1>2. dirs[to][k] = Absent
  BY <1>1 DEF Moving
<1>3. Torn(dirs[to][k]) = {dirs[to][k]}
  BY <1>2 DEF Torn
<1>4. QED
  BY <1>1, <1>2, <1>3 DEF TypeInv, TypeOK

LEMMA MovingBack ==
  ASSUME NEW from, NEW to, NEW tree, Moving(from, to, tree)
  PROVE  Moving(to, from, tree)
BY DEF Moving

LEMMA DirNames == {"live", "back", "current"} = Dirs
BY DEF Dirs

LEMMA OneFault ==
  ASSUME Limits, TypeInv, NEW at, Fails(at)
  PROVE  faults > 0 /\ faults' = faults - 1 /\ faults' = 0 /\ at \in MayFail
BY DEF Limits, Fails, TypeInv, TypeOK

(* A step that moves files leaves the databases and their names alone.     *)
LEMMA FilesOnly ==
  ASSUME OneFailure, TypeInv, TypeInv', UndoInv,
         UNCHANGED <<dbs, marker, minute, snapshot, aside, crashes>>,
         UNCHANGED faults \/ (faults > 0 /\ faults' = faults - 1),
         pc # "b_open"
  PROVE  Names' /\ Limits' /\ SameDatabases
<1>1. SameDatabases
  BY DEF SameDatabases, TypeInv, TypeOK
<1>2. minute <= minute'
  BY DEF TypeInv, TypeOK
<1>3. Names'
  BY <1>1, <1>2, NamesKept DEF UndoInv
<1>4. Limits'
  BY LimitsKept DEF UndoInv
<1>5. QED
  BY <1>1, <1>3, <1>4

-----------------------------------------------------------------------------
(* The steps of an update.  Each goes from what holds at its point to what *)
(* holds at the next.                                                      *)

LEMMA Arrives ==
  ASSUME Names', Limits', AtUpdate', AtUndoUpdate', AtRollback', AtUndoRollback'
  PROVE  UndoInv'
BY DEF UndoInv

LEMMA PreFits ==
  ASSUME TypeInv, Matches(pre.live, pre.main)
  PROVE  /\ pre.main \in Database /\ pre.main.schema \in Versions
         /\ Ships[pre.main.schema] \subseteq Items
         /\ \A k \in Ships[pre.main.schema] : pre.live[k] = pre.main.schema /\ pre.live[k] # Absent
BY DEF Matches, TypeInv, TypeOK, Database

(* A calm step between two points at which the same holds. *)
LEMMA UpdateCalm ==
  ASSUME OneFailure, TypeInv, TypeInv', UndoInv,
         \/ StartService("abort", "aborting")
         \/ LastCheck("aborting", "refused")
         \/ StartService("start", "check")
         \/ Check("check", "prune", "u_stop")
         \/ StopServerAgain("u_stop", "u_files")
         \/ StartService("u_start", "u_check")
         \/ LastCheck("u_check", "undone")
  PROVE  UndoInv'
<1> USE DEF Goto, Return, files, databases, locals, ghosts, bounds
<1>1. ASSUME Calm, pc # "b_open" PROVE Names' /\ Limits'
  BY <1>1, CalmNames DEF UndoInv
<1>2. CASE StartService("abort", "aborting")
  BY <1>1, <1>2, CalmSame, CalmParts, CalmUpdate, Arrives DEF StartService, UndoInv, AtUpdate,
     AtUndoUpdate, AtRollback, AtUndoRollback
<1>3. CASE LastCheck("aborting", "refused")
  BY <1>1, <1>3, CalmSame, CalmParts, CalmUpdate, Arrives DEF LastCheck, ServerStaysUp,
     ServerGoesDown, Fails, UndoInv, AtUpdate, Prepared, Coherent, Matches, On, Exists, AtRest,
     AtUndoUpdate, AtRollback, AtUndoRollback
<1>4. CASE StartService("start", "check")
  BY <1>1, <1>4, CalmSame, CalmParts, CalmUpdate, Arrives DEF StartService, UndoInv, AtUpdate,
     Migrated, AtUndoUpdate, AtRollback, AtUndoRollback
<1>5. CASE Check("check", "prune", "u_stop")
  <2>1. Calm /\ pc = "check"
    BY <1>5, CalmSame DEF Check, ServerStaysUp, ServerGoesDown, Fails
  <2>2. Migrated' /\ Migrated /\ Reachable(Main)
    BY <2>1, CalmParts, CalmUpdate DEF UndoInv, AtUpdate
  <2>3. CASE pc' = "prune"
    BY <1>1, <2>1, <2>2, <2>3, Arrives DEF AtUpdate, AtUndoUpdate, AtRollback, AtUndoRollback
  <2>4. CASE ServerGoesDown("check") /\ pc' = "u_stop"
    BY <1>1, <2>1, <2>2, <2>4, OneFault, Arrives DEF Migrated, Coherent, Matches, On, Exists,
       TypeInv, TypeOK, Bin, Items, Startable, Reachable, ServerGoesDown, UndoInv, Limits,
       UndoingTheFiles, AtUpdate, AtUndoUpdate, AtRollback, AtUndoRollback
  <2>5. QED
    BY <1>5, <2>3, <2>4 DEF Check
<1>6. CASE StopServerAgain("u_stop", "u_files")
  BY <1>1, <1>6, CalmSame, CalmUpdate, Arrives DEF StopServerAgain, Fails, UndoInv, AtUndoUpdate,
     AtUpdate, AtRollback, AtUndoRollback
<1>7. CASE StartService("u_start", "u_check")
  BY <1>1, <1>7, CalmSame, CalmParts, CalmUpdate, Arrives DEF StartService, UndoInv, AtUndoUpdate,
     Calm, AtUpdate, AtRollback, AtUndoRollback
<1>8. CASE LastCheck("u_check", "undone")
  BY <1>1, <1>8, CalmSame, CalmParts, CalmUpdate, PreFits, Arrives DEF LastCheck, ServerStaysUp,
     ServerGoesDown, Fails, UndoInv, AtUndoUpdate, Calm, FilesUndone, Matches, DatabaseUndone,
     Coherent, On, Exists, Point, Empty, Bin, Items, AtRest, AtUpdate, AtRollback, AtUndoRollback
<1>9. QED
  BY <1>2, <1>3, <1>4, <1>5, <1>6, <1>7, <1>8

LEMMA UpdateStops ==
  ASSUME OneFailure, TypeInv, TypeInv', UndoInv, StopServer("stop", "dryrun") \/ DryRun
  PROVE  UndoInv'
<1> USE DEF Goto, Return, files, databases, locals, ghosts, bounds
<1>1. CASE StopServer("stop", "dryrun")
  BY <1>1, FilesOnly, Arrives, CalmSame, CalmNames, CalmParts DEF StopServer, UndoInv, AtUpdate,
     Prepared, Coherent, Matches, On, Exists, Fresh, Point, PointHolds, AtUndoUpdate, AtRollback,
     AtUndoRollback, Fails, AtRest
<1>2. CASE DryRun
  <2>1. /\ pc = "dryrun"
        /\ UNCHANGED <<dirs, marker, dbs, minute, pkg, aside, pre, crashes, faults>>
        /\ \/ snapshot' = <<"before", minute>> /\ pc' = "close"
           \/ snapshot' = snapshot /\ pc' = "abort"
    BY <1>2 DEF DryRun
  <2>2. Prepared /\ Point
    BY <2>1 DEF UndoInv, AtUpdate
  <2>3. Prepared'
    BY <2>1, <2>2 DEF Prepared, Matches, On, Exists, Fresh
  <2>4. Point'
    BY <2>1, <2>2 DEF Point, PointHolds, Exists
  <2>5. minute \in 0..MaxMinute
    BY DEF TypeInv, TypeOK
  <2>6. pc' = "close" => snapshot' \in Before
    BY <2>1, <2>5 DEF Before, Name
  <2>7. snapshot'[2] <= minute'
    BY <2>1, <2>5 DEF UndoInv, Names
  <2>8. Names' /\ Limits'
    BY <2>1, <2>7 DEF UndoInv, Names, Limits, Exists
  <2>9. QED
    BY <2>1, <2>3, <2>4, <2>6, <2>8, Arrives DEF AtUpdate, AtUndoUpdate, AtRollback, AtUndoRollback
<1>3. QED
  BY <1>1, <1>2

(* Connections to the database in use are stopped or let in again. *)
LEMMA Reopens ==
  ASSUME OneFailure, TypeInv, TypeInv', UndoInv,
         \/ UNCHANGED dbs
         \/ Exists(Main) /\ \E o \in BOOLEAN : dbs' = [dbs EXCEPT ![Main].open = o],
         UNCHANGED <<marker, minute, snapshot, crashes>>,
         UNCHANGED aside \/ aside'[2] <= minute',
         UNCHANGED faults \/ (faults > 0 /\ faults' = faults - 1),
         pc # "b_open"
  PROVE  Names' /\ Limits' /\ SameDatabases
<1>1. SameDatabases /\ \A n \in Name : n # Main => dbs'[n] = dbs[n]
  BY NameFacts, LetIn DEF SameDatabases, TypeInv, TypeOK
<1>2. \A n \in Before : dbs'[n] = dbs[n]
  BY <1>1, NameFacts, BeforeIsNotMain
<1>3. minute <= minute'
  BY DEF TypeInv, TypeOK
<1>4. Names'
  BY <1>1, <1>2, <1>3, NamesKept DEF UndoInv
<1>5. QED
  BY <1>1, <1>4, LimitsKept DEF UndoInv

LEMMA PreparedKept ==
  ASSUME TypeInv, TypeInv', SameDatabases, UNCHANGED <<dirs, pre, marker, minute>>
  PROVE  (Prepared => Prepared') /\ (Point => Point')
<1>1. minute \in Nat /\ minute' \in Nat /\ minute <= minute'
  BY DEF TypeInv, TypeOK
<1>2. On(Main, pre.main.schema) => On(Main, pre.main.schema)'
  BY NameFacts DEF SameDatabases, On, Exists
<1>3. QED
  BY <1>1, <1>2, SameRest DEF Prepared

LEMMA UpdateCloses ==
  ASSUME OneFailure, TypeInv, TypeInv', UndoInv,
         Close("close", aside, "copy", "abort") \/ Open("open", Main, "clear")
  PROVE  UndoInv'
<1> USE DEF Goto, Return, files, databases, locals, ghosts, bounds
<1>1. CASE Close("close", aside, "copy", "abort")
  BY <1>1, Reopens, PreparedKept, Arrives DEF Close, Fails, UndoInv, AtUpdate, AtUndoUpdate,
     AtRollback, AtUndoRollback
<1>2. CASE Open("open", Main, "clear")
  <2>1. /\ pc = "open" /\ pc' = "clear"
        /\ UNCHANGED <<dirs, marker, minute, pkg, snapshot, aside, pre, crashes>>
        /\ \/ dbs' = [dbs EXCEPT ![Main].open = TRUE] /\ UNCHANGED faults
           \/ UNCHANGED dbs /\ Fails("open")
           \/ ~Exists(Main) /\ UNCHANGED dbs /\ UNCHANGED faults
    BY <1>2 DEF Open
  <2>2. Prepared /\ snapshot \in Before
    BY <2>1 DEF UndoInv, AtUpdate
  <2>3. Exists(Main)
    BY <2>2 DEF Prepared, On
  <2>4. UNCHANGED faults \/ (faults > 0 /\ faults' = faults - 1)
    BY <2>1 DEF Fails
  <2>5. Names' /\ Limits' /\ SameDatabases
    BY <2>1, <2>3, <2>4, Reopens
  <2>6. Prepared' /\ snapshot' \in Before
    BY <2>1, <2>2, <2>5, PreparedKept
  <2>7. Reachable(Main)'
    <3>1. CASE dbs' = [dbs EXCEPT ![Main].open = TRUE]
      BY <2>3, <3>1, NameFacts, LetIn DEF Reachable
    <3>2. CASE Fails("open")
      BY <3>2, OneFault DEF Reachable, UndoInv
    <3>3. QED
      BY <2>1, <2>3, <3>1, <3>2
  <2>8. QED
    BY <2>1, <2>5, <2>6, <2>7, Arrives DEF AtUpdate, AtUndoUpdate, AtRollback, AtUndoRollback
<1>3. QED
  BY <1>1, <1>2

LEMMA UpdateCopies ==
  ASSUME OneFailure, TypeInv, TypeInv', UndoInv, CopyDatabase
  PROVE  UndoInv'
<1> USE DEF Goto, Return, files, databases, locals, ghosts, bounds
<1>1. /\ pc = "copy"
      /\ UNCHANGED <<dirs, marker, minute, pkg, snapshot, aside, pre, crashes>>
  BY DEF CopyDatabase
<1>2. Prepared /\ Point /\ snapshot \in Before /\ Exists(Main)
  BY <1>1 DEF UndoInv, AtUpdate, Prepared, On
<1>3. CASE /\ dbs' = [dbs EXCEPT ![snapshot] = [dbs[Main] EXCEPT !.id = nextId, !.open = TRUE]]
           /\ ~Exists(snapshot) /\ pc' = "open" /\ UNCHANGED faults
  <2>1. [dbs[Main] EXCEPT !.id = nextId, !.open = TRUE] \in Database
    BY <1>2, NameFacts, DatabaseKinds DEF TypeInv, TypeOK, Exists
  <2>2. /\ dbs'[snapshot] # None /\ dbs'[snapshot].open
        /\ \A n \in Name : n # snapshot => dbs'[n] = dbs[n]
    <3>1. dbs'[snapshot] = [dbs[Main] EXCEPT !.id = nextId, !.open = TRUE]
      BY <1>3 DEF TypeInv, TypeOK
    <3>2. dbs[Main] \in Database
      BY <1>2, NameFacts DEF TypeInv, TypeOK, Exists
    <3>3. dbs'[snapshot].open
      BY <3>1, <3>2 DEF Database
    <3>4. \A n \in Name : n # snapshot => dbs'[n] = dbs[n]
      BY <1>3 DEF TypeInv, TypeOK
    <3>5. QED
      BY <2>1, <3>1, <3>3, <3>4, DatabaseKinds
  <2>3. Main # snapshot /\ Main \in Name
    BY <1>2, NameFacts, BeforeIsNotMain
  <2>4. Prepared'
    BY <1>1, <1>2, <2>2, <2>3 DEF Prepared, On, Exists, Fresh, Matches
  <2>5. Names' /\ Limits'
    BY <1>1, <1>3, <2>2 DEF UndoInv, Names, Limits, Exists
  <2>6. QED
    BY <1>1, <1>2, <1>3, <2>4, <2>5, Arrives DEF AtUpdate, AtUndoUpdate, AtRollback, AtUndoRollback
<1>4. CASE /\ dbs' \in Reopened(Exists(snapshot)) /\ pc' = "abort"
           /\ IF Exists(snapshot) THEN UNCHANGED faults ELSE Fails("copy")
  BY <1>1, <1>2, <1>4, Reopens, PreparedKept, Arrives DEF Reopened, Fails, AtUpdate, AtUndoUpdate,
     AtRollback, AtUndoRollback
<1>5. QED
  BY <1>3, <1>4 DEF CopyDatabase

LEMMA UpdateClears ==
  ASSUME OneFailure, TypeInv, TypeInv', UndoInv, ClearBack
  PROVE  UndoInv'
<1> USE DEF Goto, Return, files, databases, locals, ghosts, bounds
<1>1. pc = "clear" /\ UNCHANGED <<dbs, minute, pkg, snapshot, aside, pre, crashes>>
  BY DEF ClearBack
<1>2. "clear" \notin MayFail
  BY DEF OneFailure
<1>3. /\ dirs' = [dirs EXCEPT !.back = Empty] /\ marker' = None
      /\ pc' = "setaside" /\ UNCHANGED faults
  BY <1>2 DEF ClearBack, Fails
<1>4. Prepared /\ snapshot \in Before /\ Reachable(Main)
  BY <1>1 DEF UndoInv, AtUpdate
<1>5. dirs'.back = Empty /\ dirs'.live = dirs.live
  BY <1>3, DirNames DEF TypeInv, TypeOK
<1>6. Moving("live", "back", pre.live)'
  BY <1>1, <1>4, <1>5 DEF Moving, Prepared, Empty
<1>7. SettingAside'
  BY <1>1, <1>3, <1>4, <1>6 DEF Prepared, SettingAside, Matches, On, Exists, Fresh, Reachable
<1>8. Names' /\ Limits'
  BY <1>1, <1>3 DEF UndoInv, Names, Limits, Exists
<1>9. QED
  BY <1>3, <1>7, <1>8, Arrives DEF AtUpdate, AtUndoUpdate, AtRollback, AtUndoRollback

LEMMA UpdateSetsAside ==
  ASSUME OneFailure, TypeInv, TypeInv', UndoInv,
         MoveItems("setaside", "live", "back", FALSE, "install", "u_stop")
  PROVE  UndoInv'
<1>1. /\ UNCHANGED <<dbs, marker, minute, pkg, snapshot, aside, pre, crashes>>
      /\ pc = "setaside"
      /\ \/ AllMoved("live") /\ pc' = "install"
         \/ OneMoved("live", "back")
         \/ NotMoved("setaside", "live", "back") /\ pc' = "u_stop"
      /\ UNCHANGED faults \/ (faults > 0 /\ faults' = faults - 1)
  BY DirNames, MoveEffect
<1>2. SettingAside
  BY <1>1 DEF UndoInv, AtUpdate
<1>3. Moving("live", "back", pre.live) /\ pre.live \in [Items -> Tree]
  BY <1>2 DEF SettingAside, TypeInv, TypeOK
<1>4. Names' /\ Limits'
  BY <1>1, FilesOnly
<1>5. /\ Matches(pre.live, pre.main)' /\ Fresh' /\ marker' = None /\ snapshot' \in Before
      /\ On(Main, pre.main.schema)'
  BY <1>1, <1>2 DEF SettingAside, Matches, On, Exists, Fresh
<1>6. CASE AllMoved("live") /\ pc' = "install"
  BY <1>1, <1>2, <1>3, <1>4, <1>5, <1>6, MovingDone, DirNames, Arrives DEF AllMoved, SettingAside,
     Installing, Reachable, Empty, AtUpdate, AtUndoUpdate, AtRollback, AtUndoRollback
<1>7. CASE OneMoved("live", "back")
  <2>1. Moving("live", "back", pre.live)'
    BY <1>1, <1>3, <1>7, DirNames, MovingStep DEF Moving
  <2>2. SettingAside'
    BY <1>1, <1>2, <1>5, <1>7, <2>1 DEF SettingAside, Reachable, OneMoved
  <2>3. QED
    BY <1>1, <1>4, <1>7, <2>2, Arrives DEF OneMoved, AtUpdate, AtUndoUpdate, AtRollback, AtUndoRollback
<1>8. CASE NotMoved("setaside", "live", "back") /\ pc' = "u_stop"
  <2>1. dirs' = dirs /\ Fails("setaside")
    BY <1>3, <1>8, DirNames, MovingTorn
  <2>2. faults' = 0
    BY <2>1, OneFault DEF UndoInv
  <2>3. UndoingTheFiles'
    BY <1>1, <1>3, <1>5, <2>1, <2>2 DEF UndoingTheFiles, On, Moving
  <2>4. QED
    BY <1>4, <1>8, <2>3, Arrives DEF AtUpdate, AtUndoUpdate, AtRollback, AtUndoRollback
<1>9. QED
  BY <1>1, <1>6, <1>7, <1>8

LEMMA UpdateInstalls ==
  ASSUME OneFailure, TypeInv, TypeInv', UndoInv, CopyTree
  PROVE  UndoInv'
<1> USE DEF Goto, Return, files, databases, locals, ghosts, bounds
<1>1. pc = "install" /\ UNCHANGED <<dbs, marker, minute, pkg, snapshot, aside, pre, crashes>>
  BY DEF CopyTree
<1>2. Installing
  BY <1>1 DEF UndoInv, AtUpdate
<1>3. \A k \in First(ToInstall) : k \in Items
  BY DEF First, ToInstall, TypeInv, TypeOK
<1>4. /\ Matches(pre.live, pre.main)' /\ Fresh' /\ marker' = None /\ snapshot' \in Before
      /\ On(Main, pre.main.schema)'
  BY <1>1, <1>2 DEF Installing, Matches, On, Exists, Fresh
<1>5. CASE ToInstall = {} /\ pc' = "upgrade" /\ UNCHANGED <<dirs, faults>>
  BY <1>1, <1>2, <1>4, <1>5, FilesOnly, Arrives DEF Installing, ReadyToMigrate, ToInstall,
     Reachable, AtUpdate, AtUndoUpdate, AtRollback, AtUndoRollback
<1>6. CASE \E k \in First(ToInstall) : dirs' = [dirs EXCEPT !.live[k] = pkg] /\ UNCHANGED <<pc, faults>>
  <2>1. Names' /\ Limits'
    BY <1>1, <1>6, FilesOnly
  <2>2. dirs'.back = dirs.back /\ \A j \in Items : dirs'.live[j] \in {dirs.live[j], pkg}
    BY <1>3, <1>6, DirNames DEF TypeInv, TypeOK
  <2>3. Installing'
    BY <1>1, <1>2, <1>4, <1>6, <2>2 DEF Installing, Reachable
  <2>4. QED
    BY <1>1, <1>6, <2>1, <2>3, Arrives DEF AtUpdate, AtUndoUpdate, AtRollback, AtUndoRollback
<1>7. CASE /\ \E k \in First(ToInstall) : dirs' = [dirs EXCEPT !.live[k] = Partial]
           /\ Fails("install") /\ pc' = "u_stop"
  BY <1>1, <1>2, <1>3, <1>4, <1>7, FilesOnly, DirNames, OneFault, Arrives DEF Fails, TypeInv,
     TypeOK, UndoInv, Installing, UndoingTheFiles, On, AtUpdate, AtUndoUpdate, AtRollback,
     AtUndoRollback
<1>8. QED
  BY <1>1, <1>5, <1>6, <1>7 DEF CopyTree

LEMMA UpdateMigrates ==
  ASSUME OneFailure, TypeInv, TypeInv', UndoInv, RunUpgrade
  PROVE  UndoInv'
<1> USE DEF Goto, Return, files, databases, locals, ghosts, bounds
<1>1. /\ pc = "upgrade"
      /\ UNCHANGED <<dirs, marker, minute, pkg, snapshot, aside, pre, crashes>>
  BY DEF RunUpgrade
<1>2. Installing /\ ToInstall = {} /\ On(Main, pre.main.schema) /\ Exists(Main)
  BY <1>1 DEF UndoInv, AtUpdate, ReadyToMigrate, Installing, On
<1>3. \A k \in Ships[pkg] : dirs.live[k] = pkg
  BY <1>2 DEF Installing, ToInstall, TypeInv, TypeOK
<1>4. minute \in Nat /\ minute <= minute'
  BY <1>1 DEF TypeInv, TypeOK
<1>5. ASSUME NEW s \in Versions \union {Partial}, dbs' = [dbs EXCEPT ![Main].schema = s],
             UNCHANGED faults \/ (faults > 0 /\ faults' = faults - 1)
      PROVE  /\ On(Main, s)' /\ dbs'[Main].open = dbs[Main].open
             /\ Fresh' /\ Names' /\ Limits'
  <2>1. dbs[Main] \in Database /\ Main \in Name
    BY <1>2, NameFacts DEF TypeInv, TypeOK, Exists
  <2>2. dbs'[Main] = [dbs[Main] EXCEPT !.schema = s] /\ \A n \in Name : n # Main => dbs'[n] = dbs[n]
    BY <1>5, <2>1 DEF TypeInv, TypeOK
  <2>3. dbs'[Main] # None
    BY <2>1, <2>2, DatabaseKinds
  <2>4. dbs'[Main].schema = s /\ dbs'[Main].open = dbs[Main].open
    BY <2>1, <2>2 DEF Database
  <2>5. \A n \in Name : Exists(n)' <=> Exists(n)
    BY <1>2, <2>2, <2>3 DEF Exists
  <2>6. Fresh'
    BY <1>1, <1>2, <2>5 DEF Installing, Fresh
  <2>7. Names'
    BY <1>1, <2>2, <2>5, NameFacts, BeforeIsNotMain DEF UndoInv, Names
  <2>8. Limits'
    BY <1>1, <1>5, LimitsKept DEF UndoInv
  <2>9. QED
    BY <2>3, <2>4, <2>6, <2>7, <2>8 DEF On, Exists
<1>6. CASE dbs' = [dbs EXCEPT ![Main].schema = pkg] /\ pc' = "start" /\ UNCHANGED faults
  BY <1>1, <1>2, <1>3, <1>5, <1>6, Arrives DEF TypeInv, TypeOK, On, Installing, Migrated, Matches,
     Reachable, AtUpdate, AtUndoUpdate, AtRollback, AtUndoRollback
<1>7. CASE /\ Fails("upgrade") /\ pc' = "u_stop"
           /\ \E s \in {dbs[Main].schema, Partial} : dbs' = [dbs EXCEPT ![Main].schema = s]
  <2>1. PICK s \in {dbs[Main].schema, Partial} : dbs' = [dbs EXCEPT ![Main].schema = s]
    BY <1>7
  <2>2. s \in Versions \union {Partial}
    BY <1>2, NameFacts DEF TypeInv, TypeOK, Exists, Database
  <2>3. On(Main, s)' /\ Fresh' /\ Names' /\ Limits'
    BY <1>5, <1>7, <2>1, <2>2 DEF Fails
  <2>4. faults' = 0
    BY <1>7, OneFault DEF UndoInv
  <2>5. UndoingTheFiles'
    BY <1>1, <1>2, <2>3, <2>4 DEF Installing, UndoingTheFiles, Matches, On
  <2>6. QED
    BY <1>7, <2>3, <2>5, Arrives DEF AtUpdate, AtUndoUpdate, AtRollback, AtUndoRollback
<1>8. CASE ~(Exists(Main) /\ dbs[Main].open) /\ pc' = "u_stop" /\ UNCHANGED <<dbs, faults>>
  BY <1>1, <1>2, <1>8, FilesOnly, Arrives DEF Installing, Reachable, UndoInv, Limits,
     UndoingTheFiles, Matches, Exists, Fresh, AtUpdate, AtUndoUpdate, AtRollback, AtUndoRollback
<1>9. QED
  BY <1>6, <1>7, <1>8 DEF RunUpgrade

(* Until the update has ended or put it back, the copy is there. *)
LEMMA SnapshotStands ==
  ASSUME OneFailure, TypeInv, SnapshotHeld, pc \in Updating \union UndoingUpdate
  PROVE  /\ Exists(snapshot) /\ dbs[snapshot].schema = pre.main.schema
         /\ pre.main.writes \subseteq dbs[snapshot].writes
BY DEF OneFailure, TypeInv, TypeOK, SnapshotHeld

LEMMA UpdateEnds ==
  ASSUME OneFailure, TypeInv, TypeInv', UndoInv, SnapshotHeld, DropOlder \/ WriteMarker
  PROVE  UndoInv'
<1> USE DEF Goto, Return, files, databases, locals, ghosts, bounds
<1>1. CASE DropOlder
  BY <1>1, NameFacts, BeforeIsNotMain, OneFault, LimitsKept, Arrives DEF DropOlder, UndoInv,
     AtUpdate, OlderSnapshots, Exists, Migrated, Matches, On, Fresh, Alone, Names, AtUndoUpdate,
     AtRollback, AtUndoRollback
<1>2. CASE WriteMarker
  BY <1>2, SnapshotStands, NameFacts, LimitsKept, Arrives DEF WriteMarker, UndoInv, AtUpdate,
     Updating, Migrated, Matches, Exists, Coherent, On, TypeInv, TypeOK, Point, PointHolds, Alone,
     Fails, Names, AtRest, AtUndoUpdate, AtRollback, AtUndoRollback
<1>3. QED
  BY <1>1, <1>2

-----------------------------------------------------------------------------
(* The undo of an update.  Its failure has been met: nothing fails in it.  *)

LEMMA UndoMovesBack ==
  ASSUME OneFailure, TypeInv, TypeInv', UndoInv,
         MoveItems("u_files", "back", "live", TRUE, "u_close", "u_close")
  PROVE  UndoInv'
<1>1. /\ UNCHANGED <<dbs, marker, minute, pkg, snapshot, aside, pre, crashes>>
      /\ pc = "u_files"
      /\ \/ AllMoved("back") /\ pc' = "u_close"
         \/ OneMoved("back", "live")
         \/ Fails("u_files")
      /\ UNCHANGED faults \/ (faults > 0 /\ faults' = faults - 1)
  BY DirNames, MoveEffect
<1>2. UndoingTheFiles
  BY <1>1 DEF UndoInv, AtUndoUpdate
<1>3. Names' /\ Limits'
  BY <1>1, FilesOnly
<1>4. Matches(pre.live, pre.main)' /\ Exists(Main)' /\ Fresh' /\ marker' = None
  BY <1>1, <1>2 DEF UndoingTheFiles, Matches, Exists, Fresh
<1>5. CASE AllMoved("back") /\ pc' = "u_close"
  BY <1>1, <1>2, <1>3, <1>4, <1>5, DirNames, Arrives DEF TypeInv, TypeOK, Empty, Tree, AllMoved,
     UndoingTheFiles, FilesUndone, AtUpdate, AtUndoUpdate, AtRollback, AtUndoRollback
<1>6. CASE OneMoved("back", "live")
  BY <1>1, <1>2, <1>3, <1>4, <1>6, DirNames, Arrives DEF OneMoved, TypeInv, TypeOK,
     UndoingTheFiles, AtUpdate, AtUndoUpdate, AtRollback, AtUndoRollback
<1>7. ~Fails("u_files")
  BY <1>2 DEF UndoingTheFiles, Fails
<1>8. QED
  BY <1>1, <1>5, <1>6, <1>7

(* The database in use, or set aside, lets connections in or no longer. *)
LEMMA UndoCloses ==
  ASSUME OneFailure, TypeInv, TypeInv', UndoInv,
         \/ Close("u_close", <<"failed", minute>>, "u_aside", "u_start")
         \/ Open("u_open", aside, "u_put")
  PROVE  UndoInv'
<1> USE DEF Goto, Return, files, databases, locals, ghosts, bounds
<1>1. CASE Close("u_close", <<"failed", minute>>, "u_aside", "u_start")
  <2>1. /\ pc = "u_close"
        /\ aside' = <<"failed", minute>>
        /\ UNCHANGED <<dirs, marker, minute, pkg, snapshot, pre, crashes>>
        /\ \/ dbs' = [dbs EXCEPT ![Main].open = FALSE] /\ pc' = "u_aside" /\ UNCHANGED faults
           \/ ~Exists(Main)
           \/ Fails("u_close")
    BY <1>1 DEF Close
  <2>2. FilesUndone /\ faults = 0 /\ marker = None /\ Exists(Main) /\ Fresh
    BY <2>1 DEF UndoInv, AtUndoUpdate
  <2>3. dbs' = [dbs EXCEPT ![Main].open = FALSE] /\ pc' = "u_aside" /\ UNCHANGED faults
    BY <2>1, <2>2 DEF Fails
  <2>4. minute \in Nat /\ minute <= minute' /\ aside'[2] <= minute' /\ aside' \in Name \ Before
    BY <2>1 DEF TypeInv, TypeOK, Before
  <2>5. Names' /\ Limits' /\ SameDatabases
    BY <2>1, <2>2, <2>3, <2>4, Reopens
  <2>6. ~Exists(aside)' /\ aside'[1] = "failed"
    BY <2>1, <2>2, <2>4, <2>5 DEF Fresh, Exists, SameDatabases
  <2>7. FilesUndone' /\ Exists(Main)'
    BY <2>1, <2>2, <2>5, NameFacts, SameExist DEF FilesUndone, Matches, Empty
  <2>8. QED
    BY <2>1, <2>2, <2>3, <2>5, <2>6, <2>7, Arrives DEF AtUpdate, AtUndoUpdate, AtRollback, AtUndoRollback
<1>2. CASE Open("u_open", aside, "u_put")
  <2>1. /\ pc = "u_open" /\ pc' = "u_put"
        /\ UNCHANGED <<dirs, marker, minute, pkg, snapshot, aside, pre, crashes>>
        /\ \/ Exists(aside) /\ dbs' = [dbs EXCEPT ![aside].open = TRUE] /\ UNCHANGED faults
           \/ UNCHANGED <<dbs, faults>>
           \/ Fails("u_open")
    BY <1>2 DEF Open
  <2>2. /\ FilesUndone /\ faults = 0 /\ marker = None /\ ~Exists(Main)
        /\ aside[1] = "failed" /\ aside \in Name
    BY <2>1 DEF UndoInv, AtUndoUpdate, TypeInv, TypeOK
  <2>3. UNCHANGED faults
    BY <2>1, <2>2 DEF Fails
  <2>4. SameDatabases /\ \A n \in Name : n # aside => dbs'[n] = dbs[n]
    <3>1. CASE Exists(aside) /\ dbs' = [dbs EXCEPT ![aside].open = TRUE]
      BY <2>2, <3>1, LetIn
    <3>2. CASE UNCHANGED dbs
      BY <3>2 DEF SameDatabases, TypeInv, TypeOK
    <3>3. QED
      BY <2>1, <2>2, <3>1, <3>2 DEF Fails
  <2>5. \A n \in Before : dbs'[n] = dbs[n]
    BY <2>2, <2>4, NameFacts DEF Before
  <2>6. minute <= minute'
    BY <2>1 DEF TypeInv, TypeOK
  <2>7. Names' /\ Limits'
    BY <2>1, <2>3, <2>4, <2>5, <2>6, NamesKept, LimitsKept DEF UndoInv
  <2>8. FilesUndone' /\ ~Exists(Main)'
    BY <2>1, <2>2, <2>4, NameFacts, SameExist DEF FilesUndone, Matches, Empty
  <2>9. QED
    BY <2>1, <2>2, <2>3, <2>7, <2>8, Arrives DEF AtUpdate, AtUndoUpdate, AtRollback, AtUndoRollback
<1>3. QED
  BY <1>1, <1>2

(* What the renames of restore_database leave at every name. *)
LEMMA Renaming ==
  ASSUME TypeInv, NEW from \in Name, NEW to \in Name, from # to, Exists(from), ~Exists(to),
         dbs' = [dbs EXCEPT ![to] = dbs[from], ![from] = None]
  PROVE  /\ dbs'[to] = dbs[from] /\ dbs'[from] = None
         /\ \A n \in Name : n # to /\ n # from => dbs'[n] = dbs[n]
BY DEF TypeInv, TypeOK

(* Renames leave names in order.                                           *)
LEMMA RenamedNames ==
  ASSUME OneFailure, TypeInv, TypeInv', UndoInv, NEW from \in Name, NEW to \in Name, from # to,
         Exists(from), ~Exists(to), to[2] <= minute,
         dbs' = [dbs EXCEPT ![to] = dbs[from], ![from] = None],
         UNCHANGED <<marker, minute, snapshot, aside, faults, crashes>>,
         pc # "b_open", to \in Before => pc' = "b_open" /\ to = snapshot
  PROVE  Names' /\ Limits'
<1>1. /\ dbs'[to] = dbs[from] /\ dbs'[from] = None
      /\ \A n \in Name : n # to /\ n # from => dbs'[n] = dbs[n]
  BY Renaming
<1>2. \A n \in Name : Exists(n)' => n[2] <= minute'
  BY <1>1 DEF UndoInv, Names, Exists
<1>3. \A n \in Before : Exists(n)' /\ ~(pc' = "b_open" /\ n = snapshot') => dbs'[n].open
  BY <1>1, NameFacts DEF UndoInv, Names, Exists
<1>4. QED
  BY <1>2, <1>3 DEF UndoInv, Names, Limits

LEMMA UndoRenames ==
  ASSUME OneFailure, TypeInv, TypeInv', UndoInv, SnapshotHeld,
         \/ SetDatabaseAside("u_aside", aside, "u_open", "u_start")
         \/ PutDatabaseBack("u_put", snapshot, "u_start", "u_start")
  PROVE  UndoInv'
<1> USE DEF Goto, Return, files, databases, locals, ghosts, bounds
<1>1. CASE SetDatabaseAside("u_aside", aside, "u_open", "u_start")
  BY <1>1, NameFacts, RenamedNames, Renaming, Arrives DEF SetDatabaseAside, UndoInv, AtUndoUpdate,
     Names, TypeInv, TypeOK, Fails, Before, Exists, FilesUndone, Matches, Empty, AtUpdate,
     AtRollback, AtUndoRollback
<1>2. CASE PutDatabaseBack("u_put", snapshot, "u_start", "u_start")
  <2>1. /\ pc = "u_put" /\ pc' = "u_start"
        /\ UNCHANGED <<dirs, marker, minute, pkg, snapshot, aside, pre, crashes>>
        /\ \/ /\ Exists(snapshot) /\ ~Exists(Main)
              /\ dbs' = [dbs EXCEPT ![Main] = dbs[snapshot], ![snapshot] = None]
              /\ UNCHANGED faults
           \/ ~(Exists(snapshot) /\ ~Exists(Main))
           \/ Fails("u_put")
    BY <1>2 DEF PutDatabaseBack
  <2>2. FilesUndone /\ faults = 0 /\ marker = None /\ ~Exists(Main)
    BY <2>1 DEF UndoInv, AtUndoUpdate
  <2>3. /\ Exists(snapshot) /\ dbs[snapshot].schema = pre.main.schema
        /\ pre.main.writes \subseteq dbs[snapshot].writes /\ snapshot \in Name
    BY <2>1, SnapshotStands DEF UndoingUpdate, TypeInv, TypeOK
  <2>4. Exists(snapshot) /\ snapshot # Main
    BY <2>2, <2>3 DEF Exists
  <2>5. dbs' = [dbs EXCEPT ![Main] = dbs[snapshot], ![snapshot] = None] /\ UNCHANGED faults
    BY <2>1, <2>2, <2>4 DEF Fails
  <2>6. Main \notin Before /\ Main \in Name /\ Main[2] <= minute
    BY NameFacts, BeforeIsNotMain DEF Main, TypeInv, TypeOK
  <2>7. Names' /\ Limits'
    BY <2>1, <2>2, <2>3, <2>4, <2>5, <2>6, RenamedNames
  <2>8. dbs'[Main] = dbs[snapshot]
    BY <2>2, <2>3, <2>4, <2>5, <2>6, Renaming
  <2>9. DatabaseUndone'
    BY <2>1, <2>3, <2>4, <2>8 DEF DatabaseUndone, On, Exists
  <2>10. FilesUndone'
    BY <2>1, <2>2 DEF FilesUndone, Matches, Empty
  <2>11. QED
    BY <2>1, <2>2, <2>5, <2>7, <2>9, <2>10, Arrives DEF AtUpdate, AtUndoUpdate, AtRollback, AtUndoRollback
<1>3. QED
  BY <1>1, <1>2

LEMMA UpdateStep ==
  ASSUME OneFailure, TypeInv, TypeInv', UndoInv, SnapshotHeld, SafeUpdateStep \/ UndoUpdateStep
  PROVE  UndoInv'
BY UpdateCalm, UpdateStops, UpdateCloses, UpdateCopies, UpdateClears, UpdateSetsAside,
   UpdateInstalls, UpdateMigrates, UpdateEnds, UndoMovesBack, UndoCloses, UndoRenames
   DEF SafeUpdateStep, UndoUpdateStep

-----------------------------------------------------------------------------
(* The steps of a rollback and of its undo. *)

LEMMA RollbackStops ==
  ASSUME OneFailure, TypeInv, TypeInv', UndoInv, StopServer("r_stop", "r_clear") \/ ClearCurrent
  PROVE  UndoInv'
<1> USE DEF Goto, Return, files, databases, locals, ghosts, bounds
<1>1. CASE StopServer("r_stop", "r_clear")
  <2>1. /\ pc = "r_stop"
        /\ UNCHANGED <<dirs, marker, dbs, minute, pkg, snapshot, aside, undoDb, crashes>>
    BY <1>1 DEF StopServer
  <2>2. Chosen /\ Coherent /\ Exists(snapshot) /\ Fresh /\ PointHolds(dirs.back, Before)
    BY <2>1 DEF UndoInv, AtRollback
  <2>3. CASE /\ pre' = [live |-> dirs.live, back |-> dirs.back, main |-> dbs[Main]]
             /\ pc' = "r_clear" /\ UNCHANGED faults
    BY <2>1, <2>2, <2>3, FilesOnly, Arrives DEF Chosen, Restorable, Others, PointHolds, Exists,
       Kept, Matches, BothBack, Fresh, Coherent, RollbackBegins, AtUpdate, AtUndoUpdate,
       AtRollback, AtUndoRollback
  <2>4. CASE Fails("r_stop") /\ pc' = "idle" /\ last' = "refused" /\ UNCHANGED pre
    BY <2>1, <2>2, <2>4, CalmSame, CalmNames, CalmParts, Arrives DEF Fails, Point, UndoInv,
       AtRest, AtUpdate, AtUndoUpdate, AtRollback, AtUndoRollback
  <2>5. QED
    BY <1>1, <2>3, <2>4 DEF StopServer
<1>2. CASE ClearCurrent
  <2>1. /\ pc = "r_clear" /\ pc' = "r_aside" /\ aside' = <<"rolled", minute>>
        /\ UNCHANGED <<dbs, marker, minute, pkg, snapshot, undoDb, pre, crashes>>
    BY <1>2 DEF ClearCurrent
  <2>2. RollbackBegins /\ BothBack /\ Fresh
    BY <2>1 DEF UndoInv, AtRollback
  <2>3. /\ dirs'.live = dirs.live /\ dirs'.back = dirs.back
        /\ \/ dirs'.current = Empty /\ UNCHANGED faults
           \/ Fails("r_clear")
    BY <1>2, DirNames DEF ClearCurrent, TypeInv, TypeOK
  <2>4. aside' \in Name \ Before /\ aside'[1] = "rolled" /\ aside'[2] <= minute' /\ minute <= minute'
    BY <2>1 DEF TypeInv, TypeOK, Before
  <2>5. ~Exists(aside)'
    BY <2>1, <2>2, <2>4 DEF TypeInv, TypeOK, Fresh, Exists
  <2>6. SavingCurrent'
    BY <2>1, <2>2, <2>3, OneFault DEF UndoInv, SavingCurrent, BothBack, Moving, Empty
  <2>7. RollbackBegins'
    BY <2>1, <2>2 DEF RollbackBegins, Chosen, Others, PointHolds, Matches, Kept, Restorable, Exists
  <2>8. SameDatabases
    BY <2>1 DEF SameDatabases, TypeInv, TypeOK
  <2>9. Names' /\ Limits'
    BY <2>1, <2>3, <2>4, <2>8, NamesKept, LimitsKept DEF UndoInv, Fails
  <2>10. QED
    BY <2>1, <2>4, <2>5, <2>6, <2>7, <2>9, Arrives DEF AtUpdate, AtUndoUpdate, AtRollback, AtUndoRollback
<1>3. QED
  BY <1>1, <1>2

LEMMA RollbackCalm ==
  ASSUME OneFailure, TypeInv, TypeInv', UndoInv,
         \/ StartService("r_start", "r_check")
         \/ RollbackCheck
         \/ StopServerAgain("b_stop", "b_back")
         \/ UndoDatabase
         \/ StartService("b_start", "b_check")
         \/ LastCheck("b_check", "rollbackundone")
  PROVE  UndoInv'
<1> USE DEF Goto, Return, files, databases, locals, ghosts, bounds
<1>1. ASSUME Calm, pc # "b_open" PROVE Names' /\ Limits'
  BY <1>1, CalmNames DEF UndoInv
<1>2. ASSUME Calm, Exists(Main), dbs[Main].open PROVE dbs'[Main].open
  BY <1>2, NameFacts DEF Calm
<1>3. Switched => Exists(Main)
  BY DEF Switched, Restorable, Matches, Exists
<1>4. CASE StartService("r_start", "r_check")
  BY <1>1, <1>2, <1>3, <1>4, CalmSame, CalmParts, CalmRollback, Arrives DEF StartService, UndoInv,
     AtRollback, AtUpdate, AtUndoUpdate, AtUndoRollback
<1>5. CASE RollbackCheck
  <2>1. Calm /\ pc = "r_check" /\ aside' = aside
    BY <1>5, CalmSame DEF RollbackCheck, ServerStaysUp, ServerGoesDown, Fails
  <2>2. /\ PreviousThere /\ Chosen /\ Others /\ Matches(pre.live, pre.main) /\ aside[1] = "rolled"
        /\ Switched /\ dbs[Main].open
    BY <2>1 DEF UndoInv, AtRollback
  <2>3. CASE pc' = "r_clean" /\ UNCHANGED undoDb
    BY <1>1, <1>2, <1>3, <2>1, <2>2, <2>3, CalmParts, CalmRollback, Arrives DEF AtUpdate,
       AtUndoUpdate, AtRollback, AtUndoRollback
  <2>4. CASE ServerGoesDown("r_check") /\ pc' = "b_stop" /\ undoDb'
    <3>1. dirs.live = pre.back /\ Matches(dirs.live, dbs[Main])
      BY <2>2 DEF PreviousThere, Switched, Restorable
    <3>2. Main \in Name /\ Bin \in Items
      BY NameFacts DEF Bin, Items
    <3>3. dbs[Main].schema \in Versions /\ dirs.live[Bin] = dbs[Main].schema
      BY <3>1, <3>2 DEF Matches, TypeInv, TypeOK, Database
    <3>4. Coherent /\ Startable
      BY <1>3, <2>2, <3>1, <3>3 DEF Coherent, Startable
    <3>5. faults > 0 /\ faults' = 0
      BY <2>4, <3>4, OneFault DEF ServerGoesDown, UndoInv
    <3>6. UndoStart
      BY <2>2, <3>5 DEF PreviousThere, UndoStart, Moving, Empty
    <3>7. UndoStart' /\ Switched' /\ Others' /\ Matches(pre.live, pre.main)'
      BY <2>1, <2>2, <3>6, CalmParts, CalmRollback
    <3>8. Undoing'
      BY <2>1, <2>2, <3>5, <3>7 DEF Undoing, Chosen, Calm
    <3>9. ToUndo'
      BY <2>4, <3>7 DEF ToUndo
    <3>10. QED
      BY <1>1, <2>1, <2>4, <3>7, <3>8, <3>9, Arrives DEF AtUpdate, AtUndoUpdate, AtRollback, AtUndoRollback
  <2>5. QED
    BY <1>5, <2>3, <2>4 DEF RollbackCheck
<1>6. CASE StopServerAgain("b_stop", "b_back")
  BY <1>1, <1>6, CalmSame, CalmRollback, Arrives DEF StopServerAgain, Fails, UndoInv,
     AtUndoRollback, AtUpdate, AtUndoUpdate, AtRollback
<1>7. CASE UndoDatabase
  BY <1>1, <1>7, CalmSame, CalmRollback, Arrives DEF UndoDatabase, UndoInv, AtUndoRollback,
     ToUndo, AtUpdate, AtUndoUpdate, AtRollback
<1>8. CASE StartService("b_start", "b_check")
  BY <1>1, <1>8, CalmSame, CalmParts, CalmRollback, Arrives DEF StartService, UndoInv,
     AtUndoRollback, AtUpdate, AtUndoUpdate, AtRollback
<1>9. CASE LastCheck("b_check", "rollbackundone")
  BY <1>1, <1>9, CalmSame, CalmParts, CalmRollback, Arrives DEF LastCheck, ServerStaysUp,
     ServerGoesDown, Fails, UndoInv, AtUndoRollback, Undoing, BothBack, Kept, Coherent, Matches,
     Exists, Others, Restorable, Point, PointHolds, AtRest, AtUpdate, AtUndoUpdate, AtRollback
<1>10. QED
  BY <1>4, <1>5, <1>6, <1>7, <1>8, <1>9

LEMMA RollbackSavesCurrent ==
  ASSUME OneFailure, TypeInv, TypeInv', UndoInv,
         MoveItems("r_aside", "live", "current", TRUE, "r_files", "b_stop")
  PROVE  UndoInv'
<1>1. /\ UNCHANGED <<dbs, marker, minute, pkg, snapshot, aside, undoDb, pre, crashes>>
      /\ pc = "r_aside"
      /\ \/ AllMoved("live") /\ pc' = "r_files"
         \/ OneMoved("live", "current")
         \/ Fails("r_aside")
      /\ UNCHANGED faults \/ (faults > 0 /\ faults' = faults - 1)
  BY DirNames, MoveEffect
<1>2. ~Fails("r_aside")
  BY DEF OneFailure, Fails
<1>3. RollbackBegins /\ aside[1] = "rolled" /\ ~Exists(aside) /\ SavingCurrent
  BY <1>1 DEF UndoInv, AtRollback
<1>4. Names' /\ Limits'
  BY <1>1, FilesOnly
<1>5. RollbackBegins' /\ aside'[1] = "rolled" /\ ~Exists(aside)'
  BY <1>1, <1>3 DEF RollbackBegins, Chosen, Others, PointHolds, Matches, Kept, Restorable, Exists
<1>6. CASE AllMoved("live") /\ pc' = "r_files"
  BY <1>1, <1>3, <1>4, <1>5, <1>6, MovingDone, DirNames, Arrives DEF AllMoved, TypeInv, TypeOK,
     SavingCurrent, PuttingPrevious, Moving, AtUpdate, AtUndoUpdate, AtRollback, AtUndoRollback
<1>7. CASE OneMoved("live", "current")
  <2>1. PICK k \in Items :
          /\ dirs["live"][k] # Absent
          /\ dirs' = [dirs EXCEPT !["current"][k] = dirs["live"][k], !["live"][k] = Absent]
    BY <1>7 DEF OneMoved
  <2>2. /\ dirs'["back"] = dirs["back"]
        /\ \A j \in Items : /\ dirs'["live"][j] = IF j = k THEN Absent ELSE dirs["live"][j]
                            /\ dirs'["current"][j] = IF j = k THEN dirs["live"][j] ELSE dirs["current"][j]
    BY <2>1, DirNames DEF TypeInv, TypeOK
  <2>3. faults' > 0 => Moving("live", "current", pre.live)'
    <3>1. UNCHANGED faults
      BY <1>7 DEF OneMoved
    <3>2. faults > 0 => Moving("live", "current", pre.live)
      BY <1>3 DEF SavingCurrent
    <3>3. ASSUME Moving("live", "current", pre.live) PROVE Moving("live", "current", pre.live)'
      BY <1>1, <1>7, <3>3, MovingStep, DirNames DEF Moving
    <3>4. QED
      BY <3>1, <3>2, <3>3
  <2>4. SavingCurrent' /\ pc' = "r_aside"
    BY <1>1, <1>3, <1>7, <2>1, <2>2, <2>3 DEF SavingCurrent, OneMoved
  <2>5. QED
    BY <1>4, <1>5, <2>4, Arrives DEF AtUpdate, AtUndoUpdate, AtRollback, AtUndoRollback
<1>8. QED
  BY <1>1, <1>2, <1>6, <1>7

LEMMA RollbackPutsPrevious ==
  ASSUME OneFailure, TypeInv, TypeInv', UndoInv,
         MoveItems("r_files", "back", "live", TRUE, "r_close", "b_stop")
  PROVE  UndoInv'
<1>1. /\ UNCHANGED <<dbs, marker, minute, pkg, snapshot, aside, undoDb, pre, crashes>>
      /\ pc = "r_files"
      /\ \/ AllMoved("back") /\ pc' = "r_close"
         \/ OneMoved("back", "live")
         \/ NotMoved("r_files", "back", "live") /\ pc' = "b_stop"
      /\ UNCHANGED faults \/ (faults > 0 /\ faults' = faults - 1)
  BY DirNames, MoveEffect
<1>2. RollbackBegins /\ aside[1] = "rolled" /\ ~Exists(aside) /\ PuttingPrevious
  BY <1>1 DEF UndoInv, AtRollback
<1>3. Names' /\ Limits'
  BY <1>1, FilesOnly
<1>4. RollbackBegins' /\ aside'[1] = "rolled" /\ ~Exists(aside)'
  BY <1>1, <1>2 DEF RollbackBegins, Chosen, Others, PointHolds, Matches, Kept, Restorable, Exists
<1>5. Moving("back", "live", pre.back) /\ pre.back \in [Items -> Tree]
  BY <1>2 DEF PuttingPrevious, TypeInv, TypeOK
<1>6. CASE AllMoved("back") /\ pc' = "r_close"
  BY <1>1, <1>2, <1>3, <1>4, <1>5, <1>6, MovingDone, DirNames, Arrives DEF AllMoved,
     PuttingPrevious, PreviousThere, Empty, AtUpdate, AtUndoUpdate, AtRollback, AtUndoRollback
<1>7. CASE OneMoved("back", "live")
  BY <1>1, <1>2, <1>3, <1>4, <1>5, <1>7, MovingStep, DirNames, Arrives DEF Moving, OneMoved,
     TypeInv, TypeOK, PuttingPrevious, AtUpdate, AtUndoUpdate, AtRollback, AtUndoRollback
<1>8. CASE NotMoved("r_files", "back", "live") /\ pc' = "b_stop"
  <2>1. dirs' = dirs /\ Fails("r_files")
    BY <1>5, <1>8, DirNames, MovingTorn
  <2>2. faults > 0 /\ faults' = 0
    BY <2>1, OneFault DEF UndoInv
  <2>3. UndoStart'
    BY <1>1, <1>2, <2>1, <2>2 DEF PuttingPrevious, UndoStart, Moving
  <2>4. Undoing' /\ ToUndo'
    BY <1>4, <2>2 DEF RollbackBegins, Chosen, Undoing, ToUndo
  <2>5. QED
    BY <1>3, <1>8, <2>3, <2>4, Arrives DEF AtUpdate, AtUndoUpdate, AtRollback, AtUndoRollback
<1>9. QED
  BY <1>1, <1>6, <1>7, <1>8

LEMMA UndoTakesBack ==
  ASSUME OneFailure, TypeInv, TypeInv', UndoInv,
         MoveItems("b_back", "live", "back", TRUE, "b_files", "b_db")
  PROVE  UndoInv'
<1>1. /\ UNCHANGED <<dbs, marker, minute, pkg, snapshot, aside, undoDb, pre, crashes>>
      /\ pc = "b_back"
      /\ \/ AllMoved("live") /\ pc' = "b_files"
         \/ OneMoved("live", "back")
         \/ Fails("b_back")
      /\ UNCHANGED faults \/ (faults > 0 /\ faults' = faults - 1)
  BY DirNames, MoveEffect
<1>2. Undoing /\ UndoStart /\ ToUndo
  BY <1>1 DEF UndoInv, AtUndoRollback
<1>3. ~Fails("b_back") /\ UNCHANGED faults
  BY <1>1, <1>2 DEF Undoing, Fails
<1>4. Names' /\ Limits'
  BY <1>1, FilesOnly
<1>5. Undoing' /\ ToUndo'
  BY <1>1, <1>2, <1>3 DEF Undoing, ToUndo, Switched, Others, PointHolds, Matches, Kept, Restorable, Exists
<1>6. Moving("live", "back", pre.back) /\ pre.back \in [Items -> Tree]
  BY <1>2, MovingBack DEF UndoStart, TypeInv, TypeOK
<1>7. CASE AllMoved("live") /\ pc' = "b_files"
  BY <1>1, <1>2, <1>4, <1>5, <1>6, <1>7, MovingDone, DirNames, Arrives DEF AllMoved, UndoStart,
     Moving, AtUpdate, AtUndoUpdate, AtRollback, AtUndoRollback
<1>8. CASE OneMoved("live", "back")
  BY <1>1, <1>2, <1>4, <1>5, <1>6, <1>8, MovingStep, DirNames, Arrives DEF Moving, OneMoved,
     TypeInv, TypeOK, UndoStart, AtUpdate, AtUndoUpdate, AtRollback, AtUndoRollback
<1>9. QED
  BY <1>1, <1>3, <1>7, <1>8

LEMMA UndoPutsCurrent ==
  ASSUME OneFailure, TypeInv, TypeInv', UndoInv,
         MoveItems("b_files", "current", "live", TRUE, "b_db", "b_db")
  PROVE  UndoInv'
<1>1. /\ UNCHANGED <<dbs, marker, minute, pkg, snapshot, aside, undoDb, pre, crashes>>
      /\ pc = "b_files"
      /\ \/ AllMoved("current") /\ pc' = "b_db"
         \/ OneMoved("current", "live")
         \/ Fails("b_files")
      /\ UNCHANGED faults \/ (faults > 0 /\ faults' = faults - 1)
  BY DirNames, MoveEffect
<1>2. Undoing /\ ToUndo /\ Moving("current", "live", pre.live) /\ dirs.back = pre.back
  BY <1>1 DEF UndoInv, AtUndoRollback
<1>3. ~Fails("b_files") /\ UNCHANGED faults
  BY <1>1, <1>2 DEF Undoing, Fails
<1>4. Names' /\ Limits'
  BY <1>1, FilesOnly
<1>5. Undoing' /\ ToUndo'
  BY <1>1, <1>2, <1>3 DEF Undoing, ToUndo, Switched, Others, PointHolds, Matches, Kept, Restorable, Exists
<1>6. CASE AllMoved("current") /\ pc' = "b_db"
  BY <1>1, <1>2, <1>4, <1>5, <1>6, MovingDone, DirNames, Arrives DEF AllMoved, TypeInv, TypeOK,
     BothBack, AtUpdate, AtUndoUpdate, AtRollback, AtUndoRollback
<1>7. CASE OneMoved("current", "live")
  BY <1>1, <1>2, <1>4, <1>5, <1>7, MovingStep, DirNames, Arrives DEF Moving, OneMoved, TypeInv,
     TypeOK, AtUpdate, AtUndoUpdate, AtRollback, AtUndoRollback
<1>8. QED
  BY <1>1, <1>3, <1>6, <1>7

(* What a step leaves of the rollback, when it changes one database at most. *)
LEMMA RollbackRest ==
  ASSUME TypeInv, TypeInv', SameDatabases,
         UNCHANGED <<dirs, marker, pre, snapshot, aside, undoDb, minute>>,
         UNCHANGED faults \/ (faults > 0 /\ faults' = faults - 1)
  PROVE  /\ RollbackBegins => RollbackBegins'
         /\ PreviousThere => PreviousThere'
         /\ Chosen => Chosen'
         /\ Others => Others'
         /\ Matches(pre.live, pre.main) => Matches(pre.live, pre.main)'
         /\ BothBack => BothBack'
         /\ Renamed => Renamed'
         /\ Switched => Switched'
         /\ Exists(aside)' <=> Exists(aside)
<1>1. minute \in Nat /\ minute' \in Nat /\ minute <= minute' /\ faults \in Nat /\ faults' \in Nat
      /\ faults' <= faults
  BY DEF TypeInv, TypeOK
<1>2. /\ Others => Others'
      /\ Matches(pre.live, pre.main) => Matches(pre.live, pre.main)'
  BY <1>1, SameRest
<1>3. Main \in Name /\ snapshot \in Name /\ aside \in Name
  BY NameFacts DEF TypeInv, TypeOK
<1>4. /\ Kept(Main) => Kept(Main)'
      /\ Kept(aside) => Kept(aside)'
      /\ Restorable(snapshot) => Restorable(snapshot)'
      /\ Restorable(Main) => Restorable(Main)'
      /\ Exists(Main)' <=> Exists(Main)
      /\ Exists(aside)' <=> Exists(aside)
      /\ Exists(snapshot)' <=> Exists(snapshot)
  BY <1>3 DEF Kept, Restorable, Matches, SameDatabases, Exists
<1>5. PreviousThere => PreviousThere' /\ (BothBack => BothBack')
  BY <1>1, SameFiles
<1>6. BothBack => BothBack'
  BY DEF BothBack
<1>7. (Chosen => Chosen') /\ (RollbackBegins => RollbackBegins')
  BY <1>2, <1>4 DEF Chosen, RollbackBegins
<1>8. (Renamed => Renamed') /\ (Switched => Switched')
  BY <1>4 DEF Renamed, Switched
<1>9. QED
  BY <1>2, <1>4, <1>5, <1>6, <1>7, <1>8

(* From a failed switch to the question how far it got. *)
LEMMA ToProbe ==
  ASSUME Fails("r_close") \/ Fails("r_dbaside") \/ Fails("r_put"), Limits, TypeInv,
         PreviousThere', snapshot' = snapshot, pre' = pre,
         UNCHANGED <<dirs, pre, snapshot>>, PreviousThere,
         Chosen', Others', Matches(pre.live, pre.main)', aside'[1] = "rolled"
  PROVE  Undoing' /\ UndoStart'
<1>1. faults > 0 /\ faults' = 0
  BY OneFault
<1>2. UndoStart'
  BY <1>1 DEF PreviousThere, UndoStart, Moving, Empty
<1>3. QED
  BY <1>1, <1>2 DEF Undoing, Chosen

LEMMA RollbackCloses ==
  ASSUME OneFailure, TypeInv, TypeInv', UndoInv,
         \/ Close("r_close", aside, "r_dbaside", "r_probe")
         \/ Open("r_open", aside, "r_put")
  PROVE  UndoInv'
<1> USE DEF Goto, Return, files, databases, locals, ghosts, bounds
<1>1. CASE Close("r_close", aside, "r_dbaside", "r_probe")
  BY <1>1, Reopens, RollbackRest, Arrives, ToProbe DEF Close, UndoInv, AtRollback, RollbackBegins,
     Kept, Fails, AtUpdate, AtUndoUpdate, AtUndoRollback
<1>2. CASE Open("r_open", aside, "r_put")
  <2>1. /\ pc = "r_open" /\ pc' = "r_put"
        /\ UNCHANGED <<dirs, marker, minute, pkg, snapshot, aside, undoDb, pre, crashes>>
        /\ \/ dbs' = [dbs EXCEPT ![aside].open = TRUE] /\ UNCHANGED faults
           \/ UNCHANGED dbs /\ (Fails("r_open") \/ UNCHANGED faults)
    BY <1>2 DEF Open
  <2>2. /\ PreviousThere /\ Chosen /\ Others /\ Matches(pre.live, pre.main) /\ aside[1] = "rolled"
        /\ Renamed /\ Exists(aside) /\ aside \in Name
    BY <2>1 DEF UndoInv, AtRollback, Renamed, Kept, TypeInv, TypeOK
  <2>3. SameDatabases /\ \A n \in Name : n # aside => dbs'[n] = dbs[n]
    BY <2>1, <2>2, LetIn DEF SameDatabases, TypeInv, TypeOK
  <2>4. \A n \in Before : dbs'[n] = dbs[n]
    BY <2>2, <2>3, NameFacts DEF Before
  <2>5. minute <= minute'
    BY <2>1 DEF TypeInv, TypeOK
  <2>6. UNCHANGED faults \/ (faults > 0 /\ faults' = faults - 1)
    BY <2>1 DEF Fails
  <2>7. Names' /\ Limits'
    BY <2>1, <2>3, <2>4, <2>5, <2>6, NamesKept, LimitsKept DEF UndoInv
  <2>8. /\ PreviousThere' /\ Chosen' /\ Others' /\ Matches(pre.live, pre.main)'
        /\ Renamed'
    BY <2>1, <2>2, <2>3, <2>6, RollbackRest
  <2>9. QED
    BY <2>1, <2>2, <2>7, <2>8, Arrives DEF AtUpdate, AtUndoUpdate, AtRollback, AtUndoRollback
<1>3. QED
  BY <1>1, <1>2

(* A rename between the database in use and those of the rollback. *)
LEMMA RenamedRest ==
  ASSUME TypeInv, NEW from \in Name, NEW to \in Name, from # to, Exists(from), ~Exists(to),
         dbs' = [dbs EXCEPT ![to] = dbs[from], ![from] = None],
         from \in Before => from = snapshot, to \in Before => to = snapshot,
         UNCHANGED <<dirs, marker, pre, snapshot, aside, undoDb, faults>>
  PROVE  /\ PreviousThere => PreviousThere'
         /\ Chosen => Chosen'
         /\ Others => Others'
         /\ Matches(pre.live, pre.main) => Matches(pre.live, pre.main)'
         /\ BothBack => BothBack'
<1>1. \A n \in Before : n # snapshot => dbs'[n] = dbs[n]
  <2>1. \A n \in Name : n # to /\ n # from => dbs'[n] = dbs[n]
    BY Renaming
  <2>2. ASSUME NEW n \in Before, n # snapshot PROVE n \in Name /\ n # to /\ n # from
    BY <2>2, NameFacts
  <2>3. QED
    BY <2>1, <2>2, Zenon
<1>2. Others => Others'
  BY <1>1 DEF Others, PointHolds, Exists
<1>3. QED
  BY <1>2 DEF PreviousThere, Empty, Chosen, Matches, BothBack

LEMMA RollbackNames ==
  ASSUME TypeInv, snapshot \in Before, aside[1] = "rolled"
  PROVE  /\ Main \in Name /\ snapshot \in Name /\ aside \in Name
         /\ Main # snapshot /\ Main # aside /\ aside # snapshot
         /\ Main \notin Before /\ aside \notin Before
         /\ Main[2] <= minute
BY NameFacts, BeforeIsNotMain DEF TypeInv, TypeOK, Before, Main

LEMMA RollbackSetsAside ==
  ASSUME OneFailure, TypeInv, TypeInv', UndoInv,
         SetDatabaseAside("r_dbaside", aside, "r_open", "r_probe")
  PROVE  UndoInv'
<1> USE DEF Goto, Return, files, databases, locals, ghosts, bounds
<1>1. /\ pc = "r_dbaside"
      /\ UNCHANGED <<dirs, marker, minute, pkg, snapshot, aside, undoDb, pre, crashes>>
      /\ \/ /\ dbs' = [dbs EXCEPT ![aside] = dbs[Main], ![Main] = None]
            /\ pc' = "r_open" /\ UNCHANGED faults
         \/ /\ \E o \in BOOLEAN : dbs' = [dbs EXCEPT ![Main].open = o]
            /\ pc' = "r_probe" /\ (~Exists(aside) => Fails("r_dbaside"))
  BY DEF SetDatabaseAside, Reopened
<1>2. /\ RollbackBegins /\ aside[1] = "rolled" /\ ~Exists(aside) /\ PreviousThere
      /\ Chosen /\ Others /\ Matches(pre.live, pre.main) /\ Kept(Main) /\ Restorable(snapshot)
      /\ Exists(Main) /\ snapshot \in Before
  BY <1>1 DEF UndoInv, AtRollback, RollbackBegins, Kept, Chosen
<1>3. /\ Main \in Name /\ snapshot \in Name /\ aside \in Name
      /\ Main # snapshot /\ Main # aside /\ aside # snapshot
      /\ Main \notin Before /\ aside \notin Before
  BY <1>2, RollbackNames
<1>4. CASE dbs' = [dbs EXCEPT ![aside] = dbs[Main], ![Main] = None] /\ pc' = "r_open" /\ UNCHANGED faults
  <2>1. aside[2] <= minute
    BY DEF UndoInv, Names
  <2>2. Names' /\ Limits'
    BY <1>1, <1>2, <1>3, <1>4, <2>1, RenamedNames
  <2>3. PreviousThere' /\ Chosen' /\ Others' /\ Matches(pre.live, pre.main)'
    BY <1>1, <1>2, <1>3, <1>4, RenamedRest
  <2>4. dbs'[aside] = dbs[Main] /\ dbs'[Main] = None /\ dbs'[snapshot] = dbs[snapshot]
    <3>1. /\ dbs'[aside] = dbs[Main] /\ dbs'[Main] = None
          /\ \A n \in Name : n # aside /\ n # Main => dbs'[n] = dbs[n]
      BY <1>2, <1>3, <1>4, Renaming
    <3>2. QED
      BY <1>3, <3>1
  <2>5. Renamed'
    BY <1>1, <1>2, <2>4 DEF Renamed, Kept, Restorable, Exists
  <2>6. QED
    BY <1>1, <1>2, <1>4, <2>2, <2>3, <2>5, Arrives DEF AtUpdate, AtUndoUpdate, AtRollback, AtUndoRollback
<1>5. CASE /\ \E o \in BOOLEAN : dbs' = [dbs EXCEPT ![Main].open = o]
           /\ pc' = "r_probe" /\ (~Exists(aside) => Fails("r_dbaside"))
  BY <1>1, <1>2, <1>5, Reopens, RollbackRest, ToProbe, Arrives DEF Fails, RollbackBegins, UndoInv,
     AtUpdate, AtUndoUpdate, AtRollback, AtUndoRollback
<1>6. QED
  BY <1>1, <1>4, <1>5

LEMMA RollbackPutsBack ==
  ASSUME OneFailure, TypeInv, TypeInv', UndoInv,
         PutDatabaseBack("r_put", snapshot, "r_start", "r_probe")
  PROVE  UndoInv'
<1> USE DEF Goto, Return, files, databases, locals, ghosts, bounds
<1>1. /\ pc = "r_put"
      /\ UNCHANGED <<dirs, marker, minute, pkg, snapshot, aside, undoDb, pre, crashes>>
      /\ \/ /\ dbs' = [dbs EXCEPT ![Main] = dbs[snapshot], ![snapshot] = None]
            /\ pc' = "r_start" /\ UNCHANGED faults
         \/ /\ UNCHANGED dbs /\ pc' = "r_probe"
            /\ Exists(snapshot) /\ ~Exists(Main) => Fails("r_put")
  BY DEF PutDatabaseBack
<1>2. /\ aside[1] = "rolled" /\ PreviousThere
      /\ Chosen /\ Others /\ Matches(pre.live, pre.main)
      /\ ~Exists(Main) /\ Kept(aside) /\ Restorable(snapshot)
      /\ Exists(snapshot) /\ snapshot \in Before
  BY <1>1 DEF UndoInv, AtRollback, Renamed, Restorable, Matches, Exists, Chosen
<1>3. /\ Main \in Name /\ snapshot \in Name /\ aside \in Name
      /\ Main # snapshot /\ Main # aside /\ aside # snapshot
      /\ Main \notin Before /\ aside \notin Before /\ Main[2] <= minute
  BY <1>2, RollbackNames
<1>4. CASE dbs' = [dbs EXCEPT ![Main] = dbs[snapshot], ![snapshot] = None] /\ pc' = "r_start" /\ UNCHANGED faults
  <2>1. Names' /\ Limits'
    BY <1>1, <1>2, <1>3, <1>4, RenamedNames
  <2>2. PreviousThere' /\ Chosen' /\ Others' /\ Matches(pre.live, pre.main)'
    BY <1>1, <1>2, <1>3, <1>4, RenamedRest
  <2>3. dbs'[Main] = dbs[snapshot] /\ dbs'[snapshot] = None /\ dbs'[aside] = dbs[aside]
    <3>1. /\ dbs'[Main] = dbs[snapshot] /\ dbs'[snapshot] = None
          /\ \A n \in Name : n # Main /\ n # snapshot => dbs'[n] = dbs[n]
      BY <1>2, <1>3, <1>4, Renaming
    <3>2. QED
      BY <1>3, <3>1
  <2>4. dbs[snapshot].open
    BY <1>1, <1>2 DEF UndoInv, Names
  <2>5. Switched' /\ dbs'[Main].open
    BY <1>1, <1>2, <2>3, <2>4 DEF Switched, Kept, Restorable, Exists
  <2>6. QED
    BY <1>1, <1>2, <1>4, <2>1, <2>2, <2>5, Arrives DEF AtUpdate, AtUndoUpdate, AtRollback, AtUndoRollback
<1>5. CASE UNCHANGED dbs /\ pc' = "r_probe" /\ Fails("r_put")
  BY <1>1, <1>2, <1>5, FilesOnly, RollbackRest, ToProbe, Arrives DEF Fails, Renamed, UndoInv,
     AtUpdate, AtUndoUpdate, AtRollback, AtUndoRollback
<1>6. QED
  BY <1>1, <1>2, <1>4, <1>5

LEMMA RollbackProbes ==
  ASSUME OneFailure, TypeInv, TypeInv', UndoInv, Probe
  PROVE  UndoInv'
<1> USE DEF Goto, Return, files, databases, locals, ghosts, bounds
<1>1. /\ pc = "r_probe" /\ pc' = "b_stop"
      /\ UNCHANGED <<dirs, marker, minute, pkg, snapshot, aside, pre, crashes>>
  BY DEF Probe
<1>2. Undoing /\ UndoStart /\ ((Kept(Main) /\ ~Exists(aside) /\ Restorable(snapshot)) \/ Renamed)
  BY <1>1 DEF UndoInv, AtUndoRollback
<1>3. Restorable(snapshot) /\ Exists(snapshot) /\ faults = 0 /\ snapshot \in Before /\ aside[1] = "rolled"
  BY <1>2 DEF Undoing, Renamed, Restorable, Matches, Exists
<1>4. /\ Main \in Name /\ snapshot \in Name /\ aside \in Name
      /\ Main # snapshot /\ Main # aside /\ aside # snapshot
      /\ Main \notin Before /\ aside \notin Before /\ Main[2] <= minute
  BY <1>3, RollbackNames
<1>5. /\ UNCHANGED faults /\ undoDb' = FALSE
      /\ dbs' = IF ~Exists(Main) /\ Exists(aside)
                THEN [dbs EXCEPT ![Main] = dbs[aside], ![aside] = None]
                ELSE dbs
  <2>1. PICK seen \in BOOLEAN, renamed \in BOOLEAN :
          /\ IF seen = Exists(snapshot) /\ renamed THEN UNCHANGED faults ELSE Fails("r_probe")
          /\ undoDb' = ~seen
          /\ dbs' = IF seen /\ ~Exists(Main) /\ Exists(aside) /\ renamed
                    THEN [dbs EXCEPT ![Main] = dbs[aside], ![aside] = None]
                    ELSE dbs
    BY Zenon DEF Probe
  <2>2. ~Fails("r_probe")
    BY <1>3 DEF Fails
  <2>3. seen = TRUE /\ renamed = TRUE /\ UNCHANGED faults
    BY <1>3, <2>1, <2>2
  <2>4. QED
    BY <2>1, <2>3
<1>6. /\ Names' /\ Limits'
      /\ Kept(Main)' /\ Restorable(snapshot)' /\ Others'
  <2>1. CASE Kept(Main) /\ ~Exists(aside)
    BY <1>1, <1>2, <1>3, <1>5, <2>1, FilesOnly DEF Kept, Restorable, Undoing, Others, PointHolds,
       Exists
  <2>2. CASE Renamed
    <3>1. dbs' = [dbs EXCEPT ![Main] = dbs[aside], ![aside] = None]
      BY <1>5, <2>2 DEF Renamed, Kept
    <3>2. Exists(aside) /\ ~Exists(Main) /\ Kept(aside)
      BY <2>2 DEF Renamed, Kept
    <3>3. Names' /\ Limits'
      BY <1>1, <1>4, <1>5, <3>1, <3>2, RenamedNames
    <3>4. /\ dbs'[Main] = dbs[aside]
          /\ \A n \in Name : n # Main /\ n # aside => dbs'[n] = dbs[n]
      BY <1>4, <3>1, <3>2, Renaming
    <3>5. Kept(Main)' /\ Restorable(snapshot)'
      BY <1>1, <1>3, <1>4, <3>2, <3>4 DEF Kept, Restorable, Exists
    <3>6. Others'
      BY <1>1, <1>2, <1>4, <3>4, NameFacts DEF Undoing, Others, PointHolds, Exists
    <3>7. QED
      BY <3>3, <3>5, <3>6
  <2>3. QED
    BY <1>2, <2>1, <2>2
<1>7. Undoing' /\ UndoStart' /\ ToUndo'
  BY <1>1, <1>2, <1>5, <1>6 DEF Undoing, UndoStart, ToUndo, Moving, Matches
<1>8. QED
  BY <1>1, <1>6, <1>7, Arrives DEF AtUpdate, AtUndoUpdate, AtRollback, AtUndoRollback

LEMMA RollbackEnds ==
  ASSUME OneFailure, TypeInv, TypeInv', UndoInv, CleanUp
  PROVE  UndoInv'
<1> USE DEF Goto, Return, files, databases, locals, ghosts, bounds
<1>1. /\ pc = "r_clean" /\ pc' = "idle" /\ last' = "rolledback"
      /\ UNCHANGED <<dbs, minute, pkg, snapshot, aside, pre, crashes>>
  BY DEF CleanUp
<1>2. PreviousThere /\ Switched
  BY <1>1 DEF UndoInv, AtRollback
<1>3. marker' \in {marker, None} /\ (UNCHANGED faults \/ (faults > 0 /\ faults' = faults - 1))
  BY ZenonT(60) DEF CleanUp, Fails
<1>4. dirs'.live = dirs.live /\ dirs'.back = Empty
  BY DirNames DEF CleanUp, TypeInv, TypeOK
<1>5. Coherent'
  BY <1>1, <1>2, <1>4 DEF PreviousThere, Switched, Restorable, Coherent
<1>6. Point'
  BY <1>4 DEF Point, Empty, Bin, Items
<1>7. Names'
  BY <1>1, <1>3 DEF UndoInv, Names, Exists
<1>8. Limits'
  BY <1>1, <1>3, LimitsKept DEF UndoInv
<1>9. QED
  BY <1>1, <1>5, <1>6, <1>7, <1>8, Arrives DEF AtRest, AtUpdate, AtUndoUpdate, AtRollback, AtUndoRollback

LEMMA UndoSwitches ==
  ASSUME OneFailure, TypeInv, TypeInv', UndoInv,
         \/ Close("b_close", aside, "b_dbaside", "b_start")
         \/ SetDatabaseAside("b_dbaside", snapshot, "b_open", "b_start")
  PROVE  UndoInv'
<1> USE DEF Goto, Return, files, databases, locals, ghosts, bounds
<1>1. pc \in {"b_close", "b_dbaside"}
  BY DEF Close, SetDatabaseAside
<1>2. Undoing /\ BothBack /\ Switched
  BY <1>1 DEF UndoInv, AtUndoRollback
<1>3. /\ faults = 0 /\ snapshot \in Before /\ aside[1] = "rolled" /\ Exists(Main)
      /\ Others /\ Matches(pre.live, pre.main) /\ ~Exists(snapshot)
  BY <1>2 DEF Undoing, Switched, Restorable, Matches, Exists
<1>4. /\ Main \in Name /\ snapshot \in Name /\ aside \in Name
      /\ Main # snapshot /\ Main # aside /\ aside # snapshot
      /\ Main \notin Before /\ aside \notin Before
  BY <1>3, RollbackNames
<1>5. CASE Close("b_close", aside, "b_dbaside", "b_start")
  <2>1. /\ pc = "b_close" /\ pc' = "b_dbaside"
        /\ UNCHANGED <<dirs, marker, minute, pkg, snapshot, aside, undoDb, pre, crashes, faults>>
        /\ dbs' = [dbs EXCEPT ![Main].open = FALSE]
    BY <1>3, <1>5 DEF Close, Fails
  <2>2. Names' /\ Limits' /\ SameDatabases
    BY <1>3, <2>1, Reopens
  <2>3. Others' /\ Matches(pre.live, pre.main)' /\ BothBack' /\ Switched'
    BY <1>2, <1>3, <2>1, <2>2, RollbackRest
  <2>4. Undoing'
    BY <1>2, <2>1, <2>3 DEF Undoing
  <2>5. QED
    BY <2>1, <2>2, <2>3, <2>4, Arrives DEF AtUpdate, AtUndoUpdate, AtRollback, AtUndoRollback
<1>6. CASE SetDatabaseAside("b_dbaside", snapshot, "b_open", "b_start")
  <2>1. /\ pc = "b_dbaside" /\ pc' = "b_open"
        /\ UNCHANGED <<dirs, marker, minute, pkg, snapshot, aside, undoDb, pre, crashes, faults>>
        /\ dbs' = [dbs EXCEPT ![snapshot] = dbs[Main], ![Main] = None]
    BY <1>3, <1>6 DEF SetDatabaseAside, Fails
  <2>2. snapshot[2] <= minute
    BY DEF UndoInv, Names
  <2>3. Names' /\ Limits'
    BY <1>3, <1>4, <2>1, <2>2, RenamedNames
  <2>4. Others' /\ Matches(pre.live, pre.main)' /\ BothBack'
    BY <1>2, <1>3, <1>4, <2>1, RenamedRest
  <2>5. dbs'[snapshot] = dbs[Main] /\ dbs'[Main] = None /\ dbs'[aside] = dbs[aside]
    <3>1. /\ dbs'[snapshot] = dbs[Main] /\ dbs'[Main] = None
          /\ \A n \in Name : n # snapshot /\ n # Main => dbs'[n] = dbs[n]
      BY <1>3, <1>4, <2>1, Renaming
    <3>2. QED
      BY <1>3, <1>4, <3>1
  <2>6. Renamed'
    BY <1>2, <2>1, <2>5 DEF Switched, Renamed, Kept, Restorable, Exists
  <2>7. Undoing'
    BY <1>2, <2>1, <2>4 DEF Undoing
  <2>8. QED
    BY <2>1, <2>3, <2>4, <2>6, <2>7, Arrives DEF AtUpdate, AtUndoUpdate, AtRollback, AtUndoRollback
<1>7. QED
  BY <1>5, <1>6

LEMMA UndoPutsBack ==
  ASSUME OneFailure, TypeInv, TypeInv', UndoInv,
         \/ Open("b_open", snapshot, "b_put")
         \/ PutDatabaseBack("b_put", aside, "b_start", "b_start")
  PROVE  UndoInv'
<1> USE DEF Goto, Return, files, databases, locals, ghosts, bounds
<1>1. pc \in {"b_open", "b_put"}
  BY DEF Open, PutDatabaseBack
<1>2. Undoing /\ BothBack /\ Renamed
  BY <1>1 DEF UndoInv, AtUndoRollback
<1>3. /\ faults = 0 /\ snapshot \in Before /\ aside[1] = "rolled" /\ ~Exists(Main)
      /\ Others /\ Matches(pre.live, pre.main) /\ Exists(snapshot) /\ Exists(aside)
  BY <1>2 DEF Undoing, Renamed, Kept, Restorable, Matches, Exists
<1>4. /\ Main \in Name /\ snapshot \in Name /\ aside \in Name
      /\ Main # snapshot /\ Main # aside /\ aside # snapshot
      /\ Main \notin Before /\ aside \notin Before /\ Main[2] <= minute
  BY <1>3, RollbackNames
<1>5. CASE Open("b_open", snapshot, "b_put")
  <2>1. /\ pc = "b_open" /\ pc' = "b_put"
        /\ UNCHANGED <<dirs, marker, minute, pkg, snapshot, aside, undoDb, pre, crashes, faults>>
        /\ dbs' = [dbs EXCEPT ![snapshot].open = TRUE]
    BY <1>3, <1>5 DEF Open, Fails
  <2>2. SameDatabases /\ dbs'[snapshot].open /\ \A n \in Name : n # snapshot => dbs'[n] = dbs[n]
    BY <1>3, <1>4, <2>1, LetIn
  <2>3. minute <= minute' /\ \A n \in Before : n # snapshot => dbs'[n] = dbs[n]
    BY <2>1, <2>2, NameFacts DEF TypeInv, TypeOK
  <2>4. Names' /\ Limits'
    BY <2>1, <2>2, <2>3, NamesKept, LimitsKept DEF UndoInv
  <2>5. Others' /\ Matches(pre.live, pre.main)' /\ BothBack' /\ Renamed'
    BY <1>2, <1>3, <2>1, <2>2, RollbackRest
  <2>6. Undoing'
    BY <1>2, <2>1, <2>5 DEF Undoing
  <2>7. QED
    BY <2>1, <2>4, <2>5, <2>6, Arrives DEF AtUpdate, AtUndoUpdate, AtRollback, AtUndoRollback
<1>6. CASE PutDatabaseBack("b_put", aside, "b_start", "b_start")
  <2>1. /\ pc = "b_put" /\ pc' = "b_start"
        /\ UNCHANGED <<dirs, marker, minute, pkg, snapshot, aside, undoDb, pre, crashes, faults>>
        /\ dbs' = [dbs EXCEPT ![Main] = dbs[aside], ![aside] = None]
    BY <1>3, <1>6 DEF PutDatabaseBack, Fails
  <2>2. Names' /\ Limits'
    BY <1>3, <1>4, <2>1, RenamedNames
  <2>3. Others' /\ Matches(pre.live, pre.main)' /\ BothBack'
    BY <1>2, <1>3, <1>4, <2>1, RenamedRest
  <2>4. dbs'[Main] = dbs[aside] /\ dbs'[snapshot] = dbs[snapshot]
    <3>1. /\ dbs'[Main] = dbs[aside] /\ dbs'[aside] = None
          /\ \A n \in Name : n # Main /\ n # aside => dbs'[n] = dbs[n]
      BY <1>3, <1>4, <2>1, Renaming
    <3>2. QED
      BY <1>3, <1>4, <3>1
  <2>5. Kept(Main)' /\ Restorable(snapshot)'
    BY <1>2, <1>3, <2>1, <2>4 DEF Renamed, Kept, Restorable, Exists
  <2>6. Undoing'
    BY <1>2, <2>1, <2>3 DEF Undoing
  <2>7. QED
    BY <2>1, <2>2, <2>3, <2>5, <2>6, Arrives DEF AtUpdate, AtUndoUpdate, AtRollback, AtUndoRollback
<1>7. QED
  BY <1>5, <1>6

LEMMA RollbackOf ==
  ASSUME OneFailure, TypeInv, TypeInv', UndoInv, RollbackStep \/ UndoRollbackStep
  PROVE  UndoInv'
BY RollbackStops, RollbackCalm, RollbackSavesCurrent, RollbackPutsPrevious, UndoTakesBack,
   UndoPutsCurrent, RollbackCloses, RollbackSetsAside, RollbackPutsBack, RollbackProbes,
   RollbackEnds, UndoSwitches, UndoPutsBack
   DEF RollbackStep, UndoRollbackStep

-----------------------------------------------------------------------------
(* A job begins, and what happens around it. *)

LEMMA Begins ==
  ASSUME OneFailure, TypeInv, TypeInv', UndoInv, BeginUpdate \/ BeginRollback
  PROVE  UndoInv'
<1> USE DEF Goto, Return, files, databases, locals, ghosts, bounds
<1>1. /\ pc = "idle" /\ minute' = minute + 1 /\ faults' = MaxFaults
      /\ UNCHANGED <<dirs, marker, dbs, aside, pre, crashes>>
  BY DEF OneFailure, BeginUpdate, BeginRollback, Begin
<1>2. minute \in Nat
  BY DEF TypeInv, TypeOK
<1>3. Coherent /\ Point
  BY <1>1 DEF UndoInv, AtUpdate, AtRest
<1>4. Coherent' /\ Point' /\ (PointHolds(dirs.back, Before) => PointHolds(dirs.back, Before)')
  BY <1>1, <1>3 DEF Coherent, Point, PointHolds, Matches, Exists
<1>5. Fresh'
  BY <1>1, <1>2 DEF Name, UndoInv, Names, Fresh, Exists
<1>6. Limits'
  BY <1>1, LimitsKept DEF UndoInv
<1>7. ASSUME snapshot'[2] <= minute', pc' # "b_open" PROVE Names'
  BY <1>1, <1>2, <1>7 DEF Name, TypeInv, TypeOK, UndoInv, Names, Exists
<1>8. CASE BeginUpdate
  BY <1>1, <1>2, <1>4, <1>5, <1>6, <1>7, <1>8, Arrives DEF BeginUpdate, TypeInv, TypeOK, Name,
     UndoInv, Names, AtUpdate, AtUndoUpdate, AtRollback, AtUndoRollback
<1>9. CASE BeginRollback
  BY <1>1, <1>2, <1>3, <1>4, <1>5, <1>6, <1>7, <1>9, NameFacts, Arrives DEF BeginRollback, Exists,
     RollbackCopies, Newest, OlderSnapshots, UndoInv, Names, Name, Chosen, Point, AtUpdate,
     AtUndoUpdate, AtRollback, AtUndoRollback
<1>10. QED
  BY <1>8, <1>9

LEMMA WriteCalm ==
  ASSUME TypeInv, Write
  PROVE  Calm /\ UNCHANGED <<pc, last, undoDb>>
<1>1. Exists(Main) /\ Main \in Name /\ dbs[Main] \in Database
  BY NameFacts DEF Write, Exists, TypeInv, TypeOK
<1>2. dbs' = [dbs EXCEPT ![Main].writes = @ \union {nextWrite}]
  BY DEF Write
<1>3. dbs'[Main] = [dbs[Main] EXCEPT !.writes = @ \union {nextWrite}]
      /\ \A n \in Name : n # Main => dbs'[n] = dbs[n]
  BY <1>1, <1>2 DEF TypeInv, TypeOK
<1>4. [dbs[Main] EXCEPT !.writes = @ \union {nextWrite}] \in Database
  BY <1>1, DatabaseKinds DEF TypeInv, TypeOK
<1>5. dbs'[Main] # None
  BY <1>3, <1>4, DatabaseKinds
<1>6. /\ dbs'[Main].id = dbs[Main].id /\ dbs'[Main].schema = dbs[Main].schema
      /\ dbs'[Main].open = dbs[Main].open /\ dbs[Main].writes \subseteq dbs'[Main].writes
  BY <1>1, <1>3 DEF Database
<1>7. SameDatabases /\ \A n \in Name : Exists(n) => dbs'[n].open = dbs[n].open
  BY <1>1, <1>3, <1>5, <1>6 DEF SameDatabases, Exists
<1>8. /\ UNCHANGED <<dirs, marker, pkg, snapshot, aside, pre, crashes, minute, faults>>
      /\ UNCHANGED <<pc, last, undoDb>>
  BY DEF Write, files, locals
<1>9. minute <= minute'
  BY <1>8 DEF TypeInv, TypeOK
<1>10. QED
  BY <1>7, <1>8, <1>9 DEF Calm

LEMMA Removes ==
  ASSUME OneFailure, TypeInv, TypeInv', UndoInv, RemoveKept
  PROVE  UndoInv'
<1> USE DEF files, databases, locals, ghosts, bounds
<1>1. /\ pc = "idle"
      /\ UNCHANGED <<dirs, marker, minute, pc, pkg, snapshot, aside, undoDb, pre, faults, last, crashes>>
  BY DEF RemoveKept, Meddle, OneFailure
<1>2. PICK n \in Name \ {Main} : dbs' = [dbs EXCEPT ![n] = None]
  BY DEF RemoveKept
<1>3. Main \in Name
  BY NameFacts
<1>4. /\ dbs'[Main] = dbs[Main]
      /\ \A m \in Name : Exists(m)' => Exists(m) /\ dbs'[m] = dbs[m]
  BY <1>2, <1>3 DEF TypeInv, TypeOK, Exists
<1>5. AtRest
  BY <1>1 DEF UndoInv, AtUpdate
<1>6. Coherent'
  BY <1>1, <1>4, <1>5 DEF AtRest, Coherent
<1>7. Point'
  BY <1>1, <1>4, <1>5, NameFacts DEF AtRest, Point, PointHolds
<1>8. FilesUndone => FilesUndone'
  BY <1>1 DEF FilesUndone, Matches, Empty
<1>9. (DatabaseUndone => DatabaseUndone') /\ (Kept(Main) => Kept(Main)') /\ (BothBack => BothBack')
  BY <1>1, <1>4 DEF DatabaseUndone, On, Kept, BothBack, Exists
<1>10. AtRest'
  BY <1>1, <1>5, <1>6, <1>7, <1>8, <1>9 DEF AtRest
<1>11. Names' /\ Limits'
  BY <1>1, <1>4, NameFacts DEF UndoInv, Names, Limits
<1>12. QED
  BY <1>1, <1>10, <1>11, Arrives DEF AtUpdate, AtUndoUpdate, AtRollback, AtUndoRollback

LEMMA UndoStep ==
  ASSUME OneFailure, TypeInv, TypeInv', SnapshotHeld, UndoInv, [Next]_vars
  PROVE  UndoInv'
<1>1. CASE Tick \/ ControlStart
  BY <1>1, CalmStays DEF Tick, ControlStart, Calm, SameDatabases, TypeInv, TypeOK, files,
     databases, locals, ghosts, bounds
<1>2. CASE Write
  BY <1>2, WriteCalm, CalmStays
<1>3. CASE UNCHANGED vars
  BY <1>3, CalmStays DEF vars, Calm, SameDatabases, TypeInv, TypeOK, files, databases, locals,
     ghosts, bounds
<1>4. ~Crash
  BY DEF Crash, OneFailure, UndoInv, Limits
<1>5. QED
  BY <1>1, <1>2, <1>3, <1>4, UpdateStep, RollbackOf, Begins, Removes DEF Next

LEMMA UndoStarts ==
  ASSUME Init, OneFailure
  PROVE  UndoInv
<1>1. /\ dirs = [live |-> Package(Installed), back |-> Empty, current |-> Empty]
      /\ marker = None /\ minute = 0 /\ pc = "idle" /\ last = "none" /\ faults = 0 /\ crashes = 0
      /\ snapshot = Main /\ aside = Main
      /\ dbs = [n \in Name |-> IF n = Main
                 THEN [id |-> 0, schema |-> Installed, writes |-> {}, open |-> TRUE]
                 ELSE None]
  BY DEF Init
<1>2. /\ dbs[Main] = [id |-> 0, schema |-> Installed, writes |-> {}, open |-> TRUE]
      /\ \A n \in Name : n # Main => dbs[n] = None
  BY <1>1, NameFacts
<1>3. dbs[Main] \in Database
  BY <1>2 DEF Database
<1>4. dbs[Main] # None
  BY <1>3, DatabaseKinds
<1>5. Coherent
  BY <1>1, <1>2, <1>4 DEF Coherent, Matches, Package
<1>6. Point
  BY <1>1 DEF Point, Empty, Bin, Items
<1>7. Names
  BY <1>1, <1>2, NameFacts, BeforeIsNotMain DEF Names, Exists, Main
<1>8. QED
  BY <1>1, <1>5, <1>6, <1>7 DEF UndoInv, Limits, AtRest, AtUpdate, AtUndoUpdate, AtRollback, AtUndoRollback

LEMMA UndoAlways ==
  ASSUME OneFailure
  PROVE  Spec => []UndoInv
<1>1. Init => UndoInv
  BY UndoStarts
<1>2. TypeInv /\ TypeInv' /\ SnapshotHeld /\ UndoInv /\ [Next]_vars => UndoInv'
  BY UndoStep
<1>3. QED
  BY <1>1, <1>2, Invariant, SnapshotSafe, PTL DEF Spec

(* An update that fails, wherever that is, in a call, in the new version's *)
(* migration or because it does not come up, leaves every item of the      *)
(* earlier version in its place, on a database with the earlier schema and *)
(* all that was stored in it (safe_update's undo).                         *)
THEOREM FailedUpdateIsUndone ==
  ASSUME OneFailure
  PROVE  Spec => []FailedUpdateUndone
<1>1. UndoInv => FailedUpdateUndone
  BY DEF UndoInv, AtUpdate, AtRest, FilesUndone, DatabaseUndone, On, FailedUpdateUndone
<1>2. QED
  BY <1>1, UndoAlways, PTL

(* A rollback that fails leaves both versions' files as they were, and the *)
(* same database in use, however far the switch had got (rollback's undo). *)
THEOREM FailedRollbackIsUndone ==
  ASSUME OneFailure
  PROVE  Spec => []FailedRollbackUndone
<1>1. UndoInv => FailedRollbackUndone
  BY DEF UndoInv, AtUpdate, AtRest, BothBack, Kept, FailedRollbackUndone
<1>2. QED
  BY <1>1, UndoAlways, PTL

(* Whatever updates and rollbacks ran before, failed or not, and whatever  *)
(* kept copies the operator removed: the copy rollback would choose, by    *)
(* the marker or as the newest, has the schema of the version it would put *)
(* back, and that version is complete (rollback_point, older_snapshots).   *)
THEOREM RollbackPointIsCoherent ==
  ASSUME OneFailure
  PROVE  Spec => []RollbackPointCoherent
<1>1. UndoInv => RollbackPointCoherent
  <2> SUFFICES ASSUME UndoInv, pc = "idle", dirs.back[Bin] # Absent,
                      NEW n \in RollbackCopies, Exists(n)
               PROVE  Matches(dirs.back, dbs[n])
    BY DEF RollbackPointCoherent
  <2>1. PointHolds(dirs.back, Before) /\ marker \in Before \union {None}
    BY DEF UndoInv, AtUpdate, AtRest, Point, Names
  <2>2. n \in Before /\ marker \in {n, None}
    BY <2>1 DEF RollbackCopies, Newest, OlderSnapshots
  <2>3. QED
    BY <2>1, <2>2 DEF PointHolds
<1>2. QED
  BY <1>1, UndoAlways, PTL
=============================================================================
