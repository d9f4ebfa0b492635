----------------------------- MODULE SafeUpdate -----------------------------
(***************************************************************************)
(* Safe update and rollback of a native installation                       *)
(* (sentient-installer-core/src/native/safe_update.rs).                    *)
(*                                                                         *)
(* One job at a time moves program directories, renames PostgreSQL         *)
(* databases and stops and starts the service.  No two of these happen     *)
(* together, each can fail, and the job can be killed between any two.     *)
(* One action is one rename, one copied directory, one SQL statement or    *)
(* one service call; the subroutines safe_update and rollback share        *)
(* (stop_server, move_items, restore_database, start_and_check) are        *)
(* operators over the program points their caller enters and leaves by.    *)
(***************************************************************************)
EXTENDS Naturals, FiniteSets

CONSTANTS
  Versions,     \* the versions of SENTIENT packages exist of
  Installed,    \* the one installed at the beginning
  NItems,       \* how many entries ITEMS has
  Ships,        \* the items the package of each version holds
  Absent,       \* a directory that does not exist
  Partial,      \* half copied, half removed, or half migrated
  None,         \* no database, no marker
  MayFail,      \* the program points at which a call may fail
  MaxFaults,    \* bound: failures injected into one job
  MaxCrashes,   \* bound: jobs killed
  MaxJobs,      \* bound: jobs started
  MaxMinute,    \* bound: the clock the kept names are made of
  MaxWrites,    \* bound: writes by SENTIENT
  SameMinute,   \* may two jobs run within one minute
  Meddles       \* what the operator does while a job runs too

Items == 1..NItems
Bin == 1
Dirs == {"live", "back", "current"}
Name == {"main", "before", "failed", "rolled"} \X (0..MaxMinute)
Main == <<"main", 0>>
Before == {n \in Name : n[1] = "before"}
Tree == Versions \union {Absent, Partial}
Database ==
  [id : Nat, schema : Versions \union {Partial}, writes : SUBSET Nat, open : BOOLEAN]
Steps == {"idle",
  "stop", "dryrun", "abort", "aborting", "close", "copy", "open", "clear", "setaside",
  "install", "upgrade", "start", "check", "prune", "note",
  "u_stop", "u_files", "u_close", "u_aside", "u_open", "u_put", "u_start", "u_check",
  "r_stop", "r_clear", "r_aside", "r_files", "r_close", "r_dbaside", "r_open", "r_put",
  "r_probe", "r_start", "r_check", "r_clean",
  "b_stop", "b_back", "b_files", "b_db", "b_close", "b_dbaside", "b_open", "b_put",
  "b_start", "b_check"}

ASSUME SafeUpdateAssumption ==
  /\ Installed \in Versions
  /\ NItems \in Nat \ {0}
  /\ Ships \in [Versions -> SUBSET Items]
  /\ \A v \in Versions : Bin \in Ships[v]
  /\ {Absent, Partial} \cap Versions = {}
  /\ Absent # Partial
  /\ None \notin Database /\ None \notin Name
  /\ MayFail \subseteq Steps
  /\ MaxFaults \in Nat /\ MaxCrashes \in Nat /\ MaxJobs \in Nat
  /\ MaxMinute \in Nat /\ MaxWrites \in Nat
  /\ SameMinute \in BOOLEAN
  /\ Meddles \subseteq {"start", "remove"}

VARIABLES
  dirs,       \* the items in install_dir, previous-version, rolled-back-version
  marker,     \* the snapshot ROLLBACK.txt names
  dbs,        \* the databases of the PostgreSQL server, by name
  nextId,     \* the next database's identity (its oid)
  service,    \* is SENTIENT running
  minute,     \* the wall clock, as the names see it
  pc,         \* where the running job is
  pkg,        \* the version in staging
  snapshot,   \* the name of the copy from before
  aside,      \* the name the replaced database gets
  undoDb,     \* rollback's undo puts the database back too
  faults, crashes, jobs, nextWrite,   \* used up of the bounds
  pre,        \* as it was when the job had stopped SENTIENT
  acked,      \* the writes made while no job ran
  last,       \* how the last job ended
  meddled     \* what the operator did in the course of the last job

files == <<dirs, marker>>
databases == <<dbs, nextId>>
locals == <<pkg, snapshot, aside, undoDb>>
ghosts == <<pre, acked, last>>
bounds == <<crashes, jobs, nextWrite, meddled>>   \* what no step of a job changes
vars == <<files, databases, service, minute, pc, locals, faults, ghosts, bounds>>

Package(v) == [k \in Items |-> IF k \in Ships[v] THEN v ELSE Absent]
Empty == [k \in Items |-> Absent]
Exists(n) == dbs[n] # None

(* What is on disk and in PostgreSQL fits together: one version, complete, *)
(* on its own schema.  Files only another version has do no harm.          *)
Matches(tree, db) ==
  /\ db # None
  /\ db.schema # Partial
  /\ \A k \in Ships[db.schema] : tree[k] = db.schema
Coherent == Matches(dirs.live, dbs[Main])

(* The server program is there and can connect. *)
Startable == dirs.live[Bin] \in Versions /\ Exists(Main) /\ dbs[Main].open

Init ==
  /\ dirs = [live |-> Package(Installed), back |-> Empty, current |-> Empty]
  /\ marker = None
  /\ dbs = [n \in Name |-> IF n = Main
              THEN [id |-> 0, schema |-> Installed, writes |-> {}, open |-> TRUE]
              ELSE None]
  /\ nextId = 1
  /\ service = "up"
  /\ minute = 0
  /\ pc = "idle"
  /\ pkg = Installed /\ snapshot = Main /\ aside = Main /\ undoDb = FALSE
  /\ faults = 0 /\ crashes = 0 /\ jobs = 0 /\ nextWrite = 0
  /\ pre = [live |-> Package(Installed), back |-> Empty, main |-> None]
  /\ acked = {}
  /\ last = "none"
  /\ meddled = {}

-----------------------------------------------------------------------------
(* Failures.  A call at a point of MayFail fails while the job's budget lasts. *)
Fails(at) == at \in MayFail /\ faults > 0 /\ faults' = faults - 1

Goto(step) == pc' = step

(* The job returns; how it ended is what its report says. *)
Return(result) == pc' = "idle" /\ last' = result

-----------------------------------------------------------------------------
(* The services. *)

(* Variant with a fault: a service that did not stop is not noticed. *)
StopServerUnnoticed(at, then) ==
  /\ pc = at
  /\ \/ service' = "down" /\ UNCHANGED faults
     \/ Fails(at) /\ UNCHANGED service
  /\ pre' = [live |-> dirs.live, back |-> dirs.back, main |-> dbs[Main]]
  /\ Goto(then)
  /\ UNCHANGED <<files, databases, minute, locals, acked, last, bounds>>

(* stop_server before anything else: when it fails, start_service is tried *)
(* and the job gives up.                                                   *)
StopServer(at, then) ==
  /\ pc = at
  /\ \/ /\ service' = "down"
        /\ pre' = [live |-> dirs.live, back |-> dirs.back, main |-> dbs[Main]]
        /\ Goto(then)
        /\ UNCHANGED <<faults, last>>
     \/ /\ Fails(at)
        /\ service' \in {"down"} \union (IF Startable THEN {"up"} ELSE {})
        /\ Return("refused")
        /\ UNCHANGED pre
  /\ UNCHANGED <<files, databases, minute, locals, acked, bounds>>

(* stop_server in an undo: its result is ignored. *)
StopServerAgain(at, then) ==
  /\ pc = at
  /\ \/ service' = "down" /\ UNCHANGED faults
     \/ Fails(at) /\ UNCHANGED service
  /\ Goto(then)
  /\ UNCHANGED <<files, databases, minute, locals, ghosts, bounds>>

(* start_and_check: start_service, whose result is ignored ... *)
StartService(at, then) ==
  /\ pc = at
  /\ service' = IF Startable THEN "up" ELSE service
  /\ Goto(then)
  /\ UNCHANGED <<files, databases, minute, locals, faults, ghosts, bounds>>

(* ... then three minutes for an answer and twenty seconds to stay up.  A  *)
(* version that does not fit its database may come up or not.              *)
ServerStaysUp == service = "up" /\ Startable /\ UNCHANGED <<service, faults>>
ServerGoesDown(at) ==
  /\ IF Coherent /\ Startable THEN Fails(at) ELSE UNCHANGED faults
  /\ service' \in {service, "down"}
Check(at, then, orElse) ==
  /\ pc = at
  /\ \/ ServerStaysUp /\ Goto(then)
     \/ ServerGoesDown(at) /\ Goto(orElse)
  /\ UNCHANGED <<files, databases, minute, locals, ghosts, bounds>>

(* start_and_check as the last call of a job, its result only reported. *)
LastCheck(at, result) ==
  /\ pc = at
  /\ ServerStaysUp \/ ServerGoesDown(at)
  /\ Return(result)
  /\ UNCHANGED <<files, databases, minute, locals, pre, acked, bounds>>

-----------------------------------------------------------------------------
(* The program files. *)

(* What remove_dir_all can leave of a directory when it fails. *)
Torn(tree) == {tree, Absent} \union (IF tree = Absent THEN {} ELSE {Partial})

First(todo) == {k \in todo : \A j \in todo : k <= j}
Present(dir) == {k \in Items : dirs[dir][k] # Absent}

(* move_items, swap_back and the first loop of swap_in: the items in from,  *)
(* in the order of ITEMS, each after removing (replace) the one in to.  The *)
(* first that cannot be renamed ends the loop.                              *)
MoveItems(at, from, to, replace, then, orElse) ==
  /\ pc = at
  /\ \/ Present(from) = {} /\ Goto(then) /\ UNCHANGED <<dirs, faults>>
     \/ \E k \in First(Present(from)) :
          \/ /\ replace \/ dirs[to][k] = Absent
             /\ dirs' = [dirs EXCEPT ![to][k] = dirs[from][k], ![from][k] = Absent]
             /\ UNCHANGED <<pc, faults>>
          \/ /\ IF replace \/ dirs[to][k] = Absent THEN Fails(at) ELSE UNCHANGED faults
             /\ \E rest \in IF replace THEN Torn(dirs[to][k]) ELSE {dirs[to][k]} :
                  dirs' = [dirs EXCEPT ![to][k] = rest]
             /\ Goto(orElse)
  /\ UNCHANGED <<marker, databases, service, minute, locals, ghosts, bounds>>

(* The same for a directory of items, where the failure is ignored. *)
Remains(items) == {rest \in [Items -> Tree] : \A k \in Items : rest[k] \in Torn(items[k])}

(* swap_in begins: the earlier previous-version goes, marker and all. *)
ClearBack ==
  /\ pc = "clear"
  /\ \/ /\ dirs' = [dirs EXCEPT !.back = Empty]
        /\ marker' = None
        /\ Goto("setaside")
        /\ UNCHANGED faults
     \/ /\ Fails("clear")
        /\ \E rest \in Remains(dirs.back) :
             /\ dirs' = [dirs EXCEPT !.back = rest]
             /\ pc' \in {"setaside"} \union (IF rest = Empty THEN {"u_stop"} ELSE {})
        /\ marker' \in {marker, None}
  /\ UNCHANGED <<databases, service, minute, locals, ghosts, bounds>>

(* The second loop of swap_in: copy_tree for each item of the package. *)
ToInstall == {k \in Ships[pkg] : dirs.live[k] = Absent}
CopyTree ==
  /\ pc = "install"
  /\ \/ ToInstall = {} /\ Goto("upgrade") /\ UNCHANGED <<dirs, faults>>
     \/ \E k \in First(ToInstall) :
          \/ dirs' = [dirs EXCEPT !.live[k] = pkg] /\ UNCHANGED <<pc, faults>>
          \/ /\ Fails("install")
             /\ dirs' = [dirs EXCEPT !.live[k] = Partial]
             /\ Goto("u_stop")
  /\ UNCHANGED <<marker, databases, service, minute, locals, ghosts, bounds>>

-----------------------------------------------------------------------------
(* The databases. *)

(* exclusive begins: no new sessions, and the ones there are terminated. *)
Close(at, name, then, orElse) ==
  /\ pc = at
  /\ aside' = name
  /\ \/ /\ Exists(Main)
        /\ dbs' = [dbs EXCEPT ![Main].open = FALSE]
        /\ Goto(then)
        /\ UNCHANGED faults
     \/ /\ IF Exists(Main) THEN Fails(at) ELSE UNCHANGED faults
        /\ Goto(orElse)
        /\ UNCHANGED dbs
  /\ UNCHANGED <<files, nextId, service, minute, pkg, snapshot, undoDb, ghosts, bounds>>

(* exclusive ends after its statement failed: connections are let in again *)
(* by another psql, which can fail the way the first did and is ignored.   *)
Reopened(obstructed) ==
  {[dbs EXCEPT ![Main].open = o] :
     o \in {TRUE} \union (IF ~obstructed /\ "open" \in MayFail THEN {FALSE} ELSE {})}

(* Variant with a fault: the update goes on without the copy. *)
CopyDatabaseUnnoticed ==
  /\ pc = "copy"
  /\ \/ /\ ~Exists(snapshot)
        /\ dbs' = [dbs EXCEPT ![snapshot] = [dbs[Main] EXCEPT !.id = nextId, !.open = TRUE]]
        /\ nextId' = nextId + 1
        /\ UNCHANGED faults
     \/ Fails("copy") /\ UNCHANGED databases
  /\ Goto("open")
  /\ UNCHANGED <<files, service, minute, locals, ghosts, bounds>>

(* CREATE DATABASE ... TEMPLATE, within exclusive. *)
CopyDatabase ==
  /\ pc = "copy"
  /\ \/ /\ ~Exists(snapshot)
        /\ dbs' = [dbs EXCEPT ![snapshot] = [dbs[Main] EXCEPT !.id = nextId, !.open = TRUE]]
        /\ nextId' = nextId + 1
        /\ Goto("open")
        /\ UNCHANGED faults
     \/ /\ IF Exists(snapshot) THEN UNCHANGED faults ELSE Fails("copy")
        /\ dbs' \in Reopened(Exists(snapshot))
        /\ Goto("abort")
        /\ UNCHANGED nextId
  /\ UNCHANGED <<files, service, minute, locals, ghosts, bounds>>

(* ALTER DATABASE ... ALLOW_CONNECTIONS true, its failure ignored. *)
Open(at, name, then) ==
  /\ pc = at
  /\ \/ Exists(name) /\ dbs' = [dbs EXCEPT ![name].open = TRUE] /\ UNCHANGED faults
     \/ Fails(at) /\ UNCHANGED dbs
     \/ ~Exists(name) /\ UNCHANGED <<dbs, faults>>
  /\ Goto(then)
  /\ UNCHANGED <<files, nextId, service, minute, locals, ghosts, bounds>>

(* restore_database, first rename: the database in use becomes name. *)
SetDatabaseAside(at, name, then, orElse) ==
  /\ pc = at
  /\ \/ /\ ~Exists(name)
        /\ dbs' = [dbs EXCEPT ![name] = dbs[Main], ![Main] = None]
        /\ Goto(then)
        /\ UNCHANGED faults
     \/ /\ IF Exists(name) THEN UNCHANGED faults ELSE Fails(at)
        /\ dbs' \in Reopened(Exists(name))
        /\ Goto(orElse)
  /\ UNCHANGED <<files, nextId, service, minute, locals, ghosts, bounds>>

(* restore_database, second rename: the copy becomes the database in use. *)
PutDatabaseBack(at, name, then, orElse) ==
  /\ pc = at
  /\ \/ /\ Exists(name) /\ ~Exists(Main)
        /\ dbs' = [dbs EXCEPT ![Main] = dbs[name], ![name] = None]
        /\ Goto(then)
        /\ UNCHANGED faults
     \/ /\ IF Exists(name) /\ ~Exists(Main) THEN Fails(at) ELSE UNCHANGED faults
        /\ Goto(orElse)
        /\ UNCHANGED dbs
  /\ UNCHANGED <<files, nextId, service, minute, locals, ghosts, bounds>>

(* Variant with a fault: a refused update leaves SENTIENT stopped. *)
DryRunStops ==
  /\ pc = "dryrun"
  /\ \/ /\ Exists(Main) /\ dbs[Main].open
        /\ snapshot' = <<"before", minute>>
        /\ Goto("close")
        /\ UNCHANGED last
     \/ Return("refused") /\ UNCHANGED snapshot
  /\ UNCHANGED <<files, databases, service, minute, pkg, aside, undoDb, faults, pre, acked, bounds>>

(* The schema tool, as a dry run. A failure or a breaking change nobody    *)
(* accepted ends the update; otherwise the copy of the database is named.  *)
DryRun ==
  /\ pc = "dryrun"
  /\ \/ /\ Exists(Main) /\ dbs[Main].open
        /\ snapshot' = <<"before", minute>>
        /\ Goto("close")
        /\ UNCHANGED faults
     \/ /\ Goto("abort")
        /\ UNCHANGED <<snapshot, faults>>
  /\ UNCHANGED <<files, databases, service, minute, pkg, aside, undoDb, ghosts, bounds>>

(* Variants with a fault: the copy is migrated; a failed migration is not  *)
(* noticed; after one the version is started without being put back.       *)
UpgradeCopy ==
  /\ pc = "upgrade"
  /\ dbs' = [dbs EXCEPT ![snapshot].schema = pkg]
  /\ Goto("start")
  /\ UNCHANGED <<files, nextId, service, minute, locals, faults, ghosts, bounds>>
UpgradeThen(failed) ==
  /\ pc = "upgrade"
  /\ \/ dbs' = [dbs EXCEPT ![Main].schema = pkg] /\ Goto("start") /\ UNCHANGED faults
     \/ Fails("upgrade") /\ dbs' = [dbs EXCEPT ![Main].schema = Partial] /\ Goto(failed)
  /\ UNCHANGED <<files, nextId, service, minute, locals, ghosts, bounds>>
UpgradeNotUndone == UpgradeThen("u_start")

(* The schema tool. *)
RunUpgrade ==
  /\ pc = "upgrade"
  /\ \/ /\ Exists(Main) /\ dbs[Main].open
        /\ dbs' = [dbs EXCEPT ![Main].schema = pkg]
        /\ Goto("start")
        /\ UNCHANGED faults
     \/ /\ Exists(Main) /\ dbs[Main].open
        /\ Fails("upgrade")
        /\ \E s \in {dbs[Main].schema, Partial} : dbs' = [dbs EXCEPT ![Main].schema = s]
        /\ Goto("u_stop")
     \/ /\ ~(Exists(Main) /\ dbs[Main].open)
        /\ Goto("u_stop")
        /\ UNCHANGED <<dbs, faults>>
  /\ UNCHANGED <<files, nextId, service, minute, locals, ghosts, bounds>>

(* The copies of earlier updates go; one that cannot be dropped stays. *)
OlderSnapshots(keep) == {n \in Before \ {keep} : Exists(n)}
Newest(names) == {n \in names : \A m \in names : m[2] <= n[2]}
DropOlder ==
  /\ pc = "prune"
  /\ \E gone \in SUBSET OlderSnapshots(snapshot) :
       /\ IF gone = OlderSnapshots(snapshot) THEN UNCHANGED faults ELSE Fails("prune")
       /\ dbs' = [n \in Name |-> IF n \in gone THEN None ELSE dbs[n]]
  /\ Goto("note")
  /\ UNCHANGED <<files, nextId, service, minute, locals, ghosts, bounds>>

(* ROLLBACK.txt; a failure is only logged. *)
WriteMarker ==
  /\ pc = "note"
  /\ \/ marker' = snapshot /\ UNCHANGED faults
     \/ Fails("note") /\ UNCHANGED marker
  /\ Return("updated")
  /\ UNCHANGED <<dirs, databases, service, minute, locals, pre, acked, bounds>>

-----------------------------------------------------------------------------
(* The jobs. *)

Begin ==
  /\ pc = "idle"
  /\ jobs < MaxJobs
  /\ SameMinute \/ minute < MaxMinute
  /\ jobs' = jobs + 1
  /\ minute' = IF SameMinute THEN minute ELSE minute + 1
  /\ faults' = MaxFaults
  /\ meddled' = {}

BeginUpdate ==
  /\ Begin
  /\ pkg' \in Versions
  /\ Goto("stop")
  /\ UNCHANGED <<files, databases, service, snapshot, aside, undoDb, ghosts, crashes, nextWrite>>

(* rollback_point and the choice of the copy: the marker's, or the newest. *)
RollbackCopies ==
  IF marker # None THEN {marker} ELSE Newest(OlderSnapshots(None))

(* Without a previous server program or its copy, rollback returns before  *)
(* it changes anything.  Its undo puts the database back only when asked.  *)
BeginRollback ==
  /\ Begin
  /\ dirs.back[Bin] # Absent
  /\ snapshot' \in {n \in RollbackCopies : Exists(n)}
  /\ undoDb' = FALSE
  /\ Goto("r_stop")
  /\ UNCHANGED <<files, databases, service, pkg, aside, ghosts, crashes, nextWrite>>

(* What an earlier rollback left in rolled-back-version goes first. *)
ClearCurrent ==
  /\ pc = "r_clear"
  /\ aside' = <<"rolled", minute>>
  /\ \/ dirs' = [dirs EXCEPT !.current = Empty] /\ UNCHANGED faults
     \/ /\ Fails("r_clear")
        /\ \E rest \in Remains(dirs.current) : dirs' = [dirs EXCEPT !.current = rest]
  /\ Goto("r_aside")
  /\ UNCHANGED <<marker, databases, service, minute, pkg, snapshot, undoDb, ghosts, bounds>>

(* restore_database failed: find out how far it got.  A query that fails   *)
(* reads as "no such database".                                            *)
Probe ==
  /\ pc = "r_probe"
  /\ \E seen, renamed \in BOOLEAN :
       /\ IF seen = Exists(snapshot) /\ renamed THEN UNCHANGED faults ELSE Fails("r_probe")
       /\ seen => Exists(snapshot)
       /\ undoDb' = ~seen
       /\ dbs' = IF seen /\ ~Exists(Main) /\ Exists(aside) /\ renamed
                 THEN [dbs EXCEPT ![Main] = dbs[aside], ![aside] = None]
                 ELSE dbs
  /\ Goto("b_stop")
  /\ UNCHANGED <<files, nextId, service, minute, pkg, snapshot, aside, ghosts, bounds>>

(* Variant with a fault: the undo forgets the database. *)
RollbackCheckFilesOnly ==
  /\ pc = "r_check"
  /\ \/ ServerStaysUp /\ Goto("r_clean")
     \/ ServerGoesDown("r_check") /\ Goto("b_stop")
  /\ undoDb' = FALSE
  /\ UNCHANGED <<files, databases, minute, pkg, snapshot, aside, ghosts, bounds>>

(* start_and_check after the switch: its failure undoes the database too. *)
RollbackCheck ==
  /\ pc = "r_check"
  /\ \/ ServerStaysUp /\ Goto("r_clean") /\ UNCHANGED undoDb
     \/ ServerGoesDown("r_check") /\ Goto("b_stop") /\ undoDb' = TRUE
  /\ UNCHANGED <<files, databases, minute, pkg, snapshot, aside, ghosts, bounds>>

(* Variant with a fault: the database set aside is dropped as well. *)
CleanUpAll ==
  /\ pc = "r_clean"
  /\ dirs' = [dirs EXCEPT !.current = Empty, !.back = Empty]
  /\ marker' = None
  /\ dbs' = [dbs EXCEPT ![aside] = None]
  /\ Return("rolledback")
  /\ UNCHANGED <<nextId, service, minute, locals, faults, pre, acked, bounds>>

(* Success: the replaced files and the rollback point itself go. *)
CleanUp ==
  /\ pc = "r_clean"
  /\ \/ /\ dirs' = [dirs EXCEPT !.current = Empty, !.back = Empty]
        /\ marker' = None
        /\ UNCHANGED faults
     \/ /\ Fails("r_clean")
        /\ \E rest \in Remains(dirs.current) :
             dirs' = [dirs EXCEPT !.current = rest, !.back = Empty]
        /\ marker' \in {marker, None}
  /\ Return("rolledback")
  /\ UNCHANGED <<databases, service, minute, locals, pre, acked, bounds>>

(* rollback's undo put every item back (rolled-back-version is empty now), *)
(* or gave up on the files; on to the database if it was swapped.          *)
UndoDatabase ==
  /\ pc = "b_db"
  /\ Goto(IF undoDb THEN "b_close" ELSE "b_start")
  /\ UNCHANGED <<files, databases, service, minute, locals, faults, ghosts, bounds>>

SafeUpdateStep ==
  \/ StopServer("stop", "dryrun")
  \/ DryRun
  \/ StartService("abort", "aborting")
  \/ LastCheck("aborting", "refused")
  \/ Close("close", aside, "copy", "abort")
  \/ CopyDatabase
  \/ Open("open", Main, "clear")
  \/ ClearBack
  \/ MoveItems("setaside", "live", "back", FALSE, "install", "u_stop")
  \/ CopyTree
  \/ RunUpgrade
  \/ StartService("start", "check")
  \/ Check("check", "prune", "u_stop")
  \/ DropOlder
  \/ WriteMarker

UndoUpdateStep ==
  \/ StopServerAgain("u_stop", "u_files")
  \/ MoveItems("u_files", "back", "live", TRUE, "u_close", "u_close")
  \/ Close("u_close", <<"failed", minute>>, "u_aside", "u_start")
  \/ SetDatabaseAside("u_aside", aside, "u_open", "u_start")
  \/ Open("u_open", aside, "u_put")
  \/ PutDatabaseBack("u_put", snapshot, "u_start", "u_start")
  \/ StartService("u_start", "u_check")
  \/ LastCheck("u_check", "undone")

RollbackStep ==
  \/ StopServer("r_stop", "r_clear")
  \/ ClearCurrent
  \/ MoveItems("r_aside", "live", "current", TRUE, "r_files", "b_stop")
  \/ MoveItems("r_files", "back", "live", TRUE, "r_close", "b_stop")
  \/ Close("r_close", aside, "r_dbaside", "r_probe")
  \/ SetDatabaseAside("r_dbaside", aside, "r_open", "r_probe")
  \/ Open("r_open", aside, "r_put")
  \/ PutDatabaseBack("r_put", snapshot, "r_start", "r_probe")
  \/ Probe
  \/ StartService("r_start", "r_check")
  \/ RollbackCheck
  \/ CleanUp

UndoRollbackStep ==
  \/ StopServerAgain("b_stop", "b_back")
  \/ MoveItems("b_back", "live", "back", TRUE, "b_files", "b_db")
  \/ MoveItems("b_files", "current", "live", TRUE, "b_db", "b_db")
  \/ UndoDatabase
  \/ Close("b_close", aside, "b_dbaside", "b_start")
  \/ SetDatabaseAside("b_dbaside", snapshot, "b_open", "b_start")
  \/ Open("b_open", snapshot, "b_put")
  \/ PutDatabaseBack("b_put", aside, "b_start", "b_start")
  \/ StartService("b_start", "b_check")
  \/ LastCheck("b_check", "rollbackundone")

-----------------------------------------------------------------------------
(* What happens around a job. *)

Tick ==
  /\ minute < MaxMinute
  /\ minute' = minute + 1
  /\ UNCHANGED <<files, databases, service, pc, locals, faults, ghosts, bounds>>

(* The manager's other screens stay open while a job runs. *)
Meddle(act) ==
  /\ pc = "idle" \/ act \in Meddles
  /\ meddled' = IF pc = "idle" THEN meddled ELSE meddled \union {act}

(* native::control("start"), and the start at boot. *)
ControlStart ==
  /\ Meddle("start")
  /\ service = "down" /\ Startable
  /\ service' = "up"
  /\ UNCHANGED <<files, databases, minute, pc, locals, faults, ghosts, crashes, jobs, nextWrite>>

(* SENTIENT stores something. *)
Write ==
  /\ service = "up" /\ Exists(Main) /\ dbs[Main].open
  /\ nextWrite < MaxWrites
  /\ dbs' = [dbs EXCEPT ![Main].writes = @ \union {nextWrite}]
  /\ nextWrite' = nextWrite + 1
  /\ acked' = IF pc = "idle" THEN acked \union {nextWrite} ELSE acked
  /\ UNCHANGED <<files, nextId, service, minute, pc, locals, faults, pre, last, crashes, jobs, meddled>>

(* What is stored in a database no update will drop: any but the copies    *)
(* from before updates, and but the database in use while a rollback's     *)
(* copy is gone from its name (put in use, or removed by the operator),    *)
(* for then the undo may give the one in use that name.                    *)
RollingBack == {"r_stop", "r_clear", "r_aside", "r_files", "r_close", "r_dbaside", "r_open",
  "r_put", "r_probe", "r_start", "r_check", "b_stop", "b_back", "b_files", "b_db", "b_close",
  "b_dbaside", "b_open", "b_put"}
Lasting == {n \in Name \ Before :
  Exists(n) /\ (n = Main /\ pc \in RollingBack => Exists(snapshot))}
Stored == UNION {dbs[n].writes : n \in Lasting}

(* kept::remove: the operator drops a kept database, by force, the one a   *)
(* running job works with as well.  What only that one held is no longer   *)
(* wanted.                                                                 *)
RemoveKept ==
  /\ Meddle("remove")
  /\ \E n \in Name \ {Main} :
       /\ Exists(n)
       /\ dbs' = [dbs EXCEPT ![n] = None]
  /\ UNCHANGED <<files, nextId, service, minute, pc, locals, faults, pre, last, crashes, jobs,
                 nextWrite>>
  /\ acked' = acked \intersect Stored'

(* The loops that remove an item before they rename another to its place. *)
Source == [u_files |-> "back", r_aside |-> "live", r_files |-> "back",
           b_back |-> "live", b_files |-> "current"]
Target == [u_files |-> "live", r_aside |-> "current", r_files |-> "live",
           b_back |-> "back", b_files |-> "live"]

(* The job is killed, or the computer goes down: an item being removed or  *)
(* copied may be left in part, and the service may be down.                *)
Crash ==
  /\ pc # "idle"
  /\ crashes < MaxCrashes
  /\ crashes' = crashes + 1
  /\ service' \in {service, "down"}
  /\ \/ UNCHANGED dirs
     \/ /\ pc \in DOMAIN Source
        /\ \E k \in First(Present(Source[pc])), rest \in Tree :
             /\ rest \in Torn(dirs[Target[pc]][k])
             /\ dirs' = [dirs EXCEPT ![Target[pc]][k] = rest]
     \/ /\ pc = "install"
        /\ \E k \in First(ToInstall) : dirs' = [dirs EXCEPT !.live[k] = Partial]
  /\ Return("killed")
  /\ UNCHANGED <<marker, databases, minute, locals, faults, pre, acked, jobs, nextWrite,
                 meddled>>

JobStep == SafeUpdateStep \/ UndoUpdateStep \/ RollbackStep \/ UndoRollbackStep
Next ==
  \/ BeginUpdate \/ BeginRollback
  \/ SafeUpdateStep \/ UndoUpdateStep \/ RollbackStep \/ UndoRollbackStep
  \/ Tick \/ ControlStart \/ Write \/ RemoveKept \/ Crash

Spec == Init /\ [][Next]_vars

(* The job's thread runs on until it returns. *)
FairSpec == Spec /\ WF_vars(JobStep)

-----------------------------------------------------------------------------
(* Type correctness: the shape of the state, in particular that no name    *)
(* holds two databases and that no item is anything but a version's tree.  *)
TypeOK ==
  /\ dirs \in [Dirs -> [Items -> Tree]]
  /\ marker \in Name \union {None}
  /\ dbs \in [Name -> Database \union {None}]
  /\ nextId \in Nat
  /\ service \in {"up", "down"}
  /\ minute \in 0..MaxMinute
  /\ pc \in Steps
  /\ pkg \in Versions /\ snapshot \in Name /\ aside \in Name /\ undoDb \in BOOLEAN
  /\ faults \in Nat /\ crashes \in Nat /\ jobs \in Nat /\ nextWrite \in Nat
  /\ pre \in [live : [Items -> Tree], back : [Items -> Tree], main : Database \union {None}]
  /\ acked \subseteq Nat
  /\ last \in {"none", "refused", "updated", "undone", "rolledback", "rollbackundone", "killed"}
  /\ meddled \subseteq Meddles

Updating == {"clear", "setaside", "install", "upgrade", "start", "check", "prune", "note"}
UndoingFiles == {"u_stop", "u_files"}
UndoingUpdate == UndoingFiles \union {"u_close", "u_aside", "u_open", "u_put"}

SameContent(db, other) ==
  db # None /\ other # None /\ db.schema = other.schema /\ db.writes = other.writes

(* From the moment an update begins to touch the program files until it    *)
(* has either finished or put the database back, the copy holds exactly    *)
(* what the database held when SENTIENT was stopped: "everything needed to *)
(* go back is in place before anything changes".  Started from Control     *)
(* meanwhile SENTIENT may add to the copy, or write past it, but all it    *)
(* had stored is there; removed in Kept, the copy is gone.                 *)
SnapshotHeld ==
  pc \in Updating \union UndoingUpdate /\ "remove" \notin meddled =>
    /\ Exists(snapshot)
    /\ dbs[snapshot].schema = pre.main.schema
    /\ pre.main.writes \subseteq dbs[snapshot].writes
    /\ meddled = {} => SameContent(dbs[snapshot], pre.main)

(* What SENTIENT stored while no job ran stays in a database that no       *)
(* update drops, whatever jobs, failures and kills follow, until the       *)
(* operator removes it.                                                    *)
WritesKept == acked \subseteq Stored

(* An update that failed after it had copied the database left the earlier *)
(* version's items, all of them, on the database from before.              *)
FailedUpdateUndone ==
  last = "undone" /\ pc = "idle" =>
    /\ \A k \in Items : pre.live[k] # Absent => dirs.live[k] = pre.live[k]
    /\ Exists(Main)
    /\ dbs[Main].schema = pre.main.schema
    /\ pre.main.writes \subseteq dbs[Main].writes

(* A rollback whose version did not come up left both versions and the     *)
(* database as they were: "everything is put back as it was".              *)
FailedRollbackUndone ==
  last = "rollbackundone" /\ pc = "idle" =>
    /\ dirs.live = pre.live
    /\ dirs.back = pre.back
    /\ Exists(Main)
    /\ dbs[Main].id = pre.main.id

(* What a rollback would put back belongs together: the complete program   *)
(* of one version and a database with that version's schema.               *)
RollbackPointCoherent ==
  pc = "idle" /\ dirs.back[Bin] # Absent =>
    \A n \in RollbackCopies : Exists(n) => Matches(dirs.back, dbs[n])

(* Whatever a job meets, it ends, and with SENTIENT running.               *)
EndsRunning == pc # "idle" ~> (pc = "idle" /\ service = "up")

(* Names apart, the jobs do to the databases what DatabaseVault allows:    *)
(* they migrate one only while an exact copy exists, and drop only what is *)
(* stored elsewhere too.  Only where the operator started SENTIENT or      *)
(* removed a copy in the course of the job may the exact copy be missing.  *)
Content(db) == [id |-> db.id, schema |-> db.schema, writes |-> db.writes]
Vault == INSTANCE DatabaseVault WITH
  Schemas <- Versions \union {Partial},
  vault <- {Content(dbs[n]) : n \in {m \in Name : Exists(m)}},
  disturbed <- meddled # {}
ImplementsVault == Vault!Spec

=============================================================================
