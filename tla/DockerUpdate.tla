---------------------------- MODULE DockerUpdate ----------------------------
(***************************************************************************)
(* Safe update and rollback of a Docker installation                       *)
(* (sentient-installer-core/src/distro/docker_ops.rs, called by            *)
(* app/src/updating.rs).                                                   *)
(*                                                                         *)
(* The program is an image, found through tags: the reference the compose  *)
(* file names, the one the update asks for, :spm-previous and              *)
(* :spm-rolled-back.  The container runs the image it was created from     *)
(* until "compose up -d" recreates it on whatever its reference now names. *)
(* The databases are copied and renamed as in SafeUpdate.  One action is   *)
(* one docker command, one SQL statement, or the waiting for an answer;    *)
(* the subroutines are operators over the program points they leave by.    *)
(***************************************************************************)
EXTENDS Naturals, FiniteSets

CONSTANTS
  Versions,     \* the versions of SENTIENT, as numbers: later is newer
  Installed,    \* the one installed at the beginning
  Refs,         \* the references an image of SENTIENT is asked for by
  FirstRef,     \* the one it was installed by
  Partial,      \* half migrated
  None,         \* no database, no image
  MayFail,      \* the program points at which a call may fail
  Operator,     \* what the operator does to the stack between the jobs
  MaxFaults,    \* bound: failures injected into one job
  MaxCrashes,   \* bound: jobs killed
  MaxJobs,      \* bound: jobs started
  MaxMinute,    \* bound: the clock the kept names are made of
  MaxWrites,    \* bound: writes by SENTIENT
  SameMinute,   \* may two jobs run within one minute
  Meddles       \* ... and while one runs

Tags == Refs \union {"previous", "rolled"}
Name == {"main", "before", "failed", "rolled"} \X (0..MaxMinute)
Main == <<"main", 0>>
Before == {n \in Name : n[1] = "before"}
Database ==
  [id : Nat, schema : Versions \union {Partial}, writes : SUBSET Nat, open : BOOLEAN]
Steps == {"idle",
  "keep", "pull", "stop", "dryrun", "abort", "aborting", "aborted", "close", "copy",
  "open", "upgrade", "start", "check", "prune", "record",
  "u_stop", "u_image", "u_close", "u_aside", "u_open", "u_put", "u_start", "u_check",
  "r_keep", "r_stop", "r_image", "r_close", "r_aside", "r_open", "r_put", "r_probe",
  "r_start", "r_check", "r_clean", "r_record",
  "n_stop", "n_image", "b_stop", "b_image", "b_close", "b_aside", "b_open", "b_put", "b_start", "b_check", "b_clean"}

ASSUME DockerAssumption ==
  /\ Versions \subseteq Nat /\ Installed \in Versions
  /\ FirstRef \in Refs
  /\ Refs \cap {"previous", "rolled"} = {}
  /\ Partial \notin Versions /\ None \notin Versions
  /\ None \notin Database /\ None \notin Name
  /\ MayFail \subseteq Steps
  /\ Operator \subseteq {"start", "stop", "load", "reconfigure", "remove"}
  /\ Meddles \subseteq {"start", "stop", "remove"}
  /\ MaxFaults \in Nat /\ MaxCrashes \in Nat /\ MaxJobs \in Nat
  /\ MaxMinute \in Nat /\ MaxWrites \in Nat
  /\ SameMinute \in BOOLEAN

VARIABLES
  tag,        \* the version each tag names
  compose,    \* the reference in the stack's compose file
  container,  \* the version SENTIENT's container was created from
  running,    \* is that container up
  record,     \* the installation record: its image reference and version
  dbs,        \* the databases in the PostgreSQL container, by name
  nextId,     \* the next database's identity (its oid)
  minute,     \* the wall clock, as the names see it
  pc,         \* where the running job is
  image,      \* cfg.image of the job
  snapshot,   \* the name of the copy from before
  aside,      \* the name the replaced database gets
  faults, crashes, jobs, nextWrite,   \* used up of the bounds
  pre,        \* as it was when the job began and had stopped SENTIENT
  acked,      \* the writes made while no job ran
  last,       \* how the last job ended
  disturbed,  \* the operator had a hand in the last job, or in what it found
  unpaired    \* ... or in what the last update left to go back to

stack == <<tag, compose, container, running>>
databases == <<dbs, nextId>>
locals == <<image, snapshot, aside>>
ghosts == <<pre, acked, last>>
bounds == <<crashes, jobs, nextWrite, disturbed, unpaired>>   \* what hardly a step of a job changes
vars == <<stack, record, databases, minute, pc, locals, faults, ghosts, bounds>>

Exists(n) == dbs[n] # None
Usable == Exists(Main) /\ dbs[Main].open

(* The container that is up has the version of the database's schema. *)
Fits == Usable /\ dbs[Main].schema = container

Init ==
  /\ tag = [t \in Tags |-> IF t = FirstRef THEN Installed ELSE None]
  /\ compose = FirstRef
  /\ container = Installed
  /\ running = TRUE
  /\ record = [image |-> FirstRef, version |-> Installed]
  /\ dbs = [n \in Name |-> IF n = Main
              THEN [id |-> 0, schema |-> Installed, writes |-> {}, open |-> TRUE]
              ELSE None]
  /\ nextId = 1
  /\ minute = 0
  /\ pc = "idle"
  /\ image = FirstRef /\ snapshot = Main /\ aside = Main
  /\ faults = 0 /\ crashes = 0 /\ jobs = 0 /\ nextWrite = 0
  /\ pre = [container |-> container, main |-> None]
  /\ acked = {}
  /\ last = "none"
  /\ disturbed = FALSE /\ unpaired = FALSE

-----------------------------------------------------------------------------
(* Failures.  A call at a point of MayFail fails while the job's budget lasts. *)
Fails(at) == at \in MayFail /\ faults > 0 /\ faults' = faults - 1

Goto(step) == pc' = step

(* The job returns; how it ended is what its report says. *)
Return(result) == pc' = "idle" /\ last' = result

-----------------------------------------------------------------------------
(* The container. *)

(* An image that starts on the schema of an earlier version upgrades it,   *)
(* or refuses to run on it; one that finds a later schema leaves it alone. *)
SelfUpgraded(version) ==
  {dbs} \union
    IF Usable /\ dbs[Main].schema \in {v \in Versions : v < version}
    THEN {[dbs EXCEPT ![Main].schema = version]} ELSE {}

(* compose up -d. *)
Up ==
  /\ container' = tag[compose]
  /\ running' = TRUE
  /\ dbs' \in SelfUpgraded(tag[compose])

(* stop_app as the jobs begin: when SENTIENT does not stop, the stack is   *)
(* brought up and the job gives up.                                        *)
StopApp(at, then) ==
  /\ pc = at
  /\ \/ /\ running' = FALSE
        /\ pre' = [pre EXCEPT !.main = dbs[Main]]
        /\ Goto(then)
        /\ UNCHANGED <<container, dbs, faults, last>>
     \/ /\ Fails(at)
        /\ Up
        /\ Return("gaveup")
        /\ UNCHANGED pre
  /\ UNCHANGED <<tag, compose, record, nextId, minute, locals, acked, bounds>>

(* compose stop in an undo: its result is ignored. *)
StopAgain(at, then) ==
  /\ pc = at
  /\ \/ running' = FALSE /\ UNCHANGED faults
     \/ Fails(at) /\ UNCHANGED running
  /\ Goto(then)
  /\ UNCHANGED <<tag, compose, container, record, databases, minute, locals, ghosts, bounds>>

(* start_and_check: compose up -d, which may fail having removed the old   *)
(* container or not ...                                                    *)
Start(at, then, orElse) ==
  /\ pc = at
  /\ \/ Up /\ Goto(then) /\ UNCHANGED faults
     \/ /\ Fails(at)
        /\ container' \in {container, tag[compose]}
        /\ running' \in {running, FALSE}
        /\ Goto(orElse)
        /\ UNCHANGED dbs
  /\ UNCHANGED <<tag, compose, record, nextId, minute, locals, ghosts, bounds>>

(* ... then three minutes for an answer and twenty seconds to stay up.  A  *)
(* version that does not fit its database may come up or not.              *)
StaysUp == running /\ Usable /\ UNCHANGED <<running, faults>>
GoesDown(at) ==
  /\ IF running /\ Fits THEN Fails(at) ELSE UNCHANGED faults
  /\ running' \in {running, FALSE}
Check(at, then, orElse) ==
  /\ pc = at
  /\ \/ StaysUp /\ Goto(then)
     \/ GoesDown(at) /\ Goto(orElse)
  /\ UNCHANGED <<tag, compose, container, record, databases, minute, locals, ghosts, bounds>>

(* start_and_check as the last call of a job, its result only reported. *)
LastCheck(at, result) ==
  /\ pc = at
  /\ StaysUp \/ GoesDown(at)
  /\ Return(result)
  /\ UNCHANGED <<tag, compose, container, record, databases, minute, locals, pre, acked, bounds>>

-----------------------------------------------------------------------------
(* The image tags. *)

(* The job begins by tagging the container's image, or the one of          *)
(* cfg.image when the container cannot be inspected; it returns when       *)
(* docker tag fails.                                                       *)
Keep(at, kept, then) ==
  /\ pc = at
  /\ \/ tag' = [tag EXCEPT ![kept] = container] /\ Goto(then) /\ UNCHANGED <<faults, last>>
     \/ /\ Fails(at)
        /\ tag' = [tag EXCEPT ![kept] = IF tag[image] = None THEN @ ELSE tag[image]]
        /\ Goto(then)
        /\ UNCHANGED last
     \/ Fails(at) /\ Return("refused") /\ UNCHANGED tag
  /\ UNCHANGED <<compose, container, running, record, databases, minute, locals, pre, acked, bounds>>

(* compose pull moves the compose file's reference to the version the      *)
(* registry has now, or fails and leaves it.  Then cfg.image must be here. *)
Pull ==
  /\ pc = "pull"
  /\ tag' \in {tag} \union {[tag EXCEPT ![compose] = v] : v \in Versions}
  /\ \/ tag'[image] # None /\ Goto("stop") /\ UNCHANGED last
     \/ tag'[image] = None /\ Return("refused")
  /\ UNCHANGED <<compose, container, running, record, databases, minute, locals, faults,
                 pre, acked, bounds>>

(* Variant with a fault: the image is not put back. *)
RetagForgotten(at, kept, then, orElse) ==
  /\ pc = at
  /\ Goto(then)
  /\ UNCHANGED <<stack, record, databases, minute, locals, faults, ghosts, bounds>>

(* put_image_back and its like: docker tag, a failure ignored or not. *)
Retag(at, kept, then, orElse) ==
  /\ pc = at
  /\ \/ /\ tag[kept] # None
        /\ tag' = [tag EXCEPT ![image] = tag[kept]]
        /\ Goto(then)
        /\ UNCHANGED faults
     \/ /\ IF tag[kept] # None THEN Fails(at) ELSE UNCHANGED faults
        /\ Goto(orElse)
        /\ UNCHANGED tag
  /\ UNCHANGED <<compose, container, running, record, databases, minute, locals, ghosts, bounds>>

(* docker image rm of tags, a failure ignored: any of them may remain. *)
RemoveTags(at, tags, then, result) ==
  /\ pc = at
  /\ \E gone \in SUBSET tags :
       /\ IF gone = tags THEN UNCHANGED faults ELSE Fails(at)
       /\ tag' = [t \in Tags |-> IF t \in gone THEN None ELSE tag[t]]
  /\ pc' = then /\ last' = result
  /\ UNCHANGED <<compose, container, running, record, databases, minute, locals, pre, acked, bounds>>

-----------------------------------------------------------------------------
(* The databases. *)

(* exclusive begins: no new sessions, and the ones there are terminated. *)
Close(at, name, then, orElse) ==
  /\ pc = at
  /\ aside' = name
  /\ \/ /\ Exists(Main)
        /\ dbs' = [dbs EXCEPT ![Main].open = FALSE]
        /\ Goto(then)
        /\ UNCHANGED faults
     \/ /\ IF Exists(Main) THEN Fails(at) ELSE UNCHANGED faults
        /\ Goto(orElse)
        /\ UNCHANGED dbs
  /\ UNCHANGED <<stack, record, nextId, minute, image, snapshot, ghosts, bounds>>

(* exclusive ends after its statement failed: connections are let in again *)
(* by another psql, which can fail the way the first did and is ignored.   *)
Reopened(obstructed) ==
  {[dbs EXCEPT ![Main].open = o] :
     o \in {TRUE} \union (IF ~obstructed /\ "open" \in MayFail THEN {FALSE} ELSE {})}

(* CREATE DATABASE ... TEMPLATE, within exclusive. *)
CopyDatabase ==
  /\ pc = "copy"
  /\ \/ /\ ~Exists(snapshot)
        /\ dbs' = [dbs EXCEPT ![snapshot] = [dbs[Main] EXCEPT !.id = nextId, !.open = TRUE]]
        /\ nextId' = nextId + 1
        /\ Goto("open")
        /\ UNCHANGED faults
     \/ /\ IF Exists(snapshot) THEN UNCHANGED faults ELSE Fails("copy")
        /\ dbs' \in Reopened(Exists(snapshot))
        /\ Goto("abort")
        /\ UNCHANGED nextId
  /\ UNCHANGED <<stack, record, minute, locals, ghosts, bounds>>

(* ALTER DATABASE ... ALLOW_CONNECTIONS true, its failure ignored. *)
Open(at, name, then) ==
  /\ pc = at
  /\ \/ Exists(name) /\ dbs' = [dbs EXCEPT ![name].open = TRUE] /\ UNCHANGED faults
     \/ Fails(at) /\ UNCHANGED dbs
     \/ ~Exists(name) /\ UNCHANGED <<dbs, faults>>
  /\ Goto(then)
  /\ UNCHANGED <<stack, record, nextId, minute, locals, ghosts, bounds>>

(* Variant with a fault: the database in use is emptied as it is renamed. *)
EmptyDatabase(at, name, then, orElse) ==
  /\ pc = at
  /\ ~Exists(name)
  /\ dbs' = [dbs EXCEPT ![name] = [dbs[Main] EXCEPT !.writes = {}], ![Main] = None]
  /\ Goto(then)
  /\ UNCHANGED <<stack, record, nextId, minute, locals, faults, ghosts, bounds>>

(* restore_database, first rename: the database in use becomes name. *)
SetDatabaseAside(at, name, then, orElse) ==
  /\ pc = at
  /\ \/ /\ ~Exists(name)
        /\ dbs' = [dbs EXCEPT ![name] = dbs[Main], ![Main] = None]
        /\ Goto(then)
        /\ UNCHANGED faults
     \/ /\ IF Exists(name) THEN UNCHANGED faults ELSE Fails(at)
        /\ dbs' \in Reopened(Exists(name))
        /\ Goto(orElse)
  /\ UNCHANGED <<stack, record, nextId, minute, locals, ghosts, bounds>>

(* restore_database, second rename: the copy becomes the database in use. *)
PutDatabaseBack(at, name, then, orElse) ==
  /\ pc = at
  /\ \/ /\ Exists(name) /\ ~Exists(Main)
        /\ dbs' = [dbs EXCEPT ![Main] = dbs[name], ![name] = None]
        /\ Goto(then)
        /\ UNCHANGED faults
     \/ /\ IF Exists(name) /\ ~Exists(Main) THEN Fails(at) ELSE UNCHANGED faults
        /\ Goto(orElse)
        /\ UNCHANGED dbs
  /\ UNCHANGED <<stack, record, nextId, minute, locals, ghosts, bounds>>

(* Variants with a fault: the copy is forgotten; the refusal puts nothing  *)
(* back.                                                                   *)
DryRunThenUpgrade ==
  /\ pc = "dryrun"
  /\ Goto("upgrade")
  /\ UNCHANGED <<stack, record, databases, minute, locals, faults, ghosts, bounds>>

(* compose run --dry-run on the new image.  A failure or a breaking change *)
(* nobody accepted ends the update; otherwise the copy is named.           *)
DryRun ==
  /\ pc = "dryrun"
  /\ \/ Usable /\ snapshot' = <<"before", minute>> /\ Goto("close")
     \/ UNCHANGED snapshot /\ Goto("abort")
  /\ UNCHANGED <<stack, record, databases, minute, image, aside, faults, ghosts, bounds>>

(* compose run: the image the compose file names upgrades the schema. *)
RunUpgrade ==
  /\ pc = "upgrade"
  /\ \/ /\ Usable
        /\ dbs' = [dbs EXCEPT ![Main].schema = tag[compose]]
        /\ Goto("start")
        /\ UNCHANGED faults
     \/ /\ Usable
        /\ Fails("upgrade")
        /\ \E s \in {dbs[Main].schema, Partial} : dbs' = [dbs EXCEPT ![Main].schema = s]
        /\ Goto("u_stop")
     \/ ~Usable /\ Goto("u_stop") /\ UNCHANGED <<dbs, faults>>
  /\ UNCHANGED <<stack, record, nextId, minute, locals, ghosts, bounds>>

(* The copies of earlier updates go; one that cannot be dropped stays. *)
OlderSnapshots(keep) == {n \in Before \ {keep} : Exists(n)}
Oldest(names) == {n \in names : \A m \in names : n[2] <= m[2]}   \* variant with a fault
Newest(names) == {n \in names : \A m \in names : m[2] <= n[2]}
DropOlder ==
  /\ pc = "prune"
  /\ \E gone \in SUBSET OlderSnapshots(snapshot) :
       /\ IF gone = OlderSnapshots(snapshot) THEN UNCHANGED faults ELSE Fails("prune")
       /\ dbs' = [n \in Name |-> IF n \in gone THEN None ELSE dbs[n]]
  /\ Goto("record")
  /\ unpaired' = disturbed
  /\ UNCHANGED <<stack, record, nextId, minute, locals, ghosts, crashes, jobs, nextWrite, disturbed>>

(* updating::run and rollback write the record when the job has succeeded: *)
(* the image that was asked for, and the version that image says it holds. *)
WriteRecord(at, result) ==
  /\ pc = at
  /\ \/ /\ record' = [image |-> image, version |-> tag[image]]
        /\ Return(result)
        /\ UNCHANGED faults
     \/ Fails(at) /\ Return("unrecorded") /\ UNCHANGED record
  /\ UNCHANGED <<stack, databases, minute, locals, pre, acked, bounds>>

-----------------------------------------------------------------------------
(* The jobs. *)

(* The stack runs what its reference names, on a database of that version. *)
InOrder ==
  /\ Fits /\ container = tag[compose]
  /\ \A n \in Before : Exists(n) => dbs[n].open

Begin(doubtful) ==
  /\ pc = "idle"
  /\ jobs < MaxJobs
  /\ SameMinute \/ minute < MaxMinute
  /\ jobs' = jobs + 1
  /\ minute' = IF SameMinute THEN minute ELSE minute + 1
  /\ faults' = MaxFaults
  /\ pre' = [container |-> container, main |-> dbs[Main]]
  /\ disturbed' = (doubtful \/ (disturbed /\ ~InOrder))
  /\ UNCHANGED unpaired

(* Update SENTIENT keeps the record's reference, Update to a version       *)
(* (run_docker_to) asks for another.                                       *)
BeginUpdate ==
  /\ Begin(FALSE)
  /\ image' \in Refs
  /\ Goto("keep")
  /\ UNCHANGED <<stack, record, databases, snapshot, aside, acked, last, crashes, nextWrite>>

(* rollback_point: the previous image, unless cfg.image names it as well,  *)
(* and the newest copy of the database.                                    *)
PointImage == tag["previous"] \notin {None, tag[record.image]}
RollbackCopies == Newest(OlderSnapshots(None))
BeginRollback ==
  /\ Begin(unpaired)
  /\ PointImage
  /\ snapshot' \in RollbackCopies
  /\ image' = record.image
  /\ Goto("r_keep")
  /\ UNCHANGED <<stack, record, databases, aside, acked, last, crashes, nextWrite>>

(* Variant with a fault: a failed swap is taken for none. *)
ProbeNothing ==
  /\ pc = "r_probe"
  /\ Goto("n_stop")
  /\ UNCHANGED <<stack, record, databases, minute, locals, faults, ghosts, bounds>>

(* restore_database failed: find out how far it got.  A query that fails   *)
(* reads as "no such database".                                            *)
Probe ==
  /\ pc = "r_probe"
  /\ \E seen, renamed \in BOOLEAN :
       /\ IF seen = Exists(snapshot) /\ renamed THEN UNCHANGED faults ELSE Fails("r_probe")
       /\ seen => Exists(snapshot)
       /\ Goto(IF seen THEN "n_stop" ELSE "b_stop")
       /\ dbs' = IF seen /\ ~Exists(Main) /\ Exists(aside) /\ renamed
                 THEN [dbs EXCEPT ![Main] = dbs[aside], ![aside] = None]
                 ELSE dbs
  /\ UNCHANGED <<stack, record, nextId, minute, image, snapshot, aside, ghosts, bounds>>

SafeUpdateStep ==
  \/ Keep("keep", "previous", "pull")
  \/ Pull
  \/ StopApp("stop", "dryrun")
  \/ DryRun
  \/ Retag("abort", "previous", "aborting", "aborting")
  \/ Start("aborting", "aborted", "aborted")
  \/ LastCheck("aborted", "refused")
  \/ Close("close", aside, "copy", "abort")
  \/ CopyDatabase
  \/ Open("open", Main, "upgrade")
  \/ RunUpgrade
  \/ Start("start", "check", "u_stop")
  \/ Check("check", "prune", "u_stop")
  \/ DropOlder
  \/ WriteRecord("record", "updated")

UndoUpdateStep ==
  \/ StopAgain("u_stop", "u_image")
  \/ Retag("u_image", "previous", "u_close", "u_close")
  \/ Close("u_close", <<"failed", minute>>, "u_aside", "u_start")
  \/ SetDatabaseAside("u_aside", aside, "u_open", "u_start")
  \/ Open("u_open", aside, "u_put")
  \/ PutDatabaseBack("u_put", snapshot, "u_start", "u_start")
  \/ Start("u_start", "u_check", "u_check")
  \/ LastCheck("u_check", "undone")

RollbackStep ==
  \/ Keep("r_keep", "rolled", "r_stop")
  \/ StopApp("r_stop", "r_image")
  \/ Retag("r_image", "previous", "r_close", "n_stop")
  \/ Close("r_close", <<"rolled", minute>>, "r_aside", "r_probe")
  \/ SetDatabaseAside("r_aside", aside, "r_open", "r_probe")
  \/ Open("r_open", aside, "r_put")
  \/ PutDatabaseBack("r_put", snapshot, "r_start", "r_probe")
  \/ Probe
  \/ Start("r_start", "r_check", "b_stop")
  \/ Check("r_check", "r_clean", "b_stop")
  \/ RemoveTags("r_clean", {"previous", "rolled"}, "r_record", last)
  \/ WriteRecord("r_record", "rolledback")

(* The undo of a rollback that had not swapped the databases (n_) only     *)
(* puts the image back; otherwise (b_) the databases too.                  *)
UndoRollbackStep ==
  \/ StopAgain("n_stop", "n_image")
  \/ Retag("n_image", "rolled", "b_start", "b_start")
  \/ StopAgain("b_stop", "b_image")
  \/ Retag("b_image", "rolled", "b_close", "b_close")
  \/ Close("b_close", aside, "b_aside", "b_start")
  \/ SetDatabaseAside("b_aside", snapshot, "b_open", "b_start")
  \/ Open("b_open", snapshot, "b_put")
  \/ PutDatabaseBack("b_put", aside, "b_start", "b_start")
  \/ Start("b_start", "b_check", "b_check")
  \/ Check("b_check", "b_clean", "b_clean")
  \/ RemoveTags("b_clean", {"rolled"}, "idle", "rollbackundone")

-----------------------------------------------------------------------------
(* What happens around a job. *)

Tick ==
  /\ minute < MaxMinute
  /\ minute' = minute + 1
  /\ UNCHANGED <<stack, record, databases, pc, locals, faults, ghosts, bounds>>

(* The manager's other screens stay open while a job runs. *)
Meddle(act) ==
  /\ act \in IF pc = "idle" THEN Operator ELSE Meddles
  /\ disturbed' = (disturbed \/ pc # "idle")

(* control("start"): compose up -d, so the tag decides what starts. *)
ControlStart ==
  /\ Meddle("start")
  /\ Up
  /\ last' = IF container' = container THEN last ELSE "operated"
  /\ unpaired' = (unpaired \/ pc # "idle")
  /\ UNCHANGED <<tag, compose, record, nextId, minute, pc, locals, faults, pre, acked, crashes,
                 jobs, nextWrite>>

ControlStop ==
  /\ Meddle("stop") /\ running
  /\ running' = FALSE
  /\ unpaired' = (unpaired \/ pc # "idle")
  /\ UNCHANGED <<tag, compose, container, record, databases, minute, pc, locals, faults, ghosts,
                 crashes, jobs, nextWrite>>

(* docker load at a site without the registry. *)
Load ==
  /\ pc = "idle" /\ "load" \in Operator
  /\ \E t \in Refs, v \in Versions : tag' = [tag EXCEPT ![t] = v]
  /\ last' = "operated"
  /\ UNCHANGED <<compose, container, running, record, databases, minute, pc, locals, faults,
                 pre, acked, bounds>>

(* reconfigure: the compose file is written anew from the record, and the  *)
(* containers whose configuration changed are recreated.                   *)
Reconfigure ==
  /\ pc = "idle" /\ "reconfigure" \in Operator
  /\ compose' = record.image
  /\ container' = tag[record.image]
  /\ running' = TRUE
  /\ dbs' \in SelfUpgraded(tag[record.image])
  /\ last' = IF container' = container THEN last ELSE "operated"
  /\ UNCHANGED <<tag, record, nextId, minute, pc, locals, faults, pre, acked, bounds>>

(* SENTIENT stores something. *)
Write ==
  /\ running /\ Usable
  /\ nextWrite < MaxWrites
  /\ dbs' = [dbs EXCEPT ![Main].writes = @ \union {nextWrite}]
  /\ nextWrite' = nextWrite + 1
  /\ acked' = IF pc = "idle" THEN acked \union {nextWrite} ELSE acked
  /\ UNCHANGED <<stack, record, nextId, minute, pc, locals, faults, pre, last, crashes, jobs,
                 disturbed, unpaired>>

(* What is stored in a database no update will drop: any but the copies    *)
(* from before updates, and but the database in use while a rollback's     *)
(* copy is gone from its name (put in use, or removed by the operator),    *)
(* for then the undo may give the one in use that name.                    *)
RollingBack == {"r_keep", "r_stop", "r_image", "r_close", "r_aside", "r_open", "r_put",
  "r_probe", "r_start", "r_check", "b_stop", "b_image", "b_close", "b_aside"}
Lasting == {n \in Name \ Before :
  Exists(n) /\ (n = Main /\ pc \in RollingBack => Exists(snapshot))}
Stored == UNION {dbs[n].writes : n \in Lasting}

(* kept::remove: the operator drops a kept database, by force, the one a   *)
(* running job works with as well.  What only that one held is no longer   *)
(* wanted; and with the newest copy from before an update goes the one     *)
(* that belongs to :spm-previous.                                          *)
RemoveKept ==
  /\ Meddle("remove")
  /\ \E n \in Name \ {Main} :
       /\ Exists(n)
       /\ dbs' = [dbs EXCEPT ![n] = None]
       /\ unpaired' = (unpaired \/ pc # "idle" \/ n \in RollbackCopies)
  /\ UNCHANGED <<stack, record, nextId, minute, pc, locals, faults, pre, last, crashes, jobs,
                 nextWrite>>
  /\ acked' = acked \intersect Stored'

(* The job is killed; or the computer restarts, and Docker brings the      *)
(* container up as it was (restart: always).                               *)
Crash ==
  /\ pc # "idle"
  /\ crashes < MaxCrashes
  /\ crashes' = crashes + 1
  /\ running' \in {running, TRUE}
  /\ Return("killed")
  /\ UNCHANGED <<tag, compose, container, record, databases, minute, locals, faults, pre, acked,
                 jobs, nextWrite, disturbed, unpaired>>

Next ==
  \/ BeginUpdate \/ BeginRollback
  \/ SafeUpdateStep \/ UndoUpdateStep \/ RollbackStep \/ UndoRollbackStep
  \/ Tick \/ ControlStart \/ ControlStop \/ Load \/ Reconfigure \/ Write \/ RemoveKept \/ Crash

Spec == Init /\ [][Next]_vars

-----------------------------------------------------------------------------
(* Type correctness: in particular the reference the compose file names,   *)
(* and the one in the record, always name an image that is there.          *)
TypeOK ==
  /\ tag \in [Tags -> Versions \union {None}]
  /\ compose \in Refs /\ tag[compose] \in Versions
  /\ container \in Versions /\ running \in BOOLEAN
  /\ record \in [image : Refs, version : Versions] /\ tag[record.image] \in Versions
  /\ dbs \in [Name -> Database \union {None}]
  /\ nextId \in Nat
  /\ minute \in 0..MaxMinute
  /\ pc \in Steps
  /\ image \in Refs /\ snapshot \in Name /\ aside \in Name
  /\ faults \in Nat /\ crashes \in Nat /\ jobs \in Nat /\ nextWrite \in Nat
  /\ pre \in [container : Versions, main : Database \union {None}]
  /\ acked \subseteq Nat
  /\ last \in {"none", "refused", "gaveup", "updated", "undone", "rolledback", "rollbackundone",
               "unrecorded", "killed", "operated"}
  /\ disturbed \in BOOLEAN /\ unpaired \in BOOLEAN

(* What SENTIENT stored while no job ran stays in a database that no       *)
(* update drops, whatever jobs, failures and kills follow and whatever the *)
(* operator starts and stops meanwhile, until the operator removes it.     *)
WritesKept == acked \subseteq Stored

(* An update that failed after it had copied the database left the version *)
(* that ran before, by container and by tag, on the database from before.  *)
FailedUpdateUndone ==
  last = "undone" /\ pc = "idle" /\ ~disturbed =>
    /\ container = pre.container
    /\ tag[record.image] = pre.container
    /\ Exists(Main) /\ dbs[Main].schema = pre.main.schema
    /\ pre.main.writes \subseteq dbs[Main].writes

(* A rollback whose version did not come up: "the current image and        *)
(* database are put back and started again".                               *)
FailedRollbackUndone ==
  last = "rollbackundone" /\ pc = "idle" /\ ~disturbed =>
    /\ container = pre.container
    /\ tag[record.image] = pre.container
    /\ Exists(Main) /\ dbs[Main].id = pre.main.id

(* What a rollback would put back belongs together, the image of one       *)
(* version and a database with that version's schema: from an update the   *)
(* operator kept out of, until its copy is removed or another job meddled  *)
(* with.                                                                   *)
RollbackPointCoherent ==
  pc = "idle" /\ PointImage /\ ~unpaired =>
    \A n \in RollbackCopies : dbs[n].schema = tag["previous"]

(* Names apart, the jobs do to the databases what DatabaseVault allows: an *)
(* image upgrades a database only while an exact copy of it exists.  Only  *)
(* from when the operator meddles with a job until one begins with all in  *)
(* order may the exact copy be missing.                                    *)
Content(db) == [id |-> db.id, schema |-> db.schema, writes |-> db.writes]
Vault == INSTANCE DatabaseVault WITH
  Schemas <- Versions \union {Partial},
  vault <- {Content(dbs[n]) : n \in {m \in Name : Exists(m)}},
  disturbed <- disturbed
ImplementsVault == Vault!Spec

=============================================================================
