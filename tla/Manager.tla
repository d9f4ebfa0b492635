------------------------------ MODULE Manager ------------------------------
(***************************************************************************)
(* The Platform Manager's window (app/manager): its screens, each with the *)
(* installation record as it was when the screen was made, the jobs they   *)
(* run in the background (jobs.rs), and the record on disk.                *)
(*                                                                         *)
(* On native Linux a job runs as root in a copy of this program (rootjob), *)
(* which reads the record itself; elsewhere it works from the screen's.    *)
(* What a job does is in the modules of its component: here it succeeds    *)
(* whole or changes nothing.  Changing SENTIENT and saving the record are  *)
(* two steps.                                                              *)
(***************************************************************************)
EXTENDS Naturals, FiniteSets

CONSTANTS
  Engines,      \* "linux", "windows", "docker"
  First,        \* what is installed
  Versions,     \* of SENTIENT
  Values,       \* of its settings
  Types,        \* of its database
  Names,        \* databases a backup may be restored into
  JobKinds,     \* the jobs the operator starts
  MaxJobs,      \* bound: jobs started
  MaxQuits,     \* bound: new Platform Managers installed
  Nil

(* What the installation record says.                                      *)
Record == [version : Versions, value : Values, type : Types]

ASSUME ManagerAssumption ==
  /\ Engines \subseteq {"linux", "windows", "docker"}
  /\ JobKinds \subseteq {"adopt", "update", "restore", "switch", "migration", "kept", "settings", "repair"}
  /\ First \in Record
  /\ MaxJobs \in Nat /\ MaxQuits \in Nat

VARIABLES
  engine,
  disk,       \* the installation record, or None
  real,       \* what is installed: the same facts, as they are
  dbs,        \* the databases beside SENTIENT's: of a restore, or not there
  main,       \* the record the window holds
  screens,    \* those that were opened
  works,      \* what runs in the background
  jobs, quits,    \* used up of the bounds
  outdated    \* a job began with an outdated record or while another one was
              \* changing SENTIENT, or was killed

managerVars == <<engine, disk, real, dbs, main, screens, works, jobs, quits, outdated>>

----------------------------------------------------------------------------
(* Screens and their jobs: the Backup screen has one Job for restores and  *)
(* one for switches, the others have one.                                  *)
ScreenOf ==
  [adopt |-> "status", update |-> "update", restore |-> "backup", switch |-> "backup",
   migration |-> "migration", kept |-> "migration", settings |-> "settings", repair |-> "repair"]
Pages == {ScreenOf[kind] : kind \in DOMAIN ScreenOf}
Slots == {"job", "restore", "switch"}
Slot(kind) == IF kind \in {"restore", "switch"} THEN kind ELSE "job"
(* Jobs that change what the record says.                                  *)
Changing == {"adopt", "update", "migration", "settings", "repair"}

(* ticks: Jobs that have ended and are still to be announced once more by  *)
(* their one-second ticker.                                                *)
New(record) ==
  [record |-> record, state |-> [s \in Slots |-> "idle"], ticks |-> {},
   restoring |-> Nil, restored |-> Nil]
Screen ==
  [record : Record \union {Nil}, state : [Slots -> {"idle", "running", "done", "failed"}],
   ticks : SUBSET Slots, restoring : Names \union {Nil}, restored : Names \union {Nil}]
ASSUME NilAssumption == Nil \notin Record \union Screen \union Names
NoScreens == [p \in Pages |-> Nil]

ManagerInit ==
  /\ engine \in Engines
  /\ real = First /\ disk \in {real, Nil}
  /\ dbs = [n \in Names |-> "absent"]
  /\ main = disk /\ screens = NoScreens /\ works = {}
  /\ jobs = 0 /\ quits = 0 /\ outdated = FALSE

(* A screen is made when it is opened first; the Status screen of an       *)
(* installation that has its record runs no job.                           *)
Open(p) ==
  /\ screens[p] = Nil /\ (p = "status" => main = Nil) /\ screens' = [screens EXCEPT ![p] = New(main)]
  /\ UNCHANGED <<engine, disk, real, dbs, main, works, jobs, quits, outdated>>

(* reload: every other screen is made again, with the record as it is now; *)
(* what their jobs are doing goes on, and nobody is told how it ends.      *)
Stays(p) == p \in {"migration", "settings"} /\ main # Nil
Reloaded(shown) == [p \in Pages |-> IF Stays(p) THEN shown[p] ELSE Nil]

(* What the screens do when one of their Jobs tells them it has changed.   *)
(* Variant with a fault: a restore that failed is offered too.             *)
OfferAnyway(screen, state) == [screen EXCEPT !.restored = screen.restoring, !.restoring = Nil]
Offer(screen, state) ==
  IF state = "done" THEN [screen EXCEPT !.restored = screen.restoring, !.restoring = Nil] ELSE screen
Observed(p, slot, screen, saved) ==
  LET state == screen.state[slot]
  IN CASE slot = "restore" -> Offer(screen, state)
       [] slot = "switch" /\ state = "done" -> [screen EXCEPT !.restored = Nil]
       [] p = "migration" \/ (p \in {"update", "settings"} /\ state = "done") ->
            [screen EXCEPT !.record = saved]
       [] OTHER -> screen
(* ... and of the window, when the record is to be read again.             *)
Reloads(p, state) == p = "migration" \/ (p \in {"settings", "status"} /\ state = "done")
Announce(p, slot, screen, saved, running) ==
  LET shown == [screens EXCEPT ![p] = Observed(p, slot, screen, saved)]
      after == Reloaded(shown)
  IN IF Reloads(p, screen.state[slot])
     THEN /\ main' = saved /\ screens' = after
          /\ works' = {[w EXCEPT !.shown = @ /\ after[ScreenOf[w.kind]] # Nil] : w \in running}
     ELSE main' = main /\ screens' = shown /\ works' = running

----------------------------------------------------------------------------
(* Jobs.  Variant with a fault: a root job is given the screen's record.   *)
Shown(p) == screens[p].record
Given(p) == IF engine = "linux" THEN disk ELSE screens[p].record
Busy(screen) == \E s \in Slots : screen.state[s] = "running"
Outdated(kind, p) ==
  kind \in Changing \ {"adopt"} /\
    ((engine # "linux" /\ screens[p].record # disk) \/ \E w \in works : w.kind \in Changing)
Start(kind, arg) ==
  LET p == ScreenOf[kind]  screen == screens[p]
  IN /\ kind \in JobKinds /\ jobs < MaxJobs /\ jobs' = jobs + 1
     /\ screen # Nil /\ ~Busy(screen) /\ (kind = "adopt" <=> screen.record = Nil)
     /\ works' = works \union
          {[id |-> jobs, kind |-> kind, arg |-> arg, record |-> Given(p), saving |-> FALSE, shown |-> TRUE]}
     /\ screens' = [screens EXCEPT ![p] =
          [screen EXCEPT !.state[Slot(kind)] = "running", !.ticks = @ \ {Slot(kind)},
                         !.restoring = IF kind = "restore" THEN arg ELSE @,
                         !.restored = IF kind = "restore" THEN Nil ELSE @]]
     /\ outdated' = (outdated \/ Outdated(kind, p))
     /\ UNCHANGED <<engine, disk, real, dbs, main, quits>>

(* The job's work returned: its screen, if it is still the one, is told.   *)
Finish(w, state, saved) ==
  LET p == ScreenOf[w.kind]  slot == Slot(w.kind)
      told == [screens[p] EXCEPT !.state[slot] = state, !.ticks = @ \union {slot}]
  IN IF w.shown THEN Announce(p, slot, told, saved, works \ {w})
     ELSE works' = works \ {w} /\ UNCHANGED <<screens, main>>
(* One second later at most, the ticker tells it once more.                *)
Tick(p, slot) ==
  /\ screens[p] # Nil /\ slot \in screens[p].ticks
  /\ Announce(p, slot, [screens[p] EXCEPT !.ticks = @ \ {slot}], disk, works)
  /\ UNCHANGED <<engine, disk, real, dbs, jobs, quits, outdated>>

(* What the jobs make of SENTIENT: Docker's runs the image of the record.  *)
Image(w) == IF engine = "docker" THEN w.record.version ELSE real.version
Applied(w) ==
  CASE w.kind = "update" -> [real EXCEPT !.version = w.arg]
    [] w.kind = "migration" -> [version |-> Image(w), value |-> w.record.value, type |-> w.arg]
    [] w.kind = "settings" -> [version |-> Image(w), value |-> w.arg, type |-> w.record.type]
    [] w.kind = "repair" -> [version |-> Image(w), value |-> w.record.value, type |-> w.record.type]
    [] OTHER -> real
Saved(w) ==
  CASE w.kind = "adopt" -> real
    [] w.kind = "update" -> [w.record EXCEPT !.version = w.arg]
    [] w.kind = "migration" -> [w.record EXCEPT !.type = w.arg]
    [] w.kind = "settings" -> [w.record EXCEPT !.value = w.arg]
    [] OTHER -> disk
Can(w) ==
  CASE w.kind = "restore" -> dbs[w.arg] = "absent"
    [] w.kind = "switch" -> dbs[w.arg] # "absent"
    [] w.kind = "migration" -> w.record.type # w.arg
    [] OTHER -> TRUE
(* A restore makes its database first; a switch puts it in service.        *)
Work(w) ==
  /\ ~w.saving /\ Can(w)
  /\ real' = Applied(w)
  /\ dbs' = CASE w.kind = "restore" -> [dbs EXCEPT ![w.arg] = "partial"]
              [] w.kind = "switch" -> [dbs EXCEPT ![w.arg] = "absent"]
              [] OTHER -> dbs
  /\ works' = (works \ {w}) \union {[w EXCEPT !.saving = TRUE]}
  /\ UNCHANGED <<engine, disk, main, screens, jobs, quits, outdated>>
Save(w) ==
  /\ w.saving
  /\ disk' = Saved(w) /\ Finish(w, "done", Saved(w))
  /\ dbs' = IF w.kind = "restore" THEN [dbs EXCEPT ![w.arg] = "whole"] ELSE dbs
  /\ UNCHANGED <<engine, real, jobs, quits, outdated>>
JobFails(w) ==
  /\ ~w.saving \/ w.kind = "restore"
  /\ Finish(w, "failed", disk)
  /\ UNCHANGED <<engine, disk, real, dbs, jobs, quits, outdated>>

(* A new Platform Manager is installed and replaces this one, whatever it  *)
(* is doing: jobs in this process end, root's may go on, unseen.           *)
Quit ==
  /\ quits < MaxQuits /\ quits' = quits + 1
  /\ \E going \in SUBSET works :
       /\ engine = "linux" \/ going = {}
       /\ works' = {[w EXCEPT !.shown = FALSE] : w \in going}
       /\ outdated' = (outdated \/ \E w \in works \ going : w.kind \in Changing)
  /\ main' = disk /\ screens' = NoScreens
  /\ UNCHANGED <<engine, disk, real, dbs, jobs>>

(* What the operator starts on the screens.                                *)
AdoptExisting == Start("adopt", Nil)
Update(v) == Start("update", v)
Restore(n) == Start("restore", n)
Switch(n) == screens["backup"] # Nil /\ screens["backup"].restored = n /\ Start("switch", n)
Migrate(t) ==
  LET screen == screens["migration"]
  IN screen # Nil /\ screen.record # Nil /\ screen.record.type # t /\ Start("migration", t)
RemoveKept == Start("kept", Nil)
ApplySettings(v) ==
  LET screen == screens["settings"]
  IN screen # Nil /\ screen.record # Nil /\ screen.record.value # v /\ Start("settings", v)
Repair == Start("repair", Nil)

Operating ==
  \/ \E p \in Pages : Open(p)
  \/ AdoptExisting \/ RemoveKept \/ Repair \/ Quit
  \/ \E v \in Versions : Update(v)
  \/ \E v \in Values : ApplySettings(v)
  \/ \E t \in Types : Migrate(t)
  \/ \E n \in Names : Restore(n) \/ Switch(n)
Background ==
  \/ \E w \in works : Work(w) \/ Save(w) \/ JobFails(w)
  \/ \E p \in Pages, slot \in Slots : Tick(p, slot)
ManagerNext == Operating \/ Background
ManagerSpec == ManagerInit /\ [][ManagerNext]_managerVars

----------------------------------------------------------------------------
(* The record says what is installed, in whatever order the screens are    *)
(* opened, left, made again and their jobs end - as long as none began     *)
(* with an outdated record (on native Linux none does) or while another    *)
(* one changed SENTIENT, or was killed.                                    *)
RecordTrue ==
  ~outdated /\ disk # Nil /\ (\A w \in works : w.kind \notin Changing) => disk = real

(* What the Backup screen offers to put in service is a database that was  *)
(* restored completely and is not in service yet, whichever restores and   *)
(* switches failed, went on unseen or were started again.                  *)
Offered == IF screens["backup"] = Nil THEN Nil ELSE screens["backup"].restored
OfferedIsWhole ==
  Offered # Nil /\ screens["backup"].state["switch"] # "running" => dbs[Offered] = "whole"

(* "the last one restored successfully (offered to be put into service)"   *)
(* (manager/backup.rs:67): after a restore that ended well the screen has  *)
(* the offer until it is put in service.  It does not hold: the last tick  *)
(* of the restore's Job (jobs.rs:103-116) takes the offer back.            *)
RestoredOffered ==
  screens["backup"] # Nil =>
    (screens["backup"].state["restore"] = "done" /\ screens["backup"].state["switch"] = "idle"
      => Offered # Nil)
=============================================================================
