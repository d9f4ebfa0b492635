------------------------- MODULE DockerUpdateProofs -------------------------
(***************************************************************************)
(* No job loses what SENTIENT stored on Docker: the types of DockerUpdate  *)
(* and WritesKept, for any versions, references, failures, kills and jobs. *)
(*                                                                         *)
(* A job drops nothing but copies from before, and the one place where the *)
(* database in use gets such a copy's name is the undo of a rollback.  It  *)
(* does so only when that name is free, that is when the copy has become   *)
(* the database in use; and then what the rollback set aside holds every   *)
(* write (Swapped).  The rest is names: a rename never meets a database,   *)
(* and the one made for the replaced database is never a copy's.           *)
(*                                                                         *)
(* And what a failed job leaves behind, when a job fails once (OneFailure, *)
(* in the second part): an undo puts image and database back together,     *)
(* because what it goes back to belonged together when the job began       *)
(* (Point) and because it has no failure left to meet.  From that, in the  *)
(* third part, that DockerUpdate implements DatabaseVault: wherever the    *)
(* stack is started the image and the database agree, so the only upgrade  *)
(* is the one with the copy beside it.                                     *)
(***************************************************************************)
EXTENDS DockerUpdate, TLAPS

StoredIn(d, w, S) ==
  \E n \in Name : n \notin Before /\ n \notin S /\ d[n] # None /\ w \in d[n].writes
HoldsApart(d, W, S) == \A w \in W : StoredIn(d, w, S)

(* From d to e no database goes, none loses a write and none is put in use. *)
Grows(d, e) ==
  /\ \A n \in Name : d[n] # None => e[n] # None /\ d[n].writes \subseteq e[n].writes
  /\ d[Main] = None => e[Main] = None

(* Where a job has found the image it asks for. *)
Unasked == {"idle", "keep", "pull"}
Imaged(p, t, i) == p \notin Unasked => t[i] # None

(* What the next rename or copy of a job meets. *)
Named(p, s, a) ==
  /\ p \in {"u_aside", "r_aside"} => a \notin Before /\ a # Main
  /\ p \in RollingBack => s \in Before
Present(p, d) ==
  p \in {"copy", "open", "u_aside", "r_aside", "b_aside"} => d[Main] # None
Swapped(p, d, s, W) ==
  /\ p \in RollingBack => d[s] # None \/ HoldsApart(d, W, {Main})
  /\ p \in {"r_open", "r_put"} => d[Main] = None /\ HoldsApart(d, W, {Main})

Inv ==
  /\ TypeOK
  /\ HoldsApart(dbs, acked, {})
  /\ Imaged(pc, tag, image)
  /\ Named(pc, snapshot, aside)
  /\ Present(pc, dbs)
  /\ Swapped(pc, dbs, snapshot, acked)

-----------------------------------------------------------------------------
(* Names. *)

LEMMA Names ==
  /\ Main \in Name /\ Main \notin Before
  /\ \A m \in 0..MaxMinute :
       /\ <<"before", m>> \in Name /\ <<"before", m>> \in Before
       /\ <<"failed", m>> \in Name /\ <<"failed", m>> \notin Before /\ <<"failed", m>> # Main
       /\ <<"rolled", m>> \in Name /\ <<"rolled", m>> \notin Before /\ <<"rolled", m>> # Main
  BY DockerAssumption DEF Main, Name, Before

LEMMA Nothing ==
  /\ None \notin Versions /\ None \notin Database
  /\ \A r \in Refs : r \in Tags /\ r # "previous" /\ r # "rolled"
  /\ "previous" \in Tags /\ "rolled" \in Tags
  BY DockerAssumption DEF Tags

-----------------------------------------------------------------------------
(* What the databases hold after a change. *)

LEMMA GrowsHolds ==
  ASSUME NEW d, NEW e, NEW W, NEW S, Grows(d, e), HoldsApart(d, W, S)
  PROVE  HoldsApart(e, W, S)
  BY DEF Grows, HoldsApart, StoredIn

(* The database in use gets a name that no copy has. *)
LEMMA AsideHolds ==
  ASSUME NEW d \in [Name -> Database \union {None}], NEW W, NEW a \in Name,
         a \notin Before, a # Main, d[a] = None, HoldsApart(d, W, {})
  PROVE  HoldsApart([d EXCEPT ![a] = d[Main], ![Main] = None], W, {Main})
<1> DEFINE e == [d EXCEPT ![a] = d[Main], ![Main] = None]
<1> SUFFICES ASSUME NEW w \in W PROVE StoredIn(e, w, {Main})
  BY DEF HoldsApart
<1>1. PICK n \in Name : n \notin Before /\ d[n] # None /\ w \in d[n].writes
  BY DEF HoldsApart, StoredIn
<1>2. CASE n = Main
  <2>1. e[a] = d[Main]
    BY Names
  <2> QED BY <1>1, <1>2, <2>1 DEF StoredIn
<1>3. CASE n # Main
  <2>1. e[n] = d[n]
    BY <1>1, <1>3
  <2> QED BY <1>1, <1>3, <2>1 DEF StoredIn
<1> QED BY <1>2, <1>3

(* A database is put in use where none is. *)
LEMMA PutHolds ==
  ASSUME NEW d \in [Name -> Database \union {None}], NEW W, NEW s \in Name,
         d[s] # None, d[Main] = None, HoldsApart(d, W, {})
  PROVE  /\ HoldsApart([d EXCEPT ![Main] = d[s], ![s] = None], W, {})
         /\ s \in Before => HoldsApart([d EXCEPT ![Main] = d[s], ![s] = None], W, {Main})
<1> DEFINE e == [d EXCEPT ![Main] = d[s], ![s] = None]
<1>1. s # Main /\ e[Main] = d[s]
  BY Names
<1>2. ASSUME NEW w \in W PROVE StoredIn(e, w, {}) /\ (s \in Before => StoredIn(e, w, {Main}))
  <2>1. PICK n \in Name : n \notin Before /\ d[n] # None /\ w \in d[n].writes
    BY <1>2 DEF HoldsApart, StoredIn
  <2>2. n # Main
    BY <2>1
  <2>3. CASE n = s
    BY <1>1, <2>1, <2>3, Names DEF StoredIn
  <2>4. CASE n # s
    <3>1. e[n] = d[n]
      BY <2>1, <2>2, <2>4
    <3> QED BY <2>1, <2>2, <3>1 DEF StoredIn
  <2> QED BY <2>3, <2>4
<1> QED BY <1>2 DEF HoldsApart

(* The database in use gets a free name, its writes being elsewhere. *)
LEMMA BackHolds ==
  ASSUME NEW d \in [Name -> Database \union {None}], NEW W, NEW s \in Name,
         d[s] = None, HoldsApart(d, W, {Main})
  PROVE  HoldsApart([d EXCEPT ![s] = d[Main], ![Main] = None], W, {})
<1> DEFINE e == [d EXCEPT ![s] = d[Main], ![Main] = None]
<1> SUFFICES ASSUME NEW w \in W PROVE StoredIn(e, w, {})
  BY DEF HoldsApart
<1>1. PICK n \in Name : n \notin Before /\ n # Main /\ d[n] # None /\ w \in d[n].writes
  BY DEF HoldsApart, StoredIn
<1>2. n # s /\ e[n] = d[n]
  BY <1>1
<1> QED BY <1>1, <1>2 DEF StoredIn

(* An attribute of the database in use changes. *)
LEMMA OpenGrows ==
  ASSUME NEW d \in [Name -> Database \union {None}], NEW n \in Name, d[n] # None, NEW o \in BOOLEAN
  PROVE  /\ [d EXCEPT ![n].open = o] \in [Name -> Database \union {None}]
         /\ Grows(d, [d EXCEPT ![n].open = o])
<1> DEFINE e == [d EXCEPT ![n].open = o]
<1>1. d[n] \in Database
  OBVIOUS
<1>2. [d[n] EXCEPT !.open = o] \in Database
  BY <1>1 DEF Database
<1>3. e[n] = [d[n] EXCEPT !.open = o] /\ \A m \in Name : m # n => e[m] = d[m]
  OBVIOUS
<1>4. e[n].writes = d[n].writes
  BY <1>1, <1>3 DEF Database
<1> QED BY <1>2, <1>3, <1>4, Nothing DEF Grows

LEMMA SchemaGrows ==
  ASSUME NEW d \in [Name -> Database \union {None}], NEW n \in Name, d[n] # None,
         NEW v \in Versions \union {Partial}
  PROVE  /\ [d EXCEPT ![n].schema = v] \in [Name -> Database \union {None}]
         /\ Grows(d, [d EXCEPT ![n].schema = v])
<1> DEFINE e == [d EXCEPT ![n].schema = v]
<1>1. d[n] \in Database
  OBVIOUS
<1>2. [d[n] EXCEPT !.schema = v] \in Database
  BY <1>1 DEF Database
<1>3. e[n] = [d[n] EXCEPT !.schema = v] /\ \A m \in Name : m # n => e[m] = d[m]
  OBVIOUS
<1>4. e[n].writes = d[n].writes
  BY <1>1, <1>3 DEF Database
<1> QED BY <1>2, <1>3, <1>4, Nothing DEF Grows

LEMMA UpgradeGrows ==
  ASSUME TypeOK, NEW v \in Versions, NEW e \in SelfUpgraded(v)
  PROVE  e \in [Name -> Database \union {None}] /\ Grows(dbs, e)
<1>1. CASE e = dbs
  BY <1>1 DEF TypeOK, Grows
<1>2. CASE e # dbs
  <2>1. dbs[Main] # None /\ e = [dbs EXCEPT ![Main].schema = v]
    BY <1>2 DEF SelfUpgraded, Usable, Exists
  <2> QED BY <2>1, SchemaGrows, Names DEF TypeOK
<1> QED BY <1>1, <1>2

-----------------------------------------------------------------------------
(* What a step may change that the databases and images of a job stay.     *)
Quiet ==
  /\ Grows(dbs, dbs')
  /\ \A r \in Refs : tag[r] # None => tag'[r] # None
  /\ UNCHANGED <<image, snapshot, aside, acked>>

(* From p to q nothing has to be made sure of. *)
Follows(p, q) ==
  \/ q = p
  \/ /\ q \notin Unasked => p \notin Unasked
     /\ q \in RollingBack => p \in RollingBack
     /\ q = "r_put" => p = "r_open"
     /\ q \notin {"copy", "open", "u_aside", "r_aside", "b_aside", "r_open"}

LEMMA QuietKeeps ==
  ASSUME Inv, TypeOK', Quiet, Follows(pc, pc')
  PROVE  Inv'
<1>1. \A S : HoldsApart(dbs, acked, S) => HoldsApart(dbs', acked', S)
  BY GrowsHolds DEF Quiet
<1>2. (\A n \in Name : dbs[n] # None => dbs'[n] # None) /\ (dbs[Main] = None => dbs'[Main] = None)
  BY DEF Quiet, Grows
<1>3. HoldsApart(dbs, acked, {})'
  BY <1>1 DEF Inv, HoldsApart, StoredIn
<1>4. Imaged(pc, tag, image)'
  BY DEF Inv, TypeOK, Imaged, Quiet, Follows
<1>5. Named(pc, snapshot, aside)'
  BY DEF Inv, Named, Quiet, Follows
<1>6. Present(pc, dbs)'
  BY <1>2, Names DEF Inv, TypeOK, Present, Quiet, Follows
<1>7. Swapped(pc, dbs', snapshot, acked')
  BY <1>1, <1>2 DEF Inv, TypeOK, Swapped, Quiet
<1>8. Swapped(pc, dbs, snapshot, acked)'
  <2>1. snapshot' = snapshot
    BY DEF Quiet
  <2> QED BY <1>7, <2>1 DEF Swapped, Follows, RollingBack
<1> QED BY <1>3, <1>4, <1>5, <1>6, <1>8 DEF Inv

LEMMA GrowsSelf ==
  ASSUME NEW d PROVE Grows(d, d)
  BY DEF Grows

-----------------------------------------------------------------------------
(* The operators the jobs are made of. *)

Results == {"none", "refused", "gaveup", "updated", "undone", "rolledback", "rollbackundone",
            "unrecorded", "killed", "operated"}

LEMMA UpTyped ==
  ASSUME TypeOK, Up
  PROVE  /\ container' \in Versions /\ running' \in BOOLEAN
         /\ dbs' \in [Name -> Database \union {None}] /\ Grows(dbs, dbs')
  BY UpgradeGrows DEF TypeOK, Up

LEMMA Injected ==
  ASSUME TypeOK, NEW p, Fails(p) \/ UNCHANGED faults
  PROVE  faults' \in Nat
  BY DEF TypeOK, Fails

LEMMA StopAppTyped ==
  ASSUME TypeOK, NEW p, NEW q \in Steps, StopApp(p, q)
  PROVE  TypeOK' /\ Quiet /\ pc = p /\ pc' \in {q, "idle"}
<1>1. Main \in Name /\ "idle" \in Steps
  BY Names DEF Steps
<1>2. pc = p /\ pc' \in {q, "idle"} /\ pc' \in Steps
      /\ UNCHANGED <<tag, compose, record, nextId, minute, locals, acked, bounds>>
  BY <1>1 DEF StopApp, Goto, Return
<1>3. faults' \in Nat
  BY Injected DEF StopApp
<1>4. /\ running' \in BOOLEAN /\ container' \in Versions
      /\ dbs' \in [Name -> Database \union {None}] /\ Grows(dbs, dbs')
  <2>1. CASE Up
    BY <2>1, UpTyped
  <2>2. CASE running' = FALSE /\ UNCHANGED <<container, dbs>>
    BY <2>2, GrowsSelf DEF TypeOK
  <2> QED BY <2>1, <2>2 DEF StopApp
<1>5. last' \in Results
  BY DEF TypeOK, StopApp, Return, Results
<1>6. pre' \in [container : Versions,
               main : Database \union {None}]
  BY <1>1 DEF TypeOK, StopApp
<1> QED BY <1>2, <1>3, <1>4, <1>5, <1>6 DEF TypeOK, Quiet, Results, locals, bounds

LEMMA StopAgainTyped ==
  ASSUME TypeOK, NEW p, NEW q \in Steps, StopAgain(p, q)
  PROVE  TypeOK' /\ Quiet /\ pc = p /\ pc' = q
<1>1. /\ pc = p /\ pc' = q
      /\ UNCHANGED <<tag, compose, container, record, databases, minute, locals, ghosts, bounds>>
  BY DEF StopAgain, Goto
<1>2. faults' \in Nat
  BY Injected DEF StopAgain
<1>3. running' \in BOOLEAN
  BY DEF TypeOK, StopAgain
<1> QED BY <1>1, <1>2, <1>3, GrowsSelf DEF TypeOK, Quiet, locals, bounds, databases, ghosts

LEMMA StartTyped ==
  ASSUME TypeOK, NEW p, NEW q \in Steps, NEW r \in Steps, Start(p, q, r)
  PROVE  TypeOK' /\ Quiet /\ pc = p /\ pc' \in {q, r}
<1>1. /\ running' \in BOOLEAN /\ container' \in Versions
      /\ dbs' \in [Name -> Database \union {None}] /\ Grows(dbs, dbs')
  <2>1. CASE Up
    BY <2>1, UpTyped
  <2>2. CASE /\ container' \in {container, tag[compose]}
             /\ running' \in {running, FALSE} /\ UNCHANGED dbs
    <3>1. container' \in Versions /\ dbs' \in [Name -> Database \union {None}]
      BY <2>2 DEF TypeOK
    <3>2. running' \in BOOLEAN
      BY <2>2, Zenon DEF TypeOK
    <3> QED BY <2>2, <3>1, <3>2, GrowsSelf
  <2> QED BY <2>1, <2>2 DEF Start
<1>2. /\ pc = p /\ pc' \in {q, r} /\ faults' \in Nat
      /\ UNCHANGED <<tag, compose, record, nextId, minute, locals, ghosts, bounds>>
  BY Injected DEF Start, Goto
<1> QED BY <1>1, <1>2 DEF TypeOK, Quiet, locals, bounds, ghosts

LEMMA CheckTyped ==
  ASSUME TypeOK, NEW p, NEW q \in Steps, NEW r \in Steps, Check(p, q, r)
  PROVE  TypeOK' /\ Quiet /\ pc = p /\ pc' \in {q, r}
<1>1. faults' \in Nat
  BY Injected DEF Check, StaysUp, GoesDown
<1>3. running' \in BOOLEAN
  BY Zenon DEF TypeOK, Check, StaysUp, GoesDown
<1>2. /\ pc = p /\ pc' \in {q, r}
      /\ UNCHANGED <<tag, compose, container, record, databases, minute, locals, ghosts, bounds>>
  BY DEF Check, Goto
<1> QED BY <1>1, <1>2, <1>3, GrowsSelf DEF TypeOK, Quiet, locals, bounds, ghosts, databases

LEMMA LastCheckTyped ==
  ASSUME TypeOK, NEW p, NEW result \in Results, LastCheck(p, result)
  PROVE  TypeOK' /\ Quiet /\ pc = p /\ pc' = "idle"
<1>1. faults' \in Nat
  BY Injected DEF LastCheck, StaysUp, GoesDown
<1>3. running' \in BOOLEAN
  BY Zenon DEF TypeOK, LastCheck, StaysUp, GoesDown
<1>2. /\ pc = p /\ pc' = "idle" /\ pc' \in Steps /\ last' \in Results
      /\ UNCHANGED <<tag, compose, container, record, databases, minute, locals, pre, acked, bounds>>
  BY DEF LastCheck, Return, Steps
<1> QED BY <1>1, <1>2, <1>3, GrowsSelf DEF TypeOK, Quiet, locals, bounds, databases, Results

LEMMA KeepTyped ==
  ASSUME TypeOK, NEW p, NEW kept \in {"previous", "rolled"}, NEW q \in Steps, Keep(p, kept, q)
  PROVE  TypeOK' /\ Quiet /\ pc = p /\ pc' \in {q, "idle"} /\ \A r \in Refs : tag'[r] = tag[r]
<1>1. /\ tag' \in [Tags -> Versions \union {None}]
      /\ \A r \in Refs : tag'[r] = tag[r]
  BY Nothing DEF TypeOK, Keep
<1>2. /\ pc = p /\ pc' \in {q, "idle"} /\ pc' \in Steps /\ last' \in Results /\ faults' \in Nat
      /\ UNCHANGED <<compose, container, running, record, databases, minute, locals, pre, acked, bounds>>
  BY DEF TypeOK, Keep, Goto, Return, Steps, Fails, Results
<1> QED BY <1>1, <1>2, GrowsSelf DEF TypeOK, Quiet, locals, bounds, databases, Results

LEMMA RetagTyped ==
  ASSUME TypeOK, NEW p, NEW kept \in {"previous", "rolled"}, NEW q \in Steps, NEW r \in Steps,
         Retag(p, kept, q, r)
  PROVE  TypeOK' /\ Quiet /\ pc = p /\ pc' \in {q, r}
<1>1. /\ tag' \in [Tags -> Versions \union {None}]
      /\ \A i \in Refs : tag[i] # None => tag'[i] # None
  BY Nothing DEF TypeOK, Retag
<1>2. /\ pc = p /\ pc' \in {q, r} /\ faults' \in Nat
      /\ UNCHANGED <<compose, container, running, record, databases, minute, locals, ghosts, bounds>>
  BY DEF TypeOK, Retag, Goto, Fails
<1> QED BY <1>1, <1>2, GrowsSelf, Nothing DEF TypeOK, Quiet, locals, bounds, databases, ghosts

LEMMA RemoveTagsTyped ==
  ASSUME TypeOK, NEW p, NEW tags \in SUBSET {"previous", "rolled"}, NEW q \in Steps,
         NEW result \in Results, RemoveTags(p, tags, q, result)
  PROVE  TypeOK' /\ Quiet /\ pc = p /\ pc' = q
<1>1. /\ tag' \in [Tags -> Versions \union {None}]
      /\ \A i \in Refs : tag'[i] = tag[i]
  BY Nothing DEF TypeOK, RemoveTags
<1>2. /\ pc = p /\ pc' = q /\ faults' \in Nat /\ last' = result
      /\ UNCHANGED <<compose, container, running, record, databases, minute, locals, pre, acked, bounds>>
  BY DEF TypeOK, RemoveTags, Fails
<1> QED BY <1>1, <1>2, GrowsSelf DEF TypeOK, Quiet, locals, bounds, databases, Results

LEMMA OpenTyped ==
  ASSUME TypeOK, NEW p, NEW n \in Name, NEW q \in Steps, Open(p, n, q)
  PROVE  TypeOK' /\ Quiet /\ pc = p /\ pc' = q
<1>1. /\ pc = p /\ pc' = q
      /\ UNCHANGED <<stack, record, nextId, minute, locals, ghosts, bounds>>
  BY DEF Open, Goto
<1>2. faults' \in Nat
  BY Injected DEF Open
<1>3. dbs' \in [Name -> Database \union {None}] /\ Grows(dbs, dbs')
  <2>1. CASE Exists(n) /\ dbs' = [dbs EXCEPT ![n].open = TRUE]
    BY <2>1, OpenGrows DEF TypeOK, Exists
  <2>2. CASE UNCHANGED dbs
    BY <2>2, GrowsSelf DEF TypeOK
  <2> QED BY <2>1, <2>2 DEF Open
<1> QED BY <1>1, <1>2, <1>3 DEF TypeOK, Quiet, locals, bounds, stack, ghosts

LEMMA WriteRecordTyped ==
  ASSUME TypeOK, NEW p, NEW result \in Results, tag[image] # None, WriteRecord(p, result)
  PROVE  TypeOK' /\ Quiet /\ pc = p /\ pc' = "idle"
<1>1. /\ pc = p /\ pc' = "idle" /\ pc' \in Steps /\ last' \in Results
      /\ UNCHANGED <<stack, databases, minute, locals, pre, acked, bounds>>
  BY DEF WriteRecord, Return, Steps, Results
<1>2. faults' \in Nat
  BY Injected DEF WriteRecord
<1>3. record' \in [image : Refs, version : Versions] /\ tag[record'.image] \in Versions
  <2>1. image \in Refs /\ tag[image] \in Versions
    BY Nothing DEF TypeOK
  <2>2. CASE record' = [image |-> image, version |-> tag[image]]
    BY <2>1, <2>2
  <2>3. CASE UNCHANGED record
    BY <2>3 DEF TypeOK
  <2> QED BY <2>2, <2>3 DEF WriteRecord
<1> QED BY <1>1, <1>2, <1>3, GrowsSelf DEF TypeOK, Quiet, locals, bounds, stack, databases, Results

LEMMA CloseTyped ==
  ASSUME TypeOK, NEW p, NEW n \in Name, NEW q \in Steps, NEW r \in Steps, Close(p, n, q, r)
  PROVE  /\ TypeOK' /\ Grows(dbs, dbs') /\ pc = p /\ aside' = n
         /\ UNCHANGED <<tag, image, snapshot, acked>>
         /\ \/ pc' = r
            \/ pc' = q /\ dbs'[Main] # None
<1>1. /\ pc = p /\ pc' \in {q, r} /\ aside' = n
      /\ UNCHANGED <<stack, record, nextId, minute, image, snapshot, ghosts, bounds>>
  BY DEF Close, Goto
<1>2. faults' \in Nat
  BY Injected DEF Close
<1>3. /\ dbs' \in [Name -> Database \union {None}] /\ Grows(dbs, dbs')
      /\ \/ pc' = r
         \/ pc' = q /\ dbs'[Main] # None
  <2>1. CASE Exists(Main) /\ dbs' = [dbs EXCEPT ![Main].open = FALSE] /\ pc' = q
    <3>1. dbs' \in [Name -> Database \union {None}] /\ Grows(dbs, dbs')
      BY <2>1, OpenGrows, Names DEF TypeOK, Exists
    <3> QED BY <2>1, <3>1, Names DEF Grows, Exists
  <2>2. CASE UNCHANGED dbs /\ pc' = r
    BY <2>2, GrowsSelf DEF TypeOK
  <2> QED BY <2>1, <2>2 DEF Close, Goto
<1> QED BY <1>1, <1>2, <1>3 DEF TypeOK, bounds, stack, ghosts

LEMMA ReopenedGrows ==
  ASSUME TypeOK, dbs[Main] # None, NEW b, NEW e \in Reopened(b)
  PROVE  e \in [Name -> Database \union {None}] /\ Grows(dbs, e)
<1>1. PICK o \in BOOLEAN : e = [dbs EXCEPT ![Main].open = o]
  BY DEF Reopened
<1> QED BY <1>1, OpenGrows, Names DEF TypeOK

LEMMA CopyTyped ==
  ASSUME TypeOK, dbs[Main] # None, CopyDatabase
  PROVE  TypeOK' /\ Quiet /\ pc = "copy" /\ pc' \in {"open", "abort"} /\ dbs'[Main] # None
<1>1. /\ pc = "copy" /\ pc' \in {"open", "abort"} /\ pc' \in Steps
      /\ UNCHANGED <<stack, record, minute, locals, ghosts, bounds>>
  BY DEF CopyDatabase, Goto, Steps
<1>2. faults' \in Nat
  BY Injected DEF CopyDatabase
<1>3. /\ nextId' \in Nat /\ dbs' \in [Name -> Database \union {None}] /\ Grows(dbs, dbs')
  <2>1. CASE /\ ~Exists(snapshot) /\ nextId' = nextId + 1
             /\ dbs' = [dbs EXCEPT ![snapshot] = [dbs[Main] EXCEPT !.id = nextId, !.open = TRUE]]
    <3>1. dbs[Main] \in Database
      BY Names DEF TypeOK
    <3>2. [dbs[Main] EXCEPT !.id = nextId, !.open = TRUE] \in Database
      BY <3>1 DEF Database, TypeOK
    <3>3. dbs' \in [Name -> Database \union {None}]
      BY <2>1, <3>2 DEF TypeOK
    <3>4. \A n \in Name : dbs[n] # None => dbs'[n] = dbs[n]
      BY <2>1 DEF Exists, TypeOK
    <3>5. Grows(dbs, dbs')
      BY <3>4 DEF Grows
    <3> QED BY <2>1, <3>3, <3>5 DEF TypeOK
  <2>2. CASE UNCHANGED nextId /\ dbs' \in Reopened(Exists(snapshot))
    BY <2>2, ReopenedGrows DEF TypeOK
  <2> QED BY <2>1, <2>2 DEF CopyDatabase
<1>4. dbs'[Main] # None
  BY <1>3, Names DEF Grows
<1> QED BY <1>1, <1>2, <1>3, <1>4 DEF TypeOK, Quiet, bounds, stack, ghosts, locals

LEMMA UpgradeTyped ==
  ASSUME TypeOK, RunUpgrade
  PROVE  TypeOK' /\ Quiet /\ pc = "upgrade" /\ pc' \in {"start", "u_stop"}
<1>1. /\ pc = "upgrade" /\ pc' \in {"start", "u_stop"} /\ pc' \in Steps
      /\ UNCHANGED <<stack, record, nextId, minute, locals, ghosts, bounds>>
  BY DEF RunUpgrade, Goto, Steps
<1>2. faults' \in Nat
  BY Injected DEF RunUpgrade
<1>3. dbs' \in [Name -> Database \union {None}] /\ Grows(dbs, dbs')
  <2>1. CASE Usable /\ \E s \in Versions \union {Partial} : dbs' = [dbs EXCEPT ![Main].schema = s]
    <3>1. PICK s \in Versions \union {Partial} : dbs' = [dbs EXCEPT ![Main].schema = s]
      BY <2>1
    <3> QED BY <2>1, <3>1, SchemaGrows, Names DEF TypeOK, Usable, Exists
  <2>2. CASE UNCHANGED dbs
    BY <2>2, GrowsSelf DEF TypeOK
  <2>3. Usable => dbs[Main].schema \in Versions \union {Partial}
    BY Names DEF TypeOK, Usable, Exists, Database
  <2>4. tag[compose] \in Versions
    BY DEF TypeOK
  <2> QED BY <2>1, <2>2, <2>3, <2>4 DEF RunUpgrade
<1> QED BY <1>1, <1>2, <1>3 DEF TypeOK, Quiet, bounds, stack, ghosts, locals

LEMMA AsideTyped ==
  ASSUME TypeOK, dbs[Main] # None, NEW p, NEW n \in Name, NEW q \in Steps, NEW r \in Steps,
         SetDatabaseAside(p, n, q, r)
  PROVE  /\ TypeOK' /\ pc = p
         /\ UNCHANGED <<tag, image, snapshot, aside, acked>>
         /\ \/ pc' = r /\ Grows(dbs, dbs')
            \/ /\ pc' = q /\ dbs[n] = None /\ dbs'[n] # None
               /\ dbs' = [dbs EXCEPT ![n] = dbs[Main], ![Main] = None]
<1>1. /\ pc = p /\ pc' \in {q, r}
      /\ UNCHANGED <<stack, record, nextId, minute, locals, ghosts, bounds>>
  BY DEF SetDatabaseAside, Goto
<1>2. faults' \in Nat
  BY Injected DEF SetDatabaseAside
<1>3. /\ dbs' \in [Name -> Database \union {None}]
      /\ \/ pc' = r /\ Grows(dbs, dbs')
         \/ /\ pc' = q /\ dbs[n] = None /\ dbs'[n] # None
            /\ dbs' = [dbs EXCEPT ![n] = dbs[Main], ![Main] = None]
  <2>1. CASE /\ ~Exists(n) /\ dbs' = [dbs EXCEPT ![n] = dbs[Main], ![Main] = None] /\ pc' = q
    <3>1. n # Main /\ dbs[Main] \in Database /\ dbs[n] = None
      BY <2>1, Names DEF Exists, TypeOK
    <3>2. dbs' \in [Name -> Database \union {None}] /\ dbs'[n] # None
      BY <2>1, <3>1, Names DEF TypeOK
    <3> QED BY <2>1, <3>1, <3>2
  <2>2. CASE dbs' \in Reopened(Exists(n)) /\ pc' = r
    BY <2>2, ReopenedGrows
  <2> QED BY <2>1, <2>2 DEF SetDatabaseAside, Goto
<1> QED BY <1>1, <1>2, <1>3 DEF TypeOK, bounds, stack, ghosts, locals

LEMMA PutTyped ==
  ASSUME TypeOK, NEW p, NEW n \in Name, NEW q \in Steps, NEW r \in Steps,
         PutDatabaseBack(p, n, q, r)
  PROVE  /\ TypeOK' /\ pc = p
         /\ UNCHANGED <<tag, image, snapshot, aside, acked>>
         /\ \/ pc' = r /\ dbs' = dbs
            \/ /\ pc' = q /\ dbs[n] # None /\ dbs[Main] = None
               /\ dbs' = [dbs EXCEPT ![Main] = dbs[n], ![n] = None]
<1>1. /\ pc = p /\ pc' \in {q, r}
      /\ UNCHANGED <<stack, record, nextId, minute, locals, ghosts, bounds>>
  BY DEF PutDatabaseBack, Goto
<1>2. faults' \in Nat
  BY Injected DEF PutDatabaseBack
<1>3. /\ dbs' \in [Name -> Database \union {None}]
      /\ \/ pc' = r /\ dbs' = dbs
         \/ /\ pc' = q /\ dbs[n] # None /\ dbs[Main] = None
            /\ dbs' = [dbs EXCEPT ![Main] = dbs[n], ![n] = None]
  <2>1. CASE /\ Exists(n) /\ ~Exists(Main)
             /\ dbs' = [dbs EXCEPT ![Main] = dbs[n], ![n] = None] /\ pc' = q
    BY <2>1, Names DEF Exists, TypeOK
  <2>2. CASE dbs' = dbs /\ pc' = r
    BY <2>2 DEF TypeOK
  <2> QED BY <2>1, <2>2 DEF PutDatabaseBack, Goto
<1> QED BY <1>1, <1>2, <1>3 DEF TypeOK, bounds, stack, ghosts, locals

LEMMA PullKeeps ==
  ASSUME Inv, Pull
  PROVE  Inv'
<1>1. /\ pc = "pull" /\ pc' \in {"stop", "idle"} /\ pc' \in Steps /\ last' \in Results
      /\ pc' # "idle" => tag'[image] # None
      /\ UNCHANGED <<compose, container, running, record, databases, minute, locals, faults,
                     pre, acked, bounds>>
  BY DEF Inv, TypeOK, Pull, Goto, Return, Steps, Results
<1>2. /\ tag' \in [Tags -> Versions \union {None}]
      /\ \A r \in Refs : tag[r] # None => tag'[r] # None
  BY Nothing DEF Inv, TypeOK, Pull
<1>3. TypeOK'
  BY <1>1, <1>2, Nothing DEF Inv, TypeOK, locals, bounds, databases, Results
<1>4. HoldsApart(dbs, acked, {})'
  BY <1>1 DEF Inv, HoldsApart, StoredIn, databases
<1>5. /\ Imaged(pc, tag, image)' /\ Named(pc, snapshot, aside)'
      /\ Present(pc, dbs)' /\ Swapped(pc, dbs, snapshot, acked)'
  BY <1>1 DEF locals, Imaged, Named, Present, Swapped, Unasked, RollingBack
<1> QED BY <1>3, <1>4, <1>5 DEF Inv

LEMMA DryRunKeeps ==
  ASSUME Inv, DryRun
  PROVE  Inv'
<1>1. /\ pc = "dryrun" /\ pc' \in {"close", "abort"} /\ pc' \in Steps /\ snapshot' \in Name
      /\ UNCHANGED <<stack, record, databases, minute, image, aside, faults, ghosts, bounds>>
  BY Names DEF Inv, TypeOK, DryRun, Goto, Steps
<1>2. TypeOK'
  BY <1>1 DEF Inv, TypeOK, stack, databases, ghosts, bounds
<1>3. HoldsApart(dbs, acked, {})'
  BY <1>1 DEF Inv, HoldsApart, StoredIn, databases, ghosts
<1>4. /\ Imaged(pc, tag, image)' /\ Named(pc, snapshot, aside)'
      /\ Present(pc, dbs)' /\ Swapped(pc, dbs, snapshot, acked)'
  BY <1>1 DEF Inv, stack, Imaged, Named, Present, Swapped, Unasked, RollingBack
<1> QED BY <1>2, <1>3, <1>4 DEF Inv

(* Only copies from before are dropped. *)
LEMMA DropKeeps ==
  ASSUME Inv, DropOlder
  PROVE  Inv'
<1>1. /\ pc = "prune" /\ pc' = "record" /\ pc' \in Steps /\ unpaired' = disturbed
      /\ UNCHANGED <<stack, record, nextId, minute, locals, ghosts, crashes, jobs, nextWrite, disturbed>>
  BY DEF DropOlder, Goto, Steps
<1>2. faults' \in Nat
  BY Injected DEF Inv, DropOlder
<1>3. /\ dbs' \in [Name -> Database \union {None}]
      /\ \A n \in Name : n \notin Before => dbs'[n] = dbs[n]
  BY DEF Inv, TypeOK, DropOlder, OlderSnapshots
<1>4. TypeOK'
  BY <1>1, <1>2, <1>3 DEF Inv, TypeOK, stack, locals, ghosts
<1>5. HoldsApart(dbs', acked, {}) /\ acked' = acked
  BY <1>1, <1>3 DEF Inv, HoldsApart, StoredIn, ghosts
<1>6. HoldsApart(dbs, acked, {})'
  BY <1>5 DEF HoldsApart, StoredIn
<1>7. /\ Imaged(pc, tag, image)' /\ Named(pc, snapshot, aside)'
      /\ Present(pc, dbs)' /\ Swapped(pc, dbs, snapshot, acked)'
  BY <1>1 DEF Inv, stack, locals, Imaged, Named, Present, Swapped, Unasked, RollingBack
<1> QED BY <1>4, <1>6, <1>7 DEF Inv

LEMMA CloseKeeps ==
  ASSUME Inv, NEW p, NEW n \in Name, NEW q \in Steps, NEW r \in Steps, Close(p, n, q, r),
         p \notin Unasked,
         {q, r} \cap RollingBack # {} => p \in RollingBack,
         q \in {"u_aside", "r_aside"} => n \notin Before /\ n # Main,
         q \notin {"open", "r_open", "r_put"},
         r \notin {"u_aside", "r_aside", "copy", "open", "b_aside", "r_open", "r_put"}
  PROVE  Inv'
<1>1. /\ TypeOK' /\ Grows(dbs, dbs') /\ pc = p /\ aside' = n
      /\ UNCHANGED <<tag, image, snapshot, acked>>
      /\ \/ pc' = r
         \/ pc' = q /\ dbs'[Main] # None
  BY CloseTyped DEF Inv
<1>2. \A S : HoldsApart(dbs, acked, S) => HoldsApart(dbs', acked', S)
  BY <1>1, GrowsHolds
<1>3. (\A m \in Name : dbs[m] # None => dbs'[m] # None) /\ (dbs[Main] = None => dbs'[Main] = None)
  BY <1>1 DEF Grows
<1>4. HoldsApart(dbs, acked, {})'
  BY <1>2 DEF Inv, HoldsApart, StoredIn
<1>5. Imaged(pc, tag, image)' /\ Named(pc, snapshot, aside)'
  BY <1>1 DEF Inv, Imaged, Named
<1>6. Present(pc, dbs)'
  BY <1>1 DEF Present
<1>7. Swapped(pc', dbs', snapshot, acked')
  BY <1>1, <1>2, <1>3 DEF Inv, TypeOK, Swapped
<1>8. Swapped(pc, dbs, snapshot, acked)'
  BY <1>1, <1>7 DEF Swapped
<1> QED BY <1>1, <1>4, <1>5, <1>6, <1>8 DEF Inv

(* Every write is in SENTIENT's database or stays where it is. *)
LEMMA WriteKeeps ==
  ASSUME Inv, Write
  PROVE  Inv'
<1> DEFINE e == [dbs EXCEPT ![Main].writes = @ \union {nextWrite}]
<1>1. /\ dbs[Main] # None /\ dbs' = e /\ nextWrite' = nextWrite + 1 /\ nextWrite \in Nat
      /\ acked' = IF pc = "idle" THEN acked \union {nextWrite} ELSE acked
      /\ UNCHANGED <<stack, record, nextId, minute, pc, locals, faults, pre, last, crashes, jobs,
                     disturbed, unpaired>>
  BY DEF Inv, TypeOK, Write, Usable, Exists
<1>2. /\ dbs[Main] \in Database /\ dbs \in [Name -> Database \union {None}]
  BY <1>1, Names DEF Inv, TypeOK
<1>3. [dbs[Main] EXCEPT !.writes = @ \union {nextWrite}] \in Database
  BY <1>1, <1>2 DEF Database
<1>4. /\ e[Main] = [dbs[Main] EXCEPT !.writes = @ \union {nextWrite}]
      /\ \A n \in Name : n # Main => e[n] = dbs[n]
  BY <1>2, Names
<1>5. e[Main].writes = dbs[Main].writes \union {nextWrite}
  BY <1>2, <1>4 DEF Database
<1>6. e \in [Name -> Database \union {None}] /\ e[Main] # None
  BY <1>2, <1>3, <1>4, Nothing
<1>7. Grows(dbs, e)
  BY <1>1, <1>4, <1>5, <1>6 DEF Grows
<1>8. TypeOK'
  <2>1. acked' \subseteq Nat /\ nextWrite' \in Nat
    BY <1>1 DEF Inv, TypeOK
  <2> QED BY <1>1, <1>6, <2>1 DEF Inv, TypeOK, stack, locals
<1>9. CASE pc # "idle"
  <2>1. Quiet /\ pc' = pc
    BY <1>1, <1>7, <1>9 DEF Quiet, stack, locals
  <2> QED BY <1>8, <2>1, QuietKeeps DEF Follows
<1>10. CASE pc = "idle"
  <2>1. HoldsApart(e, acked, {})
    BY <1>7, GrowsHolds DEF Inv
  <2>2. StoredIn(e, nextWrite, {})
    BY <1>5, <1>6, Names DEF StoredIn
  <2>3. HoldsApart(e, acked \union {nextWrite}, {})
    BY <2>1, <2>2 DEF HoldsApart
  <2>4. HoldsApart(dbs, acked, {})'
    BY <1>1, <1>10, <2>3 DEF HoldsApart, StoredIn
  <2>5. pc' = "idle"
    BY <1>1, <1>10
  <2>6. /\ Imaged(pc, tag, image)' /\ Named(pc, snapshot, aside)'
        /\ Present(pc, dbs)' /\ Swapped(pc, dbs, snapshot, acked)'
    BY <2>5 DEF Imaged, Named, Present, Swapped, Unasked, RollingBack
  <2> QED BY <1>8, <2>4, <2>6 DEF Inv
<1> QED BY <1>9, <1>10

(* A failed swap of the databases is put right, or found to be complete. *)
LEMMA ProbeKeeps ==
  ASSUME Inv, Probe
  PROVE  Inv'
<1>1. PICK seen, renamed \in BOOLEAN :
        /\ IF seen = Exists(snapshot) /\ renamed THEN UNCHANGED faults ELSE Fails("r_probe")
        /\ Goto(IF seen THEN "n_stop" ELSE "b_stop")
        /\ dbs' = IF seen /\ ~Exists(Main) /\ Exists(aside) /\ renamed
                  THEN [dbs EXCEPT ![Main] = dbs[aside], ![aside] = None]
                  ELSE dbs
  BY DEF Probe
<1>2. /\ pc = "r_probe" /\ pc' \in {"n_stop", "b_stop"} /\ pc' \in Steps
      /\ UNCHANGED <<stack, record, nextId, minute, image, snapshot, aside, ghosts, bounds>>
  BY <1>1 DEF Probe, Goto, Steps
<1>3. faults' \in Nat
  BY <1>1, Injected DEF Inv
<1>4. CASE dbs' = dbs
  <2>1. TypeOK'
    BY <1>2, <1>3, <1>4 DEF Inv, TypeOK, stack, ghosts, bounds
  <2>2. Quiet
    BY <1>2, <1>4, GrowsSelf DEF Quiet, stack, ghosts
  <2>3. Follows(pc, pc')
    BY <1>2 DEF Follows, Unasked, RollingBack
  <2> QED BY <2>1, <2>2, <2>3, QuietKeeps
<1>5. CASE /\ pc' = "n_stop" /\ dbs[Main] = None /\ dbs[aside] # None
           /\ dbs' = [dbs EXCEPT ![Main] = dbs[aside], ![aside] = None]
  <2>1. dbs \in [Name -> Database \union {None}] /\ aside \in Name
    BY DEF Inv, TypeOK
  <2>2. dbs' \in [Name -> Database \union {None}]
    BY <1>5, <2>1, Names
  <2>3. TypeOK'
    BY <1>2, <1>3, <2>2 DEF Inv, TypeOK, stack, ghosts, bounds
  <2>4. HoldsApart(dbs', acked, {}) /\ acked' = acked
    BY <1>2, <1>5, <2>1, PutHolds DEF Inv, ghosts
  <2>5. HoldsApart(dbs, acked, {})'
    BY <2>4 DEF HoldsApart, StoredIn
  <2>6. /\ Imaged(pc, tag, image)' /\ Named(pc, snapshot, aside)'
        /\ Present(pc, dbs)' /\ Swapped(pc, dbs, snapshot, acked)'
    BY <1>2, <1>5 DEF Inv, stack, Imaged, Named, Present, Swapped, Unasked, RollingBack
  <2> QED BY <2>3, <2>5, <2>6 DEF Inv
<1> QED BY <1>1, <1>4, <1>5 DEF Exists, Goto

(* The database in use is renamed to a name of the job's own ...           *)
LEMMA AsideKeeps ==
  ASSUME Inv, NEW p \in {"u_aside", "r_aside"}, NEW q \in {"u_open", "r_open"},
         NEW r \in {"u_start", "r_probe"}, q = "r_open" <=> p = "r_aside",
         r = "r_probe" <=> p = "r_aside", SetDatabaseAside(p, aside, q, r)
  PROVE  Inv'
<1>1. /\ dbs[Main] # None /\ pc = p /\ aside \in Name /\ aside \notin Before /\ aside # Main
      /\ q \in Steps /\ r \in Steps
  BY DEF Inv, TypeOK, SetDatabaseAside, Present, Named, Steps
<1>2. /\ TypeOK'
      /\ UNCHANGED <<tag, image, snapshot, aside, acked>>
      /\ \/ pc' = r /\ Grows(dbs, dbs')
         \/ /\ pc' = q /\ dbs[aside] = None /\ dbs'[aside] # None
            /\ dbs' = [dbs EXCEPT ![aside] = dbs[Main], ![Main] = None]
  BY <1>1, AsideTyped DEF Inv
<1>3. CASE pc' = r /\ Grows(dbs, dbs')
  <2>1. Quiet /\ Follows(pc, pc')
    BY <1>1, <1>2, <1>3 DEF Quiet, Follows, Unasked, RollingBack
  <2> QED BY <1>2, <2>1, QuietKeeps
<1>4. CASE /\ pc' = q /\ dbs[aside] = None /\ dbs'[aside] # None
           /\ dbs' = [dbs EXCEPT ![aside] = dbs[Main], ![Main] = None]
  <2>1. HoldsApart(dbs', acked, {Main}) /\ acked' = acked
    BY <1>1, <1>2, <1>4, AsideHolds DEF Inv, TypeOK
  <2>2. HoldsApart(dbs, acked, {})'
    BY <2>1 DEF HoldsApart, StoredIn
  <2>3. Imaged(pc, tag, image)' /\ Named(pc, snapshot, aside)'
    BY <1>1, <1>2, <1>4 DEF Inv, Imaged, Named, Unasked, RollingBack
  <2>4. Present(pc, dbs)'
    BY <1>2, <1>4 DEF Present
  <2>5. Swapped(pc', dbs', snapshot', acked')
    <3>1. dbs'[Main] = None
      BY <1>1, <1>4, Names DEF Inv, TypeOK
    <3> QED BY <2>1, <3>1 DEF Swapped
  <2>6. Swapped(pc, dbs, snapshot, acked)'
    BY <2>5 DEF Swapped
  <2> QED BY <1>2, <2>2, <2>3, <2>4, <2>6 DEF Inv
<1> QED BY <1>2, <1>3, <1>4

(* ... by the undo of a rollback to the copy's, which is free.             *)
LEMMA BackKeeps ==
  ASSUME Inv, SetDatabaseAside("b_aside", snapshot, "b_open", "b_start")
  PROVE  Inv'
<1>1. /\ dbs[Main] # None /\ pc = "b_aside" /\ snapshot \in Name
      /\ "b_open" \in Steps /\ "b_start" \in Steps
  BY DEF Inv, TypeOK, SetDatabaseAside, Present, Steps
<1>2. /\ TypeOK'
      /\ UNCHANGED <<tag, image, snapshot, aside, acked>>
      /\ \/ pc' = "b_start" /\ Grows(dbs, dbs')
         \/ /\ pc' = "b_open" /\ dbs[snapshot] = None /\ dbs'[snapshot] # None
            /\ dbs' = [dbs EXCEPT ![snapshot] = dbs[Main], ![Main] = None]
  BY <1>1, AsideTyped DEF Inv
<1>3. CASE pc' = "b_start" /\ Grows(dbs, dbs')
  <2>1. Quiet /\ Follows(pc, pc')
    BY <1>1, <1>2, <1>3 DEF Quiet, Follows, Unasked, RollingBack
  <2> QED BY <1>2, <2>1, QuietKeeps
<1>4. CASE /\ pc' = "b_open" /\ dbs[snapshot] = None /\ dbs'[snapshot] # None
           /\ dbs' = [dbs EXCEPT ![snapshot] = dbs[Main], ![Main] = None]
  <2>1. HoldsApart(dbs, acked, {Main})
    BY <1>1, <1>4 DEF Inv, Swapped, RollingBack
  <2>2. HoldsApart(dbs', acked, {}) /\ acked' = acked
    BY <1>1, <1>2, <1>4, <2>1, BackHolds DEF Inv, TypeOK
  <2>3. HoldsApart(dbs, acked, {})'
    BY <2>2 DEF HoldsApart, StoredIn
  <2>4. /\ Imaged(pc, tag, image)' /\ Named(pc, snapshot, aside)'
        /\ Present(pc, dbs)' /\ Swapped(pc, dbs, snapshot, acked)'
    BY <1>1, <1>2, <1>4 DEF Inv, Imaged, Named, Present, Swapped, Unasked, RollingBack
  <2> QED BY <1>2, <2>3, <2>4 DEF Inv
<1> QED BY <1>2, <1>3, <1>4

LEMMA PutKeeps ==
  ASSUME Inv, NEW p, NEW n \in Name, NEW q \in Steps, NEW r \in Steps,
         PutDatabaseBack(p, n, q, r),
         p \notin Unasked,
         {q, r} \cap RollingBack # {} => p = "r_put" /\ n = snapshot,
         {q, r} \cap {"copy", "open", "u_aside", "r_aside", "b_aside", "u_open", "r_open",
                      "b_open", "r_put"} = {}
  PROVE  Inv'
<1>1. /\ TypeOK' /\ pc = p
      /\ UNCHANGED <<tag, image, snapshot, aside, acked>>
      /\ \/ pc' = r /\ dbs' = dbs
         \/ /\ pc' = q /\ dbs[n] # None /\ dbs[Main] = None
            /\ dbs' = [dbs EXCEPT ![Main] = dbs[n], ![n] = None]
  BY PutTyped DEF Inv
<1>2. CASE pc' = r /\ dbs' = dbs
  <2>1. Quiet
    BY <1>1, <1>2, GrowsSelf DEF Quiet
  <2>2. Follows(pc, pc')
    BY <1>1, <1>2 DEF Follows, RollingBack
  <2> QED BY <1>1, <2>1, <2>2, QuietKeeps
<1>3. CASE /\ pc' = q /\ dbs[n] # None /\ dbs[Main] = None
           /\ dbs' = [dbs EXCEPT ![Main] = dbs[n], ![n] = None]
  <2>1. /\ HoldsApart(dbs', acked, {}) /\ acked' = acked
        /\ n \in Before => HoldsApart(dbs', acked, {Main})
    BY <1>1, <1>3, PutHolds DEF Inv, TypeOK
  <2>2. HoldsApart(dbs, acked, {})'
    BY <2>1 DEF HoldsApart, StoredIn
  <2>3. q \in RollingBack => n \in Before /\ snapshot \in Before
    BY <1>1 DEF Inv, Named, RollingBack
  <2>4. Imaged(pc, tag, image)' /\ Named(pc, snapshot, aside)'
    BY <1>1, <1>3, <2>3 DEF Inv, Imaged, Named
  <2>5. Present(pc, dbs)'
    BY <1>3 DEF Present
  <2>6. Swapped(pc', dbs', snapshot', acked')
    BY <1>3, <2>1, <2>3 DEF Swapped
  <2>7. Swapped(pc, dbs, snapshot, acked)'
    BY <2>6 DEF Swapped
  <2> QED BY <1>1, <2>2, <2>4, <2>5, <2>7 DEF Inv
<1> QED BY <1>1, <1>2, <1>3

-----------------------------------------------------------------------------
(* The jobs. *)

LEMMA SafeUpdateKeeps ==
  ASSUME Inv, SafeUpdateStep
  PROVE  Inv'
<1>0. TypeOK
  BY DEF Inv
<1> USE DEF Follows, Unasked, RollingBack
<1>1. CASE Keep("keep", "previous", "pull")
  BY <1>0, <1>1, KeepTyped, QuietKeeps DEF Steps
<1>2. CASE StopApp("stop", "dryrun")
  BY <1>0, <1>2, StopAppTyped, QuietKeeps DEF Steps
<1>3. CASE Retag("abort", "previous", "aborting", "aborting")
  BY <1>0, <1>3, RetagTyped, QuietKeeps, SMTT(60) DEF Steps
<1>4. CASE Start("aborting", "aborted", "aborted")
  BY <1>0, <1>4, StartTyped, QuietKeeps DEF Steps
<1>5. CASE LastCheck("aborted", "refused")
  BY <1>0, <1>5, LastCheckTyped, QuietKeeps DEF Results
<1>6. CASE Close("close", aside, "copy", "abort")
  <2>1. aside \in Name
    BY <1>0 DEF TypeOK
  <2> QED BY <1>6, <2>1, CloseKeeps DEF Steps
<1>7. CASE CopyDatabase
  <2>1. dbs[Main] # None
    BY <1>7 DEF Inv, Present, CopyDatabase
  <2>2. TypeOK' /\ Quiet /\ pc = "copy" /\ pc' \in {"open", "abort"} /\ dbs'[Main] # None
    BY <1>0, <1>7, <2>1, CopyTyped
  <2>3. CASE pc' = "abort"
    BY <2>2, <2>3, QuietKeeps
  <2>4. CASE pc' = "open"
    <3>1. HoldsApart(dbs', acked, {}) /\ acked' = acked
      BY <2>2, GrowsHolds DEF Inv, Quiet
    <3>2. HoldsApart(dbs, acked, {})'
      BY <3>1 DEF HoldsApart, StoredIn
    <3>3. Imaged(pc, tag, image)'
      BY <2>2 DEF Inv, TypeOK, Imaged, Quiet
    <3>4. Named(pc, snapshot, aside)' /\ Present(pc, dbs)'
          /\ Swapped(pc, dbs, snapshot, acked)'
      BY <2>2, <2>4 DEF Named, Present, Swapped
    <3> QED BY <2>2, <3>2, <3>3, <3>4 DEF Inv
  <2> QED BY <2>2, <2>3, <2>4
<1>8. CASE Open("open", Main, "upgrade")
  <2>1. dbs[Main] # None
    BY <1>8 DEF Inv, Present, Open
  <2> QED BY <1>0, <1>8, <2>1, OpenTyped, QuietKeeps, Names DEF Steps
<1>9. CASE RunUpgrade
  BY <1>0, <1>9, UpgradeTyped, QuietKeeps
<1>10. CASE Start("start", "check", "u_stop")
  BY <1>0, <1>10, StartTyped, QuietKeeps DEF Steps
<1>11. CASE Check("check", "prune", "u_stop")
  BY <1>0, <1>11, CheckTyped, QuietKeeps DEF Steps
<1>12. CASE WriteRecord("record", "updated")
  <2>1. tag[image] # None
    BY <1>12 DEF Inv, Imaged, WriteRecord
  <2> QED BY <1>0, <1>12, <2>1, WriteRecordTyped, QuietKeeps DEF Results
<1> QED BY <1>1, <1>2, <1>3, <1>4, <1>5, <1>6, <1>7, <1>8, <1>9, <1>10, <1>11, <1>12,
           PullKeeps, DryRunKeeps, DropKeeps DEF SafeUpdateStep

LEMMA UndoUpdateKeeps ==
  ASSUME Inv, UndoUpdateStep
  PROVE  Inv'
<1>0. TypeOK /\ minute \in 0..MaxMinute
  BY DEF Inv, TypeOK
<1> USE DEF Follows, Unasked, RollingBack
<1>1. CASE StopAgain("u_stop", "u_image")
  BY <1>0, <1>1, StopAgainTyped, QuietKeeps DEF Steps
<1>2. CASE Retag("u_image", "previous", "u_close", "u_close")
  BY <1>0, <1>2, RetagTyped, QuietKeeps, SMTT(60) DEF Steps
<1>3. CASE Close("u_close", <<"failed", minute>>, "u_aside", "u_start")
  <2>1. PICK n \in Name : n = <<"failed", minute>> /\ n \notin Before /\ n # Main
    BY <1>0, Names
  <2>2. Close("u_close", n, "u_aside", "u_start")
    BY <1>3, <2>1
  <2> QED BY <2>1, <2>2, CloseKeeps DEF Steps
<1>4. CASE SetDatabaseAside("u_aside", aside, "u_open", "u_start")
  BY <1>4, AsideKeeps
<1>5. CASE Open("u_open", aside, "u_put")
  <2>1. aside \in Name
    BY <1>0 DEF TypeOK
  <2> QED BY <1>0, <1>5, <2>1, OpenTyped, QuietKeeps DEF Steps
<1>6. CASE PutDatabaseBack("u_put", snapshot, "u_start", "u_start")
  <2>1. snapshot \in Name
    BY <1>0 DEF TypeOK
  <2> QED BY <1>6, <2>1, PutKeeps DEF Steps
<1>7. CASE Start("u_start", "u_check", "u_check")
  BY <1>0, <1>7, StartTyped, QuietKeeps DEF Steps
<1>8. CASE LastCheck("u_check", "undone")
  BY <1>0, <1>8, LastCheckTyped, QuietKeeps DEF Results
<1> QED BY <1>1, <1>2, <1>3, <1>4, <1>5, <1>6, <1>7, <1>8 DEF UndoUpdateStep

LEMMA RollbackKeeps ==
  ASSUME Inv, RollbackStep
  PROVE  Inv'
<1>0. TypeOK /\ minute \in 0..MaxMinute
  BY DEF Inv, TypeOK
<1> USE DEF Follows, Unasked, RollingBack
<1>1. CASE Keep("r_keep", "rolled", "r_stop")
  BY <1>0, <1>1, KeepTyped, QuietKeeps DEF Steps
<1>2. CASE StopApp("r_stop", "r_image")
  BY <1>0, <1>2, StopAppTyped, QuietKeeps DEF Steps
<1>3. CASE Retag("r_image", "previous", "r_close", "n_stop")
  BY <1>0, <1>3, RetagTyped, QuietKeeps, SMTT(60) DEF Steps
<1>4. CASE Close("r_close", <<"rolled", minute>>, "r_aside", "r_probe")
  <2>1. PICK n \in Name : n = <<"rolled", minute>> /\ n \notin Before /\ n # Main
    BY <1>0, Names
  <2>2. Close("r_close", n, "r_aside", "r_probe")
    BY <1>4, <2>1
  <2> QED BY <2>1, <2>2, CloseKeeps DEF Steps
<1>5. CASE SetDatabaseAside("r_aside", aside, "r_open", "r_probe")
  BY <1>5, AsideKeeps
<1>6. CASE Open("r_open", aside, "r_put")
  <2>1. aside \in Name
    BY <1>0 DEF TypeOK
  <2> QED BY <1>0, <1>6, <2>1, OpenTyped, QuietKeeps DEF Steps
<1>7. CASE PutDatabaseBack("r_put", snapshot, "r_start", "r_probe")
  <2>1. snapshot \in Name
    BY <1>0 DEF TypeOK
  <2> QED BY <1>7, <2>1, PutKeeps DEF Steps
<1>8. CASE Start("r_start", "r_check", "b_stop")
  BY <1>0, <1>8, StartTyped, QuietKeeps DEF Steps
<1>9. CASE Check("r_check", "r_clean", "b_stop")
  BY <1>0, <1>9, CheckTyped, QuietKeeps DEF Steps
<1>10. CASE RemoveTags("r_clean", {"previous", "rolled"}, "r_record", last)
  <2>1. last \in Results
    BY <1>0 DEF TypeOK, Results
  <2>2. TypeOK' /\ Quiet /\ pc = "r_clean" /\ pc' = "r_record"
    <3>1. {"previous", "rolled"} \in SUBSET {"previous", "rolled"} /\ "r_record" \in Steps
      BY DEF Steps
    <3> QED BY <1>0, <1>10, <2>1, <3>1, RemoveTagsTyped
  <2> QED BY <2>2, QuietKeeps
<1>11. CASE WriteRecord("r_record", "rolledback")
  <2>1. tag[image] # None
    BY <1>11 DEF Inv, Imaged, WriteRecord
  <2> QED BY <1>0, <1>11, <2>1, WriteRecordTyped, QuietKeeps DEF Results
<1> QED BY <1>1, <1>2, <1>3, <1>4, <1>5, <1>6, <1>7, <1>8, <1>9, <1>10, <1>11, ProbeKeeps
        DEF RollbackStep

LEMMA UndoRollbackKeeps ==
  ASSUME Inv, UndoRollbackStep
  PROVE  Inv'
<1>0. TypeOK /\ snapshot \in Name /\ aside \in Name
  BY DEF Inv, TypeOK
<1> USE DEF Follows, Unasked, RollingBack
<1>1. CASE StopAgain("n_stop", "n_image")
  BY <1>0, <1>1, StopAgainTyped, QuietKeeps DEF Steps
<1>2. CASE Retag("n_image", "rolled", "b_start", "b_start")
  BY <1>0, <1>2, RetagTyped, QuietKeeps, SMTT(60) DEF Steps
<1>3. CASE StopAgain("b_stop", "b_image")
  BY <1>0, <1>3, StopAgainTyped, QuietKeeps DEF Steps
<1>4. CASE Retag("b_image", "rolled", "b_close", "b_close")
  BY <1>0, <1>4, RetagTyped, QuietKeeps, SMTT(60) DEF Steps
<1>5. CASE Close("b_close", aside, "b_aside", "b_start")
  BY <1>0, <1>5, CloseKeeps DEF Steps
<1>6. CASE SetDatabaseAside("b_aside", snapshot, "b_open", "b_start")
  BY <1>6, BackKeeps
<1>7. CASE Open("b_open", snapshot, "b_put")
  BY <1>0, <1>7, OpenTyped, QuietKeeps DEF Steps
<1>8. CASE PutDatabaseBack("b_put", aside, "b_start", "b_start")
  BY <1>0, <1>8, PutKeeps DEF Steps
<1>9. CASE Start("b_start", "b_check", "b_check")
  BY <1>0, <1>9, StartTyped, QuietKeeps DEF Steps
<1>10. CASE Check("b_check", "b_clean", "b_clean")
  BY <1>0, <1>10, CheckTyped, QuietKeeps DEF Steps
<1>11. CASE RemoveTags("b_clean", {"rolled"}, "idle", "rollbackundone")
  BY <1>0, <1>11, RemoveTagsTyped, QuietKeeps DEF Steps, Results
<1> QED BY <1>1, <1>2, <1>3, <1>4, <1>5, <1>6, <1>7, <1>8, <1>9, <1>10, <1>11
        DEF UndoRollbackStep

LEMMA Began ==
  ASSUME TypeOK, NEW doubtful \in BOOLEAN, Begin(doubtful)
  PROVE  /\ jobs' \in Nat /\ minute' \in 0..MaxMinute /\ faults' \in Nat
         /\ pre' \in [container : Versions, main : Database \union {None}]
         /\ disturbed' \in BOOLEAN /\ unpaired' \in BOOLEAN
<1>1. minute' \in 0..MaxMinute
  BY DockerAssumption DEF TypeOK, Begin
<1>2. disturbed' \in BOOLEAN /\ unpaired' \in BOOLEAN
  BY Zenon DEF TypeOK, Begin
<1> QED BY <1>1, <1>2, DockerAssumption, Names DEF TypeOK, Begin

LEMMA BeginKeeps ==
  ASSUME Inv, BeginUpdate \/ BeginRollback
  PROVE  Inv'
<1>1. CASE BeginUpdate
  <2>1. /\ pc' = "keep" /\ pc' \in Steps /\ image' \in Refs /\ Begin(FALSE)
        /\ UNCHANGED <<stack, record, databases, snapshot, aside, acked, last, crashes, nextWrite>>
    BY <1>1 DEF BeginUpdate, Goto, Steps
  <2>2. TypeOK'
    BY <2>1, Began DEF Inv, TypeOK, stack, databases
  <2>3. HoldsApart(dbs, acked, {})'
    BY <2>1 DEF Inv, HoldsApart, StoredIn, databases
  <2>4. /\ Imaged(pc, tag, image)' /\ Named(pc, snapshot, aside)'
        /\ Present(pc, dbs)' /\ Swapped(pc, dbs, snapshot, acked)'
    BY <2>1 DEF Imaged, Named, Present, Swapped, Unasked, RollingBack
  <2> QED BY <2>2, <2>3, <2>4 DEF Inv
<1>2. CASE BeginRollback
  <2>1. /\ pc' = "r_keep" /\ pc' \in Steps /\ image' = record.image /\ Begin(unpaired)
        /\ snapshot' \in RollbackCopies
        /\ UNCHANGED <<stack, record, databases, aside, acked, last, crashes, nextWrite>>
    BY <1>2 DEF BeginRollback, Goto, Steps
  <2>2. snapshot' \in Name /\ snapshot' \in Before /\ dbs[snapshot'] # None
    BY <2>1 DEF RollbackCopies, Newest, OlderSnapshots, Before, Exists
  <2>3. image' \in Refs /\ tag[image'] # None
    BY <2>1, Nothing DEF Inv, TypeOK
  <2>4. TypeOK'
    <3>1. unpaired \in BOOLEAN
      BY DEF Inv, TypeOK
    <3> QED BY <2>1, <2>2, <2>3, <3>1, Began DEF Inv, TypeOK, stack, databases
  <2>5. HoldsApart(dbs, acked, {})'
    BY <2>1 DEF Inv, HoldsApart, StoredIn, databases
  <2>6. /\ Imaged(pc, tag, image)' /\ Named(pc, snapshot, aside)'
        /\ Present(pc, dbs)' /\ Swapped(pc, dbs, snapshot, acked)'
    BY <2>1, <2>2, <2>3 DEF Imaged, Named, Present, Swapped, stack, databases
  <2> QED BY <2>4, <2>5, <2>6 DEF Inv
<1> QED BY <1>1, <1>2

LEMMA OperatorKeeps ==
  ASSUME Inv, ControlStart \/ ControlStop \/ Load \/ Reconfigure
  PROVE  Inv'
<1>0. TypeOK /\ tag[record.image] \in Versions /\ record.image \in Refs
  BY DEF Inv, TypeOK
<1>1. pc' = pc /\ Follows(pc, pc')
  BY DEF ControlStart, ControlStop, Load, Reconfigure, Follows, ghosts, locals
<1> DEFINE Marked == disturbed' \in BOOLEAN /\ unpaired' \in BOOLEAN
<1>2. CASE ControlStart
  <2>1. /\ container' \in Versions /\ running' \in BOOLEAN
        /\ dbs' \in [Name -> Database \union {None}] /\ Grows(dbs, dbs')
    BY <1>0, <1>2, UpTyped DEF ControlStart
  <2>2. /\ last' \in Results
        /\ UNCHANGED <<tag, compose, record, nextId, minute, pc, locals, faults, pre, acked, crashes,
                       jobs, nextWrite>>
    BY <1>0, <1>2 DEF ControlStart, Results, TypeOK
  <2>9. Marked
    BY <1>2, Zenon DEF ControlStart, Meddle
  <2>3. TypeOK'
    BY <1>0, <2>1, <2>2, <2>9 DEF TypeOK, locals, Results
  <2>4. Quiet
    BY <2>1, <2>2 DEF Quiet, locals
  <2> QED BY <1>1, <2>3, <2>4, QuietKeeps
<1>3. CASE ControlStop
  <2>1. /\ running' = FALSE
        /\ UNCHANGED <<tag, compose, container, record, databases, minute, pc, locals, faults,
                       ghosts, crashes, jobs, nextWrite>>
    BY <1>3 DEF ControlStop
  <2>9. Marked
    BY <1>3, Zenon DEF ControlStop, Meddle
  <2>2. TypeOK'
    BY <1>0, <2>1, <2>9 DEF TypeOK, locals, databases, ghosts
  <2>3. Quiet
    BY <2>1, GrowsSelf DEF Quiet, locals, databases, ghosts
  <2> QED BY <1>1, <2>2, <2>3, QuietKeeps
<1>4. CASE Load
  <2>1. PICK t \in Refs, v \in Versions : tag' = [tag EXCEPT ![t] = v]
    BY <1>4 DEF Load
  <2>2. /\ last' \in Results
        /\ UNCHANGED <<compose, container, running, record, databases, minute, pc, locals, faults,
                       pre, acked, bounds>>
    BY <1>4 DEF Load, Results
  <2>3. /\ tag' \in [Tags -> Versions \union {None}]
        /\ \A r \in Refs : tag[r] # None => tag'[r] # None
    BY <1>0, <2>1, Nothing DEF TypeOK
  <2>4. TypeOK'
    BY <1>0, <2>2, <2>3, Nothing DEF TypeOK, locals, bounds, databases, Results
  <2>5. Quiet
    BY <2>2, <2>3, GrowsSelf DEF Quiet, locals, databases
  <2> QED BY <1>1, <2>4, <2>5, QuietKeeps
<1>5. CASE Reconfigure
  <2>1. /\ compose' = record.image /\ container' = tag[record.image] /\ running' = TRUE
        /\ dbs' \in SelfUpgraded(tag[record.image])
        /\ UNCHANGED <<tag, record, nextId, minute, pc, locals, faults, pre, acked, bounds>>
    BY <1>5 DEF Reconfigure
  <2>2. last' \in Results
    BY <1>0, <1>5 DEF Reconfigure, Results, TypeOK
  <2>3. dbs' \in [Name -> Database \union {None}] /\ Grows(dbs, dbs')
    BY <1>0, <2>1, UpgradeGrows
  <2>4. TypeOK'
    BY <1>0, <2>1, <2>2, <2>3 DEF TypeOK, locals, bounds, Results
  <2>5. Quiet
    BY <2>1, <2>3 DEF Quiet, locals
  <2> QED BY <1>1, <2>4, <2>5, QuietKeeps
<1> QED BY <1>2, <1>3, <1>4, <1>5

(* Of what the operator removes nothing is wanted that no other holds.     *)
LEMMA RemoveKeeps ==
  ASSUME Inv, RemoveKept
  PROVE  Inv'
<1>0. TypeOK
  BY DEF Inv
<1>1. PICK gone \in Name \ {Main} : dbs' = [dbs EXCEPT ![gone] = None]
  BY DEF RemoveKept
<1>2. /\ acked' = acked \intersect Stored'
      /\ UNCHANGED <<stack, record, nextId, minute, pc, locals, faults, pre, last, crashes, jobs,
                     nextWrite>>
  BY DEF RemoveKept
<1>3. dbs' \in [Name -> Database \union {None}] /\ dbs'[Main] = dbs[Main]
  BY <1>0, <1>1, Names DEF TypeOK
<1>4. disturbed' \in BOOLEAN /\ unpaired' \in BOOLEAN
  <2>1. disturbed' \in BOOLEAN
    BY Zenon DEF RemoveKept, Meddle
  <2>2. PICK m \in Name : unpaired' = (unpaired \/ pc # "idle" \/ m \in RollbackCopies)
    BY DEF RemoveKept
  <2> QED BY <2>1, <2>2, Zenon
<1>5. TypeOK'
  BY <1>0, <1>2, <1>3, <1>4 DEF TypeOK, stack, locals
<1>6. ASSUME NEW w \in acked'
      PROVE  /\ StoredIn(dbs', w, {})
             /\ pc' \in RollingBack /\ dbs'[snapshot'] = None => StoredIn(dbs', w, {Main})
  <2>1. PICK n \in Lasting' : w \in dbs'[n].writes
    BY <1>2, <1>6 DEF Stored
  <2>2. /\ n \in Name /\ n \notin Before /\ dbs'[n] # None
        /\ n = Main /\ pc' \in RollingBack => dbs'[snapshot'] # None
    BY <2>1 DEF Lasting, Exists
  <2> QED BY <2>1, <2>2 DEF StoredIn
<1>7. HoldsApart(dbs', acked', {})
  BY <1>6 DEF HoldsApart
<1>8. pc \in {"r_open", "r_put"} => dbs'[Main] = None /\ HoldsApart(dbs', acked', {Main})
  BY <1>3, <1>7 DEF Inv, Swapped, HoldsApart, StoredIn
<1>9. Swapped(pc', dbs', snapshot', acked')
  BY <1>2, <1>6, <1>8 DEF Swapped, HoldsApart
<1>10. HoldsApart(dbs, acked, {})' /\ Swapped(pc, dbs, snapshot, acked)'
  BY <1>7, <1>9 DEF HoldsApart, StoredIn, Swapped
<1>11. Imaged(pc, tag, image)' /\ Named(pc, snapshot, aside)' /\ Present(pc, dbs)'
  BY <1>2, <1>3 DEF Inv, stack, locals, Imaged, Named, Present
<1> QED BY <1>5, <1>10, <1>11 DEF Inv

LEMMA TickAndCrashKeep ==
  ASSUME Inv, Tick \/ Crash
  PROVE  Inv'
<1>0. TypeOK
  BY DEF Inv
<1>1. CASE Tick
  <2>1. /\ minute' \in 0..MaxMinute
        /\ UNCHANGED <<stack, record, databases, pc, locals, faults, ghosts, bounds>>
    BY <1>0, <1>1, DockerAssumption DEF Tick, TypeOK
  <2>2. TypeOK'
    BY <1>0, <2>1 DEF TypeOK, stack, locals, bounds, databases, ghosts
  <2>3. Quiet /\ Follows(pc, pc')
    BY <2>1, GrowsSelf DEF Quiet, Follows, stack, locals, databases, ghosts
  <2> QED BY <2>2, <2>3, QuietKeeps
<1>2. CASE Crash
  <2>1. /\ pc' = "idle" /\ pc' \in Steps /\ last' \in Results /\ crashes' \in Nat
        /\ UNCHANGED <<tag, compose, container, record, databases, minute, locals, faults, pre,
                       acked, jobs, nextWrite, disturbed, unpaired>>
    BY <1>0, <1>2 DEF Crash, Return, Steps, Results, TypeOK
  <2>2. running' \in BOOLEAN
    BY <1>0, <1>2, Zenon DEF Crash, TypeOK
  <2>3. TypeOK'
    BY <1>0, <2>1, <2>2 DEF TypeOK, locals, databases, Results
  <2>4. Quiet /\ Follows(pc, pc')
    BY <2>1, GrowsSelf DEF Quiet, Follows, Unasked, RollingBack, locals, databases
  <2> QED BY <2>3, <2>4, QuietKeeps
<1> QED BY <1>1, <1>2

-----------------------------------------------------------------------------
(* Every step keeps it.                                                    *)
LEMMA Kept ==
  ASSUME Inv, [Next]_vars
  PROVE  Inv'
<1>1. CASE UNCHANGED vars
  BY <1>1 DEF vars, stack, databases, locals, ghosts, bounds, Inv, TypeOK, HoldsApart, StoredIn,
              Imaged, Named, Present, Swapped
<1>2. CASE Next
  BY <1>2, BeginKeeps, SafeUpdateKeeps, UndoUpdateKeeps, RollbackKeeps, UndoRollbackKeeps,
     OperatorKeeps, WriteKeeps, RemoveKeeps, TickAndCrashKeep DEF Next
<1> QED BY <1>1, <1>2

(* What the proof rests on holds throughout: the types, that every write   *)
(* is outside the copies from before, and what each rename meets.          *)
LEMMA InvAlways == Spec => []Inv
<1>1. Init => Inv
  <2> SUFFICES ASSUME Init PROVE Inv
    OBVIOUS
  <2>1. Installed \in Versions /\ FirstRef \in Refs /\ 0 \in 0..MaxMinute /\ Main \in Name
    BY DockerAssumption, Names
  <2>2. tag \in [Tags -> Versions \union {None}] /\ tag[FirstRef] = Installed
    BY <2>1, Nothing DEF Init
  <2>3. dbs \in [Name -> Database \union {None}]
    <3>1. [id |-> 0, schema |-> Installed, writes |-> {}, open |-> TRUE] \in Database
      BY <2>1 DEF Database
    <3> QED BY <3>1 DEF Init
  <2>4. TypeOK
    BY <2>1, <2>2, <2>3 DEF Init, TypeOK, Steps
  <2>5. /\ HoldsApart(dbs, acked, {}) /\ Imaged(pc, tag, image) /\ Named(pc, snapshot, aside)
        /\ Present(pc, dbs) /\ Swapped(pc, dbs, snapshot, acked)
    BY DEF Init, HoldsApart, Imaged, Named, Present, Swapped, Unasked, RollingBack
  <2> QED BY <2>4, <2>5 DEF Inv
<1>2. Inv /\ [Next]_vars => Inv'
  BY Kept
<1> QED BY <1>1, <1>2, PTL DEF Spec

(* Every variable of DockerUpdate keeps its type: in particular, whatever  *)
(* docker fails to do, the reference in the compose file and the one in    *)
(* the record name an image that is there.                                 *)
THEOREM TypeCorrect == Spec => []TypeOK
<1>1. Inv => TypeOK
  BY DEF Inv
<1> QED BY <1>1, InvAlways, PTL

(* What SENTIENT stored while no job ran stays in a database that no       *)
(* update drops, whatever updates, rollbacks, failures and kills follow,   *)
(* whatever the operator starts and stops meanwhile, until the operator    *)
(* removes it.                                                             *)
THEOREM WritesSafe == Spec => []WritesKept
<1>1. Inv => WritesKept
  <2> SUFFICES ASSUME Inv, NEW w \in acked PROVE w \in Stored
    BY DEF WritesKept
  <2>1. CASE pc \in RollingBack /\ ~Exists(snapshot)
    <3>1. StoredIn(dbs, w, {Main})
      BY <2>1 DEF Inv, Swapped, HoldsApart, Exists
    <3> QED BY <3>1 DEF StoredIn, Stored, Lasting, Exists
  <2>2. CASE ~(pc \in RollingBack /\ ~Exists(snapshot))
    <3>1. StoredIn(dbs, w, {})
      BY DEF Inv, HoldsApart
    <3> QED BY <2>2, <3>1 DEF StoredIn, Stored, Lasting, Exists
  <2> QED BY <2>1, <2>2
<1> QED BY <1>1, InvAlways, PTL

-----------------------------------------------------------------------------
(* What a job that fails once leaves behind.                               *)

(* Each job meets at most one failure and is not killed; jobs begin in     *)
(* different minutes, which the names they keep things under consist of;   *)
(* the two calls work whose failure the code does not undo, stopping       *)
(* SENTIENT when the pull has moved the tag and moving it back; and there  *)
(* is one reference, which nobody moves by hand.                           *)
OneFailure ==
  /\ MaxFaults <= 1 /\ MaxCrashes = 0 /\ ~SameMinute
  /\ MayFail \cap {"stop", "abort"} = {}
  /\ Refs = {FirstRef} /\ "load" \notin Operator

(* The version the reference names, and the one to go back to. *)
Latest == tag[FirstRef]
Previous == tag["previous"]

(* The schema a database is on. *)
On(n, schema) == Exists(n) /\ dbs[n].schema = schema

(* As it was before the job: what an update copies, and what a rollback    *)
(* replaces, the same database.                                            *)
Held(n) ==
  /\ On(n, pre.container) /\ pre.main.schema = pre.container
  /\ pre.main.writes \subseteq dbs[n].writes
Current(n) == On(n, pre.container) /\ dbs[n].id = pre.main.id

(* No update or rollback of this minute has kept a database. *)
Fresh == \A n \in Name \ Before : Exists(n) => n[2] < minute

(* No copy is younger than the job's. *)
Youngest == snapshot \in Before /\ \A n \in Before : Exists(n) => n[2] <= snapshot[2]

(* The container runs what the reference names, on a database of that      *)
(* version; and whatever rollback would choose fits.                       *)
InService == container = Latest /\ On(Main, Latest)
Point == PointImage => \A n \in RollbackCopies : dbs[n].schema = Previous

Paired == ~unpaired => Point

(* Nothing is named after a minute to come; a copy from before an update   *)
(* lets connections in, but for a moment of an undone rollback.            *)
Past ==
  /\ \A n \in Name : Exists(n) => n[2] <= minute
  /\ snapshot[2] <= minute /\ aside[2] <= minute
Dated ==
  /\ Past
  /\ \A n \in Before : Exists(n) /\ ~(pc = "b_open" /\ n = snapshot) => dbs[n].open
Limits == faults \in {0, 1} /\ crashes = 0

(* An update until it copies the database: the version before is kept by   *)
(* its tag and still the container's. *)
Tagged == Previous = pre.container
Unchanged == container = pre.container /\ On(Main, pre.container)
Asking == Tagged /\ Unchanged /\ Fresh

(* ... and once it has. *)
Copied == Tagged /\ Held(snapshot) /\ Youngest
Undoable == Copied /\ Fresh /\ Exists(Main)
ReadyToMigrate == Undoable /\ On(Main, pre.container)
Migrated == Undoable /\ On(Main, Latest)

(* A rollback: the two images and the two databases ... *)
Chosen == Previous \in Versions /\ Youngest
RollingBackFrom == Chosen /\ tag["rolled"] = pre.container
Prepared == Current(Main) /\ On(snapshot, Previous)
Renamed == ~Exists(Main) /\ Current(aside) /\ On(snapshot, Previous)
Switched == ~Exists(snapshot) /\ Current(aside) /\ On(Main, Previous)
Undoing == faults = 0 /\ RollingBackFrom /\ aside[1] = "rolled"

(* What holds when no job runs. *)
AtRest ==
  /\ InService /\ Paired
  /\ last = "undone" => Latest = pre.container /\ Held(Main)
  /\ last = "rollbackundone" => Latest = pre.container /\ Current(Main)

AtUpdate ==
  /\ pc = "idle" => AtRest
  /\ pc = "keep" => InService /\ Paired /\ Fresh /\ container = pre.container
  /\ pc \in {"pull", "stop"} => Asking
  /\ pc \in {"pull", "aborting", "aborted"} => Latest = pre.container
  /\ pc \in {"abort", "aborting", "aborted"} => Tagged /\ Unchanged
  /\ pc \in {"dryrun", "close", "copy"} => Asking /\ Held(Main)
  /\ pc \in {"close", "copy"} => Youngest
  /\ pc \in {"open", "upgrade"} => ReadyToMigrate
  /\ pc = "upgrade" => faults = 0 \/ dbs[Main].open
  /\ pc \in {"start", "check"} => Migrated /\ dbs[Main].open
  /\ pc = "check" => container = Latest /\ running
  /\ pc = "prune" => Copied /\ InService
  /\ pc = "record" => InService /\ Paired
AtUndoUpdate ==
  /\ pc \in {"u_stop", "u_image", "u_close", "u_aside", "u_open", "u_put", "u_start", "u_check"} =>
       faults = 0 /\ Tagged
  /\ pc \in {"u_stop", "u_image", "u_close"} => Undoable
  /\ pc \in {"u_close", "u_aside", "u_open", "u_put", "u_start", "u_check"} =>
       Latest = pre.container
  /\ pc \in {"u_aside", "u_open", "u_put"} => Copied /\ aside[1] = "failed"
  /\ pc = "u_aside" => Exists(Main) /\ ~Exists(aside)
  /\ pc \in {"u_open", "u_put"} => ~Exists(Main)
  /\ pc = "u_open" => Exists(aside)
  /\ pc \in {"u_start", "u_check"} => Held(Main)
  /\ pc = "u_check" => container = Latest
AtRollback ==
  /\ pc = "r_keep" => Chosen /\ Point
  /\ pc \in {"r_keep", "r_stop"} => Fresh /\ Latest = pre.container /\ Unchanged
  /\ pc \in {"r_stop", "r_image", "r_close", "r_aside", "r_open", "r_put", "r_start", "r_check"} =>
       RollingBackFrom
  /\ pc \in {"r_keep", "r_stop", "r_image", "r_close", "r_aside"} => Prepared
  /\ pc \in {"r_image", "r_close"} => Fresh
  /\ pc \in {"r_close", "r_aside", "r_open", "r_put", "r_start", "r_check", "r_clean"} =>
       Latest = Previous
  /\ pc \in {"r_aside", "r_open", "r_put", "r_start", "r_check"} => aside[1] = "rolled"
  /\ pc = "r_aside" => ~Exists(aside)
  /\ pc \in {"r_open", "r_put"} => Renamed
  /\ pc \in {"r_start", "r_check"} => Switched /\ dbs[Main].open
  /\ pc = "r_check" => container = Latest /\ running
  /\ pc \in {"r_clean", "r_record"} => InService
  /\ pc = "r_record" => Previous \in {None, Latest}
AtUndoRollback ==
  /\ pc \in {"r_probe", "b_stop", "b_image", "b_close", "b_aside", "b_open", "b_put"} => Undoing
  /\ pc \in {"n_stop", "n_image", "b_start", "b_check", "b_clean"} =>
       faults = 0 /\ Chosen /\ Prepared
  /\ pc \in {"n_stop", "n_image"} => RollingBackFrom
  /\ pc = "r_probe" => (Prepared /\ ~Exists(aside)) \/ Renamed
  /\ pc \in {"b_stop", "b_image", "b_close", "b_aside"} => Switched
  /\ pc \in {"b_close", "b_aside", "b_open", "b_put", "b_start", "b_check", "b_clean"} =>
       Latest = pre.container
  /\ pc \in {"b_open", "b_put"} => Renamed
  /\ pc \in {"b_check", "b_clean"} => container = Latest

UndoInv == Dated /\ Limits /\ AtUpdate /\ AtUndoUpdate /\ AtRollback /\ AtUndoRollback

(* It holds unless the operator has had a hand in what the job works with; *)
(* of that, this is left.                                                  *)
Bearings == Past /\ Limits /\ (disturbed => unpaired)

-----------------------------------------------------------------------------
(* With one reference, what the compose file, the record and the job name  *)
(* is the same.                                                            *)
LEMMA OneReference ==
  ASSUME OneFailure, TypeOK
  PROVE  /\ compose = FirstRef /\ image = FirstRef /\ record.image = FirstRef
         /\ Latest \in Versions
         /\ PointImage <=> Previous \notin {None, Latest}
<1>1. compose = FirstRef /\ image = FirstRef /\ record.image = FirstRef
  BY DEF OneFailure, TypeOK
<1> QED BY <1>1 DEF TypeOK, PointImage, Latest, Previous

LEMMA TagNames ==
  /\ FirstRef \in Tags /\ "previous" \in Tags /\ "rolled" \in Tags
  /\ FirstRef # "previous" /\ FirstRef # "rolled"
  /\ \A v \in Versions : v # None /\ v \in Nat
  BY DockerAssumption, Nothing

LEMMA PointImaged ==
  ASSUME OneFailure, TypeOK, TypeOK'
  PROVE  (PointImage <=> Previous \notin {None, Latest})'
<1>1. record'.image = FirstRef
  BY DEF OneFailure, TypeOK
<1> QED BY <1>1 DEF PointImage, Latest, Previous

-----------------------------------------------------------------------------
(* Steps that rename, migrate and drop nothing: each database stays where  *)
(* it is and what it is, though it may be opened, closed or written to.    *)
Same(n) ==
  /\ dbs'[n] # None <=> dbs[n] # None
  /\ dbs[n] # None => /\ dbs'[n].id = dbs[n].id /\ dbs'[n].schema = dbs[n].schema
                      /\ dbs[n].writes \subseteq dbs'[n].writes
SameDatabases == \A n \in Name : Same(n)

LEMMA OpenedSame ==
  ASSUME TypeOK, NEW n \in Name, Exists(n), NEW o \in BOOLEAN, dbs' = [dbs EXCEPT ![n].open = o]
  PROVE  SameDatabases /\ dbs'[n].open = o /\ \A m \in Name : m # n => dbs'[m] = dbs[m]
<1>1. dbs[n] \in Database
  BY DEF TypeOK, Exists
<1>2. dbs'[n] = [dbs[n] EXCEPT !.open = o] /\ \A m \in Name : m # n => dbs'[m] = dbs[m]
  BY DEF TypeOK
<1>3. [dbs[n] EXCEPT !.open = o] \in Database
  BY <1>1 DEF Database
<1>4. /\ dbs'[n].id = dbs[n].id /\ dbs'[n].schema = dbs[n].schema
      /\ dbs'[n].writes = dbs[n].writes /\ dbs'[n].open = o /\ dbs'[n] # None
  BY <1>1, <1>2, <1>3, Nothing DEF Database
<1> QED BY <1>2, <1>4 DEF SameDatabases, Same, Exists

(* The clock and the copies stay, or move on. *)
Steady == SameDatabases /\ UNCHANGED <<snapshot, pre>> /\ minute <= minute'

LEMMA SteadyParts ==
  ASSUME TypeOK, TypeOK', Steady
  PROVE  /\ \A n \in Name : /\ Exists(n)' <=> Exists(n)
                            /\ Held(n) => Held(n)'
                            /\ Current(n) => Current(n)'
                            /\ \A s : On(n, s) => dbs'[n] # None /\ dbs'[n].schema = s
         /\ Fresh => Fresh'
         /\ Youngest => Youngest'
<1>1. /\ \A n \in Name : Same(n)
      /\ snapshot' = snapshot /\ pre' = pre /\ minute <= minute'
      /\ minute \in Nat /\ minute' \in Nat
  BY DEF Steady, SameDatabases, TypeOK
<1>2. \A n \in Name : /\ Exists(n)' <=> Exists(n)
                      /\ Held(n) => Held(n)'
                      /\ Current(n) => Current(n)'
                      /\ \A s : On(n, s) => dbs'[n] # None /\ dbs'[n].schema = s
  BY <1>1 DEF Same, Held, Current, On, Exists
<1>3. Fresh => Fresh'
  <2>1. \A n \in Name : n[2] \in Nat
    BY DEF Name
  <2> QED BY <1>1, <1>2, <2>1 DEF Fresh
<1>4. Youngest => Youngest'
  BY <1>1, <1>2 DEF Youngest, Before
<1> QED BY <1>2, <1>3, <1>4

(* ... and the two kept images. *)
SameKeptImages == tag'["previous"] = tag["previous"] /\ tag'["rolled"] = tag["rolled"]

LEMMA InNames ==
  ASSUME TypeOK
  PROVE  Main \in Name /\ snapshot \in Name /\ aside \in Name /\ Main \notin Before
  BY Names DEF TypeOK

LEMMA SteadyStates ==
  ASSUME TypeOK, TypeOK', Steady, SameKeptImages
  PROVE  /\ Tagged => Tagged'
         /\ Held(Main) => Held(Main)'
         /\ Exists(Main)' <=> Exists(Main)
         /\ Copied => Copied'
         /\ Undoable => Undoable'
         /\ ReadyToMigrate => ReadyToMigrate'
         /\ Chosen => Chosen'
         /\ RollingBackFrom => RollingBackFrom'
         /\ Prepared => Prepared'
         /\ UNCHANGED aside => /\ Renamed => Renamed'
                               /\ Switched => Switched'
                               /\ Exists(aside)' <=> Exists(aside)
<1>1. /\ snapshot' = snapshot /\ pre' = pre
      /\ tag'["previous"] = tag["previous"] /\ tag'["rolled"] = tag["rolled"]
  BY DEF Steady, SameKeptImages
<1>2. Main \in Name /\ snapshot \in Name /\ aside \in Name
  BY InNames
<1>3. /\ Held(Main) => Held(Main)'
      /\ Exists(Main)' <=> Exists(Main)
      /\ Current(Main) => Current(Main)'
      /\ Youngest => Youngest'
      /\ Fresh => Fresh'
      /\ \A s : On(Main, s) => dbs'[Main] # None /\ dbs'[Main].schema = s
      /\ \A s : On(snapshot, s) => dbs'[snapshot] # None /\ dbs'[snapshot].schema = s
  BY <1>2, SteadyParts
<1>4. Held(snapshot) => Held(snapshot)'
  BY <1>1, <1>2, SteadyParts DEF Held, On, Exists
<1>5. Exists(snapshot)' <=> Exists(snapshot)
  BY <1>1, <1>2, SteadyParts DEF Exists
<1>6. Tagged => Tagged'
  BY <1>1 DEF Tagged, Previous
<1>7. Copied => Copied'
  BY <1>3, <1>4, <1>6 DEF Copied
<1>8. Undoable => Undoable'
  BY <1>3, <1>7 DEF Undoable
<1>9. ReadyToMigrate => ReadyToMigrate'
  BY <1>1, <1>3, <1>8 DEF ReadyToMigrate, On, Exists
<1>10. Chosen => Chosen'
  BY <1>1, <1>3 DEF Chosen, Previous
<1>11. RollingBackFrom => RollingBackFrom'
  BY <1>1, <1>10 DEF RollingBackFrom
<1>12. On(snapshot, Previous) => On(snapshot, Previous)'
  BY <1>1, <1>3 DEF On, Exists, Previous
<1>13. Prepared => Prepared'
  BY <1>3, <1>12 DEF Prepared
<1>14. ASSUME UNCHANGED aside PROVE (Current(aside) => Current(aside)') /\ (Exists(aside)' <=> Exists(aside))
  BY <1>1, <1>2, <1>14, SteadyParts DEF Current, On, Exists
<1>15. UNCHANGED aside => (Renamed => Renamed')
  BY <1>3, <1>12, <1>14 DEF Renamed
<1>16. On(Main, Previous) => On(Main, Previous)'
  BY <1>1, <1>3 DEF On, Exists, Previous
<1>17. UNCHANGED aside => (Switched => Switched')
  BY <1>5, <1>14, <1>16 DEF Switched
<1> QED BY <1>3, <1>6, <1>7, <1>8, <1>9, <1>10, <1>11, <1>13, <1>14, <1>15, <1>17

LEMMA SteadyService ==
  ASSUME TypeOK, TypeOK', Steady, UNCHANGED tag
  PROVE  /\ On(Main, Latest) => On(Main, Latest)'
         /\ On(Main, pre.container) => On(Main, pre.container)'
         /\ UNCHANGED container => (InService => InService')
         /\ UNCHANGED container => (Unchanged => Unchanged')
         /\ Migrated => Migrated'
<1>1. pre' = pre /\ tag' = tag /\ Main \in Name
  BY InNames DEF Steady
<1>2. \A s : On(Main, s) => dbs'[Main] # None /\ dbs'[Main].schema = s
  BY <1>1, SteadyParts
<1>3. /\ On(Main, Latest) => On(Main, Latest)'
      /\ On(Main, pre.container) => On(Main, pre.container)'
  BY <1>1, <1>2 DEF On, Exists, Latest
<1>4. Undoable => Undoable'
  BY <1>1, SteadyStates DEF SameKeptImages
<1> QED BY <1>1, <1>3, <1>4 DEF InService, Unchanged, Migrated, Latest

LEMMA SteadyPoint ==
  ASSUME OneFailure, TypeOK, TypeOK', SameDatabases, Point,
         tag'["previous"] = tag["previous"], tag'[FirstRef] = tag[FirstRef]
  PROVE  Point'
<1>1. \A n \in Name : Same(n)
  BY DEF SameDatabases
<1>2. RollbackCopies' = RollbackCopies
  BY <1>1 DEF RollbackCopies, Newest, OlderSnapshots, Exists, Same, Before
<1>3. \A n \in RollbackCopies : n \in Name /\ Exists(n)
  BY DEF RollbackCopies, Newest, OlderSnapshots, Before
<1>4. PointImage' <=> PointImage
  BY OneReference, PointImaged DEF Latest, Previous
<1>5. \A n \in RollbackCopies : dbs'[n].schema = dbs[n].schema
  BY <1>1, <1>3 DEF Same, Exists
<1> QED BY <1>2, <1>4, <1>5 DEF Point, Previous

LEMMA SteadyPaired ==
  ASSUME OneFailure, TypeOK, TypeOK', SameDatabases, Paired, UNCHANGED unpaired,
         tag'["previous"] = tag["previous"], tag'[FirstRef] = tag[FirstRef]
  PROVE  Paired'
<1>1. Point => Point'
  BY SteadyPoint
<1> QED BY <1>1 DEF Paired

(* What rollback chooses is the youngest copy. *)
LEMMA YoungestIsChosen ==
  ASSUME Youngest, NEW s \in RollbackCopies, Exists(snapshot)
  PROVE  s = snapshot
<1>1. s \in Before /\ Exists(s) /\ snapshot \in Before
  BY DEF Youngest, RollbackCopies, Newest, OlderSnapshots
<1>2. s[2] <= snapshot[2] /\ snapshot[2] <= s[2]
  <2>1. snapshot \in OlderSnapshots(None)
    BY <1>1, DockerAssumption DEF OlderSnapshots, Before
  <2> QED BY <1>1, <2>1 DEF Youngest, RollbackCopies, Newest
<1> QED BY <1>1, <1>2 DEF Before, Name

LEMMA PointHeld ==
  ASSUME Youngest, On(snapshot, Previous)
  PROVE  Point
  BY YoungestIsChosen DEF Point, On

-----------------------------------------------------------------------------
(* The one failure, and the names.                                         *)
Spent == faults > 0 /\ faults' = faults - 1

LEMMA LimitsKept ==
  ASSUME TypeOK, TypeOK', Limits, UNCHANGED crashes, UNCHANGED faults \/ Spent
  PROVE  Limits' /\ (Spent => faults' = 0) /\ (faults = 0 => faults' = 0 /\ ~Spent)
  BY DEF TypeOK, Limits, Spent

LEMMA FailsSpends ==
  ASSUME NEW at, Fails(at)
  PROVE  Spent /\ at \in MayFail
  BY DEF Fails, Spent

LEMMA SelfSame ==
  ASSUME TypeOK, UNCHANGED dbs
  PROVE  SameDatabases
  BY DEF SameDatabases, Same

LEMMA DatedKept ==
  ASSUME TypeOK, TypeOK', Dated, SameDatabases, minute <= minute',
         snapshot'[2] <= minute', aside'[2] <= minute',
         \A n \in Before : Exists(n) => dbs'[n].open = dbs[n].open \/ dbs'[n].open,
         pc = "b_open" => UNCHANGED snapshot /\ (dbs'[snapshot].open \/ pc' = "b_open")
  PROVE  Dated'
<1>1. /\ minute \in Nat /\ minute' \in Nat /\ \A n \in Name : n[2] \in Nat
      /\ Before \subseteq Name
  BY DEF TypeOK, Name, Before
<1>2. \A n \in Name : Exists(n)' <=> Exists(n)
  BY DEF SameDatabases, Same, Exists
<1>3. \A n \in Name : Exists(n)' => n[2] <= minute'
  BY <1>1, <1>2 DEF Dated, Past
<1>4. ASSUME NEW n \in Before, Exists(n)', ~(pc' = "b_open" /\ n = snapshot')
      PROVE  dbs'[n].open
  <2>1. Exists(n)
    BY <1>1, <1>2, <1>4
  <2>2. CASE pc = "b_open" /\ n = snapshot
    BY <1>4, <2>2
  <2>3. CASE ~(pc = "b_open" /\ n = snapshot)
    <3>1. dbs[n].open
      BY <2>1, <2>3 DEF Dated, Past
    <3> QED BY <2>1, <3>1
  <2> QED BY <2>2, <2>3
<1> QED BY <1>3, <1>4 DEF Dated, Past

(* A step that leaves the databases alone. *)
LEMMA Untouched ==
  ASSUME TypeOK, TypeOK', Dated, Limits, UNCHANGED <<dbs, minute, snapshot, aside, crashes>>,
         UNCHANGED faults \/ Spent, pc # "b_open"
  PROVE  /\ Dated' /\ Limits' /\ SameDatabases
         /\ UNCHANGED pre => Steady
<1>1. SameDatabases
  BY SelfSame
<1>2. minute <= minute' /\ snapshot'[2] <= minute' /\ aside'[2] <= minute'
  BY DEF Dated, Past, TypeOK
<1>3. Dated'
  BY <1>1, <1>2, DatedKept
<1> QED BY <1>1, <1>2, <1>3, LimitsKept DEF Steady

(* One that opens or closes the database in use. *)
LEMMA MainOpened ==
  ASSUME TypeOK, TypeOK', Dated, Limits, Exists(Main), NEW o \in BOOLEAN,
         dbs' = [dbs EXCEPT ![Main].open = o], UNCHANGED <<minute, snapshot, crashes>>,
         aside'[2] <= minute', UNCHANGED faults \/ Spent, pc # "b_open"
  PROVE  /\ Dated' /\ Limits' /\ SameDatabases /\ dbs'[Main].open = o
         /\ UNCHANGED pre => Steady
<1>1. /\ SameDatabases /\ dbs'[Main].open = o
      /\ \A m \in Name : m # Main => dbs'[m] = dbs[m]
  BY InNames, OpenedSame
<1>2. minute <= minute' /\ snapshot'[2] <= minute'
  BY DEF Dated, Past, TypeOK
<1>3. \A n \in Before : Exists(n) => dbs'[n].open = dbs[n].open
  BY <1>1, InNames DEF Before
<1>4. Dated'
  BY <1>1, <1>2, <1>3, DatedKept
<1> QED BY <1>1, <1>2, <1>4, LimitsKept DEF Steady

LEMMA Arrives ==
  ASSUME Dated', Limits', AtUpdate', AtUndoUpdate', AtRollback', AtUndoRollback'
  PROVE  UndoInv'
  BY DEF UndoInv

-----------------------------------------------------------------------------
(* What the operators of the jobs do, there being one failure.             *)

(* compose up does not upgrade a database that is on the image's version. *)
LEMMA UpStarts ==
  ASSUME OneFailure, TypeOK, On(Main, Latest), Up
  PROVE  container' = Latest /\ running' = TRUE /\ dbs' = dbs
<1>1. compose = FirstRef /\ Latest \in Versions /\ tag[compose] = Latest
  BY OneReference DEF Latest
<1>2. dbs[Main].schema \notin {v \in Versions : v < Latest}
  BY <1>1, TagNames DEF On
<1>3. SelfUpgraded(Latest) = {dbs}
  BY <1>2 DEF SelfUpgraded
<1> QED BY <1>1, <1>3 DEF Up

LEMMA StartDoes ==
  ASSUME OneFailure, TypeOK, On(Main, Latest), NEW at, NEW then, NEW orElse,
         Start(at, then, orElse)
  PROVE  /\ pc = at
         /\ UNCHANGED <<tag, record, dbs, minute, snapshot, aside, pre, last, crashes>>
         /\ \/ container' = Latest /\ running' = TRUE /\ pc' = then /\ UNCHANGED faults
            \/ container' \in {container, Latest} /\ pc' = orElse /\ Spent
<1>1. tag[compose] = Latest
  BY OneReference DEF Latest
<1>2. Up => container' = Latest /\ running' = TRUE /\ dbs' = dbs
  BY UpStarts
<1> QED BY <1>1, <1>2, FailsSpends DEF Start, Goto, locals, ghosts, bounds

LEMMA CheckSpends ==
  ASSUME NEW at
  PROVE  /\ StaysUp => UNCHANGED faults
         /\ GoesDown(at) => (UNCHANGED faults \/ Spent) /\ (running /\ Fits => Spent)
<1>1. Fails(at) => Spent
  BY FailsSpends
<1>2. StaysUp => UNCHANGED faults
  BY DEF StaysUp
<1>3. CASE running /\ Fits
  BY <1>1, <1>2, <1>3, Zenon DEF GoesDown
<1>4. CASE ~(running /\ Fits)
  BY <1>2, <1>4, Zenon DEF GoesDown
<1> QED BY <1>3, <1>4

LEMMA CheckDoes ==
  ASSUME TypeOK, NEW at, NEW then, NEW orElse, Check(at, then, orElse)
  PROVE  /\ pc = at
         /\ UNCHANGED <<tag, container, record, dbs, minute, snapshot, aside, pre, last, crashes>>
         /\ UNCHANGED faults \/ Spent
         /\ \/ pc' = then
            \/ pc' = orElse /\ (running /\ Fits => Spent)
<1>1. /\ pc = at
      /\ (StaysUp /\ pc' = then) \/ (GoesDown(at) /\ pc' = orElse)
      /\ UNCHANGED <<tag, compose, container, record, databases, minute, locals, ghosts, bounds>>
  BY DEF Check, Goto
<1>2. UNCHANGED <<tag, container, record, dbs, minute, snapshot, aside, pre, last, crashes>>
  BY <1>1 DEF locals, ghosts, bounds, databases
<1> QED BY <1>1, <1>2, CheckSpends

LEMMA LastCheckDoes ==
  ASSUME TypeOK, NEW at, NEW result, LastCheck(at, result)
  PROVE  /\ pc = at /\ pc' = "idle" /\ last' = result
         /\ UNCHANGED <<tag, container, record, dbs, minute, snapshot, aside, pre, crashes>>
         /\ UNCHANGED faults \/ Spent
<1>1. /\ pc = at /\ pc' = "idle" /\ last' = result
      /\ StaysUp \/ GoesDown(at)
      /\ UNCHANGED <<tag, compose, container, record, databases, minute, locals, pre, acked, bounds>>
  BY DEF LastCheck, Return
<1>2. UNCHANGED <<tag, container, record, dbs, minute, snapshot, aside, pre, crashes>>
  BY <1>1 DEF locals, bounds, databases
<1> QED BY <1>1, <1>2, CheckSpends

LEMMA StopAgainDoes ==
  ASSUME NEW at, NEW then, StopAgain(at, then)
  PROVE  /\ pc = at /\ pc' = then
         /\ UNCHANGED <<tag, container, record, dbs, minute, snapshot, aside, pre, last, crashes>>
         /\ UNCHANGED faults \/ Spent
  BY FailsSpends DEF StopAgain, Goto, locals, ghosts, bounds, databases

(* The reference is moved back, unless docker tag fails. *)
LEMMA RetagDoes ==
  ASSUME OneFailure, TypeOK, NEW at, NEW kept \in {"previous", "rolled"}, NEW then, NEW orElse,
         tag[kept] # None, Retag(at, kept, then, orElse)
  PROVE  /\ pc = at
         /\ UNCHANGED <<container, record, dbs, minute, snapshot, aside, pre, last, crashes>>
         /\ SameKeptImages
         /\ \/ Latest' = tag[kept] /\ pc' = then /\ UNCHANGED faults
            \/ tag' = tag /\ pc' = orElse /\ Spent /\ at \in MayFail
<1>1. image = FirstRef
  BY OneReference
<1>2. /\ pc = at
      /\ UNCHANGED <<container, record, dbs, minute, snapshot, aside, pre, last, crashes>>
      /\ \/ tag' = [tag EXCEPT ![FirstRef] = tag[kept]] /\ pc' = then /\ UNCHANGED faults
         \/ tag' = tag /\ pc' = orElse /\ Fails(at)
  BY <1>1 DEF Retag, Goto, locals, ghosts, bounds, databases
<1>3. ASSUME tag' = [tag EXCEPT ![FirstRef] = tag[kept]]
      PROVE  Latest' = tag[kept] /\ SameKeptImages
  BY <1>3, TagNames DEF TypeOK, Latest, SameKeptImages
<1> QED BY <1>2, <1>3, FailsSpends DEF SameKeptImages

(* The sessions are ended, or not. *)
LEMMA CloseDoes ==
  ASSUME TypeOK, Exists(Main), NEW at, NEW name, NEW then, NEW orElse,
         Close(at, name, then, orElse)
  PROVE  /\ pc = at /\ aside' = name
         /\ UNCHANGED <<tag, container, record, minute, snapshot, pre, last, crashes>>
         /\ \/ dbs' = [dbs EXCEPT ![Main].open = FALSE] /\ pc' = then /\ UNCHANGED faults
            \/ dbs' = dbs /\ pc' = orElse /\ Spent
  BY FailsSpends DEF Close, Goto, stack, ghosts, bounds

LEMMA OpenDoes ==
  ASSUME NEW at, NEW name, NEW then, Exists(name), Open(at, name, then)
  PROVE  /\ pc = at /\ pc' = then
         /\ UNCHANGED <<tag, container, record, minute, snapshot, aside, pre, last, crashes>>
         /\ \/ dbs' = [dbs EXCEPT ![name].open = TRUE] /\ UNCHANGED faults
            \/ dbs' = dbs /\ Spent
  BY FailsSpends DEF Open, Goto, stack, locals, ghosts, bounds

(* The database in use is renamed to a free name, or let in again. *)
LEMMA AsideDoes ==
  ASSUME TypeOK, NEW at, NEW name, ~Exists(name), NEW then, NEW orElse, SetDatabaseAside(at, name, then, orElse)
  PROVE  /\ pc = at
         /\ UNCHANGED <<tag, container, record, minute, snapshot, aside, pre, last, crashes>>
         /\ \/ dbs' = [dbs EXCEPT ![name] = dbs[Main], ![Main] = None] /\ pc' = then /\ UNCHANGED faults
            \/ /\ pc' = orElse /\ Spent
               /\ \E o \in BOOLEAN : dbs' = [dbs EXCEPT ![Main].open = o]
<1>1. dbs' \in Reopened(Exists(name)) => \E o \in BOOLEAN : dbs' = [dbs EXCEPT ![Main].open = o]
  BY DEF Reopened
<1> QED BY <1>1, FailsSpends DEF SetDatabaseAside, Goto, stack, locals, ghosts, bounds

LEMMA PutDoes ==
  ASSUME TypeOK, NEW at, NEW name, Exists(name), ~Exists(Main), NEW then, NEW orElse,
         PutDatabaseBack(at, name, then, orElse)
  PROVE  /\ pc = at
         /\ UNCHANGED <<tag, container, record, minute, snapshot, aside, pre, last, crashes>>
         /\ \/ dbs' = [dbs EXCEPT ![Main] = dbs[name], ![name] = None] /\ pc' = then /\ UNCHANGED faults
            \/ dbs' = dbs /\ pc' = orElse /\ Spent
  BY FailsSpends DEF PutDatabaseBack, Goto, stack, locals, ghosts, bounds

-----------------------------------------------------------------------------
(* The steps of an update.  Each goes from what holds at its point to what *)
(* holds at the next.                                                      *)
LEMMA UpdateKeeps ==
  ASSUME OneFailure, Inv, Inv', UndoInv, Keep("keep", "previous", "pull")
  PROVE  UndoInv'
<1> USE DEF Goto, Return, locals, ghosts, bounds, databases
<1>1. /\ TypeOK /\ TypeOK' /\ pc = "keep" /\ Dated /\ Limits
      /\ InService /\ Paired /\ Fresh /\ container = pre.container
  BY DEF Inv, UndoInv, AtUpdate, Keep
<1>2. /\ UNCHANGED <<container, record, dbs, minute, snapshot, aside, pre, crashes, unpaired>>
      /\ \/ tag' = [tag EXCEPT !["previous"] = container] /\ pc' = "pull" /\ UNCHANGED faults
         \/ /\ tag' = [tag EXCEPT !["previous"] = IF tag[image] = None THEN @ ELSE tag[image]]
            /\ pc' = "pull" /\ Spent
         \/ tag' = tag /\ pc' = "idle" /\ last' = "refused" /\ Spent
  BY FailsSpends DEF Keep
<1>3. Dated' /\ Limits' /\ Steady
  BY <1>1, <1>2, Untouched
<1>4. image = FirstRef /\ tag[image] = container /\ container \in Versions
  BY <1>1, OneReference DEF InService, Latest
<1>5. CASE pc' = "pull"
  <2>1. tag' = [tag EXCEPT !["previous"] = container]
    BY <1>2, <1>4, <1>5, TagNames
  <2>2. tag'["previous"] = container /\ tag'[FirstRef] = tag[FirstRef]
    BY <1>1, <2>1, TagNames DEF TypeOK
  <2>3. Tagged' /\ Latest' = pre'.container
    BY <1>1, <1>2, <2>2 DEF Tagged, Previous, Latest, InService
  <2>4. Fresh'
    BY <1>1, <1>3, SteadyParts
  <2>5. Unchanged'
    BY <1>1, <1>2 DEF Unchanged, InService, On, Exists, Latest
  <2> QED BY <1>3, <1>5, <2>3, <2>4, <2>5, Arrives
          DEF Asking, AtUpdate, AtUndoUpdate, AtRollback, AtUndoRollback
<1>6. CASE tag' = tag /\ pc' = "idle" /\ last' = "refused"
  <2>1. InService' /\ Paired'
    BY <1>1, <1>2, <1>3, <1>6, SteadyService, SteadyPaired DEF Steady
  <2> QED BY <1>3, <1>6, <2>1, Arrives
          DEF AtRest, Paired, AtUpdate, AtUndoUpdate, AtRollback, AtUndoRollback
<1> QED BY <1>2, <1>5, <1>6

LEMMA UpdatePulls ==
  ASSUME OneFailure, Inv, Inv', UndoInv, Pull
  PROVE  UndoInv'
<1>1. /\ TypeOK /\ TypeOK' /\ pc = "pull" /\ Dated /\ Limits /\ Asking
  BY DEF Inv, UndoInv, AtUpdate, Pull
<1>2. /\ UNCHANGED <<container, record, dbs, minute, snapshot, aside, pre, crashes, faults>>
      /\ image = FirstRef /\ compose = FirstRef
      /\ tag' \in {tag} \union {[tag EXCEPT ![FirstRef] = v] : v \in Versions}
  BY <1>1, OneReference DEF Pull, locals, bounds, databases
<1>3. tag'["previous"] = tag["previous"] /\ tag'["rolled"] = tag["rolled"]
  BY <1>1, <1>2, TagNames DEF TypeOK
<1>4. tag'[FirstRef] # None
  BY <1>2, TagNames, OneReference DEF OneFailure, Inv, TypeOK
<1>5. pc' = "stop"
  BY <1>2, <1>4 DEF Pull, Goto
<1>6. Dated' /\ Limits' /\ Steady
  BY <1>1, <1>2, Untouched
<1>7. Tagged' /\ Fresh'
  BY <1>1, <1>3, <1>6, SteadyParts, SteadyStates DEF SameKeptImages, Asking
<1>8. Unchanged'
  BY <1>1, <1>2 DEF Asking, Unchanged, On, Exists
<1> QED BY <1>5, <1>6, <1>7, <1>8, Arrives
        DEF Asking, AtUpdate, AtUndoUpdate, AtRollback, AtUndoRollback

LEMMA UpdateStops ==
  ASSUME OneFailure, Inv, Inv', UndoInv, StopApp("stop", "dryrun")
  PROVE  UndoInv'
<1>1. /\ TypeOK /\ TypeOK' /\ pc = "stop" /\ Dated /\ Limits /\ Asking
  BY DEF Inv, UndoInv, AtUpdate, StopApp
<1>2. ~Fails("stop")
  BY DEF OneFailure, Fails
<1>3. /\ UNCHANGED <<tag, container, record, dbs, minute, snapshot, aside, crashes, faults>>
      /\ pre' = [pre EXCEPT !.main = dbs[Main]] /\ pc' = "dryrun"
  BY <1>2 DEF StopApp, Goto, locals, bounds
<1>4. Dated' /\ Limits' /\ SameDatabases
  BY <1>1, <1>3, Untouched
<1>5. pre'.container = pre.container /\ pre'.main = dbs[Main]
  BY <1>1, <1>3 DEF TypeOK
<1>6. Asking'
  BY <1>1, <1>3, <1>5 DEF Asking, Tagged, Unchanged, Fresh, On, Exists, Previous
<1>7. Held(Main)'
  BY <1>1, <1>3, <1>5 DEF Asking, Unchanged, Held, On, Exists
<1> QED BY <1>3, <1>4, <1>6, <1>7, Arrives
        DEF AtUpdate, AtUndoUpdate, AtRollback, AtUndoRollback

LEMMA UpdateTries ==
  ASSUME OneFailure, Inv, Inv', UndoInv, DryRun
  PROVE  UndoInv'
<1>1. /\ TypeOK /\ TypeOK' /\ pc = "dryrun" /\ Dated /\ Limits /\ Asking /\ Held(Main)
      /\ minute \in Nat /\ minute' = minute
  BY DEF Inv, TypeOK, UndoInv, AtUpdate, DryRun
<1>2. UNCHANGED <<tag, container, record, dbs, minute, aside, pre, crashes, faults>>
  BY DEF DryRun, stack, databases, ghosts, bounds
<1>3. CASE snapshot' = <<"before", minute>> /\ pc' = "close"
  <2>1. snapshot'[2] <= minute' /\ aside'[2] <= minute' /\ snapshot' \in Before
    <3>1. snapshot'[2] = minute /\ aside' = aside /\ minute \in 0..MaxMinute
      BY <1>1, <1>2, <1>3 DEF TypeOK
    <3>2. snapshot' \in Before
      BY <1>3, <3>1, Names
    <3> QED BY <1>1, <3>1, <3>2 DEF Dated, Past
  <2>2. Dated' /\ Limits'
    BY <1>1, <1>2, <2>1, DatedKept, SelfSame, LimitsKept
  <2>3. Asking' /\ Held(Main)'
    BY <1>1, <1>2 DEF Asking, Tagged, Unchanged, Fresh, Held, On, Exists, Previous
  <2>4. Youngest'
    BY <1>1, <1>2, <1>3, <2>1 DEF Dated, Past, Youngest, Exists, Before
  <2> QED BY <1>3, <2>2, <2>3, <2>4, Arrives
          DEF AtUpdate, AtUndoUpdate, AtRollback, AtUndoRollback
<1>4. CASE snapshot' = snapshot /\ pc' = "abort"
  <2>1. Dated' /\ Limits'
    BY <1>1, <1>2, <1>4, Untouched
  <2>2. Tagged' /\ Unchanged'
    BY <1>1, <1>2 DEF Asking, Tagged, Unchanged, On, Exists, Previous
  <2> QED BY <1>4, <2>1, <2>2, Arrives
          DEF AtUpdate, AtUndoUpdate, AtRollback, AtUndoRollback
<1> QED BY <1>3, <1>4 DEF DryRun, Goto

(* An update that is refused has changed nothing but the tag. *)
LEMMA UpdateRefused ==
  ASSUME OneFailure, Inv, Inv', UndoInv,
         \/ Retag("abort", "previous", "aborting", "aborting")
         \/ Start("aborting", "aborted", "aborted")
         \/ LastCheck("aborted", "refused")
  PROVE  UndoInv'
<1>1. TypeOK /\ TypeOK' /\ Dated /\ Limits
  BY DEF Inv, UndoInv
<1>2. CASE Retag("abort", "previous", "aborting", "aborting")
  <2>1. pc = "abort" /\ Tagged /\ Unchanged
    BY <1>2 DEF UndoInv, AtUpdate, Retag
  <2>2. tag["previous"] = pre.container /\ tag["previous"] # None
    BY <1>1, <2>1, TagNames DEF Tagged, Unchanged, Previous, TypeOK
  <2>3. /\ UNCHANGED <<container, record, dbs, minute, snapshot, aside, pre, crashes>>
        /\ SameKeptImages /\ Latest' = tag["previous"] /\ pc' = "aborting" /\ UNCHANGED faults
    BY <1>1, <1>2, <2>2, RetagDoes DEF OneFailure
  <2>4. Dated' /\ Limits'
    BY <1>1, <2>1, <2>3, Untouched
  <2>5. Tagged' /\ Unchanged' /\ Latest' = pre'.container
    BY <2>1, <2>2, <2>3 DEF Tagged, Unchanged, On, Exists, Previous, SameKeptImages
  <2> QED BY <2>3, <2>4, <2>5, Arrives
          DEF AtUpdate, AtUndoUpdate, AtRollback, AtUndoRollback
<1>3. CASE Start("aborting", "aborted", "aborted")
  <2>1. pc = "aborting" /\ Tagged /\ Unchanged /\ Latest = pre.container
    BY <1>3 DEF UndoInv, AtUpdate, Start
  <2>2. On(Main, Latest)
    BY <2>1 DEF Unchanged
  <2>3. /\ UNCHANGED <<tag, record, dbs, minute, snapshot, aside, pre, crashes>>
        /\ container' \in {container, Latest} /\ pc' = "aborted" /\ (UNCHANGED faults \/ Spent)
    BY <1>1, <1>3, <2>2, StartDoes, Zenon
  <2>4. Dated' /\ Limits'
    BY <1>1, <2>1, <2>3, Untouched
  <2>5. Tagged' /\ Unchanged' /\ Latest' = pre'.container
    BY <2>1, <2>3 DEF Tagged, Unchanged, On, Exists, Previous, Latest
  <2> QED BY <2>3, <2>4, <2>5, Arrives
          DEF AtUpdate, AtUndoUpdate, AtRollback, AtUndoRollback
<1>4. CASE LastCheck("aborted", "refused")
  <2>1. pc = "aborted" /\ Tagged /\ Unchanged /\ Latest = pre.container
    BY <1>4 DEF UndoInv, AtUpdate, LastCheck
  <2>2. /\ UNCHANGED <<tag, container, record, dbs, minute, snapshot, aside, pre, crashes>>
        /\ pc' = "idle" /\ last' = "refused" /\ (UNCHANGED faults \/ Spent)
    BY <1>1, <1>4, LastCheckDoes
  <2>3. Dated' /\ Limits'
    BY <1>1, <2>1, <2>2, Untouched
  <2>4. InService'
    BY <2>1, <2>2 DEF InService, Unchanged, On, Exists, Latest
  <2>5. Point'
    BY <1>1, <2>1, <2>2, PointImaged DEF Point, Tagged, Previous, Latest
  <2> QED BY <2>2, <2>3, <2>4, <2>5, Arrives
          DEF AtRest, Paired, AtUpdate, AtUndoUpdate, AtRollback, AtUndoRollback
<1> QED BY <1>2, <1>3, <1>4

LEMMA UpdateCloses ==
  ASSUME OneFailure, Inv, Inv', UndoInv, Close("close", aside, "copy", "abort")
  PROVE  UndoInv'
<1>1. /\ TypeOK /\ TypeOK' /\ pc = "close" /\ Dated /\ Limits
      /\ Asking /\ Held(Main) /\ Youngest
  BY DEF Inv, UndoInv, AtUpdate, Close
<1>2. Exists(Main)
  BY <1>1 DEF Held, On
<1>3. /\ aside' = aside /\ UNCHANGED <<tag, container, record, minute, snapshot, pre, crashes>>
      /\ \/ dbs' = [dbs EXCEPT ![Main].open = FALSE] /\ pc' = "copy" /\ UNCHANGED faults
         \/ dbs' = dbs /\ pc' = "abort" /\ Spent
  BY <1>1, <1>2, CloseDoes
<1>4. aside'[2] <= minute'
  BY <1>1, <1>3 DEF Dated, Past
<1>5. Dated' /\ Limits' /\ Steady
  BY <1>1, <1>2, <1>3, <1>4, MainOpened, Untouched
<1>6. /\ Tagged' /\ Held(Main)' /\ Fresh' /\ Youngest'
  BY <1>1, <1>3, <1>5, SteadyParts, SteadyStates DEF Asking, SameKeptImages
<1>7. Unchanged'
  BY <1>1, <1>3, <1>5, SteadyService DEF Asking
<1> QED BY <1>3, <1>5, <1>6, <1>7, Arrives
        DEF Asking, AtUpdate, AtUndoUpdate, AtRollback, AtUndoRollback

(* A database that was let in again after a statement failed. *)
LEMMA LetInAgain ==
  ASSUME NEW b, dbs' \in Reopened(b)
  PROVE  \E o \in BOOLEAN : dbs' = [dbs EXCEPT ![Main].open = o]
  BY DEF Reopened

LEMMA UpdateCopies ==
  ASSUME OneFailure, Inv, Inv', UndoInv, CopyDatabase
  PROVE  UndoInv'
<1>1. /\ TypeOK /\ TypeOK' /\ pc = "copy" /\ Dated /\ Limits
      /\ Asking /\ Held(Main) /\ Youngest
  BY DEF Inv, UndoInv, AtUpdate, CopyDatabase
<1>2. Exists(Main) /\ aside[2] <= minute
  BY <1>1 DEF Held, On, Dated, Past
<1>3. UNCHANGED <<tag, container, record, minute, snapshot, aside, pre, crashes>>
  BY DEF CopyDatabase, stack, locals, ghosts, bounds
<1>4. CASE pc' = "abort"
  <2>1. dbs' \in Reopened(Exists(snapshot)) /\ (UNCHANGED faults \/ Spent)
    BY <1>4, FailsSpends DEF CopyDatabase, Goto
  <2>2. Dated' /\ Limits' /\ Steady
    BY <1>1, <1>2, <1>3, <2>1, LetInAgain, MainOpened
  <2>3. Tagged' /\ Unchanged'
    BY <1>1, <1>3, <2>2, SteadyStates, SteadyService DEF Asking, SameKeptImages
  <2> QED BY <1>4, <2>2, <2>3, Arrives
          DEF AtUpdate, AtUndoUpdate, AtRollback, AtUndoRollback
<1>5. CASE pc' = "open"
  <2>1. /\ dbs' = [dbs EXCEPT ![snapshot] = [dbs[Main] EXCEPT !.id = nextId, !.open = TRUE]]
        /\ UNCHANGED faults
    BY <1>5 DEF CopyDatabase, Goto
  <2>2. dbs[Main] \in Database /\ nextId \in Nat /\ snapshot \in Name /\ snapshot # Main
        /\ snapshot \in Before /\ Main \in Name
    BY <1>1, <1>2, InNames DEF TypeOK, Exists, Youngest
  <2>3. /\ dbs'[snapshot] = [dbs[Main] EXCEPT !.id = nextId, !.open = TRUE]
        /\ \A n \in Name : n # snapshot => dbs'[n] = dbs[n]
    BY <1>1, <2>1, <2>2 DEF TypeOK
  <2>4. /\ dbs'[snapshot] \in Database /\ dbs'[snapshot] # None /\ dbs'[snapshot].open
        /\ dbs'[snapshot].schema = dbs[Main].schema /\ dbs'[snapshot].writes = dbs[Main].writes
    BY <2>2, <2>3, Nothing DEF Database
  <2>5. Dated'
    BY <1>1, <1>3, <1>5, <2>3, <2>4 DEF Dated, Past, Exists, Before
  <2>6. Limits'
    BY <1>1, <1>3, <2>1, LimitsKept
  <2>7. Held(snapshot)'
    BY <1>1, <1>3, <2>3, <2>4 DEF Held, On, Exists
  <2>8. Youngest'
    BY <1>1, <1>3, <2>2, <2>3 DEF TypeOK, Youngest, Exists, Before, Name
  <2>9. On(Main, pre.container)'
    BY <1>1, <1>3, <2>2, <2>3 DEF Held, On, Exists
  <2>10. Fresh'
    BY <1>1, <1>3, <2>2, <2>3 DEF Asking, Fresh, Exists
  <2>11. ReadyToMigrate'
    BY <1>1, <1>3, <2>7, <2>8, <2>9, <2>10
       DEF Asking, Tagged, Previous, ReadyToMigrate, Undoable, Copied, On, Exists
  <2> QED BY <1>5, <2>5, <2>6, <2>11, Arrives
          DEF AtUpdate, AtUndoUpdate, AtRollback, AtUndoRollback
<1> QED BY <1>4, <1>5 DEF CopyDatabase, Goto

LEMMA UpdateOpens ==
  ASSUME OneFailure, Inv, Inv', UndoInv, Open("open", Main, "upgrade")
  PROVE  UndoInv'
<1>1. /\ TypeOK /\ TypeOK' /\ pc = "open" /\ Dated /\ Limits /\ ReadyToMigrate
  BY DEF Inv, UndoInv, AtUpdate, Open
<1>2. Exists(Main) /\ aside[2] <= minute
  BY <1>1 DEF ReadyToMigrate, Undoable, Dated, Past
<1>3. /\ pc' = "upgrade"
      /\ UNCHANGED <<tag, container, record, minute, snapshot, aside, pre, crashes>>
      /\ \/ dbs' = [dbs EXCEPT ![Main].open = TRUE] /\ UNCHANGED faults
         \/ dbs' = dbs /\ Spent
  BY <1>2, OpenDoes
<1>4. Dated' /\ Limits' /\ Steady /\ (faults' = 0 \/ dbs'[Main].open)
  <2>1. CASE dbs' = [dbs EXCEPT ![Main].open = TRUE] /\ UNCHANGED faults
    BY <1>1, <1>2, <1>3, <2>1, MainOpened
  <2>2. CASE dbs' = dbs /\ Spent
    BY <1>1, <1>3, <2>2, Untouched, LimitsKept
  <2> QED BY <1>3, <2>1, <2>2
<1>5. ReadyToMigrate'
  BY <1>1, <1>3, <1>4, SteadyStates DEF SameKeptImages
<1> QED BY <1>3, <1>4, <1>5, Arrives
        DEF AtUpdate, AtUndoUpdate, AtRollback, AtUndoRollback

(* The schema of the database in use is all that changes. *)
LEMMA SchemaSet ==
  ASSUME TypeOK, Exists(Main), NEW s \in Versions \union {Partial},
         dbs' = [dbs EXCEPT ![Main].schema = s]
  PROVE  /\ \A n \in Name : (n # Main => dbs'[n] = dbs[n]) /\ (Exists(n)' <=> Exists(n))
         /\ dbs'[Main].schema = s /\ dbs'[Main].open = dbs[Main].open
<1>1. dbs[Main] \in Database /\ Main \in Name
  BY InNames DEF TypeOK, Exists
<1>2. dbs'[Main] = [dbs[Main] EXCEPT !.schema = s] /\ \A n \in Name : n # Main => dbs'[n] = dbs[n]
  BY <1>1 DEF TypeOK
<1>3. [dbs[Main] EXCEPT !.schema = s] \in Database
  BY <1>1 DEF Database
<1>4. dbs'[Main].schema = s /\ dbs'[Main].open = dbs[Main].open /\ dbs'[Main] # None
  BY <1>1, <1>2, <1>3, Nothing DEF Database
<1> QED BY <1>2, <1>4 DEF Exists

LEMMA UpdateMigrates ==
  ASSUME OneFailure, Inv, Inv', UndoInv, RunUpgrade
  PROVE  UndoInv'
<1>1. /\ TypeOK /\ TypeOK' /\ pc = "upgrade" /\ Dated /\ Limits
      /\ ReadyToMigrate /\ (faults = 0 \/ dbs[Main].open)
  BY DEF Inv, UndoInv, AtUpdate, RunUpgrade
<1>2. /\ UNCHANGED <<tag, container, record, minute, snapshot, aside, pre, crashes>>
      /\ tag[compose] = Latest /\ Latest \in Versions
  BY <1>1, OneReference DEF RunUpgrade, stack, locals, ghosts, bounds, Latest
<1>3. Exists(Main) /\ Undoable /\ Copied /\ snapshot \in Before /\ Main \notin Before
  BY <1>1, Names DEF ReadyToMigrate, Undoable, Copied, Youngest
<1>4. \/ /\ dbs' = [dbs EXCEPT ![Main].schema = Latest] /\ dbs[Main].open
         /\ pc' = "start" /\ UNCHANGED faults
      \/ /\ \E s \in {dbs[Main].schema, Partial} : dbs' = [dbs EXCEPT ![Main].schema = s]
         /\ pc' = "u_stop" /\ Spent
      \/ dbs' = dbs /\ ~dbs[Main].open /\ pc' = "u_stop" /\ UNCHANGED faults
  BY <1>2, <1>3, FailsSpends DEF RunUpgrade, Usable, Goto
<1>5. ASSUME NEW s \in Versions \union {Partial}, dbs' = [dbs EXCEPT ![Main].schema = s],
             pc # "b_open", pc' # "b_open"
      PROVE  /\ Dated' /\ Undoable' /\ dbs'[Main].schema = s /\ dbs'[Main].open = dbs[Main].open
  <2>1. /\ \A n \in Name : (n # Main => dbs'[n] = dbs[n]) /\ (Exists(n)' <=> Exists(n))
        /\ dbs'[Main].schema = s /\ dbs'[Main].open = dbs[Main].open
    BY <1>1, <1>3, <1>5, SchemaSet
  <2>2. Dated'
    BY <1>1, <1>2, <1>3, <1>5, <2>1 DEF Dated, Past, Before
  <2>3. dbs'[snapshot] = dbs[snapshot] /\ Main \in Name
    BY <1>1, <1>3, <2>1, InNames DEF Before
  <2>4. Undoable'
    BY <1>2, <1>3, <2>1, <2>3
       DEF Undoable, Copied, Tagged, Previous, Held, On, Exists, Youngest, Fresh, Before
  <2> QED BY <2>1, <2>2, <2>4
<1>6. Limits' /\ (Spent => faults' = 0) /\ (faults = 0 => faults' = 0)
  BY <1>1, <1>2, <1>4, LimitsKept
<1>7. CASE dbs' = [dbs EXCEPT ![Main].schema = Latest] /\ dbs[Main].open /\ pc' = "start"
  <2>1. Dated' /\ Undoable' /\ dbs'[Main].schema = Latest /\ dbs'[Main].open
    BY <1>1, <1>2, <1>5, <1>7
  <2>2. Migrated'
    BY <1>2, <2>1 DEF Migrated, Undoable, On, Latest
  <2> QED BY <1>6, <1>7, <2>1, <2>2, Arrives
          DEF AtUpdate, AtUndoUpdate, AtRollback, AtUndoRollback
<1>8. CASE /\ \E s \in {dbs[Main].schema, Partial} : dbs' = [dbs EXCEPT ![Main].schema = s]
           /\ pc' = "u_stop" /\ Spent
  <2>1. dbs[Main].schema \in Versions \union {Partial}
    BY <1>1, <1>3, InNames DEF TypeOK, Exists, Database
  <2>2. Dated' /\ Undoable'
    BY <1>1, <1>5, <1>8, <2>1
  <2> QED BY <1>6, <1>8, <2>2, Arrives
          DEF Undoable, Copied, AtUpdate, AtUndoUpdate, AtRollback, AtUndoRollback
<1>9. CASE dbs' = dbs /\ ~dbs[Main].open /\ pc' = "u_stop" /\ UNCHANGED faults
  <2>1. Dated' /\ Steady /\ faults' = 0
    BY <1>1, <1>2, <1>9, Untouched
  <2>2. Undoable'
    BY <1>1, <1>2, <1>3, <2>1, SteadyStates DEF SameKeptImages
  <2> QED BY <1>6, <1>9, <2>1, <2>2, Arrives
          DEF Undoable, Copied, AtUpdate, AtUndoUpdate, AtRollback, AtUndoRollback
<1> QED BY <1>4, <1>7, <1>8, <1>9

LEMMA UpdateStarts ==
  ASSUME OneFailure, Inv, Inv', UndoInv, Start("start", "check", "u_stop")
  PROVE  UndoInv'
<1>1. /\ TypeOK /\ TypeOK' /\ pc = "start" /\ Dated /\ Limits /\ Migrated /\ dbs[Main].open
  BY DEF Inv, UndoInv, AtUpdate, Start
<1>2. On(Main, Latest)
  BY <1>1 DEF Migrated
<1>3. /\ UNCHANGED <<tag, record, dbs, minute, snapshot, aside, pre, crashes>>
      /\ \/ container' = Latest /\ running' = TRUE /\ pc' = "check" /\ UNCHANGED faults
         \/ container' \in {container, Latest} /\ pc' = "u_stop" /\ Spent
  BY <1>1, <1>2, StartDoes, Zenon
<1>4. UNCHANGED faults \/ Spent
  BY <1>3
<1>5. Dated' /\ Limits' /\ Steady /\ (Spent => faults' = 0)
  BY <1>1, <1>3, <1>4, Untouched, LimitsKept
<1>6. Migrated' /\ Undoable'
  BY <1>1, <1>3, <1>5, SteadyService DEF Migrated
<1>7. CASE container' = Latest /\ running' = TRUE /\ pc' = "check"
  <2>1. container' = Latest' /\ dbs'[Main].open /\ running'
    BY <1>1, <1>3, <1>7 DEF Latest
  <2> QED BY <1>5, <1>6, <1>7, <2>1, Arrives
          DEF AtUpdate, AtUndoUpdate, AtRollback, AtUndoRollback
<1>8. CASE pc' = "u_stop" /\ Spent
  BY <1>5, <1>6, <1>8, Arrives
     DEF Undoable, Copied, AtUpdate, AtUndoUpdate, AtRollback, AtUndoRollback
<1> QED BY <1>3, <1>7, <1>8, Zenon

(* A version that is on its schema and is let in comes up, unless it fails. *)
LEMMA UpdateChecks ==
  ASSUME OneFailure, Inv, Inv', UndoInv, Check("check", "prune", "u_stop")
  PROVE  UndoInv'
<1>1. /\ TypeOK /\ TypeOK' /\ pc = "check" /\ Dated /\ Limits /\ Migrated /\ dbs[Main].open
      /\ container = Latest /\ running
  BY DEF Inv, UndoInv, AtUpdate, Check
<1>2. Fits
  BY <1>1 DEF Migrated, On, Fits, Usable
<1>3. /\ UNCHANGED <<tag, container, record, dbs, minute, snapshot, aside, pre, crashes>>
      /\ UNCHANGED faults \/ Spent
      /\ pc' = "prune" \/ (pc' = "u_stop" /\ Spent)
  BY <1>1, <1>2, CheckDoes
<1>4. Dated' /\ Limits' /\ Steady /\ (Spent => faults' = 0)
  BY <1>1, <1>3, Untouched, LimitsKept
<1>5. Migrated' /\ Undoable' /\ Copied'
  BY <1>1, <1>3, <1>4, SteadyService DEF Migrated, Undoable
<1>6. InService'
  BY <1>1, <1>3, <1>5 DEF Migrated, InService, Latest
<1> QED BY <1>3, <1>4, <1>5, <1>6, Arrives
        DEF Copied, AtUpdate, AtUndoUpdate, AtRollback, AtUndoRollback

LEMMA UpdatePrunes ==
  ASSUME OneFailure, Inv, Inv', UndoInv, DropOlder
  PROVE  UndoInv'
<1>1. /\ TypeOK /\ TypeOK' /\ pc = "prune" /\ Dated /\ Limits /\ Copied /\ InService
  BY DEF Inv, UndoInv, AtUpdate, DropOlder
<1>2. /\ UNCHANGED <<tag, container, record, minute, snapshot, aside, pre, crashes>>
      /\ pc' = "record" /\ (UNCHANGED faults \/ Spent)
  BY FailsSpends DEF DropOlder, Goto, stack, locals, ghosts, bounds
<1>3. /\ \A n \in Name : dbs'[n] # None => dbs'[n] = dbs[n]
      /\ \A n \in Name : n \notin OlderSnapshots(snapshot) => dbs'[n] = dbs[n]
  BY DEF DropOlder
<1>4. snapshot \in Name /\ Main \in Name /\ snapshot \notin OlderSnapshots(snapshot)
      /\ Main \notin OlderSnapshots(snapshot)
  BY <1>1, InNames DEF OlderSnapshots
<1>5. dbs'[snapshot] = dbs[snapshot] /\ dbs'[Main] = dbs[Main]
  BY <1>3, <1>4
<1>6. Dated'
  BY <1>1, <1>2, <1>3 DEF Dated, Past, Exists, Before
<1>7. Limits'
  BY <1>1, <1>2, LimitsKept
<1>8. InService'
  BY <1>1, <1>2, <1>5 DEF InService, On, Exists, Latest
<1>9. Youngest'
  BY <1>1, <1>2, <1>3 DEF Copied, Youngest, Exists, Before
<1>10. On(snapshot, Previous)'
  BY <1>1, <1>2, <1>5 DEF Copied, Tagged, Held, On, Exists, Previous
<1>11. Point'
  <2>1. \A s \in RollbackCopies' : s = snapshot'
    <3> SUFFICES ASSUME NEW s \in RollbackCopies' PROVE s = snapshot'
      OBVIOUS
    <3>1. s \in Before /\ Exists(s)' /\ snapshot' \in Before /\ Exists(snapshot)'
      BY <1>9, <1>10 DEF Youngest, RollbackCopies, Newest, OlderSnapshots, On
    <3>2. s[2] <= snapshot'[2] /\ snapshot'[2] <= s[2]
      <4>1. snapshot' \in OlderSnapshots(None)'
        BY <3>1, DockerAssumption DEF OlderSnapshots, Before, Exists
      <4> QED BY <1>9, <3>1, <4>1 DEF Youngest, RollbackCopies, Newest, OlderSnapshots, Exists
    <3> QED BY <3>1, <3>2 DEF Before, Name
  <2> QED BY <1>10, <2>1 DEF Point, On
<1> QED BY <1>2, <1>6, <1>7, <1>8, <1>11, Arrives
        DEF Paired, AtUpdate, AtUndoUpdate, AtRollback, AtUndoRollback

(* The record is written, or not: what is installed is the same. *)
LEMMA UpdateRecords ==
  ASSUME OneFailure, Inv, Inv', UndoInv, WriteRecord("record", "updated")
  PROVE  UndoInv'
<1>1. /\ TypeOK /\ TypeOK' /\ pc = "record" /\ Dated /\ Limits /\ InService /\ Paired
  BY DEF Inv, UndoInv, AtUpdate, WriteRecord
<1>2. /\ UNCHANGED <<tag, container, dbs, minute, snapshot, aside, pre, crashes, unpaired>>
      /\ pc' = "idle" /\ last' \in {"updated", "unrecorded"} /\ (UNCHANGED faults \/ Spent)
  BY FailsSpends DEF WriteRecord, Return, stack, databases, locals, bounds
<1>3. Dated' /\ Limits' /\ Steady
  BY <1>1, <1>2, Untouched
<1>4. InService' /\ Paired'
  BY <1>1, <1>2, <1>3, SteadyService, SteadyPaired DEF Steady
<1> QED BY <1>2, <1>3, <1>4, Arrives
        DEF AtRest, AtUpdate, AtUndoUpdate, AtRollback, AtUndoRollback

-----------------------------------------------------------------------------
(* The undo of an update: its failure is spent, so each call works.        *)

LEMMA NotSpent ==
  ASSUME faults = 0
  PROVE  ~Spent
  BY DEF Spent

LEMMA Renames ==
  ASSUME TypeOK, NEW a \in Name, NEW b \in Name, a # b,
         dbs' = [dbs EXCEPT ![b] = dbs[a], ![a] = None]
  PROVE  dbs'[b] = dbs[a] /\ dbs'[a] = None /\ \A n \in Name : n # a /\ n # b => dbs'[n] = dbs[n]
  BY DEF TypeOK

LEMMA DatedRenamed ==
  ASSUME TypeOK, TypeOK', Dated, NEW a \in Name, NEW b \in Name, a # b, Exists(a),
         dbs' = [dbs EXCEPT ![b] = dbs[a], ![a] = None], b[2] <= minute,
         UNCHANGED <<minute, snapshot, aside>>, pc # "b_open",
         b \in Before => b = snapshot /\ pc' = "b_open"
  PROVE  Dated'
<1>1. dbs'[b] = dbs[a] /\ dbs'[a] = None /\ \A n \in Name : n # a /\ n # b => dbs'[n] = dbs[n]
  BY Renames
<1>2. \A n \in Name : Exists(n)' => n[2] <= minute'
  BY <1>1 DEF Dated, Past, Exists
<1>3. ASSUME NEW n \in Before, Exists(n)', ~(pc' = "b_open" /\ n = snapshot')
      PROVE  dbs'[n].open
  <2>1. n \in Name /\ n # b /\ n # a
    BY <1>1, <1>3 DEF Before, Exists
  <2> QED BY <1>1, <1>3, <2>1 DEF Dated, Past, Exists
<1> QED BY <1>2, <1>3 DEF Dated, Past

LEMMA UndoStops ==
  ASSUME OneFailure, Inv, Inv', UndoInv,
         StopAgain("u_stop", "u_image") \/ Retag("u_image", "previous", "u_close", "u_close")
  PROVE  UndoInv'
<1>1. TypeOK /\ TypeOK' /\ Dated /\ Limits
  BY DEF Inv, UndoInv
<1>2. pc \in {"u_stop", "u_image"} /\ faults = 0 /\ Tagged /\ Undoable /\ ~Spent
  BY NotSpent DEF UndoInv, AtUndoUpdate, StopAgain, Retag
<1>3. CASE StopAgain("u_stop", "u_image")
  <2>1. /\ UNCHANGED <<tag, dbs, minute, snapshot, aside, pre, crashes, faults>>
        /\ pc' = "u_image"
    BY <1>2, <1>3, StopAgainDoes
  <2>2. Dated' /\ Limits' /\ Steady
    BY <1>1, <1>2, <2>1, Untouched
  <2>3. Tagged' /\ Undoable' /\ faults' = 0
    BY <1>1, <1>2, <2>1, <2>2, SteadyStates DEF SameKeptImages
  <2> QED BY <2>1, <2>2, <2>3, Arrives
          DEF AtUpdate, AtUndoUpdate, AtRollback, AtUndoRollback
<1>4. CASE Retag("u_image", "previous", "u_close", "u_close")
  <2>1. tag["previous"] = pre.container /\ tag["previous"] # None
    BY <1>1, <1>2, TagNames DEF Tagged, Previous, TypeOK
  <2>2. /\ UNCHANGED <<dbs, minute, snapshot, aside, pre, crashes, faults>>
        /\ SameKeptImages /\ Latest' = pre'.container /\ pc' = "u_close"
    BY <1>1, <1>2, <1>4, <2>1, RetagDoes
  <2>3. Dated' /\ Limits' /\ Steady
    BY <1>1, <1>2, <2>2, Untouched
  <2>4. Tagged' /\ Undoable' /\ faults' = 0
    BY <1>1, <1>2, <2>2, <2>3, SteadyStates
  <2> QED BY <2>2, <2>3, <2>4, Arrives
          DEF AtUpdate, AtUndoUpdate, AtRollback, AtUndoRollback
<1> QED BY <1>3, <1>4

(* The name of this minute is free. *)
LEMMA FreshName ==
  ASSUME TypeOK, Fresh, NEW kind \in {"failed", "rolled"}
  PROVE  /\ <<kind, minute>> \in Name /\ <<kind, minute>> \notin Before
         /\ <<kind, minute>> # Main /\ ~Exists(<<kind, minute>>)
         /\ <<kind, minute>>[1] = kind /\ <<kind, minute>>[2] <= minute
<1>1. minute \in 0..MaxMinute /\ minute \in Nat
  BY DEF TypeOK
<1>2. <<kind, minute>> \in Name /\ <<kind, minute>> \notin Before /\ <<kind, minute>> # Main
  BY <1>1, Names
<1>3. ~Exists(<<kind, minute>>)
  BY <1>1, <1>2 DEF Fresh
<1> QED BY <1>1, <1>2, <1>3

LEMMA UndoCloses ==
  ASSUME OneFailure, Inv, Inv', UndoInv, Close("u_close", <<"failed", minute>>, "u_aside", "u_start")
  PROVE  UndoInv'
<1>1. /\ TypeOK /\ TypeOK' /\ pc = "u_close" /\ Dated /\ Limits
      /\ faults = 0 /\ Tagged /\ Undoable /\ Latest = pre.container /\ ~Spent
  BY NotSpent DEF Inv, UndoInv, AtUndoUpdate, Close
<1>2. Exists(Main) /\ Fresh
  BY <1>1 DEF Undoable
<1>3. /\ aside' = <<"failed", minute>> /\ UNCHANGED <<tag, minute, snapshot, pre, crashes>>
      /\ dbs' = [dbs EXCEPT ![Main].open = FALSE] /\ pc' = "u_aside" /\ UNCHANGED faults
  BY <1>1, <1>2, CloseDoes
<1>4. /\ aside'[1] = "failed" /\ aside'[2] <= minute' /\ aside' \in Name /\ ~Exists(aside')
  BY <1>1, <1>2, <1>3, FreshName
<1>5. Dated' /\ Limits' /\ Steady
  BY <1>1, <1>2, <1>3, <1>4, MainOpened
<1>6. Tagged' /\ Copied' /\ Exists(Main)' /\ Latest' = pre'.container
  BY <1>1, <1>2, <1>3, <1>5, SteadyStates DEF SameKeptImages, Undoable, Latest
<1>7. ~Exists(aside)'
  BY <1>1, <1>4, <1>5, SteadyParts DEF Exists
<1> QED BY <1>1, <1>3, <1>4, <1>5, <1>6, <1>7, Arrives
        DEF AtUpdate, AtUndoUpdate, AtRollback, AtUndoRollback

LEMMA UndoSetsAside ==
  ASSUME OneFailure, Inv, Inv', UndoInv, SetDatabaseAside("u_aside", aside, "u_open", "u_start")
  PROVE  UndoInv'
<1>1. /\ TypeOK /\ TypeOK' /\ pc = "u_aside" /\ Dated /\ Limits
      /\ faults = 0 /\ Tagged /\ Copied /\ Latest = pre.container /\ ~Spent
      /\ Exists(Main) /\ ~Exists(aside) /\ aside[1] = "failed"
  BY NotSpent DEF Inv, UndoInv, AtUndoUpdate, SetDatabaseAside
<1>2. /\ UNCHANGED <<tag, minute, snapshot, aside, pre, crashes, faults>>
      /\ dbs' = [dbs EXCEPT ![aside] = dbs[Main], ![Main] = None] /\ pc' = "u_open"
  BY <1>1, AsideDoes
<1>3. /\ Main \in Name /\ aside \in Name /\ snapshot \in Name /\ aside # Main
      /\ aside \notin Before /\ snapshot # aside /\ snapshot # Main
  BY <1>1, InNames DEF Copied, Youngest, Before
<1>4. Dated' /\ Limits'
  BY <1>1, <1>2, <1>3, DatedRenamed, LimitsKept DEF Dated, Past
<1>5. /\ dbs'[aside] = dbs[Main] /\ dbs'[Main] = None
      /\ \A n \in Name : n # Main /\ n # aside => dbs'[n] = dbs[n]
  BY <1>1, <1>2, <1>3, Renames
<1>6. Copied'
  BY <1>1, <1>2, <1>3, <1>5 DEF Copied, Tagged, Previous, Held, On, Exists, Youngest, Before
<1>7. Tagged' /\ ~Exists(Main)' /\ Exists(aside)' /\ Latest' = pre'.container
  BY <1>1, <1>2, <1>5, <1>6 DEF Copied, Exists, Latest
<1> QED BY <1>1, <1>2, <1>4, <1>6, <1>7, Arrives
        DEF AtUpdate, AtUndoUpdate, AtRollback, AtUndoRollback

LEMMA AsideOpened ==
  ASSUME TypeOK, TypeOK', Dated, Limits, Exists(aside),
         dbs' = [dbs EXCEPT ![aside].open = TRUE],
         UNCHANGED <<minute, snapshot, aside, pre, crashes>>, UNCHANGED faults \/ Spent,
         pc # "b_open"
  PROVE  Dated' /\ Limits' /\ Steady /\ \A n \in Name : n # aside => dbs'[n] = dbs[n]
<1>1. SameDatabases /\ dbs'[aside].open /\ \A n \in Name : n # aside => dbs'[n] = dbs[n]
  BY InNames, OpenedSame
<1>2. \A n \in Before : Exists(n) => dbs'[n].open = dbs[n].open \/ dbs'[n].open
  BY <1>1 DEF Before
<1>3. minute <= minute' /\ snapshot'[2] <= minute' /\ aside'[2] <= minute'
  BY DEF Dated, Past, TypeOK
<1>4. Dated'
  BY <1>1, <1>2, <1>3, DatedKept
<1> QED BY <1>1, <1>3, <1>4, LimitsKept DEF Steady

LEMMA UndoOpens ==
  ASSUME OneFailure, Inv, Inv', UndoInv, Open("u_open", aside, "u_put")
  PROVE  UndoInv'
<1>1. /\ TypeOK /\ TypeOK' /\ pc = "u_open" /\ Dated /\ Limits
      /\ faults = 0 /\ Tagged /\ Copied /\ Latest = pre.container /\ ~Spent
      /\ ~Exists(Main) /\ aside[1] = "failed"
  BY NotSpent DEF Inv, UndoInv, AtUndoUpdate, Open
<1>2. Exists(aside)
  BY <1>1 DEF UndoInv, AtUndoUpdate
<1>3. /\ UNCHANGED <<tag, minute, snapshot, aside, pre, crashes, faults>>
      /\ dbs' = [dbs EXCEPT ![aside].open = TRUE] /\ pc' = "u_put"
  BY <1>1, <1>2, OpenDoes
<1>4. Dated' /\ Limits' /\ Steady
  BY <1>1, <1>2, <1>3, AsideOpened
<1>5. Tagged' /\ Copied' /\ ~Exists(Main)' /\ Latest' = pre'.container
  BY <1>1, <1>3, <1>4, SteadyStates DEF SameKeptImages, Latest
<1> QED BY <1>1, <1>3, <1>4, <1>5, Arrives
        DEF AtUpdate, AtUndoUpdate, AtRollback, AtUndoRollback

LEMMA UndoPutsBack ==
  ASSUME OneFailure, Inv, Inv', UndoInv, PutDatabaseBack("u_put", snapshot, "u_start", "u_start")
  PROVE  UndoInv'
<1>1. /\ TypeOK /\ TypeOK' /\ pc = "u_put" /\ Dated /\ Limits
      /\ faults = 0 /\ Tagged /\ Copied /\ Latest = pre.container /\ ~Spent /\ ~Exists(Main)
  BY NotSpent DEF Inv, UndoInv, AtUndoUpdate, PutDatabaseBack
<1>2. Exists(snapshot)
  BY <1>1 DEF Copied, Held, On
<1>3. /\ UNCHANGED <<tag, minute, snapshot, aside, pre, crashes, faults>>
      /\ dbs' = [dbs EXCEPT ![Main] = dbs[snapshot], ![snapshot] = None] /\ pc' = "u_start"
  BY <1>1, <1>2, PutDoes
<1>4. /\ Main \in Name /\ snapshot \in Name /\ snapshot # Main
      /\ Main \notin Before /\ Main[2] <= minute
  BY <1>1, InNames DEF Copied, Youngest, Main, TypeOK
<1>5. Dated' /\ Limits'
  BY <1>1, <1>2, <1>3, <1>4, DatedRenamed, LimitsKept
<1>6. dbs'[Main] = dbs[snapshot]
  BY <1>1, <1>3, <1>4, Renames
<1>7. Held(Main)' /\ Tagged' /\ Latest' = pre'.container
  BY <1>1, <1>3, <1>6 DEF Copied, Held, On, Exists, Tagged, Previous, Latest
<1> QED BY <1>1, <1>3, <1>5, <1>7, Arrives
        DEF AtUpdate, AtUndoUpdate, AtRollback, AtUndoRollback

LEMMA UndoStarts ==
  ASSUME OneFailure, Inv, Inv', UndoInv,
         Start("u_start", "u_check", "u_check") \/ LastCheck("u_check", "undone")
  PROVE  UndoInv'
<1>1. /\ TypeOK /\ TypeOK' /\ Dated /\ Limits /\ pc \in {"u_start", "u_check"}
      /\ faults = 0 /\ Tagged /\ Latest = pre.container /\ ~Spent /\ Held(Main)
  BY NotSpent DEF Inv, UndoInv, AtUndoUpdate, Start, LastCheck
<1>2. CASE Start("u_start", "u_check", "u_check")
  <2>1. On(Main, Latest)
    BY <1>1 DEF Held
  <2>2. /\ UNCHANGED <<tag, dbs, minute, snapshot, aside, pre, crashes, faults>>
        /\ container' = Latest /\ pc' = "u_check"
    BY <1>1, <1>2, <2>1, StartDoes, Zenon
  <2>3. Dated' /\ Limits' /\ Steady
    BY <1>1, <2>2, Untouched
  <2>4. Tagged' /\ Held(Main)' /\ Latest' = pre'.container /\ container' = Latest'
    BY <1>1, <2>2, <2>3, SteadyStates DEF SameKeptImages, Latest
  <2> QED BY <1>1, <2>2, <2>3, <2>4, Arrives
          DEF AtUpdate, AtUndoUpdate, AtRollback, AtUndoRollback
<1>3. CASE LastCheck("u_check", "undone")
  <2>1. /\ UNCHANGED <<tag, container, record, dbs, minute, snapshot, aside, pre, crashes, faults>>
        /\ pc = "u_check" /\ pc' = "idle" /\ last' = "undone"
    BY <1>1, <1>3, LastCheckDoes
  <2>2. container = Latest
    BY <2>1 DEF UndoInv, AtUndoUpdate
  <2>3. Dated' /\ Limits' /\ Steady
    BY <1>1, <2>1, Untouched
  <2>4. Held(Main)' /\ Tagged' /\ Latest' = pre'.container /\ container' = Latest'
    BY <1>1, <2>1, <2>2, <2>3, SteadyStates DEF SameKeptImages, Latest
  <2>5. InService'
    BY <2>4 DEF InService, Held, On, Exists, Latest
  <2>6. Point'
    BY <1>1, <2>4, PointImaged DEF Point, Tagged
  <2> QED BY <2>1, <2>3, <2>4, <2>5, <2>6, Arrives
          DEF AtRest, Paired, AtUpdate, AtUndoUpdate, AtRollback, AtUndoRollback
<1> QED BY <1>2, <1>3

-----------------------------------------------------------------------------
(* The steps of a rollback.                                                *)

LEMMA RollbackKeepsImage ==
  ASSUME OneFailure, Inv, Inv', UndoInv, Keep("r_keep", "rolled", "r_stop")
  PROVE  UndoInv'
<1> USE DEF Goto, Return, locals, ghosts, bounds, databases
<1>1. /\ TypeOK /\ TypeOK' /\ pc = "r_keep" /\ Dated /\ Limits
      /\ Chosen /\ Point /\ Fresh /\ Latest = pre.container /\ Unchanged /\ Prepared
  BY DEF Inv, UndoInv, AtRollback, Keep
<1>2. image = FirstRef /\ tag[image] = container /\ container \in Versions
      /\ container = pre.container
  BY <1>1, OneReference DEF Unchanged, Latest
<1>3. /\ UNCHANGED <<container, record, dbs, minute, snapshot, aside, pre, crashes>>
      /\ \/ tag' = [tag EXCEPT !["rolled"] = container] /\ pc' = "r_stop" /\ UNCHANGED faults
         \/ tag' = [tag EXCEPT !["rolled"] = container] /\ pc' = "r_stop" /\ Spent
         \/ tag' = tag /\ pc' = "idle" /\ last' = "refused" /\ Spent
  BY <1>2, FailsSpends, TagNames DEF Keep
<1>4. UNCHANGED faults \/ Spent
  BY <1>3
<1>5. Dated' /\ Limits' /\ Steady
  BY <1>1, <1>3, <1>4, Untouched
<1>6. Fresh' /\ Youngest'
  BY <1>1, <1>5, SteadyParts DEF Chosen
<1>7. CASE tag' = [tag EXCEPT !["rolled"] = container] /\ pc' = "r_stop"
  <2>1. tag'["previous"] = tag["previous"] /\ tag'[FirstRef] = tag[FirstRef]
        /\ tag'["rolled"] = container
    BY <1>1, <1>7, TagNames DEF TypeOK
  <2>2. RollingBackFrom' /\ Latest' = pre'.container
    BY <1>1, <1>2, <1>3, <1>6, <2>1 DEF RollingBackFrom, Chosen, Previous, Latest
  <2>3. Unchanged'
    BY <1>1, <1>3 DEF Unchanged, On, Exists
  <2>4. Prepared'
    BY <1>1, <1>3, <2>1 DEF Prepared, Current, On, Exists, Previous
  <2> QED BY <1>5, <1>6, <1>7, <2>2, <2>3, <2>4, Arrives
          DEF AtUpdate, AtUndoUpdate, AtRollback, AtUndoRollback
<1>8. CASE tag' = tag /\ pc' = "idle" /\ last' = "refused"
  <2>1. InService'
    BY <1>1, <1>3, <1>8 DEF Unchanged, InService, On, Exists, Latest
  <2>2. Point'
    BY <1>1, <1>5, <1>8, SteadyPoint DEF Steady
  <2> QED BY <1>5, <1>8, <2>1, <2>2, Arrives
          DEF AtRest, Paired, AtUpdate, AtUndoUpdate, AtRollback, AtUndoRollback
<1> QED BY <1>3, <1>7, <1>8

LEMMA RollbackStops ==
  ASSUME OneFailure, Inv, Inv', UndoInv, StopApp("r_stop", "r_image")
  PROVE  UndoInv'
<1>1. /\ TypeOK /\ TypeOK' /\ pc = "r_stop" /\ Dated /\ Limits
      /\ Fresh /\ Latest = pre.container /\ Unchanged /\ RollingBackFrom /\ Prepared
  BY DEF Inv, UndoInv, AtRollback, StopApp
<1>2. On(Main, Latest) /\ On(snapshot, Previous) /\ Youngest
  BY <1>1 DEF Unchanged, Prepared, RollingBackFrom, Chosen
<1>3. Up => container' = Latest /\ running' = TRUE /\ dbs' = dbs
  BY <1>1, <1>2, UpStarts
<1>4. /\ UNCHANGED <<tag, record, dbs, minute, snapshot, aside, crashes>>
      /\ \/ container' = container /\ pre' = [pre EXCEPT !.main = dbs[Main]] /\ pc' = "r_image"
            /\ UNCHANGED faults
         \/ container' = Latest /\ pre' = pre /\ pc' = "idle" /\ last' = "gaveup" /\ Spent
  BY <1>3, FailsSpends DEF StopApp, Goto, Return, locals, bounds
<1>5. UNCHANGED faults \/ Spent
  BY <1>4
<1>6. Dated' /\ Limits' /\ SameDatabases
  BY <1>1, <1>4, <1>5, Untouched
<1>7. CASE /\ container' = container /\ pre' = [pre EXCEPT !.main = dbs[Main]]
           /\ pc' = "r_image"
  <2>1. pre'.container = pre.container /\ pre'.main = dbs[Main]
    BY <1>1, <1>7 DEF TypeOK
  <2>2. RollingBackFrom' /\ Fresh'
    BY <1>1, <1>4, <2>1 DEF RollingBackFrom, Chosen, Youngest, Fresh, Exists, Previous
  <2>3. Prepared'
    BY <1>1, <1>4, <2>1 DEF Prepared, Current, On, Exists, Previous
  <2> QED BY <1>6, <1>7, <2>2, <2>3, Arrives
          DEF AtUpdate, AtUndoUpdate, AtRollback, AtUndoRollback
<1>8. CASE container' = Latest /\ pc' = "idle" /\ last' = "gaveup"
  <2>1. InService'
    BY <1>2, <1>4, <1>8 DEF InService, On, Exists, Latest
  <2>2. Point'
    BY <1>1, <1>2, <1>4, <1>6, PointHeld, SteadyPoint
  <2> QED BY <1>6, <1>8, <2>1, <2>2, Arrives
          DEF AtRest, Paired, AtUpdate, AtUndoUpdate, AtRollback, AtUndoRollback
<1> QED BY <1>4, <1>7, <1>8

LEMMA RollbackRetags ==
  ASSUME OneFailure, Inv, Inv', UndoInv, Retag("r_image", "previous", "r_close", "n_stop")
  PROVE  UndoInv'
<1>1. /\ TypeOK /\ TypeOK' /\ pc = "r_image" /\ Dated /\ Limits
      /\ Fresh /\ RollingBackFrom /\ Prepared
  BY DEF Inv, UndoInv, AtRollback, Retag
<1>2. tag["previous"] = Previous /\ tag["previous"] # None
  BY <1>1, TagNames DEF RollingBackFrom, Chosen, Previous
<1>3. /\ UNCHANGED <<dbs, minute, snapshot, aside, pre, crashes>> /\ SameKeptImages
      /\ \/ Latest' = Previous /\ pc' = "r_close" /\ UNCHANGED faults
         \/ pc' = "n_stop" /\ Spent
  BY <1>1, <1>2, RetagDoes
<1>4. UNCHANGED faults \/ Spent
  BY <1>3
<1>5. Dated' /\ Limits' /\ Steady /\ (Spent => faults' = 0)
  BY <1>1, <1>3, <1>4, Untouched, LimitsKept
<1>6. RollingBackFrom' /\ Prepared' /\ Fresh' /\ Chosen'
  BY <1>1, <1>3, <1>5, SteadyParts, SteadyStates DEF RollingBackFrom
<1>7. Previous' = Previous
  BY <1>3 DEF SameKeptImages, Previous
<1> QED BY <1>3, <1>5, <1>6, <1>7, Arrives
        DEF AtUpdate, AtUndoUpdate, AtRollback, AtUndoRollback

LEMMA RollbackCloses ==
  ASSUME OneFailure, Inv, Inv', UndoInv, Close("r_close", <<"rolled", minute>>, "r_aside", "r_probe")
  PROVE  UndoInv'
<1>1. /\ TypeOK /\ TypeOK' /\ pc = "r_close" /\ Dated /\ Limits
      /\ Fresh /\ RollingBackFrom /\ Prepared /\ Latest = Previous
  BY DEF Inv, UndoInv, AtRollback, Close
<1>2. Exists(Main)
  BY <1>1 DEF Prepared, Current, On
<1>3. /\ aside' = <<"rolled", minute>> /\ UNCHANGED <<tag, minute, snapshot, pre, crashes>>
      /\ \/ dbs' = [dbs EXCEPT ![Main].open = FALSE] /\ pc' = "r_aside" /\ UNCHANGED faults
         \/ dbs' = dbs /\ pc' = "r_probe" /\ Spent
  BY <1>1, <1>2, CloseDoes
<1>4. /\ aside'[1] = "rolled" /\ aside'[2] <= minute' /\ aside' \in Name /\ ~Exists(aside')
  BY <1>1, <1>3, FreshName
<1>5. Dated' /\ Limits' /\ Steady /\ (Spent => faults' = 0)
  <2>1. CASE dbs' = [dbs EXCEPT ![Main].open = FALSE] /\ UNCHANGED faults
    BY <1>1, <1>2, <1>3, <1>4, <2>1, MainOpened, LimitsKept
  <2>2. CASE dbs' = dbs /\ Spent
    <3>1. SameDatabases /\ minute <= minute' /\ snapshot'[2] <= minute'
      BY <1>1, <1>3, <2>2, SelfSame DEF Dated, Past, TypeOK
    <3>2. Dated'
      BY <1>1, <1>3, <1>4, <2>2, <3>1, DatedKept
    <3> QED BY <1>1, <1>3, <2>2, <3>1, <3>2, LimitsKept DEF Steady
  <2> QED BY <1>3, <2>1, <2>2
<1>6. RollingBackFrom' /\ Prepared' /\ Latest' = Previous'
  BY <1>1, <1>3, <1>5, SteadyStates DEF SameKeptImages, Latest, Previous
<1>7. ~Exists(aside)'
  BY <1>1, <1>4, <1>5, SteadyParts DEF Exists
<1> QED BY <1>3, <1>4, <1>5, <1>6, <1>7, Arrives
        DEF Undoing, AtUpdate, AtUndoUpdate, AtRollback, AtUndoRollback

LEMMA RollbackSetsAside ==
  ASSUME OneFailure, Inv, Inv', UndoInv, SetDatabaseAside("r_aside", aside, "r_open", "r_probe")
  PROVE  UndoInv'
<1>1. /\ TypeOK /\ TypeOK' /\ pc = "r_aside" /\ Dated /\ Limits
      /\ RollingBackFrom /\ Prepared /\ Latest = Previous
      /\ aside[1] = "rolled" /\ ~Exists(aside)
  BY DEF Inv, UndoInv, AtRollback, SetDatabaseAside
<1>2. Exists(Main) /\ aside[2] <= minute
  BY <1>1 DEF Prepared, Current, On, Dated, Past
<1>3. /\ UNCHANGED <<tag, minute, snapshot, aside, pre, crashes>>
      /\ \/ /\ dbs' = [dbs EXCEPT ![aside] = dbs[Main], ![Main] = None]
            /\ pc' = "r_open" /\ UNCHANGED faults
         \/ /\ \E o \in BOOLEAN : dbs' = [dbs EXCEPT ![Main].open = o]
            /\ pc' = "r_probe" /\ Spent
  BY <1>1, AsideDoes
<1>4. /\ Main \in Name /\ aside \in Name /\ snapshot \in Name /\ aside # Main
      /\ aside \notin Before /\ snapshot # aside /\ snapshot # Main
  BY <1>1, InNames DEF RollingBackFrom, Chosen, Youngest, Before, Main
<1>5. CASE /\ dbs' = [dbs EXCEPT ![aside] = dbs[Main], ![Main] = None]
           /\ pc' = "r_open" /\ UNCHANGED faults
  <2>1. Dated' /\ Limits'
    BY <1>1, <1>2, <1>3, <1>4, <1>5, DatedRenamed, LimitsKept
  <2>2. /\ dbs'[aside] = dbs[Main] /\ dbs'[Main] = None
        /\ \A n \in Name : n # Main /\ n # aside => dbs'[n] = dbs[n]
    BY <1>1, <1>4, <1>5, Renames
  <2>3. RollingBackFrom' /\ Latest' = Previous' /\ aside'[1] = "rolled"
    BY <1>1, <1>3, <1>4, <2>2
       DEF RollingBackFrom, Chosen, Youngest, Exists, Before, Previous, Latest
  <2>4. Renamed'
    BY <1>1, <1>3, <1>4, <2>2 DEF Prepared, Renamed, Current, On, Exists, Previous
  <2> QED BY <1>5, <2>1, <2>3, <2>4, Arrives
          DEF AtUpdate, AtUndoUpdate, AtRollback, AtUndoRollback
<1>6. CASE /\ \E o \in BOOLEAN : dbs' = [dbs EXCEPT ![Main].open = o]
           /\ pc' = "r_probe" /\ Spent
  <2>1. Dated' /\ Limits' /\ Steady /\ faults' = 0
    BY <1>1, <1>2, <1>3, <1>6, MainOpened, LimitsKept
  <2>2. RollingBackFrom' /\ Prepared' /\ ~Exists(aside)'
    BY <1>1, <1>3, <2>1, SteadyStates DEF SameKeptImages
  <2> QED BY <1>1, <1>3, <1>6, <2>1, <2>2, Arrives
          DEF Undoing, AtUpdate, AtUndoUpdate, AtRollback, AtUndoRollback
<1> QED BY <1>3, <1>5, <1>6

LEMMA RollbackOpens ==
  ASSUME OneFailure, Inv, Inv', UndoInv, Open("r_open", aside, "r_put")
  PROVE  UndoInv'
<1>1. /\ TypeOK /\ TypeOK' /\ pc = "r_open" /\ Dated /\ Limits
      /\ RollingBackFrom /\ Renamed /\ Latest = Previous /\ aside[1] = "rolled"
  BY DEF Inv, UndoInv, AtRollback, Open
<1>2. Exists(aside)
  BY <1>1 DEF Renamed, Current, On
<1>3. /\ UNCHANGED <<tag, minute, snapshot, aside, pre, crashes>> /\ pc' = "r_put"
      /\ \/ dbs' = [dbs EXCEPT ![aside].open = TRUE] /\ UNCHANGED faults
         \/ dbs' = dbs /\ Spent
  BY <1>2, OpenDoes
<1>4. Dated' /\ Limits' /\ Steady
  BY <1>1, <1>2, <1>3, AsideOpened, Untouched
<1>5. RollingBackFrom' /\ Renamed' /\ Latest' = Previous' /\ aside'[1] = "rolled"
  BY <1>1, <1>3, <1>4, SteadyStates DEF SameKeptImages, Latest, Previous
<1> QED BY <1>3, <1>4, <1>5, Arrives
        DEF AtUpdate, AtUndoUpdate, AtRollback, AtUndoRollback

LEMMA RollbackPuts ==
  ASSUME OneFailure, Inv, Inv', UndoInv, PutDatabaseBack("r_put", snapshot, "r_start", "r_probe")
  PROVE  UndoInv'
<1>1. /\ TypeOK /\ TypeOK' /\ pc = "r_put" /\ Dated /\ Limits
      /\ RollingBackFrom /\ Renamed /\ Latest = Previous /\ aside[1] = "rolled"
  BY DEF Inv, UndoInv, AtRollback, PutDatabaseBack
<1>2. Exists(snapshot) /\ ~Exists(Main)
  BY <1>1 DEF Renamed, On
<1>3. /\ UNCHANGED <<tag, minute, snapshot, aside, pre, crashes>>
      /\ \/ /\ dbs' = [dbs EXCEPT ![Main] = dbs[snapshot], ![snapshot] = None]
            /\ pc' = "r_start" /\ UNCHANGED faults
         \/ dbs' = dbs /\ pc' = "r_probe" /\ Spent
  BY <1>1, <1>2, PutDoes
<1>4. /\ Main \in Name /\ snapshot \in Name /\ snapshot # Main /\ aside \in Name
      /\ aside # Main /\ aside # snapshot /\ snapshot \in Before
      /\ Main \notin Before /\ Main[2] <= minute
  BY <1>1, InNames DEF RollingBackFrom, Chosen, Youngest, Before, Main, TypeOK
<1>5. CASE /\ dbs' = [dbs EXCEPT ![Main] = dbs[snapshot], ![snapshot] = None]
           /\ pc' = "r_start" /\ UNCHANGED faults
  <2>1. Dated' /\ Limits'
    BY <1>1, <1>2, <1>3, <1>4, <1>5, DatedRenamed, LimitsKept
  <2>2. /\ dbs'[Main] = dbs[snapshot] /\ dbs'[snapshot] = None
        /\ \A n \in Name : n # snapshot /\ n # Main => dbs'[n] = dbs[n]
    BY <1>1, <1>4, <1>5, Renames
  <2>3. RollingBackFrom' /\ Latest' = Previous' /\ aside'[1] = "rolled"
    BY <1>1, <1>3, <1>4, <2>2
       DEF RollingBackFrom, Chosen, Youngest, Exists, Before, Previous, Latest
  <2>4. Switched'
    BY <1>1, <1>3, <1>4, <2>2 DEF Renamed, Switched, Current, On, Exists, Previous
  <2>5. dbs'[Main].open
    BY <1>1, <1>2, <1>4, <2>2 DEF Dated, Past
  <2> QED BY <1>5, <2>1, <2>3, <2>4, <2>5, Arrives
          DEF AtUpdate, AtUndoUpdate, AtRollback, AtUndoRollback
<1>6. CASE dbs' = dbs /\ pc' = "r_probe" /\ Spent
  <2>1. Dated' /\ Limits' /\ Steady /\ faults' = 0
    BY <1>1, <1>3, <1>6, Untouched, LimitsKept
  <2>2. RollingBackFrom' /\ Renamed'
    BY <1>1, <1>3, <2>1, SteadyStates DEF SameKeptImages
  <2> QED BY <1>1, <1>3, <1>6, <2>1, <2>2, Arrives
          DEF Undoing, AtUpdate, AtUndoUpdate, AtRollback, AtUndoRollback
<1> QED BY <1>3, <1>5, <1>6

(* The copy is still there: what was renamed gets its name back.           *)
LEMMA RollbackProbes ==
  ASSUME OneFailure, Inv, Inv', UndoInv, Probe
  PROVE  UndoInv'
<1>1. /\ TypeOK /\ TypeOK' /\ pc = "r_probe" /\ Dated /\ Limits /\ Undoing
      /\ faults = 0 /\ ~Spent
      /\ (Prepared /\ ~Exists(aside)) \/ Renamed
  BY NotSpent DEF Inv, UndoInv, AtUndoRollback, Probe, Undoing
<1>2. Exists(snapshot) /\ ~Fails("r_probe")
  BY <1>1, FailsSpends DEF Prepared, Renamed, On
<1>3. /\ UNCHANGED <<tag, minute, snapshot, aside, pre, crashes, faults>>
      /\ pc' = "n_stop"
      /\ dbs' = IF ~Exists(Main) /\ Exists(aside)
                THEN [dbs EXCEPT ![Main] = dbs[aside], ![aside] = None] ELSE dbs
  <2>1. PICK seen, renamed \in BOOLEAN :
          /\ IF seen = Exists(snapshot) /\ renamed THEN UNCHANGED faults ELSE Fails("r_probe")
          /\ Goto(IF seen THEN "n_stop" ELSE "b_stop")
          /\ dbs' = IF seen /\ ~Exists(Main) /\ Exists(aside) /\ renamed
                    THEN [dbs EXCEPT ![Main] = dbs[aside], ![aside] = None]
                    ELSE dbs
    BY DEF Probe
  <2>2. seen /\ renamed /\ UNCHANGED faults
    BY <1>2, <2>1 DEF Exists
  <2>3. UNCHANGED <<stack, record, nextId, minute, image, snapshot, aside, ghosts, bounds>>
    BY DEF Probe
  <2> QED BY <2>1, <2>2, <2>3 DEF Goto, stack, ghosts, bounds
<1>4. CASE Prepared /\ ~Exists(aside)
  <2>1. dbs' = dbs
    BY <1>3, <1>4
  <2>2. Dated' /\ Limits' /\ Steady
    BY <1>1, <1>3, <2>1, Untouched
  <2>3. RollingBackFrom' /\ Chosen' /\ Prepared' /\ faults' = 0
    BY <1>1, <1>3, <1>4, <2>2, SteadyStates DEF SameKeptImages, Undoing, RollingBackFrom
  <2> QED BY <1>3, <2>2, <2>3, Arrives
          DEF AtUpdate, AtUndoUpdate, AtRollback, AtUndoRollback
<1>5. CASE Renamed
  <2>1. ~Exists(Main) /\ Exists(aside)
    BY <1>5 DEF Renamed, Current, On
  <2>2. dbs' = [dbs EXCEPT ![Main] = dbs[aside], ![aside] = None]
    BY <1>3, <2>1
  <2>3. /\ Main \in Name /\ aside \in Name /\ snapshot \in Name /\ aside # Main
        /\ aside \notin Before /\ snapshot \in Before /\ snapshot # aside /\ snapshot # Main
        /\ Main \notin Before /\ Main[2] <= minute
    BY <1>1, InNames DEF Undoing, RollingBackFrom, Chosen, Youngest, Before, Main, TypeOK
  <2>4. Dated' /\ Limits'
    BY <1>1, <1>3, <2>1, <2>2, <2>3, DatedRenamed, LimitsKept
  <2>5. /\ dbs'[Main] = dbs[aside] /\ dbs'[aside] = None
        /\ \A n \in Name : n # Main /\ n # aside => dbs'[n] = dbs[n]
    BY <1>1, <2>2, <2>3, Renames
  <2>6. RollingBackFrom'
    BY <1>1, <1>3, <2>3, <2>5
       DEF Undoing, RollingBackFrom, Chosen, Youngest, Exists, Before, Previous
  <2>7. Prepared'
    BY <1>3, <1>5, <2>3, <2>5 DEF Renamed, Prepared, Current, On, Exists, Previous
  <2>8. Chosen' /\ faults' = 0
    BY <1>1, <1>3, <2>6 DEF RollingBackFrom
  <2> QED BY <1>3, <2>4, <2>6, <2>7, <2>8, Arrives
          DEF AtUpdate, AtUndoUpdate, AtRollback, AtUndoRollback
<1> QED BY <1>1, <1>4, <1>5

LEMMA RollbackStarts ==
  ASSUME OneFailure, Inv, Inv', UndoInv, Start("r_start", "r_check", "b_stop")
  PROVE  UndoInv'
<1>1. /\ TypeOK /\ TypeOK' /\ pc = "r_start" /\ Dated /\ Limits
      /\ RollingBackFrom /\ Switched /\ dbs[Main].open
      /\ Latest = Previous /\ aside[1] = "rolled"
  BY DEF Inv, UndoInv, AtRollback, Start
<1>2. On(Main, Latest)
  BY <1>1 DEF Switched
<1>3. /\ UNCHANGED <<tag, dbs, minute, snapshot, aside, pre, crashes>>
      /\ \/ container' = Latest /\ running' = TRUE /\ pc' = "r_check" /\ UNCHANGED faults
         \/ container' \in {container, Latest} /\ pc' = "b_stop" /\ Spent
  BY <1>1, <1>2, StartDoes, Zenon
<1>4. UNCHANGED faults \/ Spent
  BY <1>3
<1>5. Dated' /\ Limits' /\ Steady /\ (Spent => faults' = 0)
  BY <1>1, <1>3, <1>4, Untouched, LimitsKept
<1>6. RollingBackFrom' /\ Switched' /\ Latest' = Previous' /\ aside'[1] = "rolled"
  BY <1>1, <1>3, <1>5, SteadyStates DEF SameKeptImages, Latest, Previous
<1>7. CASE container' = Latest /\ running' = TRUE /\ pc' = "r_check"
  <2>1. container' = Latest' /\ dbs'[Main].open /\ running'
    BY <1>1, <1>3, <1>7 DEF Latest
  <2> QED BY <1>5, <1>6, <1>7, <2>1, Arrives
          DEF AtUpdate, AtUndoUpdate, AtRollback, AtUndoRollback
<1>8. CASE pc' = "b_stop" /\ Spent
  BY <1>5, <1>6, <1>8, Arrives
     DEF Undoing, AtUpdate, AtUndoUpdate, AtRollback, AtUndoRollback
<1> QED BY <1>3, <1>7, <1>8, Zenon

LEMMA RollbackChecks ==
  ASSUME OneFailure, Inv, Inv', UndoInv, Check("r_check", "r_clean", "b_stop")
  PROVE  UndoInv'
<1>1. /\ TypeOK /\ TypeOK' /\ pc = "r_check" /\ Dated /\ Limits
      /\ RollingBackFrom /\ Switched /\ dbs[Main].open
      /\ Latest = Previous /\ aside[1] = "rolled" /\ container = Latest /\ running
  BY DEF Inv, UndoInv, AtRollback, Check
<1>2. Fits
  BY <1>1 DEF Switched, On, Fits, Usable
<1>3. /\ UNCHANGED <<tag, container, dbs, minute, snapshot, aside, pre, crashes>>
      /\ UNCHANGED faults \/ Spent
      /\ pc' = "r_clean" \/ (pc' = "b_stop" /\ Spent)
  BY <1>1, <1>2, CheckDoes
<1>4. Dated' /\ Limits' /\ Steady /\ (Spent => faults' = 0)
  BY <1>1, <1>3, Untouched, LimitsKept
<1>5. RollingBackFrom' /\ Switched' /\ Latest' = Previous' /\ aside'[1] = "rolled"
  BY <1>1, <1>3, <1>4, SteadyStates DEF SameKeptImages, Latest, Previous
<1>6. InService'
  BY <1>1, <1>3 DEF Switched, InService, On, Exists, Latest
<1> QED BY <1>3, <1>4, <1>5, <1>6, Arrives
        DEF Undoing, AtUpdate, AtUndoUpdate, AtRollback, AtUndoRollback

LEMMA RemoveTagsDoes ==
  ASSUME TypeOK, NEW at, NEW tags, tags \subseteq {"previous", "rolled"}, NEW then, NEW result,
         RemoveTags(at, tags, then, result)
  PROVE  /\ pc = at /\ pc' = then /\ last' = result
         /\ UNCHANGED <<container, record, dbs, minute, snapshot, aside, pre, crashes>>
         /\ Latest' = Latest /\ Previous' \in {None, Previous}
         /\ "previous" \notin tags => Previous' = Previous
         /\ UNCHANGED faults \/ Spent
<1>1. PICK gone \in SUBSET tags :
        /\ IF gone = tags THEN UNCHANGED faults ELSE Fails(at)
        /\ tag' = [t \in Tags |-> IF t \in gone THEN None ELSE tag[t]]
  BY DEF RemoveTags
<1>2. UNCHANGED faults \/ Spent
  BY <1>1, FailsSpends
<1>3. /\ tag'[FirstRef] = tag[FirstRef]
      /\ tag'["previous"] = IF "previous" \in gone THEN None ELSE tag["previous"]
  BY <1>1, TagNames
<1>4. /\ Latest' = Latest /\ Previous' \in {None, Previous}
      /\ "previous" \notin tags => Previous' = Previous
  BY <1>1, <1>3 DEF Latest, Previous
<1> QED BY <1>2, <1>4 DEF RemoveTags, databases, locals, bounds

(* After a rollback there is nothing to go back to, or to what it chose.   *)
LEMMA RollbackEnds ==
  ASSUME OneFailure, Inv, Inv', UndoInv,
         \/ RemoveTags("r_clean", {"previous", "rolled"}, "r_record", last)
         \/ WriteRecord("r_record", "rolledback")
  PROVE  UndoInv'
<1>1. TypeOK /\ TypeOK' /\ Dated /\ Limits
  BY DEF Inv, UndoInv
<1>2. CASE RemoveTags("r_clean", {"previous", "rolled"}, "r_record", last)
  <2>1. pc = "r_clean" /\ InService /\ Latest = Previous
    BY <1>2 DEF UndoInv, AtRollback, RemoveTags
  <2>2. /\ pc' = "r_record" /\ UNCHANGED <<container, dbs, minute, snapshot, aside, pre, crashes>>
        /\ Latest' = Latest /\ Previous' \in {None, Previous} /\ (UNCHANGED faults \/ Spent)
    BY <1>1, <1>2, RemoveTagsDoes
  <2>3. Dated' /\ Limits'
    BY <1>1, <2>1, <2>2, Untouched
  <2>4. InService' /\ Previous' \in {None, Latest'}
    BY <2>1, <2>2 DEF InService, On, Exists
  <2> QED BY <2>2, <2>3, <2>4, Arrives
          DEF AtUpdate, AtUndoUpdate, AtRollback, AtUndoRollback
<1>3. CASE WriteRecord("r_record", "rolledback")
  <2>1. pc = "r_record" /\ InService /\ Previous \in {None, Latest}
    BY <1>3 DEF UndoInv, AtRollback, WriteRecord
  <2>2. /\ UNCHANGED <<tag, container, dbs, minute, snapshot, aside, pre, crashes>>
        /\ pc' = "idle" /\ last' \in {"rolledback", "unrecorded"} /\ (UNCHANGED faults \/ Spent)
    BY <1>3, FailsSpends DEF WriteRecord, Return, stack, databases, locals, bounds
  <2>3. Dated' /\ Limits' /\ Steady
    BY <1>1, <2>1, <2>2, Untouched
  <2>4. InService'
    BY <1>1, <2>1, <2>2, <2>3, SteadyService
  <2>5. Point'
    BY <1>1, <2>1, <2>2, PointImaged DEF Point, Previous, Latest
  <2> QED BY <2>2, <2>3, <2>4, <2>5, Arrives
          DEF AtRest, Paired, AtUpdate, AtUndoUpdate, AtRollback, AtUndoRollback
<1> QED BY <1>2, <1>3

-----------------------------------------------------------------------------
(* The undo of a rollback.                                                 *)

(* The image alone is put back when the databases were not swapped.        *)
LEMMA UndoRollbackImage ==
  ASSUME OneFailure, Inv, Inv', UndoInv,
         StopAgain("n_stop", "n_image") \/ Retag("n_image", "rolled", "b_start", "b_start")
  PROVE  UndoInv'
<1>1. /\ TypeOK /\ TypeOK' /\ Dated /\ Limits /\ pc \in {"n_stop", "n_image"}
      /\ faults = 0 /\ ~Spent /\ RollingBackFrom /\ Prepared
  BY NotSpent DEF Inv, UndoInv, AtUndoRollback, StopAgain, Retag
<1>2. CASE StopAgain("n_stop", "n_image")
  <2>1. /\ UNCHANGED <<tag, dbs, minute, snapshot, aside, pre, crashes, faults>>
        /\ pc' = "n_image"
    BY <1>1, <1>2, StopAgainDoes
  <2>2. Dated' /\ Limits' /\ Steady
    BY <1>1, <2>1, Untouched
  <2>3. RollingBackFrom' /\ Chosen' /\ Prepared' /\ faults' = 0
    BY <1>1, <2>1, <2>2, SteadyStates DEF SameKeptImages, RollingBackFrom
  <2> QED BY <2>1, <2>2, <2>3, Arrives
          DEF AtUpdate, AtUndoUpdate, AtRollback, AtUndoRollback
<1>3. CASE Retag("n_image", "rolled", "b_start", "b_start")
  <2>1. tag["rolled"] = pre.container /\ tag["rolled"] # None
    BY <1>1, TagNames DEF RollingBackFrom, TypeOK
  <2>2. /\ UNCHANGED <<dbs, minute, snapshot, aside, pre, crashes, faults>>
        /\ SameKeptImages /\ Latest' = pre'.container /\ pc' = "b_start"
    BY <1>1, <1>3, <2>1, RetagDoes
  <2>3. Dated' /\ Limits' /\ Steady
    BY <1>1, <2>2, Untouched
  <2>4. Chosen' /\ Prepared' /\ faults' = 0
    BY <1>1, <2>2, <2>3, SteadyStates DEF RollingBackFrom
  <2> QED BY <2>2, <2>3, <2>4, Arrives
          DEF AtUpdate, AtUndoUpdate, AtRollback, AtUndoRollback
<1> QED BY <1>2, <1>3

LEMMA UndoRollbackStops ==
  ASSUME OneFailure, Inv, Inv', UndoInv,
         StopAgain("b_stop", "b_image") \/ Retag("b_image", "rolled", "b_close", "b_close")
  PROVE  UndoInv'
<1>1. /\ TypeOK /\ TypeOK' /\ Dated /\ Limits /\ pc \in {"b_stop", "b_image"}
      /\ Undoing /\ faults = 0 /\ ~Spent /\ RollingBackFrom /\ aside[1] = "rolled" /\ Switched
  BY NotSpent DEF Inv, UndoInv, AtUndoRollback, StopAgain, Retag, Undoing
<1>2. CASE StopAgain("b_stop", "b_image")
  <2>1. /\ UNCHANGED <<tag, dbs, minute, snapshot, aside, pre, crashes, faults>>
        /\ pc' = "b_image"
    BY <1>1, <1>2, StopAgainDoes
  <2>2. Dated' /\ Limits' /\ Steady
    BY <1>1, <2>1, Untouched
  <2>3. Undoing' /\ Switched'
    BY <1>1, <2>1, <2>2, SteadyStates DEF SameKeptImages, Undoing
  <2> QED BY <2>1, <2>2, <2>3, Arrives
          DEF AtUpdate, AtUndoUpdate, AtRollback, AtUndoRollback
<1>3. CASE Retag("b_image", "rolled", "b_close", "b_close")
  <2>1. tag["rolled"] = pre.container /\ tag["rolled"] # None
    BY <1>1, TagNames DEF RollingBackFrom, TypeOK
  <2>2. /\ UNCHANGED <<dbs, minute, snapshot, aside, pre, crashes, faults>>
        /\ SameKeptImages /\ Latest' = pre'.container /\ pc' = "b_close"
    BY <1>1, <1>3, <2>1, RetagDoes
  <2>3. Dated' /\ Limits' /\ Steady
    BY <1>1, <2>2, Untouched
  <2>4. Undoing' /\ Switched'
    BY <1>1, <2>2, <2>3, SteadyStates DEF Undoing
  <2> QED BY <2>2, <2>3, <2>4, Arrives
          DEF AtUpdate, AtUndoUpdate, AtRollback, AtUndoRollback
<1> QED BY <1>2, <1>3

LEMMA UndoRollbackCloses ==
  ASSUME OneFailure, Inv, Inv', UndoInv, Close("b_close", aside, "b_aside", "b_start")
  PROVE  UndoInv'
<1>1. /\ TypeOK /\ TypeOK' /\ pc = "b_close" /\ Dated /\ Limits /\ faults = 0 /\ ~Spent
      /\ RollingBackFrom /\ aside[1] = "rolled" /\ Switched /\ Latest = pre.container
  BY NotSpent DEF Inv, UndoInv, AtUndoRollback, Close, Undoing
<1>2. Exists(Main) /\ aside[2] <= minute
  BY <1>1 DEF Switched, On, Dated, Past
<1>3. /\ aside' = aside /\ UNCHANGED <<tag, minute, snapshot, pre, crashes>>
      /\ dbs' = [dbs EXCEPT ![Main].open = FALSE] /\ pc' = "b_aside" /\ UNCHANGED faults
  BY <1>1, <1>2, CloseDoes
<1>4. Dated' /\ Limits' /\ Steady
  BY <1>1, <1>2, <1>3, MainOpened
<1>5. Undoing' /\ Switched' /\ Latest' = pre'.container
  BY <1>1, <1>3, <1>4, SteadyStates DEF SameKeptImages, Undoing, Latest
<1> QED BY <1>3, <1>4, <1>5, Arrives
        DEF AtUpdate, AtUndoUpdate, AtRollback, AtUndoRollback

(* What the rollback put in use gets the copy's name again ... *)
LEMMA UndoRollbackSetsAside ==
  ASSUME OneFailure, Inv, Inv', UndoInv, SetDatabaseAside("b_aside", snapshot, "b_open", "b_start")
  PROVE  UndoInv'
<1>1. /\ TypeOK /\ TypeOK' /\ pc = "b_aside" /\ Dated /\ Limits /\ faults = 0 /\ ~Spent
      /\ RollingBackFrom /\ aside[1] = "rolled" /\ Switched /\ Latest = pre.container
  BY NotSpent DEF Inv, UndoInv, AtUndoRollback, SetDatabaseAside, Undoing
<1>2. Exists(Main) /\ ~Exists(snapshot) /\ snapshot[2] <= minute
  BY <1>1 DEF Switched, On, Dated, Past
<1>3. /\ UNCHANGED <<tag, minute, snapshot, aside, pre, crashes, faults>>
      /\ dbs' = [dbs EXCEPT ![snapshot] = dbs[Main], ![Main] = None] /\ pc' = "b_open"
  BY <1>1, <1>2, AsideDoes
<1>4. /\ Main \in Name /\ aside \in Name /\ snapshot \in Name /\ aside # Main
      /\ snapshot \in Before /\ snapshot # aside /\ snapshot # Main
  BY <1>1, InNames DEF RollingBackFrom, Chosen, Youngest, Before, Main
<1>5. Dated' /\ Limits'
  BY <1>1, <1>2, <1>3, <1>4, DatedRenamed, LimitsKept
<1>6. /\ dbs'[snapshot] = dbs[Main] /\ dbs'[Main] = None
      /\ \A n \in Name : n # Main /\ n # snapshot => dbs'[n] = dbs[n]
  BY <1>1, <1>3, <1>4, Renames
<1>7. Undoing' /\ Latest' = pre'.container
  <2>1. Youngest'
    <3>1. \A n \in Before : n[2] \in Nat /\ n \in Name
      BY DEF Before, Name
    <3>2. \A n \in Before : n # snapshot /\ dbs'[n] # None => n[2] <= snapshot[2]
      BY <1>1, <1>4, <1>6, <3>1 DEF RollingBackFrom, Chosen, Youngest, Exists
    <3>3. \A n \in Before : dbs'[n] # None => n[2] <= snapshot[2]
      BY <1>4, <3>1, <3>2
    <3> QED BY <1>3, <1>4, <3>3 DEF Youngest, Exists, Before
  <2> QED BY <1>1, <1>3, <2>1 DEF Undoing, RollingBackFrom, Chosen, Previous, Latest
<1>8. Renamed'
  BY <1>1, <1>3, <1>4, <1>6 DEF Switched, Renamed, Current, On, Exists, Previous
<1> QED BY <1>3, <1>5, <1>7, <1>8, Arrives
        DEF AtUpdate, AtUndoUpdate, AtRollback, AtUndoRollback

LEMMA UndoRollbackOpens ==
  ASSUME OneFailure, Inv, Inv', UndoInv, Open("b_open", snapshot, "b_put")
  PROVE  UndoInv'
<1>1. /\ TypeOK /\ TypeOK' /\ pc = "b_open" /\ Dated /\ Limits /\ faults = 0 /\ ~Spent
      /\ RollingBackFrom /\ aside[1] = "rolled" /\ Renamed /\ Latest = pre.container
  BY NotSpent DEF Inv, UndoInv, AtUndoRollback, Open, Undoing
<1>2. Exists(snapshot) /\ snapshot \in Name
  BY <1>1, InNames DEF Renamed, On
<1>3. /\ UNCHANGED <<tag, minute, snapshot, aside, pre, crashes, faults>>
      /\ dbs' = [dbs EXCEPT ![snapshot].open = TRUE] /\ pc' = "b_put"
  BY <1>1, <1>2, OpenDoes
<1>4. /\ SameDatabases /\ dbs'[snapshot].open
      /\ \A m \in Name : m # snapshot => dbs'[m] = dbs[m]
  BY <1>1, <1>2, <1>3, OpenedSame
<1>5. Steady /\ snapshot'[2] <= minute' /\ aside'[2] <= minute' /\ minute <= minute'
  BY <1>1, <1>3, <1>4 DEF Steady, Dated, Past, TypeOK
<1>6. \A n \in Before : dbs'[n].open = dbs[n].open \/ dbs'[n].open
  BY <1>4 DEF Before
<1>7. Dated' /\ Limits'
  BY <1>1, <1>3, <1>4, <1>5, <1>6, DatedKept, LimitsKept
<1>8. Undoing' /\ Renamed' /\ Latest' = pre'.container
  BY <1>1, <1>3, <1>5, SteadyStates DEF SameKeptImages, Undoing, Latest
<1> QED BY <1>3, <1>7, <1>8, Arrives
        DEF AtUpdate, AtUndoUpdate, AtRollback, AtUndoRollback

(* ... and what it had set aside is in use again. *)
LEMMA UndoRollbackPutsBack ==
  ASSUME OneFailure, Inv, Inv', UndoInv, PutDatabaseBack("b_put", aside, "b_start", "b_start")
  PROVE  UndoInv'
<1>1. /\ TypeOK /\ TypeOK' /\ pc = "b_put" /\ Dated /\ Limits /\ faults = 0 /\ ~Spent
      /\ RollingBackFrom /\ aside[1] = "rolled" /\ Renamed /\ Latest = pre.container
  BY NotSpent DEF Inv, UndoInv, AtUndoRollback, PutDatabaseBack, Undoing
<1>2. Exists(aside) /\ ~Exists(Main)
  BY <1>1 DEF Renamed, Current, On
<1>3. /\ UNCHANGED <<tag, minute, snapshot, aside, pre, crashes, faults>>
      /\ dbs' = [dbs EXCEPT ![Main] = dbs[aside], ![aside] = None] /\ pc' = "b_start"
  BY <1>1, <1>2, PutDoes
<1>4. /\ Main \in Name /\ aside \in Name /\ snapshot \in Name /\ aside # Main
      /\ snapshot \in Before /\ snapshot # aside /\ snapshot # Main
      /\ Main \notin Before /\ Main[2] <= minute
  BY <1>1, InNames DEF RollingBackFrom, Chosen, Youngest, Before, Main, TypeOK
<1>5. Dated' /\ Limits'
  BY <1>1, <1>2, <1>3, <1>4, DatedRenamed, LimitsKept
<1>6. /\ dbs'[Main] = dbs[aside] /\ dbs'[aside] = None
      /\ \A n \in Name : n # Main /\ n # aside => dbs'[n] = dbs[n]
  <2>1. TypeOK /\ aside \in Name /\ Main \in Name /\ aside # Main
    BY <1>1, <1>4
  <2> QED BY <1>3, <2>1, Renames
<1>7. Chosen' /\ Latest' = pre'.container /\ faults' = 0
  BY <1>1, <1>3, <1>4, <1>6
     DEF RollingBackFrom, Chosen, Youngest, Exists, Before, Previous, Latest
<1>8. Prepared'
  BY <1>3, <1>4, <1>1, <1>6 DEF Renamed, Prepared, Current, On, Exists, Previous
<1> QED BY <1>3, <1>5, <1>7, <1>8, Arrives
        DEF AtUpdate, AtUndoUpdate, AtRollback, AtUndoRollback

(* The image kept for the undo goes; the way back stays. *)
LEMMA UndoRollbackStarts ==
  ASSUME OneFailure, Inv, Inv', UndoInv,
         \/ Start("b_start", "b_check", "b_check")
         \/ Check("b_check", "b_clean", "b_clean")
         \/ RemoveTags("b_clean", {"rolled"}, "idle", "rollbackundone")
  PROVE  UndoInv'
<1>1. /\ TypeOK /\ TypeOK' /\ Dated /\ Limits /\ pc \in {"b_start", "b_check", "b_clean"}
      /\ faults = 0 /\ ~Spent /\ Chosen /\ Prepared /\ Latest = pre.container
  BY NotSpent DEF Inv, UndoInv, AtUndoRollback, Start, Check, RemoveTags
<1>2. CASE Start("b_start", "b_check", "b_check")
  <2>1. On(Main, Latest)
    BY <1>1 DEF Prepared, Current
  <2>2. /\ UNCHANGED <<tag, dbs, minute, snapshot, aside, pre, crashes, faults>>
        /\ container' = Latest /\ pc' = "b_check"
    BY <1>1, <1>2, <2>1, StartDoes, Zenon
  <2>3. Dated' /\ Limits' /\ Steady
    BY <1>1, <2>2, Untouched
  <2>4. Chosen' /\ Prepared' /\ Latest' = pre'.container /\ container' = Latest' /\ faults' = 0
    BY <1>1, <2>2, <2>3, SteadyStates DEF SameKeptImages, Latest
  <2> QED BY <2>2, <2>3, <2>4, Arrives
          DEF AtUpdate, AtUndoUpdate, AtRollback, AtUndoRollback
<1>3. CASE Check("b_check", "b_clean", "b_clean")
  <2>1. /\ UNCHANGED <<tag, container, dbs, minute, snapshot, aside, pre, crashes, faults>>
        /\ pc = "b_check" /\ pc' = "b_clean"
    BY <1>1, <1>3, CheckDoes
  <2>2. container = Latest
    BY <2>1 DEF UndoInv, AtUndoRollback
  <2>3. Dated' /\ Limits' /\ Steady
    BY <1>1, <2>1, Untouched
  <2>4. Chosen' /\ Prepared' /\ Latest' = pre'.container /\ container' = Latest' /\ faults' = 0
    BY <1>1, <2>1, <2>2, <2>3, SteadyStates DEF SameKeptImages, Latest
  <2> QED BY <2>1, <2>3, <2>4, Arrives
          DEF AtUpdate, AtUndoUpdate, AtRollback, AtUndoRollback
<1>4. CASE RemoveTags("b_clean", {"rolled"}, "idle", "rollbackundone")
  <2>1. /\ UNCHANGED <<container, dbs, minute, snapshot, aside, pre, crashes, faults>>
        /\ pc = "b_clean" /\ pc' = "idle" /\ last' = "rollbackundone"
        /\ Latest' = Latest /\ Previous' = Previous
    BY <1>1, <1>4, RemoveTagsDoes
  <2>2. container = Latest
    BY <2>1 DEF UndoInv, AtUndoRollback
  <2>3. Dated' /\ Limits' /\ Steady
    BY <1>1, <2>1, Untouched
  <2>4. Current(Main)' /\ Latest' = pre'.container /\ container' = Latest'
    BY <1>1, <2>1, <2>2 DEF Prepared, Current, On, Exists
  <2>5. InService'
    BY <2>4 DEF InService, Current, On, Exists, Latest
  <2>6. Point
    BY <1>1, PointHeld DEF Chosen, Prepared
  <2>7. Point'
    BY <1>1, <2>1, <2>3, <2>6, SteadyPoint DEF Steady, Previous, Latest
  <2> QED BY <2>1, <2>3, <2>4, <2>5, <2>7, Arrives
          DEF AtRest, Paired, AtUpdate, AtUndoUpdate, AtRollback, AtUndoRollback
<1> QED BY <1>2, <1>3, <1>4

-----------------------------------------------------------------------------
(* What happens around a job.                                              *)

(* Writes and the clock change nothing an undo relies on. *)
LEMMA Stays ==
  ASSUME OneFailure, TypeOK, TypeOK', UndoInv, SameDatabases, minute <= minute',
         \A n \in Name : dbs'[n].open = dbs[n].open,
         UNCHANGED <<tag, container, pc, snapshot, aside, faults, crashes, pre, last, unpaired>>,
         pc = "idle" \/ UNCHANGED running
  PROVE  UndoInv'
<1>1. Dated /\ Limits /\ AtUpdate /\ AtUndoUpdate /\ AtRollback /\ AtUndoRollback
  BY DEF UndoInv
<1>2. Steady /\ SameKeptImages /\ Latest' = Latest /\ Previous' = Previous
  BY DEF Steady, SameKeptImages, Latest, Previous
<1>3. Main \in Name /\ snapshot \in Name /\ aside \in Name
  BY InNames
<1>4. Dated'
  <2>1. snapshot'[2] <= minute' /\ aside'[2] <= minute'
    BY <1>1 DEF Dated, Past, TypeOK, Name
  <2>2. \A n \in Before : dbs'[n].open = dbs[n].open
    BY DEF Before
  <2> QED BY <1>1, <2>1, <2>2, DatedKept
<1>5. Limits'
  BY <1>1 DEF Limits
<1>6. /\ Tagged => Tagged'
      /\ Held(Main) => Held(Main)'
      /\ Exists(Main)' <=> Exists(Main)
      /\ Copied => Copied'
      /\ Undoable => Undoable'
      /\ ReadyToMigrate => ReadyToMigrate'
      /\ Chosen => Chosen'
      /\ RollingBackFrom => RollingBackFrom'
      /\ Prepared => Prepared'
      /\ Renamed => Renamed'
      /\ Switched => Switched'
      /\ Exists(aside)' <=> Exists(aside)
  BY <1>2, SteadyStates
<1>7. /\ InService => InService'
      /\ Unchanged => Unchanged'
      /\ Migrated => Migrated'
  BY <1>2, SteadyService
<1>8. /\ Current(Main) => Current(Main)'
      /\ Fresh => Fresh'
      /\ Youngest => Youngest'
  BY <1>2, <1>3, SteadyParts
<1>9. (Point => Point') /\ (Paired => Paired')
  BY <1>2, SteadyPoint, SteadyPaired DEF Latest, Previous
<1>10. /\ dbs'[Main].open = dbs[Main].open /\ (pc = "idle" \/ running' = running)
       /\ Asking => Asking'
       /\ Undoing => Undoing'
       /\ AtRest => AtRest'
  BY <1>2, <1>3, <1>6, <1>7, <1>8, <1>9 DEF Asking, Undoing, AtRest
<1>11. AtUpdate'
  BY <1>1, <1>2, <1>6, <1>7, <1>8, <1>9, <1>10 DEF AtUpdate
<1>12. AtUndoUpdate'
  BY <1>1, <1>2, <1>6 DEF AtUndoUpdate
<1>13. AtRollback'
  BY <1>1, <1>2, <1>6, <1>7, <1>8, <1>9, <1>10 DEF AtRollback
<1>14. AtUndoRollback'
  BY <1>1, <1>2, <1>6, <1>10 DEF AtUndoRollback
<1> QED BY <1>4, <1>5, <1>11, <1>12, <1>13, <1>14, Arrives

LEMMA WriteStays ==
  ASSUME OneFailure, Inv, Inv', UndoInv, Write
  PROVE  UndoInv'
<1>1. TypeOK /\ TypeOK' /\ Main \in Name /\ Exists(Main)
  BY InNames DEF Inv, Write, Usable
<1>2. /\ dbs' = [dbs EXCEPT ![Main].writes = @ \union {nextWrite}]
      /\ UNCHANGED <<stack, minute, pc, snapshot, aside, faults, crashes, pre, last, unpaired>>
  BY DEF Write, locals
<1>3. dbs[Main] \in Database
  BY <1>1 DEF TypeOK, Exists
<1>4. /\ dbs'[Main] = [dbs[Main] EXCEPT !.writes = @ \union {nextWrite}]
      /\ \A n \in Name : n # Main => dbs'[n] = dbs[n]
  BY <1>1, <1>2 DEF TypeOK
<1>5. /\ dbs'[Main].id = dbs[Main].id /\ dbs'[Main].schema = dbs[Main].schema
      /\ dbs[Main].writes \subseteq dbs'[Main].writes /\ dbs'[Main].open = dbs[Main].open
      /\ dbs'[Main] # None
  <2>1. nextWrite \in Nat
    BY <1>1 DEF TypeOK
  <2>2. dbs'[Main] \in Database
    BY <1>3, <1>4, <2>1 DEF Database
  <2> QED BY <1>3, <1>4, <2>2, Nothing DEF Database
<1>6. SameDatabases /\ \A n \in Name : dbs'[n].open = dbs[n].open
  BY <1>1, <1>4, <1>5 DEF SameDatabases, Same, Exists
<1>7. minute <= minute' /\ UNCHANGED <<tag, container, running>>
  BY <1>1, <1>2 DEF TypeOK, stack
<1> QED BY <1>1, <1>2, <1>6, <1>7, Stays

LEMMA TickStays ==
  ASSUME OneFailure, Inv, Inv', UndoInv, Tick
  PROVE  UndoInv'
<1>1. TypeOK /\ TypeOK'
  BY DEF Inv
<1>2. /\ UNCHANGED <<tag, container, running, dbs, pc, snapshot, aside, faults, crashes, pre, last, unpaired>>
      /\ minute <= minute'
  BY <1>1 DEF Tick, TypeOK, stack, databases, locals, ghosts, bounds
<1>3. SameDatabases /\ \A n \in Name : dbs'[n].open = dbs[n].open
  BY <1>1, <1>2, SelfSame
<1> QED BY <1>1, <1>2, <1>3, Stays

(* The operator starts and stops what is installed: the reference, the     *)
(* container and the schema agree, so compose up changes none of them.     *)
LEMMA OperatorStays ==
  ASSUME OneFailure, Inv, Inv', UndoInv, pc = "idle", ControlStart \/ ControlStop \/ Load \/ Reconfigure
  PROVE  UndoInv'
<1>1. /\ TypeOK /\ TypeOK' /\ InService /\ minute \in Nat
      /\ On(Main, Latest) /\ container = Latest
  BY DEF Inv, UndoInv, AtUpdate, AtRest, InService, TypeOK
<1>2. ~Load
  BY DEF OneFailure, Load
<1>3. ASSUME ControlStart \/ Reconfigure
      PROVE  container' = Latest /\ dbs' = dbs /\ last' = last
  <2>1. dbs' \in SelfUpgraded(Latest) /\ container' = Latest
    BY <1>1, <1>3, OneReference DEF ControlStart, Reconfigure, Up, Latest
  <2>2. SelfUpgraded(Latest) = {dbs}
    <3>1. dbs[Main].schema \notin {v \in Versions : v < Latest}
      BY <1>1, OneReference, TagNames DEF On
    <3> QED BY <3>1 DEF SelfUpgraded
  <2>3. last' = last
    BY <1>1, <1>3, <2>1 DEF ControlStart, Reconfigure
  <2> QED BY <2>1, <2>2, <2>3
<1>4. UNCHANGED <<tag, container, dbs, minute, pc, snapshot, aside, faults, crashes, pre, last>>
  BY <1>1, <1>2, <1>3
     DEF ControlStart, ControlStop, Reconfigure, locals, bounds, databases, ghosts
<1>5. UNCHANGED unpaired
  <2>1. CASE ControlStart \/ ControlStop
    <3>1. unpaired' = (unpaired \/ FALSE)
      BY <2>1 DEF ControlStart, ControlStop
    <3> QED BY <1>1, <3>1, Zenon DEF TypeOK
  <2>2. CASE Reconfigure
    BY <2>2 DEF Reconfigure, bounds
  <2> QED BY <1>2, <2>1, <2>2
<1>6. SameDatabases /\ \A n \in Name : dbs'[n].open = dbs[n].open
  BY <1>1, <1>4, SelfSame
<1> QED BY <1>1, <1>4, <1>5, <1>6, Stays

(* The operator removes a database that is not in use: the newest copy, and *)
(* the way back is gone, or another.                                       *)
LEMMA RemovalStays ==
  ASSUME OneFailure, Inv, Inv', UndoInv, pc = "idle", RemoveKept
  PROVE  UndoInv'
<1>1. TypeOK /\ TypeOK' /\ Dated /\ Limits /\ AtRest
  BY DEF Inv, UndoInv, AtUpdate
<1>2. PICK gone \in Name \ {Main} :
        /\ dbs' = [dbs EXCEPT ![gone] = None]
        /\ unpaired' = (unpaired \/ pc # "idle" \/ gone \in RollbackCopies)
  BY DEF RemoveKept
<1>3. UNCHANGED <<tag, container, record, minute, pc, snapshot, aside, faults, crashes, pre, last>>
  BY DEF RemoveKept, stack, locals
<1>4. \A n \in Name : dbs'[n] = IF n = gone THEN None ELSE dbs[n]
  BY <1>1, <1>2 DEF TypeOK
<1>5. dbs'[Main] = dbs[Main] /\ \A n \in Name : Exists(n)' => Exists(n) /\ dbs'[n] = dbs[n]
  BY <1>2, <1>4, Names DEF Exists
<1>6. Dated' /\ Limits'
  BY <1>1, <1>3, <1>5 DEF Dated, Past, Limits, Before
<1>7. ASSUME ~unpaired' PROVE Point'
  <2>1. ~unpaired /\ gone \notin RollbackCopies
    BY <1>2, <1>7, Zenon
  <2>2. Point
    BY <1>1, <2>1 DEF AtRest, Paired
  <2>3. PointImage' <=> PointImage
    BY <1>3 DEF PointImage
  <2>4. \A n \in Before : n \in Name /\ n[2] \in Nat
    BY DEF Before, Name
  <2>5. \A n \in Before : n \in OlderSnapshots(None)' <=> n # gone /\ n \in OlderSnapshots(None)
    BY <1>4, <2>4 DEF OlderSnapshots, Exists
  <2>6. ASSUME NEW s \in RollbackCopies' PROVE s \in RollbackCopies /\ dbs'[s] = dbs[s]
    <3>1. /\ s \in Before /\ s \in OlderSnapshots(None) /\ Exists(s)'
          /\ \A m \in OlderSnapshots(None) : m # gone => m[2] <= s[2]
      BY <2>5, <2>6 DEF RollbackCopies, Newest, OlderSnapshots
    <3>2. ASSUME gone \in OlderSnapshots(None) PROVE gone[2] <= s[2]
      <4>1. PICK m \in OlderSnapshots(None) : ~(m[2] <= gone[2])
        BY <2>1, <3>2 DEF RollbackCopies, Newest
      <4>2. m \in Before /\ gone \in Before
        BY <3>2 DEF OlderSnapshots
      <4>3. m # gone /\ m[2] <= s[2]
        BY <2>4, <3>1, <4>1, <4>2
      <4> QED BY <2>4, <3>1, <4>1, <4>2, <4>3
    <3>3. s \in RollbackCopies
      BY <3>1, <3>2 DEF RollbackCopies, Newest
    <3> QED BY <1>5, <2>4, <3>1, <3>3
  <2> QED BY <1>3, <2>2, <2>3, <2>6 DEF Point, Previous
<1>8. InService'
  BY <1>1, <1>3, <1>5 DEF AtRest, InService, On, Exists, Latest
<1>9. AtRest'
  BY <1>1, <1>3, <1>5, <1>7, <1>8 DEF AtRest, Paired, Held, Current, On, Exists, Latest
<1> QED BY <1>3, <1>6, <1>9, Arrives DEF AtUpdate, AtUndoUpdate, AtRollback, AtUndoRollback

(* A job begins in a minute of its own, from what is in service: left so   *)
(* by the last, or found so after the operator's hand in it.  And what a   *)
(* rollback chooses belongs to the image it goes back to.                  *)
LEMMA Begins ==
  ASSUME OneFailure, Inv, Inv', Bearings, ~disturbed => UndoInv, ~disturbed',
         BeginUpdate \/ BeginRollback
  PROVE  UndoInv'
<1>1. /\ TypeOK /\ TypeOK' /\ Dated /\ Limits /\ pc = "idle" /\ InService /\ Paired
      /\ BeginRollback => Point
  <2>1. TypeOK /\ TypeOK' /\ Past /\ Limits /\ pc = "idle"
    BY DEF Inv, Bearings, BeginUpdate, BeginRollback, Begin
  <2>2. (BeginRollback => ~unpaired) /\ (disturbed => InOrder /\ unpaired)
    BY Zenon DEF Bearings, BeginUpdate, BeginRollback, Begin
  <2>3. CASE disturbed
    <3>1. InOrder /\ unpaired /\ ~BeginRollback
      BY <2>2, <2>3, Zenon
    <3>2. Dated
      BY <2>1, <3>1 DEF InOrder, Dated
    <3>3. compose = FirstRef
      BY <2>1, OneReference
    <3>4. InService
      BY <3>1, <3>3 DEF InOrder, Fits, Usable, InService, On, Latest
    <3>5. Paired
      BY <3>1, Zenon DEF Paired
    <3> QED BY <2>1, <3>1, <3>2, <3>4, <3>5
  <2>4. CASE ~disturbed
    <3>1. Dated /\ InService /\ Paired
      BY <2>1, <2>4 DEF UndoInv, AtUpdate, AtRest
    <3>2. BeginRollback => Point
      BY <2>2, <3>1, Zenon DEF Paired
    <3> QED BY <2>1, <3>1, <3>2
  <2> QED BY <2>3, <2>4
<1>2. /\ minute' = minute + 1 /\ faults' = MaxFaults /\ minute \in Nat
      /\ pre' = [container |-> container, main |-> dbs[Main]]
      /\ UNCHANGED <<tag, container, record, dbs, aside, crashes>>
  BY <1>1 DEF OneFailure, BeginUpdate, BeginRollback, Begin, TypeOK, stack, databases
<1>3. Limits'
  BY <1>1, <1>2, DockerAssumption DEF OneFailure, Limits
<1>4. SameDatabases
  BY <1>1, <1>2, SelfSame
<1>5. \A n \in Name : n[2] \in Nat
  BY DEF Name
<1>6. Fresh'
  BY <1>1, <1>2, <1>5 DEF Dated, Past, Fresh, Exists
<1>7. InService' /\ container' = pre'.container
  BY <1>1, <1>2 DEF InService, On, Exists, Latest
<1>8. Paired' /\ (BeginRollback => Point')
  <2>1. UNCHANGED unpaired
    BY DEF BeginUpdate, BeginRollback, Begin
  <2> QED BY <1>1, <1>2, <1>4, <2>1, SteadyPoint, SteadyPaired
<1>9. aside'[2] <= minute'
  BY <1>1, <1>2, <1>5 DEF Dated, Past, TypeOK
<1>10. CASE BeginUpdate
  <2>1. pc' = "keep" /\ snapshot' = snapshot
    BY <1>10 DEF BeginUpdate, Goto
  <2>2. snapshot'[2] <= minute'
    BY <1>1, <1>2, <1>5, <2>1 DEF Dated, Past, TypeOK
  <2>3. Dated'
    BY <1>1, <1>2, <1>4, <1>9, <2>2, DatedKept
  <2> QED BY <1>3, <1>6, <1>7, <1>8, <2>1, <2>3, Arrives
          DEF AtUpdate, AtUndoUpdate, AtRollback, AtUndoRollback
<1>11. CASE BeginRollback
  <2>1. pc' = "r_keep" /\ PointImage /\ snapshot' \in RollbackCopies
    BY <1>11 DEF BeginRollback, Goto
  <2>2. /\ snapshot' \in Before /\ snapshot' \in Name /\ Exists(snapshot')
        /\ \A n \in Before : Exists(n) => n[2] <= snapshot'[2]
    <3>1. snapshot' \in Before /\ snapshot' \in Name /\ Exists(snapshot')
      BY <2>1 DEF RollbackCopies, Newest, OlderSnapshots, Before
    <3>2. ASSUME NEW n \in Before, Exists(n) PROVE n[2] <= snapshot'[2]
      <4>1. n \in OlderSnapshots(None)
        BY <3>2, DockerAssumption DEF OlderSnapshots, Before
      <4> QED BY <2>1, <4>1 DEF RollbackCopies, Newest
    <3> QED BY <3>1, <3>2
  <2>3. Dated'
    <3>1. snapshot'[2] <= minute /\ snapshot'[2] \in Nat
      BY <1>1, <1>5, <2>2 DEF Dated, Past
    <3> QED BY <1>1, <1>2, <1>4, <1>9, <3>1, DatedKept
  <2>4. Previous \in Versions /\ dbs[snapshot'].schema = Previous
    <3>1. Previous \in Versions
      BY <1>1, <2>1, OneReference, TagNames DEF TypeOK, Previous
    <3> QED BY <1>1, <1>11, <2>1, <3>1 DEF Point
  <2>5. Chosen'
    BY <1>2, <2>2, <2>4 DEF Chosen, Youngest, Exists, Previous
  <2>6. Latest' = pre'.container /\ Unchanged'
    BY <1>1, <1>2 DEF InService, Unchanged, On, Exists, Latest
  <2>7. Prepared'
    BY <1>1, <1>2, <2>2, <2>4 DEF InService, Prepared, Current, On, Exists, Previous
  <2> QED BY <1>3, <1>6, <1>8, <1>11, <2>1, <2>3, <2>5, <2>6, <2>7, Arrives
          DEF AtUpdate, AtUndoUpdate, AtRollback, AtUndoRollback
<1> QED BY <1>10, <1>11

-----------------------------------------------------------------------------
(* Whatever the operator does, names stay dated and failures are spent.    *)

(* A database gets no name but the job's, and the job none but of now. *)
Careful ==
  /\ \A n \in Name : Exists(n)' => Exists(n) \/ n \in {Main, snapshot, aside}
  /\ snapshot' \in {snapshot, <<"before", minute>>}
  /\ aside' \in {aside, <<"failed", minute>>, <<"rolled", minute>>}
  /\ UNCHANGED <<minute, crashes>> /\ (UNCHANGED faults \/ Spent)
  /\ disturbed' = disturbed /\ unpaired' \in {unpaired, disturbed}

LEMMA CarefulKeeps ==
  ASSUME Bearings, TypeOK, TypeOK', Careful
  PROVE  Bearings'
<1>1. minute \in Nat /\ Main[2] = 0 /\ Past /\ Limits
  BY DEF TypeOK, Bearings, Main
<1>2. \A n \in Name : Exists(n)' => n[2] <= minute
  BY <1>1 DEF Past, Careful
<1>3. snapshot'[2] <= minute' /\ aside'[2] <= minute'
  BY <1>1 DEF Past, Careful
<1>4. Limits'
  BY <1>1, LimitsKept DEF Careful
<1>5. disturbed' => unpaired'
  <2>1. disturbed' = disturbed /\ (unpaired' = unpaired \/ unpaired' = disturbed)
    BY DEF Careful
  <2>2. disturbed => unpaired
    BY DEF Bearings
  <2> QED BY <2>1, <2>2 DEF TypeOK
<1> QED BY <1>2, <1>3, <1>4, <1>5 DEF Bearings, Past, Careful

(* What is put in use, renamed, copied, let in or upgraded. *)
LEMMA CarefulDatabases ==
  ASSUME TypeOK
  PROVE  /\ \A n \in {Main, snapshot, aside} : \A d :
              \A m \in Name : [dbs EXCEPT ![n] = d][m] # None => Exists(m) \/ m \in {Main, snapshot, aside}
         /\ \A a, b \in {Main, snapshot, aside} : \A d :
              \A m \in Name : [dbs EXCEPT ![a] = d, ![b] = None][m] # None =>
                Exists(m) \/ m \in {Main, snapshot, aside}
  BY InNames DEF TypeOK, Exists

LEMMA CarefulCalls ==
  ASSUME TypeOK, NEW at, NEW then, NEW orElse, NEW result,
         NEW kept, NEW tags, NEW name \in {Main, snapshot, aside}
  PROVE  /\ Keep(at, kept, then) => Careful
         /\ StopApp(at, then) => Careful
         /\ StopAgain(at, then) => Careful
         /\ Start(at, then, orElse) => Careful
         /\ Check(at, then, orElse) => Careful
         /\ LastCheck(at, result) => Careful
         /\ Retag(at, kept, then, orElse) => Careful
         /\ RemoveTags(at, tags, then, result) => Careful
         /\ Open(at, name, then) => Careful
         /\ SetDatabaseAside(at, name, then, orElse) => Careful
         /\ PutDatabaseBack(at, name, then, orElse) => Careful
         /\ WriteRecord(at, result) => Careful
<1> USE DEF databases, locals, ghosts, bounds
<1>1. \A v : Fails(v) => Spent
  BY FailsSpends
<1>2. ASSUME Up PROVE \A n \in Name : Exists(n)' => Exists(n) \/ n \in {Main, snapshot, aside}
  <2>1. dbs' = dbs \/ dbs' = [dbs EXCEPT ![Main].schema = tag[compose]]
    BY <1>2 DEF Up, SelfUpgraded
  <2> QED BY <2>1, CarefulDatabases DEF Exists
<1>3. Keep(at, kept, then) => Careful
  BY <1>1 DEF Keep, Careful, Exists
<1>4. StopApp(at, then) => Careful
  BY <1>1, <1>2 DEF StopApp, Careful, Exists
<1>5. StopAgain(at, then) => Careful
  BY <1>1 DEF StopAgain, Careful, Exists
<1>6. Start(at, then, orElse) => Careful
  BY <1>1, <1>2 DEF Start, Careful, Exists
<1>7. Check(at, then, orElse) => Careful
  BY CheckSpends DEF Check, Careful, Exists
<1>8. LastCheck(at, result) => Careful
  BY CheckSpends DEF LastCheck, Careful, Exists
<1>9. Retag(at, kept, then, orElse) => Careful
  BY <1>1 DEF Retag, Careful, Exists
<1>10. RemoveTags(at, tags, then, result) => Careful
  BY <1>1 DEF RemoveTags, Careful, Exists
<1>11. Open(at, name, then) => Careful
  BY <1>1, CarefulDatabases DEF Open, Careful, Exists
<1>12. ASSUME SetDatabaseAside(at, name, then, orElse) PROVE Careful
  <2>1. \/ dbs' = [dbs EXCEPT ![name] = dbs[Main], ![Main] = None]
        \/ \E o \in BOOLEAN : dbs' = [dbs EXCEPT ![Main].open = o]
    BY <1>12, LetInAgain DEF SetDatabaseAside
  <2>2. \A n \in Name : n \notin {Main, snapshot, aside} => dbs'[n] = dbs[n]
    BY <2>1, InNames DEF TypeOK
  <2> QED BY <1>1, <1>12, <2>2 DEF SetDatabaseAside, Careful, Exists
<1>13. PutDatabaseBack(at, name, then, orElse) => Careful
  BY <1>1, CarefulDatabases DEF PutDatabaseBack, Careful, Exists
<1>14. WriteRecord(at, result) => Careful
  BY <1>1 DEF WriteRecord, Careful, Exists
<1> QED BY <1>3, <1>4, <1>5, <1>6, <1>7, <1>8, <1>9, <1>10, <1>11, <1>12, <1>13, <1>14

LEMMA CarefulClose ==
  ASSUME TypeOK, NEW at, NEW then, NEW orElse,
         NEW name \in {aside, <<"failed", minute>>, <<"rolled", minute>>},
         Close(at, name, then, orElse)
  PROVE  Careful
<1>1. dbs' = dbs \/ dbs' = [dbs EXCEPT ![Main].open = FALSE]
  BY DEF Close
<1>2. \A n \in Name : Exists(n)' => Exists(n) \/ n \in {Main, snapshot, aside}
  BY <1>1, CarefulDatabases DEF Exists
<1> QED BY <1>2, FailsSpends DEF Close, Careful, ghosts, bounds

LEMMA CarefulSteps ==
  ASSUME TypeOK, SafeUpdateStep \/ UndoUpdateStep \/ RollbackStep \/ UndoRollbackStep
  PROVE  Careful
<1> USE DEF databases, locals, ghosts, bounds
<1>1. CASE Pull \/ DryRun
  BY <1>1 DEF Pull, DryRun, Careful, Exists
<1>2. CASE CopyDatabase
  BY <1>2, CarefulDatabases, FailsSpends DEF CopyDatabase, Reopened, Careful, Exists
<1>3. CASE RunUpgrade
  BY <1>3, CarefulDatabases, FailsSpends DEF RunUpgrade, Careful, Exists
<1>4. CASE DropOlder
  BY <1>4, FailsSpends DEF DropOlder, Careful, Exists
<1>5. CASE Probe
  BY <1>5, CarefulDatabases, FailsSpends DEF Probe, Careful, Exists
<1>6. CASE SafeUpdateStep
  BY <1>1, <1>2, <1>3, <1>4, <1>6, CarefulCalls, CarefulClose DEF SafeUpdateStep
<1>7. CASE UndoUpdateStep
  BY <1>7, CarefulCalls, CarefulClose DEF UndoUpdateStep
<1>8. CASE RollbackStep
  BY <1>5, <1>8, CarefulCalls, CarefulClose DEF RollbackStep
<1>9. CASE UndoRollbackStep
  BY <1>9, CarefulCalls, CarefulClose DEF UndoRollbackStep
<1> QED BY <1>6, <1>7, <1>8, <1>9

LEMMA BearingsKept ==
  ASSUME OneFailure, Inv, Inv', Bearings, [Next]_vars
  PROVE  Bearings'
<1>1. TypeOK /\ TypeOK' /\ Past /\ Limits /\ minute \in Nat /\ \A n \in Name : n[2] \in Nat
  BY DEF Inv, TypeOK, Bearings, Name
<1>2. CASE SafeUpdateStep \/ UndoUpdateStep \/ RollbackStep \/ UndoRollbackStep
  BY <1>1, <1>2, CarefulKeeps, CarefulSteps
<1>3. ASSUME UNCHANGED <<snapshot, aside, faults, crashes>>, minute <= minute',
             \A n \in Name : Exists(n)' => Exists(n)
      PROVE  Past' /\ Limits'
  BY <1>1, <1>3 DEF TypeOK, Past, Limits
<1>4. CASE BeginUpdate \/ BeginRollback
  <2>1. /\ minute' = minute + 1 /\ faults' = MaxFaults
        /\ UNCHANGED <<dbs, aside, crashes>>
        /\ snapshot' = snapshot \/ (snapshot' \in Name /\ Exists(snapshot'))
    BY <1>4 DEF OneFailure, BeginUpdate, BeginRollback, Begin, databases, RollbackCopies, Newest,
                OlderSnapshots, Before
  <2>2. Past'
    BY <1>1, <2>1 DEF TypeOK, Past, Exists
  <2>3. Limits'
    BY <1>1, <2>1, DockerAssumption DEF OneFailure, Limits
  <2>4. disturbed' => unpaired'
    BY <1>4, Zenon DEF Bearings, BeginUpdate, BeginRollback, Begin
  <2> QED BY <2>2, <2>3, <2>4 DEF Bearings
<1>5. CASE ControlStart \/ ControlStop \/ RemoveKept
  <2>1. \A n \in Name : Exists(n)' => Exists(n)
    <3>1. CASE ControlStart
      <4>1. dbs' = dbs \/ (Exists(Main) /\ dbs' = [dbs EXCEPT ![Main].schema = tag[compose]])
        BY <3>1 DEF ControlStart, Up, SelfUpgraded, Usable
      <4> QED BY <1>1, <4>1, InNames DEF TypeOK, Exists
    <3>2. CASE ControlStop \/ RemoveKept
      BY <1>1, <3>2 DEF ControlStop, RemoveKept, databases, TypeOK, Exists
    <3> QED BY <1>5, <3>1, <3>2
  <2>2. UNCHANGED <<snapshot, aside, faults, crashes, minute>>
    BY <1>5 DEF ControlStart, ControlStop, RemoveKept, locals
  <2>3. \E b \in BOOLEAN : /\ disturbed' = (disturbed \/ pc # "idle")
                           /\ unpaired' = (unpaired \/ pc # "idle" \/ b)
    <3>1. CASE ControlStart \/ ControlStop
      <4>1. unpaired' = (unpaired \/ pc # "idle" \/ FALSE)
        BY <3>1, Zenon DEF ControlStart, ControlStop
      <4> QED BY <3>1, <4>1, Zenon DEF ControlStart, ControlStop, Meddle
    <3>2. CASE RemoveKept
      <4>1. PICK n : unpaired' = (unpaired \/ pc # "idle" \/ n \in RollbackCopies)
        BY <3>2 DEF RemoveKept
      <4>2. (n \in RollbackCopies) \in BOOLEAN
        OBVIOUS
      <4> QED BY <3>2, <4>1, <4>2, Zenon DEF RemoveKept, Meddle
    <3> QED BY <1>5, <3>1, <3>2
  <2>4. disturbed' => unpaired'
    BY <2>3, Zenon DEF Bearings
  <2> QED BY <1>1, <1>3, <2>1, <2>2, <2>4 DEF Bearings
<1>6. CASE Reconfigure
  <2>1. dbs' = dbs \/ (Exists(Main) /\ dbs' = [dbs EXCEPT ![Main].schema = tag[record.image]])
    BY <1>6 DEF Reconfigure, SelfUpgraded, Usable
  <2>2. \A n \in Name : Exists(n)' => Exists(n)
    BY <1>1, <2>1, InNames DEF TypeOK, Exists
  <2>3. UNCHANGED <<snapshot, aside, faults, crashes, minute, disturbed, unpaired>>
    BY <1>6 DEF Reconfigure, locals, bounds
  <2>4. disturbed' => unpaired'
    BY <2>3, Zenon DEF Bearings
  <2> QED BY <1>1, <1>3, <2>2, <2>3, <2>4 DEF Bearings
<1>7. CASE Write \/ Tick \/ UNCHANGED vars
  <2>1. \A n \in Name : Exists(n)' => Exists(n)
    BY <1>1, <1>7 DEF Write, Usable, Tick, vars, databases, TypeOK, Exists
  <2>2. UNCHANGED <<snapshot, aside, faults, crashes, disturbed, unpaired>> /\ minute <= minute'
    BY <1>1, <1>7 DEF Write, Tick, vars, locals, bounds
  <2>3. disturbed' => unpaired'
    BY <2>2, Zenon DEF Bearings
  <2> QED BY <1>1, <1>3, <2>1, <2>2, <2>3 DEF Bearings
<1>8. ~Load /\ ~Crash
  BY <1>1 DEF OneFailure, Load, Crash, TypeOK, Limits
<1> QED BY <1>2, <1>4, <1>5, <1>6, <1>7, <1>8 DEF Next

-----------------------------------------------------------------------------
(* Every step keeps it.                                                    *)

(* Only a job that begins is free of what the operator did before. *)
LEMMA StaysDisturbed ==
  ASSUME TypeOK, disturbed, [Next]_vars, ~BeginUpdate, ~BeginRollback
  PROVE  disturbed'
<1>1. CASE SafeUpdateStep \/ UndoUpdateStep \/ RollbackStep \/ UndoRollbackStep
  BY <1>1, CarefulSteps DEF Careful
<1>2. CASE ControlStart \/ ControlStop \/ RemoveKept
  BY <1>2, Zenon DEF ControlStart, ControlStop, RemoveKept, Meddle
<1>3. CASE Tick \/ Load \/ Reconfigure \/ Write \/ Crash \/ UNCHANGED vars
  BY <1>3 DEF Tick, Load, Reconfigure, Write, Crash, vars, bounds
<1> QED BY <1>1, <1>2, <1>3 DEF Next

LEMMA UndoStep ==
  ASSUME OneFailure, Inv, Inv', UndoInv, [Next]_vars, ~BeginUpdate, ~BeginRollback, ~disturbed'
  PROVE  UndoInv'
<1>1. CASE UNCHANGED vars
  <2>1. /\ TypeOK /\ TypeOK'
        /\ UNCHANGED <<tag, container, running, dbs, minute, pc, snapshot, aside, faults, crashes,
                       pre, last, unpaired>>
    BY <1>1 DEF Inv, vars, stack, databases, locals, ghosts, bounds
  <2>2. SameDatabases /\ minute <= minute' /\ \A n \in Name : dbs'[n].open = dbs[n].open
    BY <2>1, SelfSame DEF TypeOK
  <2> QED BY <2>1, <2>2, Stays
<1>2. CASE SafeUpdateStep
  BY <1>2, UpdateKeeps, UpdatePulls, UpdateStops, UpdateTries, UpdateRefused, UpdateCloses,
     UpdateCopies, UpdateOpens, UpdateMigrates, UpdateStarts, UpdateChecks, UpdatePrunes,
     UpdateRecords
     DEF SafeUpdateStep
<1>3. CASE UndoUpdateStep
  BY <1>3, UndoStops, UndoCloses, UndoSetsAside, UndoOpens, UndoPutsBack, UndoStarts
     DEF UndoUpdateStep
<1>4. CASE RollbackStep
  BY <1>4, RollbackKeepsImage, RollbackStops, RollbackRetags, RollbackCloses, RollbackSetsAside,
     RollbackOpens, RollbackPuts, RollbackProbes, RollbackStarts, RollbackChecks, RollbackEnds
     DEF RollbackStep
<1>5. CASE UndoRollbackStep
  BY <1>5, UndoRollbackImage, UndoRollbackStops, UndoRollbackCloses, UndoRollbackSetsAside,
     UndoRollbackOpens, UndoRollbackPutsBack, UndoRollbackStarts
     DEF UndoRollbackStep
<1>6. CASE ControlStart \/ ControlStop \/ RemoveKept
  <2>1. pc = "idle"
    BY <1>6, Zenon DEF ControlStart, ControlStop, RemoveKept, Meddle
  <2> QED BY <1>6, <2>1, OperatorStays, RemovalStays
<1>7. CASE Load \/ Reconfigure
  <2>1. pc = "idle"
    BY <1>7 DEF Load, Reconfigure
  <2> QED BY <1>7, <2>1, OperatorStays
<1>8. ~Crash
  BY DEF OneFailure, Inv, TypeOK, Crash, UndoInv, Limits
<1> QED BY <1>1, <1>2, <1>3, <1>4, <1>5, <1>6, <1>7, <1>8, WriteStays, TickStays DEF Next

LEMMA UndoAlways == ASSUME OneFailure PROVE Spec => [](Bearings /\ (~disturbed => UndoInv))
<1>1. Init => Bearings /\ UndoInv
  <2> SUFFICES ASSUME Init PROVE Bearings /\ UndoInv
    OBVIOUS
  <2>1. Main \in Name /\ Main \notin Before /\ Main[2] = 0 /\ Installed \in Versions
    BY Names, DockerAssumption DEF Main
  <2>2. /\ \A n \in Name : Exists(n) => n = Main
        /\ Exists(Main) /\ dbs[Main].schema = Installed
    <3>1. /\ dbs[Main] = [id |-> 0, schema |-> Installed, writes |-> {}, open |-> TRUE]
          /\ \A n \in Name : n # Main => dbs[n] = None
      BY <2>1 DEF Init
    <3>2. dbs[Main] \in Database
      BY <2>1, <3>1 DEF Database
    <3>3. dbs[Main] # None
      BY <3>2, Nothing
    <3>4. dbs[Main].schema = Installed
      BY <3>1
    <3> QED BY <3>1, <3>3, <3>4 DEF Exists
  <2>3. Dated /\ Limits
    <3>1. \A n \in Before : ~Exists(n)
      BY <2>1, <2>2 DEF Before
    <3>2. /\ minute = 0 /\ snapshot = Main /\ aside = Main /\ faults = 0 /\ crashes = 0
      BY DEF Init
    <3> QED BY <2>1, <2>2, <3>1, <3>2 DEF Dated, Past, Limits
  <2>4. Latest = Installed /\ Previous = None /\ record.image = FirstRef
    BY TagNames DEF Init, Latest, Previous
  <2>5. InService /\ Point
    BY <2>1, <2>2, <2>4 DEF Init, InService, Point, PointImage, On, Previous
  <2> QED BY <2>3, <2>5
          DEF Init, Bearings, Dated, UndoInv, AtRest, Paired, AtUpdate, AtUndoUpdate, AtRollback, AtUndoRollback
<1>2. ASSUME Inv, Inv', Bearings, ~disturbed => UndoInv, [Next]_vars
      PROVE  Bearings' /\ (~disturbed' => UndoInv')
  <2>1. Bearings'
    BY <1>2, BearingsKept
  <2>2. ASSUME ~disturbed' PROVE UndoInv'
    <3>1. CASE BeginUpdate \/ BeginRollback
      BY <1>2, <2>2, <3>1, Begins
    <3>2. CASE ~BeginUpdate /\ ~BeginRollback
      <4>1. ~disturbed
        BY <1>2, <2>2, <3>2, StaysDisturbed DEF Inv
      <4> QED BY <1>2, <2>2, <3>2, <4>1, UndoStep
    <3> QED BY <3>1, <3>2
  <2> QED BY <2>1, <2>2
<1> QED BY <1>1, <1>2, InvAlways, PTL DEF Spec

(* An update that met one failure after it had copied the database leaves  *)
(* the version that ran before, by container and by tag, on a database of  *)
(* that version with every write from before; if the operator kept out of  *)
(* it, whatever he started, stopped and removed between the jobs.          *)
THEOREM FailedUpdateIsUndone == ASSUME OneFailure PROVE Spec => []FailedUpdateUndone
<1>1. Inv /\ (~disturbed => UndoInv) => FailedUpdateUndone
  <2> SUFFICES ASSUME Inv, UndoInv, last = "undone", pc = "idle"
               PROVE  /\ container = pre.container /\ tag[record.image] = pre.container
                      /\ Exists(Main) /\ dbs[Main].schema = pre.main.schema
                      /\ pre.main.writes \subseteq dbs[Main].writes
    BY DEF FailedUpdateUndone
  <2>1. record.image = FirstRef
    BY OneReference DEF Inv
  <2>2. InService /\ Latest = pre.container /\ Held(Main)
    BY DEF UndoInv, AtUpdate, AtRest
  <2> QED BY <2>1, <2>2 DEF InService, Held, On, Latest
<1> QED BY <1>1, InvAlways, UndoAlways, PTL

(* A rollback that met one failure after it had moved the image back puts  *)
(* "the current image and database" back: the version that ran before, by  *)
(* container and by tag, on the very database it ran on; if the operator   *)
(* kept out of it and of the update it goes back behind.                   *)
THEOREM FailedRollbackIsUndone == ASSUME OneFailure PROVE Spec => []FailedRollbackUndone
<1>1. Inv /\ (~disturbed => UndoInv) => FailedRollbackUndone
  <2> SUFFICES ASSUME Inv, UndoInv, last = "rollbackundone", pc = "idle"
               PROVE  /\ container = pre.container /\ tag[record.image] = pre.container
                      /\ Exists(Main) /\ dbs[Main].id = pre.main.id
    BY DEF FailedRollbackUndone
  <2>1. record.image = FirstRef
    BY OneReference DEF Inv
  <2>2. InService /\ Latest = pre.container /\ Current(Main)
    BY DEF UndoInv, AtUpdate, AtRest
  <2> QED BY <2>1, <2>2 DEF InService, Current, On, Latest
<1> QED BY <1>1, InvAlways, UndoAlways, PTL

(* Whenever no job runs, what rollback would put back belongs together,    *)
(* the image :spm-previous names and a database with its schema: after any *)
(* jobs, starts, stops and removals, and after jobs the operator meddled   *)
(* with again from the next update he does not; until he removes the       *)
(* newest copy, which belongs to the image, with an older one still there. *)
THEOREM RollbackPointIsCoherent == ASSUME OneFailure PROVE Spec => []RollbackPointCoherent
<1>1. Bearings /\ (~disturbed => UndoInv) => RollbackPointCoherent
  <2> SUFFICES ASSUME Bearings, ~disturbed => UndoInv, pc = "idle", PointImage, ~unpaired
               PROVE  \A n \in RollbackCopies : dbs[n].schema = tag["previous"]
    BY Zenon DEF RollbackPointCoherent
  <2>1. ~disturbed
    BY Zenon DEF Bearings
  <2> QED BY <2>1 DEF UndoInv, AtUpdate, AtRest, Paired, Point, Previous
<1> QED BY <1>1, UndoAlways, PTL

-----------------------------------------------------------------------------
(* DockerUpdate implements DatabaseVault, when a job fails at most once:   *)
(* names apart, what the jobs do to the databases the vault allows.        *)
(*                                                                         *)
(* Renames and letting connections in or not are no steps of the vault     *)
(* (Silent).  Starting the stack is none either, because the image and the *)
(* database agree wherever that happens (InService and its like); unless   *)
(* the operator meddles, when the image may upgrade the database as it     *)
(* starts (Upgraded).  The copy, the migration, the dropping of older      *)
(* copies, a removal and a write are one step each.  That the schema       *)
(* changes only while an exact copy is there needs SENTIENT to be down     *)
(* from its stop to the migration (VaultInv).                              *)

(* What the vault holds: the databases without their names. *)
Contents(d) == {Content(d[n]) : n \in {m \in Name : d[m] # None}}

(* No two databases are the same, and neither the next copy nor the next   *)
(* write is there already.                                                 *)
Distinct(d, id, w) ==
  /\ \A n \in Name : d[n] # None => d[n].id < id /\ \A v \in d[n].writes : v < w
  /\ \A m, n \in Name : d[m] # None /\ d[n] # None /\ d[m].id = d[n].id => m = n

Exact(d, s) ==
  /\ d[Main] # None /\ d[s] # None
  /\ d[s].schema = d[Main].schema /\ d[s].writes = d[Main].writes
Stopped == {"dryrun", "close", "copy", "open", "upgrade"}
VaultInv ==
  /\ Distinct(dbs, nextId, nextWrite)
  /\ ~disturbed => /\ pc \in Stopped => ~running
                   /\ pc \in {"open", "upgrade"} => Exact(dbs, snapshot)

SameContents ==
  \A n \in Name :
    /\ dbs'[n] # None <=> dbs[n] # None
    /\ dbs[n] # None => Content(dbs'[n]) = Content(dbs[n])
Moved(from, to) ==
  /\ dbs[from] # None /\ dbs[to] = None
  /\ dbs' = [dbs EXCEPT ![to] = dbs[from], ![from] = None]
Silent ==
  /\ UNCHANGED <<acked, nextId, nextWrite>>
  /\ SameContents \/ \E from, to \in Name : Moved(from, to)
Upgraded ==
  /\ disturbed' /\ Exists(Main) /\ UNCHANGED <<acked, nextId, nextWrite>>
  /\ \E s \in Versions \union {Partial} : dbs' = [dbs EXCEPT ![Main].schema = s]

-----------------------------------------------------------------------------
(* The vault's steps, on the databases. *)

LEMMA VaultCopies ==
  ASSUME NEW d \in Contents(dbs), NEW c \in Contents(dbs'),
         Contents(dbs') = Contents(dbs) \union {c},
         \A other \in Contents(dbs) : c.id # other.id,
         c.schema = d.schema, c.writes = d.writes, UNCHANGED acked
  PROVE  Vault!Copy
BY DEF Vault!Copy, Contents, Exists

LEMMA VaultStores ==
  ASSUME NEW d \in Contents(dbs), NEW e \in Contents(dbs'), NEW w,
         e.id = d.id, e.schema = d.schema,
         Contents(dbs') = (Contents(dbs) \ {d}) \union {e},
         w \in e.writes, w \notin d.writes, e.writes = d.writes \union {w},
         acked' \in {acked, acked \union {w}}
  PROVE  Vault!Store
BY DEF Vault!Store, Contents, Exists

LEMMA VaultMigrates ==
  ASSUME NEW d \in Contents(dbs), NEW s \in Versions \union {Partial},
         \/ disturbed'
         \/ \E c \in Contents(dbs) : c.id # d.id /\ c.schema = d.schema /\ c.writes = d.writes,
         Contents(dbs') = (Contents(dbs) \ {d}) \union {[d EXCEPT !.schema = s]},
         UNCHANGED acked
  PROVE  Vault!Migrate
BY DEF Vault!Migrate, Vault!HasExactCopy, Contents, Exists

LEMMA VaultPrunes ==
  ASSUME Contents(dbs') \subseteq Contents(dbs), UNCHANGED acked,
         acked \subseteq Vault!Held(Contents(dbs'))
  PROVE  Vault!Prune
BY DEF Vault!Prune, Vault!Held, Contents, Exists

LEMMA VaultDiscards ==
  ASSUME NEW d \in Contents(dbs), Contents(dbs') = Contents(dbs) \ {d},
         acked' \subseteq acked, acked' \subseteq Vault!Held(Contents(dbs'))
  PROVE  Vault!Discard
BY DEF Vault!Discard, Vault!Held, Contents, Exists

LEMMA ContentsOf ==
  ASSUME NEW d, NEW n \in Name, d[n] # None
  PROVE  Content(d[n]) \in Contents(d)
BY DEF Contents

LEMMA ContentFields ==
  ASSUME NEW a, NEW b, Content(a) = Content(b)
  PROVE  a.id = b.id /\ a.schema = b.schema /\ a.writes = b.writes
<1>1. /\ Content(a).id = a.id /\ Content(a).schema = a.schema /\ Content(a).writes = a.writes
      /\ Content(b).id = b.id /\ Content(b).schema = b.schema /\ Content(b).writes = b.writes
  BY DEF Content
<1> QED BY <1>1

-----------------------------------------------------------------------------
(* Steps that are none of the vault. *)

LEMMA OpenSilent ==
  ASSUME TypeOK, NEW n \in Name, Exists(n), NEW o \in BOOLEAN, dbs' = [dbs EXCEPT ![n].open = o]
  PROVE  SameContents
<1>1. dbs[n] \in Database
  BY DEF TypeOK, Exists
<1>2. dbs'[n] = [dbs[n] EXCEPT !.open = o] /\ \A m \in Name : m # n => dbs'[m] = dbs[m]
  BY DEF TypeOK
<1>3. [dbs[n] EXCEPT !.open = o] \in Database
  BY <1>1 DEF Database
<1>4. Content(dbs'[n]) = Content(dbs[n])
  BY <1>1, <1>2 DEF Content, Database
<1> QED BY <1>2, <1>3, <1>4, Nothing DEF SameContents, Exists

LEMMA Still ==
  ASSUME UNCHANGED <<dbs, acked, nextId, nextWrite>>
  PROVE  Silent /\ SameContents
BY DEF Silent, SameContents

LEMMA CallsSilent ==
  ASSUME TypeOK, NEW at, NEW then, NEW orElse, NEW name \in Name
  PROVE  /\ Close(at, name, then, orElse) => Silent
         /\ Open(at, name, then) => Silent /\ SameContents
         /\ SetDatabaseAside(at, name, then, orElse) /\ Exists(Main) => Silent
         /\ PutDatabaseBack(at, name, then, orElse) => Silent
<1> USE DEF bounds, ghosts, databases
<1>0. Main \in Name
  BY Names
<1>1. ASSUME Close(at, name, then, orElse) PROVE Silent
  <2>1. CASE Exists(Main) /\ dbs' = [dbs EXCEPT ![Main].open = FALSE]
    BY <1>0, <1>1, <2>1, OpenSilent DEF Close, Silent
  <2>2. CASE UNCHANGED dbs
    BY <1>1, <2>2, Still DEF Close
  <2> QED BY <1>1, <2>1, <2>2 DEF Close
<1>2. ASSUME Open(at, name, then) PROVE Silent /\ SameContents
  <2>1. CASE Exists(name) /\ dbs' = [dbs EXCEPT ![name].open = TRUE]
    BY <1>2, <2>1, OpenSilent DEF Open, Silent
  <2>2. CASE UNCHANGED dbs
    BY <1>2, <2>2, Still DEF Open
  <2> QED BY <1>2, <2>1, <2>2 DEF Open
<1>3. ASSUME SetDatabaseAside(at, name, then, orElse), Exists(Main) PROVE Silent
  <2>1. CASE ~Exists(name) /\ dbs' = [dbs EXCEPT ![name] = dbs[Main], ![Main] = None]
    BY <1>0, <1>3, <2>1 DEF SetDatabaseAside, Silent, Moved, Exists
  <2>2. CASE dbs' \in Reopened(Exists(name))
    <3>1. PICK o \in BOOLEAN : dbs' = [dbs EXCEPT ![Main].open = o]
      BY <2>2, LetInAgain
    <3> QED BY <1>0, <1>3, <3>1, OpenSilent DEF SetDatabaseAside, Silent
  <2> QED BY <1>3, <2>1, <2>2 DEF SetDatabaseAside
<1>4. ASSUME PutDatabaseBack(at, name, then, orElse) PROVE Silent
  <2>1. CASE /\ Exists(name) /\ ~Exists(Main)
             /\ dbs' = [dbs EXCEPT ![Main] = dbs[name], ![name] = None]
    BY <1>0, <1>4, <2>1 DEF PutDatabaseBack, Silent, Moved, Exists
  <2>2. CASE UNCHANGED dbs
    BY <1>4, <2>2, Still DEF PutDatabaseBack
  <2> QED BY <1>4, <2>1, <2>2 DEF PutDatabaseBack
<1> QED BY <1>1, <1>2, <1>3, <1>4

(* An image that starts upgrades the database in use or does not. *)
LEMMA UpAllowed ==
  ASSUME NEW v \in Versions, dbs' \in SelfUpgraded(v), disturbed',
         UNCHANGED <<acked, nextId, nextWrite>>
  PROVE  Silent \/ Upgraded
<1>1. CASE dbs' = dbs
  BY <1>1, Still
<1>2. CASE Exists(Main) /\ dbs' = [dbs EXCEPT ![Main].schema = v]
  BY <1>2 DEF Upgraded
<1> QED BY <1>1, <1>2 DEF SelfUpgraded, Usable

(* The stack is started where the image and the database agree. *)
LEMMA StartAllowed ==
  ASSUME OneFailure, TypeOK, disturbed \/ On(Main, Latest), NEW at, NEW then, NEW orElse,
         Start(at, then, orElse)
  PROVE  Silent \/ Upgraded
<1>1. UNCHANGED <<acked, nextId, nextWrite, disturbed>>
  BY DEF Start, ghosts, bounds
<1>2. CASE On(Main, Latest)
  <2>1. UNCHANGED dbs
    BY <1>2, StartDoes, Zenon
  <2> QED BY <1>1, <2>1, Still
<1>3. CASE disturbed
  <2>1. tag[compose] \in Versions /\ disturbed'
    BY <1>1, <1>3 DEF TypeOK
  <2>2. UNCHANGED dbs \/ dbs' \in SelfUpgraded(tag[compose])
    BY DEF Start, Up
  <2> QED BY <1>1, <2>1, <2>2, UpAllowed, Still
<1> QED BY <1>2, <1>3

LEMMA MovedSame ==
  ASSUME TypeOK, NEW from \in Name, NEW to \in Name, Moved(from, to)
  PROVE  /\ Contents(dbs') = Contents(dbs)
         /\ \A id, w : Distinct(dbs, id, w) => Distinct(dbs', id, w)
<1>1. /\ from # to /\ dbs'[to] = dbs[from] /\ dbs'[from] = None
      /\ \A n \in Name \ {from, to} : dbs'[n] = dbs[n]
  BY DEF Moved, TypeOK
<1>2. \A n \in Name : dbs[n] # None => \E m \in Name : dbs'[m] = dbs[n]
  BY <1>1 DEF Moved
<1>3. \A n \in Name : dbs'[n] # None => \E m \in Name : dbs[m] = dbs'[n]
  BY <1>1
<1>4. Contents(dbs') = Contents(dbs)
  BY <1>2, <1>3 DEF Contents
<1>5. ASSUME NEW id, NEW w, Distinct(dbs, id, w) PROVE Distinct(dbs', id, w)
  <2> DEFINE Was(n) == IF n = to THEN from ELSE n
  <2>1. \A n \in Name : dbs'[n] # None => Was(n) \in Name /\ dbs[Was(n)] = dbs'[n] /\ n # from
    BY <1>1
  <2>2. \A m, n \in Name \ {from} : Was(m) = Was(n) => m = n
    OBVIOUS
  <2> HIDE DEF Was
  <2>3. \A n \in Name : dbs'[n] # None => dbs'[n].id < id /\ \A v \in dbs'[n].writes : v < w
    BY <1>5, <2>1 DEF Distinct
  <2>4. ASSUME NEW m \in Name, NEW n \in Name, dbs'[m] # None, dbs'[n] # None, dbs'[m].id = dbs'[n].id
        PROVE  m = n
    BY <1>5, <2>1, <2>2, <2>4 DEF Distinct
  <2> QED BY <2>3, <2>4 DEF Distinct
<1> QED BY <1>4, <1>5

LEMMA SilentSame ==
  ASSUME TypeOK, Distinct(dbs, nextId, nextWrite), Silent
  PROVE  /\ Contents(dbs') = Contents(dbs) /\ acked' = acked
         /\ Distinct(dbs', nextId', nextWrite')
<1>1. CASE SameContents
  <2>1. Contents(dbs') = Contents(dbs)
    BY <1>1 DEF SameContents, Contents
  <2>2. \A n \in Name : dbs[n] # None => dbs'[n].id = dbs[n].id /\ dbs'[n].writes = dbs[n].writes
    BY <1>1, ContentFields DEF SameContents
  <2>3. Distinct(dbs', nextId, nextWrite)
    BY <1>1, <2>2 DEF SameContents, Distinct
  <2> QED BY <2>1, <2>3 DEF Silent
<1>2. CASE \E from, to \in Name : Moved(from, to)
  BY <1>2, MovedSame DEF Silent
<1> QED BY <1>1, <1>2 DEF Silent

-----------------------------------------------------------------------------
(* The jobs' steps: all but three are silent. *)

LEMMA UpdateAllowed ==
  ASSUME OneFailure, Inv, disturbed \/ UndoInv, SafeUpdateStep, ~CopyDatabase, ~RunUpgrade, ~DropOlder
  PROVE  Silent \/ Upgraded
<1>0. TypeOK /\ aside \in Name /\ Main \in Name
  BY InNames DEF Inv
<1>1. CASE \/ Keep("keep", "previous", "pull") \/ Pull \/ DryRun
           \/ Retag("abort", "previous", "aborting", "aborting") \/ LastCheck("aborted", "refused")
           \/ Check("check", "prune", "u_stop") \/ WriteRecord("record", "updated")
  BY <1>1, Still DEF Keep, Pull, DryRun, Retag, LastCheck, Check, WriteRecord, databases, ghosts, bounds
<1>2. CASE StopApp("stop", "dryrun")
  <2>1. ~Fails("stop")
    BY DEF OneFailure, Fails
  <2> QED BY <1>2, <2>1, Still DEF StopApp, bounds
<1>3. CASE Start("aborting", "aborted", "aborted")
  <2>1. disturbed \/ On(Main, Latest)
    BY <1>3 DEF UndoInv, AtUpdate, Unchanged, Start
  <2> QED BY <1>0, <1>3, <2>1, StartAllowed
<1>4. CASE Start("start", "check", "u_stop")
  <2>1. disturbed \/ On(Main, Latest)
    BY <1>4 DEF UndoInv, AtUpdate, Migrated, Start
  <2> QED BY <1>0, <1>4, <2>1, StartAllowed
<1>5. CASE Close("close", aside, "copy", "abort")
  BY <1>0, <1>5, CallsSilent
<1>6. CASE Open("open", Main, "upgrade")
  BY <1>0, <1>6, CallsSilent
<1> QED BY <1>1, <1>2, <1>3, <1>4, <1>5, <1>6 DEF SafeUpdateStep

LEMMA UndoAllowed ==
  ASSUME OneFailure, Inv, disturbed \/ UndoInv, UndoUpdateStep
  PROVE  Silent \/ Upgraded
<1>0. /\ TypeOK /\ aside \in Name /\ snapshot \in Name /\ Main \in Name
      /\ <<"failed", minute>> \in Name
  BY InNames, Names DEF Inv, TypeOK
<1>1. CASE \/ StopAgain("u_stop", "u_image") \/ Retag("u_image", "previous", "u_close", "u_close")
           \/ LastCheck("u_check", "undone")
  BY <1>1, Still DEF StopAgain, Retag, LastCheck, databases, ghosts, bounds
<1>2. CASE Close("u_close", <<"failed", minute>>, "u_aside", "u_start")
  BY <1>0, <1>2, CallsSilent
<1>3. CASE SetDatabaseAside("u_aside", aside, "u_open", "u_start")
  <2>1. Exists(Main)
    BY <1>3 DEF Inv, Present, Exists, SetDatabaseAside
  <2> QED BY <1>0, <1>3, <2>1, CallsSilent
<1>4. CASE Open("u_open", aside, "u_put")
  BY <1>0, <1>4, CallsSilent
<1>5. CASE PutDatabaseBack("u_put", snapshot, "u_start", "u_start")
  BY <1>0, <1>5, CallsSilent
<1>6. CASE Start("u_start", "u_check", "u_check")
  <2>1. disturbed \/ On(Main, Latest)
    BY <1>6 DEF UndoInv, AtUndoUpdate, Held, Start
  <2> QED BY <1>0, <1>6, <2>1, StartAllowed
<1> QED BY <1>1, <1>2, <1>3, <1>4, <1>5, <1>6 DEF UndoUpdateStep

LEMMA RollbackAllowed ==
  ASSUME OneFailure, Inv, disturbed \/ UndoInv, RollbackStep
  PROVE  Silent \/ Upgraded
<1>0. /\ TypeOK /\ aside \in Name /\ snapshot \in Name /\ Main \in Name
      /\ <<"rolled", minute>> \in Name
  BY InNames, Names DEF Inv, TypeOK
<1>1. CASE \/ Keep("r_keep", "rolled", "r_stop") \/ Retag("r_image", "previous", "r_close", "n_stop")
           \/ Check("r_check", "r_clean", "b_stop")
           \/ RemoveTags("r_clean", {"previous", "rolled"}, "r_record", last)
           \/ WriteRecord("r_record", "rolledback")
  BY <1>1, Still DEF Keep, Retag, Check, RemoveTags, WriteRecord, databases, ghosts, bounds
<1>2. CASE StopApp("r_stop", "r_image")
  <2>1. UNCHANGED <<acked, nextId, nextWrite, disturbed>> /\ (dbs' = dbs \/ Up)
    BY <1>2 DEF StopApp, bounds
  <2>2. CASE dbs' = dbs
    BY <2>1, <2>2, Still
  <2>3. CASE Up /\ UndoInv
    <3>1. On(Main, Latest)
      BY <1>2, <2>3 DEF UndoInv, AtRollback, Unchanged, StopApp
    <3> QED BY <1>0, <2>1, <2>3, <3>1, UpStarts, Still
  <2>4. CASE Up /\ disturbed
    <3>1. disturbed' /\ tag[compose] \in Versions /\ dbs' \in SelfUpgraded(tag[compose])
      BY <1>0, <2>1, <2>4 DEF Up, TypeOK
    <3> QED BY <2>1, <3>1, UpAllowed
  <2> QED BY <2>1, <2>2, <2>3, <2>4
<1>3. CASE Close("r_close", <<"rolled", minute>>, "r_aside", "r_probe")
  BY <1>0, <1>3, CallsSilent
<1>4. CASE SetDatabaseAside("r_aside", aside, "r_open", "r_probe")
  <2>1. Exists(Main)
    BY <1>4 DEF Inv, Present, Exists, SetDatabaseAside
  <2> QED BY <1>0, <1>4, <2>1, CallsSilent
<1>5. CASE Open("r_open", aside, "r_put")
  BY <1>0, <1>5, CallsSilent
<1>6. CASE PutDatabaseBack("r_put", snapshot, "r_start", "r_probe")
  BY <1>0, <1>6, CallsSilent
<1>7. CASE Probe
  <2>1. UNCHANGED <<acked, nextId, nextWrite>>
    BY <1>7 DEF Probe, ghosts, bounds
  <2>2. CASE UNCHANGED dbs
    BY <2>1, <2>2, Still
  <2>3. CASE ~Exists(Main) /\ Exists(aside) /\ dbs' = [dbs EXCEPT ![Main] = dbs[aside], ![aside] = None]
    BY <1>0, <2>1, <2>3 DEF Silent, Moved, Exists
  <2> QED BY <1>7, <2>2, <2>3 DEF Probe
<1>8. CASE Start("r_start", "r_check", "b_stop")
  <2>1. disturbed \/ On(Main, Latest)
    BY <1>8 DEF UndoInv, AtRollback, Switched, Start
  <2> QED BY <1>0, <1>8, <2>1, StartAllowed
<1> QED BY <1>1, <1>2, <1>3, <1>4, <1>5, <1>6, <1>7, <1>8 DEF RollbackStep

LEMMA UndoRollbackAllowed ==
  ASSUME OneFailure, Inv, disturbed \/ UndoInv, UndoRollbackStep
  PROVE  Silent \/ Upgraded
<1>0. TypeOK /\ aside \in Name /\ snapshot \in Name /\ Main \in Name
  BY InNames DEF Inv
<1>1. CASE \/ StopAgain("n_stop", "n_image") \/ Retag("n_image", "rolled", "b_start", "b_start")
           \/ StopAgain("b_stop", "b_image") \/ Retag("b_image", "rolled", "b_close", "b_close")
           \/ Check("b_check", "b_clean", "b_clean")
           \/ RemoveTags("b_clean", {"rolled"}, "idle", "rollbackundone")
  BY <1>1, Still DEF StopAgain, Retag, Check, RemoveTags, databases, ghosts, bounds
<1>2. CASE Close("b_close", aside, "b_aside", "b_start")
  BY <1>0, <1>2, CallsSilent
<1>3. CASE SetDatabaseAside("b_aside", snapshot, "b_open", "b_start")
  <2>1. Exists(Main)
    BY <1>3 DEF Inv, Present, Exists, SetDatabaseAside
  <2> QED BY <1>0, <1>3, <2>1, CallsSilent
<1>4. CASE Open("b_open", snapshot, "b_put")
  BY <1>0, <1>4, CallsSilent
<1>5. CASE PutDatabaseBack("b_put", aside, "b_start", "b_start")
  BY <1>0, <1>5, CallsSilent
<1>6. CASE Start("b_start", "b_check", "b_check")
  <2>1. disturbed \/ On(Main, Latest)
    BY <1>6 DEF UndoInv, AtUndoRollback, Prepared, Current, Start
  <2> QED BY <1>0, <1>6, <2>1, StartAllowed
<1> QED BY <1>1, <1>2, <1>3, <1>4, <1>5, <1>6 DEF UndoRollbackStep

LEMMA AroundAllowed ==
  ASSUME OneFailure, Inv, disturbed \/ UndoInv,
         \/ BeginUpdate \/ BeginRollback \/ Tick \/ ControlStart \/ ControlStop \/ Load
         \/ Reconfigure \/ Crash
  PROVE  Silent \/ Upgraded
<1>1. CASE BeginUpdate \/ BeginRollback \/ Tick \/ ControlStop \/ Load \/ Crash
  BY <1>1, Still
     DEF BeginUpdate, BeginRollback, Begin, Tick, ControlStop, Load, Crash, databases, ghosts, bounds
<1>2. CASE ControlStart \/ Reconfigure
  <2>1. TypeOK /\ tag[compose] \in Versions /\ tag[record.image] \in Versions
    BY DEF Inv, TypeOK
  <2>2. UNCHANGED <<acked, nextId, nextWrite>>
    BY <1>2 DEF ControlStart, Reconfigure, bounds
  <2>3. PICK v \in Versions : dbs' \in SelfUpgraded(v) /\ v \in {tag[compose], tag[record.image]}
    BY <1>2, <2>1 DEF ControlStart, Reconfigure, Up
  <2>4. disturbed' \/ (pc = "idle" /\ UndoInv)
    <3>1. CASE ControlStart
      BY <3>1, Zenon DEF ControlStart, Meddle
    <3>2. CASE Reconfigure
      BY <3>2 DEF Reconfigure, bounds
    <3> QED BY <1>2, <3>1, <3>2
  <2>5. CASE pc = "idle" /\ UndoInv
    <3>1. On(Main, Latest) /\ v = Latest
      BY <2>1, <2>3, <2>5, OneReference DEF UndoInv, AtUpdate, AtRest, InService, Latest
    <3>2. dbs[Main].schema \notin {u \in Versions : u < Latest}
      BY <2>1, <3>1, OneReference, TagNames DEF On
    <3>3. UNCHANGED dbs
      BY <2>3, <3>1, <3>2 DEF SelfUpgraded
    <3> QED BY <2>2, <3>3, Still
  <2> QED BY <2>2, <2>3, <2>4, <2>5, UpAllowed
<1> QED BY <1>1, <1>2

-----------------------------------------------------------------------------
(* The steps of the vault. *)

(* One database gets another schema or another write. *)
LEMMA ChangedOne ==
  ASSUME TypeOK, NEW n \in Name, Exists(n), NEW d \in Database, d.id = dbs[n].id,
         dbs' = [dbs EXCEPT ![n] = d], Distinct(dbs, nextId, nextWrite),
         nextId' = nextId, nextWrite' \in {nextWrite, nextWrite + 1},
         \A v \in d.writes : v < nextWrite'
  PROVE  /\ Contents(dbs') = (Contents(dbs) \ {Content(dbs[n])}) \union {Content(d)}
         /\ Content(d) \in Contents(dbs')
         /\ Distinct(dbs', nextId', nextWrite')
<1>1. /\ dbs'[n] = d /\ d # None
      /\ \A m \in Name \ {n} : dbs'[m] = dbs[m]
  BY Nothing DEF TypeOK
<1>2. \A m \in Name \ {n} : dbs[m] # None => Content(dbs[m]) # Content(dbs[n])
  BY ContentFields DEF Distinct, Exists
<1>3. Contents(dbs') = (Contents(dbs) \ {Content(dbs[n])}) \union {Content(d)}
  BY <1>1, <1>2 DEF Contents, Exists
<1>4. \A m \in Name : dbs'[m] # None =>
        dbs[m] # None /\ dbs'[m].id = dbs[m].id /\ \A v \in dbs'[m].writes : v < nextWrite'
  <2>1. CASE nextWrite' = nextWrite
    BY <1>1, <2>1 DEF Distinct, Exists
  <2>2. CASE nextWrite' = nextWrite + 1
    <3>1. ASSUME NEW m \in Name \ {n}, dbs[m] # None, NEW v \in dbs[m].writes PROVE v < nextWrite'
      <4>1. v \in Nat /\ nextWrite \in Nat /\ v < nextWrite
        BY <3>1 DEF Distinct, TypeOK, Database
      <4> QED BY <2>2, <4>1
    <3> QED BY <1>1, <3>1 DEF Exists
  <2> QED BY <2>1, <2>2
<1>5. Distinct(dbs', nextId', nextWrite')
  BY <1>4 DEF Distinct
<1> QED BY <1>1, <1>3, <1>5 DEF Contents

(* CREATE DATABASE ... TEMPLATE. *)
LEMMA CopyVault ==
  ASSUME Inv, VaultInv, CopyDatabase
  PROVE  /\ Vault!Copy \/ Silent
         /\ Distinct(dbs', nextId', nextWrite')
         /\ pc' = "open" => Exact(dbs', snapshot')
<1>0. /\ TypeOK /\ Distinct(dbs, nextId, nextWrite)
      /\ Exists(Main) /\ Main \in Name /\ snapshot \in Name
      /\ UNCHANGED <<acked, nextWrite, snapshot>>
  BY InNames DEF Inv, VaultInv, Present, Exists, CopyDatabase, ghosts, bounds, locals
<1>1. CASE dbs' \in Reopened(Exists(snapshot)) /\ UNCHANGED nextId /\ pc' = "abort"
  <2>1. PICK o \in BOOLEAN : dbs' = [dbs EXCEPT ![Main].open = o]
    BY <1>1, LetInAgain
  <2>2. Silent
    BY <1>0, <1>1, <2>1, OpenSilent DEF Silent
  <2> QED BY <1>0, <1>1, <2>2, SilentSame
<1>2. CASE /\ ~Exists(snapshot) /\ nextId' = nextId + 1
           /\ dbs' = [dbs EXCEPT ![snapshot] = [dbs[Main] EXCEPT !.id = nextId, !.open = TRUE]]
  <2> DEFINE c == [dbs[Main] EXCEPT !.id = nextId, !.open = TRUE]
  <2>1. dbs[Main] \in Database /\ nextId \in Nat
    BY <1>0 DEF TypeOK, Exists
  <2>2. /\ c \in Database /\ c # None /\ c.id = nextId
        /\ c.schema = dbs[Main].schema /\ c.writes = dbs[Main].writes
    <3>1. c \in Database /\ c.id = nextId
      BY <2>1 DEF Database
    <3>2. c.schema = dbs[Main].schema /\ c.writes = dbs[Main].writes
      BY <2>1 DEF Database
    <3> QED BY <3>1, <3>2, Nothing
  <2>3. dbs'[snapshot] = c /\ \A n \in Name \ {snapshot} : dbs'[n] = dbs[n]
    BY <1>0, <1>2 DEF TypeOK
  <2> HIDE DEF c
  <2>4. Contents(dbs') = Contents(dbs) \union {Content(c)}
    BY <1>0, <1>2, <2>2, <2>3 DEF Contents, Exists
  <2>5. \A n \in Name : dbs[n] # None => dbs[n].id # nextId /\ dbs[n].id \in Nat
    BY <1>0, <2>1 DEF Distinct, TypeOK, Database
  <2>6. \A other \in Contents(dbs) : Content(c).id # other.id
    BY <2>2, <2>5 DEF Contents, Content
  <2>7. /\ Content(c).schema = Content(dbs[Main]).schema
        /\ Content(c).writes = Content(dbs[Main]).writes
    BY <2>2 DEF Content
  <2>8. Content(dbs[Main]) \in Contents(dbs) /\ Content(c) \in Contents(dbs')
    BY <1>0, <2>4, ContentsOf DEF Exists
  <2>9. Vault!Copy
    BY <1>0, <2>4, <2>6, <2>7, <2>8, VaultCopies
  <2>10. ASSUME NEW n \in Name, dbs'[n] # None
         PROVE  dbs'[n].id < nextId + 1 /\ \A v \in dbs'[n].writes : v < nextWrite
    <3>1. CASE n = snapshot
      <4>1. \A v \in dbs[Main].writes : v < nextWrite
        BY <1>0 DEF Distinct, Exists
      <4> QED BY <2>1, <2>2, <2>3, <3>1, <4>1
    <3>2. CASE n # snapshot
      <4>1. dbs'[n] = dbs[n] /\ dbs[n].id < nextId /\ \A v \in dbs[n].writes : v < nextWrite
        BY <1>0, <2>3, <2>10, <3>2 DEF Distinct
      <4> QED BY <2>1, <2>5, <2>10, <4>1
    <3> QED BY <3>1, <3>2
  <2>11. ASSUME NEW m \in Name, NEW n \in Name, dbs'[m] # None, dbs'[n] # None, dbs'[m].id = dbs'[n].id
         PROVE  m = n
    BY <1>0, <2>2, <2>3, <2>5, <2>11 DEF Distinct
  <2>12. Exact(dbs', snapshot')
    BY <1>0, <2>2, <2>3 DEF Exact, Exists
  <2> QED BY <1>0, <1>2, <2>9, <2>10, <2>11, <2>12 DEF Distinct
<1> QED BY <1>1, <1>2 DEF CopyDatabase, Goto

(* A schema changes: with the copy beside it, or as the operator will. *)
LEMMA MigrateVault ==
  ASSUME TypeOK, Distinct(dbs, nextId, nextWrite), Exists(Main), NEW s \in Versions \union {Partial},
         dbs' = [dbs EXCEPT ![Main].schema = s], UNCHANGED <<acked, nextId, nextWrite>>,
         disturbed' \/ (Exact(dbs, snapshot) /\ snapshot # Main)
  PROVE  Vault!Migrate /\ Distinct(dbs', nextId', nextWrite')
<1> DEFINE d == [dbs[Main] EXCEPT !.schema = s]
<1>1. dbs[Main] \in Database /\ Main \in Name /\ snapshot \in Name
  BY InNames DEF TypeOK, Exists
<1>2. /\ d \in Database /\ d.id = dbs[Main].id /\ d.writes = dbs[Main].writes /\ d.schema = s
  BY <1>1 DEF Database
<1>3. dbs' = [dbs EXCEPT ![Main] = d]
  OBVIOUS
<1>4. Content(d) = [Content(dbs[Main]) EXCEPT !.schema = s]
  BY <1>2 DEF Content
<1> HIDE DEF d
<1>5. \A v \in d.writes : v < nextWrite'
  BY <1>1, <1>2 DEF Distinct, Exists
<1>6. /\ Contents(dbs') = (Contents(dbs) \ {Content(dbs[Main])}) \union {Content(d)}
      /\ Distinct(dbs', nextId', nextWrite')
  BY <1>1, <1>2, <1>3, <1>5, ChangedOne
<1>7. Content(dbs[Main]) \in Contents(dbs)
  BY <1>1, ContentsOf DEF Exists
<1>8. ASSUME Exact(dbs, snapshot), snapshot # Main
      PROVE  \E c \in Contents(dbs) : /\ c.id # Content(dbs[Main]).id
                                      /\ c.schema = Content(dbs[Main]).schema
                                      /\ c.writes = Content(dbs[Main]).writes
  <2>1. Content(dbs[snapshot]) \in Contents(dbs) /\ dbs[snapshot].id # dbs[Main].id
    BY <1>1, <1>8, ContentsOf DEF Exact, Distinct
  <2>2. /\ Content(dbs[snapshot]).id # Content(dbs[Main]).id
        /\ Content(dbs[snapshot]).schema = Content(dbs[Main]).schema
        /\ Content(dbs[snapshot]).writes = Content(dbs[Main]).writes
    BY <1>8, <2>1 DEF Content, Exact
  <2> QED BY <2>1, <2>2
<1>9. Vault!Migrate
  BY <1>4, <1>6, <1>7, <1>8, VaultMigrates
<1> QED BY <1>6, <1>9

(* The image's own upgrade of the schema. *)
LEMMA UpgradeVault ==
  ASSUME Inv, disturbed \/ UndoInv, VaultInv, RunUpgrade
  PROVE  /\ Vault!Migrate \/ Silent
         /\ Distinct(dbs', nextId', nextWrite')
<1>0. /\ TypeOK /\ Distinct(dbs, nextId, nextWrite) /\ pc = "upgrade"
      /\ UNCHANGED <<acked, nextId, nextWrite, disturbed>>
  BY DEF Inv, VaultInv, RunUpgrade, ghosts, bounds
<1>1. CASE UNCHANGED dbs
  BY <1>0, <1>1, Still, SilentSame
<1>2. CASE Exists(Main) /\ \E s \in Versions \union {Partial} : dbs' = [dbs EXCEPT ![Main].schema = s]
  <2>1. disturbed' \/ (Exact(dbs, snapshot) /\ snapshot # Main)
    <3>1. CASE disturbed
      BY <1>0, <3>1
    <3>2. CASE ~disturbed
      <4>1. snapshot # Main
        BY <1>0, <3>2, InNames DEF UndoInv, AtUpdate, ReadyToMigrate, Undoable, Copied, Youngest
      <4> QED BY <1>0, <3>2, <4>1 DEF VaultInv
    <3> QED BY <3>1, <3>2
  <2> QED BY <1>0, <1>2, <2>1, MigrateVault
<1> QED
  <2>1. ASSUME Exists(Main) PROVE dbs[Main].schema \in Versions \union {Partial}
    BY <1>0, <2>1, InNames DEF TypeOK, Exists, Database
  <2>2. tag[compose] \in Versions
    BY <1>0 DEF TypeOK
  <2> QED BY <1>1, <1>2, <2>1, <2>2 DEF RunUpgrade, Usable

(* The copies of earlier updates go; what they held is elsewhere. *)
LEMMA PruneVault ==
  ASSUME Inv, VaultInv, DropOlder
  PROVE  Vault!Prune /\ Distinct(dbs', nextId', nextWrite')
<1>1. /\ UNCHANGED <<acked, nextId, nextWrite>>
      /\ \A n \in Name : dbs'[n] \in {dbs[n], None}
      /\ \A n \in Name \ Before : dbs'[n] = dbs[n]
  BY DEF DropOlder, OlderSnapshots, ghosts, bounds
<1>2. Contents(dbs') \subseteq Contents(dbs) /\ Distinct(dbs', nextId', nextWrite')
  BY <1>1 DEF VaultInv, Contents, Distinct
<1>3. ASSUME NEW w \in acked PROVE \E d \in Contents(dbs') : w \in d.writes
  <2>1. PICK n \in Name \ Before : dbs[n] # None /\ w \in dbs[n].writes
    BY DEF Inv, HoldsApart, StoredIn
  <2>2. Content(dbs'[n]) \in Contents(dbs') /\ w \in Content(dbs'[n]).writes
    BY <1>1, <2>1, ContentsOf DEF Content
  <2> QED BY <2>2
<1>4. acked \subseteq Vault!Held(Contents(dbs'))
  BY <1>3 DEF Vault!Held
<1> QED BY <1>1, <1>2, <1>4, VaultPrunes

(* What the operator removes is gone, with what only it held. *)
LEMMA RemoveVault ==
  ASSUME Inv, VaultInv, RemoveKept
  PROVE  Vault!Discard /\ Distinct(dbs', nextId', nextWrite')
<1>1. PICK n \in Name \ {Main} : Exists(n) /\ dbs' = [dbs EXCEPT ![n] = None]
  BY DEF RemoveKept
<1>2. acked' = acked \intersect Stored' /\ UNCHANGED <<nextId, nextWrite>>
  BY DEF RemoveKept
<1>3. \A m \in Name : dbs'[m] = IF m = n THEN None ELSE dbs[m]
  BY <1>1 DEF Inv, TypeOK
<1>4. \A m \in Name \ {n} : dbs[m] # None => Content(dbs[m]) # Content(dbs[n])
  BY <1>1, ContentFields DEF VaultInv, Distinct, Exists
<1>5. Contents(dbs') = Contents(dbs) \ {Content(dbs[n])}
  BY <1>1, <1>3, <1>4 DEF Contents, Exists
<1>6. Distinct(dbs', nextId', nextWrite')
  BY <1>2, <1>3 DEF VaultInv, Distinct
<1>7. ASSUME NEW w \in acked' PROVE \E d \in Contents(dbs') : w \in d.writes
  <2>1. PICK m \in Name : dbs'[m] # None /\ w \in dbs'[m].writes
    BY <1>2, <1>7 DEF Stored, Lasting, Exists
  <2>2. Content(dbs'[m]) \in Contents(dbs') /\ w \in Content(dbs'[m]).writes
    BY <2>1, ContentsOf DEF Content
  <2> QED BY <2>2
<1>8. acked' \subseteq acked /\ acked' \subseteq Vault!Held(Contents(dbs'))
  BY <1>2, <1>7 DEF Vault!Held
<1>9. Content(dbs[n]) \in Contents(dbs)
  BY <1>1, ContentsOf DEF Exists
<1> QED BY <1>5, <1>6, <1>8, <1>9, VaultDiscards

LEMMA WriteVault ==
  ASSUME Inv, VaultInv, Write
  PROVE  Vault!Store /\ Distinct(dbs', nextId', nextWrite')
<1>0. TypeOK
  BY DEF Inv
<1>1. /\ Exists(Main) /\ Main \in Name /\ nextWrite \in Nat /\ dbs[Main] \in Database
      /\ nextWrite' = nextWrite + 1 /\ nextId' = nextId
      /\ acked' \in {acked, acked \union {nextWrite}}
      /\ dbs' = [dbs EXCEPT ![Main] = [dbs[Main] EXCEPT !.writes = @ \union {nextWrite}]]
  BY <1>0, Names DEF Write, Usable, TypeOK, Exists
<1> DEFINE d == [dbs[Main] EXCEPT !.writes = @ \union {nextWrite}]
<1>2. /\ d \in Database /\ d.id = dbs[Main].id /\ d.schema = dbs[Main].schema
      /\ d.writes = dbs[Main].writes \union {nextWrite}
  BY <1>1 DEF Database
<1>3. dbs' = [dbs EXCEPT ![Main] = d]
  BY <1>1
<1> HIDE DEF d
<1>4. \A v \in dbs[Main].writes : v \in Nat /\ v < nextWrite
  BY <1>1 DEF VaultInv, Distinct, Exists, Database
<1>5. nextWrite \notin dbs[Main].writes /\ \A v \in d.writes : v < nextWrite'
  BY <1>1, <1>2, <1>4
<1>6. /\ Contents(dbs') = (Contents(dbs) \ {Content(dbs[Main])}) \union {Content(d)}
      /\ Content(d) \in Contents(dbs')
      /\ Distinct(dbs', nextId', nextWrite')
  BY <1>0, <1>1, <1>2, <1>3, <1>5, ChangedOne DEF VaultInv
<1>7. Content(dbs[Main]) \in Contents(dbs)
  BY <1>1, ContentsOf DEF Exists
<1>8. /\ Content(d).id = Content(dbs[Main]).id /\ Content(d).schema = Content(dbs[Main]).schema
      /\ nextWrite \in Content(d).writes /\ nextWrite \notin Content(dbs[Main]).writes
      /\ Content(d).writes = Content(dbs[Main]).writes \union {nextWrite}
  BY <1>2, <1>5 DEF Content
<1> QED BY <1>1, <1>6, <1>7, <1>8, VaultStores

-----------------------------------------------------------------------------
(* SENTIENT stays down from its stop to the migration, and the copy exact. *)

LEMMA StoppedStep ==
  ASSUME OneFailure, Inv, VaultInv, [Next]_vars, ~CopyDatabase, ~disturbed'
  PROVE  /\ pc' \in Stopped => ~running'
         /\ pc' \in {"open", "upgrade"} => Exact(dbs', snapshot')
<1>0. CASE BeginUpdate \/ BeginRollback
  <2>1. pc' \in {"keep", "r_keep"}
    BY <1>0 DEF BeginUpdate, BeginRollback, Goto
  <2> QED BY <2>1 DEF Stopped
<1> SUFFICES ASSUME ~BeginUpdate, ~BeginRollback
             PROVE  /\ pc' \in Stopped => ~running'
                    /\ pc' \in {"open", "upgrade"} => Exact(dbs', snapshot')
  BY <1>0
<1>d. ~disturbed
  BY StaysDisturbed DEF Inv
<1>1. CASE Open("open", Main, "upgrade")
  <2>1. /\ TypeOK /\ pc = "open" /\ Main \in Name /\ snapshot \in Name
        /\ UNCHANGED <<running, snapshot>> /\ Exact(dbs, snapshot) /\ ~running
    BY <1>d, <1>1, InNames DEF Inv, VaultInv, Stopped, Open, stack, locals
  <2>2. SameContents
    BY <1>1, <2>1, CallsSilent DEF Exact, Exists
  <2>3. Exact(dbs', snapshot')
    BY <2>1, <2>2, ContentFields DEF Exact, SameContents
  <2> QED BY <2>1, <2>3
<1>2. CASE StopApp("stop", "dryrun")
  <2>1. ~Fails("stop")
    BY DEF OneFailure, Fails
  <2>2. pc' = "dryrun" /\ running' = FALSE
    BY <1>2, <2>1, Zenon DEF StopApp, Goto
  <2> QED BY <2>2
<1>3. CASE DryRun \/ Close("close", aside, "copy", "abort")
  <2>1. pc \in Stopped /\ UNCHANGED running /\ pc' \in {"close", "abort", "copy"}
    BY <1>3 DEF DryRun, Close, Goto, Stopped, stack
  <2> QED BY <1>d, <2>1 DEF VaultInv
<1>4. CASE \/ Keep("keep", "previous", "pull") \/ Pull
           \/ Retag("abort", "previous", "aborting", "aborting")
           \/ Start("aborting", "aborted", "aborted") \/ LastCheck("aborted", "refused")
           \/ RunUpgrade \/ Start("start", "check", "u_stop") \/ Check("check", "prune", "u_stop")
           \/ DropOlder \/ WriteRecord("record", "updated")
  <2>1. pc' \notin Stopped
    BY <1>4 DEF Keep, Pull, Retag, Start, LastCheck, RunUpgrade, Check, DropOlder, WriteRecord,
                Goto, Return, Stopped
  <2> QED BY <2>1 DEF Stopped
<1>5. CASE UndoUpdateStep
  <2>1. pc' \notin Stopped
    BY <1>5 DEF UndoUpdateStep, StopAgain, Retag, Close, SetDatabaseAside, Open, PutDatabaseBack,
                Start, LastCheck, Goto, Return, Stopped
  <2> QED BY <2>1 DEF Stopped
<1>6. CASE RollbackStep
  <2>1. pc' \notin Stopped
    BY <1>6 DEF RollbackStep, Keep, StopApp, Retag, Close, SetDatabaseAside, Open, PutDatabaseBack,
                Probe, Start, Check, RemoveTags, WriteRecord, Goto, Return, Stopped
  <2> QED BY <2>1 DEF Stopped
<1>7. CASE UndoRollbackStep
  <2>1. pc' \notin Stopped
    BY <1>7 DEF UndoRollbackStep, StopAgain, Retag, Close, SetDatabaseAside, Open, PutDatabaseBack,
                Start, Check, RemoveTags, Goto, Stopped
  <2> QED BY <2>1 DEF Stopped
<1>8. CASE ControlStart \/ ControlStop \/ RemoveKept \/ Load \/ Reconfigure \/ Crash
  <2>1. CASE ControlStart \/ ControlStop \/ RemoveKept
    <3>1. pc = "idle"
      BY <2>1, Zenon DEF ControlStart, ControlStop, RemoveKept, Meddle
    <3>2. pc' = pc
      BY <2>1 DEF ControlStart, ControlStop, RemoveKept
    <3> QED BY <3>1, <3>2 DEF Stopped
  <2>2. CASE Load \/ Reconfigure \/ Crash
    <3>1. pc' = "idle"
      BY <2>2 DEF Load, Reconfigure, Crash, Return
    <3> QED BY <3>1 DEF Stopped
  <2> QED BY <1>8, <2>1, <2>2
<1>9. CASE Write
  <2>1. pc' = pc /\ running
    BY <1>9 DEF Write
  <2> QED BY <1>d, <2>1 DEF VaultInv, Stopped
<1>10. CASE Tick \/ UNCHANGED vars
  <2>1. UNCHANGED <<pc, dbs, running, snapshot>>
    BY <1>10 DEF Tick, vars, databases, locals, stack
  <2> QED BY <1>d, <2>1 DEF VaultInv
<1> QED BY <1>1, <1>2, <1>3, <1>4, <1>5, <1>6, <1>7, <1>8, <1>9, <1>10 DEF Next, SafeUpdateStep

LEMMA VaultStep ==
  OneFailure /\ Inv /\ (~disturbed => UndoInv) /\ VaultInv /\ [Next]_vars =>
    VaultInv' /\ [Vault!Next]_<<{Content(dbs[n]) : n \in {m \in Name : Exists(m)}}, acked>>
<1> SUFFICES ASSUME OneFailure, Inv, ~disturbed => UndoInv, VaultInv, [Next]_vars
             PROVE  VaultInv' /\ [Vault!Next]_<<Contents(dbs), acked>>
  BY DEF Contents, Exists
<1>1. ASSUME Distinct(dbs', nextId', nextWrite'), Vault!Next \/ UNCHANGED <<Contents(dbs), acked>>,
             ~CopyDatabase
      PROVE  VaultInv' /\ [Vault!Next]_<<Contents(dbs), acked>>
  BY <1>1, StoppedStep DEF VaultInv
<1>2. ASSUME Silent
      PROVE  Distinct(dbs', nextId', nextWrite') /\ UNCHANGED <<Contents(dbs), acked>>
  BY <1>2, SilentSame DEF Inv, VaultInv
<1>a. ASSUME Upgraded
      PROVE  Distinct(dbs', nextId', nextWrite') /\ Vault!Next
  BY <1>a, MigrateVault DEF Inv, VaultInv, Upgraded, Vault!Next
<1>3. CASE CopyDatabase
  <2>1. /\ Vault!Next \/ UNCHANGED <<Contents(dbs), acked>>
        /\ Distinct(dbs', nextId', nextWrite') /\ (pc' = "open" => Exact(dbs', snapshot'))
    BY <1>2, <1>3, CopyVault DEF Vault!Next
  <2>2. pc' \in {"open", "abort"} /\ UNCHANGED <<running, disturbed>> /\ pc = "copy"
    BY <1>3 DEF CopyDatabase, Goto, stack, bounds
  <2> QED BY <2>1, <2>2 DEF VaultInv, Stopped
<1>4. CASE RunUpgrade
  <2>1. ~CopyDatabase
    BY <1>4 DEF RunUpgrade, CopyDatabase
  <2> QED BY <1>1, <1>2, <1>4, <2>1, UpgradeVault DEF Vault!Next
<1>5. CASE DropOlder
  <2>1. ~CopyDatabase
    BY <1>5 DEF DropOlder, CopyDatabase
  <2> QED BY <1>1, <1>5, <2>1, PruneVault DEF Vault!Next
<1>6. CASE (Write \/ RemoveKept) /\ ~CopyDatabase
  BY <1>1, <1>6, WriteVault, RemoveVault DEF Vault!Next
<1>7. CASE UNCHANGED vars /\ ~CopyDatabase
  <2>1. UNCHANGED <<dbs, acked, nextId, nextWrite>>
    BY <1>7 DEF vars, databases, ghosts, bounds
  <2> QED BY <1>1, <1>2, <1>7, <2>1, Still
<1>8. CASE /\ ~CopyDatabase
           /\ \/ SafeUpdateStep /\ ~RunUpgrade /\ ~DropOlder
              \/ UndoUpdateStep \/ RollbackStep \/ UndoRollbackStep
              \/ BeginUpdate \/ BeginRollback \/ Tick \/ ControlStart \/ ControlStop \/ Load
              \/ Reconfigure \/ Crash
  <2>1. Silent \/ Upgraded
    BY <1>8, UpdateAllowed, UndoAllowed, RollbackAllowed, UndoRollbackAllowed, AroundAllowed
  <2> QED BY <1>1, <1>2, <1>a, <1>8, <2>1
<1> QED BY <1>3, <1>4, <1>5, <1>6, <1>7, <1>8 DEF Next

LEMMA VaultStarts == Init => VaultInv /\ Vault!Init
<1> SUFFICES ASSUME Init PROVE VaultInv /\ Vault!Init
  OBVIOUS
<1> DEFINE d == [id |-> 0, schema |-> Installed, writes |-> {}, open |-> TRUE]
<1>1. /\ Main \in Name /\ dbs[Main] = d /\ \A n \in Name \ {Main} : dbs[n] = None
      /\ nextId = 1 /\ acked = {} /\ pc = "idle"
  BY Names DEF Init
<1>2. d.id = 0 /\ d.writes = {} /\ Content(d) = [id |-> 0, schema |-> Installed, writes |-> {}]
  BY DEF Content
<1>3. d # None
  <2>1. d \in Database
    BY DockerAssumption DEF Database
  <2> QED BY <2>1, Nothing
<1> HIDE DEF d
<1>4. VaultInv
  BY <1>1, <1>2 DEF VaultInv, Distinct, Stopped
<1>5. {Content(dbs[n]) : n \in {m \in Name : Exists(m)}} = {Content(d)}
  BY <1>1, <1>3 DEF Exists
<1>6. Vault!Init
  BY <1>1, <1>2, <1>5, DockerAssumption DEF Vault!Init
<1> QED BY <1>4, <1>6

(* Every step of an update, of a rollback, of their undo and of what goes  *)
(* on around them is one the vault allows or none at all: no image         *)
(* upgrades a database without an exact copy beside it, unless the         *)
(* operator starts the stack, stops it or removes a copy in the middle of  *)
(* the job, or did so in one before and left the stack out of order; and   *)
(* whatever he does, no job drops a copy whose writes are not in another.  *)
THEOREM KeepsTheVault == ASSUME OneFailure PROVE Spec => ImplementsVault
<1>1. Spec => []Inv /\ [](~disturbed => UndoInv)
  BY InvAlways, UndoAlways, PTL
<1>2. Inv /\ (~disturbed => UndoInv) /\ VaultInv /\ [Next]_vars =>
        VaultInv' /\ [Vault!Next]_<<{Content(dbs[n]) : n \in {m \in Name : Exists(m)}}, acked>>
  BY VaultStep
<1> QED BY <1>1, <1>2, VaultStarts, PTL DEF Spec, ImplementsVault, Vault!Spec
=============================================================================
