-------------------------- MODULE RegistrationProofs --------------------------
(***************************************************************************)
(* What Registration promises, for any number of commands, directories,    *)
(* identities and Exchanges.  Whoever holds the registry lock is the only   *)
(* one that changes registry and local files, so what it observed under    *)
(* the lock is what it works on, but for users; whoever works on a         *)
(* repository without that lock holds the lock of its identity instead.     *)
(***************************************************************************)
EXTENDS Registration, TLAPS

Owns(p) == pc[p] \notin {"idle", "use"}
Untouched(p, d) == <<d, p>> \notin touched
Observing == {"lock", "check"} \cup Committing

\* The holder of the registry lock, and of the locks of identities.
RegistryLocked == \A p \in Procs : Owns(p) => regLock = p

LockedBy(p) ==
  /\ pc[p] \in {"drop_check", "set_check", "resolved", "use"} => repoLock[job[p].id] = p
  /\ pc[p] \in {"check"} \cup Committing /\ job[p].new => repoLock[Affected(p)] = p

JobOK(p) ==
  /\ pc[p] # "idle" => job[p].path \in Paths
  /\ pc[p] \notin {"idle", "observe"} => job[p].id \in Ids
  /\ pc[p] \in {"drop", "drop_check"} => registry[job[p].id] = job[p].path
  /\ pc[p] \in {"set", "set_check"} => job[p].exchange \in Exchanges
  /\ pc[p] \in {"resolve", "resolved", "use"} =>
       job[p].exchange \in {"none", "elsewhere", job[p].seen.config}

IdentityLocked == \A p \in Procs : LockedBy(p)
JobNamed == \A p \in Procs : JobOK(p)

\* A promise is younger than what users did; a later command knows less of it.
TouchesKnown ==
  \A p \in Procs, d \in Paths :
    /\ <<d, p>> \in touched => <<d, NoProc>> \in touched
    /\ Owns(p) /\ promise[d] # NoId => Untouched(p, d)
    /\ \A q \in Procs : pc[q] = "use" /\ Owns(p) /\ Untouched(q, d) => Untouched(p, d)

-----------------------------------------------------------------------------
(* A registration under way: what it saw, what it has written since.        *)

MappedIn(r, d) == {i \in Ids : r[i] = d}

Intended(j) ==
  [j.seen EXCEPT !.exclude = TRUE, !.id = j.id,
                 !.config = IF j.seen.id = NoId THEN "unset" ELSE @]

\* What was seen, and what it is about to replace.
SeenOK(p) ==
  LET j == job[p] IN
  /\ j.seen.here
  /\ IF j.seen.id = NoId THEN j.seen.config = "none" /\ MappedIn(j.old, j.path) = {}
     ELSE j.seen.exclude /\ j.seen.config # "none"
  /\ IF j.new \/ j.seen.id = NoId THEN j.old[j.id] = NoPath ELSE j.id = j.seen.id

\* The registry is the one seen until it is written, and again when undone.
RegistryAt(p) ==
  LET j == job[p] IN
  /\ registry \in {j.old, Replaced(j.old, j.id, j.path)}
  /\ pc[p] \notin {"written", "undo", "undo_registry"} => registry = j.old
  /\ pc[p] = "written" => registry = Replaced(j.old, j.id, j.path)

\* The local files, unless users came between, go from seen to intended and back.
LocalAt(p) ==
  LET j == job[p]  local == disk[job[p].path]  goal == Intended(job[p]) IN
  /\ local.here
  /\ local.exclude \in {j.seen.exclude, goal.exclude}
  /\ local.id \in {j.seen.id, goal.id}
  /\ local.config \in {j.seen.config, goal.config}
  /\ pc[p] \in {"lock", "check", "exclude"} => local = j.seen
  /\ pc[p] = "id" => local = [j.seen EXCEPT !.exclude = TRUE]
  /\ pc[p] = "config" => j.seen.id = NoId /\ local = [j.seen EXCEPT !.exclude = TRUE, !.id = j.id]
  /\ pc[p] \in {"registry", "written"} => local = goal
  /\ pc[p] = "undo_registry" /\ ~j.dirty => local = j.seen

\* An identity that moves here is registered for a directory that is gone.
OldGone(p) ==
  \A d \in Paths \ {job[p].path} :
    job[p].old[job[p].id] = d => ~disk[d].here \/ <<d, NoProc>> \in touched

\* Promises about this path are about what was seen, those about others stay.
PromiseSeen(p) ==
  LET j == job[p] IN
  \A d \in Paths : promise[d] # NoId =>
    /\ MappedIn(j.old, d) = {promise[d]}
    /\ d = j.path => j.seen.id = promise[d]
    /\ d # j.path => j.id # promise[d]

RegisterOK(p) ==
  /\ SeenOK(p) /\ RegistryAt(p) /\ PromiseSeen(p) /\ OldGone(p)
  /\ Untouched(p, job[p].path) => LocalAt(p)

Registering == \A p \in Procs : pc[p] \in Observing => RegisterOK(p)

-----------------------------------------------------------------------------
(* A command that works on a repository, beside registrations.              *)

InUse(p) == pc[p] = "use" /\ Untouched(p, job[p].path)

UsingOK(p) ==
  /\ Mapped(job[p].path) = {job[p].id} /\ Identified(job[p].path, job[p].id)
  /\ job[p].exchange # "none" => disk[job[p].path].config = job[p].seen.config

Using == \A p \in Procs : InUse(p) => UsingOK(p)

\* What a registration saw of the repository another command works on.
BesideOK(p, q) ==
  /\ MappedIn(job[q].old, job[p].path) = {job[p].id}
  /\ IF job[q].path = job[p].path THEN job[q].seen.id = job[p].id ELSE job[q].id # job[p].id

Beside == \A p, q \in Procs : InUse(p) /\ pc[q] \in Observing => BesideOK(p, q)

NothingTouched(p) == \A d \in Paths : Untouched(p, d)

\* The Exchange a command uses overlaps nothing registered in the sight of its repository.
InSight(p, r) ==
  \A i \in Ids : r[i] # NoPath /\ <<r[i], p>> \notin overlooked => Apart(r[i], job[p].exchange)

StaysApart(p, q) ==
  /\ InSight(p, job[q].old)
  /\ <<job[q].path, p>> \notin overlooked => Apart(job[q].path, job[p].exchange)

Apartness ==
  \A p \in Procs : pc[p] = "use" /\ NothingTouched(p) =>
    /\ InSight(p, registry)
    /\ \A q \in Procs : pc[q] \in Committing => StaysApart(p, q)

LocksOK == RegistryLocked /\ IdentityLocked /\ JobNamed /\ TouchesKnown

RegInv == TypeOK /\ LocksOK /\ Registering /\ Using /\ Beside /\ Apartness /\ PromiseKept /\ RegistersAgain
-----------------------------------------------------------------------------
(* Types.                                                                   *)

Jobs == [path : Paths \cup {NoPath}, new : BOOLEAN, id : Ids \cup {NoId}, seen : Local,
         old : [Ids -> Paths \cup {NoPath}],
         exchange : Exchanges \cup {"none", "elsewhere"}, dirty : BOOLEAN]

Points == {"idle", "observe", "lock", "check", "exclude", "id", "config", "registry", "written",
           "undo", "undo_registry", "drop", "drop_check", "set", "set_check", "resolve",
           "resolved", "use"}

LEMMA NothingIsLocal == Nothing \in Local /\ Fresh \in Local /\ Unregistered \subseteq Local
<1>1. Nothing \in Local
  BY DEF Nothing, Local
<1>2. Fresh \in Local
  BY DEF Nothing, Local, Fresh
<1>3. Unregistered \subseteq Local
  BY DEF Unregistered, Local
<1> QED BY <1>1, <1>2, <1>3

LEMMA NoJobIsJob == NoJob \in Jobs
BY NothingIsLocal DEF NoJob, Jobs

(* Every command begins with a job of its type. *)
LEMMA BeginTyped ==
  ASSUME TypeOK, NEW p \in Procs, NEW there \in Points, NEW record \in Jobs,
         Begin(p, there, record)
  PROVE  TypeOK'
BY DEF Begin, TypeOK, Jobs, Points, lockVars, historyVars

LEMMA FirstJobs ==
  /\ \A d \in Paths, new \in BOOLEAN : [NoJob EXCEPT !.path = d, !.new = new] \in Jobs
  /\ \A d \in Paths \cup {NoPath}, i \in Ids :
       /\ [NoJob EXCEPT !.path = d, !.id = i] \in Jobs
       /\ \A exchange \in Exchanges : [NoJob EXCEPT !.path = d, !.id = i, !.exchange = exchange] \in Jobs
       /\ \A seen \in Local :
            /\ [NoJob EXCEPT !.path = d, !.id = i, !.seen = seen] \in Jobs
            /\ \A exchange \in Exchanges \cup {"none", "elsewhere"} :
                 [NoJob EXCEPT !.path = d, !.id = i, !.seen = seen, !.exchange = exchange] \in Jobs
<1>1. NoJob \in Jobs
  BY NoJobIsJob
<1>2. \A d \in Paths, new \in BOOLEAN : [NoJob EXCEPT !.path = d, !.new = new] \in Jobs
  BY <1>1 DEF Jobs
<1>3. ASSUME NEW d \in Paths \cup {NoPath}, NEW i \in Ids
      PROVE  [NoJob EXCEPT !.path = d, !.id = i] \in Jobs
  BY <1>1 DEF Jobs
<1>4. ASSUME NEW d \in Paths \cup {NoPath}, NEW i \in Ids, NEW exchange \in Exchanges
      PROVE  [NoJob EXCEPT !.path = d, !.id = i, !.exchange = exchange] \in Jobs
  BY <1>1 DEF Jobs
<1>5. ASSUME NEW d \in Paths \cup {NoPath}, NEW i \in Ids, NEW seen \in Local
      PROVE  [NoJob EXCEPT !.path = d, !.id = i, !.seen = seen] \in Jobs
  BY <1>1 DEF Jobs
<1>6. ASSUME NEW d \in Paths \cup {NoPath}, NEW i \in Ids, NEW seen \in Local,
             NEW exchange \in Exchanges \cup {"none", "elsewhere"}
      PROVE  [NoJob EXCEPT !.path = d, !.id = i, !.seen = seen, !.exchange = exchange] \in Jobs
  BY <1>1 DEF Jobs
<1> QED BY <1>2, <1>3, <1>4, <1>5, <1>6, Zenon

LEMMA ConfigChanged ==
  ASSUME NEW local \in Local, NEW config \in Exchanges \cup {"none", "unset"}
  PROVE  [local EXCEPT !.config = config] \in Local
BY DEF Local

(* What a command remembers on its way. *)
LEMMA JobsChanged ==
  \A j \in Jobs :
    /\ \A i \in Ids, seen \in Local, old \in [Ids -> Paths \cup {NoPath}] :
         [j EXCEPT !.id = i, !.seen = seen, !.old = old] \in Jobs
    /\ \A seen \in Local : [j EXCEPT !.seen = seen] \in Jobs
    /\ \A old \in [Ids -> Paths \cup {NoPath}] : [j EXCEPT !.old = old] \in Jobs
    /\ \A b \in BOOLEAN : [j EXCEPT !.dirty = b] \in Jobs
BY DEF Jobs

(* What a process does to itself is of its type. *)
LEMMA LeaveTyped ==
  ASSUME TypeOK, NEW p \in Procs, Leave(p)
  PROVE  /\ pc' \in [Procs -> Points] /\ job' \in [Procs -> Jobs]
         /\ regLock' \in Procs \cup {NoProc} /\ repoLock' \in [Ids -> Procs \cup {NoProc}]
<1>1. pc \in [Procs -> Points] /\ job \in [Procs -> Jobs]
  BY DEF TypeOK, Points, Jobs
<1>2. pc' \in [Procs -> Points]
  BY <1>1 DEF Leave, Points
<1>3. job' \in [Procs -> Jobs]
  BY <1>1, NoJobIsJob DEF Leave
<1> QED BY <1>2, <1>3 DEF Leave, TypeOK

LEMMA TypedOf == TypeOK => pc \in [Procs -> Points] /\ job \in [Procs -> Jobs]
BY DEF TypeOK, Points, Jobs

LEMMA TypedNext ==
  ASSUME pc' \in [Procs -> Points], job' \in [Procs -> Jobs],
         disk' \in [Paths -> Local], registry' \in [Ids -> Paths \cup {NoPath}],
         regLock' \in Procs \cup {NoProc}, repoLock' \in [Ids -> Procs \cup {NoProc}],
         acts' \in 0..Budget, promise' \in [Paths -> Ids \cup {NoId}],
         touched' \subseteq Paths \X (Procs \cup {NoProc}), gaps' \subseteq Paths,
         overlooked' \subseteq Paths \X Procs
  PROVE  TypeOK'
BY DEF TypeOK, Points, Jobs

LEMMA RegisterTyped ==
  ASSUME TypeOK, JobNamed, NEW p \in Procs,
         \/ \E d \in Paths, new \in BOOLEAN : BeginRegister(p, d, new)
         \/ Observe(p) \/ LockIdentity(p) \/ Check(p)
         \/ WriteExclude(p) \/ WriteId(p) \/ WriteConfig(p) \/ WriteRegistry(p)
  PROVE  TypeOK'
<1> USE TypedOf
<1>1. CASE \E d \in Paths, new \in BOOLEAN : BeginRegister(p, d, new)
  <2>1. PICK d \in Paths, new \in BOOLEAN : BeginRegister(p, d, new)
    BY <1>1
  <2>2. [NoJob EXCEPT !.path = d, !.new = new] \in Jobs /\ "observe" \in Points
    BY FirstJobs DEF Points, TypeOK
  <2> QED BY <2>1, <2>2, BeginTyped DEF BeginRegister
<1>2. CASE Observe(p)
  <2>1. pc' \in [Procs -> Points]
    BY <1>2 DEF Observe, Goto, Points
  <2>2. job[p] \in Jobs /\ disk[job[p].path] \in Local
    BY <1>2 DEF Observe, JobNamed, JobOK, TypeOK, Jobs
  <2>3. job' \in [Procs -> Jobs]
    <3>1. PICK i \in Ids :
            job' = [job EXCEPT ![p] = [@ EXCEPT !.id = i, !.seen = disk[job[p].path], !.old = registry]]
      BY <1>2, Zenon DEF Observe
    <3> DEFINE j == [job[p] EXCEPT !.id = i, !.seen = disk[job[p].path], !.old = registry]
    <3>2. registry \in [Ids -> Paths \cup {NoPath}]
      BY DEF TypeOK
    <3>3. j \in Jobs
      BY <2>2, <3>2, JobsChanged, Zenon
    <3>4. job' = [job EXCEPT ![p] = j]
      BY <3>1, Zenon
    <3> HIDE DEF j
    <3> QED BY <3>3, <3>4
  <2> QED BY <1>2, <2>1, <2>3, TypedNext DEF Observe, Stay, lockVars, TypeOK
<1>3. CASE LockIdentity(p)
  <2>1. pc' \in [Procs -> Points]
    BY <1>3 DEF LockIdentity, Goto, Points
  <2> QED BY <1>3, <2>1, TypedNext DEF LockIdentity, LockRepository, Stay, TypeOK
<1>4. CASE Check(p)
  <2>1. pc' \in [Procs -> Points]
    BY <1>4 DEF Check, Goto, Points
  <2>2. job[p].path \in Paths
    BY <1>4 DEF Check, JobNamed, JobOK
  <2>3. overlooked' \subseteq Paths \X Procs
    BY <1>4, <2>2 DEF Check, UsersOf, TypeOK
  <2> QED BY <1>4, <2>1, <2>3, TypedNext DEF Check, lockVars, TypeOK
<1>5. CASE WriteRegistry(p)
  <2>1. pc' \in [Procs -> Points]
    BY <1>5 DEF WriteRegistry, Goto, Points
  <2>2. registry' \in [Ids -> Paths \cup {NoPath}]
    BY <1>5 DEF WriteRegistry, Replaced, TypeOK, Jobs
  <2> QED BY <1>5, <2>1, <2>2, TypedNext DEF WriteRegistry, Stay, lockVars, TypeOK
<1>6. ASSUME NEW local, Write(p, local), disk[job[p].path] \in Local => local \in Local,
             pc' \in [Procs -> Points]
      PROVE  TypeOK'
  <2>1. disk' \in [Paths -> Local]
    BY <1>6 DEF Write, TypeOK
  <2> QED BY <1>6, <2>1, TypedNext DEF Write, Stay, lockVars, TypeOK
<1>7. CASE WriteExclude(p)
  <2>1. pc' \in [Procs -> Points]
    BY <1>7 DEF WriteExclude, Goto, Points
  <2>2. disk[job[p].path] \in Local =>
          [disk[job[p].path] EXCEPT !.exclude = @ \/ ~job[p].seen.exclude] \in Local
    BY DEF Local
  <2> QED BY <1>7, <1>6, <2>1, <2>2 DEF WriteExclude
<1>8. CASE WriteId(p)
  <2>1. pc' \in [Procs -> Points]
    BY <1>8 DEF WriteId, Goto, Points
  <2>2. disk[job[p].path] \in Local => [disk[job[p].path] EXCEPT !.id = job[p].id] \in Local
    BY DEF Local, Jobs
  <2> QED BY <1>8, <1>6, <2>1, <2>2 DEF WriteId
<1>9. CASE WriteConfig(p)
  <2>1. pc' \in [Procs -> Points]
    BY <1>9 DEF WriteConfig, Goto, Points
  <2>2. disk[job[p].path] \in Local => [disk[job[p].path] EXCEPT !.config = "unset"] \in Local
    BY DEF Local
  <2> QED BY <1>9, <1>6, <2>1, <2>2 DEF WriteConfig
<1> QED BY <1>1, <1>2, <1>3, <1>4, <1>5, <1>7, <1>8, <1>9

LEMMA RegisterEndTyped ==
  ASSUME TypeOK, JobNamed, NEW p \in Procs,
         \/ Registered(p) \/ CommitFails(p) \/ RestoreLocal(p) \/ RestoreRegistry(p)
         \/ RestoreRegistryFails(p) \/ Refuse(p) \/ Killed(p) \/ PublishResult(p) \/ UseEnds(p)
  PROVE  TypeOK'
<1> USE TypedOf, LeaveTyped
<1>0. job[p] \in Jobs /\ (pc[p] # "idle" => job[p].path \in Paths)
  BY DEF JobNamed, JobOK
<1>1. CASE Registered(p)
  <2>1. promise' \in [Paths -> Ids \cup {NoId}]
    BY <1>1, <1>0 DEF Registered, TypeOK, Jobs
  <2> QED BY <1>1, <2>1, TypedNext DEF Registered, Stay, TypeOK
<1>2. CASE CommitFails(p)
  <2>1. pc' \in [Procs -> Points]
    BY <1>2 DEF CommitFails, Goto, Points
  <2> QED BY <1>2, <2>1, TypedNext DEF CommitFails, Stay, lockVars, TypeOK
<1>3. CASE RestoreLocal(p)
  <2>1. pc' \in [Procs -> Points]
    BY <1>3 DEF RestoreLocal, Goto, Points
  <2>2. PICK failed \in SUBSET {"config", "id", "exclude"} :
          /\ disk' = IF disk[job[p].path].here
                     THEN [disk EXCEPT ![job[p].path] =
                             Restored(disk[job[p].path], job[p].seen, failed)] ELSE disk
          /\ job' = [job EXCEPT ![p].dirty = failed # {}]
    BY <1>3 DEF RestoreLocal
  <2>3. disk[job[p].path] \in Local =>
          Restored(disk[job[p].path], job[p].seen, failed) \in Local
    BY <1>0 DEF Restored, Local, Jobs
  <2>4. disk' \in [Paths -> Local]
    BY <2>2, <2>3 DEF TypeOK
  <2>5. job' \in [Procs -> Jobs]
    <3> DEFINE j == [job[p] EXCEPT !.dirty = failed # {}]
    <3>0. (failed # {}) \in BOOLEAN
      OBVIOUS
    <3>1. j \in Jobs
      BY <1>0, <3>0, JobsChanged, Zenon
    <3>2. job' = [job EXCEPT ![p] = j]
      BY <2>2, Zenon
    <3> HIDE DEF j
    <3> QED BY <3>1, <3>2
  <2> QED BY <1>3, <2>1, <2>4, <2>5, TypedNext DEF RestoreLocal, Stay, lockVars, TypeOK
<1>4. pc[p] # "idle" /\ (Broken(p) \/ UNCHANGED <<promise, gaps>>) =>
        promise' \in [Paths -> Ids \cup {NoId}] /\ gaps' \subseteq Paths
  BY <1>0 DEF Broken, TypeOK
<1>5. CASE RestoreRegistry(p)
  <2>1. registry' \in [Ids -> Paths \cup {NoPath}]
    BY <1>5, <1>0 DEF RestoreRegistry, Jobs
  <2> QED BY <1>5, <1>4, <2>1, TypedNext DEF RestoreRegistry, Stay, TypeOK
<1>6. CASE RestoreRegistryFails(p)
  BY <1>6, <1>4, TypedNext DEF RestoreRegistryFails, Stay, TypeOK
<1>7. CASE Refuse(p)
  BY <1>7, TypedNext DEF Refuse, Stay, TypeOK
<1>8. CASE Killed(p)
  <2>1. promise' \in [Paths -> Ids \cup {NoId}]
    BY <1>8 DEF Killed, TypeOK
  <2>2. gaps' \subseteq Paths
    BY <1>8, <1>0 DEF Killed, TypeOK
  <2> QED BY <1>8, <2>1, <2>2, TypedNext DEF Killed, Stay, TypeOK
<1>9. CASE PublishResult(p) \/ UseEnds(p)
  BY <1>9, TypedNext DEF PublishResult, UseEnds, Stay, TypeOK
<1> QED BY <1>1, <1>2, <1>3, <1>5, <1>6, <1>7, <1>8, <1>9

LEMMA ManageTyped ==
  ASSUME TypeOK, JobNamed, NEW p \in Procs,
         \/ \E i \in Ids : BeginUnregister(p, i)
         \/ DropMissing(p) \/ DropLock(p) \/ DropMapping(p)
         \/ \E d \in Paths, exchange \in Exchanges : BeginConfigure(p, d, exchange)
         \/ SetLock(p) \/ Set(p)
  PROVE  TypeOK'
<1> USE TypedOf, LeaveTyped
<1>0. job[p] \in Jobs /\ (pc[p] # "idle" => job[p].path \in Paths)
  BY DEF JobNamed, JobOK
<1>1. CASE \E i \in Ids : BeginUnregister(p, i)
  <2>1. PICK i \in Ids : BeginUnregister(p, i)
    BY <1>1
  <2>2. registry[i] \in Paths \cup {NoPath} /\ i \in Ids \cup {NoId}
    BY SMTT(30) DEF TypeOK
  <2>3. [NoJob EXCEPT !.path = registry[i], !.id = i] \in Jobs /\ "drop" \in Points
    BY FirstJobs, <2>2 DEF Points
  <2> QED BY <2>1, <2>3, BeginTyped DEF BeginUnregister
<1>2. CASE DropMissing(p) \/ DropMapping(p)
  <2>1. Drop(p)
    BY <1>2 DEF DropMissing, DropMapping
  <2>2. registry' \in [Ids -> Paths \cup {NoPath}]
    BY <2>1 DEF Drop, Removed, TypeOK
  <2>3. promise' \in [Paths -> Ids \cup {NoId}]
    BY <2>1 DEF Drop, TypeOK
  <2> QED BY <2>1, <2>2, <2>3, TypedNext DEF Drop, Stay, TypeOK
<1>3. CASE DropLock(p)
  <2>1. pc' \in [Procs -> Points]
    BY <1>3 DEF DropLock, Goto, Points
  <2> QED BY <1>3, <2>1, TypedNext DEF DropLock, LockRepository, Stay, TypeOK
<1>4. CASE \E d \in Paths, exchange \in Exchanges : BeginConfigure(p, d, exchange)
  <2>1. PICK d \in Paths, exchange \in Exchanges : BeginConfigure(p, d, exchange)
    BY <1>4
  <2>2. PICK i \in Ids : Begin(p, "set", [NoJob EXCEPT !.path = d, !.id = i, !.exchange = exchange])
    BY <2>1 DEF BeginConfigure
  <2>3. [NoJob EXCEPT !.path = d, !.id = i, !.exchange = exchange] \in Jobs /\ "set" \in Points
    BY FirstJobs DEF Points
  <2> QED BY <2>2, <2>3, BeginTyped
<1>5. CASE SetLock(p)
  <2>1. pc' \in [Procs -> Points]
    BY <1>5 DEF SetLock, Goto, Points
  <2>2. job' \in [Procs -> Jobs]
    <3> DEFINE j == [job[p] EXCEPT !.seen = disk[job[p].path]]
    <3>1. disk[job[p].path] \in Local
      BY <1>5, <1>0 DEF SetLock, TypeOK
    <3>2. j \in Jobs
      BY <1>0, <3>1, JobsChanged, Zenon
    <3>3. job' = [job EXCEPT ![p] = j]
      BY <1>5, Zenon DEF SetLock
    <3> HIDE DEF j
    <3> QED BY <3>2, <3>3
  <2> QED BY <1>5, <2>1, <2>2, TypedNext DEF SetLock, LockRepository, Stay, TypeOK
<1>6. CASE Set(p)
  <2>1. disk' \in [Paths -> Local]
    <3> DEFINE local == [disk[job[p].path] EXCEPT !.config = job[p].exchange]
    <3>1. disk[job[p].path] \in Local /\ job[p].exchange \in Exchanges
      BY <1>6, <1>0 DEF Set, TypeOK, JobNamed, JobOK
    <3>2. local \in Local
      BY <3>1, ConfigChanged, Zenon
    <3>3. disk' = [disk EXCEPT ![job[p].path] = local]
      BY <1>6, Zenon DEF Set
    <3> HIDE DEF local
    <3> QED BY <3>2, <3>3 DEF TypeOK
  <2> QED BY <1>6, <2>1, TypedNext DEF Set, Stay, TypeOK
<1> QED BY <1>1, <1>2, <1>3, <1>4, <1>5, <1>6

LEMMA UseTyped ==
  ASSUME TypeOK, JobNamed, NEW p \in Procs,
         \/ \E i \in Ids : ApplyBegins(p, i)
         \/ \E d \in Paths : ContextBegins(p, d)
         \/ UseLocks(p) \/ UseResolves(p)
  PROVE  TypeOK'
<1> USE TypedOf
<1>0. job[p] \in Jobs
  OBVIOUS
<1>1. CASE \E i \in Ids : ApplyBegins(p, i)
  <2>1. PICK i \in Ids : ApplyBegins(p, i)
    BY <1>1
  <2>2. registry[i] \in Paths /\ disk[registry[i]] \in Local
    BY <2>1 DEF ApplyBegins, TypeOK
  <2>3. PICK target \in Targets(registry[i]) :
          Begin(p, "resolve", [NoJob EXCEPT !.path = registry[i], !.id = i,
                                            !.seen = disk[registry[i]], !.exchange = target])
    BY <2>1 DEF ApplyBegins
  <2>4. target \in Exchanges \cup {"none", "elsewhere"}
    BY SMTT(30), <2>2, <2>3 DEF Targets, Local
  <2>5. [NoJob EXCEPT !.path = registry[i], !.id = i, !.seen = disk[registry[i]],
                      !.exchange = target] \in Jobs /\ "resolve" \in Points
    BY FirstJobs, <2>2, <2>4 DEF Points
  <2> QED BY <2>3, <2>5, BeginTyped
<1>2. CASE \E d \in Paths : ContextBegins(p, d)
  <2>1. PICK d \in Paths, i \in Ids :
          Begin(p, "resolve", [NoJob EXCEPT !.path = d, !.id = i, !.seen = disk[d]])
    BY <1>2 DEF ContextBegins
  <2>2. [NoJob EXCEPT !.path = d, !.id = i, !.seen = disk[d]] \in Jobs /\ "resolve" \in Points
    BY FirstJobs DEF Points, TypeOK
  <2> QED BY <2>1, <2>2, BeginTyped
<1>3. CASE UseLocks(p)
  <2>1. pc' \in [Procs -> Points]
    BY <1>3 DEF UseLocks, Goto, Points
  <2> QED BY <1>3, <2>1, TypedNext DEF UseLocks, LockRepository, Stay, TypeOK
<1>4. CASE UseResolves(p)
  <2>1. pc' \in [Procs -> Points]
    BY <1>4 DEF UseResolves, Goto, Points
  <2>2. job' \in [Procs -> Jobs]
    <3> DEFINE j == [job[p] EXCEPT !.old = registry]
    <3>1. registry \in [Ids -> Paths \cup {NoPath}]
      BY DEF TypeOK
    <3>2. j \in Jobs
      BY <1>0, <3>1, JobsChanged, Zenon
    <3>3. job' = [job EXCEPT ![p] = j]
      BY <1>4, Zenon DEF UseResolves
    <3> HIDE DEF j
    <3> QED BY <3>2, <3>3
  <2> QED BY <1>4, <2>1, <2>2, TypedNext DEF UseResolves, Stay, TypeOK
<1> QED BY <1>1, <1>2, <1>3, <1>4

(* What users do to directories. *)
LEMMA UsersChange ==
  ASSUME TypeOK, Users
  PROVE  \E S \in SUBSET Paths, changed \in [Paths -> Local] :
           /\ acts < Budget /\ acts' = acts + 1
           /\ disk' = [d \in Paths |-> IF d \in S THEN changed[d] ELSE disk[d]]
           /\ touched' = touched \cup (S \X (Procs \cup {NoProc}))
           /\ promise' = [d \in Paths |-> IF d \in S THEN NoId ELSE promise[d]]
           /\ UNCHANGED <<registry, lockVars, pc, job, gaps, overlooked>>
<1>1. ASSUME NEW S \in SUBSET Paths, NEW c, DOMAIN c = S, \A d \in S : c[d] \in Local, Becomes(c)
      PROVE  \E changed \in [Paths -> Local] :
           /\ acts < Budget /\ acts' = acts + 1
           /\ disk' = [d \in Paths |-> IF d \in S THEN changed[d] ELSE disk[d]]
           /\ touched' = touched \cup (S \X (Procs \cup {NoProc}))
           /\ promise' = [d \in Paths |-> IF d \in S THEN NoId ELSE promise[d]]
           /\ UNCHANGED <<registry, lockVars, pc, job, gaps, overlooked>>
  <2> DEFINE changed == [d \in Paths |-> IF d \in S THEN c[d] ELSE Nothing]
  <2>1. changed \in [Paths -> Local]
    BY <1>1, NothingIsLocal
  <2>2. disk' = [d \in Paths |-> IF d \in S THEN changed[d] ELSE disk[d]]
    BY <1>1 DEF Becomes
  <2> QED BY <2>1, <2>2, <1>1 DEF Becomes
<1>2. ASSUME NEW d \in Paths, NEW e \in Paths, Clone(d, e) \/ Copy(d, e) \/ Move(d, e)
      PROVE  \E S \in SUBSET Paths : \E c :
               DOMAIN c = S /\ (\A x \in S : c[x] \in Local) /\ Becomes(c)
  <2>1. CASE Clone(d, e)
    <3>1. DOMAIN [x \in {e} |-> Fresh] = {e} /\ Becomes([x \in {e} |-> Fresh])
          /\ \A x \in {e} : [y \in {e} |-> Fresh][x] \in Local
      BY <2>1, NothingIsLocal DEF Clone
    <3> QED BY <3>1
  <2>2. CASE Copy(d, e)
    <3>1. DOMAIN [x \in {e} |-> disk[d]] = {e} /\ Becomes([x \in {e} |-> disk[d]])
          /\ \A x \in {e} : [y \in {e} |-> disk[d]][x] \in Local
      BY <2>2 DEF Copy, TypeOK
    <3> QED BY <3>1
  <2>3. CASE Move(d, e)
    <3> DEFINE c == [x \in {d, e} |-> IF x = e THEN disk[d] ELSE Nothing]
    <3>1. DOMAIN c = {d, e} /\ Becomes(c) /\ \A x \in {d, e} : c[x] \in Local
      BY <2>3, NothingIsLocal DEF Move, TypeOK
    <3> QED BY <3>1
  <2> QED BY <1>2, <2>1, <2>2, <2>3
<1>3. ASSUME NEW d \in Paths, Delete(d)
      PROVE  \E S \in SUBSET Paths : \E c :
               DOMAIN c = S /\ (\A x \in S : c[x] \in Local) /\ Becomes(c)
  <2>1. DOMAIN [x \in {d} |-> Nothing] = {d} /\ Becomes([x \in {d} |-> Nothing])
        /\ \A x \in {d} : [y \in {d} |-> Nothing][x] \in Local
    BY <1>3, NothingIsLocal DEF Delete
  <2> QED BY <2>1
<1> QED BY <1>1, <1>2, <1>3 DEF Users

LEMMA UsersTyped ==
  ASSUME TypeOK, Users
  PROVE  TypeOK'
<1>1. PICK S \in SUBSET Paths, changed \in [Paths -> Local] :
           /\ acts < Budget /\ acts' = acts + 1
           /\ disk' = [d \in Paths |-> IF d \in S THEN changed[d] ELSE disk[d]]
           /\ touched' = touched \cup (S \X (Procs \cup {NoProc}))
           /\ promise' = [d \in Paths |-> IF d \in S THEN NoId ELSE promise[d]]
           /\ UNCHANGED <<registry, lockVars, pc, job, gaps, overlooked>>
  BY UsersChange
<1>2. disk' \in [Paths -> Local] /\ promise' \in [Paths -> Ids \cup {NoId}]
  BY <1>1 DEF TypeOK
<1>3. touched' \subseteq Paths \X (Procs \cup {NoProc}) /\ acts' \in 0..Budget
  BY <1>1, RegistrationConstants DEF TypeOK
<1> QED BY <1>1, <1>2, <1>3 DEF TypeOK, lockVars

LEMMA CommandTyped ==
  ASSUME TypeOK, JobNamed, NEW p \in Procs, Commands(p)
  PROVE  TypeOK' /\ job' \in [Procs -> Jobs]
<1>1. TypeOK'
  <2>1. CASE \/ \E d \in Paths, new \in BOOLEAN : BeginRegister(p, d, new)
             \/ Observe(p) \/ LockIdentity(p) \/ Check(p)
             \/ WriteExclude(p) \/ WriteId(p) \/ WriteConfig(p) \/ WriteRegistry(p)
    BY <2>1, RegisterTyped
  <2>2. CASE \/ Registered(p) \/ CommitFails(p) \/ RestoreLocal(p) \/ RestoreRegistry(p)
             \/ RestoreRegistryFails(p) \/ Refuse(p) \/ Killed(p) \/ PublishResult(p) \/ UseEnds(p)
    BY <2>2, RegisterEndTyped
  <2>3. CASE \/ \E i \in Ids : BeginUnregister(p, i)
             \/ DropMissing(p) \/ DropLock(p) \/ DropMapping(p)
             \/ \E d \in Paths, exchange \in Exchanges : BeginConfigure(p, d, exchange)
             \/ SetLock(p) \/ Set(p)
    BY <2>3, ManageTyped
  <2>4. CASE \/ \E i \in Ids : ApplyBegins(p, i)
             \/ \E d \in Paths : ContextBegins(p, d)
             \/ UseLocks(p) \/ UseResolves(p)
    BY <2>4, UseTyped
  <2> QED BY <2>1, <2>2, <2>3, <2>4, Zenon DEF Commands
<1> QED BY <1>1 DEF TypeOK, Jobs

-----------------------------------------------------------------------------
(* What the step of one command does to the others and to the locks.        *)

OthersStay(p) ==
  /\ \A q \in Procs \ {p} : pc'[q] = pc[q] /\ job'[q] = job[q]
  /\ acts' = acts
  /\ \A d \in Paths, q \in Procs \ {p} : <<d, q>> \in overlooked => <<d, q>> \in overlooked'
  /\ regLock' # regLock => regLock \in {p, NoProc}
  /\ \A i \in Ids : repoLock'[i] # repoLock[i] => repoLock[i] \in {p, NoProc}

\* Only commands that begin may know less of users afterwards.
Begins(p) ==
  /\ pc[p] = "idle" /\ regLock = NoProc /\ regLock' = p
  /\ pc'[p] \in {"observe", "drop", "set", "resolve"}
  /\ touched' = touched \ (Paths \X {p})
  /\ UNCHANGED <<disk, registry, repoLock, promise, gaps>>

Finishes(p) ==
  /\ pc[p] = "use" /\ pc'[p] = "idle"
  /\ UNCHANGED <<disk, registry, promise, gaps, touched>>

Works(p) ==
  /\ Owns(p) /\ touched' = touched
  /\ Owns(p)' => UNCHANGED <<regLock, promise, gaps>>

Shape(p) == OthersStay(p) /\ (Begins(p) \/ Finishes(p) \/ Works(p))

LEMMA BeginShape ==
  ASSUME TypeOK, NEW p \in Procs, NEW there \in {"observe", "drop", "set", "resolve"}, NEW record,
         Begin(p, there, record)
  PROVE  Shape(p)
BY DEF Begin, Shape, OthersStay, Begins, TypeOK

LEMMA LeaveShape ==
  ASSUME TypeOK, NEW p \in Procs, Leave(p), Stay, pc[p] # "idle",
         pc[p] = "use" => UNCHANGED <<disk, registry, promise, gaps>>
  PROVE  Shape(p) /\ pc'[p] = "idle"
BY DEF Leave, Stay, Shape, OthersStay, Finishes, Works, Owns, TypeOK

LEMMA WorkShape ==
  ASSUME TypeOK, NEW p \in Procs, NEW there \in Points, Goto(p, there), Owns(p),
         UNCHANGED <<acts, touched>>, overlooked \subseteq overlooked',
         regLock' = regLock \/ (there = "use" /\ regLock = p),
         \A q \in Procs \ {p} : job'[q] = job[q],
         UNCHANGED repoLock \/ \E i \in Ids : LockRepository(p, i),
         UNCHANGED <<promise, gaps>>
  PROVE  Shape(p)
BY DEF Goto, Shape, OthersStay, Works, Owns, LockRepository, TypeOK

LEMMA CommandShape ==
  ASSUME TypeOK, LocksOK, Registering, NEW p \in Procs, Commands(p)
  PROVE  Shape(p)
<1>1. CASE \/ \E d \in Paths, new \in BOOLEAN : BeginRegister(p, d, new)
           \/ \E i \in Ids : BeginUnregister(p, i) \/ ApplyBegins(p, i)
           \/ \E d \in Paths, exchange \in Exchanges : BeginConfigure(p, d, exchange)
           \/ \E d \in Paths : ContextBegins(p, d)
  <2>1. \E there \in {"observe", "drop", "set", "resolve"} : \E record : Begin(p, there, record)
    BY <1>1, Zenon DEF BeginRegister, BeginUnregister, ApplyBegins, BeginConfigure, ContextBegins
  <2> QED BY <2>1, BeginShape
<1>2. CASE Registered(p) \/ RestoreRegistry(p) \/ RestoreRegistryFails(p)
  BY <1>2, LeaveShape DEF Registered, RestoreRegistry, RestoreRegistryFails
<1>3. CASE Refuse(p) \/ PublishResult(p) \/ UseEnds(p)
  BY <1>3, LeaveShape DEF Refuse, PublishResult, UseEnds
<1>4. CASE Killed(p)
  <2>1. pc[p] = "use" => ~job[p].new \/ TRUE
    OBVIOUS
  <2> QED BY <1>4, LeaveShape DEF Killed
<1>5. CASE DropMissing(p) \/ DropMapping(p) \/ Set(p)
  BY <1>5, LeaveShape DEF DropMissing, DropMapping, Drop, Set
<1>6. CASE Observe(p) \/ Check(p) \/ CommitFails(p) \/ RestoreLocal(p) \/ WriteRegistry(p)
  <2>1. Observe(p) => Goto(p, "lock") \/ Goto(p, "check")
    BY DEF Observe
  <2>2. \E there \in {"lock", "check", "exclude", "undo", "undo_registry", "written"} : Goto(p, there)
    BY SMTT(30), <1>6, <2>1 DEF Check, CommitFails, RestoreLocal, WriteRegistry
  <2>3. Owns(p)
    BY ZenonT(30), <1>6 DEF Observe, Check, CommitFails, RestoreLocal, WriteRegistry, Owns
  <2>4. \A q \in Procs \ {p} : job'[q] = job[q]
    BY ZenonT(30), <1>6 DEF Observe, Check, CommitFails, RestoreLocal, WriteRegistry, TypeOK
  <2>5. UNCHANGED <<lockVars, promise, gaps, acts, touched>> /\ overlooked \subseteq overlooked'
    BY <1>6 DEF Observe, Check, CommitFails, RestoreLocal, WriteRegistry, Stay
  <2> QED BY <2>2, <2>3, <2>4, <2>5, WorkShape DEF lockVars, Points
<1>7. CASE WriteExclude(p) \/ WriteId(p) \/ WriteConfig(p)
  <2>1. \E there \in Points : Goto(p, there)
    BY <1>7 DEF WriteExclude, WriteId, WriteConfig, Points
  <2>2. Owns(p) /\ Stay /\ UNCHANGED <<lockVars, job, promise, gaps>>
    BY <1>7 DEF WriteExclude, WriteId, WriteConfig, Write, Owns
  <2> QED BY <2>1, <2>2, WorkShape DEF lockVars, Stay
<1>8. CASE LockIdentity(p) \/ DropLock(p) \/ SetLock(p) \/ UseLocks(p)
  <2>1. \E there \in Points : Goto(p, there)
    BY <1>8 DEF LockIdentity, DropLock, SetLock, UseLocks, Points
  <2>2. Owns(p) /\ Stay /\ UNCHANGED <<regLock, promise, gaps>>
    BY <1>8 DEF LockIdentity, DropLock, SetLock, UseLocks, Owns
  <2>3. \A q \in Procs \ {p} : job'[q] = job[q]
    BY <1>8 DEF LockIdentity, DropLock, SetLock, UseLocks, TypeOK
  <2>4. \E i \in Ids : LockRepository(p, i)
    <3>1. LockIdentity(p) => Affected(p) \in Ids
      BY DEF LockIdentity, LocksOK, JobNamed, JobOK, Affected, TypeOK, Local
    <3>2. pc[p] \in {"drop", "set", "resolve"} => job[p].id \in Ids
      BY DEF LocksOK, JobNamed, JobOK
    <3> QED BY <1>8, <3>1, <3>2 DEF LockIdentity, DropLock, SetLock, UseLocks
  <2> QED BY <2>1, <2>2, <2>3, <2>4, WorkShape DEF Stay
<1>9. CASE UseResolves(p)
  <2>1. Goto(p, "use") /\ "use" \in Points /\ Owns(p) /\ Stay /\ UNCHANGED <<repoLock, promise, gaps>>
    BY <1>9 DEF UseResolves, Points, Owns
  <2>2. \A q \in Procs \ {p} : job'[q] = job[q]
    BY <1>9 DEF UseResolves, TypeOK
  <2>3. regLock = p
    BY <2>1 DEF LocksOK, RegistryLocked
  <2> QED BY <2>1, <2>2, <2>3, WorkShape DEF Stay
<1> QED BY <1>1, <1>2, <1>3, <1>4, <1>5, <1>6, <1>7, <1>8, <1>9 DEF Commands

LEMMA OneOwner ==
  ASSUME LocksOK, NEW p \in Procs, NEW q \in Procs, Owns(p), Owns(q)
  PROVE  p = q
BY DEF LocksOK, RegistryLocked

(* Beside the holder of the registry lock commands can only finish.         *)
LEMMA OnlyFinishes ==
  ASSUME LocksOK, NEW p \in Procs, NEW q \in Procs \ {p}, Shape(p), Owns(q)
  PROVE  Finishes(p)
<1>1. regLock = q /\ q # NoProc
  BY RegistrationConstants DEF LocksOK, RegistryLocked
<1>2. ~Works(p)
  BY OneOwner DEF Works
<1> QED BY <1>1, <1>2 DEF Shape, Begins

(* The locks of a command and what it knows after its own step.             *)
LEMMA BeginLocked ==
  ASSUME TypeOK, NEW p \in Procs, NEW there, NEW record, Begin(p, there, record)
  PROVE  /\ pc'[p] = there /\ job'[p] = record
         /\ UNCHANGED <<disk, registry, repoLock, acts, promise, gaps>>
BY DEF Begin, TypeOK

LEMMA OwnLocks ==
  ASSUME TypeOK, LocksOK, NEW p \in Procs, Commands(p)
  PROVE  LockedBy(p)' /\ JobOK(p)'
<1>0. LockedBy(p) /\ JobOK(p) /\ pc[p] \in Points /\ job[p] \in Jobs
  BY TypedOf DEF LocksOK, IdentityLocked, JobNamed
<1>1. CASE \E d \in Paths, new \in BOOLEAN : BeginRegister(p, d, new)
  <2>1. PICK d \in Paths, new \in BOOLEAN : BeginRegister(p, d, new)
    BY <1>1
  <2>2. pc'[p] = "observe" /\ job'[p] = [NoJob EXCEPT !.path = d, !.new = new]
    BY <2>1, BeginLocked DEF BeginRegister
  <2>3. job'[p].path = d
    BY <2>2 DEF NoJob
  <2> QED BY <2>2, <2>3 DEF LockedBy, JobOK, Committing
<1>2. CASE \E i \in Ids : BeginUnregister(p, i)
  <2>1. PICK i \in Ids : BeginUnregister(p, i)
    BY <1>2
  <2>2. /\ pc'[p] = "drop" /\ registry' = registry
        /\ job'[p] = [NoJob EXCEPT !.path = registry[i], !.id = i]
    BY <2>1, BeginLocked DEF BeginUnregister
  <2>3. job'[p].path = registry[i] /\ job'[p].id = i
    BY <2>2 DEF NoJob
  <2>4. registry[i] \in Paths
    BY <2>1 DEF BeginUnregister, TypeOK
  <2> QED BY <2>2, <2>3, <2>4 DEF LockedBy, JobOK, Committing
<1>3. CASE \E d \in Paths, exchange \in Exchanges : BeginConfigure(p, d, exchange)
  <2>1. PICK d \in Paths, exchange \in Exchanges, i \in Ids :
          Begin(p, "set", [NoJob EXCEPT !.path = d, !.id = i, !.exchange = exchange])
    BY <1>3 DEF BeginConfigure
  <2>2. pc'[p] = "set" /\ job'[p] = [NoJob EXCEPT !.path = d, !.id = i, !.exchange = exchange]
    BY <2>1, BeginLocked
  <2>3. job'[p].path = d /\ job'[p].id = i /\ job'[p].exchange = exchange
    BY <2>2 DEF NoJob
  <2> QED BY <2>2, <2>3 DEF LockedBy, JobOK, Committing
<1>4. CASE \E i \in Ids : ApplyBegins(p, i)
  <2>1. PICK i \in Ids : ApplyBegins(p, i)
    BY <1>4
  <2>2. PICK target \in Targets(registry[i]) :
          Begin(p, "resolve", [NoJob EXCEPT !.path = registry[i], !.id = i,
                                            !.seen = disk[registry[i]], !.exchange = target])
    BY <2>1 DEF ApplyBegins
  <2>3. pc'[p] = "resolve" /\ job'[p] = [NoJob EXCEPT !.path = registry[i], !.id = i,
                                            !.seen = disk[registry[i]], !.exchange = target]
    BY <2>2, BeginLocked
  <2>4. /\ job'[p].path = registry[i] /\ job'[p].id = i /\ job'[p].exchange = target
        /\ job'[p].seen = disk[registry[i]]
    BY <2>3 DEF NoJob
  <2>5. registry[i] \in Paths /\ target \in {"elsewhere", disk[registry[i]].config}
    BY <2>1, <2>2 DEF ApplyBegins, Targets, TypeOK
  <2> QED BY <2>3, <2>4, <2>5 DEF LockedBy, JobOK, Committing
<1>5. CASE \E d \in Paths : ContextBegins(p, d)
  <2>1. PICK d \in Paths, i \in Ids :
          Begin(p, "resolve", [NoJob EXCEPT !.path = d, !.id = i, !.seen = disk[d]])
    BY <1>5 DEF ContextBegins
  <2>2. pc'[p] = "resolve" /\ job'[p] = [NoJob EXCEPT !.path = d, !.id = i, !.seen = disk[d]]
    BY <2>1, BeginLocked
  <2>3. job'[p].path = d /\ job'[p].id = i /\ job'[p].exchange = "none"
    BY <2>2 DEF NoJob
  <2> QED BY <2>2, <2>3 DEF LockedBy, JobOK, Committing
<1>6. ASSUME Leave(p)
      PROVE  LockedBy(p)' /\ JobOK(p)'
  <2>1. pc'[p] = "idle"
    BY <1>6 DEF Leave, TypeOK
  <2> QED BY <2>1 DEF LockedBy, JobOK, Committing
<1>7. CASE \/ Registered(p) \/ RestoreRegistry(p) \/ RestoreRegistryFails(p) \/ Refuse(p)
           \/ DropMissing(p) \/ DropMapping(p) \/ Set(p) \/ PublishResult(p) \/ UseEnds(p)
           \/ Killed(p)
  BY <1>6, <1>7 DEF Registered, RestoreRegistry, RestoreRegistryFails, Refuse, DropMissing,
     DropMapping, Drop, Set, PublishResult, UseEnds, Killed
<1>8. CASE Observe(p)
  <2>1. PICK i \in Ids :
          job' = [job EXCEPT ![p] = [@ EXCEPT !.id = i, !.seen = disk[job[p].path], !.old = registry]]
    BY <1>8, Zenon DEF Observe
  <2>2. job'[p] = [job[p] EXCEPT !.id = i, !.seen = disk[job[p].path], !.old = registry]
    BY <2>1 DEF TypeOK
  <2>3. job'[p].path = job[p].path /\ job'[p].id = i /\ job'[p].new = job[p].new
    BY <2>2, <1>0 DEF Jobs
  <2>4. pc'[p] = IF job[p].new THEN "lock" ELSE "check"
    BY <1>8 DEF Observe, Goto, TypeOK
  <2>5. job'[p].path \in Paths
    BY <1>8, <1>0, <2>3 DEF Observe, JobOK
  <2> QED BY <2>3, <2>4, <2>5 DEF LockedBy, JobOK, Committing
<1>9. ASSUME NEW there \in Committing, Goto(p, there), UNCHANGED repoLock,
             job'[p].path = job[p].path, job'[p].id = job[p].id, job'[p].new = job[p].new,
             job'[p].seen = job[p].seen, pc[p] \in {"check"} \cup Committing
      PROVE  LockedBy(p)' /\ JobOK(p)'
  <2>1. pc'[p] = there
    BY <1>9 DEF Goto, TypeOK
  <2> QED BY <2>1, <1>9, <1>0 DEF LockedBy, JobOK, Committing, Affected
<1>10. CASE \/ Check(p) \/ WriteExclude(p) \/ WriteId(p) \/ WriteConfig(p) \/ WriteRegistry(p)
            \/ CommitFails(p)
  <2>1. UNCHANGED <<repoLock, job>> /\ pc[p] \in {"check"} \cup Committing
    BY <1>10 DEF Check, WriteExclude, WriteId, WriteConfig, Write, WriteRegistry, CommitFails,
       lockVars, Committing
  <2>2. \E there \in Committing : Goto(p, there)
    BY <1>10 DEF Check, WriteExclude, WriteId, WriteConfig, WriteRegistry, CommitFails, Committing
  <2> QED BY <2>1, <2>2, <1>9
<1>11. CASE RestoreLocal(p)
  <2>1. PICK b \in BOOLEAN : job' = [job EXCEPT ![p] = [@ EXCEPT !.dirty = b]]
    BY <1>11, Zenon DEF RestoreLocal
  <2>2. job'[p] = [job[p] EXCEPT !.dirty = b]
    BY <2>1 DEF TypeOK
  <2>3. /\ job'[p].path = job[p].path /\ job'[p].id = job[p].id /\ job'[p].new = job[p].new
        /\ job'[p].seen = job[p].seen
    BY <2>2, <1>0 DEF Jobs
  <2>4. UNCHANGED repoLock /\ Goto(p, "undo_registry") /\ pc[p] = "undo"
    BY <1>11 DEF RestoreLocal, lockVars
  <2> QED BY <2>3, <2>4, <1>9 DEF Committing
<1>12. CASE LockIdentity(p) \/ DropLock(p) \/ UseLocks(p)
  <2>1. UNCHANGED <<job, registry>> /\ pc[p] \in {"lock", "drop", "resolve"}
    BY <1>12 DEF LockIdentity, DropLock, UseLocks
  <2>2. Affected(p)' = Affected(p)
    BY <2>1 DEF Affected
  <2>3. LockIdentity(p) => Affected(p) \in Ids
    BY <1>0 DEF LockIdentity, JobOK, Affected, TypeOK, Local
  <2>4. LockIdentity(p) => pc'[p] = "check" /\ repoLock'[Affected(p)] = p
    BY <2>3 DEF LockIdentity, LockRepository, Goto, TypeOK
  <2>5. DropLock(p) => pc'[p] = "drop_check" /\ repoLock'[job[p].id] = p
    BY <1>0 DEF DropLock, LockRepository, Goto, TypeOK, JobOK
  <2>6. UseLocks(p) => pc'[p] = "resolved" /\ repoLock'[job[p].id] = p
    BY <1>0 DEF UseLocks, LockRepository, Goto, TypeOK, JobOK
  <2> QED BY <1>0, <1>12, <2>1, <2>2, <2>4, <2>5, <2>6
       DEF LockedBy, JobOK, Committing, LockIdentity, DropLock, UseLocks
<1>13. CASE SetLock(p)
  <2>1. job'[p] = [job[p] EXCEPT !.seen = disk[job[p].path]]
    BY <1>13 DEF SetLock, TypeOK
  <2>2. job'[p].path = job[p].path /\ job'[p].id = job[p].id /\ job'[p].exchange = job[p].exchange
    BY <2>1, <1>0 DEF Jobs
  <2>3. pc[p] = "set" /\ pc'[p] = "set_check" /\ repoLock'[job[p].id] = p
    BY <1>0, <1>13 DEF SetLock, LockRepository, Goto, TypeOK, JobOK
  <2> QED BY <1>0, <2>2, <2>3 DEF LockedBy, JobOK, Committing
<1>14. CASE UseResolves(p)
  <2>1. job'[p] = [job[p] EXCEPT !.old = registry]
    BY <1>14 DEF UseResolves, TypeOK
  <2>2. /\ job'[p].path = job[p].path /\ job'[p].id = job[p].id
        /\ job'[p].exchange = job[p].exchange /\ job'[p].seen = job[p].seen
    BY <2>1, <1>0 DEF Jobs
  <2>3. pc[p] = "resolved" /\ pc'[p] = "use" /\ UNCHANGED repoLock
    BY <1>14 DEF UseResolves, Goto, TypeOK
  <2> QED BY <1>0, <2>2, <2>3 DEF LockedBy, JobOK, Committing
<1> QED BY <1>1, <1>2, <1>3, <1>4, <1>5, <1>7, <1>8, <1>10, <1>11, <1>12, <1>13, <1>14 DEF Commands

LEMMA LocksKept ==
  ASSUME TypeOK, LocksOK, Registering, NEW p \in Procs, Commands(p)
  PROVE  LocksOK'
<1>1. Shape(p) /\ LockedBy(p)' /\ JobOK(p)'
  BY CommandShape, OwnLocks
<1>2. \A q \in Procs \ {p} : pc'[q] = pc[q] /\ job'[q] = job[q]
  BY <1>1 DEF Shape, OthersStay
<1>3. p # NoProc
  BY RegistrationConstants
<1>4. RegistryLocked'
  <2>1. ASSUME NEW q \in Procs, Owns(q)'
        PROVE  regLock' = q
    <3>1. CASE q = p
      BY <3>1, <2>1, <1>1 DEF Shape, Begins, Finishes, Works, Owns, LocksOK, RegistryLocked
    <3>2. CASE q # p
      <4>1. regLock = q /\ q # NoProc
        BY <3>2, <2>1, <1>2, RegistrationConstants DEF Owns, LocksOK, RegistryLocked
      <4> QED BY <4>1, <3>2, <1>1 DEF Shape, OthersStay
    <3> QED BY <3>1, <3>2
  <2> QED BY <2>1 DEF RegistryLocked
<1>5. IdentityLocked'
  <2>1. ASSUME NEW q \in Procs \ {p}
        PROVE  LockedBy(q)'
    <3>1. \A i \in Ids : repoLock[i] = q => repoLock'[i] = q
      BY <1>1, RegistrationConstants DEF Shape, OthersStay
    <3>2. Affected(q)' = Affected(q)
      BY <1>2 DEF Affected
    <3>3. pc[q] \notin {"idle", "observe"} => Affected(q) \in Ids /\ job[q].id \in Ids
      BY DEF LocksOK, JobNamed, JobOK, Affected, TypeOK, Local
    <3> QED BY <1>2, <3>1, <3>2, <3>3 DEF LockedBy, LocksOK, IdentityLocked, Committing
  <2> QED BY <2>1, <1>1 DEF IdentityLocked
<1>6. JobNamed'
  <2>1. ASSUME NEW q \in Procs \ {p}
        PROVE  JobOK(q)'
    <3>1. pc[q] \in {"drop", "drop_check"} => registry' = registry
      BY <1>1, OnlyFinishes DEF Owns, Finishes
    <3> QED BY <1>2, <3>1 DEF JobOK, LocksOK, JobNamed
  <2> QED BY <2>1, <1>1 DEF JobNamed
<1>7. TouchesKnown'
  <2>1. touched' \subseteq touched /\ (\A d \in Paths, q \in Procs \cup {NoProc} :
          <<d, q>> \in touched /\ q # p => <<d, q>> \in touched')
    BY <1>1 DEF Shape, Begins, Finishes, Works
  <2>2. ASSUME NEW q \in Procs, NEW d \in Paths, Owns(q)'
        PROVE  /\ promise'[d] # NoId => Untouched(q, d)'
               /\ \A r \in Procs : pc'[r] = "use" /\ Untouched(r, d)' => Untouched(q, d)'
    <3>1. CASE Begins(p)
      <4>1. q = p
        BY <3>1, <2>2, <1>2, RegistrationConstants
           DEF Begins, Owns, LocksOK, RegistryLocked
      <4> QED BY <3>1, <4>1 DEF Begins, Untouched
    <3>2. CASE Finishes(p)
      <4>1. q # p /\ Owns(q)
        BY <3>2, <2>2, <1>2 DEF Finishes, Owns
      <4>2. \A r \in Procs : pc'[r] = "use" => pc[r] = "use"
        BY <3>2, <1>2 DEF Finishes
      <4> QED BY <3>2, <4>1, <4>2 DEF Finishes, Untouched, LocksOK, TouchesKnown
    <3>3. CASE Works(p)
      <4>1. q = p
        BY <3>3, <2>2, <1>2, OneOwner DEF Works, Owns
      <4>2. UNCHANGED <<promise, touched>>
        BY <3>3, <4>1, <2>2 DEF Works
      <4>3. \A r \in Procs : pc'[r] = "use" => pc[r] = "use"
        BY <2>2, <4>1, <1>2 DEF Owns
      <4> QED BY <3>3, <4>1, <4>2, <4>3 DEF Works, Untouched, LocksOK, TouchesKnown
    <3> QED BY <1>1, <3>1, <3>2, <3>3 DEF Shape
  <2>3. ASSUME NEW q \in Procs, NEW d \in Paths, <<d, q>> \in touched'
        PROVE  <<d, NoProc>> \in touched'
    BY <2>1, <2>3, <1>3 DEF LocksOK, TouchesKnown
  <2> QED BY <2>2, <2>3 DEF TouchesKnown
<1> QED BY <1>4, <1>5, <1>6, <1>7 DEF LocksOK

(* Users take no locks, and what they touch every command is behind.        *)
UsersEffect(S, changed) ==
  /\ disk' = [d \in Paths |-> IF d \in S THEN changed[d] ELSE disk[d]]
  /\ touched' = touched \cup (S \X (Procs \cup {NoProc}))
  /\ promise' = [d \in Paths |-> IF d \in S THEN NoId ELSE promise[d]]
  /\ UNCHANGED <<registry, lockVars, pc, job, gaps, overlooked>>

LEMMA UsersLocks ==
  ASSUME TypeOK, LocksOK, NEW S \in SUBSET Paths, NEW changed, UsersEffect(S, changed)
  PROVE  LocksOK'
<1>1. RegistryLocked' /\ IdentityLocked' /\ JobNamed'
  BY DEF UsersEffect, lockVars, LocksOK, RegistryLocked, IdentityLocked, JobNamed, LockedBy, JobOK,
     Owns, Affected
<1>2. TouchesKnown'
  <2>1. \A d \in Paths, q \in Procs \cup {NoProc} :
          <<d, q>> \in touched' <=> (d \in S \/ <<d, q>> \in touched)
    BY DEF UsersEffect
  <2>2. \A d \in Paths : promise'[d] # NoId => d \notin S /\ promise[d] # NoId
    BY DEF UsersEffect
  <2> QED BY <2>1, <2>2 DEF LocksOK, TouchesKnown, Untouched, Owns, UsersEffect
<1> QED BY <1>1, <1>2 DEF LocksOK

-----------------------------------------------------------------------------
(* A registration: what it observes, and what each of its steps keeps.      *)

LEMMA IntendedIs ==
  ASSUME NEW j \in Jobs
  PROVE  /\ Intended(j) \in Local
         /\ Intended(j).here = j.seen.here /\ Intended(j).exclude /\ Intended(j).id = j.id
         /\ Intended(j).config = IF j.seen.id = NoId THEN "unset" ELSE j.seen.config
BY DEF Intended, Jobs, Local

LEMMA SameLocal ==
  ASSUME NEW a \in Local, NEW b \in Local,
         a.here = b.here, a.id = b.id, a.exclude = b.exclude, a.config = b.config
  PROVE  a = b
BY DEF Local

LEMMA RestoredIs ==
  ASSUME NEW a \in Local, NEW b \in Local, NEW failed
  PROVE  /\ Restored(a, b, failed) \in Local /\ Restored(a, b, failed).here = a.here
         /\ Restored(a, b, failed).exclude = IF "exclude" \in failed THEN a.exclude ELSE b.exclude
         /\ Restored(a, b, failed).id = IF "id" \in failed THEN a.id ELSE b.id
         /\ Restored(a, b, failed).config = IF "config" \in failed THEN a.config ELSE b.config
BY DEF Restored, Local

LEMMA Arrives ==
  ASSUME TypeOK, NEW p \in Procs
  PROVE  \A there : Goto(p, there) => pc'[p] = there
BY DEF Goto, TypeOK

LEMMA RegisterSteps ==
  ASSUME TypeOK, NEW p \in Procs, Commands(p), pc'[p] \in Observing
  PROVE  \/ Observe(p) \/ LockIdentity(p) \/ Check(p)
         \/ WriteExclude(p) \/ WriteId(p) \/ WriteConfig(p) \/ WriteRegistry(p)
         \/ CommitFails(p) \/ RestoreLocal(p)
<1>0. pc'[p] \notin {"idle", "observe", "drop", "drop_check", "set", "set_check", "resolve", "resolved", "use"}
  BY DEF Observing, Committing
<1>1. ~Leave(p)
  BY <1>0 DEF Leave, TypeOK
<1>2. \A there \in {"observe", "drop", "set", "resolve"} : \A record : ~Begin(p, there, record)
  BY <1>0, BeginLocked, TypedOf
<1>3. \A there \in {"drop_check", "set_check", "resolved", "use"} : ~Goto(p, there)
  BY <1>0 DEF Goto, TypeOK
<1>4. ~DropLock(p) /\ ~SetLock(p) /\ ~UseLocks(p) /\ ~UseResolves(p)
  BY <1>3 DEF DropLock, SetLock, UseLocks, UseResolves
<1>5. /\ ~Registered(p) /\ ~RestoreRegistry(p) /\ ~RestoreRegistryFails(p) /\ ~Refuse(p)
      /\ ~DropMissing(p) /\ ~DropMapping(p) /\ ~Set(p) /\ ~PublishResult(p) /\ ~UseEnds(p)
      /\ ~Killed(p)
  BY <1>1 DEF Registered, RestoreRegistry, RestoreRegistryFails, Refuse, DropMissing,
     DropMapping, Drop, Set, PublishResult, UseEnds, Killed
<1>6. /\ \A d \in Paths, new \in BOOLEAN : ~BeginRegister(p, d, new)
      /\ \A i \in Ids : ~BeginUnregister(p, i) /\ ~ApplyBegins(p, i)
      /\ \A d \in Paths, exchange \in Exchanges : ~BeginConfigure(p, d, exchange)
      /\ \A d \in Paths : ~ContextBegins(p, d)
  BY <1>2, Zenon DEF BeginRegister, BeginUnregister, ApplyBegins, BeginConfigure, ContextBegins
<1> QED BY <1>4, <1>5, <1>6 DEF Commands

(* Nobody commits while another command holds the registry lock.            *)
LEMMA NobodyCommits ==
  ASSUME LocksOK, NEW p \in Procs, Owns(p), pc[p] \notin Committing
  PROVE  \A d \in Paths : ~UnderWay(d)
BY OneOwner DEF UnderWay, Committing, Owns

LEMMA ObserveStarts ==
  ASSUME TypeOK, LocksOK, PromiseKept, NEW p \in Procs, Observe(p)
  PROVE  RegisterOK(p)'
<1> DEFINE d == job[p].path
<1>1. PICK i \in Ids :
        /\ IF job[p].new \/ disk[d].id = NoId THEN Unknown(i)
           ELSE i = disk[d].id /\ ~RegisteredElsewhere(d)
        /\ job' = [job EXCEPT ![p] = [@ EXCEPT !.id = i, !.seen = disk[d], !.old = registry]]
  BY Zenon DEF Observe
<1>2. job'[p] = [job[p] EXCEPT !.id = i, !.seen = disk[d], !.old = registry]
  BY <1>1 DEF TypeOK
<1>3. /\ job'[p].path = d /\ job'[p].id = i /\ job'[p].seen = disk[d] /\ job'[p].old = registry
      /\ job'[p].new = job[p].new
  BY <1>2, TypedOf DEF Jobs
<1>4. d \in Paths /\ disk[d] \in Local
  BY DEF Observe, LocksOK, JobNamed, JobOK, TypeOK
<1>5. /\ (\E unread \in SUBSET Paths : Acceptable(d, unread)) /\ pc'[p] \in {"lock", "check"}
      /\ UNCHANGED <<disk, registry, promise, gaps, touched>>
  BY DEF Observe, Goto, Stay, TypeOK
<1>6. \A e \in Paths : promise[e] # NoId => Mapped(e) = {promise[e]} /\ Usable(e, promise[e])
  BY NobodyCommits DEF Observe, Owns, Committing, PromiseKept
<1>7. NoPath \notin Paths /\ NoId \notin Ids
  BY RegistrationConstants
<1>8. \A r, e : MappedIn(r, e) = {j \in Ids : r[j] = e}
  BY DEF MappedIn
<1> HIDE DEF d
<1>9. SeenOK(p)'
  <2>1. /\ disk[d].here
        /\ IF disk[d].id = NoId THEN disk[d].config = "none" /\ Mapped(d) = {} ELSE Usable(d, disk[d].id)
    BY <1>5 DEF Acceptable
  <2>2. IF job[p].new \/ disk[d].id = NoId THEN registry[i] = NoPath ELSE i = disk[d].id
    BY <1>1 DEF Unknown
  <2>3. MappedIn(registry, d) = Mapped(d)
    BY DEF MappedIn, Mapped
  <2> QED BY <1>3, <1>5, <2>1, <2>2, <2>3 DEF SeenOK, Usable, HasIdentity, MappedIn
<1>10. RegistryAt(p)'
  BY <1>3, <1>5 DEF RegistryAt
<1>11. ASSUME NEW e \in Paths \ {d}, disk[e].here
       PROVE  registry[i] # e
  <2>1. CASE Unknown(i)
    BY <2>1, <1>7 DEF Unknown
  <2>2. CASE i = disk[d].id /\ ~RegisteredElsewhere(d)
    BY <2>2, <1>11, <1>7 DEF RegisteredElsewhere
  <2> QED BY <1>1, <2>1, <2>2
<1>12. PromiseSeen(p)'
  <2>1. ASSUME NEW e \in Paths, promise[e] # NoId
        PROVE  /\ MappedIn(registry, e) = {promise[e]} /\ (e = d => disk[d].id = promise[e])
               /\ (e # d => i # promise[e])
    <3>1. Mapped(e) = {promise[e]} /\ Usable(e, promise[e])
      BY <2>1, <1>6
    <3>2. disk[e].here /\ disk[e].id = promise[e] /\ registry[promise[e]] = e
      BY <3>1 DEF Usable, HasIdentity, Identified, Mapped
    <3> QED BY <3>1, <3>2, <1>11 DEF MappedIn, Mapped
  <2> QED BY <2>1, <1>3, <1>5 DEF PromiseSeen, MappedIn
<1>13. OldGone(p)'
  BY <1>11, <1>3, <1>5 DEF OldGone
<1>14. LocalAt(p)'
  <2>1. job'[p] \in Jobs
    BY CommandTyped DEF LocksOK, Commands
  <2>2. disk[d].here
    BY <1>5 DEF Acceptable
  <2> QED BY <1>3, <1>5, <2>1, <2>2, IntendedIs DEF LocalAt
<1> QED BY <1>9, <1>10, <1>12, <1>13, <1>14 DEF RegisterOK

(* The files a registration writes, while no user interferes.               *)
LEMMA LocalWritten ==
  ASSUME TypeOK, LocksOK, NEW p \in Procs, pc[p] \in Observing, SeenOK(p), LocalAt(p),
         WriteExclude(p) \/ WriteId(p) \/ WriteConfig(p) \/ RestoreLocal(p)
  PROVE  LocalAt(p)'
<1> DEFINE d == job[p].path
           j == job[p]
<1>0. j \in Jobs /\ d \in Paths /\ disk[d] \in Local /\ j.seen \in Local /\ j.id \in Ids
  BY TypedOf DEF LocksOK, JobNamed, JobOK, TypeOK, Jobs, Observing, Committing
<1>1. /\ Intended(j) \in Local
      /\ Intended(j).here = j.seen.here /\ Intended(j).exclude /\ Intended(j).id = j.id
      /\ Intended(j).config = IF j.seen.id = NoId THEN "unset" ELSE j.seen.config
  BY <1>0, IntendedIs
<1>2. j.seen.here /\ disk[d].here
  BY DEF SeenOK, LocalAt
<1>3. CASE WriteExclude(p)
  <2>1. pc[p] = "exclude" /\ pc'[p] = "id" /\ job' = job
    BY <1>3 DEF WriteExclude, Write, Goto, TypeOK
  <2>2. disk'[d] = [disk[d] EXCEPT !.exclude = @ \/ ~j.seen.exclude]
    BY <1>3, <1>0 DEF WriteExclude, Write, TypeOK
  <2>3. disk[d] = j.seen
    BY <2>1 DEF LocalAt
  <2>4. disk'[d] = [j.seen EXCEPT !.exclude = TRUE]
    BY <2>2, <2>3, <1>0 DEF Local
  <2> QED BY <2>1, <2>4, <1>0, <1>1, <1>2 DEF LocalAt, Local
<1>4. CASE WriteId(p)
  <2>1. pc[p] = "id" /\ pc'[p] = (IF j.seen.id = NoId THEN "config" ELSE "registry") /\ job' = job
    BY <1>4 DEF WriteId, Write, Goto, TypeOK
  <2>2. disk'[d] = [disk[d] EXCEPT !.id = j.id]
    BY <1>4, <1>0 DEF WriteId, Write, TypeOK
  <2>3. disk[d] = [j.seen EXCEPT !.exclude = TRUE]
    BY <2>1 DEF LocalAt
  <2>4. disk'[d] = [j.seen EXCEPT !.exclude = TRUE, !.id = j.id]
    BY <2>2, <2>3, <1>0 DEF Local
  <2>5. j.seen.id # NoId => disk'[d] = Intended(j)
    BY <2>4 DEF Intended
  <2> QED BY <2>1, <2>4, <2>5, <1>0, <1>1, <1>2 DEF LocalAt, Local
<1>5. CASE WriteConfig(p)
  <2>1. pc[p] = "config" /\ pc'[p] = "registry" /\ job' = job
    BY <1>5 DEF WriteConfig, Write, Goto, TypeOK
  <2>2. disk'[d] = [disk[d] EXCEPT !.config = "unset"]
    BY <1>5, <1>0 DEF WriteConfig, Write, TypeOK
  <2>3. j.seen.id = NoId /\ disk[d] = [j.seen EXCEPT !.exclude = TRUE, !.id = j.id]
    BY <2>1 DEF LocalAt
  <2>4. disk'[d] = Intended(j)
    BY <2>2, <2>3, <1>0 DEF Local, Intended
  <2> QED BY <2>1, <2>4, <1>0, <1>1, <1>2 DEF LocalAt, Local
<1>6. CASE RestoreLocal(p)
  <2>1. pc[p] = "undo" /\ pc'[p] = "undo_registry"
    BY <1>6 DEF RestoreLocal, Goto, TypeOK
  <2>2. PICK failed \in SUBSET {"config", "id", "exclude"} :
          /\ disk' = [disk EXCEPT ![d] = Restored(disk[d], j.seen, failed)]
          /\ job' = [job EXCEPT ![p].dirty = failed # {}]
    BY <1>6, <1>2 DEF RestoreLocal
  <2>3. job'[p] = [j EXCEPT !.dirty = failed # {}]
    BY <2>2 DEF TypeOK
  <2>4. /\ job'[p].path = d /\ job'[p].id = j.id /\ job'[p].seen = j.seen
        /\ job'[p].dirty = (failed # {}) /\ Intended(job'[p]) = Intended(j)
    BY <2>3, <1>0 DEF Jobs, Intended
  <2>5. disk'[d] = Restored(disk[d], j.seen, failed)
    BY <2>2, <1>0 DEF TypeOK
  <2>6. /\ disk'[d] \in Local /\ disk'[d].here
        /\ disk'[d].exclude \in {disk[d].exclude, j.seen.exclude}
        /\ disk'[d].id \in {disk[d].id, j.seen.id}
        /\ disk'[d].config \in {disk[d].config, j.seen.config}
        /\ failed = {} => /\ disk'[d].exclude = j.seen.exclude /\ disk'[d].id = j.seen.id
                          /\ disk'[d].config = j.seen.config
    BY <2>5, <1>0, <1>2 DEF Restored, Local
  <2>7. failed = {} => disk'[d] = j.seen
    BY <2>6, <1>0, <1>2, SameLocal
  <2> QED BY <2>1, <2>4, <2>6, <2>7, <1>1 DEF LocalAt
<1> QED BY <1>3, <1>4, <1>5, <1>6

LEMMA SeenStays ==
  ASSUME TypeOK, NEW p \in Procs, Commands(p), pc[p] \in Observing, pc'[p] \in Observing
  PROVE  /\ job'[p].path = job[p].path /\ job'[p].id = job[p].id /\ job'[p].seen = job[p].seen
         /\ job'[p].old = job[p].old /\ job'[p].new = job[p].new
<1>0. job[p] \in Jobs
  BY TypedOf
<1>1. \/ LockIdentity(p) \/ Check(p)
      \/ WriteExclude(p) \/ WriteId(p) \/ WriteConfig(p) \/ WriteRegistry(p)
      \/ CommitFails(p) \/ RestoreLocal(p)
  BY RegisterSteps DEF Observe, Observing, Committing
<1>2. CASE RestoreLocal(p)
  <2>1. PICK b \in BOOLEAN : job' = [job EXCEPT ![p] = [@ EXCEPT !.dirty = b]]
    BY <1>2, Zenon DEF RestoreLocal
  <2>2. job'[p] = [job[p] EXCEPT !.dirty = b]
    BY <2>1 DEF TypeOK
  <2> QED BY <2>2, <1>0 DEF Jobs
<1>3. CASE ~RestoreLocal(p)
  BY <1>3, <1>1 DEF LockIdentity, Check, WriteExclude, WriteId, WriteConfig, Write,
     WriteRegistry, CommitFails
<1> QED BY <1>2, <1>3

(* What was seen stays, and the registry is old or written.                 *)
LEMMA RegisterKept ==
  ASSUME TypeOK, LocksOK, NEW p \in Procs, Commands(p), pc[p] \in Observing,
         pc'[p] \in Observing, RegisterOK(p)
  PROVE  RegisterOK(p)'
<1> DEFINE d == job[p].path
           j == job[p]
<1>0. j \in Jobs /\ d \in Paths /\ j.id \in Ids
  BY TypedOf DEF LocksOK, JobNamed, JobOK, Observing, Committing
<1>1. \/ LockIdentity(p) \/ Check(p)
      \/ WriteExclude(p) \/ WriteId(p) \/ WriteConfig(p) \/ WriteRegistry(p)
      \/ CommitFails(p) \/ RestoreLocal(p)
  BY RegisterSteps DEF Observe, Observing, Committing
<1>2. UNCHANGED <<promise, gaps, touched>>
  BY <1>1 DEF LockIdentity, Check, WriteExclude, WriteId, WriteConfig, Write, WriteRegistry,
     CommitFails, RestoreLocal, Stay
<1>3. /\ job'[p].path = d /\ job'[p].id = j.id /\ job'[p].seen = j.seen /\ job'[p].old = j.old
      /\ job'[p].new = j.new
  BY SeenStays
<1>4. \A e \in Paths \ {d} : disk'[e] = disk[e]
  BY <1>1 DEF LockIdentity, Check, WriteExclude, WriteId, WriteConfig, Write, WriteRegistry,
     CommitFails, RestoreLocal, TypeOK
<1>5. SeenOK(p)'
  BY <1>3 DEF RegisterOK, SeenOK
<1>6. RegistryAt(p)'
  <2>1. CASE WriteRegistry(p)
    BY <2>1, <1>3 DEF WriteRegistry, Goto, RegistryAt, TypeOK
  <2>2. CASE ~WriteRegistry(p)
    <3>1. registry' = registry /\ pc'[p] # "written"
      BY <2>2, <1>1 DEF LockIdentity, Check, WriteExclude, WriteId, WriteConfig, Write,
         CommitFails, RestoreLocal, Goto, TypeOK
    <3>2. pc[p] \in {"written", "undo", "undo_registry"} => pc'[p] \in {"undo", "undo_registry"}
      BY <2>2, <1>1 DEF LockIdentity, Check, WriteExclude, WriteId, WriteConfig,
         CommitFails, RestoreLocal, Goto, TypeOK
    <3> QED BY <3>1, <3>2, <1>3 DEF RegisterOK, RegistryAt
  <2> QED BY <2>1, <2>2
<1>7. PromiseSeen(p)'
  BY <1>2, <1>3 DEF RegisterOK, PromiseSeen
<1>8. OldGone(p)'
  BY <1>2, <1>3, <1>4 DEF RegisterOK, OldGone
<1>9. ASSUME Untouched(p, d)
      PROVE  LocalAt(p)'
  <2>1. LocalAt(p) /\ SeenOK(p)
    BY <1>9 DEF RegisterOK
  <2>2. CASE WriteExclude(p) \/ WriteId(p) \/ WriteConfig(p) \/ RestoreLocal(p)
    BY <2>1, <2>2, LocalWritten
  <2>3. CASE LockIdentity(p) \/ Check(p) \/ WriteRegistry(p) \/ CommitFails(p)
    <3>1. UNCHANGED <<disk, job>>
      BY <2>3 DEF LockIdentity, Check, WriteRegistry, CommitFails
    <3>2. \/ pc[p] = "lock" /\ pc'[p] = "check"
          \/ pc[p] = "check" /\ pc'[p] = "exclude"
          \/ pc[p] = "registry" /\ pc'[p] = "written"
          \/ pc'[p] = "undo"
      BY <2>3 DEF LockIdentity, Check, WriteRegistry, CommitFails, Goto, TypeOK
    <3> QED BY <2>1, <3>1, <3>2 DEF LocalAt
  <2> QED BY <1>1, <2>2, <2>3
<1> QED BY <1>2, <1>3, <1>5, <1>6, <1>7, <1>8, <1>9 DEF RegisterOK, Untouched

(* Other commands finish beside it, and users leave their traces.           *)
LEMMA RegisterUndisturbed ==
  ASSUME NEW p \in Procs, RegisterOK(p), pc'[p] = pc[p], job'[p] = job[p], registry' = registry,
         \A d \in Paths : promise'[d] \in {NoId, promise[d]},
         touched \subseteq touched',
         \A d \in Paths : disk'[d] = disk[d] \/ {<<d, p>>, <<d, NoProc>>} \subseteq touched',
         job[p].path \in Paths
  PROVE  RegisterOK(p)'
<1>1. SeenOK(p)' /\ RegistryAt(p)' /\ PromiseSeen(p)'
  BY DEF RegisterOK, SeenOK, RegistryAt, PromiseSeen
<1>2. OldGone(p)'
  BY DEF RegisterOK, OldGone
<1>3. Untouched(p, job[p].path)' => LocalAt(p)'
  BY DEF RegisterOK, LocalAt, Untouched
<1> QED BY <1>1, <1>2, <1>3 DEF RegisterOK, Untouched

LEMMA RegisteringKept ==
  ASSUME TypeOK, LocksOK, Registering, PromiseKept, NEW p \in Procs, Commands(p)
  PROVE  Registering'
<1>1. Shape(p)
  BY CommandShape
<1>2. ASSUME NEW q \in Procs \ {p}, pc'[q] \in Observing
      PROVE  RegisterOK(q)'
  <2>1. pc'[q] = pc[q] /\ job'[q] = job[q] /\ Owns(q)
    BY <1>1, <1>2 DEF Shape, OthersStay, Owns, Observing, Committing
  <2>2. UNCHANGED <<disk, registry, promise, touched>>
    BY <1>1, <2>1, OnlyFinishes DEF Finishes
  <2>3. RegisterOK(q) /\ job[q].path \in Paths
    BY <1>2, <2>1 DEF Registering, LocksOK, JobNamed, JobOK, Observing, Committing
  <2> QED BY <2>1, <2>2, <2>3, RegisterUndisturbed
<1>3. ASSUME pc'[p] \in Observing
      PROVE  RegisterOK(p)'
  <2>1. CASE pc[p] \in Observing
    BY <1>3, <2>1, RegisterKept DEF Registering
  <2>2. CASE pc[p] \notin Observing
    <3>1. Observe(p)
      BY <1>3, <2>2, RegisterSteps DEF LockIdentity, Check, WriteExclude, WriteId, WriteConfig,
         WriteRegistry, CommitFails, RestoreLocal, Observing, Committing
    <3> QED BY <3>1, ObserveStarts
  <2> QED BY <2>1, <2>2
<1> QED BY <1>2, <1>3 DEF Registering

LEMMA UsersRegistering ==
  ASSUME TypeOK, LocksOK, Registering, NEW S \in SUBSET Paths, NEW changed, UsersEffect(S, changed)
  PROVE  Registering'
<1>1. ASSUME NEW q \in Procs, pc[q] \in Observing
      PROVE  RegisterOK(q)'
  <2>1. \A d \in Paths : disk'[d] = disk[d] \/ {<<d, q>>, <<d, NoProc>>} \subseteq touched'
    BY DEF UsersEffect, TypeOK
  <2>2. RegisterOK(q) /\ job[q].path \in Paths
    BY <1>1 DEF Registering, LocksOK, JobNamed, JobOK, Observing, Committing
  <2>3. UNCHANGED <<registry, pc, job>> /\ touched \subseteq touched'
    BY DEF UsersEffect
  <2>4. \A d \in Paths : promise'[d] \in {NoId, promise[d]}
    BY DEF UsersEffect
  <2> QED BY <2>1, <2>2, <2>3, <2>4, RegisterUndisturbed
<1> QED BY <1>1 DEF Registering, UsersEffect

-----------------------------------------------------------------------------
(* A command at work beside a registration.                                 *)

LEMMA Changes ==
  ASSUME TypeOK, NEW p \in Procs, Commands(p)
  PROVE  \/ UNCHANGED <<disk, registry>>
         \/ WriteExclude(p) \/ WriteId(p) \/ WriteConfig(p) \/ RestoreLocal(p)
         \/ WriteRegistry(p) \/ RestoreRegistry(p)
         \/ DropMissing(p) \/ DropMapping(p) \/ Set(p)
<1>1. ASSUME NEW there, NEW record, Begin(p, there, record)
      PROVE  UNCHANGED <<disk, registry>>
  BY <1>1 DEF Begin
<1>2. /\ \A d \in Paths, new \in BOOLEAN : BeginRegister(p, d, new) => UNCHANGED <<disk, registry>>
      /\ \A i \in Ids : BeginUnregister(p, i) \/ ApplyBegins(p, i) => UNCHANGED <<disk, registry>>
      /\ \A d \in Paths, exchange \in Exchanges :
           BeginConfigure(p, d, exchange) => UNCHANGED <<disk, registry>>
      /\ \A d \in Paths : ContextBegins(p, d) => UNCHANGED <<disk, registry>>
  BY <1>1, Zenon DEF BeginRegister, BeginUnregister, ApplyBegins, BeginConfigure, ContextBegins
<1>3. /\ Observe(p) \/ LockIdentity(p) \/ Check(p) => UNCHANGED <<disk, registry>>
      /\ Registered(p) \/ CommitFails(p) \/ RestoreRegistryFails(p) \/ Refuse(p) =>
           UNCHANGED <<disk, registry>>
      /\ DropLock(p) \/ SetLock(p) \/ UseLocks(p) \/ UseResolves(p) => UNCHANGED <<disk, registry>>
      /\ PublishResult(p) \/ UseEnds(p) \/ Killed(p) => UNCHANGED <<disk, registry>>
  BY DEF Observe, LockIdentity, Check, Registered, CommitFails, RestoreRegistryFails, Refuse,
     DropLock, SetLock, UseLocks, UseResolves, PublishResult, UseEnds, Killed
<1> QED BY <1>2, <1>3 DEF Commands

(* Whatever a command does, it does it to the repository it works on.       *)
LEMMA OtherPathsStay ==
  ASSUME TypeOK, NEW p \in Procs, Commands(p), NEW d \in Paths \ {job[p].path}
  PROVE  disk'[d] = disk[d]
<1>1. CASE WriteExclude(p) \/ WriteId(p) \/ WriteConfig(p)
  BY <1>1 DEF WriteExclude, WriteId, WriteConfig, Write, TypeOK
<1>2. CASE RestoreLocal(p) \/ Set(p)
  BY <1>2 DEF RestoreLocal, Set, TypeOK
<1>3. CASE WriteRegistry(p) \/ RestoreRegistry(p) \/ DropMissing(p) \/ DropMapping(p)
  BY <1>3 DEF WriteRegistry, RestoreRegistry, DropMissing, DropMapping, Drop
<1> QED BY <1>1, <1>2, <1>3, Changes

(* A registration that keeps the identity of a usable repository finds      *)
(* nothing to change in its files.                                          *)
LEMMA NothingToChange ==
  ASSUME TypeOK, LocksOK, Registering, NEW p \in Procs, pc[p] \in Observing,
         Untouched(p, job[p].path), job[p].seen.id # NoId, ~job[p].new, Commands(p)
  PROVE  disk'[job[p].path] = disk[job[p].path] /\ disk[job[p].path] = job[p].seen
<1> DEFINE d == job[p].path
           j == job[p]
<1>0. j \in Jobs /\ d \in Paths /\ disk[d] \in Local /\ j.seen \in Local
  BY TypedOf DEF LocksOK, JobNamed, JobOK, TypeOK, Jobs, Observing, Committing
<1>1. SeenOK(p) /\ LocalAt(p)
  BY DEF Registering, RegisterOK
<1>2. /\ Intended(j).here = j.seen.here /\ Intended(j).exclude /\ Intended(j).id = j.id
      /\ Intended(j).config = j.seen.config
  BY <1>0, IntendedIs
<1>3. j.id = j.seen.id /\ j.seen.exclude /\ j.seen.here
  BY <1>1 DEF SeenOK
<1>4. disk[d] = j.seen
  BY <1>0, <1>1, <1>2, <1>3, SameLocal DEF LocalAt
<1>5. disk'[d] = disk[d]
  <2>1. CASE WriteExclude(p)
    <3>1. disk'[d] = [disk[d] EXCEPT !.exclude = @ \/ ~j.seen.exclude]
      BY <2>1, <1>0 DEF WriteExclude, Write, TypeOK
    <3> QED BY <3>1, <1>0, <1>3, <1>4 DEF Local
  <2>2. CASE WriteId(p)
    <3>1. disk'[d] = [disk[d] EXCEPT !.id = j.id]
      BY <2>2, <1>0 DEF WriteId, Write, TypeOK
    <3> QED BY <3>1, <1>0, <1>3, <1>4 DEF Local
  <2>3. CASE WriteConfig(p)
    BY <2>3, <1>1 DEF WriteConfig, LocalAt
  <2>4. CASE RestoreLocal(p)
    <3>1. PICK failed \in SUBSET {"config", "id", "exclude"} :
            disk' = [disk EXCEPT ![d] = Restored(disk[d], j.seen, failed)]
      BY <2>4, <1>3, <1>4 DEF RestoreLocal
    <3>2. disk'[d] = Restored(disk[d], j.seen, failed)
      BY <3>1, <1>0 DEF TypeOK
    <3> QED BY <3>2, <1>0, <1>4, RestoredIs, SameLocal
  <2>5. CASE \/ UNCHANGED <<disk, registry>> \/ WriteRegistry(p) \/ RestoreRegistry(p)
             \/ DropMissing(p) \/ DropMapping(p)
    BY <2>5 DEF WriteRegistry, RestoreRegistry, DropMissing, DropMapping, Drop
  <2>6. ~Set(p)
    BY DEF Set, Observing, Committing
  <2> QED BY <2>1, <2>2, <2>3, <2>4, <2>5, <2>6, Changes
<1> QED BY <1>4, <1>5

LEMMA ReplacedMaps ==
  ASSUME NEW r \in [Ids -> Paths \cup {NoPath}], NEW i \in Ids, NEW d \in Paths, NEW e \in Paths
  PROVE  /\ MappedIn(Replaced(r, i, d), d) = {i}
         /\ e # d => MappedIn(Replaced(r, i, d), e) = MappedIn(r, e) \ {i}
         /\ \A j \in Ids : Replaced(r, i, d)[j] \in {r[j], d, NoPath}
BY RegistrationConstants DEF MappedIn, Replaced

LEMMA RemovedMaps ==
  ASSUME NEW r \in [Ids -> Paths \cup {NoPath}], NEW i \in Ids, NEW e \in Paths
  PROVE  /\ MappedIn(Removed(r, i), e) = MappedIn(r, e) \ {i}
         /\ \A j \in Ids : Removed(r, i)[j] \in {r[j], NoPath}
BY RegistrationConstants DEF MappedIn, Removed

LEMMA UseUndisturbed ==
  ASSUME TypeOK, LocksOK, Registering, Using, Beside,
         NEW p \in Procs, NEW q \in Procs \ {p}, Commands(p), InUse(q)
  PROVE  /\ MappedIn(registry', job[q].path) = {job[q].id}
         /\ disk'[job[q].path] = disk[job[q].path]
<1> DEFINE d == job[q].path
           i == job[q].id
           j == job[p]
<1>0. j \in Jobs /\ d \in Paths /\ i \in Ids /\ disk[d] \in Local
  BY TypedOf DEF InUse, LocksOK, JobNamed, JobOK, TypeOK
<1>1. Mapped(d) = {i} /\ disk[d].here /\ disk[d].id = i /\ repoLock[i] = q
  BY DEF Using, UsingOK, InUse, Identified, LocksOK, IdentityLocked, LockedBy
<1>2. MappedIn(registry, d) = {i} /\ registry[i] = d
  BY <1>1 DEF Mapped, MappedIn
<1>3. registry \in [Ids -> Paths \cup {NoPath}]
  BY DEF TypeOK
<1>4. CASE UNCHANGED <<disk, registry>>
  BY <1>2, <1>4
<1>5. ASSUME pc[p] \in Observing
      PROVE  MappedIn(registry', d) = {i} /\ disk'[d] = disk[d]
  <2>0. /\ j.path \in Paths /\ j.id \in Ids /\ j.old \in [Ids -> Paths \cup {NoPath}]
        /\ Owns(p) /\ pc[q] = "use"
    BY <1>5, <1>0 DEF LocksOK, JobNamed, JobOK, Observing, Committing, Jobs, Owns, InUse
  <2>1. /\ MappedIn(j.old, d) = {i}
        /\ IF j.path = d THEN j.seen.id = i ELSE j.id # i
    BY <1>5 DEF Beside, BesideOK
  <2>2. SeenOK(p) /\ RegistryAt(p)
    BY <1>5 DEF Registering, RegisterOK
  <2>3. MappedIn(registry', d) = {i}
    <3>1. j.path = d /\ j.new => pc[p] = "lock"
      BY <1>5, <1>0, <1>1, <2>1, RegistrationConstants
         DEF LocksOK, IdentityLocked, LockedBy, Affected, Observing, Committing
    <3>2. j.path = d /\ ~j.new => j.id = i
      BY <2>1, <2>2, <1>0, RegistrationConstants DEF SeenOK
    <3>3. pc[p] # "lock" => MappedIn(Replaced(j.old, j.id, j.path), d) = {i}
      BY <1>0, <2>0, <2>1, <3>1, <3>2, ReplacedMaps
    <3>4. registry' \in {registry, j.old, Replaced(j.old, j.id, j.path)}
          /\ (pc[p] = "lock" => registry' = registry)
      BY <1>5, Changes DEF WriteExclude, WriteId, WriteConfig, Write, RestoreLocal, WriteRegistry,
         RestoreRegistry, DropMissing, DropMapping, Set, Observing, Committing
    <3> QED BY <3>3, <3>4, <2>1, <1>2
  <2>4. disk'[d] = disk[d]
    <3>1. CASE j.path # d
      BY <3>1, <1>0, OtherPathsStay
    <3>2. CASE j.path = d
      <4>1. Untouched(p, d)
        BY <1>0, <2>0 DEF LocksOK, TouchesKnown, InUse
      <4>2. j.seen.id = i /\ i # NoId
        BY <2>1, <3>2, <1>0, RegistrationConstants
      <4>3. CASE ~j.new
        BY <4>1, <4>2, <4>3, <3>2, <1>5, NothingToChange
      <4>4. CASE j.new
        <5>1. pc[p] = "lock"
          BY <4>2, <4>4, <1>5, <1>1
             DEF LocksOK, IdentityLocked, LockedBy, Affected, Observing, Committing
        <5> QED BY <5>1, Changes DEF WriteExclude, WriteId, WriteConfig, RestoreLocal,
               WriteRegistry, RestoreRegistry, DropMissing, DropMapping, Set
      <4> QED BY <4>3, <4>4
    <3> QED BY <3>1, <3>2
  <2> QED BY <2>3, <2>4
<1>6. ASSUME DropMissing(p) \/ DropMapping(p)
      PROVE  MappedIn(registry', d) = {i} /\ disk'[d] = disk[d]
  <2>1. /\ registry' = Removed(registry, j.id) /\ disk' = disk /\ j.id \in Ids
        /\ registry[j.id] = j.path
    BY <1>6 DEF DropMissing, DropMapping, Drop, LocksOK, JobNamed, JobOK
  <2>2. j.id # i
    <3>1. CASE DropMissing(p)
      BY <3>1, <2>1, <1>1, <1>2 DEF DropMissing
    <3>2. CASE DropMapping(p)
      BY <3>2, <1>1 DEF DropMapping, LocksOK, IdentityLocked, LockedBy
    <3> QED BY <1>6, <3>1, <3>2
  <2> QED BY <2>1, <2>2, <1>0, <1>2, <1>3, RemovedMaps
<1>7. ASSUME Set(p)
      PROVE  MappedIn(registry', d) = {i} /\ disk'[d] = disk[d]
  <2>1. j.path # d
    BY <1>7, <1>0, <1>1 DEF Set, LocksOK, IdentityLocked, LockedBy
  <2> QED BY <1>7, <2>1, <1>0, <1>2 DEF Set, TypeOK
<1>8. ASSUME \/ WriteExclude(p) \/ WriteId(p) \/ WriteConfig(p) \/ RestoreLocal(p)
             \/ WriteRegistry(p) \/ RestoreRegistry(p)
      PROVE  pc[p] \in Observing
  BY <1>8 DEF WriteExclude, WriteId, WriteConfig, RestoreLocal, WriteRegistry, RestoreRegistry,
     Observing, Committing
<1> QED BY <1>4, <1>5, <1>6, <1>7, <1>8, Changes

LEMMA ResolveSteps ==
  ASSUME TypeOK, NEW p \in Procs, Commands(p), pc'[p] = "use"
  PROVE  UseResolves(p)
<1>1. ~Leave(p)
  BY DEF Leave, TypeOK
<1>2. \A there \in {"observe", "drop", "set", "resolve"} : \A record : ~Begin(p, there, record)
  BY BeginLocked, TypedOf
<1>3. \A there \in Points \ {"use"} : ~Goto(p, there)
  BY Arrives, Zenon
<1>4. /\ ~DropLock(p) /\ ~SetLock(p) /\ ~UseLocks(p) /\ ~Observe(p) /\ ~LockIdentity(p)
      /\ ~Check(p) /\ ~WriteExclude(p) /\ ~WriteId(p) /\ ~WriteConfig(p) /\ ~WriteRegistry(p)
      /\ ~CommitFails(p) /\ ~RestoreLocal(p)
  BY <1>3 DEF DropLock, SetLock, UseLocks, Observe, LockIdentity, Check, WriteExclude, WriteId,
     WriteConfig, WriteRegistry, CommitFails, RestoreLocal, Points
<1>5. /\ ~Registered(p) /\ ~RestoreRegistry(p) /\ ~RestoreRegistryFails(p) /\ ~Refuse(p)
      /\ ~DropMissing(p) /\ ~DropMapping(p) /\ ~Set(p) /\ ~PublishResult(p) /\ ~UseEnds(p)
      /\ ~Killed(p)
  BY <1>1 DEF Registered, RestoreRegistry, RestoreRegistryFails, Refuse, DropMissing,
     DropMapping, Drop, Set, PublishResult, UseEnds, Killed
<1>6. /\ \A d \in Paths, new \in BOOLEAN : ~BeginRegister(p, d, new)
      /\ \A i \in Ids : ~BeginUnregister(p, i) /\ ~ApplyBegins(p, i)
      /\ \A d \in Paths, exchange \in Exchanges : ~BeginConfigure(p, d, exchange)
      /\ \A d \in Paths : ~ContextBegins(p, d)
  BY <1>2, Zenon DEF BeginRegister, BeginUnregister, ApplyBegins, BeginConfigure, ContextBegins
<1> QED BY <1>4, <1>5, <1>6 DEF Commands

LEMMA ResolvedUse ==
  ASSUME TypeOK, LocksOK, NEW p \in Procs, UseResolves(p)
  PROVE  /\ pc'[p] = "use" /\ Confirmed(p, registry) /\ UNCHANGED <<disk, registry, touched>>
         /\ job'[p].path = job[p].path /\ job'[p].id = job[p].id
         /\ job'[p].exchange = job[p].exchange /\ job'[p].seen = job[p].seen
         /\ \A q \in Procs \ {p} : pc'[q] = pc[q] /\ ~Owns(q)
<1>1. job'[p] = [job[p] EXCEPT !.old = registry]
  BY DEF UseResolves, TypeOK
<1>2. /\ job'[p].path = job[p].path /\ job'[p].id = job[p].id
      /\ job'[p].exchange = job[p].exchange /\ job'[p].seen = job[p].seen
  BY <1>1, TypedOf DEF Jobs
<1>3. pc[p] = "resolved" /\ Owns(p)
  BY DEF UseResolves, Owns
<1> QED BY <1>2, <1>3, OneOwner DEF UseResolves, Goto, Stay, TypeOK

LEMMA OthersInUse ==
  ASSUME NEW p \in Procs, Shape(p), NEW q \in Procs \ {p}
  PROVE  /\ pc'[q] = pc[q] /\ job'[q] = job[q]
         /\ InUse(q)' => InUse(q)
         /\ NothingTouched(q)' => NothingTouched(q)
<1>1. \A d \in Paths : <<d, q>> \in touched => <<d, q>> \in touched'
  BY DEF Shape, Begins, Finishes, Works
<1>2. pc'[q] = pc[q] /\ job'[q] = job[q]
  BY DEF Shape, OthersStay
<1>3. Untouched(q, job[q].path)' => Untouched(q, job[q].path)
  BY <1>2 DEF Shape, Begins, Finishes, Works, Untouched
<1> QED BY <1>1, <1>2, <1>3 DEF InUse, NothingTouched, Untouched

LEMMA UsingKept ==
  ASSUME TypeOK, LocksOK, Registering, Using, Beside, NEW p \in Procs, Commands(p)
  PROVE  Using'
<1>1. ASSUME NEW q \in Procs \ {p}, InUse(q)'
      PROVE  UsingOK(q)'
  <2>1. pc'[q] = pc[q] /\ job'[q] = job[q] /\ InUse(q)
    BY <1>1, CommandShape, OthersInUse
  <2>2. MappedIn(registry', job[q].path) = {job[q].id} /\ disk'[job[q].path] = disk[job[q].path]
    BY <2>1, UseUndisturbed
  <2> QED BY <2>1, <2>2 DEF Using, UsingOK, Mapped, MappedIn, Identified
<1>2. ASSUME InUse(p)'
      PROVE  UsingOK(p)'
  <2>1. UseResolves(p)
    BY <1>2, ResolveSteps DEF InUse
  <2> QED BY <2>1, ResolvedUse DEF UsingOK, Confirmed, Named, Mapped, Identified
<1> QED BY <1>1, <1>2 DEF Using

(* What is observed beside a repository in use.                             *)
LEMMA ObservedFacts ==
  ASSUME TypeOK, LocksOK, NEW p \in Procs, Observe(p)
  PROVE  LET d == job[p].path  i == job'[p].id IN
         /\ i \in Ids /\ d \in Paths /\ job'[p].path = d /\ job'[p].seen = disk[d]
         /\ job'[p].old = registry /\ UNCHANGED <<disk, registry>>
         /\ Unknown(i) \/ (i = disk[d].id /\ ~RegisteredElsewhere(d))
<1> DEFINE d == job[p].path
<1>1. PICK i \in Ids :
        /\ IF job[p].new \/ disk[d].id = NoId THEN Unknown(i)
           ELSE i = disk[d].id /\ ~RegisteredElsewhere(d)
        /\ job' = [job EXCEPT ![p] = [@ EXCEPT !.id = i, !.seen = disk[d], !.old = registry]]
  BY Zenon DEF Observe
<1>2. job'[p] = [job[p] EXCEPT !.id = i, !.seen = disk[d], !.old = registry]
  BY <1>1 DEF TypeOK
<1>3. /\ job'[p].path = d /\ job'[p].id = i /\ job'[p].seen = disk[d] /\ job'[p].old = registry
  BY <1>2, TypedOf DEF Jobs
<1>4. d \in Paths /\ UNCHANGED <<disk, registry>>
  BY DEF Observe, LocksOK, JobNamed, JobOK
<1> QED BY <1>1, <1>3, <1>4

LEMMA BesideKept ==
  ASSUME TypeOK, LocksOK, Registering, Using, Beside, NEW p \in Procs, Commands(p)
  PROVE  Beside'
<1>1. ASSUME NEW q \in Procs \ {p}, NEW r \in Procs, InUse(q)', pc'[r] \in Observing
      PROVE  BesideOK(q, r)'
  <2>1. pc'[q] = pc[q] /\ job'[q] = job[q] /\ InUse(q)
    BY <1>1, CommandShape, OthersInUse
  <2>2. CASE r # p
    BY <1>1, <2>1, <2>2, CommandShape, OthersInUse DEF Beside, BesideOK
  <2>3. CASE r = p /\ pc[p] \in Observing
    BY <1>1, <2>1, <2>3, SeenStays DEF Beside, BesideOK
  <2>4. CASE r = p /\ pc[p] \notin Observing
    <3>1. Observe(p)
      BY <1>1, <2>4, RegisterSteps DEF LockIdentity, Check, WriteExclude, WriteId, WriteConfig,
         WriteRegistry, CommitFails, RestoreLocal, Observing, Committing
    <3> DEFINE d == job[p].path
               i == job'[p].id
    <3>2. /\ i \in Ids /\ d \in Paths /\ job'[p].path = d /\ job'[p].seen = disk[d]
          /\ job'[p].old = registry /\ UNCHANGED <<disk, registry>>
          /\ Unknown(i) \/ (i = disk[d].id /\ ~RegisteredElsewhere(d))
      BY <3>1, ObservedFacts
    <3>3. /\ Mapped(job[q].path) = {job[q].id} /\ Identified(job[q].path, job[q].id)
          /\ job[q].path \in Paths /\ job[q].id \in Ids
      BY <2>1 DEF Using, UsingOK, InUse, LocksOK, JobNamed, JobOK
    <3>4. registry[job[q].id] = job[q].path /\ job[q].path # NoPath
      BY <3>3, RegistrationConstants DEF Mapped
    <3>5. job[q].path # d => i # job[q].id
      BY <3>2, <3>3, <3>4 DEF Unknown, RegisteredElsewhere, Identified
    <3> QED BY <2>1, <2>4, <3>2, <3>3, <3>5 DEF BesideOK, MappedIn, Mapped, Identified
  <2> QED BY <2>2, <2>3, <2>4
<1>2. ASSUME NEW r \in Procs, InUse(p)', pc'[r] \in Observing
      PROVE  FALSE
  <2>1. UseResolves(p) /\ r # p
    BY <1>2, ResolveSteps DEF InUse, Observing, Committing
  <2> QED BY <1>2, <2>1, ResolvedUse DEF Owns, Observing, Committing
<1> QED BY <1>1, <1>2 DEF Beside

-----------------------------------------------------------------------------
(* Results stay apart from registered repositories.                         *)

LEMMA OutsideEverything ==
  ASSUME TypeOK, NEW exchange \in {"none", "elsewhere", "unset"}
  PROVE  (\A d \in Paths : Apart(d, exchange)) /\
         \A r \in [Ids -> Paths \cup {NoPath}] : Outside(exchange, r)
BY RegistrationConstants DEF Apart, Outside

\* What a command overlooked it goes on to overlook.
LEMMA SightStays ==
  ASSUME NEW q \in Procs, NEW r \in [Ids -> Paths \cup {NoPath}], InSight(q, r),
         job'[q] = job[q],
         \A d \in Paths : <<d, q>> \in overlooked => <<d, q>> \in overlooked'
  PROVE  \A i \in Ids : r[i] # NoPath /\ <<r[i], q>> \notin overlooked' =>
           Apart(r[i], job'[q].exchange)
BY DEF InSight

LEMMA InSightKept ==
  ASSUME TypeOK, LocksOK, Apartness, Registering, NEW p \in Procs, NEW q \in Procs, Commands(p),
         pc[q] = "use", NothingTouched(q), job'[q] = job[q],
         \A d \in Paths : <<d, q>> \in overlooked => <<d, q>> \in overlooked'
  PROVE  InSight(q, registry)'
<1> DEFINE j == job[p]
           Fine(d) == <<d, q>> \notin overlooked => Apart(d, job[q].exchange)
           FineNext(d) == <<d, q>> \notin overlooked' => Apart(d, job'[q].exchange)
<1>0. registry \in [Ids -> Paths \cup {NoPath}] /\ InSight(q, registry)
  BY DEF TypeOK, Apartness
<1>1. \A d \in Paths : Fine(d) => FineNext(d)
  OBVIOUS
<1>2. \A i \in Ids : registry[i] # NoPath => Fine(registry[i])
  BY <1>0 DEF InSight
<1>3. SUFFICES \A i \in Ids : registry'[i] # NoPath => registry'[i] \in Paths /\ Fine(registry'[i])
  BY <1>1 DEF InSight
<1> HIDE DEF Fine, FineNext
<1>4. CASE registry' = registry
  BY <1>0, <1>2, <1>4
<1>5. ASSUME WriteRegistry(p) \/ RestoreRegistry(p)
      PROVE  \A i \in Ids : registry'[i] # NoPath => registry'[i] \in Paths /\ Fine(registry'[i])
  <2>1. pc[p] \in Committing
    BY <1>5 DEF WriteRegistry, RestoreRegistry, Committing
  <2>2. /\ \A i \in Ids : j.old[i] # NoPath => Fine(j.old[i])
        /\ Fine(j.path)
    BY <2>1 DEF Apartness, StaysApart, InSight, Fine
  <2>3. j.old \in [Ids -> Paths \cup {NoPath}] /\ j.id \in Ids /\ j.path \in Paths
    BY <2>1, TypedOf DEF LocksOK, JobNamed, JobOK, Jobs, Committing
  <2>4. registry' \in {j.old, Replaced(j.old, j.id, j.path)}
    BY <1>5 DEF WriteRegistry, RestoreRegistry
  <2>5. \A i \in Ids : registry'[i] \in {j.old[i], j.path, NoPath}
    BY <2>3, <2>4, ReplacedMaps
  <2> QED BY <2>2, <2>3, <2>5
<1>6. ASSUME DropMissing(p) \/ DropMapping(p)
      PROVE  \A i \in Ids : registry'[i] # NoPath => registry'[i] \in Paths /\ Fine(registry'[i])
  <2>1. registry' = Removed(registry, j.id)
    BY <1>6 DEF DropMissing, DropMapping, Drop
  <2>2. \A i \in Ids : registry'[i] \in {registry[i], NoPath}
    BY <2>1, <1>0 DEF Removed
  <2> QED BY <2>2, <1>0, <1>2
<1>7. ASSUME WriteExclude(p) \/ WriteId(p) \/ WriteConfig(p) \/ RestoreLocal(p) \/ Set(p)
      PROVE  registry' = registry
  BY <1>7 DEF WriteExclude, WriteId, WriteConfig, Write, RestoreLocal, Set
<1> QED BY <1>4, <1>5, <1>6, <1>7, Changes

(* A registration goes on only with a path outside the Exchange of every    *)
(* command at work, or has overlooked the repository of that command.       *)
LEMMA CheckedApart ==
  ASSUME TypeOK, LocksOK, Registering, Using, Apartness, NEW p \in Procs, Check(p),
         NEW q \in Procs, pc[q] = "use", NothingTouched(q), job'[q] = job[q],
         \A d \in Paths : <<d, q>> \in overlooked => <<d, q>> \in overlooked'
  PROVE  StaysApart(q, p)'
<1> DEFINE d == job[p].path
           e == job[q].path
<1>1. PICK unread \in SUBSET Paths :
        Acceptable(d, unread) /\ overlooked' = overlooked \cup ({d} \X UsersOf(unread))
  BY DEF Check
<1>2. /\ job' = job /\ pc[p] = "check" /\ d \in Paths
      /\ job[p].old = registry /\ registry \in [Ids -> Paths \cup {NoPath}]
  BY DEF Check, LocksOK, JobNamed, JobOK, Registering, RegisterOK, RegistryAt, Observing, TypeOK
<1>3. InSight(q, registry)
  BY DEF Apartness
<1>4. /\ e \in Paths /\ job[q].id \in Ids
      /\ job[q].exchange \in {"none", "elsewhere", job[q].seen.config}
  BY DEF LocksOK, JobNamed, JobOK
<1>5. InUse(q)
  BY <1>4 DEF InUse, NothingTouched
<1>6. /\ Mapped(e) = {job[q].id} /\ Identified(e, job[q].id)
      /\ (job[q].exchange # "none" => disk[e].config = job[q].seen.config)
  BY <1>5 DEF Using, UsingOK
<1>7. registry[job[q].id] = e /\ e # NoPath /\ job[q].id # NoId
  BY <1>4, <1>6, RegistrationConstants DEF Mapped
<1>8. CASE e \in unread
  <2>1. <<d, q>> \in overlooked'
    BY <1>1, <1>8 DEF UsersOf
  <2> QED BY <1>2, <1>3, <2>1, SightStays DEF StaysApart, InSight
<1>9. CASE job[q].exchange \in {"none", "elsewhere"}
  <2>1. Apart(d, job[q].exchange)
    BY <1>2, <1>9, OutsideEverything
  <2> QED BY <1>2, <1>3, <2>1, SightStays DEF StaysApart, InSight, Apart
<1>10. CASE e \notin unread /\ job[q].exchange \notin {"none", "elsewhere"}
  <2>1. job[q].exchange = disk[e].config
    BY <1>10, <1>4, <1>6
  <2>2. Apart(d, disk[e].config)
    BY <1>1, <1>4, <1>6, <1>7, <1>10 DEF Acceptable, Identified
  <2> QED BY <1>2, <1>3, <2>1, <2>2, SightStays DEF StaysApart, InSight, Apart
<1> QED BY <1>8, <1>9, <1>10

LEMMA ApartnessKept ==
  ASSUME TypeOK, LocksOK, Registering, Using, Apartness, NEW p \in Procs, Commands(p)
  PROVE  Apartness'
<1>1. ASSUME NEW q \in Procs \ {p}, pc'[q] = "use", NothingTouched(q)'
      PROVE  /\ InSight(q, registry)'
             /\ \A r \in Procs : pc'[r] \in Committing => StaysApart(q, r)'
  <2>1. /\ pc'[q] = pc[q] /\ job'[q] = job[q] /\ NothingTouched(q)
        /\ \A d \in Paths : <<d, q>> \in overlooked => <<d, q>> \in overlooked'
    BY <1>1, CommandShape, OthersInUse DEF Shape, OthersStay
  <2>2. InSight(q, registry)'
    BY <1>1, <2>1, InSightKept
  <2>3. ASSUME NEW r \in Procs, pc[r] \in Committing,
               job'[r].old = job[r].old, job'[r].path = job[r].path
        PROVE  StaysApart(q, r)'
    <3>1. StaysApart(q, r)
      BY <1>1, <2>1, <2>3 DEF Apartness
    <3>2. job[r].old \in [Ids -> Paths \cup {NoPath}] /\ job[r].path \in Paths
      BY <2>3, TypedOf DEF LocksOK, JobNamed, JobOK, Jobs, Committing
    <3> QED BY <2>1, <2>3, <3>1, <3>2, SightStays DEF StaysApart, InSight, Apart
  <2>4. ASSUME NEW r \in Procs, pc'[r] \in Committing
        PROVE  StaysApart(q, r)'
    <3>1. CASE r # p
      BY <2>3, <2>4, <3>1, CommandShape, OthersInUse
    <3>2. CASE r = p /\ pc[p] \in Committing
      BY <2>3, <2>4, <3>2, SeenStays DEF Observing
    <3>3. CASE r = p /\ pc[p] \notin Committing
      <4>1. ~Observe(p) /\ ~LockIdentity(p)
        BY <2>4, <3>3 DEF Observe, LockIdentity, Goto, Committing, TypeOK
      <4>2. Check(p)
        BY <2>4, <3>3, <4>1, RegisterSteps DEF WriteExclude, WriteId, WriteConfig,
           WriteRegistry, CommitFails, RestoreLocal, Observing, Committing
      <4> QED BY <1>1, <2>1, <3>3, <4>2, CheckedApart
    <3> QED BY <3>1, <3>2, <3>3
  <2> QED BY <2>2, <2>4
<1>2. ASSUME pc'[p] = "use"
      PROVE  /\ InSight(p, registry)'
             /\ \A r \in Procs : pc'[r] \notin Committing
  <2>1. /\ UseResolves(p) /\ Confirmed(p, registry) /\ registry' = registry
        /\ job'[p].exchange = job[p].exchange
        /\ \A q \in Procs \ {p} : pc'[q] = pc[q] /\ ~Owns(q)
    BY <1>2, ResolveSteps, ResolvedUse
  <2>2. Outside(job[p].exchange, registry)
    BY <2>1, OutsideEverything DEF Confirmed, Separate, TypeOK
  <2> QED BY <1>2, <2>1, <2>2 DEF Owns, Committing, InSight, Outside, Apart
<1> QED BY <1>1, <1>2 DEF Apartness

-----------------------------------------------------------------------------
(* Promises and later registrations.                                        *)

\* What each of both says of one path.
PromiseAt(d) == promise[d] # NoId => Mapped(d) = {promise[d]} /\ Usable(d, promise[d])

AgainAt(d) ==
  disk[d].here /\ d \notin gaps /\ Untouched(NoProc, d) =>
    IF disk[d].id = NoId THEN disk[d].config = "none" /\ Mapped(d) = {} ELSE Usable(d, disk[d].id)

BothAt(d) == PromiseAt(d) /\ AgainAt(d)

LEMMA BothKept == PromiseKept /\ RegistersAgain <=> \A d \in Paths : UnderWay(d) \/ BothAt(d)
BY DEF PromiseKept, RegistersAgain, BothAt, PromiseAt, AgainAt, Untouched

LEMMA BothUndisturbed ==
  ASSUME NEW d \in Paths, BothAt(d), disk'[d] = disk[d], Mapped(d)' = Mapped(d),
         promise'[d] \in {NoId, promise[d]}, gaps \subseteq gaps',
         Untouched(NoProc, d)' => Untouched(NoProc, d)
  PROVE  BothAt(d)'
BY DEF BothAt, PromiseAt, AgainAt, Usable, HasIdentity, Identified

(* Only success makes promises, and no command takes back a gap.            *)
LEMMA HistorySteps ==
  ASSUME TypeOK, LocksOK, Registering, NEW p \in Procs, Commands(p)
  PROVE  /\ gaps \subseteq gaps'
         /\ ~Registered(p) => \A d \in Paths : promise'[d] \in {NoId, promise[d]}
<1>1. Shape(p)
  BY CommandShape
<1>2. CASE UNCHANGED <<promise, gaps>>
  BY <1>2
<1>3. CASE Broken(p)
  BY <1>3 DEF Broken, TypeOK
<1>4. CASE Killed(p) \/ Registered(p)
  BY <1>4 DEF Killed, Registered, TypeOK
<1>5. CASE DropMissing(p) \/ DropMapping(p)
  BY <1>5 DEF DropMissing, DropMapping, Drop, TypeOK
<1>6. \/ UNCHANGED <<promise, gaps>> \/ Broken(p) \/ Killed(p) \/ Registered(p)
      \/ DropMissing(p) \/ DropMapping(p)
  <2>1. CASE Begins(p) \/ Finishes(p)
    BY <2>1 DEF Begins, Finishes
  <2>2. CASE Works(p) /\ Owns(p)'
    BY <2>2 DEF Works
  <2>3. CASE Works(p) /\ ~Owns(p)'
    <3>1. \A there \in Points \ {"idle", "use"} : ~Goto(p, there)
      BY <2>3, Arrives DEF Owns
    <3>2. \A there \in {"observe", "drop", "set", "resolve"} : \A record : ~Begin(p, there, record)
      BY SMTT(30), <2>3, BeginLocked, TypedOf DEF Owns
    <3>3. /\ ~DropLock(p) /\ ~SetLock(p) /\ ~UseLocks(p) /\ ~Observe(p) /\ ~LockIdentity(p)
          /\ ~Check(p) /\ ~WriteExclude(p) /\ ~WriteId(p) /\ ~WriteConfig(p) /\ ~WriteRegistry(p)
          /\ ~CommitFails(p) /\ ~RestoreLocal(p)
      BY <3>1 DEF DropLock, SetLock, UseLocks, Observe, LockIdentity, Check, WriteExclude, WriteId,
         WriteConfig, WriteRegistry, CommitFails, RestoreLocal, Points
    <3>4. /\ \A d \in Paths, new \in BOOLEAN : ~BeginRegister(p, d, new)
          /\ \A i \in Ids : ~BeginUnregister(p, i) /\ ~ApplyBegins(p, i)
          /\ \A d \in Paths, exchange \in Exchanges : ~BeginConfigure(p, d, exchange)
          /\ \A d \in Paths : ~ContextBegins(p, d)
      BY <3>2, Zenon DEF BeginRegister, BeginUnregister, ApplyBegins, BeginConfigure, ContextBegins
    <3>5. /\ RestoreRegistry(p) \/ RestoreRegistryFails(p) => Broken(p) \/ UNCHANGED <<promise, gaps>>
          /\ Refuse(p) \/ Set(p) => UNCHANGED <<promise, gaps>>
          /\ UseResolves(p) \/ PublishResult(p) \/ UseEnds(p) => UNCHANGED <<promise, gaps>>
      BY DEF RestoreRegistry, RestoreRegistryFails, Refuse, Set, UseResolves, PublishResult, UseEnds
    <3> QED BY <3>3, <3>4, <3>5 DEF Commands
  <2> QED BY <1>1, <2>1, <2>2, <2>3 DEF Shape
<1> QED BY <1>2, <1>3, <1>4, <1>5, <1>6

(* A repository that was usable is so at every point of a registration,     *)
(* under the old or the new identity.                                       *)
LEMMA StaysUsable ==
  ASSUME TypeOK, LocksOK, NEW p \in Procs, pc[p] \in Observing, RegisterOK(p),
         Untouched(p, job[p].path), job[p].seen.id # NoId
  PROVE  /\ Usable(job[p].path, disk[job[p].path].id)
         /\ disk[job[p].path].id \in {job[p].seen.id, job[p].id}
         /\ disk[job[p].path].id # NoId
<1> DEFINE j == job[p]
<1>0. j \in Jobs /\ j.id \in Ids /\ j.id # NoId
  BY TypedOf, RegistrationConstants DEF LocksOK, JobNamed, JobOK, Observing, Committing
<1>1. /\ Intended(j).exclude /\ Intended(j).id = j.id /\ Intended(j).config = j.seen.config
  BY <1>0, IntendedIs
<1> QED BY <1>0, <1>1 DEF RegisterOK, LocalAt, SeenOK, Usable, HasIdentity, Identified

Leaves(p) ==
  \/ Registered(p) \/ RestoreRegistry(p) \/ RestoreRegistryFails(p)
  \/ Killed(p) /\ pc[p] \in Committing

(* Another path than the one registered, whatever the step.                 *)
LEMMA ElsewhereKept ==
  ASSUME TypeOK, LocksOK, Registering, NEW p \in Procs, Commands(p), pc[p] \in Committing,
         NEW d \in Paths \ {job[p].path}, BothAt(d)
  PROVE  BothAt(d)'
<1> DEFINE j == job[p]
<1>0. /\ j \in Jobs /\ j.path \in Paths /\ j.id \in Ids
      /\ j.old \in [Ids -> Paths \cup {NoPath}]
  BY TypedOf DEF LocksOK, JobNamed, JobOK, Committing, Jobs
<1>1. RegistryAt(p) /\ PromiseSeen(p) /\ OldGone(p)
  BY DEF Registering, RegisterOK, Observing
<1>2. disk'[d] = disk[d] /\ Untouched(NoProc, d)' = Untouched(NoProc, d)
  <2>1. disk'[d] = disk[d]
    BY OtherPathsStay
  <2>2. touched' = touched
    BY CommandShape DEF Shape, Begins, Finishes, Works, Committing
  <2> QED BY <2>1, <2>2 DEF Untouched
<1>3. gaps \subseteq gaps' /\ promise'[d] \in {NoId, promise[d]}
  <2>1. Registered(p) => promise'[d] = promise[d]
    BY DEF Registered, TypeOK
  <2> QED BY <2>1, HistorySteps
<1>4. CASE registry' = registry
  BY <1>2, <1>3, <1>4, BothUndisturbed DEF Mapped
<1>5. CASE registry' # registry
  <2>1. registry' \in {j.old, Replaced(j.old, j.id, j.path)}
    BY <1>1, <1>5, Changes DEF WriteExclude, WriteId, WriteConfig, Write, RestoreLocal,
       WriteRegistry, RestoreRegistry, DropMissing, DropMapping, Set, Committing
  <2>2. MappedIn(Replaced(j.old, j.id, j.path), d) = MappedIn(j.old, d) \ {j.id}
    BY <1>0, ReplacedMaps
  <2>3. PromiseAt(d)'
    <3>1. promise[d] # NoId => MappedIn(registry', d) = {promise[d]}
      BY <1>1, <2>1, <2>2 DEF PromiseSeen
    <3> QED BY <1>2, <1>3, <3>1
           DEF BothAt, PromiseAt, Usable, HasIdentity, Identified, Mapped, MappedIn
  <2>4. AgainAt(d)'
    <3>1. ASSUME disk[d].here, Untouched(NoProc, d), Mapped(d) = {}
          PROVE  MappedIn(registry', d) = {}
      <4>1. MappedIn(registry, d) = {}
        BY <3>1 DEF Mapped, MappedIn
      <4>2. j.old[j.id] # d
        BY <3>1, <1>1 DEF OldGone, Untouched
      <4>3. MappedIn(j.old, d) \ {j.id} = MappedIn(j.old, d)
        BY <4>2 DEF MappedIn
      <4> QED BY <1>1, <2>1, <2>2, <4>1, <4>3 DEF RegistryAt
    <3>2. ASSUME disk[d].here, Untouched(NoProc, d), d \notin gaps
          PROVE  IF disk'[d].id = NoId
                 THEN disk'[d].config = "none" /\ MappedIn(registry', d) = {}
                 ELSE Usable(d, disk[d].id)'
      BY <3>1, <3>2, <1>2 DEF BothAt, AgainAt, Usable, HasIdentity, Identified
    <3> QED BY <1>2, <1>3, <3>2 DEF AgainAt, Mapped, MappedIn
  <2> QED BY <2>3, <2>4 DEF BothAt
<1> QED BY <1>4, <1>5

(* The path itself, when a registration ends, fails or is killed.           *)
LEMMA LandsWell ==
  ASSUME TypeOK, LocksOK, Registering, NEW p \in Procs, Commands(p), pc[p] \in Committing, Leaves(p),
         NEW d \in Paths, d = job[p].path
  PROVE  BothAt(d)'
<1> DEFINE j == job[p]
<1>0. /\ j \in Jobs /\ j.path = d /\ j.id \in Ids /\ j.id # NoId
      /\ j.old \in [Ids -> Paths \cup {NoPath}] /\ disk[d] \in Local /\ j.seen \in Local
  BY TypedOf, RegistrationConstants DEF LocksOK, JobNamed, JobOK, Committing, Jobs, TypeOK
<1>1. RegisterOK(p) /\ pc[p] \in Observing
  BY DEF Registering, Observing
<1>2. SeenOK(p) /\ RegistryAt(p) /\ PromiseSeen(p) /\ (Untouched(p, d) => LocalAt(p))
  BY <1>1 DEF RegisterOK
<1>3. disk' = disk /\ touched' = touched
  BY DEF Leaves, Registered, RestoreRegistry, RestoreRegistryFails, Killed, Stay
<1>4. Untouched(NoProc, d) => Untouched(p, d)
  BY <1>0 DEF LocksOK, TouchesKnown, Untouched
<1>5. promise[d] # NoId =>
        Untouched(p, d) /\ MappedIn(j.old, d) = {promise[d]} /\ j.seen.id = promise[d]
  BY <1>0, <1>2 DEF LocksOK, TouchesKnown, PromiseSeen, Owns, Committing
<1>6. /\ Intended(j).here = j.seen.here /\ Intended(j).exclude /\ Intended(j).id = j.id
      /\ Intended(j).config = IF j.seen.id = NoId THEN "unset" ELSE j.seen.config
  BY <1>0, IntendedIs
<1>7. Untouched(p, d) /\ j.seen.id # NoId =>
        Usable(d, disk[d].id) /\ disk[d].id \in {j.seen.id, j.id} /\ disk[d].id # NoId
  BY <1>1, StaysUsable
<1>8. MappedIn(Replaced(j.old, j.id, d), d) = {j.id}
  BY <1>0, ReplacedMaps
<1>9. CASE Registered(p)
  <2>1. pc[p] = "written" /\ registry' = registry /\ gaps' = gaps
        /\ promise'[d] = (IF Untouched(p, d) THEN j.id ELSE NoId)
    BY <1>0, <1>9 DEF Registered, TypeOK, Untouched
  <2>2. MappedIn(registry, d) = {j.id}
    BY <1>2, <1>8, <2>1 DEF RegistryAt
  <2>3. Untouched(p, d) => Usable(d, j.id) /\ disk[d].id = j.id
    BY ZenonT(30), <1>0, <1>2, <1>6, <2>1 DEF LocalAt, SeenOK, Usable, HasIdentity, Identified
  <2>4. PromiseAt(d)'
    BY <1>3, <2>1, <2>2, <2>3 DEF PromiseAt, Usable, HasIdentity, Identified, Mapped, MappedIn
  <2>5. AgainAt(d)'
    BY <1>0, <1>3, <1>4, <2>3 DEF AgainAt, Usable, HasIdentity, Identified, Untouched
  <2> QED BY <2>4, <2>5 DEF BothAt
<1>10. CASE ~Registered(p)
  <2>1. gaps \subseteq gaps' /\ promise'[d] \in {NoId, promise[d]}
    BY <1>0, <1>10, HistorySteps
  <2>2. registry' \in {j.old, registry} /\ registry \in {j.old, Replaced(j.old, j.id, d)}
    BY <1>2, <1>10 DEF Leaves, RestoreRegistry, RestoreRegistryFails, Killed, RegistryAt
  <2>3. ASSUME promise'[d] # NoId
        PROVE  MappedIn(registry', d) = {promise'[d]} /\ Usable(d, promise'[d])
    <3>1. /\ promise'[d] = promise[d] /\ Untouched(p, d) /\ MappedIn(j.old, d) = {promise[d]}
          /\ j.seen.id = promise[d] /\ j.seen.id # NoId
      BY <2>1, <2>3, <1>5
    <3>2. Usable(d, disk[d].id) /\ disk[d].id \in {j.seen.id, j.id} /\ LocalAt(p)
      BY <1>2, <1>7, <3>1
    <3>3. ~j.new => j.id = j.seen.id
      BY <1>2, <3>1 DEF SeenOK
    <3>4. j.new => registry' = j.old /\ disk[d].id = j.seen.id
      <4>1. CASE RestoreRegistry(p)
        <5>1. j.new => ~j.dirty
          BY <4>1, <2>3, <1>0 DEF RestoreRegistry, Broken, TypeOK
        <5> QED BY <4>1, <5>1, <3>2 DEF RestoreRegistry, LocalAt
      <4>2. CASE RestoreRegistryFails(p)
        BY <4>2, <2>3, <1>0 DEF RestoreRegistryFails, Broken, TypeOK
      <4>3. CASE Killed(p)
        <5>1. j.new => pc[p] \in {"exclude", "id", "config"}
          BY <4>3, <2>3, <1>0 DEF Killed, Committing, TypeOK
        <5>2. j.new => pc[p] \in {"exclude", "id"}
          BY <5>1, <3>1, <3>2 DEF LocalAt
        <5>3. j.new => disk[d].id = j.seen.id
          BY <5>2, <3>2, <1>0 DEF LocalAt, Local
        <5>4. registry' = registry
          BY <4>3 DEF Killed
        <5> QED BY <5>2, <5>3, <5>4, <1>2 DEF RegistryAt
      <4> QED BY <1>10, <4>1, <4>2, <4>3 DEF Leaves
    <3> QED BY <1>8, <2>2, <3>1, <3>2, <3>3, <3>4
  <2>4. ASSUME disk[d].here, d \notin gaps', Untouched(NoProc, d)
        PROVE  IF disk[d].id = NoId THEN disk[d].config = "none" /\ MappedIn(registry', d) = {}
               ELSE Usable(d, disk[d].id)
    <3>1. Untouched(p, d) /\ LocalAt(p)
      BY <2>4, <1>4, <1>2
    <3>2. CASE j.seen.id # NoId
      BY <3>1, <3>2, <1>7
    <3>3. CASE j.seen.id = NoId
      <4>1. j.seen.config = "none" /\ MappedIn(j.old, d) = {} /\ j.seen.here
        BY <1>2, <3>3 DEF SeenOK
      <4>2. CASE RestoreRegistry(p)
        <5>1. ~j.dirty
          BY <4>2, <2>4, <3>3 DEF RestoreRegistry, Broken
        <5> QED BY <4>1, <4>2, <5>1, <3>1, <3>3 DEF RestoreRegistry, LocalAt
      <4>3. CASE RestoreRegistryFails(p)
        BY <4>3, <2>4, <3>3 DEF RestoreRegistryFails, Broken
      <4>4. CASE Killed(p)
        <5>1. pc[p] \in {"exclude", "id", "registry", "written"} /\ registry' = registry
          BY <4>4, <2>4, <3>3 DEF Killed, Committing
        <5>2. CASE pc[p] \in {"exclude", "id"}
          <6>1. disk[d].id = NoId /\ disk[d].config = "none"
            BY <5>2, <3>1, <3>3, <4>1, <1>0 DEF LocalAt, Local
          <6>2. registry = j.old
            BY <5>2, <1>2 DEF RegistryAt
          <6> QED BY <5>1, <6>1, <6>2, <4>1
        <5>3. CASE pc[p] \in {"registry", "written"}
          BY <5>3, <3>1, <3>3, <1>0, <1>6 DEF LocalAt, Usable, HasIdentity, Identified
        <5> QED BY <5>1, <5>2, <5>3
      <4> QED BY <1>10, <4>2, <4>3, <4>4 DEF Leaves
    <3> QED BY <3>2, <3>3
  <2>5. PromiseAt(d)'
    BY <1>3, <2>3 DEF PromiseAt, Usable, HasIdentity, Identified, Mapped, MappedIn
  <2>6. AgainAt(d)'
    BY <1>3, <2>4 DEF AgainAt, Usable, HasIdentity, Identified, Mapped, MappedIn, Untouched
  <2> QED BY <2>5, <2>6 DEF BothAt
<1> QED BY <1>9, <1>10

LEMMA CommitSteps ==
  ASSUME TypeOK, NEW p \in Procs, Commands(p), pc[p] \in Committing
  PROVE  pc'[p] \in Committing \/ Leaves(p)
<1>1. /\ \A d \in Paths, new \in BOOLEAN : ~BeginRegister(p, d, new)
      /\ \A i \in Ids : ~BeginUnregister(p, i) /\ ~ApplyBegins(p, i)
      /\ \A d \in Paths, exchange \in Exchanges : ~BeginConfigure(p, d, exchange)
      /\ \A d \in Paths : ~ContextBegins(p, d)
  <2>1. \A there \in {"observe", "drop", "set", "resolve"} : \A record : ~Begin(p, there, record)
    BY SMTT(30) DEF Begin, Committing
  <2> QED BY <2>1, Zenon DEF BeginRegister, BeginUnregister, ApplyBegins, BeginConfigure, ContextBegins
<1>2. /\ ~Observe(p) /\ ~LockIdentity(p) /\ ~Check(p) /\ ~Refuse(p) /\ ~DropMissing(p)
      /\ ~DropLock(p) /\ ~DropMapping(p) /\ ~SetLock(p) /\ ~Set(p) /\ ~UseLocks(p)
      /\ ~UseResolves(p) /\ ~PublishResult(p) /\ ~UseEnds(p)
  BY DEF Observe, LockIdentity, Check, Refuse, DropMissing, DropLock, DropMapping, SetLock, Set,
     UseLocks, UseResolves, PublishResult, UseEnds, Committing
<1>3. ASSUME \/ WriteExclude(p) \/ WriteId(p) \/ WriteConfig(p) \/ WriteRegistry(p)
             \/ CommitFails(p) \/ RestoreLocal(p)
      PROVE  pc'[p] \in Committing
  BY <1>3 DEF WriteExclude, WriteId, WriteConfig, WriteRegistry, CommitFails, RestoreLocal, Goto,
     Committing, TypeOK
<1> QED BY <1>1, <1>2, <1>3 DEF Commands, Leaves

(* Commands that are not committing keep what holds of every path.          *)
LEMMA OtherwiseKept ==
  ASSUME TypeOK, LocksOK, Registering, NEW p \in Procs, Commands(p), pc[p] \notin Committing,
         NEW d \in Paths, BothAt(d)
  PROVE  BothAt(d)'
<1> DEFINE j == job[p]
<1>1. gaps \subseteq gaps' /\ promise'[d] \in {NoId, promise[d]}
  BY HistorySteps DEF Registered, Committing
<1>2. Untouched(NoProc, d)' => Untouched(NoProc, d)
  BY CommandShape, RegistrationConstants DEF Shape, Begins, Finishes, Works, Untouched
<1>3. CASE UNCHANGED <<disk, registry>>
  BY <1>1, <1>2, <1>3, BothUndisturbed DEF Mapped
<1>4. CASE DropMissing(p) \/ DropMapping(p)
  <2>1. /\ registry' = Removed(registry, j.id) /\ disk' = disk /\ j.id \in Ids
        /\ promise' = [promise EXCEPT ![j.path] = NoId] /\ registry[j.id] = j.path
    BY <1>4 DEF DropMissing, DropMapping, Drop, LocksOK, JobNamed, JobOK
  <2>2. MappedIn(registry', d) = MappedIn(registry, d) \ {j.id}
    BY <2>1, RemovedMaps DEF TypeOK
  <2>3. d # j.path => MappedIn(registry', d) = MappedIn(registry, d)
    BY <2>1, <2>2 DEF MappedIn
  <2>4. d = j.path => promise'[d] = NoId
    BY <2>1 DEF TypeOK
  <2>5. PromiseAt(d)'
    BY <1>1, <2>1, <2>3, <2>4
       DEF BothAt, PromiseAt, Usable, HasIdentity, Identified, Mapped, MappedIn
  <2>6. AgainAt(d)'
    BY <1>1, <1>2, <2>1, <2>2
       DEF BothAt, AgainAt, Usable, HasIdentity, Identified, Mapped, MappedIn
  <2> QED BY <2>5, <2>6 DEF BothAt
<1>5. CASE Set(p)
  <2>1. /\ j.path \in Paths /\ j.id \in Ids /\ j.exchange \in Exchanges /\ disk[j.path] \in Local
    BY <1>5 DEF Set, LocksOK, JobNamed, JobOK, TypeOK
  <2>2. HasIdentity(j.path, j.id) /\ disk' = [disk EXCEPT ![j.path].config = j.exchange]
    BY <1>5 DEF Set
  <2>3. d # j.path => disk'[d] = disk[d]
    BY <2>2 DEF TypeOK
  <2>4. d = j.path => /\ disk'[d].config = j.exchange /\ disk'[d].here = disk[d].here
                      /\ disk'[d].id = disk[d].id /\ disk'[d].exclude = disk[d].exclude
    BY <2>1, <2>2 DEF TypeOK, Local
  <2>5. UNCHANGED <<registry, promise, gaps>> /\ j.exchange # "none" /\ j.id # NoId
    BY <1>5, <2>1, RegistrationConstants DEF Set
  <2>6. CASE d # j.path
    BY <1>1, <1>2, <2>3, <2>5, <2>6, BothUndisturbed DEF Mapped
  <2>7. CASE d = j.path
    BY <1>2, <2>2, <2>4, <2>5, <2>7
       DEF BothAt, PromiseAt, AgainAt, Usable, HasIdentity, Identified, Mapped
  <2> QED BY <2>6, <2>7
<1>6. /\ ~WriteExclude(p) /\ ~WriteId(p) /\ ~WriteConfig(p) /\ ~RestoreLocal(p)
      /\ ~WriteRegistry(p) /\ ~RestoreRegistry(p)
  BY DEF WriteExclude, WriteId, WriteConfig, RestoreLocal, WriteRegistry, RestoreRegistry, Committing
<1> QED BY <1>3, <1>4, <1>5, <1>6, Changes

LEMMA PromisesKept ==
  ASSUME TypeOK, LocksOK, Registering, PromiseKept, RegistersAgain, NEW p \in Procs, Commands(p)
  PROVE  PromiseKept' /\ RegistersAgain'
<1>1. ASSUME NEW d \in Paths
      PROVE  UnderWay(d)' \/ BothAt(d)'
  <2>1. UnderWay(d) \/ BothAt(d)
    BY BothKept
  <2>2. \A q \in Procs \ {p} : pc'[q] = pc[q] /\ job'[q] = job[q]
    BY CommandShape DEF Shape, OthersStay
  <2>3. CASE pc[p] \in Committing /\ d # job[p].path
    <3>1. ~UnderWay(d)
      BY <2>3, OneOwner DEF UnderWay, Owns, Committing
    <3> QED BY <2>1, <2>3, <3>1, ElsewhereKept
  <2>4. CASE pc[p] \in Committing /\ d = job[p].path
    <3>1. CASE pc'[p] \in Committing
      BY <2>4, <3>1, SeenStays DEF UnderWay, Observing
    <3>2. CASE pc'[p] \notin Committing
      BY <2>4, <3>2, CommitSteps, LandsWell
    <3> QED BY <3>1, <3>2
  <2>5. CASE pc[p] \notin Committing /\ UnderWay(d)
    BY <2>2, <2>5 DEF UnderWay
  <2>6. CASE pc[p] \notin Committing /\ ~UnderWay(d)
    BY <2>1, <2>6, OtherwiseKept
  <2> QED BY <2>3, <2>4, <2>5, <2>6
<1>2. \A d \in Paths : UnderWay(d)' \/ BothAt(d)'
  BY <1>1
<1> QED BY <1>2 DEF PromiseKept, RegistersAgain, BothAt, PromiseAt, AgainAt, Untouched

-----------------------------------------------------------------------------
(* The invariant.                                                           *)

LEMMA RegistrationStarts == Init => RegInv
<1> SUFFICES ASSUME Init
             PROVE  RegInv
  OBVIOUS
<1>1. \A d \in Paths : disk[d] \in Local
                       /\ disk[d] \in {Nothing, Fresh} \cup Unregistered
  BY NothingIsLocal DEF Init
<1>2. TypeOK
  <2>1. disk \in [Paths -> Local]
    BY <1>1 DEF Init
  <2>2. job \in [Procs -> Jobs] /\ pc \in [Procs -> Points]
    BY NoJobIsJob DEF Init, Points
  <2>3. acts \in 0..Budget
    BY RegistrationConstants DEF Init
  <2>4. registry \in [Ids -> Paths \cup {NoPath}] /\ repoLock \in [Ids -> Procs \cup {NoProc}]
    BY DEF Init
  <2>5. promise \in [Paths -> Ids \cup {NoId}] /\ touched = {} /\ overlooked = {} /\ gaps = {} /\ regLock = NoProc
    BY DEF Init
  <2> QED BY <2>1, <2>2, <2>3, <2>4, <2>5 DEF TypeOK, Jobs, Points
<1>3. \A p \in Procs : pc[p] = "idle"
  BY DEF Init
<1>4. LocksOK /\ Registering /\ Using /\ Beside /\ Apartness
  BY <1>3 DEF LocksOK, RegistryLocked, IdentityLocked, LockedBy, JobNamed, JobOK, TouchesKnown, Init,
     Registering, Using, Beside, Apartness, InUse, Owns, Observing, Committing
<1>5. PromiseKept
  BY DEF Init, PromiseKept
<1>6. RegistersAgain
  <2>1. \A d \in Paths : Mapped(d) = {}
    BY RegistrationConstants DEF Init, Mapped
  <2>2. ASSUME NEW d \in Paths, disk[d].here
        PROVE  IF disk[d].id = NoId THEN disk[d].config = "none" ELSE Usable(d, disk[d].id)
    <3>1. CASE disk[d] \in {Nothing, Fresh}
      BY <2>2, <3>1 DEF Nothing, Fresh
    <3>2. CASE disk[d] \in Unregistered
      BY <3>2, RegistrationConstants DEF Unregistered, Usable, HasIdentity, Identified
    <3> QED BY <1>1, <3>1, <3>2
  <2> QED BY <2>1, <2>2 DEF RegistersAgain
<1> QED BY <1>2, <1>4, <1>5, <1>6 DEF RegInv

LEMMA UsersKeep ==
  ASSUME RegInv, Users
  PROVE  RegInv'
<1>1. TypeOK'
  BY UsersTyped DEF RegInv
<1>2. PICK S \in SUBSET Paths, changed \in [Paths -> Local] : UsersEffect(S, changed)
  BY UsersChange DEF RegInv, UsersEffect
<1>3. LocksOK' /\ Registering'
  BY <1>2, UsersLocks, UsersRegistering DEF RegInv
<1>4. \A d \in Paths : d \notin S => disk'[d] = disk[d] /\ promise'[d] = promise[d]
  BY <1>2 DEF UsersEffect, RegInv, TypeOK
<1>5. \A d \in Paths, q \in Procs \cup {NoProc} : Untouched(q, d)' <=> d \notin S /\ Untouched(q, d)
  BY <1>2 DEF UsersEffect, Untouched
<1>6. UNCHANGED <<registry, pc, job, gaps>>
  BY <1>2 DEF UsersEffect
<1>7. \A d \in Paths : d \in S => promise'[d] = NoId
  BY <1>2 DEF UsersEffect
<1>8. \A p \in Procs : InUse(p)' => InUse(p) /\ job[p].path \notin S /\ job[p].path \in Paths
  BY <1>5, <1>6 DEF InUse, RegInv, LocksOK, JobNamed, JobOK, Untouched
<1>9. Using'
  BY <1>4, <1>6, <1>8 DEF RegInv, Using, UsingOK, Mapped, Identified
<1>10. Beside'
  BY <1>6, <1>8 DEF RegInv, Beside, BesideOK, MappedIn
<1>11. Apartness'
  <2>1. \A p \in Procs : NothingTouched(p)' => NothingTouched(p)
    BY <1>5 DEF NothingTouched
  <2>2. overlooked' = overlooked
    BY <1>2 DEF UsersEffect
  <2> QED BY <1>6, <2>1, <2>2 DEF RegInv, Apartness, StaysApart, InSight, Apart
<1>12. PromiseKept' /\ RegistersAgain'
  <2>1. \A d \in Paths : UnderWay(d) \/ BothAt(d)
    BY BothKept DEF RegInv
  <2>2. \A d \in Paths : UnderWay(d)' \/ BothAt(d)'
    BY <2>1, <1>4, <1>5, <1>6, <1>7 DEF UnderWay, BothAt, PromiseAt, AgainAt, Mapped, Usable,
       HasIdentity, Identified
  <2> QED BY <2>2 DEF PromiseKept, RegistersAgain, BothAt, PromiseAt, AgainAt, Untouched
<1> QED BY <1>1, <1>3, <1>9, <1>10, <1>11, <1>12 DEF RegInv

LEMMA CommandKeeps ==
  ASSUME RegInv, NEW p \in Procs, Commands(p)
  PROVE  RegInv'
<1> USE DEF RegInv
<1>1. TypeOK' /\ LocksOK'
  BY CommandTyped, LocksKept DEF LocksOK
<1>2. Registering' /\ Using' /\ Beside' /\ Apartness'
  BY RegisteringKept, UsingKept, BesideKept, ApartnessKept
<1>3. PromiseKept' /\ RegistersAgain'
  BY PromisesKept
<1> QED BY <1>1, <1>2, <1>3

LEMMA RegistrationRests ==
  ASSUME RegInv, UNCHANGED vars
  PROVE  RegInv'
<1> USE DEF vars, lockVars, historyVars
<1>1. TypeOK'
  BY DEF RegInv, TypeOK
<1>2. LocksOK'
  BY DEF RegInv, LocksOK, RegistryLocked, IdentityLocked, LockedBy, Affected, JobNamed, JobOK,
     TouchesKnown, Untouched, Owns
<1>3. Registering'
  <2>1. ASSUME NEW p \in Procs, pc[p] \in Observing
        PROVE  RegisterOK(p)'
    <3>1. RegisterOK(p) /\ job[p].path \in Paths
      BY <2>1 DEF RegInv, Registering, LocksOK, JobNamed, JobOK, Observing, Committing
    <3> QED BY <3>1, RegisterUndisturbed
  <2> QED BY <2>1 DEF Registering
<1>4. Using' /\ Beside'
  BY DEF RegInv, Using, UsingOK, Beside, BesideOK, InUse, Untouched, Mapped, Identified
<1>5. Apartness'
  BY DEF RegInv, Apartness, StaysApart, NothingTouched, Untouched, InSight, Apart
<1>6. PromiseKept'
  BY DEF RegInv, PromiseKept, UnderWay, Mapped, Usable, HasIdentity, Identified
<1>7. RegistersAgain'
  BY DEF RegInv, RegistersAgain, UnderWay, Mapped, Usable, HasIdentity, Identified
<1> QED BY <1>1, <1>2, <1>3, <1>4, <1>5, <1>6, <1>7 DEF RegInv

LEMMA RegistrationInvariant == Spec => []RegInv
<1>1. RegInv /\ [Next]_vars => RegInv'
  <2> SUFFICES ASSUME RegInv, [Next]_vars
               PROVE  RegInv'
    OBVIOUS
  <2>1. CASE Next
    BY <2>1, UsersKeep, CommandKeeps DEF Next
  <2>2. CASE UNCHANGED vars
    BY <2>2, RegistrationRests
  <2> QED BY <2>1, <2>2
<1> QED BY RegistrationStarts, <1>1, PTL DEF Spec

-----------------------------------------------------------------------------
(* The results.                                                             *)

(* Every variable of the registration keeps its type, for any number of     *)
(* commands, directories, identities and Exchanges.                         *)
THEOREM RegistrationTypeCorrect == Spec => []TypeOK
BY RegistrationInvariant, PTL DEF RegInv

(* What register reported as registered stays so, through failing, refused  *)
(* and killed commands on this or another repository.                       *)
THEOREM PromisesAreKept == Spec => []PromiseKept
BY RegistrationInvariant, PTL DEF RegInv

(* However often commands failed on it or were killed, a repository no user *)
(* touched can be registered again, but after a first registration that     *)
(* broke off at one of the named points.                                    *)
THEOREM RepositoriesRegisterAgain == Spec => []RegistersAgain
BY RegistrationInvariant, PTL DEF RegInv

(* A registration that fails without an `inconsistent' has left nothing.    *)
THEOREM NoTraceIsLeft == Spec => FailureLeavesNoTrace
<1>1. ASSUME RegInv, [Next]_vars, NEW p \in Procs, pc[p] = "undo_registry", pc'[p] = "idle",
             ~job[p].dirty, <<job[p].path, p>> \notin touched
      PROVE  disk'[job[p].path] = job[p].seen
  <2>1. PICK q \in Procs : Commands(q)
    <3>1. ~Users
      BY <1>1, UsersChange DEF RegInv
    <3>2. ~UNCHANGED vars
      BY <1>1 DEF vars
    <3> QED BY <1>1, <3>1, <3>2 DEF Next
  <2>2. p = q
    BY <1>1, <2>1, CommandShape DEF RegInv, Shape, OthersStay
  <2>3. Leaves(p)
    BY <1>1, <2>1, <2>2, CommitSteps DEF RegInv, Committing
  <2>4. disk' = disk
    BY <2>3 DEF Leaves, Registered, RestoreRegistry, RestoreRegistryFails, Killed
  <2>5. LocalAt(p)
    BY <1>1 DEF RegInv, Registering, RegisterOK, Untouched, Observing, Committing
  <2> QED BY <1>1, <2>4, <2>5 DEF LocalAt
<1>2. RegInv /\ [Next]_vars =>
        [\A p \in Procs :
           pc[p] = "undo_registry" /\ pc'[p] = "idle" /\ ~job[p].dirty
           /\ registry' = job[p].old /\ <<job[p].path, p>> \notin touched =>
             disk'[job[p].path] = job[p].seen]_vars
  BY <1>1
<1> QED BY RegistrationInvariant, <1>2, PTL DEF Spec, FailureLeavesNoTrace

(* What a command relies on while it works on a repository no other command *)
(* changes, though register and unregister do not always take its lock.     *)
THEOREM RepositoryStays == Spec => RepositoryKept
<1>1. ASSUME RegInv, [Next]_vars, NEW p \in Procs, pc[p] = "use", acts' = acts,
             <<job[p].path, p>> \notin touched
      PROVE  registry'[job[p].id] = registry[job[p].id] /\ disk'[job[p].path] = disk[job[p].path]
  <2>1. InUse(p) /\ job[p].id \in Ids
    BY <1>1 DEF InUse, Untouched, RegInv, LocksOK, JobNamed, JobOK
  <2>2. CASE UNCHANGED vars
    BY <2>2 DEF vars
  <2>3. ~Users
    <3>1. acts + 1 # acts
      BY <1>1, RegistrationConstants DEF RegInv, TypeOK
    <3> QED BY <1>1, <3>1, UsersChange DEF RegInv
  <2>4. ASSUME NEW q \in Procs, Commands(q)
        PROVE  registry'[job[p].id] = registry[job[p].id] /\ disk'[job[p].path] = disk[job[p].path]
    <3>1. CASE q = p
      <4>1. Finishes(p)
        BY <1>1, <2>4, <3>1, CommandShape DEF RegInv, Shape, Begins, Works, Owns
      <4> QED BY <4>1 DEF Finishes
    <3>2. CASE q # p
      <4>1. /\ MappedIn(registry', job[p].path) = {job[p].id}
            /\ disk'[job[p].path] = disk[job[p].path]
        BY <1>1, <2>1, <2>4, <3>2, UseUndisturbed DEF RegInv
      <4>2. Mapped(job[p].path) = {job[p].id}
        BY <1>1, <2>1 DEF RegInv, Using, UsingOK
      <4> QED BY <4>1, <4>2, <2>1 DEF Mapped, MappedIn
    <3> QED BY <3>1, <3>2
  <2> QED BY <1>1, <2>2, <2>3, <2>4 DEF Next
<1>2. RegInv /\ [Next]_vars =>
        [\A p \in Procs :
           pc[p] = "use" /\ acts' = acts /\ <<job[p].path, p>> \notin touched =>
             /\ registry'[job[p].id] = registry[job[p].id]
             /\ disk'[job[p].path] = disk[job[p].path]]_vars
  BY <1>1
<1> QED BY RegistrationInvariant, <1>2, PTL DEF Spec, RepositoryKept

(* Results go only where no registered repository is, although the registry *)
(* may have changed since it was looked at; but for a directory registered  *)
(* meanwhile by a command that passed over the repository of the Result,    *)
(* whose identity it could not read.                                        *)
THEOREM ResultsStayApart == Spec => ResultsApart
<1>1. RegInv /\ [Next]_vars =>
        [\A p \in Procs :
           PublishResult(p) /\ (\A d \in Paths : <<d, p>> \notin touched) =>
             \A i \in Ids : registry[i] # NoPath /\ <<registry[i], p>> \notin overlooked =>
               Apart(registry[i], job[p].exchange)]_vars
  BY DEF RegInv, Apartness, InSight, NothingTouched, Untouched, PublishResult
<1> QED BY RegistrationInvariant, <1>1, PTL DEF Spec, ResultsApart

=============================================================================
