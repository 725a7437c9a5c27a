----------------------------- MODULE Registration -----------------------------
(***************************************************************************)
(* Registration of repositories (registration.py, registry.py,             *)
(* repository.py, application_configuration.py): the registry of one user   *)
(* maps identities to directories; each repository keeps its identity, its  *)
(* configuration and the exclusion of both from Git in local files.  A      *)
(* registration writes the local files and the registry one after the      *)
(* other and undoes them when one write fails; it may be killed in between. *)
(* Commands exclude each other by the registry lock, which an Apply gives   *)
(* back when it has the lock of its repository.  Users move, copy and       *)
(* delete whole repositories at any time.                                   *)
(***************************************************************************)
EXTENDS Naturals

CONSTANTS
  Procs,      \* processes that run commands
  Paths,      \* directories repositories may be in
  Ids,        \* identities (random, so a new one is one nobody knows)
  Exchanges,  \* directories that may be configured as Exchange
  Overlap,    \* which of them equal, contain or are inside which path
  Budget,     \* bound: what users do to whole repositories
  NoProc, NoPath, NoId

ASSUME RegistrationConstants ==
  /\ NoProc \notin Procs /\ NoPath \notin Paths /\ NoId \notin Ids
  /\ {"none", "unset", "elsewhere"} \cap Exchanges = {}
  /\ Overlap \subseteq Exchanges \X Paths /\ Budget \in Nat

VARIABLES
  disk,      \* the repository at a path: identity, exclusion, configuration
  registry,  \* the registry: path of an identity
  regLock,   \* holder of the registry lock
  repoLock,  \* holders of the repository locks
  pc,        \* control points of the commands
  job,       \* their local variables
  acts,      \* what users have done so far
  promise,   \* history: identity the last successful command reported of a path
  touched,   \* history: paths users have changed, with the commands that may not know
  gaps,      \* history: paths where a first registration broke off half-way
  overlooked \* history: paths registered without a look at the repository a command uses

lockVars == <<regLock, repoLock>>
historyVars == <<promise, touched, gaps, overlooked>>
vars == <<disk, registry, lockVars, pc, job, acts, historyVars>>

Local == [here : BOOLEAN, id : Ids \cup {NoId}, exclude : BOOLEAN,
          config : Exchanges \cup {"none", "unset"}]
Nothing == [here |-> FALSE, id |-> NoId, exclude |-> FALSE, config |-> "none"]
Fresh == [Nothing EXCEPT !.here = TRUE]
Unregistered == [here : {TRUE}, id : Ids, exclude : {TRUE}, config : Exchanges \cup {"unset"}]

NoJob == [path |-> NoPath, new |-> FALSE, id |-> NoId, seen |-> Nothing,
          old |-> [i \in Ids |-> NoPath], exchange |-> "none", dirty |-> FALSE]

Init ==
  /\ disk \in [Paths -> {Nothing, Fresh} \cup Unregistered]
  /\ registry = [i \in Ids |-> NoPath]
  /\ regLock = NoProc /\ repoLock = [i \in Ids |-> NoProc]
  /\ pc = [p \in Procs |-> "idle"] /\ job = [p \in Procs |-> NoJob]
  /\ acts = 0 /\ promise = [d \in Paths |-> NoId]
  /\ touched = {} /\ gaps = {} /\ overlooked = {}

-----------------------------------------------------------------------------
(* What a command reads.                                                    *)

Mapped(d) == {i \in Ids : registry[i] = d}
Identified(d, i) == disk[d].here /\ disk[d].id = i
HasIdentity(d, i) == Identified(d, i) /\ disk[d].exclude
Usable(d, i) == HasIdentity(d, i) /\ disk[d].config # "none"
Apart(d, exchange) == <<exchange, d>> \notin Overlap
Unknown(i) ==
  /\ registry[i] = NoPath /\ repoLock[i] = NoProc
  /\ \A d \in Paths : disk[d].id # i
  /\ \A p \in Procs : job[p].id # i

(* _observe_registration: a path without identity must be without remains;  *)
(* every repository the registry rightly names must have a configuration,   *)
(* and its Exchange must not overlap the path.  A repository whose identity *)
(* cannot be read is none the registry rightly names, and is passed over.   *)
Acceptable(d, unread) ==
  /\ disk[d].here
  /\ IF disk[d].id = NoId THEN disk[d].config = "none" /\ Mapped(d) = {}
     ELSE Usable(d, disk[d].id) /\ Apart(d, disk[d].config)
  /\ \A i \in Ids : registry[i] \notin {d, NoPath} \cup unread /\ Identified(registry[i], i) =>
       Usable(registry[i], i) /\ Apart(d, disk[registry[i]].config)

RegisteredElsewhere(d) ==
  \E i \in Ids : /\ i = disk[d].id /\ registry[i] \notin {d, NoPath}
                 /\ disk[registry[i]].here

(* replace_registry_mapping and remove_registry_mapping.                    *)
ReplacedKeepingPath(r, i, d) == [r EXCEPT ![i] = d]
ReplacedByIdentity(r, i, d) == [r EXCEPT ![i] = i]
Replaced(r, i, d) == [j \in Ids |-> IF j = i THEN d ELSE IF r[j] = d THEN NoPath ELSE r[j]]
Removed(r, i) == [r EXCEPT ![i] = NoPath]

-----------------------------------------------------------------------------
(* Commands begin with the registry lock and end without locks; a lock that *)
(* is held refuses the command at once.                                     *)

Begin(p, there, record) ==
  /\ pc[p] = "idle" /\ regLock = NoProc
  /\ regLock' = p /\ pc' = [pc EXCEPT ![p] = there]
  /\ job' = [job EXCEPT ![p] = record]
  /\ UNCHANGED <<disk, registry, repoLock, acts, promise, gaps>>
  /\ touched' = touched \ (Paths \X {p}) /\ overlooked' = overlooked \ (Paths \X {p})

Goto(p, there) == pc' = [pc EXCEPT ![p] = there]
Stay == UNCHANGED <<acts, touched, overlooked>>

Leave(p) ==
  /\ pc' = [pc EXCEPT ![p] = "idle"] /\ job' = [job EXCEPT ![p] = NoJob]
  /\ regLock' = IF regLock = p THEN NoProc ELSE regLock
  /\ repoLock' = [i \in Ids |-> IF repoLock[i] = p THEN NoProc ELSE repoLock[i]]

LockRepository(p, i) ==
  repoLock[i] = NoProc /\ repoLock' = [repoLock EXCEPT ![i] = p]

(* Anything read may be unreadable or refused, every lock may be busy.      *)
Refuse(p) ==
  /\ pc[p] \in {"observe", "lock", "check", "drop", "drop_check", "set", "set_check",
               "resolve", "resolved"}
  /\ Leave(p)
  /\ UNCHANGED <<disk, registry, promise, gaps>> /\ Stay

-----------------------------------------------------------------------------
(* register, register --new-id                                              *)

BeginRegister(p, d, new) == Begin(p, "observe", [NoJob EXCEPT !.path = d, !.new = new])

(* The identity is kept if it is not registered to another existing path.   *)
Observe(p) ==
  LET d == job[p].path IN
  /\ pc[p] = "observe" /\ \E unread \in SUBSET Paths : Acceptable(d, unread)
  /\ \E i \in Ids :
       /\ IF job[p].new \/ disk[d].id = NoId THEN Unknown(i)
          ELSE i = disk[d].id /\ ~RegisteredElsewhere(d)
       /\ job' = [job EXCEPT ![p] = [@ EXCEPT !.id = i, !.seen = disk[d], !.old = registry]]
  /\ Goto(p, IF job[p].new THEN "lock" ELSE "check")
  /\ UNCHANGED <<disk, registry, lockVars, promise, gaps>> /\ Stay

(* A new identity takes the lock of the one it replaces.                    *)
AffectedIsNew(p) == job[p].id
Affected(p) == IF job[p].seen.id # NoId THEN job[p].seen.id ELSE job[p].id

LockIdentity(p) ==
  /\ pc[p] = "lock" /\ LockRepository(p, Affected(p)) /\ Goto(p, "check")
  /\ UNCHANGED <<disk, registry, regLock, job, promise, gaps>> /\ Stay

\* The commands at work on these repositories.
UsersOf(repositories) == {q \in Procs : pc[q] = "use" /\ job[q].path \in repositories}

Check(p) ==
  LET d == job[p].path IN
  /\ pc[p] = "check" /\ disk[d] = job[p].seen
  /\ \E unread \in SUBSET Paths :
       /\ Acceptable(d, unread)
       /\ overlooked' = overlooked \cup ({d} \X UsersOf(unread))
  /\ Goto(p, "exclude")
  /\ UNCHANGED <<disk, registry, lockVars, job, promise, gaps, acts, touched>>

(* _commit_identity_transition *)
Write(p, local) ==
  /\ disk[job[p].path].here
  /\ disk' = [disk EXCEPT ![job[p].path] = local]
  /\ UNCHANGED <<registry, lockVars, job, promise, gaps>> /\ Stay

WriteExclude(p) ==
  /\ pc[p] = "exclude" /\ Goto(p, "id")
  /\ Write(p, [disk[job[p].path] EXCEPT !.exclude = @ \/ ~job[p].seen.exclude])

WriteId(p) ==
  /\ pc[p] = "id" /\ Goto(p, IF job[p].seen.id = NoId THEN "config" ELSE "registry")
  /\ Write(p, [disk[job[p].path] EXCEPT !.id = job[p].id])

WriteConfig(p) ==
  /\ pc[p] = "config" /\ Goto(p, "registry")
  /\ HasIdentity(job[p].path, job[p].id) /\ disk[job[p].path].config = "none"
  /\ Write(p, [disk[job[p].path] EXCEPT !.config = "unset"])

WriteRegistry(p) ==
  /\ pc[p] = "registry" /\ Goto(p, "written")
  /\ registry' = Replaced(job[p].old, job[p].id, job[p].path)
  /\ UNCHANGED <<disk, lockVars, job, promise, gaps>> /\ Stay

Registered(p) ==
  /\ pc[p] = "written" /\ Leave(p)
  /\ promise' = [promise EXCEPT ![job[p].path] =
                   IF <<job[p].path, p>> \in touched THEN NoId ELSE job[p].id]
  /\ UNCHANGED <<disk, registry, gaps>> /\ Stay

(* A write fails, or Ctrl-C arrives, also when everything is written.       *)
CommitFails(p) ==
  /\ pc[p] \in {"exclude", "id", "config", "registry", "written"} /\ Goto(p, "undo")
  /\ UNCHANGED <<disk, registry, lockVars, job, promise, gaps>> /\ Stay

(* restore_local_registration: each file for itself, as far as possible.    *)
RestoredWithoutConfig(local, seen, failed) ==
  [local EXCEPT !.id = IF "id" \in failed THEN @ ELSE seen.id,
                !.exclude = IF "exclude" \in failed THEN @ ELSE seen.exclude]

Restored(local, seen, failed) ==
  [local EXCEPT !.config = IF "config" \in failed THEN @ ELSE seen.config,
                !.id = IF "id" \in failed THEN @ ELSE seen.id,
                !.exclude = IF "exclude" \in failed THEN @ ELSE seen.exclude]

RestoreLocal(p) ==
  LET d == job[p].path IN
  /\ pc[p] = "undo" /\ Goto(p, "undo_registry")
  /\ \E failed \in SUBSET {"config", "id", "exclude"} :
       /\ disk' = IF disk[d].here
                  THEN [disk EXCEPT ![d] = Restored(disk[d], job[p].seen, failed)] ELSE disk
       /\ job' = [job EXCEPT ![p].dirty = failed # {}]
  /\ UNCHANGED <<registry, lockVars, promise, gaps>> /\ Stay

(* What an error that says `may be inconsistent' leaves behind.             *)
Broken(p) ==
  LET d == job[p].path IN
  /\ promise' = IF job[p].new THEN [promise EXCEPT ![d] = NoId] ELSE promise
  /\ gaps' = IF job[p].seen.id = NoId THEN gaps \cup {d} ELSE gaps

RestoreRegistry(p) ==
  /\ pc[p] = "undo_registry" /\ Leave(p)
  /\ registry' = job[p].old
  /\ IF job[p].dirty THEN Broken(p) ELSE UNCHANGED <<promise, gaps>>
  /\ UNCHANGED disk /\ Stay

RestoreRegistryFails(p) ==
  /\ pc[p] = "undo_registry" /\ Leave(p) /\ Broken(p)
  /\ UNCHANGED <<disk, registry>> /\ Stay

-----------------------------------------------------------------------------
(* unregister: only the mapping goes; if the directory exists, under its    *)
(* lock.                                                                    *)

BeginUnregister(p, i) ==
  /\ registry[i] # NoPath
  /\ Begin(p, "drop", [NoJob EXCEPT !.path = registry[i], !.id = i])

Drop(p) ==
  /\ registry' = Removed(registry, job[p].id) /\ Leave(p)
  /\ promise' = [promise EXCEPT ![job[p].path] = NoId]
  /\ UNCHANGED <<disk, gaps>> /\ Stay

DropMissing(p) == pc[p] = "drop" /\ ~disk[job[p].path].here /\ Drop(p)

DropLock(p) ==
  /\ pc[p] = "drop" /\ disk[job[p].path].here
  /\ LockRepository(p, job[p].id) /\ Goto(p, "drop_check")
  /\ UNCHANGED <<disk, registry, regLock, job, promise, gaps>> /\ Stay

DropMapping(p) ==
  /\ pc[p] = "drop_check" /\ registry[job[p].id] = job[p].path
  /\ Identified(job[p].path, job[p].id) /\ Drop(p)

(* configure exchange-directory, in a uniquely registered repository.       *)
BeginConfigure(p, d, exchange) ==
  \E i \in Ids :
    /\ Mapped(d) = {i} /\ HasIdentity(d, i)
    /\ Begin(p, "set", [NoJob EXCEPT !.path = d, !.id = i, !.exchange = exchange])

SetLock(p) ==
  /\ pc[p] = "set" /\ Usable(job[p].path, job[p].id)
  /\ LockRepository(p, job[p].id) /\ Goto(p, "set_check")
  /\ job' = [job EXCEPT ![p].seen = disk[job[p].path]]
  /\ UNCHANGED <<disk, registry, regLock, promise, gaps>> /\ Stay

Set(p) ==
  LET d == job[p].path IN
  /\ pc[p] = "set_check" /\ Mapped(d) = {job[p].id} /\ HasIdentity(d, job[p].id)
  /\ disk[d].config = job[p].seen.config
  /\ \A i \in Ids : registry[i] # NoPath => Apart(registry[i], job[p].exchange)
  /\ disk' = [disk EXCEPT ![d].config = job[p].exchange] /\ Leave(p)
  /\ UNCHANGED <<registry, promise, gaps>> /\ Stay

(***************************************************************************)
(* Commands that work on a registered repository: an Apply or a bundle,     *)
(* which put a Result into the Exchange or an explicit directory (assumed    *)
(* to be "elsewhere"), and the capture of a context, which has no target.    *)
(* They take the repository lock inside the registry lock, look at           *)
(* everything again, give the registry lock back and go on with the          *)
(* registry they saw.                                                        *)
(***************************************************************************)
Outside(exchange, r) == \A i \in Ids : r[i] # NoPath => Apart(r[i], exchange)
OutsideItself(exchange, r) ==
  \A i \in Ids : r[i] # NoPath /\ disk[r[i]].config = exchange => Apart(r[i], exchange)

Separate(exchange, r) == Outside(exchange, r)

Targets(d) ==
  IF disk[d].config = "none" THEN {}
  ELSE {"elsewhere"} \cup ({disk[d].config} \ {"unset"})

Named(r, d, i) == {j \in Ids : r[j] = d} = {i}

\* What is looked at again: the identity, and the target if there is one.
Confirmed(p, r) ==
  LET d == job[p].path IN
  /\ Named(r, d, job[p].id) /\ Identified(d, job[p].id)
  /\ job[p].exchange # "none" =>
       /\ disk[d].exclude /\ disk[d].config = job[p].seen.config
       /\ Separate(job[p].exchange, r)

ApplyBegins(p, i) ==
  LET d == registry[i] IN
  /\ d # NoPath /\ Mapped(d) = {i} /\ HasIdentity(d, i)
  /\ \E target \in Targets(d) :
       /\ Separate(target, registry)
       /\ Begin(p, "resolve", [NoJob EXCEPT !.path = d, !.id = i, !.seen = disk[d],
                                            !.exchange = target])

ContextBegins(p, d) ==
  \E i \in Ids :
    /\ Mapped(d) = {i} /\ Identified(d, i)
    /\ Begin(p, "resolve", [NoJob EXCEPT !.path = d, !.id = i, !.seen = disk[d]])

UseLocks(p) ==
  /\ pc[p] = "resolve" /\ Identified(job[p].path, job[p].id)
  /\ LockRepository(p, job[p].id) /\ Goto(p, "resolved")
  /\ UNCHANGED <<disk, registry, regLock, job, promise, gaps>> /\ Stay

UseResolves(p) ==
  /\ pc[p] = "resolved" /\ Confirmed(p, registry)
  /\ regLock' = NoProc /\ Goto(p, "use")
  /\ job' = [job EXCEPT ![p].old = registry]
  /\ UNCHANGED <<disk, registry, repoLock, promise, gaps>> /\ Stay

(* The Result is published after a last look, with the registry of before.  *)
PublishResult(p) ==
  /\ pc[p] = "use" /\ job[p].exchange # "none" /\ Confirmed(p, job[p].old) /\ Leave(p)
  /\ UNCHANGED <<disk, registry, promise, gaps>> /\ Stay

UseEnds(p) ==
  /\ pc[p] = "use" /\ Leave(p)
  /\ UNCHANGED <<disk, registry, promise, gaps>> /\ Stay

(* The locks of a killed process are free at once.                          *)
Killed(p) ==
  /\ pc[p] # "idle" /\ Leave(p)
  /\ promise' = IF job[p].new /\ pc[p] \in {"registry", "written", "undo", "undo_registry"}
                THEN [promise EXCEPT ![job[p].path] = NoId] ELSE promise
  /\ gaps' = IF job[p].seen.id = NoId /\ pc[p] \in {"config", "undo", "undo_registry"}
             THEN gaps \cup {job[p].path} ELSE gaps
  /\ UNCHANGED <<disk, registry>> /\ Stay

-----------------------------------------------------------------------------
(* Users: git clone, cp -a, mv, rm -r.                                      *)

Becomes(changed) ==
  /\ acts < Budget /\ acts' = acts + 1
  /\ disk' = [d \in Paths |-> IF d \in DOMAIN changed THEN changed[d] ELSE disk[d]]
  /\ touched' = touched \cup ((DOMAIN changed) \X (Procs \cup {NoProc}))
  /\ promise' = [d \in Paths |-> IF d \in DOMAIN changed THEN NoId ELSE promise[d]]
  /\ UNCHANGED <<registry, lockVars, pc, job, gaps, overlooked>>

Clone(d, e) == disk[d].here /\ ~disk[e].here /\ Becomes([x \in {e} |-> Fresh])
Copy(d, e) == disk[d].here /\ ~disk[e].here /\ Becomes([x \in {e} |-> disk[d]])
Delete(d) == disk[d].here /\ Becomes([x \in {d} |-> Nothing])
Move(d, e) ==
  /\ disk[d].here /\ ~disk[e].here
  /\ Becomes([x \in {d, e} |-> IF x = e THEN disk[d] ELSE Nothing])

Users ==
  \/ \E d, e \in Paths : Clone(d, e) \/ Copy(d, e) \/ Move(d, e)
  \/ \E d \in Paths : Delete(d)

Commands(p) ==
  \/ \E d \in Paths, new \in BOOLEAN : BeginRegister(p, d, new)
  \/ Observe(p) \/ LockIdentity(p) \/ Check(p)
  \/ WriteExclude(p) \/ WriteId(p) \/ WriteConfig(p) \/ WriteRegistry(p)
  \/ Registered(p) \/ CommitFails(p) \/ RestoreLocal(p) \/ RestoreRegistry(p)
  \/ RestoreRegistryFails(p) \/ Refuse(p)
  \/ \E i \in Ids : BeginUnregister(p, i) \/ ApplyBegins(p, i)
  \/ DropMissing(p) \/ DropLock(p) \/ DropMapping(p)
  \/ \E d \in Paths, exchange \in Exchanges : BeginConfigure(p, d, exchange)
  \/ SetLock(p) \/ Set(p) \/ \E d \in Paths : ContextBegins(p, d)
  \/ UseLocks(p) \/ UseResolves(p) \/ PublishResult(p) \/ UseEnds(p) \/ Killed(p)

Next == Users \/ \E p \in Procs : Commands(p)
Spec == Init /\ [][Next]_vars

-----------------------------------------------------------------------------

TypeOK ==
  /\ disk \in [Paths -> Local]
  /\ registry \in [Ids -> Paths \cup {NoPath}]
  /\ regLock \in Procs \cup {NoProc} /\ repoLock \in [Ids -> Procs \cup {NoProc}]
  /\ pc \in [Procs -> {"idle", "observe", "lock", "check", "exclude", "id", "config",
                       "registry", "written", "undo", "undo_registry", "drop",
                       "drop_check", "set", "set_check", "resolve", "resolved", "use"}]
  /\ job \in [Procs -> [path : Paths \cup {NoPath}, new : BOOLEAN, id : Ids \cup {NoId},
                        seen : Local, old : [Ids -> Paths \cup {NoPath}],
                        exchange : Exchanges \cup {"none", "elsewhere"}, dirty : BOOLEAN]]
  /\ acts \in 0..Budget /\ promise \in [Paths -> Ids \cup {NoId}]
  /\ touched \subseteq Paths \X (Procs \cup {NoProc}) /\ gaps \subseteq Paths
  /\ overlooked \subseteq Paths \X Procs

Committing == {"exclude", "id", "config", "registry", "written", "undo", "undo_registry"}
UnderWay(d) == \E p \in Procs : pc[p] \in Committing /\ job[p].path = d

(* A registration that fails without saying that something may be          *)
(* inconsistent has left registry and local files as it found them,         *)
(* whichever write failed, whatever is left of an earlier one.              *)
FailureLeavesNoTrace ==
  [][\A p \in Procs :
       pc[p] = "undo_registry" /\ pc'[p] = "idle" /\ ~job[p].dirty
       /\ registry' = job[p].old /\ <<job[p].path, p>> \notin touched =>
         disk'[job[p].path] = job[p].seen]_vars

(* While an Apply, a bundle or a capture holds the lock of its repository,   *)
(* and users leave the directory where it is, no command changes the mapping,*)
(* the identity or the configuration it relies on, although register does    *)
(* not take that lock to keep an identity, nor unregister for a missing      *)
(* directory.                                                                *)
RepositoryKept ==
  [][\A p \in Procs :
       pc[p] = "use" /\ acts' = acts /\ <<job[p].path, p>> \notin touched =>
         /\ registry'[job[p].id] = registry[job[p].id]
         /\ disk'[job[p].path] = disk[job[p].path]]_vars

(* A Result is never put into an Exchange that overlaps a repository that is *)
(* registered at that moment, although the last look uses the registry of    *)
(* before, a repository registered again may bring along an Exchange with    *)
(* another repository in it, and nobody forbids registering during an Apply; *)
(* unless users moved repositories since the command began, or the overlap   *)
(* is with a directory registered since then by a command that could not     *)
(* read the identity of the very repository the Result is of.                *)
ResultsApart ==
  [][\A p \in Procs :
       PublishResult(p) /\ (\A d \in Paths : <<d, p>> \notin touched) =>
         \A i \in Ids : registry[i] # NoPath /\ <<registry[i], p>> \notin overlooked =>
           Apart(registry[i], job[p].exchange)]_vars

(* A repository whose registration was reported as successful stays         *)
(* registered and usable, under that identity only, through failing,        *)
(* refused and killed commands on this or another repository, until users   *)
(* touch it, it is unregistered or a new identity breaks off.               *)
PromiseKept ==
  \A d \in Paths : promise[d] # NoId /\ ~UnderWay(d) =>
    Mapped(d) = {promise[d]} /\ Usable(d, promise[d])

(* A repository no user has touched can always be registered again (with a  *)
(* new identity if a copy of it was registered meanwhile), however often    *)
(* commands on it failed or were killed, except after a first registration  *)
(* broke off between identity and configuration or during its undoing.      *)
RegistersAgain ==
  \A d \in Paths : disk[d].here /\ ~UnderWay(d) /\ d \notin gaps
                   /\ <<d, NoProc>> \notin touched =>
    IF disk[d].id = NoId THEN disk[d].config = "none" /\ Mapped(d) = {}
    ELSE Usable(d, disk[d].id)

=============================================================================
