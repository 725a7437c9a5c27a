------------------------------- MODULE Watcher -------------------------------
(***************************************************************************)
(* The event-driven watcher: run_repository_watcher (loop.py) with its     *)
(* Schedule (scheduling.py), its Observation (observation.py), the native  *)
(* event source it reads and the helper thread that waits for one Apply    *)
(* worker process.                                                         *)
(*                                                                         *)
(* Time is abstracted to which deadlines have passed: a root is in `due'   *)
(* when its five quiet seconds are over, in `probeDue' when its next       *)
(* readiness probe is; the back-off only stretches that time.  A root is   *)
(* its directory; its physical identity is left out, a replaced root being *)
(* an event that asks for a refresh.  Unread events are a set: reading     *)
(* them twice does what reading them once does.                            *)
(***************************************************************************)
EXTENDS Naturals, FiniteSets

CONSTANTS
  Roots,   \* Exchange directories
  Locks,   \* locks of Core that an Apply or a probe can find busy
  NoLock,
  Errors,  \* what a worker that failed can say: its exit code and its texts
  Others,  \* what else happens, a subset of AllOthers
  Budget   \* bound: changes, busy locks, overflows, reconfigurations, attempts

AllOthers == {"overflow", "reconfigure", "damage", "stop", "error",
              "probe_error", "backend"}

ASSUME ConstantsAssumption ==
  /\ Locks \subseteq {"registry", "repository", "state"}
  /\ NoLock \notin Locks
  /\ Errors \cap {"nothing", "other"} = {}
  /\ Others \subseteq AllOthers
  /\ Budget \in Nat

VARIABLES
  registered, \* Exchanges that registry and configurations name
  damaged,    \* a local configuration is broken
  held,       \* locks other processes hold
  budget,     \* what the environment may still do
  queue,      \* unread events of the open source: roots, "refresh"
  wake,       \* a byte waits in the wake pipe of the open source
  targets,    \* Schedule.roots: the Exchanges under subscription
  dirty,      \* roots with work to do
  due,        \* roots whose quiet period is over
  blocked,    \* the lock each root waits for
  probeDue,   \* roots whose next readiness probe is due
  same,       \* roots with the generation the last scope began with
  scope,      \* Exchanges of the last worker
  thread,     \* the helper thread of that worker
  result,     \* what the thread put into the queue `completed'
  found,      \* targets read by a refresh, not yet subscribed to
  controls,   \* control paths have been read at least once
  control,    \* the readiness probe a failed refresh waits for
  pc, back,   \* control point of the main thread; where a refresh returns
  stop,       \* a signal asked the watcher to stop
  published,  \* what the watcher last said of a worker: an error, or "other"
  fresh,      \* history: roots changed since their last worker began
  owed,       \* history: roots with changes no worker has dealt with
  reported,   \* history: roots an error was reported about since their change
  repeated,   \* history: roots an error was not reported about since their
              \* change, because the watcher had just said the same
  missed      \* history: registry or configuration changed after the refresh
              \* read them and before the new source was open

envVars == <<registered, damaged, held>>
sourceVars == <<queue, wake>>
rootVars == <<targets, dirty, due, blocked, probeDue, same>>
threadVars == <<scope, thread, result>>
controlVars == <<found, controls, control>>
told == <<published, reported, repeated>>
marks == <<told, missed>>
history == <<fresh, owed, marks>>
vars == <<envVars, budget, sourceVars, rootVars, threadVars, controlVars, pc,
          back, stop, history>>

Event == Roots \cup {"refresh"}
Outcome(s, l) == [status |-> s, lock |-> l]
NoResult == Outcome("none", NoLock)

Init ==
  /\ registered \in SUBSET Roots
  /\ damaged = FALSE
  /\ held = {}
  /\ budget = Budget
  /\ queue = {} /\ wake = FALSE
  /\ targets = {} /\ dirty = {} /\ due = {} /\ probeDue = {} /\ same = {}
  /\ blocked = [d \in Roots |-> NoLock]
  /\ scope = {} /\ thread = "none" /\ result = NoResult
  /\ found = {} /\ controls = FALSE /\ control = "none"
  /\ pc = "refresh" /\ back = "drain"
  /\ stop = FALSE
  /\ fresh = registered /\ owed = registered
  /\ published = "nothing"
  /\ reported = {} /\ repeated = {} /\ missed = FALSE

-----------------------------------------------------------------------------
(* Users, other processes and the operating system.                        *)

Spend == budget > 0 /\ budget' = budget - 1

\* The source delivers what happens to the directories it is subscribed to:
\* between the first subscription and the end, targets and control paths.
Subscribed == controls /\ pc # "ended"

\* A directory can also be observed without being a target: the path of an
\* Exchange that a failed refresh could not confirm.
Change(d) ==
  /\ Spend
  /\ d \in registered
  /\ \/ Subscribed /\ queue' = queue \cup {d}
     \/ d \notin targets /\ UNCHANGED queue
  /\ fresh' = fresh \cup {d}
  /\ owed' = owed \cup {d}
  /\ reported' = reported \ {d}
  /\ repeated' = repeated \ {d}
  /\ UNCHANGED <<envVars, wake, rootVars, threadVars, controlVars, pc, back,
                 stop, published, missed>>

\* Registry and configurations are watched like the Exchanges.
Notify ==
  /\ queue' = IF Subscribed THEN queue \cup {"refresh"} ELSE queue
  /\ missed' = (missed \/ pc = "subscribe")

Overflow ==
  /\ "overflow" \in Others
  /\ Spend
  /\ queue # {}
  /\ queue' = {"refresh"}
  /\ UNCHANGED <<envVars, wake, rootVars, threadVars, controlVars, pc, back,
                 stop, history>>

\* Registration, unregistration and configuration, by other processes.
Reconfigure ==
  /\ "reconfigure" \in Others
  /\ Spend
  /\ \E r \in SUBSET Roots \ {registered} :
       /\ registered' = r
       /\ fresh' = (fresh \cap r) \cup (r \ registered)
       /\ owed' = (owed \cap r) \cup (r \ registered)
       /\ reported' = reported \cap registered \cap r
       /\ repeated' = repeated \cap registered \cap r
  /\ Notify
  /\ UNCHANGED <<damaged, held, wake, rootVars, threadVars, controlVars, pc,
                 back, stop, published>>

Damage ==
  /\ "damage" \in Others
  /\ Spend
  /\ ~damaged
  /\ damaged' = TRUE
  /\ Notify
  /\ UNCHANGED <<registered, held, wake, rootVars, threadVars, controlVars, pc,
                 back, stop, fresh, owed, told>>

Repair ==
  /\ damaged
  /\ damaged' = FALSE
  /\ Notify
  /\ UNCHANGED <<registered, held, budget, wake, rootVars, threadVars,
                 controlVars, pc, back, stop, fresh, owed, told>>

Hold(l) ==
  /\ Spend
  /\ l \notin held
  /\ held' = held \cup {l}
  /\ UNCHANGED <<registered, damaged, sourceVars, rootVars, threadVars,
                 controlVars, pc, back, stop, history>>

Free(l) ==
  /\ l \in held
  /\ held' = held \ {l}
  /\ UNCHANGED <<registered, damaged, budget, sourceVars, rootVars, threadVars,
                 controlVars, pc, back, stop, history>>

\* (defect) the flag alone does not interrupt a blocking read
WokenNever == wake

\* request_stop: the flag first, then a byte into the wake pipe.  Before the
\* first source is open there is none to wake, and the loop reads the flag.
Woken == wake \/ Subscribed

Stop ==
  /\ "stop" \in Others
  /\ ~stop
  /\ stop' = TRUE
  /\ wake' = Woken
  /\ UNCHANGED <<envVars, budget, queue, rootVars, threadVars, controlVars, pc,
                 back, history>>

\* The monotonic clock passes a deadline.
Quiet(d) ==
  /\ d \in targets \ due
  /\ due' = due \cup {d}
  /\ UNCHANGED <<envVars, budget, sourceVars, targets, dirty, blocked, probeDue,
                 same, threadVars, controlVars, pc, back, stop, history>>

Backoff(d) ==
  /\ d \in targets \ probeDue
  /\ blocked[d] # NoLock
  /\ probeDue' = probeDue \cup {d}
  /\ UNCHANGED <<envVars, budget, sourceVars, targets, dirty, due, blocked, same,
                 threadVars, controlVars, pc, back, stop, history>>

ControlBackoff ==
  /\ control = "waiting"
  /\ control' = "due"
  /\ UNCHANGED <<envVars, budget, sourceVars, rootVars, threadVars, found,
                 controls, pc, back, stop, history>>

-----------------------------------------------------------------------------
(* The worker process and the helper thread that waits for it.             *)

End(outcome) ==
  /\ thread = "applying"
  /\ thread' = "put"
  /\ result' = outcome
  /\ UNCHANGED <<envVars, sourceVars, rootVars, scope, controlVars, pc, back,
                 stop, marks>>

\* Core revalidates the scope; a stale or damaged one is refused.
ScopeValid == scope \subseteq registered /\ ~damaged

\* What changed after the worker began it may not have seen.
NoCandidate ==
  /\ ScopeValid
  /\ End(Outcome("no_candidate", NoLock))
  /\ owed' = owed \ (scope \ fresh)
  /\ UNCHANGED <<budget, fresh>>

\* One package is consumed, whether its run succeeds or not.
Attempted ==
  /\ ScopeValid
  /\ Spend
  /\ End(Outcome("attempted", NoLock))
  /\ \E dealt \in SUBSET (scope \ fresh) : owed' = owed \ dealt
  /\ UNCHANGED fresh

Locked ==
  /\ \E l \in held : End(Outcome("locked", l))
  /\ fresh' = fresh \cup (scope \cap owed)
  /\ UNCHANGED <<budget, owed>>

Failed ==
  /\ ~ScopeValid \/ "error" \in Others
  /\ End(Outcome("error", NoLock))
  /\ UNCHANGED <<budget, fresh, owed>>

\* The process could not be started: the exception is the result.
NotStarted ==
  /\ "error" \in Others
  /\ End(Outcome("raised", NoLock))
  /\ fresh' = fresh \cup (scope \cap owed)
  /\ UNCHANGED <<budget, owed>>

\* invoke() wakes whatever source the main thread has open at that moment.
ReadSource ==
  /\ thread = "put"
  /\ thread' = "waking"
  /\ UNCHANGED <<envVars, budget, sourceVars, rootVars, scope, result,
                 controlVars, pc, back, stop, history>>

Ring ==
  /\ thread \in {"waking", "stale"}
  /\ thread' = "done"
  /\ wake' = (wake \/ thread = "waking")
  /\ UNCHANGED <<envVars, budget, queue, rootVars, scope, result, controlVars,
                 pc, back, stop, history>>

-----------------------------------------------------------------------------
(* The main thread.                                                        *)

Goto(l) == pc' = l /\ UNCHANGED back
Call(ret) == pc' = "refresh" /\ back' = ret

\* Observation.refresh: control paths, then targets, both under the registry
\* lock.  A busy registry or a broken configuration leaves no targets, and with
\* no control path ever read the failure ends the watcher.
ReadTargets ==
  /\ pc = "refresh"
  /\ "registry" \notin held
  /\ found' = IF damaged THEN {} ELSE registered
  /\ controls' = TRUE
  /\ control' = "none"
  /\ missed' = FALSE
  /\ Goto("subscribe")
  /\ UNCHANGED <<envVars, budget, sourceVars, rootVars, threadVars, stop, fresh,
                 owed, told>>

RegistryBusy ==
  /\ pc = "refresh"
  /\ "registry" \in held
  /\ found' = {}
  /\ \E known \in {controls, TRUE} :
       /\ controls' = known
       /\ IF known THEN control' = "waiting" /\ Goto("subscribe")
                   ELSE UNCHANGED control /\ Goto("ended")
  /\ UNCHANGED <<envVars, budget, sourceVars, rootVars, threadVars, stop, history>>

\* The new source opens, the old one is closed with what was not read, and
\* Schedule.replace gives every target a full quiet period.
Subscribe ==
  /\ pc = "subscribe"
  /\ queue' = {}
  /\ wake' = FALSE
  /\ thread' = IF thread = "waking" THEN "stale" ELSE thread
  /\ targets' = found
  /\ dirty' = found
  /\ due' = {}
  /\ blocked' = [d \in Roots |-> NoLock]
  /\ probeDue' = {}
  /\ same' = {}
  /\ Goto(back)
  /\ UNCHANGED <<envVars, budget, scope, result, controlVars, stop, history>>

\* A native failure is an error of the watcher, never silent idling.
BackendFails ==
  /\ "backend" \in Others
  /\ pc \in {"subscribe", "drain", "read"}
  /\ Goto("ended")
  /\ UNCHANGED <<envVars, budget, sourceVars, rootVars, threadVars, controlVars,
                 stop, history>>

\* Schedule.changed ignores a directory that is no target.
Changed(events) == events \cap targets

\* accept(): one event that asks for it refreshes everything; otherwise every
\* change restarts the quiet period of its root and is a new generation.
Accept(events, ret) ==
  /\ queue' = queue \ events
  /\ IF "refresh" \in events
     THEN Call(ret) /\ UNCHANGED rootVars
     ELSE /\ dirty' = dirty \cup Changed(events)
          /\ due' = due \ events
          /\ same' = same \ events
          /\ Goto(ret)
          /\ UNCHANGED <<targets, blocked, probeDue>>

\* The drain before any scope is granted: a wake byte ends it as well, and so
\* does a stop, with or without events read.
DrainEvents ==
  /\ pc = "drain"
  /\ ~wake /\ ~stop
  /\ \E events \in SUBSET queue \ {{}} : Accept(events, "drain")
  /\ UNCHANGED <<envVars, budget, wake, threadVars, controlVars, stop, history>>

Drained ==
  /\ pc = "drain"
  /\ wake \/ stop \/ queue = {}
  /\ wake' = FALSE
  /\ Goto(IF stop THEN "ended" ELSE "collect")
  /\ UNCHANGED <<envVars, budget, queue, rootVars, threadVars, controlVars, stop,
                 history>>

\* (defect) a completion clears the work of newer generations as well
FinishedAnyGeneration ==
  LET S == scope \cap targets IN
  CASE result.status \in {"locked", "attempted"} -> dirty \cup S
    [] OTHER -> dirty \ S

\* (defect) an attempt ends the work like a discovery without candidates
FinishedOnce ==
  LET S == scope \cap targets IN
  IF result.status = "locked" THEN dirty \cup S ELSE dirty \ (S \cap same)

\* (defect) only an error ends the work
FinishedNever ==
  LET S == scope \cap targets IN
  IF result.status = "error" THEN dirty \ (S \cap same) ELSE dirty \cup S

\* Schedule.finish.
Finished ==
  LET S == scope \cap targets IN
  CASE result.status \in {"locked", "attempted"} -> dirty \cup S
    [] OTHER -> dirty \ (S \cap same)

\* What the completion says: a run that succeeded or found nothing something
\* else than any error, a run that failed or was blocked an error.
Says(status) ==
  CASE status = "no_candidate" -> {"other"}
    [] status = "attempted"    -> Errors \cup {"other"}
    [] OTHER                   -> Errors

\* publish_completion: what was said last is not said again, whatever Exchange
\* it is about; work that an error drops is then dropped without a word.
Publish(says) ==
  /\ published' = says
  /\ IF result.status # "error" THEN UNCHANGED <<reported, repeated>>
     ELSE IF says # published THEN reported' = reported \cup scope /\ UNCHANGED repeated
     ELSE repeated' = repeated \cup scope /\ UNCHANGED reported

\* completed.get_nowait(), worker.join(), publish_completion and finish: the
\* helper thread has put its result and returns from its wake-up before the
\* result is used.
Collect ==
  /\ pc = "collect"
  /\ thread = "done"
  /\ result.status # "raised"
  /\ thread' = "none"
  /\ result' = NoResult
  /\ dirty' = Finished
  /\ IF result.status = "locked"
     THEN /\ blocked' = [d \in Roots |-> IF d \in scope \cap targets
                                         THEN result.lock ELSE blocked[d]]
          /\ probeDue' = probeDue \ scope
     ELSE UNCHANGED <<blocked, probeDue>>
  /\ \E says \in Says(result.status) : Publish(says)
  /\ Goto("control")
  /\ UNCHANGED <<envVars, budget, sourceVars, targets, due, same, scope,
                 controlVars, stop, fresh, owed, missed>>

CollectRaised ==
  /\ pc = "collect"
  /\ thread = "done"
  /\ result.status = "raised"
  /\ thread' = "none"
  /\ Goto("ended")
  /\ UNCHANGED <<envVars, budget, sourceVars, rootVars, scope, result,
                 controlVars, stop, history>>

\* The result queue was still empty, or there is no worker at all.
NothingCompleted ==
  /\ pc = "collect"
  /\ thread \in {"none", "applying"}
  /\ Goto(IF thread = "none" THEN "control" ELSE "check")
  /\ UNCHANGED <<envVars, budget, sourceVars, rootVars, threadVars, controlVars,
                 stop, history>>

\* The probe of the registry lock after a refresh that found it busy.
ControlReady ==
  /\ pc = "control"
  /\ IF control # "due" THEN Goto("probe") /\ UNCHANGED control
     ELSE IF "registry" \in held THEN Goto("probe") /\ control' = "waiting"
     ELSE Call("probe") /\ UNCHANGED control
  /\ UNCHANGED <<envVars, budget, sourceVars, rootVars, threadVars, found,
                 controls, stop, history>>

\* An error of that probe is caught by nobody.
ControlFails ==
  /\ "probe_error" \in Others
  /\ pc = "control"
  /\ control = "due"
  /\ Goto("ended")
  /\ UNCHANGED <<envVars, budget, sourceVars, rootVars, threadVars, controlVars,
                 stop, history>>

\* apply_readiness: the lock itself, or the registry lock on the way to it.
BlockedOn(l) ==
  IF l # "state" /\ "registry" \in held THEN "registry"
  ELSE IF l \in held THEN l ELSE NoLock

Waiting(l) == {d \in targets : blocked[d] = l}
DueLocks == {blocked[d] : d \in probeDue} \ {NoLock}

Probe(l) ==
  /\ pc = "probe"
  /\ l \in DueLocks
  /\ blocked' = [d \in Roots |-> IF d \in Waiting(l) THEN BlockedOn(l)
                                                     ELSE blocked[d]]
  /\ probeDue' = probeDue \ Waiting(l)
  /\ UNCHANGED <<envVars, budget, sourceVars, targets, dirty, due, same,
                 threadVars, controlVars, pc, back, stop, history>>

\* Schedule.probe_failed: the probe raised, and the work is given up.
ProbeFails(l) ==
  /\ "probe_error" \in Others
  /\ pc = "probe"
  /\ l \in DueLocks
  /\ blocked' = [d \in Roots |-> IF d \in Waiting(l) THEN NoLock ELSE blocked[d]]
  /\ probeDue' = probeDue \ Waiting(l)
  /\ dirty' = dirty \ Waiting(l)
  /\ reported' = reported \cup Waiting(l)
  /\ UNCHANGED <<envVars, budget, sourceVars, targets, due, same, threadVars,
                 controlVars, pc, back, stop, fresh, owed, published, repeated,
                 missed>>

Ready == {d \in dirty \cap due : blocked[d] = NoLock}

Launch ==
  /\ pc = "probe"
  /\ DueLocks = {}
  /\ Ready # {}
  /\ ~stop
  /\ scope' = Ready
  /\ dirty' = dirty \ Ready
  /\ same' = Ready
  /\ thread' = "applying"
  /\ fresh' = fresh \ Ready
  /\ Goto("check")
  /\ UNCHANGED <<envVars, budget, sourceVars, targets, due, blocked, probeDue,
                 result, controlVars, stop, owed, marks>>

NothingReady ==
  /\ pc = "probe"
  /\ DueLocks = {}
  /\ Ready = {} \/ stop
  /\ Goto("check")
  /\ UNCHANGED <<envVars, budget, sourceVars, rootVars, threadVars, controlVars,
                 stop, history>>

Check ==
  /\ pc = "check"
  /\ Goto(IF stop THEN "ended" ELSE "read")
  /\ UNCHANGED <<envVars, budget, sourceVars, rootVars, threadVars, controlVars,
                 stop, history>>

\* source.read(timeout) blocks until a wake byte, events or the next deadline;
\* while a worker runs there is no deadline.
Expired ==
  /\ thread = "none"
  /\ \/ control = "due"
     \/ \E d \in dirty : IF blocked[d] = NoLock THEN d \in due ELSE d \in probeDue

Return ==
  /\ pc = "read"
  /\ wake \/ (Expired /\ queue = {})
  /\ wake' = FALSE
  /\ Goto(IF stop THEN "ended" ELSE "drain")
  /\ UNCHANGED <<envVars, budget, queue, rootVars, threadVars, controlVars, stop,
                 history>>

ReadEvents ==
  /\ pc = "read"
  /\ ~wake
  /\ \E events \in SUBSET queue \ {{}} : Accept(events, "drain")
  /\ UNCHANGED <<envVars, budget, wake, threadVars, controlVars, stop, history>>

-----------------------------------------------------------------------------
Environment ==
  \/ \E d \in Roots : Change(d) \/ Quiet(d) \/ Backoff(d)
  \/ \E l \in Locks : Hold(l) \/ Free(l)
  \/ Overflow \/ Reconfigure \/ Damage \/ Repair \/ Stop \/ ControlBackoff

Worker == NoCandidate \/ Attempted \/ Locked \/ Failed \/ NotStarted
Helper == ReadSource \/ Ring

Main ==
  \/ ReadTargets \/ RegistryBusy \/ Subscribe
  \/ DrainEvents \/ Drained \/ Collect \/ CollectRaised \/ NothingCompleted
  \/ ControlReady \/ ControlFails \/ Launch \/ NothingReady \/ Check \/ Return \/ ReadEvents
  \/ \E l \in Locks : Probe(l) \/ ProbeFails(l)

Next == Environment \/ Worker \/ Helper \/ Main \/ BackendFails

Spec == Init /\ [][Next]_vars

\* The scheduler runs both threads, an Apply ends (its entrypoint has a
\* timeout), deadlines pass, locks are given back and damage is repaired.
Fairness ==
  /\ WF_vars(Main) /\ WF_vars(Helper) /\ WF_vars(Worker)
  /\ \A d \in Roots : WF_vars(Quiet(d)) /\ WF_vars(Backoff(d))
  /\ \A l \in Locks : WF_vars(Free(l))
  /\ WF_vars(ControlBackoff) /\ WF_vars(Repair)
FairSpec == Spec /\ Fairness

-----------------------------------------------------------------------------
TypeOK ==
  /\ registered \subseteq Roots /\ damaged \in BOOLEAN /\ held \subseteq Locks
  /\ budget \in 0 .. Budget
  /\ queue \subseteq Event /\ wake \in BOOLEAN
  /\ targets \subseteq Roots
  /\ dirty \subseteq targets /\ due \subseteq targets /\ probeDue \subseteq targets
  /\ same \subseteq scope /\ scope \subseteq Roots
  /\ blocked \in [Roots -> Locks \cup {NoLock}]
  /\ thread \in {"none", "applying", "put", "waking", "stale", "done"}
  /\ result \in [status : {"none", "no_candidate", "attempted", "locked", "error",
                           "raised"},
                 lock : Locks \cup {NoLock}]
  /\ found \subseteq Roots /\ controls \in BOOLEAN
  /\ control \in {"none", "waiting", "due"}
  /\ pc \in {"refresh", "subscribe", "drain", "collect", "control", "probe",
             "check", "read", "ended"}
  /\ back \in {"drain", "probe"}
  /\ stop \in BOOLEAN
  /\ fresh \subseteq owed /\ owed \subseteq registered
  /\ published \in Errors \cup {"nothing", "other"}
  /\ reported \subseteq Roots /\ repeated \subseteq Roots /\ missed \in BOOLEAN

RefreshComes ==
  \/ "refresh" \in queue
  \/ pc \in {"refresh", "subscribe"}
  \/ control # "none"

Remembered(d) ==
  \/ d \in dirty \cup queue
  \/ d \in scope /\ thread # "none"
  \/ RefreshComes

\* Roots whose work an error ended since their last change: with a message, or
\* without one because the same was said just before.
GivenUp == reported \cup repeated

\* Work is never forgotten: as long as the watcher runs, an Exchange with
\* changes that no worker has dealt with and no error has ended is dirty, has
\* an unread event, is in the scope of the running worker, or a refresh that
\* marks it is on its way - over late completions, busy locks, overflows and
\* new targets (Schedule.finish, accept, refresh).  An error that ends the work
\* is told, unless it says what was said last (should_publish).
WorkRemembered ==
  pc # "ended" =>
    \A d \in owed \ GivenUp :
      IF d \in targets THEN Remembered(d) ELSE RefreshComes \/ damaged \/ missed

\* What ends the obligation towards a change of root d.
Excused(d) == d \in GivenUp \/ missed \/ pc = "ended"

\* Every change is eventually dealt with or ended by an error, told or not told
\* a second time, whatever was in the way.
WorkDone == \A d \in Roots : d \in owed ~> d \notin owed \/ Excused(d)

\* A stop ends the watcher, also one that blocks without events or deadline.
StopEnds == stop ~> pc = "ended" /\ thread \in {"none", "done"}

\* The watcher comes to rest: once nothing happens any more it starts no worker,
\* and its own runs do not keep it going.
Settles == <>[](pc = "ended" \/ (pc = "read" /\ thread = "none"))

=============================================================================
