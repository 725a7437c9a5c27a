---------------------------- MODULE WatcherProofs ----------------------------
(***************************************************************************)
(* The watcher forgets no work, for any number of Exchanges and locks and   *)
(* any number of changes.  Work is handed from the unread events to the     *)
(* dirty set, to the scope of a worker and back; a refresh takes it away    *)
(* from all three at once and rebuilds it from the registry.  The invariant *)
(* says for each of these places what it may be trusted for.                *)
(***************************************************************************)
EXTENDS Watcher, TLAPS

\* A refresh that is about to be subscribed to has read what is registered.
FoundIsCurrent ==
  pc = "subscribe" =>
    \/ found = (IF damaged THEN {} ELSE registered)
    \/ missed \/ control # "none"

\* What is registered is subscribed to, or a refresh comes.
TargetsAreCurrent ==
  pc # "ended" => registered \subseteq targets \/ RefreshComes \/ damaged \/ missed

\* Notifications arrive as soon as control paths have been read.
SourceIsOpen == controls \/ pc \in {"refresh", "ended"}

\* The worker is gone where a new one may be launched.
OneWorker ==
  /\ \/ pc \in {"control", "probe"}
     \/ pc \in {"refresh", "subscribe"} /\ back = "probe"
     => thread = "none"
  /\ pc # "ended" /\ thread \in {"none", "applying"} => result = NoResult
  /\ thread \notin {"none", "applying"} => result.status # "none"

\* A change the running worker may not have seen is an unread event or has
\* begun a new generation, unless the worker is about to say it saw nothing.
ChangeIsSeen ==
  pc # "ended" /\ thread # "none" /\ result.status \notin {"locked", "raised"} =>
    \A d \in (scope \cap fresh \cap targets) \ GivenUp :
      d \in queue \/ d \in dirty \ same \/ RefreshComes

\* `no_candidate' leaves only changes of that kind.
AnswerIsTrue ==
  thread # "none" /\ result.status = "no_candidate" => scope \cap owed \subseteq fresh

Handover ==
  /\ FoundIsCurrent /\ TargetsAreCurrent /\ SourceIsOpen /\ OneWorker /\ AnswerIsTrue

IInv == TypeOK /\ Handover /\ ChangeIsSeen /\ WorkRemembered

\* What these conjuncts speak of: everything but clocks, locks and signals.
work == <<registered, damaged, queue, targets, dirty, same, threadVars, controlVars,
          pc, back, history>>
Results == [status : {"none", "no_candidate", "attempted", "locked", "error", "raised"},
            lock : Locks \cup {NoLock}]

\* The first refresh is still to come.
LEMMA WatchStarts == Init => IInv
<1> SUFFICES ASSUME Init PROVE IInv
  OBVIOUS
<1>1. TypeOK
  <2>1. NoResult \in Results
    BY DEF NoResult, Outcome, Results
  <2>2. blocked \in [Roots -> Locks \cup {NoLock}] /\ budget \in 0 .. Budget
    BY ConstantsAssumption DEF Init
  <2> QED BY <2>1, <2>2 DEF Init, TypeOK, Results
<1>2. RefreshComes
  BY DEF Init, RefreshComes
<1>3. Handover /\ ChangeIsSeen
  BY <1>2 DEF Init, Handover, FoundIsCurrent, TargetsAreCurrent, SourceIsOpen,
     OneWorker, ChangeIsSeen, AnswerIsTrue
<1>4. WorkRemembered
  BY <1>2 DEF WorkRemembered, Remembered
<1> QED BY <1>1, <1>3, <1>4 DEF IInv

\* Clocks, locks and signals hand no work over.
LEMMA Untouched == IInv /\ TypeOK' /\ UNCHANGED work => IInv'
  BY DEF IInv, work, threadVars, controlVars, history, marks, told, GivenUp, Handover,
     FoundIsCurrent, TargetsAreCurrent, SourceIsOpen, OneWorker, AnswerIsTrue,
     RefreshComes, NoResult, Outcome, ChangeIsSeen, WorkRemembered, Remembered

\* Users, other processes and clocks keep it.
LEMMA EnvironmentKeeps == IInv /\ Environment => IInv'
<1> SUFFICES ASSUME IInv, Environment PROVE IInv'
  OBVIOUS
<1> USE ConstantsAssumption DEF IInv, envVars, sourceVars, rootVars, threadVars, controlVars,
        told, marks, history, GivenUp
<1>1. ASSUME NEW d \in Roots, Change(d) PROVE IInv'
  <2>1. TypeOK'
    BY <1>1 DEF Change, Spend, Subscribed, Event, TypeOK
  <2>2. Handover'
    BY <1>1 DEF Change, Spend, Subscribed, Event, TypeOK, Handover,
       FoundIsCurrent, TargetsAreCurrent, SourceIsOpen, OneWorker, AnswerIsTrue,
       RefreshComes, NoResult, Outcome
  <2>3. ChangeIsSeen'
    BY <1>1 DEF Change, Spend, Subscribed, Event, TypeOK, ChangeIsSeen,
       Handover, SourceIsOpen, OneWorker, RefreshComes, NoResult, Outcome
  <2>4. WorkRemembered'
    BY <1>1 DEF Change, Spend, Subscribed, Event, TypeOK, WorkRemembered,
       Remembered, ChangeIsSeen, Handover, FoundIsCurrent, TargetsAreCurrent,
       SourceIsOpen, OneWorker, AnswerIsTrue, RefreshComes, NoResult, Outcome
  <2> QED BY <2>1, <2>2, <2>3, <2>4
<1>2. ASSUME NEW d \in Roots, Quiet(d) PROVE IInv'
  <2>1. TypeOK'
    BY <1>2 DEF Quiet, TypeOK
  <2>2. UNCHANGED work
    BY <1>2 DEF Quiet, work
  <2> QED BY <2>1, <2>2, Untouched
<1>3. ASSUME NEW d \in Roots, Backoff(d) PROVE IInv'
  <2>1. TypeOK'
    BY <1>3 DEF Backoff, TypeOK
  <2>2. UNCHANGED work
    BY <1>3 DEF Backoff, work
  <2> QED BY <2>1, <2>2, Untouched
<1>4. ASSUME NEW l \in Locks, Hold(l) PROVE IInv'
  <2>1. TypeOK'
    BY <1>4 DEF Hold, Spend, TypeOK
  <2>2. UNCHANGED work
    BY <1>4 DEF Hold, Spend, work
  <2> QED BY <2>1, <2>2, Untouched
<1>5. ASSUME NEW l \in Locks, Free(l) PROVE IInv'
  <2>1. TypeOK'
    BY <1>5 DEF Free, TypeOK
  <2>2. UNCHANGED work
    BY <1>5 DEF Free, work
  <2> QED BY <2>1, <2>2, Untouched
<1>6. CASE Overflow
  <2>1. TypeOK'
    BY <1>6 DEF Overflow, Spend, Event, TypeOK
  <2>2. Handover'
    BY <1>6 DEF Overflow, Spend, Event, TypeOK, Handover, FoundIsCurrent,
       TargetsAreCurrent, SourceIsOpen, OneWorker, AnswerIsTrue, RefreshComes,
       NoResult, Outcome
  <2>3. ChangeIsSeen'
    BY <1>6 DEF Overflow, Spend, Event, TypeOK, ChangeIsSeen, Handover,
       SourceIsOpen, OneWorker, RefreshComes, NoResult, Outcome
  <2>4. WorkRemembered'
    BY <1>6 DEF Overflow, Spend, Event, TypeOK, WorkRemembered, Remembered,
       ChangeIsSeen, Handover, FoundIsCurrent, TargetsAreCurrent, SourceIsOpen,
       OneWorker, AnswerIsTrue, RefreshComes, NoResult, Outcome
  <2> QED BY <2>1, <2>2, <2>3, <2>4
<1>7. CASE Reconfigure
  <2>1. TypeOK'
    BY <1>7 DEF Reconfigure, Spend, Notify, Subscribed, Event, TypeOK
  <2>2. Handover'
    BY <1>7 DEF Reconfigure, Spend, Notify, Subscribed, Event, TypeOK, Handover,
       FoundIsCurrent, TargetsAreCurrent, SourceIsOpen, OneWorker, AnswerIsTrue,
       RefreshComes, NoResult, Outcome
  <2>3. ChangeIsSeen'
    BY <1>7 DEF Reconfigure, Spend, Notify, Subscribed, Event, TypeOK,
       ChangeIsSeen, Handover, SourceIsOpen, OneWorker, RefreshComes, NoResult,
       Outcome
  <2>4. WorkRemembered'
    BY <1>7 DEF Reconfigure, Spend, Notify, Subscribed, Event, TypeOK,
       WorkRemembered, Remembered, ChangeIsSeen, Handover, FoundIsCurrent,
       TargetsAreCurrent, SourceIsOpen, OneWorker, AnswerIsTrue, RefreshComes,
       NoResult, Outcome
  <2> QED BY <2>1, <2>2, <2>3, <2>4
<1>8. CASE Damage
  <2>1. TypeOK'
    BY <1>8 DEF Damage, Spend, Notify, Subscribed, Event, TypeOK
  <2>2. Handover'
    BY <1>8 DEF Damage, Spend, Notify, Subscribed, Event, TypeOK, Handover,
       FoundIsCurrent, TargetsAreCurrent, SourceIsOpen, OneWorker, AnswerIsTrue,
       RefreshComes, NoResult, Outcome
  <2>3. ChangeIsSeen'
    BY <1>8 DEF Damage, Spend, Notify, Subscribed, Event, TypeOK, ChangeIsSeen,
       Handover, SourceIsOpen, OneWorker, RefreshComes, NoResult, Outcome
  <2>4. WorkRemembered'
    BY <1>8 DEF Damage, Spend, Notify, Subscribed, Event, TypeOK,
       WorkRemembered, Remembered, ChangeIsSeen, Handover, FoundIsCurrent,
       TargetsAreCurrent, SourceIsOpen, OneWorker, AnswerIsTrue, RefreshComes,
       NoResult, Outcome
  <2> QED BY <2>1, <2>2, <2>3, <2>4
<1>9. CASE Repair
  <2>1. TypeOK'
    <3>1. damaged' \in BOOLEAN /\ missed' \in BOOLEAN /\ queue' \subseteq Event
      BY <1>9 DEF Repair, Notify, Subscribed, Event, TypeOK
    <3> QED BY <1>9, <3>1 DEF Repair, Notify, TypeOK
  <2>2. Handover'
    BY <1>9 DEF Repair, Notify, Subscribed, Event, TypeOK, Handover,
       FoundIsCurrent, TargetsAreCurrent, SourceIsOpen, OneWorker, AnswerIsTrue,
       RefreshComes, NoResult, Outcome
  <2>3. ChangeIsSeen'
    BY <1>9 DEF Repair, Notify, Subscribed, Event, TypeOK, ChangeIsSeen,
       Handover, SourceIsOpen, OneWorker, RefreshComes, NoResult, Outcome
  <2>4. WorkRemembered'
    BY <1>9 DEF Repair, Notify, Subscribed, Event, TypeOK, WorkRemembered,
       Remembered, ChangeIsSeen, Handover, FoundIsCurrent, TargetsAreCurrent,
       SourceIsOpen, OneWorker, AnswerIsTrue, RefreshComes, NoResult, Outcome
  <2> QED BY <2>1, <2>2, <2>3, <2>4
<1>10. CASE Stop
  <2>1. TypeOK'
    BY <1>10 DEF Stop, Woken, Subscribed, TypeOK
  <2>2. UNCHANGED work
    BY <1>10 DEF Stop, Woken, Subscribed, work
  <2> QED BY <2>1, <2>2, Untouched
<1>11. CASE ControlBackoff
  <2>1. TypeOK'
    BY <1>11 DEF ControlBackoff, TypeOK
  <2>2. Handover'
    BY <1>11 DEF ControlBackoff, TypeOK, Handover, FoundIsCurrent,
       TargetsAreCurrent, SourceIsOpen, OneWorker, AnswerIsTrue, RefreshComes,
       NoResult, Outcome
  <2>3. ChangeIsSeen'
    BY <1>11 DEF ControlBackoff, TypeOK, ChangeIsSeen, Handover, SourceIsOpen,
       OneWorker, RefreshComes, NoResult, Outcome
  <2>4. WorkRemembered'
    BY <1>11 DEF ControlBackoff, TypeOK, WorkRemembered, Remembered,
       ChangeIsSeen, Handover, FoundIsCurrent, TargetsAreCurrent, SourceIsOpen,
       OneWorker, AnswerIsTrue, RefreshComes, NoResult, Outcome
  <2> QED BY <2>1, <2>2, <2>3, <2>4
<1> QED BY <1>1, <1>2, <1>3, <1>4, <1>5, <1>6, <1>7, <1>8, <1>9, <1>10, <1>11 DEF
   Environment

\* The worker: what it answers of its scope, the changes since then excepted.
LEMMA WorkerKeeps == IInv /\ Worker => IInv'
<1> SUFFICES ASSUME IInv, Worker PROVE IInv'
  OBVIOUS
<1> USE ConstantsAssumption DEF IInv, envVars, sourceVars, rootVars, threadVars, controlVars,
        told, marks, history, GivenUp
<1>1. CASE NoCandidate
  <2>1. TypeOK'
    BY <1>1 DEF NoCandidate, End, Outcome, ScopeValid, TypeOK
  <2>2. Handover'
    BY <1>1 DEF NoCandidate, End, Outcome, ScopeValid, TypeOK, Handover,
       FoundIsCurrent, TargetsAreCurrent, SourceIsOpen, OneWorker, AnswerIsTrue,
       RefreshComes, NoResult, Outcome
  <2>3. ChangeIsSeen'
    BY <1>1 DEF NoCandidate, End, Outcome, ScopeValid, TypeOK, ChangeIsSeen,
       Handover, SourceIsOpen, OneWorker, RefreshComes, NoResult, Outcome
  <2>4. WorkRemembered'
    BY <1>1 DEF NoCandidate, End, Outcome, ScopeValid, TypeOK, WorkRemembered,
       Remembered, ChangeIsSeen, Handover, FoundIsCurrent, TargetsAreCurrent,
       SourceIsOpen, OneWorker, AnswerIsTrue, RefreshComes, NoResult, Outcome
  <2> QED BY <2>1, <2>2, <2>3, <2>4
<1>2. CASE Attempted
  <2>1. TypeOK'
    BY <1>2 DEF Attempted, End, Outcome, ScopeValid, Spend, TypeOK
  <2>2. Handover'
    BY <1>2 DEF Attempted, End, Outcome, ScopeValid, Spend, TypeOK, Handover,
       FoundIsCurrent, TargetsAreCurrent, SourceIsOpen, OneWorker, AnswerIsTrue,
       RefreshComes, NoResult, Outcome
  <2>3. ChangeIsSeen'
    BY <1>2 DEF Attempted, End, Outcome, ScopeValid, Spend, TypeOK,
       ChangeIsSeen, Handover, SourceIsOpen, OneWorker, RefreshComes, NoResult,
       Outcome
  <2>4. WorkRemembered'
    BY <1>2 DEF Attempted, End, Outcome, ScopeValid, Spend, TypeOK,
       WorkRemembered, Remembered, ChangeIsSeen, Handover, FoundIsCurrent,
       TargetsAreCurrent, SourceIsOpen, OneWorker, AnswerIsTrue, RefreshComes,
       NoResult, Outcome
  <2> QED BY <2>1, <2>2, <2>3, <2>4
<1>3. CASE Locked
  <2>1. TypeOK'
    BY <1>3 DEF Locked, End, Outcome, ScopeValid, TypeOK
  <2>2. Handover'
    BY <1>3 DEF Locked, End, Outcome, ScopeValid, TypeOK, Handover,
       FoundIsCurrent, TargetsAreCurrent, SourceIsOpen, OneWorker, AnswerIsTrue,
       RefreshComes, NoResult, Outcome
  <2>3. ChangeIsSeen'
    BY <1>3 DEF Locked, End, Outcome, ScopeValid, TypeOK, ChangeIsSeen,
       Handover, SourceIsOpen, OneWorker, RefreshComes, NoResult, Outcome
  <2>4. WorkRemembered'
    BY <1>3 DEF Locked, End, Outcome, ScopeValid, TypeOK, WorkRemembered,
       Remembered, ChangeIsSeen, Handover, FoundIsCurrent, TargetsAreCurrent,
       SourceIsOpen, OneWorker, AnswerIsTrue, RefreshComes, NoResult, Outcome
  <2> QED BY <2>1, <2>2, <2>3, <2>4
<1>4. CASE Failed
  <2>1. TypeOK'
    BY <1>4 DEF Failed, End, Outcome, ScopeValid, TypeOK
  <2>2. Handover'
    BY <1>4 DEF Failed, End, Outcome, ScopeValid, TypeOK, Handover,
       FoundIsCurrent, TargetsAreCurrent, SourceIsOpen, OneWorker, AnswerIsTrue,
       RefreshComes, NoResult, Outcome
  <2>3. ChangeIsSeen'
    BY <1>4 DEF Failed, End, Outcome, ScopeValid, TypeOK, ChangeIsSeen,
       Handover, SourceIsOpen, OneWorker, RefreshComes, NoResult, Outcome
  <2>4. WorkRemembered'
    BY <1>4 DEF Failed, End, Outcome, ScopeValid, TypeOK, WorkRemembered,
       Remembered, ChangeIsSeen, Handover, FoundIsCurrent, TargetsAreCurrent,
       SourceIsOpen, OneWorker, AnswerIsTrue, RefreshComes, NoResult, Outcome
  <2> QED BY <2>1, <2>2, <2>3, <2>4
<1>5. CASE NotStarted
  <2>1. TypeOK'
    BY <1>5 DEF NotStarted, End, Outcome, ScopeValid, TypeOK
  <2>2. Handover'
    BY <1>5 DEF NotStarted, End, Outcome, ScopeValid, TypeOK, Handover,
       FoundIsCurrent, TargetsAreCurrent, SourceIsOpen, OneWorker, AnswerIsTrue,
       RefreshComes, NoResult, Outcome
  <2>3. ChangeIsSeen'
    BY <1>5 DEF NotStarted, End, Outcome, ScopeValid, TypeOK, ChangeIsSeen,
       Handover, SourceIsOpen, OneWorker, RefreshComes, NoResult, Outcome
  <2>4. WorkRemembered'
    BY <1>5 DEF NotStarted, End, Outcome, ScopeValid, TypeOK, WorkRemembered,
       Remembered, ChangeIsSeen, Handover, FoundIsCurrent, TargetsAreCurrent,
       SourceIsOpen, OneWorker, AnswerIsTrue, RefreshComes, NoResult, Outcome
  <2> QED BY <2>1, <2>2, <2>3, <2>4
<1> QED BY <1>1, <1>2, <1>3, <1>4, <1>5 DEF Worker

\* The helper thread.
LEMMA HelperKeeps == IInv /\ Helper => IInv'
<1> SUFFICES ASSUME IInv, Helper PROVE IInv'
  OBVIOUS
<1> USE ConstantsAssumption DEF IInv, envVars, sourceVars, rootVars, threadVars, controlVars,
        told, marks, history, GivenUp
<1>1. CASE ReadSource
  <2>1. TypeOK'
    BY <1>1 DEF ReadSource, TypeOK
  <2>2. Handover'
    BY <1>1 DEF ReadSource, TypeOK, Handover, FoundIsCurrent, TargetsAreCurrent,
       SourceIsOpen, OneWorker, AnswerIsTrue, RefreshComes, NoResult, Outcome
  <2>3. ChangeIsSeen'
    BY <1>1 DEF ReadSource, TypeOK, ChangeIsSeen, Handover, SourceIsOpen,
       OneWorker, RefreshComes, NoResult, Outcome
  <2>4. WorkRemembered'
    BY <1>1 DEF ReadSource, TypeOK, WorkRemembered, Remembered, ChangeIsSeen,
       Handover, FoundIsCurrent, TargetsAreCurrent, SourceIsOpen, OneWorker,
       AnswerIsTrue, RefreshComes, NoResult, Outcome
  <2> QED BY <2>1, <2>2, <2>3, <2>4
<1>2. CASE Ring
  <2>1. TypeOK'
    BY <1>2 DEF Ring, TypeOK
  <2>2. Handover'
    BY <1>2 DEF Ring, TypeOK, Handover, FoundIsCurrent, TargetsAreCurrent,
       SourceIsOpen, OneWorker, AnswerIsTrue, RefreshComes, NoResult, Outcome
  <2>3. ChangeIsSeen'
    BY <1>2 DEF Ring, TypeOK, ChangeIsSeen, Handover, SourceIsOpen, OneWorker,
       RefreshComes, NoResult, Outcome
  <2>4. WorkRemembered'
    BY <1>2 DEF Ring, TypeOK, WorkRemembered, Remembered, ChangeIsSeen,
       Handover, FoundIsCurrent, TargetsAreCurrent, SourceIsOpen, OneWorker,
       AnswerIsTrue, RefreshComes, NoResult, Outcome
  <2> QED BY <2>1, <2>2, <2>3, <2>4
<1> QED BY <1>1, <1>2 DEF Helper

\* The main thread: it moves work from one place to the next.
LEMMA MainKeeps == IInv /\ Main => IInv'
<1> SUFFICES ASSUME IInv, Main PROVE IInv'
  OBVIOUS
<1> USE ConstantsAssumption DEF IInv, envVars, sourceVars, rootVars, threadVars, controlVars,
        told, marks, history, GivenUp
<1>1. CASE ReadTargets
  <2>1. TypeOK'
    BY ZenonT(40), <1>1 DEF ReadTargets, Goto, TypeOK
  <2>2. Handover'
    BY <1>1 DEF ReadTargets, Goto, TypeOK, Handover, FoundIsCurrent,
       TargetsAreCurrent, SourceIsOpen, OneWorker, AnswerIsTrue, RefreshComes,
       NoResult, Outcome
  <2>3. ChangeIsSeen'
    BY <1>1 DEF ReadTargets, Goto, TypeOK, ChangeIsSeen, Handover, SourceIsOpen,
       OneWorker, RefreshComes, NoResult, Outcome
  <2>4. WorkRemembered'
    BY <1>1 DEF ReadTargets, Goto, TypeOK, WorkRemembered, Remembered,
       ChangeIsSeen, Handover, FoundIsCurrent, TargetsAreCurrent, SourceIsOpen,
       OneWorker, AnswerIsTrue, RefreshComes, NoResult, Outcome
  <2> QED BY <2>1, <2>2, <2>3, <2>4
<1>2. CASE RegistryBusy
  <2>1. TypeOK'
    <3>1. controls' \in BOOLEAN /\ control' \in {"none", "waiting", "due"}
          /\ pc' \in {"subscribe", "ended"}
      BY <1>2 DEF RegistryBusy, Goto, TypeOK
    <3> QED BY <1>2, <3>1 DEF RegistryBusy, Goto, TypeOK
  <2>2. Handover'
    BY <1>2 DEF RegistryBusy, Goto, TypeOK, Handover, FoundIsCurrent,
       TargetsAreCurrent, SourceIsOpen, OneWorker, AnswerIsTrue, RefreshComes,
       NoResult, Outcome
  <2>3. ChangeIsSeen'
    BY <1>2 DEF RegistryBusy, Goto, TypeOK, ChangeIsSeen, Handover,
       SourceIsOpen, OneWorker, RefreshComes, NoResult, Outcome
  <2>4. WorkRemembered'
    BY <1>2 DEF RegistryBusy, Goto, TypeOK, WorkRemembered, Remembered,
       ChangeIsSeen, Handover, FoundIsCurrent, TargetsAreCurrent, SourceIsOpen,
       OneWorker, AnswerIsTrue, RefreshComes, NoResult, Outcome
  <2> QED BY <2>1, <2>2, <2>3, <2>4
<1>3. CASE Subscribe
  <2>1. TypeOK'
    BY ZenonT(40), <1>3 DEF Subscribe, Goto, TypeOK
  <2>2. Handover'
    BY <1>3 DEF Subscribe, Goto, TypeOK, Handover, FoundIsCurrent,
       TargetsAreCurrent, SourceIsOpen, OneWorker, AnswerIsTrue, RefreshComes,
       NoResult, Outcome
  <2>3. ChangeIsSeen'
    BY <1>3 DEF Subscribe, Goto, TypeOK, ChangeIsSeen, Handover, SourceIsOpen,
       OneWorker, RefreshComes, NoResult, Outcome
  <2>4. WorkRemembered'
    BY <1>3 DEF Subscribe, Goto, TypeOK, WorkRemembered, Remembered,
       ChangeIsSeen, Handover, FoundIsCurrent, TargetsAreCurrent, SourceIsOpen,
       OneWorker, AnswerIsTrue, RefreshComes, NoResult, Outcome
  <2> QED BY <2>1, <2>2, <2>3, <2>4
<1>4. CASE DrainEvents
  <2>1. TypeOK'
    BY <1>4 DEF DrainEvents, Accept, Changed, Goto, Call, Event, TypeOK
  <2>2. Handover'
    BY <1>4 DEF DrainEvents, Accept, Changed, Goto, Call, Event, TypeOK,
       Handover, FoundIsCurrent, TargetsAreCurrent, SourceIsOpen, OneWorker,
       AnswerIsTrue, RefreshComes, NoResult, Outcome
  <2>3. ChangeIsSeen'
    BY <1>4 DEF DrainEvents, Accept, Changed, Goto, Call, Event, TypeOK,
       ChangeIsSeen, Handover, SourceIsOpen, OneWorker, RefreshComes, NoResult,
       Outcome
  <2>4. WorkRemembered'
    BY <1>4 DEF DrainEvents, Accept, Changed, Goto, Call, Event, TypeOK,
       WorkRemembered, Remembered, ChangeIsSeen, Handover, FoundIsCurrent,
       TargetsAreCurrent, SourceIsOpen, OneWorker, AnswerIsTrue, RefreshComes,
       NoResult, Outcome
  <2> QED BY <2>1, <2>2, <2>3, <2>4
<1>5. CASE Drained
  <2>1. TypeOK'
    <3>1. wake' \in BOOLEAN /\ pc' \in {"ended", "collect"}
      BY <1>5 DEF Drained, Goto
    <3> QED BY <1>5, <3>1 DEF Drained, Goto, TypeOK
  <2>2. Handover'
    BY <1>5 DEF Drained, Goto, TypeOK, Handover, FoundIsCurrent,
       TargetsAreCurrent, SourceIsOpen, OneWorker, AnswerIsTrue, RefreshComes,
       NoResult, Outcome
  <2>3. ChangeIsSeen'
    BY <1>5 DEF Drained, Goto, TypeOK, ChangeIsSeen, Handover, SourceIsOpen,
       OneWorker, RefreshComes, NoResult, Outcome
  <2>4. WorkRemembered'
    BY <1>5 DEF Drained, Goto, TypeOK, WorkRemembered, Remembered, ChangeIsSeen,
       Handover, FoundIsCurrent, TargetsAreCurrent, SourceIsOpen, OneWorker,
       AnswerIsTrue, RefreshComes, NoResult, Outcome
  <2> QED BY <2>1, <2>2, <2>3, <2>4
<1>6. CASE Collect
  <2>0. /\ published' \in Errors \cup {"nothing", "other"}
        /\ reported' \subseteq Roots /\ repeated' \subseteq Roots
        /\ GivenUp' = IF result.status = "error" THEN GivenUp \cup scope ELSE GivenUp
    BY <1>6 DEF Collect, Says, Publish, TypeOK
  <2>1. TypeOK'
    <3>1. dirty' \subseteq targets /\ probeDue' \subseteq targets
      BY <1>6 DEF Collect, Finished, TypeOK
    <3>2. blocked' \in [Roots -> Locks \cup {NoLock}]
      BY <1>6 DEF Collect, TypeOK
    <3>3. result' \in Results
      BY <1>6 DEF Collect, NoResult, Outcome, Results
    <3> QED BY <1>6, <2>0, <3>1, <3>2, <3>3 DEF Collect, Goto, TypeOK, Results
  <2>2. Handover'
    BY <1>6 DEF Collect, Finished, Goto, TypeOK, Handover, FoundIsCurrent,
       TargetsAreCurrent, SourceIsOpen, OneWorker, AnswerIsTrue, RefreshComes,
       NoResult, Outcome
  <2>3. ChangeIsSeen'
    BY <1>6, <2>0 DEF Collect, Finished, Goto, TypeOK, ChangeIsSeen, Handover,
       SourceIsOpen, OneWorker, RefreshComes, NoResult, Outcome
  <2>4. WorkRemembered'
    <3> SUFFICES ASSUME NEW d \in owed \ GivenUp', d \in targets, ~RefreshComes
                 PROVE  d \in dirty' \cup queue
      BY <1>6 DEF Collect, Goto, TypeOK, WorkRemembered, Remembered,
         RefreshComes, Handover, TargetsAreCurrent
    <3>1. d \in owed \ GivenUp /\ (d \in dirty \cup queue \/ d \in scope)
      BY <1>6, <2>0 DEF Collect, WorkRemembered, Remembered
    <3>2. CASE result.status \in {"locked", "attempted"}
      BY <1>6, <3>1, <3>2 DEF Collect, Finished
    <3>3. CASE result.status = "error"
      BY <1>6, <2>0, <3>1, <3>3 DEF Collect, Finished
    <3>4. CASE result.status = "no_candidate"
      BY <1>6, <3>1, <3>4 DEF Collect, Finished, ChangeIsSeen, Handover, AnswerIsTrue
    <3>5. result.status # "none"
      BY <1>6 DEF Collect, Handover, OneWorker
    <3> QED BY <1>6, <3>2, <3>3, <3>4, <3>5 DEF Collect, TypeOK
  <2> QED BY <2>1, <2>2, <2>3, <2>4
<1>7. CASE CollectRaised
  <2>1. TypeOK'
    BY <1>7 DEF CollectRaised, Goto, TypeOK
  <2>2. Handover'
    BY <1>7 DEF CollectRaised, Goto, TypeOK, Handover, FoundIsCurrent,
       TargetsAreCurrent, SourceIsOpen, OneWorker, AnswerIsTrue, RefreshComes,
       NoResult, Outcome
  <2>3. ChangeIsSeen'
    BY <1>7 DEF CollectRaised, Goto, TypeOK, ChangeIsSeen, Handover,
       SourceIsOpen, OneWorker, RefreshComes, NoResult, Outcome
  <2>4. WorkRemembered'
    BY <1>7 DEF CollectRaised, Goto, TypeOK, WorkRemembered, Remembered,
       ChangeIsSeen, Handover, FoundIsCurrent, TargetsAreCurrent, SourceIsOpen,
       OneWorker, AnswerIsTrue, RefreshComes, NoResult, Outcome
  <2> QED BY <2>1, <2>2, <2>3, <2>4
<1>8. CASE NothingCompleted
  <2>1. TypeOK'
    BY <1>8 DEF NothingCompleted, Goto, TypeOK
  <2>2. Handover'
    BY <1>8 DEF NothingCompleted, Goto, TypeOK, Handover, FoundIsCurrent,
       TargetsAreCurrent, SourceIsOpen, OneWorker, AnswerIsTrue, RefreshComes,
       NoResult, Outcome
  <2>3. ChangeIsSeen'
    BY <1>8 DEF NothingCompleted, Goto, TypeOK, ChangeIsSeen, Handover,
       SourceIsOpen, OneWorker, RefreshComes, NoResult, Outcome
  <2>4. WorkRemembered'
    BY <1>8 DEF NothingCompleted, Goto, TypeOK, WorkRemembered, Remembered,
       ChangeIsSeen, Handover, FoundIsCurrent, TargetsAreCurrent, SourceIsOpen,
       OneWorker, AnswerIsTrue, RefreshComes, NoResult, Outcome
  <2> QED BY <2>1, <2>2, <2>3, <2>4
<1>9. CASE ControlReady
  <2>1. TypeOK'
    BY <1>9 DEF ControlReady, Goto, Call, TypeOK
  <2>2. Handover'
    BY <1>9 DEF ControlReady, Goto, Call, TypeOK, Handover, FoundIsCurrent,
       TargetsAreCurrent, SourceIsOpen, OneWorker, AnswerIsTrue, RefreshComes,
       NoResult, Outcome
  <2>3. ChangeIsSeen'
    BY <1>9 DEF ControlReady, Goto, Call, TypeOK, ChangeIsSeen, Handover,
       SourceIsOpen, OneWorker, RefreshComes, NoResult, Outcome
  <2>4. WorkRemembered'
    BY <1>9 DEF ControlReady, Goto, Call, TypeOK, WorkRemembered, Remembered,
       ChangeIsSeen, Handover, FoundIsCurrent, TargetsAreCurrent, SourceIsOpen,
       OneWorker, AnswerIsTrue, RefreshComes, NoResult, Outcome
  <2> QED BY <2>1, <2>2, <2>3, <2>4
<1>10. CASE ControlFails
  <2>1. TypeOK'
    BY <1>10 DEF ControlFails, Goto, TypeOK
  <2>2. Handover'
    BY <1>10 DEF ControlFails, Goto, TypeOK, Handover, FoundIsCurrent,
       TargetsAreCurrent, SourceIsOpen, OneWorker, AnswerIsTrue, RefreshComes,
       NoResult, Outcome
  <2>3. ChangeIsSeen'
    BY <1>10 DEF ControlFails, Goto, TypeOK, ChangeIsSeen, Handover,
       SourceIsOpen, OneWorker, RefreshComes, NoResult, Outcome
  <2>4. WorkRemembered'
    BY <1>10 DEF ControlFails, Goto, TypeOK, WorkRemembered, Remembered,
       ChangeIsSeen, Handover, FoundIsCurrent, TargetsAreCurrent, SourceIsOpen,
       OneWorker, AnswerIsTrue, RefreshComes, NoResult, Outcome
  <2> QED BY <2>1, <2>2, <2>3, <2>4
<1>11. CASE Launch
  <2>1. TypeOK'
    BY <1>11 DEF Launch, Ready, Goto, TypeOK
  <2>2. Handover'
    BY <1>11 DEF Launch, Ready, Goto, TypeOK, Handover, FoundIsCurrent,
       TargetsAreCurrent, SourceIsOpen, OneWorker, AnswerIsTrue, RefreshComes,
       NoResult, Outcome
  <2>3. ChangeIsSeen'
    BY <1>11 DEF Launch, Ready, Goto, TypeOK, ChangeIsSeen, Handover,
       SourceIsOpen, OneWorker, RefreshComes, NoResult, Outcome
  <2>4. WorkRemembered'
    BY <1>11 DEF Launch, Ready, Goto, TypeOK, WorkRemembered, Remembered,
       ChangeIsSeen, Handover, FoundIsCurrent, TargetsAreCurrent, SourceIsOpen,
       OneWorker, AnswerIsTrue, RefreshComes, NoResult, Outcome
  <2> QED BY <2>1, <2>2, <2>3, <2>4
<1>12. CASE NothingReady
  <2>1. TypeOK'
    BY <1>12 DEF NothingReady, Goto, TypeOK
  <2>2. Handover'
    BY <1>12 DEF NothingReady, Goto, TypeOK, Handover, FoundIsCurrent,
       TargetsAreCurrent, SourceIsOpen, OneWorker, AnswerIsTrue, RefreshComes,
       NoResult, Outcome
  <2>3. ChangeIsSeen'
    BY <1>12 DEF NothingReady, Goto, TypeOK, ChangeIsSeen, Handover,
       SourceIsOpen, OneWorker, RefreshComes, NoResult, Outcome
  <2>4. WorkRemembered'
    BY <1>12 DEF NothingReady, Goto, TypeOK, WorkRemembered, Remembered,
       ChangeIsSeen, Handover, FoundIsCurrent, TargetsAreCurrent, SourceIsOpen,
       OneWorker, AnswerIsTrue, RefreshComes, NoResult, Outcome
  <2> QED BY <2>1, <2>2, <2>3, <2>4
<1>13. CASE Check
  <2>1. TypeOK'
    BY <1>13 DEF Check, Goto, TypeOK
  <2>2. Handover'
    BY <1>13 DEF Check, Goto, TypeOK, Handover, FoundIsCurrent,
       TargetsAreCurrent, SourceIsOpen, OneWorker, AnswerIsTrue, RefreshComes,
       NoResult, Outcome
  <2>3. ChangeIsSeen'
    BY <1>13 DEF Check, Goto, TypeOK, ChangeIsSeen, Handover, SourceIsOpen,
       OneWorker, RefreshComes, NoResult, Outcome
  <2>4. WorkRemembered'
    BY <1>13 DEF Check, Goto, TypeOK, WorkRemembered, Remembered, ChangeIsSeen,
       Handover, FoundIsCurrent, TargetsAreCurrent, SourceIsOpen, OneWorker,
       AnswerIsTrue, RefreshComes, NoResult, Outcome
  <2> QED BY <2>1, <2>2, <2>3, <2>4
<1>14. CASE Return
  <2>1. TypeOK'
    <3>1. wake' \in BOOLEAN /\ pc' \in {"ended", "drain"}
      BY <1>14 DEF Return, Goto
    <3> QED BY <1>14, <3>1 DEF Return, Goto, TypeOK
  <2>2. Handover'
    BY <1>14 DEF Return, Goto, TypeOK, Handover, FoundIsCurrent,
       TargetsAreCurrent, SourceIsOpen, OneWorker, AnswerIsTrue, RefreshComes,
       NoResult, Outcome
  <2>3. ChangeIsSeen'
    BY <1>14 DEF Return, Goto, TypeOK, ChangeIsSeen, Handover, SourceIsOpen,
       OneWorker, RefreshComes, NoResult, Outcome
  <2>4. WorkRemembered'
    BY <1>14 DEF Return, Goto, TypeOK, WorkRemembered, Remembered, ChangeIsSeen,
       Handover, FoundIsCurrent, TargetsAreCurrent, SourceIsOpen, OneWorker,
       AnswerIsTrue, RefreshComes, NoResult, Outcome
  <2> QED BY <2>1, <2>2, <2>3, <2>4
<1>15. CASE ReadEvents
  <2>1. TypeOK'
    BY <1>15 DEF ReadEvents, Accept, Changed, Goto, Call, Event, TypeOK
  <2>2. Handover'
    BY <1>15 DEF ReadEvents, Accept, Changed, Goto, Call, Event, TypeOK,
       Handover, FoundIsCurrent, TargetsAreCurrent, SourceIsOpen, OneWorker,
       AnswerIsTrue, RefreshComes, NoResult, Outcome
  <2>3. ChangeIsSeen'
    BY <1>15 DEF ReadEvents, Accept, Changed, Goto, Call, Event, TypeOK,
       ChangeIsSeen, Handover, SourceIsOpen, OneWorker, RefreshComes, NoResult,
       Outcome
  <2>4. WorkRemembered'
    BY <1>15 DEF ReadEvents, Accept, Changed, Goto, Call, Event, TypeOK,
       WorkRemembered, Remembered, ChangeIsSeen, Handover, FoundIsCurrent,
       TargetsAreCurrent, SourceIsOpen, OneWorker, AnswerIsTrue, RefreshComes,
       NoResult, Outcome
  <2> QED BY <2>1, <2>2, <2>3, <2>4
<1>16. ASSUME NEW l \in Locks, Probe(l) PROVE IInv'
  <2>1. TypeOK'
    BY <1>16 DEF Probe, Waiting, BlockedOn, TypeOK
  <2>2. UNCHANGED work
    BY <1>16 DEF Probe, Waiting, BlockedOn, work
  <2> QED BY <2>1, <2>2, Untouched
<1>17. ASSUME NEW l \in Locks, ProbeFails(l) PROVE IInv'
  <2>1. TypeOK'
    BY <1>17 DEF ProbeFails, Waiting, TypeOK
  <2>2. Handover'
    BY <1>17 DEF ProbeFails, Waiting, TypeOK, Handover, FoundIsCurrent,
       TargetsAreCurrent, SourceIsOpen, OneWorker, AnswerIsTrue, RefreshComes,
       NoResult, Outcome
  <2>3. ChangeIsSeen'
    BY <1>17 DEF ProbeFails, Waiting, TypeOK, ChangeIsSeen, Handover,
       SourceIsOpen, OneWorker, RefreshComes, NoResult, Outcome
  <2>4. WorkRemembered'
    BY <1>17 DEF ProbeFails, Waiting, TypeOK, WorkRemembered, Remembered,
       ChangeIsSeen, Handover, FoundIsCurrent, TargetsAreCurrent, SourceIsOpen,
       OneWorker, AnswerIsTrue, RefreshComes, NoResult, Outcome
  <2> QED BY <2>1, <2>2, <2>3, <2>4
<1> QED BY <1>1, <1>2, <1>3, <1>4, <1>5, <1>6, <1>7, <1>8, <1>9, <1>10, <1>11, <1>12, <1>13,
   <1>14, <1>15, <1>16, <1>17 DEF Main

\* The watcher ends with everything where it was.
LEMMA FailureKeeps == IInv /\ BackendFails => IInv'
  BY DEF BackendFails, Goto, envVars, sourceVars, rootVars, threadVars,
     controlVars, told, marks, history, GivenUp, IInv, TypeOK, Handover, FoundIsCurrent,
     TargetsAreCurrent, SourceIsOpen, OneWorker, AnswerIsTrue, RefreshComes,
     NoResult, Outcome, ChangeIsSeen, WorkRemembered

\* The invariant holds throughout.
THEOREM WatchInvariant == Spec => []IInv
<1>1. IInv /\ UNCHANGED vars => IInv'
  <2> SUFFICES ASSUME IInv, UNCHANGED vars PROVE IInv'
    OBVIOUS
  <2>1. TypeOK'
    BY DEF vars, envVars, sourceVars, rootVars, threadVars, controlVars, told, marks,
       history, GivenUp, IInv, TypeOK
  <2>2. UNCHANGED work
    BY DEF vars, envVars, sourceVars, rootVars, work
  <2> QED BY <2>1, <2>2, Untouched
<1>2. IInv /\ [Next]_vars => IInv'
  BY <1>1, EnvironmentKeeps, WorkerKeeps, HelperKeeps, MainKeeps, FailureKeeps DEF Next
<1> QED BY WatchStarts, <1>2, PTL DEF Spec

\* Type correctness, for any number of Exchanges and locks.
THEOREM WatcherTypeCorrect == Spec => []TypeOK
<1>1. IInv => TypeOK
  BY DEF IInv
<1> QED BY WatchInvariant, <1>1, PTL

\* No change of an Exchange is forgotten while the watcher runs, whatever
\* completes late, is busy, overflows or is refreshed meanwhile
\* (Schedule.finish, accept, refresh).
THEOREM NothingForgotten == Spec => []WorkRemembered
<1>1. IInv => WorkRemembered
  BY DEF IInv
<1> QED BY WatchInvariant, <1>1, PTL

=============================================================================
