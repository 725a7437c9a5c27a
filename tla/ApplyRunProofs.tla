---------------------------- MODULE ApplyRunProofs ----------------------------
(***************************************************************************)
(* What one entrypoint run and one request promise, for any amount of      *)
(* output, any number of Ctrl-C, delays and changes others make in the     *)
(* directory.  The proof follows the composition: the entrypoint alone,    *)
(* the publication alone, the entrypoint as long as it is awaited, and     *)
(* what the request adds: lock, ledger, outcome and answer.                *)
(***************************************************************************)
EXTENDS RequestRefinement, TLAPS

-----------------------------------------------------------------------------
(* The entrypoint.  The processes of the group are only ever started by one *)
(* that runs, so a group that was found empty, or killed, stays so; the     *)
(* invariant carries this from the point where it is established to the     *)
(* result, through every exception and interruption in between.             *)

Settled == {"zero", "nonzero", "timeout"}
Leaving == {"forced", "closing", "closed", "rewind", "reading", "done", "raised"}

(* Nobody runs before the root does. *)
RootFirst ==
  /\ pc = "spawn" => proc["root"] = "none" /\ ~stopped
  /\ proc["root"] = "none" => \A p \in Processes : proc[p] = "none"

(* A group that was found empty stays empty, a killed one stays killed.     *)
Reaped == stopped => \A p \in Group : ~Alive(p)
Harmless == pc \in Leaving => \A p \in Group : proc[p] # "running"

(* The state of the tree says what happened to the root.                    *)
RootWatched ==
  /\ proc["root"] = "gone" => code \in {"zero", "nonzero"}
  /\ pc \in {"spawn", "start", "wait"} => ~signalled
  /\ state = "exited" => proc["root"] = "gone" /\ ~signalled

(* Outcome and result are settled only behind an empty group.               *)
SettledLate ==
  /\ pc = "drain" => stopped
  /\ pc \in {"spawn", "start", "wait"} => cause = "none"
  /\ cause \in Settled => stopped
  /\ cause \in {"zero", "nonzero"} => state = "exited" /\ cause = code
  /\ result.kind \in Settled => pc = "done" /\ stopped
  /\ result.kind \in {"zero", "nonzero"} => state = "exited" /\ result.kind = code
  /\ pc \in {"close", "closing", "closed", "rewind", "reading"} => cause # "none"
  /\ pc = "done" => result.kind # "none"

LogFits == log.chunks <= read

IInv ==
  TypeOK /\ LogFits /\ RootFirst /\ Reaped /\ Harmless /\ RootWatched /\ SettledLate

(* A run that has not begun satisfies the invariant. *)
LEMMA RunStarts == Init => IInv
<1> SUFFICES ASSUME Init PROVE IInv
  OBVIOUS
<1> USE DEF Init
<1>1. TypeOK
  <2>1. NoLog \in [chunks : 0..MaxOutput, spoiled : BOOLEAN]
    BY ExecutionBounds DEF NoLog
  <2>2. NoResult \in [kind : Kinds, output : [chunks : 0..MaxOutput, spoiled : BOOLEAN]]
    BY <2>1 DEF NoResult, Kinds
  <2>3. proc \in [Processes -> {"none", "running", "killed", "gone"}]
    OBVIOUS
  <2>4. sent \in 0..MaxOutput /\ read \in 0..sent /\ interrupts \in 0..MaxInterrupts
    BY ExecutionBounds
  <2> QED BY <2>1, <2>2, <2>3, <2>4 DEF TypeOK, Kinds
<1>2. LogFits /\ RootFirst /\ Reaped /\ Harmless /\ RootWatched /\ SettledLate
  BY DEF LogFits, RootFirst, Reaped, Harmless, RootWatched, SettledLate, Leaving,
     Settled, Processes, Group, Alive, NoLog, NoResult
<1> QED BY <1>1, <1>2 DEF IInv

(* What the processes of the entrypoint do keeps it. *)
LEMMA EntrypointKeeps == IInv /\ Entrypoint => IInv'
<1> SUFFICES ASSUME IInv, NEW p \in Processes, Fork(p) \/ Write(p) \/ Exit(p)
             PROVE  IInv'
  BY DEF Entrypoint
<1> USE ExecutionBounds DEF IInv, Processes, Group
<1>1. CASE Fork(p)
  <2>1. p # "root"
    BY <1>1 DEF Fork, RootFirst
  <2>2. TypeOK' /\ LogFits'
    BY <1>1 DEF Fork, TypeOK, LogFits, outVars, ctlVars
  <2>3. RootFirst'
    BY <1>1, <2>1 DEF Fork, RootFirst, TypeOK, ctlVars
  <2>4. Reaped'
    BY <1>1, <2>1 DEF Fork, Reaped, Alive, TypeOK, ctlVars
  <2>5. Harmless'
    BY <1>1, <2>1 DEF Fork, Harmless, TypeOK, ctlVars
  <2>6. RootWatched' /\ SettledLate'
    BY <1>1, <2>1 DEF Fork, RootWatched, SettledLate, TypeOK, ctlVars
  <2> QED BY <2>2, <2>3, <2>4, <2>5, <2>6
<1>2. CASE Write(p)
  BY <1>2 DEF Write, TypeOK, LogFits, RootFirst, Reaped, Harmless, Alive, RootWatched,
     SettledLate, treeVars, ctlVars
<1>3. CASE Exit(p)
  <2>1. TypeOK' /\ LogFits'
    BY <1>3 DEF Exit, TypeOK, LogFits, outVars, ctlVars
  <2>2. RootFirst' /\ Reaped' /\ Harmless'
    BY <1>3 DEF Exit, RootFirst, Reaped, Harmless, Alive, TypeOK, ctlVars
  <2>3. RootWatched'
    BY <1>3 DEF Exit, RootWatched, Alive, TypeOK, outVars, ctlVars
  <2>4. SettledLate'
    BY <1>3 DEF Exit, SettledLate, RootWatched, Alive, TypeOK, ctlVars
  <2> QED BY <2>1, <2>2, <2>3, <2>4
<1> QED BY <1>1, <1>2, <1>3

(* So does the reader thread: it touches neither processes nor outcome. *)
LEMMA ReaderKeeps == IInv /\ Reader => IInv'
<1> SUFFICES ASSUME IInv, Reader PROVE IInv'
  OBVIOUS
<1>1. UNCHANGED <<treeVars, sent, ctlVars>>
  BY DEF Reader, ReadChunk, LogFails, SinkFails, MirrorFails, ReadEnd, ReadFails, Taken
<1>2. TypeOK' /\ LogFits'
  <2> USE <1>1, ExecutionBounds DEF IInv, TypeOK, LogFits, treeVars, ctlVars
  <2>1. CASE Taken
    <3>1. read < sent /\ read' = read + 1 /\ reader' = reader
      BY <2>1 DEF Taken
    <3>2. Logged \in [chunks : 0..MaxOutput, spoiled : BOOLEAN] /\ Logged.chunks <= read + 1
      <4> DEFINE T == [chunks : 0..MaxOutput, spoiled : BOOLEAN]
      <4>1. log \in T /\ log.chunks <= read /\ read \in Nat /\ read + 1 <= MaxOutput
        BY <3>1
      <4>2. [log EXCEPT !.spoiled = TRUE] \in T /\ [log EXCEPT !.spoiled = TRUE].chunks = log.chunks
        BY <4>1
      <4>3. log.chunks \in 0..MaxOutput /\ log.chunks + 1 \in 0..MaxOutput
        BY <4>1
      <4>4. [log EXCEPT !.chunks = log.chunks + 1] \in T
            /\ [log EXCEPT !.chunks = log.chunks + 1].chunks = log.chunks + 1
        BY <4>1, <4>3
      <4> QED BY <4>1, <4>2, <4>3, <4>4 DEF Logged
    <3>3. log' = log \/ log' = Logged
      BY <2>1 DEF Reader, ReadChunk, LogFails, SinkFails, MirrorFails, ReadEnd, ReadFails
    <3>4. faults' \subseteq {"log", "text", "read"} /\ mirror' \in BOOLEAN
      BY <2>1 DEF Reader, ReadChunk, LogFails, SinkFails, MirrorFails, ReadEnd, ReadFails
    <3>5. log' \in [chunks : 0..MaxOutput, spoiled : BOOLEAN] /\ log'.chunks <= read'
      BY <3>1, <3>2, <3>3
    <3> QED BY <3>1, <3>4, <3>5
  <2>2. CASE ReadEnd \/ ReadFails
    <3>1. reader' = "done" /\ UNCHANGED <<sent, read, log, mirror>>
      BY <2>2 DEF ReadEnd, ReadFails
    <3>2. faults' \subseteq {"log", "text", "read"}
      BY <2>2 DEF ReadEnd, ReadFails
    <3> QED BY <3>1, <3>2
  <2> QED BY <2>1, <2>2 DEF Reader, ReadChunk, LogFails, SinkFails, MirrorFails
<1>3. (RootFirst /\ Reaped /\ Harmless /\ RootWatched /\ SettledLate)'
  BY <1>1 DEF IInv, RootFirst, Reaped, Harmless, RootWatched, SettledLate, Alive,
     treeVars, ctlVars
<1> QED BY <1>2, <1>3 DEF IInv

(* SIGKILL leaves nobody of the group running and starts or ends nobody.    *)
LEMMA KillEmpties ==
  ASSUME IInv, Kill
  PROVE  /\ proc' \in [Processes -> {"none", "running", "killed", "gone"}]
         /\ signalled' \in BOOLEAN /\ code' = code
         /\ \A p \in Group : proc'[p] # "running"
         /\ \A p \in Processes : (proc'[p] = "none") <=> (proc[p] = "none")
         /\ proc'["root"] = "gone" <=> proc["root"] = "gone"
         /\ proc["root"] # "running" => signalled' = signalled
  BY DEF Kill, IInv, TypeOK, Processes, Group

(* The controlling thread up to the point where the group is to be stopped. *)
LEMMA BeginKeeps ==
  ASSUME IInv, Spawn \/ SpawnFails \/ LogUnavailable \/ StartCapture \/ RootExits \/ TimeOut
  PROVE  IInv'
<1> USE ExecutionBounds DEF IInv
<1>1. CASE Spawn
  <2> USE <1>1 DEF Spawn, Goto, outVars
  <2>1. TypeOK' /\ LogFits'
    BY DEF TypeOK, LogFits, Processes, Group
  <2>2. RootFirst' /\ Reaped' /\ Harmless'
    BY DEF RootFirst, Reaped, Harmless, Leaving, Settled, SettledLate, Alive, TypeOK,
           Processes, Group
  <2>3. proc'["root"] = "running"
    BY DEF TypeOK, Processes, Group
  <2>4. RootWatched'
    BY <2>3 DEF RootWatched, RootFirst
  <2>5. SettledLate'
    BY DEF SettledLate
  <2> QED BY <2>1, <2>2, <2>4, <2>5
<1>2. CASE SpawnFails
  BY <1>2 DEF SpawnFails, TypeOK, LogFits, RootFirst, Reaped, Harmless, Leaving, Alive,
     RootWatched, SettledLate, Settled, treeVars, outVars, Kinds, Processes, Group
<1>3. CASE LogUnavailable
  <2>1. result' = [kind |-> "execution_error", output |-> NoLog]
    BY <1>3 DEF LogUnavailable, NoResult
  <2>2. NoLog \in [chunks : 0..MaxOutput, spoiled : BOOLEAN]
    BY DEF NoLog
  <2>3. [kind |-> "execution_error", output |-> NoLog]
          \in [kind : Kinds, output : [chunks : 0..MaxOutput, spoiled : BOOLEAN]]
    BY <2>2 DEF Kinds
  <2> USE <1>3 DEF LogUnavailable, treeVars, outVars
  <2>4. TypeOK' /\ LogFits'
    <3>1. result' \in [kind : Kinds, output : [chunks : 0..MaxOutput, spoiled : BOOLEAN]]
      BY <2>1, <2>3
    <3> QED BY <3>1 DEF TypeOK, LogFits
  <2>5. RootFirst' /\ Reaped' /\ Harmless'
    <3>1. ~stopped /\ \A p \in Processes : proc[p] = "none"
      BY DEF RootFirst
    <3>2. pc' = "done" /\ proc' = proc /\ stopped' = stopped
      OBVIOUS
    <3> QED BY <3>1, <3>2 DEF RootFirst, Reaped, Harmless, Processes, Group
  <2>6. RootWatched'
    BY DEF RootWatched
  <2>7. SettledLate'
    BY <2>1 DEF SettledLate, Settled
  <2> QED BY <2>4, <2>5, <2>6, <2>7
<1>4. CASE StartCapture
  BY <1>4 DEF StartCapture, Goto, TypeOK, LogFits, RootFirst, Reaped, Harmless, Leaving,
     Alive, RootWatched, SettledLate, Settled, treeVars
<1>5. CASE RootExits
  BY <1>5 DEF RootExits, Classified, TypeOK, LogFits, RootFirst, Reaped, Harmless, Leaving,
     Alive, RootWatched, SettledLate, Settled, treeVars, outVars
<1>6. CASE TimeOut
  BY <1>6 DEF TimeOut, Classified, TypeOK, LogFits, RootFirst, Reaped, Harmless, Leaving,
     Alive, RootWatched, SettledLate, Settled, treeVars, outVars
<1> QED BY <1>1, <1>2, <1>3, <1>4, <1>5, <1>6

(* Stopping the group: whether it is found empty or killed, and whatever    *)
(* goes wrong meanwhile.                                                    *)
LEMMA StopKeeps ==
  ASSUME IInv, RequestStop \/ TreeStopped \/ ForceStop \/ ForceStopFails
  PROVE  IInv'
<1> USE ExecutionBounds DEF IInv
<1>1. CASE RequestStop
  BY <1>1 DEF RequestStop, Graceful, Goto, TypeOK, LogFits, RootFirst, Reaped, Harmless,
     Leaving, Alive, RootWatched, SettledLate, Settled, outVars
<1>2. CASE TreeStopped
  <2> USE <1>2 DEF TreeStopped, treeVars, outVars
  <2>1. TypeOK' /\ LogFits'
    BY DEF TypeOK, LogFits
  <2>2. RootFirst' /\ Reaped' /\ Harmless'
    BY DEF RootFirst, Reaped, Harmless, Leaving, TreeHasProcesses, Alive
  <2>3. RootWatched' /\ SettledLate'
    BY DEF RootWatched, SettledLate
  <2> QED BY <2>1, <2>2, <2>3
<1>3. CASE ForceStop
  <2> USE <1>3 DEF ForceStop, Goto, outVars
  <2>1. /\ TreeHasProcesses /\ pc \in {"grace", "stop"} /\ pc' = "forced"
        /\ UNCHANGED <<state, stopped, cause, result, interrupts, outVars>>
    OBVIOUS
  <2>2. /\ proc' \in [Processes -> {"none", "running", "killed", "gone"}]
        /\ signalled' \in BOOLEAN /\ code' = code
        /\ \A p \in Group : proc'[p] # "running"
        /\ \A p \in Processes : (proc'[p] = "none") <=> (proc[p] = "none")
        /\ proc'["root"] = "gone" <=> proc["root"] = "gone"
        /\ proc["root"] # "running" => signalled' = signalled
    BY KillEmpties
  <2>3. ~stopped
    BY <2>1 DEF TreeHasProcesses, Reaped
  <2>4. TypeOK' /\ LogFits'
    BY <2>1, <2>2 DEF TypeOK, LogFits
  <2>5. RootFirst' /\ Reaped' /\ Harmless'
    BY <2>1, <2>2, <2>3 DEF RootFirst, Reaped, Harmless, Processes, Group
  <2>6. RootWatched'
    BY <2>1, <2>2 DEF RootWatched
  <2>7. SettledLate'
    BY <2>1, <2>2, <2>3 DEF SettledLate
  <2> QED BY <2>4, <2>5, <2>6, <2>7
<1>4. CASE ForceStopFails
  BY <1>4 DEF ForceStopFails, Unwind, TypeOK, LogFits, RootFirst, Reaped, Harmless, Leaving,
     Alive, RootWatched, SettledLate, Settled, treeVars, outVars, Kinds
<1> QED BY <1>1, <1>2, <1>3, <1>4

(* Leaving `with process_tree': an outcome is settled behind an empty group *)
(* only, and nobody is left running when the scope is closed.               *)
LEMMA CloseKeeps ==
  ASSUME IInv, Drained \/ DrainFails \/ Close \/ Closed
  PROVE  IInv'
<1> USE ExecutionBounds DEF IInv
<1>1. CASE Drained
  <2> USE <1>1 DEF Drained, Unwind, treeVars, outVars
  <2>1. stopped /\ result.kind \notin Settled
    BY DEF SettledLate
  <2>2. /\ Outcome \in Kinds
        /\ Outcome \in {"zero", "nonzero"} => state = "exited" /\ Outcome = code
        /\ Outcome # "none"
    BY DEF Outcome, TypeOK, Kinds, RootWatched
  <2>3. TypeOK' /\ LogFits'
    BY <2>2 DEF TypeOK, LogFits
  <2>4. RootFirst' /\ Reaped' /\ Harmless' /\ RootWatched'
    BY DEF RootFirst, Reaped, Harmless, Leaving, Alive, RootWatched
  <2>5. SettledLate'
    BY <2>1, <2>2 DEF SettledLate, Settled
  <2> QED BY <2>3, <2>4, <2>5
<1>2. CASE DrainFails
  BY <1>2 DEF DrainFails, Unwind, TypeOK, LogFits, RootFirst, Reaped, Harmless, Leaving,
     Alive, RootWatched, SettledLate, Settled, treeVars, outVars, Kinds
<1>3. CASE Close /\ (stopped \/ ~TreeHasProcesses)
  <2> USE <1>3 DEF Close, treeVars, outVars
  <2>1. \A p \in Group : ~Alive(p)
    BY DEF Reaped, TreeHasProcesses
  <2>2. TypeOK' /\ LogFits' /\ RootWatched' /\ RootFirst'
    BY ZenonT(40) DEF TypeOK, LogFits, RootWatched, RootFirst
  <2>3. Reaped' /\ Harmless'
    BY <2>1 DEF Reaped, Harmless, Alive
  <2>4. SettledLate'
    BY DEF SettledLate
  <2> QED BY <2>2, <2>3, <2>4
<1>4. CASE Close /\ ~(stopped \/ ~TreeHasProcesses)
  <2>1. /\ Kill /\ ~stopped /\ pc = "close" /\ pc' = "closing"
        /\ UNCHANGED <<stopped, state, cause, result, interrupts, outVars>>
    BY <1>4 DEF Close
  <2>2. /\ proc' \in [Processes -> {"none", "running", "killed", "gone"}]
        /\ signalled' \in BOOLEAN /\ code' = code
        /\ \A p \in Group : proc'[p] # "running"
        /\ \A p \in Processes : (proc'[p] = "none") <=> (proc[p] = "none")
        /\ proc'["root"] = "gone" <=> proc["root"] = "gone"
        /\ proc["root"] # "running" => signalled' = signalled
    BY <2>1, KillEmpties
  <2>3. TypeOK' /\ LogFits'
    BY <2>1, <2>2 DEF TypeOK, LogFits, outVars
  <2>4. RootFirst' /\ Reaped' /\ Harmless'
    BY <2>1, <2>2 DEF RootFirst, Reaped, Harmless, Processes, Group
  <2>5. RootWatched'
    BY <2>1, <2>2 DEF RootWatched
  <2>6. SettledLate'
    BY <2>1, <2>2 DEF SettledLate
  <2> QED BY <2>3, <2>4, <2>5, <2>6
<1>5. CASE Closed
  <2> USE <1>5 DEF Closed, treeVars, outVars
  <2>1. TypeOK' /\ LogFits' /\ RootWatched' /\ RootFirst'
    BY DEF TypeOK, LogFits, RootWatched, RootFirst
  <2>2. Reaped' /\ Harmless'
    BY DEF Reaped, Harmless, Leaving, TreeHasProcesses, Alive
  <2>3. stopped => stopped'
    BY DEF Reaped, TreeHasProcesses
  <2>4. SettledLate'
    BY <2>3 DEF SettledLate
  <2> QED BY <2>1, <2>2, <2>4
<1> QED BY <1>1, <1>2, <1>3, <1>4, <1>5

(* From the closed scope to the result, which is the cause or an error.     *)
LEMMA FinishKeeps ==
  ASSUME IInv, FinishCapture \/ Rewind \/ ReadLog \/ ReadLogFails \/ CloseLogFails
  PROVE  IInv'
<1> USE ExecutionBounds DEF IInv
<1>1. CASE FinishCapture \/ Rewind
  <2>1. /\ pc \in Leaving /\ pc' \in {"rewind", "reading"} /\ pc # "done"
        /\ pc \in {"closed", "rewind"}
        /\ UNCHANGED <<treeVars, outVars, state, stopped, cause, result, interrupts>>
    BY <1>1 DEF FinishCapture, Rewind, Goto, Leaving
  <2> USE <2>1 DEF treeVars, outVars
  <2>2. TypeOK' /\ LogFits'
    BY DEF TypeOK, LogFits
  <2>3. RootFirst' /\ Reaped' /\ Harmless'
    BY DEF RootFirst, Reaped, Harmless, Leaving, Alive
  <2>4. RootWatched' /\ SettledLate'
    BY DEF RootWatched, SettledLate
  <2> QED BY <2>2, <2>3, <2>4
<1>2. CASE ReadLog \/ ReadLogFails \/ CloseLogFails
  <2>1. PICK kind \in {cause, WithCleanupError(cause)}, output \in {log, NoLog} :
          Finish(kind, output)
    BY <1>2 DEF ReadLog, ReadLogFails, CloseLogFails
  <2>2. /\ kind \in Kinds /\ kind # "none"
        /\ kind \in Settled => kind = cause
    BY <2>1 DEF Finish, WithCleanupError, TypeOK, Kinds, Settled, SettledLate
  <2>3. output \in [chunks : 0..MaxOutput, spoiled : BOOLEAN]
    <3>1. NoLog \in [chunks : 0..MaxOutput, spoiled : BOOLEAN]
      BY DEF NoLog
    <3> QED BY <3>1 DEF TypeOK
  <2> USE <2>1 DEF Finish, treeVars, outVars
  <2>4. TypeOK' /\ LogFits'
    <3>1. result' \in [kind : Kinds,
                      output : [chunks : 0..MaxOutput, spoiled : BOOLEAN]]
      BY <2>2, <2>3
    <3> QED BY <3>1 DEF TypeOK, LogFits
  <2>5. RootFirst' /\ Reaped' /\ Harmless' /\ RootWatched'
    BY DEF RootFirst, Reaped, Harmless, Leaving, Alive, RootWatched
  <2>6. SettledLate'
    BY <2>2 DEF SettledLate, Settled
  <2> QED BY <2>4, <2>5, <2>6
<1> QED BY <1>1, <1>2

(* A Ctrl-C settles nothing: it can only make the outcome an interruption.  *)
LEMMA InterruptKeeps == ASSUME IInv, Interrupt PROVE IInv'
<1> USE ExecutionBounds DEF IInv
<1>0. interrupts' \in 0..MaxInterrupts
  BY DEF Interrupt, TypeOK
<1>1. CASE Classified("interrupted")
  <2> USE <1>0, <1>1 DEF Classified, treeVars, outVars
  <2>1. TypeOK' /\ LogFits'
    BY DEF TypeOK, LogFits
  <2>2. RootFirst' /\ Reaped' /\ Harmless'
    BY DEF RootFirst, Reaped, Harmless, Leaving, Alive
  <2>3. RootWatched'
    BY DEF RootWatched
  <2>4. SettledLate'
    BY DEF SettledLate, Settled
  <2> QED BY <2>1, <2>2, <2>3, <2>4
<1>2. CASE pc \in {"start", "grace", "forced", "drain"} /\ Unwind("interrupted")
           /\ UNCHANGED <<treeVars, outVars>>
  BY <1>0, <1>2 DEF Unwind, TypeOK, LogFits, RootFirst, Reaped, Harmless, Leaving, Alive,
     RootWatched, SettledLate, Settled, treeVars, outVars, Kinds
<1>3. CASE /\ pc = "closing" /\ pc' = "closed" /\ cause' = "interrupted"
           /\ UNCHANGED <<treeVars, outVars, state, stopped, result>>
  BY <1>0, <1>3 DEF TypeOK, LogFits, RootFirst, Reaped, Harmless, Leaving, Alive, RootWatched,
     SettledLate, Settled, treeVars, outVars, Kinds
<1>4. CASE /\ pc = "closed" /\ reader = "running" /\ pc' = "raised"
           /\ UNCHANGED <<treeVars, outVars, state, stopped, cause, result>>
  BY <1>0, <1>4 DEF TypeOK, LogFits, RootFirst, Reaped, Harmless, Leaving, Alive, RootWatched,
     SettledLate, Settled, treeVars, outVars
<1> QED BY <1>1, <1>2, <1>3, <1>4 DEF Interrupt

LEMMA RunInvariant == Spec => []IInv
<1>1. IInv /\ Next => IInv'
  BY EntrypointKeeps, ReaderKeeps, BeginKeeps, StopKeeps, CloseKeeps, FinishKeeps,
     InterruptKeeps DEF Next, Control
<1>2. IInv /\ UNCHANGED vars => IInv'
  BY DEF vars, treeVars, outVars, ctlVars, IInv, TypeOK, LogFits, RootFirst, Reaped,
     Harmless, Alive, RootWatched, SettledLate
<1> QED BY RunStarts, <1>1, <1>2, PTL DEF Spec

-----------------------------------------------------------------------------
(* The log.  A reader that has ended without an error has seen the end of    *)
(* the pipe, so nobody is left who could write; an outcome is settled only   *)
(* behind such a reader, and from there on the log is what was sent.         *)

Whole(n) == [chunks |-> n, spoiled |-> FALSE]

ReaderStarts == pc \in {"spawn", "start"} => reader = "none"
EndOfFile == reader = "done" /\ "read" \notin faults => Writers = {} /\ read = sent
LogFollows == "log" \notin faults /\ pc \notin {"reading", "done"} => log = Whole(read)
SettledWhole ==
  cause \in Settled => /\ reader = "done" /\ faults = {} /\ Writers = {}
                       /\ log = Whole(sent)
ReportedWhole ==
  result.kind \in Settled =>
    /\ reader = "done" /\ Writers = {}
    /\ result.output = Whole(sent) \/ (result.kind # "zero" /\ result.output = NoLog)

OutputInv == ReaderStarts /\ EndOfFile /\ LogFollows /\ SettledWhole /\ ReportedWhole

LEMMA OutputStarts == Init => OutputInv
BY DEF Init, OutputInv, ReaderStarts, EndOfFile, LogFollows, SettledWhole, ReportedWhole,
   Whole, NoLog, NoResult, Settled

(* Nobody starts from nobody, and only who runs can write. *)
LEMMA EntrypointKeepsOutput == ASSUME IInv, OutputInv, Entrypoint PROVE OutputInv'
<1>1. PICK p \in Processes : Fork(p) \/ Write(p) \/ Exit(p)
  BY DEF Entrypoint
<1>2. UNCHANGED <<read, log, faults, reader, ctlVars>>
  BY <1>1 DEF Fork, Write, Exit, outVars
<1>3. Writers = {} => Writers' = {} /\ sent' = sent
  <2> SUFFICES ASSUME Writers = {} PROVE Writers' = {} /\ sent' = sent
    OBVIOUS
  <2>1. \A q \in Processes : proc[q] \notin {"running", "killed"}
    BY DEF Writers, Alive
  <2>2. ~Fork(p) /\ ~Write(p) /\ ~Exit(p)
    BY <2>1 DEF Fork, Write, Exit, Alive, Processes, Group
  <2> QED BY <1>1, <2>2
<1> QED BY <1>2, <1>3 DEF OutputInv, ReaderStarts, EndOfFile, LogFollows, SettledWhole,
          ReportedWhole, ctlVars

(* The reader adds what it takes; once it has ended it does nothing. *)
LEMMA ReaderKeepsOutput == ASSUME IInv, OutputInv, Reader PROVE OutputInv'
<1>1. /\ UNCHANGED <<treeVars, sent, ctlVars>> /\ Writers' = Writers
      /\ reader = "running" /\ cause \notin Settled /\ result.kind \notin Settled
  BY DEF Reader, ReadChunk, LogFails, SinkFails, MirrorFails, ReadEnd, ReadFails, Taken,
         OutputInv, SettledWhole, ReportedWhole, Writers, Alive, treeVars
<1> USE DEF OutputInv
<1>2. ReaderStarts' /\ SettledWhole' /\ ReportedWhole'
  BY <1>1 DEF ReaderStarts, SettledWhole, ReportedWhole, ctlVars
<1>3. EndOfFile'
  <2>1. CASE ReadEnd
    BY <1>1, <2>1 DEF ReadEnd, EndOfFile
  <2>2. CASE ReadFails
    BY <2>2 DEF ReadFails, EndOfFile
  <2>3. CASE Taken
    BY <1>1, <2>3 DEF Taken, EndOfFile
  <2> QED BY <2>1, <2>2, <2>3 DEF Reader, ReadChunk, LogFails, SinkFails, MirrorFails
<1>4. LogFollows'
  <2> SUFFICES ASSUME "log" \notin faults', pc \notin {"reading", "done"}
               PROVE  log' = Whole(read')
    BY <1>1 DEF LogFollows, ctlVars
  <2>1. faults \subseteq faults' /\ ~LogFails
    BY DEF Reader, ReadChunk, LogFails, SinkFails, MirrorFails, ReadEnd, ReadFails
  <2>2. log = Whole(read)
    BY <2>1 DEF LogFollows
  <2>3. CASE ReadEnd \/ ReadFails
    BY <2>2, <2>3 DEF ReadEnd, ReadFails
  <2>4. CASE ReadChunk \/ SinkFails \/ MirrorFails
    <3>1. log' = [log EXCEPT !.chunks = @ + 1] /\ read' = read + 1
      BY <2>1, <2>4 DEF ReadChunk, SinkFails, MirrorFails, Taken, Logged
    <3> QED BY <2>2, <3>1 DEF Whole
  <2> QED BY <2>1, <2>3, <2>4 DEF Reader
<1> QED BY <1>2, <1>3, <1>4

(* SIGKILL pending still counts as somebody who holds the pipe. *)
LEMMA KillKeepsWriters == ASSUME IInv, Kill PROVE Writers' = Writers
BY DEF Kill, Writers, Alive, IInv, TypeOK

(* The controlling thread settles an outcome only behind a reader that has  *)
(* seen the end of the pipe, and takes the log from it.                     *)
LEMMA ControlKeepsOutput == ASSUME IInv, OutputInv, Control PROVE OutputInv'
<1> USE DEF OutputInv
<1>1. CASE Spawn
  BY <1>1 DEF Spawn, Goto, outVars, IInv, SettledLate, ReaderStarts, EndOfFile, LogFollows,
     SettledWhole, ReportedWhole, Settled
<1>2. CASE StartCapture
  <2>1. cause \notin Settled /\ result.kind \notin Settled
    BY <1>2 DEF StartCapture, IInv, SettledLate, Settled
  <2> QED BY <1>2, <2>1 DEF StartCapture, Goto, ReaderStarts, EndOfFile, LogFollows,
             SettledWhole, ReportedWhole
<1>3. CASE SpawnFails \/ LogUnavailable
  <2>1. /\ UNCHANGED <<treeVars, outVars>> /\ Writers' = Writers
        /\ pc = "spawn" /\ pc' \notin {"spawn", "start"}
        /\ cause' \notin Settled /\ result'.kind \notin Settled
    BY <1>3 DEF SpawnFails, LogUnavailable, NoResult, NoLog, IInv, SettledLate, Settled,
       Writers, Alive, treeVars
  <2> QED BY <2>1 DEF ReaderStarts, EndOfFile, LogFollows, SettledWhole, ReportedWhole, outVars
<1>4. CASE RootExits \/ TimeOut \/ RequestStop \/ TreeStopped \/ FinishCapture \/ Rewind
           \/ Closed \/ ForceStopFails \/ DrainFails
  <2>1. /\ UNCHANGED <<outVars, proc>> /\ Writers' = Writers
        /\ pc \notin {"spawn", "start", "reading", "done"} /\ pc' \notin {"spawn", "start"}
        /\ result' = result
        /\ cause' = cause \/ cause' = "execution_error"
    BY <1>4 DEF RootExits, TimeOut, RequestStop, TreeStopped, FinishCapture, Rewind, Closed,
       ForceStopFails, DrainFails, Classified, Goto, Unwind, treeVars, Writers, Alive
  <2> QED BY <2>1 DEF ReaderStarts, EndOfFile, LogFollows, SettledWhole, ReportedWhole,
             outVars, Settled
<1>5. CASE ForceStop \/ Close
  <2>1. Kill \/ proc' = proc
    BY <1>5 DEF ForceStop, Close, treeVars
  <2>2. Writers' = Writers
    BY <2>1, KillKeepsWriters DEF Writers, Alive
  <2>3. /\ UNCHANGED <<outVars, cause, result>>
        /\ pc \in {"stop", "grace", "close"} /\ pc' \in {"forced", "closing", "closed"}
    BY <1>5 DEF ForceStop, Close, Goto
  <2> QED BY <2>2, <2>3 DEF ReaderStarts, EndOfFile, LogFollows, SettledWhole, ReportedWhole,
             outVars
<1>6. CASE Drained
  <2>1. /\ UNCHANGED <<outVars, proc, result>> /\ Writers' = Writers
        /\ pc = "drain" /\ pc' = "close" /\ reader = "done" /\ faults = {}
    BY <1>6 DEF Drained, Unwind, treeVars, Writers, Alive
  <2>2. Writers = {} /\ log = Whole(sent)
    BY <2>1 DEF EndOfFile, LogFollows
  <2> QED BY <2>1, <2>2 DEF ReaderStarts, EndOfFile, LogFollows, SettledWhole, ReportedWhole,
             outVars
<1>7. CASE ReadLog \/ ReadLogFails \/ CloseLogFails
  <2>1. PICK kind \in {cause, WithCleanupError(cause)}, output \in {log, NoLog} :
          /\ Finish(kind, output)
          /\ output = NoLog => kind = WithCleanupError(cause) \/ output = log
    BY <1>7 DEF ReadLog, ReadLogFails, CloseLogFails
  <2>2. /\ UNCHANGED <<outVars, proc, cause>> /\ Writers' = Writers
        /\ pc = "reading" /\ pc' = "done"
        /\ result'.kind = kind /\ result'.output = output
    BY <2>1 DEF Finish, treeVars, Writers, Alive
  <2>3. kind \in Settled => cause \in Settled /\ kind = cause
    BY <2>1 DEF WithCleanupError, Settled
  <2>4. WithCleanupError(cause) # "zero"
    BY DEF WithCleanupError
  <2>5. ReportedWhole'
    BY <2>1, <2>2, <2>3, <2>4 DEF ReportedWhole, SettledWhole, outVars
  <2> QED BY <2>2, <2>5 DEF ReaderStarts, EndOfFile, LogFollows, SettledWhole, outVars
<1> QED BY <1>1, <1>2, <1>3, <1>4, <1>5, <1>6, <1>7 DEF Control

LEMMA InterruptKeepsOutput == ASSUME IInv, OutputInv, Interrupt PROVE OutputInv'
<1>1. /\ UNCHANGED <<outVars, proc, result>> /\ Writers' = Writers
      /\ pc' \notin {"spawn", "start"} /\ pc \notin {"reading", "done"}
      /\ cause' = cause \/ cause' = "interrupted"
  BY DEF Interrupt, Classified, Unwind, treeVars, Writers, Alive
<1> QED BY <1>1 DEF OutputInv, ReaderStarts, EndOfFile, LogFollows, SettledWhole,
           ReportedWhole, outVars, Settled

(* Every variable keeps its type, for any amount of output and any number   *)
(* of interruptions.                                                        *)
THEOREM RunTypeCorrect == Spec => []TypeOK
<1>1. IInv => TypeOK
  BY DEF IInv
<1> QED BY RunInvariant, <1>1, PTL

(* However a run ends, nobody of the process group is left running, and a   *)
(* settled outcome is reported only when all of them are gone.              *)
THEOREM NobodySurvives == Spec => []NothingSurvives
<1>1. IInv => NothingSurvives
  BY DEF IInv, NothingSurvives, Harmless, Leaving, SettledLate, Settled, Reaped
<1> QED BY RunInvariant, <1>1, PTL

(* A reported exit status is the one the root process really ended with,    *)
(* before it was sent any signal.                                           *)
THEOREM StatusIsTheRoots == Spec => []ExitStatusIsTrue
<1>1. IInv => ExitStatusIsTrue
  BY DEF IInv, ExitStatusIsTrue, RootWatched, SettledLate
<1> QED BY RunInvariant, <1>1, PTL

(* The output reported with an exit status or a timeout is every chunk any   *)
(* process wrote, or for a failed run possibly none.                        *)
THEOREM OutputIsWhole == Spec => []OutputIsComplete
<1>1. IInv /\ OutputInv /\ [Next]_vars => OutputInv'
  <2>1. ASSUME IInv, OutputInv, UNCHANGED vars PROVE OutputInv'
    BY <2>1 DEF vars, treeVars, outVars, ctlVars, OutputInv, ReaderStarts, EndOfFile,
       LogFollows, SettledWhole, ReportedWhole, Writers, Alive
  <2> QED BY <2>1, EntrypointKeepsOutput, ReaderKeepsOutput, ControlKeepsOutput,
             InterruptKeepsOutput DEF Next
<1>2. OutputInv => OutputIsComplete
  BY DEF OutputInv, ReportedWhole, OutputIsComplete, Settled, Whole
<1> QED BY RunInvariant, OutputStarts, <1>1, <1>2, PTL DEF Spec

-----------------------------------------------------------------------------
(* The publication.                                                         *)

\* Nothing is placed before the replacement, and clean-up is behind it.
PlacedLate ==
  /\ step \notin {"cleanup", "ended", "released"} => placed = "nothing"
  /\ step = "cleanup" => placed # "nothing"

\* What the verified reads have seen, and what is in the ledger since.
DigestIsWhole ==
  /\ step \in {"idle", "reserved", "capture", "open", "write", "verify", "pin"} =>
       pinned = "nothing"
  /\ step = "pin" => digest = "whole"
  /\ step \in {"reread", "replace"} =>
       digest = "whole" /\ pinned = IF proof THEN "whole" ELSE "nothing"

\* From the last read on the temporary file is the one that was read.
TempIsSealed ==
  step = "replace" /\ temp # NoFile /\ "temp" \notin blind => temp = Our("whole")

\* A file at the final path came after the look at it.
FinalIsSeen ==
  step \in {"write", "verify", "pin", "reread", "replace"} /\ final = "other" =>
    "final" \in blind

\* Whatever of ours is at the temporary path once nobody writes it any more.
OursIsReserved ==
  /\ step = "idle" => temp = NoFile
  /\ step \in {"reserved", "capture", "open", "rescue", "cleanup", "ended"} /\ temp.by = "us" =>
       temp.holds = "spoiled" \/ (reserved /\ temp.holds = "token")
  /\ step = "released" /\ temp.by = "us" => temp.holds = "spoiled"

ReportIsLast ==
  /\ report.status # "none" => step \in {"ended", "released"}
  /\ report.emergency => report.status = "failed"

PublicationInv ==
  /\ PublicationTypeOK /\ PlacedLate /\ DigestIsWhole /\ TempIsSealed /\ FinalIsSeen
  /\ OursIsReserved /\ ReportIsLast /\ ReportIsTrue /\ PinCoversResult

-----------------------------------------------------------------------------
(* The entrypoint, in and out of the phase that awaits it.                  *)

Early == {"idle", "resolve", "locked", "recheck", "write"}

\* Nobody runs before the root does, also when nobody awaits it any more.
Rooted == proc["root"] = "none" => \A p \in Processes : proc[p] = "none"

Awaited == phase \in Early \cup {"run"} => IInv /\ OutputInv
NotStarted == phase \in Early => pc = "spawn"
GroupIsOver == phase \notin {"run", "dead"} => \A p \in Group : proc[p] # "running"

-----------------------------------------------------------------------------
(* The request.                                                             *)

Tracked == op = "tracked"

LockIsHeld ==
  /\ phase \in {"resolve", "locked", "recheck", "write", "unwritten", "run"} =>
       step = "reserved"
  /\ phase \in {"locked", "recheck", "write", "unwritten", "run"} => lock = "us"
  /\ phase = "over" => step = "released"

\* A success in the report is one of this kind of request, and it is real.
PrimaryIsTrue ==
  /\ primary = "zero" => sound
  /\ phase = "unwritten" => primary = "write_failure"
  /\ phase \in {"publish", "outcome"} => primary # "none"
  /\ op \in {"tracked", "untracked"} => primary \notin {"success", "dry"}

LedgerFollows ==
  Tracked =>
    /\ phase \in {"idle", "resolve", "locked", "recheck"} => ledger = "none"
    /\ phase \in {"write", "unwritten", "run"} => ledger = "attempted"
    /\ phase = "publish" /\ ledger = "attempted" => refused # "none" \/ primary \in Kinds
    /\ phase \in {"unwind", "release", "over"} /\ ledger = "attempted" =>
         refused # "none" \/ answer = "raised"
    /\ proc["root"] # "none" => ledger # "none"
    /\ ledger = "succeeded" => sound

AnswerIsEarned ==
  /\ phase \in Early \cup {"unwritten", "run", "publish"} => answer = "none"
  /\ answer = "success" =>
       /\ report.status = "created" /\ primary \in Successes
       /\ Tracked => primary = "zero"
       /\ Tracked /\ phase \notin {"outcome", "dead"} => ledger = "succeeded"

FlowTypeOK ==
  /\ op \in {"tracked", "untracked", "dry_run", "bundle"}
  /\ phase \in {"idle", "resolve", "locked", "recheck", "write", "unwritten", "run",
                "publish", "outcome", "unwind", "release", "over", "dead"}
  /\ lock \in {"free", "us", "other"}
  /\ ledger \in {"none", "attempted", "succeeded", "failed"}
  /\ primary \in {"none"} \cup Successes \cup Failures
  /\ sound \in BOOLEAN /\ refused \in {"none"} \cup Successes \cup Failures
  /\ answer \in {"none", "success", "raised", "result_bundle_error"} \cup Failures

EntrypointInv == TypeOK /\ Rooted /\ Awaited /\ NotStarted /\ GroupIsOver
FlowInv == FlowTypeOK /\ LockIsHeld /\ PrimaryIsTrue /\ LedgerFollows /\ AnswerIsEarned

ApplyInv == EntrypointInv /\ PublicationInv /\ FlowInv

-----------------------------------------------------------------------------
(* The publication keeps its invariant. *)

PublicationStep ==
  \/ Reserve \/ ReserveFails \/ Release \/ Begin \/ NoRunDirectory
  \/ (\E proves \in BOOLEAN : Capture(proves)) \/ Publication \/ Cancel \/ Others

LEMMA PublicationStarts == PublicationInit => PublicationInv
<1> SUFFICES ASSUME PublicationInit PROVE PublicationInv
  OBVIOUS
<1>1. NoReport \in [status : {"none", "created", "failed"}, emergency : BOOLEAN]
  BY DEF NoReport
<1>2. PublicationTypeOK
  <2>1. report \in [status : {"none", "created", "failed"}, emergency : BOOLEAN]
    BY <1>1 DEF PublicationInit
  <2>2. temp \in {NoFile, [by |-> "other", holds |-> "spoiled"]} \cup
                 {Our(content) : content \in Contents}
    BY DEF PublicationInit
  <2>3. waits \in 0..MaxWaits /\ moves \in 0..MaxMoves
    BY PublicationBounds DEF PublicationInit
  <2>4. /\ final = "nothing" /\ rundir = "none" /\ step = "idle" /\ ~reserved /\ ~proof
        /\ digest = "nothing" /\ pinned = "nothing" /\ placed = "nothing" /\ blind = {}
        /\ reserved \in BOOLEAN /\ proof \in BOOLEAN
    BY DEF PublicationInit
  <2> QED BY <2>1, <2>2, <2>3, <2>4 DEF PublicationTypeOK
<1>3. PlacedLate /\ DigestIsWhole /\ TempIsSealed /\ FinalIsSeen
  BY DEF PublicationInit, PlacedLate, DigestIsWhole, TempIsSealed, FinalIsSeen
<1>4. OursIsReserved /\ ReportIsLast /\ ReportIsTrue /\ PinCoversResult
  BY DEF PublicationInit, OursIsReserved, ReportIsLast, ReportIsTrue, PinCoversResult, NoFile,
         NoReport
<1> QED BY <1>2, <1>3, <1>4 DEF PublicationInv

(* The reservation, and a Result that is not begun. *)
LEMMA ReservationKeeps ==
  ASSUME PublicationInv, Reserve \/ ReserveFails \/ Release \/ Begin \/ NoRunDirectory
  PROVE  PublicationInv'
<1> USE PublicationBounds DEF PublicationInv, PublicationTypeOK, PlacedLate, DigestIsWhole,
   TempIsSealed, FinalIsSeen, OursIsReserved, ReportIsLast, ReportIsTrue, PinCoversResult,
   NoFile, NoReport, Contents, Our, Publishing, diskVars, doneVars, otherVars, endVars
<1>1. CASE Reserve
  BY <1>1 DEF Reserve
<1>2. CASE ReserveFails
  BY <1>2 DEF ReserveFails
<1>3. CASE Release
  BY <1>3 DEF Release
<1>4. CASE Begin
  BY <1>4 DEF Begin
<1>5. CASE NoRunDirectory
  BY <1>5 DEF NoRunDirectory
<1> HIDE DEF PublicationInv
<1> QED BY <1>1, <1>2, <1>3, <1>4, <1>5

(* Up to the last byte. *)
LEMMA WritingKeeps ==
  ASSUME PublicationInv, (\E proves \in BOOLEAN : Capture(proves)) \/ CaptureFails \/ Open
         \/ OpenFails \/ WriteBundle \/ WriteFails
  PROVE  PublicationInv'
<1> USE PublicationBounds DEF PublicationInv, PublicationTypeOK, PlacedLate, DigestIsWhole,
   TempIsSealed, FinalIsSeen, OursIsReserved, ReportIsLast, ReportIsTrue, PinCoversResult,
   NoFile, NoReport, Contents, Our, Publishing, diskVars, doneVars, otherVars, endVars
<1>1. CASE (\E proves \in BOOLEAN : Capture(proves))
  <2>1. PICK proves \in BOOLEAN : Capture(proves)
    BY <1>1
  <2> QED BY <2>1 DEF Capture
<1>2. CASE CaptureFails
  BY <1>2 DEF CaptureFails
<1>3. CASE Open
  BY <1>3 DEF Open, Go
<1>4. CASE OpenFails
  BY <1>4 DEF OpenFails, Fail, RemoveOwned, Removable
<1>5. CASE WriteBundle
  BY <1>5 DEF WriteBundle, Go
<1>6. CASE WriteFails
  BY <1>6 DEF WriteFails, Fail, RemoveOwned, Removable
<1> HIDE DEF PublicationInv
<1> QED BY <1>1, <1>2, <1>3, <1>4, <1>5, <1>6

(* Both verified reads and the pin between them. *)
LEMMA ChecksKeep ==
  ASSUME PublicationInv, Retry \/ Verify \/ Pin \/ PinLost \/ NothingToPin \/ Reread
         \/ ChecksFail
  PROVE  PublicationInv'
<1> USE PublicationBounds DEF PublicationInv, PublicationTypeOK, PlacedLate, DigestIsWhole,
   TempIsSealed, FinalIsSeen, OursIsReserved, ReportIsLast, ReportIsTrue, PinCoversResult,
   NoFile, NoReport, Contents, Our, Publishing, diskVars, doneVars, otherVars, endVars
<1>1. CASE Retry
  BY <1>1 DEF Retry
<1>2. CASE Verify
  BY <1>2 DEF Verify, Go
<1>3. CASE Pin
  BY <1>3 DEF Pin, Go
<1>4. CASE PinLost
  BY <1>4 DEF PinLost, RemoveOwned, Removable
<1>5. CASE NothingToPin
  BY <1>5 DEF NothingToPin, Go
<1>6. CASE Reread
  BY <1>6 DEF Reread, Go
<1>7. CASE ChecksFail
  BY <1>7 DEF ChecksFail, Fail, RemoveOwned, Removable
<1> HIDE DEF PublicationInv
<1> QED BY <1>1, <1>2, <1>3, <1>4, <1>5, <1>6, <1>7

(* The replacement and the end, good or bad. *)
LEMMA EndKeeps ==
  ASSUME PublicationInv, Replace \/ ReplaceFails \/ Created \/ Rescue \/ Cancel
  PROVE  PublicationInv'
<1> USE PublicationBounds DEF PublicationInv, PublicationTypeOK, PlacedLate, DigestIsWhole,
   TempIsSealed, FinalIsSeen, OursIsReserved, ReportIsLast, ReportIsTrue, PinCoversResult,
   NoFile, NoReport, Contents, Our, Publishing, diskVars, doneVars, otherVars, endVars
<1>1. CASE Replace
  BY <1>1 DEF Replace
<1>2. CASE ReplaceFails
  BY <1>2 DEF ReplaceFails, Fail, RemoveOwned, Removable
<1>3. CASE Created
  BY <1>3 DEF Created
<1>4. CASE Rescue
  BY <1>4 DEF Rescue
<1>5. CASE Cancel
  BY <1>5 DEF Cancel, RemoveOwned, Removable
<1> HIDE DEF PublicationInv
<1> QED BY <1>1, <1>2, <1>3, <1>4, <1>5

(* Users and transports. *)
LEMMA OthersKeep ==
  ASSUME PublicationInv, FinalArrives \/ FinalTaken \/ TempTaken \/ TempSwapped \/ TempSpoiled
  PROVE  PublicationInv'
<1> USE PublicationBounds DEF PublicationInv, PublicationTypeOK, PlacedLate, DigestIsWhole,
   TempIsSealed, FinalIsSeen, OursIsReserved, ReportIsLast, ReportIsTrue, PinCoversResult,
   NoFile, NoReport, Contents, Our, Publishing, diskVars, doneVars, otherVars, endVars
<1>1. CASE FinalArrives
  BY <1>1 DEF FinalArrives, Move, Unseen, Undisturbed
<1>2. CASE FinalTaken
  BY <1>2 DEF FinalTaken, Move, Unseen, Undisturbed
<1>3. CASE TempTaken
  BY <1>3 DEF TempTaken, Move, Unseen, Undisturbed
<1>4. CASE TempSwapped
  BY <1>4 DEF TempSwapped, Move, Unseen, Undisturbed
<1>5. CASE TempSpoiled
  BY <1>5 DEF TempSpoiled, Move, Unseen, Undisturbed
<1> HIDE DEF PublicationInv
<1> QED BY <1>1, <1>2, <1>3, <1>4, <1>5

LEMMA PublicationKeeps == ASSUME PublicationInv, PublicationStep PROVE PublicationInv'
BY ReservationKeeps, WritingKeeps, ChecksKeep, EndKeeps, OthersKeep
   DEF PublicationStep, Publication, Others

LEMMA PublicationRests == ASSUME PublicationInv, UNCHANGED publicationVars PROVE PublicationInv'
BY DEF publicationVars, diskVars, doneVars, otherVars, endVars, PublicationInv, PublicationTypeOK,
   PlacedLate, DigestIsWhole, TempIsSealed, FinalIsSeen, OursIsReserved, ReportIsLast,
   ReportIsTrue, PinCoversResult

(* The only step that touches a file of others is the replacement, and then *)
(* that file came after the last look.                                      *)
ForeignStays ==
  moves' = moves =>
    /\ final = "other" /\ "final" \notin blind => final' = "other"
    /\ temp.by = "other" /\ "temp" \notin blind => temp' = temp

LEMMA StepKeepsForeign == ASSUME PublicationInv, PublicationStep PROVE ForeignStays
<1> USE DEF PublicationInv, PublicationTypeOK
<1>1. CASE Others
  BY <1>1, PublicationBounds DEF Others, FinalArrives, FinalTaken, TempTaken, TempSwapped,
     TempSpoiled, Move, ForeignStays
<1>2. CASE Replace
  BY <1>2 DEF Replace, ForeignStays, TempIsSealed, FinalIsSeen, NoFile, Our
<1>3. CASE Publication /\ ~Replace
  BY <1>3 DEF Publication, CaptureFails, Open, OpenFails, WriteBundle, WriteFails, Retry, Verify,
     Pin, PinLost, NothingToPin, Reread, ChecksFail, ReplaceFails, Created, Rescue, Fail, Go,
     RemoveOwned, Removable, ForeignStays, NoFile, Our, diskVars
<1>4. CASE Reserve \/ ReserveFails \/ Release \/ Begin \/ NoRunDirectory \/ Cancel
           \/ \E proves \in BOOLEAN : Capture(proves)
  BY <1>4 DEF Reserve, ReserveFails, Release, Begin, NoRunDirectory, Cancel, Capture, RemoveOwned,
     Removable, ForeignStays, NoFile, Our, diskVars
<1> QED BY <1>1, <1>2, <1>3, <1>4 DEF PublicationStep
-----------------------------------------------------------------------------
(* Every step of a request is one of the publication, or leaves it alone.   *)

LEMMA RequestPublishes ==
  ASSUME ApplyNext PROVE PublicationStep \/ UNCHANGED publicationVars
<1> USE DEF PublicationStep
<1>1. CASE Ours
  BY <1>1 DEF Ours, Resolve, Unresolvable, LockRepository, NotResolved, Preflight, ChecksRefuse,
     PassGate, WritePayload, PayloadFails, RecordPayloadFailure, PayloadOutcomeRefused, Execute,
     Executed, ExecuteRaised, BundleBegins, BundleLocks, Publish, CaptureResult, Published,
     RecordOutcome, OutcomeRefused, Unlock, LetGo
<1>2. CASE ~Ours
  BY <1>2 DEF ApplyNext, CtrlC, ExecuteInterrupted, Killed, EntrypointRuns, DirectoryChanges,
     LockMoves
<1> QED BY <1>1, <1>2

-----------------------------------------------------------------------------
(* The entrypoint, in the steps that leave it alone, ...                     *)

Onward ==
  /\ phase' \in Early => phase \in Early
  /\ phase' = "run" => phase \in {"write", "run"}
  /\ phase \in {"run", "dead"} => phase' \in {phase, "dead"}

LEMMA EntrypointRests ==
  ASSUME EntrypointInv, UNCHANGED vars, Onward PROVE EntrypointInv'
<1>1. (TypeOK /\ Rooted)'
  BY DEF EntrypointInv, TypeOK, Rooted, vars, treeVars, outVars, ctlVars
<1>2. Awaited'
  <2> SUFFICES ASSUME phase' \in Early \cup {"run"} PROVE (IInv /\ OutputInv)'
    BY DEF Awaited
  <2>1. IInv /\ OutputInv
    BY DEF EntrypointInv, Awaited, Onward, Early
  <2> QED BY <2>1 DEF vars, treeVars, outVars, ctlVars, IInv, TypeOK, LogFits, RootFirst, Reaped,
             Harmless, Alive, RootWatched, SettledLate, OutputInv, ReaderStarts, EndOfFile,
             LogFollows, SettledWhole, ReportedWhole, Writers
<1>3. (NotStarted /\ GroupIsOver)'
  BY DEF EntrypointInv, NotStarted, GroupIsOver, Onward, vars, treeVars, ctlVars
<1> QED BY <1>1, <1>2, <1>3 DEF EntrypointInv

(* ... by its own processes, which may outlive everything, ...               *)
LEMMA EntrypointKeepsInv == ASSUME EntrypointInv, EntrypointRuns PROVE EntrypointInv'
<1> USE DEF EntrypointInv
<1>1. PICK p \in Processes : Fork(p) \/ Exit(p) \/ (phase = "run" /\ Write(p))
  BY DEF EntrypointRuns
<1>2. /\ phase' = phase /\ UNCHANGED <<signalled, read, log, faults, mirror, reader, ctlVars>>
      /\ (phase = "run" /\ sent' = sent + 1 /\ sent < MaxOutput) \/ sent' = sent
      /\ proc' = proc \/ Fork(p) \/ Exit(p)
  BY <1>1 DEF EntrypointRuns, Fork, Exit, Write, outVars, flowVars, treeVars
<1>3. TypeOK'
  <2>1. proc' \in [Processes -> {"none", "running", "killed", "gone"}]
    BY <1>2 DEF Fork, Exit, TypeOK
  <2>2. code' \in {"none", "zero", "nonzero"}
    BY <1>1 DEF Fork, Exit, Write, treeVars, TypeOK
  <2>3. sent' \in 0..MaxOutput /\ read' \in 0..sent'
    BY <1>2, ExecutionBounds DEF TypeOK
  <2> QED BY <1>2, <2>1, <2>2, <2>3 DEF TypeOK, ctlVars
<1>4. Rooted'
  BY <1>2 DEF Rooted, Fork, Exit, Alive, TypeOK, Processes, Group
<1>5. Awaited'
  BY <1>1, <1>2, EntrypointKeeps, EntrypointKeepsOutput DEF Awaited, Entrypoint
<1>6. NotStarted'
  BY <1>2 DEF NotStarted, ctlVars
<1>7. GroupIsOver'
  BY <1>2 DEF GroupIsOver, Rooted, Fork, Exit, TypeOK, Processes, Group
<1> QED BY <1>3, <1>4, <1>5, <1>6, <1>7

(* ... and by the controlling thread as long as it awaits it.               *)
LEMMA ExecutionKeeps ==
  ASSUME EntrypointInv, Execute \/ ExecuteInterrupted PROVE EntrypointInv'
<1>1. phase = "run" /\ phase' = "run" /\ (Control \/ Reader \/ Interrupt)
  BY DEF Execute, ExecuteInterrupted, flowVars
<1>2. (IInv /\ OutputInv)'
  <2>1. IInv /\ OutputInv
    BY <1>1 DEF EntrypointInv, Awaited
  <2>2. IInv'
    BY <1>1, <2>1, ReaderKeeps, BeginKeeps, StopKeeps, CloseKeeps, FinishKeeps, InterruptKeeps
       DEF Control
  <2> QED BY <1>1, <2>1, <2>2, ReaderKeepsOutput, ControlKeepsOutput, InterruptKeepsOutput
<1> QED BY <1>1, <1>2 DEF EntrypointInv, IInv, RootFirst, Rooted, Awaited, NotStarted, GroupIsOver,
          Early

(* Once it is over, or PatchHarbor is, nothing is left but the processes.   *)
LEMMA ForgetKeeps ==
  ASSUME EntrypointInv, Forget, UNCHANGED <<treeVars, interrupts>>,
         phase' \notin Early \cup {"run"},
         phase' # "dead" => phase = "run" /\ pc \in Leaving
  PROVE  EntrypointInv'
<1>1. TypeOK'
  <2>1. NoLog \in [chunks : 0..MaxOutput, spoiled : BOOLEAN]
    BY ExecutionBounds DEF NoLog
  <2>2. NoResult \in [kind : Kinds, output : [chunks : 0..MaxOutput, spoiled : BOOLEAN]]
    BY <2>1 DEF NoResult, Kinds
  <2>3. sent' \in 0..MaxOutput /\ read' \in 0..sent'
    BY ExecutionBounds DEF Forget
  <2> QED BY <2>1, <2>2, <2>3 DEF Forget, EntrypointInv, TypeOK, treeVars, Kinds
<1>2. (Rooted /\ Awaited /\ NotStarted)'
  BY DEF EntrypointInv, Rooted, Awaited, NotStarted, treeVars
<1>3. GroupIsOver'
  <2> SUFFICES ASSUME phase' # "dead" PROVE \A p \in Group : proc[p] # "running"
    BY DEF GroupIsOver, treeVars
  <2> QED BY DEF EntrypointInv, Awaited, IInv, Harmless
<1> QED BY <1>1, <1>2, <1>3 DEF EntrypointInv
-----------------------------------------------------------------------------
(* What the request adds: up to the entrypoint, ...                        *)
LEMMA BeforeKeeps ==
  ASSUME ApplyInv, Resolve \/ Unresolvable \/ LockRepository \/ NotResolved \/ Preflight
         \/ ChecksRefuse \/ PassGate \/ WritePayload \/ PayloadFails
         \/ RecordPayloadFailure \/ PayloadOutcomeRefused
  PROVE  FlowInv'
<1> USE DEF ApplyInv, FlowInv, FlowTypeOK, LockIsHeld, PrimaryIsTrue, LedgerFollows, AnswerIsEarned,
   Tracked, Early, Successes, Failures, To, vars, treeVars, publicationVars, endVars
<1>1. CASE Resolve
  BY <1>1 DEF Resolve, Reserve
<1>2. CASE Unresolvable
  BY <1>2 DEF Unresolvable, ReserveFails
<1>3. CASE LockRepository
  BY <1>3 DEF LockRepository
<1>4. CASE NotResolved
  BY <1>4 DEF NotResolved
<1>5. CASE Preflight
  BY <1>5 DEF Preflight, Fails
<1>6. CASE ChecksRefuse
  BY <1>6 DEF ChecksRefuse, Fails
<1>7. CASE PassGate
  BY <1>7 DEF PassGate
<1>8. CASE WritePayload
  BY <1>8 DEF WritePayload
<1>9. CASE PayloadFails
  BY <1>9 DEF PayloadFails, Fails
<1>10. CASE RecordPayloadFailure
  BY <1>10 DEF RecordPayloadFailure
<1>11. CASE PayloadOutcomeRefused
  BY <1>11 DEF PayloadOutcomeRefused, Fails
<1> QED BY <1>1, <1>2, <1>3, <1>4, <1>5, <1>6, <1>7, <1>8, <1>9, <1>10, <1>11

(* ... and from there to the answer.                                       *)
LEMMA AfterKeeps ==
  ASSUME ApplyInv, BundleBegins \/ BundleLocks \/ Publish \/ Published \/ RecordOutcome
         \/ OutcomeRefused \/ Unlock \/ LetGo
  PROVE  FlowInv'
<1> USE DEF ApplyInv, FlowInv, FlowTypeOK, LockIsHeld, PrimaryIsTrue, LedgerFollows, AnswerIsEarned,
   Tracked, Early, Successes, Failures, To, vars, treeVars, publicationVars, endVars
<1>1. CASE BundleBegins
  BY <1>1 DEF BundleBegins, Begin, NoRunDirectory, Fails
<1>2. CASE BundleLocks
  BY <1>2 DEF BundleLocks
<1>3. CASE Publish
  BY <1>3 DEF Publish, LockKept
<1>4. CASE Published
  <2>1. /\ primary \notin {"success", "dry", "zero"} => Answer(primary) = primary
        /\ primary \in {"success", "dry", "zero"} =>
             Answer(primary) = IF report.status = "failed" THEN "result_bundle_error"
                               ELSE "success"
    BY DEF Answer
  <2>2. report.status # "failed" /\ report.status # "none" => report.status = "created"
    BY DEF PublicationInv, PublicationTypeOK
  <2>3. answer' \in {"none", "success", "result_bundle_error"} \cup Failures
    BY <1>4, <2>1 DEF Published
  <2> QED BY <1>4, <2>1, <2>2, <2>3 DEF Published, Kinds
<1>5. CASE RecordOutcome
  BY <1>5 DEF RecordOutcome
<1>6. CASE OutcomeRefused
  BY <1>6 DEF OutcomeRefused, Answer
<1>7. CASE Unlock
  BY <1>7 DEF Unlock
<1>8. CASE LetGo
  BY <1>8 DEF LetGo, Release
<1> QED BY <1>1, <1>2, <1>3, <1>4, <1>5, <1>6, <1>7, <1>8

(* What is not up to PatchHarbor.                                          *)
LEMMA OutsideKeeps ==
  ASSUME ApplyInv, CtrlC \/ Killed \/ EntrypointRuns \/ DirectoryChanges \/ LockMoves
  PROVE  FlowInv'
<1> USE DEF ApplyInv, FlowInv, FlowTypeOK, LockIsHeld, PrimaryIsTrue, LedgerFollows, AnswerIsEarned,
   Tracked, Early, Successes, Failures, To, vars, treeVars, publicationVars, endVars
<1>1. CASE CtrlC
  BY <1>1 DEF CtrlC
<1>2. CASE Killed
  BY <1>2 DEF Killed
<1>3. CASE EntrypointRuns
  <2>1. proc'["root"] # "none" => proc["root"] # "none"
    <3>1. PICK p \in Processes : Fork(p) \/ Exit(p) \/ Write(p)
      BY <1>3 DEF EntrypointRuns
    <3>2. Rooted /\ proc \in [Processes -> {"none", "running", "killed", "gone"}]
      BY DEF EntrypointInv, TypeOK
    <3>3. CASE Fork(p)
      BY <3>2, <3>3 DEF Fork, Rooted, Processes, Group
    <3>4. CASE Exit(p)
      BY <3>2, <3>4 DEF Exit, Alive
    <3> QED BY <3>1, <3>3, <3>4 DEF Write
  <2> QED BY <1>3, <2>1 DEF EntrypointRuns, flowVars
<1>4. CASE DirectoryChanges
  <2>1. UNCHANGED <<step, report>>
    BY <1>4 DEF DirectoryChanges, Others, FinalArrives, FinalTaken, TempTaken, TempSwapped,
       TempSpoiled, Undisturbed
  <2> QED BY <1>4, <2>1 DEF DirectoryChanges, flowVars
<1>5. CASE LockMoves
  BY <1>5 DEF LockMoves
<1> QED BY <1>1, <1>2, <1>3, <1>4, <1>5
(* The entrypoint and its result: a zero is a sound one.                    *)
LEMMA RunKeeps ==
  ASSUME ApplyInv, Execute \/ ExecuteInterrupted \/ Executed \/ ExecuteRaised
  PROVE  FlowInv'
<1> USE DEF ApplyInv, FlowInv, FlowTypeOK, LockIsHeld, PrimaryIsTrue, LedgerFollows, AnswerIsEarned,
   Tracked, Early, Successes, Failures, To, treeVars, publicationVars, endVars
<1>1. CASE Execute \/ ExecuteInterrupted
  BY <1>1 DEF Execute, ExecuteInterrupted, flowVars
<1>2. CASE Executed
  <2>1. IInv /\ OutputInv
    BY <1>2 DEF Executed, EntrypointInv, Awaited
  <2>2. result.kind \in Kinds \ {"none"}
    BY <1>2, <2>1 DEF IInv, TypeOK, SettledLate, Executed
  <2>3. result.kind = "zero" =>
          code = "zero" /\ ~signalled /\ result.output = [chunks |-> sent, spoiled |-> FALSE]
    BY <2>1 DEF IInv, SettledLate, RootWatched, OutputInv, ReportedWhole, Whole, Settled
  <2>4. primary' = "zero" => sound'
    BY <1>2, <2>3 DEF Executed, Fails
  <2> QED BY <1>2, <2>2, <2>4 DEF Executed, Fails, Kinds
<1>3. CASE ExecuteRaised
  BY <1>3 DEF ExecuteRaised
<1> QED BY <1>1, <1>2, <1>3

-----------------------------------------------------------------------------
(* All of it together.                                                      *)

LEMMA ApplyStarts == ApplyInit => ApplyInv
<1> SUFFICES ASSUME ApplyInit PROVE ApplyInv
  OBVIOUS
<1>1. PublicationInv
  BY PublicationStarts DEF ApplyInit
<1>2. IInv /\ OutputInv
  BY RunStarts, OutputStarts DEF ApplyInit
<1>3. EntrypointInv
  BY <1>2 DEF ApplyInit, Init, EntrypointInv, IInv, Rooted, Awaited, NotStarted, GroupIsOver, Early,
     Processes, Group
<1>4. FlowInv
  BY DEF ApplyInit, Init, FlowInv, FlowTypeOK, LockIsHeld, PrimaryIsTrue, LedgerFollows,
     AnswerIsEarned, Tracked, Early, Processes, Group
<1> QED BY <1>1, <1>3, <1>4 DEF ApplyInv

LEMMA EntrypointSteps == ASSUME ApplyInv, ApplyNext PROVE EntrypointInv'
<1>0. EntrypointInv
  BY DEF ApplyInv
<1>1. CASE Execute \/ ExecuteInterrupted
  BY <1>0, <1>1, ExecutionKeeps
<1>2. CASE EntrypointRuns
  BY <1>0, <1>2, EntrypointKeepsInv
<1>3. CASE Executed \/ ExecuteRaised \/ Killed
  BY <1>0, <1>3, ForgetKeeps DEF Executed, ExecuteRaised, Killed, Fails, To, Early, Leaving
<1>4. CASE CtrlC
  <2>1. UNCHANGED <<treeVars, outVars, pc, state, stopped, cause, result>>
        /\ phase' = "unwind" /\ phase \notin {"run", "dead"} /\ interrupts' \in 0..MaxInterrupts
    BY <1>0, <1>4, ExecutionBounds DEF CtrlC, To, EntrypointInv, TypeOK
  <2> QED BY <1>0, <2>1 DEF EntrypointInv, TypeOK, Rooted, Awaited, NotStarted, GroupIsOver, Early,
             treeVars, outVars
<1>5. CASE Resolve \/ Unresolvable \/ LockRepository \/ NotResolved \/ Preflight \/ ChecksRefuse
           \/ PassGate \/ WritePayload \/ PayloadFails \/ RecordPayloadFailure
           \/ PayloadOutcomeRefused \/ BundleBegins
           \/ BundleLocks \/ Publish \/ Published \/ RecordOutcome \/ OutcomeRefused \/ Unlock
           \/ LetGo \/ DirectoryChanges \/ LockMoves
  <2>1. UNCHANGED vars /\ Onward
    BY <1>5 DEF Resolve, Unresolvable, LockRepository, NotResolved, Preflight, ChecksRefuse, PassGate,
       WritePayload, PayloadFails, RecordPayloadFailure, PayloadOutcomeRefused, BundleBegins,
       BundleLocks, Publish, Published, RecordOutcome, OutcomeRefused, Unlock, LetGo,
       DirectoryChanges, LockMoves, flowVars, Fails, To, Onward, Early
  <2> QED BY <1>0, <2>1, EntrypointRests
<1> QED BY <1>1, <1>2, <1>3, <1>4, <1>5 DEF ApplyNext, Ours

LEMMA RequestRests == ASSUME ApplyInv, UNCHANGED runVars PROVE ApplyInv'
<1>1. UNCHANGED vars /\ UNCHANGED publicationVars /\ UNCHANGED flowVars
  BY DEF runVars
<1>2. EntrypointInv'
  BY <1>1, EntrypointRests DEF ApplyInv, Onward, flowVars
<1>3. FlowInv'
  BY <1>1 DEF ApplyInv, FlowInv, FlowTypeOK, LockIsHeld, PrimaryIsTrue, LedgerFollows,
     AnswerIsEarned, Tracked, flowVars, publicationVars, endVars, vars, treeVars
<1> QED BY <1>1, <1>2, <1>3, PublicationRests DEF ApplyInv

LEMMA RequestInvariant == ApplySpec => []ApplyInv
<1>1. ApplyInv /\ ApplyNext => ApplyInv'
  <2> SUFFICES ASSUME ApplyInv, ApplyNext PROVE ApplyInv'
    OBVIOUS
  <2>1. PublicationInv'
    BY RequestPublishes, PublicationKeeps, PublicationRests DEF ApplyInv
  <2>2. FlowInv'
    BY BeforeKeeps, RunKeeps, AfterKeeps, OutsideKeeps DEF ApplyNext, Ours
  <2> QED BY <2>1, <2>2, EntrypointSteps DEF ApplyInv
<1> QED BY ApplyStarts, <1>1, RequestRests, PTL DEF ApplySpec

(* Every variable of a request keeps its type, for any bounds. *)
THEOREM RequestTypeCorrect == ApplySpec => []ApplyTypeOK
<1>1. ApplyInv => ApplyTypeOK
  BY DEF ApplyInv, EntrypointInv, PublicationInv, FlowInv, FlowTypeOK, ApplyTypeOK
<1> QED BY RequestInvariant, <1>1, PTL

(* As long as PatchHarbor lives, the group of the entrypoint runs only      *)
(* under the repository lock and before the Result is begun.                *)
THEOREM GroupRunsUnderLock == ApplySpec => []GroupUnderLock
<1>1. ApplyInv => GroupUnderLock
  BY DEF ApplyInv, EntrypointInv, GroupIsOver, FlowInv, LockIsHeld, GroupUnderLock
<1> QED BY RequestInvariant, <1>1, PTL

(* A living run leaves neither its reservation nor its temporary file.      *)
THEOREM NothingIsLeft == ApplySpec => []NoLeftover
<1>1. ApplyInv => NoLeftover
  BY DEF ApplyInv, FlowInv, LockIsHeld, PublicationInv, OursIsReserved, NoLeftover
<1> QED BY RequestInvariant, <1>1, PTL

(* What is moved to the final path is the whole Result the ledger pinned,    *)
(* whatever others did to the temporary file before it was last read.       *)
THEOREM PinIsOfResult == ApplySpec => []PinCoversResult
<1>1. ApplyInv => PinCoversResult
  BY DEF ApplyInv, PublicationInv
<1> QED BY RequestInvariant, <1>1, PTL

(* The report says of the Result what happened to it.                       *)
THEOREM ReportsAreTrue == ApplySpec => []ReportIsTrue
<1>1. ApplyInv => ReportIsTrue
  BY DEF ApplyInv, PublicationInv
<1> QED BY RequestInvariant, <1>1, PTL

(* No file of others is overwritten or removed but one that came after the  *)
(* last look at its path.                                                   *)
THEOREM ForeignFilesStay == ApplySpec => ForeignKept
<1>1. ApplyInv /\ [ApplyNext]_runVars => [ForeignStays]_publicationVars
  <2> SUFFICES ASSUME ApplyInv, [ApplyNext]_runVars PROVE ForeignStays \/ UNCHANGED publicationVars
    OBVIOUS
  <2>1. ApplyNext \/ UNCHANGED publicationVars
    BY DEF runVars
  <2> QED BY <2>1, RequestPublishes, StepKeepsForeign DEF ApplyInv
<1>2. ForeignKept <=> [][ForeignStays]_publicationVars
  BY DEF ForeignKept, ForeignStays
<1> QED BY RequestInvariant, <1>1, <1>2, PTL DEF ApplySpec
-----------------------------------------------------------------------------
(* The contract of a request.  Its abstract state is read off control point, *)
(* outcome and ledger, so the invariant says how these follow each other.    *)

\* Which outcome the report carries at which point.
PrimaryFollows ==
  /\ phase \in Early \cup {"run"} => primary = "none"
  /\ phase = "unwritten" => primary = "write_failure"
  /\ phase = "publish" => primary # "none"
  /\ phase = "outcome" =>
       /\ Tracked /\ primary \in Kinds \ {"none"} /\ ledger = "attempted"
       /\ answer = Answer(primary) /\ report.status # "none"
  /\ op \notin Request!Packages =>
       /\ phase \notin {"recheck", "write", "run", "unwritten", "outcome"}
       /\ primary \in {"none", "dry", "success", "tool_error"}
  /\ op = "bundle" => phase \notin {"resolve", "locked"}

\* An outcome the ledger refused is known, and the attempt stays open in it.
RefusalFollows ==
  /\ refused # "none" =>
       /\ Tracked /\ ledger = "attempted" /\ primary = "ledger_error"
       /\ phase \in {"publish", "unwind", "release", "over", "dead"}
       /\ refused \in Kinds \cup {"write_failure"}
       /\ phase = "publish" => refused = "write_failure"
  /\ primary = "ledger_error" => refused # "none"

RecordFollows ==
  /\ ~Tracked => ledger = "none"
  /\ primary = "none" => ledger \in {"none", "attempted"}
  /\ phase = "publish" /\ Tracked =>
       ledger = CASE primary = "write_failure" -> "failed"
                  [] primary = "tool_error" -> "none"
                  [] OTHER -> "attempted"

NothingRan ==
  /\ phase \in Early \cup {"unwritten"} => proc["root"] = "none"
  /\ phase = "publish" /\ primary \notin Kinds => proc["root"] = "none"

LockToTheEnd ==
  /\ phase \in {"unwritten", "publish", "outcome"} /\ op # "bundle" => lock = "us"
  /\ phase = "publish" /\ step \in Publishing => lock = "us"
  /\ phase \in {"idle", "release", "over"} => lock # "us"

\* The answer is true from the moment on at which the request only unwinds.
AnswerFollows ==
  /\ phase \in {"outcome", "unwind", "release", "over"} => answer # "none"
  /\ phase \in {"unwind", "release"} => Request!Told(AnswerClass(answer))

ContractInv ==
  /\ PrimaryFollows /\ RefusalFollows /\ RecordFollows /\ NothingRan /\ LockToTheEnd
  /\ AnswerFollows

LEMMA ContractStarts == ApplyInit => ContractInv
<1> SUFFICES ASSUME ApplyInit PROVE ContractInv
  OBVIOUS
<1> QED BY DEF ApplyInit, Init, ContractInv, PrimaryFollows, RefusalFollows, RecordFollows,
          NothingRan, LockToTheEnd, AnswerFollows, Tracked, Early, Request!Packages, Processes, Group

(* The group of the entrypoint is started once, and once it is over it      *)
(* stays so, whoever is left of it.                                         *)
LEMMA GroupRests == ASSUME UNCHANGED proc PROVE group' = group
BY DEF group

LEMMA GroupMoves ==
  ASSUME ApplyInv, Execute \/ ExecuteInterrupted \/ EntrypointRuns
  PROVE  \/ group' = group
         \/ group = "busy" /\ group' = "over"
         \/ group = "none" /\ group' = "busy" /\ phase = "run"
<1>0. /\ Rooted /\ proc \in [Processes -> {"none", "running", "killed", "gone"}]
      /\ phase = "run" => IInv
  BY DEF ApplyInv, EntrypointInv, Awaited, TypeOK
<1>1. CASE EntrypointRuns
  <2>1. PICK p \in Processes : Fork(p) \/ Exit(p) \/ Write(p)
    BY <1>1 DEF EntrypointRuns
  <2>2. CASE Fork(p)
    BY <1>0, <2>2 DEF Fork, group, Rooted, Processes, Group
  <2>3. CASE Exit(p)
    BY <1>0, <2>3 DEF Exit, group, Rooted, Processes, Group, Alive
  <2> QED BY <2>1, <2>2, <2>3, GroupRests DEF Write, treeVars
<1>2. CASE Execute /\ Spawn
  BY <1>0, <1>2 DEF Execute, Spawn, group, IInv, RootFirst, Processes, Group
<1>3. CASE Execute /\ Kill
  <2>1. /\ \A p \in Group : proc'[p] = IF proc[p] = "running" THEN "killed" ELSE proc[p]
        /\ "root" \in Group
    BY <1>3 DEF Kill, Processes, Group
  <2>2. \A p \in Group : proc'[p] # "running"
    BY <2>1
  <2>3. proc'["root"] = "none" <=> proc["root"] = "none"
    BY <2>1
  <2>4. (\E p \in Group : proc[p] = "running") => proc["root"] # "none"
    BY <1>0 DEF Rooted, Processes, Group
  <2> QED BY <2>2, <2>3, <2>4 DEF group
<1>4. CASE UNCHANGED proc
  BY <1>4, GroupRests
<1>5. Execute => Spawn \/ Kill \/ UNCHANGED proc
  BY DEF Execute, Control, SpawnFails, LogUnavailable, StartCapture, RootExits, TimeOut, RequestStop,
     TreeStopped, ForceStop, ForceStopFails, Drained, DrainFails, Close, Closed, FinishCapture,
     Rewind, ReadLog, ReadLogFails, CloseLogFails, Finish, Classified, Goto, Unwind, treeVars,
     Reader, ReadChunk, LogFails, SinkFails, MirrorFails, ReadEnd, ReadFails, Taken
<1>6. ExecuteInterrupted => UNCHANGED proc
  BY DEF ExecuteInterrupted, Interrupt, Classified, Unwind, treeVars
<1> QED BY <1>1, <1>2, <1>3, <1>4, <1>5, <1>6

(* Up to the entrypoint, ... *)
LEMMA BeforeFollows ==
  ASSUME ApplyInv, ContractInv,
         Resolve \/ Unresolvable \/ LockRepository \/ NotResolved \/ Preflight \/ ChecksRefuse
         \/ PassGate \/ WritePayload \/ PayloadFails \/ RecordPayloadFailure
         \/ PayloadOutcomeRefused
  PROVE  ContractInv'
<1> USE DEF ContractInv, PrimaryFollows, RefusalFollows, RecordFollows, NothingRan, LockToTheEnd,
   AnswerFollows, Tracked, Early, To, Kinds, Request!Packages
<1>0. /\ step \in {"idle", "reserved"} => step \notin Publishing
      /\ phase \in Early \cup {"unwritten", "run", "publish"} => answer = "none"
      /\ phase \in {"resolve", "locked", "recheck", "write", "unwritten", "run"} =>
           step = "reserved"
      /\ phase \in {"locked", "recheck", "write", "unwritten", "run"} => lock = "us"
      /\ Tracked /\ phase \in {"idle", "resolve", "locked", "recheck"} => ledger = "none"
      /\ Tracked /\ phase \in {"write", "unwritten", "run"} => ledger = "attempted"
      /\ op \in {"tracked", "untracked", "dry_run", "bundle"}
  BY DEF ApplyInv, FlowInv, FlowTypeOK, AnswerIsEarned, LockIsHeld, LedgerFollows, Publishing
<1>1. CASE Resolve
  BY <1>0, <1>1 DEF Resolve, Reserve, vars, treeVars
<1>2. CASE Unresolvable
  BY <1>0, <1>2 DEF Unresolvable, ReserveFails, vars, treeVars
<1>3. CASE LockRepository
  BY <1>0, <1>3 DEF LockRepository, publicationVars, vars, treeVars, endVars
<1>4. CASE NotResolved
  <2>1. UNCHANGED <<proc, step, placed, report, op, lock, ledger, primary, refused>>
        /\ phase' = "unwind" /\ answer' = "tool_error" /\ phase \in {"resolve", "locked"}
    BY <1>4 DEF NotResolved, publicationVars, vars, treeVars, endVars
  <2>2. primary = "none" /\ refused = "none" /\ ledger = "none" /\ proc["root"] = "none"
    BY <1>0, <2>1
  <2>3. fate' = "none" /\ AnswerClass(answer') = "refused"
    BY <2>1, <2>2 DEF fate, Judged, AnswerClass
  <2>4. group' = "none"
    BY <2>1, <2>2 DEF group, ApplyInv, EntrypointInv, Rooted, Processes, Group
  <2>5. Request!Told(AnswerClass(answer))'
    BY <2>1, <2>2, <2>3, <2>4 DEF Request!Told
  <2> QED BY <1>0, <2>1, <2>2, <2>5
<1>5. CASE Preflight
  BY <1>0, <1>5 DEF Preflight, Fails, publicationVars, vars, treeVars, endVars
<1>6. CASE ChecksRefuse
  BY <1>0, <1>6 DEF ChecksRefuse, Fails, publicationVars, vars, treeVars, endVars
<1>7. CASE PassGate
  BY <1>0, <1>7 DEF PassGate, publicationVars, vars, treeVars, endVars
<1>8. CASE WritePayload
  BY <1>0, <1>8 DEF WritePayload, publicationVars, vars, treeVars, endVars
<1>9. CASE PayloadFails
  BY <1>0, <1>9 DEF PayloadFails, publicationVars, vars, treeVars, endVars
<1>10. CASE RecordPayloadFailure
  BY <1>0, <1>10 DEF RecordPayloadFailure, publicationVars, vars, treeVars, endVars
<1>11. CASE PayloadOutcomeRefused
  BY <1>0, <1>11 DEF PayloadOutcomeRefused, Fails, publicationVars, vars, treeVars, endVars
<1> QED BY <1>1, <1>2, <1>3, <1>4, <1>5, <1>6, <1>7, <1>8, <1>9, <1>10, <1>11

(* ... with the entrypoint, whose end is the outcome, ... *)
LEMMA RunFollows ==
  ASSUME ApplyInv, ContractInv,
         Execute \/ ExecuteInterrupted \/ EntrypointRuns \/ Executed \/ ExecuteRaised
  PROVE  ContractInv'
<1> USE DEF ContractInv, PrimaryFollows, RefusalFollows, RecordFollows, NothingRan, LockToTheEnd,
   AnswerFollows, Tracked, Early, Request!Packages
<1>1. CASE Execute \/ ExecuteInterrupted \/ EntrypointRuns
  <2>1. UNCHANGED <<publicationVars, flowVars>>
    BY <1>1 DEF Execute, ExecuteInterrupted, EntrypointRuns
  <2>2. fate' = fate
    BY <2>1 DEF fate, Judged, flowVars
  <2>3. phase \notin {"run", "dead"} => group' = group /\ (proc["root"] = "none" => proc'["root"] = "none")
    <3> SUFFICES ASSUME phase \notin {"run", "dead"}
                 PROVE  group' = group /\ (proc["root"] = "none" => proc'["root"] = "none")
      OBVIOUS
    <3>1. \A p \in Group : proc[p] # "running"
      BY DEF ApplyInv, EntrypointInv, GroupIsOver
    <3>2. group' = group
      BY <1>1, <3>1, GroupMoves DEF group
    <3>3. proc["root"] = "none" => group = "none"
      BY <3>1 DEF group
    <3>4. group' = "none" => proc'["root"] = "none"
      BY DEF group
    <3> QED BY <3>2, <3>3, <3>4
  <2>4. phase \in {"unwind", "release"} => Request!Told(AnswerClass(answer))'
    BY <2>1, <2>2, <2>3 DEF Request!Told, Request!Done, Request!Recorded, flowVars,
       publicationVars, endVars
  <2> QED BY <2>1, <2>2, <2>3, <2>4 DEF flowVars, publicationVars, endVars, Answer
<1>2. CASE Executed
  <2>1. /\ phase = "run" /\ phase' = "publish" /\ primary' = result.kind /\ step = "reserved"
        /\ UNCHANGED <<step, placed, report, op, lock, ledger, refused, answer, proc>>
        /\ lock = "us" /\ (Tracked => ledger = "attempted")
    BY <1>2 DEF Executed, Fails, To, publicationVars, endVars, treeVars, ApplyInv, FlowInv,
       LockIsHeld, LedgerFollows
  <2>2. primary' \in Kinds \ {"none"}
    BY <1>2, <2>1 DEF Executed, ApplyInv, EntrypointInv, Awaited, IInv, TypeOK, SettledLate
  <2> QED BY <2>1, <2>2 DEF Kinds, Publishing
<1>3. CASE ExecuteRaised
  <2>1. /\ phase = "run" /\ phase' = "unwind" /\ answer' = "raised"
        /\ UNCHANGED <<step, placed, report, op, lock, ledger, refused, primary, proc>>
        /\ (Tracked => ledger = "attempted")
    BY <1>3 DEF ExecuteRaised, To, publicationVars, endVars, treeVars, ApplyInv, FlowInv,
       LedgerFollows
  <2>2. Request!Told(AnswerClass(answer))'
    BY <2>1 DEF Request!Told, AnswerClass
  <2> QED BY <2>1, <2>2
<1> QED BY <1>1, <1>2, <1>3

(* An outcome that goes into no record any more is answered as it is. *)
LEMMA AnswerIsTold ==
  ASSUME ApplyInv, ContractInv, Published, phase' = "unwind"
  PROVE  Request!Told(AnswerClass(answer))'
<1>0. /\ phase = "publish" /\ report.status \in {"created", "failed"}
      /\ answer' = Answer(primary) /\ phase' = "unwind"
      /\ UNCHANGED <<proc, placed, report, op, ledger, primary, refused>>
      /\ primary \in Successes \cup Failures
      /\ Tracked => primary \notin Kinds
      /\ ~Tracked => ledger = "none"
      /\ op \in {"tracked", "untracked"} => primary \notin {"success", "dry"}
  BY DEF Published, To, publicationVars, endVars, vars, treeVars, Tracked, ApplyInv, FlowInv,
     FlowTypeOK, PublicationInv, PublicationTypeOK, ContractInv, PrimaryFollows, RecordFollows,
     PrimaryIsTrue
<1>1. placed # "nothing" <=> report.status = "created"
  BY <1>0 DEF ApplyInv, PublicationInv, ReportIsTrue
<1>2. group' = group
  BY <1>0, GroupRests
<1> USE DEF Tracked, Successes, Failures
<1>3. CASE primary \in Successes
  <2>1. refused = "none"
    BY <1>3 DEF ContractInv, RefusalFollows
  <2>2. AnswerClass(answer') = IF report.status = "created" THEN "success" ELSE "unpublished"
    BY <1>0, <1>3 DEF Answer, AnswerClass
  <2>3. fate' = IF primary = "zero" THEN "ok" ELSE "none"
    BY <1>0, <1>3, <2>1 DEF fate, Judged
  <2>4. primary = "zero" <=> op \in Request!Packages
    BY <1>0, <1>3 DEF ContractInv, PrimaryFollows, Request!Packages
  <2>5. ledger' = "none" /\ op' # "tracked"
    BY <1>0, <1>3, <2>4 DEF Kinds, Request!Packages
  <2>6. Request!Done'
    BY <1>0, <2>3, <2>4, <2>5 DEF Request!Done, Request!Recorded
  <2> QED BY <1>0, <1>1, <2>2, <2>6 DEF Request!Told
<1>4. CASE primary = "tool_error"
  <2>1. refused = "none" /\ ledger = "none" /\ proc["root"] = "none"
    BY <1>0, <1>4 DEF ContractInv, RefusalFollows, RecordFollows, NothingRan, Kinds
  <2>2. fate' = "none" /\ AnswerClass(answer') = "refused"
    BY <1>0, <1>4, <2>1 DEF fate, Judged, Answer, AnswerClass
  <2>3. group = "none"
    BY <2>1 DEF group, ApplyInv, EntrypointInv, Rooted, Processes, Group
  <2> QED BY <1>0, <1>2, <2>1, <2>2, <2>3 DEF Request!Told
<1>5. CASE primary = "ledger_error"
  <2>1. refused = "write_failure" /\ ledger = "attempted"
    BY <1>0, <1>5 DEF ContractInv, RefusalFollows
  <2>2. fate' = "failed" /\ AnswerClass(answer') = "unrecorded"
    BY <1>0, <1>5, <2>1 DEF fate, Judged, Answer, AnswerClass
  <2> QED BY <1>0, <2>1, <2>2 DEF Request!Told
<1>6. CASE primary \in Failures \ {"tool_error", "ledger_error"}
  <2>1. refused = "none" /\ (Tracked => ledger = "failed")
    BY <1>0, <1>6 DEF ContractInv, RefusalFollows, RecordFollows, Kinds
  <2>2. fate' = "failed" /\ AnswerClass(answer') = "failed"
    BY <1>0, <1>6, <2>1 DEF fate, Judged, Answer, AnswerClass
  <2> QED BY <1>0, <2>1, <2>2 DEF Request!Told, Request!Recorded
<1> QED BY <1>0, <1>3, <1>4, <1>5, <1>6

LEMMA OutcomeIsTold ==
  ASSUME ApplyInv, ContractInv, RecordOutcome \/ OutcomeRefused
  PROVE  Request!Told(AnswerClass(answer))'
<1>0. /\ phase = "outcome" /\ phase' = "unwind" /\ op = "tracked"
      /\ UNCHANGED <<proc, placed, report, op>>
      /\ primary \in Kinds \ {"none"} /\ answer = Answer(primary) /\ refused = "none"
      /\ report.status \in {"created", "failed"} /\ ledger = "attempted"
  BY DEF RecordOutcome, OutcomeRefused, To, publicationVars, endVars, vars, treeVars, Tracked,
     ApplyInv, PublicationInv, PublicationTypeOK, ContractInv, PrimaryFollows, RefusalFollows
<1>1. placed # "nothing" <=> report.status = "created"
  BY <1>0 DEF ApplyInv, PublicationInv, ReportIsTrue
<1>2. CASE RecordOutcome /\ primary = "zero"
  <2>1. /\ ledger' = "succeeded" /\ fate' = "ok"
        /\ AnswerClass(answer') = IF report.status = "created" THEN "success" ELSE "unpublished"
    BY <1>0, <1>2 DEF RecordOutcome, fate, Judged, Answer, AnswerClass, Successes
  <2>2. Request!Done'
    BY <1>0, <2>1 DEF Request!Done, Request!Recorded, Request!Packages
  <2> QED BY <1>0, <1>1, <2>1, <2>2 DEF Request!Told
<1>3. CASE RecordOutcome /\ primary # "zero"
  <2>1. ledger' = "failed" /\ fate' = "failed" /\ AnswerClass(answer') = "failed"
    BY <1>0, <1>3 DEF RecordOutcome, fate, Judged, Answer, AnswerClass, Successes, Kinds
  <2> QED BY <1>0, <2>1 DEF Request!Told, Request!Recorded
<1>4. CASE OutcomeRefused
  <2>1. /\ ledger' = "attempted" /\ fate' \in {"ok", "failed"}
        /\ AnswerClass(answer') = "unrecorded"
    BY <1>0, <1>4 DEF OutcomeRefused, fate, Judged, Answer, AnswerClass, Successes, Kinds
  <2> QED BY <2>1 DEF Request!Told
<1> QED BY <1>2, <1>3, <1>4

(* ... from there to the answer, ... *)
LEMMA AfterFollows ==
  ASSUME ApplyInv, ContractInv,
         BundleBegins \/ BundleLocks \/ Publish \/ Published \/ RecordOutcome \/ OutcomeRefused
         \/ Unlock \/ LetGo
  PROVE  ContractInv'
<1> USE DEF ContractInv, PrimaryFollows, RefusalFollows, RecordFollows, NothingRan, LockToTheEnd,
   AnswerFollows, Tracked, Early, To, Kinds, Request!Packages
<1>1. CASE BundleBegins
  BY <1>1 DEF BundleBegins, Begin, NoRunDirectory, Fails, Publishing, vars, treeVars
<1>2. CASE BundleLocks
  BY <1>2 DEF BundleLocks, publicationVars, vars, treeVars, endVars
<1>3. CASE Publish
  <2>1. /\ UNCHANGED <<proc, op, phase, ledger, primary, refused, answer>>
        /\ phase = "publish" /\ LockKept
    BY <1>3 DEF Publish, vars, treeVars
  <2>2. step' \in Publishing => step \in Publishing \/ lock = "us"
    BY <1>3 DEF Publish, CaptureResult, Begin, NoRunDirectory, Publication, CaptureFails, Open,
       OpenFails, WriteBundle, WriteFails, Retry, Verify, Pin, PinLost, NothingToPin, Reread,
       ChecksFail, Replace, ReplaceFails, Created, Rescue, Fail, Go, Publishing
  <2>3. step' \in Publishing => lock' = "us"
    BY <2>1, <2>2 DEF LockKept, Publishing
  <2> QED BY <2>1, <2>3 DEF LockKept
<1>4. CASE Published
  <2>1. /\ UNCHANGED <<proc, step, report, op, lock, ledger, primary, refused>>
        /\ phase = "publish" /\ phase' \in {"outcome", "unwind"}
        /\ phase' = "outcome" => op = "tracked" /\ primary \in Kinds
        /\ answer' = Answer(primary) /\ report.status # "none"
    BY <1>4 DEF Published, publicationVars, endVars, vars, treeVars
  <2>2. answer' # "none" /\ answer' = Answer(primary)'
    BY <2>1 DEF Answer, Successes
  <2> QED BY <1>4, <2>1, <2>2, AnswerIsTold
<1>5. CASE RecordOutcome
  <2>1. Request!Told(AnswerClass(answer))'
    BY <1>5, OutcomeIsTold
  <2> QED BY <1>5, <2>1 DEF RecordOutcome, publicationVars, endVars, vars, treeVars
<1>6. CASE OutcomeRefused
  <2>1. Request!Told(AnswerClass(answer))'
    BY <1>6, OutcomeIsTold
  <2>2. answer' = "ledger_error"
    BY <1>6 DEF OutcomeRefused, Answer, Successes
  <2> QED BY <1>6, <2>1, <2>2 DEF OutcomeRefused, publicationVars, endVars, vars, treeVars
<1>7. CASE Unlock
  <2>1. /\ UNCHANGED <<proc, placed, report, step, op, ledger, primary, refused, answer>>
        /\ phase = "unwind" /\ phase' = "release" /\ lock' # "us"
    BY <1>7 DEF Unlock, publicationVars, endVars, vars, treeVars
  <2>2. fate' = fate /\ group' = group
    BY <2>1, GroupRests DEF fate, Judged
  <2>3. Request!Told(AnswerClass(answer))'
    BY <2>1, <2>2 DEF Request!Told, Request!Done, Request!Recorded
  <2> QED BY <2>1, <2>3
<1>8. CASE LetGo
  BY <1>8 DEF LetGo, Release, vars, treeVars
<1> QED BY <1>1, <1>2, <1>3, <1>4, <1>5, <1>6, <1>7, <1>8

(* ... and in spite of what is not up to PatchHarbor. *)
LEMMA OutsideFollows ==
  ASSUME ApplyInv, ContractInv, CtrlC \/ Killed \/ DirectoryChanges \/ LockMoves
  PROVE  ContractInv'
<1> USE DEF ContractInv, PrimaryFollows, RefusalFollows, RecordFollows, NothingRan, LockToTheEnd,
   AnswerFollows, Tracked, Early, To, Kinds, Request!Packages
<1>1. CASE CtrlC
  <2>1. /\ UNCHANGED <<proc, op, lock, ledger, primary, refused>>
        /\ phase \in {"resolve", "locked", "recheck", "write", "unwritten", "outcome", "publish"}
        /\ phase' = "unwind" /\ answer' = "raised"
    BY <1>1 DEF CtrlC, treeVars
  <2>2. fate' = "lost" => ledger \in {"none", "attempted"}
    BY <2>1 DEF fate, Judged
  <2>3. Request!Told(AnswerClass(answer))'
    BY <2>1, <2>2 DEF Request!Told, AnswerClass
  <2> QED BY <2>1, <2>3
<1>2. CASE Killed
  BY <1>2 DEF Killed, publicationVars, treeVars, endVars
<1>3. CASE DirectoryChanges
  <2>1. UNCHANGED <<proc, step, report, placed, flowVars>>
    BY <1>3 DEF DirectoryChanges, Others, FinalArrives, FinalTaken, TempTaken, TempSwapped,
       TempSpoiled, Undisturbed, endVars, vars, treeVars
  <2>2. fate' = fate /\ group' = group
    BY <2>1, GroupRests DEF fate, Judged, flowVars
  <2>3. Request!Told(AnswerClass(answer)) => Request!Told(AnswerClass(answer))'
    BY <2>1, <2>2 DEF Request!Told, Request!Done, Request!Recorded, flowVars
  <2> QED BY <2>1, <2>3 DEF flowVars, Answer
<1>4. CASE LockMoves
  BY <1>4 DEF LockMoves, publicationVars, vars, treeVars, endVars
<1> QED BY <1>1, <1>2, <1>3, <1>4

LEMMA ContractRests == ASSUME ApplyInv, ContractInv, UNCHANGED runVars PROVE ContractInv'
<1>1. UNCHANGED <<proc, step, report, placed, flowVars>>
  BY DEF runVars, vars, treeVars, publicationVars, endVars
<1>2. fate' = fate /\ group' = group
  BY <1>1, GroupRests DEF fate, Judged, flowVars
<1>3. Request!Told(AnswerClass(answer)) => Request!Told(AnswerClass(answer))'
  BY <1>1, <1>2 DEF Request!Told, Request!Done, Request!Recorded, flowVars
<1> QED BY <1>1, <1>3 DEF ContractInv, PrimaryFollows, RefusalFollows, RecordFollows, NothingRan,
           LockToTheEnd, AnswerFollows, Tracked, Answer, flowVars

LEMMA ContractFollows == ApplySpec => []ContractInv
<1>1. ApplyInv /\ ContractInv /\ [ApplyNext]_runVars => ContractInv'
  BY BeforeFollows, RunFollows, AfterFollows, OutsideFollows, ContractRests DEF ApplyNext, Ours
<1> QED BY ContractStarts, <1>1, RequestInvariant, PTL DEF ApplySpec

(* The caller hears of success only if entrypoint, log, Result and ledger   *)
(* all say so; and the ledger says so only of a run that really ended well, *)
(* even if the answer is lost.                                              *)
THEOREM SuccessIsReal == ApplySpec => []SuccessIsEarned
<1>1. ApplyInv /\ ContractInv => SuccessIsEarned
  BY DEF ApplyInv, FlowInv, FlowTypeOK, AnswerIsEarned, LedgerFollows, PrimaryIsTrue, ContractInv,
     RecordFollows, Tracked, Successes, SuccessIsEarned
<1> QED BY RequestInvariant, ContractFollows, <1>1, PTL

-----------------------------------------------------------------------------
(* Each step of the request is one step of its contract, or none.           *)

RequestSimulated == [Request!Next]_(Request!vars)

LEMMA RequestStutters ==
  ASSUME UNCHANGED <<op, group, fate, ledger, told>>,
         (phase' # "dead") = (phase # "dead"), (lock' = "us") = (lock = "us"),
         (placed' # "nothing") = (placed # "nothing")
  PROVE  RequestSimulated
BY DEF RequestSimulated, Request!vars

LEMMA BeforeSimulated ==
  ASSUME ApplyInv, ContractInv,
         Resolve \/ Unresolvable \/ LockRepository \/ NotResolved \/ Preflight \/ ChecksRefuse
         \/ PassGate \/ WritePayload \/ PayloadFails \/ RecordPayloadFailure
         \/ PayloadOutcomeRefused
  PROVE  RequestSimulated
<1>0. /\ UNCHANGED <<proc, op, placed>> /\ group' = group
      /\ phase \in Early \cup {"unwritten"}
      /\ placed = "nothing" /\ proc["root"] = "none" /\ group = "none" /\ answer = "none"
      /\ phase \notin {"idle", "resolve"} => lock = "us"
      /\ phase # "unwritten" => primary = "none"
      /\ phase = "unwritten" => primary = "write_failure"
      /\ refused = "none" /\ told = "none" /\ phase # "dead"
      /\ phase \in {"idle", "resolve", "locked", "recheck"} => ledger = "none"
      /\ phase \in {"write", "unwritten"} =>
           ledger = IF op = "tracked" THEN "attempted" ELSE "none"
  <2>1. UNCHANGED <<proc, op, placed>> /\ phase \in Early \cup {"unwritten"}
    BY DEF Resolve, Unresolvable, LockRepository, NotResolved, Preflight, ChecksRefuse, PassGate,
       WritePayload, PayloadFails, RecordPayloadFailure, PayloadOutcomeRefused, Reserve,
       ReserveFails, Fails, To, publicationVars, endVars, vars, treeVars, Early
  <2>2. phase # "idle" => step = "reserved"
    BY <2>1 DEF ApplyInv, FlowInv, LockIsHeld, Early
  <2>3. placed = "nothing"
    BY <2>1, <2>2 DEF ApplyInv, PublicationInv, PlacedLate, Resolve, Unresolvable, Reserve,
       ReserveFails, LockRepository, NotResolved, Preflight, ChecksRefuse, PassGate, WritePayload,
       PayloadFails, RecordPayloadFailure, PayloadOutcomeRefused
  <2>4. proc["root"] = "none" /\ group = "none" /\ group' = group
    BY <2>1, GroupRests DEF ContractInv, NothingRan, ApplyInv, EntrypointInv, Rooted, group,
       Processes, Group
  <2> QED BY <2>1, <2>3, <2>4 DEF ApplyInv, FlowInv, LockIsHeld, LedgerFollows, AnswerIsEarned,
             ContractInv, PrimaryFollows, RefusalFollows, RecordFollows, Tracked, Early, told
<1> USE <1>0 DEF To, Early
<1>1. CASE Resolve \/ WritePayload
  BY <1>1, RequestStutters DEF Resolve, WritePayload, Reserve, fate, Judged, told
<1>2. CASE Unresolvable
  <2>1. /\ fate = "none" /\ fate' = "none" /\ told' = "refused" /\ phase' = "over"
        /\ UNCHANGED <<ledger, lock>> /\ ledger = "none" /\ lock # "us"
    BY <1>2 DEF Unresolvable, fate, Judged, told, AnswerClass, ContractInv, LockToTheEnd
  <2>2. Request!Tell("refused")
    BY <2>1 DEF Request!Tell, Request!Working, Request!Quiet, Request!Told
  <2> QED BY <2>2 DEF RequestSimulated, Request!Next, Request!Answers
<1>3. CASE LockRepository
  <2>1. /\ fate = "none" /\ fate' = "none" /\ told' = "none" /\ phase' = "locked"
        /\ UNCHANGED ledger /\ lock = "free" /\ lock' = "us"
    BY <1>3 DEF LockRepository, fate, Judged, told
  <2>2. Request!Lock
    BY <2>1 DEF Request!Lock, Request!Working
  <2> QED BY <2>2 DEF RequestSimulated, Request!Next
<1>4. CASE NotResolved \/ Preflight \/ ChecksRefuse
  <2>1. fate = "none" /\ fate' = "none" /\ told' = "none" /\ phase' # "dead"
    BY <1>4 DEF NotResolved, Preflight, ChecksRefuse, Fails, fate, Judged, told
  <2> QED BY <1>4, <2>1, RequestStutters DEF NotResolved, Preflight, ChecksRefuse, Fails
<1>5. CASE PassGate
  <2>1. /\ fate = "none" /\ fate' = "open" /\ told' = "none" /\ phase' = "write"
        /\ UNCHANGED lock /\ lock = "us" /\ ledger = "none" /\ op \in Request!Packages
        /\ ledger' = IF op = "tracked" THEN "attempted" ELSE ledger
    BY <1>5 DEF PassGate, fate, Judged, told, ContractInv, PrimaryFollows
  <2>2. Request!Attempt
    BY <2>1 DEF Request!Attempt, Request!Working
  <2> QED BY <2>2 DEF RequestSimulated, Request!Next
<1>6. CASE PayloadFails
  <2>1. /\ fate = "open" /\ fate' = "failed" /\ told' = "none" /\ phase' = "unwritten"
        /\ UNCHANGED <<lock, ledger>> /\ lock = "us"
    BY <1>6 DEF PayloadFails, fate, Judged, told
  <2>2. Request!Settle
    BY <2>1 DEF Request!Settle, Request!Working, Request!Quiet
  <2> QED BY <2>2 DEF RequestSimulated, Request!Next
<1>7. CASE RecordPayloadFailure
  <2>1. /\ fate = "failed" /\ fate' = "failed" /\ told' = "none" /\ phase' = "publish"
        /\ UNCHANGED lock /\ lock = "us"
        /\ ledger' = IF op = "tracked" THEN "failed" ELSE ledger
    BY <1>7 DEF RecordPayloadFailure, fate, Judged, told
  <2>2. CASE op = "tracked"
    <3>1. Request!Record
      BY <1>7, <2>1, <2>2 DEF RecordPayloadFailure, Request!Record, Request!Working
    <3> QED BY <3>1 DEF RequestSimulated, Request!Next
  <2> QED BY <2>1, <2>2, RequestStutters
<1>8. CASE PayloadOutcomeRefused
  BY <1>8, RequestStutters DEF PayloadOutcomeRefused, Fails, fate, Judged, told
<1> QED BY <1>1, <1>2, <1>3, <1>4, <1>5, <1>6, <1>7, <1>8

LEMMA RunSimulated ==
  ASSUME ApplyInv, ContractInv,
         Execute \/ ExecuteInterrupted \/ EntrypointRuns \/ Executed \/ ExecuteRaised
  PROVE  RequestSimulated
<1>1. CASE Execute \/ ExecuteInterrupted \/ EntrypointRuns
  <2>1. UNCHANGED <<phase, lock, placed, op, ledger, fate, told>>
    BY <1>1 DEF Execute, ExecuteInterrupted, EntrypointRuns, flowVars, publicationVars, endVars,
       fate, Judged, told
  <2>2. CASE group' = group
    BY <2>1, <2>2, RequestStutters
  <2>3. CASE group = "busy" /\ group' = "over"
    <3>1. Request!Stop
      BY <2>1, <2>3 DEF Request!Stop
    <3> QED BY <3>1 DEF RequestSimulated, Request!Next
  <2>4. CASE group = "none" /\ group' = "busy" /\ phase = "run"
    <3>1. fate = "open" /\ told = "none" /\ lock = "us"
      BY <2>4 DEF fate, told, ApplyInv, FlowInv, LockIsHeld
    <3>2. Request!Start
      BY <2>1, <2>4, <3>1 DEF Request!Start, Request!Working
    <3> QED BY <3>2 DEF RequestSimulated, Request!Next
  <2> QED BY <1>1, <2>2, <2>3, <2>4, GroupMoves
<1>2. CASE Executed \/ ExecuteRaised
  <2>1. /\ phase = "run" /\ lock = "us" /\ pc \in Leaving
        /\ UNCHANGED <<proc, lock, placed, op, ledger, refused>>
        /\ refused = "none" /\ primary = "none"
        /\ fate = "open" /\ told = "none"
    BY <1>2 DEF Executed, ExecuteRaised, Leaving, Fails, To, publicationVars, endVars, treeVars,
       ApplyInv, FlowInv, LockIsHeld, ContractInv, PrimaryFollows, RefusalFollows, fate, told
  <2>2. group' = group /\ group # "busy"
    BY <2>1, GroupRests DEF ApplyInv, EntrypointInv, Awaited, IInv, Harmless, group
  <2>3. CASE Executed
    <3>1. phase' = "publish" /\ primary' = result.kind /\ result.kind \in Kinds \ {"none"}
      BY <2>1, <2>3 DEF Executed, Fails, To, ApplyInv, EntrypointInv, Awaited, IInv, TypeOK,
         SettledLate
    <3>2. fate' = (IF result.kind = "zero" THEN "ok" ELSE "failed") /\ told' = "none"
      BY <2>1, <3>1 DEF fate, Judged, told, Kinds
    <3>3. result.kind = "zero" => group = "over"
      <4>1. result.kind = "zero" => proc["root"] = "gone"
        BY <2>1 DEF ApplyInv, EntrypointInv, Awaited, IInv, SettledLate, RootWatched
      <4> QED BY <2>2, <4>1 DEF group
    <3>4. Request!Settle
      BY <2>1, <2>2, <3>1, <3>2, <3>3 DEF Request!Settle, Request!Working, Request!Quiet
    <3> QED BY <3>4 DEF RequestSimulated, Request!Next
  <2>4. CASE ExecuteRaised
    <3>1. phase' = "unwind" /\ primary' = "none" /\ answer' = "raised"
      BY <2>1, <2>4 DEF ExecuteRaised, To
    <3>2. fate' = "lost" /\ told' = "none"
      BY <2>1, <3>1 DEF fate, Judged, told
    <3>3. Request!GiveUp
      BY <2>1, <2>2, <3>1, <3>2 DEF Request!GiveUp, Request!Working, Request!Quiet
    <3> QED BY <3>3 DEF RequestSimulated, Request!Next
  <2> QED BY <1>2, <2>3, <2>4
<1> QED BY <1>1, <1>2

\* What a request has behind it when its Result is made and while it ends.
LEMMA OutcomeIsKnown ==
  ASSUME ApplyInv, ContractInv, phase \in {"publish", "outcome", "unwind", "release"}
  PROVE  /\ group # "busy" /\ told = "none" /\ fate # "open"
         /\ phase \in {"publish", "outcome"} =>
              Judged # "none" /\ fate \in {"none", "ok", "failed"}
<1>1. group # "busy"
  BY DEF group, ApplyInv, EntrypointInv, GroupIsOver
<1>2. phase \in {"publish", "outcome"} => Judged # "none"
  BY DEF Judged, ContractInv, PrimaryFollows
<1> QED BY <1>1, <1>2 DEF told, fate

(* The Result is placed in one step, which for a manual bundle gives the     *)
(* lock back, too.                                                          *)
LEMMA PublishSimulated == ASSUME ApplyInv, ContractInv, Publish PROVE RequestSimulated
<1>1. /\ phase = "publish" /\ phase' = phase /\ LockKept
      /\ UNCHANGED <<op, fate, group, ledger, told>>
  BY GroupRests DEF Publish, vars, treeVars, fate, Judged, told
<1>2. /\ group # "busy" /\ told = "none" /\ fate \in {"none", "ok", "failed"}
  BY <1>1, OutcomeIsKnown
<1>3. CASE Replace
  <2>1. lock = "us" /\ placed = "nothing" /\ placed' # "nothing" /\ step' = "cleanup"
    BY <1>1, <1>3 DEF Replace, ContractInv, LockToTheEnd, Publishing, ApplyInv, PublicationInv,
       PlacedLate, PublicationTypeOK, NoFile, Our, Contents
  <2>2. (lock' = "us") = (op # "bundle")
    BY <1>1, <2>1 DEF LockKept
  <2>3. group = "over" => ledger \in {"none", "attempted"}
    BY <1>1 DEF ContractInv, RecordFollows, NothingRan, Tracked, Kinds, group
  <2>4. Request!Place
    BY <1>1, <1>2, <2>1, <2>2, <2>3 DEF Request!Place, Request!Working, Request!Quiet
  <2> QED BY <2>4 DEF RequestSimulated, Request!Next
<1>4. CASE ~Replace
  <2>1. placed' = placed
    BY <1>4 DEF Publish, CaptureResult, Begin, NoRunDirectory, Capture, Publication, CaptureFails,
       Open, OpenFails, WriteBundle, WriteFails, Retry, Verify, Pin, PinLost, NothingToPin, Reread,
       ChecksFail, ReplaceFails, Created, Rescue, Fail, Go, endVars
  <2>2. CASE lock' = lock
    BY <1>1, <2>1, <2>2, RequestStutters
  <2>3. CASE lock = "us" /\ lock' = "free"
    <3>1. Request!Unlock
      BY <1>1, <1>2, <2>1, <2>3 DEF Request!Unlock, Request!Working, Request!Quiet
    <3> QED BY <3>1 DEF RequestSimulated, Request!Next
  <2> QED BY <1>1, <2>2, <2>3 DEF LockKept
<1> QED BY <1>3, <1>4

LEMMA AfterSimulated ==
  ASSUME ApplyInv, ContractInv,
         BundleBegins \/ BundleLocks \/ Published \/ RecordOutcome \/ OutcomeRefused
         \/ Unlock \/ LetGo
  PROVE  RequestSimulated
<1>0. UNCHANGED <<op, group, placed>>
  BY GroupRests DEF BundleBegins, BundleLocks, Published, RecordOutcome, OutcomeRefused, Unlock,
     LetGo, Begin, NoRunDirectory, Release, publicationVars, endVars, vars, treeVars
<1>1. CASE BundleBegins
  <2>1. refused = "none" /\ primary = "none" /\ answer = "none"
    BY <1>1 DEF BundleBegins, ContractInv, PrimaryFollows, RefusalFollows, Early, ApplyInv, FlowInv,
       AnswerIsEarned
  <2>2. fate = "none" /\ fate' = "none" /\ told = "none" /\ told' = "none"
    BY <1>1, <2>1 DEF BundleBegins, Fails, To, fate, Judged, told
  <2> QED BY <1>0, <1>1, <2>2, RequestStutters DEF BundleBegins, Fails, To
<1>2. CASE BundleLocks
  <2>1. /\ phase = "publish" /\ op = "bundle" /\ step = "capture" /\ lock = "free" /\ lock' = "us"
        /\ UNCHANGED <<phase, ledger, primary, refused, answer>>
    BY <1>2 DEF BundleLocks
  <2>2. placed = "nothing"
    BY <2>1 DEF ApplyInv, PublicationInv, PlacedLate
  <2>3. fate = "none" /\ fate' = "none" /\ told = "none" /\ told' = "none"
    BY <2>1 DEF fate, Judged, told, ContractInv, PrimaryFollows, RefusalFollows, Tracked,
       Request!Packages
  <2>4. Request!Lock
    BY <1>0, <2>1, <2>2, <2>3 DEF Request!Lock, Request!Working
  <2> QED BY <2>4 DEF RequestSimulated, Request!Next
<1>3. CASE Published
  <2>1. /\ phase = "publish" /\ phase' \in {"outcome", "unwind"}
        /\ UNCHANGED <<lock, ledger, primary, refused>>
    BY <1>3 DEF Published, To
  <2>2. fate' = fate /\ told = "none" /\ told' = "none"
    BY <2>1, OutcomeIsKnown DEF fate, Judged, told
  <2> QED BY <1>0, <2>1, <2>2, RequestStutters
<1>4. CASE RecordOutcome
  <2>1. /\ phase = "outcome" /\ phase' = "unwind" /\ lock = "us" /\ ledger = "attempted"
        /\ UNCHANGED <<lock, primary, refused, answer>>
        /\ ledger' = IF primary = "zero" THEN "succeeded" ELSE "failed"
        /\ refused = "none" /\ primary \in Kinds \ {"none"}
    BY <1>4 DEF RecordOutcome, To, ContractInv, PrimaryFollows, RefusalFollows, LockToTheEnd,
       Tracked
  <2>2. /\ fate = IF primary = "zero" THEN "ok" ELSE "failed"
        /\ fate' = fate /\ told = "none" /\ told' = "none"
    BY <2>1 DEF fate, Judged, told, Kinds
  <2>3. Request!Record
    BY <1>0, <2>1, <2>2 DEF Request!Record, Request!Working
  <2> QED BY <2>3 DEF RequestSimulated, Request!Next
<1>5. CASE OutcomeRefused
  <2>1. /\ phase = "outcome" /\ phase' = "unwind" /\ UNCHANGED <<lock, ledger>>
        /\ refused = "none" /\ refused' = primary /\ primary # "none"
    BY <1>5 DEF OutcomeRefused, To, ContractInv, PrimaryFollows, RefusalFollows
  <2>2. fate' = fate /\ told = "none" /\ told' = "none"
    BY <2>1 DEF fate, Judged, told
  <2> QED BY <1>0, <2>1, <2>2, RequestStutters
<1>6. CASE Unlock
  <2>1. /\ phase = "unwind" /\ phase' = "release" /\ UNCHANGED <<ledger, primary, refused, answer>>
        /\ lock' = IF lock = "us" THEN "free" ELSE lock
    BY <1>6 DEF Unlock, To
  <2>2. /\ group # "busy" /\ told = "none" /\ told' = "none" /\ fate # "open" /\ fate' = fate
    BY <2>1, OutcomeIsKnown DEF fate, Judged, told
  <2>3. CASE lock = "us"
    <3>1. Request!Unlock
      BY <1>0, <2>1, <2>2, <2>3 DEF Request!Unlock, Request!Working, Request!Quiet
    <3> QED BY <3>1 DEF RequestSimulated, Request!Next
  <2> QED BY <1>0, <2>1, <2>2, <2>3, RequestStutters
<1>7. CASE LetGo
  <2>1. /\ phase = "release" /\ phase' = "over"
        /\ UNCHANGED <<lock, ledger, primary, refused, answer>>
    BY <1>7 DEF LetGo, To
  <2>2. /\ group # "busy" /\ told = "none" /\ fate # "open" /\ fate' = fate
        /\ told' = AnswerClass(answer) /\ lock # "us" /\ answer # "none"
        /\ Request!Told(AnswerClass(answer))
    BY <2>1, OutcomeIsKnown DEF fate, Judged, told, AnswerClass, ContractInv, LockToTheEnd,
       AnswerFollows
  <2>3. AnswerClass(answer) \in Request!Answers
    BY <2>2 DEF AnswerClass, Request!Answers, ApplyInv, FlowInv, FlowTypeOK, Failures
  <2>4. Request!Tell(AnswerClass(answer))
    BY <1>0, <2>1, <2>2 DEF Request!Tell, Request!Working, Request!Quiet
  <2> QED BY <2>3, <2>4 DEF RequestSimulated, Request!Next
<1> QED BY <1>1, <1>2, <1>3, <1>4, <1>5, <1>6, <1>7

LEMMA OutsideSimulated ==
  ASSUME ApplyInv, ContractInv, CtrlC \/ Killed \/ DirectoryChanges \/ LockMoves
  PROVE  RequestSimulated
<1>0. UNCHANGED <<op, group, placed, ledger, primary, refused>>
  BY GroupRests DEF CtrlC, Killed, DirectoryChanges, LockMoves, Cancel, Others, FinalArrives,
     FinalTaken, TempTaken, TempSwapped, TempSpoiled, Undisturbed, flowVars, publicationVars,
     endVars, vars, treeVars
<1>1. CASE CtrlC /\ phase \in {"resolve", "locked", "recheck", "write"}
  <2>1. /\ phase' = "unwind" /\ answer' = "raised" /\ UNCHANGED lock
        /\ primary = "none" /\ refused = "none" /\ answer = "none" /\ proc["root"] = "none"
    BY <1>1 DEF CtrlC, To, ContractInv, PrimaryFollows, RefusalFollows, NothingRan, Early, ApplyInv,
       FlowInv, AnswerIsEarned
  <2>2. /\ fate \in {"none", "open"} /\ fate' = "lost" /\ told = "none" /\ told' = "none"
    BY <1>0, <1>1, <2>1 DEF fate, Judged, told
  <2>3. group # "busy"
    BY <2>1 DEF group, ApplyInv, EntrypointInv, Rooted, Processes, Group
  <2>4. Request!GiveUp
    BY <1>0, <1>1, <2>1, <2>2, <2>3 DEF Request!GiveUp, Request!Working, Request!Quiet
  <2> QED BY <2>4 DEF RequestSimulated, Request!Next
<1>2. CASE CtrlC /\ phase \in {"unwritten", "outcome", "publish"}
  <2>1. phase' = "unwind" /\ UNCHANGED lock
    BY <1>2 DEF CtrlC, To
  <2>2. Judged # "none"
    BY <1>2 DEF Judged, ContractInv, PrimaryFollows
  <2>3. fate' = fate /\ told = "none" /\ told' = "none"
    BY <1>0, <1>2, <2>1, <2>2 DEF fate, Judged, told
  <2> QED BY <1>0, <1>2, <2>1, <2>3, RequestStutters
<1>3. CASE Killed
  <2>1. /\ phase \notin {"over", "dead"} /\ phase' = "dead" /\ lock' # "us" /\ UNCHANGED answer
    BY <1>3 DEF Killed, To
  <2>2. /\ told = "none" /\ told' = "none"
        /\ fate' \in CASE fate = "open" -> {"lost"} [] fate = "none" -> {"none", "lost"}
                       [] OTHER -> {fate}
    <3>1. phase \in {"write", "run"} => primary = "none" /\ refused = "none"
      BY DEF ContractInv, PrimaryFollows, RefusalFollows, Early
    <3> QED BY <1>0, <2>1, <3>1 DEF fate, Judged, told
  <2>3. Request!Die
    BY <1>0, <2>1, <2>2 DEF Request!Die, Request!Working
  <2> QED BY <2>3 DEF RequestSimulated, Request!Next
<1>4. CASE DirectoryChanges \/ LockMoves
  <2>1. UNCHANGED <<phase, answer>> /\ (lock' = "us") = (lock = "us")
    BY <1>4 DEF DirectoryChanges, LockMoves, flowVars
  <2> QED BY <1>0, <2>1, RequestStutters DEF fate, Judged, told
<1> QED BY <1>1, <1>2, <1>3, <1>4 DEF CtrlC

(* ApplyRun implements RequestContract: lock, attempt, record, Result and    *)
(* answer come in the order and with the meaning the contract gives them,    *)
(* whatever user, entrypoint, others in the directory and SIGKILL do.        *)
THEOREM RequestIsKept == ApplySpec => KeepsRequestContract
<1>1. ApplyInit => Request!Init
  BY DEF ApplyInit, PublicationInit, Init, Request!Init, Request!Packages, group, fate, Judged, told,
     Processes, Group
<1>2. ApplyInv /\ ContractInv /\ [ApplyNext]_runVars => [Request!Next]_(Request!vars)
  <2>1. ASSUME UNCHANGED runVars PROVE RequestSimulated
    <3>1. UNCHANGED <<proc, placed, flowVars>>
      BY <2>1 DEF runVars, vars, treeVars, publicationVars, endVars
    <3> QED BY <3>1, GroupRests, RequestStutters DEF flowVars, fate, Judged, told
  <2> QED BY <2>1, BeforeSimulated, RunSimulated, PublishSimulated, AfterSimulated, OutsideSimulated
             DEF ApplyNext, Ours, RequestSimulated
<1> QED BY <1>1, <1>2, RequestInvariant, ContractFollows, PTL
       DEF ApplySpec, KeepsRequestContract, Request!Spec

-----------------------------------------------------------------------------
(* The contract of a request implies that of the ledger, for its package:    *)
(* what follows is about the steps of RequestContract alone.                *)

PackageInv ==
  /\ ledger # "none" => op = "tracked" /\ fate # "none"
  /\ op = "tracked" /\ fate = "open" => ledger = "attempted"
  /\ ledger \in {"none", "attempted", "succeeded", "failed"}
  /\ ledger \in {"succeeded", "failed"} => fate \in {"ok", "failed"}

LEMMA PackageStarts == Request!Init => PackageInv
BY DEF Request!Init, PackageInv

LEMMA PackageFollows == ASSUME PackageInv, RequestSimulated PROVE PackageInv'
<1> USE DEF PackageInv
<1>1. CASE Request!Lock \/ Request!Attempt \/ Request!Start \/ Request!Stop
  BY <1>1 DEF Request!Lock, Request!Attempt, Request!Start, Request!Stop, Request!Packages
<1>2. CASE Request!Settle \/ Request!Place \/ Request!Record
  BY <1>2 DEF Request!Settle, Request!Place, Request!Record
<1>3. CASE Request!GiveUp \/ Request!Unlock \/ Request!Die
  BY <1>3 DEF Request!GiveUp, Request!Unlock, Request!Die
<1>4. CASE UNCHANGED Request!vars \/ \E class \in Request!Answers : Request!Tell(class)
  BY <1>4 DEF Request!vars, Request!Tell
<1> QED BY <1>1, <1>2, <1>3, <1>4 DEF RequestSimulated, Request!Next

\* The package as the contract of the ledger sees it.
Status == CASE ledger = "none" -> "fresh"
            [] ledger = "attempted" -> IF lock = "us" THEN "running" ELSE "lost"
            [] OTHER -> ledger
Truth == IF ledger = "none" THEN "none"
         ELSE CASE fate = "ok" -> "ok" [] fate = "failed" -> "fail" [] OTHER -> "open"

ReplaySimulated == [Replay!Next]_(Replay!vars)

LEMMA OnePackage ==
  /\ status = [x \in {"package"} |-> Status] /\ truth = [x \in {"package"} |-> Truth]
  /\ status' = [x \in {"package"} |-> Status'] /\ truth' = [x \in {"package"} |-> Truth']
  /\ status["package"] = Status /\ truth["package"] = Truth
  /\ [status EXCEPT !["package"] = Status'] = status'
  /\ [truth EXCEPT !["package"] = Truth'] = truth'
  /\ Status' = Status => status' = status
  /\ Truth' = Truth => truth' = truth
BY DEF status, truth, Status, Truth

LEMMA ReplayStutters == ASSUME Status' = Status, Truth' = Truth PROVE ReplaySimulated
BY OnePackage DEF ReplaySimulated, Replay!vars

LEMMA RequestReplays == ASSUME PackageInv, RequestSimulated PROVE ReplaySimulated
<1> USE DEF PackageInv
<1>1. CASE Request!Attempt
  <2>1. CASE op = "tracked"
    <3>1. Status = "fresh" /\ Status' = "running" /\ Truth' = "open"
      BY <1>1, <2>1 DEF Request!Attempt, Status, Truth
    <3>2. Replay!Begin("package")
      BY <3>1, OnePackage DEF Replay!Begin
    <3> QED BY <3>2 DEF ReplaySimulated, Replay!Next
  <2>2. CASE op # "tracked"
    BY <1>1, <2>2, ReplayStutters DEF Request!Attempt, Status, Truth
  <2> QED BY <2>1, <2>2
<1>2. CASE Request!Settle
  <2>1. CASE op = "tracked"
    <3>1. /\ Status = "running" /\ Status' = Status /\ Truth = "open"
          /\ Truth' \in {"ok", "fail"}
      BY <1>2, <2>1 DEF Request!Settle, Status, Truth
    <3>2. Replay!Execute("package")
      BY <3>1, OnePackage DEF Replay!Execute
    <3> QED BY <3>2 DEF ReplaySimulated, Replay!Next
  <2>2. CASE op # "tracked"
    BY <1>2, <2>2, ReplayStutters DEF Request!Settle, Status, Truth
  <2> QED BY <2>1, <2>2
<1>3. CASE Request!Record
  <2>1. /\ Status = "running" /\ Truth \in {"ok", "fail"} /\ Truth' = Truth
        /\ Status' = IF Truth = "ok" THEN "succeeded" ELSE "failed"
    BY <1>3 DEF Request!Record, Status, Truth
  <2>2. Replay!End("package")
    BY <2>1, OnePackage DEF Replay!End
  <2> QED BY <2>2 DEF ReplaySimulated, Replay!Next
<1>4. CASE Request!Unlock \/ Request!Die
  <2>1. CASE Status = "running"
    <3>1. Status' = "lost" /\ Truth' = Truth
      BY <1>4, <2>1 DEF Request!Unlock, Request!Die, Status, Truth
    <3>2. Replay!Lose("package")
      BY <2>1, <3>1, OnePackage DEF Replay!Lose
    <3> QED BY <3>2 DEF ReplaySimulated, Replay!Next
  <2>2. CASE Status # "running"
    <3>1. Status' = Status /\ Truth' = Truth
      BY <1>4, <2>2 DEF Request!Unlock, Request!Die, Status, Truth
    <3> QED BY <3>1, ReplayStutters
  <2> QED BY <2>1, <2>2
<1>5. CASE Request!Lock
  BY <1>5, ReplayStutters DEF Request!Lock, Status, Truth
<1>6. CASE Request!Start \/ Request!Stop \/ Request!GiveUp
  BY <1>6, ReplayStutters DEF Request!Start, Request!Stop, Request!GiveUp, Status, Truth
<1>7. CASE Request!Place
  BY <1>7, ReplayStutters DEF Request!Place, Status, Truth
<1>8. CASE UNCHANGED Request!vars \/ \E class \in Request!Answers : Request!Tell(class)
  BY <1>8, ReplayStutters DEF Request!vars, Request!Tell, Status, Truth
<1> QED BY <1>1, <1>2, <1>3, <1>4, <1>5, <1>6, <1>7, <1>8 DEF RequestSimulated, Request!Next

(* What keeps the contract of a request keeps that of the ledger.           *)
LEMMA RequestImpliesReplay == Request!Spec => Replay!Spec
<1>1. Request!Init => Replay!Init
  BY DEF Request!Init, Replay!Init, status, truth
<1>2. PackageInv /\ [Request!Next]_(Request!vars) => PackageInv'
  BY PackageFollows DEF RequestSimulated
<1>3. PackageInv /\ [Request!Next]_(Request!vars) => [Replay!Next]_(Replay!vars)
  BY RequestReplays DEF RequestSimulated, ReplaySimulated
<1> QED BY <1>1, <1>2, <1>3, PackageStarts, PTL DEF Request!Spec, Replay!Spec

(* A request is one of the runs the contract of the ledger speaks of: its    *)
(* package begins, executes and ends, or is lost, as ReplayContract says.   *)
THEOREM LedgerIsKept == ApplySpec => KeepsLedgerContract
BY RequestIsKept, RequestImpliesReplay DEF KeepsRequestContract, KeepsLedgerContract

-----------------------------------------------------------------------------
(* What is reported.  Every reason of a failure has a number of its own,    *)
(* which the reader of a Result can undo, ...                               *)
LEMMA ReasonsAreCoded ==
  \A r \in DOMAIN R!ExitOf : R!ExitOf[r] \in Int \ {0} /\ R!ReasonOf(R!ExitOf[r]) = r
<1>1. \A r \in DOMAIN R!ExitOf : R!ExitOf[r] \in Int \ {0}
  BY DEF R!ExitOf
<1>2. \A r, s \in DOMAIN R!ExitOf : R!ExitOf[r] = R!ExitOf[s] => r = s
  BY DEF R!ExitOf
<1> QED BY <1>1, <1>2 DEF R!ReasonOf

(* ... and a category the reader can tell from it.                          *)
Errors == GateErrors \cup R!Uncategorized({"timeout", "interrupted"})

LEMMA ErrorsAreKnown ==
  ASSUME NEW e \in Errors
  PROVE  /\ e = R!Error(e.reason, e.kind) /\ e # None
         /\ e.reason \in DOMAIN R!ExitOf /\ e.reason # None
         /\ R!KindOf(e) \in {R!KindOf(R!Error(e.reason, k)) : k \in {"tool_error", R!Category[e.reason]}}
         /\ R!KindOf(e) \notin {"success", "dry_run_success", "entrypoint_exit"}
         /\ e.reason \notin {"timeout", "interrupted"} =>
              R!KindOf(e) \notin {"timeout", "interrupted"}
<1>1. \/ \E name \in R!SameName : e = R!Error(name, name)
      \/ \E kind \in {"registry_error", "repository_resolution_error"} :
           e = R!Error("repository_error", kind)
      \/ \E kind \in {"configuration_error", "admission_rejected"} : e = R!Error("source_error", kind)
      \/ \E r \in {"source_error", "no_valid_script", "interpreter_error",
                   "payload_preparation_error", "execution_error", "timeout", "interrupted"} :
           e = R!Error(r, "tool_error")
  BY DEF Errors, GateErrors, R!Categorized, R!Uncategorized
<1>2. e = R!Error(e.reason, e.kind)
  BY <1>1 DEF R!Error
<1>3. e.reason \in DOMAIN R!ExitOf
  BY <1>1 DEF R!Error, R!ExitOf, R!SameName
<1>4. e # None /\ e.reason # None
  BY <1>3, NoneIsNothing DEF Errors
<1>5. \E k \in {"tool_error", R!Category[e.reason]} : R!KindOf(e) = R!KindOf(R!Error(e.reason, k))
  <2> USE DEF R!Error, R!KindOf, R!RepositoryKinds, R!ValidationReasons, R!Category, R!ExitOf
  <2>1. CASE e.reason = "repository_error" \/ e = R!Error(e.reason, R!Category[e.reason])
    BY <1>1, <2>1 DEF R!SameName
  <2>2. CASE e.reason # "repository_error" /\ e # R!Error(e.reason, R!Category[e.reason])
    BY <1>1, <2>2 DEF R!SameName
  <2> QED BY <2>1, <2>2
<1>6. /\ R!KindOf(e) \notin {"success", "dry_run_success", "entrypoint_exit"}
      /\ e.reason \notin {"timeout", "interrupted"} => R!KindOf(e) \notin {"timeout", "interrupted"}
  BY <1>1 DEF R!Error, R!KindOf, R!RepositoryKinds, R!ValidationReasons, R!SameName
<1> QED BY <1>2, <1>3, <1>4, <1>5, <1>6

\* A primary outcome, field by field.
Fields(kind, success, reason, started, number, timed_out, interrupted) ==
  [kind |-> kind, success |-> success, reason |-> reason, started |-> started, code |-> number,
   timed_out |-> timed_out, interrupted |-> interrupted]
Failure(e, started) == Fields(R!KindOf(e), FALSE, e.reason, started, None, FALSE, FALSE)

FieldNames == {"kind", "success", "reason", "started", "code", "timed_out", "interrupted"}

LEMMA PrimariesInFields ==
  /\ R!Success = Fields("success", TRUE, None, FALSE, None, FALSE, FALSE)
  /\ R!DryRunSuccess = Fields("dry_run_success", TRUE, None, FALSE, None, FALSE, FALSE)
  /\ R!EntrypointSuccess = Fields("success", TRUE, None, TRUE, 0, FALSE, FALSE)
  /\ \A n : R!EntrypointExit(n) = Fields("entrypoint_exit", FALSE, None, TRUE, n, FALSE, FALSE)
  /\ R!Timeout = Fields("timeout", FALSE, "timeout", TRUE, None, TRUE, FALSE)
  /\ R!Interrupted = Fields("interrupted", FALSE, "interrupted", TRUE, None, FALSE, TRUE)
  /\ \A e : R!ToolFailure(e) = Failure(e, FALSE)
  /\ \A e, started : [R!ToolFailure(e) EXCEPT !.started = started] = Failure(e, started)
<1> USE DEF R!Primary, Fields
<1>1. R!Success = Fields("success", TRUE, None, FALSE, None, FALSE, FALSE)
  BY DEF R!Success
<1>2. R!DryRunSuccess = Fields("dry_run_success", TRUE, None, FALSE, None, FALSE, FALSE)
  BY DEF R!DryRunSuccess
<1>3. R!EntrypointSuccess = Fields("success", TRUE, None, TRUE, 0, FALSE, FALSE)
  <2> DEFINE r == R!EntrypointSuccess
  <2>1. r = [field \in FieldNames |-> r[field]]
    BY DEF R!EntrypointSuccess, R!Success, FieldNames
  <2>2. /\ r.kind = "success" /\ r.success = TRUE /\ r.reason = None /\ r.started = TRUE
        /\ r.code = 0 /\ r.timed_out = FALSE /\ r.interrupted = FALSE
    BY DEF R!EntrypointSuccess, R!Success
  <2> QED BY <2>1, <2>2 DEF FieldNames
<1>4. \A n : R!EntrypointExit(n) = Fields("entrypoint_exit", FALSE, None, TRUE, n, FALSE, FALSE)
  <2> TAKE n
  <2> DEFINE r == R!EntrypointExit(n)
  <2>1. r = [field \in FieldNames |-> r[field]]
    BY DEF R!EntrypointExit, FieldNames
  <2>2. /\ r.kind = "entrypoint_exit" /\ r.success = FALSE /\ r.reason = None /\ r.started = TRUE
        /\ r.code = n /\ r.timed_out = FALSE /\ r.interrupted = FALSE
    BY DEF R!EntrypointExit
  <2> QED BY <2>1, <2>2 DEF FieldNames
<1>5. R!Timeout = Fields("timeout", FALSE, "timeout", TRUE, None, TRUE, FALSE)
  <2> DEFINE r == R!Timeout
  <2>1. r = [field \in FieldNames |-> r[field]]
    BY DEF R!Timeout, FieldNames
  <2>2. /\ r.kind = "timeout" /\ r.success = FALSE /\ r.reason = "timeout" /\ r.started = TRUE
        /\ r.code = None /\ r.timed_out = TRUE /\ r.interrupted = FALSE
    BY DEF R!Timeout
  <2> QED BY <2>1, <2>2 DEF FieldNames
<1>6. R!Interrupted = Fields("interrupted", FALSE, "interrupted", TRUE, None, FALSE, TRUE)
  <2> DEFINE r == R!Interrupted
  <2>1. r = [field \in FieldNames |-> r[field]]
    BY DEF R!Interrupted, FieldNames
  <2>2. /\ r.kind = "interrupted" /\ r.success = FALSE /\ r.reason = "interrupted" /\ r.started = TRUE
        /\ r.code = None /\ r.timed_out = FALSE /\ r.interrupted = TRUE
    BY DEF R!Interrupted
  <2> QED BY <2>1, <2>2 DEF FieldNames
<1>7. \A e : R!ToolFailure(e) = Failure(e, FALSE)
  BY DEF R!ToolFailure, Failure
<1>8. \A e, started : [R!ToolFailure(e) EXCEPT !.started = started] = Failure(e, started)
  <2> TAKE e, started
  <2> DEFINE r == [R!ToolFailure(e) EXCEPT !.started = started]
  <2>1. r = [field \in FieldNames |-> r[field]]
    BY DEF R!ToolFailure, Failure, FieldNames
  <2>2. /\ r.kind = R!KindOf(e) /\ r.success = FALSE /\ r.reason = e.reason /\ r.started = started
        /\ r.code = None /\ r.timed_out = FALSE /\ r.interrupted = FALSE
    BY DEF R!ToolFailure, Failure
  <2> HIDE DEF r
  <2>3. r = Failure(e, started)
    BY <2>1, <2>2 DEF FieldNames, Failure
  <2> QED BY <2>3 DEF r
<1> QED BY <1>1, <1>2, <1>3, <1>4, <1>5, <1>6, <1>7, <1>8

(* The reader gets back what the documents keep as a number.                *)
LEMMA ReadAsWritten ==
  ASSUME NEW p, p.reason \in DOMAIN R!ExitOf \cup {None},
         p = Fields(p.kind, p.success, p.reason, p.started, p.code, p.timed_out, p.interrupted)
  PROVE  R!ReadPrimary(R!PrimaryDocument(p)) = p
<1>1. CASE p.reason = None
  BY <1>1 DEF Fields, R!ReadPrimary, R!PrimaryDocument
<1>2. CASE p.reason # None
  <2>1. R!ExitOf[p.reason] # None /\ R!ReasonOf(R!ExitOf[p.reason]) = p.reason
    BY <1>2, ReasonsAreCoded, NoneIsNothing
  <2> QED BY <1>2, <2>1 DEF Fields, R!ReadPrimary, R!PrimaryDocument
<1> QED BY <1>1, <1>2

\* What a run says of itself: its constructors accept it, and so does the
\* reader, who reads it as it was.
Proper(run) ==
  LET p == run.outcome.primary
      e == run.outcome.error
  IN  /\ R!ConsistentOutcome(run.outcome) /\ run.outcome = R!Outcome(p, e)
      /\ e # None => R!KindOf(e) = p.kind /\ R!PrimaryExit(p) = R!ExitOf[e.reason]
      /\ R!ReadablePrimary(p) /\ R!ReadPrimary(R!PrimaryDocument(p)) = p
      /\ run.log = p.started /\ p.started \in BOOLEAN /\ p.success \in BOOLEAN
      /\ p.success <=> R!PrimaryExit(p) = 0

LEMMA BrokenIsProper ==
  ASSUME NEW e \in Errors, e.reason \notin {"timeout", "interrupted"}, NEW started \in BOOLEAN
  PROVE  Proper([outcome |-> R!Outcome(Failure(e, started), e), log |-> started])
<1> DEFINE p == Failure(e, started)
           run == [outcome |-> R!Outcome(p, e), log |-> started]
<1>0. /\ run.outcome.primary = p /\ run.outcome.error = e /\ run.log = started
      /\ p.kind = R!KindOf(e) /\ p.success = FALSE /\ p.reason = e.reason /\ p.started = started
      /\ p.code = None /\ p.timed_out = FALSE /\ p.interrupted = FALSE
  BY DEF Failure, Fields, R!Outcome
<1>1. R!Consistent(p)
  BY <1>0, ErrorsAreKnown DEF R!Consistent
<1>2. R!ReadablePrimary(p)
  BY <1>0, <1>1, ErrorsAreKnown DEF R!ReadablePrimary
<1>3. R!ReadPrimary(R!PrimaryDocument(p)) = p
  <2>1. p = Fields(p.kind, p.success, p.reason, p.started, p.code, p.timed_out, p.interrupted)
    BY DEF Failure, Fields
  <2> QED BY <1>0, <2>1, ReadAsWritten, ErrorsAreKnown
<1>4. R!PrimaryExit(p) = R!ExitOf[e.reason] /\ R!PrimaryExit(p) # 0
  BY <1>0, ErrorsAreKnown, ReasonsAreCoded DEF R!PrimaryExit
<1>5. R!ConsistentOutcome(run.outcome)
  BY <1>0, <1>1, ErrorsAreKnown DEF R!ConsistentOutcome
<1>6. run.outcome = R!Outcome(p, e)
  OBVIOUS
<1> HIDE DEF p, run
<1>7. Proper(run)
  BY <1>0, <1>1, <1>2, <1>3, <1>4, <1>5, <1>6, ErrorsAreKnown DEF Proper
<1> QED BY <1>7 DEF run, p

LEMMA BrokenRuns ==
  /\ \A reason \in {"execution_error", "interpreter_error"}, started \in BOOLEAN :
       LET e == R!Error(reason, "tool_error")
       IN  /\ e \in Errors /\ e.reason \notin {"timeout", "interrupted"}
           /\ Broke(started, reason)
                = [outcome |-> R!Outcome(Failure(e, started), e), log |-> started]
  /\ \A e \in GateErrors :
       /\ e \in Errors /\ e.reason \notin {"timeout", "interrupted"}
       /\ NotRun(R!FromToolError(e))
            = [outcome |-> R!Outcome(Failure(e, FALSE), e), log |-> FALSE]
<1>1. ASSUME NEW reason \in {"execution_error", "interpreter_error"}, NEW started \in BOOLEAN,
             NEW e, e = R!Error(reason, "tool_error")
      PROVE  /\ e \in Errors /\ e.reason \notin {"timeout", "interrupted"}
             /\ Broke(started, reason)
                  = [outcome |-> R!Outcome(Failure(e, started), e), log |-> started]
  <2>1. e \in Errors /\ e.reason = reason
    BY <1>1 DEF Errors, GateErrors, R!Uncategorized, R!Error
  <2>2. e # None
    BY <2>1, ErrorsAreKnown
  <2>3. R!FromExecution(started, None, e) = R!Outcome(Failure(e, started), e)
    BY <2>1, <2>2, PrimariesInFields DEF R!FromExecution
  <2> QED BY <1>1, <2>1, <2>3 DEF Broke, Ran
<1>2. ASSUME NEW e \in GateErrors
      PROVE  /\ e \in Errors /\ e.reason \notin {"timeout", "interrupted"}
             /\ NotRun(R!FromToolError(e))
                  = [outcome |-> R!Outcome(Failure(e, FALSE), e), log |-> FALSE]
  <2>1. e \in Errors /\ e.reason \notin {"timeout", "interrupted"}
    BY DEF Errors, GateErrors, R!Uncategorized, R!Categorized, R!SameName, R!Error
  <2>2. R!FromToolError(e) = R!Outcome(Failure(e, FALSE), e)
    BY <2>1, PrimariesInFields DEF R!FromToolError
  <2> QED BY <2>1, <2>2 DEF NotRun
<1> QED BY <1>1, <1>2

LEMMA EndedIsProper ==
  ASSUME NEW p,
         \/ p \in {R!Success, R!DryRunSuccess, R!EntrypointSuccess}
         \/ \E number \in Int \ {0} : p = R!EntrypointExit(number)
  PROVE  Proper([outcome |-> R!Outcome(p, None), log |-> p.started])
<1>1. /\ p = Fields(p.kind, p.success, p.reason, p.started, p.code, p.timed_out, p.interrupted)
      /\ p.reason = None /\ p.timed_out = FALSE /\ p.interrupted = FALSE
      /\ p.started \in BOOLEAN /\ p.success \in BOOLEAN
      /\ \/ p.success = TRUE /\ p.kind \in {"success", "dry_run_success"}
           /\ p.code = IF p.started THEN 0 ELSE None
         \/ /\ p.success = FALSE /\ p.kind = "entrypoint_exit" /\ p.code \in Int \ {0}
            /\ p = R!EntrypointExit(p.code)
  <2>1. CASE p = R!Success
    <3>1. p = Fields("success", TRUE, None, FALSE, None, FALSE, FALSE)
      BY <2>1, PrimariesInFields
    <3>2. /\ p = Fields(p.kind, p.success, p.reason, p.started, p.code, p.timed_out, p.interrupted)
          /\ p.kind = "success" /\ p.success = TRUE /\ p.reason = None /\ p.started = FALSE
          /\ p.code = None /\ p.timed_out = FALSE /\ p.interrupted = FALSE
      BY <3>1 DEF Fields
    <3> QED BY <3>2
  <2>2. CASE p = R!DryRunSuccess
    <3>1. p = Fields("dry_run_success", TRUE, None, FALSE, None, FALSE, FALSE)
      BY <2>2, PrimariesInFields
    <3>2. /\ p = Fields(p.kind, p.success, p.reason, p.started, p.code, p.timed_out, p.interrupted)
          /\ p.kind = "dry_run_success" /\ p.success = TRUE /\ p.reason = None /\ p.started = FALSE
          /\ p.code = None /\ p.timed_out = FALSE /\ p.interrupted = FALSE
      BY <3>1 DEF Fields
    <3> QED BY <3>2
  <2>3. CASE p = R!EntrypointSuccess
    <3>1. p = Fields("success", TRUE, None, TRUE, 0, FALSE, FALSE)
      BY <2>3, PrimariesInFields
    <3>2. /\ p = Fields(p.kind, p.success, p.reason, p.started, p.code, p.timed_out, p.interrupted)
          /\ p.kind = "success" /\ p.success = TRUE /\ p.reason = None /\ p.started = TRUE
          /\ p.code = 0 /\ p.timed_out = FALSE /\ p.interrupted = FALSE
      BY <3>1 DEF Fields
    <3> QED BY <3>2
  <2>4. CASE \E number \in Int \ {0} : p = R!EntrypointExit(number)
    <3>1. PICK number \in Int \ {0} : p = R!EntrypointExit(number)
      BY <2>4
    <3>2. p = Fields("entrypoint_exit", FALSE, None, TRUE, number, FALSE, FALSE)
      BY <3>1, PrimariesInFields
    <3>3. /\ p = Fields(p.kind, p.success, p.reason, p.started, p.code, p.timed_out, p.interrupted)
          /\ p.kind = "entrypoint_exit" /\ p.success = FALSE /\ p.reason = None
          /\ p.started = TRUE /\ p.code = number /\ p.timed_out = FALSE /\ p.interrupted = FALSE
      BY <3>2 DEF Fields
    <3> QED BY <3>1, <3>3
  <2> QED BY <2>1, <2>2, <2>3, <2>4
<1>2. R!Consistent(p)
  BY <1>1, NoneIsNothing DEF R!Consistent
<1>3. R!ReadablePrimary(p)
  BY <1>1, <1>2 DEF R!ReadablePrimary
<1>4. R!ReadPrimary(R!PrimaryDocument(p)) = p
  BY <1>1, ReadAsWritten
<1>5. p.success <=> R!PrimaryExit(p) = 0
  BY <1>1, NoneIsNothing DEF R!PrimaryExit
<1> DEFINE run == [outcome |-> R!Outcome(p, None), log |-> p.started]
<1>6. /\ run.outcome = R!Outcome(p, None) /\ run.log = p.started
      /\ run.outcome.primary = p /\ run.outcome.error = None
  BY DEF R!Outcome
<1> HIDE DEF run
<1>7. Proper(run)
  BY <1>1, <1>2, <1>3, <1>4, <1>5, <1>6 DEF Proper, R!ConsistentOutcome
<1> QED BY <1>7 DEF run

LEMMA StoppedIsProper ==
  ASSUME NEW reason \in {"timeout", "interrupted"}, NEW run, run = Broke(TRUE, reason)
  PROVE  /\ Proper(run) /\ run.outcome.error \in Errors /\ run.outcome.error.reason = reason
         /\ run.outcome.primary.success = FALSE
<1> DEFINE e == R!Error(reason, "tool_error")
           p == IF reason = "timeout" THEN R!Timeout ELSE R!Interrupted
<1>1. e \in Errors /\ e.reason = reason /\ e.kind = "tool_error"
  BY DEF Errors, R!Uncategorized, R!Error
<1>2. run.outcome = R!Outcome(p, e) /\ run.log = TRUE
  BY <1>1, ErrorsAreKnown DEF Broke, Ran, R!FromExecution, R!FromToolError
<1>3. /\ p = Fields(p.kind, p.success, p.reason, p.started, p.code, p.timed_out, p.interrupted)
      /\ p.kind = reason /\ p.success = FALSE /\ p.reason = reason /\ p.started = TRUE
      /\ p.code = None
  <2>1. CASE reason = "timeout"
    <3>1. p = Fields("timeout", FALSE, "timeout", TRUE, None, TRUE, FALSE)
      BY <2>1, PrimariesInFields
    <3> HIDE DEF p
    <3> QED BY <2>1, <3>1 DEF Fields
  <2>2. CASE reason = "interrupted"
    <3>1. p = Fields("interrupted", FALSE, "interrupted", TRUE, None, FALSE, TRUE)
      BY <2>2, PrimariesInFields
    <3> HIDE DEF p
    <3> QED BY <2>2, <3>1 DEF Fields
  <2> QED BY <2>1, <2>2
<1> HIDE DEF e, p
<1>4. run.outcome.primary = p /\ run.outcome.error = e
  <2>1. R!Outcome(p, e).primary = p /\ R!Outcome(p, e).error = e
    BY DEF R!Outcome
  <2> QED BY <1>2, <2>1
<1>5. R!KindOf(e) = reason
  BY <1>1 DEF R!KindOf, R!RepositoryKinds, R!ValidationReasons
<1>6. R!Consistent(p)
  BY <1>3 DEF R!Consistent, p
<1>7. R!ReadablePrimary(p)
  BY <1>1, <1>3, <1>5, <1>6 DEF R!ReadablePrimary, e
<1>8. R!ReadPrimary(R!PrimaryDocument(p)) = p
  BY <1>1, <1>3, ReadAsWritten, ErrorsAreKnown
<1>9. R!PrimaryExit(p) = R!ExitOf[e.reason] /\ R!PrimaryExit(p) # 0
  BY <1>1, <1>3, ErrorsAreKnown, ReasonsAreCoded DEF R!PrimaryExit
<1>10. Proper(run)
  BY <1>1, <1>2, <1>3, <1>4, <1>5, <1>6, <1>7, <1>8, <1>9, ErrorsAreKnown
     DEF Proper, R!ConsistentOutcome
<1> QED BY <1>1, <1>3, <1>4, <1>10

\* What the report of a request tells of an outcome of this kind.
Meaning(kind, run) ==
  LET p == run.outcome.primary
      e == run.outcome.error
  IN  /\ kind \in Successes <=> p.success
      /\ kind = "success" => p = R!Success
      /\ kind = "dry" => p = R!DryRunSuccess
      /\ kind = "zero" => p = R!EntrypointSuccess
      /\ kind = "tool_error" => ~p.started
      /\ e = None <=> kind \in Successes \cup {"nonzero"}
      /\ kind \in {"timeout", "interrupted"} => e.reason = kind

(* Every outcome a request can have is one that is reported and read back.  *)
LEMMA RunsAreProper ==
  ASSUME NEW kind \in DOMAIN OutcomesOf, NEW run \in OutcomesOf[kind]
  PROVE  Proper(run) /\ Meaning(kind, run)
<1>1. CASE kind \in {"success", "dry"}
  <2> DEFINE p == IF kind = "success" THEN R!Success ELSE R!DryRunSuccess
  <2>1. run = [outcome |-> R!Outcome(p, None), log |-> FALSE]
    BY <1>1 DEF OutcomesOf, NotRun
  <2>2. p.started = FALSE /\ p.success = TRUE
    BY PrimariesInFields DEF Fields
  <2> HIDE DEF p
  <2>3. Proper([outcome |-> R!Outcome(p, None), log |-> p.started])
    BY EndedIsProper DEF p
  <2>4. run.outcome.primary = p /\ run.outcome.error = None
    BY <2>1 DEF R!Outcome
  <2>5. Meaning(kind, run)
    BY <1>1, <2>2, <2>4 DEF Meaning, p, Successes
  <2> QED BY <2>1, <2>2, <2>3, <2>5
<1>2. CASE kind \in {"zero", "nonzero"}
  <2>1. \E p : /\ run = [outcome |-> R!Outcome(p, None), log |-> TRUE]
              /\ \/ kind = "zero" /\ p = R!EntrypointSuccess
                 \/ kind = "nonzero" /\ \E number \in Int \ {0} : p = R!EntrypointExit(number)
    <3>1. CASE kind = "zero"
      <4>1. run = [outcome |-> R!Outcome(R!EntrypointSuccess, None), log |-> TRUE]
        BY <3>1 DEF OutcomesOf, Ran, R!FromExecution, R!Completed
      <4> QED BY <3>1, <4>1
    <3>2. CASE kind = "nonzero"
      <4>1. PICK number \in {1, 124, -9} : run = Ran(TRUE, number, None)
        BY <3>2 DEF OutcomesOf
      <4>2. number \in Int /\ number # 0
        OBVIOUS
      <4>3. run = [outcome |-> R!Outcome(R!EntrypointExit(number), None), log |-> TRUE]
        BY <4>1, <4>2 DEF Ran, R!FromExecution, R!Completed
      <4> QED BY <3>2, <4>2, <4>3
    <3> QED BY <1>2, <3>1, <3>2
  <2>2. PICK p : /\ run = [outcome |-> R!Outcome(p, None), log |-> TRUE]
                 /\ \/ kind = "zero" /\ p = R!EntrypointSuccess
                    \/ kind = "nonzero" /\ \E number \in Int \ {0} : p = R!EntrypointExit(number)
    BY <2>1
  <2>3. p.started = TRUE /\ (p.success <=> kind = "zero")
    BY <2>2, PrimariesInFields DEF Fields
  <2>4. Proper([outcome |-> R!Outcome(p, None), log |-> p.started])
    BY <2>2, EndedIsProper
  <2>5. run.outcome.primary = p /\ run.outcome.error = None
    BY <2>2 DEF R!Outcome
  <2>6. Meaning(kind, run)
    BY <1>2, <2>2, <2>3, <2>5 DEF Meaning, Successes
  <2> QED BY <2>2, <2>3, <2>4, <2>6
<1>3. CASE kind \in {"timeout", "interrupted"}
  <2>1. run = Broke(TRUE, kind)
    <3>1. CASE kind = "timeout"
      BY <3>1 DEF OutcomesOf
    <3>2. CASE kind = "interrupted"
      BY <3>2 DEF OutcomesOf
    <3> QED BY <1>3, <3>1, <3>2
  <2>2. Proper(run) /\ run.outcome.error \in Errors /\ run.outcome.primary.success = FALSE
        /\ run.outcome.error.reason = kind
    BY <1>3, <2>1, StoppedIsProper
  <2>3. run.outcome.error # None
    BY <2>2, ErrorsAreKnown
  <2> QED BY <1>3, <2>2, <2>3 DEF Meaning, Successes
<1>4. CASE kind \in {"execution_error", "interpreter_error", "tool_error", "write_failure",
                     "ledger_error"}
  <2>1. PICK e \in Errors, started \in BOOLEAN :
          /\ e.reason \notin {"timeout", "interrupted"}
          /\ run = [outcome |-> R!Outcome(Failure(e, started), e), log |-> started]
          /\ kind = "tool_error" => started = FALSE
    <3>1. CASE kind = "execution_error"
      <4>1. PICK started \in BOOLEAN : run = Broke(started, "execution_error")
        BY <3>1 DEF OutcomesOf
      <4> QED BY <3>1, <4>1, BrokenRuns
    <3>2. CASE kind = "interpreter_error"
      <4>1. run = Broke(FALSE, "interpreter_error")
        BY <3>2 DEF OutcomesOf
      <4> QED BY <3>2, <4>1, BrokenRuns
    <3>3. CASE kind = "tool_error"
      <4>1. PICK e \in GateErrors : run = NotRun(R!FromToolError(e))
        BY <3>3 DEF OutcomesOf
      <4> QED BY <4>1, BrokenRuns
    <3>4. CASE kind \in {"write_failure", "ledger_error"}
      <4>1. PICK e \in {Unwritten, Unrecorded} : run = NotRun(R!FromToolError(e))
        <5>1. CASE kind = "write_failure"
          BY <5>1 DEF OutcomesOf
        <5>2. CASE kind = "ledger_error"
          BY <5>2 DEF OutcomesOf
        <5> QED BY <3>4, <5>1, <5>2
      <4>2. e \in GateErrors
        BY DEF Unwritten, Unrecorded, GateErrors, R!Uncategorized, R!Categorized, R!SameName
      <4> QED BY <4>1, <4>2, BrokenRuns
    <3> QED BY <1>4, <3>1, <3>2, <3>3, <3>4
  <2>2. Proper(run)
    BY <2>1, BrokenIsProper
  <2>3. run.outcome.primary = Failure(e, started) /\ run.outcome.error = e /\ e # None
    BY <2>1, ErrorsAreKnown DEF R!Outcome
  <2>4. Failure(e, started).success = FALSE /\ Failure(e, started).started = started
    BY DEF Failure, Fields
  <2>5. Meaning(kind, run)
    BY <1>4, <2>1, <2>3, <2>4 DEF Meaning, Successes
  <2> QED BY <2>2, <2>5
<1> QED BY <1>1, <1>2, <1>3, <1>4 DEF OutcomesOf

-----------------------------------------------------------------------------
(* A Result of one run, and what is read back from it.                      *)

LEMMA ContextsAreBound ==
  ASSUME NEW c \in Contexts
  PROVE  /\ c # None /\ c.base \in Commits /\ c.base # None /\ c.dirty \in BOOLEAN
         /\ ~c.dirty => c.state = "clean"
         /\ R!Binding(c) # None /\ R!Binding(c).base = c.base /\ R!Binding(c).state = c.state
BY NoneIsNothing DEF Contexts, R!Binding

\* The documents, field by field.
LEMMA DocumentsInFields ==
  ASSUME NEW r, NEW runtime \in {"embedded", "unavailable"}, NEW expected, NEW receipt, NEW logged,
         NEW changes, NEW operation, NEW dry, NEW context, NEW outcome, NEW ended \in Int,
         r = R!Report(operation, dry, context, outcome, "created", R!Clock(1, ended))
  PROVE  LET d == R!Documents(r, runtime, expected, receipt, logged, changes)
         IN  /\ d.manifest.binding = R!Binding(context) /\ d.context.binding = R!Binding(context)
             /\ d.run.binding = R!Binding(context) /\ d.environment = R!Binding(context)
             /\ d.context.dirty = context.dirty /\ d.manifest.dirty = context.dirty
             /\ d.run.dry_run = dry /\ d.manifest.dry_run = dry
             /\ d.run.resolved = (context # None) /\ d.manifest.status = "created"
             /\ d.context.created = 1 /\ d.manifest.created = 1
             /\ d.run.clock.started = 1 /\ d.run.clock.ended = ended
             /\ d.run.primary = R!PrimaryDocument(outcome.primary)
             /\ d.manifest.primary = outcome.primary.kind
             /\ d.manifest.started = outcome.primary.started
             /\ d.manifest.execution = outcome.primary.started
             /\ d.run.execution = outcome.primary.started
             /\ d.log = logged /\ d.run.bundle = R!Bundle("created")
             /\ d.run.operation = operation
             /\ d.run.exit = R!ExitStatus(r)
             /\ d.manifest.expected = expected
             /\ d.manifest.actual = IF expected = None THEN None ELSE R!Binding(context)
             /\ d.manifest.receipt = receipt
             /\ runtime = "unavailable" => d.run.warnings # {}
             /\ d.manifest.runtime = runtime
             /\ d.changes = changes
<1> DEFINE w == R!WithRuntime(r, runtime)
           d == R!Documents(r, runtime, expected, receipt, logged, changes)
<1>1. /\ r.operation = operation /\ r.dry_run = dry /\ r.context = context
      /\ r.primary = outcome.primary /\ r.bundle = R!Bundle("created")
      /\ r.clock = R!Clock(1, ended) /\ r.resolved = (context # None) /\ r.warnings = {}
      /\ r = [f \in DOMAIN r |-> r[f]] /\ "warnings" \in DOMAIN r
  BY DEF R!Report
<1>2. /\ w.operation = operation /\ w.dry_run = dry /\ w.context = context
      /\ w.primary = outcome.primary /\ w.bundle = R!Bundle("created")
      /\ w.clock = R!Clock(1, ended) /\ w.resolved = (context # None)
      /\ runtime = "unavailable" => w.warnings # {}
  BY DEF R!Report, R!WithRuntime
<1>3. R!ExitStatus(w) = R!ExitStatus(r)
  BY <1>1, <1>2 DEF R!ExitStatus
<1>4. d = [manifest |-> R!Manifest(w, runtime, expected, receipt), context |-> R!ContextDocument(w),
           run |-> R!RunDocument(w), log |-> logged, changes |-> changes,
           environment |-> R!Binding(w.context)]
  BY DEF R!Documents
<1>5. R!Clock(1, ended).started = 1 /\ R!Clock(1, ended).ended = ended
      /\ R!Bundle("created").status = "created"
  BY DEF R!Clock, R!Bundle
<1> HIDE DEF w, d
<1>6. /\ d.manifest = R!Manifest(w, runtime, expected, receipt) /\ d.context = R!ContextDocument(w)
      /\ d.run = R!RunDocument(w) /\ d.log = logged /\ d.changes = changes
      /\ d.environment = R!Binding(context)
  BY <1>2, <1>4
<1>7. /\ d.manifest.binding = R!Binding(context) /\ d.manifest.dirty = context.dirty
      /\ d.manifest.dry_run = dry /\ d.manifest.status = "created" /\ d.manifest.created = 1
      /\ d.manifest.primary = outcome.primary.kind /\ d.manifest.started = outcome.primary.started
      /\ d.manifest.execution = outcome.primary.started /\ d.manifest.expected = expected
      /\ d.manifest.actual = IF expected = None THEN None ELSE R!Binding(context)
      /\ d.manifest.receipt = receipt /\ d.manifest.runtime = runtime
  BY <1>2, <1>5, <1>6 DEF R!Manifest
<1>8. /\ d.context.binding = R!Binding(context) /\ d.context.dirty = context.dirty
      /\ d.context.created = 1
  BY <1>2, <1>5, <1>6 DEF R!ContextDocument
<1>9. /\ d.run.binding = R!Binding(context) /\ d.run.dry_run = dry
      /\ d.run.resolved = (context # None)
      /\ d.run.clock.started = 1 /\ d.run.clock.ended = ended
      /\ d.run.primary = R!PrimaryDocument(outcome.primary)
      /\ d.run.execution = outcome.primary.started /\ d.run.bundle = R!Bundle("created")
      /\ d.run.operation = operation /\ d.run.exit = R!ExitStatus(r)
      /\ runtime = "unavailable" => d.run.warnings # {}
  BY <1>2, <1>3, <1>5, <1>6 DEF R!RunDocument
<1>10. d = R!Documents(r, runtime, expected, receipt, logged, changes)
  BY DEF d
<1> QED BY <1>6, <1>7, <1>8, <1>9, <1>10

\* The kinds of outcome a request can have.
Possible(request, kind) ==
  /\ request \in Request!Packages => kind \notin {"success", "dry"}
  /\ request = "dry_run" => kind \in {"dry", "tool_error"}
  /\ request = "bundle" => kind = "success"

LEMMA RequestsAreReadable ==
  ASSUME NEW request \in {"tracked", "untracked", "dry_run", "bundle"},
         NEW kind \in DOMAIN OutcomesOf, Possible(request, kind), NEW pins \in BOOLEAN
  PROVE  <<request, kind, pins>> \in ReadableRequests
<1>0. SUFFICES
        ASSUME NEW run \in OutcomesOf[kind], NEW before \in Before, NEW after \in Contexts,
               NEW changes \in BOOLEAN, NEW ended \in {0, 1},
               NEW runtime \in {"embedded", "unavailable"}, NEW known \in BOOLEAN,
               NEW ancestor \in BOOLEAN,
               NEW expected \in {R!Binding(c) : c \in IF run.log THEN {before} ELSE Before}
        PROVE  ReadBack(request, run, pins, before, expected, after, changes, ended, runtime, known,
                        ancestor)
  <2>1. <<request, kind, pins>> \in Requests
    BY DEF Requests
  <2> QED BY <2>1 DEF ReadableRequests
<1> DEFINE p == run.outcome.primary
           dry == request = "dry_run"
           r == R!Report(Operation(request), dry, after, run.outcome, "created", R!Clock(1, ended))
           receipt == IF request = "bundle" THEN None
                      ELSE R!Receipt(r, before, expected, known, ancestor)
           target == IF request = "bundle" THEN None ELSE expected
           d == R!Documents(r, runtime, target, receipt, run.log, changes)
           committed == receipt # None /\ receipt.completed # None
           kept == p.success /\ request # "bundle" =>
                     R!Format(expected.base) = R!Format(after.base)
<1>1. Proper(run) /\ Meaning(kind, run)
  BY RunsAreProper
<1>2. /\ expected # None /\ expected.base \in Commits
      /\ before.base \in Commits /\ after # None /\ after.base \in Commits /\ after.base # None
      /\ after.dirty \in BOOLEAN /\ ~after.dirty => after.state = "clean"
      /\ R!Binding(after) # None /\ R!Binding(after).base = after.base
      /\ R!Binding(after).state = after.state
  <2>1. PICK c \in Before : expected = R!Binding(c)
    OBVIOUS
  <2> QED BY <2>1, ContextsAreBound DEF Before
<1>3. /\ r.operation = Operation(request) /\ r.dry_run = dry /\ r.context = after
      /\ r.primary = p /\ r.error = run.outcome.error /\ r.bundle = R!Bundle("created")
      /\ r.resolved = (after # None) /\ r.bundle.status = "created"
  BY DEF R!Report, R!Bundle
<1>4. /\ p.success => IF request = "dry_run" THEN p = R!DryRunSuccess
                      ELSE IF request = "bundle" THEN p = R!Success ELSE p = R!EntrypointSuccess
      /\ request = "bundle" => p = R!Success
      /\ request = "dry_run" => ~p.started
  <2>1. kind \in {"success", "dry", "zero", "nonzero", "timeout", "interrupted", "execution_error",
                 "interpreter_error", "tool_error", "write_failure", "ledger_error"}
    BY DEF OutcomesOf
  <2>2. R!DryRunSuccess.started = FALSE /\ R!Success.started = FALSE
    BY PrimariesInFields DEF Fields
  <2> QED BY <1>1, <2>1, <2>2 DEF Meaning, Possible, Successes, Request!Packages
<1> HIDE DEF p, dry, r, receipt, target, d, committed, kept
<1>5. R!ConsistentReport(r)
  <2>1. /\ R!ConsistentOutcome(R!Outcome(r.primary, r.error))
        /\ r.error # None => R!KindOf(r.error) = r.primary.kind
    BY <1>1, <1>3 DEF Proper, p
  <2>2. R!Success.started = FALSE /\ R!Success.success = TRUE
    BY PrimariesInFields DEF Fields
  <2>3. Operation(request) = "bundle" <=> request = "bundle"
    BY DEF Operation
  <2> QED BY <1>2, <1>3, <1>4, <2>1, <2>2, <2>3 DEF R!ConsistentReport, dry
<1>6. /\ d.manifest.binding = R!Binding(after) /\ d.context.binding = R!Binding(after)
      /\ d.run.binding = R!Binding(after) /\ d.environment = R!Binding(after)
      /\ d.context.dirty = after.dirty /\ d.manifest.dirty = after.dirty
      /\ d.run.dry_run = dry /\ d.manifest.dry_run = dry
      /\ d.run.resolved = (after # None) /\ d.manifest.status = "created"
      /\ d.context.created = 1 /\ d.manifest.created = 1
      /\ d.run.clock.started = 1 /\ d.run.clock.ended = ended
      /\ d.run.primary = R!PrimaryDocument(p) /\ d.manifest.primary = p.kind
      /\ d.manifest.started = p.started /\ d.manifest.execution = p.started
      /\ d.run.execution = p.started /\ d.log = run.log /\ d.run.bundle = R!Bundle("created")
      /\ d.run.operation = Operation(request) /\ d.run.exit = R!ExitStatus(r)
      /\ d.manifest.expected = target
      /\ d.manifest.actual = IF target = None THEN None ELSE R!Binding(after)
      /\ d.manifest.receipt = receipt /\ d.manifest.runtime = runtime
      /\ runtime = "unavailable" => d.run.warnings # {}
      /\ d.changes = changes
  BY DocumentsInFields DEF r, d, p
<1>7. R!Writable(d)
  BY <1>1, <1>6 DEF R!Writable, Proper, p
<1>8. R!ReadPrimary(d.run.primary) = p /\ R!ReadablePrimary(p)
  BY <1>1, <1>6 DEF Proper, p
<1>9. R!ReadableExecution(d.run, p)
  <2>1. d.run.exit = R!PrimaryExit(p)
    <3>1. p.success <=> R!PrimaryExit(p) = 0
      BY <1>1 DEF Proper, p
    <3>2. R!Success.success = TRUE
      BY PrimariesInFields DEF Fields
    <3> QED BY <1>3, <1>4, <1>6, <3>1, <3>2 DEF R!ExitStatus, Operation
  <2>2. /\ R!Success.started = FALSE /\ R!Success.kind = "success"
        /\ R!DryRunSuccess.kind = "dry_run_success"
        /\ R!EntrypointSuccess.kind = "success" /\ R!EntrypointSuccess.started = TRUE
    BY PrimariesInFields DEF Fields
  <2> QED BY <1>4, <1>6, <2>1, <2>2 DEF R!ReadableExecution, Operation, dry
<1>10. committed => /\ p.success /\ p.started /\ ~dry /\ ~after.dirty
                    /\ receipt.completed = after.base /\ receipt.completed # target.base
  <2>1. committed => request # "bundle" /\ receipt = R!Receipt(r, before, expected, known, ancestor)
                     /\ target = expected
    BY DEF committed, receipt, target
  <2>2. R!Receipt(r, before, expected, known, ancestor) # None
          => /\ known
             /\ R!Receipt(r, before, expected, known, ancestor).completed
                  = IF p.success /\ p.started /\ ~dry /\ before.base = expected.base
                    THEN R!CompletedCommit(before, after, ancestor) ELSE None
    BY <1>3 DEF R!Receipt
  <2>3. R!CompletedCommit(before, after, ancestor) # None
          => /\ R!CompletedCommit(before, after, ancestor) = after.base /\ ~after.dirty
             /\ before.base # after.base
    BY DEF R!CompletedCommit
  <2> QED BY <2>1, <2>2, <2>3 DEF committed
<1>11. R!ReadableReceipt(d, p)
  BY <1>2, <1>6, <1>10 DEF R!ReadableReceipt, committed
<1>12. R!Reads(d) <=> after.dirty = changes /\ ended >= 1 /\ kept
  <2>1. {d.manifest.started, d.manifest.execution, d.run.execution, d.log} = {p.started}
    BY <1>1, <1>6 DEF Proper, p
  <2>2. /\ target # None <=> request # "bundle"
        /\ target # None => target = expected
        /\ d.run.operation = "bundle" <=> request = "bundle"
    BY <1>2, <1>6 DEF target, Operation
  <2>3. (d.manifest.expected # None =>
           /\ p.success => R!Format(d.manifest.expected.base) = R!Format(d.manifest.binding.base)
           /\ d.manifest.actual = d.manifest.binding) <=> kept
    BY <1>2, <1>6, <2>2 DEF kept
  <2>4. d.run.clock.ended >= d.run.clock.started <=> ended >= 1
    BY <1>6
  <2> QED BY <1>2, <1>6, <1>8, <1>9, <1>11, <2>1, <2>2, <2>3, <2>4 DEF R!Reads
<1>13. /\ R!Facts(d).primary = p
       /\ R!Facts(d).completed = IF committed THEN after.base ELSE None
  BY <1>6, <1>8, <1>10 DEF R!Facts, committed
<1>14. ReadBack(request, run, pins, before, expected, after, changes, ended, runtime, known,
                ancestor)
  BY <1>5, <1>7, <1>12, <1>13 DEF ReadBack, p, dry, r, receipt, target, d, committed, kept
<1> QED BY <1>14

-----------------------------------------------------------------------------
(* The report of a request follows its answer.                              *)

ReportInv ==
  /\ report.status # "none" => primary # "none"
  /\ op = "bundle" => primary \in {"none", "success"}
  /\ op = "dry_run" => primary \in {"none", "dry", "tool_error"}
  /\ answer \notin {"none", "raised"} =>
       IF primary = "none"
       THEN answer = "tool_error" /\ op # "bundle" /\ report.status = "none"
       ELSE answer = Answer(primary) /\ report.status # "none"

LEMMA ReportStarts == ApplyInit => ReportInv
BY DEF ApplyInit, PublicationInit, NoReport, ReportInv

LEMMA ReportFollows == ASSUME ApplyInv, ContractInv, ReportInv, [ApplyNext]_runVars PROVE ReportInv'
<1> USE DEF ReportInv
<1>0. /\ phase \in Early \cup {"unwritten", "run", "publish"} => answer = "none"
      /\ phase \in Early \cup {"run"} => primary = "none"
      /\ phase = "publish" => primary # "none"
      /\ op = "bundle" => phase \notin {"resolve", "locked"}
      /\ op \notin Request!Packages =>
           phase \notin {"recheck", "write", "run", "unwritten", "outcome"}
      /\ phase = "outcome" => report.status # "none" /\ op = "tracked"
      /\ phase \in {"locked", "recheck", "write", "unwritten", "run", "resolve"} => step = "reserved"
      /\ op \in {"tracked", "untracked", "dry_run", "bundle"}
  BY DEF ApplyInv, FlowInv, FlowTypeOK, AnswerIsEarned, LockIsHeld, ContractInv, PrimaryFollows,
     Tracked
<1>1. CASE Resolve \/ Unresolvable \/ LockRepository \/ NotResolved \/ Preflight \/ ChecksRefuse
  BY <1>0, <1>1 DEF Resolve, Unresolvable, LockRepository, NotResolved, Preflight, ChecksRefuse, Reserve,
     ReserveFails, Fails, To, Early, publicationVars, endVars, Request!Packages
<1>2. CASE PassGate \/ WritePayload \/ PayloadFails \/ RecordPayloadFailure \/ PayloadOutcomeRefused
  BY <1>0, <1>2 DEF PassGate, WritePayload, PayloadFails, RecordPayloadFailure, PayloadOutcomeRefused,
     Fails, To, Early, publicationVars, endVars, Request!Packages
<1>3. CASE Execute \/ ExecuteInterrupted \/ EntrypointRuns \/ Executed \/ ExecuteRaised
  <2>1. /\ UNCHANGED <<report, op>>
        /\ \/ UNCHANGED <<primary, answer>>
           \/ phase = "run" /\ UNCHANGED answer
           \/ UNCHANGED primary /\ answer' = "raised"
    BY <1>3 DEF Execute, ExecuteInterrupted, EntrypointRuns, Executed, ExecuteRaised, flowVars,
       publicationVars, endVars
  <2> QED BY <1>0, <2>1 DEF Answer, Request!Packages
<1>4. CASE BundleBegins \/ BundleLocks \/ Publish \/ Published
  <2>1. CASE BundleBegins
    BY <1>0, <2>1 DEF BundleBegins, Begin, NoRunDirectory, Fails, To, Early, endVars
  <2>2. CASE BundleLocks
    BY <2>2 DEF BundleLocks, publicationVars, endVars, Answer
  <2>3. CASE Publish
    BY <1>0, <2>3 DEF Publish
  <2>4. CASE Published
    BY <1>0, <2>4 DEF Published, publicationVars, endVars, Answer
  <2> QED BY <1>4, <2>1, <2>2, <2>3, <2>4
<1>5. CASE RecordOutcome \/ OutcomeRefused \/ Unlock \/ LetGo
  BY <1>0, <1>5 DEF RecordOutcome, OutcomeRefused, Unlock, LetGo, Release, publicationVars, endVars,
     Answer, Successes
<1>6. CASE CtrlC \/ Killed \/ DirectoryChanges \/ LockMoves \/ UNCHANGED runVars
  BY <1>0, <1>6 DEF CtrlC, Killed, DirectoryChanges, LockMoves, Cancel, Others, FinalArrives,
     FinalTaken, TempTaken, TempSwapped, TempSpoiled, Undisturbed, flowVars, publicationVars, endVars,
     runVars, Answer
<1> QED BY <1>1, <1>2, <1>3, <1>4, <1>5, <1>6 DEF ApplyNext, Ours

LEMMA ReportInvariant == ApplySpec => []ReportInv
BY ReportStarts, ReportFollows, RequestInvariant, ContractFollows, PTL DEF ApplySpec

(* The report of an outcome under an Apply, ...                             *)
LEMMA ApplyIsReported ==
  ASSUME NEW kind \in DOMAIN OutcomesOf, NEW run \in OutcomesOf[kind],
         NEW bundled \in {"not_attempted", "created", "failed"}, NEW context, NEW dry, NEW clock,
         bundled = "not_attempted" => context = None, op # "bundle",
         NEW r, r = R!Report("apply", dry, context, run.outcome, bundled, clock),
         answer = IF kind \in Successes
                  THEN IF bundled = "failed" THEN "result_bundle_error" ELSE "success" ELSE kind
  PROVE  R!ConsistentReport(r) /\ AnswersWith(r)
<1> DEFINE p == run.outcome.primary
           e == run.outcome.error
<1>1. /\ r.operation = "apply" /\ r.context = context /\ r.resolved = (context # None)
      /\ r.primary = p /\ r.error = e /\ r.bundle = R!Bundle(bundled)
  BY DEF R!Report
<1>2. R!Bundle(bundled).status = bundled
  BY DEF R!Bundle
<1>3. Proper(run) /\ Meaning(kind, run)
  BY RunsAreProper
<1>4. /\ R!ConsistentOutcome(R!Outcome(p, e)) /\ (p.success <=> R!PrimaryExit(p) = 0)
      /\ e # None => R!KindOf(e) = p.kind /\ R!PrimaryExit(p) = R!ExitOf[e.reason]
  BY <1>3 DEF Proper
<1>5. /\ kind \in Successes <=> p.success
      /\ e = None <=> kind \in Successes \cup {"nonzero"}
      /\ kind \in {"timeout", "interrupted"} => e.reason = kind
  BY <1>3 DEF Meaning
<1>6. kind \in {"success", "dry", "zero", "nonzero", "timeout", "interrupted", "execution_error",
               "interpreter_error", "tool_error", "write_failure", "ledger_error"}
  BY DEF OutcomesOf
<1> HIDE DEF p, e
<1>7. R!ConsistentReport(r)
  BY <1>1, <1>2, <1>4 DEF R!ConsistentReport
<1>8. /\ R!ExitStatus(r) = IF p.success /\ bundled = "failed" THEN R!ExitOf.result_bundle_error
                           ELSE R!PrimaryExit(p)
      /\ R!Succeeded(r) <=> p.success /\ bundled # "failed"
  BY <1>1, <1>2 DEF R!ExitStatus, R!Succeeded
<1> DEFINE unpublished == R!Error("result_bundle_error", "result_bundle_error")
<1>9. unpublished # None /\ unpublished.reason = "result_bundle_error"
      /\ R!ExitOf.result_bundle_error = 11 /\ R!ExitOf["result_bundle_error"] = 11
  <2>1. unpublished \in Errors
    BY DEF Errors, GateErrors, R!Categorized, R!SameName
  <2>2. unpublished # None
    BY <2>1, ErrorsAreKnown
  <2> QED BY <2>2 DEF R!Error, R!ExitOf
<1> HIDE DEF unpublished
<1>10. R!ReportedError(r) = IF e # None THEN e
                            ELSE IF p.success /\ bundled = "failed" THEN unpublished ELSE None
  BY <1>1, <1>2 DEF R!ReportedError, unpublished
<1>11. CASE kind \in Successes
  BY <1>4, <1>5, <1>6, <1>7, <1>8, <1>9, <1>10, <1>11 DEF AnswersWith, Successes
<1>12. CASE kind \notin Successes
  BY <1>4, <1>5, <1>6, <1>7, <1>8, <1>9, <1>10, <1>12 DEF AnswersWith, Successes
<1> QED BY <1>11, <1>12

(* ... of a manual bundle that is published, and of one that is not.        *)
LEMMA BundleIsReported ==
  ASSUME NEW run \in OutcomesOf["success"], NEW context, NEW clock, op = "bundle", answer = "success",
         NEW r, r = R!Report("bundle", FALSE, context, run.outcome, "created", clock)
  PROVE  R!ConsistentReport(r) /\ AnswersWith(r)
<1>1. run.outcome.primary = R!Success
  <2>1. "success" \in DOMAIN OutcomesOf
    BY DEF OutcomesOf
  <2> QED BY <2>1, RunsAreProper DEF Meaning
<1>2. /\ r.operation = "bundle" /\ r.dry_run = FALSE
      /\ r.primary = R!Success /\ r.bundle = R!Bundle("created")
  BY <1>1 DEF R!Report
<1>3. R!Bundle("created").status = "created"
  BY DEF R!Bundle
<1>4. R!Success.success = TRUE /\ R!Success.started = FALSE
  BY PrimariesInFields DEF Fields
<1> QED BY <1>2, <1>3, <1>4 DEF R!ConsistentReport, AnswersWith, R!ExitStatus, R!Succeeded

LEMMA FailureIsReported ==
  ASSUME NEW e \in GateErrors, NEW context, op = "bundle", answer = "result_bundle_error",
         NEW r, r = BundleFailure(e, context)
  PROVE  R!ConsistentReport(r) /\ AnswersWith(r)
<1>1. R!FromToolError(e) = R!Outcome(Failure(e, FALSE), e)
  <2>1. e.reason \notin {"timeout", "interrupted"}
    BY BrokenRuns
  <2> QED BY <2>1, PrimariesInFields DEF R!FromToolError
<1>2. /\ r.operation = "bundle" /\ r.dry_run = FALSE
      /\ r.primary = Failure(e, FALSE) /\ r.bundle = R!Bundle("failed")
  BY <1>1 DEF BundleFailure, R!ManualFailure, R!Report, R!Outcome
<1>3. R!Bundle("failed").status = "failed"
  BY DEF R!Bundle
<1>4. Failure(e, FALSE).success = FALSE /\ Failure(e, FALSE).started = FALSE
  BY DEF Failure, Fields
<1>5. R!ExitOf.result_bundle_error # 0
  BY DEF R!ExitOf
<1>6. R!ConsistentReport(r)
  BY <1>2, <1>3, <1>4 DEF R!ConsistentReport
<1>7. R!ExitStatus(r) = R!ExitOf.result_bundle_error /\ ~R!Succeeded(r)
  BY <1>2, <1>3, <1>4 DEF R!ExitStatus, R!Succeeded
<1> QED BY <1>5, <1>6, <1>7 DEF AnswersWith

LEMMA AnswerIsReported ==
  ASSUME ApplyInv, ReportInv, answer \notin {"none", "raised"}, NEW r \in Reports
  PROVE  R!ConsistentReport(r) /\ AnswersWith(r)
<1> DEFINE context == CHOOSE c \in Before : TRUE
           clock == R!Clock(1, 1)
<1>1. /\ primary \in {"none"} \cup Successes \cup Failures
      /\ report.status \in {"none", "created", "failed"}
      /\ op \in {"tracked", "untracked", "dry_run", "bundle"}
  BY DEF ApplyInv, FlowInv, FlowTypeOK, PublicationInv, PublicationTypeOK
<1>2. primary # "none" => primary \in DOMAIN OutcomesOf
  BY <1>1 DEF OutcomesOf, Successes, Failures
<1> HIDE DEF context, clock
<1>3. CASE report.status = "none"
  <2>1. primary = "none" /\ answer = "tool_error" /\ op # "bundle"
    BY <1>3 DEF ReportInv
  <2>2. PICK run \in OutcomesOf["tool_error"] :
          r = R!Report("apply", op = "dry_run", None, run.outcome, "not_attempted", clock)
    BY <1>3, <2>1 DEF Reports, clock
  <2>3. "tool_error" \in DOMAIN OutcomesOf /\ "tool_error" \notin Successes
    BY DEF OutcomesOf, Successes
  <2> QED BY <2>1, <2>2, <2>3, ApplyIsReported
<1>4. CASE report.status # "none" /\ op # "bundle"
  <2>1. primary \in DOMAIN OutcomesOf /\ answer = Answer(primary)
    BY <1>2, <1>4 DEF ReportInv
  <2>2. PICK run \in OutcomesOf[primary] :
          r = R!Report("apply", op = "dry_run", context, run.outcome, report.status, clock)
    BY <1>4, <2>1 DEF Reports, clock, context, Operation, ReportInv
  <2> QED BY <1>1, <1>4, <2>1, <2>2, ApplyIsReported DEF Answer
<1>5. CASE report.status = "created" /\ op = "bundle"
  <2>1. primary = "success" /\ answer = "success"
    BY <1>5 DEF ReportInv, Answer, Successes
  <2>2. PICK run \in OutcomesOf["success"] :
          r = R!Report("bundle", op = "dry_run", context, run.outcome, "created", clock)
    BY <1>5, <2>1 DEF Reports, clock, context, Operation
  <2> QED BY <1>5, <2>1, <2>2, BundleIsReported
<1>6. CASE report.status = "failed" /\ op = "bundle"
  <2>1. primary = "success" /\ answer = "result_bundle_error"
    BY <1>6 DEF ReportInv, Answer, Successes
  <2>2. PICK e \in GateErrors, c \in {None, context} : r = BundleFailure(e, c)
    BY <1>6 DEF Reports, context
  <2> QED BY <1>6, <2>1, <2>2, FailureIsReported
<1> QED BY <1>1, <1>3, <1>4, <1>5, <1>6

(* Report, exit status, error and answer of a request agree however it ends, *)
(* and its Result is read back as what the run was.                         *)
THEOREM ReportsAreReadBack == ApplySpec => []ReportsAreRead
<1>1. ASSUME ApplyInv, ContractInv, ReportInv, report.status = "created"
      PROVE  <<op, InResult, proof>> \in ReadableRequests
  <2>1. /\ op \in {"tracked", "untracked", "dry_run", "bundle"} /\ proof \in BOOLEAN
        /\ primary \in Successes \cup Failures
        /\ op \in {"tracked", "untracked"} => primary \notin {"success", "dry"}
        /\ refused # "none" => op = "tracked" /\ refused \in Kinds \cup {"write_failure"}
    BY <1>1 DEF ApplyInv, FlowInv, FlowTypeOK, PrimaryIsTrue, PublicationInv, PublicationTypeOK,
       ReportInv, ContractInv, RefusalFollows, Tracked
  <2>2. InResult \in DOMAIN OutcomesOf
    BY <2>1 DEF InResult, OutcomesOf, Kinds, Successes, Failures
  <2>3. Possible(op, InResult)
    BY <1>1, <2>1 DEF Possible, InResult, ReportInv, Request!Packages, Kinds
  <2> QED BY <2>1, <2>2, <2>3, RequestsAreReadable
<1>2. ApplyInv /\ ContractInv /\ ReportInv => ReportsAreRead
  BY <1>1, AnswerIsReported DEF ReportsAreRead
<1> QED BY <1>2, RequestInvariant, ContractFollows, ReportInvariant, PTL
=============================================================================
