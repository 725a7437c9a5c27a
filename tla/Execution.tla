------------------------------ MODULE Execution ------------------------------
(***************************************************************************)
(* One run of an entrypoint: the controlling thread of PatchHarbor         *)
(* (execution.py, platform/lifecycle.py, platform/posix.py), the thread    *)
(* that drains the output pipe (output.py), and the processes of the       *)
(* entrypoint itself.  Deadlines are events: a bounded wait may end in its  *)
(* deadline whenever what it waits for has not happened.  A Ctrl-C reaches  *)
(* the controlling thread in one of its blocking calls; the few bytecodes  *)
(* between them are not interrupted.                                       *)
(***************************************************************************)
EXTENDS Naturals

CONSTANTS
  MaxOutput,      \* bound: chunks of output
  MaxInterrupts   \* bound: how often the user presses Ctrl-C

ASSUME ExecutionBounds == MaxOutput \in Nat /\ MaxInterrupts \in Nat

VARIABLES
  proc,       \* the processes of the entrypoint
  code,       \* exit status of the root process
  signalled,  \* history: PatchHarbor signalled the root while it ran
  sent,       \* chunks written into the pipe
  read,       \* chunks the reader thread took out of it
  log,        \* execution.log
  faults,     \* what the capture remembers: log or text sink given up, read error
  mirror,     \* the caller's raw stream failed
  reader,     \* the reader thread
  pc,         \* control point of the controlling thread
  state,      \* ProcessTree._state
  stopped,    \* ProcessTree._tree_stopped
  cause,      \* outcome the controlling thread unwinds with
  result,     \* ScriptExecutionResult
  interrupts  \* Ctrl-C so far

treeVars == <<proc, code, signalled>>
outVars == <<sent, read, log, faults, mirror, reader>>
ctlVars == <<pc, state, stopped, cause, result, interrupts>>
vars == <<treeVars, outVars, ctlVars>>

-----------------------------------------------------------------------------
(* Processes.  The root leads a session and process group of its own; a     *)
(* child stays in the group, a stray has left it with setsid.               *)

Group == {"root", "child"}
Processes == Group \cup {"stray"}
Alive(p) == proc[p] \in {"running", "killed"}
TreeHasProcesses == \E p \in Group : Alive(p)
Writers == {p \in Processes : Alive(p)}

Kinds == {"none", "zero", "nonzero", "timeout", "interrupted", "execution_error",
          "interpreter_error"}
NoLog == [chunks |-> 0, spoiled |-> FALSE]
NoResult == [kind |-> "none", output |-> NoLog]

Init ==
  /\ proc = [p \in Processes |-> "none"] /\ code = "none" /\ signalled = FALSE
  /\ sent = 0 /\ read = 0 /\ log = NoLog /\ faults = {} /\ mirror = FALSE
  /\ reader = "none"
  /\ pc = "spawn" /\ state = "running" /\ stopped = FALSE /\ cause = "none"
  /\ result = NoResult /\ interrupts = 0

(* A process of the entrypoint starts another one. *)
Fork(p) ==
  /\ proc[p] = "none"
  /\ \E q \in IF p = "child" THEN Group ELSE Processes : proc[q] = "running"
  /\ proc' = [proc EXCEPT ![p] = "running"]
  /\ UNCHANGED <<code, signalled, outVars, ctlVars>>

Write(p) ==
  /\ proc[p] = "running" /\ sent < MaxOutput
  /\ sent' = sent + 1
  /\ UNCHANGED <<treeVars, read, log, faults, mirror, reader, ctlVars>>

(* SIGTERM may be ignored or answered with any exit status; SIGKILL takes    *)
(* effect at some later moment.                                             *)
Exit(p) ==
  /\ Alive(p)
  /\ proc' = [proc EXCEPT ![p] = "gone"]
  /\ code' \in IF p # "root" THEN {code}
               ELSE IF proc[p] = "killed" THEN {"nonzero"} ELSE {"zero", "nonzero"}
  /\ UNCHANGED <<signalled, outVars, ctlVars>>

Entrypoint == \E p \in Processes : Fork(p) \/ Write(p) \/ Exit(p)

-----------------------------------------------------------------------------
(* The reader thread. *)

(* A chunk goes to the log, to the caller's raw stream and to the text      *)
(* sinks.  The log has one file position: a chunk that comes after the      *)
(* controlling thread has rewound the file overwrites its beginning.        *)
Taken ==
  /\ reader = "running" /\ read < sent
  /\ read' = read + 1
  /\ UNCHANGED <<treeVars, sent, reader, ctlVars>>

Logged ==
  CASE "log" \in faults \/ pc = "done" -> log
    [] pc = "reading" -> [log EXCEPT !.spoiled = TRUE]
    [] OTHER -> [log EXCEPT !.chunks = @ + 1]

ReadChunk ==
  /\ Taken
  /\ log' = Logged
  /\ UNCHANGED <<faults, mirror>>

LogFails ==
  /\ Taken /\ "log" \notin faults
  /\ faults' = faults \cup {"log"}
  /\ UNCHANGED <<log, mirror>>

(* A failing text sink or line observer is dropped and remembered. *)
SinkFails ==
  /\ Taken /\ "text" \notin faults
  /\ log' = Logged /\ faults' = faults \cup {"text"}
  /\ UNCHANGED mirror

(* The raw stream of the caller hangs behind a tee that keeps its error. *)
MirrorFails ==
  /\ Taken /\ ~mirror
  /\ log' = Logged /\ mirror' = TRUE
  /\ UNCHANGED faults

(* End of file: nobody holds the write end of the pipe any more. *)
ReadEnd ==
  /\ reader = "running" /\ read = sent /\ Writers = {}
  /\ reader' = "done"
  /\ UNCHANGED <<treeVars, sent, read, log, faults, mirror, ctlVars>>

(* Anything else that goes wrong ends the thread and closes its end.        *)
ReadFails ==
  /\ reader = "running"
  /\ reader' = "done" /\ faults' = faults \cup {"read"}
  /\ UNCHANGED <<treeVars, sent, read, log, mirror, ctlVars>>

Reader ==
  ReadChunk \/ LogFails \/ SinkFails \/ MirrorFails \/ ReadEnd \/ ReadFails

-----------------------------------------------------------------------------
(* The controlling thread: _control_process and ProcessTree. *)

Goto(there) == pc' = there /\ UNCHANGED <<state, stopped, cause, result, interrupts>>

(* An exception, or the return statement, leaves `with process_tree'. *)
Unwind(c) == pc' = "close" /\ cause' = c /\ UNCHANGED <<state, stopped, result>>

Spawn ==
  /\ pc = "spawn" /\ Goto("start")
  /\ proc' = [proc EXCEPT !["root"] = "running"]
  /\ UNCHANGED <<code, signalled, outVars>>

SpawnFails ==
  /\ pc = "spawn" /\ pc' = "rewind" /\ cause' = "interpreter_error"
  /\ UNCHANGED <<treeVars, outVars, state, stopped, result, interrupts>>

LogUnavailable ==
  /\ pc = "spawn" /\ pc' = "done"
  /\ result' = [NoResult EXCEPT !.kind = "execution_error"]
  /\ UNCHANGED <<treeVars, outVars, state, stopped, cause, interrupts>>

StartCapture ==
  /\ pc = "start" /\ Goto("wait")
  /\ reader' = "running"
  /\ UNCHANGED <<treeVars, sent, read, log, faults, mirror>>

(* ProcessTree.run: wait for the root, classify, stop what remains. *)
Classified(s) ==
  /\ pc = "wait" /\ pc' = "stop" /\ state' = s
  /\ UNCHANGED <<treeVars, outVars, stopped, cause, result>>

RootExits == proc["root"] = "gone" /\ Classified("exited") /\ UNCHANGED interrupts
TimeOut == proc["root"] # "gone" /\ Classified("timed_out") /\ UNCHANGED interrupts

Kill ==
  /\ proc' = [p \in Processes |->
                IF p \in Group /\ proc[p] = "running" THEN "killed" ELSE proc[p]]
  /\ signalled' = (signalled \/ proc["root"] = "running")
  /\ UNCHANGED code

Graceful == state \in {"timed_out", "interrupted"}

RequestStop ==
  /\ pc = "stop" /\ Graceful /\ Goto("grace")
  /\ signalled' = (signalled \/ proc["root"] = "running")
  /\ UNCHANGED <<proc, code, outVars>>

(* The group is empty: reap the root and go on. *)
TreeStopped ==
  /\ pc \in {"grace", "forced"} \/ (pc = "stop" /\ ~Graceful)
  /\ ~TreeHasProcesses
  /\ stopped' = TRUE /\ pc' = "drain"
  /\ UNCHANGED <<treeVars, outVars, state, cause, result, interrupts>>

ForceStop ==
  /\ pc = "grace" \/ (pc = "stop" /\ ~Graceful)
  /\ TreeHasProcesses /\ Kill /\ Goto("forced")
  /\ UNCHANGED outVars

ForceStopFails ==
  /\ pc = "forced" /\ TreeHasProcesses
  /\ Unwind("execution_error")
  /\ UNCHANGED <<treeVars, outVars, interrupts>>

(* capture.finish() and the bounded view come before the classification. *)
OutcomeByCode == IF code # "none" THEN code
                 ELSE IF state = "timed_out" THEN "timeout" ELSE "interrupted"

Outcome == IF state = "exited" THEN code
           ELSE IF state = "timed_out" THEN "timeout" ELSE "interrupted"

DrainedEarly ==
  /\ pc = "drain" /\ faults = {}
  /\ Unwind(Outcome)
  /\ UNCHANGED <<treeVars, outVars, interrupts>>

Drained ==
  /\ pc = "drain" /\ reader = "done" /\ faults = {}
  /\ Unwind(Outcome)
  /\ UNCHANGED <<treeVars, outVars, interrupts>>

DrainFailsAtEnd ==
  /\ pc = "drain" /\ reader = "done"
  /\ Unwind("execution_error")
  /\ UNCHANGED <<treeVars, outVars, interrupts>>

(* The reader misses its deadline, has an error to report, or the bounded   *)
(* view of the last lines cannot be written.                                *)
DrainFails ==
  /\ pc = "drain"
  /\ Unwind("execution_error")
  /\ UNCHANGED <<treeVars, outVars, interrupts>>

(* ProcessTree.close: whatever was raised, the group is killed first. *)
CloseGroupLeft ==
  /\ pc = "close" /\ pc' = "closed"
  /\ stopped' = (stopped \/ ~TreeHasProcesses)
  /\ UNCHANGED <<treeVars, outVars, state, cause, result, interrupts>>

Close ==
  /\ pc = "close"
  /\ IF stopped \/ ~TreeHasProcesses
     THEN stopped' = TRUE /\ pc' = "closed" /\ UNCHANGED treeVars
     ELSE Kill /\ pc' = "closing" /\ UNCHANGED stopped
  /\ UNCHANGED <<outVars, state, cause, result, interrupts>>

(* Its own OSError is dropped, since an exception is under way. *)
Closed ==
  /\ pc = "closing" /\ pc' = "closed"
  /\ stopped' = ~TreeHasProcesses
  /\ UNCHANGED <<treeVars, outVars, state, cause, result, interrupts>>

(* _finish_capture_after_process_error waits for the reader, not for long. *)
FinishCapture ==
  /\ pc = "closed" /\ Goto("rewind")
  /\ UNCHANGED <<treeVars, outVars>>

(* The log is rewound and read; with_cleanup_error keeps what failed first. *)
Rewind ==
  /\ pc = "rewind" /\ Goto("reading")
  /\ UNCHANGED <<treeVars, outVars>>

WithCleanupError(kind) == IF kind = "zero" THEN "execution_error" ELSE kind

Finish(kind, output) ==
  /\ pc = "reading" /\ pc' = "done"
  /\ result' = [kind |-> kind, output |-> output]
  /\ UNCHANGED <<treeVars, outVars, state, stopped, cause, interrupts>>

ReadLog == Finish(IF mirror THEN WithCleanupError(cause) ELSE cause, log)
ReadLogFails == Finish(WithCleanupError(cause), NoLog)
CloseLogFails == Finish(WithCleanupError(cause), log)

(* Ctrl-C in a blocking call.  While the root is awaited it is a state of   *)
(* the tree; afterwards it is an exception that replaces the outcome; in    *)
(* the handler of that exception nobody catches it any more.                *)
Interrupt ==
  /\ interrupts < MaxInterrupts /\ interrupts' = interrupts + 1
  /\ \/ Classified("interrupted")
     \/ /\ pc \in {"start", "grace", "forced", "drain"} /\ Unwind("interrupted")
        /\ UNCHANGED <<treeVars, outVars>>
     \/ /\ pc = "closing" /\ pc' = "closed" /\ cause' = "interrupted"
        /\ UNCHANGED <<treeVars, outVars, state, stopped, result>>
     \/ /\ pc = "closed" /\ reader = "running" /\ pc' = "raised"
        /\ UNCHANGED <<treeVars, outVars, state, stopped, cause, result>>

Control ==
  \/ Spawn \/ SpawnFails \/ LogUnavailable \/ StartCapture
  \/ RootExits \/ TimeOut \/ RequestStop \/ TreeStopped \/ ForceStop
  \/ ForceStopFails \/ Drained \/ DrainFails \/ Close \/ Closed
  \/ FinishCapture \/ Rewind \/ ReadLog \/ ReadLogFails \/ CloseLogFails

Next == Entrypoint \/ Reader \/ Control \/ Interrupt
Spec == Init /\ [][Next]_vars
FairSpec == Spec /\ WF_vars(Control)

-----------------------------------------------------------------------------

TypeOK ==
  /\ proc \in [Processes -> {"none", "running", "killed", "gone"}]
  /\ code \in {"none", "zero", "nonzero"} /\ signalled \in BOOLEAN
  /\ sent \in 0..MaxOutput /\ read \in 0..sent
  /\ log \in [chunks : 0..MaxOutput, spoiled : BOOLEAN]
  /\ faults \subseteq {"log", "text", "read"} /\ mirror \in BOOLEAN
  /\ reader \in {"none", "running", "done"}
  /\ pc \in {"spawn", "start", "wait", "stop", "grace", "forced", "drain", "close",
             "closing", "closed", "rewind", "reading", "done", "raised"}
  /\ state \in {"running", "exited", "timed_out", "interrupted"}
  /\ stopped \in BOOLEAN /\ cause \in Kinds /\ interrupts \in 0..MaxInterrupts
  /\ result \in [kind : Kinds, output : [chunks : 0..MaxOutput, spoiled : BOOLEAN]]

(* However the run ends, by exit, timeout, failure or any number of Ctrl-C,  *)
(* no process of the group still runs unharmed: each is gone or has         *)
(* SIGKILL pending; and an exit status or a timeout is only reported when    *)
(* they all are gone.                                                       *)
NothingSurvives ==
  pc \in {"closed", "rewind", "reading", "done", "raised"} =>
    /\ \A p \in Group : proc[p] # "running"
    /\ result.kind \in {"zero", "nonzero", "timeout"} =>
         \A p \in Group : ~Alive(p)

(* An exit status that is reported is the one the root ended with, and it   *)
(* ended before PatchHarbor sent it any signal.                             *)
ExitStatusIsTrue ==
  result.kind \in {"zero", "nonzero"} => result.kind = code /\ ~signalled

(* The output reported with an exit status or a timeout is complete: every  *)
(* chunk any process wrote, in its place, though the log is read while other *)
(* threads may hold it.                                                     *)
OutputIsComplete ==
  result.kind \in {"zero", "nonzero", "timeout"} =>
    result.output \in {[chunks |-> sent, spoiled |-> FALSE]} \cup
                     (IF result.kind = "zero" THEN {} ELSE {NoLog})

(* No wait of the controlling thread is unbounded: whatever the processes   *)
(* of the entrypoint do or refuse to do, the run ends.                      *)
RunEnds == <>(pc \in {"done", "raised"})
=============================================================================
