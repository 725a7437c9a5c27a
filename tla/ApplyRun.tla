------------------------------ MODULE ApplyRun ------------------------------
(***************************************************************************)
(* One request as a whole (application_apply.py, application_results.py,    *)
(* apply_repository.py, apply_mutation.py and the manual bundle): reserve   *)
(* the Result, take the repository lock, check, record the attempt, write   *)
(* the payload, run the entrypoint (Execution), publish the Result          *)
(* (ResultPublication), record the outcome, let everything go.  PatchHarbor *)
(* may be killed at any moment; the entrypoint, a session of its own, then   *)
(* runs on.                                                                 *)
(***************************************************************************)
EXTENDS Integers, Execution, ResultPublication

CONSTANT None

R == INSTANCE RunReports

VARIABLES
  op,       \* the request: a tracked or an untracked package, dry run, bundle
  phase,    \* control point of the request
  lock,     \* who holds the repository lock
  ledger,   \* status of the package in the ledger, as far as this run set it
  primary,  \* kind of the primary outcome the report carries
  sound,    \* history: the entrypoint really ended well and its log is complete
  refused,  \* history: the outcome the ledger refused
  answer    \* what the caller gets

flowVars == <<op, phase, lock, ledger, primary, sound, refused, answer>>
runVars == <<vars, publicationVars, flowVars>>

Successes == {"success", "dry", "zero"}
Failures == {"tool_error", "write_failure", "ledger_error", "nonzero", "timeout",
             "interrupted", "execution_error", "interpreter_error"}

ApplyInit ==
  /\ Init /\ PublicationInit
  /\ op \in {"tracked", "untracked", "dry_run", "bundle"} /\ phase = "idle"
  /\ lock = "free" /\ ledger = "none" /\ primary = "none"
  /\ sound = FALSE /\ refused = "none" /\ answer = "none"

To(there) == phase' = there
Fails(kind) == To("publish") /\ primary' = kind

AnswerOfPrimary(kind) == IF kind \notin Successes THEN kind ELSE "success"

(* completed_process_exit_code: the primary failure first, then the bundle. *)
Answer(kind) ==
  IF kind \notin Successes THEN kind
  ELSE IF report.status = "failed" THEN "result_bundle_error" ELSE "success"

-----------------------------------------------------------------------------
(* Before the first effect.                                                 *)

Resolve ==
  /\ phase = "idle" /\ op # "bundle" /\ Reserve /\ To("resolve")
  /\ UNCHANGED <<vars, op, lock, ledger, primary, sound, refused, answer>>

Unresolvable ==
  /\ phase = "idle" /\ op # "bundle" /\ ReserveFails /\ To("over")
  /\ answer' = "tool_error"
  /\ UNCHANGED <<vars, op, lock, ledger, primary, sound, refused>>

LockRepository ==
  /\ phase = "resolve" /\ op # "bundle" /\ lock = "free"
  /\ lock' = "us" /\ To("locked")
  /\ UNCHANGED <<vars, publicationVars, op, ledger, primary, sound, refused, answer>>

(* The lock is busy; or registration, identity, target or state turn out    *)
(* not to be what they were.                                                *)
NotResolved ==
  /\ phase \in {"resolve", "locked"} /\ op # "bundle" /\ To("unwind")
  /\ answer' = "tool_error"
  /\ UNCHANGED <<vars, publicationVars, op, lock, ledger, primary, sound, refused>>

Preflight ==
  /\ phase = "locked"
  /\ IF op = "dry_run" THEN Fails("dry") ELSE To("recheck") /\ UNCHANGED primary
  /\ UNCHANGED <<vars, publicationVars, op, lock, ledger, sound, refused, answer>>

(* Before the gate or at it: binding, package, targets, admission, the      *)
(* second look at the state, or the ledger refuses the attempt.             *)
ChecksRefuse ==
  /\ phase \in {"locked", "recheck"} /\ Fails("tool_error")
  /\ UNCHANGED <<vars, publicationVars, op, lock, ledger, sound, refused, answer>>

PassGate ==
  /\ phase = "recheck" /\ To("write")
  /\ ledger' = IF op = "tracked" THEN "attempted" ELSE ledger
  /\ UNCHANGED <<vars, publicationVars, op, lock, primary, sound, refused, answer>>

WritePayload ==
  /\ phase = "write" /\ To("run")
  /\ UNCHANGED <<vars, publicationVars, op, lock, ledger, primary, sound, refused,
                 answer>>

(* A payload that cannot be written is an outcome, and recorded at once.    *)
PayloadFails ==
  /\ phase = "write" /\ To("unwritten") /\ primary' = "write_failure"
  /\ UNCHANGED <<vars, publicationVars, op, lock, ledger, sound, refused, answer>>

RecordPayloadFailure ==
  /\ phase = "unwritten" /\ To("publish")
  /\ ledger' = IF op = "tracked" THEN "failed" ELSE ledger
  /\ UNCHANGED <<vars, publicationVars, op, lock, primary, sound, refused, answer>>

PayloadOutcomeRefused ==
  /\ phase = "unwritten" /\ op = "tracked" /\ Fails("ledger_error")
  /\ refused' = primary
  /\ UNCHANGED <<vars, publicationVars, op, lock, ledger, sound, answer>>

-----------------------------------------------------------------------------
(* The entrypoint.                                                          *)

Execute ==
  /\ phase = "run" /\ (Control \/ Reader)
  /\ UNCHANGED <<publicationVars, flowVars>>

ExecuteInterrupted ==
  /\ phase = "run" /\ Interrupt
  /\ UNCHANGED <<publicationVars, flowVars>>

(* Pipe, log and thread are of no interest once the result is there.        *)
Forget ==
  /\ sent' = 0 /\ read' = 0 /\ log' = NoLog /\ faults' = {} /\ mirror' = FALSE
  /\ reader' = "none"
  /\ pc' = "spawn" /\ state' = "running" /\ stopped' = FALSE /\ cause' = "none"
  /\ result' = NoResult

Executed ==
  /\ phase = "run" /\ pc = "done" /\ Fails(result.kind)
  /\ sound' = (code = "zero" /\ ~signalled
               /\ result.output = [chunks |-> sent, spoiled |-> FALSE])
  /\ Forget
  /\ UNCHANGED <<treeVars, interrupts, publicationVars, op, lock, ledger, refused,
                 answer>>

ExecuteRaised ==
  /\ phase = "run" /\ pc = "raised" /\ To("unwind") /\ answer' = "raised"
  /\ Forget
  /\ UNCHANGED <<treeVars, interrupts, publicationVars, op, lock, ledger, primary,
                 sound, refused>>

-----------------------------------------------------------------------------
(* The Result, the outcome and the way out.                                 *)

(* A manual bundle has its run directory before it has the lock, ...        *)
BundleBegins ==
  /\ phase = "idle" /\ op = "bundle" /\ (Begin \/ NoRunDirectory)
  /\ Fails("success")
  /\ UNCHANGED <<vars, op, lock, ledger, sound, refused, answer>>

BundleLocks ==
  /\ phase = "publish" /\ op = "bundle" /\ step = "capture" /\ lock = "free"
  /\ lock' = "us"
  /\ UNCHANGED <<vars, publicationVars, op, phase, ledger, primary, sound, refused,
                 answer>>

(* ... and has left the lock when it tidies up.                             *)
LockKept ==
  lock' = IF op = "bundle" /\ lock = "us" /\ step' \in {"rescue", "cleanup", "ended"}
          THEN "free" ELSE lock

(* Only a successful, committed run of a tracked package is pinned.         *)
CaptureResult ==
  /\ lock = "us"
  /\ Capture(FALSE) \/ (op = "tracked" /\ primary = "zero" /\ Capture(TRUE))

Publish ==
  /\ phase = "publish"
  /\ \/ op # "bundle" /\ (Begin \/ NoRunDirectory)
     \/ CaptureResult \/ Publication
  /\ LockKept
  /\ UNCHANGED <<vars, op, phase, ledger, primary, sound, refused, answer>>

Published ==
  /\ phase = "publish" /\ report.status # "none"
  /\ To(IF op = "tracked" /\ primary \in Kinds THEN "outcome" ELSE "unwind")
  /\ answer' = Answer(primary)
  /\ UNCHANGED <<vars, publicationVars, op, lock, ledger, primary, sound, refused>>

RecordOutcome ==
  /\ phase = "outcome" /\ To("unwind")
  /\ ledger' = IF primary = "zero" THEN "succeeded" ELSE "failed"
  /\ UNCHANGED <<vars, publicationVars, op, lock, primary, sound, refused, answer>>

OutcomeRefusedSilently ==
  /\ phase = "outcome" /\ To("unwind") /\ refused' = primary
  /\ UNCHANGED <<vars, publicationVars, op, lock, ledger, primary, sound, answer>>

OutcomeRefused ==
  /\ phase = "outcome" /\ To("unwind") /\ refused' = primary
  /\ primary' = "ledger_error" /\ answer' = Answer("ledger_error")
  /\ UNCHANGED <<vars, publicationVars, op, lock, ledger, sound>>

(* The scope unwinds: first the lock, then the reservation.                 *)
Unlock ==
  /\ phase = "unwind" /\ To("release")
  /\ lock' = IF lock = "us" THEN "free" ELSE lock
  /\ UNCHANGED <<vars, publicationVars, op, ledger, primary, sound, refused, answer>>

LetGo ==
  /\ phase = "release" /\ Release /\ To("over")
  /\ UNCHANGED <<vars, op, lock, ledger, primary, sound, refused, answer>>

Ours ==
  \/ Resolve \/ Unresolvable \/ LockRepository \/ NotResolved \/ Preflight
  \/ ChecksRefuse \/ PassGate \/ WritePayload \/ PayloadFails
  \/ RecordPayloadFailure \/ PayloadOutcomeRefused
  \/ Execute \/ Executed \/ ExecuteRaised
  \/ BundleBegins \/ BundleLocks \/ Publish \/ Published \/ RecordOutcome
  \/ OutcomeRefused \/ Unlock \/ LetGo

-----------------------------------------------------------------------------
(* What is not up to PatchHarbor.                                           *)

CtrlC ==
  /\ interrupts < MaxInterrupts /\ interrupts' = interrupts + 1
  /\ \/ phase \in {"resolve", "locked", "recheck", "write", "unwritten", "outcome"}
        /\ UNCHANGED publicationVars
     \/ phase = "publish" /\ Cancel
  /\ To("unwind") /\ answer' = "raised"
  /\ UNCHANGED <<treeVars, outVars, pc, state, stopped, cause, result>>
  /\ UNCHANGED <<op, lock, ledger, primary, sound, refused>>

(* SIGKILL or a power cut of PatchHarbor alone.                             *)
Killed ==
  /\ phase \notin {"over", "dead"} /\ To("dead")
  /\ lock' = IF lock = "us" THEN "free" ELSE lock
  /\ Forget
  /\ UNCHANGED <<treeVars, interrupts, publicationVars, op, ledger, primary, sound,
                 refused, answer>>

EntrypointRuns ==
  /\ \E p \in Processes : Fork(p) \/ Exit(p) \/ (phase = "run" /\ Write(p))
  /\ UNCHANGED <<publicationVars, flowVars>>

DirectoryChanges ==
  /\ phase \notin {"over", "dead"} /\ Others
  /\ UNCHANGED <<vars, flowVars>>

LockMoves ==
  /\ lock' = CASE lock = "free" -> "other" [] lock = "other" -> "free" [] OTHER -> lock
  /\ phase \in {"resolve", "publish", "over", "dead"}
  /\ UNCHANGED <<vars, publicationVars, op, phase, ledger, primary, sound, refused,
                 answer>>

ApplyNext == Ours \/ CtrlC \/ ExecuteInterrupted \/ Killed \/ EntrypointRuns
             \/ DirectoryChanges \/ LockMoves
ApplySpec == ApplyInit /\ [][ApplyNext]_runVars /\ WF_runVars(Ours)

-----------------------------------------------------------------------------

ApplyTypeOK ==
  /\ TypeOK /\ PublicationTypeOK
  /\ op \in {"tracked", "untracked", "dry_run", "bundle"}
  /\ phase \in {"idle", "resolve", "locked", "recheck", "write", "unwritten", "run",
                "publish", "outcome", "unwind", "release", "over", "dead"}
  /\ lock \in {"free", "us", "other"}
  /\ ledger \in {"none", "attempted", "succeeded", "failed"}
  /\ primary \in {"none"} \cup Successes \cup Failures
  /\ sound \in BOOLEAN /\ refused \in {"none"} \cup Successes \cup Failures
  /\ answer \in {"none", "success", "raised", "result_bundle_error"} \cup Failures

(* As long as PatchHarbor lives, no process of the entrypoint's group works  *)
(* on a repository whose lock it does not hold, or while the Result is      *)
(* captured: no other request and no Result sees a half-done entrypoint.    *)
GroupUnderLock ==
  (\E p \in Group : proc[p] = "running") /\ phase # "dead" =>
    lock = "us" /\ step = "reserved"

(* However a living run ends, it takes back its reservation and what it     *)
(* wrote, unless somebody else touched the file before it was opened.       *)
NoLeftover == phase = "over" /\ temp.by = "us" => temp.holds = "spoiled"

(* The caller is told of success only if the entrypoint ended with zero     *)
(* before any signal, its log is complete, the Result stands at its path    *)
(* and a tracked package has `succeeded'; and the ledger says so only of     *)
(* such a run, whatever is told of it.                                      *)
SuccessIsEarned ==
  /\ answer = "success" /\ phase = "over" =>
       /\ report.status = "created"
       /\ op \in {"tracked", "untracked"} => sound
       /\ op = "tracked" => ledger = "succeeded"
  /\ ledger = "succeeded" => op = "tracked" /\ sound

(***************************************************************************)
(* In detail: which outcomes a kind stands for, and whether an execution    *)
(* log is there to go with them.                                            *)
(***************************************************************************)
Ran(started, exit, e) == [outcome |-> R!FromExecution(started, exit, e), log |-> started]
Broke(started, reason) == Ran(started, None, R!Error(reason, "tool_error"))
NotRun(outcome) == [outcome |-> outcome, log |-> FALSE]

GateErrors ==
  R!Categorized \cup R!Uncategorized({"source_error", "no_valid_script", "interpreter_error",
                                      "payload_preparation_error", "execution_error"})

Unwritten == R!Error("payload_preparation_error", "tool_error")
Unrecorded == R!Error("patch_package_error", "patch_package_error")

OutcomesOf ==
  [success |-> {NotRun(R!Outcome(R!Success, None))},
   dry |-> {NotRun(R!Outcome(R!DryRunSuccess, None))},
   zero |-> {Ran(TRUE, 0, None)}, nonzero |-> {Ran(TRUE, exit, None) : exit \in {1, 124, -9}},
   timeout |-> {Broke(TRUE, "timeout")}, interrupted |-> {Broke(TRUE, "interrupted")},
   execution_error |-> {Broke(started, "execution_error") : started \in BOOLEAN},
   interpreter_error |-> {Broke(FALSE, "interpreter_error")},
   tool_error |-> {NotRun(R!FromToolError(e)) : e \in GateErrors},
   write_failure |-> {NotRun(R!FromToolError(Unwritten))},
   ledger_error |-> {NotRun(R!FromToolError(Unrecorded))}]

Operation(request) == IF request = "bundle" THEN "bundle" ELSE "apply"

Commits == {"base", "later", "rewritten"}
Contexts ==
  {[base |-> base, dirty |-> dirty, state |-> IF dirty THEN "dirty" ELSE "clean"] :
     base \in Commits, dirty \in BOOLEAN}
Before == {c \in Contexts : c.base # "rewritten"}

\* None is no number, reason, commit, error, context, binding or receipt.
ASSUME NoneIsNothing ==
  /\ None \notin Int \cup DOMAIN R!ExitOf \cup Commits
  /\ None \notin GateErrors \cup R!Uncategorized({"timeout", "interrupted"})
  /\ None \notin Contexts \cup {R!Binding(c) : c \in Contexts}
  /\ None \notin {[completed |-> commit] : commit \in Commits \cup {None}}

\* The documents of one run, and the reader's view of them.
ReadBack(request, run, pins, before, expected, after, changes, ended, runtime, known, ancestor) ==
  LET outcome == run.outcome
      r == R!Report(Operation(request), request = "dry_run", after, outcome, "created",
                    R!Clock(1, ended))
      receipt == IF request = "bundle" THEN None
                 ELSE R!Receipt(r, before, expected, known, ancestor)
      d == R!Documents(r, runtime, IF request = "bundle" THEN None ELSE expected, receipt,
                       run.log, changes)
      committed == receipt # None /\ receipt.completed # None
      kept == outcome.primary.success /\ request # "bundle" =>
                R!Format(expected.base) = R!Format(after.base)
  IN  (request = "tracked" => pins = committed) =>
        /\ R!ConsistentReport(r) /\ R!Writable(d)
        /\ R!Reads(d) <=> after.dirty = changes /\ ended >= 1 /\ kept
        /\ R!Reads(d) => /\ R!Facts(d).primary = outcome.primary
                         /\ R!Facts(d).completed = IF committed THEN after.base ELSE None

Requests ==
  {<<request, kind, pins>> : request \in {"tracked", "untracked", "dry_run", "bundle"},
                             kind \in DOMAIN OutcomesOf, pins \in BOOLEAN}

ReadableRequests ==
  {t \in Requests :
     \A run \in OutcomesOf[t[2]], before \in Before, after \in Contexts,
        changes \in BOOLEAN, ended \in {0, 1}, runtime \in {"embedded", "unavailable"},
        known \in BOOLEAN, ancestor \in BOOLEAN :
       \A expected \in {R!Binding(c) : c \in IF run.log THEN {before} ELSE Before} :
         ReadBack(t[1], run, t[3], before, expected, after, changes, ended, runtime,
                  known, ancestor)}

BundleFailure(e, context) == R!ManualFailure(e, TRUE, context, R!Clock(1, 1))

\* The report the caller gets.
Reports ==
  LET context == CHOOSE c \in Before : TRUE
      clock == R!Clock(1, 1)
      kind == IF primary = "none" THEN "tool_error" ELSE primary
  IN  IF report.status = "none"
      THEN {R!Report("apply", op = "dry_run", None, run.outcome, "not_attempted", clock) :
              run \in OutcomesOf[kind]}
      ELSE IF op = "bundle" /\ report.status = "failed"
      THEN {BundleFailure(e, c) : e \in GateErrors, c \in {None, context}}
      ELSE {R!Report(Operation(op), op = "dry_run", context, run.outcome, report.status, clock) :
              run \in OutcomesOf[kind]}

AnswersWith(r) ==
  /\ R!Succeeded(r) <=> R!ExitStatus(r) = 0
  /\ answer = "success" <=> R!ExitStatus(r) = 0
  /\ answer = "result_bundle_error" => R!ExitStatus(r) = R!ExitOf.result_bundle_error
  /\ answer \in {"timeout", "interrupted"} => R!ExitStatus(r) = R!ExitOf[answer]
  /\ op # "bundle" =>
       LET e == R!ReportedError(r)
       IN  /\ answer \in {"success", "nonzero"} <=> e = None
           /\ e # None => R!ExitStatus(r) = R!ExitOf[e.reason]

\* The outcome the Result was made with; a later refusal of the ledger is not in it.
InResult == IF refused \in {"none", "write_failure"} THEN primary ELSE refused

(* However a run ends, its report is one the constructors accept and its     *)
(* exit status, its error and its success say the same; and a Result that    *)
(* is published is read back as what the run was - outcome, execution log    *)
(* and completed commit - although the documents keep only the number of a   *)
(* failure, provided the capture tells dirt from changes alike, the clock    *)
(* was not set back and the repository kept its object format               *)
(* (run_report.py, result_bundle.py, result_reader.py).                      *)
ReportsAreRead ==
  /\ answer \notin {"none", "raised"} =>
       \A r \in Reports : R!ConsistentReport(r) /\ AnswersWith(r)
  /\ report.status = "created" => <<op, InResult, proof>> \in ReadableRequests

(* Every request comes to an end by itself: no lock, no entrypoint and no    *)
(* directory that never becomes stable holds it up for ever.                *)
RequestEnds == <>(phase \in {"over", "dead"})
=============================================================================
