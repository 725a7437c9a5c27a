--------------------------- MODULE RequestRefinement ---------------------------
(***************************************************************************)
(* One request of ApplyRun implements RequestContract, and through it, for   *)
(* its one package, the ReplayContract of the ledger.                        *)
(***************************************************************************)
EXTENDS ApplyRun

\* The outcome of the attempt; the report forgets it when the ledger refuses it.
Judged == IF refused = "none" THEN primary ELSE refused

fate ==
  IF phase \in {"write", "run"} THEN "open"
  ELSE CASE Judged = "zero" -> "ok"
         [] Judged \in {"success", "dry", "tool_error"} -> "none"
         [] Judged = "none" -> IF phase = "dead" \/ answer = "raised" THEN "lost" ELSE "none"
         [] OTHER -> "failed"

group ==
  IF \E p \in Group : proc[p] = "running" THEN "busy"
  ELSE IF proc["root"] = "none" THEN "none" ELSE "over"

AnswerClass(kind) ==
  CASE kind \in {"none", "success", "raised"} -> kind
    [] kind = "result_bundle_error" -> "unpublished"
    [] kind = "tool_error" -> "refused"
    [] kind = "ledger_error" -> "unrecorded"
    [] OTHER -> "failed"

\* The caller learns the answer when the request has let everything go.
told == IF phase = "over" THEN AnswerClass(answer) ELSE "none"

Request == INSTANCE RequestContract
             WITH asked <- op, alive <- phase # "dead", held <- lock = "us",
                  record <- ledger, placed <- placed # "nothing"

\* Whatever the user, the entrypoint, others in the directory and SIGKILL do:
\* lock, attempt, record, Result and answer come in the order and with the
\* meaning of the contract (apply_patch_package, bundle_repository).
KeepsRequestContract == Request!Spec

-----------------------------------------------------------------------------

\* An attempt is running as long as its process has the lock and may record the
\* outcome, and lost after that.
status ==
  [x \in {"package"} |->
     CASE ledger = "none" -> "fresh"
       [] ledger = "attempted" -> IF lock = "us" THEN "running" ELSE "lost"
       [] OTHER -> ledger]

truth ==
  [x \in {"package"} |->
     IF ledger = "none" THEN "none"
     ELSE CASE fate = "ok" -> "ok" [] fate = "failed" -> "fail" [] OTHER -> "open"]

Replay == INSTANCE ReplayContract WITH Patches <- {"package"}

\* A request is one of the runs the ledger's contract speaks of: it begins,
\* executes, ends or is lost as ReplayContract says, and never recovers itself.
KeepsLedgerContract == Replay!Spec
=============================================================================
