----------------------------- MODULE RunReports -----------------------------
(***************************************************************************)
(* What a run says of itself: errors and their categories (errors.py), the *)
(* primary outcome and the report with what their constructors refuse      *)
(* (run_report.py, exit_status.py), the documents of a Result              *)
(* (result_bundle.py, archive_git.py), and the reader that verifies a      *)
(* Result before it is published and recovers runs from it later           *)
(* (result_reader.py, result_pyz.py).  Operators only, no state.           *)
(*                                                                         *)
(* The documents keep the number of a failure, not its category.  Texts,   *)
(* paths, identities and the inventory of the snapshot are left out.       *)
(***************************************************************************)
EXTENDS Integers

CONSTANT None

(***************************************************************************)
(* Errors: the reason decides the exit code, the kind is what JSON shows.  *)
(***************************************************************************)
Error(reason, kind) == [reason |-> reason, kind |-> kind]
Uncategorized(reasons) == {Error(r, "tool_error") : r \in reasons}

ExitOf ==
  [usage_error |-> 2, no_valid_script |-> 3, source_error |-> 4, interpreter_error |-> 5,
   payload_preparation_error |-> 6, execution_error |-> 7, repository_error |-> 8,
   state_mismatch |-> 9, patch_package_error |-> 10, result_bundle_error |-> 11,
   repository_busy |-> 12, unsupported_repository_state |-> 13, timeout |-> 124,
   interrupted |-> 130]

ReasonOf(number) == CHOOSE r \in DOMAIN ExitOf : ExitOf[r] = number

SameName == {"state_mismatch", "patch_package_error", "result_bundle_error",
             "repository_busy", "unsupported_repository_state"}

Categorized ==
  {Error(name, name) : name \in SameName}
  \cup {Error("repository_error", kind) : kind \in {"registry_error", "repository_resolution_error"}}
  \cup {Error("source_error", kind) : kind \in {"configuration_error", "admission_rejected"}}

RepositoryKinds == {"registry_error", "repository_resolution_error",
                    "unsupported_repository_state"}
ValidationReasons == {"source_error", "no_valid_script", "interpreter_error",
                      "payload_preparation_error", "patch_package_error"}

\* PrimaryResultKind.for_tool_error
KindOf(e) ==
  CASE e.reason \in {"timeout", "interrupted"} -> e.reason
    [] e.kind \in {"state_mismatch", "repository_busy"} -> e.kind
    [] e.kind \in RepositoryKinds -> "repository_error"
    [] e.reason \in ValidationReasons -> "validation_error"
    [] OTHER -> "execution_error"

(***************************************************************************)
(* The primary outcome.                                                    *)
(***************************************************************************)
Primary(kind, success, reason) ==
  [kind |-> kind, success |-> success, reason |-> reason, started |-> FALSE,
   code |-> None, timed_out |-> FALSE, interrupted |-> FALSE]

Success == Primary("success", TRUE, None)
DryRunSuccess == Primary("dry_run_success", TRUE, None)
EntrypointSuccess == [Success EXCEPT !.started = TRUE, !.code = 0]
EntrypointExit(number) ==
  [Primary("entrypoint_exit", FALSE, None) EXCEPT !.started = TRUE, !.code = number]
Timeout ==
  [Primary("timeout", FALSE, "timeout") EXCEPT !.started = TRUE, !.timed_out = TRUE]
Interrupted ==
  [Primary("interrupted", FALSE, "interrupted") EXCEPT !.started = TRUE, !.interrupted = TRUE]
ToolFailure(e) == Primary(KindOf(e), FALSE, e.reason)

\* PrimaryResult.__post_init__
Consistent(p) ==
  IF p.success
  THEN /\ p.reason = None /\ ~p.timed_out /\ ~p.interrupted
       /\ p.code = IF p.started THEN 0 ELSE None
  ELSE CASE p.kind = "entrypoint_exit" -> p.code \notin {None, 0} /\ p = EntrypointExit(p.code)
         [] p.kind = "timeout" -> p = Timeout
         [] p.kind = "interrupted" -> p = Interrupted
         [] OTHER -> p.code = None /\ p.reason # None /\ ~p.timed_out /\ ~p.interrupted

Outcome(p, error) == [primary |-> p, error |-> error]

FromToolError(e) ==
  Outcome(CASE e.reason = "timeout" -> Timeout [] e.reason = "interrupted" -> Interrupted
            [] OTHER -> ToolFailure(e), e)

Completed(number) ==
  Outcome(IF number = 0 THEN EntrypointSuccess ELSE EntrypointExit(number), None)

\* Only a started entrypoint times out, is interrupted or has an exit status.
FromExecution(started, number, e) ==
  CASE e = None -> Completed(number)
    [] e # None /\ e.reason \in {"timeout", "interrupted"} -> FromToolError(e)
    [] OTHER -> Outcome([ToolFailure(e) EXCEPT !.started = started], e)

ConsistentOutcome(o) ==
  /\ Consistent(o.primary)
  /\ o.primary.reason = IF o.error = None THEN None ELSE o.error.reason

(***************************************************************************)
(* The report.                                                             *)
(***************************************************************************)
Bundle(status) == [attempted |-> status # "not_attempted", status |-> status,
                   error |-> status # "created"]

Clock(started, ended) == [started |-> started, ended |-> ended]

Report(operation, dry_run, context, outcome, status, clock) ==
  [operation |-> operation, dry_run |-> dry_run, context |-> context, warnings |-> {},
   resolved |-> context # None, primary |-> outcome.primary, error |-> outcome.error,
   bundle |-> Bundle(status), clock |-> clock]

\* RunReport.__post_init__
ConsistentReport(r) ==
  /\ r.operation = "apply" =>
       /\ r.resolved = (r.context # None)
       /\ ConsistentOutcome(Outcome(r.primary, r.error))
       /\ r.error # None => KindOf(r.error) = r.primary.kind
  /\ r.bundle.status = "not_attempted" => ~r.resolved
  /\ r.operation = "bundle" =>
       /\ ~r.dry_run /\ ~r.primary.started
       /\ r.primary.success <=> r.bundle.status = "created"

PrimaryExit(p) ==
  IF p.code # None THEN p.code ELSE IF p.reason # None THEN ExitOf[p.reason] ELSE 0

\* completed_process_exit_code
ExitStatus(r) ==
  IF r.operation = "bundle"
  THEN IF r.primary.success /\ r.bundle.status = "created" THEN 0 ELSE ExitOf.result_bundle_error
  ELSE IF r.primary.success /\ r.bundle.status = "failed" THEN ExitOf.result_bundle_error
  ELSE PrimaryExit(r.primary)

Succeeded(r) == r.primary.success /\ r.bundle.status # "failed"

\* completion_tool_error
ReportedError(r) ==
  IF r.error # None THEN r.error
  ELSE IF r.primary.success /\ r.bundle.status = "failed"
  THEN Error("result_bundle_error", "result_bundle_error") ELSE None

\* The repository may be resolved although its context is not yet captured.
ManualFailure(e, resolved, context, clock) ==
  [Report("bundle", FALSE, context, FromToolError(e),
          IF resolved THEN "failed" ELSE "not_attempted", clock)
     EXCEPT !.resolved = resolved, !.error = None]

(***************************************************************************)
(* The documents.  A binding is a commit and a state; a context tells also *)
(* whether it is dirty, a capture whether it holds any change.             *)
(***************************************************************************)
Binding(context) == [base |-> context.base, state |-> context.state]

\* completed_commit_for_context, given whether history shows the ancestry
CompletedCommit(before, after, ancestor) ==
  IF before.base # after.base /\ ~after.dirty /\ ancestor THEN after.base ELSE None

Receipt(r, before, expected, known, ancestor) ==
  IF ~known THEN None
  ELSE [completed |->
          IF r.primary.success /\ r.primary.started /\ ~r.dry_run /\ before.base = expected.base
          THEN CompletedCommit(before, r.context, ancestor) ELSE None]

PrimaryDocument(p) ==
  [kind |-> p.kind, success |-> p.success, started |-> p.started, code |-> p.code,
   error |-> IF p.reason = None THEN None ELSE ExitOf[p.reason],
   timed_out |-> p.timed_out, interrupted |-> p.interrupted]

RunDocument(r) ==
  [operation |-> r.operation, dry_run |-> r.dry_run, clock |-> r.clock,
   resolved |-> r.resolved, binding |-> Binding(r.context), warnings |-> r.warnings,
   execution |-> r.primary.started, primary |-> PrimaryDocument(r.primary),
   bundle |-> r.bundle, exit |-> ExitStatus(r)]

ContextDocument(r) ==
  [binding |-> Binding(r.context), dirty |-> r.context.dirty, created |-> r.clock.started]

Manifest(r, runtime, expected, receipt) ==
  [binding |-> Binding(r.context), dirty |-> r.context.dirty, created |-> r.clock.started,
   dry_run |-> r.dry_run, started |-> r.primary.started, execution |-> r.primary.started,
   primary |-> r.primary.kind, status |-> r.bundle.status, runtime |-> runtime,
   expected |-> expected, actual |-> IF expected = None THEN None ELSE Binding(r.context),
   receipt |-> receipt]

WithRuntime(r, runtime) ==
  [r EXCEPT !.warnings = @ \cup IF runtime = "embedded" THEN {} ELSE {"runtime"}]

\* `logged' tells whether an execution log was handed over.
Documents(plain, runtime, expected, receipt, logged, changes) ==
  LET r == WithRuntime(plain, runtime)
  IN  [manifest |-> Manifest(r, runtime, expected, receipt), context |-> ContextDocument(r),
       run |-> RunDocument(r), log |-> logged, changes |-> changes,
       environment |-> Binding(r.context)]

\* write_result_bundle
Writable(documents) == documents.run.execution = documents.log

(***************************************************************************)
(* The reader.                                                             *)
(***************************************************************************)
CategoryByReason ==
  [r \in DOMAIN ExitOf |->
     IF r \in {"state_mismatch", "repository_busy", "unsupported_repository_state"} THEN r
     ELSE "tool_error"]

Category ==
  [r \in DOMAIN ExitOf |->
     CASE r = "repository_error" -> "repository_resolution_error"
       [] r \in {"state_mismatch", "repository_busy", "unsupported_repository_state"} -> r
       [] OTHER -> "tool_error"]

ReadPrimary(doc) ==
  [kind |-> doc.kind, success |-> doc.success, started |-> doc.started, code |-> doc.code,
   reason |-> IF doc.error = None THEN None ELSE ReasonOf(doc.error),
   timed_out |-> doc.timed_out, interrupted |-> doc.interrupted]

ReadablePrimary(p) ==
  /\ Consistent(p)
  /\ p.success <=> p.kind \in {"success", "dry_run_success"}
  /\ p.reason # None =>
       p.kind \in {KindOf(Error(p.reason, k)) : k \in {"tool_error", Category[p.reason]}}

Format(base) == IF base = "rewritten" THEN "sha256" ELSE "sha1"

ReadableExecution(run, p) ==
  /\ run.exit = PrimaryExit(p)
  /\ IF run.operation = "bundle" THEN ~run.dry_run /\ ~p.started /\ p.kind = "success"
     ELSE /\ run.dry_run => ~p.started
          /\ p.success => IF run.dry_run THEN p.kind = "dry_run_success"
                          ELSE p.kind = "success" /\ p.started

ReadableReceipt(d, p) ==
  d.manifest.receipt # None /\ d.manifest.receipt.completed # None =>
    /\ p.success /\ p.started /\ ~d.run.dry_run /\ ~d.context.dirty
    /\ d.manifest.receipt.completed = d.manifest.binding.base
    /\ d.manifest.receipt.completed # d.manifest.expected.base

\* _parse_result_payloads
Reads(d) ==
  LET p == ReadPrimary(d.run.primary)
  IN  /\ d.manifest.binding = d.context.binding /\ d.manifest.binding = d.run.binding
      /\ d.context.dirty = d.manifest.dirty /\ d.run.dry_run = d.manifest.dry_run
      /\ d.run.resolved /\ d.manifest.status = "created"
      /\ d.context.created = d.manifest.created /\ d.context.created = d.run.clock.started
      /\ d.run.clock.ended >= d.run.clock.started
      /\ ReadablePrimary(p) /\ d.manifest.primary = p.kind
      /\ {d.manifest.started, d.manifest.execution, d.run.execution, d.log} = {p.started}
      /\ d.run.bundle = Bundle("created")
      /\ ReadableExecution(d.run, p)
      /\ d.run.operation = "bundle" => d.manifest.expected = None
      /\ d.manifest.expected # None =>
           /\ p.success => Format(d.manifest.expected.base) = Format(d.manifest.binding.base)
           /\ d.manifest.actual = d.manifest.binding
      /\ ReadableReceipt(d, p)
      /\ d.environment = d.context.binding
      /\ d.manifest.runtime = "unavailable" => d.run.warnings # {}
      /\ d.context.dirty = d.changes
      /\ ~d.context.dirty => d.manifest.binding.state = "clean"

Facts(d) ==
  [context |-> d.context, operation |-> d.run.operation, dry_run |-> d.run.dry_run,
   primary |-> ReadPrimary(d.run.primary), expected |-> d.manifest.expected,
   completed |-> IF d.manifest.receipt = None THEN None ELSE d.manifest.receipt.completed]
=============================================================================
