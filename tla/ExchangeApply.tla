---------------------------- MODULE ExchangeApply ----------------------------
(***************************************************************************)
(* One registered repository, its Exchange directory, the persistent       *)
(* replay ledger (exchange_state.py) and any number of concurrent          *)
(* `patchharbor apply` invocations: the watcher's automatic Apply, manual  *)
(* parameterless Apply and explicit Apply of a path.                       *)
(*                                                                         *)
(* A package is named by its Exchange identity (path plus SHA-256 of its   *)
(* bytes); a Result's SHA-256 is named by the run that wrote it.  Each     *)
(* critical section under the replay-state lock is one action: the lock is *)
(* never waited for, and a section that finds it held fails like any other *)
(* tool error (Refuse, Lose, SkipRecord, ...).  The repository lock        *)
(* outlives its sections and is the variable `lock'.                       *)
(***************************************************************************)
EXTENDS Naturals, FiniteSets

CONSTANTS
  Procs,      \* PatchHarbor invocations that may run at the same time
  Patches,    \* Exchange identities of the packages users deliver
  Modes,      \* the Apply origins in use, a subset of AllModes
  Others,     \* what else happens, a subset of AllOthers
  MaxCommit,  \* bound: commits of the repository are 1..MaxCommit
  MaxRuns,    \* bound: runs that cross the apply-start boundary: 1..MaxRuns
  Rank,       \* selection order of the packages: newest first, then by name
  NoProc,     \* the repository lock is free
  NoPatch     \* no package selected

AllModes == {"automatic", "manual", "explicit"}
AllOthers == {"withdraw", "take", "commit", "reset", "edit", "crash"}

ASSUME ConstantsAssumption ==
  /\ Modes \subseteq AllModes
  /\ Others \subseteq AllOthers
  /\ MaxCommit \in Nat \ {0}
  /\ MaxRuns \in Nat
  /\ Rank \in [Patches -> Nat]
  /\ \A x, y \in Patches : Rank[x] = Rank[y] => x = y
  /\ NoProc \notin Procs
  /\ NoPatch \notin Patches

VARIABLES
  ledger,   \* exchange-state.json: one record per identity
  files,    \* packages on the active level of the Exchange
  results,  \* clean successful Results there, named by their run
  receipt,  \* what the Result of a run says
  binding,  \* the manifest of each package: the repository state it is for
  repo,     \* the repository: its HEAD and its working-tree fingerprint
  anc,      \* ancestors of each commit, itself included
  lock,     \* holder of the repository lock
  pc,       \* control point of each invocation
  job,      \* local variables of each invocation
  runs      \* history: the package, origin and true fate of every run

repoVars == <<repo, anc>>
diskVars == <<ledger, files, results, receipt, binding>>
vars == <<ledger, files, results, receipt, binding, repo, anc, lock, pc, job,
          runs>>

Commits == 1 .. MaxCommit
NoCommit == 0
RunIds == 1 .. MaxRuns
NoRun == 0
\* Two working trees are told apart by their fingerprint; one dirty content.
States == [head : Commits, tree : {"clean", "dirty"}]
FirstState == [head |-> 1, tree |-> "clean"]
Unbound == [head |-> NoCommit, tree |-> "clean"]
Statuses == {"absent", "fresh", "attempted", "failed", "succeeded"}

\* A ledger record: "absent" is no record, "fresh" a classified package that
\* never crossed the apply-start boundary (apply_status None).
Records == [status : Statuses, run : RunIds \cup {NoRun},
            digest : RunIds \cup {NoRun}, commit : Commits \cup {NoCommit}]
Record(s, r, d, c) == [status |-> s, run |-> r, digest |-> d, commit |-> c]

NoRecord == Record("absent", NoRun, NoRun, NoCommit)

\* Local variables of one invocation: the selected package and how it was
\* selected, its run, the scope and locked repository states it compares with,
\* the snapshot its scan took, and what maintenance has still to do.
IdleJob ==
  [mode |-> "none", patch |-> NoPatch, tracked |-> FALSE, retry |-> FALSE,
   run |-> NoRun, scope |-> FirstState, ctx |-> FirstState,
   view |-> [x \in Patches |-> "absent"], seen |-> {}, todo |-> {},
   hold |-> {}, changed |-> FALSE, ok |-> FALSE, published |-> FALSE]

Unused == [patch |-> NoPatch, mode |-> "none", fate |-> "unused"]

Init ==
  /\ ledger = [x \in Patches |-> NoRecord]
  /\ files = {}
  /\ results = {}
  /\ receipt = [r \in RunIds |->
                  [patch |-> NoPatch, head |-> NoCommit, commit |-> NoCommit]]
  /\ binding = [x \in Patches |-> Unbound]
  /\ repo = FirstState
  /\ anc = [c \in Commits |-> IF c = 1 THEN {1} ELSE {}]
  /\ lock = NoProc
  /\ pc = [p \in Procs |-> "idle"]
  /\ job = [p \in Procs |-> IdleJob]
  /\ runs = [r \in RunIds |-> Unused]

-----------------------------------------------------------------------------
(* Environment: users, the transport and the entrypoint a run executes.    *)

\* A package bound to the repository's present state arrives, or a package
\* delivered before is copied to the same path again.
Deliver(x) ==
  /\ x \notin files
  /\ files' = files \cup {x}
  /\ binding' = [binding EXCEPT ![x] = IF @ = Unbound THEN repo ELSE @]
  /\ UNCHANGED <<ledger, results, receipt, repoVars, lock, pc, job, runs>>

\* Somebody removes or overwrites the file of a package.
Withdraw(x) ==
  /\ "withdraw" \in Others
  /\ x \in files
  /\ files' = files \ {x}
  /\ UNCHANGED <<ledger, results, receipt, binding, repoVars, lock, pc, job,
                 runs>>

TakeResult(r) ==
  /\ "take" \in Others
  /\ r \in results
  /\ results' = results \ {r}
  /\ UNCHANGED <<ledger, files, receipt, binding, repoVars, lock, pc, job,
                 runs>>

\* The entrypoint or a user commits, moves HEAD and the files to a commit, or edits files.
\* Neither takes PatchHarbor's locks.
Commit ==
  /\ "commit" \in Others
  /\ \E c \in Commits, t \in {"clean", "dirty"} :
      /\ anc[c] = {}
      /\ \A d \in Commits : d < c => anc[d] # {}
      /\ anc' = [anc EXCEPT ![c] = anc[repo.head] \cup {c}]
      /\ repo' = [head |-> c, tree |-> t]
      /\ UNCHANGED <<diskVars, lock, pc, job, runs>>

Reset ==
  /\ "reset" \in Others
  /\ \E c \in Commits :
      /\ anc[c] # {}
      /\ repo' = [head |-> c, tree |-> "clean"]
      /\ UNCHANGED <<anc, diskVars, lock, pc, job, runs>>

Edit ==
  /\ "edit" \in Others
  /\ repo' = [repo EXCEPT !.tree = IF @ = "clean" THEN "dirty" ELSE "clean"]
  /\ UNCHANGED <<anc, diskVars, lock, pc, job, runs>>

-----------------------------------------------------------------------------
(* Discovery and maintenance.                                              *)

\* (defect) an abandoned scope keeps its lock
FreedNever(p) == lock
Freed(p) == IF lock = p THEN NoProc ELSE lock

Goto(p, l) == pc' = [pc EXCEPT ![p] = l]
Become(p, j) == job' = [job EXCEPT ![p] = j]
Leave(p) == Goto(p, "idle") /\ Become(p, IdleJob)

\* Manual Apply resolves the repository of the working directory first, under
\* its lock; explicit Apply captures the package it was given.
Start(p, m, x) ==
  /\ pc[p] = "idle"
  /\ IF m = "explicit" THEN x \in files ELSE x = NoPatch
  /\ m = "manual" => lock = NoProc
  /\ Become(p, [IdleJob EXCEPT !.mode = m, !.patch = x,
                   !.scope = IF m = "manual" THEN repo ELSE FirstState])
  /\ Goto(p, "scan")
  /\ UNCHANGED <<diskVars, repoVars, lock, runs>>

\* scan_exchange_directory: hash and classify the top-level files and merge
\* new classifications into the ledger without losing lifecycle state.
Merged == [x \in Patches |-> IF x \in files /\ ledger[x].status = "absent"
                             THEN Record("fresh", NoRun, NoRun, NoCommit)
                             ELSE ledger[x]]
Scan(p) ==
  /\ pc[p] = "scan"
  /\ ledger' = Merged
  /\ Become(p, [job[p] EXCEPT
       !.view = [x \in Patches |-> IF x \in files THEN Merged[x].status
                                                  ELSE "absent"],
       !.seen = results])
  /\ Goto(p, "recovery")
  /\ UNCHANGED <<files, results, receipt, binding, repoVars, lock, runs>>

\* (defect) packages that selection skips anyway are not examined
PendingEligible(p) ==
  {r \in job[p].seen : \E x \in Patches :
     job[p].view[x] \in {"fresh", "failed"} /\ ledger[x].digest = r}

\* Attempts whose pinned Result and whose package were both in the scan.
Pending(p) ==
  {r \in job[p].seen : \E x \in Patches :
     /\ job[p].view[x] # "absent"
     /\ ledger[x].status = "attempted"
     /\ ledger[x].run # NoRun
     /\ ledger[x].digest = r}

BeginRecovery(p) ==
  /\ pc[p] = "recovery"
  /\ Become(p, [job[p] EXCEPT !.todo = Pending(p)])
  /\ Goto(p, "recover")
  /\ UNCHANGED <<diskVars, repoVars, lock, runs>>

\* _matches_receipt and _proven_result: the receipt names this attempt and
\* the clean repository still contains base -> completed commit -> HEAD.
Proven(x, r) ==
  /\ ledger[x] = Record("attempted", r, r, NoCommit)
  /\ receipt[r].patch = x
  /\ receipt[r].commit # NoCommit
  /\ repo.tree = "clean"
  /\ binding[x].head \in anc[receipt[r].commit]
  /\ receipt[r].commit \in anc[repo.head]
Recoverable(x, r) == x \in files /\ r \in results /\ Proven(x, r)

AcquireForRecovery(p, r) ==
  /\ pc[p] = "recover"
  /\ r \in job[p].todo
  /\ lock = NoProc
  /\ \E x \in Patches : Recoverable(x, r)
  /\ lock' = p
  /\ Become(p, [job[p] EXCEPT !.run = r, !.todo = @ \ {r}, !.ctx = repo])
  /\ Goto(p, "recovering")
  /\ UNCHANGED <<diskVars, repoVars, runs>>

\* A busy repository is not a crash; missing or contradictory proof is kept.
SkipRecord(p, r) ==
  /\ pc[p] = "recover"
  /\ r \in job[p].todo
  /\ Become(p, [job[p] EXCEPT !.todo = @ \ {r}])
  /\ UNCHANGED <<diskVars, repoVars, lock, pc, runs>>

\* recover_exchange_apply_finished: compare-and-swap under the state lock
\* after revalidating files, repository and Git.
Recover(p, x) ==
  LET r == job[p].run IN
  /\ pc[p] = "recovering"
  /\ repo = job[p].ctx
  /\ Recoverable(x, r)
  /\ ledger' = [ledger EXCEPT ![x] =
                  Record("succeeded", r, r, receipt[r].commit)]
  /\ Become(p, [job[p] EXCEPT !.changed = TRUE, !.run = NoRun, !.ctx = FirstState])
  /\ lock' = NoProc
  /\ Goto(p, "recover")
  /\ UNCHANGED <<files, results, receipt, binding, repoVars, runs>>

AbandonRecovery(p) ==
  /\ pc[p] = "recovering"
  /\ lock' = NoProc
  /\ Become(p, [job[p] EXCEPT !.run = NoRun, !.ctx = FirstState])
  /\ Goto(p, "recover")
  /\ UNCHANGED <<diskVars, repoVars, runs>>

\* (defects) the filter on records without a digest is lost; or only packages
\* this scan still found count as pending
PendingDigestsUnfiltered(p) ==
  {ledger[x].digest : x \in {y \in Patches : ledger[y].status = "attempted"}}
PendingDigestsInScan(p) ==
  {ledger[x].digest : x \in {y \in Patches : /\ ledger[y].status = "attempted"
                                           /\ job[p].view[y] # "absent"}} \ {NoRun}

PendingDigests(p) ==
  {ledger[x].digest : x \in {y \in Patches : ledger[y].status = "attempted"}} \ {NoRun}

\* Recovered attempts show their new status to selection, unless re-reading the
\* ledger fails; then archive_exchange_artifacts reads which Results pending
\* attempts rely on.
BeginArchive(p) ==
  /\ pc[p] = "recover"
  /\ job[p].todo = {}
  /\ \E reread \in {job[p].changed, FALSE} :
       Become(p, [job[p] EXCEPT
         !.view = [x \in Patches |-> IF reread /\ @[x] # "absent"
                                     THEN ledger[x].status ELSE @[x]],
         !.hold = PendingDigests(p)])
  /\ Goto(p, "archive")
  /\ UNCHANGED <<diskVars, repoVars, lock, runs>>

AcquireForArchive(p) ==
  /\ pc[p] = "archive"
  /\ lock = NoProc
  /\ lock' = p
  /\ Become(p, [job[p] EXCEPT !.ctx = repo])
  /\ Goto(p, "archiving")
  /\ UNCHANGED <<diskVars, repoVars, runs>>

\* (defect) any consumed package of an older state counts as obsolete
ObsoletePatchConsumed(x) ==
  /\ repo.tree = "clean"
  /\ ledger[x].status \notin {"absent", "fresh"}
  /\ binding[x].head \in anc[repo.head] \ {repo.head}

\* is_proven_obsolete, re-proved under the locks for every single move.
ObsoletePatch(x) ==
  /\ repo.tree = "clean"
  /\ ledger[x].status = "succeeded"
  /\ ledger[x].commit \notin {NoCommit, binding[x].head}
  /\ binding[x].head \in anc[ledger[x].commit]
  /\ ledger[x].commit \in anc[repo.head]
ObsoleteResult(r) ==
  /\ repo.tree = "clean"
  /\ receipt[r].head \in anc[repo.head] \ {repo.head}

ArchivePatch(p, x) ==
  /\ pc[p] = "archiving"
  /\ job[p].view[x] # "absent"
  /\ x # job[p].patch
  /\ x \in files
  /\ repo = job[p].ctx
  /\ ObsoletePatch(x)
  /\ files' = files \ {x}
  /\ Become(p, [job[p] EXCEPT !.view[x] = "absent"])
  /\ UNCHANGED <<ledger, results, receipt, binding, repoVars, lock, pc, runs>>

ArchiveResult(p, r) ==
  /\ pc[p] = "archiving"
  /\ r \in job[p].seen \ job[p].hold
  /\ r \in results
  /\ repo = job[p].ctx
  /\ ObsoleteResult(r)
  /\ results' = results \ {r}
  /\ UNCHANGED <<ledger, files, receipt, binding, repoVars, lock, pc, job,
                 runs>>

\* Archival is optional and every refusal keeps the file: disabled by
\* configuration, repository busy, no proof, or done.
EndArchive(p) ==
  /\ pc[p] \in {"archive", "archiving"}
  /\ lock' = IF pc[p] = "archiving" THEN NoProc ELSE lock
  /\ Become(p, [job[p] EXCEPT !.ctx = FirstState, !.seen = {}, !.hold = {},
                              !.changed = FALSE])
  /\ Goto(p, "select")
  /\ UNCHANGED <<diskVars, repoVars, runs>>

-----------------------------------------------------------------------------
(* Selection and the guarded way to the mutation boundary.                 *)

Origin(p) == job[p].mode

\* The invocation goes on with one package; its scan's snapshot is gone.
Choose(p, x, tracked, retry) ==
  Become(p, [IdleJob EXCEPT !.mode = Origin(p), !.patch = x,
                            !.tracked = tracked, !.retry = retry])

\* discover_exchange_patch: candidates by status, scope and exact state.
Matches(p, state) ==
  {x \in Patches :
     /\ \/ job[p].view[x] = "fresh"
        \/ Origin(p) = "manual" /\ job[p].view[x] = "failed"
     /\ binding[x] = state}

\* Manual Apply compares with the state it resolved at its start; automatic
\* Apply captures the state now and needs the repository lock to do so.
Select(p, x) ==
  /\ pc[p] = "select"
  /\ Origin(p) \in {"automatic", "manual"}
  /\ Origin(p) = "automatic" => lock = NoProc
  /\ LET matches == Matches(p, IF Origin(p) = "manual" THEN job[p].scope ELSE repo)
     IN x \in matches /\ \A y \in matches : Rank[y] <= Rank[x]
  /\ x \in files
  /\ Choose(p, x, TRUE, job[p].view[x] = "failed")
  /\ Goto(p, "preflight")
  /\ UNCHANGED <<diskVars, repoVars, lock, runs>>

\* _maintain_explicit_exchange found the given path among the scanned packages.
SelectExplicit(p) ==
  /\ pc[p] = "select"
  /\ Origin(p) = "explicit"
  /\ job[p].view[job[p].patch] # "absent"
  /\ job[p].patch \in files
  /\ Choose(p, job[p].patch, TRUE, FALSE)
  /\ Goto(p, "preflight")
  /\ UNCHANGED <<diskVars, repoVars, lock, runs>>

\* ... and any failure of that maintenance is swallowed: the package is applied
\* without a ledger entry.
Untracked(p) ==
  /\ pc[p] \in {"scan", "select"}
  /\ Origin(p) = "explicit"
  /\ Choose(p, job[p].patch, FALSE, FALSE)
  /\ Goto(p, "preflight")
  /\ UNCHANGED <<diskVars, repoVars, lock, runs>>

\* safely_resolved_repository, then the full manifest binding.
Preflight(p) ==
  /\ pc[p] = "preflight"
  /\ lock = NoProc
  /\ binding[job[p].patch] = repo
  /\ lock' = p
  /\ Become(p, [job[p] EXCEPT !.ctx = repo])
  /\ Goto(p, "gated")
  /\ UNCHANGED <<diskVars, repoVars, runs>>

Recheck(p) ==
  /\ pc[p] = "gated"
  /\ repo = job[p].ctx
  /\ Goto(p, "checked")
  /\ UNCHANGED <<diskVars, repoVars, lock, job, runs>>

\* A lock that is busy, a state mismatch, no candidate or any other error
\* before the boundary ends the invocation and changes nothing.
Refuse(p) ==
  /\ pc[p] \in {"scan", "select", "preflight", "gated", "checked"}
  /\ Origin(p) = "explicit" => pc[p] \notin {"scan", "select"}
  /\ lock' = Freed(p)
  /\ Leave(p)
  /\ UNCHANGED <<diskVars, repoVars, runs>>

-----------------------------------------------------------------------------
(* The run: mutation, entrypoint, Result publication and ledger outcome.   *)

\* (defect) the start trusts the scan and does not look at the record again
MayStartAnyStatus(p, x) == x \in files

\* mark_exchange_apply_started verifies the file and the record under the
\* state lock; an untracked run has no such step but runs all the same.
MayStart(p, x) ==
  /\ x \in files
  /\ \/ ledger[x].status = "fresh"
     \/ job[p].retry /\ ledger[x].status = "failed"
     \/ Origin(p) = "explicit" /\ ledger[x].status # "absent"

NextRun(r) == runs[r].fate = "unused" /\ \A s \in RunIds : s < r => runs[s].fate # "unused"

\* (defect) the record does not say which run attempted the package
AttemptUnnamed(r) == Record("attempted", NoRun, NoRun, NoCommit)
Attempt(r) == Record("attempted", r, NoRun, NoCommit)

Mark(p, r) ==
  LET x == job[p].patch IN
  /\ pc[p] = "checked"
  /\ NextRun(r)
  /\ job[p].tracked => MayStart(p, x)
  /\ ledger' = IF job[p].tracked
               THEN [ledger EXCEPT ![x] = Attempt(r)]
               ELSE ledger
  /\ Become(p, [job[p] EXCEPT !.run = r])
  /\ runs' = [runs EXCEPT ![r] = [patch |-> x, mode |-> Origin(p), fate |-> "marked"]]
  /\ Goto(p, "payload")
  /\ UNCHANGED <<files, results, receipt, binding, repoVars, lock>>

Settle(r, fate) == runs' = [runs EXCEPT ![r].fate = fate]

\* write_bundle_payloads leaves the working tree changed, or as it was.
Write(p) ==
  /\ pc[p] = "payload"
  /\ \E t \in {repo.tree, "dirty"} : repo' = [repo EXCEPT !.tree = t]
  /\ Settle(job[p].run, "open")
  /\ Goto(p, "script")
  /\ UNCHANGED <<anc, diskVars, lock, job>>

\* A write that fails half way: this outcome goes to the ledger at once, and
\* the error Result is completed only at "close".
WriteFail(p) ==
  /\ pc[p] = "payload"
  /\ \E t \in {repo.tree, "dirty"} : repo' = [repo EXCEPT !.tree = t]
  /\ Settle(job[p].run, "fail")
  /\ Goto(p, "finish")
  /\ UNCHANGED <<anc, diskVars, lock, job>>

\* The entrypoint exits or is timed out; its effects on the repository are
\* the environment's Commit, Reset and Edit.
ScriptEnd(p) ==
  /\ pc[p] = "script"
  /\ \E ok \in BOOLEAN :
       /\ Become(p, [job[p] EXCEPT !.ok = ok])
       /\ Settle(job[p].run, IF ok THEN "ok" ELSE "fail")
  /\ Goto(p, "capture")
  /\ UNCHANGED <<diskVars, repoVars, lock>>

\* completed_commit_for_context: a clean, forward transition.
CompletedCommit(p) ==
  IF /\ repo.tree = "clean"
     /\ repo.head # job[p].ctx.head
     /\ job[p].ctx.head \in anc[repo.head]
  THEN repo.head ELSE NoCommit

\* (defect) the exit code is not asked for
EvidenceIfClean(p) == repo.tree = "clean"

\* Only the Result of a clean success is evidence for archival and recovery.
Evidence(p) == job[p].ok /\ repo.tree = "clean"

\* create_apply_result_bundle captures the repository for the Result; only a
\* commit makes it a receipt that has to be pinned.
Capture(p) ==
  LET r == job[p].run IN
  /\ pc[p] = "capture"
  /\ Evidence(p)
  /\ receipt' = [receipt EXCEPT ![r] = [patch |-> job[p].patch,
                                        head |-> repo.head,
                                        commit |-> CompletedCommit(p)]]
  /\ Goto(p, IF CompletedCommit(p) # NoCommit /\ job[p].tracked
             THEN "pin" ELSE "publish")
  /\ UNCHANGED <<ledger, files, results, binding, repoVars, lock, job, runs>>

\* record_exchange_result_digest, before the Result gets its final name.
Pin(p) ==
  LET x == job[p].patch
      r == job[p].run IN
  /\ pc[p] = "pin"
  /\ ledger[x].status = "attempted"
  /\ ledger[x].run = r
  /\ ledger[x].digest \in {NoRun, r}
  /\ ledger' = [ledger EXCEPT ![x].digest = r]
  /\ Goto(p, "publish")
  /\ UNCHANGED <<files, results, receipt, binding, repoVars, lock, job, runs>>

Publish(p) ==
  /\ pc[p] = "publish"
  /\ results' = results \cup {job[p].run}
  /\ Become(p, [job[p] EXCEPT !.published = TRUE])
  /\ Goto(p, "finish")
  /\ UNCHANGED <<ledger, files, receipt, binding, repoVars, lock, runs>>

\* The Result is no archival evidence (a failed or dirty run, warnings, a
\* destination outside the Exchange) or could not be published at all.
NoEvidence(p) ==
  /\ pc[p] \in {"capture", "pin", "publish"}
  /\ Become(p, [job[p] EXCEPT !.published = TRUE])
  /\ Goto(p, "finish")
  /\ UNCHANGED <<diskVars, repoVars, lock, runs>>

\* (defect) the outcome follows the publication, not the execution
SucceededIfPublished(p) == job[p].published
Succeeded(p) == job[p].ok

\* mark_exchange_apply_finished: the terminal status of this very attempt,
\* with a commit captured afresh when that succeeds.
Finish(p) ==
  LET x == job[p].patch
      r == job[p].run IN
  /\ pc[p] = "finish"
  /\ job[p].tracked
  /\ ledger[x].status = "attempted"
  /\ ledger[x].run = r
  /\ \E c \in {CompletedCommit(p), NoCommit} :
       ledger' = [ledger EXCEPT ![x] =
                    IF Succeeded(p) THEN Record("succeeded", r, @.digest, c)
                                 ELSE Record("failed", r, NoRun, NoCommit)]
  /\ Goto(p, "close")
  /\ UNCHANGED <<files, results, receipt, binding, repoVars, lock, job, runs>>

\* No ledger entry to finish, or the ledger is busy: the attempt stays open.
FinishLost(p) ==
  /\ pc[p] = "finish"
  /\ Goto(p, "close")
  /\ UNCHANGED <<diskVars, repoVars, lock, job, runs>>

Release(p) ==
  /\ pc[p] = "close"
  /\ lock' = NoProc
  /\ Leave(p)
  /\ UNCHANGED <<diskVars, repoVars, runs>>

\* The process dies.  The operating system frees its locks; the files stay.
Crash(p) ==
  /\ "crash" \in Others
  /\ pc[p] # "idle"
  /\ lock' = Freed(p)
  /\ Leave(p)
  /\ UNCHANGED <<diskVars, repoVars, runs>>

-----------------------------------------------------------------------------
Maintain(p) ==
  \/ Scan(p) \/ BeginRecovery(p) \/ AbandonRecovery(p)
  \/ \E r \in RunIds : AcquireForRecovery(p, r) \/ SkipRecord(p, r)
  \/ \E x \in Patches : Recover(p, x) \/ ArchivePatch(p, x)
  \/ BeginArchive(p) \/ AcquireForArchive(p) \/ EndArchive(p)
  \/ \E r \in RunIds : ArchiveResult(p, r)

Approach(p) ==
  \/ \E x \in Patches : Select(p, x)
  \/ SelectExplicit(p) \/ Untracked(p)
  \/ Preflight(p) \/ Recheck(p) \/ Refuse(p)

Run(p) ==
  \/ \E r \in RunIds : Mark(p, r)
  \/ Write(p) \/ WriteFail(p) \/ ScriptEnd(p)
  \/ Capture(p) \/ Pin(p) \/ Publish(p) \/ NoEvidence(p)
  \/ Finish(p) \/ FinishLost(p) \/ Release(p)

Step(p) == Maintain(p) \/ Approach(p) \/ Run(p)

Environment ==
  \/ \E x \in Patches : Deliver(x) \/ Withdraw(x)
  \/ \E r \in RunIds : TakeResult(r)
  \/ Commit \/ Reset \/ Edit
  \/ \E p \in Procs, m \in Modes, x \in Patches \cup {NoPatch} : Start(p, m, x)
  \/ \E p \in Procs : Crash(p)

Next == Environment \/ \E p \in Procs : Step(p)

Spec == Init /\ [][Next]_vars

\* Every step of an invocation is bounded work: locks are tried, never waited
\* for, and the entrypoint has a timeout.  An invocation that cannot go on
\* refuses, skips or loses; it never stands still.
FairSpec == Spec /\ \A p \in Procs : WF_vars(Step(p))

\* Somebody keeps invoking Apply (the watcher on every change, or users), and a
\* maintenance step that can do its work again and again is not skipped,
\* refused or killed every single time.
Rescan(p) ==
  /\ SF_vars(\E m \in Modes : Start(p, m, NoPatch))
  /\ SF_vars(Scan(p))
  /\ SF_vars(BeginRecovery(p))
  /\ \A r \in RunIds : SF_vars(AcquireForRecovery(p, r))
  /\ \A x \in Patches : SF_vars(Recover(p, x))
RescanSpec == FairSpec /\ \A p \in Procs : Rescan(p)

-----------------------------------------------------------------------------
(* Properties.                                                             *)

Locking == {"recovering", "archiving", "gated", "checked", "payload", "script",
            "capture", "pin", "publish", "finish", "close"}
ControlPoints == Locking \cup {"idle", "scan", "recovery", "recover", "archive",
                               "select", "preflight"}
Mutating == {"payload", "script", "capture", "pin", "publish", "finish"}

Jobs ==
  [mode : AllModes \cup {"none"}, patch : Patches \cup {NoPatch},
   tracked : BOOLEAN, retry : BOOLEAN, run : RunIds \cup {NoRun},
   scope : States, ctx : States, view : [Patches -> Statuses],
   seen : SUBSET RunIds, todo : SUBSET RunIds, hold : SUBSET RunIds,
   changed : BOOLEAN, ok : BOOLEAN, published : BOOLEAN]

\* Every variable keeps the shape its source type has.
TypeOK ==
  /\ ledger \in [Patches -> Records]
  /\ files \in SUBSET Patches
  /\ results \in SUBSET RunIds
  /\ receipt \in [RunIds -> [patch : Patches \cup {NoPatch},
                             head : Commits \cup {NoCommit},
                             commit : Commits \cup {NoCommit}]]
  /\ binding \in [Patches -> States \cup {Unbound}]
  /\ repo \in States
  /\ anc \in [Commits -> SUBSET Commits]
  /\ lock \in Procs \cup {NoProc}
  /\ pc \in [Procs -> ControlPoints]
  /\ job \in [Procs -> Jobs]
  /\ runs \in [RunIds -> [patch : Patches \cup {NoPatch},
                          mode : AllModes \cup {"none"},
                          fate : {"unused", "marked", "open", "ok", "fail"}]]

\* An invocation holds the repository lock exactly at the control points where
\* it trusts a captured repository state: two of them never recover, archive,
\* write payloads or run an entrypoint at the same time, whoever crashes.
LockCoversTrust == \A p \in Procs : lock = p <=> pc[p] \in Locking

\* Automatic Apply never runs a package that ran before, whatever became of
\* that run; manual Apply repeats only packages all of whose runs failed
\* (mark_exchange_apply_started against every stale scan, crash and lost
\* outcome).
RunsBefore(r) == {s \in RunIds \ {r} : /\ runs[s].patch = runs[r].patch
                                      /\ runs[s].fate # "unused"}
Crosses(r) == runs[r].fate = "marked" /\ runs'[r].fate # "marked"
NoReplay ==
  [][\A r \in RunIds : Crosses(r) =>
       /\ runs[r].mode = "automatic" => RunsBefore(r) = {}
       /\ runs[r].mode = "manual" =>
            \A s \in RunsBefore(r) : runs[s].fate = "fail"]_vars

\* A terminal status is what really happened to the run it names: nothing,
\* neither recovery nor a late outcome, turns a failed or unfinished run into
\* a success or a success into a failure.
TerminalStatusIsTrue ==
  \A x \in Patches :
    LET r == ledger[x].run IN
    /\ ledger[x].status = "succeeded" => runs[r].patch = x /\ runs[r].fate = "ok"
    /\ ledger[x].status = "failed" => runs[r].patch = x /\ runs[r].fate = "fail"

\* A Result is pinned to the ledger only by a successful run of that package:
\* what recovery may later take for proof is proof.
PinnedRunSucceeded ==
  \A x \in Patches :
    LET d == ledger[x].digest IN
    d # NoRun => runs[d].patch = x /\ runs[d].fate = "ok"

\* What an invocation remembers agrees with its control point and with the
\* history of its run.
FateAt(p) == CASE pc[p] = "payload" -> "marked"
               [] pc[p] = "script" -> "open"
               [] OTHER -> IF job[p].ok THEN "ok" ELSE "fail"
JobMatches(p) ==
  /\ \/ pc[p] \in Mutating \cup {"preflight", "gated", "checked"}
     \/ job[p].mode = "explicit"
     => job[p].patch \in Patches
  /\ pc[p] \in Mutating => /\ job[p].run \in RunIds
                          /\ runs[job[p].run].patch = job[p].patch
                          /\ runs[job[p].run].fate = FateAt(p)
  /\ job[p].ok => pc[p] \in {"capture", "pin", "publish", "finish", "close"}
  /\ pc[p] \in {"pin", "publish"} => job[p].ok
JobMatchesRun == \A p \in Procs : JobMatches(p)

\* The inductive invariant behind the theorems of ExchangeApplyProofs.
IInv == /\ TypeOK
        /\ LockCoversTrust
        /\ JobMatchesRun
        /\ PinnedRunSucceeded
        /\ TerminalStatusIsTrue

\* The ledger speaks of the latest run of a package: no outcome or recovery of
\* an earlier attempt overwrites a newer one.
LedgerNamesLatestRun ==
  \A x \in Patches, r \in RunIds : runs[r].patch = x => r <= ledger[x].run

\* Archival never moves the Result a pending attempt is pinned to, although it
\* reads the pending digests before it takes the repository lock.
PendingEvidenceKept ==
  [][\A p \in Procs, r \in RunIds : ArchiveResult(p, r) =>
       \A x \in Patches : ~(ledger[x].status = "attempted" /\ ledger[x].digest = r)
    ]_vars

\* A package leaves the Exchange only after a run of it succeeded, and never
\* under a run of it that is still going on, recorded or not.
ArchivedAfterSuccess ==
  [][\A p \in Procs, x \in Patches : ArchivePatch(p, x) =>
       /\ \E r \in RunIds : runs[r].patch = x /\ runs[r].fate = "ok"
       /\ \A q \in Procs : pc[q] \in Mutating => job[q].patch # x]_vars

\* An attempt whose process died after its pinned Result was published is
\* recovered, as long as package, Result and clean history stay: crashes may
\* delay that but not prevent it.
Orphan(x) ==
  /\ \E r \in RunIds : Recoverable(x, r)
  /\ \A p \in Procs : pc[p] \in Mutating => job[p].patch # x
OrphanRecovered == \A x \in Patches : []<>~Orphan(x)

=============================================================================
