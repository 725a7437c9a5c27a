# PatchHarbor: a verification development

PatchHarbor applies *patch packages* (ZIP files with payloads and an entrypoint)
to registered Git repositories. A package is delivered into the repository's
*Exchange* directory; `patchharbor apply` selects it, checks that it is bound to
the repository state it finds, writes its payloads, runs its entrypoint and
publishes a *Result* that says what happened. A persistent *replay ledger*
(`exchange-state.json`) decides which packages may still run. A *watcher* starts
automatic Apply when an Exchange has been quiet for five seconds.

No server and no transaction manager holds this together: every invocation is a
process of its own, may be killed at any instruction, and shares with the others
only files, advisory locks that are tried and never waited for, and a working tree
that users and Git change without taking any lock. That is what the modules here
are about.

All paths below are relative to `src/src/` unless they start with `docs/`,
`planning/` or `tests/`.

## 1. Inventory

### 1.1 Components, their state, and what makes them correct

| Component (source) | State it keeps | Operations that change it | What makes it correct |
| --- | --- | --- | --- |
| Apply workflow (`application_apply.py`, `apply_mutation.py`, `application_results.py`) | locals of one run: selected package, run ID, locked context | discover, lock, preflight, mark attempted, write payloads, execute, capture, pin, publish, record outcome | whatever fails or dies, ledger and Result never claim a fate the run did not have |
| Replay ledger (`exchange_state.py`) | one record per package identity: classification, status, run, pinned Result digest, commit | scan merge, mark attempted, pin, outcome, recovery swap | no package is replayed that may not be; a late writer never overwrites a newer run |
| Discovery (`exchange.py`, `application_exchange.py`) | snapshot of the Exchange and of the ledger | scan, select, materialise | what was selected is what runs |
| Recovery (`exchange_recovery.py`) | none of its own | compare-and-swap of an orphaned attempt | only a proven success closes a lost attempt, and a proven one is closed eventually |
| Archival (`exchange_archive.py`, `archive_*.py`) | archive folder | moves of obsolete packages and Results | evidence somebody still needs stays |
| Locks (`locks.py`, `platform/locking.py`) | OS file locks: registry, repository, replay state | try, release, lost with the process | nobody waits, nobody trusts a capture without the lock |
| Execution (`execution.py`, `output.py`, `platform/lifecycle.py`, `platform/posix.py`, `platform/windows.py`, `run_log.py`) | process tree, capture threads, bounded log | spawn, time out, terminate, kill, drain | nothing of the entrypoint survives the run; no output is lost before the limit |
| Result publication (`result_bundle*.py`, `result_verification.py`) | reservation of the final path, staged file | reserve, capture, write, verify, pin, replace, hand over | a final path holds nothing, the placeholder of a live run, or one complete Result |
| Watcher loop (`patchharbor_watcher/loop.py`, `scheduling.py`, `observation.py`) | targets, dirty/due/blocked roots, generations, one worker | read events, refresh, probe locks, launch, collect | no change is forgotten, nothing starts without a reason, a stop ends it |
| Worker protocol (`protocol.py`, `apply_boundary.py`, `worker.py`) | none | encode scope, run worker, decode progress | an unreadable answer is an error, never progress |
| Event adapters, lifecycle (`events.py`, `platform/linux.py`, `platform/windows.py`, `lifecycle.py`) | native subscription, wake pipe, stop flag | read, wake, close, request_stop | no lost wake-up, no silent idling |
| Registration (`registration.py`, `registry.py`, `repository.py`, `configuration.py`) | registry file, marker and configuration in the repository | register, configure, unregister | registry and repository agree, or the difference is reported and undone |
| Filesystem primitives (`platform/filesystem.py`, …) | files | atomic replace, exclusive create, stable read | readers see all of a file or none of it |
| Git capture and fingerprint (`git_capture.py`, `git_objects.py`, `state_fingerprint.py`) | none | capture | a capture is a state the repository was in |
| Result reader, snapshots (`result_reader.py`, `snapshot_*.py`) | none | parse, rebuild | what is rebuilt is what was captured; a report that is written is a report that is accepted |
| Patch packaging (`patch_pack.py`, `pack_*.py`, `platform/pack_output.py`) | the package being built | collect, confirm, publish | the published package is the confirmed one |
| Package reading (`patch_package.py`, `bundles.py`, `zip_payloads.py`, …) | none | validate | no two payloads meet in one file, none is outside the tree; the order of members does not matter |
| Payload writing (`apply_preflight.py`, `payload_files.py`, `apply_mutation.py`) | staged file | inspect, stage, inspect again, replace | nothing is replaced that was not looked at |
| Run reports (`run_report.py`, `exit_status.py`, `errors.py`) | none | combine outcomes | the first failure decides; exit status, report and documents agree |
| Runtime artifact (`runtime_*.py`, `pyz_artifact.py`) | none | render | deterministic |
| Command line and API (`cli*.py`, `api.py`, `application.py`) | none | dispatch | thin |

### 1.2 How they interact

* **Invocations** meet in the ledger (under the state lock, short sections), at the
  repository lock (from preflight until the Result is published) and in the
  Exchange directory, which has no lock.
* **Users, Git and the transport** change working tree, HEAD and Exchange at any
  moment. PatchHarbor re-captures and compares; it cannot exclude.
* **Watcher** → **worker process** → `api.apply_next(exchanges=…)`: a scope in, one of
  `no_candidate`, `attempted`, `locked`, `error` out. A helper thread waits for the
  process, puts the result into a queue of one and wakes the event loop.
* **Registration** writes the registry that observation and discovery read. Every command
  that works on a repository resolves it through the registry and looks again before it
  publishes.
* **Packing** reads a *Result* somebody downloaded and a content directory, and publishes a
  package into a directory others use. It shares no lock with anybody.

### 1.3 Hard behaviours

Crashes between any two steps of an Apply; outcomes that arrive after a retry or a
recovery; decisions on captures that are stale when used; failing publication after
a successful run; swallowed maintenance errors; tried locks in nested sections;
wake-ups between threads while the event source is being replaced; generations of
work that overlap a running worker; unread events at the moment a scope is granted;
readings of a repository or directory that changes between two of its files; directories
that become links between inspection and use; names that are taken between a check and a
rename; Ctrl-C between an effect and the note of it.
`PROJECT.json` lists each of these as a hazard with the line where it bites and the
properties that cover it.

## 2. Modules

| Module | Stands for | Kind |
| --- | --- | --- |
| `ExchangeApply` | ledger, discovery, recovery, archival, Apply of one repository by several invocations | detailed model |
| `ReplayContract` | what the ledger promises | abstract specification |
| `ReplayRefinement` | the mapping from the first to the second | refinement |
| `ExchangeApplyProofs`, `ReplayProofs` | theorems of `ExchangeApply`; the refinement | proofs |
| `Watcher` | watcher loop, schedule, observation, event source, helper thread | detailed model |
| `WatcherProofs` | theorems of `Watcher` | proofs |
| `Execution` | one run of an entrypoint: controlling thread, reader thread, processes | detailed model |
| `ResultPublication` | the publication of one Result in a directory others use | detailed model, composed below |
| `RunReports` | outcomes, reports, exit statuses, the documents of a Result and their reader | operators, composed below |
| `ApplyRun` | one request from reservation to answer: `Execution`, `ResultPublication` and `RunReports` under the repository lock | composition |
| `RequestContract` | what one request promises its caller and the owner of the repository | abstract specification |
| `RequestRefinement` | the mapping from `ApplyRun` to `RequestContract` and to `ReplayContract` | refinement |
| `ApplyRunProofs` | theorems of `Execution`, `ResultPublication` and `ApplyRun`; both refinements | proofs |
| `Registration` | registry, repository-local identity and configuration under several commands and users; the repository Apply, `bundle` and `capture` work on | detailed model |
| `RegistrationProofs` | theorems of `Registration` | proofs |
| `Snapshots` | what Git shows of a repository, the two patches of a Result, what is rebuilt from them | operators |
| `Capture` | the capture of a repository that changes meanwhile (on `Snapshots`) | detailed model |
| `CaptureProofs` | theorems of `Capture` | proofs |
| `PatchPackages` | which archives are patch packages, and the payloads they bring | operators |
| `Payloads` | a package meets a working tree others use (on `PatchPackages`) | detailed model |
| `PayloadsProofs` | theorems of `Payloads` | proofs |
| `Packaging` | `pack`: from content directory and Result to a published package | detailed model |
| `PackagingProofs` | theorems of `Packaging` | proofs |
| `MCExchangeApply`, `MCWatcher`, `MCRegistration`, `MCCapture`, `MCPackaging`, `MCPayloads` | constants and symmetry for TLC | model checking |

`Execution` and `RequestRefinement` (of `ApplyRun`) have only numbers and `None` as constants and are their own MC
modules (`MCExecution.cfg`, `MCApplyRun.cfg`).

### 2.1 `ExchangeApply`

A package is named by its Exchange identity (path and SHA-256), a Result by the run
that wrote it, a repository state by HEAD and a clean or dirty tree. One action is one
critical section of the code: everything `load → change → save` under the state lock
is one step, every lock acquisition is one, every capture is one. `pc[p]` is the
control point of invocation `p`, `job[p]` its local variables:

| Control point | Code |
| --- | --- |
| `scan` … `select` | `discover_exchange_patch`, `scan_exchange`, `recover_exchange_attempts`, `archive_exchange`, selection |
| `preflight`, `gated`, `checked` | `resolve_and_lock_repository`, package checks, apply-start gate |
| `payload`, `script` | `apply_mutation.py`: payload write, entrypoint |
| `capture`, `pin`, `publish`, `finish`, `close` | `application_results.py`, `result_bundle.py`, outcome callback |

`runs` is a history variable: for every run the package, the origin and what really
happened. The properties compare the ledger with it; no guard reads it except where
the *real* outcome decides what the code itself observes (exit status of the
entrypoint). Refusals of the tried locks are actions of their own (`Refuse`, `Lose`,
`SkipRecord`, …): the state lock is never held across two actions, so "busy" is a
free choice wherever the code tries it.

### 2.2 `ReplayContract` and `ReplayRefinement`

The contract knows a status per package (`fresh`, `running`, `lost`, `failed`,
`succeeded`) and the truth of its last run, and five actions. `ReplayRefinement` maps
a ledger entry `attempted` to `running` while its process lives and to `lost`
afterwards. The mapping holds for automatic and manual Apply; explicit Apply may run
without an entry (section 5) and is outside the contract.

### 2.3 `Watcher`

The main thread is `pc` (`refresh`, `subscribe`, `drain`, `collect`, `control`,
`probe`, `check`, `read`, `ended`), one value per place where another thread, a signal
or the outside can come between two steps; the helper thread is `thread`. Time is abstracted
to which deadlines have passed: `due` (quiet period over), `probeDue`, `control`.
Unread events are the set `queue`, since `accept` treats repetitions alike; the wake pipe
is the Boolean `wake`. `same` holds the roots whose generation is still the one of the
snapshot. `ReadSource`/`Ring` are the two halves of `wake()` in the helper thread: it
reads the variable `source`, and the main thread may replace and close that source before
the byte is written (`thread = "stale"`).

`Publish` is `publish_completion`: `published` is the signature of what was said last, an error of the set `Errors` or
something else (a run that succeeded, nothing to apply), and an error that equals it is not said again, whichever
Exchanges it is about.

`fresh` and `owed` are history: changes since the last worker began, and changes
no worker has dealt with. So are `reported` and `repeated`, the roots whose work an error has ended since their last change:
a failing worker or probe drops the work, and says so (`reported`) unless the watcher said just that last (`repeated`,
section 5); and `missed`, which says that a
registration fell between the reading of the targets and the new subscription
(section 5). `WorkRemembered` and `WorkDone` excuse exactly these.

### 2.4 `Execution`

`pc` is the place of `_control_process` and `ProcessTree`, `cause` the exception or
return value it leaves `with process_tree` with:

| `pc` | Code |
| --- | --- |
| `spawn`, `start` | the log is opened, the process started in a session of its own, the reader thread started (`execution.py`, `platform/posix.py`) |
| `wait` | `ProcessTree.run` waits for the root: exit, timeout, Ctrl-C (`state`) |
| `stop`, `grace`, `forced` | SIGTERM and its grace period, SIGKILL and its deadline (`platform/lifecycle.py`) |
| `drain` | `capture.finish()` and the bounded view of the last lines |
| `close`, `closing`, `closed` | `ProcessTree.close`, then `_finish_capture_after_process_error` |
| `rewind`, `reading` | the log is read back, `with_cleanup_error` |
| `done`, `raised` | a `ScriptExecutionResult`, or an exception nobody caught |

The entrypoint has a root, a child in its group and a stray that has left the group with
`setsid`; each may start others, write, ignore SIGTERM and exit with any status. Output
is a number of chunks; `log.spoiled` says that a chunk was written after the file
position had been moved back. The reader thread of a stray may do that, and the property
`OutputIsComplete` says that it is never seen in a run that reports a status.
A deadline is an event: a bounded wait may end in it whenever what is waited for has
not happened. Ctrl-C is modelled where the thread blocks, not between two bytecodes.
`signalled` is history: PatchHarbor had signalled the root before it ended.

### 2.5 `ResultPublication`

`final` and `temp` are the two paths in the Exchange, `rundir` the private run directory
by what its `run.json` claims. `step` runs through `create_*_result_bundle` and
`publish_result_bundle`: reservation, capture, exclusive opening, writing, first verified
read, pin, second read, `os.replace`, clean-up or rescue. `Others` is everybody else who
uses the directory: between any two steps a file appears at the final path, or one
of the two files is taken away, replaced or changed. Both verified reads share the retry
budget `waits`. Two history variables keep the properties honest: `placed` (what was moved to
the final path) and `blind` (the paths others touched after the last check of them and
before `os.replace`; the code cannot see this and nothing is claimed of it). That the
best-effort removal of the program's own temporary file succeeds is assumed.

### 2.6 `ApplyRun`

A request is a tracked or an untracked package, a dry run or a manual bundle.
`phase` is where it stands; the entrypoint runs in phase `run` by the actions of `Execution`,
the Result is made in phase `publish` by those of `ResultPublication`. The
two meet here with the repository lock, the ledger entry, the report and the answer to the caller.
`Forget` resets the variables of the finished entrypoint run that nobody reads again; the
processes stay, since a stray outlives its run and the whole group outlives a killed
PatchHarbor (`Killed`). `sound` (the entrypoint ended with zero, unsignalled, and its log is complete) and
`refused` (the outcome the ledger did not take) are history. A failed payload write is recorded before its
Result is made (phase `unwritten`), the outcome of an entrypoint after it (phase `outcome`). A manual bundle
keeps the lock from capture until rescue or clean-up.

`RunReports` says what the request reports: the category and exit status of an error, the
primary outcome with everything its constructor refuses, the report, the documents of the
Result (`run.json`, `context.json`, manifest, execution log, receipt) and the reader that
must accept them before they are published and that recovers a run from them later. `ApplyRun`
uses it as `R!`. `ReportsAreRead` says that every report a request can make is consistent,
that the reader accepts its documents, and that what it reads from them are the facts of the
run, the outcome the Result was made with included when the ledger refuses it later (`InResult`). The one exception,
a clock that was set back, is an observation.

`RequestContract` is the same request without entrypoint, directory and documents: who holds the lock, whether the
group of the entrypoint is at work, what became of the attempt (`fate`: `open`, `ok`, `failed`, or `lost` when nobody is left
who knows), the entry in the ledger, whether a Result was placed, and what the caller was told. Its steps say that

* there is one attempt at most, under the lock, and a tracked package is on record from then on;
* an outcome is settled only behind the last process of the group, and `ok` only when there was one;
* the Result is placed under the lock, behind the outcome and before the outcome of an entrypoint is recorded;
* what is recorded is the outcome, and under the same lock as the attempt;
* the lock is never given back over an open attempt, except by dying.

`Told` is the table of what a caller may conclude: `success` and `unpublished` that everything asked for was done and
recorded, `failed` that the attempt failed and is recorded so, `refused` that nothing began, `unrecorded` that there was an
outcome the ledger does not know, `raised` that an attempt nobody judged is open in the ledger or unknown to it.
`RequestRefinement` reads this state off `ApplyRun`. The outcome is that of the report, or the one the ledger refused
(`Judged`); the caller learns the answer when lock and reservation are gone (`told`). The package of a request is a package
of `ReplayContract`: its attempt is `running` as long as the request has the lock and `lost` after that, if no outcome was
recorded.

### 2.7 `Registration`

`disk` is what each directory holds (identity, exclusion from Git, configuration, by
its Exchange), `registry` the one registry of the user. `pc[p]` is the place of a command:

| `pc` | Code |
| --- | --- |
| `observe`, `lock`, `check` | `_observe_registration`, the lock a new identity needs, the second observation |
| `exclude`, `id`, `config`, `registry`, `written` | the four writes of `_commit_identity_transition` in their order |
| `undo`, `undo_registry` | `_restore_identity_transition` |
| `drop`, `drop_check` | `unregister_local_repository` before and behind the repository lock |
| `set`, `set_check` | `_change_repository_configuration`, likewise |
| `resolve`, `resolved` | `resolve_and_lock_repository` of Apply, `bundle` and `capture`: identity, registry, repository lock, second look |
| `use` | the work that has given back the registry lock and keeps the repository lock, up to the last look before a Result is published |

All commands but such work exclude each other by the registry lock, so what
interleaves is: a command with running work, with users who clone, copy, move and
delete whole directories between any two steps, and with kills. `job` keeps what the command
read (`seen`, `old`) and will restore. `Refuse` is any lock that is busy and any file that
cannot be read before the first write, but for one: a registered repository whose *identity* cannot be read is a conflict, not
an error (`repository.py:165`, `:180`), and `register` passes it over when it compares its path with the Exchanges of the others.
`Acceptable(d, unread)` takes the repositories that were passed over as a free choice. `CommitFails` is a failing write or Ctrl-C in the
middle of the commit, and each file may fail to be restored for itself. Ctrl-C during the undoing
leaves the same as a kill there (`Killed`). An identity is random, so a new one is one nobody
knows. Suffix and archive settings use the setter of the Exchange; the folder `.patchharbor` itself
is abstracted. A read-only capture looks a second time under the registry lock
(`repository_state.py`); that changes no state. An output directory named on the command line is
assumed to be outside of all repositories (`"elsewhere"`). The runs start with directories that are
absent, unregistered, or were registered once and carry identity, exclusion and
configuration still (`Unregistered`). `PublishResult` is the last look: it uses the registry of
then, which is why `ResultsApart` can hold even where `register` accepted an Exchange
that contains another repository (section 5).

Four history variables say what a property may expect: `promise` (the identity the last
successful `register` reported of a path; withdrawn when users touch the path, when it is
unregistered, when another `--new-id` breaks off), `touched` (the paths users changed,
with the commands that were under way), `gaps` (paths where a *first* registration was killed or
gave up half-way: the two situations described under observations) and `overlooked` (the paths registered without a look at the
repository a command works on, with that command; `ResultsApart` says nothing of these, section 5).

### 2.8 `Snapshots` and `Capture`

A repository is the tree of HEAD, the index (with intent-to-add, hidden and unmerged entries),
the working files, the paths whose stat data are stale and the sparse modes configured.
`Snapshots` says what `git diff`, `ls-files`, `diff-files` and the patches show of it, which
records PatchHarbor makes of that, and what a reader rebuilds from base and patches, with
Git's conversion of contents (`Clean`) where `.gitattributes` ask for it.

In `Capture` every Git query, every look at a path and every reading of a file is a step of its own, at a moment of its
own, those that only decide whether the repository is supported included:

| `pc` | Code |
| --- | --- |
| `head` | `rev-parse HEAD` |
| `unmerged`, `flags`, `visible`, `invisible` | `ls-files --unmerged`, `ls-files -v`, and two views of the cached diff that must be equal, else an entry is only intended to be added (`_require_supported_index_flags`) |
| `sparse_checkout`, `sparse_index` | the two configuration values |
| `ignored`, `walk`, `looks`, `check_ignore` | the ignored directories the walk leaves out, the listing of the working tree, a look at each path that was listed, `check-ignore` for those that are no regular files |
| `untracked`, `names`, `staged` | `ls-files --others`, the names and then the entries of the index |
| `unstaged` | `diff-files`, in one query; a read-only capture lists the index instead |
| `kinds` | and then looks at each entry's path by itself |
| `files` | each candidate and each untracked file, read one by one |
| the same again, `turn` 2 | the second reading of a pair and its comparison with the first |
| `staged_patch`, `unstaged_patch` | the patches of a bundle, between two such pairs (`result_bundle_capture.py`) |
| `accepted`, `refused` | the snapshot that is returned; any difference, unsupported or ambiguous entry |

`scan` is what one of these leaves for the next (the visible differences, the directories to leave out, the paths still to be
looked at, the special ones among them, the entries listed). Two things about the walk are abstracted: all paths lie in one
directory, so one listing names them all, and an ignored path of `Nested` stands for a directory that holds nothing else and is
pruned with it.

`past` is history: what the repository was before each change. `ContextIsReal` says that an accepted
context is the one the repository had at *some single* moment of the capture; for the plain
double reading it is claimed only of captures during which the index did not change
(`IndexQuiet`, see section 5). `BundleIsReal` needs no such excuse: the patches of an accepted
bundle, applied to its base, rebuild index and files of a moment the repository had.
Neither is claimed if something came back to what it had been meanwhile (`Returned`): reading twice
cannot tell. That includes a file that has a record, or none, again: with conversion a file can go from one
content without a record through others to another such content, so no content comes back
and yet both readings miss what was between. TLC needs four changes to show it, which the first attempt at a proof
pointed to. It also includes the content of an index entry that comes back under another flag, and each sparse mode by itself.
`dirty` and the patches of a bundle can disagree for one reason only, a touched file with a conversion: it has a record
and no difference, or (if its index entry was made before the conversion, the last start of `MCCapture`) a difference and no
record. `BundleIsReal` excepts exactly that.
A commit is its tree, a blob its content, `core.fileMode` is true, stat data that match tell the truth
(`StatIsTrue`, what Git itself relies on; every change here keeps it), each Git query is atomic and
the fingerprint injective; which paths Git ignores and converts does not change meanwhile; path validation and blob types are
left out.

### 2.9 `PatchPackages` and `Payloads`

`PatchPackages` judges an archive, a sequence of members with declared and stored sizes, types
and modes, as `zip_payloads.py`, `bundle_paths.py`, `patch_package.py` and
`bundle_handoff.py` do: in one pass with the paths seen so far (`SoFar`: the nodes registered, and whether one clashed)
and the bytes read so far. A path has one or two names. `ReadsExactly` compares it with a definition without
order, `SafePackage`: no two members equal or above one another under case folding, budgets kept, one manifest, its
entrypoint and a complete handoff pair or none; it also says that the payloads of an archive are distinct, which the writing relies on (`Distinct`). About six hundred archives of up to four members go through it.

`Payloads` goes on with the accepted ones. `round` says why targets are looked at (`preflight`, `validate`, `inspect`,
`verify`), `target` what the inspection found, `temp` where the staged file lies:

| `pc` | Code |
| --- | --- |
| `package`, `resolve` | reading the archive, resolving its payloads |
| `parent`, `mkdir`, `kind`, `state` | each target: its directory (made if it is missing), its kind, its state (`apply_preflight.py`, `payload_files.py`) |
| `gate`, `recheck`, `record` | the capture before the mutation, compared with the one of the preflight; the entry `attempted` |
| `stage`, `fill`, `replace` | the temporary file beside the target, its contents, the second inspection and `os.replace` |
| `unlink`, `done` | removal of the temporary file, the outcome |

Users write, delete, chmod and replace a directory by a link to another one (`Swap`) between any two steps.
`ReplacesWhatItSaw`: what is replaced lies in the repository, is the very state the inspection of that payload
found and keeps its mode, unless users changed something after the last look had begun. `OutcomeIsTrue`: success
means that every payload is in place, any end before the record that nothing of the tree changed; after a later
failure the payloads that are there are the first ones, and the attempt had been recorded.

### 2.10 `Packaging`

The disk is a sequence of inodes with body, modification time, change time and link count; names
are entries of the content directory, the reference and the temporary and the final
name in the output directory. Files are read chunk by chunk. The packing scans, reads and scans
again, writes a temporary file it verifies through its descriptor and its name, looks at
every input once more and links the file to its final name:

| `pc` | Code |
| --- | --- |
| `reference`, `open_reference`, `read_reference`, `metadata`, `target` | the Result that is referenced and the name of the package (`patch_pack.py`) |
| `list`, `scan`, `open`, `read` | `source_tree.py`, `pack_sources.py`: first inventory, stable reads, second and third look (`round`) |
| `prepare`, `reserve`, `hold`, `write`, `pin`, `sync`, `validate` | the temporary file: exclusive creation, contents, identity, fsync, validation (`platform/pack_output.py`) |
| `list` … again, `reference_again`, `verify` | sources and Result once more, the hash of the temporary file |
| `publish`, `link`, `mark` | the last look, the link to the final name, `published = True` |
| `close`, `look`, `unlink` | clean-up of the temporary name, only if it is still the own file |

`moments` is history: what files, reference and Result were at each time. Ctrl-C may hit every
control point once, also in the clean-up. Whoever writes in place may restore the modification time, which is what the
change time is compared for. `PackageIsReal` says that when the package is linked, what was captured is what the
content directory and the Result were *together at one moment*, and its bytes are those unless somebody wrote to it after
the last look;
`ForeignFilesStay` that no step of it removes, replaces or writes a file that is not its own, but for the
window named in section 5; `OutcomeIsTrue` that success is only reported of a package that has its name, an error
only of one that never had, and that a temporary file left behind is reported; Ctrl-C may leave both open.

## 3. Runs

| Run | Question | Bounds |
| --- | --- | --- |
| `replay` | Is what the ledger says true, and is nothing replayed? Refines `ReplayContract`. | 2 invocations, 1 package, 2 commits, 2 runs, withdrawal, crashes |
| `evidence` | Does archival leave the Result of an open attempt? | + 3 commits, vanishing Results |
| `explicit` | Does explicit Apply beside the watcher keep packages in place? | 2 invocations, 2 runs, 2 commits |
| `recovery` | Is an orphaned success recovered in the end? | 1 invocation at a time, 3 commits, resets, edits, crashes, fairness |
| `watch` | Is any change forgotten? | 2 Exchanges, 2 different errors, everything enabled, 2 environment steps, symmetry |
| `watch_live` | Is every change delegated and dealt with; does a stop end the watcher; does it come to rest? | 1 Exchange, 1 error, everything enabled, 3 environment steps, fairness |
| `execution` | Is the group gone, the status true, the output whole; does every run end? | 2 chunks, 2 Ctrl-C, 3 processes, all failures, fairness |
| `apply_run` | Is what a request answers, records and publishes true and readable; is nothing left behind? Refines `RequestContract`. | 1 chunk, 1 Ctrl-C, 1 delay, 1 foreign step, crash, fairness |
| `registration` | Does a failure leave no trace, a promise stay, a repository stay registrable; does work keep what it locked, and no Result land in another repository? | 2 processes, 2 directories, fresh or registered before, 3 identities, 1 Exchange (contains the second directory), 1 act of users, unreadable files, kills, all failures |
| `capture` | Is what a capture accepts the repository of one moment, and can it be rebuilt? | 2 paths, one with conversion, a link in an ignored directory, 3 blobs, 3 changes, live and read-only |
| `packaging` | Is a package what its inputs were at one moment; is nothing foreign touched; is the outcome true? | 2 names, files of 2 chunks, 2 changes by others, 1 Ctrl-C, all failures |
| `payloads` | Are archives judged as defined; is nothing replaced that was not looked at; is the outcome true? | archives of up to 4 members, 2 changes by others, kills, all failures |

Why these bounds are enough: the ledger hazards are races of *two* invocations over
*one* record (a third adds no new pair; records of different packages are touched by the same
atomic sections), with an old and a new run of it, and an ancestor and a descendant commit; three commits are
needed only where evidence of a run is superseded (`evidence`) or HEAD moves away and
back (`recovery`). In the watcher two roots are needed to have one in the scope and one
changing, two locks to have a probe find another lock than it asked for, two errors to have one that is said again and one that
is not. `Budget` counts what the
environment does (changes, busy locks, overflows, reconfigurations) and, so that the
state space stays finite, consumed packages.

Two chunks let one be logged and one be lost or late, and two Ctrl-C let the second hit
the handling of the first; a third meets no control point the second does not. In
`apply_run` one chunk is enough, since a log is complete or not; a foreign step is allowed at
every point of the publication, and two of them (2.6 million states, too long for a
regular run) show nothing new.

In `registration` the second process is the work beside the one command the registry lock
admits, or the command that finds what a killed one left. Three identities are two directories' and the
one `--new-id` brings. One act of users is enough because directories may start as a
copy of each other or as registered before.

In `capture` three changes are the fewest with which a double reading can be deceived (away, a
mixture, away again); two paths let one be read before and one after a change; three
blobs are two that convert to the same one, and another (the second only where Git converts). The link of the third path comes
and goes: before the ignored directories are listed it is pruned, after that it is looked at and `check-ignore` asked. Ignored files that are also
staged were checked once with two changes (55 710 states). In `packaging` two changes let a file change
between two looks at another, and change back; in `payloads` they let a directory become a link
and a directory again. A member list of four holds a manifest or a handoff pair
and two payloads that conflict.

Deadlock checking is off where the program may stop: the watcher may have ended or be blocked
without any event to come; a run, request, capture, packing or Apply has ended and users have
used up their changes. The runs of `ExchangeApply` check it.

The larger state spaces: `capture` 5.4 million distinct states, `registration` 1.8 million, `packaging` 1.4 million, `payloads` 1.2
million, `apply_run` 1.1 million, `watch` 1.0 million. Every run finishes within two or three minutes.

`TypeOK` of `ExchangeApply` is checked by `replay`; those of `Execution`, `ApplyRun`, `ResultPublication`,
`Registration`, `Watcher`, `Payloads` and `Packaging` are proved (section 4) and are in no run.

### 3.1 Fairness

* `ExchangeApply`: weak fairness of every step of a live invocation (an OS process is
  scheduled; locks are tried, so no step waits). `RescanSpec` adds that somebody keeps
  invoking Apply and that crashes do not hit for ever the step that would recover.
  Nothing is assumed of users.
* `Watcher`: weak fairness of the main thread, of the helper thread and of the worker
  (an entrypoint has a timeout, Core takes no lock blockingly), that deadlines pass,
  and that other processes eventually release locks and a user repairs a broken
  configuration.
* `Execution`: weak fairness of the controlling thread, whose every wait has a deadline.
  Nothing is assumed of the entrypoint or of the reader thread: they may stop for ever.
* `Capture`, `Packaging`, `Payloads` and `Registration` state no fairness: each is a bounded sequence of
  steps, and nothing is claimed of its end.
* `ApplyRun`: weak fairness of `Ours`, for the same reason; not of users, of other
  lock holders or of processes of the entrypoint.

## 4. Proofs

Every theorem holds for *all* values of the constants that satisfy the module's assumptions;
the leaves are checked by TLAPS, nothing is assumed beside what is named here.

### 4.1 The replay ledger

`ExchangeApplyProofs` (any number of invocations, packages, commits, runs):

| Theorem | States |
| --- | --- |
| `Inductive` | `Spec => []IInv` |
| `TypeCorrect` | `Spec => []TypeOK` |
| `LockIsHeld` | `Spec => []LockCoversTrust` |
| `PinIsProof` | `Spec => []PinnedRunSucceeded` |
| `StatusIsTrue` | `Spec => []TerminalStatusIsTrue` |

`TerminalStatusIsTrue` is not inductive. An outcome is written from `job[p].ok`, so the
invocation's memory must agree with its run (`JobMatchesRun`); recovery writes
`succeeded` on the strength of a pinned digest, so a pin must be proof
(`PinnedRunSucceeded`); and a run can only be spoken of by one invocation at a time
because the lock is held at every control point that matters (`LockCoversTrust`).
`IInv` is the conjunction; the proof has one lemma per conjunct and one step per action.

`ReplayProofs`:

| Theorem | States |
| --- | --- |
| `LatestRunIsNamed` | `Spec => []LedgerNamesLatestRun` |
| `NothingIsReplayed` | `Spec => NoReplay` |
| `ContractIsKept` | `Spec => KeepsContract` (the refinement of `ReplayContract`) |

They assume that no invocation is explicit (`"explicit" \notin Modes`): an explicit Apply may run
a package without a record (section 5), and the contract is about recorded ones. The invariant
`RInv` adds to `IInv`: whoever comes near a package has selected it, and only manual Apply retries (`OnlySelected`); runs
are numbered in the order they begin, a record names the latest run of its package, all earlier ones
failed, an automatic run is the first (`Histories`); and the record of a package belongs to the invocation that runs it
(`OwnsRecord`) – that is where a stale scan, a recovery or a retry in between
would have to show. Each step of `ExchangeApply` is then a step of the contract or a stutter: marking begins, the
entrypoint executes or the payload write ends it, the outcome ends, a crash or a lost outcome loses, recovery recovers.

`ExchangeApplyProofs` again, of archival and for every origin of Apply:

| Theorem | States |
| --- | --- |
| `OnlySuccessIsArchived` | `Spec => ArchivedAfterSuccess` |
| `EvidenceStays` | `Spec => PendingEvidenceKept` |

Archival reads the pending digests *before* it takes the repository lock, and the ledger may be pinned to a
new Result afterwards. The invariant `AInv` says why this is harmless: what archival has seen of an open attempt is among
the digests it holds (`PendingHeld`); a run has no Result before it publishes one, so no scan has seen it (`Unseen`),
nor that of a run still to come (`SeenUsed`); so what is pinned later is not among what archival moves. A success
in the ledger names a run (`SuccessNamesRun`), whose truth is `TerminalStatusIsTrue`.

### 4.2 The entrypoint

`ApplyRunProofs` proves of `Execution`, for any number of chunks and of interruptions:

| Theorem | States |
| --- | --- |
| `RunTypeCorrect` | `Spec => []TypeOK` |
| `NobodySurvives` | `Spec => []NothingSurvives` |
| `StatusIsTheRoots` | `Spec => []ExitStatusIsTrue` |
| `OutputIsWhole` | `Spec => []OutputIsComplete` |

The argument: a process is only ever started by one that runs (`RootFirst`), so a group found empty
stays empty (`Reaped`) and a killed one has nobody left who could start another (`Harmless`);
a status is settled only in `drain`, which is entered behind an empty group (`SettledLate`);
and the state of the tree becomes `exited` only while the root was never signalled (`RootWatched`).
No exception, failure or Ctrl-C on the way out can produce a settled outcome,
which is why the invariant has to speak of `cause` as well as of `result`.
There is one lemma per group of steps: entrypoint, reader, the four stretches of the
controlling thread, Ctrl-C.

For the output `OutputInv` is added: a reader that ended without an error saw the end of the pipe, so nobody is left who
writes and all that was sent has been read (`EndOfFile`); until the log is rewound it holds what was read, unless
a write failed (`LogFollows`); a settled outcome has passed the check of both (`SettledWhole`). What
spoils a log, a reader that still writes behind a missed deadline, excludes a settled outcome, and that is kept to the
result (`ReportedWhole`).

### 4.3 The request

On these, `ApplyRunProofs` proves for any amount of output and any number of Ctrl-C, of delays and of changes others make in
the directory:

| Theorem | States |
| --- | --- |
| `RequestTypeCorrect` | `ApplySpec => []ApplyTypeOK` |
| `GroupRunsUnderLock` | `ApplySpec => []GroupUnderLock` |
| `NothingIsLeft` | `ApplySpec => []NoLeftover` |
| `SuccessIsReal` | `ApplySpec => []SuccessIsEarned` |
| `PinIsOfResult` | `ApplySpec => []PinCoversResult` |
| `ReportsAreTrue` | `ApplySpec => []ReportIsTrue` |
| `ReportsAreReadBack` | `ApplySpec => []ReportsAreRead` |
| `ForeignFilesStay` | `ApplySpec => ForeignKept` |
| `RequestIsKept` | `ApplySpec => KeepsRequestContract` |
| `LedgerIsKept` | `ApplySpec => KeepsLedgerContract` |

The invariant `ApplyInv` is built like the module:

* `PublicationInv` speaks of the Result alone and is kept by every step of `ResultPublication`, whoever uses it. A digest
  comes from a whole Result and is pinned before the second read (`DigestIsWhole`); from then on the temporary file is the one
  that was read, unless others touched it unseen (`TempIsSealed`), as a file at the final path is one that came unseen
  (`FinalIsSeen`). Nothing is placed before the replacement (`PlacedLate`), and what is left of ours on the way out is
  the reservation or something spoiled (`OursIsReserved`).
* `EntrypointInv` brings in the invariants of section 4.2, but only while somebody awaits the run (`Awaited`): a
  finished run is forgotten, a killed PatchHarbor drops it, and its processes go on without a controlling thread. What remains
  then is that a group found empty stays empty (`GroupIsOver`, from `Rooted`).
* `FlowInv` is the request: which phases hold lock and reservation (`LockIsHeld`), what the primary outcome and the ledger may
  say in which phase (`PrimaryIsTrue`, `LedgerFollows`), and what a success has behind it (`AnswerIsEarned`). That
  a zero means a sound run is where `ExitStatusIsTrue` and `OutputIsComplete` are used.

The refinement needs `ContractInv` besides: which outcome the report carries at which point (`PrimaryFollows`), that a
refused outcome is known and leaves the attempt open (`RefusalFollows`), that before the outcome is recorded the
ledger follows from it (`RecordFollows`), that no group began where none is at work (`NothingRan`), that the lock is held to the
end (`LockToTheEnd`), and that the answer is true by the contract from the moment on at which only the scope
unwinds (`AnswerFollows`), although the steps from there to the caller still give back lock and reservation. Each action
of `ApplyRun` is then one step of the contract or none. Two things are not obvious: one step of the publication is two things at
once for a bundle, which has placed its Result and left the lock (`PublishSimulated`); and a group that is over stays
so whatever its strays do (`GroupMoves`). `LedgerIsKept` is proved of the two contracts alone
(`RequestImpliesReplay`): what keeps the one keeps the other.

`ReportsAreReadBack` is about the operators of `RunReports` as much as about the request. The documents keep only the number
of a failure, so the proof begins there: no two reasons share a number (`ReasonsAreCoded`), and the category of an error is
one the reader expects of its reason (`ErrorsAreKnown`). Every outcome a request can have is then `Proper` (`RunsAreProper`): its
constructors and the reader accept it, and reading what is written of it gives it back. The rest compares the
documents with the reader field by field (`DocumentsInFields`, `RequestsAreReadable`). `ReportInv` says which report
belongs to which answer; with it exit status, error and answer agree (`AnswerIsReported`). The proof needs that `None`
is none of the values it stands beside (`NoneIsNothing`), as Python's `None` is.

### 4.4 Registration

`RegistrationProofs` proves for any number of commands, directories, identities, Exchanges and acts of users, from
`RegistrationConstants` alone (the special values are none of the paths, identities and Exchanges):

| Theorem | States |
| --- | --- |
| `RegistrationTypeCorrect` | `Spec => []TypeOK` |
| `PromisesAreKept` | `Spec => []PromiseKept` |
| `RepositoriesRegisterAgain` | `Spec => []RegistersAgain` |
| `NoTraceIsLeft` | `Spec => FailureLeavesNoTrace` |
| `RepositoryStays` | `Spec => RepositoryKept` |
| `ResultsStayApart` | `Spec => ResultsApart` |

Two locks share the work. Whoever holds the registry lock is the only command that changes registry and local files, so what
it observed is what it replaces and what it can restore: `Registering` follows registry (`RegistryAt`) and local files
(`LocalAt`, as long as users leave them alone) through the four writes and back. A command in use has given the registry
lock back and holds the lock of its identity (`IdentityLocked`). That is enough against `unregister`, `configure` and
`--new-id`, which take it, but not against a registration that keeps the identity, which does not. Against that one the
argument is another: it found the repository registered and writes what is there already (`Beside`), or it
belongs to another identity; and an identity that moves in from another directory moves only from one that is gone
(`OldGone`), so it is not in use there. The same two facts keep a promise about one repository through
commands on another (`PromiseSeen`). `Apartness` says that what `PublishResult` looks up in the registry of then cannot
have come nearer: a registration compares its path with the Exchange of every registered repository, and a repository in
use is registered, with the Exchange it uses (`StaysApart`). The exception is a registration that passed over that repository
because it could not read its identity: `InSight` speaks of all paths of a registry but those (`overlooked`), for the registry of
now and for the one a registration under way will restore. `RegInv` was checked by TLC with the constants of `MCRegistration` before it was proved.

The proof has one lemma per part of the invariant. Most of them begin with what a step that arrives at some point can have
been (`RegisterSteps`, `ResolveSteps`, …) and with what a step may change beside it (`CommandShape`).

### 4.5 The watcher

`WatcherProofs` proves for any number of Exchanges and locks:

| Theorem | States |
| --- | --- |
| `WatcherTypeCorrect` | `Spec => []TypeOK` |
| `NothingForgotten` | `Spec => []WorkRemembered` |

Work is handed from an unread event to the dirty set, from there to the scope of a worker, and back if the worker's
answer does not settle it. Each place alone forgets; the invariant `WatchInvariant` says that one of them always knows, of all work no error has ended (`GivenUp`). Its
parts: what `no_candidate` leaves over is an unread event or a newer generation (`ChangeIsSeen`, `AnswerIsTrue`);
a refresh takes targets and source from all work and rebuilds it from what it found (`FoundIsCurrent`,
`TargetsAreCurrent`, `SourceIsOpen`); there is one worker, and its answer meets the request it was started with (`OneWorker`).

### 4.6 Packing

`PackagingProofs` proves for any content directory, any number of changes by others and Ctrl-C at any moment:

| Theorem | States |
| --- | --- |
| `PackingIsSound` | `Spec => []PackingInvariant` (types included) |
| `PackagesAreReal` | `Spec => []PackageIsReal` |
| `OutcomesAreTrue` | `Spec => []OutcomeIsTrue` |
| `ForeignFilesAreKept` | `Spec => ForeignFilesStay` |

The proof makes the assumption behind the two looks explicit: whoever changes an inode, or adds or removes a name of the
directory, leaves a change time younger than all that was seen (`Aged`; `Packaging` models it with a clock, a file system
whose change times are too coarse is outside). So an inode in its old state is the old inode with its old bytes (`SameAsBefore`). From there the
invariant `PackingInvariant` follows the packing: what was read is right as long as it looks as it did
(`BindingOK`, `FilesOK`), and so are the listed names (`ScanOK`, `RootOK`). The moment after the last file was read, and before the second look, has
everything that still looks as it did then (`Between`); what passes the second look is therefore of that
moment (`Found`), and the third look at the reference adds the Result the package is bound to. `Sealed` keeps the bytes of the
temporary file from its last check to the link; `EndsTrue` ties pc, outcome, link and leftover to each other.

### 4.7 Payloads

`PayloadsProofs` proves for any archives, any tree they meet and any number of changes by users:

| Theorem | States |
| --- | --- |
| `AcceptedIsSafe` | `a \in Seq(Members)` implies `Resolved(a).status = "accepted" <=> SafePackage(a)` |
| `PackagesAreReadExactly` | `Spec => []ReadsExactly` |
| `PayloadsTypeCorrect` | `Spec => []TypeOK` |
| `PayloadsAsReported` | `Spec => []OutcomeIsTrue` |
| `OnlySeenIsReplaced` | `Spec => ReplacesWhatItSaw` |

The theorems about `Spec` have no hypothesis. The assumptions are on the constants: folding a name twice is folding it once, the reserved names are portable,
`Nothing` is no size, mode or state, archives are sequences of `Members`, and `Targets` holds the paths of their payloads (`TargetsSuffice`).

`AcceptedIsSafe` is about archives of any length, so it needs induction, although no induction theorem of the library can be
used: they take an operator. `Natural` replaces them. It is about a *set* of natural numbers that
holds 0 and with each number the next one, and follows from `WFMin` (a missed number would have a
least). The folds of the community modules go over sets of positions; `WalkExists` builds the function their CHOOSE looks for
position by position, and `Walked` reads it upwards: `f[0]` is the base and `f[i]` one step from `f[i - 1]`. With that each walk has
an invariant of its own. For the paths it is `Represents`: as long as nothing clashed, the node under a key stands for *everything*
registered there, its path and kind being the same for all, its flag `explicit` being set if any of them was. So comparing a new
registration with one node is comparing it with all before it (`RegisterStep`, `MemberStep`), and the walk errs exactly if two members clash
(`WalkingIs`, `ApartIs`). The budget ends in an error exactly if a member is unsound or the sum is too large (`ReadingIs`), and what was declared is what is
read (`DeclaredIs`). Then a path names one member (`OneAtAPath`), so looking up the manifest and the entrypoint one by one finds what
`SafePackage` only says to exist (`RolesAre`); and the members kept keep their order and come from
different positions (`KeepIs`), so payloads are distinct (`BroughtIsDistinct`). The writing depends on that:
else a payload could be moved over one that was written before, and success would not mean that both are in place.

The invariant `PayloadsInv` joins two arguments. `LastLook` follows the second inspection through its steps: as long as others have
changed nothing since it began (`late`) the target is what the first inspection found, and as long as nobody touched this
payload (`disturbed`) its directory is no link; so the file staged elsewhere by a swapped directory cannot be moved
there as if nothing had happened. `InPlace` and `OursIsWritten` follow the tree: the payloads before `next`, and no others, are there,
each unless others came after it. Each step of others changes one place, and one lemma (`ForeignKeeps`) covers them all: a payload whose path they
did not touch keeps its node and the kind of its directory. TLC checked the invariant with the constants of `MCPayloads` before
it was proved.

### 4.8 Capture

`CaptureProofs` proves for any paths, contents, conversion and starting repository, and any number of changes by users and Git:

| Theorem | States |
| --- | --- |
| `CaptureInvariantHolds` | `Spec => []CaptureInvariant` |
| `CaptureTypeCorrect` | `Spec => []TypeOK` |
| `ContextTellsOneMoment` | `Spec => []ContextIsReal` |
| `BundleTellsOneMoment` | `Spec => []BundleIsReal` |

The assumptions: no entry is `Nothing`, the capture starts from a repository whose stat data are true, and files users write
are regular or special ones.

A reading is never wrong about what it has looked at, only about *when*, and every query has a *when* of its own. `Seen` says for a
reading at some point of its way that there is one moment since it began for each of its queries (`Moments`), in the order in which the code
asks, at which the answer was true: no unmerged entry, then no hidden one, then two equal views of the cached diff, HEAD, the
staged entries, the untracked paths, the candidates (`SawIndex`, `SawTree`); each sparse mode was off at some moment (`SawSparse`), and each file
was read at a moment after it had been listed (`SawUntracked`, `SawFiles`). Nothing is said of a support check as a whole: no moment need have passed
all of it. A change adds a moment and takes none away (`SeenGrows`); each query, look and file read has a lemma of its
own. `CaptureInvariant` chains them: the second reading of a pair begins where the first one ended, the patches lie
between the pairs.

If nothing came back, two equal readings on either side of a moment leave no choice at that moment (`Between`): what was so before it
and after it was so then. For a context that moment is the end of the first reading, for a bundle the moment at which the unstaged patch was
read. That its index is supported has to be put together from queries that saw different moments. On a quiet index that is simple
(`QuietFlags`): unmerged and hidden entries are of that index, and an entry somebody only intends to add would make the two views differ
(`IntentShows`), unless HEAD moved between them, which the second reading excludes. For a bundle the index may change. Its content is the same at the first
and the last reading of the staged entries, so it was the same all the time (`ContentStays`, `IndexStayed`), but a flag may come and go between the queries
that would show it. Each reading has seen the entry not unmerged at one moment, not hidden at a later one, not unmerged again, and, when the candidates were chosen, plain or
hidden. For a flag that takes no value again, four such readings leave only one course (`FlagsSettle`): at the moment of the patch there is none.
`LayersAreThose` adds what a reader rebuilds. TLC checked the invariant with the constants of `MCCapture` and two changes before it was proved.

### 4.9 What is only model-checked

* Liveness and everything under fairness (`RunEnds`, `RequestEnds`, `OrphanRecovered`, `WorkDone`, `StopEnds`, `Settles`),
  which is out of this prover's reach.

## 5. Observations

No run ends with a violation: the properties are those the code keeps. What was met on the way, with
the line where it bites; most of it no document promises otherwise.

Where code and documentation differ:

* An explicit Apply whose Exchange maintenance fails runs a package without any `attempted` entry
  (`application_exchange.py:575`, `application_apply.py:407`), while
  `docs/repository-workflow.md:413` says every non-dry-run Apply records it.
* A registration that falls between the reading of the targets and the opening of the new subscription is
  noticed by neither source (`loop.py:232`; `planning/watcher-events/specification.md:138`). `missed`
  in `Watcher`.
* `register` compares the path with the Exchange of every registered repository, but not the
  Exchange the repository keeps from before with the other registered paths (`registration.py:211`): configure A,
  unregister it, register B inside A's Exchange, register A again. `docs/repository-workflow.md:46`
  and the comment at `registration.py:210` say the Exchange overlaps no registered repository. The overlap is
  refused when a Result or an archive would be created in it (`ResultsApart`).
* A failing text sink or line observer turns a timeout, an interruption or a nonzero exit into
  an execution error: the reader's remembered error is raised by `capture.finish()` before the
  outcome is looked at (`execution.py:348`, `DrainFails` of `Execution`), while
  `docs/python-api.md:406` says they keep their primary status.
* The watcher does not repeat an error that says what it said last (`patchharbor_watcher/loop.py:39`), also when it is about another Exchange or a newer
  change: that work is dropped without a message (`repeated` in `Watcher`). The docstring (`loop.py:34`) says "Suppress repeated identical idle or error records"
  and `tests/test_watcher.py:168` tests it for one error three times; `docs/troubleshooting.md:83` and the README (line 223) name only repeated `no_candidate`
  messages.
* `register` passes over a registered repository whose identity cannot be read (`registration.py:214`; `repository.py:165`, `:180`
  make the failing read a conflict), so that repository's Exchange is not compared with the path being registered; an Apply of it that is under
  way may then publish a Result inside the new repository (`overlooked` in `Registration`). The comment at `registration.py:210` says the rule is preserved "for ALL configured
  repositories"; `spec/SPECIFICATION.md:1293` exempts those that cannot be resolved.
* After a failed payload write the outcome is in the ledger before the Result publication is
  attempted (`application_apply.py:231`; `docs/repository-workflow.md:441` has the reverse
  order). No harm to the ledger was found.

Ledger, requests and publication:

* When the ledger refuses the outcome, a nonzero exit is reported as a ledger error
  (`application_apply.py:117`), and the primary outcome of the answer differs from the one in the Result that is
  published already.
* `run.json` in the run directory says `created` before anything is published; a crash or a
  Ctrl-C leaves that behind (`result_bundle.py:268`). `ReportIsTrue` is about requests
  that answer.
* Between the last look and `os.replace` both paths may change unseen
  (`result_bundle_publication.py:341`).
* The reader requires `ended_at >= started_at` (`result_reader.py:288`), `RunTiming` does not: a wall clock set back
  during a run makes its Result fail its own verification. A successful run must keep the object
  format of the repository (`result_reader.py:325`).
* `PrimaryResult.from_tool_error` would claim `entrypoint_started` for an interruption or a timeout; nobody calls it with one.

Entrypoint and watcher:

* A stray that keeps writing overwrites the beginning of `execution.log` once the log has
  been rewound (`execution.py:161`); the runs show that this never reaches a Result
  with a status, because the reader has then ended or missed its deadline.
* The entrypoint survives a killed PatchHarbor, and its repository lock is free at
  once (`platform/posix.py:25`): `GroupUnderLock` is stated for a living PatchHarbor.
* A wake byte ends the drain of the watcher like an empty queue (`platform/linux.py:108`,
  `loop.py:272`); a scope may be granted with unread events, which make the root dirty
  again as soon as they are read (`WorkDone`).
* A readiness probe that raises drops the work that met the lock conflict, with an
  error on standard error each time (`scheduling.py:91`, `loop.py:303`).

Registration:

* A first registration killed between identity and configuration leaves a repository that
  `register` refuses until somebody repairs it by hand (`configuration.py:337`). Killed during the undoing,
  which restores the local files before the registry, it may leave a registry entry
  of a path without identity, which neither `register` (`registration.py:200`) nor `unregister`
  (`registration.py:488`) accepts.

Capture, payloads, packing:

* Two equal readings may still mix two states if the index changes meanwhile: with three
  changes TLC finds a context no moment had, if `IndexQuiet` is left out of `ContextIsReal`
  (`repository_state.py:151` says "Return one stable snapshot or reject concurrent repository
  changes"). The second pair around a bundle closes this. What changes and changes back is
  never seen.
* A file that is touched but equal after conversion makes a capture dirty with an empty diff; the
  reader's check (`result_reader.py:397`) then rejects the Result. It does the same in the reverse case: a touched file that
equals an index entry its conversion would change gives a diff and no record.
* A user's edit between the recapture before the mutation (`apply_mutation.py:139`) and the inspection of its payload is
  overwritten. Replacements made before a later one fails remain. A kill between staging and
  replacement leaves `.patchharbor-*.tmp` in the tree, and the next Apply finds another repository state.
* If a parent directory becomes a link between inspection and staging, the temporary file is created behind the link;
  the second inspection refuses before anything is replaced.
* Ctrl-C between `os.open` and the binding of `owned` leaves a `.partial` file of the packing; between `link` and
  `published = True`, or out of the clean-up, it reports an interruption of a package that has its name. A file put under the
  temporary name between the last `lstat` and `unlink` is removed.

## 6. Not modelled, and why

* The watcher's command line and service unit, the runtime artifact (PYZ), the command line, the
  Python API and the presentation: argument parsing, rendering and dispatch, without state that could change under them.
* Bytes: ZIP, JSON and Git formats, character rules of paths and manifests, compressed streams, the classification of
  contents. Tests reach them.
* Real time. Deadlines are events; that five seconds are five seconds is a test's job.
* The Windows completion port of the watcher, the Windows process job and rename; no Windows
  behaviour is claimed.
* Several repositories sharing one Exchange; guarded host admission; interpreter
  resolution; the rolling text buffer; Exchange maintenance before `bundle`; name collisions
  inside the archive folder.
* A reservation or temporary file of the program itself that cannot be removed, except in `Packaging`.
* Payloads: Ctrl-C, directories nested deeper than one, case-insensitive file systems. Packing: sizes and budgets,
  subdirectories, modes. Capture: `core.fileMode` false, path validation and blob types, directories
  that change during the walk, changes inside one Git query.

## 7. Plan

Done: all modules of section 2, their runs, and the proofs of section 4.

Every invariant and every action property the runs check is also stated by a theorem. What is left
to TLC alone is liveness (section 4.9); what is left to model is in section 6.
