----------------------------- MODULE ReplayProofs -----------------------------
(***************************************************************************)
(* What the replay ledger promises when nobody applies packages by         *)
(* explicit path, for any number of invocations, packages, commits and     *)
(* runs: its records name the latest run, no package is replayed, and      *)
(* ExchangeApply implements ReplayContract.                                *)
(***************************************************************************)
EXTENDS ReplayRefinement, ExchangeApplyProofs

\* Whoever comes near a package has selected it; only manual Apply retries.
OnlySelected ==
  \A p \in Procs :
    /\ job[p].mode # "explicit"
    /\ pc[p] \in Mutating \cup {"preflight", "gated", "checked"} =>
         job[p].tracked /\ (job[p].retry => job[p].mode = "manual")

\* Runs are numbered in the order in which they begin.
RunsInOrder ==
  \A r \in RunIds :
    /\ runs[r].fate = "unused" => runs[r].patch = NoPatch
    /\ runs[r].fate # "unused" => \A s \in RunIds : s < r => runs[s].fate # "unused"

\* A record names a run of its package as soon as there is one.
RecordsNameRuns ==
  \A x \in Patches :
    IF ledger[x].status \in {"absent", "fresh"} THEN ledger[x].run = NoRun
    ELSE ledger[x].run \in RunIds /\ runs[ledger[x].run].patch = x

\* Every run but the last of a package has failed.
EarlierFailed ==
  \A x \in Patches, s \in RunIds :
    runs[s].patch = x /\ s # ledger[x].run => runs[s].fate = "fail"

\* An automatic run is the first of its package.
AutomaticIsFirst ==
  \A r, s \in RunIds :
    runs[r].mode = "automatic" /\ s < r => runs[s].patch # runs[r].patch

Histories ==
  /\ RunsInOrder /\ RecordsNameRuns /\ LedgerNamesLatestRun
  /\ EarlierFailed /\ AutomaticIsFirst

\* The record of a package belongs to the invocation that runs it.
OwnsRecord ==
  \A p \in Procs : pc[p] \in Mutating =>
    ledger[job[p].patch].status = "attempted" /\ ledger[job[p].patch].run = job[p].run

RInv == IInv /\ OnlySelected /\ Histories /\ OwnsRecord

LEMMA ReplayInit == Init => RInv
<1> SUFFICES ASSUME Init PROVE RInv
  OBVIOUS
<1>1. IInv
  <2>1. LockCoversTrust
    BY ConstantsAssumption DEF Init, LockCoversTrust, Locking
  <2> QED BY <2>1, TypeInit, MatchInit, TruthInit DEF IInv, Truth
<1>2. OnlySelected
  BY DEF Init, OnlySelected, Mutating, IdleJob
<1>3. Histories
  BY ConstantsAssumption
     DEF Init, Histories, RunsInOrder, RecordsNameRuns, LedgerNamesLatestRun, EarlierFailed,
         AutomaticIsFirst, NoRecord, Record, Unused
<1>4. OwnsRecord
  BY DEF Init, OwnsRecord, Mutating
<1> QED BY <1>1, <1>2, <1>3, <1>4 DEF RInv

-----------------------------------------------------------------------------
(* How an invocation comes to a package.                                    *)

SelectedBy(p) ==
  /\ job[p].mode # "explicit"
  /\ pc[p] \in Mutating \cup {"preflight", "gated", "checked"} =>
       job[p].tracked /\ (job[p].retry => job[p].mode = "manual")

LEMMA SelectedMoves ==
  ASSUME TypeOK, OnlySelected, NEW p \in Procs,
         pc' = pc \/ \E l : Goto(p, l),
         job' = job \/ \E j : Become(p, j),
         SelectedBy(p)'
  PROVE  OnlySelected'
<1>1. ASSUME NEW q \in Procs, q # p PROVE SelectedBy(q)'
  BY <1>1, OthersStay DEF OnlySelected, SelectedBy
<1> QED BY <1>1 DEF OnlySelected, SelectedBy

\* Nobody who has no package in hand changes that by maintenance.
LEMMA SelectedMaintain ==
  ASSUME TypeOK, OnlySelected, NEW p \in Procs, Maintain(p)
  PROVE  OnlySelected'
<1>a. job[p] \in Jobs /\ job[p].mode # "explicit"
  BY DEF TypeOK, OnlySelected
<1>b. ASSUME NEW l \in ControlPoints \ (Mutating \cup {"preflight", "gated", "checked"}),
             NEW j, j.mode = job[p].mode,
             (pc' = pc /\ pc[p] = l) \/ Goto(p, l), (job' = job /\ j = job[p]) \/ Become(p, j)
      PROVE  OnlySelected'
  <2>1. pc'[p] = l /\ job'[p] = j
    BY <1>b DEF TypeOK, Goto, Become
  <2>2. SelectedBy(p)'
    BY <1>a, <1>b, <2>1 DEF SelectedBy
  <2> QED BY <1>b, <2>2, SelectedMoves
<1> USE DEF ControlPoints, Locking, Mutating
<1>1. CASE Scan(p)
  <2> DEFINE j == [job[p] EXCEPT
         !.view = [x \in Patches |-> IF x \in files THEN Merged[x].status ELSE "absent"],
         !.seen = results]
  <2>1. j.mode = job[p].mode
    BY <1>a DEF Jobs
  <2> QED BY <1>1, <1>b, <2>1 DEF Scan
<1>2. CASE BeginRecovery(p)
  <2> DEFINE j == [job[p] EXCEPT !.todo = Pending(p)]
  <2>1. j.mode = job[p].mode
    BY <1>a DEF Jobs
  <2> QED BY <1>2, <1>b, <2>1 DEF BeginRecovery
<1>3. CASE AbandonRecovery(p)
  <2> DEFINE j == [job[p] EXCEPT !.run = NoRun, !.ctx = FirstState]
  <2>1. j.mode = job[p].mode
    BY <1>a DEF Jobs
  <2> QED BY <1>3, <1>b, <2>1 DEF AbandonRecovery
<1>4. ASSUME NEW r \in RunIds, AcquireForRecovery(p, r) PROVE OnlySelected'
  <2> DEFINE j == [job[p] EXCEPT !.run = r, !.todo = @ \ {r}, !.ctx = repo]
  <2>1. j.mode = job[p].mode
    BY <1>a DEF Jobs
  <2> QED BY <1>4, <1>b, <2>1 DEF AcquireForRecovery
<1>5. ASSUME NEW r \in RunIds, SkipRecord(p, r) PROVE OnlySelected'
  <2> DEFINE j == [job[p] EXCEPT !.todo = @ \ {r}]
  <2>1. j.mode = job[p].mode
    BY <1>a DEF Jobs
  <2> QED BY <1>5, <1>b, <2>1 DEF SkipRecord
<1>6. ASSUME NEW x \in Patches, Recover(p, x) PROVE OnlySelected'
  <2> DEFINE j == [job[p] EXCEPT !.changed = TRUE, !.run = NoRun, !.ctx = FirstState]
  <2>1. j.mode = job[p].mode
    BY <1>a DEF Jobs
  <2> QED BY <1>6, <1>b, <2>1 DEF Recover
<1>7. ASSUME NEW x \in Patches, ArchivePatch(p, x) PROVE OnlySelected'
  <2> DEFINE j == [job[p] EXCEPT !.view[x] = "absent"]
  <2>1. j.mode = job[p].mode
    BY <1>a DEF Jobs
  <2> QED BY <1>7, <1>b, <2>1 DEF ArchivePatch
<1>8. CASE BeginArchive(p)
  <2>1. PICK reread \in {job[p].changed, FALSE} :
       Become(p, [job[p] EXCEPT
         !.view = [x \in Patches |-> IF reread /\ @[x] # "absent"
                                     THEN ledger[x].status ELSE @[x]],
         !.hold = PendingDigests(p)])
    BY <1>8 DEF BeginArchive
  <2> DEFINE j == [job[p] EXCEPT
         !.view = [x \in Patches |-> IF reread /\ @[x] # "absent"
                                     THEN ledger[x].status ELSE @[x]],
         !.hold = PendingDigests(p)]
  <2>2. j.mode = job[p].mode
    BY <1>a DEF Jobs
  <2> QED BY <1>8, <1>b, <2>1, <2>2 DEF BeginArchive
<1>9. CASE AcquireForArchive(p)
  <2> DEFINE j == [job[p] EXCEPT !.ctx = repo]
  <2>1. j.mode = job[p].mode
    BY <1>a DEF Jobs
  <2> QED BY <1>9, <1>b, <2>1 DEF AcquireForArchive
<1>10. CASE EndArchive(p)
  <2> DEFINE j == [job[p] EXCEPT !.ctx = FirstState, !.seen = {}, !.hold = {}, !.changed = FALSE]
  <2>1. j.mode = job[p].mode
    BY <1>a DEF Jobs
  <2> QED BY <1>10, <1>b, <2>1 DEF EndArchive
<1>11. ASSUME NEW r \in RunIds, ArchiveResult(p, r) PROVE OnlySelected'
  BY <1>11 DEF ArchiveResult, OnlySelected
<1> QED BY <1>1, <1>2, <1>3, <1>4, <1>5, <1>6, <1>7, <1>8, <1>9, <1>10, <1>11 DEF Maintain

LEMMA SelectedApproach ==
  ASSUME TypeOK, OnlySelected, NEW p \in Procs, Approach(p)
  PROVE  OnlySelected'
<1>a. job[p] \in Jobs /\ SelectedBy(p) /\ pc \in [Procs -> ControlPoints] /\ job \in [Procs -> Jobs]
  BY DEF TypeOK, OnlySelected, SelectedBy
<1>1. ASSUME NEW x \in Patches, Select(p, x) PROVE OnlySelected'
  <2>1. job[p].view[x] = "failed" => job[p].mode = "manual"
    BY <1>1 DEF Select, Matches, Origin
  <2> DEFINE j == [IdleJob EXCEPT !.mode = Origin(p), !.patch = x, !.tracked = TRUE,
                                  !.retry = job[p].view[x] = "failed"]
  <2>2. j.mode = job[p].mode /\ j.tracked /\ (j.retry => job[p].mode = "manual")
    BY <2>1 DEF IdleJob, Origin
  <2>3. job' = [job EXCEPT ![p] = j] /\ Goto(p, "preflight")
    BY <1>1 DEF Select, Choose, Become
  <2> HIDE DEF j
  <2>4. SelectedBy(p)'
    BY <1>a, <2>2, <2>3 DEF SelectedBy
  <2> QED BY <2>3, <2>4, SelectedMoves DEF Become
<1>2. ~SelectExplicit(p) /\ ~Untracked(p)
  BY <1>a DEF SelectExplicit, Untracked, Origin, SelectedBy
<1>3. CASE Preflight(p)
  <2> DEFINE j == [job[p] EXCEPT !.ctx = repo]
  <2>1. j.mode = job[p].mode /\ j.tracked = job[p].tracked /\ j.retry = job[p].retry
    BY <1>a DEF Jobs
  <2>2. job' = [job EXCEPT ![p] = j] /\ Goto(p, "gated") /\ pc[p] = "preflight"
    BY <1>3 DEF Preflight, Become
  <2> HIDE DEF j
  <2>3. SelectedBy(p)'
    BY <1>a, <2>1, <2>2 DEF SelectedBy
  <2> QED BY <2>2, <2>3, SelectedMoves DEF Become
<1>4. CASE Recheck(p)
  <2>1. job' = job /\ Goto(p, "checked") /\ pc[p] = "gated"
    BY <1>4 DEF Recheck
  <2>2. SelectedBy(p)'
    BY <1>a, <2>1 DEF SelectedBy, Goto
  <2> QED BY <2>1, <2>2, SelectedMoves
<1>5. CASE Refuse(p)
  <2>1. job' = [job EXCEPT ![p] = IdleJob] /\ pc' = [pc EXCEPT ![p] = "idle"]
    BY <1>5 DEF Refuse, Leave, Become, Goto
  <2>2. SelectedBy(p)'
    BY <1>a, <2>1 DEF SelectedBy, IdleJob, Mutating
  <2> QED BY <2>1, <2>2, SelectedMoves DEF Become, Goto
<1> QED BY <1>1, <1>2, <1>3, <1>4, <1>5 DEF Approach

LEMMA SelectedRun ==
  ASSUME TypeOK, OnlySelected, NEW p \in Procs, Run(p)
  PROVE  OnlySelected'
<1>a. job[p] \in Jobs /\ SelectedBy(p) /\ pc \in [Procs -> ControlPoints] /\ job \in [Procs -> Jobs]
  BY DEF TypeOK, OnlySelected, SelectedBy
\* A run keeps what selection has noted.
<1>b. ASSUME NEW l, NEW j, Goto(p, l),
             pc[p] \in Mutating \cup {"checked"},
             j.mode = job[p].mode, j.tracked = job[p].tracked, j.retry = job[p].retry,
             (job' = job /\ j = job[p]) \/ Become(p, j)
      PROVE  OnlySelected'
  <2>1. job'[p] = j
    BY <1>a, <1>b DEF Become
  <2>2. SelectedBy(p)'
    BY <1>a, <1>b, <2>1 DEF SelectedBy
  <2> QED BY <1>b, <2>2, SelectedMoves
<1>1. ASSUME NEW r \in RunIds, Mark(p, r) PROVE OnlySelected'
  <2> DEFINE j == [job[p] EXCEPT !.run = r]
  <2>1. j.mode = job[p].mode /\ j.tracked = job[p].tracked /\ j.retry = job[p].retry
    BY <1>a DEF Jobs
  <2> QED BY <1>1, <1>b, <2>1 DEF Mark
<1>2. CASE ScriptEnd(p)
  <2>1. PICK ok \in BOOLEAN : Become(p, [job[p] EXCEPT !.ok = ok])
    BY <1>2 DEF ScriptEnd
  <2> DEFINE j == [job[p] EXCEPT !.ok = ok]
  <2>2. j.mode = job[p].mode /\ j.tracked = job[p].tracked /\ j.retry = job[p].retry
    BY <1>a DEF Jobs
  <2> QED BY <1>2, <1>b, <2>1, <2>2 DEF ScriptEnd, Mutating
<1>3. CASE Publish(p) \/ NoEvidence(p)
  <2> DEFINE j == [job[p] EXCEPT !.published = TRUE]
  <2>1. j.mode = job[p].mode /\ j.tracked = job[p].tracked /\ j.retry = job[p].retry
    BY <1>a DEF Jobs
  <2> QED BY <1>3, <1>b, <2>1 DEF Publish, NoEvidence, Mutating
<1>4. CASE Write(p) \/ WriteFail(p) \/ Capture(p) \/ Pin(p) \/ Finish(p) \/ FinishLost(p)
  <2>1. job' = job /\ pc[p] \in Mutating /\ \E l : Goto(p, l)
    BY <1>4 DEF Write, WriteFail, Capture, Pin, Finish, FinishLost, Mutating
  <2> QED BY <1>b, <2>1
<1>5. CASE Release(p)
  <2>1. job' = [job EXCEPT ![p] = IdleJob] /\ pc' = [pc EXCEPT ![p] = "idle"]
    BY <1>5 DEF Release, Leave, Become, Goto
  <2>2. SelectedBy(p)'
    BY <1>a, <2>1 DEF SelectedBy, IdleJob, Mutating
  <2> QED BY <2>1, <2>2, SelectedMoves DEF Become, Goto
<1> QED BY <1>1, <1>2, <1>3, <1>4, <1>5 DEF Run

LEMMA SelectedStep ==
  ASSUME "explicit" \notin Modes, TypeOK, OnlySelected, [Next]_vars
  PROVE  OnlySelected'
<1>1. CASE UNCHANGED <<pc, job>>
  BY <1>1 DEF OnlySelected
<1>2. ASSUME NEW p \in Procs, NEW m \in Modes, NEW x \in Patches \cup {NoPatch},
             Start(p, m, x)
      PROVE  OnlySelected'
  <2> DEFINE j == [IdleJob EXCEPT !.mode = m, !.patch = x,
                     !.scope = IF m = "manual" THEN repo ELSE FirstState]
  <2>1. j.mode # "explicit"
    BY DEF IdleJob
  <2>2. job' = [job EXCEPT ![p] = j] /\ pc' = [pc EXCEPT ![p] = "scan"]
    BY <1>2 DEF Start, Become, Goto
  <2> HIDE DEF j
  <2>3. SelectedBy(p)'
    BY <2>1, <2>2 DEF SelectedBy, TypeOK, Mutating
  <2> QED BY <2>2, <2>3, SelectedMoves DEF Become, Goto
<1>3. ASSUME NEW p \in Procs, Crash(p) PROVE OnlySelected'
  <2>1. job' = [job EXCEPT ![p] = IdleJob] /\ pc' = [pc EXCEPT ![p] = "idle"]
    BY <1>3 DEF Crash, Leave, Become, Goto
  <2>2. SelectedBy(p)'
    BY <2>1 DEF SelectedBy, IdleJob, Mutating, TypeOK
  <2> QED BY <2>1, <2>2, SelectedMoves DEF Become, Goto
<1>4. CASE Environment
  BY <1>1, <1>2, <1>3, <1>4
     DEF Environment, Deliver, Withdraw, TakeResult, Commit, Reset, Edit
<1> QED BY <1>1, <1>4, SelectedMaintain, SelectedApproach, SelectedRun DEF Next, Step, vars

-----------------------------------------------------------------------------
\* Records and runs.

\* Whatever else a record says, the run it names is the same.
LEMMA HistoriesKept ==
  ASSUME Histories, runs' = runs,
         \A x \in Patches :
           /\ ledger'[x].run = ledger[x].run
           /\ ledger'[x].status \in {"absent", "fresh"} <=> ledger[x].status \in {"absent", "fresh"}
  PROVE  Histories'
BY DEF Histories, RunsInOrder, RecordsNameRuns, LedgerNamesLatestRun, EarlierFailed, AutomaticIsFirst

\* The last run of a package gets an outcome.
LEMMA HistoriesSettle ==
  ASSUME TypeOK, Histories, ledger' = ledger, NEW x \in Patches,
         ledger[x].status = "attempted",
         NEW fate \in {"open", "ok", "fail"}, Settle(ledger[x].run, fate)
  PROVE  Histories'
<1> DEFINE r == ledger[x].run
<1>1. r \in RunIds /\ runs[r].patch = x
  BY DEF Histories, RecordsNameRuns
<1>2. /\ runs'[r].fate = fate /\ runs'[r].patch = x /\ runs'[r].mode = runs[r].mode
      /\ \A s \in RunIds : s # r => runs'[s] = runs[s]
  BY <1>1 DEF Settle, TypeOK
<1>3. \A s \in RunIds : runs'[s].patch = runs[s].patch /\ runs'[s].mode = runs[s].mode
  BY <1>1, <1>2
<1>4. \A s \in RunIds : runs'[s].fate = "unused" <=> runs[s].fate = "unused"
  BY <1>1, <1>2, ConstantsAssumption DEF Histories, RunsInOrder
<1>5. EarlierFailed'
  <2> SUFFICES ASSUME NEW y \in Patches, NEW s \in RunIds,
                      runs'[s].patch = y, s # ledger[y].run
               PROVE  runs'[s].fate = "fail"
    BY DEF EarlierFailed
  <2>1. s # r
    BY <1>1, <1>3
  <2> QED BY <1>2, <1>3, <2>1 DEF Histories, EarlierFailed
<1> HIDE DEF r
<1> QED BY <1>3, <1>4, <1>5
        DEF Histories, RunsInOrder, RecordsNameRuns, LedgerNamesLatestRun, AutomaticIsFirst

\* The next run begins, of a package that has not run or whose last run failed.
LEMMA HistoriesMark ==
  ASSUME TypeOK, JobMatchesRun, TerminalStatusIsTrue, OnlySelected, Histories,
         NEW p \in Procs, NEW r \in RunIds, Mark(p, r)
  PROVE  /\ Histories'
         /\ job[p].patch \in Patches
         /\ ledger[job[p].patch].status \in {"fresh", "failed"}
         /\ ledger' = [ledger EXCEPT ![job[p].patch] = Attempt(r)]
<1> DEFINE x == job[p].patch
<1>1. /\ x \in Patches /\ job[p].tracked /\ job[p].mode # "explicit"
      /\ job[p].retry => job[p].mode = "manual"
  BY DEF Mark, JobMatchesRun, JobMatches, OnlySelected
<1>2. /\ NextRun(r) /\ MayStart(p, x) /\ pc[p] = "checked"
      /\ ledger' = [ledger EXCEPT ![x] = Attempt(r)]
      /\ runs' = [runs EXCEPT ![r] = [patch |-> x, mode |-> job[p].mode, fate |-> "marked"]]
  BY <1>1 DEF Mark, Origin
<1>3. \/ ledger[x].status = "fresh"
      \/ ledger[x].status = "failed" /\ job[p].mode = "manual"
  BY <1>1, <1>2 DEF MayStart, Origin
<1> HIDE DEF x
<1>4. /\ ledger'[x].run = r /\ ledger'[x].status = "attempted"
      /\ \A y \in Patches : y # x => ledger'[y] = ledger[y]
  BY <1>1, <1>2 DEF Attempt, Record, TypeOK
<1>5. /\ runs'[r].patch = x /\ runs'[r].mode = job[p].mode /\ runs'[r].fate = "marked"
      /\ \A s \in RunIds : s # r => runs'[s] = runs[s]
  BY <1>2 DEF TypeOK
<1>6. \A s \in RunIds : r < s => runs[s].fate = "unused" /\ runs[s].patch = NoPatch
  BY <1>2 DEF NextRun, Histories, RunsInOrder
<1>7. runs[r].fate = "unused" /\ runs[r].patch = NoPatch
      /\ \A s \in RunIds : s < r => runs[s].fate # "unused"
  BY <1>2 DEF NextRun, Histories, RunsInOrder
<1>8. \A s \in RunIds : runs[s].patch = x => s < r /\ runs[s].fate = "fail"
  <2> SUFFICES ASSUME NEW s \in RunIds, runs[s].patch = x PROVE s < r /\ runs[s].fate = "fail"
    OBVIOUS
  <2>1. s < r
    BY <1>1, <1>6, <1>7, ConstantsAssumption DEF RunIds
  <2>2. s <= ledger[x].run /\ (s # ledger[x].run => runs[s].fate = "fail")
    BY <1>1 DEF Histories, LedgerNamesLatestRun, EarlierFailed
  <2>3. ledger[x].status # "fresh"
    BY <1>1, <2>2 DEF Histories, RecordsNameRuns, NoRun, RunIds
  <2> QED BY <1>1, <1>3, <2>1, <2>2, <2>3 DEF TerminalStatusIsTrue
<1>9. ledger[x].status = "fresh" => \A s \in RunIds : runs[s].patch # x
  BY <1>1 DEF Histories, RecordsNameRuns, LedgerNamesLatestRun, NoRun, RunIds
<1>10. x # NoPatch
  BY <1>1, ConstantsAssumption
<1>11. RunsInOrder'
  BY <1>5, <1>6, <1>7, <1>10 DEF Histories, RunsInOrder, RunIds
<1>12. RecordsNameRuns'
  <2> SUFFICES ASSUME NEW y \in Patches
               PROVE  IF ledger'[y].status \in {"absent", "fresh"} THEN ledger'[y].run = NoRun
                      ELSE ledger'[y].run \in RunIds /\ runs'[ledger'[y].run].patch = y
    BY DEF RecordsNameRuns
  <2>1. CASE y = x
    BY <1>4, <1>5, <2>1
  <2>2. CASE y # x
    <3>1. ledger[y].run # r \/ ledger[y].status \in {"absent", "fresh"}
      BY <1>7, ConstantsAssumption DEF Histories, RecordsNameRuns
    <3> QED BY <1>4, <1>5, <2>2, <3>1 DEF Histories, RecordsNameRuns
  <2> QED BY <2>1, <2>2
<1>13. LedgerNamesLatestRun'
  <2> SUFFICES ASSUME NEW y \in Patches, NEW s \in RunIds, runs'[s].patch = y
               PROVE  s <= ledger'[y].run
    BY DEF LedgerNamesLatestRun
  <2>1. CASE s = r
    BY <1>4, <1>5, <2>1 DEF RunIds
  <2>2. CASE s # r /\ y = x
    BY <1>4, <1>5, <1>8, <2>2 DEF RunIds
  <2>3. CASE s # r /\ y # x
    BY <1>4, <1>5, <2>3 DEF Histories, LedgerNamesLatestRun
  <2> QED BY <2>1, <2>2, <2>3
<1>14. EarlierFailed'
  <2> SUFFICES ASSUME NEW y \in Patches, NEW s \in RunIds, runs'[s].patch = y,
                      s # ledger'[y].run
               PROVE  runs'[s].fate = "fail"
    BY DEF EarlierFailed
  <2>1. s # r
    BY <1>4, <1>5
  <2>2. CASE y = x
    BY <1>5, <1>8, <2>1, <2>2
  <2>3. CASE y # x
    BY <1>4, <1>5, <2>1, <2>3 DEF Histories, EarlierFailed
  <2> QED BY <2>2, <2>3
<1>15. AutomaticIsFirst'
  <2> SUFFICES ASSUME NEW q \in RunIds, NEW s \in RunIds, runs'[q].mode = "automatic", s < q
               PROVE  runs'[s].patch # runs'[q].patch
    BY DEF AutomaticIsFirst
  <2>1. CASE q = r
    BY <1>3, <1>5, <1>9, <2>1 DEF RunIds
  <2>2. CASE q # r /\ s = r
    <3>1. runs[q].patch = NoPatch
      BY <1>6, <2>2
    <3> QED BY <1>5, <1>10, <2>2, <3>1
  <2>3. CASE q # r /\ s # r
    BY <1>5, <2>3 DEF Histories, AutomaticIsFirst
  <2> QED BY <2>1, <2>2, <2>3
<1> QED BY <1>1, <1>2, <1>3, <1>11, <1>12, <1>13, <1>14, <1>15 DEF Histories, x

\* A run of p changes what p owns and nothing that anybody else does.
OwnedBy(p) ==
  pc[p] \in Mutating =>
    ledger[job[p].patch].status = "attempted" /\ ledger[job[p].patch].run = job[p].run

LEMMA OneOwns ==
  ASSUME TypeOK, LockCoversTrust, OwnsRecord, NEW p \in Procs,
         pc' = pc \/ \E l : Goto(p, l),
         job' = job \/ \E j : Become(p, j),
         ledger' = ledger \/ pc[p] \in Locking,
         OwnedBy(p)'
  PROVE  OwnsRecord'
<1>1. ASSUME NEW q \in Procs, q # p PROVE OwnedBy(q)'
  <2>1. pc'[q] = pc[q] /\ job'[q] = job[q]
    BY <1>1, OthersStay
  <2>2. pc[p] \in Locking => pc[q] \notin Mutating
    BY <1>1 DEF LockCoversTrust, Locking, Mutating
  <2> QED BY <2>1, <2>2 DEF OwnsRecord, OwnedBy
<1> QED BY <1>1 DEF OwnsRecord, OwnedBy

LEMMA HistoriesMaintain ==
  ASSUME IInv, Histories, OwnsRecord, NEW p \in Procs, Maintain(p)
  PROVE  Histories' /\ OwnsRecord'
<1> USE DEF IInv
<1>a. job \in [Procs -> Jobs] /\ pc \in [Procs -> ControlPoints]
  BY DEF TypeOK
\* Maintenance ends where nothing is run.
<1>b. pc[p] \notin Mutating /\ pc'[p] \notin Mutating
      /\ (pc' = pc \/ \E l : Goto(p, l)) /\ (job' = job \/ \E j : Become(p, j))
  BY <1>a DEF Maintain, Scan, BeginRecovery, AbandonRecovery, AcquireForRecovery, SkipRecord,
     Recover, ArchivePatch, BeginArchive, AcquireForArchive, EndArchive, ArchiveResult,
     Goto, Mutating
<1>1. CASE Scan(p)
  <2>1. \A x \in Patches :
          ledger'[x] = IF x \in files /\ ledger[x].status = "absent"
                       THEN Record("fresh", NoRun, NoRun, NoCommit) ELSE ledger[x]
    BY <1>1 DEF Scan, Merged
  <2>2. \A x \in Patches :
          /\ ledger'[x].run = ledger[x].run
          /\ ledger'[x].status \in {"absent", "fresh"} <=> ledger[x].status \in {"absent", "fresh"}
          /\ ledger[x].status = "attempted" => ledger'[x] = ledger[x]
    BY <2>1 DEF Histories, RecordsNameRuns, Record
  <2>3. Histories'
    BY <1>1, <2>2, HistoriesKept DEF Scan
  <2>4. OwnsRecord'
    <3> SUFFICES ASSUME NEW q \in Procs, pc'[q] \in Mutating
                 PROVE  /\ ledger'[job'[q].patch].status = "attempted"
                        /\ ledger'[job'[q].patch].run = job'[q].run
      BY DEF OwnsRecord
    <3>1. q # p
      BY <1>b
    <3>2. pc'[q] = pc[q] /\ job'[q] = job[q]
      BY <1>b, <3>1, OthersStay
    <3>3. job[q].patch \in Patches
      BY <3>2 DEF JobMatchesRun, JobMatches
    <3> QED BY <2>2, <3>2, <3>3 DEF OwnsRecord
  <2> QED BY <2>3, <2>4
<1>2. ASSUME NEW x \in Patches, Recover(p, x) PROVE Histories' /\ OwnsRecord'
  <2>1. /\ ledger[x] = Record("attempted", job[p].run, job[p].run, NoCommit)
        /\ \E c : ledger' = [ledger EXCEPT ![x] = Record("succeeded", job[p].run, job[p].run, c)]
    BY <1>2 DEF Recover, Recoverable, Proven
  <2>2. \A y \in Patches :
          /\ ledger'[y].run = ledger[y].run
          /\ ledger'[y].status \in {"absent", "fresh"} <=> ledger[y].status \in {"absent", "fresh"}
    BY <2>1 DEF Record, TypeOK
  <2>3. Histories'
    BY <1>2, <2>2, HistoriesKept DEF Recover
  <2>4. pc[p] \in Locking
    BY <1>2 DEF Recover, Locking
  <2> QED BY <1>b, <2>3, <2>4, OneOwns DEF OwnedBy
<1>3. CASE UNCHANGED <<ledger, runs>>
  <2>1. Histories'
    BY <1>3, HistoriesKept
  <2> QED BY <1>3, <1>b, <2>1, OneOwns DEF OwnedBy
<1> QED BY <1>1, <1>2, <1>3
        DEF Maintain, BeginRecovery, AbandonRecovery, AcquireForRecovery, SkipRecord,
            ArchivePatch, BeginArchive, AcquireForArchive, EndArchive, ArchiveResult, diskVars

LEMMA HistoriesRun ==
  ASSUME IInv, OnlySelected, Histories, OwnsRecord, NEW p \in Procs, Run(p)
  PROVE  Histories' /\ OwnsRecord'
<1> USE DEF IInv
<1>a. /\ job \in [Procs -> Jobs] /\ pc \in [Procs -> ControlPoints]
      /\ job[p] \in Jobs /\ JobMatches(p) /\ OwnedBy(p)
  BY DEF TypeOK, JobMatchesRun, OwnsRecord, OwnedBy
<1>b. pc[p] \in Locking
      /\ (pc' = pc \/ \E l : Goto(p, l)) /\ (job' = job \/ \E j : Become(p, j))
  BY <1>a DEF Run, Mark, Write, WriteFail, ScriptEnd, Capture, Pin, Publish, NoEvidence,
     Finish, FinishLost, Release, Leave, Locking
<1>1. ASSUME NEW r \in RunIds, Mark(p, r) PROVE Histories' /\ OwnsRecord'
  <2>1. /\ Histories' /\ job[p].patch \in Patches
        /\ ledger' = [ledger EXCEPT ![job[p].patch] = Attempt(r)]
    BY <1>1, HistoriesMark
  <2>2. job'[p].run = r /\ job'[p].patch = job[p].patch
    BY <1>1, <1>a DEF Mark, Become, Jobs
  <2>3. OwnedBy(p)'
    BY <2>1, <2>2 DEF OwnedBy, Attempt, Record, TypeOK
  <2> QED BY <1>b, <2>1, <2>3, OneOwns
<1>2. CASE Write(p) \/ WriteFail(p) \/ ScriptEnd(p)
  <2>1. /\ ledger' = ledger /\ pc[p] \in Mutating
        /\ \E fate \in {"open", "ok", "fail"} : Settle(job[p].run, fate)
    BY <1>2 DEF Write, WriteFail, ScriptEnd, Mutating, diskVars
  <2>2. /\ job[p].patch \in Patches /\ ledger[job[p].patch].status = "attempted"
        /\ ledger[job[p].patch].run = job[p].run
    BY <2>1, <1>a DEF JobMatches, OwnedBy
  <2>3. Histories'
    BY <2>1, <2>2, HistoriesSettle
  <2>4. job'[p].patch = job[p].patch /\ job'[p].run = job[p].run
    BY <1>2, <1>a DEF Write, WriteFail, ScriptEnd, Become, Jobs
  <2> QED BY <1>b, <2>1, <2>2, <2>3, <2>4, OneOwns DEF OwnedBy
<1>3. CASE Capture(p) \/ Publish(p) \/ NoEvidence(p)
  <2>1. ledger' = ledger /\ runs' = runs /\ pc[p] \in Mutating
    BY <1>3 DEF Capture, Publish, NoEvidence, diskVars, Mutating
  <2>2. job'[p].patch = job[p].patch /\ job'[p].run = job[p].run
    BY <1>3, <1>a DEF Capture, Publish, NoEvidence, Become, Jobs
  <2> QED BY <1>a, <1>b, <2>1, <2>2, HistoriesKept, OneOwns DEF OwnedBy
<1>4. CASE Pin(p)
  <2>1. /\ job' = job /\ runs' = runs /\ pc[p] \in Mutating
        /\ ledger' = [ledger EXCEPT ![job[p].patch] = [@ EXCEPT !.digest = job[p].run]]
    BY <1>4 DEF Pin, Mutating
  <2>2. \A y \in Patches : ledger'[y].run = ledger[y].run /\ ledger'[y].status = ledger[y].status
    BY <2>1 DEF TypeOK, Records
  <2>3. job[p].patch \in Patches
    BY <2>1, <1>a DEF JobMatches
  <2> QED BY <1>a, <1>b, <2>1, <2>2, <2>3, HistoriesKept, OneOwns DEF OwnedBy
<1>5. CASE Finish(p)
  <2>1. /\ runs' = runs /\ pc[p] = "finish" /\ Goto(p, "close")
        /\ ledger[job[p].patch].status = "attempted" /\ ledger[job[p].patch].run = job[p].run
        /\ \E c : ledger' = [ledger EXCEPT ![job[p].patch] =
               IF job[p].ok THEN Record("succeeded", job[p].run, ledger[job[p].patch].digest, c)
                            ELSE Record("failed", job[p].run, NoRun, NoCommit)]
    BY <1>5 DEF Finish, Succeeded
  <2>2. ASSUME NEW y \in Patches
        PROVE  /\ ledger'[y].run = ledger[y].run
               /\ ledger'[y].status \in {"absent", "fresh"}
                    <=> ledger[y].status \in {"absent", "fresh"}
    <3>1. CASE y = job[p].patch
      <4>1. /\ ledger'[y].run = job[p].run
            /\ ledger'[y].status \in {"succeeded", "failed"}
        BY <2>1, <3>1 DEF TypeOK, Record
      <4> QED BY <2>1, <3>1, <4>1
    <3>2. CASE y # job[p].patch
      BY <2>1, <3>2 DEF TypeOK
    <3> QED BY <3>1, <3>2
  <2>3. pc'[p] \notin Mutating
    BY <2>1, <1>a DEF Goto, Mutating
  <2> QED BY <1>b, <2>1, <2>2, <2>3, HistoriesKept, OneOwns DEF OwnedBy
<1>6. CASE FinishLost(p) \/ Release(p)
  <2>1. ledger' = ledger /\ runs' = runs /\ pc'[p] \notin Mutating
    BY <1>6, <1>a DEF FinishLost, Release, Leave, Goto, diskVars, Mutating
  <2> QED BY <1>b, <2>1, HistoriesKept, OneOwns DEF OwnedBy
<1> QED BY <1>1, <1>2, <1>3, <1>4, <1>5, <1>6 DEF Run

LEMMA HistoriesStep ==
  ASSUME IInv, OnlySelected, Histories, OwnsRecord, [Next]_vars
  PROVE  Histories' /\ OwnsRecord'
<1> USE DEF IInv
<1>1. CASE UNCHANGED <<ledger, runs, pc, job>>
  BY <1>1, HistoriesKept DEF OwnsRecord
<1>2. ASSUME NEW p \in Procs, ledger' = ledger, runs' = runs,
             \E l : l \notin Mutating /\ Goto(p, l), job' = job \/ \E j : Become(p, j)
      PROVE  Histories' /\ OwnsRecord'
  <2>1. pc'[p] \notin Mutating
    BY <1>2 DEF TypeOK, Goto
  <2> QED BY <1>2, <2>1, HistoriesKept, OneOwns DEF OwnedBy
<1>3. CASE Environment
  <2>1. ASSUME NEW p \in Procs, NEW m \in Modes, NEW x \in Patches \cup {NoPatch},
               Start(p, m, x)
        PROVE  Histories' /\ OwnsRecord'
    BY <2>1, <1>2 DEF Start, diskVars, Mutating
  <2>2. ASSUME NEW p \in Procs, Crash(p) PROVE Histories' /\ OwnsRecord'
    BY <2>2, <1>2 DEF Crash, Leave, diskVars, Mutating
  <2> QED BY <1>1, <1>3, <2>1, <2>2
          DEF Environment, Deliver, Withdraw, TakeResult, Commit, Reset, Edit, diskVars
<1>4. ASSUME NEW p \in Procs, Approach(p) PROVE Histories' /\ OwnsRecord'
  BY <1>4, <1>2
     DEF Approach, Select, SelectExplicit, Untracked, Preflight, Recheck, Refuse, Leave, Choose,
         diskVars, Mutating
<1> QED BY <1>1, <1>3, <1>4, HistoriesMaintain, HistoriesRun DEF Next, Step, vars

-----------------------------------------------------------------------------
(* The contract.                                                            *)

\* Somebody runs the package.
Held(x) == \E p \in Procs : pc[p] \in Mutating /\ job[p].patch = x

StatusOf(x) ==
  IF ledger[x].status \in {"absent", "fresh"} THEN "fresh"
  ELSE IF ledger[x].status = "attempted" THEN IF Held(x) THEN "running" ELSE "lost"
  ELSE ledger[x].status

TruthOf(x) ==
  IF ledger[x].run = NoRun THEN "none"
  ELSE IF runs[ledger[x].run].fate \in {"marked", "open"} THEN "open"
  ELSE runs[ledger[x].run].fate

ContractIs ==
  /\ contractStatus = [x \in Patches |-> StatusOf(x)]
  /\ contractTruth = [x \in Patches |-> TruthOf(x)]

LEMMA ContractState == RInv => ContractIs
<1> SUFFICES ASSUME RInv PROVE ContractIs
  OBVIOUS
<1>1. \A x \in Patches : Owned(x) <=> Held(x)
  BY DEF RInv, OnlySelected, OwnsRecord, Owned, Held
<1>2. \A x \in Patches : ledger[x].status \in Statuses
  BY DEF RInv, IInv, TypeOK, Records
<1>3. ASSUME NEW x \in Patches
      PROVE  (CASE ledger[x].status \in {"absent", "fresh"} -> "fresh"
                [] ledger[x].status = "attempted" -> IF Owned(x) THEN "running" ELSE "lost"
                [] OTHER -> ledger[x].status) = StatusOf(x)
  BY <1>1, <1>2 DEF StatusOf, Statuses
<1> QED BY <1>3 DEF ContractIs, contractStatus, contractTruth, TruthOf

\* The values of one package change, or none.
LEMMA ContractMoves ==
  ASSUME RInv, RInv', NEW x \in Patches,
         \A y \in Patches : y # x => StatusOf(y)' = StatusOf(y) /\ TruthOf(y)' = TruthOf(y)
  PROVE  /\ contractStatus[x] = StatusOf(x) /\ contractTruth[x] = TruthOf(x)
         /\ contractStatus' = [contractStatus EXCEPT ![x] = StatusOf(x)']
         /\ contractTruth' = [contractTruth EXCEPT ![x] = TruthOf(x)']
<1>1. (RInv => ContractIs)'
  BY ContractState, PTL
<1> QED BY <1>1, ContractState DEF ContractIs

LEMMA ContractStays ==
  ASSUME RInv, RInv',
         \A y \in Patches : StatusOf(y)' = StatusOf(y) /\ TruthOf(y)' = TruthOf(y)
  PROVE  UNCHANGED <<contractStatus, contractTruth>>
<1>1. (RInv => ContractIs)'
  BY ContractState, PTL
<1> QED BY <1>1, ContractState DEF ContractIs

\* Under the lock nobody else runs a package.
LEMMA HeldByOne ==
  ASSUME LockCoversTrust, NEW p \in Procs, pc[p] \in Locking, NEW y
  PROVE  Held(y) <=> pc[p] \in Mutating /\ job[p].patch = y
BY DEF LockCoversTrust, Held, Mutating, Locking

LEMMA HeldKept ==
  ASSUME TypeOK, NEW p \in Procs,
         pc' = pc \/ \E l : Goto(p, l), job' = job \/ \E j : Become(p, j),
         pc'[p] \in Mutating <=> pc[p] \in Mutating,
         pc[p] \in Mutating => job'[p].patch = job[p].patch,
         NEW y
  PROVE  Held(y)' <=> Held(y)
<1>1. \A q \in Procs : q # p => pc'[q] = pc[q] /\ job'[q] = job[q]
  BY OthersStay
<1> QED BY <1>1 DEF Held

\* p neither begins nor ends a run, and every record says the same.
LEMMA QuietStep ==
  ASSUME RInv, RInv', NEW p \in Procs,
         pc' = pc \/ \E l : Goto(p, l), job' = job \/ \E j : Become(p, j),
         pc'[p] \in Mutating <=> pc[p] \in Mutating,
         pc[p] \in Mutating => job'[p].patch = job[p].patch,
         runs' = runs,
         \A y \in Patches :
           /\ ledger'[y].run = ledger[y].run
           /\ \/ ledger'[y].status = ledger[y].status
              \/ {ledger[y].status, ledger'[y].status} \subseteq {"absent", "fresh"}
  PROVE  UNCHANGED <<contractStatus, contractTruth>>
<1>1. \A y \in Patches : Held(y)' <=> Held(y)
  BY HeldKept DEF RInv, IInv
<1>2. \A y \in Patches : StatusOf(y)' = StatusOf(y) /\ TruthOf(y)' = TruthOf(y)
  BY <1>1 DEF StatusOf, TruthOf
<1> QED BY <1>2, ContractStays

Simulated == [Contract!Next]_(Contract!vars)

LEMMA Stutters ==
  ASSUME UNCHANGED <<contractStatus, contractTruth>> PROVE Simulated
BY DEF Simulated, Contract!vars

\* The process that runs a package dies, or cannot write its outcome.
LEMMA LoseSimulated ==
  ASSUME RInv, RInv', NEW p \in Procs, pc[p] \in Mutating,
         \E l : l \notin Mutating /\ Goto(p, l), job' = job \/ \E j : Become(p, j),
         UNCHANGED <<ledger, runs>>
  PROVE  Simulated
<1>0. PICK x \in Patches : x = job[p].patch
  BY DEF RInv, IInv, JobMatchesRun, JobMatches
<1>1. ledger[x].status = "attempted"
  BY <1>0 DEF RInv, OwnsRecord
<1>2. \A y : Held(y) <=> y = x
  BY <1>0, HeldByOne DEF RInv, IInv, Locking, Mutating
<1>3. \A q \in Procs : q # p => pc'[q] = pc[q] /\ pc[q] \notin Mutating
  BY OthersStay DEF RInv, IInv, LockCoversTrust, Locking, Mutating
<1>4. pc'[p] \notin Mutating
  BY DEF RInv, IInv, TypeOK, Goto
<1>5. \A y : ~Held(y)'
  BY <1>3, <1>4 DEF Held
<1>6. /\ StatusOf(x) = "running" /\ StatusOf(x)' = "lost" /\ TruthOf(x)' = TruthOf(x)
      /\ \A y \in Patches : y # x => StatusOf(y)' = StatusOf(y) /\ TruthOf(y)' = TruthOf(y)
  BY <1>1, <1>2, <1>5 DEF StatusOf, TruthOf
<1>7. /\ contractStatus[x] = "running" /\ contractStatus' = [contractStatus EXCEPT ![x] = "lost"]
      /\ contractTruth' = [contractTruth EXCEPT ![x] = contractTruth[x]]
  BY <1>1, <1>6, ContractMoves
<1>8. contractTruth' = contractTruth
  BY <1>7, ContractState DEF ContractIs
<1>9. Contract!Lose(x)
  BY <1>7, <1>8 DEF Contract!Lose
<1> QED BY <1>1, <1>9 DEF Simulated, Contract!Next

LEMMA MarkSimulated ==
  ASSUME RInv, RInv', NEW p \in Procs, NEW r \in RunIds, Mark(p, r)
  PROVE  Simulated
<1>0. PICK x \in Patches : x = job[p].patch
  BY HistoriesMark DEF RInv, IInv
<1>1. /\ ledger[x].status \in {"fresh", "failed"}
      /\ ledger' = [ledger EXCEPT ![x] = Attempt(r)]
  BY <1>0, HistoriesMark DEF RInv, IInv
<1>2. /\ pc[p] = "checked" /\ pc'[p] = "payload" /\ job'[p].patch = x
      /\ \A s \in RunIds : s # r => runs'[s] = runs[s]
      /\ runs[r].patch = NoPatch /\ runs'[r].fate = "marked"
  BY <1>0 DEF Mark, NextRun, Goto, Become, RInv, IInv, TypeOK, Jobs, Histories, RunsInOrder
<1>3. \A y : ~Held(y)
  BY <1>2, HeldByOne DEF RInv, IInv, Locking, Mutating
<1>4. \A y : Held(y)' <=> y = x
  <2>1. \A q \in Procs : q # p => pc'[q] = pc[q] /\ pc[q] \notin Mutating
    BY <1>2, OthersStay DEF RInv, IInv, LockCoversTrust, Locking, Mutating, Mark
  <2> QED BY <1>2, <2>1 DEF Held, Mutating
<1>5. /\ StatusOf(x) = ledger[x].status /\ StatusOf(x)' = "running" /\ TruthOf(x)' = "open"
  <2>1. ledger'[x].status = "attempted" /\ ledger'[x].run = r /\ r # NoRun
    BY <1>1 DEF Attempt, Record, RInv, IInv, TypeOK, RunIds, NoRun
  <2> QED BY <1>1, <1>2, <1>4, <2>1 DEF StatusOf, TruthOf
<1>6. ASSUME NEW y \in Patches, y # x
      PROVE  StatusOf(y)' = StatusOf(y) /\ TruthOf(y)' = TruthOf(y)
  <2>1. ledger'[y] = ledger[y]
    BY <1>1, <1>6
  <2>2. ledger[y].run = NoRun \/ (ledger[y].run \in RunIds /\ ledger[y].run # r)
    BY <1>2, ConstantsAssumption DEF RInv, Histories, RecordsNameRuns
  <2> QED BY <1>2, <1>3, <1>4, <1>6, <2>1, <2>2 DEF StatusOf, TruthOf
<1>7. /\ contractStatus[x] = StatusOf(x)
      /\ contractStatus' = [contractStatus EXCEPT ![x] = StatusOf(x)']
      /\ contractTruth' = [contractTruth EXCEPT ![x] = TruthOf(x)']
  BY <1>6, ContractMoves
<1>8. \A y \in Patches : contractStatus[y] # "running"
  <2>1. \A y \in Patches : contractStatus[y] = StatusOf(y) /\ ledger[y].status \in Statuses
    BY ContractState DEF ContractIs, RInv, IInv, TypeOK, Records
  <2> QED BY <1>3, <2>1 DEF StatusOf, Statuses
<1>9. Contract!Begin(x)
  BY <1>1, <1>5, <1>7, <1>8 DEF Contract!Begin
<1> QED BY <1>9 DEF Simulated, Contract!Next

\* The run of p gets an outcome, or goes on.
LEMMA SettleSimulated ==
  ASSUME RInv, RInv', NEW p \in Procs, pc[p] \in {"payload", "script"},
         \E l \in Mutating : Goto(p, l), job' = job \/ \E j : Become(p, j),
         job'[p].patch = job[p].patch, ledger' = ledger,
         NEW fate \in {"open", "ok", "fail"}, Settle(job[p].run, fate)
  PROVE  Simulated
<1>0. PICK x \in Patches : x = job[p].patch
  BY DEF RInv, IInv, JobMatchesRun, JobMatches, Mutating
<1>1. /\ ledger[x].status = "attempted" /\ ledger[x].run = job[p].run /\ job[p].run \in RunIds
      /\ runs[job[p].run].fate \in {"marked", "open"} /\ runs[job[p].run].patch = x
  BY <1>0 DEF RInv, OwnsRecord, IInv, JobMatchesRun, JobMatches, Mutating, FateAt
<1>2. /\ runs'[job[p].run].fate = fate
      /\ \A s \in RunIds : s # job[p].run => runs'[s] = runs[s]
  BY <1>1 DEF Settle, RInv, IInv, TypeOK
<1>3. \A y : Held(y)' <=> Held(y)
  <2>1. pc'[p] \in Mutating
    BY DEF RInv, IInv, TypeOK, Goto
  <2> QED BY <2>1, HeldKept DEF RInv, IInv, Mutating
<1>4. Held(x)
  BY <1>0 DEF Held, Mutating
<1>5. /\ StatusOf(x) = "running" /\ StatusOf(x)' = "running" /\ TruthOf(x) = "open"
      /\ TruthOf(x)' = fate
  BY <1>1, <1>2, <1>3, <1>4, ConstantsAssumption DEF StatusOf, TruthOf, RunIds, NoRun
<1>6. ASSUME NEW y \in Patches, y # x
      PROVE  StatusOf(y)' = StatusOf(y) /\ TruthOf(y)' = TruthOf(y)
  <2>1. ledger[y].run = NoRun \/ (ledger[y].run \in RunIds /\ ledger[y].run # job[p].run)
    BY <1>1, <1>6 DEF RInv, Histories, RecordsNameRuns
  <2> QED BY <1>2, <1>3, <2>1 DEF StatusOf, TruthOf
<1>7. /\ contractStatus[x] = StatusOf(x) /\ contractTruth[x] = TruthOf(x)
      /\ contractStatus' = [contractStatus EXCEPT ![x] = StatusOf(x)']
      /\ contractTruth' = [contractTruth EXCEPT ![x] = TruthOf(x)']
  BY <1>6, ContractMoves
<1>8. UNCHANGED contractStatus
  BY <1>5, <1>7, ContractState DEF ContractIs
<1>9. CASE fate = "open"
  <2>1. UNCHANGED contractTruth
    BY <1>5, <1>7, <1>9, ContractState DEF ContractIs
  <2> QED BY <1>8, <2>1, Stutters
<1>10. CASE fate # "open"
  <2>1. Contract!Execute(x)
    BY <1>5, <1>7, <1>8, <1>10 DEF Contract!Execute
  <2> QED BY <2>1 DEF Simulated, Contract!Next
<1> QED BY <1>9, <1>10

LEMMA FinishSimulated ==
  ASSUME RInv, RInv', NEW p \in Procs, Finish(p)
  PROVE  Simulated
<1>0. PICK x \in Patches : x = job[p].patch
  BY DEF RInv, IInv, JobMatchesRun, JobMatches, Mutating, Finish
<1>1. /\ ledger[x].status = "attempted" /\ ledger[x].run = job[p].run /\ job[p].run \in RunIds
      /\ runs[job[p].run].fate = IF job[p].ok THEN "ok" ELSE "fail"
      /\ pc[p] = "finish" /\ pc' = [pc EXCEPT ![p] = "close"] /\ job' = job /\ runs' = runs
  BY <1>0 DEF Finish, RInv, OwnsRecord, IInv, JobMatchesRun, JobMatches, Mutating, FateAt, Goto
<1>2. /\ ledger'[x].status = IF job[p].ok THEN "succeeded" ELSE "failed"
      /\ ledger'[x].run = job[p].run
      /\ \A y \in Patches : y # x => ledger'[y] = ledger[y]
  BY <1>0 DEF Finish, Succeeded, Record, RInv, IInv, TypeOK
<1>3. \A y : Held(y) <=> y = x
  BY <1>0, <1>1, HeldByOne DEF RInv, IInv, Locking, Mutating
<1>4. \A y : ~Held(y)'
  <2>1. \A q \in Procs : pc'[q] \notin Mutating
    BY <1>1 DEF RInv, IInv, LockCoversTrust, TypeOK, Locking, Mutating
  <2> QED BY <2>1 DEF Held
<1>5. /\ StatusOf(x) = "running" /\ StatusOf(x)' = ledger'[x].status
      /\ TruthOf(x) = (IF job[p].ok THEN "ok" ELSE "fail") /\ TruthOf(x)' = TruthOf(x)
  BY <1>1, <1>2, <1>3, <1>4 DEF StatusOf, TruthOf, RunIds, NoRun
<1>6. \A y \in Patches : y # x => StatusOf(y)' = StatusOf(y) /\ TruthOf(y)' = TruthOf(y)
  BY <1>1, <1>2, <1>3, <1>4 DEF StatusOf, TruthOf
<1>7. /\ contractStatus[x] = StatusOf(x) /\ contractTruth[x] = TruthOf(x)
      /\ contractStatus' = [contractStatus EXCEPT ![x] = StatusOf(x)']
      /\ contractTruth' = [contractTruth EXCEPT ![x] = TruthOf(x)']
  BY <1>6, ContractMoves
<1>8. contractTruth' = contractTruth
  BY <1>5, <1>7, ContractState DEF ContractIs
<1>9. Contract!End(x)
  BY <1>2, <1>5, <1>7, <1>8 DEF Contract!End
<1> QED BY <1>9 DEF Simulated, Contract!Next

LEMMA RecoverSimulated ==
  ASSUME RInv, RInv', NEW p \in Procs, NEW x \in Patches, Recover(p, x)
  PROVE  Simulated
<1>1. /\ ledger[x] = Record("attempted", job[p].run, job[p].run, NoCommit)
      /\ job[p].run \in RunIds /\ pc[p] = "recovering" /\ runs' = runs
      /\ Goto(p, "recover") /\ \E j : Become(p, j)
      /\ \E c : ledger' = [ledger EXCEPT ![x] = Record("succeeded", job[p].run, job[p].run, c)]
  BY DEF Recover, Recoverable, Proven, RInv, IInv, TypeOK
<1>2. /\ ledger[x].status = "attempted" /\ ledger[x].run = job[p].run
      /\ ledger'[x].status = "succeeded" /\ ledger'[x].run = job[p].run
      /\ \A y \in Patches : y # x => ledger'[y] = ledger[y]
      /\ runs[job[p].run].fate = "ok"
  BY <1>1 DEF Record, RInv, IInv, TypeOK, PinnedRunSucceeded, RunIds, NoRun
<1>3. \A y : ~Held(y)
  BY <1>1, HeldByOne DEF RInv, IInv, Locking, Mutating
<1>4. \A y : ~Held(y)'
  <2>1. pc'[p] \notin Mutating
    BY <1>1 DEF RInv, IInv, TypeOK, Goto, Mutating
  <2>2. \A q \in Procs : q # p => pc'[q] = pc[q] /\ pc[q] \notin Mutating
    BY <1>1, OthersStay DEF RInv, IInv, LockCoversTrust, Locking, Mutating
  <2> QED BY <2>1, <2>2 DEF Held
<1>5. /\ StatusOf(x) = "lost" /\ StatusOf(x)' = "succeeded"
      /\ TruthOf(x) = "ok" /\ TruthOf(x)' = TruthOf(x)
  BY <1>1, <1>2, <1>3, <1>4 DEF StatusOf, TruthOf, RunIds, NoRun
<1>6. \A y \in Patches : y # x => StatusOf(y)' = StatusOf(y) /\ TruthOf(y)' = TruthOf(y)
  BY <1>1, <1>2, <1>3, <1>4 DEF StatusOf, TruthOf
<1>7. /\ contractStatus[x] = StatusOf(x) /\ contractTruth[x] = TruthOf(x)
      /\ contractStatus' = [contractStatus EXCEPT ![x] = StatusOf(x)']
      /\ contractTruth' = [contractTruth EXCEPT ![x] = TruthOf(x)']
  BY <1>6, ContractMoves
<1>8. contractTruth' = contractTruth
  BY <1>5, <1>7, ContractState DEF ContractIs
<1>9. \A y \in Patches : contractStatus[y] # "running"
  <2>1. \A y \in Patches : contractStatus[y] = StatusOf(y) /\ ledger[y].status \in Statuses
    BY ContractState DEF ContractIs, RInv, IInv, TypeOK, Records
  <2> QED BY <1>3, <2>1 DEF StatusOf, Statuses
<1>10. Contract!Recover(x)
  BY <1>5, <1>7, <1>8, <1>9 DEF Contract!Recover
<1> QED BY <1>10 DEF Simulated, Contract!Next

\* p is not running a package, nor does it begin to.
LEMMA IdleSimulated ==
  ASSUME RInv, RInv', NEW p \in Procs, UNCHANGED <<ledger, runs>>, pc[p] \notin Mutating,
         pc' = pc \/ \E l : l \notin Mutating /\ Goto(p, l),
         job' = job \/ \E j : Become(p, j)
  PROVE  Simulated
<1>1. pc'[p] \notin Mutating
  BY DEF RInv, IInv, TypeOK, Goto
<1>2. pc' = pc \/ \E l : Goto(p, l)
  OBVIOUS
<1> QED BY <1>1, <1>2, QuietStep, Stutters

\* p goes on with its run, and nobody can tell the difference.
LEMMA RunningSimulated ==
  ASSUME RInv, RInv', NEW p \in Procs, pc[p] \in Mutating, runs' = runs,
         \E l \in Mutating : Goto(p, l),
         job' = job \/ \E j : Become(p, j), job'[p].patch = job[p].patch,
         \A y \in Patches : /\ ledger'[y].run = ledger[y].run
                            /\ ledger'[y].status = ledger[y].status
  PROVE  Simulated
<1>1. pc'[p] \in Mutating
  BY DEF RInv, IInv, TypeOK, Goto
<1>2. pc' = pc \/ \E l : Goto(p, l)
  OBVIOUS
<1> QED BY <1>1, <1>2, QuietStep, Stutters

LEMMA EnvironmentSimulated == ASSUME RInv, RInv', Environment PROVE Simulated
<1>1. ASSUME NEW p \in Procs, NEW m \in Modes, NEW x \in Patches \cup {NoPatch}, Start(p, m, x)
      PROVE  Simulated
  BY <1>1, IdleSimulated DEF Start, diskVars, Mutating
<1>2. ASSUME NEW p \in Procs, Crash(p) PROVE Simulated
  BY <1>2, IdleSimulated, LoseSimulated DEF Crash, Leave, diskVars, Mutating
<1>3. CASE UNCHANGED <<ledger, runs, pc, job>>
  <2>1. UNCHANGED <<contractStatus, contractTruth>>
    BY <1>3 DEF contractStatus, contractTruth, Owned
  <2> QED BY <2>1, Stutters
<1> QED BY <1>1, <1>2, <1>3
        DEF Environment, Deliver, Withdraw, TakeResult, Commit, Reset, Edit, diskVars

LEMMA MaintainSimulated ==
  ASSUME RInv, RInv', NEW p \in Procs, Maintain(p) PROVE Simulated
<1>1. CASE Scan(p)
  <2>1. \A y \in Patches :
          /\ ledger'[y].run = ledger[y].run
          /\ \/ ledger'[y].status = ledger[y].status
             \/ {ledger[y].status, ledger'[y].status} \subseteq {"absent", "fresh"}
    BY <1>1 DEF Scan, Merged, Record, RInv, Histories, RecordsNameRuns
  <2>2. /\ pc[p] \notin Mutating /\ runs' = runs
        /\ Goto(p, "recovery") /\ \E j : Become(p, j)
    BY <1>1 DEF Scan, Mutating
  <2>3. pc'[p] \notin Mutating
    BY <2>2 DEF RInv, IInv, TypeOK, Goto, Mutating
  <2> QED BY <2>1, <2>2, <2>3, QuietStep, Stutters
<1>2. ASSUME NEW x \in Patches, Recover(p, x) PROVE Simulated
  BY <1>2, RecoverSimulated
<1>3. CASE BeginRecovery(p) \/ AbandonRecovery(p)
  BY <1>3, IdleSimulated DEF BeginRecovery, AbandonRecovery, diskVars, Mutating
<1>4. ASSUME NEW r \in RunIds,
             AcquireForRecovery(p, r) \/ SkipRecord(p, r) \/ ArchiveResult(p, r)
      PROVE  Simulated
  BY <1>4, IdleSimulated DEF AcquireForRecovery, SkipRecord, ArchiveResult, diskVars, Mutating
<1>5. ASSUME NEW x \in Patches, ArchivePatch(p, x) PROVE Simulated
  BY <1>5, IdleSimulated DEF ArchivePatch, Mutating
<1>6. CASE BeginArchive(p) \/ AcquireForArchive(p) \/ EndArchive(p)
  BY <1>6, IdleSimulated DEF BeginArchive, AcquireForArchive, EndArchive, diskVars, Mutating
<1> QED BY <1>1, <1>2, <1>3, <1>4, <1>5, <1>6 DEF Maintain

LEMMA ApproachSimulated ==
  ASSUME RInv, RInv', NEW p \in Procs, Approach(p) PROVE Simulated
BY IdleSimulated
   DEF Approach, Select, SelectExplicit, Untracked, Preflight, Recheck, Refuse, Leave, Choose,
       diskVars, Mutating

LEMMA RunSimulated ==
  ASSUME RInv, RInv', NEW p \in Procs, Run(p) PROVE Simulated
<1>a. job[p] \in Jobs
  BY DEF RInv, IInv, TypeOK
<1>1. ASSUME NEW r \in RunIds, Mark(p, r) PROVE Simulated
  BY <1>1, MarkSimulated
<1>2. CASE Write(p) \/ WriteFail(p)
  <2>1. /\ job' = job /\ ledger' = ledger /\ pc[p] = "payload"
        /\ \E l \in Mutating : Goto(p, l)
        /\ Settle(job[p].run, "open") \/ Settle(job[p].run, "fail")
    BY <1>2 DEF Write, WriteFail, diskVars, Mutating
  <2>2. job'[p].patch = job[p].patch
    BY <2>1
  <2> QED BY <2>1, <2>2, SettleSimulated
<1>3. CASE ScriptEnd(p)
  <2>1. PICK ok \in BOOLEAN : /\ Become(p, [job[p] EXCEPT !.ok = ok])
                              /\ Settle(job[p].run, IF ok THEN "ok" ELSE "fail")
    BY <1>3 DEF ScriptEnd
  <2>2. /\ ledger' = ledger /\ pc[p] = "script" /\ \E l \in Mutating : Goto(p, l)
        /\ \E j : Become(p, j)
    BY <1>3 DEF ScriptEnd, diskVars, Mutating
  <2>3. job'[p].patch = job[p].patch
    BY <1>a, <2>1 DEF Become, Jobs, RInv, IInv, TypeOK
  <2>4. Settle(job[p].run, "ok") \/ Settle(job[p].run, "fail")
    BY <2>1
  <2> QED BY <2>2, <2>3, <2>4, SettleSimulated
<1>4. CASE Capture(p) \/ Publish(p) \/ NoEvidence(p)
  <2>1. /\ ledger' = ledger /\ runs' = runs /\ pc[p] \in Mutating
        /\ \E l \in Mutating : Goto(p, l)
        /\ job' = job \/ Become(p, [job[p] EXCEPT !.published = TRUE])
    BY <1>4 DEF Capture, Publish, NoEvidence, diskVars, Mutating
  <2>2. job'[p].patch = job[p].patch
    BY <1>a, <2>1 DEF Become, Jobs, RInv, IInv, TypeOK
  <2> QED BY <2>1, <2>2, RunningSimulated
<1>5. CASE Pin(p)
  <2>1. /\ runs' = runs /\ job' = job /\ pc[p] \in Mutating /\ \E l \in Mutating : Goto(p, l)
        /\ ledger' = [ledger EXCEPT ![job[p].patch] =
                        [ledger[job[p].patch] EXCEPT !.digest = job[p].run]]
    BY <1>5, Zenon DEF Pin, Mutating
  <2>2. \A y \in Patches : /\ ledger'[y].run = ledger[y].run
                           /\ ledger'[y].status = ledger[y].status
    BY <2>1 DEF RInv, IInv, TypeOK, Records
  <2> QED BY <2>1, <2>2, RunningSimulated
<1>6. CASE Finish(p)
  BY <1>6, FinishSimulated
<1>7. CASE FinishLost(p)
  BY <1>7, LoseSimulated DEF FinishLost, diskVars, Mutating
<1>8. CASE Release(p)
  BY <1>8, IdleSimulated DEF Release, Leave, diskVars, Mutating
<1> QED BY <1>1, <1>2, <1>3, <1>4, <1>5, <1>6, <1>7, <1>8 DEF Run

LEMMA ContractStep == RInv /\ RInv' /\ [Next]_vars => Simulated
<1>1. ASSUME RInv, RInv', UNCHANGED vars PROVE Simulated
  <2>1. UNCHANGED <<contractStatus, contractTruth>>
    BY <1>1 DEF contractStatus, contractTruth, Owned, vars
  <2> QED BY <2>1, Stutters
<1> QED BY <1>1, EnvironmentSimulated, MaintainSimulated, ApproachSimulated, RunSimulated
        DEF Next, Step

-----------------------------------------------------------------------------
(* The theorems.                                                            *)

\* The ledger, the control points and the history of runs hold each other up.
THEOREM ReplayInvariant ==
  ASSUME "explicit" \notin Modes PROVE Spec => []RInv
<1>1. RInv /\ [Next]_vars => RInv'
  <2>1. RInv /\ [Next]_vars => IInv'
    BY TypeStep, LockStep, MatchStep, TruthStep DEF RInv, IInv, Truth
  <2>2. RInv /\ [Next]_vars => OnlySelected'
    BY SelectedStep DEF RInv, IInv
  <2>3. RInv /\ [Next]_vars => Histories' /\ OwnsRecord'
    BY HistoriesStep DEF RInv
  <2> QED BY <2>1, <2>2, <2>3 DEF RInv
<1> QED BY <1>1, ReplayInit, PTL DEF Spec

\* As long as nobody applies packages by explicit path, the record of a package
\* names the latest of its runs: neither a late outcome nor a recovery puts an
\* earlier attempt back into the ledger.
THEOREM LatestRunIsNamed ==
  ASSUME "explicit" \notin Modes PROVE Spec => []LedgerNamesLatestRun
<1>1. RInv => LedgerNamesLatestRun
  BY DEF RInv, Histories
<1> QED BY <1>1, ReplayInvariant, PTL

\* No package is run again by automatic Apply, and none but failed ones by manual
\* Apply, however stale the scan, whoever crashes and whatever outcome was lost
\* (mark_exchange_apply_started under the replay-state lock).
THEOREM NothingIsReplayed ==
  ASSUME "explicit" \notin Modes PROVE Spec => NoReplay
<1> DEFINE Allowed(r) ==
      /\ runs[r].mode = "automatic" => RunsBefore(r) = {}
      /\ runs[r].mode = "manual" => \A s \in RunsBefore(r) : runs[s].fate = "fail"
    Replays == \A r \in RunIds : Crosses(r) => Allowed(r)
<1>1. ASSUME RInv, NEW r \in RunIds, NEW p \in Procs, pc[p] \in Mutating, job[p].run = r
      PROVE  Allowed(r)
  <2>1. PICK x \in Patches : /\ x = job[p].patch /\ runs[r].patch = x
                             /\ ledger[x].run = r
    BY <1>1 DEF RInv, IInv, JobMatchesRun, JobMatches, OwnsRecord, Mutating
  <2>2. \A s \in RunsBefore(r) : s \in RunIds /\ s # r /\ runs[s].patch = x
    BY <2>1 DEF RunsBefore
  <2>3. \A s \in RunsBefore(r) : runs[s].fate = "fail"
    BY <1>1, <2>1, <2>2 DEF RInv, Histories, EarlierFailed
  <2>4. \A s \in RunsBefore(r) : s < r
    BY <1>1, <2>1, <2>2, ConstantsAssumption
       DEF RInv, Histories, LedgerNamesLatestRun, RunIds
  <2>5. runs[r].mode = "automatic" => RunsBefore(r) = {}
    BY <1>1, <2>1, <2>2, <2>4 DEF RInv, Histories, AutomaticIsFirst
  <2> QED BY <2>3, <2>5
<1>2. RInv /\ [Next]_vars => [Replays]_vars
  <2> SUFFICES ASSUME RInv, Next, NEW r \in RunIds, Crosses(r) PROVE Allowed(r)
    BY SMTT(40) DEF Crosses, vars
  <2>1. PICK p \in Procs : Run(p)
    BY DEF Crosses, Next, Step, Environment, Deliver, Withdraw, TakeResult, Commit, Reset, Edit,
           Start, Crash, Maintain, Scan, BeginRecovery, AbandonRecovery, AcquireForRecovery,
           SkipRecord, Recover, ArchivePatch, BeginArchive, AcquireForArchive, EndArchive,
           ArchiveResult, Approach, Select, SelectExplicit, Untracked, Preflight, Recheck,
           Refuse
  <2>2. ASSUME NEW s \in RunIds, Mark(p, s) PROVE FALSE
    BY <2>2 DEF Mark, NextRun, Crosses, RInv, IInv, TypeOK
  <2>3. PICK fate : Settle(job[p].run, fate) /\ pc[p] \in Mutating
    BY <2>1, <2>2 DEF Crosses, Run, Write, WriteFail, ScriptEnd, Capture, Pin, Publish,
                      NoEvidence, Finish, FinishLost, Release, Mutating
  <2>4. job[p].run = r
    BY <2>3 DEF Settle, Crosses, RInv, IInv, TypeOK
  <2> QED BY <1>1, <2>3, <2>4
<1>3. Spec => [][Replays]_vars
  BY <1>2, ReplayInvariant, PTL DEF Spec
<1> QED BY <1>3 DEF NoReplay

\* ExchangeApply implements ReplayContract: whatever the invocations, crashes,
\* lost outcomes and recoveries do, the owner of the repository sees one package
\* run at a time, only fresh and failed ones begin, and a status that is true.
THEOREM ContractIsKept ==
  ASSUME "explicit" \notin Modes PROVE Spec => KeepsContract
<1>1. Init => Contract!Init
  <2> SUFFICES ASSUME Init PROVE Contract!Init
    OBVIOUS
  <2>1. \A x \in Patches : ledger[x].status = "absent" /\ ledger[x].run = NoRun
    BY DEF Init, NoRecord, Record
  <2> QED BY <2>1 DEF Contract!Init, contractStatus, contractTruth
<1>2. RInv /\ RInv' /\ [Next]_vars => [Contract!Next]_(Contract!vars)
  BY ContractStep DEF Simulated
<1> QED BY <1>1, <1>2, ReplayInvariant, PTL DEF Spec, KeepsContract, Contract!Spec

=============================================================================
