------------------------- MODULE ExchangeApplyProofs -------------------------
(***************************************************************************)
(* Theorems of ExchangeApply: type correctness, the coverage of every      *)
(* trusting step by the repository lock, the truth of terminal statuses,   *)
(* and what archival may move, for any number of invocations, packages,    *)
(* commits and runs.                                                       *)
(***************************************************************************)
EXTENDS ExchangeApply, TLAPS

\* The values every variable starts from, and resets to, are well typed.
LEMMA Constants ==
  /\ FirstState \in States
  /\ IdleJob \in Jobs
  /\ NoRecord \in Records
  /\ 1 \in Commits
BY ConstantsAssumption
   DEF FirstState, States, IdleJob, Jobs, NoRecord, Record, Records, Commits,
       Statuses, NoRun, NoCommit, RunIds

LEMMA RecordType ==
  ASSUME NEW s \in Statuses, NEW r \in RunIds \cup {NoRun},
         NEW d \in RunIds \cup {NoRun}, NEW c \in Commits \cup {NoCommit}
  PROVE  Record(s, r, d, c) \in Records
BY DEF Record, Records

LEMMA CompletedCommitType ==
  ASSUME TypeOK, NEW p \in Procs
  PROVE  CompletedCommit(p) \in Commits \cup {NoCommit}
BY DEF TypeOK, CompletedCommit, States

\* An invocation that takes a well-typed set of local variables keeps job's type.
LEMMA BecomeType ==
  ASSUME NEW p \in Procs, NEW j \in Jobs, job \in [Procs -> Jobs], Become(p, j)
  PROVE  job' \in [Procs -> Jobs]
BY DEF Become

LEMMA GotoType ==
  ASSUME NEW p \in Procs, NEW l \in ControlPoints, pc \in [Procs -> ControlPoints],
         Goto(p, l)
  PROVE  pc' \in [Procs -> ControlPoints]
BY DEF Goto

\* The initial state is well typed.
LEMMA TypeInit == Init => TypeOK
BY Constants, ConstantsAssumption
   DEF Init, TypeOK, Unused, Unbound, ControlPoints, Commits, NoRun, NoCommit, States, Locking

\* Steps of users, the transport and the operating system keep the types.
LEMMA TypeEnvironment == TypeOK /\ Environment => TypeOK'
<1> SUFFICES ASSUME TypeOK, Environment PROVE TypeOK'
    OBVIOUS
<1>1. ASSUME NEW x \in Patches, Deliver(x) PROVE TypeOK'
      BY <1>1 DEF TypeOK, Deliver, repoVars
<1>2. ASSUME NEW x \in Patches, Withdraw(x) PROVE TypeOK'
      BY <1>2 DEF TypeOK, Withdraw, repoVars
<1>3. ASSUME NEW r \in RunIds, TakeResult(r) PROVE TypeOK'
      BY <1>3 DEF TypeOK, TakeResult, repoVars
<1>4. CASE Commit
      BY <1>4 DEF TypeOK, Commit, diskVars, States
<1>5. CASE Reset
      BY <1>5 DEF TypeOK, Reset, diskVars, States
<1>6. CASE Edit
      BY <1>6 DEF TypeOK, Edit, diskVars, States
<1>7. ASSUME NEW p \in Procs, NEW m \in Modes, NEW x \in Patches \cup {NoPatch},
             Start(p, m, x)
      PROVE TypeOK'
  <2>1. [IdleJob EXCEPT !.mode = m, !.patch = x,
           !.scope = IF m = "manual" THEN repo ELSE FirstState] \in Jobs
        BY Constants, ConstantsAssumption DEF TypeOK, Jobs
  <2>2. job' \in [Procs -> Jobs]
        BY <1>7, <2>1, BecomeType DEF TypeOK, Start
  <2>3. pc' \in [Procs -> ControlPoints]
        BY <1>7, GotoType DEF TypeOK, Start, ControlPoints
  <2> QED BY <1>7, <2>2, <2>3 DEF TypeOK, Start, diskVars, repoVars
<1>8. ASSUME NEW p \in Procs, Crash(p) PROVE TypeOK'
  <2>1. job' \in [Procs -> Jobs]
        BY <1>8, Constants, BecomeType DEF TypeOK, Crash, Leave
  <2>2. pc' \in [Procs -> ControlPoints]
        BY <1>8, GotoType DEF TypeOK, Crash, Leave, ControlPoints
  <2> QED BY <1>8, <2>1, <2>2 DEF TypeOK, Crash, Freed, diskVars, repoVars
<1> QED BY <1>1, <1>2, <1>3, <1>4, <1>5, <1>6, <1>7, <1>8 DEF Environment

\* Discovery, recovery and archival keep the types.
LEMMA TypeMaintain == ASSUME TypeOK, NEW p \in Procs, Maintain(p) PROVE TypeOK'
<1>a. job \in [Procs -> Jobs] /\ job[p] \in Jobs /\ pc \in [Procs -> ControlPoints]
      BY DEF TypeOK
<1>b. \A l \in ControlPoints : Goto(p, l) => pc' \in [Procs -> ControlPoints]
      BY <1>a, GotoType
<1>c. {"recovery", "recover", "recovering", "archive", "archiving", "select"}
        \subseteq ControlPoints
      BY DEF ControlPoints, Locking
<1>d. \A j \in Jobs : Become(p, j) => job' \in [Procs -> Jobs]
      BY <1>a, BecomeType
<1>e. ledger \in [Patches -> Records] /\ results \in SUBSET RunIds /\ repo \in States
      BY DEF TypeOK
<1>1. CASE Scan(p)
  <2>. DEFINE v == [x \in Patches |-> IF x \in files THEN Merged[x].status ELSE "absent"]
  <2>1. Merged \in [Patches -> Records]
        BY RecordType DEF Merged, TypeOK, Statuses, NoRun, NoCommit
  <2>2. v \in [Patches -> Statuses]
        BY <2>1 DEF Records, Statuses
  <2>. HIDE DEF v
  <2>3. [job[p] EXCEPT !.view = v, !.seen = results] \in Jobs
        BY <1>a, <1>e, <2>2 DEF Jobs
  <2>4. job' \in [Procs -> Jobs]
        BY <1>1, <1>d, <2>3 DEF Scan, v
  <2> QED BY <1>1, <2>1, <2>4, <1>b, <1>c DEF TypeOK, Scan, repoVars
<1>2. CASE BeginRecovery(p)
  <2>1. Pending(p) \in SUBSET RunIds
        BY <1>a DEF Pending, Jobs
  <2>2. [job[p] EXCEPT !.todo = Pending(p)] \in Jobs
        BY <1>a, <2>1 DEF Jobs
  <2> QED BY <1>2, <1>d, <2>2, <1>b, <1>c DEF TypeOK, BeginRecovery, diskVars, repoVars
<1>3. CASE AbandonRecovery(p)
  <2>1. [job[p] EXCEPT !.run = NoRun, !.ctx = FirstState] \in Jobs
        BY <1>a, Constants DEF Jobs
  <2> QED BY <1>3, <1>d, <2>1, <1>b, <1>c DEF TypeOK, AbandonRecovery, diskVars, repoVars
<1>4. ASSUME NEW r \in RunIds, AcquireForRecovery(p, r) PROVE TypeOK'
  <2>1. [job[p] EXCEPT !.run = r, !.todo = @ \ {r}, !.ctx = repo] \in Jobs
        BY <1>a, <1>e DEF Jobs
  <2> QED BY <1>4, <1>d, <2>1, <1>b, <1>c
          DEF TypeOK, AcquireForRecovery, diskVars, repoVars
<1>5. ASSUME NEW r \in RunIds, SkipRecord(p, r) PROVE TypeOK'
  <2>1. [job[p] EXCEPT !.todo = @ \ {r}] \in Jobs
        BY <1>a DEF Jobs
  <2> QED BY <1>5, <1>d, <2>1 DEF TypeOK, SkipRecord, diskVars, repoVars
<1>6. ASSUME NEW x \in Patches, Recover(p, x) PROVE TypeOK'
  <2>1. [job[p] EXCEPT !.changed = TRUE, !.run = NoRun, !.ctx = FirstState] \in Jobs
        BY <1>a, Constants DEF Jobs
  <2>2. ledger' \in [Patches -> Records]
        BY <1>6, RecordType DEF TypeOK, Recover, Recoverable, Statuses
  <2> QED BY <1>6, <1>d, <2>1, <2>2, <1>b, <1>c DEF TypeOK, Recover, repoVars
<1>7. ASSUME NEW x \in Patches, ArchivePatch(p, x) PROVE TypeOK'
  <2>1. "absent" \in Statuses
        BY DEF Statuses
  <2>2. [job[p] EXCEPT !.view[x] = "absent"] \in Jobs
        BY <1>a, <2>1 DEF Jobs
  <2> QED BY <1>7, <1>d, <2>2 DEF TypeOK, ArchivePatch, repoVars
<1>8. CASE BeginArchive(p)
  <2>1. PendingDigests(p) \in SUBSET RunIds
        BY <1>e DEF PendingDigests, Records
  <2>2. ASSUME NEW reread \in BOOLEAN
        PROVE  [job[p] EXCEPT
                  !.view = [x \in Patches |-> IF reread /\ @[x] # "absent"
                                              THEN ledger[x].status ELSE @[x]],
                  !.hold = PendingDigests(p)] \in Jobs
    <3>. DEFINE v == [x \in Patches |-> IF reread /\ job[p].view[x] # "absent"
                                        THEN ledger[x].status ELSE job[p].view[x]]
    <3>1. v \in [Patches -> Statuses]
          BY <1>a, <1>e DEF Jobs, Records
    <3>. HIDE DEF v
    <3>2. [job[p] EXCEPT !.view = v, !.hold = PendingDigests(p)] \in Jobs
          BY <1>a, <2>1, <3>1 DEF Jobs
    <3> QED BY <3>2 DEF v
  <2>3. job[p].changed \in BOOLEAN
        BY <1>a DEF Jobs
  <2> QED BY <1>8, <1>d, <2>2, <2>3, <1>b, <1>c
          DEF TypeOK, BeginArchive, diskVars, repoVars
<1>9. CASE AcquireForArchive(p)
  <2>1. [job[p] EXCEPT !.ctx = repo] \in Jobs
        BY <1>a, <1>e DEF Jobs
  <2> QED BY <1>9, <1>d, <2>1, <1>b, <1>c
          DEF TypeOK, AcquireForArchive, diskVars, repoVars
<1>10. CASE EndArchive(p)
  <2>1. [job[p] EXCEPT !.ctx = FirstState, !.seen = {}, !.hold = {},
                       !.changed = FALSE] \in Jobs
        BY <1>a, Constants DEF Jobs
  <2> QED BY <1>10, <1>d, <2>1, <1>b, <1>c DEF TypeOK, EndArchive, diskVars, repoVars
<1>11. ASSUME NEW r \in RunIds, ArchiveResult(p, r) PROVE TypeOK'
       BY <1>11 DEF TypeOK, ArchiveResult, repoVars
<1> QED BY <1>1, <1>2, <1>3, <1>4, <1>5, <1>6, <1>7, <1>8, <1>9, <1>10, <1>11
        DEF Maintain

\* Selection, preflight and refusal keep the types.
LEMMA TypeApproach == ASSUME TypeOK, NEW p \in Procs, Approach(p) PROVE TypeOK'
<1>a. job \in [Procs -> Jobs] /\ job[p] \in Jobs /\ pc \in [Procs -> ControlPoints]
      BY DEF TypeOK
<1>b. \A l \in ControlPoints : Goto(p, l) => pc' \in [Procs -> ControlPoints]
      BY <1>a, GotoType
<1>c. {"idle", "preflight", "gated", "checked"} \subseteq ControlPoints
      BY DEF ControlPoints, Locking
<1>d. \A j \in Jobs : Become(p, j) => job' \in [Procs -> Jobs]
      BY <1>a, BecomeType
<1>e. ASSUME NEW x \in Patches \cup {NoPatch}, NEW t \in BOOLEAN, NEW y \in BOOLEAN,
             Choose(p, x, t, y)
      PROVE  job' \in [Procs -> Jobs]
  <2>1. job[p].mode \in AllModes \cup {"none"}
        BY <1>a DEF Jobs
  <2>2. [IdleJob EXCEPT !.mode = job[p].mode, !.patch = x, !.tracked = t, !.retry = y]
          \in Jobs
        BY <2>1, Constants DEF Jobs
  <2> QED BY <1>d, <1>e, <2>2 DEF Choose, Origin
<1>f. job[p].patch \in Patches \cup {NoPatch}
      BY <1>a DEF Jobs
<1>1. ASSUME NEW x \in Patches, Select(p, x) PROVE TypeOK'
  <2>1. job' \in [Procs -> Jobs]
        BY <1>1, <1>e DEF Select
  <2> QED BY <1>1, <2>1, <1>b, <1>c DEF TypeOK, Select, diskVars, repoVars
<1>2. CASE SelectExplicit(p)
  <2>1. job' \in [Procs -> Jobs]
        BY <1>2, <1>e, <1>f DEF SelectExplicit
  <2> QED BY <1>2, <2>1, <1>b, <1>c DEF TypeOK, SelectExplicit, diskVars, repoVars
<1>3. CASE Untracked(p)
  <2>1. job' \in [Procs -> Jobs]
        BY <1>3, <1>e, <1>f DEF Untracked
  <2> QED BY <1>3, <2>1, <1>b, <1>c DEF TypeOK, Untracked, diskVars, repoVars
<1>4. CASE Preflight(p)
  <2>1. [job[p] EXCEPT !.ctx = repo] \in Jobs
        BY <1>a DEF Jobs, TypeOK
  <2> QED BY <1>4, <1>d, <2>1, <1>b, <1>c DEF TypeOK, Preflight, diskVars, repoVars
<1>5. CASE Recheck(p)
      BY <1>5, <1>b, <1>c DEF TypeOK, Recheck, diskVars, repoVars
<1>6. CASE Refuse(p)
      BY <1>6, <1>b, <1>c, <1>d, Constants
         DEF TypeOK, Refuse, Leave, Freed, diskVars, repoVars
<1> QED BY <1>1, <1>2, <1>3, <1>4, <1>5, <1>6 DEF Approach

\* The run itself keeps the types.
LEMMA TypeRun ==
  ASSUME TypeOK, JobMatchesRun, NEW p \in Procs, Run(p)
  PROVE  TypeOK'
<1>. DEFINE Fates == {"unused", "marked", "open", "ok", "fail"}
            RunRecords == [patch : Patches \cup {NoPatch},
                           mode : AllModes \cup {"none"}, fate : Fates]
<1>a. job \in [Procs -> Jobs] /\ job[p] \in Jobs /\ pc \in [Procs -> ControlPoints]
      BY DEF TypeOK
<1>b. \A l \in ControlPoints : Goto(p, l) => pc' \in [Procs -> ControlPoints]
      BY <1>a, GotoType
<1>c. {"idle", "payload", "script", "capture", "pin", "publish", "finish", "close"}
        \subseteq ControlPoints
      BY DEF ControlPoints, Locking
<1>d. \A j \in Jobs : Become(p, j) => job' \in [Procs -> Jobs]
      BY <1>a, BecomeType
<1>e. ledger \in [Patches -> Records] /\ repo \in States /\ runs \in [RunIds -> RunRecords]
      BY DEF TypeOK
<1>f. /\ job[p].patch \in Patches \cup {NoPatch}
      /\ job[p].mode \in AllModes \cup {"none"}
      /\ job[p].run \in RunIds \cup {NoRun}
      BY <1>a DEF Jobs
<1>g. ASSUME NEW r, NEW fate \in Fates, Settle(r, fate)
      PROVE  runs' \in [RunIds -> RunRecords]
      BY <1>e, <1>g DEF Settle
<1>h. ASSUME NEW t \in {repo.tree, "dirty"}, repo' = [repo EXCEPT !.tree = t]
      PROVE  repo' \in States
      BY <1>e, <1>h DEF States
<1>1. ASSUME NEW r \in RunIds, Mark(p, r) PROVE TypeOK'
  <2>1. [job[p] EXCEPT !.run = r] \in Jobs
        BY <1>a DEF Jobs
  <2>2. Attempt(r) \in Records
        BY RecordType DEF Attempt, Statuses
  <2>3. ledger' \in [Patches -> Records]
        BY <1>1, <1>e, <2>2 DEF Mark
  <2>4. runs' \in [RunIds -> RunRecords]
        BY <1>1, <1>e, <1>f DEF Mark, Origin
  <2> QED BY <1>1, <1>d, <2>1, <2>3, <2>4, <1>b, <1>c DEF TypeOK, Mark, repoVars
<1>2. CASE Write(p)
  <2>1. repo' \in States /\ runs' \in [RunIds -> RunRecords]
        BY <1>2, <1>g, <1>h DEF Write
  <2> QED BY <1>2, <2>1, <1>b, <1>c DEF TypeOK, Write, diskVars
<1>3. CASE WriteFail(p)
  <2>1. repo' \in States /\ runs' \in [RunIds -> RunRecords]
        BY <1>3, <1>g, <1>h DEF WriteFail
  <2> QED BY <1>3, <2>1, <1>b, <1>c DEF TypeOK, WriteFail, diskVars
<1>4. CASE ScriptEnd(p)
  <2>1. runs' \in [RunIds -> RunRecords]
        BY <1>4, <1>g DEF ScriptEnd
  <2>2. \A ok \in BOOLEAN : [job[p] EXCEPT !.ok = ok] \in Jobs
        BY <1>a DEF Jobs
  <2>3. job' \in [Procs -> Jobs]
        BY <1>4, <1>d, <2>2 DEF ScriptEnd
  <2> QED BY <1>4, <2>1, <2>3, <1>b, <1>c DEF TypeOK, ScriptEnd, diskVars, repoVars
<1>5. CASE Capture(p)
  <2>1. [patch |-> job[p].patch, head |-> repo.head, commit |-> CompletedCommit(p)]
          \in [patch : Patches \cup {NoPatch}, head : Commits \cup {NoCommit},
               commit : Commits \cup {NoCommit}]
        BY <1>e, <1>f, CompletedCommitType DEF States
  <2>2. receipt' \in [RunIds -> [patch : Patches \cup {NoPatch},
                                 head : Commits \cup {NoCommit},
                                 commit : Commits \cup {NoCommit}]]
        BY <1>5, <2>1 DEF Capture, TypeOK
  <2> QED BY <1>5, <2>2, <1>b, <1>c DEF TypeOK, Capture, repoVars
<1>6. CASE Pin(p)
  <2>1. \A y \in Patches : [ledger[y] EXCEPT !.digest = job[p].run] \in Records
        BY <1>e, <1>f DEF Records
  <2>2. ledger' = [ledger EXCEPT ![job[p].patch] =
                     [ledger[job[p].patch] EXCEPT !.digest = job[p].run]]
        BY <1>6, Zenon DEF Pin
  <2>3. ledger' \in [Patches -> Records]
        BY <1>e, <2>1, <2>2
  <2> QED BY <1>6, <2>3, <1>b, <1>c DEF TypeOK, Pin, repoVars
<1>7. CASE Publish(p)
  <2>1. [job[p] EXCEPT !.published = TRUE] \in Jobs
        BY <1>a DEF Jobs
  <2>2. results' \in SUBSET RunIds
        BY <1>7 DEF Publish, TypeOK, JobMatchesRun, JobMatches, Mutating
  <2> QED BY <1>7, <1>d, <2>1, <2>2, <1>b, <1>c DEF TypeOK, Publish, repoVars
<1>8. CASE NoEvidence(p)
  <2>1. [job[p] EXCEPT !.published = TRUE] \in Jobs
        BY <1>a DEF Jobs
  <2> QED BY <1>8, <1>d, <2>1, <1>b, <1>c DEF TypeOK, NoEvidence, diskVars, repoVars
<1>9. CASE Finish(p)
  <2>1. ledger' \in [Patches -> Records]
    <3>1. PICK c \in {CompletedCommit(p), NoCommit} :
            ledger' = [ledger EXCEPT ![job[p].patch] =
                         IF Succeeded(p)
                         THEN Record("succeeded", job[p].run, @.digest, c)
                         ELSE Record("failed", job[p].run, NoRun, NoCommit)]
          BY <1>9 DEF Finish
    <3>2. c \in Commits \cup {NoCommit}
          BY CompletedCommitType
    <3>3. \A y \in Patches : ledger[y].digest \in RunIds \cup {NoRun}
          BY <1>e DEF Records
    <3>4. \A y \in Patches :
            /\ Record("succeeded", job[p].run, ledger[y].digest, c) \in Records
            /\ Record("failed", job[p].run, NoRun, NoCommit) \in Records
          BY <1>f, <3>2, <3>3, RecordType DEF Statuses
    <3> QED BY <1>e, <3>1, <3>4
  <2> QED BY <1>9, <2>1, <1>b, <1>c DEF TypeOK, Finish, repoVars
<1>10. CASE FinishLost(p)
       BY <1>10, <1>b, <1>c DEF TypeOK, FinishLost, diskVars, repoVars
<1>11. CASE Release(p)
       BY <1>11, <1>b, <1>c, <1>d, Constants DEF TypeOK, Release, Leave, diskVars, repoVars
<1> QED BY <1>1, <1>2, <1>3, <1>4, <1>5, <1>6, <1>7, <1>8, <1>9, <1>10, <1>11 DEF Run

LEMMA TypeStep == TypeOK /\ JobMatchesRun /\ [Next]_vars => TypeOK'
<1>1. CASE UNCHANGED vars
      BY <1>1 DEF TypeOK, vars
<1> QED BY <1>1, TypeEnvironment, TypeMaintain, TypeApproach, TypeRun DEF Next, Step

-----------------------------------------------------------------------------
(* The repository lock.                                                    *)

\* A step that leaves the lock alone and stays on one side of it.
LEMMA LockKept ==
  ASSUME TypeOK, LockCoversTrust, NEW p \in Procs, NEW l, Goto(p, l),
         lock' = lock, pc[p] \in Locking <=> l \in Locking
  PROVE  LockCoversTrust'
BY DEF TypeOK, LockCoversTrust, Goto

\* A step that takes the free lock.
LEMMA LockTaken ==
  ASSUME TypeOK, LockCoversTrust, NEW p \in Procs, NEW l \in Locking, Goto(p, l),
         lock = NoProc, lock' = p
  PROVE  LockCoversTrust'
BY ConstantsAssumption DEF TypeOK, LockCoversTrust, Goto

\* A step that leaves the locked region, or was not in it.
LEMMA LockFreed ==
  ASSUME TypeOK, LockCoversTrust, NEW p \in Procs, NEW l, l \notin Locking,
         Goto(p, l), lock' = Freed(p)
  PROVE  LockCoversTrust'
BY ConstantsAssumption DEF TypeOK, LockCoversTrust, Goto, Freed

\* A holder that releases the lock frees it.
LEMMA HolderFrees ==
  ASSUME LockCoversTrust, NEW p \in Procs, pc[p] \in Locking
  PROVE  Freed(p) = NoProc
BY DEF LockCoversTrust, Freed

LEMMA LockStep == TypeOK /\ LockCoversTrust /\ [Next]_vars => LockCoversTrust'
<1> SUFFICES ASSUME TypeOK, LockCoversTrust, [Next]_vars PROVE LockCoversTrust'
    OBVIOUS
<1>1. ASSUME UNCHANGED <<pc, lock>> PROVE LockCoversTrust'
      BY <1>1 DEF LockCoversTrust
<1>2. CASE UNCHANGED vars
      BY <1>1, <1>2 DEF vars
<1>3. CASE Environment
  <2>1. ASSUME NEW p \in Procs, NEW m \in Modes, NEW x \in Patches \cup {NoPatch},
               Start(p, m, x)
        PROVE  LockCoversTrust'
        BY <2>1, LockKept DEF Start, Locking
  <2>2. ASSUME NEW p \in Procs, Crash(p) PROVE LockCoversTrust'
        BY <2>2, LockFreed DEF Crash, Leave, Locking
  <2> QED BY <1>1, <1>3, <2>1, <2>2
          DEF Environment, Deliver, Withdraw, TakeResult, Commit, Reset, Edit
<1>4. ASSUME NEW p \in Procs, Maintain(p) PROVE LockCoversTrust'
  <2>1. CASE Scan(p)
        BY <2>1, LockKept DEF Scan, Locking
  <2>2. CASE BeginRecovery(p)
        BY <2>2, LockKept DEF BeginRecovery, Locking
  <2>3. CASE AbandonRecovery(p)
        BY <2>3, LockFreed, HolderFrees DEF AbandonRecovery, Locking
  <2>4. ASSUME NEW r \in RunIds, AcquireForRecovery(p, r) PROVE LockCoversTrust'
        BY <2>4, LockTaken DEF AcquireForRecovery, Locking
  <2>5. ASSUME NEW r \in RunIds, SkipRecord(p, r) PROVE LockCoversTrust'
        BY <2>5, <1>1 DEF SkipRecord
  <2>6. ASSUME NEW x \in Patches, Recover(p, x) PROVE LockCoversTrust'
        BY <2>6, LockFreed, HolderFrees DEF Recover, Locking
  <2>7. ASSUME NEW x \in Patches, ArchivePatch(p, x) PROVE LockCoversTrust'
        BY <2>7, <1>1 DEF ArchivePatch
  <2>8. CASE BeginArchive(p)
        BY <2>8, LockKept DEF BeginArchive, Locking
  <2>9. CASE AcquireForArchive(p)
        BY <2>9, LockTaken DEF AcquireForArchive, Locking
  <2>10. CASE EndArchive(p)
    <3>1. lock' = Freed(p)
          BY <2>10 DEF EndArchive, Freed, LockCoversTrust, Locking
    <3> QED BY <2>10, <3>1, LockFreed DEF EndArchive, Locking
  <2>11. ASSUME NEW r \in RunIds, ArchiveResult(p, r) PROVE LockCoversTrust'
         BY <2>11, <1>1 DEF ArchiveResult
  <2> QED BY <1>4, <2>1, <2>2, <2>3, <2>4, <2>5, <2>6, <2>7, <2>8, <2>9, <2>10, <2>11
          DEF Maintain
<1>5. ASSUME NEW p \in Procs, Approach(p) PROVE LockCoversTrust'
  <2>1. ASSUME NEW x \in Patches, Select(p, x) PROVE LockCoversTrust'
        BY <2>1, LockKept DEF Select, Locking
  <2>2. CASE SelectExplicit(p)
        BY <2>2, LockKept DEF SelectExplicit, Locking
  <2>3. CASE Untracked(p)
        BY <2>3, LockKept DEF Untracked, Locking
  <2>4. CASE Preflight(p)
        BY <2>4, LockTaken DEF Preflight, Locking
  <2>5. CASE Recheck(p)
        BY <2>5, LockKept DEF Recheck, Locking
  <2>6. CASE Refuse(p)
        BY <2>6, LockFreed DEF Refuse, Leave, Locking
  <2> QED BY <1>5, <2>1, <2>2, <2>3, <2>4, <2>5, <2>6 DEF Approach
<1>6. ASSUME NEW p \in Procs, Run(p) PROVE LockCoversTrust'
  <2>1. ASSUME NEW r \in RunIds, Mark(p, r) PROVE LockCoversTrust'
        BY <2>1, LockKept DEF Mark, Locking
  <2>2. CASE Write(p) \/ WriteFail(p)
        BY <2>2, LockKept DEF Write, WriteFail, Locking
  <2>3. CASE ScriptEnd(p)
        BY <2>3, LockKept DEF ScriptEnd, Locking
  <2>4. CASE Capture(p)
    <3>1. PICK l \in {"pin", "publish"} : Goto(p, l)
          BY <2>4 DEF Capture
    <3> QED BY <2>4, <3>1, LockKept DEF Capture, Locking
  <2>5. CASE Pin(p)
        BY <2>5, LockKept DEF Pin, Locking
  <2>6. CASE Publish(p) \/ NoEvidence(p)
        BY <2>6, LockKept DEF Publish, NoEvidence, Locking
  <2>7. CASE Finish(p) \/ FinishLost(p)
        BY <2>7, LockKept DEF Finish, FinishLost, Locking
  <2>8. CASE Release(p)
        BY <2>8, LockFreed, HolderFrees DEF Release, Leave, Locking
  <2> QED BY <1>6, <2>1, <2>2, <2>3, <2>4, <2>5, <2>6, <2>7, <2>8 DEF Run
<1> QED BY <1>2, <1>3, <1>4, <1>5, <1>6 DEF Next, Step

-----------------------------------------------------------------------------
(* The local variables of an invocation and the history of its run.        *)

\* Whatever p does under the repository lock, the others stay out of it.
LEMMA Bystander ==
  ASSUME LockCoversTrust, JobMatchesRun, NEW p \in Procs, NEW q \in Procs, q # p,
         pc'[q] = pc[q], job'[q] = job[q],
         runs' = runs \/ pc[p] \in Locking
  PROVE  JobMatches(q)'
<1>1. JobMatches(q)
      BY DEF JobMatchesRun
<1>2. CASE runs' = runs
      BY <1>1, <1>2 DEF JobMatches, FateAt
<1>3. CASE pc[p] \in Locking
  <2>1. pc[q] \notin Locking
        BY <1>3 DEF LockCoversTrust
  <2>2. pc[q] \notin Mutating /\ pc[q] \notin {"pin", "publish", "gated", "checked"}
        BY <2>1 DEF Locking, Mutating
  <2> QED BY <1>1, <2>2 DEF JobMatches
<1> QED BY <1>2, <1>3

\* One invocation moves to l with the local variables j.
LEMMA OneMoves ==
  ASSUME TypeOK, LockCoversTrust, JobMatchesRun, NEW p \in Procs, NEW l, NEW j,
         Goto(p, l), Become(p, j),
         runs' = runs \/ pc[p] \in Locking,
         (pc'[p] = l /\ job'[p] = j) => JobMatches(p)'
  PROVE  JobMatchesRun'
<1>1. pc'[p] = l /\ job'[p] = j
      BY DEF TypeOK, Goto, Become
<1>2. ASSUME NEW q \in Procs, q # p PROVE JobMatches(q)'
  <2>1. pc'[q] = pc[q] /\ job'[q] = job[q]
        BY <1>2 DEF TypeOK, Goto, Become
  <2> QED BY <1>2, <2>1, Bystander
<1> QED BY <1>1, <1>2 DEF JobMatchesRun

\* ... or moves and keeps its local variables.
LEMMA OneAdvances ==
  ASSUME TypeOK, LockCoversTrust, JobMatchesRun, NEW p \in Procs, NEW l,
         Goto(p, l), job' = job,
         runs' = runs \/ pc[p] \in Locking,
         (pc'[p] = l /\ job'[p] = job[p]) => JobMatches(p)'
  PROVE  JobMatchesRun'
<1>1. pc'[p] = l
      BY DEF TypeOK, Goto
<1>2. ASSUME NEW q \in Procs, q # p PROVE JobMatches(q)'
  <2>1. pc'[q] = pc[q] /\ job'[q] = job[q]
        BY <1>2 DEF TypeOK, Goto
  <2> QED BY <1>2, <2>1, Bystander
<1> QED BY <1>1, <1>2 DEF JobMatchesRun

\* ... or only changes its local variables.
LEMMA OneLearns ==
  ASSUME TypeOK, LockCoversTrust, JobMatchesRun, NEW p \in Procs, NEW j,
         pc' = pc, Become(p, j), runs' = runs,
         job'[p] = j => JobMatches(p)'
  PROVE  JobMatchesRun'
<1>1. job'[p] = j
      BY DEF TypeOK, Become
<1>2. ASSUME NEW q \in Procs, q # p PROVE JobMatches(q)'
  <2>1. pc'[q] = pc[q] /\ job'[q] = job[q]
        BY <1>2 DEF TypeOK, Become
  <2> QED BY <1>2, <2>1, Bystander
<1> QED BY <1>1, <1>2 DEF JobMatchesRun

LEMMA MatchInit == Init => JobMatchesRun
BY DEF Init, JobMatchesRun, JobMatches, Mutating, IdleJob

LEMMA MatchEnvironment ==
  TypeOK /\ LockCoversTrust /\ JobMatchesRun /\ Environment => JobMatchesRun'
<1> SUFFICES ASSUME TypeOK, LockCoversTrust, JobMatchesRun, Environment
             PROVE  JobMatchesRun'
    OBVIOUS
<1>1. ASSUME UNCHANGED <<pc, job, runs>> PROVE JobMatchesRun'
      BY <1>1 DEF JobMatchesRun, JobMatches, FateAt
<1>2. ASSUME NEW p \in Procs, NEW m \in Modes, NEW x \in Patches \cup {NoPatch},
             Start(p, m, x)
      PROVE  JobMatchesRun'
  <2>. DEFINE j == [IdleJob EXCEPT !.mode = m, !.patch = x,
                       !.scope = IF m = "manual" THEN repo ELSE FirstState]
  <2>1. j.mode = m /\ j.patch = x /\ j.ok = FALSE
        BY DEF IdleJob
  <2>2. m = "explicit" => x \in Patches
        BY <1>2 DEF Start, TypeOK
  <2>3. Become(p, j) /\ Goto(p, "scan") /\ runs' = runs
        BY <1>2 DEF Start
  <2>. HIDE DEF j
  <2>4. (pc'[p] = "scan" /\ job'[p] = j) => JobMatches(p)'
        BY <2>1, <2>2 DEF JobMatches, Mutating
  <2> QED BY <2>3, <2>4, OneMoves
<1>3. ASSUME NEW p \in Procs, Crash(p) PROVE JobMatchesRun'
  <2>1. (pc'[p] = "idle" /\ job'[p] = IdleJob) => JobMatches(p)'
        BY DEF JobMatches, Mutating, IdleJob
  <2> QED BY <1>3, <2>1, OneMoves DEF Crash, Leave
<1> QED BY <1>1, <1>2, <1>3
        DEF Environment, Deliver, Withdraw, TakeResult, Commit, Reset, Edit

LEMMA MatchMaintain ==
  ASSUME TypeOK, LockCoversTrust, JobMatchesRun, NEW p \in Procs, Maintain(p)
  PROVE  JobMatchesRun'
<1>a. JobMatches(p) /\ job[p] \in Jobs
      BY DEF JobMatchesRun, TypeOK
\* Maintenance changes neither the package, the origin nor the outcome.
<1>b. ASSUME NEW j, NEW l \in {"recovery", "recover", "recovering", "archive",
                              "archiving", "select"},
             j.mode = job[p].mode, j.patch = job[p].patch, j.ok = job[p].ok,
             pc[p] \in {"scan", "recovery", "recover", "recovering", "archive",
                        "archiving"},
             pc'[p] = l /\ job'[p] = j
      PROVE  JobMatches(p)'
      BY <1>a, <1>b DEF JobMatches, Mutating
<1>1. CASE Scan(p)
  <2>. DEFINE j == [job[p] EXCEPT
         !.view = [x \in Patches |-> IF x \in files THEN Merged[x].status ELSE "absent"],
         !.seen = results]
  <2>1. j.mode = job[p].mode /\ j.patch = job[p].patch /\ j.ok = job[p].ok
        BY <1>a DEF Jobs
  <2>2. Become(p, j) /\ Goto(p, "recovery") /\ runs' = runs /\ pc[p] = "scan"
        BY <1>1 DEF Scan
  <2>. HIDE DEF j
  <2> QED BY <2>1, <2>2, <1>b, OneMoves
<1>2. CASE BeginRecovery(p)
  <2>. DEFINE j == [job[p] EXCEPT !.todo = Pending(p)]
  <2>1. j.mode = job[p].mode /\ j.patch = job[p].patch /\ j.ok = job[p].ok
        BY <1>a DEF Jobs
  <2>2. Become(p, j) /\ Goto(p, "recover") /\ runs' = runs /\ pc[p] = "recovery"
        BY <1>2 DEF BeginRecovery
  <2>. HIDE DEF j
  <2> QED BY <2>1, <2>2, <1>b, OneMoves
<1>3. CASE AbandonRecovery(p)
  <2>. DEFINE j == [job[p] EXCEPT !.run = NoRun, !.ctx = FirstState]
  <2>1. j.mode = job[p].mode /\ j.patch = job[p].patch /\ j.ok = job[p].ok
        BY <1>a DEF Jobs
  <2>2. Become(p, j) /\ Goto(p, "recover") /\ runs' = runs /\ pc[p] = "recovering"
        BY <1>3 DEF AbandonRecovery
  <2>. HIDE DEF j
  <2> QED BY <2>1, <2>2, <1>b, OneMoves
<1>4. ASSUME NEW r \in RunIds, AcquireForRecovery(p, r) PROVE JobMatchesRun'
  <2>. DEFINE j == [job[p] EXCEPT !.run = r, !.todo = @ \ {r}, !.ctx = repo]
  <2>1. j.mode = job[p].mode /\ j.patch = job[p].patch /\ j.ok = job[p].ok
        BY <1>a DEF Jobs
  <2>2. Become(p, j) /\ Goto(p, "recovering") /\ runs' = runs /\ pc[p] = "recover"
        BY <1>4 DEF AcquireForRecovery
  <2>. HIDE DEF j
  <2> QED BY <2>1, <2>2, <1>b, OneMoves
<1>5. ASSUME NEW r \in RunIds, SkipRecord(p, r) PROVE JobMatchesRun'
  <2>. DEFINE j == [job[p] EXCEPT !.todo = @ \ {r}]
  <2>1. j.mode = job[p].mode /\ j.patch = job[p].patch /\ j.ok = job[p].ok
        BY <1>a DEF Jobs
  <2>2. Become(p, j) /\ pc' = pc /\ runs' = runs /\ pc[p] = "recover"
        BY <1>5 DEF SkipRecord
  <2>. HIDE DEF j
  <2> QED BY <2>1, <2>2, <1>b, OneLearns
<1>6. ASSUME NEW x \in Patches, Recover(p, x) PROVE JobMatchesRun'
  <2>. DEFINE j == [job[p] EXCEPT !.changed = TRUE, !.run = NoRun, !.ctx = FirstState]
  <2>1. j.mode = job[p].mode /\ j.patch = job[p].patch /\ j.ok = job[p].ok
        BY <1>a DEF Jobs
  <2>2. Become(p, j) /\ Goto(p, "recover") /\ runs' = runs /\ pc[p] = "recovering"
        BY <1>6 DEF Recover
  <2>. HIDE DEF j
  <2> QED BY <2>1, <2>2, <1>b, OneMoves
<1>7. ASSUME NEW x \in Patches, ArchivePatch(p, x) PROVE JobMatchesRun'
  <2>. DEFINE j == [job[p] EXCEPT !.view[x] = "absent"]
  <2>1. j.mode = job[p].mode /\ j.patch = job[p].patch /\ j.ok = job[p].ok
        BY <1>a DEF Jobs
  <2>2. Become(p, j) /\ pc' = pc /\ runs' = runs /\ pc[p] = "archiving"
        BY <1>7 DEF ArchivePatch
  <2>. HIDE DEF j
  <2> QED BY <2>1, <2>2, <1>b, OneLearns
<1>8. CASE BeginArchive(p)
  <2>1. PICK reread \in {job[p].changed, FALSE} :
          Become(p, [job[p] EXCEPT
            !.view = [x \in Patches |-> IF reread /\ @[x] # "absent"
                                        THEN ledger[x].status ELSE @[x]],
            !.hold = PendingDigests(p)])
        BY <1>8 DEF BeginArchive
  <2>. DEFINE j == [job[p] EXCEPT
            !.view = [x \in Patches |-> IF reread /\ @[x] # "absent"
                                        THEN ledger[x].status ELSE @[x]],
            !.hold = PendingDigests(p)]
  <2>2. j.mode = job[p].mode /\ j.patch = job[p].patch /\ j.ok = job[p].ok
        BY <1>a DEF Jobs
  <2>3. Become(p, j) /\ Goto(p, "archive") /\ runs' = runs /\ pc[p] = "recover"
        BY <1>8, <2>1 DEF BeginArchive
  <2>. HIDE DEF j
  <2> QED BY <2>2, <2>3, <1>b, OneMoves
<1>9. CASE AcquireForArchive(p)
  <2>. DEFINE j == [job[p] EXCEPT !.ctx = repo]
  <2>1. j.mode = job[p].mode /\ j.patch = job[p].patch /\ j.ok = job[p].ok
        BY <1>a DEF Jobs
  <2>2. Become(p, j) /\ Goto(p, "archiving") /\ runs' = runs /\ pc[p] = "archive"
        BY <1>9 DEF AcquireForArchive
  <2>. HIDE DEF j
  <2> QED BY <2>1, <2>2, <1>b, OneMoves
<1>10. CASE EndArchive(p)
  <2>. DEFINE j == [job[p] EXCEPT !.ctx = FirstState, !.seen = {}, !.hold = {},
                                  !.changed = FALSE]
  <2>1. j.mode = job[p].mode /\ j.patch = job[p].patch /\ j.ok = job[p].ok
        BY <1>a DEF Jobs
  <2>2. /\ Become(p, j) /\ Goto(p, "select") /\ runs' = runs
        /\ pc[p] \in {"archive", "archiving"}
        BY <1>10 DEF EndArchive
  <2>. HIDE DEF j
  <2> QED BY <2>1, <2>2, <1>b, OneMoves
<1>11. ASSUME NEW r \in RunIds, ArchiveResult(p, r) PROVE JobMatchesRun'
       BY <1>11 DEF ArchiveResult, JobMatchesRun, JobMatches, FateAt
<1> QED BY <1>1, <1>2, <1>3, <1>4, <1>5, <1>6, <1>7, <1>8, <1>9, <1>10, <1>11
        DEF Maintain

LEMMA MatchApproach ==
  ASSUME TypeOK, LockCoversTrust, JobMatchesRun, NEW p \in Procs, Approach(p)
  PROVE  JobMatchesRun'
<1>a. JobMatches(p) /\ job[p] \in Jobs
      BY DEF JobMatchesRun, TypeOK
<1>b. ASSUME NEW x \in Patches, NEW t, NEW y, Choose(p, x, t, y), Goto(p, "preflight"),
             runs' = runs
      PROVE  JobMatchesRun'
  <2>. DEFINE j == [IdleJob EXCEPT !.mode = Origin(p), !.patch = x,
                                   !.tracked = t, !.retry = y]
  <2>1. j.patch = x /\ j.ok = FALSE
        BY DEF IdleJob
  <2>2. Become(p, j)
        BY <1>b DEF Choose
  <2>. HIDE DEF j
  <2>3. (pc'[p] = "preflight" /\ job'[p] = j) => JobMatches(p)'
        BY <2>1 DEF JobMatches, Mutating
  <2> QED BY <1>b, <2>2, <2>3, OneMoves
<1>c. Origin(p) = "explicit" => job[p].patch \in Patches
      BY <1>a DEF JobMatches, Origin
<1>1. ASSUME NEW x \in Patches, Select(p, x) PROVE JobMatchesRun'
      BY <1>1, <1>b DEF Select
<1>2. CASE SelectExplicit(p)
      BY <1>2, <1>b, <1>c DEF SelectExplicit
<1>3. CASE Untracked(p)
      BY <1>3, <1>b, <1>c DEF Untracked
<1>4. CASE Preflight(p)
  <2>. DEFINE j == [job[p] EXCEPT !.ctx = repo]
  <2>1. j.mode = job[p].mode /\ j.patch = job[p].patch /\ j.ok = job[p].ok
        BY <1>a DEF Jobs
  <2>2. Become(p, j) /\ Goto(p, "gated") /\ runs' = runs /\ pc[p] = "preflight"
        BY <1>4 DEF Preflight
  <2>. HIDE DEF j
  <2>3. (pc'[p] = "gated" /\ job'[p] = j) => JobMatches(p)'
        BY <1>a, <2>1, <2>2 DEF JobMatches, Mutating
  <2> QED BY <2>2, <2>3, OneMoves
<1>5. CASE Recheck(p)
  <2>1. Goto(p, "checked") /\ job' = job /\ runs' = runs /\ pc[p] = "gated"
        BY <1>5 DEF Recheck
  <2>2. (pc'[p] = "checked" /\ job'[p] = job[p]) => JobMatches(p)'
        BY <1>a, <2>1 DEF JobMatches, Mutating
  <2> QED BY <2>1, <2>2, OneAdvances
<1>6. CASE Refuse(p)
  <2>1. (pc'[p] = "idle" /\ job'[p] = IdleJob) => JobMatches(p)'
        BY DEF JobMatches, Mutating, IdleJob
  <2> QED BY <1>6, <2>1, OneMoves DEF Refuse, Leave
<1> QED BY <1>1, <1>2, <1>3, <1>4, <1>5, <1>6 DEF Approach

LEMMA MatchRun ==
  ASSUME TypeOK, LockCoversTrust, JobMatchesRun, NEW p \in Procs, Run(p)
  PROVE  JobMatchesRun'
<1>a. JobMatches(p) /\ job[p] \in Jobs
      BY DEF JobMatchesRun, TypeOK
<1>b. pc[p] \in Mutating => job[p].run \in RunIds /\ job[p].patch \in Patches
      BY <1>a DEF JobMatches
\* The history takes the outcome of p's run and keeps its package.
<1>c. ASSUME NEW fate, Settle(job[p].run, fate), pc[p] \in Mutating
      PROVE  /\ runs'[job[p].run].fate = fate
             /\ runs'[job[p].run].patch = runs[job[p].run].patch
      BY <1>b, <1>c DEF Settle, TypeOK
<1>1. ASSUME NEW r \in RunIds, Mark(p, r) PROVE JobMatchesRun'
  <2>. DEFINE j == [job[p] EXCEPT !.run = r]
  <2>1. j.run = r /\ j.patch = job[p].patch /\ j.ok = job[p].ok
        BY <1>a DEF Jobs
  <2>2. Become(p, j) /\ Goto(p, "payload") /\ pc[p] = "checked"
        BY <1>1 DEF Mark
  <2>. HIDE DEF j
  <2>3. runs'[r].patch = job[p].patch /\ runs'[r].fate = "marked"
        BY <1>1 DEF Mark, TypeOK
  <2>4. (pc'[p] = "payload" /\ job'[p] = j) => JobMatches(p)'
        BY <1>a, <2>1, <2>2, <2>3 DEF JobMatches, Mutating, FateAt
  <2>5. pc[p] \in Locking
        BY <2>2 DEF Locking
  <2> QED BY <2>2, <2>4, <2>5, OneMoves
<1>2. CASE Write(p)
  <2>1. /\ Goto(p, "script") /\ job' = job /\ pc[p] = "payload"
        /\ Settle(job[p].run, "open")
        BY <1>2 DEF Write
  <2>2. (pc'[p] = "script" /\ job'[p] = job[p]) => JobMatches(p)'
        BY <1>a, <1>c, <2>1 DEF JobMatches, Mutating, FateAt
  <2> QED BY <2>1, <2>2, OneAdvances DEF Locking
<1>3. CASE WriteFail(p)
  <2>1. /\ Goto(p, "finish") /\ job' = job /\ pc[p] = "payload"
        /\ Settle(job[p].run, "fail")
        BY <1>3 DEF WriteFail
  <2>2. (pc'[p] = "finish" /\ job'[p] = job[p]) => JobMatches(p)'
        BY <1>a, <1>c, <2>1 DEF JobMatches, Mutating, FateAt
  <2> QED BY <2>1, <2>2, OneAdvances DEF Locking
<1>4. CASE ScriptEnd(p)
  <2>1. PICK ok \in BOOLEAN : /\ Become(p, [job[p] EXCEPT !.ok = ok])
                              /\ Settle(job[p].run, IF ok THEN "ok" ELSE "fail")
        BY <1>4 DEF ScriptEnd
  <2>. DEFINE j == [job[p] EXCEPT !.ok = ok]
  <2>2. j.run = job[p].run /\ j.patch = job[p].patch /\ j.ok = ok
        BY <1>a DEF Jobs
  <2>3. Become(p, j) /\ Goto(p, "capture") /\ pc[p] = "script"
        BY <1>4, <2>1 DEF ScriptEnd
  <2>. HIDE DEF j
  <2>4. (pc'[p] = "capture" /\ job'[p] = j) => JobMatches(p)'
        BY <1>a, <1>c, <2>1, <2>2, <2>3 DEF JobMatches, Mutating, FateAt
  <2> QED BY <2>3, <2>4, OneMoves DEF Locking
<1>5. CASE Capture(p)
  <2>1. PICK l \in {"pin", "publish"} : Goto(p, l)
        BY <1>5 DEF Capture
  <2>2. job' = job /\ runs' = runs /\ pc[p] = "capture" /\ job[p].ok
        BY <1>5 DEF Capture, Evidence
  <2>3. (pc'[p] = l /\ job'[p] = job[p]) => JobMatches(p)'
        BY <1>a, <2>2 DEF JobMatches, Mutating, FateAt
  <2> QED BY <2>1, <2>2, <2>3, OneAdvances
<1>6. CASE Pin(p)
  <2>1. Goto(p, "publish") /\ job' = job /\ runs' = runs /\ pc[p] = "pin"
        BY <1>6 DEF Pin
  <2>2. (pc'[p] = "publish" /\ job'[p] = job[p]) => JobMatches(p)'
        BY <1>a, <2>1 DEF JobMatches, Mutating, FateAt
  <2> QED BY <2>1, <2>2, OneAdvances
<1>7. CASE Publish(p) \/ NoEvidence(p)
  <2>. DEFINE j == [job[p] EXCEPT !.published = TRUE]
  <2>1. j.run = job[p].run /\ j.patch = job[p].patch /\ j.ok = job[p].ok
        BY <1>a DEF Jobs
  <2>2. /\ Become(p, j) /\ Goto(p, "finish") /\ runs' = runs
        /\ pc[p] \in {"capture", "pin", "publish"}
        BY <1>7 DEF Publish, NoEvidence
  <2>. HIDE DEF j
  <2>3. (pc'[p] = "finish" /\ job'[p] = j) => JobMatches(p)'
        BY <1>a, <2>1, <2>2 DEF JobMatches, Mutating, FateAt
  <2> QED BY <2>2, <2>3, OneMoves
<1>8. CASE Finish(p) \/ FinishLost(p)
  <2>1. Goto(p, "close") /\ job' = job /\ runs' = runs /\ pc[p] = "finish"
        BY <1>8 DEF Finish, FinishLost
  <2>2. (pc'[p] = "close" /\ job'[p] = job[p]) => JobMatches(p)'
        BY <1>a, <2>1 DEF JobMatches, Mutating
  <2> QED BY <2>1, <2>2, OneAdvances
<1>9. CASE Release(p)
  <2>1. (pc'[p] = "idle" /\ job'[p] = IdleJob) => JobMatches(p)'
        BY DEF JobMatches, Mutating, IdleJob
  <2> QED BY <1>9, <2>1, OneMoves DEF Release, Leave
<1> QED BY <1>1, <1>2, <1>3, <1>4, <1>5, <1>6, <1>7, <1>8, <1>9 DEF Run

LEMMA MatchStep ==
  TypeOK /\ LockCoversTrust /\ JobMatchesRun /\ [Next]_vars => JobMatchesRun'
<1>1. JobMatchesRun /\ UNCHANGED vars => JobMatchesRun'
      BY DEF JobMatchesRun, JobMatches, FateAt, vars
<1> QED BY <1>1, MatchEnvironment, MatchMaintain, MatchApproach, MatchRun DEF Next, Step

\* One invocation moves, or only learns; the others stay as they are.
LEMMA OthersStay ==
  ASSUME TypeOK, NEW p \in Procs, NEW q \in Procs, q # p,
         pc' = pc \/ \E l : Goto(p, l),
         job' = job \/ \E j : Become(p, j)
  PROVE  pc'[q] = pc[q] /\ job'[q] = job[q]
BY DEF TypeOK, Goto, Become

-----------------------------------------------------------------------------
(* What the ledger says happened.                                          *)

Truth == PinnedRunSucceeded /\ TerminalStatusIsTrue

LEMMA TruthKept ==
  ASSUME Truth, UNCHANGED <<ledger, runs>> PROVE Truth'
BY DEF Truth, PinnedRunSucceeded, TerminalStatusIsTrue

\* Records name runs that have an outcome: the fate of any other run may change.
LEMMA TruthSurvivesSettle ==
  ASSUME TypeOK, Truth, NEW r \in RunIds, NEW h, runs' = [runs EXCEPT ![r] = h],
         ledger' = ledger, runs[r].fate \notin {"ok", "fail"}
  PROVE  Truth'
<1>1. \A s : s # r => runs'[s] = runs[s]
      BY DEF TypeOK
<1> QED BY <1>1 DEF Truth, PinnedRunSucceeded, TerminalStatusIsTrue

LEMMA TruthInit == Init => Truth
BY DEF Init, Truth, PinnedRunSucceeded, TerminalStatusIsTrue, NoRecord, Record

LEMMA TruthMaintain ==
  ASSUME TypeOK, Truth, NEW p \in Procs, Maintain(p) PROVE Truth'
<1>1. CASE Scan(p)
  <2>1. ledger' = Merged /\ runs' = runs
        BY <1>1 DEF Scan
  <2>2. \A x \in Patches :
          \/ Merged[x] = ledger[x]
          \/ Merged[x].status = "fresh" /\ Merged[x].digest = NoRun
        BY DEF Merged, Record
  <2> QED BY <2>1, <2>2 DEF Truth, PinnedRunSucceeded, TerminalStatusIsTrue
<1>2. ASSUME NEW x \in Patches, Recover(p, x) PROVE Truth'
  <2>. DEFINE r == job[p].run
  <2>1. /\ ledger' = [ledger EXCEPT ![x] = Record("succeeded", r, r, receipt[r].commit)]
        /\ r \in results
        /\ ledger[x] = Record("attempted", r, r, NoCommit)
        /\ runs' = runs
        BY <1>2 DEF Recover, Recoverable, Proven
  <2>2. r # NoRun
        BY <2>1 DEF TypeOK, RunIds, NoRun
  <2>3. runs[r].patch = x /\ runs[r].fate = "ok"
        BY <2>1, <2>2 DEF Truth, PinnedRunSucceeded, Record
  <2>4. /\ ledger'[x] = Record("succeeded", r, r, receipt[r].commit)
        /\ \A y \in Patches : y # x => ledger'[y] = ledger[y]
        BY <2>1 DEF TypeOK
  <2>5. Record("succeeded", r, r, receipt[r].commit).status = "succeeded"
        /\ Record("succeeded", r, r, receipt[r].commit).run = r
        /\ Record("succeeded", r, r, receipt[r].commit).digest = r
        BY DEF Record
  <2>. HIDE DEF r
  <2> QED BY <2>1, <2>3, <2>4, <2>5 DEF Truth, PinnedRunSucceeded, TerminalStatusIsTrue
<1>3. CASE UNCHANGED <<ledger, runs>>
      BY <1>3, TruthKept
<1> QED BY <1>1, <1>2, <1>3
        DEF Maintain, BeginRecovery, AbandonRecovery, AcquireForRecovery, SkipRecord,
            ArchivePatch, BeginArchive, AcquireForArchive, EndArchive, ArchiveResult,
            diskVars

LEMMA TruthRun ==
  ASSUME TypeOK, JobMatchesRun, Truth, NEW p \in Procs, Run(p) PROVE Truth'
<1>. DEFINE x == job[p].patch
            r == job[p].run
<1>a. JobMatches(p)
      BY DEF JobMatchesRun
<1>1. ASSUME NEW s \in RunIds, Mark(p, s) PROVE Truth'
  <2>1. runs[s].fate = "unused"
        BY <1>1 DEF Mark, NextRun
  <2>2. \A q : q # s => runs'[q] = runs[q]
        BY <1>1 DEF Mark, TypeOK
  <2>3. \A y \in Patches :
          \/ ledger'[y] = ledger[y]
          \/ ledger'[y].status = "attempted" /\ ledger'[y].digest = NoRun
        BY <1>1 DEF Mark, Attempt, Record, TypeOK
  <2> QED BY <2>1, <2>2, <2>3 DEF Truth, PinnedRunSucceeded, TerminalStatusIsTrue
<1>2. CASE Write(p) \/ WriteFail(p) \/ ScriptEnd(p)
  <2>1. /\ ledger' = ledger
        /\ \E fate : runs' = [runs EXCEPT ![r] = [runs[r] EXCEPT !.fate = fate]]
        /\ pc[p] \in {"payload", "script"}
        BY <1>2 DEF Write, WriteFail, ScriptEnd, Settle, diskVars
  <2>2. r \in RunIds /\ runs[r].fate \notin {"ok", "fail"}
        BY <2>1, <1>a DEF JobMatches, Mutating, FateAt
  <2> QED BY <2>1, <2>2, TruthSurvivesSettle
<1>3. CASE Pin(p)
  <2>1. /\ ledger' = [ledger EXCEPT ![x] = [ledger[x] EXCEPT !.digest = r]]
        /\ pc[p] = "pin" /\ ledger[x].status = "attempted" /\ runs' = runs
        BY <1>3 DEF Pin
  <2>2. x \in Patches /\ runs[r].patch = x /\ runs[r].fate = "ok"
        BY <2>1, <1>a DEF JobMatches, Mutating, FateAt
  <2>3. /\ ledger'[x].digest = r /\ ledger'[x].status = "attempted"
        /\ \A y \in Patches : y # x => ledger'[y] = ledger[y]
        BY <2>1, <2>2 DEF TypeOK, Records
  <2>. HIDE DEF x, r
  <2> QED BY <2>1, <2>2, <2>3 DEF Truth, PinnedRunSucceeded, TerminalStatusIsTrue
<1>4. CASE Finish(p)
  <2>1. /\ pc[p] = "finish" /\ runs' = runs
        /\ \E c : ledger' = [ledger EXCEPT ![x] =
                     IF job[p].ok THEN Record("succeeded", r, ledger[x].digest, c)
                                  ELSE Record("failed", r, NoRun, NoCommit)]
        BY <1>4 DEF Finish, Succeeded
  <2>2. /\ x \in Patches /\ runs[r].patch = x
        /\ runs[r].fate = IF job[p].ok THEN "ok" ELSE "fail"
        BY <2>1, <1>a DEF JobMatches, Mutating, FateAt
  <2>3. /\ ledger'[x].run = r
        /\ job[p].ok => /\ ledger'[x].status = "succeeded"
                       /\ ledger'[x].digest = ledger[x].digest
        /\ ~job[p].ok => /\ ledger'[x].status = "failed"
                        /\ ledger'[x].digest = NoRun
        /\ \A y \in Patches : y # x => ledger'[y] = ledger[y]
        BY <2>1, <2>2 DEF TypeOK, Record
  <2>. HIDE DEF x, r
  <2> QED BY <2>1, <2>2, <2>3 DEF Truth, PinnedRunSucceeded, TerminalStatusIsTrue
<1>5. CASE UNCHANGED <<ledger, runs>>
      BY <1>5, TruthKept
<1> QED BY <1>1, <1>2, <1>3, <1>4, <1>5
        DEF Run, Capture, Publish, NoEvidence, FinishLost, Release, diskVars

LEMMA TruthStep == TypeOK /\ JobMatchesRun /\ Truth /\ [Next]_vars => Truth'
<1> SUFFICES ASSUME TypeOK, JobMatchesRun, Truth, [Next]_vars PROVE Truth'
    OBVIOUS
<1>1. CASE UNCHANGED vars
      BY <1>1, TruthKept DEF vars
<1>2. CASE Environment
      BY <1>2, TruthKept
         DEF Environment, Deliver, Withdraw, TakeResult, Commit, Reset, Edit, Start, Crash,
             diskVars
<1>3. ASSUME NEW p \in Procs, Approach(p) PROVE Truth'
      BY <1>3, TruthKept
         DEF Approach, Select, SelectExplicit, Untracked, Preflight, Recheck, Refuse,
             diskVars
<1> QED BY <1>1, <1>2, <1>3, TruthMaintain, TruthRun DEF Next, Step

-----------------------------------------------------------------------------
(* The theorems.                                                           *)

\* IInv is inductive: types, the lock, the local variables and the ledger hold
\* each other up.
THEOREM Inductive == Spec => []IInv
<1>1. Init => IInv
  <2>1. Init => LockCoversTrust
        BY ConstantsAssumption DEF Init, LockCoversTrust, Locking
  <2> QED BY <2>1, TypeInit, MatchInit, TruthInit DEF IInv, Truth
<1>2. IInv /\ [Next]_vars => IInv'
      BY TypeStep, LockStep, MatchStep, TruthStep DEF IInv, Truth
<1> QED BY <1>1, <1>2, PTL DEF Spec

\* Every variable keeps the shape its source type has, in every behaviour.
THEOREM TypeCorrect == Spec => []TypeOK
<1>1. IInv => TypeOK
      BY DEF IInv
<1> QED BY <1>1, Inductive, PTL

\* However many invocations there are and whichever of them crash, an invocation
\* that recovers, archives, writes payloads or runs an entrypoint holds the
\* repository lock, and so does no other.
THEOREM LockIsHeld == Spec => []LockCoversTrust
<1>1. IInv => LockCoversTrust
      BY DEF IInv
<1> QED BY <1>1, Inductive, PTL

\* A digest in the ledger belongs to a successful run of that package.
THEOREM PinIsProof == Spec => []PinnedRunSucceeded
<1>1. IInv => PinnedRunSucceeded
      BY DEF IInv
<1> QED BY <1>1, Inductive, PTL

\* A package the ledger calls succeeded did succeed, and one it calls failed did
\* fail, whether its own process or a later recovery wrote the status.
THEOREM StatusIsTrue == Spec => []TerminalStatusIsTrue
<1>1. IInv => TerminalStatusIsTrue
      BY DEF IInv
<1> QED BY <1>1, Inductive, PTL

-----------------------------------------------------------------------------
(***************************************************************************)
(* What archival may take away, for every origin of Apply and any number   *)
(* of invocations: never the package of a run that is going on or did not  *)
(* succeed, and never the Result a pending attempt is pinned to.           *)
(***************************************************************************)

Archiving == {"archive", "archiving"}
Unpublished == {"payload", "script", "capture", "pin", "publish"}

\* Whoever archives holds back every Result it has seen and an attempt needs.
PendingHeld ==
  \A p \in Procs : pc[p] \in Archiving =>
    \A x \in Patches :
      ledger[x].status = "attempted" /\ ledger[x].digest \in job[p].seen =>
        ledger[x].digest \in job[p].hold

\* A run has no Result before it publishes one, so no scan has seen it.
Unseen ==
  \A q \in Procs : pc[q] \in Unpublished =>
    /\ job[q].run \notin results
    /\ \A p \in Procs : job[q].run \notin job[p].seen

\* Nor has a run that is still to come.
SeenUsed ==
  \A r \in RunIds : runs[r].fate = "unused" =>
    r \notin results /\ \A p \in Procs : r \notin job[p].seen

\* A success in the ledger names a run.
SuccessNamesRun ==
  \A x \in Patches : ledger[x].status = "succeeded" => ledger[x].run \in RunIds

AInv == IInv /\ PendingHeld /\ Unseen /\ SeenUsed /\ SuccessNamesRun

LEMMA ArchivalInit == Init => AInv
<1> SUFFICES ASSUME Init PROVE AInv
  OBVIOUS
<1>1. IInv
  <2>1. LockCoversTrust
    BY ConstantsAssumption DEF Init, LockCoversTrust, Locking
  <2> QED BY <2>1, TypeInit, MatchInit, TruthInit DEF IInv, Truth
<1>2. PendingHeld /\ Unseen
  BY DEF Init, PendingHeld, Unseen, Archiving, Unpublished
<1>3. SeenUsed /\ SuccessNamesRun
  BY DEF Init, SeenUsed, SuccessNamesRun, IdleJob, NoRecord, Record
<1> QED BY <1>1, <1>2, <1>3 DEF AInv

-----------------------------------------------------------------------------
(* What one invocation learns and where it goes.                            *)

Begins(p) == \E r \in RunIds : runs[r].fate = "unused" /\ job'[p].run = r

Looks(p) ==
  /\ job'[p].seen \subseteq job[p].seen \cup results
  /\ pc'[p] \in Unpublished =>
       (pc[p] \in Unpublished /\ job'[p].run = job[p].run) \/ Begins(p)
  /\ pc'[p] \in Archiving =>
       \/ /\ pc[p] \in Archiving
          /\ job'[p].seen = job[p].seen
          /\ job'[p].hold = job[p].hold
       \/ job'[p].hold = PendingDigests(p) /\ ledger' = ledger

LEMMA LooksStay ==
  ASSUME NEW p \in Procs, pc'[p] = pc[p], job'[p] = job[p] PROVE Looks(p)
BY DEF Looks

\* p gets another set of local variables and moves on, or stays where it is.
LEMMA LooksOn ==
  ASSUME TypeOK, NEW p \in Procs, NEW l, NEW j,
         (pc' = pc /\ l = pc[p]) \/ Goto(p, l),
         (job' = job /\ j = job[p]) \/ Become(p, j),
         j.seen \subseteq job[p].seen \cup results,
         l \notin Archiving \cup Unpublished
  PROVE  Looks(p)
<1>1. pc'[p] = l /\ job'[p] = j
  BY DEF TypeOK, Goto, Become
<1> QED BY <1>1 DEF Looks

LEMMA LooksMaintain == ASSUME TypeOK, NEW p \in Procs, Maintain(p) PROVE Looks(p)
<1>a. job[p] \in Jobs /\ job \in [Procs -> Jobs] /\ pc \in [Procs -> ControlPoints]
  BY DEF TypeOK
<1> USE DEF Archiving, Unpublished
<1>1. CASE Scan(p)
  <2> DEFINE j == [job[p] EXCEPT
         !.view = [x \in Patches |-> IF x \in files THEN Merged[x].status ELSE "absent"],
         !.seen = results]
  <2>1. j.seen = results
    BY <1>a DEF Jobs
  <2>2. Become(p, j) /\ Goto(p, "recovery")
    BY <1>1 DEF Scan
  <2> HIDE DEF j
  <2> QED BY <2>1, <2>2, LooksOn
<1>2. CASE BeginRecovery(p)
  <2> DEFINE j == [job[p] EXCEPT !.todo = Pending(p)]
  <2>1. j.seen = job[p].seen
    BY <1>a DEF Jobs
  <2>2. Become(p, j) /\ Goto(p, "recover")
    BY <1>2 DEF BeginRecovery
  <2> HIDE DEF j
  <2> QED BY <2>1, <2>2, LooksOn
<1>3. CASE AbandonRecovery(p)
  <2> DEFINE j == [job[p] EXCEPT !.run = NoRun, !.ctx = FirstState]
  <2>1. j.seen = job[p].seen
    BY <1>a DEF Jobs
  <2>2. Become(p, j) /\ Goto(p, "recover")
    BY <1>3 DEF AbandonRecovery
  <2> HIDE DEF j
  <2> QED BY <2>1, <2>2, LooksOn
<1>4. ASSUME NEW r \in RunIds, AcquireForRecovery(p, r) PROVE Looks(p)
  <2> DEFINE j == [job[p] EXCEPT !.run = r, !.todo = @ \ {r}, !.ctx = repo]
  <2>1. j.seen = job[p].seen
    BY <1>a DEF Jobs
  <2>2. Become(p, j) /\ Goto(p, "recovering")
    BY <1>4 DEF AcquireForRecovery
  <2> HIDE DEF j
  <2> QED BY <2>1, <2>2, LooksOn
<1>5. ASSUME NEW r \in RunIds, SkipRecord(p, r) PROVE Looks(p)
  <2> DEFINE j == [job[p] EXCEPT !.todo = @ \ {r}]
  <2>1. j.seen = job[p].seen
    BY <1>a DEF Jobs
  <2>2. Become(p, j) /\ pc' = pc /\ pc[p] = "recover"
    BY <1>5 DEF SkipRecord
  <2> HIDE DEF j
  <2> QED BY <2>1, <2>2, LooksOn
<1>6. ASSUME NEW x \in Patches, Recover(p, x) PROVE Looks(p)
  <2> DEFINE j == [job[p] EXCEPT !.changed = TRUE, !.run = NoRun, !.ctx = FirstState]
  <2>1. j.seen = job[p].seen
    BY <1>a DEF Jobs
  <2>2. Become(p, j) /\ Goto(p, "recover")
    BY <1>6 DEF Recover
  <2> HIDE DEF j
  <2> QED BY <2>1, <2>2, LooksOn
<1>7. ASSUME NEW x \in Patches, ArchivePatch(p, x) PROVE Looks(p)
  <2>1. pc'[p] = pc[p] /\ pc[p] = "archiving"
    BY <1>7 DEF ArchivePatch
  <2>2. job'[p].seen = job[p].seen /\ job'[p].hold = job[p].hold
    BY <1>7, <1>a DEF ArchivePatch, Become, Jobs
  <2> QED BY <2>1, <2>2 DEF Looks
<1>8. CASE BeginArchive(p)
  <2>1. PICK v : Become(p, [job[p] EXCEPT !.view = v, !.hold = PendingDigests(p)])
    BY <1>8 DEF BeginArchive
  <2>2. job'[p].seen = job[p].seen /\ job'[p].hold = PendingDigests(p)
    BY <2>1, <1>a DEF Become, Jobs
  <2>3. pc'[p] = "archive" /\ ledger' = ledger
    BY <1>8, <1>a DEF BeginArchive, Goto, diskVars
  <2> QED BY <2>2, <2>3 DEF Looks
<1>9. CASE AcquireForArchive(p)
  <2>1. pc'[p] = "archiving" /\ pc[p] = "archive"
    BY <1>9, <1>a DEF AcquireForArchive, Goto
  <2>2. job'[p].seen = job[p].seen /\ job'[p].hold = job[p].hold
    BY <1>9, <1>a DEF AcquireForArchive, Become, Jobs
  <2> QED BY <2>1, <2>2 DEF Looks
<1>10. CASE EndArchive(p)
  <2> DEFINE j == [job[p] EXCEPT !.ctx = FirstState, !.seen = {}, !.hold = {},
                                 !.changed = FALSE]
  <2>1. j.seen = {}
    BY <1>a DEF Jobs
  <2>2. Become(p, j) /\ Goto(p, "select")
    BY <1>10 DEF EndArchive
  <2> HIDE DEF j
  <2> QED BY <2>1, <2>2, LooksOn
<1>11. ASSUME NEW r \in RunIds, ArchiveResult(p, r) PROVE Looks(p)
  BY <1>11, LooksStay DEF ArchiveResult
<1> QED BY <1>1, <1>2, <1>3, <1>4, <1>5, <1>6, <1>7, <1>8, <1>9, <1>10, <1>11
        DEF Maintain

LEMMA LooksApproach == ASSUME TypeOK, NEW p \in Procs, Approach(p) PROVE Looks(p)
<1>a. job[p] \in Jobs /\ IdleJob.seen = {}
  BY DEF TypeOK, IdleJob
<1> USE DEF Archiving, Unpublished
<1>1. ASSUME NEW x, NEW t, NEW y, Choose(p, x, t, y), Goto(p, "preflight") PROVE Looks(p)
  <2> DEFINE j == [IdleJob EXCEPT !.mode = Origin(p), !.patch = x, !.tracked = t, !.retry = y]
  <2>1. j.seen = {}
    BY DEF IdleJob
  <2>2. Become(p, j)
    BY <1>1 DEF Choose
  <2> HIDE DEF j
  <2> QED BY <1>1, <2>1, <2>2, LooksOn
<1>2. CASE Preflight(p)
  <2> DEFINE j == [job[p] EXCEPT !.ctx = repo]
  <2>1. j.seen = job[p].seen
    BY <1>a DEF Jobs
  <2>2. Become(p, j) /\ Goto(p, "gated")
    BY <1>2 DEF Preflight
  <2> HIDE DEF j
  <2> QED BY <2>1, <2>2, LooksOn
<1>3. CASE Recheck(p) \/ Refuse(p)
  BY <1>3, <1>a, LooksOn DEF Recheck, Refuse, Leave
<1> QED BY <1>1, <1>2, <1>3 DEF Approach, Select, SelectExplicit, Untracked

LEMMA LooksRun == ASSUME TypeOK, NEW p \in Procs, Run(p) PROVE Looks(p)
<1>a. job[p] \in Jobs /\ job \in [Procs -> Jobs] /\ pc \in [Procs -> ControlPoints]
  BY DEF TypeOK
<1>b. ASSUME NEW l, NEW j, Goto(p, l), (job' = job /\ j = job[p]) \/ Become(p, j),
             j.seen = job[p].seen, j.run = job[p].run, l \notin Archiving, pc[p] \in Unpublished
      PROVE  Looks(p)
  <2>1. pc'[p] = l /\ job'[p] = j
    BY <1>a, <1>b DEF Goto, Become
  <2> QED BY <1>b, <2>1 DEF Looks
<1> USE DEF Archiving, Unpublished
<1>1. ASSUME NEW r \in RunIds, Mark(p, r) PROVE Looks(p)
  <2>1. job'[p].seen = job[p].seen /\ job'[p].run = r
    BY <1>1, <1>a DEF Mark, Become, Jobs
  <2>2. pc'[p] = "payload" /\ runs[r].fate = "unused"
    BY <1>1, <1>a DEF Mark, Goto, NextRun
  <2> QED BY <2>1, <2>2 DEF Looks, Begins
<1>2. CASE Write(p) \/ WriteFail(p) \/ Capture(p) \/ Pin(p)
  BY <1>2, <1>b DEF Write, WriteFail, Capture, Pin
<1>3. CASE ScriptEnd(p)
  <2>1. PICK ok \in BOOLEAN : Become(p, [job[p] EXCEPT !.ok = ok])
    BY <1>3 DEF ScriptEnd
  <2> DEFINE j == [job[p] EXCEPT !.ok = ok]
  <2>2. j.seen = job[p].seen /\ j.run = job[p].run
    BY <1>a DEF Jobs
  <2>3. Become(p, j) /\ Goto(p, "capture") /\ pc[p] = "script"
    BY <1>3, <2>1 DEF ScriptEnd
  <2> HIDE DEF j
  <2> QED BY <2>2, <2>3, <1>b
<1>4. CASE Publish(p) \/ NoEvidence(p)
  <2> DEFINE j == [job[p] EXCEPT !.published = TRUE]
  <2>1. j.seen = job[p].seen /\ j.run = job[p].run
    BY <1>a DEF Jobs
  <2>2. Become(p, j) /\ Goto(p, "finish") /\ pc[p] \in Unpublished
    BY <1>4 DEF Publish, NoEvidence
  <2> HIDE DEF j
  <2> QED BY <2>1, <2>2, <1>b
<1>5. CASE Finish(p) \/ FinishLost(p)
  BY <1>5, LooksOn DEF Finish, FinishLost
<1>6. CASE Release(p)
  BY <1>6, LooksOn DEF Release, Leave, IdleJob
<1> QED BY <1>1, <1>2, <1>3, <1>4, <1>5, <1>6 DEF Run

\* Nobody learns of a Result that does not exist yet.
LEMMA LooksStep == ASSUME TypeOK, [Next]_vars PROVE \A p \in Procs : Looks(p)
<1>1. CASE UNCHANGED <<pc, job>>
  BY <1>1, LooksStay
<1>2. ASSUME NEW p \in Procs, pc' = pc \/ \E l : Goto(p, l), job' = job \/ \E j : Become(p, j),
             Looks(p), NEW q \in Procs
      PROVE  Looks(q)
  <2>1. CASE q # p
    BY <1>2, <2>1, OthersStay, LooksStay
  <2> QED BY <1>2, <2>1
<1>3. ASSUME NEW p \in Procs, NEW m \in Modes, NEW x \in Patches \cup {NoPatch}, Start(p, m, x)
      PROVE  \A q \in Procs : Looks(q)
  <2> DEFINE j == [IdleJob EXCEPT !.mode = m, !.patch = x,
                     !.scope = IF m = "manual" THEN repo ELSE FirstState]
  <2>1. j.seen = {}
    BY DEF IdleJob
  <2>2. Become(p, j) /\ Goto(p, "scan")
    BY <1>3 DEF Start
  <2> HIDE DEF j
  <2>3. Looks(p)
    BY <2>1, <2>2, LooksOn DEF Archiving, Unpublished
  <2> QED BY <1>2, <2>2, <2>3
<1>4. ASSUME NEW p \in Procs, Crash(p) PROVE \A q \in Procs : Looks(q)
  <2>1. Become(p, IdleJob) /\ Goto(p, "idle") /\ IdleJob.seen = {}
    BY <1>4 DEF Crash, Leave, IdleJob
  <2>2. Looks(p)
    BY <2>1, LooksOn DEF Archiving, Unpublished
  <2> QED BY <1>2, <2>1, <2>2
<1>5. ASSUME NEW p \in Procs, Maintain(p) PROVE \A q \in Procs : Looks(q)
  <2>1. (pc' = pc \/ \E l : Goto(p, l)) /\ (job' = job \/ \E j : Become(p, j))
    BY <1>5 DEF Maintain, Scan, BeginRecovery, AbandonRecovery, AcquireForRecovery, SkipRecord,
                Recover, ArchivePatch, BeginArchive, AcquireForArchive, EndArchive,
                ArchiveResult
  <2> QED BY SMTT(30), <1>2, <1>5, <2>1, LooksMaintain
<1>6. ASSUME NEW p \in Procs, Approach(p) PROVE \A q \in Procs : Looks(q)
  <2>1. (pc' = pc \/ \E l : Goto(p, l)) /\ (job' = job \/ \E j : Become(p, j))
    BY <1>6 DEF Approach, Select, SelectExplicit, Untracked, Preflight, Recheck, Refuse, Leave,
                Choose
  <2> QED BY <1>2, <1>6, <2>1, LooksApproach
<1>7. ASSUME NEW p \in Procs, Run(p) PROVE \A q \in Procs : Looks(q)
  <2>1. (pc' = pc \/ \E l : Goto(p, l)) /\ (job' = job \/ \E j : Become(p, j))
    BY <1>7 DEF Run, Mark, Write, WriteFail, ScriptEnd, Capture, Pin, Publish, NoEvidence,
                Finish, FinishLost, Release, Leave
  <2> QED BY <1>2, <1>7, <2>1, LooksRun
<1> QED BY <1>1, <1>3, <1>4, <1>5, <1>6, <1>7
        DEF Next, Step, Environment, Deliver, Withdraw, TakeResult, Commit, Reset, Edit, vars

-----------------------------------------------------------------------------
(* What becomes of Results, records and runs.                               *)

\* Only its own run publishes a Result.
LEMMA ResultsStep ==
  ASSUME AInv, [Next]_vars
  PROVE  \A r \in results' : r \in results
                            \/ \E p \in Procs : /\ pc[p] = "publish" /\ r = job[p].run
                                               /\ pc'[p] = "finish"
<1>1. ASSUME NEW p \in Procs, Publish(p), NEW r \in results'
      PROVE  r \in results \/ (pc[p] = "publish" /\ r = job[p].run /\ pc'[p] = "finish")
  BY <1>1 DEF Publish, Goto, AInv, IInv, TypeOK
<1>2. CASE results' \subseteq results
  BY <1>2
<1> QED BY ZenonT(60), <1>1, <1>2
        DEF Next, Step, Environment, Deliver, Withdraw, TakeResult, Commit, Reset, Edit, Start,
            Crash, Maintain, Scan, BeginRecovery, AbandonRecovery, AcquireForRecovery,
            SkipRecord, Recover, ArchivePatch, BeginArchive, AcquireForArchive, EndArchive,
            ArchiveResult, Approach, Select, SelectExplicit, Untracked, Preflight, Recheck,
            Refuse, Run, Mark, Write, WriteFail, ScriptEnd, Capture, Pin, NoEvidence, Finish,
            FinishLost, Release, diskVars, vars

\* A run that has begun stays a run that has begun.
LEMMA RunsStep ==
  ASSUME AInv, [Next]_vars, NEW r \in RunIds, runs'[r].fate = "unused"
  PROVE  runs[r].fate = "unused"
<1>1. ASSUME NEW p \in Procs, NEW s \in RunIds, Mark(p, s) PROVE runs[r].fate = "unused"
  BY <1>1 DEF Mark, AInv, IInv, TypeOK
<1>2. ASSUME NEW s, NEW fate \in {"open", "ok", "fail"}, Settle(s, fate)
      PROVE  runs[r].fate = "unused"
  BY <1>2 DEF Settle, AInv, IInv, TypeOK
<1>3. ASSUME NEW p \in Procs, ScriptEnd(p)
      PROVE  Settle(job[p].run, "ok") \/ Settle(job[p].run, "fail")
  BY <1>3 DEF ScriptEnd
<1>4. CASE runs' = runs
  BY <1>4
<1> QED BY ZenonT(60), <1>1, <1>2, <1>3, <1>4
        DEF Next, Step, Environment, Deliver, Withdraw, TakeResult, Commit, Reset, Edit, Start,
            Crash, Maintain, Scan, BeginRecovery, AbandonRecovery, AcquireForRecovery,
            SkipRecord, Recover, ArchivePatch, BeginArchive, AcquireForArchive, EndArchive,
            ArchiveResult, Approach, Select, SelectExplicit, Untracked, Preflight, Recheck,
            Refuse, Run, Write, WriteFail, Capture, Pin, Publish, NoEvidence, Finish,
            FinishLost, Release, vars

\* An attempt gets its digest only while its run waits for its Result's name,
\* and a record succeeds only with a run.
LEMMA LedgerStep ==
  ASSUME AInv, [Next]_vars, NEW x \in Patches
  PROVE  /\ ledger'[x].status = "attempted" =>
              \/ ledger'[x].digest = NoRun
              \/ ledger[x].status = "attempted" /\ ledger'[x].digest = ledger[x].digest
              \/ \E p \in Procs : pc[p] = "pin" /\ ledger'[x].digest = job[p].run
         /\ ledger'[x].status = "succeeded" => ledger'[x].run \in RunIds
<1>a. /\ ledger \in [Patches -> Records]
      /\ ledger[x].status = "succeeded" => ledger[x].run \in RunIds
      /\ \A p \in Procs : pc[p] \in Mutating => job[p].run \in RunIds
  BY DEF AInv, IInv, TypeOK, JobMatchesRun, JobMatches, SuccessNamesRun
<1>1. ASSUME NEW p \in Procs, Scan(p) PROVE ledger'[x] = ledger[x] \/ ledger'[x].status = "fresh"
  BY <1>1 DEF Scan, Merged, Record
<1>2. ASSUME NEW p \in Procs, NEW y \in Patches, Recover(p, y)
      PROVE  ledger'[x] = ledger[x] \/ (ledger'[x].status = "succeeded" /\ ledger'[x].run \in RunIds)
  <2>1. job[p].run \in RunIds
    BY <1>2 DEF Recover, Recoverable, AInv, IInv, TypeOK
  <2> QED BY <1>2, <1>a, <2>1 DEF Recover, Record
<1>3. ASSUME NEW p \in Procs, NEW r \in RunIds, Mark(p, r)
      PROVE  ledger'[x] = ledger[x] \/ (ledger'[x].status = "attempted" /\ ledger'[x].digest = NoRun)
  BY <1>3, <1>a DEF Mark, Attempt, Record
<1>4. ASSUME NEW p \in Procs, Pin(p)
      PROVE  \/ ledger'[x] = ledger[x]
             \/ /\ pc[p] = "pin" /\ ledger'[x].digest = job[p].run
                /\ ledger'[x].status = "attempted"
  <2>1. /\ pc[p] = "pin" /\ ledger[job[p].patch].status = "attempted"
        /\ ledger' = [ledger EXCEPT ![job[p].patch] =
                        [ledger[job[p].patch] EXCEPT !.digest = job[p].run]]
    BY <1>4, Zenon DEF Pin
  <2> QED BY <2>1, <1>a DEF Records
<1>5. ASSUME NEW p \in Procs, Finish(p)
      PROVE  \/ ledger'[x] = ledger[x]
             \/ ledger'[x].status = "failed"
             \/ ledger'[x].status = "succeeded" /\ ledger'[x].run \in RunIds
  <2>1. /\ job[p].run \in RunIds
        /\ \E c : ledger' = [ledger EXCEPT ![job[p].patch] =
                     IF job[p].ok
                     THEN Record("succeeded", job[p].run, ledger[job[p].patch].digest, c)
                     ELSE Record("failed", job[p].run, NoRun, NoCommit)]
    BY <1>5, <1>a DEF Finish, Succeeded, Mutating
  <2> QED BY <2>1, <1>a DEF Record
<1>6. CASE ledger' = ledger
  BY <1>6, <1>a
<1> QED
  <2>1. ledger' = ledger \/ \E p \in Procs :
          \/ Scan(p) \/ Pin(p) \/ Finish(p)
          \/ \E y \in Patches : Recover(p, y)
          \/ \E r \in RunIds : Mark(p, r)
    BY ZenonT(60) DEF Next, Step, Environment, Deliver, Withdraw, TakeResult, Commit, Reset, Edit, Start,
           Crash, Maintain, BeginRecovery, AbandonRecovery, AcquireForRecovery,
           SkipRecord, ArchivePatch, BeginArchive, AcquireForArchive, EndArchive,
           ArchiveResult, Approach, Select, SelectExplicit, Untracked, Preflight, Recheck,
           Refuse, Run, Write, WriteFail, ScriptEnd, Capture, Publish, NoEvidence,
           FinishLost, Release, diskVars, vars
  <2> QED BY <2>1, <1>1, <1>2, <1>3, <1>4, <1>5, <1>6, <1>a

-----------------------------------------------------------------------------
(* The invariant.                                                           *)

LEMMA SeenUsedStep == ASSUME AInv, [Next]_vars PROVE SeenUsed'
<1> SUFFICES ASSUME NEW r \in RunIds, runs'[r].fate = "unused"
             PROVE  r \notin results' /\ \A p \in Procs : r \notin job'[p].seen
  BY DEF SeenUsed
<1>1. /\ runs[r].fate = "unused" /\ r \notin results
      /\ \A p \in Procs : r \notin job[p].seen
  BY RunsStep DEF AInv, SeenUsed
<1>2. \A p \in Procs : r \notin job'[p].seen
  BY <1>1, LooksStep DEF Looks, AInv, IInv
<1>3. \A p \in Procs : pc[p] = "publish" => r # job[p].run
  BY <1>1 DEF AInv, IInv, JobMatchesRun, JobMatches, FateAt, Mutating
<1> QED BY <1>1, <1>2, <1>3, ResultsStep

LEMMA UnseenStep == ASSUME AInv, [Next]_vars PROVE Unseen'
<1> SUFFICES ASSUME NEW q \in Procs, pc'[q] \in Unpublished
             PROVE  /\ job'[q].run \notin results'
                    /\ \A p \in Procs : job'[q].run \notin job'[p].seen
  BY DEF Unseen
<1>1. /\ job'[q].run \notin results
      /\ \A p \in Procs : job'[q].run \notin job[p].seen
  BY LooksStep DEF Looks, Begins, AInv, IInv, Unseen, SeenUsed
<1>2. \A p \in Procs : job'[q].run \notin job'[p].seen
  BY <1>1, LooksStep DEF Looks, AInv, IInv
<1>3. ASSUME NEW p \in Procs, pc[p] = "publish", pc'[p] = "finish", job'[q].run = job[p].run
      PROVE  FALSE
  <2>1. runs[job[p].run].fate # "unused" /\ job[p].run \in RunIds
    BY <1>3 DEF AInv, IInv, JobMatchesRun, JobMatches, FateAt, Mutating
  <2>2. pc[q] \in Unpublished
    BY <1>3, <2>1, LooksStep DEF Looks, Begins, AInv, IInv
  <2>3. q = p
    BY <1>3, <2>2 DEF AInv, IInv, LockCoversTrust, Locking, Unpublished
  <2> QED BY <1>3, <2>3 DEF Unpublished
<1> QED BY <1>1, <1>2, <1>3, ResultsStep

LEMMA PendingHeldStep == ASSUME AInv, [Next]_vars PROVE PendingHeld'
<1> SUFFICES ASSUME NEW p \in Procs, pc'[p] \in Archiving, NEW x \in Patches,
                    ledger'[x].status = "attempted", ledger'[x].digest \in job'[p].seen
             PROVE  ledger'[x].digest \in job'[p].hold
  BY DEF PendingHeld
<1>1. Looks(p)
  BY LooksStep DEF AInv, IInv
<1>2. ledger'[x].digest # NoRun
  <2>1. job'[p].seen \subseteq RunIds
    BY <1>1 DEF Looks, AInv, IInv, TypeOK, Jobs
  <2> QED BY <2>1 DEF RunIds, NoRun
<1>3. ASSUME NEW q \in Procs, pc[q] = "pin", ledger'[x].digest = job[q].run PROVE FALSE
  <2>1. job[q].run \notin results /\ job[q].run \notin job[p].seen
    BY <1>3 DEF AInv, Unseen, Unpublished
  <2> QED BY <1>1, <1>3, <2>1 DEF Looks
<1>4. ledger[x].status = "attempted" /\ ledger'[x].digest = ledger[x].digest
  BY <1>2, <1>3, LedgerStep
<1>5. CASE pc[p] \in Archiving /\ job'[p].seen = job[p].seen /\ job'[p].hold = job[p].hold
  BY <1>4, <1>5 DEF AInv, PendingHeld
<1>6. CASE job'[p].hold = PendingDigests(p)
  BY <1>2, <1>4, <1>6 DEF PendingDigests
<1> QED BY <1>1, <1>5, <1>6 DEF Looks

\* What archival trusts is inductive.
THEOREM ArchivalInvariant == Spec => []AInv
<1>1. AInv /\ [Next]_vars => AInv'
  <2>1. AInv /\ [Next]_vars => IInv'
    BY TypeStep, LockStep, MatchStep, TruthStep DEF AInv, IInv, Truth
  <2>2. AInv /\ [Next]_vars => SuccessNamesRun'
    BY LedgerStep DEF SuccessNamesRun
  <2> QED BY <2>1, <2>2, SeenUsedStep, UnseenStep, PendingHeldStep DEF AInv
<1> QED BY <1>1, ArchivalInit, PTL DEF Spec

\* A package leaves the Exchange only after a run of it succeeded, and never
\* while an invocation runs it, recorded or not (is_proven_obsolete under the
\* repository lock).
THEOREM OnlySuccessIsArchived == Spec => ArchivedAfterSuccess
<1> DEFINE Proper == \A p \in Procs, x \in Patches : ArchivePatch(p, x) =>
                       /\ \E r \in RunIds : runs[r].patch = x /\ runs[r].fate = "ok"
                       /\ \A q \in Procs : pc[q] \in Mutating => job[q].patch # x
<1>1. AInv => Proper
  <2> SUFFICES ASSUME AInv, NEW p \in Procs, NEW x \in Patches, ArchivePatch(p, x)
               PROVE  /\ \E r \in RunIds : runs[r].patch = x /\ runs[r].fate = "ok"
                      /\ \A q \in Procs : pc[q] \in Mutating => job[q].patch # x
    OBVIOUS
  <2>1. ledger[x].status = "succeeded" /\ pc[p] = "archiving"
    BY DEF ArchivePatch, ObsoletePatch
  <2>2. /\ ledger[x].run \in RunIds
        /\ runs[ledger[x].run].patch = x /\ runs[ledger[x].run].fate = "ok"
    BY <2>1 DEF AInv, SuccessNamesRun, IInv, TerminalStatusIsTrue
  <2>3. \A q \in Procs : pc[q] \notin Mutating
    BY <2>1 DEF AInv, IInv, LockCoversTrust, Locking, Mutating
  <2> QED BY <2>2, <2>3
<1>2. Spec => [][Proper]_vars
  BY <1>1, ArchivalInvariant, PTL
<1> QED BY <1>2 DEF ArchivedAfterSuccess

\* The Result a pending attempt is pinned to stays in the Exchange, although the
\* pending digests were read before the repository was locked
\* (archive_exchange_artifacts).
THEOREM EvidenceStays == Spec => PendingEvidenceKept
<1> DEFINE Kept == \A p \in Procs, r \in RunIds : ArchiveResult(p, r) =>
                     \A x \in Patches : ~(ledger[x].status = "attempted" /\ ledger[x].digest = r)
<1>1. AInv => Kept
  BY DEF AInv, PendingHeld, ArchiveResult, Archiving
<1>2. Spec => [][Kept]_vars
  BY <1>1, ArchivalInvariant, PTL
<1> QED BY <1>2 DEF PendingEvidenceKept

=============================================================================
