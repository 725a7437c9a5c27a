--------------------------- MODULE ReplayRefinement ---------------------------
(***************************************************************************)
(* ExchangeApply implements ReplayContract when nobody applies packages by *)
(* explicit path: the ledger, the control points and the history together  *)
(* behave like the contract.                                               *)
(***************************************************************************)
EXTENDS ExchangeApply

\* An attempt is running while the process that marked it has yet to write the
\* outcome, and lost once that process has gone without writing it.
Owned(x) ==
  \E p \in Procs : /\ pc[p] \in Mutating
                   /\ job[p].tracked
                   /\ job[p].patch = x
                   /\ job[p].run = ledger[x].run

contractStatus ==
  [x \in Patches |->
     CASE ledger[x].status \in {"absent", "fresh"} -> "fresh"
       [] ledger[x].status = "attempted" -> IF Owned(x) THEN "running" ELSE "lost"
       [] OTHER -> ledger[x].status]

contractTruth ==
  [x \in Patches |->
     IF ledger[x].run = NoRun THEN "none"
     ELSE IF runs[ledger[x].run].fate \in {"marked", "open"} THEN "open"
     ELSE runs[ledger[x].run].fate]

Contract == INSTANCE ReplayContract WITH status <- contractStatus,
                                         truth <- contractTruth

\* The invocations, their crashes, lost outcomes and recoveries do to the
\* ledger only what the contract allows.
KeepsContract == Contract!Spec

=============================================================================
