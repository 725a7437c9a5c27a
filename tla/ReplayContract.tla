---------------------------- MODULE ReplayContract ----------------------------
(***************************************************************************)
(* What the replay ledger promises the owner of one repository, without    *)
(* files, locks, scans or Git: at most one package runs at a time, a       *)
(* package begins to run only when it is fresh or its last run failed, the *)
(* status says what the last run really did, and an attempt whose process  *)
(* was lost is closed only by recovery, only as a success, and only when   *)
(* the run did succeed.                                                    *)
(***************************************************************************)
CONSTANT Patches

VARIABLES
  status,  \* the replay status users and selection see
  truth    \* what the last run of the package really did

vars == <<status, truth>>

TypeOK ==
  /\ status \in [Patches -> {"fresh", "running", "lost", "failed", "succeeded"}]
  /\ truth \in [Patches -> {"none", "open", "ok", "fail"}]

Init ==
  /\ status = [x \in Patches |-> "fresh"]
  /\ truth = [x \in Patches |-> "none"]

Begin(x) ==
  /\ \A y \in Patches : status[y] # "running"
  /\ status[x] \in {"fresh", "failed"}
  /\ status' = [status EXCEPT ![x] = "running"]
  /\ truth' = [truth EXCEPT ![x] = "open"]

Execute(x) ==
  /\ status[x] = "running"
  /\ truth[x] = "open"
  /\ \E t \in {"ok", "fail"} : truth' = [truth EXCEPT ![x] = t]
  /\ UNCHANGED status

End(x) ==
  /\ status[x] = "running"
  /\ truth[x] \in {"ok", "fail"}
  /\ status' = [status EXCEPT ![x] = IF truth[x] = "ok" THEN "succeeded"
                                                        ELSE "failed"]
  /\ UNCHANGED truth

\* The process died, or could not write its outcome.
Lose(x) ==
  /\ status[x] = "running"
  /\ status' = [status EXCEPT ![x] = "lost"]
  /\ UNCHANGED truth

Recover(x) ==
  /\ \A y \in Patches : status[y] # "running"
  /\ status[x] = "lost"
  /\ truth[x] = "ok"
  /\ status' = [status EXCEPT ![x] = "succeeded"]
  /\ UNCHANGED truth

Next == \E x \in Patches : Begin(x) \/ Execute(x) \/ End(x) \/ Lose(x) \/ Recover(x)

Spec == Init /\ [][Next]_vars

=============================================================================
