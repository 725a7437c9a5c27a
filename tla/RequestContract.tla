---------------------------- MODULE RequestContract ----------------------------
(***************************************************************************)
(* What one request promises its caller and the owner of the repository,    *)
(* without entrypoint, directory or documents: one attempt at most, under   *)
(* the repository lock and recorded before anything is written; an outcome  *)
(* that is settled behind its last process, reported in a Result and then    *)
(* recorded; and an answer from which the caller may conclude what became    *)
(* of attempt, record and Result.                                           *)
(***************************************************************************)

VARIABLES
  asked,   \* a tracked or an untracked package, a dry run or a bundle
  alive,   \* PatchHarbor lives
  held,    \* it has the repository lock
  group,   \* the processes of the entrypoint: not begun, at work, over
  fate,    \* what became of the attempt, "lost" when nobody is left who knows
  record,  \* the ledger entry of the package
  placed,  \* a Result was moved to the final path
  told     \* what the caller learnt

vars == <<asked, alive, held, group, fate, record, placed, told>>

Packages == {"tracked", "untracked"}
Answers == {"success", "unpublished", "failed", "refused", "unrecorded", "raised"}

TypeOK ==
  /\ asked \in Packages \cup {"dry_run", "bundle"}
  /\ alive \in BOOLEAN /\ held \in BOOLEAN /\ placed \in BOOLEAN
  /\ group \in {"none", "busy", "over"}
  /\ fate \in {"none", "open", "ok", "failed", "lost"}
  /\ record \in {"none", "attempted", "succeeded", "failed"}
  /\ told \in {"none"} \cup Answers

Init ==
  /\ asked \in Packages \cup {"dry_run", "bundle"}
  /\ alive = TRUE /\ held = FALSE /\ group = "none" /\ fate = "none"
  /\ record = "none" /\ placed = FALSE /\ told = "none"

Working == alive /\ told = "none"
Quiet == group # "busy"

Lock ==
  /\ Working /\ ~held /\ fate = "none" /\ ~placed
  /\ held' = TRUE
  /\ UNCHANGED <<asked, alive, group, fate, record, placed, told>>

\* From here on the repository may be changed; a tracked package is on record.
Attempt ==
  /\ Working /\ held /\ asked \in Packages /\ fate = "none" /\ ~placed
  /\ fate' = "open"
  /\ record' = IF asked = "tracked" THEN "attempted" ELSE record
  /\ UNCHANGED <<asked, alive, held, group, placed, told>>

Start ==
  /\ Working /\ held /\ fate = "open" /\ group = "none"
  /\ group' = "busy"
  /\ UNCHANGED <<asked, alive, held, fate, record, placed, told>>

\* The group ends by itself or is killed, also when PatchHarbor is no more.
Stop ==
  /\ group = "busy"
  /\ group' = "over"
  /\ UNCHANGED <<asked, alive, held, fate, record, placed, told>>

\* Only an entrypoint that ran can have ended well.
Settle ==
  /\ Working /\ held /\ Quiet /\ fate = "open"
  /\ fate' \in IF group = "over" THEN {"ok", "failed"} ELSE {"failed"}
  /\ UNCHANGED <<asked, alive, held, group, record, placed, told>>

\* The Result comes under the lock, knows the outcome and is there before the
\* outcome of an entrypoint is recorded. A manual bundle is done with the lock then.
Place ==
  /\ Working /\ held /\ Quiet /\ ~placed
  /\ fate \in {"none", "ok", "failed"}
  /\ group = "over" => record \in {"none", "attempted"}
  /\ placed' = TRUE
  /\ held' = (asked # "bundle")
  /\ UNCHANGED <<asked, alive, group, fate, record, told>>

Record ==
  /\ Working /\ held /\ record = "attempted" /\ fate \in {"ok", "failed"}
  /\ record' = IF fate = "ok" THEN "succeeded" ELSE "failed"
  /\ UNCHANGED <<asked, alive, held, group, fate, placed, told>>

\* The user gives up, and what has begun is not judged any more.
GiveUp ==
  /\ Working /\ Quiet /\ fate \in {"none", "open"}
  /\ fate' = "lost"
  /\ UNCHANGED <<asked, alive, held, group, record, placed, told>>

Unlock ==
  /\ Working /\ held /\ Quiet /\ fate # "open"
  /\ held' = FALSE
  /\ UNCHANGED <<asked, alive, group, fate, record, placed, told>>

Recorded(status) == record = IF asked = "tracked" THEN status ELSE "none"

\* Everything that was asked for was done: the package ran and ended well.
Done ==
  /\ fate = IF asked \in Packages THEN "ok" ELSE "none"
  /\ Recorded("succeeded")

\* What the caller may conclude from an answer.
Told(answer) ==
  CASE answer = "success" -> Done /\ placed
    [] answer = "unpublished" -> Done /\ ~placed
    [] answer = "failed" -> fate = "failed" /\ Recorded("failed")
    [] answer = "refused" -> fate = "none" /\ group = "none" /\ record = "none"
    [] answer = "unrecorded" -> fate \in {"ok", "failed"} /\ record = "attempted"
    [] answer = "raised" -> fate = "lost" => record \in {"none", "attempted"}

Tell(answer) ==
  /\ Working /\ ~held /\ Quiet /\ fate # "open" /\ Told(answer)
  /\ told' = answer
  /\ UNCHANGED <<asked, alive, held, group, fate, record, placed>>

\* The lock of a process that died is free, whatever its entrypoint still does.
Die ==
  /\ Working
  /\ alive' = FALSE /\ held' = FALSE
  /\ fate' \in CASE fate = "open" -> {"lost"}
                 [] fate = "none" -> {"none", "lost"}
                 [] OTHER -> {fate}
  /\ UNCHANGED <<asked, group, record, placed, told>>

Next ==
  \/ Lock \/ Attempt \/ Start \/ Stop \/ Settle \/ Place \/ Record \/ GiveUp
  \/ Unlock \/ (\E answer \in Answers : Tell(answer)) \/ Die

Spec == Init /\ [][Next]_vars
=============================================================================
