--------------------------- MODULE ResultPublication ---------------------------
(***************************************************************************)
(* The publication of one Result (result_bundle.py,                        *)
(* result_bundle_publication.py, result_verification.py): a reserved or     *)
(* freshly created temporary file beside the final path is written,         *)
(* verified, pinned as evidence, read again and moved to the final path,    *)
(* while emergency diagnostics wait in a private run directory.  The         *)
(* directory is an Exchange: users and transports put files there, take     *)
(* them away, replace and change them between any two steps.                *)
(***************************************************************************)
EXTENDS Naturals

CONSTANTS
  MaxWaits,  \* delays of RETRY_DELAYS
  MaxMoves   \* bound: what others do in the directory

ASSUME PublicationBounds == MaxWaits \in Nat /\ MaxMoves \in Nat

VARIABLES
  final,     \* what the final path holds
  temp,      \* the temporary path: whose file is there and what it holds
  rundir,    \* the private run directory, by what its run.json says
  step,      \* control point of the publication
  reserved,  \* the temporary file was reserved when the run began
  proof,     \* the Result proves a completed commit, so it is to be pinned
  digest,    \* content the first verified read has seen
  pinned,    \* content whose digest is in the ledger
  waits,     \* delays used up, shared by both verified reads
  report,    \* the Result side of the run's report
  placed,    \* history: what PatchHarbor moved onto the final path
  moves,     \* what others have done so far
  blind      \* history: they did it after the last check of that path

diskVars == <<final, temp, rundir>>
doneVars == <<reserved, proof, digest, pinned, waits>>
otherVars == <<moves, blind>>
endVars == <<report, placed>>
publicationVars == <<diskVars, step, doneVars, endVars, otherVars>>

Contents == {"token", "part", "whole", "spoiled"}
NoFile == [by |-> "nobody", holds |-> "nothing"]
Our(content) == [by |-> "us", holds |-> content]
NoReport == [status |-> "none", emergency |-> FALSE]

PublicationInit ==
  /\ final = "nothing" /\ temp = NoFile /\ rundir = "none"
  /\ step = "idle" /\ reserved = FALSE /\ proof = FALSE
  /\ digest = "nothing" /\ pinned = "nothing" /\ waits = 0 /\ report = NoReport
  /\ placed = "nothing"
  /\ moves = 0 /\ blind = {}

-----------------------------------------------------------------------------
(* What users and transports do in the directory.                           *)

Move == moves < MaxMoves /\ moves' = moves + 1
Unseen(path, steps) == blind' = IF step \in steps THEN blind \cup {path} ELSE blind
Undisturbed == UNCHANGED <<rundir, step, doneVars, endVars>>

FinalArrives ==
  /\ Move /\ final = "nothing" /\ final' = "other"
  /\ Unseen("final", {"write", "verify", "pin", "reread", "replace"})
  /\ UNCHANGED temp /\ Undisturbed

FinalTaken ==
  /\ Move /\ final # "nothing" /\ final' = "nothing"
  /\ UNCHANGED <<temp, blind>> /\ Undisturbed

TempTaken ==
  /\ Move /\ temp # NoFile /\ temp' = NoFile
  /\ UNCHANGED <<final, blind>> /\ Undisturbed

TempSwapped ==
  /\ Move /\ temp.by = "us" /\ temp' = [by |-> "other", holds |-> "spoiled"]
  /\ Unseen("temp", {"replace"})
  /\ UNCHANGED final /\ Undisturbed

TempSpoiled ==
  /\ Move /\ temp.by = "us" /\ temp' = Our("spoiled")
  /\ Unseen("temp", {"replace"})
  /\ UNCHANGED final /\ Undisturbed

Others == FinalArrives \/ FinalTaken \/ TempTaken \/ TempSwapped \/ TempSpoiled

-----------------------------------------------------------------------------
(* Before the run: reserve the temporary path.                              *)

Reserve ==
  /\ step = "idle" /\ final = "nothing" /\ temp = NoFile
  /\ temp' = Our("token") /\ reserved' = TRUE /\ step' = "reserved"
  /\ UNCHANGED <<final, rundir, proof, digest, pinned, waits, endVars, otherVars>>

(* The final path exists, or the temporary file cannot be created. *)
ReserveFails ==
  /\ step = "idle" /\ step' = "released"
  /\ UNCHANGED <<diskVars, doneVars, endVars, otherVars>>

(* The scope of the repository ends: an unused reservation is removed, if   *)
(* it still is the file and the token that was left there.                  *)
Release ==
  /\ step \in {"reserved", "ended"} /\ step' = "released"
  /\ temp' = IF reserved /\ temp = Our("token") THEN NoFile ELSE temp
  /\ UNCHANGED <<final, rundir, doneVars, endVars, otherVars>>

-----------------------------------------------------------------------------
(* create_apply_result_bundle and create_manual_result_bundle.              *)

Begin ==
  /\ step \in {"idle", "reserved"} /\ step' = "capture"
  /\ rundir' = "bare"
  /\ UNCHANGED <<final, temp, doneVars, endVars, otherVars>>

NoRunDirectory ==
  /\ step \in {"idle", "reserved"} /\ step' = "ended"
  /\ report' = [status |-> "failed", emergency |-> FALSE]
  /\ UNCHANGED <<diskVars, doneVars, placed, otherVars>>

(* execution.log, consistent capture, target checked twice, documents; the  *)
(* run.json in the run directory already says that the Result is created.   *)
Capture(proves) ==
  /\ step = "capture" /\ step' = "open"
  /\ proof' = proves /\ rundir' = "created"
  /\ UNCHANGED <<final, temp, reserved, digest, pinned, waits, endVars, otherVars>>

CaptureFails ==
  /\ step = "capture" /\ step' = "rescue"
  /\ UNCHANGED <<diskVars, doneVars, endVars, otherVars>>

(* The `finally' of publish_result_bundle: what is ours is removed, but     *)
(* before the first byte was written only with its token.                   *)
Publishing == {"open", "write", "verify", "pin", "reread", "replace"}
RemovableUnchecked == step # "open" \/ temp.holds = "token"
Removable == temp.by = "us" /\ (step # "open" \/ temp.holds = "token")
RemoveOwned == temp' = IF Removable THEN NoFile ELSE temp

Fail ==
  /\ step' = "rescue" /\ RemoveOwned
  /\ UNCHANGED <<final, rundir, doneVars, endVars, otherVars>>

Go(there) == step' = there /\ UNCHANGED <<final, rundir, endVars, otherVars>>

Open ==
  /\ step = "open" /\ final = "nothing"
  /\ temp = IF reserved THEN Our("token") ELSE NoFile
  /\ temp' = Our("part") /\ Go("write") /\ UNCHANGED doneVars

OpenFails == step = "open" /\ Fail

(* The stream writes into the file that was opened, whatever the path says. *)
WriteBundle ==
  /\ step = "write" /\ Go("verify")
  /\ temp' = IF temp = Our("part") THEN Our("whole") ELSE temp
  /\ UNCHANGED doneVars

WriteFails == step = "write" /\ Fail

(* ResultVerification.run: only an unstable read is tried again, after a     *)
(* delay, and only while the file is ours.                                  *)
RetryUncounted ==
  /\ step \in {"verify", "reread"} /\ temp.by = "us"
  /\ step' = IF step = "reread" THEN "verify" ELSE step
  /\ UNCHANGED <<diskVars, doneVars, endVars, otherVars>>

Retry ==
  /\ step \in {"verify", "reread"} /\ temp.by = "us" /\ waits < MaxWaits
  /\ waits' = waits + 1
  /\ UNCHANGED <<diskVars, step, reserved, proof, digest, pinned, endVars, otherVars>>

Verify ==
  /\ step = "verify" /\ temp = Our("whole") /\ Go("pin")
  /\ digest' = temp.holds
  /\ UNCHANGED <<temp, reserved, proof, pinned, waits>>

Pin ==
  /\ step = "pin" /\ proof /\ temp.by = "us" /\ Go("reread")
  /\ pinned' = digest
  /\ UNCHANGED <<temp, reserved, proof, digest, waits>>

(* The file is no longer ours when its digest has just been pinned. *)
PinLost ==
  /\ step = "pin" /\ proof /\ temp.by # "us"
  /\ step' = "rescue" /\ RemoveOwned /\ pinned' = digest
  /\ UNCHANGED <<final, rundir, reserved, proof, digest, waits, endVars, otherVars>>

NothingToPin ==
  /\ step = "pin" /\ ~proof /\ Go("reread")
  /\ UNCHANGED <<temp, doneVars>>

RereadUncompared ==
  /\ step = "reread" /\ temp.by = "us" /\ Go("replace")
  /\ UNCHANGED <<temp, doneVars>>

Reread ==
  /\ step = "reread" /\ temp.by = "us" /\ temp.holds = digest /\ Go("replace")
  /\ UNCHANGED <<temp, doneVars>>

(* Lost, changed, unreadable or never stable; or the ledger refuses the pin. *)
ChecksFail == step \in {"verify", "pin", "reread"} /\ Fail

ReplaceUnchecked ==
  /\ step = "replace"
  /\ final' = IF temp = NoFile THEN final ELSE temp.holds
  /\ placed' = IF temp = NoFile THEN placed ELSE temp.holds
  /\ temp' = NoFile /\ step' = "cleanup"
  /\ UNCHANGED <<rundir, doneVars, report, otherVars>>

(* os.replace moves whatever the temporary path names onto the final path.  *)
Replace ==
  /\ step = "replace" /\ temp # NoFile
  /\ final' = temp.holds /\ placed' = temp.holds /\ temp' = NoFile
  /\ step' = "cleanup"
  /\ UNCHANGED <<rundir, doneVars, report, otherVars>>

ReplaceFails == step = "replace" /\ Fail

(* Best effort: the run directory may stay behind. *)
Created ==
  /\ step = "cleanup" /\ step' = "ended"
  /\ report' = [status |-> "created", emergency |-> FALSE]
  /\ rundir' \in {"none", rundir}
  /\ UNCHANGED <<final, temp, doneVars, placed, otherVars>>

(* _preserve_emergency_diagnostics rewrites run.json, or gives up.          *)
Rescue ==
  /\ step = "rescue" /\ step' = "ended"
  /\ \E rescued \in BOOLEAN :
       /\ report' = [status |-> "failed", emergency |-> rescued]
       /\ rundir' \in IF rescued THEN {"failed"} ELSE {"none", rundir}
  /\ UNCHANGED <<final, temp, doneVars, placed, otherVars>>

CancelAtOnce ==
  /\ step \in {"capture", "rescue", "cleanup"} \cup Publishing /\ step' = "ended"
  /\ UNCHANGED <<diskVars, doneVars, endVars, otherVars>>

(* Ctrl-C is caught by nobody; the `finally' clause has its turn.           *)
Cancel ==
  /\ step \in {"capture", "rescue", "cleanup"} \cup Publishing /\ step' = "ended"
  /\ IF step \in Publishing THEN RemoveOwned ELSE UNCHANGED temp
  /\ UNCHANGED <<final, rundir, doneVars, endVars, otherVars>>

Publication ==
  \/ CaptureFails \/ Open \/ OpenFails \/ WriteBundle \/ WriteFails \/ Retry
  \/ Verify \/ Pin \/ PinLost \/ NothingToPin \/ Reread \/ ChecksFail
  \/ Replace \/ ReplaceFails \/ Created \/ Rescue

-----------------------------------------------------------------------------

PublicationTypeOK ==
  /\ final \in {"nothing", "other"} \cup Contents
  /\ temp \in {NoFile, [by |-> "other", holds |-> "spoiled"]} \cup
             {Our(content) : content \in Contents}
  /\ rundir \in {"none", "bare", "created", "failed"}
  /\ step \in {"idle", "reserved", "capture", "rescue", "cleanup", "ended",
               "released"} \cup Publishing
  /\ reserved \in BOOLEAN /\ proof \in BOOLEAN
  /\ digest \in {"nothing", "whole"} /\ pinned \in {"nothing", "whole"}
  /\ waits \in 0..MaxWaits /\ moves \in 0..MaxMoves
  /\ report \in [status : {"none", "created", "failed"}, emergency : BOOLEAN]
  /\ placed \in {"nothing"} \cup Contents
  /\ blind \subseteq {"final", "temp"}

(* What others put at either path survives every step of PatchHarbor: a     *)
(* file at the temporary path that is not its own is never removed, and a   *)
(* file at the final path never overwritten, unless it came after the last  *)
(* look at that path.                                                       *)
ForeignKept ==
  [][moves' = moves =>
       /\ final = "other" /\ "final" \notin blind => final' = "other"
       /\ temp.by = "other" /\ "temp" \notin blind => temp' = temp]_publicationVars

(* The final path never shows a reservation, a half-written or a damaged    *)
(* Result of PatchHarbor, and what is there is what the ledger pinned, if   *)
(* it pinned anything - whoever meddled with the temporary file before the   *)
(* last read of it.                                                         *)
PinCoversResult ==
  placed # "nothing" /\ "temp" \notin blind =>
    placed = "whole" /\ pinned = IF proof THEN placed ELSE "nothing"

(* A report says `created' only of a Result that reached the final path and *)
(* `failed' only when none did; emergency diagnostics it names are there    *)
(* and do not claim a Result.                                               *)
ReportIsTrue ==
  /\ report.status = "created" => placed # "nothing"
  /\ report.status = "failed" => placed = "nothing"
  /\ report.emergency => rundir = "failed"
=============================================================================
