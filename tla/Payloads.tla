------------------------------ MODULE Payloads ------------------------------
(***************************************************************************)
(* A patch package meets a working tree that others use: the package is    *)
(* read, its targets looked at (preflight), the repository captured again, *)
(* the attempt recorded, and every payload staged beside its target and    *)
(* moved over it (application_apply.py, apply_preflight.py,                *)
(* apply_mutation.py, payload_files.py, platform/filesystem.py).  Linux.   *)
(*                                                                         *)
(* A target lies in the repository or in a directory of it.  A user may    *)
(* put such a directory aside, a link to another directory in its place,   *)
(* and back.  Not in the model: Ctrl-C, nested directories, file contents  *)
(* but for who wrote them, the removal of a temporary file failing.        *)
(***************************************************************************)
EXTENDS PatchPackages, FiniteSets

CONSTANTS
  Packages,   \* archives: sequences of Members
  Targets,    \* paths, with their directories, that payloads may have
  Trees,      \* what may lie there: functions from Places \X Targets to nodes
  Ignored,    \* targets the exclude rules ignore
  MaxChanges  \* bound: changes others make during one Apply

Places == {"here", "elsewhere"}
Kinds == {"missing", "file", "directory", "link", "other", "error"}
Nodes == [kind : Kinds, body : Int, mode : Modes, stamp : Int]
States == [stamp : Int, mode : Modes]

ASSUME PayloadsAssumption ==
  /\ Packages \subseteq Seq(Members) /\ Ignored \subseteq Targets /\ MaxChanges \in Nat
  /\ Trees \subseteq [Places \X Targets -> {node \in Nodes : node.body >= 0}]
  /\ Nothing \notin States /\ \A mode \in Modes : Nothing # mode

VARIABLES
  members,    \* the archive
  payloads,   \* what it brings
  disk,       \* the node at every target, here and behind a link
  gate,       \* what the preflight captured of the repository
  pc,
  round,      \* why targets are looked at: preflight, validate, inspect, verify
  next,       \* the payload in hand
  target,     \* what inspection found: state and mode
  temp,       \* where the staged file lies
  recorded,   \* the attempt is in the ledger
  outcome,
  changes,    \* how many changes others have made
  late,       \* history: others changed something since the last look began
  disturbed   \* history: targets others touched once their payload was checked

vars == <<members, payloads, disk, gate, pc, round, next, target, temp, recorded, outcome,
          changes, late, disturbed>>

(***************************************************************************)
(* Nodes.  A body tells who wrote it: 0 was there, n > 0 is the n-th       *)
(* change of others, -n is the n-th payload; a stamp also tells changes of *)
(* the inode that leave the body.                                          *)
(***************************************************************************)
Node(kind, body, mode) == [kind |-> kind, body |-> body, mode |-> mode, stamp |-> body]
Missing == Node("missing", 0, {})
Unreachable == Node("error", 0, {})

Top(path) == Len(path) = 1
Parent(path) == <<path[1]>>

\* Targets hold every path the payloads of a package have.
ASSUME TargetsSuffice ==
  \A archive \in Packages :
    LET brought == Resolved(archive).payloads
    IN  \A i \in DOMAIN brought : {brought[i].path, Parent(brought[i].path)} \subseteq Targets

(***************************************************************************)
(* What reading an archive leaves to its payloads: they lie where targets  *)
(* may lie, no two in one place and none above another.                    *)
(***************************************************************************)
Distinct(brought) ==
  /\ brought \in Seq([path : Targets, mode : {Nothing} \cup Modes])
  /\ \A i \in DOMAIN brought : Parent(brought[i].path) \in Targets
  /\ \A i, j \in DOMAIN brought :
       i # j => brought[i].path \notin {brought[j].path, Parent(brought[j].path)}

Place(path) ==
  CASE Top(path) -> "here"
    [] ~Top(path) /\ disk[<<"here", Parent(path)>>].kind = "directory" -> "here"
    [] ~Top(path) /\ disk[<<"here", Parent(path)>>].kind = "link" -> "elsewhere"
    [] OTHER -> "nowhere"

\* lstat: the last name is not followed, the directory before it is.
Lstat(path) ==
  IF Place(path) # "nowhere" THEN disk[<<Place(path), path>>]
  ELSE IF disk[<<"here", Parent(path)>>].kind = "missing" THEN Missing ELSE Unreachable

\* What a capture of the repository shows: links, files, their executable bit.
Visible ==
  [p \in Targets \ Ignored |->
     IF Place(p) # "here" \/ Lstat(p).kind = "directory" THEN Missing
     ELSE [Lstat(p) EXCEPT !.stamp = 0, !.mode = @ \cap {"exec"}]]

Init ==
  /\ members \in Packages /\ disk \in Trees
  /\ payloads = <<>> /\ gate = Nothing /\ pc = "package" /\ round = "preflight" /\ next = 1
  /\ target = Nothing /\ temp = Nothing /\ recorded = FALSE /\ outcome = "none"
  /\ changes = 0 /\ late = FALSE /\ disturbed = {}

TypeOK ==
  /\ pc \in {"package", "resolve", "gate", "recheck", "record", "parent", "mkdir", "kind", "state",
             "stage", "fill", "replace", "unlink", "done"}
  /\ pc = "package" => members \in Packages
  /\ Distinct(payloads) /\ next \in Nat \ {0}
  /\ disk \in [Places \X Targets -> Nodes]
  /\ round \in {"preflight", "validate", "inspect", "verify"}
  /\ target \in {Nothing} \cup [state : {Nothing} \cup States, mode : Modes]
  /\ temp \in {Nothing} \cup Places /\ recorded \in BOOLEAN
  /\ outcome \in {"none", "success", "source_error", "package_error", "refused", "dry_run",
                  "state_mismatch", "raised", "unsafe_target", "write_failure", "killed"}
  /\ changes \in 0..MaxChanges /\ late \in BOOLEAN /\ disturbed \subseteq Targets

Ends(how) == pc' = "done" /\ outcome' = how

history == <<changes, late, disturbed>>
request == <<payloads, gate, recorded>>
moved == <<disk, target, temp>>

(***************************************************************************)
(* Before the mutation.                                                    *)
(***************************************************************************)
ReadPackage ==
  /\ pc = "package" /\ members' = <<>>
  /\ LET package == Resolved(members)
     IN  /\ payloads' = package.payloads
         /\ IF package.status = "accepted" THEN pc' = "resolve" /\ UNCHANGED outcome
            ELSE Ends(package.status)
  /\ UNCHANGED <<gate, recorded, moved, round, next, history>>

\* Registration, capture, the manifest's state and the private copy of the entrypoint.
Preflight ==
  /\ pc = "resolve"
  /\ \/ /\ gate' = Visible /\ UNCHANGED outcome
        /\ pc' = IF payloads = <<>> THEN "gate" ELSE "parent"
     \/ Ends("refused") /\ UNCHANGED gate
  /\ UNCHANGED <<members, payloads, recorded, moved, round, next, history>>

\* Admission may still refuse; a dry run ends here.
PassGate ==
  /\ pc = "gate"
  /\ \/ pc' = "recheck" /\ UNCHANGED outcome
     \/ Ends("refused") \/ Ends("dry_run")
  /\ UNCHANGED <<members, request, moved, round, next, history>>

Agrees == Visible = gate

Recheck ==
  /\ pc = "recheck"
  /\ \/ Agrees /\ pc' = "record" /\ UNCHANGED outcome
     \/ ~Agrees /\ Ends("state_mismatch")
     \/ Ends("raised")
  /\ UNCHANGED <<members, request, moved, round, next, history>>

\* before_mutation: may fail before or after the ledger has the attempt
Record ==
  /\ pc = "record"
  /\ \/ recorded' = TRUE /\ round' = "validate"
        /\ IF payloads = <<>> THEN Ends("success") ELSE pc' = "parent" /\ UNCHANGED outcome
     \/ recorded' \in BOOLEAN /\ Ends("raised") /\ UNCHANGED round
  /\ UNCHANGED <<members, payloads, gate, moved, next, history>>

(***************************************************************************)
(* Looking at a target: its directory, its kind, then its state.  Done for *)
(* every payload in preflight and before the first write, and for each one *)
(* before it is staged and before it is moved.                             *)
(***************************************************************************)
path == payloads[next].path
requested == payloads[next].mode

AfterFailure == IF temp = Nothing THEN "done" ELSE "unlink"

Fails(how) ==
  /\ pc' = AfterFailure
  /\ outcome' = IF round = "preflight" THEN "refused" ELSE how
  /\ UNCHANGED <<members, request, moved, round, next, history>>

Looks(there) == pc' = there /\ UNCHANGED <<members, request, moved, round, next, outcome, history>>

CreatesAtOnce == round # "verify"

\* create_parents: only for the payload that is written next
Creates == round = "inspect"

LookAtParent ==
  /\ pc = "parent"
  /\ LET kind == IF Top(path) THEN "directory" ELSE Lstat(Parent(path)).kind
     IN  \/ kind = "directory" /\ Looks("kind")
         \/ kind = "missing" /\ Looks(IF Creates THEN "mkdir" ELSE "state")
         \/ kind \notin {"directory", "missing"} /\ Fails("unsafe_target")

Made == Node("directory", -next, {})

MakeDirectory ==
  /\ pc = "mkdir"
  /\ \/ /\ Lstat(Parent(path)) = Missing /\ pc' = "kind"
        /\ disk' = [disk EXCEPT ![<<"here", Parent(path)>>] = Made]
        /\ UNCHANGED <<members, request, target, temp, round, next, outcome, history>>
     \/ Fails("write_failure")

LookAtKind ==
  /\ pc = "kind"
  /\ \/ Lstat(path).kind \in {"missing", "file"} /\ Looks("state")
     \/ Lstat(path).kind \notin {"missing", "file"} /\ Fails("unsafe_target")

\* RegularFileState: device, inode and change times, and the mode
State(node) == IF node.kind = "missing" THEN Nothing ELSE [stamp |-> node.stamp, mode |-> node.mode]

Unchanged == State(Lstat(path)) = target.state

InspectableAtFirst ==
  LET node == Lstat(path)
  IN  /\ node.kind \in {"missing", "file"}
      /\ Selectable(requested, IF node.kind = "missing" THEN Nothing ELSE node.mode)

Inspectable ==
  LET node == Lstat(path)
  IN  /\ node.kind \in {"missing", "file"}
      /\ Selectable(requested, IF node.kind = "missing" THEN Nothing ELSE node.mode)
      /\ round = "verify" => Unchanged

Found ==
  LET state == State(Lstat(path))
  IN  [state |-> state,
       mode  |-> SelectedMode(requested, IF state = Nothing THEN Nothing ELSE state.mode)]

LastPayload == next = Len(payloads)

LookAtState ==
  /\ pc = "state"
  /\ \/ ~Inspectable /\ Fails("unsafe_target")
     \/ /\ Inspectable
        /\ \/ /\ round \in {"preflight", "validate"} /\ ~LastPayload
              /\ pc' = "parent" /\ next' = next + 1 /\ UNCHANGED <<round, target>>
           \/ /\ round = "preflight" /\ LastPayload
              /\ pc' = "gate" /\ next' = 1 /\ UNCHANGED <<round, target>>
           \/ /\ round = "validate" /\ LastPayload
              /\ pc' = "parent" /\ next' = 1 /\ round' = "inspect" /\ UNCHANGED target
           \/ /\ round = "inspect"
              /\ pc' = "stage" /\ target' = Found /\ UNCHANGED <<round, next>>
           \/ /\ round = "verify"
              /\ pc' = "replace" /\ UNCHANGED <<round, next, target>>
        /\ UNCHANGED <<members, request, disk, temp, outcome, history>>

(***************************************************************************)
(* atomic_replace_bytes                                                    *)
(***************************************************************************)
Stage ==
  /\ pc = "stage"
  /\ \/ /\ Place(path) # "nowhere" /\ pc' = "fill" /\ temp' = Place(path)
        /\ UNCHANGED <<members, request, disk, target, round, next, outcome, history>>
     \/ Fails("write_failure")

\* write, fchmod, fsync
Fill ==
  /\ pc = "fill"
  /\ \/ /\ pc' = "parent" /\ round' = "verify" /\ late' = FALSE
        /\ UNCHANGED <<members, request, moved, next, outcome, changes, disturbed>>
     \/ Fails("write_failure")

New == Node("file", -next, target.mode)

\* Both names go through the directory as it is now.
Replaceable == Place(path) = temp /\ Lstat(path).kind # "directory"

Replace ==
  /\ pc = "replace"
  /\ \/ /\ Replaceable
        /\ disk' = [disk EXCEPT ![<<temp, path>>] = New]
        /\ temp' = Nothing /\ target' = Nothing /\ round' = "inspect"
        /\ IF LastPayload THEN Ends("success") /\ UNCHANGED next
           ELSE pc' = "parent" /\ next' = next + 1 /\ UNCHANGED outcome
        /\ UNCHANGED <<members, request, history>>
     \/ Fails("write_failure")

Unlink ==
  /\ pc = "unlink" /\ pc' = "done"
  /\ temp' = IF Place(path) = temp THEN Nothing ELSE temp
  /\ UNCHANGED <<members, request, disk, target, round, next, outcome, history>>

Kill ==
  /\ pc \notin {"package", "done"} /\ Ends("killed")
  /\ UNCHANGED <<members, request, moved, round, next, history>>

Steps ==
  \/ ReadPackage \/ Preflight \/ PassGate \/ Recheck \/ Record
  \/ LookAtParent \/ MakeDirectory \/ LookAtKind \/ LookAtState
  \/ Stage \/ Fill \/ Replace \/ Unlink \/ Kill

(***************************************************************************)
(* Others.                                                                 *)
(***************************************************************************)
Addressed == {payloads[i].path : i \in DOMAIN payloads}

\* Payloads that have been moved, or are about to be, since they were last looked at.
Checked ==
  {payloads[i].path : i \in {j \in DOMAIN payloads :
     \/ round \in {"inspect", "verify"} /\ (j < next \/ outcome = "success")
     \/ round = "verify" /\ j = next}}

Changed(paths) ==
  /\ changes < MaxChanges /\ changes' = changes + 1
  /\ late' = TRUE /\ disturbed' = disturbed \cup (paths \cap Checked)
  /\ UNCHANGED <<members, request, target, temp, pc, round, next, outcome>>

Edit(p, node) ==
  /\ p \in Addressed /\ pc # "done" /\ Place(p) = "here" /\ disk[<<"here", p>>] # node
  /\ disk' = [disk EXCEPT ![<<"here", p>>] = node]
  /\ Changed({p})

Write == \E p \in Addressed : Edit(p, Node("file", changes + 1, {}))
Delete == \E p \in Addressed : Edit(p, Missing)
Chmod ==
  \E p \in Addressed, mode \in Modes :
    /\ disk[<<"here", p>>].kind = "file" /\ disk[<<"here", p>>].mode # mode
    /\ Edit(p, [disk[<<"here", p>>] EXCEPT !.mode = mode, !.stamp = changes + 1])

Swap ==
  \E p \in Addressed :
    /\ ~Top(p) /\ pc # "done" /\ disk[<<"here", Parent(p)>>].kind \in {"directory", "link"}
    /\ disk' = [disk EXCEPT ![<<"here", Parent(p)>>].kind = IF @ = "directory" THEN "link" ELSE "directory"]
    /\ Changed({q \in Addressed : ~Top(q) /\ Parent(q) = Parent(p)})

Others == Write \/ Delete \/ Chmod \/ Swap

Next == Steps \/ Others

Spec == Init /\ [][Next]_vars

-----------------------------------------------------------------------------
(* What reading accepts, walking the members in order against the nodes     *)
(* and the budget so far, is exactly the packages whose members cannot meet *)
(* at one place of any file system, keep to the limits, grant no shared     *)
(* write and have their roles; and of the payloads it leaves to the writing *)
(* none lies where another does or above it (zip_payloads.py,               *)
(* bundle_paths.py).                                                        *)
ReadsExactly ==
  pc = "package" =>
    /\ Resolved(members).status = "accepted" <=> SafePackage(members)
    /\ Distinct(Resolved(members).payloads)

(* What PatchHarbor puts in the place of something is put into the          *)
(* repository, over the very state that payload's inspection had found, and *)
(* leaves a file its mode, unless others changed something after the last   *)
(* look had begun (payload_files.py, _require_unchanged_target).            *)
Ours(k) == changes' = changes /\ disk'[k] # disk[k]

Expected(k) ==
  /\ k[1] = "here" /\ State(disk[k]) = target.state
  /\ IF disk[k].kind = "file" THEN disk'[k].mode = disk[k].mode ELSE Grantable(disk'[k].mode)

ReplacesWhatItSaw ==
  [][\A k \in DOMAIN disk :
       Ours(k) => IF disk'[k] = Made THEN disk[k] = Missing ELSE late \/ Expected(k)]_vars

(* What an Apply says of its payloads is so: success leaves every payload   *)
(* whole and in the repository, unless others came after it; a mismatch, a  *)
(* refusal or a failed record leaves the tree alone; after any other end    *)
(* the payloads that are there are the first ones, and the attempt had been *)
(* recorded (apply_mutation.py, payload_files.py).                          *)
Here(i) == LET p == payloads[i].path IN Place(p) = "here" /\ disk[<<"here", p>>].body = -i

Untouched == \A k \in DOMAIN disk : disk[k].body >= 0

OutcomeIsTrue ==
  pc = "done" =>
    /\ outcome = "success" =>
         \A i \in DOMAIN payloads : Here(i) \/ payloads[i].path \in disturbed
    /\ outcome \in {"source_error", "package_error", "refused", "dry_run", "state_mismatch",
                    "raised"} => Untouched
    /\ ~Untouched => recorded
    /\ \A i, j \in DOMAIN payloads : i < j /\ Here(j) => Here(i) \/ payloads[i].path \in disturbed
=============================================================================
