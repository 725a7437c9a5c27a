----------------------------- MODULE Packaging -----------------------------
(***************************************************************************)
(* `pack' (patch_pack.py): a content directory and a Result become a patch *)
(* package under a new name, while others use the directory, the Result    *)
(* and the output directory.  Sources are scanned, read and scanned again  *)
(* (pack_sources.py, source_tree.py); the package is written under a       *)
(* temporary name, validated, and linked to its final name only after      *)
(* every input has been looked at once more (pack_output.py).  Linux.      *)
(*                                                                         *)
(* The disk is a sequence of inodes.  Every write or link gives an inode a *)
(* new change time; who writes in place may restore the modification time. *)
(* Not in the model: sizes and budgets, subdirectories, modes, the ZIP.    *)
(***************************************************************************)
EXTENDS Integers, Sequences, FiniteSets, FiniteSetsExt

CONSTANTS
  Names,       \* names in the content directory, in their order
  Entrypoint,  \* the one that is named as entrypoint
  Chunks,      \* pieces a file is read in
  Nothing,
  MaxChanges   \* bound: changes others make during one packing

ASSUME PackagingAssumption ==
  Names \subseteq Nat /\ IsFiniteSet(Names) /\ Entrypoint \in Names /\ Nothing \notin Nat /\ MaxChanges \in Nat

VARIABLES
  disk,       \* inodes: body, mtime, ctime, links
  sources,    \* inode of every name of the content directory
  rootTime,   \* change time of that directory
  reference,  \* inode of the reference Result
  output,     \* inodes of temporary and final name, and whether the directory moved
  clock,
  moments,    \* history: what the inputs have been
  pc,
  round,      \* first or second look at the sources
  todo,       \* names still to be looked at
  handle,     \* the open file
  seen,       \* metadata of the reference, the directory and the scanned files
  captured,   \* bodies read so far, and the body of the reference
  own,        \* the temporary file: inode, descriptor metadata it was verified with
  done        \* outcome, what has happened on the way, and (history) when the last look was

world == <<disk, sources, rootTime, reference, output, clock, moments>>
packing == <<pc, round, todo, handle, seen, captured, own, done>>
vars == <<world, packing>>

(***************************************************************************)
(* Files and what is compared of them.                                     *)
(***************************************************************************)
StateOfContents(i) == [id |-> i, size |-> Len(disk[i].body), mtime |-> disk[i].mtime,
                       ctime |-> 0, links |-> disk[i].links]

\* metadata_signature, _descriptor_signature
State(i) == [id |-> i, size |-> Len(disk[i].body), mtime |-> disk[i].mtime,
             ctime |-> disk[i].ctime, links |-> disk[i].links]

SameFile(state, i) == i # Nothing /\ state.id = i
SameState(state, i) == i # Nothing /\ state = State(i)

Inode(body, time) == [body |-> body, mtime |-> time, ctime |-> time, links |-> 1]

Present == {n \in Names : sources[n] # Nothing}
Now == [files |-> [n \in Present |-> disk[sources[n]].body],
        binding |-> IF reference = Nothing THEN Nothing ELSE disk[reference].body]

None == [n \in {} |-> Nothing]

Init ==
  /\ \E there \in {S \in SUBSET Names : Entrypoint \in S} :
       LET order == [n \in Names |-> Cardinality({k \in there : k <= n})]
       IN  /\ sources = [n \in Names |-> IF n \in there THEN order[n] + 1 ELSE Nothing]
           /\ \E first \in Chunks :
                disk = [i \in 1..(Cardinality(there) + 1) |-> Inode(<<first, first>>, 0)]
  /\ reference = 1 /\ rootTime = 0 /\ clock = 0
  /\ output = [partial |-> Nothing, target |-> Nothing, moved |-> FALSE]
  /\ moments = {Now}
  /\ pc = "reference" /\ round = 1 /\ todo = {} /\ handle = Nothing
  /\ seen = [reference |-> Nothing, root |-> Nothing, now |-> Nothing,
             entries |-> None, again |-> None]
  /\ captured = [files |-> None, binding |-> Nothing]
  /\ own = [id |-> Nothing, held |-> FALSE, verified |-> Nothing]
  /\ done = [outcome |-> "none", linked |-> FALSE, published |-> FALSE,
             warned |-> FALSE, interrupted |-> FALSE, looked |-> 0]

(***************************************************************************)
(* Ends.                                                                   *)
(***************************************************************************)
Step(from, to) == pc = from /\ pc' = to

StopAfterFailure == "done"

\* The temporary file is cleaned up if `owned' is bound; every failure passes here.
AfterFailure == IF own.held THEN "close" ELSE "done"

Fail(from) ==
  /\ Step(from, AfterFailure)
  /\ done' = [done EXCEPT !.outcome = "failed"]
  /\ UNCHANGED <<world, round, todo, handle, seen, captured, own>>

(***************************************************************************)
(* The reference: pinned, then read through a path that must lead to it.   *)
(***************************************************************************)
PinReference ==
  \/ /\ Step("reference", "open_reference") /\ reference # Nothing
     /\ seen' = [seen EXCEPT !.reference = State(reference)]
     /\ UNCHANGED <<world, round, todo, handle, captured, own, done>>
  \/ reference = Nothing /\ Fail("reference")

OpenReference ==
  /\ pc = "open_reference"
  /\ \/ /\ SameFile(seen.reference, reference) /\ pc' = "read_reference"
        /\ handle' = [state |-> State(reference), body |-> <<>>]
        /\ UNCHANGED <<world, round, todo, seen, captured, own, done>>
     \/ ~SameFile(seen.reference, reference) /\ Fail("open_reference")

\* A descriptor keeps reading its inode, whatever happens to the name.
ReadChunk(at) ==
  /\ pc = at /\ Len(handle.body) < handle.state.size
  /\ handle' = [handle EXCEPT !.body = Append(@, disk[handle.state.id].body[Len(@) + 1])]
  /\ UNCHANGED <<world, pc, round, todo, seen, captured, own, done>>

ReadAll == Len(handle.body) = handle.state.size

\* _read_stable_regular_file, and pack_patch after it: the path still leads to the
\* file that was opened, and its descriptor shows no change since it was pinned.
ReferenceWasStable ==
  /\ SameFile(handle.state, reference)
  /\ SameState(handle.state, handle.state.id)
  /\ SameState(seen.reference, handle.state.id)

CloseReference ==
  /\ pc = "read_reference" /\ ReadAll
  /\ \/ /\ ReferenceWasStable
        /\ Step("read_reference", "metadata")
        /\ captured' = [captured EXCEPT !.binding = handle.body] /\ handle' = Nothing
        /\ UNCHANGED <<world, round, todo, seen, own, done>>
     \/ ~ReferenceWasStable /\ Fail("read_reference")

\* Template, names and environment come from what was captured; they may not do.
PrepareMetadata ==
  \/ /\ Step("metadata", "target")
     /\ UNCHANGED <<world, round, todo, handle, seen, captured, own, done>>
  \/ Fail("metadata")

\* resolve_output_target: lstat, links included
ResolveTarget ==
  \/ /\ output.target = Nothing /\ Step("target", "list")
     /\ UNCHANGED <<world, round, todo, handle, seen, captured, own, done>>
  \/ output.target # Nothing /\ Fail("target")

(***************************************************************************)
(* The content directory: scanned (round 1), read, scanned again (2), and  *)
(* once more before publication (3).                                       *)
(***************************************************************************)
List ==
  /\ Step("list", "scan")
  /\ todo' = Present
  /\ seen' = [seen EXCEPT !.now = rootTime, !.again = None]
  /\ UNCHANGED <<world, round, handle, captured, own, done>>

\* No hard links; a file read before is opened again and must not have changed.
Acceptable(n) ==
  /\ sources[n] # Nothing /\ State(sources[n]).links = 1
  /\ round > 1 /\ n \in DOMAIN seen.entries => SameState(seen.entries[n], sources[n])

Scan ==
  /\ pc = "scan" /\ todo # {}
  /\ LET n == Min(todo)
     IN  \/ /\ Acceptable(n) /\ Step("scan", "scan")
            /\ todo' = todo \ {n}
            /\ seen' = [seen EXCEPT !.again =
                 [k \in DOMAIN @ \cup {n} |-> IF k = n THEN State(sources[n]) ELSE @[k]]]
            /\ UNCHANGED <<world, round, handle, captured, own, done>>
         \/ ~Acceptable(n) /\ Fail("scan")

\* What leaving the context manager of the root checks.
RootUnchanged == rootTime = seen.now

Inventoried ==
  /\ pc = "scan" /\ todo = {} /\ round = 1
  /\ \/ /\ Entrypoint \in DOMAIN seen.again
        /\ Step("scan", "open") /\ todo' = DOMAIN seen.again
        /\ seen' = [seen EXCEPT !.root = seen.now, !.entries = seen.again]
        /\ UNCHANGED <<world, round, handle, captured, own, done>>
     \/ Entrypoint \notin DOMAIN seen.again /\ Fail("scan")

OpenSource ==
  /\ pc = "open" /\ todo # {}
  /\ LET n == Min(todo)
     IN  \/ /\ SameState(seen.entries[n], sources[n]) /\ Step("open", "read")
            /\ handle' = [state |-> State(sources[n]), body |-> <<>>]
            /\ UNCHANGED <<world, round, todo, seen, captured, own, done>>
         \/ ~SameState(seen.entries[n], sources[n]) /\ Fail("open")

\* open_file: neither the descriptor nor the path has changed.
SourceWasStable(n) == SameState(handle.state, sources[n])

CloseSource ==
  /\ pc = "read" /\ ReadAll
  /\ LET n == Min(todo)
     IN  \/ /\ SourceWasStable(n) /\ Step("read", "open")
            /\ captured' = [captured EXCEPT !.files =
                 [k \in DOMAIN @ \cup {n} |-> IF k = n THEN handle.body ELSE @[k]]]
            /\ todo' = todo \ {n} /\ handle' = Nothing
            /\ UNCHANGED <<world, round, seen, own, done>>
         \/ ~SourceWasStable(n) /\ Fail("read")

Captured ==
  /\ Step("open", "list") /\ todo = {} /\ round' = 2
  /\ UNCHANGED <<world, todo, handle, seen, captured, own, done>>

\* CapturedSources.revalidate
NothingChanged == RootUnchanged /\ seen.now = seen.root /\ seen.again = seen.entries

Revalidated ==
  /\ pc = "scan" /\ todo = {} /\ round > 1
  /\ \/ /\ NothingChanged /\ round' = 3
        /\ Step("scan", IF round = 2 THEN "prepare" ELSE "reference_again")
        /\ UNCHANGED <<world, todo, handle, seen, captured, own, done>>
     \/ ~NothingChanged /\ Fail("scan")

(***************************************************************************)
(* The package under its temporary name.                                   *)
(***************************************************************************)
\* The manifest binds the captured files to the captured reference.
Package == <<captured>>

PrepareCandidate ==
  \/ /\ Step("prepare", "reserve")
     /\ UNCHANGED <<world, round, todo, handle, seen, captured, own, done>>
  \/ Fail("prepare")

\* os.open with O_EXCL; `owned' is bound a moment later.
Reserve ==
  \/ /\ ~output.moved /\ output.partial = Nothing /\ Step("reserve", "hold")
     /\ disk' = Append(disk, Inode(<<>>, clock))
     /\ output' = [output EXCEPT !.partial = Len(disk) + 1]
     /\ own' = [own EXCEPT !.id = Len(disk) + 1]
     /\ UNCHANGED <<sources, rootTime, reference, clock, moments, round, todo, handle, seen, captured, done>>
  \/ (output.moved \/ output.partial # Nothing) /\ Fail("reserve")

Hold ==
  /\ Step("hold", "write") /\ own' = [own EXCEPT !.held = TRUE]
  /\ UNCHANGED <<world, round, todo, handle, seen, captured, done>>

Write ==
  \/ /\ Step("write", "pin")
     /\ disk' = [disk EXCEPT ![own.id].body = Package, ![own.id].mtime = clock, ![own.id].ctime = clock]
     /\ UNCHANGED <<sources, rootTime, reference, output, clock, moments,
                    round, todo, handle, seen, captured, own, done>>
  \/ Fail("write")

\* OwnedPackFile.require_owned
Owned ==
  /\ ~output.moved
  /\ output.partial = own.id /\ disk[own.id].links = 1
  /\ own.verified # Nothing => SameState(own.verified, own.id)

Checked(from, to, ok) ==
  /\ pc = from
  /\ \/ ok /\ pc' = to /\ UNCHANGED <<world, round, todo, handle, seen, captured, own, done>>
     \/ ~ok /\ Fail(from)

Pin == Checked("pin", "sync", Owned)

Sync == Checked("sync", "validate", TRUE) \/ Fail("sync")

\* The bytes under the temporary name, if it still names the own file, are a
\* package bound to the captured reference, with exactly the captured entries.
Validate ==
  Checked("validate", "list", output.partial = own.id /\ disk[own.id].body = Package)

CheckReference == Checked("reference_again", "verify", SameState(seen.reference, reference))

Verified == Owned /\ disk[own.id].body = Package

VerifyHash ==
  /\ pc = "verify"
  /\ \/ /\ Verified /\ pc' = "publish"
        /\ own' = [own EXCEPT !.verified = State(own.id)]
        /\ UNCHANGED <<world, round, todo, handle, seen, captured, done>>
     \/ ~Verified /\ Fail("verify")

(***************************************************************************)
(* Publication and cleanup.                                                *)
(***************************************************************************)
LastLook == Checked("publish", "link", Owned)

\* linkat of the open inode: never replaces a name, never follows the temporary one.
NameIsFree == output.target = Nothing

Link ==
  \/ /\ NameIsFree /\ Step("link", "mark")
     /\ output' = [output EXCEPT !.target = own.id]
     /\ disk' = [disk EXCEPT ![own.id].links = @ + 1, ![own.id].ctime = clock]
     /\ done' = [done EXCEPT !.linked = TRUE]
     /\ UNCHANGED <<sources, rootTime, reference, clock, moments, round, todo, handle, seen, captured, own>>
  \/ ~NameIsFree /\ Fail("link")

Mark ==
  /\ Step("mark", "close")
  /\ done' = [done EXCEPT !.published = TRUE, !.outcome = "success"]
  /\ UNCHANGED <<world, round, todo, handle, seen, captured, own>>

Close ==
  /\ Step("close", "look")
  /\ \/ UNCHANGED done
     \/ done' = [done EXCEPT !.warned = TRUE]
  /\ UNCHANGED <<world, round, todo, handle, seen, captured, own>>

IsAnything == output.partial # Nothing
IsOwn == output.partial = own.id

Look ==
  /\ pc = "look"
  /\ pc' = IF IsOwn THEN "unlink" ELSE "done"
  /\ done' = [done EXCEPT !.warned = @ \/ (~IsOwn /\ output.partial # Nothing), !.looked = clock]
  /\ UNCHANGED <<world, round, todo, handle, seen, captured, own>>

Unlink ==
  /\ Step("unlink", "done")
  /\ LET i == output.partial
     IN  \/ /\ output' = [output EXCEPT !.partial = Nothing]
            /\ disk' = IF i = Nothing THEN disk
                       ELSE [disk EXCEPT ![i].links = @ - 1, ![i].ctime = clock]
            /\ UNCHANGED done
         \/ done' = [done EXCEPT !.warned = TRUE] /\ UNCHANGED <<output, disk>>
  /\ UNCHANGED <<sources, rootTime, reference, clock, moments, round, todo, handle, seen, captured, own>>

(***************************************************************************)
(* Ctrl-C, once.                                                           *)
(***************************************************************************)
Interrupted(outcome, warned) ==
  [done EXCEPT !.interrupted = TRUE, !.outcome = outcome, !.warned = @ \/ warned]

Cleaning == {"close", "look", "unlink"}

\* Success survives once `published' is set; before, nothing is confirmed.
Interrupt ==
  /\ pc \notin {"done"} \cup Cleaning /\ ~done.interrupted
  /\ pc' = AfterFailure
  /\ done' = Interrupted("interrupted", FALSE)
  /\ UNCHANGED <<world, round, todo, handle, seen, captured, own>>

\* Inside one of the guarded calls of cleanup it is a warning, between them it escapes.
InterruptCleanup ==
  /\ pc \in Cleaning /\ ~done.interrupted
  /\ \/ /\ pc' = IF pc = "close" THEN "look" ELSE "done"
        /\ done' = Interrupted(done.outcome, TRUE)
     \/ pc' = "done" /\ done' = Interrupted("interrupted", FALSE)
  /\ UNCHANGED <<world, round, todo, handle, seen, captured, own>>

(***************************************************************************)
(* Others, at any moment.                                                  *)
(***************************************************************************)
Others(change) ==
  /\ pc # "done" /\ clock < MaxChanges /\ clock' = clock + 1
  /\ UNCHANGED packing
  /\ change
  /\ moments' = moments \cup {Now'}

Reachable == {i \in DOMAIN disk :
  i \in {sources[n] : n \in Names} \cup {reference, output.partial, output.target}}

\* In place; the modification time may be put back.
Rewrite(i, k, c) == Others(
  /\ k \in DOMAIN disk[i].body /\ c # disk[i].body[k]
  /\ \E mtime \in {disk[i].mtime, clock'} :
       disk' = [disk EXCEPT ![i].body[k] = c, ![i].mtime = mtime, ![i].ctime = clock']
  /\ UNCHANGED <<sources, rootTime, reference, output>>)

\* One name less leads to inode i.
Without(i) == IF i = Nothing THEN disk
              ELSE [disk EXCEPT ![i].links = @ - 1, ![i].ctime = clock']

\* A new file takes the name of inode i, or a free one.
NewFor(i, c) == disk' = Append(Without(i), Inode(<<c, c>>, clock'))

PutSource(n, c) == Others(
  /\ NewFor(sources[n], c)
  /\ sources' = [sources EXCEPT ![n] = Len(disk) + 1] /\ rootTime' = clock'
  /\ UNCHANGED <<reference, output>>)

DropSource(n) == Others(
  /\ sources[n] # Nothing /\ disk' = Without(sources[n])
  /\ sources' = [sources EXCEPT ![n] = Nothing] /\ rootTime' = clock'
  /\ UNCHANGED <<reference, output>>)

ReplaceReference(c) == Others(
  /\ NewFor(reference, c) /\ reference' = Len(disk) + 1
  /\ UNCHANGED <<sources, rootTime, output>>)

RemoveReference == Others(
  /\ reference # Nothing /\ disk' = Without(reference) /\ reference' = Nothing
  /\ UNCHANGED <<sources, rootTime, output>>)

Occupy(name, c) == Others(
  /\ name = "partial" => own.id # Nothing /\ output.partial = own.id
  /\ NewFor(output[name], c)
  /\ output' = [output EXCEPT ![name] = Len(disk) + 1]
  /\ UNCHANGED <<sources, rootTime, reference>>)

Withdraw == Others(
  /\ output.partial # Nothing
  /\ disk' = Without(output.partial) /\ output' = [output EXCEPT !.partial = Nothing]
  /\ UNCHANGED <<sources, rootTime, reference>>)

HardLink(i) == Others(
  /\ disk' = [disk EXCEPT ![i].links = @ + 1, ![i].ctime = clock']
  /\ UNCHANGED <<sources, rootTime, reference, output>>)

MoveDirectory == Others(
  /\ ~output.moved /\ output' = [output EXCEPT !.moved = TRUE]
  /\ UNCHANGED <<disk, sources, rootTime, reference>>)

Environment ==
  \/ \E i \in Reachable, k \in 1..2, c \in Chunks : Rewrite(i, k, c)
  \/ \E n \in Names : DropSource(n) \/ \E c \in Chunks : PutSource(n, c)
  \/ \E c \in Chunks : ReplaceReference(c) \/ \E name \in {"partial", "target"} : Occupy(name, c)
  \/ RemoveReference \/ Withdraw \/ MoveDirectory
  \/ \E i \in Reachable : HardLink(i)

Packing ==
  \/ PinReference \/ OpenReference \/ ReadChunk("read_reference") \/ CloseReference
  \/ PrepareMetadata \/ ResolveTarget \/ List \/ Scan \/ Inventoried \/ OpenSource \/ ReadChunk("read")
  \/ CloseSource \/ Captured \/ Revalidated
  \/ PrepareCandidate \/ Reserve \/ Hold \/ Write \/ Pin \/ Sync \/ Validate \/ CheckReference \/ VerifyHash
  \/ LastLook \/ Link \/ Mark \/ Close \/ Look \/ Unlink

Next == Packing \/ Interrupt \/ InterruptCleanup \/ Environment

Spec == Init /\ [][Next]_vars

(***************************************************************************)
(* What the packing of a shared directory promises.                        *)
(***************************************************************************)
\* What gets its final name is a package of one moment: all its files and the
\* Result it is bound to were like that together at some time during the packing,
\* and its bytes are those, unless others wrote to it after the last look.
PackageIsReal ==
  pc = "link" =>
    /\ captured \in moments
    /\ SameState(own.verified, own.id) => disk[own.id].body = Package

\* Packing never replaces or removes a file of others and never writes into one,
\* whatever they do with its two names meanwhile, except that a file put under
\* the temporary name after the last look at it goes when that name is removed.
ForeignFilesStay ==
  [][clock' = clock =>
       /\ output.target # Nothing => output'.target = output.target
       /\ \/ output.partial \in {Nothing, own.id, output'.partial}
          \/ pc = "unlink" /\ disk[output.partial].ctime > done.looked
       /\ \A i \in DOMAIN disk \ {own.id} : disk'[i].body = disk[i].body]_vars

\* What `pack' reports is true: success only for a package that has its name, an
\* error only if it never had; a temporary file that stays behind is reported,
\* and only Ctrl-C can leave either open.
OutcomeIsTrue ==
  pc = "done" =>
    /\ done.outcome = "success" => done.linked
    /\ done.outcome = "failed" => ~done.linked
    /\ done.outcome = "interrupted" => done.interrupted
    /\ output.partial # Nothing /\ output.partial = own.id => done.warned \/ done.interrupted
=============================================================================
