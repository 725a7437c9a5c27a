------------------------------ MODULE Snapshots ------------------------------
(***************************************************************************)
(* What Git shows of a repository, the records PatchHarbor makes of it     *)
(* (git_capture.py), the two patches a Result Bundle carries               *)
(* (git_patches.py) and what a reader rebuilds from them                   *)
(* (snapshot_delta.py, result_snapshot.py).  Operators only, no state.     *)
(*                                                                         *)
(* A repository is a record: the tree HEAD names, the index, the working   *)
(* files, the paths whose stat data no longer match the index (`touched')  *)
(* and the sparse modes configured.  A commit is its tree, a blob its      *)
(* content.  core.fileMode is true.                                        *)
(***************************************************************************)
EXTENDS Integers, FiniteSets

CONSTANTS
  Paths,      \* portable repository paths, numbered in byte order
  Blobs,      \* file contents
  Nothing,    \* no entry at a path
  Ignored,    \* paths the exclude rules ignore while they are untracked
  Converted,  \* paths Git converts when it compares file and index
  Clean       \* that conversion

ASSUME SnapshotsAssumption ==
  /\ Paths \subseteq Nat /\ Ignored \subseteq Paths /\ Converted \subseteq Paths
  /\ Clean \in [Blobs -> Blobs]
  /\ \A b \in Blobs : Clean[Clean[b]] = Clean[b]

Modes == {"100644", "100755"}
Flags == {"plain", "hidden", "added", "unmerged"}
SparseModes == {"checkout", "index"}

Entries == [mode : Modes, blob : Blobs] \cup {Nothing}
IndexEntries == [mode : Modes, blob : Blobs, flag : Flags] \cup {Nothing}
FileStates == [mode : Modes \cup {"special"}, blob : Blobs] \cup {Nothing}

Trees == [Paths -> Entries]

Repositories ==
  [head    : Trees,
   index   : [Paths -> IndexEntries],
   work    : [Paths -> FileStates],
   touched : SUBSET Paths,
   sparse  : SUBSET SparseModes]

ASSUME NothingIsApart ==
  /\ Nothing \notin [mode : Modes \cup {"special"}, blob : Blobs]
  /\ Nothing \notin [mode : Modes, blob : Blobs, flag : Flags]

(***************************************************************************)
(* Git's own answers.                                                      *)
(***************************************************************************)
Plain(e) == IF e = Nothing THEN Nothing ELSE [mode |-> e.mode, blob |-> e.blob]

Tracked(r) == {p \in Paths : r.index[p] # Nothing}

IndexTree(r) == [p \in Paths |-> Plain(r.index[p])]

Cleaned(p, f) == [mode |-> f.mode, blob |-> IF p \in Converted THEN Clean[f.blob] ELSE f.blob]

\* The tracked files as `git diff' sees them: it reads those that are touched.
WorkTree(r) ==
  [p \in Paths |->
     IF p \notin Tracked(r) \/ r.work[p] = Nothing THEN Nothing
     ELSE IF r.index[p].flag = "hidden" \/ p \notin r.touched THEN Plain(r.index[p])
     ELSE Cleaned(p, r.work[p])]

\* ls-files --others --exclude-standard
UntrackedPaths(r) ==
  {p \in Paths \ (Ignored \cup Tracked(r)) : r.work[p] # Nothing}

\* diff-files: what has other stat data, whether or not it differs.
DiffFiles(r) ==
  {p \in Tracked(r) :
     /\ r.index[p].flag # "hidden"
     /\ r.index[p].flag # "plain" \/ p \in r.touched \/ r.work[p] = Nothing}

\* What Git relies on: a file whose stat data match is what its index entry was
\* made from, or was checked out from it.
StatIsTrue(r) ==
  \A p \in Tracked(r) \ r.touched :
     \/ r.work[p] = Plain(r.index[p])
     \/ p \in Converted /\ r.work[p] # Nothing /\ r.work[p].mode = r.index[p].mode

\* An index entry in `diff --cached', with and without --ita-visible-in-index; an
\* unmerged one has no content there.
Visible(e) == IF e # Nothing /\ e.flag = "unmerged" THEN [flag |-> e.flag] ELSE Plain(e)
Invisible(e) == IF e # Nothing /\ e.flag = "added" THEN Nothing ELSE Visible(e)

(***************************************************************************)
(* States that PatchHarbor describes at all.                               *)
(***************************************************************************)
SupportedIndex(r) ==
  /\ r.sparse = {}
  /\ \A p \in Tracked(r) : r.index[p].flag = "plain"

IsSpecial(f) == f # Nothing /\ f.mode = "special"

\* check-ignore never answers for a tracked path.
SpecialWorktreePaths(r) ==
  {p \in Paths : IsSpecial(r.work[p])} \ (Ignored \ Tracked(r))

Supported(r) == SupportedIndex(r) /\ SpecialWorktreePaths(r) = {}

(***************************************************************************)
(* Records of differences.                                                 *)
(***************************************************************************)
Differences(old, new) ==
  [p \in {q \in Paths : old[q] # new[q]} |-> [old |-> old[p], new |-> new[p]]]

\* A file that equals its index entry byte for byte leaves no record, whatever
\* made it a candidate.
IsUnchanged(entry, f) == f # Nothing /\ f = Plain(entry)

UnstagedRecord(entry, f) == [index |-> Plain(entry), work |-> f]

Recorded(r) == {p \in DiffFiles(r) : ~IsUnchanged(r.index[p], r.work[p])}

\* The description an undisturbed capture makes of r.
Describe(r) ==
  [head      |-> r.head,
   staged    |-> Differences(r.head, IndexTree(r)),
   unstaged  |-> [p \in Recorded(r) |-> UnstagedRecord(r.index[p], r.work[p])],
   untracked |-> [p \in UntrackedPaths(r) |-> r.work[p]]]

\* The fingerprint of the state beside its base commit: every record with every
\* field and every count goes into it, framed, so that no two states share it.
Fingerprint(s) == <<s.staged, s.unstaged, s.untracked>>

\* RepositoryState.dirty
Dirty(s) == DOMAIN s.staged \cup DOMAIN s.unstaged \cup DOMAIN s.untracked # {}

Context(s) == [base |-> s.head, dirty |-> Dirty(s), fingerprint |-> Fingerprint(s)]

\* Read-only capture gives up where a conversion could explain a raw difference.
Ambiguous(unstaged) ==
  \E p \in DOMAIN unstaged \cap Converted :
     /\ unstaged[p].work # Nothing
     /\ unstaged[p].work.blob # unstaged[p].index.blob

(***************************************************************************)
(* The reader: layers rebuilt from base, patches and untracked files.      *)
(***************************************************************************)
PatchFits(layer, patch) == \A p \in DOMAIN patch : patch[p].old = layer[p]

ApplyPatch(layer, patch) ==
  [p \in Paths |-> IF p \in DOMAIN patch THEN patch[p].new ELSE layer[p]]

IndexLayer(b) == ApplyPatch(b.base, b.staged)
WorktreeLayer(b) == ApplyPatch(IndexLayer(b), b.unstaged)

HasChanges(b) == DOMAIN b.staged \cup DOMAIN b.unstaged \cup DOMAIN b.untracked # {}

\* Every layer can be rebuilt and no untracked file hides a tracked one.
Rebuilds(b) ==
  /\ PatchFits(b.base, b.staged)
  /\ PatchFits(IndexLayer(b), b.unstaged)
  /\ \A p \in DOMAIN b.untracked : IndexLayer(b)[p] = Nothing /\ WorktreeLayer(b)[p] = Nothing

\* _require(context["dirty"] == has_changes)
DirtyAgrees(b) == b.dirty = HasChanges(b)
=============================================================================
