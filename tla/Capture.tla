------------------------------- MODULE Capture -------------------------------
(***************************************************************************)
(* The capture of a repository that its users keep changing.  Neither      *)
(* users nor Git take PatchHarbor's locks, and every Git query and every   *)
(* file read sees another moment.  repository_state.py reads everything    *)
(* twice and compares; result_bundle_capture.py does so before and after   *)
(* it reads the patches of a Result Bundle.                                *)
(***************************************************************************)
EXTENDS Snapshots, Sequences, FiniteSetsExt

CONSTANTS
  MaxChanges,  \* bound: changes to the repository during one capture
  Starts,      \* repositories a capture may start from
  Files,       \* files a user may write at each path, special ones included
  Kinds,       \* captures to make: "live" (with a bundle) and "readonly"
  Nested,      \* ignored paths that are alone in an ignored directory
  Empty        \* the empty file

ASSUME CaptureAssumption ==
  /\ MaxChanges \in Nat /\ Kinds \subseteq {"live", "readonly"}
  /\ \A p \in Paths : Files[p] \subseteq FileStates
  /\ Starts \subseteq Repositories /\ \A r \in Starts : StatIsTrue(r)
  /\ Nested \subseteq Ignored /\ Empty \in Blobs

VARIABLES
  repo,    \* the repository now
  past,    \* what it was before each change since the capture began
  kind,    \* which capture
  pc,
  turn,
  scan,    \* what one query has left for the next
  got,     \* the snapshot being read
  first,   \* the first snapshot of a pair
  before,  \* the snapshot accepted before the patches were read
  patches  \* staged and unstaged patch

vars == <<repo, past, kind, pc, turn, scan, got, first, before, patches>>
capture == <<kind, pc, turn, scan, got, first, before, patches>>

NoFiles == [p \in {} |-> Nothing]
Put(t, p, x) == [q \in DOMAIN t \cup {p} |-> IF q = p THEN x ELSE t[q]]
Blank == [head |-> Nothing, staged |-> NoFiles, unstaged |-> NoFiles,
          untracked |-> NoFiles, candidates |-> NoFiles, listed |-> {}]
Idle == [visible |-> NoFiles, pruned |-> {}, unseen |-> {}, special |-> {}, entries |-> NoFiles]
Snapshot(g) == [head |-> g.head, staged |-> g.staged, unstaged |-> g.unstaged,
                untracked |-> g.untracked]

Init ==
  /\ repo \in Starts /\ past = <<>>
  /\ kind \in Kinds
  /\ pc = "head" /\ turn = 1
  /\ scan = Idle /\ got = Blank /\ first = Blank /\ before = Blank
  /\ patches = [staged |-> NoFiles, unstaged |-> NoFiles]

(***************************************************************************)
(* The capture, one query or one look at one path at a time.               *)
(***************************************************************************)
Step(from, to) == pc = from /\ pc' = to

Reading == UNCHANGED <<repo, past, kind, turn, first, before, patches>>

Refuse(from) == Step(from, "refused") /\ Reading /\ UNCHANGED <<scan, got>>

\* A query whose answer only decides whether the capture goes on.
Require(from, to, answer) ==
  \/ answer /\ Step(from, to) /\ Reading /\ UNCHANGED <<scan, got>>
  \/ ~answer /\ Refuse(from)

Flagged(flag) == {p \in Tracked(repo) : repo.index[p].flag = flag}

ReadHead ==
  /\ Step("head", "unmerged")
  /\ got' = [Blank EXCEPT !.head = repo.head]
  /\ Reading /\ UNCHANGED scan

RequireMerged == Require("unmerged", "flags", Flagged("unmerged") = {})

\* ls-files -v
RequireSupportedIndexFlags == Require("flags", "visible", Flagged("hidden") = {})

\* Two views of the index, each against HEAD as it is at that query.
DiffVisible(r) == Differences(r.head, [p \in Paths |-> Visible(r.index[p])])
DiffInvisible(r) == Differences(r.head, [p \in Paths |-> Invisible(r.index[p])])

ReadVisible ==
  /\ Step("visible", "invisible")
  /\ scan' = [scan EXCEPT !.visible = DiffVisible(repo)]
  /\ Reading /\ UNCHANGED got

RequireSameInvisible ==
  \/ /\ DiffInvisible(repo) = scan.visible /\ Step("invisible", "sparse_checkout")
     /\ scan' = Idle
     /\ Reading /\ UNCHANGED got
  \/ DiffInvisible(repo) # scan.visible /\ Refuse("invisible")

RequireNoSparseMode ==
  \/ Require("sparse_checkout", "sparse_index", "checkout" \notin repo.sparse)
  \/ Require("sparse_index", "ignored", "index" \notin repo.sparse)

Present == {p \in Paths : repo.work[p] # Nothing}

ReadIgnoredDirectories ==
  /\ Step("ignored", "walk")
  /\ scan' = [Idle EXCEPT !.pruned = (Nested \cap Present) \ Tracked(repo)]
  /\ Reading /\ UNCHANGED got

\* Without special paths there is nothing to ask check-ignore.
AfterLooks(unseen, special) ==
  IF unseen # {} THEN "looks" ELSE IF special # {} THEN "check_ignore" ELSE "untracked"

\* The listing of the working tree, then a look at each path that it names.
ListWorkingTree ==
  /\ Step("walk", AfterLooks(Present \ scan.pruned, {}))
  /\ scan' = [Idle EXCEPT !.unseen = Present \ scan.pruned]
  /\ Reading /\ UNCHANGED got

\* A path that has vanished is no regular file either.
LookAtPath ==
  /\ scan.unseen # {}
  /\ LET p == Min(scan.unseen)
         odd == repo.work[p] = Nothing \/ IsSpecial(repo.work[p])
         special == IF odd THEN scan.special \cup {p} ELSE scan.special
     IN  /\ Step("looks", AfterLooks(scan.unseen \ {p}, special))
         /\ scan' = [scan EXCEPT !.unseen = @ \ {p}, !.special = special]
         /\ Reading /\ UNCHANGED got

RequireIgnored ==
  \/ /\ scan.special \subseteq Ignored \ Tracked(repo) /\ Step("check_ignore", "untracked")
     /\ scan' = Idle
     /\ Reading /\ UNCHANGED got
  \/ ~(scan.special \subseteq Ignored \ Tracked(repo)) /\ Refuse("check_ignore")

ReadUntrackedPaths ==
  /\ Step("untracked", "names")
  /\ got' = [got EXCEPT !.listed = UntrackedPaths(repo)]
  /\ Reading /\ UNCHANGED scan

\* ls-files --cached names an unmerged path more than once.
ReadIndexPaths == Require("names", "staged", Flagged("unmerged") = {})

\* ls-files --stage shows other stages, but not the flags of an entry.
ReadStaged ==
  \/ /\ Flagged("unmerged") = {} /\ Step("staged", "unstaged")
     /\ got' = [got EXCEPT !.staged = Differences(got.head, IndexTree(repo))]
     /\ Reading /\ UNCHANGED scan
  \/ Flagged("unmerged") # {} /\ Refuse("staged")

Candidate(entry, f) == [entry |-> entry, deleted |-> f = Nothing]

\* diff-files, in one query; only statuses M and D are accepted.
OddCandidate ==
  \E p \in DiffFiles(repo) : IsSpecial(repo.work[p]) \/ repo.index[p].flag # "plain"

ReadCandidates ==
  /\ kind # "readonly"
  /\ \/ /\ ~OddCandidate /\ Step("unstaged", "files")
        /\ got' = [got EXCEPT !.candidates =
             [p \in DiffFiles(repo) |-> Candidate(Plain(repo.index[p]), repo.work[p])]]
        /\ Reading /\ UNCHANGED scan
     \/ OddCandidate /\ Refuse("unstaged")

AfterKinds(entries) == IF DOMAIN entries = {} THEN "files" ELSE "kinds"

\* Read-only captures list the index and then look at each path by itself.
ListIndex ==
  /\ kind = "readonly"
  /\ LET entries == [p \in Tracked(repo) |-> Plain(repo.index[p])]
     IN  \/ /\ Flagged("unmerged") = {} /\ Step("unstaged", AfterKinds(entries))
            /\ scan' = [scan EXCEPT !.entries = entries]
            /\ Reading /\ UNCHANGED got
         \/ Flagged("unmerged") # {} /\ Refuse("unstaged")

Without(t, p) == [q \in DOMAIN t \ {p} |-> t[q]]

LookAtEntry ==
  /\ DOMAIN scan.entries # {}
  /\ LET p == Min(DOMAIN scan.entries)
         f == repo.work[p]
         rest == Without(scan.entries, p)
     IN  \/ /\ ~IsSpecial(f) /\ Step("kinds", AfterKinds(rest))
            /\ scan' = [scan EXCEPT !.entries = rest]
            /\ got' = [got EXCEPT !.candidates = Put(@, p, Candidate(scan.entries[p], f))]
            /\ Reading
         \/ IsSpecial(f) /\ Refuse("kinds")

\* The next candidate is read again, by itself.
ReadCandidate ==
  /\ DOMAIN got.candidates # {}
  /\ LET p == Min(DOMAIN got.candidates)
         c == got.candidates[p]
         f == repo.work[p]
         rest == Without(got.candidates, p)
         more == IF IsUnchanged(c.entry, f) THEN got.unstaged
                 ELSE Put(got.unstaged, p, UnstagedRecord(c.entry, f))
     IN  \/ /\ ~IsSpecial(f) /\ (f = Nothing) = c.deleted
            /\ Step("files", "files")
            /\ got' = [got EXCEPT !.candidates = rest, !.unstaged = more]
            /\ Reading /\ UNCHANGED scan
         \/ (IsSpecial(f) \/ (f = Nothing) # c.deleted) /\ Refuse("files")

Undecided == kind = "readonly" /\ Ambiguous(got.unstaged)

RequireNoContentConversion ==
  DOMAIN got.candidates = {} /\ Undecided /\ Refuse("files")

ReadUntracked ==
  /\ DOMAIN got.candidates = {} /\ ~Undecided /\ got.listed # {}
  /\ LET p == Min(got.listed)
         f == repo.work[p]
     IN  \/ /\ f # Nothing /\ ~IsSpecial(f) /\ Step("files", "files")
            /\ got' = [got EXCEPT !.listed = @ \ {p}, !.untracked = Put(@, p, f)]
            /\ Reading /\ UNCHANGED scan
         \/ (f = Nothing \/ IsSpecial(f)) /\ Refuse("files")

\* capture_consistent_repository_snapshot: the second snapshot equals the first.
AgreesOnBase == got.head = first.head
Agrees == got = first

\* capture_result_bundle: neither the snapshot nor its context has changed.
SameContext == Context(got) = Context(before)
SameBase == got.head = before.head
SameAsBefore == got = before /\ SameContext

Complete == pc = "files" /\ DOMAIN got.candidates = {} /\ ~Undecided /\ got.listed = {}

FirstOfPair ==
  /\ Complete /\ turn \in {1, 3}
  /\ pc' = "head" /\ turn' = turn + 1 /\ first' = got
  /\ UNCHANGED <<repo, past, kind, scan, got, before, patches>>

SecondOfPair ==
  /\ Complete /\ turn \in {2, 4}
  /\ pc' = IF ~Agrees \/ (turn = 4 /\ ~SameAsBefore) THEN "refused"
           ELSE IF turn = 2 /\ kind = "live" THEN "staged_patch" ELSE "accepted"
  /\ before' = IF turn = 2 THEN got ELSE before
  /\ UNCHANGED <<repo, past, kind, turn, scan, got, first, patches>>

ReadStagedPatch ==
  /\ Step("staged_patch", "unstaged_patch")
  /\ patches' = [patches EXCEPT !.staged = Differences(before.head, IndexTree(repo))]
  /\ UNCHANGED <<repo, past, kind, turn, scan, got, first, before>>

ReadUnstagedPatch ==
  /\ Step("unstaged_patch", "head") /\ turn' = 3
  /\ patches' = [patches EXCEPT !.unstaged = Differences(IndexTree(repo), WorkTree(repo))]
  /\ UNCHANGED <<repo, past, kind, scan, got, first, before>>

\* The files of the base commit, whose objects never change.
BaseEntries == before.head

Bundle ==
  [base |-> BaseEntries, staged |-> patches.staged, unstaged |-> patches.unstaged,
   untracked |-> before.untracked, dirty |-> Context(before).dirty]

(***************************************************************************)
(* Users and Git, at any moment of the capture.                            *)
(***************************************************************************)
Change(r) ==
  /\ pc \notin {"accepted", "refused"}
  /\ Len(past) < MaxChanges
  /\ r # repo
  /\ repo' = r /\ past' = Append(past, repo)
  /\ UNCHANGED capture

Edit(p, f) ==
  f # repo.work[p] /\ Change([repo EXCEPT !.work[p] = f, !.touched = @ \cup ({p} \cap Tracked(repo))])

Touch(p) == p \in Tracked(repo) /\ Change([repo EXCEPT !.touched = @ \cup {p}])

\* git add, git rm --cached
Stage(p) ==
  LET f == repo.work[p]
  IN  /\ ~IsSpecial(f)
      /\ Change([repo EXCEPT !.touched = @ \ {p},
           !.index[p] = IF f = Nothing THEN Nothing
                        ELSE [mode |-> f.mode, blob |-> Cleaned(p, f).blob, flag |-> "plain"]])

Commit == SupportedIndex(repo) /\ Change([repo EXCEPT !.head = IndexTree(repo)])

\* update-index --skip-worktree, a merge conflict, and their ends
Mark(p, flag) == p \in Tracked(repo) /\ Change([repo EXCEPT !.index[p].flag = flag])

IntentToAdd(p) ==
  LET f == repo.work[p]
  IN  /\ p \notin Tracked(repo) /\ f # Nothing /\ ~IsSpecial(f)
      /\ Change([repo EXCEPT !.touched = @ \cup {p},
           !.index[p] = [mode |-> f.mode, blob |-> Empty, flag |-> "added"]])

Sparse(mode) == Change([repo EXCEPT !.sparse = (@ \cup {mode}) \ (@ \cap {mode})])

Environment ==
  \/ \E p \in Paths : \/ \E f \in Files[p] \cup {Nothing} : Edit(p, f)
                      \/ Touch(p) \/ Stage(p) \/ IntentToAdd(p)
                      \/ \E flag \in Flags \ {"added"} : Mark(p, flag)
  \/ Commit
  \/ \E mode \in SparseModes : Sparse(mode)

Supporting ==
  \/ RequireMerged \/ RequireSupportedIndexFlags \/ ReadVisible \/ RequireSameInvisible
  \/ RequireNoSparseMode
  \/ ReadIgnoredDirectories \/ ListWorkingTree \/ LookAtPath \/ RequireIgnored

Capturing ==
  \/ ReadHead \/ Supporting \/ ReadUntrackedPaths \/ ReadIndexPaths \/ ReadStaged
  \/ ReadCandidates \/ ListIndex \/ LookAtEntry
  \/ ReadCandidate \/ RequireNoContentConversion \/ ReadUntracked
  \/ FirstOfPair \/ SecondOfPair \/ ReadStagedPatch \/ ReadUnstagedPatch

Next == Capturing \/ Environment

Spec == Init /\ [][Next]_vars

(***************************************************************************)
(* What an accepted capture says.                                          *)
(***************************************************************************)
History == Append(past, repo)

\* Something came back to a value it had before, or a file to having a record or
\* none: reading twice cannot tell.
Returned ==
  LET back(Part(_)) ==
        \E i, j, k \in DOMAIN History :
           /\ i < j /\ j < k
           /\ Part(History[i]) = Part(History[k]) /\ Part(History[i]) # Part(History[j])
  IN  \/ back(LAMBDA r : r.head)
      \/ \E mode \in SparseModes : back(LAMBDA r : mode \in r.sparse)
      \/ \E p \in Paths : \/ back(LAMBDA r : r.index[p]) \/ back(LAMBDA r : Plain(r.index[p]))
                          \/ back(LAMBDA r : r.work[p])
                          \/ back(LAMBDA r : p \in r.touched) \/ back(LAMBDA r : p \in Recorded(r))

WasDescribed(g) ==
  \E i \in DOMAIN History : Supported(History[i]) /\ Snapshot(g) = Describe(History[i])

IndexQuiet == \A i \in DOMAIN History : History[i].index = repo.index

\* A context that is handed out (normal or read-only) describes the repository
\* completely as it was at one moment of the capture, provided nothing came back
\* to an earlier value and nobody staged meanwhile: two equal readings of HEAD,
\* index, candidates and files leave no mixture of two states.
ContextIsReal ==
  (\/ pc = "staged_patch" \/ (pc = "accepted" /\ kind = "readonly"))
    /\ ~Returned /\ IndexQuiet
  => WasDescribed(got)

\* A Result Bundle that is captured was the repository at one moment, staging
\* included: its context is that state, and base, patches and untracked files
\* rebuild exactly the index and files Git showed then.
BundleIsReal ==
  pc = "accepted" /\ kind = "live" /\ ~Returned =>
    \E i \in DOMAIN History :
       LET r == History[i]
       IN  /\ Supported(r) /\ Snapshot(before) = Describe(r)
           /\ Rebuilds(Bundle)
           /\ IndexLayer(Bundle) = IndexTree(r) /\ WorktreeLayer(Bundle) = WorkTree(r)
           /\ \/ DirtyAgrees(Bundle)
              \/ \E p \in Converted \cap r.touched : r.work[p] # WorkTree(r)[p]
=============================================================================
