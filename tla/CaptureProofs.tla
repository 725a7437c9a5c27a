---------------------------- MODULE CaptureProofs ----------------------------
(***************************************************************************)
(* What an accepted capture says, for any repository, any files and any    *)
(* number of changes by users and Git: two equal readings enclose a moment *)
(* the repository was exactly as they say.                                 *)
(***************************************************************************)
EXTENDS Capture, WellFoundedInduction, TLAPS

Now == Len(past) + 1

\* The places of a reading that lie behind each of its queries.
AfterStaged == {"unstaged", "kinds", "files"}
AfterUntracked == AfterStaged \cup {"names", "staged"}
AfterSparse == AfterUntracked \cup {"ignored", "walk", "looks", "check_ignore", "untracked"}
AfterCheckout == AfterSparse \cup {"sparse_index"}
AfterInvisible == AfterCheckout \cup {"sparse_checkout"}
AfterVisible == AfterInvisible \cup {"invisible"}
AfterFlags == AfterVisible \cup {"visible"}
AfterUnmerged == AfterFlags \cup {"flags"}
AfterHead == AfterUnmerged \cup {"unmerged"}
Reads == AfterHead \cup {"head"}

\* A reading as its fields.
Over(f, R) == DOMAIN f \subseteq Paths /\ f \in [DOMAIN f -> R]

IsReading(g) ==
  /\ g = [head |-> g.head, staged |-> g.staged, unstaged |-> g.unstaged,
          untracked |-> g.untracked, candidates |-> g.candidates, listed |-> g.listed]
  /\ g.listed \subseteq Paths
  /\ Over(g.staged, [old : Entries, new : Entries])
  /\ Over(g.unstaged, [index : Entries, work : FileStates])
  /\ Over(g.untracked, [mode : Modes, blob : Blobs])
  /\ Over(g.candidates, [entry : Entries, deleted : BOOLEAN])

IsScan(sc) ==
  /\ sc = [visible |-> sc.visible, pruned |-> sc.pruned, unseen |-> sc.unseen,
           special |-> sc.special, entries |-> sc.entries]
  /\ sc.unseen \subseteq Paths
  /\ Over(sc.entries, Entries)

TypeOK ==
  /\ repo \in Repositories /\ StatIsTrue(repo)
  /\ past \in Seq(Repositories) /\ \A i \in 1..Len(past) : StatIsTrue(past[i])
  /\ kind \in {"live", "readonly"} /\ turn \in 1..4
  /\ pc \in Reads \cup {"staged_patch", "unstaged_patch", "accepted", "refused"}
  /\ IsScan(scan)
  /\ IsReading(got) /\ IsReading(first) /\ IsReading(before)
  /\ patches = [staged |-> patches.staged, unstaged |-> patches.unstaged]

(***************************************************************************)
(* What a reading g, with sc left for its next query, has seen of the      *)
(* history h when it is at w and began at a: each query of it at a moment  *)
(* t of its own until b, and each file at one of the moments after.        *)
(***************************************************************************)
Moments(a, b) ==
  [head : a..b, unmerged : a..b, flags : a..b, visible : a..b, invisible : a..b,
   untracked : a..b, staged : a..b, candidates : a..b]

NoFlag(r, flag) == \A p \in Tracked(r) : r.index[p].flag # flag

\* The file was f at a moment from x to b.
WasAt(h, p, f, x, b) == \E i \in x..b : h[i].work[p] = f

SawUntracked(h, g, n, b) ==
  /\ g.listed \cup DOMAIN g.untracked = UntrackedPaths(h[n])
  /\ \A p \in DOMAIN g.untracked : WasAt(h, p, g.untracked[p], n, b)

\* The entries a read-only capture listed at c, looked at or not.
SawKind(h, g, es, p, c) ==
  /\ p \in DOMAIN es => p \in Tracked(h[c]) /\ es[p] = Plain(h[c].index[p])
  /\ p \in DOMAIN g.candidates => p \in Tracked(h[c]) /\ g.candidates[p].entry = Plain(h[c].index[p])
  /\ p \in Tracked(h[c]) => p \in DOMAIN es \cup DOMAIN g.candidates

Chosen(k, r) == IF k = "readonly" THEN Tracked(r) ELSE DiffFiles(r)

\* A file chosen at c: to be read, read with a difference, or read without one.
SawFile(h, k, g, p, c, b) ==
  /\ p \in DOMAIN g.candidates =>
       /\ p \in Chosen(k, h[c]) /\ g.candidates[p].entry = Plain(h[c].index[p])
       /\ k = "live" => (g.candidates[p].deleted <=> h[c].work[p] = Nothing)
  /\ p \in DOMAIN g.unstaged =>
       /\ p \in Chosen(k, h[c]) /\ g.unstaged[p].index = Plain(h[c].index[p])
       /\ g.unstaged[p].work # Plain(h[c].index[p]) /\ ~IsSpecial(g.unstaged[p].work)
       /\ WasAt(h, p, g.unstaged[p].work, c, b)
       /\ k = "live" => (g.unstaged[p].work = Nothing <=> h[c].work[p] = Nothing)
  /\ p \in Chosen(k, h[c]) \ (DOMAIN g.candidates \cup DOMAIN g.unstaged) =>
       WasAt(h, p, Plain(h[c].index[p]), c, b)

SawFiles(h, k, g, c, b) ==
  /\ k = "live" => \A p \in DiffFiles(h[c]) : h[c].index[p].flag = "plain"
  /\ \A p \in Paths : SawFile(h, k, g, p, c, b)

\* Nothing is in the reading before it has been read.
Unread(g, w) ==
  /\ w \in Reads \ {"head", "files"} => DOMAIN g.unstaged = {} /\ DOMAIN g.untracked = {}
  /\ w \in Reads \ {"head", "kinds", "files"} => DOMAIN g.candidates = {}

\* The queries about the index and HEAD.
SawIndex(h, g, sc, w, t) ==
  /\ w \in AfterHead => g.head \in Trees /\ h[t.head].head = g.head
  /\ w \in AfterUnmerged => NoFlag(h[t.unmerged], "unmerged")
  /\ w \in AfterFlags => NoFlag(h[t.flags], "hidden") /\ t.unmerged <= t.flags
  /\ w \in AfterVisible => t.head <= t.visible
  /\ w = "invisible" => sc.visible = DiffVisible(h[t.visible])
  /\ w \in AfterInvisible =>
       t.head <= t.invisible /\ DiffInvisible(h[t.invisible]) = DiffVisible(h[t.visible])
  /\ w \in AfterStaged =>
       /\ g.staged = Differences(g.head, IndexTree(h[t.staged]))
       /\ NoFlag(h[t.staged], "unmerged") /\ t.flags <= t.staged

SawSparse(h, w, a, b) ==
  /\ w \in AfterCheckout => \E i \in a..b : "checkout" \notin h[i].sparse
  /\ w \in AfterSparse => \E i \in a..b : "index" \notin h[i].sparse

\* The queries and looks about files.
SawTree(h, k, g, sc, w, t, b) ==
  /\ w \in AfterUntracked => SawUntracked(h, g, t.untracked, b)
  /\ w \in {"kinds", "files"} => t.staged <= t.candidates
  /\ w = "kinds" => k = "readonly" /\ \A p \in Paths : SawKind(h, g, sc.entries, p, t.candidates)
  /\ w = "files" => SawFiles(h, k, g, t.candidates, b)

Saw(h, k, g, sc, w, t, a, b) ==
  /\ SawIndex(h, g, sc, w, t) /\ SawSparse(h, w, a, b) /\ SawTree(h, k, g, sc, w, t, b)
  /\ Unread(g, w)

Seen(h, k, g, sc, w, a, b) == \E t \in Moments(a, b) : Saw(h, k, g, sc, w, t, a, b)

\* A reading that is complete.
Full(h, k, g, a, b) ==
  /\ IsReading(g) /\ Seen(h, k, g, Idle, "files", a, b)
  /\ DOMAIN g.candidates = {} /\ g.listed = {} /\ ~(k = "readonly" /\ Ambiguous(g.unstaged))

\* What the index holds does not change, whatever flags do.
Steady(h, a, b) == \A i \in a..b : IndexTree(h[i]) = IndexTree(h[b])

Reals(h, a, b) ==
  /\ a \in Nat \ {0} /\ b \in Nat /\ a <= b
  /\ \A i \in a..b : h[i] \in Repositories /\ StatIsTrue(h[i])

-----------------------------------------------------------------------------
LEMMA MinOf == ASSUME NEW S, S \subseteq Nat, S # {} PROVE Min(S) \in S
<1>1. PICK x \in S : \A y \in S : ~(<<y, x>> \in OpToRel(<, Nat))
  BY WFMin, NatLessThanWellFounded, Zenon
<1>2. \A y \in S : ~(y < x)
  <2>1. \A y \in Nat, z \in Nat : y < z => <<y, z>> \in {ss \in Nat \X Nat : ss[1] < ss[2]}
    OBVIOUS
  <2>2. \A y \in Nat, z \in Nat : y < z => <<y, z>> \in OpToRel(<, Nat)
    BY <2>1, Zenon DEF OpToRel
  <2> QED BY <1>1, <2>2
<1>3. \A y \in S : x <= y
  BY <1>2
<1> QED BY <1>3 DEF Min

-----------------------------------------------------------------------------
(* The history.                                                             *)

LEMMA HistoryIs ==
  ASSUME past \in Seq(Repositories), repo \in Repositories
  PROVE  /\ Now \in Nat \ {0} /\ DOMAIN History = 1..Now /\ History[Now] = repo
         /\ \A i \in 1..Now : History[i] \in Repositories
         /\ \A i \in 1..Len(past) : History[i] = past[i]
BY DEF History, Now

LEMMA HistoryRests ==
  ASSUME UNCHANGED <<past, repo>>
  PROVE  Now' = Now /\ History' = History
BY DEF History, Now

LEMMA HistoryGrows ==
  ASSUME past \in Seq(Repositories), repo \in Repositories, repo' \in Repositories,
         past' = Append(past, repo)
  PROVE  /\ past' \in Seq(Repositories) /\ Now' = Now + 1
         /\ \A i \in 1..Now : History'[i] = History[i]
         /\ History'[Now'] = repo'
BY DEF History, Now

\* What did not come back stayed between two moments at which it was the same.
LEMMA Stays ==
  ASSUME ~Returned, NEW i \in DOMAIN History, NEW j \in DOMAIN History, NEW k \in DOMAIN History,
         i <= j, j <= k, DOMAIN History \subseteq Nat
  PROVE  /\ History[i].head = History[k].head => History[j].head = History[k].head
         /\ \A mode \in SparseModes :
              (mode \in History[i].sparse <=> mode \in History[k].sparse) =>
                (mode \in History[j].sparse <=> mode \in History[k].sparse)
         /\ \A p \in Paths :
              /\ History[i].index[p] = History[k].index[p] => History[j].index[p] = History[k].index[p]
              /\ Plain(History[i].index[p]) = Plain(History[k].index[p]) =>
                   Plain(History[j].index[p]) = Plain(History[k].index[p])
              /\ History[i].work[p] = History[k].work[p] => History[j].work[p] = History[k].work[p]
              /\ (p \in History[i].touched <=> p \in History[k].touched) =>
                   (p \in History[j].touched <=> p \in History[k].touched)
              /\ (p \in Recorded(History[i]) <=> p \in Recorded(History[k])) =>
                   (p \in Recorded(History[j]) <=> p \in Recorded(History[k]))
<1>1. i = j \/ j = k \/ (i < j /\ j < k)
  OBVIOUS
<1> QED BY <1>1 DEF Returned

-----------------------------------------------------------------------------
(* Repositories.                                                            *)

LEMMA RepositoryIs ==
  ASSUME NEW r \in Repositories
  PROVE  /\ r.head \in Trees /\ r.index \in [Paths -> IndexEntries] /\ r.work \in [Paths -> FileStates]
         /\ r.touched \subseteq Paths /\ r.sparse \subseteq SparseModes
         /\ \A p \in Paths : r.index[p] \in IndexEntries /\ r.work[p] \in FileStates
BY DEF Repositories

LEMMA PlainIs ==
  ASSUME NEW e \in IndexEntries
  PROVE  /\ Plain(e) \in Entries /\ (Plain(e) = Nothing <=> e = Nothing)
         /\ e # Nothing => /\ Plain(e) = [mode |-> e.mode, blob |-> e.blob]
                           /\ e.mode \in Modes /\ e.blob \in Blobs /\ e.flag \in Flags
                           /\ e = [mode |-> e.mode, blob |-> e.blob, flag |-> e.flag]
<1>1. CASE e = Nothing
  BY <1>1 DEF Plain, Entries, IndexEntries
<1>2. CASE e # Nothing
  <2>1. e \in [mode : Modes, blob : Blobs, flag : Flags]
    BY <1>2 DEF IndexEntries
  <2>2. Plain(e) = [mode |-> e.mode, blob |-> e.blob] /\ Plain(e) \in [mode : Modes \cup {"special"}, blob : Blobs]
    BY <1>2, <2>1 DEF Plain
  <2>3. Plain(e) # Nothing
    BY <2>2, NothingIsApart
  <2> QED BY <1>2, <2>1, <2>2, <2>3 DEF Entries
<1> QED BY <1>1, <1>2

\* The content of an entry and its flag are the entry.
LEMMA EntryIs ==
  ASSUME NEW d \in IndexEntries, NEW e \in IndexEntries, Plain(d) = Plain(e), e # Nothing, d.flag = e.flag
  PROVE  d = e
<1>1. d # Nothing /\ Plain(d) = [mode |-> d.mode, blob |-> d.blob] /\ Plain(e) = [mode |-> e.mode, blob |-> e.blob]
  BY PlainIs
<1>2. [mode |-> d.mode, blob |-> d.blob].mode = [mode |-> e.mode, blob |-> e.blob].mode
      /\ [mode |-> d.mode, blob |-> d.blob].blob = [mode |-> e.mode, blob |-> e.blob].blob
  BY <1>1, Zenon
<1>3. d.mode = e.mode /\ d.blob = e.blob
  BY <1>2
<1>4. d = [mode |-> d.mode, blob |-> d.blob, flag |-> d.flag] /\ e = [mode |-> e.mode, blob |-> e.blob, flag |-> e.flag]
  BY <1>1, PlainIs
<1> QED BY <1>3, <1>4

\* What an index shows is what a reading of its differences shows.
LEMMA IndexReadBack ==
  ASSUME NEW head \in Trees, NEW r \in Repositories
  PROVE  /\ IndexTree(r) \in Trees
         /\ ApplyPatch(head, Differences(head, IndexTree(r))) = IndexTree(r)
<1>1. IndexTree(r) \in Trees
  BY RepositoryIs, PlainIs DEF IndexTree, Trees
<1>2. ASSUME NEW x \in Trees PROVE ApplyPatch(head, Differences(head, x)) = x
  BY DEF ApplyPatch, Differences, Trees
<1> QED BY <1>1, <1>2

\* Differences and records of a tracked file whose entry has no flag.
LEMMA DiffFilesAre ==
  ASSUME NEW r \in Repositories, NEW p \in Paths, p \in Tracked(r) => r.index[p].flag = "plain"
  PROVE  /\ p \in DiffFiles(r) <=> r.index[p] # Nothing /\ (p \in r.touched \/ r.work[p] = Nothing)
         /\ p \in Recorded(r) <=> /\ p \in DiffFiles(r)
                                  /\ r.work[p] = Nothing \/ r.work[p] # Plain(r.index[p])
         /\ p \in Tracked(r) <=> r.index[p] # Nothing
         /\ p \in Tracked(r) => WorkTree(r)[p] = IF r.work[p] = Nothing THEN Nothing
                                                ELSE IF p \notin r.touched THEN Plain(r.index[p])
                                                ELSE Cleaned(p, r.work[p])
BY DEF DiffFiles, Recorded, IsUnchanged, Tracked, WorkTree

\* Where no conversion can explain it, a file that is not its entry has a record.
LEMMA DifferenceIsRecorded ==
  ASSUME NEW r \in Repositories, StatIsTrue(r), NEW p \in Tracked(r), r.index[p].flag = "plain",
         r.work[p] # Plain(r.index[p]),
         \/ p \notin Converted \/ r.work[p] = Nothing
         \/ r.work[p].blob = r.index[p].blob \/ r.work[p].mode # r.index[p].mode
  PROVE  p \in Recorded(r)
<1>1. p \in Paths /\ r.index[p] # Nothing
  BY DEF Tracked
<1>2. Plain(r.index[p]) = [mode |-> r.index[p].mode, blob |-> r.index[p].blob] /\ r.work[p] \in FileStates
  BY <1>1, RepositoryIs, PlainIs
<1>3. p \in r.touched \/ r.work[p] = Nothing
  <2> SUFFICES ASSUME p \notin r.touched, r.work[p] # Nothing PROVE FALSE
    OBVIOUS
  <2>1. p \in Converted /\ r.work[p].mode = r.index[p].mode
    BY DEF StatIsTrue
  <2>2. r.work[p] = [mode |-> r.work[p].mode, blob |-> r.work[p].blob]
    BY <1>2 DEF FileStates
  <2> QED BY <1>2, <2>1, <2>2
<1> QED BY <1>1, <1>3, DiffFilesAre

\* A tracked file PatchHarbor cannot describe has a record.
LEMMA SpecialIsRecorded ==
  ASSUME NEW r \in Repositories, StatIsTrue(r), NEW p \in Tracked(r), r.index[p].flag = "plain",
         IsSpecial(r.work[p])
  PROVE  p \in Recorded(r)
<1>1. p \in Paths /\ r.index[p] # Nothing /\ r.work[p].mode = "special"
  BY DEF Tracked, IsSpecial
<1>2. Plain(r.index[p]) = [mode |-> r.index[p].mode, blob |-> r.index[p].blob] /\ r.index[p].mode # "special"
  BY <1>1, RepositoryIs, PlainIs DEF Modes
<1>3. Plain(r.index[p]).mode # "special"
  BY <1>2
<1> QED BY <1>1, <1>2, <1>3, DifferenceIsRecorded

-----------------------------------------------------------------------------
(* Two readings enclose a moment.                                           *)

NoReturn(h) ==
  \A i, j, k \in DOMAIN h : i <= j /\ j <= k =>
    /\ h[i].head = h[k].head => h[j].head = h[k].head
    /\ \A mode \in SparseModes :
         (mode \in h[i].sparse <=> mode \in h[k].sparse) => (mode \in h[j].sparse <=> mode \in h[k].sparse)
    /\ \A p \in Paths :
         /\ h[i].index[p] = h[k].index[p] => h[j].index[p] = h[k].index[p]
         /\ Plain(h[i].index[p]) = Plain(h[k].index[p]) => Plain(h[j].index[p]) = Plain(h[k].index[p])
         /\ h[i].work[p] = h[k].work[p] => h[j].work[p] = h[k].work[p]
         /\ (p \in h[i].touched <=> p \in h[k].touched) => (p \in h[j].touched <=> p \in h[k].touched)
         /\ (p \in Recorded(h[i]) <=> p \in Recorded(h[k])) =>
              (p \in Recorded(h[j]) <=> p \in Recorded(h[k]))

LEMMA SteadyIs ==
  ASSUME NEW h, NEW a, NEW b, Reals(h, a, b), Steady(h, a, b), NEW i \in a..b
  PROVE  /\ Tracked(h[i]) = Tracked(h[b])
         /\ \A p \in Paths : Plain(h[i].index[p]) = Plain(h[b].index[p])
<1>1. b \in a..b /\ h[i] \in Repositories /\ h[b] \in Repositories /\ IndexTree(h[i]) = IndexTree(h[b])
  BY DEF Reals, Steady
<1>2. ASSUME NEW p \in Paths PROVE Plain(h[i].index[p]) = Plain(h[b].index[p])
  <2>1. IndexTree(h[i])[p] = Plain(h[i].index[p]) /\ IndexTree(h[b])[p] = Plain(h[b].index[p])
    BY DEF IndexTree
  <2> QED BY <1>1, <2>1
<1>3. ASSUME NEW p \in Paths PROVE h[i].index[p] = Nothing <=> h[b].index[p] = Nothing
  BY <1>1, <1>2, RepositoryIs, PlainIs
<1> QED BY <1>2, <1>3 DEF Tracked

\* The files a complete reading has seen, with the moment of its candidates.
LEMMA FullFiles ==
  ASSUME NEW h, NEW k, NEW g, NEW a, NEW b, Reals(h, a, b), Full(h, k, g, a, b), NEW p \in Paths
  PROVE  \E c \in a..b : /\ SawFile(h, k, g, p, c, b)
                         /\ k = "live" => \A q \in DiffFiles(h[c]) : h[c].index[q].flag = "plain"
                         /\ \A i \in c..b : i \in a..b
<1>1. PICK t \in Moments(a, b) : Saw(h, k, g, Idle, "files", t, a, b)
  BY DEF Full, Seen
<1>2. t.candidates \in a..b /\ \A i \in t.candidates..b : i \in a..b
  BY DEF Moments, Reals
<1> QED BY <1>1, <1>2 DEF Saw, SawTree, SawFiles

\* A file with a record in a complete reading.
LEMMA RecordWasThere ==
  ASSUME NEW h, NEW k \in {"live", "readonly"}, NEW g, NEW a, NEW b, Reals(h, a, b), Full(h, k, g, a, b),
         Steady(h, a, b), NEW p \in DOMAIN g.unstaged
  PROVE  /\ p \in Tracked(h[b]) /\ g.unstaged[p].index = Plain(h[b].index[p])
         /\ g.unstaged[p].work # Plain(h[b].index[p]) /\ ~IsSpecial(g.unstaged[p].work)
         /\ \E i \in a..b : h[i].work[p] = g.unstaged[p].work
         /\ k = "live" /\ g.unstaged[p].work # Nothing => \E i \in a..b : p \in h[i].touched
<1>1. p \in Paths
  BY DEF Full, IsReading, Over
<1>2. PICK c \in a..b : /\ SawFile(h, k, g, p, c, b)
                        /\ k = "live" => \A q \in DiffFiles(h[c]) : h[c].index[q].flag = "plain"
                        /\ \A i \in c..b : i \in a..b
  BY <1>1, FullFiles
<1>3. p \in Tracked(h[c]) /\ Tracked(h[c]) = Tracked(h[b]) /\ Plain(h[c].index[p]) = Plain(h[b].index[p])
  BY <1>1, <1>2, SteadyIs DEF SawFile, Chosen, DiffFiles
<1>4. k = "live" /\ g.unstaged[p].work # Nothing => p \in h[c].touched
  BY <1>2 DEF SawFile, Chosen, DiffFiles
<1>5. \E i \in a..b : h[i].work[p] = g.unstaged[p].work
  BY <1>2 DEF SawFile, WasAt
<1> QED BY <1>2, <1>3, <1>4, <1>5 DEF SawFile

\* A tracked file without one.
LEMMA NoRecordWasThere ==
  ASSUME NEW h, NEW k \in {"live", "readonly"}, NEW g, NEW a, NEW b, Reals(h, a, b), Full(h, k, g, a, b),
         Steady(h, a, b), NEW p \in Tracked(h[b]), p \notin DOMAIN g.unstaged
  PROVE  \E i \in a..b : p \notin Recorded(h[i])
<1>1. p \in Paths
  BY DEF Tracked
<1>2. PICK c \in a..b : SawFile(h, k, g, p, c, b) /\ \A i \in c..b : i \in a..b
  BY <1>1, FullFiles
<1>3. CASE p \notin Chosen(k, h[c])
  <2>1. p \in Tracked(h[c])
    BY SteadyIs
  <2>2. p \notin DiffFiles(h[c])
    BY <1>3, <2>1 DEF Chosen
  <2> QED BY <2>2 DEF Recorded
<1>4. CASE p \in Chosen(k, h[c])
  <2>1. PICK i \in c..b : h[i].work[p] = Plain(h[c].index[p])
    BY <1>2, <1>4 DEF SawFile, Full, WasAt
  <2>2. i \in a..b /\ Plain(h[i].index[p]) = Plain(h[c].index[p]) /\ p \in Tracked(h[i])
        /\ h[i] \in Repositories
    BY <1>1, <1>2, SteadyIs DEF Reals
  <2>3. h[i].work[p] # Nothing
    BY <1>1, <2>1, <2>2, RepositoryIs, PlainIs DEF Tracked
  <2> QED BY <2>1, <2>2, <2>3 DEF Recorded, IsUnchanged
<1> QED BY <1>3, <1>4

LEMMA UntrackedWasThere ==
  ASSUME NEW h, NEW k, NEW g, NEW a, NEW b, Reals(h, a, b), Full(h, k, g, a, b), Steady(h, a, b),
         NEW p \in Paths
  PROVE  IF p \in DOMAIN g.untracked
         THEN /\ p \notin Ignored \cup Tracked(h[b]) /\ g.untracked[p] \in [mode : Modes, blob : Blobs]
              /\ \E i \in a..b : h[i].work[p] = g.untracked[p]
         ELSE p \notin Ignored \cup Tracked(h[b]) => \E i \in a..b : h[i].work[p] = Nothing
<1>1. PICK t \in Moments(a, b) : Saw(h, k, g, Idle, "files", t, a, b)
  BY DEF Full, Seen
<1> DEFINE n == t.untracked
<1>2. n \in a..b /\ (\A i \in n..b : i \in a..b) /\ SawUntracked(h, g, n, b)
  BY <1>1 DEF Moments, Reals, Saw, SawTree, AfterUntracked, AfterStaged
<1> HIDE DEF n
<1>3. Tracked(h[n]) = Tracked(h[b]) /\ DOMAIN g.untracked = UntrackedPaths(h[n])
  BY <1>2, SteadyIs DEF SawUntracked, Full
<1>4. p \in DOMAIN g.untracked => g.untracked[p] \in [mode : Modes, blob : Blobs]
  BY DEF Full, IsReading, Over
<1>5. p \in DOMAIN g.untracked => \E i \in a..b : h[i].work[p] = g.untracked[p]
  BY <1>2 DEF SawUntracked, WasAt
<1>6. p \in DOMAIN g.untracked => p \notin Ignored \cup Tracked(h[b])
  BY <1>3 DEF UntrackedPaths
<1>7. p \notin DOMAIN g.untracked /\ p \notin Ignored \cup Tracked(h[b]) => h[n].work[p] = Nothing
  BY <1>3 DEF UntrackedPaths
<1> QED BY <1>2, <1>4, <1>5, <1>6, <1>7

\* HEAD, the staged differences and the sparse modes of a complete reading.
LEMMA IndexWasThere ==
  ASSUME NEW h, NEW k, NEW g, NEW a, NEW b, Reals(h, a, b), Full(h, k, g, a, b)
  PROVE  /\ g.head \in Trees
         /\ \E i \in a..b : h[i].head = g.head
         /\ \E i \in a..b : g.staged = Differences(g.head, IndexTree(h[i]))
         /\ \A mode \in SparseModes : \E i \in a..b : mode \notin h[i].sparse
<1>1. PICK t \in Moments(a, b) : Saw(h, k, g, Idle, "files", t, a, b)
  BY DEF Full, Seen
<1>2. t.head \in a..b /\ t.staged \in a..b
  BY DEF Moments
<1>3. "files" \in AfterHead /\ "files" \in AfterStaged /\ "files" \in AfterCheckout /\ "files" \in AfterSparse
  BY DEF AfterHead, AfterUnmerged, AfterFlags, AfterVisible, AfterInvisible, AfterCheckout, AfterSparse,
         AfterUntracked, AfterStaged
<1>4. g.head \in Trees /\ h[t.head].head = g.head /\ g.staged = Differences(g.head, IndexTree(h[t.staged]))
  BY <1>1, <1>3 DEF Saw, SawIndex
<1>5. \A mode \in SparseModes : \E i \in a..b : mode \notin h[i].sparse
  BY <1>1, <1>3 DEF Saw, SawSparse, SparseModes
<1> QED BY <1>2, <1>4, <1>5

\* The moment between two equal readings is what they say, if the index held
\* the same all the time, no flag was set at that moment and nothing came back.
LEMMA Between ==
  ASSUME NEW h, NEW k \in {"live", "readonly"}, NEW g, NEW a, NEW m, NEW b,
         Reals(h, a, b), m \in a..b, a..b \subseteq DOMAIN h, DOMAIN h \subseteq Nat, NoReturn(h),
         Steady(h, a, b), \A p \in Tracked(h[m]) : h[m].index[p].flag = "plain",
         Full(h, k, g, a, m), Full(h, k, g, m, b)
  PROVE  Supported(h[m]) /\ Snapshot(g) = Describe(h[m])
<1> DEFINE r == h[m]
<1>1. /\ Reals(h, a, m) /\ Reals(h, m, b) /\ Steady(h, a, m) /\ Steady(h, m, b)
      /\ Tracked(h[b]) = Tracked(r) /\ \A p \in Paths : Plain(h[b].index[p]) = Plain(r.index[p])
  <2>1. m \in a..b /\ (\A i \in a..m : i \in a..b) /\ (\A i \in m..b : i \in a..b) /\ a <= m /\ m <= b
        /\ m \in Nat
    BY DEF Reals
  <2>2. Steady(h, a, m) /\ Steady(h, m, b)
    BY <2>1 DEF Steady
  <2> QED BY <2>1, <2>2, SteadyIs DEF Reals
<1>2. /\ r \in Repositories /\ StatIsTrue(r) /\ m \in DOMAIN h
      /\ \A i \in a..m, j \in m..b : i \in DOMAIN h /\ j \in DOMAIN h /\ i <= m /\ m <= j
  BY DEF Reals
<1>4. r.sparse = {}
  <2>1. ASSUME NEW mode \in SparseModes PROVE mode \notin r.sparse
    <3>1. PICK i \in a..m : mode \notin h[i].sparse
      BY <1>1, IndexWasThere
    <3>2. PICK j \in m..b : mode \notin h[j].sparse
      BY <1>1, IndexWasThere
    <3>3. (mode \in h[i].sparse <=> mode \in h[j].sparse) => (mode \in h[m].sparse <=> mode \in h[j].sparse)
      BY <1>2 DEF NoReturn
    <3> QED BY <3>1, <3>2, <3>3
  <2> QED BY <1>2, <2>1, RepositoryIs
<1>5. g.head = r.head /\ g.head \in Trees
  <2>1. PICK i \in a..m : h[i].head = g.head
    BY <1>1, IndexWasThere
  <2>2. PICK j \in m..b : h[j].head = g.head
    BY <1>1, IndexWasThere
  <2> QED BY <1>1, <1>2, <2>1, <2>2, IndexWasThere DEF NoReturn
<1>6. g.staged = Differences(r.head, IndexTree(r))
  <2>1. PICK i \in a..m : g.staged = Differences(g.head, IndexTree(h[i]))
    BY <1>1, IndexWasThere
  <2> QED BY <1>1, <1>5, <2>1 DEF Steady
<1>7. ASSUME NEW p \in DOMAIN g.untracked
      PROVE  /\ p \in UntrackedPaths(r) /\ r.work[p] = g.untracked[p]
             /\ ~IsSpecial(r.work[p])
  <2>1. p \in Paths
    BY DEF Full, IsReading, Over
  <2>2. /\ p \notin Ignored \cup Tracked(r) /\ g.untracked[p] \in [mode : Modes, blob : Blobs]
        /\ \E i \in a..m : h[i].work[p] = g.untracked[p]
        /\ \E j \in m..b : h[j].work[p] = g.untracked[p]
    BY <1>1, <2>1, UntrackedWasThere
  <2>3. r.work[p] = g.untracked[p]
    BY <1>2, <2>1, <2>2 DEF NoReturn
  <2>4. g.untracked[p] # Nothing /\ g.untracked[p].mode \in Modes
    BY <2>2, NothingIsApart
  <2> QED BY <2>1, <2>2, <2>3, <2>4 DEF UntrackedPaths, IsSpecial, Modes
<1>8. ASSUME NEW p \in Paths \ (Ignored \cup Tracked(r)), p \notin DOMAIN g.untracked
      PROVE  r.work[p] = Nothing
  <2>1. /\ \E i \in a..m : h[i].work[p] = Nothing
        /\ \E j \in m..b : h[j].work[p] = Nothing
    BY <1>1, <1>8, UntrackedWasThere
  <2> QED BY <1>2, <2>1 DEF NoReturn
<1>9. g.untracked = [p \in UntrackedPaths(r) |-> r.work[p]]
  <2>1. DOMAIN g.untracked = UntrackedPaths(r)
    BY <1>7, <1>8 DEF UntrackedPaths
  <2>2. g.untracked = [p \in DOMAIN g.untracked |-> g.untracked[p]]
    BY DEF Full, IsReading, Over
  <2> QED BY <1>7, <2>1, <2>2
<1>10. ASSUME NEW p \in DOMAIN g.unstaged
       PROVE  /\ p \in Recorded(r) /\ g.unstaged[p] = UnstagedRecord(r.index[p], r.work[p])
              /\ ~IsSpecial(r.work[p])
  <2> DEFINE x == g.unstaged[p].work
  <2>1. p \in Paths /\ g.unstaged[p] \in [index : Entries, work : FileStates]
    BY DEF Full, IsReading, Over
  <2>2. /\ p \in Tracked(r) /\ g.unstaged[p].index = Plain(r.index[p]) /\ x # Plain(r.index[p]) /\ ~IsSpecial(x)
        /\ \E i \in a..m : h[i].work[p] = x
        /\ \E j \in m..b : h[j].work[p] = x
        /\ k = "live" /\ x # Nothing => (\E i \in a..m : p \in h[i].touched) /\ \E j \in m..b : p \in h[j].touched
    BY <1>1, <2>1, RecordWasThere
  <2> HIDE DEF x
  <2>3. r.work[p] = x
    BY <1>2, <2>1, <2>2 DEF NoReturn
  <2>4. p \in Recorded(r)
    <3>1. CASE k = "live"
      <4>1. x # Nothing => p \in r.touched
        BY <1>2, <2>1, <2>2, <3>1 DEF NoReturn
      <4> QED BY <1>2, <2>1, <2>2, <2>3, <4>1, DiffFilesAre
    <3>2. CASE k = "readonly"
      <4>1. Plain(r.index[p]).blob = r.index[p].blob
        BY <1>2, <2>1, <2>2, RepositoryIs, PlainIs DEF Tracked
      <4>2. p \in Converted => r.work[p] = Nothing \/ r.work[p].blob = r.index[p].blob
        BY <2>2, <2>3, <3>2, <4>1 DEF Full, Ambiguous, x
      <4> QED BY <1>2, <2>2, <2>3, <4>2, DifferenceIsRecorded
    <3> QED BY <3>1, <3>2
  <2> QED BY <2>1, <2>2, <2>3, <2>4 DEF UnstagedRecord, x
<1>11. ASSUME NEW p \in Recorded(r), p \notin DOMAIN g.unstaged PROVE FALSE
  <2>1. p \in Tracked(r) /\ p \in Paths
    BY DEF Recorded, DiffFiles, Tracked
  <2>2. /\ \E i \in a..m : p \notin Recorded(h[i])
        /\ \E j \in m..b : p \notin Recorded(h[j])
    BY <1>1, <1>11, <2>1, NoRecordWasThere
  <2> QED BY <1>2, <2>1, <2>2 DEF NoReturn
<1>12. g.unstaged = [p \in Recorded(r) |-> UnstagedRecord(r.index[p], r.work[p])]
  <2>1. DOMAIN g.unstaged = Recorded(r)
    BY <1>10, <1>11
  <2>2. g.unstaged = [p \in DOMAIN g.unstaged |-> g.unstaged[p]]
    BY DEF Full, IsReading, Over
  <2> QED BY <1>10, <2>1, <2>2
<1>13. SpecialWorktreePaths(r) = {}
  <2> SUFFICES ASSUME NEW p \in Paths, IsSpecial(r.work[p]), p \notin Ignored \ Tracked(r) PROVE FALSE
    BY DEF SpecialWorktreePaths
  <2>1. CASE p \in Tracked(r)
    <3>1. p \in Recorded(r)
      BY <1>2, <2>1, SpecialIsRecorded
    <3> QED BY <1>10, <1>11, <3>1
  <2>2. CASE p \notin Tracked(r)
    <3>1. r.work[p] # Nothing
      BY DEF IsSpecial
    <3> QED BY <1>7, <1>8, <2>2, <3>1
  <2> QED BY <2>1, <2>2
<1>14. Supported(r)
  BY <1>4, <1>13 DEF Supported, SupportedIndex
<1> QED BY <1>5, <1>6, <1>9, <1>12, <1>14 DEF Snapshot, Describe

\* An entry somebody only intends to add shows in one view of the index and not
\* in the other.
LEMMA IntentShows ==
  ASSUME NEW r \in Repositories, NEW s \in Repositories, r.head = s.head, r.index = s.index,
         DiffInvisible(s) = DiffVisible(r), NEW p \in Tracked(r)
  PROVE  r.index[p].flag # "added"
<1> SUFFICES ASSUME r.index[p].flag = "added" PROVE FALSE
  OBVIOUS
<1> DEFINE x == [q \in Paths |-> Visible(r.index[q])]
           y == [q \in Paths |-> Invisible(s.index[q])]
<1>1. p \in Paths /\ r.index[p] # Nothing /\ Plain(r.index[p]) # Nothing
  BY RepositoryIs, PlainIs DEF Tracked
<1>2. x[p] = Plain(r.index[p]) /\ y[p] = Nothing
  BY <1>1 DEF Visible, Invisible
<1>3. Differences(r.head, x) = Differences(r.head, y)
  BY DEF DiffVisible, DiffInvisible
<1> HIDE DEF x, y
<1>4. \A z : /\ p \in DOMAIN Differences(r.head, z) <=> r.head[p] # z[p]
             /\ r.head[p] # z[p] => Differences(r.head, z)[p].new = z[p]
  BY <1>1 DEF Differences
<1> QED BY <1>1, <1>2, <1>3, <1>4

\* On a quiet index with nothing coming back, three queries about flags say what
\* one would.
LEMMA QuietFlags ==
  ASSUME NEW h, NEW k, NEW g, NEW b, NEW m \in 1..b, Reals(h, 1, b), 1..b \subseteq DOMAIN h,
         DOMAIN h \subseteq Nat, NoReturn(h), \A i \in 1..b : h[i].index = h[m].index,
         Full(h, k, g, 1, m), Full(h, k, g, m, b)
  PROVE  \A p \in Tracked(h[m]) : h[m].index[p].flag = "plain"
<1>1. PICK t \in Moments(1, m) : Saw(h, k, g, Idle, "files", t, 1, m)
  BY DEF Full, Seen
<1>2. m \in Nat /\ b \in Nat /\ m <= b /\ 1 <= m
  BY DEF Reals
<1>3. /\ t.head \in 1..m /\ t.unmerged \in 1..m /\ t.flags \in 1..m /\ t.visible \in 1..m /\ t.invisible \in 1..m
      /\ \A i \in 1..m : i \in 1..b /\ i \in DOMAIN h /\ h[i] \in Repositories /\ h[i].index = h[m].index
  BY <1>2 DEF Moments, Reals
<1>4. /\ h[t.head].head = g.head /\ NoFlag(h[t.unmerged], "unmerged") /\ NoFlag(h[t.flags], "hidden")
      /\ t.head <= t.visible /\ t.head <= t.invisible
      /\ DiffInvisible(h[t.invisible]) = DiffVisible(h[t.visible])
  BY <1>1 DEF Saw, SawIndex, AfterHead, AfterUnmerged, AfterFlags, AfterVisible, AfterInvisible,
              AfterCheckout, AfterSparse, AfterUntracked, AfterStaged
<1>5. PICK j \in m..b : h[j].head = g.head
  <2>1. Reals(h, m, b)
    BY <1>2 DEF Reals
  <2> QED BY <2>1, IndexWasThere
<1>6. h[t.visible].head = h[t.invisible].head
  <2>1. j \in DOMAIN h /\ t.visible <= j /\ t.invisible <= j
    BY <1>2, <1>3
  <2> QED BY <1>3, <1>4, <1>5, <2>1 DEF NoReturn
<1>7. ASSUME NEW p \in Tracked(h[m]) PROVE h[m].index[p].flag = "plain"
  <2>1. p \in Tracked(h[t.unmerged]) /\ p \in Tracked(h[t.flags]) /\ p \in Tracked(h[t.visible]) /\ p \in Paths
    BY <1>3 DEF Tracked
  <2>2. h[m].index[p].flag # "unmerged" /\ h[m].index[p].flag # "hidden"
    BY <1>3, <1>4, <2>1 DEF NoFlag
  <2>3. h[t.visible].index[p].flag # "added"
    BY <1>3, <1>4, <1>6, <2>1, IntentShows
  <2>4. h[m].index[p].flag \in Flags
    BY <1>2, <2>1, RepositoryIs, PlainIs DEF Tracked, Reals
  <2> QED BY <1>3, <2>2, <2>3, <2>4 DEF Flags
<1> QED BY <1>7

-----------------------------------------------------------------------------
(* A reading goes on while the repository changes.                          *)

Agree(h, h2, a, b) == a \in Nat /\ b \in Nat /\ a <= b /\ \A i \in a..b : h2[i] = h[i]

LEMMA MomentsAre ==
  ASSUME NEW a, NEW b, NEW t \in Moments(a, b)
  PROVE  /\ t.head \in a..b /\ t.unmerged \in a..b /\ t.flags \in a..b /\ t.visible \in a..b
         /\ t.invisible \in a..b /\ t.untracked \in a..b /\ t.staged \in a..b /\ t.candidates \in a..b
         /\ t = [head |-> t.head, unmerged |-> t.unmerged, flags |-> t.flags, visible |-> t.visible,
                 invisible |-> t.invisible, untracked |-> t.untracked, staged |-> t.staged,
                 candidates |-> t.candidates]
BY DEF Moments

\* What was seen stays seen, whatever happens next.
LEMMA SeenGrows ==
  ASSUME NEW h, NEW h2, NEW k, NEW g, NEW sc, NEW w, NEW a, NEW b, NEW c \in Nat,
         Agree(h, h2, a, b), b <= c, Seen(h, k, g, sc, w, a, b)
  PROVE  Seen(h2, k, g, sc, w, a, c)
<1>1. PICK t \in Moments(a, b) : Saw(h, k, g, sc, w, t, a, b)
  BY DEF Seen
<1>2. a \in Nat /\ b \in Nat /\ (\A i \in a..b : h2[i] = h[i]) /\ \A i \in a..b : i \in a..c
  BY DEF Agree
<1>3. t \in Moments(a, c)
  BY <1>2, MomentsAre DEF Moments
<1>4. /\ h2[t.head] = h[t.head] /\ h2[t.unmerged] = h[t.unmerged] /\ h2[t.flags] = h[t.flags]
      /\ h2[t.visible] = h[t.visible] /\ h2[t.invisible] = h[t.invisible]
      /\ h2[t.untracked] = h[t.untracked] /\ h2[t.staged] = h[t.staged]
      /\ h2[t.candidates] = h[t.candidates]
  BY <1>2, MomentsAre
<1>5. SawIndex(h2, g, sc, w, t)
  BY <1>1, <1>4 DEF Saw, SawIndex
<1>6. SawSparse(h2, w, a, c)
  BY <1>1, <1>2 DEF Saw, SawSparse
<1>7. ASSUME NEW x \in a..b, NEW p, NEW f, WasAt(h, p, f, x, b) PROVE WasAt(h2, p, f, x, c)
  <2>1. PICK i \in x..b : h[i].work[p] = f
    BY <1>7 DEF WasAt
  <2>2. i \in a..b /\ i \in x..c
    BY <1>2, <2>1
  <2> QED BY <1>2, <2>1, <2>2 DEF WasAt
<1>8. \A x \in a..b : \A p, f : WasAt(h, p, f, x, b) => WasAt(h2, p, f, x, c)
  BY <1>7
<1>9. SawUntracked(h, g, t.untracked, b) => SawUntracked(h2, g, t.untracked, c)
  <2>1. t.untracked \in a..b
    BY MomentsAre
  <2> QED BY <1>4, <1>8, <2>1 DEF SawUntracked
<1>10. ASSUME NEW p \in Paths, SawFile(h, k, g, p, t.candidates, b)
       PROVE  SawFile(h2, k, g, p, t.candidates, c)
  <2>1. t.candidates \in a..b
    BY MomentsAre
  <2> QED BY <1>4, <1>8, <1>10, <2>1 DEF SawFile
<1>11. SawFiles(h, k, g, t.candidates, b) => SawFiles(h2, k, g, t.candidates, c)
  BY <1>4, <1>10 DEF SawFiles
<1>12. \A p \in Paths : SawKind(h, g, sc.entries, p, t.candidates) => SawKind(h2, g, sc.entries, p, t.candidates)
  BY <1>4 DEF SawKind
<1>13. SawTree(h2, k, g, sc, w, t, c)
  BY <1>1, <1>9, <1>11, <1>12 DEF Saw, SawTree
<1> QED BY <1>1, <1>3, <1>5, <1>6, <1>13 DEF Seen, Saw

LEMMA FullGrows ==
  ASSUME NEW h, NEW h2, NEW k, NEW g, NEW a, NEW b, NEW c \in Nat, Agree(h, h2, a, b), b <= c,
         Full(h, k, g, a, b)
  PROVE  Full(h2, k, g, a, c)
BY SeenGrows DEF Full

LEMMA FullInBoth ==
  ASSUME NEW h, NEW h2, NEW k, NEW g, NEW a, NEW b, Agree(h, h2, a, b), Full(h, k, g, a, b)
  PROVE  Full(h2, k, g, a, b)
BY FullGrows DEF Agree

-----------------------------------------------------------------------------
(* One query or look more.                                                  *)

\* Seen by a step from w to v that reads the last moment b.
Sees(h, k, g, sc, g2, sc2, w, v, a, b) ==
  Reals(h, a, b) /\ IsReading(g) /\ IsScan(sc) /\ Seen(h, k, g, sc, w, a, b)
    => IsReading(g2) /\ IsScan(sc2) /\ Seen(h, k, g2, sc2, v, a, b)

LEMMA BlankIsReading == IsReading(Blank) /\ IsScan(Idle)
BY DEF IsReading, Blank, NoFiles, Over, IsScan, Idle

LEMMA HeadSees ==
  ASSUME NEW h, NEW k, NEW g, NEW sc, NEW a, NEW b, NEW g2, g2 = [Blank EXCEPT !.head = h[b].head]
  PROVE  Sees(h, k, g, sc, g2, sc, "head", "unmerged", a, b)
<1> SUFFICES ASSUME Reals(h, a, b) PROVE IsReading(g2) /\ Seen(h, k, g2, sc, "unmerged", a, b)
  BY DEF Sees
<1>1. b \in a..b /\ h[b] \in Repositories /\ g2.head = h[b].head
  BY DEF Reals, Blank
<1>2. IsReading(g2) /\ Unread(g2, "unmerged")
  BY DEF IsReading, Blank, NoFiles, Over, Unread
<1>3. g2.head \in Trees
  BY <1>1, RepositoryIs
<1> DEFINE t == [head |-> b, unmerged |-> b, flags |-> b, visible |-> b, invisible |-> b,
                 untracked |-> b, staged |-> b, candidates |-> b]
<1>4. t \in Moments(a, b) /\ t.head = b
  BY <1>1 DEF Moments
<1> HIDE DEF t
<1>5. SawIndex(h, g2, sc, "unmerged", t)
  BY <1>1, <1>3, <1>4 DEF SawIndex, AfterUnmerged, AfterFlags, AfterVisible, AfterInvisible,
                          AfterCheckout, AfterSparse, AfterUntracked, AfterStaged
<1>6. SawSparse(h, "unmerged", a, b) /\ SawTree(h, k, g2, sc, "unmerged", t, b)
  BY DEF SawSparse, SawTree, AfterCheckout, AfterSparse, AfterUntracked, AfterStaged
<1> QED BY <1>2, <1>4, <1>5, <1>6 DEF Seen, Saw

LEMMA MergedSees ==
  ASSUME NEW h, NEW k, NEW g, NEW sc, NEW a, NEW b, NoFlag(h[b], "unmerged")
  PROVE  Sees(h, k, g, sc, g, sc, "unmerged", "flags", a, b)
<1> SUFFICES ASSUME Reals(h, a, b), Seen(h, k, g, sc, "unmerged", a, b) PROVE Seen(h, k, g, sc, "flags", a, b)
  BY DEF Sees
<1>1. PICK t \in Moments(a, b) : Saw(h, k, g, sc, "unmerged", t, a, b)
  BY DEF Seen
<1> DEFINE u == [t EXCEPT !.unmerged = b]
<1>2. u \in Moments(a, b) /\ u.unmerged = b /\ u.head = t.head
  BY MomentsAre DEF Moments, Reals
<1> HIDE DEF u
<1>3. Saw(h, k, g, sc, "flags", u, a, b)
  BY <1>1, <1>2 DEF Saw, SawIndex, SawSparse, SawTree, Unread, Reads, AfterHead, AfterUnmerged, AfterFlags,
     AfterVisible, AfterInvisible, AfterCheckout, AfterSparse, AfterUntracked, AfterStaged
<1> QED BY <1>2, <1>3 DEF Seen

LEMMA FlagsSee ==
  ASSUME NEW h, NEW k, NEW g, NEW sc, NEW a, NEW b, NoFlag(h[b], "hidden")
  PROVE  Sees(h, k, g, sc, g, sc, "flags", "visible", a, b)
<1> SUFFICES ASSUME Reals(h, a, b), Seen(h, k, g, sc, "flags", a, b) PROVE Seen(h, k, g, sc, "visible", a, b)
  BY DEF Sees
<1>1. PICK t \in Moments(a, b) : Saw(h, k, g, sc, "flags", t, a, b)
  BY DEF Seen
<1> DEFINE u == [t EXCEPT !.flags = b]
<1>2. u \in Moments(a, b) /\ u.flags = b /\ u.head = t.head /\ u.unmerged = t.unmerged /\ u.unmerged <= b
  BY MomentsAre DEF Moments, Reals
<1> HIDE DEF u
<1>3. Saw(h, k, g, sc, "visible", u, a, b)
  BY <1>1, <1>2 DEF Saw, SawIndex, SawSparse, SawTree, Unread, Reads, AfterHead, AfterUnmerged, AfterFlags,
     AfterVisible, AfterInvisible, AfterCheckout, AfterSparse, AfterUntracked, AfterStaged
<1> QED BY <1>2, <1>3 DEF Seen

LEMMA VisibleSees ==
  ASSUME NEW h, NEW k, NEW g, NEW sc, NEW a, NEW b, NEW sc2,
         sc2 = [sc EXCEPT !.visible = DiffVisible(h[b])]
  PROVE  Sees(h, k, g, sc, g, sc2, "visible", "invisible", a, b)
<1> SUFFICES ASSUME Reals(h, a, b), IsScan(sc), Seen(h, k, g, sc, "visible", a, b)
             PROVE  IsScan(sc2) /\ Seen(h, k, g, sc2, "invisible", a, b)
  BY DEF Sees
<1>1. PICK t \in Moments(a, b) : Saw(h, k, g, sc, "visible", t, a, b)
  BY DEF Seen
<1> DEFINE u == [t EXCEPT !.visible = b]
<1>2. /\ u \in Moments(a, b) /\ u.visible = b /\ u.head = t.head /\ u.unmerged = t.unmerged
      /\ u.flags = t.flags /\ u.head <= b
  BY MomentsAre DEF Moments, Reals
<1> HIDE DEF u
<1>3. IsScan(sc2) /\ sc2.visible = DiffVisible(h[b])
  BY DEF IsScan
<1>4. Saw(h, k, g, sc2, "invisible", u, a, b)
  BY <1>1, <1>2, <1>3 DEF Saw, SawIndex, SawSparse, SawTree, Unread, Reads, AfterHead, AfterUnmerged,
     AfterFlags, AfterVisible, AfterInvisible, AfterCheckout, AfterSparse, AfterUntracked, AfterStaged
<1> QED BY <1>2, <1>3, <1>4 DEF Seen

LEMMA InvisibleSees ==
  ASSUME NEW h, NEW k, NEW g, NEW sc, NEW a, NEW b, DiffInvisible(h[b]) = sc.visible
  PROVE  Sees(h, k, g, sc, g, Idle, "invisible", "sparse_checkout", a, b)
<1> SUFFICES ASSUME Reals(h, a, b), Seen(h, k, g, sc, "invisible", a, b)
             PROVE  Seen(h, k, g, Idle, "sparse_checkout", a, b)
  BY BlankIsReading DEF Sees
<1>1. PICK t \in Moments(a, b) : Saw(h, k, g, sc, "invisible", t, a, b)
  BY DEF Seen
<1> DEFINE u == [t EXCEPT !.invisible = b]
<1>2. /\ u \in Moments(a, b) /\ u.invisible = b /\ u.visible = t.visible /\ u.head = t.head
      /\ u.unmerged = t.unmerged /\ u.flags = t.flags /\ u.head <= b
  BY MomentsAre DEF Moments, Reals
<1> HIDE DEF u
<1>3. Saw(h, k, g, Idle, "sparse_checkout", u, a, b)
  BY <1>1, <1>2 DEF Saw, SawIndex, SawSparse, SawTree, Unread, Reads, AfterHead, AfterUnmerged, AfterFlags,
     AfterVisible, AfterInvisible, AfterCheckout, AfterSparse, AfterUntracked, AfterStaged
<1> QED BY <1>2, <1>3 DEF Seen

LEMMA SparseSees ==
  ASSUME NEW h, NEW k, NEW g, NEW sc, NEW a, NEW b
  PROVE  /\ "checkout" \notin h[b].sparse => Sees(h, k, g, sc, g, sc, "sparse_checkout", "sparse_index", a, b)
         /\ "index" \notin h[b].sparse => Sees(h, k, g, sc, g, sc, "sparse_index", "ignored", a, b)
<1>1. ASSUME NEW w, NEW v, NEW mode, mode \notin h[b].sparse,
             \/ w = "sparse_checkout" /\ v = "sparse_index" /\ mode = "checkout"
             \/ w = "sparse_index" /\ v = "ignored" /\ mode = "index"
      PROVE  Sees(h, k, g, sc, g, sc, w, v, a, b)
  <2> SUFFICES ASSUME Reals(h, a, b), Seen(h, k, g, sc, w, a, b) PROVE Seen(h, k, g, sc, v, a, b)
    BY DEF Sees
  <2>1. PICK t \in Moments(a, b) : Saw(h, k, g, sc, w, t, a, b)
    BY DEF Seen
  <2>2. b \in a..b
    BY DEF Reals
  <2>3. SawSparse(h, v, a, b)
    BY <1>1, <2>1, <2>2 DEF Saw, SawSparse, AfterCheckout, AfterSparse, AfterUntracked, AfterStaged
  <2>4. SawIndex(h, g, sc, v, t) /\ SawTree(h, k, g, sc, v, t, b) /\ Unread(g, v)
    BY <1>1, <2>1 DEF Saw, SawIndex, SawTree, Unread, Reads, AfterHead, AfterUnmerged, AfterFlags,
       AfterVisible, AfterInvisible, AfterCheckout, AfterSparse, AfterUntracked, AfterStaged
  <2> QED BY <2>1, <2>3, <2>4 DEF Seen, Saw
<1> QED BY <1>1

\* The walk through the working tree and the portable names leave no trace.
LEMMA WalkSees ==
  ASSUME NEW h, NEW k, NEW g, NEW sc, NEW a, NEW b, NEW sc2, NEW w, NEW v, IsScan(sc) => IsScan(sc2),
         \/ /\ w \in {"ignored", "walk", "looks", "check_ignore"}
            /\ v \in {"walk", "looks", "check_ignore", "untracked"}
         \/ w = "names" /\ v = "staged"
  PROVE  Sees(h, k, g, sc, g, sc2, w, v, a, b)
<1> SUFFICES ASSUME Seen(h, k, g, sc, w, a, b) PROVE Seen(h, k, g, sc2, v, a, b)
  BY DEF Sees
<1>1. PICK t \in Moments(a, b) : Saw(h, k, g, sc, w, t, a, b)
  BY DEF Seen
<1>2. Saw(h, k, g, sc2, v, t, a, b)
  <2>1. SawIndex(h, g, sc2, v, t)
    BY <1>1 DEF Saw, SawIndex, AfterHead, AfterUnmerged, AfterFlags,
       AfterVisible, AfterInvisible, AfterCheckout, AfterSparse, AfterUntracked, AfterStaged
  <2>2. SawSparse(h, v, a, b) /\ SawTree(h, k, g, sc2, v, t, b) /\ Unread(g, v)
    BY <1>1 DEF Saw, SawSparse, SawTree, Unread, Reads, AfterHead, AfterUnmerged, AfterFlags,
       AfterVisible, AfterInvisible, AfterCheckout, AfterSparse, AfterUntracked, AfterStaged
  <2> QED BY <2>1, <2>2 DEF Saw
<1> QED BY <1>2 DEF Seen

LEMMA UntrackedSees ==
  ASSUME NEW h, NEW k, NEW g, NEW sc, NEW a, NEW b, NEW g2, g2 = [g EXCEPT !.listed = UntrackedPaths(h[b])]
  PROVE  Sees(h, k, g, sc, g2, sc, "untracked", "names", a, b)
<1> SUFFICES ASSUME Reals(h, a, b), IsReading(g), Seen(h, k, g, sc, "untracked", a, b)
             PROVE  IsReading(g2) /\ Seen(h, k, g2, sc, "names", a, b)
  BY DEF Sees
<1>1. PICK t \in Moments(a, b) : Saw(h, k, g, sc, "untracked", t, a, b)
  BY DEF Seen
<1> DEFINE u == [t EXCEPT !.untracked = b]
<1>2. /\ u \in Moments(a, b) /\ u.untracked = b /\ u.head = t.head /\ u.unmerged = t.unmerged
      /\ u.flags = t.flags /\ u.visible = t.visible /\ u.invisible = t.invisible
  BY MomentsAre DEF Moments, Reals
<1> HIDE DEF u
<1>3. /\ g2.head = g.head /\ g2.staged = g.staged /\ g2.unstaged = g.unstaged
      /\ g2.untracked = g.untracked /\ g2.candidates = g.candidates /\ g2.listed = UntrackedPaths(h[b])
      /\ IsReading(g2)
  BY DEF IsReading, UntrackedPaths
<1>4. Unread(g2, "names") /\ DOMAIN g2.untracked = {}
  BY <1>1, <1>3 DEF Saw, Unread, Reads, AfterHead, AfterUnmerged, AfterFlags,
     AfterVisible, AfterInvisible, AfterCheckout, AfterSparse
<1>5. SawTree(h, k, g2, sc, "names", u, b)
  BY <1>2, <1>3, <1>4 DEF SawTree, SawUntracked
<1>6. SawIndex(h, g2, sc, "names", u) /\ SawSparse(h, "names", a, b)
  BY <1>1, <1>2, <1>3 DEF Saw, SawIndex, SawSparse, AfterHead, AfterUnmerged, AfterFlags,
     AfterVisible, AfterInvisible, AfterCheckout, AfterSparse, AfterUntracked, AfterStaged
<1> QED BY <1>2, <1>3, <1>4, <1>5, <1>6 DEF Seen, Saw

LEMMA StagedSees ==
  ASSUME NEW h, NEW k, NEW g, NEW sc, NEW a, NEW b, NEW g2, NoFlag(h[b], "unmerged"),
         g2 = [g EXCEPT !.staged = Differences(g.head, IndexTree(h[b]))]
  PROVE  Sees(h, k, g, sc, g2, sc, "staged", "unstaged", a, b)
<1> SUFFICES ASSUME Reals(h, a, b), IsReading(g), Seen(h, k, g, sc, "staged", a, b)
             PROVE  IsReading(g2) /\ Seen(h, k, g2, sc, "unstaged", a, b)
  BY DEF Sees
<1>1. PICK t \in Moments(a, b) : Saw(h, k, g, sc, "staged", t, a, b)
  BY DEF Seen
<1> DEFINE u == [t EXCEPT !.staged = b]
<1>2. /\ u \in Moments(a, b) /\ u.staged = b /\ u.head = t.head /\ u.unmerged = t.unmerged
      /\ u.flags = t.flags /\ u.visible = t.visible /\ u.invisible = t.invisible
      /\ u.untracked = t.untracked /\ u.flags <= b
  BY MomentsAre DEF Moments, Reals
<1> HIDE DEF u
<1>3. /\ g2.head = g.head /\ g2.staged = Differences(g.head, IndexTree(h[b])) /\ g2.unstaged = g.unstaged
      /\ g2.untracked = g.untracked /\ g2.candidates = g.candidates /\ g2.listed = g.listed
      /\ g2 = [head |-> g2.head, staged |-> g2.staged, unstaged |-> g2.unstaged,
               untracked |-> g2.untracked, candidates |-> g2.candidates, listed |-> g2.listed]
  BY DEF IsReading
<1>4. g.head \in Trees /\ h[b] \in Repositories
  BY <1>1 DEF Reals, Saw, SawIndex, AfterHead, AfterUnmerged, AfterFlags,
     AfterVisible, AfterInvisible, AfterCheckout, AfterSparse, AfterUntracked
<1>5. Over(g2.staged, [old : Entries, new : Entries])
  <2>1. IndexTree(h[b]) \in Trees
    BY <1>4, IndexReadBack
  <2> QED BY <1>3, <1>4, <2>1 DEF Over, Differences, Trees
<1>6. IsReading(g2) /\ Unread(g2, "unstaged")
  BY <1>1, <1>3, <1>5 DEF IsReading, Saw, Unread, Reads, AfterHead, AfterUnmerged, AfterFlags,
     AfterVisible, AfterInvisible, AfterCheckout, AfterSparse, AfterUntracked
<1>7. SawIndex(h, g2, sc, "unstaged", u) /\ SawSparse(h, "unstaged", a, b)
  BY <1>1, <1>2, <1>3 DEF Saw, SawIndex, SawSparse, AfterHead, AfterUnmerged, AfterFlags,
     AfterVisible, AfterInvisible, AfterCheckout, AfterSparse, AfterUntracked, AfterStaged
<1>8. SawTree(h, k, g2, sc, "unstaged", u, b)
  <2>1. SawUntracked(h, g, t.untracked, b)
    BY <1>1 DEF Saw, SawTree, AfterUntracked
  <2> QED BY <1>2, <1>3, <2>1 DEF SawTree, SawUntracked
<1> QED BY <1>2, <1>6, <1>7, <1>8 DEF Seen, Saw

\* The places from unstaged on share what was seen of index and HEAD.
LEMMA FilesSeen ==
  ASSUME NEW h, NEW g, NEW sc, NEW g2, NEW sc2, NEW a, NEW b, NEW t, NEW u,
         NEW w \in AfterStaged, NEW v \in AfterStaged,
         SawIndex(h, g, sc, w, t), SawSparse(h, w, a, b), g2.head = g.head, g2.staged = g.staged,
         u.head = t.head, u.unmerged = t.unmerged, u.flags = t.flags, u.visible = t.visible,
         u.invisible = t.invisible, u.staged = t.staged
  PROVE  SawIndex(h, g2, sc2, v, u) /\ SawSparse(h, v, a, b)
<1>1. /\ w # "invisible" /\ v # "invisible"
      /\ w \in AfterHead /\ w \in AfterUnmerged /\ w \in AfterFlags /\ w \in AfterVisible /\ w \in AfterInvisible
      /\ w \in AfterCheckout /\ w \in AfterSparse
  BY DEF AfterHead, AfterUnmerged, AfterFlags, AfterVisible, AfterInvisible, AfterCheckout, AfterSparse,
         AfterUntracked, AfterStaged
<1>2. SawSparse(h, v, a, b)
  BY <1>1 DEF SawSparse
<1>3. SawIndex(h, g2, sc2, v, u)
  BY <1>1 DEF SawIndex
<1> QED BY <1>2, <1>3

LEMMA CandidateIs ==
  ASSUME NEW e \in Entries, NEW f
  PROVE  /\ Candidate(e, f).entry = e /\ (Candidate(e, f).deleted <=> f = Nothing)
         /\ Candidate(e, f) \in [entry : Entries, deleted : BOOLEAN]
<1> DEFINE d == f = Nothing
<1>1. d \in BOOLEAN
  OBVIOUS
<1>2. Candidate(e, f) = [entry |-> e, deleted |-> d]
  BY DEF Candidate
<1> HIDE DEF d
<1>3. /\ [entry |-> e, deleted |-> d] \in [entry : Entries, deleted : BOOLEAN]
      /\ [entry |-> e, deleted |-> d].entry = e /\ [entry |-> e, deleted |-> d].deleted = d
  BY <1>1
<1>4. Candidate(e, f).deleted = d
  BY <1>2, <1>3
<1>5. Candidate(e, f).deleted <=> f = Nothing
  BY <1>4, Zenon DEF d
<1> QED BY <1>2, <1>3, <1>5

LEMMA CandidatesSee ==
  ASSUME NEW h, NEW g, NEW sc, NEW a, NEW b, NEW g2,
         \A p \in DiffFiles(h[b]) : h[b].index[p].flag = "plain",
         g2 = [g EXCEPT !.candidates =
                 [p \in DiffFiles(h[b]) |-> Candidate(Plain(h[b].index[p]), h[b].work[p])]]
  PROVE  Sees(h, "live", g, sc, g2, sc, "unstaged", "files", a, b)
<1> SUFFICES ASSUME Reals(h, a, b), IsReading(g), Seen(h, "live", g, sc, "unstaged", a, b)
             PROVE  IsReading(g2) /\ Seen(h, "live", g2, sc, "files", a, b)
  BY DEF Sees
<1> DEFINE C == DiffFiles(h[b])
           cs == [p \in C |-> Candidate(Plain(h[b].index[p]), h[b].work[p])]
<1>1. PICK t \in Moments(a, b) : Saw(h, "live", g, sc, "unstaged", t, a, b)
  BY DEF Seen
<1> DEFINE u == [t EXCEPT !.candidates = b]
<1>2. /\ u \in Moments(a, b) /\ u.candidates = b /\ u.head = t.head /\ u.unmerged = t.unmerged
      /\ u.flags = t.flags /\ u.visible = t.visible /\ u.invisible = t.invisible
      /\ u.untracked = t.untracked /\ u.staged = t.staged /\ u.staged <= b
  BY MomentsAre DEF Moments, Reals
<1> HIDE DEF u
<1>3. h[b] \in Repositories /\ C \subseteq Tracked(h[b]) /\ C \subseteq Paths
  BY DEF Reals, Tracked, DiffFiles
<1>4. DOMAIN cs = C /\ \A p \in C : /\ cs[p] = Candidate(Plain(h[b].index[p]), h[b].work[p])
                                    /\ Plain(h[b].index[p]) \in Entries
  BY <1>3, RepositoryIs, PlainIs
<1>5. \A p \in C : /\ cs[p].entry = Plain(h[b].index[p]) /\ (cs[p].deleted <=> h[b].work[p] = Nothing)
                   /\ cs[p] \in [entry : Entries, deleted : BOOLEAN]
  BY <1>4, CandidateIs
<1>6. Over(cs, [entry : Entries, deleted : BOOLEAN])
  BY <1>3, <1>4, <1>5 DEF Over
<1> HIDE DEF cs
<1>7. /\ g2.head = g.head /\ g2.staged = g.staged /\ g2.unstaged = g.unstaged
      /\ g2.untracked = g.untracked /\ g2.listed = g.listed /\ g2.candidates = cs
      /\ g2 = [head |-> g2.head, staged |-> g2.staged, unstaged |-> g2.unstaged,
               untracked |-> g2.untracked, candidates |-> g2.candidates, listed |-> g2.listed]
  <2>1. g2 = [g EXCEPT !.candidates = cs]
    BY DEF cs
  <2> QED BY <2>1 DEF IsReading
<1>8. IsReading(g2)
  BY <1>6, <1>7 DEF IsReading
<1>9. DOMAIN g2.unstaged = {} /\ DOMAIN g2.untracked = DOMAIN g.untracked /\ Unread(g2, "files")
  BY <1>1, <1>7 DEF Saw, Unread, Reads, AfterHead, AfterUnmerged, AfterFlags,
     AfterVisible, AfterInvisible, AfterCheckout, AfterSparse, AfterUntracked, AfterStaged
<1>10. SawFiles(h, "live", g2, b, b)
  <2>1. Chosen("live", h[b]) = C
    BY DEF Chosen
  <2>2. \A p \in Paths : SawFile(h, "live", g2, p, b, b)
    BY <1>4, <1>5, <1>7, <1>9, <2>1 DEF SawFile
  <2> QED BY <2>2 DEF SawFiles
<1>11. SawTree(h, "live", g2, sc, "files", u, b)
  <2>1. SawUntracked(h, g2, t.untracked, b)
    BY <1>1, <1>7 DEF Saw, SawTree, SawUntracked, AfterUntracked, AfterStaged
  <2> QED BY <1>2, <1>10, <2>1 DEF SawTree
<1>12. SawIndex(h, g2, sc, "files", u) /\ SawSparse(h, "files", a, b)
  <2>1. SawIndex(h, g, sc, "unstaged", t) /\ SawSparse(h, "unstaged", a, b)
    BY <1>1 DEF Saw
  <2>2. "unstaged" \in AfterStaged /\ "files" \in AfterStaged
    BY DEF AfterStaged
  <2>3. SawIndex(h, g, sc, "files", u) /\ SawSparse(h, "files", a, b)
    BY <1>2, <2>1, <2>2, FilesSeen
  <2> QED BY <1>7, <2>3 DEF SawIndex
<1> QED BY <1>2, <1>8, <1>9, <1>11, <1>12 DEF Seen, Saw

\* All entries have been looked at.
LEMMA KindsAreFiles ==
  ASSUME NEW h, NEW g, NEW es, NEW c, NEW b, DOMAIN es = {}, DOMAIN g.unstaged = {},
         \A p \in Paths : SawKind(h, g, es, p, c)
  PROVE  SawFiles(h, "readonly", g, c, b)
<1>1. Chosen("readonly", h[c]) = Tracked(h[c])
  BY DEF Chosen
<1>2. ASSUME NEW p \in Paths PROVE SawFile(h, "readonly", g, p, c, b)
  BY <1>1 DEF SawFile, SawKind
<1> QED BY <1>2 DEF SawFiles

LEMMA ListingSees ==
  ASSUME NEW h, NEW g, NEW sc, NEW a, NEW b, NEW es, NEW sc2, NEW v,
         es = [p \in Tracked(h[b]) |-> Plain(h[b].index[p])],
         sc2 = [sc EXCEPT !.entries = es], v = IF DOMAIN es = {} THEN "files" ELSE "kinds"
  PROVE  Sees(h, "readonly", g, sc, g, sc2, "unstaged", v, a, b)
<1> SUFFICES ASSUME Reals(h, a, b), IsReading(g), IsScan(sc), Seen(h, "readonly", g, sc, "unstaged", a, b)
             PROVE  IsScan(sc2) /\ Seen(h, "readonly", g, sc2, v, a, b)
  BY DEF Sees
<1>1. PICK t \in Moments(a, b) : Saw(h, "readonly", g, sc, "unstaged", t, a, b)
  BY DEF Seen
<1> DEFINE u == [t EXCEPT !.candidates = b]
<1>2. /\ u \in Moments(a, b) /\ u.candidates = b /\ u.head = t.head /\ u.unmerged = t.unmerged
      /\ u.flags = t.flags /\ u.visible = t.visible /\ u.invisible = t.invisible
      /\ u.untracked = t.untracked /\ u.staged = t.staged /\ u.staged <= b
  BY MomentsAre DEF Moments, Reals
<1> HIDE DEF u
<1>3. h[b] \in Repositories /\ Tracked(h[b]) \subseteq Paths
  BY DEF Reals, Tracked
<1>4. DOMAIN es = Tracked(h[b]) /\ \A p \in Tracked(h[b]) : es[p] = Plain(h[b].index[p]) /\ es[p] \in Entries
  BY <1>3, RepositoryIs, PlainIs
<1>5. Over(es, Entries)
  BY <1>3, <1>4 DEF Over
<1>6. IsScan(sc2) /\ sc2.entries = es
  BY <1>5 DEF IsScan
<1>7. DOMAIN g.unstaged = {} /\ DOMAIN g.candidates = {} /\ Unread(g, v)
  BY <1>1 DEF Saw, Unread, Reads, AfterHead, AfterUnmerged, AfterFlags,
     AfterVisible, AfterInvisible, AfterCheckout, AfterSparse, AfterUntracked, AfterStaged
<1>8. \A p \in Paths : SawKind(h, g, es, p, b)
  BY <1>4, <1>7 DEF SawKind
<1>9. DOMAIN es = {} => SawFiles(h, "readonly", g, b, b)
  BY <1>7, <1>8, KindsAreFiles
<1>10. SawTree(h, "readonly", g, sc2, v, u, b)
  <2>1. SawUntracked(h, g, t.untracked, b)
    BY <1>1 DEF Saw, SawTree, AfterUntracked, AfterStaged
  <2> QED BY <1>2, <1>6, <1>8, <1>9, <2>1 DEF SawTree
<1>11. SawIndex(h, g, sc2, v, u) /\ SawSparse(h, v, a, b)
  BY <1>1, <1>2, FilesSeen DEF Saw, AfterStaged
<1> QED BY <1>2, <1>6, <1>7, <1>10, <1>11 DEF Seen, Saw

LEMMA KindSees ==
  ASSUME NEW h, NEW g, NEW sc, NEW a, NEW b, NEW p \in DOMAIN sc.entries, NEW f, NEW rest, NEW cs,
         NEW g2, NEW sc2, NEW v, rest = Without(sc.entries, p),
         cs = Put(g.candidates, p, Candidate(sc.entries[p], f)),
         sc2 = [sc EXCEPT !.entries = rest], g2 = [g EXCEPT !.candidates = cs],
         v = IF DOMAIN rest = {} THEN "files" ELSE "kinds"
  PROVE  Sees(h, "readonly", g, sc, g2, sc2, "kinds", v, a, b)
<1> SUFFICES ASSUME IsReading(g), IsScan(sc), Seen(h, "readonly", g, sc, "kinds", a, b)
             PROVE  IsReading(g2) /\ IsScan(sc2) /\ Seen(h, "readonly", g2, sc2, v, a, b)
  BY DEF Sees
<1>1. PICK t \in Moments(a, b) : Saw(h, "readonly", g, sc, "kinds", t, a, b)
  BY DEF Seen
<1>2. p \in Paths /\ sc.entries[p] \in Entries
  BY DEF IsScan, Over
<1>3. /\ DOMAIN rest = DOMAIN sc.entries \ {p} /\ \A q \in DOMAIN rest : rest[q] = sc.entries[q]
      /\ Over(rest, Entries)
  BY DEF Without, IsScan, Over
<1>4. sc2.entries = rest /\ IsScan(sc2)
  BY <1>3 DEF IsScan
<1>5. /\ DOMAIN cs = DOMAIN g.candidates \cup {p} /\ cs[p] = [entry |-> sc.entries[p], deleted |-> f = Nothing]
      /\ \A q \in DOMAIN g.candidates \ {p} : cs[q] = g.candidates[q]
      /\ cs = [q \in DOMAIN g.candidates \cup {p} |-> cs[q]]
  BY DEF Put, Candidate
<1>6. Over(cs, [entry : Entries, deleted : BOOLEAN])
  <2>1. Over(g.candidates, [entry : Entries, deleted : BOOLEAN])
    BY DEF IsReading
  <2>2. cs[p] \in [entry : Entries, deleted : BOOLEAN]
    BY <1>2, <1>5
  <2>3. \A q \in DOMAIN cs : cs[q] \in [entry : Entries, deleted : BOOLEAN]
    BY <1>5, <2>1, <2>2 DEF Over
  <2> QED BY <1>2, <1>5, <2>1, <2>3 DEF Over
<1>7. /\ g2.head = g.head /\ g2.staged = g.staged /\ g2.unstaged = g.unstaged
      /\ g2.untracked = g.untracked /\ g2.listed = g.listed /\ g2.candidates = cs
      /\ IsReading(g2)
  BY <1>6 DEF IsReading
<1>8. DOMAIN g2.unstaged = {} /\ Unread(g2, v)
  BY <1>1, <1>7 DEF Saw, Unread, Reads, AfterHead, AfterUnmerged, AfterFlags,
     AfterVisible, AfterInvisible, AfterCheckout, AfterSparse, AfterUntracked, AfterStaged
<1>9. ASSUME NEW q \in Paths PROVE SawKind(h, g2, rest, q, t.candidates)
  <2>1. SawKind(h, g, sc.entries, q, t.candidates)
    BY <1>1 DEF Saw, SawTree
  <2>2. CASE q = p
    <3>1. p \in Tracked(h[t.candidates]) /\ cs[p].entry = Plain(h[t.candidates].index[p])
      BY <1>5, <2>1, <2>2 DEF SawKind
    <3> QED BY <1>3, <1>5, <1>7, <2>2, <3>1 DEF SawKind
  <2>3. CASE q # p
    BY <1>3, <1>5, <1>7, <2>1, <2>3 DEF SawKind
  <2> QED BY <2>2, <2>3
<1>10. DOMAIN rest = {} => SawFiles(h, "readonly", g2, t.candidates, b)
  BY <1>8, <1>9, KindsAreFiles
<1>11. SawTree(h, "readonly", g2, sc2, v, t, b)
  <2>1. SawUntracked(h, g2, t.untracked, b) /\ t.staged <= t.candidates
    BY <1>1, <1>7 DEF Saw, SawTree, SawUntracked, AfterUntracked, AfterStaged
  <2> QED BY <1>4, <1>9, <1>10, <2>1 DEF SawTree
<1>12. SawIndex(h, g2, sc2, v, t) /\ SawSparse(h, v, a, b)
  <2>1. SawIndex(h, g, sc, "kinds", t) /\ SawSparse(h, "kinds", a, b)
    BY <1>1 DEF Saw
  <2>2. "kinds" \in AfterStaged /\ v \in AfterStaged
    BY DEF AfterStaged
  <2> QED BY <1>7, <2>1, <2>2, FilesSeen
<1> QED BY <1>4, <1>7, <1>8, <1>11, <1>12 DEF Seen, Saw

LEMMA CandidateSees ==
  ASSUME NEW h, NEW k \in {"live", "readonly"}, NEW g, NEW sc, NEW a, NEW b, NEW g2,
         NEW p \in DOMAIN g.candidates, NEW c, NEW f, NEW rest, NEW more,
         c = g.candidates[p], f = h[b].work[p], ~IsSpecial(f), (f = Nothing) = c.deleted,
         rest = Without(g.candidates, p),
         more = IF IsUnchanged(c.entry, f) THEN g.unstaged
                ELSE Put(g.unstaged, p, UnstagedRecord(c.entry, f)),
         g2 = [g EXCEPT !.candidates = rest, !.unstaged = more]
  PROVE  Sees(h, k, g, sc, g2, sc, "files", "files", a, b)
<1> SUFFICES ASSUME Reals(h, a, b), IsReading(g), Seen(h, k, g, sc, "files", a, b)
             PROVE  IsReading(g2) /\ Seen(h, k, g2, sc, "files", a, b)
  BY DEF Sees
<1>1. b \in a..b /\ h[b] \in Repositories /\ p \in Paths /\ f \in FileStates
  BY RepositoryIs DEF Reals, IsReading, Over
<1>2. /\ g2.head = g.head /\ g2.staged = g.staged /\ g2.untracked = g.untracked /\ g2.listed = g.listed
      /\ g2.candidates = rest /\ g2.unstaged = more
      /\ g2 = [head |-> g2.head, staged |-> g2.staged, unstaged |-> g2.unstaged,
               untracked |-> g2.untracked, candidates |-> g2.candidates, listed |-> g2.listed]
  BY DEF IsReading
<1>3. Over(rest, [entry : Entries, deleted : BOOLEAN]) /\ DOMAIN rest = DOMAIN g.candidates \ {p}
      /\ \A q \in DOMAIN rest : rest[q] = g.candidates[q]
  BY DEF Without, IsReading, Over
<1>4. c.entry \in Entries /\ Plain(c.entry) = c.entry
  <2>1. c \in [entry : Entries, deleted : BOOLEAN]
    BY DEF IsReading, Over
  <2>2. c.entry \in Entries
    BY <2>1
  <2>3. CASE c.entry = Nothing
    BY <2>2, <2>3 DEF Plain
  <2>4. CASE c.entry # Nothing
    <3>1. c.entry \in [mode : Modes, blob : Blobs]
      BY <2>2, <2>4 DEF Entries
    <3> QED BY <2>2, <2>4, <3>1 DEF Plain
  <2> QED BY <2>2, <2>3, <2>4
<1>5. /\ IsUnchanged(c.entry, f) => more = g.unstaged
      /\ ~IsUnchanged(c.entry, f) =>
           /\ DOMAIN more = DOMAIN g.unstaged \cup {p}
           /\ more[p] = [index |-> c.entry, work |-> f]
           /\ \A q \in DOMAIN g.unstaged \ {p} : more[q] = g.unstaged[q]
           /\ more = [q \in DOMAIN g.unstaged \cup {p} |-> more[q]]
  BY <1>4 DEF UnstagedRecord, Put
<1>6. Over(more, [index : Entries, work : FileStates])
  <2>1. Over(g.unstaged, [index : Entries, work : FileStates])
    BY DEF IsReading
  <2>2. CASE ~IsUnchanged(c.entry, f)
    <3>1. \A q \in DOMAIN more : more[q] \in [index : Entries, work : FileStates]
      BY <1>1, <1>4, <1>5, <2>1, <2>2 DEF Over
    <3> QED BY <1>1, <1>5, <2>1, <2>2, <3>1 DEF Over
  <2> QED BY <1>5, <2>1, <2>2
<1>7. IsReading(g2)
  BY <1>2, <1>3, <1>6 DEF IsReading
<1>8. PICK t \in Moments(a, b) : Saw(h, k, g, sc, "files", t, a, b)
  BY DEF Seen
<1> DEFINE m == t.candidates
<1>9. m \in a..b /\ b \in m..b /\ SawFiles(h, k, g, m, b)
  BY <1>8, MomentsAre DEF Reals, Saw, SawTree
<1> HIDE DEF m
<1>10. ASSUME NEW q \in Paths, q # p PROVE SawFile(h, k, g2, q, m, b)
  <2>1. /\ q \in DOMAIN g2.candidates <=> q \in DOMAIN g.candidates
        /\ q \in DOMAIN g2.candidates => g2.candidates[q] = g.candidates[q]
        /\ q \in DOMAIN g2.unstaged <=> q \in DOMAIN g.unstaged
        /\ q \in DOMAIN g2.unstaged => g2.unstaged[q] = g.unstaged[q]
    BY <1>2, <1>3, <1>5, <1>10
  <2>2. SawFile(h, k, g, q, m, b)
    BY <1>9 DEF SawFiles
  <2> QED BY <2>1, <2>2 DEF SawFile
<1>11. SawFile(h, k, g2, p, m, b)
  <2>1. /\ p \in Chosen(k, h[m]) /\ c.entry = Plain(h[m].index[p]) /\ p \notin DOMAIN g2.candidates
        /\ k = "live" => (c.deleted <=> h[m].work[p] = Nothing)
        /\ SawFile(h, k, g, p, m, b)
    BY <1>1, <1>2, <1>3, <1>9 DEF SawFile, SawFiles
  <2>2. WasAt(h, p, f, m, b)
    BY <1>9 DEF WasAt
  <2>3. CASE IsUnchanged(c.entry, f)
    <3>1. f = Plain(h[m].index[p]) /\ more = g.unstaged
      BY <1>4, <1>5, <2>1, <2>3 DEF IsUnchanged
    <3> QED BY <1>2, <2>1, <2>2, <3>1 DEF SawFile
  <2>4. CASE ~IsUnchanged(c.entry, f)
    <3>1. f # Plain(h[m].index[p])
      <4>1. p \in Tracked(h[m]) /\ h[m] \in Repositories
        BY <1>9, <2>1 DEF Chosen, DiffFiles, Reals
      <4>2. Plain(h[m].index[p]) # Nothing
        BY <1>1, <4>1, RepositoryIs, PlainIs DEF Tracked
      <4> QED BY <1>4, <2>1, <2>4, <4>2 DEF IsUnchanged
    <3>2. p \in DOMAIN g2.unstaged /\ g2.unstaged[p].index = c.entry /\ g2.unstaged[p].work = f
      BY <1>2, <1>5, <2>4
    <3>3. k = "live" => (f = Nothing <=> h[m].work[p] = Nothing)
      BY <2>1
    <3> QED BY <2>1, <2>2, <3>1, <3>2, <3>3 DEF SawFile
  <2> QED BY <2>3, <2>4
<1>12. SawFiles(h, k, g2, m, b)
  BY <1>9, <1>10, <1>11 DEF SawFiles
<1>13. SawTree(h, k, g2, sc, "files", t, b)
  <2>1. SawUntracked(h, g2, t.untracked, b) /\ t.staged <= t.candidates
    BY <1>2, <1>8 DEF Saw, SawTree, SawUntracked, AfterUntracked, AfterStaged
  <2> QED BY <1>12, <2>1 DEF SawTree, m
<1>14. SawIndex(h, g2, sc, "files", t) /\ SawSparse(h, "files", a, b)
  BY <1>2, <1>8, FilesSeen DEF Saw, AfterStaged
<1>15. Unread(g2, "files")
  BY DEF Unread
<1> QED BY <1>7, <1>13, <1>14, <1>15 DEF Seen, Saw

LEMMA FileSees ==
  ASSUME NEW h, NEW k, NEW g, NEW sc, NEW a, NEW b, NEW g2, NEW p \in g.listed, NEW f,
         f = h[b].work[p], f # Nothing, ~IsSpecial(f),
         g2 = [g EXCEPT !.listed = g.listed \ {p}, !.untracked = Put(g.untracked, p, f)]
  PROVE  Sees(h, k, g, sc, g2, sc, "files", "files", a, b)
<1> SUFFICES ASSUME Reals(h, a, b), IsReading(g), Seen(h, k, g, sc, "files", a, b)
             PROVE  IsReading(g2) /\ Seen(h, k, g2, sc, "files", a, b)
  BY DEF Sees
<1>1. b \in a..b /\ h[b] \in Repositories /\ p \in Paths /\ f \in FileStates
  BY RepositoryIs DEF Reals, IsReading
<1>2. /\ g2.head = g.head /\ g2.staged = g.staged /\ g2.unstaged = g.unstaged
      /\ g2.candidates = g.candidates /\ g2.listed = g.listed \ {p}
      /\ g2.untracked = Put(g.untracked, p, f)
      /\ g2 = [head |-> g2.head, staged |-> g2.staged, unstaged |-> g2.unstaged,
               untracked |-> g2.untracked, candidates |-> g2.candidates, listed |-> g2.listed]
  BY DEF IsReading
<1>3. f \in [mode : Modes, blob : Blobs]
  BY <1>1 DEF FileStates, IsSpecial
<1>4. /\ DOMAIN g2.untracked = DOMAIN g.untracked \cup {p}
      /\ g2.untracked[p] = f
      /\ \A q \in DOMAIN g.untracked \ {p} : g2.untracked[q] = g.untracked[q]
      /\ g2.untracked = [q \in DOMAIN g.untracked \cup {p} |-> g2.untracked[q]]
  BY <1>2 DEF Put
<1>5. Over(g2.untracked, [mode : Modes, blob : Blobs])
  <2>1. Over(g.untracked, [mode : Modes, blob : Blobs])
    BY DEF IsReading
  <2>2. \A q \in DOMAIN g2.untracked : g2.untracked[q] \in [mode : Modes, blob : Blobs]
    BY <1>3, <1>4, <2>1 DEF Over
  <2> QED BY <1>1, <1>4, <2>1, <2>2 DEF Over
<1>6. IsReading(g2)
  BY <1>2, <1>5 DEF IsReading
<1>7. PICK t \in Moments(a, b) : Saw(h, k, g, sc, "files", t, a, b)
  BY DEF Seen
<1> DEFINE n == t.untracked
<1>8. n \in a..b /\ b \in n..b /\ SawUntracked(h, g, n, b)
  BY <1>7, MomentsAre DEF Reals, Saw, SawTree, AfterUntracked, AfterStaged
<1> HIDE DEF n
<1>9. WasAt(h, p, f, n, b)
  BY <1>8 DEF WasAt
<1>10. SawUntracked(h, g2, n, b)
  <2>1. g2.listed \cup DOMAIN g2.untracked = g.listed \cup DOMAIN g.untracked
    BY <1>2, <1>4
  <2>2. \A q \in DOMAIN g2.untracked : WasAt(h, q, g2.untracked[q], n, b)
    BY <1>4, <1>8, <1>9 DEF SawUntracked
  <2> QED BY <1>8, <2>1, <2>2 DEF SawUntracked
<1>11. \A q \in Paths : \A c : SawFile(h, k, g, q, c, b) => SawFile(h, k, g2, q, c, b)
  BY <1>2 DEF SawFile
<1>12. SawTree(h, k, g2, sc, "files", t, b)
  <2>1. SawFiles(h, k, g2, t.candidates, b) /\ t.staged <= t.candidates
    BY <1>7, <1>11 DEF Saw, SawTree, SawFiles
  <2> QED BY <1>10, <2>1 DEF SawTree, n
<1>13. SawIndex(h, g2, sc, "files", t) /\ SawSparse(h, "files", a, b)
  BY <1>2, <1>7, FilesSeen DEF Saw, AfterStaged
<1>14. Unread(g2, "files")
  BY DEF Unread
<1> QED BY <1>6, <1>12, <1>13, <1>14 DEF Seen, Saw

-----------------------------------------------------------------------------
(* The invariant: what every reading so far has seen.                       *)

\* The patches pt were read between m and q, with the accepted snapshot g before them.
StagedAt(h, g, pt, m, q) ==
  Steady(h, m, q) => pt.staged = Differences(g.head, IndexTree(h[q]))

Patched(h, k, g, pt, m, q) ==
  /\ Full(h, k, g, 1, m) /\ Full(h, k, g, m, q) /\ StagedAt(h, g, pt, m, q)
  /\ pt.unstaged = Differences(IndexTree(h[q]), WorkTree(h[q]))

\* The moment a at which the reading of turn t began: after the first snapshot f
\* of the pair, and with the patches before it.
Begun(h, k, t, f, g, pt, a) ==
  /\ t = 1 => a = 1
  /\ t = 2 => Full(h, k, f, 1, a)
  /\ t = 3 => k = "live" /\ \E m \in 1..a : Patched(h, k, g, pt, m, a)
  /\ t = 4 => k = "live" /\ \E q \in 1..a : Full(h, k, f, q, a) /\ \E m \in 1..q : Patched(h, k, g, pt, m, q)

\* A snapshot that was taken twice, the last time until b.
Twice(h, k, g, b) == \E m \in 1..b : Full(h, k, g, 1, m) /\ Full(h, k, g, m, b)

\* A bundle whose snapshot was taken twice before its patches and twice after them.
Bundled(h, k, g, pt, b) ==
  \E l \in 1..b : \E q \in 1..l : \E m \in 1..q :
     Patched(h, k, g, pt, m, q) /\ Full(h, k, g, q, l) /\ Full(h, k, g, l, b)

ReadingOK ==
  pc \in Reads =>
    \E a \in 1..Now : /\ Begun(History, kind, turn, first, before, patches, a)
                      /\ Seen(History, kind, got, scan, pc, a, Now)

PatchingOK ==
  pc \in {"staged_patch", "unstaged_patch"} =>
    /\ turn = 2 /\ kind = "live" /\ before = got
    /\ \E m \in 1..Now :
         /\ Full(History, kind, before, 1, m) /\ Full(History, kind, before, m, Now)
         /\ pc = "unstaged_patch" => StagedAt(History, before, patches, m, Now)

AcceptedOK ==
  pc = "accepted" =>
    /\ kind = "readonly" => Twice(History, kind, got, Now)
    /\ kind = "live" => Bundled(History, kind, before, patches, Now)

CaptureInvariant == TypeOK /\ ReadingOK /\ PatchingOK /\ AcceptedOK

LEMMA AgreeBelow ==
  ASSUME NEW h, NEW h2, NEW b, Agree(h, h2, 1, b), NEW a \in 1..b, NEW c \in a..b
  PROVE  Agree(h, h2, a, c) /\ h2[c] = h[c]
BY DEF Agree

LEMMA StagedInBoth ==
  ASSUME NEW h, NEW h2, NEW g, NEW pt, NEW m, NEW q, Agree(h, h2, m, q), StagedAt(h, g, pt, m, q)
  PROVE  StagedAt(h2, g, pt, m, q)
<1>1. q \in m..q /\ \A i \in m..q : h2[i] = h[i]
  BY DEF Agree
<1> QED BY <1>1 DEF StagedAt, Steady

LEMMA PatchedInBoth ==
  ASSUME NEW h, NEW h2, NEW k, NEW g, NEW pt, NEW q \in Nat, NEW m \in 1..q, Agree(h, h2, 1, q),
         Patched(h, k, g, pt, m, q)
  PROVE  Patched(h2, k, g, pt, m, q)
<1>1. Agree(h, h2, 1, m) /\ Agree(h, h2, m, q) /\ h2[q] = h[q]
  BY DEF Agree
<1> QED BY <1>1, FullInBoth, StagedInBoth DEF Patched

LEMMA BegunInBoth ==
  ASSUME NEW h, NEW h2, NEW k, NEW t, NEW f, NEW g, NEW pt, NEW a \in Nat, Agree(h, h2, 1, a),
         Begun(h, k, t, f, g, pt, a)
  PROVE  Begun(h2, k, t, f, g, pt, a)
<1>1. t = 2 => Full(h2, k, f, 1, a)
  BY FullInBoth DEF Begun
<1>2. ASSUME t = 3 PROVE k = "live" /\ \E m \in 1..a : Patched(h2, k, g, pt, m, a)
  BY <1>2, PatchedInBoth DEF Begun
<1>3. ASSUME t = 4
      PROVE  k = "live" /\ \E q \in 1..a : Full(h2, k, f, q, a) /\ \E m \in 1..q : Patched(h2, k, g, pt, m, q)
  <2>1. PICK q \in 1..a : Full(h, k, f, q, a) /\ \E m \in 1..q : Patched(h, k, g, pt, m, q)
    BY <1>3 DEF Begun
  <2>2. PICK m \in 1..q : Patched(h, k, g, pt, m, q)
    BY <2>1
  <2>3. q \in Nat /\ Agree(h, h2, 1, q) /\ Agree(h, h2, q, a)
    BY DEF Agree
  <2> QED BY <1>3, <2>1, <2>2, <2>3, FullInBoth, PatchedInBoth DEF Begun
<1> QED BY <1>1, <1>2, <1>3 DEF Begun

\* Any history that is now real is real up to now.
LEMMA HistoryReals ==
  ASSUME TypeOK, NEW a \in 1..Now
  PROVE  Reals(History, a, Now)
<1>1. /\ past \in Seq(Repositories) /\ Now \in Nat \ {0} /\ History[Now] = repo /\ Len(past) \in Nat
      /\ \A i \in 1..Now : History[i] \in Repositories
      /\ \A i \in 1..Len(past) : History[i] = past[i]
  BY HistoryIs DEF TypeOK
<1>2. ASSUME NEW i \in 1..Now PROVE StatIsTrue(History[i])
  <2>1. i = Now \/ i \in 1..Len(past)
    BY <1>1 DEF Now
  <2> QED BY <1>1, <2>1 DEF TypeOK
<1> QED BY <1>1, <1>2 DEF Reals

-----------------------------------------------------------------------------
(* Users and Git.                                                           *)

Fields(r) == [head |-> r.head, index |-> r.index, work |-> r.work, touched |-> r.touched, sparse |-> r.sparse]

Edited(r, p, x, t) == [r EXCEPT !.work[p] = x, !.touched = t]
StagedAs(r, p, x, t) == [r EXCEPT !.touched = t, !.index[p] = x]

LEMMA EditedIs ==
  ASSUME NEW r, r = Fields(r), NEW p, NEW x, NEW t
  PROVE  Edited(r, p, x, t) =
           [head |-> r.head, index |-> r.index, work |-> [r.work EXCEPT ![p] = x],
            touched |-> t, sparse |-> r.sparse]
<1> DEFINE y == [r.work EXCEPT ![p] = x]
           u == [r EXCEPT !.work = y]
<1> HIDE DEF y
<1>1. u = [head |-> r.head, index |-> r.index, work |-> y, touched |-> r.touched, sparse |-> r.sparse]
  BY DEF Fields
<1> HIDE DEF u
<1>2. [u EXCEPT !.touched = t] =
        [head |-> r.head, index |-> r.index, work |-> y, touched |-> t, sparse |-> r.sparse]
  BY <1>1
<1> USE DEF u, y
<1> QED BY <1>2, Zenon DEF Edited

LEMMA StagedIs ==
  ASSUME NEW r, r = Fields(r), NEW p, NEW x, NEW t
  PROVE  StagedAs(r, p, x, t) =
           [head |-> r.head, index |-> [r.index EXCEPT ![p] = x], work |-> r.work,
            touched |-> t, sparse |-> r.sparse]
<1> DEFINE v == [r EXCEPT !.touched = t]
<1>1. v = [head |-> r.head, index |-> r.index, work |-> r.work, touched |-> t, sparse |-> r.sparse]
  BY DEF Fields
<1>2. v.index = r.index
  OBVIOUS
<1> HIDE DEF v
<1> DEFINE y == [r.index EXCEPT ![p] = x]
<1> HIDE DEF y
<1>3. [v EXCEPT !.index = y] =
        [head |-> r.head, index |-> y, work |-> r.work, touched |-> t, sparse |-> r.sparse]
  BY <1>1
<1>4. [v EXCEPT !.index = [v.index EXCEPT ![p] = x]] = [v EXCEPT !.index = y]
  BY <1>2, Zenon DEF y
<1>5. [v EXCEPT !.index = [v.index EXCEPT ![p] = x]] =
        [head |-> r.head, index |-> [r.index EXCEPT ![p] = x], work |-> r.work,
         touched |-> t, sparse |-> r.sparse]
  BY <1>3, <1>4, Zenon DEF y
<1> USE DEF v
<1> QED BY <1>5, Zenon DEF StagedAs

LEMMA ChangeIs ==
  ASSUME TypeOK, NEW r, Change(r), r \in Repositories, StatIsTrue(r)
  PROVE  /\ repo' \in Repositories /\ StatIsTrue(repo') /\ past' = Append(past, repo)
         /\ UNCHANGED capture /\ pc \notin {"accepted", "refused"}
BY DEF Change

LEMMA EnvironmentIs ==
  ASSUME TypeOK, Environment
  PROVE  /\ repo' \in Repositories /\ StatIsTrue(repo') /\ past' = Append(past, repo)
         /\ UNCHANGED capture /\ pc \notin {"accepted", "refused"}
<1> DEFINE Goal == /\ repo' \in Repositories /\ StatIsTrue(repo') /\ past' = Append(past, repo)
                   /\ UNCHANGED capture /\ pc \notin {"accepted", "refused"}
<1>1. repo \in Repositories /\ StatIsTrue(repo)
  BY DEF TypeOK
<1>2. repo = Fields(repo)
  BY <1>1 DEF Repositories, Fields
<1>3. ASSUME NEW p \in Paths, NEW f \in Files[p] \cup {Nothing}, Edit(p, f) PROVE Goal
  <2> DEFINE r == [repo EXCEPT !.work[p] = f, !.touched = @ \cup ({p} \cap Tracked(repo))]
  <2>1. f \in FileStates
    BY CaptureAssumption DEF FileStates
  <2>2. /\ r.head = repo.head /\ r.index = repo.index /\ r.work = [repo.work EXCEPT ![p] = f]
        /\ r.touched = repo.touched \cup ({p} \cap Tracked(repo)) /\ r.sparse = repo.sparse
        /\ r = [head |-> r.head, index |-> r.index, work |-> r.work, touched |-> r.touched, sparse |-> r.sparse]
    <3>1. r = [head |-> repo.head, index |-> repo.index, work |-> [repo.work EXCEPT ![p] = f],
               touched |-> repo.touched \cup ({p} \cap Tracked(repo)), sparse |-> repo.sparse]
      <4> DEFINE t == repo.touched \cup ({p} \cap Tracked(repo))
      <4>1. r = Edited(repo, p, f, t)
        BY Zenon DEF Edited
      <4> HIDE DEF r, t
      <4>2. r = [head |-> repo.head, index |-> repo.index, work |-> [repo.work EXCEPT ![p] = f],
                 touched |-> t, sparse |-> repo.sparse]
        BY <1>2, <4>1, EditedIs
      <4> QED BY <4>2 DEF t
    <3> HIDE DEF r
    <3> QED BY <3>1
  <2>3. Change(r)
    BY <1>3 DEF Edit
  <2> HIDE DEF r
  <2>4. r.work \in [Paths -> FileStates] /\ r.touched \subseteq Paths /\ Tracked(r) = Tracked(repo)
    BY <1>1, <2>1, <2>2, RepositoryIs DEF Tracked
  <2>5. r \in Repositories
    BY <1>1, <2>2, <2>4, RepositoryIs DEF Repositories
  <2>6. StatIsTrue(r)
    <3>1. ASSUME NEW q \in Tracked(r) \ r.touched
          PROVE  /\ q \in Tracked(repo) \ repo.touched /\ q # p
                 /\ r.work[q] = repo.work[q] /\ r.index[q] = repo.index[q]
      BY <1>1, <2>2, <2>4, RepositoryIs DEF Tracked
    <3> QED BY <1>1, <3>1 DEF StatIsTrue
  <2> QED BY <2>3, <2>5, <2>6, ChangeIs
<1>4. ASSUME NEW p \in Paths, Touch(p) PROVE Goal
  <2> DEFINE r == [repo EXCEPT !.touched = @ \cup {p}]
  <2>1. /\ r.head = repo.head /\ r.index = repo.index /\ r.work = repo.work
        /\ r.touched = repo.touched \cup {p} /\ r.sparse = repo.sparse
        /\ r = [head |-> r.head, index |-> r.index, work |-> r.work, touched |-> r.touched, sparse |-> r.sparse]
    BY <1>2 DEF Fields
  <2>2. Change(r)
    BY <1>4 DEF Touch
  <2> HIDE DEF r
  <2>3. r \in Repositories
    BY <1>1, <2>1, RepositoryIs DEF Repositories
  <2>4. StatIsTrue(r)
    BY <1>1, <2>1 DEF StatIsTrue, Tracked
  <2> QED BY <2>2, <2>3, <2>4, ChangeIs
<1>5. ASSUME NEW p \in Paths, Stage(p) PROVE Goal
  <2> DEFINE f == repo.work[p]
             e == IF f = Nothing THEN Nothing
                  ELSE [mode |-> f.mode, blob |-> Cleaned(p, f).blob, flag |-> "plain"]
             r == [repo EXCEPT !.touched = @ \ {p}, !.index[p] = e]
  <2>1. f \in FileStates /\ ~IsSpecial(f)
    BY <1>1, <1>5, RepositoryIs DEF Stage
  <2>2. e \in IndexEntries
    <3>1. CASE f = Nothing
      BY <3>1 DEF IndexEntries
    <3>2. CASE f # Nothing
      <4>1. f.mode \in Modes /\ f.blob \in Blobs
        BY <2>1, <3>2 DEF FileStates, IsSpecial
      <4>2. Cleaned(p, f).blob \in Blobs
        BY <4>1, SnapshotsAssumption DEF Cleaned
      <4>3. e = [mode |-> f.mode, blob |-> Cleaned(p, f).blob, flag |-> "plain"]
        BY <3>2
      <4> HIDE DEF e, f
      <4>4. e \in [mode : Modes, blob : Blobs, flag : Flags]
        BY <4>1, <4>2, <4>3 DEF Flags
      <4> QED BY <4>4 DEF IndexEntries
    <3> QED BY <3>1, <3>2
  <2>3. Change(r)
    BY <1>5 DEF Stage
  <2> HIDE DEF e
  <2>4. /\ r.head = repo.head /\ r.index = [repo.index EXCEPT ![p] = e] /\ r.work = repo.work
        /\ r.touched = repo.touched \ {p} /\ r.sparse = repo.sparse
        /\ r = [head |-> r.head, index |-> r.index, work |-> r.work, touched |-> r.touched, sparse |-> r.sparse]
    <3>1. r = [head |-> repo.head, index |-> [repo.index EXCEPT ![p] = e], work |-> repo.work,
               touched |-> repo.touched \ {p}, sparse |-> repo.sparse]
      <4>1. r = StagedAs(repo, p, e, repo.touched \ {p})
        BY Zenon DEF StagedAs
      <4> HIDE DEF r
      <4> QED BY <1>2, <4>1, StagedIs
    <3> HIDE DEF r
    <3> QED BY <3>1
  <2> HIDE DEF r
  <2>5. r.index \in [Paths -> IndexEntries] /\ r.index[p] = e /\ \A q \in Paths \ {p} : r.index[q] = repo.index[q]
    BY <1>1, <2>2, <2>4, RepositoryIs
  <2>6. r \in Repositories
    BY <1>1, <2>4, <2>5, RepositoryIs DEF Repositories
  <2>7. StatIsTrue(r)
    <3>1. ASSUME p \in Tracked(r)
          PROVE  \/ r.work[p] = Plain(r.index[p])
                 \/ p \in Converted /\ r.work[p] # Nothing /\ r.work[p].mode = r.index[p].mode
      <4>1. f # Nothing /\ e = [mode |-> f.mode, blob |-> Cleaned(p, f).blob, flag |-> "plain"]
        BY <2>5, <3>1 DEF Tracked, e
      <4>2. f = [mode |-> f.mode, blob |-> f.blob] /\ e # Nothing
        BY <2>1, <2>5, <3>1, <4>1 DEF FileStates, Tracked
      <4>3. Plain(e) = [mode |-> f.mode, blob |-> Cleaned(p, f).blob]
        BY <4>1, <4>2 DEF Plain
      <4>4. p \notin Converted => Cleaned(p, f).blob = f.blob
        BY DEF Cleaned
      <4>5. r.work[p] = f /\ r.index[p] = e /\ e.mode = f.mode
        BY <2>4, <2>5, <4>1
      <4> HIDE DEF f
      <4> QED BY <4>1, <4>2, <4>3, <4>4, <4>5
    <3>2. ASSUME NEW q \in Tracked(r) \ r.touched, q # p
          PROVE  /\ q \in Tracked(repo) \ repo.touched
                 /\ r.work[q] = repo.work[q] /\ r.index[q] = repo.index[q]
      BY <2>4, <2>5, <3>2 DEF Tracked
    <3> QED BY <1>1, <3>1, <3>2 DEF StatIsTrue
  <2> QED BY <2>3, <2>6, <2>7, ChangeIs
<1>6. ASSUME NEW p \in Paths, NEW flag \in Flags \ {"added"}, Mark(p, flag) PROVE Goal
  <2> DEFINE e == [repo.index[p] EXCEPT !.flag = flag]
             r == [repo EXCEPT !.index[p].flag = flag]
  <2>1. repo.index[p] # Nothing /\ repo.index[p] \in [mode : Modes, blob : Blobs, flag : Flags]
    BY <1>1, <1>6, RepositoryIs DEF Mark, Tracked, IndexEntries
  <2>2. e \in [mode : Modes, blob : Blobs, flag : Flags] /\ e.mode = repo.index[p].mode /\ e.blob = repo.index[p].blob
    BY <2>1
  <2>3. Change(r)
    BY <1>6 DEF Mark
  <2>4. /\ r.head = repo.head /\ r.index = [repo.index EXCEPT ![p] = e] /\ r.work = repo.work
        /\ r.touched = repo.touched /\ r.sparse = repo.sparse
        /\ r = [head |-> r.head, index |-> r.index, work |-> r.work, touched |-> r.touched, sparse |-> r.sparse]
    BY <1>2 DEF Fields
  <2> HIDE DEF r, e
  <2>5. e # Nothing /\ e \in IndexEntries
    BY <2>2, NothingIsApart DEF IndexEntries
  <2>6. r.index \in [Paths -> IndexEntries] /\ r.index[p] = e /\ \A q \in Paths \ {p} : r.index[q] = repo.index[q]
    BY <1>1, <2>4, <2>5, RepositoryIs
  <2>7. r \in Repositories
    BY <1>1, <2>4, <2>6, RepositoryIs DEF Repositories
  <2>8. StatIsTrue(r)
    <3>1. \A q \in Paths : (r.index[q] = Nothing <=> repo.index[q] = Nothing)
      BY <2>1, <2>5, <2>6
    <3>2. Plain(e) = Plain(repo.index[p])
      BY <2>1, <2>2, <2>5 DEF Plain
    <3>3. ASSUME NEW q \in Tracked(r) \ r.touched
          PROVE  /\ q \in Tracked(repo) \ repo.touched /\ r.work[q] = repo.work[q]
                 /\ Plain(r.index[q]) = Plain(repo.index[q]) /\ r.index[q].mode = repo.index[q].mode
      <4>1. q \in Tracked(repo) \ repo.touched /\ r.work[q] = repo.work[q] /\ q \in Paths
        BY <2>4, <3>1 DEF Tracked
      <4>2. CASE q = p
        BY <2>2, <2>6, <3>2, <4>1, <4>2
      <4>3. CASE q # p
        BY <2>6, <4>1, <4>3
      <4> QED BY <4>1, <4>2, <4>3
    <3> QED BY <1>1, <3>3 DEF StatIsTrue
  <2> QED BY <2>3, <2>7, <2>8, ChangeIs
<1>7. ASSUME Commit PROVE Goal
  <2> DEFINE r == [repo EXCEPT !.head = IndexTree(repo)]
  <2>1. /\ r.head = IndexTree(repo) /\ r.index = repo.index /\ r.work = repo.work
        /\ r.touched = repo.touched /\ r.sparse = repo.sparse
        /\ r = [head |-> r.head, index |-> r.index, work |-> r.work, touched |-> r.touched, sparse |-> r.sparse]
    BY <1>2 DEF Fields
  <2>2. Change(r)
    BY <1>7 DEF Commit
  <2> HIDE DEF r
  <2>3. r.head \in Trees
    BY <1>1, <2>1, RepositoryIs, IndexReadBack
  <2>4. r \in Repositories
    BY <1>1, <2>1, <2>3, RepositoryIs DEF Repositories
  <2>5. StatIsTrue(r)
    BY <1>1, <2>1 DEF StatIsTrue, Tracked
  <2> QED BY <2>2, <2>4, <2>5, ChangeIs
<1>8. ASSUME NEW mode \in SparseModes, Sparse(mode) PROVE Goal
  <2> DEFINE r == [repo EXCEPT !.sparse = (@ \cup {mode}) \ (@ \cap {mode})]
  <2>1. /\ r.head = repo.head /\ r.index = repo.index /\ r.work = repo.work
        /\ r.touched = repo.touched /\ r.sparse = (repo.sparse \cup {mode}) \ (repo.sparse \cap {mode})
        /\ r = [head |-> r.head, index |-> r.index, work |-> r.work, touched |-> r.touched, sparse |-> r.sparse]
    BY <1>2 DEF Fields
  <2>2. Change(r)
    BY <1>8 DEF Sparse
  <2> HIDE DEF r
  <2>3. r.sparse \subseteq SparseModes
    BY <1>1, <2>1, RepositoryIs
  <2>4. r \in Repositories
    BY <1>1, <2>1, <2>3, RepositoryIs DEF Repositories
  <2>5. StatIsTrue(r)
    BY <1>1, <2>1 DEF StatIsTrue, Tracked
  <2> QED BY <2>2, <2>4, <2>5, ChangeIs
<1>9. ASSUME NEW p \in Paths, IntentToAdd(p) PROVE Goal
  <2> DEFINE e == [mode |-> repo.work[p].mode, blob |-> Empty, flag |-> "added"]
             r == [repo EXCEPT !.touched = @ \cup {p}, !.index[p] = e]
  <2>1. repo.work[p] \in FileStates /\ repo.work[p] # Nothing /\ ~IsSpecial(repo.work[p])
    BY <1>1, <1>9, RepositoryIs DEF IntentToAdd
  <2>2. e \in IndexEntries
    <3>1. repo.work[p].mode \in Modes
      BY <2>1 DEF FileStates, IsSpecial
    <3> QED BY <3>1, CaptureAssumption DEF IndexEntries, Flags
  <2>3. Change(r)
    BY <1>9 DEF IntentToAdd
  <2> HIDE DEF e
  <2>4. /\ r.head = repo.head /\ r.index = [repo.index EXCEPT ![p] = e] /\ r.work = repo.work
        /\ r.touched = repo.touched \cup {p} /\ r.sparse = repo.sparse
        /\ r = [head |-> r.head, index |-> r.index, work |-> r.work, touched |-> r.touched, sparse |-> r.sparse]
    <3>1. r = [head |-> repo.head, index |-> [repo.index EXCEPT ![p] = e], work |-> repo.work,
               touched |-> repo.touched \cup {p}, sparse |-> repo.sparse]
      <4>1. r = StagedAs(repo, p, e, repo.touched \cup {p})
        BY Zenon DEF StagedAs
      <4> HIDE DEF r
      <4> QED BY <1>2, <4>1, StagedIs
    <3> HIDE DEF r
    <3> QED BY <3>1
  <2> HIDE DEF r
  <2>5. r.index \in [Paths -> IndexEntries] /\ \A q \in Paths \ {p} : r.index[q] = repo.index[q]
    BY <1>1, <2>2, <2>4, RepositoryIs
  <2>6. r \in Repositories
    BY <1>1, <2>4, <2>5, RepositoryIs DEF Repositories
  <2>7. StatIsTrue(r)
    <3>1. ASSUME NEW q \in Tracked(r) \ r.touched
          PROVE  /\ q \in Tracked(repo) \ repo.touched
                 /\ r.work[q] = repo.work[q] /\ r.index[q] = repo.index[q]
      BY <2>4, <2>5 DEF Tracked
    <3> QED BY <1>1, <3>1 DEF StatIsTrue
  <2> QED BY <2>3, <2>6, <2>7, ChangeIs
<1> QED BY <1>3, <1>4, <1>5, <1>6, <1>7, <1>8, <1>9 DEF Environment

LEMMA EnvironmentKeeps ==
  ASSUME CaptureInvariant, Environment
  PROVE  CaptureInvariant'
<1> DEFINE h == History
           h2 == History'
<1>1. /\ repo' \in Repositories /\ StatIsTrue(repo') /\ past' = Append(past, repo)
      /\ UNCHANGED capture /\ pc \notin {"accepted", "refused"} /\ TypeOK
  BY EnvironmentIs DEF CaptureInvariant
<1>2. TypeOK'
  <2>1. past' \in Seq(Repositories) /\ past' = Append(past, repo)
    BY <1>1, HistoryGrows DEF TypeOK
  <2>2. \A i \in 1..Len(past') : StatIsTrue(past'[i])
    <3>1. ASSUME NEW i \in 1..Len(past') PROVE past'[i] = repo \/ (i \in 1..Len(past) /\ past'[i] = past[i])
      BY <2>1, <1>1 DEF TypeOK
    <3> QED BY <1>1, <3>1 DEF TypeOK
  <2> QED BY <1>1, <2>1, <2>2 DEF TypeOK, capture
<1>3. /\ Now \in Nat \ {0} /\ Now' = Now + 1 /\ \A i \in 1..Now : h2[i] = h[i]
      /\ h[Now] = repo /\ h2[Now + 1] = repo'
  BY <1>1, HistoryIs, HistoryGrows DEF TypeOK
<1>4. ASSUME NEW a \in 1..Now
      PROVE  /\ Agree(h, h2, a, Now) /\ Agree(h, h2, 1, a) /\ a \in Nat /\ a \in 1..(Now + 1)
  BY <1>3 DEF Agree
<1> HIDE DEF h, h2
<1>5. /\ pc' = pc /\ kind' = kind /\ turn' = turn /\ scan' = scan /\ got' = got /\ first' = first
      /\ before' = before /\ patches' = patches
  BY <1>1 DEF capture
<1>6. ASSUME pc \in Reads
      PROVE  \E a \in 1..(Now + 1) : Begun(h2, kind, turn, first, before, patches, a)
                                     /\ Seen(h2, kind, got, scan, pc, a, Now + 1)
  <2>1. PICK a \in 1..Now : Begun(h, kind, turn, first, before, patches, a) /\ Seen(h, kind, got, scan, pc, a, Now)
    BY <1>6 DEF CaptureInvariant, ReadingOK, h
  <2>2. Begun(h2, kind, turn, first, before, patches, a)
    BY <1>4, <2>1, BegunInBoth
  <2>3. Seen(h2, kind, got, scan, pc, a, Now + 1)
    BY <1>3, <1>4, <2>1, SeenGrows
  <2> QED BY <1>4, <2>2, <2>3
<1>7. ReadingOK'
  BY <1>3, <1>5, <1>6 DEF ReadingOK, h2
<1>8. ASSUME pc \in {"staged_patch", "unstaged_patch"}
      PROVE  /\ turn = 2 /\ kind = "live" /\ before = got
             /\ \E m \in 1..(Now + 1) :
                  /\ Full(h2, kind, before, 1, m) /\ Full(h2, kind, before, m, Now + 1)
                  /\ pc = "unstaged_patch" => StagedAt(h2, before, patches, m, Now + 1)
  <2>1. turn = 2 /\ kind = "live" /\ before = got
    BY <1>8 DEF CaptureInvariant, PatchingOK
  <2>2. PICK m \in 1..Now : /\ Full(h, kind, before, 1, m) /\ Full(h, kind, before, m, Now)
                            /\ pc = "unstaged_patch" => StagedAt(h, before, patches, m, Now)
    BY <1>8 DEF CaptureInvariant, PatchingOK, h
  <2>3. Full(h2, kind, before, 1, m) /\ Full(h2, kind, before, m, Now + 1)
    BY <1>3, <1>4, <2>2, FullInBoth, FullGrows
  <2>4. ASSUME StagedAt(h, before, patches, m, Now) PROVE StagedAt(h2, before, patches, m, Now + 1)
    <3>1. StagedAt(h2, before, patches, m, Now)
      BY <1>4, <2>4, StagedInBoth
    <3>2. ASSUME Steady(h2, m, Now + 1)
          PROVE  Steady(h2, m, Now) /\ IndexTree(h2[Now]) = IndexTree(h2[Now + 1])
      <4>1. Now \in m..(Now + 1) /\ \A i \in m..Now : i \in m..(Now + 1)
        BY <1>3
      <4> QED BY <3>2, <4>1 DEF Steady
    <3> QED BY <3>1, <3>2 DEF StagedAt
  <2> QED BY <1>4, <2>1, <2>2, <2>3, <2>4
<1>9. PatchingOK'
  BY <1>3, <1>5, <1>8 DEF PatchingOK, h2
<1>10. AcceptedOK'
  BY <1>1, <1>5 DEF AcceptedOK
<1> QED BY <1>2, <1>7, <1>9, <1>10 DEF CaptureInvariant

-----------------------------------------------------------------------------
(* The capture.                                                             *)

-----------------------------------------------------------------------------
(* The capture.                                                             *)

LEMMA PlacesAre ==
  Reads = {"head", "unmerged", "flags", "visible", "invisible", "sparse_checkout", "sparse_index",
           "ignored", "walk", "looks", "check_ignore", "untracked", "names", "staged", "unstaged",
           "kinds", "files"}
BY DEF Reads, AfterHead, AfterUnmerged, AfterFlags, AfterVisible, AfterInvisible, AfterCheckout,
       AfterSparse, AfterUntracked, AfterStaged

\* A step of a reading from w to v, seen whenever the reading began.
Sighted(w, v) ==
  \A a \in 1..Now : Sees(History, kind, got, scan, got', scan', w, v, a, Now)

LEMMA ReadingKeeps ==
  ASSUME CaptureInvariant, Reading, NEW w \in Reads, NEW v \in Reads, Step(w, v), Sighted(w, v)
  PROVE  CaptureInvariant'
<1>1. /\ repo' = repo /\ past' = past /\ kind' = kind /\ turn' = turn /\ first' = first
      /\ before' = before /\ patches' = patches /\ Now' = Now /\ History' = History /\ TypeOK
      /\ pc = w /\ pc' = v
  BY HistoryRests DEF Reading, CaptureInvariant, Step
<1>2. PICK a \in 1..Now : /\ Begun(History, kind, turn, first, before, patches, a)
                          /\ Seen(History, kind, got, scan, pc, a, Now)
  BY <1>1 DEF CaptureInvariant, ReadingOK
<1>3. Reals(History, a, Now) /\ IsReading(got) /\ IsScan(scan)
  BY <1>1, HistoryReals DEF TypeOK
<1>4. IsReading(got') /\ IsScan(scan') /\ Seen(History, kind, got', scan', pc', a, Now)
  BY <1>1, <1>2, <1>3 DEF Sees, Sighted
<1>5. TypeOK'
  BY <1>1, <1>4 DEF TypeOK
<1>6. ReadingOK'
  BY <1>1, <1>2, <1>4 DEF ReadingOK
<1>7. PatchingOK' /\ AcceptedOK'
  BY <1>1, PlacesAre DEF PatchingOK, AcceptedOK
<1> QED BY <1>5, <1>6, <1>7 DEF CaptureInvariant

LEMMA RefuseKeeps ==
  ASSUME CaptureInvariant, NEW from, Refuse(from)
  PROVE  CaptureInvariant'
<1>1. /\ repo' = repo /\ past' = past /\ kind' = kind /\ turn' = turn /\ first' = first /\ got' = got
      /\ scan' = scan /\ before' = before /\ patches' = patches /\ pc' = "refused" /\ TypeOK
  BY DEF Refuse, Reading, Step, CaptureInvariant
<1>2. TypeOK'
  BY <1>1 DEF TypeOK
<1>3. ReadingOK' /\ PatchingOK' /\ AcceptedOK'
  BY <1>1, PlacesAre DEF ReadingOK, PatchingOK, AcceptedOK
<1> QED BY <1>2, <1>3 DEF CaptureInvariant

LEMMA FlaggedIs ==
  ASSUME TypeOK, NEW flag, Flagged(flag) = {}
  PROVE  NoFlag(History[Now], flag)
BY HistoryIs DEF TypeOK, Flagged, NoFlag

\* The queries about the index before the files.
LEMMA IndexQueriesKeep ==
  ASSUME CaptureInvariant,
         \/ ReadHead \/ RequireMerged \/ RequireSupportedIndexFlags \/ ReadVisible
         \/ RequireSameInvisible \/ RequireNoSparseMode \/ ReadIndexPaths \/ ReadStaged
  PROVE  CaptureInvariant'
<1>1. repo = History[Now] /\ TypeOK /\ kind \in {"live", "readonly"}
  BY HistoryIs DEF CaptureInvariant, TypeOK
<1>2. CASE ReadHead
  <2>1. Step("head", "unmerged") /\ Reading /\ scan' = scan /\ got' = [Blank EXCEPT !.head = History[Now].head]
    BY <1>1, <1>2 DEF ReadHead
  <2>2. Sighted("head", "unmerged")
    BY <2>1, HeadSees DEF Sighted
  <2> QED BY <2>1, <2>2, ReadingKeeps, PlacesAre
<1>3. CASE RequireMerged
  <2>1. CASE Refuse("unmerged")
    BY <2>1, RefuseKeeps
  <2>2. CASE ~Refuse("unmerged")
    <3>1. Step("unmerged", "flags") /\ Reading /\ scan' = scan /\ got' = got /\ Flagged("unmerged") = {}
      BY <1>3, <2>2 DEF RequireMerged, Require
    <3>2. Sighted("unmerged", "flags")
      BY <1>1, <3>1, FlaggedIs, MergedSees DEF Sighted
    <3> QED BY <3>1, <3>2, ReadingKeeps, PlacesAre
  <2> QED BY <2>1, <2>2
<1>4. CASE RequireSupportedIndexFlags
  <2>1. CASE Refuse("flags")
    BY <2>1, RefuseKeeps
  <2>2. CASE ~Refuse("flags")
    <3>1. Step("flags", "visible") /\ Reading /\ scan' = scan /\ got' = got /\ Flagged("hidden") = {}
      BY <1>4, <2>2 DEF RequireSupportedIndexFlags, Require
    <3>2. Sighted("flags", "visible")
      BY <1>1, <3>1, FlaggedIs, FlagsSee DEF Sighted
    <3> QED BY <3>1, <3>2, ReadingKeeps, PlacesAre
  <2> QED BY <2>1, <2>2
<1>5. CASE ReadVisible
  <2>1. /\ Step("visible", "invisible") /\ Reading /\ got' = got
        /\ scan' = [scan EXCEPT !.visible = DiffVisible(History[Now])]
    BY <1>1, <1>5 DEF ReadVisible
  <2>2. Sighted("visible", "invisible")
    BY <2>1, VisibleSees DEF Sighted
  <2> QED BY <2>1, <2>2, ReadingKeeps, PlacesAre
<1>6. CASE RequireSameInvisible
  <2>1. CASE Refuse("invisible")
    BY <2>1, RefuseKeeps
  <2>2. CASE ~Refuse("invisible")
    <3>1. /\ Step("invisible", "sparse_checkout") /\ Reading /\ scan' = Idle /\ got' = got
          /\ DiffInvisible(History[Now]) = scan.visible
      BY <1>1, <1>6, <2>2 DEF RequireSameInvisible
    <3>2. Sighted("invisible", "sparse_checkout")
      BY <3>1, InvisibleSees DEF Sighted
    <3> QED BY <3>1, <3>2, ReadingKeeps, PlacesAre
  <2> QED BY <2>1, <2>2
<1>7. CASE RequireNoSparseMode
  <2>1. CASE Refuse("sparse_checkout") \/ Refuse("sparse_index")
    BY <2>1, RefuseKeeps
  <2>2. CASE ~Refuse("sparse_checkout") /\ ~Refuse("sparse_index")
    <3>1. /\ Reading /\ scan' = scan /\ got' = got
          /\ \/ Step("sparse_checkout", "sparse_index") /\ "checkout" \notin History[Now].sparse
             \/ Step("sparse_index", "ignored") /\ "index" \notin History[Now].sparse
      BY <1>1, <1>7, <2>2 DEF RequireNoSparseMode, Require
    <3>2. CASE Step("sparse_checkout", "sparse_index") /\ "checkout" \notin History[Now].sparse
      <4>1. Sighted("sparse_checkout", "sparse_index")
        BY <3>1, <3>2, SparseSees DEF Sighted
      <4> QED BY <3>1, <3>2, <4>1, ReadingKeeps, PlacesAre
    <3>3. CASE Step("sparse_index", "ignored") /\ "index" \notin History[Now].sparse
      <4>1. Sighted("sparse_index", "ignored")
        BY <3>1, <3>3, SparseSees DEF Sighted
      <4> QED BY <3>1, <3>3, <4>1, ReadingKeeps, PlacesAre
    <3> QED BY <3>1, <3>2, <3>3
  <2> QED BY <2>1, <2>2
<1>8. CASE ReadIndexPaths
  <2>1. CASE Refuse("names")
    BY <2>1, RefuseKeeps
  <2>2. CASE ~Refuse("names")
    <3>1. Step("names", "staged") /\ Reading /\ scan' = scan /\ got' = got
      BY <1>8, <2>2 DEF ReadIndexPaths, Require
    <3>2. Sighted("names", "staged")
      BY <3>1, WalkSees DEF Sighted
    <3> QED BY <3>1, <3>2, ReadingKeeps, PlacesAre
  <2> QED BY <2>1, <2>2
<1>9. CASE ReadStaged
  <2>1. CASE Refuse("staged")
    BY <2>1, RefuseKeeps
  <2>2. CASE ~Refuse("staged")
    <3>1. /\ Step("staged", "unstaged") /\ Reading /\ scan' = scan /\ Flagged("unmerged") = {}
          /\ got' = [got EXCEPT !.staged = Differences(got.head, IndexTree(History[Now]))]
      BY <1>1, <1>9, <2>2 DEF ReadStaged
    <3>2. NoFlag(History[Now], "unmerged")
      BY <1>1, <3>1, FlaggedIs
    <3>3. Sighted("staged", "unstaged")
      BY <3>1, <3>2, StagedSees DEF Sighted
    <3> QED BY <3>1, <3>3, ReadingKeeps, PlacesAre
  <2> QED BY <2>1, <2>2
<1> QED BY <1>2, <1>3, <1>4, <1>5, <1>6, <1>7, <1>8, <1>9

\* The walk through the working tree and the untracked paths.
LEMMA TreeQueriesKeep ==
  ASSUME CaptureInvariant,
         \/ ReadIgnoredDirectories \/ ListWorkingTree \/ LookAtPath \/ RequireIgnored
         \/ ReadUntrackedPaths
  PROVE  CaptureInvariant'
<1>1. repo = History[Now] /\ TypeOK /\ IsScan(scan)
  BY HistoryIs DEF CaptureInvariant, TypeOK
<1>2. ASSUME NEW w \in {"ignored", "walk", "looks", "check_ignore"},
             NEW v \in {"walk", "looks", "check_ignore", "untracked"},
             Step(w, v), Reading, got' = got, IsScan(scan')
      PROVE  CaptureInvariant'
  <2>1. Sighted(w, v)
    BY <1>2, WalkSees DEF Sighted
  <2> QED BY <1>2, <2>1, ReadingKeeps, PlacesAre
<1>3. \A x, y : AfterLooks(x, y) \in {"looks", "check_ignore", "untracked"}
  BY DEF AfterLooks
<1>4. CASE ReadIgnoredDirectories
  <2>1. /\ Step("ignored", "walk") /\ Reading /\ got' = got
        /\ scan' = [Idle EXCEPT !.pruned = (Nested \cap Present) \ Tracked(repo)]
    BY <1>4 DEF ReadIgnoredDirectories
  <2>2. IsScan(scan')
    BY <2>1, BlankIsReading DEF IsScan, Idle
  <2> QED BY <1>2, <2>1, <2>2
<1>5. CASE ListWorkingTree
  <2> DEFINE u == Present \ scan.pruned
             v == AfterLooks(u, {})
  <2>1. Step("walk", v) /\ Reading /\ got' = got /\ scan' = [Idle EXCEPT !.unseen = u]
    BY <1>5 DEF ListWorkingTree
  <2>2. u \subseteq Paths
    BY DEF Present
  <2> HIDE DEF u
  <2>3. IsScan(scan')
    BY <2>1, <2>2, BlankIsReading DEF IsScan, Idle
  <2>4. v \in {"looks", "check_ignore", "untracked"}
    BY <1>3
  <2> HIDE DEF v
  <2> QED BY <1>2, <2>1, <2>3, <2>4
<1>6. CASE LookAtPath
  <2>1. PICK x, y : /\ Step("looks", AfterLooks(x, y)) /\ Reading /\ got' = got
                    /\ scan' = [scan EXCEPT !.unseen = x, !.special = y] /\ x \subseteq scan.unseen
    BY <1>6 DEF LookAtPath
  <2>2. IsScan(scan')
    BY <1>1, <2>1 DEF IsScan
  <2> DEFINE v == AfterLooks(x, y)
  <2>3. v \in {"looks", "check_ignore", "untracked"} /\ Step("looks", v)
    BY <1>3, <2>1
  <2> HIDE DEF v
  <2> QED BY <1>2, <2>1, <2>2, <2>3
<1>7. CASE RequireIgnored
  <2>1. CASE Refuse("check_ignore")
    BY <2>1, RefuseKeeps
  <2>2. CASE ~Refuse("check_ignore")
    <3>1. Step("check_ignore", "untracked") /\ Reading /\ got' = got /\ scan' = Idle
      BY <1>7, <2>2 DEF RequireIgnored
    <3> QED BY <1>2, <3>1, BlankIsReading
  <2> QED BY <2>1, <2>2
<1>8. CASE ReadUntrackedPaths
  <2>1. /\ Step("untracked", "names") /\ Reading /\ scan' = scan
        /\ got' = [got EXCEPT !.listed = UntrackedPaths(History[Now])]
    BY <1>1, <1>8 DEF ReadUntrackedPaths
  <2>2. Sighted("untracked", "names")
    BY <2>1, UntrackedSees DEF Sighted
  <2> QED BY <2>1, <2>2, ReadingKeeps, PlacesAre
<1> QED BY <1>4, <1>5, <1>6, <1>7, <1>8

\* The candidates, and a look at each entry of a read-only capture.
LEMMA CandidatesKeep ==
  ASSUME CaptureInvariant, ReadCandidates \/ ListIndex \/ LookAtEntry
  PROVE  CaptureInvariant'
<1>1. /\ repo = History[Now] /\ TypeOK /\ kind \in {"live", "readonly"} /\ IsScan(scan)
  BY HistoryIs DEF CaptureInvariant, TypeOK
<1>2. \A es : AfterKinds(es) = (IF DOMAIN es = {} THEN "files" ELSE "kinds") /\ AfterKinds(es) \in Reads
  BY PlacesAre DEF AfterKinds
<1>3. CASE ReadCandidates
  <2>1. CASE Refuse("unstaged")
    BY <2>1, RefuseKeeps
  <2>2. CASE ~Refuse("unstaged")
    <3>1. /\ Step("unstaged", "files") /\ Reading /\ scan' = scan /\ ~OddCandidate /\ kind = "live"
          /\ got' = [got EXCEPT !.candidates =
                       [p \in DiffFiles(repo) |-> Candidate(Plain(repo.index[p]), repo.work[p])]]
      BY <1>1, <1>3, <2>2 DEF ReadCandidates
    <3>2. \A p \in DiffFiles(repo) : repo.index[p].flag = "plain"
      BY <3>1 DEF OddCandidate
    <3>3. Sighted("unstaged", "files")
      BY <1>1, <3>1, <3>2, CandidatesSee DEF Sighted
    <3> QED BY <3>1, <3>3, ReadingKeeps, PlacesAre
  <2> QED BY <2>1, <2>2
<1>4. CASE ListIndex
  <2>1. CASE Refuse("unstaged")
    BY <2>1, RefuseKeeps
  <2>2. CASE ~Refuse("unstaged")
    <3> DEFINE es == [p \in Tracked(repo) |-> Plain(repo.index[p])]
               v == AfterKinds(es)
    <3>1. /\ Step("unstaged", v) /\ Reading /\ got' = got /\ kind = "readonly"
          /\ scan' = [scan EXCEPT !.entries = es]
      BY <1>4, <2>2 DEF ListIndex
    <3>2. v = (IF DOMAIN es = {} THEN "files" ELSE "kinds") /\ v \in Reads
      BY <1>2
    <3>3. es = [p \in Tracked(History[Now]) |-> Plain(History[Now].index[p])]
      BY <1>1
    <3> HIDE DEF es, v
    <3>4. Sighted("unstaged", v)
      BY <3>1, <3>2, <3>3, ListingSees DEF Sighted
    <3> QED BY <3>1, <3>2, <3>4, ReadingKeeps, PlacesAre
  <2> QED BY <2>1, <2>2
<1>5. CASE LookAtEntry
  <2>1. CASE Refuse("kinds")
    BY <2>1, RefuseKeeps
  <2>2. CASE ~Refuse("kinds")
    <3> DEFINE p == Min(DOMAIN scan.entries)
               f == repo.work[p]
               rest == Without(scan.entries, p)
               cs == Put(got.candidates, p, Candidate(scan.entries[p], f))
               v == AfterKinds(rest)
    <3>1. DOMAIN scan.entries \subseteq Nat /\ DOMAIN scan.entries # {}
      BY <1>1, <1>5, SnapshotsAssumption DEF LookAtEntry, IsScan, Over
    <3>2. p \in DOMAIN scan.entries
      BY <3>1, MinOf
    <3>3. /\ Step("kinds", v) /\ Reading
          /\ scan' = [scan EXCEPT !.entries = rest] /\ got' = [got EXCEPT !.candidates = cs]
      BY <1>5, <2>2 DEF LookAtEntry
    <3>4. v = (IF DOMAIN rest = {} THEN "files" ELSE "kinds") /\ v \in Reads
      BY <1>2
    <3>5. kind = "readonly"
      <4>1. pc = "kinds"
        BY <3>3 DEF Step
      <4>2. PICK a \in 1..Now : Seen(History, kind, got, scan, "kinds", a, Now)
        BY <4>1, PlacesAre DEF CaptureInvariant, ReadingOK
      <4> QED BY <4>2 DEF Seen, Saw, SawTree
    <3>6. rest = Without(scan.entries, p) /\ cs = Put(got.candidates, p, Candidate(scan.entries[p], f))
      OBVIOUS
    <3> HIDE DEF p, f, rest, cs, v
    <3>7. Sighted("kinds", v)
      BY <3>2, <3>3, <3>4, <3>5, <3>6, KindSees DEF Sighted
    <3> QED BY <3>3, <3>4, <3>7, ReadingKeeps, PlacesAre
  <2> QED BY <2>1, <2>2
<1> QED BY <1>3, <1>4, <1>5

LEMMA FilesKeep ==
  ASSUME CaptureInvariant, ReadCandidate \/ RequireNoContentConversion \/ ReadUntracked
  PROVE  CaptureInvariant'
<1>1. /\ repo = History[Now] /\ kind \in {"live", "readonly"} /\ IsReading(got)
  BY HistoryIs DEF CaptureInvariant, TypeOK
<1>2. CASE Refuse("files")
  BY <1>2, RefuseKeeps
<1>3. CASE ReadCandidate /\ ~Refuse("files")
  <2> DEFINE p == Min(DOMAIN got.candidates)
             c == got.candidates[p]
             f == History[Now].work[p]
             rest == Without(got.candidates, p)
             more == IF IsUnchanged(c.entry, f) THEN got.unstaged
                     ELSE Put(got.unstaged, p, UnstagedRecord(c.entry, f))
  <2>1. DOMAIN got.candidates \subseteq Nat /\ DOMAIN got.candidates # {}
    BY <1>1, <1>3, SnapshotsAssumption DEF ReadCandidate, IsReading, Over
  <2>2. p \in DOMAIN got.candidates
    BY <2>1, MinOf
  <2>3. /\ Step("files", "files") /\ Reading /\ scan' = scan /\ ~IsSpecial(f) /\ (f = Nothing) = c.deleted
        /\ got' = [got EXCEPT !.candidates = rest, !.unstaged = more]
    BY <1>1, <1>3 DEF ReadCandidate
  <2> HIDE DEF p, c, f, rest, more
  <2>4. Sighted("files", "files")
    BY <1>1, <2>2, <2>3, CandidateSees DEF c, f, rest, more, Sighted
  <2> QED BY <2>3, <2>4, ReadingKeeps, PlacesAre
<1>4. CASE ReadUntracked /\ ~Refuse("files")
  <2> DEFINE p == Min(got.listed)
             f == History[Now].work[p]
  <2>1. got.listed \subseteq Nat /\ got.listed # {}
    BY <1>1, <1>4, SnapshotsAssumption DEF ReadUntracked, IsReading
  <2>2. p \in got.listed
    BY <2>1, MinOf
  <2>3. /\ Step("files", "files") /\ Reading /\ scan' = scan /\ ~IsSpecial(f) /\ f # Nothing
        /\ got' = [got EXCEPT !.listed = got.listed \ {p}, !.untracked = Put(got.untracked, p, f)]
    BY <1>1, <1>4 DEF ReadUntracked
  <2> HIDE DEF p, f
  <2>4. Sighted("files", "files")
    BY <2>2, <2>3, FileSees DEF f, Sighted
  <2> QED BY <2>3, <2>4, ReadingKeeps, PlacesAre
<1> QED BY <1>2, <1>3, <1>4 DEF RequireNoContentConversion

-----------------------------------------------------------------------------
(* The two snapshots of a pair, and the patches.                            *)

\* When the files are read nothing is left for a next query, and before HEAD is
\* read nothing has been seen.
LEMMA FilesLeaveNothing ==
  ASSUME NEW h, NEW k, NEW g, NEW sc, NEW a, NEW b, Seen(h, k, g, sc, "files", a, b)
  PROVE  Seen(h, k, g, Idle, "files", a, b)
<1>1. PICK t \in Moments(a, b) : Saw(h, k, g, sc, "files", t, a, b)
  BY DEF Seen
<1>2. SawIndex(h, g, Idle, "files", t) /\ SawTree(h, k, g, Idle, "files", t, b)
  BY <1>1 DEF Saw, SawIndex, SawTree
<1> QED BY <1>1, <1>2 DEF Seen, Saw

LEMMA HeadIsUnseen ==
  ASSUME NEW h, NEW k, NEW g, NEW sc, NEW b \in Nat
  PROVE  Seen(h, k, g, sc, "head", b, b)
<1> DEFINE t == [head |-> b, unmerged |-> b, flags |-> b, visible |-> b, invisible |-> b,
                 untracked |-> b, staged |-> b, candidates |-> b]
<1>1. t \in Moments(b, b)
  BY DEF Moments
<1> HIDE DEF t
<1>2. Saw(h, k, g, sc, "head", t, b, b)
  BY DEF Saw, SawIndex, SawSparse, SawTree, Unread, AfterHead, AfterUnmerged, AfterFlags, AfterVisible,
         AfterInvisible, AfterCheckout, AfterSparse, AfterUntracked, AfterStaged
<1> QED BY <1>1, <1>2 DEF Seen

LEMMA CompleteIsFull ==
  ASSUME CaptureInvariant, Complete
  PROVE  /\ \E a \in 1..Now : /\ Begun(History, kind, turn, first, before, patches, a)
                              /\ Full(History, kind, got, a, Now)
         /\ Now \in Nat \ {0} /\ pc = "files"
<1>1. pc = "files" /\ pc \in Reads /\ TypeOK /\ IsReading(got) /\ Now \in Nat \ {0}
  BY PlacesAre, HistoryIs DEF Complete, CaptureInvariant, TypeOK
<1>2. PICK a \in 1..Now : /\ Begun(History, kind, turn, first, before, patches, a)
                          /\ Seen(History, kind, got, scan, "files", a, Now)
  BY <1>1 DEF CaptureInvariant, ReadingOK
<1>3. Full(History, kind, got, a, Now)
  BY <1>1, <1>2, FilesLeaveNothing DEF Full, Complete, Undecided
<1> QED BY <1>1, <1>2, <1>3

LEMMA FirstOfPairKeeps ==
  ASSUME CaptureInvariant, FirstOfPair
  PROVE  CaptureInvariant'
<1>1. /\ repo' = repo /\ past' = past /\ scan' = scan /\ kind' = kind /\ turn' = turn + 1 /\ first' = got /\ got' = got
      /\ before' = before /\ patches' = patches /\ Now' = Now /\ History' = History /\ pc' = "head"
      /\ turn \in {1, 3}
  BY HistoryRests DEF FirstOfPair
<1>2. PICK a \in 1..Now : /\ Begun(History, kind, turn, first, before, patches, a)
                          /\ Full(History, kind, got, a, Now)
  BY CompleteIsFull DEF FirstOfPair
<1>3. Now \in Nat \ {0} /\ Now \in 1..Now /\ a \in Nat /\ \A m \in 1..a : m \in 1..Now
  BY CompleteIsFull DEF FirstOfPair
<1>4. TypeOK'
  BY <1>1, PlacesAre DEF CaptureInvariant, TypeOK
<1>5. Seen(History, kind, got, scan, "head", Now, Now)
  BY <1>3, HeadIsUnseen
<1>6. Begun(History, kind, turn + 1, got, before, patches, Now)
  <2>1. CASE turn = 1
    BY <1>2, <2>1 DEF Begun
  <2>2. CASE turn = 3
    BY <1>2, <2>2 DEF Begun
  <2> QED BY <1>1, <2>1, <2>2
<1>7. ReadingOK'
  BY <1>1, <1>3, <1>5, <1>6 DEF ReadingOK
<1>8. PatchingOK' /\ AcceptedOK'
  BY <1>1 DEF PatchingOK, AcceptedOK
<1> QED BY <1>4, <1>7, <1>8 DEF CaptureInvariant

LEMMA SecondOfPairKeeps ==
  ASSUME CaptureInvariant, SecondOfPair
  PROVE  CaptureInvariant'
<1>1. /\ repo' = repo /\ past' = past /\ scan' = scan /\ kind' = kind /\ turn' = turn /\ first' = first /\ got' = got
      /\ patches' = patches /\ Now' = Now /\ History' = History
      /\ pc' \in {"refused", "staged_patch", "accepted"} /\ turn \in {2, 4}
      /\ before' = IF turn = 2 THEN got ELSE before
  BY HistoryRests DEF SecondOfPair
<1>2. PICK a \in 1..Now : /\ Begun(History, kind, turn, first, before, patches, a)
                          /\ Full(History, kind, got, a, Now)
  BY CompleteIsFull DEF SecondOfPair
<1>3. TypeOK'
  BY <1>1 DEF CaptureInvariant, TypeOK
<1>4. ReadingOK'
  BY <1>1, PlacesAre DEF ReadingOK
<1>5. kind \in {"live", "readonly"}
  BY DEF CaptureInvariant, TypeOK
<1>6. CASE pc' = "refused"
  BY <1>3, <1>4, <1>6 DEF CaptureInvariant, PatchingOK, AcceptedOK
<1>7. CASE turn = 2 /\ pc' # "refused"
  <2>1. got = first /\ before' = got /\ pc' = IF kind = "live" THEN "staged_patch" ELSE "accepted"
    BY <1>7 DEF SecondOfPair, Agrees
  <2>2. Full(History, kind, got, 1, a) /\ Full(History, kind, got, a, Now)
    BY <1>2, <1>7, <2>1 DEF Begun
  <2>3. PatchingOK'
    BY <1>1, <1>7, <2>1, <2>2 DEF PatchingOK
  <2>4. AcceptedOK'
    BY <1>1, <1>5, <2>1, <2>2 DEF AcceptedOK, Twice
  <2> QED BY <1>3, <1>4, <2>3, <2>4 DEF CaptureInvariant
<1>8. CASE turn = 4 /\ pc' # "refused"
  <2>1. got = first /\ got = before /\ before' = before /\ pc' = "accepted"
    BY <1>8 DEF SecondOfPair, Agrees, SameAsBefore
  <2>2. kind = "live"
    BY <1>2, <1>8 DEF Begun
  <2>3. PICK q \in 1..a : Full(History, kind, before, q, a)
                          /\ \E m \in 1..q : Patched(History, kind, before, patches, m, q)
    BY <1>2, <1>8, <2>1 DEF Begun
  <2>4. Bundled(History, kind, before, patches, Now)
    BY <1>2, <2>1, <2>3 DEF Bundled
  <2>5. PatchingOK' /\ AcceptedOK'
    BY <1>1, <2>1, <2>2, <2>4 DEF PatchingOK, AcceptedOK
  <2> QED BY <1>3, <1>4, <2>5 DEF CaptureInvariant
<1> QED BY <1>1, <1>6, <1>7, <1>8

LEMMA StagedPatchKeeps ==
  ASSUME CaptureInvariant, ReadStagedPatch
  PROVE  CaptureInvariant'
<1>1. /\ repo' = repo /\ past' = past /\ scan' = scan /\ kind' = kind /\ turn' = turn /\ first' = first /\ got' = got
      /\ before' = before /\ pc = "staged_patch" /\ pc' = "unstaged_patch"
      /\ patches' = [patches EXCEPT !.staged = Differences(before.head, IndexTree(repo))]
      /\ Now' = Now /\ History' = History /\ History[Now] = repo /\ TypeOK
  BY HistoryRests, HistoryIs DEF ReadStagedPatch, Step, CaptureInvariant, TypeOK
<1>2. /\ patches' = [staged |-> patches'.staged, unstaged |-> patches'.unstaged]
      /\ patches'.staged = Differences(before.head, IndexTree(repo))
  BY <1>1 DEF TypeOK
<1>3. TypeOK'
  BY <1>1, <1>2, PlacesAre DEF TypeOK
<1>4. \A m : StagedAt(History, before, patches', m, Now)
  BY <1>1, <1>2 DEF StagedAt
<1>5. PatchingOK'
  BY <1>1, <1>4 DEF CaptureInvariant, PatchingOK
<1>6. ReadingOK' /\ AcceptedOK'
  BY <1>1, PlacesAre DEF ReadingOK, AcceptedOK
<1> QED BY <1>3, <1>5, <1>6 DEF CaptureInvariant

LEMMA UnstagedPatchKeeps ==
  ASSUME CaptureInvariant, ReadUnstagedPatch
  PROVE  CaptureInvariant'
<1>1. /\ repo' = repo /\ past' = past /\ scan' = scan /\ kind' = kind /\ turn' = 3 /\ first' = first /\ got' = got
      /\ before' = before /\ pc = "unstaged_patch" /\ pc' = "head"
      /\ patches' = [patches EXCEPT !.unstaged = Differences(IndexTree(repo), WorkTree(repo))]
      /\ Now' = Now /\ History' = History /\ History[Now] = repo /\ TypeOK /\ Now \in Nat \ {0}
  BY HistoryRests, HistoryIs DEF ReadUnstagedPatch, Step, CaptureInvariant, TypeOK
<1>2. /\ patches' = [staged |-> patches'.staged, unstaged |-> patches'.unstaged]
      /\ patches'.unstaged = Differences(IndexTree(repo), WorkTree(repo))
      /\ patches'.staged = patches.staged
  BY <1>1 DEF TypeOK
<1>3. TypeOK'
  BY <1>1, <1>2, PlacesAre DEF TypeOK
<1>4. PICK m \in 1..Now : /\ Full(History, kind, before, 1, m) /\ Full(History, kind, before, m, Now)
                          /\ StagedAt(History, before, patches, m, Now)
  BY <1>1 DEF CaptureInvariant, PatchingOK
<1>5. kind = "live" /\ Patched(History, kind, before, patches', m, Now)
  BY <1>1, <1>2, <1>4 DEF CaptureInvariant, PatchingOK, Patched, StagedAt
<1>6. Begun(History, kind, 3, first, before, patches', Now)
  BY <1>5 DEF Begun
<1>7. Seen(History, kind, got, scan, "head", Now, Now)
  BY <1>1, HeadIsUnseen
<1>8. ReadingOK'
  BY <1>1, <1>6, <1>7 DEF ReadingOK
<1>9. PatchingOK' /\ AcceptedOK'
  BY <1>1 DEF PatchingOK, AcceptedOK
<1> QED BY <1>3, <1>8, <1>9 DEF CaptureInvariant

-----------------------------------------------------------------------------
\* At every step each query and look of a reading has told the truth about some
\* moment since the reading began, in the order of the code; a snapshot accepted
\* twice lies between two such readings, and the patches between two such pairs.
THEOREM CaptureInvariantHolds == Spec => []CaptureInvariant
<1>1. Init => CaptureInvariant
  <2> SUFFICES ASSUME Init PROVE CaptureInvariant
    OBVIOUS
  <2>1. TypeOK
    BY CaptureAssumption, BlankIsReading, PlacesAre DEF Init, TypeOK
  <2>2. Now = 1 /\ 1 \in 1..1
    BY DEF Init, Now
  <2>3. Seen(History, kind, got, scan, "head", 1, 1)
    BY HeadIsUnseen
  <2>4. Begun(History, kind, 1, first, before, patches, 1)
    BY DEF Begun
  <2>5. ReadingOK
    BY <2>2, <2>3, <2>4 DEF Init, ReadingOK
  <2>6. PatchingOK /\ AcceptedOK
    BY DEF Init, PatchingOK, AcceptedOK
  <2> QED BY <2>1, <2>5, <2>6 DEF CaptureInvariant
<1>2. CaptureInvariant /\ [Next]_vars => CaptureInvariant'
  <2> SUFFICES ASSUME CaptureInvariant, [Next]_vars PROVE CaptureInvariant'
    OBVIOUS
  <2>1. CASE UNCHANGED vars
    <3>1. Now' = Now /\ History' = History
      BY <2>1, HistoryRests DEF vars
    <3>2. TypeOK'
      BY <2>1 DEF vars, CaptureInvariant, TypeOK
    <3>3. ReadingOK' /\ PatchingOK' /\ AcceptedOK'
      BY <2>1, <3>1 DEF vars, CaptureInvariant, ReadingOK, PatchingOK, AcceptedOK
    <3> QED BY <3>2, <3>3 DEF CaptureInvariant
  <2>2. CASE Environment
    BY <2>2, EnvironmentKeeps
  <2>3. CASE Capturing
    BY <2>3, IndexQueriesKeep, TreeQueriesKeep, CandidatesKeep, FilesKeep, FirstOfPairKeeps, SecondOfPairKeeps, StagedPatchKeeps,
       UnstagedPatchKeeps DEF Capturing, Supporting
  <2> QED BY <2>1, <2>2, <2>3 DEF Next
<1> QED BY <1>1, <1>2, PTL DEF Spec

THEOREM CaptureTypeCorrect == Spec => []TypeOK
BY CaptureInvariantHolds, PTL DEF CaptureInvariant

LEMMA NothingCameBack ==
  ASSUME TypeOK, ~Returned
  PROVE  NoReturn(History) /\ DOMAIN History \subseteq Nat /\ DOMAIN History = 1..Now /\ Now \in Nat \ {0}
<1>1. DOMAIN History \subseteq Nat /\ DOMAIN History = 1..Now /\ Now \in Nat \ {0}
  BY HistoryIs DEF TypeOK
<1>2. NoReturn(History)
  BY <1>1, Stays DEF NoReturn
<1> QED BY <1>1, <1>2

LEMMA ContextFollows ==
  ASSUME CaptureInvariant
  PROVE  ContextIsReal
<1> SUFFICES ASSUME pc = "staged_patch" \/ (pc = "accepted" /\ kind = "readonly"), ~Returned, IndexQuiet
             PROVE  WasDescribed(got)
  BY DEF ContextIsReal
<1>1. /\ NoReturn(History) /\ DOMAIN History \subseteq Nat /\ DOMAIN History = 1..Now /\ Now \in Nat \ {0}
      /\ kind \in {"live", "readonly"} /\ Reals(History, 1, Now)
  BY NothingCameBack, HistoryReals DEF CaptureInvariant, TypeOK
<1>2. PICK m \in 1..Now : Full(History, kind, got, 1, m) /\ Full(History, kind, got, m, Now)
  BY DEF CaptureInvariant, PatchingOK, AcceptedOK, Twice
<1>3. \A i \in 1..Now : History[i].index = repo.index
  BY <1>1 DEF IndexQuiet
<1>4. Steady(History, 1, Now)
  <2>1. Now \in 1..Now
    BY <1>1
  <2> QED BY <1>3, <2>1 DEF Steady, IndexTree
<1>5. \A p \in Tracked(History[m]) : History[m].index[p].flag = "plain"
  <2>1. 1..Now \subseteq DOMAIN History /\ \A i \in 1..Now : History[i].index = History[m].index
    BY <1>1, <1>3
  <2> QED BY <1>1, <1>2, <2>1, QuietFlags
<1>6. Supported(History[m]) /\ Snapshot(got) = Describe(History[m])
  BY <1>1, <1>2, <1>4, <1>5, Between
<1> QED BY <1>1, <1>6 DEF WasDescribed

-----------------------------------------------------------------------------
(* A bundle, where the index may change.                                    *)

\* What a reading g says of the index, each at its moment.
IndexTold(h, g, u, f, s, c) ==
  /\ u <= f /\ f <= s /\ s <= c
  /\ NoFlag(h[u], "unmerged") /\ NoFlag(h[f], "hidden") /\ NoFlag(h[s], "unmerged")
  /\ IndexTree(h[s]) = ApplyPatch(g.head, g.staged)
  /\ \A p \in Tracked(h[c]) : h[c].index[p].flag \in {"plain", "hidden"}

LEMMA IndexMoments ==
  ASSUME NEW h, NEW g, NEW a, NEW b, Reals(h, a, b), Full(h, "live", g, a, b)
  PROVE  \E u \in a..b, f \in a..b, s \in a..b, c \in a..b : IndexTold(h, g, u, f, s, c)
<1>1. PICK t \in Moments(a, b) : Saw(h, "live", g, Idle, "files", t, a, b)
  BY DEF Full, Seen
<1>2. t.unmerged \in a..b /\ t.flags \in a..b /\ t.staged \in a..b /\ t.candidates \in a..b
  BY MomentsAre
<1>3. /\ g.head \in Trees /\ NoFlag(h[t.unmerged], "unmerged") /\ NoFlag(h[t.flags], "hidden")
      /\ NoFlag(h[t.staged], "unmerged") /\ t.unmerged <= t.flags /\ t.flags <= t.staged
      /\ g.staged = Differences(g.head, IndexTree(h[t.staged]))
  BY <1>1 DEF Saw, SawIndex, AfterHead, AfterUnmerged, AfterFlags, AfterVisible, AfterInvisible,
              AfterCheckout, AfterSparse, AfterUntracked, AfterStaged
<1>4. /\ t.staged <= t.candidates
      /\ \A p \in DiffFiles(h[t.candidates]) : h[t.candidates].index[p].flag = "plain"
  BY <1>1 DEF Saw, SawTree, SawFiles
<1>5. IndexTree(h[t.staged]) = ApplyPatch(g.head, g.staged)
  BY <1>2, <1>3, IndexReadBack DEF Reals
<1>6. ASSUME NEW p \in Tracked(h[t.candidates]) PROVE h[t.candidates].index[p].flag \in {"plain", "hidden"}
  BY <1>4 DEF DiffFiles
<1>7. IndexTold(h, g, t.unmerged, t.flags, t.staged, t.candidates)
  BY <1>3, <1>4, <1>5, <1>6 DEF IndexTold
<1> QED BY <1>2, <1>7

\* What an index holds at two moments it held all the time between.
LEMMA ContentStays ==
  ASSUME NEW h, NEW x, NEW y, Reals(h, x, y), x..y \subseteq DOMAIN h, NoReturn(h),
         IndexTree(h[x]) = IndexTree(h[y])
  PROVE  Steady(h, x, y)
<1>1. x \in x..y /\ y \in x..y /\ \A i \in x..y : i \in DOMAIN h /\ x <= i /\ i <= y
  BY DEF Reals
<1>2. ASSUME NEW i \in x..y, NEW p \in Paths PROVE Plain(h[i].index[p]) = Plain(h[y].index[p])
  <2>1. IndexTree(h[x])[p] = Plain(h[x].index[p]) /\ IndexTree(h[y])[p] = Plain(h[y].index[p])
    BY DEF IndexTree
  <2>2. Plain(h[x].index[p]) = Plain(h[y].index[p])
    BY <2>1
  <2> QED BY <1>1, <2>2 DEF NoReturn
<1>3. ASSUME NEW i \in x..y PROVE IndexTree(h[i]) = IndexTree(h[y])
  BY <1>2 DEF IndexTree
<1> QED BY <1>3 DEF Steady

NeverBack(F, x, y) ==
  /\ x \in Nat /\ y \in Nat /\ \A i \in x..y : F[i] \in Flags
  /\ \A i, j, k \in x..y : i <= j /\ j <= k /\ F[i] = F[k] => F[j] = F[k]

FlagsOf(h, p, x, y) == [i \in x..y |-> h[i].index[p].flag]

\* The moments at which the flag F of an entry was seen, around a moment q.
Glimpses(F, x, c1, f2, c2, q, u3, f3, c3, f4, s4) ==
  /\ {x, c1, f2, c2, q, u3, f3, c3, f4, s4} \subseteq Nat
  /\ x <= c1 /\ c1 <= f2 /\ f2 <= c2 /\ c2 <= q /\ q <= u3 /\ u3 <= f3 /\ f3 <= c3 /\ c3 <= f4 /\ f4 <= s4
  /\ {F[c1], F[c2], F[c3]} \subseteq {"plain", "hidden"}
  /\ F[f2] # "hidden" /\ F[f3] # "hidden" /\ F[f4] # "hidden"
  /\ F[u3] # "unmerged" /\ F[s4] # "unmerged"

\* A flag that never comes back was not set at that moment.
LEMMA FlagsSettle ==
  ASSUME NEW F, NEW x, NEW c1, NEW f2, NEW c2, NEW q, NEW u3, NEW f3, NEW c3, NEW f4, NEW s4,
         Glimpses(F, x, c1, f2, c2, q, u3, f3, c3, f4, s4), NeverBack(F, x, s4)
  PROVE  F[q] = "plain"
<1> USE DEF Glimpses
<1>1. /\ \A i \in c1..s4 : F[i] \in Flags
      /\ \A i, j, k \in c1..s4 : i <= j /\ j <= k /\ F[i] = F[k] => F[j] = F[k]
  <2>1. \A i \in c1..s4 : i \in x..s4
    OBVIOUS
  <2> QED BY <2>1 DEF NeverBack
<1>2. /\ c1 \in c1..s4 /\ f2 \in c1..s4 /\ c2 \in c1..s4 /\ q \in c1..s4 /\ u3 \in c1..s4
      /\ f3 \in c1..s4 /\ c3 \in c1..s4 /\ f4 \in c1..s4 /\ s4 \in c1..s4
  OBVIOUS
<1>3. F[c2] = "plain"
  <2>1. F[c1] # F[c2] \/ F[f2] = F[c2]
    BY <1>1, <1>2
  <2>2. F[c1] # F[c3] \/ F[c2] = F[c3]
    <3>1. c1 <= c2 /\ c2 <= c3
      OBVIOUS
    <3> QED BY <1>1, <1>2, <3>1
  <2>3. F[c2] # F[c3] \/ F[f3] = F[c3]
    <3>1. c2 <= f3 /\ f3 <= c3
      OBVIOUS
    <3> QED BY <1>1, <1>2, <3>1
  <2> QED BY <2>1, <2>2, <2>3
<1> SUFFICES ASSUME F[q] # "plain" PROVE FALSE
  OBVIOUS
<1>4. F[u3] # "plain" /\ F[c3] # "plain" /\ F[f4] # "plain" /\ F[s4] # "plain"
  <2>1. ASSUME NEW z \in c1..s4, q <= z PROVE F[z] # "plain"
    BY <1>1, <1>2, <1>3, <2>1
  <2>2. q <= u3 /\ q <= c3 /\ q <= f4 /\ q <= s4
    OBVIOUS
  <2> QED BY <1>1, <1>2, <2>1, <2>2
<1>5. F[c3] = "hidden"
  BY <1>4
<1>6. ASSUME NEW z \in c1..s4, z <= f3 PROVE F[z] # "hidden"
  BY <1>1, <1>2, <1>5, <1>6
<1>7. ASSUME NEW y \in c1..s4, NEW z \in c1..s4, y <= c3, c3 <= z, F[y] = F[z] PROVE F[z] = "hidden"
  BY <1>1, <1>2, <1>5, <1>7
<1>8. q <= f3 /\ q <= c3 /\ u3 <= c3 /\ c3 <= s4
  OBVIOUS
<1>9. F[q] # "hidden" /\ F[u3] # "hidden"
  BY <1>1, <1>2, <1>6, <1>8
<1>10. F[s4] # "hidden"
  <2>1. F[c3] = F[s4] => F[f4] = F[s4]
    BY <1>1, <1>2
  <2> QED BY <1>5, <2>1
<1>11. F[q] # F[f4] /\ F[q] # F[s4] /\ F[u3] # F[f4]
  BY <1>1, <1>2, <1>7, <1>8, <1>10
<1>12. F[q] \in {"added", "unmerged"} /\ F[u3] \in {"added", "unmerged"}
       /\ F[f4] \in {"added", "unmerged"} /\ F[s4] \in {"added", "unmerged"}
  BY <1>1, <1>2, <1>4, <1>9, <1>10 DEF Flags
<1> QED BY <1>11, <1>12

\* The entries of one path while what the index holds is steady.
LEMMA FlagsReturnNot ==
  ASSUME NEW h, NEW x, NEW y, Reals(h, x, y), x..y \subseteq DOMAIN h, NoReturn(h), Steady(h, x, y),
         NEW p \in Tracked(h[y])
  PROVE  /\ \A i \in x..y : p \in Tracked(h[i])
         /\ NeverBack(FlagsOf(h, p, x, y), x, y)
<1>1. p \in Paths
  BY DEF Tracked
<1>2. ASSUME NEW i \in x..y
      PROVE  /\ h[i].index[p] \in IndexEntries /\ h[i].index[p] # Nothing /\ i \in DOMAIN h
             /\ Plain(h[i].index[p]) = Plain(h[y].index[p]) /\ p \in Tracked(h[i])
             /\ h[i].index[p].flag \in Flags
  <2>1. h[i] \in Repositories /\ i \in DOMAIN h
    BY DEF Reals
  <2>2. h[i].index[p] \in IndexEntries /\ Plain(h[i].index[p]) = Plain(h[y].index[p]) /\ p \in Tracked(h[i])
    BY <1>1, <2>1, RepositoryIs, SteadyIs
  <2> QED BY <2>1, <2>2, PlainIs DEF Tracked
<1>3. ASSUME NEW i \in x..y, NEW j \in x..y, NEW k \in x..y, i <= j, j <= k,
             h[i].index[p].flag = h[k].index[p].flag
      PROVE  h[j].index[p].flag = h[k].index[p].flag
  <2>1. h[i].index[p] = h[k].index[p]
    BY <1>2, <1>3, EntryIs
  <2>2. h[j].index[p] = h[k].index[p]
    BY <1>1, <1>2, <1>3, <2>1 DEF NoReturn
  <2> QED BY <2>2
<1> DEFINE F == FlagsOf(h, p, x, y)
<1>4. \A i \in x..y : F[i] = h[i].index[p].flag
  BY DEF FlagsOf
<1> HIDE DEF F
<1>5. \A i, j, k \in x..y : i <= j /\ j <= k /\ F[i] = F[k] => F[j] = F[k]
  BY <1>3, <1>4
<1>6. \A i \in x..y : F[i] \in Flags
  BY <1>2, <1>4
<1>7. NeverBack(F, x, y)
  BY <1>5, <1>6 DEF NeverBack, Reals
<1> QED BY <1>2, <1>7 DEF F

\* Between two readings before and two after, what the index holds was steady,
\* and at that moment no entry had a flag.
LEMMA IndexStayed ==
  ASSUME NEW h, NEW g, NEW b \in Nat, NEW m \in 1..b, NEW q \in m..b, NEW l \in q..b, Reals(h, 1, b),
         1..b \subseteq DOMAIN h, NoReturn(h),
         Full(h, "live", g, 1, m), Full(h, "live", g, m, q),
         Full(h, "live", g, q, l), Full(h, "live", g, l, b)
  PROVE  Steady(h, m, l) /\ \A p \in Tracked(h[q]) : h[q].index[p].flag = "plain"
<1>1. Reals(h, 1, m) /\ Reals(h, m, q) /\ Reals(h, q, l) /\ Reals(h, l, b) /\ Reals(h, m, l)
  BY DEF Reals
<1>2. PICK u1 \in 1..m, f1 \in 1..m, s1 \in 1..m, c1 \in 1..m : IndexTold(h, g, u1, f1, s1, c1)
  BY <1>1, IndexMoments
<1>3. PICK u2 \in m..q, f2 \in m..q, s2 \in m..q, c2 \in m..q : IndexTold(h, g, u2, f2, s2, c2)
  BY <1>1, IndexMoments
<1>4. PICK u3 \in q..l, f3 \in q..l, s3 \in q..l, c3 \in q..l : IndexTold(h, g, u3, f3, s3, c3)
  BY <1>1, IndexMoments
<1>5. PICK u4 \in l..b, f4 \in l..b, s4 \in l..b, c4 \in l..b : IndexTold(h, g, u4, f4, s4, c4)
  BY <1>1, IndexMoments
<1>6. /\ m \in Nat /\ q \in Nat /\ l \in Nat /\ s1 \in Nat /\ s4 \in Nat
      /\ s1 <= m /\ m <= q /\ q <= l /\ l <= s4 /\ s4 <= b /\ 1 <= s1
  OBVIOUS
<1>7. Reals(h, s1, s4) /\ s1..s4 \subseteq DOMAIN h
  BY <1>6 DEF Reals
<1>8. Steady(h, s1, s4)
  BY <1>2, <1>5, <1>7, ContentStays DEF IndexTold
<1>9. Steady(h, m, l)
  <2>1. \A i \in m..l : i \in s1..s4 /\ l \in s1..s4
    BY <1>6
  <2> QED BY <1>8, <2>1 DEF Steady
<1>10. ASSUME NEW p \in Tracked(h[q]) PROVE h[q].index[p].flag = "plain"
  <2> DEFINE F == FlagsOf(h, p, s1, s4)
  <2>1. /\ c1 \in Nat /\ f2 \in Nat /\ c2 \in Nat /\ u3 \in Nat /\ f3 \in Nat /\ c3 \in Nat /\ f4 \in Nat
        /\ s1 <= c1 /\ c1 <= f2 /\ f2 <= c2 /\ c2 <= q /\ q <= u3 /\ u3 <= f3 /\ f3 <= c3 /\ c3 <= f4 /\ f4 <= s4
    BY <1>2, <1>3, <1>4, <1>5, <1>6 DEF IndexTold
  <2>2. /\ c1 \in s1..s4 /\ f2 \in s1..s4 /\ c2 \in s1..s4 /\ q \in s1..s4 /\ u3 \in s1..s4
        /\ f3 \in s1..s4 /\ c3 \in s1..s4 /\ f4 \in s1..s4 /\ s4 \in s1..s4
    BY <1>6, <2>1
  <2>3. p \in Tracked(h[s4])
    BY <1>7, <1>8, <2>2, SteadyIs
  <2>4. (\A i \in s1..s4 : p \in Tracked(h[i])) /\ NeverBack(F, s1, s4)
    BY <1>7, <1>8, <2>3, FlagsReturnNot
  <2>5. \A i \in s1..s4 : F[i] = h[i].index[p].flag
    BY DEF FlagsOf
  <2>6. /\ {F[c1], F[c2], F[c3]} \subseteq {"plain", "hidden"}
        /\ F[f2] # "hidden" /\ F[f3] # "hidden" /\ F[f4] # "hidden"
        /\ F[u3] # "unmerged" /\ F[s4] # "unmerged"
    BY <1>2, <1>3, <1>4, <1>5, <2>2, <2>4, <2>5 DEF IndexTold, NoFlag
  <2> HIDE DEF F
  <2>7. Glimpses(F, s1, c1, f2, c2, q, u3, f3, c3, f4, s4)
    BY <1>6, <2>1, <2>6 DEF Glimpses
  <2>8. F[q] = "plain"
    BY <2>4, <2>7, FlagsSettle
  <2> QED BY <2>2, <2>5, <2>8
<1> QED BY <1>9, <1>10

\* Layers rebuilt from two patches of one state are the index and the files Git
\* showed, and the context says dirty when they carry something.
LEMMA LayersAreThose ==
  ASSUME NEW r \in Repositories, NEW s, NEW bundle, Supported(r), Snapshot(s) = Describe(r),
         bundle = [base |-> s.head, staged |-> Differences(s.head, IndexTree(r)),
                   unstaged |-> Differences(IndexTree(r), WorkTree(r)),
                   untracked |-> s.untracked, dirty |-> Context(s).dirty]
  PROVE  /\ Rebuilds(bundle)
         /\ IndexLayer(bundle) = IndexTree(r) /\ WorktreeLayer(bundle) = WorkTree(r)
         /\ \/ DirtyAgrees(bundle)
            \/ \E p \in Converted \cap r.touched : r.work[p] # WorkTree(r)[p]
<1>1. /\ s.head = r.head /\ s.staged = Differences(r.head, IndexTree(r))
      /\ s.unstaged = [p \in Recorded(r) |-> UnstagedRecord(r.index[p], r.work[p])]
      /\ s.untracked = [p \in UntrackedPaths(r) |-> r.work[p]]
  BY DEF Snapshot, Describe
<1>2. /\ bundle.base = r.head /\ bundle.staged = s.staged /\ bundle.untracked = s.untracked
      /\ bundle.unstaged = Differences(IndexTree(r), WorkTree(r))
      /\ bundle.dirty = (DOMAIN s.staged \cup DOMAIN s.unstaged \cup DOMAIN s.untracked # {})
  BY <1>1 DEF Context, Dirty
<1>3. r.head \in Trees /\ IndexTree(r) \in Trees
  BY RepositoryIs, IndexReadBack
<1>4. IndexLayer(bundle) = IndexTree(r)
  BY <1>1, <1>2, <1>3, IndexReadBack DEF IndexLayer
<1>5. WorktreeLayer(bundle) = WorkTree(r)
  <2>1. \A x, y : y = [p \in Paths |-> y[p]] => ApplyPatch(x, Differences(x, y)) = y
    BY DEF ApplyPatch, Differences
  <2>2. WorkTree(r) = [p \in Paths |-> WorkTree(r)[p]]
    BY DEF WorkTree
  <2> QED BY <1>2, <1>4, <2>1, <2>2 DEF WorktreeLayer
<1>6. Rebuilds(bundle)
  <2>1. \A x, y : PatchFits(x, Differences(x, y))
    BY DEF PatchFits, Differences
  <2>2. ASSUME NEW p \in UntrackedPaths(r) PROVE IndexTree(r)[p] = Nothing /\ WorkTree(r)[p] = Nothing
    BY DEF UntrackedPaths, Tracked, IndexTree, WorkTree, Plain
  <2>3. DOMAIN bundle.untracked = UntrackedPaths(r)
    BY <1>1, <1>2
  <2> QED BY <1>1, <1>2, <1>4, <1>5, <2>1, <2>2, <2>3 DEF Rebuilds
<1>7. ASSUME NEW p \in Paths,
             ~(p \in Converted \cap r.touched /\ r.work[p] # WorkTree(r)[p])
      PROVE  p \in Recorded(r) <=> IndexTree(r)[p] # WorkTree(r)[p]
  <2>1. IndexTree(r)[p] = Plain(r.index[p])
    BY DEF IndexTree
  <2>2. CASE r.index[p] = Nothing
    <3>1. IndexTree(r)[p] = Nothing /\ WorkTree(r)[p] = Nothing /\ p \notin Recorded(r)
      BY <2>1, <2>2 DEF Plain, WorkTree, Tracked, Recorded, DiffFiles
    <3> QED BY <3>1
  <2>3. CASE r.index[p] # Nothing
    <3>1. p \in Tracked(r) /\ r.index[p].flag = "plain"
      BY <2>3 DEF Supported, SupportedIndex, Tracked
    <3>2. Plain(r.index[p]) # Nothing /\ r.work[p] \in FileStates
      BY <2>3, RepositoryIs, PlainIs
    <3>3. /\ p \in Recorded(r) <=> \/ r.work[p] = Nothing
                                   \/ p \in r.touched /\ r.work[p] # Plain(r.index[p])
          /\ WorkTree(r)[p] = IF r.work[p] = Nothing THEN Nothing
                              ELSE IF p \notin r.touched THEN Plain(r.index[p])
                              ELSE Cleaned(p, r.work[p])
      BY <2>3, <3>1, DiffFilesAre
    <3>4. p \notin Converted /\ p \in r.touched => WorkTree(r)[p] = r.work[p]
      <4>1. CASE r.work[p] = Nothing
        BY <3>3, <4>1
      <4>2. CASE r.work[p] # Nothing
        <5>1. r.work[p] = [mode |-> r.work[p].mode, blob |-> r.work[p].blob]
          BY <3>2, <4>2 DEF FileStates
        <5> QED BY <3>3, <4>2, <5>1 DEF Cleaned
      <4> QED BY <4>1, <4>2
    <3> QED BY <1>7, <2>1, <3>2, <3>3, <3>4
  <2> QED BY <2>2, <2>3
<1>8. \/ DirtyAgrees(bundle)
      \/ \E p \in Converted \cap r.touched : r.work[p] # WorkTree(r)[p]
  <2> SUFFICES ASSUME ~ \E p \in Converted \cap r.touched : r.work[p] # WorkTree(r)[p]
               PROVE  DirtyAgrees(bundle)
    OBVIOUS
  <2>1. DOMAIN bundle.unstaged = {p \in Paths : IndexTree(r)[p] # WorkTree(r)[p]}
    BY <1>2 DEF Differences
  <2>2. Recorded(r) \subseteq Paths
    BY DEF Recorded, DiffFiles, Tracked
  <2>3. DOMAIN bundle.unstaged = DOMAIN s.unstaged
    BY <1>1, <1>7, <2>1, <2>2
  <2> QED BY <1>2, <2>3 DEF DirtyAgrees, HasChanges
<1> QED BY <1>4, <1>5, <1>6, <1>8

LEMMA BundleFollows ==
  ASSUME CaptureInvariant
  PROVE  BundleIsReal
<1> SUFFICES ASSUME pc = "accepted", kind = "live", ~Returned
             PROVE  \E i \in DOMAIN History :
                      LET r == History[i]
                      IN  /\ Supported(r) /\ Snapshot(before) = Describe(r)
                          /\ Rebuilds(Bundle)
                          /\ IndexLayer(Bundle) = IndexTree(r) /\ WorktreeLayer(Bundle) = WorkTree(r)
                          /\ \/ DirtyAgrees(Bundle)
                             \/ \E p \in Converted \cap r.touched : r.work[p] # WorkTree(r)[p]
  BY DEF BundleIsReal
<1>1. /\ NoReturn(History) /\ DOMAIN History \subseteq Nat /\ DOMAIN History = 1..Now /\ Now \in Nat \ {0}
      /\ kind \in {"live", "readonly"} /\ Reals(History, 1, Now)
  BY NothingCameBack, HistoryReals DEF CaptureInvariant, TypeOK
<1>2. PICK l \in 1..Now : \E q \in 1..l : \E m \in 1..q :
         /\ Patched(History, kind, before, patches, m, q)
         /\ Full(History, kind, before, q, l) /\ Full(History, kind, before, l, Now)
  BY DEF CaptureInvariant, AcceptedOK, Bundled
<1>3. PICK q \in 1..l : \E m \in 1..q :
         /\ Patched(History, kind, before, patches, m, q)
         /\ Full(History, kind, before, q, l) /\ Full(History, kind, before, l, Now)
  BY <1>2
<1>4. PICK m \in 1..q :
         /\ Patched(History, kind, before, patches, m, q)
         /\ Full(History, kind, before, q, l) /\ Full(History, kind, before, l, Now)
  BY <1>3
<1>5. m \in 1..Now /\ l \in m..Now /\ q \in m..l /\ m..l \subseteq DOMAIN History /\ q \in DOMAIN History
  BY <1>1
<1>6. Steady(History, m, l) /\ \A p \in Tracked(History[q]) : History[q].index[p].flag = "plain"
  <2>1. /\ Full(History, "live", before, 1, m) /\ Full(History, "live", before, m, q)
        /\ Full(History, "live", before, q, l) /\ Full(History, "live", before, l, Now)
    BY <1>4 DEF Patched
  <2>2. q \in m..Now /\ l \in q..Now /\ 1..Now \subseteq DOMAIN History
    BY <1>1
  <2> QED BY <1>1, <1>5, <2>1, <2>2, IndexStayed
<1>7. Reals(History, m, l) /\ Steady(History, m, q)
  <2>1. q \in m..l /\ \A i \in m..q : i \in m..l
    BY <1>5
  <2> QED BY <1>1, <1>5, <1>6, <2>1 DEF Reals, Steady
<1> DEFINE r == History[q]
<1>8. Supported(r) /\ Snapshot(before) = Describe(r)
  BY <1>1, <1>4, <1>5, <1>6, <1>7, Between DEF Patched
<1>9. r \in Repositories
  BY <1>5, <1>7 DEF Reals
<1>10. /\ patches.staged = Differences(before.head, IndexTree(r))
       /\ patches.unstaged = Differences(IndexTree(r), WorkTree(r))
  BY <1>4, <1>7 DEF Patched, StagedAt
<1>11. Bundle = [base |-> before.head, staged |-> Differences(before.head, IndexTree(r)),
                 unstaged |-> Differences(IndexTree(r), WorkTree(r)),
                 untracked |-> before.untracked, dirty |-> Context(before).dirty]
  BY <1>10 DEF Bundle, BaseEntries
<1> HIDE DEF r
<1>12. /\ Rebuilds(Bundle)
       /\ IndexLayer(Bundle) = IndexTree(r) /\ WorktreeLayer(Bundle) = WorkTree(r)
       /\ \/ DirtyAgrees(Bundle)
          \/ \E p \in Converted \cap r.touched : r.work[p] # WorkTree(r)[p]
  BY <1>8, <1>9, <1>11, LayersAreThose
<1> USE DEF r
<1> QED BY <1>5, <1>8, <1>12

\* A context that is handed out describes one moment of the capture completely,
\* whatever users and Git did, unless something came back to what it had been or
\* somebody staged: reading HEAD, index, candidates and files twice is enough.
THEOREM ContextTellsOneMoment == Spec => []ContextIsReal
BY CaptureInvariantHolds, ContextFollows, PTL

\* A captured Result Bundle is the repository at one moment, staging included.
THEOREM BundleTellsOneMoment == Spec => []BundleIsReal
BY CaptureInvariantHolds, BundleFollows, PTL
=============================================================================
