---------------------------- MODULE PayloadsProofs ----------------------------
(***************************************************************************)
(* What reading a package and writing its payloads promise, for any        *)
(* archives, any tree their payloads meet and any number of changes others *)
(* make.  Walking the members in order accepts exactly the packages whose  *)
(* members are safe together, and leaves distinct payloads to the writing. *)
(* The last look at a target holds until somebody changes something; what  *)
(* has been written stays, but where others came after it.                 *)
(***************************************************************************)
EXTENDS Payloads, WellFoundedInduction, TLAPS

Begun == round \in {"inspect", "verify"}
InHand == {"parent", "mkdir", "kind", "state", "stage", "fill", "replace", "unlink"}
Verifying == round = "verify" /\ pc \in {"parent", "kind", "state", "replace"}

\* Where the rounds stand.
RoundsOK ==
  /\ pc \in {"package", "resolve", "gate", "recheck", "record"} => round = "preflight" /\ next = 1
  /\ pc \in {"mkdir", "stage", "fill"} => round = "inspect"
  /\ pc = "mkdir" => ~Top(path)
  /\ pc = "replace" => round = "verify"
  /\ pc \in InHand => next \in DOMAIN payloads
  /\ pc = "package" => payloads = <<>>
  /\ pc \notin {"unlink", "done"} => outcome = "none"

\* The end agrees with how far the Apply has come.
EndsOK ==
  /\ round # "preflight" => recorded
  /\ outcome \in {"source_error", "package_error", "refused", "dry_run", "state_mismatch", "raised"} => ~Begun
  /\ outcome = "success" => pc = "done" /\ (Begun \/ DOMAIN payloads = {})

\* What is staged, and where.
StagedOK ==
  /\ pc \in {"stage", "fill"} \/ Verifying =>
       /\ target \in [state : {Nothing} \cup States, mode : Modes]
       /\ target.mode = SelectedMode(requested,
                          IF target.state = Nothing THEN Nothing ELSE target.state.mode)
  /\ pc = "fill" \/ Verifying => temp \in Places

\* The last look holds until others change something.
LastLook ==
  /\ Verifying /\ (~late \/ path \notin disturbed) =>
       /\ pc = "kind" => Place(path) = "here"
       /\ pc \in {"state", "replace"} => Place(path) # "elsewhere"
  /\ pc = "replace" /\ ~late =>
       /\ Lstat(path).kind \in {"missing", "file"} /\ Unchanged
       /\ requested # Nothing => Grantable(requested)

Written == {i \in DOMAIN payloads : Begun /\ (i < next \/ outcome = "success")}

\* Nothing of ours is there before its turn.
OursIsWritten ==
  /\ ~Begun => Untouched
  /\ \A i \in DOMAIN payloads \ Written : disk[<<"here", payloads[i].path>>].body # -i

InPlace == \A i \in Written : Here(i) \/ payloads[i].path \in disturbed

PayloadsInv == TypeOK /\ RoundsOK /\ EndsOK /\ StagedOK /\ LastLook /\ OursIsWritten /\ InPlace

Early == {"source_error", "package_error", "refused", "dry_run", "state_mismatch", "raised"}

-----------------------------------------------------------------------------
(* Paths and places.                                                        *)

LEMMA SequenceFacts ==
  ASSUME NEW R, NEW s \in Seq(R)
  PROVE  DOMAIN s = 1..Len(s) /\ Len(s) \in Nat /\ \A i \in 1..Len(s) : s[i] \in R
OBVIOUS

LEMMA BroughtTyped ==
  ASSUME NEW s, Distinct(s), NEW i \in DOMAIN s
  PROVE  /\ s[i].path \in Targets /\ Parent(s[i].path) \in Targets
         /\ s[i].mode \in {Nothing} \cup Modes
         /\ i \in Nat \ {0} /\ i <= Len(s)
<1> DEFINE R == [path : Targets, mode : {Nothing} \cup Modes]
<1>1. s \in Seq(R) /\ Parent(s[i].path) \in Targets
  BY DEF Distinct
<1>2. DOMAIN s = 1..Len(s) /\ Len(s) \in Nat /\ \A k \in 1..Len(s) : s[k] \in R
  <2> HIDE DEF R
  <2> QED BY <1>1, SequenceFacts
<1>3. s[i].path \in Targets /\ s[i].mode \in {Nothing} \cup Modes
  BY <1>2
<1> QED BY <1>1, <1>2, <1>3

LEMMA PayloadTyped ==
  ASSUME TypeOK, NEW i \in DOMAIN payloads
  PROVE  /\ payloads[i].path \in Targets /\ Parent(payloads[i].path) \in Targets
         /\ payloads[i].mode \in {Nothing} \cup Modes
         /\ i \in Nat \ {0} /\ i <= Len(payloads)
BY BroughtTyped DEF TypeOK

LEMMA LengthOfPayloads ==
  ASSUME TypeOK PROVE DOMAIN payloads = 1..Len(payloads) /\ Len(payloads) \in Nat
<1> DEFINE R == [path : Targets, mode : {Nothing} \cup Modes]
<1>1. payloads \in Seq(R)
  BY DEF TypeOK, Distinct
<1> HIDE DEF R
<1> QED BY <1>1, SequenceFacts

LEMMA OwnPath ==
  ASSUME TypeOK, NEW i \in DOMAIN payloads, NEW j \in DOMAIN payloads, i # j
  PROVE  payloads[i].path # payloads[j].path /\ payloads[i].path # Parent(payloads[j].path)
BY DEF TypeOK, Distinct

\* A directory lies at the top.
LEMMA ParentIsTop == ASSUME NEW p PROVE Top(Parent(p)) /\ (~Top(p) => p # Parent(p))
BY DEF Top, Parent

\* No payload is the directory of a payload.
LEMMA NoParent ==
  ASSUME TypeOK, NEW i \in DOMAIN payloads, NEW j \in DOMAIN payloads, ~Top(payloads[j].path)
  PROVE  payloads[i].path # Parent(payloads[j].path)
BY OwnPath, ParentIsTop

LEMMA PlaceStays ==
  ASSUME NEW p, Top(p) \/ disk'[<<"here", Parent(p)>>].kind = disk[<<"here", Parent(p)>>].kind
  PROVE  Place(p)' = Place(p)
BY DEF Place

LEMMA LstatTyped == ASSUME TypeOK, NEW p \in Targets PROVE Lstat(p) \in Nodes
<1>1. Missing \in Nodes /\ Unreachable \in Nodes
  BY DEF Missing, Unreachable, Node, Nodes, Kinds, Modes
<1>2. Place(p) \in Places \cup {"nowhere"}
  BY DEF Place, Places
<1>3. Place(p) \in Places => disk[<<Place(p), p>>] \in Nodes
  BY DEF TypeOK
<1> QED BY <1>1, <1>2, <1>3 DEF Lstat

LEMMA FoundTyped ==
  ASSUME TypeOK, next \in DOMAIN payloads
  PROVE  /\ Found \in [state : {Nothing} \cup States, mode : Modes]
         /\ Found.mode = SelectedMode(requested,
                           IF Found.state = Nothing THEN Nothing ELSE Found.state.mode)
<1>1. Lstat(path) \in Nodes
  BY PayloadTyped, LstatTyped DEF path
<1>2. State(Lstat(path)) \in {Nothing} \cup States
  BY <1>1 DEF State, Nodes, States
<1>3. {} \in Modes /\ requested \in {Nothing} \cup Modes
  BY PayloadTyped DEF Modes, requested
<1>4. State(Lstat(path)) # Nothing => State(Lstat(path)).mode \in Modes
  BY <1>2 DEF States
<1>5. ASSUME NEW existing \in {Nothing} \cup Modes PROVE SelectedMode(requested, existing) \in Modes
  BY <1>3 DEF SelectedMode
<1> QED BY <1>2, <1>4, <1>5 DEF Found

LEMMA TreeRests ==
  ASSUME OursIsWritten, InPlace, UNCHANGED <<disk, payloads, disturbed>>, Written' = Written,
         Begun => Begun'
  PROVE  OursIsWritten' /\ InPlace'
BY DEF OursIsWritten, InPlace, Here, Place, Top, Parent, Untouched

-----------------------------------------------------------------------------
(* Walks.  Reading an archive folds its members four times over; what a     *)
(* fold computes for every archive is shown by induction over positions,    *)
(* which needs a set of natural numbers and no operator.                    *)

\* Induction over a set of natural numbers: a missed one would have a least.
LEMMA Natural == ASSUME NEW T, T \subseteq Nat, 0 \in T, \A n \in T : n + 1 \in T PROVE T = Nat
<1> DEFINE R == OpToRel(<, Nat)
           Missed == Nat \ T
<1>1. IsWellFoundedOn(R, Nat)
  BY NatLessThanWellFounded
<1>2. \A x, y \in Nat : <<x, y>> \in R <=> x < y
  BY DEF OpToRel
<1>3. SUFFICES ASSUME Missed # {} PROVE FALSE
  OBVIOUS
<1>4. Missed \subseteq Nat
  OBVIOUS
<1> HIDE DEF R, Missed
<1>5. PICK x \in Missed : \A y \in Missed : ~(<<y, x>> \in R)
  BY <1>1, <1>3, <1>4, WFMin
<1>6. x \in Nat /\ x # 0 /\ x - 1 \in Nat /\ x - 1 < x
  BY <1>5 DEF Missed
<1>7. x - 1 \in T
  BY <1>2, <1>5, <1>6 DEF Missed
<1>8. (x - 1) + 1 \in T
  BY <1>7
<1> QED BY <1>5, <1>6, <1>8 DEF Missed

\* One step of each walk of the model.
Do(which, T, done, x) ==
  CASE which = "register" -> Register(done, x)
    [] which = "member"   -> RegisterMember(done, x)
    [] which = "declare"  -> done + x.size
    [] which = "read"     -> ReadMember(done, x)
    [] which = "size"     -> done + Size(x)
    [] which = "keep"     -> IF x \in T THEN Append(done, x) ELSE done

LEMMA LastOf ==
  ASSUME NEW n \in Nat, NEW d \in SUBSET (1..n), n \in d PROVE Max(d) = n
<1>1. n \in d /\ \A y \in d : n >= y
  OBVIOUS
<1>2. Max(d) \in d /\ \A y \in d : Max(d) >= y
  <2>1. \E x \in d : \A y \in d : x >= y
    BY <1>1
  <2> QED BY <2>1, Zenon DEF Max
<1>3. Max(d) \in 1..n /\ Max(d) >= n
  BY <1>1, <1>2
<1> QED BY <1>3

\* A fold goes over subsets of the positions, the last position of each first.
IsWalk(g, which, T, base, s, D) ==
  g = [d \in SUBSET D |-> IF d = {} THEN base ELSE Do(which, T, g[d \ {Max(d)}], s[Max(d)])]

\* Such a function exists, built up position by position, so CHOOSE finds it.
LEMMA WalkExists ==
  ASSUME NEW which, NEW T, NEW base, NEW s, NEW n \in Nat
  PROVE  \E g : IsWalk(g, which, T, base, s, 1..n)
<1> DEFINE Is(g, k) == IsWalk(g, which, T, base, s, 1..k)
           N == {k \in Nat : \E g : Is(g, k)}
<1>1. 0 \in N
  <2> DEFINE g == [d \in SUBSET (1..0) |-> base]
  <2>1. Is(g, 0)
    BY DEF IsWalk
  <2> QED BY <2>1
<1>2. ASSUME NEW k \in N PROVE k + 1 \in N
  <2>1. k \in Nat /\ k + 1 \in Nat
    OBVIOUS
  <2>2. PICK g : Is(g, k)
    BY <1>2
  <2> DEFINE h == [d \in SUBSET (1..(k + 1)) |->
                     IF k + 1 \in d THEN Do(which, T, g[d \ {k + 1}], s[k + 1]) ELSE g[d]]
  <2>3. ASSUME NEW d \in SUBSET (1..(k + 1))
        PROVE  h[d] = IF d = {} THEN base ELSE Do(which, T, h[d \ {Max(d)}], s[Max(d)])
    <3>1. CASE k + 1 \in d
      <4>1. Max(d) = k + 1
        BY <2>1, <3>1, LastOf
      <4>2. d \ {k + 1} \in SUBSET (1..(k + 1)) /\ k + 1 \notin d \ {k + 1}
        OBVIOUS
      <4>3. h[d \ {k + 1}] = g[d \ {k + 1}]
        BY <4>2
      <4> QED BY <3>1, <4>1, <4>3
    <3>2. CASE k + 1 \notin d
      <4>1. d \in SUBSET (1..k)
        BY <2>1, <3>2
      <4>2. g[d] = IF d = {} THEN base ELSE Do(which, T, g[d \ {Max(d)}], s[Max(d)])
        BY <2>2, <4>1 DEF IsWalk
      <4>3. d \ {Max(d)} \in SUBSET (1..(k + 1)) /\ k + 1 \notin d \ {Max(d)}
        BY <3>2
      <4>4. h[d \ {Max(d)}] = g[d \ {Max(d)}] /\ h[d] = g[d]
        BY <3>2, <4>3
      <4> QED BY <4>2, <4>4
    <3> QED BY <3>1, <3>2
  <2>4. Is(h, k + 1)
    <3> DEFINE D == SUBSET (1..(k + 1))
    <3>1. h = [d \in D |-> h[d]]
      OBVIOUS
    <3> HIDE DEF h
    <3> QED BY <2>3, <3>1 DEF IsWalk
  <2> HIDE DEF Is
  <2> QED BY <2>1, <2>4
<1>3. N = Nat
  <2>1. N \subseteq Nat
    OBVIOUS
  <2> HIDE DEF N
  <2> QED BY <1>1, <1>2, <2>1, Natural
<1> QED BY <1>3

Walk(which, T, base, s) == CHOOSE g : IsWalk(g, which, T, base, s, DOMAIN s)

\* The values of a walk from member to member.
Follows(f, which, T, base, s, n) ==
  /\ f[0] = base /\ \A i \in 1..n : f[i] = Do(which, T, f[i - 1], s[i])
  /\ Walk(which, T, base, s)[DOMAIN s] = f[n]

\* Read upwards, it is the walk from the first member to the last.
LEMMA Walked ==
  ASSUME NEW which, NEW T, NEW base, NEW n \in Nat, NEW s, DOMAIN s = 1..n
  PROVE  \E f : Follows(f, which, T, base, s, n)
<1> DEFINE w == Walk(which, T, base, s)
           f == [i \in 0..n |-> w[1..i]]
<1>1. w = [d \in SUBSET (1..n) |->
             IF d = {} THEN base ELSE Do(which, T, w[d \ {Max(d)}], s[Max(d)])]
  <2>1. \E g : IsWalk(g, which, T, base, s, DOMAIN s)
    BY WalkExists
  <2>2. IsWalk(w, which, T, base, s, DOMAIN s)
    BY <2>1 DEF Walk
  <2> HIDE DEF w
  <2> QED BY <2>2 DEF IsWalk
<1> HIDE DEF w
<1>2. f[0] = base
  <2>1. 1..0 = {} /\ {} \in SUBSET (1..n)
    OBVIOUS
  <2>2. w[{}] = base
    BY <1>1, <2>1
  <2>3. f[0] = w[1..0]
    OBVIOUS
  <2> QED BY <2>1, <2>2, <2>3
<1>3. ASSUME NEW i \in 1..n PROVE f[i] = Do(which, T, f[i - 1], s[i])
  <2> DEFINE d == 1..i
  <2>1. d \in SUBSET (1..n) /\ d # {} /\ i \in d /\ i \in Nat
    OBVIOUS
  <2>2. Max(d) = i
    BY <2>1, LastOf
  <2>3. d \ {i} = 1..(i - 1) /\ i - 1 \in 0..n
    OBVIOUS
  <2>4. w[d] = Do(which, T, w[d \ {Max(d)}], s[Max(d)])
    BY <1>1, <2>1
  <2>5. f[i] = w[d] /\ f[i - 1] = w[1..(i - 1)]
    BY <2>3
  <2> HIDE DEF f, d
  <2> QED BY <2>2, <2>3, <2>4, <2>5
<1>4. w[DOMAIN s] = f[n]
  OBVIOUS
<1> HIDE DEF f
<1> QED BY <1>2, <1>3, <1>4 DEF w, Follows

\* The walks of the model.
Registered(seen, r) == FoldLeft(Register, seen, r)
AllSeen(a) == FoldLeft(RegisterMember, NoNodes, a)
ReadTotal(a) == FoldLeft(ReadMember, 0, a)
TotalSize(a) == FoldLeft(LAMBDA total, m : total + Size(m), 0, a)

LEMMA RegisterWalk ==
  ASSUME NEW s, NEW seen, NEW n \in Nat, DOMAIN s = 1..n
  PROVE  \E f : /\ f[0] = seen /\ \A i \in 1..n : f[i] = Register(f[i - 1], s[i])
                /\ Registered(seen, s) = f[n]
<1>1. Registered(seen, s) = Walk("register", {}, seen, s)[DOMAIN s]
  BY DEF Registered, FoldLeft, MapThenFoldSet, Walk, IsWalk, Do
<1>2. PICK f : Follows(f, "register", {}, seen, s, n)
  BY Walked
<1>3. \A i \in 1..n : Do("register", {}, f[i - 1], s[i]) = Register(f[i - 1], s[i])
  BY DEF Do
<1> HIDE DEF Do
<1> QED BY <1>1, <1>2, <1>3 DEF Follows

LEMMA MembersWalk ==
  ASSUME NEW s, NEW n \in Nat, DOMAIN s = 1..n
  PROVE  \E f : /\ f[0] = NoNodes /\ \A i \in 1..n : f[i] = RegisterMember(f[i - 1], s[i])
                /\ AllSeen(s) = f[n]
<1>1. AllSeen(s) = Walk("member", {}, NoNodes, s)[DOMAIN s]
  BY DEF AllSeen, FoldLeft, MapThenFoldSet, Walk, IsWalk, Do
<1>2. PICK f : Follows(f, "member", {}, NoNodes, s, n)
  BY Walked
<1>3. \A i \in 1..n : Do("member", {}, f[i - 1], s[i]) = RegisterMember(f[i - 1], s[i])
  BY DEF Do
<1> HIDE DEF Do
<1> QED BY <1>1, <1>2, <1>3 DEF Follows

LEMMA DeclareWalk ==
  ASSUME NEW s, NEW n \in Nat, DOMAIN s = 1..n
  PROVE  \E f : /\ f[0] = 0 /\ \A i \in 1..n : f[i] = f[i - 1] + s[i].size
                /\ DeclaredTotal(s) = f[n]
<1>1. DeclaredTotal(s) = Walk("declare", {}, 0, s)[DOMAIN s]
  BY DEF DeclaredTotal, FoldLeft, MapThenFoldSet, Walk, IsWalk, Do
<1>2. PICK f : Follows(f, "declare", {}, 0, s, n)
  BY Walked
<1>3. \A i \in 1..n : Do("declare", {}, f[i - 1], s[i]) = f[i - 1] + s[i].size
  BY DEF Do
<1> HIDE DEF Do
<1> QED BY <1>1, <1>2, <1>3 DEF Follows

LEMMA ReadWalk ==
  ASSUME NEW s, NEW n \in Nat, DOMAIN s = 1..n
  PROVE  \E f : /\ f[0] = 0 /\ \A i \in 1..n : f[i] = ReadMember(f[i - 1], s[i])
                /\ ReadTotal(s) = f[n]
<1>1. ReadTotal(s) = Walk("read", {}, 0, s)[DOMAIN s]
  BY DEF ReadTotal, FoldLeft, MapThenFoldSet, Walk, IsWalk, Do
<1>2. PICK f : Follows(f, "read", {}, 0, s, n)
  BY Walked
<1>3. \A i \in 1..n : Do("read", {}, f[i - 1], s[i]) = ReadMember(f[i - 1], s[i])
  BY DEF Do
<1> HIDE DEF Do
<1> QED BY <1>1, <1>2, <1>3 DEF Follows

LEMMA SizeWalk ==
  ASSUME NEW s, NEW n \in Nat, DOMAIN s = 1..n
  PROVE  \E f : /\ f[0] = 0 /\ \A i \in 1..n : f[i] = f[i - 1] + Size(s[i])
                /\ TotalSize(s) = f[n]
<1>1. TotalSize(s) = Walk("size", {}, 0, s)[DOMAIN s]
  BY DEF TotalSize, FoldLeft, MapThenFoldSet, Walk, IsWalk, Do
<1>2. PICK f : Follows(f, "size", {}, 0, s, n)
  BY Walked
<1>3. \A i \in 1..n : Do("size", {}, f[i - 1], s[i]) = f[i - 1] + Size(s[i])
  BY DEF Do
<1> HIDE DEF Do
<1> QED BY <1>1, <1>2, <1>3 DEF Follows

LEMMA KeepWalk ==
  ASSUME NEW s, NEW T, NEW n \in Nat, DOMAIN s = 1..n
  PROVE  \E f : /\ f[0] = <<>> /\ \A i \in 1..n : f[i] = IF s[i] \in T THEN Append(f[i - 1], s[i]) ELSE f[i - 1]
                /\ Keep(s, T) = f[n]
<1>1. Keep(s, T) = Walk("keep", T, <<>>, s)[DOMAIN s]
  BY DEF Keep, FoldLeft, MapThenFoldSet, Walk, IsWalk, Do
<1>2. PICK f : Follows(f, "keep", T, <<>>, s, n)
  BY Walked
<1>3. \A i \in 1..n : Do("keep", T, f[i - 1], s[i]) = IF s[i] \in T THEN Append(f[i - 1], s[i]) ELSE f[i - 1]
  BY DEF Do
<1> HIDE DEF Do
<1> QED BY <1>1, <1>2, <1>3 DEF Follows

\* The same induction over the positions of a walk.
LEMMA UpTo ==
  ASSUME NEW n \in Nat, NEW N, 0 \in N, \A k \in 0..(n - 1) : k \in N => k + 1 \in N
  PROVE  \A k \in 0..n : k \in N
<1> DEFINE T == {k \in Nat : k <= n => k \in N}
<1>1. T \subseteq Nat /\ 0 \in T
  OBVIOUS
<1>2. \A k \in T : k + 1 \in T
  OBVIOUS
<1>3. T = Nat
  <2> HIDE DEF T
  <2> QED BY <1>1, <1>2, Natural
<1> QED BY <1>3

-----------------------------------------------------------------------------
(* The budget.                                                              *)

LEMMA ArchiveTyped ==
  ASSUME NEW a \in Seq(Members)
  PROVE  DOMAIN a = 1..Len(a) /\ Len(a) \in Nat /\ \A i \in 1..Len(a) : a[i] \in Members
BY SequenceFacts

LEMMA MemberTyped ==
  ASSUME NEW m \in Members
  PROVE  /\ m.path \in Paths /\ m.directory \in BOOLEAN /\ m.unix \in BOOLEAN /\ m.mode \in Modes
         /\ m.type \in {"none", "file", "directory", "link"} /\ m.size \in Nat
         /\ m.stored \in Nat \cup {Nothing}
         /\ m.content.entrypoint \in Paths
BY DEF Members

\* What reading a member requires of it.
Sound(m) ==
  ~m.directory => m.stored # Nothing /\ m.stored = m.size /\ m.stored <= MaxEntry

\* Reading within a budget that counts on across members is a sum within the limit.
LEMMA ReadingIs ==
  ASSUME NEW a \in Seq(Members)
  PROVE  ReadTotal(a) # Nothing
           <=> (\A i \in DOMAIN a : Sound(a[i])) /\ TotalSize(a) <= MaxTotal
<1> DEFINE n == Len(a)
<1>0. /\ n \in Nat /\ DOMAIN a = 1..n /\ \A i \in 1..n : a[i] \in Members
      /\ MaxTotal \in Nat /\ Nothing \notin Nat /\ MaxEntry \in Nat
  BY ArchiveTyped, PackagesAssumption
<1> HIDE DEF n
<1>1. PICK r : /\ r[0] = 0 /\ \A i \in 1..n : r[i] = ReadMember(r[i - 1], a[i])
               /\ ReadTotal(a) = r[n]
  BY <1>0, ReadWalk
<1>2. PICK z : /\ z[0] = 0 /\ \A i \in 1..n : z[i] = z[i - 1] + Size(a[i])
               /\ TotalSize(a) = z[n]
  BY <1>0, SizeWalk
<1> DEFINE N == {k \in 0..n : /\ z[k] \in Nat
                              /\ r[k] # Nothing => r[k] = z[k]
                              /\ (r[k] # Nothing) <=> (\A i \in 1..k : Sound(a[i])) /\ z[k] <= MaxTotal}
<1>3. 0 \in N
  BY <1>0, <1>1, <1>2
<1>4. ASSUME NEW k \in 0..(n - 1), k \in N PROVE k + 1 \in N
  <2> DEFINE m == a[k + 1]
  <2>1. k + 1 \in 1..n /\ (k + 1) - 1 = k /\ k \in Nat
    BY <1>0
  <2>2. r[k + 1] = ReadMember(r[k], m) /\ z[k + 1] = z[k] + Size(m)
    BY <1>1, <1>2, <2>1
  <2>3. m.stored \in Nat \cup {Nothing} /\ Size(m) \in Nat /\ m.directory \in BOOLEAN
    BY <1>0, <2>1, MemberTyped DEF Size
  <2>4. (\A i \in 1..(k + 1) : Sound(a[i])) <=> (\A i \in 1..k : Sound(a[i])) /\ Sound(m)
    BY <2>1
  <2>5. z[k] \in Nat /\ z[k + 1] \in Nat /\ z[k] <= z[k + 1]
    BY <1>4, <2>2, <2>3
  <2> HIDE DEF m
  <2>6. CASE m.directory
    <3>1. r[k + 1] = r[k] /\ z[k + 1] = z[k] /\ Sound(m)
      BY <2>2, <2>5, <2>6 DEF ReadMember, Size, Sound
    <3> QED BY <1>4, <2>1, <2>4, <2>5, <3>1
  <2>7. CASE ~m.directory /\ ~Sound(m)
    <3>1. r[k + 1] = Nothing
      BY <1>0, <2>2, <2>3, <2>7 DEF ReadMember, Sound
    <3> QED BY <1>4, <2>1, <2>4, <2>5, <2>7, <3>1
  <2>8. CASE ~m.directory /\ Sound(m)
    <3>1. Size(m) = m.stored /\ m.stored \in Nat /\ m.stored = m.size /\ m.stored <= MaxEntry
      BY <2>3, <2>8 DEF Size, Sound
    <3>2. r[k + 1] = IF r[k] = Nothing \/ r[k] + m.stored > MaxTotal THEN Nothing ELSE r[k] + m.stored
      BY <1>0, <2>2, <2>8, <3>1 DEF ReadMember
    <3>3. r[k] = Nothing => r[k + 1] = Nothing
      BY <3>2
    <3>4. r[k] # Nothing => r[k + 1] = IF z[k + 1] <= MaxTotal THEN z[k + 1] ELSE Nothing
      BY <1>0, <1>4, <2>2, <2>5, <3>1, <3>2
    <3>5. (\A i \in 1..k : Sound(a[i])) /\ z[k + 1] <= MaxTotal => r[k] # Nothing
      BY <1>0, <1>4, <2>5
    <3>6. r[k + 1] # Nothing <=> (\A i \in 1..k : Sound(a[i])) /\ z[k + 1] <= MaxTotal
      BY <1>0, <1>4, <2>5, <3>3, <3>4, <3>5
    <3> QED BY <1>0, <1>4, <2>1, <2>4, <2>5, <2>8, <3>3, <3>4, <3>6
  <2> QED BY <2>3, <2>6, <2>7, <2>8
<1>5. n \in N
  <2>1. \A k \in 0..(n - 1) : k \in N => k + 1 \in N
    BY <1>4
  <2> HIDE DEF N
  <2>2. \A k \in 0..n : k \in N
    BY <1>0, <1>3, <2>1, UpTo
  <2> QED BY <1>0, <2>2
<1> QED BY <1>0, <1>1, <1>2, <1>5

\* What the archive declares is what is read, where both agree member by member.
LEMMA DeclaredIs ==
  ASSUME NEW a \in Seq(Members), \A i \in DOMAIN a : Size(a[i]) = a[i].size
  PROVE  DeclaredTotal(a) = TotalSize(a)
<1> DEFINE n == Len(a)
<1>0. n \in Nat /\ DOMAIN a = 1..n
  BY ArchiveTyped
<1> HIDE DEF n
<1>1. PICK d : /\ d[0] = 0 /\ \A i \in 1..n : d[i] = d[i - 1] + a[i].size
               /\ DeclaredTotal(a) = d[n]
  BY <1>0, DeclareWalk
<1>2. PICK z : /\ z[0] = 0 /\ \A i \in 1..n : z[i] = z[i - 1] + Size(a[i])
               /\ TotalSize(a) = z[n]
  BY <1>0, SizeWalk
<1> DEFINE N == {k \in 0..n : d[k] = z[k]}
<1>3. 0 \in N
  BY <1>0, <1>1, <1>2
<1>4. ASSUME NEW k \in 0..(n - 1), k \in N PROVE k + 1 \in N
  <2>1. k + 1 \in 1..n /\ (k + 1) - 1 = k
    BY <1>0
  <2>2. d[k + 1] = d[k] + a[k + 1].size /\ z[k + 1] = z[k] + Size(a[k + 1])
    BY <1>1, <1>2, <2>1
  <2> QED BY <1>0, <1>4, <2>1, <2>2
<1>5. n \in N
  <2>1. \A k \in 0..(n - 1) : k \in N => k + 1 \in N
    BY <1>4
  <2> HIDE DEF N
  <2>2. \A k \in 0..n : k \in N
    BY <1>0, <1>3, <2>1, UpTo
  <2> QED BY <1>0, <2>2
<1> QED BY <1>1, <1>2, <1>5

-----------------------------------------------------------------------------
(* The walk over the paths.                                                 *)

Prefix(p, i) == SubSeq(p, 1, i)

LEMMA PathTyped ==
  ASSUME NEW p \in Paths
  PROVE  /\ p \in Seq(Names) /\ Len(p) \in 1..2 /\ p[1] \in Names
         /\ p = IF Len(p) = 1 THEN <<p[1]>> ELSE <<p[1], p[2]>>
         /\ Len(p) = 2 => p[2] \in Names
<1>1. CASE p \in {<<n>> : n \in Names}
  <2>1. PICK x \in Names : p = <<x>>
    BY <1>1
  <2> QED BY <2>1
<1>2. CASE p \in Names \X Names
  <2>1. PICK x \in Names, y \in Names : p = <<x, y>>
    BY <1>2
  <2> QED BY <2>1
<1> QED BY <1>1, <1>2 DEF Paths

LEMMA PrefixTyped ==
  ASSUME NEW p \in Paths, NEW i \in 1..Len(p)
  PROVE  /\ Prefix(p, i) \in Paths /\ Len(Prefix(p, i)) = i
         /\ i = Len(p) => Prefix(p, i) = p
         /\ i = 1 => Prefix(p, i) = Parent(p)
         /\ DOMAIN FoldedPath(Prefix(p, i)) = 1..i
<1>1. /\ p \in Seq(Names) /\ Len(p) \in 1..2 /\ p[1] \in Names
      /\ p = IF Len(p) = 1 THEN <<p[1]>> ELSE <<p[1], p[2]>>
      /\ Len(p) = 2 => p[2] \in Names
  BY PathTyped
<1>2. Prefix(p, i) \in Seq(Names) /\ Len(Prefix(p, i)) = i /\ \A j \in 1..i : Prefix(p, i)[j] = p[j]
  BY <1>1 DEF Prefix
<1>3. i = 1 => Prefix(p, i) = <<p[1]>>
  BY <1>1, <1>2
<1>4. i = 2 => Len(p) = 2 /\ Prefix(p, i) = <<p[1], p[2]>>
  <2>1. ASSUME NEW q \in Seq(Names), Len(q) = 2 PROVE q = <<q[1], q[2]>>
    BY <2>1
  <2>2. i = 2 => Len(p) = 2 /\ Prefix(p, i)[1] = p[1] /\ Prefix(p, i)[2] = p[2]
    BY <1>1, <1>2
  <2> QED BY <1>2, <2>1, <2>2
<1>5. (i = 1 \/ i = 2) /\ i \in Nat
  <2>1. Len(p) = 1 \/ Len(p) = 2
    BY <1>1
  <2>2. Len(p) = 1 => i = 1
    OBVIOUS
  <2>3. Len(p) = 2 => i \in {1, 2}
    OBVIOUS
  <2> QED BY <2>1, <2>2, <2>3
<1>6. Prefix(p, i) \in Paths
  BY <1>1, <1>3, <1>4, <1>5 DEF Paths
<1>7. DOMAIN FoldedPath(Prefix(p, i)) = 1..i
  <2>1. DOMAIN Prefix(p, i) = 1..i
    BY <1>2
  <2> QED BY <2>1 DEF FoldedPath
<1>8. i = Len(p) => Prefix(p, i) = p
  BY <1>1, <1>3, <1>4, <1>5
<1> QED BY <1>2, <1>3, <1>5, <1>6, <1>7, <1>8 DEF Parent

\* Paths of different lengths have different keys.
LEMMA LengthOfKey ==
  ASSUME NEW p \in Paths, NEW q \in Paths, NEW i \in 1..Len(p), NEW j \in 1..Len(q),
         FoldedPath(Prefix(p, i)) = FoldedPath(Prefix(q, j))
  PROVE  i = j
<1>1. 1..i = 1..j
  BY PrefixTyped
<1>2. i \in Nat \ {0} /\ j \in Nat \ {0}
  BY PathTyped
<1> QED BY <1>1, <1>2

\* What a member registers, directory by directory.
Registration == [path : Paths, explicit : BOOLEAN, directory : BOOLEAN]
Depths(m) == 1..Len(m.path)
Reg(m, i) == [path |-> Prefix(m.path, i), explicit |-> i = Len(m.path),
              directory |-> i < Len(m.path) \/ m.directory]
Regs(m) == {Reg(m, i) : i \in Depths(m)}

LEMMA RegTyped ==
  ASSUME NEW m \in Members
  PROVE  /\ Registrations(m) = [i \in Depths(m) |-> Reg(m, i)]
         /\ \A i \in Depths(m) : Reg(m, i) \in Registration
         /\ Depths(m) = IF Len(m.path) = 1 THEN {1} ELSE {1, 2}
         /\ Len(m.path) \in 1..2 /\ m.path \in Paths
<1>1. m.path \in Paths /\ m.directory \in BOOLEAN
  BY MemberTyped
<1>2. Len(m.path) \in 1..2
  BY <1>1, PathTyped
<1>3. Registrations(m) = [i \in Depths(m) |-> Reg(m, i)]
  BY DEF Registrations, Depths, Reg, Prefix
<1>4. ASSUME NEW i \in Depths(m) PROVE Reg(m, i) \in Registration
  <2>1. Prefix(m.path, i) \in Paths
    BY <1>1, PrefixTyped DEF Depths
  <2> QED BY <2>1 DEF Reg, Registration
<1>5. Depths(m) = IF Len(m.path) = 1 THEN {1} ELSE {1, 2}
  BY <1>2 DEF Depths
<1> QED BY <1>1, <1>2, <1>3, <1>4, <1>5

Key(r) == FoldedPath(r.path)
Clash(r, s) == Key(r) = Key(s) /\ Conflict(r, s)

\* The walk knows these registrations, and none of them has clashed.
Represents(seen, P) ==
  /\ seen.clash = FALSE
  /\ \A r \in P : /\ Key(r) \in DOMAIN seen.nodes
                  /\ seen.nodes[Key(r)].path = r.path
                  /\ seen.nodes[Key(r)].directory = r.directory
  /\ \A k \in DOMAIN seen.nodes :
       /\ seen.nodes[k] \in Registration /\ \E r \in P : Key(r) = k
       /\ seen.nodes[k].explicit <=> \E r \in P : Key(r) = k /\ r.explicit

LEMMA ClashStays == ASSUME NEW seen, seen.clash = TRUE, NEW r PROVE Register(seen, r) = seen
BY DEF Register

\* The walk errs at a registration exactly if an earlier one clashes with it: what it
\* remembers of a key stands for all that were registered there.
LEMMA RegisterStep ==
  ASSUME NEW P \in SUBSET Registration, NEW seen, Represents(seen, P), NEW new \in Registration
  PROVE  IF \E r \in P : Clash(r, new) THEN Register(seen, new).clash = TRUE
         ELSE Represents(Register(seen, new), P \cup {new})
<1> DEFINE key == Key(new)
           nodes == seen.nodes
           after == Register(seen, new)
<1>1. \A r \in P : /\ key = Key(r) => key \in DOMAIN nodes
                   /\ r.path \in Paths /\ r.explicit \in BOOLEAN /\ r.directory \in BOOLEAN
  BY DEF Represents, Registration
<1>2. new.path \in Paths /\ new.explicit \in BOOLEAN /\ new.directory \in BOOLEAN
  BY DEF Registration
<1>3. CASE key \notin DOMAIN nodes
  <2> DEFINE more == [k \in DOMAIN nodes \cup {key} |-> IF k = key THEN new ELSE nodes[k]]
  <2>1. after = SoFar(more, FALSE)
    BY <1>3 DEF Register, Key, Represents
  <2>2. after.nodes = more /\ after.clash = FALSE
    BY <2>1 DEF SoFar
  <2>3. \A r \in P : Key(r) # key
    BY <1>1, <1>3
  <2>4. DOMAIN more = DOMAIN nodes \cup {key} /\ more[key] = new
        /\ \A k \in DOMAIN nodes : more[k] = nodes[k]
    BY <1>3
  <2> HIDE DEF key, nodes, after, more
  <2>5. \A r \in P \cup {new} : /\ Key(r) \in DOMAIN more
                               /\ more[Key(r)].path = r.path /\ more[Key(r)].directory = r.directory
    BY <2>4 DEF Represents, key, nodes
  <2>6. ASSUME NEW k \in DOMAIN more
        PROVE  /\ more[k] \in Registration /\ \E r \in P \cup {new} : Key(r) = k
               /\ more[k].explicit <=> \E r \in P \cup {new} : Key(r) = k /\ r.explicit
    <3>1. CASE k = key
      BY <2>3, <2>4, <3>1 DEF key
    <3>2. CASE k # key
      BY <2>4, <3>2 DEF Represents, key, nodes
    <3> QED BY <3>1, <3>2
  <2>7. Represents(after, P \cup {new})
    BY <2>2, <2>5, <2>6 DEF Represents
  <2> QED BY <2>3, <2>7 DEF Clash, after, key
<1>4. CASE key \in DOMAIN nodes
  <2>1. /\ nodes[key] \in Registration
        /\ \E r \in P : Key(r) = key
        /\ nodes[key].explicit <=> \E r \in P : Key(r) = key /\ r.explicit
        /\ \A r \in P : Key(r) = key => nodes[key].path = r.path /\ nodes[key].directory = r.directory
    BY <1>4 DEF Represents
  <2>2. Conflict(nodes[key], new) <=> \E r \in P : Clash(r, new)
    <3> HIDE DEF key, nodes
    <3> QED BY <2>1 DEF Clash, Conflict, key
  <2>3. CASE Conflict(nodes[key], new)
    <3>1. after = SoFar(nodes, TRUE)
      BY <1>4, <2>3 DEF Register, Key, Represents
    <3>2. after.clash = TRUE
      BY <3>1 DEF SoFar
    <3> QED BY <2>2, <2>3, <3>2
  <2>4. CASE ~Conflict(nodes[key], new)
    <3> DEFINE more == [nodes EXCEPT ![key].explicit = @ \/ new.explicit]
    <3>1. after = SoFar(more, FALSE)
      BY <1>4, <2>4 DEF Register, Key, Represents
    <3>2. after.nodes = more /\ after.clash = FALSE
      BY <3>1 DEF SoFar
    <3>3. DOMAIN more = DOMAIN nodes /\ \A k \in DOMAIN nodes : k # key => more[k] = nodes[k]
      OBVIOUS
    <3>4. more[key] \in Registration /\ more[key].path = nodes[key].path
          /\ more[key].directory = nodes[key].directory
          /\ more[key].explicit = (nodes[key].explicit \/ new.explicit)
      BY <1>2, <1>4, <2>1 DEF Registration
    <3>5. new.path = nodes[key].path /\ new.directory = nodes[key].directory
      BY <2>4 DEF Conflict
    <3> HIDE DEF key, nodes, after, more
    <3>6. \A r \in P \cup {new} : /\ Key(r) \in DOMAIN more
                                 /\ more[Key(r)].path = r.path /\ more[Key(r)].directory = r.directory
      <4>1. \A r \in P : Key(r) \in DOMAIN nodes /\ nodes[Key(r)].path = r.path
                         /\ nodes[Key(r)].directory = r.directory
        BY DEF Represents, nodes
      <4> QED BY <1>4, <3>3, <3>4, <3>5, <4>1 DEF key
    <3>7. ASSUME NEW k \in DOMAIN more
          PROVE  /\ more[k] \in Registration /\ \E r \in P \cup {new} : Key(r) = k
                 /\ more[k].explicit <=> \E r \in P \cup {new} : Key(r) = k /\ r.explicit
      <4>1. CASE k = key
        BY <2>1, <3>4, <4>1 DEF key
      <4>2. CASE k # key
        BY <3>3, <4>2 DEF Represents, key, nodes
      <4> QED BY <4>1, <4>2
    <3>8. Represents(after, P \cup {new})
      BY <3>2, <3>6, <3>7 DEF Represents
    <3> QED BY <2>2, <2>4, <3>8 DEF after
  <2> QED BY <2>3, <2>4
<1> QED BY <1>3, <1>4

\* A clash is never forgotten.
LEMMA MemberStays ==
  ASSUME NEW seen, seen.clash = TRUE, NEW m \in Members
  PROVE  RegisterMember(seen, m).clash = TRUE
<1> DEFINE n == Len(m.path)
           s == Registrations(m)
<1>1. n \in {1, 2} /\ n \in Nat /\ DOMAIN s = 1..n
  <2>1. Len(m.path) \in 1..2 /\ Registrations(m) = [i \in Depths(m) |-> Reg(m, i)]
    BY RegTyped
  <2>2. DOMAIN Registrations(m) = 1..Len(m.path)
    BY <2>1 DEF Depths
  <2> QED BY <2>1, <2>2
<1> HIDE DEF n, s
<1>2. PICK f : /\ f[0] = seen /\ \A i \in 1..n : f[i] = Register(f[i - 1], s[i])
               /\ Registered(seen, s) = f[n]
  BY <1>1, RegisterWalk
<1>3. f[1] = seen
  <2>1. 1 \in 1..n
    BY <1>1
  <2>2. f[1] = Register(f[1 - 1], s[1])
    BY <1>2, <2>1
  <2>3. f[1] = Register(seen, s[1])
    BY <1>2, <2>2
  <2> QED BY <2>3, ClashStays
<1>4. n = 2 => f[2] = seen
  <2>1. SUFFICES ASSUME n = 2 PROVE f[2] = seen
    OBVIOUS
  <2>2. f[2] = Register(f[2 - 1], s[2])
    BY <1>2, <2>1
  <2>3. f[2] = Register(seen, s[2])
    BY <1>3, <2>2
  <2> QED BY <2>3, ClashStays
<1> QED BY <1>1, <1>2, <1>3, <1>4 DEF RegisterMember, Registered, s

\* The same, a member at a time; a member does not clash with itself.
LEMMA MemberStep ==
  ASSUME NEW P \in SUBSET Registration, NEW seen, Represents(seen, P), NEW m \in Members
  PROVE  IF \E r \in P, s \in Regs(m) : Clash(r, s) THEN RegisterMember(seen, m).clash = TRUE
         ELSE Represents(RegisterMember(seen, m), P \cup Regs(m))
<1> DEFINE n == Len(m.path)
           s == Registrations(m)
<1>1. /\ n \in Nat /\ DOMAIN s = 1..n /\ \A i \in Depths(m) : s[i] = Reg(m, i)
      /\ m.path \in Paths
      /\ (n = 1 /\ Depths(m) = {1}) \/ (n = 2 /\ Depths(m) = {1, 2})
  <2>1. /\ Len(m.path) \in 1..2 /\ Registrations(m) = [i \in Depths(m) |-> Reg(m, i)]
        /\ Depths(m) = IF Len(m.path) = 1 THEN {1} ELSE {1, 2}
        /\ m.path \in Paths
    BY RegTyped
  <2>2. DOMAIN Registrations(m) = Depths(m) /\ \A i \in Depths(m) : Registrations(m)[i] = Reg(m, i)
    BY <2>1
  <2> HIDE DEF s, n
  <2>3. n \in 1..2 /\ DOMAIN s = 1..n
    BY <2>1, <2>2 DEF s, n, Depths
  <2>4. n = 1 \/ n = 2
    BY <2>3
  <2> QED BY <2>1, <2>2, <2>3, <2>4 DEF s, n
<1> HIDE DEF n, s
<1>2. \A i \in Depths(m) : Reg(m, i) \in Registration
  BY RegTyped
<1>3. PICK f : /\ f[0] = seen /\ \A i \in 1..n : f[i] = Register(f[i - 1], s[i])
               /\ Registered(seen, s) = f[n]
  BY <1>1, RegisterWalk
<1>4. RegisterMember(seen, m) = f[n]
  BY <1>3 DEF RegisterMember, Registered, s
<1>5. 1 \in Depths(m) /\ f[1] = Register(seen, Reg(m, 1))
  <2>1. 1 \in Depths(m) /\ 1 \in 1..n
    BY <1>1
  <2>2. f[1] = Register(f[1 - 1], s[1])
    BY <1>3, <2>1
  <2> QED BY <1>1, <1>3, <2>1, <2>2
<1>6. n = 2 => f[2] = Register(f[1], Reg(m, 2)) /\ ~Clash(Reg(m, 1), Reg(m, 2))
  <2>1. CASE n = 2
    <3>1. 1 \in 1..Len(m.path) /\ 2 \in 1..Len(m.path) /\ 1 \in Depths(m) /\ 2 \in Depths(m)
      BY <1>1, <2>1 DEF n, Depths
    <3>2. Key(Reg(m, 1)) # Key(Reg(m, 2))
      <4>1. FoldedPath(Prefix(m.path, 1)) # FoldedPath(Prefix(m.path, 2))
        BY <1>1, <3>1, LengthOfKey
      <4> QED BY <4>1 DEF Key, Reg
    <3>3. f[2] = Register(f[2 - 1], s[2])
      BY <1>3, <2>1
    <3>4. s[2] = Reg(m, 2)
      BY <1>1, <3>1
    <3> QED BY <3>2, <3>3, <3>4 DEF Clash
  <2> QED BY <2>1
<1>7. CASE n = 1
  <2>1. Regs(m) = {Reg(m, 1)}
    BY <1>1, <1>7 DEF Regs
  <2> QED BY <1>2, <1>4, <1>5, <1>7, <2>1, RegisterStep
<1>8. CASE n = 2
  <2>1. Regs(m) = {Reg(m, 1), Reg(m, 2)}
    BY <1>1, <1>8 DEF Regs
  <2>2. Reg(m, 1) \in Registration /\ Reg(m, 2) \in Registration
    BY <1>1, <1>2, <1>8
  <2>3. CASE \E r \in P : Clash(r, Reg(m, 1))
    <3>1. f[1].clash = TRUE
      BY <1>5, <2>2, <2>3, RegisterStep
    <3>2. f[2] = f[1]
      BY <1>6, <1>8, <3>1, ClashStays
    <3> QED BY <1>4, <1>8, <2>1, <2>3, <3>1, <3>2
  <2>4. CASE ~\E r \in P : Clash(r, Reg(m, 1))
    <3> DEFINE Q == P \cup {Reg(m, 1)}
    <3>1. Represents(f[1], Q) /\ Q \in SUBSET Registration
      BY <1>5, <2>2, <2>4, RegisterStep
    <3> HIDE DEF Q
    <3>2. IF \E r \in Q : Clash(r, Reg(m, 2)) THEN f[2].clash = TRUE
          ELSE Represents(f[2], Q \cup {Reg(m, 2)})
      BY <1>6, <1>8, <2>2, <3>1, RegisterStep
    <3>3. (\E r \in Q : Clash(r, Reg(m, 2))) <=> \E r \in P : Clash(r, Reg(m, 2))
      BY <1>6, <1>8 DEF Q
    <3>4. Q \cup {Reg(m, 2)} = P \cup Regs(m)
      BY <2>1 DEF Q
    <3> QED BY <1>4, <1>8, <2>1, <2>4, <3>2, <3>3, <3>4
  <2> QED BY <2>3, <2>4
<1> QED BY <1>1, <1>7, <1>8

Apart(m, n) == \A r \in Regs(m), s \in Regs(n) : ~Clash(r, s)

LEMMA NothingSeen == Represents(NoNodes, {})
<1>1. NoNodes.clash = FALSE /\ DOMAIN NoNodes.nodes = {}
  BY DEF NoNodes, SoFar
<1> QED BY <1>1 DEF Represents

\* The walk over an archive sees a clash exactly if two of its members clash.
LEMMA WalkingIs ==
  ASSUME NEW a \in Seq(Members)
  PROVE  ~AllSeen(a).clash <=> \A i, j \in DOMAIN a : i < j => Apart(a[i], a[j])
<1> DEFINE n == Len(a)
           Known(k) == UNION {Regs(a[i]) : i \in 1..k}
           Met(k) == \E j \in 1..k, i \in 1..n : i < j /\ ~Apart(a[i], a[j])
<1>0. n \in Nat /\ DOMAIN a = 1..n /\ \A i \in 1..n : a[i] \in Members
  BY ArchiveTyped
<1> HIDE DEF n
<1>1. PICK f : /\ f[0] = NoNodes /\ \A i \in 1..n : f[i] = RegisterMember(f[i - 1], a[i])
               /\ AllSeen(a) = f[n]
  BY <1>0, MembersWalk
<1> DEFINE N == {k \in 0..n : /\ Met(k) => f[k].clash = TRUE
                              /\ ~Met(k) => Represents(f[k], Known(k))}
<1>2. 0 \in N
  <2>1. ~Met(0) /\ Known(0) = {}
    OBVIOUS
  <2>2. Represents(f[0], {}) /\ 0 \in 0..n
    BY <1>0, <1>1, NothingSeen
  <2> HIDE DEF Met, Known
  <2> QED BY <2>1, <2>2
<1>3. \A k \in 0..(n - 1) : k \in N => k + 1 \in N
  <2> TAKE k \in 0..(n - 1)
  <2> HAVE k \in N
  <2>1. k + 1 \in 1..n /\ (k + 1) - 1 = k /\ k \in Nat /\ 1..(k + 1) = (1..k) \cup {k + 1}
    BY <1>0
  <2>2. f[k + 1] = RegisterMember(f[k], a[k + 1]) /\ a[k + 1] \in Members
    BY <1>0, <1>1, <2>1
  <2>3. Known(k + 1) = Known(k) \cup Regs(a[k + 1])
    BY <2>1
  <2>4. Known(k) \in SUBSET Registration
    <3>1. \A i \in 1..k : Regs(a[i]) \subseteq Registration
      BY <1>0, <2>1, RegTyped DEF Regs
    <3> QED BY <3>1
  <2>5. Met(k + 1) <=> Met(k) \/ \E r \in Known(k), s \in Regs(a[k + 1]) : Clash(r, s)
    <3>1. \A i \in 1..n : i < k + 1 <=> i \in 1..k
      BY <1>0, <2>1
    <3>2. Met(k + 1) <=> Met(k) \/ \E i \in 1..n : i < k + 1 /\ ~Apart(a[i], a[k + 1])
      BY <2>1
    <3>3. (\E i \in 1..n : i < k + 1 /\ ~Apart(a[i], a[k + 1]))
            <=> \E i \in 1..k : ~Apart(a[i], a[k + 1])
      BY <1>0, <2>1, <3>1
    <3>4. (\E i \in 1..k : ~Apart(a[i], a[k + 1]))
            <=> \E r \in Known(k), s \in Regs(a[k + 1]) : Clash(r, s)
      BY DEF Apart
    <3> QED BY <3>2, <3>3, <3>4
  <2> HIDE DEF Known, Met
  <2>6. CASE Met(k)
    <3>1. f[k].clash = TRUE /\ Met(k + 1)
      BY <2>5, <2>6
    <3>2. f[k + 1].clash = TRUE
      BY <2>2, <3>1, MemberStays
    <3> QED BY <1>0, <2>1, <3>1, <3>2
  <2>7. CASE ~Met(k)
    <3>1. Represents(f[k], Known(k))
      BY <2>7
    <3> DEFINE Meets == \E r \in Known(k), s \in Regs(a[k + 1]) : Clash(r, s)
    <3>2. IF Meets THEN RegisterMember(f[k], a[k + 1]).clash = TRUE
          ELSE Represents(RegisterMember(f[k], a[k + 1]), Known(k) \cup Regs(a[k + 1]))
      BY <2>2, <2>4, <3>1, MemberStep
    <3>3. Met(k + 1) <=> Meets
      BY <2>5, <2>7
    <3> HIDE DEF Meets
    <3>4. Met(k + 1) => f[k + 1].clash = TRUE
      BY <2>2, <3>2, <3>3
    <3>5. ~Met(k + 1) => Represents(f[k + 1], Known(k + 1))
      BY <2>2, <2>3, <3>2, <3>3
    <3> QED BY <1>0, <2>1, <3>4, <3>5
  <2> QED BY <2>6, <2>7
<1>4. n \in N
  <2> HIDE DEF N
  <2>1. \A k \in 0..n : k \in N
    BY <1>0, <1>2, <1>3, UpTo
  <2> QED BY <1>0, <2>1
<1>5. AllSeen(a).clash = TRUE <=> Met(n)
  <2>1. ~Met(n) => f[n].clash = FALSE
    BY <1>4 DEF Represents
  <2> QED BY <1>1, <1>4, <2>1
<1>6. AllSeen(a).clash \in BOOLEAN
  BY <1>1, <1>4 DEF Represents
<1> QED BY <1>0, <1>5, <1>6

\* Two members clash exactly if they could meet at one place of some file system.
LEMMA ApartIs ==
  ASSUME NEW m \in Members, NEW n \in Members PROVE Apart(m, n) <=> Disjoint(m, n)
<1> DEFINE p(i) == Prefix(m.path, i)
           q(j) == Prefix(n.path, j)
<1>0. /\ m.path \in Paths /\ n.path \in Paths /\ m.directory \in BOOLEAN /\ n.directory \in BOOLEAN
      /\ Len(m.path) \in Depths(m) /\ Len(n.path) \in Depths(n)
      /\ Depths(m) = 1..Len(m.path) /\ Depths(n) = 1..Len(n.path)
      /\ Depths(m) \subseteq Nat /\ Depths(n) \subseteq Nat
  BY MemberTyped, PathTyped DEF Depths
<1>1. Branch(m) = {p(i) : i \in Depths(m)} /\ Branch(n) = {q(j) : j \in Depths(n)}
  BY DEF Branch, Prefix, Depths
<1>2. /\ \A i \in Depths(m) : Len(p(i)) = i /\ p(i) \in Paths
      /\ \A j \in Depths(n) : Len(q(j)) = j /\ q(j) \in Paths
      /\ p(Len(m.path)) = m.path /\ q(Len(n.path)) = n.path
  BY <1>0, PrefixTyped
<1>3. \A i \in Depths(m), j \in Depths(n) : FoldedPath(p(i)) = FoldedPath(q(j)) => i = j
  BY <1>0, LengthOfKey
<1>4. Apart(m, n) <=> \A i \in Depths(m), j \in Depths(n) :
        FoldedPath(p(i)) = FoldedPath(q(j)) =>
          /\ p(i) = q(j)
          /\ (i < Len(m.path) \/ m.directory) = (j < Len(n.path) \/ n.directory)
          /\ ~(i = Len(m.path) /\ j = Len(n.path))
  <2>1. ASSUME NEW i \in Depths(m), NEW j \in Depths(n)
        PROVE  ~Clash(Reg(m, i), Reg(n, j)) <=>
          (FoldedPath(p(i)) = FoldedPath(q(j)) =>
            /\ p(i) = q(j)
            /\ (i < Len(m.path) \/ m.directory) = (j < Len(n.path) \/ n.directory)
            /\ ~(i = Len(m.path) /\ j = Len(n.path)))
    BY DEF Clash, Key, Reg, Conflict
  <2>2. Apart(m, n) <=> \A i \in Depths(m), j \in Depths(n) : ~Clash(Reg(m, i), Reg(n, j))
    BY DEF Apart, Regs
  <2> QED BY <2>1, <2>2
<1> HIDE DEF p, q
<1>5. ASSUME Apart(m, n) PROVE Disjoint(m, n)
  <2>1. \A x \in Branch(m), y \in Branch(n) : FoldedPath(x) = FoldedPath(y) => x = y
    BY <1>1, <1>4, <1>5
  <2>2. m.path # n.path
    BY <1>0, <1>2, <1>4, <1>5
  <2>3. m.path \in Branch(n) => m.directory
    <3>1. SUFFICES ASSUME NEW j \in Depths(n), q(j) = m.path PROVE m.directory
      BY <1>1
    <3>2. /\ (Len(m.path) < Len(m.path) \/ m.directory) = (j < Len(n.path) \/ n.directory)
          /\ j # Len(n.path)
      BY <1>0, <1>2, <1>4, <1>5, <3>1
    <3>3. j < Len(n.path) /\ ~(Len(m.path) < Len(m.path))
      BY <1>0, <3>2
    <3> QED BY <1>0, <3>2, <3>3
  <2>4. n.path \in Branch(m) => n.directory
    <3>1. SUFFICES ASSUME NEW i \in Depths(m), p(i) = n.path PROVE n.directory
      BY <1>1
    <3>2. /\ (i < Len(m.path) \/ m.directory) = (Len(n.path) < Len(n.path) \/ n.directory)
          /\ i # Len(m.path)
      BY <1>0, <1>2, <1>4, <1>5, <3>1
    <3>3. i < Len(m.path) /\ ~(Len(n.path) < Len(n.path))
      BY <1>0, <3>2
    <3> QED BY <1>0, <3>2, <3>3
  <2> QED BY <2>1, <2>2, <2>3, <2>4 DEF Disjoint
<1>6. ASSUME Disjoint(m, n) PROVE Apart(m, n)
  <2>1. SUFFICES ASSUME NEW i \in Depths(m), NEW j \in Depths(n), FoldedPath(p(i)) = FoldedPath(q(j))
                 PROVE  /\ p(i) = q(j)
                        /\ (i < Len(m.path) \/ m.directory) = (j < Len(n.path) \/ n.directory)
                        /\ ~(i = Len(m.path) /\ j = Len(n.path))
    BY <1>4
  <2>2. p(i) \in Branch(m) /\ q(j) \in Branch(n) /\ i = j
    BY <1>1, <1>3, <2>1
  <2>3. p(i) = q(j)
    BY <1>6, <2>1, <2>2 DEF Disjoint
  <2>4. ~(i = Len(m.path) /\ j = Len(n.path))
    BY <1>2, <1>6, <2>3 DEF Disjoint
  <2>5. i = Len(m.path) => m.directory
    BY <1>2, <1>6, <2>2, <2>3 DEF Disjoint
  <2>6. j = Len(n.path) => n.directory
    BY <1>2, <1>6, <2>2, <2>3 DEF Disjoint
  <2>7. (i < Len(m.path) <=> i # Len(m.path)) /\ (j < Len(n.path) <=> j # Len(n.path))
    BY <1>0
  <2> QED BY <1>0, <2>3, <2>4, <2>5, <2>6, <2>7
<1> QED BY <1>5, <1>6

-----------------------------------------------------------------------------
(* What can be read.                                                        *)

\* The checks of one member, spread over three walks, are one condition.
LEMMA MemberIs ==
  ASSUME NEW m \in Members
  PROVE  Harmless(m) <=> /\ m.size <= MaxEntry /\ Fitting(m) /\ Portable(m.path)
                         /\ UnixMode(m) # Nothing => Grantable(UnixMode(m))
                         /\ Sound(m)
<1>0. /\ m.directory \in BOOLEAN /\ m.unix \in BOOLEAN /\ m.mode \in Modes
      /\ m.type \in {"none", "file", "directory", "link"} /\ m.size \in Nat
      /\ m.stored \in Nat \cup {Nothing} /\ MaxEntry \in Nat /\ Nothing \notin Nat
      /\ m.mode # Nothing
  BY MemberTyped, PackagesAssumption, PayloadsAssumption
<1>1. Grantable(m.mode) <=> m.mode \cap {"shared", "special"} = {}
  BY DEF Grantable, ForbiddenPayload, ForbiddenExisting
<1>2. CASE m.directory
  <2>1. Fitting(m) <=> m.size = 0 /\ (m.unix => m.type \in {"none", "directory"})
    BY <1>2 DEF Fitting
  <2>2. UnixMode(m) = Nothing /\ Sound(m)
    BY <1>2 DEF UnixMode, Sound
  <2>3. Harmless(m) <=> Portable(m.path) /\ m.size = 0 /\ (m.unix => m.type # "link" /\ m.type # "file")
    BY <1>2 DEF Harmless
  <2> QED BY <1>0, <2>1, <2>2, <2>3
<1>3. CASE ~m.directory
  <2>1. Fitting(m) <=> (m.unix => m.type \in {"none", "file"})
    BY <1>3 DEF Fitting
  <2>2. (UnixMode(m) # Nothing => Grantable(UnixMode(m))) <=> (m.unix => Grantable(m.mode))
    BY <1>0, <1>3 DEF UnixMode
  <2>3. Sound(m) <=> m.stored # Nothing /\ m.stored = m.size /\ m.stored <= MaxEntry
    BY <1>3 DEF Sound
  <2>4. Harmless(m) <=> /\ Portable(m.path) /\ m.stored = m.size /\ m.size <= MaxEntry
                        /\ m.unix => m.type # "link" /\ m.type # "directory"
                        /\ m.unix => m.mode \cap {"shared", "special"} = {}
    BY <1>3 DEF Harmless
  <2>5. m.stored = m.size => m.stored # Nothing
    BY <1>0
  <2>6. m.type \in {"none", "file"} <=> m.type # "link" /\ m.type # "directory"
    BY <1>0
  <2> QED BY <1>1, <2>1, <2>2, <2>3, <2>4, <2>5, <2>6
<1> QED BY <1>0, <1>2, <1>3

\* What can be read, without a walk.
LEMMA ReadableIs ==
  ASSUME NEW a \in Seq(Members)
  PROVE  Readable(a) <=>
           /\ Len(a) <= MaxEntries
           /\ \A i \in DOMAIN a : Harmless(a[i])
           /\ \A i, j \in DOMAIN a : i < j => Disjoint(a[i], a[j])
           /\ TotalSize(a) <= MaxTotal
<1> DEFINE AllHarmless == \A i \in DOMAIN a : Harmless(a[i])
           AllDisjoint == \A i, j \in DOMAIN a : i < j => Disjoint(a[i], a[j])
           Sounds == \A i \in DOMAIN a : Sound(a[i])
           Fine == \A i \in DOMAIN a :
                     /\ a[i].size <= MaxEntry /\ Fitting(a[i]) /\ Portable(a[i].path)
                     /\ UnixMode(a[i]) # Nothing => Grantable(UnixMode(a[i]))
<1>1. \A i \in DOMAIN a : a[i] \in Members
  BY ArchiveTyped
<1>2. Readable(a) <=> /\ Len(a) <= MaxEntries /\ Fine /\ DeclaredTotal(a) <= MaxTotal
                      /\ ~AllSeen(a).clash /\ ReadTotal(a) # Nothing
  BY DEF Readable, WithinLimits, ValidMembers, ValidPaths, AllSeen, ReadTotal
<1>3. ~AllSeen(a).clash <=> AllDisjoint
  <2>1. \A i, j \in DOMAIN a : Apart(a[i], a[j]) <=> Disjoint(a[i], a[j])
    BY <1>1, ApartIs
  <2>2. ~AllSeen(a).clash <=> \A i, j \in DOMAIN a : i < j => Apart(a[i], a[j])
    BY WalkingIs
  <2> QED BY <2>1, <2>2
<1>4. ReadTotal(a) # Nothing <=> Sounds /\ TotalSize(a) <= MaxTotal
  BY ReadingIs
<1>5. AllHarmless <=> Fine /\ Sounds
  BY <1>1, MemberIs
<1>6. AllHarmless => DeclaredTotal(a) = TotalSize(a)
  <2>1. SUFFICES ASSUME AllHarmless PROVE DeclaredTotal(a) = TotalSize(a)
    OBVIOUS
  <2>2. ASSUME NEW i \in DOMAIN a PROVE Size(a[i]) = a[i].size
    <3>1. Harmless(a[i]) /\ a[i].size \in Nat /\ Nothing \notin Nat
      BY <1>1, <2>1, MemberTyped, PackagesAssumption
    <3> QED BY <3>1 DEF Harmless, Size
  <2> HIDE DEF AllHarmless
  <2> QED BY <2>2, DeclaredIs
<1> HIDE DEF AllHarmless, AllDisjoint, Sounds, Fine
<1>7. Readable(a) <=> Len(a) <= MaxEntries /\ AllHarmless /\ AllDisjoint /\ TotalSize(a) <= MaxTotal
  BY <1>2, <1>3, <1>4, <1>5, <1>6
<1> QED BY <1>7 DEF AllHarmless, AllDisjoint

-----------------------------------------------------------------------------
(* The payloads.                                                            *)

\* Every member kept is one of the first k, and they keep their order.
From(kept, a, T, k) ==
  /\ kept \in Seq(Members)
  /\ \A x \in DOMAIN kept : \E p \in 1..k : kept[x] = a[p] /\ a[p] \in T
  /\ \A x, y \in DOMAIN kept : x < y => \E p, q \in 1..k : p < q /\ kept[x] = a[p] /\ kept[y] = a[q]

LEMMA KeepIs ==
  ASSUME NEW a \in Seq(Members), NEW T PROVE From(Keep(a, T), a, T, Len(a))
<1> DEFINE n == Len(a)
<1>0. n \in Nat /\ DOMAIN a = 1..n /\ \A i \in 1..n : a[i] \in Members
  BY ArchiveTyped
<1> HIDE DEF n
<1>1. PICK f : /\ f[0] = <<>>
               /\ \A i \in 1..n : f[i] = IF a[i] \in T THEN Append(f[i - 1], a[i]) ELSE f[i - 1]
               /\ Keep(a, T) = f[n]
  BY <1>0, KeepWalk
<1> DEFINE N == {k \in 0..n : From(f[k], a, T, k)}
<1>2. 0 \in N
  <2>1. f[0] \in Seq(Members) /\ DOMAIN f[0] = {} /\ 0 \in 0..n
    BY <1>0, <1>1
  <2>2. From(f[0], a, T, 0)
    BY <2>1 DEF From
  <2> QED BY <2>1, <2>2
<1>3. ASSUME NEW k \in 0..(n - 1), k \in N PROVE k + 1 \in N
  <2>1. k + 1 \in 1..n /\ (k + 1) - 1 = k /\ k \in Nat /\ 1..k \subseteq 1..(k + 1)
        /\ k + 1 \in 1..(k + 1)
    BY <1>0
  <2>2. From(f[k], a, T, k)
    BY <1>3
  <2>3. f[k + 1] = IF a[k + 1] \in T THEN Append(f[k], a[k + 1]) ELSE f[k]
    BY <1>1, <2>1
  <2>4. CASE a[k + 1] \notin T
    <3>1. From(f[k], a, T, k + 1)
      BY <2>1, <2>2 DEF From
    <3> QED BY <2>1, <2>3, <2>4, <3>1
  <2>5. CASE a[k + 1] \in T
    <3> DEFINE s == f[k]
               t == f[k + 1]
               l == Len(s)
    <3>1. s \in Seq(Members) /\ t = Append(s, a[k + 1]) /\ a[k + 1] \in Members
      BY <1>0, <2>1, <2>2, <2>3, <2>5 DEF From
    <3>2. /\ t \in Seq(Members) /\ DOMAIN t = 1..(l + 1) /\ t[l + 1] = a[k + 1] /\ l \in Nat
          /\ DOMAIN s = 1..l /\ \A x \in 1..l : t[x] = s[x]
      BY <3>1
    <3>3. /\ \A x \in DOMAIN s : \E p \in 1..k : s[x] = a[p] /\ a[p] \in T
          /\ \A x, y \in DOMAIN s : x < y => \E p, q \in 1..k : p < q /\ s[x] = a[p] /\ s[y] = a[q]
      <4> HIDE DEF s
      <4>1. From(s, a, T, k)
        BY <2>2 DEF s
      <4> QED BY <4>1 DEF From
    <3> HIDE DEF s, t, l
    <3>4. \A x \in DOMAIN t : \E p \in 1..(k + 1) : t[x] = a[p] /\ a[p] \in T
      <4> SUFFICES ASSUME NEW x \in DOMAIN t PROVE \E p \in 1..(k + 1) : t[x] = a[p] /\ a[p] \in T
        OBVIOUS
      <4>1. CASE x \in 1..l
        <5>1. PICK p \in 1..k : s[x] = a[p] /\ a[p] \in T
          BY <3>2, <3>3, <4>1
        <5>2. p \in 1..(k + 1) /\ t[x] = a[p]
          BY <2>1, <3>2, <4>1, <5>1
        <5> QED BY <5>1, <5>2
      <4>2. CASE x = l + 1
        BY <2>1, <2>5, <3>2, <4>2
      <4>3. x \in 1..l \/ x = l + 1
        BY <3>2
      <4> QED BY <4>1, <4>2, <4>3
    <3>5. ASSUME NEW x \in DOMAIN t, NEW y \in DOMAIN t, x < y
          PROVE  \E p, q \in 1..(k + 1) : p < q /\ t[x] = a[p] /\ t[y] = a[q]
      <4>1. x \in 1..l /\ (y \in 1..l \/ y = l + 1)
        BY <3>2, <3>5
      <4>2. CASE y \in 1..l
        <5>1. PICK p \in 1..k, q \in 1..k : p < q /\ s[x] = a[p] /\ s[y] = a[q]
          BY <3>2, <3>3, <3>5, <4>1, <4>2
        <5>2. p \in 1..(k + 1) /\ q \in 1..(k + 1) /\ t[x] = a[p] /\ t[y] = a[q]
          BY <2>1, <3>2, <4>1, <4>2, <5>1
        <5> QED BY <5>1, <5>2
      <4>3. CASE y = l + 1
        <5>1. PICK p \in 1..k : s[x] = a[p]
          BY <3>2, <3>3, <4>1
        <5>2. p \in 1..(k + 1) /\ p < k + 1 /\ t[x] = a[p] /\ t[y] = a[k + 1]
          BY <2>1, <3>2, <4>1, <4>3, <5>1
        <5> QED BY <2>1, <5>2
      <4> QED BY <4>1, <4>2, <4>3
    <3>6. From(t, a, T, k + 1)
      BY <3>2, <3>4, <3>5 DEF From
    <3> QED BY <2>1, <3>6 DEF t
  <2> QED BY <2>4, <2>5
<1>4. n \in N
  <2>1. \A k \in 0..(n - 1) : k \in N => k + 1 \in N
    BY <1>3
  <2> HIDE DEF N
  <2>2. \A k \in 0..n : k \in N
    BY <1>0, <1>2, <2>1, UpTo
  <2> QED BY <1>0, <2>2
<1> QED BY <1>1, <1>4 DEF n

-----------------------------------------------------------------------------
(* The roles.                                                               *)

LEMMA FilesOf ==
  ASSUME NEW a \in Seq(Members), NEW m \in Files(a)
  PROVE  m \in Members /\ m.directory = FALSE /\ \E i \in DOMAIN a : a[i] = m
<1>1. PICK i \in DOMAIN a : a[i] = m
  <2>1. DOMAIN a = 1..Len(a)
    BY ArchiveTyped
  <2> QED BY <2>1 DEF Files, ToSet
<1>2. m \in Members
  BY <1>1, ArchiveTyped
<1>3. m.directory = FALSE
  BY <1>2, MemberTyped DEF Files
<1> QED BY <1>1, <1>2, <1>3

\* In an archive that can be read a path names one member.
LEMMA OneAtAPath ==
  ASSUME NEW a \in Seq(Members), Readable(a), NEW m \in Files(a), NEW n \in Files(a), m.path = n.path
  PROVE  m = n
<1>1. PICK i \in DOMAIN a : a[i] = m
  BY FilesOf
<1>2. PICK j \in DOMAIN a : a[j] = n
  BY FilesOf
<1>3. \A x, y \in DOMAIN a : x < y => a[x].path # a[y].path
  BY ReadableIs DEF Disjoint
<1>4. i \in Nat /\ j \in Nat
  BY ArchiveTyped
<1>5. ~(i < j) /\ ~(j < i)
  BY <1>1, <1>2, <1>3
<1>6. i = j
  BY <1>4, <1>5
<1> QED BY <1>1, <1>2, <1>6

Metadata(a) == {m \in Files(a) : InHandoff(m)}

Roles(a) ==
  \E manifest, entrypoint \in Files(a) :
    /\ manifest.path = <<PatchJson>> /\ manifest.content.kind = "manifest"
    /\ entrypoint # manifest /\ entrypoint.path = manifest.content.entrypoint
    /\ ~InHandoff(entrypoint)
    /\ {m.path : m \in Metadata(a)} \in {{}, HandoffPaths}
    /\ \A m \in Metadata(a) :
         m.content.kind = "handoff" /\ m.content.context = manifest.content.context

\* SafePackage in two parts.
LEMMA SafeIs ==
  ASSUME NEW a \in Seq(Members) PROVE SafePackage(a) <=> Readable(a) /\ Roles(a)
<1>1. SafePackage(a) <=> /\ Len(a) <= MaxEntries
                         /\ \A i \in DOMAIN a : Harmless(a[i])
                         /\ \A i, j \in DOMAIN a : i < j => Disjoint(a[i], a[j])
                         /\ TotalSize(a) <= MaxTotal
                         /\ Roles(a)
  BY DEF SafePackage, TotalSize, Roles, Metadata
<1> QED BY <1>1, ReadableIs

ManifestOf(a) == CHOOSE m \in At(Files(a), <<PatchJson>>) : TRUE

Accepts(a) ==
  /\ At(Files(a), <<PatchJson>>) # {}
  /\ ValidManifest(ManifestOf(a).content) /\ ValidHandoff(Files(a), ManifestOf(a).content)
  /\ Portable(ManifestOf(a).content.entrypoint)
  /\ At(Files(a), ManifestOf(a).content.entrypoint) # {}

\* resolve_patch_package in two parts.
LEMMA AcceptedIs ==
  ASSUME NEW a
  PROVE  /\ Resolved(a).status = "accepted" <=> Readable(a) /\ Accepts(a)
         /\ Resolved(a).payloads \in {<<>>, Brought(a, ManifestOf(a).content)}
         /\ Resolved(a).status # "accepted" => Resolved(a).payloads = <<>>
BY DEF Resolved, Refused, Accepts, ManifestOf

\* Where the documents lie.
LEMMA HandoffIs ==
  ASSUME NEW m \in Members, m.path \in HandoffPaths PROVE InHandoff(m)
<1>1. PICK n \in Handoff : m.path = <<HandoffName, n>>
  BY DEF HandoffPaths
<1> QED BY <1>1 DEF InHandoff

\* The roles the code looks up one by one are the ones SafePackage asks for.
LEMMA RolesAre ==
  ASSUME NEW a \in Seq(Members), Readable(a) PROVE Accepts(a) <=> Roles(a)
<1> DEFINE data == Metadata(a)
           paths == {m.path : m \in data}
<1>1. ASSUME Accepts(a) PROVE Roles(a)
  <2> DEFINE p == ManifestOf(a)
  <2>1. p \in At(Files(a), <<PatchJson>>)
    BY <1>1 DEF Accepts, ManifestOf
  <2>2. p \in Files(a) /\ p.path = <<PatchJson>>
    BY <2>1 DEF At
  <2>3. PICK e \in At(Files(a), p.content.entrypoint) : TRUE
    BY <1>1 DEF Accepts
  <2>4. e \in Files(a) /\ e.path = p.content.entrypoint
    BY <2>3 DEF At
  <2>5. p.content.kind = "manifest" /\ p.content.entrypoint # <<PatchJson>>
    BY <1>1 DEF Accepts, ValidManifest
  <2>6. ValidHandoff(Files(a), p.content)
    BY <1>1 DEF Accepts
  <2>7. \/ data = {}
        \/ /\ paths = HandoffPaths /\ p.content.entrypoint \notin HandoffPaths
           /\ \A m \in data : m.content.kind = "handoff" /\ m.content.context = p.content.context
    BY <2>6 DEF ValidHandoff, Metadata
  <2> HIDE DEF p
  <2>8. ~InHandoff(e)
    <3>1. SUFFICES ASSUME InHandoff(e) PROVE FALSE
      OBVIOUS
    <3>2. e \in data
      BY <2>4, <3>1 DEF Metadata
    <3> QED BY <2>4, <2>7, <3>2
  <2>9. paths \in {{}, HandoffPaths}
    BY <2>7
  <2>10. \A m \in data : m.content.kind = "handoff" /\ m.content.context = p.content.context
    BY <2>7
  <2>11. e # p
    BY <2>2, <2>4, <2>5
  <2> QED BY <2>2, <2>4, <2>5, <2>8, <2>9, <2>10, <2>11 DEF Roles
<1>2. ASSUME Roles(a) PROVE Accepts(a)
  <2>1. PICK p \in Files(a), e \in Files(a) :
          /\ p.path = <<PatchJson>> /\ p.content.kind = "manifest"
          /\ e # p /\ e.path = p.content.entrypoint /\ ~InHandoff(e)
          /\ paths \in {{}, HandoffPaths}
          /\ \A m \in data : m.content.kind = "handoff" /\ m.content.context = p.content.context
    BY <1>2 DEF Roles
  <2>2. p \in At(Files(a), <<PatchJson>>) /\ e \in At(Files(a), p.content.entrypoint)
    BY <2>1 DEF At
  <2>3. \A m \in At(Files(a), <<PatchJson>>) : m = p
    BY <2>1, OneAtAPath DEF At
  <2>4. ManifestOf(a) = p
    BY <2>2, <2>3 DEF ManifestOf
  <2>5. e.path # p.path
    BY <2>1, OneAtAPath
  <2>6. ValidManifest(p.content)
    BY <2>1, <2>5 DEF ValidManifest
  <2>7. e \in Members /\ \E i \in DOMAIN a : a[i] = e
    BY FilesOf
  <2>8. Portable(p.content.entrypoint)
    BY <2>1, <2>7, ReadableIs DEF Harmless
  <2>9. p.content.entrypoint \notin HandoffPaths
    BY <2>1, <2>7, HandoffIs
  <2>10. paths = {} => data = {}
    OBVIOUS
  <2>11. ValidHandoff(Files(a), p.content)
    <3>1. data = {} \/ paths = HandoffPaths
      BY <2>1, <2>10
    <3> QED BY <2>1, <2>9, <3>1 DEF ValidHandoff, Metadata
  <2> QED BY <2>2, <2>4, <2>6, <2>8, <2>11 DEF Accepts
<1> QED BY <1>1, <1>2

-----------------------------------------------------------------------------
(* What is left to the writing.                                             *)

\* No payload lies where another does or above it.
LEMMA BroughtIsDistinct ==
  ASSUME NEW a \in Packages PROVE Distinct(Resolved(a).payloads)
<1> DEFINE b == Resolved(a).payloads
           R == [path : Targets, mode : {Nothing} \cup Modes]
<1>0. a \in Seq(Members)
  BY PayloadsAssumption
<1>1. CASE b = <<>>
  <2>1. <<>> \in Seq(R) /\ DOMAIN <<>> = {}
    OBVIOUS
  <2> QED BY <1>1, <2>1 DEF Distinct
<1>2. CASE b # <<>>
  <2>1. Readable(a) /\ b = Brought(a, ManifestOf(a).content)
    BY <1>2, AcceptedIs
  <2>2. PICK T : /\ \A m \in T : m \in Files(a)
                 /\ b = [i \in DOMAIN Keep(a, T) |-> Payload(Keep(a, T)[i])]
    <3> DEFINE T == {m \in Files(a) : ~InHandoff(m) /\ m.path \notin {<<PatchJson>>, ManifestOf(a).content.entrypoint}}
    <3>1. b = [i \in DOMAIN Keep(a, T) |-> Payload(Keep(a, T)[i])]
      BY <2>1 DEF Brought
    <3>2. \A m \in T : m \in Files(a)
      OBVIOUS
    <3> HIDE DEF T, b
    <3> QED BY <3>1, <3>2
  <2> DEFINE s == Keep(a, T)
  <2>3. From(s, a, T, Len(a)) /\ s \in Seq(Members) /\ DOMAIN s = 1..Len(s) /\ Len(s) \in Nat
    BY <1>0, KeepIs, ArchiveTyped DEF From
  <2>4. DOMAIN b = DOMAIN s /\ \A x \in DOMAIN s : b[x] = [path |-> s[x].path, mode |-> UnixMode(s[x])]
    BY <2>2 DEF Payload
  <2>5. DOMAIN a = 1..Len(a)
    BY <1>0, ArchiveTyped
  <2> HIDE DEF s, b, R
  <2>6. \A x \in DOMAIN s : s[x] \in Files(a) /\ s[x] \in Members /\ s[x].directory = FALSE
    BY <1>0, <2>2, <2>3, FilesOf DEF From
  <2>7. \A x \in DOMAIN s : b[x].path \in Targets /\ Parent(b[x].path) \in Targets
    BY <2>4, TargetsSuffice DEF b
  <2>8. \A x \in DOMAIN s : b[x] \in R
    <3> SUFFICES ASSUME NEW x \in DOMAIN s PROVE b[x] \in R
      OBVIOUS
    <3>1. UnixMode(s[x]) \in {Nothing} \cup Modes
      BY <2>6, MemberTyped DEF UnixMode
    <3> QED BY <2>4, <2>7, <3>1 DEF R
  <2>9. b \in Seq(R)
    <3>1. b = [x \in 1..Len(s) |-> b[x]]
      BY <2>2, <2>3 DEF s
    <3> QED BY <2>3, <2>8, <3>1
  <2>10. ASSUME NEW m \in Files(a), NEW n \in Files(a), Disjoint(m, n)
         PROVE  /\ m.path # n.path /\ m.path # Parent(n.path) /\ n.path # Parent(m.path)
    <3>1. /\ m \in Members /\ n \in Members /\ m.directory = FALSE /\ n.directory = FALSE
      BY <1>0, FilesOf
    <3>2. m.path \in Paths /\ n.path \in Paths /\ 1 \in 1..Len(m.path) /\ 1 \in 1..Len(n.path)
      BY <3>1, MemberTyped, PathTyped
    <3>3. Parent(m.path) \in Branch(m) /\ Parent(n.path) \in Branch(n)
      <4>1. Prefix(m.path, 1) = Parent(m.path) /\ Prefix(n.path, 1) = Parent(n.path)
        BY <3>2, PrefixTyped
      <4> QED BY <3>2, <4>1 DEF Branch, Prefix
    <3> QED BY <2>10, <3>1, <3>3 DEF Disjoint
  <2>11. ASSUME NEW x \in DOMAIN s, NEW y \in DOMAIN s, x < y
         PROVE  /\ s[x].path # s[y].path /\ s[x].path # Parent(s[y].path) /\ s[y].path # Parent(s[x].path)
    <3>1. PICK i \in 1..Len(a), j \in 1..Len(a) : i < j /\ s[x] = a[i] /\ s[y] = a[j]
      BY <2>3, <2>11 DEF From
    <3>2. Disjoint(s[x], s[y])
      BY <1>0, <2>1, <2>5, <3>1, ReadableIs
    <3> QED BY <2>6, <2>10, <3>2
  <2>12. ASSUME NEW x \in DOMAIN b, NEW y \in DOMAIN b, x # y
         PROVE  b[x].path \notin {b[y].path, Parent(b[y].path)}
    <3>1. x \in DOMAIN s /\ y \in DOMAIN s /\ x \in Nat /\ y \in Nat
      BY <2>3, <2>4
    <3>2. x < y \/ y < x
      BY <2>12, <3>1
    <3>3. b[x].path = s[x].path /\ b[y].path = s[y].path
      BY <2>4, <3>1
    <3> QED BY <2>11, <3>1, <3>2, <3>3
  <2>13. \A x \in DOMAIN b : Parent(b[x].path) \in Targets
    BY <2>4, <2>7
  <2>14. Distinct(b)
    BY <2>9, <2>12, <2>13 DEF Distinct, R
  <2> QED BY <2>14 DEF b
<1> QED BY <1>1, <1>2

-----------------------------------------------------------------------------
(* Before the mutation, and the end of an Apply.                            *)

LEMMA PayloadsStart == Init => PayloadsInv
<1> SUFFICES ASSUME Init PROVE PayloadsInv
  OBVIOUS
<1> USE DEF Init
<1>1. TypeOK
  <2>1. Distinct(<<>>)
    BY DEF Distinct
  <2>2. disk \in [Places \X Targets -> Nodes]
    BY PayloadsAssumption
  <2>3. 0 \in 0..MaxChanges
    BY PayloadsAssumption
  <2>4. Distinct(payloads)
    BY <2>1
  <2>5. recorded \in BOOLEAN /\ late \in BOOLEAN
    OBVIOUS
  <2>6. target \in {Nothing} \cup [state : {Nothing} \cup States, mode : Modes]
    OBVIOUS
  <2> QED BY <2>2, <2>3, <2>4, <2>5, <2>6 DEF TypeOK
<1>2. RoundsOK /\ EndsOK /\ StagedOK /\ LastLook
  BY DEF RoundsOK, EndsOK, StagedOK, LastLook, InHand, Verifying, Begun
<1>3. OursIsWritten /\ InPlace
  BY PayloadsAssumption DEF OursIsWritten, InPlace, Untouched, Written, Begun
<1> QED BY <1>1, <1>2, <1>3 DEF PayloadsInv

LEMMA FailsKeeps ==
  ASSUME PayloadsInv, pc \in InHand \ {"unlink"}, NEW how \in {"unsafe_target", "write_failure"},
         Fails(how)
  PROVE  PayloadsInv'
<1> USE DEF PayloadsInv, Fails, AfterFailure, request, moved, history
<1>1. TypeOK'
  BY DEF TypeOK
<1>2. RoundsOK' /\ EndsOK' /\ StagedOK' /\ LastLook'
  BY DEF RoundsOK, EndsOK, StagedOK, LastLook, InHand, Verifying, Begun
<1>3. Written' = Written
  BY DEF RoundsOK, InHand, Written, Begun
<1>4. OursIsWritten' /\ InPlace'
  BY <1>3, TreeRests DEF Begun
<1> QED BY <1>1, <1>2, <1>4

\* There is a first payload if there is any.
LEMMA FirstPayload == ASSUME TypeOK, payloads # <<>> PROVE 1 \in DOMAIN payloads
<1> DEFINE R == [path : Targets, mode : {Nothing} \cup Modes]
<1>1. payloads \in Seq(R)
  BY DEF TypeOK, Distinct
<1> HIDE DEF R
<1> QED BY <1>1

LEMMA ReadKeeps == ASSUME PayloadsInv, ReadPackage PROVE PayloadsInv'
<1> USE DEF PayloadsInv, ReadPackage, Ends, request, moved, history
<1>1. outcome' \in {"none", "source_error", "package_error"}
  BY DEF TypeOK, RoundsOK, Resolved, Refused
<1>2. TypeOK'
  <2>1. Distinct(payloads')
    BY BroughtIsDistinct DEF TypeOK
  <2> QED BY <1>1, <2>1 DEF TypeOK
<1>3. RoundsOK' /\ EndsOK' /\ StagedOK' /\ LastLook'
  BY <1>1 DEF RoundsOK, EndsOK, StagedOK, LastLook, InHand, Begun, Verifying
<1>4. OursIsWritten'
  <2>1. Distinct(payloads')
    BY BroughtIsDistinct DEF TypeOK
  <2>2. \A i \in DOMAIN payloads' : i \in Nat \ {0} /\ payloads'[i].path \in Targets
    BY <2>1, BroughtTyped
  <2>3. ~Begun /\ ~Begun' /\ disk' = disk /\ \A k \in DOMAIN disk : disk[k].body >= 0
    BY DEF RoundsOK, OursIsWritten, Untouched, Begun
  <2>4. \A p \in Targets : <<"here", p>> \in DOMAIN disk /\ disk[<<"here", p>>].body \in Int
    BY DEF TypeOK, Places, Nodes
  <2>5. ASSUME NEW i \in DOMAIN payloads' PROVE disk'[<<"here", payloads'[i].path>>].body # -i
    <3>1. disk[<<"here", payloads'[i].path>>].body >= 0 /\ disk[<<"here", payloads'[i].path>>].body \in Int
      BY <2>2, <2>3, <2>4
    <3>2. i \in Nat \ {0} /\ disk' = disk
      BY <2>2, <2>3
    <3> QED BY ONLY <3>1, <3>2
  <2> QED BY <2>3, <2>5 DEF OursIsWritten, Untouched
<1>5. InPlace'
  BY DEF RoundsOK, InPlace, Written, Begun
<1> QED BY <1>2, <1>3, <1>4, <1>5

LEMMA EarlyKeeps ==
  ASSUME PayloadsInv, Preflight \/ PassGate \/ Recheck \/ Record \/ Kill
  PROVE  PayloadsInv'
<1> USE DEF PayloadsInv, Ends, request, moved, history
<1>1. TypeOK'
  BY ZenonT(60) DEF Preflight, PassGate, Recheck, Record, Kill, TypeOK
<1>2. RoundsOK'
  BY FirstPayload DEF Preflight, PassGate, Recheck, Record, Kill, RoundsOK, InHand
<1>3. EndsOK'
  BY DEF Preflight, PassGate, Recheck, Record, Kill, RoundsOK, EndsOK, Begun
<1>4. StagedOK' /\ LastLook'
  BY DEF Preflight, PassGate, Recheck, Record, Kill, RoundsOK, StagedOK, LastLook, Verifying
<1>5. Written' = Written /\ (Begun => Begun') /\ UNCHANGED <<disk, payloads, disturbed>>
  BY DEF Preflight, PassGate, Recheck, Record, Kill, RoundsOK, EndsOK, Written, Begun
<1> QED BY <1>1, <1>2, <1>3, <1>4, <1>5, TreeRests

-----------------------------------------------------------------------------
(* Looking at targets.                                                      *)

\* A look that goes on changes nothing but the place in the program.
LEMMA LookKeeps ==
  ASSUME PayloadsInv, pc \in {"parent", "kind"}, outcome = "none", next \in DOMAIN payloads,
         UNCHANGED <<members, payloads, gate, recorded, disk, target, temp, round, next, outcome,
                     changes, late, disturbed>>,
         pc' \in {"kind", "state", "mkdir"},
         pc' = "mkdir" => round = "inspect" /\ ~Top(path),
         Verifying /\ (~late \/ path \notin disturbed) =>
           (pc' = "kind" => Place(path) = "here") /\ Place(path) # "elsewhere"
  PROVE  PayloadsInv'
<1>1. path' = path /\ requested' = requested /\ Place(path)' = Place(path) /\ Top(path)' = Top(path)
  BY DEF path, requested, Place, Top, Parent
<1>2. TypeOK'
  BY DEF PayloadsInv, TypeOK
<1>3. RoundsOK' /\ EndsOK'
  BY <1>1 DEF PayloadsInv, RoundsOK, EndsOK, InHand, Begun
<1>4. StagedOK' /\ LastLook'
  BY <1>1 DEF PayloadsInv, StagedOK, LastLook, Verifying
<1>5. Written' = Written /\ (Begun => Begun')
  BY DEF Written, Begun
<1> QED BY <1>2, <1>3, <1>4, <1>5, TreeRests DEF PayloadsInv

LEMMA LooksKeeps ==
  ASSUME PayloadsInv, LookAtParent \/ LookAtKind \/ LookAtState
  PROVE  PayloadsInv'
<1>1. CASE \E how \in {"unsafe_target"} : Fails(how)
  BY <1>1, FailsKeeps DEF LookAtParent, LookAtKind, LookAtState, InHand
<1> USE DEF Looks, request, moved, history
<1>2. CASE LookAtParent /\ ~Fails("unsafe_target")
  <2>1. /\ pc = "parent" /\ outcome = "none" /\ next \in DOMAIN payloads
        /\ UNCHANGED <<members, payloads, gate, recorded, disk, target, temp, round, next, outcome,
                       changes, late, disturbed>>
    BY <1>2 DEF LookAtParent, PayloadsInv, RoundsOK, InHand
  <2>2. \/ pc' = "kind" /\ (Top(path) \/ Lstat(Parent(path)).kind = "directory")
        \/ pc' = "state" /\ round # "inspect" /\ ~Top(path) /\ Lstat(Parent(path)).kind = "missing"
        \/ pc' = "mkdir" /\ round = "inspect" /\ ~Top(path)
    BY <1>2 DEF LookAtParent, Creates
  <2>3. /\ Top(path) \/ Lstat(Parent(path)).kind = "directory" => Place(path) = "here"
        /\ ~Top(path) /\ Lstat(Parent(path)).kind = "missing" => Place(path) = "nowhere"
    BY ParentIsTop DEF Lstat, Place
  <2>4. Verifying => round # "inspect"
    BY DEF Verifying
  <2> QED BY <2>1, <2>2, <2>3, <2>4, LookKeeps
<1>3. CASE LookAtKind /\ ~Fails("unsafe_target")
  <2>1. /\ pc = "kind" /\ outcome = "none" /\ next \in DOMAIN payloads /\ pc' = "state"
        /\ UNCHANGED <<members, payloads, gate, recorded, disk, target, temp, round, next, outcome,
                       changes, late, disturbed>>
    BY <1>3 DEF LookAtKind, PayloadsInv, RoundsOK, InHand
  <2>2. Verifying /\ (~late \/ path \notin disturbed) => Place(path) = "here"
    BY <2>1 DEF PayloadsInv, LastLook
  <2> QED BY <2>1, <2>2, LookKeeps
<1>4. CASE LookAtState /\ ~Fails("unsafe_target")
  <2>1. /\ pc = "state" /\ outcome = "none" /\ next \in DOMAIN payloads /\ Inspectable
        /\ UNCHANGED <<members, payloads, gate, recorded, disk, temp, outcome, changes, late,
                       disturbed>>
    BY <1>4 DEF LookAtState, PayloadsInv, RoundsOK, InHand
  <2>2. DOMAIN payloads = 1..Len(payloads) /\ Len(payloads) \in Nat
    BY LengthOfPayloads DEF PayloadsInv
  <2>3. CASE round \in {"preflight", "validate"}
    <3>1. /\ target' = target /\ next' \in DOMAIN payloads
          /\ \/ round' = round /\ pc' = "parent"
             \/ round' = round /\ pc' = "gate" /\ round = "preflight" /\ next' = 1
             \/ round' = "inspect" /\ pc' = "parent" /\ next' = 1 /\ recorded
      BY <1>4, <2>1, <2>2, <2>3 DEF LookAtState, LastPayload, PayloadsInv, EndsOK
    <3>2. TypeOK'
      BY <2>1, <2>2, <3>1 DEF PayloadsInv, TypeOK
    <3>3. RoundsOK' /\ EndsOK' /\ StagedOK' /\ LastLook'
      BY <2>1, <2>3, <3>1 DEF PayloadsInv, RoundsOK, EndsOK, StagedOK, LastLook, Begun, Verifying
    <3>4. Written' = Written /\ (Begun => Begun')
      BY <2>1, <2>2, <2>3, <3>1 DEF Written, Begun
    <3> QED BY <2>1, <3>2, <3>3, <3>4, TreeRests DEF PayloadsInv
  <2>4. CASE round = "inspect"
    <3>1. pc' = "stage" /\ target' = Found /\ next' = next /\ round' = round
      BY <1>4, <2>4 DEF LookAtState
    <3>2. requested' = requested
      BY <2>1, <3>1 DEF requested
    <3>3. TypeOK'
      BY <2>1, <3>1, FoundTyped DEF PayloadsInv, TypeOK
    <3>4. RoundsOK' /\ EndsOK' /\ LastLook'
      BY <2>1, <2>4, <3>1 DEF PayloadsInv, RoundsOK, EndsOK, LastLook, Begun, Verifying
    <3>5. StagedOK'
      BY <2>1, <2>4, <3>1, <3>2, FoundTyped DEF PayloadsInv, StagedOK, Verifying
    <3>6. Written' = Written /\ (Begun => Begun')
      BY <2>1, <3>1 DEF Written, Begun
    <3> QED BY <2>1, <3>3, <3>4, <3>5, <3>6, TreeRests DEF PayloadsInv
  <2>5. CASE round = "verify"
    <3>1. pc' = "replace" /\ UNCHANGED <<target, next, round>>
      BY <1>4, <2>5 DEF LookAtState
    <3>2. path' = path /\ requested' = requested /\ Place(path)' = Place(path)
          /\ Lstat(path)' = Lstat(path) /\ Unchanged' = Unchanged
      BY <2>1, <3>1 DEF path, requested, Place, Lstat, Top, Parent, Unchanged
    <3>3. TypeOK'
      BY <2>1, <3>1 DEF PayloadsInv, TypeOK
    <3>4. RoundsOK' /\ EndsOK' /\ StagedOK'
      BY <2>1, <2>5, <3>1, <3>2 DEF PayloadsInv, RoundsOK, EndsOK, StagedOK, Begun, Verifying
    <3>5. LastLook'
      BY <2>1, <2>5, <3>1, <3>2 DEF PayloadsInv, LastLook, Verifying, Inspectable, Selectable
    <3>6. Written' = Written /\ (Begun => Begun')
      BY <2>1, <3>1 DEF Written, Begun
    <3> QED BY <2>1, <3>3, <3>4, <3>5, <3>6, TreeRests DEF PayloadsInv
  <2> QED BY <2>3, <2>4, <2>5 DEF PayloadsInv, TypeOK
<1> QED BY <1>1, <1>2, <1>3, <1>4

-----------------------------------------------------------------------------
(* Writing.                                                                 *)

LEMMA HereStays ==
  ASSUME NEW i \in DOMAIN payloads, Here(i), payloads' = payloads,
         disk'[<<"here", payloads[i].path>>] = disk[<<"here", payloads[i].path>>],
         Top(payloads[i].path) \/ disk'[<<"here", Parent(payloads[i].path)>>].kind
                                  = disk[<<"here", Parent(payloads[i].path)>>].kind
  PROVE  Here(i)'
BY DEF Here, Place, Top, Parent

LEMMA MakeKeeps == ASSUME PayloadsInv, MakeDirectory PROVE PayloadsInv'
<1>1. CASE Fails("write_failure")
  BY <1>1, FailsKeeps DEF MakeDirectory, InHand
<1>2. CASE ~Fails("write_failure")
  <2> DEFINE there == <<"here", Parent(path)>>
  <2>1. /\ pc = "mkdir" /\ round = "inspect" /\ next \in DOMAIN payloads /\ outcome = "none"
        /\ ~Top(path) /\ pc' = "kind" /\ disk' = [disk EXCEPT ![there] = Made]
        /\ Lstat(Parent(path)) = Missing
        /\ UNCHANGED <<members, payloads, gate, recorded, target, temp, round, next, outcome, changes,
                       late, disturbed>>
    BY <1>2 DEF MakeDirectory, PayloadsInv, RoundsOK, InHand, request, history
  <2>2. there \in Places \X Targets /\ disk \in [Places \X Targets -> Nodes]
    BY <2>1, PayloadTyped DEF PayloadsInv, Places, path, TypeOK
  <2>3. disk[there].kind = "missing"
    BY <2>1, ParentIsTop DEF Lstat, Place, Missing, Node
  <2>4. \A k \in DOMAIN disk : k # there => disk'[k] = disk[k]
    BY <2>1, <2>2
  <2>5. TypeOK'
    <3>1. Made \in Nodes
      BY <2>1, PayloadTyped DEF Made, Node, Nodes, Kinds, Modes, PayloadsInv
    <3> QED BY <2>1, <2>2, <3>1 DEF PayloadsInv, TypeOK
  <2>6. RoundsOK' /\ EndsOK' /\ StagedOK' /\ LastLook'
    BY <2>1 DEF PayloadsInv, RoundsOK, EndsOK, StagedOK, LastLook, InHand, Begun, Verifying
  <2>7. Written' = Written /\ Begun'
    BY <2>1 DEF Written, Begun
  <2>8. ASSUME NEW i \in DOMAIN payloads
        PROVE  disk'[<<"here", payloads[i].path>>] = disk[<<"here", payloads[i].path>>]
    <3>1. payloads[i].path # Parent(path)
      BY <2>1, NoParent DEF path, PayloadsInv
    <3>2. <<"here", payloads[i].path>> \in DOMAIN disk
      BY <2>2, PayloadTyped DEF PayloadsInv, Places
    <3> QED BY <2>4, <3>1, <3>2
  <2>9. OursIsWritten'
    BY <2>1, <2>7, <2>8 DEF OursIsWritten, PayloadsInv
  <2>10. InPlace'
    <3> SUFFICES ASSUME NEW i \in Written, Here(i) PROVE Here(i)'
      BY <2>1, <2>7 DEF InPlace, PayloadsInv
    <3>1. i \in DOMAIN payloads
      BY DEF Written
    <3>2. ~Top(payloads[i].path) => Parent(payloads[i].path) # Parent(path)
      BY <2>3 DEF Here, Place
    <3>3. <<"here", Parent(payloads[i].path)>> \in DOMAIN disk
      BY <2>2, <3>1, PayloadTyped DEF PayloadsInv, Places
    <3> QED BY <2>1, <2>4, <2>8, <3>1, <3>2, <3>3, HereStays
  <2> QED BY <2>5, <2>6, <2>9, <2>10 DEF PayloadsInv
<1> QED BY <1>1, <1>2

LEMMA StagingKeeps == ASSUME PayloadsInv, Stage \/ Fill \/ Unlink PROVE PayloadsInv'
<1>1. CASE (Stage \/ Fill) /\ Fails("write_failure")
  BY <1>1, FailsKeeps DEF Stage, Fill, InHand
<1>2. CASE Unlink \/ ((Stage \/ Fill) /\ ~Fails("write_failure"))
  <2>1. /\ UNCHANGED <<members, payloads, gate, recorded, disk, target, next, outcome, changes,
                       disturbed>>
        /\ \/ pc = "stage" /\ pc' = "fill" /\ temp' = Place(path) /\ Place(path) # "nowhere"
              /\ UNCHANGED <<round, late>>
           \/ pc = "fill" /\ pc' = "parent" /\ round' = "verify" /\ temp' = temp /\ late' = FALSE
           \/ pc = "unlink" /\ pc' = "done" /\ temp' \in {Nothing, temp} /\ UNCHANGED <<round, late>>
    BY <1>2 DEF Stage, Fill, Unlink, request, moved, history
  <2>2. path' = path /\ requested' = requested /\ (Place(path) # "nowhere" => Place(path) \in Places)
    BY <2>1 DEF path, requested, Place, Places
  <2>3. TypeOK'
    BY ZenonT(60), <2>1, <2>2 DEF PayloadsInv, TypeOK
  <2>4. RoundsOK' /\ EndsOK' /\ StagedOK' /\ LastLook'
    BY <2>1, <2>2 DEF PayloadsInv, RoundsOK, EndsOK, StagedOK, LastLook, InHand, Begun, Verifying
  <2>5. Written' = Written /\ (Begun => Begun')
    BY <2>1 DEF PayloadsInv, RoundsOK, Written, Begun
  <2> QED BY <2>1, <2>3, <2>4, <2>5, TreeRests DEF PayloadsInv
<1> QED BY <1>1, <1>2

LEMMA ReplaceKeeps == ASSUME PayloadsInv, Replace PROVE PayloadsInv'
<1>1. CASE Fails("write_failure")
  BY <1>1, FailsKeeps DEF Replace, InHand
<1>2. CASE ~Fails("write_failure")
  <2> DEFINE there == <<temp, path>>
  <2>1. /\ pc = "replace" /\ round = "verify" /\ next \in DOMAIN payloads /\ outcome = "none"
        /\ Place(path) = temp /\ temp \in Places /\ disk' = [disk EXCEPT ![there] = New]
        /\ temp' = Nothing /\ target' = Nothing /\ round' = "inspect"
        /\ \/ pc' = "done" /\ outcome' = "success" /\ next' = next /\ next = Len(payloads)
           \/ pc' = "parent" /\ next' = next + 1 /\ outcome' = outcome /\ next # Len(payloads)
        /\ UNCHANGED <<members, payloads, gate, recorded, changes, late, disturbed>>
    BY <1>2 DEF Replace, Replaceable, LastPayload, Ends, PayloadsInv, RoundsOK, StagedOK, InHand,
       Verifying, request, history
  <2>2. DOMAIN payloads = 1..Len(payloads) /\ Len(payloads) \in Nat
    BY LengthOfPayloads DEF PayloadsInv
  <2>3. there \in Places \X Targets /\ disk \in [Places \X Targets -> Nodes]
    BY <2>1, PayloadTyped DEF PayloadsInv, path, TypeOK
  <2>4. New \in Nodes /\ New.body = -next
    <3>1. target.mode \in Modes
      BY <2>1 DEF PayloadsInv, StagedOK, Verifying
    <3> QED BY <2>1, <2>2, <3>1 DEF New, Node, Nodes, Kinds
  <2>5. disk'[there] = New /\ \A k \in DOMAIN disk : k # there => disk'[k] = disk[k]
    BY <2>1, <2>3
  <2>6. TypeOK'
    BY <2>1, <2>2, <2>3, <2>4 DEF PayloadsInv, TypeOK
  <2>7. RoundsOK' /\ EndsOK' /\ StagedOK' /\ LastLook'
    BY <2>1, <2>2 DEF PayloadsInv, RoundsOK, EndsOK, StagedOK, LastLook, InHand, Begun, Verifying
  <2>8. Written' = Written \cup {next} /\ Begun'
    BY <2>1, <2>2 DEF Written, Begun
  <2>9. ASSUME NEW i \in DOMAIN payloads, i # next
        PROVE  /\ disk'[<<"here", payloads[i].path>>] = disk[<<"here", payloads[i].path>>]
               /\ disk'[<<"here", Parent(payloads[i].path)>>]
                  = disk[<<"here", Parent(payloads[i].path)>>]
    <3>1. payloads[i].path # path /\ Parent(payloads[i].path) # path
      BY <2>1, <2>9, OwnPath DEF path, PayloadsInv
    <3>2. /\ <<"here", payloads[i].path>> \in DOMAIN disk
          /\ <<"here", Parent(payloads[i].path)>> \in DOMAIN disk
      BY <2>3, PayloadTyped DEF PayloadsInv, Places
    <3> QED BY <2>5, <3>1, <3>2
  <2>10. OursIsWritten'
    BY <2>1, <2>8, <2>9 DEF OursIsWritten, PayloadsInv
  <2>11. InPlace'
    <3> SUFFICES ASSUME NEW i \in Written \cup {next} PROVE Here(i)' \/ payloads[i].path \in disturbed
      BY <2>1, <2>8 DEF InPlace
    <3>1. CASE i # next
      <4>1. i \in Written /\ i \in DOMAIN payloads
        BY <3>1 DEF Written
      <4>2. Here(i) => Here(i)'
        BY <2>1, <2>9, <3>1, <4>1, HereStays
      <4> QED BY <4>1, <4>2 DEF InPlace, PayloadsInv
    <3>2. CASE i = next /\ temp = "here"
      <4>1. Top(path) \/ disk'[<<"here", Parent(path)>>].kind = disk[<<"here", Parent(path)>>].kind
        <5>1. ~Top(path) => <<"here", Parent(path)>> # there
          BY ParentIsTop
        <5>2. <<"here", Parent(path)>> \in DOMAIN disk
          BY <2>1, <2>3, PayloadTyped DEF PayloadsInv, Places, path
        <5> QED BY <2>5, <5>1, <5>2
      <4>2. path = payloads[i].path /\ payloads' = payloads /\ Place(path) = "here"
        BY <2>1, <3>2 DEF path
      <4>3. Place(payloads[i].path)' = "here"
        BY <4>1, <4>2 DEF Place, Top, Parent
      <4>4. disk'[<<"here", payloads[i].path>>].body = -i
        BY <2>4, <2>5, <3>2, <4>2
      <4> QED BY <4>2, <4>3, <4>4 DEF Here
    <3>3. CASE i = next /\ temp = "elsewhere"
      BY <2>1, <3>3 DEF PayloadsInv, LastLook, Verifying, path
    <3> QED BY <2>1, <3>1, <3>2, <3>3 DEF Places
  <2> QED BY <2>6, <2>7, <2>10, <2>11 DEF PayloadsInv
<1> QED BY <1>1, <1>2

-----------------------------------------------------------------------------
(* Others.                                                                  *)

LEMMA ForeignKeeps ==
  ASSUME PayloadsInv, NEW q \in Targets, NEW node \in Nodes, NEW paths, Changed(paths),
         disk' = [disk EXCEPT ![<<"here", q>>] = node],
         node.body >= 0 \/ node.body = disk[<<"here", q>>].body,
         \A i \in DOMAIN payloads : payloads[i].path \notin paths =>
           q # payloads[i].path /\ (Top(payloads[i].path) \/ q # Parent(payloads[i].path))
  PROVE  PayloadsInv'
<1> DEFINE there == <<"here", q>>
<1>1. /\ changes' = changes + 1 /\ changes < MaxChanges /\ late'
      /\ disturbed' = disturbed \cup (paths \cap Checked)
      /\ UNCHANGED <<members, payloads, gate, recorded, target, temp, pc, round, next, outcome>>
  BY DEF Changed, request, PayloadsInv, TypeOK
<1>2. path' = path /\ requested' = requested /\ Top(path)' = Top(path) /\ Begun' = Begun
      /\ Verifying' = Verifying /\ Written' = Written
  BY <1>1 DEF path, requested, Top, Begun, Verifying, Written
<1>3. there \in DOMAIN disk /\ disk \in [Places \X Targets -> Nodes]
  BY DEF PayloadsInv, TypeOK, Places
<1>4. disk'[there] = node /\ \A k \in DOMAIN disk : k # there => disk'[k] = disk[k]
  BY <1>3
<1>5. TypeOK'
  <2>1. Checked \subseteq Targets
    BY PayloadTyped DEF Checked, PayloadsInv
  <2>2. changes' \in 0..MaxChanges
    BY <1>1, PayloadsAssumption DEF PayloadsInv, TypeOK
  <2>3. disk' \in [Places \X Targets -> Nodes]
    BY <1>3
  <2>4. disturbed' \subseteq Targets /\ late' \in BOOLEAN
    BY <1>1, <2>1 DEF PayloadsInv, TypeOK
  <2> QED BY <1>1, <2>2, <2>3, <2>4 DEF PayloadsInv, TypeOK
<1>6. RoundsOK' /\ EndsOK' /\ StagedOK'
  BY <1>1, <1>2 DEF PayloadsInv, RoundsOK, EndsOK, StagedOK
<1>7. ASSUME NEW i \in DOMAIN payloads, payloads[i].path \notin paths
      PROVE  /\ disk'[<<"here", payloads[i].path>>] = disk[<<"here", payloads[i].path>>]
             /\ Top(payloads[i].path) \/ disk'[<<"here", Parent(payloads[i].path)>>].kind
                                          = disk[<<"here", Parent(payloads[i].path)>>].kind
  <2>1. /\ <<"here", payloads[i].path>> \in DOMAIN disk
        /\ <<"here", Parent(payloads[i].path)>> \in DOMAIN disk
    BY <1>3, PayloadTyped DEF PayloadsInv, Places
  <2> QED BY <1>4, <1>7, <2>1
<1>8. LastLook'
  <2> SUFFICES ASSUME Verifying, path \notin disturbed'
               PROVE  /\ pc = "kind" => (Place(path) = "here")'
                      /\ pc \in {"state", "replace"} => (Place(path) # "elsewhere")'
    BY <1>1, <1>2 DEF LastLook
  <2>1. next \in DOMAIN payloads
    BY DEF PayloadsInv, RoundsOK, InHand, Verifying
  <2>2. path \in Checked
    BY <2>1 DEF Checked, Verifying, path
  <2>3. path \notin paths /\ path \notin disturbed
    BY <1>1, <2>2
  <2>4. Top(path) \/ disk'[<<"here", Parent(path)>>].kind = disk[<<"here", Parent(path)>>].kind
    BY <1>7, <2>1, <2>3 DEF path
  <2>5. Place(path)' = Place(path)
    BY <1>2, <2>4 DEF Place, Top, Parent
  <2> QED BY <2>3, <2>5 DEF PayloadsInv, LastLook
<1>9. OursIsWritten'
  <2>1. ~Begun => Untouched'
    BY <1>3, <1>4 DEF PayloadsInv, OursIsWritten, Untouched
  <2>2. ASSUME NEW i \in DOMAIN payloads \ Written
        PROVE  disk'[<<"here", payloads[i].path>>].body # -i
    <3>1. disk[<<"here", payloads[i].path>>].body # -i
      BY DEF PayloadsInv, OursIsWritten
    <3>2. <<"here", payloads[i].path>> \in DOMAIN disk /\ i \in Nat \ {0}
      BY <1>3, PayloadTyped DEF PayloadsInv, Places
    <3>3. node.body \in Int
      BY DEF Nodes
    <3> QED BY <1>4, <3>1, <3>2, <3>3
  <2> QED BY <1>1, <1>2, <2>1, <2>2 DEF OursIsWritten
<1>10. InPlace'
  <2> SUFFICES ASSUME NEW i \in Written, payloads[i].path \notin disturbed' PROVE Here(i)'
    BY <1>1, <1>2 DEF InPlace
  <2>1. i \in DOMAIN payloads /\ payloads[i].path \in Checked
    BY DEF Written, Checked, Begun
  <2>2. payloads[i].path \notin paths /\ Here(i)
    BY <1>1, <2>1 DEF InPlace, PayloadsInv
  <2> QED BY <1>1, <1>7, <2>1, <2>2, HereStays
<1> QED BY <1>5, <1>6, <1>8, <1>9, <1>10 DEF PayloadsInv

\* Others may touch a payload or the directory of one, at any moment.
LEMMA OthersKeep == ASSUME PayloadsInv, Others PROVE PayloadsInv'
<1>1. ASSUME NEW p \in Addressed, NEW node \in Nodes, node.body >= 0 \/ node.body = disk[<<"here", p>>].body,
             Edit(p, node)
      PROVE  PayloadsInv'
  <2>1. PICK j \in DOMAIN payloads : p = payloads[j].path
    BY DEF Addressed
  <2>2. p \in Targets
    BY <2>1, PayloadTyped DEF PayloadsInv
  <2>3. \A i \in DOMAIN payloads : payloads[i].path \notin {p} =>
          p # payloads[i].path /\ (Top(payloads[i].path) \/ p # Parent(payloads[i].path))
    BY <2>1, NoParent DEF PayloadsInv
  <2>4. disk' = [disk EXCEPT ![<<"here", p>>] = node] /\ Changed({p})
    BY <1>1 DEF Edit
  <2> QED BY <1>1, <2>2, <2>3, <2>4, ForeignKeeps
<1>2. \A p \in Addressed : disk[<<"here", p>>] \in Nodes
  BY PayloadTyped DEF Addressed, PayloadsInv, TypeOK, Places
<1>3. changes \in Nat
  BY PayloadsAssumption DEF PayloadsInv, TypeOK
<1>4. CASE Write
  <2>1. Node("file", changes + 1, {}) \in Nodes /\ Node("file", changes + 1, {}).body >= 0
    BY <1>3 DEF Node, Nodes, Kinds, Modes
  <2> QED BY <1>1, <1>4, <2>1 DEF Write
<1>5. CASE Delete
  <2>1. Missing \in Nodes /\ Missing.body >= 0
    BY DEF Missing, Node, Nodes, Kinds, Modes
  <2> QED BY <1>1, <1>5, <2>1 DEF Delete
<1>6. CASE Chmod
  <2>1. PICK p \in Addressed, mode \in Modes :
          Edit(p, [disk[<<"here", p>>] EXCEPT !.mode = mode, !.stamp = changes + 1])
    BY <1>6 DEF Chmod
  <2> DEFINE was == disk[<<"here", p>>]
             node == [was EXCEPT !.mode = mode, !.stamp = changes + 1]
  <2>2. node \in Nodes /\ node.body = was.body
    <3>1. was \in Nodes /\ changes + 1 \in Int
      BY <1>2, <1>3
    <3> HIDE DEF was
    <3> QED BY <3>1 DEF Nodes
  <2> QED BY <1>1, <2>1, <2>2
<1>7. CASE Swap
  <2>1. PICK p \in Addressed :
          /\ ~Top(p)
          /\ disk' = [disk EXCEPT ![<<"here", Parent(p)>>].kind =
                                     IF @ = "directory" THEN "link" ELSE "directory"]
          /\ Changed({q \in Addressed : ~Top(q) /\ Parent(q) = Parent(p)})
    BY <1>7 DEF Swap
  <2>2. PICK j \in DOMAIN payloads : p = payloads[j].path
    BY DEF Addressed
  <2> DEFINE was == disk[<<"here", Parent(p)>>]
             kind == IF was.kind = "directory" THEN "link" ELSE "directory"
             node == [was EXCEPT !.kind = kind]
  <2>3. Parent(p) \in Targets /\ was \in Nodes
    BY <2>2, PayloadTyped DEF PayloadsInv, TypeOK, Places
  <2>4. node \in Nodes /\ node.body = was.body
    <3>1. kind \in Kinds
      BY DEF Kinds
    <3> HIDE DEF kind, was
    <3> QED BY <2>3, <3>1 DEF Nodes
  <2>6. disk' = [disk EXCEPT ![<<"here", Parent(p)>>] = node]
    BY <2>1
  <2>5. \A i \in DOMAIN payloads : payloads[i].path \notin {q \in Addressed : ~Top(q) /\ Parent(q) = Parent(p)} =>
          /\ Parent(p) # payloads[i].path
          /\ Top(payloads[i].path) \/ Parent(p) # Parent(payloads[i].path)
    BY <2>1, <2>2, NoParent DEF PayloadsInv, Addressed
  <2> QED BY <2>1, <2>3, <2>4, <2>5, <2>6, ForeignKeeps
<1> QED BY <1>4, <1>5, <1>6, <1>7 DEF Others

-----------------------------------------------------------------------------
(* The theorems.                                                            *)

LEMMA StepKeeps == ASSUME PayloadsInv, [Next]_vars PROVE PayloadsInv'
<1>1. CASE Next
  BY <1>1, ReadKeeps, EarlyKeeps, LooksKeeps, MakeKeeps, StagingKeeps, ReplaceKeeps, OthersKeep
     DEF Next, Steps
<1>2. CASE UNCHANGED vars
  <2>1. path' = path /\ requested' = requested
    BY <1>2 DEF vars, path, requested
  <2>2. TypeOK'
    BY <1>2 DEF vars, PayloadsInv, TypeOK
  <2>3. RoundsOK' /\ EndsOK' /\ StagedOK'
    BY <1>2, <2>1 DEF vars, PayloadsInv, RoundsOK, EndsOK, StagedOK, Top, Begun, Verifying
  <2>4. LastLook'
    BY <1>2, <2>1 DEF vars, PayloadsInv, LastLook, Verifying, Place, Lstat, Top, Parent, Unchanged
  <2>5. Written' = Written /\ (Begun => Begun')
    BY <1>2 DEF vars, Written, Begun
  <2> QED BY <1>2, <2>2, <2>3, <2>4, <2>5, TreeRests DEF vars, PayloadsInv
<1> QED BY <1>1, <1>2

\* The inductive invariant the theorems below rest on.
THEOREM PayloadsInvariant == Spec => []PayloadsInv
<1>1. PayloadsInv /\ [Next]_vars => PayloadsInv'
  BY StepKeeps
<1> QED BY PayloadsStart, <1>1, PTL DEF Spec

\* Every variable keeps its type, and the payloads in hand stay distinct.
THEOREM PayloadsTypeCorrect == Spec => []TypeOK
<1>1. PayloadsInv => TypeOK
  BY DEF PayloadsInv
<1> QED BY PayloadsInvariant, <1>1, PTL

(* Whatever archive it is given, resolve_patch_package accepts it exactly   *)
(* if its members cannot meet at one place of any file system, keep to the  *)
(* limits, grant no shared write and have their roles.                      *)
THEOREM AcceptedIsSafe ==
  ASSUME NEW a \in Seq(Members) PROVE Resolved(a).status = "accepted" <=> SafePackage(a)
BY AcceptedIs, SafeIs, RolesAre

(* The same of the archive an Apply reads; and of the payloads it leaves to *)
(* the writing none lies where another does or above it.                    *)
THEOREM PackagesAreReadExactly == Spec => []ReadsExactly
<1>1. ASSUME NEW a \in Packages
      PROVE  /\ Resolved(a).status = "accepted" <=> SafePackage(a)
             /\ Distinct(Resolved(a).payloads)
  <2>1. a \in Seq(Members)
    BY PayloadsAssumption
  <2> QED BY <2>1, AcceptedIsSafe, BroughtIsDistinct
<1>2. TypeOK => ReadsExactly
  BY <1>1 DEF TypeOK, ReadsExactly
<1>3. Spec => []TypeOK
  BY PayloadsTypeCorrect
<1> QED BY <1>2, <1>3, PTL

(* What an Apply of a package says of its payloads is so, whatever others   *)
(* do to the tree and whenever it fails or is killed: the written ones are  *)
(* the first ones, and each is in place unless others came after it.        *)
THEOREM PayloadsAsReported == Spec => []OutcomeIsTrue
<1>1. PayloadsInv => OutcomeIsTrue
  <2> SUFFICES ASSUME PayloadsInv, pc = "done" PROVE OutcomeIsTrue
    BY DEF OutcomeIsTrue
  <2>1. ASSUME outcome = "success", NEW i \in DOMAIN payloads
        PROVE  Here(i) \/ payloads[i].path \in disturbed
    BY <2>1 DEF PayloadsInv, EndsOK, Written, InPlace
  <2>2. outcome \in {"source_error", "package_error", "refused", "dry_run", "state_mismatch",
                     "raised"} => Untouched
    BY DEF PayloadsInv, EndsOK, OursIsWritten
  <2>3. ~Untouched => recorded
    BY DEF PayloadsInv, EndsOK, OursIsWritten, Begun
  <2>4. ASSUME NEW i \in DOMAIN payloads, NEW j \in DOMAIN payloads, i < j, Here(j)
        PROVE  Here(i) \/ payloads[i].path \in disturbed
    <3>1. j \in Written
      BY <2>4 DEF PayloadsInv, OursIsWritten, Here
    <3>2. i \in Nat /\ j \in Nat /\ next \in Nat
      BY PayloadTyped DEF PayloadsInv, TypeOK
    <3>3. i \in Written
      BY <2>4, <3>1, <3>2 DEF Written
    <3> QED BY <3>3 DEF PayloadsInv, InPlace
  <2> QED BY <2>1, <2>2, <2>3, <2>4 DEF OutcomeIsTrue
<1> QED BY PayloadsInvariant, <1>1, PTL

(* Whatever others do, PatchHarbor makes a directory only where nothing is, *)
(* and moves a payload over the state its inspection found, in the          *)
(* repository and with the mode that state had, unless others changed       *)
(* something after the last look had begun.                                 *)
THEOREM OnlySeenIsReplaced == Spec => ReplacesWhatItSaw
<1> DEFINE Seen == \A k \in DOMAIN disk :
                     Ours(k) => IF disk'[k] = Made THEN disk[k] = Missing ELSE late \/ Expected(k)
<1>1. PayloadsInv /\ [Next]_vars => [Seen]_vars
  <2> SUFFICES ASSUME PayloadsInv, Next, NEW k \in DOMAIN disk, Ours(k)
               PROVE  IF disk'[k] = Made THEN disk[k] = Missing ELSE late \/ Expected(k)
    OBVIOUS
  <2>1. disk' # disk /\ changes' = changes /\ changes \in Nat
    BY PayloadsAssumption DEF Ours, PayloadsInv, TypeOK
  <2>2. ~Others
    <3>1. \A paths : ~Changed(paths)
      BY <2>1 DEF Changed
    <3> QED BY <3>1 DEF Others, Write, Delete, Chmod, Swap, Edit
  <2>3. (MakeDirectory \/ Replace) /\ ~Fails("write_failure")
    BY SMTT(30), <2>1, <2>2 DEF Next, Steps, ReadPackage, Preflight, PassGate, Recheck, Record, LookAtParent,
       LookAtKind, LookAtState, Stage, Fill, Unlink, Kill, Looks, Fails, MakeDirectory, Replace, moved
  <2>4. disk \in [Places \X Targets -> Nodes]
    BY DEF PayloadsInv, TypeOK
  <2>5. CASE MakeDirectory
    <3>1. /\ Lstat(Parent(path)) = Missing
          /\ disk' = [disk EXCEPT ![<<"here", Parent(path)>>] = Made]
      BY <2>3, <2>5 DEF MakeDirectory
    <3>2. k = <<"here", Parent(path)>>
      BY <2>4, <3>1 DEF Ours
    <3>3. disk[k] = Missing /\ disk'[k] = Made
      BY <2>4, <3>1, <3>2, ParentIsTop DEF Lstat, Place
    <3> QED BY <3>3
  <2>6. CASE Replace
    <3>1. /\ pc = "replace" /\ Place(path) = temp /\ Lstat(path).kind # "directory"
          /\ disk' = [disk EXCEPT ![<<temp, path>>] = New]
      BY <2>3, <2>6 DEF Replace, Replaceable
    <3>2. k = <<temp, path>> /\ disk'[k] = New
      BY <2>4, <3>1 DEF Ours
    <3>3. disk'[k] # Made
      BY <3>2 DEF New, Made, Node
    <3>4. ASSUME ~late PROVE Expected(k)
      <4>1. /\ Place(path) # "elsewhere" /\ Lstat(path).kind \in {"missing", "file"} /\ Unchanged
            /\ requested # Nothing => Grantable(requested)
            /\ temp \in Places
            /\ target.mode = SelectedMode(requested,
                               IF target.state = Nothing THEN Nothing ELSE target.state.mode)
        BY <3>1, <3>4 DEF PayloadsInv, LastLook, StagedOK, RoundsOK, Verifying
      <4>2. temp = "here" /\ Lstat(path) = disk[k] /\ disk[k] \in Nodes
        BY <2>4, <3>1, <3>2, <4>1 DEF Places, Lstat
      <4>3. State(disk[k]) = target.state
        BY <4>1, <4>2 DEF Unchanged
      <4>4. disk'[k].mode = target.mode
        BY <3>2 DEF New, Node
      <4>5. CASE disk[k].kind = "file"
        <5>1. State(disk[k]) = [stamp |-> disk[k].stamp, mode |-> disk[k].mode]
          BY <4>5 DEF State
        <5>2. State(disk[k]) \in States
          BY <4>2, <5>1 DEF Nodes, States
        <5>3. target.state # Nothing /\ target.state.mode = disk[k].mode /\ disk[k].mode # Nothing
          BY <4>2, <4>3, <5>1, <5>2, PayloadsAssumption DEF Nodes
        <5> QED BY <3>2, <4>1, <4>2, <4>3, <4>4, <4>5, <5>3 DEF Expected, SelectedMode
      <4>6. CASE disk[k].kind = "missing"
        <5>1. target.state = Nothing
          BY <4>3, <4>6 DEF State
        <5>2. Grantable(target.mode)
          BY <4>1, <5>1 DEF SelectedMode, Grantable
        <5> QED BY <3>2, <4>2, <4>3, <4>4, <4>6, <5>2 DEF Expected
      <4> QED BY <4>1, <4>2, <4>5, <4>6
    <3> QED BY <3>3, <3>4
  <2> QED BY <2>3, <2>5, <2>6
<1> QED BY PayloadsInvariant, <1>1, PTL DEF Spec, ReplacesWhatItSaw
=============================================================================
