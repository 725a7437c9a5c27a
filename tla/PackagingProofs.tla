--------------------------- MODULE PackagingProofs ---------------------------
(***************************************************************************)
(* What Packaging promises, for any directory, any number of changes by    *)
(* others and any moment of Ctrl-C.  A file whose state is what it was has *)
(* its bytes, because every change makes its change time newer than any    *)
(* that was seen; so the moment between the first and the second look at   *)
(* the sources is the one the package shows.                               *)
(***************************************************************************)
EXTENDS Packaging, WellFoundedInduction, FiniteSetTheorems, SequenceTheorems, TLAPS

Metas == [id : Nat, size : Nat, mtime : Nat, ctime : Nat, links : Int]
Scans == UNION {[D -> Metas] : D \in SUBSET Names}
Captures == [files : UNION {[D -> Seq(Chunks)] : D \in SUBSET Names},
             binding : Seq(Chunks) \cup {Nothing}]
Bodies == Seq(Chunks) \cup {<<c>> : c \in Captures}
Inodes == [body : Bodies, mtime : Nat, ctime : Nat, links : Int]

Reading == {"reference", "open_reference", "read_reference", "metadata", "target", "open", "read"}
Writing == {"prepare", "reserve", "hold", "write", "pin", "sync", "validate", "reference_again",
            "verify", "publish", "link", "mark"}
Ending == {"close", "look", "unlink", "done"}

Ids == 1..Len(disk)

WorldOK ==
  /\ clock \in Nat
  /\ disk \in Seq(Inodes)
  /\ \A i \in Ids : disk[i].ctime <= clock
  /\ \A i \in Ids : i # own.id => disk[i].body \in Seq(Chunks)
  /\ sources \in [Names -> Ids \cup {Nothing}]
  /\ rootTime \in Nat /\ rootTime <= clock
  /\ reference \in Ids \cup {Nothing}
  /\ output \in [partial : Ids \cup {Nothing}, target : Ids \cup {Nothing}, moved : BOOLEAN]
  /\ own \in [id : Ids \cup {Nothing}, held : BOOLEAN, verified : Metas \cup {Nothing}]

PackingOK ==
  /\ pc \in Reading \cup {"list", "scan"} \cup Writing \cup Ending
  /\ round \in 1..3 /\ (pc \in Reading => round = 1) /\ (pc \in Writing => round = 3)
  /\ todo \in SUBSET Names
  /\ handle \in [state : Metas, body : Seq(Chunks)] \cup {Nothing}
  /\ seen \in [reference : Metas \cup {Nothing}, root : Nat \cup {Nothing},
               now : Nat \cup {Nothing}, entries : Scans, again : Scans]
  /\ captured \in Captures
  /\ done \in [outcome : {"none", "success", "failed", "interrupted"}, linked : BOOLEAN,
               published : BOOLEAN, warned : BOOLEAN, interrupted : BOOLEAN, looked : Nat]

\* Before there is a temporary file.
Before == \/ pc \in Reading \cup {"prepare", "reserve"}
          \/ pc \in {"list", "scan"} /\ round < 3

\* No file of others is the own one, or has the temporary name.
Apart ==
  /\ \A n \in Names : sources[n] = Nothing \/ sources[n] \notin {own.id, output.partial}
  /\ reference = Nothing \/ reference \notin {own.id, output.partial}
  /\ Before => own.id = Nothing /\ output.partial = Nothing /\ ~own.held
  /\ Before \/ pc \in Ending \/ own.id \in Ids

\* What has been seen was not seen in the future.
Known(m) == m.id \in Ids /\ m.ctime <= clock

Pinned == pc \notin {"reference"} \cup Ending
Sealing == pc \in {"publish", "link"}

AllKnown ==
  /\ Pinned => seen.reference \in Metas /\ Known(seen.reference)
  /\ \A n \in DOMAIN seen.entries : Known(seen.entries[n])
  /\ \A n \in DOMAIN seen.again : Known(seen.again[n])
  /\ Sealing => own.verified \in Metas /\ Known(own.verified)
  /\ seen.root # Nothing => seen.root <= clock
  /\ seen.now # Nothing => seen.now <= clock

\* A file that is being read has its length, and its bytes as long as it has its state.
HandleOK ==
  pc \in {"read_reference", "read"} =>
    /\ handle \in [state : Metas, body : Seq(Chunks)] /\ Known(handle.state)
    /\ Len(handle.body) <= handle.state.size
    /\ handle.state.size = Len(disk[handle.state.id].body)
    /\ State(handle.state.id) = handle.state =>
         \A k \in 1..Len(handle.body) : handle.body[k] = disk[handle.state.id].body[k]

Typed == WorldOK /\ PackingOK /\ Apart /\ AllKnown /\ HandleOK

\* What was captured, as long as it looks as it did.
FileAgrees(n) == SameState(seen.entries[n], sources[n]) => captured.files[n] = disk[sources[n]].body

BindingOK ==
  pc \notin {"reference", "open_reference", "read_reference"} \cup Ending =>
    (SameState(seen.reference, reference) => captured.binding = disk[reference].body)

ScanOK ==
  pc = "scan" /\ rootTime = seen.now => Present = DOMAIN seen.again \cup todo

RootOK ==
  (pc \in {"open", "read"} \/ (pc \notin Ending /\ round > 1)) /\ rootTime = seen.root =>
    Present = DOMAIN seen.entries

FilesOK ==
  /\ pc \in {"open", "read"} =>
       /\ todo \subseteq DOMAIN seen.entries
       /\ DOMAIN captured.files = DOMAIN seen.entries \ todo
       /\ \A n \in DOMAIN captured.files : FileAgrees(n)
  /\ pc = "read" => todo # {} /\ handle.state = seen.entries[Min(todo)]
  /\ \/ pc \in {"reference", "open_reference", "read_reference", "metadata", "target"}
     \/ pc \in {"list", "scan"} /\ round = 1
     => captured.files = None
  /\ pc \notin Ending /\ round > 1 => DOMAIN captured.files = DOMAIN seen.entries

\* The moment between the first two looks had whatever looks the same since the
\* first; after the second look it had all that was captured.
Between(f, b) ==
  /\ [files |-> f, binding |-> b] \in moments /\ f = [n \in DOMAIN f |-> f[n]]
  /\ rootTime = seen.root => DOMAIN f = DOMAIN seen.entries
  /\ \A n \in DOMAIN seen.entries :
       SameState(seen.entries[n], sources[n]) => n \in DOMAIN f /\ f[n] = captured.files[n]
  /\ pc = "scan" =>
       \A n \in DOMAIN seen.again \cap DOMAIN seen.entries :
          seen.again[n] = seen.entries[n] => n \in DOMAIN f /\ f[n] = captured.files[n]
  /\ SameState(seen.reference, reference) => b = captured.binding

Found(f, b) ==
  /\ [files |-> f, binding |-> b] \in moments
  /\ f = captured.files
  /\ SameState(seen.reference, reference) \/ pc \in {"verify", "publish", "link"} =>
       b = captured.binding

Witnessed ==
  /\ pc \notin Ending => Now \in moments
  /\ pc \notin Ending /\ round = 2 => \E f, b : Between(f, b)
  /\ pc \notin Ending /\ round = 3 => \E f, b : Found(f, b)

Sealed == Sealing /\ SameState(own.verified, own.id) => disk[own.id].body = Package

Knowing == BindingOK /\ ScanOK /\ RootOK /\ FilesOK /\ Witnessed /\ Sealed

\* How the packing stands and how it ends.
EndsTrue ==
  /\ done.linked => pc \in {"mark"} \cup Ending /\ done.outcome # "failed"
  /\ pc = "mark" => done.linked
  /\ done.outcome = "success" => done.linked
  /\ done.outcome = "interrupted" => done.interrupted
  /\ pc \notin Ending => done.outcome = "none"
  /\ own.id # Nothing /\ ~own.held /\ pc # "hold" => pc = "done" /\ done.interrupted
  /\ pc = "done" /\ output.partial # Nothing /\ output.partial = own.id =>
       done.warned \/ done.interrupted
  /\ pc = "unlink" =>
       \/ output.partial \in {Nothing, own.id}
       \/ disk[output.partial].ctime > done.looked
  /\ done.looked <= clock

\* How others change the world: every inode they touch is younger than all that
\* was seen, and new files are new inodes.
Tick == clock' = clock + 1 /\ UNCHANGED packing /\ moments' = moments \cup {Now'}

DiskAges ==
  /\ disk' \in Seq(Inodes) /\ Len(disk) <= Len(disk')
  /\ \A i \in Ids : \/ disk'[i] = disk[i]
                    \/ /\ disk'[i].ctime = clock' /\ Len(disk'[i].body) = Len(disk[i].body)
                       /\ i # own.id => disk'[i].body \in Seq(Chunks)
  /\ \A i \in Ids' \ Ids : disk'[i].ctime = clock' /\ disk'[i].body \in Seq(Chunks)

NamesMove ==
  /\ sources' \in [Names -> Ids' \cup {Nothing}]
  /\ \A n \in Names : sources'[n] = sources[n] \/ sources'[n] \notin Ids
  /\ rootTime' = clock' \/ (rootTime' = rootTime /\ sources' = sources)
  /\ reference' \in Ids' \cup {Nothing}
  /\ reference' = reference \/ reference' \notin Ids
  /\ output' \in [partial : Ids' \cup {Nothing}, target : Ids' \cup {Nothing}, moved : BOOLEAN]
  /\ \/ output'.partial \in {output.partial, Nothing}
     \/ /\ own.id # Nothing /\ output'.partial \in Ids' \ Ids
        /\ sources' = sources /\ reference' = reference

Aged == Tick /\ DiskAges /\ NamesMove

-----------------------------------------------------------------------------
(* Smallest names, inodes and how the disk changes.                         *)

LEMMA SmallestIsIn ==
  ASSUME NEW S \in SUBSET Nat, S # {} PROVE Min(S) \in S
<1> DEFINE R == {ss \in Nat \X Nat : ss[1] < ss[2]}
<1>1. IsWellFoundedOn(R, Nat)
  BY NatLessThanWellFounded, Zenon DEF OpToRel
<1>2. \A x, y \in Nat : <<y, x>> \in R <=> y < x
  BY Zenon
<1> HIDE DEF R
<1>3. PICK x \in S : \A y \in S : ~(<<y, x>> \in R)
  BY <1>1, WFMin
<1>4. \A y \in S : ~(y < x)
  BY <1>2, <1>3, Zenon
<1>5. \A y \in S : x =< y
  BY <1>4
<1> QED BY <1>3, <1>5 DEF Min

LEMMA InodeType ==
  ASSUME NEW body \in Bodies, NEW time \in Nat PROVE Inode(body, time) \in Inodes
BY DEF Inode, Inodes

LEMMA InodeExcept ==
  ASSUME NEW d \in Inodes
  PROVE  /\ \A links \in Int : [d EXCEPT !.links = links] \in Inodes
         /\ \A time \in Nat : [d EXCEPT !.ctime = time] \in Inodes
         /\ \A time \in Nat : [d EXCEPT !.mtime = time] \in Inodes
         /\ \A body \in Bodies : [d EXCEPT !.body = body] \in Inodes
<1>1. ASSUME NEW links \in Int PROVE [d EXCEPT !.links = links] \in Inodes
  BY DEF Inodes
<1>2. ASSUME NEW time \in Nat PROVE [d EXCEPT !.ctime = time] \in Inodes
  BY DEF Inodes
<1>3. ASSUME NEW time \in Nat PROVE [d EXCEPT !.mtime = time] \in Inodes
  BY DEF Inodes
<1>4. ASSUME NEW body \in Bodies PROVE [d EXCEPT !.body = body] \in Inodes
  BY DEF Inodes
<1> QED BY <1>1, <1>2, <1>3, <1>4

LEMMA FreshBody ==
  ASSUME NEW c \in Chunks PROVE <<c, c>> \in Seq(Chunks) /\ <<c, c>> \in Bodies
BY DEF Bodies

LEMMA StateType ==
  ASSUME WorldOK, NEW i \in Ids
  PROVE  /\ disk[i] \in Inodes
         /\ disk[i].ctime \in Nat /\ disk[i].ctime <= clock
         /\ State(i) \in Metas /\ Known(State(i))
<1>1. disk[i] \in Inodes
  BY DEF WorldOK, Ids
<1>2. Len(disk[i].body) \in Nat
  BY <1>1 DEF Inodes, Bodies
<1>3. disk[i].ctime \in Nat /\ disk[i].ctime <= clock
  BY <1>1 DEF Inodes, WorldOK
<1>4. i \in Nat /\ disk[i].mtime \in Nat /\ disk[i].links \in Int
  BY <1>1 DEF Inodes, Ids, WorldOK
<1>5. State(i) \in Metas
  BY <1>2, <1>3, <1>4 DEF State, Metas
<1>6. Known(State(i))
  BY <1>3 DEF State, Known
<1> QED BY <1>1, <1>3, <1>5, <1>6

\* One inode becomes another.
LEMMA DiskExcept ==
  ASSUME WorldOK, NEW i \in Ids, NEW d \in Inodes
  PROVE  /\ [disk EXCEPT ![i] = d] \in Seq(Inodes)
         /\ Len([disk EXCEPT ![i] = d]) = Len(disk)
         /\ [disk EXCEPT ![i] = d][i] = d
         /\ \A j \in Ids \ {i} : [disk EXCEPT ![i] = d][j] = disk[j]
BY ExceptSeq DEF WorldOK, Ids

LEMMA WithoutDisk ==
  ASSUME WorldOK, NEW i \in Ids \cup {Nothing}, clock' = clock + 1
  PROVE  /\ Without(i) \in Seq(Inodes)
         /\ Len(Without(i)) = Len(disk)
         /\ \A j \in Ids : \/ Without(i)[j] = disk[j]
                           \/ j = i /\ Without(i)[j].ctime = clock' /\ Without(i)[j].body = disk[j].body
<1>1. CASE i = Nothing
  BY <1>1 DEF Without, WorldOK
<1>2. CASE i \in Ids
  <2>1. i # Nothing
    BY <1>2, PackagingAssumption DEF Ids, WorldOK
  <2> DEFINE d == [disk[i] EXCEPT !.links = @ - 1, !.ctime = clock']
  <2>2. disk[i] \in Inodes
    BY <1>2 DEF WorldOK, Ids
  <2>6. clock' \in Nat
    BY DEF WorldOK
  <2> DEFINE e == [disk[i] EXCEPT !.links = @ - 1]
  <2>7. e \in Inodes /\ e.body = disk[i].body
    BY <2>2, InodeExcept DEF Inodes
  <2>8. d = [e EXCEPT !.ctime = clock']
    OBVIOUS
  <2>3. d \in Inodes /\ d.ctime = clock' /\ d.body = disk[i].body
    <3> HIDE DEF e
    <3> QED BY <2>6, <2>7, <2>8, InodeExcept DEF Inodes
  <2>5. DOMAIN disk = Ids /\ i \in DOMAIN disk
    BY <1>2 DEF WorldOK, Ids
  <2>4. Without(i) = [disk EXCEPT ![i] = d]
    BY <2>1, <2>2, <2>5 DEF Without
  <2> HIDE DEF d
  <2> QED BY <1>2, <2>3, <2>4, DiskExcept
<1> QED BY <1>1, <1>2

LEMMA NewForDisk ==
  ASSUME WorldOK, NEW i \in Ids \cup {Nothing}, NEW c \in Chunks, clock' = clock + 1,
         NewFor(i, c)
  PROVE  /\ disk' \in Seq(Inodes)
         /\ Len(disk') = Len(disk) + 1
         /\ \A j \in Ids : \/ disk'[j] = disk[j]
                           \/ disk'[j].ctime = clock' /\ disk'[j].body = disk[j].body
         /\ disk'[Len(disk) + 1] = Inode(<<c, c>>, clock')
<1> DEFINE w == Without(i)
           d == Inode(<<c, c>>, clock')
<1>1. w \in Seq(Inodes) /\ Len(w) = Len(disk)
  BY WithoutDisk
<1>2. clock' \in Nat
  BY DEF WorldOK
<1>3. d \in Inodes
  BY <1>2, FreshBody, InodeType
<1>4. disk' = Append(w, d)
  BY DEF NewFor
<1>5. \A j \in Ids : \/ w[j] = disk[j]
                     \/ w[j].ctime = clock' /\ w[j].body = disk[j].body
  BY WithoutDisk
<1> HIDE DEF w, d
<1>6. /\ disk' \in Seq(Inodes) /\ Len(disk') = Len(disk) + 1
      /\ disk'[Len(disk) + 1] = d /\ \A j \in Ids : disk'[j] = w[j]
  BY <1>1, <1>3, <1>4, AppendProperties DEF Ids
<1> QED BY <1>5, <1>6 DEF d

LEMMA AgedWorld ==
  ASSUME WorldOK, Apart, Aged PROVE WorldOK' /\ Apart' /\ Ids \subseteq Ids'
<1>1. Len(disk) \in Nat /\ Len(disk') \in Nat /\ Len(disk) <= Len(disk')
  BY DEF WorldOK, Aged, DiskAges
<1>2. Ids \subseteq Ids'
  BY <1>1 DEF Ids
<1>3. clock' \in Nat /\ clock <= clock' /\ own' = own
  BY DEF WorldOK, Aged, Tick, packing
<1>4. \A i \in Ids' : disk'[i].ctime <= clock'
  <2> TAKE i \in Ids'
  <2>1. CASE disk'[i].ctime = clock'
    BY <2>1, <1>3
  <2>2. CASE i \in Ids /\ disk'[i] = disk[i]
    <3>1. disk[i].ctime \in Nat /\ disk[i].ctime <= clock
      BY <2>2, StateType
    <3> QED BY <3>1, <2>2, <1>3 DEF WorldOK
  <2> QED BY <2>1, <2>2 DEF Aged, DiskAges
<1>5. \A i \in Ids' : i # own'.id => disk'[i].body \in Seq(Chunks)
  BY <1>3 DEF WorldOK, Aged, DiskAges
<1>6. own' \in [id : Ids' \cup {Nothing}, held : BOOLEAN, verified : Metas \cup {Nothing}]
  BY <1>2, <1>3 DEF WorldOK
<1>7. rootTime' \in Nat /\ rootTime' <= clock'
  BY <1>3 DEF WorldOK, Aged, NamesMove
<1>8. WorldOK'
  BY <1>3, <1>4, <1>5, <1>6, <1>7 DEF WorldOK, Aged, DiskAges, NamesMove
<1>9. Nothing \notin Ids /\ Nothing \notin Ids' /\ own.id \in Ids \cup {Nothing}
      /\ output.partial \in Ids \cup {Nothing}
  BY <1>1, PackagingAssumption DEF Ids, WorldOK
<1>10. ASSUME NEW old \in Ids \cup {Nothing}, NEW new \in Ids' \cup {Nothing},
              old = Nothing \/ old \notin {own.id, output.partial},
              new = old \/ new \notin Ids,
              new = old \/ output'.partial \in {output.partial, Nothing}
       PROVE  new = Nothing \/ new \notin {own.id, output'.partial}
  BY <1>9, <1>10 DEF Aged, NamesMove
<1>11. \A n \in Names : sources'[n] = Nothing \/ sources'[n] \notin {own'.id, output'.partial}
  <2> TAKE n \in Names
  <2>1. sources[n] \in Ids \cup {Nothing} /\ sources'[n] \in Ids' \cup {Nothing}
    BY DEF WorldOK, Aged, NamesMove
  <2> QED BY <2>1, <1>10, <1>3 DEF Apart, Aged, NamesMove
<1>12. reference' = Nothing \/ reference' \notin {own'.id, output'.partial}
  BY <1>10, <1>3 DEF Apart, Aged, NamesMove, WorldOK
<1>13. Before' => own'.id = Nothing /\ output'.partial = Nothing /\ ~own'.held
  BY <1>3 DEF Apart, Before, Aged, Tick, NamesMove, packing
<1>14. Before' \/ pc' \in Ending \/ own'.id \in Ids'
  BY <1>2, <1>3 DEF Apart, Before, Aged, Tick, packing
<1> QED BY <1>2, <1>8, <1>11, <1>12, <1>13, <1>14 DEF Apart

LEMMA RewrittenBody ==
  ASSUME NEW body \in Bodies, NEW k \in DOMAIN body, NEW c \in Chunks
  PROVE  [body EXCEPT ![k] = c] \in Seq(Chunks) /\ Len([body EXCEPT ![k] = c]) = Len(body)
<1>1. CASE body \in Seq(Chunks)
  BY <1>1, ExceptSeq
<1>2. ASSUME NEW x \in Captures, body = <<x>>
      PROVE  [body EXCEPT ![k] = c] \in Seq(Chunks) /\ Len([body EXCEPT ![k] = c]) = Len(body)
  <2>1. k = 1 /\ [body EXCEPT ![k] = c] = <<c>>
    BY <1>2
  <2>2. <<c>> \in Seq(Chunks) /\ Len(body) = Len(<<c>>)
    BY <1>2
  <2> QED BY <2>1, <2>2
<1> QED BY <1>1, <1>2 DEF Bodies

LEMMA InPlace ==
  ASSUME WorldOK, clock' = clock + 1, NEW i \in Ids, NEW d \in Inodes, d.ctime = clock',
         i # own.id => d.body \in Seq(Chunks), Len(d.body) = Len(disk[i].body),
         disk' = [disk EXCEPT ![i] = d]
  PROVE  DiskAges /\ Ids' = Ids
<1>1. /\ disk' \in Seq(Inodes) /\ Len(disk') = Len(disk)
      /\ disk'[i] = d /\ \A j \in Ids \ {i} : disk'[j] = disk[j]
  BY DiskExcept
<1>2. Ids' = Ids
  BY <1>1 DEF Ids
<1>3. Len(disk) <= Len(disk')
  BY <1>1 DEF WorldOK
<1> QED BY <1>1, <1>2, <1>3 DEF DiskAges

LEMMA Forgotten ==
  ASSUME WorldOK, clock' = clock + 1, NEW i \in Ids \cup {Nothing}, disk' = Without(i)
  PROVE  DiskAges /\ Ids' = Ids
<1>1. /\ Without(i) \in Seq(Inodes) /\ Len(Without(i)) = Len(disk)
      /\ \A j \in Ids : \/ Without(i)[j] = disk[j]
                        \/ j = i /\ Without(i)[j].ctime = clock' /\ Without(i)[j].body = disk[j].body
  BY WithoutDisk
<1>2. Ids' = Ids
  BY <1>1 DEF Ids
<1>3. Len(disk) <= Len(disk')
  BY <1>1 DEF WorldOK
<1>4. \A j \in Ids : j # own.id => disk[j].body \in Seq(Chunks)
  BY DEF WorldOK
<1> QED BY <1>1, <1>2, <1>3, <1>4 DEF DiskAges

LEMMA Brought ==
  ASSUME WorldOK, clock' = clock + 1, NEW i \in Ids \cup {Nothing}, NEW c \in Chunks,
         NewFor(i, c)
  PROVE  /\ DiskAges
         /\ Ids' = Ids \cup {Len(disk) + 1} /\ Len(disk) + 1 \notin Ids
<1>1. /\ disk' \in Seq(Inodes) /\ Len(disk') = Len(disk) + 1
      /\ \A j \in Ids : \/ disk'[j] = disk[j]
                        \/ disk'[j].ctime = clock' /\ disk'[j].body = disk[j].body
      /\ disk'[Len(disk) + 1] = Inode(<<c, c>>, clock')
  BY NewForDisk
<1>2. Len(disk) \in Nat
  BY DEF WorldOK
<1>3. Ids' = Ids \cup {Len(disk) + 1} /\ Len(disk) + 1 \notin Ids
  BY <1>1, <1>2 DEF Ids
<1>4. Len(disk) <= Len(disk')
  BY <1>1, <1>2
<1>5. disk'[Len(disk) + 1].ctime = clock' /\ disk'[Len(disk) + 1].body \in Seq(Chunks)
  BY <1>1, FreshBody DEF Inode
<1>6. \A j \in Ids : j # own.id => disk[j].body \in Seq(Chunks)
  BY DEF WorldOK
<1> QED BY <1>1, <1>3, <1>4, <1>5, <1>6 DEF DiskAges

LEMMA Untouched ==
  ASSUME WorldOK, disk' = disk PROVE DiskAges /\ Ids' = Ids
BY DEF DiskAges, WorldOK, Ids

LEMMA EnvironmentAges ==
  ASSUME WorldOK, Environment PROVE Aged
<1>1. Tick
  BY DEF Environment, Rewrite, DropSource, PutSource, ReplaceReference, Occupy, RemoveReference,
         Withdraw, MoveDirectory, HardLink, Others, Tick
<1>2. clock' = clock + 1 /\ clock' \in Nat
  BY <1>1 DEF Tick, WorldOK
<1>3. DOMAIN disk = Ids /\ Reachable \subseteq Ids
  BY DEF WorldOK, Ids, Reachable
<1>4. Nothing \notin Ids
  BY PackagingAssumption DEF Ids, WorldOK
<1>5. ASSUME NEW i \in Reachable, NEW k \in 1..2, NEW c \in Chunks, Rewrite(i, k, c)
      PROVE  DiskAges /\ NamesMove
  <2>1. i \in Ids /\ disk[i] \in Inodes
    BY <1>3, StateType
  <2>2. PICK mtime \in {disk[i].mtime, clock'} :
          disk' = [disk EXCEPT ![i].body[k] = c, ![i].mtime = mtime, ![i].ctime = clock']
    BY <1>5, Zenon DEF Rewrite, Others
  <2>3. k \in DOMAIN disk[i].body /\ UNCHANGED <<sources, rootTime, reference, output>>
    BY <1>5 DEF Rewrite, Others
  <2> DEFINE body == [disk[i].body EXCEPT ![k] = c]
             d1 == [disk[i] EXCEPT !.body = body]
             d2 == [d1 EXCEPT !.mtime = mtime]
             d == [d2 EXCEPT !.ctime = clock']
  <2>4. body \in Seq(Chunks) /\ body \in Bodies /\ Len(body) = Len(disk[i].body)
    BY <2>1, <2>3, RewrittenBody DEF Inodes, Bodies
  <2>5. d1 \in Inodes /\ d1.body = body
    <3> HIDE DEF body
    <3> QED BY <2>1, <2>4, InodeExcept DEF Inodes
  <2>6. mtime \in Nat
    BY <2>1, <1>2 DEF Inodes
  <2>7. d2 \in Inodes /\ d2.body = body
    <3> HIDE DEF body, d1
    <3> QED BY <2>5, <2>6, InodeExcept DEF Inodes
  <2>8. d \in Inodes /\ d.body = body /\ d.ctime = clock'
    <3> HIDE DEF body, d1, d2
    <3> QED BY <2>7, <1>2, InodeExcept DEF Inodes
  <2>9. disk' = [disk EXCEPT ![i] = d]
    BY <2>1, <2>2, <1>3
  <2> HIDE DEF d, d2, d1
  <2>10. DiskAges /\ Ids' = Ids
    BY <2>1, <2>8, <2>9, <2>4, <1>2, InPlace
  <2> QED BY <2>3, <2>10 DEF NamesMove, WorldOK
<1> DEFINE Still == UNCHANGED <<sources, rootTime, reference, output>>
<1>6. Ids' = Ids /\ Still => NamesMove
  BY DEF NamesMove, WorldOK
<1>7. ASSUME NEW n \in Names, DropSource(n) PROVE DiskAges /\ NamesMove
  <2>1. sources[n] \in Ids \cup {Nothing} /\ disk' = Without(sources[n])
    BY <1>7 DEF DropSource, Others, WorldOK
  <2>2. DiskAges /\ Ids' = Ids
    BY <2>1, <1>2, Forgotten
  <2>3. /\ sources' = [sources EXCEPT ![n] = Nothing] /\ rootTime' = clock'
        /\ UNCHANGED <<reference, output>>
    BY <1>7 DEF DropSource, Others
  <2> QED BY <2>2, <2>3, <1>4 DEF NamesMove, WorldOK
<1>8. ASSUME NEW n \in Names, NEW c \in Chunks, PutSource(n, c) PROVE DiskAges /\ NamesMove
  <2>1. sources[n] \in Ids \cup {Nothing} /\ NewFor(sources[n], c)
    BY <1>8 DEF PutSource, Others, WorldOK
  <2>2. DiskAges /\ Ids' = Ids \cup {Len(disk) + 1} /\ Len(disk) + 1 \notin Ids
    BY <2>1, <1>2, Brought
  <2>3. /\ sources' = [sources EXCEPT ![n] = Len(disk) + 1] /\ rootTime' = clock'
        /\ UNCHANGED <<reference, output>>
    BY <1>8 DEF PutSource, Others
  <2> QED BY <2>2, <2>3 DEF NamesMove, WorldOK
<1>9. ASSUME NEW c \in Chunks, ReplaceReference(c) PROVE DiskAges /\ NamesMove
  <2>1. reference \in Ids \cup {Nothing} /\ NewFor(reference, c)
    BY <1>9 DEF ReplaceReference, Others, WorldOK
  <2>2. DiskAges /\ Ids' = Ids \cup {Len(disk) + 1} /\ Len(disk) + 1 \notin Ids
    BY <2>1, <1>2, Brought
  <2>3. reference' = Len(disk) + 1 /\ UNCHANGED <<sources, rootTime, output>>
    BY <1>9 DEF ReplaceReference, Others
  <2> QED BY <2>2, <2>3 DEF NamesMove, WorldOK
<1>10. ASSUME NEW c \in Chunks, NEW name \in {"partial", "target"}, Occupy(name, c)
       PROVE  DiskAges /\ NamesMove
  <2>1. output[name] \in Ids \cup {Nothing} /\ NewFor(output[name], c)
    BY <1>10 DEF Occupy, Others, WorldOK
  <2>2. DiskAges /\ Ids' = Ids \cup {Len(disk) + 1} /\ Len(disk) + 1 \notin Ids
    BY <2>1, <1>2, Brought
  <2>3. /\ output' = [output EXCEPT ![name] = Len(disk) + 1]
        /\ UNCHANGED <<sources, rootTime, reference>>
        /\ name = "partial" => own.id # Nothing
    BY <1>10 DEF Occupy, Others
  <2>4. output' \in [partial : Ids' \cup {Nothing}, target : Ids' \cup {Nothing}, moved : BOOLEAN]
    BY <2>2, <2>3 DEF WorldOK
  <2>5. CASE name = "partial"
    BY <2>2, <2>3, <2>4, <2>5 DEF NamesMove, WorldOK
  <2>6. CASE name = "target"
    BY <2>2, <2>3, <2>4, <2>6 DEF NamesMove, WorldOK
  <2> QED BY <2>5, <2>6
<1>11. ASSUME RemoveReference PROVE DiskAges /\ NamesMove
  <2>1. reference \in Ids \cup {Nothing} /\ disk' = Without(reference)
    BY <1>11 DEF RemoveReference, Others, WorldOK
  <2>2. DiskAges /\ Ids' = Ids
    BY <2>1, <1>2, Forgotten
  <2>3. reference' = Nothing /\ UNCHANGED <<sources, rootTime, output>>
    BY <1>11 DEF RemoveReference, Others
  <2> QED BY <2>2, <2>3, <1>4 DEF NamesMove, WorldOK
<1>12. ASSUME Withdraw PROVE DiskAges /\ NamesMove
  <2>1. output.partial \in Ids \cup {Nothing} /\ disk' = Without(output.partial)
    BY <1>12 DEF Withdraw, Others, WorldOK
  <2>2. DiskAges /\ Ids' = Ids
    BY <2>1, <1>2, Forgotten
  <2>3. /\ output' = [output EXCEPT !.partial = Nothing]
        /\ UNCHANGED <<sources, rootTime, reference>>
    BY <1>12 DEF Withdraw, Others
  <2> QED BY <2>2, <2>3, <1>4 DEF NamesMove, WorldOK
<1>13. ASSUME MoveDirectory PROVE DiskAges /\ NamesMove
  <2>1. /\ output' = [output EXCEPT !.moved = TRUE]
        /\ UNCHANGED <<disk, sources, rootTime, reference>>
    BY <1>13 DEF MoveDirectory, Others
  <2>2. DiskAges /\ Ids' = Ids
    BY <2>1, Untouched
  <2> QED BY <2>1, <2>2 DEF NamesMove, WorldOK
<1>14. ASSUME NEW i \in Reachable, HardLink(i) PROVE DiskAges /\ NamesMove
  <2>1. i \in Ids /\ disk[i] \in Inodes
    BY <1>3, StateType
  <2>2. /\ disk' = [disk EXCEPT ![i].links = @ + 1, ![i].ctime = clock']
        /\ UNCHANGED <<sources, rootTime, reference, output>>
    BY <1>14 DEF HardLink, Others
  <2> DEFINE e == [disk[i] EXCEPT !.links = @ + 1]
             d == [e EXCEPT !.ctime = clock']
  <2>3. e \in Inodes /\ e.body = disk[i].body
    BY <2>1, InodeExcept DEF Inodes
  <2>4. d \in Inodes /\ d.body = disk[i].body /\ d.ctime = clock'
    <3> HIDE DEF e
    <3> QED BY <2>3, <1>2, InodeExcept DEF Inodes
  <2>5. disk' = [disk EXCEPT ![i] = d]
    BY <2>1, <2>2, <1>3
  <2> HIDE DEF d, e
  <2>6. i # own.id => d.body \in Seq(Chunks)
    BY <2>1, <2>4 DEF WorldOK
  <2>7. DiskAges /\ Ids' = Ids
    BY <2>1, <2>4, <2>5, <2>6, <1>2, InPlace
  <2> QED BY <2>2, <2>7, <1>6
<1>15. DiskAges /\ NamesMove
  BY <1>5, <1>7, <1>8, <1>9, <1>10, <1>11, <1>12, <1>13, <1>14 DEF Environment
<1> QED BY SMTT(40), <1>1, <1>15 DEF Aged

\* Whoever looks as it did is what it was.
LEMMA SameAsBefore ==
  ASSUME WorldOK, Apart, Aged, NEW m \in Metas, Known(m), NEW i, SameState(m, i)'
  PROVE  i \in Ids /\ disk'[i] = disk[i] /\ SameState(m, i)
<1>1. i # Nothing /\ m = State(i)'
  BY DEF SameState
<1>2. i = m.id /\ m.ctime = disk'[i].ctime
  BY <1>1 DEF State
<1>3. i \in Ids /\ disk'[i].ctime <= clock
  BY <1>2 DEF Known
<1>4. clock' = clock + 1 /\ clock \in Nat
  BY DEF Aged, Tick, WorldOK
<1>5. disk'[i].ctime # clock'
  BY <1>3, <1>4
<1>6. disk'[i] = disk[i]
  BY <1>3, <1>5 DEF Aged, DiskAges
<1> QED BY <1>1, <1>3, <1>6 DEF SameState, State

LEMMA AgedTyped ==
  ASSUME Typed, Environment PROVE Aged /\ Typed' /\ Ids \subseteq Ids'
<1>1. Aged
  BY EnvironmentAges DEF Typed
<1>2. WorldOK' /\ Apart' /\ Ids \subseteq Ids'
  BY <1>1, AgedWorld DEF Typed
<1>3. UNCHANGED packing /\ clock' = clock + 1 /\ clock \in Nat
  BY <1>1 DEF Aged, Tick, Typed, WorldOK
<1>4. PackingOK'
  BY <1>3 DEF packing, PackingOK, Typed
<1>5. ASSUME NEW m \in Metas, Known(m) PROVE Known(m)'
  BY <1>2, <1>3, <1>5 DEF Known, Metas
<1>6. /\ seen' = seen /\ handle' = handle /\ own' = own
      /\ pc' = pc
      /\ \A n \in DOMAIN seen.entries : seen.entries[n] \in Metas
      /\ \A n \in DOMAIN seen.again : seen.again[n] \in Metas
      /\ seen.root \in Nat \cup {Nothing} /\ seen.now \in Nat \cup {Nothing}
  BY <1>3 DEF packing, PackingOK, Typed, WorldOK, Scans
<1>7. AllKnown'
  BY <1>3, <1>5, <1>6 DEF AllKnown, Typed, Pinned, Sealing
<1>8. HandleOK'
  <2> SUFFICES ASSUME pc' \in {"read_reference", "read"}
               PROVE  HandleOK'
    BY DEF HandleOK
  <2>1. /\ pc \in {"read_reference", "read"} /\ handle' = handle
        /\ handle \in [state : Metas, body : Seq(Chunks)]
        /\ handle.state \in Metas /\ Known(handle.state) /\ pc' = pc
    BY <1>3, <1>6 DEF packing, Typed, HandleOK
  <2>2. Len(handle.body) <= handle.state.size /\ handle.state.size = Len(disk[handle.state.id].body)
    BY <2>1 DEF Typed, HandleOK
  <2>3. Len(disk'[handle.state.id].body) = Len(disk[handle.state.id].body)
    BY <1>1, <2>1 DEF Aged, DiskAges, Known
  <2>4. ASSUME State(handle.state.id)' = handle.state
        PROVE  \A k \in 1..Len(handle.body) : handle.body[k] = disk'[handle.state.id].body[k]
    <3>1. SameState(handle.state, handle.state.id)'
      BY <2>1, <2>4, PackagingAssumption DEF SameState, Metas
    <3>2. /\ disk'[handle.state.id] = disk[handle.state.id]
          /\ SameState(handle.state, handle.state.id)
      BY <3>1, <2>1, <1>1, SameAsBefore DEF Typed
    <3> QED BY <3>2, <2>1 DEF Typed, HandleOK, SameState
  <2>5. Known(handle.state)'
    BY <2>1, <1>5
  <2> QED BY <2>1, <2>2, <2>3, <2>4, <2>5 DEF HandleOK
<1> QED BY <1>1, <1>2, <1>4, <1>7, <1>8 DEF Typed

-----------------------------------------------------------------------------
(* The steps of the packing keep their types.                               *)

Ends == [outcome : {"none", "success", "failed", "interrupted"}, linked : BOOLEAN,
         published : BOOLEAN, warned : BOOLEAN, interrupted : BOOLEAN, looked : Nat]

Places ==
  /\ pc' \in Reading \cup {"list", "scan"} \cup Writing \cup Ending
  /\ round' \in 1..3 /\ (pc' \in Reading => round' = 1) /\ (pc' \in Writing => round' = 3)
  /\ pc' \in Ending \/ (Pinned /\ (Before' <=> Before))

LEMMA StillWorld ==
  ASSUME WorldOK, UNCHANGED <<world, own>>
  PROVE  WorldOK' /\ Ids' = Ids /\ \A m : Known(m)' = Known(m)
BY DEF WorldOK, Ids, Known, world

LEMMA Still ==
  ASSUME Typed, UNCHANGED <<world, own>>, Places
  PROVE  WorldOK' /\ Ids' = Ids /\ Apart' /\ \A m : Known(m)' = Known(m)
<1>1. WorldOK' /\ Ids' = Ids /\ \A m : Known(m)' = Known(m)
  BY StillWorld DEF Typed
<1>2. CASE pc' \in Ending
  BY <1>1, <1>2 DEF Typed, Apart, world, Before, Reading, Ending
<1>3. CASE Pinned /\ (Before' <=> Before)
  BY <1>1, <1>3 DEF Typed, Apart, world, Pinned
<1> QED BY <1>1, <1>2, <1>3 DEF Places

LEMMA Quiet ==
  ASSUME Typed, UNCHANGED <<world, own, seen, handle, captured>>, Places,
         todo' \in SUBSET Names, done' \in Ends, pc' \notin {"read_reference", "read"},
         Sealing' => Sealing
  PROVE  Typed'
<1>1. WorldOK' /\ Ids' = Ids /\ Apart' /\ \A m : Known(m)' = Known(m)
  BY Still
<1>2. PackingOK'
  BY DEF Typed, PackingOK, Places, Ends
<1>3. AllKnown'
  BY <1>1 DEF Typed, AllKnown, world, Pinned, Sealing, Places
<1>4. HandleOK'
  BY DEF HandleOK
<1> QED BY <1>1, <1>2, <1>3, <1>4 DEF Typed

LEMMA DoneTypes ==
  ASSUME Typed
  PROVE  /\ done \in Ends
         /\ \A how \in {"success", "failed", "interrupted"} :
              [done EXCEPT !.outcome = how] \in Ends
BY DEF Typed, PackingOK, Ends

LEMMA FailTyped ==
  ASSUME Typed, NEW from, Fail(from) PROVE Typed' /\ pc' \in Ending
<1>1. done' \in Ends
  BY DoneTypes DEF Fail
<1>2. Places /\ pc' \in Ending
  BY DEF Typed, PackingOK, Places, Before, Fail, Step, AfterFailure, Reading, Writing, Ending
<1>3. pc' \notin {"read_reference", "read"} /\ todo' \in SUBSET Names
  BY <1>2 DEF Ending, Fail, Typed, PackingOK
<1>4. ~Sealing'
  BY <1>2 DEF Ending, Sealing
<1> QED BY <1>1, <1>2, <1>3, <1>4, Quiet DEF Fail

LEMMA InterruptTyped ==
  ASSUME Typed, Interrupt \/ InterruptCleanup
  PROVE  Typed' /\ pc' \in Ending
<1>1. done' \in Ends
  BY DEF Interrupt, InterruptCleanup, Interrupted, Typed, PackingOK, Ends
<1>2. Places /\ pc' \in Ending
  BY DEF Typed, PackingOK, Places, Before, Interrupt, InterruptCleanup, Cleaning, AfterFailure, Reading, Writing, Ending
<1>3. pc' \notin {"read_reference", "read"} /\ todo' \in SUBSET Names
  BY <1>2 DEF Ending, Interrupt, InterruptCleanup, Typed, PackingOK
<1>4. ~Sealing'
  BY <1>2 DEF Ending, Sealing
<1> QED BY <1>1, <1>2, <1>3, <1>4, Quiet DEF Interrupt, InterruptCleanup

QuietSteps ==
  \/ PrepareMetadata \/ ResolveTarget \/ Captured \/ Revalidated
  \/ PrepareCandidate \/ Pin \/ Sync \/ Validate \/ CheckReference \/ LastLook
  \/ Mark \/ Close \/ Look

LEMMA QuietTyped ==
  ASSUME Typed, QuietSteps, ~(\E from : Fail(from)) PROVE Typed'
<1>1. /\ UNCHANGED <<world, own, seen, handle, captured, todo>>
      /\ pc' \notin {"read_reference", "read"}
  BY DEF QuietSteps, PrepareMetadata, ResolveTarget, Captured, Revalidated, PrepareCandidate, Pin,
         Sync, Validate, CheckReference, LastLook, Mark, Close, Look, Checked, Step
<1>2. done' \in Ends
  <2>1. CASE done' = done
    BY <2>1, DoneTypes
  <2>2. CASE Mark
    BY <2>2, DoneTypes DEF Mark, Ends
  <2>3. CASE Close
    BY <2>3, DoneTypes DEF Close, Ends
  <2>4. CASE Look
    BY <2>4, DoneTypes DEF Look, Ends, Typed, WorldOK
  <2> QED BY <2>1, <2>2, <2>3, <2>4 DEF QuietSteps, PrepareMetadata, ResolveTarget, Captured,
       Revalidated, PrepareCandidate, Pin, Sync, Validate, CheckReference, LastLook, Checked
<1>3. Places
  BY DEF QuietSteps, PrepareMetadata, ResolveTarget, Captured, Revalidated, PrepareCandidate, Pin,
         Sync, Validate, CheckReference, LastLook, Mark, Close, Look, Checked, Step,
         Typed, PackingOK, Places, Before, Pinned, Reading, Writing, Ending
<1>4. Sealing' => Sealing
  BY DEF QuietSteps, PrepareMetadata, ResolveTarget, Captured, Revalidated, PrepareCandidate, Pin,
         Sync, Validate, CheckReference, LastLook, Mark, Close, Look, Checked, Step, Sealing
<1> QED BY <1>1, <1>2, <1>3, <1>4, Quiet DEF Typed, PackingOK

LEMMA ScanExtends ==
  ASSUME NEW f \in Scans, NEW n \in Names, NEW m \in Metas
  PROVE  [k \in DOMAIN f \cup {n} |-> IF k = n THEN m ELSE f[k]] \in Scans
<1>1. PICK D \in SUBSET Names : f \in [D -> Metas]
  BY DEF Scans
<1>2. D \cup {n} \in SUBSET Names /\ DOMAIN f = D
  BY <1>1
<1>3. [k \in D \cup {n} |-> IF k = n THEN m ELSE f[k]] \in [D \cup {n} -> Metas]
  BY <1>1
<1> QED BY <1>2, <1>3 DEF Scans

LEMMA CaptureExtends ==
  ASSUME NEW c \in Captures, NEW n \in Names, NEW b \in Seq(Chunks)
  PROVE  [c EXCEPT !.files = [k \in DOMAIN @ \cup {n} |-> IF k = n THEN b ELSE @[k]]] \in Captures
<1> DEFINE f == c.files
           g == [k \in DOMAIN f \cup {n} |-> IF k = n THEN b ELSE f[k]]
<1>1. PICK D \in SUBSET Names : f \in [D -> Seq(Chunks)]
  BY DEF Captures
<1>2. D \cup {n} \in SUBSET Names /\ DOMAIN f = D
  BY <1>1
<1>3. g \in [D \cup {n} -> Seq(Chunks)]
  <2> HIDE DEF f
  <2> QED BY <1>1, <1>2
<1>4. g \in UNION {[E -> Seq(Chunks)] : E \in SUBSET Names}
  <2> HIDE DEF g
  <2> QED BY <1>2, <1>3
<1> HIDE DEF g
<1>5. [c EXCEPT !.files = g] \in Captures
  BY <1>4 DEF Captures
<1> QED BY <1>5 DEF g

LEMMA PinTyped ==
  ASSUME Typed, PinReference, ~Fail("reference") PROVE Typed'
<1>1. /\ pc = "reference" /\ pc' = "open_reference" /\ reference # Nothing
      /\ seen' = [seen EXCEPT !.reference = State(reference)]
      /\ UNCHANGED <<world, round, todo, handle, captured, own, done>>
  BY DEF PinReference, Step
<1>2. State(reference) \in Metas /\ Known(State(reference))
  BY <1>1, StateType DEF Typed, WorldOK
<1>4. WorldOK' /\ Ids' = Ids /\ \A m : Known(m)' = Known(m)
  BY <1>1, StillWorld DEF Typed
<1>3. Apart'
  BY <1>1 DEF Typed, Apart, world, Before, Reading
<1>5. PackingOK'
  BY <1>1, <1>2 DEF Typed, PackingOK, Reading, Writing, Ending
<1>6. AllKnown'
  BY <1>1, <1>2, <1>4 DEF Typed, PackingOK, AllKnown, world, Pinned, Sealing
<1>7. HandleOK'
  BY <1>1 DEF HandleOK
<1> QED BY <1>3, <1>4, <1>5, <1>6, <1>7 DEF Typed

\* A file is opened: nothing of it has been read.
LEMMA OpenTyped ==
  ASSUME Typed, NEW i \in Ids, Places, pc' \in {"read_reference", "read"},
         handle' = [state |-> State(i), body |-> <<>>],
         UNCHANGED <<world, round, todo, seen, captured, own, done>>
  PROVE  Typed'
<1>1. State(i) \in Metas /\ Known(State(i))
  BY StateType DEF Typed
<1>2. WorldOK' /\ Ids' = Ids /\ Apart' /\ \A m : Known(m)' = Known(m)
  BY Still
<1>3. handle' \in [state : Metas, body : Seq(Chunks)] /\ handle'.state = State(i) /\ handle'.body = <<>>
  BY <1>1
<1>4. PackingOK'
  BY <1>3 DEF Typed, PackingOK, Places
<1>5. AllKnown'
  BY <1>1, <1>2, <1>3 DEF Typed, AllKnown, world, Pinned, Sealing, Places
<1>7. HandleOK'
  BY <1>1, <1>2, <1>3 DEF HandleOK, State, world, Metas
<1> QED BY <1>2, <1>4, <1>5, <1>7 DEF Typed

LEMMA ReadTyped ==
  ASSUME Typed, NEW at \in {"read_reference", "read"}, ReadChunk(at)
  PROVE  Typed'
<1>1. /\ pc = at /\ pc' = at /\ Len(handle.body) < handle.state.size
      /\ handle' = [handle EXCEPT !.body = Append(@, disk[handle.state.id].body[Len(@) + 1])]
      /\ UNCHANGED <<world, round, todo, seen, captured, own, done>>
  BY DEF ReadChunk
<1> DEFINE i == handle.state.id
           k == Len(handle.body) + 1
           c == disk[i].body[k]
<1>2. /\ handle \in [state : Metas, body : Seq(Chunks)] /\ Known(handle.state)
      /\ handle.state.size = Len(disk[i].body)
      /\ State(i) = handle.state => \A j \in 1..Len(handle.body) : handle.body[j] = disk[i].body[j]
  BY <1>1 DEF Typed, HandleOK
<1>3. own.id = Nothing /\ Nothing \notin Ids
  BY <1>1, PackagingAssumption DEF Typed, Apart, Before, Reading, Ids, WorldOK
<1>4. i \in Ids /\ disk[i].body \in Seq(Chunks)
  BY <1>2, <1>3 DEF Known, Typed, WorldOK
<1>5. handle.body \in Seq(Chunks) /\ Len(handle.body) \in Nat /\ handle.state.size \in Nat
  BY <1>2 DEF Metas
<1>6. k \in 1..Len(disk[i].body)
  BY <1>1, <1>2, <1>5
<1>7. c \in Chunks
  <2> HIDE DEF i, k
  <2> QED BY <1>4, <1>6, ElementOfSeq
<1>8. /\ handle'.state = handle.state /\ handle'.body = Append(handle.body, c)
      /\ handle' = [handle EXCEPT !.body = Append(handle.body, c)]
  BY <1>1, <1>2
<1> HIDE DEF c, k, i
<1>9. /\ Append(handle.body, c) \in Seq(Chunks) /\ Len(Append(handle.body, c)) = k
      /\ Append(handle.body, c)[k] = c
      /\ \A j \in 1..Len(handle.body) : Append(handle.body, c)[j] = handle.body[j]
  BY <1>5, <1>7, AppendProperties DEF k
<1>10. handle' \in [state : Metas, body : Seq(Chunks)]
  BY <1>2, <1>8, <1>9
<1>11. Places
  BY <1>1 DEF Typed, PackingOK, Places, Before, Pinned, Reading, Writing, Ending
<1>12. WorldOK' /\ Ids' = Ids /\ Apart' /\ \A m : Known(m)' = Known(m)
  BY <1>1, <1>11, Still
<1>13. PackingOK'
  BY <1>1, <1>10 DEF Typed, PackingOK
<1>14. AllKnown'
  BY <1>1, <1>12 DEF Typed, AllKnown, world, Pinned, Sealing
<1>15. ASSUME State(i) = handle.state, NEW j \in 1..k
       PROVE  Append(handle.body, c)[j] = disk[i].body[j]
  <2>1. CASE j = k
    BY <2>1, <1>9 DEF c
  <2>2. CASE j # k
    <3>1. j \in 1..Len(handle.body)
      BY <2>2, <1>5 DEF k
    <3> QED BY <3>1, <1>9, <1>2, <1>15 DEF i
  <2> QED BY <2>1, <2>2
<1>16. disk' = disk /\ k <= handle.state.size
  BY <1>1, <1>2, <1>5, <1>6 DEF world, k
<1>17. Known(handle.state)' /\ State(handle.state.id)' = State(i)
  BY <1>2, <1>8, <1>12, <1>16 DEF Known, State, i
<1>18. HandleOK'
  BY <1>2, <1>8, <1>9, <1>10, <1>15, <1>16, <1>17 DEF HandleOK, i
<1> QED BY <1>12, <1>13, <1>14, <1>18 DEF Typed

LEMMA OpenReferenceTyped ==
  ASSUME Typed, OpenReference, ~Fail("open_reference") PROVE Typed'
<1>1. reference \in Ids /\ pc = "open_reference" /\ pc' = "read_reference"
      /\ handle' = [state |-> State(reference), body |-> <<>>]
      /\ UNCHANGED <<world, round, todo, seen, captured, own, done>>
  BY DEF OpenReference, SameFile, Typed, WorldOK
<1>2. Places
  BY <1>1 DEF Typed, PackingOK, Places, Before, Pinned, Reading, Writing, Ending
<1> QED BY <1>1, <1>2, OpenTyped

LEMMA SmallestTodo ==
  ASSUME Typed, todo # {} PROVE Min(todo) \in todo /\ Min(todo) \in Names
BY SmallestIsIn, PackagingAssumption DEF Typed, PackingOK

LEMMA OpenSourceTyped ==
  ASSUME Typed, OpenSource, ~Fail("open") PROVE Typed'
<1> DEFINE n == Min(todo)
<1>1. /\ SameState(seen.entries[n], sources[n]) /\ pc = "open" /\ pc' = "read" /\ todo # {}
      /\ handle' = [state |-> State(sources[n]), body |-> <<>>]
      /\ UNCHANGED <<world, round, todo, seen, captured, own, done>>
  BY DEF OpenSource, Step
<1>2. sources[n] \in Ids
  BY <1>1, SmallestTodo DEF SameState, Typed, WorldOK
<1>3. Places
  BY <1>1 DEF Typed, PackingOK, Places, Before, Pinned, Reading, Writing, Ending
<1> QED BY <1>1, <1>2, <1>3, OpenTyped

LEMMA CloseReferenceTyped ==
  ASSUME Typed, CloseReference, ~Fail("read_reference") PROVE Typed'
<1>1. /\ pc = "read_reference" /\ pc' = "metadata"
      /\ captured' = [captured EXCEPT !.binding = handle.body] /\ handle' = Nothing
      /\ UNCHANGED <<world, round, todo, seen, own, done>>
  BY DEF CloseReference, Step
<1>2. captured' \in Captures
  BY <1>1 DEF Typed, HandleOK, PackingOK, Captures
<1>3. Places
  BY <1>1 DEF Typed, PackingOK, Places, Before, Pinned, Reading, Writing, Ending
<1>4. WorldOK' /\ Ids' = Ids /\ Apart' /\ \A m : Known(m)' = Known(m)
  BY <1>1, <1>3, Still
<1>5. PackingOK'
  BY <1>1, <1>2, <1>3 DEF Typed, PackingOK, Places
<1>6. AllKnown'
  BY <1>1, <1>4 DEF Typed, AllKnown, world, Pinned, Sealing, Ending
<1>7. HandleOK'
  BY <1>1 DEF HandleOK
<1> QED BY <1>4, <1>5, <1>6, <1>7 DEF Typed

LEMMA CloseSourceTyped ==
  ASSUME Typed, CloseSource, todo # {}, ~Fail("read") PROVE Typed'
<1> DEFINE n == Min(todo)
<1>1. /\ pc = "read" /\ pc' = "open"
      /\ captured' = [captured EXCEPT !.files =
            [k \in DOMAIN @ \cup {n} |-> IF k = n THEN handle.body ELSE @[k]]]
      /\ todo' = todo \ {n} /\ handle' = Nothing
      /\ UNCHANGED <<world, round, seen, own, done>>
  BY DEF CloseSource, Step
<1>2. captured' \in Captures
  <2>1. handle.body \in Seq(Chunks) /\ captured \in Captures /\ n \in Names
    BY <1>1, SmallestTodo DEF Typed, HandleOK, PackingOK
  <2> HIDE DEF n
  <2> QED BY <1>1, <2>1, CaptureExtends
<1>3. Places
  BY <1>1 DEF Typed, PackingOK, Places, Before, Pinned, Reading, Writing, Ending
<1>4. WorldOK' /\ Ids' = Ids /\ Apart' /\ \A m : Known(m)' = Known(m)
  BY <1>1, <1>3, Still
<1>5. PackingOK'
  BY <1>1, <1>2, <1>3 DEF Typed, PackingOK, Places
<1>6. AllKnown'
  BY <1>1, <1>4 DEF Typed, AllKnown, world, Pinned, Sealing, Ending
<1>7. HandleOK'
  BY <1>1 DEF HandleOK
<1> QED BY <1>4, <1>5, <1>6, <1>7 DEF Typed

LEMMA ListTyped ==
  ASSUME Typed, List PROVE Typed'
<1>1. /\ pc = "list" /\ pc' = "scan" /\ todo' = Present
      /\ seen' = [seen EXCEPT !.now = rootTime, !.again = None]
      /\ UNCHANGED <<world, round, handle, captured, own, done>>
  BY DEF List, Step
<1>2. None \in Scans /\ DOMAIN None = {}
  <2>1. None \in [{} -> Metas] /\ {} \in SUBSET Names
    BY DEF None
  <2> QED BY <2>1 DEF Scans
<1>3. Places
  BY <1>1 DEF Typed, PackingOK, Places, Before, Pinned, Reading, Writing, Ending
<1>4. WorldOK' /\ Ids' = Ids /\ Apart' /\ \A m : Known(m)' = Known(m)
  BY <1>1, <1>3, Still
<1>5. seen' \in [reference : Metas \cup {Nothing}, root : Nat \cup {Nothing},
                 now : Nat \cup {Nothing}, entries : Scans, again : Scans]
  <2> HIDE DEF None
  <2> QED BY <1>1, <1>2 DEF Typed, PackingOK, WorldOK
<1>6. PackingOK'
  BY <1>1, <1>3, <1>5 DEF Typed, PackingOK, Places, Present
<1>7. AllKnown'
  <2>1. /\ seen'.again = None /\ seen'.now = rootTime /\ seen'.entries = seen.entries
        /\ seen'.reference = seen.reference /\ seen'.root = seen.root
    BY <1>1 DEF Typed, PackingOK
  <2> QED BY <1>1, <1>2, <1>4, <2>1 DEF Typed, AllKnown, world, Pinned, Sealing, Ending, WorldOK
<1>8. HandleOK'
  BY <1>1 DEF HandleOK
<1> QED BY <1>4, <1>6, <1>7, <1>8 DEF Typed

LEMMA ScanTyped ==
  ASSUME Typed, Scan, ~Fail("scan") PROVE Typed'
<1> DEFINE n == Min(todo)
           more == [k \in DOMAIN seen.again \cup {n} |->
                      IF k = n THEN State(sources[n]) ELSE seen.again[k]]
<1>1. /\ pc = "scan" /\ pc' = "scan" /\ todo # {} /\ todo' = todo \ {n}
      /\ Acceptable(n) /\ seen' = [seen EXCEPT !.again = more]
      /\ UNCHANGED <<world, round, handle, captured, own, done>>
  BY DEF Scan, Step
<1>2. n \in Names /\ sources[n] \in Ids
  BY <1>1, SmallestTodo DEF Acceptable, Typed, WorldOK
<1>3. State(sources[n]) \in Metas /\ Known(State(sources[n]))
  BY <1>2, StateType DEF Typed
<1>4. /\ more \in Scans /\ \A k \in DOMAIN more : Known(more[k])
  <2>1. more \in Scans
    <3> HIDE DEF n
    <3> QED BY <1>2, <1>3, ScanExtends DEF Typed, PackingOK
  <2>2. DOMAIN more = DOMAIN seen.again \cup {n}
    OBVIOUS
  <2>3. ASSUME NEW k \in DOMAIN more PROVE Known(more[k])
    <3> HIDE DEF n
    <3> QED BY <2>3, <1>3 DEF Typed, AllKnown
  <2> QED BY <2>1, <2>3
<1>5. Places
  BY <1>1 DEF Typed, PackingOK, Places, Before, Pinned, Reading, Writing, Ending
<1>6. WorldOK' /\ Ids' = Ids /\ Apart' /\ \A m : Known(m)' = Known(m)
  BY <1>1, <1>5, Still
<1> HIDE DEF more
<1>7. PackingOK'
  BY <1>1, <1>4, <1>5 DEF Typed, PackingOK, Places
<1>8. AllKnown'
  <2>1. /\ seen'.again = more /\ seen'.now = seen.now /\ seen'.entries = seen.entries
        /\ seen'.reference = seen.reference /\ seen'.root = seen.root
    BY <1>1 DEF Typed, PackingOK
  <2> QED BY <1>1, <1>4, <1>6, <2>1 DEF Typed, AllKnown, world, Pinned, Sealing, Ending
<1>9. HandleOK'
  BY <1>1 DEF HandleOK
<1> QED BY <1>6, <1>7, <1>8, <1>9 DEF Typed

LEMMA InventoriedTyped ==
  ASSUME Typed, Inventoried, ~Fail("scan") PROVE Typed'
<1>1. /\ pc = "scan" /\ pc' = "open" /\ round = 1 /\ todo' = DOMAIN seen.again
      /\ seen' = [seen EXCEPT !.root = seen.now, !.entries = seen.again]
      /\ UNCHANGED <<world, round, handle, captured, own, done>>
  BY DEF Inventoried, Step
<1>2. DOMAIN seen.again \in SUBSET Names
  BY DEF Typed, PackingOK, Scans
<1>3. Places
  BY <1>1 DEF Typed, PackingOK, Places, Before, Pinned, Reading, Writing, Ending
<1>4. WorldOK' /\ Ids' = Ids /\ Apart' /\ \A m : Known(m)' = Known(m)
  BY <1>1, <1>3, Still
<1>5. PackingOK'
  BY <1>1, <1>2, <1>3 DEF Typed, PackingOK, Places
<1>6. AllKnown'
  <2>1. /\ seen'.again = seen.again /\ seen'.now = seen.now /\ seen'.entries = seen.again
        /\ seen'.reference = seen.reference /\ seen'.root = seen.now
    BY <1>1 DEF Typed, PackingOK
  <2> QED BY <1>1, <1>4, <2>1 DEF Typed, AllKnown, world, Pinned, Sealing, Ending
<1>7. HandleOK'
  BY <1>1 DEF HandleOK
<1> QED BY <1>4, <1>5, <1>6, <1>7 DEF Typed

LEMMA HoldTyped ==
  ASSUME Typed, Hold \/ (VerifyHash /\ ~Fail("verify")) PROVE Typed'
<1>1. /\ \/ pc = "hold" /\ pc' = "write"
         \/ pc = "verify" /\ pc' = "publish"
      /\ UNCHANGED <<world, round, todo, handle, seen, captured, done>>
  BY DEF Hold, VerifyHash, Step
<1>2. own.id \in Ids
  BY <1>1 DEF Typed, Apart, Before, Reading, Ending
<1>3. State(own.id) \in Metas /\ Known(State(own.id))
  BY <1>2, StateType DEF Typed
<1>4. /\ own' \in [id : Ids \cup {Nothing}, held : BOOLEAN, verified : Metas \cup {Nothing}]
      /\ own'.id = own.id
      /\ pc' = "publish" => own'.verified = State(own.id)
  <2>1. CASE Hold
    BY <2>1, <1>1 DEF Hold, Step, Typed, WorldOK
  <2>2. CASE VerifyHash /\ ~Fail("verify")
    BY <2>2, <1>3 DEF VerifyHash, Typed, WorldOK
  <2> QED BY <2>1, <2>2
<1>5. disk' = disk /\ Ids' = Ids /\ clock' = clock /\ \A m : Known(m)' = Known(m)
  BY <1>1 DEF world, Ids, Known
<1>6. WorldOK'
  BY <1>1, <1>4, <1>5 DEF Typed, WorldOK, world
<1>7. Apart'
  BY <1>1, <1>4, <1>5 DEF Typed, Apart, world, Before, Reading, Ending
<1>8. PackingOK'
  BY <1>1 DEF Typed, PackingOK, Reading, Writing, Ending
<1>9. AllKnown'
  BY <1>1, <1>3, <1>4, <1>5 DEF Typed, AllKnown, Pinned, Sealing, Ending
<1>10. HandleOK'
  BY <1>1 DEF HandleOK
<1> QED BY <1>6, <1>7, <1>8, <1>9, <1>10 DEF Typed

LEMMA ReserveTyped ==
  ASSUME Typed, Reserve, ~Fail("reserve") PROVE Typed'
<1> DEFINE id == Len(disk) + 1
           d == Inode(<<>>, clock)
<1>1. /\ pc = "reserve" /\ pc' = "hold" /\ disk' = Append(disk, d)
      /\ output' = [output EXCEPT !.partial = id] /\ own' = [own EXCEPT !.id = id]
      /\ UNCHANGED <<sources, rootTime, reference, clock, moments, round, todo, handle, seen, captured, done>>
  BY DEF Reserve, Step
<1>2. own.id = Nothing /\ Nothing \notin Ids /\ id \in Nat /\ id \notin Ids /\ id # Nothing
  BY <1>1, PackagingAssumption DEF Typed, Apart, Before, Ids, WorldOK
<1>3. d \in Inodes /\ d.ctime = clock
  <2>1. <<>> \in Bodies
    BY DEF Bodies
  <2> QED BY <2>1, InodeType DEF Typed, WorldOK, Inode
<1> HIDE DEF d
<1>4. /\ disk' \in Seq(Inodes) /\ Len(disk') = id /\ disk'[id] = d
      /\ \A i \in Ids : disk'[i] = disk[i]
  BY <1>1, <1>3, AppendProperties DEF Typed, WorldOK, Ids
<1>5. Ids' = Ids \cup {id}
  BY <1>2, <1>4 DEF Ids, Typed, WorldOK
<1>6. own'.id = id /\ output'.partial = id
  BY <1>1 DEF Typed, WorldOK
<1>7. WorldOK'
  <2>1. \A i \in Ids' : disk'[i].ctime <= clock'
    <3>1. clock' = clock /\ clock \in Nat /\ \A i \in Ids : disk[i].ctime <= clock
      BY <1>1 DEF Typed, WorldOK
    <3> QED BY <3>1, <1>3, <1>4, <1>5
  <2>2. \A i \in Ids' : i # own'.id => disk'[i].body \in Seq(Chunks)
    BY <1>2, <1>4, <1>5, <1>6 DEF Typed, WorldOK
  <2>3. /\ output' \in [partial : Ids' \cup {Nothing}, target : Ids' \cup {Nothing}, moved : BOOLEAN]
        /\ own' \in [id : Ids' \cup {Nothing}, held : BOOLEAN, verified : Metas \cup {Nothing}]
    BY <1>1, <1>5 DEF Typed, WorldOK
  <2>4. sources' \in [Names -> Ids' \cup {Nothing}] /\ reference' \in Ids' \cup {Nothing}
    BY <1>1, <1>5 DEF Typed, WorldOK
  <2> QED BY <1>1, <1>4, <2>1, <2>2, <2>3, <2>4 DEF Typed, WorldOK
<1>8. Apart'
  <2>1. \A n \in Names : sources'[n] = Nothing \/ sources'[n] # id
    BY <1>1, <1>2 DEF Typed, WorldOK
  <2>2. reference' = Nothing \/ reference' # id
    BY <1>1, <1>2 DEF Typed, WorldOK
  <2> QED BY <1>1, <1>5, <1>6, <2>1, <2>2 DEF Apart, Before, Reading
<1>9. PackingOK'
  BY <1>1 DEF Typed, PackingOK, Reading, Writing, Ending
<1>10. AllKnown'
  BY <1>1, <1>5 DEF Typed, AllKnown, Known, Pinned, Sealing, Ending
<1>11. HandleOK'
  BY <1>1 DEF HandleOK
<1> QED BY <1>7, <1>8, <1>9, <1>10, <1>11 DEF Typed

\* The packing changes one inode.
LEMMA OwnTouched ==
  ASSUME Typed, NEW i \in Ids, NEW d \in Inodes, d.ctime = clock,
         i # own.id => d.body \in Seq(Chunks),
         disk' = [disk EXCEPT ![i] = d], pc \in Writing \cup Ending, pc' \in Writing \cup Ending,
         ~Before, ~Before', Sealing' => Sealing, pc' \in Ending \/ pc \notin Ending,
         output' \in [partial : Ids \cup {Nothing}, target : Ids \cup {Nothing}, moved : BOOLEAN],
         output'.partial \in {output.partial, Nothing}, done' \in Ends,
         UNCHANGED <<sources, rootTime, reference, clock, round, todo, handle, seen, captured, own>>
  PROVE  Typed' /\ Ids' = Ids
<1>1. /\ disk' \in Seq(Inodes) /\ Len(disk') = Len(disk)
      /\ disk'[i] = d /\ \A j \in Ids \ {i} : disk'[j] = disk[j]
  BY DiskExcept DEF Typed
<1>2. Ids' = Ids /\ \A m : Known(m)' = Known(m)
  BY <1>1 DEF Ids, Known
<1>3. clock \in Nat
  BY DEF Typed, WorldOK
<1>4. WorldOK'
  <2>1. \A j \in Ids' : disk'[j].ctime <= clock'
    BY <1>1, <1>2, <1>3 DEF Typed, WorldOK
  <2>2. \A j \in Ids' : j # own'.id => disk'[j].body \in Seq(Chunks)
    BY <1>1, <1>2 DEF Typed, WorldOK
  <2> QED BY <1>1, <1>2, <2>1, <2>2 DEF Typed, WorldOK
<1>5. Apart'
  <2>1. \A n \in Names : sources'[n] = Nothing \/ sources'[n] \notin {own'.id, output'.partial}
    BY DEF Typed, Apart
  <2>2. reference' = Nothing \/ reference' \notin {own'.id, output'.partial}
    BY DEF Typed, Apart
  <2> QED BY <1>2, <2>1, <2>2 DEF Typed, Apart
<1>6. PackingOK'
  <2>1. pc' \in Writing => pc \in Writing
    BY DEF Writing, Ending
  <2>2. pc' \notin Reading
    BY DEF Reading, Writing, Ending
  <2> QED BY <2>1, <2>2 DEF Typed, PackingOK, Ends
<1>7. AllKnown'
  <2>1. pc \notin Ending => Pinned
    BY DEF Writing, Ending, Pinned
  <2> QED BY <1>2, <2>1 DEF Typed, AllKnown, Pinned, Sealing
<1>8. HandleOK'
  BY DEF HandleOK, Writing, Ending
<1> QED BY <1>2, <1>4, <1>5, <1>6, <1>7, <1>8 DEF Typed

LEMMA WriteTyped ==
  ASSUME Typed, Write, ~Fail("write") PROVE Typed'
<1>1. /\ pc = "write" /\ pc' = "pin"
      /\ disk' = [disk EXCEPT ![own.id].body = Package, ![own.id].mtime = clock, ![own.id].ctime = clock]
      /\ UNCHANGED <<sources, rootTime, reference, output, clock, moments, round, todo, handle,
                     seen, captured, own, done>>
  BY DEF Write, Step
<1>2. own.id \in Ids /\ disk[own.id] \in Inodes /\ DOMAIN disk = Ids
  BY <1>1, StateType DEF Typed, Apart, Before, Reading, Ending, WorldOK, Ids
<1> DEFINE d1 == [disk[own.id] EXCEPT !.body = Package]
           d2 == [d1 EXCEPT !.mtime = clock]
           d == [d2 EXCEPT !.ctime = clock]
<1>3. Package \in Bodies /\ clock \in Nat
  BY DEF Package, Bodies, Typed, PackingOK, WorldOK
<1>4. d1 \in Inodes
  BY <1>2, <1>3, InodeExcept
<1>5. d2 \in Inodes
  <2> HIDE DEF d1
  <2> QED BY <1>3, <1>4, InodeExcept
<1>6. d \in Inodes /\ d.ctime = clock
  <2> HIDE DEF d1, d2
  <2> QED BY <1>3, <1>5, InodeExcept DEF Inodes
<1>7. disk' = [disk EXCEPT ![own.id] = d]
  BY <1>1, <1>2
<1> HIDE DEF d, d1, d2
<1>8. /\ pc \in Writing \cup Ending /\ pc' \in Writing \cup Ending /\ ~Before /\ ~Before'
      /\ (Sealing' => Sealing) /\ pc \notin Ending
  BY <1>1 DEF Writing, Ending, Before, Reading, Sealing
<1>9. /\ output \in [partial : Ids \cup {Nothing}, target : Ids \cup {Nothing}, moved : BOOLEAN]
      /\ done \in Ends
  BY DoneTypes DEF Typed, WorldOK
<1> QED BY <1>1, <1>2, <1>6, <1>7, <1>8, <1>9, OwnTouched

LEMMA LinkTyped ==
  ASSUME Typed, Link, ~Fail("link") PROVE Typed'
<1>1. /\ pc = "link" /\ pc' = "mark" /\ output' = [output EXCEPT !.target = own.id]
      /\ disk' = [disk EXCEPT ![own.id].links = @ + 1, ![own.id].ctime = clock]
      /\ done' = [done EXCEPT !.linked = TRUE]
      /\ UNCHANGED <<sources, rootTime, reference, clock, moments, round, todo, handle,
                     seen, captured, own>>
  BY DEF Link, Step
<1>2. own.id \in Ids /\ disk[own.id] \in Inodes /\ DOMAIN disk = Ids
  BY <1>1, StateType DEF Typed, Apart, Before, Reading, Ending, WorldOK, Ids
<1> DEFINE d1 == [disk[own.id] EXCEPT !.links = @ + 1]
           d == [d1 EXCEPT !.ctime = clock]
<1>8. clock \in Nat /\ disk[own.id].links \in Int
  BY <1>2 DEF Inodes, Typed, WorldOK
<1>3. d1 \in Inodes
  BY <1>2, <1>8, InodeExcept
<1>4. d \in Inodes /\ d.ctime = clock
  <2> HIDE DEF d1
  <2> QED BY <1>3, <1>8, InodeExcept DEF Inodes
<1>5. disk' = [disk EXCEPT ![own.id] = d]
  BY <1>1, <1>2
<1> HIDE DEF d, d1
<1>6. /\ pc \in Writing \cup Ending /\ pc' \in Writing \cup Ending /\ ~Before /\ ~Before'
      /\ (Sealing' => Sealing) /\ pc \notin Ending
  BY <1>1 DEF Writing, Ending, Before, Reading, Sealing
<1>7. /\ output' \in [partial : Ids \cup {Nothing}, target : Ids \cup {Nothing}, moved : BOOLEAN]
      /\ output'.partial = output.partial /\ done' \in Ends
  BY <1>1, <1>2 DEF Typed, WorldOK, PackingOK, Ends
<1> QED BY <1>1, <1>2, <1>4, <1>5, <1>6, <1>7, OwnTouched

LEMMA UnlinkTyped ==
  ASSUME Typed, Unlink PROVE Typed'
<1>1. /\ pc = "unlink" /\ pc' = "done"
      /\ UNCHANGED <<sources, rootTime, reference, clock, moments, round, todo, handle, seen, captured, own>>
  BY DEF Unlink, Step
<1>2. /\ pc \in Writing \cup Ending /\ pc' \in Writing \cup Ending /\ ~Before /\ ~Before'
      /\ (Sealing' => Sealing) /\ pc' \in Ending
  BY <1>1 DEF Writing, Ending, Before, Reading, Sealing
<1>3. done' \in Ends /\ output' \in [partial : Ids \cup {Nothing}, target : Ids \cup {Nothing}, moved : BOOLEAN]
      /\ output'.partial \in {output.partial, Nothing}
  BY DEF Unlink, Typed, PackingOK, WorldOK, Ends
<1>4. CASE UNCHANGED <<disk, output>>
  <2>1. todo' \in SUBSET Names /\ Places /\ pc' \notin {"read_reference", "read"}
    BY <1>1, <1>2, <1>4 DEF Typed, PackingOK, Places, Ending, Reading, Writing
  <2> QED BY <1>1, <1>2, <1>3, <1>4, <2>1, Quiet DEF world
<1>5. CASE output.partial # Nothing /\ disk' # disk
  <2> DEFINE i == output.partial
             d1 == [disk[i] EXCEPT !.links = @ - 1]
             d == [d1 EXCEPT !.ctime = clock]
  <2>1. i \in Ids /\ disk[i] \in Inodes /\ DOMAIN disk = Ids /\ clock \in Nat
    BY <1>5, StateType DEF Typed, WorldOK, Ids
  <2>2. d1 \in Inodes /\ d1.body = disk[i].body
    BY <2>1, InodeExcept DEF Inodes
  <2>3. d \in Inodes /\ d.ctime = clock /\ d.body = disk[i].body
    <3> HIDE DEF d1
    <3> QED BY <2>1, <2>2, InodeExcept DEF Inodes
  <2>4. disk' = [disk EXCEPT ![i] = d]
    BY <1>5, <2>1 DEF Unlink
  <2>5. i # own.id => d.body \in Seq(Chunks)
    BY <2>1, <2>3 DEF Typed, WorldOK
  <2> HIDE DEF d, d1
  <2> QED BY <1>1, <1>2, <1>3, <2>1, <2>3, <2>4, <2>5, OwnTouched
<1>6. CASE disk' = disk /\ output' # output
  <2>1. WorldOK' /\ Ids' = Ids /\ \A m : Known(m)' = Known(m)
    BY <1>1, <1>3, <1>6 DEF Typed, WorldOK, Ids, Known
  <2>2. Apart'
    BY <1>1, <1>2, <1>3, <2>1 DEF Typed, Apart
  <2>3. PackingOK'
    BY <1>1, <1>2, <1>3 DEF Typed, PackingOK, Ends, Reading, Writing, Ending
  <2>4. AllKnown'
    BY <1>1, <2>1 DEF Typed, AllKnown, Pinned, Sealing, Ending
  <2>5. HandleOK'
    BY <1>1 DEF HandleOK
  <2> QED BY <2>1, <2>2, <2>3, <2>4, <2>5 DEF Typed
<1> QED BY <1>4, <1>5, <1>6 DEF Unlink

LEMMA InitTyped ==
  ASSUME Init PROVE Typed /\ Knowing
<1>1. PICK there \in {S \in SUBSET Names : Entrypoint \in S} :
        LET order == [n \in Names |-> Cardinality({k \in there : k <= n})]
        IN  /\ sources = [n \in Names |-> IF n \in there THEN order[n] + 1 ELSE Nothing]
            /\ \E first \in Chunks :
                 disk = [i \in 1..(Cardinality(there) + 1) |-> Inode(<<first, first>>, 0)]
  BY Zenon DEF Init
<1> DEFINE order == [n \in Names |-> Cardinality({k \in there : k <= n})]
           card == Cardinality(there)
<1>2. PICK first \in Chunks : disk = [i \in 1..(card + 1) |-> Inode(<<first, first>>, 0)]
  BY <1>1
<1>3. IsFiniteSet(there) /\ card \in Nat
  BY PackagingAssumption, FS_Subset, FS_CardinalityType
<1>4. Inode(<<first, first>>, 0) \in Inodes
  BY FreshBody, InodeType
<1>5. disk \in Seq(Inodes) /\ Len(disk) = card + 1 /\ Ids = 1..(card + 1)
  <2> HIDE DEF card
  <2> QED BY <1>2, <1>3, <1>4 DEF Ids
<1>6. \A i \in Ids : disk[i].ctime = 0 /\ disk[i].body \in Seq(Chunks)
  <2> HIDE DEF card
  <2> QED BY <1>2, <1>5, FreshBody DEF Inode
<1>7. \A n \in Names : order[n] \in Nat /\ order[n] <= card
  <2> TAKE n \in Names
  <2>1. order[n] = Cardinality({k \in there : k <= n})
    OBVIOUS
  <2>2. {k \in there : k <= n} \subseteq there
    OBVIOUS
  <2> QED BY <2>1, <2>2, <1>3, FS_Subset, FS_CardinalityType
<1>8. \A n \in Names : order[n] + 1 \in Ids
  <2> HIDE DEF order, card
  <2> QED BY <1>3, <1>5, <1>7
<1>9. sources \in [Names -> Ids \cup {Nothing}]
  <2>1. sources = [n \in Names |-> IF n \in there THEN order[n] + 1 ELSE Nothing]
    BY <1>1
  <2> HIDE DEF order, card
  <2> QED BY <1>8, <2>1
<1> HIDE DEF order, card
<1>10. 1 \in Ids
  BY <1>3, <1>5
<1>11. /\ reference = 1 /\ rootTime = 0 /\ clock = 0 /\ moments = {Now}
       /\ output = [partial |-> Nothing, target |-> Nothing, moved |-> FALSE]
       /\ pc = "reference" /\ round = 1 /\ todo = {} /\ handle = Nothing
       /\ seen = [reference |-> Nothing, root |-> Nothing, now |-> Nothing,
                  entries |-> None, again |-> None]
       /\ captured = [files |-> None, binding |-> Nothing]
       /\ own = [id |-> Nothing, held |-> FALSE, verified |-> Nothing]
       /\ done = [outcome |-> "none", linked |-> FALSE, published |-> FALSE,
                  warned |-> FALSE, interrupted |-> FALSE, looked |-> 0]
  BY DEF Init
<1>12. WorldOK
  BY <1>5, <1>6, <1>9, <1>10, <1>11 DEF WorldOK
<1>13. None \in [{} -> Metas] /\ None \in [{} -> Seq(Chunks)] /\ {} \in SUBSET Names /\ DOMAIN None = {}
  BY DEF None
<1> HIDE DEF None
<1>14. None \in Scans /\ captured \in Captures
  <2>1. None \in Scans
    BY <1>13 DEF Scans
  <2>2. None \in UNION {[D -> Seq(Chunks)] : D \in SUBSET Names}
    BY <1>13
  <2> QED BY <1>11, <2>1, <2>2 DEF Captures
<1>15. PackingOK
  BY <1>11, <1>14 DEF PackingOK, Reading, Writing, Ending
<1>16. Apart
  BY <1>11, <1>10, <1>9, PackagingAssumption DEF Apart, Before, Reading, Ids
<1>17. AllKnown /\ HandleOK
  BY <1>11, <1>13 DEF AllKnown, HandleOK, Pinned, Sealing
<1>18. Knowing
  BY <1>11, <1>13 DEF Knowing, BindingOK, ScanOK, RootOK, FilesOK, Witnessed, Sealed, Sealing, Ending
<1> QED BY <1>12, <1>15, <1>16, <1>17, <1>18 DEF Typed

LEMMA PackingTyped ==
  ASSUME Typed, FilesOK, Packing PROVE Typed'
<1>1. CASE \E from : Fail(from)
  BY <1>1, FailTyped
<1>2. CASE ~(\E from : Fail(from))
  <2>1. CASE QuietSteps
    BY <2>1, <1>2, QuietTyped
  <2>2. CASE CloseSource
    BY <2>2, <1>2, CloseSourceTyped DEF CloseSource, FilesOK
  <2>3. CASE \/ PinReference \/ OpenReference \/ CloseReference \/ List \/ Scan \/ Inventoried
             \/ OpenSource \/ ReadChunk("read_reference") \/ ReadChunk("read")
    BY <2>3, <1>2, PinTyped, OpenReferenceTyped, CloseReferenceTyped, ListTyped, ScanTyped,
       InventoriedTyped, OpenSourceTyped, ReadTyped
  <2>4. CASE Reserve \/ Hold \/ Write \/ VerifyHash \/ Link \/ Unlink
    BY <2>4, <1>2, ReserveTyped, HoldTyped, WriteTyped, LinkTyped, UnlinkTyped
  <2> QED BY <2>1, <2>2, <2>3, <2>4 DEF Packing, QuietSteps
<1> QED BY <1>1, <1>2

-----------------------------------------------------------------------------
(* What has been captured stays what it is known to be, whatever others do. *)

LEMMA EndKnowing ==
  ASSUME pc' \in Ending PROVE Knowing'
BY DEF Ending, Knowing, BindingOK, ScanOK, RootOK, FilesOK, Witnessed, Sealed, Sealing

\* A file of others that looks as it did is the one that was there before.
LEMMA SameFileAsBefore ==
  ASSUME Typed, Aged, NEW m \in Metas, Known(m), NEW i, SameState(m, i)',
         NEW old \in Ids \cup {Nothing}, i = old \/ i \notin Ids
  PROVE  i = old /\ old \in Ids /\ disk'[i] = disk[i] /\ SameState(m, old)
BY SameAsBefore DEF Typed

LEMMA SourceAsBefore ==
  ASSUME Typed, Aged, NEW n \in Names, NEW m \in Metas, Known(m), SameState(m, sources[n])'
  PROVE  /\ sources'[n] = sources[n] /\ disk'[sources[n]] = disk[sources[n]]
         /\ SameState(m, sources[n])
<1> DEFINE old == sources[n]
<1>1. old \in Ids \cup {Nothing}
  BY DEF Typed, WorldOK
<1>2. PICK i : i = sources'[n]
  OBVIOUS
<1>3. SameState(m, i)'
  BY <1>2 DEF SameState, State
<1>4. i = old \/ i \notin Ids
  BY <1>2 DEF Aged, NamesMove
<1> HIDE DEF old
<1>5. i = old /\ disk'[i] = disk[i] /\ SameState(m, old)
  BY <1>1, <1>3, <1>4, SameFileAsBefore
<1> QED BY <1>2, <1>5 DEF old

LEMMA ReferenceAsBefore ==
  ASSUME Typed, Aged, NEW m \in Metas, Known(m), SameState(m, reference)'
  PROVE  /\ reference' = reference /\ disk'[reference] = disk[reference]
         /\ SameState(m, reference)
<1>1. reference \in Ids \cup {Nothing}
  BY DEF Typed, WorldOK
<1>2. PICK i : i = reference'
  OBVIOUS
<1>3. SameState(m, i)'
  BY <1>2 DEF SameState, State
<1>4. i = reference \/ i \notin Ids
  BY <1>2 DEF Aged, NamesMove
<1>5. i = reference /\ disk'[i] = disk[i] /\ SameState(m, reference)
  BY <1>1, <1>3, <1>4, SameFileAsBefore
<1> QED BY <1>2, <1>5

LEMMA EntryTypes ==
  ASSUME Typed
  PROVE  /\ DOMAIN seen.entries \subseteq Names /\ DOMAIN seen.again \subseteq Names
         /\ \A n \in DOMAIN seen.entries : seen.entries[n] \in Metas /\ Known(seen.entries[n])
         /\ DOMAIN captured.files \subseteq Names
         /\ captured.files = [n \in DOMAIN captured.files |-> captured.files[n]]
BY DEF Typed, PackingOK, AllKnown, Scans, Captures

\* Changes of others.
LEMMA AgedKnowing ==
  ASSUME Typed, Knowing, Aged PROVE Knowing'
<1>1. /\ UNCHANGED <<pc, round, todo, handle, seen, captured, own, done>>
      /\ clock' = clock + 1 /\ clock \in Nat /\ moments' = moments \cup {Now'}
  BY DEF Aged, Tick, packing, Typed, WorldOK
<1>2. ASSUME Pinned, SameState(seen.reference, reference)'
      PROVE  reference' = reference /\ disk'[reference] = disk[reference]
             /\ SameState(seen.reference, reference)
  <2>1. PICK m \in Metas : m = seen.reference /\ Known(m)
    BY <1>2 DEF Typed, AllKnown
  <2>2. SameState(m, reference)'
    BY <1>1, <1>2, <2>1 DEF SameState
  <2> QED BY <2>1, <2>2, ReferenceAsBefore
<1>3. ASSUME NEW n \in DOMAIN seen.entries, SameState(seen.entries[n], sources[n])'
      PROVE  /\ sources'[n] = sources[n] /\ disk'[sources[n]] = disk[sources[n]]
             /\ SameState(seen.entries[n], sources[n])
  <2>1. PICK m \in Metas : m = seen.entries[n] /\ Known(m)
    BY EntryTypes
  <2>2. SameState(m, sources[n])'
    BY <1>1, <1>3, <2>1 DEF SameState
  <2>3. n \in Names
    BY EntryTypes
  <2> QED BY <2>1, <2>2, <2>3, SourceAsBefore
<1>4. ASSUME NEW x \in Nat \cup {Nothing}, x # Nothing => x <= clock, rootTime' = x
      PROVE  rootTime = x /\ Present' = Present
  <2>1. rootTime' \in Nat /\ clock' # rootTime'
    BY <1>1, <1>4, PackagingAssumption DEF Aged, NamesMove, Typed, WorldOK
  <2> QED BY <1>4, <2>1 DEF Aged, NamesMove, Present
<1>5. /\ seen.root \in Nat \cup {Nothing} /\ (seen.root # Nothing => seen.root <= clock)
      /\ seen.now \in Nat \cup {Nothing} /\ (seen.now # Nothing => seen.now <= clock)
  BY DEF Typed, PackingOK, AllKnown
<1>6. BindingOK'
  BY <1>1, <1>2 DEF Knowing, BindingOK, Pinned
<1>7. ScanOK'
  BY <1>1, <1>4, <1>5 DEF Knowing, ScanOK
<1>8. RootOK'
  BY <1>1, <1>4, <1>5 DEF Knowing, RootOK
<1>9. FilesOK'
  <2>1. ASSUME pc \in {"open", "read"}, NEW n \in DOMAIN captured.files PROVE FileAgrees(n)'
    <3>1. n \in DOMAIN seen.entries
      BY <2>1 DEF Knowing, FilesOK
    <3>2. FileAgrees(n)
      BY <2>1 DEF Knowing, FilesOK
    <3> QED BY <1>1, <1>3, <3>1, <3>2 DEF FileAgrees
  <2> QED BY <1>1, <2>1 DEF Knowing, FilesOK
<1>10. Witnessed'
  <2>1. ASSUME pc \notin Ending, round = 2 PROVE \E f, b : Between(f, b)'
    <3>1. PICK f, b : Between(f, b)
      BY <2>1 DEF Knowing, Witnessed
    <3>2. rootTime' = seen.root => DOMAIN f = DOMAIN seen.entries
      BY <3>1, <1>4, <1>5 DEF Between
    <3>3. ASSUME NEW n \in DOMAIN seen.entries, SameState(seen.entries[n], sources[n])'
          PROVE  n \in DOMAIN f /\ f[n] = captured.files[n]
      BY <3>1, <3>3, <1>3 DEF Between
    <3>4. SameState(seen.reference, reference)' => b = captured.binding
      <4>1. CASE Pinned
        BY <3>1, <4>1, <1>2 DEF Between
      <4>2. CASE ~Pinned
        BY <4>2, <2>1 DEF Pinned, Typed, PackingOK, Reading
      <4> QED BY <4>1, <4>2
    <3>5. Between(f, b)'
      BY <1>1, <3>1, <3>2, <3>3, <3>4 DEF Between
    <3> QED BY <3>5
  <2>2. ASSUME pc \notin Ending, round = 3 PROVE \E f, b : Found(f, b)'
    <3>1. PICK f, b : Found(f, b)
      BY <2>2 DEF Knowing, Witnessed
    <3>2. Pinned
      BY <2>2 DEF Pinned, Typed, PackingOK, Reading
    <3>3. Found(f, b)'
      BY <1>1, <1>2, <3>1, <3>2 DEF Found
    <3> QED BY <3>3
  <2>3. Now' \in moments'
    BY <1>1
  <2> QED BY <1>1, <2>1, <2>2, <2>3 DEF Witnessed
<1>11. Sealed'
  <2> SUFFICES ASSUME Sealing', SameState(own.verified, own.id)'
               PROVE  disk'[own'.id].body = Package'
    BY DEF Sealed
  <2>1. Sealing
    BY <1>1 DEF Sealing
  <2>2. PICK m \in Metas : m = own.verified /\ Known(m)
    BY <2>1 DEF Typed, AllKnown
  <2>3. PICK i : i = own.id
    OBVIOUS
  <2>4. SameState(m, i)'
    BY <1>1, <2>2, <2>3 DEF SameState, State
  <2>5. i \in Ids /\ disk'[i] = disk[i] /\ SameState(m, i)
    BY <2>2, <2>4, SameAsBefore DEF Typed
  <2> QED BY <1>1, <2>1, <2>2, <2>3, <2>5 DEF Knowing, Sealed, Package
<1> QED BY <1>6, <1>7, <1>8, <1>9, <1>10, <1>11 DEF Knowing

-----------------------------------------------------------------------------
(* The steps of the packing know what they say.                             *)

\* The inputs look the same if only the own file is touched.
LEMMA SameInputs ==
  ASSUME Typed, UNCHANGED <<sources, reference, rootTime, moments>>,
         \A i \in Ids : i # own.id => disk'[i] = disk[i]
  PROVE  /\ Present' = Present /\ Now' = Now
         /\ \A n \in Names : sources[n] # Nothing => disk'[sources[n]] = disk[sources[n]]
         /\ reference # Nothing => disk'[reference] = disk[reference]
         /\ \A m, n : n \in Names => (SameState(m, sources[n])' <=> SameState(m, sources[n]))
         /\ \A m : SameState(m, reference)' <=> SameState(m, reference)
<1>1. \A n \in Names : sources[n] # Nothing => disk'[sources[n]] = disk[sources[n]]
  BY DEF Typed, Apart, WorldOK
<1>2. reference # Nothing => disk'[reference] = disk[reference]
  BY DEF Typed, Apart, WorldOK
<1>3. Present' = Present
  BY DEF Present
<1>4. Now' = Now
  <2>1. \A n \in Present : disk'[sources[n]].body = disk[sources[n]].body
    BY <1>1 DEF Present
  <2>2. [n \in Present |-> disk'[sources[n]].body] = [n \in Present |-> disk[sources[n]].body]
    BY <2>1
  <2>3. (IF reference = Nothing THEN Nothing ELSE disk'[reference].body)
        = (IF reference = Nothing THEN Nothing ELSE disk[reference].body)
    BY <1>2
  <2> QED BY <1>3, <2>2, <2>3 DEF Now
<1>5. ASSUME NEW m, NEW n \in Names
      PROVE  SameState(m, sources[n])' <=> SameState(m, sources[n])
  BY <1>1 DEF SameState, State
<1>6. ASSUME NEW m PROVE SameState(m, reference)' <=> SameState(m, reference)
  BY <1>2 DEF SameState, State
<1> QED BY <1>1, <1>2, <1>3, <1>4, <1>5, <1>6

LEMMA SameInputsStill ==
  ASSUME Typed, UNCHANGED world
  PROVE  /\ Present' = Present /\ Now' = Now /\ moments' = moments /\ rootTime' = rootTime
         /\ disk' = disk /\ sources' = sources /\ reference' = reference
         /\ \A m, n : n \in Names => (SameState(m, sources[n])' <=> SameState(m, sources[n]))
         /\ \A m : SameState(m, reference)' <=> SameState(m, reference)
BY SameInputs DEF world

\* Whoever has read all of a file that is what it was has its bytes.
LEMMA AllRead ==
  ASSUME Typed, pc \in {"read_reference", "read"}, ReadAll,
         NEW i \in Ids, i = handle.state.id, State(i) = handle.state
  PROVE  handle.body = disk[i].body
<1>1. /\ handle.body \in Seq(Chunks) /\ Len(handle.body) = Len(disk[i].body)
      /\ \A k \in 1..Len(handle.body) : handle.body[k] = disk[i].body[k]
  BY DEF Typed, HandleOK, ReadAll
<1>2. own.id = Nothing /\ i # Nothing
  BY PackagingAssumption DEF Typed, Apart, Before, Reading, WorldOK, Ids
<1>3. disk[i].body \in Seq(Chunks)
  BY <1>2 DEF Typed, WorldOK
<1> QED BY <1>1, <1>3, SeqEqual

\* The steps before anything has been scanned.
LEMMA EarlyKnowing ==
  ASSUME Typed, Knowing, UNCHANGED <<world, round, captured>>,
         pc \in {"reference", "open_reference", "read_reference", "metadata", "target"},
         pc' \in {"open_reference", "read_reference", "metadata", "target", "list"},
         BindingOK'
  PROVE  Knowing'
<1>1. round = 1 /\ captured.files = None
  BY DEF Typed, PackingOK, Reading, Knowing, FilesOK
<1>2. ScanOK' /\ RootOK' /\ Sealed'
  BY <1>1 DEF ScanOK, RootOK, Sealed, Sealing
<1>3. FilesOK'
  BY <1>1 DEF FilesOK, None
<1>4. Witnessed'
  <2>1. Now \in moments
    BY DEF Knowing, Witnessed, Ending
  <2> QED BY <1>1, <2>1, SameInputsStill DEF Witnessed
<1> QED BY <1>2, <1>3, <1>4 DEF Knowing

LEMMA ReferenceKnowing ==
  ASSUME Typed, Knowing,
         \/ PinReference \/ OpenReference \/ ReadChunk("read_reference")
         \/ PrepareMetadata \/ ResolveTarget,
         ~(\E from : Fail(from))
  PROVE  Knowing'
<1>1. CASE PinReference \/ OpenReference \/ ReadChunk("read_reference")
  <2>1. /\ UNCHANGED <<world, round, captured>> /\ pc' \in {"open_reference", "read_reference"}
        /\ pc \in {"reference", "open_reference", "read_reference"}
    BY <1>1 DEF PinReference, OpenReference, ReadChunk, Step
  <2>2. BindingOK'
    BY <2>1 DEF BindingOK
  <2> QED BY <2>1, <2>2, EarlyKnowing
<1>2. CASE PrepareMetadata \/ ResolveTarget
  <2>1. /\ UNCHANGED <<world, round, captured, seen>> /\ pc' \in {"target", "list"}
        /\ pc \in {"metadata", "target"}
    BY <1>2 DEF PrepareMetadata, ResolveTarget, Step
  <2>2. BindingOK'
    BY <2>1, SameInputsStill DEF Knowing, BindingOK, Ending
  <2> QED BY <2>1, <2>2, EarlyKnowing
<1> QED BY <1>1, <1>2

LEMMA CloseReferenceKnowing ==
  ASSUME Typed, Knowing, CloseReference, ~(\E from : Fail(from)) PROVE Knowing'
<1>1. /\ pc = "read_reference" /\ pc' = "metadata" /\ ReadAll /\ ReferenceWasStable
      /\ captured' = [captured EXCEPT !.binding = handle.body]
      /\ UNCHANGED <<world, round, todo, seen, own, done>>
  BY DEF CloseReference, Step
<1>2. reference \in Ids /\ reference = handle.state.id /\ State(reference) = handle.state
  BY <1>1 DEF ReferenceWasStable, SameFile, SameState, Typed, WorldOK
<1>3. handle.body = disk[reference].body
  BY <1>1, <1>2, AllRead
<1>4. captured'.binding = disk[reference].body /\ captured'.files = captured.files
  BY <1>1, <1>3 DEF Typed, PackingOK, Captures
<1>5. round = 1 /\ captured.files = None
  BY <1>1 DEF Typed, PackingOK, Reading, Knowing, FilesOK
<1>6. BindingOK'
  BY <1>1, <1>4, SameInputsStill DEF BindingOK
<1>7. ScanOK' /\ RootOK' /\ Sealed'
  BY <1>1, <1>5 DEF ScanOK, RootOK, Sealed, Sealing
<1>8. FilesOK'
  BY <1>1, <1>4, <1>5 DEF FilesOK
<1>9. Witnessed'
  <2>1. Now \in moments
    BY <1>1 DEF Knowing, Witnessed, Ending
  <2> QED BY <1>1, <1>5, <2>1, SameInputsStill DEF Witnessed
<1> QED BY <1>6, <1>7, <1>8, <1>9 DEF Knowing

LEMMA ListKnowing ==
  ASSUME Typed, Knowing, List PROVE Knowing'
<1>1. /\ pc = "list" /\ pc' = "scan" /\ todo' = Present
      /\ seen'.now = rootTime /\ seen'.again = None
      /\ seen'.reference = seen.reference /\ seen'.root = seen.root
      /\ seen'.entries = seen.entries
      /\ UNCHANGED <<world, round, handle, captured, own, done>>
  BY DEF List, Step, Typed, PackingOK
<1>2. BindingOK'
  BY <1>1, SameInputsStill DEF Knowing, BindingOK, Ending
<1>3. ScanOK'
  BY <1>1, SameInputsStill DEF ScanOK, None
<1>4. RootOK'
  BY <1>1, SameInputsStill DEF Knowing, RootOK, Ending
<1>5. FilesOK'
  BY <1>1 DEF Knowing, FilesOK, Ending
<1>6. Witnessed'
  <2>1. ASSUME round = 2 PROVE \E f, b : Between(f, b)'
    <3>1. PICK f, b : Between(f, b)
      BY <1>1, <2>1 DEF Knowing, Witnessed, Ending
    <3>2. DOMAIN None = {} /\ DOMAIN seen.entries \subseteq Names
      BY EntryTypes DEF None
    <3>3. Between(f, b)'
      BY <1>1, <3>1, <3>2, SameInputsStill DEF Between
    <3> QED BY <3>3
  <2>2. ASSUME round = 3 PROVE \E f, b : Found(f, b)'
    <3>1. PICK f, b : Found(f, b)
      BY <1>1, <2>2 DEF Knowing, Witnessed, Ending
    <3>2. Found(f, b)'
      BY <1>1, <3>1, SameInputsStill DEF Found
    <3> QED BY <3>2
  <2>3. Now \in moments
    BY <1>1 DEF Knowing, Witnessed, Ending
  <2> QED BY <1>1, <2>1, <2>2, <2>3, SameInputsStill DEF Witnessed
<1>7. Sealed'
  BY <1>1 DEF Sealed, Sealing
<1> QED BY <1>2, <1>3, <1>4, <1>5, <1>6, <1>7 DEF Knowing

LEMMA ScanKnowing ==
  ASSUME Typed, Knowing, Scan, ~(\E from : Fail(from)) PROVE Knowing'
<1> DEFINE n == Min(todo)
           more == [k \in DOMAIN seen.again \cup {n} |->
                      IF k = n THEN State(sources[n]) ELSE seen.again[k]]
<1>1. /\ pc = "scan" /\ pc' = "scan" /\ todo # {} /\ todo' = todo \ {n} /\ Acceptable(n)
      /\ seen'.again = more /\ seen'.now = seen.now
      /\ seen'.reference = seen.reference /\ seen'.root = seen.root
      /\ seen'.entries = seen.entries
      /\ UNCHANGED <<world, round, handle, captured, own, done>>
  <2>1. seen' = [seen EXCEPT !.again = more]
    BY DEF Scan, Step
  <2>2. /\ pc = "scan" /\ pc' = "scan" /\ todo # {} /\ todo' = todo \ {n} /\ Acceptable(n)
        /\ UNCHANGED <<world, round, handle, captured, own, done>>
    BY DEF Scan, Step
  <2> HIDE DEF more
  <2> QED BY <2>1, <2>2 DEF Typed, PackingOK
<1>2. n \in todo
  BY <1>1, SmallestTodo
<1>3. DOMAIN more = DOMAIN seen.again \cup {n} /\ \A k \in DOMAIN seen.again \ {n} : more[k] = seen.again[k]
  <2> HIDE DEF n
  <2> QED OBVIOUS
<1> HIDE DEF more
<1>4. BindingOK'
  BY <1>1, SameInputsStill DEF Knowing, BindingOK, Ending
<1>5. ScanOK'
  BY <1>1, <1>2, <1>3, SameInputsStill DEF Knowing, ScanOK
<1>6. RootOK'
  BY <1>1, SameInputsStill DEF Knowing, RootOK, Ending
<1>7. FilesOK'
  BY <1>1 DEF Knowing, FilesOK, Ending
<1>8. Witnessed'
  <2>1. ASSUME round = 2 PROVE \E f, b : Between(f, b)'
    <3>1. PICK f, b : Between(f, b)
      BY <1>1, <2>1 DEF Knowing, Witnessed, Ending
    <3>2. ASSUME NEW k \in DOMAIN more \cap DOMAIN seen.entries, more[k] = seen.entries[k]
          PROVE  k \in DOMAIN f /\ f[k] = captured.files[k]
      <4>1. CASE k = n
        <5>1. SameState(seen.entries[k], sources[k])
          BY <1>1, <2>1, <3>2, <4>1 DEF Acceptable
        <5> QED BY <3>1, <3>2, <5>1 DEF Between
      <4>2. CASE k # n
        <5>1. k \in DOMAIN seen.again /\ seen.again[k] = seen.entries[k]
          BY <1>3, <3>2, <4>2
        <5> QED BY <1>1, <3>1, <3>2, <5>1 DEF Between
      <4> QED BY <4>1, <4>2
    <3>3. DOMAIN seen.entries \subseteq Names
      BY EntryTypes
    <3>4. Between(f, b)'
      BY <1>1, <3>1, <3>2, <3>3, SameInputsStill DEF Between
    <3> QED BY <3>4
  <2>2. ASSUME round = 3 PROVE \E f, b : Found(f, b)'
    <3>1. PICK f, b : Found(f, b)
      BY <1>1, <2>2 DEF Knowing, Witnessed, Ending
    <3>2. Found(f, b)'
      BY <1>1, <3>1, SameInputsStill DEF Found
    <3> QED BY <3>2
  <2>3. Now \in moments
    BY <1>1 DEF Knowing, Witnessed, Ending
  <2> QED BY <1>1, <2>1, <2>2, <2>3, SameInputsStill DEF Witnessed
<1>9. Sealed'
  BY <1>1 DEF Sealed, Sealing
<1> QED BY <1>4, <1>5, <1>6, <1>7, <1>8, <1>9 DEF Knowing

LEMMA InventoriedKnowing ==
  ASSUME Typed, Knowing, Inventoried, ~(\E from : Fail(from)) PROVE Knowing'
<1>1. /\ pc = "scan" /\ pc' = "open" /\ round = 1 /\ todo = {} /\ todo' = DOMAIN seen.again
      /\ seen'.root = seen.now /\ seen'.entries = seen.again /\ seen'.reference = seen.reference
      /\ UNCHANGED <<world, round, handle, captured, own, done>>
  BY DEF Inventoried, Step, Typed, PackingOK
<1>2. captured.files = None /\ DOMAIN None = {}
  BY <1>1 DEF Knowing, FilesOK, None
<1>3. BindingOK'
  BY <1>1, SameInputsStill DEF Knowing, BindingOK, Ending
<1>4. ScanOK' /\ Sealed'
  BY <1>1 DEF ScanOK, Sealed, Sealing
<1>5. RootOK'
  BY <1>1, SameInputsStill DEF Knowing, ScanOK, RootOK
<1>6. FilesOK'
  BY <1>1, <1>2 DEF FilesOK
<1>7. Witnessed'
  BY <1>1, SameInputsStill DEF Knowing, Witnessed, Ending
<1> QED BY <1>3, <1>4, <1>5, <1>6, <1>7 DEF Knowing

LEMMA OpenSourceKnowing ==
  ASSUME Typed, Knowing, OpenSource, ~(\E from : Fail(from)) PROVE Knowing'
<1> DEFINE n == Min(todo)
<1>1. /\ pc = "open" /\ pc' = "read" /\ todo # {} /\ SameState(seen.entries[n], sources[n])
      /\ handle' = [state |-> State(sources[n]), body |-> <<>>]
      /\ UNCHANGED <<world, round, todo, seen, captured, own, done>>
  BY DEF OpenSource, Step
<1>2. handle'.state = seen.entries[n]
  BY <1>1 DEF SameState
<1>3. round = 1
  BY <1>1 DEF Typed, PackingOK, Reading
<1>4. BindingOK'
  BY <1>1, SameInputsStill DEF Knowing, BindingOK, Ending
<1>5. ScanOK' /\ Sealed'
  BY <1>1 DEF ScanOK, Sealed, Sealing
<1>6. RootOK'
  BY <1>1, SameInputsStill DEF Knowing, RootOK
<1>7. FilesOK'
  <2>1. ASSUME NEW k \in DOMAIN captured.files PROVE FileAgrees(k)'
    <3>1. FileAgrees(k) /\ k \in Names
      BY <1>1, EntryTypes DEF Knowing, FilesOK
    <3> QED BY <1>1, <3>1, SameInputsStill DEF FileAgrees
  <2> QED BY <1>1, <1>2, <1>3, <2>1 DEF Knowing, FilesOK
<1>8. Witnessed'
  BY <1>1, <1>3, SameInputsStill DEF Knowing, Witnessed, Ending
<1> QED BY <1>4, <1>5, <1>6, <1>7, <1>8 DEF Knowing

LEMMA ReadKnowing ==
  ASSUME Typed, Knowing, ReadChunk("read") PROVE Knowing'
<1>1. /\ pc = "read" /\ pc' = "read"
      /\ UNCHANGED <<world, round, todo, seen, captured, own, done>>
      /\ handle'.state = handle.state
  BY DEF ReadChunk, Typed, HandleOK
<1>3. round = 1
  BY <1>1 DEF Typed, PackingOK, Reading
<1>4. BindingOK'
  BY <1>1, SameInputsStill DEF Knowing, BindingOK, Ending
<1>5. ScanOK' /\ Sealed'
  BY <1>1 DEF ScanOK, Sealed, Sealing
<1>6. RootOK'
  BY <1>1, SameInputsStill DEF Knowing, RootOK
<1>7. FilesOK'
  <2>1. ASSUME NEW k \in DOMAIN captured.files PROVE FileAgrees(k)'
    <3>1. FileAgrees(k) /\ k \in Names
      BY <1>1, EntryTypes DEF Knowing, FilesOK
    <3> QED BY <1>1, <3>1, SameInputsStill DEF FileAgrees
  <2> QED BY <1>1, <1>3, <2>1 DEF Knowing, FilesOK
<1>8. Witnessed'
  BY <1>1, <1>3, SameInputsStill DEF Knowing, Witnessed, Ending
<1> QED BY <1>4, <1>5, <1>6, <1>7, <1>8 DEF Knowing

LEMMA CloseSourceKnowing ==
  ASSUME Typed, Knowing, CloseSource, ~(\E from : Fail(from)) PROVE Knowing'
<1> DEFINE n == Min(todo)
           more == [k \in DOMAIN captured.files \cup {n} |->
                      IF k = n THEN handle.body ELSE captured.files[k]]
<1>1. /\ pc = "read" /\ pc' = "open" /\ ReadAll /\ SourceWasStable(n)
      /\ captured'.files = more /\ captured'.binding = captured.binding
      /\ todo' = todo \ {n}
      /\ UNCHANGED <<world, round, seen, own, done>>
  <2>1. captured' = [captured EXCEPT !.files = more]
    BY DEF CloseSource, Step
  <2>2. /\ pc = "read" /\ pc' = "open" /\ ReadAll /\ SourceWasStable(n) /\ todo' = todo \ {n}
        /\ UNCHANGED <<world, round, seen, own, done>>
    BY DEF CloseSource, Step
  <2> HIDE DEF more
  <2> QED BY <2>1, <2>2 DEF Typed, PackingOK, Captures
<1>2. /\ n \in todo /\ n \in Names /\ todo \subseteq DOMAIN seen.entries
      /\ DOMAIN captured.files = DOMAIN seen.entries \ todo
      /\ handle.state = seen.entries[n] /\ round = 1
  BY <1>1, SmallestTodo DEF Knowing, FilesOK, Typed, PackingOK, Reading
<1>3. DOMAIN more = DOMAIN captured.files \cup {n} /\ more[n] = handle.body
      /\ \A k \in DOMAIN captured.files \ {n} : more[k] = captured.files[k]
  <2> HIDE DEF n
  <2> QED OBVIOUS
<1>4. handle.body = disk[sources[n]].body
  <2>1. sources[n] \in Ids /\ State(sources[n]) = handle.state
    BY <1>1, <1>2 DEF SourceWasStable, SameState, Typed, WorldOK
  <2>2. sources[n] = handle.state.id
    BY <2>1 DEF State
  <2> QED BY <1>1, <2>1, <2>2, AllRead
<1> HIDE DEF more, n
<1>5. BindingOK'
  BY <1>1, SameInputsStill DEF Knowing, BindingOK, Ending
<1>6. ScanOK' /\ Sealed'
  BY <1>1 DEF ScanOK, Sealed, Sealing
<1>7. RootOK'
  BY <1>1, SameInputsStill DEF Knowing, RootOK
<1>8. FilesOK'
  <2>1. ASSUME NEW k \in DOMAIN more PROVE FileAgrees(k)'
    <3>1. CASE k = n
      BY <1>1, <1>3, <1>4, <3>1, SameInputsStill DEF FileAgrees
    <3>2. CASE k # n
      <4>1. FileAgrees(k) /\ k \in Names
        BY <1>1, <1>3, <3>2, EntryTypes DEF Knowing, FilesOK
      <4> QED BY <1>1, <1>3, <3>2, <4>1, SameInputsStill DEF FileAgrees
    <3> QED BY <3>1, <3>2
  <2> QED BY <1>1, <1>2, <1>3, <2>1 DEF FilesOK
<1>9. Witnessed'
  BY <1>1, <1>2, SameInputsStill DEF Knowing, Witnessed, Ending
<1> QED BY <1>5, <1>6, <1>7, <1>8, <1>9 DEF Knowing

\* The moment between the first two looks is now.
LEMMA CapturedKnowing ==
  ASSUME Typed, Knowing, Captured PROVE Knowing'
<1>1. /\ pc = "open" /\ pc' = "list" /\ todo = {} /\ round' = 2
      /\ UNCHANGED <<world, todo, handle, seen, captured, own, done>>
  BY DEF Captured, Step
<1>2. /\ DOMAIN captured.files = DOMAIN seen.entries /\ DOMAIN seen.entries \subseteq Names
      /\ \A n \in DOMAIN captured.files : FileAgrees(n)
  BY <1>1, EntryTypes DEF Knowing, FilesOK
<1>3. BindingOK'
  BY <1>1, SameInputsStill DEF Knowing, BindingOK, Ending
<1>4. ScanOK' /\ Sealed'
  BY <1>1 DEF ScanOK, Sealed, Sealing
<1>5. RootOK'
  BY <1>1, SameInputsStill DEF Knowing, RootOK
<1>6. FilesOK'
  BY <1>1, <1>2 DEF FilesOK
<1>7. Witnessed'
  <2>0. PICK f, b : /\ f = [n \in Present |-> disk[sources[n]].body]
                    /\ b = IF reference = Nothing THEN Nothing ELSE disk[reference].body
    OBVIOUS
  <2>1. [files |-> f, binding |-> b] \in moments
    BY <1>1, <2>0 DEF Knowing, Witnessed, Ending, Now
  <2>2. DOMAIN f = Present /\ f = [n \in DOMAIN f |-> f[n]]
    BY <2>0
  <2>3. rootTime = seen.root => DOMAIN f = DOMAIN seen.entries
    BY <1>1, <2>2 DEF Knowing, RootOK
  <2>4. ASSUME NEW n \in DOMAIN seen.entries, SameState(seen.entries[n], sources[n])
        PROVE  n \in DOMAIN f /\ f[n] = captured.files[n]
    BY <1>2, <2>0, <2>4 DEF Present, SameState, FileAgrees
  <2>5. SameState(seen.reference, reference) => b = captured.binding
    BY <1>1, <2>0 DEF Knowing, BindingOK, SameState, Ending
  <2>6. Between(f, b)'
    BY <1>1, <1>2, <2>1, <2>2, <2>3, <2>4, <2>5, SameInputsStill DEF Between
  <2>7. Now \in moments
    BY <1>1 DEF Knowing, Witnessed, Ending
  <2> QED BY <1>1, <2>6, <2>7, SameInputsStill DEF Witnessed
<1> QED BY <1>3, <1>4, <1>5, <1>6, <1>7 DEF Knowing

\* A step after the second look that leaves the inputs alone.
LEMMA LaterKnowing ==
  ASSUME Typed, Knowing, UNCHANGED <<sources, reference, rootTime, moments, seen, captured>>,
         \A i \in Ids : i # own.id => disk'[i] = disk[i],
         pc \notin Ending, round = 3, round' = 3, pc' \in Writing \cup {"list"},
         pc' \in {"verify", "publish", "link"} =>
           pc \in {"verify", "publish", "link"} \/ SameState(seen.reference, reference),
         Sealed'
  PROVE  Knowing'
<1>1. Pinned /\ pc \notin {"reference", "open_reference", "read_reference"}
  BY DEF Typed, PackingOK, Reading, Pinned
<1>2. pc' \notin {"scan", "open", "read", "reference", "metadata", "target"} \cup Ending
  BY DEF Writing, Ending
<1>3. BindingOK'
  BY <1>1, <1>2, SameInputs DEF Knowing, BindingOK, SameState
<1>4. ScanOK'
  BY <1>2 DEF ScanOK
<1>5. RootOK'
  BY SameInputs DEF Knowing, RootOK
<1>6. FilesOK'
  <2>1. pc' \notin {"open_reference", "read_reference"}
    BY DEF Writing
  <2> QED BY <1>2, <2>1 DEF Knowing, FilesOK
<1>7. Witnessed'
  <2>1. PICK f, b : Found(f, b)
    BY DEF Knowing, Witnessed
  <2>2. Found(f, b)'
    BY <2>1, SameInputs DEF Found
  <2>3. Now \in moments
    BY DEF Knowing, Witnessed
  <2> QED BY <2>2, <2>3, SameInputs DEF Witnessed
<1> QED BY <1>3, <1>4, <1>5, <1>6, <1>7 DEF Knowing

LEMMA RevalidatedKnowing ==
  ASSUME Typed, Knowing, Revalidated, ~(\E from : Fail(from)) PROVE Knowing'
<1>1. /\ pc = "scan" /\ todo = {} /\ round \in {2, 3} /\ round' = 3 /\ NothingChanged
      /\ pc' = IF round = 2 THEN "prepare" ELSE "reference_again"
      /\ UNCHANGED <<world, todo, handle, seen, captured, own, done>>
  BY DEF Revalidated, Step, Typed, PackingOK
<1>2. CASE round = 3
  <2>1. Sealed'
    BY <1>1, <1>2 DEF Sealed, Sealing
  <2> QED BY <1>1, <1>2, <2>1, LaterKnowing DEF world, Ending, Writing
<1>3. CASE round = 2
  <2>1. PICK f, b : Between(f, b)
    BY <1>1, <1>3 DEF Knowing, Witnessed, Ending
  <2>2. DOMAIN captured.files = DOMAIN seen.entries
        /\ captured.files = [n \in DOMAIN captured.files |-> captured.files[n]]
    BY <1>1, <1>3, EntryTypes DEF Knowing, FilesOK, Ending
  <2>3. DOMAIN f = DOMAIN seen.entries /\ f = [n \in DOMAIN f |-> f[n]]
    BY <1>1, <2>1 DEF Between, NothingChanged, RootUnchanged
  <2>4. \A n \in DOMAIN seen.entries : f[n] = captured.files[n]
    BY <1>1, <2>1 DEF Between, NothingChanged
  <2>5. f = captured.files
    BY <2>2, <2>3, <2>4
  <2>6. Found(f, b)'
    BY <1>1, <1>3, <2>1, <2>5, SameInputsStill DEF Found, Between
  <2>7. BindingOK'
    BY <1>1, SameInputsStill DEF Knowing, BindingOK, Ending
  <2>8. RootOK'
    BY <1>1, <1>3, SameInputsStill DEF Knowing, RootOK, Ending
  <2>9. ScanOK' /\ Sealed'
    BY <1>1, <1>3 DEF ScanOK, Sealed, Sealing
  <2>10. FilesOK'
    BY <1>1, <1>3, <2>2 DEF FilesOK
  <2>11. Now \in moments
    BY <1>1 DEF Knowing, Witnessed, Ending
  <2>12. Witnessed'
    BY <1>1, <2>6, <2>11, SameInputsStill DEF Witnessed
  <2> QED BY <2>7, <2>8, <2>9, <2>10, <2>12 DEF Knowing
<1> QED BY <1>1, <1>2, <1>3

LEMMA CheckedKnowing ==
  ASSUME Typed, Knowing,
         PrepareCandidate \/ Pin \/ Sync \/ Validate \/ CheckReference \/ LastLook,
         ~(\E from : Fail(from))
  PROVE  Knowing'
<1>1. /\ UNCHANGED <<world, round, seen, captured, own>>
      /\ pc \in Writing /\ pc' \in Writing \cup {"list"}
      /\ pc' \in {"verify", "publish", "link"} =>
           pc \in {"verify", "publish", "link"} \/ SameState(seen.reference, reference)
      /\ Sealing' => Sealing
  BY DEF PrepareCandidate, Pin, Sync, Validate, CheckReference, LastLook, Checked, Step, Writing, Sealing
<1>2. round = 3 /\ pc \notin Ending
  BY <1>1 DEF Typed, PackingOK, Writing, Ending
<1>3. Sealed'
  BY <1>1 DEF Knowing, Sealed, Sealing, SameState, State, world, Package
<1> QED BY <1>1, <1>2, <1>3, LaterKnowing DEF world

LEMMA FileKnowing ==
  ASSUME Typed, Knowing, Reserve \/ Hold \/ Write \/ VerifyHash \/ Link,
         ~(\E from : Fail(from))
  PROVE  Knowing'
<1>1. /\ UNCHANGED <<sources, reference, rootTime, moments, seen, captured, round>>
      /\ pc \in Writing /\ pc' \in Writing
      /\ pc' \in {"verify", "publish", "link"} => pc \in {"verify", "publish", "link"}
  BY DEF Reserve, Hold, Write, VerifyHash, Link, Step, Writing, world
<1>2. round = 3 /\ pc \notin Ending
  BY <1>1 DEF Typed, PackingOK, Writing, Ending
<1>3. \A i \in Ids : i # own.id => disk'[i] = disk[i]
  <2>1. CASE Reserve
    BY <2>1, AppendProperties DEF Reserve, Ids, Typed, WorldOK
  <2>2. CASE Hold \/ VerifyHash
    BY <2>2 DEF Hold, VerifyHash, world
  <2>3. CASE Write
    <3>1. disk' = [disk EXCEPT ![own.id].body = Package, ![own.id].mtime = clock, ![own.id].ctime = clock]
      BY <2>3 DEF Write
    <3> QED BY <3>1 DEF Ids, Typed, WorldOK
  <2>4. CASE Link
    <3>1. disk' = [disk EXCEPT ![own.id].links = @ + 1, ![own.id].ctime = clock]
      BY <2>4 DEF Link
    <3> QED BY <3>1 DEF Ids, Typed, WorldOK
  <2> QED BY <2>1, <2>2, <2>3, <2>4
<1>4. Sealed'
  <2>1. CASE VerifyHash
    BY <2>1 DEF VerifyHash, Verified, Sealed, Package, world, Typed, WorldOK
  <2>2. CASE ~VerifyHash
    BY <2>2 DEF Reserve, Hold, Write, Link, Step, Sealed, Sealing
  <2> QED BY <2>1, <2>2
<1> QED BY <1>1, <1>2, <1>3, <1>4, LaterKnowing

LEMMA PackingKnowing ==
  ASSUME Typed, Knowing, Packing PROVE Knowing'
<1>1. CASE \E from : Fail(from)
  BY <1>1, FailTyped, EndKnowing
<1>2. CASE ~(\E from : Fail(from))
  <2>1. CASE \/ PinReference \/ OpenReference \/ ReadChunk("read_reference")
             \/ PrepareMetadata \/ ResolveTarget
    BY <2>1, <1>2, ReferenceKnowing
  <2>2. CASE CloseReference \/ List \/ Scan \/ Inventoried
    BY <2>2, <1>2, CloseReferenceKnowing, ListKnowing, ScanKnowing, InventoriedKnowing
  <2>3. CASE OpenSource \/ ReadChunk("read") \/ CloseSource \/ Captured \/ Revalidated
    BY <2>3, <1>2, OpenSourceKnowing, ReadKnowing, CloseSourceKnowing, CapturedKnowing,
       RevalidatedKnowing
  <2>4. CASE PrepareCandidate \/ Pin \/ Sync \/ Validate \/ CheckReference \/ LastLook
    BY <2>4, <1>2, CheckedKnowing
  <2>5. CASE Reserve \/ Hold \/ Write \/ VerifyHash \/ Link
    BY <2>5, <1>2, FileKnowing
  <2>6. CASE Mark \/ Close \/ Look \/ Unlink
    <3>1. pc' \in Ending
      BY <2>6 DEF Mark, Close, Look, Unlink, Step, Ending
    <3> QED BY <3>1, EndKnowing
  <2> QED BY <2>1, <2>2, <2>3, <2>4, <2>5, <2>6 DEF Packing
<1> QED BY <1>1, <1>2

LEMMA StutterKeeps ==
  ASSUME Typed, Knowing, UNCHANGED vars PROVE Typed' /\ Knowing'
<1>1. WorldOK' /\ Ids' = Ids /\ \A m : Known(m)' = Known(m)
  BY StillWorld DEF Typed, vars, packing
<1>2. PackingOK'
  BY DEF Typed, PackingOK, vars, packing
<1>3. Apart'
  BY <1>1 DEF Typed, Apart, Before, vars, world, packing
<1>4. AllKnown'
  BY <1>1 DEF Typed, AllKnown, Pinned, Sealing, vars, world, packing
<1>5. HandleOK'
  BY <1>1 DEF Typed, HandleOK, State, vars, world, packing
<1>6. UNCHANGED <<world, pc, round, todo, handle, seen, captured, own>>
  BY DEF vars, packing
<1>7. BindingOK' /\ ScanOK' /\ RootOK'
  BY <1>6, SameInputsStill DEF Knowing, BindingOK, ScanOK, RootOK
<1>8. FilesOK'
  <2>1. ASSUME pc \in {"open", "read"}, NEW n \in DOMAIN captured.files PROVE FileAgrees(n)'
    <3>1. FileAgrees(n) /\ n \in Names
      BY <2>1, EntryTypes DEF Knowing, FilesOK
    <3> QED BY <1>6, <3>1, SameInputsStill DEF FileAgrees
  <2> QED BY <1>6, <2>1 DEF Knowing, FilesOK
<1>9. Witnessed'
  <2>1. DOMAIN seen.entries \subseteq Names
    BY EntryTypes
  <2>2. ASSUME NEW f, NEW b, Between(f, b) PROVE Between(f, b)'
    BY <1>6, <2>1, <2>2, SameInputsStill DEF Between
  <2>3. ASSUME NEW f, NEW b, Found(f, b) PROVE Found(f, b)'
    BY <1>6, <2>3, SameInputsStill DEF Found
  <2>4. pc \notin Ending /\ round = 2 => \E f, b : Between(f, b)'
    BY <2>2 DEF Knowing, Witnessed
  <2>5. pc \notin Ending /\ round = 3 => \E f, b : Found(f, b)'
    BY <2>3 DEF Knowing, Witnessed
  <2> QED BY <1>6, <2>4, <2>5, SameInputsStill DEF Knowing, Witnessed
<1>10. Sealed'
  BY <1>6 DEF Knowing, Sealed, Sealing, SameState, State, Package, world
<1>11. Knowing'
  BY <1>7, <1>8, <1>9, <1>10 DEF Knowing
<1> QED BY <1>1, <1>2, <1>3, <1>4, <1>5, <1>11 DEF Typed

LEMMA StepKeeps ==
  ASSUME Typed, Knowing, [Next]_vars PROVE Typed' /\ Knowing'
<1>1. CASE Packing
  BY <1>1, PackingTyped, PackingKnowing DEF Knowing
<1>2. CASE Interrupt \/ InterruptCleanup
  BY <1>2, InterruptTyped, EndKnowing
<1>3. CASE Environment
  BY <1>3, AgedTyped, AgedKnowing
<1>4. CASE UNCHANGED vars
  BY <1>4, StutterKeeps
<1> QED BY <1>1, <1>2, <1>3, <1>4 DEF Next

-----------------------------------------------------------------------------
(* Outcomes.                                                                *)

LEMMA InitEnds == ASSUME Init PROVE EndsTrue
BY DEF Init, EndsTrue, Ending

\* An inode of its own stays as old as it was unless the packing touches it, and
\* others only make inodes younger.
LEMMA AgedEnds ==
  ASSUME Typed, EndsTrue, Environment PROVE EndsTrue'
<1>1. Aged
  BY EnvironmentAges DEF Typed
<1>2. /\ UNCHANGED <<pc, own, done>> /\ clock' = clock + 1 /\ clock \in Nat /\ done.looked \in Nat
  BY <1>1 DEF Aged, Tick, packing, Typed, WorldOK, PackingOK
<1>3. done'.looked <= clock'
  BY SMTT(40), <1>2 DEF EndsTrue
<1>4. pc # "done"
  BY DEF Environment, Rewrite, DropSource, PutSource, ReplaceReference, Occupy, RemoveReference,
         Withdraw, MoveDirectory, HardLink, Others
<1>5. ASSUME pc = "unlink" PROVE output'.partial \in {Nothing, own.id} \/ disk'[output'.partial].ctime > done.looked
  <2>1. done.looked < clock'
    BY <1>2 DEF EndsTrue
  <2>2. CASE output'.partial = Nothing
    BY <2>2
  <2>3. CASE output'.partial \in Ids' \ Ids
    BY <1>1, <1>2, <2>1, <2>3 DEF Aged, DiskAges
  <2>4. CASE output'.partial = output.partial /\ output.partial \in Ids
    <3>1. \/ disk'[output.partial] = disk[output.partial]
          \/ disk'[output.partial].ctime = clock'
      BY <1>1, <2>4 DEF Aged, DiskAges
    <3> QED BY <1>2, <1>5, <2>1, <2>4, <3>1 DEF EndsTrue
  <2> QED BY <1>1, <2>2, <2>3, <2>4 DEF Aged, NamesMove, Typed, WorldOK
<1> QED BY <1>2, <1>3, <1>4, <1>5 DEF EndsTrue

\* Steps that leave `done' alone.
LEMMA QuietEnds ==
  ASSUME Typed, EndsTrue, UNCHANGED <<clock, done>>, pc \notin Ending, pc # "mark",
         pc' \notin {"mark"} \cup Ending,
         own'.id # Nothing /\ ~own'.held => pc' = "hold"
  PROVE  EndsTrue'
BY DEF EndsTrue, Ending

LEMMA FailEnds ==
  ASSUME Typed, EndsTrue, NEW from, Fail(from), pc \notin {"hold", "mark"} \cup Ending
  PROVE EndsTrue'
<1>1. /\ pc' = AfterFailure /\ done' = [done EXCEPT !.outcome = "failed"] /\ UNCHANGED <<world, own>>
  BY DEF Fail, Step
<1>2. /\ done'.outcome = "failed" /\ done'.linked = done.linked /\ done'.looked = done.looked
      /\ done'.interrupted = done.interrupted /\ done'.warned = done.warned
  BY <1>1 DEF Typed, PackingOK
<1>3. ~done.linked
  BY DEF EndsTrue
<1>4. own.held \/ own.id = Nothing
  BY DEF EndsTrue, Ending, Typed, WorldOK
<1>5. (pc' = "close" /\ own.held) \/ (pc' = "done" /\ own.id = Nothing)
  BY <1>1, <1>4 DEF AfterFailure, Typed, WorldOK
<1>6. clock' = clock /\ output' = output /\ disk' = disk
  BY <1>1 DEF world
<1> QED BY <1>1, <1>2, <1>3, <1>5, <1>6 DEF EndsTrue, Ending

LEMMA InterruptEnds ==
  ASSUME Typed, EndsTrue, Interrupt PROVE EndsTrue'
<1>1. /\ pc' = AfterFailure /\ done' = Interrupted("interrupted", FALSE) /\ UNCHANGED <<world, own>>
      /\ pc \notin {"done", "close", "look", "unlink"}
  BY DEF Interrupt, Cleaning
<1>2. /\ done'.outcome = "interrupted" /\ done'.linked = done.linked /\ done'.looked = done.looked
      /\ done'.interrupted = TRUE
  BY <1>1 DEF Interrupted, Typed, PackingOK
<1>3. pc' \in {"close", "done"} /\ (pc' = "close" => own.held)
  BY <1>1 DEF AfterFailure
<1>4. clock' = clock /\ output' = output /\ disk' = disk
  BY <1>1 DEF world
<1> QED BY <1>1, <1>2, <1>3, <1>4 DEF EndsTrue, Ending

\* Cleanup runs only for a file that is held.
LEMMA CleanupEnds ==
  ASSUME Typed, EndsTrue, InterruptCleanup PROVE EndsTrue'
<1>1. /\ pc \in {"close", "look", "unlink"} /\ UNCHANGED <<world, own>>
      /\ \/ /\ pc' = (IF pc = "close" THEN "look" ELSE "done")
            /\ done' = Interrupted(done.outcome, TRUE)
         \/ pc' = "done" /\ done' = Interrupted("interrupted", FALSE)
  BY DEF InterruptCleanup, Cleaning
<1>2. /\ done'.outcome \in {done.outcome, "interrupted"} /\ done'.linked = done.linked
      /\ done'.looked = done.looked /\ done'.interrupted = TRUE
  BY <1>1 DEF Interrupted, Typed, PackingOK
<1>3. pc' \in {"look", "done"} /\ (own.held \/ own.id = Nothing)
  BY <1>1 DEF EndsTrue, Typed, WorldOK
<1>4. clock' = clock /\ output' = output /\ disk' = disk
  BY <1>1 DEF world
<1> QED BY <1>1, <1>2, <1>3, <1>4 DEF EndsTrue, Ending

LEMMA LinkEnds ==
  ASSUME Typed, EndsTrue, Link, ~(\E from : Fail(from)) PROVE EndsTrue'
<1>1. /\ pc = "link" /\ pc' = "mark" /\ done' = [done EXCEPT !.linked = TRUE]
      /\ UNCHANGED <<clock, own>>
  BY DEF Link, Step
<1>2. /\ done'.outcome = done.outcome /\ done'.linked = TRUE /\ done'.looked = done.looked
      /\ done'.interrupted = done.interrupted
  BY <1>1 DEF Typed, PackingOK
<1> QED BY <1>1, <1>2 DEF EndsTrue, Ending

LEMMA MarkEnds ==
  ASSUME Typed, EndsTrue, Mark \/ Close \/ Look PROVE EndsTrue'
<1>1. UNCHANGED <<world, own>>
  BY DEF Mark, Close, Look
<1>2. clock' = clock /\ output' = output /\ disk' = disk /\ clock \in Nat
  BY <1>1 DEF world, Typed, WorldOK
<1>3. CASE Mark
  <2>1. /\ pc = "mark" /\ pc' = "close" /\ done'.outcome = "success" /\ done'.linked = done.linked
        /\ done'.looked = done.looked /\ done'.interrupted = done.interrupted
    BY <1>3 DEF Mark, Step, Typed, PackingOK
  <2> QED BY <1>1, <1>2, <2>1 DEF EndsTrue, Ending
<1>4. CASE Close
  <2>1. /\ pc = "close" /\ pc' = "look" /\ done'.outcome = done.outcome /\ done'.linked = done.linked
        /\ done'.looked = done.looked /\ done'.interrupted = done.interrupted
    BY <1>4 DEF Close, Step, Typed, PackingOK
  <2> QED BY <1>1, <1>2, <2>1 DEF EndsTrue, Ending
<1>5. CASE Look
  <2>1. /\ pc = "look" /\ pc' = (IF IsOwn THEN "unlink" ELSE "done")
        /\ done'.outcome = done.outcome /\ done'.linked = done.linked
        /\ done'.looked = clock /\ done'.interrupted = done.interrupted
        /\ done'.warned = (done.warned \/ (~IsOwn /\ output.partial # Nothing))
    BY <1>5 DEF Look, Typed, PackingOK
  <2> QED BY <1>1, <1>2, <2>1 DEF EndsTrue, Ending, IsOwn
<1> QED BY <1>3, <1>4, <1>5

LEMMA UnlinkEnds ==
  ASSUME Typed, EndsTrue, Unlink PROVE EndsTrue'
<1>1. /\ pc = "unlink" /\ pc' = "done" /\ UNCHANGED <<clock, own>>
      /\ \/ done' = done /\ output'.partial = Nothing
         \/ done' = [done EXCEPT !.warned = TRUE]
  BY DEF Unlink, Step, Typed, WorldOK
<1>2. /\ done'.outcome = done.outcome /\ done'.linked = done.linked
      /\ done'.looked = done.looked /\ done'.interrupted = done.interrupted
      /\ done'.warned \/ output'.partial = Nothing
  BY <1>1 DEF Typed, PackingOK
<1> QED BY <1>1, <1>2 DEF EndsTrue, Ending

LEMMA PackingEnds ==
  ASSUME Typed, EndsTrue, Packing PROVE EndsTrue'
<1> DEFINE Reads == \/ PinReference \/ OpenReference \/ ReadChunk("read_reference") \/ CloseReference
                    \/ PrepareMetadata \/ ResolveTarget \/ List \/ Scan \/ Inventoried
                    \/ OpenSource \/ ReadChunk("read") \/ CloseSource \/ Captured \/ Revalidated
           Writes == \/ PrepareCandidate \/ Reserve \/ Write \/ Pin \/ Sync \/ Validate
                     \/ CheckReference \/ VerifyHash \/ LastLook
<1>1. CASE Mark \/ Close \/ Look \/ Unlink
  BY <1>1, MarkEnds, UnlinkEnds
<1>2. CASE Hold
  <2>1. /\ pc = "hold" /\ pc' = "write" /\ UNCHANGED <<clock, done>> /\ own'.held = TRUE
    BY <1>2 DEF Hold, Step, world, Typed, WorldOK
  <2> QED BY <2>1, QuietEnds DEF Ending
<1>3. CASE (Reads \/ Writes \/ Link) /\ \E from : Fail(from)
  <2>1. pc \notin {"hold", "mark"} \cup Ending
    <3>1. CASE Reads
      BY <3>1 DEF PinReference, OpenReference, ReadChunk, CloseReference, PrepareMetadata,
           ResolveTarget, List, Scan, Inventoried, OpenSource, CloseSource, Captured, Revalidated,
           Step, Fail, Ending
    <3>2. CASE Writes \/ Link
      BY <3>2 DEF PrepareCandidate, Reserve, Write, Pin, Sync, Validate, CheckReference, VerifyHash,
           LastLook, Link, Checked, Step, Fail, Ending
    <3> QED BY <3>1, <3>2, <1>3
  <2> HIDE DEF Reads, Writes
  <2> QED BY <1>3, <2>1, FailEnds
<1>4. CASE Link /\ ~\E from : Fail(from)
  BY <1>4, LinkEnds
<1>5. CASE Reads /\ ~\E from : Fail(from)
  <2>1. /\ UNCHANGED <<clock, done, own>> /\ pc \notin {"hold", "mark"} \cup Ending
        /\ pc' \notin {"hold", "mark"} \cup Ending
    BY <1>5 DEF PinReference, OpenReference, ReadChunk, CloseReference, PrepareMetadata,
         ResolveTarget, List, Scan, Inventoried, OpenSource, CloseSource, Captured, Revalidated,
         Step, world, Ending
  <2> QED BY <2>1, QuietEnds DEF EndsTrue, Ending
<1>6. CASE Writes /\ ~\E from : Fail(from)
  <2>1. /\ UNCHANGED <<clock, done>> /\ pc \notin {"hold", "mark"} \cup Ending
        /\ pc' \notin {"mark"} \cup Ending
    BY <1>6 DEF PrepareCandidate, Reserve, Write, Pin, Sync, Validate, CheckReference, VerifyHash,
         LastLook, Checked, Step, world, Ending
  <2>2. \/ pc' = "hold"
        \/ own'.id = own.id /\ own'.held = own.held
    BY <1>6 DEF PrepareCandidate, Reserve, Write, Pin, Sync, Validate, CheckReference, VerifyHash,
         LastLook, Checked, Step, Typed, WorldOK
  <2> HIDE DEF Writes
  <2> QED BY <2>1, <2>2, QuietEnds DEF EndsTrue, Ending
<1> QED BY <1>1, <1>2, <1>3, <1>4, <1>5, <1>6 DEF Packing

LEMMA EndsKept ==
  ASSUME Typed, EndsTrue, [Next]_vars PROVE EndsTrue'
<1>1. CASE UNCHANGED vars
  BY <1>1 DEF EndsTrue, vars, world, packing
<1> QED BY <1>1, PackingEnds, InterruptEnds, CleanupEnds, AgedEnds DEF Next

-----------------------------------------------------------------------------
(* The invariant, and what is promised.                                     *)

PackingInvariant == Typed /\ Knowing /\ EndsTrue

\* In every reachable state the packing has the types it should have, knows of
\* its inputs what it says of them, and its outcome is what has happened.
THEOREM PackingIsSound == Spec => []PackingInvariant
<1>1. Init => PackingInvariant
  BY InitTyped, InitEnds DEF PackingInvariant
<1>2. PackingInvariant /\ [Next]_vars => PackingInvariant'
  BY StepKeeps, EndsKept DEF PackingInvariant
<1> QED BY <1>1, <1>2, PTL DEF Spec

\* What gets its final name is a package of one moment of its inputs, with the
\* bytes that were checked last, however others interfere (pack_output.py).
THEOREM PackagesAreReal == Spec => []PackageIsReal
<1>1. PackingInvariant => PackageIsReal
  <2> SUFFICES ASSUME PackingInvariant, pc = "link"
               PROVE  /\ captured \in moments
                      /\ SameState(own.verified, own.id) => disk[own.id].body = Package
    BY DEF PackageIsReal
  <2>1. round = 3 /\ pc \notin Ending
    BY DEF PackingInvariant, Typed, PackingOK, Writing, Ending
  <2>2. PICK f, b : Found(f, b)
    BY <2>1 DEF PackingInvariant, Knowing, Witnessed
  <2>3. [files |-> captured.files, binding |-> captured.binding] \in moments
    BY <2>2 DEF Found
  <2>4. captured = [files |-> captured.files, binding |-> captured.binding]
    BY DEF PackingInvariant, Typed, PackingOK, Captures
  <2> QED BY <2>3, <2>4 DEF PackingInvariant, Knowing, Sealed, Sealing
<1> QED BY <1>1, PackingIsSound, PTL

\* What `pack' reports at its end is what it did (pack_workflow and cleanup).
THEOREM OutcomesAreTrue == Spec => []OutcomeIsTrue
<1>1. PackingInvariant => OutcomeIsTrue
  BY DEF PackingInvariant, EndsTrue, OutcomeIsTrue
<1> QED BY <1>1, PackingIsSound, PTL

\* No step of the packing touches a file of others, but for one put under the
\* temporary name after the last look at it.
THEOREM ForeignFilesAreKept == Spec => ForeignFilesStay
<1> DEFINE Kept == clock' = clock =>
       /\ output.target # Nothing => output'.target = output.target
       /\ \/ output.partial \in {Nothing, own.id, output'.partial}
          \/ pc = "unlink" /\ disk[output.partial].ctime > done.looked
       /\ \A i \in DOMAIN disk \ {own.id} : disk'[i].body = disk[i].body
<1>1. ASSUME PackingInvariant, [Next]_vars PROVE [Kept]_vars
  <2>1. Typed /\ EndsTrue /\ DOMAIN disk = Ids
    BY <1>1 DEF PackingInvariant, Typed, WorldOK, Ids
  <2>2. CASE UNCHANGED <<disk, output>>
    BY <2>2
  <2>3. CASE Environment
    <3>1. clock' = clock + 1 /\ clock \in Nat
      BY <2>1, <2>3, AgedTyped DEF Aged, Tick, Typed, WorldOK
    <3> QED BY <3>1
  <2>4. CASE Reserve
    <3>1. \/ UNCHANGED <<disk, output>>
          \/ /\ output.partial = Nothing /\ output'.target = output.target
             /\ disk' = Append(disk, Inode(<<>>, clock))
      BY <2>1, <2>4 DEF Reserve, Fail, world, Typed, WorldOK
    <3> QED BY <2>1, <2>2, <3>1, AppendProperties DEF Typed, WorldOK, Ids
  <2>5. CASE Write
    <3>1. \/ UNCHANGED <<disk, output>>
          \/ /\ output' = output
             /\ disk' = [disk EXCEPT ![own.id].body = Package, ![own.id].mtime = clock,
                                     ![own.id].ctime = clock]
      BY <2>5 DEF Write, Fail, world
    <3> QED BY <2>1, <2>2, <3>1
  <2>6. CASE Link
    <3>1. \/ UNCHANGED <<disk, output>>
          \/ /\ output.target = Nothing /\ output'.partial = output.partial
             /\ disk' = [disk EXCEPT ![own.id].links = @ + 1, ![own.id].ctime = clock]
      BY <2>1, <2>6 DEF Link, NameIsFree, Fail, world, Typed, WorldOK
    <3> QED BY <2>1, <2>2, <3>1
  <2>7. CASE Unlink
    <3>1. /\ pc = "unlink" /\ output'.target = output.target
          /\ \/ disk' = disk
             \/ disk' = [disk EXCEPT ![output.partial].links = @ - 1,
                                     ![output.partial].ctime = clock]
      BY <2>1, <2>7 DEF Unlink, Step, Typed, WorldOK
    <3>2. ASSUME NEW i \in Ids PROVE disk'[i].body = disk[i].body
      <4>1. disk[i] \in Inodes
        BY <2>1, StateType DEF Typed
      <4>2. CASE disk' = disk
        BY <4>2
      <4>3. CASE disk' = [disk EXCEPT ![output.partial].links = @ - 1,
                                      ![output.partial].ctime = clock]
        BY <2>1, <4>1, <4>3 DEF Inodes
      <4> QED BY <3>1, <4>2, <4>3
    <3>3. \/ output.partial \in {Nothing, own.id}
          \/ disk[output.partial].ctime > done.looked
      BY <2>1, <3>1 DEF EndsTrue
    <3> QED BY <2>1, <3>1, <3>2, <3>3
  <2>8. CASE \/ \E from : Fail(from)
             \/ Interrupt \/ InterruptCleanup \/ UNCHANGED vars
    BY <2>2, <2>8 DEF Fail, Interrupt, InterruptCleanup, vars, world
  <2>9. CASE /\ Packing /\ ~(Reserve \/ Write \/ Link \/ Unlink)
             /\ ~\E from : Fail(from)
    <3>1. UNCHANGED <<disk, output>>
      BY <2>9 DEF Packing, PinReference, OpenReference, ReadChunk, CloseReference, PrepareMetadata,
           ResolveTarget, List, Scan, Inventoried, OpenSource, CloseSource, Captured, Revalidated,
           PrepareCandidate, Hold, Pin, Sync, Validate, CheckReference, VerifyHash, LastLook,
           Checked, Mark, Close, Look, world
    <3> QED BY <2>2, <3>1
  <2> QED BY <1>1, <2>3, <2>4, <2>5, <2>6, <2>7, <2>8, <2>9 DEF Next
<1>2. PackingInvariant /\ [Next]_vars => [Kept]_vars
  BY <1>1
<1> QED BY <1>2, PackingIsSound, PTL DEF Spec, ForeignFilesStay

=============================================================================
