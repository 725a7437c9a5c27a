----------------------------- MODULE MCCapture -----------------------------
(* A small repository for TLC: one path committed, another absent, untracked or *)
(* staged, and converted by Git once it is tracked, and an ignored directory   *)
(* in which a link may lie.                                                     *)
EXTENDS Capture

CleanBlob == [b \in Blobs |-> IF b = "a2" THEN "a" ELSE b]

Regular(b) == [mode |-> "100644", blob |-> b]
Link == [mode |-> "special", blob |-> "a"]

Entry(b) == [mode |-> "100644", blob |-> b, flag |-> "plain"]
Tree == [p \in Paths |-> IF p = 1 THEN Regular("a") ELSE Nothing]

Start(index, work) ==
  [head |-> Tree, index |-> index, work |-> work, touched |-> {}, sparse |-> {}]

Clear == [p \in Paths |-> IF p = 1 THEN Entry("a") ELSE Nothing]
Both == [Tree EXCEPT ![2] = Regular("a")]

Beginnings ==
  {Start(Clear, [Tree EXCEPT ![3] = Link]),
   Start(Clear, Both),
   Start([Clear EXCEPT ![2] = Entry("a")], Both),
   Start([Clear EXCEPT ![2] = Entry("a2")], [Tree EXCEPT ![2] = Regular("a2")])}

\* A second content that converts to the same matters where Git converts.
UserFiles ==
  [p \in Paths |-> CASE p \in Ignored   -> {Link}
                     [] p \in Converted -> {Regular("a"), Regular("a2"), Regular("b"), Link}
                     [] OTHER           -> {Regular("a"), Regular("b"), Link}]
=============================================================================
