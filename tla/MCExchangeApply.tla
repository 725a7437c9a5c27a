-------------------------- MODULE MCExchangeApply --------------------------
(* Small instances of ExchangeApply for TLC.                               *)
EXTENDS ReplayRefinement, TLC

CONSTANTS p1, p2, x1, x2

OneProc == {p1}
TwoProcs == {p1, p2}
OnePatch == {x1}
TwoPatches == {x1, x2}

RankOne == [x \in OnePatch |-> 1]
RankTwo == x1 :> 1 @@ x2 :> 2

Interchangeable == Permutations(TwoProcs)
=============================================================================
