-------------------------- MODULE MCIndexSnapshot --------------------------
(***************************************************************************)
(* Instances of IndexSnapshot for TLC.                                     *)
(***************************************************************************)
EXTENDS IndexSnapshot, TLC

CONSTANTS r1, r2, sp500, russell, a, b

OneRun    == {r1}
TwoRuns   == {r1, r2}
SeparateTx == {sp500}
BothKinds  == {sp500, russell}
TwoTickers == {a, b}
NoIndex    == {}
AnyList  == {{a}, {b}, {a, b}}
AnyOrAll == [i \in BothKinds |-> IF i = russell THEN {{a, b}} ELSE AnyList]
JustRussell == {russell}
Symmetry   == Permutations(Run) \cup Permutations(Ticker)
=============================================================================
