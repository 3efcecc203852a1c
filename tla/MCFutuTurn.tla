----------------------------- MODULE MCFutuTurn -----------------------------
(***************************************************************************)
(* An instance of FutuTurn for TLC: a thread that takes turns of every     *)
(* kind and shape, and another one on the same method.                     *)
(***************************************************************************)
EXTENDS FutuTurn, TLC

CONSTANTS t1, t2, slow

TwoThreads == {t1, t2}
OneMethod  == {slow}
Intervals  == [m \in Method |-> 2]
Backoffs   == [a \in 0..RetryCount - 1 |-> 2^a]

Turn(loop, shape, size, unknown) ==
  [loop |-> loop, shape |-> shape, size |-> size, unknown |-> unknown, method |-> slow]

(* Sizes around one and two pages of two; a second table; a third period   *)
(* beyond the recent ones; an unknown ticker in a full and in a short      *)
(* chunk.                                                                  *)
Paged ==
  {Turn("size", "dict", n, {}) : n \in {2, 3}}
  \cup {Turn("size", "list", n, {}) : n \in {1, 2}}
  \cup {Turn("key", "dict", n, {}) : n \in {0, 2, 3}}
  \cup {Turn("key", "list", 3, {})}
  \cup {Turn("tables", "dict", 3, {}), Turn("rating", "dict", 3, {})}
  \cup {Turn("periods", "dict", n, {}) : n \in {1, 3}}
  \cup {Turn("batch", "dict", 3, u) : u \in {{2}, {1, 3}}}

TurnsOf ==
  [t \in Thread |-> IF t = t1 THEN Paged ELSE {Turn("single", "dict", 1, {})}]
=============================================================================
