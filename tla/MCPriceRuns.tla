---------------------------- MODULE MCPriceRuns -----------------------------
(***************************************************************************)
(* An instance of PriceRuns for TLC.                                       *)
(***************************************************************************)
EXTENDS PriceRuns

CONSTANTS a, b

TwoTickers == {a, b}
APays      == [t \in TwoTickers |-> IF t = a THEN 1 ELSE 0]
=============================================================================
