----------------------------- MODULE MCFutuSync -----------------------------
(***************************************************************************)
(* Instances of FutuSync for TLC: one ticker, and the batch stream with    *)
(* its sentinel.                                                           *)
(***************************************************************************)
EXTENDS FutuSync, TLC

CONSTANTS a, all, fin, earn, shares, analyst, flow

OneTicker   == {a, all}
AllStreams  == {fin, earn, shares, analyst, flow}
Batches     == {shares}
PerStream   == [s \in Stream |-> IF s = shares THEN {all} ELSE {a}]

(* Financial statements, earnings, the daily snapshots, their extension.   *)
InOrder     == <<{fin}, {earn}, {shares, analyst}, {flow}>>
(* "futu sync" and "futu full --scope daily".                          *)
SyncOnly    == {<<1..4, FALSE>>}
SyncOrFull  == {<<1..4, FALSE>>, <<3..4, TRUE>>}

EveryDay    == [s \in Stream |-> 1]
EveryOther  == [s \in Stream |-> IF s = shares THEN 1 ELSE 2]

OnlyRows    == [s \in Stream |-> {"rows"}]
EachResult  ==
  [s \in Stream |->
     CASE s = fin     -> {"rows", "part"}
       [] s = earn    -> {"rows"}
       [] s = analyst -> {"nothing"}
       [] s = flow    -> {"error"}
       [] OTHER       -> {"rows", "error"}]
=============================================================================
