----------------------------- MODULE BarHistory -----------------------------
(***************************************************************************)
(* What every updater of equity prices promises of a ticker's bars.  A bar *)
(* that is there stays; bars are added next to those that are there; and   *)
(* what is written again is the end of the history, on the basis that the  *)
(* source answers now.                                                     *)
(***************************************************************************)
EXTENDS PriceStore

VARIABLES basis,        \* of what the source answers
          prices        \* the bars of each ticker, each with its basis

historyVars == <<basis, prices>>

HInit ==
  /\ basis = [t \in Ticker |-> 1]
  /\ prices = NoPrices

(* Some tickers pay a dividend: from now on the source answers otherwise.  *)
Pay(paid) ==
  /\ basis' = [t \in Ticker |-> IF t \in paid THEN basis[t] + 1 ELSE basis[t]]
  /\ UNCHANGED prices

(* The end of the history of t is written: from no later than the day      *)
(* after a stored one, to the last stored one or a later one.              *)
EndWritten(t) ==
  \E from, to \in Day :
    /\ Stored(prices, t) # {} => \E d \in Stored(prices, t) : from <= d + 1
    /\ \A d \in Stored(prices, t) : d <= to
    /\ prices'[t] = [d \in Day |-> IF d \in from..to THEN basis[t] ELSE prices[t][d]]

(* One commit: of the tickers that it writes, it writes the ends.          *)
Write ==
  /\ prices' \in Prices
  /\ \A t \in Ticker : prices'[t] = prices[t] \/ EndWritten(t)
  /\ UNCHANGED basis

HNext == Write \/ \E paid \in SUBSET Ticker : Pay(paid)

HSpec == HInit /\ [][HNext]_historyVars
=============================================================================
