--------------------------- MODULE MCDailyCommand ---------------------------
(***************************************************************************)
(* An instance of DailyCommand for TLC: the hours at which the code or an  *)
(* exchange changes something; between two of them nothing does.           *)
(***************************************************************************)
EXTENDS DailyCommand

TurningHours == {0, 5, 16, 21}
(* All markets; one of them; a ticker of it.                               *)
SomeCommands == {1..9, 5..7, 2..3}
=============================================================================
