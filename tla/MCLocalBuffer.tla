--------------------------- MODULE MCLocalBuffer ----------------------------
(***************************************************************************)
(* Instances of LocalBuffer for TLC.  The two keys stand for a financial   *)
(* row and the earnings row it is joined with, or for two stocks.          *)
(***************************************************************************)
EXTENDS LocalBuffer, TLC

CONSTANTS k1, k2, p1, p2

Keys == {k1, k2}

St(op, key, src) == [op |-> op, key |-> key, src |-> src]

(* futu: upserts of both rows and the UPDATE ... JOIN between them.        *)
FutuStmts == {St("upsert", k1, k1), St("upsert", k2, k2), St("join", k1, k2)}

(* tushare: INSERT IGNORE and UPDATE of a stock, upsert of another key.    *)
TushareStmts == {St("ignore", k1, k1), St("update", k1, k1), St("upsert", k2, k2)}

Upserts == {St("upsert", k1, k1), St("upsert", k2, k2)}

AllStmts == FutuStmts \cup TushareStmts

RejectedIgnore == {St("ignore", k1, k1)}
RejectedUpsert == {St("upsert", k2, k2)}
None         == {}
OneProc      == {p1}
TwoProcs     == {p1, p2}
ProcSymmetry == Permutations(Proc)
=============================================================================
