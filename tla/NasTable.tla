------------------------------ MODULE NasTable ------------------------------
(***************************************************************************)
(* The part of the NAS database (MariaDB) that buffered writes can tell    *)
(* apart.  A key stands for the rows one statement batch addresses, its    *)
(* contents for the stamp of the write they came from:                     *)
(*                                                                         *)
(*   val  the write the row's own columns came from, 0 when the row does   *)
(*        not exist;                                                       *)
(*   ann  the write its back-filled column came from (ann_date of a        *)
(*        us_fin_* row, list_date of a stock), 0 while that is NULL.       *)
(*                                                                         *)
(* Four shapes of statement reach the buffer.  An "upsert" is INSERT ...   *)
(* ON DUPLICATE KEY UPDATE; an "ignore" is INSERT IGNORE; an "update" is   *)
(* the UPDATE of stocks.list_date, which touches nothing unless the row    *)
(* exists; a "join" is the UPDATE ... JOIN of the point-in-time back-fill, *)
(* which copies from the row of src and needs both rows.                   *)
(***************************************************************************)
EXTENDS Naturals

CONSTANT Key            \* the keys the writers address

Absent == 0

Stmt == [op : {"upsert", "ignore", "update", "join"}, key : Key, src : Key]

Table == [Key -> [val : Nat, ann : Nat]]

EmptyTable == [k \in Key |-> [val |-> Absent, ann |-> Absent]]

(***************************************************************************)
(* The table t after the statement s, stamped i, has been executed on it.  *)
(***************************************************************************)
Upsert(s, i, t) == [t EXCEPT ![s.key] = [val |-> i, ann |-> @.ann]]

InsertIgnore(s, i, t) ==
  IF t[s.key].val = Absent THEN Upsert(s, i, t) ELSE t

\* Mutation of Update: an UPDATE that accumulates, not idempotent.
MutUpdate(s, i, t) ==
  IF t[s.key].val # Absent THEN [t EXCEPT ![s.key] = [val |-> @.val, ann |-> @.ann + i]]
  ELSE t

Update(s, i, t) ==
  IF t[s.key].val # Absent THEN [t EXCEPT ![s.key] = [val |-> @.val, ann |-> i]]
  ELSE t

UpdateJoin(s, t) ==
  IF t[s.key].val # Absent /\ t[s.src].val # Absent
  THEN [t EXCEPT ![s.key] = [val |-> @.val, ann |-> t[s.src].val]]
  ELSE t

Apply(s, i, t) ==
  CASE s.op = "upsert" -> Upsert(s, i, t)
    [] s.op = "ignore" -> InsertIgnore(s, i, t)
    [] s.op = "update" -> Update(s, i, t)
    [] s.op = "join"   -> UpdateJoin(s, t)

\* Mutation of Touches: the row a join reads is forgotten.
MutTouches(s) == {s.key}

(***************************************************************************)
(* The keys a statement reads or writes, and whether two statements touch  *)
(* none in common.                                                         *)
(***************************************************************************)
Touches(s) == IF s.op = "join" THEN {s.key, s.src} ELSE {s.key}

Independent(s1, s2) == Touches(s1) \cap Touches(s2) = {}
=============================================================================
