----------------------------- MODULE WriteQueue -----------------------------
(***************************************************************************)
(* What the local-first buffer promises: the statements a fetch issues     *)
(* reach the NAS later, each of them, in the order they were issued, and   *)
(* nothing else changes the tables.  The NAS is at any moment the result   *)
(* of a prefix of the statements.                                          *)
(***************************************************************************)
EXTENDS NasTable, Sequences

VARIABLES written,      \* the statements accepted so far, in order
          applied,      \* the positions of written that reached the NAS
          nas           \* the tables on the NAS

queueVars == <<written, applied, nas>>

QInit ==
  /\ written = <<>>
  /\ applied = {}
  /\ nas = EmptyTable

(* A fetch issues a statement; the NAS is not involved.                    *)
Accept(s) ==
  /\ written' = Append(written, s)
  /\ UNCHANGED <<applied, nas>>

(* The oldest statement that has not reached the NAS does.                 *)
Deliver(i) ==
  /\ i \notin applied
  /\ \A j \in 1..(i - 1) : j \in applied
  /\ nas' = Apply(written[i], i, nas)
  /\ applied' = applied \cup {i}
  /\ UNCHANGED written

QNext ==
  \/ \E s \in Stmt : Accept(s)
  \/ \E i \in 1..Len(written) : Deliver(i)

QSpec == QInit /\ [][QNext]_queueVars
=============================================================================
