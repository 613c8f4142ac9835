--------------------------- MODULE MessageBuffer ----------------------------
(***************************************************************************)
(* The keystore's table of messages that arrived too early                 *)
(* (mls_pending_messages), as the rows of one conversation, and the order  *)
(* in which restore_pending_messages replays them.                         *)
(***************************************************************************)
EXTENDS MlsGroup

CONSTANT
  MaxRows      \* bound: rows in a buffer

ASSUME BufferAssumption == MaxRows \in Nat

Row == [n : Nat, msg : Message]

\* Mutant of FreeRows: the rowid of a row is given out again.
ReusedRows(b) == 1..MaxRows

\* The keystore's save of a buffered message.  SQL inserts a row; the WASM
\* store puts the value under the group's id, over the row that is there.  A new row gets the next rowid.
FreeRows(b) == {n \in 1..MaxRows : \A r \in b : r.n < n}

Save(b, m) ==
  IF Overwrite THEN {{[n |-> 1, msg |-> m]}}
  ELSE {b \cup {[n |-> n, msg |-> m]} :
          n \in {k \in FreeRows(b) : \A j \in FreeRows(b) : k <= j}}

\* Application messages first, then proposals, then commits; rows of the same
\* content type in the order they were saved.
Rank(m) == CASE m.kind = "app" -> 1 [] m.kind = "proposal" -> 2 [] OTHER -> 3

IsNext(r, todo) ==
  /\ r \in todo
  /\ \A q \in todo : \/ Rank(r.msg) < Rank(q.msg)
                     \/ Rank(r.msg) = Rank(q.msg) /\ r.n <= q.n

=============================================================================
