----------------------------- MODULE KeyedStore -----------------------------
(***************************************************************************)
(* What the callers of the keystore expect of a table: a map from ids to   *)
(* values, a save that overwrites and a delete that removes.  A call that  *)
(* reports success has done so.                                            *)
(***************************************************************************)
CONSTANTS
    Keys,       \* ids of entities
    Values,     \* what can be stored
    Missing     \* no entity with this id

VARIABLES
    kv,         \* the entities
    last        \* the last call that was answered with success

NoCall == [call |-> "none", key |-> Missing, val |-> Missing]

KeyedInit ==
    /\ kv = [k \in Keys |-> Missing]
    /\ last = NoCall

Put(k, v) ==
    /\ kv' = [kv EXCEPT ![k] = v]
    /\ last' = [call |-> "save", key |-> k, val |-> v]

Drop(k) ==
    /\ kv' = [kv EXCEPT ![k] = Missing]
    /\ last' = [call |-> "remove", key |-> k, val |-> Missing]

KeyedNext == \E k \in Keys : Drop(k) \/ \E v \in Values : Put(k, v)

KeyedSpec == KeyedInit /\ [][KeyedNext]_<<kv, last>>

=============================================================================
