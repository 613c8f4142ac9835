----------------------------- MODULE GroupStore -----------------------------
(***************************************************************************)
(* The LRU cache in front of the keystore (crypto/src/group_store.rs): a   *)
(* map from ids to values and the ids in the order of their last use,      *)
(* oldest first.  At most Limit entries are kept (HybridMemoryLimiter; the *)
(* limit on memory is left out, it only makes the store smaller).          *)
(***************************************************************************)
EXTENDS Naturals, Sequences

Seqs == INSTANCE SequencesExt

CONSTANTS
    Ids,        \* ids of groups or sessions
    Limit,      \* ITEM_LIMIT, or twice that for Proteus sessions
    Absent      \* stands for "not in the map"

ASSUME StoreAssumption == Limit \in Nat \ {0}

EmptyStore == [val |-> [i \in Ids |-> Absent], order |-> << >>]

Holds(store, id) == store.val[id] # Absent

\* LruMap::remove.
Remove(store, id) ==
    [val   |-> [store.val EXCEPT ![id] = Absent],
     order |-> Seqs!RemoveFirst(store.order, id)]

\* LruMap::get of an id that is there, which makes it the youngest, and a
\* change of the value behind its Arc.
Update(store, id, v) ==
    [val   |-> [store.val EXCEPT ![id] = v],
     order |-> Append(Seqs!RemoveFirst(store.order, id), id)]

\* Without the limit.
InsertUnbounded(store, id, v) == Update(store, id, v)

\* insert: drops the oldest entry when a new one does not fit.
Insert(store, id, v) ==
    IF ~Holds(store, id) /\ Len(store.order) = Limit
    THEN Update(Remove(store, Head(store.order)), id, v)
    ELSE Update(store, id, v)

\* get_fetch: the cached value, or else the one in the keystore.
Lookup(store, rows, id) == IF Holds(store, id) THEN store.val[id] ELSE rows[id]

\* get_fetch also caches what it finds.
Fetch(store, rows, id) ==
    IF Lookup(store, rows, id) = Absent THEN store
    ELSE Insert(store, id, Lookup(store, rows, id))

\* restore_groups, restore_sessions: try_insert of the rows, in the order the
\* keystore returns them, until one does not fit.
Restored(rows, order) ==
    [val   |-> [i \in Ids |-> IF \E n \in 1 .. Len(order) : order[n] = i THEN rows[i] ELSE Absent],
     order |-> order]

\* The orders in which restore may fill the cache.
RestoreOrders(rows) ==
    LET kept == {i \in Ids : rows[i] # Absent}
    IN  {o \in UNION {[1 .. n -> kept] : n \in 0 .. Limit} :
            /\ \A m, n \in 1 .. Len(o) : o[m] = o[n] => m = n
            /\ Len(o) = Limit \/ \A i \in kept : \E n \in 1 .. Len(o) : o[n] = i}

=============================================================================
