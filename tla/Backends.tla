------------------------------ MODULE Backends ------------------------------
(***************************************************************************)
(* The same calls made to the two backends of the keystore, side by side:  *)
(* one table, the rows SQLCipher and IndexedDB hold of it, and the outcome *)
(* of the last call on either.  The callers are Connection's methods       *)
(* (save, insert, remove: keystore/src/connection/mod.rs) and OpenMLS's    *)
(* key store trait (store, delete: keystore/src/mls.rs).                   *)
(***************************************************************************)
EXTENDS Keystore

CONSTANTS
    Keys,           \* ids of entities
    Values,         \* serialized entities
    Missing,        \* find_one's None
    CheckedTables,  \* the tables of the run
    MaxRows         \* rows of a table

ASSUME BackendsAssumption ==
    /\ CheckedTables \subseteq Tables
    /\ Keys # {}
    /\ Missing \notin Values
    /\ MaxRows \in Nat

VARIABLES
    table,              \* the table of this behaviour
    sql, wasm,          \* its rows in either backend
    outcome,            \* did the last call succeed in either backend
    sqlLast, wasmLast   \* the last call that did

backendVars == <<table, sql, wasm, outcome, sqlLast, wasmLast>>

NoCall == [call |-> "none", key |-> Missing, val |-> Missing]

\* E2eiAcmeCA, E2eiRefreshToken and ProteusIdentity have one id: their tables
\* have one row.
Singletons == {"e2ei_acme_ca", "e2ei_refresh_token", "proteus_identities"}

KeysOf(t) == IF t \in Singletons THEN {CHOOSE k \in Keys : TRUE} ELSE Keys

\* The tables whose callers save an entity again to change it.  The others
\* append (credentials, signature key pairs, buffered messages) or keep the
\* first entity (enrollments, the ACME CA, the Proteus identity).
KeyedTables ==
    {"mls_keypackages", "mls_hpke_private_keys", "mls_encryption_keypairs",
     "mls_epoch_encryption_keypairs", "mls_psk_bundles", "mls_groups", "mls_pending_groups",
     "e2ei_refresh_token", "e2ei_intermediate_certs", "e2ei_crls", "proteus_prekeys",
     "proteus_sessions"}

\* The entities of OpenMLS that CryptoKeystore stores for it (MlsEntityId);
\* a group's state is refused.
OpenMlsTables ==
    {"mls_signature_keypairs", "mls_keypackages", "mls_hpke_private_keys", "mls_psk_bundles",
     "mls_encryption_keypairs", "mls_epoch_encryption_keypairs"}

BackendsInit ==
    /\ table \in CheckedTables
    /\ sql = << >>
    /\ wasm = << >>
    /\ outcome = [sql |-> TRUE, wasm |-> TRUE]
    /\ sqlLast = NoCall
    /\ wasmLast = NoCall

Apply(call, onSql, onWasm) ==
    /\ sql' = onSql.rows
    /\ wasm' = onWasm.rows
    /\ outcome' = [sql |-> onSql.ok, wasm |-> onWasm.ok]
    /\ sqlLast' = IF onSql.ok THEN call ELSE sqlLast
    /\ wasmLast' = IF onWasm.ok THEN call ELSE wasmLast
    /\ UNCHANGED table

\* Connection::save, Connection::insert, UniqueEntity::replace.
SaveBoth(k, v) ==
    /\ Len(Save(SqlTable[table], sql, k, v).rows) <= MaxRows
    /\ Apply([call |-> "save", key |-> k, val |-> v],
             Save(SqlTable[table], sql, k, v),
             Save(WasmTable[table], wasm, k, v))

\* Connection::remove.
RemoveBoth(k) ==
    Apply([call |-> "remove", key |-> k, val |-> Missing],
          Erase(SqlTable[table], sql, k), Erase(WasmTable[table], wasm, k))

\* OpenMlsKeyStore::store and delete with an empty key: an error and nothing.
StoreEmptyKey ==
    /\ table \in OpenMlsTables
    /\ Apply(NoCall, Outcome(FALSE, sql), Outcome(FALSE, wasm))

DeleteEmptyKey ==
    /\ table \in OpenMlsTables
    /\ outcome' = [sql |-> TRUE, wasm |-> TRUE]
    /\ UNCHANGED <<table, sql, wasm, sqlLast, wasmLast>>

BackendsNext ==
    \/ \E k \in KeysOf(table), v \in Values : SaveBoth(k, v)
    \/ \E k \in KeysOf(table) : RemoveBoth(k)
    \/ StoreEmptyKey
    \/ DeleteEmptyKey

BackendsSpec == BackendsInit /\ [][BackendsNext]_backendVars

-----------------------------------------------------------------------------
(* Properties.                                                             *)

RowType == [id : Keys, val : Values]

\* Rows, outcomes and remembered calls are what the tables and calls declare.
BackendsTypeOK ==
    /\ table \in CheckedTables
    /\ sql \in Seq(RowType)
    /\ wasm \in Seq(RowType)
    /\ outcome \in [sql : BOOLEAN, wasm : BOOLEAN]
    /\ {sqlLast, wasmLast} \subseteq
          [call : {"none", "save", "remove"}, key : Keys \cup {Missing}, val : Values \cup {Missing}]

\* What find_one finds in a table, as a map.
AsMap(rows) ==
    [k \in Keys |-> IF Stored(rows, k) THEN rows[FirstRow(rows, k)].val ELSE Missing]

\* The part of the SQL backend that is meant as a map.
IsKeyed == table \in KeyedTables

Sql == INSTANCE KeyedStore WITH
    kv <- AsMap(IF IsKeyed THEN sql ELSE << >>), last <- IF IsKeyed THEN sqlLast ELSE NoCall

\* The SQL backend of every keyed table is the map its callers take it for: a
\* save that succeeds is what find_one returns from then on, a remove that
\* succeeds leaves nothing for find_one, and a call that fails leaves the
\* table as it was, after every sequence of calls.
SqlIsKeyed == Sql!KeyedSpec

\* On the keyed tables the two backends hold the same entities after the same
\* calls, and the only call they answer differently is the removal of an
\* entity that is not there: an error and a rollback on SQL, nothing on WASM.
BackendsAgree ==
    IsKeyed =>
        /\ AsMap(sql) = AsMap(wasm)
        /\ outcome.sql # outcome.wasm => wasmLast.call = "remove" /\ outcome.wasm

=============================================================================
