--------------------------- MODULE BackendsProofs ---------------------------
(***************************************************************************)
(* Both backends of the keystore implement the map their callers take a    *)
(* table for (module KeyedStore), and on the keyed tables they agree: for  *)
(* any number of ids, values and rows.                                     *)
(*                                                                         *)
(* The argument needs one invariant (KeyedOK): an id has at most one row,  *)
(* in every IndexedDB store and in the SQL tables that are saved to with   *)
(* "SELECT rowid" first, and the two hold the same rows.  Type correctness *)
(* covers the other tables too, where an id may have several rows.         *)
(***************************************************************************)
EXTENDS Backends, KeystoreProofs

-----------------------------------------------------------------------------
(* How the entities of the two backends are saved and deleted.             *)

\* How the entities of keyed tables are saved to and deleted from SQLite.
LEMMA SqlKeyedEntities ==
    ASSUME NEW t \in KeyedTables
    PROVE  /\ SqlTable[t].save \in {"upsert", "replace"}
           /\ SqlTable[t].erase = IF t = "e2ei_refresh_token" THEN "never" ELSE "exact"
BY DEF KeyedTables, SqlTable, SqlKeyPackage, SqlHpkePrivateKey, SqlEncryptionKeyPair,
       SqlEpochEncryptionKeyPair, SqlPskBundle, SqlGroup, SqlPendingGroup, SqlRefreshToken,
       SqlIntermediateCert, SqlCrl, SqlProteusPrekey, SqlProteusSession

\* How entities are saved to and deleted from IndexedDB.
LEMMA WasmEntities ==
    ASSUME NEW t \in Tables
    PROVE  /\ WasmTable[t].save = "put"
           /\ WasmTable[t].erase =
                IF t \in {"e2ei_refresh_token", "e2ei_acme_ca"} THEN "never" ELSE "any"
BY DEF Tables, SqlTable, WasmTable, WasmCredential, WasmSignatureKeyPair, WasmKeyPackage,
       WasmHpkePrivateKey, WasmEncryptionKeyPair, WasmEpochEncryptionKeyPair, WasmPskBundle,
       WasmGroup, WasmPendingGroup, WasmPendingMessage, WasmEnrollment, WasmRefreshToken,
       WasmAcmeCA, WasmIntermediateCert, WasmCrl, WasmProteusIdentity, WasmProteusPrekey,
       WasmProteusSession

\* The keyed tables are tables, and not the one with the trust anchor.
LEMMA KeyedIsTable == KeyedTables \subseteq Tables \ {"e2ei_acme_ca"}
BY DEF KeyedTables, Tables, SqlTable

-----------------------------------------------------------------------------
(* The map a table stands for.                                             *)

\* find_one returns the value of the row that is held.
LEMMA MapOfHeld ==
    ASSUME NEW rows \in Seq(RowType), UniqueIds(rows), NEW r, Holds(rows, r)
    PROVE  r.id \in Keys /\ AsMap(rows)[r.id] = r.val
<1>1. Stored(rows, r.id) /\ rows[FirstRow(rows, r.id)] = r
    BY FindHeld
<1>2. r \in RowType
    BY DEF Holds
<1>3. r.id \in Keys
    BY <1>2 DEF RowType
<1> QED BY <1>1, <1>3 DEF AsMap

\* An id without a row is missing.
LEMMA MapOfMissing ==
    ASSUME NEW rows \in Seq(RowType), NEW k \in Keys, \A r : Holds(rows, r) => r.id # k
    PROVE  AsMap(rows)[k] = Missing
<1>1. ~Stored(rows, k)
    BY DEF Stored, Holds
<1> QED BY <1>1 DEF AsMap

\* Tables that hold the same rows of an id give the same answer for it.
LEMMA SameLookup ==
    ASSUME NEW a \in Seq(RowType), UniqueIds(a), NEW b \in Seq(RowType), UniqueIds(b),
           NEW k \in Keys, \A r : r.id = k => (Holds(a, r) <=> Holds(b, r))
    PROVE  AsMap(a)[k] = AsMap(b)[k]
<1>1. CASE \E r : Holds(a, r) /\ r.id = k
    <2>1. PICK r : Holds(a, r) /\ r.id = k
        BY <1>1
    <2> QED BY <2>1, MapOfHeld
<1>2. CASE ~\E r : Holds(a, r) /\ r.id = k
    BY <1>2, MapOfMissing
<1> QED BY <1>1, <1>2

\* A map is what it gives for each id.
LEMMA MapIsFunction ==
    ASSUME NEW a, NEW f, DOMAIN f = Keys, f = [k \in Keys |-> f[k]],
           \A k \in Keys : AsMap(a)[k] = f[k]
    PROVE  AsMap(a) = f
BY DEF AsMap

\* Saving writes one entry of the map.
LEMMA SaveIsPut ==
    ASSUME NEW rows \in Seq(RowType), UniqueIds(rows), NEW k \in Keys, NEW v \in Values,
           NEW result, SavedAs(RowType, rows, k, v, result)
    PROVE  AsMap(result.rows) = [AsMap(rows) EXCEPT ![k] = v]
<1>1. Row(k, v).id = k /\ Row(k, v).val = v
    BY DEF Row
<1>2. AsMap(result.rows)[k] = v
    BY <1>1, MapOfHeld DEF SavedAs
<1>3. ASSUME NEW j \in Keys, j # k
      PROVE  AsMap(result.rows)[j] = AsMap(rows)[j]
    <2>1. \A r : r.id = j => (Holds(result.rows, r) <=> Holds(rows, r))
        BY <1>1, <1>3 DEF SavedAs
    <2> QED BY <2>1, SameLookup DEF SavedAs
<1> QED BY <1>2, <1>3 DEF AsMap

\* Removing clears one entry of the map.
LEMMA EraseIsDrop ==
    ASSUME NEW rows \in Seq(RowType), UniqueIds(rows), NEW k \in Keys,
           NEW result, ErasedAs(RowType, rows, k, result), result.ok
    PROVE  AsMap(result.rows) = [AsMap(rows) EXCEPT ![k] = Missing]
<1>1. AsMap(result.rows)[k] = Missing
    BY MapOfMissing DEF ErasedAs
<1>2. ASSUME NEW j \in Keys, j # k
      PROVE  AsMap(result.rows)[j] = AsMap(rows)[j]
    <2>1. \A r : r.id = j => (Holds(result.rows, r) <=> Holds(rows, r))
        BY <1>2 DEF ErasedAs
    <2> QED BY <2>1, SameLookup DEF ErasedAs
<1> QED BY <1>1, <1>2 DEF AsMap

-----------------------------------------------------------------------------
(* The invariant.                                                          *)

KeyedOK ==
    /\ table \in Tables
    /\ wasm \in Seq(RowType)
    /\ UniqueIds(wasm)
    /\ IsKeyed => /\ sql \in Seq(RowType)
                  /\ UniqueIds(sql)
                  /\ \A r : Holds(sql, r) <=> Holds(wasm, r)
                  /\ outcome.sql # outcome.wasm => wasmLast.call = "remove" /\ outcome.wasm

\* The ids of a table are ids.
LEMMA KeysOfTable ==
    ASSUME NEW t, NEW k \in KeysOf(t)
    PROVE  k \in Keys
BY BackendsAssumption DEF KeysOf

\* What a save does in both backends.
LEMMA SaveStep ==
    ASSUME KeyedOK, NEW k \in Keys, NEW v \in Values, SaveBoth(k, v)
    PROVE  /\ SavedAs(RowType, wasm, k, v, Save(WasmTable[table], wasm, k, v))
           /\ IsKeyed => SavedAs(RowType, sql, k, v, Save(SqlTable[table], sql, k, v))
<1>1. WasmTable[table].save = "put"
    BY WasmEntities DEF KeyedOK
<1>0. Row(k, v) \in RowType
    BY DEF Row, RowType
<1>2. SavedAs(RowType, wasm, k, v, Save(WasmTable[table], wasm, k, v))
    BY <1>0, <1>1, SaveOverwrites DEF KeyedOK
<1>3. ASSUME IsKeyed
      PROVE  SavedAs(RowType, sql, k, v, Save(SqlTable[table], sql, k, v))
    <2>1. SqlTable[table].save \in {"upsert", "replace"}
        BY <1>3, SqlKeyedEntities DEF IsKeyed
    <2> QED BY <1>0, <1>3, <2>1, SaveOverwrites DEF KeyedOK
<1> QED BY <1>2, <1>3

\* What a remove does in both backends: only an entity that is not there makes
\* them answer differently.
LEMMA RemoveStep ==
    ASSUME KeyedOK, NEW k \in Keys, RemoveBoth(k)
    PROVE  LET onSql == Erase(SqlTable[table], sql, k)
               onWasm == Erase(WasmTable[table], wasm, k)
           IN  /\ ErasedAs(RowType, wasm, k, onWasm)
               /\ IsKeyed => /\ ErasedAs(RowType, sql, k, onSql)
                             /\ onSql.ok => onWasm.ok
                             /\ onWasm.ok /\ ~onSql.ok => ~Stored(sql, k)
<1>1. /\ WasmTable[table].erase \in {"any", "never"}
      /\ IsKeyed /\ table = "e2ei_refresh_token" => WasmTable[table].erase = "never"
      /\ IsKeyed /\ table # "e2ei_refresh_token" => WasmTable[table].erase = "any"
    BY WasmEntities, KeyedIsTable DEF KeyedOK, IsKeyed
<1>2. /\ ErasedAs(RowType, wasm, k, Erase(WasmTable[table], wasm, k))
      /\ WasmTable[table].erase = "any" => Erase(WasmTable[table], wasm, k).ok
      /\ WasmTable[table].erase = "never" => ~Erase(WasmTable[table], wasm, k).ok
    BY <1>1, EraseRemoves DEF KeyedOK
<1>3. ASSUME IsKeyed
      PROVE  /\ ErasedAs(RowType, sql, k, Erase(SqlTable[table], sql, k))
             /\ table = "e2ei_refresh_token" => ~Erase(SqlTable[table], sql, k).ok
             /\ table # "e2ei_refresh_token" =>
                    (Erase(SqlTable[table], sql, k).ok <=> Stored(sql, k))
    <2>1. SqlTable[table].erase = IF table = "e2ei_refresh_token" THEN "never" ELSE "exact"
        BY <1>3, SqlKeyedEntities DEF IsKeyed
    <2> QED BY <1>3, <2>1, EraseRemoves DEF KeyedOK
<1> QED BY <1>1, <1>2, <1>3

\* Empty tables are keyed and the same.
LEMMA KeyedOKInit == BackendsInit => KeyedOK
<1> SUFFICES ASSUME BackendsInit PROVE KeyedOK
    OBVIOUS
<1>1. table \in Tables
    BY BackendsAssumption DEF BackendsInit
<1>2. wasm \in Seq(RowType) /\ UniqueIds(wasm) /\ sql \in Seq(RowType) /\ UniqueIds(sql)
    BY EmptyTable DEF BackendsInit
<1>3. outcome.sql = outcome.wasm /\ sql = wasm
    BY DEF BackendsInit
<1> QED BY <1>1, <1>2, <1>3 DEF KeyedOK

\* Every call keeps both versions of a table keyed and the same.
LEMMA KeyedOKStep == KeyedOK /\ [BackendsNext]_backendVars => KeyedOK'
<1> SUFFICES ASSUME KeyedOK, [BackendsNext]_backendVars PROVE KeyedOK'
    OBVIOUS
<1>1. ASSUME NEW k \in KeysOf(table), NEW v \in Values, SaveBoth(k, v)
      PROVE  KeyedOK'
    <2>1. k \in Keys
        BY KeysOfTable
    <2> DEFINE onSql == Save(SqlTable[table], sql, k, v)
               onWasm == Save(WasmTable[table], wasm, k, v)
    <2>2. SavedAs(RowType, wasm, k, v, onWasm) /\ (IsKeyed => SavedAs(RowType, sql, k, v, onSql))
        BY <1>1, <2>1, SaveStep
    <2>3. /\ sql' = onSql.rows /\ wasm' = onWasm.rows /\ table' = table
          /\ outcome'.sql = onSql.ok /\ outcome'.wasm = onWasm.ok
        BY <1>1 DEF SaveBoth, Apply
    <2> HIDE DEF onSql, onWasm
    <2>4. IsKeyed' = IsKeyed
        BY <2>3 DEF IsKeyed
    <2>5. IsKeyed => \A r : Holds(sql', r) <=> Holds(wasm', r)
        BY <2>2, <2>3 DEF KeyedOK, SavedAs
    <2>6. IsKeyed => outcome'.sql = outcome'.wasm
        BY <2>2, <2>3 DEF SavedAs
    <2> QED BY <2>2, <2>3, <2>4, <2>5, <2>6 DEF KeyedOK, SavedAs
<1>2. ASSUME NEW k \in KeysOf(table), RemoveBoth(k)
      PROVE  KeyedOK'
    <2>1. k \in Keys
        BY KeysOfTable
    <2> DEFINE onSql == Erase(SqlTable[table], sql, k)
               onWasm == Erase(WasmTable[table], wasm, k)
    <2>2. /\ ErasedAs(RowType, wasm, k, onWasm)
          /\ IsKeyed => /\ ErasedAs(RowType, sql, k, onSql)
                        /\ onSql.ok => onWasm.ok
                        /\ onWasm.ok /\ ~onSql.ok => ~Stored(sql, k)
        BY <1>2, <2>1, RemoveStep
    <2>3. /\ sql' = onSql.rows /\ wasm' = onWasm.rows /\ table' = table
          /\ outcome'.sql = onSql.ok /\ outcome'.wasm = onWasm.ok
          /\ wasmLast' = IF onWasm.ok THEN [call |-> "remove", key |-> k, val |-> Missing]
                         ELSE wasmLast
        BY <1>2 DEF RemoveBoth, Apply
    <2> HIDE DEF onSql, onWasm
    <2>4. IsKeyed' = IsKeyed
        BY <2>3 DEF IsKeyed
    <2>5. IsKeyed => \A r : Holds(sql', r) <=> Holds(wasm', r)
        <3>1. ASSUME ~Stored(sql, k), NEW r, Holds(sql, r) PROVE r.id # k
            BY <3>1 DEF Holds, Stored
        <3> QED BY <2>2, <2>3, <3>1 DEF KeyedOK, ErasedAs
    <2>6. IsKeyed /\ outcome'.sql # outcome'.wasm => wasmLast'.call = "remove" /\ outcome'.wasm
        BY <2>2, <2>3 DEF ErasedAs
    <2> QED BY <2>2, <2>3, <2>4, <2>5, <2>6 DEF KeyedOK, ErasedAs
<1>3. CASE StoreEmptyKey
    <2>1. sql' = sql /\ wasm' = wasm /\ table' = table /\ outcome'.sql = outcome'.wasm
        BY <1>3 DEF StoreEmptyKey, Apply, Outcome
    <2> QED BY <2>1 DEF KeyedOK, IsKeyed
<1>4. CASE DeleteEmptyKey
    <2>1. sql' = sql /\ wasm' = wasm /\ table' = table /\ outcome'.sql = outcome'.wasm
        BY <1>4 DEF DeleteEmptyKey
    <2> QED BY <2>1 DEF KeyedOK, IsKeyed
<1>5. CASE UNCHANGED backendVars
    BY <1>5 DEF KeyedOK, IsKeyed, backendVars
<1> QED BY <1>1, <1>2, <1>3, <1>4, <1>5 DEF BackendsNext

\* The invariant of both backends.
LEMMA KeyedOKAlways == BackendsSpec => []KeyedOK
BY KeyedOKInit, KeyedOKStep, PTL DEF BackendsSpec

-----------------------------------------------------------------------------
(* The theorems.                                                           *)

\* The two backends hold the same entities of every keyed table after the same
\* calls, and answer differently only to the removal of an entity that is not
\* there.
THEOREM SameEntities == BackendsSpec => []BackendsAgree
<1>1. KeyedOK => BackendsAgree
    <2> SUFFICES ASSUME KeyedOK, IsKeyed
                 PROVE  /\ AsMap(sql) = AsMap(wasm)
                        /\ outcome.sql # outcome.wasm => wasmLast.call = "remove" /\ outcome.wasm
        BY DEF BackendsAgree
    <2>1. \A k \in Keys : AsMap(sql)[k] = AsMap(wasm)[k]
        BY SameLookup DEF KeyedOK
    <2>2. AsMap(sql) = AsMap(wasm)
        BY <2>1 DEF AsMap
    <2> QED BY <2>2 DEF KeyedOK
<1> QED BY <1>1, KeyedOKAlways, PTL

\* The map of the SQL backend, which is only meant for keyed tables.
SqlKv == AsMap(IF IsKeyed THEN sql ELSE << >>)
SqlCall == IF IsKeyed THEN sqlLast ELSE NoCall

\* A call on a keyed SQL table is a step of the map, or none.
LEMMA SqlStep ==
    KeyedOK /\ [BackendsNext]_backendVars => [Sql!KeyedNext]_<<SqlKv, SqlCall>>
<1> SUFFICES ASSUME KeyedOK, [BackendsNext]_backendVars
             PROVE  [Sql!KeyedNext]_<<SqlKv, SqlCall>>
    OBVIOUS
<1>1. table' = table /\ IsKeyed' = IsKeyed
    BY DEF BackendsNext, SaveBoth, RemoveBoth, StoreEmptyKey, DeleteEmptyKey, Apply, backendVars,
           IsKeyed
<1>2. CASE ~IsKeyed
    BY <1>1, <1>2 DEF SqlKv, SqlCall, AsMap, NoCall
<1>3. CASE IsKeyed
    <2>0. sql \in Seq(RowType) /\ UniqueIds(sql)
        BY <1>3 DEF KeyedOK
    <2>1. /\ AsMap(IF IsKeyed THEN sql ELSE << >>) = AsMap(sql)
          /\ (IF IsKeyed THEN sqlLast ELSE NoCall) = sqlLast
          /\ AsMap(IF IsKeyed THEN sql ELSE << >>)' = AsMap(sql)'
          /\ (IF IsKeyed THEN sqlLast ELSE NoCall)' = sqlLast'
        BY <1>1, <1>3 DEF AsMap
    <2>2. ASSUME NEW k \in KeysOf(table), NEW v \in Values, SaveBoth(k, v)
          PROVE  Sql!KeyedNext
        <3>1. k \in Keys
            BY KeysOfTable
        <3> DEFINE onSql == Save(SqlTable[table], sql, k, v)
        <3>2. SavedAs(RowType, sql, k, v, onSql)
            BY <1>3, <2>2, <3>1, SaveStep
        <3>3. sql' = onSql.rows
              /\ sqlLast' = IF onSql.ok THEN [call |-> "save", key |-> k, val |-> v] ELSE sqlLast
            BY <2>2 DEF SaveBoth, Apply
        <3> HIDE DEF onSql
        <3>4. AsMap(onSql.rows) = [AsMap(sql) EXCEPT ![k] = v]
            BY <2>0, <3>1, <3>2, SaveIsPut
        <3>5. AsMap(sql)' = [AsMap(sql) EXCEPT ![k] = v]
            BY <3>3, <3>4 DEF AsMap
        <3>6. sqlLast' = [call |-> "save", key |-> k, val |-> v]
            BY <3>2, <3>3 DEF SavedAs
        <3>7. Sql!Put(k, v)
            BY <2>1, <3>5, <3>6 DEF Sql!Put
        <3> QED BY <3>1, <3>7 DEF Sql!KeyedNext
    <2>3. ASSUME NEW k \in KeysOf(table), RemoveBoth(k)
          PROVE  Sql!KeyedNext \/ UNCHANGED <<SqlKv, SqlCall>>
        <3>1. k \in Keys
            BY KeysOfTable
        <3> DEFINE onSql == Erase(SqlTable[table], sql, k)
        <3>2. ErasedAs(RowType, sql, k, onSql)
            BY <1>3, <2>3, <3>1, RemoveStep
        <3>3. sql' = onSql.rows
              /\ sqlLast' = IF onSql.ok THEN [call |-> "remove", key |-> k, val |-> Missing]
                            ELSE sqlLast
            BY <2>3 DEF RemoveBoth, Apply
        <3> HIDE DEF onSql
        <3>4. CASE onSql.ok
            <4>1. AsMap(onSql.rows) = [AsMap(sql) EXCEPT ![k] = Missing]
                BY <2>0, <3>1, <3>2, <3>4, EraseIsDrop
            <4>2. AsMap(sql)' = [AsMap(sql) EXCEPT ![k] = Missing]
                BY <3>3, <4>1 DEF AsMap
            <4>3. Sql!Drop(k)
                BY <2>1, <3>3, <3>4, <4>2 DEF Sql!Drop
            <4> QED BY <3>1, <4>3 DEF Sql!KeyedNext
        <3>5. CASE ~onSql.ok
            <4>1. sql' = sql /\ sqlLast' = sqlLast
                BY <3>2, <3>3, <3>5 DEF ErasedAs
            <4> QED BY <1>1, <4>1 DEF SqlKv, SqlCall, AsMap, NoCall
        <3> QED BY <3>4, <3>5
    <2>4. StoreEmptyKey \/ DeleteEmptyKey \/ UNCHANGED backendVars =>
            sql' = sql /\ sqlLast' = sqlLast
        BY DEF StoreEmptyKey, DeleteEmptyKey, Apply, Outcome, backendVars
    <2>5. ASSUME sql' = sql, sqlLast' = sqlLast
          PROVE  UNCHANGED <<SqlKv, SqlCall>>
        BY <1>1, <2>5 DEF SqlKv, SqlCall, AsMap, NoCall
    <2> QED BY <2>2, <2>3, <2>4, <2>5 DEF BackendsNext
<1> QED BY <1>2, <1>3

\* The SQL backend of every keyed table is the map its callers take it for,
\* although it is a SELECT followed by an UPDATE or an INSERT, and a DELETE that
\* is rolled back unless one row went.
THEOREM SqlImplementsMap == BackendsSpec => SqlIsKeyed
<1>1. BackendsInit => Sql!KeyedInit
    <2> SUFFICES ASSUME BackendsInit PROVE Sql!KeyedInit
        OBVIOUS
    <2>1. AsMap(IF IsKeyed THEN sql ELSE << >>) = [k \in Keys |-> Missing]
        BY EmptyTable DEF BackendsInit, AsMap
    <2>2. (IF IsKeyed THEN sqlLast ELSE NoCall) = NoCall
        BY DEF BackendsInit
    <2> QED BY <2>1, <2>2 DEF Sql!KeyedInit, Sql!NoCall, NoCall
<1> QED BY <1>1, SqlStep, KeyedOKAlways, PTL
        DEF BackendsSpec, SqlIsKeyed, Sql!KeyedSpec, SqlKv, SqlCall

-----------------------------------------------------------------------------
(* Type correctness, of every table.                                       *)

\* How entities of any table are saved to and deleted from SQLite.
LEMMA SqlEntities ==
    ASSUME NEW t \in Tables
    PROVE  /\ SqlTable[t].save \in {"upsert", "replace", "put", "insert", "unique", "first"}
           /\ SqlTable[t].erase \in {"any", "exact", "some", "head", "never"}
BY SMT DEF Tables, SqlTable, SqlCredential, SqlSignatureKeyPair, SqlKeyPackage,
    SqlHpkePrivateKey, SqlEncryptionKeyPair, SqlEpochEncryptionKeyPair, SqlPskBundle,
    SqlGroup, SqlPendingGroup, SqlPendingMessage, SqlEnrollment, SqlRefreshToken, SqlAcmeCA,
    SqlIntermediateCert, SqlCrl, SqlProteusIdentity, SqlProteusPrekey, SqlProteusSession

\* A call leaves the rows, the outcome and the last calls what they are declared.
LEMMA TypeStep == BackendsTypeOK /\ [BackendsNext]_backendVars => BackendsTypeOK'
<1> SUFFICES ASSUME BackendsTypeOK, [BackendsNext]_backendVars PROVE BackendsTypeOK'
    OBVIOUS
<1> DEFINE Calls == [call : {"none", "save", "remove"}, key : Keys \cup {Missing},
                     val : Values \cup {Missing}]
<1>1. /\ table \in CheckedTables /\ table \in Tables
      /\ sql \in Seq(RowType) /\ wasm \in Seq(RowType)
      /\ outcome \in [sql : BOOLEAN, wasm : BOOLEAN]
      /\ sqlLast \in Calls /\ wasmLast \in Calls
    BY BackendsAssumption DEF BackendsTypeOK
<1>2. KeysOf(table) \subseteq Keys
    BY BackendsAssumption DEF KeysOf
<1>3. NoCall \in Calls
    BY DEF NoCall
<1>4. ASSUME NEW call \in Calls, NEW a, NEW b, Apply(call, a, b),
             a.ok \in BOOLEAN, a.rows \in Seq(RowType), b.ok \in BOOLEAN, b.rows \in Seq(RowType)
      PROVE  BackendsTypeOK'
    <2>1. outcome' \in [sql : BOOLEAN, wasm : BOOLEAN]
        BY <1>4 DEF Apply
    <2>2. sql' \in Seq(RowType) /\ wasm' \in Seq(RowType) /\ table' = table
        BY <1>4 DEF Apply
    <2>3. sqlLast' \in Calls /\ wasmLast' \in Calls
        BY <1>1, <1>4 DEF Apply
    <2> QED BY <1>1, <2>1, <2>2, <2>3 DEF BackendsTypeOK, RowType
<1>5. ASSUME NEW k \in KeysOf(table), NEW v \in Values, SaveBoth(k, v)
      PROVE  BackendsTypeOK'
    <2>1. Row(k, v) \in RowType
        BY <1>2 DEF Row, RowType
    <2>2. /\ Save(SqlTable[table], sql, k, v).ok \in BOOLEAN
          /\ Save(SqlTable[table], sql, k, v).rows \in Seq(RowType)
        BY <1>1, <2>1, SaveRows, SqlEntities
    <2>3. /\ Save(WasmTable[table], wasm, k, v).ok \in BOOLEAN
          /\ Save(WasmTable[table], wasm, k, v).rows \in Seq(RowType)
        BY <1>1, <2>1, SaveRows, WasmEntities
    <2>4. [call |-> "save", key |-> k, val |-> v] \in Calls
        BY <1>2
    <2> HIDE DEF Calls
    <2> QED BY <1>4, <1>5, <2>2, <2>3, <2>4 DEF SaveBoth
<1>6. ASSUME NEW k \in KeysOf(table), RemoveBoth(k)
      PROVE  BackendsTypeOK'
    <2>2. /\ Erase(SqlTable[table], sql, k).ok \in BOOLEAN
          /\ Erase(SqlTable[table], sql, k).rows \in Seq(RowType)
        BY <1>1, EraseRows, SqlEntities
    <2>3. /\ Erase(WasmTable[table], wasm, k).ok \in BOOLEAN
          /\ Erase(WasmTable[table], wasm, k).rows \in Seq(RowType)
        BY <1>1, EraseRows, WasmEntities
    <2>4. [call |-> "remove", key |-> k, val |-> Missing] \in Calls
        BY <1>2
    <2> HIDE DEF Calls
    <2> QED BY <1>4, <1>6, <2>2, <2>3, <2>4 DEF RemoveBoth
<1>7. CASE StoreEmptyKey
    <2>1. ASSUME NEW s PROVE Outcome(FALSE, s).ok = FALSE /\ Outcome(FALSE, s).rows = s
        BY DEF Outcome
    <2> HIDE DEF Calls
    <2> QED BY <1>1, <1>3, <1>4, <1>7, <2>1 DEF StoreEmptyKey
<1>8. CASE DeleteEmptyKey
    BY <1>1, <1>8 DEF DeleteEmptyKey, BackendsTypeOK
<1>9. CASE UNCHANGED backendVars
    BY <1>1, <1>9 DEF backendVars, BackendsTypeOK
<1> QED BY <1>5, <1>6, <1>7, <1>8, <1>9 DEF BackendsNext

\* Rows, outcomes and remembered calls keep their types in every table, the ones
\* that take several rows of an id (credentials, signature key pairs, buffered
\* messages) included: no save, update or partial delete leaves a hole or a row
\* of another kind.
THEOREM BackendsTyped == BackendsSpec => []BackendsTypeOK
<1>1. BackendsInit => BackendsTypeOK
    BY DEF BackendsInit, BackendsTypeOK, NoCall
<1> QED BY <1>1, TypeStep, PTL DEF BackendsSpec

=============================================================================
