------------------------------ MODULE Keystore ------------------------------
(***************************************************************************)
(* The encrypted keystore (keystore/src): one table per entity, SQLCipher  *)
(* on the native platforms and IndexedDB on WASM.  A table is the sequence *)
(* of its rows in rowid order.  Every call of EntityBase holds the         *)
(* connection's mutex and is one transaction, so it is one step; what      *)
(* differs from entity to entity, and from one backend to the other, is    *)
(* what a save does about a row that is there already and what a delete    *)
(* says about a row that is not.                                           *)
(*                                                                         *)
(*   save    "upsert"   SELECT rowid, then UPDATE or INSERT                *)
(*           "insert"   INSERT: a second row with the same id              *)
(*           "unique"   INSERT under a PRIMARY KEY or a UNIQUE index, or   *)
(*                      an explicit AlreadyExists: an error the 2nd time   *)
(*           "replace"  INSERT OR REPLACE                                  *)
(*           "first"    nothing when the table has a row                   *)
(*           "put"      IndexedDB put                                      *)
(*   erase   "exact"    rolled back unless one row per id went             *)
(*           "some"     rolled back unless some row went                   *)
(*           "head"     the first row, whatever the id                     *)
(*           "never"    NotImplemented                                     *)
(*           "any"      IndexedDB delete, which never fails                *)
(***************************************************************************)
EXTENDS Naturals, SequencesExt

\* An entity whose save does not look for an earlier row.
SqlInsertOnly == [save |-> "insert", erase |-> "exact"]

SqlCredential         == [save |-> "insert",  erase |-> "exact"]
SqlSignatureKeyPair   == [save |-> "insert",  erase |-> "exact"]
SqlKeyPackage         == [save |-> "upsert",  erase |-> "exact"]
SqlHpkePrivateKey     == [save |-> "upsert",  erase |-> "exact"]
SqlEncryptionKeyPair  == [save |-> "upsert",  erase |-> "exact"]
SqlEpochEncryptionKeyPair == [save |-> "upsert", erase |-> "exact"]
SqlPskBundle          == [save |-> "upsert",  erase |-> "exact"]
SqlGroup              == [save |-> "upsert",  erase |-> "exact"]
SqlPendingGroup       == [save |-> "upsert",  erase |-> "exact"]
SqlPendingMessage     == [save |-> "insert",  erase |-> "some"]
SqlEnrollment         == [save |-> "unique",  erase |-> "exact"]
SqlRefreshToken       == [save |-> "replace", erase |-> "never"]
SqlAcmeCA             == [save |-> "unique",  erase |-> "never"]
SqlIntermediateCert   == [save |-> "upsert",  erase |-> "exact"]
SqlCrl                == [save |-> "upsert",  erase |-> "exact"]
SqlProteusIdentity    == [save |-> "first",   erase |-> "head"]
SqlProteusPrekey      == [save |-> "upsert",  erase |-> "exact"]
SqlProteusSession     == [save |-> "upsert",  erase |-> "exact"]

\* An IndexedDB add, which fails when the key is there.
WasmAddOnly == [save |-> "unique", erase |-> "any"]

WasmCredential        == [save |-> "put", erase |-> "any"]
WasmSignatureKeyPair  == [save |-> "put", erase |-> "any"]
WasmKeyPackage        == [save |-> "put", erase |-> "any"]
WasmHpkePrivateKey    == [save |-> "put", erase |-> "any"]
WasmEncryptionKeyPair == [save |-> "put", erase |-> "any"]
WasmEpochEncryptionKeyPair == [save |-> "put", erase |-> "any"]
WasmPskBundle         == [save |-> "put", erase |-> "any"]
WasmGroup             == [save |-> "put", erase |-> "any"]
WasmPendingGroup      == [save |-> "put", erase |-> "any"]
WasmPendingMessage    == [save |-> "put", erase |-> "any"]
WasmEnrollment        == [save |-> "put", erase |-> "any"]
WasmRefreshToken      == [save |-> "put", erase |-> "never"]
WasmAcmeCA            == [save |-> "put", erase |-> "never"]
WasmIntermediateCert  == [save |-> "put", erase |-> "any"]
WasmCrl               == [save |-> "put", erase |-> "any"]
WasmProteusIdentity   == [save |-> "put", erase |-> "any"]
WasmProteusPrekey     == [save |-> "put", erase |-> "any"]
WasmProteusSession    == [save |-> "put", erase |-> "any"]

SqlTable ==
    [mls_credentials |-> SqlCredential, mls_signature_keypairs |-> SqlSignatureKeyPair,
     mls_keypackages |-> SqlKeyPackage, mls_hpke_private_keys |-> SqlHpkePrivateKey,
     mls_encryption_keypairs |-> SqlEncryptionKeyPair,
     mls_epoch_encryption_keypairs |-> SqlEpochEncryptionKeyPair,
     mls_psk_bundles |-> SqlPskBundle, mls_groups |-> SqlGroup,
     mls_pending_groups |-> SqlPendingGroup, mls_pending_messages |-> SqlPendingMessage,
     e2ei_enrollment |-> SqlEnrollment, e2ei_refresh_token |-> SqlRefreshToken,
     e2ei_acme_ca |-> SqlAcmeCA, e2ei_intermediate_certs |-> SqlIntermediateCert,
     e2ei_crls |-> SqlCrl, proteus_identities |-> SqlProteusIdentity,
     proteus_prekeys |-> SqlProteusPrekey, proteus_sessions |-> SqlProteusSession]

WasmTable ==
    [mls_credentials |-> WasmCredential, mls_signature_keypairs |-> WasmSignatureKeyPair,
     mls_keypackages |-> WasmKeyPackage, mls_hpke_private_keys |-> WasmHpkePrivateKey,
     mls_encryption_keypairs |-> WasmEncryptionKeyPair,
     mls_epoch_encryption_keypairs |-> WasmEpochEncryptionKeyPair,
     mls_psk_bundles |-> WasmPskBundle, mls_groups |-> WasmGroup,
     mls_pending_groups |-> WasmPendingGroup, mls_pending_messages |-> WasmPendingMessage,
     e2ei_enrollment |-> WasmEnrollment, e2ei_refresh_token |-> WasmRefreshToken,
     e2ei_acme_ca |-> WasmAcmeCA, e2ei_intermediate_certs |-> WasmIntermediateCert,
     e2ei_crls |-> WasmCrl, proteus_identities |-> WasmProteusIdentity,
     proteus_prekeys |-> WasmProteusPrekey, proteus_sessions |-> WasmProteusSession]

Tables == DOMAIN SqlTable

Descriptor(platform, table) ==
    IF platform = "wasm" THEN WasmTable[table] ELSE SqlTable[table]

-----------------------------------------------------------------------------

\* A row whose id was written into both of its blobs.
RowIdTwice(id, v) == [id |-> id, val |-> id]

Row(id, v) == [id |-> id, val |-> v]

Stored(rows, id) == \E n \in 1 .. Len(rows) : rows[n].id = id

\* query_row("SELECT rowid ... WHERE id = ?"): the first of the rows with the id.
FirstRow(rows, id) ==
    CHOOSE n \in 1 .. Len(rows) :
        /\ rows[n].id = id
        /\ \A m \in 1 .. (n - 1) : rows[m].id # id

RowsOf(rows, id) == Cardinality({n \in 1 .. Len(rows) : rows[n].id = id})

\* "SELECT rowid", and then an UPDATE of that row or an INSERT.
Upsert(rows, id, v) ==
    IF Stored(rows, id) THEN [rows EXCEPT ![FirstRow(rows, id)] = Row(id, v)]
    ELSE Append(rows, Row(id, v))

\* The outcome of a call: did it succeed, and the rows it leaves.
Outcome(ok, rows) == [ok |-> ok, rows |-> rows]

\* EntityBase::save, insert and UniqueEntity::replace.
Save(table, rows, id, v) ==
    CASE table.save \in {"upsert", "replace", "put"} -> Outcome(TRUE, Upsert(rows, id, v))
      [] table.save = "insert" -> Outcome(TRUE, Append(rows, Row(id, v)))
      [] table.save = "unique" ->
            IF Stored(rows, id) THEN Outcome(FALSE, rows)
            ELSE Outcome(TRUE, Append(rows, Row(id, v)))
      [] table.save = "first" ->
            Outcome(TRUE, IF rows = << >> THEN <<Row(id, v)>> ELSE rows)

\* The elements of a sequence that are in a set, in their order.
Keep(s, good) ==
    LET kept[n \in 0 .. Len(s)] ==
          IF n = 0 THEN << >>
          ELSE IF s[n] \in good THEN Append(kept[n - 1], s[n]) ELSE kept[n - 1]
    IN  kept[Len(s)]

\* "DELETE ... WHERE id = ?".
Without(rows, id) == Keep(rows, {r \in ToSet(rows) : r.id # id})

\* The row that goes when the id has only one.
WithoutRow(rows, id) == RemoveAt(rows, FirstRow(rows, id))

\* EntityBase::delete as Connection::remove calls it, with one id.  Ids are the
\* keys of an IndexedDB store.
Erase(table, rows, id) ==
    CASE table.erase = "any"   -> Outcome(TRUE, IF Stored(rows, id) THEN WithoutRow(rows, id) ELSE rows)
      [] table.erase = "exact" ->
            IF RowsOf(rows, id) = 1 THEN Outcome(TRUE, WithoutRow(rows, id)) ELSE Outcome(FALSE, rows)
      [] table.erase = "some"  ->
            IF Stored(rows, id) THEN Outcome(TRUE, Without(rows, id)) ELSE Outcome(FALSE, rows)
      [] table.erase = "head"  ->
            IF rows = << >> THEN Outcome(FALSE, rows) ELSE Outcome(TRUE, Tail(rows))
      [] table.erase = "never" -> Outcome(FALSE, rows)

\* EntityBase::find_one, UniqueEntity::find_unique.
FindOne(table, rows, id, none) ==
    CASE table.erase = "head" -> IF rows = << >> THEN none ELSE Head(rows).val
      [] OTHER -> IF Stored(rows, id) THEN rows[FirstRow(rows, id)].val ELSE none

=============================================================================
