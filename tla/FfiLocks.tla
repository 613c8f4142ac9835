------------------------------ MODULE FfiLocks ------------------------------
(***************************************************************************)
(* What the exports of the bindings lock while a call of the application   *)
(* runs (crypto-ffi/src/generic.rs, crypto-ffi/src/wasm.rs).               *)
(*                                                                         *)
(* UniFFI (Kotlin, Swift) puts the central behind one async mutex: calls   *)
(* run one after the other.  WASM puts it behind an async RwLock, and some *)
(* calls only take it for reading: several of them interleave at every     *)
(* await, that is at every access to the keystore.  An E2eiEnrollment is   *)
(* behind an RwLock of its own on both.                                    *)
(***************************************************************************)
EXTENDS Naturals, FiniteSets

CONSTANTS
    Platform,   \* "generic" or "wasm"
    Tasks       \* calls that can be in progress at the same time

ASSUME FfiAssumption == Platform \in {"generic", "wasm"}

-----------------------------------------------------------------------------
(* WASM: the exports by the part of the API they belong to, and the lock   *)
(* of the central each one takes.                                          *)

WasmInit == [mls_init |-> "write", mls_generate_keypair |-> "read", mls_init_with_client_id |-> "write"]

WasmClient ==
    [set_callbacks |-> "write", client_public_key |-> "read", client_keypackages |-> "write",
     client_valid_keypackages_count |-> "read", delete_keypackages |-> "write"]

WasmGroups ==
    [create_conversation |-> "write", conversation_epoch |-> "write",
     conversation_exists |-> "write", process_welcome_message |-> "write"]

WasmCommits ==
    [add_clients_to_conversation |-> "write", remove_clients_from_conversation |-> "write",
     mark_conversation_as_child_of |-> "write", update_keying_material |-> "write",
     commit_pending_proposals |-> "write", wipe_conversation |-> "write"]

WasmMessages ==
    [decrypt_message |-> "write", encrypt_message |-> "write", new_add_proposal |-> "write",
     new_update_proposal |-> "write", new_remove_proposal |-> "write",
     new_external_add_proposal |-> "write"]

WasmPending ==
    [join_by_external_commit |-> "write", merge_pending_group_from_external_commit |-> "write",
     clear_pending_group_from_external_commit |-> "write", commit_accepted |-> "write",
     clear_pending_proposal |-> "write", clear_pending_commit |-> "write"]

WasmRandom == [random_bytes |-> "read", reseed_rng |-> "write"]

WasmSessions ==
    [proteus_init |-> "write", proteus_session_from_prekey |-> "write",
     proteus_session_from_message |-> "write", proteus_session_save |-> "write",
     proteus_session_delete |-> "write", proteus_session_exists |-> "write"]

WasmCiphers ==
    [proteus_decrypt |-> "write", proteus_encrypt |-> "write", proteus_encrypt_batched |-> "write"]

WasmPrekeys ==
    [proteus_new_prekey |-> "read", proteus_new_prekey_auto |-> "read",
     proteus_last_resort_prekey |-> "read"]

WasmFingerprints ==
    [proteus_fingerprint |-> "read", proteus_fingerprint_local |-> "write",
     proteus_fingerprint_remote |-> "write", proteus_cryptobox_migrate |-> "read"]

WasmExports ==
    [export_secret_key |-> "write", get_external_sender |-> "write", get_client_ids |-> "write"]

WasmNewEnrollments ==
    [e2ei_new_enrollment |-> "read", e2ei_new_activation_enrollment |-> "read",
     e2ei_new_rotate_enrollment |-> "read"]

WasmPki ==
    [e2ei_register_acme_ca |-> "read", e2ei_register_intermediate_ca |-> "read",
     e2ei_register_crl |-> "read"]

WasmRotation ==
    [e2ei_mls_init_only |-> "write", e2ei_rotate_all |-> "write",
     e2ei_enrollment_stash |-> "write", e2ei_enrollment_stash_pop |-> "read"]

WasmIdentities ==
    [e2ei_conversation_state |-> "write", e2ei_is_enabled |-> "write",
     get_device_identities |-> "write", get_user_identities |-> "write",
     get_credential_in_use |-> "write"]

Shared(table) == {op \in DOMAIN table : table[op] = "read"}

WasmProteus ==
    UNION {DOMAIN WasmSessions, DOMAIN WasmCiphers, DOMAIN WasmPrekeys, DOMAIN WasmFingerprints}

WasmShared ==
    UNION {Shared(WasmInit), Shared(WasmClient), Shared(WasmGroups), Shared(WasmCommits),
           Shared(WasmMessages), Shared(WasmPending), Shared(WasmRandom), Shared(WasmSessions),
           Shared(WasmCiphers), Shared(WasmPrekeys), Shared(WasmFingerprints), Shared(WasmExports),
           Shared(WasmNewEnrollments), Shared(WasmPki), Shared(WasmRotation), Shared(WasmIdentities)}

-----------------------------------------------------------------------------
(* UniFFI: self.central.lock().await in every one of these exports.        *)

GenericClient ==
    {"mls_init", "mls_generate_keypairs", "mls_init_with_client_id", "restore_from_disk",
     "set_callbacks", "client_public_key", "client_keypackages", "client_valid_keypackages_count",
     "delete_keypackages"}

GenericGroups ==
    {"create_conversation", "conversation_epoch", "process_welcome_message",
     "add_clients_to_conversation", "remove_clients_from_conversation",
     "mark_conversation_as_child_of", "update_keying_material", "commit_pending_proposals",
     "wipe_conversation", "decrypt_message", "encrypt_message", "conversation_exists"}

GenericPending ==
    {"new_add_proposal", "new_update_proposal", "new_remove_proposal", "new_external_add_proposal",
     "join_by_external_commit", "merge_pending_group_from_external_commit",
     "clear_pending_group_from_external_commit"}

GenericRest ==
    {"random_bytes", "reseed_rng", "commit_accepted", "clear_pending_proposal",
     "clear_pending_commit", "get_client_ids", "export_secret_key", "get_external_sender"}

GenericSessions ==
    {"proteus_init", "proteus_session_from_prekey", "proteus_session_from_message",
     "proteus_session_save", "proteus_session_delete", "proteus_session_exists", "proteus_decrypt",
     "proteus_encrypt", "proteus_encrypt_batched"}

GenericPrekeys ==
    {"proteus_new_prekey", "proteus_new_prekey_auto", "proteus_last_resort_prekey",
     "proteus_fingerprint", "proteus_fingerprint_local", "proteus_fingerprint_remote",
     "proteus_cryptobox_migrate"}

GenericE2ei ==
    {"e2ei_new_enrollment", "e2ei_new_activation_enrollment", "e2ei_new_rotate_enrollment",
     "e2ei_register_acme_ca", "e2ei_register_intermediate_ca", "e2ei_register_crl"}

GenericRotation ==
    {"e2ei_mls_init_only", "e2ei_rotate_all", "e2ei_enrollment_stash", "e2ei_enrollment_stash_pop",
     "e2ei_conversation_state", "e2ei_is_enabled", "get_device_identities", "get_user_identities",
     "get_credential_in_use"}

-----------------------------------------------------------------------------
(* The calls of an E2eiEnrollment, and the lock of the enrollment.  The    *)
(* response to the OIDC challenge stores the refresh token: UniFFI takes   *)
(* the mutex of the central first.                                         *)

WasmAcme ==
    [directory_response |-> "write", new_account_request |-> "read",
     new_account_response |-> "write", new_order_request |-> "read",
     new_order_response |-> "read", new_authz_request |-> "read",
     new_authz_response |-> "write", create_dpop_token |-> "read",
     new_dpop_challenge_request |-> "read", new_dpop_challenge_response |-> "read"]

WasmCertificate ==
    [new_oidc_challenge_request |-> "write", new_oidc_challenge_response |-> "write",
     check_order_request |-> "read", check_order_response |-> "write",
     finalize_request |-> "write", finalize_response |-> "write", certificate_request |-> "write"]

GenericAcme ==
    [directory_response |-> "write", new_account_request |-> "read",
     new_account_response |-> "write", new_order_request |-> "read",
     new_order_response |-> "read", new_authz_request |-> "read",
     new_authz_response |-> "write", create_dpop_token |-> "read",
     new_dpop_challenge_request |-> "read", new_dpop_challenge_response |-> "read",
     new_oidc_challenge_request |-> "write", new_oidc_challenge_response |-> "write",
     check_order_request |-> "read", check_order_response |-> "write",
     finalize_request |-> "write", finalize_response |-> "write",
     certificate_request |-> "write", get_refresh_token |-> "read"]

EnrollmentShared ==
    IF Platform = "wasm" THEN Shared(WasmAcme) \cup Shared(WasmCertificate) ELSE Shared(GenericAcme)

EnrollmentCalls ==
    IF Platform = "wasm" THEN DOMAIN WasmAcme \cup DOMAIN WasmCertificate ELSE DOMAIN GenericAcme

-----------------------------------------------------------------------------

Exclusive(op) == Platform = "generic" \/ op \notin WasmShared

\* A call gets the lock of the central next to the calls that hold it.
MayEnter(op, holding) ==
    holding # {} => ~Exclusive(op) /\ \A other \in holding : ~Exclusive(other)

=============================================================================
