----------------------------- MODULE MCBindings -----------------------------
EXTENDS Bindings

\* A reader and a writer with and without callbacks and error codes, the calls
\* of an enrollment, and the reading of the code.
MCOps ==
    {"client_public_key", "proteus_new_prekey_auto", "proteus_decrypt",
     "decrypt_message", "check_order_request", "new_oidc_challenge_response",
     "proteus_last_error_code"}

=============================================================================
