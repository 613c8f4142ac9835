----------------------------- MODULE MCBackends -----------------------------
EXTENDS Backends

\* Every table of the keystore.
MCTables == Tables

=============================================================================
