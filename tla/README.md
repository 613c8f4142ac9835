# CoreCrypto: a TLA+ model

CoreCrypto wraps MLS (through OpenMLS) and Proteus for Wire's clients. This
directory holds TLA+ modules that model its conversations, sessions, keystore,
client identities, end-to-end identity and bindings, TLC configurations that check
them on small instances, and TLAPS proofs of what matters most for instances of
any size.

All paths below are relative to `src/`.

## 1. The system

| Component | Sources | State | Operations | What is hard | Correct when |
|---|---|---|---|---|---|
| MLS conversation | `crypto/src/mls/conversation/*` | the OpenMLS group: epoch, members, pending proposals, pending commit, ratchets | create, add/remove/update/commit, propose, encrypt, decrypt, commit_accepted, clear, wipe | commits race at the Delivery Service; messages come late, early, twice; a call is several keystore writes long | clients in the same epoch agree on it; nothing a client asked for is lost with a lost race; early messages reach the application once |
| External commit | `crypto/src/mls/external_commit.rs`, `buffer_external_commit.rs` | the pending group row, messages buffered while it is pending | join, merge, clear | several writes without a transaction; rejoining a group one is in | joined or not joined, never both |
| Group store | `crypto/src/group_store.rs` | LRU cache of conversations and Proteus sessions | get_fetch, insert, remove | eviction of what is not saved | behaves like the keystore it caches |
| Keystore | `keystore/src/*` | rows per entity: groups, pending groups, buffered messages, key packages, key pairs, credentials, enrollments, CAs, CRLs, prekeys, sessions | save, find, remove | two implementations (SQLCipher, IndexedDB) with different ideas of a key | both implement the same map, where the callers rely on one |
| Client, identities, key packages | `crypto/src/mls/client/*`, `crypto/src/e2e_identity/rotate.rs` | credential bundles per scheme and type; key packages | init, load, generate, rotate_all, delete | an operation is many writes; restoring after a rotation; expiry | the client can always be loaded, sign for its conversations and use its key packages |
| PKI | `crypto/src/e2e_identity/init_certificates.rs`, `conversation_state.rs`, `mls-provider/src/pki.rs` | trust anchor, intermediates, CRLs, and an environment built from them | register, validate, state of a conversation | the environment is a cache | credentials are judged by what is registered |
| Enrollment | `crypto/src/e2e_identity/mod.rs`, `stash.rs`, `refresh_token.rs` | the enrollment (account, orders, challenges), stashed enrollments, the refresh token | ACME steps, stash, pop, use | steps in the wrong order, lost responses, a restart in the middle | an enrollment is in one place; a certificate in use can be renewed |
| Identities of members | `crypto/src/e2e_identity/identity.rs` | - | by device, by user | iteration order of a hash map | all identities that were asked for |
| Proteus | `crypto/src/proteus.rs` | identity, sessions, prekeys | session from prekey/message, encrypt, decrypt, prekeys, migration | ids at their limit, sessions cached and saved, calls that fail half-way | a message key is used once; a published prekey can be used; one identity |
| FFI | `crypto-ffi/src/*` | a lock around the central, references to it, the last Proteus error code | every export, close, wipe | calls wait for each other, call back, fail, and are cut off by close | every call returns and has the central until then; error codes reach the application |
| MLS provider | `mls-provider/*` | - | primitives | cryptography | - |
| Test attributes | `crypto-attributes/*` | - | durable, idempotent, dispotent | - | what `#[durable]` asks is a property here |

How the parts interact. An application calls `MlsCentral` through the FFI, which
takes the central's lock: a mutex on UniFFI, a readers-writer lock on WASM.
`MlsCentral` finds the conversation in the group store, which loads it from the
keystore when it is not cached, takes its write lock and calls the
`MlsConversation` method, which calls OpenMLS and saves the whole group in one
row (`persist_group_when_changed`). OpenMLS and CoreCrypto also write key pairs,
key packages and buffered messages to the keystore. The application carries
commits, proposals and messages to the Delivery Service (DS) and passes what it
receives to `decrypt_message`. The DS decides which commit ends an epoch. The
doc of `merge.rs` (l.77-88) is the protocol between the three: 200 means
`commit_accepted`, 409 means "do nothing", 5xx means retry. An enrollment talks to
an ACME server through the application and ends in a certificate, which
initialises a client or is rotated into all of its conversations; certificates
are validated against the PKI environment. Proteus shares the keystore and the
lock, and nothing else, with MLS.

## 2. Modules

| Module | What it is | Uses |
|---|---|---|
| `MlsGroup` | the data of a group and the pure functions: classification of a message (`ParseMessage`, `IsDuplicateMessage`), effect of a commit (`Merge`), which proposals a lost race renews (`ProposalsToRenew`, `NeedsUpdate`, `RenewedProposal`, `RenewalFails`) | |
| `MessageBuffer` | the rows of messages that came too early (SQL and WASM) and the order in which they are replayed | |
| `Conversation` | one conversation of several clients and the DS | `MlsGroup`, `MessageBuffer` |
| `ExternalJoin` | one client joining, or rejoining, by external commit, write by write | `MlsGroup`, `MessageBuffer` |
| `Keystore` | how each of the 18 tables saves, finds and deletes a row on either platform | |
| `Backends` | the same calls on both versions of a table, and what they have in common | `Keystore` |
| `KeyedStore` | abstract: a map from ids to entities | |
| `Client` | credentials, signature keys, key packages, rotation | `Keystore`, `FfiLocks` |
| `Pki` | registrations, the environment, the state of a conversation | `Keystore`, `FfiLocks` |
| `Enrollment` | enrollments next to registrations | `Pki` |
| `Identities` | the queries for identities of members | |
| `GroupStore` | the LRU cache | |
| `Proteus` | identity, sessions, prekeys, one keystore write at a time | `GroupStore`, `FfiLocks` |
| `SessionContract` | abstract: what Proteus sessions promise to the application | |
| `FfiLocks` | the lock every export takes, on UniFFI and on WASM | |
| `Bindings` | calls in progress: references, locks, callbacks, error codes, close and wipe | `FfiLocks` |
| `MC...` | the instances for TLC | |
| `ConversationProofs` | theorems about `Conversation`, after lemmas about the operators of `MlsGroup` and `MessageBuffer` | `Conversation` |
| `ExternalJoinProofs` | theorems about `ExternalJoin` | `ExternalJoin` |
| `KeystoreProofs` | induction, the rows `Keep` keeps, a table whose ids are unique | `Keystore` |
| `BackendsProofs` | theorems about `Backends` | `Backends`, `KeystoreProofs` |
| `ClientProofs` | theorems about `Client` | `Client`, `KeystoreProofs` |
| `EnrollmentProofs` | theorems about `Enrollment` and `Pki` | `Enrollment`, `KeystoreProofs` |
| `ProteusProofs` | theorems about `Proteus` and `GroupStore` | `Proteus` |
| `BindingsProofs` | theorems about `Bindings` | `Bindings` |

Composition: `Pki`, `Client` and `Proteus` let their calls overlap exactly as far
as the locks of `FfiLocks` allow on the platform of the instance; `Client`, `Pki` and
`Enrollment` write the tables of `Keystore` with the save and delete of each table;
`Enrollment` runs with the registrations of `Pki` and ends in them; `Proteus` keeps
its sessions in a `GroupStore` over its rows.

### Conversations

State of `Conversation` and what it stands for:

| Variable | In the code |
|---|---|
| `mem[c]` | the `MlsConversation` in the group store of client `c` |
| `disk[c]` | the row of `mls_groups` |
| `buf[c]` | the rows of `mls_pending_messages` for this group, numbered by rowid |
| `call[c]` | the call in progress, when it is one of those that take several writes: the replay of the buffer and the wipe |
| `outbox[c]`, `post[c]`, `got[c]` | the application: proposals it was given and has to send, a 200 it has to handle, the application messages it was given |
| `log`, `rosters`, `net` | the DS: accepted commits, members per epoch, messages on their way |
| `created`, `count` | history (all commits, for fresh confirmation tags) and what the bounds count |

Actions and code:

| Action | Code |
|---|---|
| `EncryptMessage` | `encrypt.rs` |
| `NewProposal` | `mls/proposal.rs` (`new_add/remove/update_proposal`), `conversation/proposal.rs` |
| `NewExternalAddProposal` | `external_proposal.rs` |
| `AddMembers`, `RemoveMembers`, `UpdateKeyingMaterial`, `CommitPendingProposals` | `conversation/commit.rs` |
| `PostCommit`, `SendProposal`, `Deliver` | the application and the DS (external) |
| `CommitAccepted`, `ClearPendingCommit`, `ClearPendingProposal` | `merge.rs` |
| `DecryptSimple`, `DecryptCommit`, `DecryptFuture`, `DecryptRejected`, `DecryptNoGroup` | the outcomes of `MlsCentral::decrypt_message` (`decrypt.rs`, `self_commit.rs`, `duplicate.rs`, `renew.rs`, `buffer_messages.rs`) |
| `RestoreMessage`, `RestoreFails`, `FinishRestore` | `restore_pending_messages` and what follows it, one buffered message at a time |
| `WipeConversation` | `wipe.rs`, at the end of `decrypt_message` |
| `ProcessWelcome` | `welcome.rs` |
| `Crash` | the process ends between any two steps; `restore.rs` |

`DecryptOutcomes` is `MlsConversation::decrypt_message` as a function from a group
and a message to its possible outcomes; a delivery and the replay of the buffer
both use it, as both call it in the code.

`ExternalJoin` has the same variables for its one client (without indices) and
`pending`, the row of `mls_pending_groups`; `joining` is the commit the
application holds. `JoinByExternalCommit`, `ClearPendingGroup`, and
`MergePendingGroup` ... `FinishMerge` are the operations of `external_commit.rs`,
the last one in the order of its keystore writes; `BufferWhilePending` is
`buffer_external_commit.rs`. Decryption is `ParseMessage` and `Merge` of `MlsGroup`
again, without renewals: the joiner proposes and commits nothing itself. The other
members are one client, the DS accepts one commit per epoch and may send the
external commit back (`EchoJoin`), which a client that is rejoining decrypts with
its old group: it removes the old leaf, and the old group is wiped.

Abstractions:

* An epoch is identified by the confirmation tag of the commit that created it;
  key material is left out. `at` in a proposal is what tells two proposals about
  one client apart: the key package of an add, the leaf key of an update.
* Handshake messages are public messages (the default, and the only ones
  `is_duplicate_message` and `maybe_self_member_commit` can look into).
* OpenMLS is not in the repository: commit creation, validation and merging are
  modelled from how CoreCrypto uses them and are marked external in
  `PROJECT.json`. A commit takes all pending proposals except the committer's own
  updates; it may not remove its sender nor add a member.
* A call that writes the keystore once is one step.
* Bounds (`Max...`) are guards of the actions that create things.

What is assumed of the environment:

* The DS accepts one commit per epoch, the first it sees; it fans it out to the
  members of the ended epoch, removed ones included, with `Echo` also to the
  sender. It may deliver in any order and more than once.
* The application sends the proposals it is given before it commits, and handles
  a 200 before it creates another commit. (`commit_accepted` does not name the
  commit that was accepted; without this a client could merge a commit the DS has
  never seen.) A message refused because it is too early, or because a proposal
  it needs has not come, is delivered again later.
* A crash loses memory, the proposals not yet sent and the pending 200.
* A Welcome joins once: OpenMLS consumes the key package it was made for, so that a
  Welcome that is delivered again is an orphan and changes nothing. (Without this
  `AppAtMostOnce` is false: joining twice by one Welcome would give the client the
  secrets of messages it has already decrypted.)

### Keystore

A table is the sequence of its rows. `SqlTable` and `WasmTable` say for every
entity what `save` does about a row that is there (update it, add another one, fail,
keep it) and what `delete` does about one that is not; `Save`, `Erase` and `FindOne`
give these words their meaning. `Backends` applies each call to both versions of one
table. `SqlIsKeyed` is a refinement: with `AsMap` (what `find_one` returns for each id) as
the mapping, the SQL tables in `KeyedTables` implement `KeyedStore`. They are the ones whose
callers save an entity again to change it; credentials, signature key pairs and buffered
messages are appended. (An IndexedDB store is a map by the browser's `put` and `delete`;
what the code adds, which key it uses, is what `BackendsAgree` compares.)

### Client

| Variable | In the code |
|---|---|
| `store` | tables `mls_credentials`, `mls_signature_keypairs`, `mls_keypackages`, the private keys of key packages, and of each group the scheme, own leaf and the leaf of the pending commit |
| `mem` | `MlsCentral::mls_client`: the `ClientIdentities` |
| `toRemove` | the refs `e2ei_rotate_all` has returned to the application |
| `usage` | what kind of application this is (see the module) |

The calls hold the central's lock, so they do not interleave; but each consists
of many writes. An action computes the trail of keystore states of the call
(`GenerateTrail`, `RequestTrail`, `RawKeypairs`, `AdoptKeypairs`, `RotateGroups`, `Prune`,
`JoinTrail`) and ends in the last one, or, with the process dead, in any earlier one. A key
package is made in three writes (`AddKeyPackage`: the key package, the key pair of its leaf, its
init key) and deleted in three, in the loop of `_prune_keypackages` (`DeleteKeyPackage`) and by
OpenMLS when a Welcome uses it. On SQL the deletion of a private key that is not there is an
error (`Refused`), after which the call returns it with the writes made so far (`PruneFails`).
`InitGenerate`, `InitLoad`, `GenerateRawKeypairs`, `InitExternal` are the branches of
`Client::init` and the externally named client; `RequestKeyPackages`, `RotateAll`,
`DeleteKeyPackages` are the operations of `key_package.rs` and `rotate.rs`;
`NewConversation`, `JoinConversation`, `OrdinaryCommit`, `CommitAccepted` and
`ClearPendingCommit` are conversations seen from the credential they use.

### PKI, enrollment, identities

`certs` are the tables of CAs and CRLs, `env` the environment in
`PkiEnvironmentProvider`, `task` the registration in progress: check, save, rebuild. The save
and the rebuild may fail (`RegistrationFails`), and `unrefreshed` is history: a registration has
returned the error of its rebuild, and no rebuild has succeeded since. `Validate` and
`ComputeState` are `validate_cert_and_revocation` and the fold of `compute_state`; X.509 path
building is a dependency and reduced to the issuers up to the root (`Path`), which must be in
the environment, and to revocation, of the certificate or of the intermediate above it; a
certificate for which no list is registered counts as not revoked. In `Enrollment`, `live` are the enrollments the application
holds, as the set of fields that are set (`has`) and what the ACME server has
validated (`acme`); `Exchange` is a request, the server and the response, which may
be lost; `Needs` and `Takes` are the `ok_or(OutOfOrderEnrollment)` and the `take()` of the
request functions, and `Awaits` the URLs that come from an earlier response. None of them asks
for the response to a challenge, so the application may go on without the one to the OIDC
challenge; `x509` remembers whether it did (`Answered`), and `spent` the same of the
enrollment a call in progress was given. `Identities` has the members in arbitrary order, as the hash map
that the code iterates gives them, and `GroupBy` as itertools groups: neighbours only.

### Proteus

`me` and `store` are `ProteusCentral` (its identity and its `GroupStore` of sessions);
`ident`, `prekeys`, `rows` are the tables; `call` is the call of each task, between two
keystore accesses; `bundles`, `outbox`, `inbox` are what the application was given;
`peers` are other devices that use a published bundle. A session is the number of
messages sent on its chain and the messages received on it: the Proteus library is
external. `SaveFails`, `CallFails` and `Crash` are the failures. `SessionsKeepContract`
is a refinement: the hand-outs of `Proteus` implement `SessionContract`, whatever the
cache, the keystore and the crashes do.

### Bindings

`FfiLocks` lists the exports of `generic.rs` and `wasm.rs` with their locks. In
`Bindings` a task is a call: it refers to the central from its start, takes its
locks, may run a callback of the application while it holds them (`Ask`, `Answer`),
and returns. `Fail`, `StoreCode`, `TakeCode`, `ResetCode` are `proteus_impl!` and
`proteus_last_error_code`; `Close` is `close` and `wipe`, which are refused while others
refer to the central. On WASM they consume the handle all the same; on UniFFI the
application's object is one more reference, and is still there if it keeps it.

## 3. Properties and runs

| Run | Instance | Checks |
|---|---|---|
| `race` | a, b in the group, c may be added by a commit, by a proposal or at its own request; proposals of updates; up to 4 commits for 2 epochs; lost replies | `EpochAgreement`, `LocalProposalsRenewed` |
| `buffer` | a, b; 3 commits for 2 epochs, 2 application messages, any delivery order, with fairness | `BufferReplayed`, `CommitsDecryptable`, `BufferedReachesApp`, `Converges` |
| `chaos` | a, b; removals, 2 repeated deliveries, a crash anywhere, lost replies, echo; symmetric in a and b | `TypeOK`, `EpochAgreement`, `AppAtMostOnce`, `DurableUntilError` |
| `external_join` | one client joins up to twice while another member makes commits (3 epochs), adds it or sends a message; echo, lost replies, a crash between any two writes; with fairness | `JoinTypeOK`, `JoinAgreement`, `MergeCompletes` |
| `keystore` | every table, 3 ids, 2 values, 3 rows | `BackendsTypeOK`, `BackendsAgree`, `SqlIsKeyed` |
| `client` | one scheme, 2 conversations, 2 certificates, 3 key packages, 2 seconds; crash after every write | `ClientTypeOK`, `GroupsSignable`, `Restartable`, `KeyPackagesOwned`, `NewestCertificateUsed`, `KeyPackagesUsable` |
| `e2ei` | 2 roots, an intermediate of one of them, a leaf below it, a CRL that revokes either of the two, 2 enrollments, one lost response, failing saves and refreshes, restarts | `EnrollmentTypeOK`, `EnvFresh`, `IntermediatesTrusted`, `StateIsTrue`, `HeldOnce`, `RotationHasToken` |
| `proteus` | 2 sessions, a cache of one, 2 prekey ids with the last resort one, a peer, a keystore fault, a crash | `ProteusTypeOK`, `SessionsKeepContract`, `BundlesUsable`, `OneIdentity` |
| `bindings` | WASM, 3 tasks, 4 calls of 7 exports of different locks, with callbacks; close and wipe; with fairness | `BindingsTypeOK`, `NoUseAfterClose`, `EveryCallReturns` |

Conversations:

* `EpochAgreement` - no fork: what a client has in memory or on disk is in an epoch
  of the DS's history, with its tag and members.
* `LocalProposalsRenewed` - when a client merges somebody else's commit, everything
  it had pending is in that commit or pending again. Two cases are excepted: an update the
  client proposed beside a commit of its own that carries proposals, which the
  documentation of `decrypt.rs` excepts too ("either ... or"), and a pending commit with
  another member's update in it, on which the renewal fails (the finding at `renew.rs:133`).
* `DurableUntilError` - what `#[durable]` asks (between two calls the keystore has the group
  that is in memory, `Durable`) is kept by every call but the two that return an error after
  they have merged a commit: a renewal that fails (`decrypt.rs:212`) and a replay that fails
  (`decrypt.rs:219`). Both happen in `chaos`, where `Durable` itself is violated.
* `BufferReplayed`, `BufferedReachesApp` - a message that came an epoch early is
  replayed by the call that enters its epoch, and is only dropped from the buffer
  by handing it to the application, in the same step or in the one that ends the call
  (a wipe comes in between when the replay has removed the client).
* `CommitsDecryptable` - every proposal an accepted commit refers to is with each
  member that still has to decrypt the commit, or on its way.
* `AppAtMostOnce` - no application message is handed over twice.
* `Converges` - every client that stays a member ends in the last epoch.
* `JoinAgreement` - the joiner only ever holds epochs of the DS's history, whatever
  pending group an earlier attempt, a failed call or a crash left behind.
* `MergeCompletes` - calling the merge again after errors and crashes gets through.

Everything else:

* `BackendsAgree`, `SqlIsKeyed` - the tables that are used as maps are maps, the same
  ones on both platforms; the one difference is the removal of an entity that is not
  there.
* `GroupsSignable`, `Restartable`, `KeyPackagesOwned`, `NewestCertificateUsed` - wherever
  a call was cut off, the client can be loaded again, has the key of every leaf it
  holds or is about to hold and the bundle of every key package, and prefers its newest
  certificate.
* `KeyPackagesUsable` - a key package keeps both private keys as long as it is stored,
  wherever a pruning or a join is cut off, and a call that returns leaves none of its own
  without them. (A process that ends between the three writes of a new key package does:
  the finding at `key_package.rs:64`.)
* `EnvFresh`, `StateIsTrue` - credentials are judged by what the keystore holds, not by
  an older environment, unless the last refresh failed and the registration said so; the
  state shown of a conversation follows from that, a revoked or missing intermediate
  degrading the members below it.
* `IntermediatesTrusted` - every registered intermediate was issued by the registered
  root.
* `HeldOnce` - an enrollment, with its private key, is never in two places.
* `RotationHasToken` - a client whose certificate is from an enrollment that was given
  the response to its OIDC challenge has a refresh token to renew it with, whatever other
  responses were lost, stashes popped and registrations failed.
* `SessionsKeepContract` - ciphertexts handed out have keys of their own and a message is
  handed over once, through eviction, failed saves and crashes.
* `BundlesUsable` - the prekey of a published bundle is there until it is used.
* `OneIdentity` - identity, sessions and bundles belong together, through migration.
* `NoUseAfterClose` - close and wipe never take the central from a call.
* `EveryCallReturns` - no call waits for ever for a lock or a callback.

Why the bounds are enough. Conversations: two epochs and four commits (`race`) give a race in
each epoch, three a race followed by a commit of the renewed proposals. A buffered message
is one epoch ahead, so two epochs contain "buffered, replayed, and then a later
commit". `MaxPastEpochs` is 1 instead of the code's 3, so that a message can be too old
within two epochs. Two repeated deliveries and one crash allow a message before,
during and after the crash. Keystore: a row saved, one to compare it with, and one
more, so that a wrong row can be changed or removed. Client: two rotations, of which
the second replaces a certificate, in two conversations of which one can be ahead;
two credentials can be of the same second or not. `InBounds` starts the clock with the first
certificate (before it, time decides nothing), expires one key package at a time, and does not go
on from a state in which crashes have torn two key packages apart.
PKI: two roots, so that a wrong one
exists. Proteus: a cache of one entry is always full, so that each use of the other
session evicts; with two ids the only one-time prekey is used up at once and the next
call is at the limit. Bindings: three tasks are a holder, a waiter and one that
closes, fails or asks. Where deadlock is not checked, the bounds stop every behaviour.

Fairness. `FairSpec` (`buffer`) is weak fairness per client on: the steps of a call in
progress (futures run to completion), handling a 200 and sending proposals (the
application follows `merge.rs`), and deliveries (the DS's queue is drained; a message
that is refused as too early stays in `net`). Nothing is assumed about creating
commits or messages. `FairJoinSpec` has weak fairness on the steps of a call and on the
application calling the merge while it has a 200. `BindingsSpec` has weak fairness on
`Step(t)`: the executor polls a future that can go on, and the application answers a
callback without waiting for a call of its own (with `Reentrant = TRUE` it does, and
`EveryCallReturns` fails: the lock is not reentrant). A waiter could starve only if
others kept calling; a behaviour has `MaxCalls` calls, and the locks of async-lock are
fair.

Runs that show a disagreement between the code and its documentation:

| Run | Violated | What happens |
|---|---|---|
| `echo_skips_buffer` | `BufferReplayed` | the client's own commit, echoed by the DS, is merged by `self_commit.rs` without replaying the buffer |
| `proteus_wasm` | `BundlesUsable` | two calls of `proteus_new_prekey_auto` share the read lock and pick the same id; the second prekey replaces the first |
| `user_identities` | `AllUserIdentities` | identities are grouped among neighbours only, in the order of a hash map, and a later group of a user replaces an earlier one |

More disagreements that the models have, with the instance that shows them (each is
described, with the lines and the quotations, in `PROJECT.json` under "findings"):

| Where | What happens | Instance |
|---|---|---|
| `decrypt.rs:219` | a replay that fails leaves memory an epoch ahead of the keystore | `chaos`: `Durable` |
| `duplicate.rs:34` | a proposal renewed for the next epoch is refused as a duplicate of the one it renews | `race` |
| `renew.rs:133` | renewing another member's update from one's own lost commit fails | `race`: `LocalProposalsRenewed` without the exception `CarriesUpdate` |
| `decrypt.rs:212` | a client removed while it had something to renew fails before it saves and wipes the group | `chaos`: `Durable` |
| `storage.rs:206` | the WASM keystore has one buffered message per group | `buffer` with `Overwrite = TRUE`: `BufferedReachesApp` |
| `external_commit.rs:184` | a failed merge has saved the group; the retry takes itself for a rejoin and drops the buffered messages | `external_join` |
| `external_commit.rs:75` | a forgotten pending group makes the client refuse a Welcome | `external_join` |
| `client/mod.rs:296` | a client with two schemes cannot be loaded again: its two Basic credentials conflict | `client` with two `Schemes`: `Restartable` |
| `rotate.rs:229` | old key packages deleted before the rotation's commits are accepted take the credential with them | `client` with usage `early_delete`: `GroupsSignable` |
| `key_package.rs:64` | a process that ends between the three writes of a key package leaves one without private keys, which is handed out later | `client`: `UsableStep` for calls that do not return |
| `rotate.rs:95` | an enrollment that goes on without the response to its OIDC challenge ends in a certificate without a refresh token | `e2ei`: `RotationHasToken` for any certificate |
| `init_certificates.rs:55` | a refresh that fails leaves the environment stale, and the root cannot be registered again | `e2ei`: `EnvFresh` without `unrefreshed` |
| `wasm.rs:2342` | the error code is read and reset in two steps: a failure in between is lost | `bindings`: `StoreCode` between `TakeCode` and `ResetCode` |
| `init_certificates.rs:23` | two trust anchors registered at the same time on WASM: the second replaces the first | `PkiSpec` with `Platform = "wasm"` and two tasks: `IntermediatesTrusted` |
| `crl.rs:64`, `generic.rs:1681`, `pki.rs:87` | read off the code, see "findings" | |

In the passing runs either these cases do not occur (`buffer` without echo and with the SQL
keystore; one scheme; the careful application) or the property names them (`DurableUntilError`,
`KeyPackagesUsable`, `EnvFresh`, `RotationHasToken`). The theorems below hold with all of them,
except where they name a hypothesis.

## 4. Proofs

Every theorem is about the specification the runs check, for any values of the
constants that satisfy the named assumptions of the modules (`...Assumption`): sets of
clients, ids, exports, tasks and certificates of any size, and any bounds. Where a
theorem has a hypothesis, the property is violated without it; the table names what
shows it.

| Theorem | States | Hypothesis |
|---|---|---|
| `ConversationProofs!TypeCorrect` | `[]TypeOK` | |
| `ConversationProofs!NoFork` | `[]EpochAgreement` | |
| `ConversationProofs!DeliveredOnce` | `[]AppAtMostOnce` | |
| `ConversationProofs!BufferedIsReturned` | `BufferedReachesApp` | `~Overwrite`: SQLCipher (`storage.rs:206`) |
| `ConversationProofs!CallsAreDurable` | `DurableUntilError` | in the property: `StopsEarly` (`decrypt.rs:212`, `decrypt.rs:219`) |
| `ConversationProofs!DurableUntilEarlyStop` | `[]Durable` | `[][NoEarlyStop]_vars`: no decryption fails after its merge (`decrypt.rs:212`, `decrypt.rs:219`) |
| `ConversationProofs!ReplayedInTime` | `[]BufferReplayed` | `[][EveryReplayEnds]_vars`: nor is an echo merged (run `echo_skips_buffer`), nor does the process end in a call |
| `ConversationProofs!AcceptedIsDecryptable` | `[]CommitsDecryptable` | `UpdatesOnly`: SQLCipher, and the applications propose only updates (`duplicate.rs:34`; proposals lost in a crash) |
| `ConversationProofs!NothingAtStakeIsLost` | `LocalProposalsRenewed` | in the property: `CarriesUpdate`, `BesideCommit` (`renew.rs:133`) |
| `ExternalJoinProofs!JoinTypeCorrect` | `[]JoinTypeOK` | |
| `ExternalJoinProofs!JoinerNeverForks` | `[]JoinAgreement` | |
| `BackendsProofs!BackendsTyped` | `[]BackendsTypeOK` | |
| `BackendsProofs!SameEntities` | `[]BackendsAgree` | |
| `BackendsProofs!SqlImplementsMap` | `SqlIsKeyed` (refinement of `KeyedStore`) | |
| `ClientProofs!ClientTyped` | `[]ClientTypeOK` | |
| `ClientProofs!SignsInEveryGroup` | `[]GroupsSignable` | `Scope` |
| `ClientProofs!RestartsAfterCrash` | `[]Restartable` | `Scope` |
| `ClientProofs!PackagesStayUsable` | `KeyPackagesUsable` | in the property: calls that return (`key_package.rs:64`) |
| `ClientProofs!PackagesStayOwned` | `[]KeyPackagesOwned` | `Scope` |
| `ClientProofs!UsesNewestCertificate` | `[]NewestCertificateUsed` | `Scope` |
| `EnrollmentProofs!EnrollmentTypeCorrect` | `[]EnrollmentTypeOK` | |
| `EnrollmentProofs!EnvironmentIsFresh` | `[]EnvFresh` | in the property: `unrefreshed` (`init_certificates.rs:55`) |
| `EnrollmentProofs!ConversationStateIsTrue` | `[]StateIsTrue` (two members) | in the property: `unrefreshed` |
| `EnrollmentProofs!EveryConversationStateIsTrue` | `[]StateOfAllIsTrue` (any number of members) | in the property: `unrefreshed` |
| `EnrollmentProofs!IntermediatesStayTrusted` | `[]IntermediatesTrusted` | UniFFI (`init_certificates.rs:23`) |
| `EnrollmentProofs!EnrollmentHeldOnce` | `[]HeldOnce` | UniFFI (on WASM two pops share the lock) |
| `EnrollmentProofs!TokenForRotation` | `[]RotationHasToken` | in the property: UniFFI, answered enrollments (`rotate.rs:95`) |
| `ProteusProofs!ProteusTypeCorrect` | `[]ProteusTypeOK` | |
| `ProteusProofs!IdentityIsOne` | `[]OneIdentity` | |
| `ProteusProofs!BundlesStayUsable` | `[]BundlesUsable` | UniFFI (run `proteus_wasm`) |
| `ProteusProofs!SessionsHonourContract` | `SessionsKeepContract` (refinement of `SessionContract`) | |
| `BindingsProofs!BindingsTypeCorrect` | `[]BindingsTypeOK` | |
| `BindingsProofs!CentralOutlivesCalls` | `[]NoUseAfterClose` | |

`Scope` is `Platform = "generic"`, one signature scheme, and an application that is
careful (it deletes the old key packages after the commits of its rotation) or that
names its client externally. The application may still be either, with any number of
conversations, certificates and key packages. Two schemes conflict when the client is
loaded (`client/mod.rs:296`), IndexedDB has one credential row per client id, and an
application that deletes early takes the credential away (`rotate.rs:229`).

Induction. The library's induction theorems take an operator, which the installed
provers cannot instantiate. `KeystoreProofs` states induction about sets instead
(`NatSetInduction`, `BoundedInduction`: a set that has 0, and n + 1 with n, has every number),
and a proof by induction names the set of the n for which the claim holds. Recursive
functions over a sequence (`Keep`, the trails of `Client`, the fold of `ComputeState`) are
unfolded that way: the function that the definition chooses exists, by induction on the
length, and so satisfies its equation (`SaveUnfold`, `FoldUnfold` and the like).

### Conversations

`EpochAgreement` is not inductive: a merge applies a pending or a delivered commit,
and nothing in the property says that commit is the accepted one. `Inv` adds

* `GroupsAgree` - a pending commit was created, in the group's epoch, and only an
  operational group has one;
* `HistoryOK` - the DS's history consists of created commits, one per epoch, and its
  rosters follow from them;
* `TagsUnique` - a confirmation tag identifies a commit, so `eq_pending_commit`
  compares what matters;
* `PostedIsAccepted` - a 200 that waits is about the pending commit;
* `DeliveredIsAccepted` - commits on the network, in a buffer or being replayed
  are accepted ones, and so are the epochs of Welcomes.

`Init => Inv` is `InitInv`, preservation is `StepInv`, with one lemma per group of
actions (`CreateInv`, `CommitInv`, `DecryptInv`, `RestoreInv`); `LocalStep` factors
out the steps that touch one client only, `OutcomeOK` says what `DecryptOutcomes` may
do to a group, `HistoryGrows` that appending a commit keeps what was true of the
history.

`DeliveredOnce` rests on `AppInv`, which says why a message that was handed over and
comes again, from the network or from the buffer, is not decrypted again: its secret is
spent, or the group was joined after its epoch, or the client is out of the group in an
epoch between the group's and the message's, so that this group never gets there. The
last case needs the history of memberships: a group's client is a member from the epoch
it joined in to the group's epoch and not in the one before (`Stays`), commits add
nobody who is a member (`CommitsValid`), and no Welcome on its way is the one a group
was joined by (`WelcomesOK`). `Moves` says what an operation may do to a group, and
`QuietStep`, `DecryptingStep`, `JoiningClient` carry `AppInv` through the kinds of steps.
The first attempt at this proof failed on a Welcome processed twice, which the model
then allowed and OpenMLS does not: see "what is assumed of the environment".

`BufferedIsReturned` adds `ReplayOK`: while the buffer is replayed, an application
message in it waits to be decrypted or is among what the call will return.

`Durable` and `BufferReplayed` are false in general, and the theorems say exactly when:
their hypotheses are action formulas that exclude single events and nothing else.
`StopsEarly` is a call that returns an error after it has merged a commit, because the
replay or a renewal failed; `MergesEcho` is the merge of `self_commit.rs`; `CrashesInCall`
is a crash while a call is in progress. With the first one excluded (`CallsAreDurable` says it
step by step) every step ends with
memory and keystore equal or with a call that will save; with all three, the buffer is
ahead of the group whenever no call is in progress (`AheadFor`). That makes the list of
findings about replays complete for this model.

`AcceptedIsDecryptable` needs a ledger of every proposal that was sent (`UpdatesInv`): for
each member it is in that member's group, or on its way to it (on the network or
buffered, or among what a replay has still to do), or past - the commit that ended its
epoch does not name it, or is the member's own (`Reaches`). A member that merges leaves
the epoch of the proposals it drops; one that crashes falls back on a keystore that has
them too (`Behind`, `Holder`); a client never commits a proposal that has not been sent,
since its own updates are not in its commits (`OwnUpdates`, `CommitOfUpdates`). The rosters
stay the founders. With other kinds of proposals the property is false:
`is_duplicate_message` does not compare senders, so that two members' proposals to add or
to remove the same client are one to a receiver and two to a commit; and a proposal lost
in a crash before it was sent may be committed all the same.

`NothingAtStakeIsLost` rests on `Stakes`: a pending commit is the client's own and has all
proposals of its own that are pending, but updates; the keystore is never ahead of
memory; what is delivered was proposed by somebody else. With it, what renewal looks at
covers what is at stake but for the two exceptions the property names, so these are the
only ways in which a proposal is lost. TLC finds each of them within 13 steps when its
exception is dropped, and checked `Stakes` on complete instances before the proof.

### Joining by external commit

`IInv` relates each variable to the DS's log: groups are in epochs of the log
(`GroupOK`), messages on the network, in the buffer and in the call are accepted commits
(`Sent`), Welcomes are into epochs of the log (`Invites`), and the pending group is the
one the application has a commit for, or there is none, so that a 200 that waits is
about the pending group (`PendingOK`). `LogGrows` carries all of it over to a longer log.

### Keystore

`KeystoreProofs` describes a table with unique ids by the rows it holds: what `Upsert`,
`WithoutRow`, `Save` and `Erase` do to that set, for each way of saving and deleting.
`KeyedOK`, inductive over the calls on both backends: an id has at most one row in
every IndexedDB store and in every keyed SQL table, and the two hold the same rows.
The refinement maps a table to what `find_one` returns for each id (`AsMap`);
`SaveIsPut` and `EraseIsDrop` are the two steps of `KeyedStore`. For the tables with repeated
ids, `BackendsTyped` needs what `Keep` (a `DELETE ... WHERE`) leaves of a sequence: some of
its rows, in their order.

### Client

`TypeInv` adds to `ClientTypeOK` how the rows relate to the counters: keys, certificates and
key packages in the keystore were given out, and no row is from the future. The
properties then need `IdentityInv`:

* `GoodStore` - the first key pair is the client's and every certificate is for it
  (`Keyed`); every key package has a stored credential, and so has every leaf, current or pending, of a conversation; certificates come in the order of
  their numbers, which is what makes the newest one win among those of one second; and
  how far an init that was cut off may have got (`Begun`);
* `Loaded` - the bundles of a running client are the ones a load would find (`Mirror`), so
  that a restart changes nothing;
* `Kept` - what the application is to delete leaves a credential.

Each trail has a lemma about every store in it, so that a crash after any write is
covered: the order of the writes matters here (key packages after the credential they
are for, the credential before the commits that use it, the private keys removed after
the key package). `PackagesStayUsable` needs no `Scope`: it follows every trail with what the
writes do to key packages and private keys only, for any schemes on either platform, and
needs of the invariants that numbers of key packages are fresh. `LoadedFrom` says what load makes of a store. TLC checked `IdentityInv` on
the instance of `client` before it was proved.

### PKI and enrollment

`PkiShape` says what any step does to the registrations: nothing, a call that begins,
saves, refreshes, fails or ends, or a restart; `EnvFresh` then is inductive with the types. On UniFFI

* `Anchored` - a root is never replaced, so that what the environment trusts, and what
  the intermediate of a registration in progress was checked against, is still the
  registered root;
* `OnePlace` - one call at a time, ids are given out once, and what a pop found stays
  in the stash until the pop removes it;
* `Tokens` - an enrollment that got the response to its OIDC challenge has left a refresh token,
  wherever it is now: with the application, stashed, or being popped.

`ComputeState` is a fold that starts at `Verified` and remembers the worst it has seen;
`ComputedState` shows, by induction over the members, that it gives what the definition of
the states says of the whole list (`StateOf`), and `EnvFresh` that it looks at the keystore's
certificates.

### Proteus

The cache first: `RemoveFirstOnce`, `UpdateCache`, `InsertCache`, `RestoredCache` show that
`GroupStore` keeps every entry once in its order of use and never more than `Limit`
(`CacheOK`). `IdentityInv` adds to `OneIdentity` that sessions in the cache and in calls
are of the identity too and that there is nothing to own before there is an identity.
`BundlesInv` adds that the id `get_free_id` found is still free when its prekey is saved,
because no other call is in progress (`Solo`): this is what WASM's shared lock breaks.

The contract needs to know that no session anywhere, cached, saved or held by a call,
is behind what was handed out or over. `ContractInv`:

* `Placed` - a session in the cache or in the keystore is not behind: its counter is at
  least that of every ciphertext handed out on its chain, it has seen every one-time
  message handed over on its tag, and its tag cannot be started again (`Fits`);
* `PendingOK` - the same of the session a call has started and not saved;
* `Received` - the prekey of a message that was handed over is gone (`SpentTag`), so
  that a session deleted later cannot be started again from the same message;
* `Separate` - ciphertexts handed out, and those of a batch in progress, are pairwise
  different;
* `KeysUsed` - keys and tags are drawn once; `BoxFirst` - the Cryptobox is migrated
  before the first init, so that its keys do not come back;
* `Alone` - a batch, a decryption or an init in progress is the only call, because
  these exports take the write lock on WASM too (`WriteLocks`, from the table of
  `FfiLocks`). Migrations and new prekeys share the lock there, and do no harm here.

A failing save is the delicate case: the cache is then ahead of the keystore, and may be
evicted or lost. It is harmless because a ciphertext or plaintext is only handed out
after a save that succeeded (`EmitGood`, `ReceiveGood`, `PutGood`). `RefinementStep` maps
`Encrypt` and `FinishBatch` to `Send`, `Decrypt` and `FinishSession` to `Receive`, and
everything else to a stutter. TLC has checked `Inv` on the instances of `race` and
`chaos` and `ContractInv` on that of `proteus` before they were proved.

### Bindings

`CentralInv` adds `HandleOpen` to `NoUseAfterClose`: while the application has its handle
the central is open, without which a new call could find a closed central. `StepShape` says once for all steps of a call what they do to the calls.

### Only model-checked

* `Converges`, `MergeCompletes`, `EveryCallReturns`: liveness, out of the prover's reach.
* `AllUserIdentities`: violated.

Every invariant and safety property of the passing runs is stated by a theorem. `BufferReplayed`
and `CommitsDecryptable` have hypotheses which the instance of `buffer` keeps to: no echo, no
crash, no proposals but the updates renewals make, and three commits, which with two clients
are too few for a renewal to fail. `chaos` has echoes, crashes and renewals and replays that
fail; the properties of both runs that are proved without hypotheses are proved of all of it.

## 5. Plan

Done: the modules of section 2, the runs of section 3 and the proofs of section 4.
What would be worth adding:

1. `CommitsDecryptable` for all kinds of proposals, once `is_duplicate_message` compares
   senders and a proposal is sent before it can be committed: the ledger of `UpdatesInv` is
   the argument, `IsUpdate` the part to replace.
2. The theorems of `ClientProofs` for several schemes, once credentials are saved and loaded
   per scheme.
3. A safety property for the merge of a pending group that fails half way
   (`external_commit.rs:184`), which is only a finding now.

In `Conversation`, `wipe_conversation` called by the application and a member that is
added again would need a third epoch, which is beyond what `chaos` can explore.

## 6. Not modelled

* Cryptography and X.509 path validation (dependencies and `mls-provider`), key
  material, serialisation and the conversions of types in the FFI.
* The Kotlin and Swift wrappers: they forward. The Kotlin Proteus client asks for the
  error code after its own call has failed, when another call may have stored its own.
* `commit_delay.rs`: a pure function with a floating-point logarithm whose result is
  advice to the application; nothing in the library waits for it.
* `credential/crl.rs`: a filter over distribution points; see "findings".
* Sub-conversations (`parent_id`), exported secrets, configuration, external senders.
* Encryption at rest, schema migrations, and the transactions inside one keystore
  call, which is atomic here.
* Logging, and the tools under `interop`, `xtask`, `keystore-dump` and `extras`.

## 7. Running

    tlc -config race.cfg MCConversation
    tlc -config external_join.cfg MCExternalJoin
    tlc -config keystore.cfg MCBackends
    tlc -config client.cfg MCClient
    tlc -config e2ei.cfg MCEnrollment
    tlc -config proteus.cfg MCProteus
    tlc -config bindings.cfg MCBindings
    for m in *Proofs.tla; do tlapm $m; done

`buffer`, `chaos` and `echo_skips_buffer` are further configurations of
`MCConversation`, `proteus_wasm` of `MCProteus`, `user_identities` of `MCIdentities`.
