------------------------------- MODULE Client -------------------------------
(***************************************************************************)
(* The MLS client (crypto/src/mls/client) with its credentials, signature  *)
(* keys and key packages, and the rotation of its credential to an X509    *)
(* certificate (crypto/src/e2e_identity/rotate.rs).                        *)
(*                                                                         *)
(* A call holds the central's lock from its first to its last keystore     *)
(* access, so calls do not interleave; but the application can die between *)
(* two writes.  A call is therefore the sequence of the keystore states it *)
(* goes through, its trail: it ends in the last one, or, when the          *)
(* application dies, in an earlier one.                                    *)
(***************************************************************************)
EXTENDS Keystore, FfiLocks

CONSTANTS
    Schemes,        \* signature schemes of the configured ciphersuites
    Groups,         \* conversations
    Usages,         \* how the application may use the library, see below
    None,           \* no conversation, no pending commit
    NbKeyPackages,  \* nb_init_key_packages, and what the application asks for
    MaxKeys, MaxCerts, MaxKeyPackages, MaxTime   \* bounds of the instance

ASSUME ClientAssumption ==
    /\ IsFiniteSet(Schemes) /\ IsFiniteSet(Groups)
    /\ NbKeyPackages \in Nat
    /\ {MaxKeys, MaxCerts, MaxKeyPackages, MaxTime} \subseteq Nat

VARIABLES
    store,      \* the keystore: creds, keys, kps, their private keys, groups
    mem,        \* the Client, if it is initialised
    toRemove,   \* MlsRotateBundle::key_package_refs_to_remove, at the application
    usage,      \* the application's usage in this behaviour
    fresh,      \* next signature key, certificate and key package
    now,        \* the clock, in seconds
    bound       \* an init has succeeded

clientVars == <<store, mem, toRemove, usage, fresh, now, bound>>

(***************************************************************************)
(* Usage "careful": an application that hands the old key packages to      *)
(* delete_keypackages once every conversation has left the old credential, *)
(* prunes the expired ones before, and opens conversations with its        *)
(* certificate once it has one.  "early_delete" hands them over as soon as *)
(* e2ei_rotate_all has returned them.  "basic_again" goes on opening Basic *)
(* conversations.  "external" generates keys first and gets its id later.  *)
(***************************************************************************)
Me == "me"
Temporary == "tmp"

Off == [on |-> FALSE, ids |-> [sc \in Schemes |-> << >>]]

\* A credential: Credential::new_basic of a name, or a certificate for a key.
Basic(name) == [type |-> "basic", name |-> name, cert |-> 0, pk |-> 0]
X509(n, pk) == [type |-> "x509", name |-> Me, cert |-> n, pk |-> pk]

CredentialTable == Descriptor(Platform, "mls_credentials")
KeyPairTable    == Descriptor(Platform, "mls_signature_keypairs")

-----------------------------------------------------------------------------
(* ClientIdentities: per scheme the credential bundles, oldest first.      *)

OfType(ids, sc, type) == Keep(ids[sc], {b \in ToSet(ids[sc]) : b.cred.type = type})

HasBundle(ids, sc, type) == OfType(ids, sc, type) # << >>

\* find_most_recent_credential_bundle
MostRecent(ids, sc, type) == Last(OfType(ids, sc, type))

\* find_credential_bundle_by_public_key
HasKey(ids, sc, type, pk) == \E b \in ToSet(ids[sc]) : b.cred.type = type /\ b.pk = pk

\* Every bundle with the key of this credential.
RemoveKeyOf(ids, gone) ==
    LET pks(sc) == {b.pk : b \in {c \in ToSet(ids[sc]) : c.cred \in gone}}
    IN  [sc \in Schemes |-> Keep(ids[sc], {b \in ToSet(ids[sc]) : b.pk \notin pks(sc)})]

\* remove: every bundle with this credential.
RemoveCredential(ids, gone) ==
    [sc \in Schemes |-> Keep(ids[sc], {b \in ToSet(ids[sc]) : b.cred \notin gone})]

-----------------------------------------------------------------------------
(* save_identity: the credential row, then the key pair, then the bundle.  *)

SaveCredential(st, b) ==
    [st EXCEPT !.creds = Save(CredentialTable, @, Me, [cred |-> b.cred, at |-> now]).rows]

SaveKeyPair(st, b) ==
    [st EXCEPT !.keys = Save(KeyPairTable, @, b.pk, [scheme |-> b.scheme, owner |-> Me]).rows]

\* Only the credential.
SaveCredentialsOnly(st, bs) ==
    [n \in 1 .. 2 * Len(bs) |-> SaveCredential(st, bs[(n + 1) \div 2])]

\* The trail of saving some identities, one after the other.
SaveIdentities(st, bs) ==
    LET after[n \in 0 .. 2 * Len(bs)] ==
          IF n = 0 THEN st
          ELSE IF n % 2 = 1 THEN SaveCredential(after[n - 1], bs[(n + 1) \div 2])
          ELSE SaveKeyPair(after[n - 1], bs[n \div 2])
    IN  [n \in 1 .. 2 * Len(bs) |-> after[n]]

Bundle(b) == [cred |-> b.cred, pk |-> b.pk, at |-> now]

\* push_credential_bundle of bundles whose keys or certificates are new.
PushAll(ids, bs) ==
    LET Mine(sc) == Keep(bs, {b \in ToSet(bs) : b.scheme = sc})
    IN  [sc \in Schemes |-> ids[sc] \o [i \in 1 .. Len(Mine(sc)) |-> Bundle(Mine(sc)[i])]]

-----------------------------------------------------------------------------
(* Key packages.                                                           *)

\* One write of OpenMLS's KeyPackage::builder().build(): the key package, the
\* key pair of its leaf, the private half of its init key.
AddKeyPackage(st, n, sc, b, step) ==
    CASE step = 1 -> [st EXCEPT !.kps = Append(@, Row(n, [cred |-> b.cred, pk |-> b.pk, scheme |-> sc]))]
      [] step = 2 -> [st EXCEPT !.enc = @ \cup {n}]
      [] step = 3 -> [st EXCEPT !.hpke = @ \cup {n}]

\* generate_new_keypackages, as a trail.
GenerateKeyPackages(st, first, sc, b, count) ==
    LET after[n \in 0 .. 3 * count] ==
          IF n = 0 THEN st
          ELSE AddKeyPackage(after[n - 1], first + ((n - 1) \div 3), sc, b, ((n - 1) % 3) + 1)
    IN  [n \in 1 .. 3 * count |-> after[n]]

\* The private keys before the key package.
DeleteKeyPackageLast(st, n, step) ==
    CASE step = 1 -> [st EXCEPT !.hpke = @ \ {n}]
      [] step = 2 -> [st EXCEPT !.enc = @ \ {n}]
      [] step = 3 -> [st EXCEPT !.kps = Without(@, n), !.expired = @ \ {n}]

\* One turn of the loop of _prune_keypackages.
DeleteKeyPackage(st, n, step) ==
    CASE step = 1 -> [st EXCEPT !.kps = Without(@, n), !.expired = @ \ {n}]
      [] step = 2 -> [st EXCEPT !.hpke = @ \ {n}]
      [] step = 3 -> [st EXCEPT !.enc = @ \ {n}]

\* _prune_keypackages: the expired ones and the ones in refs, as a trail.
Doomed(st, refs) ==
    Keep([i \in 1 .. Len(st.kps) |-> st.kps[i].id], st.expired \cup refs)

\* A delete of the loop fails: SQL refuses to delete a private key that is not
\* there, IndexedDB does not.
Refused(st, doomed, n) ==
    LET id == doomed[((n - 1) \div 3) + 1]
    IN  \/ n % 3 = 2 /\ id \notin st.hpke /\ Descriptor(Platform, "mls_hpke_private_keys").erase = "exact"
        \/ n % 3 = 0 /\ id \notin st.enc /\ Descriptor(Platform, "mls_encryption_keypairs").erase = "exact"

\* The error ends the loop: the rest of the trail repeats the store it left.
Prune(st, refs) ==
    LET doomed == Doomed(st, refs)
        after[n \in 0 .. 3 * Len(doomed)] ==
          IF n = 0 THEN st
          ELSE IF \E m \in 1 .. n : Refused(st, doomed, m) THEN after[n - 1]
          ELSE DeleteKeyPackage(after[n - 1], doomed[((n - 1) \div 3) + 1], ((n - 1) % 3) + 1)
    IN  [n \in 1 .. 3 * Len(doomed) |-> after[n]]

PruneFails(st, refs) ==
    \E m \in 1 .. 3 * Len(Doomed(st, refs)) : Refused(st, Doomed(st, refs), m)

EndOf(st, trail) == IF trail = << >> THEN st ELSE Last(trail)

\* mls_fetch_keypackages(count), the last rows of the SQL table and the first
\* of IndexedDB's, then the ones of the ciphersuite.
Fetched(st, sc, count) ==
    LET rows == IF Platform = "wasm" THEN 1 .. count
                ELSE (Len(st.kps) - count + 1) .. Len(st.kps)
    IN  Cardinality({i \in rows \cap (1 .. Len(st.kps)) : st.kps[i].val.scheme = sc})

\* One too many.
LackingAndOne(st, sc, count) == count + 1 - Fetched(EndOf(st, Prune(st, {})), sc, count)

\* request_key_packages: prune, fetch, generate what is missing.
Lacking(st, sc, count) == count - Fetched(EndOf(st, Prune(st, {})), sc, count)

RequestTrail(st, first, sc, b, count) ==
    LET pruned == Prune(st, {})
    IN  IF PruneFails(st, {}) THEN pruned
        ELSE pruned \o GenerateKeyPackages(EndOf(st, pruned), first, sc, b, Lacking(st, sc, count))

\* Client::generate, as a trail: the identities, then the key packages of each.
\* Only the first request can find expired key packages, and fail.
GenerateTrail(st, bs, first) ==
    LET after[i \in 0 .. Len(bs)] ==
          IF i = 0 THEN SaveIdentities(st, bs)
          ELSE IF i > 1 /\ PruneFails(st, {}) THEN after[i - 1]
          ELSE after[i - 1] \o RequestTrail(Last(after[i - 1]), first + (i - 1) * NbKeyPackages,
                                            bs[i].scheme, Bundle(bs[i]), NbKeyPackages)
    IN  after[Len(bs)]

-----------------------------------------------------------------------------
(* load.                                                                   *)

\* The credentials as the table returns them.
UnsortedCredentials(rows) == [i \in 1 .. Len(rows) |-> rows[Len(rows) + 1 - i].val]

\* credentials.sort_by(created_at), which is stable.
SortedCredentials(rows) ==
    LET Rank(i) == Cardinality({j \in 1 .. Len(rows) :
                        \/ rows[j].val.at < rows[i].val.at
                        \/ rows[j].val.at = rows[i].val.at /\ j <= i})
    IN  [n \in 1 .. Len(rows) |-> rows[CHOOSE i \in 1 .. Len(rows) : Rank(i) = n].val]

\* One scheme of the loop: the first key pair of the scheme, or a new one,
\* for every credential.
LoadScheme(acc, sc, creds) ==
    LET found  == {i \in 1 .. Len(acc.keys) : acc.keys[i].val.scheme = sc}
        pk     == IF found = {} THEN acc.next
                  ELSE acc.keys[CHOOSE i \in found : \A j \in found : i <= j].id
        cbs    == [i \in 1 .. Len(creds) |-> [cred |-> creds[i].cred, pk |-> pk, at |-> creds[i].at]]
        refused == \E i \in 1 .. Len(cbs) :
                      \/ cbs[i].cred.type = "basic" /\ cbs[i].cred.name # Me
                      \/ cbs[i].cred.type = "x509" /\ cbs[i].cred.pk # pk
                      \/ \E j \in 1 .. (i - 1) : cbs[j] = cbs[i]   \* CredentialBundleConflict
    IN  IF ~acc.ok THEN acc
        ELSE [ok   |-> ~refused,
              next |-> IF found = {} THEN acc.next + 1 ELSE acc.next,
              keys |-> IF found = {}
                       THEN Save(KeyPairTable, acc.keys, pk, [scheme |-> sc, owner |-> Me]).rows
                       ELSE acc.keys,
              ids  |-> [acc.ids EXCEPT ![sc] = cbs]]

Load(st, order, next) ==
    LET creds == SortedCredentials(Keep(st.creds, {r \in ToSet(st.creds) : r.id = Me}))
        after[n \in 0 .. Len(order)] ==
          IF n = 0 THEN [ok |-> TRUE, keys |-> st.keys, next |-> next, ids |-> Off.ids]
          ELSE LoadScheme(after[n - 1], order[n], creds)
    IN  after[Len(order)]

HasCredentials(st) == \E r \in ToSet(st.creds) : r.id = Me

-----------------------------------------------------------------------------
(* The operations.                                                         *)

\* After write n of a trail: the call is over, or the application has died.
After(trail, n, onReturn) ==
    /\ store' = trail[n]
    /\ mem' = IF n = Len(trail) THEN onReturn ELSE Off

\* MlsCentral::mls_init with an identifier of either kind, on an empty store:
\* Client::generate for all schemes.
InitGenerate(type, order) ==
    LET bs    == [i \in 1 .. Len(order) |->
                    [scheme |-> order[i], pk |-> fresh.key + i - 1,
                     cred |-> IF type = "basic" THEN Basic(Me)
                              ELSE X509(fresh.cert + i - 1, fresh.key + i - 1)]]
        trail == GenerateTrail(store, bs, fresh.kp)
    IN  /\ ~mem.on
        /\ ~HasCredentials(store)
        /\ usage # "external"
        /\ fresh.key + Len(order) - 1 <= MaxKeys
        /\ fresh.kp + Len(order) * NbKeyPackages - 1 <= MaxKeyPackages
        /\ type = "x509" => fresh.cert + Len(order) - 1 <= MaxCerts
        /\ \E n \in 1 .. Len(trail) :
              /\ After(trail, n, IF PruneFails(store, {}) THEN mem
                                 ELSE [on |-> TRUE, ids |-> PushAll(Off.ids, bs)])
              /\ bound' = (n = Len(trail) /\ ~PruneFails(store, {}))
        /\ fresh' = [key  |-> fresh.key + Len(order),
                     kp   |-> fresh.kp + Len(order) * NbKeyPackages,
                     cert |-> IF type = "x509" THEN fresh.cert + Len(order) ELSE fresh.cert]
        /\ UNCHANGED <<toRemove, usage, now>>

\* Client::init on a store with credentials: Client::load.  A key pair it had
\* to generate stays in the store when a later check fails.
InitLoad(order) ==
    LET loaded == Load(store, order, fresh.key)
    IN  /\ ~mem.on
        /\ HasCredentials(store)
        /\ loaded.next <= MaxKeys + 1
        /\ store' = [store EXCEPT !.keys = loaded.keys]
        /\ mem' = IF loaded.ok THEN [on |-> TRUE, ids |-> loaded.ids] ELSE mem
        /\ bound' = (bound \/ loaded.ok)
        /\ fresh' = [fresh EXCEPT !.key = loaded.next]
        /\ UNCHANGED <<toRemove, usage, now>>

\* A key pair per scheme under a temporary id, as a trail.
RawKeypairs(st, order, first) ==
    LET after[n \in 0 .. Len(order)] ==
          IF n = 0 THEN st
          ELSE [after[n - 1] EXCEPT !.keys =
                  Save(KeyPairTable, @, first + n - 1,
                       [scheme |-> order[n], owner |-> Temporary]).rows]
    IN  [n \in 1 .. Len(order) |-> after[n]]

\* generate_raw_keypairs
GenerateRawKeypairs(order) ==
    LET trail == RawKeypairs(store, order, fresh.key)
    IN  /\ usage = "external"
        /\ ~mem.on
        /\ \A r \in ToSet(store.creds) : r.val.cred.type # "basic"
        /\ fresh.key + Len(order) - 1 <= MaxKeys
        /\ \E n \in 1 .. Len(order) : store' = trail[n]
        /\ fresh' = [fresh EXCEPT !.key = @ + Len(order)]
        /\ UNCHANGED <<mem, toRemove, usage, now, bound>>

\* The identity for a provisional key pair: the credential keeps the temporary name.
Provisional(r) == [scheme |-> r.val.scheme, pk |-> r.id, cred |-> Basic(r.val.owner)]

\* A provisional key pair goes and comes back as the client's, as a trail.
AdoptKeypair(st, r) ==
    LET without == [st EXCEPT !.keys = Erase(KeyPairTable, @, r.id).rows]
    IN  <<without>> \o SaveIdentities(without, <<Provisional(r)>>)

AdoptKeypairs(st, tmp) ==
    LET after[n \in 0 .. Len(tmp)] ==
          IF n = 0 THEN << >> ELSE after[n - 1] \o AdoptKeypair(EndOf(st, after[n - 1]), tmp[n])
    IN  after[Len(tmp)]

\* init_with_external_client_id, with the ids of the last call of
\* generate_raw_keypairs.
InitExternal ==
    LET tmp   == store.keys
        trail == AdoptKeypairs(store, tmp)
        bs    == [i \in 1 .. Len(tmp) |-> Provisional(tmp[i])]
    IN  /\ usage = "external"
        /\ ~mem.on
        /\ Len(tmp) = Cardinality(Schemes)     \* else NoProvisionalIdentityFound, TooManyIdentitiesPresent
        /\ \A r \in ToSet(tmp) : r.val.owner = Temporary
        /\ \E n \in 1 .. Len(trail) :
              /\ After(trail, n, [on |-> TRUE, ids |-> PushAll(Off.ids, bs)])
              /\ bound' = (n = Len(trail))
        /\ UNCHANGED <<toRemove, usage, fresh, now>>

\* get_or_create_client_keypackages
RequestKeyPackages(sc, type) ==
    LET lacking == Lacking(store, sc, NbKeyPackages)
        trail == RequestTrail(store, fresh.kp, sc, MostRecent(mem.ids, sc, type), NbKeyPackages)
        pruned == Prune(store, {})
    IN  /\ mem.on
        /\ fresh.kp + lacking - 1 <= MaxKeyPackages
        /\ IF PruneFails(store, {}) \/ (lacking > 0 /\ ~HasBundle(mem.ids, sc, type))
           THEN /\ pruned # << >>       \* the keystore's error, MlsNotInitialized
                /\ \E n \in 1 .. Len(pruned) : After(pruned, n, mem)
                /\ UNCHANGED fresh
           ELSE /\ trail # << >>
                /\ \E n \in 1 .. Len(trail) : After(trail, n, mem)
                /\ fresh' = [fresh EXCEPT !.kp = @ + lacking]
        /\ UNCHANGED <<toRemove, usage, now, bound>>

-----------------------------------------------------------------------------
(* Conversations, as far as they hold the client's credential: the scheme, *)
(* the client's leaf and the leaf of its pending commit.  A leaf is a      *)
(* credential and its key.                                                 *)

Leaf(b) == [cred |-> b.cred, pk |-> b.pk]

Member(g) == store.groups[g] # None

Idle(g) == Member(g) /\ store.groups[g].pending = None

SetGroup(st, g, v) == [st EXCEPT !.groups[g] = v]

\* MlsConversation::create: get_most_recent_or_create_credential_bundle, then
\* the group.  A missing Basic bundle is created; a missing certificate is
\* E2eiEnrollmentNotDone.
NewConversation(g, sc, type) ==
    LET create == type = "basic" /\ ~HasBundle(mem.ids, sc, type)
        bs     == IF create THEN <<[scheme |-> sc, pk |-> fresh.key, cred |-> Basic(Me)]>> ELSE << >>
        ids    == PushAll(mem.ids, bs)
        saved  == SaveIdentities(store, bs)
        trail  == Append(saved, SetGroup(EndOf(store, saved), g,
                            [scheme |-> sc, leaf |-> Leaf(MostRecent(ids, sc, type)), pending |-> None]))
    IN  /\ mem.on
        /\ ~Member(g)
        /\ create \/ HasBundle(mem.ids, sc, type)
        /\ type = "basic" /\ usage # "basic_again" => ~HasBundle(mem.ids, sc, "x509")
        /\ fresh.key + Len(bs) - 1 <= MaxKeys
        /\ \E n \in 1 .. Len(trail) : After(trail, n, [mem EXCEPT !.ids = ids])
        /\ fresh' = [fresh EXCEPT !.key = @ + Len(bs)]
        /\ UNCHANGED <<toRemove, usage, now, bound>>

\* A Welcome for one of the key packages: OpenMLS takes the key package and
\* its private keys out of the keystore, then the conversation is saved.
JoinTrail(st, g, kp) ==
    LET step1 == DeleteKeyPackage(st, kp.id, 1)
        step2 == DeleteKeyPackage(step1, kp.id, 2)
        step3 == DeleteKeyPackage(step2, kp.id, 3)
    IN  <<step1, step2, step3,
          SetGroup(step3, g, [scheme |-> kp.val.scheme, leaf |-> Leaf(kp.val), pending |-> None])>>

JoinConversation(g, i) ==
    LET kp == store.kps[i]
    IN  /\ mem.on
        /\ ~Member(g)
        /\ kp.id \notin store.expired
        /\ kp.id \in store.hpke \cap store.enc     \* else OrphanWelcome, before any write
        /\ \E n \in 1 .. 4 : After(JoinTrail(store, g, kp), n, mem)
        /\ UNCHANGED <<toRemove, usage, fresh, now, bound>>

\* A commit that keeps the client's credential: it is signed with the most
\* recent bundle of the leaf's type.
OrdinaryCommit(g) ==
    /\ mem.on
    /\ Idle(g)
    /\ HasBundle(mem.ids, store.groups[g].scheme, store.groups[g].leaf.cred.type)
    /\ store' = [store EXCEPT !.groups[g].pending = store.groups[g].leaf]
    /\ UNCHANGED <<mem, toRemove, usage, fresh, now, bound>>

\* commit_accepted and clear_pending_commit.
CommitAccepted(g) ==
    /\ mem.on
    /\ Member(g) /\ ~Idle(g)
    /\ store' = [store EXCEPT !.groups[g].leaf = store.groups[g].pending, !.groups[g].pending = None]
    /\ UNCHANGED <<mem, toRemove, usage, fresh, now, bound>>

ClearPendingCommit(g) ==
    /\ mem.on
    /\ Member(g) /\ ~Idle(g)
    /\ store' = [store EXCEPT !.groups[g].pending = None]
    /\ UNCHANGED <<mem, toRemove, usage, fresh, now, bound>>

-----------------------------------------------------------------------------
(* Rotation.                                                               *)

\* A new key instead of the client's.
EnrolledNewKey(ids, sc, type) == fresh.key

\* e2ei_new_activation_enrollment (Basic) and e2ei_new_rotate_enrollment
\* (X509): the certificate is for the key of the most recent bundle.
EnrolledKey(ids, sc, type) == MostRecent(ids, sc, type).pk

\* update_key_material with the new leaf in some conversations, as a trail.
RotateGroups(st, order, leaf) ==
    LET after[n \in 0 .. Len(order)] ==
          IF n = 0 THEN st
          ELSE SetGroup(after[n - 1], order[n], [st.groups[order[n]] EXCEPT !.pending = leaf])
    IN  [n \in 1 .. Len(order) |-> after[n]]

\* e2ei_rotate_all: the new identity, a commit in one conversation after the
\* other until one has a pending commit, and the new key packages.
RotateAll(sc, type, order) ==
    LET pk    == EnrolledKey(mem.ids, sc, type)
        b     == [scheme |-> sc, pk |-> pk, cred |-> X509(fresh.cert, pk)]
        ids   == PushAll(mem.ids, <<b>>)
        saved == SaveIdentities(store, <<b>>)
        ready == Cardinality({i \in 1 .. Len(order) : \A j \in 1 .. i : Idle(order[j])})
        rotated == saved \o RotateGroups(Last(saved), SubSeq(order, 1, ready), Leaf(b))
        done  == ready = Len(order)
        trail == IF done THEN rotated \o GenerateKeyPackages(Last(rotated), fresh.kp, sc, Bundle(b), NbKeyPackages)
                 ELSE rotated
    IN  /\ mem.on
        /\ HasBundle(mem.ids, sc, type)      \* else MissingExistingClient
        /\ fresh.cert <= MaxCerts
        /\ fresh.kp + NbKeyPackages - 1 <= MaxKeyPackages
        /\ \E n \in 1 .. Len(trail) :
              /\ After(trail, n, [mem EXCEPT !.ids = ids])
              /\ toRemove' = IF done /\ n = Len(trail)
                             THEN {r.id : r \in {q \in ToSet(store.kps) : q.val.cred # b.cred}}
                             ELSE toRemove
        /\ fresh' = [fresh EXCEPT !.cert = @ + 1, !.kp = @ + NbKeyPackages]
        /\ UNCHANGED <<usage, now, bound>>

\* The credentials all of whose key packages go.
Abandoned(st, refs) ==
    LET doomed == ToSet(Doomed(st, refs))
        Uses(c) == {r.id : r \in {q \in ToSet(st.kps) : q.val.cred = c}}
    IN  {c \in {r.val.cred : r \in ToSet(st.kps)} : Uses(c) \subseteq doomed}

\* MlsCredential::delete_by_credential
DeleteByCredential(st, gone) ==
    [st EXCEPT !.creds = Keep(@, {r \in ToSet(@) : r.val.cred \notin gone})]

InUse(creds) ==
    \E g \in Groups : Member(g) /\
        ({store.groups[g].leaf.cred} \cup
         (IF Idle(g) THEN {} ELSE {store.groups[g].pending.cred})) \cap creds # {}

\* delete_keypackages.  The pruning may fail; and IndexedDB looks the credential
\* up in an index over the encrypted values: NotFound, once the key packages are
\* gone.
DeleteKeyPackages ==
    LET pruned == Prune(store, toRemove)
        base   == EndOf(store, pruned)
        gone   == Abandoned(store, toRemove)
        fails  == PruneFails(store, toRemove) \/ (Platform = "wasm" /\ gone # {})
    IN  /\ mem.on
        /\ toRemove # {}
        /\ usage # "early_delete" =>
              /\ store.expired = {}
              /\ ~InUse({r.val.cred : r \in {q \in ToSet(store.kps) : q.id \in toRemove}})
        /\ \/ /\ store' = IF fails THEN base ELSE DeleteByCredential(base, gone)
              /\ mem' = IF fails THEN mem ELSE [mem EXCEPT !.ids = RemoveCredential(@, gone)]
              /\ toRemove' \in IF fails THEN {{}, toRemove} ELSE {{}}   \* it may try again
           \/ /\ \E n \in 1 .. Len(pruned) : store' = pruned[n]
              /\ mem' = Off
              /\ UNCHANGED toRemove
           \/ /\ ~fails
              /\ \E some \in SUBSET gone : store' = DeleteByCredential(base, some)
              /\ mem' = Off
              /\ UNCHANGED toRemove
        /\ UNCHANGED <<usage, fresh, now, bound>>

-----------------------------------------------------------------------------
(* Time and crashes.                                                       *)

Tick ==
    /\ now < MaxTime
    /\ now' = now + 1
    /\ UNCHANGED <<store, mem, toRemove, usage, fresh, bound>>

\* is_mls_keypackage_expired becomes true of a key package.
Expire(i) ==
    /\ store.kps[i].id \notin store.expired
    /\ store' = [store EXCEPT !.expired = @ \cup {store.kps[i].id}]
    /\ UNCHANGED <<mem, toRemove, usage, fresh, now, bound>>

Crash ==
    /\ mem.on
    /\ mem' = Off
    /\ UNCHANGED <<store, toRemove, usage, fresh, now, bound>>

ClientInit ==
    /\ store = [creds |-> << >>, keys |-> << >>, kps |-> << >>, hpke |-> {}, enc |-> {},
                expired |-> {}, groups |-> [g \in Groups |-> None]]
    /\ mem = Off
    /\ toRemove = {}
    /\ usage \in Usages
    /\ fresh = [key |-> 1, cert |-> 1, kp |-> 1]
    /\ now = 0
    /\ bound = FALSE

Types == {"basic", "x509"}

ClientNext ==
    \/ \E order \in SetToSeqs(Schemes), type \in Types : InitGenerate(type, order)
    \/ \E order \in SetToSeqs(Schemes) : InitLoad(order)
    \/ \E order \in SetToSeqs(Schemes) : GenerateRawKeypairs(order)
    \/ InitExternal
    \/ \E sc \in Schemes, type \in Types : RequestKeyPackages(sc, type)
    \/ \E g \in Groups, sc \in Schemes, type \in Types : NewConversation(g, sc, type)
    \/ \E g \in Groups, i \in 1 .. Len(store.kps) : JoinConversation(g, i)
    \/ \E g \in Groups : OrdinaryCommit(g)
    \/ \E g \in Groups : CommitAccepted(g)
    \/ \E g \in Groups : ClearPendingCommit(g)
    \/ \E sc \in Schemes, type \in Types, order \in SetToSeqs({g \in Groups : Member(g)}) :
          RotateAll(sc, type, order)
    \/ DeleteKeyPackages
    \/ Tick
    \/ \E i \in 1 .. Len(store.kps) : Expire(i)
    \/ Crash

ClientSpec == ClientInit /\ [][ClientNext]_clientVars

-----------------------------------------------------------------------------
(* Properties.                                                             *)

Credentials ==
    {Basic(n) : n \in {Me, Temporary}} \cup {X509(n, pk) : n \in 1 .. MaxCerts, pk \in 1 .. MaxKeys}

LeafType == [cred : Credentials, pk : 1 .. MaxKeys]

\* Rows, bundles and leaves are what the tables and the structs declare.
ClientTypeOK ==
    /\ \A r \in ToSet(store.creds) : r.id = Me /\ r.val \in [cred : Credentials, at : 0 .. now]
    /\ \A r \in ToSet(store.keys) :
          r.id \in 1 .. (fresh.key - 1) /\ r.val \in [scheme : Schemes, owner : {Me, Temporary}]
    /\ \A r \in ToSet(store.kps) : r.id < fresh.kp /\ Leaf(r.val) \in LeafType
    /\ store.hpke \cup store.enc \cup store.expired \cup toRemove \subseteq 1 .. (fresh.kp - 1)
    /\ \A g \in Groups : Member(g) =>
          store.groups[g] \in [scheme : Schemes, leaf : LeafType, pending : LeafType \cup {None}]
    /\ \A sc \in Schemes : \A b \in ToSet(mem.ids[sc]) :
          b \in [cred : Credentials, pk : 1 .. MaxKeys, at : 0 .. now]

\* The identities sign for a leaf: what encrypts finds the bundle by type and
\* key, and what commits takes the most recent bundle of the type, whose key
\* must be the one the other members see in the leaf.
Signs(ids, sc, leaf) ==
    /\ HasKey(ids, sc, leaf.cred.type, leaf.pk)
    /\ MostRecent(ids, sc, leaf.cred.type).pk = leaf.pk

\* A running client can sign in every conversation it is a member of, before,
\* during and after the rotation of its credential and the deletion of what
\* the rotation has replaced, and whether or not the commits are accepted.
GroupsSignable ==
    mem.on =>
        \A g \in Groups : Member(g) =>
            /\ Signs(mem.ids, store.groups[g].scheme, store.groups[g].leaf)
            /\ store.groups[g].pending # None =>
                  Signs(mem.ids, store.groups[g].scheme, store.groups[g].pending)

\* Once an init has succeeded the next one does, whenever the application dies,
\* and it finds the signature key of every conversation.
\* (A client whose id came later does not get this: its credential keeps the
\* temporary name, which load refuses.)
Restartable ==
    bound /\ usage # "external" =>
        \E order \in SetToSeqs(Schemes) :
            LET loaded == Load(store, order, fresh.key)
            IN  /\ loaded.ok
                /\ \A g \in Groups : Member(g) =>
                      Signs(loaded.ids, store.groups[g].scheme, store.groups[g].leaf)

\* A key package with both its private keys: a Welcome for it can be processed.
Complete(st, id) == id \in st.hpke \cap st.enc

\* The private keys of a key package are not taken away while the key package
\* stays, wherever a pruning or a join is cut short; and a call that returns
\* leaves no key package of its own without them.
\* (Where the application dies between the three writes of a key package, its
\* row stays without them, and request_key_packages counts it and returns it.)
UsableStep ==
    \A r \in ToSet(store'.kps) :
        \/ r \in ToSet(store.kps) /\ Complete(store, r.id)
        \/ r \notin ToSet(store.kps) /\ mem'.on
        => Complete(store', r.id)

KeyPackagesUsable == [][UsableStep]_clientVars

\* A running client has the bundle of every key package it can be invited with,
\* through rotations, deletions and restarts.
KeyPackagesOwned ==
    mem.on =>
        \A r \in ToSet(store.kps) :
            \E b \in ToSet(mem.ids[r.val.scheme]) : Leaf(b) = Leaf(r.val)

\* The most recent X509 bundle of a running client is for the last certificate
\* that is stored, after restarts and for certificates of the same second too.
NewestCertificateUsed ==
    mem.on =>
        \A sc \in Schemes : HasBundle(mem.ids, sc, "x509") =>
            \A r \in ToSet(store.creds) : r.val.cred.cert <= MostRecent(mem.ids, sc, "x509").cred.cert

=============================================================================
