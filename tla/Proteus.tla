------------------------------ MODULE Proteus -------------------------------
(***************************************************************************)
(* A Proteus client (crypto/src/proteus.rs): its identity, prekeys and     *)
(* sessions in the keystore, the sessions in the LRU cache, and the calls  *)
(* of the application, one keystore write at a time.                       *)
(*                                                                         *)
(* External: the Proteus library.  A session is its tag (the remote        *)
(* session it belongs to), its own sending chain, the number of messages   *)
(* sent on it and the set of messages received.  A                         *)
(* message is under the ratchet of a tag and names the prekey it was       *)
(* started from; the library takes that prekey from the keystore and       *)
(* removes it once the message is decrypted, except the last resort one.   *)
(***************************************************************************)
EXTENDS FfiLocks, GroupStore

CONSTANTS
    LastResort,     \* u16::MAX: id of the last resort prekey
    BoxSessions,    \* sessions of the Cryptobox folder to migrate
    BoxPrekeys,     \* ids of the prekeys of that folder
    Backend,        \* "sql" or "wasm": what removing a missing row returns
    MaxKeys,        \* bound: key pairs and tags generated
    MaxSent,        \* bound: messages encrypted per session
    MaxMessages,    \* bound: messages per remote session
    MaxPeers,       \* bound: remote sessions started from our bundles
    MaxHandled,     \* bound: ciphertexts, and messages, handed to the application
    MaxFaults,      \* bound: keystore writes that fail
    MaxCrashes      \* bound

VARIABLES
    me,         \* identity in memory, 0 before proteus_init
    store,      \* ProteusCentral::proteus_sessions
    ident,      \* row of proteus_identities, 0 if none
    prekeys,    \* rows of proteus_prekeys: id -> key, 0 if none
    rows,       \* rows of proteus_sessions
    call,       \* per task, the call in progress
    bundles,    \* prekey bundles the application was given and may publish
    peers,      \* remote sessions started from a bundle
    outbox, inbox,
    box,        \* "none", "todo" or "done": the Cryptobox folder
    used        \* what the bounds count

vars == <<me, store, ident, prekeys, rows, call, bundles, peers, outbox, inbox, box, used>>
disk == <<ident, prekeys, rows>>
app  == <<bundles, peers, outbox, inbox, box>>

PrekeyIds == 1 .. LastResort
Keys      == 1 .. MaxKeys

\* The identity in the Cryptobox folder has the tag and key 1.
BoxKey == 1

Messages == [from : Ids, tag : Keys, id : PrekeyIds, key : Keys, n : 1 .. MaxMessages]

Sessions == [tag : Keys, chain : Keys, ident : Keys, sent : 0 .. MaxSent, seen : SUBSET Messages]

ASSUME ProteusAssumption ==
    /\ MaxKeys \in Nat \ {0} /\ LastResort \in Nat \ {0}
    /\ {MaxSent, MaxMessages, MaxFaults, MaxCrashes} \subseteq Nat
    /\ BoxSessions \subseteq Ids /\ BoxPrekeys \subseteq PrekeyIds
    /\ Absent \notin Sessions

Idle == [op |-> "idle"]

\* The key of a ciphertext: the session, its sending chain and the position on it.
MessageKeys == Ids \X Keys \X Nat

Bundles == [id : PrekeyIds, key : Keys, ident : 0 .. MaxKeys]
Peers   == [from : Ids, tag : Keys, id : PrekeyIds, key : Keys]

\* A call that waits for its next keystore access.
Calls ==
    {Idle}
      \cup [op : {"proteus_init", "proteus_cryptobox_migrate", "proteus_new_prekey_auto"}]
      \cup [op : {"save_prekey"}, id : PrekeyIds]
      \cup [op : {"proteus_decrypt"}, sid : Ids, session : Sessions, msg : Messages]
      \cup [op : {"proteus_encrypt_batched"}, todo : Seq(Ids), done : Seq(MessageKeys)]

\* The lock each of them holds.
LockOf(c) == IF c.op = "save_prekey" THEN "proteus_new_prekey_auto" ELSE c.op
Holding   == {LockOf(call[t]) : t \in {u \in Tasks : call[u] # Idle}}

Fresh == used.keys + 1

ProteusInit ==
    /\ me = 0
    /\ store = EmptyStore
    /\ ident = 0
    /\ prekeys = [i \in PrekeyIds |-> 0]
    /\ rows = [i \in Ids |-> Absent]
    /\ call = [t \in Tasks |-> Idle]
    /\ bundles = {}
    /\ peers = {}
    /\ outbox = << >> /\ inbox = << >>
    /\ box \in {"none", "todo"}
    /\ used = [keys |-> BoxKey, faults |-> 0, crashes |-> 0]

Enter(op) == MayEnter(op, Holding)
Ready(op) == me # 0 /\ Enter(op)

-----------------------------------------------------------------------------
(* Initialisation and migration                                            *)

\* An init that does not look for the identity it has.
StartInitAnew(t) ==
    /\ call[t] = Idle /\ Enter("proteus_init") /\ box # "todo" /\ Fresh \in Keys
    /\ ident' = Fresh
    /\ used' = [used EXCEPT !.keys = Fresh]
    /\ call' = [call EXCEPT ![t] = [op |-> "proteus_init"]]
    /\ UNCHANGED <<me, store, prekeys, rows, app>>

\* proteus_init up to the first write: load_or_create_identity.  The application
\* migrates first, if there is something to migrate.
StartInit(t) ==
    /\ call[t] = Idle /\ Enter("proteus_init") /\ box # "todo"
    /\ \/ ident # 0 /\ UNCHANGED <<ident, used>>
       \/ /\ ident = 0 /\ Fresh \in Keys
          /\ ident' = Fresh
          /\ used' = [used EXCEPT !.keys = Fresh]
    /\ call' = [call EXCEPT ![t] = [op |-> "proteus_init"]]
    /\ UNCHANGED <<me, store, prekeys, rows, app>>

\* restore_sessions, last_resort_prekey and the assignment of self.proteus.
FinishInit(t) ==
    /\ call[t].op = "proteus_init"
    /\ \A i \in Ids : rows[i] # Absent => rows[i].ident = ident
    /\ \/ prekeys[LastResort] # 0 /\ UNCHANGED <<prekeys, used>>
       \/ /\ prekeys[LastResort] = 0 /\ Fresh \in Keys
          /\ prekeys' = [prekeys EXCEPT ![LastResort] = Fresh]
          /\ used' = [used EXCEPT !.keys = Fresh]
    /\ me' = ident
    /\ \E o \in RestoreOrders(rows) : store' = Restored(rows, o)
    /\ call' = [call EXCEPT ![t] = Idle]
    /\ UNCHANGED <<ident, rows, app>>

\* proteus_reload_sessions, called by restore_from_disk.
ReloadSessions ==
    /\ Ready("restore_from_disk")
    /\ \A i \in Ids : rows[i] # Absent => rows[i].ident = me
    /\ \E o \in RestoreOrders(rows) : store' = Restored(rows, o)
    /\ UNCHANGED <<me, disk, call, app, used>>

\* cryptobox_migrate takes over the identity unless the keystore has one.
MigrateIdentity(t) ==
    /\ call[t] = Idle /\ Enter("proteus_cryptobox_migrate") /\ box = "todo"
    /\ ident' = IF ident = 0 THEN BoxKey ELSE ident
    /\ call' = [call EXCEPT ![t] = [op |-> "proteus_cryptobox_migrate"]]
    /\ UNCHANGED <<me, store, prekeys, rows, app, used>>

\* One iteration of the loop over the sessions: a session in the keystore is
\* skipped, one of another identity does not deserialise.
MigrateSession(t, i) ==
    /\ call[t].op = "proteus_cryptobox_migrate" /\ i \in BoxSessions
    /\ rows[i] = Absent /\ ident = BoxKey
    /\ rows' = [rows EXCEPT ![i] = [tag |-> BoxKey, chain |-> BoxKey, ident |-> BoxKey, sent |-> 0, seen |-> {}]]
    /\ UNCHANGED <<me, store, ident, prekeys, call, app, used>>

MigratePrekey(t, i) ==
    /\ call[t].op = "proteus_cryptobox_migrate" /\ i \in BoxPrekeys
    /\ prekeys[i] = 0
    /\ prekeys' = [prekeys EXCEPT ![i] = BoxKey]
    /\ UNCHANGED <<me, store, ident, rows, call, app, used>>

FinishMigration(t) ==
    /\ call[t].op = "proteus_cryptobox_migrate"
    /\ ident = BoxKey => \A i \in BoxSessions : rows[i] # Absent
    /\ \A i \in BoxPrekeys : prekeys[i] # 0
    /\ box' = "done"
    /\ call' = [call EXCEPT ![t] = Idle]
    /\ UNCHANGED <<me, store, disk, bundles, peers, outbox, inbox, used>>

-----------------------------------------------------------------------------
(* Sessions                                                                *)

Current(i) == Lookup(store, rows, i)

Fault == used.faults < MaxFaults

\* A session that is only changed in memory.
KeepSession(i, s) == store' = Insert(store, i, s) /\ UNCHANGED rows

\* session_save_by_ref of a session that was just put into the cache: the
\* write succeeds, and the call returns, or it fails, and the cache is ahead.
SaveSession(i, s) ==
    /\ store' = Insert(store, i, s)
    /\ rows' = [rows EXCEPT ![i] = s]

SaveFails(i, s) ==
    /\ Fault
    /\ store' = Insert(store, i, s)
    /\ UNCHANGED rows

CountFault(u) == [u EXCEPT !.faults = @ + 1]

\* proteus_session_from_prekey: replaces a session of that id.
SessionFromPrekey(i) ==
    /\ Ready("proteus_session_from_prekey") /\ Fresh \in Keys
    /\ LET s == [tag |-> Fresh, chain |-> Fresh, ident |-> me, sent |-> 0, seen |-> {}]
           u == [used EXCEPT !.keys = Fresh]
       IN  \/ SaveSession(i, s) /\ used' = u
           \/ SaveFails(i, s) /\ used' = CountFault(u)
    /\ UNCHANGED <<me, ident, prekeys, call, app>>

Encrypted(s) == [s EXCEPT !.sent = @ + 1]

MessageKey(i, s) == <<i, s.chain, s.sent>>

\* proteus_encrypt: the ciphertext is returned after the session is saved.
Encrypt(i) ==
    /\ Ready("proteus_encrypt") /\ Len(outbox) < MaxHandled /\ Current(i) # Absent /\ Current(i).sent < MaxSent
    /\ LET s == Encrypted(Current(i))
       IN  \/ SaveSession(i, s) /\ outbox' = Append(outbox, MessageKey(i, s)) /\ UNCHANGED used
           \/ SaveFails(i, s) /\ used' = CountFault(used) /\ UNCHANGED outbox
    /\ UNCHANGED <<me, ident, prekeys, call, bundles, peers, inbox, box>>

\* proteus_encrypt_batched: one session after the other; nothing is returned
\* when one of them fails.
StartBatch(t, ids) ==
    /\ call[t] = Idle /\ Ready("proteus_encrypt_batched") /\ Len(outbox) + Len(ids) <= MaxHandled
    /\ call' = [call EXCEPT ![t] = [op |-> "proteus_encrypt_batched", todo |-> ids, done |-> << >>]]
    /\ UNCHANGED <<me, store, disk, app, used>>

BatchStep(t) ==
    /\ call[t].op = "proteus_encrypt_batched" /\ call[t].todo # << >>
    /\ LET i == Head(call[t].todo)
           s == Encrypted(Current(i))
       IN  IF Current(i) = Absent
           THEN /\ call' = [call EXCEPT ![t].todo = Tail(@)]
                /\ UNCHANGED <<store, rows, used>>
           ELSE /\ Current(i).sent < MaxSent
                /\ \/ /\ SaveSession(i, s)
                      /\ call' = [call EXCEPT ![t].todo = Tail(@), ![t].done = Append(@, MessageKey(i, s))]
                      /\ UNCHANGED used
                   \/ /\ SaveFails(i, s)
                      /\ call' = [call EXCEPT ![t] = Idle]
                      /\ used' = CountFault(used)
    /\ UNCHANGED <<me, ident, prekeys, app>>

FinishBatch(t) ==
    /\ call[t].op = "proteus_encrypt_batched" /\ call[t].todo = << >>
    /\ outbox' = outbox \o call[t].done
    /\ call' = [call EXCEPT ![t] = Idle]
    /\ UNCHANGED <<me, store, disk, bundles, peers, inbox, box, used>>

Seen(s, m) == [s EXCEPT !.seen = @ \cup {m}]

\* A message the library decrypts with the ratchet the session is in.
Continues(i, m) == Current(i) # Absent /\ Current(i).tag = m.tag /\ m \notin Current(i).seen

\* proteus_decrypt of a message of the running ratchet.
Decrypt(m) ==
    /\ Ready("proteus_decrypt") /\ Continues(m.from, m) /\ Len(inbox) < MaxHandled
    /\ LET s == Seen(Current(m.from), m)
       IN  \/ SaveSession(m.from, s) /\ inbox' = Append(inbox, m) /\ UNCHANGED used
           \/ SaveFails(m.from, s) /\ used' = CountFault(used) /\ UNCHANGED inbox
    /\ UNCHANGED <<me, ident, prekeys, call, bundles, peers, outbox, box>>

\* proteus_session_from_message, whatever session there is, and proteus_decrypt
\* of a message that starts a ratchet in an existing session: the library finds
\* the prekey, decrypts, and removes the prekey, before anything of the session
\* is saved.
StartSession(t, m) ==
    /\ call[t] = Idle /\ Ready("proteus_decrypt") /\ Len(inbox) < MaxHandled /\ Fresh \in Keys
    /\ prekeys[m.id] = m.key
    /\ prekeys' = IF m.id = LastResort THEN prekeys ELSE [prekeys EXCEPT ![m.id] = 0]
    /\ call' = [call EXCEPT ![t] =
                  [op |-> "proteus_decrypt", sid |-> m.from, msg |-> m,
                   session |-> [tag |-> m.tag, chain |-> Fresh, ident |-> me, sent |-> 0, seen |-> {m}]]]
    /\ used' = [used EXCEPT !.keys = Fresh]
    /\ UNCHANGED <<me, store, ident, rows, app>>

FinishSession(t) ==
    /\ call[t].op = "proteus_decrypt"
    /\ \/ /\ SaveSession(call[t].sid, call[t].session)
          /\ inbox' = Append(inbox, call[t].msg)
          /\ UNCHANGED used
       \/ SaveFails(call[t].sid, call[t].session) /\ used' = CountFault(used) /\ UNCHANGED inbox
    /\ call' = [call EXCEPT ![t] = Idle]
    /\ UNCHANGED <<me, ident, prekeys, bundles, peers, outbox, box>>

\* proteus_session_save, proteus_session_exists, the fingerprints: get_fetch,
\* and for the first one a save.
SaveExplicitly(i) ==
    /\ Ready("proteus_session_save") /\ Current(i) # Absent
    /\ SaveSession(i, Current(i))
    /\ UNCHANGED <<me, ident, prekeys, call, app, used>>

Touch(i) ==
    /\ Ready("proteus_session_exists")
    /\ store' = Fetch(store, rows, i)
    /\ UNCHANGED <<me, disk, call, app, used>>

\* session_delete: the cache is left alone when the keystore returns an error,
\* which SQLite does for a session that was never saved.
SessionDelete(i) ==
    /\ Ready("proteus_session_delete")
    /\ rows[i] # Absent \/ Backend = "wasm"
    /\ rows' = [rows EXCEPT ![i] = Absent]
    /\ store' = Remove(store, i)
    /\ UNCHANGED <<me, ident, prekeys, call, app, used>>

-----------------------------------------------------------------------------
(* Prekeys                                                                 *)

Bundle(i, k) == [id |-> i, key |-> k, ident |-> me]

\* new_prekey with an id the application chose: it replaces a prekey of that id,
\* and the application's bundle for it.
NewPrekey(i) ==
    /\ Ready("proteus_new_prekey") /\ Fresh \in Keys
    /\ prekeys' = [prekeys EXCEPT ![i] = Fresh]
    /\ bundles' = {b \in bundles : b.id # i} \cup {Bundle(i, Fresh)}
    /\ used' = [used EXCEPT !.keys = Fresh]
    /\ UNCHANGED <<me, store, ident, rows, call, peers, outbox, inbox, box>>

\* Off by one: the limit itself is returned when no other id is free.
FreeIdsUpToLimit == {i \in PrekeyIds : (prekeys[i] = 0 \/ i = LastResort) /\ \A j \in 1 .. i - 1 : prekeys[j] # 0}

\* get_free_id: the first id below the limit that has no row; NoFreePrekeyId
\* if there is none.
FreeIds == {i \in PrekeyIds \ {LastResort} : prekeys[i] = 0 /\ \A j \in 1 .. i - 1 : prekeys[j] # 0}

NewPrekeyAuto(t) ==
    /\ call[t] = Idle /\ Ready("proteus_new_prekey_auto")
    /\ \E i \in FreeIds : call' = [call EXCEPT ![t] = [op |-> "save_prekey", id |-> i]]
    /\ UNCHANGED <<me, store, disk, app, used>>

SavePrekey(t) ==
    /\ call[t].op = "save_prekey" /\ Fresh \in Keys
    /\ prekeys' = [prekeys EXCEPT ![call[t].id] = Fresh]
    /\ bundles' = bundles \cup {Bundle(call[t].id, Fresh)}
    /\ used' = [used EXCEPT !.keys = Fresh]
    /\ call' = [call EXCEPT ![t] = Idle]
    /\ UNCHANGED <<me, store, ident, rows, peers, outbox, inbox, box>>

\* last_resort_prekey: the row is there since proteus_init.
LastResortPrekey ==
    /\ Ready("proteus_last_resort_prekey") /\ prekeys[LastResort] # 0
    /\ bundles' = bundles \cup {Bundle(LastResort, prekeys[LastResort])}
    /\ UNCHANGED <<me, store, disk, call, peers, outbox, inbox, box, used>>

-----------------------------------------------------------------------------
(* The rest of the world                                                   *)

\* Another device (external) takes a bundle and writes to us; the backend hands
\* out a one-time bundle once.
PeerStarts(i, b) ==
    /\ Cardinality(peers) < MaxPeers /\ Fresh \in Keys
    /\ b.id # LastResort => \A p \in peers : p.key # b.key
    /\ peers' = peers \cup {[from |-> i, tag |-> Fresh, id |-> b.id, key |-> b.key]}
    /\ used' = [used EXCEPT !.keys = Fresh]
    /\ UNCHANGED <<me, store, disk, call, bundles, outbox, inbox, box>>

\* Its messages arrive in any order and any number of times.
Sent == {m \in Messages : [from |-> m.from, tag |-> m.tag, id |-> m.id, key |-> m.key] \in peers}

\* A keystore error in the middle of the other calls.
CallFails(t) ==
    /\ Fault /\ call[t].op \in {"proteus_init", "proteus_cryptobox_migrate", "save_prekey"}
    /\ call' = [call EXCEPT ![t] = Idle]
    /\ used' = CountFault(used)
    /\ UNCHANGED <<me, store, disk, app>>

Crash ==
    /\ used.crashes < MaxCrashes
    /\ me' = 0 /\ store' = EmptyStore /\ call' = [t \in Tasks |-> Idle]
    /\ used' = [used EXCEPT !.crashes = @ + 1]
    /\ UNCHANGED <<disk, app>>

ProteusNext ==
    \/ \E t \in Tasks :
        \/ StartInit(t) \/ FinishInit(t)
        \/ MigrateIdentity(t) \/ FinishMigration(t)
        \/ \E i \in BoxSessions : MigrateSession(t, i)
        \/ \E i \in BoxPrekeys : MigratePrekey(t, i)
        \/ \E ids \in [1 .. 2 -> Ids] : StartBatch(t, ids)
        \/ BatchStep(t) \/ FinishBatch(t)
        \/ \E m \in Sent : StartSession(t, m)
        \/ FinishSession(t)
        \/ NewPrekeyAuto(t) \/ SavePrekey(t)
        \/ CallFails(t)
    \/ ReloadSessions
    \/ \E i \in Ids : SessionFromPrekey(i) \/ Encrypt(i) \/ SaveExplicitly(i) \/ Touch(i) \/ SessionDelete(i)
    \/ \E m \in Sent : Decrypt(m)
    \/ \E i \in PrekeyIds : NewPrekey(i)
    \/ LastResortPrekey
    \/ \E i \in Ids, b \in bundles : PeerStarts(i, b)
    \/ Crash

ProteusSpec == ProteusInit /\ [][ProteusNext]_vars

-----------------------------------------------------------------------------
(* Properties                                                              *)

\* Type invariant of the client's memory, keystore and application.  The cache
\* never has more than Limit entries, each of them once in the order of use.
ProteusTypeOK ==
    /\ me \in 0 .. MaxKeys /\ ident \in 0 .. MaxKeys
    /\ store.val \in [Ids -> Sessions \cup {Absent}]
    /\ store.order \in Seq(Ids) /\ Len(store.order) <= Limit
    /\ \A i \in Ids : Holds(store, i) <=> \E n \in 1 .. Len(store.order) : store.order[n] = i
    /\ \A m, n \in 1 .. Len(store.order) : store.order[m] = store.order[n] => m = n
    /\ prekeys \in [PrekeyIds -> 0 .. MaxKeys]
    /\ rows \in [Ids -> Sessions \cup {Absent}]
    /\ call \in [Tasks -> Calls]
    /\ bundles \subseteq Bundles /\ peers \subseteq Peers
    /\ outbox \in Seq(MessageKeys) /\ inbox \in Seq(Messages)
    /\ used \in [keys : Keys, faults : Nat, crashes : Nat]

\* The sessions keep their contract: message keys are never used twice and
\* messages of one-time prekeys are handed over once, although sessions are
\* evicted from the cache, reloaded, left unsaved by a failing keystore and
\* lost in crashes (encrypt, decrypt, session_save_by_ref, get_fetch).
LastResortMessage(m) == m.id = LastResort
Contract == INSTANCE SessionContract WITH Replayable <- LastResortMessage
SessionsKeepContract == Contract!Spec

\* A bundle the application may have published can be used: its prekey is in the
\* keystore until a message that names it was received (new_prekey_auto,
\* get_free_id, last_resort_prekey; only the caller of new_prekey replaces one).
BundlesUsable ==
    \A b \in bundles :
        \/ prekeys[b.id] = b.key
        \/ b.id # LastResort /\ \E p \in peers : p.key = b.key

\* Bundles and sessions are those of the identity in the keystore, so that
\* restore_sessions never fails on a session it cannot deserialise
\* (load_or_create_identity, cryptobox_migrate).
OneIdentity ==
    /\ me # 0 => me = ident
    /\ \A b \in bundles : b.ident = ident
    /\ \A i \in Ids : rows[i] # Absent => rows[i].ident = ident

=============================================================================
