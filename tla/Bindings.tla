------------------------------ MODULE Bindings ------------------------------
(***************************************************************************)
(* The handle an application holds on CoreCrypto (crypto-ffi/src/wasm.rs,  *)
(* crypto-ffi/src/generic.rs) and the calls in progress on it.  A call     *)
(* keeps a reference to the central, waits for its locks, may ask the      *)
(* application something through a callback while it holds them, and       *)
(* releases them when it returns.  What the call does meanwhile is the     *)
(* subject of the other modules.                                           *)
(***************************************************************************)
EXTENDS FfiLocks, Sequences

CONSTANTS
    Ops,        \* the exports that are called
    MaxCalls,   \* calls of a behaviour
    MaxCode,    \* Proteus error codes
    Reentrant,  \* callbacks wait for a call of their own before they answer
    None        \* no call, no parent

ASSUME BindingsAssumption ==
    /\ {MaxCalls, MaxCode} \subseteq Nat
    /\ Reentrant \in BOOLEAN

VARIABLES
    handle,     \* the application can still use its object
    central,    \* what has become of the central
    call,       \* the call of each task
    code,       \* proteus_last_error_code
    made        \* calls so far

bindingVars == <<handle, central, call, code, made>>

ProteusCalls == IF Platform = "wasm" THEN WasmProteus ELSE GenericSessions \cup GenericPrekeys

CentralCalls ==
    IF Platform = "wasm"
    THEN UNION {DOMAIN WasmInit, DOMAIN WasmClient, DOMAIN WasmGroups, DOMAIN WasmCommits,
                DOMAIN WasmMessages, DOMAIN WasmPending, DOMAIN WasmRandom, DOMAIN WasmExports,
                DOMAIN WasmNewEnrollments, DOMAIN WasmPki, DOMAIN WasmRotation,
                DOMAIN WasmIdentities, WasmProteus}
    ELSE UNION {GenericClient, GenericGroups, GenericPending, GenericRest, GenericSessions,
                GenericPrekeys, GenericE2ei, GenericRotation}

ASSUME OpsAssumption ==
    Ops \subseteq CentralCalls \cup EnrollmentCalls \cup {"proteus_last_error_code"}

\* The exports that ask authorize.
AuthorizedCalls == {"add_clients_to_conversation", "remove_clients_from_conversation"}

\* The exports that decrypt a message, given or buffered: of an external add
\* they ask client_is_existing_group_user, of an external commit also
\* user_authorize.
DecryptingCalls ==
    {"decrypt_message", "commit_accepted", "merge_pending_group_from_external_commit"}

\* The most callbacks of an export, for one message.
Callbacks(op) ==
    CASE op \in AuthorizedCalls -> 1
      [] op \in DecryptingCalls -> 2
      [] OTHER -> 0

\* An export that calls another one.
LockTwice(op) == <<"central", "central">>

\* The locks of an export, in the order it takes them.
LocksOf(op) ==
    CASE op = "proteus_last_error_code" -> << >>
      [] op = "new_oidc_challenge_response" /\ Platform = "generic" -> <<"central", "enrollment">>
      [] op \in EnrollmentCalls -> <<"enrollment">>
      [] OTHER -> <<"central">>

InProgress == {t \in Tasks : call[t] # None}

\* Tasks that hold lock l.
Holders(l) == {t \in InProgress : \E n \in 1 .. call[t].taken : LocksOf(call[t].op)[n] = l}

Granted(op, l) ==
    IF l = "central" THEN MayEnter(op, {call[t].op : t \in Holders("central")})
    ELSE /\ Holders(l) # {} => op \in EnrollmentShared
         /\ \A t \in Holders(l) : call[t].op \in EnrollmentShared

\* The calls that keep the central alive: all but those on an enrollment and
\* on the error code alone.
UsesCentral(op) == \E n \in 1 .. Len(LocksOf(op)) : LocksOf(op)[n] = "central"

References == {t \in InProgress : UsesCentral(call[t].op)}

\* The central is dropped with its last reference.
CentralAfter(ending) ==
    IF handle = "gone" /\ central = "open" /\ References \subseteq {ending} THEN "dropped" ELSE central

Goto(t, phase) == call' = [call EXCEPT ![t].phase = phase]

-----------------------------------------------------------------------------
(* A call, from the application or from one of its callbacks.              *)

MayCall(op, parent) ==
    /\ UsesCentral(op) \/ op = "proteus_last_error_code" => handle = "open"
    /\ parent # None => Reentrant /\ call[parent] # None /\ call[parent].phase = "asking"

Call(t, op, parent) ==
    /\ call[t] = None /\ made < MaxCalls /\ MayCall(op, parent)
    /\ call' = [call EXCEPT ![t] =
                  [op |-> op, parent |-> parent, taken |-> 0, phase |-> "locking", asked |-> 0, code |-> 0]]
    /\ made' = made + 1
    /\ UNCHANGED <<handle, central, code>>

TakeLock(t) ==
    /\ t \in InProgress /\ call[t].phase = "locking"
    /\ call[t].taken < Len(LocksOf(call[t].op))
    /\ Granted(call[t].op, LocksOf(call[t].op)[call[t].taken + 1])
    /\ call' = [call EXCEPT ![t].taken = @ + 1,
                            ![t].phase = IF call[t].taken + 1 = Len(LocksOf(call[t].op))
                                         THEN "running" ELSE "locking"]
    /\ UNCHANGED <<handle, central, code, made>>

\* A callback runs while the call holds its locks.
Ask(t) ==
    /\ t \in InProgress /\ call[t].phase \in {"running", "answered"}
    /\ call[t].asked < Callbacks(call[t].op)
    /\ call' = [call EXCEPT ![t].phase = "asking", ![t].asked = @ + 1]
    /\ UNCHANGED <<handle, central, code, made>>

Answer(t) ==
    /\ t \in InProgress /\ call[t].phase = "asking"
    /\ \A u \in InProgress : call[u].parent # t
    /\ Goto(t, "answered")
    /\ UNCHANGED <<handle, central, code, made>>

\* The call returns, with its result or with an error that has no Proteus code.
Return(t) ==
    /\ t \in InProgress /\ call[t].phase \in {"running", "answered"}
    /\ call' = [call EXCEPT ![t] = None]
    /\ central' = CentralAfter(t)
    /\ UNCHANGED <<handle, code, made>>

\* proteus_impl!: the locks are released before the code is stored.
Fail(t, c) ==
    /\ t \in InProgress /\ call[t].phase = "running" /\ call[t].op \in ProteusCalls
    /\ call' = [call EXCEPT ![t].phase = "storing", ![t].taken = 0, ![t].code = c]
    /\ UNCHANGED <<handle, central, code, made>>

\* The code of the next error.
ShiftedCode(t) == call[t].code + 1

StoredCode(t) == call[t].code

StoreCode(t) ==
    /\ t \in InProgress /\ call[t].phase = "storing"
    /\ code' = StoredCode(t)
    /\ call' = [call EXCEPT ![t] = None]
    /\ central' = CentralAfter(t)
    /\ UNCHANGED <<handle, made>>

-----------------------------------------------------------------------------
(* proteus_last_error_code: an atomic swap on UniFFI; on WASM a read lock  *)
(* and then a write lock, each with an await.                              *)

\* As on UniFFI, or the read on WASM.
TakeCode(t) ==
    /\ t \in InProgress /\ call[t].op = "proteus_last_error_code" /\ call[t].phase = "locking"
    /\ IF Platform = "generic"
       THEN code' = 0 /\ call' = [call EXCEPT ![t] = None]
       ELSE call' = [call EXCEPT ![t].code = code, ![t].phase = "resetting"] /\ code' = code
    /\ UNCHANGED <<handle, central, made>>

ResetCode(t) ==
    /\ t \in InProgress /\ call[t].phase = "resetting"
    /\ code' = 0
    /\ call' = [call EXCEPT ![t] = None]
    /\ UNCHANGED <<handle, central, made>>

-----------------------------------------------------------------------------
(* close and wipe.  WASM's take the handle: with other references they are *)
(* rejected, and the handle is gone all the same.  UniFFI's take one more  *)
(* reference, next to that of the application's object if it keeps it, and *)
(* return an error unless it is the last.                                  *)

\* Whoever else uses it.
CloseAnyway(how, kept) == how

Closed(how, kept) == IF References = {} /\ ~kept THEN how ELSE central

Close(how, kept) ==
    /\ handle = "open"
    /\ kept => Platform = "generic"
    /\ handle' = IF kept THEN "open" ELSE "gone"
    /\ central' = Closed(how, kept)
    /\ UNCHANGED <<call, code, made>>

-----------------------------------------------------------------------------

BindingsInit ==
    /\ handle = "open"
    /\ central = "open"
    /\ call = [t \in Tasks |-> None]
    /\ code = 0 /\ made = 0

Step(t) ==
    \/ TakeLock(t)
    \/ Ask(t)
    \/ Answer(t)
    \/ Return(t)
    \/ \E c \in 1 .. MaxCode : Fail(t, c)
    \/ StoreCode(t)
    \/ TakeCode(t)
    \/ ResetCode(t)

BindingsNext ==
    \/ \E t \in Tasks, op \in Ops, parent \in Tasks \cup {None} : Call(t, op, parent)
    \/ \E t \in Tasks : Step(t)
    \/ \E how \in {"closed", "wiped"}, kept \in BOOLEAN : Close(how, kept)

\* The executor polls a future that can go on, and the application answers its
\* callbacks.
BindingsSpec ==
    /\ BindingsInit /\ [][BindingsNext]_bindingVars
    /\ \A t \in Tasks : WF_bindingVars(Step(t))

-----------------------------------------------------------------------------
(* Properties.                                                             *)

\* The handle, the calls and the codes are what the structs declare.
BindingsTypeOK ==
    /\ handle \in {"open", "gone"}
    /\ central \in {"open", "closed", "wiped", "dropped"}
    /\ code \in 0 .. MaxCode
    /\ made \in 0 .. MaxCalls
    /\ \A t \in InProgress :
          /\ call[t].op \in Ops \cap (CentralCalls \cup EnrollmentCalls \cup {"proteus_last_error_code"})
          /\ call[t].taken \in 0 .. Len(LocksOf(call[t].op))

\* close and wipe never take the central away from a call that waits for it
\* or works on it, whatever the order of the calls.
NoUseAfterClose == References # {} => central = "open"

\* A call returns: no call waits for a lock for ever.
EveryCallReturns == \A t \in Tasks : call[t] # None ~> call[t] = None

=============================================================================
