-------------------------------- MODULE Pki --------------------------------
(***************************************************************************)
(* The PKI environment: what is registered in the keystore (the ACME root  *)
(* CA, intermediate CAs, revocation lists) and the environment built from  *)
(* it, against which credentials are validated                             *)
(* (crypto/src/e2e_identity/init_certificates.rs, mls-provider/src/pki.rs, *)
(* crypto/src/mls/credential/crl.rs).                                      *)
(*                                                                         *)
(* A registration checks, saves and then rebuilds the environment, with an *)
(* await before each keystore access: it is a task of three steps.  The    *)
(* environment is rebuilt under one lock of the connection and without an  *)
(* await after it, so that is one step.  The keystore or the building of   *)
(* the environment may fail at the save and at the refresh: the call       *)
(* returns the error there, and what was saved stays.                      *)
(***************************************************************************)
EXTENDS Keystore, FfiLocks

CONSTANTS
    Anchors,        \* root CAs
    Intermediates,  \* intermediate CAs
    Leaves,         \* certificates of clients
    IssuerOf,       \* the CA that signed a certificate
    Lists,          \* sets of certificates that a revocation list may name
    Points,         \* CRL distribution points
    None            \* nothing registered, no environment, no task

ASSUME PkiAssumption ==
    /\ IssuerOf \in [Intermediates \cup Leaves -> Anchors \cup Intermediates]
    /\ \A c \in Intermediates : IssuerOf[c] \in Anchors
    /\ Anchors \cap (Intermediates \cup Leaves) = {}         \* a root signs itself
    /\ \A l \in Lists : l \subseteq Intermediates \cup Leaves

VARIABLES
    certs,      \* the keystore's tables ca, inters and crls
    env,        \* PkiEnvironmentProvider: what the environment was built from
    task,       \* the calls in progress
    unrefreshed \* the last registration to save returned the error of its refresh

pkiVars == <<certs, env, task, unrefreshed>>

\* id_raw of E2eiAcmeCA, a table of one row.
CaId == "0"

CaTable    == Descriptor(Platform, "e2ei_acme_ca")
InterTable == Descriptor(Platform, "e2ei_intermediate_certs")
CrlTable   == Descriptor(Platform, "e2ei_crls")

Registered(rows) == {rows[n].val : n \in 1 .. Len(rows)}

\* restore_pki_env
Snapshot(st) ==
    [roots |-> Registered(st.ca), inters |-> Registered(st.inters), crls |-> Registered(st.crls)]

\* A refresh that is forgotten.
KeepEnv(st) == env

\* init_pki_env
InitPkiEnv(st) == Snapshot(st)

\* The certificates a set of revocation lists revokes.
Revoked(crls) == UNION {l.revoked : l \in crls}

\* A certificate and its issuers up to the root.
Path(c) ==
    {c, IssuerOf[c]} \cup
    (IF IssuerOf[c] \in Intermediates THEN {IssuerOf[IssuerOf[c]]} ELSE {})

\* PkiEnvironment::validate_cert_and_revocation: an error unless the issuers are
\* in the environment, or if the certificate or its intermediate is revoked.
Validate(e, c) ==
    /\ Path(c) \ {c} \subseteq e.roots \cup e.inters
    /\ Path(c) \cap Revoked(e.crls) = {}

(* e2ei_conversation_state and get_credential_in_use.  A member's          *)
(* credential is Basic (None) or a certificate, which may have expired.    *)

Credential == [cert : Leaves, expired : BOOLEAN] \cup {None}

\* The state follows the last member.
LastMember(e, state, m) ==
    IF m # None /\ ~m.expired /\ Validate(e, m.cert) THEN "Verified" ELSE "NotVerified"

\* The closure of the fold over the members' credentials.
AfterMember(e, state, m) ==
    IF m # None /\ ~m.expired /\ Validate(e, m.cert) THEN state ELSE "NotVerified"

ComputeState(e, members) ==
    LET fold[n \in 0 .. Len(members)] ==
            IF n = 0 THEN "Verified" ELSE AfterMember(e, fold[n - 1], members[n])
    IN  IF \E n \in DOMAIN members : members[n] # None THEN fold[Len(members)] ELSE "NotEnabled"

Running(t) == task[t] # None

Holding == {task[t].op : t \in {u \in Tasks : Running(u)}}

Begin(t, op, step, arg) ==
    /\ ~Running(t)
    /\ MayEnter(op, Holding)
    /\ task' = [task EXCEPT ![t] = [op |-> op, step |-> step, arg |-> arg]]

At(t, op, step) == Running(t) /\ task[t].op = op /\ task[t].step = step

Goto(t, step) == task' = [task EXCEPT ![t].step = step]

End(t) == task' = [task EXCEPT ![t] = None]

-----------------------------------------------------------------------------
(* e2ei_register_acme_ca.                                                  *)

\* TrustAnchorAlreadyRegistered when there is one.
AcmeCheck(t, a) ==
    /\ certs.ca = << >>
    /\ Begin(t, "e2ei_register_acme_ca", "save", a)
    /\ UNCHANGED <<certs, env, unrefreshed>>

AcmeSave(t) ==
    LET saved == Save(CaTable, certs.ca, CaId, task[t].arg)
    IN  /\ At(t, "e2ei_register_acme_ca", "save")
        /\ certs' = [certs EXCEPT !.ca = saved.rows]
        /\ IF saved.ok THEN Goto(t, "env") ELSE End(t)
        /\ UNCHANGED <<env, unrefreshed>>

-----------------------------------------------------------------------------
(* e2ei_register_intermediate_ca, also for the chain of one's own          *)
(* certificate.  The root itself is skipped.                               *)

InterSteps == {"e2ei_register_intermediate_ca", "e2ei_mls_init_only", "e2ei_rotate_all"}

\* Any certificate goes.
AnyIntermediate(c) == TRUE

MayRegister(c) == certs.ca # << >> /\ Validate(env, c)

InterCheck(t, op, c) ==
    /\ MayRegister(c)
    /\ Begin(t, op, "save", c)
    /\ UNCHANGED <<certs, env, unrefreshed>>

InterSave(t) ==
    /\ Running(t) /\ task[t].op \in InterSteps /\ task[t].step = "save"
    /\ certs' = [certs EXCEPT !.inters = Save(InterTable, @, task[t].arg, task[t].arg).rows]
    /\ Goto(t, "env")
    /\ UNCHANGED <<env, unrefreshed>>

-----------------------------------------------------------------------------
(* e2ei_register_crl.                                                      *)

CrlCheck(t, p, revoked) ==
    /\ env.roots # {}
    /\ Begin(t, "e2ei_register_crl", "save", [point |-> p, revoked |-> revoked])
    /\ UNCHANGED <<certs, env, unrefreshed>>

CrlSave(t) ==
    /\ At(t, "e2ei_register_crl", "save")
    /\ certs' = [certs EXCEPT !.crls = Save(CrlTable, @, task[t].arg.point, task[t].arg).rows]
    /\ Goto(t, "env")
    /\ UNCHANGED <<env, unrefreshed>>

\* The end of the three registrations.
RefreshEnv(t) ==
    /\ Running(t) /\ task[t].step = "env"
    /\ task[t].op \in {"e2ei_register_acme_ca", "e2ei_register_intermediate_ca", "e2ei_register_crl"}
    /\ env' = InitPkiEnv(certs)
    /\ unrefreshed' = FALSE
    /\ End(t)
    /\ UNCHANGED certs

\* The save or init_pki_env fails and the call, also one that was to use a
\* certificate, returns the error.
RegistrationFails(t) ==
    /\ Running(t) /\ task[t].step \in {"save", "env"}
    /\ unrefreshed' = (unrefreshed \/ task[t].step = "env")
    /\ End(t)
    /\ UNCHANGED <<certs, env>>

\* The application dies and MlsCentral::try_new restores the environment.
PkiRestart ==
    /\ env' = Snapshot(certs)
    /\ unrefreshed' = FALSE
    /\ task' = [t \in Tasks |-> None]
    /\ UNCHANGED certs

PkiInit ==
    /\ certs = [ca |-> << >>, inters |-> << >>, crls |-> << >>]
    /\ env = Snapshot(certs)
    /\ unrefreshed = FALSE
    /\ task = [t \in Tasks |-> None]

PkiStep ==
    \/ \E t \in Tasks, a \in Anchors : AcmeCheck(t, a)
    \/ \E t \in Tasks : AcmeSave(t)
    \/ \E t \in Tasks, c \in Intermediates : InterCheck(t, "e2ei_register_intermediate_ca", c)
    \/ \E t \in Tasks : InterSave(t)
    \/ \E t \in Tasks, p \in Points, r \in Lists : CrlCheck(t, p, r)
    \/ \E t \in Tasks : CrlSave(t)
    \/ \E t \in Tasks : RefreshEnv(t)
    \/ \E t \in Tasks : RegistrationFails(t)

PkiSpec == PkiInit /\ [][PkiStep \/ PkiRestart]_pkiVars

-----------------------------------------------------------------------------
(* Properties.                                                             *)

ListType == [point : Points, revoked : Lists]

\* The registrations in progress: what they save, and where they are.
Registrations ==
    UNION {[op : {"e2ei_register_acme_ca"}, step : {"save", "env"}, arg : Anchors],
           [op : InterSteps, step : {"save", "env"}, arg : Intermediates],
           [op : {"e2ei_register_crl"}, step : {"save", "env"}, arg : ListType]}

ASSUME NoneAssumption == None \notin Registrations

\* Unless a registration is between its save and its refresh, credentials are
\* validated against exactly what is registered: no root, intermediate or
\* revocation that the keystore holds is missing, and none is left over.  Only
\* a registration that returned the error of its refresh leaves a stale
\* environment (init_certificates.rs:55, 121, 170), and only up to the next one
\* that succeeds or the next start.
EnvFresh ==
    (\A t \in Tasks : Running(t) => task[t].step # "env") =>
        unrefreshed \/ env = Snapshot(certs)

\* Every registered intermediate was issued by the registered root.
IntermediatesTrusted ==
    \A n \in 1 .. Len(certs.inters) : IssuerOf[certs.inters[n].id] \in Registered(certs.ca)

\* A certificate that the keystore vouches for: a chain from the registered root
\* to it, of registered certificates, none of which is on a stored list.
Vouched(c) ==
    LET revoked == Revoked(Registered(certs.crls))
    IN  /\ c \notin revoked
        /\ \E root \in Registered(certs.ca) :
              \/ IssuerOf[c] = root
              \/ \E i \in Registered(certs.inters) \ revoked : IssuerOf[c] = i /\ IssuerOf[i] = root

\* "All clients have a valid E2EI certificate" / "All clients are still Basic":
\* the state the application shows of a conversation, computed from the cached
\* environment, is the one that follows from the keystore, with a revoked or
\* missing intermediate degrading the members below it.  The query takes the
\* central's lock, so it does not meet a registration half done.
StateIsTrue ==
    LET Valid(m) == m # None /\ ~m.expired /\ Vouched(m.cert)
    IN  Holding = {} /\ ~unrefreshed =>
          \A a, b \in Credential :
            ComputeState(env, <<a, b>>) =
              CASE Valid(a) /\ Valid(b) -> "Verified"
                [] a = None /\ b = None -> "NotEnabled"
                [] OTHER -> "NotVerified"

=============================================================================
