----------------------------- MODULE Enrollment -----------------------------
(***************************************************************************)
(* An end-to-end identity enrollment (crypto/src/e2e_identity/mod.rs): the *)
(* exchanges with the ACME server up to the certificate, the refresh token *)
(* of the identity provider, and the stash that keeps an enrollment while  *)
(* the user is sent to a browser (stash.rs, refresh_token.rs).             *)
(*                                                                         *)
(* An exchange is the request function, the server's work and the response *)
(* function; the response may be lost, and the application calls the       *)
(* request function again.  What the application holds is in a slot.       *)
(***************************************************************************)
EXTENDS Pki

CONSTANTS
    Slots,              \* enrollments the application can hold
    MaxEnrollments,     \* enrollments of a behaviour
    MaxLosses           \* responses that get lost

ASSUME EnrollmentAssumption == {MaxEnrollments, MaxLosses} \subseteq Nat

VARIABLES
    live,       \* the E2eiEnrollment in each slot
    stash,      \* table e2ei_enrollment: handle, enrollment
    token,      \* table e2ei_refresh_token
    count,      \* enrollments, handles and losses so far
    spent,      \* of the enrollment that a call is given: see Answered
    x509        \* the same, of the enrollment behind the client's certificate

enrollVars == <<live, stash, token, count, spent, x509>>

vars == <<pkiVars, enrollVars>>

StashTable == Descriptor(Platform, "e2ei_enrollment")
TokenTable == Descriptor(Platform, "e2ei_refresh_token")

Exchanges ==
    {"directory", "account", "order", "user_authz", "device_authz", "dpop", "oidc", "check",
     "finalize", "certificate"}

\* The fields a request function looks at: OutOfOrderEnrollment without them.
Needs(x) ==
    CASE x = "directory" -> {}
      [] x = "account" -> {"directory"}
      [] x = "order" -> {"directory", "account"}
      [] x \in {"user_authz", "device_authz", "check"} -> {"account"}
      [] x = "dpop" -> {"device_authz", "account"}
      [] x = "oidc" -> {"user_authz", "account"}
      [] x = "finalize" -> {"account", "check"}
      [] x = "certificate" -> {"account", "finalize"}

\* The arguments of a request that come from an earlier response: the URLs of
\* the authorizations and of the order.  The responses to the challenges are not
\* asked for.
Awaits(x) == IF x \in {"user_authz", "device_authz", "check"} THEN {"order"} ELSE {}

\* What the server must have seen: a check of an order that is not ready and
\* the finalization of one are refused.
Accepts(x, validated) ==
    CASE x \in {"dpop", "oidc"} -> "order" \in validated
      [] x \in {"check", "finalize"} -> {"dpop", "oidc"} \subseteq validated
      [] x = "certificate" -> "finalize" \in validated
      [] OTHER -> TRUE

\* The fields a request function takes.
Takes(x) == IF x = "certificate" THEN {"account", "finalize"} ELSE {}

\* has: the fields that are set; acme: what the server has validated.
NewEnrollmentRecord(id, rt) == [id |-> id, has |-> {}, acme |-> {}, token |-> rt]

FreeSlot(s) == live[s] = None

HasCertificate == x509 # "no"

\* Whether the application passed on the answer to the OIDC challenge, or went on
\* to the order without it.
Answered(e) == IF "oidc" \in e.has THEN "answered" ELSE "unanswered"

-----------------------------------------------------------------------------
(* Starting: e2ei_new_enrollment and e2ei_new_activation_enrollment, or    *)
(* e2ei_new_rotate_enrollment, which loads the refresh token (not on WASM).*)

NewEnrollment(s) ==
    /\ Holding = {}
    /\ ~HasCertificate
    /\ FreeSlot(s)
    /\ count.enrollments < MaxEnrollments
    /\ live' = [live EXCEPT ![s] = NewEnrollmentRecord(count.enrollments + 1, None)]
    /\ count' = [count EXCEPT !.enrollments = @ + 1]
    /\ UNCHANGED <<pkiVars, stash, token, spent, x509>>

NewRotateEnrollment(s) ==
    /\ Holding = {}
    /\ HasCertificate
    /\ FreeSlot(s)
    /\ count.enrollments < MaxEnrollments
    /\ Platform = "generic" => token # << >>
    /\ live' = [live EXCEPT ![s] =
          NewEnrollmentRecord(count.enrollments + 1,
                              IF Platform = "generic" THEN token[1].val ELSE None)]
    /\ count' = [count EXCEPT !.enrollments = @ + 1]
    /\ UNCHANGED <<pkiVars, stash, token, spent, x509>>

-----------------------------------------------------------------------------
(* The exchanges.                                                          *)

\* new_oidc_challenge_request keeps the token it is given (not on WASM).
TokenAfter(e, x) == IF x = "oidc" /\ Platform = "generic" THEN e.id ELSE e.token

\* The answer to the challenge is taken for the end of it.
DropToken(e, x, lost) == token

\* Without replacing the previous one.
AppendToken(e, x, lost) ==
    IF x = "oidc" /\ ~lost THEN Append(token, Row("0", e.id)) ELSE token

\* new_oidc_challenge_response persists it.
PersistToken(e, x, lost) ==
    IF x = "oidc" /\ ~lost /\ Platform = "generic" THEN Save(TokenTable, token, "0", e.id).rows
    ELSE token

Exchange(s, x, lost) ==
    LET e == live[s]
    IN  /\ ~FreeSlot(s)
        /\ x \notin e.has
        /\ Needs(x) \subseteq e.has
        /\ Awaits(x) \subseteq e.has
        /\ Accepts(x, e.acme)
        /\ lost => count.losses < MaxLosses
        /\ x = "oidc" => Holding = {}           \* the response takes the central's lock
        /\ live' = [live EXCEPT ![s] =
              [id |-> e.id,
               acme |-> e.acme \cup ({x} \cap {"order", "dpop", "oidc", "finalize"}),
               has |-> (e.has \ Takes(x)) \cup (IF lost THEN {} ELSE {x}),
               token |-> IF x = "oidc" /\ ~lost THEN None ELSE TokenAfter(e, x)]]
        /\ token' = PersistToken(e, x, lost)
        /\ count' = [count EXCEPT !.losses = @ + (IF lost THEN 1 ELSE 0)]
        /\ UNCHANGED <<pkiVars, stash, spent, x509>>

-----------------------------------------------------------------------------
(* The end: e2ei_mls_init_only and e2ei_rotate_all consume the enrollment, *)
(* register the intermediate of the certificate's chain, and then use the  *)
(* certificate (module Client).                                            *)

Finish == IF HasCertificate THEN "e2ei_rotate_all" ELSE "e2ei_mls_init_only"

UseCertificate(t, s, c) ==
    /\ ~FreeSlot(s)
    /\ {"certificate", "check"} \subseteq live[s].has
    /\ \/ InterCheck(t, Finish, c) /\ spent' = Answered(live[s])
       \/ /\ ~MayRegister(c) /\ Holding = {}
          /\ UNCHANGED <<pkiVars, spent>>          \* the error loses the enrollment
    /\ live' = [live EXCEPT ![s] = None]
    /\ UNCHANGED <<stash, token, count, x509>>

CertificateInUse(t) ==
    /\ Running(t) /\ task[t].step = "env"
    /\ task[t].op \in {"e2ei_mls_init_only", "e2ei_rotate_all"}
    /\ env' = InitPkiEnv(certs)
    /\ unrefreshed' = FALSE
    /\ End(t)
    /\ x509' = spent
    /\ spent' = "no"
    /\ UNCHANGED <<certs, live, stash, token, count>>

\* Dropping an enrollment that cannot go on.
Abandon(s) ==
    /\ ~FreeSlot(s)
    /\ live' = [live EXCEPT ![s] = None]
    /\ UNCHANGED <<pkiVars, stash, token, count, spent, x509>>

-----------------------------------------------------------------------------
(* e2ei_enrollment_stash and e2ei_enrollment_stash_pop.                    *)

\* The enrollment stays with the application.
StashCopy(s) == live

StashMove(s) == [live EXCEPT ![s] = None]

Stash(s) ==
    /\ Holding = {}
    /\ ~FreeSlot(s)
    /\ count.handles < MaxEnrollments
    /\ stash' = Save(StashTable, stash, count.handles + 1, live[s]).rows
    /\ count' = [count EXCEPT !.handles = @ + 1]
    /\ live' = StashMove(s)
    /\ UNCHANGED <<pkiVars, token, spent, x509>>

\* pop_e2ei_enrollment: find, then remove.
PopFind(t, h) ==
    /\ Stored(stash, h)
    /\ Begin(t, "e2ei_enrollment_stash_pop", "remove",
             [handle |-> h, found |-> stash[FirstRow(stash, h)].val])
    /\ UNCHANGED <<certs, env, unrefreshed, enrollVars>>

PopRemove(t, s) ==
    LET erased == Erase(StashTable, stash, task[t].arg.handle)
    IN  /\ At(t, "e2ei_enrollment_stash_pop", "remove")
        /\ stash' = erased.rows
        /\ IF erased.ok
           THEN FreeSlot(s) /\ live' = [live EXCEPT ![s] = task[t].arg.found]
           ELSE UNCHANGED live
        /\ End(t)
        /\ UNCHANGED <<certs, env, unrefreshed, token, count, spent, x509>>

\* The application dies: what it held is gone.
Restart ==
    /\ PkiRestart
    /\ live' = [s \in Slots |-> None]
    /\ spent' = "no"
    /\ UNCHANGED <<stash, token, count, x509>>

EnrollmentInit ==
    /\ PkiInit
    /\ live = [s \in Slots |-> None]
    /\ stash = << >>
    /\ token = << >>
    /\ count = [enrollments |-> 0, handles |-> 0, losses |-> 0]
    /\ spent = "no"
    /\ x509 = "no"

EnrollmentNext ==
    \/ PkiStep /\ UNCHANGED enrollVars
    \/ \E s \in Slots : NewEnrollment(s)
    \/ \E s \in Slots : NewRotateEnrollment(s)
    \/ \E s \in Slots, x \in Exchanges, lost \in BOOLEAN : Exchange(s, x, lost)
    \/ \E t \in Tasks, s \in Slots, c \in Intermediates : UseCertificate(t, s, c)
    \/ \E t \in Tasks : CertificateInUse(t)
    \/ \E s \in Slots : Abandon(s)
    \/ \E s \in Slots : Stash(s)
    \/ \E t \in Tasks, h \in 1 .. MaxEnrollments : PopFind(t, h)
    \/ \E t \in Tasks, s \in Slots : PopRemove(t, s)
    \/ Restart

EnrollmentSpec == EnrollmentInit /\ [][EnrollmentNext]_vars

-----------------------------------------------------------------------------
(* Properties.                                                             *)

Records ==
    [id : 1 .. MaxEnrollments, has : SUBSET Exchanges, acme : SUBSET Exchanges,
     token : (1 .. MaxEnrollments) \cup {None}]

\* A pop between its find and its remove.
Pops ==
    [op : {"e2ei_enrollment_stash_pop"}, step : {"remove"},
     arg : [handle : 1 .. MaxEnrollments, found : Records]]

ASSUME NoEnrollmentAssumption == None \notin Records \cup Pops

\* Rows, slots, tasks and the environment are what the tables and structs declare.
EnrollmentTypeOK ==
    /\ \A s \in Slots : live[s] \in Records \cup {None}
    /\ \A t \in Tasks : task[t] \in Registrations \cup Pops \cup {None}
    /\ \A n \in 1 .. Len(stash) : stash[n].id \in 1 .. count.handles /\ stash[n].val \in Records
    /\ Len(token) <= 1
    /\ Registered(certs.ca) \subseteq Anchors /\ Len(certs.ca) <= 1
    /\ Registered(certs.crls) \subseteq ListType
    /\ env.inters \subseteq Intermediates
    /\ {spent, x509} \subseteq {"no", "answered", "unanswered"} /\ unrefreshed \in BOOLEAN

\* An enrollment, with its signature key and its ACME account, is in one place:
\* a slot of the application or a row of the stash.
Places(id) ==
    {<<"live", s>> : s \in {u \in Slots : live[u] # None /\ live[u].id = id}} \cup
    {<<"stash", n>> : n \in {m \in 1 .. Len(stash) : stash[m].val.id = id}}

HeldOnce == \A id \in 1 .. MaxEnrollments : Cardinality(Places(id)) <= 1

\* "Since we are renewing an e2ei certificate we MUST have already generated
\* one hence [...] gotten a refresh token from it we also MUST have stored in
\* CoreCrypto" (rotate.rs): a client can start the enrollment that renews its
\* certificate, although responses get lost, enrollments are stashed and
\* abandoned and registrations fail, if the enrollment behind the certificate
\* was given the answer to its OIDC challenge.
RotationHasToken == x509 = "answered" /\ Platform = "generic" => token # << >>

=============================================================================
