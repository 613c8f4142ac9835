----------------------------- MODULE Identities -----------------------------
(***************************************************************************)
(* The identities of a conversation's members                              *)
(* (crypto/src/e2e_identity/identity.rs): by device and by user.  The      *)
(* members are iterated in the order of a hash map, which is arbitrary and *)
(* another one for every call.  An identity is the device it is of; only a *)
(* device with a certificate has one.                                      *)
(***************************************************************************)
EXTENDS Naturals, FiniteSets, SequencesExt

CONSTANTS
    Devices,    \* clients
    UserOf,     \* the user a device belongs to: UserId::try_from
    None        \* no answer

VARIABLES
    members,    \* the members' credential types
    answer      \* the last answer, until the conversation changes

identityVars == <<members, answer>>

Users == {UserOf[d] : d \in Devices}

Certified == {d \in DOMAIN members : members[d] = "x509"}

\* MlsConversation::members
MembersOrders == SetToSeqs(DOMAIN members)

\* The consecutive positions of s, up to its last device of user u, that are
\* u's: the last group of u that group_by makes, which is the one the map keeps.
LastGroup(s, u) ==
    LET last == SelectLastInSeq(s, LAMBDA d : UserOf[d] = u)
    IN  {n \in 1 .. last : \A k \in n .. last : UserOf[s[k]] = u}

GroupBy(s) ==
    [u \in {UserOf[d] : d \in ToSet(s)} |-> {s[n] : n \in LastGroup(s, u)}]

\* ConsumerError when nobody is asked for.
GetDeviceIdentities(asked) ==
    /\ asked # {}
    /\ answer' = [of |-> "devices", asked |-> asked, got |-> [d \in asked \cap Certified |-> {d}]]
    /\ UNCHANGED members

GetUserIdentities(asked) ==
    /\ asked # {}
    /\ \E order \in MembersOrders :
          answer' = [of |-> "users", asked |-> asked,
                     got |-> GroupBy(SelectSeq(order, LAMBDA d : d \in Certified /\ UserOf[d] \in asked))]
    /\ UNCHANGED members

\* Commits: a device joins or its new leaf has a certificate, or it leaves.
SetMember(d, type) ==
    /\ members' = [e \in DOMAIN members \cup {d} |-> IF e = d THEN type ELSE members[e]]
    /\ members' # members
    /\ answer' = None

Leave(d) ==
    /\ d \in DOMAIN members /\ Cardinality(DOMAIN members) > 1
    /\ members' = [e \in DOMAIN members \ {d} |-> members[e]]
    /\ answer' = None

IdentitiesInit ==
    /\ \E d \in Devices : members = [e \in {d} |-> "basic"]
    /\ answer = None

IdentitiesNext ==
    \/ \E asked \in SUBSET Devices : GetDeviceIdentities(asked)
    \/ \E asked \in SUBSET Users : GetUserIdentities(asked)
    \/ \E d \in Devices, type \in {"basic", "x509"} : SetMember(d, type)
    \/ \E d \in Devices : Leave(d)

IdentitiesSpec == IdentitiesInit /\ [][IdentitiesNext]_identityVars

-----------------------------------------------------------------------------
(* Properties.                                                             *)

\* "Returns a Map with all the identities for a given users": an answer by user
\* holds the identity of every device of the users asked for that has a
\* certificate.
AllUserIdentities ==
    answer # None /\ answer.of = "users" =>
        UNION {answer.got[u] : u \in DOMAIN answer.got} =
            {d \in Certified : UserOf[d] \in answer.asked}

=============================================================================
