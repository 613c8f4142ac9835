------------------------- MODULE ConversationProofs -------------------------
(***************************************************************************)
(* Proofs about Conversation, for any number of clients and any bounds:    *)
(* type correctness, EpochAgreement and AppAtMostOnce for any choice of    *)
(* the switches, BufferedReachesApp for a keystore that keeps a row per    *)
(* buffered message.                                                       *)
(***************************************************************************)
EXTENDS Conversation, TLAPS

-----------------------------------------------------------------------------
(* Facts about the operators of MlsGroup and MessageBuffer.                *)

\* NewGroup and NoGroup, the groups of create, of a Welcome and of a wipe, are
\* groups.
LEMMA NewGroupType ==
  ASSUME NEW e \in Nat, NEW t \in Nat, NEW ms \in SUBSET Client
  PROVE  /\ NewGroup(e, t, ms) \in Group
         /\ NoGroup \in Group
BY SMT DEF NewGroup, NoGroup, Group

\* merge_staged_commit turns a group and a commit into a group.
LEMMA MergeType ==
  ASSUME NEW c \in Client, NEW g \in Group, NEW cm \in Commit
  PROVE  Merge(c, g, cm) \in Group
<1>1. Added(cm) \subseteq Client
  BY DEF Added, Queued, Commit, Proposal
<1>2. MembersAfter(g.members, cm) \in SUBSET Client
  BY <1>1 DEF MembersAfter, Group
<1>3. cm.tag \in Nat
  BY DEF Commit
<1>4. (IF c \in Removed(cm) THEN "inactive" ELSE g.status)
        \in {"none", "operational", "inactive"}
  BY DEF Group
<1>5. ASSUME NEW st \in {"none", "operational", "inactive"}, NEW e \in Nat,
             NEW t \in Nat, NEW ms \in SUBSET Client
      PROVE  [g EXCEPT !.epoch = e, !.tag = t, !.members = ms, !.props = {},
                       !.pc = NoCommit, !.status = st] \in Group
  BY DEF Group
<1>6. g.epoch + 1 \in Nat
  BY DEF Group
<1>7. QED
  BY <1>2, <1>3, <1>4, <1>5, <1>6 DEF Merge

\* The keystore's save of a buffered message, on SQL and on WASM.
LEMMA SaveType ==
  ASSUME NEW b \in SUBSET Row, NEW m \in Message, NEW x \in Save(b, m)
  PROVE  x \in SUBSET Row
<1>1. ASSUME NEW n \in Nat
      PROVE  [n |-> n, msg |-> m] \in Row
  BY DEF Row
<1>2. FreeRows(b) \subseteq Nat
  BY BufferAssumption DEF FreeRows
<1>3. QED
  BY <1>1, <1>2 DEF Save

\* parse_message accepts a commit in its own epoch only.
LEMMA CommitParsedInEpoch ==
  ASSUME NEW g \in Group, NEW cm \in Commit, ParseMessage(g, cm) = "Ok"
  PROVE  cm.epoch = g.epoch /\ g.status = "operational"
BY DEF ParseMessage, ParseWrongEpoch, Commit

-----------------------------------------------------------------------------
(* The operators of MlsGroup keep their types.                             *)

\* The proposals a lost race renews, whichever they are, are proposals of the
\* client in the new epoch.
LEMMA RenewalType ==
  ASSUME NEW c \in Client, NEW g \in Group, NEW cm \in Commit, NEW e \in Nat
  PROVE  /\ UpdateProposal(c, e) \in Proposal
         /\ \A p \in ProposalsToRenew(c, g, cm) : RenewedProposal(c, e, p) \in Proposal
<1>1. UpdateProposal(c, e) \in Proposal
  BY DEF UpdateProposal, Proposal
<1>2. ProposalsToRenew(c, g, cm) \subseteq Proposal
  BY NoCommitAssumption
  DEF ProposalsToRenew, SelfPendingProposals, Queued, Group, Commit
<1>3. ASSUME NEW p \in Proposal
      PROVE  [p EXCEPT !.sender = c] \in Proposal
  BY DEF Proposal
<1>4. QED
  BY <1>1, <1>2, <1>3 DEF RenewedProposal

\* Whatever decrypt_message makes of a message, the group in memory after it is
\* a group and it returns application messages and proposals.
LEMMA OutcomeType ==
  ASSUME NEW c \in Client, NEW g \in Group, NEW m \in Message,
         NEW o \in DecryptOutcomes(c, g, m)
  PROVE  /\ o.g \in Group
         /\ o.apps \in SUBSET Nat
         /\ o.props \in SUBSET ProposalMsg
<1>1. CASE IsSelfCommit(c, m)
  <2>1. o = SelfCommitOutcome(c, g, m)
    BY <1>1 DEF DecryptOutcomes
  <2>2. g.pc # NoCommit => Merge(c, g, g.pc) \in Group
    BY MergeType DEF Group
  <2>3. QED
    BY <2>1, <2>2 DEF SelfCommitOutcome, Outcome
<1>2. CASE ~IsSelfCommit(c, m) /\ ParseMessage(g, m) # "Ok"
  BY <1>2 DEF DecryptOutcomes, Outcome
<1>3. CASE ~IsSelfCommit(c, m) /\ ParseMessage(g, m) = "Ok" /\ m.kind = "app"
  <2>1. m.id \in Nat
    BY <1>3 DEF Message, Commit, ProposalMsg, AppMsg
  <2>2. [g EXCEPT !.used = @ \cup {m.id}] \in Group
    BY <2>1 DEF Group
  <2>3. QED
    BY <1>3, <2>1, <2>2 DEF DecryptOutcomes, Outcome
<1>4. CASE ~IsSelfCommit(c, m) /\ ParseMessage(g, m) = "Ok" /\ m.kind = "proposal"
  <2>1. m.prop \in Proposal
    BY <1>4 DEF Message, Commit, ProposalMsg, AppMsg
  <2>2. [g EXCEPT !.props = @ \cup {m.prop}] \in Group
    BY <2>1 DEF Group
  <2>3. QED
    BY <1>4, <2>2 DEF DecryptOutcomes, Outcome
<1>5. CASE ~IsSelfCommit(c, m) /\ ParseMessage(g, m) = "Ok" /\ m.kind = "commit"
  <2> DEFINE merged == Merge(c, g, m)
             todo == ProposalsToRenew(c, g, m)
             failing == {p \in todo : RenewalFails(c, p)}
             update == IF NeedsUpdate(c, g, m) THEN {UpdateProposal(c, merged.epoch)} ELSE {}
             Renewed(S) == {RenewedProposal(c, merged.epoch, p) : p \in S}
             With(S) == RenewIn(merged, S)
             Msgs(S) == {[kind |-> "proposal", epoch |-> merged.epoch, prop |-> p] : p \in S}
  <2>1. m \in Commit
    BY <1>5 DEF Message, Commit, ProposalMsg, AppMsg
  <2>2. merged \in Group /\ merged.epoch \in Nat
    BY <2>1, MergeType DEF Group
  <2>3. \A S \in SUBSET todo : Renewed(S) \subseteq Proposal
    BY <2>1, <2>2, RenewalType
  <2>4. update \subseteq Proposal
    BY <2>1, <2>2, RenewalType
  <2>5. ASSUME NEW S \in SUBSET Proposal
        PROVE  With(S) \in Group /\ Msgs(S) \in SUBSET ProposalMsg
    BY <2>2 DEF RenewIn, Group, ProposalMsg
  <2>6. o \in CommitOutcomes(c, g, m)
    BY <1>5 DEF DecryptOutcomes
  <2>7. \/ o = Outcome("RenewalFailed", merged, FALSE, {}, {})
        \/ \E S \in SUBSET todo : o = Outcome("RenewalFailed", With(Renewed(S)), S # {}, {}, {})
        \/ o = Outcome("Ok", With(Renewed(todo) \cup update), Renewed(todo) \cup update # {},
                       {}, Msgs(Renewed(todo) \cup update))
    BY <2>6 DEF CommitOutcomes
  <2> HIDE DEF merged, todo, failing, update, Renewed, With, Msgs
  <2>8. QED
    BY <2>2, <2>3, <2>4, <2>5, <2>7 DEF Outcome
<1>6. m.kind \in {"app", "proposal", "commit"}
  BY DEF Message, Commit, ProposalMsg, AppMsg
<1>7. QED
  BY <1>1, <1>2, <1>3, <1>4, <1>5, <1>6

-----------------------------------------------------------------------------
(* The building blocks of the actions keep the types of the variables.     *)

\* Saving a group in memory and in the keystore.
LEMMA PersistType ==
  ASSUME TypeOK, NEW c \in Client, NEW g \in Group, Persist(c, g)
  PROVE  mem' \in [Client -> Group] /\ disk' \in [Client -> Group]
BY DEF TypeOK, Persist

\* What the DS fans out to a set of clients are packets.
LEMMA FanOutType ==
  ASSUME NEW m \in Message \cup Welcome, NEW R \in SUBSET Client
  PROVE  FanOut(m, R) \in SUBSET Packet
BY DEF FanOut, Packet

\* What the bounds count stays a number.
LEMMA CountType ==
  ASSUME NEW k \in Counters
  PROVE  /\ k.prop \in Nat /\ k.app \in Nat
         /\ [k EXCEPT !.prop = @ + 1] \in Counters
         /\ [k EXCEPT !.app = k.app + 1] \in Counters
         /\ [k EXCEPT !.dup = @ + 1] \in Counters
         /\ [k EXCEPT !.crash = @ + 1] \in Counters
BY DEF Counters

\* A delivery only takes packets off the network.
LEMMA DeliverType ==
  ASSUME TypeOK, NEW c \in Client, NEW m, Deliver(c, m) \/ ProcessWelcome(c, m)
  PROVE  /\ net' \in SUBSET Packet
         /\ count' \in Counters /\ count'.app = count.app
         /\ net' \subseteq net /\ [to |-> c, msg |-> m] \in net
         /\ m \in Message \cup Welcome
         /\ m.kind # "welcome" => m \in Message
<1>1. /\ net' \subseteq net /\ [to |-> c, msg |-> m] \in net
      /\ count' = count \/ count' = [count EXCEPT !.dup = @ + 1]
  BY DEF Deliver, ProcessWelcome
<1>2. net' \in SUBSET Packet /\ m \in Message \cup Welcome
  BY <1>1 DEF TypeOK, Packet
<1>3. count' \in Counters
  BY <1>1, CountType DEF TypeOK
<1>4. count'.app = count.app
  BY <1>1 DEF TypeOK, Counters
<1>5. m \in Welcome => m.kind = "welcome"
  BY DEF Welcome
<1>6. QED
  BY <1>1, <1>2, <1>3, <1>4, <1>5

\* The DS always knows the members of its current epoch.
LEMMA RosterType ==
  ASSUME TypeOK
  PROVE  Roster \in SUBSET Client
BY DEF TypeOK, Roster

\* Returning from a call.
LEMMA ReturnType ==
  ASSUME TypeOK, NEW c \in Client, NEW apps, NEW props \in SUBSET ProposalMsg,
         Return(c, apps, props)
  PROVE  /\ got' \in [Client -> [App -> Nat]]
         /\ outbox' \in [Client -> SUBSET ProposalMsg]
<1>1. [i \in App |-> IF i \in apps THEN got[c][i] + 1 ELSE got[c][i]] \in [App -> Nat]
  BY DEF TypeOK
<1>2. QED
  BY <1>1 DEF TypeOK, Return

\* The common end of the operations that create a commit.
LEMMA CreateCommitType ==
  ASSUME TypeOK, NEW c \in Client, NEW inline \in SUBSET Proposal, CreateCommit(c, inline)
  PROVE  /\ mem' \in [Client -> Group] /\ disk' \in [Client -> Group]
         /\ created' \in SUBSET Commit
<1>1. PICK t \in Tag :
        LET cm == [kind |-> "commit", epoch |-> mem[c].epoch, sender |-> c,
                   refs |-> CommittedRefs(c, mem[c]), inline |-> inline, tag |-> t]
        IN  /\ Persist(c, [mem[c] EXCEPT !.pc = cm])
            /\ created' = created \cup {cm}
  BY DEF CreateCommit
<1> DEFINE cm == [kind |-> "commit", epoch |-> mem[c].epoch, sender |-> c,
                  refs |-> CommittedRefs(c, mem[c]), inline |-> inline, tag |-> t]
<1>2. mem[c] \in Group
  BY DEF TypeOK
<1>3. t \in Nat
  BY ConversationAssumption DEF Tag
<1>4. CommittedRefs(c, mem[c]) \in SUBSET Proposal
  BY <1>2 DEF CommittedRefs, Group
<1>5. mem[c].epoch \in Nat
  BY <1>2 DEF Group
<1>6. cm \in Commit
  BY <1>3, <1>4, <1>5 DEF Commit
<1>7. Persist(c, [mem[c] EXCEPT !.pc = cm]) /\ created' = created \cup {cm}
  BY <1>1
<1> HIDE DEF cm
<1>8. [mem[c] EXCEPT !.pc = cm] \in Group
  BY <1>2, <1>6 DEF Group
<1>9. QED
  BY <1>6, <1>7, <1>8, PersistType DEF TypeOK

-----------------------------------------------------------------------------
(* Type correctness.                                                       *)

\* The founders' groups and the empty stores have their types.
LEMMA InitType == Init => TypeOK
<1> SUFFICES ASSUME Init PROVE TypeOK
  OBVIOUS
<1>1. NewGroup(0, 0, Founders) \in Group /\ NoGroup \in Group
  BY NewGroupType, ConversationAssumption
<1>2. mem \in [Client -> Group] /\ disk \in [Client -> Group]
  BY <1>1 DEF Init
<1>3. Idle \in Call
  BY DEF Idle, Call
<1>4. rosters \in Seq(SUBSET Client) /\ rosters # << >> /\ log \in Seq(Commit)
  <2>1. rosters = <<Founders>> /\ log = << >>
    BY DEF Init
  <2>2. Founders \in SUBSET Client
    BY ConversationAssumption
  <2>3. \A F \in SUBSET Client : <<F>> \in Seq(SUBSET Client) /\ <<F>> # << >>
    OBVIOUS
  <2>4. QED
    BY <2>1, <2>2, <2>3
<1>5. count \in Counters
  BY DEF Init, Counters
<1>6. buf \in [Client -> SUBSET Row] /\ call \in [Client -> Call]
  BY <1>3 DEF Init
<1>7. /\ outbox \in [Client -> SUBSET ProposalMsg]
      /\ got \in [Client -> [App -> Nat]]
      /\ post \in [Client -> {"idle", "ok"}]
  BY DEF Init
<1>8. net \in SUBSET Packet /\ created \in SUBSET Commit
  BY DEF Init
<1>9. QED
  BY <1>2, <1>4, <1>5, <1>6, <1>7, <1>8 DEF TypeOK

\* The operations that create messages keep the types.
LEMMA CreateType ==
  ASSUME TypeOK, NEW c \in Client, Create(c)
  PROVE  TypeOK'
<1> USE DEF TypeOK
<1>g. /\ mem[c] \in Group /\ mem[c].epoch \in Nat
      /\ count.prop + 1 \in Nat /\ count.app + 1 \in Nat
  <2>1. count \in Counters /\ mem[c] \in Group
    OBVIOUS
  <2>2. count.prop \in Nat /\ count.app \in Nat
    BY <2>1, CountType
  <2>3. mem[c].epoch \in Nat
    BY <2>1 DEF Group
  <2>4. QED
    BY <2>1, <2>2, <2>3
<1>1. CASE EncryptMessage(c)
  <2> DEFINE id == count.app + 1
             m == [kind |-> "app", epoch |-> mem[c].epoch, sender |-> c, id |-> id]
  <2>1. [mem[c] EXCEPT !.used = @ \cup {id}] \in Group
    BY <1>g DEF Group
  <2>2. m \in Message
    BY <1>g DEF Message, AppMsg
  <2>3. FanOut(m, Roster \ {c}) \in SUBSET Packet
    BY <2>2, RosterType, FanOutType
  <2>4. mem' \in [Client -> Group] /\ disk' \in [Client -> Group]
    BY <1>1, <2>1, PersistType DEF EncryptMessage
  <2>5. net' \in SUBSET Packet /\ count' \in Counters
    BY <1>1, <2>3, CountType DEF EncryptMessage
  <2>6. QED
    BY <1>1, <2>4, <2>5 DEF EncryptMessage
<1>2. ASSUME NEW kind \in {"add", "remove", "update"}, NEW x \in Client,
             NewProposal(c, kind, x)
      PROVE  TypeOK'
  <2> DEFINE p == [kind |-> kind, sender |-> c, who |-> x, at |-> Carried(kind, mem[c].epoch)]
             m == [kind |-> "proposal", epoch |-> mem[c].epoch, prop |-> p]
  <2>1. Carried(kind, mem[c].epoch) \in Nat
    BY <1>g DEF Carried
  <2>2. p \in Proposal
    BY <2>1 DEF Proposal
  <2>3. Persist(c, [mem[c] EXCEPT !.props = @ \cup {p}])
        /\ outbox' = [outbox EXCEPT ![c] = @ \cup {m}]
    BY <1>2 DEF NewProposal
  <2> HIDE DEF p
  <2>4. m \in ProposalMsg
    BY <1>g, <2>2 DEF ProposalMsg
  <2>5. [mem[c] EXCEPT !.props = @ \cup {p}] \in Group
    BY <1>g, <2>2 DEF Group
  <2>6. mem' \in [Client -> Group] /\ disk' \in [Client -> Group]
    BY <2>3, <2>5, PersistType
  <2>7. count' \in Counters
    BY <1>2, CountType DEF NewProposal
  <2>8. outbox' \in [Client -> SUBSET ProposalMsg]
    BY <2>3, <2>4
  <2>9. QED
    BY <1>2, <2>6, <2>7, <2>8 DEF NewProposal, dsVars
<1>3. CASE NewExternalAddProposal(c)
  <2> DEFINE p == [kind |-> "add", sender |-> External, who |-> c, at |-> count.prop + 1]
             m == [kind |-> "proposal", epoch |-> DsEpoch, prop |-> p]
  <2>1. p \in Proposal
    BY <1>g DEF Proposal
  <2>2. DsEpoch \in Nat
    BY DEF DsEpoch
  <2>3. m \in Message
    BY <2>1, <2>2 DEF Message, ProposalMsg
  <2>4. FanOut(m, Roster) \in SUBSET Packet
    BY <2>3, RosterType, FanOutType
  <2>5. net' \in SUBSET Packet /\ count' \in Counters
    BY <1>3, <2>4, CountType DEF NewExternalAddProposal
  <2>6. QED
    BY <1>3, <2>5 DEF NewExternalAddProposal, clientVars
<1>4. ASSUME NEW x \in Client, AddMembers(c, x)
      PROVE  TypeOK'
  <2> DEFINE p == [kind |-> "add", sender |-> c, who |-> x, at |-> count.prop + 1]
  <2>1. p \in Proposal
    BY <1>g DEF Proposal
  <2>2. CreateCommit(c, {p}) /\ count' = [count EXCEPT !.prop = @ + 1]
    BY <1>4 DEF AddMembers
  <2>3. QED
    BY <2>1, <2>2, CreateCommitType, CountType DEF CreateCommit
<1>5. ASSUME NEW x \in Client, RemoveMembers(c, x)
      PROVE  TypeOK'
  <2> DEFINE p == [kind |-> "remove", sender |-> c, who |-> x, at |-> 0]
  <2>1. p \in Proposal
    BY DEF Proposal
  <2>2. CreateCommit(c, {p}) /\ count' = count
    BY <1>5 DEF RemoveMembers
  <2>3. QED
    BY <2>1, <2>2, CreateCommitType DEF CreateCommit
<1>6. CASE UpdateKeyingMaterial(c) \/ CommitPendingProposals(c)
  <2>1. CreateCommit(c, {}) /\ count' = count
    BY <1>6 DEF UpdateKeyingMaterial, CommitPendingProposals
  <2>2. QED
    BY <2>1, CreateCommitType DEF CreateCommit
<1>7. QED
  BY <1>1, <1>2, <1>3, <1>4, <1>5, <1>6 DEF Create

\* Sending and clearing proposals, posting, merging and clearing a commit keep
\* the types.
LEMMA CommitType ==
  ASSUME TypeOK, NEW c \in Client,
         \/ SendProposal(c) \/ ClearPendingProposal(c)
         \/ PostCommit(c) \/ CommitAccepted(c) \/ ClearPendingCommit(c)
  PROVE  TypeOK'
<1> USE DEF TypeOK
<1>g. mem[c] \in Group
  OBVIOUS
<1>1. CASE SendProposal(c)
  <2>1. PICK m \in outbox[c] : /\ outbox' = [outbox EXCEPT ![c] = @ \ {m}]
                              /\ net' = net \cup FanOut(m, Roster \ {c})
    BY <1>1 DEF SendProposal
  <2>2. FanOut(m, Roster \ {c}) \in SUBSET Packet
    BY RosterType, FanOutType DEF Message
  <2>3. QED
    BY <1>1, <2>1, <2>2 DEF SendProposal
<1>2. CASE ClearPendingProposal(c)
  <2>1. PICK m \in outbox[c] :
          /\ outbox' = [outbox EXCEPT ![c] = @ \ {m}]
          /\ \/ Persist(c, [mem[c] EXCEPT !.props = @ \ {m.prop}])
             \/ UNCHANGED <<mem, disk>>
    BY <1>2 DEF ClearPendingProposal
  <2>2. [mem[c] EXCEPT !.props = @ \ {m.prop}] \in Group
    BY <1>g DEF Group
  <2>3. mem' \in [Client -> Group] /\ disk' \in [Client -> Group]
    BY <2>1, <2>2, PersistType
  <2>4. QED
    BY <1>2, <2>1, <2>3 DEF ClearPendingProposal, dsVars
<1>3. CASE PostCommit(c)
  <2> DEFINE cm == mem[c].pc
             w == [kind |-> "welcome", epoch |-> cm.epoch + 1, tag |-> cm.tag,
                   members |-> MembersAfter(Roster, cm)]
  <2>1. cm \in Commit
    BY <1>3, <1>g DEF PostCommit, Group
  <2>2. Added(cm) \in SUBSET Client
    BY <2>1 DEF Added, Queued, Commit, Proposal
  <2>3. MembersAfter(Roster, cm) \in SUBSET Client
    BY <2>2, RosterType DEF MembersAfter
  <2>4. /\ log' = Append(log, cm)
        /\ rosters' = Append(rosters, MembersAfter(Roster, cm))
        /\ net' = net \cup CommitFanOut(cm)
        /\ post' = post \/ post' = [post EXCEPT ![c] = "ok"]
    BY <1>3 DEF PostCommit
  <2>5. cm.epoch + 1 \in Nat /\ cm.tag \in Nat
    BY <2>1 DEF Commit
  <2>6. w \in Welcome
    BY <2>3, <2>5 DEF Welcome
  <2>7. /\ FanOut(w, Added(cm)) \in SUBSET Packet
        /\ FanOut(cm, Roster) \in SUBSET Packet
        /\ FanOut(cm, Roster \ {cm.sender}) \in SUBSET Packet
    BY <2>1, <2>2, <2>6, RosterType, FanOutType DEF Message
  <2>8. CommitFanOut(cm) \in SUBSET Packet
    BY <2>7 DEF CommitFanOut
  <2>9. log' \in Seq(Commit)
    BY <2>1, <2>4
  <2>10. rosters' \in Seq(SUBSET Client) /\ rosters' # << >>
    BY <2>3, <2>4
  <2>11. post' \in [Client -> {"idle", "ok"}]
    BY <2>4
  <2>12. net' \in SUBSET Packet
    BY <2>4, <2>8
  <2> HIDE DEF cm, w
  <2>13. QED
    BY <1>3, <2>9, <2>10, <2>11, <2>12 DEF PostCommit
<1>4. CASE CommitAccepted(c)
  <2>1. CASE mem[c].status = "operational" /\ mem[c].pc # NoCommit
    <3>1. Merge(c, mem[c], mem[c].pc) \in Group
      BY <1>g, <2>1, MergeType DEF Group
    <3>2. mem' \in [Client -> Group] /\ disk' \in [Client -> Group]
      BY <1>4, <2>1, <3>1, PersistType DEF CommitAccepted
    <3>3. [Idle EXCEPT !.op = "accepted", !.todo = buf[c]] \in Call
      BY DEF Idle, Call
    <3>4. call' \in [Client -> Call]
      BY <1>4, <2>1, <3>3 DEF CommitAccepted
    <3>5. post' \in [Client -> {"idle", "ok"}]
      BY <1>4 DEF CommitAccepted
    <3>6. QED
      BY <1>4, <3>2, <3>4, <3>5 DEF CommitAccepted, dsVars
  <2>2. CASE ~(mem[c].status = "operational" /\ mem[c].pc # NoCommit)
    BY <1>4, <2>2 DEF CommitAccepted, dsVars
  <2>3. QED
    BY <2>1, <2>2
<1>5. CASE ClearPendingCommit(c)
  <2>1. [mem[c] EXCEPT !.pc = NoCommit] \in Group
    BY <1>g DEF Group
  <2>2. mem' \in [Client -> Group] /\ disk' \in [Client -> Group]
    BY <1>5, <2>1, PersistType DEF ClearPendingCommit
  <2>3. QED
    BY <1>5, <2>2 DEF ClearPendingCommit, dsVars
<1>6. QED
  BY <1>1, <1>2, <1>3, <1>4, <1>5

\* decrypt_message and process_welcome_message keep the types.
LEMMA DecryptType ==
  ASSUME TypeOK, NEW c \in Client, Decrypt(c)
  PROVE  TypeOK'
<1> USE DEF TypeOK
<1>1. PICK packet \in net :
        \/ DecryptSimple(c, packet.msg)
        \/ DecryptCommit(c, packet.msg)
        \/ DecryptFuture(c, packet.msg)
        \/ DecryptRejected(c, packet.msg)
        \/ DecryptNoGroup(c, packet.msg)
        \/ ProcessWelcome(c, packet.msg)
  BY DEF Decrypt
<1> DEFINE m == packet.msg
<1>2. Deliver(c, m) \/ ProcessWelcome(c, m)
  BY <1>1 DEF DecryptSimple, DecryptCommit, DecryptFuture, DecryptRejected,
              DecryptNoGroup, Receives
<1>3. /\ net' \in SUBSET Packet
      /\ count' \in Counters
      /\ m \in Message \cup Welcome
      /\ m.kind # "welcome" => m \in Message
  BY <1>2, DeliverType
<1> HIDE DEF m
<1>4. mem[c] \in Group
  OBVIOUS
<1>5. CASE DecryptSimple(c, m)
  <2>1. m \in Message
    BY <1>3, <1>5 DEF DecryptSimple, IsSelfCommit
  <2>2. PICK o \in DecryptOutcomes(c, mem[c], m) :
          Persist(c, o.g) /\ Return(c, o.apps, o.props)
    BY <1>5 DEF DecryptSimple
  <2>3. o.g \in Group /\ o.apps \in SUBSET Nat /\ o.props \in SUBSET ProposalMsg
    BY <1>4, <2>1, OutcomeType
  <2>4. mem' \in [Client -> Group] /\ disk' \in [Client -> Group]
    BY <2>2, <2>3, PersistType
  <2>5. /\ got' \in [Client -> [App -> Nat]]
        /\ outbox' \in [Client -> SUBSET ProposalMsg]
    BY <2>2, <2>3, ReturnType
  <2>6. QED
    BY <1>3, <1>5, <2>4, <2>5 DEF DecryptSimple
<1>6. CASE DecryptCommit(c, m)
  <2>1. m \in Message
    BY <1>3, <1>6 DEF DecryptCommit
  <2>2. m \in Commit
    BY <1>6, <2>1 DEF DecryptCommit, Message, ProposalMsg, AppMsg
  <2>3. PICK o \in DecryptOutcomes(c, mem[c], m) :
          /\ mem' = [mem EXCEPT ![c] = o.g]
          /\ disk' = IF o.saved THEN [disk EXCEPT ![c] = o.g] ELSE disk
          /\ call' = IF o.res = "Ok"
                     THEN [call EXCEPT ![c] = [op |-> "decrypt", outer |-> m, todo |-> buf[c],
                                               apps |-> {}, props |-> o.props]]
                     ELSE call
    BY <1>6 DEF DecryptCommit
  <2>4. o.g \in Group /\ o.props \in SUBSET ProposalMsg
    BY <1>4, <2>1, OutcomeType
  <2>5. mem' \in [Client -> Group] /\ disk' \in [Client -> Group]
    BY <2>3, <2>4
  <2>6. [op |-> "decrypt", outer |-> m, todo |-> buf[c], apps |-> {}, props |-> o.props] \in Call
    BY <2>2, <2>4 DEF Call
  <2>7. call' \in [Client -> Call]
    BY <2>3, <2>6
  <2>8. QED
    BY <1>3, <1>6, <2>5, <2>7 DEF DecryptCommit
<1>7. CASE DecryptFuture(c, m)
  <2>1. m \in Message
    BY <1>3, <1>7 DEF DecryptFuture
  <2>2. PICK b \in Save(buf[c], m) : buf' = [buf EXCEPT ![c] = b]
    BY <1>7 DEF DecryptFuture
  <2>3. b \in SUBSET Row
    BY <2>1, SaveType
  <2>4. QED
    BY <1>3, <1>7, <2>2, <2>3 DEF DecryptFuture
<1>8. CASE DecryptRejected(c, m) \/ DecryptNoGroup(c, m)
  BY <1>3, <1>8 DEF DecryptRejected, DecryptNoGroup, clientVars
<1>9. CASE ProcessWelcome(c, m)
  <2>1. m \in Welcome
    BY <1>3, <1>9 DEF ProcessWelcome, Message, Commit, ProposalMsg, AppMsg
  <2>2. NewGroup(m.epoch, m.tag, m.members) \in Group
    BY <2>1, NewGroupType DEF Welcome
  <2>3. mem' \in [Client -> Group] /\ disk' \in [Client -> Group]
    BY <1>9, <2>2, PersistType DEF ProcessWelcome
  <2>4. QED
    BY <1>3, <1>9, <2>3 DEF ProcessWelcome
<1>10. QED
  BY <1>1, <1>5, <1>6, <1>7, <1>8, <1>9 DEF m

\* Replaying the buffer, wiping the group and crashing keep the types.
LEMMA RestoreType ==
  ASSUME TypeOK, NEW c \in Client,
         Restore(c) \/ WipeConversation(c) \/ Crash(c)
  PROVE  TypeOK'
<1> USE DEF TypeOK
<1>1. mem[c] \in Group /\ call[c] \in Call
  OBVIOUS
<1>2. /\ call[c].todo \in SUBSET Row /\ call[c].apps \in SUBSET Nat
      /\ call[c].props \in SUBSET ProposalMsg /\ call[c].outer \in Commit \cup {NoCommit}
  BY <1>1 DEF Call
<1>3. \A r \in call[c].todo : r.msg \in Message
  BY <1>2 DEF Row
<1>4. Idle \in Call
  BY DEF Idle, Call
<1>5. CASE RestoreMessage(c)
  <2>r. PICK r \in call[c].todo : \E o \in DecryptOutcomes(c, mem[c], r.msg) :
          /\ Persist(c, o.g)
          /\ call' = [call EXCEPT ![c].todo = @ \ {r},
                                  ![c].apps = @ \cup o.apps,
                                  ![c].props = @ \cup o.props]
    BY <1>5 DEF RestoreMessage
  <2>1. PICK o \in DecryptOutcomes(c, mem[c], r.msg) :
          /\ Persist(c, o.g)
          /\ call' = [call EXCEPT ![c].todo = @ \ {r},
                                  ![c].apps = @ \cup o.apps,
                                  ![c].props = @ \cup o.props]
    BY <2>r
  <2>2. o.g \in Group /\ o.apps \in SUBSET Nat /\ o.props \in SUBSET ProposalMsg
    BY <1>1, <1>3, OutcomeType
  <2>3. mem' \in [Client -> Group] /\ disk' \in [Client -> Group]
    BY <2>1, <2>2, PersistType
  <2>4. [call[c] EXCEPT !.todo = @ \ {r}, !.apps = @ \cup o.apps,
                        !.props = @ \cup o.props] \in Call
    BY <1>1, <2>2 DEF Call
  <2>5. call' \in [Client -> Call]
    BY <2>1, <2>4
  <2>6. QED
    BY <1>5, <2>3, <2>5 DEF RestoreMessage, dsVars
<1>6. CASE RestoreFails(c)
  <2>r. PICK r \in call[c].todo : \E o \in DecryptOutcomes(c, mem[c], r.msg) :
          /\ mem' = [mem EXCEPT ![c] = o.g]
          /\ disk' = IF o.saved THEN [disk EXCEPT ![c] = o.g] ELSE disk
          /\ \/ /\ call[c].outer # NoCommit
                /\ \E b \in Save(buf[c], call[c].outer) : buf' = [buf EXCEPT ![c] = b]
             \/ UNCHANGED buf
    BY <1>6 DEF RestoreFails
  <2>1. PICK o \in DecryptOutcomes(c, mem[c], r.msg) :
          /\ mem' = [mem EXCEPT ![c] = o.g]
          /\ disk' = IF o.saved THEN [disk EXCEPT ![c] = o.g] ELSE disk
          /\ \/ /\ call[c].outer # NoCommit
                /\ \E b \in Save(buf[c], call[c].outer) : buf' = [buf EXCEPT ![c] = b]
             \/ UNCHANGED buf
    BY <2>r
  <2>2. o.g \in Group
    BY <1>1, <1>3, OutcomeType
  <2>3. mem' \in [Client -> Group] /\ disk' \in [Client -> Group]
    BY <2>1, <2>2
  <2>4. buf' \in [Client -> SUBSET Row]
    <3>1. CASE UNCHANGED buf
      BY <3>1
    <3>2. ASSUME call[c].outer # NoCommit,
                 NEW b \in Save(buf[c], call[c].outer), buf' = [buf EXCEPT ![c] = b]
          PROVE  buf' \in [Client -> SUBSET Row]
      <4>1. call[c].outer \in Message
        BY <1>2, <3>2 DEF Message
      <4>2. b \in SUBSET Row
        BY <4>1, SaveType
      <4>3. QED
        BY <3>2, <4>2
    <3>3. QED
      BY <2>1, <3>1, <3>2
  <2>5. call' \in [Client -> Call]
    BY <1>4, <1>6 DEF RestoreFails
  <2>6. QED
    BY <1>6, <2>3, <2>4, <2>5 DEF RestoreFails, dsVars
<1>7. CASE FinishRestore(c)
  <2>1. [call[c] EXCEPT !.op = "wipe"] \in Call
    BY <1>1 DEF Call
  <2>2. call' \in [Client -> Call]
    BY <1>4, <1>7, <2>1 DEF FinishRestore
  <2>3. /\ got' \in [Client -> [App -> Nat]]
        /\ outbox' \in [Client -> SUBSET ProposalMsg]
    BY <1>2, <1>7, ReturnType DEF FinishRestore
  <2>4. disk' \in [Client -> Group] /\ buf' \in [Client -> SUBSET Row]
    BY <1>1, <1>7 DEF FinishRestore
  <2>5. QED
    BY <1>7, <2>2, <2>3, <2>4 DEF FinishRestore, dsVars
<1>8. CASE WipeConversation(c)
  <2>1. NoGroup \in Group
    BY NewGroupType
  <2>2. mem' \in [Client -> Group] /\ disk' \in [Client -> Group]
    BY <1>8, <2>1, PersistType DEF WipeConversation
  <2>3. /\ got' \in [Client -> [App -> Nat]]
        /\ outbox' \in [Client -> SUBSET ProposalMsg]
    BY <1>2, <1>8, ReturnType DEF WipeConversation
  <2>4. QED
    BY <1>4, <1>8, <2>2, <2>3 DEF WipeConversation, dsVars
<1>9. CASE Crash(c)
  <2>1. count' \in Counters
    BY <1>9, CountType DEF Crash
  <2>2. QED
    BY <1>4, <1>9, <2>1 DEF Crash, dsVars
<1>10. QED
  BY <1>5, <1>6, <1>7, <1>8, <1>9 DEF Restore

\* Every step of every client keeps the types.
LEMMA StepType == TypeOK /\ [Next]_vars => TypeOK'
<1>1. CASE UNCHANGED vars
  BY <1>1 DEF vars, TypeOK
<1>2. ASSUME TypeOK, NEW c \in Client,
             \/ Create(c) \/ SendProposal(c) \/ ClearPendingProposal(c)
             \/ PostCommit(c) \/ CommitAccepted(c) \/ ClearPendingCommit(c)
             \/ Decrypt(c) \/ Restore(c) \/ WipeConversation(c) \/ Crash(c)
      PROVE  TypeOK'
  BY <1>2, CreateType, CommitType, DecryptType, RestoreType
<1>3. QED
  BY <1>1, <1>2 DEF Next

\* Type correctness: the groups in memory and in the keystore, the buffer, the
\* calls in progress and everything the DS holds are always well formed.
THEOREM TypeCorrect == Spec => []TypeOK
BY InitType, StepType, PTL DEF Spec

-----------------------------------------------------------------------------
(* EpochAgreement: what merging a commit does to a group that agrees with  *)
(* the history of the DS.                                                  *)

\* Only the epoch, its tag and members, the status and the pending commit of a
\* group matter to the agreement.
LEMMA SameEpochOK ==
  ASSUME NEW g, NEW h, NEW l, NEW r, NEW cms, GroupOK(g, l, r, cms),
         h.status = g.status, h.epoch = g.epoch, h.tag = g.tag, h.members = g.members,
         h.pc = g.pc \/ h.pc = NoCommit
  PROVE  GroupOK(h, l, r, cms)
BY DEF GroupOK

\* Merging the commit that the DS accepted in the group's epoch keeps the group
\* in agreement, whoever made the commit and whether or not it removes this
\* client.
LEMMA MergeOK ==
  ASSUME NEW c \in Client, NEW g \in Group, NEW cm \in Commit,
         NEW l \in Seq(Commit), NEW r, NEW cms,
         HistoryOK(l, r, cms), GroupOK(g, l, r, cms), g.status # "none",
         cm.epoch = g.epoch, cm.epoch < Len(l), l[cm.epoch + 1] = cm
  PROVE  GroupOK(Merge(c, g, cm), l, r, cms) /\ Merge(c, g, cm).pc = NoCommit
<1> DEFINE h == Merge(c, g, cm)
<1>1. /\ h.epoch = g.epoch + 1 /\ h.tag = cm.tag /\ h.pc = NoCommit
      /\ h.members = MembersAfter(g.members, cm)
  BY DEF Merge, Group
<1>2. g.epoch \in Nat /\ Len(l) \in Nat
  BY DEF Group
<1>3. g.epoch + 1 \in 1..Len(l)
  BY <1>2
<1>4. r[g.epoch + 2] = MembersAfter(r[g.epoch + 1], cm)
  <2>1. r[(g.epoch + 1) + 1] = MembersAfter(r[g.epoch + 1], l[g.epoch + 1])
    BY <1>3 DEF HistoryOK
  <2>2. (g.epoch + 1) + 1 = g.epoch + 2
    BY <1>2
  <2>3. QED
    BY <2>1, <2>2
<1>5. g.members = r[g.epoch + 1]
  BY DEF GroupOK
<1>6. h.epoch <= Len(l) /\ h.epoch # 0 /\ l[h.epoch] = cm /\ h.epoch + 1 = g.epoch + 2
  BY <1>1, <1>2, <1>3
<1>7. h.members = r[h.epoch + 1]
  BY <1>1, <1>4, <1>5, <1>6
<1> HIDE DEF h
<1>8. GroupOK(h, l, r, cms)
  BY <1>1, <1>6, <1>7 DEF GroupOK
<1>9. QED
  BY <1>1, <1>8 DEF h

\* Whatever decrypt_message makes of a message that is OK, the group after it
\* agrees with the history: another member's commit is merged only in the epoch
\* it was made in, and the client's own only if its tag, hence the commit, is
\* the one the DS sent.
LEMMA OutcomeOK ==
  ASSUME NEW c \in Client, NEW g \in Group, NEW m \in Message,
         NEW l \in Seq(Commit), NEW r, NEW cms \in SUBSET Commit,
         HistoryOK(l, r, cms), TagsUnique(cms),
         GroupOK(g, l, r, cms), MessageOK(m, l, r),
         NEW o \in DecryptOutcomes(c, g, m)
  PROVE  /\ GroupOK(o.g, l, r, cms)
         /\ o.g.pc = g.pc \/ o.g.pc = NoCommit
<1>1. ASSUME o.g = g
      PROVE  GroupOK(o.g, l, r, cms) /\ o.g.pc = g.pc
  BY <1>1
<1>2. CASE IsSelfCommit(c, m)
  <2>1. o = SelfCommitOutcome(c, g, m)
    BY <1>2 DEF DecryptOutcomes
  <2>2. CASE g.pc # NoCommit /\ g.pc.tag = m.tag
    <3>1. o.g = Merge(c, g, g.pc)
      BY <2>1, <2>2 DEF SelfCommitOutcome, Outcome
    <3>2. m \in Commit
      BY <1>2 DEF IsSelfCommit, Message, ProposalMsg, AppMsg
    <3>3. m.epoch < Len(l) /\ l[m.epoch + 1] = m
      BY <1>2 DEF IsSelfCommit, MessageOK
    <3>4. m \in cms
      <4>1. m.epoch \in Nat /\ Len(l) \in Nat
        BY <3>2 DEF Commit
      <4>2. m.epoch + 1 \in 1..Len(l)
        BY <3>3, <4>1
      <4>3. QED
        BY <3>3, <4>2 DEF HistoryOK
    <3>5. g.pc \in cms /\ g.pc.epoch = g.epoch /\ g.status = "operational"
      BY <2>2 DEF GroupOK
    <3>6. g.pc = m
      BY <2>2, <3>4, <3>5 DEF TagsUnique
    <3>7. QED
      BY <3>1, <3>2, <3>3, <3>5, <3>6, MergeOK
  <2>3. CASE ~(g.pc # NoCommit /\ g.pc.tag = m.tag)
    BY <1>1, <2>1, <2>3 DEF SelfCommitOutcome, Outcome
  <2>4. QED
    BY <2>2, <2>3
<1>3. CASE ~IsSelfCommit(c, m) /\ ParseMessage(g, m) # "Ok"
  BY <1>1, <1>3 DEF DecryptOutcomes, Outcome
<1>4. CASE ~IsSelfCommit(c, m) /\ ParseMessage(g, m) = "Ok" /\ m.kind = "app"
  <2>1. o.g = [g EXCEPT !.used = @ \cup {m.id}]
    BY <1>4 DEF DecryptOutcomes, Outcome
  <2>2. /\ o.g.status = g.status /\ o.g.epoch = g.epoch /\ o.g.tag = g.tag
        /\ o.g.members = g.members /\ o.g.pc = g.pc
    BY <2>1 DEF Group
  <2>3. QED
    BY <2>2, SameEpochOK
<1>5. CASE ~IsSelfCommit(c, m) /\ ParseMessage(g, m) = "Ok" /\ m.kind = "proposal"
  <2>1. o.g = [g EXCEPT !.props = @ \cup {m.prop}]
    BY <1>5 DEF DecryptOutcomes, Outcome
  <2>2. /\ o.g.status = g.status /\ o.g.epoch = g.epoch /\ o.g.tag = g.tag
        /\ o.g.members = g.members /\ o.g.pc = g.pc
    BY <2>1 DEF Group
  <2>3. QED
    BY <2>2, SameEpochOK
<1>6. CASE ~IsSelfCommit(c, m) /\ ParseMessage(g, m) = "Ok" /\ m.kind = "commit"
  <2> DEFINE merged == Merge(c, g, m)
  <2>1. m \in Commit
    BY <1>6 DEF Message, ProposalMsg, AppMsg
  <2>2. g.status = "operational" /\ m.epoch = g.epoch
    BY <1>6 DEF ParseMessage, ParseWrongEpoch
  <2>3. m.epoch < Len(l) /\ l[m.epoch + 1] = m
    BY <1>6 DEF MessageOK
  <2>4. GroupOK(merged, l, r, cms) /\ merged.pc = NoCommit
    BY <2>1, <2>2, <2>3, MergeOK
  <2>5. merged \in Group
    BY <2>1, MergeType
  <2>6. o \in CommitOutcomes(c, g, m)
    BY <1>6 DEF DecryptOutcomes
  <2>7. o.g = merged \/ \E S : o.g = [merged EXCEPT !.props = S]
    <3>1. \/ o = Outcome("RenewalFailed", merged, FALSE, {}, {})
          \/ \E S, b : o = Outcome("RenewalFailed", [merged EXCEPT !.props = S], b, {}, {})
          \/ \E S, b, ms : o = Outcome("Ok", [merged EXCEPT !.props = S], b, {}, ms)
      BY <2>6, Zenon DEF CommitOutcomes, RenewIn
    <3>2. \A res, x, b, ms : o = Outcome(res, x, b, {}, ms) => o.g = x
      BY DEF Outcome
    <3> HIDE DEF merged
    <3>3. QED
      BY <3>1, <3>2, Zenon
  <2> HIDE DEF merged
  <2>8. /\ o.g.status = merged.status /\ o.g.epoch = merged.epoch /\ o.g.tag = merged.tag
        /\ o.g.members = merged.members /\ o.g.pc = merged.pc
    BY <2>5, <2>7 DEF Group
  <2>9. QED
    BY <2>4, <2>8, SameEpochOK
<1>7. m.kind \in {"app", "proposal", "commit"}
  BY DEF Message, Commit, ProposalMsg, AppMsg
<1>8. QED
  BY <1>2, <1>3, <1>4, <1>5, <1>6, <1>7

\* Accepting one more commit leaves the groups and messages that agree with the
\* history in agreement.
LEMMA HistoryGrows ==
  ASSUME NEW l \in Seq(Commit), NEW r \in Seq(SUBSET Client), NEW cms,
         HistoryOK(l, r, cms), NEW cm \in Commit, NEW ms \in SUBSET Client
  PROVE  /\ \A g \in Group :
              GroupOK(g, l, r, cms) => GroupOK(g, Append(l, cm), Append(r, ms), cms)
         /\ \A m \in Message \cup Welcome :
              MessageOK(m, l, r) => MessageOK(m, Append(l, cm), Append(r, ms))
<1> DEFINE l2 == Append(l, cm)
           r2 == Append(r, ms)
<1>1. /\ Len(l) \in Nat /\ Len(l2) = Len(l) + 1 /\ Len(r) = Len(l) + 1
      /\ \A i \in 1..Len(l) : l2[i] = l[i]
      /\ \A i \in 1..Len(r) : r2[i] = r[i]
  BY DEF HistoryOK
<1>2. \A e \in Nat : e <= Len(l) => r2[e + 1] = r[e + 1]
  BY <1>1
<1>3. \A e \in Nat : e < Len(l) => l2[e + 1] = l[e + 1]
  BY <1>1
<1> HIDE DEF l2, r2
<1>4. ASSUME NEW g \in Group, GroupOK(g, l, r, cms)
      PROVE  GroupOK(g, l2, r2, cms)
  <2>1. g.epoch \in Nat
    BY DEF Group
  <2>2. g.epoch <= Len(l) /\ g.epoch # 0 => l2[g.epoch] = l[g.epoch]
    BY <1>1, <2>1
  <2>3. QED
    BY <1>1, <1>2, <1>4, <2>1, <2>2 DEF GroupOK
<1>5. ASSUME NEW m \in Message \cup Welcome, MessageOK(m, l, r)
      PROVE  MessageOK(m, l2, r2)
  <2>1. m.kind = "commit" \/ m.kind = "welcome" => m.epoch \in Nat
    BY DEF Message, Commit, ProposalMsg, AppMsg, Welcome
  <2>2. m.kind = "commit" => m.epoch < Len(l2) /\ l2[m.epoch + 1] = m
    BY <1>1, <1>3, <1>5, <2>1 DEF MessageOK
  <2>3. m.kind = "welcome" => /\ m.epoch \in 1..Len(l2)
                             /\ m.tag = l2[m.epoch].tag
                             /\ m.members = r2[m.epoch + 1]
    BY <1>1, <1>2, <1>5, <2>1 DEF MessageOK
  <2>4. QED
    BY <2>2, <2>3 DEF MessageOK
<1>6. QED
  BY <1>4, <1>5 DEF l2, r2

-----------------------------------------------------------------------------
(* The inductive invariant.                                                *)

\* Initially the founders are in epoch 0 and nothing is pending anywhere.
LEMMA InitInv == Init => Inv
<1> SUFFICES ASSUME Init PROVE Inv
  OBVIOUS
<1>1. TypeOK
  BY InitType
<1>2. log = << >> /\ rosters = <<Founders>> /\ Len(log) = 0 /\ Len(rosters) = 1
      /\ rosters[1] = Founders
  BY DEF Init
<1>3. GroupsAgree
  <2>1. /\ GroupOK(NewGroup(0, 0, Founders), log, rosters, created)
        /\ GroupOK(NoGroup, log, rosters, created)
    BY <1>2 DEF GroupOK, NewGroup, NoGroup
  <2>2. QED
    BY <2>1 DEF Init, GroupsAgree
<1>4. HistoryOK(log, rosters, created)
  BY <1>2 DEF HistoryOK
<1>5. TagsUnique(created)
  BY DEF Init, TagsUnique
<1>6. PostedIsAccepted
  BY DEF Init, PostedIsAccepted
<1>7. DeliveredIsAccepted
  BY DEF Init, DeliveredIsAccepted, Idle
<1>8. QED
  BY <1>1, <1>3, <1>4, <1>5, <1>6, <1>7 DEF Inv

\* A step of client c that leaves the history and the created commits alone
\* keeps the invariant if it leaves c's groups in agreement, creates no pending
\* commit, and adds to the network, to c's buffer and to c's call only messages
\* that are OK.
LEMMA LocalStep ==
  ASSUME Inv, TypeOK', NEW c \in Client,
         UNCHANGED <<log, rosters, created>>,
         \A d \in Client \ {c} :
           /\ mem'[d] = mem[d] /\ disk'[d] = disk[d] /\ post'[d] = post[d]
           /\ buf'[d] = buf[d] /\ call'[d] = call[d],
         GroupOK(mem'[c], log, rosters, created),
         GroupOK(disk'[c], log, rosters, created),
         post'[c] = "ok" /\ mem'[c].pc # NoCommit
           => post[c] = "ok" /\ mem'[c].pc = mem[c].pc,
         \A packet \in net' : packet \in net \/ MessageOK(packet.msg, log, rosters),
         \A row \in buf'[c] \cup call'[c].todo : MessageOK(row.msg, log, rosters),
         call'[c].outer # NoCommit => MessageOK(call'[c].outer, log, rosters)
  PROVE  Inv'
<1>1. GroupsAgree'
  <2>1. \A d \in Client : /\ GroupOK(mem'[d], log, rosters, created)
                          /\ GroupOK(disk'[d], log, rosters, created)
    BY DEF Inv, GroupsAgree
  <2>2. QED
    BY <2>1 DEF GroupsAgree
<1>2. HistoryOK(log, rosters, created)' /\ TagsUnique(created)'
  BY DEF Inv
<1>3. PostedIsAccepted'
  BY DEF Inv, PostedIsAccepted, Accepted
<1>4. DeliveredIsAccepted'
  <2>1. \A packet \in net' : MessageOK(packet.msg, log, rosters)
    BY DEF Inv, DeliveredIsAccepted
  <2>2. \A d \in Client : \A row \in buf'[d] \cup call'[d].todo :
          MessageOK(row.msg, log, rosters)
    BY DEF Inv, DeliveredIsAccepted
  <2>3. \A d \in Client :
          call'[d].outer # NoCommit => MessageOK(call'[d].outer, log, rosters)
    BY DEF Inv, DeliveredIsAccepted
  <2>4. QED
    BY <2>1, <2>2, <2>3 DEF DeliveredIsAccepted
<1>5. QED
  BY <1>1, <1>2, <1>3, <1>4 DEF Inv

\* What the invariant says of one client, in the form the steps use.
LEMMA ClientFacts ==
  ASSUME Inv, NEW c \in Client
  PROVE  /\ mem[c] \in Group /\ disk[c] \in Group
         /\ GroupOK(mem[c], log, rosters, created)
         /\ GroupOK(disk[c], log, rosters, created)
         /\ \A row \in buf[c] \cup call[c].todo : MessageOK(row.msg, log, rosters)
         /\ call[c].outer # NoCommit => MessageOK(call[c].outer, log, rosters)
         /\ \A d \in Client : mem[d] \in Group
BY DEF Inv, TypeOK, GroupsAgree, DeliveredIsAccepted

\* The outcome of decrypt_message in a state of the invariant.
LEMMA OutcomeInv ==
  ASSUME Inv, NEW c \in Client, NEW m \in Message, MessageOK(m, log, rosters),
         NEW o \in DecryptOutcomes(c, mem[c], m)
  PROVE  /\ GroupOK(o.g, log, rosters, created)
         /\ o.g.pc = mem[c].pc \/ o.g.pc = NoCommit
<1>1. /\ mem[c] \in Group /\ log \in Seq(Commit) /\ created \in SUBSET Commit
      /\ HistoryOK(log, rosters, created) /\ TagsUnique(created)
      /\ GroupOK(mem[c], log, rosters, created)
  BY DEF Inv, TypeOK, GroupsAgree
<1>2. QED
  BY <1>1, OutcomeOK

\* Proposals and application messages are no commits.
LEMMA PlainMessageOK ==
  ASSUME NEW m, m.kind \notin {"commit", "welcome"}, NEW R
  PROVE  \A packet \in FanOut(m, R) : MessageOK(packet.msg, log, rosters)
BY DEF FanOut, MessageOK

\* Creating a commit: it has a tag of its own, it is made in the client's
\* epoch, and no 200 waits to be handled.
LEMMA CreateCommitInv ==
  ASSUME Inv, TypeOK', NEW c \in Client, NEW inline \in SUBSET Proposal,
         CreateCommit(c, inline)
  PROVE  Inv'
<1>1. PICK t \in Tag :
        LET cm == [kind |-> "commit", epoch |-> mem[c].epoch, sender |-> c,
                   refs |-> CommittedRefs(c, mem[c]), inline |-> inline, tag |-> t]
        IN  /\ FreshTag(t)
            /\ Persist(c, [mem[c] EXCEPT !.pc = cm])
            /\ created' = created \cup {cm}
  BY DEF CreateCommit
<1> DEFINE cm == [kind |-> "commit", epoch |-> mem[c].epoch, sender |-> c,
                  refs |-> CommittedRefs(c, mem[c]), inline |-> inline, tag |-> t]
           g == [mem[c] EXCEPT !.pc = cm]
<1>2. /\ FreshTag(t) /\ Persist(c, g) /\ created' = created \cup {cm}
      /\ cm.tag = t /\ cm.epoch = mem[c].epoch
  BY <1>1
<1>3. /\ UNCHANGED <<buf, call, outbox, got, post, log, rosters, net>>
      /\ mem[c].status = "operational" /\ post[c] = "idle"
  BY DEF CreateCommit, Ready
<1> HIDE DEF cm
<1>4. /\ g.status = mem[c].status /\ g.epoch = mem[c].epoch /\ g.tag = mem[c].tag
      /\ g.members = mem[c].members /\ g.pc = cm
  BY ClientFacts DEF Group
<1>5. mem' = [mem EXCEPT ![c] = g] /\ disk' = [disk EXCEPT ![c] = g]
  BY <1>2 DEF Persist
<1> HIDE DEF g
<1>6. \A h : GroupOK(h, log, rosters, created) => GroupOK(h, log, rosters, created')
  BY <1>2 DEF GroupOK
<1>7. GroupOK(g, log, rosters, created')
  BY <1>2, <1>3, <1>4, ClientFacts DEF GroupOK
<1>8. GroupsAgree'
  <2>1. \A d \in Client : /\ GroupOK(mem'[d], log, rosters, created')
                          /\ GroupOK(disk'[d], log, rosters, created')
    BY <1>5, <1>6, <1>7 DEF Inv, GroupsAgree, TypeOK
  <2>2. QED
    BY <1>3, <2>1 DEF GroupsAgree
<1>9. HistoryOK(log, rosters, created)'
  BY <1>2, <1>3 DEF Inv, HistoryOK
<1>10. TagsUnique(created)'
  <2>1. \A x \in created : x.tag < t /\ x.tag \in Nat
    BY <1>2 DEF FreshTag, Inv, TypeOK, Commit
  <2>2. \A x \in created : x.tag # cm.tag
    BY <1>2, <2>1
  <2>3. QED
    BY <1>2, <2>2 DEF Inv, TagsUnique
<1>11. PostedIsAccepted'
  BY <1>3, <1>5 DEF Inv, PostedIsAccepted, Accepted, TypeOK
<1>12. DeliveredIsAccepted'
  BY <1>3 DEF Inv, DeliveredIsAccepted
<1>13. QED
  BY <1>8, <1>9, <1>10, <1>11, <1>12 DEF Inv

\* Creating messages keeps the invariant.
LEMMA CreateInv ==
  ASSUME Inv, NEW c \in Client, Create(c)
  PROVE  Inv'
<1>1. TypeOK'
  BY CreateType DEF Inv
<1>2. TypeOK /\ mem[c] \in Group /\ count.prop + 1 \in Nat
  <2>1. TypeOK /\ count \in Counters /\ mem[c] \in Group
    BY DEF Inv, TypeOK
  <2>2. count.prop \in Nat
    BY <2>1, CountType
  <2>3. QED
    BY <2>1, <2>2
<1>3. CASE EncryptMessage(c)
  <2> DEFINE id == count.app + 1
             m == [kind |-> "app", epoch |-> mem[c].epoch, sender |-> c, id |-> id]
             g == [mem[c] EXCEPT !.used = @ \cup {id}]
  <2>1. /\ g.status = mem[c].status /\ g.epoch = mem[c].epoch /\ g.tag = mem[c].tag
        /\ g.members = mem[c].members /\ g.pc = mem[c].pc
    BY <1>2 DEF Group
  <2>2. Persist(c, g) /\ net' = net \cup FanOut(m, Roster \ {c})
        /\ UNCHANGED <<buf, call, outbox, got, post, log, rosters, created>>
    BY <1>3 DEF EncryptMessage
  <2>3. \A packet \in FanOut(m, Roster \ {c}) : MessageOK(packet.msg, log, rosters)
    BY PlainMessageOK
  <2> HIDE DEF g, m
  <2>4. mem' = [mem EXCEPT ![c] = g] /\ disk' = [disk EXCEPT ![c] = g]
    BY <2>2 DEF Persist
  <2>5. GroupOK(g, log, rosters, created)
    BY <2>1, ClientFacts, SameEpochOK
  <2>6. mem'[c] = g /\ disk'[c] = g /\ \A d \in Client \ {c} : mem'[d] = mem[d] /\ disk'[d] = disk[d]
    BY <1>2, <2>4 DEF TypeOK
  <2>7. QED
    BY <1>1, <2>1, <2>2, <2>3, <2>5, <2>6, ClientFacts, LocalStep
<1>4. ASSUME NEW kind \in {"add", "remove", "update"}, NEW x \in Client,
             NewProposal(c, kind, x)
      PROVE  Inv'
  <2> DEFINE p == [kind |-> kind, sender |-> c, who |-> x, at |-> Carried(kind, mem[c].epoch)]
             g == [mem[c] EXCEPT !.props = @ \cup {p}]
  <2>1. Persist(c, g) /\ UNCHANGED <<buf, call, got, post, log, rosters, net, created>>
    BY <1>4 DEF NewProposal, dsVars
  <2>2. /\ g.status = mem[c].status /\ g.epoch = mem[c].epoch /\ g.tag = mem[c].tag
        /\ g.members = mem[c].members /\ g.pc = mem[c].pc
    BY <1>2 DEF Group
  <2> HIDE DEF g
  <2>3. GroupOK(g, log, rosters, created)
    BY <2>2, ClientFacts, SameEpochOK
  <2>4. mem'[c] = g /\ disk'[c] = g /\ \A d \in Client \ {c} : mem'[d] = mem[d] /\ disk'[d] = disk[d]
    BY <1>2, <2>1 DEF TypeOK, Persist
  <2>5. QED
    BY <1>1, <2>1, <2>2, <2>3, <2>4, ClientFacts, LocalStep
<1>5. CASE NewExternalAddProposal(c)
  <2> DEFINE p == [kind |-> "add", sender |-> External, who |-> c, at |-> count.prop + 1]
             m == [kind |-> "proposal", epoch |-> DsEpoch, prop |-> p]
  <2>1. net' = net \cup FanOut(m, Roster)
        /\ UNCHANGED <<mem, disk, buf, call, post, log, rosters, created>>
    BY <1>5 DEF NewExternalAddProposal, clientVars
  <2>2. \A packet \in FanOut(m, Roster) : MessageOK(packet.msg, log, rosters)
    BY PlainMessageOK
  <2> HIDE DEF m
  <2>3. QED
    BY <1>1, <2>1, <2>2, ClientFacts, LocalStep
<1>6. ASSUME NEW x \in Client, AddMembers(c, x)
      PROVE  Inv'
  <2> DEFINE p == [kind |-> "add", sender |-> c, who |-> x, at |-> count.prop + 1]
  <2>1. {p} \in SUBSET Proposal
    BY <1>2 DEF Proposal
  <2>2. QED
    BY <1>1, <1>6, <2>1, CreateCommitInv DEF AddMembers
<1>7. ASSUME NEW x \in Client, RemoveMembers(c, x)
      PROVE  Inv'
  <2> DEFINE p == [kind |-> "remove", sender |-> c, who |-> x, at |-> 0]
  <2>1. {p} \in SUBSET Proposal
    BY DEF Proposal
  <2>2. QED
    BY <1>1, <1>7, <2>1, CreateCommitInv DEF RemoveMembers
<1>8. CASE UpdateKeyingMaterial(c) \/ CommitPendingProposals(c)
  BY <1>1, <1>8, CreateCommitInv DEF UpdateKeyingMaterial, CommitPendingProposals
<1>9. QED
  BY <1>3, <1>4, <1>5, <1>6, <1>7, <1>8 DEF Create

\* Posting a commit: the DS accepts it only for its own epoch, so the history
\* grows by one and everything that agreed with it still does.
LEMMA PostCommitInv ==
  ASSUME Inv, TypeOK', NEW c \in Client, PostCommit(c)
  PROVE  Inv'
<1> DEFINE cm == mem[c].pc
           next == MembersAfter(Roster, cm)
           w == [kind |-> "welcome", epoch |-> cm.epoch + 1, tag |-> cm.tag, members |-> next]
           n == Len(log)
<1>1. /\ cm # NoCommit /\ cm.epoch = n
      /\ log' = Append(log, cm) /\ rosters' = Append(rosters, next)
      /\ net' = net \cup CommitFanOut(cm)
      /\ post' = post \/ post' = [post EXCEPT ![c] = "ok"]
      /\ UNCHANGED <<mem, disk, buf, call, created>>
  BY DEF PostCommit, DsEpoch
<1>2. /\ mem[c] \in Group /\ log \in Seq(Commit) /\ rosters \in Seq(SUBSET Client)
      /\ HistoryOK(log, rosters, created) /\ TypeOK
  BY DEF Inv, TypeOK
<1>3. cm \in Commit /\ cm \in created
  BY <1>1, <1>2, ClientFacts DEF Group, GroupOK
<1>4. /\ Len(rosters) = n + 1 /\ n \in Nat
      /\ Len(log') = n + 1 /\ log'[n + 1] = cm
      /\ Len(rosters') = n + 2 /\ rosters'[n + 2] = next
      /\ \A e \in 1..n : log'[e] = log[e]
      /\ \A e \in 1..(n + 1) : rosters'[e] = rosters[e]
      /\ Roster = rosters[n + 1]
  <2>1. Len(rosters) = n + 1 /\ n \in Nat
    BY <1>2 DEF HistoryOK
  <2>2. QED
    BY <1>1, <1>2, <2>1 DEF Roster
<1>5. next \in SUBSET Client
  <2>1. Len(rosters') \in 1..Len(rosters') /\ Len(rosters') = n + 2
    BY <1>4
  <2>2. rosters'[n + 2] \in SUBSET Client
    BY <2>1 DEF TypeOK
  <2>3. QED
    BY <1>4, <2>2
<1>6. /\ \A g \in Group : GroupOK(g, log, rosters, created) => GroupOK(g, log', rosters', created)
      /\ \A m \in Message \cup Welcome : MessageOK(m, log, rosters) => MessageOK(m, log', rosters')
  BY <1>1, <1>2, <1>3, <1>5, HistoryGrows
<1>7. GroupsAgree'
  <2>1. \A d \in Client : /\ GroupOK(mem[d], log', rosters', created)
                          /\ GroupOK(disk[d], log', rosters', created)
    BY <1>6 DEF Inv, TypeOK, GroupsAgree
  <2>2. QED
    BY <1>1, <2>1 DEF GroupsAgree
<1>8. HistoryOK(log, rosters, created)'
  <2>1. ASSUME NEW e \in 1..(n + 1)
        PROVE  /\ log'[e] \in created /\ log'[e].epoch + 1 = e
               /\ rosters'[e + 1] = MembersAfter(rosters'[e], log'[e])
    <3>1. CASE e = n + 1
      <4>1. e + 1 = n + 2 /\ e \in 1..(n + 1)
        BY <1>4, <3>1
      <4>2. rosters'[e + 1] = next /\ rosters'[e] = Roster /\ log'[e] = cm
        BY <1>4, <3>1, <4>1
      <4>3. QED
        BY <1>1, <1>3, <3>1, <4>2
    <3>2. CASE e # n + 1
      <4>1. e \in 1..n /\ e + 1 \in 1..(n + 1) /\ e \in 1..(n + 1)
        BY <1>4, <3>2
      <4>2. /\ log[e] \in created /\ log[e].epoch + 1 = e
            /\ rosters[e + 1] = MembersAfter(rosters[e], log[e])
        BY <1>2, <4>1 DEF HistoryOK
      <4>3. log'[e] = log[e] /\ rosters'[e + 1] = rosters[e + 1] /\ rosters'[e] = rosters[e]
        BY <1>4, <4>1
      <4>4. QED
        BY <4>2, <4>3
    <3>3. QED
      BY <3>1, <3>2
  <2>2. Len(rosters') = Len(log') + 1
    BY <1>4
  <2>3. QED
    BY <1>1, <1>4, <2>1, <2>2 DEF HistoryOK
<1>9. TagsUnique(created)'
  BY <1>1 DEF Inv
<1>10. PostedIsAccepted'
  <2>1. cm.epoch < Len(log') /\ log'[cm.epoch + 1] = cm
    BY <1>1, <1>4
  <2>2. ASSUME NEW x \in Commit, x.epoch < n, log[x.epoch + 1] = x
        PROVE  x.epoch < Len(log') /\ log'[x.epoch + 1] = x
    <3>1. x.epoch \in Nat
      BY DEF Commit
    <3>2. QED
      BY <1>4, <2>2, <3>1
  <2>3. ASSUME NEW d \in Client, post'[d] = "ok", mem[d].pc # NoCommit
        PROVE  mem[d].pc.epoch < Len(log') /\ log'[mem[d].pc.epoch + 1] = mem[d].pc
    <3>1. CASE d = c
      BY <2>1, <3>1
    <3>2. CASE d # c
      <4>1. post[d] = "ok"
        BY <1>1, <1>2, <2>3, <3>2 DEF TypeOK
      <4>2. mem[d].pc.epoch < n /\ log[mem[d].pc.epoch + 1] = mem[d].pc
        BY <2>3, <4>1 DEF Inv, PostedIsAccepted, Accepted
      <4>3. mem[d].pc \in Commit
        BY <1>2, <2>3 DEF TypeOK, Group
      <4>4. QED
        BY <2>2, <4>2, <4>3
    <3>3. QED
      BY <3>1, <3>2
  <2>4. QED
    BY <1>1, <2>3 DEF PostedIsAccepted, Accepted
<1>11. DeliveredIsAccepted'
  <2>1. MessageOK(cm, log', rosters')
    BY <1>1, <1>3, <1>4 DEF MessageOK, Commit
  <2>2. MessageOK(w, log', rosters')
    <3>1. w.kind = "welcome" /\ w.epoch = n + 1 /\ w.tag = cm.tag /\ w.members = next
      BY <1>1
    <3>2. n + 1 \in 1..Len(log') /\ (n + 1) + 1 = n + 2
      BY <1>4
    <3>3. QED
      BY <1>4, <3>1, <3>2 DEF MessageOK
  <2>3. \A packet \in net : packet.msg \in Message \cup Welcome
    BY <1>2 DEF TypeOK, Packet
  <2>4. \A packet \in CommitFanOut(cm) : packet.msg = cm \/ packet.msg = w
    BY <1>1 DEF CommitFanOut, FanOut
  <2>5. \A packet \in net' : MessageOK(packet.msg, log', rosters')
    <3> HIDE DEF cm, w
    <3>1. QED
      BY <1>1, <1>6, <2>1, <2>2, <2>3, <2>4 DEF Inv, DeliveredIsAccepted
  <2>6. \A d \in Client : \A row \in buf[d] \cup call[d].todo :
          row.msg \in Message /\ MessageOK(row.msg, log, rosters)
    BY <1>2 DEF TypeOK, Call, Row, Inv, DeliveredIsAccepted
  <2>7. \A d \in Client : call[d].outer # NoCommit =>
          call[d].outer \in Message /\ MessageOK(call[d].outer, log, rosters)
    BY <1>2 DEF TypeOK, Call, Message, Inv, DeliveredIsAccepted
  <2>8. QED
    BY <1>1, <1>6, <2>5, <2>6, <2>7 DEF DeliveredIsAccepted
<1>12. QED
  BY <1>7, <1>8, <1>9, <1>10, <1>11 DEF Inv

\* Sending and clearing proposals, posting, merging and clearing a commit keep
\* the invariant.  commit_accepted merges whatever is pending: that it is what
\* the DS accepted is PostedIsAccepted.
LEMMA CommitInv ==
  ASSUME Inv, NEW c \in Client,
         \/ SendProposal(c) \/ ClearPendingProposal(c)
         \/ PostCommit(c) \/ CommitAccepted(c) \/ ClearPendingCommit(c)
  PROVE  Inv'
<1>1. TypeOK'
  BY CommitType DEF Inv
<1>2. TypeOK /\ mem[c] \in Group
  BY DEF Inv, TypeOK
<1>3. CASE SendProposal(c)
  <2>1. PICK m \in outbox[c] : net' = net \cup FanOut(m, Roster \ {c})
    BY <1>3 DEF SendProposal
  <2>2. m.kind = "proposal"
    BY <1>2 DEF TypeOK, ProposalMsg
  <2>3. \A packet \in FanOut(m, Roster \ {c}) : MessageOK(packet.msg, log, rosters)
    BY <2>2, PlainMessageOK
  <2>4. UNCHANGED <<mem, disk, buf, call, post, log, rosters, created>>
    BY <1>3 DEF SendProposal
  <2>5. QED
    BY <1>1, <2>1, <2>3, <2>4, ClientFacts, LocalStep
<1>4. CASE ClearPendingProposal(c)
  <2>1. /\ UNCHANGED <<buf, call, post, log, rosters, net, created>>
        /\ \/ \E p : Persist(c, [mem[c] EXCEPT !.props = @ \ {p}])
           \/ UNCHANGED <<mem, disk>>
    BY <1>4 DEF ClearPendingProposal, dsVars
  <2>2. CASE UNCHANGED <<mem, disk>>
    BY <1>1, <2>1, <2>2, ClientFacts, LocalStep
  <2>3. ASSUME NEW p, Persist(c, [mem[c] EXCEPT !.props = @ \ {p}])
        PROVE  Inv'
    <3> DEFINE g == [mem[c] EXCEPT !.props = @ \ {p}]
    <3>1. /\ g.status = mem[c].status /\ g.epoch = mem[c].epoch /\ g.tag = mem[c].tag
          /\ g.members = mem[c].members /\ g.pc = mem[c].pc
      BY <1>2 DEF Group
    <3>2. /\ mem'[c] = g /\ disk'[c] = g
          /\ \A d \in Client \ {c} : mem'[d] = mem[d] /\ disk'[d] = disk[d]
      BY <1>2, <2>3 DEF TypeOK, Persist
    <3> HIDE DEF g
    <3>3. GroupOK(g, log, rosters, created)
      BY <3>1, ClientFacts, SameEpochOK
    <3>4. QED
      BY <1>1, <2>1, <3>1, <3>2, <3>3, ClientFacts, LocalStep
  <2>4. QED
    BY <2>1, <2>2, <2>3
<1>5. CASE PostCommit(c)
  BY <1>1, <1>5, PostCommitInv
<1>6. CASE CommitAccepted(c)
  <2>1. /\ UNCHANGED <<buf, net, log, rosters, created>>
        /\ post[c] = "ok" /\ post' = [post EXCEPT ![c] = "idle"]
    BY <1>6 DEF CommitAccepted, dsVars
  <2>2. post'[c] = "idle" /\ \A d \in Client \ {c} : post'[d] = post[d]
    BY <1>2, <2>1 DEF TypeOK
  <2>3. CASE mem[c].status = "operational" /\ mem[c].pc # NoCommit
    <3> DEFINE g == Merge(c, mem[c], mem[c].pc)
               k == [Idle EXCEPT !.op = "accepted", !.todo = buf[c]]
    <3>1. Persist(c, g) /\ call' = [call EXCEPT ![c] = k]
      BY <1>6, <2>3 DEF CommitAccepted
    <3>2. mem[c].pc.epoch < Len(log) /\ log[mem[c].pc.epoch + 1] = mem[c].pc
      BY <2>1, <2>3 DEF Inv, PostedIsAccepted, Accepted
    <3>3. mem[c].pc \in Commit /\ mem[c].pc.epoch = mem[c].epoch
      BY <1>2, <2>3, ClientFacts DEF Group, GroupOK
    <3>4. GroupOK(g, log, rosters, created)
      <4>1. log \in Seq(Commit) /\ HistoryOK(log, rosters, created)
        BY DEF Inv, TypeOK
      <4>2. QED
        BY <1>2, <2>3, <3>2, <3>3, <4>1, ClientFacts, MergeOK
    <3>5. k.todo = buf[c] /\ k.outer = NoCommit
      BY DEF Idle
    <3> HIDE DEF g, k
    <3>6. /\ mem'[c] = g /\ disk'[c] = g /\ call'[c] = k
          /\ \A d \in Client \ {c} : mem'[d] = mem[d] /\ disk'[d] = disk[d] /\ call'[d] = call[d]
      BY <1>2, <3>1 DEF TypeOK, Persist
    <3>7. QED
      BY <1>1, <2>1, <2>2, <3>4, <3>5, <3>6, ClientFacts, LocalStep
  <2>4. CASE ~(mem[c].status = "operational" /\ mem[c].pc # NoCommit)
    <3>1. UNCHANGED <<mem, disk, call>>
      BY <1>6, <2>4 DEF CommitAccepted
    <3>2. QED
      BY <1>1, <2>1, <2>2, <3>1, ClientFacts, LocalStep
  <2>5. QED
    BY <2>3, <2>4
<1>7. CASE ClearPendingCommit(c)
  <2> DEFINE g == [mem[c] EXCEPT !.pc = NoCommit]
  <2>1. Persist(c, g) /\ UNCHANGED <<buf, call, post, log, rosters, net, created>>
    BY <1>7 DEF ClearPendingCommit, dsVars
  <2>2. /\ g.status = mem[c].status /\ g.epoch = mem[c].epoch /\ g.tag = mem[c].tag
        /\ g.members = mem[c].members /\ g.pc = NoCommit
    BY <1>2 DEF Group
  <2> HIDE DEF g
  <2>3. /\ mem'[c] = g /\ disk'[c] = g
        /\ \A d \in Client \ {c} : mem'[d] = mem[d] /\ disk'[d] = disk[d]
    BY <1>2, <2>1 DEF TypeOK, Persist
  <2>4. GroupOK(g, log, rosters, created)
    BY <2>2, ClientFacts, SameEpochOK
  <2>5. QED
    BY <1>1, <2>1, <2>2, <2>3, <2>4, ClientFacts, LocalStep
<1>8. QED
  BY <1>3, <1>4, <1>5, <1>6, <1>7

\* A row saved to the buffer holds the message, or was there before.
LEMMA SaveOK ==
  ASSUME NEW b, NEW m, NEW x \in Save(b, m)
  PROVE  \A row \in x : row \in b \/ row.msg = m
BY DEF Save

\* Decrypting a message or a Welcome keeps the invariant.
LEMMA DecryptInv ==
  ASSUME Inv, NEW c \in Client, Decrypt(c)
  PROVE  Inv'
<1>1. TypeOK'
  BY DecryptType DEF Inv
<1>2. TypeOK /\ mem[c] \in Group
  BY DEF Inv, TypeOK
<1>3. PICK packet \in net :
        \/ DecryptSimple(c, packet.msg)
        \/ DecryptCommit(c, packet.msg)
        \/ DecryptFuture(c, packet.msg)
        \/ DecryptRejected(c, packet.msg)
        \/ DecryptNoGroup(c, packet.msg)
        \/ ProcessWelcome(c, packet.msg)
  BY DEF Decrypt
<1> DEFINE m == packet.msg
<1>4. MessageOK(m, log, rosters)
  BY DEF Inv, DeliveredIsAccepted
<1>5. Deliver(c, m) \/ ProcessWelcome(c, m)
  BY <1>3 DEF DecryptSimple, DecryptCommit, DecryptFuture, DecryptRejected,
              DecryptNoGroup, Receives
<1>6. /\ \A q \in net' : q \in net
      /\ m.kind # "welcome" => m \in Message
      /\ m \in Message \cup Welcome
  BY <1>2, <1>5, DeliverType
<1>7. UNCHANGED <<log, rosters, created, post>>
  BY <1>3 DEF DecryptSimple, DecryptCommit, DecryptFuture, DecryptRejected,
              DecryptNoGroup, ProcessWelcome, clientVars
<1> HIDE DEF m
<1>8. CASE DecryptSimple(c, m)
  <2>1. m \in Message
    BY <1>6, <1>8 DEF DecryptSimple, IsSelfCommit
  <2>2. PICK o \in DecryptOutcomes(c, mem[c], m) : Persist(c, o.g)
    BY <1>8 DEF DecryptSimple
  <2>3. UNCHANGED <<buf, call>>
    BY <1>8 DEF DecryptSimple
  <2>4. GroupOK(o.g, log, rosters, created) /\ (o.g.pc = mem[c].pc \/ o.g.pc = NoCommit)
    BY <1>4, <2>1, OutcomeInv
  <2>5. /\ mem'[c] = o.g /\ disk'[c] = o.g
        /\ \A d \in Client \ {c} : mem'[d] = mem[d] /\ disk'[d] = disk[d]
    BY <1>2, <2>2 DEF TypeOK, Persist
  <2>6. QED
    BY <1>1, <1>6, <1>7, <2>3, <2>4, <2>5, ClientFacts, LocalStep
<1>9. CASE DecryptCommit(c, m)
  <2>1. m \in Message /\ UNCHANGED buf
    BY <1>6, <1>9 DEF DecryptCommit
  <2>2. PICK o \in DecryptOutcomes(c, mem[c], m) :
          /\ mem' = [mem EXCEPT ![c] = o.g]
          /\ disk' = IF o.saved THEN [disk EXCEPT ![c] = o.g] ELSE disk
          /\ call' = IF o.res = "Ok"
                     THEN [call EXCEPT ![c] = [op |-> "decrypt", outer |-> m, todo |-> buf[c],
                                               apps |-> {}, props |-> o.props]]
                     ELSE call
    BY <1>9 DEF DecryptCommit
  <2>3. GroupOK(o.g, log, rosters, created) /\ (o.g.pc = mem[c].pc \/ o.g.pc = NoCommit)
    BY <1>4, <2>1, OutcomeInv
  <2>4. /\ mem'[c] = o.g /\ disk'[c] \in {o.g, disk[c]}
        /\ \A d \in Client \ {c} : mem'[d] = mem[d] /\ disk'[d] = disk[d] /\ call'[d] = call[d]
    BY <1>2, <2>2 DEF TypeOK
  <2>5. call'[c] = call[c] \/ (call'[c].outer = m /\ call'[c].todo = buf[c])
    BY <1>2, <2>2 DEF TypeOK
  <2>6. /\ \A row \in buf'[c] \cup call'[c].todo : MessageOK(row.msg, log, rosters)
        /\ call'[c].outer # NoCommit => MessageOK(call'[c].outer, log, rosters)
    BY <1>4, <2>1, <2>5, ClientFacts
  <2>7. GroupOK(mem'[c], log, rosters, created) /\ GroupOK(disk'[c], log, rosters, created)
    BY <2>3, <2>4, ClientFacts
  <2>8. QED
    BY <1>1, <1>6, <1>7, <2>1, <2>3, <2>4, <2>6, <2>7, LocalStep
<1>10. CASE DecryptFuture(c, m)
  <2>1. PICK b \in Save(buf[c], m) : buf' = [buf EXCEPT ![c] = b]
    BY <1>10 DEF DecryptFuture
  <2>2. UNCHANGED <<mem, disk, call>>
    BY <1>10 DEF DecryptFuture
  <2>3. buf'[c] = b /\ \A d \in Client \ {c} : buf'[d] = buf[d]
    BY <1>2, <2>1 DEF TypeOK
  <2>4. \A row \in buf'[c] \cup call'[c].todo : MessageOK(row.msg, log, rosters)
    BY <1>4, <2>2, <2>3, SaveOK, ClientFacts
  <2>5. QED
    BY <1>1, <1>6, <1>7, <2>2, <2>3, <2>4, ClientFacts, LocalStep
<1>11. CASE DecryptRejected(c, m) \/ DecryptNoGroup(c, m)
  <2>1. UNCHANGED <<mem, disk, buf, call>>
    BY <1>11 DEF DecryptRejected, DecryptNoGroup, clientVars
  <2>2. QED
    BY <1>1, <1>6, <1>7, <2>1, ClientFacts, LocalStep
<1>12. CASE ProcessWelcome(c, m)
  <2> DEFINE g == NewGroup(m.epoch, m.tag, m.members)
  <2>1. /\ UNCHANGED <<buf, call>>
        /\ Persist(c, g) \/ UNCHANGED <<mem, disk>>
    BY <1>12 DEF ProcessWelcome
  <2>2. /\ m.epoch \in 1..Len(log) /\ m.tag = log[m.epoch].tag
        /\ m.members = rosters[m.epoch + 1]
    BY <1>4, <1>12 DEF ProcessWelcome, MessageOK
  <2>3. Len(log) \in Nat
    BY <1>2 DEF TypeOK
  <2>4. GroupOK(g, log, rosters, created) /\ g.pc = NoCommit
    BY <2>2, <2>3 DEF GroupOK, NewGroup
  <2> HIDE DEF g
  <2>5. CASE UNCHANGED <<mem, disk>>
    BY <1>1, <1>6, <1>7, <2>1, <2>5, ClientFacts, LocalStep
  <2>6. CASE Persist(c, g)
    <3>1. /\ mem'[c] = g /\ disk'[c] = g
          /\ \A d \in Client \ {c} : mem'[d] = mem[d] /\ disk'[d] = disk[d]
      BY <1>2, <2>6 DEF TypeOK, Persist
    <3>2. QED
      BY <1>1, <1>6, <1>7, <2>1, <2>4, <3>1, ClientFacts, LocalStep
  <2>7. QED
    BY <2>1, <2>5, <2>6
<1>13. QED
  BY <1>3, <1>8, <1>9, <1>10, <1>11, <1>12 DEF m

\* Replaying the buffer, wiping the group and crashing keep the invariant: a
\* replay decrypts only accepted commits, and a crash falls back on a group that
\* agrees with the history too.
LEMMA RestoreInv ==
  ASSUME Inv, NEW c \in Client,
         Restore(c) \/ WipeConversation(c) \/ Crash(c)
  PROVE  Inv'
<1>1. TypeOK'
  BY RestoreType DEF Inv
<1>2. TypeOK /\ mem[c] \in Group /\ call[c] \in Call
  BY DEF Inv, TypeOK
<1>3. UNCHANGED <<log, rosters, created, net>>
  BY DEF Restore, RestoreMessage, RestoreFails, FinishRestore, WipeConversation, Crash, dsVars
<1>4. Idle.todo = {} /\ Idle.outer = NoCommit
  BY DEF Idle
<1>5. \A r \in call[c].todo : r.msg \in Message /\ MessageOK(r.msg, log, rosters)
  BY <1>2, ClientFacts DEF Call, Row
<1>6. CASE RestoreMessage(c)
  <2>1. PICK r \in call[c].todo : \E o \in DecryptOutcomes(c, mem[c], r.msg) :
          /\ Persist(c, o.g)
          /\ call' = [call EXCEPT ![c].todo = @ \ {r},
                                  ![c].apps = @ \cup o.apps,
                                  ![c].props = @ \cup o.props]
    BY <1>6 DEF RestoreMessage
  <2>2. PICK o \in DecryptOutcomes(c, mem[c], r.msg) :
          /\ Persist(c, o.g)
          /\ call' = [call EXCEPT ![c].todo = @ \ {r},
                                  ![c].apps = @ \cup o.apps,
                                  ![c].props = @ \cup o.props]
    BY <2>1
  <2>3. GroupOK(o.g, log, rosters, created) /\ (o.g.pc = mem[c].pc \/ o.g.pc = NoCommit)
    BY <1>5, OutcomeInv
  <2>4. /\ mem'[c] = o.g /\ disk'[c] = o.g
        /\ \A d \in Client \ {c} : mem'[d] = mem[d] /\ disk'[d] = disk[d] /\ call'[d] = call[d]
    BY <1>2, <2>2 DEF TypeOK, Persist
  <2>5. call'[c].todo \subseteq call[c].todo /\ call'[c].outer = call[c].outer
    BY <1>2, <2>2 DEF TypeOK, Call
  <2>6. UNCHANGED <<buf, post>>
    BY <1>6 DEF RestoreMessage
  <2>7. QED
    BY <1>1, <1>3, <2>3, <2>4, <2>5, <2>6, ClientFacts, LocalStep
<1>7. CASE RestoreFails(c)
  <2>1. PICK r \in call[c].todo : \E o \in DecryptOutcomes(c, mem[c], r.msg) :
          /\ mem' = [mem EXCEPT ![c] = o.g]
          /\ disk' = IF o.saved THEN [disk EXCEPT ![c] = o.g] ELSE disk
    BY <1>7 DEF RestoreFails
  <2>2. PICK o \in DecryptOutcomes(c, mem[c], r.msg) :
          /\ mem' = [mem EXCEPT ![c] = o.g]
          /\ disk' = IF o.saved THEN [disk EXCEPT ![c] = o.g] ELSE disk
    BY <2>1
  <2>3. GroupOK(o.g, log, rosters, created) /\ (o.g.pc = mem[c].pc \/ o.g.pc = NoCommit)
    BY <1>5, OutcomeInv
  <2>4. /\ mem'[c] = o.g /\ disk'[c] \in {o.g, disk[c]}
        /\ \A d \in Client \ {c} : mem'[d] = mem[d] /\ disk'[d] = disk[d]
    BY <1>2, <2>2 DEF TypeOK
  <2>5. /\ call' = [call EXCEPT ![c] = Idle] /\ UNCHANGED post
        /\ \/ UNCHANGED buf
           \/ /\ call[c].outer # NoCommit
              /\ \E b \in Save(buf[c], call[c].outer) : buf' = [buf EXCEPT ![c] = b]
    BY <1>7 DEF RestoreFails
  <2>6. call'[c] = Idle /\ \A d \in Client \ {c} : call'[d] = call[d] /\ buf'[d] = buf[d]
    BY <1>2, <2>5 DEF TypeOK
  <2>7. \A row \in buf'[c] : MessageOK(row.msg, log, rosters)
    <3>1. CASE UNCHANGED buf
      BY <3>1, ClientFacts
    <3>2. ASSUME call[c].outer # NoCommit,
                 NEW b \in Save(buf[c], call[c].outer), buf' = [buf EXCEPT ![c] = b]
          PROVE  \A row \in buf'[c] : MessageOK(row.msg, log, rosters)
      <4>1. buf'[c] = b
        BY <1>2, <3>2 DEF TypeOK
      <4>2. QED
        BY <3>2, <4>1, SaveOK, ClientFacts
    <3>3. QED
      BY <2>5, <3>1, <3>2
  <2>8. GroupOK(mem'[c], log, rosters, created) /\ GroupOK(disk'[c], log, rosters, created)
    BY <2>3, <2>4, ClientFacts
  <2>9. QED
    BY <1>1, <1>3, <1>4, <2>3, <2>4, <2>5, <2>6, <2>7, <2>8, LocalStep
<1>8. CASE FinishRestore(c)
  <2>1. /\ buf' = [buf EXCEPT ![c] = {}] /\ disk' = [disk EXCEPT ![c] = mem[c]]
        /\ UNCHANGED <<mem, post>>
        /\ call' = [call EXCEPT ![c].op = "wipe"] \/ call' = [call EXCEPT ![c] = Idle]
    BY <1>8 DEF FinishRestore
  <2>2. /\ buf'[c] = {} /\ disk'[c] = mem[c]
        /\ \A d \in Client \ {c} : disk'[d] = disk[d] /\ call'[d] = call[d] /\ buf'[d] = buf[d]
    BY <1>2, <2>1 DEF TypeOK
  <2>3. \/ call'[c] = Idle
        \/ call'[c].todo = call[c].todo /\ call'[c].outer = call[c].outer
    BY <1>2, <2>1 DEF TypeOK, Call
  <2>4. QED
    BY <1>1, <1>3, <1>4, <2>1, <2>2, <2>3, ClientFacts, LocalStep
<1>9. CASE WipeConversation(c)
  <2>1. /\ Persist(c, NoGroup) /\ call' = [call EXCEPT ![c] = Idle]
        /\ UNCHANGED <<buf, post>>
    BY <1>9 DEF WipeConversation
  <2>2. /\ mem'[c] = NoGroup /\ disk'[c] = NoGroup /\ call'[c] = Idle
        /\ \A d \in Client \ {c} : mem'[d] = mem[d] /\ disk'[d] = disk[d] /\ call'[d] = call[d]
    BY <1>2, <2>1 DEF TypeOK, Persist
  <2>3. NoGroup.pc = NoCommit /\ NoGroup.status = "none"
    BY DEF NoGroup, NewGroup
  <2>4. GroupOK(NoGroup, log, rosters, created)
    BY <2>3 DEF GroupOK
  <2>5. QED
    BY <1>1, <1>3, <1>4, <2>1, <2>2, <2>3, <2>4, ClientFacts, LocalStep
<1>10. CASE Crash(c)
  <2>1. /\ mem' = [mem EXCEPT ![c] = disk[c]] /\ call' = [call EXCEPT ![c] = Idle]
        /\ post' = [post EXCEPT ![c] = "idle"] /\ UNCHANGED <<disk, buf>>
    BY <1>10 DEF Crash
  <2>2. /\ mem'[c] = disk[c] /\ post'[c] = "idle" /\ call'[c] = Idle
        /\ \A d \in Client \ {c} : mem'[d] = mem[d] /\ post'[d] = post[d] /\ call'[d] = call[d]
    BY <1>2, <2>1 DEF TypeOK
  <2>3. QED
    BY <1>1, <1>3, <1>4, <2>1, <2>2, ClientFacts, LocalStep
<1>11. QED
  BY <1>6, <1>7, <1>8, <1>9, <1>10 DEF Restore

\* Every step of every client keeps the invariant.
LEMMA StepInv == Inv /\ [Next]_vars => Inv'
<1>1. ASSUME Inv, UNCHANGED vars
      PROVE  Inv'
  BY <1>1 DEF vars, Inv, TypeOK, GroupsAgree, PostedIsAccepted, Accepted, DeliveredIsAccepted
<1>2. ASSUME Inv, NEW c \in Client,
             \/ Create(c) \/ SendProposal(c) \/ ClearPendingProposal(c)
             \/ PostCommit(c) \/ CommitAccepted(c) \/ ClearPendingCommit(c)
             \/ Decrypt(c) \/ Restore(c) \/ WipeConversation(c) \/ Crash(c)
      PROVE  Inv'
  BY <1>2, CreateInv, CommitInv, DecryptInv, RestoreInv
<1>3. QED
  BY <1>1, <1>2 DEF Next

\* No fork, for any number of clients, crashes and repeated or reordered
\* deliveries: every group a client has in memory or in its keystore is in an
\* epoch of the history the DS accepted, with that epoch's tag and members.
THEOREM NoFork == Spec => []EpochAgreement
<1>1. Inv => EpochAgreement
  BY DEF Inv, GroupsAgree, GroupOK, EpochAgreement
<1>2. QED
  BY <1>1, InitInv, StepInv, PTL DEF Spec

-----------------------------------------------------------------------------
(* AppAtMostOnce.  A message that was handed over may come again: from the *)
(* network or from the buffer.  It is not decrypted again because          *)
(*  - its secret is spent, or                                              *)
(*  - the group was joined after its epoch, or                             *)
(*  - the client is out of the group in an epoch between the group's and   *)
(*    the message's, so that this group will never reach the message.      *)
(* The last case is that of a client that was removed and added again and  *)
(* that processes the Welcomes in any order.                               *)

\* The messages on their way to the client, or in its buffer.
Incoming(c) == {packet.msg : packet \in {q \in net : q.to = c}}
               \cup {row.msg : row \in buf[c] \cup call[c].todo}

AppsTo(c) == {m \in Incoming(c) : m.kind = "app"}

WelcomesTo(c) == {m \in Incoming(c) : m.kind = "welcome"}

\* What the application was given or will be given when the call returns.
HandedOver(c) == call[c].apps \cup {i \in App : got[c][i] > 0}

\* The client is out of the group in an epoch after e, up to f.
Out(c, r, e, f) == \E x \in (e + 1)..f : c \notin r[x + 1]

ClosedGroup(c, r, g, m) ==
  g.status = "operational" =>
    m.id \in g.used \/ m.epoch < g.since \/ Out(c, r, g.epoch, m.epoch)

ClosedWelcome(c, r, w, m) == m.epoch < w.epoch \/ Out(c, r, w.epoch, m.epoch)

\* The client is a member from the epoch in which the group was joined to the
\* group's epoch, and not before.
Stays(c, r, g) ==
  g.status = "operational" =>
    /\ g.since <= g.epoch
    /\ \A y \in g.since..g.epoch : c \in r[y + 1]
    /\ g.since > 0 => c \notin r[g.since]

\* A commit adds nobody who is a member of its epoch.
CommitsValid ==
  \A cm \in created : cm.epoch <= Len(log) /\ Added(cm) \cap rosters[cm.epoch + 1] = {}

Membership(c) == Stays(c, rosters, mem[c]) /\ Stays(c, rosters, disk[c])

\* A Welcome was not used to join yet.
Unused(w, g) == g.status = "operational" => w.epoch # g.since

WelcomesOK(c) ==
  \A w \in WelcomesTo(c) :
    /\ c \in rosters[w.epoch + 1] /\ c \notin rosters[w.epoch]
    /\ Unused(w, mem[c]) /\ Unused(w, disk[c])

\* An id stands for one message.
IdsOK(c) ==
  /\ \A m \in AppsTo(c) : m.id \in 1..count.app /\ m.epoch <= Len(log)
  /\ \A m, k \in AppsTo(c) : m.id = k.id => m.epoch = k.epoch

LedgerOK(c) ==
  /\ \A i \in App : got[c][i] <= 1 /\ (got[c][i] > 0 => i <= count.app)
  /\ \A i \in call[c].apps : i \in App /\ i <= count.app /\ got[c][i] = 0

HandedOK(c) ==
  \A m \in AppsTo(c) : m.id \in HandedOver(c) =>
    /\ ClosedGroup(c, rosters, mem[c], m) /\ ClosedGroup(c, rosters, disk[c], m)
    /\ \A w \in WelcomesTo(c) : ClosedWelcome(c, rosters, w, m)

AppInv ==
  /\ Inv
  /\ count.app <= MaxApps
  /\ CommitsValid
  /\ \A c \in Client : Membership(c) /\ WelcomesOK(c) /\ IdsOK(c) /\ LedgerOK(c) /\ HandedOK(c)

\* What an operation may do to a group: spend secrets, merge the next commit of
\* the log, or leave it.
Moves(c, r, g, h) ==
  h.status = "operational" =>
    /\ g.status = "operational"
    /\ h.since = g.since
    /\ g.used \subseteq h.used
    /\ \/ h.epoch = g.epoch
       \/ /\ h.epoch = g.epoch + 1
          /\ c \in r[h.epoch + 1]

\* Moves keeps what the invariant says of a group.
LEMMA MovesKeeps ==
  ASSUME NEW c, NEW r, NEW g \in Group, NEW h \in Group, Moves(c, r, g, h)
  PROVE  /\ Stays(c, r, g) => Stays(c, r, h)
         /\ \A w : Unused(w, g) => Unused(w, h)
         /\ \A m : m.epoch \in Nat /\ ClosedGroup(c, r, g, m) => ClosedGroup(c, r, h, m)
<1>t. g.epoch \in Nat /\ h.epoch \in Nat /\ g.since \in Nat /\ h.since \in Nat
  BY DEF Group
<1>1. Stays(c, r, g) => Stays(c, r, h)
  BY <1>t DEF Moves, Stays
<1>2. \A w : Unused(w, g) => Unused(w, h)
  BY DEF Moves, Unused
<1>3. ASSUME NEW m, m.epoch \in Nat, ClosedGroup(c, r, g, m)
      PROVE  ClosedGroup(c, r, h, m)
  <2> SUFFICES ASSUME h.status = "operational", m.id \notin h.used, ~(m.epoch < h.since)
               PROVE  Out(c, r, h.epoch, m.epoch)
    BY DEF ClosedGroup
  <2>1. Out(c, r, g.epoch, m.epoch)
    BY <1>3 DEF Moves, ClosedGroup
  <2>2. PICK x \in (g.epoch + 1)..m.epoch : c \notin r[x + 1]
    BY <2>1 DEF Out
  <2>3. x \in (h.epoch + 1)..m.epoch
    BY <1>t, <1>3, <2>2 DEF Moves
  <2>4. QED
    BY <2>2, <2>3 DEF Out
<1>4. QED
  BY <1>1, <1>2, <1>3

\* A group is its own successor; so is a change of its proposals or its pending
\* commit, a spent secret and the end of the membership.
LEMMA MovesLocally ==
  ASSUME NEW c, NEW r, NEW g \in Group, NEW h \in Group,
         \/ h.status # "operational"
         \/ /\ h.status = g.status /\ h.since = g.since /\ h.epoch = g.epoch
            /\ g.used \subseteq h.used
  PROVE  Moves(c, r, g, h)
BY DEF Moves

\* Merging the next commit of the log is a move.
LEMMA MergeMoves ==
  ASSUME NEW c \in Client, NEW g \in Group, NEW cm \in Commit,
         NEW l \in Seq(Commit), NEW r, NEW cms,
         HistoryOK(l, r, cms), GroupOK(g, l, r, cms), Stays(c, r, g), g.status = "operational",
         cm.epoch = g.epoch, cm.epoch < Len(l), l[cm.epoch + 1] = cm
  PROVE  Moves(c, r, g, Merge(c, g, cm))
<1> DEFINE h == Merge(c, g, cm)
<1>1. /\ h.epoch = g.epoch + 1 /\ h.since = g.since /\ h.used = g.used
      /\ h.members = MembersAfter(g.members, cm)
      /\ h.status = IF c \in Removed(cm) THEN "inactive" ELSE g.status
  BY DEF Merge, Group
<1>2. GroupOK(h, l, r, cms)
  BY MergeOK
<1> HIDE DEF h
<1> SUFFICES ASSUME h.status = "operational" PROVE c \in r[h.epoch + 1]
  BY <1>1 DEF Moves, h
<1>3. c \notin Removed(cm)
  BY <1>1
<1>4. c \in g.members
  <2>1. g.epoch \in g.since..g.epoch
    BY DEF Stays, Group
  <2>2. QED
    BY <2>1 DEF Stays, GroupOK
<1>5. h.members = r[h.epoch + 1]
  BY <1>2 DEF GroupOK
<1>6. QED
  BY <1>1, <1>3, <1>4, <1>5 DEF MembersAfter

\* Whatever decrypt_message makes of a message is a move, and it returns
\* nothing but the application message it was given, whose secret it spends.
LEMMA OutcomeMoves ==
  ASSUME NEW c \in Client, NEW g \in Group, NEW m \in Message,
         NEW l \in Seq(Commit), NEW r, NEW cms \in SUBSET Commit,
         HistoryOK(l, r, cms), TagsUnique(cms),
         GroupOK(g, l, r, cms), MessageOK(m, l, r), Stays(c, r, g),
         NEW o \in DecryptOutcomes(c, g, m)
  PROVE  /\ Moves(c, r, g, o.g)
         /\ \/ o.apps = {}
            \/ /\ m.kind = "app" /\ ParseMessage(g, m) = "Ok"
               /\ o.apps = {m.id} /\ m.id \in o.g.used
               /\ o.g.status = g.status /\ o.g.epoch = g.epoch /\ o.g.since = g.since
<1>g. o.g \in Group
  BY OutcomeType
<1>1. ASSUME o.g = g
      PROVE  Moves(c, r, g, o.g)
  BY <1>1, MovesLocally
<1>2. CASE IsSelfCommit(c, m)
  <2>1. o = SelfCommitOutcome(c, g, m)
    BY <1>2 DEF DecryptOutcomes
  <2>a. o.apps = {}
    BY <2>1 DEF SelfCommitOutcome, Outcome
  <2>2. CASE g.pc # NoCommit /\ g.pc.tag = m.tag
    <3>1. o.g = Merge(c, g, g.pc)
      BY <2>1, <2>2 DEF SelfCommitOutcome, Outcome
    <3>2. m \in Commit
      BY <1>2 DEF IsSelfCommit, Message, ProposalMsg, AppMsg
    <3>3. m.epoch < Len(l) /\ l[m.epoch + 1] = m
      BY <1>2 DEF IsSelfCommit, MessageOK
    <3>4. m \in cms
      <4>1. m.epoch \in Nat /\ Len(l) \in Nat
        BY <3>2 DEF Commit
      <4>2. m.epoch + 1 \in 1..Len(l)
        BY <3>3, <4>1
      <4>3. QED
        BY <3>3, <4>2 DEF HistoryOK
    <3>5. g.pc \in cms /\ g.pc.epoch = g.epoch /\ g.status = "operational"
      BY <2>2 DEF GroupOK
    <3>6. g.pc = m
      BY <2>2, <3>4, <3>5 DEF TagsUnique
    <3>7. QED
      BY <2>a, <3>1, <3>2, <3>3, <3>5, <3>6, MergeMoves
  <2>3. CASE ~(g.pc # NoCommit /\ g.pc.tag = m.tag)
    <3>1. o.g = g
      BY <2>1, <2>3 DEF SelfCommitOutcome, Outcome
    <3>2. QED
      BY <1>1, <2>a, <3>1
  <2>4. QED
    BY <2>2, <2>3
<1>3. CASE ~IsSelfCommit(c, m) /\ ParseMessage(g, m) # "Ok"
  <2>1. o.g = g /\ o.apps = {}
    BY <1>3 DEF DecryptOutcomes, Outcome
  <2>2. QED
    BY <1>1, <2>1
<1>4. CASE ~IsSelfCommit(c, m) /\ ParseMessage(g, m) = "Ok" /\ m.kind = "app"
  <2>1. o.g = [g EXCEPT !.used = @ \cup {m.id}] /\ o.apps = {m.id}
    BY <1>4 DEF DecryptOutcomes, Outcome
  <2>2. /\ o.g.status = g.status /\ o.g.epoch = g.epoch /\ o.g.since = g.since
        /\ o.g.used = g.used \cup {m.id}
    BY <2>1 DEF Group
  <2>3. QED
    BY <1>4, <1>g, <2>1, <2>2, MovesLocally
<1>5. CASE ~IsSelfCommit(c, m) /\ ParseMessage(g, m) = "Ok" /\ m.kind = "proposal"
  <2>1. o.g = [g EXCEPT !.props = @ \cup {m.prop}] /\ o.apps = {}
    BY <1>5 DEF DecryptOutcomes, Outcome
  <2>2. /\ o.g.status = g.status /\ o.g.epoch = g.epoch /\ o.g.since = g.since
        /\ o.g.used = g.used
    BY <2>1 DEF Group
  <2>3. QED
    BY <1>g, <2>1, <2>2, MovesLocally
<1>6. CASE ~IsSelfCommit(c, m) /\ ParseMessage(g, m) = "Ok" /\ m.kind = "commit"
  <2> DEFINE merged == Merge(c, g, m)
  <2>1. m \in Commit
    BY <1>6 DEF Message, ProposalMsg, AppMsg
  <2>2. g.status = "operational" /\ m.epoch = g.epoch
    BY <1>6, <2>1, CommitParsedInEpoch
  <2>3. m.epoch < Len(l) /\ l[m.epoch + 1] = m
    BY <1>6 DEF MessageOK
  <2>4. Moves(c, r, g, merged)
    BY <2>1, <2>2, <2>3, MergeMoves
  <2>5. merged \in Group
    BY <2>1, MergeType
  <2>6. o \in CommitOutcomes(c, g, m)
    BY <1>6 DEF DecryptOutcomes
  <2>7. o.apps = {} /\ (o.g = merged \/ \E S : o.g = [merged EXCEPT !.props = S])
    <3>1. \/ o = Outcome("RenewalFailed", merged, FALSE, {}, {})
          \/ \E S, b : o = Outcome("RenewalFailed", [merged EXCEPT !.props = S], b, {}, {})
          \/ \E S, b, ms : o = Outcome("Ok", [merged EXCEPT !.props = S], b, {}, ms)
      BY <2>6, Zenon DEF CommitOutcomes, RenewIn
    <3>2. \A res, x, b, ms : o = Outcome(res, x, b, {}, ms) => o.g = x /\ o.apps = {}
      BY DEF Outcome
    <3> HIDE DEF merged
    <3>3. QED
      BY <3>1, <3>2, Zenon
  <2> HIDE DEF merged
  <2>8. /\ o.g.status = merged.status /\ o.g.epoch = merged.epoch
        /\ o.g.since = merged.since /\ o.g.used = merged.used
    BY <2>5, <2>7 DEF Group
  <2>9. QED
    BY <2>4, <2>7, <2>8 DEF Moves
<1>7. m.kind \in {"app", "proposal", "commit"}
  BY DEF Message, Commit, ProposalMsg, AppMsg
<1>8. QED
  BY <1>2, <1>3, <1>4, <1>5, <1>6, <1>7

\* What is on its way are messages.
LEMMA IncomingType ==
  ASSUME TypeOK, NEW c \in Client
  PROVE  /\ \A m \in AppsTo(c) : m \in AppMsg /\ m.epoch \in Nat /\ m.id \in Nat
         /\ \A w \in WelcomesTo(c) : w \in Welcome /\ [to |-> c, msg |-> w] \in net
<1>1. \A packet \in net : packet \in Packet
  BY DEF TypeOK
<1>2. \A row \in buf[c] \cup call[c].todo : row.msg \in Message
  BY DEF TypeOK, Call, Row
<1>3. Incoming(c) \subseteq Message \cup Welcome
  BY <1>1, <1>2 DEF Incoming, Packet
<1>4. \A m \in Message \cup Welcome :
        /\ m.kind = "app" => m \in AppMsg
        /\ m.kind = "welcome" => m \in Welcome /\ m \notin Message
  BY DEF Message, Commit, ProposalMsg, AppMsg, Welcome
<1>5. \A m \in AppMsg : m.epoch \in Nat /\ m.id \in Nat
  BY DEF AppMsg
<1>6. ASSUME NEW packet \in net, packet.to = c
      PROVE  packet = [to |-> c, msg |-> packet.msg]
  BY <1>1, <1>6 DEF Packet
<1>7. \A w \in Incoming(c) : w \notin Message => [to |-> c, msg |-> w] \in net
  BY <1>2, <1>6 DEF Incoming
<1>8. QED
  BY <1>3, <1>4, <1>5, <1>7 DEF AppsTo, WelcomesTo

\* The groups of a client and the epochs of its messages lie in the log.
LEMMA EpochBounds ==
  ASSUME AppInv, NEW c \in Client
  PROVE  /\ mem[c] \in Group /\ disk[c] \in Group
         /\ mem[c].status = "operational" => mem[c].epoch <= Len(log)
         /\ disk[c].status = "operational" => disk[c].epoch <= Len(log)
         /\ Len(log) \in Nat /\ Len(rosters) = Len(log) + 1
         /\ \A w \in WelcomesTo(c) : w.epoch \in 1..Len(log) /\ MessageOK(w, log, rosters)
<1>1. TypeOK /\ HistoryOK(log, rosters, created) /\ Inv
  BY DEF AppInv, Inv
<1>2. \A w \in WelcomesTo(c) : MessageOK(w, log, rosters) /\ w.kind = "welcome"
  <2>1. \A w \in WelcomesTo(c) : [to |-> c, msg |-> w] \in net /\ w.kind = "welcome"
    BY <1>1, IncomingType DEF WelcomesTo
  <2>2. \A w : [to |-> c, msg |-> w] \in net => MessageOK(w, log, rosters)
    BY <1>1 DEF Inv, DeliveredIsAccepted
  <2>3. QED
    BY <2>1, <2>2
<1>3. QED
  BY <1>1, <1>2, ClientFacts DEF TypeOK, HistoryOK, GroupOK, MessageOK

\* A step that gives the application of c nothing new: its groups move, and
\* no Welcome and no message comes up but, perhaps, a message of a new id.
LEMMA QuietClient ==
  ASSUME AppInv, TypeOK', NEW c \in Client,
         UNCHANGED <<log, rosters>>,
         \/ Moves(c, rosters, mem[c], mem'[c]) \/ Moves(c, rosters, disk[c], mem'[c]),
         \/ Moves(c, rosters, mem[c], disk'[c]) \/ Moves(c, rosters, disk[c], disk'[c]),
         WelcomesTo(c)' \subseteq WelcomesTo(c),
         NEW e, e <= Len(log), count'.app \in {count.app, count.app + 1},
         \A m \in AppsTo(c)' :
           \/ m \in AppsTo(c)
           \/ m.id = count.app + 1 /\ m.id = count'.app /\ m.epoch = e,
         HandedOver(c)' \subseteq HandedOver(c)
  PROVE  Membership(c)' /\ WelcomesOK(c)' /\ IdsOK(c)' /\ HandedOK(c)'
<1>1. /\ Membership(c) /\ WelcomesOK(c) /\ IdsOK(c) /\ LedgerOK(c) /\ HandedOK(c)
      /\ TypeOK /\ mem[c] \in Group /\ disk[c] \in Group
  BY EpochBounds DEF AppInv, Inv
<1>2. mem'[c] \in Group /\ disk'[c] \in Group /\ count.app \in Nat
  BY <1>1 DEF TypeOK, Counters
<1>3. \A m \in AppsTo(c) : m.epoch \in Nat /\ m.id \in Nat
  BY <1>1, IncomingType
<1>4. Membership(c)'
  <2>1. Stays(c, rosters, mem'[c]) /\ Stays(c, rosters, disk'[c])
    BY <1>1, <1>2, MovesKeeps DEF Membership
  <2>2. QED
    BY <2>1 DEF Membership
<1>5. WelcomesOK(c)'
  <2>1. \A w \in WelcomesTo(c) : Unused(w, mem'[c]) /\ Unused(w, disk'[c])
    BY <1>1, <1>2, MovesKeeps DEF WelcomesOK
  <2>2. QED
    BY <1>1, <2>1 DEF WelcomesOK
<1>6. IdsOK(c)'
  <2>1. \A m \in AppsTo(c)' : m.id \in 1..count'.app /\ m.epoch <= Len(log)
    BY <1>1, <1>2, <1>3 DEF IdsOK
  <2>2. \A m, k \in AppsTo(c)' : m.id = k.id => m.epoch = k.epoch
    BY <1>1, <1>2, <1>3 DEF IdsOK
  <2>3. QED
    BY <2>1, <2>2 DEF IdsOK
<1>7. ASSUME NEW m \in AppsTo(c)', m.id \in HandedOver(c)'
      PROVE  m \in AppsTo(c) /\ m.id \in HandedOver(c)
  <2>1. \A i \in HandedOver(c) : i <= count.app
    BY <1>1 DEF HandedOver, LedgerOK
  <2>2. QED
    BY <1>2, <1>7, <2>1
<1>8. HandedOK(c)'
  <2>1. ASSUME NEW m \in AppsTo(c), m.id \in HandedOver(c)
        PROVE  ClosedGroup(c, rosters, mem'[c], m) /\ ClosedGroup(c, rosters, disk'[c], m)
    BY <1>1, <1>2, <1>3, <2>1, MovesKeeps DEF HandedOK
  <2>2. QED
    BY <1>1, <1>7, <2>1 DEF HandedOK
<1>9. QED
  BY <1>4, <1>5, <1>6, <1>8

\* A message whose secret was spent by the group of c, which is about to be
\* handed over, closes every Welcome: they are about other memberships.
LEMMA OtherMembership ==
  ASSUME NEW c, NEW r, NEW g \in Group, Stays(c, r, g), g.status = "operational",
         NEW m, m.epoch \in g.since..g.epoch,
         NEW w, w.epoch \in Nat \ {0}, c \in r[w.epoch + 1], c \notin r[w.epoch], Unused(w, g)
  PROVE  ClosedWelcome(c, r, w, m)
<1>t. g.epoch \in Nat /\ g.since \in Nat /\ w.epoch # g.since
  BY DEF Group, Unused
<1> SUFFICES ASSUME w.epoch <= m.epoch
             PROVE  Out(c, r, w.epoch, m.epoch)
  BY <1>t DEF ClosedWelcome
<1>1. CASE w.epoch > g.since
  <2>1. w.epoch - 1 \in g.since..g.epoch /\ (w.epoch - 1) + 1 = w.epoch
    BY <1>t, <1>1
  <2>2. QED
    BY <2>1 DEF Stays
<1>2. CASE w.epoch < g.since
  <2> DEFINE x == g.since - 1
  <2>1. x + 1 = g.since /\ c \notin r[x + 1] /\ x \in Nat /\ x >= w.epoch
    BY <1>t, <1>2 DEF Stays
  <2>2. x # w.epoch
    BY <2>1
  <2>3. x \in (w.epoch + 1)..m.epoch
    BY <1>t, <2>1, <2>2
  <2>4. QED
    BY <2>1, <2>3 DEF Out
<1>3. QED
  BY <1>t, <1>1, <1>2

\* What parse_message accepts was not handed over before.
LEMMA NotHandedOver ==
  ASSUME AppInv, NEW c \in Client, NEW m \in AppsTo(c), ParseMessage(mem[c], m) = "Ok"
  PROVE  /\ m.id \notin HandedOver(c)
         /\ mem[c].status = "operational"
         /\ m.epoch \in mem[c].since..mem[c].epoch
<1>1. /\ HandedOK(c) /\ TypeOK /\ mem[c] \in Group
      /\ m.epoch \in Nat /\ m.kind = "app"
  BY EpochBounds, IncomingType DEF AppInv, Inv, AppsTo
<1>2. mem[c].epoch \in Nat /\ mem[c].since \in Nat
  BY <1>1 DEF Group
<1>3. mem[c].status = "operational" /\ m.epoch <= mem[c].epoch /\ ParseApp(mem[c], m) = "Ok"
  BY <1>1, <1>2 DEF ParseMessage, ParseWrongEpoch
<1>4. m.id \notin mem[c].used /\ ~(m.epoch < mem[c].since)
  BY <1>3 DEF ParseApp
<1>5. ~Out(c, rosters, mem[c].epoch, m.epoch)
  BY <1>1, <1>2, <1>3 DEF Out
<1>6. m.id \notin HandedOver(c)
  BY <1>1, <1>3, <1>4, <1>5 DEF HandedOK, ClosedGroup
<1>7. QED
  BY <1>1, <1>2, <1>3, <1>4, <1>6

\* An application message is decrypted, in memory and in the keystore, and it
\* was not handed over before.
LEMMA DecryptingClient ==
  ASSUME AppInv, TypeOK', NEW c \in Client,
         UNCHANGED <<log, rosters>>, count'.app = count.app,
         NEW m \in AppsTo(c), ParseMessage(mem[c], m) = "Ok",
         Moves(c, rosters, mem[c], mem'[c]), mem'[c] = disk'[c], m.id \in mem'[c].used,
         WelcomesTo(c)' \subseteq WelcomesTo(c),
         AppsTo(c)' \subseteq AppsTo(c),
         HandedOver(c)' \subseteq HandedOver(c) \cup {m.id}
  PROVE  Membership(c)' /\ WelcomesOK(c)' /\ IdsOK(c)' /\ HandedOK(c)'
<1>1. /\ Membership(c) /\ WelcomesOK(c) /\ IdsOK(c) /\ LedgerOK(c) /\ HandedOK(c)
      /\ TypeOK /\ mem[c] \in Group
  BY EpochBounds DEF AppInv, Inv
<1>2. mem'[c] \in Group
  BY DEF TypeOK
<1>3. \A k \in AppsTo(c) : k.epoch \in Nat /\ k.id \in Nat
  BY <1>1, IncomingType
<1>4. Membership(c)'
  <2>1. Stays(c, rosters, mem'[c]) /\ Stays(c, rosters, disk'[c])
    BY <1>1, <1>2, MovesKeeps DEF Membership
  <2>2. QED
    BY <2>1 DEF Membership
<1>5. WelcomesOK(c)'
  <2>1. \A w \in WelcomesTo(c) : Unused(w, mem'[c]) /\ Unused(w, disk'[c])
    BY <1>1, <1>2, MovesKeeps DEF WelcomesOK
  <2>2. QED
    BY <1>1, <2>1 DEF WelcomesOK
<1>6. IdsOK(c)'
  BY <1>1 DEF IdsOK
<1>7. mem[c].status = "operational" /\ m.epoch \in mem[c].since..mem[c].epoch
  BY NotHandedOver
<1>8. \A w \in WelcomesTo(c) : ClosedWelcome(c, rosters, w, m)
  <2>1. \A w \in WelcomesTo(c) :
          /\ w.epoch \in Nat \ {0} /\ c \in rosters[w.epoch + 1] /\ c \notin rosters[w.epoch]
          /\ Unused(w, mem[c])
    BY <1>1, EpochBounds DEF WelcomesOK
  <2>2. QED
    BY <1>1, <1>7, <2>1, OtherMembership DEF Membership
<1>9. ASSUME NEW k \in AppsTo(c)', k.id \in HandedOver(c)'
      PROVE  /\ ClosedGroup(c, rosters, mem'[c], k)
             /\ \A w \in WelcomesTo(c) : ClosedWelcome(c, rosters, w, k)
  <2>0. k \in AppsTo(c)
    BY <1>9
  <2>1. CASE k.id = m.id
    <3>1. k.epoch = m.epoch
      BY <1>1, <2>0, <2>1 DEF IdsOK
    <3>2. QED
      BY <1>8, <2>1, <3>1 DEF ClosedGroup, ClosedWelcome
  <2>2. CASE k.id \in HandedOver(c)
    BY <1>1, <1>2, <1>3, <2>0, <2>2, MovesKeeps DEF HandedOK
  <2>3. QED
    BY <1>9, <2>1, <2>2
<1>10. HandedOK(c)'
  BY <1>9 DEF HandedOK
<1>11. QED
  BY <1>4, <1>5, <1>6, <1>10

\* A Welcome is processed.
LEMMA JoiningClient ==
  ASSUME AppInv, TypeOK', NEW c \in Client,
         UNCHANGED <<log, rosters>>, count'.app = count.app,
         NEW w \in WelcomesTo(c),
         mem'[c] = NewGroup(w.epoch, w.tag, w.members), disk'[c] = mem'[c],
         \A v \in WelcomesTo(c)' : v \in WelcomesTo(c) /\ v # w,
         AppsTo(c)' \subseteq AppsTo(c),
         HandedOver(c)' \subseteq HandedOver(c)
  PROVE  Membership(c)' /\ WelcomesOK(c)' /\ IdsOK(c)' /\ HandedOK(c)'
<1>1. /\ WelcomesOK(c) /\ IdsOK(c) /\ HandedOK(c) /\ TypeOK
  BY DEF AppInv, Inv
<1>2. /\ mem'[c].since = w.epoch /\ mem'[c].epoch = w.epoch
      /\ mem'[c].status = "operational"
  BY DEF NewGroup
<1>3. \A v \in WelcomesTo(c) :
        v \in Welcome /\ v.epoch \in 1..Len(log) /\ MessageOK(v, log, rosters) /\ v.kind = "welcome"
  BY <1>1, EpochBounds, IncomingType DEF WelcomesTo
<1>4. \A v \in WelcomesTo(c) : v.epoch = w.epoch => v = w
  <2>1. ASSUME NEW v \in WelcomesTo(c), v.epoch = w.epoch
        PROVE  v.kind = w.kind /\ v.tag = w.tag /\ v.members = w.members
    BY <1>3, <2>1 DEF MessageOK
  <2>2. QED
    BY <1>3, <2>1 DEF Welcome
<1>5. Stays(c, rosters, mem'[c])
  <2>1. \A y \in w.epoch..w.epoch : y = w.epoch
    BY <1>3, EpochBounds
  <2>2. QED
    BY <1>1, <1>2, <1>3, <2>1, EpochBounds DEF Stays, WelcomesOK
<1>6. Membership(c)'
  BY <1>5 DEF Membership
<1>7. WelcomesOK(c)'
  BY <1>1, <1>2, <1>4 DEF WelcomesOK, Unused
<1>8. IdsOK(c)'
  BY <1>1 DEF IdsOK
<1>9. \A m : ClosedWelcome(c, rosters, w, m) => ClosedGroup(c, rosters, mem'[c], m)
  BY <1>2 DEF ClosedWelcome, ClosedGroup
<1>10. HandedOK(c)'
  BY <1>1, <1>9 DEF HandedOK
<1>11. QED
  BY <1>6, <1>7, <1>8, <1>10

\* What AppInv says of one client.
Parts(c) == Membership(c) /\ WelcomesOK(c) /\ IdsOK(c) /\ LedgerOK(c) /\ HandedOK(c)

\* What a step may add to the network: no Welcome, and no application message
\* but one with the next id, of epoch e.
NewMail(m, e, old, new) ==
  /\ m.kind # "welcome"
  /\ m.kind = "app" => m.id = old + 1 /\ m.id = new /\ m.epoch = e

\* The messages of a client to whose buffer and replay nothing is added but
\* what came from the network.
LEMMA MailStep ==
  ASSUME NEW d, NEW e,
         \A packet \in net' : packet \in net \/ NewMail(packet.msg, e, count.app, count'.app),
         \A row \in buf'[d] \cup call'[d].todo :
           row.msg \in Incoming(d) \/ row.msg.kind \notin {"welcome", "app"}
  PROVE  /\ WelcomesTo(d)' \subseteq WelcomesTo(d)
         /\ \A m \in AppsTo(d)' :
              \/ m \in AppsTo(d)
              \/ m.id = count.app + 1 /\ m.id = count'.app /\ m.epoch = e
<1>1. \A m \in Incoming(d)' : m \in Incoming(d) \/ NewMail(m, e, count.app, count'.app)
  BY DEF Incoming, NewMail
<1>2. QED
  BY <1>1 DEF WelcomesTo, AppsTo, NewMail

\* The application is given the messages of B, out of those the call holds and
\* new ones, A; the call keeps some of the others.
LEMMA LedgerStep ==
  ASSUME AppInv, NEW c \in Client, NEW A, NEW B,
         \A i \in A : i \in App /\ i <= count.app /\ i \notin HandedOver(c),
         count'.app \in {count.app, count.app + 1},
         B \subseteq call[c].apps \cup A,
         call'[c].apps \subseteq (call[c].apps \cup A) \ B,
         \A i \in App : got'[c][i] = IF i \in B THEN got[c][i] + 1 ELSE got[c][i]
  PROVE  LedgerOK(c)' /\ HandedOver(c)' \subseteq HandedOver(c) \cup A
<1>1. LedgerOK(c) /\ TypeOK
  BY DEF AppInv, Inv
<1>2. count.app \in Nat /\ \A i \in App : got[c][i] \in Nat /\ i \in Nat
  BY <1>1, ConversationAssumption DEF TypeOK, Counters, App
<1>3. \A i \in App : i \in call[c].apps \/ i \in A => got[c][i] = 0 /\ i <= count.app
  BY <1>1, <1>2 DEF LedgerOK, HandedOver
<1>4. \A i \in App : got'[c][i] <= 1 /\ (got'[c][i] > 0 => i <= count'.app)
  BY <1>1, <1>2, <1>3 DEF LedgerOK
<1>5. \A i \in call'[c].apps : i \in App /\ i <= count'.app /\ got'[c][i] = 0
  BY <1>1, <1>2, <1>3 DEF LedgerOK
<1>6. LedgerOK(c)'
  BY <1>4, <1>5 DEF LedgerOK
<1>7. HandedOver(c)' \subseteq HandedOver(c) \cup A
  BY DEF HandedOver
<1>8. QED
  BY <1>6, <1>7

\* A client that a step of another one leaves alone.
LEMMA Bystander ==
  ASSUME AppInv, TypeOK', NEW d \in Client, UNCHANGED <<log, rosters>>,
         /\ mem'[d] = mem[d] /\ disk'[d] = disk[d] /\ buf'[d] = buf[d]
         /\ call'[d] = call[d] /\ got'[d] = got[d],
         NEW e, e <= Len(log), count'.app \in {count.app, count.app + 1},
         \A packet \in net' : packet \in net \/ NewMail(packet.msg, e, count.app, count'.app)
  PROVE  Parts(d)'
<1>1. mem[d] \in Group /\ disk[d] \in Group
  BY EpochBounds
<1>2. Moves(d, rosters, mem[d], mem'[d]) /\ Moves(d, rosters, disk[d], disk'[d])
  BY <1>1, MovesLocally
<1>3. \A row \in buf'[d] \cup call'[d].todo : row.msg \in Incoming(d)
  BY DEF Incoming
<1>4. /\ WelcomesTo(d)' \subseteq WelcomesTo(d)
      /\ \A m \in AppsTo(d)' :
           \/ m \in AppsTo(d)
           \/ m.id = count.app + 1 /\ m.id = count'.app /\ m.epoch = e
  BY <1>3, MailStep
<1>5. LedgerOK(d)' /\ HandedOver(d)' \subseteq HandedOver(d)
  <2> DEFINE E == {}
  <2>a. /\ \A i \in E : i \in App /\ i <= count.app /\ i \notin HandedOver(d)
        /\ E \subseteq call[d].apps \cup E
        /\ call'[d].apps \subseteq (call[d].apps \cup E) \ E
        /\ \A i \in App : got'[d][i] = IF i \in E THEN got[d][i] + 1 ELSE got[d][i]
    OBVIOUS
  <2> HIDE DEF E
  <2>1. LedgerOK(d)' /\ HandedOver(d)' \subseteq HandedOver(d) \cup E
    BY <2>a, LedgerStep
  <2>2. QED
    BY <2>1 DEF E
<1>6. QED
  BY <1>2, <1>4, <1>5, QuietClient DEF Parts

\* A step of client c that leaves the history alone, given what it does to c.
LEMMA AppStep ==
  ASSUME AppInv, Inv', NEW c \in Client, UNCHANGED <<log, rosters>>,
         \A d \in Client \ {c} :
           /\ mem'[d] = mem[d] /\ disk'[d] = disk[d] /\ buf'[d] = buf[d]
           /\ call'[d] = call[d] /\ got'[d] = got[d],
         NEW e, e <= Len(log), count'.app \in {count.app, count.app + 1},
         count'.app <= MaxApps,
         \A packet \in net' : packet \in net \/ NewMail(packet.msg, e, count.app, count'.app),
         CommitsValid', Parts(c)'
  PROVE  AppInv'
<1>1. TypeOK'
  BY DEF Inv
<1>2. \A d \in Client \ {c} : Parts(d)'
  BY <1>1, Bystander
<1>3. \A d \in Client : Parts(d)'
  BY <1>2
<1>4. QED
  BY <1>3 DEF AppInv, Parts

\* A step of client c, with the history unchanged, that decrypts no application
\* message: its groups move, nothing but what came from the network is added to
\* its buffer, and the application is given the messages of B, which the call
\* held.
QuietMove(c, e, B) ==
  /\ UNCHANGED <<log, rosters>>
  /\ \A d \in Client \ {c} :
       /\ mem'[d] = mem[d] /\ disk'[d] = disk[d] /\ buf'[d] = buf[d]
       /\ call'[d] = call[d] /\ got'[d] = got[d]
  /\ e <= Len(log) /\ count'.app \in {count.app, count.app + 1} /\ count'.app <= MaxApps
  /\ \A packet \in net' : packet \in net \/ NewMail(packet.msg, e, count.app, count'.app)
  /\ Moves(c, rosters, mem[c], mem'[c]) \/ Moves(c, rosters, disk[c], mem'[c])
  /\ Moves(c, rosters, mem[c], disk'[c]) \/ Moves(c, rosters, disk[c], disk'[c])
  /\ \A row \in buf'[c] \cup call'[c].todo :
       row.msg \in Incoming(c) \/ row.msg.kind \notin {"welcome", "app"}
  /\ B \subseteq call[c].apps
  /\ call'[c].apps \subseteq call[c].apps \ B
  /\ \A i \in App : got'[c][i] = IF i \in B THEN got[c][i] + 1 ELSE got[c][i]

\* Such a step keeps the invariant.
LEMMA QuietStep ==
  ASSUME AppInv, Inv', CommitsValid', NEW c \in Client, NEW e, NEW B, QuietMove(c, e, B)
  PROVE  AppInv'
<1>1. /\ WelcomesTo(c)' \subseteq WelcomesTo(c)
      /\ \A m \in AppsTo(c)' :
           \/ m \in AppsTo(c)
           \/ m.id = count.app + 1 /\ m.id = count'.app /\ m.epoch = e
  BY MailStep DEF QuietMove
<1>2. LedgerOK(c)' /\ HandedOver(c)' \subseteq HandedOver(c)
  <2>1. LedgerOK(c)' /\ HandedOver(c)' \subseteq HandedOver(c) \cup {}
    BY LedgerStep DEF QuietMove
  <2>2. QED
    BY <2>1
<1>3. TypeOK'
  BY DEF Inv
<1>4. Membership(c)' /\ WelcomesOK(c)' /\ IdsOK(c)' /\ HandedOK(c)'
  BY <1>1, <1>2, <1>3, QuietClient DEF QuietMove
<1>5. Parts(c)'
  BY <1>2, <1>4 DEF Parts
<1>6. QED
  BY <1>5, AppStep DEF QuietMove

\* A step that decrypts an application message.
LEMMA DecryptingStep ==
  ASSUME AppInv, Inv', NEW c \in Client, UNCHANGED <<log, rosters>>,
         \A d \in Client \ {c} :
           /\ mem'[d] = mem[d] /\ disk'[d] = disk[d] /\ buf'[d] = buf[d]
           /\ call'[d] = call[d] /\ got'[d] = got[d],
         count'.app = count.app, net' \subseteq net, CommitsValid',
         NEW m \in AppsTo(c), ParseMessage(mem[c], m) = "Ok",
         Moves(c, rosters, mem[c], mem'[c]), mem'[c] = disk'[c], m.id \in mem'[c].used,
         \A row \in buf'[c] \cup call'[c].todo : row.msg \in Incoming(c),
         NEW B, B \subseteq call[c].apps \cup {m.id},
         call'[c].apps \subseteq (call[c].apps \cup {m.id}) \ B,
         \A i \in App : got'[c][i] = IF i \in B THEN got[c][i] + 1 ELSE got[c][i]
  PROVE  AppInv'
<1>1. /\ TypeOK' /\ TypeOK /\ IdsOK(c) /\ count.app <= MaxApps
      /\ count.app \in Nat /\ Len(log) \in Nat
  BY DEF AppInv, Inv, TypeOK, Counters
<1>2. \A packet \in net' : packet \in net \/ NewMail(packet.msg, 0, count.app, count'.app)
  OBVIOUS
<1>3. WelcomesTo(c)' \subseteq WelcomesTo(c) /\ AppsTo(c)' \subseteq AppsTo(c)
  <2>1. Incoming(c)' \subseteq Incoming(c)
    BY DEF Incoming
  <2>2. QED
    BY <2>1 DEF WelcomesTo, AppsTo
<1>4. m.id \in App /\ m.id <= count.app /\ m.id \notin HandedOver(c)
  <2>1. m.id \in 1..count.app
    BY <1>1 DEF IdsOK
  <2>2. QED
    BY <1>1, <2>1, NotHandedOver, ConversationAssumption DEF App
<1>5. LedgerOK(c)' /\ HandedOver(c)' \subseteq HandedOver(c) \cup {m.id}
  <2> DEFINE A == {m.id}
  <2>1. /\ \A i \in A : i \in App /\ i <= count.app /\ i \notin HandedOver(c)
        /\ B \subseteq call[c].apps \cup A
        /\ call'[c].apps \subseteq (call[c].apps \cup A) \ B
    BY <1>4
  <2> HIDE DEF A
  <2>2. LedgerOK(c)' /\ HandedOver(c)' \subseteq HandedOver(c) \cup A
    BY <2>1, LedgerStep
  <2>3. QED
    BY <2>2 DEF A
<1>6. Membership(c)' /\ WelcomesOK(c)' /\ IdsOK(c)' /\ HandedOK(c)'
  BY <1>1, <1>3, <1>5, DecryptingClient
<1>7. Parts(c)'
  BY <1>5, <1>6 DEF Parts
<1>8. 0 <= Len(log)
  BY <1>1
<1>9. QED
  BY <1>1, <1>2, <1>7, <1>8, AppStep

\* A step that neither sends nor returns application messages.
LEMMA PlainStep ==
  ASSUME AppInv, Inv', NEW c \in Client, UNCHANGED <<log, rosters, got>>,
         \A d \in Client \ {c} :
           /\ mem'[d] = mem[d] /\ disk'[d] = disk[d] /\ buf'[d] = buf[d]
           /\ call'[d] = call[d],
         count'.app = count.app,
         \A packet \in net' : packet \in net \/ packet.msg.kind \notin {"welcome", "app"},
         CommitsValid',
         Moves(c, rosters, mem[c], mem'[c]) \/ Moves(c, rosters, disk[c], mem'[c]),
         Moves(c, rosters, mem[c], disk'[c]) \/ Moves(c, rosters, disk[c], disk'[c]),
         \A row \in buf'[c] \cup call'[c].todo :
           row.msg \in Incoming(c) \/ row.msg.kind \notin {"welcome", "app"},
         call'[c].apps \subseteq call[c].apps
  PROVE  AppInv'
<1>1. count.app \in Nat /\ count.app <= MaxApps /\ Len(log) \in Nat
  BY DEF AppInv, Inv, TypeOK, Counters
<1>2. \A packet \in net' : packet \in net \/ NewMail(packet.msg, 0, count.app, count'.app)
  BY DEF NewMail
<1> DEFINE E == {}
<1>3. /\ E \subseteq call[c].apps /\ call'[c].apps \subseteq call[c].apps \ E
      /\ \A i \in App : got'[c][i] = IF i \in E THEN got[c][i] + 1 ELSE got[c][i]
  OBVIOUS
<1> HIDE DEF E
<1>4. 0 <= Len(log) /\ count'.app \in {count.app, count.app + 1} /\ count'.app <= MaxApps
  BY <1>1
<1>5. \A d \in Client \ {c} :
        /\ mem'[d] = mem[d] /\ disk'[d] = disk[d] /\ buf'[d] = buf[d]
        /\ call'[d] = call[d] /\ got'[d] = got[d]
  OBVIOUS
<1>6. QuietMove(c, 0, E)
  BY <1>2, <1>3, <1>4, <1>5 DEF QuietMove
<1>7. QED
  BY <1>6, QuietStep

\* Without a new commit or a new epoch, the created commits stay valid.
LEMMA CommitsKept ==
  ASSUME AppInv, UNCHANGED <<log, rosters, created>>
  PROVE  CommitsValid'
BY DEF AppInv, CommitsValid

\* What is in the buffer or being replayed is on its way.
LEMMA RowsIncoming ==
  ASSUME NEW c
  PROVE  \A row \in buf[c] \cup call[c].todo : row.msg \in Incoming(c)
BY DEF Incoming

\* Creating a commit: it adds nobody who is in the group.
LEMMA CreateCommitApp ==
  ASSUME AppInv, Inv', NEW c \in Client, NEW inline \in SUBSET Proposal,
         CreateCommit(c, inline), count'.app = count.app
  PROVE  AppInv'
<1>1. PICK t \in Tag :
        LET cm == [kind |-> "commit", epoch |-> mem[c].epoch, sender |-> c,
                   refs |-> CommittedRefs(c, mem[c]), inline |-> inline, tag |-> t]
        IN  /\ CommitIsValid(c, mem[c], cm)
            /\ Persist(c, [mem[c] EXCEPT !.pc = cm])
            /\ created' = created \cup {cm}
  BY DEF CreateCommit
<1> DEFINE cm == [kind |-> "commit", epoch |-> mem[c].epoch, sender |-> c,
                  refs |-> CommittedRefs(c, mem[c]), inline |-> inline, tag |-> t]
           g == [mem[c] EXCEPT !.pc = cm]
<1>2. /\ CommitIsValid(c, mem[c], cm) /\ Persist(c, g) /\ created' = created \cup {cm}
      /\ cm.epoch = mem[c].epoch
  BY <1>1
<1>3. /\ UNCHANGED <<buf, call, got, log, rosters, net>>
      /\ mem[c].status = "operational"
  BY DEF CreateCommit, Ready
<1>4. TypeOK /\ Inv /\ mem[c] \in Group /\ CommitsValid /\ mem[c].epoch <= Len(log)
  BY <1>3, EpochBounds DEF AppInv, Inv
<1> HIDE DEF cm
<1>5. CommitsValid'
  <2>1. Added(cm) \cap mem[c].members = {}
    BY <1>2 DEF CommitIsValid
  <2>2. mem[c].members = rosters[mem[c].epoch + 1]
    BY <1>3, <1>4, ClientFacts DEF GroupOK
  <2>3. QED
    BY <1>2, <1>3, <1>4, <2>1, <2>2 DEF CommitsValid
<1>6. /\ g.status = mem[c].status /\ g.epoch = mem[c].epoch /\ g.since = mem[c].since
      /\ g.used = mem[c].used
  BY <1>4 DEF Group
<1> HIDE DEF g
<1>7. /\ mem'[c] = g /\ disk'[c] = g
      /\ \A d \in Client \ {c} : mem'[d] = mem[d] /\ disk'[d] = disk[d]
  BY <1>2, <1>4 DEF TypeOK, Persist
<1>8. g \in Group
  BY <1>7 DEF Inv, TypeOK
<1>9. Moves(c, rosters, mem[c], g)
  BY <1>4, <1>6, <1>8, MovesLocally
<1>10. QED
  BY <1>3, <1>5, <1>7, <1>9, RowsIncoming, PlainStep

\* Creating messages keeps it.
LEMMA CreateApp ==
  ASSUME AppInv, NEW c \in Client, Create(c)
  PROVE  AppInv'
<1>1. Inv'
  BY CreateInv DEF AppInv
<1>2. /\ TypeOK /\ mem[c] \in Group /\ disk[c] \in Group /\ count \in Counters
      /\ count.app \in Nat /\ count.prop + 1 \in Nat /\ Len(log) \in Nat
  <2>1. TypeOK /\ mem[c] \in Group /\ disk[c] \in Group /\ count \in Counters /\ Len(log) \in Nat
    BY DEF AppInv, Inv, TypeOK
  <2>2. count.prop \in Nat /\ count.app \in Nat
    BY <2>1, CountType
  <2>3. QED
    BY <2>1, <2>2
<1>3. Moves(c, rosters, mem[c], mem[c]) /\ Moves(c, rosters, disk[c], disk[c])
  BY <1>2, MovesLocally
<1>4. CASE EncryptMessage(c)
  <2> DEFINE id == count.app + 1
             m == [kind |-> "app", epoch |-> mem[c].epoch, sender |-> c, id |-> id]
             g == [mem[c] EXCEPT !.used = @ \cup {id}]
             e == mem[c].epoch
             E == {}
  <2>1. /\ Persist(c, g) /\ net' = net \cup FanOut(m, Roster \ {c})
        /\ count' = [count EXCEPT !.app = id] /\ count.app < MaxApps
        /\ UNCHANGED <<buf, call, got, log, rosters, created>>
        /\ mem[c].status = "operational"
    BY <1>4 DEF EncryptMessage, Ready
  <2>2. count'.app = id /\ id \in {count.app, count.app + 1}
    BY <1>2, <2>1 DEF Counters
  <2>3. id <= MaxApps
    BY <1>2, <2>1, ConversationAssumption
  <2>4. e <= Len(log)
    BY <2>1, EpochBounds
  <2>5. \A packet \in FanOut(m, Roster \ {c}) : packet.msg = m
    BY DEF FanOut
  <2>6. NewMail(m, e, count.app, count'.app)
    BY <2>2 DEF NewMail
  <2> HIDE DEF m
  <2>7. \A packet \in net' : packet \in net \/ NewMail(packet.msg, e, count.app, count'.app)
    BY <2>1, <2>5, <2>6
  <2>8. /\ g.status = mem[c].status /\ g.epoch = mem[c].epoch /\ g.since = mem[c].since
        /\ mem[c].used \subseteq g.used
    BY <1>2 DEF Group
  <2> HIDE DEF g, id, e
  <2>9. /\ mem'[c] = g /\ disk'[c] = g
        /\ \A d \in Client \ {c} : mem'[d] = mem[d] /\ disk'[d] = disk[d]
    BY <1>2, <2>1 DEF TypeOK, Persist
  <2>10. g \in Group
    BY <1>1, <2>9 DEF Inv, TypeOK
  <2>11. Moves(c, rosters, mem[c], g)
    BY <1>2, <2>8, <2>10, MovesLocally
  <2>12. /\ E \subseteq call[c].apps /\ call'[c].apps \subseteq call[c].apps \ E
         /\ \A i \in App : got'[c][i] = IF i \in E THEN got[c][i] + 1 ELSE got[c][i]
    BY <2>1
  <2>13. CommitsValid'
    BY <2>1, CommitsKept
  <2> HIDE DEF E
  <2>14. \A d \in Client \ {c} :
           /\ mem'[d] = mem[d] /\ disk'[d] = disk[d] /\ buf'[d] = buf[d]
           /\ call'[d] = call[d] /\ got'[d] = got[d]
    BY <2>1, <2>9
  <2>15. \A row \in buf'[c] \cup call'[c].todo : row.msg \in Incoming(c)
    BY <2>1, RowsIncoming
  <2>16. QuietMove(c, e, E)
    BY <2>1, <2>2, <2>3, <2>4, <2>7, <2>9, <2>11, <2>12, <2>14, <2>15 DEF QuietMove
  <2>17. QED
    BY <1>1, <2>13, <2>16, QuietStep
<1>5. ASSUME NEW kind \in {"add", "remove", "update"}, NEW x \in Client,
             NewProposal(c, kind, x)
      PROVE  AppInv'
  <2> DEFINE p == [kind |-> kind, sender |-> c, who |-> x, at |-> Carried(kind, mem[c].epoch)]
             g == [mem[c] EXCEPT !.props = @ \cup {p}]
  <2>1. /\ Persist(c, g) /\ UNCHANGED <<buf, call, got, log, rosters, net, created>>
        /\ count' = [count EXCEPT !.prop = @ + 1]
    BY <1>5 DEF NewProposal, dsVars
  <2>2. /\ g.status = mem[c].status /\ g.epoch = mem[c].epoch /\ g.since = mem[c].since
        /\ g.used = mem[c].used
    BY <1>2 DEF Group
  <2> HIDE DEF g
  <2>3. mem'[c] = g /\ disk'[c] = g /\ \A d \in Client \ {c} : mem'[d] = mem[d] /\ disk'[d] = disk[d]
    BY <1>2, <2>1 DEF TypeOK, Persist
  <2>4. g \in Group
    BY <1>1, <2>3 DEF Inv, TypeOK
  <2>5. Moves(c, rosters, mem[c], g) /\ count'.app = count.app
    BY <1>2, <2>1, <2>2, <2>4, MovesLocally DEF Counters
  <2>6. QED
    BY <1>1, <2>1, <2>3, <2>5, CommitsKept, RowsIncoming, PlainStep
<1>6. CASE NewExternalAddProposal(c)
  <2> DEFINE p == [kind |-> "add", sender |-> External, who |-> c, at |-> count.prop + 1]
             m == [kind |-> "proposal", epoch |-> DsEpoch, prop |-> p]
  <2>1. /\ net' = net \cup FanOut(m, Roster) /\ count' = [count EXCEPT !.prop = @ + 1]
        /\ UNCHANGED <<mem, disk, buf, call, got, log, rosters, created>>
    BY <1>6 DEF NewExternalAddProposal, clientVars
  <2>2. \A packet \in FanOut(m, Roster) : packet.msg.kind = "proposal"
    BY DEF FanOut
  <2> HIDE DEF m
  <2>3. count'.app = count.app
    BY <1>2, <2>1 DEF Counters
  <2>4. QED
    BY <1>1, <1>3, <2>1, <2>2, <2>3, CommitsKept, RowsIncoming, PlainStep
<1>7. ASSUME NEW x \in Client, AddMembers(c, x)
      PROVE  AppInv'
  <2> DEFINE p == [kind |-> "add", sender |-> c, who |-> x, at |-> count.prop + 1]
  <2>1. {p} \in SUBSET Proposal
    BY <1>2 DEF Proposal
  <2>2. CreateCommit(c, {p}) /\ count' = [count EXCEPT !.prop = @ + 1]
    BY <1>7 DEF AddMembers
  <2>3. count'.app = count.app
    BY <1>2, <2>2 DEF Counters
  <2>4. QED
    BY <1>1, <2>1, <2>2, <2>3, CreateCommitApp
<1>8. ASSUME NEW x \in Client, RemoveMembers(c, x)
      PROVE  AppInv'
  <2> DEFINE p == [kind |-> "remove", sender |-> c, who |-> x, at |-> 0]
  <2>1. {p} \in SUBSET Proposal
    BY DEF Proposal
  <2>2. QED
    BY <1>1, <1>8, <2>1, CreateCommitApp DEF RemoveMembers
<1>9. CASE UpdateKeyingMaterial(c) \/ CommitPendingProposals(c)
  BY <1>1, <1>9, CreateCommitApp DEF UpdateKeyingMaterial, CommitPendingProposals
<1>10. QED
  BY <1>4, <1>5, <1>6, <1>7, <1>8, <1>9 DEF Create

\* Posting a commit: an epoch is added to the history, and a Welcome to it is
\* sent to clients who are not members before.
LEMMA PostCommitApp ==
  ASSUME AppInv, NEW c \in Client, PostCommit(c)
  PROVE  AppInv'
<1> DEFINE cm == mem[c].pc
           next == MembersAfter(Roster, cm)
           w == [kind |-> "welcome", epoch |-> cm.epoch + 1, tag |-> cm.tag, members |-> next]
           n == Len(log)
<1>1. /\ cm # NoCommit /\ cm.epoch = n
      /\ log' = Append(log, cm) /\ rosters' = Append(rosters, next)
      /\ net' = net \cup CommitFanOut(cm)
      /\ UNCHANGED <<mem, disk, buf, call, got, created, count>>
  BY DEF PostCommit, DsEpoch
<1>2. Inv' /\ Inv /\ TypeOK /\ CommitsValid
  BY CommitInv DEF AppInv, Inv
<1>3. /\ mem[c] \in Group /\ log \in Seq(Commit) /\ rosters \in Seq(SUBSET Client)
      /\ HistoryOK(log, rosters, created)
  BY <1>2 DEF Inv, TypeOK
<1>4. cm \in Commit /\ cm \in created
  BY <1>1, <1>2, <1>3, ClientFacts DEF Group, GroupOK
<1>5. /\ Len(rosters) = n + 1 /\ n \in Nat /\ Len(log') = n + 1
      /\ rosters'[n + 2] = next
      /\ \A x \in 1..(n + 1) : rosters'[x] = rosters[x]
      /\ Roster = rosters[n + 1]
  <2>1. Len(rosters) = n + 1 /\ n \in Nat
    BY <1>3 DEF HistoryOK
  <2>2. QED
    BY <1>1, <1>3, <2>1 DEF Roster
<1>6. \A x \in Nat : x <= n => rosters'[x + 1] = rosters[x + 1]
  BY <1>5
<1>7. \A packet \in CommitFanOut(cm) :
        \/ packet.msg = cm
        \/ packet.msg = w /\ packet.to \in Added(cm)
  BY DEF CommitFanOut, FanOut
<1>8. cm.kind = "commit" /\ w.epoch = n + 1 /\ w.kind = "welcome"
  BY <1>1, <1>4 DEF Commit
<1>9. CommitsValid'
  <2>1. \A k \in created : k.epoch \in Nat
    BY <1>2 DEF TypeOK, Commit
  <2>2. QED
    BY <1>1, <1>2, <1>5, <1>6, <2>1 DEF CommitsValid
<1> HIDE DEF cm, w, n, next
<1>10. ASSUME NEW d \in Client
       PROVE  Parts(d)'
  <2>1. /\ Membership(d) /\ WelcomesOK(d) /\ IdsOK(d) /\ LedgerOK(d) /\ HandedOK(d)
        /\ mem[d] \in Group /\ disk[d] \in Group
        /\ mem[d].status = "operational" => mem[d].epoch <= n
        /\ disk[d].status = "operational" => disk[d].epoch <= n
        /\ \A v \in WelcomesTo(d) : v.epoch \in 1..n
    BY EpochBounds DEF AppInv, n
  <2>2. \A g \in Group : g.epoch \in Nat /\ g.since \in Nat
    BY DEF Group
  <2>3. \A k \in Incoming(d)' : k \in Incoming(d) \/ k = cm \/ (k = w /\ d \in Added(cm))
    BY <1>1, <1>7 DEF Incoming
  <2>4. AppsTo(d)' \subseteq AppsTo(d)
    BY <1>8, <2>3 DEF AppsTo
  <2>5. \A v \in WelcomesTo(d)' : v \in WelcomesTo(d) \/ (v = w /\ d \in Added(cm))
    BY <1>8, <2>3 DEF WelcomesTo
  <2>6. \A k \in AppsTo(d) : k.epoch \in Nat /\ k.epoch <= n
    BY <1>2, <2>1, IncomingType DEF IdsOK, n
  <2>7. Membership(d)'
    <3>1. ASSUME NEW g \in Group, g.status = "operational" => g.epoch <= n, Stays(d, rosters, g)
          PROVE  Stays(d, rosters', g)
      <4>1. g.epoch \in Nat /\ g.since \in Nat
        BY <2>2
      <4>2. g.status = "operational" /\ g.since > 0 => rosters'[g.since] = rosters[g.since]
        BY <1>5, <3>1, <4>1 DEF Stays
      <4>3. \A y \in g.since..g.epoch :
              g.status = "operational" => rosters'[y + 1] = rosters[y + 1]
        BY <1>5, <1>6, <3>1, <4>1
      <4>4. QED
        BY <3>1, <4>2, <4>3 DEF Stays
    <3>2. Stays(d, rosters', mem[d]) /\ Stays(d, rosters', disk[d])
      BY <2>1, <3>1 DEF Membership
    <3>3. QED
      BY <1>1, <3>2 DEF Membership
  <2>8. WelcomesOK(d)'
    <3>1. ASSUME NEW v \in WelcomesTo(d)
          PROVE  /\ d \in rosters'[v.epoch + 1] /\ d \notin rosters'[v.epoch]
                 /\ Unused(v, mem[d]) /\ Unused(v, disk[d])
      <4>1. v.epoch \in 1..n
        BY <2>1
      <4>2. rosters'[v.epoch + 1] = rosters[v.epoch + 1] /\ rosters'[v.epoch] = rosters[v.epoch]
        BY <1>5, <1>6, <4>1
      <4>3. QED
        BY <2>1, <4>2 DEF WelcomesOK
    <3>2. ASSUME d \in Added(cm)
          PROVE  /\ d \in rosters'[w.epoch + 1] /\ d \notin rosters'[w.epoch]
                 /\ Unused(w, mem[d]) /\ Unused(w, disk[d])
      <4>1. d \in next
        BY <3>2 DEF next, MembersAfter
      <4>2. (n + 1) + 1 = n + 2 /\ n + 1 \in 1..(n + 1)
        BY <1>5
      <4>3. d \in rosters'[w.epoch + 1]
        BY <1>5, <1>8, <4>1, <4>2
      <4>4. d \notin rosters[n + 1]
        BY <1>1, <1>2, <1>4, <3>2 DEF CommitsValid
      <4>5. d \notin rosters'[w.epoch]
        BY <1>5, <1>8, <4>2, <4>4
      <4>6. ASSUME NEW g \in Group, g.status = "operational" => g.epoch <= n, Stays(d, rosters, g)
            PROVE  Unused(w, g)
        BY <1>5, <1>8, <2>2, <4>6 DEF Unused, Stays
      <4>7. Unused(w, mem[d]) /\ Unused(w, disk[d])
        BY <2>1, <4>6 DEF Membership
      <4>8. QED
        BY <4>3, <4>5, <4>7
    <3>3. QED
      BY <1>1, <2>5, <3>1, <3>2 DEF WelcomesOK
  <2>9. IdsOK(d)'
    <3>1. \A k \in AppsTo(d) : k.epoch <= n + 1
      BY <1>5, <2>6
    <3>2. QED
      BY <1>1, <1>5, <2>1, <2>4, <3>1 DEF IdsOK
  <2>10. LedgerOK(d)' /\ HandedOver(d)' = HandedOver(d)
    BY <1>1, <2>1 DEF LedgerOK, HandedOver
  <2>11. HandedOK(d)'
    <3>1. ASSUME NEW k \in AppsTo(d), NEW f \in Nat, Out(d, rosters, f, k.epoch)
          PROVE  Out(d, rosters', f, k.epoch)
      <4>1. PICK x \in (f + 1)..k.epoch : d \notin rosters[x + 1]
        BY <3>1 DEF Out
      <4>2. x \in Nat /\ x <= n
        BY <1>5, <2>6, <4>1
      <4>3. QED
        BY <1>6, <4>1, <4>2 DEF Out
    <3>2. ASSUME NEW k \in AppsTo(d), k.id \in HandedOver(d)
          PROVE  /\ ClosedGroup(d, rosters', mem[d], k) /\ ClosedGroup(d, rosters', disk[d], k)
                 /\ \A v \in WelcomesTo(d) : ClosedWelcome(d, rosters', v, k)
                 /\ ClosedWelcome(d, rosters', w, k)
      <4>1. ClosedGroup(d, rosters', mem[d], k) /\ ClosedGroup(d, rosters', disk[d], k)
        BY <2>1, <2>2, <3>1, <3>2 DEF HandedOK, ClosedGroup
      <4>2. \A v \in WelcomesTo(d) : v.epoch \in Nat
        BY <2>1
      <4>3. \A v \in WelcomesTo(d) : ClosedWelcome(d, rosters', v, k)
        BY <2>1, <3>1, <3>2, <4>2 DEF HandedOK, ClosedWelcome
      <4>4. ClosedWelcome(d, rosters', w, k)
        BY <1>5, <1>8, <2>6 DEF ClosedWelcome
      <4>5. QED
        BY <4>1, <4>3, <4>4
    <3>3. QED
      BY <1>1, <2>4, <2>5, <2>10, <3>2 DEF HandedOK
  <2>12. QED
    BY <2>7, <2>8, <2>9, <2>10, <2>11 DEF Parts
<1>11. count'.app <= MaxApps
  BY <1>1 DEF AppInv
<1>12. QED
  BY <1>2, <1>9, <1>10, <1>11 DEF AppInv, Parts

\* Sending and clearing proposals, posting, merging and clearing a commit keep
\* it.
LEMMA CommitApp ==
  ASSUME AppInv, NEW c \in Client,
         \/ SendProposal(c) \/ ClearPendingProposal(c)
         \/ PostCommit(c) \/ CommitAccepted(c) \/ ClearPendingCommit(c)
  PROVE  AppInv'
<1>1. Inv' /\ Inv
  BY CommitInv DEF AppInv
<1>2. TypeOK /\ mem[c] \in Group /\ disk[c] \in Group
  BY <1>1 DEF Inv, TypeOK
<1>3. Moves(c, rosters, mem[c], mem[c]) /\ Moves(c, rosters, disk[c], disk[c])
  BY <1>2, MovesLocally
<1>4. CASE SendProposal(c)
  <2>1. PICK m \in outbox[c] : net' = net \cup FanOut(m, Roster \ {c})
    BY <1>4 DEF SendProposal
  <2>2. m.kind = "proposal"
    BY <1>2 DEF TypeOK, ProposalMsg
  <2>3. \A packet \in FanOut(m, Roster \ {c}) : packet.msg.kind = "proposal"
    BY <2>2 DEF FanOut
  <2>4. UNCHANGED <<mem, disk, buf, call, got, log, rosters, created, count>>
    BY <1>4 DEF SendProposal
  <2>5. QED
    BY <1>1, <1>3, <2>1, <2>3, <2>4, CommitsKept, RowsIncoming, PlainStep
<1>5. ASSUME UNCHANGED <<buf, call, got, log, rosters, net, created, count>>,
             NEW g, Persist(c, g), g.status = mem[c].status, g.epoch = mem[c].epoch,
             g.since = mem[c].since, g.used = mem[c].used
      PROVE  AppInv'
  <2>1. /\ mem'[c] = g /\ disk'[c] = g
        /\ \A d \in Client \ {c} : mem'[d] = mem[d] /\ disk'[d] = disk[d]
    BY <1>2, <1>5 DEF TypeOK, Persist
  <2>2. g \in Group
    BY <1>1, <2>1 DEF Inv, TypeOK
  <2>3. Moves(c, rosters, mem[c], g)
    BY <1>2, <1>5, <2>2, MovesLocally
  <2>4. QED
    BY <1>1, <1>5, <2>1, <2>3, CommitsKept, RowsIncoming, PlainStep
<1>6. CASE ClearPendingProposal(c)
  <2>1. /\ UNCHANGED <<buf, call, got, log, rosters, net, created, count>>
        /\ \/ \E p : Persist(c, [mem[c] EXCEPT !.props = @ \ {p}])
           \/ UNCHANGED <<mem, disk>>
    BY <1>6 DEF ClearPendingProposal, dsVars
  <2>2. CASE UNCHANGED <<mem, disk>>
    BY <1>1, <1>3, <2>1, <2>2, CommitsKept, RowsIncoming, PlainStep
  <2>3. ASSUME NEW p, Persist(c, [mem[c] EXCEPT !.props = @ \ {p}])
        PROVE  AppInv'
    <3> DEFINE g == [mem[c] EXCEPT !.props = @ \ {p}]
    <3>1. /\ g.status = mem[c].status /\ g.epoch = mem[c].epoch /\ g.since = mem[c].since
          /\ g.used = mem[c].used /\ Persist(c, g)
      BY <1>2, <2>3 DEF Group
    <3> HIDE DEF g
    <3>2. QED
      BY <1>5, <2>1, <3>1
  <2>4. QED
    BY <2>1, <2>2, <2>3
<1>7. CASE CommitAccepted(c)
  <2>1. /\ UNCHANGED <<buf, net, got, log, rosters, created, count>>
        /\ call[c] = Idle /\ post[c] = "ok"
    BY <1>7 DEF CommitAccepted, dsVars
  <2>2. CASE mem[c].status = "operational" /\ mem[c].pc # NoCommit
    <3> DEFINE g == Merge(c, mem[c], mem[c].pc)
               k == [Idle EXCEPT !.op = "accepted", !.todo = buf[c]]
    <3>1. Persist(c, g) /\ call' = [call EXCEPT ![c] = k]
      BY <1>7, <2>2 DEF CommitAccepted
    <3>2. mem[c].pc.epoch < Len(log) /\ log[mem[c].pc.epoch + 1] = mem[c].pc
      BY <1>1, <2>1, <2>2 DEF Inv, PostedIsAccepted, Accepted
    <3>3. mem[c].pc \in Commit /\ mem[c].pc.epoch = mem[c].epoch
      BY <1>1, <1>2, <2>2, ClientFacts DEF Group, GroupOK
    <3>4. Moves(c, rosters, mem[c], g)
      <4>1. /\ log \in Seq(Commit) /\ HistoryOK(log, rosters, created)
            /\ GroupOK(mem[c], log, rosters, created) /\ Stays(c, rosters, mem[c])
        BY <1>1, ClientFacts DEF Inv, TypeOK, AppInv, Membership
      <4>2. QED
        BY <1>2, <2>2, <3>2, <3>3, <4>1, MergeMoves
    <3>5. k.todo = buf[c] /\ k.apps = {}
      BY DEF Idle
    <3> HIDE DEF g, k
    <3>6. /\ mem'[c] = g /\ disk'[c] = g /\ call'[c] = k
          /\ \A d \in Client \ {c} : mem'[d] = mem[d] /\ disk'[d] = disk[d] /\ call'[d] = call[d]
      BY <1>2, <3>1 DEF TypeOK, Persist
    <3>7. \A row \in buf'[c] \cup call'[c].todo : row.msg \in Incoming(c)
      BY <2>1, <3>5, <3>6, RowsIncoming
    <3>8. call'[c].apps \subseteq call[c].apps
      BY <3>5, <3>6
    <3>9. QED
      BY <1>1, <2>1, <3>4, <3>6, <3>7, <3>8, CommitsKept, PlainStep
  <2>3. CASE ~(mem[c].status = "operational" /\ mem[c].pc # NoCommit)
    <3>1. UNCHANGED <<mem, disk, call>>
      BY <1>7, <2>3 DEF CommitAccepted
    <3>2. QED
      BY <1>1, <1>3, <2>1, <3>1, CommitsKept, RowsIncoming, PlainStep
  <2>4. QED
    BY <2>2, <2>3
<1>8. CASE ClearPendingCommit(c)
  <2> DEFINE g == [mem[c] EXCEPT !.pc = NoCommit]
  <2>1. /\ Persist(c, g) /\ UNCHANGED <<buf, call, got, log, rosters, net, created, count>>
    BY <1>8 DEF ClearPendingCommit, dsVars
  <2>2. /\ g.status = mem[c].status /\ g.epoch = mem[c].epoch /\ g.since = mem[c].since
        /\ g.used = mem[c].used
    BY <1>2 DEF Group
  <2> HIDE DEF g
  <2>3. QED
    BY <1>5, <2>1, <2>2
<1>9. QED
  BY <1>4, <1>6, <1>7, <1>8, PostCommitApp

\* What Return does to the ledger.
LEMMA ReturnLedger ==
  ASSUME TypeOK, NEW c \in Client, NEW apps, NEW props, Return(c, apps, props)
  PROVE  /\ \A d \in Client \ {c} : got'[d] = got[d]
         /\ \A i \in App : got'[c][i] = IF i \in apps THEN got[c][i] + 1 ELSE got[c][i]
BY DEF TypeOK, Return

\* OutcomeMoves in a state of the invariant.
LEMMA OutcomeApp ==
  ASSUME AppInv, NEW c \in Client, NEW m \in Message, MessageOK(m, log, rosters),
         NEW o \in DecryptOutcomes(c, mem[c], m)
  PROVE  /\ Moves(c, rosters, mem[c], o.g)
         /\ \/ o.apps = {}
            \/ /\ m.kind = "app" /\ ParseMessage(mem[c], m) = "Ok"
               /\ o.apps = {m.id} /\ m.id \in o.g.used
<1>1. /\ mem[c] \in Group /\ log \in Seq(Commit) /\ created \in SUBSET Commit
      /\ HistoryOK(log, rosters, created) /\ TagsUnique(created)
      /\ GroupOK(mem[c], log, rosters, created) /\ Stays(c, rosters, mem[c])
  BY DEF AppInv, Inv, TypeOK, GroupsAgree, Membership
<1>2. QED
  BY <1>1, OutcomeMoves

\* decrypt_message and process_welcome_message keep it.
LEMMA DecryptApp ==
  ASSUME AppInv, NEW c \in Client, Decrypt(c)
  PROVE  AppInv'
<1>1. Inv' /\ Inv /\ TypeOK'
  BY DecryptInv DEF AppInv, Inv
<1>2. /\ TypeOK /\ mem[c] \in Group /\ disk[c] \in Group
      /\ count.app \in Nat /\ count.app <= MaxApps /\ Len(log) \in Nat
  BY <1>1 DEF AppInv, Inv, TypeOK, Counters
<1>3. PICK packet \in net :
        /\ packet.to = c
        /\ \/ DecryptSimple(c, packet.msg)
           \/ DecryptCommit(c, packet.msg)
           \/ DecryptFuture(c, packet.msg)
           \/ DecryptRejected(c, packet.msg)
           \/ DecryptNoGroup(c, packet.msg)
           \/ ProcessWelcome(c, packet.msg)
  BY DEF Decrypt
<1> DEFINE m == packet.msg
<1>4. MessageOK(m, log, rosters) /\ m \in Incoming(c)
  BY <1>1, <1>3 DEF Inv, DeliveredIsAccepted, Incoming
<1>5. Deliver(c, m) \/ ProcessWelcome(c, m)
  BY <1>3 DEF DecryptSimple, DecryptCommit, DecryptFuture, DecryptRejected,
              DecryptNoGroup, Receives
<1>6. /\ net' \subseteq net /\ count'.app = count.app
      /\ m.kind # "welcome" => m \in Message
      /\ m \in Message \cup Welcome
  BY <1>2, <1>5, DeliverType
<1>7. UNCHANGED <<log, rosters, created>>
  BY <1>3 DEF DecryptSimple, DecryptCommit, DecryptFuture, DecryptRejected,
              DecryptNoGroup, ProcessWelcome, clientVars
<1>8. CommitsValid'
  BY <1>7, CommitsKept
<1>9. \A q \in net' : q \in net \/ q.msg.kind \notin {"welcome", "app"}
  BY <1>6
<1>10. Moves(c, rosters, mem[c], mem[c]) /\ Moves(c, rosters, disk[c], disk[c])
  BY <1>2, MovesLocally
<1> HIDE DEF m
<1>11. CASE DecryptSimple(c, m)
  <2>1. m \in Message /\ call[c] = Idle
    BY <1>6, <1>11 DEF DecryptSimple, IsSelfCommit, Receives
  <2>2. PICK o \in DecryptOutcomes(c, mem[c], m) :
          Persist(c, o.g) /\ Return(c, o.apps, o.props)
    BY <1>11 DEF DecryptSimple
  <2>3. UNCHANGED <<buf, call>>
    BY <1>11 DEF DecryptSimple
  <2>4. /\ mem'[c] = o.g /\ disk'[c] = o.g
        /\ \A d \in Client \ {c} : mem'[d] = mem[d] /\ disk'[d] = disk[d]
    BY <1>2, <2>2 DEF TypeOK, Persist
  <2>5. /\ Moves(c, rosters, mem[c], o.g)
        /\ \/ o.apps = {}
           \/ /\ m.kind = "app" /\ ParseMessage(mem[c], m) = "Ok"
              /\ o.apps = {m.id} /\ m.id \in o.g.used
    BY <1>4, <2>1, OutcomeApp
  <2>6. /\ \A d \in Client \ {c} : got'[d] = got[d]
        /\ \A i \in App : got'[c][i] = IF i \in o.apps THEN got[c][i] + 1 ELSE got[c][i]
    BY <1>2, <2>2, ReturnLedger
  <2>7. /\ \A row \in buf'[c] \cup call'[c].todo : row.msg \in Incoming(c)
        /\ call'[c].apps = {} /\ call[c].apps = {}
    BY <2>1, <2>3, RowsIncoming DEF Idle
  <2>8. \A d \in Client \ {c} :
          /\ mem'[d] = mem[d] /\ disk'[d] = disk[d] /\ buf'[d] = buf[d]
          /\ call'[d] = call[d] /\ got'[d] = got[d]
    BY <2>3, <2>4, <2>6
  <2>m. /\ Moves(c, rosters, mem[c], mem'[c]) /\ Moves(c, rosters, mem[c], disk'[c])
        /\ mem'[c] = disk'[c]
    BY <2>4, <2>5
  <2>n. \A row \in buf'[c] \cup call'[c].todo : row.msg \in Incoming(c)
    BY <2>7
  <2> DEFINE B == o.apps
  <2>9. CASE B = {}
    <3>1. B \subseteq call[c].apps /\ call'[c].apps \subseteq call[c].apps \ B
      BY <2>7, <2>9
    <3>2. \A i \in App : got'[c][i] = IF i \in B THEN got[c][i] + 1 ELSE got[c][i]
      BY <2>6
    <3>3. \A q \in net' : q \in net \/ NewMail(q.msg, 0, count.app, count'.app)
      BY <1>6
    <3>4. 0 <= Len(log) /\ count'.app \in {count.app, count.app + 1} /\ count'.app <= MaxApps
      BY <1>2, <1>6
    <3> HIDE DEF B
    <3>5. QuietMove(c, 0, B)
      BY <1>7, <2>8, <2>m, <2>n, <3>1, <3>2, <3>3, <3>4 DEF QuietMove
    <3>6. QED
      BY <1>1, <1>8, <3>5, QuietStep
  <2>10. CASE B # {}
    <3>1. m \in AppsTo(c)
      BY <1>4, <2>5, <2>10 DEF AppsTo
    <3>2. B \subseteq call[c].apps \cup {m.id} /\ call'[c].apps \subseteq (call[c].apps \cup {m.id}) \ B
      BY <2>5, <2>7, <2>10
    <3>3. \A i \in App : got'[c][i] = IF i \in B THEN got[c][i] + 1 ELSE got[c][i]
      BY <2>6
    <3>n. count'.app = count.app /\ net' \subseteq net
      BY <1>6
    <3>4. ParseMessage(mem[c], m) = "Ok" /\ m.id \in mem'[c].used
      BY <2>4, <2>5, <2>10
    <3> HIDE DEF B
    <3>5. QED
      BY <1>1, <1>7, <1>8, <2>8, <2>m, <2>n, <3>1, <3>2, <3>3, <3>4, <3>n, DecryptingStep
  <2>11. QED
    BY <2>9, <2>10
<1>12. CASE DecryptCommit(c, m)
  <2>1. m \in Message /\ UNCHANGED <<buf, got>>
    BY <1>6, <1>12 DEF DecryptCommit
  <2>2. PICK o \in DecryptOutcomes(c, mem[c], m) :
          /\ mem' = [mem EXCEPT ![c] = o.g]
          /\ disk' = IF o.saved THEN [disk EXCEPT ![c] = o.g] ELSE disk
          /\ call' = IF o.res = "Ok"
                     THEN [call EXCEPT ![c] = [op |-> "decrypt", outer |-> m, todo |-> buf[c],
                                               apps |-> {}, props |-> o.props]]
                     ELSE call
    BY <1>12 DEF DecryptCommit
  <2>3. Moves(c, rosters, mem[c], o.g)
    BY <1>4, <2>1, OutcomeApp
  <2>4. /\ mem'[c] = o.g /\ disk'[c] \in {o.g, disk[c]}
        /\ \A d \in Client \ {c} : mem'[d] = mem[d] /\ disk'[d] = disk[d] /\ call'[d] = call[d]
    BY <1>2, <2>2 DEF TypeOK
  <2>5. call'[c] = call[c] \/ (call'[c].apps = {} /\ call'[c].todo = buf[c])
    BY <1>2, <2>2 DEF TypeOK
  <2>6. /\ \A row \in buf'[c] \cup call'[c].todo : row.msg \in Incoming(c)
        /\ call'[c].apps \subseteq call[c].apps
    BY <2>1, <2>5, RowsIncoming
  <2>7. Moves(c, rosters, mem[c], disk'[c]) \/ Moves(c, rosters, disk[c], disk'[c])
    BY <1>10, <2>3, <2>4
  <2>8. QED
    BY <1>1, <1>6, <1>7, <1>8, <1>9, <2>1, <2>3, <2>4, <2>6, <2>7, PlainStep
<1>13. CASE DecryptFuture(c, m)
  <2>1. PICK b \in Save(buf[c], m) : buf' = [buf EXCEPT ![c] = b]
    BY <1>13 DEF DecryptFuture
  <2>2. UNCHANGED <<mem, disk, call, got>>
    BY <1>13 DEF DecryptFuture
  <2>3. buf'[c] = b /\ \A d \in Client \ {c} : buf'[d] = buf[d]
    BY <1>2, <2>1 DEF TypeOK
  <2>4. \A row \in buf'[c] \cup call'[c].todo : row.msg \in Incoming(c)
    BY <1>4, <2>2, <2>3, SaveOK, RowsIncoming
  <2>5. QED
    BY <1>1, <1>6, <1>7, <1>8, <1>9, <1>10, <2>2, <2>3, <2>4, PlainStep
<1>14. CASE DecryptRejected(c, m) \/ DecryptNoGroup(c, m)
  <2>1. UNCHANGED <<mem, disk, buf, call, got>>
    BY <1>14 DEF DecryptRejected, DecryptNoGroup, clientVars
  <2>2. QED
    BY <1>1, <1>6, <1>7, <1>8, <1>9, <1>10, <2>1, RowsIncoming, PlainStep
<1>15. CASE ProcessWelcome(c, m)
  <2>1. /\ UNCHANGED <<buf, call, got>> /\ m.kind = "welcome"
        /\ net' = net \ {[to |-> c, msg |-> m]}
    BY <1>15 DEF ProcessWelcome
  <2>2. CASE UNCHANGED <<mem, disk>>
    BY <1>1, <1>6, <1>7, <1>8, <1>9, <1>10, <2>1, <2>2, RowsIncoming, PlainStep
  <2>3. CASE Persist(c, NewGroup(m.epoch, m.tag, m.members))
    <3>1. /\ mem'[c] = NewGroup(m.epoch, m.tag, m.members) /\ disk'[c] = mem'[c]
          /\ \A d \in Client \ {c} : mem'[d] = mem[d] /\ disk'[d] = disk[d]
      BY <1>2, <2>3 DEF TypeOK, Persist
    <3>2. m \in WelcomesTo(c)
      BY <1>4, <2>1 DEF WelcomesTo
    <3>3. Incoming(c)' \subseteq Incoming(c)
      BY <1>6, <2>1 DEF Incoming
    <3>4. AppsTo(c)' \subseteq AppsTo(c) /\ HandedOver(c)' = HandedOver(c)
      BY <2>1, <3>3 DEF AppsTo, HandedOver
    <3>5. \A v \in WelcomesTo(c)' : v \in WelcomesTo(c) /\ v # m
      <4>1. \A v \in WelcomesTo(c)' : [to |-> c, msg |-> v] \in net'
        <5>1. \A q \in net' : q \in Packet
          BY <1>1 DEF TypeOK
        <5>2. ASSUME NEW q \in net', q.to = c
              PROVE  q = [to |-> c, msg |-> q.msg]
          BY <5>1, <5>2 DEF Packet
        <5>3. \A row \in buf[c] \cup call[c].todo : row.msg.kind # "welcome"
          <6>1. \A row \in buf[c] \cup call[c].todo : row.msg \in Message
            BY <1>2 DEF TypeOK, Call, Row
          <6>2. \A k \in Message : k.kind # "welcome"
            BY DEF Message, Commit, ProposalMsg, AppMsg
          <6>3. QED
            BY <6>1, <6>2
        <5>4. QED
          BY <2>1, <5>2, <5>3 DEF WelcomesTo, Incoming
      <4>2. QED
        BY <2>1, <3>3, <4>1 DEF WelcomesTo
    <3>6. LedgerOK(c)'
      BY <1>6, <2>1 DEF AppInv, LedgerOK
    <3>7. Membership(c)' /\ WelcomesOK(c)' /\ IdsOK(c)' /\ HandedOK(c)'
      BY <1>1, <1>6, <1>7, <3>1, <3>2, <3>4, <3>5, JoiningClient
    <3>8. Parts(c)'
      BY <3>6, <3>7 DEF Parts
    <3>9. \A q \in net' : q \in net \/ NewMail(q.msg, 0, count.app, count'.app)
      BY <1>6
    <3>10. 0 <= Len(log) /\ count'.app \in {count.app, count.app + 1} /\ count'.app <= MaxApps
      BY <1>2, <1>6
    <3>11. \A d \in Client \ {c} :
             /\ mem'[d] = mem[d] /\ disk'[d] = disk[d] /\ buf'[d] = buf[d]
             /\ call'[d] = call[d] /\ got'[d] = got[d]
      BY <2>1, <3>1
    <3>12. QED
      BY <1>1, <1>7, <1>8, <3>8, <3>9, <3>10, <3>11, AppStep
  <2>4. QED
    BY <1>15, <2>2, <2>3 DEF ProcessWelcome
<1>16. QED
  BY <1>3, <1>11, <1>12, <1>13, <1>14, <1>15 DEF m

\* Replaying the buffer, wiping the group and crashing keep it: a crash falls
\* back on a group of which it also holds.
LEMMA RestoreApp ==
  ASSUME AppInv, NEW c \in Client,
         Restore(c) \/ WipeConversation(c) \/ Crash(c)
  PROVE  AppInv'
<1>1. Inv' /\ Inv /\ TypeOK'
  BY RestoreInv DEF AppInv, Inv
<1>2. /\ TypeOK /\ mem[c] \in Group /\ disk[c] \in Group /\ call[c] \in Call
      /\ count.app \in Nat /\ count.app <= MaxApps /\ Len(log) \in Nat
  BY <1>1 DEF AppInv, Inv, TypeOK, Counters
<1>3. UNCHANGED <<log, rosters, created, net>> /\ count'.app = count.app
  <2>1. /\ UNCHANGED <<log, rosters, created, net>>
        /\ count' = count \/ count' = [count EXCEPT !.crash = @ + 1]
    BY DEF Restore, RestoreMessage, RestoreFails, FinishRestore, WipeConversation, Crash, dsVars
  <2>2. QED
    BY <1>2, <2>1 DEF TypeOK, Counters
<1>h. UNCHANGED <<log, rosters>>
  BY <1>3
<1>k. count'.app = count.app
  BY <1>3
<1>4. CommitsValid'
  BY <1>3, CommitsKept
<1>5. /\ Idle.todo = {} /\ Idle.apps = {}
      /\ \A row \in buf[c] \cup call[c].todo : row.msg \in Incoming(c)
  BY RowsIncoming DEF Idle
<1>6. \A r \in call[c].todo : r.msg \in Message /\ MessageOK(r.msg, log, rosters)
  BY <1>1, <1>2, ClientFacts DEF Call, Row
<1>7. Moves(c, rosters, mem[c], mem[c]) /\ Moves(c, rosters, disk[c], disk[c])
  BY <1>2, MovesLocally
<1>8. ASSUME \A d \in Client \ {c} :
               /\ mem'[d] = mem[d] /\ disk'[d] = disk[d] /\ buf'[d] = buf[d]
               /\ call'[d] = call[d] /\ got'[d] = got[d],
             Moves(c, rosters, mem[c], mem'[c]) \/ Moves(c, rosters, disk[c], mem'[c]),
             Moves(c, rosters, mem[c], disk'[c]) \/ Moves(c, rosters, disk[c], disk'[c]),
             \A row \in buf'[c] \cup call'[c].todo :
               row.msg \in Incoming(c) \/ row.msg.kind \notin {"welcome", "app"},
             NEW B, B \subseteq call[c].apps,
             call'[c].apps \subseteq call[c].apps \ B,
             \A i \in App : got'[c][i] = IF i \in B THEN got[c][i] + 1 ELSE got[c][i]
      PROVE  AppInv'
  <2>1. \A q \in net' : q \in net \/ NewMail(q.msg, 0, count.app, count'.app)
    BY <1>3
  <2>2. 0 <= Len(log) /\ count'.app \in {count.app, count.app + 1} /\ count'.app <= MaxApps
    BY <1>2, <1>3
  <2>3. QuietMove(c, 0, B)
    BY <1>3, <1>8, <2>1, <2>2 DEF QuietMove
  <2>4. QED
    BY <1>1, <1>4, <2>3, QuietStep
<1>9. CASE RestoreMessage(c)
  <2>1. PICK r \in call[c].todo : \E o \in DecryptOutcomes(c, mem[c], r.msg) :
          /\ Persist(c, o.g)
          /\ call' = [call EXCEPT ![c].todo = @ \ {r},
                                  ![c].apps = @ \cup o.apps,
                                  ![c].props = @ \cup o.props]
    BY <1>9 DEF RestoreMessage
  <2>2. PICK o \in DecryptOutcomes(c, mem[c], r.msg) :
          /\ Persist(c, o.g)
          /\ call' = [call EXCEPT ![c].todo = @ \ {r},
                                  ![c].apps = @ \cup o.apps,
                                  ![c].props = @ \cup o.props]
    BY <2>1
  <2>3. /\ Moves(c, rosters, mem[c], o.g)
        /\ \/ o.apps = {}
           \/ /\ r.msg.kind = "app" /\ ParseMessage(mem[c], r.msg) = "Ok"
              /\ o.apps = {r.msg.id} /\ r.msg.id \in o.g.used
    BY <1>6, OutcomeApp
  <2>4. /\ mem'[c] = o.g /\ disk'[c] = o.g
        /\ \A d \in Client \ {c} : mem'[d] = mem[d] /\ disk'[d] = disk[d] /\ call'[d] = call[d]
    BY <1>2, <2>2 DEF TypeOK, Persist
  <2>5. call'[c].todo \subseteq call[c].todo /\ call'[c].apps = call[c].apps \cup o.apps
    BY <1>2, <2>2 DEF TypeOK, Call
  <2>6. UNCHANGED <<buf, got>>
    BY <1>9 DEF RestoreMessage
  <2>7. \A row \in buf'[c] \cup call'[c].todo : row.msg \in Incoming(c)
    BY <1>5, <2>5, <2>6
  <2>8. /\ Moves(c, rosters, mem[c], mem'[c]) /\ Moves(c, rosters, mem[c], disk'[c])
        /\ mem'[c] = disk'[c]
    BY <2>3, <2>4
  <2>9. \A d \in Client \ {c} :
          /\ mem'[d] = mem[d] /\ disk'[d] = disk[d] /\ buf'[d] = buf[d]
          /\ call'[d] = call[d] /\ got'[d] = got[d]
    BY <2>4, <2>6
  <2> DEFINE B == {}
  <2>10. \A i \in App : got'[c][i] = IF i \in B THEN got[c][i] + 1 ELSE got[c][i]
    BY <2>6
  <2>11. CASE o.apps = {}
    <3>1. B \subseteq call[c].apps /\ call'[c].apps \subseteq call[c].apps \ B
      BY <2>5, <2>11
    <3> HIDE DEF B
    <3>2. QED
      BY <1>8, <2>7, <2>8, <2>9, <2>10, <3>1
  <2>12. CASE o.apps # {}
    <3> DEFINE m == r.msg
    <3>1. m \in AppsTo(c) /\ ParseMessage(mem[c], m) = "Ok" /\ m.id \in mem'[c].used
      BY <1>5, <2>3, <2>4, <2>12 DEF AppsTo
    <3>2. /\ B \subseteq call[c].apps \cup {m.id}
          /\ call'[c].apps \subseteq (call[c].apps \cup {m.id}) \ B
      BY <2>3, <2>5, <2>12
    <3>3. net' \subseteq net
      BY <1>3
    <3> HIDE DEF B, m
    <3>4. QED
      BY <1>1, <1>h, <1>k, <1>4, <2>7, <2>8, <2>9, <2>10, <3>1, <3>2, <3>3, DecryptingStep
  <2>13. QED
    BY <2>11, <2>12
<1>10. CASE RestoreFails(c)
  <2>1. PICK r \in call[c].todo : \E o \in DecryptOutcomes(c, mem[c], r.msg) :
          /\ mem' = [mem EXCEPT ![c] = o.g]
          /\ disk' = IF o.saved THEN [disk EXCEPT ![c] = o.g] ELSE disk
    BY <1>10 DEF RestoreFails
  <2>2. PICK o \in DecryptOutcomes(c, mem[c], r.msg) :
          /\ mem' = [mem EXCEPT ![c] = o.g]
          /\ disk' = IF o.saved THEN [disk EXCEPT ![c] = o.g] ELSE disk
    BY <2>1
  <2>3. Moves(c, rosters, mem[c], o.g)
    BY <1>6, OutcomeApp
  <2>4. /\ mem'[c] = o.g /\ disk'[c] \in {o.g, disk[c]}
        /\ \A d \in Client \ {c} : mem'[d] = mem[d] /\ disk'[d] = disk[d]
    BY <1>2, <2>2 DEF TypeOK
  <2>5. /\ call' = [call EXCEPT ![c] = Idle] /\ UNCHANGED got
        /\ \/ UNCHANGED buf
           \/ /\ call[c].outer # NoCommit
              /\ \E b \in Save(buf[c], call[c].outer) : buf' = [buf EXCEPT ![c] = b]
    BY <1>10 DEF RestoreFails
  <2>6. call'[c] = Idle /\ \A d \in Client \ {c} : call'[d] = call[d] /\ buf'[d] = buf[d]
    BY <1>2, <2>5 DEF TypeOK
  <2>7. \A row \in buf'[c] \cup call'[c].todo :
          row.msg \in Incoming(c) \/ row.msg.kind \notin {"welcome", "app"}
    <3>1. CASE UNCHANGED buf
      BY <1>5, <2>6, <3>1
    <3>2. ASSUME call[c].outer # NoCommit,
                 NEW b \in Save(buf[c], call[c].outer), buf' = [buf EXCEPT ![c] = b]
          PROVE  \A row \in buf'[c] : row.msg \in Incoming(c) \/ row.msg.kind \notin {"welcome", "app"}
      <4>1. buf'[c] = b
        BY <1>2, <3>2 DEF TypeOK
      <4>2. call[c].outer.kind = "commit"
        BY <1>2, <3>2 DEF Call, Commit
      <4>3. QED
        BY <1>5, <4>1, <4>2, SaveOK
    <3>3. QED
      BY <1>5, <2>5, <2>6, <3>1, <3>2
  <2>8. /\ Moves(c, rosters, mem[c], mem'[c])
        /\ Moves(c, rosters, mem[c], disk'[c]) \/ Moves(c, rosters, disk[c], disk'[c])
    BY <1>7, <2>3, <2>4
  <2>9. \A d \in Client \ {c} :
          /\ mem'[d] = mem[d] /\ disk'[d] = disk[d] /\ buf'[d] = buf[d]
          /\ call'[d] = call[d] /\ got'[d] = got[d]
    BY <2>4, <2>5, <2>6
  <2> DEFINE B == {}
  <2>10. /\ \A i \in App : got'[c][i] = IF i \in B THEN got[c][i] + 1 ELSE got[c][i]
         /\ B \subseteq call[c].apps /\ call'[c].apps \subseteq call[c].apps \ B
    BY <1>5, <2>5, <2>6
  <2> HIDE DEF B
  <2>11. QED
    BY <1>8, <2>7, <2>8, <2>9, <2>10
<1>11. CASE FinishRestore(c)
  <2>1. /\ buf' = [buf EXCEPT ![c] = {}] /\ disk' = [disk EXCEPT ![c] = mem[c]]
        /\ UNCHANGED mem
        /\ \/ call' = [call EXCEPT ![c].op = "wipe"] /\ UNCHANGED got
           \/ call' = [call EXCEPT ![c] = Idle] /\ Return(c, call[c].apps, call[c].props)
    BY <1>11 DEF FinishRestore
  <2>2. /\ buf'[c] = {} /\ disk'[c] = mem[c] /\ mem'[c] = mem[c]
        /\ \A d \in Client \ {c} :
             mem'[d] = mem[d] /\ disk'[d] = disk[d] /\ call'[d] = call[d] /\ buf'[d] = buf[d]
    BY <1>2, <2>1 DEF TypeOK
  <2>3. Moves(c, rosters, mem[c], mem'[c]) /\ Moves(c, rosters, mem[c], disk'[c])
    BY <1>7, <2>2
  <2>4. CASE call' = [call EXCEPT ![c].op = "wipe"] /\ UNCHANGED got
    <3> DEFINE B == {}
    <3>1. call'[c].todo = call[c].todo /\ call'[c].apps = call[c].apps
      BY <1>2, <2>4 DEF TypeOK, Call
    <3>2. \A row \in buf'[c] \cup call'[c].todo : row.msg \in Incoming(c)
      BY <1>5, <2>2, <3>1
    <3>3. /\ \A i \in App : got'[c][i] = IF i \in B THEN got[c][i] + 1 ELSE got[c][i]
          /\ B \subseteq call[c].apps /\ call'[c].apps \subseteq call[c].apps \ B
      BY <2>4, <3>1
    <3> HIDE DEF B
    <3>4. \A d \in Client \ {c} :
            /\ mem'[d] = mem[d] /\ disk'[d] = disk[d] /\ buf'[d] = buf[d]
            /\ call'[d] = call[d] /\ got'[d] = got[d]
      BY <2>2, <2>4
    <3>5. QED
      BY <1>8, <2>3, <3>2, <3>3, <3>4
  <2>5. CASE call' = [call EXCEPT ![c] = Idle] /\ Return(c, call[c].apps, call[c].props)
    <3> DEFINE B == call[c].apps
    <3>1. call'[c] = Idle
      BY <1>2, <2>5 DEF TypeOK
    <3>2. \A row \in buf'[c] \cup call'[c].todo : row.msg \in Incoming(c)
      BY <1>5, <2>2, <3>1
    <3>3. /\ \A d \in Client \ {c} : got'[d] = got[d]
          /\ \A i \in App : got'[c][i] = IF i \in B THEN got[c][i] + 1 ELSE got[c][i]
      BY <1>2, <2>5, ReturnLedger
    <3>4. B \subseteq call[c].apps /\ call'[c].apps \subseteq call[c].apps \ B
      BY <1>5, <3>1
    <3> HIDE DEF B
    <3>5. \A d \in Client \ {c} :
            /\ mem'[d] = mem[d] /\ disk'[d] = disk[d] /\ buf'[d] = buf[d]
            /\ call'[d] = call[d] /\ got'[d] = got[d]
      BY <2>2, <3>3
    <3>6. QED
      BY <1>8, <2>3, <3>2, <3>3, <3>4, <3>5
  <2>6. QED
    BY <2>1, <2>4, <2>5
<1>12. CASE WipeConversation(c)
  <2> DEFINE B == call[c].apps
  <2>1. /\ Persist(c, NoGroup) /\ call' = [call EXCEPT ![c] = Idle]
        /\ Return(c, call[c].apps, call[c].props) /\ UNCHANGED buf
    BY <1>12 DEF WipeConversation
  <2>2. /\ mem'[c] = NoGroup /\ disk'[c] = NoGroup /\ call'[c] = Idle
        /\ \A d \in Client \ {c} : mem'[d] = mem[d] /\ disk'[d] = disk[d] /\ call'[d] = call[d]
    BY <1>2, <2>1 DEF TypeOK, Persist
  <2>3. NoGroup.status = "none" /\ NoGroup \in Group
    BY NewGroupType DEF NoGroup, NewGroup
  <2>4. Moves(c, rosters, mem[c], mem'[c]) /\ Moves(c, rosters, mem[c], disk'[c])
    BY <1>2, <2>2, <2>3, MovesLocally
  <2>5. /\ \A d \in Client \ {c} : got'[d] = got[d]
        /\ \A i \in App : got'[c][i] = IF i \in B THEN got[c][i] + 1 ELSE got[c][i]
    BY <1>2, <2>1, ReturnLedger
  <2>6. B \subseteq call[c].apps /\ call'[c].apps \subseteq call[c].apps \ B
    BY <1>5, <2>2
  <2>7. \A row \in buf'[c] \cup call'[c].todo : row.msg \in Incoming(c)
    BY <1>5, <2>1, <2>2
  <2> HIDE DEF B
  <2>8. \A d \in Client \ {c} :
          /\ mem'[d] = mem[d] /\ disk'[d] = disk[d] /\ buf'[d] = buf[d]
          /\ call'[d] = call[d] /\ got'[d] = got[d]
    BY <2>1, <2>2, <2>5
  <2>9. QED
    BY <1>8, <2>4, <2>5, <2>6, <2>7, <2>8
<1>13. CASE Crash(c)
  <2> DEFINE B == {}
  <2>1. /\ mem' = [mem EXCEPT ![c] = disk[c]] /\ call' = [call EXCEPT ![c] = Idle]
        /\ UNCHANGED <<disk, buf, got>>
    BY <1>13 DEF Crash
  <2>2. /\ mem'[c] = disk[c] /\ call'[c] = Idle /\ disk'[c] = disk[c]
        /\ \A d \in Client \ {c} : mem'[d] = mem[d] /\ call'[d] = call[d]
    BY <1>2, <2>1 DEF TypeOK
  <2>3. Moves(c, rosters, disk[c], mem'[c]) /\ Moves(c, rosters, disk[c], disk'[c])
    BY <1>7, <2>2
  <2>4. /\ \A i \in App : got'[c][i] = IF i \in B THEN got[c][i] + 1 ELSE got[c][i]
        /\ B \subseteq call[c].apps /\ call'[c].apps \subseteq call[c].apps \ B
    BY <1>5, <2>1, <2>2
  <2>5. \A row \in buf'[c] \cup call'[c].todo : row.msg \in Incoming(c)
    BY <1>5, <2>1, <2>2
  <2> HIDE DEF B
  <2>6. \A d \in Client \ {c} :
          /\ mem'[d] = mem[d] /\ disk'[d] = disk[d] /\ buf'[d] = buf[d]
          /\ call'[d] = call[d] /\ got'[d] = got[d]
    BY <2>1, <2>2
  <2>7. QED
    BY <1>8, <2>3, <2>4, <2>5, <2>6
<1>14. QED
  BY <1>9, <1>10, <1>11, <1>12, <1>13 DEF Restore

\* Initially nothing was sent and the founders are members of epoch 0.
LEMMA InitAppInv == Init => AppInv
<1> SUFFICES ASSUME Init PROVE AppInv
  OBVIOUS
<1>1. Inv
  BY InitInv
<1>2. /\ count.app = 0 /\ created = {} /\ net = {}
      /\ \A c \in Client :
           /\ buf[c] = {} /\ call[c] = Idle
           /\ \A i \in App : got[c][i] = 0
  BY DEF Init
<1>3. count.app <= MaxApps
  BY <1>2, ConversationAssumption
<1>4. CommitsValid
  BY <1>2 DEF CommitsValid
<1>5. Idle.todo = {} /\ Idle.apps = {}
  BY DEF Idle
<1>6. ASSUME NEW c \in Client
      PROVE  Membership(c) /\ WelcomesOK(c) /\ IdsOK(c) /\ LedgerOK(c) /\ HandedOK(c)
  <2>1. Incoming(c) = {}
    BY <1>2, <1>5 DEF Incoming
  <2>2. WelcomesOK(c) /\ IdsOK(c) /\ HandedOK(c)
    BY <2>1 DEF WelcomesOK, IdsOK, HandedOK, WelcomesTo, AppsTo
  <2>3. LedgerOK(c)
    BY <1>2, <1>5 DEF LedgerOK
  <2>4. Stays(c, rosters, mem[c])
    <3>1. mem[c] = IF c \in Founders THEN NewGroup(0, 0, Founders) ELSE NoGroup
      BY DEF Init
    <3>2. NoGroup.status = "none"
      BY DEF NoGroup, NewGroup
    <3>3. /\ NewGroup(0, 0, Founders).since = 0 /\ NewGroup(0, 0, Founders).epoch = 0
      BY DEF NewGroup
    <3>4. rosters[1] = Founders
      BY DEF Init
    <3>5. QED
      BY <3>1, <3>2, <3>3, <3>4 DEF Stays
  <2>5. Membership(c)
    BY <2>4 DEF Init, Membership
  <2>6. QED
    BY <2>2, <2>3, <2>5
<1>7. QED
  BY <1>1, <1>3, <1>4, <1>6 DEF AppInv

\* Every step of every client keeps it.
LEMMA StepAppInv == AppInv /\ [Next]_vars => AppInv'
<1>1. ASSUME AppInv, UNCHANGED vars
      PROVE  AppInv'
  <2>1. Inv'
    BY <1>1, StepInv DEF AppInv
  <2>2. CommitsValid' /\ count'.app <= MaxApps
    BY <1>1 DEF vars, AppInv, CommitsValid
  <2>3. ASSUME NEW c \in Client
        PROVE  (Membership(c) /\ WelcomesOK(c) /\ IdsOK(c) /\ LedgerOK(c) /\ HandedOK(c))'
    <3>1. Membership(c) /\ WelcomesOK(c) /\ IdsOK(c) /\ LedgerOK(c) /\ HandedOK(c)
      BY <1>1 DEF AppInv
    <3>2. /\ WelcomesTo(c)' = WelcomesTo(c) /\ AppsTo(c)' = AppsTo(c)
          /\ HandedOver(c)' = HandedOver(c)
      BY <1>1 DEF vars, WelcomesTo, AppsTo, HandedOver, Incoming
    <3>3. QED
      BY <1>1, <3>1, <3>2 DEF vars, Membership, WelcomesOK, IdsOK, LedgerOK, HandedOK
  <2>4. QED
    BY <2>1, <2>2, <2>3 DEF AppInv
<1>2. ASSUME AppInv, NEW c \in Client,
             \/ Create(c) \/ SendProposal(c) \/ ClearPendingProposal(c)
             \/ PostCommit(c) \/ CommitAccepted(c) \/ ClearPendingCommit(c)
             \/ Decrypt(c) \/ Restore(c) \/ WipeConversation(c) \/ Crash(c)
      PROVE  AppInv'
  BY <1>2, CreateApp, CommitApp, DecryptApp, RestoreApp
<1>3. QED
  BY <1>1, <1>2 DEF Next

\* decrypt_message and the replay hand an application message over at most
\* once, for any number of clients, crashes, repeated and reordered deliveries,
\* and however often a client leaves the group and joins it again.
THEOREM DeliveredOnce == Spec => []AppAtMostOnce
<1>1. AppInv => AppAtMostOnce
  BY DEF AppInv, LedgerOK, AppAtMostOnce
<1>2. QED
  BY <1>1, InitAppInv, StepAppInv, PTL DEF Spec

-----------------------------------------------------------------------------
(* BufferedReachesApp.  While the buffer is replayed, an application       *)
(* message of the buffer waits to be decrypted or is what the call returns.*)

ReplayOK(c) ==
  Replaying(c) =>
    \A r \in buf[c] : r.msg.kind = "app" => r \in call[c].todo \/ r.msg.id \in call[c].apps

ReplayInv == AppInv /\ \A c \in Client : ReplayOK(c)

\* Decrypting an application message with success returns it.
LEMMA AppReturned ==
  ASSUME NEW c \in Client, NEW g \in Group, NEW m \in Message, m.kind = "app",
         NEW o \in DecryptOutcomes(c, g, m), o.res = "Ok"
  PROVE  o.apps = {m.id}
<1>1. ~IsSelfCommit(c, m)
  BY DEF IsSelfCommit
<1>2. CASE ParseMessage(g, m) = "Ok"
  BY <1>1, <1>2 DEF DecryptOutcomes, Outcome
<1>3. CASE ParseMessage(g, m) # "Ok"
  BY <1>1, <1>3 DEF DecryptOutcomes, Outcome
<1>4. QED
  BY <1>2, <1>3

\* On SQL, saving a message overwrites no row.
LEMMA SaveKeeps ==
  ASSUME ~Overwrite, NEW b, NEW m, NEW x \in Save(b, m)
  PROVE  b \subseteq x
BY DEF Save

\* The steps that change a buffer or a call, and what becomes of the buffer, the
\* call and the ledger of each client.
LEMMA ReplayStep ==
  ASSUME ~Overwrite, ReplayInv, [Next]_vars, NEW d \in Client
  PROVE  /\ ReplayOK(d)'
         /\ \A r \in buf[d] \ buf'[d] : r.msg.kind = "app" =>
              \/ got'[d][r.msg.id] > got[d][r.msg.id]
              \/ call'[d].op = "wipe" /\ r.msg.id \in call'[d].apps
<1>1. /\ TypeOK /\ AppInv /\ ReplayOK(d) /\ IdsOK(d)
      /\ mem[d] \in Group /\ call[d] \in Call /\ count.app \in Nat /\ count.app <= MaxApps
  BY DEF ReplayInv, AppInv, Inv, TypeOK, Counters
<1>2. ASSUME buf'[d] = buf[d], call'[d] = call[d]
      PROVE  /\ ReplayOK(d)'
             /\ \A r \in buf[d] \ buf'[d] : r.msg.kind = "app" =>
                  \/ got'[d][r.msg.id] > got[d][r.msg.id]
                  \/ call'[d].op = "wipe" /\ r.msg.id \in call'[d].apps
  BY <1>1, <1>2 DEF ReplayOK, Replaying
<1>3. ASSUME buf[d] \subseteq buf'[d], call'[d].op \notin {"decrypt", "accepted"}
      PROVE  /\ ReplayOK(d)'
             /\ \A r \in buf[d] \ buf'[d] : r.msg.kind = "app" =>
                  \/ got'[d][r.msg.id] > got[d][r.msg.id]
                  \/ call'[d].op = "wipe" /\ r.msg.id \in call'[d].apps
  BY <1>3 DEF ReplayOK, Replaying
<1>4. CASE UNCHANGED vars
  BY <1>2, <1>4 DEF vars
<1>5. ASSUME NEW c \in Client, c # d,
             \/ Create(c) \/ SendProposal(c) \/ ClearPendingProposal(c)
             \/ PostCommit(c) \/ CommitAccepted(c) \/ ClearPendingCommit(c)
             \/ Decrypt(c) \/ Restore(c) \/ WipeConversation(c) \/ Crash(c)
      PROVE  buf'[d] = buf[d] /\ call'[d] = call[d]
  <2>1. CASE Create(c)
    BY <2>1 DEF Create, EncryptMessage, NewProposal, NewExternalAddProposal, AddMembers,
                RemoveMembers, UpdateKeyingMaterial, CommitPendingProposals, CreateCommit, clientVars
  <2>2. CASE SendProposal(c) \/ ClearPendingProposal(c) \/ PostCommit(c) \/ ClearPendingCommit(c)
    BY <2>2 DEF SendProposal, ClearPendingProposal, PostCommit, ClearPendingCommit
  <2>3. CASE CommitAccepted(c)
    BY <1>1, <1>5, <2>3 DEF CommitAccepted, TypeOK
  <2>4. CASE Decrypt(c)
    BY <1>1, <1>5, <2>4 DEF Decrypt, DecryptSimple, DecryptCommit, DecryptFuture,
       DecryptRejected, DecryptNoGroup, ProcessWelcome, clientVars, TypeOK
  <2>5. CASE Restore(c) \/ WipeConversation(c) \/ Crash(c)
    BY <1>1, <1>5, <2>5 DEF Restore, RestoreMessage, RestoreFails, FinishRestore,
       WipeConversation, Crash, TypeOK
  <2>6. QED
    BY <1>5, <2>1, <2>2, <2>3, <2>4, <2>5
<1>6. CASE \/ Create(d) \/ SendProposal(d) \/ ClearPendingProposal(d)
           \/ PostCommit(d) \/ ClearPendingCommit(d)
  <2>1. UNCHANGED <<buf, call>>
    BY <1>6 DEF Create, EncryptMessage, NewProposal, NewExternalAddProposal, AddMembers,
                RemoveMembers, UpdateKeyingMaterial, CommitPendingProposals, CreateCommit, clientVars,
                SendProposal, ClearPendingProposal, PostCommit, ClearPendingCommit
  <2>2. QED
    BY <1>2, <2>1
<1>7. CASE CommitAccepted(d)
  <2>1. /\ UNCHANGED buf
        /\ \/ call' = [call EXCEPT ![d] = [Idle EXCEPT !.op = "accepted", !.todo = buf[d]]]
           \/ UNCHANGED call
    BY <1>7 DEF CommitAccepted
  <2>2. [Idle EXCEPT !.op = "accepted", !.todo = buf[d]].todo = buf[d]
    BY DEF Idle
  <2>3. call'[d] = call[d] \/ call'[d].todo = buf[d]
    BY <1>1, <2>1, <2>2 DEF TypeOK
  <2>4. QED
    BY <1>2, <2>1, <2>3 DEF ReplayOK
<1>8. CASE Decrypt(d)
  <2>1. PICK packet \in net :
          \/ DecryptSimple(d, packet.msg) \/ DecryptCommit(d, packet.msg)
          \/ DecryptFuture(d, packet.msg) \/ DecryptRejected(d, packet.msg)
          \/ DecryptNoGroup(d, packet.msg) \/ ProcessWelcome(d, packet.msg)
    BY <1>8 DEF Decrypt
  <2> DEFINE m == packet.msg
  <2>2. CASE \/ DecryptSimple(d, m) \/ DecryptRejected(d, m)
             \/ DecryptNoGroup(d, m) \/ ProcessWelcome(d, m)
    BY <1>2, <2>2 DEF DecryptSimple, DecryptRejected, DecryptNoGroup, ProcessWelcome, clientVars
  <2>3. CASE DecryptCommit(d, m)
    <3>1. PICK o \in DecryptOutcomes(d, mem[d], m) :
            call' = IF o.res = "Ok"
                    THEN [call EXCEPT ![d] = [op |-> "decrypt", outer |-> m, todo |-> buf[d],
                                              apps |-> {}, props |-> o.props]]
                    ELSE call
      BY <2>3 DEF DecryptCommit
    <3>2. UNCHANGED buf /\ (call'[d] = call[d] \/ call'[d].todo = buf[d])
      BY <1>1, <2>3, <3>1 DEF DecryptCommit, TypeOK
    <3>3. QED
      BY <1>2, <3>2 DEF ReplayOK
  <2>4. CASE DecryptFuture(d, m)
    <3>1. /\ \E b \in Save(buf[d], m) : buf' = [buf EXCEPT ![d] = b]
          /\ UNCHANGED call /\ call[d] = Idle
      BY <2>4 DEF DecryptFuture, Receives
    <3>2. buf[d] \subseteq buf'[d]
      BY <1>1, <3>1, SaveKeeps DEF TypeOK
    <3>3. QED
      BY <1>3, <3>1, <3>2 DEF Idle
  <2>5. QED
    BY <2>1, <2>2, <2>3, <2>4
<1>9. CASE RestoreMessage(d)
  <2>1. PICK r \in call[d].todo : \E o \in DecryptOutcomes(d, mem[d], r.msg) :
          /\ o.res = "Ok"
          /\ call' = [call EXCEPT ![d].todo = @ \ {r},
                                  ![d].apps = @ \cup o.apps,
                                  ![d].props = @ \cup o.props]
    BY <1>9 DEF RestoreMessage
  <2>2. PICK o \in DecryptOutcomes(d, mem[d], r.msg) :
          /\ o.res = "Ok"
          /\ call' = [call EXCEPT ![d].todo = @ \ {r},
                                  ![d].apps = @ \cup o.apps,
                                  ![d].props = @ \cup o.props]
    BY <2>1
  <2>3. UNCHANGED buf
    BY <1>9 DEF RestoreMessage
  <2>4. /\ call'[d].todo = call[d].todo \ {r} /\ call'[d].apps = call[d].apps \cup o.apps
        /\ call'[d].op = call[d].op
    BY <1>1, <2>2 DEF TypeOK, Call
  <2>5. r.msg \in Message
    BY <1>1 DEF Call, Row
  <2>6. r.msg.kind = "app" => r.msg.id \in o.apps
    BY <1>1, <2>2, <2>5, AppReturned
  <2>7. ReplayOK(d)'
    BY <1>1, <2>3, <2>4, <2>6 DEF ReplayOK, Replaying
  <2>8. QED
    BY <2>3, <2>7
<1>10. CASE RestoreFails(d)
  <2>1. /\ call' = [call EXCEPT ![d] = Idle]
        /\ \/ UNCHANGED buf
           \/ \E b \in Save(buf[d], call[d].outer) : buf' = [buf EXCEPT ![d] = b]
    BY <1>10 DEF RestoreFails
  <2>2. call'[d] = Idle /\ buf[d] \subseteq buf'[d]
    BY <1>1, <2>1, SaveKeeps DEF TypeOK
  <2>3. QED
    BY <1>3, <2>2 DEF Idle
<1>11. CASE FinishRestore(d)
  <2>1. /\ Replaying(d) /\ call[d].todo = {}
        /\ \/ call' = [call EXCEPT ![d].op = "wipe"]
           \/ call' = [call EXCEPT ![d] = Idle] /\ Return(d, call[d].apps, call[d].props)
    BY <1>11 DEF FinishRestore
  <2>2. \A r \in buf[d] : r.msg.kind = "app" => r.msg.id \in call[d].apps /\ r.msg.id \in App
    <3>1. \A r \in buf[d] : r.msg.kind = "app" => r.msg \in AppsTo(d)
      BY DEF AppsTo, Incoming
    <3>2. \A r \in buf[d] : r.msg.kind = "app" => r.msg.id \in 1..count.app
      BY <1>1, <3>1 DEF IdsOK
    <3>3. \A i \in 1..count.app : i \in App
      BY <1>1, ConversationAssumption DEF App
    <3>4. QED
      BY <1>1, <2>1, <3>2, <3>3 DEF ReplayOK
  <2>3. CASE call' = [call EXCEPT ![d].op = "wipe"]
    <3>1. call'[d].op = "wipe" /\ call'[d].apps = call[d].apps
      BY <1>1, <2>3 DEF TypeOK, Call
    <3>2. QED
      BY <2>2, <3>1 DEF ReplayOK, Replaying
  <2>4. CASE call' = [call EXCEPT ![d] = Idle] /\ Return(d, call[d].apps, call[d].props)
    <3>1. call'[d] = Idle
      BY <1>1, <2>4 DEF TypeOK
    <3>2. \A i \in App : i \in call[d].apps => got'[d][i] = got[d][i] + 1 /\ got[d][i] \in Nat
      BY <1>1, <2>4, ReturnLedger DEF TypeOK
    <3>3. ReplayOK(d)'
      BY <3>1 DEF ReplayOK, Replaying, Idle
    <3>4. QED
      BY <2>2, <3>2, <3>3
  <2>5. QED
    BY <2>1, <2>3, <2>4
<1>12. CASE WipeConversation(d) \/ Crash(d)
  <2>1. call' = [call EXCEPT ![d] = Idle] /\ UNCHANGED buf
    BY <1>12 DEF WipeConversation, Crash
  <2>2. call'[d] = Idle
    BY <1>1, <2>1 DEF TypeOK
  <2>3. QED
    BY <1>3, <2>1, <2>2 DEF Idle
<1>13. QED
  <2>1. CASE Next
    <3>1. PICK c \in Client :
             \/ Create(c) \/ SendProposal(c) \/ ClearPendingProposal(c)
             \/ PostCommit(c) \/ CommitAccepted(c) \/ ClearPendingCommit(c)
             \/ Decrypt(c) \/ Restore(c) \/ WipeConversation(c) \/ Crash(c)
      BY <2>1 DEF Next
    <3>2. CASE c # d
      BY <1>2, <1>5, <3>1, <3>2
    <3>3. CASE c = d
      BY <1>6, <1>7, <1>8, <1>9, <1>10, <1>11, <1>12, <3>1, <3>3 DEF Restore
    <3>4. QED
      BY <3>2, <3>3
  <2>2. QED
    BY <1>4, <2>1

\* On SQL a buffered application message reaches the application: no step drops
\* its row before the replay has decrypted it.  (The WASM keystore keeps one row
\* per group and overwrites it.)
THEOREM BufferedIsReturned == ~Overwrite => (Spec => BufferedReachesApp)
<1> SUFFICES ASSUME ~Overwrite PROVE Spec => BufferedReachesApp
  OBVIOUS
<1>1. Init => ReplayInv
  <2>1. Init => \A c \in Client : ReplayOK(c)
    BY DEF Init, ReplayOK, Replaying, Idle
  <2>2. QED
    BY <2>1, InitAppInv DEF ReplayInv
<1>2. ReplayInv /\ [Next]_vars => ReplayInv'
  <2>1. ReplayInv /\ [Next]_vars => AppInv'
    BY StepAppInv DEF ReplayInv
  <2>2. QED
    BY <2>1, ReplayStep DEF ReplayInv
<1>3. ReplayInv /\ [Next]_vars =>
        [\A c \in Client : \A r \in buf[c] \ buf'[c] :
           r.msg.kind = "app" =>
             \/ got'[c][r.msg.id] > got[c][r.msg.id]
             \/ call'[c].op = "wipe" /\ r.msg.id \in call'[c].apps]_vars
  BY ReplayStep
<1>4. QED
  BY <1>1, <1>2, <1>3, PTL DEF Spec, BufferedReachesApp

-----------------------------------------------------------------------------
(* Durable and BufferReplayed.  Neither holds without conditions: the      *)
(* calls below end too early.  They are the only ones.                     *)

\* c merges its own commit when the DS echoes it, without a replay
\* (self_commit.rs).
MergesEcho(c) ==
  \E packet \in net : packet.to = c /\ IsSelfCommit(c, packet.msg) /\ DecryptSimple(c, packet.msg)

\* c stops in the middle of a call.
CrashesInCall(c) == Crash(c) /\ call[c] # Idle

NoEarlyStop == \A c \in Client : ~StopsEarly(c)

EveryReplayEnds == \A c \in Client : ~StopsEarly(c) /\ ~MergesEcho(c) /\ ~CrashesInCall(c)

\* Between two calls of client c its buffer is ahead of its group, and without an
\* operational group there is none.
AheadFor(c) ==
  /\ call[c] = Idle =>
       IF mem[c].status = "operational" THEN \A r \in buf[c] : r.msg.epoch > mem[c].epoch
       ELSE buf[c] = {}
  /\ call[c].op = "wipe" => buf[c] = {}

\* A step of one client leaves the groups, the buffer and the call of the others.
LEMMA OthersUntouched ==
  ASSUME TypeOK, NEW d \in Client, NEW c \in Client, c # d,
         \/ Create(c) \/ SendProposal(c) \/ ClearPendingProposal(c)
         \/ PostCommit(c) \/ CommitAccepted(c) \/ ClearPendingCommit(c)
         \/ Decrypt(c) \/ Restore(c) \/ WipeConversation(c) \/ Crash(c)
  PROVE  mem'[d] = mem[d] /\ disk'[d] = disk[d] /\ buf'[d] = buf[d] /\ call'[d] = call[d]
<1>1. CASE Create(c)
  BY <1>1 DEF Create, EncryptMessage, NewProposal, NewExternalAddProposal, AddMembers,
     RemoveMembers, UpdateKeyingMaterial, CommitPendingProposals, CreateCommit, clientVars,
     Persist, TypeOK
<1>2. CASE SendProposal(c) \/ ClearPendingProposal(c) \/ PostCommit(c) \/ ClearPendingCommit(c)
  BY <1>2 DEF SendProposal, ClearPendingProposal, PostCommit, ClearPendingCommit, Persist, TypeOK
<1>3. CASE CommitAccepted(c)
  BY <1>3 DEF CommitAccepted, Persist, TypeOK
<1>4. CASE Decrypt(c)
  BY <1>4 DEF Decrypt, DecryptSimple, DecryptCommit, DecryptFuture,
     DecryptRejected, DecryptNoGroup, ProcessWelcome, clientVars, Persist, TypeOK
<1>5. CASE Restore(c) \/ WipeConversation(c) \/ Crash(c)
  BY <1>5 DEF Restore, RestoreMessage, RestoreFails, FinishRestore,
     WipeConversation, Crash, Persist, TypeOK
<1>6. QED
  BY <1>1, <1>2, <1>3, <1>4, <1>5

\* Steps that start from an idle call and save the group they leave in memory.
LEMMA SavingSteps ==
  ASSUME TypeOK, NEW d \in Client,
         Create(d) \/ ClearPendingProposal(d) \/ ClearPendingCommit(d)
           \/ SendProposal(d) \/ PostCommit(d)
  PROVE  /\ call'[d] = call[d] /\ buf'[d] = buf[d]
         /\ \/ mem'[d] = mem[d] /\ disk'[d] = disk[d]
            \/ disk'[d] = mem'[d] /\ mem'[d].epoch = mem[d].epoch
                 /\ mem'[d].status = mem[d].status
<1>0. mem[d] \in Group
  BY DEF TypeOK
<1>1. CASE EncryptMessage(d)
  BY <1>0, <1>1 DEF EncryptMessage, Persist, TypeOK, Group
<1>2. CASE \E kind \in {"add", "remove", "update"}, x \in Client : NewProposal(d, kind, x)
  <2>1. call' = call /\ buf' = buf /\ \E P : Persist(d, [mem[d] EXCEPT !.props = P])
    BY <1>2 DEF NewProposal
  <2>2. QED
    BY <1>0, <2>1 DEF Persist, TypeOK, Group
<1>3. CASE NewExternalAddProposal(d) \/ SendProposal(d) \/ PostCommit(d)
  BY <1>3 DEF NewExternalAddProposal, clientVars, SendProposal, PostCommit
<1>4. CASE \E inline : CreateCommit(d, inline)
  BY <1>0, <1>4 DEF CreateCommit, Persist, TypeOK, Group
<1>5. CASE ClearPendingProposal(d) \/ ClearPendingCommit(d)
  <2>1. /\ call' = call /\ buf' = buf
        /\ \/ mem' = mem /\ disk' = disk
           \/ \E P : Persist(d, [mem[d] EXCEPT !.props = P])
           \/ \E P : Persist(d, [mem[d] EXCEPT !.pc = P])
    <3>1. CASE ClearPendingProposal(d)
      BY <3>1 DEF ClearPendingProposal
    <3>2. CASE ClearPendingCommit(d)
      BY <3>2 DEF ClearPendingCommit
    <3>3. QED
      BY <1>5, <3>1, <3>2
  <2>2. ASSUME NEW P, Persist(d, [mem[d] EXCEPT !.props = P])
        PROVE  disk'[d] = mem'[d] /\ mem'[d].epoch = mem[d].epoch /\ mem'[d].status = mem[d].status
    BY <1>0, <2>2 DEF Persist, TypeOK, Group
  <2>3. ASSUME NEW P, Persist(d, [mem[d] EXCEPT !.pc = P])
        PROVE  disk'[d] = mem'[d] /\ mem'[d].epoch = mem[d].epoch /\ mem'[d].status = mem[d].status
    BY <1>0, <2>3 DEF Persist, TypeOK, Group
  <2>4. QED
    BY <2>1, <2>2, <2>3
<1>6. QED
  BY <1>1, <1>2, <1>3, <1>4, <1>5
  DEF Create, AddMembers, RemoveMembers, UpdateKeyingMaterial, CommitPendingProposals

\* Between calls memory and keystore agree, unless a call stopped early.
LEMMA DurableStep ==
  ASSUME TypeOK, Next, NEW d \in Client, DurableFor(d), ~StopsEarly(d)
  PROVE  DurableFor(d)'
<1>1. DurableFor(d) /\ mem[d] \in Group /\ call[d] \in Call /\ ~StopsEarly(d)
  BY DEF TypeOK
<1>2. PICK c \in Client :
         \/ Create(c) \/ SendProposal(c) \/ ClearPendingProposal(c)
         \/ PostCommit(c) \/ CommitAccepted(c) \/ ClearPendingCommit(c)
         \/ Decrypt(c) \/ Restore(c) \/ WipeConversation(c) \/ Crash(c)
  BY DEF Next
<1>3. CASE c # d
  <2>1. mem'[d] = mem[d] /\ disk'[d] = disk[d] /\ call'[d] = call[d]
    BY <1>2, <1>3, OthersUntouched
  <2>2. QED
    BY <1>1, <2>1 DEF DurableFor
<1>4. CASE /\ c = d
           /\ \/ Create(d) \/ SendProposal(d) \/ ClearPendingProposal(d)
              \/ PostCommit(d) \/ ClearPendingCommit(d)
  <2>1. /\ call'[d] = call[d]
        /\ (mem'[d] = mem[d] /\ disk'[d] = disk[d]) \/ disk'[d] = mem'[d]
    BY <1>4, SavingSteps
  <2>2. QED
    BY <1>1, <2>1 DEF DurableFor
<1>5. CASE CommitAccepted(d)
  <2>1. \/ mem' = mem /\ disk' = disk /\ call' = call
        \/ \E g : Persist(d, g)
    BY <1>5 DEF CommitAccepted
  <2>2. QED
    BY <1>1, <2>1 DEF DurableFor, Persist, TypeOK
<1>6. CASE Decrypt(d)
  <2>1. PICK packet \in net :
          /\ packet.to = d
          /\ \/ DecryptSimple(d, packet.msg) \/ DecryptCommit(d, packet.msg)
             \/ DecryptFuture(d, packet.msg) \/ DecryptRejected(d, packet.msg)
             \/ DecryptNoGroup(d, packet.msg) \/ ProcessWelcome(d, packet.msg)
    BY <1>6 DEF Decrypt
  <2>2. CASE DecryptCommit(d, packet.msg)
    <3>1. call'[d] # Idle
      BY <1>1, <2>1, <2>2 DEF StopsEarly, RenewalStops
    <3>2. QED
      BY <3>1 DEF DurableFor
  <2>3. CASE \/ DecryptFuture(d, packet.msg) \/ DecryptRejected(d, packet.msg)
             \/ DecryptNoGroup(d, packet.msg)
    BY <1>1, <2>3 DEF DecryptFuture, DecryptRejected, DecryptNoGroup, clientVars, DurableFor
  <2>4. CASE DecryptSimple(d, packet.msg) \/ ProcessWelcome(d, packet.msg)
    <3>1. call' = call /\ ((mem' = mem /\ disk' = disk) \/ \E g : Persist(d, g))
      BY <2>4 DEF DecryptSimple, ProcessWelcome
    <3>2. QED
      BY <1>1, <3>1 DEF DurableFor, Persist, TypeOK
  <2>5. QED
    BY <2>1, <2>2, <2>3, <2>4
<1>7. CASE Restore(d)
  <2>1. CASE RestoreMessage(d)
    <3>1. \E g : Persist(d, g)
      BY <2>1 DEF RestoreMessage
    <3>2. QED
      BY <3>1 DEF DurableFor, Persist, TypeOK
  <2>2. CASE FinishRestore(d)
    BY <1>1, <2>2 DEF FinishRestore, DurableFor, TypeOK
  <2>3. QED
    BY <1>1, <1>7, <2>1, <2>2 DEF Restore, StopsEarly
<1>8. CASE WipeConversation(d) \/ Crash(d)
  BY <1>8 DEF WipeConversation, Crash, Persist, DurableFor, TypeOK
<1>9. QED
  BY <1>2, <1>3, <1>4, <1>5, <1>6, <1>7, <1>8

\* Every call that does not return an error after a merge keeps the promise of
\* the #[durable] marker, for any number of clients, commits, proposals and
\* buffered messages, with lost replies, repeated deliveries and crashes.
THEOREM CallsAreDurable == Spec => DurableUntilError
<1>1. TypeOK /\ [Next]_vars =>
        [\A c \in Client : DurableFor(c) => DurableFor(c)' \/ StopsEarly(c)]_vars
  BY DurableStep
<1>2. QED
  BY <1>1, TypeCorrect, PTL DEF Spec, DurableUntilError

\* So a client that meets no such error is durable all along: between two calls
\* the keystore holds the group that is in memory.
THEOREM DurableUntilEarlyStop == Spec /\ [][NoEarlyStop]_vars => []Durable
<1>1. Init => Durable
  BY DEF Init, Durable, DurableFor
<1>2. TypeOK /\ Durable /\ [Next]_vars /\ [NoEarlyStop]_vars => Durable'
  <2>1. ASSUME Durable, UNCHANGED vars PROVE Durable'
    BY <2>1 DEF Durable, DurableFor, vars
  <2>2. ASSUME TypeOK, Durable, Next, NoEarlyStop, NEW d \in Client PROVE DurableFor(d)'
    BY <2>2, DurableStep DEF Durable, NoEarlyStop
  <2>3. QED
    BY <2>1, <2>2 DEF Durable
<1>3. QED
  BY <1>1, <1>2, TypeCorrect, PTL DEF Spec

\* A message that is not a commit of its receiver and decrypts keeps the epoch.
LEMMA SimpleKeepsEpoch ==
  ASSUME NEW c \in Client, NEW g \in Group, NEW m \in Message,
         m.kind \in {"app", "proposal"}, NEW o \in DecryptOutcomes(c, g, m)
  PROVE  o.g.epoch = g.epoch /\ o.g.status = g.status
<1>1. ~IsSelfCommit(c, m)
  BY DEF IsSelfCommit
<1>2. CASE ParseMessage(g, m) # "Ok"
  BY <1>1, <1>2 DEF DecryptOutcomes, Outcome
<1>3. CASE ParseMessage(g, m) = "Ok" /\ m.kind = "app"
  BY <1>1, <1>3 DEF DecryptOutcomes, Outcome, Group
<1>4. CASE ParseMessage(g, m) = "Ok" /\ m.kind = "proposal"
  BY <1>1, <1>4 DEF DecryptOutcomes, Outcome, Group
<1>5. QED
  BY <1>2, <1>3, <1>4

\* parse_message sets aside messages of the next epoch only.
LEMMA FutureIsNext ==
  ASSUME NEW c \in Client, NEW g \in Group, NEW m \in Message,
         NEW o \in DecryptOutcomes(c, g, m), o.res = "BufferedFutureMessage"
  PROVE  m.epoch = g.epoch + 1 /\ g.status = "operational"
<1>1. CASE IsSelfCommit(c, m)
  BY <1>1 DEF DecryptOutcomes, SelfCommitOutcome, Outcome
<1>2. CASE ~IsSelfCommit(c, m) /\ ParseMessage(g, m) # "Ok"
  <2>1. ParseMessage(g, m) = "BufferedFutureMessage"
    BY <1>2 DEF DecryptOutcomes, Outcome
  <2>2. QED
    BY <2>1 DEF ParseMessage, ParseApp, ParseWrongEpoch
<1>3. CASE ~IsSelfCommit(c, m) /\ ParseMessage(g, m) = "Ok" /\ m.kind \in {"app", "proposal"}
  BY <1>3 DEF DecryptOutcomes, Outcome
<1>4. CASE ~IsSelfCommit(c, m) /\ ParseMessage(g, m) = "Ok" /\ m.kind \notin {"app", "proposal"}
  <2>1. o \in CommitOutcomes(c, g, m)
    BY <1>4 DEF DecryptOutcomes
  <2>2. o.res \in {"Ok", "RenewalFailed"}
    <3>1. \/ \E h : o = Outcome("RenewalFailed", h, FALSE, {}, {})
          \/ \E h, s : o = Outcome("RenewalFailed", h, s, {}, {})
          \/ \E h, s, P : o = Outcome("Ok", h, s, {}, P)
      BY <2>1 DEF CommitOutcomes
    <3>2. QED
      BY <3>1 DEF Outcome
  <2>3. QED
    BY <2>2
<1>5. QED
  BY <1>1, <1>2, <1>3, <1>4

\* The buffer stays ahead of the group, unless a replay is cut short or left out.
LEMMA AheadStep ==
  ASSUME TypeOK, Durable, \A c \in Client : AheadFor(c), Next, EveryReplayEnds,
         NEW d \in Client
  PROVE  AheadFor(d)'
<1>1. /\ DurableFor(d) /\ AheadFor(d) /\ mem[d] \in Group /\ call[d] \in Call
      /\ ~StopsEarly(d) /\ ~MergesEcho(d) /\ ~CrashesInCall(d)
  BY DEF Durable, DurableFor, TypeOK, EveryReplayEnds
<1>2. PICK c \in Client :
         \/ Create(c) \/ SendProposal(c) \/ ClearPendingProposal(c)
         \/ PostCommit(c) \/ CommitAccepted(c) \/ ClearPendingCommit(c)
         \/ Decrypt(c) \/ Restore(c) \/ WipeConversation(c) \/ Crash(c)
  BY DEF Next
<1>k. ASSUME mem'[d].epoch = mem[d].epoch, mem'[d].status = mem[d].status,
             call'[d] = call[d], buf'[d] = buf[d]
      PROVE  AheadFor(d)'
  BY <1>1, <1>k DEF AheadFor
<1>3. CASE c # d
  <2>1. mem'[d] = mem[d] /\ call'[d] = call[d] /\ buf'[d] = buf[d]
    BY <1>2, <1>3, OthersUntouched
  <2>2. QED
    BY <1>k, <2>1
<1>4. CASE /\ c = d
           /\ \/ Create(d) \/ SendProposal(d) \/ ClearPendingProposal(d)
              \/ PostCommit(d) \/ ClearPendingCommit(d)
  <2>1. /\ call'[d] = call[d] /\ buf'[d] = buf[d]
        /\ mem'[d].epoch = mem[d].epoch /\ mem'[d].status = mem[d].status
    BY <1>4, SavingSteps
  <2>2. QED
    BY <1>k, <2>1
<1>5. CASE CommitAccepted(d)
  <2>1. CASE mem' = mem /\ call' = call
    BY <1>5, <1>k, <2>1 DEF CommitAccepted
  <2>2. CASE call' = [call EXCEPT ![d] = [Idle EXCEPT !.op = "accepted", !.todo = buf[d]]]
    <3>1. [Idle EXCEPT !.op = "accepted", !.todo = buf[d]].op = "accepted"
      BY DEF Idle
    <3>2. call'[d].op = "accepted"
      BY <2>2, <3>1 DEF TypeOK
    <3>3. call'[d] # Idle
      BY <3>2 DEF Idle
    <3>4. QED
      BY <3>2, <3>3 DEF AheadFor
  <2>3. QED
    BY <1>5, <2>1, <2>2 DEF CommitAccepted
<1>6. CASE Decrypt(d)
  <2>1. PICK packet \in net :
          /\ packet.to = d
          /\ \/ DecryptSimple(d, packet.msg) \/ DecryptCommit(d, packet.msg)
             \/ DecryptFuture(d, packet.msg) \/ DecryptRejected(d, packet.msg)
             \/ DecryptNoGroup(d, packet.msg) \/ ProcessWelcome(d, packet.msg)
    BY <1>6 DEF Decrypt
  <2> DEFINE m == packet.msg
  <2>2. m.kind # "welcome" => m \in Message
    BY DEF TypeOK, Packet, Welcome
  <2>3. CASE DecryptCommit(d, m)
    <3>1. call'[d] # Idle
      BY <1>1, <2>1, <2>3 DEF StopsEarly, RenewalStops
    <3>2. call' = call \/ \E x, y, z : call' = [call EXCEPT ![d] =
                            [op |-> "decrypt", outer |-> x, todo |-> y, apps |-> {}, props |-> z]]
      BY <2>3 DEF DecryptCommit
    <3>3. call[d] = Idle
      BY <2>3 DEF DecryptCommit, Receives
    <3>4. call'[d].op = "decrypt"
      BY <3>1, <3>2, <3>3 DEF TypeOK
    <3>5. QED
      BY <3>1, <3>4 DEF AheadFor
  <2>4. CASE DecryptRejected(d, m) \/ DecryptNoGroup(d, m)
    BY <1>k, <2>4 DEF DecryptRejected, DecryptNoGroup, clientVars
  <2>5. CASE DecryptFuture(d, m)
    <3>1. PICK o \in DecryptOutcomes(d, mem[d], m) : o.res = "BufferedFutureMessage"
      BY <2>5 DEF DecryptFuture
    <3>2. m.epoch = mem[d].epoch + 1 /\ mem[d].status = "operational"
      BY <1>1, <2>2, <2>5, <3>1, FutureIsNext DEF DecryptFuture
    <3>3. PICK b \in Save(buf[d], m) : buf' = [buf EXCEPT ![d] = b]
      BY <2>5 DEF DecryptFuture
    <3>4. \A r \in buf'[d] : r \in buf[d] \/ r.msg = m
      BY <3>3, SaveOK DEF TypeOK
    <3>5. mem' = mem /\ call' = call /\ call[d] = Idle
      BY <2>5 DEF DecryptFuture, Receives
    <3>6. mem[d].epoch \in Nat
      BY <1>1 DEF Group
    <3>7. \A r \in buf[d] : r.msg.epoch > mem[d].epoch
      BY <1>1, <3>2, <3>5 DEF AheadFor
    <3>8. m.epoch > mem[d].epoch
      BY <3>2, <3>6
    <3>9. \A r \in buf'[d] : r.msg.epoch > mem[d].epoch
      BY <3>4, <3>7, <3>8
    <3>10. call'[d].op # "wipe"
      BY <3>5 DEF Idle
    <3>11. QED
      BY <3>2, <3>5, <3>9, <3>10 DEF AheadFor
  <2>6. CASE DecryptSimple(d, m)
    <3>1. ~IsSelfCommit(d, m) /\ m.kind \in {"app", "proposal"}
      BY <1>1, <2>1, <2>6 DEF MergesEcho, DecryptSimple
    <3>2. PICK o \in DecryptOutcomes(d, mem[d], m) : Persist(d, o.g)
      BY <2>6 DEF DecryptSimple
    <3>3. o.g.epoch = mem[d].epoch /\ o.g.status = mem[d].status
      BY <1>1, <2>2, <3>1, SimpleKeepsEpoch
    <3>4. mem'[d] = o.g
      BY <3>2 DEF Persist, TypeOK
    <3>5. call'[d] = call[d] /\ buf'[d] = buf[d]
      BY <2>6 DEF DecryptSimple
    <3>6. QED
      BY <1>k, <3>3, <3>4, <3>5
  <2>7. CASE ProcessWelcome(d, m)
    <3>1. call[d] = Idle /\ call' = call /\ buf' = buf
      BY <2>7 DEF ProcessWelcome
    <3>2. CASE mem[d].status = "none"
      <4>1. buf'[d] = {}
        BY <1>1, <3>1, <3>2 DEF AheadFor
      <4>2. QED
        BY <4>1 DEF AheadFor
    <3>3. CASE mem[d].status # "none"
      BY <1>k, <2>7, <3>1, <3>3 DEF ProcessWelcome
    <3>4. QED
      BY <3>2, <3>3
  <2>8. QED
    BY <2>1, <2>3, <2>4, <2>5, <2>6, <2>7
<1>7. CASE Restore(d)
  <2>1. CASE RestoreMessage(d)
    <3>1. \E x, y, z : call' = [call EXCEPT ![d].todo = x, ![d].apps = y, ![d].props = z]
      BY <2>1 DEF RestoreMessage
    <3>2. call'[d].op = call[d].op
      BY <1>1, <3>1 DEF TypeOK, Call
    <3>3. call'[d].op \in {"decrypt", "accepted"}
      BY <2>1, <3>2 DEF RestoreMessage, Replaying
    <3>4. call'[d] # Idle
      BY <3>3 DEF Idle
    <3>5. QED
      BY <3>3, <3>4 DEF AheadFor
  <2>2. CASE FinishRestore(d)
    <3>1. buf'[d] = {}
      BY <2>2 DEF FinishRestore, TypeOK
    <3>2. QED
      BY <3>1 DEF AheadFor
  <2>3. QED
    BY <1>1, <1>7, <2>1, <2>2 DEF Restore, StopsEarly
<1>8. CASE WipeConversation(d)
  <2>1. buf'[d] = {}
    BY <1>1, <1>8 DEF WipeConversation, AheadFor
  <2>2. QED
    BY <2>1 DEF AheadFor
<1>9. CASE Crash(d)
  <2>1. call[d] = Idle
    BY <1>1, <1>9 DEF CrashesInCall
  <2>2. mem'[d] = mem[d] /\ call'[d] = call[d] /\ buf'[d] = buf[d]
    BY <1>1, <1>9, <2>1 DEF Crash, DurableFor, TypeOK
  <2>3. QED
    BY <1>k, <2>2
<1>10. QED
  BY <1>2, <1>3, <1>4, <1>5, <1>6, <1>7, <1>8, <1>9

\* A message that was buffered is replayed as soon as the client is in its epoch,
\* as long as every replay runs to its end and every merge is followed by one
\* (restore_pending_messages in decrypt.rs and merge.rs; not in self_commit.rs).
THEOREM ReplayedInTime == Spec /\ [][EveryReplayEnds]_vars => []BufferReplayed
<1> DEFINE Ahead == \A c \in Client : AheadFor(c)
<1>1. Init => Durable /\ Ahead
  BY DEF Init, Durable, DurableFor, AheadFor, Idle
<1>2. TypeOK /\ Durable /\ Ahead /\ [Next]_vars /\ [EveryReplayEnds]_vars => Durable' /\ Ahead'
  <2>1. ASSUME Durable, Ahead, UNCHANGED vars PROVE Durable' /\ Ahead'
    BY <2>1 DEF Durable, DurableFor, AheadFor, vars
  <2>2. ASSUME TypeOK, Durable, Next, EveryReplayEnds, NEW d \in Client PROVE DurableFor(d)'
    BY <2>2, DurableStep DEF Durable, EveryReplayEnds
  <2>3. TypeOK /\ Durable /\ Next /\ EveryReplayEnds => Durable'
    BY <2>2 DEF Durable
  <2>4. QED
    BY <2>1, <2>3, AheadStep
<1>3. Ahead => BufferReplayed
  BY DEF AheadFor, BufferReplayed
<1> HIDE DEF Ahead
<1>4. QED
  BY <1>1, <1>2, <1>3, TypeCorrect, PTL DEF Spec

-----------------------------------------------------------------------------
(* CommitsDecryptable, when the applications make no proposals but updates *)
(* of their own leaf (renewals of a lost commit included).  Two proposals  *)
(* then differ in what is_duplicate_message looks at, and a client commits *)
(* only what it was sent.                                                  *)

UpdatesOnly == ~Overwrite /\ Kinds \subseteq {"update"}

\* The update that p.sender proposes in epoch p.at.
IsUpdate(p) == p = UpdateProposal(p.sender, p.at)

\* m is a proposal about p.
Carries(m, p) == m.kind = "proposal" /\ m.prop = p

\* A message that may be on its way or in a buffer.
MailOK(m) ==
  /\ m.kind # "welcome"
  /\ m.kind = "proposal" => IsUpdate(m.prop) /\ m.prop.at = m.epoch

\* Nobody joins or leaves, and a group holds updates of its own epoch.
Holder(c, g) ==
  /\ IF c \in Founders THEN g.status = "operational" ELSE g = NoGroup
  /\ \A p \in g.props : IsUpdate(p) /\ p.at = g.epoch

\* A commit names updates of others, of its epoch.
CommitOfUpdates(cm) ==
  /\ cm.inline = {}
  /\ \A p \in cm.refs : IsUpdate(p) /\ p.at = cm.epoch /\ p.sender # cm.sender

\* c has p in its store, or is past its epoch, after a crash too.
Holds(c, p) ==
  \A g \in {mem[c], disk[c]} : p.at < g.epoch \/ (p.at = g.epoch /\ p \in g.props)

\* The keystore is behind memory by merges alone: nothing was stored in between,
\* and the commits merged named nothing that the keystore does not have.
Behind(c) ==
  /\ disk[c] = mem[c] \/ (disk[c].epoch < mem[c].epoch /\ mem[c].props = {})
  /\ \A e \in Nat :
       disk[c].epoch <= e /\ e < mem[c].epoch /\ log[e + 1].sender # c =>
         \A p \in log[e + 1].refs : e = disk[c].epoch /\ p \in disk[c].props

\* What c's application was given to send, or will be, are its own updates.
Outgoing(c) == outbox[c] \cup call[c].props

OwnUpdates(c) ==
  /\ outbox[c] \cap call[c].props = {}
  /\ \A m \in Outgoing(c) : m.prop = UpdateProposal(c, m.epoch) /\ Holds(c, m.prop)

\* What has been replayed is in memory.
ReplayHeld(c) ==
  Replaying(c) =>
    \A r \in buf[c] \ call[c].todo : r.msg.kind = "proposal" =>
      \/ r.msg.prop.at < mem[c].epoch
      \/ r.msg.prop.at = mem[c].epoch /\ r.msg.prop \in mem[c].props

LocalUpdates(c) ==
  /\ Holder(c, mem[c]) /\ Holder(c, disk[c])
  /\ Behind(c) /\ OwnUpdates(c) /\ ReplayHeld(c)
  /\ call[c].op # "wipe"
  /\ \A r \in buf[c] \cup call[c].todo : MailOK(r.msg)

\* The DS has fanned p out: it is with somebody else than its sender, or on its way.
Sent(p) ==
  \/ \E packet \in net : Carries(packet.msg, p)
  \/ \E c \in Client : \E r \in buf[c] \cup call[c].todo : Carries(r.msg, p)
  \/ \E c \in Client : c # p.sender /\ (p \in mem[c].props \/ p \in disk[c].props)
  \/ \E cm \in created : p \in cm.refs

\* p is on its way to d or in its buffer.
Coming(d, p) ==
  \/ \E packet \in net : packet.to = d /\ Carries(packet.msg, p)
  \/ \E r \in buf[d] : Carries(r.msg, p)

\* The commit that ended the epoch of p does not name it, or is d's own.
Past(d, p) ==
  p.at < Len(log) /\ (p \notin log[p.at + 1].refs \/ log[p.at + 1].sender = d)

Reaches(d, p) ==
  IF d = p.sender THEN Holds(d, p) /\ \A m \in Outgoing(d) : m.prop # p
  ELSE Past(d, p) \/ Coming(d, p) \/ Holds(d, p)

UpdatesInv ==
  /\ \A c \in Client : LocalUpdates(c)
  /\ \A packet \in net : MailOK(packet.msg)
  /\ \A cm \in created : CommitOfUpdates(cm)
  /\ \A i \in 1..Len(rosters) : rosters[i] = Founders
  /\ \A p \in Proposal : Sent(p) => \A d \in Founders : Reaches(d, p)

\* What a step may do to the groups of c: nothing, fall back on the keystore,
\* store proposals and save, or merge a commit.  A merge that is not saved is of
\* the accepted commit of another client, and leaves no proposal.
Moved(c) ==
  \/ mem'[c] = mem[c] /\ disk'[c] = disk[c]
  \/ mem'[c] = disk[c] /\ disk'[c] = disk[c]
  \/ /\ mem'[c].epoch = mem[c].epoch /\ mem[c].props \subseteq mem'[c].props
     /\ disk'[c] = mem'[c]
  \/ mem'[c].epoch = mem[c].epoch + 1 /\ disk'[c] = mem'[c]
  \/ /\ mem'[c].epoch = mem[c].epoch + 1 /\ mem'[c].props = {}
     /\ disk'[c] = disk[c]
     /\ mem[c].epoch < Len(log)
     /\ log[mem[c].epoch + 1].sender # c => log[mem[c].epoch + 1].refs \subseteq mem[c].props

\* The history only grows.
LogKept == Len(log) <= Len(log') /\ \A e \in 1..Len(log) : log'[e] = log[e]

\* The types the proofs below need.
LEMMA Typed ==
  ASSUME TypeOK, NEW c \in Client
  PROVE  /\ mem[c] \in Group /\ disk[c] \in Group /\ call[c] \in Call
         /\ mem[c].epoch \in Nat /\ disk[c].epoch \in Nat
         /\ mem[c].props \in SUBSET Proposal /\ disk[c].props \in SUBSET Proposal
         /\ buf[c] \in SUBSET Row /\ call[c].todo \in SUBSET Row
         /\ outbox[c] \in SUBSET ProposalMsg /\ call[c].props \in SUBSET ProposalMsg
         /\ Len(log) \in Nat
BY DEF TypeOK, Group, Call

\* Proposals are of an epoch.
LEMMA ProposalFields ==
  ASSUME NEW p \in Proposal
  PROVE  p.at \in Nat
BY DEF Proposal

\* No group is ahead of the history.
LEMMA NotAhead ==
  ASSUME Inv, NEW c \in Client, LocalUpdates(c)
  PROVE  mem[c].epoch <= Len(log) /\ disk[c].epoch <= Len(log)
<1>1. TypeOK /\ GroupOK(mem[c], log, rosters, created) /\ GroupOK(disk[c], log, rosters, created)
  BY DEF Inv, GroupsAgree
<1>2. Len(log) \in Nat
  BY <1>1, Typed
<1>3. ASSUME NEW g, Holder(c, g), GroupOK(g, log, rosters, created)
      PROVE  g.epoch <= Len(log)
  <2>1. CASE c \in Founders
    BY <1>3, <2>1 DEF Holder, GroupOK
  <2>2. CASE c \notin Founders
    <3>1. g.epoch = 0
      BY <1>3, <2>2 DEF Holder, NoGroup, NewGroup
    <3>2. QED
      BY <1>2, <3>1
  <2>3. QED
    BY <2>1, <2>2
<1>4. QED
  BY <1>1, <1>3 DEF LocalUpdates

\* What a group holds it still holds after a move.
LEMMA MovedHolds ==
  ASSUME TypeOK, TypeOK', NEW c \in Client, Moved(c), NEW p \in Proposal, Holds(c, p)
  PROVE  Holds(c, p)'
<1>1. /\ mem[c].epoch \in Nat /\ disk[c].epoch \in Nat /\ p.at \in Nat
  BY Typed, ProposalFields
<1>2. /\ p.at < mem[c].epoch \/ (p.at = mem[c].epoch /\ p \in mem[c].props)
      /\ p.at < disk[c].epoch \/ (p.at = disk[c].epoch /\ p \in disk[c].props)
  BY DEF Holds
<1>3. /\ p.at < mem'[c].epoch \/ (p.at = mem'[c].epoch /\ p \in mem'[c].props)
      /\ p.at < disk'[c].epoch \/ (p.at = disk'[c].epoch /\ p \in disk'[c].props)
  <2>1. CASE mem'[c] = mem[c] /\ disk'[c] = disk[c]
    BY <1>2, <2>1
  <2>2. CASE mem'[c] = disk[c] /\ disk'[c] = disk[c]
    BY <1>2, <2>2
  <2>3. CASE mem'[c].epoch = mem[c].epoch /\ mem[c].props \subseteq mem'[c].props /\ disk'[c] = mem'[c]
    BY <1>2, <2>3
  <2>4. CASE mem'[c].epoch = mem[c].epoch + 1 /\ (disk'[c] = mem'[c] \/ disk'[c] = disk[c])
    <3>1. p.at < mem'[c].epoch
      BY <1>1, <1>2, <2>4
    <3>2. QED
      BY <1>2, <2>4, <3>1
  <2>5. QED
    BY <2>1, <2>2, <2>3, <2>4 DEF Moved
<1>4. QED
  BY <1>3 DEF Holds

\* The keystore stays behind memory by merges alone.
LEMMA MovedBehind ==
  ASSUME Inv, TypeOK', NEW c \in Client, LocalUpdates(c), Moved(c), LogKept
  PROVE  Behind(c)'
<1>1. /\ mem[c].epoch \in Nat /\ disk[c].epoch \in Nat /\ Len(log) \in Nat
      /\ mem[c].epoch <= Len(log)
  BY Typed, NotAhead DEF Inv
<1>t. mem'[c].epoch \in Nat /\ disk'[c].epoch \in Nat
  BY DEF TypeOK, Group
<1>2. /\ disk[c] = mem[c] \/ (disk[c].epoch < mem[c].epoch /\ mem[c].props = {})
      /\ \A e \in Nat :
           disk[c].epoch <= e /\ e < mem[c].epoch /\ log[e + 1].sender # c =>
             \A p \in log[e + 1].refs : e = disk[c].epoch /\ p \in disk[c].props
  BY DEF LocalUpdates, Behind
<1>3. ASSUME disk'[c] = mem'[c]
      PROVE  Behind(c)'
  <2>1. ~ \E e \in Nat : disk'[c].epoch <= e /\ e < mem'[c].epoch
    BY <1>t, <1>3
  <2>2. QED
    BY <1>3, <2>1 DEF Behind
<1>4. \A e \in Nat : e < Len(log) => log'[e + 1] = log[e + 1]
  <2>1. \A e \in Nat : e < Len(log) => e + 1 \in 1..Len(log)
    BY <1>1
  <2>2. QED
    BY <2>1 DEF LogKept
<1>5. CASE mem'[c] = mem[c] /\ disk'[c] = disk[c]
  <2>1. ASSUME NEW e \in Nat, disk[c].epoch <= e, e < mem[c].epoch, log'[e + 1].sender # c,
               NEW p \in log'[e + 1].refs
        PROVE  e = disk[c].epoch /\ p \in disk[c].props
    <3>1. log'[e + 1] = log[e + 1]
      BY <1>1, <1>4, <2>1
    <3>2. QED
      BY <1>2, <2>1, <3>1
  <2>2. QED
    BY <1>2, <1>5, <2>1 DEF Behind
<1>6. CASE /\ mem'[c].epoch = mem[c].epoch + 1 /\ mem'[c].props = {} /\ disk'[c] = disk[c]
           /\ mem[c].epoch < Len(log)
           /\ log[mem[c].epoch + 1].sender # c => log[mem[c].epoch + 1].refs \subseteq mem[c].props
  <2>1. disk'[c].epoch < mem'[c].epoch
    BY <1>1, <1>2, <1>6
  <2>2. ASSUME NEW e \in Nat, disk[c].epoch <= e, e < mem[c].epoch + 1, log'[e + 1].sender # c,
               NEW p \in log'[e + 1].refs
        PROVE  e = disk[c].epoch /\ p \in disk[c].props
    <3>1. log'[e + 1] = log[e + 1]
      BY <1>1, <1>4, <1>6, <2>2
    <3>2. CASE e < mem[c].epoch
      BY <1>2, <2>2, <3>1, <3>2
    <3>3. CASE e = mem[c].epoch
      <4>1. p \in mem[c].props
        BY <1>6, <2>2, <3>1, <3>3
      <4>2. disk[c] = mem[c]
        BY <1>2, <4>1
      <4>3. QED
        BY <3>3, <4>1, <4>2
    <3>4. QED
      BY <1>1, <2>2, <3>2, <3>3
  <2>3. QED
    BY <1>6, <2>1, <2>2 DEF Behind
<1>7. CASE mem'[c] = disk[c] /\ disk'[c] = disk[c]
  BY <1>3, <1>7
<1>8. QED
  BY <1>3, <1>5, <1>6, <1>7 DEF Moved

\* What is past for d stays past.
LEMMA PastStays ==
  ASSUME TypeOK, LogKept, NEW d, NEW p \in Proposal, Past(d, p)
  PROVE  Past(d, p)'
<1>1. Len(log) \in Nat /\ p.at \in Nat
  BY ProposalFields DEF TypeOK
<1>2. p.at + 1 \in 1..Len(log)
  BY <1>1 DEF Past
<1>3. log'[p.at + 1] = log[p.at + 1] /\ Len(log) <= Len(log')
  BY <1>2 DEF LogKept
<1>4. p.at < Len(log')
  BY <1>1, <1>3 DEF Past
<1>5. QED
  BY <1>3, <1>4 DEF Past

\* A step of c leaves the other clients alone.
Elsewhere(c) ==
  \A d \in Client : d # c =>
    /\ mem'[d] = mem[d] /\ disk'[d] = disk[d] /\ buf'[d] = buf[d]
    /\ call'[d] = call[d] /\ outbox'[d] = outbox[d]

\* What a step of c does to the DS: it takes no mail of others off the network,
\* sends no proposal, and no commit is created of what was not sent.
Orderly(c) ==
  /\ Elsewhere(c) /\ LogKept
  /\ \A packet \in net : packet.to # c => packet \in net'
  /\ \A packet \in net' : MailOK(packet.msg) /\ (packet.msg.kind = "proposal" => packet \in net)
  /\ \A cm \in created' : CommitOfUpdates(cm) /\ \A p \in cm.refs : Sent(p)
  /\ \A i \in 1..Len(rosters') : rosters'[i] = Founders

\* What it may do to c: nothing new but what was sent.
NothingNew(c) ==
  /\ \A p \in mem'[c].props \cup disk'[c].props : p.sender # c => Sent(p)
  /\ \A r \in buf'[c] \cup call'[c].todo : r.msg.kind = "proposal" => Sent(r.msg.prop)

\* What was sent to c is not lost, and c's own proposals are sent once.
NothingLost(c) ==
  /\ \A p \in Proposal : Sent(p) /\ Holds(c, p) => Holds(c, p)'
  /\ c \in Founders =>
       \A p \in Proposal : Coming(c, p) => Coming(c, p)' \/ Past(c, p)' \/ Holds(c, p)'
  /\ \A m \in Outgoing(c)' : m \in Outgoing(c) \/ ~Sent(m.prop)

\* The part of the invariant about one client depends on its state and the history.
LEMMA LocalStays ==
  ASSUME Inv, TypeOK', LogKept, NEW d \in Client, LocalUpdates(d),
         mem'[d] = mem[d], disk'[d] = disk[d], buf'[d] = buf[d],
         call'[d] = call[d], outbox'[d] = outbox[d]
  PROVE  LocalUpdates(d)'
<1>1. Behind(d)'
  BY MovedBehind DEF Moved
<1>2. Holder(d, mem[d])' /\ Holder(d, disk[d])'
  BY DEF LocalUpdates, Holder
<1>3. OwnUpdates(d)'
  BY DEF LocalUpdates, OwnUpdates, Outgoing, Holds
<1>4. ReplayHeld(d)'
  BY DEF LocalUpdates, ReplayHeld, Replaying
<1>5. call'[d].op # "wipe" /\ \A r \in buf'[d] \cup call'[d].todo : MailOK(r.msg)
  BY DEF LocalUpdates
<1>6. (\A r \in buf[d] \cup call[d].todo : MailOK(r.msg))'
  BY <1>5 DEF MailOK
<1>7. QED
  BY <1>1, <1>2, <1>3, <1>4, <1>5, <1>6 DEF LocalUpdates

\* What reaches another client still reaches it.
LEMMA ReachesOthers ==
  ASSUME TypeOK, NEW c \in Client, Elsewhere(c), LogKept,
         \A packet \in net : packet.to # c => packet \in net',
         NEW d \in Client, d # c, NEW p \in Proposal, Reaches(d, p)
  PROVE  Reaches(d, p)'
<1>1. /\ mem'[d] = mem[d] /\ disk'[d] = disk[d] /\ buf'[d] = buf[d]
      /\ call'[d] = call[d] /\ outbox'[d] = outbox[d]
  BY DEF Elsewhere
<1>2. CASE d = p.sender
  BY <1>1, <1>2 DEF Reaches, Holds, Outgoing
<1>3. CASE d # p.sender
  <2>1. Past(d, p) => Past(d, p)'
    BY PastStays
  <2>2. Coming(d, p) => Coming(d, p)'
    BY <1>1 DEF Coming
  <2>3. Holds(d, p) => Holds(d, p)'
    BY <1>1 DEF Holds
  <2>4. QED
    BY <1>3, <2>1, <2>2, <2>3 DEF Reaches
<1>4. QED
  BY <1>2, <1>3

\* An orderly step sends nothing.
LEMMA NotSent ==
  ASSUME NEW c \in Client, Orderly(c), NothingNew(c), NEW p \in Proposal, Sent(p)'
  PROVE  Sent(p)
<1>1. CASE \E packet \in net' : Carries(packet.msg, p)
  BY <1>1 DEF Orderly, Carries, Sent
<1>2. ASSUME NEW d \in Client, NEW r \in buf'[d] \cup call'[d].todo, Carries(r.msg, p)
      PROVE  Sent(p)
  <2>1. CASE d = c
    BY <1>2, <2>1 DEF NothingNew, Carries
  <2>2. CASE d # c
    <3>1. r \in buf[d] \cup call[d].todo
      BY <1>2, <2>2 DEF Orderly, Elsewhere
    <3>2. QED
      BY <1>2, <3>1 DEF Sent
  <2>3. QED
    BY <2>1, <2>2
<1>3. ASSUME NEW d \in Client, d # p.sender, p \in mem'[d].props \/ p \in disk'[d].props
      PROVE  Sent(p)
  <2>1. CASE d = c
    BY <1>3, <2>1 DEF NothingNew
  <2>2. CASE d # c
    <3>1. p \in mem[d].props \/ p \in disk[d].props
      BY <1>3, <2>2 DEF Orderly, Elsewhere
    <3>2. QED
      BY <1>3, <3>1 DEF Sent
  <2>3. QED
    BY <2>1, <2>2
<1>4. CASE \E cm \in created' : p \in cm.refs
  BY <1>4 DEF Orderly
<1>5. \/ \E packet \in net' : Carries(packet.msg, p)
      \/ \E d \in Client : \E r \in buf'[d] \cup call'[d].todo : Carries(r.msg, p)
      \/ \E d \in Client : d # p.sender /\ (p \in mem'[d].props \/ p \in disk'[d].props)
      \/ \E cm \in created' : p \in cm.refs
  BY DEF Sent, Carries
<1>6. QED
  BY <1>1, <1>2, <1>3, <1>4, <1>5

\* What reaches the acting client still reaches it.
LEMMA ReachesActor ==
  ASSUME TypeOK, NEW c \in Client, c \in Founders, LogKept, NothingLost(c),
         NEW p \in Proposal, Sent(p), Reaches(c, p)
  PROVE  Reaches(c, p)'
<1>1. Holds(c, p) => Holds(c, p)'
  BY DEF NothingLost
<1>2. CASE c = p.sender
  <2>1. Holds(c, p)'
    BY <1>1, <1>2 DEF Reaches
  <2>2. \A m \in Outgoing(c)' : m.prop # p
    BY <1>2 DEF Reaches, NothingLost
  <2>3. QED
    BY <1>2, <2>1, <2>2 DEF Reaches
<1>3. CASE c # p.sender
  <2>1. Past(c, p) => Past(c, p)'
    BY PastStays
  <2>2. Coming(c, p) => Coming(c, p)' \/ Past(c, p)' \/ Holds(c, p)'
    BY DEF NothingLost
  <2>3. QED
    BY <1>1, <1>3, <2>1, <2>2 DEF Reaches
<1>4. QED
  BY <1>2, <1>3

\* An orderly step of c that loses nothing keeps the invariant.
LEMMA OrderlyStep ==
  ASSUME Inv, TypeOK', UpdatesInv, NEW c \in Client,
         Orderly(c), NothingNew(c), NothingLost(c), LocalUpdates(c)'
  PROVE  UpdatesInv'
<1>1. TypeOK /\ Elsewhere(c) /\ LogKept /\ \A packet \in net : packet.to # c => packet \in net'
  BY DEF Inv, Orderly
<1>2. ASSUME NEW d \in Client PROVE LocalUpdates(d)'
  <2>1. CASE d = c
    BY <2>1
  <2>2. CASE d # c
    <3>1. /\ mem'[d] = mem[d] /\ disk'[d] = disk[d] /\ buf'[d] = buf[d]
          /\ call'[d] = call[d] /\ outbox'[d] = outbox[d] /\ LocalUpdates(d)
      BY <1>1, <2>2 DEF Elsewhere, UpdatesInv
    <3>2. QED
      BY <1>1, <3>1, LocalStays
  <2>3. QED
    BY <2>1, <2>2
<1>3. ASSUME NEW p \in Proposal, Sent(p)', NEW d \in Founders PROVE Reaches(d, p)'
  <2>1. Sent(p) /\ d \in Client
    BY <1>3, NotSent, ConversationAssumption
  <2>2. Reaches(d, p)
    BY <2>1 DEF UpdatesInv
  <2>3. CASE d = c
    BY <1>1, <2>1, <2>2, <2>3, ReachesActor
  <2>4. CASE d # c
    BY <1>1, <2>1, <2>2, <2>4, ReachesOthers
  <2>5. QED
    BY <2>3, <2>4
<1>4. /\ (\A packet \in net : MailOK(packet.msg))'
      /\ (\A cm \in created : CommitOfUpdates(cm))'
      /\ (\A i \in 1..Len(rosters) : rosters[i] = Founders)'
  BY DEF Orderly, MailOK, CommitOfUpdates
<1>5. QED
  BY <1>2, <1>3, <1>4 DEF UpdatesInv

-----------------------------------------------------------------------------
(* What decrypting a message does to a group, when there are only updates. *)

\* A commit of updates moves the group to the next epoch and removes nobody.
LEMMA MergeOfUpdates ==
  ASSUME NEW c \in Client, NEW g \in Group, NEW cm \in Commit, CommitOfUpdates(cm)
  PROVE  /\ Merge(c, g, cm).epoch = g.epoch + 1
         /\ Merge(c, g, cm).status = g.status
         /\ Merge(c, g, cm).props = {}
         /\ \A P : /\ RenewIn(Merge(c, g, cm), P).epoch = g.epoch + 1
                   /\ RenewIn(Merge(c, g, cm), P).status = g.status
                   /\ RenewIn(Merge(c, g, cm), P).props = P
<1>1. Removed(cm) = {}
  BY DEF Removed, Queued, CommitOfUpdates, IsUpdate, UpdateProposal
<1>2. /\ Merge(c, g, cm).epoch = g.epoch + 1
      /\ Merge(c, g, cm).status = g.status
      /\ Merge(c, g, cm).props = {}
  BY <1>1 DEF Merge, Group
<1>3. Merge(c, g, cm) \in Group
  BY MergeType
<1>4. QED
  BY <1>2, <1>3 DEF RenewIn, Group

\* Only updates are renewed, as updates of the new epoch.
LEMMA RenewalsAreUpdates ==
  ASSUME NEW c \in Client, NEW g \in Group, Holder(c, g),
         g.pc # NoCommit => CommitOfUpdates(g.pc),
         NEW cm, NEW e, NEW p \in ProposalsToRenew(c, g, cm)
  PROVE  RenewedProposal(c, e, p) = UpdateProposal(c, e)
<1>1. IsUpdate(p)
  BY DEF ProposalsToRenew, SelfPendingProposals, Queued, Holder, CommitOfUpdates
<1>2. p.kind = "update"
  BY <1>1 DEF IsUpdate, UpdateProposal
<1>3. QED
  BY <1>2 DEF RenewedProposal

\* The message that proposes c's update of epoch e.
UpdateMsg(c, e) == [kind |-> "proposal", epoch |-> e, prop |-> UpdateProposal(c, e)]

\* The outcome of a message that c decrypts in group g.
Merges(c, g, m, o) ==
  /\ m.kind = "commit"
  /\ o.g.epoch = g.epoch + 1 /\ o.g.status = g.status
  /\ o.g.props \subseteq {UpdateProposal(c, g.epoch + 1)}
  /\ o.saved \/ o.g.props = {}
  /\ o.props \subseteq {UpdateMsg(c, g.epoch + 1)}
  /\ o.props # {} => o.g.props # {} /\ o.saved
  /\ m.sender # c => m.epoch = g.epoch /\ m.refs \subseteq g.props
  /\ m.sender = c => o.props = {} /\ o.saved

Stores(c, g, m, o) ==
  /\ o.res = "Ok" /\ o.props = {}
  /\ o.g.epoch = g.epoch /\ o.g.status = g.status
  /\ \/ m.kind = "app" /\ o.g.props = g.props
     \/ m.kind = "proposal" /\ m.epoch = g.epoch /\ o.g.props = g.props \cup {m.prop}

Fails(c, g, m, o) == o.res \notin {"Ok", "RenewalFailed"} /\ o.g = g /\ o.saved = FALSE

\* Merging somebody else's commit.
LEMMA CommitMerges ==
  ASSUME NEW c \in Client, NEW g \in Group, Holder(c, g),
         g.pc # NoCommit => CommitOfUpdates(g.pc), g.status = "operational",
         NEW m \in Commit, CommitOfUpdates(m), ParseMessage(g, m) = "Ok", m.sender # c,
         NEW o \in CommitOutcomes(c, g, m)
  PROVE  Merges(c, g, m, o)
<1> DEFINE merged == Merge(c, g, m)
           todo == ProposalsToRenew(c, g, m)
           failing == {p \in todo : RenewalFails(c, p)}
           update == IF NeedsUpdate(c, g, m) THEN {UpdateProposal(c, merged.epoch)} ELSE {}
           Renewed(S) == {RenewedProposal(c, merged.epoch, p) : p \in S}
           With(S) == RenewIn(merged, S)
           Msgs(S) == {[kind |-> "proposal", epoch |-> merged.epoch, prop |-> p] : p \in S}
           all == Renewed(todo) \cup update
           u == UpdateProposal(c, g.epoch + 1)
<1>1. /\ merged.epoch = g.epoch + 1 /\ merged.status = g.status /\ merged.props = {}
      /\ \A P : With(P).epoch = g.epoch + 1 /\ With(P).status = g.status /\ With(P).props = P
  BY MergeOfUpdates
<1>2. merged.status # "inactive"
  BY <1>1
<1>3. \A S \in SUBSET todo : Renewed(S) \subseteq {u}
  BY <1>1, RenewalsAreUpdates
<1>4. update \subseteq {u}
  BY <1>1
<1>5. \/ \E S \in SUBSET todo : o = Outcome("RenewalFailed", With(Renewed(S)), S # {}, {}, {})
      \/ o = Outcome("Ok", With(all), all # {}, {}, Msgs(all))
  BY <1>2 DEF CommitOutcomes
<1>6. m.epoch = g.epoch /\ m.refs \subseteq g.props
  <2>1. m.epoch = g.epoch
    BY CommitParsedInEpoch
  <2>2. QED
    BY <2>1 DEF ParseMessage, Commit
<1>7. m.kind = "commit"
  BY DEF Commit
<1>8. ASSUME NEW S \in SUBSET todo, o = Outcome("RenewalFailed", With(Renewed(S)), S # {}, {}, {})
      PROVE  Merges(c, g, m, o)
  <2>1. o.g = With(Renewed(S)) /\ o.props = {} /\ o.saved = (S # {})
    BY <1>8 DEF Outcome
  <2>2. Renewed(S) \subseteq {u}
    BY <1>3
  <2>3. S = {} => Renewed(S) = {}
    OBVIOUS
  <2> HIDE DEF merged, todo, With, Renewed, u
  <2>4. o.g.epoch = g.epoch + 1 /\ o.g.status = g.status /\ o.g.props = Renewed(S)
    BY <1>1, <2>1
  <2>5. o.saved \/ o.g.props = {}
    BY <2>1, <2>3, <2>4
  <2>6. QED
    BY <1>6, <1>7, <2>1, <2>2, <2>4, <2>5 DEF Merges, u
<1>9. ASSUME o = Outcome("Ok", With(all), all # {}, {}, Msgs(all))
      PROVE  Merges(c, g, m, o)
  <2>1. o.g = With(all) /\ o.props = Msgs(all) /\ o.saved = (all # {})
    BY <1>9 DEF Outcome
  <2>2. all \subseteq {u}
    BY <1>3, <1>4
  <2>3. Msgs(all) \subseteq {UpdateMsg(c, g.epoch + 1)}
    BY <1>1, <2>2 DEF UpdateMsg
  <2>4. Msgs(all) # {} => all # {}
    OBVIOUS
  <2> HIDE DEF merged, todo, With, Renewed, u, all, Msgs, update
  <2>5. o.g.epoch = g.epoch + 1 /\ o.g.status = g.status /\ o.g.props = all
    BY <1>1, <2>1
  <2>6. (o.saved \/ o.g.props = {}) /\ (o.props # {} => o.g.props # {} /\ o.saved)
    BY <2>1, <2>4, <2>5
  <2>7. o.props \subseteq {UpdateMsg(c, g.epoch + 1)}
    BY <2>1, <2>3
  <2>8. QED
    BY <1>6, <1>7, <2>2, <2>5, <2>6, <2>7 DEF Merges, u
<1>10. QED
  BY <1>5, <1>8, <1>9

\* Every outcome is one of these.
LEMMA OutcomeOfUpdates ==
  ASSUME NEW c \in Client, NEW g \in Group, Holder(c, g),
         g.pc # NoCommit => CommitOfUpdates(g.pc),
         NEW m \in Message, m.kind = "commit" => CommitOfUpdates(m),
         NEW o \in DecryptOutcomes(c, g, m)
  PROVE  Merges(c, g, m, o) \/ Stores(c, g, m, o) \/ Fails(c, g, m, o)
<1>1. CASE IsSelfCommit(c, m)
  <2>1. o = SelfCommitOutcome(c, g, m) /\ m.kind = "commit" /\ m.sender = c
    BY <1>1 DEF DecryptOutcomes, IsSelfCommit
  <2>2. CASE g.pc # NoCommit /\ g.pc.tag = m.tag
    <3>1. o = Outcome("Ok", Merge(c, g, g.pc), TRUE, {}, {})
      BY <2>1, <2>2 DEF SelfCommitOutcome
    <3>2. g.pc \in Commit
      BY <2>2 DEF Group
    <3>3. /\ Merge(c, g, g.pc).epoch = g.epoch + 1
          /\ Merge(c, g, g.pc).status = g.status /\ Merge(c, g, g.pc).props = {}
      BY <2>2, <3>2, MergeOfUpdates
    <3>4. o.g = Merge(c, g, g.pc) /\ o.saved = TRUE /\ o.props = {}
      BY <3>1 DEF Outcome
    <3>5. QED
      BY <2>1, <3>3, <3>4 DEF Merges
  <2>3. CASE ~(g.pc # NoCommit /\ g.pc.tag = m.tag)
    BY <2>1, <2>3 DEF SelfCommitOutcome, Outcome, Fails
  <2>4. QED
    BY <2>2, <2>3
<1>2. CASE ~IsSelfCommit(c, m) /\ ParseMessage(g, m) # "Ok"
  <2>1. o = Outcome(ParseMessage(g, m), g, FALSE, {}, {})
    BY <1>2 DEF DecryptOutcomes
  <2>2. ParseMessage(g, m) # "RenewalFailed"
    BY DEF ParseMessage, ParseApp, ParseWrongEpoch
  <2>3. o.res = ParseMessage(g, m) /\ o.g = g /\ o.saved = FALSE
    BY <2>1 DEF Outcome
  <2>4. QED
    BY <1>2, <2>2, <2>3 DEF Fails
<1>3. CASE ~IsSelfCommit(c, m) /\ ParseMessage(g, m) = "Ok" /\ m.kind = "app"
  <2>1. o = Outcome("Ok", [g EXCEPT !.used = @ \cup {m.id}], TRUE, {m.id}, {})
    BY <1>3 DEF DecryptOutcomes
  <2>2. o.res = "Ok" /\ o.props = {} /\ o.g = [g EXCEPT !.used = @ \cup {m.id}]
    BY <2>1 DEF Outcome
  <2>3. QED
    BY <1>3, <2>2 DEF Stores, Group
<1>4. CASE ~IsSelfCommit(c, m) /\ ParseMessage(g, m) = "Ok" /\ m.kind = "proposal"
  <2>1. o = Outcome("Ok", [g EXCEPT !.props = @ \cup {m.prop}], TRUE, {}, {})
    BY <1>4 DEF DecryptOutcomes
  <2>2. o.res = "Ok" /\ o.props = {} /\ o.g = [g EXCEPT !.props = @ \cup {m.prop}]
    BY <2>1 DEF Outcome
  <2>3. m.epoch = g.epoch
    BY <1>4 DEF ParseMessage, ParseWrongEpoch
  <2>4. QED
    BY <1>4, <2>2, <2>3 DEF Stores, Group
<1>5. CASE ~IsSelfCommit(c, m) /\ ParseMessage(g, m) = "Ok" /\ m.kind = "commit"
  <2>1. m \in Commit
    BY <1>5 DEF Message, Commit, ProposalMsg, AppMsg
  <2>2. o \in CommitOutcomes(c, g, m)
    BY <1>5 DEF DecryptOutcomes
  <2>3. g.status = "operational"
    BY <1>5, <2>1, CommitParsedInEpoch
  <2>4. m.sender # c
    BY <1>5 DEF IsSelfCommit
  <2>5. QED
    BY <1>5, <2>1, <2>2, <2>3, <2>4, CommitMerges
<1>6. m.kind \in {"app", "proposal", "commit"}
  BY DEF Message, Commit, ProposalMsg, AppMsg
<1>7. QED
  BY <1>1, <1>2, <1>3, <1>4, <1>5, <1>6

-----------------------------------------------------------------------------
(* The steps, one kind after the other.                                    *)

\* Any step is a step of one client.
LEMMA StepIsLocal ==
  ASSUME TypeOK, NEW c \in Client,
         \/ Create(c) \/ SendProposal(c) \/ ClearPendingProposal(c)
         \/ PostCommit(c) \/ CommitAccepted(c) \/ ClearPendingCommit(c)
         \/ Decrypt(c) \/ Restore(c) \/ WipeConversation(c) \/ Crash(c)
  PROVE  Elsewhere(c)
<1>1. ASSUME NEW d \in Client, d # c PROVE outbox'[d] = outbox[d]
  <2>1. CASE Create(c)
    BY <1>1, <2>1 DEF Create, EncryptMessage, NewProposal, NewExternalAddProposal, AddMembers,
       RemoveMembers, UpdateKeyingMaterial, CommitPendingProposals, CreateCommit, clientVars, TypeOK
  <2>2. CASE SendProposal(c) \/ ClearPendingProposal(c) \/ PostCommit(c) \/ ClearPendingCommit(c)
    BY <1>1, <2>2 DEF SendProposal, ClearPendingProposal, PostCommit, ClearPendingCommit, TypeOK
  <2>3. CASE CommitAccepted(c) \/ Crash(c)
    BY <1>1, <2>3 DEF CommitAccepted, Crash, TypeOK
  <2>4. CASE Decrypt(c)
    BY <1>1, <2>4 DEF Decrypt, DecryptSimple, DecryptCommit, DecryptFuture, Return,
       DecryptRejected, DecryptNoGroup, ProcessWelcome, clientVars, TypeOK
  <2>5. CASE Restore(c) \/ WipeConversation(c)
    BY <1>1, <2>5 DEF Restore, RestoreMessage, RestoreFails, FinishRestore, Return,
       WipeConversation, TypeOK
  <2>6. QED
    BY <2>1, <2>2, <2>3, <2>4, <2>5
<1>2. ASSUME NEW d \in Client, d # c
      PROVE  mem'[d] = mem[d] /\ disk'[d] = disk[d] /\ buf'[d] = buf[d] /\ call'[d] = call[d]
  BY <1>2, OthersUntouched
<1>3. QED
  BY <1>1, <1>2 DEF Elsewhere

\* The proposals c has to send are its own, after a step that adds only such.
LEMMA OwnStay ==
  ASSUME TypeOK, TypeOK', NEW c \in Client, LocalUpdates(c), Moved(c),
         outbox'[c] \cap call'[c].props = {},
         \A m \in Outgoing(c)' :
           m \in Outgoing(c) \/ (m.prop = UpdateProposal(c, m.epoch) /\ Holds(c, m.prop)')
  PROVE  OwnUpdates(c)'
<1>1. ASSUME NEW m \in Outgoing(c)
      PROVE  m.prop = UpdateProposal(c, m.epoch) /\ Holds(c, m.prop)'
  <2>1. m \in ProposalMsg
    BY Typed DEF Outgoing
  <2>2. m.prop \in Proposal
    BY <2>1 DEF ProposalMsg
  <2>3. m.prop = UpdateProposal(c, m.epoch) /\ Holds(c, m.prop)
    BY DEF LocalUpdates, OwnUpdates
  <2>4. QED
    BY <2>2, <2>3, MovedHolds
<1>2. QED
  BY <1>1 DEF OwnUpdates

\* A step that leaves the buffer and the call of c and adds nothing to its outbox.
LEMMA CalmClient ==
  ASSUME Inv, TypeOK', UpdatesInv, NEW c \in Client, LogKept, Moved(c),
         call'[c] = call[c], buf'[c] = buf[c], outbox'[c] \subseteq outbox[c],
         mem'[c] = mem[c] \/ call[c] = Idle,
         Holder(c, mem'[c]), Holder(c, disk'[c]), net \subseteq net'
  PROVE  LocalUpdates(c)' /\ NothingLost(c)
<1>1. TypeOK /\ LocalUpdates(c)
  BY DEF Inv, UpdatesInv
<1>2. \A p \in Proposal : Holds(c, p) => Holds(c, p)'
  BY <1>1, MovedHolds
<1>3. Behind(c)'
  BY <1>1, MovedBehind
<1>4. Outgoing(c)' \subseteq Outgoing(c)
  BY DEF Outgoing
<1>5. OwnUpdates(c)'
  <2>1. outbox'[c] \cap call'[c].props = {}
    BY <1>1 DEF LocalUpdates, OwnUpdates
  <2>2. QED
    BY <1>1, <1>4, <2>1, OwnStay
<1>6. ReplayHeld(c)'
  <2>1. CASE mem'[c] = mem[c]
    BY <1>1, <2>1 DEF LocalUpdates, ReplayHeld, Replaying
  <2>2. CASE call[c] = Idle
    BY <2>2 DEF ReplayHeld, Replaying, Idle
  <2>3. QED
    BY <2>1, <2>2
<1>7. /\ call'[c].op # "wipe"
      /\ (\A r \in buf[c] \cup call[c].todo : MailOK(r.msg))'
  BY <1>1 DEF LocalUpdates, MailOK
<1>8. Holder(c, mem[c])' /\ Holder(c, disk[c])'
  BY DEF Holder
<1>9. LocalUpdates(c)'
  BY <1>3, <1>5, <1>6, <1>7, <1>8 DEF LocalUpdates
<1>10. \A p \in Proposal : Coming(c, p) => Coming(c, p)'
  BY DEF Coming
<1>11. QED
  BY <1>2, <1>4, <1>9, <1>10 DEF NothingLost

\* What is with c, or was replayed by it, was sent unless it is c's own.
LEMMA OldIsSent ==
  ASSUME NEW c \in Client
  PROVE  /\ \A p \in mem[c].props \cup disk[c].props : p.sender # c => Sent(p)
         /\ \A r \in buf[c] \cup call[c].todo : r.msg.kind = "proposal" => Sent(r.msg.prop)
         /\ \A packet \in net : packet.msg.kind = "proposal" => Sent(packet.msg.prop)
         /\ \A cm \in created : \A p \in cm.refs : Sent(p)
<1>1. \A p \in mem[c].props \cup disk[c].props : p.sender # c => Sent(p)
  BY DEF Sent
<1>2. \A r \in buf[c] \cup call[c].todo : r.msg.kind = "proposal" => Sent(r.msg.prop)
  BY DEF Sent, Carries
<1>3. \A packet \in net : packet.msg.kind = "proposal" => Sent(packet.msg.prop)
  BY DEF Sent, Carries
<1>4. \A cm \in created : \A p \in cm.refs : Sent(p)
  BY DEF Sent
<1>5. QED
  BY <1>1, <1>2, <1>3, <1>4

\* A step that leaves the DS alone.
LEMMA DsQuiet ==
  ASSUME Inv, UpdatesInv, NEW c \in Client, Elsewhere(c),
         log' = log, rosters' = rosters, created' = created,
         net' \subseteq net, \A packet \in net : packet.to # c => packet \in net'
  PROVE  Orderly(c)
<1>1. LogKept
  BY DEF LogKept, Inv, TypeOK
<1>2. \A packet \in net' : MailOK(packet.msg) /\ (packet.msg.kind = "proposal" => packet \in net)
  BY DEF UpdatesInv
<1>3. \A cm \in created' : CommitOfUpdates(cm) /\ \A p \in cm.refs : Sent(p)
  BY OldIsSent DEF UpdatesInv
<1>4. \A i \in 1..Len(rosters') : rosters'[i] = Founders
  BY DEF UpdatesInv
<1>5. QED
  BY <1>1, <1>2, <1>3, <1>4 DEF Orderly

\* encrypt_message and clear_pending_commit.
LEMMA SaveStep ==
  ASSUME Inv, TypeOK', UpdatesInv, NEW c \in Client,
         EncryptMessage(c) \/ ClearPendingCommit(c)
  PROVE  UpdatesInv'
<1>1. TypeOK /\ LocalUpdates(c) /\ mem[c] \in Group
  BY DEF Inv, UpdatesInv, TypeOK
<1>2. Elsewhere(c)
  BY <1>1, StepIsLocal DEF Create
<1>3. /\ call' = call /\ buf' = buf /\ outbox' = outbox /\ call[c] = Idle
      /\ log' = log /\ rosters' = rosters /\ created' = created
      /\ mem[c].status = "operational"
  BY DEF EncryptMessage, ClearPendingCommit, Ready, dsVars
<1>4. /\ mem'[c].epoch = mem[c].epoch /\ mem'[c].props = mem[c].props
      /\ mem'[c].status = mem[c].status /\ disk'[c] = mem'[c]
  <2>1. CASE EncryptMessage(c)
    BY <1>1, <2>1 DEF EncryptMessage, Persist, TypeOK, Group
  <2>2. CASE ClearPendingCommit(c)
    BY <1>1, <2>2 DEF ClearPendingCommit, Persist, TypeOK, Group
  <2>3. QED
    BY <2>1, <2>2
<1>5. c \in Founders
  BY <1>1, <1>3 DEF LocalUpdates, Holder, NoGroup, NewGroup
<1>6. Holder(c, mem'[c]) /\ Holder(c, disk'[c])
  BY <1>1, <1>3, <1>4, <1>5 DEF LocalUpdates, Holder
<1>7. Moved(c)
  BY <1>4 DEF Moved
<1>8. /\ net \subseteq net'
      /\ \A packet \in net' : packet \in net \/ packet.msg.kind = "app"
  BY DEF EncryptMessage, ClearPendingCommit, FanOut, dsVars
<1>9. LogKept
  BY <1>1, <1>3 DEF LogKept, TypeOK
<1>10. Orderly(c)
  <2>1. \A packet \in net' : MailOK(packet.msg) /\ (packet.msg.kind = "proposal" => packet \in net)
    BY <1>8 DEF UpdatesInv, MailOK
  <2>2. \A cm \in created' : CommitOfUpdates(cm) /\ \A p \in cm.refs : Sent(p)
    BY <1>3, OldIsSent DEF UpdatesInv
  <2>3. \A i \in 1..Len(rosters') : rosters'[i] = Founders
    BY <1>3 DEF UpdatesInv
  <2>4. QED
    BY <1>2, <1>8, <1>9, <2>1, <2>2, <2>3 DEF Orderly
<1>11. NothingNew(c)
  BY <1>3, <1>4, OldIsSent DEF NothingNew
<1>12. LocalUpdates(c)' /\ NothingLost(c)
  BY <1>3, <1>6, <1>7, <1>8, <1>9, CalmClient
<1>13. QED
  BY <1>10, <1>11, <1>12, OrderlyStep

\* The operations that create a commit.
LEMMA CommitStep ==
  ASSUME Inv, TypeOK', UpdatesInv, NEW c \in Client, Create(c), CreateCommit(c, {})
  PROVE  UpdatesInv'
<1>1. TypeOK /\ LocalUpdates(c) /\ mem[c] \in Group
  BY DEF Inv, UpdatesInv, TypeOK
<1>2. Elsewhere(c)
  BY <1>1, StepIsLocal
<1>3. /\ call' = call /\ buf' = buf /\ outbox' = outbox /\ call[c] = Idle /\ net' = net
      /\ log' = log /\ rosters' = rosters /\ mem[c].status = "operational"
  BY DEF CreateCommit, Ready
<1>4. PICK t \in Tag :
        LET cm == [kind |-> "commit", epoch |-> mem[c].epoch, sender |-> c,
                   refs |-> CommittedRefs(c, mem[c]), inline |-> {}, tag |-> t]
        IN  Persist(c, [mem[c] EXCEPT !.pc = cm]) /\ created' = created \cup {cm}
  BY DEF CreateCommit
<1> DEFINE cm == [kind |-> "commit", epoch |-> mem[c].epoch, sender |-> c,
                  refs |-> CommittedRefs(c, mem[c]), inline |-> {}, tag |-> t]
<1>5. c \in Founders
  BY <1>1, <1>3 DEF LocalUpdates, Holder, NoGroup, NewGroup
<1>6. \A p \in cm.refs : p \in mem[c].props /\ IsUpdate(p) /\ p.at = mem[c].epoch /\ p.sender # c
  BY <1>1 DEF CommittedRefs, LocalUpdates, Holder, IsUpdate, UpdateProposal
<1>7. CommitOfUpdates(cm)
  BY <1>6 DEF CommitOfUpdates
<1>8. \A p \in cm.refs : Sent(p)
  BY <1>6, OldIsSent
<1>9. Persist(c, [mem[c] EXCEPT !.pc = cm]) /\ created' = created \cup {cm}
  BY <1>4
<1> HIDE DEF cm
<1>10. /\ mem'[c].epoch = mem[c].epoch /\ mem'[c].props = mem[c].props
       /\ mem'[c].status = mem[c].status /\ disk'[c] = mem'[c]
  BY <1>1, <1>9 DEF Persist, TypeOK, Group
<1>11. Holder(c, mem'[c]) /\ Holder(c, disk'[c])
  BY <1>1, <1>3, <1>5, <1>10 DEF LocalUpdates, Holder
<1>12. Moved(c)
  BY <1>10 DEF Moved
<1>13. LogKept
  BY <1>1, <1>3 DEF LogKept, TypeOK
<1>14. Orderly(c)
  <2>1. \A packet \in net' : MailOK(packet.msg) /\ (packet.msg.kind = "proposal" => packet \in net)
    BY <1>3 DEF UpdatesInv
  <2>2. ASSUME NEW x \in created' PROVE CommitOfUpdates(x) /\ \A p \in x.refs : Sent(p)
    BY <1>7, <1>8, <1>9, OldIsSent DEF UpdatesInv
  <2>3. \A i \in 1..Len(rosters') : rosters'[i] = Founders
    BY <1>3 DEF UpdatesInv
  <2>4. QED
    BY <1>2, <1>3, <1>13, <2>1, <2>2, <2>3 DEF Orderly
<1>15. NothingNew(c)
  BY <1>3, <1>10, OldIsSent DEF NothingNew
<1>16. LocalUpdates(c)' /\ NothingLost(c)
  BY <1>3, <1>11, <1>12, <1>13, CalmClient
<1>17. QED
  BY <1>14, <1>15, <1>16, OrderlyStep

\* new_update_proposal.
LEMMA ProposeStep ==
  ASSUME UpdatesOnly, Inv, TypeOK', UpdatesInv, NEW c \in Client, Create(c),
         NEW kind, NEW x \in Client, NewProposal(c, kind, x)
  PROVE  UpdatesInv'
<1>1. TypeOK /\ LocalUpdates(c) /\ mem[c] \in Group /\ mem[c].epoch \in Nat
  BY DEF Inv, UpdatesInv, TypeOK, Group
<1>2. Elsewhere(c)
  BY <1>1, StepIsLocal
<1>3. /\ call' = call /\ buf' = buf /\ call[c] = Idle /\ net' = net /\ created' = created
      /\ log' = log /\ rosters' = rosters /\ mem[c].status = "operational"
  BY DEF NewProposal, Ready, dsVars
<1>p. PICK p : p = UpdateProposal(c, mem[c].epoch)
  OBVIOUS
<1>m. PICK m : m = [kind |-> "proposal", epoch |-> mem[c].epoch, prop |-> p]
  OBVIOUS
<1>4. kind = "update"
  BY DEF NewProposal, UpdatesOnly
<1>5. /\ p \notin mem[c].props
      /\ Persist(c, [mem[c] EXCEPT !.props = @ \cup {p}])
      /\ outbox' = [outbox EXCEPT ![c] = @ \cup {m}]
  BY <1>4, <1>p, <1>m DEF NewProposal, Carried, UpdateProposal
<1>6. c \in Founders
  BY <1>1, <1>3 DEF LocalUpdates, Holder, NoGroup, NewGroup
<1>7. p \in Proposal /\ p.sender = c /\ p.at = mem[c].epoch /\ IsUpdate(p)
  BY <1>1, <1>p DEF UpdateProposal, Proposal, IsUpdate
<1>8. m.prop = p /\ m.epoch = mem[c].epoch
  BY <1>m
<1>9. /\ mem'[c].epoch = mem[c].epoch /\ mem'[c].props = mem[c].props \cup {p}
      /\ mem'[c].status = mem[c].status /\ disk'[c] = mem'[c]
  BY <1>1, <1>5 DEF Persist, TypeOK, Group
<1>10. outbox'[c] = outbox[c] \cup {m} /\ call'[c].props = {}
  BY <1>1, <1>3, <1>5 DEF TypeOK, Idle
<1>11. ~Sent(p)
  <2>1. ASSUME Sent(p) PROVE Holds(c, p)
    BY <1>6, <1>7, <2>1 DEF UpdatesInv, Reaches
  <2>2. ~Holds(c, p)
    BY <1>1, <1>5, <1>7 DEF Holds
  <2>3. QED
    BY <2>1, <2>2
<1>12. Moved(c)
  BY <1>9 DEF Moved
<1>13. LogKept
  BY <1>1, <1>3 DEF LogKept, TypeOK
<1>14. Holds(c, p)'
  BY <1>7, <1>9 DEF Holds
<1>15. Outgoing(c)' = Outgoing(c) \cup {m}
  BY <1>3, <1>10 DEF Outgoing
<1>16. OwnUpdates(c)'
  <2>1. m.prop = UpdateProposal(c, m.epoch) /\ Holds(c, m.prop)'
    BY <1>8, <1>14, <1>p
  <2>2. QED
    BY <1>1, <1>10, <1>12, <1>15, <2>1, OwnStay
<1>17. LocalUpdates(c)'
  <2>1. Behind(c)'
    BY <1>1, <1>12, <1>13, MovedBehind
  <2>2. Holder(c, mem[c])' /\ Holder(c, disk[c])'
    BY <1>1, <1>3, <1>6, <1>7, <1>9 DEF LocalUpdates, Holder
  <2>3. ReplayHeld(c)' /\ call'[c].op # "wipe"
    BY <1>3 DEF ReplayHeld, Replaying, Idle
  <2>4. (\A r \in buf[c] \cup call[c].todo : MailOK(r.msg))'
    BY <1>1, <1>3 DEF LocalUpdates, MailOK
  <2>5. QED
    BY <1>16, <2>1, <2>2, <2>3, <2>4 DEF LocalUpdates
<1>18. NothingLost(c)
  <2>1. \A q \in Proposal : Holds(c, q) => Holds(c, q)'
    BY <1>1, <1>12, MovedHolds
  <2>2. \A q \in Proposal : Coming(c, q) => Coming(c, q)'
    BY <1>3 DEF Coming
  <2>3. QED
    BY <1>8, <1>11, <1>15, <2>1, <2>2 DEF NothingLost
<1>19. NothingNew(c)
  BY <1>3, <1>7, <1>9, OldIsSent DEF NothingNew
<1>20. Orderly(c)
  BY <1>2, <1>3, DsQuiet
<1>21. QED
  BY <1>17, <1>18, <1>19, <1>20, OrderlyStep

\* Everybody who was there at the start still is.
LEMMA RosterIsFounders ==
  ASSUME TypeOK, UpdatesInv
  PROVE  Roster = Founders
<1>1. Len(rosters) \in 1..Len(rosters)
  BY DEF TypeOK
<1>2. QED
  BY <1>1 DEF UpdatesInv, Roster

\* Two messages of c about the same update are one.
LEMMA OneMessage ==
  ASSUME TypeOK, NEW c \in Client, LocalUpdates(c),
         NEW m \in Outgoing(c), NEW n \in Outgoing(c), m.prop = n.prop
  PROVE  m = n
<1>1. m \in ProposalMsg /\ n \in ProposalMsg
  BY Typed DEF Outgoing
<1>2. m.prop = UpdateProposal(c, m.epoch) /\ n.prop = UpdateProposal(c, n.epoch)
  BY DEF LocalUpdates, OwnUpdates
<1>3. \A e : UpdateProposal(c, e).at = e
  BY DEF UpdateProposal
<1>4. m.epoch = n.epoch
  BY <1>2, <1>3
<1>5. QED
  BY <1>1, <1>4 DEF ProposalMsg

\* The application sends a proposal.
LEMMA SendStep ==
  ASSUME UpdatesOnly, Inv, TypeOK', UpdatesInv, NEW c \in Client, SendProposal(c)
  PROVE  UpdatesInv'
<1>1. TypeOK /\ LocalUpdates(c)
  BY DEF Inv, UpdatesInv
<1>2. Elsewhere(c)
  BY <1>1, StepIsLocal
<1>3. PICK m \in outbox[c] :
        /\ outbox' = [outbox EXCEPT ![c] = @ \ {m}]
        /\ net' = net \cup FanOut(m, Roster \ {c})
        /\ UNCHANGED <<mem, disk, buf, call, got, post, log, rosters, created, count>>
  BY DEF SendProposal
<1> DEFINE p == m.prop
<1>4. m \in ProposalMsg /\ m \in Outgoing(c)
  BY <1>1, Typed DEF Outgoing
<1>5. m.kind = "proposal" /\ p \in Proposal /\ m.epoch \in Nat
  BY <1>4 DEF ProposalMsg
<1>6. p = UpdateProposal(c, m.epoch) /\ Holds(c, p)
  BY <1>1, <1>4 DEF LocalUpdates, OwnUpdates
<1>7. IsUpdate(p) /\ p.at = m.epoch /\ p.sender = c
  BY <1>6 DEF IsUpdate, UpdateProposal
<1>8. outbox'[c] = outbox[c] \ {m}
  BY <1>1, <1>3 DEF TypeOK
<1>9. LogKept
  BY <1>1, <1>3 DEF LogKept, TypeOK
<1>10. \A packet \in net' : packet \in net \/ packet.msg = m
  BY <1>3 DEF FanOut
<1>11. net \subseteq net'
  BY <1>3
<1>12. LocalUpdates(c)' /\ NothingLost(c)
  <2>1. Moved(c)
    BY <1>3 DEF Moved
  <2>2. Holder(c, mem'[c]) /\ Holder(c, disk'[c])
    BY <1>1, <1>3 DEF LocalUpdates
  <2>3. QED
    BY <1>3, <1>8, <1>9, <1>11, <2>1, <2>2, CalmClient
<1>13. ASSUME NEW d \in Client PROVE LocalUpdates(d)'
  <2>1. CASE d # c
    <3>1. /\ mem'[d] = mem[d] /\ disk'[d] = disk[d] /\ buf'[d] = buf[d]
          /\ call'[d] = call[d] /\ outbox'[d] = outbox[d] /\ LocalUpdates(d)
      BY <1>2, <2>1 DEF Elsewhere, UpdatesInv
    <3>2. QED
      BY <1>9, <3>1, LocalStays
  <2>2. QED
    BY <1>12, <2>1
<1>14. ASSUME NEW q \in Proposal, q # p, Sent(q)' PROVE Sent(q)
  <2>1. \/ \E packet \in net' : Carries(packet.msg, q)
        \/ \E d \in Client : \E r \in buf[d] \cup call[d].todo : Carries(r.msg, q)
        \/ \E d \in Client : d # q.sender /\ (q \in mem[d].props \/ q \in disk[d].props)
        \/ \E cm \in created : q \in cm.refs
    BY <1>3, <1>14 DEF Sent, Carries
  <2>2. \A packet \in net' : Carries(packet.msg, q) => packet \in net
    BY <1>10, <1>14 DEF Carries
  <2>3. QED
    BY <2>1, <2>2 DEF Sent
<1>15. ASSUME NEW q \in Proposal, Sent(q)', NEW d \in Founders PROVE Reaches(d, q)'
  <2>0. d \in Client
    BY ConversationAssumption
  <2>1. CASE q # p
    <3>1. Sent(q) /\ Reaches(d, q)
      BY <1>14, <1>15, <2>1 DEF UpdatesInv
    <3>2. CASE d = c
      BY <1>1, <1>9, <1>12, <3>1, <3>2, ReachesActor
    <3>3. CASE d # c
      BY <1>1, <1>2, <1>9, <1>11, <2>0, <3>1, <3>3, ReachesOthers
    <3>4. QED
      BY <3>2, <3>3
  <2>2. CASE q = p /\ d = c
    <3>1. Holds(c, p)'
      BY <1>3, <1>6 DEF Holds
    <3>2. ASSUME NEW n \in Outgoing(c)', n.prop = p PROVE FALSE
      <4>1. n \in Outgoing(c) /\ (n \in outbox'[c] \/ n \in call[c].props)
        BY <1>3, <1>8, <3>2 DEF Outgoing
      <4>2. n = m
        BY <1>1, <1>4, <3>2, <4>1, OneMessage
      <4>3. m \notin call[c].props
        BY <1>1 DEF LocalUpdates, OwnUpdates
      <4>4. QED
        BY <1>8, <4>1, <4>2, <4>3
    <3>3. QED
      BY <1>7, <2>2, <3>1, <3>2 DEF Reaches
  <2>3. CASE q = p /\ d # c
    <3>1. Roster = Founders
      BY <1>1, RosterIsFounders
    <3>2. [to |-> d, msg |-> m] \in net'
      BY <1>3, <2>3, <3>1 DEF FanOut
    <3>3. Coming(d, p)'
      <4>1. [to |-> d, msg |-> m].to = d /\ Carries([to |-> d, msg |-> m].msg, p)
        BY <1>5 DEF Carries
      <4>2. \E packet \in net' : packet.to = d /\ Carries(packet.msg, p)
        BY <3>2, <4>1
      <4>3. QED
        BY <4>2 DEF Coming, Carries
    <3>4. QED
      BY <1>7, <2>3, <3>3 DEF Reaches
  <2>4. QED
    BY <2>1, <2>2, <2>3
<1>16. (\A packet \in net : MailOK(packet.msg))'
  <2>1. MailOK(m)
    BY <1>5, <1>7 DEF MailOK
  <2>2. \A packet \in net' : MailOK(packet.msg)
    BY <1>10, <2>1 DEF UpdatesInv
  <2>3. QED
    BY <2>2 DEF MailOK
<1>17. /\ (\A cm \in created : CommitOfUpdates(cm))'
       /\ (\A i \in 1..Len(rosters) : rosters[i] = Founders)'
  BY <1>3 DEF UpdatesInv, CommitOfUpdates
<1>18. QED
  BY <1>13, <1>15, <1>16, <1>17 DEF UpdatesInv

\* clear_pending_proposal.
LEMMA ClearStep ==
  ASSUME UpdatesOnly, Inv, TypeOK', UpdatesInv, NEW c \in Client, ClearPendingProposal(c)
  PROVE  UpdatesInv'
<1>1. TypeOK /\ LocalUpdates(c) /\ mem[c] \in Group
  BY DEF Inv, UpdatesInv, TypeOK
<1>2. Elsewhere(c)
  BY <1>1, StepIsLocal
<1>3. /\ call[c] = Idle /\ call' = call /\ buf' = buf /\ net' = net /\ created' = created
      /\ log' = log /\ rosters' = rosters
  BY DEF ClearPendingProposal, dsVars
<1>4. PICK m \in outbox[c] :
        /\ outbox' = [outbox EXCEPT ![c] = @ \ {m}]
        /\ IF mem[c].status # "none" /\ m.epoch = mem[c].epoch /\ m.prop \in mem[c].props
           THEN Persist(c, [mem[c] EXCEPT !.props = @ \ {m.prop}])
           ELSE UNCHANGED <<mem, disk>>
  BY DEF ClearPendingProposal
<1>5. outbox'[c] = outbox[c] \ {m} /\ m \in Outgoing(c)
  BY <1>1, <1>4 DEF TypeOK, Outgoing
<1>6. LogKept
  BY <1>1, <1>3 DEF LogKept, TypeOK
<1>7. Orderly(c)
  BY <1>2, <1>3, DsQuiet
<1>8. CASE mem' = mem /\ disk' = disk
  <2>1. Moved(c)
    BY <1>8 DEF Moved
  <2>2. Holder(c, mem'[c]) /\ Holder(c, disk'[c])
    BY <1>1, <1>8 DEF LocalUpdates
  <2>3. LocalUpdates(c)' /\ NothingLost(c)
    BY <1>3, <1>5, <1>6, <1>8, <2>1, <2>2, CalmClient
  <2>4. NothingNew(c)
    BY <1>3, <1>8, OldIsSent DEF NothingNew
  <2>5. QED
    BY <1>7, <2>3, <2>4, OrderlyStep
<1>9. CASE /\ mem[c].status # "none" /\ m.epoch = mem[c].epoch
           /\ Persist(c, [mem[c] EXCEPT !.props = @ \ {m.prop}])
  <2>1. /\ mem'[c].epoch = mem[c].epoch /\ mem'[c].props = mem[c].props \ {m.prop}
        /\ mem'[c].status = mem[c].status /\ disk'[c] = mem'[c]
    BY <1>1, <1>9 DEF Persist, TypeOK, Group
  <2>2. c \in Founders /\ mem[c].status = "operational"
    BY <1>1, <1>9 DEF LocalUpdates, Holder, NoGroup, NewGroup
  <2>3. m.prop \in Proposal /\ m.prop.sender = c
    <3>1. m \in ProposalMsg /\ m.prop = UpdateProposal(c, m.epoch)
      BY <1>1, <1>5, Typed DEF LocalUpdates, OwnUpdates
    <3>2. QED
      BY <3>1 DEF ProposalMsg, UpdateProposal
  <2>4. ~Sent(m.prop)
    <3>1. ASSUME Sent(m.prop) PROVE \A n \in Outgoing(c) : n.prop # m.prop
      BY <2>2, <2>3, <3>1 DEF UpdatesInv, Reaches
    <3>2. QED
      BY <1>5, <3>1
  <2>5. ASSUME NEW q \in Proposal, q # m.prop, Holds(c, q) PROVE Holds(c, q)'
    BY <2>1, <2>5 DEF Holds
  <2>6. Outgoing(c)' = outbox[c] \ {m} /\ call'[c].props = {}
    BY <1>3, <1>5 DEF Outgoing, Idle
  <2>7. OwnUpdates(c)'
    <3>1. ASSUME NEW n \in outbox[c], n # m
          PROVE  n.prop = UpdateProposal(c, n.epoch) /\ Holds(c, n.prop)'
      <4>1. n \in Outgoing(c) /\ n \in ProposalMsg
        BY <1>1, Typed DEF Outgoing
      <4>2. n.prop = UpdateProposal(c, n.epoch) /\ Holds(c, n.prop) /\ n.prop \in Proposal
        BY <1>1, <4>1 DEF LocalUpdates, OwnUpdates, ProposalMsg
      <4>3. n.prop # m.prop
        BY <1>1, <1>5, <3>1, <4>1, OneMessage
      <4>4. QED
        BY <2>5, <4>2, <4>3
    <3>2. QED
      BY <2>6, <3>1 DEF OwnUpdates
  <2>8. LocalUpdates(c)'
    <3>1. Behind(c)'
      <4>1. mem'[c].epoch \in Nat
        BY DEF TypeOK, Group
      <4>2. ~ \E e \in Nat : disk'[c].epoch <= e /\ e < mem'[c].epoch
        BY <2>1, <4>1
      <4>3. QED
        BY <2>1, <4>2 DEF Behind
    <3>2. Holder(c, mem[c])' /\ Holder(c, disk[c])'
      BY <1>1, <2>1, <2>2 DEF LocalUpdates, Holder
    <3>3. ReplayHeld(c)' /\ call'[c].op # "wipe"
      BY <1>3 DEF ReplayHeld, Replaying, Idle
    <3>4. (\A r \in buf[c] \cup call[c].todo : MailOK(r.msg))'
      BY <1>1, <1>3 DEF LocalUpdates, MailOK
    <3>5. QED
      BY <2>7, <3>1, <3>2, <3>3, <3>4 DEF LocalUpdates
  <2>9. NothingLost(c)
    <3>1. \A q \in Proposal : Sent(q) /\ Holds(c, q) => Holds(c, q)'
      BY <2>4, <2>5
    <3>2. \A q \in Proposal : Coming(c, q) => Coming(c, q)'
      BY <1>3 DEF Coming
    <3>3. Outgoing(c)' \subseteq Outgoing(c)
      BY <2>6 DEF Outgoing
    <3>4. QED
      BY <3>1, <3>2, <3>3 DEF NothingLost
  <2>10. NothingNew(c)
    BY <1>3, <2>1, OldIsSent DEF NothingNew
  <2>11. QED
    BY <1>7, <2>8, <2>9, <2>10, OrderlyStep
<1>10. QED
  BY <1>4, <1>8, <1>9

\* The DS accepts a commit: nobody is added or removed.
LEMMA PostStep ==
  ASSUME UpdatesOnly, Inv, TypeOK', UpdatesInv, NEW c \in Client, PostCommit(c)
  PROVE  UpdatesInv'
<1>1. TypeOK /\ LocalUpdates(c) /\ mem[c] \in Group
  BY DEF Inv, UpdatesInv, TypeOK
<1>2. Elsewhere(c)
  BY <1>1, StepIsLocal
<1> DEFINE cm == mem[c].pc
<1>3. /\ mem' = mem /\ disk' = disk /\ call' = call /\ buf' = buf /\ outbox' = outbox
      /\ created' = created /\ cm # NoCommit
      /\ log' = Append(log, cm)
      /\ rosters' = Append(rosters, MembersAfter(Roster, cm))
      /\ net' = net \cup CommitFanOut(cm)
  BY DEF PostCommit
<1>4. cm \in created /\ cm \in Commit
  BY <1>1, <1>3 DEF Inv, GroupsAgree, GroupOK, Group
<1>5. CommitOfUpdates(cm)
  BY <1>4 DEF UpdatesInv
<1>6. Added(cm) = {} /\ Removed(cm) = {}
  BY <1>5 DEF Added, Removed, Queued, CommitOfUpdates, IsUpdate, UpdateProposal
<1>7. MembersAfter(Roster, cm) = Founders
  BY <1>1, <1>6, RosterIsFounders DEF MembersAfter
<1>8. cm.kind = "commit"
  BY <1>4 DEF Commit
<1> HIDE DEF cm
<1>9. \A packet \in net' : packet \in net \/ packet.msg.kind = "commit"
  BY <1>3, <1>6, <1>8 DEF CommitFanOut, FanOut
<1>10. LogKept
  <2>1. log \in Seq(Commit)
    BY <1>1 DEF TypeOK
  <2>2. QED
    BY <1>3, <1>4, <2>1 DEF LogKept
<1>11. \A i \in 1..Len(rosters') : rosters'[i] = Founders
  <2>1. rosters \in Seq(SUBSET Client) /\ Founders \in SUBSET Client
    BY <1>1, ConversationAssumption DEF TypeOK
  <2>2. rosters' = Append(rosters, Founders)
    BY <1>3, <1>7
  <2>3. \A i \in 1..Len(rosters) : rosters[i] = Founders
    BY DEF UpdatesInv
  <2>4. QED
    BY <2>1, <2>2, <2>3
<1>12. Orderly(c)
  <2>1. \A packet \in net' : MailOK(packet.msg) /\ (packet.msg.kind = "proposal" => packet \in net)
    BY <1>9 DEF UpdatesInv, MailOK
  <2>2. \A x \in created' : CommitOfUpdates(x) /\ \A p \in x.refs : Sent(p)
    BY <1>3, OldIsSent DEF UpdatesInv
  <2>3. net \subseteq net'
    BY <1>3
  <2>4. QED
    BY <1>2, <1>10, <1>11, <2>1, <2>2, <2>3 DEF Orderly
<1>13. LocalUpdates(c)' /\ NothingLost(c)
  <2>1. Moved(c)
    BY <1>3 DEF Moved
  <2>2. Holder(c, mem'[c]) /\ Holder(c, disk'[c])
    BY <1>1, <1>3 DEF LocalUpdates
  <2>3. net \subseteq net'
    BY <1>3
  <2>4. /\ mem'[c] = mem[c] /\ call'[c] = call[c] /\ buf'[c] = buf[c]
        /\ outbox'[c] \subseteq outbox[c]
    BY <1>3
  <2>5. QED
    BY <1>10, <2>1, <2>2, <2>3, <2>4, CalmClient
<1>14. NothingNew(c)
  BY <1>3, OldIsSent DEF NothingNew
<1>15. QED
  BY <1>12, <1>13, <1>14, OrderlyStep

\* commit_accepted: the pending commit is merged and the replay begins.
LEMMA AcceptedStep ==
  ASSUME UpdatesOnly, Inv, TypeOK', UpdatesInv, NEW c \in Client, CommitAccepted(c)
  PROVE  UpdatesInv'
<1>1. TypeOK /\ LocalUpdates(c) /\ mem[c] \in Group
  BY DEF Inv, UpdatesInv, TypeOK
<1>2. Elsewhere(c)
  BY <1>1, StepIsLocal
<1>3. /\ call[c] = Idle /\ buf' = buf /\ net' = net /\ created' = created
      /\ log' = log /\ rosters' = rosters /\ outbox' = outbox
  BY DEF CommitAccepted, dsVars
<1>4. LogKept
  BY <1>1, <1>3 DEF LogKept, TypeOK
<1>5. Orderly(c)
  BY <1>2, <1>3, DsQuiet
<1>6. CASE mem' = mem /\ disk' = disk /\ call' = call
  <2>1. Moved(c)
    BY <1>6 DEF Moved
  <2>2. Holder(c, mem'[c]) /\ Holder(c, disk'[c])
    BY <1>1, <1>6 DEF LocalUpdates
  <2>3. LocalUpdates(c)' /\ NothingLost(c)
    BY <1>3, <1>4, <1>6, <2>1, <2>2, CalmClient
  <2>4. NothingNew(c)
    BY <1>3, <1>6, OldIsSent DEF NothingNew
  <2>5. QED
    BY <1>5, <2>3, <2>4, OrderlyStep
<1>7. CASE /\ mem[c].status = "operational" /\ mem[c].pc # NoCommit
           /\ Persist(c, Merge(c, mem[c], mem[c].pc))
           /\ call' = [call EXCEPT ![c] = [Idle EXCEPT !.op = "accepted", !.todo = buf[c]]]
  <2>1. mem[c].pc \in Commit /\ CommitOfUpdates(mem[c].pc)
    BY <1>1, <1>7 DEF Inv, GroupsAgree, GroupOK, Group, UpdatesInv
  <2>2. mem'[c] = Merge(c, mem[c], mem[c].pc) /\ disk'[c] = mem'[c]
    BY <1>1, <1>7 DEF Persist, TypeOK
  <2>3. /\ mem'[c].epoch = mem[c].epoch + 1 /\ mem'[c].props = {}
        /\ mem'[c].status = "operational"
    BY <1>1, <1>7, <2>1, <2>2, MergeOfUpdates
  <2>4. /\ [Idle EXCEPT !.op = "accepted", !.todo = buf[c]].op = "accepted"
        /\ [Idle EXCEPT !.op = "accepted", !.todo = buf[c]].todo = buf[c]
        /\ [Idle EXCEPT !.op = "accepted", !.todo = buf[c]].props = {}
    BY DEF Idle
  <2>5. call'[c].op = "accepted" /\ call'[c].todo = buf[c] /\ call'[c].props = {}
    BY <1>1, <1>7, <2>4 DEF TypeOK
  <2>6. c \in Founders
    BY <1>1, <1>7 DEF LocalUpdates, Holder, NoGroup, NewGroup
  <2>7. Moved(c)
    BY <2>2, <2>3 DEF Moved
  <2>8. Outgoing(c)' \subseteq Outgoing(c)
    BY <1>3, <2>5 DEF Outgoing
  <2>9. OwnUpdates(c)'
    BY <1>1, <2>5, <2>7, <2>8, OwnStay
  <2>10. LocalUpdates(c)'
    <3>1. Behind(c)'
      BY <1>1, <1>4, <2>7, MovedBehind
    <3>2. Holder(c, mem[c])' /\ Holder(c, disk[c])'
      BY <2>2, <2>3, <2>6 DEF Holder
    <3>3. ReplayHeld(c)' /\ call'[c].op # "wipe"
      BY <1>3, <2>5 DEF ReplayHeld
    <3>4. (\A r \in buf[c] \cup call[c].todo : MailOK(r.msg))'
      BY <1>1, <1>3, <2>5 DEF LocalUpdates, MailOK
    <3>5. QED
      BY <2>9, <3>1, <3>2, <3>3, <3>4 DEF LocalUpdates
  <2>11. NothingLost(c)
    <3>1. \A q \in Proposal : Holds(c, q) => Holds(c, q)'
      BY <1>1, <2>7, MovedHolds
    <3>2. \A q \in Proposal : Coming(c, q) => Coming(c, q)'
      BY <1>3 DEF Coming
    <3>3. QED
      BY <2>8, <3>1, <3>2 DEF NothingLost
  <2>12. NothingNew(c)
    BY <1>3, <2>2, <2>3, <2>5, OldIsSent DEF NothingNew
  <2>13. QED
    BY <1>5, <2>10, <2>11, <2>12, OrderlyStep
<1>8. QED
  BY <1>6, <1>7 DEF CommitAccepted

\* A crash falls back on the keystore and forgets what was not sent.
LEMMA CrashStep ==
  ASSUME UpdatesOnly, Inv, TypeOK', UpdatesInv, NEW c \in Client, Crash(c)
  PROVE  UpdatesInv'
<1>1. TypeOK /\ LocalUpdates(c)
  BY DEF Inv, UpdatesInv
<1>2. Elsewhere(c)
  BY <1>1, StepIsLocal
<1>3. /\ mem'[c] = disk[c] /\ disk' = disk /\ call'[c] = Idle /\ outbox'[c] = {}
      /\ buf' = buf /\ net' = net /\ created' = created /\ log' = log /\ rosters' = rosters
  BY <1>1 DEF Crash, dsVars, TypeOK
<1>4. Moved(c)
  BY <1>3 DEF Moved
<1>5. LogKept
  BY <1>1, <1>3 DEF LogKept, TypeOK
<1>6. Orderly(c)
  BY <1>2, <1>3, DsQuiet
<1>7. Outgoing(c)' = {} /\ call'[c].todo = {} /\ call'[c].op = "idle" /\ call'[c].props = {}
  BY <1>3 DEF Outgoing, Idle
<1>8. LocalUpdates(c)'
  <2>1. Behind(c)'
    BY <1>1, <1>4, <1>5, MovedBehind
  <2>2. Holder(c, mem[c])' /\ Holder(c, disk[c])'
    BY <1>1, <1>3 DEF LocalUpdates, Holder
  <2>3. ReplayHeld(c)' /\ call'[c].op # "wipe"
    BY <1>7 DEF ReplayHeld, Replaying
  <2>4. (\A r \in buf[c] \cup call[c].todo : MailOK(r.msg))'
    BY <1>1, <1>3, <1>7 DEF LocalUpdates, MailOK
  <2>5. OwnUpdates(c)'
    BY <1>7 DEF OwnUpdates
  <2>6. QED
    BY <2>1, <2>2, <2>3, <2>4, <2>5 DEF LocalUpdates
<1>9. NothingLost(c)
  <2>1. \A q \in Proposal : Holds(c, q) => Holds(c, q)'
    BY <1>1, <1>4, MovedHolds
  <2>2. \A q \in Proposal : Coming(c, q) => Coming(c, q)'
    BY <1>3 DEF Coming
  <2>3. QED
    BY <1>7, <2>1, <2>2 DEF NothingLost
<1>10. NothingNew(c)
  BY <1>3, <1>7, OldIsSent DEF NothingNew
<1>11. QED
  BY <1>6, <1>8, <1>9, <1>10, OrderlyStep

\* A step of c that moves its groups in one of the ways above.
LEMMA BusyLocal ==
  ASSUME Inv, TypeOK', NEW c \in Client, LocalUpdates(c), LogKept, Moved(c),
         Holder(c, mem'[c]), Holder(c, disk'[c]),
         outbox'[c] \cap call'[c].props = {},
         \A m \in Outgoing(c)' :
           m \in Outgoing(c) \/ (m.prop = UpdateProposal(c, m.epoch) /\ Holds(c, m.prop)'),
         ReplayHeld(c)', call'[c].op # "wipe",
         \A r \in buf'[c] \cup call'[c].todo : MailOK(r.msg)
  PROVE  LocalUpdates(c)' /\ \A p \in Proposal : Holds(c, p) => Holds(c, p)'
<1>1. TypeOK
  BY DEF Inv
<1>2. Behind(c)'
  BY MovedBehind
<1>3. OwnUpdates(c)'
  BY <1>1, OwnStay
<1>4. Holder(c, mem[c])' /\ Holder(c, disk[c])'
  BY DEF Holder
<1>5. (\A r \in buf[c] \cup call[c].todo : MailOK(r.msg))'
  BY DEF MailOK
<1>6. LocalUpdates(c)'
  BY <1>2, <1>3, <1>4, <1>5 DEF LocalUpdates
<1>7. QED
  BY <1>1, <1>6, MovedHolds

\* What is known of a message that c may decrypt.
LEMMA MailFacts ==
  ASSUME Inv, UpdatesInv, NEW c \in Client, NEW m \in Message, MessageOK(m, log, rosters),
         NEW o \in DecryptOutcomes(c, mem[c], m)
  PROVE  /\ Merges(c, mem[c], m, o) \/ Stores(c, mem[c], m, o) \/ Fails(c, mem[c], m, o)
         /\ m.kind = "commit" /\ m.epoch = mem[c].epoch =>
              mem[c].epoch < Len(log) /\ log[mem[c].epoch + 1] = m
         /\ o.g \in Group
<1>1. TypeOK /\ LocalUpdates(c) /\ mem[c] \in Group /\ HistoryOK(log, rosters, created)
  BY DEF Inv, UpdatesInv, TypeOK
<1>2. mem[c].pc # NoCommit => CommitOfUpdates(mem[c].pc)
  BY DEF Inv, GroupsAgree, GroupOK, UpdatesInv
<1>3. m.kind = "commit" => m.epoch < Len(log) /\ log[m.epoch + 1] = m
  BY DEF MessageOK
<1>4. m.kind = "commit" => CommitOfUpdates(m)
  <2>1. ASSUME m.kind = "commit" PROVE m \in created
    <3>1. m.epoch \in Nat /\ Len(log) \in Nat
      BY <1>1, <2>1 DEF Message, Commit, ProposalMsg, AppMsg, TypeOK
    <3>2. m.epoch + 1 \in 1..Len(log)
      BY <1>3, <2>1, <3>1
    <3>3. QED
      BY <1>1, <1>3, <2>1, <3>2 DEF HistoryOK
  <2>2. QED
    BY <2>1 DEF UpdatesInv
<1>5. Holder(c, mem[c])
  BY <1>1 DEF LocalUpdates
<1>6. o.g \in Group
  BY <1>1, OutcomeType
<1>7. QED
  BY <1>1, <1>2, <1>3, <1>4, <1>5, <1>6, OutcomeOfUpdates

\* The update of the next epoch is new.
LEMMA NextIsNew ==
  ASSUME TypeOK, UpdatesInv, NEW c \in Client, c \in Founders
  PROVE  /\ UpdateMsg(c, mem[c].epoch + 1) \notin Outgoing(c)
         /\ ~Sent(UpdateProposal(c, mem[c].epoch + 1))
<1> DEFINE u == UpdateProposal(c, mem[c].epoch + 1)
<1>1. mem[c].epoch \in Nat
  BY Typed
<1>2. u \in Proposal /\ u.at = mem[c].epoch + 1 /\ u.sender = c
  BY <1>1 DEF UpdateProposal, Proposal
<1>3. UpdateMsg(c, mem[c].epoch + 1).prop = u
  BY DEF UpdateMsg
<1> HIDE DEF u
<1>4. ~Holds(c, u)
  BY <1>1, <1>2 DEF Holds
<1>5. Sent(u) => Holds(c, u)
  BY <1>2 DEF UpdatesInv, Reaches
<1>6. \A m \in Outgoing(c) : Holds(c, m.prop)
  BY DEF UpdatesInv, LocalUpdates, OwnUpdates
<1>7. QED
  BY <1>3, <1>4, <1>5, <1>6 DEF u

\* What a merge makes c propose is its own update of the new epoch.
LEMMA RenewalIsOwn ==
  ASSUME TypeOK, UpdatesInv, NEW c \in Client, c \in Founders,
         NEW m, NEW o, Merges(c, mem[c], m, o), NEW x \in o.props,
         mem'[c] = o.g, o.saved => disk'[c] = o.g
  PROVE  /\ x.prop = UpdateProposal(c, x.epoch) /\ Holds(c, x.prop)'
         /\ x \notin Outgoing(c) /\ ~Sent(x.prop)
<1>1. x = UpdateMsg(c, mem[c].epoch + 1)
  BY DEF Merges
<1>2. x.prop = UpdateProposal(c, mem[c].epoch + 1) /\ x.epoch = mem[c].epoch + 1
  BY <1>1 DEF UpdateMsg
<1>3. /\ o.g.props = {UpdateProposal(c, mem[c].epoch + 1)}
      /\ o.g.epoch = mem[c].epoch + 1 /\ o.saved
  BY DEF Merges
<1>4. UpdateProposal(c, mem[c].epoch + 1).at = mem[c].epoch + 1
  BY DEF UpdateProposal
<1>5. x.prop.at = o.g.epoch /\ x.prop \in o.g.props
  BY <1>2, <1>3, <1>4
<1>6. Holds(c, x.prop)'
  BY <1>3, <1>5 DEF Holds
<1>7. QED
  BY <1>1, <1>2, <1>6, NextIsNew

\* The groups after an outcome are again holders of updates of their epoch.
LEMMA HolderAfter ==
  ASSUME NEW c \in Client, c \in Founders, NEW g \in Group, Holder(c, g), NEW m, MailOK(m),
         NEW o, Merges(c, g, m, o) \/ Stores(c, g, m, o)
  PROVE  /\ Holder(c, o.g)
         /\ \A p \in o.g.props : p \in g.props \/ p.sender = c \/ (m.kind = "proposal" /\ p = m.prop)
<1>1. g.status = "operational"
  BY DEF Holder
<1>2. CASE Merges(c, g, m, o)
  <2>1. ASSUME NEW p \in o.g.props PROVE IsUpdate(p) /\ p.at = o.g.epoch /\ p.sender = c
    <3>1. p = UpdateProposal(c, g.epoch + 1) /\ o.g.epoch = g.epoch + 1
      BY <1>2 DEF Merges
    <3>2. QED
      BY <3>1 DEF UpdateProposal, IsUpdate
  <2>2. o.g.status = "operational"
    BY <1>1, <1>2 DEF Merges
  <2>3. QED
    BY <2>1, <2>2 DEF Holder
<1>3. CASE Stores(c, g, m, o)
  <2>1. o.g.status = "operational" /\ o.g.epoch = g.epoch
    BY <1>1, <1>3 DEF Stores
  <2>2. ASSUME NEW p \in o.g.props PROVE p \in g.props \/ (m.kind = "proposal" /\ p = m.prop /\ m.epoch = g.epoch)
    BY <1>3 DEF Stores
  <2>3. \A p \in o.g.props : IsUpdate(p) /\ p.at = o.g.epoch
    BY <2>1, <2>2 DEF Holder, MailOK
  <2>4. QED
    BY <2>1, <2>2, <2>3 DEF Holder
<1>4. QED
  BY <1>2, <1>3

\* The message of a delivery, and what becomes of the network.
LEMMA DeliveryFacts ==
  ASSUME Inv, UpdatesInv, NEW c \in Client, NEW packet \in net, packet.to = c
  PROVE  /\ packet.msg \in Message /\ MailOK(packet.msg) /\ MessageOK(packet.msg, log, rosters)
         /\ packet.msg.kind = "proposal" => Sent(packet.msg.prop) /\ packet.msg.prop \in Proposal
         /\ packet = [to |-> c, msg |-> packet.msg]
<1>1. packet \in Packet /\ MailOK(packet.msg) /\ MessageOK(packet.msg, log, rosters)
  BY DEF Inv, TypeOK, UpdatesInv, DeliveredIsAccepted
<1>2. packet.msg \in Message
  BY <1>1 DEF Packet, Welcome, MailOK
<1>3. packet.msg.kind = "proposal" => Sent(packet.msg.prop)
  BY OldIsSent
<1>4. packet.msg.kind = "proposal" => packet.msg.prop \in Proposal
  BY <1>2 DEF Message, Commit, ProposalMsg, AppMsg
<1>5. QED
  BY <1>1, <1>2, <1>3, <1>4 DEF Packet

\* A delivery takes at most the packet off the network.
LEMMA DeliverNet ==
  ASSUME NEW c, NEW m, Deliver(c, m)
  PROVE  net' \subseteq net /\ \A packet \in net : packet # [to |-> c, msg |-> m] => packet \in net'
BY DEF Deliver

\* What was coming still is, but for the message delivered.
LEMMA ComingAfter ==
  ASSUME NEW c, NEW m, Deliver(c, m), buf[c] \subseteq buf'[c], NEW p, Coming(c, p), ~Carries(m, p)
  PROVE  Coming(c, p)'
<1>1. CASE \E packet \in net : packet.to = c /\ Carries(packet.msg, p)
  <2>1. PICK packet \in net : packet.to = c /\ Carries(packet.msg, p)
    BY <1>1
  <2>2. packet # [to |-> c, msg |-> m]
    BY <2>1
  <2>3. packet \in net'
    BY <2>2, DeliverNet
  <2>4. QED
    BY <2>1, <2>3 DEF Coming, Carries
<1>2. CASE \E r \in buf[c] : Carries(r.msg, p)
  BY <1>2 DEF Coming, Carries
<1>3. QED
  BY <1>1, <1>2 DEF Coming

\* A proposal that parse_message turns down as useless is one the client has,
\* or of an epoch that it has left.
LEMMA Dismissed ==
  ASSUME Inv, UpdatesInv, NEW c \in Client, c \in Founders, NEW m \in Message, MailOK(m),
         m.kind = "proposal", NEW o \in DecryptOutcomes(c, mem[c], m), o.res \in Useless
  PROVE  Past(c, m.prop) \/ Holds(c, m.prop)
<1> DEFINE g == mem[c]
           p == m.prop
<1>1. TypeOK /\ LocalUpdates(c) /\ g \in Group /\ g.status = "operational"
  BY DEF Inv, UpdatesInv, TypeOK, LocalUpdates, Holder
<1>2. IsUpdate(p) /\ p.at = m.epoch
  BY DEF MailOK
<1>3. p \in Proposal
  BY DEF Message, Commit, ProposalMsg, AppMsg
<1>4. /\ g.epoch \in Nat /\ disk[c].epoch \in Nat /\ p.at \in Nat /\ Len(log) \in Nat
      /\ g.epoch <= Len(log)
  BY <1>1, <1>3, Typed, ProposalFields, NotAhead
<1>5. o.res = ParseMessage(g, m)
  <2>1. ~IsSelfCommit(c, m)
    BY DEF IsSelfCommit
  <2>2. CASE ParseMessage(g, m) = "Ok"
    BY <2>1, <2>2 DEF DecryptOutcomes, Outcome, Useless
  <2>3. CASE ParseMessage(g, m) # "Ok"
    BY <2>1, <2>3 DEF DecryptOutcomes, Outcome
  <2>4. QED
    BY <2>2, <2>3
<1>6. ASSUME IsDuplicateMessage(g, m) PROVE p \in g.props /\ p.at = g.epoch
  <2>1. PICK q \in g.props : q.kind = p.kind /\ q.who = p.who /\ q.at = p.at
    BY <1>6 DEF IsDuplicateMessage
  <2>2. IsUpdate(q) /\ q.at = g.epoch
    BY <1>1 DEF LocalUpdates, Holder
  <2>3. q.sender = q.who /\ p.sender = p.who
    BY <1>2, <2>2 DEF IsUpdate, UpdateProposal
  <2>4. q = p
    BY <1>2, <2>1, <2>2, <2>3 DEF IsUpdate
  <2>5. QED
    BY <2>2, <2>4
<1>7. p.at < g.epoch \/ (p.at = g.epoch /\ p \in g.props)
  <2>1. CASE m.epoch # g.epoch
    <3>1. o.res = ParseWrongEpoch(g, m)
      BY <1>1, <1>5, <2>1 DEF ParseMessage
    <3>2. ~IsDuplicateMessage(g, m)
      BY <1>2, <1>6, <2>1
    <3>3. m.epoch < g.epoch
      BY <3>1, <3>2 DEF ParseWrongEpoch, Useless
    <3>4. QED
      BY <1>2, <3>3
  <2>2. CASE m.epoch = g.epoch
    <3>1. IsDuplicateMessage(g, m)
      BY <1>1, <1>5, <2>2 DEF ParseMessage, Useless
    <3>2. QED
      BY <1>6, <3>1
  <2>3. QED
    BY <2>1, <2>2
<1> HIDE DEF p
<1>8. /\ disk[c] = g \/ (disk[c].epoch < g.epoch /\ g.props = {})
      /\ \A e \in Nat :
           disk[c].epoch <= e /\ e < g.epoch /\ log[e + 1].sender # c =>
             \A q \in log[e + 1].refs : e = disk[c].epoch /\ q \in disk[c].props
  BY <1>1 DEF LocalUpdates, Behind
<1>9. CASE p.at < disk[c].epoch \/ (p.at = disk[c].epoch /\ p \in disk[c].props)
  <2>1. Holds(c, p)
    BY <1>7, <1>9 DEF Holds
  <2>2. QED
    BY <2>1 DEF p
<1>10. CASE ~(p.at < disk[c].epoch \/ (p.at = disk[c].epoch /\ p \in disk[c].props))
  <2>1. p.at < g.epoch
    BY <1>7, <1>8, <1>10
  <2>2. disk[c].epoch <= p.at
    BY <1>4, <1>10
  <2>3. log[p.at + 1].sender = c \/ p \notin log[p.at + 1].refs
    BY <1>4, <1>8, <1>10, <2>1, <2>2
  <2>4. p.at < Len(log)
    BY <1>4, <2>1
  <2>5. Past(c, p)
    BY <2>3, <2>4 DEF Past
  <2>6. QED
    BY <2>5 DEF p
<1>11. QED
  BY <1>9, <1>10

\* A message is decrypted, saved and returned.
LEMMA SimpleStep ==
  ASSUME UpdatesOnly, Inv, TypeOK', UpdatesInv, NEW c \in Client, Decrypt(c),
         NEW packet \in net, packet.to = c, DecryptSimple(c, packet.msg)
  PROVE  UpdatesInv'
<1> DEFINE m == packet.msg
           g == mem[c]
<1>1. TypeOK /\ LocalUpdates(c) /\ g \in Group /\ g.epoch \in Nat
  BY DEF Inv, UpdatesInv, TypeOK, Group
<1>2. Elsewhere(c)
  BY <1>1, StepIsLocal
<1>3. /\ m \in Message /\ MailOK(m) /\ MessageOK(m, log, rosters)
      /\ m.kind = "proposal" => Sent(m.prop)
  BY DeliveryFacts
<1>4. /\ call[c] = Idle /\ g.status # "none" /\ Deliver(c, m)
      /\ buf' = buf /\ call' = call /\ log' = log /\ rosters' = rosters /\ created' = created
  BY DEF DecryptSimple, Receives
<1>5. PICK o \in DecryptOutcomes(c, g, m) :
        o.res = "Ok" /\ Persist(c, o.g) /\ Return(c, o.apps, o.props)
  BY DEF DecryptSimple
<1>6. mem'[c] = o.g /\ disk'[c] = o.g /\ outbox'[c] = outbox[c] \cup o.props
  <2>1. mem'[c] = o.g /\ disk'[c] = o.g
    BY <1>1, <1>5 DEF Persist, TypeOK
  <2>2. outbox' = [outbox EXCEPT ![c] = @ \cup o.props]
    BY <1>5 DEF Return
  <2>3. QED
    BY <1>1, <2>1, <2>2 DEF TypeOK
<1>7. Merges(c, g, m, o) \/ Stores(c, g, m, o)
  <2>1. Merges(c, g, m, o) \/ Stores(c, g, m, o) \/ Fails(c, g, m, o)
    BY <1>3, MailFacts
  <2>2. QED
    BY <1>5, <2>1 DEF Fails
<1>8. c \in Founders /\ Holder(c, g)
  BY <1>1, <1>4 DEF LocalUpdates, Holder, NoGroup, NewGroup
<1>9. o.props = {}
  <2>1. m.kind = "commit" => m.sender = c
    BY DEF DecryptSimple, IsSelfCommit
  <2>2. QED
    BY <1>7, <2>1 DEF Merges, Stores
<1>10. /\ Holder(c, mem'[c]) /\ Holder(c, disk'[c])
       /\ \A p \in o.g.props : p \in g.props \/ p.sender = c \/ (m.kind = "proposal" /\ p = m.prop)
  BY <1>1, <1>3, <1>6, <1>7, <1>8, HolderAfter
<1>11. Moved(c)
  BY <1>6, <1>7 DEF Merges, Stores, Moved
<1>12. LogKept
  BY <1>1, <1>4 DEF LogKept, TypeOK
<1>13. Outgoing(c)' = Outgoing(c) /\ outbox'[c] = outbox[c] /\ call'[c] = call[c]
  BY <1>4, <1>6, <1>9 DEF Outgoing
<1>14. LocalUpdates(c)' /\ \A p \in Proposal : Holds(c, p) => Holds(c, p)'
  <2>1. outbox'[c] \cap call'[c].props = {}
    BY <1>1, <1>13 DEF LocalUpdates, OwnUpdates
  <2>2. ReplayHeld(c)' /\ call'[c].op # "wipe"
    BY <1>4, <1>13 DEF ReplayHeld, Replaying, Idle
  <2>3. \A r \in buf'[c] \cup call'[c].todo : MailOK(r.msg)
    BY <1>1, <1>4, <1>13 DEF LocalUpdates
  <2>4. QED
    BY <1>1, <1>10, <1>11, <1>12, <1>13, <2>1, <2>2, <2>3, BusyLocal
<1>15. NothingLost(c)
  <2>1. ASSUME NEW p \in Proposal, Coming(c, p) PROVE Coming(c, p)' \/ Holds(c, p)'
    <3>1. CASE Carries(m, p)
      <4>1. m.kind = "proposal" /\ m.prop = p
        BY <3>1 DEF Carries
      <4>2. Stores(c, g, m, o)
        BY <1>7, <4>1 DEF Merges
      <4>3. p \in o.g.props /\ p.at = o.g.epoch
        BY <1>3, <4>1, <4>2 DEF Stores, MailOK
      <4>4. QED
        BY <1>6, <4>3 DEF Holds
    <3>2. CASE ~Carries(m, p)
      BY <1>4, <2>1, <3>2, ComingAfter
    <3>3. QED
      BY <3>1, <3>2
  <2>2. QED
    BY <1>13, <1>14, <2>1 DEF NothingLost
<1>16. NothingNew(c)
  <2>1. \A p \in o.g.props : p.sender # c => Sent(p)
    BY <1>3, <1>10, OldIsSent
  <2>2. QED
    BY <1>4, <1>6, <2>1, OldIsSent DEF NothingNew
<1>17. Orderly(c)
  <2>1. net' \subseteq net /\ \A q \in net : q.to # c => q \in net'
    BY <1>4, DeliverNet
  <2>2. QED
    BY <1>2, <1>4, <2>1, DsQuiet
<1>18. QED
  BY <1>14, <1>15, <1>16, <1>17, OrderlyStep

\* Another member's commit is merged; the replay begins, or a renewal failed.
LEMMA MergeStep ==
  ASSUME UpdatesOnly, Inv, TypeOK', UpdatesInv, NEW c \in Client, Decrypt(c),
         NEW packet \in net, packet.to = c, DecryptCommit(c, packet.msg)
  PROVE  UpdatesInv'
<1> DEFINE m == packet.msg
           g == mem[c]
<1>1. TypeOK /\ LocalUpdates(c) /\ g \in Group /\ g.epoch \in Nat
  BY DEF Inv, UpdatesInv, TypeOK, Group
<1>2. Elsewhere(c)
  BY <1>1, StepIsLocal
<1>3. m \in Message /\ MailOK(m) /\ MessageOK(m, log, rosters)
  BY DeliveryFacts
<1>4. /\ call[c] = Idle /\ g.status # "none" /\ Deliver(c, m) /\ m.kind = "commit" /\ m.sender # c
      /\ buf' = buf /\ outbox' = outbox /\ log' = log /\ rosters' = rosters /\ created' = created
  BY DEF DecryptCommit, Receives
<1>5. PICK o \in DecryptOutcomes(c, g, m) :
        /\ o.res \in {"Ok", "RenewalFailed"}
        /\ mem' = [mem EXCEPT ![c] = o.g]
        /\ disk' = IF o.saved THEN [disk EXCEPT ![c] = o.g] ELSE disk
        /\ call' = IF o.res = "Ok"
                   THEN [call EXCEPT ![c] = [op |-> "decrypt", outer |-> m, todo |-> buf[c],
                                             apps |-> {}, props |-> o.props]]
                   ELSE call
  BY DEF DecryptCommit
<1>6. mem'[c] = o.g /\ (o.saved => disk'[c] = o.g) /\ (~o.saved => disk'[c] = disk[c])
  BY <1>1, <1>5 DEF TypeOK
<1>7. Merges(c, g, m, o)
  BY <1>3, <1>4, <1>5, MailFacts DEF Fails, Stores
<1>8. c \in Founders /\ Holder(c, g) /\ Holder(c, disk[c])
  BY <1>1, <1>4 DEF LocalUpdates, Holder, NoGroup, NewGroup
<1>9. /\ Holder(c, o.g)
      /\ \A p \in o.g.props : p \in g.props \/ p.sender = c
  BY <1>1, <1>3, <1>4, <1>7, <1>8, HolderAfter
<1>10. g.epoch < Len(log) /\ log[g.epoch + 1] = m /\ m.refs \subseteq g.props
  BY <1>3, <1>4, <1>5, <1>7, MailFacts DEF Merges
<1>11. Moved(c)
  BY <1>6, <1>7, <1>10 DEF Merges, Moved
<1>12. LogKept
  BY <1>1, <1>4 DEF LogKept, TypeOK
<1>13. /\ call'[c].op \in {"decrypt", "idle"}
       /\ call'[c].props \subseteq o.props
       /\ call'[c].op = "decrypt" => call'[c].todo = buf[c]
       /\ call'[c].op = "idle" => call'[c].todo = {}
  <2>1. CASE o.res = "Ok"
    <3>1. call'[c] = [op |-> "decrypt", outer |-> m, todo |-> buf[c], apps |-> {}, props |-> o.props]
      BY <1>1, <1>5, <2>1 DEF TypeOK
    <3>2. QED
      BY <3>1
  <2>2. CASE o.res # "Ok"
    <3>1. call'[c] = Idle
      BY <1>4, <1>5, <2>2
    <3>2. QED
      BY <3>1 DEF Idle
  <2>3. QED
    BY <2>1, <2>2
<1>14. ASSUME NEW x \in o.props
       PROVE  /\ x.prop = UpdateProposal(c, x.epoch) /\ Holds(c, x.prop)'
              /\ x \notin Outgoing(c) /\ ~Sent(x.prop)
  BY <1>1, <1>6, <1>7, <1>8, RenewalIsOwn
<1>15. \A x \in Outgoing(c)' : x \in outbox[c] \/ x \in o.props
  BY <1>4, <1>13 DEF Outgoing
<1>16. LocalUpdates(c)' /\ \A p \in Proposal : Holds(c, p) => Holds(c, p)'
  <2>1. outbox'[c] \cap call'[c].props = {}
    BY <1>4, <1>13, <1>14 DEF Outgoing
  <2>2. ReplayHeld(c)' /\ call'[c].op # "wipe"
    BY <1>4, <1>13 DEF ReplayHeld, Replaying
  <2>3. \A r \in buf'[c] \cup call'[c].todo : MailOK(r.msg)
    BY <1>1, <1>4, <1>13 DEF LocalUpdates
  <2>4. \A x \in Outgoing(c)' :
          x \in Outgoing(c) \/ (x.prop = UpdateProposal(c, x.epoch) /\ Holds(c, x.prop)')
    BY <1>14, <1>15 DEF Outgoing
  <2>5. Holder(c, mem'[c]) /\ Holder(c, disk'[c])
    BY <1>6, <1>8, <1>9
  <2>6. QED
    BY <1>1, <1>11, <1>12, <2>1, <2>2, <2>3, <2>4, <2>5, BusyLocal
<1>17. NothingLost(c)
  <2>1. ASSUME NEW p \in Proposal, Coming(c, p) PROVE Coming(c, p)'
    <3>1. ~Carries(m, p)
      BY <1>4 DEF Carries
    <3>2. QED
      BY <1>4, <2>1, <3>1, ComingAfter
  <2>2. \A x \in Outgoing(c)' : x \in Outgoing(c) \/ ~Sent(x.prop)
    BY <1>14, <1>15 DEF Outgoing
  <2>3. QED
    BY <1>16, <2>1, <2>2 DEF NothingLost
<1>18. NothingNew(c)
  <2>1. \A p \in mem'[c].props \cup disk'[c].props : p.sender # c => Sent(p)
    BY <1>6, <1>9, OldIsSent
  <2>2. \A r \in buf'[c] \cup call'[c].todo : r \in buf[c]
    BY <1>4, <1>13
  <2>3. QED
    BY <2>1, <2>2, OldIsSent DEF NothingNew
<1>19. Orderly(c)
  <2>1. net' \subseteq net /\ \A q \in net : q.to # c => q \in net'
    BY <1>4, DeliverNet
  <2>2. QED
    BY <1>2, <1>4, <2>1, DsQuiet
<1>20. QED
  BY <1>16, <1>17, <1>18, <1>19, OrderlyStep

\* Saving a message keeps it.
LEMMA SaveHolds ==
  ASSUME ~Overwrite, NEW b, NEW m, NEW x \in Save(b, m)
  PROVE  \E r \in x : r.msg = m
<1>1. PICK n : x = b \cup {[n |-> n, msg |-> m]}
  BY DEF Save
<1>2. [n |-> n, msg |-> m] \in x /\ [n |-> n, msg |-> m].msg = m
  BY <1>1
<1>3. QED
  BY <1>2

\* A message of the next epoch is put into the buffer.
LEMMA FutureStep ==
  ASSUME UpdatesOnly, Inv, TypeOK', UpdatesInv, NEW c \in Client, Decrypt(c),
         NEW packet \in net, packet.to = c, DecryptFuture(c, packet.msg)
  PROVE  UpdatesInv'
<1> DEFINE m == packet.msg
<1>1. TypeOK /\ LocalUpdates(c)
  BY DEF Inv, UpdatesInv
<1>2. Elsewhere(c)
  BY <1>1, StepIsLocal
<1>3. /\ m \in Message /\ MailOK(m)
      /\ m.kind = "proposal" => Sent(m.prop)
  BY DeliveryFacts
<1>4. /\ call[c] = Idle /\ Deliver(c, m)
      /\ mem' = mem /\ disk' = disk /\ call' = call /\ outbox' = outbox
      /\ log' = log /\ rosters' = rosters /\ created' = created
  BY DEF DecryptFuture, Receives
<1>5. PICK b \in Save(buf[c], m) : buf' = [buf EXCEPT ![c] = b]
  BY DEF DecryptFuture
<1>6. /\ buf[c] \subseteq buf'[c]
      /\ \A r \in buf'[c] : r \in buf[c] \/ r.msg = m
      /\ \E r \in buf'[c] : r.msg = m
  <2>1. buf'[c] = b
    BY <1>1, <1>5 DEF TypeOK
  <2>2. QED
    BY <2>1, SaveKeeps, SaveOK, SaveHolds DEF UpdatesOnly
<1>7. Moved(c) /\ LogKept
  BY <1>1, <1>4 DEF Moved, LogKept, TypeOK
<1>8. Outgoing(c)' = Outgoing(c)
  BY <1>4 DEF Outgoing
<1>9. LocalUpdates(c)' /\ \A p \in Proposal : Holds(c, p) => Holds(c, p)'
  <2>1. outbox'[c] \cap call'[c].props = {}
    BY <1>1, <1>4 DEF LocalUpdates, OwnUpdates
  <2>2. ReplayHeld(c)' /\ call'[c].op # "wipe"
    BY <1>4 DEF ReplayHeld, Replaying, Idle
  <2>3. \A r \in buf'[c] \cup call'[c].todo : MailOK(r.msg)
    BY <1>1, <1>3, <1>4, <1>6 DEF LocalUpdates
  <2>4. Holder(c, mem'[c]) /\ Holder(c, disk'[c])
    BY <1>1, <1>4 DEF LocalUpdates
  <2>5. QED
    BY <1>1, <1>7, <1>8, <2>1, <2>2, <2>3, <2>4, BusyLocal
<1>10. NothingLost(c)
  <2>1. ASSUME NEW p \in Proposal, Coming(c, p) PROVE Coming(c, p)'
    <3>1. CASE Carries(m, p)
      <4>1. \E r \in buf'[c] : Carries(r.msg, p)
        BY <1>6, <3>1
      <4>2. QED
        BY <4>1 DEF Coming, Carries
    <3>2. CASE ~Carries(m, p)
      BY <1>4, <1>6, <2>1, <3>2, ComingAfter
    <3>3. QED
      BY <3>1, <3>2
  <2>2. QED
    BY <1>8, <1>9, <2>1 DEF NothingLost
<1>11. NothingNew(c)
  BY <1>3, <1>4, <1>6, OldIsSent DEF NothingNew
<1>12. Orderly(c)
  <2>1. net' \subseteq net /\ \A q \in net : q.to # c => q \in net'
    BY <1>4, DeliverNet
  <2>2. QED
    BY <1>2, <1>4, <2>1, DsQuiet
<1>13. QED
  BY <1>9, <1>10, <1>11, <1>12, OrderlyStep

\* A message that is of no use, or comes to a client without the group.
LEMMA DropStep ==
  ASSUME UpdatesOnly, Inv, TypeOK', UpdatesInv, NEW c \in Client, Decrypt(c),
         NEW packet \in net, packet.to = c,
         DecryptRejected(c, packet.msg) \/ DecryptNoGroup(c, packet.msg)
  PROVE  UpdatesInv'
<1> DEFINE m == packet.msg
<1>1. TypeOK /\ LocalUpdates(c)
  BY DEF Inv, UpdatesInv
<1>2. Elsewhere(c)
  BY <1>1, StepIsLocal
<1>3. m \in Message /\ MailOK(m)
  BY DeliveryFacts
<1>4. /\ Deliver(c, m)
      /\ mem' = mem /\ disk' = disk /\ call' = call /\ outbox' = outbox /\ buf' = buf
      /\ log' = log /\ rosters' = rosters /\ created' = created
  BY DEF DecryptRejected, DecryptNoGroup, Receives, clientVars
<1>5. LogKept
  BY <1>1, <1>4 DEF LogKept, TypeOK
<1>6. LocalUpdates(c)'
  BY <1>1, <1>4, <1>5, LocalStays
<1>7. ASSUME c \in Founders, NEW p \in Proposal, Coming(c, p)
      PROVE  Coming(c, p)' \/ Past(c, p)' \/ Holds(c, p)'
  <2>1. CASE ~Carries(m, p)
    BY <1>4, <1>7, <2>1, ComingAfter
  <2>2. CASE Carries(m, p)
    <3>1. m.kind = "proposal" /\ m.prop = p
      BY <2>2 DEF Carries
    <3>2. mem[c].status = "operational"
      BY <1>1, <1>7 DEF LocalUpdates, Holder
    <3>3. PICK o \in DecryptOutcomes(c, mem[c], m) : o.res \in Useless
      BY <3>2 DEF DecryptRejected, DecryptNoGroup
    <3>4. Past(c, p) \/ Holds(c, p)
      BY <1>3, <1>7, <3>1, <3>3, Dismissed
    <3>5. Holds(c, p) => Holds(c, p)'
      BY <1>4 DEF Holds
    <3>6. QED
      BY <1>1, <1>5, <3>4, <3>5, PastStays
  <2>3. QED
    BY <2>1, <2>2
<1>8. NothingLost(c)
  <2>1. \A p \in Proposal : Holds(c, p) => Holds(c, p)'
    BY <1>4 DEF Holds
  <2>2. Outgoing(c)' = Outgoing(c)
    BY <1>4 DEF Outgoing
  <2>3. QED
    BY <1>7, <2>1, <2>2 DEF NothingLost
<1>9. NothingNew(c)
  BY <1>4, OldIsSent DEF NothingNew
<1>10. Orderly(c)
  <2>1. net' \subseteq net /\ \A q \in net : q.to # c => q \in net'
    BY <1>4, DeliverNet
  <2>2. QED
    BY <1>2, <1>4, <2>1, DsQuiet
<1>11. QED
  BY <1>6, <1>8, <1>9, <1>10, OrderlyStep

\* Without the group nothing is decrypted.
LEMMA NoGroupFails ==
  ASSUME NEW c, NEW m, NEW o \in DecryptOutcomes(c, NoGroup, m)
  PROVE  o.res \notin {"Ok", "RenewalFailed"} /\ o.g = NoGroup
<1>1. NoGroup.status = "none" /\ NoGroup.pc = NoCommit
  BY DEF NoGroup, NewGroup
<1>2. CASE IsSelfCommit(c, m)
  BY <1>1, <1>2 DEF DecryptOutcomes, SelfCommitOutcome, Outcome
<1>3. CASE ~IsSelfCommit(c, m)
  <2>1. ParseMessage(NoGroup, m) = "UseAfterEviction"
    BY <1>1 DEF ParseMessage
  <2>2. QED
    BY <1>3, <2>1 DEF DecryptOutcomes, Outcome
<1>4. QED
  BY <1>2, <1>3

\* What is known of a row that is about to be replayed.
LEMMA RowFacts ==
  ASSUME Inv, UpdatesInv, NEW c \in Client, NEW r \in call[c].todo
  PROVE  /\ r.msg \in Message /\ MailOK(r.msg) /\ MessageOK(r.msg, log, rosters)
         /\ r.msg.kind = "proposal" => Sent(r.msg.prop)
<1>1. r \in Row
  BY Typed DEF Inv
<1>2. MailOK(r.msg) /\ MessageOK(r.msg, log, rosters)
  BY DEF Inv, DeliveredIsAccepted, UpdatesInv, LocalUpdates
<1>3. QED
  BY <1>1, <1>2, OldIsSent DEF Row

\* One buffered message is replayed.
LEMMA RestoreStep ==
  ASSUME UpdatesOnly, Inv, TypeOK', UpdatesInv, NEW c \in Client, RestoreMessage(c)
  PROVE  UpdatesInv'
<1> DEFINE g == mem[c]
<1>1. TypeOK /\ LocalUpdates(c) /\ g \in Group /\ g.epoch \in Nat /\ call[c] \in Call
  BY DEF Inv, UpdatesInv, TypeOK, Group
<1>2. Elsewhere(c)
  BY <1>1, StepIsLocal DEF Restore
<1>3. PICK r \in call[c].todo : \E o \in DecryptOutcomes(c, g, r.msg) :
        /\ o.res = "Ok" /\ Persist(c, o.g)
        /\ call' = [call EXCEPT ![c].todo = @ \ {r}, ![c].apps = @ \cup o.apps,
                                ![c].props = @ \cup o.props]
  BY DEF RestoreMessage
<1>4. PICK o \in DecryptOutcomes(c, g, r.msg) :
        /\ o.res = "Ok" /\ Persist(c, o.g)
        /\ call' = [call EXCEPT ![c].todo = @ \ {r}, ![c].apps = @ \cup o.apps,
                                ![c].props = @ \cup o.props]
  BY <1>3
<1>5. /\ Replaying(c) /\ buf' = buf /\ outbox' = outbox /\ net' = net
      /\ log' = log /\ rosters' = rosters /\ created' = created
  BY DEF RestoreMessage, dsVars
<1> DEFINE m == r.msg
<1>6. /\ m \in Message /\ MailOK(m) /\ MessageOK(m, log, rosters)
      /\ m.kind = "proposal" => Sent(m.prop)
  BY RowFacts
<1>7. mem'[c] = o.g /\ disk'[c] = o.g
  BY <1>1, <1>4 DEF Persist, TypeOK
<1>8. /\ call'[c].op = call[c].op /\ call'[c].todo = call[c].todo \ {r}
      /\ call'[c].props = call[c].props \cup o.props
  BY <1>1, <1>4 DEF TypeOK, Call
<1>9. Merges(c, g, m, o) \/ Stores(c, g, m, o)
  <2>1. Merges(c, g, m, o) \/ Stores(c, g, m, o) \/ Fails(c, g, m, o)
    BY <1>6, MailFacts
  <2>2. QED
    BY <1>4, <2>1 DEF Fails
<1>10. c \in Founders /\ Holder(c, g)
  <2>1. g # NoGroup
    BY <1>4, NoGroupFails
  <2>2. QED
    BY <1>1, <2>1 DEF LocalUpdates, Holder
<1>11. /\ Holder(c, mem'[c]) /\ Holder(c, disk'[c])
       /\ \A p \in o.g.props : p \in g.props \/ p.sender = c \/ (m.kind = "proposal" /\ p = m.prop)
  BY <1>1, <1>6, <1>7, <1>9, <1>10, HolderAfter
<1>12. Moved(c)
  BY <1>7, <1>9 DEF Merges, Stores, Moved
<1>13. LogKept
  BY <1>1, <1>5 DEF LogKept, TypeOK
<1>14. ASSUME NEW x \in o.props
       PROVE  /\ x.prop = UpdateProposal(c, x.epoch) /\ Holds(c, x.prop)'
              /\ x \notin Outgoing(c) /\ ~Sent(x.prop)
  <2>1. Merges(c, g, m, o)
    BY <1>9 DEF Stores
  <2>2. QED
    BY <1>1, <1>7, <1>10, <2>1, RenewalIsOwn
<1>15. Outgoing(c)' = Outgoing(c) \cup o.props
  BY <1>5, <1>8 DEF Outgoing
<1>16. ReplayHeld(c)'
  <2>1. ASSUME NEW x \in buf[c] \ (call[c].todo \ {r}), x.msg.kind = "proposal"
        PROVE  \/ x.msg.prop.at < mem'[c].epoch
               \/ x.msg.prop.at = mem'[c].epoch /\ x.msg.prop \in mem'[c].props
    <3>1. CASE x = r
      <4>1. Stores(c, g, m, o)
        BY <1>9, <2>1, <3>1 DEF Merges
      <4>2. m.prop \in o.g.props /\ m.prop.at = o.g.epoch
        BY <1>6, <2>1, <3>1, <4>1 DEF Stores, MailOK
      <4>3. QED
        BY <1>7, <3>1, <4>2
    <3>2. CASE x # r
      <4>1. x \in buf[c] \ call[c].todo
        BY <2>1, <3>2
      <4>2. \/ x.msg.prop.at < g.epoch
            \/ x.msg.prop.at = g.epoch /\ x.msg.prop \in g.props
        BY <1>1, <1>5, <2>1, <4>1 DEF LocalUpdates, ReplayHeld
      <4>3. x.msg.prop.at \in Nat
        <5>1. x \in Row
          BY <1>1, <2>1, Typed
        <5>2. x.msg \in Message
          BY <5>1 DEF Row
        <5>3. x.msg.prop \in Proposal
          BY <2>1, <5>2 DEF Message, Commit, ProposalMsg, AppMsg
        <5>4. QED
          BY <5>3, ProposalFields
      <4>4. CASE Merges(c, g, m, o)
        <5>1. mem'[c].epoch = g.epoch + 1
          BY <1>7, <4>4 DEF Merges
        <5>2. QED
          BY <1>1, <4>2, <4>3, <5>1
      <4>5. CASE Stores(c, g, m, o)
        <5>1. mem'[c].epoch = g.epoch /\ g.props \subseteq mem'[c].props
          BY <1>7, <4>5 DEF Stores
        <5>2. QED
          BY <4>2, <5>1
      <4>6. QED
        BY <1>9, <4>4, <4>5
    <3>3. QED
      BY <3>1, <3>2
  <2>2. QED
    BY <1>5, <1>8, <2>1 DEF ReplayHeld
<1>17. LocalUpdates(c)' /\ \A p \in Proposal : Holds(c, p) => Holds(c, p)'
  <2>1. outbox'[c] \cap call'[c].props = {}
    BY <1>1, <1>5, <1>8, <1>14 DEF LocalUpdates, OwnUpdates, Outgoing
  <2>2. call'[c].op # "wipe"
    BY <1>1, <1>8 DEF LocalUpdates
  <2>3. \A x \in buf'[c] \cup call'[c].todo : MailOK(x.msg)
    BY <1>1, <1>5, <1>8 DEF LocalUpdates
  <2>4. \A x \in Outgoing(c)' :
          x \in Outgoing(c) \/ (x.prop = UpdateProposal(c, x.epoch) /\ Holds(c, x.prop)')
    BY <1>14, <1>15
  <2>5. QED
    BY <1>1, <1>11, <1>12, <1>13, <1>16, <2>1, <2>2, <2>3, <2>4, BusyLocal
<1>18. NothingLost(c)
  <2>1. \A p \in Proposal : Coming(c, p) => Coming(c, p)'
    BY <1>5 DEF Coming, Carries
  <2>2. \A x \in Outgoing(c)' : x \in Outgoing(c) \/ ~Sent(x.prop)
    BY <1>14, <1>15
  <2>3. QED
    BY <1>17, <2>1, <2>2 DEF NothingLost
<1>19. NothingNew(c)
  <2>1. \A p \in o.g.props : p.sender # c => Sent(p)
    BY <1>6, <1>11, OldIsSent
  <2>2. \A x \in buf'[c] \cup call'[c].todo : x \in buf[c] \cup call[c].todo
    BY <1>5, <1>8
  <2>3. QED
    BY <1>7, <2>1, <2>2, OldIsSent DEF NothingNew
<1>20. Orderly(c)
  BY <1>2, <1>5, DsQuiet
<1>21. QED
  BY <1>17, <1>18, <1>19, <1>20, OrderlyStep

\* A replay that fails: the buffer stays, with the commit being decrypted perhaps.
LEMMA FailStep ==
  ASSUME UpdatesOnly, Inv, TypeOK', UpdatesInv, NEW c \in Client, RestoreFails(c)
  PROVE  UpdatesInv'
<1> DEFINE g == mem[c]
<1>1. TypeOK /\ LocalUpdates(c) /\ g \in Group /\ g.epoch \in Nat /\ call[c] \in Call
  BY DEF Inv, UpdatesInv, TypeOK, Group
<1>2. Elsewhere(c)
  BY <1>1, StepIsLocal DEF Restore
<1>3. PICK r \in call[c].todo : \E o \in DecryptOutcomes(c, g, r.msg) :
        /\ o.res # "Ok"
        /\ mem' = [mem EXCEPT ![c] = o.g]
        /\ disk' = IF o.saved THEN [disk EXCEPT ![c] = o.g] ELSE disk
  BY DEF RestoreFails
<1>4. PICK o \in DecryptOutcomes(c, g, r.msg) :
        /\ o.res # "Ok"
        /\ mem' = [mem EXCEPT ![c] = o.g]
        /\ disk' = IF o.saved THEN [disk EXCEPT ![c] = o.g] ELSE disk
  BY <1>3
<1>5. /\ call' = [call EXCEPT ![c] = Idle] /\ outbox' = outbox /\ net' = net
      /\ log' = log /\ rosters' = rosters /\ created' = created
  BY DEF RestoreFails, dsVars
<1> DEFINE m == r.msg
<1>6. m \in Message /\ MailOK(m) /\ MessageOK(m, log, rosters)
  BY RowFacts
<1>7. mem'[c] = o.g /\ (o.saved => disk'[c] = o.g) /\ (~o.saved => disk'[c] = disk[c])
  BY <1>1, <1>4 DEF TypeOK
<1>8. call'[c].op = "idle" /\ call'[c].todo = {} /\ call'[c].props = {}
  BY <1>1, <1>5 DEF TypeOK, Idle
<1>9. /\ buf[c] \subseteq buf'[c]
      /\ \A x \in buf'[c] : x \in buf[c] \/ x.msg.kind = "commit"
  <2>1. CASE buf' = buf
    BY <2>1
  <2>2. CASE /\ call[c].outer # NoCommit
             /\ \E b \in Save(buf[c], call[c].outer) : buf' = [buf EXCEPT ![c] = b]
    <3>1. PICK b \in Save(buf[c], call[c].outer) : buf' = [buf EXCEPT ![c] = b]
      BY <2>2
    <3>2. buf'[c] = b
      BY <1>1, <3>1 DEF TypeOK
    <3>3. call[c].outer.kind = "commit"
      BY <1>1, <2>2 DEF Call, Commit
    <3>4. QED
      BY <3>2, <3>3, SaveKeeps, SaveOK DEF UpdatesOnly
  <2>3. QED
    BY <2>1, <2>2 DEF RestoreFails
<1>10. Merges(c, g, m, o) \/ Fails(c, g, m, o)
  <2>1. Merges(c, g, m, o) \/ Stores(c, g, m, o) \/ Fails(c, g, m, o)
    BY <1>6, MailFacts
  <2>2. QED
    BY <1>4, <2>1 DEF Stores
<1>11. LogKept
  BY <1>1, <1>5 DEF LogKept, TypeOK
<1>12. /\ Moved(c) /\ Holder(c, mem'[c]) /\ Holder(c, disk'[c])
       /\ \A p \in mem'[c].props \cup disk'[c].props :
            p \in mem[c].props \cup disk[c].props \/ p.sender = c
  <2>1. CASE Fails(c, g, m, o)
    <3>1. mem'[c] = mem[c] /\ disk'[c] = disk[c]
      BY <1>7, <2>1 DEF Fails
    <3>2. QED
      BY <1>1, <3>1 DEF Moved, LocalUpdates
  <2>2. CASE Merges(c, g, m, o) /\ ~Fails(c, g, m, o)
    <3>1. c \in Founders /\ Holder(c, g) /\ Holder(c, disk[c])
      <4>1. g # NoGroup
        <5>1. ASSUME g = NoGroup PROVE FALSE
          <6>1. o.g = g
            BY <5>1, NoGroupFails
          <6>2. QED
            BY <1>1, <2>2, <6>1 DEF Merges
        <5>2. QED
          BY <5>1
      <4>2. QED
        BY <1>1, <4>1 DEF LocalUpdates, Holder
    <3>2. Holder(c, o.g) /\ \A p \in o.g.props : p \in g.props \/ p.sender = c
      <4>1. m.kind = "commit"
        BY <2>2 DEF Merges
      <4>2. QED
        BY <1>1, <1>6, <2>2, <3>1, <4>1, HolderAfter
    <3>3. CASE m.sender = c
      <4>1. disk'[c] = o.g
        BY <1>7, <2>2, <3>3 DEF Merges
      <4>2. Moved(c)
        BY <1>7, <2>2, <4>1 DEF Merges, Moved
      <4>3. QED
        BY <1>7, <3>1, <3>2, <4>1, <4>2
    <3>4. CASE m.sender # c
      <4>1. g.epoch < Len(log) /\ log[g.epoch + 1] = m /\ m.refs \subseteq g.props
        BY <1>6, <2>2, <3>4, MailFacts DEF Merges
      <4>2. Moved(c)
        BY <1>7, <2>2, <4>1 DEF Merges, Moved
      <4>3. QED
        BY <1>7, <3>1, <3>2, <4>2
    <3>5. QED
      BY <3>3, <3>4
  <2>3. QED
    BY <1>10, <2>1, <2>2
<1>13. Outgoing(c)' \subseteq Outgoing(c)
  BY <1>5, <1>8 DEF Outgoing
<1>14. LocalUpdates(c)' /\ \A p \in Proposal : Holds(c, p) => Holds(c, p)'
  <2>1. outbox'[c] \cap call'[c].props = {}
    BY <1>8
  <2>2. ReplayHeld(c)' /\ call'[c].op # "wipe"
    BY <1>8 DEF ReplayHeld, Replaying
  <2>3. \A x \in buf'[c] \cup call'[c].todo : MailOK(x.msg)
    BY <1>1, <1>8, <1>9 DEF LocalUpdates, MailOK
  <2>4. QED
    BY <1>1, <1>11, <1>12, <1>13, <2>1, <2>2, <2>3, BusyLocal
<1>15. NothingLost(c)
  <2>1. \A p \in Proposal : Coming(c, p) => Coming(c, p)'
    BY <1>5, <1>9 DEF Coming, Carries
  <2>2. QED
    BY <1>13, <1>14, <2>1 DEF NothingLost
<1>16. NothingNew(c)
  BY <1>8, <1>9, <1>12, OldIsSent DEF NothingNew
<1>17. Orderly(c)
  BY <1>2, <1>5, DsQuiet
<1>18. QED
  BY <1>14, <1>15, <1>16, <1>17, OrderlyStep

\* The replay is over: the group is saved and the buffer emptied.
LEMMA FinishStep ==
  ASSUME UpdatesOnly, Inv, TypeOK', UpdatesInv, NEW c \in Client, FinishRestore(c)
  PROVE  UpdatesInv'
<1>1. TypeOK /\ LocalUpdates(c) /\ mem[c] \in Group
  BY DEF Inv, UpdatesInv, TypeOK
<1>2. Elsewhere(c)
  BY <1>1, StepIsLocal DEF Restore
<1>3. /\ Replaying(c) /\ call[c].todo = {} /\ mem' = mem
      /\ buf' = [buf EXCEPT ![c] = {}] /\ disk' = [disk EXCEPT ![c] = mem[c]]
      /\ net' = net /\ log' = log /\ rosters' = rosters /\ created' = created
  BY DEF FinishRestore, dsVars
<1>4. Holder(c, mem[c]) /\ mem[c].status # "inactive"
  BY <1>1 DEF LocalUpdates, Holder, NoGroup, NewGroup
<1>5. /\ call' = [call EXCEPT ![c] = Idle]
      /\ Return(c, call[c].apps, call[c].props)
  BY <1>4 DEF FinishRestore
<1>6. buf'[c] = {} /\ disk'[c] = mem[c] /\ mem'[c] = mem[c]
  BY <1>1, <1>3 DEF TypeOK
<1>7. call'[c].op = "idle" /\ call'[c].todo = {} /\ call'[c].props = {}
  BY <1>1, <1>5 DEF TypeOK, Idle
<1>8. Outgoing(c)' = Outgoing(c)
  <2>1. outbox' = [outbox EXCEPT ![c] = @ \cup call[c].props]
    BY <1>5 DEF Return
  <2>2. outbox'[c] = outbox[c] \cup call[c].props
    BY <1>1, <2>1 DEF TypeOK
  <2>3. QED
    BY <1>7, <2>2 DEF Outgoing
<1>9. Moved(c) /\ LogKept
  BY <1>1, <1>3, <1>6 DEF Moved, LogKept, TypeOK
<1>10. LocalUpdates(c)' /\ \A p \in Proposal : Holds(c, p) => Holds(c, p)'
  <2>1. outbox'[c] \cap call'[c].props = {}
    BY <1>7
  <2>2. ReplayHeld(c)' /\ call'[c].op # "wipe"
    BY <1>7 DEF ReplayHeld, Replaying
  <2>3. \A x \in buf'[c] \cup call'[c].todo : MailOK(x.msg)
    BY <1>6, <1>7
  <2>4. Holder(c, mem'[c]) /\ Holder(c, disk'[c])
    BY <1>4, <1>6
  <2>5. QED
    BY <1>1, <1>8, <1>9, <2>1, <2>2, <2>3, <2>4, BusyLocal
<1>11. ASSUME NEW p \in Proposal, Coming(c, p) PROVE Coming(c, p)' \/ Holds(c, p)'
  <2>1. CASE \E packet \in net : packet.to = c /\ Carries(packet.msg, p)
    BY <1>3, <2>1 DEF Coming, Carries
  <2>2. CASE \E r \in buf[c] : Carries(r.msg, p)
    <3>1. PICK r \in buf[c] : r.msg.kind = "proposal" /\ r.msg.prop = p
      BY <2>2 DEF Carries
    <3>2. p.at < mem[c].epoch \/ (p.at = mem[c].epoch /\ p \in mem[c].props)
      BY <1>1, <1>3, <3>1 DEF LocalUpdates, ReplayHeld
    <3>3. QED
      BY <1>6, <3>2 DEF Holds
  <2>3. QED
    BY <1>11, <2>1, <2>2 DEF Coming
<1>12. NothingLost(c)
  BY <1>8, <1>10, <1>11 DEF NothingLost
<1>13. NothingNew(c)
  BY <1>6, <1>7, OldIsSent DEF NothingNew
<1>14. Orderly(c)
  BY <1>2, <1>3, DsQuiet
<1>15. QED
  BY <1>10, <1>12, <1>13, <1>14, OrderlyStep

\* Every step keeps the invariant.
LEMMA UpdatesStep ==
  ASSUME UpdatesOnly, Inv, TypeOK', UpdatesInv, NEW c \in Client,
         \/ Create(c) \/ SendProposal(c) \/ ClearPendingProposal(c)
         \/ PostCommit(c) \/ CommitAccepted(c) \/ ClearPendingCommit(c)
         \/ Decrypt(c) \/ Restore(c) \/ WipeConversation(c) \/ Crash(c)
  PROVE  UpdatesInv'
<1>1. CASE Create(c)
  <2>1. ~NewExternalAddProposal(c) /\ \A x : ~AddMembers(c, x) /\ ~RemoveMembers(c, x)
    BY DEF UpdatesOnly, NewExternalAddProposal, AddMembers, RemoveMembers
  <2>2. CASE EncryptMessage(c)
    BY <2>2, SaveStep
  <2>3. CASE \E kind \in {"add", "remove", "update"}, x \in Client : NewProposal(c, kind, x)
    BY <1>1, <2>3, ProposeStep
  <2>4. CASE UpdateKeyingMaterial(c) \/ CommitPendingProposals(c)
    <3>1. CreateCommit(c, {})
      BY <2>4 DEF UpdateKeyingMaterial, CommitPendingProposals
    <3>2. QED
      BY <1>1, <3>1, CommitStep
  <2>5. QED
    BY <1>1, <2>1, <2>2, <2>3, <2>4 DEF Create
<1>2. CASE Decrypt(c)
  <2>1. PICK packet \in net :
          /\ packet.to = c
          /\ \/ DecryptSimple(c, packet.msg) \/ DecryptCommit(c, packet.msg)
             \/ DecryptFuture(c, packet.msg) \/ DecryptRejected(c, packet.msg)
             \/ DecryptNoGroup(c, packet.msg) \/ ProcessWelcome(c, packet.msg)
    BY <1>2 DEF Decrypt
  <2>2. ~ProcessWelcome(c, packet.msg)
    BY DEF UpdatesInv, MailOK, ProcessWelcome
  <2>3. QED
    BY <1>2, <2>1, <2>2, SimpleStep, MergeStep, FutureStep, DropStep
<1>3. CASE Restore(c)
  BY <1>3, RestoreStep, FailStep, FinishStep DEF Restore
<1>4. ~WipeConversation(c)
  BY DEF UpdatesInv, LocalUpdates, WipeConversation
<1>5. CASE ClearPendingCommit(c)
  BY <1>5, SaveStep
<1>6. CASE SendProposal(c) \/ ClearPendingProposal(c)
  BY <1>6, SendStep, ClearStep
<1>7. CASE PostCommit(c) \/ CommitAccepted(c) \/ Crash(c)
  BY <1>7, PostStep, AcceptedStep, CrashStep
<1>8. QED
  BY <1>1, <1>2, <1>3, <1>4, <1>5, <1>6, <1>7

\* At the start nothing is pending or on its way.
LEMMA InitUpdates == Init => UpdatesInv
<1> SUFFICES ASSUME Init PROVE UpdatesInv
  OBVIOUS
<1>1. ASSUME NEW c \in Client
      PROVE  /\ mem[c] = (IF c \in Founders THEN NewGroup(0, 0, Founders) ELSE NoGroup)
             /\ disk[c] = mem[c] /\ buf[c] = {} /\ call[c] = Idle /\ outbox[c] = {}
  BY DEF Init
<1>2. ASSUME NEW c \in Client
      PROVE  /\ mem[c].props = {} /\ mem[c].epoch = 0
             /\ IF c \in Founders THEN mem[c].status = "operational" ELSE mem[c] = NoGroup
  BY <1>1 DEF NewGroup, NoGroup
<1>3. ASSUME NEW c \in Client PROVE LocalUpdates(c)
  <2>1. Holder(c, mem[c]) /\ Holder(c, disk[c])
    BY <1>1, <1>2 DEF Holder
  <2>2. Behind(c)
    <3>1. ~ \E e \in Nat : disk[c].epoch <= e /\ e < mem[c].epoch
      BY <1>1, <1>2
    <3>2. QED
      BY <1>1, <3>1 DEF Behind
  <2>3. OwnUpdates(c) /\ ReplayHeld(c)
    BY <1>1 DEF OwnUpdates, Outgoing, ReplayHeld, Replaying, Idle
  <2>4. call[c].op # "wipe" /\ \A r \in buf[c] \cup call[c].todo : MailOK(r.msg)
    BY <1>1 DEF Idle
  <2>5. QED
    BY <2>1, <2>2, <2>3, <2>4 DEF LocalUpdates
<1>4. \A p : ~Sent(p)
  <2>1. net = {} /\ created = {}
    BY DEF Init
  <2>2. ASSUME NEW c \in Client
        PROVE  buf[c] = {} /\ call[c].todo = {} /\ mem[c].props = {} /\ disk[c].props = {}
    <3>1. buf[c] = {} /\ call[c] = Idle /\ disk[c] = mem[c]
      BY <1>1
    <3>2. mem[c].props = {}
      BY <1>2
    <3>3. QED
      BY <3>1, <3>2 DEF Idle
  <2>3. QED
    BY <2>1, <2>2 DEF Sent
<1>5. \A i \in 1..Len(rosters) : rosters[i] = Founders
  BY DEF Init
<1>6. net = {} /\ created = {}
  BY DEF Init
<1>7. QED
  BY <1>3, <1>4, <1>5, <1>6 DEF UpdatesInv

\* What the invariant is for.
LEMMA UpdatesDecryptable ==
  ASSUME Inv, UpdatesInv
  PROVE  CommitsDecryptable
<1> SUFFICES ASSUME NEW d \in Client, NEW e \in 1..Len(log),
                    mem[d].status = "operational", mem[d].epoch = e - 1, log[e].sender # d,
                    NEW p \in log[e].refs
             PROVE  \/ p \in mem[d].props
                    \/ \E packet \in net : /\ packet.to = d
                                           /\ packet.msg.kind = "proposal"
                                           /\ packet.msg.prop = p
                    \/ \E r \in buf[d] : r.msg.kind = "proposal" /\ r.msg.prop = p
  BY DEF CommitsDecryptable
<1>1. TypeOK /\ Len(log) \in Nat /\ log[e] \in created /\ log[e].epoch + 1 = e
  BY DEF Inv, TypeOK, HistoryOK
<1>2. log[e] \in Commit
  BY <1>1 DEF TypeOK
<1>3. p \in Proposal /\ log[e].epoch \in Nat
  BY <1>2 DEF Commit
<1>4. p.at = log[e].epoch /\ IsUpdate(p) /\ Sent(p)
  BY <1>1, OldIsSent DEF UpdatesInv, CommitOfUpdates
<1>5. p.at + 1 = e /\ p.at = mem[d].epoch
  BY <1>1, <1>3, <1>4
<1>6. d \in Founders
  BY DEF UpdatesInv, LocalUpdates, Holder, NoGroup, NewGroup
<1>7. Reaches(d, p)
  BY <1>3, <1>4, <1>6 DEF UpdatesInv
<1>8. ~Past(d, p)
  BY <1>5 DEF Past
<1>9. Holds(d, p) => p \in mem[d].props
  <2>1. mem[d].epoch \in Nat
    BY <1>1, Typed
  <2>2. QED
    BY <1>5, <2>1 DEF Holds
<1>10. Coming(d, p) \/ Holds(d, p)
  BY <1>7, <1>8 DEF Reaches
<1>11. QED
  BY <1>9, <1>10 DEF Coming, Carries

\* A commit that the DS accepted can be decrypted by every member still in its
\* epoch, for any number of clients, epochs, crashes, repeated, reordered and
\* lost messages and failed calls, when updates are the only proposals
\* (decrypt.rs, renew.rs, buffer_messages.rs).
THEOREM AcceptedIsDecryptable == UpdatesOnly => (Spec => []CommitsDecryptable)
<1> SUFFICES ASSUME UpdatesOnly PROVE Spec => []CommitsDecryptable
  OBVIOUS
<1>1. Inv /\ UpdatesInv /\ [Next]_vars => UpdatesInv'
  <2>1. ASSUME UpdatesInv, Inv, UNCHANGED vars PROVE UpdatesInv'
    <3>1. /\ mem' = mem /\ disk' = disk /\ buf' = buf /\ call' = call /\ outbox' = outbox
          /\ log' = log /\ rosters' = rosters /\ net' = net /\ created' = created
      BY <2>1 DEF vars
    <3>2. TypeOK'
      BY <2>1, StepType DEF Inv
    <3>3. LogKept
      BY <2>1, <3>1 DEF LogKept, Inv, TypeOK
    <3>4. \A c \in Client : LocalUpdates(c)'
      BY <2>1, <3>1, <3>2, <3>3, LocalStays DEF UpdatesInv
    <3>5. \A p \in Proposal : Sent(p)' => Sent(p)
      BY <3>1 DEF Sent, Carries
    <3>6. \A d, p : Reaches(d, p) => Reaches(d, p)'
      BY <3>1 DEF Reaches, Holds, Outgoing, Past, Coming, Carries
    <3>7. /\ (\A packet \in net : MailOK(packet.msg))'
          /\ (\A cm \in created : CommitOfUpdates(cm))'
          /\ (\A i \in 1..Len(rosters) : rosters[i] = Founders)'
      BY <2>1, <3>1 DEF UpdatesInv, MailOK, CommitOfUpdates
    <3>8. QED
      BY <2>1, <3>4, <3>5, <3>6, <3>7 DEF UpdatesInv
  <2>2. ASSUME UpdatesInv, Inv, Next PROVE UpdatesInv'
    <3>1. TypeOK'
      BY <2>2, StepType DEF Inv
    <3>2. PICK c \in Client :
            \/ Create(c) \/ SendProposal(c) \/ ClearPendingProposal(c)
            \/ PostCommit(c) \/ CommitAccepted(c) \/ ClearPendingCommit(c)
            \/ Decrypt(c) \/ Restore(c) \/ WipeConversation(c) \/ Crash(c)
      BY <2>2 DEF Next
    <3>3. QED
      BY <2>2, <3>1, <3>2, UpdatesStep
  <2>3. QED
    BY <2>1, <2>2
<1>2. Inv /\ UpdatesInv => CommitsDecryptable
  BY UpdatesDecryptable
<1>3. QED
  BY <1>1, <1>2, InitInv, StepInv, InitUpdates, PTL DEF Spec

-----------------------------------------------------------------------------
(* LocalProposalsRenewed: the two cases it excepts are the only ones in    *)
(* which renew.rs loses something.                                         *)

\* An update is about its sender.
OfOwner(p) == p.kind = "update" => p.who = p.sender

\* A proposal that reaches c is somebody else's, one that leaves it is its own.
FromOthers(c, m) == m.kind = "proposal" => m.prop.sender # c /\ OfOwner(m.prop)

FromSelf(c, m) == m.prop.sender = c /\ OfOwner(m.prop)

\* The pending commit of a group is its client's and has all of the client's
\* pending proposals but its updates.
Stake(c, g) ==
  /\ \A p \in g.props : OfOwner(p)
  /\ g.pc # NoCommit =>
       /\ g.pc.sender = c
       /\ \A p \in SelfPendingProposals(c, g) : p.kind = "update" \/ p \in Queued(g.pc)

StakesFor(c) ==
  /\ Stake(c, mem[c]) /\ Stake(c, disk[c]) /\ disk[c].epoch <= mem[c].epoch
  /\ \A m \in outbox[c] \cup call[c].props : FromSelf(c, m)
  /\ \A r \in buf[c] \cup call[c].todo : FromOthers(c, r.msg)

Stakes ==
  /\ \A c \in Client : StakesFor(c)
  /\ \A packet \in net : FromOthers(packet.to, packet.msg)
  /\ \A cm \in created : \A p \in Queued(cm) : OfOwner(p)

\* What is renewed is the client's own.
LEMMA RenewedIsOwn ==
  ASSUME NEW c \in Client, NEW g \in Group, NEW cm \in Commit, NEW e \in Nat
  PROVE  /\ UpdateProposal(c, e).sender = c /\ OfOwner(UpdateProposal(c, e))
         /\ \A p \in ProposalsToRenew(c, g, cm) :
              LET q == RenewedProposal(c, e, p) IN q.sender = c /\ OfOwner(q)
<1>1. UpdateProposal(c, e).sender = c /\ OfOwner(UpdateProposal(c, e))
  BY DEF UpdateProposal, OfOwner
<1>2. ASSUME NEW p \in ProposalsToRenew(c, g, cm)
      PROVE  RenewedProposal(c, e, p).sender = c /\ OfOwner(RenewedProposal(c, e, p))
  <2>1. p \in Proposal
    BY NoCommitAssumption DEF ProposalsToRenew, SelfPendingProposals, Queued, Group, Commit
  <2>2. CASE p.kind = "update"
    BY <1>1, <2>2 DEF RenewedProposal
  <2>3. CASE p.kind # "update"
    <3>1. RenewedProposal(c, e, p) = [p EXCEPT !.sender = c]
      BY <2>3 DEF RenewedProposal
    <3>2. RenewedProposal(c, e, p).sender = c /\ RenewedProposal(c, e, p).kind = p.kind
      BY <2>1, <3>1 DEF Proposal
    <3>3. QED
      BY <2>3, <3>2 DEF OfOwner
  <2>4. QED
    BY <2>2, <2>3
<1>3. QED
  BY <1>1, <1>2

\* A group after a merge has nothing at stake.
LEMMA StakeAfterMerge ==
  ASSUME NEW c \in Client, NEW g \in Group, NEW cm \in Commit
  PROVE  Stake(c, Merge(c, g, cm)) /\ Merge(c, g, cm).epoch = g.epoch + 1
<1>1. /\ Merge(c, g, cm).epoch = g.epoch + 1 /\ Merge(c, g, cm).props = {}
      /\ Merge(c, g, cm).pc = NoCommit
  BY DEF Merge, Group
<1>2. QED
  BY <1>1 DEF Stake

\* Or only what was renewed.
LEMMA StakeAfterRenewal ==
  ASSUME NEW c \in Client, NEW g \in Group, NEW cm \in Commit, NEW P, \A p \in P : OfOwner(p)
  PROVE  /\ Stake(c, RenewIn(Merge(c, g, cm), P))
         /\ RenewIn(Merge(c, g, cm), P).epoch = g.epoch + 1
         /\ RenewIn(Merge(c, g, cm), P).props = P
         /\ RenewIn(Merge(c, g, cm), P).status = Merge(c, g, cm).status
<1>1. Merge(c, g, cm).epoch = g.epoch + 1 /\ Merge(c, g, cm).pc = NoCommit
  BY DEF Merge, Group
<1>2. Merge(c, g, cm) \in Group
  BY MergeType
<1>3. /\ RenewIn(Merge(c, g, cm), P).epoch = g.epoch + 1
      /\ RenewIn(Merge(c, g, cm), P).props = P
      /\ RenewIn(Merge(c, g, cm), P).pc = NoCommit
      /\ RenewIn(Merge(c, g, cm), P).status = Merge(c, g, cm).status
  BY <1>1, <1>2 DEF RenewIn, Group
<1>4. QED
  BY <1>3 DEF Stake

\* The outcomes of somebody else's commit.
LEMMA CommitStake ==
  ASSUME NEW c \in Client, NEW g \in Group, NEW m \in Commit, NEW o \in CommitOutcomes(c, g, m)
  PROVE  /\ Stake(c, o.g) /\ o.g.epoch = g.epoch + 1 /\ o.res \in {"Ok", "RenewalFailed"}
         /\ \A x \in o.props : FromSelf(c, x)
<1> DEFINE merged == Merge(c, g, m)
           todo == ProposalsToRenew(c, g, m)
           failing == {p \in todo : RenewalFails(c, p)}
           update == IF NeedsUpdate(c, g, m) THEN {UpdateProposal(c, merged.epoch)} ELSE {}
           Renewed(S) == {RenewedProposal(c, merged.epoch, p) : p \in S}
           With(S) == RenewIn(merged, S)
           Msgs(S) == {[kind |-> "proposal", epoch |-> merged.epoch, prop |-> p] : p \in S}
           all == Renewed(todo) \cup update
<1>1. \/ o = Outcome("RenewalFailed", merged, FALSE, {}, {})
      \/ \E S \in SUBSET todo : o = Outcome("RenewalFailed", With(Renewed(S)), S # {}, {}, {})
      \/ o = Outcome("Ok", With(all), all # {}, {}, Msgs(all))
  BY DEF CommitOutcomes
<1>2. merged.epoch \in Nat
  BY MergeType DEF Group
<1>3. \A q \in all : q.sender = c /\ OfOwner(q)
  BY <1>2, RenewedIsOwn
<1>4. \A S \in SUBSET todo : \A q \in Renewed(S) : OfOwner(q)
  BY <1>3
<1>5. CASE o = Outcome("RenewalFailed", merged, FALSE, {}, {})
  <2>1. o.g = merged /\ o.props = {} /\ o.res = "RenewalFailed"
    BY <1>5 DEF Outcome
  <2>2. Stake(c, merged) /\ merged.epoch = g.epoch + 1
    BY StakeAfterMerge
  <2>3. QED
    BY <2>1, <2>2
<1>6. ASSUME NEW S \in SUBSET todo, o = Outcome("RenewalFailed", With(Renewed(S)), S # {}, {}, {})
      PROVE  /\ Stake(c, o.g) /\ o.g.epoch = g.epoch + 1 /\ o.res \in {"Ok", "RenewalFailed"}
             /\ \A x \in o.props : FromSelf(c, x)
  <2>1. o.g = With(Renewed(S)) /\ o.props = {} /\ o.res = "RenewalFailed"
    BY <1>6 DEF Outcome
  <2>2. \A q \in Renewed(S) : OfOwner(q)
    BY <1>4
  <2>3. Stake(c, With(Renewed(S))) /\ With(Renewed(S)).epoch = g.epoch + 1
    BY <2>2, StakeAfterRenewal
  <2>4. QED
    BY <2>1, <2>3
<1>7. CASE o = Outcome("Ok", With(all), all # {}, {}, Msgs(all))
  <2>1. o.g = With(all) /\ o.props = Msgs(all) /\ o.res = "Ok"
    BY <1>7 DEF Outcome
  <2>2. \A q \in all : OfOwner(q)
    BY <1>3
  <2> HIDE DEF all
  <2>3. Stake(c, With(all)) /\ With(all).epoch = g.epoch + 1
    BY <2>2, StakeAfterRenewal
  <2>4. \A x \in Msgs(all) : FromSelf(c, x)
    BY <1>3 DEF FromSelf
  <2> HIDE DEF With, Msgs
  <2>5. QED
    BY <2>1, <2>3, <2>4
<1>8. QED
  BY <1>1, <1>5, <1>6, <1>7

\* Decrypting a message keeps what is at stake.
LEMMA OutcomeStake ==
  ASSUME NEW c \in Client, NEW g \in Group, Stake(c, g), NEW m \in Message, FromOthers(c, m),
         NEW o \in DecryptOutcomes(c, g, m)
  PROVE  /\ Stake(c, o.g) /\ g.epoch <= o.g.epoch
         /\ \A x \in o.props : FromSelf(c, x)
<1>e. g.epoch \in Nat
  BY DEF Group
<1>1. CASE IsSelfCommit(c, m)
  <2>1. o = SelfCommitOutcome(c, g, m)
    BY <1>1 DEF DecryptOutcomes
  <2>2. CASE g.pc # NoCommit /\ g.pc.tag = m.tag
    <3>1. o.g = Merge(c, g, g.pc) /\ o.props = {}
      BY <2>1, <2>2 DEF SelfCommitOutcome, Outcome
    <3>2. g.pc \in Commit
      BY <2>2 DEF Group
    <3>3. Stake(c, Merge(c, g, g.pc)) /\ Merge(c, g, g.pc).epoch = g.epoch + 1
      BY <3>2, StakeAfterMerge
    <3>4. QED
      BY <1>e, <3>1, <3>3
  <2>3. CASE ~(g.pc # NoCommit /\ g.pc.tag = m.tag)
    <3>1. o.g = g /\ o.props = {}
      BY <2>1, <2>3 DEF SelfCommitOutcome, Outcome
    <3>2. QED
      BY <1>e, <3>1
  <2>4. QED
    BY <2>2, <2>3
<1>2. CASE ~IsSelfCommit(c, m) /\ ParseMessage(g, m) # "Ok"
  <2>1. o.g = g /\ o.props = {}
    BY <1>2 DEF DecryptOutcomes, Outcome
  <2>2. QED
    BY <1>e, <2>1
<1>3. CASE ~IsSelfCommit(c, m) /\ ParseMessage(g, m) = "Ok" /\ m.kind = "app"
  <2>1. o.g = [g EXCEPT !.used = @ \cup {m.id}] /\ o.props = {}
    BY <1>3 DEF DecryptOutcomes, Outcome
  <2>2. o.g.epoch = g.epoch /\ o.g.props = g.props /\ o.g.pc = g.pc
    BY <2>1 DEF Group
  <2>3. Stake(c, o.g)
    BY <2>2 DEF Stake, SelfPendingProposals
  <2>4. QED
    BY <1>e, <2>1, <2>2, <2>3
<1>4. CASE ~IsSelfCommit(c, m) /\ ParseMessage(g, m) = "Ok" /\ m.kind = "proposal"
  <2>1. o.g = [g EXCEPT !.props = @ \cup {m.prop}] /\ o.props = {}
    BY <1>4 DEF DecryptOutcomes, Outcome
  <2>2. o.g.epoch = g.epoch /\ o.g.props = g.props \cup {m.prop} /\ o.g.pc = g.pc
    BY <2>1 DEF Group
  <2>3. m.prop.sender # c /\ OfOwner(m.prop)
    BY <1>4 DEF FromOthers
  <2>4. Stake(c, o.g)
    BY <2>2, <2>3 DEF Stake, SelfPendingProposals
  <2>5. QED
    BY <1>e, <2>1, <2>2, <2>4
<1>5. CASE ~IsSelfCommit(c, m) /\ ParseMessage(g, m) = "Ok" /\ m.kind = "commit"
  <2>1. m \in Commit
    BY <1>5 DEF Message, Commit, ProposalMsg, AppMsg
  <2>2. o \in CommitOutcomes(c, g, m)
    BY <1>5 DEF DecryptOutcomes
  <2>3. Stake(c, o.g) /\ o.g.epoch = g.epoch + 1 /\ \A x \in o.props : FromSelf(c, x)
    BY <2>1, <2>2, CommitStake
  <2>4. QED
    BY <1>e, <2>3
<1>6. m.kind \in {"app", "proposal", "commit"}
  BY DEF Message, Commit, ProposalMsg, AppMsg
<1>7. QED
  BY <1>1, <1>2, <1>3, <1>4, <1>5, <1>6

\* A step of c keeps the invariant if it leaves c, the network and the commits in order.
LEMMA StakesStay ==
  ASSUME Stakes, NEW c \in Client, Elsewhere(c), StakesFor(c)',
         \A packet \in net' : packet \in net \/ FromOthers(packet.to, packet.msg),
         \A cm \in created' : cm \in created \/ \A p \in Queued(cm) : OfOwner(p)
  PROVE  Stakes'
<1>1. ASSUME NEW d \in Client, d # c PROVE StakesFor(d)'
  <2>1. StakesFor(d)
    BY DEF Stakes
  <2>2. /\ mem'[d] = mem[d] /\ disk'[d] = disk[d] /\ buf'[d] = buf[d]
        /\ call'[d] = call[d] /\ outbox'[d] = outbox[d]
    BY <1>1 DEF Elsewhere
  <2>3. QED
    BY <2>1, <2>2 DEF StakesFor, Stake, FromSelf, FromOthers
<1>2. (\A packet \in net : FromOthers(packet.to, packet.msg))'
  BY DEF Stakes, FromOthers
<1>3. (\A cm \in created : \A p \in Queued(cm) : OfOwner(p))'
  BY DEF Stakes
<1>4. QED
  BY <1>1, <1>2, <1>3 DEF Stakes

\* The parts of c after a step, from the values of its state.
LEMMA StakesAre ==
  ASSUME NEW c \in Client, TypeOK', Stake(c, mem'[c]), Stake(c, disk'[c]),
         disk'[c].epoch <= mem'[c].epoch,
         \A m \in outbox'[c] \cup call'[c].props : FromSelf(c, m),
         \A r \in buf'[c] \cup call'[c].todo : FromOthers(c, r.msg)
  PROVE  StakesFor(c)'
BY DEF StakesFor, Stake, FromSelf, FromOthers

\* The group saved is the group in memory.
LEMMA SavedStakes ==
  ASSUME NEW c \in Client, TypeOK, TypeOK', StakesFor(c), NEW g, Persist(c, g), Stake(c, g),
         \A m \in outbox'[c] \cup call'[c].props : m \in outbox[c] \cup call[c].props \/ FromSelf(c, m),
         \A r \in buf'[c] \cup call'[c].todo : r \in buf[c] \cup call[c].todo \/ FromOthers(c, r.msg)
  PROVE  StakesFor(c)'
<1>1. mem'[c] = g /\ disk'[c] = g
  BY DEF Persist, TypeOK
<1>2. disk'[c].epoch <= mem'[c].epoch
  <2>1. mem'[c].epoch \in Nat
    BY DEF TypeOK, Group
  <2>2. QED
    BY <1>1, <2>1
<1>3. QED
  BY <1>1, <1>2, StakesAre DEF StakesFor

\* Creating a commit.
LEMMA CreateStakes ==
  ASSUME Inv, TypeOK', Stakes, NEW c \in Client, Create(c),
         NEW inline \in SUBSET Proposal, CreateCommit(c, inline), \A p \in inline : OfOwner(p)
  PROVE  Stakes'
<1>1. TypeOK /\ StakesFor(c) /\ mem[c] \in Group
  BY DEF Inv, Stakes, TypeOK
<1>2. PICK cm : /\ cm.sender = c /\ cm.refs = CommittedRefs(c, mem[c]) /\ cm.inline = inline
                /\ Persist(c, [mem[c] EXCEPT !.pc = cm]) /\ created' = created \cup {cm}
  BY DEF CreateCommit
<1>3. call' = call /\ buf' = buf /\ outbox' = outbox /\ net' = net
  BY DEF CreateCommit
<1>4. PICK g : g = [mem[c] EXCEPT !.pc = cm]
  OBVIOUS
<1>5. g.props = mem[c].props /\ g.pc = cm
  BY <1>1, <1>4 DEF Group
<1>6. Stake(c, g)
  <2>1. \A p \in mem[c].props : p.sender = c => p.kind = "update" \/ p \in cm.refs
    BY <1>2 DEF CommittedRefs
  <2>2. \A p \in g.props : OfOwner(p)
    BY <1>1, <1>5 DEF StakesFor, Stake
  <2>3. QED
    BY <1>2, <1>5, <2>1, <2>2 DEF Stake, SelfPendingProposals, Queued
<1>7. StakesFor(c)'
  BY <1>1, <1>2, <1>3, <1>4, <1>6, SavedStakes
<1>8. \A p \in Queued(cm) : OfOwner(p)
  BY <1>1, <1>2 DEF Queued, CommittedRefs, StakesFor, Stake
<1>9. Elsewhere(c)
  BY <1>1, StepIsLocal
<1>10. QED
  BY <1>2, <1>3, <1>7, <1>8, <1>9, StakesStay

\* The operations that create messages.
LEMMA CreatingStakes ==
  ASSUME Inv, TypeOK', Stakes, NEW c \in Client, Create(c)
  PROVE  Stakes'
<1>1. TypeOK /\ StakesFor(c) /\ mem[c] \in Group /\ mem[c].epoch \in Nat /\ Elsewhere(c)
  BY StepIsLocal DEF Inv, Stakes, TypeOK, Group
<1>c. count.prop \in Nat
  BY <1>1 DEF TypeOK, Counters
<1>2. CASE EncryptMessage(c)
  <2>1. PICK g : \E id : g = [mem[c] EXCEPT !.used = @ \cup {id}] /\ Persist(c, g)
    BY <1>2 DEF EncryptMessage
  <2>2. g.props = mem[c].props /\ g.pc = mem[c].pc
    BY <1>1, <2>1 DEF Group
  <2>3. Stake(c, g)
    BY <1>1, <2>2 DEF StakesFor, Stake, SelfPendingProposals
  <2>4. call' = call /\ buf' = buf /\ outbox' = outbox /\ created' = created
    BY <1>2 DEF EncryptMessage
  <2>5. StakesFor(c)'
    BY <1>1, <2>1, <2>3, <2>4, SavedStakes
  <2>6. \A packet \in net' : packet \in net \/ packet.msg.kind = "app"
    BY <1>2 DEF EncryptMessage, FanOut
  <2>7. \A packet \in net' : packet \in net \/ FromOthers(packet.to, packet.msg)
    BY <2>6 DEF FromOthers
  <2>8. QED
    BY <1>1, <2>4, <2>5, <2>7, StakesStay
<1>3. ASSUME NEW kind, NEW x \in Client, NewProposal(c, kind, x) PROVE Stakes'
  <2>1. PICK p, m : /\ p = [kind |-> kind, sender |-> c, who |-> x, at |-> Carried(kind, mem[c].epoch)]
                    /\ m = [kind |-> "proposal", epoch |-> mem[c].epoch, prop |-> p]
                    /\ Persist(c, [mem[c] EXCEPT !.props = @ \cup {p}])
                    /\ outbox' = [outbox EXCEPT ![c] = @ \cup {m}]
    BY <1>3 DEF NewProposal
  <2>2. mem[c].pc = NoCommit /\ (kind = "update" => x = c)
    BY <1>3 DEF NewProposal
  <2>3. p.sender = c /\ OfOwner(p) /\ m.prop = p
    BY <2>1, <2>2 DEF OfOwner
  <2>4. PICK g : g = [mem[c] EXCEPT !.props = @ \cup {p}]
    OBVIOUS
  <2>5. g.props = mem[c].props \cup {p} /\ g.pc = NoCommit
    BY <1>1, <2>2, <2>4 DEF Group
  <2>6. Stake(c, g)
    BY <1>1, <2>3, <2>5 DEF StakesFor, Stake
  <2>7. call' = call /\ buf' = buf /\ created' = created /\ net' = net
    BY <1>3 DEF NewProposal, dsVars
  <2>8. outbox'[c] = outbox[c] \cup {m}
    BY <1>1, <2>1 DEF TypeOK
  <2>9. StakesFor(c)'
    BY <1>1, <2>1, <2>3, <2>4, <2>6, <2>7, <2>8, SavedStakes DEF FromSelf
  <2>10. QED
    BY <1>1, <2>7, <2>9, StakesStay
<1>4. CASE NewExternalAddProposal(c)
  <2>1. mem' = mem /\ disk' = disk /\ buf' = buf /\ call' = call /\ outbox' = outbox /\ created' = created
    BY <1>4 DEF NewExternalAddProposal, clientVars
  <2>2. StakesFor(c)'
    BY <1>1, <2>1 DEF StakesFor, Stake, FromSelf, FromOthers
  <2>3. PICK p : /\ p = [kind |-> "add", sender |-> External, who |-> c, at |-> count.prop + 1]
                 /\ net' = net \cup FanOut([kind |-> "proposal", epoch |-> DsEpoch, prop |-> p], Roster)
    BY <1>4 DEF NewExternalAddProposal
  <2>4. p.sender = External /\ OfOwner(p)
    BY <2>3 DEF OfOwner
  <2>5. Roster \subseteq Client
    BY <1>1 DEF TypeOK, Roster
  <2>6. \A packet \in net' : packet \in net \/ (packet.to \in Client /\ packet.msg.prop = p)
    BY <2>3, <2>5 DEF FanOut
  <2>7. \A packet \in net' : packet \in net \/ FromOthers(packet.to, packet.msg)
    BY <2>4, <2>6, GroupAssumption DEF FromOthers
  <2>8. QED
    BY <1>1, <2>1, <2>2, <2>7, StakesStay
<1>5. ASSUME NEW x \in Client, AddMembers(c, x) PROVE Stakes'
  <2>1. PICK p : p = [kind |-> "add", sender |-> c, who |-> x, at |-> count.prop + 1]
    OBVIOUS
  <2>2. p \in Proposal /\ OfOwner(p)
    BY <1>c, <2>1 DEF Proposal, OfOwner
  <2>3. CreateCommit(c, {p})
    BY <1>5, <2>1 DEF AddMembers
  <2>4. QED
    BY <2>2, <2>3, CreateStakes
<1>6. ASSUME NEW x \in Client, RemoveMembers(c, x) PROVE Stakes'
  <2>1. PICK p : p = [kind |-> "remove", sender |-> c, who |-> x, at |-> 0]
    OBVIOUS
  <2>2. p \in Proposal /\ OfOwner(p)
    BY <2>1 DEF Proposal, OfOwner
  <2>3. CreateCommit(c, {p})
    BY <1>6, <2>1 DEF RemoveMembers
  <2>4. QED
    BY <2>2, <2>3, CreateStakes
<1>7. CASE UpdateKeyingMaterial(c) \/ CommitPendingProposals(c)
  <2>1. CreateCommit(c, {})
    BY <1>7 DEF UpdateKeyingMaterial, CommitPendingProposals
  <2>2. QED
    BY <2>1, CreateStakes
<1>8. QED
  BY <1>2, <1>3, <1>4, <1>5, <1>6, <1>7 DEF Create

\* Sending, posting, merging and clearing.
LEMMA PostingStakes ==
  ASSUME Inv, TypeOK', Stakes, NEW c \in Client,
         \/ SendProposal(c) \/ ClearPendingProposal(c) \/ PostCommit(c)
         \/ CommitAccepted(c) \/ ClearPendingCommit(c) \/ Crash(c)
  PROVE  Stakes'
<1>1. TypeOK /\ StakesFor(c) /\ mem[c] \in Group /\ mem[c].epoch \in Nat /\ Elsewhere(c)
  BY StepIsLocal DEF Inv, Stakes, TypeOK, Group
<1>2. CASE SendProposal(c)
  <2>1. PICK m \in outbox[c] : /\ outbox' = [outbox EXCEPT ![c] = @ \ {m}]
                               /\ net' = net \cup FanOut(m, Roster \ {c})
    BY <1>2 DEF SendProposal
  <2>2. mem' = mem /\ disk' = disk /\ buf' = buf /\ call' = call /\ created' = created
    BY <1>2 DEF SendProposal
  <2>3. outbox'[c] = outbox[c] \ {m}
    BY <1>1, <2>1 DEF TypeOK
  <2>4. StakesFor(c)'
    BY <1>1, <2>2, <2>3 DEF StakesFor, Stake, FromSelf, FromOthers
  <2>5. FromSelf(c, m)
    BY <1>1 DEF StakesFor
  <2>6. \A packet \in net' : packet \in net \/ (packet.to # c /\ packet.msg = m)
    BY <2>1 DEF FanOut
  <2>7. \A packet \in net' : packet \in net \/ FromOthers(packet.to, packet.msg)
    BY <2>5, <2>6 DEF FromSelf, FromOthers
  <2>8. QED
    BY <1>1, <2>2, <2>4, <2>7, StakesStay
<1>3. CASE ClearPendingProposal(c)
  <2>1. PICK m \in outbox[c] :
          /\ outbox' = [outbox EXCEPT ![c] = @ \ {m}]
          /\ \/ Persist(c, [mem[c] EXCEPT !.props = @ \ {m.prop}])
             \/ mem' = mem /\ disk' = disk
    BY <1>3 DEF ClearPendingProposal
  <2>2. buf' = buf /\ call' = call /\ net' = net /\ created' = created
    BY <1>3 DEF ClearPendingProposal, dsVars
  <2>3. outbox'[c] = outbox[c] \ {m}
    BY <1>1, <2>1 DEF TypeOK
  <2>4. CASE mem' = mem /\ disk' = disk
    <3>1. StakesFor(c)'
      BY <1>1, <2>2, <2>3, <2>4 DEF StakesFor, Stake, FromSelf, FromOthers
    <3>2. QED
      BY <1>1, <2>2, <3>1, StakesStay
  <2>5. CASE Persist(c, [mem[c] EXCEPT !.props = @ \ {m.prop}])
    <3>1. PICK g : g = [mem[c] EXCEPT !.props = @ \ {m.prop}]
      OBVIOUS
    <3>2. g.props \subseteq mem[c].props /\ g.pc = mem[c].pc
      BY <1>1, <3>1 DEF Group
    <3>3. Stake(c, g)
      BY <1>1, <3>2 DEF StakesFor, Stake, SelfPendingProposals
    <3>4. StakesFor(c)'
      BY <1>1, <2>2, <2>3, <2>5, <3>1, <3>3, SavedStakes
    <3>5. QED
      BY <1>1, <2>2, <3>4, StakesStay
  <2>6. QED
    BY <2>1, <2>4, <2>5
<1>4. CASE PostCommit(c)
  <2>1. /\ mem' = mem /\ disk' = disk /\ buf' = buf /\ call' = call /\ outbox' = outbox
        /\ created' = created /\ net' = net \cup CommitFanOut(mem[c].pc) /\ mem[c].pc # NoCommit
    BY <1>4 DEF PostCommit
  <2>2. StakesFor(c)'
    BY <1>1, <2>1 DEF StakesFor, Stake, FromSelf, FromOthers
  <2>3. mem[c].pc.kind = "commit"
    BY <1>1, <2>1 DEF Group, Commit
  <2>4. \A packet \in CommitFanOut(mem[c].pc) : packet.msg.kind # "proposal"
    BY <2>3 DEF CommitFanOut, FanOut
  <2>5. \A packet \in net' : packet \in net \/ FromOthers(packet.to, packet.msg)
    BY <2>1, <2>4 DEF FromOthers
  <2>6. QED
    BY <1>1, <2>1, <2>2, <2>5, StakesStay
<1>5. CASE CommitAccepted(c)
  <2>1. buf' = buf /\ outbox' = outbox /\ net' = net /\ created' = created
    BY <1>5 DEF CommitAccepted, dsVars
  <2>2. CASE mem' = mem /\ disk' = disk /\ call' = call
    <3>1. StakesFor(c)'
      BY <1>1, <2>1, <2>2 DEF StakesFor, Stake, FromSelf, FromOthers
    <3>2. QED
      BY <1>1, <2>1, <3>1, StakesStay
  <2>3. CASE /\ mem[c].pc # NoCommit /\ Persist(c, Merge(c, mem[c], mem[c].pc))
             /\ call' = [call EXCEPT ![c] = [Idle EXCEPT !.op = "accepted", !.todo = buf[c]]]
    <3>1. call'[c].todo = buf[c] /\ call'[c].props = {}
      BY <1>1, <2>3 DEF TypeOK, Idle
    <3>2. mem[c].pc \in Commit
      BY <1>1, <2>3 DEF Group
    <3>3. Stake(c, Merge(c, mem[c], mem[c].pc))
      BY <1>1, <3>2, StakeAfterMerge
    <3>4. StakesFor(c)'
      BY <1>1, <2>1, <2>3, <3>1, <3>3, SavedStakes
    <3>5. QED
      BY <1>1, <2>1, <3>4, StakesStay
  <2>4. QED
    BY <1>5, <2>2, <2>3 DEF CommitAccepted
<1>6. CASE ClearPendingCommit(c)
  <2>1. /\ buf' = buf /\ call' = call /\ outbox' = outbox /\ net' = net /\ created' = created
        /\ Persist(c, [mem[c] EXCEPT !.pc = NoCommit])
    BY <1>6 DEF ClearPendingCommit, dsVars
  <2>2. PICK g : g = [mem[c] EXCEPT !.pc = NoCommit]
    OBVIOUS
  <2>3. g.props = mem[c].props /\ g.pc = NoCommit
    BY <1>1, <2>2 DEF Group
  <2>4. Stake(c, g)
    BY <1>1, <2>3 DEF StakesFor, Stake
  <2>5. StakesFor(c)'
    BY <1>1, <2>1, <2>2, <2>4, SavedStakes
  <2>6. QED
    BY <1>1, <2>1, <2>5, StakesStay
<1>7. CASE Crash(c)
  <2>1. disk' = disk /\ buf' = buf /\ net' = net /\ created' = created
    BY <1>7 DEF Crash, dsVars
  <2>2. mem'[c] = disk[c] /\ outbox'[c] = {} /\ call'[c] = Idle
    BY <1>1, <1>7 DEF Crash, TypeOK
  <2>3. disk[c].epoch \in Nat
    BY <1>1, Typed
  <2>4. disk'[c].epoch <= mem'[c].epoch
    BY <2>1, <2>2, <2>3
  <2>5. StakesFor(c)'
    BY <1>1, <2>1, <2>2, <2>4, StakesAre DEF StakesFor, Idle
  <2>6. QED
    BY <1>1, <2>1, <2>5, StakesStay
<1>8. QED
  BY <1>2, <1>3, <1>4, <1>5, <1>6, <1>7

\* A message with an outcome that is in memory, and saved or not.
LEMMA OutcomeStakes ==
  ASSUME NEW c \in Client, TypeOK, TypeOK', StakesFor(c), NEW m \in Message, FromOthers(c, m),
         NEW o \in DecryptOutcomes(c, mem[c], m),
         mem'[c] = o.g, disk'[c] = o.g \/ disk'[c] = disk[c],
         \A x \in outbox'[c] \cup call'[c].props : x \in outbox[c] \cup call[c].props \cup o.props,
         \A r \in buf'[c] \cup call'[c].todo : r \in buf[c] \cup call[c].todo \/ FromOthers(c, r.msg)
  PROVE  StakesFor(c)'
<1>1. mem[c] \in Group /\ mem[c].epoch \in Nat /\ disk[c].epoch \in Nat /\ mem'[c].epoch \in Nat
  BY DEF TypeOK, Group
<1>2. /\ Stake(c, o.g) /\ mem[c].epoch <= o.g.epoch
      /\ \A x \in o.props : FromSelf(c, x)
  BY <1>1, OutcomeStake DEF StakesFor
<1>3. Stake(c, mem'[c]) /\ Stake(c, disk'[c])
  BY <1>2 DEF StakesFor
<1>4. disk'[c].epoch <= mem'[c].epoch
  <2>1. disk[c].epoch <= mem[c].epoch
    BY DEF StakesFor
  <2>2. CASE disk'[c] = o.g
    BY <1>1, <2>2
  <2>3. CASE disk'[c] = disk[c]
    BY <1>1, <1>2, <2>1, <2>3
  <2>4. QED
    BY <2>2, <2>3
<1>5. /\ \A x \in outbox'[c] \cup call'[c].props : FromSelf(c, x)
      /\ \A r \in buf'[c] \cup call'[c].todo : FromOthers(c, r.msg)
  BY <1>2 DEF StakesFor
<1>6. QED
  BY <1>3, <1>4, <1>5, StakesAre

\* decrypt_message and process_welcome_message.
LEMMA DecryptStakes ==
  ASSUME Inv, TypeOK', Stakes, NEW c \in Client, Decrypt(c)
  PROVE  Stakes'
<1>1. TypeOK /\ StakesFor(c) /\ mem[c] \in Group /\ Elsewhere(c)
  BY StepIsLocal DEF Inv, Stakes, TypeOK
<1>2. PICK packet \in net :
        /\ packet.to = c
        /\ \/ DecryptSimple(c, packet.msg) \/ DecryptCommit(c, packet.msg)
           \/ DecryptFuture(c, packet.msg) \/ DecryptRejected(c, packet.msg)
           \/ DecryptNoGroup(c, packet.msg) \/ ProcessWelcome(c, packet.msg)
  BY DEF Decrypt
<1> DEFINE m == packet.msg
<1>3. FromOthers(c, m) /\ (m.kind # "welcome" => m \in Message)
  BY <1>1, <1>2 DEF Stakes, TypeOK, Packet, Welcome
<1>4. net' \subseteq net /\ created' = created
  BY <1>2 DEF DecryptSimple, DecryptCommit, DecryptFuture, DecryptRejected, DecryptNoGroup,
     ProcessWelcome, Receives, Deliver
<1>5. SUFFICES StakesFor(c)'
  BY <1>1, <1>4, StakesStay
<1>6. CASE DecryptSimple(c, m)
  <2>1. PICK o \in DecryptOutcomes(c, mem[c], m) : Persist(c, o.g) /\ Return(c, o.apps, o.props)
    BY <1>6 DEF DecryptSimple
  <2>2. mem'[c] = o.g /\ disk'[c] = o.g
    BY <1>1, <2>1 DEF Persist, TypeOK
  <2>3. outbox' = [outbox EXCEPT ![c] = @ \cup o.props]
    BY <2>1 DEF Return
  <2>4. outbox'[c] = outbox[c] \cup o.props
    BY <1>1, <2>3 DEF TypeOK
  <2>5. call' = call /\ buf' = buf /\ m.kind # "welcome"
    BY <1>6 DEF DecryptSimple, IsSelfCommit
  <2>6. QED
    BY <1>1, <1>3, <2>2, <2>4, <2>5, OutcomeStakes
<1>7. CASE DecryptCommit(c, m)
  <2>1. PICK o \in DecryptOutcomes(c, mem[c], m) :
          /\ mem' = [mem EXCEPT ![c] = o.g]
          /\ disk' = IF o.saved THEN [disk EXCEPT ![c] = o.g] ELSE disk
          /\ call' = IF o.res = "Ok"
                     THEN [call EXCEPT ![c] = [op |-> "decrypt", outer |-> m, todo |-> buf[c],
                                               apps |-> {}, props |-> o.props]]
                     ELSE call
    BY <1>7 DEF DecryptCommit
  <2>2. mem'[c] = o.g /\ (disk'[c] = o.g \/ disk'[c] = disk[c])
    BY <1>1, <2>1 DEF TypeOK
  <2>3. \/ call'[c] = call[c]
        \/ call'[c].todo = buf[c] /\ call'[c].props = o.props
    BY <1>1, <2>1 DEF TypeOK
  <2>4. outbox' = outbox /\ buf' = buf /\ m.kind # "welcome"
    BY <1>7 DEF DecryptCommit
  <2>5. QED
    BY <1>1, <1>3, <2>2, <2>3, <2>4, OutcomeStakes
<1>8. CASE DecryptFuture(c, m)
  <2>1. PICK b \in Save(buf[c], m) : buf' = [buf EXCEPT ![c] = b]
    BY <1>8 DEF DecryptFuture
  <2>2. mem' = mem /\ disk' = disk /\ call' = call /\ outbox' = outbox
    BY <1>8 DEF DecryptFuture
  <2>3. \A r \in buf'[c] : r \in buf[c] \/ r.msg = m
    BY <1>1, <2>1, SaveOK DEF TypeOK
  <2>4. QED
    BY <1>1, <1>3, <2>2, <2>3, StakesAre DEF StakesFor
<1>9. CASE DecryptRejected(c, m) \/ DecryptNoGroup(c, m)
  <2>1. mem' = mem /\ disk' = disk /\ call' = call /\ outbox' = outbox /\ buf' = buf
    BY <1>9 DEF DecryptRejected, DecryptNoGroup, clientVars
  <2>2. QED
    BY <1>1, <2>1, StakesAre DEF StakesFor
<1>10. CASE ProcessWelcome(c, m)
  <2>1. call' = call /\ outbox' = outbox /\ buf' = buf
    BY <1>10 DEF ProcessWelcome
  <2>2. CASE mem' = mem /\ disk' = disk
    BY <1>1, <2>1, <2>2, StakesAre DEF StakesFor
  <2>3. CASE Persist(c, NewGroup(m.epoch, m.tag, m.members))
    <3>1. Stake(c, NewGroup(m.epoch, m.tag, m.members))
      BY DEF Stake, NewGroup
    <3>2. QED
      BY <1>1, <2>1, <2>3, <3>1, SavedStakes
  <2>4. QED
    BY <1>10, <2>2, <2>3 DEF ProcessWelcome
<1>11. QED
  BY <1>2, <1>6, <1>7, <1>8, <1>9, <1>10

\* Replaying the buffer and wiping the group.
LEMMA RestoreStakes ==
  ASSUME Inv, TypeOK', Stakes, NEW c \in Client, Restore(c) \/ WipeConversation(c)
  PROVE  Stakes'
<1>1. TypeOK /\ StakesFor(c) /\ mem[c] \in Group /\ call[c] \in Call /\ Elsewhere(c)
  BY StepIsLocal DEF Inv, Stakes, TypeOK
<1>2. net' = net /\ created' = created
  BY DEF Restore, RestoreMessage, RestoreFails, FinishRestore, WipeConversation, dsVars
<1>3. SUFFICES StakesFor(c)'
  BY <1>1, <1>2, StakesStay
<1>4. ASSUME NEW r \in call[c].todo PROVE r.msg \in Message /\ FromOthers(c, r.msg)
  <2>1. r \in Row
    BY <1>1, Typed
  <2>2. QED
    BY <1>1, <2>1 DEF Row, StakesFor
<1>5. CASE RestoreMessage(c)
  <2>1. PICK r \in call[c].todo : \E o \in DecryptOutcomes(c, mem[c], r.msg) :
          /\ Persist(c, o.g)
          /\ call' = [call EXCEPT ![c].todo = @ \ {r}, ![c].apps = @ \cup o.apps,
                                  ![c].props = @ \cup o.props]
    BY <1>5 DEF RestoreMessage
  <2>2. PICK o \in DecryptOutcomes(c, mem[c], r.msg) :
          /\ Persist(c, o.g)
          /\ call' = [call EXCEPT ![c].todo = @ \ {r}, ![c].apps = @ \cup o.apps,
                                  ![c].props = @ \cup o.props]
    BY <2>1
  <2>3. mem'[c] = o.g /\ disk'[c] = o.g
    BY <1>1, <2>2 DEF Persist, TypeOK
  <2>4. call'[c].todo = call[c].todo \ {r} /\ call'[c].props = call[c].props \cup o.props
    BY <1>1, <2>2 DEF TypeOK, Call
  <2>5. outbox' = outbox /\ buf' = buf
    BY <1>5 DEF RestoreMessage
  <2>6. QED
    BY <1>1, <1>4, <2>3, <2>4, <2>5, OutcomeStakes
<1>6. CASE RestoreFails(c)
  <2>1. PICK r \in call[c].todo : \E o \in DecryptOutcomes(c, mem[c], r.msg) :
          /\ mem' = [mem EXCEPT ![c] = o.g]
          /\ disk' = IF o.saved THEN [disk EXCEPT ![c] = o.g] ELSE disk
    BY <1>6 DEF RestoreFails
  <2>2. PICK o \in DecryptOutcomes(c, mem[c], r.msg) :
          /\ mem' = [mem EXCEPT ![c] = o.g]
          /\ disk' = IF o.saved THEN [disk EXCEPT ![c] = o.g] ELSE disk
    BY <2>1
  <2>3. mem'[c] = o.g /\ (disk'[c] = o.g \/ disk'[c] = disk[c])
    BY <1>1, <2>2 DEF TypeOK
  <2>4. call'[c].todo = {} /\ call'[c].props = {} /\ outbox' = outbox
    BY <1>1, <1>6 DEF RestoreFails, TypeOK, Idle
  <2>5. \A x \in buf'[c] : x \in buf[c] \/ x.msg.kind = "commit"
    <3>1. CASE buf' = buf
      BY <3>1
    <3>2. CASE /\ call[c].outer # NoCommit
               /\ \E b \in Save(buf[c], call[c].outer) : buf' = [buf EXCEPT ![c] = b]
      <4>1. PICK b \in Save(buf[c], call[c].outer) : buf' = [buf EXCEPT ![c] = b]
        BY <3>2
      <4>2. buf'[c] = b
        BY <1>1, <4>1 DEF TypeOK
      <4>3. call[c].outer.kind = "commit"
        BY <1>1, <3>2 DEF Call, Commit
      <4>4. QED
        BY <4>2, <4>3, SaveOK
    <3>3. QED
      BY <1>6, <3>1, <3>2 DEF RestoreFails
  <2>6. \A x \in buf'[c] : x \in buf[c] \/ FromOthers(c, x.msg)
    BY <2>5 DEF FromOthers
  <2>7. QED
    BY <1>1, <1>4, <2>3, <2>4, <2>6, OutcomeStakes
<1>7. CASE FinishRestore(c)
  <2>1. /\ buf'[c] = {} /\ disk'[c] = mem[c] /\ mem'[c] = mem[c]
    BY <1>1, <1>7 DEF FinishRestore, TypeOK
  <2>2. mem[c].epoch \in Nat
    BY <1>1 DEF Group
  <2>3. disk'[c].epoch <= mem'[c].epoch
    BY <2>1, <2>2
  <2>4. CASE call' = [call EXCEPT ![c].op = "wipe"] /\ outbox' = outbox
    <3>1. call'[c].todo = call[c].todo /\ call'[c].props = call[c].props
      BY <1>1, <2>4 DEF TypeOK, Call
    <3>2. QED
      BY <1>1, <2>1, <2>3, <2>4, <3>1, StakesAre DEF StakesFor
  <2>5. CASE call' = [call EXCEPT ![c] = Idle] /\ Return(c, call[c].apps, call[c].props)
    <3>1. call'[c].todo = {} /\ call'[c].props = {}
      BY <1>1, <2>5 DEF TypeOK, Idle
    <3>2. outbox' = [outbox EXCEPT ![c] = @ \cup call[c].props]
      BY <2>5 DEF Return
    <3>3. outbox'[c] = outbox[c] \cup call[c].props
      BY <1>1, <3>2 DEF TypeOK
    <3>4. QED
      BY <1>1, <2>1, <2>3, <3>1, <3>3, StakesAre DEF StakesFor
  <2>6. QED
    BY <1>7, <2>4, <2>5 DEF FinishRestore
<1>8. CASE WipeConversation(c)
  <2>1. /\ Persist(c, NoGroup) /\ buf' = buf /\ call' = [call EXCEPT ![c] = Idle]
        /\ Return(c, call[c].apps, call[c].props)
    BY <1>8 DEF WipeConversation
  <2>2. Stake(c, NoGroup)
    BY DEF Stake, NoGroup, NewGroup
  <2>3. call'[c].todo = {} /\ call'[c].props = {}
    BY <1>1, <2>1 DEF TypeOK, Idle
  <2>4. outbox' = [outbox EXCEPT ![c] = @ \cup call[c].props]
    BY <2>1 DEF Return
  <2>5. outbox'[c] = outbox[c] \cup call[c].props
    BY <1>1, <2>4 DEF TypeOK
  <2>6. QED
    BY <1>1, <2>1, <2>2, <2>3, <2>5, SavedStakes
<1>9. QED
  BY <1>5, <1>6, <1>7, <1>8 DEF Restore

\* Every step keeps what is at stake in order.
LEMMA StakesStep ==
  ASSUME Inv, Stakes, [Next]_vars
  PROVE  Stakes'
<1>1. TypeOK'
  BY StepType DEF Inv
<1>2. CASE UNCHANGED vars
  BY <1>2 DEF vars, Stakes, StakesFor, Stake, FromSelf, FromOthers
<1>3. ASSUME NEW c \in Client,
             \/ Create(c) \/ SendProposal(c) \/ ClearPendingProposal(c)
             \/ PostCommit(c) \/ CommitAccepted(c) \/ ClearPendingCommit(c)
             \/ Decrypt(c) \/ Restore(c) \/ WipeConversation(c) \/ Crash(c)
      PROVE  Stakes'
  BY <1>1, <1>3, CreatingStakes, PostingStakes, DecryptStakes, RestoreStakes
<1>4. QED
  BY <1>2, <1>3 DEF Next

\* Everything at stake is renewed or in the commit.
LEMMA RenewedOrCommitted ==
  ASSUME NEW c \in Client, NEW g \in Group, Stake(c, g),
         g.pc # NoCommit => \A p \in Queued(g.pc) : OfOwner(p),
         ~CarriesUpdate(g),
         NEW m \in Commit, \A p \in Queued(m) : OfOwner(p),
         NEW o \in CommitOutcomes(c, g, m), o.g.status = "operational",
         NEW p \in AtStake(c, g), ~BesideCommit(g, p)
  PROVE  \/ \E q \in Queued(m) : q.kind = p.kind /\ q.who = p.who
         \/ \E q \in o.g.props : q.kind = p.kind /\ q.who = p.who /\ q.sender = c
<1> DEFINE merged == Merge(c, g, m)
           todo == ProposalsToRenew(c, g, m)
           failing == {x \in todo : RenewalFails(c, x)}
           update == IF NeedsUpdate(c, g, m) THEN {UpdateProposal(c, merged.epoch)} ELSE {}
           Renewed(S) == {RenewedProposal(c, merged.epoch, x) : x \in S}
           With(S) == RenewIn(merged, S)
           Msgs(S) == {[kind |-> "proposal", epoch |-> merged.epoch, prop |-> x] : x \in S}
           all == Renewed(todo) \cup update
<1>1. /\ merged \in Group /\ merged.epoch \in Nat
  BY MergeType DEF Group
<1>2. /\ p \in Proposal /\ p.sender # External /\ OfOwner(p)
      /\ p \in SelfPendingProposals(c, g) \/ (g.pc # NoCommit /\ p \in Queued(g.pc))
  <2>1. /\ p.sender # External
        /\ p \in SelfPendingProposals(c, g) \/ (g.pc # NoCommit /\ p \in Queued(g.pc))
    BY DEF AtStake
  <2>2. p \in SelfPendingProposals(c, g) => p \in Proposal /\ OfOwner(p)
    BY DEF SelfPendingProposals, Group, Stake
  <2>3. g.pc # NoCommit /\ p \in Queued(g.pc) => p \in Proposal /\ OfOwner(p)
    BY DEF Queued, Group, Commit
  <2>4. QED
    BY <2>1, <2>2, <2>3
<1>3. failing = {}
  <2>1. ASSUME NEW x \in todo, RenewalFails(c, x) PROVE FALSE
    <3>1. x.kind = "update" /\ x.sender # c /\ x.sender # External
      BY <2>1 DEF RenewalFails, ProposalsToRenew
    <3>2. g.pc # NoCommit /\ x \in Queued(g.pc)
      BY <3>1 DEF ProposalsToRenew, SelfPendingProposals
    <3>3. QED
      BY <3>1, <3>2 DEF CarriesUpdate
  <2>2. QED
    BY <2>1
<1>4. \/ o = Outcome("RenewalFailed", merged, FALSE, {}, {}) /\ merged.status = "inactive"
      \/ o = Outcome("Ok", With(all), all # {}, {}, Msgs(all))
  BY <1>3 DEF CommitOutcomes
<1>5. o.g = With(all)
  <2>1. CASE o = Outcome("RenewalFailed", merged, FALSE, {}, {}) /\ merged.status = "inactive"
    BY <2>1 DEF Outcome
  <2>2. CASE o = Outcome("Ok", With(all), all # {}, {}, Msgs(all))
    BY <2>2 DEF Outcome
  <2>3. QED
    BY <1>4, <2>1, <2>2
<1>6. o.g.props = all
  BY <1>1, <1>5 DEF RenewIn, Group
<1>7. CASE p \in todo
  <2>1. PICK q : q = RenewedProposal(c, merged.epoch, p)
    OBVIOUS
  <2>2. q \in o.g.props
    BY <1>6, <1>7, <2>1
  <2>3. q.sender = c
    BY <1>1, <1>7, <2>1, RenewedIsOwn
  <2>4. CASE p.kind = "update"
    <3>1. p.sender = c
      BY <1>7, <2>4 DEF ProposalsToRenew, SelfPendingProposals, CarriesUpdate
    <3>2. p.who = c
      BY <1>2, <2>4, <3>1 DEF OfOwner
    <3>3. q.kind = "update" /\ q.who = c
      BY <2>1, <2>4 DEF RenewedProposal, UpdateProposal
    <3>4. QED
      BY <2>2, <2>3, <2>4, <3>2, <3>3
  <2>5. CASE p.kind # "update"
    <3>1. q = [p EXCEPT !.sender = c]
      BY <2>1, <2>5 DEF RenewedProposal
    <3>2. q.kind = p.kind /\ q.who = p.who
      BY <1>2, <3>1 DEF Proposal
    <3>3. QED
      BY <2>2, <2>3, <3>2
  <2>6. QED
    BY <2>4, <2>5
<1>8. CASE ~IsProposalRenewable(p, m)
  BY <1>8 DEF IsProposalRenewable
<1>9. CASE p \notin todo /\ IsProposalRenewable(p, m)
  <2>1. g.pc # NoCommit /\ p \notin Queued(g.pc) /\ p \in SelfPendingProposals(c, g)
    BY <1>2, <1>9 DEF ProposalsToRenew
  <2>2. p.kind = "update" /\ p.sender = c
    BY <2>1 DEF Stake, SelfPendingProposals
  <2>3. Queued(g.pc) = {}
    BY <2>1, <2>2 DEF BesideCommit
  <2>4. p.who = c
    BY <1>2, <2>2 DEF OfOwner
  <2>5. CASE \E q \in Queued(m) : q.kind = "update" /\ q.sender = c
    <3>1. PICK q \in Queued(m) : q.kind = "update" /\ q.sender = c
      BY <2>5
    <3>2. q.who = c
      BY <3>1 DEF OfOwner
    <3>3. QED
      BY <2>2, <2>4, <3>1, <3>2
  <2>6. CASE ~ \E q \in Queued(m) : q.kind = "update" /\ q.sender = c
    <3>1. NeedsUpdate(c, g, m)
      BY <2>1, <2>3, <2>6 DEF NeedsUpdate
    <3>2. UpdateProposal(c, merged.epoch) \in o.g.props
      BY <1>6, <3>1
    <3>3. /\ UpdateProposal(c, merged.epoch).kind = "update"
          /\ UpdateProposal(c, merged.epoch).who = c /\ UpdateProposal(c, merged.epoch).sender = c
      BY DEF UpdateProposal
    <3>4. QED
      BY <2>2, <2>4, <3>2, <3>3
  <2>7. QED
    BY <2>5, <2>6
<1>10. QED
  BY <1>7, <1>8, <1>9

\* Client c merges somebody else's commit, and nothing at stake is lost.
MergesAnother(c) ==
  /\ mem[c].status = "operational" /\ mem'[c].status = "operational"
  /\ mem'[c].epoch = mem[c].epoch + 1
  /\ log[mem'[c].epoch].sender # c
  /\ ~CarriesUpdate(mem[c])

KeepsStakes(c) ==
  \A p \in {x \in AtStake(c, mem[c]) : ~BesideCommit(mem[c], x)} :
    \/ \E q \in Queued(log[mem'[c].epoch]) : q.kind = p.kind /\ q.who = p.who
    \/ \E q \in mem'[c].props : q.kind = p.kind /\ q.who = p.who /\ q.sender = c

\* Decrypting a message, delivered or buffered.
LEMMA OutcomeKeepsStakes ==
  ASSUME Inv, Stakes, NEW c \in Client, NEW m \in Message,
         MessageOK(m, log, rosters), NEW o \in DecryptOutcomes(c, mem[c], m), mem'[c] = o.g,
         MergesAnother(c)
  PROVE  KeepsStakes(c)
<1> DEFINE g == mem[c]
<1>1. /\ TypeOK /\ g \in Group /\ g.epoch \in Nat /\ Stake(c, g) /\ Len(log) \in Nat
      /\ HistoryOK(log, rosters, created) /\ TagsUnique(created)
      /\ g.pc # NoCommit => g.pc \in created /\ g.pc.epoch = g.epoch /\ g.pc.sender = c
  BY DEF Inv, TypeOK, Group, Stakes, StakesFor, Stake, GroupsAgree, GroupOK
<1>2. o.g.epoch = g.epoch + 1 /\ log[g.epoch + 1].sender # c /\ o.g.status = "operational"
  BY DEF MergesAnother
<1>3. m.kind = "commit"
  <2>1. m.kind \in {"app", "proposal"} => o.g.epoch = g.epoch
    BY <1>1, SimpleKeepsEpoch
  <2>2. m.kind \in {"app", "proposal", "commit"}
    BY DEF Message, Commit, ProposalMsg, AppMsg
  <2>3. QED
    BY <1>1, <1>2, <2>1, <2>2
<1>4. m \in Commit /\ m.epoch \in Nat
  BY <1>3 DEF Message, Commit, ProposalMsg, AppMsg
<1>5. m.epoch < Len(log) /\ log[m.epoch + 1] = m
  BY <1>3 DEF MessageOK
<1>6. m \in created
  <2>1. m.epoch + 1 \in 1..Len(log)
    BY <1>1, <1>4, <1>5
  <2>2. QED
    BY <1>1, <1>5, <2>1 DEF HistoryOK
<1>7. ~IsSelfCommit(c, m)
  <2>1. ASSUME IsSelfCommit(c, m) PROVE FALSE
    <3>1. o = SelfCommitOutcome(c, g, m)
      BY <2>1 DEF DecryptOutcomes
    <3>2. g.pc # NoCommit /\ g.pc.tag = m.tag
      <4>1. ASSUME ~(g.pc # NoCommit /\ g.pc.tag = m.tag) PROVE o.g = g
        BY <3>1, <4>1 DEF SelfCommitOutcome, Outcome
      <4>2. QED
        BY <1>1, <1>2, <4>1
    <3>3. g.pc = m
      BY <1>1, <1>6, <3>2 DEF TagsUnique
    <3>4. log[g.epoch + 1].sender = c
      BY <1>1, <1>5, <3>2, <3>3
    <3>5. QED
      BY <1>2, <3>4
  <2>2. QED
    BY <2>1
<1>8. ParseMessage(g, m) = "Ok"
  <2>1. ASSUME ParseMessage(g, m) # "Ok" PROVE o.g = g
    BY <1>7, <2>1 DEF DecryptOutcomes, Outcome
  <2>2. QED
    BY <1>1, <1>2, <2>1
<1>9. o \in CommitOutcomes(c, g, m) /\ m.epoch = g.epoch
  <2>1. o \in CommitOutcomes(c, g, m)
    BY <1>3, <1>7, <1>8 DEF DecryptOutcomes
  <2>2. m.epoch = g.epoch
    BY <1>1, <1>4, <1>8, CommitParsedInEpoch
  <2>3. QED
    BY <2>1, <2>2
<1>10. /\ \A p \in Queued(m) : OfOwner(p)
       /\ g.pc # NoCommit => \A p \in Queued(g.pc) : OfOwner(p)
       /\ ~CarriesUpdate(g)
  BY <1>1, <1>6 DEF Stakes, MergesAnother
<1>11. log[mem'[c].epoch] = m
  BY <1>2, <1>5, <1>9
<1>12. ASSUME NEW p \in AtStake(c, g), ~BesideCommit(g, p)
       PROVE  \/ \E q \in Queued(m) : q.kind = p.kind /\ q.who = p.who
              \/ \E q \in o.g.props : q.kind = p.kind /\ q.who = p.who /\ q.sender = c
  BY <1>1, <1>2, <1>4, <1>9, <1>10, <1>12, RenewedOrCommitted
<1>13. QED
  BY <1>11, <1>12 DEF KeepsStakes

\* Every step of a client that merges somebody else's commit renews what is at stake.
LEMMA MergeKeepsStakes ==
  ASSUME Inv, Stakes, Next, NEW d \in Client, MergesAnother(d)
  PROVE  KeepsStakes(d)
<1>1. /\ TypeOK /\ mem[d] \in Group /\ mem[d].epoch \in Nat /\ disk[d].epoch \in Nat
      /\ StakesFor(d)
  BY DEF Inv, TypeOK, Group, Stakes
<1>2. PICK c \in Client :
         \/ Create(c) \/ SendProposal(c) \/ ClearPendingProposal(c)
         \/ PostCommit(c) \/ CommitAccepted(c) \/ ClearPendingCommit(c)
         \/ Decrypt(c) \/ Restore(c) \/ WipeConversation(c) \/ Crash(c)
  BY DEF Next
<1>3. mem'[d].epoch # mem[d].epoch /\ mem'[d].status = "operational"
  BY <1>1 DEF MergesAnother
<1>4. CASE c # d
  BY <1>1, <1>2, <1>3, <1>4, OthersUntouched
<1>5. CASE /\ c = d
           /\ \/ Create(d) \/ SendProposal(d) \/ ClearPendingProposal(d)
              \/ PostCommit(d) \/ ClearPendingCommit(d)
  <2>1. mem'[d].epoch = mem[d].epoch
    BY <1>1, <1>5, SavingSteps
  <2>2. QED
    BY <1>3, <2>1
<1>6. CASE CommitAccepted(d)
  <2>1. mem[d].pc # NoCommit /\ post[d] = "ok"
    BY <1>3, <1>6 DEF CommitAccepted
  <2>2. Accepted(mem[d].pc) /\ mem[d].pc.epoch = mem[d].epoch /\ mem[d].pc.sender = d
    BY <1>1, <2>1 DEF Inv, PostedIsAccepted, GroupsAgree, GroupOK, StakesFor, Stake
  <2>3. log[mem[d].epoch + 1].sender = d
    BY <2>2 DEF Accepted
  <2>4. QED
    BY <2>3 DEF MergesAnother
<1>7. CASE Decrypt(d)
  <2>1. PICK packet \in net :
          /\ packet.to = d
          /\ \/ DecryptSimple(d, packet.msg) \/ DecryptCommit(d, packet.msg)
             \/ DecryptFuture(d, packet.msg) \/ DecryptRejected(d, packet.msg)
             \/ DecryptNoGroup(d, packet.msg) \/ ProcessWelcome(d, packet.msg)
    BY <1>7 DEF Decrypt
  <2> DEFINE m == packet.msg
  <2>2. MessageOK(m, log, rosters) /\ (m.kind # "welcome" => m \in Message)
    BY <1>1 DEF Inv, DeliveredIsAccepted, TypeOK, Packet, Welcome
  <2>3. CASE DecryptSimple(d, m) \/ DecryptCommit(d, m)
    <3>1. PICK o \in DecryptOutcomes(d, mem[d], m) : mem' = [mem EXCEPT ![d] = o.g]
      BY <2>3 DEF DecryptSimple, DecryptCommit, Persist
    <3>2. mem'[d] = o.g
      BY <1>1, <3>1 DEF TypeOK
    <3>3. m \in Message
      BY <2>2, <2>3 DEF DecryptSimple, DecryptCommit, IsSelfCommit
    <3>4. QED
      BY <2>2, <3>2, <3>3, OutcomeKeepsStakes
  <2>4. CASE DecryptFuture(d, m) \/ DecryptRejected(d, m) \/ DecryptNoGroup(d, m)
    BY <1>3, <2>4 DEF DecryptFuture, DecryptRejected, DecryptNoGroup, clientVars
  <2>5. CASE ProcessWelcome(d, m)
    <3>1. mem' = mem
      BY <2>5 DEF ProcessWelcome, MergesAnother
    <3>2. QED
      BY <1>3, <3>1
  <2>6. QED
    BY <2>1, <2>3, <2>4, <2>5
<1>8. CASE RestoreMessage(d) \/ RestoreFails(d)
  <2>1. PICK r \in call[d].todo : \E o \in DecryptOutcomes(d, mem[d], r.msg) :
          mem' = [mem EXCEPT ![d] = o.g]
    <3>1. CASE RestoreMessage(d)
      BY <3>1 DEF RestoreMessage, Persist
    <3>2. CASE RestoreFails(d)
      BY <3>2 DEF RestoreFails
    <3>3. QED
      BY <1>8, <3>1, <3>2
  <2>2. PICK o \in DecryptOutcomes(d, mem[d], r.msg) : mem' = [mem EXCEPT ![d] = o.g]
    BY <2>1
  <2>3. mem'[d] = o.g
    BY <1>1, <2>2 DEF TypeOK
  <2>4. r \in Row /\ MessageOK(r.msg, log, rosters)
    BY <1>1, Typed DEF Inv, DeliveredIsAccepted
  <2>5. r.msg \in Message
    BY <2>4 DEF Row
  <2>6. QED
    BY <2>3, <2>4, <2>5, OutcomeKeepsStakes
<1>9. CASE FinishRestore(d)
  BY <1>3, <1>9 DEF FinishRestore
<1>10. CASE WipeConversation(d)
  <2>1. mem'[d] = NoGroup
    BY <1>1, <1>10 DEF WipeConversation, Persist, TypeOK
  <2>2. QED
    BY <1>3, <2>1 DEF NoGroup, NewGroup
<1>11. CASE Crash(d)
  <2>1. mem'[d] = disk[d]
    BY <1>1, <1>11 DEF Crash, TypeOK
  <2>2. mem'[d].epoch <= mem[d].epoch
    BY <1>1, <2>1 DEF StakesFor
  <2>3. QED
    BY <1>1, <2>2 DEF MergesAnother
<1>12. QED
  BY <1>2, <1>4, <1>5, <1>6, <1>7, <1>8, <1>9, <1>10, <1>11 DEF Restore

\* "CoreCrypto will renew local proposal which could not make it in the commit"
\* (decrypt.rs, renew.rs): it does, for every interleaving, but for an update
\* beside a pending commit that carries proposals, and for a pending commit that
\* carries an update.
THEOREM NothingAtStakeIsLost == Spec => LocalProposalsRenewed
<1>1. Init => Stakes
  <2>1. ASSUME Init, NEW c \in Client PROVE StakesFor(c)
    <3>1. /\ mem[c] = (IF c \in Founders THEN NewGroup(0, 0, Founders) ELSE NoGroup)
          /\ disk[c] = mem[c] /\ buf[c] = {} /\ call[c] = Idle /\ outbox[c] = {}
      BY <2>1 DEF Init
    <3>2. mem[c].props = {} /\ mem[c].epoch = 0 /\ mem[c].pc = NoCommit
      BY <3>1 DEF NewGroup, NoGroup
    <3>3. call[c].props = {} /\ call[c].todo = {}
      BY <3>1 DEF Idle
    <3>4. Stake(c, mem[c]) /\ Stake(c, disk[c]) /\ disk[c].epoch <= mem[c].epoch
      BY <3>1, <3>2 DEF Stake
    <3>5. QED
      BY <3>1, <3>3, <3>4 DEF StakesFor
  <2>2. QED
    BY <2>1 DEF Init, Stakes
<1>2. Inv /\ Stakes /\ [Next]_vars => Stakes'
  BY StakesStep
<1>3. Inv /\ Stakes /\ [Next]_vars =>
        [\A c \in Client :
           /\ mem[c].status = "operational" /\ mem'[c].status = "operational"
           /\ mem'[c].epoch = mem[c].epoch + 1
           /\ log[mem'[c].epoch].sender # c
           /\ ~CarriesUpdate(mem[c])
           => \A p \in {x \in AtStake(c, mem[c]) : ~BesideCommit(mem[c], x)} :
                \/ \E q \in Queued(log[mem'[c].epoch]) : q.kind = p.kind /\ q.who = p.who
                \/ \E q \in mem'[c].props :
                     q.kind = p.kind /\ q.who = p.who /\ q.sender = c]_vars
  BY MergeKeepsStakes DEF MergesAnother, KeepsStakes
<1>4. QED
  BY <1>1, <1>2, <1>3, InitInv, StepInv, PTL DEF Spec, LocalProposalsRenewed

=============================================================================
