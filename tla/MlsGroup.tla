------------------------------ MODULE MlsGroup ------------------------------
(***************************************************************************)
(* The data of one MLS conversation and the pure functions CoreCrypto      *)
(* computes on it: how an incoming message is classified, what a commit    *)
(* does to the group, which local proposals a lost race renews.            *)
(*                                                                         *)
(* OpenMLS is not part of the repository.  Its operations (process_message,*)
(* merge_staged_commit, commit creation) are modelled from how CoreCrypto  *)
(* calls them and marked "external" in the project's map.  Cryptography is *)
(* abstracted away: an epoch is identified by the confirmation tag of the  *)
(* commit that created it, a leaf by its client, and the leaf key of an    *)
(* update by its owner and the epoch in which it was generated.            *)
(***************************************************************************)
EXTENDS Integers

CONSTANTS
  Client,         \* the clients that may take part in the conversation
  External,       \* the sender of proposals made from outside the group
  NoCommit,       \* "no pending commit"
  MaxPastEpochs,  \* MAX_PAST_EPOCHS: past epochs whose app messages decrypt
  Overwrite       \* TRUE: the WASM keystore, FALSE: SQLCipher

ASSUME GroupAssumption ==
  /\ External \notin Client
  /\ Overwrite \in BOOLEAN
  /\ MaxPastEpochs \in Nat

-----------------------------------------------------------------------------
(* Proposals, messages and groups.                                         *)

\* "at" tells apart what two proposals about the same client carry: the epoch
\* in which the leaf key of an update was generated, the number of the key
\* package of an add.  A remove carries nothing but the leaf (0).
Proposal == [kind   : {"add", "remove", "update"},
             sender : Client \cup {External},
             who    : Client,
             at     : Nat]

\* A commit made in "epoch"; its tag identifies the epoch it creates.  It
\* names the pending proposals of its sender by reference and carries the
\* proposals created along with it inline.
Commit == [kind   : {"commit"},
           epoch  : Nat,
           sender : Client,
           refs   : SUBSET Proposal,
           inline : SUBSET Proposal,
           tag    : Nat]

ProposalMsg == [kind : {"proposal"}, epoch : Nat, prop : Proposal]

AppMsg == [kind : {"app"}, epoch : Nat, sender : Client, id : Nat]

\* A Welcome carries the state of the epoch the commit creates.
Welcome == [kind : {"welcome"}, epoch : Nat, tag : Nat, members : SUBSET Client]

\* What MlsConversation::decrypt_message takes.
Message == Commit \cup ProposalMsg \cup AppMsg

\* status "none": this client has no such conversation.  "since" is the epoch
\* in which the client joined, "used" the application messages whose ratchet
\* secrets are spent.
Group == [status  : {"none", "operational", "inactive"},
          epoch   : Nat,
          tag     : Nat,
          members : SUBSET Client,
          props   : SUBSET Proposal,
          pc      : Commit \cup {NoCommit},
          since   : Nat,
          used    : SUBSET Nat]

ASSUME NoCommitAssumption == NoCommit \notin Commit

\* A group as MlsConversation::create and the welcome path leave it.
NewGroup(epoch, tag, members) ==
  [status  |-> "operational",
   epoch   |-> epoch,
   tag     |-> tag,
   members |-> members,
   props   |-> {},
   pc      |-> NoCommit,
   since   |-> epoch,
   used    |-> {}]

NoGroup == [NewGroup(0, 0, {}) EXCEPT !.status = "none"]

-----------------------------------------------------------------------------
(* Commits.                                                                *)

\* StagedCommit::queued_proposals
Queued(cm) == cm.refs \cup cm.inline

Added(cm) == {p.who : p \in {q \in Queued(cm) : q.kind = "add"}}

Removed(cm) == {p.who : p \in {q \in Queued(cm) : q.kind = "remove"}}

MembersAfter(members, cm) == (members \ Removed(cm)) \cup Added(cm)

\* A commit takes every pending proposal, except the committer's own updates,
\* which its update path replaces.
CommittedRefs(c, g) ==
  {p \in g.props : ~(p.kind = "update" /\ p.sender = c)}

\* OpenMLS refuses to remove the committer and to add a client twice.
CommitIsValid(c, g, cm) ==
  /\ c \notin Removed(cm)
  /\ Added(cm) \cap g.members = {}
  /\ \A p, q \in Queued(cm) :
       p.kind = "add" /\ q.kind = "add" /\ p.who = q.who => p = q

\* Mutant of Merge: the pending proposals are cleared first, and what the commit
\* names by reference is without effect.
MergeInlineOnly(c, g, cm) ==
  [g EXCEPT !.epoch   = g.epoch + 1,
            !.tag     = cm.tag,
            !.members = MembersAfter(g.members, [cm EXCEPT !.refs = {}]),
            !.props   = {},
            !.pc      = NoCommit,
            !.status  = IF c \in Removed(cm) THEN "inactive" ELSE @]

\* merge_staged_commit / merge_pending_commit: the next epoch starts with no
\* pending proposal and no pending commit; a removed client's group becomes
\* inactive.
Merge(c, g, cm) ==
  [g EXCEPT !.epoch   = g.epoch + 1,
            !.tag     = cm.tag,
            !.members = MembersAfter(g.members, cm),
            !.props   = {},
            !.pc      = NoCommit,
            !.status  = IF c \in Removed(cm) THEN "inactive" ELSE @]

-----------------------------------------------------------------------------
(* Renewal of the proposals that a competing commit left out.              *)

\* Renew::is_proposal_renewable
IsProposalRenewable(p, valid) ==
  ~ \E q \in Queued(valid) :
      /\ q.kind = p.kind
      /\ q.who = p.who
      /\ p.kind = "update" => q.at = p.at

\* self_pending_proposals
SelfPendingProposals(c, g) == {p \in g.props : p.sender = c}

\* Mutant of ProposalsToRenew: a lost pending commit is forgotten.
RenewsPendingProposalsOnly(c, g, valid) ==
  {p \in SelfPendingProposals(c, g) : IsProposalRenewable(p, valid)}

\* Renew::renew and the filter on external senders that follows it: with a
\* pending commit all of its proposals are considered, whoever sent them.
ProposalsToRenew(c, g, valid) ==
  {p \in (IF g.pc = NoCommit THEN SelfPendingProposals(c, g) ELSE Queued(g.pc)) :
     IsProposalRenewable(p, valid) /\ p.sender # External}

\* Renew::renew: an empty pending commit was an attempt to update.
NeedsUpdate(c, g, valid) ==
  /\ g.pc # NoCommit
  /\ Queued(g.pc) = {}
  /\ ~ \E q \in Queued(valid) : q.kind = "update" /\ q.sender = c

\* Mutant of UpdateProposal: the proposal carries no new leaf key.
UpdateWithoutKey(c, epoch) == [kind |-> "update", sender |-> c, who |-> c]

UpdateProposal(c, epoch) ==
  [kind |-> "update", sender |-> c, who |-> c, at |-> epoch]

\* The proposal that propose_add_member, propose_remove_member or
\* renew_update makes in the new epoch for p.
RenewedProposal(c, epoch, p) ==
  IF p.kind = "update" THEN UpdateProposal(c, epoch) ELSE [p EXCEPT !.sender = c]

\* Mutant of RenewIn: the renewed proposals are sent but not stored.
RenewUnstored(g, renewed) == g

\* The renewed proposals go into the proposal store of the new epoch.
RenewIn(g, renewed) == [g EXCEPT !.props = renewed]

\* renew_update first removes the leaf's encryption key from the keystore.  Only
\* the owner of the leaf has that key, and SQLCipher refuses to delete what is
\* not there; IndexedDB does not mind.
RenewalFails(c, p) == ~Overwrite /\ p.kind = "update" /\ p.sender # c

-----------------------------------------------------------------------------
(* Classification of an incoming message: parse_message.                   *)

\* maybe_self_member_commit
IsSelfCommit(c, m) == m.kind = "commit" /\ m.sender = c

\* is_duplicate_message.  A commit is recognised by the confirmation tag of
\* the epoch it created, a proposal by its content, which does not include
\* who sent it.
IsDuplicateMessage(g, m) ==
  \/ m.kind = "commit" /\ m.tag = g.tag
  \/ /\ m.kind = "proposal"
     /\ \E p \in g.props : /\ p.kind = m.prop.kind
                           /\ p.who = m.prop.who
                           /\ p.at = m.prop.at

\* Mutant of ParseApp: a spent ratchet secret is not noticed.
ParseAppAgain(g, m) ==
  IF m.epoch + MaxPastEpochs < g.epoch \/ m.epoch < g.since THEN "Stale" ELSE "Ok"

\* An application message: private, of this epoch or of a recent one.
ParseApp(g, m) ==
  IF m.epoch + MaxPastEpochs < g.epoch \/ m.epoch < g.since THEN "Stale"
  ELSE IF m.id \in g.used THEN "DuplicateMessage" ELSE "Ok"

\* Mutant of ParseWrongEpoch: a message of the next epoch is not buffered.
ParseWithoutBuffer(g, m) ==
  IF IsDuplicateMessage(g, m) THEN "DuplicateMessage"
  ELSE IF m.epoch <= g.epoch + 1 THEN "Stale" ELSE "WrongEpoch"

\* ValidationError::WrongEpoch.  That a message is a duplicate is decided
\* before its epoch is looked at.
ParseWrongEpoch(g, m) ==
  IF IsDuplicateMessage(g, m) THEN "DuplicateMessage"
  ELSE IF m.epoch = g.epoch + 1 THEN "BufferedFutureMessage"
  ELSE IF m.epoch < g.epoch THEN "Stale" ELSE "WrongEpoch"

\* What process_message and the error mapping of parse_message make of m.
ParseMessage(g, m) ==
  IF g.status # "operational" THEN "UseAfterEviction"
  ELSE IF m.kind = "app" /\ m.epoch <= g.epoch THEN ParseApp(g, m)
  ELSE IF m.epoch # g.epoch THEN ParseWrongEpoch(g, m)
  ELSE IF m.kind = "commit" /\ ~(m.refs \subseteq g.props) THEN "MissingProposal"
  ELSE IF IsDuplicateMessage(g, m) THEN "DuplicateMessage" ELSE "Ok"

=============================================================================
