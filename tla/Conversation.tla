---------------------------- MODULE Conversation ----------------------------
(***************************************************************************)
(* One MLS conversation shared by several CoreCrypto clients through a     *)
(* Delivery Service (DS).  Each client is an MlsCentral: the group in      *)
(* memory, the group row and the buffered messages in its keystore, and    *)
(* the API call it is executing.  An API call is atomic unless it replays  *)
(* buffered messages or wipes the group: those calls are several keystore  *)
(* writes long, so they advance one message or one write per step (nothing *)
(* else can use the conversation meanwhile: it is write-locked) and a      *)
(* crash may fall between two steps.                                       *)
(*                                                                         *)
(* The application follows the protocol of merge.rs: it posts the pending  *)
(* commit, calls commit_accepted on 200, does nothing on 409 and posts     *)
(* again when the reply is lost; it starts no new commit while a 200 waits *)
(* to be handled or a proposal it was given waits to be sent.  Handshake   *)
(* messages are public messages.  The DS accepts one commit per epoch and  *)
(* may delay, repeat and reorder what it fans out.                         *)
(***************************************************************************)
EXTENDS MessageBuffer, Sequences

CONSTANTS
  Founders,      \* the members of the group in epoch 0
  Kinds,         \* the kinds of proposals the applications make
  Echo,          \* TRUE: the DS also sends a commit back to its sender
  LoseReplies,   \* TRUE: the reply of the DS to a commit may be lost
  MaxEpoch,      \* bound: commits the DS accepts
  MaxCommits,    \* bound: commits the clients create
  MaxProposals,  \* bound: proposals the applications make
  MaxApps,       \* bound: application messages sent
  MaxDups,       \* bound: deliveries that will be repeated
  MaxCrashes     \* bound: crashes

ASSUME ConversationAssumption ==
  /\ Founders \subseteq Client
  /\ Kinds \subseteq {"add", "remove", "update", "external"}
  /\ Echo \in BOOLEAN /\ LoseReplies \in BOOLEAN
  /\ {MaxEpoch, MaxCommits, MaxProposals, MaxApps, MaxDups, MaxCrashes} \subseteq Nat

VARIABLES
  mem,      \* mem[c]: the MlsConversation in c's group store
  disk,     \* disk[c]: c's row of mls_groups
  buf,      \* buf[c]: c's rows of mls_pending_messages
  call,     \* call[c]: the API call c is in the middle of
  outbox,   \* outbox[c]: proposals returned to c's application, not yet sent
  got,      \* got[c][i]: how often c's application was given message i
  post,     \* post[c] = "ok": a 200 from the DS waits to be handled
  log,      \* log[e]: the commit that the DS accepted to create epoch e
  rosters,  \* rosters[e + 1]: the members in epoch e, as the DS knows them
  net,      \* fanned out and not yet delivered: [to, msg]
  created,  \* every commit ever created
  count     \* what the bounds count

clientVars == <<mem, disk, buf, call, outbox, got, post>>
dsVars     == <<log, rosters, net, created>>
vars       == <<mem, disk, buf, call, outbox, got, post,
                log, rosters, net, created, count>>

Tag == 1..MaxCommits
App == 1..MaxApps

\* A call that replays the buffer ("decrypt" and "accepted" differ in who
\* asked for it) or is about to wipe the group.  "outer" is the commit being
\* decrypted; "apps" and "props" are what the call will return.
Call == [op    : {"idle", "decrypt", "accepted", "wipe"},
         outer : Commit \cup {NoCommit},
         todo  : SUBSET Row,
         apps  : SUBSET Nat,
         props : SUBSET ProposalMsg]

Idle == [op |-> "idle", outer |-> NoCommit, todo |-> {}, apps |-> {}, props |-> {}]

Packet == [to : Client, msg : Message \cup Welcome]

Counters == [prop : Nat, app : Nat, dup : Nat, crash : Nat]

\* Epoch 0 stands for the epoch in which the last of the founders joined.
Init ==
  /\ mem = [c \in Client |-> IF c \in Founders THEN NewGroup(0, 0, Founders)
                                              ELSE NoGroup]
  /\ disk = mem
  /\ buf = [c \in Client |-> {}]
  /\ call = [c \in Client |-> Idle]
  /\ outbox = [c \in Client |-> {}]
  /\ got = [c \in Client |-> [i \in App |-> 0]]
  /\ post = [c \in Client |-> "idle"]
  /\ log = << >>
  /\ rosters = <<Founders>>
  /\ net = {}
  /\ created = {}
  /\ count = [prop |-> 0, app |-> 0, dup |-> 0, crash |-> 0]

-----------------------------------------------------------------------------
(* The Delivery Service.                                                   *)

DsEpoch == Len(log)

Roster == rosters[Len(rosters)]

FanOut(m, recipients) == {[to |-> d, msg |-> m] : d \in recipients}

\* What accepting a commit sends: the commit to the members of its epoch, the
\* removed ones included, and a Welcome to the added clients.
CommitFanOut(cm) ==
  LET next == MembersAfter(Roster, cm)
  IN  FanOut(cm, IF Echo THEN Roster ELSE Roster \ {cm.sender})
      \cup FanOut([kind |-> "welcome", epoch |-> cm.epoch + 1,
                   tag |-> cm.tag, members |-> next], Added(cm))

\* A delivery takes the packet off the network unless the DS, whose delivery
\* is at least once, will repeat it.
Deliver(c, m) ==
  LET packet == [to |-> c, msg |-> m]
  IN  /\ packet \in net
      /\ \/ net' = net \ {packet} /\ UNCHANGED count
         \/ /\ count.dup < MaxDups
            /\ count' = [count EXCEPT !.dup = @ + 1]
            /\ UNCHANGED net

-----------------------------------------------------------------------------
(* Operations that create messages.  All of them need the group in memory  *)
(* and no call in progress; OpenMLS refuses them on an inactive group.     *)

Ready(c) == call[c] = Idle /\ mem[c].status = "operational"

\* The in-memory group becomes g and persist_group_when_changed saves it.
Persist(c, g) ==
  /\ mem' = [mem EXCEPT ![c] = g]
  /\ disk' = [disk EXCEPT ![c] = g]

\* encrypt_message: refused while anything is pending.
EncryptMessage(c) ==
  /\ Ready(c)
  /\ mem[c].props = {} /\ mem[c].pc = NoCommit
  /\ count.app < MaxApps
  /\ LET id == count.app + 1
         m == [kind |-> "app", epoch |-> mem[c].epoch, sender |-> c, id |-> id]
     IN  /\ Persist(c, [mem[c] EXCEPT !.used = @ \cup {id}])
         /\ net' = net \cup FanOut(m, Roster \ {c})
         /\ count' = [count EXCEPT !.app = id]
  /\ UNCHANGED <<buf, call, outbox, got, post, log, rosters, created>>

\* What a new proposal about client x carries beside the client.
Carried(kind, epoch) ==
  CASE kind = "update" -> epoch
    [] kind = "add"    -> count.prop + 1
    [] OTHER           -> 0

\* new_add_proposal, new_remove_proposal, new_update_proposal: refused while a
\* commit is pending.  One own update at a time, so that the epoch identifies
\* its key.
NewProposal(c, kind, x) ==
  /\ Ready(c)
  /\ mem[c].pc = NoCommit
  /\ kind \in Kinds /\ count.prop < MaxProposals
  /\ CASE kind = "add"    -> x \notin mem[c].members
       [] kind = "remove" -> x \in mem[c].members
       [] kind = "update" -> /\ x = c
                             /\ \A p \in SelfPendingProposals(c, mem[c]) :
                                  p.kind # "update"
       [] OTHER           -> FALSE
  /\ LET p == [kind |-> kind, sender |-> c, who |-> x,
               at |-> Carried(kind, mem[c].epoch)]
         m == [kind |-> "proposal", epoch |-> mem[c].epoch, prop |-> p]
     IN  /\ p \notin mem[c].props
         /\ Persist(c, [mem[c] EXCEPT !.props = @ \cup {p}])
         /\ outbox' = [outbox EXCEPT ![c] = @ \cup {m}]
  /\ count' = [count EXCEPT !.prop = @ + 1]
  /\ UNCHANGED <<buf, call, got, post, dsVars>>

\* The DS takes a proposal from the application of c and fans it out.
SendProposal(c) ==
  \E m \in outbox[c] :
    /\ outbox' = [outbox EXCEPT ![c] = @ \ {m}]
    /\ net' = net \cup FanOut(m, Roster \ {c})
    /\ UNCHANGED <<mem, disk, buf, call, got, post, log, rosters, created, count>>

\* The DS refuses a proposal (403, 409) and the application clears it:
\* clear_pending_proposal, PendingProposalNotFound when the group no longer
\* holds it.
ClearPendingProposal(c) ==
  /\ call[c] = Idle
  /\ \E m \in outbox[c] :
       /\ outbox' = [outbox EXCEPT ![c] = @ \ {m}]
       /\ IF mem[c].status # "none" /\ m.epoch = mem[c].epoch /\ m.prop \in mem[c].props
          THEN Persist(c, [mem[c] EXCEPT !.props = @ \ {m.prop}])
          ELSE UNCHANGED <<mem, disk>>
  /\ UNCHANGED <<buf, call, got, post, dsVars, count>>

\* new_external_add_proposal by a client outside the group, for the epoch it
\* learnt from the DS.
NewExternalAddProposal(x) ==
  /\ "external" \in Kinds /\ count.prop < MaxProposals
  /\ x \in Client \ Roster
  /\ LET p == [kind |-> "add", sender |-> External, who |-> x, at |-> count.prop + 1]
     IN  net' = net \cup FanOut([kind |-> "proposal", epoch |-> DsEpoch, prop |-> p],
                                Roster)
  /\ count' = [count EXCEPT !.prop = @ + 1]
  /\ UNCHANGED <<clientVars, log, rosters, created>>

\* The lowest confirmation tag no commit has yet.
FreshTag(t) ==
  LET Free(s) == \A cm \in created : cm.tag < s
  IN  t \in Tag /\ Free(t) /\ \A s \in Tag : Free(s) => t <= s

\* The common end of the operations that create a commit: refused while a
\* commit is pending; the new one becomes the pending commit.
CreateCommit(c, inline) ==
  /\ Ready(c)
  /\ mem[c].pc = NoCommit
  /\ post[c] = "idle" /\ outbox[c] = {}
  /\ \E t \in Tag :
       LET cm == [kind |-> "commit", epoch |-> mem[c].epoch, sender |-> c,
                  refs |-> CommittedRefs(c, mem[c]), inline |-> inline, tag |-> t]
       IN  /\ FreshTag(t)
           /\ CommitIsValid(c, mem[c], cm)
           /\ Persist(c, [mem[c] EXCEPT !.pc = cm])
           /\ created' = created \cup {cm}
  /\ UNCHANGED <<buf, call, outbox, got, post, log, rosters, net>>

\* add_members_to_conversation
AddMembers(c, x) ==
  /\ "add" \in Kinds /\ count.prop < MaxProposals
  /\ x \notin mem[c].members
  /\ CreateCommit(c, {[kind |-> "add", sender |-> c, who |-> x, at |-> count.prop + 1]})
  /\ count' = [count EXCEPT !.prop = @ + 1]

\* remove_members_from_conversation
RemoveMembers(c, x) ==
  /\ "remove" \in Kinds
  /\ x \in mem[c].members
  /\ CreateCommit(c, {[kind |-> "remove", sender |-> c, who |-> x, at |-> 0]})
  /\ UNCHANGED count

\* update_keying_material
UpdateKeyingMaterial(c) == CreateCommit(c, {}) /\ UNCHANGED count

\* commit_pending_proposals
CommitPendingProposals(c) ==
  /\ mem[c].props # {}
  /\ CreateCommit(c, {})
  /\ UNCHANGED count

-----------------------------------------------------------------------------
(* Posting a commit and merging it.                                        *)

Accepted(cm) == cm.epoch < Len(log) /\ log[cm.epoch + 1] = cm

\* The application posts the pending commit; the DS accepts the first commit
\* it sees for its current epoch.  The reply is a 200 or is lost.  A commit for
\* another epoch, one already accepted included, gets a 409, which changes
\* nothing anywhere.
PostCommit(c) ==
  /\ call[c] = Idle /\ post[c] = "idle"
  /\ mem[c].status = "operational" /\ mem[c].pc # NoCommit
  /\ LET cm == mem[c].pc
     IN  /\ cm.epoch = DsEpoch /\ DsEpoch < MaxEpoch
         /\ log' = Append(log, cm)
         /\ rosters' = Append(rosters, MembersAfter(Roster, cm))
         /\ net' = net \cup CommitFanOut(cm)
         /\ \/ post' = [post EXCEPT ![c] = "ok"]
            \/ LoseReplies /\ UNCHANGED post
  /\ UNCHANGED <<mem, disk, buf, call, outbox, got, created, count>>

\* Mutant of CommitAccepted: the buffer is not replayed.
CommitAcceptedOnly(c) ==
  /\ call[c] = Idle /\ post[c] = "ok"
  /\ post' = [post EXCEPT ![c] = "idle"]
  /\ IF mem[c].status = "operational" /\ mem[c].pc # NoCommit
     THEN Persist(c, Merge(c, mem[c], mem[c].pc))
     ELSE UNCHANGED <<mem, disk>>
  /\ UNCHANGED <<buf, call, outbox, got, dsVars, count>>

\* commit_accepted: merge the pending commit, save the group, then replay the
\* buffer.  Without a pending commit it fails and changes nothing.
CommitAccepted(c) ==
  /\ call[c] = Idle /\ post[c] = "ok"
  /\ post' = [post EXCEPT ![c] = "idle"]
  /\ IF mem[c].status = "operational" /\ mem[c].pc # NoCommit
     THEN /\ Persist(c, Merge(c, mem[c], mem[c].pc))
          /\ call' = [call EXCEPT ![c] = [Idle EXCEPT !.op = "accepted", !.todo = buf[c]]]
     ELSE UNCHANGED <<mem, disk, call>>
  /\ UNCHANGED <<buf, outbox, got, dsVars, count>>

\* clear_pending_commit, when the DS refuses the commit for good (403).
ClearPendingCommit(c) ==
  /\ call[c] = Idle /\ post[c] = "idle"
  /\ mem[c].status = "operational" /\ mem[c].pc # NoCommit
  /\ ~Accepted(mem[c].pc)
  /\ Persist(c, [mem[c] EXCEPT !.pc = NoCommit])
  /\ UNCHANGED <<buf, call, outbox, got, post, dsVars, count>>

-----------------------------------------------------------------------------
(* MlsConversation::decrypt_message as a function from the group and the   *)
(* message to the possible outcomes: the result, the group in memory after *)
(* it, whether that group has been saved on the way, and what is returned. *)

Outcome(res, g, saved, apps, props) ==
  [res |-> res, g |-> g, saved |-> saved, apps |-> apps, props |-> props]

\* Mutant of SelfCommitOutcome: eq_pending_commit is not asked.
SelfCommitUnchecked(c, g, m) ==
  IF g.pc = NoCommit THEN Outcome("SelfCommitIgnored", g, FALSE, {}, {})
  ELSE Outcome("Ok", Merge(c, g, g.pc), TRUE, {}, {})

\* handle_self_member_commit
SelfCommitOutcome(c, g, m) ==
  CASE g.pc = NoCommit  -> Outcome("SelfCommitIgnored", g, FALSE, {}, {})
    [] g.pc # NoCommit /\ g.pc.tag = m.tag ->
         Outcome("Ok", Merge(c, g, g.pc), TRUE, {}, {})
    [] OTHER -> Outcome("ClearingPendingCommitError", g, FALSE, {}, {})

\* Another member's commit: merge it, then renew_proposals_for_current_epoch.
\* Every renewed proposal saves the group.  The proposals are renewed in an
\* arbitrary order up to the first that fails, if any; on an inactive group
\* the first one fails.
CommitOutcomes(c, g, m) ==
  LET merged     == Merge(c, g, m)
      todo       == ProposalsToRenew(c, g, m)
      failing    == {p \in todo : RenewalFails(c, p)}
      update     == IF NeedsUpdate(c, g, m) THEN {UpdateProposal(c, merged.epoch)} ELSE {}
      Renewed(S) == {RenewedProposal(c, merged.epoch, p) : p \in S}
      With(S)    == RenewIn(merged, S)
      Msgs(S)    == {[kind |-> "proposal", epoch |-> merged.epoch, prop |-> p] : p \in S}
      all        == Renewed(todo) \cup update
  IN  IF merged.status = "inactive" /\ all # {}
      THEN {Outcome("RenewalFailed", merged, FALSE, {}, {})}
      ELSE IF failing # {}
      THEN {Outcome("RenewalFailed", With(Renewed(S)), S # {}, {}, {}) :
              S \in SUBSET (todo \ failing)}
      ELSE {Outcome("Ok", With(all), all # {}, {}, Msgs(all))}

DecryptOutcomes(c, g, m) ==
  IF IsSelfCommit(c, m) THEN {SelfCommitOutcome(c, g, m)}
  ELSE IF ParseMessage(g, m) # "Ok"
  THEN {Outcome(ParseMessage(g, m), g, FALSE, {}, {})}
  ELSE CASE m.kind = "app" ->
              {Outcome("Ok", [g EXCEPT !.used = @ \cup {m.id}], TRUE, {m.id}, {})}
         [] m.kind = "proposal" ->
              {Outcome("Ok", [g EXCEPT !.props = @ \cup {m.prop}], TRUE, {}, {})}
         [] OTHER -> CommitOutcomes(c, g, m)

\* What the application is given when a call returns.
Return(c, apps, props) ==
  /\ got' = [got EXCEPT ![c] = [i \in App |-> IF i \in apps THEN @[i] + 1 ELSE @[i]]]
  /\ outbox' = [outbox EXCEPT ![c] = @ \cup props]

-----------------------------------------------------------------------------
(* MlsCentral::decrypt_message.                                            *)

Receives(c, m) ==
  /\ call[c] = Idle
  /\ mem[c].status # "none"
  /\ Deliver(c, m)

\* An application message, a proposal or the client's own commit: decrypted,
\* saved and returned.  The buffer is not looked at.
DecryptSimple(c, m) ==
  /\ m.kind \in {"app", "proposal"} \/ IsSelfCommit(c, m)
  /\ Receives(c, m)
  /\ \E o \in DecryptOutcomes(c, mem[c], m) :
       /\ o.res = "Ok"
       /\ Persist(c, o.g)
       /\ Return(c, o.apps, o.props)
  /\ UNCHANGED <<buf, call, post, log, rosters, created>>

\* Another member's commit: merged and the proposals renewed; then the buffer
\* is replayed.  When a renewal fails the call returns the error there.
DecryptCommit(c, m) ==
  /\ m.kind = "commit" /\ m.sender # c
  /\ Receives(c, m)
  /\ \E o \in DecryptOutcomes(c, mem[c], m) :
       /\ o.res \in {"Ok", "RenewalFailed"}
       /\ mem' = [mem EXCEPT ![c] = o.g]
       /\ disk' = IF o.saved THEN [disk EXCEPT ![c] = o.g] ELSE disk
       /\ call' = IF o.res = "Ok"
                  THEN [call EXCEPT ![c] = [op |-> "decrypt", outer |-> m, todo |-> buf[c],
                                            apps |-> {}, props |-> o.props]]
                  ELSE call
  /\ UNCHANGED <<buf, outbox, got, post, log, rosters, created>>

\* handle_future_message: a message of the next epoch is buffered.
DecryptFuture(c, m) ==
  /\ m.kind # "welcome"
  /\ Receives(c, m)
  /\ \E o \in DecryptOutcomes(c, mem[c], m) : o.res = "BufferedFutureMessage"
  /\ \E b \in Save(buf[c], m) : buf' = [buf EXCEPT ![c] = b]
  /\ UNCHANGED <<mem, disk, call, outbox, got, post, log, rosters, created>>

\* A message that will never be of use to this client.  (One that comes too
\* early, or whose proposals are missing, is left with the DS.)
Useless == {"DuplicateMessage", "Stale", "SelfCommitIgnored",
            "ClearingPendingCommitError", "UseAfterEviction"}

DecryptRejected(c, m) ==
  /\ m.kind # "welcome"
  /\ Receives(c, m)
  /\ \E o \in DecryptOutcomes(c, mem[c], m) : o.res \in Useless
  /\ UNCHANGED <<clientVars, log, rosters, created>>

\* Without the conversation: ConversationNotFound.  (Until the client has
\* processed its Welcome the message came too early and is left with the DS.)
DecryptNoGroup(c, m) ==
  /\ m.kind # "welcome"
  /\ call[c] = Idle /\ mem[c].status = "none"
  /\ \A packet \in net : packet.to = c => packet.msg.kind # "welcome"
  /\ Deliver(c, m)
  /\ UNCHANGED <<clientVars, log, rosters, created>>

\* process_welcome_message: ConversationAlreadyExists when there is one.  Either
\* way OpenMLS has consumed the key package, so that a repeated Welcome is an
\* OrphanWelcome, which changes nothing.
ProcessWelcome(c, w) ==
  /\ w.kind = "welcome"
  /\ call[c] = Idle
  /\ [to |-> c, msg |-> w] \in net
  /\ net' = net \ {[to |-> c, msg |-> w]}
  /\ IF mem[c].status = "none"
     THEN Persist(c, NewGroup(w.epoch, w.tag, w.members))
     ELSE UNCHANGED <<mem, disk>>
  /\ UNCHANGED <<buf, call, outbox, got, post, log, rosters, created, count>>

-----------------------------------------------------------------------------
(* Replaying the buffer: restore_pending_messages.                         *)

Replaying(c) == call[c].op \in {"decrypt", "accepted"}

\* Mutant of RestoreMessage: only the last message is returned.
RestoreLastMessage(c) ==
  /\ Replaying(c)
  /\ \E r \in call[c].todo :
       /\ IsNext(r, call[c].todo)
       /\ \E o \in DecryptOutcomes(c, mem[c], r.msg) :
            /\ o.res = "Ok"
            /\ Persist(c, o.g)
            /\ call' = [call EXCEPT ![c].todo = @ \ {r}, ![c].apps = o.apps, ![c].props = o.props]
  /\ UNCHANGED <<buf, outbox, got, post, dsVars, count>>

\* One buffered message is decrypted and the group saved.
RestoreMessage(c) ==
  /\ Replaying(c)
  /\ \E r \in call[c].todo :
       /\ IsNext(r, call[c].todo)
       /\ \E o \in DecryptOutcomes(c, mem[c], r.msg) :
            /\ o.res = "Ok"
            /\ Persist(c, o.g)
            /\ call' = [call EXCEPT ![c].todo = @ \ {r},
                                    ![c].apps = @ \cup o.apps,
                                    ![c].props = @ \cup o.props]
  /\ UNCHANGED <<buf, outbox, got, post, dsVars, count>>

\* One buffered message fails: the whole call returns the error, the buffer
\* stays and what was already decrypted is dropped.  An error that says "buffer
\* this message" reaches MlsCentral::decrypt_message, which saves the commit it
\* was decrypting.
RestoreFails(c) ==
  /\ Replaying(c)
  /\ \E r \in call[c].todo :
       /\ IsNext(r, call[c].todo)
       /\ \E o \in DecryptOutcomes(c, mem[c], r.msg) :
            /\ o.res # "Ok"
            /\ mem' = [mem EXCEPT ![c] = o.g]
            /\ disk' = IF o.saved THEN [disk EXCEPT ![c] = o.g] ELSE disk
            /\ IF o.res = "BufferedFutureMessage" /\ call[c].outer # NoCommit
               THEN \E b \in Save(buf[c], call[c].outer) : buf' = [buf EXCEPT ![c] = b]
               ELSE UNCHANGED buf
  /\ call' = [call EXCEPT ![c] = Idle]
  /\ UNCHANGED <<outbox, got, post, dsVars, count>>

\* Mutant of FinishRestore: the group is not saved at the end.
FinishRestoreUnsaved(c) ==
  /\ Replaying(c) /\ call[c].todo = {}
  /\ buf' = [buf EXCEPT ![c] = {}]
  /\ IF call[c].op = "decrypt" /\ mem[c].status = "inactive"
     THEN /\ call' = [call EXCEPT ![c].op = "wipe"]
          /\ UNCHANGED <<got, outbox>>
     ELSE /\ call' = [call EXCEPT ![c] = Idle]
          /\ Return(c, call[c].apps, call[c].props)
  /\ UNCHANGED <<mem, disk, post, dsVars, count>>

\* Everything is replayed: the rows are removed, the group is saved, and the
\* call returns, unless the client has been removed from the group.
FinishRestore(c) ==
  /\ Replaying(c) /\ call[c].todo = {}
  /\ buf' = [buf EXCEPT ![c] = {}]
  /\ disk' = [disk EXCEPT ![c] = mem[c]]
  /\ IF call[c].op = "decrypt" /\ mem[c].status = "inactive"
     THEN /\ call' = [call EXCEPT ![c].op = "wipe"]
          /\ UNCHANGED <<got, outbox>>
     ELSE /\ call' = [call EXCEPT ![c] = Idle]
          /\ Return(c, call[c].apps, call[c].props)
  /\ UNCHANGED <<mem, post, dsVars, count>>

\* wipe_conversation at the end of decrypt_message: the group leaves the
\* keystore and the group store; the buffered messages stay.
WipeConversation(c) ==
  /\ call[c].op = "wipe"
  /\ Persist(c, NoGroup)
  /\ call' = [call EXCEPT ![c] = Idle]
  /\ Return(c, call[c].apps, call[c].props)
  /\ UNCHANGED <<buf, post, dsVars, count>>

\* The application stops at any point and restarts: restore_from_disk.
Crash(c) ==
  /\ count.crash < MaxCrashes
  /\ count' = [count EXCEPT !.crash = @ + 1]
  /\ mem' = [mem EXCEPT ![c] = disk[c]]
  /\ call' = [call EXCEPT ![c] = Idle]
  /\ outbox' = [outbox EXCEPT ![c] = {}]
  /\ post' = [post EXCEPT ![c] = "idle"]
  /\ UNCHANGED <<disk, buf, got, dsVars>>

-----------------------------------------------------------------------------
Create(c) ==
  \/ EncryptMessage(c)
  \/ \E kind \in {"add", "remove", "update"}, x \in Client : NewProposal(c, kind, x)
  \/ NewExternalAddProposal(c)
  \/ \E x \in Client : AddMembers(c, x)
  \/ \E x \in Client : RemoveMembers(c, x)
  \/ UpdateKeyingMaterial(c)
  \/ CommitPendingProposals(c)

Decrypt(c) ==
  \E packet \in net :
    /\ packet.to = c
    /\ \/ DecryptSimple(c, packet.msg)
       \/ DecryptCommit(c, packet.msg)
       \/ DecryptFuture(c, packet.msg)
       \/ DecryptRejected(c, packet.msg)
       \/ DecryptNoGroup(c, packet.msg)
       \/ ProcessWelcome(c, packet.msg)

Restore(c) == RestoreMessage(c) \/ RestoreFails(c) \/ FinishRestore(c)

Next ==
  \E c \in Client :
    \/ Create(c)
    \/ SendProposal(c)
    \/ ClearPendingProposal(c)
    \/ PostCommit(c)
    \/ CommitAccepted(c)
    \/ ClearPendingCommit(c)
    \/ Decrypt(c)
    \/ Restore(c)
    \/ WipeConversation(c)
    \/ Crash(c)

Spec == Init /\ [][Next]_vars

\* A call in progress runs to its end, the application handles the reply of
\* the DS and sends what it was given, and the DS delivers what it fans out.
Fairness ==
  \A c \in Client :
    /\ WF_vars(Restore(c))
    /\ WF_vars(WipeConversation(c))
    /\ WF_vars(CommitAccepted(c))
    /\ WF_vars(SendProposal(c))
    /\ WF_vars(Decrypt(c))

FairSpec == Spec /\ Fairness

-----------------------------------------------------------------------------
(* Properties.                                                             *)

\* Every variable keeps its type.
TypeOK ==
  /\ mem \in [Client -> Group]
  /\ disk \in [Client -> Group]
  /\ buf \in [Client -> SUBSET Row]
  /\ call \in [Client -> Call]
  /\ outbox \in [Client -> SUBSET ProposalMsg]
  /\ got \in [Client -> [App -> Nat]]
  /\ post \in [Client -> {"idle", "ok"}]
  /\ log \in Seq(Commit)
  /\ rosters \in Seq(SUBSET Client) /\ rosters # << >>
  /\ net \in SUBSET Packet
  /\ created \in SUBSET Commit
  /\ count \in Counters

\* No fork: whatever a client has merged, in memory or in its keystore, by
\* commit_accepted, by decrypting its own commit or another member's, with or
\* without crashes and repeated deliveries, is the history the DS accepted.  So
\* two clients in the same epoch share its confirmation tag and its members.
EpochAgreement ==
  \A c \in Client : \A g \in {mem[c], disk[c]} :
    g.status # "none" =>
      /\ g.epoch <= Len(log)
      /\ g.tag = (IF g.epoch = 0 THEN 0 ELSE log[g.epoch].tag)
      /\ g.members = rosters[g.epoch + 1]

\* Why EpochAgreement holds, as a property of each step:
\*  - a group agrees with the history, and its pending commit was made in its
\*    epoch (for the parameters l, r and cm see log, rosters and created);
GroupOK(g, l, r, cms) ==
  /\ g.status # "none" =>
       /\ g.epoch <= Len(l)
       /\ g.tag = (IF g.epoch = 0 THEN 0 ELSE l[g.epoch].tag)
       /\ g.members = r[g.epoch + 1]
  /\ g.pc # NoCommit => /\ g.status = "operational"
                        /\ g.pc \in cms
                        /\ g.pc.epoch = g.epoch

GroupsAgree ==
  \A c \in Client : /\ GroupOK(mem[c], log, rosters, created)
                    /\ GroupOK(disk[c], log, rosters, created)

\*  - the history is made of created commits, each for the epoch it ends;
HistoryOK(l, r, cms) ==
  /\ Len(r) = Len(l) + 1
  /\ \A e \in 1..Len(l) : /\ l[e] \in cms
                          /\ l[e].epoch + 1 = e
                          /\ r[e + 1] = MembersAfter(r[e], l[e])

\*  - a confirmation tag identifies a commit;
TagsUnique(cms) == \A x, y \in cms : x.tag = y.tag => x = y

\*  - a 200 that waits to be handled is about the pending commit;
PostedIsAccepted ==
  \A c \in Client :
    post[c] = "ok" /\ mem[c].pc # NoCommit => Accepted(mem[c].pc)

\*  - only accepted commits are delivered, buffered and replayed, and a Welcome
\*    describes the epoch of an accepted commit.
MessageOK(m, l, r) ==
  /\ m.kind = "commit" => m.epoch < Len(l) /\ l[m.epoch + 1] = m
  /\ m.kind = "welcome" => /\ m.epoch \in 1..Len(l)
                           /\ m.tag = l[m.epoch].tag
                           /\ m.members = r[m.epoch + 1]

DeliveredIsAccepted ==
  /\ \A packet \in net : MessageOK(packet.msg, log, rosters)
  /\ \A c \in Client : \A row \in buf[c] \cup call[c].todo :
       MessageOK(row.msg, log, rosters)
  /\ \A c \in Client :
       call[c].outer # NoCommit => MessageOK(call[c].outer, log, rosters)

Inv ==
  /\ TypeOK
  /\ GroupsAgree
  /\ HistoryOK(log, rosters, created)
  /\ TagsUnique(created)
  /\ PostedIsAccepted
  /\ DeliveredIsAccepted

\* decrypt_message and the replay of the buffer hand an application message to
\* the application at most once, although the DS repeats deliveries, messages
\* are buffered and the client crashes.
AppAtMostOnce == \A c \in Client, i \in App : got[c][i] <= 1

\* decrypt_message merges another member's commit and returns the error of a
\* renewal, before the group is saved and the buffer replayed (decrypt.rs:212).
RenewalStops(c) ==
  \E packet \in net : packet.to = c /\ DecryptCommit(c, packet.msg) /\ call'[c] = Idle

\* A call of c returns an error after it has merged a commit.
StopsEarly(c) == RestoreFails(c) \/ RenewalStops(c)

\* Between two calls of client c the keystore has the group that is in memory.
DurableFor(c) == call[c] = Idle => disk[c] = mem[c]

\* The crate's #[durable] marker: between two calls the keystore holds the group
\* that is in memory, so that a crash loses nothing.
Durable == \A c \in Client : DurableFor(c)

\* Which calls keep that promise: every one that does not return an error, the
\* ones that replay a buffer of several messages included.  What breaks it is a
\* renewal or a replay that fails after the merge (decrypt.rs:212, 219), nothing
\* else: not a removed client, a wiped group, a crash or a repeated delivery.
DurableUntilError ==
  [][\A c \in Client : DurableFor(c) => DurableFor(c)' \/ StopsEarly(c)]_vars

\* The proposals whose fate a competing commit decides: the client's own
\* pending ones and, with them, those of its pending commit.
AtStake(c, g) ==
  {p \in SelfPendingProposals(c, g) \cup (IF g.pc = NoCommit THEN {} ELSE Queued(g.pc)) :
     p.sender # External}

\* The update of another member that a pending commit carries cannot be renewed:
\* renew.rs fails on it, and the proposals that come after it are lost.
CarriesUpdate(g) == g.pc # NoCommit /\ \E q \in Queued(g.pc) : q.kind = "update"

\* "either local pending proposal not in the accepted commit" or, with a pending
\* commit, "its proposals" (decrypt.rs): an update that the client proposed is
\* not in its commit and is given up with it.
BesideCommit(g, p) == p.kind = "update" /\ g.pc # NoCommit /\ Queued(g.pc) # {}

\* "CoreCrypto will renew local proposal which could not make it in the commit"
\* (decrypt.rs): when a client that stays in the group merges somebody else's
\* commit, by decrypt_message or while replaying its buffer, each proposal at
\* stake has its effect in that commit or is pending again in the new epoch,
\* except in the two cases above.
LocalProposalsRenewed ==
  [][\A c \in Client :
       /\ mem[c].status = "operational" /\ mem'[c].status = "operational"
       /\ mem'[c].epoch = mem[c].epoch + 1
       /\ log[mem'[c].epoch].sender # c
       /\ ~CarriesUpdate(mem[c])
       => \A p \in {x \in AtStake(c, mem[c]) : ~BesideCommit(mem[c], x)} :
            \/ \E q \in Queued(log[mem'[c].epoch]) : q.kind = p.kind /\ q.who = p.who
            \/ \E q \in mem'[c].props :
                 q.kind = p.kind /\ q.who = p.who /\ q.sender = c]_vars

\* A commit that the DS accepted can be decrypted by every member still in its
\* epoch: each proposal it names by reference is in that member's store, or is
\* on its way there.  Otherwise decrypt_message refuses the commit for ever and
\* the member never leaves the epoch.
CommitsDecryptable ==
  \A d \in Client, e \in 1..Len(log) :
    /\ mem[d].status = "operational" /\ mem[d].epoch = e - 1
    /\ log[e].sender # d
    => \A p \in log[e].refs :
         \/ p \in mem[d].props
         \/ \E packet \in net : /\ packet.to = d
                                /\ packet.msg.kind = "proposal"
                                /\ packet.msg.prop = p
         \/ \E r \in buf[d] : r.msg.kind = "proposal" /\ r.msg.prop = p

\* "Contains buffered messages for next epoch which were received before the
\* commit creating the epoch" (decrypt.rs): once the client is in the epoch of
\* a buffered message and its call has returned, the message has been replayed.
BufferReplayed ==
  \A c \in Client : call[c] = Idle /\ mem[c].status = "operational"
    => \A r \in buf[c] : r.msg.epoch > mem[c].epoch

\* A buffered application message leaves the keystore only when the replay has
\* decrypted it and the call hands it to the application, or will do so as soon
\* as it has wiped the group.
BufferedReachesApp ==
  [][\A c \in Client : \A r \in buf[c] \ buf'[c] :
       r.msg.kind = "app" =>
         \/ got'[c][r.msg.id] > got[c][r.msg.id]
         \/ call'[c].op = "wipe" /\ r.msg.id \in call'[c].apps]_vars

\* Every client that stays a member reaches the last epoch the DS accepted.
Converges ==
  \A c \in Client :
    <>[](c \in Roster => mem[c].status = "operational" /\ mem[c].epoch = DsEpoch)

=============================================================================
