---------------------------- MODULE ExternalJoin ----------------------------
(***************************************************************************)
(* A client joins a conversation by an external commit, or rejoins one it  *)
(* is in.  join_by_external_commit keeps the new group in a row of its own *)
(* (mls_pending_groups) until the Delivery Service (DS) has accepted the   *)
(* commit; messages that arrive before that are buffered; and              *)
(* merge_pending_group_from_external_commit saves the group, replays the   *)
(* buffer, puts the group into the group store and deletes the pending row *)
(* and the buffered rows: separate keystore writes, with a crash possible  *)
(* between any two of them.                                                *)
(*                                                                         *)
(* The other members are one client that commits (also to add the joiner)  *)
(* and sends application messages.  The application of the joiner calls    *)
(* merge_pending_group_from_external_commit when it has a 200, again when  *)
(* the call fails, and remembers the 200 across a restart; on a 409 it     *)
(* joins again, clears the pending group or forgets about it.              *)
(***************************************************************************)
EXTENDS MessageBuffer, Sequences

CONSTANTS
  Joiner, Other,   \* the two clients
  EchoJoin,        \* TRUE: the DS sends the external commit to the joiner too
  EpochBound,      \* bound: commits the DS accepts
  JoinBound,       \* bound: external commits created
  AppBound,        \* bound: application messages the other members send
  CrashBound       \* bound: crashes

ASSUME JoinAssumption ==
  /\ Joiner \in Client /\ Other \in Client /\ Joiner # Other
  /\ EchoJoin \in BOOLEAN
  /\ {EpochBound, JoinBound, AppBound, CrashBound} \subseteq Nat

VARIABLES
  mem,      \* the group in the joiner's group store
  disk,     \* the row of mls_groups
  pending,  \* the row of mls_pending_groups: the external commit, or NoCommit
  joining,  \* the external commit the application holds and posts
  buf,      \* the rows of mls_pending_messages
  call,     \* the call in progress
  post,     \* "ok": a 200 for the pending external commit waits to be handled
  got,      \* got[i]: how often the application was given message i
  log,      \* the commits the DS accepted
  member,   \* the DS knows the joiner as a member
  net,      \* messages on their way to the joiner
  count     \* what the bounds count

joinerVars == <<mem, disk, pending, joining, buf, call, post, got>>
vars == <<mem, disk, pending, joining, buf, call, post, got,
          log, member, net, count>>

\* "merge" and "decrypt" replay the buffer, "rejoin" has to drop it first;
\* "cleanup" has rows to remove and "wipe" the group.  "g" is the group the call
\* works on, "outer" the commit that decrypt_message was given, "apps" what the
\* call will return.
Call == [op    : {"idle", "rejoin", "merge", "cleanup", "decrypt", "wipe"},
         g     : Group,
         outer : Commit \cup {NoCommit},
         todo  : SUBSET Row,
         apps  : SUBSET Nat]

Idle == [op |-> "idle", g |-> NoGroup, outer |-> NoCommit, todo |-> {}, apps |-> {}]

Both == {Joiner, Other}

\* The joiner may be in the group, to rejoin it.
Init ==
  /\ member \in BOOLEAN
  /\ mem = IF member THEN NewGroup(0, 0, Both) ELSE NoGroup
  /\ disk = mem
  /\ pending = NoCommit
  /\ joining = NoCommit
  /\ buf = {}
  /\ call = Idle
  /\ post = "idle"
  /\ got = [i \in 1..AppBound |-> 0]
  /\ log = << >>
  /\ net = {}
  /\ count = [tag |-> 0, join |-> 0, app |-> 0, crash |-> 0]

-----------------------------------------------------------------------------
(* The other members and the DS.                                           *)

NewCommit(sender, inline) ==
  [kind |-> "commit", epoch |-> Len(log), sender |-> sender,
   refs |-> {}, inline |-> inline, tag |-> count.tag + 1]

RemoveOfJoiner == [kind |-> "remove", sender |-> Joiner, who |-> Joiner, at |-> 0]

AddOfJoiner == [kind |-> "add", sender |-> Other, who |-> Joiner, at |-> 0]

\* A commit of another member; it may add the joiner, who gets a Welcome.
MemberCommits ==
  /\ Len(log) < EpochBound
  /\ \E inline \in {{}} \cup (IF member THEN {} ELSE {{AddOfJoiner}}) :
       LET cm == NewCommit(Other, inline)
           welcome == [kind |-> "welcome", epoch |-> cm.epoch + 1,
                       tag |-> cm.tag, members |-> Both]
       IN  /\ log' = Append(log, cm)
           /\ member' = (member \/ inline # {})
           /\ net' = net \cup (IF member THEN {cm} ELSE {})
                         \cup (IF inline # {} THEN {welcome} ELSE {})
  /\ count' = [count EXCEPT !.tag = @ + 1]
  /\ UNCHANGED joinerVars

MemberSends ==
  /\ member /\ count.app < AppBound
  /\ net' = net \cup {[kind |-> "app", epoch |-> Len(log), sender |-> Other,
                       id |-> count.app + 1]}
  /\ count' = [count EXCEPT !.app = @ + 1]
  /\ UNCHANGED <<joinerVars, log, member>>

-----------------------------------------------------------------------------
(* The external commit.                                                    *)

\* get_conversation: the group store, or else the keystore, where an inactive
\* group does not count.
Conv ==
  IF mem.status # "none" THEN mem
  ELSE IF disk.status = "operational" THEN disk ELSE NoGroup

\* What the application is given when a call returns.
Return(apps) == got' = [i \in DOMAIN got |-> IF i \in apps THEN got[i] + 1 ELSE got[i]]

\* Mutant of SavePending: a row that is there already is kept.
SavePendingOnce(row, cm) == IF row = NoCommit THEN cm ELSE row

\* mls_pending_groups_save replaces the row of an earlier attempt.
SavePending(row, cm) == cm

\* join_by_external_commit, with the GroupInfo of the DS's current epoch.  A
\* client that is in the group removes its old leaf.
JoinByExternalCommit ==
  /\ call = Idle /\ post = "idle"
  /\ count.join < JoinBound
  /\ LET cm == NewCommit(Joiner, IF member THEN {RemoveOfJoiner} ELSE {})
     IN  pending' = SavePending(pending, cm) /\ joining' = cm
  /\ count' = [count EXCEPT !.join = @ + 1, !.tag = @ + 1]
  /\ UNCHANGED <<mem, disk, buf, call, post, got, log, member, net>>

\* The application posts it and the DS accepts it; the reply may be lost.  A
\* commit for another epoch gets a 409 and nothing changes.
PostJoin ==
  /\ call = Idle /\ post = "idle"
  /\ joining # NoCommit /\ joining.epoch = Len(log) /\ Len(log) < EpochBound
  /\ log' = Append(log, joining)
  /\ member' = TRUE
  /\ net' = IF EchoJoin THEN net \cup {joining} ELSE net
  /\ post' \in {"ok", "idle"}
  /\ UNCHANGED <<mem, disk, pending, joining, buf, call, got, count>>

\* clear_pending_group_from_external_commit, to give up.
ClearPendingGroup ==
  /\ call = Idle /\ post = "idle" /\ pending # NoCommit
  /\ pending' = NoCommit /\ joining' = NoCommit
  /\ UNCHANGED <<mem, disk, buf, call, post, got, log, member, net, count>>

\* Mutant of MergePendingGroup: the call does not ask whether it is a rejoin.
MergeAlwaysReplays ==
  /\ call = Idle /\ post = "ok" /\ pending # NoCommit
  /\ disk' = NewGroup(pending.epoch + 1, pending.tag, Both)
  /\ call' = [Idle EXCEPT !.op = "merge", !.g = disk', !.todo = buf]
  /\ UNCHANGED <<mem, pending, joining, buf, post, got, log, member, net, count>>

\* merge_pending_group_from_external_commit up to the save of the group.  It
\* counts as a rejoin when the keystore already has the group.  Without a
\* pending group it fails: there is nothing left to do.
MergePendingGroup ==
  /\ call = Idle /\ post = "ok"
  /\ IF pending = NoCommit
     THEN post' = "idle" /\ UNCHANGED <<disk, call>>
     ELSE /\ disk' = NewGroup(pending.epoch + 1, pending.tag, Both)
          /\ call' = IF disk.status = "none"
                     THEN [Idle EXCEPT !.op = "merge", !.g = disk', !.todo = buf]
                     ELSE [Idle EXCEPT !.op = "rejoin", !.g = disk']
          /\ UNCHANGED post
  /\ UNCHANGED <<mem, pending, joining, buf, got, log, member, net, count>>

\* restore_pending_messages for a rejoin: the rows are removed unread.
DiscardBuffered ==
  /\ call.op = "rejoin"
  /\ buf' = {}
  /\ call' = [call EXCEPT !.op = "merge"]
  /\ UNCHANGED <<mem, disk, pending, joining, post, got, log, member, net, count>>

\* Everything is replayed: the group goes into the group store and the pending
\* row is deleted, ...
InsertMerged ==
  /\ call.op = "merge" /\ call.todo = {}
  /\ mem' = call.g
  /\ pending' = NoCommit
  /\ call' = [call EXCEPT !.op = "cleanup"]
  /\ UNCHANGED <<disk, joining, buf, post, got, log, member, net, count>>

\* ... then the buffered rows, and the call returns.
FinishMerge ==
  /\ call.op = "cleanup"
  /\ buf' = {}
  /\ Return(call.apps)
  /\ call' = Idle
  /\ post' = "idle" /\ joining' = NoCommit
  /\ UNCHANGED <<mem, disk, pending, log, member, net, count>>

-----------------------------------------------------------------------------
(* decrypt_message, as far as the joiner has nothing of its own to renew.  *)

Receive(m) ==
  /\ call = Idle
  /\ m \in net /\ net' = net \ {m}
  /\ UNCHANGED <<pending, joining, post, log, member, count>>

Decrypted(g, m) ==
  IF m.kind = "app" THEN [g EXCEPT !.used = @ \cup {m.id}] ELSE Merge(Joiner, g, m)

\* handle_when_group_is_pending: any message is buffered, whatever its epoch.
BufferWhilePending(m) ==
  /\ Receive(m)
  /\ m.kind # "welcome" /\ Conv = NoGroup /\ pending # NoCommit
  /\ buf' \in Save(buf, m)
  /\ UNCHANGED <<mem, disk, call, got>>

\* ConversationNotFound.  (Before its Welcome a message is left with the DS.)
DecryptNotFound(m) ==
  /\ Receive(m)
  /\ Conv = NoGroup /\ pending = NoCommit
  /\ \A w \in net : w.kind # "welcome"
  /\ UNCHANGED <<mem, disk, buf, call, got>>

DecryptApp(m) ==
  /\ Receive(m)
  /\ m.kind = "app" /\ Conv # NoGroup /\ ParseMessage(Conv, m) = "Ok"
  /\ mem' = Decrypted(Conv, m) /\ disk' = mem'
  /\ Return({m.id})
  /\ UNCHANGED <<buf, call>>

\* A commit, which for a group about to be replaced may be the client's own
\* external commit: merged in memory, and the buffer is replayed.
DecryptCommit(m) ==
  /\ Receive(m)
  /\ m.kind = "commit" /\ Conv # NoGroup /\ ParseMessage(Conv, m) = "Ok"
  /\ mem' = Decrypted(Conv, m)
  /\ call' = [op |-> "decrypt", g |-> mem', outer |-> m, todo |-> buf, apps |-> {}]
  /\ UNCHANGED <<disk, buf, got>>

DecryptFuture(m) ==
  /\ Receive(m)
  /\ m.kind # "welcome" /\ Conv # NoGroup
  /\ ParseMessage(Conv, m) = "BufferedFutureMessage"
  /\ buf' \in Save(buf, m)
  /\ UNCHANGED <<mem, disk, call, got>>

DecryptRejected(m) ==
  /\ Receive(m)
  /\ m.kind # "welcome" /\ Conv # NoGroup
  /\ ParseMessage(Conv, m) \in {"DuplicateMessage", "Stale", "UseAfterEviction"}
  /\ UNCHANGED <<mem, disk, buf, call, got>>

\* process_welcome_message: ConversationAlreadyExists when there is a group or
\* a pending group.
WelcomeRefused == Conv # NoGroup \/ pending # NoCommit

ProcessWelcome(w) ==
  /\ Receive(w)
  /\ w.kind = "welcome"
  /\ IF WelcomeRefused THEN UNCHANGED <<mem, disk>>
     ELSE mem' = NewGroup(w.epoch, w.tag, w.members) /\ disk' = mem'
  /\ UNCHANGED <<buf, call, got>>

-----------------------------------------------------------------------------
(* The replay, for merge_pending_group_from_external_commit (the group is  *)
(* not in the group store yet) and for decrypt_message (it is).            *)

Replaying == call.op \in {"merge", "decrypt"}

RestoreMessage ==
  /\ Replaying
  /\ \E r \in call.todo :
       /\ IsNext(r, call.todo)
       /\ ParseMessage(call.g, r.msg) = "Ok"
       /\ disk' = Decrypted(call.g, r.msg)
       /\ mem' = IF call.op = "decrypt" THEN disk' ELSE mem
       /\ call' = [call EXCEPT !.g = disk', !.todo = @ \ {r},
                               !.apps = @ \cup (IF r.msg.kind = "app" THEN {r.msg.id} ELSE {})]
  /\ UNCHANGED <<pending, joining, buf, post, got, log, member, net, count>>

\* A row cannot be decrypted: the call fails, the rows and a pending group stay.
\* decrypt_message takes the error of a row that is still too early for one
\* about the commit it was given, and buffers that commit.
RestoreFails ==
  /\ Replaying
  /\ \E r \in call.todo :
       /\ IsNext(r, call.todo)
       /\ ParseMessage(call.g, r.msg) # "Ok"
       /\ IF ParseMessage(call.g, r.msg) = "BufferedFutureMessage" /\ call.op = "decrypt"
          THEN buf' \in Save(buf, call.outer)
          ELSE UNCHANGED buf
  /\ call' = Idle
  /\ UNCHANGED <<mem, disk, pending, joining, post, got, log, member, net, count>>

FinishDecrypt ==
  /\ call.op = "decrypt" /\ call.todo = {}
  /\ buf' = {} /\ disk' = call.g
  /\ IF call.g.status = "inactive"
     THEN call' = [call EXCEPT !.op = "wipe"] /\ UNCHANGED got
     ELSE call' = Idle /\ Return(call.apps)
  /\ UNCHANGED <<mem, pending, joining, post, log, member, net, count>>

WipeConversation ==
  /\ call.op = "wipe"
  /\ mem' = NoGroup /\ disk' = NoGroup
  /\ call' = Idle /\ Return(call.apps)
  /\ UNCHANGED <<pending, joining, buf, post, log, member, net, count>>

\* A crash and a restart; the application has stored the 200.
Crash ==
  /\ count.crash < CrashBound
  /\ count' = [count EXCEPT !.crash = @ + 1]
  /\ mem' = disk /\ call' = Idle /\ joining' = NoCommit
  /\ UNCHANGED <<disk, pending, buf, post, got, log, member, net>>

-----------------------------------------------------------------------------
Step == DiscardBuffered \/ InsertMerged \/ FinishMerge \/ RestoreMessage
        \/ RestoreFails \/ FinishDecrypt \/ WipeConversation

Decrypt ==
  \E m \in net :
    \/ BufferWhilePending(m)
    \/ DecryptNotFound(m)
    \/ DecryptApp(m)
    \/ DecryptCommit(m)
    \/ DecryptFuture(m)
    \/ DecryptRejected(m)
    \/ ProcessWelcome(m)

Next ==
  \/ MemberCommits \/ MemberSends
  \/ JoinByExternalCommit \/ PostJoin \/ ClearPendingGroup \/ MergePendingGroup
  \/ Step \/ Decrypt \/ Crash

JoinSpec == Init /\ [][Next]_vars

\* A call runs to its end, and the application handles a 200.
FairJoinSpec == JoinSpec /\ WF_vars(Step) /\ WF_vars(MergePendingGroup)

-----------------------------------------------------------------------------
(* Properties.                                                             *)

\* Every variable keeps its type, and a rowid identifies a buffered row.
JoinTypeOK ==
  /\ {mem, disk} \subseteq Group
  /\ {pending, joining} \subseteq Commit \cup {NoCommit}
  /\ buf \in SUBSET Row
  /\ \A r, q \in buf : r.n = q.n => r = q
  /\ call \in Call
  /\ post \in {"idle", "ok"}
  /\ got \in [1..AppBound -> Nat]
  /\ log \in Seq(Commit)
  /\ member \in BOOLEAN
  /\ net \in SUBSET (Message \cup Welcome)
  /\ count \in [tag : Nat, join : Nat, app : Nat, crash : Nat]

\* Whatever the joiner merges, from its pending group (also one that an earlier
\* attempt, a failed call or a crash left behind), from a Welcome, from a commit
\* or while replaying, is an epoch of the DS's history.
JoinAgreement ==
  \A g \in {mem, disk, call.g} :
    g.status # "none" =>
      /\ g.epoch <= Len(log)
      /\ g.tag = (IF g.epoch = 0 THEN 0 ELSE log[g.epoch].tag)

\* An accepted external commit is merged in the end: however often a replay
\* fails or the client crashes, calling merge_pending_group_from_external_commit
\* again gets through.
MergeCompletes == post = "ok" ~> post = "idle"

=============================================================================
