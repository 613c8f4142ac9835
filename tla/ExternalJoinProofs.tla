------------------------- MODULE ExternalJoinProofs -------------------------
(***************************************************************************)
(* Proofs about ExternalJoin, for any bounds and either kind of keystore:  *)
(* type correctness and JoinAgreement.                                     *)
(***************************************************************************)
EXTENDS ExternalJoin, TLAPS

-----------------------------------------------------------------------------
(* Facts about the operators of MlsGroup and MessageBuffer.                *)

\* NewGroup and NoGroup, the groups of create, of a Welcome and of a wipe, are
\* groups.
LEMMA NewGroupType ==
  ASSUME NEW e \in Nat, NEW t \in Nat, NEW ms \in SUBSET Client
  PROVE  /\ NewGroup(e, t, ms) \in Group
         /\ NoGroup \in Group
BY SMT DEF NewGroup, NoGroup, Group

\* merge_staged_commit turns a group and a commit into a group.
LEMMA MergeType ==
  ASSUME NEW c \in Client, NEW g \in Group, NEW cm \in Commit
  PROVE  Merge(c, g, cm) \in Group
<1>1. Added(cm) \subseteq Client
  BY DEF Added, Queued, Commit, Proposal
<1>2. MembersAfter(g.members, cm) \in SUBSET Client
  BY <1>1 DEF MembersAfter, Group
<1>3. cm.tag \in Nat
  BY DEF Commit
<1>4. (IF c \in Removed(cm) THEN "inactive" ELSE g.status)
        \in {"none", "operational", "inactive"}
  BY DEF Group
<1>5. ASSUME NEW st \in {"none", "operational", "inactive"}, NEW e \in Nat,
             NEW t \in Nat, NEW ms \in SUBSET Client
      PROVE  [g EXCEPT !.epoch = e, !.tag = t, !.members = ms, !.props = {},
                       !.pc = NoCommit, !.status = st] \in Group
  BY DEF Group
<1>6. g.epoch + 1 \in Nat
  BY DEF Group
<1>7. QED
  BY <1>2, <1>3, <1>4, <1>5, <1>6 DEF Merge

\* The keystore's save of a buffered message, on SQL and on WASM.
LEMMA SaveType ==
  ASSUME NEW b \in SUBSET Row, NEW m \in Message, NEW x \in Save(b, m)
  PROVE  x \in SUBSET Row
<1>1. ASSUME NEW n \in Nat
      PROVE  [n |-> n, msg |-> m] \in Row
  BY DEF Row
<1>2. FreeRows(b) \subseteq Nat
  BY BufferAssumption DEF FreeRows
<1>3. QED
  BY <1>1, <1>2 DEF Save

\* The first free rowid is not in use: a rowid identifies a buffered row.
LEMMA SaveUnique ==
  ASSUME NEW b \in SUBSET Row, NEW m \in Message, NEW x \in Save(b, m),
         \A r, q \in b : r.n = q.n => r = q
  PROVE  /\ \A r, q \in x : r.n = q.n => r = q
         /\ \A r \in x : r \in b \/ r.msg = m
<1>1. CASE Overwrite
  <2>1. x = {[n |-> 1, msg |-> m]}
    BY <1>1 DEF Save
  <2>2. QED
    BY <2>1
<1>2. CASE ~Overwrite
  <2>1. PICK n \in FreeRows(b) : x = b \cup {[n |-> n, msg |-> m]}
    BY <1>2 DEF Save
  <2>2. n \in Nat /\ \A r \in b : r.n < n
    BY BufferAssumption DEF FreeRows
  <2>3. \A r \in b : r.n \in Nat /\ r.n # n
    BY <2>2 DEF Row
  <2>4. QED
    BY <2>1, <2>3
<1>3. QED
  BY <1>1, <1>2

\* merge_staged_commit enters the epoch the commit creates, and the group stays
\* one the client has.
LEMMA MergeEpoch ==
  ASSUME NEW c \in Client, NEW g \in Group, NEW cm \in Commit
  PROVE  /\ Merge(c, g, cm).epoch = g.epoch + 1
         /\ Merge(c, g, cm).tag = cm.tag
         /\ Merge(c, g, cm).status = IF c \in Removed(cm) THEN "inactive" ELSE g.status
BY DEF Merge, Group

\* parse_message accepts a commit in its own epoch only.
LEMMA CommitParsedInEpoch ==
  ASSUME NEW g \in Group, NEW cm \in Commit, ParseMessage(g, cm) = "Ok"
  PROVE  cm.epoch = g.epoch /\ g.status = "operational"
BY DEF ParseMessage, ParseWrongEpoch, Commit

-----------------------------------------------------------------------------
(* The inductive invariant.  Its parts are about one variable and the log  *)
(* each, so that they can be carried over to a longer log.                 *)

\* The DS accepted this commit.
Accepted(l, cm) == cm.epoch < Len(l) /\ cm = l[cm.epoch + 1]

\* What the DS hands to the joiner for decrypt_message.
Sent(l, m) == m \in AppMsg \/ (m \in Commit /\ Accepted(l, m))

\* A Welcome into an epoch of the log.
Invites(l, w) == w \in Welcome /\ w.epoch \in 1..Len(l) /\ w.tag = l[w.epoch].tag

\* A group in an epoch of the log.
GroupOK(l, g) ==
  /\ g \in Group
  /\ g.status # "none" =>
       /\ g.epoch <= Len(l)
       /\ g.tag = (IF g.epoch = 0 THEN 0 ELSE l[g.epoch].tag)

BufferOK(l, b) ==
  /\ b \in SUBSET Row
  /\ \A r, q \in b : r.n = q.n => r = q
  /\ \A r \in b : Sent(l, r.msg)

CallOK(l, c) ==
  /\ c \in Call
  /\ GroupOK(l, c.g)
  /\ \A r \in c.todo : Sent(l, r.msg)
  /\ c.op = "decrypt" => c.outer \in Commit /\ Accepted(l, c.outer)

NetOK(l, n) == \A m \in n : Sent(l, m) \/ Invites(l, m)

\* The application posts the external commit of the pending group, if that is
\* still there, so a 200 that waits is one for the pending group.
PendingOK(l, p, j, po) ==
  /\ p \in Commit \cup {NoCommit}
  /\ j \in Commit \cup {NoCommit}
  /\ po \in {"idle", "ok"}
  /\ j # NoCommit => p \in {j, NoCommit}
  /\ po = "ok" /\ p # NoCommit => Accepted(l, p)

Counts == [tag : Nat, join : Nat, app : Nat, crash : Nat]

RestOK == /\ log \in Seq(Commit)
          /\ member \in BOOLEAN
          /\ got \in [1..AppBound -> Nat]
          /\ count \in Counts

IInv ==
  /\ RestOK
  /\ GroupOK(log, mem) /\ GroupOK(log, disk)
  /\ PendingOK(log, pending, joining, post)
  /\ BufferOK(log, buf)
  /\ CallOK(log, call)
  /\ NetOK(log, net)

-----------------------------------------------------------------------------
(* Building blocks.                                                        *)

\* What was accepted stays accepted, and the commit that is appended is too.
LEMMA LogGrows ==
  ASSUME NEW l \in Seq(Commit), NEW cm \in Commit, cm.epoch = Len(l)
  PROVE  LET k == Append(l, cm)
         IN  /\ k \in Seq(Commit) /\ Accepted(k, cm)
             /\ Len(k) = Len(l) + 1 /\ k[Len(l) + 1].tag = cm.tag
             /\ \A x \in Commit : Accepted(l, x) => Accepted(k, x)
             /\ \A m : Sent(l, m) => Sent(k, m)
             /\ \A w : Invites(l, w) => Invites(k, w)
             /\ \A g : GroupOK(l, g) => GroupOK(k, g)
<1> DEFINE k == Append(l, cm)
<1>1. k \in Seq(Commit) /\ Len(k) = Len(l) + 1 /\ k[Len(l) + 1] = cm /\ Len(l) \in Nat
  OBVIOUS
<1>2. \A i \in 1..Len(l) : k[i] = l[i]
  OBVIOUS
<1> HIDE DEF k
<1>3. Accepted(k, cm)
  BY <1>1 DEF Accepted
<1>4. ASSUME NEW x \in Commit, Accepted(l, x)
      PROVE  Accepted(k, x)
  <2>1. x.epoch \in Nat
    BY DEF Commit
  <2>2. x.epoch + 1 \in 1..Len(l) /\ x = l[x.epoch + 1]
    BY <1>1, <1>4, <2>1 DEF Accepted
  <2>3. QED
    BY <1>1, <1>2, <1>4, <2>1, <2>2 DEF Accepted
<1>5. \A m : Sent(l, m) => Sent(k, m)
  BY <1>4 DEF Sent
<1>6. \A w : Invites(l, w) => Invites(k, w)
  BY <1>1, <1>2 DEF Invites, Welcome
<1>7. ASSUME NEW g, GroupOK(l, g)
      PROVE  GroupOK(k, g)
  <2>1. g.epoch \in Nat
    BY <1>7 DEF GroupOK, Group
  <2>2. QED
    BY <1>1, <1>2, <1>7, <2>1 DEF GroupOK
<1>8. QED
  BY <1>1, <1>3, <1>4, <1>5, <1>6, <1>7 DEF k

\* The joiner's state survives a longer log.
LEMMA StateKept ==
  ASSUME IInv, NEW cm \in Commit, cm.epoch = Len(log)
  PROVE  LET k == Append(log, cm)
         IN  /\ GroupOK(k, mem) /\ GroupOK(k, disk)
             /\ PendingOK(k, pending, joining, post)
             /\ BufferOK(k, buf)
             /\ CallOK(k, call)
             /\ NetOK(k, net)
<1> DEFINE k == Append(log, cm)
<1>1. /\ \A x \in Commit : Accepted(log, x) => Accepted(k, x)
      /\ \A m : Sent(log, m) => Sent(k, m)
      /\ \A w : Invites(log, w) => Invites(k, w)
      /\ \A g : GroupOK(log, g) => GroupOK(k, g)
  BY LogGrows DEF IInv, RestOK
<1> HIDE DEF k
<1>2. PendingOK(k, pending, joining, post)
  BY <1>1 DEF IInv, PendingOK
<1>3. BufferOK(k, buf)
  BY <1>1 DEF IInv, BufferOK
<1>4. CallOK(k, call)
  BY <1>1 DEF IInv, CallOK
<1>5. NetOK(k, net)
  BY <1>1 DEF IInv, NetOK
<1>6. QED
  BY <1>1, <1>2, <1>3, <1>4, <1>5 DEF IInv, k

\* A group made from an accepted commit or from a Welcome is in the log.
LEMMA NewGroupOK ==
  ASSUME NEW l \in Seq(Commit), NEW e \in 1..Len(l), NEW ms \in SUBSET Client
  PROVE  GroupOK(l, NewGroup(e, l[e].tag, ms))
<1>e. Len(l) \in Nat /\ l[e] \in Commit
  OBVIOUS
<1>1. e \in Nat /\ e # 0 /\ e <= Len(l) /\ l[e].tag \in Nat
  BY <1>e DEF Commit
<1>2. NewGroup(e, l[e].tag, ms) \in Group
  BY <1>1, NewGroupType
<1>3. QED
  BY <1>1, <1>2 DEF GroupOK, NewGroup

\* No group, and no call, agree with any log.
LEMMA NoGroupOK ==
  ASSUME NEW l
  PROVE  GroupOK(l, NoGroup) /\ CallOK(l, Idle) /\ NoGroup.status = "none"
<1>1. NoGroup \in Group /\ NoGroup.status = "none"
  BY NewGroupType DEF NoGroup, NewGroup
<1>2. Idle \in Call
  BY <1>1 DEF Idle, Call
<1>3. QED
  BY <1>1, <1>2 DEF GroupOK, CallOK, Idle

\* Whatever decrypt_message accepts takes a group of the log to one of the log.
LEMMA DecryptedOK ==
  ASSUME NEW l \in Seq(Commit), NEW g, GroupOK(l, g), NEW m, Sent(l, m),
         ParseMessage(g, m) = "Ok"
  PROVE  GroupOK(l, Decrypted(g, m))
<1>1. CASE m \in AppMsg
  <2>1. m.kind = "app" /\ m.id \in Nat
    BY <1>1 DEF AppMsg
  <2>2. g \in Group
    BY DEF GroupOK
  <2>3. /\ [g EXCEPT !.used = @ \cup {m.id}] \in Group
        /\ [g EXCEPT !.used = @ \cup {m.id}].epoch = g.epoch
        /\ [g EXCEPT !.used = @ \cup {m.id}].tag = g.tag
        /\ [g EXCEPT !.used = @ \cup {m.id}].status = g.status
    BY <2>1, <2>2 DEF Group
  <2>4. QED
    BY <2>1, <2>3 DEF GroupOK, Decrypted
<1>2. CASE m \in Commit /\ Accepted(l, m)
  <2>1. m.kind = "commit" /\ m.epoch \in Nat
    BY <1>2 DEF Commit
  <2>2. g \in Group /\ g.epoch \in Nat
    BY DEF GroupOK, Group
  <2>3. m.epoch = g.epoch
    BY <1>2, <2>2, CommitParsedInEpoch
  <2>4. Joiner \in Client
    BY JoinAssumption
  <2>5. Merge(Joiner, g, m) \in Group
    BY <1>2, <2>2, <2>4, MergeType
  <2>6. Merge(Joiner, g, m).epoch = g.epoch + 1 /\ Merge(Joiner, g, m).tag = m.tag
    BY <1>2, <2>2, <2>4, MergeEpoch
  <2>7. g.epoch + 1 <= Len(l) /\ l[g.epoch + 1].tag = m.tag /\ g.epoch + 1 # 0
    BY <1>2, <2>1, <2>2, <2>3 DEF Accepted
  <2>8. Decrypted(g, m) = Merge(Joiner, g, m)
    BY <2>1 DEF Decrypted
  <2>9. QED
    BY <2>5, <2>6, <2>7, <2>8 DEF GroupOK
<1>3. QED
  BY <1>1, <1>2 DEF Sent

\* The save of a message of the DS.
LEMMA SavedOK ==
  ASSUME NEW l, NEW b, BufferOK(l, b), NEW m, Sent(l, m), NEW x \in Save(b, m)
  PROVE  BufferOK(l, x)
<1>1. m \in Message /\ b \in SUBSET Row
  BY DEF Sent, Message, BufferOK
<1>2. x \in SUBSET Row
  BY <1>1, SaveType
<1>3. (\A r, q \in x : r.n = q.n => r = q) /\ \A r \in x : r \in b \/ r.msg = m
  BY <1>1, SaveUnique DEF BufferOK
<1>4. QED
  BY <1>2, <1>3 DEF BufferOK

\* What the bounds count stays a number.
LEMMA CountOK ==
  ASSUME NEW k \in Counts
  PROVE  /\ [k EXCEPT !.tag = @ + 1] \in Counts
         /\ [k EXCEPT !.app = @ + 1] \in Counts
         /\ [k EXCEPT !.crash = @ + 1] \in Counts
         /\ [k EXCEPT !.join = @ + 1, !.tag = @ + 1] \in Counts
<1>1. k.tag + 1 \in Nat /\ k.join + 1 \in Nat /\ k.app + 1 \in Nat /\ k.crash + 1 \in Nat
  BY DEF Counts
<1>2. ASSUME NEW x \in Nat, NEW y \in Nat
      PROVE  /\ [k EXCEPT !.tag = x] \in Counts
             /\ [k EXCEPT !.app = x] \in Counts
             /\ [k EXCEPT !.crash = x] \in Counts
             /\ [k EXCEPT !.join = x, !.tag = y] \in Counts
  BY DEF Counts
<1>3. QED
  BY <1>1, <1>2

\* What a call returns is counted.
LEMMA ReturnOK ==
  ASSUME RestOK, NEW apps, Return(apps)
  PROVE  got' \in [1..AppBound -> Nat]
BY DEF RestOK, Return

\* The group of get_conversation.
LEMMA ConvOK ==
  ASSUME IInv
  PROVE  GroupOK(log, Conv)
BY NoGroupOK DEF IInv, Conv

\* A commit for the current epoch.
LEMMA NewCommitType ==
  ASSUME RestOK, NEW s \in Client, NEW inline \in SUBSET Proposal
  PROVE  NewCommit(s, inline) \in Commit /\ NewCommit(s, inline).epoch = Len(log)
<1>c. count \in Counts /\ log \in Seq(Commit)
  BY DEF RestOK
<1>1. count.tag + 1 \in Nat /\ Len(log) \in Nat
  BY <1>c DEF Counts
<1>2. QED
  BY <1>1 DEF NewCommit, Commit

\* Adding and removing the joiner are proposals.
LEMMA ProposalTypes ==
  {RemoveOfJoiner} \in SUBSET Proposal /\ {AddOfJoiner} \in SUBSET Proposal
BY JoinAssumption DEF RemoveOfJoiner, AddOfJoiner, Proposal

-----------------------------------------------------------------------------
(* Every step keeps the invariant.                                         *)

\* The initial states satisfy the invariant.
LEMMA InitInv == Init => IInv
<1> SUFFICES ASSUME Init PROVE IInv
  OBVIOUS
<1>1. RestOK
  BY DEF Init, RestOK, Counts
<1>2. Both \in SUBSET Client
  BY JoinAssumption DEF Both
<1>3. NewGroup(0, 0, Both) \in Group
  BY <1>2, NewGroupType
<1>4. log = << >> /\ Len(log) = 0
  BY DEF Init
<1>5. GroupOK(log, NewGroup(0, 0, Both))
  BY <1>3, <1>4 DEF GroupOK, NewGroup
<1>6. GroupOK(log, NoGroup) /\ CallOK(log, Idle)
  BY NoGroupOK
<1>7. QED
  BY <1>1, <1>5, <1>6 DEF Init, IInv, PendingOK, BufferOK, NetOK

\* The DS and the other members.
LEMMA OthersInv ==
  ASSUME IInv, MemberCommits \/ MemberSends
  PROVE  IInv'
<1> USE DEF IInv
<1>1. CASE MemberCommits
  <2>1. PICK inline \in {{}, {AddOfJoiner}} :
          LET cm == NewCommit(Other, inline)
              welcome == [kind |-> "welcome", epoch |-> cm.epoch + 1,
                          tag |-> cm.tag, members |-> Both]
          IN  /\ log' = Append(log, cm)
              /\ member' = (member \/ inline # {})
              /\ net' = net \cup (IF member THEN {cm} ELSE {})
                            \cup (IF inline # {} THEN {welcome} ELSE {})
    BY <1>1 DEF MemberCommits
  <2> DEFINE cm == NewCommit(Other, inline)
             w == [kind |-> "welcome", epoch |-> cm.epoch + 1,
                   tag |-> cm.tag, members |-> Both]
  <2>2. cm \in Commit /\ cm.epoch = Len(log)
    BY NewCommitType, ProposalTypes, JoinAssumption
  <2>3. /\ log' = Append(log, cm) /\ member' \in BOOLEAN
        /\ \A m \in net' : m \in net \/ m = cm \/ m = w
    BY <2>1
  <2> HIDE DEF cm
  <2>4. log \in Seq(Commit)
    BY DEF RestOK
  <2>5. /\ log' \in Seq(Commit) /\ Accepted(log', cm)
        /\ Len(log') = Len(log) + 1 /\ log'[Len(log) + 1].tag = cm.tag
    BY <2>2, <2>3, <2>4, LogGrows
  <2>6. /\ GroupOK(log', mem) /\ GroupOK(log', disk)
        /\ PendingOK(log', pending, joining, post)
        /\ BufferOK(log', buf) /\ CallOK(log', call) /\ NetOK(log', net)
    BY <2>2, <2>3, StateKept
  <2>7. Invites(log', w)
    <3>1. w \in Welcome
      BY <2>2, JoinAssumption DEF Both, Welcome, Commit
    <3>2. w.epoch = Len(log) + 1 /\ w.tag = cm.tag /\ Len(log) \in Nat
      BY <2>2, <2>4
    <3>3. QED
      BY <2>5, <3>1, <3>2 DEF Invites
  <2>8. Sent(log', cm)
    BY <2>2, <2>5 DEF Sent
  <2>9. NetOK(log', net')
    BY <2>3, <2>6, <2>7, <2>8 DEF NetOK
  <2>10. count' \in Counts /\ UNCHANGED joinerVars
    BY <1>1, CountOK DEF MemberCommits, RestOK
  <2>11. RestOK'
    BY <2>3, <2>5, <2>10 DEF RestOK, joinerVars
  <2> HIDE DEF w
  <2>12. QED
    BY <2>6, <2>9, <2>10, <2>11 DEF joinerVars
<1>2. CASE MemberSends
  <2> DEFINE m == [kind |-> "app", epoch |-> Len(log), sender |-> Other, id |-> count.app + 1]
  <2>1. /\ net' = net \cup {m} /\ UNCHANGED <<joinerVars, log, member>>
        /\ count' = [count EXCEPT !.app = @ + 1]
    BY <1>2 DEF MemberSends
  <2>2. count \in Counts /\ log \in Seq(Commit)
    BY DEF RestOK
  <2>3. count' \in Counts
    BY <2>1, <2>2, CountOK
  <2>c. count.app + 1 \in Nat /\ Len(log) \in Nat
    BY <2>2 DEF Counts
  <2>4. m \in AppMsg
    BY <2>c, JoinAssumption DEF AppMsg
  <2> HIDE DEF m
  <2>5. NetOK(log, net')
    BY <2>1, <2>4 DEF NetOK, Sent
  <2>6. QED
    BY <2>1, <2>3, <2>5 DEF RestOK, joinerVars
<1>3. QED
  BY <1>1, <1>2

\* Creating, posting and clearing the external commit.
LEMMA CommitInv ==
  ASSUME IInv, JoinByExternalCommit \/ PostJoin \/ ClearPendingGroup
  PROVE  IInv'
<1> USE DEF IInv
<1>1. CASE JoinByExternalCommit
  <2>1. PICK cm : /\ cm = NewCommit(Joiner, IF member THEN {RemoveOfJoiner} ELSE {})
                  /\ pending' = cm /\ joining' = cm
    BY <1>1 DEF JoinByExternalCommit, SavePending
  <2>2. cm \in Commit
    BY <2>1, NewCommitType, ProposalTypes, JoinAssumption
  <2>3. PendingOK(log, pending', joining', post)
    BY <1>1, <2>1, <2>2 DEF PendingOK, JoinByExternalCommit
  <2>4. count' \in Counts
    BY <1>1, CountOK DEF JoinByExternalCommit, RestOK
  <2>5. QED
    BY <1>1, <2>3, <2>4 DEF JoinByExternalCommit, RestOK
<1>2. CASE PostJoin
  <2>1. /\ joining \in Commit /\ joining.epoch = Len(log)
        /\ log' = Append(log, joining) /\ member' = TRUE
        /\ \A m \in net' : m \in net \/ m = joining
        /\ post' \in {"ok", "idle"}
        /\ UNCHANGED <<mem, disk, pending, joining, buf, call, got, count>>
    BY <1>2 DEF PostJoin, PendingOK
  <2>2. log' \in Seq(Commit) /\ Accepted(log', joining)
    BY <2>1, LogGrows DEF RestOK
  <2>3. /\ GroupOK(log', mem) /\ GroupOK(log', disk)
        /\ PendingOK(log', pending, joining, post)
        /\ BufferOK(log', buf) /\ CallOK(log', call) /\ NetOK(log', net)
    BY <2>1, StateKept
  <2>4. NetOK(log', net')
    BY <2>1, <2>2, <2>3 DEF NetOK, Sent
  <2>5. PendingOK(log', pending, joining, post')
    BY <2>1, <2>2, <2>3, NoCommitAssumption DEF PendingOK
  <2>6. RestOK'
    BY <2>1, <2>2 DEF RestOK
  <2>7. QED
    BY <2>1, <2>3, <2>4, <2>5, <2>6
<1>3. CASE ClearPendingGroup
  <2>1. PendingOK(log, pending', joining', post')
    BY <1>3 DEF ClearPendingGroup, PendingOK
  <2>2. QED
    BY <1>3, <2>1 DEF ClearPendingGroup, RestOK
<1>4. QED
  BY <1>1, <1>2, <1>3

\* merge_pending_group_from_external_commit.
LEMMA MergeInv ==
  ASSUME IInv, MergePendingGroup \/ DiscardBuffered \/ InsertMerged \/ FinishMerge
  PROVE  IInv'
<1> USE DEF IInv
<1>i. GroupOK(log, NoGroup) /\ CallOK(log, Idle)
  BY NoGroupOK
<1>1. CASE MergePendingGroup /\ pending = NoCommit
  <2>1. PendingOK(log, pending, joining, post')
    BY <1>1 DEF MergePendingGroup, PendingOK
  <2>2. QED
    BY <1>1, <2>1 DEF MergePendingGroup, RestOK
<1>2. CASE MergePendingGroup /\ pending # NoCommit
  <2> DEFINE g == NewGroup(pending.epoch + 1, pending.tag, Both)
  <2>1. /\ disk' = g
        /\ \/ call' = [Idle EXCEPT !.op = "merge", !.g = g, !.todo = buf]
           \/ call' = [Idle EXCEPT !.op = "rejoin", !.g = g]
        /\ UNCHANGED <<mem, pending, joining, buf, post, got, log, member, net, count>>
    BY <1>2 DEF MergePendingGroup
  <2>2. pending \in Commit /\ Accepted(log, pending) /\ log \in Seq(Commit)
    BY <1>2 DEF MergePendingGroup, PendingOK, RestOK
  <2>3. pending.epoch + 1 \in 1..Len(log) /\ log[pending.epoch + 1] = pending
    BY <2>2 DEF Accepted, Commit
  <2>4. Both \in SUBSET Client
    BY JoinAssumption DEF Both
  <2>5. GroupOK(log, g)
    BY <2>2, <2>3, <2>4, NewGroupOK
  <2> HIDE DEF g
  <2>6. /\ call' \in Call /\ call'.g = g /\ call'.op # "decrypt"
        /\ call'.todo \subseteq buf
    <3>1. g \in Group /\ buf \in SUBSET Row
      BY <2>5 DEF GroupOK, BufferOK
    <3>2. QED
      BY <2>1, <3>1, NewGroupType DEF Idle, Call
  <2>8. CallOK(log, call')
    BY <2>5, <2>6 DEF CallOK, BufferOK
  <2>9. QED
    BY <2>1, <2>5, <2>8 DEF RestOK
<1>3. CASE DiscardBuffered
  <2>1. call \in Call /\ call' = [call EXCEPT !.op = "merge"]
    BY <1>3 DEF DiscardBuffered, CallOK
  <2>2. /\ call' \in Call /\ call'.op = "merge"
        /\ call'.g = call.g /\ call'.todo = call.todo
    BY <2>1 DEF Call
  <2>3. CallOK(log, call')
    BY <2>2 DEF CallOK
  <2>4. BufferOK(log, buf')
    BY <1>3 DEF DiscardBuffered, BufferOK
  <2>5. QED
    BY <1>3, <2>3, <2>4 DEF DiscardBuffered, RestOK
<1>4. CASE InsertMerged
  <2>1. call \in Call /\ call' = [call EXCEPT !.op = "cleanup"] /\ GroupOK(log, call.g)
    BY <1>4 DEF InsertMerged, CallOK
  <2>2. /\ call' \in Call /\ call'.op = "cleanup"
        /\ call'.g = call.g /\ call'.todo = call.todo
    BY <2>1 DEF Call
  <2>3. CallOK(log, call')
    BY <2>2 DEF CallOK
  <2>4. PendingOK(log, pending', joining, post)
    BY <1>4 DEF InsertMerged, PendingOK
  <2>5. QED
    BY <1>4, <2>1, <2>3, <2>4 DEF InsertMerged, RestOK
<1>5. CASE FinishMerge
  <2>1. BufferOK(log, buf')
    BY <1>5 DEF FinishMerge, BufferOK
  <2>2. PendingOK(log, pending, joining', post')
    BY <1>5 DEF FinishMerge, PendingOK
  <2>3. got' \in [1..AppBound -> Nat]
    BY <1>5, ReturnOK DEF FinishMerge
  <2>4. QED
    BY <1>5, <1>i, <2>1, <2>2, <2>3 DEF FinishMerge, RestOK
<1>6. QED
  BY <1>1, <1>2, <1>3, <1>4, <1>5

\* decrypt_message and process_welcome_message.
LEMMA DecryptInv ==
  ASSUME IInv, Decrypt
  PROVE  IInv'
<1> USE DEF IInv
<1>1. PICK m \in net :
        \/ BufferWhilePending(m) \/ DecryptNotFound(m) \/ DecryptApp(m)
        \/ DecryptCommit(m) \/ DecryptFuture(m) \/ DecryptRejected(m)
        \/ ProcessWelcome(m)
  BY DEF Decrypt
<1>2. Receive(m)
  BY <1>1 DEF BufferWhilePending, DecryptNotFound, DecryptApp, DecryptCommit,
              DecryptFuture, DecryptRejected, ProcessWelcome
<1>3. /\ NetOK(log, net')
      /\ UNCHANGED <<pending, joining, post, log, member, count>>
      /\ log \in Seq(Commit)
  BY <1>2 DEF Receive, NetOK, RestOK
<1>4. (Sent(log, m) \/ Invites(log, m)) /\ (m.kind = "welcome" <=> Invites(log, m))
  BY DEF NetOK, Sent, Invites, AppMsg, Commit, Welcome
<1>5. GroupOK(log, Conv)
  BY ConvOK
<1>6. CASE BufferWhilePending(m) \/ DecryptFuture(m)
  <2>1. /\ buf' \in Save(buf, m) /\ m.kind # "welcome"
        /\ UNCHANGED <<mem, disk, call, got>>
    BY <1>6 DEF BufferWhilePending, DecryptFuture
  <2>2. BufferOK(log, buf')
    BY <1>4, <2>1, SavedOK
  <2>3. QED
    BY <1>3, <2>1, <2>2 DEF RestOK
<1>7. CASE DecryptNotFound(m) \/ DecryptRejected(m)
  <2>1. UNCHANGED <<mem, disk, buf, call, got>>
    BY <1>7 DEF DecryptNotFound, DecryptRejected
  <2>2. QED
    BY <1>3, <2>1 DEF RestOK
<1>8. CASE DecryptApp(m)
  <2>1. /\ m.kind = "app" /\ ParseMessage(Conv, m) = "Ok"
        /\ mem' = Decrypted(Conv, m) /\ disk' = mem'
        /\ Return({m.id}) /\ UNCHANGED <<buf, call>>
    BY <1>8 DEF DecryptApp
  <2>2. GroupOK(log, mem')
    BY <1>3, <1>4, <1>5, <2>1, DecryptedOK
  <2>3. got' \in [1..AppBound -> Nat]
    BY <2>1, ReturnOK
  <2>4. QED
    BY <1>3, <2>1, <2>2, <2>3 DEF RestOK
<1>9. CASE DecryptCommit(m)
  <2>1. /\ m.kind = "commit" /\ ParseMessage(Conv, m) = "Ok"
        /\ mem' = Decrypted(Conv, m)
        /\ call' = [op |-> "decrypt", g |-> mem', outer |-> m, todo |-> buf, apps |-> {}]
        /\ UNCHANGED <<disk, buf, got>>
    BY <1>9 DEF DecryptCommit
  <2>2. Sent(log, m)
    BY <1>4, <2>1
  <2>3. m \in Commit /\ Accepted(log, m)
    BY <2>1, <2>2 DEF Sent, AppMsg
  <2>4. GroupOK(log, mem')
    BY <1>3, <1>5, <2>1, <2>2, DecryptedOK
  <2>5. call' \in Call
    BY <2>1, <2>3, <2>4 DEF Call, GroupOK, BufferOK
  <2>6. CallOK(log, call')
    BY <2>1, <2>3, <2>4, <2>5 DEF CallOK, BufferOK
  <2>7. QED
    BY <1>3, <2>1, <2>4, <2>6 DEF RestOK
<1>10. CASE ProcessWelcome(m)
  <2>1. /\ m.kind = "welcome" /\ UNCHANGED <<buf, call, got>>
        /\ \/ UNCHANGED <<mem, disk>>
           \/ mem' = NewGroup(m.epoch, m.tag, m.members) /\ disk' = mem'
    BY <1>10 DEF ProcessWelcome
  <2>2. m.epoch \in 1..Len(log) /\ m.tag = log[m.epoch].tag /\ m.members \in SUBSET Client
    BY <1>4, <2>1 DEF Invites, Welcome
  <2>3. GroupOK(log, NewGroup(m.epoch, m.tag, m.members))
    BY <1>3, <2>2, NewGroupOK
  <2>4. QED
    BY <1>3, <2>1, <2>3 DEF RestOK
<1>11. QED
  BY <1>1, <1>6, <1>7, <1>8, <1>9, <1>10

\* The replay, the end of decrypt_message, and a crash.
LEMMA ReplayInv ==
  ASSUME IInv, RestoreMessage \/ RestoreFails \/ FinishDecrypt \/ WipeConversation \/ Crash
  PROVE  IInv'
<1> USE DEF IInv
<1>i. GroupOK(log, NoGroup) /\ CallOK(log, Idle)
  BY NoGroupOK
<1>c. /\ call \in Call /\ GroupOK(log, call.g) /\ log \in Seq(Commit)
      /\ \A r \in call.todo : Sent(log, r.msg)
  BY DEF CallOK, RestOK
<1>1. CASE RestoreMessage
  <2>1. PICK r \in call.todo :
          /\ ParseMessage(call.g, r.msg) = "Ok"
          /\ disk' = Decrypted(call.g, r.msg)
          /\ mem' = IF call.op = "decrypt" THEN disk' ELSE mem
          /\ call' = [call EXCEPT !.g = disk', !.todo = @ \ {r},
                                  !.apps = @ \cup (IF r.msg.kind = "app" THEN {r.msg.id} ELSE {})]
    BY <1>1 DEF RestoreMessage
  <2>2. GroupOK(log, disk')
    BY <1>c, <2>1, DecryptedOK
  <2> DEFINE ids == IF r.msg.kind = "app" THEN {r.msg.id} ELSE {}
  <2>3. ids \in SUBSET Nat
    BY <1>c DEF Sent, AppMsg, Commit
  <2>4. call' = [call EXCEPT !.g = disk', !.todo = @ \ {r}, !.apps = @ \cup ids]
    BY <2>1
  <2> HIDE DEF ids
  <2>5. /\ call' \in Call /\ call'.g = disk' /\ call'.todo = call.todo \ {r}
        /\ call'.op = call.op /\ call'.outer = call.outer
    <3>1. disk' \in Group
      BY <2>2 DEF GroupOK
    <3>2. call.todo \ {r} \in SUBSET Row /\ call.apps \cup ids \in SUBSET Nat
      BY <1>c, <2>3 DEF Call
    <3>3. QED
      BY <1>c, <2>4, <3>1, <3>2 DEF Call
  <2>6. CallOK(log, call')
    BY <2>2, <2>5 DEF CallOK
  <2>7. QED
    BY <1>1, <2>1, <2>2, <2>6 DEF RestoreMessage, RestOK
<1>2. CASE RestoreFails
  <2>1. buf' = buf \/ (call.op = "decrypt" /\ buf' \in Save(buf, call.outer))
    BY <1>2 DEF RestoreFails
  <2>2. call.op = "decrypt" => Sent(log, call.outer)
    BY DEF CallOK, Sent
  <2>3. BufferOK(log, buf')
    BY <2>1, <2>2, SavedOK
  <2>4. QED
    BY <1>2, <1>i, <2>3 DEF RestoreFails, RestOK
<1>3. CASE FinishDecrypt
  <2>1. BufferOK(log, buf')
    BY <1>3 DEF FinishDecrypt, BufferOK
  <2>2. got' \in [1..AppBound -> Nat]
    BY <1>3, ReturnOK DEF FinishDecrypt, RestOK
  <2>3. CallOK(log, [call EXCEPT !.op = "wipe"])
    <3>1. /\ [call EXCEPT !.op = "wipe"] \in Call
          /\ [call EXCEPT !.op = "wipe"].op = "wipe"
          /\ [call EXCEPT !.op = "wipe"].g = call.g
          /\ [call EXCEPT !.op = "wipe"].todo = call.todo
      BY <1>c DEF Call
    <3>2. QED
      BY <1>c, <3>1 DEF CallOK
  <2>4. CallOK(log, call')
    BY <1>3, <1>i, <2>3 DEF FinishDecrypt
  <2>5. QED
    BY <1>3, <1>c, <2>1, <2>2, <2>4 DEF FinishDecrypt, RestOK
<1>4. CASE WipeConversation
  <2>1. got' \in [1..AppBound -> Nat]
    BY <1>4, ReturnOK DEF WipeConversation
  <2>2. QED
    BY <1>4, <1>i, <2>1 DEF WipeConversation, RestOK
<1>5. CASE Crash
  <2>1. PendingOK(log, pending, joining', post)
    BY <1>5 DEF Crash, PendingOK
  <2>2. count' \in Counts
    BY <1>5, CountOK DEF Crash, RestOK
  <2>3. QED
    BY <1>5, <1>i, <2>1, <2>2 DEF Crash, RestOK
<1>6. QED
  BY <1>1, <1>2, <1>3, <1>4, <1>5

\* Every step keeps the invariant.
LEMMA StepInv == IInv /\ [Next]_vars => IInv'
<1> SUFFICES ASSUME IInv, [Next]_vars PROVE IInv'
  OBVIOUS
<1>1. CASE UNCHANGED vars
  BY <1>1 DEF vars, IInv, RestOK
<1>2. CASE Next
  BY <1>2, OthersInv, CommitInv, MergeInv, DecryptInv, ReplayInv DEF Next, Step
<1>3. QED
  BY <1>1, <1>2

\* The invariant holds in every reachable state.
LEMMA InvAlways == JoinSpec => []IInv
BY InitInv, StepInv, PTL DEF JoinSpec

-----------------------------------------------------------------------------
(* The theorems.                                                           *)

\* Type correctness: groups, pending groups, buffered rows (one row per rowid)
\* and the calls in progress keep their types in every step of
\* external_commit.rs and decrypt.rs, crashes included.
THEOREM JoinTypeCorrect == JoinSpec => []JoinTypeOK
<1>1. IInv => JoinTypeOK
  BY DEF IInv, JoinTypeOK, RestOK, GroupOK, PendingOK, BufferOK, CallOK, NetOK,
         Sent, Invites, Message, Counts
<1>2. QED
  BY <1>1, InvAlways, PTL

\* Whatever merge_pending_group_from_external_commit, process_welcome_message,
\* decrypt_message or a replay leaves in memory, in the keystore or in a call in
\* progress is a group of the DS's history: no pending group of an earlier
\* attempt and no crash puts the joiner on a fork.
THEOREM JoinerNeverForks == JoinSpec => []JoinAgreement
<1>1. IInv => JoinAgreement
  BY DEF IInv, JoinAgreement, GroupOK, CallOK
<1>2. QED
  BY <1>1, InvAlways, PTL

=============================================================================
