--------------------------- MODULE BindingsProofs ---------------------------
(***************************************************************************)
(* Theorems about Bindings, for any exports, any number of tasks, calls    *)
(* and error codes, and for both platforms.                                *)
(***************************************************************************)
EXTENDS Bindings, TLAPS

Phases == {"locking", "running", "asking", "answered", "storing", "resetting"}

Codes == 0 .. MaxCode

CallRecord ==
    [op : Ops, parent : Tasks \cup {None}, taken : Nat, phase : Phases, asked : Nat,
     code : Codes]

\* The types of the variables; unlike BindingsTypeOK it says what a call is.
Typed ==
    /\ handle \in {"open", "gone"}
    /\ central \in {"open", "closed", "wiped", "dropped"}
    /\ call \in [Tasks -> CallRecord \cup {None}]
    /\ code \in 0 .. MaxCode
    /\ made \in 0 .. MaxCalls

\* A call holds no more locks than it asks for.
LocksTaken ==
    \A t \in InProgress : call[t].taken <= Len(LocksOf(call[t].op))

\* A new call cannot find a central that is not open.
HandleOpen == handle = "open" => central = "open"

CentralInv == Typed /\ HandleOpen /\ NoUseAfterClose

-----------------------------------------------------------------------------
(* Types.                                                                  *)

\* An export takes a number of locks.
LEMMA LocksLen == \A op : Len(LocksOf(op)) \in Nat
  BY DEF LocksOf

\* Setting a field of a call leaves a call with the other fields as they were.
LEMMA SetPhase ==
  ASSUME NEW c \in CallRecord, NEW v \in Phases
  PROVE  /\ [c EXCEPT !.phase = v] \in CallRecord
         /\ [c EXCEPT !.phase = v].op = c.op
         /\ [c EXCEPT !.phase = v].taken = c.taken
         /\ [c EXCEPT !.phase = v].code = c.code
         /\ [c EXCEPT !.phase = v].phase = v
BY DEF CallRecord

\* The same for the number of locks taken.
LEMMA SetTaken ==
  ASSUME NEW c \in CallRecord, NEW v \in Nat
  PROVE  /\ [c EXCEPT !.taken = v] \in CallRecord
         /\ [c EXCEPT !.taken = v].op = c.op
         /\ [c EXCEPT !.taken = v].phase = c.phase
         /\ [c EXCEPT !.taken = v].code = c.code
         /\ [c EXCEPT !.taken = v].taken = v
BY DEF CallRecord

\* The same for the number of questions asked.
LEMMA SetAsked ==
  ASSUME NEW c \in CallRecord, NEW v \in Nat
  PROVE  /\ [c EXCEPT !.asked = v] \in CallRecord
         /\ [c EXCEPT !.asked = v].op = c.op
         /\ [c EXCEPT !.asked = v].taken = c.taken
         /\ [c EXCEPT !.asked = v].phase = c.phase
         /\ [c EXCEPT !.asked = v].code = c.code
BY DEF CallRecord

\* The same for the error code.
LEMMA SetCode ==
  ASSUME NEW c \in CallRecord, NEW v \in Codes
  PROVE  /\ [c EXCEPT !.code = v] \in CallRecord
         /\ [c EXCEPT !.code = v].op = c.op
         /\ [c EXCEPT !.code = v].taken = c.taken
         /\ [c EXCEPT !.code = v].phase = c.phase
         /\ [c EXCEPT !.code = v].code = v
BY DEF CallRecord

\* The calls that TakeLock, Ask, Fail and TakeCode leave.
LEMMA Locked ==
  ASSUME NEW c \in CallRecord, NEW p \in Phases
  PROVE  LET r == [c EXCEPT !.taken = @ + 1, !.phase = p]
         IN  r \in CallRecord /\ r.op = c.op /\ r.taken = c.taken + 1 /\ r.phase = p
<1> DEFINE d == [c EXCEPT !.taken = c.taken + 1]
<1>1. c.taken + 1 \in Nat
  BY DEF CallRecord
<1>2. d \in CallRecord /\ d.op = c.op /\ d.taken = c.taken + 1
  BY <1>1, SetTaken
<1>3. [c EXCEPT !.taken = @ + 1, !.phase = p] = [d EXCEPT !.phase = p]
  OBVIOUS
<1> HIDE DEF d
<1> QED BY <1>2, <1>3, SetPhase

\* A call that asks the application is a call.
LEMMA Asked ==
  ASSUME NEW c \in CallRecord, NEW p \in Phases
  PROVE  LET r == [c EXCEPT !.phase = p, !.asked = @ + 1]
         IN  r \in CallRecord /\ r.op = c.op /\ r.taken = c.taken /\ r.phase = p
<1> DEFINE d == [c EXCEPT !.phase = p]
<1>1. c.asked + 1 \in Nat
  BY DEF CallRecord
<1>2. d \in CallRecord /\ d.op = c.op /\ d.taken = c.taken /\ d.phase = p
  BY SetPhase
<1>3. [c EXCEPT !.phase = p, !.asked = @ + 1] = [d EXCEPT !.asked = c.asked + 1]
  OBVIOUS
<1> HIDE DEF d
<1> QED BY <1>1, <1>2, <1>3, SetAsked

FailedCall(c, k) == [c EXCEPT !.phase = "storing", !.taken = 0, !.code = k]

\* A call that fails is a call, without its locks.
LEMMA Failed ==
  ASSUME NEW c \in CallRecord, NEW k \in Codes
  PROVE  LET r == FailedCall(c, k)
         IN  r \in CallRecord /\ r.op = c.op /\ r.taken = 0 /\ r.phase = "storing"
<1> DEFINE d == [c EXCEPT !.phase = "storing"]
           e == [d EXCEPT !.taken = 0]
<1>1. d \in CallRecord /\ d.op = c.op /\ d.phase = "storing"
  BY SetPhase DEF Phases
<1>2. FailedCall(c, k) = [e EXCEPT !.code = k]
  BY DEF FailedCall
<1> HIDE DEF d
<1>3. e \in CallRecord /\ e.op = d.op /\ e.phase = d.phase /\ e.taken = 0
  BY <1>1, SetTaken
<1> HIDE DEF e
<1> QED BY <1>1, <1>2, <1>3, SetCode

ReadCall(c, k) == [c EXCEPT !.code = k, !.phase = "resetting"]

\* A call that has read the error code is a call.
LEMMA Read ==
  ASSUME NEW c \in CallRecord, NEW k \in Codes
  PROVE  LET r == ReadCall(c, k)
         IN  /\ r \in CallRecord /\ r.op = c.op /\ r.taken = c.taken
             /\ r.phase = "resetting" /\ r.code = k
<1> DEFINE d == [c EXCEPT !.code = k]
<1>1. d \in CallRecord /\ d.op = c.op /\ d.taken = c.taken /\ d.code = k
  BY SetCode
<1>2. ReadCall(c, k) = [d EXCEPT !.phase = "resetting"]
  BY DEF ReadCall
<1>3. "resetting" \in Phases
  BY DEF Phases
<1> HIDE DEF d
<1>4. [d EXCEPT !.phase = "resetting"] \in CallRecord
  BY <1>1, <1>3, SetPhase
<1>5. /\ [d EXCEPT !.phase = "resetting"].op = d.op
      /\ [d EXCEPT !.phase = "resetting"].taken = d.taken
      /\ [d EXCEPT !.phase = "resetting"].code = d.code
      /\ [d EXCEPT !.phase = "resetting"].phase = "resetting"
  BY <1>1, <1>3, SetPhase
<1> QED BY <1>1, <1>2, <1>4, <1>5

\* The initial states are typed.
LEMMA InitTyped == BindingsInit => Typed /\ LocksTaken
  BY BindingsAssumption DEF BindingsInit, Typed, LocksTaken, InProgress

\* Every step keeps the types and the number of locks.
LEMMA StepTyped ==
  ASSUME Typed, LocksTaken, [BindingsNext]_bindingVars
  PROVE  Typed' /\ LocksTaken'
<1> USE BindingsAssumption
<1>1. CASE UNCHANGED bindingVars
  BY <1>1 DEF bindingVars, Typed, LocksTaken, InProgress
<1>2. ASSUME NEW t \in Tasks, NEW op \in Ops, NEW parent \in Tasks \cup {None}, Call(t, op, parent)
      PROVE  Typed' /\ LocksTaken'
  <2> DEFINE new == [op |-> op, parent |-> parent, taken |-> 0, phase |-> "locking", asked |-> 0, code |-> 0]
  <2>1. new \in CallRecord
    BY DEF CallRecord, Phases, Codes
  <2>2. call' = [call EXCEPT ![t] = new]
    BY <1>2 DEF Call
  <2>3. Typed'
    BY <1>2, <2>1, <2>2 DEF Call, Typed
  <2>4. \A u \in Tasks : u # t => call'[u] = call[u]
    BY <2>2 DEF Typed
  <2>5. call'[t].taken = 0
    BY <2>2 DEF Typed
  <2>6. LocksTaken'
    BY <2>4, <2>5, LocksLen DEF LocksTaken, InProgress
  <2> QED BY <2>3, <2>6
<1>3. ASSUME NEW t \in Tasks, Step(t)
      PROVE  Typed' /\ LocksTaken'
  <2>1. t \in InProgress /\ call[t] \in CallRecord
    BY <1>3 DEF Step, TakeLock, Ask, Answer, Return, Fail, StoreCode, TakeCode, ResetCode, InProgress, Typed
  <2>2. ASSUME NEW r \in CallRecord \cup {None}, call' = [call EXCEPT ![t] = r],
               r # None => r \in CallRecord /\ r.taken <= Len(LocksOf(r.op))
        PROVE  call' \in [Tasks -> CallRecord \cup {None}] /\ LocksTaken'
    <3>1. call' \in [Tasks -> CallRecord \cup {None}]
      BY <2>2 DEF Typed
    <3>2. call'[t] = r /\ \A u \in Tasks : u # t => call'[u] = call[u]
      BY <2>2 DEF Typed
    <3> QED BY <2>2, <3>1, <3>2 DEF LocksTaken, InProgress
  <2>3. CASE TakeLock(t)
    <3> DEFINE r == [call[t] EXCEPT !.taken = @ + 1,
                       !.phase = IF call[t].taken + 1 = Len(LocksOf(call[t].op)) THEN "running" ELSE "locking"]
    <3>1. r \in CallRecord /\ r.op = call[t].op /\ r.taken = call[t].taken + 1
      <4> DEFINE p == IF call[t].taken + 1 = Len(LocksOf(call[t].op)) THEN "running" ELSE "locking"
      <4>1. p \in Phases
        BY DEF Phases
      <4>2. r = [call[t] EXCEPT !.taken = @ + 1, !.phase = p]
        OBVIOUS
      <4> HIDE DEF p, r
      <4> QED BY <2>1, <4>1, <4>2, Locked
    <3>2. r.taken <= Len(LocksOf(r.op))
      <4>1. call[t].taken \in Nat /\ call[t].taken < Len(LocksOf(call[t].op))
        BY <2>1, <2>3 DEF TakeLock, CallRecord
      <4> HIDE DEF r
      <4> QED BY <3>1, <4>1, LocksLen
    <3>3. call' = [call EXCEPT ![t] = r]
      BY <2>3 DEF TakeLock
    <3> HIDE DEF r
    <3> QED BY <2>2, <2>3, <3>1, <3>2, <3>3 DEF TakeLock, Typed
  <2>4. CASE Ask(t)
    <3> DEFINE r == [call[t] EXCEPT !.phase = "asking", !.asked = @ + 1]
    <3>1. r \in CallRecord /\ r.op = call[t].op /\ r.taken = call[t].taken
      BY <2>1, Asked DEF Phases
    <3>3. call' = [call EXCEPT ![t] = r]
      BY <2>4 DEF Ask
    <3> HIDE DEF r
    <3> QED BY <2>1, <2>2, <2>4, <3>1, <3>3 DEF Ask, Typed, LocksTaken
  <2>5. CASE Answer(t)
    <3> DEFINE r == [call[t] EXCEPT !.phase = "answered"]
    <3>1. r \in CallRecord /\ r.op = call[t].op /\ r.taken = call[t].taken
      BY <2>1 DEF CallRecord, Phases
    <3>3. call' = [call EXCEPT ![t] = r]
      BY <2>5 DEF Answer, Goto
    <3> HIDE DEF r
    <3> QED BY <2>1, <2>2, <2>5, <3>1, <3>3 DEF Answer, Typed, LocksTaken
  <2>6. CASE Return(t)
    BY <2>2, <2>6 DEF Return, CentralAfter, Typed
  <2>7. ASSUME NEW c \in 1 .. MaxCode, Fail(t, c) PROVE Typed' /\ LocksTaken'
    <3> DEFINE r == FailedCall(call[t], c)
    <3>1. r \in CallRecord /\ r.taken = 0
      BY <2>1, Failed DEF Codes
    <3>2. r.taken <= Len(LocksOf(r.op))
      BY <3>1, LocksLen
    <3>3. call' = [call EXCEPT ![t] = r]
      BY <2>7 DEF Fail, FailedCall
    <3> HIDE DEF r
    <3> QED BY <2>2, <2>7, <3>1, <3>2, <3>3 DEF Fail, Typed
  <2>8. CASE StoreCode(t)
    <3>1. call[t].code \in 0 .. MaxCode
      BY <2>1 DEF CallRecord, Codes
    <3> QED BY <2>2, <2>8, <3>1 DEF StoreCode, StoredCode, CentralAfter, Typed
  <2>9. CASE TakeCode(t)
    <3>1. CASE Platform = "generic"
      BY <2>2, <2>9, <3>1 DEF TakeCode, Typed
    <3>2. CASE Platform # "generic"
      <4> DEFINE r == ReadCall(call[t], code)
      <4>1. r \in CallRecord /\ r.op = call[t].op /\ r.taken = call[t].taken
        BY <2>1, Read DEF Codes, Typed
      <4>3. call' = [call EXCEPT ![t] = r]
        BY <2>9, <3>2 DEF TakeCode, ReadCall
      <4> HIDE DEF r
      <4> QED BY <2>1, <2>2, <2>9, <3>2, <4>1, <4>3 DEF TakeCode, Typed, LocksTaken
    <3> QED BY <3>1, <3>2
  <2>10. CASE ResetCode(t)
    <3>1. code' \in 0 .. MaxCode
      BY <2>10 DEF ResetCode
    <3>2. call' \in [Tasks -> CallRecord \cup {None}] /\ LocksTaken'
      BY <2>2, <2>10 DEF ResetCode
    <3> QED BY <2>10, <3>1, <3>2 DEF ResetCode, Typed
  <2> QED BY <1>3, <2>3, <2>4, <2>5, <2>6, <2>7, <2>8, <2>9, <2>10 DEF Step
<1>4. ASSUME NEW how \in {"closed", "wiped"}, NEW kept \in BOOLEAN, Close(how, kept)
      PROVE  Typed' /\ LocksTaken'
  BY <1>4 DEF Close, Closed, Typed, LocksTaken, InProgress
<1> QED BY <1>1, <1>2, <1>3, <1>4 DEF BindingsNext

\* Every call in progress is one of an export of the bindings, holds no more
\* locks than the export takes, and the error code is one of the codes: for all
\* tasks, calls and exports.
THEOREM BindingsTypeCorrect == BindingsSpec => []BindingsTypeOK
<1>1. BindingsInit => Typed /\ LocksTaken
  BY InitTyped
<1>2. Typed /\ LocksTaken /\ [BindingsNext]_bindingVars => (Typed /\ LocksTaken)'
  BY StepTyped
<1>3. Typed /\ LocksTaken => BindingsTypeOK
  <2> SUFFICES ASSUME Typed, LocksTaken PROVE BindingsTypeOK
    OBVIOUS
  <2>1. ASSUME NEW t \in InProgress
        PROVE  /\ call[t].op \in Ops \cap (CentralCalls \cup EnrollmentCalls \cup {"proteus_last_error_code"})
               /\ call[t].taken \in 0 .. Len(LocksOf(call[t].op))
    <3>1. call[t] \in CallRecord
      BY DEF InProgress, Typed
    <3>2. call[t].op \in Ops /\ call[t].taken \in Nat
      BY <3>1 DEF CallRecord
    <3>3. call[t].taken <= Len(LocksOf(call[t].op))
      BY DEF LocksTaken
    <3> QED BY <3>2, <3>3, OpsAssumption, LocksLen
  <2> QED BY <2>1 DEF Typed, BindingsTypeOK
<1> QED BY <1>1, <1>2, <1>3, PTL DEF BindingsSpec

-----------------------------------------------------------------------------
(* What a step of a call does to the calls.                                *)

\* What any step of a call does: it changes its own call only, and leaves the handle alone.
LEMMA StepShape ==
  ASSUME Typed, NEW t \in Tasks, Step(t)
  PROVE  /\ t \in InProgress /\ call[t] \in CallRecord /\ handle' = handle
         /\ \A u \in Tasks : u # t => call'[u] = call[u]
         /\ \/ call'[t] = None
            \/ /\ call'[t].op = call[t].op
               /\ central' = central
<1>1. t \in InProgress /\ call[t] \in CallRecord
  BY DEF Step, TakeLock, Ask, Answer, Return, Fail, StoreCode, TakeCode, ResetCode, InProgress, Typed
<1>2. handle' = handle
  BY DEF Step, TakeLock, Ask, Answer, Return, Fail, StoreCode, TakeCode, ResetCode
<1>3. ASSUME NEW r, call' = [call EXCEPT ![t] = r]
      PROVE  call'[t] = r /\ \A u \in Tasks : u # t => call'[u] = call[u]
  BY <1>3 DEF Typed
<1>4. CASE TakeLock(t)
  <2> DEFINE p == IF call[t].taken + 1 = Len(LocksOf(call[t].op)) THEN "running" ELSE "locking"
             r == [call[t] EXCEPT !.taken = @ + 1, !.phase = p]
  <2>1. p \in Phases /\ p \notin {"storing", "resetting"}
    BY DEF Phases
  <2>2. call' = [call EXCEPT ![t] = r]
    BY <1>4 DEF TakeLock
  <2>3. central' = central
    BY <1>4 DEF TakeLock
  <2> HIDE DEF p
  <2>4. r.op = call[t].op /\ r.phase = p
    BY <1>1, <2>1, Locked
  <2> HIDE DEF r
  <2> QED BY <1>1, <1>2, <1>3, <2>1, <2>2, <2>3, <2>4
<1>5. CASE Ask(t)
  <2> DEFINE r == [call[t] EXCEPT !.phase = "asking", !.asked = @ + 1]
  <2>1. call' = [call EXCEPT ![t] = r]
    BY <1>5 DEF Ask
  <2>2. central' = central
    BY <1>5 DEF Ask
  <2>3. r.op = call[t].op /\ r.phase = "asking"
    BY <1>1, Asked DEF Phases
  <2> HIDE DEF r
  <2> QED BY <1>1, <1>2, <1>3, <2>1, <2>2, <2>3
<1>6. CASE Answer(t)
  <2> DEFINE r == [call[t] EXCEPT !.phase = "answered"]
  <2>1. call' = [call EXCEPT ![t] = r]
    BY <1>6 DEF Answer, Goto
  <2>2. central' = central
    BY <1>6 DEF Answer
  <2>3. r.op = call[t].op /\ r.phase = "answered"
    BY <1>1, SetPhase DEF Phases
  <2> HIDE DEF r
  <2> QED BY <1>1, <1>2, <1>3, <2>1, <2>2, <2>3
<1>7. ASSUME NEW c \in 1 .. MaxCode, Fail(t, c)
      PROVE  /\ \A u \in Tasks : u # t => call'[u] = call[u]
             /\ call'[t].op = call[t].op
             /\ central' = central
  <2> DEFINE r == FailedCall(call[t], c)
  <2>1. call' = [call EXCEPT ![t] = r]
    BY <1>7 DEF Fail, FailedCall
  <2>2. call[t].op \in ProteusCalls /\ central' = central
    BY <1>7 DEF Fail
  <2>3. r.op = call[t].op /\ r.phase = "storing"
    BY <1>1, BindingsAssumption, Failed DEF Codes
  <2> HIDE DEF r
  <2> QED BY <1>3, <2>1, <2>2, <2>3
<1>8. CASE TakeCode(t) /\ Platform # "generic"
  <2> DEFINE r == ReadCall(call[t], code)
  <2>1. call' = [call EXCEPT ![t] = r]
    BY <1>8 DEF TakeCode, ReadCall
  <2>2. call[t].op = "proteus_last_error_code" /\ central' = central
    BY <1>8 DEF TakeCode
  <2>3. r.op = call[t].op /\ r.phase = "resetting" /\ r.code = code
    BY <1>1, Read DEF Codes, Typed
  <2> HIDE DEF r
  <2> QED BY <1>1, <1>2, <1>3, <2>1, <2>2, <2>3
<1>9. CASE Return(t) \/ StoreCode(t) \/ (TakeCode(t) /\ Platform = "generic") \/ ResetCode(t)
  <2>1. call' = [call EXCEPT ![t] = None]
    BY <1>9 DEF Return, StoreCode, TakeCode, ResetCode
  <2> QED BY <1>1, <1>2, <1>3, <2>1
<1> QED BY <1>1, <1>2, <1>4, <1>5, <1>6, <1>7, <1>8, <1>9 DEF Step

-----------------------------------------------------------------------------
(* The central outlives the calls on it.                                   *)

\* Every step keeps the central for the calls in progress.
LEMMA CentralStep ==
  ASSUME CentralInv, Typed', [BindingsNext]_bindingVars
  PROVE  CentralInv'
<1> USE DEF CentralInv
<1>1. CASE UNCHANGED bindingVars
  BY <1>1 DEF bindingVars, HandleOpen, NoUseAfterClose, References, InProgress
\* The caller has the handle, so the central is open.
<1>2. ASSUME NEW t \in Tasks, NEW op \in Ops, NEW parent \in Tasks \cup {None}, Call(t, op, parent)
      PROVE  CentralInv'
  <2>1. handle' = handle /\ central' = central
    BY <1>2 DEF Call
  <2>2. call'[t].op = op /\ \A u \in Tasks : u # t => call'[u] = call[u]
    BY <1>2 DEF Call, Typed
  <2>3. UsesCentral(op) => central = "open"
    BY <1>2 DEF Call, MayCall, HandleOpen
  <2>4. ASSUME NEW u \in References' PROVE central' = "open"
    <3>1. u \in Tasks /\ call'[u] # None /\ UsesCentral(call'[u].op)
      BY <2>4 DEF References, InProgress
    <3>2. CASE u = t
      BY <2>1, <2>2, <2>3, <3>1, <3>2
    <3>3. CASE u # t
      <4>1. u \in References
        BY <2>2, <3>1, <3>3 DEF References, InProgress
      <4> QED BY <2>1, <4>1 DEF NoUseAfterClose
    <3> QED BY <3>2, <3>3
  <2> QED BY <2>1, <2>4 DEF HandleOpen, NoUseAfterClose
\* The central is dropped by the last reference only.
<1>3. ASSUME NEW t \in Tasks, Step(t)
      PROVE  CentralInv'
  <2>1. /\ t \in InProgress /\ handle' = handle
        /\ \A u \in Tasks : u # t => call'[u] = call[u]
        /\ \/ call'[t] = None
           \/ call'[t].op = call[t].op /\ central' = central
    BY <1>3, StepShape
  <2>2. References' \subseteq References
    BY <2>1 DEF References, InProgress
  <2>3. central' = central \/ (central' = CentralAfter(t) /\ call'[t] = None)
    <3>1. Return(t) \/ StoreCode(t) => central' = CentralAfter(t) /\ call' = [call EXCEPT ![t] = None]
      BY DEF Return, StoreCode
    <3>2. TakeCode(t) \/ ResetCode(t) => central' = central
      BY DEF TakeCode, ResetCode
    <3>3. call' = [call EXCEPT ![t] = None] => call'[t] = None
      BY DEF Typed
    <3>4. TakeLock(t) \/ Ask(t) \/ Answer(t) \/ (\E c \in 1 .. MaxCode : Fail(t, c)) => central' = central
      BY DEF TakeLock, Ask, Answer, Fail
    <3> QED BY <1>3, <3>1, <3>2, <3>3, <3>4 DEF Step
  <2>4. CASE central' = central
    BY <2>1, <2>2, <2>4 DEF HandleOpen, NoUseAfterClose
  <2>5. CASE central' # central
    <3>1. handle = "gone" /\ References \subseteq {t} /\ call'[t] = None
      BY <2>3, <2>5 DEF CentralAfter
    <3>2. References' = {}
      <4>1. t \notin References'
        BY <3>1 DEF References, InProgress
      <4> QED BY <2>2, <3>1, <4>1
    <3> QED BY <2>1, <3>1, <3>2 DEF HandleOpen, NoUseAfterClose
  <2> QED BY <2>4, <2>5
<1>4. ASSUME NEW how \in {"closed", "wiped"}, NEW kept \in BOOLEAN, Close(how, kept)
      PROVE  CentralInv'
  <2>1. References' = References
    BY <1>4 DEF Close, References, InProgress
  <2>2. References # {} \/ kept => central' = central
    BY <1>4 DEF Close, Closed
  <2>3. handle' = "open" => kept /\ handle = "open"
    BY <1>4 DEF Close
  <2> QED BY <2>1, <2>2, <2>3 DEF HandleOpen, NoUseAfterClose
<1> QED BY <1>1, <1>2, <1>3, <1>4 DEF BindingsNext

\* close and wipe never take the central away from a call that waits for it or
\* works on it, and it is dropped with its last reference: on both platforms,
\* for any calls in any order, callbacks that call back included.
THEOREM CentralOutlivesCalls == BindingsSpec => []NoUseAfterClose
<1>1. BindingsInit => CentralInv /\ LocksTaken
  <2> SUFFICES ASSUME BindingsInit PROVE CentralInv /\ LocksTaken
    OBVIOUS
  <2>1. Typed /\ LocksTaken
    BY InitTyped
  <2>2. HandleOpen /\ NoUseAfterClose
    BY DEF BindingsInit, HandleOpen, NoUseAfterClose, References, InProgress
  <2> QED BY <2>1, <2>2 DEF CentralInv
<1>2. CentralInv /\ LocksTaken /\ [BindingsNext]_bindingVars => (CentralInv /\ LocksTaken)'
  <2> SUFFICES ASSUME CentralInv, LocksTaken, [BindingsNext]_bindingVars
               PROVE  CentralInv' /\ LocksTaken'
    OBVIOUS
  <2>1. Typed' /\ LocksTaken'
    BY StepTyped DEF CentralInv
  <2> QED BY <2>1, CentralStep
<1>3. CentralInv => NoUseAfterClose
  BY DEF CentralInv
<1> QED BY <1>1, <1>2, <1>3, PTL DEF BindingsSpec

=============================================================================
