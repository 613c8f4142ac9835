-------------------------- MODULE EnrollmentProofs --------------------------
(***************************************************************************)
(* The registrations and the enrollments, for any number of concurrent     *)
(* calls, slots, certificates and revocation lists.                        *)
(*                                                                         *)
(* PkiShape says what any step does to the registrations and their tables: *)
(* nothing, a call that begins, a save, an end or a restart.  The          *)
(* properties of the environment follow from it.  The shapes of the steps  *)
(* of an enrollment (NewEnrollmentShape, ExchangeShape, StashShape,        *)
(* PopRemoveShape) give where an enrollment is (OnePlace) and why there is *)
(* a refresh token (Tokens).                                               *)
(***************************************************************************)
EXTENDS Enrollment, KeystoreProofs

-----------------------------------------------------------------------------
(* The tables of the two modules, on either platform.                      *)

\* How the tables of certificates, lists, enrollments and the token are saved to.
LEMMA PkiTables ==
    /\ CaTable.save = IF Platform = "wasm" THEN "put" ELSE "unique"
    /\ InterTable.save \in {"upsert", "put"}
    /\ CrlTable.save \in {"upsert", "put"}
    /\ StashTable.save = IF Platform = "wasm" THEN "put" ELSE "unique"
    /\ StashTable.erase = IF Platform = "wasm" THEN "any" ELSE "exact"
    /\ TokenTable.save \in {"replace", "put"}
BY DEF CaTable, InterTable, CrlTable, StashTable, TokenTable, Descriptor, SqlTable, WasmTable,
       SqlAcmeCA, SqlIntermediateCert, SqlCrl, SqlEnrollment, SqlRefreshToken,
       WasmAcmeCA, WasmIntermediateCert, WasmCrl, WasmEnrollment, WasmRefreshToken

CaRows == [id : {CaId}, val : Anchors]
InterRows == {Row(c, c) : c \in Intermediates}
CrlRows == [id : Points, val : ListType]
StashRows == [id : 1 .. MaxEnrollments, val : Records]
TokenRows == [id : {"0"}, val : 1 .. MaxEnrollments]

CertsType == [ca : Seq(CaRows), inters : Seq(InterRows), crls : Seq(CrlRows)]
EnvType == [roots : SUBSET Anchors, inters : SUBSET Intermediates, crls : SUBSET ListType]

TaskType == Registrations \cup Pops \cup {None}

\* What the structs and tables hold.
PkiTypes ==
    /\ certs \in CertsType
    /\ UniqueIds(certs.ca) /\ UniqueIds(certs.inters) /\ UniqueIds(certs.crls)
    /\ env \in EnvType
    /\ task \in [Tasks -> TaskType]
    /\ unrefreshed \in BOOLEAN

EnrollTypes ==
    /\ live \in [Slots -> Records \cup {None}]
    /\ stash \in Seq(StashRows) /\ UniqueIds(stash)
    /\ token \in Seq(TokenRows) /\ UniqueIds(token)
    /\ count \in [enrollments : 0 .. MaxEnrollments, handles : 0 .. MaxEnrollments, losses : Nat]
    /\ \A n \in 1 .. Len(stash) : stash[n].id <= count.handles
    /\ {spent, x509} \subseteq {"no", "answered", "unanswered"}

\* What is registered is in a row.
LEMMA RegisteredHeld ==
    ASSUME NEW rows, NEW v
    PROVE  v \in Registered(rows) <=> \E r : Holds(rows, r) /\ r.val = v
BY DEF Registered, Holds

\* Registered values have the type of the rows.
LEMMA RegisteredType ==
    ASSUME NEW S, NEW V, NEW rows \in Seq(S), \A r \in S : r.val \in V
    PROVE  Registered(rows) \subseteq V
BY DEF Registered

\* The environment that is built from the tables is an environment.
LEMMA SnapshotType ==
    ASSUME NEW st \in CertsType
    PROVE  Snapshot(st) \in EnvType
<1>0. st.ca \in Seq(CaRows) /\ st.inters \in Seq(InterRows) /\ st.crls \in Seq(CrlRows)
    BY DEF CertsType
<1>1. \A r \in CaRows : r.val \in Anchors
    BY DEF CaRows
<1>2. \A r \in InterRows : r.val \in Intermediates
    BY DEF InterRows, Row
<1>3. \A r \in CrlRows : r.val \in ListType
    BY DEF CrlRows
<1>4. /\ Registered(st.ca) \subseteq Anchors
      /\ Registered(st.inters) \subseteq Intermediates
      /\ Registered(st.crls) \subseteq ListType
    BY <1>0, <1>1, <1>2, <1>3, RegisteredType
<1> QED BY <1>4 DEF Snapshot, EnvType

\* What a step of a registration does to its task.
LEMMA TaskFields ==
    ASSUME NEW k \in TaskType, k # None
    PROVE  /\ k.op = "e2ei_register_acme_ca" => k.arg \in Anchors /\ k.step \in {"save", "env"}
           /\ k.op \in InterSteps => k.arg \in Intermediates /\ k.step \in {"save", "env"}
           /\ k.op = "e2ei_register_crl" => k.arg \in ListType /\ k.step \in {"save", "env"}
           /\ k.op = "e2ei_enrollment_stash_pop" =>
                /\ k.arg.handle \in 1 .. MaxEnrollments
                /\ k.arg.found \in Records
                /\ k.step = "remove"
           /\ k \in Registrations <=> k.op # "e2ei_enrollment_stash_pop"
BY DEF TaskType, Registrations, Pops, InterSteps

\* A registration that goes on to rebuild the environment is a registration.
LEMMA AtEnv ==
    ASSUME NEW k \in Registrations
    PROVE  [k EXCEPT !.step = "env"] \in Registrations
BY DEF Registrations, InterSteps

\* What the helpers of a task leave.
LEMMA TaskEnds ==
    ASSUME task \in [Tasks -> TaskType], NEW t \in Tasks, End(t)
    PROVE  /\ task' \in [Tasks -> TaskType]
           /\ task'[t] = None
           /\ \A u \in Tasks : u # t => task'[u] = task[u]
<1>1. None \in TaskType
    BY DEF TaskType
<1> QED BY <1>1 DEF End

\* What going on to rebuild the environment does to the tasks.
LEMMA TaskAtEnv ==
    ASSUME task \in [Tasks -> TaskType], NEW t \in Tasks, Running(t), Goto(t, "env"),
           task[t].op # "e2ei_enrollment_stash_pop"
    PROVE  /\ task' \in [Tasks -> TaskType]
           /\ task'[t] # None
           /\ task'[t].op = task[t].op /\ task'[t].arg = task[t].arg /\ task'[t].step = "env"
           /\ \A u \in Tasks : u # t => task'[u] = task[u]
<1> DEFINE k == task[t]
<1>1. k \in Registrations
    BY TaskFields DEF Running
<1>2. task' = [task EXCEPT ![t] = [k EXCEPT !.step = "env"]]
    BY DEF Goto
<1>3. [k EXCEPT !.step = "env"] \in Registrations
    BY <1>1, AtEnv
<1>4. /\ [k EXCEPT !.step = "env"].op = k.op
      /\ [k EXCEPT !.step = "env"].arg = k.arg
      /\ [k EXCEPT !.step = "env"].step = "env"
    BY <1>1 DEF Registrations
<1>5. [k EXCEPT !.step = "env"] \in TaskType /\ [k EXCEPT !.step = "env"] # None
    BY <1>3, NoneAssumption DEF TaskType
<1> QED BY <1>2, <1>4, <1>5

\* What the beginning of a call does to the tasks.
LEMMA TaskBegins ==
    ASSUME task \in [Tasks -> TaskType], NEW t \in Tasks, NEW op, NEW step, NEW arg,
           Begin(t, op, step, arg), [op |-> op, step |-> step, arg |-> arg] \in TaskType \ {None}
    PROVE  /\ task' \in [Tasks -> TaskType]
           /\ task[t] = None
           /\ task'[t] # None
           /\ task'[t] = [op |-> op, step |-> step, arg |-> arg]
           /\ \A u \in Tasks : u # t => task'[u] = task[u]
           /\ Platform = "generic" => \A u \in Tasks : task[u] = None
<1>1. Platform = "generic" => Holding = {}
    BY DEF Begin, MayEnter, Exclusive
<1>2. Holding = {} => \A u \in Tasks : task[u] = None
    BY DEF Holding, Running
<1> QED BY <1>1, <1>2 DEF Begin, Running

-----------------------------------------------------------------------------
(* What any step does to the registrations: every action is one of these.  *)

Others(t) == \A u \in Tasks : u # t => task'[u] = task[u]

Quiet == UNCHANGED pkiVars

\* What a call has checked when it begins.
BegunFor(k) ==
    /\ k.op \in InterSteps => MayRegister(k.arg)
    /\ k.op = "e2ei_enrollment_stash_pop" => Holds(stash, Row(k.arg.handle, k.arg.found))

Begun(t) ==
    /\ certs' = certs /\ env' = env /\ unrefreshed' = unrefreshed
    /\ task' \in [Tasks -> TaskType]
    /\ task[t] = None
    /\ task'[t] # None /\ task'[t].step # "env"
    /\ BegunFor(task'[t])
    /\ Others(t)
    /\ Platform = "generic" => \A u \in Tasks : task[u] = None

Saved(t) ==
    /\ certs' \in CertsType
    /\ UniqueIds(certs'.ca) /\ UniqueIds(certs'.inters) /\ UniqueIds(certs'.crls)
    /\ Platform = "generic" => \A r : Holds(certs.ca, r) => Holds(certs'.ca, r)
    /\ \A r : Holds(certs'.inters, r) =>
          Holds(certs.inters, r) \/ (task[t].op \in InterSteps /\ r = Row(task[t].arg, task[t].arg))
    /\ env' = env /\ unrefreshed' = unrefreshed
    /\ task' \in [Tasks -> TaskType]
    /\ task[t] # None /\ task'[t] # None
    /\ task'[t].op = task[t].op /\ task'[t].arg = task[t].arg /\ task'[t].step = "env"
    /\ Others(t)

\* With nothing to refresh, the environment rebuilt, or the error of its refresh.
EndedWith(t) ==
    \/ task[t].step # "env" /\ env' = env /\ unrefreshed' = unrefreshed
    \/ task[t].step = "env" /\ env' = Snapshot(certs) /\ unrefreshed' = FALSE
    \/ task[t].step = "env" /\ env' = env /\ unrefreshed' = TRUE

Ended(t) ==
    /\ certs' = certs
    /\ task' \in [Tasks -> TaskType]
    /\ task[t] # None /\ task'[t] = None
    /\ Others(t)
    /\ EndedWith(t)

Restarted ==
    /\ certs' = certs
    /\ env' = Snapshot(certs)
    /\ unrefreshed' = FALSE
    /\ task' = [t \in Tasks |-> None]

\* Saving the trust anchor is a save, or the end if SQLite has one already.
LEMMA AcmeSaveShape ==
    ASSUME PkiTypes, NEW t \in Tasks, AcmeSave(t)
    PROVE  Saved(t) \/ Ended(t)
<1> DEFINE saved == Save(CaTable, certs.ca, CaId, task[t].arg)
<1>1. task[t] \in TaskType /\ task[t] # None /\ task[t].op = "e2ei_register_acme_ca" /\ task[t].step = "save"
    BY DEF PkiTypes, AcmeSave, At, Running
<1>2. task[t].arg \in Anchors
    BY <1>1, TaskFields
<1>3. Row(CaId, task[t].arg) \in CaRows /\ Row(CaId, task[t].arg).id = CaId
    BY <1>2 DEF Row, CaRows
<1>4. certs.ca \in Seq(CaRows) /\ UniqueIds(certs.ca) /\ certs \in CertsType
    BY DEF PkiTypes, CertsType
<1>5. \/ /\ SavedAs(CaRows, certs.ca, CaId, task[t].arg, saved)
         /\ Platform = "generic" => ~Stored(certs.ca, CaId)
      \/ ~saved.ok /\ saved.rows = certs.ca
    <2>1. CASE Platform = "wasm"
        BY <2>1, <1>3, <1>4, SaveOverwrites, PkiTables
    <2>2. CASE Platform # "wasm"
        BY <2>2, <1>3, <1>4, SaveUnique, PkiTables
    <2> QED BY <2>1, <2>2
<1>6. /\ certs' = [certs EXCEPT !.ca = saved.rows]
      /\ IF saved.ok THEN Goto(t, "env") ELSE End(t)
      /\ env' = env /\ unrefreshed' = unrefreshed
    BY DEF AcmeSave
<1> HIDE DEF saved
<1>7. CASE ~saved.ok /\ saved.rows = certs.ca
    <2>1. certs' = certs
        BY <1>4, <1>6, <1>7 DEF CertsType
    <2>2. End(t)
        BY <1>6, <1>7
    <2>3. /\ task' \in [Tasks -> TaskType]
          /\ task'[t] = None
          /\ Others(t)
        BY <2>2, TaskEnds DEF PkiTypes, Others
    <2> QED BY <2>1, <2>3, <1>1, <1>6 DEF Ended, EndedWith
<1>8. CASE /\ SavedAs(CaRows, certs.ca, CaId, task[t].arg, saved)
           /\ Platform = "generic" => ~Stored(certs.ca, CaId)
    <2>1. saved.ok /\ saved.rows \in Seq(CaRows) /\ UniqueIds(saved.rows)
        BY <1>8 DEF SavedAs
    <2>2. certs' \in CertsType /\ certs'.ca = saved.rows /\ certs'.inters = certs.inters /\ certs'.crls = certs.crls
        BY <1>4, <1>6, <2>1 DEF CertsType
    <2>3. Platform = "generic" => \A r : Holds(certs.ca, r) => Holds(saved.rows, r)
        BY <1>8 DEF SavedAs, Stored, Holds
    <2>4. Goto(t, "env")
        BY <1>6, <2>1
    <2>5. /\ task' \in [Tasks -> TaskType]
          /\ task'[t] # None
          /\ task'[t].op = task[t].op /\ task'[t].arg = task[t].arg /\ task'[t].step = "env"
          /\ Others(t)
        BY <1>1, <2>4, TaskAtEnv DEF PkiTypes, Others, Running
    <2> QED BY <1>1, <1>6, <2>1, <2>2, <2>3, <2>5 DEF Saved, PkiTypes
<1> QED BY <1>5, <1>7, <1>8

\* Saving an intermediate is a save.
LEMMA InterSaveShape ==
    ASSUME PkiTypes, NEW t \in Tasks, InterSave(t)
    PROVE  Saved(t)
<1> DEFINE saved == Save(InterTable, certs.inters, task[t].arg, task[t].arg)
<1>1. task[t] \in TaskType /\ task[t] # None /\ task[t].op \in InterSteps
    BY DEF PkiTypes, InterSave, Running
<1>2. task[t].arg \in Intermediates /\ task[t].op # "e2ei_enrollment_stash_pop"
    BY <1>1, TaskFields DEF InterSteps
<1>3. Row(task[t].arg, task[t].arg) \in InterRows
    BY <1>2 DEF InterRows
<1>4. certs.inters \in Seq(InterRows) /\ UniqueIds(certs.inters) /\ certs \in CertsType
    BY DEF PkiTypes, CertsType
<1>5. SavedAs(InterRows, certs.inters, task[t].arg, task[t].arg, saved)
    BY <1>3, <1>4, SaveOverwrites, PkiTables
<1>6. certs' = [certs EXCEPT !.inters = saved.rows] /\ Goto(t, "env") /\ env' = env
      /\ unrefreshed' = unrefreshed
    BY DEF InterSave
<1> HIDE DEF saved
<1>7. saved.rows \in Seq(InterRows) /\ UniqueIds(saved.rows)
    BY <1>5 DEF SavedAs
<1>8. certs' \in CertsType /\ certs'.ca = certs.ca /\ certs'.inters = saved.rows /\ certs'.crls = certs.crls
    BY <1>4, <1>6, <1>7 DEF CertsType
<1>9. /\ task' \in [Tasks -> TaskType]
      /\ task'[t] # None
      /\ task'[t].op = task[t].op /\ task'[t].arg = task[t].arg /\ task'[t].step = "env"
      /\ Others(t)
    BY <1>1, <1>2, <1>6, TaskAtEnv DEF PkiTypes, Others, Running
<1>10. \A r : Holds(saved.rows, r) =>
          Holds(certs.inters, r) \/ r = Row(task[t].arg, task[t].arg)
    BY <1>5 DEF SavedAs
<1> QED BY <1>1, <1>6, <1>7, <1>8, <1>9, <1>10 DEF Saved, PkiTypes

\* Saving a revocation list is a save.
LEMMA CrlSaveShape ==
    ASSUME PkiTypes, NEW t \in Tasks, CrlSave(t)
    PROVE  Saved(t)
<1> DEFINE saved == Save(CrlTable, certs.crls, task[t].arg.point, task[t].arg)
<1>1. task[t] \in TaskType /\ task[t] # None /\ task[t].op = "e2ei_register_crl"
    BY DEF PkiTypes, CrlSave, At, Running
<1>2. task[t].arg \in ListType
    BY <1>1, TaskFields
<1>3. Row(task[t].arg.point, task[t].arg) \in CrlRows
    BY <1>2 DEF CrlRows, Row, ListType
<1>4. certs.crls \in Seq(CrlRows) /\ UniqueIds(certs.crls) /\ certs \in CertsType
    BY DEF PkiTypes, CertsType
<1>5. SavedAs(CrlRows, certs.crls, task[t].arg.point, task[t].arg, saved)
    BY <1>3, <1>4, SaveOverwrites, PkiTables
<1>6. certs' = [certs EXCEPT !.crls = saved.rows] /\ Goto(t, "env") /\ env' = env
      /\ unrefreshed' = unrefreshed
    BY DEF CrlSave
<1> HIDE DEF saved
<1>7. saved.rows \in Seq(CrlRows) /\ UniqueIds(saved.rows)
    BY <1>5 DEF SavedAs
<1>8. certs' \in CertsType /\ certs'.ca = certs.ca /\ certs'.inters = certs.inters /\ certs'.crls = saved.rows
    BY <1>4, <1>6, <1>7 DEF CertsType
<1>9. /\ task' \in [Tasks -> TaskType]
      /\ task'[t] # None
      /\ task'[t].op = task[t].op /\ task'[t].arg = task[t].arg /\ task'[t].step = "env"
      /\ Others(t)
    BY <1>1, <1>6, TaskAtEnv DEF PkiTypes, Others, Running
<1> QED BY <1>1, <1>6, <1>7, <1>8, <1>9 DEF Saved, PkiTypes

\* A call that has checked what it must begins.
LEMMA BeginShape ==
    ASSUME PkiTypes, NEW t \in Tasks, NEW op, NEW step, NEW arg, Begin(t, op, step, arg),
           [op |-> op, step |-> step, arg |-> arg] \in TaskType \ {None},
           step # "env", BegunFor([op |-> op, step |-> step, arg |-> arg]),
           UNCHANGED <<certs, env, unrefreshed>>
    PROVE  Begun(t)
<1>1. /\ task' \in [Tasks -> TaskType]
      /\ task[t] = None
      /\ task'[t] # None
      /\ task'[t] = [op |-> op, step |-> step, arg |-> arg]
      /\ \A u \in Tasks : u # t => task'[u] = task[u]
      /\ Platform = "generic" => \A u \in Tasks : task[u] = None
    BY TaskBegins DEF PkiTypes
<1>2. task'[t].step = step
    BY <1>1
<1> QED BY <1>1, <1>2 DEF Begun, Others

\* The check of a trust anchor begins its registration.
LEMMA AcmeCheckShape ==
    ASSUME PkiTypes, NEW t \in Tasks, NEW a \in Anchors, AcmeCheck(t, a)
    PROVE  Begun(t)
<1>1. [op |-> "e2ei_register_acme_ca", step |-> "save", arg |-> a] \in TaskType \ {None}
    BY NoneAssumption DEF TaskType, Registrations
<1>2. BegunFor([op |-> "e2ei_register_acme_ca", step |-> "save", arg |-> a])
    BY DEF InterSteps, BegunFor
<1> QED BY <1>1, <1>2, BeginShape DEF AcmeCheck

\* The check of an intermediate begins its registration.
LEMMA InterCheckShape ==
    ASSUME PkiTypes, NEW t \in Tasks, NEW op \in InterSteps, NEW c \in Intermediates,
           InterCheck(t, op, c)
    PROVE  Begun(t)
<1>1. [op |-> op, step |-> "save", arg |-> c] \in TaskType \ {None}
    BY NoneAssumption DEF TaskType, Registrations
<1>2. BegunFor([op |-> op, step |-> "save", arg |-> c])
    BY DEF InterCheck, InterSteps, BegunFor
<1> QED BY <1>1, <1>2, BeginShape DEF InterCheck

\* The check of a list begins its registration.
LEMMA CrlCheckShape ==
    ASSUME PkiTypes, NEW t \in Tasks, NEW p \in Points, NEW r \in Lists,
           CrlCheck(t, p, r)
    PROVE  Begun(t)
<1>1. [point |-> p, revoked |-> r] \in ListType
    BY DEF ListType
<1>2. [op |-> "e2ei_register_crl", step |-> "save", arg |-> [point |-> p, revoked |-> r]]
        \in TaskType \ {None}
    BY <1>1, NoneAssumption DEF TaskType, Registrations
<1>3. BegunFor([op |-> "e2ei_register_crl", step |-> "save", arg |-> [point |-> p, revoked |-> r]])
    BY DEF InterSteps, BegunFor
<1> QED BY <1>2, <1>3, BeginShape DEF CrlCheck

\* Finding a stashed enrollment begins its pop.
LEMMA PopFindShape ==
    ASSUME PkiTypes, EnrollTypes, NEW t \in Tasks, NEW h \in 1 .. MaxEnrollments, PopFind(t, h)
    PROVE  Begun(t)
<1> DEFINE found == stash[FirstRow(stash, h)].val
<1>1. /\ stash[FirstRow(stash, h)] \in StashRows
      /\ stash[FirstRow(stash, h)].id = h
      /\ Holds(stash, stash[FirstRow(stash, h)])
    BY StoredHeld DEF EnrollTypes, PopFind
<1>2. found \in Records /\ stash[FirstRow(stash, h)] = Row(h, found)
    BY <1>1 DEF StashRows, Row
<1>3. [op |-> "e2ei_enrollment_stash_pop", step |-> "remove", arg |-> [handle |-> h, found |-> found]]
        \in TaskType \ {None}
    BY <1>2, NoEnrollmentAssumption DEF TaskType, Pops
<1>4. BegunFor([op |-> "e2ei_enrollment_stash_pop", step |-> "remove",
                arg |-> [handle |-> h, found |-> found]])
    BY <1>1, <1>2 DEF InterSteps, BegunFor
<1> QED BY <1>3, <1>4, BeginShape DEF PopFind

\* A call that leaves the tables alone and has tried its refresh, if it had to, ends.
LEMMA EndShape ==
    ASSUME PkiTypes, NEW t \in Tasks, Running(t), End(t), certs' = certs,
           EndedWith(t)
    PROVE  Ended(t)
BY TaskEnds DEF PkiTypes, Ended, Others, Running

\* Every step is one of the shapes.
LEMMA PkiShape ==
    ASSUME PkiTypes, EnrollTypes, [EnrollmentNext]_vars
    PROVE  Quiet \/ Restarted \/ \E t \in Tasks : Begun(t) \/ Saved(t) \/ Ended(t)
<1>1. ASSUME PkiStep
      PROVE  \E t \in Tasks : Begun(t) \/ Saved(t) \/ Ended(t)
    <2>1. ASSUME NEW t \in Tasks, NEW a \in Anchors, AcmeCheck(t, a)
          PROVE  Begun(t)
        BY <2>1, AcmeCheckShape
    <2>2. ASSUME NEW t \in Tasks, AcmeSave(t)
          PROVE  Saved(t) \/ Ended(t)
        BY <2>2, AcmeSaveShape
    <2>3. ASSUME NEW t \in Tasks, NEW c \in Intermediates,
                 InterCheck(t, "e2ei_register_intermediate_ca", c)
          PROVE  Begun(t)
        BY <2>3, InterCheckShape DEF InterSteps
    <2>4. ASSUME NEW t \in Tasks, InterSave(t)
          PROVE  Saved(t)
        BY <2>4, InterSaveShape
    <2>5. ASSUME NEW t \in Tasks, NEW p \in Points, NEW r \in Lists, CrlCheck(t, p, r)
          PROVE  Begun(t)
        BY <2>5, CrlCheckShape
    <2>6. ASSUME NEW t \in Tasks, CrlSave(t)
          PROVE  Saved(t)
        BY <2>6, CrlSaveShape
    <2>7. ASSUME NEW t \in Tasks, RefreshEnv(t)
          PROVE  Ended(t)
        BY <2>7, EndShape DEF RefreshEnv, InitPkiEnv, EndedWith
    <2>8. ASSUME NEW t \in Tasks, RegistrationFails(t)
          PROVE  Ended(t)
        <3>1. EndedWith(t)
            BY <2>8 DEF RegistrationFails, EndedWith, PkiTypes
        <3> QED BY <2>8, <3>1, EndShape DEF RegistrationFails
    <2> QED BY <1>1, <2>1, <2>2, <2>3, <2>4, <2>5, <2>6, <2>7, <2>8 DEF PkiStep
<1>2. ASSUME NEW t \in Tasks, NEW s \in Slots, NEW c \in Intermediates, UseCertificate(t, s, c)
      PROVE  Quiet \/ Begun(t)
    <2>1. Finish \in InterSteps
        BY DEF Finish, InterSteps
    <2> QED BY <1>2, <2>1, InterCheckShape DEF UseCertificate, Quiet
<1>3. ASSUME NEW t \in Tasks, CertificateInUse(t)
      PROVE  Ended(t)
    BY <1>3, EndShape DEF CertificateInUse, InitPkiEnv, EndedWith
<1>4. ASSUME NEW t \in Tasks, NEW h \in 1 .. MaxEnrollments, PopFind(t, h)
      PROVE  Begun(t)
    BY <1>4, PopFindShape
<1>5. ASSUME NEW t \in Tasks, NEW s \in Slots, PopRemove(t, s)
      PROVE  Ended(t)
    BY <1>5, EndShape DEF PopRemove, At, EndedWith
<1>6. ASSUME NEW s \in Slots, NewEnrollment(s) \/ NewRotateEnrollment(s) \/ Abandon(s) \/ Stash(s)
      PROVE  Quiet
    BY <1>6 DEF NewEnrollment, NewRotateEnrollment, Abandon, Stash, Quiet
<1>7. ASSUME NEW s \in Slots, NEW x \in Exchanges, NEW lost \in BOOLEAN, Exchange(s, x, lost)
      PROVE  Quiet
    BY <1>7 DEF Exchange, Quiet
<1>8. CASE Restart
    BY <1>8 DEF Restart, PkiRestart, Restarted
<1>9. CASE UNCHANGED vars
    BY <1>9 DEF vars, Quiet
<1> QED BY <1>1, <1>2, <1>3, <1>4, <1>5, <1>6, <1>7, <1>8, <1>9 DEF EnrollmentNext

\* Every step keeps the types of the registrations.
LEMMA PkiTypesStep ==
    ASSUME PkiTypes, EnrollTypes, [EnrollmentNext]_vars
    PROVE  PkiTypes'
<1>0. certs \in CertsType /\ env \in EnvType /\ Snapshot(certs) \in EnvType
    BY SnapshotType DEF PkiTypes
<1>1. CASE Quiet
    BY <1>1 DEF Quiet, pkiVars, PkiTypes
<1>2. CASE Restarted
    <2>1. task' \in [Tasks -> TaskType]
        BY <1>2 DEF Restarted, TaskType
    <2> QED BY <1>0, <1>2, <2>1 DEF Restarted, PkiTypes
<1>3. ASSUME NEW t \in Tasks, Begun(t) \/ Saved(t) \/ Ended(t)
      PROVE  PkiTypes'
    BY <1>0, <1>3 DEF Begun, Saved, Ended, EndedWith, PkiTypes
<1> QED BY <1>1, <1>2, <1>3, PkiShape

-----------------------------------------------------------------------------
(* Types of the enrollments.                                               *)

CountType == [enrollments : 0 .. MaxEnrollments, handles : 0 .. MaxEnrollments, losses : Nat]

\* The bound on enrollments is a number.
LEMMA MaxIsNat == MaxEnrollments \in Nat
BY EnrollmentAssumption

\* Filling or emptying a slot.
LEMMA SlotSet ==
    ASSUME live \in [Slots -> Records \cup {None}], NEW s \in Slots, NEW v \in Records \cup {None},
           live' = [live EXCEPT ![s] = v]
    PROVE  /\ live' \in [Slots -> Records \cup {None}]
           /\ live'[s] = v
           /\ \A u \in Slots : u # s => live'[u] = live[u]
OBVIOUS

\* A new enrollment, first or renewed.
LEMMA NewEnrollmentShape ==
    ASSUME EnrollTypes, NEW s \in Slots, NewEnrollment(s) \/ NewRotateEnrollment(s)
    PROVE  /\ \E e \in Records :
                 /\ live' = [live EXCEPT ![s] = e]
                 /\ e.id = count.enrollments + 1 /\ e.has = {}
           /\ count' \in CountType
           /\ count'.enrollments = count.enrollments + 1 /\ count'.handles = count.handles
           /\ UNCHANGED <<pkiVars, stash, token, spent, x509>>
           /\ Holding = {} /\ live[s] = None
<1>1. PICK rt \in (1 .. MaxEnrollments) \cup {None} :
         live' = [live EXCEPT ![s] = NewEnrollmentRecord(count.enrollments + 1, rt)]
    <2>1. CASE NewEnrollment(s)
        BY <2>1 DEF NewEnrollment
    <2>2. CASE NewRotateEnrollment(s)
        <3>1. ASSUME Platform = "generic" PROVE token[1].val \in 1 .. MaxEnrollments
            <4>1. token # << >> /\ token \in Seq(TokenRows)
                BY <2>2, <3>1 DEF NewRotateEnrollment, EnrollTypes
            <4>2. token[1] \in TokenRows
                BY <4>1
            <4> QED BY <4>2 DEF TokenRows
        <3> QED BY <2>2, <3>1 DEF NewRotateEnrollment
    <2> QED BY <2>1, <2>2
<1>2. count \in CountType /\ count.enrollments < MaxEnrollments /\ count.enrollments \in Nat
      /\ count' = [count EXCEPT !.enrollments = @ + 1]
    BY MaxIsNat DEF EnrollTypes, CountType, NewEnrollment, NewRotateEnrollment
<1>3. count.enrollments + 1 \in 1 .. MaxEnrollments
    BY <1>2, MaxIsNat
<1>4. NewEnrollmentRecord(count.enrollments + 1, rt) \in Records
    BY <1>3 DEF NewEnrollmentRecord, Records
<1>5. NewEnrollmentRecord(count.enrollments + 1, rt).id = count.enrollments + 1
      /\ NewEnrollmentRecord(count.enrollments + 1, rt).has = {}
    BY DEF NewEnrollmentRecord
<1>6. count' \in CountType /\ count'.enrollments = count.enrollments + 1 /\ count'.handles = count.handles
    BY <1>2, <1>3, MaxIsNat DEF CountType
<1> QED BY <1>1, <1>4, <1>5, <1>6 DEF NewEnrollment, NewRotateEnrollment, FreeSlot

\* An exchange with the server, answered or not.
LEMMA ExchangeShape ==
    ASSUME EnrollTypes, NEW s \in Slots, NEW x \in Exchanges, NEW lost \in BOOLEAN,
           Exchange(s, x, lost)
    PROVE  /\ live[s] \in Records
           /\ \E e \in Records :
                 /\ live' = [live EXCEPT ![s] = e]
                 /\ e.id = live[s].id
                 /\ e.has = (live[s].has \ Takes(x)) \cup (IF lost THEN {} ELSE {x})
           /\ token' \in Seq(TokenRows) /\ UniqueIds(token')
           /\ token # << >> => token' # << >>
           /\ Platform = "generic" /\ x = "oidc" /\ ~lost => token' # << >>
           /\ count' \in CountType
           /\ count'.enrollments = count.enrollments /\ count'.handles = count.handles
           /\ UNCHANGED <<pkiVars, stash, spent, x509>>
<1> DEFINE e == live[s]
           after == [id |-> e.id,
                     acme |-> e.acme \cup ({x} \cap {"order", "dpop", "oidc", "finalize"}),
                     has |-> (e.has \ Takes(x)) \cup (IF lost THEN {} ELSE {x}),
                     token |-> IF x = "oidc" /\ ~lost THEN None ELSE TokenAfter(e, x)]
<1>1. e \in Records
    BY DEF EnrollTypes, Exchange, FreeSlot
<1>2. e.id \in 1 .. MaxEnrollments /\ e.has \subseteq Exchanges /\ e.acme \subseteq Exchanges
      /\ e.token \in (1 .. MaxEnrollments) \cup {None}
    BY <1>1 DEF Records
<1>3. live' = [live EXCEPT ![s] = after]
    BY DEF Exchange
<1>4. TokenAfter(e, x) \in (1 .. MaxEnrollments) \cup {None}
    BY <1>2 DEF TokenAfter
<1>5. /\ after.has \subseteq Exchanges
      /\ after.acme \subseteq Exchanges
      /\ after.token \in (1 .. MaxEnrollments) \cup {None}
    BY <1>2, <1>4
<1>6. after \in Records
    BY <1>2, <1>5 DEF Records
<1>7. /\ token' \in Seq(TokenRows) /\ UniqueIds(token')
      /\ token # << >> => token' # << >>
      /\ Platform = "generic" /\ x = "oidc" /\ ~lost => token' # << >>
    <2>1. token' = PersistToken(e, x, lost) /\ token \in Seq(TokenRows) /\ UniqueIds(token)
        BY DEF Exchange, EnrollTypes
    <2>2. Row("0", e.id) \in TokenRows
        BY <1>2 DEF Row, TokenRows
    <2>3. SavedAs(TokenRows, token, "0", e.id, Save(TokenTable, token, "0", e.id))
        BY <2>1, <2>2, SaveOverwrites, PkiTables
    <2>4. token' = token \/ token' = Save(TokenTable, token, "0", e.id).rows
        BY <2>1 DEF PersistToken
    <2>5. Platform = "generic" /\ x = "oidc" /\ ~lost =>
            token' = Save(TokenTable, token, "0", e.id).rows
        BY <2>1 DEF PersistToken
    <2> QED BY <2>1, <2>3, <2>4, <2>5 DEF SavedAs
<1>8. /\ count' \in CountType
      /\ count'.enrollments = count.enrollments /\ count'.handles = count.handles
    <2>1. count \in CountType /\ count' = [count EXCEPT !.losses = @ + (IF lost THEN 1 ELSE 0)]
        BY DEF Exchange, EnrollTypes, CountType
    <2>2. count.losses + (IF lost THEN 1 ELSE 0) \in Nat
        BY <2>1 DEF CountType
    <2> QED BY <2>1, <2>2 DEF CountType
<1>9. UNCHANGED <<pkiVars, stash, spent, x509>>
    BY DEF Exchange
<1>10. after.id = e.id /\ after.has = (e.has \ Takes(x)) \cup (IF lost THEN {} ELSE {x})
    OBVIOUS
<1> HIDE DEF after
<1> QED BY <1>1, <1>3, <1>6, <1>7, <1>8, <1>9, <1>10

\* An enrollment goes to the stash.
LEMMA StashShape ==
    ASSUME EnrollTypes, NEW s \in Slots, Stash(s)
    PROVE  /\ live[s] \in Records
           /\ live' = [live EXCEPT ![s] = None]
           /\ stash' \in Seq(StashRows) /\ UniqueIds(stash')
           /\ ~Stored(stash, count.handles + 1)
           /\ \A r : Holds(stash', r) <=> r = Row(count.handles + 1, live[s]) \/ Holds(stash, r)
           /\ count' \in CountType
           /\ count'.enrollments = count.enrollments /\ count'.handles = count.handles + 1
           /\ UNCHANGED <<pkiVars, token, spent, x509>>
           /\ Holding = {}
<1> DEFINE h == count.handles + 1
           saved == Save(StashTable, stash, h, live[s])
<1>1. live[s] \in Records
    BY DEF EnrollTypes, Stash, FreeSlot
<1>2. count \in CountType /\ count.handles < MaxEnrollments
      /\ count' = [count EXCEPT !.handles = @ + 1]
    BY DEF Stash, EnrollTypes, CountType
<1>3. count.handles \in Nat /\ h \in 1 .. MaxEnrollments
    BY <1>2, MaxIsNat DEF CountType
<1>4. stash \in Seq(StashRows) /\ UniqueIds(stash)
    BY DEF EnrollTypes
<1>5. ASSUME NEW n \in 1 .. Len(stash) PROVE stash[n].id # h
    <2>1. stash[n] \in StashRows
        BY <1>4
    <2>2. stash[n].id \in 1 .. MaxEnrollments
        BY <2>1 DEF StashRows
    <2>3. stash[n].id \in Nat
        BY <2>2, MaxIsNat
    <2> QED BY <1>3, <2>3 DEF EnrollTypes
<1>6. ~Stored(stash, h)
    BY <1>5 DEF Stored
<1>7. Row(h, live[s]) \in StashRows
    BY <1>1, <1>3 DEF Row, StashRows
<1>8. SavedAs(StashRows, stash, h, live[s], saved)
    <2>1. CASE Platform = "wasm"
        BY <2>1, <1>4, <1>7, SaveOverwrites, PkiTables
    <2>2. CASE Platform # "wasm"
        BY <2>2, <1>4, <1>6, <1>7, SaveUnique, PkiTables
    <2> QED BY <2>1, <2>2
<1>9. stash' = saved.rows /\ live' = [live EXCEPT ![s] = None] /\ UNCHANGED <<pkiVars, token, spent, x509>>
      /\ Holding = {}
    BY DEF Stash, StashMove
<1>10. count' \in CountType /\ count'.enrollments = count.enrollments /\ count'.handles = h
    BY <1>2, <1>3, MaxIsNat DEF CountType
<1>11. \A r : Holds(stash, r) => r.id # h
    BY <1>5 DEF Holds
<1> HIDE DEF saved, h
<1>12. \A r : Holds(stash', r) <=> r = Row(h, live[s]) \/ Holds(stash, r)
    BY <1>8, <1>9, <1>11 DEF SavedAs
<1> QED BY <1>1, <1>6, <1>8, <1>9, <1>10, <1>12 DEF SavedAs, h

\* An enrollment comes back from the stash, unless it was gone.
LEMMA PopRemoveShape ==
    ASSUME PkiTypes, EnrollTypes, NEW t \in Tasks, NEW s \in Slots, PopRemove(t, s)
    PROVE  /\ task[t] # None /\ task[t].op = "e2ei_enrollment_stash_pop"
           /\ task[t].arg.found \in Records
           /\ stash' \in Seq(StashRows) /\ UniqueIds(stash')
           /\ \/ /\ live[s] = None
                 /\ live' = [live EXCEPT ![s] = task[t].arg.found]
                 /\ \A r : Holds(stash', r) <=> Holds(stash, r) /\ r.id # task[t].arg.handle
              \/ live' = live /\ stash' = stash
           /\ UNCHANGED <<certs, env, unrefreshed, token, count, spent, x509>>
           /\ End(t)
<1> DEFINE h == task[t].arg.handle
           erased == Erase(StashTable, stash, h)
<1>1. task[t] \in TaskType /\ task[t] # None /\ task[t].op = "e2ei_enrollment_stash_pop"
    BY DEF PkiTypes, PopRemove, At, Running
<1>2. task[t].arg.found \in Records
    BY <1>1, TaskFields
<1>3. stash \in Seq(StashRows) /\ UniqueIds(stash)
    BY DEF EnrollTypes
<1>4. ErasedAs(StashRows, stash, h, erased)
    <2>1. StashTable.erase \in {"any", "exact"}
        BY PkiTables
    <2> QED BY <2>1, <1>3, EraseRemoves
<1>5. /\ stash' = erased.rows
      /\ IF erased.ok
         THEN live[s] = None /\ live' = [live EXCEPT ![s] = task[t].arg.found]
         ELSE live' = live
      /\ UNCHANGED <<certs, env, unrefreshed, token, count, spent, x509>>
      /\ End(t)
    BY DEF PopRemove, FreeSlot
<1> HIDE DEF erased
<1> QED BY <1>1, <1>2, <1>4, <1>5 DEF ErasedAs

\* The handles of the stash were given out.
LEMMA HandlesBounded ==
    ASSUME NEW rows \in Seq(StashRows), NEW n \in Nat
    PROVE  (\A m \in 1 .. Len(rows) : rows[m].id <= n) <=> (\A r : Holds(rows, r) => r.id <= n)
BY DEF Holds

\* Every step keeps the types of the enrollments.
LEMMA EnrollTypesStep ==
    ASSUME PkiTypes, EnrollTypes, [EnrollmentNext]_vars
    PROVE  EnrollTypes'
<1>0. /\ live \in [Slots -> Records \cup {None}]
      /\ stash \in Seq(StashRows) /\ UniqueIds(stash)
      /\ token \in Seq(TokenRows) /\ UniqueIds(token)
      /\ count \in CountType /\ count.handles \in Nat
      /\ \A n \in 1 .. Len(stash) : stash[n].id <= count.handles
      /\ \A r : Holds(stash, r) => r.id <= count.handles
      /\ {spent, x509} \subseteq {"no", "answered", "unanswered"}
    <2>1. count \in CountType /\ count.handles \in Nat
        BY MaxIsNat DEF EnrollTypes, CountType
    <2> QED BY <2>1, HandlesBounded DEF EnrollTypes
<1>1. ASSUME UNCHANGED <<stash, token, count>>, live' \in [Slots -> Records \cup {None}],
             {spent', x509'} \subseteq {"no", "answered", "unanswered"}
      PROVE  EnrollTypes'
    BY <1>0, <1>1 DEF EnrollTypes, CountType
<1>2. CASE PkiStep /\ UNCHANGED enrollVars
    BY <1>0, <1>1, <1>2 DEF enrollVars
<1>3. ASSUME NEW s \in Slots, NewEnrollment(s) \/ NewRotateEnrollment(s)
      PROVE  EnrollTypes'
    <2>1. PICK e \in Records : live' = [live EXCEPT ![s] = e]
        BY <1>3, NewEnrollmentShape
    <2>2. live' \in [Slots -> Records \cup {None}]
        BY <1>0, <2>1
    <2>3. UNCHANGED <<stash, token, spent, x509>> /\ count' \in CountType /\ count'.handles = count.handles
        BY <1>3, NewEnrollmentShape
    <2> QED BY <1>0, <2>2, <2>3 DEF EnrollTypes, CountType
<1>4. ASSUME NEW s \in Slots, NEW x \in Exchanges, NEW lost \in BOOLEAN, Exchange(s, x, lost)
      PROVE  EnrollTypes'
    <2>1. PICK e \in Records : live' = [live EXCEPT ![s] = e]
        BY <1>4, ExchangeShape
    <2>2. live' \in [Slots -> Records \cup {None}]
        BY <1>0, <2>1
    <2>3. /\ token' \in Seq(TokenRows) /\ UniqueIds(token')
          /\ stash' = stash /\ count' \in CountType /\ count'.handles = count.handles
          /\ UNCHANGED <<spent, x509>>
        BY <1>4, ExchangeShape
    <2> QED BY <1>0, <2>2, <2>3 DEF EnrollTypes, CountType
<1>5. ASSUME NEW s \in Slots, live' = [live EXCEPT ![s] = None], UNCHANGED <<stash, token, count>>,
             {spent', x509'} \subseteq {"no", "answered", "unanswered"}
      PROVE  EnrollTypes'
    <2>1. live' \in [Slots -> Records \cup {None}]
        BY <1>0, <1>5
    <2> QED BY <1>1, <1>5, <2>1
<1>6. ASSUME NEW t \in Tasks, NEW s \in Slots, NEW c \in Intermediates, UseCertificate(t, s, c)
      PROVE  EnrollTypes'
    <2>1. Answered(live[s]) \in {"no", "answered", "unanswered"}
        BY DEF Answered
    <2>2. /\ spent' = spent \/ spent' = Answered(live[s])
          /\ live' = [live EXCEPT ![s] = None] /\ UNCHANGED <<stash, token, count, x509>>
        BY <1>6 DEF UseCertificate
    <2> HIDE DEF Answered
    <2> QED BY <1>0, <1>5, <2>1, <2>2
<1>7. ASSUME NEW t \in Tasks, CertificateInUse(t)
      PROVE  EnrollTypes'
    BY <1>0, <1>1, <1>7 DEF CertificateInUse
<1>8. ASSUME NEW s \in Slots, Abandon(s)
      PROVE  EnrollTypes'
    BY <1>0, <1>5, <1>8 DEF Abandon
<1>9. ASSUME NEW s \in Slots, Stash(s)
      PROVE  EnrollTypes'
    <2>1. /\ live' = [live EXCEPT ![s] = None]
          /\ stash' \in Seq(StashRows) /\ UniqueIds(stash')
          /\ \A r : Holds(stash', r) <=> r = Row(count.handles + 1, live[s]) \/ Holds(stash, r)
          /\ count' \in CountType /\ count'.handles = count.handles + 1
          /\ UNCHANGED <<token, spent, x509>>
        BY <1>9, StashShape
    <2>2. live' \in [Slots -> Records \cup {None}]
        BY <1>0, <2>1
    <2>3. Row(count.handles + 1, live[s]).id = count.handles + 1
        BY DEF Row
    <2>4. ASSUME NEW r, Holds(stash', r) PROVE r.id <= count.handles + 1
        <3>1. CASE r = Row(count.handles + 1, live[s])
            BY <1>0, <3>1, <2>3
        <3>2. CASE Holds(stash, r)
            <4>1. r \in StashRows
                BY <1>0, <3>2 DEF Holds
            <4>2. r.id \in Nat
                BY <4>1, MaxIsNat DEF StashRows
            <4> QED BY <1>0, <3>2, <4>2
        <3> QED BY <2>1, <2>4, <3>1, <3>2
    <2>5. \A n \in 1 .. Len(stash') : stash'[n].id <= count'.handles
        <3>1. count.handles + 1 \in Nat
            BY <1>0
        <3>2. \A n \in 1 .. Len(stash') : stash'[n].id <= count.handles + 1
            BY <2>1, <2>4, <3>1, HandlesBounded
        <3> QED BY <2>1, <3>2
    <2> QED BY <1>0, <2>1, <2>2, <2>5 DEF EnrollTypes, CountType
<1>10. ASSUME NEW t \in Tasks, NEW h \in 1 .. MaxEnrollments, PopFind(t, h)
      PROVE  EnrollTypes'
    BY <1>0, <1>1, <1>10 DEF PopFind, enrollVars
<1>11. ASSUME NEW t \in Tasks, NEW s \in Slots, PopRemove(t, s)
      PROVE  EnrollTypes'
    <2>1. /\ task[t].arg.found \in Records
          /\ stash' \in Seq(StashRows) /\ UniqueIds(stash')
          /\ \/ /\ live' = [live EXCEPT ![s] = task[t].arg.found]
                /\ \A r : Holds(stash', r) <=> Holds(stash, r) /\ r.id # task[t].arg.handle
             \/ live' = live /\ stash' = stash
          /\ UNCHANGED <<token, count, spent, x509>>
        BY <1>11, PopRemoveShape
    <2>2. live' \in [Slots -> Records \cup {None}]
        BY <1>0, <2>1
    <2>3. \A r : Holds(stash', r) => r.id <= count.handles
        BY <1>0, <2>1
    <2>4. \A n \in 1 .. Len(stash') : stash'[n].id <= count.handles
        BY <1>0, <2>1, <2>3, HandlesBounded
    <2> QED BY <1>0, <2>1, <2>2, <2>4 DEF EnrollTypes, CountType
<1>12. CASE Restart
    <2>1. live' \in [Slots -> Records \cup {None}]
        BY <1>12 DEF Restart
    <2> QED BY <1>0, <1>1, <1>12, <2>1 DEF Restart
<1>13. CASE UNCHANGED vars
    BY <1>0, <1>1, <1>13 DEF vars, enrollVars
<1> QED BY <1>2, <1>3, <1>4, <1>6, <1>7, <1>8, <1>9, <1>10, <1>11, <1>12, <1>13 DEF EnrollmentNext

\* The initial states are typed.
LEMMA TypesInit == EnrollmentInit => PkiTypes /\ EnrollTypes
<1> SUFFICES ASSUME EnrollmentInit PROVE PkiTypes /\ EnrollTypes
    OBVIOUS
<1>1. certs \in CertsType
    BY EmptyTable DEF EnrollmentInit, PkiInit, CertsType
<1>2. UniqueIds(certs.ca) /\ UniqueIds(certs.inters) /\ UniqueIds(certs.crls)
    BY EmptyTable DEF EnrollmentInit, PkiInit
<1>3. env \in EnvType
    BY <1>1, SnapshotType DEF EnrollmentInit, PkiInit
<1>4. task \in [Tasks -> TaskType]
    BY DEF EnrollmentInit, PkiInit, TaskType
<1>5. EnrollTypes
    BY EmptyTable, MaxIsNat DEF EnrollmentInit, EnrollTypes
<1>6. unrefreshed \in BOOLEAN
    BY DEF EnrollmentInit, PkiInit
<1> QED BY <1>1, <1>2, <1>3, <1>4, <1>5, <1>6 DEF PkiTypes

\* The types hold in every reachable state.
LEMMA TypesAlways == EnrollmentSpec => [](PkiTypes /\ EnrollTypes)
<1>1. PkiTypes /\ EnrollTypes /\ [EnrollmentNext]_vars => (PkiTypes /\ EnrollTypes)'
    BY PkiTypesStep, EnrollTypesStep
<1> QED BY TypesInit, <1>1, PTL DEF EnrollmentSpec

\* A table whose rows all have one id has one row at most.
LEMMA OneRow ==
    ASSUME NEW S, NEW rows \in Seq(S), UniqueIds(rows), NEW id, \A r \in S : r.id = id
    PROVE  Len(rows) <= 1
<1> SUFFICES ASSUME Len(rows) >= 2 PROVE FALSE
    BY LenProperties
<1>1. rows[1].id = id /\ rows[2].id = id
    OBVIOUS
<1> QED BY <1>1 DEF UniqueIds

\* Rows, slots, tasks and the environment are what the tables and structs
\* declare; the tables of one row have one row at most, on both platforms.
THEOREM EnrollmentTypeCorrect == EnrollmentSpec => []EnrollmentTypeOK
<1>1. ASSUME PkiTypes, EnrollTypes PROVE EnrollmentTypeOK
    <2>1. \A s \in Slots : live[s] \in Records \cup {None}
        BY <1>1 DEF EnrollTypes
    <2>2. \A t \in Tasks : task[t] \in Registrations \cup Pops \cup {None}
        BY <1>1 DEF PkiTypes, TaskType
    <2>3. ASSUME NEW n \in 1 .. Len(stash)
          PROVE  stash[n].id \in 1 .. count.handles /\ stash[n].val \in Records
        <3>1. stash[n] \in StashRows
            BY <1>1 DEF EnrollTypes
        <3>2. stash[n].id \in 1 .. MaxEnrollments /\ stash[n].val \in Records
            BY <3>1 DEF StashRows
        <3>3. count.handles \in 0 .. MaxEnrollments /\ stash[n].id <= count.handles
            BY <1>1 DEF EnrollTypes
        <3> QED BY <3>2, <3>3, MaxIsNat
    <2>4. Len(token) <= 1
        <3>1. \A r \in TokenRows : r.id = "0"
            BY DEF TokenRows
        <3> QED BY <1>1, <3>1, OneRow DEF EnrollTypes
    <2>5. Len(certs.ca) <= 1
        <3>1. \A r \in CaRows : r.id = CaId
            BY DEF CaRows
        <3>2. certs.ca \in Seq(CaRows) /\ UniqueIds(certs.ca)
            BY <1>1 DEF PkiTypes, CertsType
        <3> QED BY <3>1, <3>2, OneRow
    <2>6. Snapshot(certs) \in EnvType /\ env \in EnvType
        BY <1>1, SnapshotType DEF PkiTypes
    <2>7. Registered(certs.ca) \subseteq Anchors /\ Registered(certs.crls) \subseteq ListType
          /\ env.inters \subseteq Intermediates
        BY <2>6 DEF Snapshot, EnvType
    <2>8. {spent, x509} \subseteq {"no", "answered", "unanswered"} /\ unrefreshed \in BOOLEAN
        BY <1>1 DEF PkiTypes, EnrollTypes
    <2> QED BY <2>1, <2>2, <2>3, <2>4, <2>5, <2>7, <2>8 DEF EnrollmentTypeOK
<1> QED BY <1>1, TypesAlways, PTL

-----------------------------------------------------------------------------
(* The environment.                                                        *)

\* Every step keeps the environment fresh outside of registrations.
LEMMA EnvFreshStep ==
    ASSUME PkiTypes, EnrollTypes, EnvFresh, [EnrollmentNext]_vars
    PROVE  EnvFresh'
<1> SUFFICES ASSUME \A t \in Tasks : task'[t] # None => task'[t].step # "env", ~unrefreshed'
             PROVE  env' = Snapshot(certs')
    BY DEF EnvFresh, Running, Snapshot
<1>1. CASE Quiet
    BY <1>1 DEF Quiet, pkiVars, EnvFresh, Running
<1>2. CASE Restarted
    BY <1>2 DEF Restarted
<1>3. ASSUME NEW t \in Tasks, Begun(t) PROVE env' = Snapshot(certs')
    <2>1. \A u \in Tasks : task[u] # None => task[u].step # "env"
        BY <1>3 DEF Begun, Others
    <2> QED BY <1>3, <2>1 DEF Begun, EnvFresh, Running
<1>4. ASSUME NEW t \in Tasks, Saved(t) PROVE FALSE
    BY <1>4 DEF Saved
<1>5. ASSUME NEW t \in Tasks, Ended(t) PROVE env' = Snapshot(certs')
    <2>1. CASE task[t].step = "env"
        BY <1>5, <2>1 DEF Ended, EndedWith
    <2>2. CASE task[t].step # "env"
        <3>1. \A u \in Tasks : task[u] # None => task[u].step # "env"
            BY <1>5, <2>2 DEF Ended, Others
        <3> QED BY <1>5, <2>2, <3>1 DEF Ended, EndedWith, EnvFresh, Running
    <2> QED BY <2>1, <2>2
<1> QED BY <1>1, <1>2, <1>3, <1>4, <1>5, PkiShape

\* Unless a registration is between its save and its refresh, credentials are
\* validated against exactly what is registered, with any number of calls in
\* progress and on both platforms: of saves that fail, restarts and
\* registrations that interleave none leaves a stale environment.  What does is
\* a refresh that returns an error (init_pki_env at the end of a registration),
\* until the next registration that succeeds or the next start.
THEOREM EnvironmentIsFresh == EnrollmentSpec => []EnvFresh
<1>1. EnrollmentInit => EnvFresh
    BY DEF EnrollmentInit, PkiInit, EnvFresh
<1>2. PkiTypes /\ EnrollTypes /\ EnvFresh /\ [EnrollmentNext]_vars => EnvFresh'
    BY EnvFreshStep
<1> QED BY <1>1, <1>2, TypesAlways, PTL DEF EnrollmentSpec

-----------------------------------------------------------------------------
(* The state of a conversation.                                            *)

\* The fold over the members, member by member.
LEMMA FoldUnfold ==
    ASSUME NEW e, NEW members \in Seq(Credential)
    PROVE  \E f : /\ f[0] = "Verified"
                  /\ \A n \in 0 .. Len(members) - 1 :
                        f[n + 1] = AfterMember(e, f[n], members[n + 1])
                  /\ ComputeState(e, members) =
                        IF \E n \in DOMAIN members : members[n] # None
                        THEN f[Len(members)] ELSE "NotEnabled"
<1> DEFINE Step(p, n) == AfterMember(e, p, members[n])
           Is(g, k) == g = [n \in 0 .. k |-> IF n = 0 THEN "Verified" ELSE Step(g[n - 1], n)]
           T == {k \in Nat : \E g : Is(g, k)}
           fold[n \in 0 .. Len(members)] == IF n = 0 THEN "Verified" ELSE Step(fold[n - 1], n)
<1>1. Len(members) \in Nat
    OBVIOUS
<1>2. 0 \in T
    <2>1. Is([n \in 0 .. 0 |-> "Verified"], 0)
        OBVIOUS
    <2> QED BY <2>1
<1>3. ASSUME NEW k \in Nat, k \in T PROVE k + 1 \in T
    <2>1. PICK g : Is(g, k)
        BY <1>3
    <2> DEFINE h == [n \in 0 .. k + 1 |-> IF n = k + 1 THEN Step(g[k], k + 1) ELSE g[n]]
    <2>2. ASSUME NEW n \in 0 .. k + 1
          PROVE  h[n] = IF n = 0 THEN "Verified" ELSE Step(h[n - 1], n)
        <3>1. CASE n = 0
            BY <2>1, <3>1
        <3>2. CASE n = k + 1
            <4>1. k \in 0 .. k + 1 /\ k # k + 1 /\ n # 0 /\ n - 1 = k
                BY <3>2
            <4> QED BY <3>2, <4>1
        <3>3. CASE n # 0 /\ n # k + 1
            <4>1. n \in 0 .. k /\ n - 1 \in 0 .. k
                BY <3>3
            <4>2. h[n] = g[n] /\ h[n - 1] = g[n - 1]
                BY <4>1, <3>3
            <4>3. g[n] = Step(g[n - 1], n)
                BY <4>1, <3>3, <2>1
            <4> HIDE DEF h, Step
            <4> QED BY <4>2, <4>3, <3>3
        <3> QED BY <3>1, <3>2, <3>3
    <2>3. Is(h, k + 1)
        BY <2>2
    <2> HIDE DEF h, Is
    <2> QED BY <2>3
<1>4. Len(members) \in T
    <2> HIDE DEF T
    <2>1. Nat \subseteq T
        BY <1>2, <1>3, NatSetInduction
    <2> QED BY <1>1, <2>1
<1>5. Is(fold, Len(members))
    BY <1>4
<1>6. ComputeState(e, members) =
        IF \E n \in DOMAIN members : members[n] # None THEN fold[Len(members)] ELSE "NotEnabled"
    BY DEF ComputeState
<1> HIDE DEF fold
<1>7. fold[0] = "Verified"
    BY <1>1, <1>5
<1>8. ASSUME NEW n \in 0 .. Len(members) - 1
      PROVE  fold[n + 1] = Step(fold[n], n + 1)
    <2>1. n + 1 \in 0 .. Len(members) /\ n + 1 # 0 /\ (n + 1) - 1 = n
        BY <1>1
    <2> QED BY <1>5, <2>1
<1> QED BY <1>6, <1>7, <1>8

\* A member whose certificate is in date and stands against environment e.
Stands(e, m) == m # None /\ ~m.expired /\ Validate(e, m.cert)

\* The state of a conversation, told from all its members at once.
StateOf(e, members) ==
    IF \A n \in 1 .. Len(members) : members[n] = None THEN "NotEnabled"
    ELSE IF \A n \in 1 .. Len(members) : Stands(e, members[n]) THEN "Verified"
    ELSE "NotVerified"

\* compute_state folds any number of members to the state told from all of
\* them: one member that does not stand is never masked by a later one.
LEMMA ComputedState ==
    ASSUME NEW e, NEW members \in Seq(Credential)
    PROVE  ComputeState(e, members) = StateOf(e, members)
<1> DEFINE N == Len(members)
           All(k) == \A n \in 1 .. k : Stands(e, members[n])
<1>0. N \in Nat /\ DOMAIN members = 1 .. N
    OBVIOUS
<1>1. PICK f : /\ f[0] = "Verified"
               /\ \A n \in 0 .. N - 1 : f[n + 1] = AfterMember(e, f[n], members[n + 1])
               /\ ComputeState(e, members) =
                     IF \E n \in DOMAIN members : members[n] # None THEN f[N] ELSE "NotEnabled"
    BY FoldUnfold
<1> DEFINE T == {k \in Nat : f[k] = IF All(k) THEN "Verified" ELSE "NotVerified"}
<1>2. 0 \in T
    BY <1>1
<1> HIDE DEF N
<1>3. ASSUME NEW k \in Nat, k < N, k \in T PROVE k + 1 \in T
    <2>1. f[k + 1] = AfterMember(e, f[k], members[k + 1])
        <3>1. k \in 0 .. N - 1
            BY <1>0, <1>3
        <3> QED BY <1>1, <3>1
    <2>2. f[k + 1] = IF Stands(e, members[k + 1]) THEN f[k] ELSE "NotVerified"
        BY <2>1 DEF AfterMember, Stands
    <2>3. All(k + 1) <=> All(k) /\ Stands(e, members[k + 1])
        <3>1. \A n \in 1 .. k + 1 : n \in 1 .. k \/ n = k + 1
            OBVIOUS
        <3>2. 1 .. k \subseteq 1 .. k + 1 /\ k + 1 \in 1 .. k + 1
            OBVIOUS
        <3> QED BY <3>1, <3>2
    <2>4. f[k] = IF All(k) THEN "Verified" ELSE "NotVerified"
        BY <1>3
    <2> HIDE DEF All
    <2>5. f[k + 1] = IF All(k + 1) THEN "Verified" ELSE "NotVerified"
        BY <2>2, <2>3, <2>4
    <2> QED BY <2>5
<1>4. N \in T
    <2> HIDE DEF T
    <2>1. 0 .. N \subseteq T
        BY <1>0, <1>2, <1>3, BoundedInduction
    <2> QED BY <1>0, <2>1
<1>5. f[N] = IF All(N) THEN "Verified" ELSE "NotVerified"
    BY <1>4
<1>6. StateOf(e, members) =
        IF \A n \in 1 .. N : members[n] = None THEN "NotEnabled"
        ELSE IF All(N) THEN "Verified" ELSE "NotVerified"
    BY DEF StateOf, N
<1> HIDE DEF All
<1> QED BY <1>0, <1>1, <1>5, <1>6

\* With no call in progress, and unless the last refresh failed, the environment
\* is the one that is registered.
LEMMA FreshWhenIdle ==
    ASSUME EnvFresh, Holding = {}, ~unrefreshed
    PROVE  env = Snapshot(certs)
<1>1. \A t \in Tasks : ~Running(t)
    BY DEF Holding
<1> QED BY <1>1 DEF EnvFresh

\* Validating a client's certificate against what is registered is finding a
\* chain to it in the keystore: a root, or an intermediate that no list names.
LEMMA ValidVouched ==
    ASSUME PkiTypes, NEW c \in Leaves
    PROVE  Validate(Snapshot(certs), c) <=> Vouched(c)
<1> DEFINE e == Snapshot(certs)
           i == IssuerOf[c]
           revoked == Revoked(Registered(certs.crls))
<1>1. e.roots = Registered(certs.ca) /\ e.inters = Registered(certs.inters)
      /\ Revoked(e.crls) = revoked
    BY DEF Snapshot
<1>2. e.roots \subseteq Anchors /\ e.inters \subseteq Intermediates
      /\ Registered(certs.crls) \subseteq ListType
    <2>1. e \in EnvType
        BY SnapshotType DEF PkiTypes
    <2> QED BY <2>1 DEF EnvType, Snapshot
<1>3. revoked \cap Anchors = {}
    <2>1. \A l \in Registered(certs.crls) : l.revoked \in Lists
        BY <1>2 DEF ListType
    <2> QED BY <2>1, PkiAssumption DEF Revoked
<1>4. i \in Anchors \cup Intermediates /\ c \notin Anchors
    BY PkiAssumption
<1>5. Vouched(c) <=>
        /\ c \notin revoked
        /\ \E root \in e.roots :
              \/ i = root
              \/ \E j \in e.inters \ revoked : i = j /\ IssuerOf[j] = root
    BY <1>1 DEF Vouched
<1>6. Validate(e, c) <=> Path(c) \ {c} \subseteq e.roots \cup e.inters /\ Path(c) \cap revoked = {}
    BY <1>1 DEF Validate
<1> HIDE DEF e, revoked
<1>7. CASE i \in Anchors
    <2>1. i \notin Intermediates
        BY <1>7, PkiAssumption
    <2>2. Path(c) = {c, i}
        BY <2>1 DEF Path
    <2>3. i # c
        BY <1>4, <1>7
    <2>4. Validate(e, c) <=> i \in e.roots /\ c \notin revoked
        BY <1>2, <1>3, <1>6, <1>7, <2>1, <2>2, <2>3
    <2>5. Vouched(c) <=> i \in e.roots /\ c \notin revoked
        BY <1>2, <1>5, <2>1
    <2> QED BY <2>4, <2>5 DEF e
<1>8. CASE i \in Intermediates
    <2> DEFINE root == IssuerOf[i]
    <2>1. root \in Anchors /\ root \notin Intermediates /\ i \notin Anchors
        BY <1>8, PkiAssumption
    <2>2. Path(c) = {c, i, root}
        BY <1>8 DEF Path
    <2>3. root # c
        BY <1>4, <2>1
    <2>4. Vouched(c) <=> i \in e.inters /\ i \notin revoked /\ root \in e.roots /\ c \notin revoked
        BY <1>2, <1>5, <2>1
    <2>5. CASE i = c
        <3>1. c \in revoked <=> i \in revoked
            BY <2>5
        <3> QED BY <1>2, <1>3, <1>6, <2>1, <2>2, <2>3, <2>4, <2>5 DEF e
    <2>6. CASE i # c
        <3>1. Validate(e, c) <=> i \in e.inters /\ root \in e.roots /\ c \notin revoked /\ i \notin revoked
            BY <1>2, <1>3, <1>6, <2>1, <2>2, <2>3, <2>6
        <3> QED BY <2>4, <3>1 DEF e
    <2> QED BY <2>5, <2>6
<1> QED BY <1>4, <1>7, <1>8

\* A member whose certificate is in date and has a chain in the keystore.
Valid(m) == m # None /\ ~m.expired /\ Vouched(m.cert)

\* The state of every conversation, whatever the number of its members, is the
\* one that follows from the certificates and lists in the keystore
\* (compute_state, read under the central's lock).
StateOfAllIsTrue ==
    Holding = {} /\ ~unrefreshed =>
        \A members \in Seq(Credential) :
            ComputeState(env, members) =
                IF \A n \in 1 .. Len(members) : members[n] = None THEN "NotEnabled"
                ELSE IF \A n \in 1 .. Len(members) : Valid(members[n]) THEN "Verified"
                ELSE "NotVerified"

\* The members that stand against the registered environment are the valid ones.
LEMMA StandsValid ==
    ASSUME PkiTypes, NEW m \in Credential
    PROVE  Stands(Snapshot(certs), m) <=> Valid(m)
<1>1. m # None => m.cert \in Leaves
    BY DEF Credential
<1> QED BY <1>1, ValidVouched DEF Stands, Valid

\* Two members are the case the run checks.
LEMMA StatesAreTrue ==
    ASSUME PkiTypes, EnvFresh
    PROVE  StateIsTrue /\ StateOfAllIsTrue
<1>1. StateOfAllIsTrue
    <2> SUFFICES ASSUME Holding = {}, ~unrefreshed, NEW members \in Seq(Credential)
                 PROVE  ComputeState(env, members) =
                          IF \A n \in 1 .. Len(members) : members[n] = None THEN "NotEnabled"
                          ELSE IF \A n \in 1 .. Len(members) : Valid(members[n]) THEN "Verified"
                          ELSE "NotVerified"
        BY DEF StateOfAllIsTrue
    <2>1. ComputeState(env, members) = StateOf(Snapshot(certs), members)
        BY FreshWhenIdle, ComputedState
    <2>2. \A n \in 1 .. Len(members) : Stands(Snapshot(certs), members[n]) <=> Valid(members[n])
        BY StandsValid
    <2> QED BY <2>1, <2>2 DEF StateOf
<1>2. ASSUME Holding = {}, ~unrefreshed, NEW a \in Credential, NEW b \in Credential
      PROVE  ComputeState(env, <<a, b>>) =
               CASE Valid(a) /\ Valid(b) -> "Verified"
                 [] a = None /\ b = None -> "NotEnabled"
                 [] OTHER -> "NotVerified"
    <2> DEFINE ab == <<a, b>>
    <2>1. ab \in Seq(Credential) /\ Len(ab) = 2 /\ ab[1] = a /\ ab[2] = b
        OBVIOUS
    <2>2. ComputeState(env, ab) =
            IF \A n \in 1 .. Len(ab) : ab[n] = None THEN "NotEnabled"
            ELSE IF \A n \in 1 .. Len(ab) : Valid(ab[n]) THEN "Verified"
            ELSE "NotVerified"
        BY <1>1, <1>2, <2>1 DEF StateOfAllIsTrue
    <2>3. \A n \in 1 .. Len(ab) : n = 1 \/ n = 2
        BY <2>1
    <2>4. 1 \in 1 .. Len(ab) /\ 2 \in 1 .. Len(ab)
        BY <2>1
    <2>5. (Valid(a) => a # None) /\ (Valid(b) => b # None)
        BY DEF Valid
    <2> HIDE DEF ab
    <2>6. (\A n \in 1 .. Len(ab) : ab[n] = None) <=> a = None /\ b = None
        BY <2>1, <2>3, <2>4
    <2>7. (\A n \in 1 .. Len(ab) : Valid(ab[n])) <=> Valid(a) /\ Valid(b)
        BY <2>1, <2>3, <2>4
    <2>8. ComputeState(env, ab) =
            IF a = None /\ b = None THEN "NotEnabled"
            ELSE IF Valid(a) /\ Valid(b) THEN "Verified" ELSE "NotVerified"
        BY <2>2, <2>6, <2>7
    <2>9. ComputeState(env, ab) =
              CASE Valid(a) /\ Valid(b) -> "Verified"
                [] a = None /\ b = None -> "NotEnabled"
                [] OTHER -> "NotVerified"
        BY <2>5, <2>8
    <2> QED BY <2>9 DEF ab
<1>3. StateIsTrue
    BY <1>2, Zenon DEF StateIsTrue, Valid
<1> QED BY <1>1, <1>3

\* e2ei_conversation_state shows what follows from the roots, intermediates and
\* lists in the keystore, after any registrations and restarts, unless the last
\* registration returned the error of its refresh.
THEOREM ConversationStateIsTrue == EnrollmentSpec => []StateIsTrue
<1>1. PkiTypes /\ EnvFresh => StateIsTrue
    BY StatesAreTrue
<1> QED BY <1>1, TypesAlways, EnvironmentIsFresh, PTL

\* The same for a conversation of any number of members.
THEOREM EveryConversationStateIsTrue == EnrollmentSpec => []StateOfAllIsTrue
<1>1. PkiTypes /\ EnvFresh => StateOfAllIsTrue
    BY StatesAreTrue
<1> QED BY <1>1, TypesAlways, EnvironmentIsFresh, PTL

-----------------------------------------------------------------------------
(* Whom the registered intermediates were issued by.                       *)

\* On SQLCipher a root is never replaced.  What the environment trusts, what an
\* intermediate that is about to be saved was checked against and what signed
\* the saved ones is therefore still the registered root.
Anchored ==
    /\ env.roots \subseteq Registered(certs.ca)
    /\ \A r : Holds(certs.inters, r) => IssuerOf[r.id] \in Registered(certs.ca)
    /\ \A t \in Tasks : Running(t) /\ task[t].op \in InterSteps =>
          IssuerOf[task[t].arg] \in Registered(certs.ca)

\* Every step keeps the registered root behind everything that is trusted.
LEMMA AnchoredStep ==
    ASSUME Platform = "generic", PkiTypes, EnrollTypes, Anchored, [EnrollmentNext]_vars
    PROVE  Anchored'
<1>1. CASE Quiet
    BY <1>1 DEF Quiet, pkiVars, Anchored, Running
<1>2. CASE Restarted
    <2>1. env'.roots = Registered(certs.ca)
        BY <1>2 DEF Restarted, Snapshot
    <2> QED BY <1>2, <2>1 DEF Restarted, Anchored, Running
<1>3. ASSUME NEW t \in Tasks, Begun(t) PROVE Anchored'
    <2>1. task'[t] \in TaskType /\ task'[t] # None
        BY <1>3 DEF Begun
    <2>2. ASSUME task'[t].op \in InterSteps
          PROVE  IssuerOf[task'[t].arg] \in Registered(certs.ca)
        <3>1. task'[t].arg \in Intermediates
            BY <2>1, <2>2, TaskFields
        <3>2. IssuerOf[task'[t].arg] \in Anchors
            BY <3>1, PkiAssumption
        <3>3. IssuerOf[task'[t].arg] \in env.roots \cup env.inters
            <4>1. IssuerOf[task'[t].arg] \in Path(task'[t].arg) \ {task'[t].arg}
                BY <3>1, <3>2, PkiAssumption DEF Path
            <4>2. Validate(env, task'[t].arg)
                BY <1>3, <2>2 DEF Begun, BegunFor, MayRegister
            <4> QED BY <4>1, <4>2 DEF Validate
        <3>4. env.inters \subseteq Intermediates
            BY DEF PkiTypes, EnvType
        <3>5. IssuerOf[task'[t].arg] \in env.roots
            BY <3>2, <3>3, <3>4, PkiAssumption
        <3> QED BY <3>5 DEF Anchored
    <2> QED BY <1>3, <2>2 DEF Begun, Others, Anchored, Running
<1>4. ASSUME NEW t \in Tasks, Saved(t) PROVE Anchored'
    <2>1. Registered(certs.ca) \subseteq Registered(certs'.ca)
        BY <1>4, RegisteredHeld DEF Saved
    <2>2. ASSUME task[t].op \in InterSteps
          PROVE  IssuerOf[task[t].arg] \in Registered(certs.ca)
        BY <1>4, <2>2 DEF Saved, Anchored, Running
    <2>3. ASSUME NEW r, Holds(certs'.inters, r)
          PROVE  IssuerOf[r.id] \in Registered(certs.ca)
        <3>1. CASE Holds(certs.inters, r)
            BY <3>1 DEF Anchored
        <3>2. CASE task[t].op \in InterSteps /\ r = Row(task[t].arg, task[t].arg)
            <4>1. r.id = task[t].arg
                BY <3>2 DEF Row
            <4> QED BY <2>2, <3>2, <4>1
        <3> QED BY <1>4, <2>3, <3>1, <3>2 DEF Saved
    <2>4. ASSUME NEW u \in Tasks, task'[u] # None, task'[u].op \in InterSteps
          PROVE  IssuerOf[task'[u].arg] \in Registered(certs.ca)
        BY <1>4, <2>2, <2>4 DEF Saved, Others, Anchored, Running
    <2>5. env'.roots \subseteq Registered(certs.ca)
        BY <1>4 DEF Saved, Anchored
    <2> QED BY <2>1, <2>3, <2>4, <2>5 DEF Anchored, Running
<1>5. ASSUME NEW t \in Tasks, Ended(t) PROVE Anchored'
    <2>1. env'.roots \subseteq Registered(certs.ca)
        BY <1>5 DEF Ended, EndedWith, Snapshot, Anchored
    <2> QED BY <1>5, <2>1 DEF Ended, Others, Anchored, Running
<1> QED BY <1>1, <1>2, <1>3, <1>4, <1>5, PkiShape

\* With SQLCipher every registered intermediate was issued by the registered
\* root, although a registration checks, saves and refreshes in three steps.
\* (On WASM a second root may replace the first: the finding.)
THEOREM IntermediatesStayTrusted ==
    Platform = "generic" => (EnrollmentSpec => []IntermediatesTrusted)
<1> SUFFICES ASSUME Platform = "generic"
             PROVE  EnrollmentSpec => []IntermediatesTrusted
    OBVIOUS
<1>1. EnrollmentInit => Anchored
    <2> SUFFICES ASSUME EnrollmentInit PROVE Anchored
        OBVIOUS
    <2>1. env.roots = Registered(certs.ca)
        BY DEF EnrollmentInit, PkiInit, Snapshot
    <2>2. \A r : ~Holds(certs.inters, r)
        BY EmptyTable DEF EnrollmentInit, PkiInit
    <2>3. \A t \in Tasks : ~Running(t)
        BY DEF EnrollmentInit, PkiInit, Running
    <2> QED BY <2>1, <2>2, <2>3 DEF Anchored
<1>2. PkiTypes /\ EnrollTypes /\ Anchored /\ [EnrollmentNext]_vars => Anchored'
    BY AnchoredStep
<1>3. Anchored => IntermediatesTrusted
    BY DEF Anchored, IntermediatesTrusted, Holds
<1> QED BY <1>1, <1>2, <1>3, TypesAlways, PTL DEF EnrollmentSpec

-----------------------------------------------------------------------------
(* Where an enrollment is.                                                 *)

Popping(t) == Running(t) /\ task[t].op = "e2ei_enrollment_stash_pop"

\* UniFFI's mutex lets one call in, and what a pop found stays in the stash
\* until it removes it.
OnePlace ==
    /\ \A t, u \in Tasks : Running(t) /\ Running(u) => t = u
    /\ \A t \in Tasks : Popping(t) => Holds(stash, Row(task[t].arg.handle, task[t].arg.found))
    /\ \A s \in Slots : live[s] # None => live[s].id <= count.enrollments
    /\ \A r : Holds(stash, r) => r.val.id <= count.enrollments
    /\ \A s, u \in Slots : live[s] # None /\ live[u] # None /\ live[s].id = live[u].id => s = u
    /\ \A r, q : Holds(stash, r) /\ Holds(stash, q) /\ r.val.id = q.val.id => r = q
    /\ \A s \in Slots : \A r : live[s] # None /\ Holds(stash, r) => live[s].id # r.val.id

\* One call at a time, and what a pop found stays in the stash while it runs.
LEMMA SoloStep ==
    ASSUME Platform = "generic", PkiTypes, EnrollTypes, OnePlace, [EnrollmentNext]_vars
    PROVE  /\ \A t, u \in Tasks : Running(t)' /\ Running(u)' => t = u
           /\ \A t \in Tasks : Popping(t)' => Holds(stash, Row(task'[t].arg.handle, task'[t].arg.found))
<1>1. CASE Quiet
    BY <1>1 DEF Quiet, pkiVars, OnePlace, Popping, Running
<1>2. CASE Restarted
    BY <1>2 DEF Restarted, Popping, Running
<1>3. ASSUME NEW t \in Tasks, Begun(t)
      PROVE  \A u \in Tasks : Running(u)' => u = t
    BY <1>3 DEF Begun, Others, Running
<1>4. ASSUME NEW t \in Tasks, Begun(t), Popping(t)'
      PROVE  Holds(stash, Row(task'[t].arg.handle, task'[t].arg.found))
    BY <1>4 DEF Begun, BegunFor, Popping
<1>5. ASSUME NEW t \in Tasks, Saved(t) \/ Ended(t)
      PROVE  \A u \in Tasks : Running(u)' => Running(u) /\ task'[u].op = task[u].op /\ task'[u].arg = task[u].arg
    BY <1>5 DEF Saved, Ended, Others, Running
<1>6. ASSUME NEW t \in Tasks, Saved(t) \/ Ended(t)
      PROVE  /\ \A v, u \in Tasks : Running(v)' /\ Running(u)' => v = u
             /\ \A v \in Tasks : Popping(v)' => Holds(stash, Row(task'[v].arg.handle, task'[v].arg.found))
    BY <1>5, <1>6 DEF OnePlace, Popping
<1>7. ASSUME NEW t \in Tasks, Begun(t)
      PROVE  /\ \A v, u \in Tasks : Running(v)' /\ Running(u)' => v = u
             /\ \A v \in Tasks : Popping(v)' => Holds(stash, Row(task'[v].arg.handle, task'[v].arg.found))
    BY <1>3, <1>4, <1>7 DEF Popping
<1> QED BY <1>1, <1>2, <1>6, <1>7, PkiShape

\* Ids are numbers.
LEMMA IdsAreNat ==
    ASSUME EnrollTypes
    PROVE  /\ count.enrollments \in Nat
           /\ \A s \in Slots : live[s] # None => live[s] \in Records /\ live[s].id \in Nat
           /\ \A r : Holds(stash, r) => r \in StashRows /\ r.val \in Records /\ r.val.id \in Nat
<1>1. \A e \in Records : e.id \in Nat
    BY MaxIsNat DEF Records
<1>2. \A r \in StashRows : r.val \in Records
    BY DEF StashRows
<1>3. \A r : Holds(stash, r) => r \in StashRows
    BY DEF Holds, EnrollTypes
<1> QED BY <1>1, <1>2, <1>3, MaxIsNat DEF EnrollTypes

\* Every step leaves an enrollment in one place.
LEMMA OnePlaceStep ==
    ASSUME Platform = "generic", PkiTypes, EnrollTypes, OnePlace, [EnrollmentNext]_vars
    PROVE  OnePlace'
<1>0. /\ live \in [Slots -> Records \cup {None}]
      /\ count.enrollments \in Nat
      /\ \A s \in Slots : live[s] # None => live[s] \in Records /\ live[s].id \in Nat
      /\ \A r : Holds(stash, r) => r.val \in Records /\ r.val.id \in Nat
    BY IdsAreNat DEF EnrollTypes
<1>a. /\ \A t, u \in Tasks : Running(t)' /\ Running(u)' => t = u
      /\ \A t \in Tasks : Popping(t)' => Holds(stash, Row(task'[t].arg.handle, task'[t].arg.found))
    BY SoloStep
<1>1. ASSUME UNCHANGED <<live, stash, count>>
      PROVE  OnePlace'
    BY <1>1, <1>a DEF OnePlace
<1>2. ASSUME NEW s \in Slots, live' = [live EXCEPT ![s] = None], UNCHANGED <<stash, count>>
      PROVE  OnePlace'
    <2>1. \A u \in Slots : live'[u] # None => live'[u] = live[u] /\ live[u] # None
        BY <1>0, <1>2
    <2> QED BY <1>2, <1>a, <2>1 DEF OnePlace
<1>3. ASSUME NEW s \in Slots, NewEnrollment(s) \/ NewRotateEnrollment(s)
      PROVE  OnePlace'
    <2>1. PICK e \in Records : live' = [live EXCEPT ![s] = e] /\ e.id = count.enrollments + 1
        BY <1>3, NewEnrollmentShape
    <2>2. stash' = stash /\ count'.enrollments = count.enrollments + 1
        BY <1>3, NewEnrollmentShape
    <2>3. live'[s] = e /\ \A u \in Slots : u # s => live'[u] = live[u]
        BY <1>0, <2>1
    <2>4. \A u \in Slots : live[u] # None => live[u].id # e.id /\ live[u].id <= count.enrollments + 1
        BY <1>0, <2>1 DEF OnePlace
    <2>5. \A r : Holds(stash, r) => r.val.id # e.id /\ r.val.id <= count.enrollments + 1
        BY <1>0, <2>1 DEF OnePlace
    <2> QED BY <1>0, <1>a, <2>1, <2>2, <2>3, <2>4, <2>5 DEF OnePlace
<1>4. ASSUME NEW s \in Slots, NEW x \in Exchanges, NEW lost \in BOOLEAN, Exchange(s, x, lost)
      PROVE  OnePlace'
    <2>1. PICK e \in Records : live' = [live EXCEPT ![s] = e] /\ e.id = live[s].id
        BY <1>4, ExchangeShape
    <2>2. stash' = stash /\ count'.enrollments = count.enrollments /\ live[s] \in Records
        BY <1>4, ExchangeShape
    <2>3. live[s] # None
        BY <2>2, NoEnrollmentAssumption
    <2>4. \A u \in Slots : live'[u] # None => live[u] # None /\ live'[u].id = live[u].id
        BY <1>0, <2>1, <2>3
    <2> QED BY <1>a, <2>2, <2>4 DEF OnePlace
<1>5. ASSUME NEW s \in Slots, Stash(s)
      PROVE  OnePlace'
    <2>1. /\ live[s] \in Records
          /\ live' = [live EXCEPT ![s] = None]
          /\ \A r : Holds(stash', r) <=> r = Row(count.handles + 1, live[s]) \/ Holds(stash, r)
          /\ count'.enrollments = count.enrollments
        BY <1>5, StashShape
    <2>2. live[s] # None
        BY <2>1, NoEnrollmentAssumption
    <2>3. Row(count.handles + 1, live[s]).val = live[s]
        BY DEF Row
    <2>4. \A u \in Slots : live'[u] # None => live'[u] = live[u] /\ live[u] # None /\ u # s
        BY <1>0, <2>1
    <2> QED BY <1>a, <2>1, <2>2, <2>3, <2>4 DEF OnePlace
<1>6. ASSUME NEW t \in Tasks, NEW s \in Slots, PopRemove(t, s)
      PROVE  OnePlace'
    <2>1. /\ task[t] # None /\ task[t].op = "e2ei_enrollment_stash_pop"
          /\ task[t].arg.found \in Records
          /\ \/ /\ live[s] = None
                /\ live' = [live EXCEPT ![s] = task[t].arg.found]
                /\ \A r : Holds(stash', r) <=> Holds(stash, r) /\ r.id # task[t].arg.handle
             \/ live' = live /\ stash' = stash
          /\ count' = count
          /\ End(t)
        BY <1>6, PopRemoveShape
    <2>2. CASE live' = live /\ stash' = stash
        BY <1>1, <2>1, <2>2
    <2>3. CASE /\ live[s] = None
               /\ live' = [live EXCEPT ![s] = task[t].arg.found]
               /\ \A r : Holds(stash', r) <=> Holds(stash, r) /\ r.id # task[t].arg.handle
        <3> DEFINE r0 == Row(task[t].arg.handle, task[t].arg.found)
        <3>1. Holds(stash, r0)
            BY <2>1 DEF OnePlace, Popping, Running
        <3>2. r0.id = task[t].arg.handle /\ r0.val = task[t].arg.found
            BY DEF Row
        <3> HIDE DEF r0
        <3>3. task'[t] = None /\ \A u \in Tasks : u # t => task'[u] = task[u]
            BY <2>1, TaskEnds DEF PkiTypes
        <3>4. \A u \in Tasks : ~Running(u)'
            BY <2>1, <3>3 DEF OnePlace, Running
        <3>5. live'[s] = r0.val /\ \A u \in Slots : u # s => live'[u] = live[u]
            BY <1>0, <2>1, <2>3, <3>2
        <3>6. \A q : Holds(stash', q) => Holds(stash, q) /\ q # r0
            BY <2>3, <3>2
        <3>7. \A q : Holds(stash', q) => q.val.id # r0.val.id
            BY <3>1, <3>6 DEF OnePlace
        <3>8. \A u \in Slots : u # s /\ live[u] # None => live[u].id # r0.val.id
            BY <3>1 DEF OnePlace
        <3>9. /\ \A u \in Slots : live'[u] # None => live'[u].id <= count.enrollments
              /\ \A r : Holds(stash', r) => r.val.id <= count.enrollments
            BY <3>1, <3>5, <3>6 DEF OnePlace
        <3>10. \A v, u \in Slots : live'[v] # None /\ live'[u] # None /\ live'[v].id = live'[u].id => v = u
            BY <3>5, <3>8 DEF OnePlace
        <3>11. \A r, q : Holds(stash', r) /\ Holds(stash', q) /\ r.val.id = q.val.id => r = q
            BY <3>6 DEF OnePlace
        <3>12. \A u \in Slots : \A r : live'[u] # None /\ Holds(stash', r) => live'[u].id # r.val.id
            BY <3>5, <3>6, <3>7 DEF OnePlace
        <3> QED BY <1>a, <2>1, <3>4, <3>9, <3>10, <3>11, <3>12 DEF OnePlace, Popping
    <2> QED BY <2>1, <2>2, <2>3
<1>7. CASE Restart
    <2>1. \A s \in Slots : live'[s] = None
        BY <1>7 DEF Restart
    <2> QED BY <1>7, <1>a, <2>1 DEF Restart, OnePlace
<1>8. CASE PkiStep /\ UNCHANGED enrollVars
    BY <1>1, <1>8 DEF enrollVars
<1>9. ASSUME NEW t \in Tasks, NEW s \in Slots, NEW c \in Intermediates, UseCertificate(t, s, c)
      PROVE  OnePlace'
    BY <1>2, <1>9 DEF UseCertificate
<1>10. ASSUME NEW t \in Tasks, CertificateInUse(t)
       PROVE  OnePlace'
    BY <1>1, <1>10 DEF CertificateInUse
<1>11. ASSUME NEW s \in Slots, Abandon(s)
       PROVE  OnePlace'
    BY <1>2, <1>11 DEF Abandon
<1>12. ASSUME NEW t \in Tasks, NEW h \in 1 .. MaxEnrollments, PopFind(t, h)
       PROVE  OnePlace'
    BY <1>1, <1>12 DEF PopFind, enrollVars
<1>13. CASE UNCHANGED vars
    BY <1>1, <1>13 DEF vars, enrollVars
<1> QED BY <1>3, <1>4, <1>5, <1>6, <1>7, <1>8, <1>9, <1>10, <1>11, <1>12, <1>13 DEF EnrollmentNext

\* A set in which all are the same has at most one element.
LEMMA AtMostOne ==
    ASSUME NEW S, \A a, b \in S : a = b
    PROVE  Cardinality(S) <= 1
<1>1. CASE S = {}
    BY <1>1, FS_EmptySet
<1>2. CASE S # {}
    <2>1. PICK a : S = {a}
        BY <1>2
    <2> QED BY <2>1, FS_Singleton
<1> QED BY <1>1, <1>2

\* With UniFFI's mutex an enrollment is never in two places: not in two slots
\* of the application, not in two rows of the stash, and not in both, although
\* a pop finds the row and removes it in two steps and the application may die
\* between them.
THEOREM EnrollmentHeldOnce == Platform = "generic" => (EnrollmentSpec => []HeldOnce)
<1> SUFFICES ASSUME Platform = "generic" PROVE EnrollmentSpec => []HeldOnce
    OBVIOUS
<1>1. EnrollmentInit => OnePlace
    <2> SUFFICES ASSUME EnrollmentInit PROVE OnePlace
        OBVIOUS
    <2>1. \A r : ~Holds(stash, r)
        BY EmptyTable DEF EnrollmentInit
    <2>2. (\A t \in Tasks : ~Running(t)) /\ (\A s \in Slots : live[s] = None)
        BY DEF EnrollmentInit, PkiInit, Running
    <2> QED BY <2>1, <2>2 DEF OnePlace, Popping
<1>2. PkiTypes /\ EnrollTypes /\ OnePlace /\ [EnrollmentNext]_vars => OnePlace'
    BY OnePlaceStep
<1>3. PkiTypes /\ EnrollTypes /\ OnePlace => HeldOnce
    <2> SUFFICES ASSUME EnrollTypes, OnePlace, NEW id \in 1 .. MaxEnrollments,
                        NEW a \in Places(id), NEW b \in Places(id)
                 PROVE  a = b
        BY AtMostOne DEF HeldOnce
    <2>1. ASSUME NEW p \in Places(id)
          PROVE  \/ \E s \in Slots : p = <<"live", s>> /\ live[s] # None /\ live[s].id = id
                 \/ \E n \in 1 .. Len(stash) :
                      p = <<"stash", n>> /\ Holds(stash, stash[n]) /\ stash[n].val.id = id
        BY DEF Places, Holds
    <2>2. ASSUME NEW m \in 1 .. Len(stash), NEW n \in 1 .. Len(stash), stash[m] = stash[n]
          PROVE  m = n
        BY <2>2 DEF EnrollTypes, UniqueIds
    <2> QED BY <2>1, <2>2 DEF OnePlace
<1> QED BY <1>1, <1>2, <1>3, TypesAlways, PTL DEF EnrollmentSpec

-----------------------------------------------------------------------------
(* The refresh token.                                                      *)

\* The response to the OIDC challenge stored the token; nothing deletes it.
TokenKept(e, rows) == "oidc" \in e.has => rows # << >>

Tokens ==
    /\ "answered" \in {spent, x509} => token # << >>
    /\ \A s \in Slots : live[s] # None => TokenKept(live[s], token)
    /\ \A r : Holds(stash, r) => TokenKept(r.val, token)
    /\ \A t \in Tasks : Popping(t) => TokenKept(task[t].arg.found, token)

\* A pop finds the token kept.
LEMMA TokenTasksStep ==
    ASSUME PkiTypes, EnrollTypes, Tokens, [EnrollmentNext]_vars
    PROVE  \A t \in Tasks : Popping(t)' => TokenKept(task'[t].arg.found, token)
<1>1. CASE Quiet
    BY <1>1 DEF Quiet, pkiVars, Tokens, Popping, Running
<1>2. CASE Restarted
    BY <1>2 DEF Restarted, Popping, Running
<1>3. ASSUME NEW t \in Tasks, Begun(t), Popping(t)'
      PROVE  TokenKept(task'[t].arg.found, token)
    <2>1. Holds(stash, Row(task'[t].arg.handle, task'[t].arg.found))
        BY <1>3 DEF Begun, BegunFor, Popping
    <2>2. Row(task'[t].arg.handle, task'[t].arg.found).val = task'[t].arg.found
        BY DEF Row
    <2> QED BY <2>1, <2>2 DEF Tokens
<1>4. ASSUME NEW t \in Tasks, Begun(t), NEW u \in Tasks, u # t, Running(u)'
      PROVE  Running(u) /\ task'[u] = task[u]
    BY <1>4 DEF Begun, Others, Running
<1>5. ASSUME NEW t \in Tasks, Saved(t) \/ Ended(t), NEW u \in Tasks, Running(u)'
      PROVE  Running(u) /\ task'[u].op = task[u].op /\ task'[u].arg = task[u].arg
    BY <1>5 DEF Saved, Ended, Others, Running
<1>6. ASSUME NEW t \in Tasks, Begun(t) \/ Saved(t) \/ Ended(t), NEW u \in Tasks
      PROVE  Popping(u)' => TokenKept(task'[u].arg.found, token)
    BY <1>3, <1>4, <1>5, <1>6 DEF Tokens, Popping
<1> QED BY <1>1, <1>2, <1>6, PkiShape

\* Every step keeps a refresh token for those that need one.
LEMMA TokensStep ==
    ASSUME Platform = "generic", PkiTypes, EnrollTypes, Tokens, [EnrollmentNext]_vars
    PROVE  Tokens'
<1>0. live \in [Slots -> Records \cup {None}]
    BY DEF EnrollTypes
<1>a. \A t \in Tasks : Popping(t)' => TokenKept(task'[t].arg.found, token)
    BY TokenTasksStep
\* It is enough to look at what a step puts into slots and rows.
<1>1. ASSUME token # << >> => token' # << >>,
             "answered" \in {spent', x509'} => "answered" \in {spent, x509} \/ token # << >>,
             \A s \in Slots : live'[s] # None =>
                \/ live[s] # None /\ live'[s] = live[s]
                \/ TokenKept(live'[s], token')
                \/ TokenKept(live'[s], token),
             \A r : Holds(stash', r) => Holds(stash, r) \/ TokenKept(r.val, token)
      PROVE  Tokens'
    <2>1. \A e : TokenKept(e, token) => TokenKept(e, token')
        BY <1>1 DEF TokenKept
    <2> QED BY <1>1, <1>a, <2>1 DEF Tokens
<1>2. ASSUME UNCHANGED <<live, stash, token, spent, x509>>
      PROVE  Tokens'
    BY <1>1, <1>2 DEF Tokens
<1>3. ASSUME NEW s \in Slots, live' = [live EXCEPT ![s] = None], UNCHANGED <<stash, token, spent, x509>>
      PROVE  Tokens'
    <2>1. \A u \in Slots : live'[u] # None => live[u] # None /\ live'[u] = live[u]
        BY <1>0, <1>3
    <2> QED BY <1>1, <1>3, <2>1
<1>4. ASSUME NEW s \in Slots, NewEnrollment(s) \/ NewRotateEnrollment(s)
      PROVE  Tokens'
    <2>1. PICK e \in Records : live' = [live EXCEPT ![s] = e] /\ e.has = {}
        BY <1>4, NewEnrollmentShape
    <2>2. UNCHANGED <<stash, token, spent, x509>>
        BY <1>4, NewEnrollmentShape
    <2>3. TokenKept(e, token)
        BY <2>1 DEF TokenKept
    <2>4. \A u \in Slots : live'[u] # None => (live[u] # None /\ live'[u] = live[u]) \/ live'[u] = e
        BY <1>0, <2>1
    <2> QED BY <1>1, <2>2, <2>3, <2>4
<1>5. ASSUME NEW s \in Slots, NEW x \in Exchanges, NEW lost \in BOOLEAN, Exchange(s, x, lost)
      PROVE  Tokens'
    <2>1. PICK e \in Records :
             /\ live' = [live EXCEPT ![s] = e]
             /\ e.has = (live[s].has \ Takes(x)) \cup (IF lost THEN {} ELSE {x})
        BY <1>5, ExchangeShape
    <2>2. /\ live[s] \in Records
          /\ token # << >> => token' # << >>
          /\ x = "oidc" /\ ~lost => token' # << >>
          /\ UNCHANGED <<stash, spent, x509>>
        BY <1>5, ExchangeShape
    <2>3. live[s] # None /\ TokenKept(live[s], token)
        BY <2>2, NoEnrollmentAssumption DEF Tokens
    <2>4. "oidc" \in e.has => "oidc" \in live[s].has \/ (x = "oidc" /\ ~lost)
        BY <2>1
    <2>5. TokenKept(e, token')
        BY <2>2, <2>3, <2>4 DEF TokenKept
    <2>6. \A u \in Slots : live'[u] # None => (live[u] # None /\ live'[u] = live[u]) \/ live'[u] = e
        BY <1>0, <2>1
    <2>7. \A u \in Slots : live'[u] = e => TokenKept(live'[u], token')
        BY <2>5 DEF TokenKept
    <2> QED BY <1>1, <2>2, <2>6, <2>7
<1>6. ASSUME NEW s \in Slots, Stash(s)
      PROVE  Tokens'
    <2>1. /\ live[s] \in Records
          /\ live' = [live EXCEPT ![s] = None]
          /\ \A r : Holds(stash', r) <=> r = Row(count.handles + 1, live[s]) \/ Holds(stash, r)
          /\ UNCHANGED <<token, spent, x509>>
        BY <1>6, StashShape
    <2>2. TokenKept(live[s], token) /\ Row(count.handles + 1, live[s]).val = live[s]
        BY <2>1, NoEnrollmentAssumption DEF Tokens, Row
    <2>3. \A u \in Slots : live'[u] # None => live[u] # None /\ live'[u] = live[u]
        BY <1>0, <2>1
    <2> QED BY <1>1, <2>1, <2>2, <2>3
<1>7. ASSUME NEW t \in Tasks, NEW s \in Slots, PopRemove(t, s)
      PROVE  Tokens'
    <2>1. /\ task[t] # None /\ task[t].op = "e2ei_enrollment_stash_pop"
          /\ \/ /\ live' = [live EXCEPT ![s] = task[t].arg.found]
                /\ \A r : Holds(stash', r) <=> Holds(stash, r) /\ r.id # task[t].arg.handle
             \/ live' = live /\ stash' = stash
          /\ UNCHANGED <<token, spent, x509>>
        BY <1>7, PopRemoveShape
    <2>2. TokenKept(task[t].arg.found, token)
        BY <2>1 DEF Tokens, Popping, Running
    <2>3. \A u \in Slots : live'[u] # None =>
            (live[u] # None /\ live'[u] = live[u]) \/ live'[u] = task[t].arg.found
        BY <1>0, <2>1
    <2>4. \A r : Holds(stash', r) => Holds(stash, r)
        BY <2>1
    <2> QED BY <1>1, <2>1, <2>2, <2>3, <2>4
<1>8. CASE Restart
    <2>1. (\A s \in Slots : live'[s] = None) /\ UNCHANGED <<stash, token, x509>> /\ spent' = "no"
        BY <1>8 DEF Restart
    <2> QED BY <1>1, <2>1
<1>9. ASSUME NEW t \in Tasks, CertificateInUse(t)
      PROVE  Tokens'
    <2>1. x509' = spent /\ spent' = "no" /\ UNCHANGED <<live, stash, token>>
        BY <1>9 DEF CertificateInUse
    <2> QED BY <1>1, <2>1
<1>10. CASE PkiStep /\ UNCHANGED enrollVars
    BY <1>2, <1>10 DEF enrollVars
<1>11. ASSUME NEW t \in Tasks, NEW s \in Slots, NEW c \in Intermediates, UseCertificate(t, s, c)
       PROVE  Tokens'
    <2>1. live[s] # None /\ live' = [live EXCEPT ![s] = None] /\ UNCHANGED <<stash, token, x509>>
          /\ (spent' = Answered(live[s]) \/ spent' = spent)
        BY <1>11 DEF UseCertificate, FreeSlot
    <2>2. Answered(live[s]) = "answered" => token # << >>
        BY <2>1 DEF Answered, Tokens, TokenKept
    <2>3. "answered" \in {spent', x509'} => "answered" \in {spent, x509} \/ token # << >>
        BY <2>1, <2>2
    <2>4. \A u \in Slots : live'[u] # None => live[u] # None /\ live'[u] = live[u]
        BY <1>0, <2>1
    <2> QED BY <1>1, <2>1, <2>3, <2>4
<1>12. ASSUME NEW s \in Slots, Abandon(s)
       PROVE  Tokens'
    BY <1>3, <1>12 DEF Abandon
<1>13. ASSUME NEW t \in Tasks, NEW h \in 1 .. MaxEnrollments, PopFind(t, h)
       PROVE  Tokens'
    BY <1>2, <1>13 DEF PopFind, enrollVars
<1>14. CASE UNCHANGED vars
    BY <1>2, <1>14 DEF vars, enrollVars
<1> QED BY <1>4, <1>5, <1>6, <1>7, <1>8, <1>9, <1>10, <1>11, <1>12, <1>13, <1>14 DEF EnrollmentNext

\* On UniFFI a client whose certificate comes from an enrollment that was given
\* the answer to its OIDC challenge can start the one that renews it: the refresh
\* token is stored, whatever other responses were lost, whatever was stashed,
\* popped or abandoned on the way, and after failures and restarts.
THEOREM TokenForRotation == EnrollmentSpec => []RotationHasToken
<1>1. CASE Platform # "generic"
    <2>1. RotationHasToken
        BY <1>1 DEF RotationHasToken
    <2> QED BY <2>1, PTL
<1>2. CASE Platform = "generic"
    <2>1. EnrollmentInit => Tokens
        <3> SUFFICES ASSUME EnrollmentInit PROVE Tokens
            OBVIOUS
        <3>1. \A r : ~Holds(stash, r)
            BY EmptyTable DEF EnrollmentInit
        <3>2. (\A t \in Tasks : ~Running(t)) /\ (\A s \in Slots : live[s] = None)
              /\ spent = "no" /\ x509 = "no"
            BY DEF EnrollmentInit, PkiInit, Running
        <3> QED BY <3>1, <3>2 DEF Tokens, Popping
    <2>2. PkiTypes /\ EnrollTypes /\ Tokens /\ [EnrollmentNext]_vars => Tokens'
        BY <1>2, TokensStep
    <2>3. Tokens => RotationHasToken
        BY DEF Tokens, RotationHasToken
    <2> QED BY <2>1, <2>2, <2>3, TypesAlways, PTL DEF EnrollmentSpec
<1> QED BY <1>1, <1>2

=============================================================================
