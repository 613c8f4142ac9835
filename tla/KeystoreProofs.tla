--------------------------- MODULE KeystoreProofs ---------------------------
(***************************************************************************)
(* What the calls of the keystore do to a table whose ids are unique, as   *)
(* lemmas for the proofs about the components that keep such tables.  A    *)
(* table is described by the rows it holds (Holds): where a row is in the  *)
(* sequence does not matter to a caller that looks entities up by id.      *)
(***************************************************************************)
EXTENDS Keystore, SequenceTheorems, FiniteSetTheorems, NaturalsInduction,
        WellFoundedInduction, TLAPS

\* No id has two rows: what the PRIMARY KEY, or the SELECT before the INSERT,
\* is for.
UniqueIds(rows) == \A m, n \in 1 .. Len(rows) : rows[m].id = rows[n].id => m = n

Holds(rows, r) == \E n \in 1 .. Len(rows) : rows[n] = r

-----------------------------------------------------------------------------
(* Reading.                                                                *)

\* "SELECT rowid ... WHERE id = ?" finds the row when there is one.
LEMMA FirstRowUnique ==
    ASSUME NEW S, NEW rows \in Seq(S), UniqueIds(rows), NEW n \in 1 .. Len(rows)
    PROVE  FirstRow(rows, rows[n].id) = n
<1>1. /\ n \in 1 .. Len(rows)
      /\ rows[n].id = rows[n].id
      /\ \A m \in 1 .. (n - 1) : rows[m].id # rows[n].id
    <2>1. \A m \in 1 .. (n - 1) : m \in 1 .. Len(rows) /\ m # n
        OBVIOUS
    <2> QED BY <2>1 DEF UniqueIds
<1>2. /\ FirstRow(rows, rows[n].id) \in 1 .. Len(rows)
      /\ rows[FirstRow(rows, rows[n].id)].id = rows[n].id
    BY <1>1 DEF FirstRow
<1> QED BY <1>2 DEF UniqueIds

\* find_one returns the row that is held.
LEMMA FindHeld ==
    ASSUME NEW S, NEW rows \in Seq(S), UniqueIds(rows), NEW r, Holds(rows, r)
    PROVE  Stored(rows, r.id) /\ rows[FirstRow(rows, r.id)] = r
<1>1. PICK n \in 1 .. Len(rows) : rows[n] = r
    BY DEF Holds
<1>2. FirstRow(rows, r.id) = n
    BY <1>1, FirstRowUnique
<1> QED BY <1>1, <1>2 DEF Stored

\* An id that is stored has a row, which find_one returns.
LEMMA StoredHeld ==
    ASSUME NEW S, NEW rows \in Seq(S), UniqueIds(rows), NEW id, Stored(rows, id)
    PROVE  /\ FirstRow(rows, id) \in 1 .. Len(rows)
           /\ rows[FirstRow(rows, id)] \in S
           /\ rows[FirstRow(rows, id)].id = id
           /\ Holds(rows, rows[FirstRow(rows, id)])
<1>1. PICK n \in 1 .. Len(rows) : rows[n].id = id
    BY DEF Stored
<1>2. FirstRow(rows, id) = n
    BY <1>1, FirstRowUnique
<1> QED BY <1>1, <1>2 DEF Holds

\* A unique id has one row or none.
LEMMA RowsOfUnique ==
    ASSUME NEW S, NEW rows \in Seq(S), UniqueIds(rows), NEW id
    PROVE  RowsOf(rows, id) = IF Stored(rows, id) THEN 1 ELSE 0
<1> DEFINE I == {n \in 1 .. Len(rows) : rows[n].id = id}
<1>1. CASE Stored(rows, id)
    <2>1. PICK n \in 1 .. Len(rows) : rows[n].id = id
        BY <1>1 DEF Stored
    <2>2. I = {n}
        BY <2>1 DEF UniqueIds
    <2>3. Cardinality({n}) = 1
        BY FS_Singleton
    <2> QED BY <1>1, <2>2, <2>3 DEF RowsOf
<1>2. CASE ~Stored(rows, id)
    <2>1. I = {}
        BY <1>2 DEF Stored
    <2>2. Cardinality({}) = 0
        BY FS_EmptySet
    <2> QED BY <1>2, <2>1, <2>2 DEF RowsOf
<1> QED BY <1>1, <1>2

-----------------------------------------------------------------------------
(* Writing.                                                                *)

\* An INSERT of an id that is not there.
LEMMA InsertNew ==
    ASSUME NEW S, NEW rows \in Seq(S), UniqueIds(rows),
           NEW id, NEW v, Row(id, v) \in S, ~Stored(rows, id)
    PROVE  LET after == Append(rows, Row(id, v))
           IN  /\ after \in Seq(S)
               /\ UniqueIds(after)
               /\ after # << >>
               /\ \A r : Holds(after, r) <=> r = Row(id, v) \/ (Holds(rows, r) /\ r.id # id)
<1> DEFINE after == Append(rows, Row(id, v))
<1>1. /\ after \in Seq(S)
      /\ Len(after) = Len(rows) + 1
      /\ \A i \in 1 .. Len(rows) : after[i] = rows[i]
      /\ after[Len(rows) + 1] = Row(id, v)
    BY AppendProperties
<1>2. \A i \in 1 .. Len(rows) : rows[i].id # id
    BY DEF Stored
<1>3. Row(id, v).id = id
    BY DEF Row
<1>4. Len(rows) \in Nat /\ \A i \in 1 .. Len(after) : i \in 1 .. Len(rows) \/ i = Len(rows) + 1
    BY <1>1
<1> HIDE DEF after
<1>5. UniqueIds(after)
    BY <1>1, <1>2, <1>3, <1>4 DEF UniqueIds
<1>6. ASSUME NEW r
      PROVE  Holds(after, r) <=> r = Row(id, v) \/ (Holds(rows, r) /\ r.id # id)
    <2>1. ASSUME Holds(after, r)
          PROVE  r = Row(id, v) \/ (Holds(rows, r) /\ r.id # id)
        BY <2>1, <1>1, <1>2, <1>4 DEF Holds
    <2>2. ASSUME r = Row(id, v) PROVE Holds(after, r)
        <3>1. Len(rows) + 1 \in 1 .. Len(after)
            BY <1>1, <1>4
        <3> QED BY <2>2, <3>1, <1>1 DEF Holds
    <2>3. ASSUME Holds(rows, r) PROVE Holds(after, r)
        BY <2>3, <1>1, <1>4 DEF Holds
    <2> QED BY <2>1, <2>2, <2>3
<1>7. after # << >>
    BY <1>1, <1>4
<1> QED BY <1>1, <1>5, <1>6, <1>7 DEF after

\* The UPDATE of the row of an id, or the INSERT when there is none, leaves the
\* other rows and one row of this id.
LEMMA UpsertRows ==
    ASSUME NEW S, NEW rows \in Seq(S), UniqueIds(rows), NEW id, NEW v, Row(id, v) \in S
    PROVE  LET after == Upsert(rows, id, v)
           IN  /\ after \in Seq(S)
               /\ UniqueIds(after)
               /\ after # << >>
               /\ \A r : Holds(after, r) <=> r = Row(id, v) \/ (Holds(rows, r) /\ r.id # id)
<1>1. CASE ~Stored(rows, id)
    BY <1>1, InsertNew DEF Upsert
<1>2. CASE Stored(rows, id)
    <2> DEFINE k == FirstRow(rows, id)
               after == [rows EXCEPT ![k] = Row(id, v)]
    <2>1. k \in 1 .. Len(rows) /\ rows[k].id = id
        BY <1>2, StoredHeld
    <2>2. Upsert(rows, id, v) = after
        BY <1>2 DEF Upsert
    <2> HIDE DEF k
    <2>3. /\ after \in Seq(S)
          /\ Len(after) = Len(rows)
          /\ \A i \in 1 .. Len(rows) : after[i] = IF i = k THEN Row(id, v) ELSE rows[i]
        BY <2>1, ExceptSeq
    <2>4. Row(id, v).id = id
        BY DEF Row
    <2>5. \A i \in 1 .. Len(rows) : i # k => rows[i].id # id
        BY <2>1 DEF UniqueIds
    <2> HIDE DEF after
    <2>6. UniqueIds(after)
        BY <2>1, <2>3, <2>4, <2>5 DEF UniqueIds
    <2>7. ASSUME NEW r
          PROVE  Holds(after, r) <=> r = Row(id, v) \/ (Holds(rows, r) /\ r.id # id)
        BY <2>1, <2>3, <2>4, <2>5 DEF Holds
    <2>8. after # << >>
        BY <2>1, <2>3
    <2> QED BY <2>2, <2>3, <2>6, <2>7, <2>8
<1> QED BY <1>1, <1>2

\* What RemoveAt leaves.
LEMMA RemoveAtProperties ==
    ASSUME NEW S, NEW s \in Seq(S), NEW k \in 1 .. Len(s)
    PROVE  /\ RemoveAt(s, k) \in Seq(S)
           /\ Len(RemoveAt(s, k)) = Len(s) - 1
           /\ \A i \in 1 .. (Len(s) - 1) : RemoveAt(s, k)[i] = IF i < k THEN s[i] ELSE s[i + 1]
<1> DEFINE a == SubSeq(s, 1, k - 1)
           b == SubSeq(s, k + 1, Len(s))
<1>1. Len(s) \in Nat /\ k \in Nat /\ k >= 1 /\ k <= Len(s)
    OBVIOUS
<1>2. /\ a \in Seq(S)
      /\ Len(a) = k - 1
      /\ \A i \in 1 .. (k - 1) : a[i] = s[i]
    <2>1. \A i \in 1 .. (k - 1) : s[i] \in S
        OBVIOUS
    <2>2. /\ a \in Seq(S)
          /\ Len(a) = IF 1 <= k - 1 THEN (k - 1) - 1 + 1 ELSE 0
          /\ \A i \in 1 .. ((k - 1) - 1 + 1) : a[i] = s[1 + i - 1]
        BY <1>1, <2>1, SubSeqProperties
    <2> HIDE DEF a
    <2> QED BY <1>1, <2>2
<1>3. /\ b \in Seq(S)
      /\ Len(b) = Len(s) - k
      /\ \A i \in 1 .. (Len(s) - k) : b[i] = s[k + i]
    <2>1. \A i \in (k + 1) .. Len(s) : s[i] \in S
        OBVIOUS
    <2>2. /\ b \in Seq(S)
          /\ Len(b) = IF k + 1 <= Len(s) THEN Len(s) - (k + 1) + 1 ELSE 0
          /\ \A i \in 1 .. (Len(s) - (k + 1) + 1) : b[i] = s[(k + 1) + i - 1]
        BY <1>1, <2>1, SubSeqProperties
    <2> HIDE DEF b
    <2> QED BY <1>1, <2>2
<1> HIDE DEF a, b
<1>4. /\ a \o b \in Seq(S)
      /\ Len(a \o b) = Len(a) + Len(b)
      /\ \A i \in 1 .. (Len(a) + Len(b)) :
            (a \o b)[i] = IF i <= Len(a) THEN a[i] ELSE b[i - Len(a)]
    BY <1>2, <1>3, ConcatProperties
<1>5. RemoveAt(s, k) = a \o b
    BY DEF RemoveAt, a, b
<1>6. Len(a) + Len(b) = Len(s) - 1
    BY <1>1, <1>2, <1>3
<1>7. ASSUME NEW i \in 1 .. (Len(s) - 1)
      PROVE  (a \o b)[i] = IF i < k THEN s[i] ELSE s[i + 1]
    <2>1. CASE i < k
        BY <2>1, <1>1, <1>2, <1>4, <1>6
    <2>2. CASE ~(i < k)
        <3>1. i - (k - 1) \in 1 .. (Len(s) - k) /\ k + (i - (k - 1)) = i + 1 /\ ~(i <= k - 1)
            BY <2>2, <1>1
        <3>2. (a \o b)[i] = b[i - (k - 1)]
            BY <3>1, <1>2, <1>4, <1>6
        <3> QED BY <2>2, <3>1, <3>2, <1>3
    <2> QED BY <2>1, <2>2
<1> QED BY <1>4, <1>5, <1>6, <1>7

\* The DELETE of a row leaves exactly the rows with another id.
LEMMA WithoutRowRows ==
    ASSUME NEW S, NEW rows \in Seq(S), UniqueIds(rows), NEW id, Stored(rows, id)
    PROVE  LET after == WithoutRow(rows, id)
           IN  /\ after \in Seq(S)
               /\ UniqueIds(after)
               /\ \A r : Holds(after, r) <=> Holds(rows, r) /\ r.id # id
<1> DEFINE k == FirstRow(rows, id)
           after == RemoveAt(rows, k)
<1>1. k \in 1 .. Len(rows) /\ rows[k].id = id
    BY StoredHeld
<1>2. WithoutRow(rows, id) = after
    BY DEF WithoutRow
<1> HIDE DEF k
<1>3. /\ after \in Seq(S)
      /\ Len(after) = Len(rows) - 1
      /\ \A i \in 1 .. (Len(rows) - 1) : after[i] = IF i < k THEN rows[i] ELSE rows[i + 1]
    BY <1>1, RemoveAtProperties
<1>4. \A i \in 1 .. Len(rows) : i # k => rows[i].id # id
    BY <1>1 DEF UniqueIds
<1> HIDE DEF after
<1>5. UniqueIds(after)
    <2> SUFFICES ASSUME NEW m \in 1 .. Len(after), NEW n \in 1 .. Len(after),
                        after[m].id = after[n].id
                 PROVE  m = n
        BY DEF UniqueIds
    <2>1. PICK p \in 1 .. Len(rows) : p = (IF m < k THEN m ELSE m + 1) /\ after[m] = rows[p]
        BY <1>1, <1>3
    <2>2. PICK q \in 1 .. Len(rows) : q = (IF n < k THEN n ELSE n + 1) /\ after[n] = rows[q]
        BY <1>1, <1>3
    <2>3. p = q
        BY <2>1, <2>2 DEF UniqueIds
    <2> QED BY <2>1, <2>2, <2>3, <1>1, <1>3
<1>6. ASSUME NEW r
      PROVE  Holds(after, r) <=> Holds(rows, r) /\ r.id # id
    <2>1. ASSUME Holds(after, r) PROVE Holds(rows, r) /\ r.id # id
        <3>1. PICK m \in 1 .. Len(after) : after[m] = r
            BY <2>1 DEF Holds
        <3>2. PICK p \in 1 .. Len(rows) : p = (IF m < k THEN m ELSE m + 1) /\ after[m] = rows[p]
            BY <1>1, <1>3
        <3>3. p # k
            BY <3>2, <1>1, <1>3
        <3> QED BY <3>1, <3>2, <3>3, <1>4 DEF Holds
    <2>2. ASSUME Holds(rows, r), r.id # id PROVE Holds(after, r)
        <3>1. PICK p \in 1 .. Len(rows) : rows[p] = r
            BY <2>2 DEF Holds
        <3>2. p # k
            BY <2>2, <3>1, <1>1
        <3>3. CASE p < k
            <4>1. p \in 1 .. (Len(rows) - 1)
                BY <3>3, <1>1
            <4> QED BY <3>1, <3>3, <4>1, <1>3 DEF Holds
        <3>4. CASE p > k
            <4>1. p - 1 \in 1 .. (Len(rows) - 1) /\ ~(p - 1 < k) /\ (p - 1) + 1 = p
                BY <3>4, <1>1
            <4>2. after[p - 1] = rows[p]
                BY <4>1, <1>3
            <4> QED BY <3>1, <4>1, <4>2, <1>3 DEF Holds
        <3> QED BY <3>2, <3>3, <3>4, <1>1
    <2> QED BY <2>1, <2>2
<1> QED BY <1>2, <1>3, <1>5, <1>6

\* A table starts empty.
LEMMA EmptyTable ==
    ASSUME NEW S
    PROVE  /\ << >> \in Seq(S)
           /\ UniqueIds(<< >>)
           /\ \A r : ~Holds(<< >>, r)
           /\ \A id : ~Stored(<< >>, id)
<1>1. << >> \in Seq(S) /\ Len(<< >>) = 0
    OBVIOUS
<1> QED BY <1>1 DEF UniqueIds, Holds, Stored

-----------------------------------------------------------------------------
(* What a call does to a table with unique ids.                            *)

\* The same three facts for both backends: a save overwrites, a remove that
\* succeeds removes, and a call that fails changes nothing.
SavedAs(S, rows, k, v, result) ==
    /\ result.ok
    /\ result.rows \in Seq(S)
    /\ UniqueIds(result.rows)
    /\ result.rows # << >>
    /\ \A r : Holds(result.rows, r) <=> r = Row(k, v) \/ (Holds(rows, r) /\ r.id # k)

ErasedAs(S, rows, k, result) ==
    /\ result.ok \in BOOLEAN
    /\ result.rows \in Seq(S)
    /\ UniqueIds(result.rows)
    /\ result.ok => \A r : Holds(result.rows, r) <=> Holds(rows, r) /\ r.id # k
    /\ ~result.ok => result.rows = rows

\* A save that replaces the row of its id leaves ids unique and the other rows alone.
LEMMA SaveOverwrites ==
    ASSUME NEW S, NEW rows \in Seq(S), UniqueIds(rows), NEW k, NEW v, Row(k, v) \in S,
           NEW entity, entity.save \in {"upsert", "replace", "put"}
    PROVE  SavedAs(S, rows, k, v, Save(entity, rows, k, v))
<1>2. /\ Upsert(rows, k, v) \in Seq(S)
      /\ UniqueIds(Upsert(rows, k, v))
      /\ Upsert(rows, k, v) # << >>
      /\ \A r : Holds(Upsert(rows, k, v), r) <=> r = Row(k, v) \/ (Holds(rows, r) /\ r.id # k)
    BY UpsertRows
<1>3. Save(entity, rows, k, v) = Outcome(TRUE, Upsert(rows, k, v))
    BY DEF Save
<1>4. Outcome(TRUE, Upsert(rows, k, v)).ok = TRUE
      /\ Outcome(TRUE, Upsert(rows, k, v)).rows = Upsert(rows, k, v)
    BY DEF Outcome
<1> QED BY <1>2, <1>3, <1>4 DEF SavedAs

\* A delete removes the row of its id and no other.
LEMMA EraseRemoves ==
    ASSUME NEW S, NEW rows \in Seq(S), UniqueIds(rows), NEW k,
           NEW entity, entity.erase \in {"any", "exact", "never"}
    PROVE  /\ ErasedAs(S, rows, k, Erase(entity, rows, k))
           /\ entity.erase = "any" => Erase(entity, rows, k).ok
           /\ entity.erase = "exact" => (Erase(entity, rows, k).ok <=> Stored(rows, k))
           /\ entity.erase = "never" => ~Erase(entity, rows, k).ok
<1>2. ASSUME Stored(rows, k)
      PROVE  /\ WithoutRow(rows, k) \in Seq(S)
             /\ UniqueIds(WithoutRow(rows, k))
             /\ \A r : Holds(WithoutRow(rows, k), r) <=> Holds(rows, r) /\ r.id # k
    BY <1>2, WithoutRowRows
<1>3. ASSUME ~Stored(rows, k), NEW r, Holds(rows, r)
      PROVE  r.id # k
    BY <1>3 DEF Holds, Stored
<1>4. RowsOf(rows, k) = IF Stored(rows, k) THEN 1 ELSE 0
    BY RowsOfUnique
<1> DEFINE e == Erase(entity, rows, k)
<1>5. CASE entity.erase = "any"
    <2>1. e.ok = TRUE /\ e.rows = IF Stored(rows, k) THEN WithoutRow(rows, k) ELSE rows
        BY <1>5 DEF Erase, Outcome
    <2> QED BY <2>1, <1>2, <1>3, <1>5 DEF ErasedAs
<1>6. CASE entity.erase = "exact"
    <2>1. CASE Stored(rows, k)
        <3>1. RowsOf(rows, k) = 1
            BY <2>1, <1>4
        <3>2. e.ok = TRUE /\ e.rows = WithoutRow(rows, k)
            BY <3>1, <1>6 DEF Erase, Outcome
        <3> QED BY <3>2, <2>1, <1>2, <1>6 DEF ErasedAs
    <2>2. CASE ~Stored(rows, k)
        <3>1. RowsOf(rows, k) # 1
            BY <2>2, <1>4
        <3>2. e.ok = FALSE /\ e.rows = rows
            BY <3>1, <1>6 DEF Erase, Outcome
        <3> QED BY <3>2, <2>2, <1>6 DEF ErasedAs
    <2> QED BY <2>1, <2>2
<1>7. CASE entity.erase = "never"
    <2>1. e.ok = FALSE /\ e.rows = rows
        BY <1>7 DEF Erase, Outcome
    <2> QED BY <2>1, <1>7 DEF ErasedAs
<1> QED BY <1>5, <1>6, <1>7

\* An INSERT under a PRIMARY KEY: an error when the id has a row.
LEMMA SaveUnique ==
    ASSUME NEW S, NEW rows \in Seq(S), UniqueIds(rows), NEW k, NEW v, Row(k, v) \in S,
           NEW entity, entity.save = "unique"
    PROVE  LET result == Save(entity, rows, k, v)
           IN  \/ ~Stored(rows, k) /\ SavedAs(S, rows, k, v, result)
               \/ Stored(rows, k) /\ ~result.ok /\ result.rows = rows
<1> DEFINE result == Save(entity, rows, k, v)
<1>1. CASE Stored(rows, k)
    <2>1. result.ok = FALSE /\ result.rows = rows
        BY <1>1 DEF Save, Outcome
    <2> QED BY <1>1, <2>1
<1>2. CASE ~Stored(rows, k)
    <2>1. result.ok = TRUE /\ result.rows = Append(rows, Row(k, v))
        BY <1>2 DEF Save, Outcome
    <2> QED BY <1>2, <2>1, InsertNew DEF SavedAs
<1> QED BY <1>1, <1>2

-----------------------------------------------------------------------------
(* Induction, in a form the provers can use: the theorems of the library   *)
(* take the statement as an operator, these take the set of the numbers it *)
(* holds for.                                                              *)

\* A set that has 0, and with every number the next one, has every number.
LEMMA NatSetInduction ==
    ASSUME NEW T, 0 \in T, \A n \in Nat : n \in T => n + 1 \in T
    PROVE  Nat \subseteq T
<1> DEFINE R == OpToRel(<, Nat)
           Out == Nat \ T
<1>1. IsWellFoundedOn(R, Nat)
    BY NatLessThanWellFounded DEF OpToRel
<1>2. \A x, y \in Nat : x < y => <<x, y>> \in R
    BY DEF OpToRel
<1> HIDE DEF R
<1>3. SUFFICES ASSUME Out # {} PROVE FALSE
    OBVIOUS
<1>4. Out \subseteq Nat
    OBVIOUS
<1> HIDE DEF Out
<1>5. PICK x \in Out : \A y \in Out : ~ (<<y, x>> \in R)
    BY <1>1, <1>3, <1>4, WFMin, Zenon
<1>6. x \in Nat /\ x \notin T
    BY <1>5 DEF Out
<1>7. x - 1 \in Nat /\ x = (x - 1) + 1 /\ x - 1 < x
    BY <1>6
<1>8. x - 1 \in Out
    BY <1>6, <1>7 DEF Out
<1> QED BY <1>2, <1>5, <1>6, <1>7, <1>8

\* The same up to a bound.
LEMMA BoundedInduction ==
    ASSUME NEW N \in Nat, NEW T, 0 \in T,
           \A n \in Nat : n < N /\ n \in T => n + 1 \in T
    PROVE  0 .. N \subseteq T
<1> DEFINE U == {n \in Nat : n <= N => n \in T}
<1>1. 0 \in U
    OBVIOUS
<1>2. \A n \in Nat : n \in U => n + 1 \in U
    OBVIOUS
<1> HIDE DEF U
<1>3. Nat \subseteq U
    BY <1>1, <1>2, NatSetInduction
<1> QED BY <1>3 DEF U

\* A nonempty set of numbers has a least one.
LEMMA LeastNumber ==
    ASSUME NEW T \in SUBSET Nat, T # {}
    PROVE  \E x \in T : \A y \in T : x <= y
<1> DEFINE R == OpToRel(<, Nat)
<1>1. IsWellFoundedOn(R, Nat)
    BY NatLessThanWellFounded DEF OpToRel
<1>2. \A x, y \in Nat : x < y => <<x, y>> \in R
    BY DEF OpToRel
<1> HIDE DEF R
<1>3. T \subseteq Nat
    OBVIOUS
<1>4. PICK x \in T : \A y \in T : ~ (<<y, x>> \in R)
    BY <1>1, <1>3, WFMin, Zenon
<1>5. ASSUME NEW y \in T PROVE x <= y
    <2>1. x \in Nat /\ y \in Nat /\ ~(<<y, x>> \in R)
        BY <1>3, <1>4
    <2>2. ~(y < x)
        BY <1>2, <2>1
    <2> QED BY <2>1, <2>2
<1> QED BY <1>5

-----------------------------------------------------------------------------
(* Keep.                                                                   *)

\* The recursive function in Keep is what its definition says.
LEMMA KeepUnfold ==
    ASSUME NEW S, NEW s \in Seq(S), NEW good
    PROVE  \E f : /\ f[0] = << >>
                  /\ \A n \in 0 .. (Len(s) - 1) :
                        f[n + 1] = IF s[n + 1] \in good THEN Append(f[n], s[n + 1]) ELSE f[n]
                  /\ Keep(s, good) = f[Len(s)]
<1> DEFINE Is(g, k) == g = [n \in 0 .. k |->
                              IF n = 0 THEN << >>
                              ELSE IF s[n] \in good THEN Append(g[n - 1], s[n]) ELSE g[n - 1]]
           T == {k \in Nat : \E g : Is(g, k)}
           kept[n \in 0 .. Len(s)] ==
              IF n = 0 THEN << >>
              ELSE IF s[n] \in good THEN Append(kept[n - 1], s[n]) ELSE kept[n - 1]
<1>1. 0 \in T
    <2>1. Is([n \in 0 .. 0 |-> << >>], 0)
        OBVIOUS
    <2> QED BY <2>1
<1>2. ASSUME NEW k \in Nat, k \in T PROVE k + 1 \in T
    <2>1. PICK g : Is(g, k)
        BY <1>2
    <2> DEFINE x == IF s[k + 1] \in good THEN Append(g[k], s[k + 1]) ELSE g[k]
               h == [n \in 0 .. k + 1 |-> IF n = k + 1 THEN x ELSE g[n]]
    <2>2. ASSUME NEW n \in 0 .. k + 1
          PROVE  h[n] = IF n = 0 THEN << >>
                        ELSE IF s[n] \in good THEN Append(h[n - 1], s[n]) ELSE h[n - 1]
        <3>1. CASE n = 0
            BY <2>1, <3>1
        <3>2. CASE n = k + 1
            BY <3>2
        <3>3. CASE n # 0 /\ n # k + 1
            <4>1. n \in 0 .. k /\ n - 1 \in 0 .. k
                BY <3>3
            <4>2. h[n] = g[n] /\ h[n - 1] = g[n - 1]
                BY <4>1, <3>3
            <4>3. g[n] = IF s[n] \in good THEN Append(g[n - 1], s[n]) ELSE g[n - 1]
                BY <4>1, <3>3, <2>1
            <4> HIDE DEF h
            <4> QED BY <4>2, <4>3, <3>3
        <3> QED BY <3>1, <3>2, <3>3
    <2>3. Is(h, k + 1)
        BY <2>2
    <2> HIDE DEF h, Is
    <2> QED BY <2>3
<1>3. Len(s) \in T
    <2> HIDE DEF T
    <2>1. Nat \subseteq T
        BY <1>1, <1>2, NatSetInduction
    <2> QED BY <2>1
<1>4. Is(kept, Len(s))
    BY <1>3
<1>5. Keep(s, good) = kept[Len(s)]
    BY DEF Keep
<1> HIDE DEF kept
<1>6. kept[0] = << >>
    BY <1>4
<1>7. ASSUME NEW n \in 0 .. (Len(s) - 1)
      PROVE  kept[n + 1] = IF s[n + 1] \in good THEN Append(kept[n], s[n + 1]) ELSE kept[n]
    <2>1. n + 1 \in 0 .. Len(s) /\ n + 1 # 0 /\ (n + 1) - 1 = n
        OBVIOUS
    <2> QED BY <1>4, <2>1
<1> QED BY <1>5, <1>6, <1>7

\* Two sequences whose elements are those of two others at the same places.
KeptFrom(k, n, s, t) == \A j \in 1 .. Len(k) : \E i \in 1 .. Len(s) : k[j] = s[i] /\ n[j] = t[i]

\* Keep selects the elements at some places, in their order, and leaves none out;
\* a parallel sequence loses the same places.
LEMMA KeepPlaces ==
    ASSUME NEW S, NEW s \in Seq(S), NEW good, NEW S2, NEW t \in Seq(S2), NEW good2,
           Len(s) = Len(t), \A i \in 1 .. Len(s) : s[i] \in good <=> t[i] \in good2
    PROVE  /\ Keep(s, good) \in Seq(S)
           /\ Keep(t, good2) \in Seq(S2)
           /\ Len(Keep(s, good)) = Len(Keep(t, good2))
           /\ Len(Keep(s, good)) <= Len(s)
           /\ \E m \in [1 .. Len(Keep(s, good)) -> 1 .. Len(s)] :
                 /\ \A j \in 1 .. Len(Keep(s, good)) :
                       /\ Keep(s, good)[j] = s[m[j]]
                       /\ Keep(t, good2)[j] = t[m[j]]
                       /\ s[m[j]] \in good
                 /\ \A i, j \in 1 .. Len(Keep(s, good)) : i < j => m[i] < m[j]
                 /\ \A i \in 1 .. Len(s) : s[i] \in good => \E j \in 1 .. Len(Keep(s, good)) : m[j] = i
           /\ KeptFrom(Keep(s, good), Keep(t, good2), s, t)
<1>1. PICK f : /\ f[0] = << >>
               /\ \A n \in 0 .. (Len(s) - 1) :
                     f[n + 1] = IF s[n + 1] \in good THEN Append(f[n], s[n + 1]) ELSE f[n]
               /\ Keep(s, good) = f[Len(s)]
    BY KeepUnfold
<1>2. PICK h : /\ h[0] = << >>
               /\ \A n \in 0 .. (Len(t) - 1) :
                     h[n + 1] = IF t[n + 1] \in good2 THEN Append(h[n], t[n + 1]) ELSE h[n]
               /\ Keep(t, good2) = h[Len(t)]
    BY KeepUnfold
<1> DEFINE Places(n, m) ==
              /\ m \in [1 .. Len(f[n]) -> 1 .. n]
              /\ \A j \in 1 .. Len(f[n]) :
                    /\ f[n][j] = s[m[j]]
                    /\ h[n][j] = t[m[j]]
                    /\ s[m[j]] \in good
              /\ \A i, j \in 1 .. Len(f[n]) : i < j => m[i] < m[j]
              /\ \A i \in 1 .. n : s[i] \in good => \E j \in 1 .. Len(f[n]) : m[j] = i
           Ok(n) == /\ f[n] \in Seq(S) /\ h[n] \in Seq(S2)
                    /\ Len(f[n]) = Len(h[n]) /\ Len(f[n]) <= n
                    /\ \E m : Places(n, m)
           T == {n \in Nat : n <= Len(s) => Ok(n)}
<1>3. Len(s) \in Nat /\ Len(t) = Len(s)
    OBVIOUS
<1>4. f[0] = << >> /\ h[0] = << >>
    BY <1>1, <1>2, <1>3
<1>5. Ok(0)
    <2>1. Places(0, << >>)
        BY <1>4
    <2> HIDE DEF Places
    <2> QED BY <1>4, <2>1
<1>6. ASSUME NEW n \in Nat, n < Len(s), Ok(n) PROVE Ok(n + 1)
    <2>1. n + 1 \in 1 .. Len(s) /\ n \in 0 .. (Len(s) - 1)
        BY <1>3, <1>6
    <2>2. /\ f[n + 1] = IF s[n + 1] \in good THEN Append(f[n], s[n + 1]) ELSE f[n]
          /\ h[n + 1] = IF t[n + 1] \in good2 THEN Append(h[n], t[n + 1]) ELSE h[n]
        BY <1>1, <1>2, <1>3, <2>1
    <2>3. s[n + 1] \in S /\ t[n + 1] \in S2 /\ (s[n + 1] \in good <=> t[n + 1] \in good2)
        BY <1>3, <2>1
    <2>4. PICK m : Places(n, m)
        BY <1>6
    <2> DEFINE L == Len(f[n])
    <2>5. L \in Nat /\ L = Len(h[n]) /\ L <= n
        BY <1>6
    <2>6. CASE s[n + 1] \notin good
        <3>1. f[n + 1] = f[n] /\ h[n + 1] = h[n]
            BY <2>2, <2>3, <2>6
        <3>2. Places(n + 1, m)
            <4>1. m \in [1 .. Len(f[n + 1]) -> 1 .. (n + 1)]
                BY <2>4, <2>5, <3>1
            <4>2. \A i \in 1 .. (n + 1) : s[i] \in good => i \in 1 .. n
                BY <2>6
            <4> QED BY <2>4, <3>1, <4>1, <4>2
        <3> HIDE DEF Places
        <3> QED BY <1>6, <3>1, <3>2
    <2>7. CASE s[n + 1] \in good
        <3>1. f[n + 1] = Append(f[n], s[n + 1]) /\ h[n + 1] = Append(h[n], t[n + 1])
            BY <2>2, <2>3, <2>7
        <3>2. /\ f[n + 1] \in Seq(S) /\ Len(f[n + 1]) = L + 1
              /\ f[n + 1][L + 1] = s[n + 1]
              /\ \A j \in 1 .. L : f[n + 1][j] = f[n][j]
            BY <1>6, <2>3, <3>1, AppendProperties
        <3>3. /\ h[n + 1] \in Seq(S2) /\ Len(h[n + 1]) = L + 1
              /\ h[n + 1][L + 1] = t[n + 1]
              /\ \A j \in 1 .. L : h[n + 1][j] = h[n][j]
            BY <1>6, <2>3, <2>5, <3>1, AppendProperties
        <3> DEFINE m2 == [j \in 1 .. (L + 1) |-> IF j = L + 1 THEN n + 1 ELSE m[j]]
        <3>a. \A j \in 1 .. L : m[j] \in 1 .. n
            BY <2>4
        <3> HIDE DEF L
        <3>4. /\ m2 \in [1 .. (L + 1) -> 1 .. (n + 1)]
              /\ m2[L + 1] = n + 1
              /\ \A j \in 1 .. L : m2[j] = m[j] /\ m[j] \in 1 .. n
            BY <3>a, <2>5
        <3> HIDE DEF m2
        <3>5. \A j \in 1 .. (L + 1) : j = L + 1 \/ j \in 1 .. L
            BY <2>5
        <3>6. Places(n + 1, m2)
            <4>1. ASSUME NEW j \in 1 .. (L + 1)
                  PROVE  f[n + 1][j] = s[m2[j]] /\ h[n + 1][j] = t[m2[j]] /\ s[m2[j]] \in good
                <5>1. CASE j = L + 1
                    BY <5>1, <3>2, <3>3, <3>4, <2>7
                <5>2. CASE j \in 1 .. L
                    BY <5>2, <2>4, <3>2, <3>3, <3>4 DEF L
                <5> QED BY <5>1, <5>2, <3>5
            <4>2. ASSUME NEW i \in 1 .. (L + 1), NEW j \in 1 .. (L + 1), i < j
                  PROVE  m2[i] < m2[j]
                <5>1. i \in 1 .. L
                    BY <2>5, <4>2
                <5>2. CASE j = L + 1
                    BY <5>1, <5>2, <3>4
                <5>3. CASE j \in 1 .. L
                    BY <5>1, <5>3, <4>2, <2>4, <3>4 DEF L
                <5> QED BY <5>2, <5>3, <3>5
            <4>3. ASSUME NEW i \in 1 .. (n + 1), s[i] \in good
                  PROVE  \E j \in 1 .. (L + 1) : m2[j] = i
                <5>1. CASE i = n + 1
                    BY <5>1, <3>4, <2>5
                <5>2. CASE i # n + 1
                    <6>1. i \in 1 .. n
                        BY <5>2
                    <6>2. PICK j \in 1 .. L : m[j] = i
                        BY <6>1, <4>3, <2>4 DEF L
                    <6>3. j \in 1 .. (L + 1)
                        BY <2>5
                    <6> QED BY <6>2, <6>3, <3>4
                <5> QED BY <5>1, <5>2
            <4> QED BY <4>1, <4>2, <4>3, <3>2, <3>4
        <3> HIDE DEF Places
        <3> QED BY <3>2, <3>3, <3>6, <2>5
    <2> HIDE DEF Ok
    <2> QED BY <2>6, <2>7
<1>7. Ok(Len(s))
    <2> HIDE DEF Ok
    <2>1. 0 \in T /\ \A n \in Nat : n \in T => n + 1 \in T
        BY <1>3, <1>5, <1>6
    <2> HIDE DEF T
    <2>2. Nat \subseteq T
        BY <2>1, NatSetInduction
    <2> QED BY <2>2, <1>3 DEF T
<1>8. Keep(s, good) = f[Len(s)] /\ Keep(t, good2) = h[Len(s)]
    BY <1>1, <1>2, <1>3
<1>9. PICK m : Places(Len(s), m)
    BY <1>7
<1>10. /\ f[Len(s)] \in Seq(S) /\ h[Len(s)] \in Seq(S2)
       /\ Len(f[Len(s)]) = Len(h[Len(s)]) /\ Len(f[Len(s)]) <= Len(s)
    BY <1>7
<1>11. /\ m \in [1 .. Len(Keep(s, good)) -> 1 .. Len(s)]
       /\ \A j \in 1 .. Len(Keep(s, good)) :
             /\ Keep(s, good)[j] = s[m[j]]
             /\ Keep(t, good2)[j] = t[m[j]]
             /\ s[m[j]] \in good
       /\ \A i, j \in 1 .. Len(Keep(s, good)) : i < j => m[i] < m[j]
       /\ \A i \in 1 .. Len(s) : s[i] \in good => \E j \in 1 .. Len(Keep(s, good)) : m[j] = i
    BY <1>8, <1>9
<1>12. /\ Keep(s, good) \in Seq(S) /\ Keep(t, good2) \in Seq(S2)
       /\ Len(Keep(s, good)) = Len(Keep(t, good2)) /\ Len(Keep(s, good)) <= Len(s)
    BY <1>8, <1>10
<1>13. KeptFrom(Keep(s, good), Keep(t, good2), s, t)
    BY <1>11 DEF KeptFrom
<1> QED BY <1>11, <1>12, <1>13, Zenon

\* What Keep returns: the elements in the set, in their order.
LEMMA KeepElements ==
    ASSUME NEW S, NEW s \in Seq(S), NEW good
    PROVE  /\ Keep(s, good) \in Seq(S)
           /\ Len(Keep(s, good)) <= Len(s)
           /\ ToSet(Keep(s, good)) = ToSet(s) \cap good
           /\ \A i, j \in 1 .. Len(Keep(s, good)) : i < j =>
                 \E a, b \in 1 .. Len(s) :
                    a < b /\ Keep(s, good)[i] = s[a] /\ Keep(s, good)[j] = s[b]
<1> DEFINE K == Keep(s, good)
<1>1. PICK m \in [1 .. Len(K) -> 1 .. Len(s)] :
         /\ \A j \in 1 .. Len(K) : K[j] = s[m[j]] /\ s[m[j]] \in good
         /\ \A i, j \in 1 .. Len(K) : i < j => m[i] < m[j]
         /\ \A i \in 1 .. Len(s) : s[i] \in good => \E j \in 1 .. Len(K) : m[j] = i
    BY KeepPlaces
<1>2. K \in Seq(S) /\ Len(K) <= Len(s)
    BY KeepPlaces
<1> HIDE DEF K
<1>3. DOMAIN K = 1 .. Len(K) /\ DOMAIN s = 1 .. Len(s)
    BY <1>2
<1>4. ToSet(K) = ToSet(s) \cap good
    <2>1. ASSUME NEW j \in 1 .. Len(K) PROVE K[j] \in ToSet(s) \cap good
        BY <1>1, <1>3 DEF ToSet
    <2>2. ASSUME NEW i \in 1 .. Len(s), s[i] \in good PROVE s[i] \in ToSet(K)
        <3>1. PICK j \in 1 .. Len(K) : m[j] = i
            BY <1>1, <2>2
        <3>2. K[j] = s[i]
            BY <1>1, <3>1
        <3> QED BY <1>3, <3>2 DEF ToSet
    <2> QED BY <1>3, <2>1, <2>2 DEF ToSet
<1>5. ASSUME NEW i \in 1 .. Len(K), NEW j \in 1 .. Len(K), i < j
      PROVE  \E a, b \in 1 .. Len(s) : a < b /\ K[i] = s[a] /\ K[j] = s[b]
    <2>1. m[i] \in 1 .. Len(s) /\ m[j] \in 1 .. Len(s) /\ m[i] < m[j] /\ K[i] = s[m[i]] /\ K[j] = s[m[j]]
        BY <1>1, <1>5
    <2> QED BY <2>1
<1> QED BY <1>2, <1>4, <1>5 DEF K

\* Keep leaves a sequence alone when all of its elements are in the set.
LEMMA KeepAll ==
    ASSUME NEW S, NEW s \in Seq(S), NEW good, ToSet(s) \subseteq good
    PROVE  Keep(s, good) = s
<1>1. PICK f : /\ f[0] = << >>
               /\ \A n \in 0 .. (Len(s) - 1) :
                     f[n + 1] = IF s[n + 1] \in good THEN Append(f[n], s[n + 1]) ELSE f[n]
               /\ Keep(s, good) = f[Len(s)]
    BY KeepUnfold
<1> DEFINE Ok(n) == f[n] \in Seq(S) /\ Len(f[n]) = n /\ \A i \in 1 .. n : f[n][i] = s[i]
           T == {n \in Nat : Ok(n)}
<1>2. Len(s) \in Nat /\ \A i \in 1 .. Len(s) : s[i] \in S /\ s[i] \in good
    BY DEF ToSet
<1>3. 0 \in T
    <2>1. f[0] \in Seq(S) /\ Len(f[0]) = 0
        BY <1>1
    <2> QED BY <2>1
<1>4. ASSUME NEW n \in Nat, n < Len(s), n \in T PROVE n + 1 \in T
    <2>1. n \in 0 .. (Len(s) - 1) /\ n + 1 \in 1 .. Len(s)
        BY <1>2, <1>4
    <2>2. f[n + 1] = Append(f[n], s[n + 1])
        BY <1>1, <1>2, <2>1
    <2>3. f[n] \in Seq(S) /\ Len(f[n]) = n /\ \A i \in 1 .. n : f[n][i] = s[i]
        BY <1>4
    <2>4. /\ f[n + 1] \in Seq(S) /\ Len(f[n + 1]) = n + 1
          /\ f[n + 1][n + 1] = s[n + 1]
          /\ \A i \in 1 .. n : f[n + 1][i] = s[i]
        BY <1>2, <2>1, <2>2, <2>3, AppendProperties
    <2> QED BY <2>4
<1> HIDE DEF T
<1>5. 0 .. Len(s) \subseteq T
    BY <1>2, <1>3, <1>4, BoundedInduction
<1>6. Ok(Len(s))
    BY <1>2, <1>5 DEF T
<1> QED BY <1>1, <1>6, SeqEqual

\* An element that stays and is the last one stays the last one.
LEMMA KeepLast ==
    ASSUME NEW S, NEW s \in Seq(S), NEW good, s # << >>, s[Len(s)] \in good
    PROVE  Keep(s, good) # << >> /\ Keep(s, good)[Len(Keep(s, good))] = s[Len(s)]
<1> DEFINE K == Keep(s, good)
<1>1. PICK m \in [1 .. Len(K) -> 1 .. Len(s)] :
         /\ \A j \in 1 .. Len(K) : K[j] = s[m[j]]
         /\ \A i, j \in 1 .. Len(K) : i < j => m[i] < m[j]
         /\ \A i \in 1 .. Len(s) : s[i] \in good => \E j \in 1 .. Len(K) : m[j] = i
    BY KeepPlaces
<1>2. K \in Seq(S)
    BY KeepPlaces
<1> HIDE DEF K
<1>3. Len(s) \in 1 .. Len(s) /\ Len(K) \in Nat
    BY <1>2
<1>4. PICK j \in 1 .. Len(K) : m[j] = Len(s)
    BY <1>1, <1>3
<1>5. j = Len(K)
    <2>1. Len(K) \in 1 .. Len(K)
        BY <1>3
    <2>2. ASSUME j < Len(K) PROVE FALSE
        <3>1. m[j] < m[Len(K)] /\ m[Len(K)] \in 1 .. Len(s)
            BY <1>1, <2>1, <2>2
        <3> QED BY <1>3, <1>4, <3>1
    <2> QED BY <1>3, <2>2
<1> QED BY <1>1, <1>2, <1>4, <1>5 DEF K

-----------------------------------------------------------------------------
(* What a call does to any table, ids repeated or not.                     *)

\* "SELECT rowid ... WHERE id = ?" finds the first row of an id that has one.
LEMMA FirstRowStored ==
    ASSUME NEW S, NEW rows \in Seq(S), NEW id, Stored(rows, id)
    PROVE  /\ FirstRow(rows, id) \in 1 .. Len(rows)
           /\ rows[FirstRow(rows, id)].id = id
<1> DEFINE T == {n \in 1 .. Len(rows) : rows[n].id = id}
<1>1. T \in SUBSET Nat /\ T # {}
    BY DEF Stored
<1>2. PICK x \in T : \A y \in T : x <= y
    BY <1>1, LeastNumber
<1>3. x \in 1 .. Len(rows) /\ rows[x].id = id
    BY <1>2
<1>4. \A m \in 1 .. (x - 1) : rows[m].id # id
    <2> SUFFICES ASSUME NEW m \in 1 .. (x - 1), rows[m].id = id PROVE FALSE
        OBVIOUS
    <2>1. m \in 1 .. Len(rows) /\ ~(x <= m)
        BY <1>3
    <2> QED BY <1>2, <2>1
<1> QED BY <1>3, <1>4 DEF FirstRow

\* A save leaves rows of the table's type, whether it inserts, overwrites or
\* refuses.
LEMMA SaveRows ==
    ASSUME NEW S, NEW rows \in Seq(S), NEW k, NEW v, Row(k, v) \in S,
           NEW entity, entity.save \in {"upsert", "replace", "put", "insert", "unique", "first"}
    PROVE  Save(entity, rows, k, v).ok \in BOOLEAN /\ Save(entity, rows, k, v).rows \in Seq(S)
<1>1. Append(rows, Row(k, v)) \in Seq(S) /\ <<Row(k, v)>> \in Seq(S)
    OBVIOUS
<1>2. Upsert(rows, k, v) \in Seq(S)
    <2>1. CASE Stored(rows, k)
        <3> DEFINE n == FirstRow(rows, k)
        <3>1. n \in 1 .. Len(rows)
            BY <2>1, FirstRowStored
        <3> HIDE DEF n
        <3>2. [rows EXCEPT ![n] = Row(k, v)] \in Seq(S)
            BY <3>1, ExceptSeq
        <3> QED BY <2>1, <3>2 DEF Upsert, n
    <2>2. CASE ~Stored(rows, k)
        BY <1>1, <2>2 DEF Upsert
    <2> QED BY <2>1, <2>2
<1>3. ASSUME NEW ok \in BOOLEAN, NEW s
      PROVE  Outcome(ok, s).ok = ok /\ Outcome(ok, s).rows = s
    BY DEF Outcome
<1>4. CASE entity.save \in {"upsert", "replace", "put"}
    <2>1. Save(entity, rows, k, v) = Outcome(TRUE, Upsert(rows, k, v))
        BY <1>4 DEF Save
    <2> QED BY <1>2, <1>3, <2>1
<1>5. CASE entity.save = "insert"
    <2>1. Save(entity, rows, k, v) = Outcome(TRUE, Append(rows, Row(k, v)))
        BY <1>5 DEF Save
    <2> QED BY <1>1, <1>3, <2>1
<1>6. CASE entity.save = "unique"
    <2>1. Save(entity, rows, k, v) = IF Stored(rows, k) THEN Outcome(FALSE, rows)
                                     ELSE Outcome(TRUE, Append(rows, Row(k, v)))
        BY <1>6 DEF Save
    <2> QED BY <1>1, <1>3, <2>1
<1>7. CASE entity.save = "first"
    <2>1. Save(entity, rows, k, v) = Outcome(TRUE, IF rows = << >> THEN <<Row(k, v)>> ELSE rows)
        BY <1>7 DEF Save
    <2> QED BY <1>1, <1>3, <2>1
<1> QED BY <1>4, <1>5, <1>6, <1>7

\* A delete leaves rows of the table, and says whether it succeeded.
LEMMA EraseRows ==
    ASSUME NEW S, NEW rows \in Seq(S), NEW k,
           NEW entity, entity.erase \in {"any", "exact", "some", "head", "never"}
    PROVE  Erase(entity, rows, k).ok \in BOOLEAN /\ Erase(entity, rows, k).rows \in Seq(S)
<1>1. ASSUME Stored(rows, k) PROVE WithoutRow(rows, k) \in Seq(S)
    BY <1>1, FirstRowStored, RemoveAtProperties DEF WithoutRow
<1>2. Without(rows, k) \in Seq(S)
    BY KeepElements DEF Without
<1>3. ASSUME RowsOf(rows, k) = 1 PROVE Stored(rows, k)
    <2> SUFFICES ASSUME ~Stored(rows, k) PROVE FALSE
        OBVIOUS
    <2> DEFINE I == {n \in 1 .. Len(rows) : rows[n].id = k}
    <2>1. I = {}
        BY DEF Stored
    <2>2. Cardinality({}) = 0
        BY FS_EmptySet
    <2>3. RowsOf(rows, k) = Cardinality(I)
        BY DEF RowsOf
    <2> HIDE DEF I
    <2> QED BY <1>3, <2>1, <2>2, <2>3
<1>4. ASSUME rows # << >> PROVE Tail(rows) \in Seq(S)
    BY <1>4
<1>5. ASSUME NEW ok \in BOOLEAN, NEW s
      PROVE  Outcome(ok, s).ok = ok /\ Outcome(ok, s).rows = s
    BY DEF Outcome
<1>6. CASE entity.erase = "any"
    <2>1. Erase(entity, rows, k) = Outcome(TRUE, IF Stored(rows, k) THEN WithoutRow(rows, k) ELSE rows)
        BY <1>6 DEF Erase
    <2> QED BY <1>1, <1>5, <2>1
<1>7. CASE entity.erase = "exact"
    <2>1. Erase(entity, rows, k) = IF RowsOf(rows, k) = 1 THEN Outcome(TRUE, WithoutRow(rows, k))
                                   ELSE Outcome(FALSE, rows)
        BY <1>7 DEF Erase
    <2> QED BY <1>1, <1>3, <1>5, <2>1
<1>8. CASE entity.erase = "some"
    <2>1. Erase(entity, rows, k) = IF Stored(rows, k) THEN Outcome(TRUE, Without(rows, k))
                                   ELSE Outcome(FALSE, rows)
        BY <1>8 DEF Erase
    <2> QED BY <1>2, <1>5, <2>1
<1>9. CASE entity.erase = "head"
    <2>1. Erase(entity, rows, k) = IF rows = << >> THEN Outcome(FALSE, rows) ELSE Outcome(TRUE, Tail(rows))
        BY <1>9 DEF Erase
    <2> QED BY <1>4, <1>5, <2>1
<1>10. CASE entity.erase = "never"
    <2>1. Erase(entity, rows, k) = Outcome(FALSE, rows)
        BY <1>10 DEF Erase
    <2> QED BY <1>5, <2>1
<1> QED BY <1>6, <1>7, <1>8, <1>9, <1>10

=============================================================================
