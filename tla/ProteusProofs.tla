--------------------------- MODULE ProteusProofs ----------------------------
(***************************************************************************)
(* Theorems about Proteus, for any sessions, prekey ids, cache size and    *)
(* bounds: the types and the size of the cache, one identity, sessions     *)
(* that keep their contract, and on UniFFI that bundles can be used.       *)
(***************************************************************************)
EXTENDS Proteus, SequenceTheorems, TLAPS

-----------------------------------------------------------------------------
(* The cache                                                               *)

InOrder(order, i) == \E n \in 1 .. Len(order) : order[n] = i

Once(order) == \A m, n \in 1 .. Len(order) : order[m] = order[n] => m = n

\* What RemoveAt does, position by position.
LEMMA RemoveAtProperties ==
    ASSUME NEW S, NEW s \in Seq(S), NEW k \in 1 .. Len(s)
    PROVE  /\ Seqs!RemoveAt(s, k) \in Seq(S)
           /\ Len(Seqs!RemoveAt(s, k)) = Len(s) - 1
           /\ \A i \in 1 .. (Len(s) - 1) :
                 Seqs!RemoveAt(s, k)[i] = IF i < k THEN s[i] ELSE s[i + 1]
<1> DEFINE a == SubSeq(s, 1, k - 1)
           b == SubSeq(s, k + 1, Len(s))
<1>1. Len(s) \in Nat /\ k \in Nat /\ k >= 1 /\ k <= Len(s)
    OBVIOUS
<1>2. /\ a \in Seq(S)
      /\ Len(a) = k - 1
      /\ \A i \in 1 .. (k - 1) : a[i] = s[i]
    <2>1. \A i \in 1 .. (k - 1) : s[i] \in S
        OBVIOUS
    <2>2. /\ a \in Seq(S)
          /\ Len(a) = IF 1 <= k - 1 THEN (k - 1) - 1 + 1 ELSE 0
          /\ \A i \in 1 .. ((k - 1) - 1 + 1) : a[i] = s[1 + i - 1]
        BY <1>1, <2>1, SubSeqProperties
    <2> HIDE DEF a
    <2> QED BY <1>1, <2>2
<1>3. /\ b \in Seq(S)
      /\ Len(b) = Len(s) - k
      /\ \A i \in 1 .. (Len(s) - k) : b[i] = s[k + i]
    <2>1. \A i \in (k + 1) .. Len(s) : s[i] \in S
        OBVIOUS
    <2>2. /\ b \in Seq(S)
          /\ Len(b) = IF k + 1 <= Len(s) THEN Len(s) - (k + 1) + 1 ELSE 0
          /\ \A i \in 1 .. (Len(s) - (k + 1) + 1) : b[i] = s[(k + 1) + i - 1]
        BY <1>1, <2>1, SubSeqProperties
    <2> HIDE DEF b
    <2> QED BY <1>1, <2>2
<1> HIDE DEF a, b
<1>4. /\ a \o b \in Seq(S)
      /\ Len(a \o b) = Len(a) + Len(b)
      /\ \A i \in 1 .. (Len(a) + Len(b)) :
            (a \o b)[i] = IF i <= Len(a) THEN a[i] ELSE b[i - Len(a)]
    BY <1>2, <1>3, ConcatProperties
<1>5. Seqs!RemoveAt(s, k) = a \o b
    BY DEF Seqs!RemoveAt, a, b
<1>6. Len(a) + Len(b) = Len(s) - 1
    BY <1>1, <1>2, <1>3
<1>7. ASSUME NEW i \in 1 .. (Len(s) - 1)
      PROVE  (a \o b)[i] = IF i < k THEN s[i] ELSE s[i + 1]
    <2>1. CASE i < k
        BY <2>1, <1>1, <1>2, <1>4, <1>6
    <2>2. CASE ~(i < k)
        <3>1. i - (k - 1) \in 1 .. (Len(s) - k) /\ k + (i - (k - 1)) = i + 1 /\ ~(i <= k - 1)
            BY <2>2, <1>1
        <3>2. (a \o b)[i] = b[i - (k - 1)]
            BY <3>1, <1>2, <1>4, <1>6
        <3> QED BY <2>2, <3>1, <3>2, <1>3
    <2> QED BY <2>1, <2>2
<1> QED BY <1>4, <1>5, <1>6, <1>7

\* The order of use without an id that is in it once.
LEMMA RemoveFirstOnce ==
    ASSUME NEW order \in Seq(Ids), Once(order), NEW id
    PROVE  LET after == Seqs!RemoveFirst(order, id)
           IN  /\ after \in Seq(Ids)
               /\ Once(after)
               /\ \A i : InOrder(after, i) <=> InOrder(order, i) /\ i # id
               /\ Len(after) = IF InOrder(order, id) THEN Len(order) - 1 ELSE Len(order)
<1>1. CASE ~InOrder(order, id)
    <2>1. Seqs!RemoveFirst(order, id) = order
        BY <1>1 DEF Seqs!RemoveFirst, InOrder
    <2> QED BY <1>1, <2>1 DEF InOrder
<1>2. CASE InOrder(order, id)
    <2>1. PICK k \in 1 .. Len(order) : order[k] = id
        BY <1>2 DEF InOrder
    <2>2. {i \in 1 .. Len(order) : order[i] = id} = {k}
        BY <2>1 DEF Once
    <2>3. Seqs!Min({k}) = k
        BY <2>1 DEF Seqs!Min
    <2>4. Seqs!SelectInSeq(order, LAMBDA v : v = id) = k
        BY <2>2, <2>3 DEF Seqs!SelectInSeq
    <2>5. Seqs!RemoveFirst(order, id) = Seqs!RemoveAt(order, k)
        BY <1>2, <2>4 DEF Seqs!RemoveFirst, InOrder
    <2> DEFINE after == Seqs!RemoveAt(order, k)
    <2>6. /\ after \in Seq(Ids)
          /\ Len(after) = Len(order) - 1
          /\ \A i \in 1 .. (Len(order) - 1) : after[i] = IF i < k THEN order[i] ELSE order[i + 1]
        BY RemoveAtProperties
    <2>7. Len(order) \in Nat
        OBVIOUS
    <2> HIDE DEF after
    <2>8. Once(after)
        BY <2>6, <2>7 DEF Once
    <2>9. \A i : InOrder(after, i) => InOrder(order, i) /\ i # id
        BY <2>1, <2>6, <2>7 DEF InOrder, Once
    <2>10. \A i : InOrder(order, i) /\ i # id => InOrder(after, i)
        <3> SUFFICES ASSUME NEW n \in 1 .. Len(order), order[n] # id PROVE InOrder(after, order[n])
            BY DEF InOrder
        <3>1. CASE n < k
            BY <3>1, <2>6, <2>7 DEF InOrder
        <3>2. CASE n > k
            <4>1. n - 1 \in 1 .. Len(after) /\ after[n - 1] = order[n]
                BY <3>2, <2>6, <2>7
            <4> QED BY <4>1 DEF InOrder
        <3> QED BY <2>1, <3>1, <3>2
    <2> QED BY <1>2, <2>5, <2>6, <2>8, <2>9, <2>10 DEF after
<1> QED BY <1>1, <1>2

\* What the type invariant says of the cache.
CacheOK(s) ==
    /\ s.val \in [Ids -> Sessions \cup {Absent}]
    /\ s.order \in Seq(Ids) /\ Len(s.order) <= Limit
    /\ \A i \in Ids : Holds(s, i) <=> InOrder(s.order, i)
    /\ Once(s.order)

\* The cache of a client that has just been created.
LEMMA EmptyCache == CacheOK(EmptyStore) /\ \A i \in Ids : EmptyStore.val[i] = Absent
<1>1. << >> \in Seq(Ids) /\ Len(<< >>) = 0
    OBVIOUS
<1>2. EmptyStore.val = [i \in Ids |-> Absent] /\ EmptyStore.order = << >>
    BY DEF EmptyStore
<1> QED BY <1>1, <1>2, StoreAssumption DEF CacheOK, Holds, InOrder, Once

\* LruMap::remove.
LEMMA RemoveCache ==
    ASSUME NEW s, CacheOK(s), NEW id \in Ids
    PROVE  /\ CacheOK(Remove(s, id))
           /\ \A i \in Ids : Remove(s, id).val[i] = IF i = id THEN Absent ELSE s.val[i]
           /\ Len(Remove(s, id).order) = IF Holds(s, id) THEN Len(s.order) - 1 ELSE Len(s.order)
<1> DEFINE r == Remove(s, id)
           order == Seqs!RemoveFirst(s.order, id)
<1>1. /\ order \in Seq(Ids)
      /\ Once(order)
      /\ \A i : InOrder(order, i) <=> InOrder(s.order, i) /\ i # id
      /\ Len(order) = IF InOrder(s.order, id) THEN Len(s.order) - 1 ELSE Len(s.order)
    BY RemoveFirstOnce DEF CacheOK
<1>2. r.val = [s.val EXCEPT ![id] = Absent] /\ r.order = order
    BY DEF Remove
<1>3. Len(s.order) \in Nat /\ Len(order) \in Nat /\ Limit \in Nat
    BY <1>1, StoreAssumption DEF CacheOK
<1> HIDE DEF order, r
<1>4. r.val \in [Ids -> Sessions \cup {Absent}]
      /\ \A i \in Ids : r.val[i] = IF i = id THEN Absent ELSE s.val[i]
    BY <1>2 DEF CacheOK
<1>5. Len(order) <= Limit
    BY <1>1, <1>3 DEF CacheOK
<1>6. \A i \in Ids : Holds(r, i) <=> InOrder(order, i)
    BY <1>1, <1>4 DEF CacheOK, Holds
<1>7. CacheOK(r)
    BY <1>1, <1>2, <1>4, <1>5, <1>6 DEF CacheOK
<1> QED BY <1>1, <1>2, <1>4, <1>7 DEF CacheOK, r

\* A use of an id that fits.
LEMMA UpdateCache ==
    ASSUME NEW s, CacheOK(s), NEW id \in Ids, NEW v \in Sessions,
           Holds(s, id) \/ Len(s.order) < Limit
    PROVE  /\ CacheOK(Update(s, id, v))
           /\ \A i \in Ids : Update(s, id, v).val[i] = IF i = id THEN v ELSE s.val[i]
<1> DEFINE r == Update(s, id, v)
           rest == Seqs!RemoveFirst(s.order, id)
           order == Append(rest, id)
<1>1. /\ rest \in Seq(Ids)
      /\ Once(rest)
      /\ \A i : InOrder(rest, i) <=> InOrder(s.order, i) /\ i # id
      /\ Len(rest) = IF InOrder(s.order, id) THEN Len(s.order) - 1 ELSE Len(s.order)
    BY RemoveFirstOnce DEF CacheOK
<1>2. r.val = [s.val EXCEPT ![id] = v] /\ r.order = order
    BY DEF Update
<1>3. Len(s.order) \in Nat /\ Len(rest) \in Nat /\ Limit \in Nat
    BY <1>1, StoreAssumption DEF CacheOK
<1> HIDE DEF rest
<1>4. /\ order \in Seq(Ids)
      /\ Len(order) = Len(rest) + 1
      /\ \A i \in 1 .. Len(rest) : order[i] = rest[i]
      /\ order[Len(rest) + 1] = id
    BY <1>1, AppendProperties
<1> HIDE DEF order, r
<1>5. r.val \in [Ids -> Sessions \cup {Absent}]
      /\ \A i \in Ids : r.val[i] = IF i = id THEN v ELSE s.val[i]
    BY <1>2 DEF CacheOK
<1>6. Len(order) <= Limit
    BY <1>1, <1>3, <1>4 DEF CacheOK
<1>7. \A i : InOrder(order, i) <=> InOrder(rest, i) \/ i = id
    BY <1>3, <1>4 DEF InOrder
<1>8. Once(order)
    <2>1. ~InOrder(rest, id)
        BY <1>1
    <2>2. \A n \in 1 .. Len(order) : n \in 1 .. Len(rest) \/ n = Len(rest) + 1
        BY <1>3, <1>4
    <2>3. \A n \in 1 .. Len(rest) : order[n] # id
        BY <1>4, <2>1 DEF InOrder
    <2> QED BY <1>1, <1>4, <2>2, <2>3 DEF Once
<1>9. \A i \in Ids : Holds(r, i) <=> InOrder(order, i)
    BY <1>1, <1>5, <1>7, ProteusAssumption DEF CacheOK, Holds
<1>10. CacheOK(r)
    BY <1>2, <1>4, <1>5, <1>6, <1>8, <1>9 DEF CacheOK
<1> QED BY <1>5, <1>10 DEF r

\* insert: what was cached under another id stays or is evicted.
LEMMA InsertCache ==
    ASSUME NEW s, CacheOK(s), NEW id \in Ids, NEW v \in Sessions
    PROVE  /\ CacheOK(Insert(s, id, v))
           /\ Insert(s, id, v).val[id] = v
           /\ \A i \in Ids \ {id} : Insert(s, id, v).val[i] \in {s.val[i], Absent}
<1>0. Len(s.order) \in Nat /\ Limit \in Nat \ {0} /\ Len(s.order) <= Limit
    BY StoreAssumption DEF CacheOK
<1>1. CASE ~Holds(s, id) /\ Len(s.order) = Limit
    <2> DEFINE old == Head(s.order)
               r == Remove(s, old)
    <2>1. s.order \in Seq(Ids) /\ s.order # << >>
        BY <1>0, <1>1 DEF CacheOK
    <2>2. old = s.order[1] /\ 1 \in 1 .. Len(s.order)
        BY <1>0, <1>1, <2>1
    <2>3. old \in Ids /\ InOrder(s.order, old)
        BY <2>1, <2>2 DEF InOrder
    <2>4. Holds(s, old)
        BY <2>3 DEF CacheOK
    <2> HIDE DEF old
    <2>5. /\ CacheOK(r)
          /\ \A i \in Ids : r.val[i] = IF i = old THEN Absent ELSE s.val[i]
          /\ Len(r.order) = Len(s.order) - 1
        BY <2>3, <2>4, RemoveCache
    <2>6. Insert(s, id, v) = Update(r, id, v)
        BY <1>1 DEF Insert, old
    <2> HIDE DEF r
    <2>7. Len(r.order) < Limit
        BY <1>0, <1>1, <2>5
    <2>8. /\ CacheOK(Update(r, id, v))
          /\ \A i \in Ids : Update(r, id, v).val[i] = IF i = id THEN v ELSE r.val[i]
        BY <2>5, <2>7, UpdateCache
    <2> QED BY <2>5, <2>6, <2>8
<1>2. CASE ~(~Holds(s, id) /\ Len(s.order) = Limit)
    <2>1. Holds(s, id) \/ Len(s.order) < Limit
        BY <1>0, <1>2
    <2>2. /\ CacheOK(Update(s, id, v))
          /\ \A i \in Ids : Update(s, id, v).val[i] = IF i = id THEN v ELSE s.val[i]
        BY <2>1, UpdateCache
    <2>3. Insert(s, id, v) = Update(s, id, v)
        BY <1>2 DEF Insert
    <2> QED BY <2>2, <2>3
<1> QED BY <1>1, <1>2

\* restore_sessions caches rows, as many as fit.
LEMMA RestoredCache ==
    ASSUME NEW table \in [Ids -> Sessions \cup {Absent}], NEW o \in RestoreOrders(table)
    PROVE  /\ CacheOK(Restored(table, o))
           /\ \A i \in Ids : Restored(table, o).val[i] \in {table[i], Absent}
<1> DEFINE kept == {i \in Ids : table[i] # Absent}
           r == Restored(table, o)
<1>1. /\ o \in UNION {[1 .. n -> kept] : n \in 0 .. Limit}
      /\ Once(o)
    BY DEF RestoreOrders, Once
<1>2. PICK n \in 0 .. Limit : o \in [1 .. n -> kept]
    BY <1>1
<1>3. n \in Nat /\ n <= Limit
    BY <1>2, StoreAssumption
<1>4. o \in Seq(kept) /\ Len(o) = n
    BY <1>2, <1>3
<1>5. /\ r.val = [i \in Ids |-> IF InOrder(o, i) THEN table[i] ELSE Absent]
      /\ r.order = o
    BY DEF Restored, InOrder
<1>6. \A i : InOrder(o, i) => i \in Ids /\ table[i] # Absent
    BY <1>2, <1>4 DEF InOrder
<1> HIDE DEF r
<1>7. o \in Seq(Ids)
    BY <1>4
<1>8. \A i \in Ids : Holds(r, i) <=> InOrder(o, i)
    BY <1>5, <1>6 DEF Holds
<1>9. r.val \in [Ids -> Sessions \cup {Absent}] /\ \A i \in Ids : r.val[i] \in {table[i], Absent}
    BY <1>5
<1>10. CacheOK(r)
    BY <1>1, <1>3, <1>4, <1>5, <1>7, <1>8, <1>9 DEF CacheOK
<1> QED BY <1>9, <1>10 DEF r

-----------------------------------------------------------------------------
(* Types                                                                   *)

Counts == [keys : Keys, faults : Nat, crashes : Nat]

DiskOK ==
    /\ me \in 0 .. MaxKeys /\ ident \in 0 .. MaxKeys
    /\ prekeys \in [PrekeyIds -> 0 .. MaxKeys]
    /\ rows \in [Ids -> Sessions \cup {Absent}]

AppOK ==
    /\ bundles \subseteq Bundles /\ peers \subseteq Peers
    /\ outbox \in Seq(MessageKeys) /\ inbox \in Seq(Messages)

\* The type invariant in the parts that the proofs use.
LEMMA TypeParts ==
    ProteusTypeOK <=> DiskOK /\ AppOK /\ CacheOK(store) /\ call \in [Tasks -> Calls] /\ used \in Counts
BY DEF ProteusTypeOK, DiskOK, AppOK, CacheOK, Counts, InOrder, Once

Batches == [op : {"proteus_encrypt_batched"}, todo : Seq(Ids), done : Seq(MessageKeys)]

\* What a call in progress carries.
LEMMA CallShape ==
    ASSUME NEW c \in Calls
    PROVE  /\ c # Idle <=> c.op # "idle"
           /\ c.op = "save_prekey" => c.id \in PrekeyIds
           /\ c.op = "proteus_decrypt" => c.sid \in Ids /\ c.session \in Sessions /\ c.msg \in Messages
           /\ c.op = "proteus_encrypt_batched" => c \in Batches
BY DEF Calls, Idle, Batches

\* The fields a batch changes keep their types.
LEMMA BatchFields ==
    ASSUME NEW c \in Batches, NEW x \in Seq(Ids), NEW y \in Seq(MessageKeys)
    PROVE  /\ [c EXCEPT !.todo = x] \in Batches
           /\ [c EXCEPT !.todo = x].done = c.done
           /\ [c EXCEPT !.todo = x, !.done = y] \in Batches
           /\ [c EXCEPT !.todo = x, !.done = y].done = y
BY DEF Batches

\* A batch in progress is a call.
LEMMA BatchIsCall == Batches \subseteq Calls
BY DEF Batches, Calls

\* A task without a call.
LEMMA IdleIsCall == Idle \in Calls
BY DEF Calls

\* Keys and prekey ids are natural numbers.
LEMMA Numbers ==
    /\ MaxKeys \in Nat \ {0} /\ MaxSent \in Nat /\ LastResort \in PrekeyIds
    /\ BoxKey \in Keys /\ Keys \subseteq 0 .. MaxKeys /\ 0 \in 0 .. MaxKeys /\ 0 \notin Keys
    /\ Keys = (0 .. MaxKeys) \ {0}
BY ProteusAssumption DEF BoxKey, Keys, PrekeyIds

\* What drawing a key, a fault and a crash do to the counters.
LEMMA CountTypes ==
    ASSUME NEW u \in Counts
    PROVE  /\ \A k \in Keys : [u EXCEPT !.keys = k] \in Counts /\ [u EXCEPT !.keys = k].keys = k
           /\ CountFault(u) \in Counts /\ CountFault(u).keys = u.keys
           /\ [u EXCEPT !.crashes = @ + 1] \in Counts
           /\ [u EXCEPT !.crashes = @ + 1].keys = u.keys
BY DEF Counts, CountFault

\* The sessions that the library makes.
LEMMA SessionTypes ==
    /\ \A g, k, d \in Keys : [tag |-> g, chain |-> k, ident |-> d, sent |-> 0, seen |-> {}] \in Sessions
    /\ \A k, d \in Keys, m \in Messages :
          [tag |-> m.tag, chain |-> k, ident |-> d, sent |-> 0, seen |-> {m}] \in Sessions
    /\ \A s \in Sessions : s.sent < MaxSent =>
          /\ Encrypted(s) \in Sessions
          /\ Encrypted(s).sent = s.sent + 1 /\ Encrypted(s).tag = s.tag /\ Encrypted(s).chain = s.chain
          /\ Encrypted(s).ident = s.ident /\ Encrypted(s).seen = s.seen
    /\ \A s \in Sessions, m \in Messages :
          /\ Seen(s, m) \in Sessions
          /\ Seen(s, m).sent = s.sent /\ Seen(s, m).tag = s.tag /\ Seen(s, m).chain = s.chain
          /\ Seen(s, m).ident = s.ident /\ Seen(s, m).seen = s.seen \cup {m}
<1>1. 0 \in 0 .. MaxSent
    BY Numbers
<1>2. \A s \in Sessions : s.sent \in 0 .. MaxSent /\ (s.sent < MaxSent => s.sent + 1 \in 0 .. MaxSent)
    BY Numbers DEF Sessions
<1>3. \A g, k, d \in Keys : [tag |-> g, chain |-> k, ident |-> d, sent |-> 0, seen |-> {}] \in Sessions
    BY <1>1 DEF Sessions
<1>4. \A k, d \in Keys, m \in Messages :
          [tag |-> m.tag, chain |-> k, ident |-> d, sent |-> 0, seen |-> {m}] \in Sessions
    <2> SUFFICES ASSUME NEW k \in Keys, NEW d \in Keys, NEW m \in Messages
                 PROVE  [tag |-> m.tag, chain |-> k, ident |-> d, sent |-> 0, seen |-> {m}] \in Sessions
        OBVIOUS
    <2>1. m.tag \in Keys
        BY DEF Messages
    <2> QED BY <1>1, <2>1 DEF Sessions
<1>5. ASSUME NEW s \in Sessions, s.sent < MaxSent
      PROVE  /\ Encrypted(s) \in Sessions
             /\ Encrypted(s).sent = s.sent + 1 /\ Encrypted(s).tag = s.tag /\ Encrypted(s).chain = s.chain
             /\ Encrypted(s).ident = s.ident /\ Encrypted(s).seen = s.seen
    BY <1>2, <1>5 DEF Sessions, Encrypted
<1>6. ASSUME NEW s \in Sessions, NEW m \in Messages
      PROVE  /\ Seen(s, m) \in Sessions
             /\ Seen(s, m).sent = s.sent /\ Seen(s, m).tag = s.tag /\ Seen(s, m).chain = s.chain
             /\ Seen(s, m).ident = s.ident /\ Seen(s, m).seen = s.seen \cup {m}
    <2>1. s.seen \cup {m} \in SUBSET Messages
        BY DEF Sessions
    <2> QED BY <2>1 DEF Sessions, Seen
<1> QED BY <1>3, <1>4, <1>5, <1>6

\* get_fetch returns a session of the cache or of the keystore.
LEMMA CurrentType ==
    ASSUME DiskOK, CacheOK(store), NEW i \in Ids, Current(i) # Absent
    PROVE  /\ Current(i) \in Sessions
           /\ Current(i) \in {store.val[i], rows[i]}
BY DEF DiskOK, CacheOK, Current, Lookup

\* What a step does to the sessions, when it gives id i the session s: the cache
\* has it, and whatever else it had or less; the keystore has it or has not.
Put(i, s) ==
    /\ CacheOK(store')
    /\ store'.val[i] = s
    /\ \A j \in Ids \ {i} : store'.val[j] \in {store.val[j], Absent}
    /\ \A j \in Ids \ {i} : rows'[j] = rows[j]
    /\ rows'[i] \in {rows[i], s}
    /\ rows' \in [Ids -> Sessions \cup {Absent}]

\* Saving a session, or failing to, puts it into the cache.
LEMMA PutTypes ==
    ASSUME DiskOK, CacheOK(store), NEW i \in Ids, NEW s \in Sessions,
           SaveSession(i, s) \/ SaveFails(i, s)
    PROVE  Put(i, s)
<1>1. store' = Insert(store, i, s)
    BY DEF SaveSession, SaveFails
<1>2. /\ CacheOK(Insert(store, i, s))
      /\ Insert(store, i, s).val[i] = s
      /\ \A j \in Ids \ {i} : Insert(store, i, s).val[j] \in {store.val[j], Absent}
    BY InsertCache
<1>3. rows' = rows \/ rows' = [rows EXCEPT ![i] = s]
    BY DEF SaveSession, SaveFails
<1>4. /\ \A j \in Ids \ {i} : rows'[j] = rows[j]
      /\ rows'[i] \in {rows[i], s}
      /\ rows' \in [Ids -> Sessions \cup {Absent}]
    BY <1>3 DEF DiskOK
<1> QED BY <1>1, <1>2, <1>4 DEF Put

\* The types are kept by every action.
LEMMA TypeStep ==
    ASSUME ProteusTypeOK, [ProteusNext]_vars
    PROVE  ProteusTypeOK'
<1> DEFINE Done == DiskOK' /\ AppOK' /\ CacheOK(store') /\ call' \in [Tasks -> Calls] /\ used' \in Counts
<1>0. DiskOK /\ AppOK /\ CacheOK(store) /\ call \in [Tasks -> Calls] /\ used \in Counts
    BY TypeParts
<1> SUFFICES Done
    <2>1. ProteusTypeOK' <=> (DiskOK /\ AppOK /\ CacheOK(store) /\ call \in [Tasks -> Calls] /\ used \in Counts)'
        BY TypeParts, PTL
    <2> QED BY <2>1
<1> USE <1>0 DEF Done
<1>idle. \A t \in Tasks : [call EXCEPT ![t] = Idle] \in [Tasks -> Calls]
    BY IdleIsCall
<1>fresh. ASSUME Fresh \in Keys PROVE [used EXCEPT !.keys = Fresh] \in Counts
    BY <1>fresh, CountTypes
<1>fault. CountFault(used) \in Counts
    BY CountTypes
<1>1. ASSUME NEW t \in Tasks, StartInit(t) PROVE Done
    <2>1. call' \in [Tasks -> Calls]
        BY <1>1 DEF StartInit, Calls
    <2>2. used' \in Counts /\ ident' \in 0 .. MaxKeys
        BY <1>1, <1>fresh, Numbers DEF StartInit, DiskOK
    <2> QED BY <1>1, <2>1, <2>2 DEF StartInit, DiskOK, AppOK, app
<1>2. ASSUME NEW t \in Tasks, FinishInit(t) PROVE Done
    <2>1. call' \in [Tasks -> Calls]
        BY <1>2, <1>idle DEF FinishInit
    <2>2. used' \in Counts /\ prekeys' \in [PrekeyIds -> 0 .. MaxKeys]
        BY <1>2, <1>fresh, Numbers DEF FinishInit, DiskOK
    <2>3. CacheOK(store')
        <3>1. PICK o \in RestoreOrders(rows) : store' = Restored(rows, o)
            BY <1>2 DEF FinishInit
        <3> QED BY <3>1, RestoredCache DEF DiskOK
    <2> QED BY <1>2, <2>1, <2>2, <2>3 DEF FinishInit, DiskOK, AppOK, app
<1>3. ASSUME NEW t \in Tasks, MigrateIdentity(t) PROVE Done
    <2>1. call' \in [Tasks -> Calls]
        BY <1>3 DEF MigrateIdentity, Calls
    <2>2. ident' \in 0 .. MaxKeys
        BY <1>3, Numbers DEF MigrateIdentity, DiskOK
    <2> QED BY <1>3, <2>1, <2>2 DEF MigrateIdentity, DiskOK, AppOK, app
<1>4. ASSUME NEW t \in Tasks, FinishMigration(t) PROVE Done
    BY <1>4, <1>idle DEF FinishMigration, DiskOK, AppOK, disk
<1>5. ASSUME NEW t \in Tasks, NEW i \in BoxSessions, MigrateSession(t, i) PROVE Done
    <2>1. [tag |-> BoxKey, chain |-> BoxKey, ident |-> BoxKey, sent |-> 0, seen |-> {}] \in Sessions
        BY SessionTypes, Numbers
    <2>2. rows' \in [Ids -> Sessions \cup {Absent}]
        BY <1>5, <2>1 DEF MigrateSession, DiskOK
    <2> QED BY <1>5, <2>2 DEF MigrateSession, DiskOK, AppOK, app
<1>6. ASSUME NEW t \in Tasks, NEW i \in BoxPrekeys, MigratePrekey(t, i) PROVE Done
    <2>2. prekeys' \in [PrekeyIds -> 0 .. MaxKeys]
        BY <1>6, Numbers DEF MigratePrekey, DiskOK
    <2> QED BY <1>6, <2>2 DEF MigratePrekey, DiskOK, AppOK, app
<1>7. ASSUME NEW t \in Tasks, NEW ids \in [1 .. 2 -> Ids], StartBatch(t, ids) PROVE Done
    <2>1. ids \in Seq(Ids) /\ << >> \in Seq(MessageKeys)
        <3>1. \A n \in Nat : \A f \in [1 .. n -> Ids] : f \in Seq(Ids)
            OBVIOUS
        <3> QED BY <3>1, EmptySeq
    <2>2. [op |-> "proteus_encrypt_batched", todo |-> ids, done |-> << >>] \in Calls
        BY <2>1, BatchIsCall DEF Batches
    <2>3. call' \in [Tasks -> Calls]
        BY <1>7, <2>2 DEF StartBatch
    <2> QED BY <1>7, <2>3 DEF StartBatch, DiskOK, AppOK, app, disk
<1>8. ASSUME NEW t \in Tasks, BatchStep(t) PROVE Done
    <2> DEFINE i == Head(call[t].todo)
               s == Encrypted(Current(i))
    <2>1. call[t] \in Batches /\ call[t].todo # << >>
        BY <1>8, CallShape DEF BatchStep
    <2>2. /\ call[t].todo \in Seq(Ids) /\ call[t].done \in Seq(MessageKeys)
          /\ i \in Ids /\ Tail(call[t].todo) \in Seq(Ids)
        <3>1. call[t].todo \in Seq(Ids) /\ call[t].done \in Seq(MessageKeys)
            BY <2>1 DEF Batches
        <3> QED BY <2>1, <3>1
    <2>3. CASE Current(i) = Absent
        <3>1. call' = [call EXCEPT ![t] = [call[t] EXCEPT !.todo = Tail(call[t].todo)]]
            BY <1>8, <2>3 DEF BatchStep
        <3>2. call' \in [Tasks -> Calls]
            BY <2>1, <2>2, <3>1, BatchFields, BatchIsCall
        <3> QED BY <1>8, <2>3, <3>2 DEF BatchStep, DiskOK, AppOK, app
    <2>4. CASE Current(i) # Absent
        <3>1. Current(i) \in Sessions /\ Current(i).sent < MaxSent
            BY <1>8, <2>2, <2>4, CurrentType DEF BatchStep
        <3>2. s \in Sessions
            BY <3>1, SessionTypes
        <3>3. MessageKey(i, s) \in MessageKeys
            <4>1. s.chain \in Keys /\ s.sent \in Nat
                BY <3>2, Numbers DEF Sessions
            <4> HIDE DEF i, s
            <4> QED BY <2>2, <4>1 DEF MessageKey, MessageKeys
        <3>4. Append(call[t].done, MessageKey(i, s)) \in Seq(MessageKeys)
            BY <2>2, <3>3, AppendProperties
        <3>5. \/ call' = [call EXCEPT ![t] = [call[t] EXCEPT !.todo = Tail(call[t].todo),
                                                           !.done = Append(call[t].done, MessageKey(i, s))]]
              \/ call' = [call EXCEPT ![t] = Idle]
            <4>1. \/ call' = [call EXCEPT ![t].todo = Tail(@), ![t].done = Append(@, MessageKey(i, s))]
                  \/ call' = [call EXCEPT ![t] = Idle]
                BY <1>8, <2>4 DEF BatchStep
            <4> QED BY <4>1, <2>1 DEF Batches
        <3>6. call' \in [Tasks -> Calls]
            BY <2>1, <2>2, <3>4, <3>5, <1>idle, BatchFields, BatchIsCall
        <3>7. SaveSession(i, s) \/ SaveFails(i, s)
            BY <1>8, <2>4 DEF BatchStep
        <3>8. Put(i, s)
            BY <2>2, <3>2, <3>7, PutTypes
        <3>9. used' \in Counts
            BY <1>8, <2>4, <1>fault DEF BatchStep
        <3> QED BY <1>8, <3>6, <3>8, <3>9 DEF BatchStep, Put, DiskOK, AppOK, app
    <2> QED BY <2>3, <2>4
<1>9. ASSUME NEW t \in Tasks, FinishBatch(t) PROVE Done
    <2>1. call[t].done \in Seq(MessageKeys)
        BY <1>9, CallShape DEF FinishBatch, Batches
    <2>2. outbox' \in Seq(MessageKeys)
        BY <1>9, <2>1, ConcatProperties DEF FinishBatch, AppOK
    <2> QED BY <1>9, <2>2, <1>idle DEF FinishBatch, DiskOK, AppOK, disk
<1>10. ASSUME NEW t \in Tasks, NEW m \in Sent, StartSession(t, m) PROVE Done
    <2>1. m \in Messages /\ m.from \in Ids /\ m.id \in PrekeyIds
        BY DEF Sent, Messages
    <2>2. me \in Keys /\ Fresh \in Keys
        BY <1>10, Numbers DEF StartSession, Ready, DiskOK
    <2>3. [tag |-> m.tag, chain |-> Fresh, ident |-> me, sent |-> 0, seen |-> {m}] \in Sessions
        BY <2>1, <2>2, SessionTypes
    <2>4. call' \in [Tasks -> Calls]
        <3> DEFINE s == [tag |-> m.tag, chain |-> Fresh, ident |-> me, sent |-> 0, seen |-> {m}]
        <3>1. s \in Sessions
            BY <2>3
        <3>2. call' = [call EXCEPT ![t] = [op |-> "proteus_decrypt", sid |-> m.from, msg |-> m, session |-> s]]
            BY <1>10 DEF StartSession
        <3> HIDE DEF s
        <3>3. [op |-> "proteus_decrypt", sid |-> m.from, msg |-> m, session |-> s] \in Calls
            BY <2>1, <3>1 DEF Calls
        <3> QED BY <3>2, <3>3
    <2>5. prekeys' \in [PrekeyIds -> 0 .. MaxKeys]
        BY <1>10, <2>1, Numbers DEF StartSession, DiskOK
    <2>6. used' \in Counts
        BY <1>10, <2>2, <1>fresh DEF StartSession
    <2> QED BY <1>10, <2>4, <2>5, <2>6 DEF StartSession, DiskOK, AppOK, app
<1>11. ASSUME NEW t \in Tasks, FinishSession(t) PROVE Done
    <2>1. call[t].sid \in Ids /\ call[t].session \in Sessions /\ call[t].msg \in Messages
        BY <1>11, CallShape DEF FinishSession
    <2>2. Put(call[t].sid, call[t].session)
        BY <1>11, <2>1, PutTypes DEF FinishSession
    <2>3. used' \in Counts
        BY <1>11, <1>fault DEF FinishSession
    <2>4. inbox' \in Seq(Messages)
        BY <1>11, <2>1, AppendProperties DEF FinishSession, AppOK
    <2> QED BY <1>11, <2>2, <2>3, <2>4, <1>idle DEF FinishSession, Put, DiskOK, AppOK
<1>12. ASSUME NEW t \in Tasks, NewPrekeyAuto(t) PROVE Done
    <2>1. PICK i \in FreeIds : call' = [call EXCEPT ![t] = [op |-> "save_prekey", id |-> i]]
        BY <1>12 DEF NewPrekeyAuto
    <2>2. i \in PrekeyIds
        BY DEF FreeIds
    <2>3. call' \in [Tasks -> Calls]
        BY <2>1, <2>2 DEF Calls
    <2> QED BY <1>12, <2>3 DEF NewPrekeyAuto, DiskOK, AppOK, disk, app
<1>bundle. ASSUME NEW i \in PrekeyIds, NEW k \in Keys PROVE Bundle(i, k) \in Bundles
    BY DEF Bundle, Bundles, DiskOK
<1>13. ASSUME NEW t \in Tasks, SavePrekey(t) PROVE Done
    <2>1. call[t].id \in PrekeyIds /\ Fresh \in Keys
        BY <1>13, CallShape DEF SavePrekey
    <2>2. used' \in Counts /\ prekeys' \in [PrekeyIds -> 0 .. MaxKeys]
        BY <1>13, <2>1, <1>fresh, Numbers DEF SavePrekey, DiskOK
    <2>3. bundles' \subseteq Bundles
        BY <1>13, <2>1, <1>bundle DEF SavePrekey, AppOK
    <2> QED BY <1>13, <2>2, <2>3, <1>idle DEF SavePrekey, DiskOK, AppOK
<1>14. ASSUME NEW t \in Tasks, CallFails(t) PROVE Done
    BY <1>14, <1>idle, <1>fault DEF CallFails, DiskOK, AppOK, disk, app
<1>15. CASE ReloadSessions
    <2>1. PICK o \in RestoreOrders(rows) : store' = Restored(rows, o)
        BY <1>15 DEF ReloadSessions
    <2>2. CacheOK(store')
        BY <2>1, RestoredCache DEF DiskOK
    <2> QED BY <1>15, <2>2 DEF ReloadSessions, DiskOK, AppOK, disk, app
<1>16. ASSUME NEW i \in Ids, SessionFromPrekey(i) PROVE Done
    <2> DEFINE s == [tag |-> Fresh, chain |-> Fresh, ident |-> me, sent |-> 0, seen |-> {}]
               u == [used EXCEPT !.keys = Fresh]
    <2>1. me \in Keys /\ Fresh \in Keys
        BY <1>16, Numbers DEF SessionFromPrekey, Ready, DiskOK
    <2>2. s \in Sessions
        BY <2>1, SessionTypes
    <2>3. (SaveSession(i, s) /\ used' = u) \/ (SaveFails(i, s) /\ used' = CountFault(u))
        BY <1>16 DEF SessionFromPrekey
    <2>4. u \in Counts
        BY <2>1, <1>fresh
    <2> HIDE DEF s, u
    <2>5. used' \in Counts /\ Put(i, s)
        BY <2>2, <2>3, <2>4, CountTypes, PutTypes
    <2> QED BY <1>16, <2>5 DEF SessionFromPrekey, Put, DiskOK, AppOK, app
<1>17. ASSUME NEW i \in Ids, Encrypt(i) PROVE Done
    <2> DEFINE s == Encrypted(Current(i))
    <2>1. Current(i) \in Sessions /\ Current(i).sent < MaxSent
        BY <1>17, CurrentType DEF Encrypt
    <2>2. s \in Sessions
        BY <2>1, SessionTypes
    <2>3. \/ SaveSession(i, s) /\ outbox' = Append(outbox, MessageKey(i, s)) /\ UNCHANGED used
          \/ SaveFails(i, s) /\ used' = CountFault(used) /\ UNCHANGED outbox
        BY <1>17 DEF Encrypt
    <2>4. MessageKey(i, s) \in MessageKeys
        <3>1. s.chain \in Keys /\ s.sent \in Nat
            BY <2>2, Numbers DEF Sessions
        <3> HIDE DEF s
        <3> QED BY <3>1 DEF MessageKey, MessageKeys
    <2> HIDE DEF s
    <2>5. used' \in Counts /\ Put(i, s)
        BY <2>2, <2>3, <1>fault, PutTypes
    <2>6. outbox' \in Seq(MessageKeys)
        BY <2>3, <2>4, AppendProperties DEF AppOK
    <2> QED BY <1>17, <2>5, <2>6 DEF Encrypt, Put, DiskOK, AppOK
<1>18. ASSUME NEW i \in Ids, SaveExplicitly(i) PROVE Done
    <2>1. Current(i) \in Sessions /\ SaveSession(i, Current(i))
        BY <1>18, CurrentType DEF SaveExplicitly
    <2>2. Put(i, Current(i))
        BY <2>1, PutTypes
    <2> QED BY <1>18, <2>2 DEF SaveExplicitly, Put, DiskOK, AppOK, app
<1>19. ASSUME NEW i \in Ids, Touch(i) PROVE Done
    <2>1. CacheOK(store')
        <3>1. CASE Current(i) = Absent
            BY <1>19, <3>1 DEF Touch, Fetch, Current
        <3>2. CASE Current(i) # Absent
            <4>1. store' = Insert(store, i, Current(i)) /\ Current(i) \in Sessions
                BY <1>19, <3>2, CurrentType DEF Touch, Fetch, Current
            <4> QED BY <4>1, InsertCache
        <3> QED BY <3>1, <3>2
    <2> QED BY <1>19, <2>1 DEF Touch, DiskOK, AppOK, disk, app
<1>20. ASSUME NEW i \in Ids, SessionDelete(i) PROVE Done
    <2>1. CacheOK(store')
        BY <1>20, RemoveCache DEF SessionDelete
    <2>2. rows' \in [Ids -> Sessions \cup {Absent}]
        BY <1>20 DEF SessionDelete, DiskOK
    <2> QED BY <1>20, <2>1, <2>2 DEF SessionDelete, DiskOK, AppOK, app
<1>21. ASSUME NEW m \in Sent, Decrypt(m) PROVE Done
    <2> DEFINE s == Seen(Current(m.from), m)
    <2>1. m \in Messages /\ m.from \in Ids
        BY DEF Sent, Messages
    <2>2. Current(m.from) \in Sessions
        BY <1>21, <2>1, CurrentType DEF Decrypt, Continues
    <2>3. s \in Sessions
        BY <2>1, <2>2, SessionTypes
    <2>4. \/ SaveSession(m.from, s) /\ inbox' = Append(inbox, m) /\ UNCHANGED used
          \/ SaveFails(m.from, s) /\ used' = CountFault(used) /\ UNCHANGED inbox
        BY <1>21 DEF Decrypt
    <2> HIDE DEF s
    <2>5. used' \in Counts /\ Put(m.from, s)
        BY <2>1, <2>3, <2>4, <1>fault, PutTypes
    <2>6. inbox' \in Seq(Messages)
        BY <2>1, <2>4, AppendProperties DEF AppOK
    <2> QED BY <1>21, <2>5, <2>6 DEF Decrypt, Put, DiskOK, AppOK
<1>22. ASSUME NEW i \in PrekeyIds, NewPrekey(i) PROVE Done
    <2>1. Fresh \in Keys
        BY <1>22 DEF NewPrekey
    <2>2. used' \in Counts /\ prekeys' \in [PrekeyIds -> 0 .. MaxKeys]
        BY <1>22, <2>1, <1>fresh, Numbers DEF NewPrekey, DiskOK
    <2>3. bundles' \subseteq Bundles
        BY <1>22, <2>1, <1>bundle DEF NewPrekey, AppOK
    <2> QED BY <1>22, <2>2, <2>3 DEF NewPrekey, DiskOK, AppOK
<1>23. CASE LastResortPrekey
    <2>1. prekeys[LastResort] \in Keys
        BY <1>23, Numbers DEF LastResortPrekey, DiskOK
    <2>2. bundles' \subseteq Bundles
        BY <1>23, <2>1, <1>bundle, Numbers DEF LastResortPrekey, AppOK
    <2> QED BY <1>23, <2>2 DEF LastResortPrekey, DiskOK, AppOK, disk
<1>24. ASSUME NEW i \in Ids, NEW b \in bundles, PeerStarts(i, b) PROVE Done
    <2>1. b.id \in PrekeyIds /\ b.key \in Keys /\ Fresh \in Keys
        BY <1>24 DEF PeerStarts, AppOK, Bundles
    <2>2. [from |-> i, tag |-> Fresh, id |-> b.id, key |-> b.key] \in Peers
        BY <2>1 DEF Peers
    <2>3. peers' \subseteq Peers
        BY <1>24, <2>2 DEF PeerStarts, AppOK
    <2>4. used' \in Counts
        BY <1>24, <2>1, <1>fresh DEF PeerStarts
    <2> QED BY <1>24, <2>3, <2>4 DEF PeerStarts, DiskOK, AppOK, disk
<1>25. CASE Crash
    <2>1. call' \in [Tasks -> Calls]
        BY <1>25, IdleIsCall DEF Crash
    <2>2. used' \in Counts
        BY <1>25, CountTypes DEF Crash
    <2> QED BY <1>25, <2>1, <2>2, EmptyCache, Numbers DEF Crash, DiskOK, AppOK, disk, app
<1>26. CASE UNCHANGED vars
    BY <1>26 DEF vars, DiskOK, AppOK
<1> QED
    BY <1>1, <1>2, <1>3, <1>4, <1>5, <1>6, <1>7, <1>8, <1>9, <1>10, <1>11, <1>12, <1>13, <1>14, <1>15,
       <1>16, <1>17, <1>18, <1>19, <1>20, <1>21, <1>22, <1>23, <1>24, <1>25, <1>26 DEF ProteusNext

\* The initial states are well typed.
LEMMA TypeInit == ProteusInit => ProteusTypeOK
<1> SUFFICES ASSUME ProteusInit PROVE DiskOK /\ AppOK /\ CacheOK(store) /\ call \in [Tasks -> Calls] /\ used \in Counts
    BY TypeParts
<1>1. << >> \in Seq(MessageKeys) /\ << >> \in Seq(Messages)
    OBVIOUS
<1> QED BY <1>1, EmptyCache, IdleIsCall, Numbers DEF ProteusInit, DiskOK, AppOK, Counts

\* The client's memory, keystore and application are well typed, and the cache
\* keeps to its limit with each session once in the order of use (group_store.rs),
\* on both platforms and both keystores.
THEOREM ProteusTypeCorrect == ProteusSpec => []ProteusTypeOK
BY TypeInit, TypeStep, PTL DEF ProteusSpec

-----------------------------------------------------------------------------
(* One identity                                                            *)

SessionsMine ==
    \A i \in Ids : /\ rows[i] # Absent => rows[i].ident = ident
                   /\ store.val[i] # Absent => store.val[i].ident = ident

CallMine(t) ==
    /\ call[t].op = "proteus_decrypt" => call[t].session.ident = ident
    /\ call[t].op = "proteus_init" => ident # 0
    /\ call[t].op = "save_prekey" => me # 0

\* OneIdentity with what makes it inductive: the cached sessions, and what a
\* call between two keystore accesses still has to write.
IdentityInv ==
    /\ me # 0 => me = ident
    /\ \A b \in bundles : b.ident = ident /\ ident # 0
    /\ SessionsMine
    /\ \A t \in Tasks : CallMine(t)

\* Nothing belongs to an identity that does not exist.
LEMMA NothingYet ==
    ASSUME ProteusTypeOK, IdentityInv, ident = 0
    PROVE  /\ me = 0 /\ bundles = {}
           /\ \A i \in Ids : rows[i] = Absent /\ store.val[i] = Absent
           /\ \A t \in Tasks : call[t].op \notin {"proteus_decrypt", "proteus_init", "save_prekey"}
<1>1. DiskOK /\ CacheOK(store) /\ call \in [Tasks -> Calls]
    BY TypeParts
<1>2. \A s \in Sessions : s.ident # 0
    BY Numbers DEF Sessions
<1>3. \A i \in Ids : rows[i] = Absent /\ store.val[i] = Absent
    BY <1>1, <1>2 DEF IdentityInv, SessionsMine, DiskOK, CacheOK
<1>4. \A t \in Tasks : call[t].op # "proteus_decrypt"
    BY <1>1, <1>2, CallShape DEF IdentityInv, CallMine
<1> QED BY <1>3, <1>4 DEF IdentityInv, CallMine

\* A session of the client is put into the cache, and saved or not.
LEMMA PutMine ==
    ASSUME IdentityInv, NEW i \in Ids, NEW s \in Sessions, s.ident = ident, Put(i, s), ident' = ident
    PROVE  SessionsMine'
BY DEF IdentityInv, SessionsMine, Put

\* Every step keeps the one identity, on both platforms.
LEMMA IdentityStep ==
    ASSUME ProteusTypeOK, IdentityInv, [ProteusNext]_vars
    PROVE  IdentityInv'
<1>0. DiskOK /\ AppOK /\ CacheOK(store) /\ call \in [Tasks -> Calls] /\ used \in Counts
    BY TypeParts
<1> USE <1>0
<1>op. \A t \in Tasks : call[t].op = "idle" <=> call[t] = Idle
    BY CallShape
<1>idle. Idle.op = "idle"
    BY DEF Idle
<1>1. ASSUME NEW t \in Tasks, StartInit(t) PROVE IdentityInv'
    <2>1. call'[t].op = "proteus_init" /\ \A u \in Tasks \ {t} : call'[u] = call[u]
        BY <1>1 DEF StartInit
    <2>2. ident' # 0 /\ (ident # 0 => ident' = ident)
        BY <1>1, Numbers DEF StartInit
    <2>3. CASE ident # 0
        BY <1>1, <2>1, <2>2, <2>3 DEF StartInit, IdentityInv, SessionsMine, CallMine, app
    <2>4. CASE ident = 0
        <3>1. me' = 0 /\ bundles' = {} /\ \A i \in Ids : rows'[i] = Absent /\ store'.val[i] = Absent
            BY <1>1, <2>4, NothingYet DEF StartInit, app
        <3>2. \A u \in Tasks : call'[u].op \notin {"proteus_decrypt", "save_prekey"}
            BY <2>1, <2>4, NothingYet
        <3> QED BY <2>2, <3>1, <3>2 DEF IdentityInv, SessionsMine, CallMine
    <2> QED BY <2>3, <2>4
<1>2. ASSUME NEW t \in Tasks, FinishInit(t) PROVE IdentityInv'
    <2>1. ident # 0 /\ ident' = ident /\ me' = ident /\ rows' = rows /\ bundles' = bundles
        BY <1>2 DEF FinishInit, IdentityInv, CallMine, app
    <2>2. call'[t].op = "idle" /\ \A u \in Tasks \ {t} : call'[u] = call[u]
        BY <1>2, <1>idle DEF FinishInit
    <2>3. PICK o \in RestoreOrders(rows) : store' = Restored(rows, o)
        BY <1>2 DEF FinishInit
    <2>4. \A i \in Ids : store'.val[i] \in {rows[i], Absent}
        BY <2>3, RestoredCache DEF DiskOK
    <2> QED BY <2>1, <2>2, <2>4 DEF IdentityInv, SessionsMine, CallMine
<1>3. ASSUME NEW t \in Tasks, MigrateIdentity(t) PROVE IdentityInv'
    <2>1. call'[t].op = "proteus_cryptobox_migrate" /\ \A u \in Tasks \ {t} : call'[u] = call[u]
        BY <1>3 DEF MigrateIdentity
    <2>2. ident' # 0 /\ (ident # 0 => ident' = ident)
        BY <1>3, Numbers DEF MigrateIdentity
    <2>3. CASE ident # 0
        BY <1>3, <2>1, <2>2, <2>3 DEF MigrateIdentity, IdentityInv, SessionsMine, CallMine, app
    <2>4. CASE ident = 0
        <3>1. me' = 0 /\ bundles' = {} /\ \A i \in Ids : rows'[i] = Absent /\ store'.val[i] = Absent
            BY <1>3, <2>4, NothingYet DEF MigrateIdentity, app
        <3>2. \A u \in Tasks : call'[u].op \notin {"proteus_decrypt", "save_prekey"}
            BY <2>1, <2>4, NothingYet
        <3> QED BY <2>2, <3>1, <3>2 DEF IdentityInv, SessionsMine, CallMine
    <2> QED BY <2>3, <2>4
<1>4. ASSUME NEW t \in Tasks, FinishMigration(t) PROVE IdentityInv'
    <2>1. call'[t].op = "idle" /\ \A u \in Tasks \ {t} : call'[u] = call[u]
        BY <1>4, <1>idle DEF FinishMigration
    <2> QED BY <1>4, <2>1 DEF FinishMigration, IdentityInv, SessionsMine, CallMine, disk
<1>5. ASSUME NEW t \in Tasks, NEW i \in BoxSessions, MigrateSession(t, i) PROVE IdentityInv'
    <2>1. ident = BoxKey /\ i \in Ids
        BY <1>5, ProteusAssumption DEF MigrateSession
    <2>2. rows'[i].ident = ident /\ \A j \in Ids \ {i} : rows'[j] = rows[j]
        BY <1>5, <2>1 DEF MigrateSession, DiskOK
    <2> QED BY <1>5, <2>2 DEF MigrateSession, IdentityInv, SessionsMine, CallMine, app
<1>6. ASSUME NEW t \in Tasks, NEW i \in BoxPrekeys, MigratePrekey(t, i) PROVE IdentityInv'
    BY <1>6 DEF MigratePrekey, IdentityInv, SessionsMine, CallMine, app
<1>7. ASSUME NEW t \in Tasks, NEW ids \in [1 .. 2 -> Ids], StartBatch(t, ids) PROVE IdentityInv'
    <2>1. call'[t].op = "proteus_encrypt_batched" /\ \A u \in Tasks \ {t} : call'[u] = call[u]
        BY <1>7 DEF StartBatch
    <2> QED BY <1>7, <2>1 DEF StartBatch, IdentityInv, SessionsMine, CallMine, disk, app
<1>8. ASSUME NEW t \in Tasks, BatchStep(t) PROVE IdentityInv'
    <2> DEFINE i == Head(call[t].todo)
               s == Encrypted(Current(i))
    <2>1. call[t] \in Batches /\ call[t].todo # << >>
        BY <1>8, CallShape DEF BatchStep
    <2>2. i \in Ids
        <3>1. call[t].todo \in Seq(Ids)
            BY <2>1 DEF Batches
        <3> QED BY <2>1, <3>1
    <2>3. /\ call'[t].op \in {"proteus_encrypt_batched", "idle"}
          /\ \A u \in Tasks \ {t} : call'[u] = call[u]
        BY <1>8, <2>1, <1>idle DEF BatchStep, Batches
    <2>4. SessionsMine'
        <3>1. CASE Current(i) = Absent
            BY <1>8, <3>1 DEF BatchStep, IdentityInv, SessionsMine
        <3>2. CASE Current(i) # Absent
            <4>1. Current(i) \in Sessions /\ Current(i).sent < MaxSent /\ Current(i).ident = ident
                BY <1>8, <2>2, <3>2, CurrentType DEF BatchStep, IdentityInv, SessionsMine
            <4>2. s \in Sessions /\ s.ident = ident
                BY <4>1, SessionTypes
            <4>3. (SaveSession(i, s) \/ SaveFails(i, s)) /\ ident' = ident
                BY <1>8, <3>2 DEF BatchStep
            <4> HIDE DEF i, s
            <4> QED BY <2>2, <4>2, <4>3, PutTypes, PutMine
        <3> QED BY <3>1, <3>2
    <2> QED BY <1>8, <2>3, <2>4 DEF BatchStep, IdentityInv, CallMine, app
<1>9. ASSUME NEW t \in Tasks, FinishBatch(t) PROVE IdentityInv'
    <2>1. call'[t].op = "idle" /\ \A u \in Tasks \ {t} : call'[u] = call[u]
        BY <1>9, <1>idle DEF FinishBatch
    <2> QED BY <1>9, <2>1 DEF FinishBatch, IdentityInv, SessionsMine, CallMine, disk
<1>10. ASSUME NEW t \in Tasks, NEW m \in Sent, StartSession(t, m) PROVE IdentityInv'
    <2>1. /\ call'[t].op = "proteus_decrypt" /\ call'[t].session.ident = me
          /\ \A u \in Tasks \ {t} : call'[u] = call[u]
        BY <1>10 DEF StartSession
    <2>2. me = ident
        BY <1>10 DEF StartSession, Ready, IdentityInv
    <2> QED BY <1>10, <2>1, <2>2 DEF StartSession, IdentityInv, SessionsMine, CallMine, app
<1>11. ASSUME NEW t \in Tasks, FinishSession(t) PROVE IdentityInv'
    <2>1. /\ call[t].sid \in Ids /\ call[t].session \in Sessions /\ call[t].session.ident = ident
          /\ ident' = ident
        BY <1>11, CallShape DEF FinishSession, IdentityInv, CallMine
    <2>2. SessionsMine'
        BY <1>11, <2>1, PutTypes, PutMine DEF FinishSession
    <2>3. call'[t].op = "idle" /\ \A u \in Tasks \ {t} : call'[u] = call[u]
        BY <1>11, <1>idle DEF FinishSession
    <2> QED BY <1>11, <2>2, <2>3 DEF FinishSession, IdentityInv, CallMine
<1>12. ASSUME NEW t \in Tasks, NewPrekeyAuto(t) PROVE IdentityInv'
    <2>1. call'[t].op = "save_prekey" /\ \A u \in Tasks \ {t} : call'[u] = call[u]
        BY <1>12 DEF NewPrekeyAuto
    <2> QED BY <1>12, <2>1 DEF NewPrekeyAuto, Ready, IdentityInv, SessionsMine, CallMine, disk, app
<1>13. ASSUME NEW t \in Tasks, SavePrekey(t) PROVE IdentityInv'
    <2>1. call'[t].op = "idle" /\ \A u \in Tasks \ {t} : call'[u] = call[u]
        BY <1>13, <1>idle DEF SavePrekey
    <2>2. me # 0 /\ me = ident
        BY <1>13 DEF SavePrekey, IdentityInv, CallMine
    <2>3. \A b \in bundles' : b.ident = ident
        BY <1>13, <2>2 DEF SavePrekey, IdentityInv, Bundle
    <2> QED BY <1>13, <2>1, <2>2, <2>3 DEF SavePrekey, IdentityInv, SessionsMine, CallMine
<1>14. ASSUME NEW t \in Tasks, CallFails(t) PROVE IdentityInv'
    <2>1. call'[t].op = "idle" /\ \A u \in Tasks \ {t} : call'[u] = call[u]
        BY <1>14, <1>idle DEF CallFails
    <2> QED BY <1>14, <2>1 DEF CallFails, IdentityInv, SessionsMine, CallMine, disk, app
<1>15. CASE ReloadSessions
    <2>1. PICK o \in RestoreOrders(rows) : store' = Restored(rows, o)
        BY <1>15 DEF ReloadSessions
    <2>2. \A i \in Ids : store'.val[i] \in {rows[i], Absent}
        BY <2>1, RestoredCache DEF DiskOK
    <2> QED BY <1>15, <2>2 DEF ReloadSessions, IdentityInv, SessionsMine, CallMine, disk, app
<1>16. ASSUME NEW i \in Ids, SessionFromPrekey(i) PROVE IdentityInv'
    <2> DEFINE s == [tag |-> Fresh, chain |-> Fresh, ident |-> me, sent |-> 0, seen |-> {}]
    <2>1. me \in Keys /\ me = ident /\ Fresh \in Keys
        BY <1>16, Numbers DEF SessionFromPrekey, Ready, DiskOK, IdentityInv
    <2>2. s \in Sessions /\ s.ident = ident
        BY <2>1, SessionTypes
    <2>3. (SaveSession(i, s) \/ SaveFails(i, s)) /\ ident' = ident
        BY <1>16 DEF SessionFromPrekey
    <2> HIDE DEF s
    <2>4. SessionsMine'
        BY <2>2, <2>3, PutTypes, PutMine
    <2> QED BY <1>16, <2>4 DEF SessionFromPrekey, IdentityInv, CallMine, app
<1>17. ASSUME NEW i \in Ids, Encrypt(i) PROVE IdentityInv'
    <2> DEFINE s == Encrypted(Current(i))
    <2>1. Current(i) \in Sessions /\ Current(i).sent < MaxSent /\ Current(i).ident = ident
        BY <1>17, CurrentType DEF Encrypt, IdentityInv, SessionsMine
    <2>2. s \in Sessions /\ s.ident = ident
        BY <2>1, SessionTypes
    <2>3. (SaveSession(i, s) \/ SaveFails(i, s)) /\ ident' = ident
        BY <1>17 DEF Encrypt
    <2> HIDE DEF s
    <2>4. SessionsMine'
        BY <2>2, <2>3, PutTypes, PutMine
    <2> QED BY <1>17, <2>4 DEF Encrypt, IdentityInv, CallMine
<1>18. ASSUME NEW i \in Ids, SaveExplicitly(i) PROVE IdentityInv'
    <2>1. /\ Current(i) \in Sessions /\ Current(i).ident = ident
          /\ SaveSession(i, Current(i)) /\ ident' = ident
        BY <1>18, CurrentType DEF SaveExplicitly, IdentityInv, SessionsMine
    <2>2. SessionsMine'
        BY <2>1, PutTypes, PutMine
    <2> QED BY <1>18, <2>2 DEF SaveExplicitly, IdentityInv, CallMine, app
<1>19. ASSUME NEW i \in Ids, Touch(i) PROVE IdentityInv'
    <2>1. SessionsMine'
        <3>1. CASE Current(i) = Absent
            BY <1>19, <3>1 DEF Touch, Fetch, Current, IdentityInv, SessionsMine, disk
        <3>2. CASE Current(i) # Absent
            <4>1. store' = Insert(store, i, Current(i)) /\ Current(i) \in Sessions /\ Current(i).ident = ident
                BY <1>19, <3>2, CurrentType DEF Touch, Fetch, Current, IdentityInv, SessionsMine
            <4>2. store'.val[i] = Current(i) /\ \A j \in Ids \ {i} : store'.val[j] \in {store.val[j], Absent}
                BY <4>1, InsertCache
            <4> QED BY <1>19, <4>1, <4>2 DEF Touch, IdentityInv, SessionsMine, disk
        <3> QED BY <3>1, <3>2
    <2> QED BY <1>19, <2>1 DEF Touch, IdentityInv, CallMine, disk, app
<1>20. ASSUME NEW i \in Ids, SessionDelete(i) PROVE IdentityInv'
    <2>1. \A j \in Ids : store'.val[j] = IF j = i THEN Absent ELSE store.val[j]
        BY <1>20, RemoveCache DEF SessionDelete
    <2>2. \A j \in Ids : rows'[j] = IF j = i THEN Absent ELSE rows[j]
        BY <1>20 DEF SessionDelete, DiskOK
    <2> QED BY <1>20, <2>1, <2>2 DEF SessionDelete, IdentityInv, SessionsMine, CallMine, app
<1>21. ASSUME NEW m \in Sent, Decrypt(m) PROVE IdentityInv'
    <2> DEFINE s == Seen(Current(m.from), m)
    <2>1. m \in Messages /\ m.from \in Ids
        BY DEF Sent, Messages
    <2>2. Current(m.from) \in Sessions /\ Current(m.from).ident = ident
        BY <1>21, <2>1, CurrentType DEF Decrypt, Continues, IdentityInv, SessionsMine
    <2>3. s \in Sessions /\ s.ident = ident
        BY <2>1, <2>2, SessionTypes
    <2>4. (SaveSession(m.from, s) \/ SaveFails(m.from, s)) /\ ident' = ident
        BY <1>21 DEF Decrypt
    <2> HIDE DEF s
    <2>5. SessionsMine'
        BY <2>1, <2>3, <2>4, PutTypes, PutMine
    <2> QED BY <1>21, <2>5 DEF Decrypt, IdentityInv, CallMine
<1>22. ASSUME NEW i \in PrekeyIds, NewPrekey(i) PROVE IdentityInv'
    <2>1. \A b \in bundles' : b.ident = ident /\ ident # 0
        BY <1>22 DEF NewPrekey, Ready, IdentityInv, Bundle
    <2> QED BY <1>22, <2>1 DEF NewPrekey, IdentityInv, SessionsMine, CallMine
<1>23. CASE LastResortPrekey
    <2>1. \A b \in bundles' : b.ident = ident /\ ident # 0
        BY <1>23 DEF LastResortPrekey, Ready, IdentityInv, Bundle
    <2> QED BY <1>23, <2>1 DEF LastResortPrekey, IdentityInv, SessionsMine, CallMine, disk
<1>24. ASSUME NEW i \in Ids, NEW b \in bundles, PeerStarts(i, b) PROVE IdentityInv'
    BY <1>24 DEF PeerStarts, IdentityInv, SessionsMine, CallMine, disk
<1>25. CASE Crash
    <2>1. \A i \in Ids : store'.val[i] = Absent
        BY <1>25, EmptyCache DEF Crash
    <2>2. \A t \in Tasks : call'[t].op = "idle"
        BY <1>25, <1>idle DEF Crash
    <2> QED BY <1>25, <2>1, <2>2 DEF Crash, IdentityInv, SessionsMine, CallMine, disk, app
<1>26. CASE UNCHANGED vars
    BY <1>26 DEF vars, IdentityInv, SessionsMine, CallMine
<1> QED
    BY <1>1, <1>2, <1>3, <1>4, <1>5, <1>6, <1>7, <1>8, <1>9, <1>10, <1>11, <1>12, <1>13, <1>14, <1>15,
       <1>16, <1>17, <1>18, <1>19, <1>20, <1>21, <1>22, <1>23, <1>24, <1>25, <1>26 DEF ProteusNext

\* The identity in memory, the published bundles and the stored sessions are
\* those of the identity in the keystore, through migration, failing writes and
\* crashes, on both platforms: restore_sessions never fails on a session.
THEOREM IdentityIsOne == ProteusSpec => []OneIdentity
<1>1. ProteusInit => IdentityInv
    <2> SUFFICES ASSUME ProteusInit PROVE IdentityInv
        OBVIOUS
    <2>1. \A t \in Tasks : call[t].op = "idle"
        BY DEF ProteusInit, Idle
    <2> QED BY <2>1, EmptyCache DEF ProteusInit, IdentityInv, SessionsMine, CallMine
<1>2. IdentityInv => OneIdentity
    BY DEF IdentityInv, SessionsMine, OneIdentity
<1> QED BY <1>1, <1>2, IdentityStep, ProteusTypeCorrect, PTL DEF ProteusSpec

-----------------------------------------------------------------------------
(* One call at a time                                                      *)

\* UniFFI's mutex.
Solo == \A t, u \in Tasks : call[t] # Idle /\ call[u] # Idle => t = u

\* A call that takes the lock for itself enters only when no other is in progress.
LEMMA EnterAlone ==
    ASSUME NEW op, Enter(op), Exclusive(op)
    PROVE  \A t \in Tasks : call[t] = Idle
<1>1. Holding = {}
    BY DEF Enter, MayEnter
<1> QED BY <1>1 DEF Holding

\* At most one call is in progress.
LEMMA SoloStep ==
    ASSUME Platform = "generic", ProteusTypeOK, Solo, [ProteusNext]_vars
    PROVE  Solo'
<1>0. call \in [Tasks -> Calls]
    BY TypeParts
<1>op. \A t \in Tasks : call[t] # Idle <=> call[t].op # "idle"
    BY <1>0, CallShape
<1>x. \A op : Exclusive(op)
    BY DEF Exclusive
<1>1. ASSUME NEW t \in Tasks, \A u \in Tasks : call[u] = Idle, \A u \in Tasks \ {t} : call'[u] = call[u]
      PROVE  Solo'
    BY <1>1 DEF Solo
<1>2. ASSUME NEW t \in Tasks, call[t].op # "idle", \A u \in Tasks \ {t} : call'[u] = call[u]
      PROVE  Solo'
    BY <1>2, <1>op DEF Solo
<1>3. ASSUME call' = call PROVE Solo'
    BY <1>3 DEF Solo
<1>4. ASSUME NEW t \in Tasks, StartInit(t) PROVE Solo'
    BY <1>4, <1>1, <1>x, EnterAlone DEF StartInit
<1>5. ASSUME NEW t \in Tasks, MigrateIdentity(t) PROVE Solo'
    BY <1>5, <1>1, <1>x, EnterAlone DEF MigrateIdentity
<1>6. ASSUME NEW t \in Tasks, NEW ids, StartBatch(t, ids) PROVE Solo'
    BY <1>6, <1>1, <1>x, EnterAlone DEF StartBatch, Ready
<1>7. ASSUME NEW t \in Tasks, NEW m, StartSession(t, m) PROVE Solo'
    BY <1>7, <1>1, <1>x, EnterAlone DEF StartSession, Ready
<1>8. ASSUME NEW t \in Tasks, NewPrekeyAuto(t) PROVE Solo'
    BY <1>8, <1>1, <1>x, EnterAlone DEF NewPrekeyAuto, Ready
<1>9. ASSUME NEW t \in Tasks, FinishInit(t) PROVE Solo'
    BY <1>9, <1>2 DEF FinishInit
<1>10. ASSUME NEW t \in Tasks, FinishMigration(t) PROVE Solo'
    BY <1>10, <1>2 DEF FinishMigration
<1>11. ASSUME NEW t \in Tasks, BatchStep(t) PROVE Solo'
    <2>1. call[t].op # "idle" /\ \A u \in Tasks \ {t} : call'[u] = call[u]
        BY <1>0, <1>11 DEF BatchStep
    <2> QED BY <2>1, <1>2
<1>12. ASSUME NEW t \in Tasks, FinishBatch(t) \/ FinishSession(t) PROVE Solo'
    <2>1. call[t].op # "idle" /\ \A u \in Tasks \ {t} : call'[u] = call[u]
        BY <1>0, <1>12 DEF FinishBatch, FinishSession
    <2> QED BY <2>1, <1>2
<1>13. ASSUME NEW t \in Tasks, SavePrekey(t) \/ CallFails(t) PROVE Solo'
    <2>1. call[t].op # "idle" /\ \A u \in Tasks \ {t} : call'[u] = call[u]
        BY <1>0, <1>13 DEF SavePrekey, CallFails
    <2> QED BY <2>1, <1>2
<1>14. ASSUME NEW t, NEW i, MigrateSession(t, i) \/ MigratePrekey(t, i) PROVE Solo'
    BY <1>14, <1>3 DEF MigrateSession, MigratePrekey
<1>15. ASSUME NEW i, SessionFromPrekey(i) \/ Encrypt(i) \/ SaveExplicitly(i) \/ Touch(i) \/ SessionDelete(i)
       PROVE  Solo'
    BY <1>15, <1>3 DEF SessionFromPrekey, Encrypt, SaveExplicitly, Touch, SessionDelete
<1>16. ASSUME NEW m, Decrypt(m) \/ NewPrekey(m) PROVE Solo'
    BY <1>16, <1>3 DEF Decrypt, NewPrekey
<1>17. ASSUME NEW i, NEW b, PeerStarts(i, b) PROVE Solo'
    BY <1>17, <1>3 DEF PeerStarts
<1>18. CASE ReloadSessions \/ LastResortPrekey
    BY <1>18, <1>3 DEF ReloadSessions, LastResortPrekey
<1>19. CASE Crash
    BY <1>19 DEF Crash, Solo
<1>20. CASE UNCHANGED vars
    BY <1>20, <1>3 DEF vars
<1> QED
    BY <1>4, <1>5, <1>6, <1>7, <1>8, <1>9, <1>10, <1>11, <1>12, <1>13, <1>14, <1>15, <1>16, <1>17, <1>18,
       <1>19, <1>20 DEF ProteusNext

-----------------------------------------------------------------------------
(* Bundles                                                                 *)

\* BundlesUsable with what makes it inductive: the id that new_prekey_auto has
\* found is still free when its prekey is saved, because no other call runs.
BundlesInv ==
    /\ Solo
    /\ BundlesUsable
    /\ \A t \in Tasks : call[t].op = "save_prekey" => prekeys[call[t].id] = 0 /\ call[t].id # LastResort

\* A step that is not about prekeys.
NoPrekeys ==
    /\ prekeys' = prekeys /\ bundles' = bundles /\ peers \subseteq peers'
    /\ \A t \in Tasks : call'[t].op = "save_prekey" => call'[t] = call[t]

\* Such a step keeps bundles usable.
LEMMA NoPrekeysStep ==
    ASSUME BundlesInv, Solo', NoPrekeys
    PROVE  BundlesInv'
BY DEF BundlesInv, BundlesUsable, NoPrekeys

\* Every step keeps bundles usable; an id that get_free_id chose stays free until it is saved.
LEMMA BundlesStep ==
    ASSUME Platform = "generic", ProteusTypeOK, BundlesInv, [ProteusNext]_vars
    PROVE  BundlesInv'
<1>0. DiskOK /\ AppOK /\ CacheOK(store) /\ call \in [Tasks -> Calls] /\ used \in Counts
    BY TypeParts
<1>solo. Solo'
    BY SoloStep DEF BundlesInv
<1>op. \A t \in Tasks : call[t] # Idle <=> call[t].op # "idle"
    BY <1>0, CallShape
<1>idle. Idle.op = "idle"
    BY DEF Idle
<1>key. \A b \in bundles : b.id \in PrekeyIds /\ b.key \in Keys /\ b.key # 0
    BY <1>0, Numbers DEF AppOK, Bundles
<1>one. ASSUME NEW t \in Tasks, call[t].op \notin {"idle", "save_prekey"}
        PROVE  \A u \in Tasks : call[u].op # "save_prekey"
    BY <1>one, <1>op DEF BundlesInv, Solo
<1>none. ASSUME NEW op, Enter(op) PROVE \A u \in Tasks : call[u].op # "save_prekey"
    BY <1>none, <1>idle, EnterAlone DEF Exclusive
<1>q. NoPrekeys => BundlesInv'
    BY <1>solo, NoPrekeysStep
<1>1. ASSUME NEW t \in Tasks, StartInit(t) PROVE BundlesInv'
    <2>1. NoPrekeys
        BY <1>1, <1>0 DEF StartInit, NoPrekeys, app
    <2> QED BY <2>1, <1>q
<1>2. ASSUME NEW t \in Tasks, FinishInit(t) PROVE BundlesInv'
    <2>1. \A u \in Tasks : call'[u].op # "save_prekey"
        BY <1>2, <1>0, <1>one, <1>idle DEF FinishInit
    <2>2. \A i \in PrekeyIds : prekeys'[i] = prekeys[i] \/ (i = LastResort /\ prekeys[i] = 0)
        BY <1>2, <1>0 DEF FinishInit, DiskOK
    <2>3. BundlesUsable'
        BY <1>2, <1>key, <2>2 DEF FinishInit, BundlesInv, BundlesUsable, app
    <2> QED BY <1>solo, <2>1, <2>3 DEF BundlesInv
<1>3. ASSUME NEW t \in Tasks, MigrateIdentity(t) PROVE BundlesInv'
    <2>1. NoPrekeys
        BY <1>3, <1>0 DEF MigrateIdentity, NoPrekeys, app
    <2> QED BY <2>1, <1>q
<1>4. ASSUME NEW t \in Tasks, FinishMigration(t) PROVE BundlesInv'
    <2>1. NoPrekeys
        BY <1>4, <1>0, <1>idle DEF FinishMigration, NoPrekeys, disk
    <2> QED BY <2>1, <1>q
<1>5. ASSUME NEW t \in Tasks, NEW i \in BoxSessions, MigrateSession(t, i) PROVE BundlesInv'
    <2>1. NoPrekeys
        BY <1>5 DEF MigrateSession, NoPrekeys, app
    <2> QED BY <2>1, <1>q
<1>6. ASSUME NEW t \in Tasks, NEW i \in BoxPrekeys, MigratePrekey(t, i) PROVE BundlesInv'
    <2>1. \A u \in Tasks : call'[u].op # "save_prekey"
        BY <1>6, <1>one DEF MigratePrekey
    <2>2. \A j \in PrekeyIds : prekeys'[j] = prekeys[j] \/ prekeys[j] = 0
        BY <1>6, <1>0 DEF MigratePrekey, DiskOK
    <2>3. BundlesUsable'
        BY <1>6, <1>key, <2>2 DEF MigratePrekey, BundlesInv, BundlesUsable, app
    <2> QED BY <1>solo, <2>1, <2>3 DEF BundlesInv
<1>7. ASSUME NEW t \in Tasks, NEW ids, StartBatch(t, ids) PROVE BundlesInv'
    <2>1. NoPrekeys
        BY <1>7, <1>0 DEF StartBatch, NoPrekeys, disk, app
    <2> QED BY <2>1, <1>q
<1>8. ASSUME NEW t \in Tasks, BatchStep(t) PROVE BundlesInv'
    <2>1. call'[t].op # "save_prekey" /\ \A u \in Tasks \ {t} : call'[u] = call[u]
        <3>1. call[t] \in Batches
            BY <1>8, <1>0, CallShape DEF BatchStep
        <3> QED BY <1>8, <1>0, <1>idle, <3>1 DEF BatchStep, Batches
    <2>2. NoPrekeys
        BY <1>8, <2>1 DEF BatchStep, NoPrekeys, app
    <2> QED BY <2>2, <1>q
<1>9. ASSUME NEW t \in Tasks, FinishBatch(t) PROVE BundlesInv'
    <2>1. NoPrekeys
        BY <1>9, <1>0, <1>idle DEF FinishBatch, NoPrekeys, disk
    <2> QED BY <2>1, <1>q
<1>10. ASSUME NEW t \in Tasks, NEW m \in Sent, StartSession(t, m) PROVE BundlesInv'
    <2>1. \A u \in Tasks : call'[u].op # "save_prekey"
        BY <1>10, <1>0, <1>none DEF StartSession, Ready
    <2>2. m.id \in PrekeyIds /\ \E p \in peers : p.key = m.key
        BY DEF Sent, Messages
    <2>3. prekeys[m.id] = m.key /\ peers' = peers /\ bundles' = bundles
        BY <1>10 DEF StartSession, app
    <2>4. \A i \in PrekeyIds : prekeys'[i] = prekeys[i] \/ (i = m.id /\ i # LastResort)
        BY <1>10, <1>0, <2>2 DEF StartSession, DiskOK
    <2>5. BundlesUsable'
        BY <1>key, <2>2, <2>3, <2>4 DEF BundlesInv, BundlesUsable
    <2> QED BY <1>solo, <2>1, <2>5 DEF BundlesInv
<1>11. ASSUME NEW t \in Tasks, FinishSession(t) PROVE BundlesInv'
    <2>1. NoPrekeys
        BY <1>11, <1>0, <1>idle DEF FinishSession, NoPrekeys
    <2> QED BY <2>1, <1>q
<1>12. ASSUME NEW t \in Tasks, NewPrekeyAuto(t) PROVE BundlesInv'
    <2>1. PICK i \in FreeIds : call' = [call EXCEPT ![t] = [op |-> "save_prekey", id |-> i]]
        BY <1>12 DEF NewPrekeyAuto
    <2>2. prekeys[i] = 0 /\ i # LastResort
        BY DEF FreeIds
    <2>3. prekeys' = prekeys /\ bundles' = bundles /\ peers' = peers
        BY <1>12 DEF NewPrekeyAuto, disk, app
    <2>4. \A u \in Tasks : call'[u].op = "save_prekey" => prekeys'[call'[u].id] = 0 /\ call'[u].id # LastResort
        BY <1>12, <1>0, <1>none, <2>1, <2>2, <2>3 DEF NewPrekeyAuto, Ready
    <2> QED BY <1>solo, <2>3, <2>4 DEF BundlesInv, BundlesUsable
<1>13. ASSUME NEW t \in Tasks, SavePrekey(t) PROVE BundlesInv'
    <2>1. call[t].id \in PrekeyIds /\ prekeys[call[t].id] = 0
        BY <1>13, <1>0, CallShape DEF SavePrekey, BundlesInv
    <2>2. \A u \in Tasks : call'[u].op # "save_prekey"
        BY <1>13, <1>0, <1>idle, <1>op DEF SavePrekey, BundlesInv, Solo
    <2>3. \A i \in PrekeyIds : prekeys'[i] = IF i = call[t].id THEN Fresh ELSE prekeys[i]
        BY <1>13, <1>0 DEF SavePrekey, DiskOK
    <2>4. BundlesUsable'
        BY <1>13, <1>key, <2>1, <2>3 DEF SavePrekey, BundlesInv, BundlesUsable, Bundle
    <2> QED BY <1>solo, <2>2, <2>4 DEF BundlesInv
<1>14. ASSUME NEW t \in Tasks, CallFails(t) PROVE BundlesInv'
    <2>1. NoPrekeys
        BY <1>14, <1>0, <1>idle DEF CallFails, NoPrekeys, disk, app
    <2> QED BY <2>1, <1>q
<1>15. CASE ReloadSessions
    <2>1. NoPrekeys
        BY <1>15 DEF ReloadSessions, NoPrekeys, disk, app
    <2> QED BY <2>1, <1>q
<1>16. ASSUME NEW i, SessionFromPrekey(i) \/ Encrypt(i) \/ SaveExplicitly(i) \/ Touch(i) \/ SessionDelete(i)
       PROVE  BundlesInv'
    <2>1. NoPrekeys
        BY <1>16 DEF SessionFromPrekey, Encrypt, SaveExplicitly, Touch, SessionDelete, NoPrekeys, disk, app
    <2> QED BY <2>1, <1>q
<1>17. ASSUME NEW m, Decrypt(m) PROVE BundlesInv'
    <2>1. NoPrekeys
        BY <1>17 DEF Decrypt, NoPrekeys
    <2> QED BY <2>1, <1>q
<1>18. ASSUME NEW i \in PrekeyIds, NewPrekey(i) PROVE BundlesInv'
    <2>1. \A u \in Tasks : call'[u].op # "save_prekey"
        BY <1>18, <1>none DEF NewPrekey, Ready
    <2>2. \A j \in PrekeyIds : prekeys'[j] = IF j = i THEN Fresh ELSE prekeys[j]
        BY <1>18, <1>0 DEF NewPrekey, DiskOK
    <2>3. BundlesUsable'
        BY <1>18, <1>key, <2>2 DEF NewPrekey, BundlesInv, BundlesUsable, Bundle
    <2> QED BY <1>solo, <2>1, <2>3 DEF BundlesInv
<1>19. CASE LastResortPrekey
    <2>1. prekeys' = prekeys /\ peers' = peers /\ call' = call
        BY <1>19 DEF LastResortPrekey, disk
    <2>2. BundlesUsable'
        BY <1>19, <2>1 DEF LastResortPrekey, BundlesInv, BundlesUsable, Bundle
    <2> QED BY <1>solo, <2>1, <2>2 DEF BundlesInv
<1>20. ASSUME NEW i, NEW b, PeerStarts(i, b) PROVE BundlesInv'
    <2>1. NoPrekeys
        BY <1>20 DEF PeerStarts, NoPrekeys, disk
    <2> QED BY <2>1, <1>q
<1>21. CASE Crash
    <2>1. NoPrekeys
        BY <1>21, <1>idle DEF Crash, NoPrekeys, disk, app
    <2> QED BY <2>1, <1>q
<1>22. CASE UNCHANGED vars
    <2>1. NoPrekeys
        BY <1>22 DEF vars, NoPrekeys
    <2> QED BY <2>1, <1>q
<1> QED
    BY <1>1, <1>2, <1>3, <1>4, <1>5, <1>6, <1>7, <1>8, <1>9, <1>10, <1>11, <1>12, <1>13, <1>14, <1>15,
       <1>16, <1>17, <1>18, <1>19, <1>20, <1>21, <1>22 DEF ProteusNext

\* On UniFFI the prekey of every bundle the application may have published is in
\* the keystore until a peer has used it (new_prekey_auto, get_free_id,
\* last_resort_prekey, cryptobox_migrate).  On WASM two calls of new_prekey_auto
\* that share the lock break it.
THEOREM BundlesStayUsable == Platform = "generic" => (ProteusSpec => []BundlesUsable)
<1> SUFFICES ASSUME Platform = "generic" PROVE ProteusSpec => []BundlesUsable
    OBVIOUS
<1>1. ProteusInit => BundlesInv
    <2> SUFFICES ASSUME ProteusInit PROVE BundlesInv
        OBVIOUS
    <2>1. \A t \in Tasks : call[t] = Idle /\ call[t].op = "idle"
        BY DEF ProteusInit, Idle
    <2> QED BY <2>1 DEF ProteusInit, BundlesInv, BundlesUsable, Solo
<1>2. ProteusTypeOK /\ BundlesInv /\ [ProteusNext]_vars => BundlesInv'
    BY BundlesStep
<1>3. BundlesInv => BundlesUsable
    BY DEF BundlesInv
<1> QED BY <1>1, <1>2, <1>3, ProteusTypeCorrect, PTL DEF ProteusSpec

-----------------------------------------------------------------------------
(* Calls that hold the lock for themselves, on both platforms              *)

Writers == {"proteus_init", "proteus_decrypt", "proteus_encrypt_batched"}

\* These exports take the write lock on WASM, and the mutex on UniFFI.
LEMMA WriteLocks == \A op \in Writers \cup {"proteus_encrypt"} : Exclusive(op)
<1> SUFFICES ASSUME NEW op \in Writers \cup {"proteus_encrypt"}, op \in WasmShared PROVE FALSE
    BY DEF Exclusive
<1>1. op \notin Shared(WasmSessions) /\ op \notin Shared(WasmCiphers)
    BY DEF Writers, Shared, WasmSessions, WasmCiphers
<1>2. /\ op \notin Shared(WasmInit) /\ op \notin Shared(WasmClient) /\ op \notin Shared(WasmGroups)
      /\ op \notin Shared(WasmCommits) /\ op \notin Shared(WasmMessages) /\ op \notin Shared(WasmPending)
    BY DEF Writers, Shared, WasmInit, WasmClient, WasmGroups, WasmCommits, WasmMessages, WasmPending
<1>3. /\ op \notin Shared(WasmRandom) /\ op \notin Shared(WasmPrekeys) /\ op \notin Shared(WasmFingerprints)
      /\ op \notin Shared(WasmExports) /\ op \notin Shared(WasmNewEnrollments) /\ op \notin Shared(WasmPki)
      /\ op \notin Shared(WasmRotation) /\ op \notin Shared(WasmIdentities)
    BY DEF Writers, Shared, WasmRandom, WasmPrekeys, WasmFingerprints, WasmExports, WasmNewEnrollments, WasmPki,
           WasmRotation, WasmIdentities
<1> QED BY <1>1, <1>2, <1>3 DEF WasmShared

\* A call of theirs is the only one in progress.
Alone == \A t, u \in Tasks : call[t].op \in Writers /\ call[u] # Idle => t = u

\* No call enters next to one that holds the lock for itself.
LEMMA EnterShared ==
    ASSUME NEW op, Enter(op), NEW t \in Tasks, call[t] # Idle
    PROVE  call[t].op \notin Writers
<1> SUFFICES ASSUME call[t].op \in Writers PROVE FALSE
    OBVIOUS
<1>1. LockOf(call[t]) = call[t].op /\ Exclusive(call[t].op)
    BY WriteLocks DEF LockOf, Writers
<1>2. LockOf(call[t]) \in Holding
    BY DEF Holding
<1> QED BY <1>1, <1>2 DEF Enter, MayEnter

\* Every step leaves these calls alone.
LEMMA AloneStep ==
    ASSUME ProteusTypeOK, Alone, [ProteusNext]_vars
    PROVE  Alone'
<1>0. call \in [Tasks -> Calls]
    BY TypeParts
<1>op. \A t \in Tasks : call[t] # Idle <=> call[t].op # "idle"
    BY <1>0, CallShape
<1>idle. Idle.op = "idle" /\ Idle.op \notin Writers
    BY DEF Idle, Writers
<1>1. ASSUME NEW t \in Tasks, \A u \in Tasks : call[u] = Idle, \A u \in Tasks \ {t} : call'[u] = call[u]
      PROVE  Alone'
    BY <1>1, <1>idle DEF Alone
<1>2. ASSUME NEW t \in Tasks, call'[t] = Idle, \A u \in Tasks \ {t} : call'[u] = call[u]
      PROVE  Alone'
    BY <1>2, <1>idle DEF Alone
<1>3. ASSUME call' = call PROVE Alone'
    BY <1>3 DEF Alone
<1>sh. ASSUME NEW t \in Tasks, NEW op, Enter(op), call'[t].op \notin Writers,
              \A u \in Tasks \ {t} : call'[u] = call[u]
       PROVE  Alone'
    <2>1. \A u \in Tasks : call[u].op \notin Writers
        BY <1>sh, <1>idle, EnterShared
    <2> QED BY <1>sh, <2>1 DEF Alone
<1>4. ASSUME NEW t \in Tasks, StartInit(t) PROVE Alone'
    BY <1>4, <1>1, EnterAlone, WriteLocks DEF StartInit, Writers
<1>5. ASSUME NEW t \in Tasks, MigrateIdentity(t) PROVE Alone'
    <2>1. call'[t].op = "proteus_cryptobox_migrate" /\ \A u \in Tasks \ {t} : call'[u] = call[u]
        BY <1>5, <1>0 DEF MigrateIdentity
    <2> QED BY <1>5, <1>sh, <2>1 DEF MigrateIdentity, Writers
<1>6. ASSUME NEW t \in Tasks, NEW ids, StartBatch(t, ids) PROVE Alone'
    BY <1>6, <1>1, EnterAlone, WriteLocks DEF StartBatch, Ready, Writers
<1>7. ASSUME NEW t \in Tasks, NEW m, StartSession(t, m) PROVE Alone'
    BY <1>7, <1>1, EnterAlone, WriteLocks DEF StartSession, Ready, Writers
<1>8. ASSUME NEW t \in Tasks, NewPrekeyAuto(t) PROVE Alone'
    <2>1. call'[t].op = "save_prekey" /\ \A u \in Tasks \ {t} : call'[u] = call[u]
        BY <1>8, <1>0 DEF NewPrekeyAuto
    <2> QED BY <1>8, <1>sh, <2>1 DEF NewPrekeyAuto, Ready, Writers
<1>9. ASSUME NEW t \in Tasks, FinishInit(t) \/ FinishMigration(t) \/ FinishBatch(t) \/ FinishSession(t)
      PROVE  Alone'
    <2>1. call'[t] = Idle /\ \A u \in Tasks \ {t} : call'[u] = call[u]
        BY <1>9, <1>0 DEF FinishInit, FinishMigration, FinishBatch, FinishSession
    <2> QED BY <2>1, <1>2
<1>10. ASSUME NEW t \in Tasks, SavePrekey(t) \/ CallFails(t) PROVE Alone'
    <2>1. call'[t] = Idle /\ \A u \in Tasks \ {t} : call'[u] = call[u]
        BY <1>0, <1>10 DEF SavePrekey, CallFails
    <2> QED BY <2>1, <1>2
<1>11. ASSUME NEW t \in Tasks, BatchStep(t) PROVE Alone'
    <2>1. call[t].op \in Writers /\ \A u \in Tasks \ {t} : call'[u] = call[u]
        BY <1>0, <1>11 DEF BatchStep, Writers
    <2>2. \A u \in Tasks \ {t} : call'[u] = Idle
        BY <2>1 DEF Alone
    <2> QED BY <1>idle, <2>2 DEF Alone
<1>12. ASSUME NEW t, NEW i, MigrateSession(t, i) \/ MigratePrekey(t, i) PROVE Alone'
    BY <1>12, <1>3 DEF MigrateSession, MigratePrekey
<1>13. ASSUME NEW i, SessionFromPrekey(i) \/ Encrypt(i) \/ SaveExplicitly(i) \/ Touch(i) \/ SessionDelete(i)
       PROVE  Alone'
    BY <1>13, <1>3 DEF SessionFromPrekey, Encrypt, SaveExplicitly, Touch, SessionDelete
<1>14. ASSUME NEW m, Decrypt(m) \/ NewPrekey(m) PROVE Alone'
    BY <1>14, <1>3 DEF Decrypt, NewPrekey
<1>15. ASSUME NEW i, NEW b, PeerStarts(i, b) PROVE Alone'
    BY <1>15, <1>3 DEF PeerStarts
<1>16. CASE ReloadSessions \/ LastResortPrekey
    BY <1>16, <1>3 DEF ReloadSessions, LastResortPrekey
<1>17. CASE Crash
    BY <1>17, <1>idle DEF Crash, Alone
<1>18. CASE UNCHANGED vars
    BY <1>18, <1>3 DEF vars
<1> QED
    BY <1>4, <1>5, <1>6, <1>7, <1>8, <1>9, <1>10, <1>11, <1>12, <1>13, <1>14, <1>15, <1>16, <1>17, <1>18
    DEF ProteusNext

-----------------------------------------------------------------------------
(* The contract of the sessions                                            *)

Elems(s) == {s[n] : n \in 1 .. Len(s)}

Batching == {t \in Tasks : call[t].op = "proteus_encrypt_batched"}

\* Message keys that were handed out or will be when a batch returns.
Emitted == Elems(outbox) \cup UNION {Elems(call[t].done) : t \in Batching}

\* Where a message comes from.
Origin(m) == [from |-> m.from, tag |-> m.tag, id |-> m.id, key |-> m.key]

\* No session can be started with the tag: its prekey is gone.
SpentTag(g) == \A p \in peers : p.tag = g /\ p.id # LastResort => prekeys[p.id] # p.key

SpentTags == {g \in Keys : SpentTag(g)}

\* A session that may be kept for i, with k keys drawn: it is not behind what was
\* handed out or handed over.
Fits(i, s, k, out, in, spent) ==
    /\ s.tag <= k /\ s.chain <= k
    /\ s.tag \in spent
    /\ \A e \in out : e[1] = i /\ e[2] = s.chain => e[3] <= s.sent
    /\ \A m \in in : m.id # LastResort /\ m.from = i /\ m.tag = s.tag => m \in s.seen

Good(i, s) == Fits(i, s, used.keys, Emitted, Elems(inbox), SpentTags)

\* Cryptobox is migrated before anything is sent or received, so that its keys
\* do not come back.
Migrating == box = "todo" \/ \E t \in Tasks : call[t].op = "proteus_cryptobox_migrate"

BoxFirst ==
    Migrating => /\ me = 0 /\ outbox = << >> /\ inbox = << >>
                 /\ \A t \in Tasks : call[t].op \notin Writers

\* Keys and tags are drawn once.
KeysUsed ==
    /\ \A b \in bundles : b.key <= used.keys /\ (b.id # LastResort => b.key # BoxKey)
    /\ \A i \in PrekeyIds : prekeys[i] <= used.keys
    /\ \A p \in peers : /\ p.key <= used.keys /\ p.tag <= used.keys /\ p.tag # BoxKey
                        /\ p.id # LastResort => p.key # BoxKey
    /\ \A p, q \in peers : p.tag = q.tag => p = q

Placed == \A i \in Ids : /\ rows[i] # Absent => Good(i, rows[i])
                         /\ store.val[i] # Absent => Good(i, store.val[i])

\* The session that a call has started and not saved.
PendingOK(t) ==
    call[t].op = "proteus_decrypt" =>
        LET m == call[t].msg
            s == call[t].session
        IN  /\ Good(call[t].sid, s)
            /\ m \in s.seen /\ m.from = call[t].sid /\ m.tag = s.tag /\ Origin(m) \in peers
            /\ m.id # LastResort => m \notin Elems(inbox)

Received == \A m \in Elems(inbox) : Origin(m) \in peers /\ SpentTag(m.tag)

Separate ==
    /\ \A k \in Emitted : k[2] <= used.keys
    /\ Once(outbox)
    /\ \A t \in Batching : Once(outbox \o call[t].done)

ContractInv ==
    /\ Alone /\ BoxFirst /\ KeysUsed
    /\ Placed /\ (\A t \in Tasks : PendingOK(t)) /\ Received /\ Separate

-----------------------------------------------------------------------------
(* Sequences of things handed out and handed over                          *)

\* The elements after one more.
LEMMA ElemsAppend ==
    ASSUME NEW S, NEW s \in Seq(S), NEW e \in S
    PROVE  Elems(Append(s, e)) = Elems(s) \cup {e}
<1> DEFINE a == Append(s, e)
<1>1. /\ Len(a) = Len(s) + 1 /\ Len(s) \in Nat
      /\ \A i \in 1 .. Len(s) : a[i] = s[i]
      /\ a[Len(s) + 1] = e
    BY AppendProperties
<1> HIDE DEF a
<1>2. \A x : x \in Elems(a) <=> x \in Elems(s) \cup {e}
    BY <1>1 DEF Elems
<1> QED BY <1>2 DEF a

\* The elements of a concatenation.
LEMMA ElemsConcat ==
    ASSUME NEW S, NEW s \in Seq(S), NEW d \in Seq(S)
    PROVE  Elems(s \o d) = Elems(s) \cup Elems(d)
<1> DEFINE c == s \o d
<1>1. /\ Len(c) = Len(s) + Len(d) /\ Len(s) \in Nat /\ Len(d) \in Nat
      /\ \A i \in 1 .. Len(s) + Len(d) : c[i] = IF i <= Len(s) THEN s[i] ELSE d[i - Len(s)]
    BY ConcatProperties
<1> HIDE DEF c
<1>2. \A n \in 1 .. Len(d) : n + Len(s) \in 1 .. Len(c) /\ c[n + Len(s)] = d[n]
    <2> SUFFICES ASSUME NEW n \in 1 .. Len(d) PROVE n + Len(s) \in 1 .. Len(c) /\ c[n + Len(s)] = d[n]
        OBVIOUS
    <2>1. n + Len(s) \in 1 .. Len(s) + Len(d) /\ ~(n + Len(s) <= Len(s)) /\ (n + Len(s)) - Len(s) = n
        BY <1>1
    <2> QED BY <1>1, <2>1
<1>3. \A n \in 1 .. Len(s) : n \in 1 .. Len(c) /\ c[n] = s[n]
    BY <1>1
<1>4. \A n \in 1 .. Len(c) : c[n] \in Elems(s) \cup Elems(d)
    BY <1>1 DEF Elems
<1>5. \A x : x \in Elems(c) <=> x \in Elems(s) \cup Elems(d)
    BY <1>2, <1>3, <1>4 DEF Elems
<1> QED BY <1>5 DEF c

\* A new element at the end repeats nothing.
LEMMA OnceAppend ==
    ASSUME NEW S, NEW s \in Seq(S), NEW e \in S, Once(s), e \notin Elems(s)
    PROVE  Once(Append(s, e))
<1> DEFINE a == Append(s, e)
<1>1. /\ Len(a) = Len(s) + 1 /\ Len(s) \in Nat
      /\ \A i \in 1 .. Len(s) : a[i] = s[i]
      /\ a[Len(s) + 1] = e
    BY AppendProperties
<1> HIDE DEF a
<1>2. \A n \in 1 .. Len(a) : n \in 1 .. Len(s) \/ n = Len(s) + 1
    BY <1>1
<1>3. \A n \in 1 .. Len(s) : a[n] # e
    BY <1>1 DEF Elems
<1>4. Once(a)
    BY <1>1, <1>2, <1>3 DEF Once
<1> QED BY <1>4 DEF a

\* Appending to the second part of a concatenation.
LEMMA ConcatAppend ==
    ASSUME NEW S, NEW s \in Seq(S), NEW d \in Seq(S), NEW e \in S
    PROVE  s \o Append(d, e) = Append(s \o d, e)
<1>1. Append(d, e) = d \o <<e>> /\ <<e>> \in Seq(S)
    BY AppendIsConcat
<1>2. s \o d \in Seq(S)
    BY ConcatProperties
<1>3. Append(s \o d, e) = (s \o d) \o <<e>>
    BY <1>2, AppendIsConcat
<1>4. (s \o d) \o <<e>> = s \o (d \o <<e>>)
    BY <1>1, ConcatAssociative
<1> QED BY <1>1, <1>3, <1>4

\* The empty sequence.
LEMMA EmptyElems == Elems(<< >>) = {} /\ Once(<< >>) /\ \A S : \A s \in Seq(S) : s \o << >> = s
<1>1. Len(<< >>) = 0
    OBVIOUS
<1>2. \A S : \A s \in Seq(S) : s \o << >> = s
    BY ConcatEmptySeq
<1> QED BY <1>1, <1>2 DEF Elems, Once

-----------------------------------------------------------------------------
(* Keys, tags and the migration                                            *)

SpentStays == \A g \in Keys : g <= used.keys /\ SpentTag(g) => SpentTag(g)'

\* A step that draws no key for a prekey or a tag of a peer.
NoKeys == prekeys' = prekeys /\ bundles' = bundles /\ peers' = peers /\ used.keys <= used'.keys

\* Every step draws its keys afresh, and a tag whose prekey is gone stays spent.
LEMMA KeysStep ==
    ASSUME ProteusTypeOK, KeysUsed, [ProteusNext]_vars
    PROVE  KeysUsed' /\ SpentStays /\ used.keys <= used'.keys
<1>0. DiskOK /\ AppOK /\ CacheOK(store) /\ call \in [Tasks -> Calls] /\ used \in Counts
    BY TypeParts
<1>00. used' \in Counts
    BY TypeStep DEF ProteusTypeOK, Counts
<1> DEFINE P == KeysUsed' /\ SpentStays /\ used.keys <= used'.keys
<1>n. /\ used.keys \in Nat /\ used.keys >= BoxKey /\ used'.keys \in Nat
      /\ \A i \in PrekeyIds : prekeys[i] \in Nat
      /\ \A b \in bundles : b.key \in Keys /\ b.id \in PrekeyIds
      /\ \A p \in peers : p.key \in Keys /\ p.tag \in Keys /\ p.id \in PrekeyIds
    BY <1>0, <1>00, Numbers DEF Counts, Keys, DiskOK, AppOK, Bundles, Peers, BoxKey
<1>k. \A k \in Keys : k \in Nat /\ k >= 1
    BY Numbers DEF Keys
<1>q. NoKeys => P
    BY <1>n, <1>k DEF NoKeys, KeysUsed, SpentStays, SpentTag
<1>f. ASSUME Fresh \in Keys, used' = [used EXCEPT !.keys = Fresh]
      PROVE  used'.keys = used.keys + 1
    BY <1>f, <1>0 DEF Fresh, Counts
<1>c. CountFault(used).keys = used.keys
    BY <1>0, CountTypes
<1>le. ASSUME used'.keys = used.keys PROVE used.keys <= used'.keys
    BY <1>le, <1>n
<1>1. ASSUME NEW t \in Tasks, StartInit(t) PROVE P
    <2>1. NoKeys
        BY <1>1, <1>f, <1>n DEF StartInit, NoKeys, app
    <2> QED BY <2>1, <1>q
<1>2. ASSUME NEW t \in Tasks, FinishInit(t) PROVE P
    <2>1. CASE prekeys' = prekeys /\ used' = used
        <3>1. NoKeys
            BY <1>2, <2>1, <1>n DEF FinishInit, NoKeys, app
        <3> QED BY <3>1, <1>q
    <2>2. CASE prekeys' = [prekeys EXCEPT ![LastResort] = Fresh] /\ Fresh \in Keys
               /\ used' = [used EXCEPT !.keys = Fresh]
        <3>1. used'.keys = used.keys + 1 /\ Fresh = used.keys + 1
            BY <2>2, <1>f DEF Fresh
        <3>2. \A i \in PrekeyIds : prekeys'[i] = IF i = LastResort THEN Fresh ELSE prekeys[i]
            BY <2>2, <1>0 DEF DiskOK
        <3>3. peers' = peers /\ bundles' = bundles
            BY <1>2 DEF FinishInit, app
        <3> QED BY <1>n, <1>k, <3>1, <3>2, <3>3 DEF KeysUsed, SpentStays, SpentTag
    <2> QED BY <1>2, <2>1, <2>2 DEF FinishInit
<1>3. ASSUME NEW t \in Tasks, MigrateIdentity(t) \/ FinishMigration(t) PROVE P
    <2>1. NoKeys
        BY <1>3, <1>n DEF MigrateIdentity, FinishMigration, NoKeys, app, disk
    <2> QED BY <2>1, <1>q
<1>5. ASSUME NEW t \in Tasks, NEW i, MigrateSession(t, i) PROVE P
    <2>1. NoKeys
        BY <1>5, <1>n DEF MigrateSession, NoKeys, app
    <2> QED BY <2>1, <1>q
<1>6. ASSUME NEW t \in Tasks, NEW i \in BoxPrekeys, MigratePrekey(t, i) PROVE P
    <2>1. \A j \in PrekeyIds : prekeys'[j] = IF j = i THEN BoxKey ELSE prekeys[j]
        BY <1>6, <1>0 DEF MigratePrekey, DiskOK
    <2>2. peers' = peers /\ bundles' = bundles /\ used' = used
        BY <1>6 DEF MigratePrekey, app
    <2>3. SpentStays
        <3> SUFFICES ASSUME NEW g \in Keys, SpentTag(g), NEW p \in peers, p.tag = g, p.id # LastResort
                     PROVE  prekeys'[p.id] # p.key
            BY <2>2 DEF SpentStays, SpentTag
        <3> QED BY <1>n, <2>1 DEF KeysUsed, SpentTag
    <2> QED BY <1>n, <1>k, <2>1, <2>2, <2>3 DEF KeysUsed
<1>7. ASSUME NEW t \in Tasks, NEW ids, StartBatch(t, ids) PROVE P
    <2>1. NoKeys
        BY <1>7, <1>n DEF StartBatch, NoKeys, app, disk
    <2> QED BY <2>1, <1>q
<1>8. ASSUME NEW t \in Tasks, BatchStep(t) PROVE P
    <2>1. used'.keys = used.keys
        BY <1>8, <1>c DEF BatchStep
    <2>2. NoKeys
        BY <1>8, <2>1, <1>le DEF BatchStep, NoKeys, app
    <2> QED BY <2>2, <1>q
<1>9. ASSUME NEW t \in Tasks, FinishBatch(t) PROVE P
    <2>1. NoKeys
        BY <1>9, <1>n DEF FinishBatch, NoKeys, disk
    <2> QED BY <2>1, <1>q
<1>10. ASSUME NEW t \in Tasks, NEW m \in Sent, StartSession(t, m) PROVE P
    <2>0. m.id \in PrekeyIds
        BY DEF Sent, Messages
    <2>1. used'.keys = used.keys + 1
        BY <1>10, <1>f DEF StartSession
    <2>2. \A j \in PrekeyIds : prekeys'[j] = prekeys[j] \/ prekeys'[j] = 0
        BY <1>10, <1>0, <2>0 DEF StartSession, DiskOK
    <2>3. peers' = peers /\ bundles' = bundles
        BY <1>10 DEF StartSession, app
    <2> QED BY <1>n, <1>k, <2>1, <2>2, <2>3 DEF KeysUsed, SpentStays, SpentTag
<1>11. ASSUME NEW t \in Tasks, FinishSession(t) PROVE P
    <2>1. used'.keys = used.keys
        BY <1>11, <1>c DEF FinishSession
    <2>2. NoKeys
        BY <1>11, <2>1, <1>le DEF FinishSession, NoKeys
    <2> QED BY <2>2, <1>q
<1>12. ASSUME NEW t \in Tasks, NewPrekeyAuto(t) PROVE P
    <2>1. NoKeys
        BY <1>12, <1>n DEF NewPrekeyAuto, NoKeys, disk, app
    <2> QED BY <2>1, <1>q
<1>13. ASSUME NEW t \in Tasks, SavePrekey(t) PROVE P
    <2>0. call[t].id \in PrekeyIds
        BY <1>13, <1>0, CallShape DEF SavePrekey
    <2>1. used'.keys = used.keys + 1 /\ Fresh = used.keys + 1
        BY <1>13, <1>f DEF SavePrekey, Fresh
    <2>2. \A j \in PrekeyIds : prekeys'[j] = IF j = call[t].id THEN Fresh ELSE prekeys[j]
        BY <1>13, <1>0 DEF SavePrekey, DiskOK
    <2>3. peers' = peers /\ \A b \in bundles' : b \in bundles \/ b.key = Fresh
        BY <1>13 DEF SavePrekey, Bundle
    <2> QED BY <1>n, <1>k, <2>0, <2>1, <2>2, <2>3 DEF KeysUsed, SpentStays, SpentTag, BoxKey
<1>14. ASSUME NEW t \in Tasks, CallFails(t) PROVE P
    <2>1. used'.keys = used.keys
        BY <1>14, <1>c DEF CallFails
    <2>2. NoKeys
        BY <1>14, <2>1, <1>le DEF CallFails, NoKeys, disk, app
    <2> QED BY <2>2, <1>q
<1>15. CASE ReloadSessions
    <2>1. NoKeys
        BY <1>15, <1>n DEF ReloadSessions, NoKeys, disk, app
    <2> QED BY <2>1, <1>q
<1>16. ASSUME NEW i \in Ids, SessionFromPrekey(i) PROVE P
    <2> DEFINE u == [used EXCEPT !.keys = Fresh]
    <2>1. u \in Counts /\ u.keys = used.keys + 1
        BY <1>16, <1>0, CountTypes DEF SessionFromPrekey, Fresh
    <2>2. used' = u \/ used' = CountFault(u)
        BY <1>16 DEF SessionFromPrekey
    <2> HIDE DEF u
    <2>3. used'.keys = used.keys + 1
        BY <2>1, <2>2, CountTypes
    <2>4. NoKeys
        BY <1>16, <1>n, <2>3 DEF SessionFromPrekey, NoKeys, app
    <2> QED BY <2>4, <1>q
<1>17. ASSUME NEW i, Encrypt(i) \/ SaveExplicitly(i) \/ Touch(i) \/ SessionDelete(i) PROVE P
    <2>1. used'.keys = used.keys
        BY <1>17, <1>c DEF Encrypt, SaveExplicitly, Touch, SessionDelete
    <2>2. NoKeys
        BY <1>17, <2>1, <1>le DEF Encrypt, SaveExplicitly, Touch, SessionDelete, NoKeys, disk, app
    <2> QED BY <2>2, <1>q
<1>18. ASSUME NEW m, Decrypt(m) PROVE P
    <2>1. used'.keys = used.keys
        BY <1>18, <1>c DEF Decrypt
    <2>2. NoKeys
        BY <1>18, <2>1, <1>le DEF Decrypt, NoKeys
    <2> QED BY <2>2, <1>q
<1>19. ASSUME NEW i \in PrekeyIds, NewPrekey(i) PROVE P
    <2>1. used'.keys = used.keys + 1 /\ Fresh = used.keys + 1
        BY <1>19, <1>f DEF NewPrekey, Fresh
    <2>2. \A j \in PrekeyIds : prekeys'[j] = IF j = i THEN Fresh ELSE prekeys[j]
        BY <1>19, <1>0 DEF NewPrekey, DiskOK
    <2>3. peers' = peers /\ \A b \in bundles' : b \in bundles \/ b.key = Fresh
        BY <1>19 DEF NewPrekey, Bundle
    <2> QED BY <1>n, <1>k, <2>1, <2>2, <2>3 DEF KeysUsed, SpentStays, SpentTag, BoxKey
<1>20. CASE LastResortPrekey
    <2>1. prekeys' = prekeys /\ peers' = peers /\ used' = used
        BY <1>20 DEF LastResortPrekey, disk
    <2>2. \A b \in bundles' : b \in bundles \/ (b.id = LastResort /\ b.key = prekeys[LastResort])
        BY <1>20 DEF LastResortPrekey, Bundle
    <2> QED BY <1>n, <2>1, <2>2, Numbers DEF KeysUsed, SpentStays, SpentTag
<1>21. ASSUME NEW i \in Ids, NEW b \in bundles, PeerStarts(i, b) PROVE P
    <2> DEFINE new == [from |-> i, tag |-> Fresh, id |-> b.id, key |-> b.key]
    <2>1. used'.keys = used.keys + 1 /\ Fresh = used.keys + 1 /\ prekeys' = prekeys /\ bundles' = bundles
        BY <1>21, <1>f DEF PeerStarts, Fresh, disk
    <2>2. peers' = peers \cup {new} /\ new.tag = Fresh /\ new.id = b.id /\ new.key = b.key
        BY <1>21 DEF PeerStarts
    <2> HIDE DEF new
    <2>3. SpentStays
        BY <1>n, <1>k, <2>1, <2>2 DEF SpentStays, SpentTag
    <2>4. \A p \in peers : p.tag # Fresh
        BY <1>n, <1>k, <2>1 DEF KeysUsed
    <2>5. \A p, q \in peers' : p.tag = q.tag => p = q
        BY <2>2, <2>4 DEF KeysUsed
    <2>6. \A p \in peers' : /\ p.key <= used'.keys /\ p.tag <= used'.keys /\ p.tag # BoxKey
                            /\ p.id # LastResort => p.key # BoxKey
        BY <1>n, <1>k, <2>1, <2>2 DEF KeysUsed, BoxKey
    <2> QED BY <1>n, <1>k, <2>1, <2>3, <2>5, <2>6 DEF KeysUsed
<1>22. CASE Crash
    <2>1. used'.keys = used.keys
        BY <1>22, <1>0, CountTypes DEF Crash
    <2>2. NoKeys
        BY <1>22, <2>1, <1>le DEF Crash, NoKeys, disk, app
    <2> QED BY <2>2, <1>q
<1>23. CASE UNCHANGED vars
    <2>1. NoKeys
        BY <1>23, <1>n DEF vars, NoKeys
    <2> QED BY <2>1, <1>q
<1> QED
    BY <1>1, <1>2, <1>3, <1>5, <1>6, <1>7, <1>8, <1>9, <1>10, <1>11, <1>12, <1>13, <1>14, <1>15,
       <1>16, <1>17, <1>18, <1>19, <1>20, <1>21, <1>22, <1>23 DEF ProteusNext

\* The Cryptobox is migrated before the first init.
LEMMA BoxStep ==
    ASSUME ProteusTypeOK, Alone, BoxFirst, [ProteusNext]_vars
    PROVE  BoxFirst'
<1>0. call \in [Tasks -> Calls]
    BY TypeParts
<1>idle. Idle.op = "idle" /\ Idle.op \notin Writers
    BY DEF Idle, Writers
<1> USE DEF Migrating, BoxFirst
<1>me. me # 0 => ~Migrating
    OBVIOUS
<1>done. ASSUME NEW t \in Tasks, call[t].op \in Writers, box' = box, call'[t].op # "proteus_cryptobox_migrate",
                \A u \in Tasks \ {t} : call'[u] = call[u]
         PROVE  BoxFirst'
    BY <1>done
<1>new. ASSUME NEW t \in Tasks, me # 0, box' = box, call'[t].op # "proteus_cryptobox_migrate",
               \A u \in Tasks \ {t} : call'[u] = call[u]
        PROVE  BoxFirst'
    BY <1>new
<1>same. ASSUME me # 0, box' = box, call' = call PROVE BoxFirst'
    BY <1>same
<1>1. ASSUME NEW t \in Tasks, StartInit(t) PROVE BoxFirst'
    <2>1. \A u \in Tasks : call[u] = Idle
        BY <1>1, EnterAlone, WriteLocks DEF StartInit, Writers
    <2>2. \A u \in Tasks : call'[u].op # "proteus_cryptobox_migrate"
        BY <1>1, <1>0, <1>idle, <2>1 DEF StartInit
    <2> QED BY <1>1, <2>2 DEF StartInit, app
<1>2. ASSUME NEW t \in Tasks, FinishInit(t) PROVE BoxFirst'
    BY <1>2, <1>0, <1>idle, <1>done DEF FinishInit, app, Writers
<1>3. ASSUME NEW t \in Tasks, MigrateIdentity(t) PROVE BoxFirst'
    <2>1. call'[t].op \notin Writers /\ \A u \in Tasks \ {t} : call'[u] = call[u]
        BY <1>3, <1>0 DEF MigrateIdentity, Writers
    <2> QED BY <1>3, <2>1 DEF MigrateIdentity, app
<1>4. ASSUME NEW t \in Tasks, FinishMigration(t) PROVE BoxFirst'
    <2>1. call'[t].op \notin Writers /\ \A u \in Tasks \ {t} : call'[u] = call[u]
        BY <1>4, <1>0, <1>idle DEF FinishMigration
    <2> QED BY <1>4, <2>1 DEF FinishMigration
<1>5. ASSUME NEW t \in Tasks, NEW i, MigrateSession(t, i) \/ MigratePrekey(t, i) PROVE BoxFirst'
    BY <1>5 DEF MigrateSession, MigratePrekey, app
<1>6. ASSUME NEW t \in Tasks, NEW ids, StartBatch(t, ids) PROVE BoxFirst'
    BY <1>6, <1>0, <1>new DEF StartBatch, Ready, app
<1>7. ASSUME NEW t \in Tasks, BatchStep(t) PROVE BoxFirst'
    <2>1. call[t].op \in Writers /\ box' = box
        BY <1>7 DEF BatchStep, app, Writers
    <2>2. call[t] \in Batches
        BY <1>7, <1>0, CallShape DEF BatchStep
    <2>3. call'[t].op # "proteus_cryptobox_migrate" /\ \A u \in Tasks \ {t} : call'[u] = call[u]
        BY <1>7, <1>0, <1>idle, <2>2 DEF BatchStep, Batches
    <2> QED BY <2>1, <2>3, <1>done
<1>8. ASSUME NEW t \in Tasks, FinishBatch(t) \/ FinishSession(t) PROVE BoxFirst'
    BY <1>8, <1>0, <1>idle, <1>done DEF FinishBatch, FinishSession, Writers
<1>9. ASSUME NEW t \in Tasks, NEW m, StartSession(t, m) PROVE BoxFirst'
    BY <1>9, <1>0, <1>new DEF StartSession, Ready, app
<1>11. ASSUME NEW t \in Tasks, NewPrekeyAuto(t) PROVE BoxFirst'
    BY <1>11, <1>0, <1>new DEF NewPrekeyAuto, Ready, app
<1>12. ASSUME NEW t \in Tasks, SavePrekey(t) \/ CallFails(t) PROVE BoxFirst'
    <2>1. call'[t] = Idle /\ \A u \in Tasks \ {t} : call'[u] = call[u]
        BY <1>12, <1>0 DEF SavePrekey, CallFails
    <2>2. me' = me /\ outbox' = outbox /\ inbox' = inbox /\ box' = box
        BY <1>12 DEF SavePrekey, CallFails, app
    <2> QED BY <1>idle, <2>1, <2>2
<1>13. CASE ReloadSessions \/ LastResortPrekey
    BY <1>13 DEF ReloadSessions, LastResortPrekey, app
<1>14. ASSUME NEW i, SessionFromPrekey(i) \/ Encrypt(i) \/ SaveExplicitly(i) \/ Touch(i) \/ SessionDelete(i)
       PROVE  BoxFirst'
    BY <1>14, <1>same DEF SessionFromPrekey, Encrypt, SaveExplicitly, Touch, SessionDelete, Ready, app
<1>15. ASSUME NEW m, Decrypt(m) \/ NewPrekey(m) PROVE BoxFirst'
    BY <1>15, <1>same DEF Decrypt, NewPrekey, Ready
<1>16. ASSUME NEW i, NEW b, PeerStarts(i, b) PROVE BoxFirst'
    BY <1>16 DEF PeerStarts
<1>17. CASE Crash
    BY <1>17, <1>idle DEF Crash, app
<1>18. CASE UNCHANGED vars
    BY <1>18 DEF vars
<1> QED
    BY <1>1, <1>2, <1>3, <1>4, <1>5, <1>6, <1>7, <1>8, <1>9, <1>11, <1>12, <1>13, <1>14, <1>15, <1>16, <1>17,
       <1>18 DEF ProteusNext

-----------------------------------------------------------------------------
(* Sessions are never behind                                               *)

\* What is handed out and over leaves the sessions of i alone.
Calm(i) ==
    /\ used.keys <= used'.keys
    /\ SpentStays
    /\ \A k \in Emitted' : k \in Emitted \/ k[1] # i
    /\ \A m \in Elems(inbox') : m \in Elems(inbox) \/ m.from # i

\* The session s may be kept for i after the step.
StaysGood(i, s) == Fits(i, s, used'.keys, Emitted', Elems(inbox'), SpentTags')

\* A session that fitted and for which nothing was handed out or over still fits.
LEMMA CalmGood ==
    ASSUME NEW i, NEW s \in Sessions, Good(i, s), Calm(i), used \in Counts, used' \in Counts
    PROVE  StaysGood(i, s)
<1>1. s.tag \in Keys /\ s.chain \in Keys /\ Keys \subseteq Nat /\ used.keys \in Nat /\ used'.keys \in Nat
    BY Numbers DEF Sessions, Counts, Keys
<1>2. s.tag <= used'.keys /\ s.chain <= used'.keys
    <2>1. s.tag <= used.keys /\ s.chain <= used.keys /\ used.keys <= used'.keys
        BY DEF Good, Fits, Calm
    <2>2. s.tag \in Nat /\ s.chain \in Nat
        BY <1>1
    <2> QED BY <1>1, <2>1, <2>2
<1>3. s.tag \in SpentTags'
    BY <1>1 DEF Good, Fits, Calm, SpentStays, SpentTags
<1>4. \A k \in Emitted' : k[1] = i /\ k[2] = s.chain => k[3] <= s.sent
    BY DEF Good, Fits, Calm
<1>5. \A m \in Elems(inbox') : m.id # LastResort /\ m.from = i /\ m.tag = s.tag => m \in s.seen
    BY DEF Good, Fits, Calm
<1> QED BY <1>2, <1>3, <1>4, <1>5 DEF StaysGood, Fits

\* Placed in the next state, stated with the sessions of that state.
LEMMA PlacedNext ==
    ASSUME \A i \in Ids : /\ rows'[i] # Absent => StaysGood(i, rows'[i])
                          /\ store'.val[i] # Absent => StaysGood(i, store'.val[i])
    PROVE  Placed'
BY DEF Placed, Good, StaysGood

\* A session that fits is put into the cache, and saved or not.
LEMMA PutGood ==
    ASSUME DiskOK, CacheOK(store), used \in Counts, used' \in Counts, Placed,
           NEW i \in Ids, NEW s \in Sessions, Put(i, s), StaysGood(i, s),
           \A j \in Ids \ {i} : Calm(j), rows'[i] = s \/ Calm(i)
    PROVE  Placed'
<1> SUFFICES ASSUME NEW j \in Ids
             PROVE  /\ rows'[j] # Absent => StaysGood(j, rows'[j])
                    /\ store'.val[j] # Absent => StaysGood(j, store'.val[j])
    BY PlacedNext
<1>1. /\ rows[j] # Absent => rows[j] \in Sessions /\ Good(j, rows[j])
      /\ store.val[j] # Absent => store.val[j] \in Sessions /\ Good(j, store.val[j])
    BY DEF DiskOK, CacheOK, Placed
<1>2. Calm(j) => /\ rows[j] # Absent => StaysGood(j, rows[j])
                 /\ store.val[j] # Absent => StaysGood(j, store.val[j])
    BY <1>1, CalmGood
<1>3. CASE j = i
    BY <1>2, <1>3 DEF Put
<1>4. CASE j # i
    BY <1>2, <1>4 DEF Put
<1> QED BY <1>3, <1>4

\* The part of the invariant that is about sessions and what was handed out.
SessionInv == Placed /\ (\A t \in Tasks : PendingOK(t)) /\ Received /\ Separate

\* A step that hands nothing out and nothing over.
Silent ==
    /\ outbox' = outbox /\ inbox' = inbox
    /\ \A t \in Tasks : call'[t].op = "proteus_encrypt_batched" =>
            \/ call[t].op = "proteus_encrypt_batched" /\ call'[t].done = call[t].done
            \/ call'[t].done = << >>

\* It changes no session either: at most it forgets some.
Quiet ==
    /\ Silent
    /\ \A t \in Tasks : call'[t].op = "proteus_decrypt" => call'[t] = call[t]
    /\ \A i \in Ids : /\ rows'[i] \in {rows[i], store.val[i], Absent}
                      /\ store'.val[i] \in {rows[i], store.val[i], Absent}

\* A silent step emits nothing.
LEMMA SilentEmits ==
    ASSUME Silent
    PROVE  Emitted' \subseteq Emitted
<1> SUFFICES ASSUME NEW k \in Emitted' PROVE k \in Emitted
    OBVIOUS
<1>1. \/ k \in Elems(outbox')
      \/ \E t \in Tasks : call'[t].op = "proteus_encrypt_batched" /\ k \in Elems(call'[t].done)
    BY DEF Emitted, Batching
<1>2. CASE k \in Elems(outbox')
    BY <1>2 DEF Emitted, Silent
<1>3. ASSUME NEW t \in Tasks, call'[t].op = "proteus_encrypt_batched", k \in Elems(call'[t].done)
      PROVE  k \in Emitted
    <2>1. call'[t].done # << >>
        BY <1>3, EmptyElems
    <2>2. call[t].op = "proteus_encrypt_batched" /\ call'[t].done = call[t].done
        BY <1>3, <2>1 DEF Silent
    <2> QED BY <1>3, <2>2 DEF Emitted, Batching
<1> QED BY <1>1, <1>2, <1>3

\* Remote sessions are never forgotten.
LEMMA PeersGrow == ASSUME [ProteusNext]_vars PROVE peers \subseteq peers'
<1>1. ASSUME NEW t \in Tasks PROVE
        /\ StartInit(t) \/ FinishInit(t) \/ MigrateIdentity(t) \/ FinishMigration(t) => peers' = peers
        /\ BatchStep(t) \/ FinishBatch(t) \/ FinishSession(t) => peers' = peers
        /\ NewPrekeyAuto(t) \/ SavePrekey(t) \/ CallFails(t) => peers' = peers
        /\ \A i : MigrateSession(t, i) \/ MigratePrekey(t, i) \/ StartBatch(t, i) \/ StartSession(t, i) => peers' = peers
    BY DEF StartInit, FinishInit, MigrateIdentity, FinishMigration, BatchStep, FinishBatch, FinishSession,
           NewPrekeyAuto, SavePrekey, CallFails, MigrateSession, MigratePrekey, StartBatch, StartSession, app
<1>2. \A i : SessionFromPrekey(i) \/ Encrypt(i) \/ SaveExplicitly(i) \/ Touch(i) \/ SessionDelete(i)
               \/ Decrypt(i) \/ NewPrekey(i) => peers' = peers
    BY DEF SessionFromPrekey, Encrypt, SaveExplicitly, Touch, SessionDelete, Decrypt, NewPrekey, app
<1>3. ReloadSessions \/ LastResortPrekey \/ Crash \/ UNCHANGED vars => peers' = peers
    BY DEF ReloadSessions, LastResortPrekey, Crash, vars, app
<1>4. \A i, b : PeerStarts(i, b) => peers \subseteq peers'
    BY DEF PeerStarts
<1> QED BY <1>1, <1>2, <1>3, <1>4 DEF ProteusNext

\* What was received stays received: its origin is known and its tag spent.
LEMMA ReceivedStays ==
    ASSUME ProteusTypeOK, KeysUsed, [ProteusNext]_vars, NEW m \in Messages,
           Origin(m) \in peers, SpentTag(m.tag)
    PROVE  Origin(m) \in peers' /\ SpentTag(m.tag)'
<1>1. m.tag \in Keys /\ m.tag <= used.keys
    BY DEF Messages, Origin, KeysUsed
<1>2. SpentStays /\ peers \subseteq peers'
    BY KeysStep, PeersGrow
<1> QED BY <1>1, <1>2 DEF SpentStays

\* What is emitted are message keys.
LEMMA EmittedTypes ==
    ASSUME ProteusTypeOK
    PROVE  /\ Emitted \subseteq MessageKeys
           /\ \A t \in Batching : call[t].done \in Seq(MessageKeys)
<1>0. AppOK /\ call \in [Tasks -> Calls]
    BY TypeParts
<1>1. Elems(outbox) \subseteq MessageKeys
    BY <1>0 DEF AppOK, Elems
<1>2. \A t \in Batching : call[t].done \in Seq(MessageKeys)
    BY <1>0, CallShape DEF Batching, Batches
<1>3. \A t \in Batching : Elems(call[t].done) \subseteq MessageKeys
    BY <1>2 DEF Elems
<1> QED BY <1>1, <1>2, <1>3 DEF Emitted

\* All chains stay known when nothing, or a key of a known chain, is handed out.
LEMMA ChainsStay ==
    ASSUME ProteusTypeOK, KeysUsed, Separate, [ProteusNext]_vars,
           NEW e \in MessageKeys, e[2] <= used.keys, Emitted' \subseteq Emitted \cup {e}
    PROVE  \A k \in Emitted' : k[2] <= used'.keys
<1>1. used \in Counts /\ used' \in Counts
    BY TypeStep DEF ProteusTypeOK, Counts
<1>2. used.keys \in Nat /\ used'.keys \in Nat /\ \A k \in MessageKeys : k[2] \in Nat
    BY <1>1, Numbers DEF Counts, MessageKeys, Keys
<1>3. used.keys <= used'.keys
    BY KeysStep
<1>4. \A k \in Emitted' : k \in MessageKeys /\ k[2] <= used.keys
    BY EmittedTypes DEF Separate
<1> QED BY <1>2, <1>3, <1>4

\* A silent step disturbs no session, and no call that goes on.
LEMMA SilentStep ==
    ASSUME ProteusTypeOK, KeysUsed, SessionInv, [ProteusNext]_vars, Silent
    PROVE  /\ \A i : Calm(i)
           /\ Received' /\ Separate'
           /\ \A t \in Tasks : call'[t] = call[t] => PendingOK(t)'
<1>0. DiskOK /\ AppOK /\ CacheOK(store) /\ call \in [Tasks -> Calls] /\ used \in Counts
    BY TypeParts
<1>1. used' \in Counts
    BY TypeStep DEF ProteusTypeOK, Counts
<1>2. SpentStays /\ used.keys <= used'.keys /\ peers \subseteq peers'
    BY KeysStep, PeersGrow
<1>3. Emitted' \subseteq Emitted
    BY SilentEmits
<1>4. \A i : Calm(i)
    BY <1>2, <1>3 DEF Calm, Silent
<1>6. ASSUME NEW t \in Tasks, call'[t] = call[t] PROVE PendingOK(t)'
    <2> SUFFICES ASSUME call'[t].op = "proteus_decrypt" PROVE PendingOK(t)'
        BY DEF PendingOK
    <2>1. call'[t] = call[t] /\ call[t].op = "proteus_decrypt"
        BY <1>6
    <2>2. call[t].session \in Sessions
        BY <1>0, <2>1, CallShape
    <2>3. StaysGood(call[t].sid, call[t].session)
        BY <1>0, <1>1, <1>4, <2>1, <2>2, CalmGood DEF SessionInv, PendingOK
    <2>4. inbox' = inbox
        BY DEF Silent
    <2> QED BY <1>2, <2>1, <2>3, <2>4 DEF SessionInv, PendingOK, Good, StaysGood
<1>7. Received'
    <2>1. \A m \in Elems(inbox) : m \in Messages
        BY <1>0 DEF AppOK, Elems
    <2>2. inbox' = inbox
        BY DEF Silent
    <2>3. \A m \in Elems(inbox) : Origin(m) \in peers' /\ SpentTag(m.tag)'
        BY <2>1, ReceivedStays DEF SessionInv, Received
    <2> QED BY <2>2, <2>3 DEF Received
<1>8. Separate'
    <2>2. \A k \in Emitted' : k[2] <= used'.keys
        <3>1. used.keys \in Nat /\ used'.keys \in Nat /\ \A k \in MessageKeys : k[2] \in Nat
            BY <1>0, <1>1, Numbers DEF Counts, MessageKeys, Keys
        <3> QED BY <1>2, <1>3, <3>1, EmittedTypes DEF SessionInv, Separate
    <2>3. \A t \in Batching' : Once(outbox' \o call'[t].done)
        <3> SUFFICES ASSUME NEW t \in Tasks, call'[t].op = "proteus_encrypt_batched"
                     PROVE  Once(outbox \o call'[t].done)
            BY DEF Batching, Silent
        <3>1. CASE call[t].op = "proteus_encrypt_batched" /\ call'[t].done = call[t].done
            BY <3>1 DEF SessionInv, Separate, Batching
        <3>2. CASE call'[t].done = << >>
            BY <1>0, <3>2, EmptyElems DEF AppOK, SessionInv, Separate
        <3> QED BY <3>1, <3>2 DEF Silent
    <2>4. Once(outbox')
        BY DEF Silent, SessionInv, Separate
    <2> QED BY <2>2, <2>3, <2>4 DEF Separate
<1> QED BY <1>4, <1>6, <1>7, <1>8

\* A silent step that adds no session keeps the invariant.
LEMMA QuietStep ==
    ASSUME ProteusTypeOK, KeysUsed, SessionInv, [ProteusNext]_vars, Quiet
    PROVE  SessionInv'
<1>0. DiskOK /\ AppOK /\ CacheOK(store) /\ call \in [Tasks -> Calls] /\ used \in Counts
    BY TypeParts
<1>1. used' \in Counts
    BY TypeStep DEF ProteusTypeOK, Counts
<1>2. /\ \A i : Calm(i)
      /\ Received' /\ Separate'
      /\ \A t \in Tasks : call'[t] = call[t] => PendingOK(t)'
    BY SilentStep DEF Quiet
<1>3. Placed'
    <2>1. \A j \in Ids : /\ rows[j] # Absent => rows[j] \in Sessions /\ Good(j, rows[j])
                         /\ store.val[j] # Absent => store.val[j] \in Sessions /\ Good(j, store.val[j])
        BY <1>0 DEF DiskOK, CacheOK, SessionInv, Placed
    <2>2. \A j \in Ids : /\ rows[j] # Absent => StaysGood(j, rows[j])
                         /\ store.val[j] # Absent => StaysGood(j, store.val[j])
        BY <1>0, <1>1, <1>2, <2>1, CalmGood
    <2> QED BY <2>2, PlacedNext DEF Quiet
<1>4. ASSUME NEW t \in Tasks PROVE PendingOK(t)'
    <2>1. CASE call'[t].op = "proteus_decrypt"
        BY <1>2, <2>1 DEF Quiet
    <2>2. CASE call'[t].op # "proteus_decrypt"
        BY <2>2 DEF PendingOK
    <2> QED BY <2>1, <2>2
<1> QED BY <1>2, <1>3, <1>4 DEF SessionInv

\* A ciphertext of the session of i: the next message key of its chain is not
\* among those handed out, and the session that was advanced fits again.
LEMMA EmitGood ==
    ASSUME ProteusTypeOK, KeysUsed, SessionInv, [ProteusNext]_vars,
           NEW i \in Ids, NEW c \in Sessions, Good(i, c), c.sent < MaxSent,
           Emitted' \subseteq Emitted \cup {MessageKey(i, Encrypted(c))}, inbox' = inbox
    PROVE  /\ MessageKey(i, Encrypted(c)) \in MessageKeys
           /\ MessageKey(i, Encrypted(c)) \notin Emitted
           /\ \A j \in Ids \ {i} : Calm(j)
           /\ StaysGood(i, Encrypted(c))
           /\ \A k \in Emitted' : k[2] <= used'.keys
<1> DEFINE s == Encrypted(c)
           e == MessageKey(i, s)
<1>1. /\ s \in Sessions /\ s.sent = c.sent + 1 /\ s.tag = c.tag /\ s.chain = c.chain /\ s.seen = c.seen
    BY SessionTypes
<1>2. used \in Counts /\ used' \in Counts
    BY TypeStep DEF ProteusTypeOK, Counts
<1>3. c.sent \in Nat /\ s.sent \in Nat /\ s.chain \in Keys /\ s.tag \in Keys
    BY <1>1, Numbers DEF Sessions
<1>4. e[1] = i /\ e[2] = s.chain /\ e[3] = s.sent /\ e \in MessageKeys
    <2> HIDE DEF s
    <2> QED BY <1>3 DEF MessageKey, MessageKeys
<1> HIDE DEF s, e
<1>5. \A k \in Emitted : k \in MessageKeys /\ k[3] \in Nat
    BY EmittedTypes DEF MessageKeys
<1>6. \A k \in Emitted : k[1] = i /\ k[2] = s.chain => k[3] <= c.sent
    BY <1>1 DEF Good, Fits
<1>7. e \notin Emitted
    BY <1>1, <1>3, <1>4, <1>6
<1>8. SpentStays /\ used.keys <= used'.keys
    BY KeysStep
<1>9. \A k \in Emitted' : k \in Emitted \/ k = e
    BY DEF e, s
<1>10. \A j \in Ids \ {i} : Calm(j)
    BY <1>4, <1>8, <1>9 DEF Calm
<1>11. s.tag <= used.keys /\ s.chain <= used.keys /\ s.tag \in SpentTags
    BY <1>1 DEF Good, Fits
<1>12. StaysGood(i, s)
    <2>1. s.tag <= used'.keys /\ s.chain <= used'.keys
        <3>1. s.tag \in Nat /\ s.chain \in Nat /\ used.keys \in Nat /\ used'.keys \in Nat
            BY <1>2, <1>3, Numbers DEF Keys, Counts
        <3> QED BY <1>8, <1>11, <3>1
    <2>2. s.tag \in SpentTags'
        BY <1>3, <1>8, <1>11 DEF SpentStays, SpentTags
    <2>3. \A k \in Emitted' : k[1] = i /\ k[2] = s.chain => k[3] <= s.sent
        <3> SUFFICES ASSUME NEW k \in Emitted', k[1] = i, k[2] = s.chain PROVE k[3] <= s.sent
            OBVIOUS
        <3>1. CASE k = e
            BY <1>3, <1>4, <3>1
        <3>2. CASE k \in Emitted
            BY <1>1, <1>3, <1>5, <1>6, <3>2
        <3> QED BY <1>9, <3>1, <3>2
    <2>4. \A m \in Elems(inbox') : m.id # LastResort /\ m.from = i /\ m.tag = s.tag => m \in s.seen
        BY <1>1 DEF Good, Fits
    <2> QED BY <2>1, <2>2, <2>3, <2>4 DEF StaysGood, Fits
<1>13. \A k \in Emitted' : k[2] <= used'.keys
    <2>1. Emitted' \subseteq Emitted \cup {e} /\ e[2] <= used.keys
        BY <1>4, <1>9, <1>11
    <2> QED BY <1>4, <2>1, ChainsStay DEF SessionInv
<1> QED BY <1>4, <1>7, <1>10, <1>12, <1>13 DEF e, s

\* A message of m.from is handed over, of which no session of the client was
\* ahead, and s, which has seen it, is the session of m.from from now on.
LEMMA ReceiveGood ==
    ASSUME ProteusTypeOK, KeysUsed, SessionInv, [ProteusNext]_vars,
           NEW m \in Messages, NEW c \in Sessions, NEW s \in Sessions,
           Good(m.from, c), s.tag = c.tag, s.chain = c.chain, s.sent = c.sent, s.seen = c.seen \cup {m},
           c.tag = m.tag, Origin(m) \in peers, Emitted' \subseteq Emitted,
           inbox' = inbox \/ inbox' = Append(inbox, m)
    PROVE  /\ \A j \in Ids \ {m.from} : Calm(j)
           /\ StaysGood(m.from, s)
           /\ Received'
<1>0. AppOK /\ used \in Counts /\ used' \in Counts
    BY TypeParts, TypeStep DEF ProteusTypeOK, Counts
<1>1. \A x \in Elems(inbox') : x \in Elems(inbox) \/ x = m
    <2>1. Elems(Append(inbox, m)) = Elems(inbox) \cup {m}
        BY <1>0, ElemsAppend DEF AppOK
    <2> QED BY <2>1
<1>2. SpentStays /\ used.keys <= used'.keys
    BY KeysStep
<1>4. \A j \in Ids \ {m.from} : Calm(j)
    BY <1>1, <1>2 DEF Calm
<1>5. s.tag <= used.keys /\ s.chain <= used.keys /\ s.tag \in SpentTags
    BY DEF Good, Fits
<1>6. StaysGood(m.from, s)
    <2>0. s.tag \in Keys /\ s.chain \in Keys
        BY DEF Sessions
    <2>1. s.tag <= used'.keys /\ s.chain <= used'.keys
        <3>1. s.tag \in Nat /\ s.chain \in Nat /\ used.keys \in Nat /\ used'.keys \in Nat
            BY <1>0, <2>0, Numbers DEF Keys, Counts
        <3> QED BY <1>2, <1>5, <3>1
    <2>2. s.tag \in SpentTags'
        BY <1>2, <1>5, <2>0 DEF SpentStays, SpentTags
    <2>3. \A k \in Emitted' : k[1] = m.from /\ k[2] = s.chain => k[3] <= s.sent
        BY DEF Good, Fits
    <2>4. \A x \in Elems(inbox') : x.id # LastResort /\ x.from = m.from /\ x.tag = s.tag => x \in s.seen
        BY <1>1 DEF Good, Fits
    <2> QED BY <2>1, <2>2, <2>3, <2>4 DEF StaysGood, Fits
<1>7. Received'
    <2>1. \A x \in Elems(inbox) : x \in Messages
        BY <1>0 DEF AppOK, Elems
    <2>2. SpentTag(m.tag)
        BY <1>5 DEF SpentTags
    <2>3. \A x \in Elems(inbox') : x \in Messages /\ Origin(x) \in peers /\ SpentTag(x.tag)
        BY <1>1, <2>1, <2>2 DEF SessionInv, Received
    <2>4. \A x \in Elems(inbox') : Origin(x) \in peers' /\ SpentTag(x.tag)'
        BY <2>3, ReceivedStays
    <2> QED BY <2>4 DEF Received
<1> QED BY <1>4, <1>6, <1>7

\* Every session that is kept, cached or about to be saved fits after every step.
LEMMA SessionStep ==
    ASSUME ProteusTypeOK, ContractInv, [ProteusNext]_vars
    PROVE  SessionInv'
<1>0. DiskOK /\ AppOK /\ CacheOK(store) /\ call \in [Tasks -> Calls] /\ used \in Counts
    BY TypeParts
<1>00. used' \in Counts /\ rows' \in [Ids -> Sessions \cup {Absent}]
    BY TypeStep DEF ProteusTypeOK, Counts
<1>i. Alone /\ BoxFirst /\ KeysUsed /\ SessionInv
    BY DEF ContractInv, SessionInv
<1>op. \A t \in Tasks : call[t] # Idle <=> call[t].op # "idle"
    BY <1>0, CallShape
<1>idle. Idle.op = "idle"
    BY DEF Idle
<1>q. Quiet => SessionInv'
    BY <1>i, QuietStep
<1>s. Silent => /\ \A i : Calm(i)
                /\ Received' /\ Separate'
                /\ \A t \in Tasks : call'[t] = call[t] => PendingOK(t)'
    BY <1>i, SilentStep
<1>alone. ASSUME NEW op, Enter(op), Exclusive(op), call' = call
          PROVE  Batching = {} /\ Batching' = {} /\ \A t \in Tasks : PendingOK(t)'
    <2>1. \A t \in Tasks : call'[t].op = "idle" /\ call[t].op = "idle"
        BY <1>alone, <1>idle, EnterAlone
    <2> QED BY <2>1 DEF Batching, PendingOK
<1>only. ASSUME NEW t \in Tasks, call[t].op \in Writers, \A u \in Tasks \ {t} : call'[u] = call[u]
         PROVE  \A u \in Tasks \ {t} : call[u].op = "idle" /\ call'[u].op = "idle" /\ PendingOK(u)'
    BY <1>only, <1>op, <1>i DEF Alone, PendingOK
<1>good. ASSUME NEW i \in Ids, Current(i) # Absent
         PROVE  Current(i) \in Sessions /\ Good(i, Current(i))
    <2>1. Current(i) \in Sessions /\ Current(i) \in {store.val[i], rows[i]}
        BY <1>good, <1>0, CurrentType
    <2> QED BY <1>good, <1>i, <2>1 DEF SessionInv, Placed
<1>1. ASSUME NEW t \in Tasks, StartInit(t) PROVE SessionInv'
    <2>1. Quiet
        BY <1>1, <1>0 DEF StartInit, Quiet, Silent, app
    <2> QED BY <2>1, <1>q
<1>2. ASSUME NEW t \in Tasks, FinishInit(t) PROVE SessionInv'
    <2>1. PICK o \in RestoreOrders(rows) : store' = Restored(rows, o)
        BY <1>2 DEF FinishInit
    <2>2. \A i \in Ids : store'.val[i] \in {rows[i], Absent}
        BY <1>0, <2>1, RestoredCache DEF DiskOK
    <2>3. Quiet
        BY <1>2, <1>0, <1>idle, <2>2 DEF FinishInit, Quiet, Silent, app
    <2> QED BY <2>3, <1>q
<1>3. ASSUME NEW t \in Tasks, MigrateIdentity(t) PROVE SessionInv'
    <2>1. Quiet
        BY <1>3, <1>0 DEF MigrateIdentity, Quiet, Silent, app
    <2> QED BY <2>1, <1>q
<1>4. ASSUME NEW t \in Tasks, FinishMigration(t) PROVE SessionInv'
    <2>1. Quiet
        BY <1>4, <1>0, <1>idle DEF FinishMigration, Quiet, Silent, disk
    <2> QED BY <2>1, <1>q
<1>5. ASSUME NEW t \in Tasks, NEW i \in BoxSessions, MigrateSession(t, i) PROVE SessionInv'
    <2> DEFINE s == [tag |-> BoxKey, chain |-> BoxKey, ident |-> BoxKey, sent |-> 0, seen |-> {}]
    <2>1. Migrating /\ i \in Ids
        BY <1>5, ProteusAssumption DEF MigrateSession, Migrating
    <2>2. Silent
        BY <1>5 DEF MigrateSession, Silent, app
    <2>3. Emitted' = {} /\ Elems(inbox') = {}
        <3>1. outbox' = << >> /\ inbox' = << >> /\ Batching' = {}
            BY <1>5, <1>i, <2>1 DEF MigrateSession, BoxFirst, Batching, app, Writers
        <3> QED BY <3>1, EmptyElems DEF Emitted
    <2>4. s.tag = BoxKey /\ s.chain = BoxKey /\ s \in Sessions
        BY SessionTypes, Numbers
    <2>5. BoxKey \in SpentTags' /\ BoxKey <= used'.keys
        <3>1. used' = used /\ peers' = peers /\ BoxKey <= used.keys
            BY <1>5, <1>0 DEF MigrateSession, app, Counts, Keys, BoxKey
        <3> QED BY <1>i, <3>1, Numbers DEF SpentTags, SpentTag, KeysUsed
    <2> HIDE DEF s
    <2>6. StaysGood(i, s)
        BY <2>3, <2>4, <2>5 DEF StaysGood, Fits
    <2>7. store' = store /\ rows'[i] = s /\ \A j \in Ids \ {i} : rows'[j] = rows[j]
        BY <1>5, <1>0, <2>1 DEF MigrateSession, DiskOK, s
    <2>8. \A j \in Ids : /\ rows[j] # Absent => StaysGood(j, rows[j])
                         /\ store.val[j] # Absent => StaysGood(j, store.val[j])
        <3>1. \A j \in Ids : /\ rows[j] # Absent => rows[j] \in Sessions /\ Good(j, rows[j])
                             /\ store.val[j] # Absent => store.val[j] \in Sessions /\ Good(j, store.val[j])
            BY <1>0, <1>i DEF DiskOK, CacheOK, SessionInv, Placed
        <3> QED BY <1>0, <1>00, <1>s, <2>2, <3>1, CalmGood
    <2>9. Placed'
        BY <2>6, <2>7, <2>8, PlacedNext
    <2>10. call' = call
        BY <1>5 DEF MigrateSession
    <2> QED BY <1>s, <2>2, <2>9, <2>10 DEF SessionInv
<1>6. ASSUME NEW t \in Tasks, NEW i, MigratePrekey(t, i) PROVE SessionInv'
    <2>1. Quiet
        BY <1>6 DEF MigratePrekey, Quiet, Silent, app
    <2> QED BY <2>1, <1>q
<1>7. ASSUME NEW t \in Tasks, NEW ids, StartBatch(t, ids) PROVE SessionInv'
    <2>1. Quiet
        BY <1>7, <1>0 DEF StartBatch, Quiet, Silent, disk, app
    <2> QED BY <2>1, <1>q
<1>9. ASSUME NEW t \in Tasks, FinishBatch(t) PROVE SessionInv'
    <2>1. t \in Batching /\ call[t].done \in Seq(MessageKeys) /\ outbox' = outbox \o call[t].done
        BY <1>9, EmittedTypes DEF FinishBatch, Batching
    <2>2. Elems(outbox') = Elems(outbox) \cup Elems(call[t].done)
        BY <1>0, <2>1, ElemsConcat DEF AppOK
    <2>3. \A u \in Tasks : call'[u].op = "idle"
        <3>1. call'[t].op = "idle" /\ \A u \in Tasks \ {t} : call'[u] = call[u]
            BY <1>9, <1>0, <1>idle DEF FinishBatch
        <3> QED BY <1>9, <3>1, <1>only DEF FinishBatch, Writers
    <2>4. Emitted' \subseteq Emitted /\ Batching' = {}
        BY <2>1, <2>2, <2>3 DEF Emitted, Batching
    <2>5. inbox' = inbox /\ rows' = rows /\ store' = store
        BY <1>9 DEF FinishBatch, disk
    <2>6. SpentStays /\ used.keys <= used'.keys
        BY <1>i, KeysStep
    <2>7. \A j : Calm(j)
        BY <2>4, <2>5, <2>6 DEF Calm
    <2>8. Placed'
        <3>1. \A j \in Ids : /\ rows[j] # Absent => rows[j] \in Sessions /\ Good(j, rows[j])
                             /\ store.val[j] # Absent => store.val[j] \in Sessions /\ Good(j, store.val[j])
            BY <1>0, <1>i DEF DiskOK, CacheOK, SessionInv, Placed
        <3>2. \A j \in Ids : /\ rows[j] # Absent => StaysGood(j, rows[j])
                             /\ store.val[j] # Absent => StaysGood(j, store.val[j])
            BY <1>0, <1>00, <2>7, <3>1, CalmGood
        <3> QED BY <2>5, <3>2, PlacedNext
    <2>9. Received'
        <3>1. \A m \in Elems(inbox) : m \in Messages
            BY <1>0 DEF AppOK, Elems
        <3>2. \A m \in Elems(inbox) : Origin(m) \in peers' /\ SpentTag(m.tag)'
            BY <1>i, <3>1, ReceivedStays DEF SessionInv, Received
        <3> QED BY <2>5, <3>2 DEF Received
    <2>10. Separate'
        <3>1. Once(outbox')
            BY <1>i, <2>1 DEF SessionInv, Separate
        <3>2. used' = used
            BY <1>9 DEF FinishBatch
        <3> QED BY <1>i, <2>4, <3>1, <3>2 DEF SessionInv, Separate
    <2>11. \A u \in Tasks : PendingOK(u)'
        BY <2>3 DEF PendingOK
    <2> QED BY <2>8, <2>9, <2>10, <2>11 DEF SessionInv
<1>12. ASSUME NEW t \in Tasks, NewPrekeyAuto(t) PROVE SessionInv'
    <2>1. Quiet
        BY <1>12, <1>0 DEF NewPrekeyAuto, Quiet, Silent, disk, app
    <2> QED BY <2>1, <1>q
<1>13. ASSUME NEW t \in Tasks, SavePrekey(t) \/ CallFails(t) PROVE SessionInv'
    <2>1. Quiet
        BY <1>13, <1>0, <1>idle DEF SavePrekey, CallFails, Quiet, Silent, disk, app
    <2> QED BY <2>1, <1>q
<1>15. CASE ReloadSessions
    <2>1. PICK o \in RestoreOrders(rows) : store' = Restored(rows, o)
        BY <1>15 DEF ReloadSessions
    <2>2. \A i \in Ids : store'.val[i] \in {rows[i], Absent}
        BY <1>0, <2>1, RestoredCache DEF DiskOK
    <2>3. Quiet
        BY <1>15, <2>2 DEF ReloadSessions, Quiet, Silent, disk, app
    <2> QED BY <2>3, <1>q
<1>18. ASSUME NEW i \in Ids, SaveExplicitly(i) PROVE SessionInv'
    <2>1. Current(i) \in Sessions /\ Current(i) \in {store.val[i], rows[i]}
        BY <1>18, <1>0, CurrentType DEF SaveExplicitly
    <2>2. Put(i, Current(i))
        BY <1>18, <1>0, <2>1, PutTypes DEF SaveExplicitly
    <2>3. Quiet
        BY <1>18, <2>1, <2>2 DEF SaveExplicitly, Put, Quiet, Silent, app
    <2> QED BY <2>3, <1>q
<1>19. ASSUME NEW i \in Ids, Touch(i) PROVE SessionInv'
    <2>1. \A j \in Ids : store'.val[j] \in {rows[j], store.val[j], Absent}
        <3>1. CASE Current(i) = Absent
            BY <1>19, <3>1 DEF Touch, Fetch, Current
        <3>2. CASE Current(i) # Absent
            <4>1. store' = Insert(store, i, Current(i)) /\ Current(i) \in Sessions
                  /\ Current(i) \in {store.val[i], rows[i]}
                BY <1>19, <1>0, <3>2, CurrentType DEF Touch, Fetch, Current
            <4>2. store'.val[i] = Current(i) /\ \A j \in Ids \ {i} : store'.val[j] \in {store.val[j], Absent}
                BY <1>0, <4>1, InsertCache
            <4> QED BY <4>1, <4>2
        <3> QED BY <3>1, <3>2
    <2>2. Quiet
        BY <1>19, <2>1 DEF Touch, Quiet, Silent, disk, app
    <2> QED BY <2>2, <1>q
<1>20. ASSUME NEW i \in Ids, SessionDelete(i) PROVE SessionInv'
    <2>1. \A j \in Ids : store'.val[j] = IF j = i THEN Absent ELSE store.val[j]
        BY <1>20, <1>0, RemoveCache DEF SessionDelete
    <2>2. \A j \in Ids : rows'[j] = IF j = i THEN Absent ELSE rows[j]
        BY <1>20, <1>0 DEF SessionDelete, DiskOK
    <2>3. Quiet
        BY <1>20, <2>1, <2>2 DEF SessionDelete, Quiet, Silent, app
    <2> QED BY <2>3, <1>q
<1>22. ASSUME NEW i, NewPrekey(i) PROVE SessionInv'
    <2>1. Quiet
        BY <1>22 DEF NewPrekey, Quiet, Silent
    <2> QED BY <2>1, <1>q
<1>23. CASE LastResortPrekey
    <2>1. Quiet
        BY <1>23 DEF LastResortPrekey, Quiet, Silent, disk
    <2> QED BY <2>1, <1>q
<1>24. ASSUME NEW i, NEW b, PeerStarts(i, b) PROVE SessionInv'
    <2>1. Quiet
        BY <1>24 DEF PeerStarts, Quiet, Silent, disk
    <2> QED BY <2>1, <1>q
<1>25. CASE Crash
    <2>1. \A i \in Ids : store'.val[i] = Absent
        BY <1>25, EmptyCache DEF Crash
    <2>2. Quiet
        BY <1>25, <1>idle, <2>1 DEF Crash, Quiet, Silent, disk, app
    <2> QED BY <2>2, <1>q
<1>26. CASE UNCHANGED vars
    <2>1. Quiet
        BY <1>26 DEF vars, Quiet, Silent
    <2> QED BY <2>1, <1>q
<1>8. ASSUME NEW t \in Tasks, BatchStep(t) PROVE SessionInv'
    <2> DEFINE i == Head(call[t].todo)
               c == Current(i)
               s == Encrypted(c)
               e == MessageKey(i, s)
    <2>1. call[t] \in Batches /\ call[t].todo # << >> /\ t \in Batching
        BY <1>8, <1>0, CallShape DEF BatchStep, Batching
    <2>2. i \in Ids /\ call[t].done \in Seq(MessageKeys)
        <3>1. call[t].todo \in Seq(Ids) /\ call[t].done \in Seq(MessageKeys)
            BY <2>1 DEF Batches
        <3> QED BY <2>1, <3>1
    <2>3. \A u \in Tasks \ {t} : call[u].op = "idle" /\ call'[u].op = "idle" /\ PendingOK(u)'
        <3>1. call[t].op \in Writers /\ \A u \in Tasks \ {t} : call'[u] = call[u]
            BY <1>8, <1>0 DEF BatchStep, Writers
        <3> QED BY <3>1, <1>only
    <2>4. outbox' = outbox /\ inbox' = inbox
        BY <1>8 DEF BatchStep, app
    <2>5. CASE c = Absent
        <3>1. call'[t].op = "proteus_encrypt_batched" /\ call'[t].done = call[t].done
            BY <1>8, <1>0, <2>1, <2>5 DEF BatchStep, Batches
        <3>2. Quiet
            BY <1>8, <2>1, <2>3, <2>4, <2>5, <3>1 DEF BatchStep, Quiet, Silent, Batches
        <3> QED BY <3>2, <1>q
    <2>6. CASE c # Absent
        <3>1. c \in Sessions /\ Good(i, c) /\ c.sent < MaxSent
            BY <1>8, <1>good, <2>2, <2>6 DEF BatchStep
        <3>2. s \in Sessions
            BY <3>1, SessionTypes
        <3>3. \/ SaveSession(i, s) /\ call' = [call EXCEPT ![t].todo = Tail(@), ![t].done = Append(@, e)]
              \/ SaveFails(i, s) /\ call' = [call EXCEPT ![t] = Idle]
            BY <1>8, <2>6 DEF BatchStep
        <3>4. Put(i, s)
            BY <1>0, <2>2, <3>2, <3>3, PutTypes
        <3>5. PendingOK(t)'
            <4>1. call'[t].op # "proteus_decrypt"
                BY <1>0, <1>idle, <2>1, <3>3 DEF Batches
            <4> QED BY <4>1 DEF PendingOK
        <3>6. CASE SaveSession(i, s) /\ call' = [call EXCEPT ![t].todo = Tail(@), ![t].done = Append(@, e)]
            <4>1. call'[t].op = "proteus_encrypt_batched" /\ call'[t].done = Append(call[t].done, e)
                BY <1>0, <2>1, <3>6 DEF Batches
            <4>2. e \in MessageKeys
                <5>1. s.chain \in Keys /\ s.sent \in Nat
                    BY <3>2, Numbers DEF Sessions
                <5> HIDE DEF i, s
                <5> QED BY <2>2, <5>1 DEF MessageKey, MessageKeys
            <4> HIDE DEF e
            <4>3. Elems(call'[t].done) = Elems(call[t].done) \cup {e}
                BY <2>2, <4>1, <4>2, ElemsAppend
            <4>4. Batching' = {t}
                BY <2>3, <4>1 DEF Batching
            <4>5. Emitted' \subseteq Emitted \cup {e}
                BY <2>1, <2>4, <4>3, <4>4 DEF Emitted
            <4>6. /\ e \notin Emitted
                  /\ \A j \in Ids \ {i} : Calm(j)
                  /\ StaysGood(i, s)
                  /\ \A k \in Emitted' : k[2] <= used'.keys
                <5> HIDE DEF i, c
                <5>1. Emitted' \subseteq Emitted \cup {MessageKey(i, Encrypted(c))}
                    BY <4>5 DEF e, s
                <5> QED BY <1>i, <2>2, <2>4, <3>1, <5>1, EmitGood DEF e, s
            <4>7. rows'[i] = s
                BY <1>0, <2>2, <3>6 DEF SaveSession, DiskOK
            <4>8. Placed'
                <5> HIDE DEF i, s
                <5> QED BY <1>0, <1>00, <1>i, <2>2, <3>2, <3>4, <4>6, <4>7, PutGood DEF SessionInv
            <4>9. Once(outbox' \o call'[t].done)
                <5>1. outbox \o call[t].done \in Seq(MessageKeys) /\ Once(outbox \o call[t].done)
                    BY <1>0, <1>i, <2>1, <2>2, ConcatProperties DEF AppOK, SessionInv, Separate
                <5>2. Elems(outbox \o call[t].done) \subseteq Emitted
                    <6>1. Elems(outbox \o call[t].done) = Elems(outbox) \cup Elems(call[t].done)
                        BY <1>0, <2>2, ElemsConcat DEF AppOK
                    <6> QED BY <2>1, <6>1 DEF Emitted
                <5>3. outbox' \o call'[t].done = Append(outbox \o call[t].done, e)
                    BY <1>0, <2>2, <2>4, <4>1, <4>2, ConcatAppend DEF AppOK
                <5>4. e \notin Elems(outbox \o call[t].done)
                    BY <4>6, <5>2
                <5> QED BY <4>2, <5>1, <5>3, <5>4, OnceAppend
            <4>10. Separate'
                BY <1>i, <2>4, <4>4, <4>6, <4>9 DEF SessionInv, Separate
            <4>11. Received'
                <5>1. \A m \in Elems(inbox) : m \in Messages
                    BY <1>0 DEF AppOK, Elems
                <5>2. \A m \in Elems(inbox) : Origin(m) \in peers' /\ SpentTag(m.tag)'
                    BY <1>i, <5>1, ReceivedStays DEF SessionInv, Received
                <5> QED BY <2>4, <5>2 DEF Received
            <4> QED BY <2>3, <3>5, <4>8, <4>10, <4>11 DEF SessionInv
        <3>7. CASE SaveFails(i, s) /\ call' = [call EXCEPT ![t] = Idle]
            <4>1. \A u \in Tasks : call'[u].op = "idle"
                BY <1>0, <1>idle, <2>3, <3>7
            <4>2. Silent
                BY <2>4, <4>1 DEF Silent
            <4>3. (\A j : Calm(j)) /\ Received' /\ Separate'
                BY <1>s, <4>2
            <4>4. StaysGood(i, s)
                <5> HIDE DEF i, c
                <5>1. Emitted' \subseteq Emitted \cup {MessageKey(i, Encrypted(c))}
                    BY <4>2, SilentEmits
                <5> QED BY <1>i, <2>2, <2>4, <3>1, <5>1, EmitGood DEF s
            <4>5. Placed'
                <5> HIDE DEF i, s
                <5> QED BY <1>0, <1>00, <1>i, <2>2, <3>2, <3>4, <4>3, <4>4, PutGood DEF SessionInv
            <4> QED BY <2>3, <3>5, <4>3, <4>5 DEF SessionInv
        <3> QED BY <3>3, <3>6, <3>7
    <2> QED BY <2>5, <2>6
<1>10. ASSUME NEW t \in Tasks, NEW m \in Sent, StartSession(t, m) PROVE SessionInv'
    <2> DEFINE s == [tag |-> m.tag, chain |-> Fresh, ident |-> me, sent |-> 0, seen |-> {m}]
    <2>1. /\ m \in Messages /\ m.from \in Ids /\ m.id \in PrekeyIds /\ m.tag \in Keys /\ m.key \in Keys
          /\ Origin(m) \in peers
        BY DEF Sent, Messages, Origin
    <2>2. /\ Fresh \in Keys /\ Fresh = used.keys + 1 /\ used'.keys = used.keys + 1 /\ used.keys \in Nat
          /\ me \in Keys
        BY <1>10, <1>0, Numbers DEF StartSession, Ready, Fresh, Counts, Keys, DiskOK
    <2>3. /\ call'[t] = [op |-> "proteus_decrypt", sid |-> m.from, msg |-> m, session |-> s]
          /\ \A u \in Tasks \ {t} : call'[u].op = "idle"
        BY <1>10, <1>0, <1>idle, EnterAlone, WriteLocks DEF StartSession, Ready, Writers
    <2>4. Silent /\ rows' = rows /\ store' = store /\ inbox' = inbox
        BY <1>10, <2>3 DEF StartSession, Silent, app
    <2>5. (\A j : Calm(j)) /\ Received' /\ Separate'
        BY <1>s, <2>4
    <2>6. Placed'
        <3>1. \A j \in Ids : /\ rows[j] # Absent => rows[j] \in Sessions /\ Good(j, rows[j])
                             /\ store.val[j] # Absent => store.val[j] \in Sessions /\ Good(j, store.val[j])
            BY <1>0, <1>i DEF DiskOK, CacheOK, SessionInv, Placed
        <3>2. \A j \in Ids : /\ rows[j] # Absent => StaysGood(j, rows[j])
                             /\ store.val[j] # Absent => StaysGood(j, store.val[j])
            BY <1>0, <1>00, <2>5, <3>1, CalmGood
        <3> QED BY <2>4, <3>2, PlacedNext
    <2>7. \A x \in Elems(inbox) : x.id # LastResort => x.tag # m.tag
        <3> SUFFICES ASSUME NEW x \in Elems(inbox), x.id # LastResort, x.tag = m.tag PROVE FALSE
            OBVIOUS
        <3>1. Origin(x) \in peers /\ SpentTag(x.tag)
            BY <1>i DEF SessionInv, Received
        <3>2. Origin(x) = Origin(m)
            BY <1>i, <2>1, <3>1 DEF KeysUsed, Origin
        <3>3. Origin(m).tag = m.tag /\ Origin(m).id = m.id /\ Origin(m).key = m.key /\ Origin(x).id = x.id
            BY DEF Origin
        <3>4. prekeys[m.id] # m.key
            BY <2>1, <3>1, <3>2, <3>3 DEF SpentTag
        <3> QED BY <1>10, <3>4 DEF StartSession
    <2>8. m.tag \in SpentTags'
        <3> SUFFICES ASSUME NEW p \in peers, p.tag = m.tag, p.id # LastResort PROVE prekeys'[p.id] # p.key
            BY <1>10, <2>1 DEF SpentTags, SpentTag, StartSession, app
        <3>1. p = Origin(m)
            BY <1>i, <2>1 DEF KeysUsed, Origin
        <3>2. p.id = m.id /\ p.key = m.key
            BY <3>1 DEF Origin
        <3>3. prekeys'[m.id] = 0
            BY <1>10, <1>0, <2>1, <3>2 DEF StartSession, DiskOK
        <3> QED BY <2>1, <3>2, <3>3, Numbers
    <2>9. StaysGood(m.from, s)
        <3>1. s.tag = m.tag /\ s.chain = Fresh /\ s.sent = 0
            OBVIOUS
        <3> HIDE DEF s
        <3>2. s.tag <= used'.keys /\ s.chain <= used'.keys
            <4>1. m.tag <= used.keys /\ m.tag \in Nat
                BY <1>i, <2>1, Numbers DEF KeysUsed, Origin, Keys
            <4> QED BY <2>2, <3>1, <4>1
        <3>3. \A k \in Emitted' : k[2] # s.chain
            <4>1. \A k \in Emitted' : k \in Emitted
                BY <2>4, SilentEmits
            <4>2. \A k \in Emitted : k[2] <= used.keys /\ k[2] \in Nat
                BY <1>i, EmittedTypes, Numbers DEF SessionInv, Separate, MessageKeys, Keys
            <4> QED BY <2>2, <3>1, <4>1, <4>2
        <3> QED BY <2>4, <2>7, <2>8, <3>1, <3>2, <3>3 DEF StaysGood, Fits
    <2>10. PendingOK(t)'
        <3>1. m.id # LastResort => m \notin Elems(inbox)
            BY <2>7
        <3>2. peers' = peers
            BY <1>10 DEF StartSession, app
        <3>3. m \in s.seen /\ m.tag = s.tag
            OBVIOUS
        <3> HIDE DEF s
        <3>4. call'[t].sid = m.from /\ call'[t].msg = m /\ call'[t].session = s
            BY <2>3
        <3>5. Good(call[t].sid, call[t].session)'
            BY <2>9, <3>4 DEF Good, StaysGood
        <3> QED BY <2>1, <2>4, <3>1, <3>2, <3>3, <3>4, <3>5 DEF PendingOK
    <2>11. \A u \in Tasks \ {t} : PendingOK(u)'
        BY <2>3 DEF PendingOK
    <2> QED BY <2>5, <2>6, <2>10, <2>11 DEF SessionInv
<1>11. ASSUME NEW t \in Tasks, FinishSession(t) PROVE SessionInv'
    <2> DEFINE m == call[t].msg
               s == call[t].session
    <2>1. call[t].sid \in Ids /\ s \in Sessions /\ m \in Messages
        BY <1>11, <1>0, CallShape DEF FinishSession
    <2>2. /\ Good(m.from, s) /\ m \in s.seen /\ m.from = call[t].sid /\ m.tag = s.tag /\ Origin(m) \in peers
          /\ m.id # LastResort => m \notin Elems(inbox)
        BY <1>11, <1>i DEF FinishSession, SessionInv, PendingOK
    <2>3. \/ SaveSession(m.from, s) /\ inbox' = Append(inbox, m)
          \/ SaveFails(m.from, s) /\ inbox' = inbox
        BY <1>11, <2>2 DEF FinishSession
    <2>4. \A u \in Tasks : call'[u].op = "idle"
        <3>1. call'[t].op = "idle" /\ \A u \in Tasks \ {t} : call'[u] = call[u]
            BY <1>11, <1>0, <1>idle DEF FinishSession
        <3> QED BY <1>11, <3>1, <1>only DEF FinishSession, Writers
    <2>5. outbox' = outbox
        BY <1>11 DEF FinishSession
    <2>6. Emitted' = Elems(outbox) /\ Batching' = {} /\ Emitted' \subseteq Emitted
        BY <2>4, <2>5 DEF Emitted, Batching
    <2> HIDE DEF m, s
    <2>7. Put(m.from, s)
        BY <1>0, <2>1, <2>2, <2>3, PutTypes
    <2>8. (\A j \in Ids \ {m.from} : Calm(j)) /\ StaysGood(m.from, s) /\ Received'
        <3>1. s.seen = s.seen \cup {m}
            BY <2>2
        <3> QED BY <1>i, <2>1, <2>2, <2>3, <2>6, <3>1, ReceiveGood
    <2>9. rows'[m.from] = s \/ Calm(m.from)
        <3>1. CASE SaveSession(m.from, s)
            BY <1>0, <2>1, <2>2, <3>1 DEF SaveSession, DiskOK
        <3>2. CASE inbox' = inbox
            BY <1>i, <2>6, <3>2, KeysStep DEF Calm
        <3> QED BY <2>3, <3>1, <3>2
    <2>10. Placed'
        BY <1>0, <1>00, <1>i, <2>1, <2>2, <2>7, <2>8, <2>9, PutGood DEF SessionInv
    <2>11. Separate'
        <3>1. used'.keys = used.keys
            BY <1>11, <1>0, CountTypes DEF FinishSession
        <3> QED BY <1>i, <2>5, <2>6, <3>1 DEF SessionInv, Separate
    <2>12. \A u \in Tasks : PendingOK(u)'
        BY <2>4 DEF PendingOK
    <2> QED BY <2>8, <2>10, <2>11, <2>12 DEF SessionInv
<1>16. ASSUME NEW i \in Ids, SessionFromPrekey(i) PROVE SessionInv'
    <2> DEFINE s == [tag |-> Fresh, chain |-> Fresh, ident |-> me, sent |-> 0, seen |-> {}]
               u == [used EXCEPT !.keys = Fresh]
    <2>1. me \in Keys /\ Fresh \in Keys /\ Fresh = used.keys + 1 /\ used.keys \in Nat
        BY <1>16, <1>0, Numbers DEF SessionFromPrekey, Ready, DiskOK, Fresh, Counts, Keys
    <2>2. s \in Sessions /\ s.tag = Fresh /\ s.chain = Fresh
        BY <2>1, SessionTypes
    <2>3. (SaveSession(i, s) \/ SaveFails(i, s)) /\ (used' = u \/ used' = CountFault(u))
        BY <1>16 DEF SessionFromPrekey
    <2>4. used'.keys = Fresh
        <3>1. u \in Counts /\ u.keys = Fresh
            BY <1>0, <2>1, CountTypes
        <3> HIDE DEF u
        <3> QED BY <2>3, <3>1, CountTypes
    <2> HIDE DEF s, u
    <2>5. Put(i, s)
        BY <1>0, <2>2, <2>3, PutTypes
    <2>6. Silent /\ call' = call /\ inbox' = inbox /\ peers' = peers
        BY <1>16 DEF SessionFromPrekey, Silent, app
    <2>7. (\A j : Calm(j)) /\ Received' /\ Separate' /\ \A t \in Tasks : PendingOK(t)'
        BY <1>s, <2>6
    <2>8. StaysGood(i, s)
        <3>1. s.tag \in SpentTags'
            <4>1. \A p \in peers : p.tag # Fresh
                BY <1>0, <1>i, <2>1, Numbers DEF KeysUsed, AppOK, Peers, Keys
            <4> QED BY <2>1, <2>2, <2>6, <4>1 DEF SpentTags, SpentTag
        <3>2. \A k \in Emitted' : k[2] # s.chain
            <4>1. \A k \in Emitted' : k \in Emitted
                BY <2>6, SilentEmits
            <4>2. \A k \in Emitted : k[2] <= used.keys /\ k[2] \in Nat
                BY <1>i, EmittedTypes, Numbers DEF SessionInv, Separate, MessageKeys, Keys
            <4> QED BY <2>1, <2>2, <4>1, <4>2
        <3>3. \A x \in Elems(inbox') : x.tag # s.tag
            <4>1. \A x \in Elems(inbox) : Origin(x) \in peers /\ x \in Messages
                BY <1>0, <1>i DEF SessionInv, Received, AppOK, Elems
            <4>2. \A x \in Elems(inbox) : x.tag <= used.keys /\ x.tag \in Nat
                <5> SUFFICES ASSUME NEW x \in Elems(inbox) PROVE x.tag <= used.keys /\ x.tag \in Nat
                    OBVIOUS
                <5>1. Origin(x).tag = x.tag
                    BY DEF Origin
                <5>2. Origin(x).tag <= used.keys
                    BY <1>i, <4>1 DEF KeysUsed
                <5>3. x.tag \in Keys
                    BY <4>1 DEF Messages
                <5> QED BY <5>1, <5>2, <5>3, Numbers DEF Keys
            <4> QED BY <2>1, <2>2, <2>6, <4>2
        <3>4. s.tag <= used'.keys /\ s.chain <= used'.keys
            BY <2>1, <2>2, <2>4
        <3> QED BY <3>1, <3>2, <3>3, <3>4 DEF StaysGood, Fits
    <2>9. Placed'
        BY <1>0, <1>00, <1>i, <2>2, <2>5, <2>7, <2>8, PutGood DEF SessionInv
    <2> QED BY <2>7, <2>9 DEF SessionInv
<1>17. ASSUME NEW i \in Ids, Encrypt(i) PROVE SessionInv'
    <2> DEFINE c == Current(i)
               s == Encrypted(c)
               e == MessageKey(i, s)
    <2>1. c \in Sessions /\ Good(i, c) /\ c.sent < MaxSent
        BY <1>17, <1>good DEF Encrypt
    <2>2. s \in Sessions
        BY <2>1, SessionTypes
    <2>3. \/ SaveSession(i, s) /\ outbox' = Append(outbox, e)
          \/ SaveFails(i, s) /\ outbox' = outbox
        BY <1>17 DEF Encrypt
    <2>4. call' = call /\ inbox' = inbox
        BY <1>17 DEF Encrypt
    <2>5. Batching = {} /\ Batching' = {} /\ \A t \in Tasks : PendingOK(t)'
        BY <1>17, <1>alone, <2>4, WriteLocks DEF Encrypt, Ready
    <2>6. Put(i, s)
        BY <1>0, <2>2, <2>3, PutTypes
    <2>7. Received'
        <3>1. \A m \in Elems(inbox) : m \in Messages
            BY <1>0 DEF AppOK, Elems
        <3>2. \A m \in Elems(inbox) : Origin(m) \in peers' /\ SpentTag(m.tag)'
            BY <1>i, <3>1, ReceivedStays DEF SessionInv, Received
        <3> QED BY <2>4, <3>2 DEF Received
    <2>8. CASE SaveSession(i, s) /\ outbox' = Append(outbox, e)
        <3>1. e \in MessageKeys
            <4>1. s.chain \in Keys /\ s.sent \in Nat
                BY <2>2, Numbers DEF Sessions
            <4> HIDE DEF s
            <4> QED BY <4>1 DEF MessageKey, MessageKeys
        <3> HIDE DEF e
        <3>2. Elems(outbox') = Elems(outbox) \cup {e}
            BY <1>0, <2>8, <3>1, ElemsAppend DEF AppOK
        <3>3. Emitted' \subseteq Emitted \cup {e} /\ Elems(outbox) \subseteq Emitted
            BY <2>5, <3>2 DEF Emitted
        <3>4. /\ e \notin Emitted
              /\ \A j \in Ids \ {i} : Calm(j)
              /\ StaysGood(i, s)
              /\ \A k \in Emitted' : k[2] <= used'.keys
            <4> HIDE DEF c
            <4>1. Emitted' \subseteq Emitted \cup {MessageKey(i, Encrypted(c))}
                BY <3>3 DEF e, s
            <4> QED BY <1>i, <2>1, <2>4, <4>1, EmitGood DEF e, s
        <3> HIDE DEF s
        <3>5. rows'[i] = s
            BY <1>0, <2>8 DEF SaveSession, DiskOK
        <3>6. Placed'
            BY <1>0, <1>00, <1>i, <2>2, <2>6, <3>4, <3>5, PutGood DEF SessionInv
        <3>7. Once(outbox')
            BY <1>0, <1>i, <2>8, <3>1, <3>3, <3>4, OnceAppend DEF AppOK, SessionInv, Separate
        <3>8. Separate'
            BY <2>5, <3>4, <3>7 DEF Separate
        <3> QED BY <2>5, <2>7, <3>6, <3>8 DEF SessionInv
    <2>9. CASE SaveFails(i, s) /\ outbox' = outbox
        <3>1. Silent
            BY <2>4, <2>9 DEF Silent
        <3>2. (\A j : Calm(j)) /\ Separate'
            BY <1>s, <3>1
        <3>3. StaysGood(i, s)
            <4> HIDE DEF c
            <4>1. Emitted' \subseteq Emitted \cup {MessageKey(i, Encrypted(c))}
                BY <3>1, SilentEmits
            <4> QED BY <1>i, <2>1, <2>4, <4>1, EmitGood DEF s
        <3> HIDE DEF s
        <3>4. Placed'
            BY <1>0, <1>00, <1>i, <2>2, <2>6, <3>2, <3>3, PutGood DEF SessionInv
        <3> QED BY <2>5, <2>7, <3>2, <3>4 DEF SessionInv
    <2> QED BY <2>3, <2>8, <2>9
<1>21. ASSUME NEW m \in Sent, Decrypt(m) PROVE SessionInv'
    <2> DEFINE c == Current(m.from)
               s == Seen(c, m)
    <2>1. m \in Messages /\ m.from \in Ids /\ Origin(m) \in peers
        BY DEF Sent, Messages, Origin
    <2>2. c \in Sessions /\ Good(m.from, c) /\ c.tag = m.tag
        BY <1>21, <1>good, <2>1 DEF Decrypt, Continues
    <2>3. /\ s \in Sessions /\ s.tag = c.tag /\ s.chain = c.chain /\ s.sent = c.sent
          /\ s.seen = c.seen \cup {m}
        BY <2>1, <2>2, SessionTypes
    <2>4. \/ SaveSession(m.from, s) /\ inbox' = Append(inbox, m)
          \/ SaveFails(m.from, s) /\ inbox' = inbox
        BY <1>21 DEF Decrypt
    <2>5. call' = call /\ outbox' = outbox
        BY <1>21 DEF Decrypt
    <2>6. Batching = {} /\ Batching' = {} /\ \A t \in Tasks : PendingOK(t)'
        BY <1>21, <1>alone, <2>5, WriteLocks DEF Decrypt, Ready, Writers
    <2>7. Emitted' = Emitted
        BY <2>5, <2>6 DEF Emitted
    <2> HIDE DEF c, s
    <2>8. Put(m.from, s)
        BY <1>0, <2>1, <2>3, <2>4, PutTypes
    <2>9. (\A j \in Ids \ {m.from} : Calm(j)) /\ StaysGood(m.from, s) /\ Received'
        BY <1>i, <2>1, <2>2, <2>3, <2>4, <2>7, ReceiveGood
    <2>10. rows'[m.from] = s \/ Calm(m.from)
        <3>1. CASE SaveSession(m.from, s)
            BY <1>0, <2>1, <3>1 DEF SaveSession, DiskOK
        <3>2. CASE inbox' = inbox
            BY <1>i, <2>7, <3>2, KeysStep DEF Calm
        <3> QED BY <2>4, <3>1, <3>2
    <2>11. Placed'
        BY <1>0, <1>00, <1>i, <2>1, <2>3, <2>8, <2>9, <2>10, PutGood DEF SessionInv
    <2>12. Separate'
        <3>1. used'.keys = used.keys
            BY <1>21, <1>0, CountTypes DEF Decrypt
        <3> QED BY <1>i, <2>5, <2>6, <2>7, <3>1 DEF SessionInv, Separate
    <2> QED BY <2>6, <2>9, <2>11, <2>12 DEF SessionInv
<1> QED
    BY <1>1, <1>2, <1>3, <1>4, <1>5, <1>6, <1>7, <1>8, <1>9, <1>10, <1>11, <1>12, <1>13, <1>15, <1>16, <1>17,
       <1>18, <1>19, <1>20, <1>21, <1>22, <1>23, <1>24, <1>25, <1>26 DEF ProteusNext

-----------------------------------------------------------------------------
(* The refinement                                                          *)

\* The invariant is inductive.
LEMMA ContractStep ==
    ASSUME ProteusTypeOK, ContractInv, [ProteusNext]_vars
    PROVE  ContractInv'
<1>1. Alone' /\ BoxFirst' /\ KeysUsed' /\ SessionInv'
    BY AloneStep, BoxStep, KeysStep, SessionStep DEF ContractInv
<1> QED BY <1>1 DEF ContractInv, SessionInv

\* Nothing has been handed out or over, and only the key of the Cryptobox is drawn.
LEMMA ContractInit == ASSUME ProteusInit PROVE ContractInv
<1>1. \A t \in Tasks : call[t] = Idle /\ call[t].op = "idle"
    BY DEF ProteusInit, Idle
<1>2. Batching = {} /\ outbox = << >> /\ inbox = << >>
    BY <1>1 DEF Batching, ProteusInit
<1>3. Emitted = {} /\ Elems(inbox) = {} /\ Once(outbox)
    BY <1>2, EmptyElems DEF Emitted
<1>4. Alone /\ BoxFirst
    BY <1>1, <1>2 DEF Alone, BoxFirst, Writers, ProteusInit
<1>5. KeysUsed
    BY DEF KeysUsed, ProteusInit, BoxKey
<1>6. Placed
    BY EmptyCache DEF Placed, ProteusInit
<1>7. Received /\ Separate /\ \A t \in Tasks : PendingOK(t)
    BY <1>1, <1>2, <1>3 DEF Received, Separate, PendingOK
<1> QED BY <1>4, <1>5, <1>6, <1>7 DEF ContractInv

\* Ciphertexts are handed out: an extension without repetition.
LEMMA SendStep ==
    ASSUME outbox \in Seq(MessageKeys), NEW d \in Seq(MessageKeys), d # << >>,
           outbox' = outbox \o d, Once(outbox'), inbox' = inbox
    PROVE  Contract!Send
<1>1. /\ Len(outbox) \in Nat /\ Len(d) \in Nat /\ Len(d) > 0
      /\ outbox' \in Seq(MessageKeys) /\ Len(outbox') = Len(outbox) + Len(d)
    <2>1. Len(d) # 0 /\ Len(d) \in Nat /\ Len(outbox) \in Nat
        BY EmptySeq, LenProperties
    <2> QED BY <2>1, ConcatProperties
<1>2. SubSeq(outbox', 1, Len(outbox)) = outbox
    <2>1. CASE Len(outbox) = 0
        <3>1. outbox = << >>
            BY <2>1, EmptySeq
        <3>2. SubSeq(outbox', 1, Len(outbox)) = << >>
            BY <2>1, SubSeqEmpty
        <3> QED BY <3>1, <3>2
    <2>2. CASE Len(outbox) # 0
        <3>1. 1 \in 1 .. Len(outbox) /\ Len(outbox) \in 1 .. Len(outbox)
            BY <1>1, <2>2
        <3>2. SubSeq(outbox \o d, 1, Len(outbox)) = SubSeq(outbox, 1, Len(outbox))
            BY <3>1, SubSeqOfConcat1
        <3> QED BY <3>2, SubSeqFull
    <2> QED BY <2>1, <2>2
<1>3. Contract!Distinct(outbox')
    <2>1. DOMAIN outbox' = 1 .. Len(outbox')
        BY <1>1, LenProperties
    <2> QED BY <2>1 DEF Contract!Distinct, Once
<1>4. Len(outbox') > Len(outbox)
    BY <1>1
<1> QED BY <1>2, <1>3, <1>4 DEF Contract!Send

\* A message is handed over that was not before, or can be replayed.
LEMMA ReceiveStep ==
    ASSUME inbox \in Seq(Messages), NEW m \in Messages, inbox' = Append(inbox, m),
           m.id # LastResort => m \notin Elems(inbox), outbox' = outbox
    PROVE  Contract!Receive
<1>1. Len(inbox') = Len(inbox) + 1 /\ inbox'[Len(inbox')] = m
    BY AppendProperties
<1>2. Contract!Range(inbox) = Elems(inbox)
    BY LenProperties DEF Contract!Range, Elems
<1> QED BY <1>1, <1>2 DEF Contract!Receive, LastResortMessage

\* Every step of the client is a step of the contract or changes neither sequence.
LEMMA RefinementStep ==
    ASSUME ProteusTypeOK, ContractInv, [ProteusNext]_vars
    PROVE  [Contract!Send \/ Contract!Receive]_<<outbox, inbox>>
<1> DEFINE P == Contract!Send \/ Contract!Receive \/ (outbox' = outbox /\ inbox' = inbox)
<1>0. DiskOK /\ AppOK /\ CacheOK(store) /\ call \in [Tasks -> Calls]
    BY TypeParts
<1>i. Placed /\ (\A t \in Tasks : PendingOK(t)) /\ Separate /\ Once(outbox')
    BY ContractStep DEF ContractInv, Separate
<1>t. outbox \in Seq(MessageKeys) /\ inbox \in Seq(Messages)
    BY <1>0 DEF AppOK
<1>1. ASSUME NEW t \in Tasks, FinishBatch(t) PROVE P
    <2>1. call[t].done \in Seq(MessageKeys)
        BY <1>1, EmittedTypes DEF FinishBatch, Batching
    <2>2. outbox' = outbox \o call[t].done /\ inbox' = inbox
        BY <1>1 DEF FinishBatch
    <2>3. CASE call[t].done = << >>
        BY <1>t, <2>2, <2>3, EmptyElems
    <2>4. CASE call[t].done # << >>
        BY <1>i, <1>t, <2>1, <2>2, <2>4, SendStep
    <2> QED BY <2>3, <2>4
<1>2. ASSUME NEW t \in Tasks, FinishSession(t) PROVE P
    <2>1. outbox' = outbox /\ (inbox' = inbox \/ inbox' = Append(inbox, call[t].msg))
        BY <1>2 DEF FinishSession
    <2>2. call[t].op = "proteus_decrypt" /\ call[t].msg \in Messages
        BY <1>2, <1>0, CallShape DEF FinishSession
    <2>3. call[t].msg.id # LastResort => call[t].msg \notin Elems(inbox)
        BY <1>i, <2>2 DEF PendingOK
    <2> QED BY <1>t, <2>1, <2>2, <2>3, ReceiveStep
<1>3. ASSUME NEW i \in Ids, Encrypt(i) PROVE P
    <2> DEFINE c == Current(i)
               s == Encrypted(c)
               e == MessageKey(i, s)
    <2>1. inbox' = inbox /\ (outbox' = outbox \/ outbox' = Append(outbox, e))
        BY <1>3 DEF Encrypt
    <2>2. e \in MessageKeys
        <3>1. c \in Sessions /\ c.sent < MaxSent
            BY <1>3, <1>0, CurrentType DEF Encrypt
        <3>2. s \in Sessions
            BY <3>1, SessionTypes
        <3>3. s.chain \in Keys /\ s.sent \in Nat
            BY <3>2, Numbers DEF Sessions
        <3> HIDE DEF s
        <3> QED BY <3>3 DEF MessageKey, MessageKeys
    <2> HIDE DEF e
    <2>3. CASE outbox' = Append(outbox, e)
        <3>1. <<e>> \in Seq(MessageKeys) /\ <<e>> # << >>
            BY <2>2
        <3>2. outbox' = outbox \o <<e>>
            BY <1>t, <2>2, <2>3, AppendIsConcat
        <3> QED BY <1>i, <1>t, <2>1, <3>1, <3>2, SendStep
    <2> QED BY <2>1, <2>3
<1>4. ASSUME NEW m \in Sent, Decrypt(m) PROVE P
    <2>1. outbox' = outbox /\ (inbox' = inbox \/ inbox' = Append(inbox, m))
        BY <1>4 DEF Decrypt
    <2>2. m \in Messages /\ m.from \in Ids
        BY DEF Sent, Messages
    <2>3. m.id # LastResort => m \notin Elems(inbox)
        <3> DEFINE c == Current(m.from)
        <3>1. c # Absent /\ c.tag = m.tag /\ m \notin c.seen
            BY <1>4 DEF Decrypt, Continues
        <3>2. Good(m.from, c)
            BY <1>i, <2>2, <3>1 DEF Current, Lookup, Holds, Placed
        <3> HIDE DEF c
        <3> QED BY <3>1, <3>2 DEF Good, Fits
    <2> QED BY <1>t, <2>1, <2>2, <2>3, ReceiveStep
<1>5. ASSUME NEW t \in Tasks PROVE
        /\ StartInit(t) \/ FinishInit(t) \/ MigrateIdentity(t) \/ FinishMigration(t) => P
        /\ BatchStep(t) \/ NewPrekeyAuto(t) \/ SavePrekey(t) \/ CallFails(t) => P
        /\ \A i : MigrateSession(t, i) \/ MigratePrekey(t, i) \/ StartBatch(t, i) \/ StartSession(t, i) => P
    BY DEF StartInit, FinishInit, MigrateIdentity, FinishMigration, BatchStep,
           NewPrekeyAuto, SavePrekey, CallFails, MigrateSession, MigratePrekey, StartBatch, StartSession, app
<1>6. \A i : SessionFromPrekey(i) \/ SaveExplicitly(i) \/ Touch(i) \/ SessionDelete(i) \/ NewPrekey(i) => P
    BY DEF SessionFromPrekey, SaveExplicitly, Touch, SessionDelete, NewPrekey, app
<1>7. (\A i, b : PeerStarts(i, b) => P) /\ (ReloadSessions \/ LastResortPrekey \/ Crash => P)
    BY DEF PeerStarts, ReloadSessions, LastResortPrekey, Crash, app
<1>8. CASE UNCHANGED vars
    BY <1>8 DEF vars
<1>9. P
    BY <1>1, <1>2, <1>3, <1>4, <1>5, <1>6, <1>7, <1>8 DEF ProteusNext
<1> QED BY <1>9

\* On both platforms the sessions keep their contract (encrypt,
\* encrypt_batched, decrypt, session_from_message, session_save_by_ref): whatever
\* is evicted, reloaded, left unsaved by a failing keystore or lost in a crash, no
\* message key is handed out twice and no message of a one-time prekey is handed
\* over twice.
THEOREM SessionsHonourContract == ProteusSpec => SessionsKeepContract
<1>1. ProteusInit => ContractInv
    BY ContractInit
<1>2. ProteusTypeOK /\ ContractInv /\ [ProteusNext]_vars => ContractInv'
    BY ContractStep
<1>3. ProteusInit => Contract!Init
    BY DEF ProteusInit, Contract!Init
<1>4. ProteusTypeOK /\ ContractInv /\ [ProteusNext]_vars => [Contract!Send \/ Contract!Receive]_<<outbox, inbox>>
    BY RefinementStep
<1> QED BY <1>1, <1>2, <1>3, <1>4, ProteusTypeCorrect, PTL DEF ProteusSpec, SessionsKeepContract, Contract!Spec

=============================================================================
