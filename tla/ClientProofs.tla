---------------------------- MODULE ClientProofs ----------------------------
(***************************************************************************)
(* Theorems about Client: the types of what it stores and holds, and that  *)
(* a key package keeps its private keys, on either platform and for any    *)
(* number of schemes; and, on SQLCipher with one scheme, that the client   *)
(* can sign, restart and be invited whatever calls and crashes came        *)
(* before.                                                                 *)
(*                                                                         *)
(* A call is a trail of stores.  The unfolding lemmas give each recursive  *)
(* trail write by write; a lemma per trail then says what every store in   *)
(* it has, so that a crash after any write is covered.                     *)
(***************************************************************************)
EXTENDS Client, KeystoreProofs

-----------------------------------------------------------------------------
(* The recursive functions, unfolded.                                      *)

\* The trail of SaveIdentities, write by write.
LEMMA SaveUnfold ==
    ASSUME NEW st, NEW B, NEW bs \in Seq(B)
    PROVE  \E f : /\ f[0] = st
                  /\ \A n \in 0 .. (2 * Len(bs) - 1) :
                        f[n + 1] = (IF (n + 1) % 2 = 1 THEN SaveCredential(f[n], bs[((n + 1) + 1) \div 2]) ELSE SaveKeyPair(f[n], bs[(n + 1) \div 2]))
                  /\ SaveIdentities(st, bs) = [n \in 1 .. 2 * Len(bs) |-> f[n]]
<1> DEFINE Step(p, n) == (IF (n) % 2 = 1 THEN SaveCredential(p, bs[((n) + 1) \div 2]) ELSE SaveKeyPair(p, bs[(n) \div 2]))
           Is(g, k) == g = [n \in 0 .. k |-> IF n = 0 THEN st ELSE Step(g[n - 1], n)]
           T == {k \in Nat : \E g : Is(g, k)}
           after[n \in 0 .. 2 * Len(bs)] == IF n = 0 THEN st ELSE Step(after[n - 1], n)
<1>1. 2 * Len(bs) \in Nat
    OBVIOUS
<1>2. 0 \in T
    <2>1. Is([n \in 0 .. 0 |-> st], 0)
        OBVIOUS
    <2> QED BY <2>1
<1>3. ASSUME NEW k \in Nat, k \in T PROVE k + 1 \in T
    <2>1. PICK g : Is(g, k)
        BY <1>3
    <2> DEFINE h == [n \in 0 .. k + 1 |-> IF n = k + 1 THEN Step(g[k], k + 1) ELSE g[n]]
    <2>2. ASSUME NEW n \in 0 .. k + 1
          PROVE  h[n] = IF n = 0 THEN st ELSE Step(h[n - 1], n)
        <3>1. CASE n = 0
            BY <2>1, <3>1
        <3>2. CASE n = k + 1
            <4>1. k \in 0 .. k + 1 /\ k # k + 1 /\ n # 0 /\ n - 1 = k
                BY <3>2
            <4> QED BY <3>2, <4>1
        <3>3. CASE n # 0 /\ n # k + 1
            <4>1. n \in 0 .. k /\ n - 1 \in 0 .. k
                BY <3>3
            <4>2. h[n] = g[n] /\ h[n - 1] = g[n - 1]
                BY <4>1, <3>3
            <4>3. g[n] = Step(g[n - 1], n)
                BY <4>1, <3>3, <2>1
            <4> HIDE DEF h, Step
            <4> QED BY <4>2, <4>3, <3>3
        <3> QED BY <3>1, <3>2, <3>3
    <2>3. Is(h, k + 1)
        BY <2>2
    <2> HIDE DEF h, Is
    <2> QED BY <2>3
<1>4. 2 * Len(bs) \in T
    <2> HIDE DEF T
    <2>1. Nat \subseteq T
        BY <1>2, <1>3, NatSetInduction
    <2> QED BY <1>1, <2>1
<1>5. Is(after, 2 * Len(bs))
    BY <1>4
<1>6. SaveIdentities(st, bs) = [n \in 1 .. 2 * Len(bs) |-> after[n]]
    BY DEF SaveIdentities
<1> HIDE DEF after
<1>7. after[0] = st
    BY <1>1, <1>5
<1>8. ASSUME NEW n \in 0 .. (2 * Len(bs) - 1)
      PROVE  after[n + 1] = Step(after[n], n + 1)
    <2>1. n + 1 \in 0 .. 2 * Len(bs) /\ n + 1 # 0 /\ (n + 1) - 1 = n
        BY <1>1
    <2> QED BY <1>5, <2>1
<1> QED BY <1>6, <1>7, <1>8

\* The trail of generate_new_keypackages, write by write.
GenerateSteps(f, st, first, sc, b, count) ==
    /\ f[0] = st
    /\ \A n \in 0 .. (3 * count - 1) :
          f[n + 1] = AddKeyPackage(f[n], first + (((n + 1) - 1) \div 3), sc, b, (((n + 1) - 1) % 3) + 1)
    /\ GenerateKeyPackages(st, first, sc, b, count) = [n \in 1 .. 3 * count |-> f[n]]

\* The trail of GenerateKeyPackages.
LEMMA GenerateUnfold ==
    ASSUME NEW st, NEW first, NEW sc, NEW b, NEW count \in Nat
    PROVE  \E f : GenerateSteps(f, st, first, sc, b, count)
<1> DEFINE Step(p, n) == AddKeyPackage(p, first + ((n - 1) \div 3), sc, b, ((n - 1) % 3) + 1)
           Is(g, k) == g = [n \in 0 .. k |-> IF n = 0 THEN st ELSE Step(g[n - 1], n)]
           T == {k \in Nat : \E g : Is(g, k)}
           after[n \in 0 .. 3 * count] == IF n = 0 THEN st ELSE Step(after[n - 1], n)
<1>1. 3 * count \in Nat
    OBVIOUS
<1>2. 0 \in T
    <2>1. Is([n \in 0 .. 0 |-> st], 0)
        OBVIOUS
    <2> QED BY <2>1
<1>3. ASSUME NEW k \in Nat, k \in T PROVE k + 1 \in T
    <2>1. PICK g : Is(g, k)
        BY <1>3
    <2> DEFINE h == [n \in 0 .. k + 1 |-> IF n = k + 1 THEN Step(g[k], k + 1) ELSE g[n]]
    <2>2. ASSUME NEW n \in 0 .. k + 1
          PROVE  h[n] = IF n = 0 THEN st ELSE Step(h[n - 1], n)
        <3>1. CASE n = 0
            BY <2>1, <3>1
        <3>2. CASE n = k + 1
            <4>1. k \in 0 .. k + 1 /\ k # k + 1 /\ n # 0 /\ n - 1 = k
                BY <3>2
            <4> QED BY <3>2, <4>1
        <3>3. CASE n # 0 /\ n # k + 1
            <4>1. n \in 0 .. k /\ n - 1 \in 0 .. k
                BY <3>3
            <4>2. h[n] = g[n] /\ h[n - 1] = g[n - 1]
                BY <4>1, <3>3
            <4>3. g[n] = Step(g[n - 1], n)
                BY <4>1, <3>3, <2>1
            <4> HIDE DEF h, Step
            <4> QED BY <4>2, <4>3, <3>3
        <3> QED BY <3>1, <3>2, <3>3
    <2>3. Is(h, k + 1)
        BY <2>2
    <2> HIDE DEF h, Is
    <2> QED BY <2>3
<1>4. 3 * count \in T
    <2> HIDE DEF T
    <2>1. Nat \subseteq T
        BY <1>2, <1>3, NatSetInduction
    <2> QED BY <1>1, <2>1
<1>5. Is(after, 3 * count)
    BY <1>4
<1>6. GenerateKeyPackages(st, first, sc, b, count) = [n \in 1 .. 3 * count |-> after[n]]
    BY DEF GenerateKeyPackages
<1> HIDE DEF after
<1>7. after[0] = st
    BY <1>1, <1>5
<1>8. ASSUME NEW n \in 0 .. (3 * count - 1)
      PROVE  after[n + 1] = Step(after[n], n + 1)
    <2>1. n + 1 \in 0 .. 3 * count /\ n + 1 # 0 /\ (n + 1) - 1 = n
        BY <1>1
    <2> QED BY <1>5, <2>1
<1>9. GenerateSteps(after, st, first, sc, b, count)
    BY <1>6, <1>7, <1>8 DEF GenerateSteps
<1> QED BY <1>9

\* The trail of _prune_keypackages, deletion by deletion.
PruneSteps(f, st, refs) ==
    /\ f[0] = st
    /\ \A n \in 0 .. (3 * Len(Doomed(st, refs)) - 1) :
          f[n + 1] = IF \E m \in 1 .. (n + 1) : Refused(st, Doomed(st, refs), m) THEN f[n]
                     ELSE DeleteKeyPackage(f[n], Doomed(st, refs)[(((n + 1) - 1) \div 3) + 1], (((n + 1) - 1) % 3) + 1)
    /\ Prune(st, refs) = [n \in 1 .. 3 * Len(Doomed(st, refs)) |-> f[n]]

\* The trail of Prune.
LEMMA PruneUnfold ==
    ASSUME NEW st, NEW refs, NEW S, Doomed(st, refs) \in Seq(S)
    PROVE  \E f : PruneSteps(f, st, refs)
<1> DEFINE Step(p, n) == IF \E m \in 1 .. n : Refused(st, Doomed(st, refs), m) THEN p
                         ELSE DeleteKeyPackage(p, Doomed(st, refs)[((n - 1) \div 3) + 1], ((n - 1) % 3) + 1)
           Is(g, k) == g = [n \in 0 .. k |-> IF n = 0 THEN st ELSE Step(g[n - 1], n)]
           T == {k \in Nat : \E g : Is(g, k)}
           after[n \in 0 .. 3 * Len(Doomed(st, refs))] == IF n = 0 THEN st ELSE Step(after[n - 1], n)
<1>1. 3 * Len(Doomed(st, refs)) \in Nat
    OBVIOUS
<1>2. 0 \in T
    <2>1. Is([n \in 0 .. 0 |-> st], 0)
        OBVIOUS
    <2> QED BY <2>1
<1>3. ASSUME NEW k \in Nat, k \in T PROVE k + 1 \in T
    <2>1. PICK g : Is(g, k)
        BY <1>3
    <2> DEFINE h == [n \in 0 .. k + 1 |-> IF n = k + 1 THEN Step(g[k], k + 1) ELSE g[n]]
    <2>2. ASSUME NEW n \in 0 .. k + 1
          PROVE  h[n] = IF n = 0 THEN st ELSE Step(h[n - 1], n)
        <3>1. CASE n = 0
            BY <2>1, <3>1
        <3>2. CASE n = k + 1
            <4>1. k \in 0 .. k + 1 /\ k # k + 1 /\ n # 0 /\ n - 1 = k
                BY <3>2
            <4> QED BY <3>2, <4>1
        <3>3. CASE n # 0 /\ n # k + 1
            <4>1. n \in 0 .. k /\ n - 1 \in 0 .. k
                BY <3>3
            <4>2. h[n] = g[n] /\ h[n - 1] = g[n - 1]
                BY <4>1, <3>3
            <4>3. g[n] = Step(g[n - 1], n)
                BY <4>1, <3>3, <2>1
            <4> HIDE DEF h, Step
            <4> QED BY <4>2, <4>3, <3>3
        <3> QED BY <3>1, <3>2, <3>3
    <2>3. Is(h, k + 1)
        BY <2>2
    <2> HIDE DEF h, Is
    <2> QED BY <2>3
<1>4. 3 * Len(Doomed(st, refs)) \in T
    <2> HIDE DEF T
    <2>1. Nat \subseteq T
        BY <1>2, <1>3, NatSetInduction
    <2> QED BY <1>1, <2>1
<1>5. Is(after, 3 * Len(Doomed(st, refs)))
    BY <1>4
<1>6. Prune(st, refs) = [n \in 1 .. 3 * Len(Doomed(st, refs)) |-> after[n]]
    BY DEF Prune
<1> HIDE DEF after
<1>7. after[0] = st
    BY <1>1, <1>5
<1>8. ASSUME NEW n \in 0 .. (3 * Len(Doomed(st, refs)) - 1)
      PROVE  after[n + 1] = Step(after[n], n + 1)
    <2>1. n + 1 \in 0 .. 3 * Len(Doomed(st, refs)) /\ n + 1 # 0 /\ (n + 1) - 1 = n
        BY <1>1
    <2> QED BY <1>5, <2>1
<1>9. PruneSteps(after, st, refs)
    BY <1>6, <1>7, <1>8 DEF PruneSteps
<1> QED BY <1>9

\* The trail of generate_raw_keypairs, scheme by scheme.
RawSteps(f, st, order, first) ==
    /\ f[0] = st
    /\ \A n \in 0 .. (Len(order) - 1) :
          f[n + 1] = [f[n] EXCEPT !.keys = Save(KeyPairTable, @, first + (n + 1) - 1, [scheme |-> order[n + 1], owner |-> Temporary]).rows]
    /\ RawKeypairs(st, order, first) = [n \in 1 .. Len(order) |-> f[n]]

\* The trail of RawKeypairs.
LEMMA RawUnfold ==
    ASSUME NEW st, NEW S, NEW order \in Seq(S), NEW first
    PROVE  \E f : RawSteps(f, st, order, first)
<1> DEFINE Step(p, n) == [p EXCEPT !.keys = Save(KeyPairTable, @, first + (n) - 1, [scheme |-> order[n], owner |-> Temporary]).rows]
           Is(g, k) == g = [n \in 0 .. k |-> IF n = 0 THEN st ELSE Step(g[n - 1], n)]
           T == {k \in Nat : \E g : Is(g, k)}
           after[n \in 0 .. Len(order)] == IF n = 0 THEN st ELSE Step(after[n - 1], n)
<1>1. Len(order) \in Nat
    OBVIOUS
<1>2. 0 \in T
    <2>1. Is([n \in 0 .. 0 |-> st], 0)
        OBVIOUS
    <2> QED BY <2>1
<1>3. ASSUME NEW k \in Nat, k \in T PROVE k + 1 \in T
    <2>1. PICK g : Is(g, k)
        BY <1>3
    <2> DEFINE h == [n \in 0 .. k + 1 |-> IF n = k + 1 THEN Step(g[k], k + 1) ELSE g[n]]
    <2>2. ASSUME NEW n \in 0 .. k + 1
          PROVE  h[n] = IF n = 0 THEN st ELSE Step(h[n - 1], n)
        <3>1. CASE n = 0
            BY <2>1, <3>1
        <3>2. CASE n = k + 1
            <4>1. k \in 0 .. k + 1 /\ k # k + 1 /\ n # 0 /\ n - 1 = k
                BY <3>2
            <4> QED BY <3>2, <4>1
        <3>3. CASE n # 0 /\ n # k + 1
            <4>1. n \in 0 .. k /\ n - 1 \in 0 .. k
                BY <3>3
            <4>2. h[n] = g[n] /\ h[n - 1] = g[n - 1]
                BY <4>1, <3>3
            <4>3. g[n] = Step(g[n - 1], n)
                BY <4>1, <3>3, <2>1
            <4> HIDE DEF h, Step
            <4> QED BY <4>2, <4>3, <3>3
        <3> QED BY <3>1, <3>2, <3>3
    <2>3. Is(h, k + 1)
        BY <2>2
    <2> HIDE DEF h, Is
    <2> QED BY <2>3
<1>4. Len(order) \in T
    <2> HIDE DEF T
    <2>1. Nat \subseteq T
        BY <1>2, <1>3, NatSetInduction
    <2> QED BY <1>1, <2>1
<1>5. Is(after, Len(order))
    BY <1>4
<1>6. RawKeypairs(st, order, first) = [n \in 1 .. Len(order) |-> after[n]]
    BY DEF RawKeypairs
<1> HIDE DEF after
<1>7. after[0] = st
    BY <1>1, <1>5
<1>8. ASSUME NEW n \in 0 .. (Len(order) - 1)
      PROVE  after[n + 1] = Step(after[n], n + 1)
    <2>1. n + 1 \in 0 .. Len(order) /\ n + 1 # 0 /\ (n + 1) - 1 = n
        BY <1>1
    <2> QED BY <1>5, <2>1
<1>9. RawSteps(after, st, order, first)
    BY <1>6, <1>7, <1>8 DEF RawSteps
<1> QED BY <1>9

\* The trail of init_with_external_client_id, key pair by key pair.
AdoptSteps(f, st, tmp) ==
    /\ f[0] = << >>
    /\ \A n \in 0 .. (Len(tmp) - 1) :
          f[n + 1] = f[n] \o AdoptKeypair(EndOf(st, f[n]), tmp[n + 1])
    /\ AdoptKeypairs(st, tmp) = f[Len(tmp)]

\* The trail of AdoptKeypairs.
LEMMA AdoptUnfold ==
    ASSUME NEW st, NEW S, NEW tmp \in Seq(S)
    PROVE  \E f : AdoptSteps(f, st, tmp)
<1> DEFINE Step(p, n) == p \o AdoptKeypair(EndOf(st, p), tmp[n])
           Is(g, k) == g = [n \in 0 .. k |-> IF n = 0 THEN << >> ELSE Step(g[n - 1], n)]
           T == {k \in Nat : \E g : Is(g, k)}
           after[n \in 0 .. Len(tmp)] == IF n = 0 THEN << >> ELSE Step(after[n - 1], n)
<1>1. Len(tmp) \in Nat
    OBVIOUS
<1>2. 0 \in T
    <2>1. Is([n \in 0 .. 0 |-> << >>], 0)
        OBVIOUS
    <2> QED BY <2>1
<1>3. ASSUME NEW k \in Nat, k \in T PROVE k + 1 \in T
    <2>1. PICK g : Is(g, k)
        BY <1>3
    <2> DEFINE h == [n \in 0 .. k + 1 |-> IF n = k + 1 THEN Step(g[k], k + 1) ELSE g[n]]
    <2>2. ASSUME NEW n \in 0 .. k + 1
          PROVE  h[n] = IF n = 0 THEN << >> ELSE Step(h[n - 1], n)
        <3>1. CASE n = 0
            BY <2>1, <3>1
        <3>2. CASE n = k + 1
            <4>1. k \in 0 .. k + 1 /\ k # k + 1 /\ n # 0 /\ n - 1 = k
                BY <3>2
            <4> QED BY <3>2, <4>1
        <3>3. CASE n # 0 /\ n # k + 1
            <4>1. n \in 0 .. k /\ n - 1 \in 0 .. k
                BY <3>3
            <4>2. h[n] = g[n] /\ h[n - 1] = g[n - 1]
                BY <4>1, <3>3
            <4>3. g[n] = Step(g[n - 1], n)
                BY <4>1, <3>3, <2>1
            <4> HIDE DEF h, Step
            <4> QED BY <4>2, <4>3, <3>3
        <3> QED BY <3>1, <3>2, <3>3
    <2>3. Is(h, k + 1)
        BY <2>2
    <2> HIDE DEF h, Is
    <2> QED BY <2>3
<1>4. Len(tmp) \in T
    <2> HIDE DEF T
    <2>1. Nat \subseteq T
        BY <1>2, <1>3, NatSetInduction
    <2> QED BY <1>1, <2>1
<1>5. Is(after, Len(tmp))
    BY <1>4
<1>6. AdoptKeypairs(st, tmp) = after[Len(tmp)]
    BY DEF AdoptKeypairs
<1> HIDE DEF after
<1>7. after[0] = << >>
    BY <1>1, <1>5
<1>8. ASSUME NEW n \in 0 .. (Len(tmp) - 1)
      PROVE  after[n + 1] = Step(after[n], n + 1)
    <2>1. n + 1 \in 0 .. Len(tmp) /\ n + 1 # 0 /\ (n + 1) - 1 = n
        BY <1>1
    <2> QED BY <1>5, <2>1
<1>9. AdoptSteps(after, st, tmp)
    BY <1>6, <1>7, <1>8 DEF AdoptSteps
<1> QED BY <1>9

\* The trail of the commits of a rotation, conversation by conversation.
RotateSteps(f, st, order, leaf) ==
    /\ f[0] = st
    /\ \A n \in 0 .. (Len(order) - 1) :
          f[n + 1] = SetGroup(f[n], order[n + 1], [st.groups[order[n + 1]] EXCEPT !.pending = leaf])
    /\ RotateGroups(st, order, leaf) = [n \in 1 .. Len(order) |-> f[n]]

\* The trail of RotateGroups.
LEMMA RotateUnfold ==
    ASSUME NEW st, NEW S, NEW order \in Seq(S), NEW leaf
    PROVE  \E f : RotateSteps(f, st, order, leaf)
<1> DEFINE Step(p, n) == SetGroup(p, order[n], [st.groups[order[n]] EXCEPT !.pending = leaf])
           Is(g, k) == g = [n \in 0 .. k |-> IF n = 0 THEN st ELSE Step(g[n - 1], n)]
           T == {k \in Nat : \E g : Is(g, k)}
           after[n \in 0 .. Len(order)] == IF n = 0 THEN st ELSE Step(after[n - 1], n)
<1>1. Len(order) \in Nat
    OBVIOUS
<1>2. 0 \in T
    <2>1. Is([n \in 0 .. 0 |-> st], 0)
        OBVIOUS
    <2> QED BY <2>1
<1>3. ASSUME NEW k \in Nat, k \in T PROVE k + 1 \in T
    <2>1. PICK g : Is(g, k)
        BY <1>3
    <2> DEFINE h == [n \in 0 .. k + 1 |-> IF n = k + 1 THEN Step(g[k], k + 1) ELSE g[n]]
    <2>2. ASSUME NEW n \in 0 .. k + 1
          PROVE  h[n] = IF n = 0 THEN st ELSE Step(h[n - 1], n)
        <3>1. CASE n = 0
            BY <2>1, <3>1
        <3>2. CASE n = k + 1
            <4>1. k \in 0 .. k + 1 /\ k # k + 1 /\ n # 0 /\ n - 1 = k
                BY <3>2
            <4> QED BY <3>2, <4>1
        <3>3. CASE n # 0 /\ n # k + 1
            <4>1. n \in 0 .. k /\ n - 1 \in 0 .. k
                BY <3>3
            <4>2. h[n] = g[n] /\ h[n - 1] = g[n - 1]
                BY <4>1, <3>3
            <4>3. g[n] = Step(g[n - 1], n)
                BY <4>1, <3>3, <2>1
            <4> HIDE DEF h, Step
            <4> QED BY <4>2, <4>3, <3>3
        <3> QED BY <3>1, <3>2, <3>3
    <2>3. Is(h, k + 1)
        BY <2>2
    <2> HIDE DEF h, Is
    <2> QED BY <2>3
<1>4. Len(order) \in T
    <2> HIDE DEF T
    <2>1. Nat \subseteq T
        BY <1>2, <1>3, NatSetInduction
    <2> QED BY <1>1, <2>1
<1>5. Is(after, Len(order))
    BY <1>4
<1>6. RotateGroups(st, order, leaf) = [n \in 1 .. Len(order) |-> after[n]]
    BY DEF RotateGroups
<1> HIDE DEF after
<1>7. after[0] = st
    BY <1>1, <1>5
<1>8. ASSUME NEW n \in 0 .. (Len(order) - 1)
      PROVE  after[n + 1] = Step(after[n], n + 1)
    <2>1. n + 1 \in 0 .. Len(order) /\ n + 1 # 0 /\ (n + 1) - 1 = n
        BY <1>1
    <2> QED BY <1>5, <2>1
<1>9. RotateSteps(after, st, order, leaf)
    BY <1>6, <1>7, <1>8 DEF RotateSteps
<1> QED BY <1>9

\* The trail of Client::generate, scheme by scheme.
GenerateTrailSteps(f, st, bs, first) ==
    /\ f[0] = SaveIdentities(st, bs)
    /\ \A n \in 0 .. (Len(bs) - 1) :
          f[n + 1] = IF n + 1 > 1 /\ PruneFails(st, {}) THEN f[n]
                     ELSE f[n] \o RequestTrail(Last(f[n]), first + ((n + 1) - 1) * NbKeyPackages, bs[n + 1].scheme, Bundle(bs[n + 1]), NbKeyPackages)
    /\ GenerateTrail(st, bs, first) = f[Len(bs)]

\* The trail of GenerateTrail.
LEMMA GenerateTrailUnfold ==
    ASSUME NEW st, NEW B, NEW bs \in Seq(B), NEW first
    PROVE  \E f : GenerateTrailSteps(f, st, bs, first)
<1> DEFINE Step(p, n) == IF n > 1 /\ PruneFails(st, {}) THEN p
                         ELSE p \o RequestTrail(Last(p), first + ((n) - 1) * NbKeyPackages, bs[n].scheme, Bundle(bs[n]), NbKeyPackages)
           Is(g, k) == g = [n \in 0 .. k |-> IF n = 0 THEN SaveIdentities(st, bs) ELSE Step(g[n - 1], n)]
           T == {k \in Nat : \E g : Is(g, k)}
           after[n \in 0 .. Len(bs)] == IF n = 0 THEN SaveIdentities(st, bs) ELSE Step(after[n - 1], n)
<1>1. Len(bs) \in Nat
    OBVIOUS
<1>2. 0 \in T
    <2>1. Is([n \in 0 .. 0 |-> SaveIdentities(st, bs)], 0)
        OBVIOUS
    <2> QED BY <2>1
<1>3. ASSUME NEW k \in Nat, k \in T PROVE k + 1 \in T
    <2>1. PICK g : Is(g, k)
        BY <1>3
    <2> DEFINE h == [n \in 0 .. k + 1 |-> IF n = k + 1 THEN Step(g[k], k + 1) ELSE g[n]]
    <2>2. ASSUME NEW n \in 0 .. k + 1
          PROVE  h[n] = IF n = 0 THEN SaveIdentities(st, bs) ELSE Step(h[n - 1], n)
        <3>1. CASE n = 0
            <4>1. 0 \in 0 .. k /\ 0 # k + 1
                OBVIOUS
            <4>2. h[n] = g[0]
                BY <3>1, <4>1
            <4> HIDE DEF Step, h
            <4>3. g[0] = SaveIdentities(st, bs)
                BY <2>1, <4>1
            <4> QED BY <3>1, <4>2, <4>3
        <3>2. CASE n = k + 1
            <4>1. k \in 0 .. k + 1 /\ k # k + 1 /\ n # 0 /\ n - 1 = k
                BY <3>2
            <4>2. h[n] = Step(g[k], k + 1) /\ h[n - 1] = g[k]
                BY <3>2, <4>1
            <4> HIDE DEF h, Step
            <4> QED BY <3>2, <4>1, <4>2
        <3>3. CASE n # 0 /\ n # k + 1
            <4>1. n \in 0 .. k /\ n - 1 \in 0 .. k
                BY <3>3
            <4>2. h[n] = g[n] /\ h[n - 1] = g[n - 1]
                BY <4>1, <3>3
            <4>3. g[n] = Step(g[n - 1], n)
                BY <4>1, <3>3, <2>1
            <4> HIDE DEF h, Step
            <4> QED BY <4>2, <4>3, <3>3
        <3> QED BY <3>1, <3>2, <3>3
    <2>3. Is(h, k + 1)
        BY <2>2
    <2> HIDE DEF h, Is
    <2> QED BY <2>3
<1>4. Len(bs) \in T
    <2> HIDE DEF T
    <2>1. Nat \subseteq T
        BY <1>2, <1>3, NatSetInduction
    <2> QED BY <1>1, <2>1
<1>5. Is(after, Len(bs))
    BY <1>4
<1>6. GenerateTrail(st, bs, first) = after[Len(bs)]
    BY DEF GenerateTrail
<1> HIDE DEF after
<1>7. after[0] = SaveIdentities(st, bs)
    BY <1>1, <1>5
<1>8. ASSUME NEW n \in 0 .. (Len(bs) - 1)
      PROVE  after[n + 1] = Step(after[n], n + 1)
    <2>1. n + 1 \in 0 .. Len(bs) /\ n + 1 # 0 /\ (n + 1) - 1 = n
        BY <1>1
    <2> QED BY <1>5, <2>1
<1>9. GenerateTrailSteps(after, st, bs, first)
    BY <1>6, <1>7, <1>8 DEF GenerateTrailSteps
<1> QED BY <1>9

\* The loop of Client::load, scheme by scheme.
LoadSteps(f, st, order, next) ==
    /\ f[0] = [ok |-> TRUE, keys |-> st.keys, next |-> next, ids |-> Off.ids]
    /\ \A n \in 0 .. (Len(order) - 1) :
          f[n + 1] = LoadScheme(f[n], order[n + 1], SortedCredentials(Keep(st.creds, {r \in ToSet(st.creds) : r.id = Me})))
    /\ Load(st, order, next) = f[Len(order)]

\* The schemes of Load.
LEMMA LoadUnfold ==
    ASSUME NEW st, NEW S, NEW order \in Seq(S), NEW next
    PROVE  \E f : LoadSteps(f, st, order, next)
<1> DEFINE Step(p, n) == LoadScheme(p, order[n], SortedCredentials(Keep(st.creds, {r \in ToSet(st.creds) : r.id = Me})))
           Is(g, k) == g = [n \in 0 .. k |-> IF n = 0 THEN [ok |-> TRUE, keys |-> st.keys, next |-> next, ids |-> Off.ids] ELSE Step(g[n - 1], n)]
           T == {k \in Nat : \E g : Is(g, k)}
           after[n \in 0 .. Len(order)] == IF n = 0 THEN [ok |-> TRUE, keys |-> st.keys, next |-> next, ids |-> Off.ids] ELSE Step(after[n - 1], n)
<1>1. Len(order) \in Nat
    OBVIOUS
<1>2. 0 \in T
    <2>1. Is([n \in 0 .. 0 |-> [ok |-> TRUE, keys |-> st.keys, next |-> next, ids |-> Off.ids]], 0)
        OBVIOUS
    <2> QED BY <2>1
<1>3. ASSUME NEW k \in Nat, k \in T PROVE k + 1 \in T
    <2>1. PICK g : Is(g, k)
        BY <1>3
    <2> DEFINE h == [n \in 0 .. k + 1 |-> IF n = k + 1 THEN Step(g[k], k + 1) ELSE g[n]]
    <2>2. ASSUME NEW n \in 0 .. k + 1
          PROVE  h[n] = IF n = 0 THEN [ok |-> TRUE, keys |-> st.keys, next |-> next, ids |-> Off.ids] ELSE Step(h[n - 1], n)
        <3>1. CASE n = 0
            BY <2>1, <3>1
        <3>2. CASE n = k + 1
            <4>1. k \in 0 .. k + 1 /\ k # k + 1 /\ n # 0 /\ n - 1 = k
                BY <3>2
            <4> QED BY <3>2, <4>1
        <3>3. CASE n # 0 /\ n # k + 1
            <4>1. n \in 0 .. k /\ n - 1 \in 0 .. k
                BY <3>3
            <4>2. h[n] = g[n] /\ h[n - 1] = g[n - 1]
                BY <4>1, <3>3
            <4>3. g[n] = Step(g[n - 1], n)
                BY <4>1, <3>3, <2>1
            <4> HIDE DEF h, Step
            <4> QED BY <4>2, <4>3, <3>3
        <3> QED BY <3>1, <3>2, <3>3
    <2>3. Is(h, k + 1)
        BY <2>2
    <2> HIDE DEF h, Is
    <2> QED BY <2>3
<1>4. Len(order) \in T
    <2> HIDE DEF T
    <2>1. Nat \subseteq T
        BY <1>2, <1>3, NatSetInduction
    <2> QED BY <1>1, <2>1
<1>5. Is(after, Len(order))
    BY <1>4
<1>6. Load(st, order, next) = after[Len(order)]
    BY DEF Load
<1> HIDE DEF after
<1>7. after[0] = [ok |-> TRUE, keys |-> st.keys, next |-> next, ids |-> Off.ids]
    BY <1>1, <1>5
<1>8. ASSUME NEW n \in 0 .. (Len(order) - 1)
      PROVE  after[n + 1] = Step(after[n], n + 1)
    <2>1. n + 1 \in 0 .. Len(order) /\ n + 1 # 0 /\ (n + 1) - 1 = n
        BY <1>1
    <2> QED BY <1>5, <2>1
<1>9. LoadSteps(after, st, order, next)
    BY <1>6, <1>7, <1>8 DEF LoadSteps
<1> QED BY <1>9

-----------------------------------------------------------------------------
(* What the keystore and the client hold.                                  *)

CredRow   == [id : {Me}, val : [cred : Credentials, at : Nat]]
KeyRow    == [id : Nat, val : [scheme : Schemes, owner : {Me, Temporary}]]
KpValue   == [cred : Credentials, pk : 1 .. MaxKeys, scheme : Schemes]
KpRow     == [id : Nat, val : KpValue]
GroupRow  == [scheme : Schemes, leaf : LeafType, pending : LeafType \cup {None}]
Bundles(key, t) == [cred : Credentials, pk : 1 .. (key - 1), at : 0 .. t]

Stores == [creds : Seq(CredRow), keys : Seq(KeyRow), kps : Seq(KpRow),
           hpke : SUBSET Nat, enc : SUBSET Nat, expired : SUBSET Nat,
           groups : [Groups -> GroupRow \cup {None}]]

\* The ids in a store have been given out, and the credentials are not of the
\* future.
WithinBounds(st, key, kp, t) ==
    /\ \A r \in ToSet(st.creds) : r.val.at <= t
    /\ \A r \in ToSet(st.keys) : r.id \in 1 .. (key - 1)
    /\ \A r \in ToSet(st.kps) : r.id \in 1 .. (kp - 1)
    /\ st.hpke \cup st.enc \cup st.expired \subseteq 1 .. (kp - 1)

\* Credentials are inserted in the order of their creation, so that the stable
\* sort of load changes nothing; IndexedDB has one per client id.
InOrder(rows) == \A i, j \in 1 .. Len(rows) : i <= j => rows[i].val.at <= rows[j].val.at

OnePerId(rows) == Platform = "wasm" => Len(rows) <= 1

StoreOK(st, key, kp, t) ==
    /\ st \in Stores
    /\ WithinBounds(st, key, kp, t)
    /\ InOrder(st.creds)
    /\ OnePerId(st.creds)

MemOK(m, key, t) == m \in [on : BOOLEAN, ids : [Schemes -> Seq(Bundles(key, t))]]

FreshOK == /\ fresh \in [key : Nat, cert : Nat, kp : Nat]
           /\ fresh.key \in 1 .. (MaxKeys + 1)
           /\ fresh.cert \in 1 .. (MaxCerts + 1)
           /\ fresh.kp >= 1

TypeInv ==
    /\ FreshOK
    /\ now \in Nat
    /\ usage \in Usages
    /\ bound \in BOOLEAN
    /\ toRemove \subseteq 1 .. (fresh.kp - 1)
    /\ StoreOK(store, fresh.key, fresh.kp, now)
    /\ MemOK(mem, fresh.key, now)

\* What identifies the client is the same in two stores.
SameIdentity(st, s) == s.creds = st.creds /\ s.keys = st.keys /\ s.groups = st.groups

\* What a key package says of a bundle.
KpOf(b, sc) == [cred |-> b.cred, pk |-> b.pk, scheme |-> sc]

\* A store that key packages and private keys have been deleted from, none of a
\* key package that is left.
Pruned(st, s) ==
    /\ s \in Stores
    /\ SameIdentity(st, s)
    /\ ToSet(s.kps) \subseteq ToSet(st.kps)
    /\ s.hpke \subseteq st.hpke /\ s.enc \subseteq st.enc /\ s.expired \subseteq st.expired
    /\ \A r \in ToSet(s.kps) : Complete(st, r.id) => Complete(s, r.id)

\* A store that count key packages of one leaf have been added to, after some
\* were deleted.
Requested(st, s, first, count, v) ==
    /\ s \in Stores
    /\ SameIdentity(st, s)
    /\ \A q \in ToSet(s.kps) :
          q \in ToSet(st.kps) \/ (q.val = v /\ q.id \in first .. (first + count - 1))
    /\ s.hpke \subseteq st.hpke \cup (first .. (first + count - 1))
    /\ s.enc \subseteq st.enc \cup (first .. (first + count - 1))
    /\ s.expired \subseteq st.expired
    /\ \A r \in ToSet(s.kps) : r.id < first /\ Complete(st, r.id) => Complete(s, r.id)

\* The elements of a sequence.
LEMMA SetOfSeq ==
    ASSUME NEW S, NEW s \in Seq(S)
    PROVE  /\ ToSet(s) = {s[i] : i \in 1 .. Len(s)}
           /\ ToSet(s) \subseteq S
           /\ \A x \in S : ToSet(Append(s, x)) = ToSet(s) \cup {x}
<1>1. DOMAIN s = 1 .. Len(s)
    OBVIOUS
<1>2. ASSUME NEW x \in S PROVE ToSet(Append(s, x)) = ToSet(s) \cup {x}
    <2> DEFINE a == Append(s, x)
    <2>1. /\ a \in Seq(S) /\ Len(a) = Len(s) + 1
          /\ \A i \in 1 .. Len(s) : a[i] = s[i]
          /\ a[Len(s) + 1] = x
        BY AppendProperties
    <2> HIDE DEF a
    <2>2. DOMAIN a = 1 .. (Len(s) + 1) /\ Len(s) \in Nat
        BY <2>1
    <2>3. \A i \in 1 .. (Len(s) + 1) : i \in 1 .. Len(s) \/ i = Len(s) + 1
        BY <2>2
    <2>4. ToSet(a) \subseteq ToSet(s) \cup {x}
        BY <1>1, <2>1, <2>2, <2>3 DEF ToSet
    <2>5. ToSet(s) \subseteq ToSet(a)
        BY <1>1, <2>1, <2>2 DEF ToSet
    <2>6. x \in ToSet(a)
        BY <2>1, <2>2 DEF ToSet
    <2> QED BY <2>4, <2>5, <2>6 DEF a
<1> QED BY <1>1, <1>2 DEF ToSet

\* How credentials and signature key pairs are stored: an INSERT on SQLite, a put
\* on IndexedDB.
LEMMA ClientTables ==
    /\ CredentialTable.save = IF Platform = "wasm" THEN "put" ELSE "insert"
    /\ KeyPairTable.save = IF Platform = "wasm" THEN "put" ELSE "insert"
    /\ KeyPairTable.erase \in {"any", "exact"}
<1>1. /\ SqlTable["mls_credentials"] = SqlCredential
      /\ SqlTable["mls_signature_keypairs"] = SqlSignatureKeyPair
    BY DEF SqlTable
<1>2. /\ WasmTable["mls_credentials"] = WasmCredential
      /\ WasmTable["mls_signature_keypairs"] = WasmSignatureKeyPair
    BY DEF WasmTable
<1> QED BY <1>1, <1>2 DEF CredentialTable, KeyPairTable, Descriptor, SqlCredential,
            SqlSignatureKeyPair, WasmCredential, WasmSignatureKeyPair

\* What a save of either table leaves.
LEMMA TableSave ==
    ASSUME NEW S, NEW rows \in Seq(S), NEW k, NEW v, Row(k, v) \in S,
           NEW entity, entity.save = IF Platform = "wasm" THEN "put" ELSE "insert"
    PROVE  LET after == Save(entity, rows, k, v).rows
           IN  /\ after \in Seq(S)
               /\ \A r \in ToSet(after) : r \in ToSet(rows) \/ r = Row(k, v)
               /\ after # << >>
               /\ Platform # "wasm" => after = Append(rows, Row(k, v))
               /\ Platform = "wasm" => after = Upsert(rows, k, v)
<1> DEFINE after == Save(entity, rows, k, v).rows
<1>1. after \in Seq(S)
    BY SaveRows
<1>2. CASE Platform # "wasm"
    <2>1. after = Append(rows, Row(k, v))
        BY <1>2 DEF Save, Outcome
    <2>2. ToSet(after) = ToSet(rows) \cup {Row(k, v)}
        BY <2>1, SetOfSeq
    <2>3. after # << >>
        BY <2>1
    <2> QED BY <1>1, <1>2, <2>1, <2>2, <2>3
<1>3. CASE Platform = "wasm"
    <2>1. after = Upsert(rows, k, v)
        BY <1>3 DEF Save, Outcome
    <2>2. CASE ~Stored(rows, k)
        <3>1. after = Append(rows, Row(k, v))
            BY <2>1, <2>2 DEF Upsert
        <3>2. ToSet(after) = ToSet(rows) \cup {Row(k, v)}
            BY <3>1, SetOfSeq
        <3>3. after # << >>
            BY <3>1
        <3> QED BY <1>1, <1>3, <2>1, <3>2, <3>3
    <2>3. CASE Stored(rows, k)
        <3> DEFINE n == FirstRow(rows, k)
        <3>1. n \in 1 .. Len(rows)
            BY <2>3, FirstRowStored
        <3>2. after = [rows EXCEPT ![n] = Row(k, v)]
            BY <2>1, <2>3 DEF Upsert
        <3> HIDE DEF n
        <3>3. Len(after) = Len(rows) /\ \A i \in 1 .. Len(rows) : after[i] = IF i = n THEN Row(k, v) ELSE rows[i]
            BY <3>1, <3>2, ExceptSeq
        <3> HIDE DEF after
        <3>4. ToSet(after) = {after[i] : i \in 1 .. Len(after)} /\ ToSet(rows) = {rows[i] : i \in 1 .. Len(rows)}
            BY <1>1, SetOfSeq
        <3>5. after # << >>
            BY <1>1, <3>1, <3>3
        <3> QED BY <1>1, <1>3, <2>1, <3>3, <3>4, <3>5 DEF after
    <2> QED BY <2>2, <2>3
<1> QED BY <1>2, <1>3

\* What SaveCredential leaves of a store: one credential more, the newest, or on
\* IndexedDB in the place of the one there was.
LEMMA CredentialSaved ==
    ASSUME NEW st \in Stores, NEW b, b.cred \in Credentials, now \in Nat,
           \A r \in ToSet(st.creds) : r.val.at <= now, InOrder(st.creds), OnePerId(st.creds)
    PROVE  LET s == SaveCredential(st, b)
               row == Row(Me, [cred |-> b.cred, at |-> now])
           IN  /\ s \in Stores
               /\ s.keys = st.keys /\ s.kps = st.kps /\ s.hpke = st.hpke /\ s.enc = st.enc
               /\ s.expired = st.expired /\ s.groups = st.groups
               /\ \A r \in ToSet(s.creds) : r \in ToSet(st.creds) \/ r = row
               /\ \A r \in ToSet(s.creds) : r.val.at <= now
               /\ InOrder(s.creds) /\ OnePerId(s.creds)
               /\ Platform # "wasm" => s.creds = Append(st.creds, row)
<1> DEFINE s == SaveCredential(st, b)
           v == [cred |-> b.cred, at |-> now]
           row == Row(Me, v)
           rows == st.creds
           after == Save(CredentialTable, rows, Me, v).rows
<1>1. row \in CredRow /\ row.val.at = now /\ rows \in Seq(CredRow)
    BY DEF Row, CredRow, Stores
<1>2. /\ after \in Seq(CredRow)
      /\ \A r \in ToSet(after) : r \in ToSet(rows) \/ r = row
      /\ Platform # "wasm" => after = Append(rows, row)
      /\ Platform = "wasm" => after = Upsert(rows, Me, v)
    BY <1>1, ClientTables, TableSave
<1>3. s = [st EXCEPT !.creds = after]
    BY DEF SaveCredential
<1> HIDE DEF after
<1>4. /\ s \in Stores /\ s.creds = after
      /\ s.keys = st.keys /\ s.kps = st.kps /\ s.hpke = st.hpke /\ s.enc = st.enc
      /\ s.expired = st.expired /\ s.groups = st.groups
    BY <1>2, <1>3 DEF Stores
<1>5. \A r \in ToSet(after) : r.val.at <= now
    BY <1>1, <1>2
<1>0. rows = st.creds /\ InOrder(rows) /\ OnePerId(rows)
    OBVIOUS
<1> HIDE DEF rows
<1>6. \A i \in 1 .. Len(rows) : rows[i].val.at <= now /\ rows[i].id = Me /\ rows[i].val.at \in Nat
    <2> SUFFICES ASSUME NEW i \in 1 .. Len(rows) PROVE rows[i].val.at <= now /\ rows[i].id = Me /\ rows[i].val.at \in Nat
        OBVIOUS
    <2>1. rows[i] \in CredRow
        BY <1>1
    <2>2. rows[i] \in ToSet(rows)
        BY <1>1, SetOfSeq
    <2>3. rows[i].val.at <= now
        BY <2>2 DEF rows
    <2> QED BY <2>1, <2>3 DEF CredRow
<1>7. InOrder(after) /\ OnePerId(after)
    <2>1. CASE Platform # "wasm"
        <3>1. /\ Len(after) = Len(rows) + 1
              /\ \A i \in 1 .. Len(rows) : after[i] = rows[i]
              /\ after[Len(rows) + 1] = row
            BY <1>1, <1>2, <2>1, AppendProperties
        <3>2. \A i \in 1 .. (Len(rows) + 1) : i \in 1 .. Len(rows) \/ i = Len(rows) + 1
            BY <1>1
        <3>3. ASSUME NEW i \in 1 .. Len(after), NEW j \in 1 .. Len(after), i <= j
              PROVE  after[i].val.at <= after[j].val.at
            <4>1. CASE j = Len(rows) + 1
                BY <4>1, <1>1, <1>6, <3>1, <3>2
            <4>2. CASE j \in 1 .. Len(rows)
                <5>1. i \in 1 .. Len(rows)
                    BY <4>2, <3>1, <3>3
                <5> QED BY <1>0, <4>2, <5>1, <3>1, <3>3 DEF InOrder
            <4> QED BY <4>1, <4>2, <3>1, <3>2
        <3> QED BY <2>1, <3>3 DEF InOrder, OnePerId
    <2>2. CASE Platform = "wasm"
        <3>1. Len(rows) <= 1 /\ Len(rows) \in Nat
            BY <1>0, <1>1, <2>2 DEF OnePerId
        <3>2. Len(after) = 1
            <4>1. CASE rows = << >>
                <5>1. ~Stored(rows, Me)
                    BY <4>1 DEF Stored
                <5>2. after = Append(rows, row)
                    BY <5>1, <1>2, <2>2 DEF Upsert
                <5>3. Len(after) = Len(rows) + 1
                    BY <5>2, <1>1, AppendProperties
                <5> QED BY <4>1, <5>3
            <4>2. CASE rows # << >>
                <5>0. Len(rows) # 0
                    BY <4>2, <1>1, EmptySeq
                <5>1. Len(rows) = 1
                    BY <3>1, <5>0
                <5>2. Stored(rows, Me)
                    BY <5>1, <1>6 DEF Stored
                <5>3. FirstRow(rows, Me) \in 1 .. Len(rows)
                    BY <5>2, <1>1, FirstRowStored
                <5>4. after = [rows EXCEPT ![FirstRow(rows, Me)] = row]
                    BY <5>2, <1>2, <2>2 DEF Upsert
                <5> QED BY <5>1, <5>3, <5>4, <1>1, ExceptSeq
            <4> QED BY <4>1, <4>2
        <3>0. after[1] \in CredRow
            BY <1>2, <3>2
        <3>3. after[1].val.at \in Nat
            BY <3>0 DEF CredRow
        <3> QED BY <3>2, <3>3 DEF InOrder, OnePerId
    <2> QED BY <2>1, <2>2
<1> HIDE DEF s, row
<1> QED BY <1>0, <1>2, <1>4, <1>5, <1>7 DEF s, row

\* What SaveKeyPair leaves of a store: one key pair more.
LEMMA KeyPairSaved ==
    ASSUME NEW st \in Stores, NEW b, b.pk \in Nat, b.scheme \in Schemes
    PROVE  LET s == SaveKeyPair(st, b)
               row == Row(b.pk, [scheme |-> b.scheme, owner |-> Me])
           IN  /\ s \in Stores
               /\ s.creds = st.creds /\ s.kps = st.kps /\ s.hpke = st.hpke /\ s.enc = st.enc
               /\ s.expired = st.expired /\ s.groups = st.groups
               /\ \A r \in ToSet(s.keys) : r \in ToSet(st.keys) \/ r = row
               /\ Platform # "wasm" => s.keys = Append(st.keys, row)
<1> DEFINE s == SaveKeyPair(st, b)
           v == [scheme |-> b.scheme, owner |-> Me]
           row == Row(b.pk, v)
           after == Save(KeyPairTable, st.keys, b.pk, v).rows
<1>1. row \in KeyRow /\ st.keys \in Seq(KeyRow)
    BY DEF Row, KeyRow, Stores
<1>2. /\ after \in Seq(KeyRow)
      /\ \A r \in ToSet(after) : r \in ToSet(st.keys) \/ r = row
      /\ Platform # "wasm" => after = Append(st.keys, row)
    BY <1>1, ClientTables, TableSave
<1>3. s = [st EXCEPT !.keys = after]
    BY DEF SaveKeyPair
<1> HIDE DEF after
<1>4. /\ s \in Stores /\ s.keys = after
      /\ s.creds = st.creds /\ s.kps = st.kps /\ s.hpke = st.hpke /\ s.enc = st.enc
      /\ s.expired = st.expired /\ s.groups = st.groups
    BY <1>2, <1>3 DEF Stores
<1> HIDE DEF s, row
<1> QED BY <1>2, <1>4 DEF s, row

\* A trail listed by a function.
LEMMA TrailOf ==
    ASSUME NEW S, NEW n \in Nat, NEW f, \A i \in 1 .. n : f[i] \in S
    PROVE  /\ [i \in 1 .. n |-> f[i]] \in Seq(S)
           /\ Len([i \in 1 .. n |-> f[i]]) = n
           /\ \A i \in 1 .. n : [j \in 1 .. n |-> f[j]][i] = f[i]
    OBVIOUS

\* A call that writes nothing ends where it began, another one in its last write.
LEMMA EndOfTrail ==
    ASSUME NEW S, NEW tr \in Seq(S), NEW st
    PROVE  /\ Len(tr) = 0 => EndOf(st, tr) = st
           /\ Len(tr) # 0 => EndOf(st, tr) = tr[Len(tr)] /\ Last(tr) = tr[Len(tr)] /\ Len(tr) \in 1 .. Len(tr)
<1>1. Len(tr) = 0 => tr = << >>
    BY EmptySeq
<1>2. Len(tr) # 0 => tr # << >>
    BY EmptySeq
<1>3. Len(tr) \in Nat
    OBVIOUS
<1>4. Len(tr) # 0 => Len(tr) \in 1 .. Len(tr)
    BY <1>3
<1> QED BY <1>1, <1>2, <1>4 DEF EndOf, Last

SamePackages(st, s) ==
    s.kps = st.kps /\ s.hpke = st.hpke /\ s.enc = st.enc /\ s.expired = st.expired /\ s.groups = st.groups

\* What an identity needs to be saved.
Identity(key) == [scheme : Schemes, pk : 1 .. (key - 1), cred : Credentials]

\* SaveCredential keeps a store well-formed.
LEMMA CredentialOK ==
    ASSUME NEW st, NEW key \in Nat, NEW kp \in Nat, now \in Nat, StoreOK(st, key, kp, now),
           NEW b, b.cred \in Credentials
    PROVE  /\ StoreOK(SaveCredential(st, b), key, kp, now)
           /\ SamePackages(st, SaveCredential(st, b))
<1> DEFINE s == SaveCredential(st, b)
<1>1. /\ st \in Stores /\ \A r \in ToSet(st.creds) : r.val.at <= now
      /\ InOrder(st.creds) /\ OnePerId(st.creds)
    BY DEF StoreOK, WithinBounds
<1>2. /\ s \in Stores
      /\ s.keys = st.keys /\ s.kps = st.kps /\ s.hpke = st.hpke /\ s.enc = st.enc
      /\ s.expired = st.expired /\ s.groups = st.groups
      /\ \A r \in ToSet(s.creds) : r.val.at <= now
      /\ InOrder(s.creds) /\ OnePerId(s.creds)
    BY <1>1, CredentialSaved
<1> HIDE DEF s
<1>3. WithinBounds(s, key, kp, now)
    BY <1>2 DEF StoreOK, WithinBounds
<1> QED BY <1>2, <1>3 DEF s, StoreOK, SamePackages

\* And SaveKeyPair.
LEMMA KeyPairOK ==
    ASSUME NEW st, NEW key \in Nat, NEW kp \in Nat, StoreOK(st, key, kp, now),
           NEW b, b.pk \in 1 .. (key - 1), b.scheme \in Schemes
    PROVE  /\ StoreOK(SaveKeyPair(st, b), key, kp, now)
           /\ SamePackages(st, SaveKeyPair(st, b))
           /\ SaveKeyPair(st, b).creds = st.creds
<1> DEFINE s == SaveKeyPair(st, b)
           row == Row(b.pk, [scheme |-> b.scheme, owner |-> Me])
<1>1. st \in Stores /\ b.pk \in Nat
    BY DEF StoreOK
<1>2. /\ s \in Stores
      /\ s.creds = st.creds /\ s.kps = st.kps /\ s.hpke = st.hpke /\ s.enc = st.enc
      /\ s.expired = st.expired /\ s.groups = st.groups
      /\ \A r \in ToSet(s.keys) : r \in ToSet(st.keys) \/ r = row
    BY <1>1, KeyPairSaved
<1>3. row.id = b.pk
    BY DEF Row
<1> HIDE DEF s, row
<1>4. WithinBounds(s, key, kp, now)
    BY <1>2, <1>3 DEF StoreOK, WithinBounds
<1>5. InOrder(s.creds) /\ OnePerId(s.creds)
    BY <1>2 DEF StoreOK
<1> QED BY <1>2, <1>4, <1>5 DEF s, StoreOK, SamePackages

\* The trail of save_identity, whatever the number of schemes, and wherever the
\* application dies.
LEMMA IdentitiesSaved ==
    ASSUME NEW st, NEW key \in Nat, NEW kp \in Nat, now \in Nat, StoreOK(st, key, kp, now),
           NEW bs \in Seq(Identity(key))
    PROVE  LET tr == SaveIdentities(st, bs)
           IN  /\ tr \in Seq(Stores)
               /\ Len(tr) = 2 * Len(bs)
               /\ \A n \in 1 .. Len(tr) : StoreOK(tr[n], key, kp, now) /\ SamePackages(st, tr[n])
<1> DEFINE K == 2 * Len(bs)
<1>0. Len(bs) \in Nat /\ K \in Nat
    OBVIOUS
<1>1. PICK f : /\ f[0] = st
               /\ \A n \in 0 .. (2 * Len(bs) - 1) :
                     f[n + 1] = (IF (n + 1) % 2 = 1 THEN SaveCredential(f[n], bs[((n + 1) + 1) \div 2]) ELSE SaveKeyPair(f[n], bs[(n + 1) \div 2]))
               /\ SaveIdentities(st, bs) = [n \in 1 .. 2 * Len(bs) |-> f[n]]
    BY SaveUnfold
<1> DEFINE T == {n \in Nat : StoreOK(f[n], key, kp, now) /\ SamePackages(st, f[n])}
<1>2. 0 \in T
    BY <1>1 DEF SamePackages
<1>3. ASSUME NEW n \in Nat, n < K, n \in T PROVE n + 1 \in T
    <2>1. StoreOK(f[n], key, kp, now) /\ SamePackages(st, f[n])
        BY <1>3
    <2>2. n \in 0 .. (2 * Len(bs) - 1)
        BY <1>0, <1>3
    <2>3. CASE (n + 1) % 2 = 1
        <3> DEFINE b == bs[((n + 1) + 1) \div 2]
        <3>1. ((n + 1) + 1) \div 2 \in 1 .. Len(bs)
            BY <1>0, <1>3, <2>3
        <3>2. b \in Identity(key)
            BY <3>1
        <3>3. b.cred \in Credentials
            BY <3>2 DEF Identity
        <3>4. f[n + 1] = SaveCredential(f[n], b)
            BY <1>1, <2>2, <2>3
        <3> HIDE DEF b
        <3>5. StoreOK(f[n + 1], key, kp, now) /\ SamePackages(f[n], f[n + 1])
            BY <2>1, <3>3, <3>4, CredentialOK
        <3> QED BY <2>1, <3>5 DEF SamePackages
    <2>4. CASE (n + 1) % 2 # 1
        <3> DEFINE b == bs[(n + 1) \div 2]
        <3>1. (n + 1) \div 2 \in 1 .. Len(bs)
            BY <1>0, <1>3, <2>4
        <3>2. b \in Identity(key)
            BY <3>1
        <3>3. b.pk \in 1 .. (key - 1) /\ b.scheme \in Schemes
            BY <3>2 DEF Identity
        <3>4. f[n + 1] = SaveKeyPair(f[n], b)
            BY <1>1, <2>2, <2>4
        <3> HIDE DEF b
        <3>5. StoreOK(f[n + 1], key, kp, now) /\ SamePackages(f[n], f[n + 1])
            BY <2>1, <3>3, <3>4, KeyPairOK
        <3> QED BY <2>1, <3>5 DEF SamePackages
    <2> QED BY <2>3, <2>4
<1> HIDE DEF T, K
<1>4. 0 .. K \subseteq T
    BY <1>0, <1>2, <1>3, BoundedInduction
<1>5. \A n \in 1 .. K : StoreOK(f[n], key, kp, now) /\ SamePackages(st, f[n]) /\ f[n] \in Stores
    BY <1>0, <1>4 DEF T, StoreOK
<1> DEFINE tr == [n \in 1 .. K |-> f[n]]
<1>6. tr \in Seq(Stores) /\ Len(tr) = K /\ \A n \in 1 .. K : tr[n] = f[n]
    BY <1>0, <1>5, TrailOf
<1>7. SaveIdentities(st, bs) = tr
    BY <1>1 DEF K
<1> HIDE DEF tr
<1> QED BY <1>5, <1>6, <1>7 DEF K

-----------------------------------------------------------------------------
(* Key packages.                                                           *)

\* A store after one of the writes of a key package.
Added(st, s, n, v, step) ==
    /\ s \in Stores
    /\ SameIdentity(st, s)
    /\ ToSet(s.kps) = IF step = 1 THEN ToSet(st.kps) \cup {Row(n, v)} ELSE ToSet(st.kps)
    /\ s.enc = IF step = 2 THEN st.enc \cup {n} ELSE st.enc
    /\ s.hpke = IF step = 3 THEN st.hpke \cup {n} ELSE st.hpke
    /\ s.expired = st.expired

\* One write of KeyPackage::builder().build().
LEMMA KeyPackageAdded ==
    ASSUME NEW st \in Stores, NEW n \in Nat, NEW sc \in Schemes, NEW b, NEW step \in 1 .. 3,
           b.cred \in Credentials, b.pk \in 1 .. MaxKeys
    PROVE  Added(st, AddKeyPackage(st, n, sc, b, step), n, KpOf(b, sc), step)
<1> DEFINE s == AddKeyPackage(st, n, sc, b, step)
           row == Row(n, KpOf(b, sc))
           after == Append(st.kps, row)
           h == st.hpke \cup {n}
           e == st.enc \cup {n}
<1>1. row \in KpRow /\ st.kps \in Seq(KpRow)
    BY DEF Row, KpRow, KpValue, KpOf, Stores
<1>2. after \in Seq(KpRow) /\ ToSet(after) = ToSet(st.kps) \cup {row}
    BY <1>1, SetOfSeq
<1>3. h \in SUBSET Nat /\ e \in SUBSET Nat
    BY DEF Stores
<1>4. CASE step = 1
    <2>1. s = [st EXCEPT !.kps = after]
        BY <1>4 DEF AddKeyPackage, KpOf
    <2> HIDE DEF after, s, row
    <2>2. /\ s \in Stores
          /\ s.creds = st.creds /\ s.keys = st.keys /\ s.groups = st.groups
          /\ s.kps = after /\ s.hpke = st.hpke /\ s.enc = st.enc /\ s.expired = st.expired
        BY <1>2, <2>1 DEF Stores
    <2> QED BY <1>2, <1>4, <2>2 DEF s, row, Added, SameIdentity
<1>5. CASE step = 2
    <2>1. s = [st EXCEPT !.enc = e]
        BY <1>5 DEF AddKeyPackage
    <2> HIDE DEF e, s
    <2>2. /\ s \in Stores
          /\ s.creds = st.creds /\ s.keys = st.keys /\ s.groups = st.groups
          /\ s.kps = st.kps /\ s.hpke = st.hpke /\ s.enc = e /\ s.expired = st.expired
        BY <1>3, <2>1 DEF Stores
    <2> QED BY <1>5, <2>2 DEF s, e, Added, SameIdentity
<1>6. CASE step = 3
    <2>1. s = [st EXCEPT !.hpke = h]
        BY <1>6 DEF AddKeyPackage
    <2> HIDE DEF h, s
    <2>2. /\ s \in Stores
          /\ s.creds = st.creds /\ s.keys = st.keys /\ s.groups = st.groups
          /\ s.kps = st.kps /\ s.hpke = h /\ s.enc = st.enc /\ s.expired = st.expired
        BY <1>3, <2>1 DEF Stores
    <2> QED BY <1>6, <2>2 DEF s, h, Added, SameIdentity
<1>7. step = 1 \/ step = 2 \/ step = 3
    OBVIOUS
<1> QED BY <1>4, <1>5, <1>6, <1>7

\* One write of _prune_keypackages.
LEMMA KeyPackageDeleted ==
    ASSUME NEW st \in Stores, NEW n, NEW step \in 1 .. 3
    PROVE  LET s == DeleteKeyPackage(st, n, step)
           IN  /\ s \in Stores
               /\ SameIdentity(st, s)
               /\ ToSet(s.kps) = IF step = 1 THEN {r \in ToSet(st.kps) : r.id # n} ELSE ToSet(st.kps)
               /\ s.hpke = IF step = 2 THEN st.hpke \ {n} ELSE st.hpke
               /\ s.enc = IF step = 3 THEN st.enc \ {n} ELSE st.enc
               /\ s.expired \subseteq st.expired
<1> DEFINE s == DeleteKeyPackage(st, n, step)
           after == Without(st.kps, n)
<1>1. after \in Seq(KpRow) /\ ToSet(after) = {r \in ToSet(st.kps) : r.id # n}
    <2>1. st.kps \in Seq(KpRow)
        BY DEF Stores
    <2> QED BY <2>1, KeepElements DEF Without
<1>2. CASE step = 1
    <2>1. s = [st EXCEPT !.kps = after, !.expired = @ \ {n}]
        BY <1>2 DEF DeleteKeyPackage
    <2> HIDE DEF after, s
    <2>2. /\ s \in Stores
          /\ s.creds = st.creds /\ s.keys = st.keys /\ s.groups = st.groups
          /\ s.kps = after /\ s.hpke = st.hpke /\ s.enc = st.enc /\ s.expired = st.expired \ {n}
        BY <1>1, <2>1 DEF Stores
    <2> QED BY <1>1, <1>2, <2>2 DEF s, SameIdentity
<1>3. CASE step = 2
    <2>1. s = [st EXCEPT !.hpke = @ \ {n}]
        BY <1>3 DEF DeleteKeyPackage
    <2> HIDE DEF after, s
    <2>2. /\ s \in Stores
          /\ s.creds = st.creds /\ s.keys = st.keys /\ s.groups = st.groups
          /\ s.kps = st.kps /\ s.hpke = st.hpke \ {n} /\ s.enc = st.enc /\ s.expired = st.expired
        BY <2>1 DEF Stores
    <2> QED BY <1>3, <2>2 DEF s, SameIdentity
<1>4. CASE step = 3
    <2>1. s = [st EXCEPT !.enc = @ \ {n}]
        BY <1>4 DEF DeleteKeyPackage
    <2> HIDE DEF after, s
    <2>2. /\ s \in Stores
          /\ s.creds = st.creds /\ s.keys = st.keys /\ s.groups = st.groups
          /\ s.kps = st.kps /\ s.hpke = st.hpke /\ s.enc = st.enc \ {n} /\ s.expired = st.expired
        BY <2>1 DEF Stores
    <2> QED BY <1>4, <2>2 DEF s, SameIdentity
<1>5. step = 1 \/ step = 2 \/ step = 3
    OBVIOUS
<1> QED BY <1>2, <1>3, <1>4, <1>5

\* The key packages a pruning deletes.
LEMMA DoomedIds ==
    ASSUME NEW st \in Stores, NEW refs
    PROVE  /\ Doomed(st, refs) \in Seq(Nat)
           /\ ToSet(Doomed(st, refs)) = {r.id : r \in ToSet(st.kps)} \cap (st.expired \cup refs)
<1> DEFINE ids == [i \in 1 .. Len(st.kps) |-> st.kps[i].id]
<1>1. st.kps \in Seq(KpRow) /\ Len(st.kps) \in Nat
    BY DEF Stores
<1>2. \A i \in 1 .. Len(st.kps) : st.kps[i] \in KpRow /\ st.kps[i].id \in Nat
    <2> SUFFICES ASSUME NEW i \in 1 .. Len(st.kps) PROVE st.kps[i] \in KpRow /\ st.kps[i].id \in Nat
        OBVIOUS
    <2>1. st.kps[i] \in KpRow
        BY <1>1
    <2> QED BY <2>1 DEF KpRow
<1>3. ids \in Seq(Nat) /\ Len(ids) = Len(st.kps) /\ \A i \in 1 .. Len(st.kps) : ids[i] = st.kps[i].id
    BY <1>1, <1>2
<1> DEFINE X == st.expired \cup refs
<1>4. Doomed(st, refs) = Keep(ids, X)
    BY DEF Doomed
<1> HIDE DEF ids, X
<1>5. ToSet(ids) = {ids[i] : i \in 1 .. Len(ids)} /\ ToSet(st.kps) = {st.kps[i] : i \in 1 .. Len(st.kps)}
    BY <1>1, <1>3, SetOfSeq
<1>6. ToSet(ids) = {r.id : r \in ToSet(st.kps)}
    BY <1>3, <1>5
<1>7. Keep(ids, X) \in Seq(Nat) /\ ToSet(Keep(ids, X)) = ToSet(ids) \cap X
    BY <1>3, KeepElements
<1> QED BY <1>4, <1>6, <1>7 DEF X

\* _prune_keypackages deletes the key packages in question, each one before its
\* private keys: wherever it is cut short or fails, what is left keeps the private
\* keys it has.
LEMMA PruneTrail ==
    ASSUME NEW st \in Stores, NEW refs
    PROVE  LET tr == Prune(st, refs)
           IN  /\ tr \in Seq(Stores)
               /\ \A n \in 1 .. Len(tr) : Pruned(st, tr[n])
               /\ Pruned(st, EndOf(st, tr))
               /\ ~PruneFails(st, refs) => \A r \in ToSet(EndOf(st, tr).kps) : r.id \notin st.expired \cup refs
<1> DEFINE D == Doomed(st, refs)
           K == 3 * Len(D)
<1>0. D \in Seq(Nat) /\ ToSet(D) = {r.id : r \in ToSet(st.kps)} \cap (st.expired \cup refs)
    BY DoomedIds
<1>1. PICK f : PruneSteps(f, st, refs)
    BY <1>0, PruneUnfold
<1> DEFINE Free(n) == \A m \in 1 .. n : ~Refused(st, D, m)
<1>2. Len(D) \in Nat /\ K \in Nat
    BY <1>0
<1>14. f[0] = st /\ Prune(st, refs) = [n \in 1 .. K |-> f[n]]
    BY <1>1 DEF PruneSteps
<1>15. PruneFails(st, refs) <=> ~Free(K)
    BY DEF PruneFails
<1>3. ASSUME NEW n \in Nat, n < K
      PROVE  /\ n \div 3 \in Nat /\ n % 3 \in 0 .. 2
             /\ (n \div 3) + 1 \in 1 .. Len(D) /\ (n % 3) + 1 \in 1 .. 3
             /\ f[n + 1] = IF Free(n + 1) THEN DeleteKeyPackage(f[n], D[(n \div 3) + 1], (n % 3) + 1) ELSE f[n]
             /\ Free(n + 1) => Free(n)
    <2>1. (n + 1) - 1 = n /\ n \in 0 .. (3 * Len(D) - 1)
        BY <1>2, <1>3
    <2>2. f[n + 1] = IF \E m \in 1 .. (n + 1) : Refused(st, D, m) THEN f[n]
                     ELSE DeleteKeyPackage(f[n], D[(((n + 1) - 1) \div 3) + 1], (((n + 1) - 1) % 3) + 1)
        BY <1>1, <2>1 DEF PruneSteps
    <2> HIDE DEF D
    <2>3. /\ n \div 3 \in Nat /\ n % 3 \in 0 .. 2
          /\ (n \div 3) + 1 \in 1 .. Len(D) /\ (n % 3) + 1 \in 1 .. 3
        BY <1>2, <1>3
    <2>4. Free(n + 1) => Free(n)
        OBVIOUS
    <2> QED BY <2>1, <2>2, <2>3, <2>4
<1> HIDE DEF D, Free
<1> DEFINE Gone(n) == \A k \in 1 .. Len(D) : 3 * (k - 1) + 1 <= n => \A r \in ToSet(f[n].kps) : r.id # D[k]
           T == {n \in Nat : Pruned(st, f[n]) /\ (Free(n) => Gone(n))}
<1>4. 0 \in T
    <2>1. Pruned(st, f[0])
        BY <1>14 DEF Pruned, SameIdentity
    <2>2. Gone(0)
        BY <1>2
    <2> QED BY <2>1, <2>2
<1>16. ASSUME NEW n \in Nat, n < K, n \in T, ~Free(n + 1) PROVE n + 1 \in T
    <2>1. f[n + 1] = f[n] /\ Pruned(st, f[n])
        BY <1>3, <1>16
    <2> QED BY <1>16, <2>1
<1>5. ASSUME NEW n \in Nat, n < K, n \in T, Free(n + 1) PROVE n + 1 \in T
    <2> DEFINE k == (n \div 3) + 1
               step == (n % 3) + 1
               p == f[n]
               s == DeleteKeyPackage(p, D[k], step)
    <2>1. /\ Pruned(st, p) /\ Gone(n)
          /\ k \in 1 .. Len(D) /\ step \in 1 .. 3
          /\ f[n + 1] = s
        BY <1>3, <1>5
    <2>2. 3 * (k - 1) + 1 <= n + 1 /\ (step # 1 => 3 * (k - 1) + 1 <= n)
        BY <1>3, <1>5
    <2>3. \A j \in 1 .. Len(D) : 3 * (j - 1) + 1 <= n + 1 => 3 * (j - 1) + 1 <= n \/ (j = k /\ step = 1)
        BY <1>2, <1>3, <1>5
    <2>4. Gone(n) <=> \A j \in 1 .. Len(D) : 3 * (j - 1) + 1 <= n => \A r \in ToSet(p.kps) : r.id # D[j]
        OBVIOUS
    <2>5. Gone(n + 1) <=> \A j \in 1 .. Len(D) : 3 * (j - 1) + 1 <= n + 1 => \A r \in ToSet(s.kps) : r.id # D[j]
        BY <2>1
    <2>6. p \in Stores
        BY <2>1 DEF Pruned
    <2> HIDE DEF k, step, p, Gone
    <2>7. /\ s \in Stores
          /\ SameIdentity(p, s)
          /\ ToSet(s.kps) = IF step = 1 THEN {r \in ToSet(p.kps) : r.id # D[k]} ELSE ToSet(p.kps)
          /\ s.hpke = IF step = 2 THEN p.hpke \ {D[k]} ELSE p.hpke
          /\ s.enc = IF step = 3 THEN p.enc \ {D[k]} ELSE p.enc
          /\ s.expired \subseteq p.expired
        BY <2>1, <2>6, KeyPackageDeleted
    <2> HIDE DEF s
    <2>8. Gone(n + 1)
        BY <2>1, <2>3, <2>4, <2>5, <2>7
    <2>9. \A r \in ToSet(s.kps) : r \in ToSet(p.kps) /\ (Complete(p, r.id) => Complete(s, r.id))
        <3>1. CASE step = 1
            BY <3>1, <2>7 DEF Complete
        <3>2. CASE step # 1
            <4>1. \A r \in ToSet(p.kps) : r.id # D[k]
                BY <3>2, <2>1, <2>2, <2>4
            <4> QED BY <3>2, <4>1, <2>7 DEF Complete
        <3> QED BY <3>1, <3>2
    <2>10. Pruned(st, s)
        BY <2>1, <2>7, <2>9 DEF Pruned, SameIdentity
    <2> QED BY <2>1, <2>8, <2>10
<1> HIDE DEF T, K
<1>6. 0 .. K \subseteq T
    BY <1>2, <1>4, <1>5, <1>16, BoundedInduction
<1>7. \A n \in 1 .. K : Pruned(st, f[n]) /\ f[n] \in Stores
    BY <1>2, <1>6 DEF T, Pruned
<1> DEFINE tr == [n \in 1 .. K |-> f[n]]
<1>8. tr \in Seq(Stores) /\ Len(tr) = K /\ \A n \in 1 .. K : tr[n] = f[n]
    BY <1>2, <1>7, TrailOf
<1>9. Prune(st, refs) = tr
    BY <1>14
<1> HIDE DEF tr
<1>10. EndOf(st, tr) = f[K]
    BY <1>14, <1>2, <1>8, EndOfTrail
<1>11. K \in T
    BY <1>2, <1>6
<1>12. Pruned(st, f[K]) /\ (Free(K) => Gone(K))
    BY <1>11 DEF T
<1>13. ASSUME Free(K), NEW r \in ToSet(f[K].kps) PROVE r.id \notin st.expired \cup refs
    <2>1. r \in ToSet(st.kps)
        BY <1>12 DEF Pruned
    <2>2. SUFFICES ASSUME r.id \in st.expired \cup refs PROVE FALSE
        OBVIOUS
    <2>3. r.id \in ToSet(D)
        BY <1>0, <2>1, <2>2
    <2>4. PICK k \in 1 .. Len(D) : D[k] = r.id
        BY <1>0, <2>3, SetOfSeq
    <2>5. 3 * (k - 1) + 1 <= K
        BY <1>2, <2>4 DEF K
    <2> QED BY <1>12, <1>13, <2>4, <2>5
<1> QED BY <1>15, <1>7, <1>8, <1>9, <1>10, <1>12, <1>13

\* One write of generate_new_keypackages after others.
LEMMA AddedRequested ==
    ASSUME NEW st, NEW p, NEW first \in Nat, NEW count \in Nat, NEW sc \in Schemes, NEW b, NEW step \in 1 .. 3,
           b.cred \in Credentials, b.pk \in 1 .. MaxKeys,
           Requested(st, p, first, count, KpOf(b, sc)),
           NEW m \in Nat, first <= m, m <= first + count - 1
    PROVE  /\ Requested(st, AddKeyPackage(p, m, sc, b, step), first, count, KpOf(b, sc))
           /\ \A i : Complete(p, i) => Complete(AddKeyPackage(p, m, sc, b, step), i)
           /\ p.enc \subseteq AddKeyPackage(p, m, sc, b, step).enc
           /\ step = 2 => m \in AddKeyPackage(p, m, sc, b, step).enc
           /\ step = 3 /\ m \in p.enc => Complete(AddKeyPackage(p, m, sc, b, step), m)
<1> DEFINE s == AddKeyPackage(p, m, sc, b, step)
           v == KpOf(b, sc)
           row == Row(m, v)
<1>1. p \in Stores
    BY DEF Requested
<1>0. Added(p, s, m, v, step)
    BY <1>1, KeyPackageAdded
<1>2. /\ s \in Stores
      /\ SameIdentity(p, s)
      /\ \A r \in ToSet(s.kps) : r \in ToSet(p.kps) \/ r = row
      /\ s.hpke = IF step = 3 THEN p.hpke \cup {m} ELSE p.hpke
      /\ s.enc = IF step = 2 THEN p.enc \cup {m} ELSE p.enc
      /\ s.expired = p.expired
    BY <1>0 DEF Added
<1>3. row.id = m /\ row.val = v
    BY DEF Row
<1> HIDE DEF s, row, v
<1>4. \A i : Complete(p, i) => Complete(s, i)
    BY <1>2 DEF Complete
<1>5. SameIdentity(st, s)
    BY <1>2 DEF Requested, SameIdentity
<1>6. Requested(st, p, first, count, v)
    BY DEF v
<1>8. \A r \in ToSet(s.kps) : r.id < first /\ Complete(st, r.id) => Complete(s, r.id)
    <2> SUFFICES ASSUME NEW r \in ToSet(s.kps), r.id < first, Complete(st, r.id) PROVE Complete(s, r.id)
        OBVIOUS
    <2>1. r \in ToSet(p.kps)
        BY <1>2, <1>3
    <2>2. Complete(p, r.id)
        BY <1>6, <2>1 DEF Requested
    <2> QED BY <1>4, <2>2
<1>9. /\ s.hpke \subseteq st.hpke \cup (first .. (first + count - 1))
      /\ s.enc \subseteq st.enc \cup (first .. (first + count - 1))
    BY <1>2, <1>6 DEF Requested
<1>7. Requested(st, s, first, count, v)
    BY <1>2, <1>3, <1>5, <1>6, <1>8, <1>9 DEF Requested
<1>10. step = 2 => m \in s.enc
    BY <1>2
<1>11. step = 3 /\ m \in p.enc => Complete(s, m)
    BY <1>2 DEF Complete
<1>12. p.enc \subseteq s.enc
    BY <1>2
<1> QED BY <1>4, <1>7, <1>10, <1>11, <1>12 DEF s, v

\* The trail of generate_new_keypackages: at its end every new key package has
\* its private keys.
LEMMA GenerateKeyPackagesTrail ==
    ASSUME NEW st \in Stores, NEW first \in Nat, NEW sc \in Schemes, NEW count \in Nat, NEW b,
           count > 0 => b.cred \in Credentials /\ b.pk \in 1 .. MaxKeys
    PROVE  LET tr == GenerateKeyPackages(st, first, sc, b, count)
               v == KpOf(b, sc)
           IN  /\ tr \in Seq(Stores)
               /\ Len(tr) = 3 * count
               /\ \A n \in 1 .. Len(tr) : Requested(st, tr[n], first, count, v)
               /\ Requested(st, EndOf(st, tr), first, count, v)
               /\ \A m \in first .. (first + count - 1) : Complete(EndOf(st, tr), m)
<1> DEFINE K == 3 * count
           v == KpOf(b, sc)
<1>0. PICK f : GenerateSteps(f, st, first, sc, b, count)
    BY GenerateUnfold
<1>1. /\ f[0] = st
      /\ \A n \in 0 .. (K - 1) : f[n + 1] = AddKeyPackage(f[n], first + (((n + 1) - 1) \div 3), sc, b, (((n + 1) - 1) % 3) + 1)
      /\ GenerateKeyPackages(st, first, sc, b, count) = [n \in 1 .. K |-> f[n]]
    BY <1>0 DEF GenerateSteps
<1>9. K \in Nat
    OBVIOUS
<1> DEFINE Filled(n) == /\ \A m \in first .. (first + (n \div 3) - 1) : Complete(f[n], m)
                        /\ n % 3 = 2 => first + (n \div 3) \in f[n].enc
           T == {n \in Nat : Requested(st, f[n], first, count, v) /\ Filled(n)}
<1>2. 0 \in T
    <2>1. Requested(st, f[0], first, count, v)
        BY <1>1 DEF Requested, SameIdentity
    <2>2. Filled(0)
        OBVIOUS
    <2> QED BY <2>1, <2>2
<1>3. ASSUME NEW n \in Nat, n < K, n \in T PROVE n + 1 \in T
    <2> DEFINE d == n \div 3
               step == (n % 3) + 1
               s == AddKeyPackage(f[n], first + d, sc, b, step)
    <2>1. /\ d \in Nat /\ first + d \in Nat /\ first <= first + d /\ first + d <= first + count - 1
          /\ step \in 1 .. 3 /\ n \in 0 .. (K - 1) /\ count > 0 /\ (n + 1) - 1 = n
        BY <1>3
    <2>2. f[n + 1] = s
        BY <1>1, <2>1
    <2>3. Requested(st, f[n], first, count, v) /\ b.cred \in Credentials /\ b.pk \in 1 .. MaxKeys /\ Filled(n)
        BY <1>3, <2>1
    <2>4. /\ Requested(st, s, first, count, v)
          /\ \A i : Complete(f[n], i) => Complete(s, i)
          /\ f[n].enc \subseteq s.enc
          /\ step = 2 => first + d \in s.enc
          /\ step = 3 /\ first + d \in f[n].enc => Complete(s, first + d)
        BY <2>1, <2>3, AddedRequested
    <2>5. \/ step # 3 /\ (n + 1) \div 3 = d /\ ((n + 1) % 3 = 2 => step = 2)
          \/ step = 3 /\ (n + 1) \div 3 = d + 1 /\ (n + 1) % 3 = 0 /\ n % 3 = 2
        BY <1>3
    <2>6. /\ \A m \in first .. (first + d - 1) : Complete(f[n], m)
          /\ n % 3 = 2 => first + d \in f[n].enc
        BY <2>3
    <2> HIDE DEF s, step, d, Filled
    <2>7. /\ \A m \in first .. (first + ((n + 1) \div 3) - 1) : Complete(s, m)
          /\ (n + 1) % 3 = 2 => first + ((n + 1) \div 3) \in s.enc
        <3>1. CASE step # 3 /\ (n + 1) \div 3 = d /\ ((n + 1) % 3 = 2 => step = 2)
            BY <2>4, <2>6, <3>1
        <3>2. CASE step = 3 /\ (n + 1) \div 3 = d + 1 /\ (n + 1) % 3 = 0 /\ n % 3 = 2
            <4>1. Complete(s, first + d)
                BY <2>4, <2>6, <3>2
            <4>2. \A m \in first .. (first + (d + 1) - 1) : m \in first .. (first + d - 1) \/ m = first + d
                BY <2>1
            <4> QED BY <2>4, <2>6, <3>2, <4>1, <4>2
        <3> QED BY <2>5, <3>1, <3>2
    <2>8. Filled(n + 1)
        BY <2>2, <2>7 DEF Filled
    <2> QED BY <2>2, <2>4, <2>8
<1> HIDE DEF T, v, K
<1>4. 0 .. K \subseteq T
    BY <1>2, <1>3, <1>9, BoundedInduction
<1>5. \A n \in 0 .. K : Requested(st, f[n], first, count, v) /\ f[n] \in Stores
    BY <1>4 DEF T, Requested
<1> DEFINE tr == [n \in 1 .. K |-> f[n]]
<1>6. tr \in Seq(Stores) /\ Len(tr) = K /\ \A n \in 1 .. K : tr[n] = f[n]
    BY <1>5, <1>9, TrailOf
<1>7. GenerateKeyPackages(st, first, sc, b, count) = tr
    BY <1>1
<1> HIDE DEF tr
<1>8. EndOf(st, tr) = f[K]
    BY <1>1, <1>6, <1>9, EndOfTrail
<1>10. \A m \in first .. (first + count - 1) : Complete(f[K], m)
    <2>1. K \in T /\ K \div 3 = count
        BY <1>4, <1>9 DEF K
    <2>2. Filled(K)
        BY <2>1 DEF T
    <2> QED BY <2>1, <2>2
<1> QED BY <1>5, <1>6, <1>7, <1>8, <1>9, <1>10 DEF v, K

\* Pruning keeps a store well-formed.
LEMMA PrunedOK ==
    ASSUME NEW st, NEW s, NEW key, NEW kp, NEW t, StoreOK(st, key, kp, t), Pruned(st, s)
    PROVE  StoreOK(s, key, kp, t)
<1>1. s \in Stores /\ s.creds = st.creds /\ s.keys = st.keys
    BY DEF Pruned, SameIdentity
<1>2. WithinBounds(s, key, kp, t)
    BY <1>1 DEF Pruned, StoreOK, WithinBounds
<1> QED BY <1>1, <1>2 DEF StoreOK

\* So does the generation of key packages, with the ids it has used.
LEMMA RequestedOK ==
    ASSUME NEW st, NEW s, NEW key, NEW kp \in Nat, NEW t, StoreOK(st, key, kp, t),
           NEW first \in Nat, NEW count \in Nat, NEW v, Requested(st, s, first, count, v),
           NEW kp2 \in Nat, kp <= kp2, 1 <= first, first + count <= kp2
    PROVE  StoreOK(s, key, kp2, t)
<1>1. s \in Stores /\ s.creds = st.creds /\ s.keys = st.keys
    BY DEF Requested, SameIdentity
<1>2. first .. (first + count - 1) \subseteq 1 .. (kp2 - 1) /\ 1 .. (kp - 1) \subseteq 1 .. (kp2 - 1)
    OBVIOUS
<1>3. \A r \in ToSet(s.kps) : r.id \in 1 .. (kp2 - 1)
    BY <1>2 DEF Requested, StoreOK, WithinBounds
<1>4. s.hpke \cup s.enc \cup s.expired \subseteq 1 .. (kp2 - 1)
    BY <1>2 DEF Requested, StoreOK, WithinBounds
<1>5. WithinBounds(s, key, kp2, t)
    BY <1>1, <1>3, <1>4 DEF StoreOK, WithinBounds
<1> QED BY <1>1, <1>5 DEF StoreOK

\* Pruning and then generating.
LEMMA PrunedRequested ==
    ASSUME NEW st, NEW p, NEW s, NEW first \in Nat, NEW count \in Nat, NEW v, Pruned(st, p)
    PROVE  /\ Requested(st, p, first, count, v)
           /\ Requested(p, s, first, count, v) => Requested(st, s, first, count, v)
<1>1. Requested(st, p, first, count, v)
    BY DEF Pruned, Requested
<1>2. ASSUME Requested(p, s, first, count, v) PROVE Requested(st, s, first, count, v)
    <2>1. s \in Stores /\ SameIdentity(st, s)
        BY <1>2 DEF Pruned, Requested, SameIdentity
    <2>2. \A q \in ToSet(s.kps) :
             q \in ToSet(st.kps) \/ (q.val = v /\ q.id \in first .. (first + count - 1))
        BY <1>2 DEF Pruned, Requested
    <2>3. /\ s.hpke \subseteq st.hpke \cup (first .. (first + count - 1))
          /\ s.enc \subseteq st.enc \cup (first .. (first + count - 1))
          /\ s.expired \subseteq st.expired
        BY <1>2 DEF Pruned, Requested
    <2>4. \A r \in ToSet(s.kps) : r.id < first /\ Complete(st, r.id) => Complete(s, r.id)
        <3> SUFFICES ASSUME NEW r \in ToSet(s.kps), r.id < first, Complete(st, r.id) PROVE Complete(s, r.id)
            OBVIOUS
        <3>1. r \in ToSet(p.kps)
            BY <1>2 DEF Requested
        <3>2. Complete(p, r.id)
            BY <3>1 DEF Pruned
        <3> QED BY <1>2, <3>2 DEF Requested
    <2> QED BY <1>2, <2>1, <2>2, <2>3, <2>4 DEF Pruned, Requested
<1> QED BY <1>1, <1>2

\* request_key_packages never asks for a negative number of key packages: what
\* mls_fetch_keypackages(count) returns is at most count.
LEMMA LackingRange ==
    ASSUME NEW st \in Stores, NEW sc, NEW count \in Nat
    PROVE  Lacking(st, sc, count) \in 0 .. count
<1> DEFINE p == EndOf(st, Prune(st, {}))
           L == Len(p.kps)
           J == IF Platform = "wasm" THEN 1 .. count ELSE (L - count + 1) .. L
           I == {i \in J \cap (1 .. L) : p.kps[i].val.scheme = sc}
<1>1. L \in Nat
    <2>1. p \in Stores
        BY PruneTrail DEF Pruned
    <2>2. p.kps \in Seq(KpRow)
        BY <2>1 DEF Stores
    <2> QED BY <2>2
<1>2. Fetched(p, sc, count) = Cardinality(I)
    BY DEF Fetched
<1>3. Lacking(st, sc, count) = count - Fetched(p, sc, count)
    BY DEF Lacking
<1> HIDE DEF p
<1>4. I \subseteq J
    OBVIOUS
<1>5. L - count + 1 \in Int /\ L \in Int /\ 1 \in Int /\ count \in Int
    BY <1>1
<1>6. IsFiniteSet(J) /\ Cardinality(J) = count
    <2>1. CASE Platform = "wasm"
        <3>1. IsFiniteSet(1 .. count) /\ Cardinality(1 .. count) = IF 1 > count THEN 0 ELSE count - 1 + 1
            BY <1>5, FS_Interval
        <3> QED BY <2>1, <3>1
    <2>2. CASE Platform # "wasm"
        <3> DEFINE lo == L - count + 1
        <3>1. IsFiniteSet(lo .. L) /\ Cardinality(lo .. L) = IF lo > L THEN 0 ELSE L - lo + 1
            BY <1>5, FS_Interval
        <3> QED BY <1>1, <2>2, <3>1
    <2> QED BY <2>1, <2>2
<1> HIDE DEF I, J
<1>8. IsFiniteSet(I) /\ Cardinality(I) <= Cardinality(J)
    BY <1>4, <1>6, FS_Subset
<1>9. Cardinality(I) \in Nat
    BY <1>8, FS_CardinalityType
<1> QED BY <1>2, <1>3, <1>6, <1>8, <1>9

\* What the trail of a call that prunes and generates key packages is.
RequestOK(st, tr, first, count, v) ==
    /\ tr \in Seq(Stores)
    /\ \A n \in 1 .. Len(tr) : Requested(st, tr[n], first, count, v)
    /\ Requested(st, EndOf(st, tr), first, count, v)

\* What it leaves when the pruning has not failed: new key packages with their
\* private keys, and no expired one.
RequestDone(st, s, first, count) ==
    /\ \A m \in first .. (first + count - 1) : Complete(s, m)
    /\ \A r \in ToSet(s.kps) : r.id \notin st.expired \/ r.id \in first .. (first + count - 1)

\* request_key_packages
LEMMA RequestKeyPackagesTrail ==
    ASSUME NEW st \in Stores, NEW first \in Nat, NEW sc \in Schemes, NEW count \in Nat, NEW b,
           Lacking(st, sc, count) > 0 => b.cred \in Credentials /\ b.pk \in 1 .. MaxKeys
    PROVE  LET tr == RequestTrail(st, first, sc, b, count)
               k == Lacking(st, sc, count)
           IN  /\ RequestOK(st, tr, first, k, KpOf(b, sc))
               /\ ~PruneFails(st, {}) => RequestDone(st, EndOf(st, tr), first, k)
<1> DEFINE pr == Prune(st, {})
           p == EndOf(st, pr)
           k == Lacking(st, sc, count)
           gen == GenerateKeyPackages(p, first, sc, b, k)
           tr == pr \o gen
           v == KpOf(b, sc)
<1>1. /\ pr \in Seq(Stores) /\ (\A n \in 1 .. Len(pr) : Pruned(st, pr[n])) /\ Pruned(st, p)
      /\ ~PruneFails(st, {}) => \A r \in ToSet(p.kps) : r.id \notin st.expired
    BY PruneTrail
<1>2. k \in Nat /\ p \in Stores
    BY <1>1, LackingRange DEF Pruned
<1>3. RequestTrail(st, first, sc, b, count) = IF PruneFails(st, {}) THEN pr ELSE tr
    BY DEF RequestTrail
<1> HIDE DEF pr, k
<1>11. CASE PruneFails(st, {})
    <2>1. \A n \in 1 .. Len(pr) : Requested(st, pr[n], first, k, v)
        BY <1>1, <1>2, PrunedRequested
    <2>2. Requested(st, p, first, k, v)
        BY <1>1, <1>2, PrunedRequested
    <2>3. RequestOK(st, pr, first, k, v)
        BY <1>1, <2>1, <2>2 DEF RequestOK
    <2> QED BY <1>3, <1>11, <2>3 DEF k, v
<1>12. CASE ~PruneFails(st, {})
    <2> HIDE DEF p
    <2>4. k > 0 => b.cred \in Credentials /\ b.pk \in 1 .. MaxKeys
        BY DEF k
    <2>5. /\ gen \in Seq(Stores)
          /\ \A n \in 1 .. Len(gen) : Requested(p, gen[n], first, k, v)
          /\ Requested(p, EndOf(p, gen), first, k, v)
          /\ \A m \in first .. (first + k - 1) : Complete(EndOf(p, gen), m)
        BY <1>2, <2>4, GenerateKeyPackagesTrail
    <2> HIDE DEF gen, v
    <2>6. tr \in Seq(Stores) /\ Len(tr) = Len(pr) + Len(gen)
          /\ \A i \in 1 .. Len(pr) + Len(gen) : tr[i] = IF i <= Len(pr) THEN pr[i] ELSE gen[i - Len(pr)]
        BY <1>1, <2>5, ConcatProperties
    <2>7. Len(pr) \in Nat /\ Len(gen) \in Nat
        BY <1>1, <2>5
    <2> HIDE DEF tr
    <2>8. ASSUME NEW n \in 1 .. Len(tr) PROVE Requested(st, tr[n], first, k, v)
        <3>1. CASE n <= Len(pr)
            <4>1. n \in 1 .. Len(pr) /\ tr[n] = pr[n]
                BY <2>6, <2>7, <3>1
            <4> QED BY <1>1, <1>2, <4>1, PrunedRequested
        <3>2. CASE ~(n <= Len(pr))
            <4>1. n - Len(pr) \in 1 .. Len(gen) /\ tr[n] = gen[n - Len(pr)]
                BY <2>6, <2>7, <3>2
            <4>2. Requested(p, tr[n], first, k, v)
                BY <2>5, <4>1
            <4> QED BY <1>1, <1>2, <4>2, PrunedRequested
        <3> QED BY <3>1, <3>2
    <2>9. EndOf(st, tr) = EndOf(p, gen)
        <3>1. CASE Len(gen) = 0
            <4>1. EndOf(p, gen) = p
                BY <2>5, <3>1, EndOfTrail
            <4>2. CASE Len(pr) = 0
                <5>1. p = st
                    BY <1>1, <4>2, EndOfTrail DEF p
                <5>3. Len(tr) = 0
                    BY <2>6, <2>7, <3>1, <4>2
                <5>2. EndOf(st, tr) = st
                    BY <2>6, <5>3, EndOfTrail
                <5> QED BY <4>1, <5>1, <5>2
            <4>3. CASE Len(pr) # 0
                <5>1. p = pr[Len(pr)]
                    BY <1>1, <4>3, EndOfTrail DEF p
                <5>2. EndOf(st, tr) = tr[Len(tr)] /\ tr[Len(tr)] = pr[Len(pr)]
                    BY <2>6, <2>7, <3>1, <4>3, EndOfTrail
                <5> QED BY <4>1, <5>1, <5>2
            <4> QED BY <4>2, <4>3
        <3>2. CASE Len(gen) # 0
            <4>1. EndOf(p, gen) = gen[Len(gen)]
                BY <2>5, <3>2, EndOfTrail
            <4>2. EndOf(st, tr) = tr[Len(tr)]
                BY <2>6, <2>7, <3>2, EndOfTrail
            <4>3. tr[Len(tr)] = gen[Len(gen)]
                <5>1. Len(tr) \in 1 .. (Len(pr) + Len(gen)) /\ ~(Len(tr) <= Len(pr)) /\ Len(tr) - Len(pr) = Len(gen)
                    BY <2>6, <2>7, <3>2
                <5> QED BY <2>6, <5>1
            <4> QED BY <4>1, <4>2, <4>3
        <3> QED BY <3>1, <3>2
    <2>10. Requested(st, EndOf(st, tr), first, k, v)
        BY <1>1, <1>2, <2>5, <2>9, PrunedRequested
    <2>11. RequestOK(st, tr, first, k, v)
        BY <2>6, <2>8, <2>10 DEF RequestOK
    <2>12. \A r \in ToSet(EndOf(p, gen).kps) : r.id \notin st.expired \/ r.id \in first .. (first + k - 1)
        BY <1>1, <1>12, <2>5 DEF Requested
    <2>13. RequestDone(st, EndOf(st, tr), first, k)
        BY <2>5, <2>9, <2>12 DEF RequestDone
    <2> QED BY <1>3, <1>12, <2>11, <2>13 DEF k, v
<1> QED BY <1>11, <1>12

\* A trail of well-formed stores.
TrailOK(tr, key, kp) ==
    /\ tr \in Seq(Stores)
    /\ \A n \in 1 .. Len(tr) : StoreOK(tr[n], key, kp, now)

\* Two calls, one after the other.
LEMMA TrailConcat ==
    ASSUME NEW a, NEW b, NEW key, NEW kp, TrailOK(a, key, kp), TrailOK(b, key, kp)
    PROVE  /\ TrailOK(a \o b, key, kp)
           /\ Len(a \o b) = Len(a) + Len(b)
<1> DEFINE c == a \o b
<1>1. a \in Seq(Stores) /\ b \in Seq(Stores)
    BY DEF TrailOK
<1>2. c \in Seq(Stores) /\ Len(c) = Len(a) + Len(b)
      /\ \A i \in 1 .. Len(a) + Len(b) : c[i] = IF i <= Len(a) THEN a[i] ELSE b[i - Len(a)]
    BY <1>1, ConcatProperties
<1>3. Len(a) \in Nat /\ Len(b) \in Nat
    BY <1>1
<1> HIDE DEF c
<1>4. ASSUME NEW n \in 1 .. Len(c) PROVE StoreOK(c[n], key, kp, now)
    <2>1. CASE n <= Len(a)
        <3>1. n \in 1 .. Len(a) /\ c[n] = a[n]
            BY <1>2, <1>3, <2>1
        <3> QED BY <3>1 DEF TrailOK
    <2>2. CASE ~(n <= Len(a))
        <3>1. n - Len(a) \in 1 .. Len(b) /\ c[n] = b[n - Len(a)]
            BY <1>2, <1>3, <2>2
        <3> QED BY <3>1 DEF TrailOK
    <2> QED BY <2>1, <2>2
<1>5. TrailOK(c, key, kp)
    BY <1>2, <1>4 DEF TrailOK
<1> QED BY <1>2, <1>5 DEF c

\* A trail that leaves the key packages alone.
TrailSame(tr, st) == \A n \in 1 .. Len(tr) : SamePackages(st, tr[n])

LEMMA SameConcat ==
    ASSUME NEW a \in Seq(Stores), NEW b \in Seq(Stores), NEW st, TrailSame(a, st), TrailSame(b, st)
    PROVE  TrailSame(a \o b, st)
<1> DEFINE c == a \o b
<1>1. /\ Len(c) = Len(a) + Len(b) /\ Len(a) \in Nat /\ Len(b) \in Nat
      /\ \A i \in 1 .. Len(a) + Len(b) : c[i] = IF i <= Len(a) THEN a[i] ELSE b[i - Len(a)]
    BY ConcatProperties
<1> HIDE DEF c
<1>2. ASSUME NEW n \in 1 .. Len(c) PROVE SamePackages(st, c[n])
    <2>1. \/ n \in 1 .. Len(a) /\ c[n] = a[n]
          \/ n - Len(a) \in 1 .. Len(b) /\ c[n] = b[n - Len(a)]
        BY <1>1
    <2> QED BY <2>1 DEF TrailSame
<1> QED BY <1>2 DEF TrailSame, c

\* A bound may grow.
LEMMA StoreMonotone ==
    ASSUME NEW st, NEW key \in Nat, NEW kp \in Nat, NEW t \in Nat, StoreOK(st, key, kp, t),
           NEW key2 \in Nat, NEW kp2 \in Nat, NEW t2 \in Nat, key <= key2, kp <= kp2, t <= t2
    PROVE  StoreOK(st, key2, kp2, t2)
<1>1. 1 .. (key - 1) \subseteq 1 .. (key2 - 1) /\ 1 .. (kp - 1) \subseteq 1 .. (kp2 - 1)
    OBVIOUS
<1>2. \A r \in ToSet(st.creds) : r.val.at \in Nat
    <2>1. st.creds \in Seq(CredRow)
        BY DEF StoreOK, Stores
    <2>2. \A r \in ToSet(st.creds) : r \in CredRow
        BY <2>1, SetOfSeq
    <2> QED BY <2>2 DEF CredRow
<1>3. \A r \in ToSet(st.creds) : r.val.at <= t2
    BY <1>2 DEF StoreOK, WithinBounds
<1>4. WithinBounds(st, key2, kp2, t2)
    BY <1>1, <1>3 DEF StoreOK, WithinBounds
<1> QED BY <1>4 DEF StoreOK

\* The products of Client::generate's ids.
LEMMA Products ==
    ASSUME NEW i \in Nat, NEW m \in Nat, NEW k \in Nat, i < m
    PROVE  /\ i * k \in Nat /\ m * k \in Nat
           /\ (i + 1) * k = i * k + k
           /\ i * k + k <= m * k
<1>1. (m - i - 1) * k >= 0
    OBVIOUS
<1>2. (i + 1) * k = i * k + k /\ m * k = i * k + k + (m - i - 1) * k
    OBVIOUS
<1> QED BY <1>1, <1>2

\* Client::generate keeps the store well-formed, wherever the application dies, for
\* any number of schemes.
LEMMA GenerateOK ==
    ASSUME NEW st, NEW key \in Nat, NEW kp \in Nat, now \in Nat, StoreOK(st, key, kp, now),
           1 <= kp, key <= MaxKeys + 1, NEW bs \in Seq(Identity(key))
    PROVE  TrailOK(GenerateTrail(st, bs, kp), key, kp + Len(bs) * NbKeyPackages)
<1> DEFINE L == Len(bs)
           kp2 == kp + L * NbKeyPackages
<1>0. L \in Nat /\ NbKeyPackages \in Nat /\ MaxKeys \in Nat
    BY ClientAssumption
<1>1. kp2 \in Nat /\ kp <= kp2
    <2>1. L * NbKeyPackages \in Nat
        BY <1>0
    <2> QED BY <2>1
<1>9. PICK f : GenerateTrailSteps(f, st, bs, kp)
    BY GenerateTrailUnfold
<1>2. /\ f[0] = SaveIdentities(st, bs)
      /\ \A n \in 0 .. (Len(bs) - 1) :
            f[n + 1] = IF n + 1 > 1 /\ PruneFails(st, {}) THEN f[n]
                       ELSE f[n] \o RequestTrail(Last(f[n]), kp + ((n + 1) - 1) * NbKeyPackages, bs[n + 1].scheme, Bundle(bs[n + 1]), NbKeyPackages)
      /\ GenerateTrail(st, bs, kp) = f[Len(bs)]
    BY <1>9 DEF GenerateTrailSteps
<1> HIDE DEF kp2
<1>3. StoreOK(st, key, kp2, now)
    BY <1>1, StoreMonotone
<1>4. TrailOK(f[0], key, kp2) /\ Len(f[0]) = 2 * L
    <2>1. /\ SaveIdentities(st, bs) \in Seq(Stores)
          /\ Len(SaveIdentities(st, bs)) = 2 * Len(bs)
          /\ \A n \in 1 .. Len(SaveIdentities(st, bs)) : StoreOK(SaveIdentities(st, bs)[n], key, kp2, now)
        BY <1>1, <1>3, IdentitiesSaved
    <2> QED BY <1>2, <2>1 DEF TrailOK
<1> DEFINE T == {n \in Nat : TrailOK(f[n], key, kp2) /\ (L > 0 => Len(f[n]) > 0)}
<1>5. 0 \in T
    BY <1>0, <1>4
<1>11. ASSUME NEW n \in Nat, n < L, n \in T, n + 1 > 1 /\ PruneFails(st, {}) PROVE n + 1 \in T
    <2>1. n \in 0 .. (Len(bs) - 1)
        BY <1>0, <1>11
    <2>2. f[n + 1] = f[n]
        BY <1>2, <1>11, <2>1
    <2> QED BY <1>11, <2>2
<1>6. ASSUME NEW n \in Nat, n < L, n \in T, ~(n + 1 > 1 /\ PruneFails(st, {})) PROVE n + 1 \in T
    <2> DEFINE b == bs[n + 1]
               p == Last(f[n])
               first == kp + n * NbKeyPackages
               more == RequestTrail(p, first, b.scheme, Bundle(b), NbKeyPackages)
    <2>1. TrailOK(f[n], key, kp2) /\ Len(f[n]) > 0 /\ f[n] \in Seq(Stores)
        BY <1>0, <1>6 DEF TrailOK
    <2>2. p = f[n][Len(f[n])] /\ Len(f[n]) \in 1 .. Len(f[n])
        BY <2>1, EndOfTrail
    <2>3. StoreOK(p, key, kp2, now) /\ p \in Stores
        BY <2>1, <2>2 DEF TrailOK, StoreOK
    <2>4. b \in Identity(key)
        BY <1>0, <1>6
    <2>5. b.scheme \in Schemes /\ b.cred \in Credentials /\ b.pk \in 1 .. (key - 1)
        BY <2>4 DEF Identity
    <2>6. Bundle(b).cred \in Credentials /\ Bundle(b).pk \in 1 .. MaxKeys
        BY <1>0, <2>5 DEF Bundle
    <2>7. n * NbKeyPackages \in Nat /\ n * NbKeyPackages + NbKeyPackages <= L * NbKeyPackages /\ L * NbKeyPackages \in Nat
        BY <1>0, <1>6, Products
    <2>8. first \in Nat /\ 1 <= first /\ first + NbKeyPackages <= kp2
        BY <1>0, <2>7 DEF kp2
    <2>9. n \in 0 .. (Len(bs) - 1) /\ (n + 1) - 1 = n
        BY <1>0, <1>6
    <2>10. f[n + 1] = f[n] \o more
        BY <1>2, <1>6, <2>9
    <2> HIDE DEF p, b, first
    <2> DEFINE c == Lacking(p, b.scheme, NbKeyPackages)
               v == KpOf(Bundle(b), b.scheme)
    <2>11. c \in 0 .. NbKeyPackages
        BY <1>0, <2>3, LackingRange
    <2>12. RequestOK(p, more, first, c, v)
        BY <1>0, <2>3, <2>5, <2>6, <2>8, RequestKeyPackagesTrail
    <2>13. first + c <= kp2 /\ c \in Nat
        BY <1>0, <1>1, <2>8, <2>11
    <2> HIDE DEF c, v, more
    <2>14. ASSUME NEW m \in 1 .. Len(more) PROVE StoreOK(more[m], key, kp2, now)
        <3>1. Requested(p, more[m], first, c, v)
            BY <2>12 DEF RequestOK
        <3> QED BY <1>1, <2>3, <2>8, <2>13, <3>1, RequestedOK
    <2>15. TrailOK(more, key, kp2) /\ Len(more) \in Nat
        BY <2>12, <2>14 DEF RequestOK, TrailOK
    <2>16. TrailOK(f[n + 1], key, kp2) /\ Len(f[n + 1]) = Len(f[n]) + Len(more)
        BY <2>1, <2>10, <2>15, TrailConcat
    <2>17. Len(f[n + 1]) > 0
        BY <2>1, <2>2, <2>15, <2>16
    <2> QED BY <2>16, <2>17
<1> HIDE DEF T, L
<1>7. 0 .. L \subseteq T
    BY <1>0, <1>5, <1>6, <1>11, BoundedInduction
<1>8. L \in T
    BY <1>0, <1>7
<1>10. TrailOK(f[L], key, kp2)
    BY <1>8 DEF T
<1> QED BY <1>2, <1>10 DEF L, kp2

\* A sequence whose elements are all in a subset.
LEMMA SeqWithin ==
    ASSUME NEW A, NEW s \in Seq(A), NEW B, \A x \in ToSet(s) : x \in B
    PROVE  s \in Seq(A \cap B)
<1>1. \A i \in 1 .. Len(s) : s[i] \in A \cap B
    BY SetOfSeq
<1> QED BY <1>1

\* The key pairs whose ids have been given out.
KeysBelow(key) == KeyRow \cap {r \in KeyRow : r.id \in 1 .. (key - 1)}

\* A store in which only the key pairs change.
LEMMA KeysReplaced ==
    ASSUME NEW st, NEW key, NEW kp, NEW t, NEW key2,
           StoreOK(st, key, kp, t), NEW ks \in Seq(KeysBelow(key2))
    PROVE  /\ StoreOK([st EXCEPT !.keys = ks], key2, kp, t)
           /\ SamePackages(st, [st EXCEPT !.keys = ks])
           /\ [st EXCEPT !.keys = ks].keys = ks
           /\ [st EXCEPT !.keys = ks].creds = st.creds
<1> DEFINE s == [st EXCEPT !.keys = ks]
<1>1. st \in Stores
    BY DEF StoreOK
<1>2. ks \in Seq(KeyRow)
    <2>1. \A i \in 1 .. Len(ks) : ks[i] \in KeyRow
        BY DEF KeysBelow
    <2> QED BY <2>1
<1>3. /\ s \in Stores /\ s.keys = ks /\ s.creds = st.creds /\ s.kps = st.kps /\ s.groups = st.groups
      /\ s.hpke = st.hpke /\ s.enc = st.enc /\ s.expired = st.expired
    BY <1>1, <1>2 DEF Stores
<1> HIDE DEF s
<1>4. \A r \in ToSet(ks) : r.id \in 1 .. (key2 - 1)
    <2>1. \A r \in ToSet(ks) : r \in KeysBelow(key2)
        BY SetOfSeq
    <2> QED BY <2>1 DEF KeysBelow
<1>5. WithinBounds(s, key2, kp, t)
    BY <1>3, <1>4 DEF StoreOK, WithinBounds
<1>6. StoreOK(s, key2, kp, t)
    BY <1>3, <1>5 DEF StoreOK
<1> QED BY <1>3, <1>6 DEF s, SamePackages

\* The key pairs of a well-formed store.
LEMMA KeysOfStore ==
    ASSUME NEW st, NEW key, NEW kp, NEW t, StoreOK(st, key, kp, t)
    PROVE  st.keys \in Seq(KeysBelow(key))
<1>1. st.keys \in Seq(KeyRow)
    BY DEF StoreOK, Stores
<1>2. \A r \in ToSet(st.keys) : r \in KeyRow /\ r.id \in 1 .. (key - 1)
    BY <1>1, SetOfSeq DEF StoreOK, WithinBounds
<1>3. \A r \in ToSet(st.keys) : r \in {q \in KeyRow : q.id \in 1 .. (key - 1)}
    BY <1>2
<1> QED BY <1>1, <1>3, SeqWithin DEF KeysBelow

\* The insertion of a key pair.
LEMMA KeyInserted ==
    ASSUME NEW key \in Nat, NEW ks \in Seq(KeysBelow(key)), NEW pk \in Nat, 1 <= pk, pk <= key - 1,
           NEW sc \in Schemes, NEW owner \in {Me, Temporary}
    PROVE  Save(KeyPairTable, ks, pk, [scheme |-> sc, owner |-> owner]).rows \in Seq(KeysBelow(key))
<1> DEFINE v == [scheme |-> sc, owner |-> owner]
<1>1. Row(pk, v) \in KeysBelow(key)
    BY DEF Row, KeysBelow, KeyRow
<1>2. KeyPairTable.save \in {"upsert", "replace", "put", "insert", "unique", "first"}
    BY ClientTables
<1> HIDE DEF v
<1>3. Save(KeyPairTable, ks, pk, v).rows \in Seq(KeysBelow(key))
    BY <1>1, <1>2, SaveRows
<1> QED BY <1>3 DEF v

\* generate_raw_keypairs
LEMMA RawOK ==
    ASSUME NEW st, NEW key \in Nat, NEW kp \in Nat, 1 <= key, StoreOK(st, key, kp, now), NEW order \in Seq(Schemes)
    PROVE  /\ TrailOK(RawKeypairs(st, order, key), key + Len(order), kp) /\ Len(RawKeypairs(st, order, key)) = Len(order)
           /\ TrailSame(RawKeypairs(st, order, key), st)
<1> DEFINE L == Len(order)
           key2 == key + L
<1>0. L \in Nat /\ key2 \in Nat /\ key <= key2
    OBVIOUS
<1>1. PICK f : RawSteps(f, st, order, key)
    BY RawUnfold
<1>2. /\ f[0] = st
      /\ \A n \in 0 .. (Len(order) - 1) :
           f[n + 1] = [f[n] EXCEPT !.keys = Save(KeyPairTable, @, key + (n + 1) - 1, [scheme |-> order[n + 1], owner |-> Temporary]).rows]
      /\ RawKeypairs(st, order, key) = [n \in 1 .. Len(order) |-> f[n]]
    BY <1>1 DEF RawSteps
<1> DEFINE T == {n \in Nat : StoreOK(f[n], key2, kp, now) /\ SamePackages(st, f[n])}
<1>3. 0 \in T
    <2>1. 1 .. (key - 1) \subseteq 1 .. (key2 - 1)
        BY <1>0
    <2>2. WithinBounds(st, key2, kp, now)
        BY <2>1 DEF StoreOK, WithinBounds
    <2>3. StoreOK(st, key2, kp, now)
        BY <2>2 DEF StoreOK
    <2> QED BY <1>2, <2>3 DEF SamePackages
<1>4. ASSUME NEW n \in Nat, n < L, n \in T PROVE n + 1 \in T
    <2> DEFINE pk == key + (n + 1) - 1
               ks == Save(KeyPairTable, f[n].keys, pk, [scheme |-> order[n + 1], owner |-> Temporary]).rows
    <2>1. n \in 0 .. (Len(order) - 1) /\ n + 1 \in 1 .. Len(order) /\ pk \in Nat /\ 1 <= pk /\ pk <= key2 - 1
        BY <1>0, <1>4
    <2>2. f[n + 1] = [f[n] EXCEPT !.keys = ks] /\ order[n + 1] \in Schemes
        BY <1>2, <2>1
    <2>3. StoreOK(f[n], key2, kp, now) /\ SamePackages(st, f[n])
        BY <1>4
    <2>4. f[n].keys \in Seq(KeysBelow(key2))
        BY <2>3, KeysOfStore
    <2> HIDE DEF pk, key2
    <2>5. ks \in Seq(KeysBelow(key2))
        BY <1>0, <2>1, <2>2, <2>4, KeyInserted
    <2> HIDE DEF ks
    <2>6. StoreOK(f[n + 1], key2, kp, now) /\ SamePackages(f[n], f[n + 1])
        BY <2>2, <2>3, <2>5, KeysReplaced
    <2>7. SamePackages(st, f[n + 1])
        BY <2>3, <2>6 DEF SamePackages
    <2> QED BY <2>6, <2>7
<1> HIDE DEF T, L
<1>5. 0 .. L \subseteq T
    BY <1>0, <1>3, <1>4, BoundedInduction
<1>6. \A n \in 1 .. L : StoreOK(f[n], key2, kp, now) /\ f[n] \in Stores /\ SamePackages(st, f[n])
    BY <1>0, <1>5 DEF T, StoreOK
<1> DEFINE tr == [n \in 1 .. L |-> f[n]]
<1>7. tr \in Seq(Stores) /\ Len(tr) = L /\ \A n \in 1 .. L : tr[n] = f[n]
    BY <1>0, <1>6, TrailOf
<1>8. RawKeypairs(st, order, key) = tr
    BY <1>2 DEF L
<1> HIDE DEF tr
<1>9. TrailOK(tr, key2, kp)
    BY <1>6, <1>7 DEF TrailOK
<1>10. TrailSame(tr, st)
    BY <1>6, <1>7 DEF TrailSame
<1> QED BY <1>7, <1>8, <1>9, <1>10 DEF L

\* The identity of a provisional key pair.
LEMMA ProvisionalIdentity ==
    ASSUME NEW key, NEW r \in KeysBelow(key)
    PROVE  Provisional(r) \in Identity(key)
<1>1. r.val.scheme \in Schemes /\ r.val.owner \in {Me, Temporary} /\ r.id \in 1 .. (key - 1)
    BY DEF KeysBelow, KeyRow
<1>2. Basic(r.val.owner) \in Credentials
    BY <1>1 DEF Credentials
<1> QED BY <1>1, <1>2 DEF Provisional, Identity

\* A provisional key pair goes and comes back.
LEMMA AdoptOneOK ==
    ASSUME NEW st, NEW key \in Nat, NEW kp \in Nat, now \in Nat, StoreOK(st, key, kp, now), NEW r \in KeysBelow(key)
    PROVE  TrailOK(AdoptKeypair(st, r), key, kp) /\ TrailSame(AdoptKeypair(st, r), st)
<1> DEFINE ks == Erase(KeyPairTable, st.keys, r.id).rows
           s == [st EXCEPT !.keys = ks]
           more == SaveIdentities(s, <<Provisional(r)>>)
<1>1. st.keys \in Seq(KeysBelow(key))
    BY KeysOfStore
<1>2. ks \in Seq(KeysBelow(key))
    <2>1. KeyPairTable.erase \in {"any", "exact", "some", "head", "never"}
        BY ClientTables
    <2> QED BY <1>1, <2>1, EraseRows
<1>3. AdoptKeypair(st, r) = <<s>> \o more
    BY DEF AdoptKeypair
<1> HIDE DEF ks
<1>4. StoreOK(s, key, kp, now) /\ SamePackages(st, s)
    BY <1>2, KeysReplaced
<1> HIDE DEF s
<1>5. <<Provisional(r)>> \in Seq(Identity(key))
    BY ProvisionalIdentity
<1>9. /\ more \in Seq(Stores)
      /\ \A n \in 1 .. Len(more) : StoreOK(more[n], key, kp, now) /\ SamePackages(s, more[n])
    BY <1>4, <1>5, IdentitiesSaved
<1>6. TrailOK(more, key, kp)
    BY <1>9 DEF TrailOK
<1>7. s \in Stores
    BY <1>4 DEF StoreOK
<1>8. TrailOK(<<s>>, key, kp)
    BY <1>4, <1>7 DEF TrailOK
<1> HIDE DEF more
<1>10. TrailSame(more, st)
    BY <1>4, <1>9 DEF TrailSame, SamePackages
<1>11. TrailSame(<<s>>, st) /\ <<s>> \in Seq(Stores)
    BY <1>4, <1>7 DEF TrailSame
<1>12. TrailSame(<<s>> \o more, st)
    BY <1>9, <1>10, <1>11, SameConcat
<1> QED BY <1>3, <1>6, <1>8, <1>12, TrailConcat

\* init_with_external_client_id
LEMMA AdoptOK ==
    ASSUME NEW st, NEW key \in Nat, NEW kp \in Nat, now \in Nat, StoreOK(st, key, kp, now),
           NEW tmp \in Seq(KeysBelow(key))
    PROVE  TrailOK(AdoptKeypairs(st, tmp), key, kp) /\ TrailSame(AdoptKeypairs(st, tmp), st)
<1> DEFINE L == Len(tmp)
<1>0. L \in Nat
    OBVIOUS
<1>1. PICK f : AdoptSteps(f, st, tmp)
    BY AdoptUnfold
<1>2. /\ f[0] = << >>
      /\ \A n \in 0 .. (Len(tmp) - 1) : f[n + 1] = f[n] \o AdoptKeypair(EndOf(st, f[n]), tmp[n + 1])
      /\ AdoptKeypairs(st, tmp) = f[Len(tmp)]
    BY <1>1 DEF AdoptSteps
<1> DEFINE T == {n \in Nat : TrailOK(f[n], key, kp) /\ TrailSame(f[n], st)}
<1>3. 0 \in T
    <2>1. << >> \in Seq(Stores) /\ Len(<< >>) = 0
        BY EmptySeq
    <2>2. TrailOK(<< >>, key, kp) /\ TrailSame(<< >>, st)
        BY <2>1 DEF TrailOK, TrailSame
    <2> QED BY <1>2, <2>2
<1>4. ASSUME NEW n \in Nat, n < L, n \in T PROVE n + 1 \in T
    <2> DEFINE p == EndOf(st, f[n])
    <2>1. n \in 0 .. (Len(tmp) - 1) /\ n + 1 \in 1 .. Len(tmp)
        BY <1>0, <1>4
    <2>7. f[n + 1] = f[n] \o AdoptKeypair(p, tmp[n + 1])
        BY <1>2, <2>1, Zenon
    <2>8. tmp[n + 1] \in KeysBelow(key)
        BY <2>1
    <2>2. f[n + 1] = f[n] \o AdoptKeypair(p, tmp[n + 1]) /\ tmp[n + 1] \in KeysBelow(key)
        BY <2>7, <2>8, Zenon
    <2>3. TrailOK(f[n], key, kp) /\ f[n] \in Seq(Stores) /\ TrailSame(f[n], st)
        BY <1>4 DEF TrailOK
    <2>4. StoreOK(p, key, kp, now) /\ SamePackages(st, p)
        <3>1. CASE Len(f[n]) = 0
            <4>1. p = st
                BY <2>3, <3>1, EndOfTrail
            <4> QED BY <4>1 DEF SamePackages
        <3>2. CASE Len(f[n]) # 0
            <4>1. p = f[n][Len(f[n])] /\ Len(f[n]) \in 1 .. Len(f[n])
                BY <2>3, <3>2, EndOfTrail
            <4> HIDE DEF p
            <4> QED BY <2>3, <4>1 DEF TrailOK, TrailSame
        <3> QED BY <3>1, <3>2
    <2> HIDE DEF p
    <2>5. TrailOK(AdoptKeypair(p, tmp[n + 1]), key, kp) /\ TrailSame(AdoptKeypair(p, tmp[n + 1]), p)
        BY <2>2, <2>4, AdoptOneOK
    <2>9. TrailSame(AdoptKeypair(p, tmp[n + 1]), st) /\ AdoptKeypair(p, tmp[n + 1]) \in Seq(Stores)
        BY <2>4, <2>5 DEF TrailSame, SamePackages, TrailOK
    <2>10. TrailSame(f[n + 1], st)
        BY <2>2, <2>3, <2>9, SameConcat
    <2>6. TrailOK(f[n + 1], key, kp)
        BY <2>2, <2>3, <2>5, TrailConcat
    <2> QED BY <2>6, <2>10
<1> HIDE DEF T, L
<1>5. 0 .. L \subseteq T
    BY <1>0, <1>3, <1>4, BoundedInduction
<1>6. TrailOK(f[L], key, kp) /\ TrailSame(f[L], st)
    BY <1>0, <1>5 DEF T
<1> QED BY <1>2, <1>6 DEF L

\* A store in which a leaf is pending in some conversations.
Rotated(st, s, leaf) ==
    /\ s \in Stores
    /\ s.creds = st.creds /\ s.keys = st.keys /\ s.kps = st.kps
    /\ s.hpke = st.hpke /\ s.enc = st.enc /\ s.expired = st.expired
    /\ \A g \in Groups : s.groups[g] = st.groups[g] \/
          (st.groups[g] # None /\ s.groups[g] = [st.groups[g] EXCEPT !.pending = leaf])

\* The commits of e2ei_rotate_all.
LEMMA RotateTrail ==
    ASSUME NEW st \in Stores, NEW leaf \in LeafType,
           NEW order \in Seq({g \in Groups : st.groups[g] # None})
    PROVE  LET tr == RotateGroups(st, order, leaf)
           IN  tr \in Seq(Stores) /\ Len(tr) = Len(order) /\ \A n \in 1 .. Len(tr) : Rotated(st, tr[n], leaf)
<1> DEFINE L == Len(order)
<1>0. L \in Nat
    OBVIOUS
<1>1. PICK f : RotateSteps(f, st, order, leaf)
    BY RotateUnfold
<1>2. /\ f[0] = st
      /\ \A n \in 0 .. (Len(order) - 1) :
           f[n + 1] = SetGroup(f[n], order[n + 1], [st.groups[order[n + 1]] EXCEPT !.pending = leaf])
      /\ RotateGroups(st, order, leaf) = [n \in 1 .. Len(order) |-> f[n]]
    BY <1>1 DEF RotateSteps
<1> DEFINE T == {n \in Nat : Rotated(st, f[n], leaf)}
<1>3. 0 \in T
    <2>1. Rotated(st, st, leaf)
        BY DEF Rotated
    <2> QED BY <1>2, <2>1
<1>4. ASSUME NEW n \in Nat, n < L, n \in T PROVE n + 1 \in T
    <2> DEFINE g == order[n + 1]
               v == [st.groups[g] EXCEPT !.pending = leaf]
               p == f[n]
               s == f[n + 1]
    <2>1. n \in 0 .. (Len(order) - 1) /\ n + 1 \in 1 .. Len(order)
        BY <1>0, <1>4
    <2>2. s = SetGroup(p, g, v) /\ g \in Groups /\ st.groups[g] # None
        BY <1>2, <2>1
    <2>3. Rotated(st, p, leaf)
        BY <1>4
    <2> HIDE DEF g, p, s
    <2>4. p.groups \in [Groups -> GroupRow \cup {None}] /\ st.groups \in [Groups -> GroupRow \cup {None}]
        BY <2>3 DEF Rotated, Stores
    <2>5. v \in GroupRow
        BY <2>2, <2>4 DEF GroupRow
    <2>6. s = [p EXCEPT !.groups = [p.groups EXCEPT ![g] = v]]
        BY <2>2 DEF SetGroup
    <2>7. p \in Stores
        BY <2>3 DEF Rotated
    <2> HIDE DEF v
    <2>8. /\ s \in Stores /\ s.groups = [p.groups EXCEPT ![g] = v]
          /\ s.creds = p.creds /\ s.keys = p.keys /\ s.kps = p.kps
          /\ s.hpke = p.hpke /\ s.enc = p.enc /\ s.expired = p.expired
        BY <2>4, <2>5, <2>6, <2>7 DEF Stores
    <2>9. \A h \in Groups : s.groups[h] = IF h = g THEN v ELSE p.groups[h]
        BY <2>2, <2>4, <2>8
    <2>10. Rotated(st, s, leaf)
        BY <2>2, <2>3, <2>8, <2>9 DEF Rotated, v
    <2> QED BY <2>10 DEF s
<1> HIDE DEF T, L
<1>5. 0 .. L \subseteq T
    BY <1>0, <1>3, <1>4, BoundedInduction
<1>6. \A n \in 1 .. L : Rotated(st, f[n], leaf) /\ f[n] \in Stores
    BY <1>0, <1>5 DEF T, Rotated
<1> DEFINE tr == [n \in 1 .. L |-> f[n]]
<1>7. tr \in Seq(Stores) /\ Len(tr) = L /\ \A n \in 1 .. L : tr[n] = f[n]
    BY <1>0, <1>6, TrailOf
<1>8. RotateGroups(st, order, leaf) = tr
    BY <1>2 DEF L
<1> HIDE DEF tr
<1> QED BY <1>6, <1>7, <1>8 DEF L

\* It keeps a store well-formed.
LEMMA RotatedOK ==
    ASSUME NEW st, NEW s, NEW leaf, NEW key, NEW kp, NEW t, StoreOK(st, key, kp, t), Rotated(st, s, leaf)
    PROVE  StoreOK(s, key, kp, t)
<1>1. WithinBounds(s, key, kp, t)
    BY DEF StoreOK, Rotated, WithinBounds
<1> QED BY <1>1 DEF StoreOK, Rotated

\* Sequences over a larger set.
LEMMA SeqMonotone ==
    ASSUME NEW A, NEW B, A \subseteq B, NEW s \in Seq(A)
    PROVE  s \in Seq(B)
<1>1. \A i \in 1 .. Len(s) : s[i] \in B
    OBVIOUS
<1> QED BY <1>1

-----------------------------------------------------------------------------
(* The identities in memory.                                               *)

\* The bundles of a type, and the most recent one.
LEMMA BundlesOfType ==
    ASSUME NEW S, NEW ids \in [Schemes -> Seq(S)], NEW sc \in Schemes, NEW type
    PROVE  /\ OfType(ids, sc, type) \in Seq(S)
           /\ HasBundle(ids, sc, type) =>
                 /\ MostRecent(ids, sc, type) \in S
                 /\ MostRecent(ids, sc, type) \in ToSet(ids[sc])
                 /\ MostRecent(ids, sc, type).cred.type = type
<1> DEFINE s == ids[sc]
           X == {b \in ToSet(ids[sc]) : b.cred.type = type}
           k == Keep(s, X)
<1>1. s \in Seq(S)
    OBVIOUS
<1>2. OfType(ids, sc, type) = k
    BY DEF OfType
<1> HIDE DEF s, X
<1>3. k \in Seq(S) /\ ToSet(k) = ToSet(s) \cap X
    BY <1>1, KeepElements
<1> HIDE DEF k
<1>4. ASSUME HasBundle(ids, sc, type)
      PROVE  MostRecent(ids, sc, type) \in S /\ MostRecent(ids, sc, type) \in ToSet(s) \cap X
    <2>1. k # << >> /\ MostRecent(ids, sc, type) = Last(k)
        BY <1>2, <1>4 DEF HasBundle, MostRecent
    <2>2. Len(k) # 0
        BY <1>3, <2>1, EmptySeq
    <2>3. Last(k) = k[Len(k)] /\ Len(k) \in 1 .. Len(k)
        BY <1>3, <2>2, EndOfTrail
    <2>4. k[Len(k)] \in S /\ k[Len(k)] \in ToSet(k)
        BY <1>3, <2>3, SetOfSeq
    <2> QED BY <1>3, <2>1, <2>3, <2>4
<1> QED BY <1>2, <1>3, <1>4 DEF s, X

\* push_credential_bundle
LEMMA PushAllType ==
    ASSUME NEW key \in Nat, now \in Nat, NEW t \in Nat, t <= now,
           NEW ids \in [Schemes -> Seq(Bundles(key, t))], NEW key2 \in Nat, key <= key2, NEW bs \in Seq(Identity(key2))
    PROVE  PushAll(ids, bs) \in [Schemes -> Seq(Bundles(key2, now))]
<1>1. ASSUME NEW sc \in Schemes PROVE PushAll(ids, bs)[sc] \in Seq(Bundles(key2, now))
    <2> DEFINE X == {b \in ToSet(bs) : b.scheme = sc}
               m == Keep(bs, X)
               n == [i \in 1 .. Len(m) |-> Bundle(m[i])]
    <2>1. m \in Seq(Identity(key2))
        BY KeepElements
    <2>2. PushAll(ids, bs)[sc] = ids[sc] \o n
        BY DEF PushAll
    <2> HIDE DEF m
    <2>3. ASSUME NEW i \in 1 .. Len(m) PROVE Bundle(m[i]) \in Bundles(key2, now)
        <3>1. m[i] \in Identity(key2)
            BY <2>1
        <3>2. now \in 0 .. now
            OBVIOUS
        <3> QED BY <3>1, <3>2 DEF Identity, Bundle, Bundles
    <2>4. n \in Seq(Bundles(key2, now))
        BY <2>1, <2>3
    <2>5. Bundles(key, t) \subseteq Bundles(key2, now)
        <3>1. 1 .. (key - 1) \subseteq 1 .. (key2 - 1) /\ 0 .. t \subseteq 0 .. now
            OBVIOUS
        <3> QED BY <3>1 DEF Bundles
    <2>6. ids[sc] \in Seq(Bundles(key2, now))
        <3>1. ids[sc] \in Seq(Bundles(key, t))
            OBVIOUS
        <3> QED BY <2>5, <3>1, SeqMonotone
    <2> HIDE DEF n
    <2>7. ids[sc] \o n \in Seq(Bundles(key2, now))
        BY <2>4, <2>6, ConcatProperties
    <2> QED BY <2>2, <2>7
<1>2. PushAll(ids, bs) = [sc \in Schemes |-> PushAll(ids, bs)[sc]]
    BY DEF PushAll
<1> QED BY <1>1, <1>2

\* remove
LEMMA RemoveCredentialType ==
    ASSUME NEW S, NEW ids \in [Schemes -> Seq(S)], NEW gone
    PROVE  RemoveCredential(ids, gone) \in [Schemes -> Seq(S)]
<1>1. ASSUME NEW sc \in Schemes PROVE RemoveCredential(ids, gone)[sc] \in Seq(S)
    <2> DEFINE X == {b \in ToSet(ids[sc]) : b.cred \notin gone}
    <2>1. RemoveCredential(ids, gone)[sc] = Keep(ids[sc], X)
        BY DEF RemoveCredential
    <2>2. ids[sc] \in Seq(S)
        OBVIOUS
    <2> HIDE DEF X
    <2>3. Keep(ids[sc], X) \in Seq(S)
        BY <2>2, KeepElements
    <2> QED BY <2>1, <2>3
<1>2. RemoveCredential(ids, gone) = [sc \in Schemes |-> RemoveCredential(ids, gone)[sc]]
    BY DEF RemoveCredential
<1> QED BY <1>1, <1>2

-----------------------------------------------------------------------------
(* load.                                                                   *)

\* The credentials are read in the order of their creation already, and sort_by,
\* which is stable, leaves them in it.
LEMMA SortedInOrder ==
    ASSUME NEW rows \in Seq(CredRow), InOrder(rows)
    PROVE  SortedCredentials(rows) = [n \in 1 .. Len(rows) |-> rows[n].val]
<1> DEFINE Before(i) == {j \in 1 .. Len(rows) :
                            \/ rows[j].val.at < rows[i].val.at
                            \/ rows[j].val.at = rows[i].val.at /\ j <= i}
           Rank(i) == Cardinality(Before(i))
<1>1. Len(rows) \in Nat
    OBVIOUS
<1>2. \A i \in 1 .. Len(rows) : rows[i].val.at \in Nat
    <2> SUFFICES ASSUME NEW i \in 1 .. Len(rows) PROVE rows[i].val.at \in Nat
        OBVIOUS
    <2>1. rows[i] \in CredRow
        OBVIOUS
    <2> QED BY <2>1 DEF CredRow
<1>3. ASSUME NEW i \in 1 .. Len(rows) PROVE Rank(i) = i
    <2>1. ASSUME NEW j \in 1 .. Len(rows) PROVE j \in Before(i) <=> j <= i
        <3>1. rows[i].val.at \in Nat /\ rows[j].val.at \in Nat
            BY <1>2
        <3>2. (j <= i => rows[j].val.at <= rows[i].val.at) /\ (i <= j => rows[i].val.at <= rows[j].val.at)
            BY DEF InOrder
        <3> QED BY <3>1, <3>2
    <2>2. Before(i) = 1 .. i
        BY <1>1, <2>1
    <2>3. Cardinality(1 .. i) = i
        <3>1. 1 \in Int /\ i \in Int /\ ~(1 > i)
            OBVIOUS
        <3>2. Cardinality(1 .. i) = i - 1 + 1
            BY <3>1, FS_Interval
        <3> QED BY <3>2
    <2> QED BY <2>2, <2>3
<1>4. SortedCredentials(rows) = [n \in 1 .. Len(rows) |-> rows[CHOOSE i \in 1 .. Len(rows) : Rank(i) = n].val]
    BY DEF SortedCredentials
<1> HIDE DEF Rank
<1>5. ASSUME NEW n \in 1 .. Len(rows) PROVE (CHOOSE i \in 1 .. Len(rows) : Rank(i) = n) = n
    <2>1. \E i \in 1 .. Len(rows) : Rank(i) = n
        BY <1>3
    <2>2. \A i \in 1 .. Len(rows) : Rank(i) = n => i = n
        BY <1>3
    <2> QED BY <2>1, <2>2
<1> QED BY <1>4, <1>5

\* What load starts from.
LEMMA LoadedCredentials ==
    ASSUME NEW st, NEW key, NEW kp, NEW t, StoreOK(st, key, kp, t)
    PROVE  SortedCredentials(Keep(st.creds, {r \in ToSet(st.creds) : r.id = Me}))
               = [n \in 1 .. Len(st.creds) |-> st.creds[n].val]
<1> DEFINE X == {r \in ToSet(st.creds) : r.id = Me}
<1>1. st.creds \in Seq(CredRow) /\ InOrder(st.creds)
    BY DEF StoreOK, Stores
<1>2. ToSet(st.creds) \subseteq X
    <2>1. ToSet(st.creds) \subseteq CredRow
        BY <1>1, SetOfSeq
    <2> QED BY <2>1 DEF CredRow
<1> HIDE DEF X
<1>3. Keep(st.creds, X) = st.creds
    BY <1>1, <1>2, KeepAll
<1> QED BY <1>1, <1>3, SortedInOrder DEF X

\* What the loop over the schemes has after some turns.
LoadOK(acc, next, t) ==
    /\ acc.ok \in BOOLEAN
    /\ acc.next \in Nat /\ next <= acc.next
    /\ acc.keys \in Seq(KeysBelow(acc.next))
    /\ acc.ids \in [Schemes -> Seq(Bundles(acc.next, t))]

\* One turn.
LEMMA LoadSchemeOK ==
    ASSUME NEW acc, NEW next \in Nat, 1 <= next, NEW t \in Nat, LoadOK(acc, next, t), NEW sc \in Schemes,
           NEW creds \in Seq([cred : Credentials, at : 0 .. t])
    PROVE  LoadOK(LoadScheme(acc, sc, creds), next, t)
<1> DEFINE found == {i \in 1 .. Len(acc.keys) : acc.keys[i].val.scheme = sc}
           pk == IF found = {} THEN acc.next
                  ELSE acc.keys[CHOOSE i \in found : \A j \in found : i <= j].id
           cbs == [i \in 1 .. Len(creds) |-> [cred |-> creds[i].cred, pk |-> pk, at |-> creds[i].at]]
           refused == \E i \in 1 .. Len(cbs) :
                      \/ cbs[i].cred.type = "basic" /\ cbs[i].cred.name # Me
                      \/ cbs[i].cred.type = "x509" /\ cbs[i].cred.pk # pk
                      \/ \E j \in 1 .. (i - 1) : cbs[j] = cbs[i]
           k2 == IF found = {} THEN acc.next + 1 ELSE acc.next
           ks == IF found = {}
                       THEN Save(KeyPairTable, acc.keys, pk, [scheme |-> sc, owner |-> Me]).rows
                       ELSE acc.keys
           ids == [acc.ids EXCEPT ![sc] = cbs]
           res == [ok |-> ~refused, next |-> k2, keys |-> ks, ids |-> ids]
<1>1. LoadScheme(acc, sc, creds) = IF ~acc.ok THEN acc ELSE res
    BY DEF LoadScheme
<1>2. /\ acc.next \in Nat /\ next <= acc.next /\ acc.keys \in Seq(KeysBelow(acc.next))
      /\ acc.ids \in [Schemes -> Seq(Bundles(acc.next, t))]
    BY DEF LoadOK
<1>3. k2 \in Nat /\ acc.next <= k2 /\ next <= k2
    BY <1>2
<1>4. pk \in Nat /\ 1 <= pk /\ pk <= k2 - 1 /\ (found # {} => pk <= acc.next - 1)
    <2>1. CASE found = {}
        BY <1>2, <2>1
    <2>2. CASE found # {}
        <3>1. \E i \in found : \A j \in found : i <= j
            <4>1. found \in SUBSET Nat
                OBVIOUS
            <4> HIDE DEF found
            <4> QED BY <2>2, <4>1, LeastNumber
        <3> DEFINE i == CHOOSE i \in found : \A j \in found : i <= j
        <3>2. i \in found
            BY <3>1
        <3>3. i \in 1 .. Len(acc.keys) /\ pk = acc.keys[i].id
            BY <2>2, <3>2
        <3> HIDE DEF i, pk
        <3>4. acc.keys[i] \in KeysBelow(acc.next)
            BY <1>2, <3>3
        <3>5. pk \in 1 .. (acc.next - 1)
            BY <3>3, <3>4 DEF KeysBelow
        <3> QED BY <1>2, <1>3, <3>5, <2>2
    <2> QED BY <2>1, <2>2
<1> HIDE DEF found, pk
<1>5. KeysBelow(acc.next) \subseteq KeysBelow(k2) /\ Bundles(acc.next, t) \subseteq Bundles(k2, t)
    <2>1. 1 .. (acc.next - 1) \subseteq 1 .. (k2 - 1)
        BY <1>2, <1>3
    <2> QED BY <2>1 DEF KeysBelow, Bundles
<1>6. acc.keys \in Seq(KeysBelow(k2))
    BY <1>2, <1>5, SeqMonotone
<1> HIDE DEF k2
<1>7. ks \in Seq(KeysBelow(k2))
    <2>1. Save(KeyPairTable, acc.keys, pk, [scheme |-> sc, owner |-> Me]).rows \in Seq(KeysBelow(k2))
        BY <1>3, <1>4, <1>6, KeyInserted
    <2> QED BY <1>6, <2>1
<1>8. cbs \in Seq(Bundles(k2, t))
    <2>1. ASSUME NEW i \in 1 .. Len(creds)
          PROVE  [cred |-> creds[i].cred, pk |-> pk, at |-> creds[i].at] \in Bundles(k2, t)
        <3>1. creds[i] \in [cred : Credentials, at : 0 .. t]
            BY ElementOfSeq
        <3>2. pk \in 1 .. (k2 - 1)
            BY <1>3, <1>4
        <3> QED BY <3>1, <3>2 DEF Bundles
    <2> QED BY <2>1
<1> HIDE DEF cbs, ks
<1>9. ids \in [Schemes -> Seq(Bundles(k2, t))]
    <2>1. \A s \in Schemes : acc.ids[s] \in Seq(Bundles(k2, t))
        <3> SUFFICES ASSUME NEW s \in Schemes PROVE acc.ids[s] \in Seq(Bundles(k2, t))
            OBVIOUS
        <3>1. acc.ids[s] \in Seq(Bundles(acc.next, t))
            BY <1>2
        <3> QED BY <1>5, <3>1, SeqMonotone
    <2> QED BY <1>2, <1>8, <2>1
<1>10. refused \in BOOLEAN
    OBVIOUS
<1> HIDE DEF refused, ids
<1>11. res.next = k2 /\ res.keys = ks /\ res.ids = ids
    OBVIOUS
<1>12. res.ok \in BOOLEAN
    BY <1>10
<1> HIDE DEF res
<1>13. LoadOK(res, next, t)
    BY <1>3, <1>7, <1>9, <1>11, <1>12 DEF LoadOK
<1> QED BY <1>1, <1>13

\* load, for any number of schemes.
LEMMA LoadAllOK ==
    ASSUME NEW st, NEW key \in Nat, 1 <= key, NEW kp, NEW t \in Nat, StoreOK(st, key, kp, t),
           NEW order \in Seq(Schemes)
    PROVE  LoadOK(Load(st, order, key), key, t)
<1> DEFINE L == Len(order)
           creds == SortedCredentials(Keep(st.creds, {r \in ToSet(st.creds) : r.id = Me}))
           init == [ok |-> TRUE, keys |-> st.keys, next |-> key, ids |-> Off.ids]
<1>0. L \in Nat
    OBVIOUS
<1>1. PICK f : LoadSteps(f, st, order, key)
    BY LoadUnfold
<1>2. /\ f[0] = init
      /\ \A n \in 0 .. (Len(order) - 1) : f[n + 1] = LoadScheme(f[n], order[n + 1], creds)
      /\ Load(st, order, key) = f[Len(order)]
    BY <1>1 DEF LoadSteps
<1>3. creds = [n \in 1 .. Len(st.creds) |-> st.creds[n].val]
    BY LoadedCredentials
<1> HIDE DEF creds
<1>4. creds \in Seq([cred : Credentials, at : 0 .. t])
    <2>1. st.creds \in Seq(CredRow) /\ Len(st.creds) \in Nat
        BY DEF StoreOK, Stores
    <2>2. ASSUME NEW n \in 1 .. Len(st.creds) PROVE st.creds[n].val \in [cred : Credentials, at : 0 .. t]
        <3>1. st.creds[n] \in CredRow /\ st.creds[n] \in ToSet(st.creds)
            BY <2>1, SetOfSeq
        <3>2. st.creds[n].val.at <= t
            BY <3>1 DEF StoreOK, WithinBounds
        <3> QED BY <3>1, <3>2 DEF CredRow
    <2> QED BY <1>3, <2>1, <2>2
<1> DEFINE T == {n \in Nat : LoadOK(f[n], key, t)}
<1>5. 0 \in T
    <2>1. init.ok = TRUE /\ init.keys = st.keys /\ init.next = key /\ init.ids = [sc \in Schemes |-> << >>]
        BY DEF Off
    <2>2. st.keys \in Seq(KeysBelow(key)) /\ key <= key /\ init.ok \in BOOLEAN /\ key \in Nat
        BY <2>1, KeysOfStore
    <2> HIDE DEF init
    <2>3. init.ids \in [Schemes -> Seq(Bundles(key, t))]
        BY <2>1
    <2>4. LoadOK(init, key, t)
        BY <2>1, <2>2, <2>3, Zenon DEF LoadOK
    <2> QED BY <1>2, <2>4
<1>6. ASSUME NEW n \in Nat, n < L, n \in T PROVE n + 1 \in T
    <2>1. n \in 0 .. (Len(order) - 1) /\ n + 1 \in 1 .. Len(order)
        BY <1>0, <1>6
    <2>2. f[n + 1] = LoadScheme(f[n], order[n + 1], creds) /\ order[n + 1] \in Schemes
        BY <1>2, <2>1
    <2>3. LoadOK(f[n], key, t)
        BY <1>6
    <2>4. LoadOK(f[n + 1], key, t)
        BY <1>4, <2>2, <2>3, LoadSchemeOK
    <2> QED BY <2>4
<1> HIDE DEF T, L
<1>7. 0 .. L \subseteq T
    BY <1>0, <1>5, <1>6, BoundedInduction
<1>8. LoadOK(f[L], key, t)
    BY <1>0, <1>7 DEF T
<1> QED BY <1>2, <1>8 DEF L

\* The order in which a loop goes through a set.
LEMMA OrderOf ==
    ASSUME NEW S, IsFiniteSet(S), NEW order \in SetToSeqs(S)
    PROVE  order \in Seq(S) /\ Len(order) = Cardinality(S) /\ Len(order) \in Nat
<1>1. Cardinality(S) \in Nat
    BY FS_CardinalityType
<1>2. order \in [1 .. Cardinality(S) -> S]
    BY DEF SetToSeqs
<1> QED BY <1>1, <1>2

\* No identity, no bundle.
LEMMA PushNone ==
    ASSUME NEW S, NEW ids \in [Schemes -> Seq(S)]
    PROVE  PushAll(ids, << >>) = ids
<1>1. ASSUME NEW sc \in Schemes PROVE PushAll(ids, << >>)[sc] = ids[sc]
    <2> DEFINE X == {b \in ToSet(<< >>) : b.scheme = sc}
               m == Keep(<< >>, X)
    <2>1. PushAll(ids, << >>)[sc] = ids[sc] \o [i \in 1 .. Len(m) |-> Bundle(m[i])]
        BY DEF PushAll
    <2>2. << >> \in Seq({}) /\ ToSet(<< >>) \subseteq X
        BY DEF ToSet
    <2> HIDE DEF X
    <2>3. m = << >>
        BY <2>2, KeepAll
    <2> HIDE DEF m
    <2>4. [i \in 1 .. Len(m) |-> Bundle(m[i])] = << >>
        BY <2>3
    <2>5. ids[sc] \in Seq(S)
        OBVIOUS
    <2> QED BY <2>1, <2>4, <2>5, ConcatEmptySeq
<1>2. PushAll(ids, << >>) = [sc \in Schemes |-> PushAll(ids, << >>)[sc]]
    BY DEF PushAll
<1> QED BY <1>1, <1>2

\* One identity, one bundle, for its scheme.
LEMMA PushOne ==
    ASSUME NEW S, NEW ids \in [Schemes -> Seq(S)], NEW b, b.scheme \in Schemes, Bundle(b) \in S
    PROVE  PushAll(ids, <<b>>)[b.scheme] = Append(ids[b.scheme], Bundle(b))
<1> DEFINE sc == b.scheme
           bs == <<b>>
           X == {c \in ToSet(bs) : c.scheme = sc}
           m == Keep(bs, X)
           n == [i \in 1 .. Len(m) |-> Bundle(m[i])]
<1>1. PushAll(ids, bs)[sc] = ids[sc] \o n
    BY DEF PushAll
<1>2. bs \in Seq({b}) /\ ToSet(bs) \subseteq X
    BY DEF ToSet
<1> HIDE DEF X
<1>3. m = bs
    BY <1>2, KeepAll
<1> HIDE DEF m
<1>4. n = <<Bundle(b)>>
    BY <1>3
<1> HIDE DEF n
<1>5. ids[sc] \in Seq(S)
    OBVIOUS
<1>6. ids[sc] \o <<Bundle(b)>> = Append(ids[sc], Bundle(b))
    BY <1>5
<1> QED BY <1>1, <1>4, <1>6

\* The bundle pushed last is the most recent of its type.
LEMMA PushedMostRecent ==
    ASSUME NEW S, NEW ids \in [Schemes -> Seq(S)], NEW b, b.scheme \in Schemes, Bundle(b) \in S
    PROVE  /\ HasBundle(PushAll(ids, <<b>>), b.scheme, b.cred.type)
           /\ MostRecent(PushAll(ids, <<b>>), b.scheme, b.cred.type) = Bundle(b)
<1> DEFINE sc == b.scheme
           type == b.cred.type
           x == Bundle(b)
           s == ids[sc]
           a == Append(s, x)
           X == {c \in ToSet(a) : c.cred.type = type}
           k == Keep(a, X)
<1>1. PushAll(ids, <<b>>)[sc] = a
    BY PushOne
<1>2. s \in Seq(S) /\ x \in S
    OBVIOUS
<1>3. a \in Seq(S) /\ a # << >> /\ Len(a) = Len(s) + 1 /\ a[Len(s) + 1] = x
    BY <1>2, AppendProperties
<1>4. x.cred.type = type
    BY DEF Bundle
<1>5. x \in ToSet(a)
    BY <1>2, SetOfSeq
<1>6. a[Len(a)] = x /\ x \in X
    BY <1>3, <1>4, <1>5
<1>7. OfType(PushAll(ids, <<b>>), sc, type) = k
    BY <1>1 DEF OfType
<1> HIDE DEF X, a
<1>8. k # << >> /\ k[Len(k)] = x
    BY <1>3, <1>6, KeepLast
<1> HIDE DEF k, x
<1> QED BY <1>7, <1>8 DEF HasBundle, MostRecent, Last, x

\* What the client holds after a write of a call.
LEMMA AfterOK ==
    ASSUME NEW tr, NEW key, NEW kp, TrailOK(tr, key, kp), NEW n \in 1 .. Len(tr),
           NEW m, After(tr, n, m), MemOK(m, key, now)
    PROVE  StoreOK(store', key, kp, now) /\ MemOK(mem', key, now)
<1>1. StoreOK(tr[n], key, kp, now)
    BY DEF TrailOK
<1>2. MemOK(Off, key, now)
    BY DEF Off, MemOK
<1>3. store' = tr[n] /\ (mem' = m \/ mem' = Off)
    BY DEF After
<1> QED BY <1>1, <1>2, <1>3

\* A bundle stays one when the bounds grow.
LEMMA MemMonotone ==
    ASSUME NEW m, NEW key \in Nat, NEW t \in Nat, MemOK(m, key, t), NEW key2 \in Nat, NEW t2 \in Nat, key <= key2, t <= t2
    PROVE  MemOK(m, key2, t2)
<1>1. Bundles(key, t) \subseteq Bundles(key2, t2)
    <2>1. 1 .. (key - 1) \subseteq 1 .. (key2 - 1) /\ 0 .. t \subseteq 0 .. t2
        OBVIOUS
    <2> QED BY <2>1 DEF Bundles
<1>2. \A sc \in Schemes : m.ids[sc] \in Seq(Bundles(key2, t2))
    <2> SUFFICES ASSUME NEW sc \in Schemes PROVE m.ids[sc] \in Seq(Bundles(key2, t2))
        OBVIOUS
    <2>1. m.ids[sc] \in Seq(Bundles(key, t))
        BY DEF MemOK
    <2> QED BY <1>1, <2>1, SeqMonotone
<1>3. m = [on |-> m.on, ids |-> m.ids] /\ m.on \in BOOLEAN /\ m.ids = [sc \in Schemes |-> m.ids[sc]]
    BY DEF MemOK
<1>4. m.ids \in [Schemes -> Seq(Bundles(key2, t2))]
    BY <1>2, <1>3
<1> QED BY <1>3, <1>4 DEF MemOK

\* A sequence of elements of another one, in its order.
FromPlaces(k, s) ==
    \A i, j \in 1 .. Len(k) : i < j => \E a, b \in 1 .. Len(s) : a < b /\ k[i] = s[a] /\ k[j] = s[b]

\* Keep does not change the order.
LEMMA KeepOrdered ==
    ASSUME NEW S, NEW s \in Seq(S), NEW good
    PROVE  FromPlaces(Keep(s, good), s)
    BY KeepElements DEF FromPlaces

\* delete_by_credential
LEMMA CredentialsKept ==
    ASSUME NEW st, NEW key, NEW kp, NEW t, StoreOK(st, key, kp, t), NEW gone
    PROVE  /\ StoreOK(DeleteByCredential(st, gone), key, kp, t)
           /\ SamePackages(st, DeleteByCredential(st, gone))
           /\ DeleteByCredential(st, gone).keys = st.keys
           /\ DeleteByCredential(st, gone).creds = Keep(st.creds, {r \in ToSet(st.creds) : r.val.cred \notin gone})
<1> DEFINE X == {r \in ToSet(st.creds) : r.val.cred \notin gone}
           rows == st.creds
           k == Keep(rows, X)
           s == DeleteByCredential(st, gone)
<1>1. st \in Stores /\ rows \in Seq(CredRow)
    BY DEF StoreOK, Stores
<1>2. s = [st EXCEPT !.creds = k]
    BY DEF DeleteByCredential
<1> HIDE DEF X
<1>9. /\ k \in Seq(CredRow) /\ Len(k) <= Len(rows) /\ ToSet(k) = ToSet(rows) \cap X
    BY <1>1, KeepElements
<1>3. FromPlaces(k, rows)
    BY <1>1, KeepOrdered
<1> HIDE DEF k
<1>4. /\ s \in Stores /\ s.creds = k /\ s.keys = st.keys
      /\ s.kps = st.kps /\ s.groups = st.groups
      /\ s.hpke = st.hpke /\ s.enc = st.enc /\ s.expired = st.expired
    BY <1>1, <1>2, <1>9 DEF Stores
<1> HIDE DEF s
<1>8. \A r \in ToSet(s.creds) : r.val.at <= t
    <2>1. \A r \in ToSet(k) : r \in ToSet(st.creds)
        BY <1>9
    <2> QED BY <1>4, <2>1 DEF StoreOK, WithinBounds
<1>5. WithinBounds(s, key, kp, t)
    BY <1>4, <1>8 DEF StoreOK, WithinBounds
<1>6. InOrder(k)
    <2> SUFFICES ASSUME NEW i \in 1 .. Len(k), NEW j \in 1 .. Len(k), i <= j PROVE k[i].val.at <= k[j].val.at
        BY DEF InOrder
    <2>1. CASE i = j
        <3>1. k[i] \in CredRow
            BY <1>9
        <3>2. k[i].val.at \in Nat
            BY <3>1 DEF CredRow
        <3> QED BY <2>1, <3>2
    <2>2. CASE i # j
        <3>1. i < j
            BY <2>2
        <3>2. PICK a \in 1 .. Len(rows), b \in 1 .. Len(rows) : a < b /\ k[i] = rows[a] /\ k[j] = rows[b]
            BY <1>3, <3>1 DEF FromPlaces
        <3>3. a <= b
            BY <3>2
        <3> QED BY <3>2, <3>3 DEF StoreOK, InOrder
    <2> QED BY <2>1, <2>2
<1>7. OnePerId(k)
    <2>1. Len(k) \in Nat /\ Len(rows) \in Nat
        BY <1>1, <1>9
    <2>2. OnePerId(rows)
        BY DEF StoreOK
    <2> QED BY <1>9, <2>1, <2>2 DEF OnePerId
<1> QED BY <1>4, <1>5, <1>6, <1>7 DEF StoreOK, SamePackages, s, k, X

-----------------------------------------------------------------------------
(* Every action keeps TypeInv.                                             *)

\* What TypeInv says of the numbers.
LEMMA TypeParts ==
    ASSUME TypeInv
    PROVE  /\ fresh.key \in Nat /\ 1 <= fresh.key /\ fresh.key <= MaxKeys + 1
           /\ fresh.cert \in Nat /\ 1 <= fresh.cert /\ fresh.cert <= MaxCerts + 1
           /\ fresh.kp \in Nat /\ 1 <= fresh.kp
           /\ now \in Nat /\ usage \in Usages /\ bound \in BOOLEAN
           /\ toRemove \subseteq 1 .. (fresh.kp - 1)
           /\ StoreOK(store, fresh.key, fresh.kp, now) /\ MemOK(mem, fresh.key, now)
           /\ NbKeyPackages \in Nat /\ MaxKeys \in Nat /\ MaxCerts \in Nat
           /\ IsFiniteSet(Schemes) /\ IsFiniteSet(Groups)
    BY ClientAssumption DEF TypeInv, FreshOK

\* What is left to show of a step.
LEMMA TypeStep ==
    ASSUME TypeInv, NEW key \in Nat, NEW cert \in Nat, NEW kp \in Nat,
           fresh.key <= key, key <= MaxKeys + 1, fresh.cert <= cert, cert <= MaxCerts + 1, fresh.kp <= kp,
           fresh' = [key |-> key, cert |-> cert, kp |-> kp],
           now' = now, usage' = usage, bound' \in BOOLEAN, toRemove' \subseteq 1 .. (kp - 1),
           StoreOK(store', key, kp, now), MemOK(mem', key, now)
    PROVE  TypeInv'
<1>1. fresh'.key = key /\ fresh'.cert = cert /\ fresh'.kp = kp
    OBVIOUS
<1>2. FreshOK'
    BY <1>1, TypeParts DEF FreshOK
<1> QED BY <1>1, <1>2, TypeParts DEF TypeInv

\* The same when no id is given out.
LEMMA TypeStepSame ==
    ASSUME TypeInv, UNCHANGED <<fresh, now, usage>>, bound' \in BOOLEAN, toRemove' \subseteq 1 .. (fresh.kp - 1),
           StoreOK(store', fresh.key, fresh.kp, now), MemOK(mem', fresh.key, now)
    PROVE  TypeInv'
<1>1. fresh' = fresh /\ now' = now /\ usage' = usage
    OBVIOUS
<1>2. FreshOK'
    BY <1>1, TypeParts DEF FreshOK, TypeInv
<1>3. StoreOK(store', fresh'.key, fresh'.kp, now') /\ MemOK(mem', fresh'.key, now')
    BY <1>1
<1>4. toRemove' \subseteq 1 .. (fresh'.kp - 1) /\ now' \in Nat /\ usage' \in Usages
    BY <1>1, TypeParts
<1> QED BY <1>2, <1>3, <1>4 DEF TypeInv

\* An identity.
LEMMA IdentityOf ==
    ASSUME NEW key, NEW sc \in Schemes, NEW pk \in 1 .. (key - 1), NEW c \in Credentials
    PROVE  [scheme |-> sc, pk |-> pk, cred |-> c] \in Identity(key)
    BY DEF Identity

\* The identities of Client::generate.
LEMMA GeneratedIdentities ==
    ASSUME TypeInv, NEW order \in Seq(Schemes), NEW type,
           fresh.key + Len(order) - 1 <= MaxKeys, type = "basic" \/ fresh.cert + Len(order) - 1 <= MaxCerts
    PROVE  [i \in 1 .. Len(order) |->
                    [scheme |-> order[i], pk |-> fresh.key + i - 1,
                     cred |-> IF type = "basic" THEN Basic(Me)
                              ELSE X509(fresh.cert + i - 1, fresh.key + i - 1)]] \in Seq(Identity(fresh.key + Len(order)))
<1>1. /\ fresh.key \in Nat /\ 1 <= fresh.key /\ fresh.cert \in Nat /\ 1 <= fresh.cert
      /\ MaxKeys \in Nat /\ MaxCerts \in Nat /\ Len(order) \in Nat
    BY TypeParts
<1> DEFINE B(i) == [scheme |-> order[i], pk |-> fresh.key + i - 1,
                     cred |-> IF type = "basic" THEN Basic(Me)
                              ELSE X509(fresh.cert + i - 1, fresh.key + i - 1)]
<1>2. ASSUME NEW i \in 1 .. Len(order) PROVE B(i) \in Identity(fresh.key + Len(order))
    <2>1. fresh.key + i - 1 \in 1 .. (fresh.key + Len(order) - 1) /\ fresh.key + i - 1 \in 1 .. MaxKeys
        BY <1>1
    <2>2. order[i] \in Schemes
        OBVIOUS
    <2> DEFINE K == fresh.key + Len(order)
               p == fresh.key + i - 1
               c == IF type = "basic" THEN Basic(Me) ELSE X509(fresh.cert + i - 1, fresh.key + i - 1)
    <2>3. c \in Credentials
        <3>1. CASE type = "basic"
            BY <3>1 DEF Credentials
        <3>2. CASE type # "basic"
            <4>1. fresh.cert + i - 1 \in 1 .. MaxCerts
                BY <1>1, <3>2
            <4> QED BY <2>1, <3>2, <4>1 DEF Credentials
        <3> QED BY <3>1, <3>2
    <2>4. p \in 1 .. (K - 1)
        BY <1>1, <2>1
    <2> HIDE DEF K, p, c
    <2>6. [scheme |-> order[i], pk |-> p, cred |-> c] \in Identity(K)
        BY <2>2, <2>3, <2>4 DEF Identity
    <2> QED BY <2>6 DEF K, p, c
<1> QED BY <1>1, <1>2

\* mls_init on an empty store
LEMMA InitGenerateType ==
    ASSUME TypeInv, NEW order \in SetToSeqs(Schemes), NEW type \in Types, InitGenerate(type, order)
    PROVE  TypeInv'
<1> DEFINE L == Len(order)
           bs == [i \in 1 .. Len(order) |->
                    [scheme |-> order[i], pk |-> fresh.key + i - 1,
                     cred |-> IF type = "basic" THEN Basic(Me)
                              ELSE X509(fresh.cert + i - 1, fresh.key + i - 1)]]
           trail == GenerateTrail(store, bs, fresh.kp)
           new == [on |-> TRUE, ids |-> PushAll(Off.ids, bs)]
           m == IF PruneFails(store, {}) THEN mem ELSE new
           key == fresh.key + L
           kp == fresh.kp + L * NbKeyPackages
           cert == IF type = "x509" THEN fresh.cert + L ELSE fresh.cert
<1>1. order \in Seq(Schemes) /\ L \in Nat
    BY TypeParts, OrderOf
<1>2. /\ fresh.key + Len(order) - 1 <= MaxKeys
      /\ type = "x509" => fresh.cert + Len(order) - 1 <= MaxCerts
      /\ \E n \in 1 .. Len(trail) : After(trail, n, m) /\ bound' = (n = Len(trail) /\ ~PruneFails(store, {}))
      /\ fresh' = [key |-> key, kp |-> kp, cert |-> cert]
      /\ toRemove' = toRemove /\ usage' = usage /\ now' = now
    BY DEF InitGenerate
<1>3. type = "basic" \/ fresh.cert + Len(order) - 1 <= MaxCerts
    BY <1>2 DEF Types
<1>4. bs \in Seq(Identity(key))
    BY <1>1, <1>2, <1>3, GeneratedIdentities
<1>5. L * NbKeyPackages \in Nat
    <2>1. NbKeyPackages \in Nat
        BY TypeParts
    <2> QED BY <1>1, <2>1
<1>6. /\ key \in Nat /\ fresh.key <= key /\ key <= MaxKeys + 1 /\ kp \in Nat /\ fresh.kp <= kp
      /\ cert \in Nat /\ fresh.cert <= cert /\ cert <= MaxCerts + 1
    <2>0. /\ fresh.key + Len(order) - 1 <= MaxKeys
          /\ type = "x509" => fresh.cert + Len(order) - 1 <= MaxCerts
        BY <1>2, Zenon
    <2>1. key \in Nat /\ fresh.key <= key /\ key <= MaxKeys + 1
        BY <1>1, <2>0, TypeParts
    <2>2. kp \in Nat /\ fresh.kp <= kp
        <3> DEFINE P == L * NbKeyPackages
        <3>1. P \in Nat /\ kp = fresh.kp + P
            BY <1>5
        <3> HIDE DEF P
        <3> QED BY <3>1, TypeParts
    <2>3. cert \in Nat /\ fresh.cert <= cert /\ cert <= MaxCerts + 1
        BY <1>1, <2>0, TypeParts
    <2> QED BY <2>1, <2>2, <2>3
<1>7. Len(bs) = L
    BY <1>1
<1>8. StoreOK(store, key, fresh.kp, now)
    BY <1>6, TypeParts, StoreMonotone
<1> HIDE DEF bs, key
<1>9. TrailOK(trail, key, fresh.kp + Len(bs) * NbKeyPackages)
    BY <1>4, <1>6, <1>8, TypeParts, GenerateOK
<1>10. TrailOK(trail, key, kp)
    BY <1>7, <1>9
<1>11. MemOK(m, key, now)
    <2>1. Off.ids \in [Schemes -> Seq(Bundles(key, now))]
        BY DEF Off
    <2>2. now <= now /\ key <= key /\ now \in Nat
        BY <1>6, TypeParts
    <2>3. PushAll(Off.ids, bs) \in [Schemes -> Seq(Bundles(key, now))]
        BY <1>4, <1>6, <2>1, <2>2, PushAllType
    <2>4. MemOK(new, key, now)
        BY <2>3 DEF MemOK
    <2>5. MemOK(mem, key, now)
        BY <1>6, <2>2, TypeParts, MemMonotone
    <2> HIDE DEF new
    <2> QED BY <2>4, <2>5
<1> HIDE DEF trail, m, kp, cert
<1>12. StoreOK(store', key, kp, now) /\ MemOK(mem', key, now) /\ bound' \in BOOLEAN
    <2>1. PICK n \in 1 .. Len(trail) : After(trail, n, m) /\ bound' = (n = Len(trail) /\ ~PruneFails(store, {}))
        BY <1>2
    <2>2. bound' \in BOOLEAN
        BY <2>1
    <2> QED BY <1>10, <1>11, <2>1, <2>2, AfterOK
<1>13. toRemove' \subseteq 1 .. (kp - 1)
    BY <1>2, <1>6, TypeParts
<1> QED BY <1>2, <1>6, <1>12, <1>13, TypeStep

\* mls_init on a store with credentials
LEMMA InitLoadType ==
    ASSUME TypeInv, NEW order \in SetToSeqs(Schemes), InitLoad(order)
    PROVE  TypeInv'
<1> DEFINE loaded == Load(store, order, fresh.key)
           key == loaded.next
<1>1. order \in Seq(Schemes)
    BY TypeParts, OrderOf
<1>2. LoadOK(loaded, fresh.key, now)
    BY <1>1, TypeParts, LoadAllOK
<1>3. /\ loaded.next <= MaxKeys + 1
      /\ store' = [store EXCEPT !.keys = loaded.keys]
      /\ mem' = IF loaded.ok THEN [on |-> TRUE, ids |-> loaded.ids] ELSE mem
      /\ bound' = (bound \/ loaded.ok)
      /\ fresh' = [fresh EXCEPT !.key = loaded.next]
      /\ toRemove' = toRemove /\ usage' = usage /\ now' = now
    BY DEF InitLoad
<1> HIDE DEF loaded
<1>4. /\ loaded.ok \in BOOLEAN /\ key \in Nat /\ fresh.key <= key
      /\ loaded.keys \in Seq(KeysBelow(key)) /\ loaded.ids \in [Schemes -> Seq(Bundles(key, now))]
    BY <1>2 DEF LoadOK
<1>5. StoreOK(store', key, fresh.kp, now)
    BY <1>3, <1>4, TypeParts, KeysReplaced
<1>6. MemOK(mem', key, now)
    <2>1. MemOK(mem, key, now)
        <3>1. now <= now
            BY TypeParts
        <3> QED BY <1>4, <3>1, TypeParts, MemMonotone
    <2>2. MemOK([on |-> TRUE, ids |-> loaded.ids], key, now)
        BY <1>4 DEF MemOK
    <2> QED BY <1>3, <2>1, <2>2
<1>7. fresh' = [key |-> key, cert |-> fresh.cert, kp |-> fresh.kp]
    BY <1>3 DEF TypeInv, FreshOK
<1>8. bound' \in BOOLEAN
    BY <1>3, <1>4, TypeParts
<1>9. toRemove' \subseteq 1 .. (fresh.kp - 1) /\ fresh.cert <= fresh.cert /\ fresh.kp <= fresh.kp
    BY <1>3, TypeParts
<1> HIDE DEF key
<1>10. key <= MaxKeys + 1
    BY <1>3 DEF key
<1> QED BY <1>3, <1>4, <1>5, <1>6, <1>7, <1>8, <1>9, <1>10, TypeParts, TypeStep

\* generate_raw_keypairs
LEMMA GenerateRawKeypairsType ==
    ASSUME TypeInv, NEW order \in SetToSeqs(Schemes), GenerateRawKeypairs(order)
    PROVE  TypeInv'
<1> DEFINE trail == RawKeypairs(store, order, fresh.key)
           key == fresh.key + Len(order)
<1>1. order \in Seq(Schemes) /\ Len(order) \in Nat
    BY TypeParts, OrderOf
<1>2. /\ fresh.key + Len(order) - 1 <= MaxKeys
      /\ \E n \in 1 .. Len(order) : store' = trail[n]
      /\ fresh' = [fresh EXCEPT !.key = @ + Len(order)]
      /\ mem' = mem /\ toRemove' = toRemove /\ usage' = usage /\ now' = now /\ bound' = bound
    BY DEF GenerateRawKeypairs
<1>3. TrailOK(trail, key, fresh.kp) /\ Len(trail) = Len(order)
    BY <1>1, TypeParts, RawOK
<1> HIDE DEF trail
<1>4. StoreOK(store', key, fresh.kp, now)
    BY <1>2, <1>3 DEF TrailOK
<1>5. key \in Nat /\ fresh.key <= key /\ key <= MaxKeys + 1
    BY <1>1, <1>2, TypeParts
<1>6. fresh' = [key |-> key, cert |-> fresh.cert, kp |-> fresh.kp]
    BY <1>2 DEF TypeInv, FreshOK
<1> HIDE DEF key
<1>7. MemOK(mem', key, now)
    <2>1. now <= now
        BY TypeParts
    <2>2. MemOK(mem, key, now)
        BY <1>5, <2>1, TypeParts, MemMonotone
    <2> QED BY <1>2, <2>2
<1>8. toRemove' \subseteq 1 .. (fresh.kp - 1) /\ fresh.cert <= fresh.cert /\ fresh.kp <= fresh.kp /\ bound' \in BOOLEAN
    BY <1>2, TypeParts
<1> QED BY <1>2, <1>4, <1>5, <1>6, <1>7, <1>8, TypeParts, TypeStep

\* init_with_external_client_id
LEMMA InitExternalType ==
    ASSUME TypeInv, InitExternal
    PROVE  TypeInv'
<1> DEFINE tmp == store.keys
           trail == AdoptKeypairs(store, tmp)
           bs == [i \in 1 .. Len(tmp) |-> Provisional(tmp[i])]
           m == [on |-> TRUE, ids |-> PushAll(Off.ids, bs)]
           key == fresh.key
<1>1. /\ \E n \in 1 .. Len(trail) : After(trail, n, m) /\ bound' = (n = Len(trail))
      /\ toRemove' = toRemove /\ usage' = usage /\ fresh' = fresh /\ now' = now
    BY DEF InitExternal
<1>2. tmp \in Seq(KeysBelow(key))
    BY TypeParts, KeysOfStore
<1> HIDE DEF tmp
<1>3. TrailOK(trail, key, fresh.kp)
    BY <1>2, TypeParts, AdoptOK
<1>4. bs \in Seq(Identity(key))
    <2>1. \A i \in 1 .. Len(tmp) : Provisional(tmp[i]) \in Identity(key)
        <3> SUFFICES ASSUME NEW i \in 1 .. Len(tmp) PROVE Provisional(tmp[i]) \in Identity(key)
            OBVIOUS
        <3>1. tmp[i] \in KeysBelow(key)
            BY <1>2
        <3> QED BY <3>1, ProvisionalIdentity
    <2> QED BY <1>2, <2>1
<1> HIDE DEF bs
<1>5. MemOK(m, key, now)
    <2>1. Off.ids \in [Schemes -> Seq(Bundles(key, now))]
        BY DEF Off
    <2>2. now <= now /\ key <= key /\ now \in Nat /\ key \in Nat
        BY TypeParts
    <2>3. PushAll(Off.ids, bs) \in [Schemes -> Seq(Bundles(key, now))]
        BY <1>4, <2>1, <2>2, PushAllType
    <2> QED BY <2>3 DEF MemOK
<1> HIDE DEF trail, m
<1>6. StoreOK(store', key, fresh.kp, now) /\ MemOK(mem', key, now) /\ bound' \in BOOLEAN
    <2>1. PICK n \in 1 .. Len(trail) : After(trail, n, m) /\ bound' = (n = Len(trail))
        BY <1>1
    <2>2. bound' \in BOOLEAN
        BY <2>1
    <2> QED BY <1>3, <1>5, <2>1, <2>2, AfterOK
<1>7. toRemove' \subseteq 1 .. (fresh.kp - 1)
    BY <1>1, TypeParts
<1> QED BY <1>1, <1>6, <1>7, TypeStepSame

\* The trail of request_key_packages.
LEMMA RequestTrailOK ==
    ASSUME NEW st, NEW key, NEW kp \in Nat, 1 <= kp, StoreOK(st, key, kp, now), NEW sc \in Schemes,
           NEW count \in Nat, NEW b,
           Lacking(st, sc, count) > 0 => b.cred \in Credentials /\ b.pk \in 1 .. MaxKeys
    PROVE  /\ Lacking(st, sc, count) \in Nat
           /\ TrailOK(RequestTrail(st, kp, sc, b, count), key, kp + Lacking(st, sc, count))
<1> DEFINE k == Lacking(st, sc, count)
           tr == RequestTrail(st, kp, sc, b, count)
           v == KpOf(b, sc)
<1>1. st \in Stores
    BY DEF StoreOK
<1>2. k \in Nat
    BY <1>1, LackingRange
<1>3. RequestOK(st, tr, kp, k, v)
    BY <1>1, RequestKeyPackagesTrail
<1> HIDE DEF k, tr, v
<1>4. kp + k \in Nat /\ kp <= kp + k /\ kp + k <= kp + k
    BY <1>2
<1>5. ASSUME NEW n \in 1 .. Len(tr) PROVE StoreOK(tr[n], key, kp + k, now)
    <2>1. Requested(st, tr[n], kp, k, v)
        BY <1>3 DEF RequestOK
    <2> QED BY <1>2, <1>4, <2>1, RequestedOK
<1>6. TrailOK(tr, key, kp + k)
    BY <1>3, <1>5 DEF RequestOK, TrailOK
<1> QED BY <1>2, <1>6 DEF k, tr

\* The trail of _prune_keypackages.
LEMMA PruneOK ==
    ASSUME NEW st, NEW key, NEW kp, StoreOK(st, key, kp, now), NEW refs
    PROVE  TrailOK(Prune(st, refs), key, kp) /\ StoreOK(EndOf(st, Prune(st, refs)), key, kp, now)
<1> DEFINE tr == Prune(st, refs)
<1>1. st \in Stores
    BY DEF StoreOK
<1>2. tr \in Seq(Stores) /\ (\A n \in 1 .. Len(tr) : Pruned(st, tr[n])) /\ Pruned(st, EndOf(st, tr))
    BY <1>1, PruneTrail
<1> HIDE DEF tr
<1>3. TrailOK(tr, key, kp) /\ StoreOK(EndOf(st, tr), key, kp, now)
    BY <1>2, PrunedOK DEF TrailOK
<1> QED BY <1>3 DEF tr

\* get_or_create_client_keypackages
LEMMA RequestKeyPackagesType ==
    ASSUME TypeInv, NEW sc \in Schemes, NEW type \in Types, RequestKeyPackages(sc, type)
    PROVE  TypeInv'
<1> DEFINE k == Lacking(store, sc, NbKeyPackages)
           b == MostRecent(mem.ids, sc, type)
           trail == RequestTrail(store, fresh.kp, sc, b, NbKeyPackages)
           pruned == Prune(store, {})
<1>1. /\ IF PruneFails(store, {}) \/ (k > 0 /\ ~HasBundle(mem.ids, sc, type))
         THEN (\E n \in 1 .. Len(pruned) : After(pruned, n, mem)) /\ fresh' = fresh
         ELSE (\E n \in 1 .. Len(trail) : After(trail, n, mem)) /\ fresh' = [fresh EXCEPT !.kp = @ + k]
      /\ toRemove' = toRemove /\ usage' = usage /\ now' = now /\ bound' = bound
    BY DEF RequestKeyPackages
<1>2. k \in Nat
    BY TypeParts, LackingRange DEF StoreOK
<1>3. CASE PruneFails(store, {}) \/ (k > 0 /\ ~HasBundle(mem.ids, sc, type))
    <2>1. TrailOK(pruned, fresh.key, fresh.kp)
        BY TypeParts, PruneOK
    <2> HIDE DEF pruned, k, b, trail
    <2>2. StoreOK(store', fresh.key, fresh.kp, now) /\ MemOK(mem', fresh.key, now) /\ fresh' = fresh
        BY <1>1, <1>3, <2>1, TypeParts, AfterOK
    <2>3. toRemove' \subseteq 1 .. (fresh.kp - 1) /\ bound' \in BOOLEAN
        BY <1>1, TypeParts
    <2> QED BY <1>1, <2>2, <2>3, TypeStepSame
<1>4. CASE ~(PruneFails(store, {}) \/ (k > 0 /\ ~HasBundle(mem.ids, sc, type)))
    <2>1. k > 0 => b.cred \in Credentials /\ b.pk \in 1 .. MaxKeys
        <3> SUFFICES ASSUME k > 0 PROVE b.cred \in Credentials /\ b.pk \in 1 .. MaxKeys
            OBVIOUS
        <3>1. mem.ids \in [Schemes -> Seq(Bundles(fresh.key, now))]
            BY TypeParts DEF MemOK
        <3>2. b \in Bundles(fresh.key, now)
            BY <1>4, <3>1, BundlesOfType
        <3>3. b.cred \in Credentials /\ b.pk \in 1 .. (fresh.key - 1)
            BY <3>2 DEF Bundles
        <3> QED BY <3>3, TypeParts
    <2> HIDE DEF b
    <2>2. TrailOK(trail, fresh.key, fresh.kp + k)
        BY <2>1, TypeParts, RequestTrailOK
    <2> HIDE DEF trail, k
    <2>3. StoreOK(store', fresh.key, fresh.kp + k, now) /\ MemOK(mem', fresh.key, now) /\ fresh' = [fresh EXCEPT !.kp = @ + k]
        BY <1>1, <1>4, <2>2, TypeParts, AfterOK
    <2> DEFINE kp == fresh.kp + k
    <2>4. kp \in Nat /\ fresh.kp <= kp /\ fresh.key <= fresh.key /\ fresh.cert <= fresh.cert
        BY <1>2, TypeParts
    <2>5. fresh' = [key |-> fresh.key, cert |-> fresh.cert, kp |-> kp]
        BY <2>3 DEF TypeInv, FreshOK
    <2>6. toRemove' \subseteq 1 .. (kp - 1) /\ bound' \in BOOLEAN
        BY <1>1, <2>4, TypeParts
    <2>7. now' = now /\ usage' = usage /\ StoreOK(store', fresh.key, kp, now)
        BY <1>1, <2>3
    <2> HIDE DEF kp
    <2> QED BY <2>3, <2>4, <2>5, <2>6, <2>7, TypeParts, TypeStep
<1> QED BY <1>3, <1>4

\* A store in which only the conversations change.
LEMMA GroupReplaced ==
    ASSUME NEW st, NEW key, NEW kp, NEW t, StoreOK(st, key, kp, t), NEW g \in Groups, NEW v \in GroupRow
    PROVE  /\ StoreOK([st EXCEPT !.groups[g] = v], key, kp, t)
           /\ [st EXCEPT !.groups[g] = v].groups = [st.groups EXCEPT ![g] = v]
           /\ [st EXCEPT !.groups[g] = v].creds = st.creds
           /\ [st EXCEPT !.groups[g] = v].keys = st.keys
           /\ [st EXCEPT !.groups[g] = v].kps = st.kps
           /\ [st EXCEPT !.groups[g] = v].hpke = st.hpke
           /\ [st EXCEPT !.groups[g] = v].enc = st.enc
           /\ [st EXCEPT !.groups[g] = v].expired = st.expired
<1> DEFINE gs == [st.groups EXCEPT ![g] = v]
           s == [st EXCEPT !.groups = gs]
<1>1. st \in Stores /\ st.groups \in [Groups -> GroupRow \cup {None}]
    BY DEF StoreOK, Stores
<1>2. gs \in [Groups -> GroupRow \cup {None}]
    BY <1>1
<1>3. [st EXCEPT !.groups[g] = v] = s
    OBVIOUS
<1> HIDE DEF gs
<1>4. /\ s \in Stores /\ s.groups = gs /\ s.creds = st.creds /\ s.keys = st.keys /\ s.kps = st.kps
      /\ s.hpke = st.hpke /\ s.enc = st.enc /\ s.expired = st.expired
    BY <1>1, <1>2 DEF Stores
<1> HIDE DEF s
<1>5. WithinBounds(s, key, kp, t)
    BY <1>4 DEF StoreOK, WithinBounds
<1>6. StoreOK(s, key, kp, t)
    BY <1>4, <1>5 DEF StoreOK
<1> QED BY <1>3, <1>4, <1>6 DEF gs

\* The leaf of a bundle.
LEMMA LeafOfBundle ==
    ASSUME TypeInv, NEW key \in Nat, key <= MaxKeys + 1, NEW b \in Bundles(key, now)
    PROVE  Leaf(b) \in LeafType
<1>1. b.cred \in Credentials /\ b.pk \in 1 .. (key - 1)
    BY DEF Bundles
<1>2. b.pk \in 1 .. MaxKeys
    BY <1>1, TypeParts
<1> QED BY <1>1, <1>2 DEF Leaf, LeafType

\* create
LEMMA NewConversationType ==
    ASSUME TypeInv, NEW g \in Groups, NEW sc \in Schemes, NEW type \in Types, NewConversation(g, sc, type)
    PROVE  TypeInv'
<1> DEFINE create == type = "basic" /\ ~HasBundle(mem.ids, sc, type)
           b == [scheme |-> sc, pk |-> fresh.key, cred |-> Basic(Me)]
           bs == IF create THEN <<b>> ELSE << >>
           ids == PushAll(mem.ids, bs)
           saved == SaveIdentities(store, bs)
           leaf == Leaf(MostRecent(ids, sc, type))
           v == [scheme |-> sc, leaf |-> leaf, pending |-> None]
           last == SetGroup(EndOf(store, saved), g, v)
           trail == Append(saved, last)
           m == [mem EXCEPT !.ids = ids]
           key == fresh.key + Len(bs)
<1>1. /\ create \/ HasBundle(mem.ids, sc, type)
      /\ fresh.key + Len(bs) - 1 <= MaxKeys
      /\ \E n \in 1 .. Len(trail) : After(trail, n, m)
      /\ fresh' = [fresh EXCEPT !.key = @ + Len(bs)]
      /\ toRemove' = toRemove /\ usage' = usage /\ now' = now /\ bound' = bound
    BY DEF NewConversation
<1>2. Len(bs) \in {0, 1}
    OBVIOUS
<1>3. key \in Nat /\ fresh.key <= key /\ key <= MaxKeys + 1
    BY <1>1, <1>2, TypeParts
<1>4. bs \in Seq(Identity(key))
    <2>1. CASE create
        <3>1. key = fresh.key + 1 /\ bs = <<b>>
            BY <2>1
        <3>2. fresh.key \in 1 .. (key - 1)
            BY <3>1, TypeParts
        <3>3. Basic(Me) \in Credentials
            BY DEF Credentials
        <3> HIDE DEF key
        <3>4. b \in Identity(key)
            BY <3>2, <3>3, IdentityOf
        <3> HIDE DEF b, bs
        <3>5. <<b>> \in Seq(Identity(key))
            BY <3>4
        <3> QED BY <3>1, <3>5
    <2>2. CASE ~create
        <3>1. bs = << >>
            BY <2>2
        <3>2. << >> \in Seq(Identity(key))
            BY EmptySeq
        <3> HIDE DEF bs, key
        <3> QED BY <3>1, <3>2
    <2> QED BY <2>1, <2>2
<1>5. mem.ids \in [Schemes -> Seq(Bundles(fresh.key, now))] /\ now \in Nat /\ now <= now
    BY TypeParts DEF MemOK
<1>6. ids \in [Schemes -> Seq(Bundles(key, now))]
    <2> HIDE DEF bs, key
    <2> QED BY <1>3, <1>4, <1>5, TypeParts, PushAllType
<1>7. MemOK(m, key, now)
    <2> HIDE DEF ids, key
    <2> QED BY <1>6, TypeParts DEF MemOK
<1>8. HasBundle(ids, sc, type)
    <2>1. CASE create
        <3>1. bs = <<b>> /\ b.scheme = sc /\ b.cred.type = type
            BY <2>1 DEF Basic
        <3>2. Bundle(b) \in Bundles(key, now)
            <4>1. b \in Identity(key)
                <5>1. bs[1] \in Identity(key) /\ bs[1] = b
                    <6>1. Len(bs) = 1 /\ bs[1] = b
                        BY <3>1
                    <6> HIDE DEF bs, key, b
                    <6> QED BY <6>1, <1>4
                <5> QED BY <5>1
            <4> HIDE DEF b, key
            <4>2. now \in 0 .. now
                BY TypeParts
            <4> QED BY <4>1, <4>2 DEF Identity, Bundle, Bundles
        <3>3. mem.ids \in [Schemes -> Seq(Bundles(key, now))]
            <4> HIDE DEF key
            <4>1. MemOK(mem, key, now)
                BY <1>3, <1>5, TypeParts, MemMonotone
            <4> QED BY <4>1 DEF MemOK
        <3> HIDE DEF b, key
        <3>4. HasBundle(PushAll(mem.ids, <<b>>), b.scheme, b.cred.type)
            BY <3>1, <3>2, <3>3, PushedMostRecent
        <3> QED BY <3>1, <3>4
    <2>2. CASE ~create
        <3>1. bs = << >>
            BY <2>2
        <3>2. ids = mem.ids
            BY <1>5, <3>1, PushNone
        <3> QED BY <1>1, <2>2, <3>2
    <2> QED BY <2>1, <2>2
<1>9. leaf \in LeafType
    <2> HIDE DEF ids, key
    <2>1. MostRecent(ids, sc, type) \in Bundles(key, now)
        BY <1>6, <1>8, BundlesOfType
    <2> QED BY <1>3, <2>1, LeafOfBundle
<1>10. v \in GroupRow
    <2> HIDE DEF leaf
    <2> QED BY <1>9 DEF GroupRow
<1>11. StoreOK(store, key, fresh.kp, now)
    <2> HIDE DEF key
    <2> QED BY <1>3, TypeParts, StoreMonotone
<1> HIDE DEF v, key, bs, m, create
<1>12. /\ saved \in Seq(Stores)
       /\ \A n \in 1 .. Len(saved) : StoreOK(saved[n], key, fresh.kp, now)
    BY <1>3, <1>4, <1>11, TypeParts, IdentitiesSaved
<1> HIDE DEF saved
<1>13. StoreOK(EndOf(store, saved), key, fresh.kp, now)
    <2>1. CASE Len(saved) = 0
        BY <1>11, <1>12, <2>1, EndOfTrail
    <2>2. CASE Len(saved) # 0
        BY <1>12, <2>2, EndOfTrail
    <2> QED BY <2>1, <2>2
<1>14. StoreOK(last, key, fresh.kp, now)
    <2> DEFINE e == EndOf(store, saved)
    <2> HIDE DEF e
    <2>1. last = [e EXCEPT !.groups[g] = v]
        BY DEF SetGroup, e
    <2>2. StoreOK(e, key, fresh.kp, now)
        BY <1>13 DEF e
    <2> QED BY <1>10, <2>1, <2>2, GroupReplaced
<1> HIDE DEF last
<1>15. TrailOK(trail, key, fresh.kp)
    <2>1. last \in Stores
        BY <1>14 DEF StoreOK
    <2>2. /\ trail \in Seq(Stores) /\ Len(trail) = Len(saved) + 1
          /\ \A i \in 1 .. Len(saved) : trail[i] = saved[i]
          /\ trail[Len(saved) + 1] = last
        BY <1>12, <2>1, AppendProperties
    <2>3. Len(saved) \in Nat
        BY <1>12
    <2> HIDE DEF trail
    <2>4. \A n \in 1 .. Len(trail) : n \in 1 .. Len(saved) \/ n = Len(saved) + 1
        BY <2>2, <2>3
    <2> QED BY <1>12, <1>14, <2>2, <2>4 DEF TrailOK
<1> HIDE DEF trail
<1>16. StoreOK(store', key, fresh.kp, now) /\ MemOK(mem', key, now)
    BY <1>1, <1>7, <1>15, AfterOK
<1>17. fresh' = [key |-> key, cert |-> fresh.cert, kp |-> fresh.kp]
    <2>1. fresh \in [key : Nat, cert : Nat, kp : Nat]
        BY DEF TypeInv, FreshOK
    <2>2. fresh' = [fresh EXCEPT !.key = key]
        BY <1>1 DEF key
    <2> QED BY <2>1, <2>2
<1>18. toRemove' \subseteq 1 .. (fresh.kp - 1) /\ bound' \in BOOLEAN /\ fresh.cert <= fresh.cert /\ fresh.kp <= fresh.kp
    <2>1. toRemove' = toRemove /\ bound' = bound
        BY <1>1
    <2> QED BY <2>1, TypeParts
<1> QED BY <1>1, <1>3, <1>16, <1>17, <1>18, TypeParts, TypeStep

\* A key package of the store.
LEMMA KeyPackageAt ==
    ASSUME NEW st, NEW key, NEW kp, NEW t, StoreOK(st, key, kp, t), NEW i \in 1 .. Len(st.kps)
    PROVE  /\ st.kps[i] \in KpRow /\ st.kps[i] \in ToSet(st.kps)
           /\ st.kps[i].id \in 1 .. (kp - 1)
           /\ st.kps[i].val.scheme \in Schemes
           /\ Leaf(st.kps[i].val) \in LeafType
<1>1. st.kps \in Seq(KpRow)
    BY DEF StoreOK, Stores
<1>2. st.kps[i] \in KpRow /\ st.kps[i] \in ToSet(st.kps)
    BY <1>1, SetOfSeq
<1>3. st.kps[i].id \in 1 .. (kp - 1)
    BY <1>2 DEF StoreOK, WithinBounds
<1>4. st.kps[i].val \in KpValue
    BY <1>2 DEF KpRow
<1>5. st.kps[i].val.scheme \in Schemes /\ Leaf(st.kps[i].val) \in LeafType
    BY <1>4 DEF KpValue, Leaf, LeafType
<1> QED BY <1>2, <1>3, <1>5

\* What the last write of a Welcome leaves of a store.
Joined(st, s, g, v) ==
    /\ s \in Stores
    /\ s.creds = st.creds /\ s.keys = st.keys
    /\ \A r \in ToSet(s.kps) : r \in ToSet(st.kps) /\ (Complete(st, r.id) => Complete(s, r.id))
    /\ s.groups = [st.groups EXCEPT ![g] = v]

\* The Welcome, write by write: the key package goes before its private keys.
LEMMA WelcomeJoined ==
    ASSUME NEW st, NEW key, NEW kp, NEW t, StoreOK(st, key, kp, t), NEW g \in Groups, NEW q,
           NEW v \in GroupRow, v = [scheme |-> q.val.scheme, leaf |-> Leaf(q.val), pending |-> None]
    PROVE  LET tr == JoinTrail(st, g, q)
           IN  /\ tr \in Seq(Stores) /\ Len(tr) = 4
               /\ \A n \in 1 .. 3 : Pruned(st, tr[n])
               /\ \A n \in 1 .. 4 : StoreOK(tr[n], key, kp, t)
               /\ Joined(st, tr[4], g, v)
<1> DEFINE s1 == DeleteKeyPackage(st, q.id, 1)
           s2 == DeleteKeyPackage(s1, q.id, 2)
           s3 == DeleteKeyPackage(s2, q.id, 3)
           s4 == [s3 EXCEPT !.groups[g] = v]
<1>1. JoinTrail(st, g, q) = <<s1, s2, s3, s4>>
    BY DEF JoinTrail, SetGroup
<1>2. st \in Stores
    BY DEF StoreOK
<1>3. /\ s1 \in Stores /\ SameIdentity(st, s1)
      /\ ToSet(s1.kps) = {r \in ToSet(st.kps) : r.id # q.id}
      /\ s1.hpke = st.hpke /\ s1.enc = st.enc /\ s1.expired \subseteq st.expired
    BY <1>2, KeyPackageDeleted
<1> HIDE DEF s1
<1>4. /\ s2 \in Stores /\ SameIdentity(s1, s2) /\ ToSet(s2.kps) = ToSet(s1.kps)
      /\ s2.hpke = s1.hpke \ {q.id} /\ s2.enc = s1.enc /\ s2.expired \subseteq s1.expired
    BY <1>3, KeyPackageDeleted
<1> HIDE DEF s2
<1>5. /\ s3 \in Stores /\ SameIdentity(s2, s3) /\ ToSet(s3.kps) = ToSet(s2.kps)
      /\ s3.hpke = s2.hpke /\ s3.enc = s2.enc \ {q.id} /\ s3.expired \subseteq s2.expired
    BY <1>4, KeyPackageDeleted
<1> HIDE DEF s3
<1>6. Pruned(st, s1)
    BY <1>3 DEF Pruned, Complete
<1>7. Pruned(st, s2)
    BY <1>3, <1>4 DEF Pruned, Complete, SameIdentity
<1>8. Pruned(st, s3)
    BY <1>3, <1>4, <1>5 DEF Pruned, Complete, SameIdentity
<1>9. StoreOK(s1, key, kp, t) /\ StoreOK(s2, key, kp, t) /\ StoreOK(s3, key, kp, t)
    BY <1>6, <1>7, <1>8, PrunedOK
<1>10. /\ StoreOK(s4, key, kp, t) /\ s4.groups = [s3.groups EXCEPT ![g] = v]
       /\ s4.creds = s3.creds /\ s4.keys = s3.keys /\ s4.kps = s3.kps /\ s4.hpke = s3.hpke /\ s4.enc = s3.enc
    BY <1>9, GroupReplaced
<1> HIDE DEF s4
<1>11. s4 \in Stores
    BY <1>10 DEF StoreOK
<1>12. Joined(st, s4, g, v)
    BY <1>8, <1>10, <1>11 DEF Joined, Pruned, SameIdentity, Complete
<1> DEFINE tr == <<s1, s2, s3, s4>>
<1>13. tr \in Seq(Stores) /\ Len(tr) = 4 /\ tr[1] = s1 /\ tr[2] = s2 /\ tr[3] = s3 /\ tr[4] = s4
    BY <1>3, <1>4, <1>5, <1>11
<1> HIDE DEF tr
<1>14. \A n \in 1 .. 3 : n = 1 \/ n = 2 \/ n = 3
    OBVIOUS
<1>15. \A n \in 1 .. 4 : n = 1 \/ n = 2 \/ n = 3 \/ n = 4
    OBVIOUS
<1>16. \A n \in 1 .. 3 : Pruned(st, tr[n])
    BY <1>6, <1>7, <1>8, <1>13, <1>14
<1>17. \A n \in 1 .. 4 : StoreOK(tr[n], key, kp, t)
    BY <1>9, <1>10, <1>13, <1>15
<1>18. JoinTrail(st, g, q) = tr
    BY <1>1 DEF tr
<1> QED BY <1>12, <1>13, <1>16, <1>17, <1>18

\* What a step of process_welcome_message changes.
JoinStep(g, q) ==
    /\ mem.on /\ UNCHANGED <<toRemove, usage, fresh, now, bound>>
    /\ \/ Pruned(store, store') /\ mem' = Off
       \/ Joined(store, store', g, [scheme |-> q.val.scheme, leaf |-> Leaf(q.val), pending |-> None]) /\ mem' = mem
    /\ StoreOK(store', fresh.key, fresh.kp, now)

\* It stops after a write or returns.
LEMMA JoinConversationStep ==
    ASSUME TypeInv, NEW g \in Groups, NEW i \in 1 .. Len(store.kps), JoinConversation(g, i)
    PROVE  JoinStep(g, store.kps[i])
<1> DEFINE q == store.kps[i]
           v == [scheme |-> q.val.scheme, leaf |-> Leaf(q.val), pending |-> None]
           tr == JoinTrail(store, g, q)
<1>1. /\ mem.on
      /\ \E n \in 1 .. 4 : After(tr, n, mem)
      /\ UNCHANGED <<toRemove, usage, fresh, now, bound>>
    BY DEF JoinConversation
<1>2. q.val.scheme \in Schemes /\ Leaf(q.val) \in LeafType
    BY TypeParts, KeyPackageAt
<1>3. v \in GroupRow
    BY <1>2 DEF GroupRow
<1> HIDE DEF q
<1>4. /\ tr \in Seq(Stores) /\ Len(tr) = 4
      /\ \A n \in 1 .. 3 : Pruned(store, tr[n])
      /\ \A n \in 1 .. 4 : StoreOK(tr[n], fresh.key, fresh.kp, now)
      /\ Joined(store, tr[4], g, v)
    BY <1>3, TypeParts, WelcomeJoined
<1> HIDE DEF tr, v
<1>5. PICK n \in 1 .. 4 : After(tr, n, mem)
    BY <1>1
<1>6. store' = tr[n] /\ mem' = IF n = 4 THEN mem ELSE Off
    BY <1>4, <1>5 DEF After
<1>7. n # 4 => n \in 1 .. 3
    OBVIOUS
<1>8. \/ Pruned(store, store') /\ mem' = Off
      \/ Joined(store, store', g, v) /\ mem' = mem
    BY <1>4, <1>6, <1>7
<1> QED BY <1>1, <1>4, <1>6, <1>8 DEF JoinStep, q, v

\* process_welcome_message
LEMMA JoinConversationType ==
    ASSUME TypeInv, NEW g \in Groups, NEW i \in 1 .. Len(store.kps), JoinConversation(g, i)
    PROVE  TypeInv'
<1>1. JoinStep(g, store.kps[i])
    BY JoinConversationStep
<1>2. /\ StoreOK(store', fresh.key, fresh.kp, now) /\ UNCHANGED <<toRemove, usage, fresh, now, bound>>
      /\ mem' = mem \/ mem' = Off
    BY <1>1 DEF JoinStep
<1>3. MemOK(Off, fresh.key, now)
    BY DEF Off, MemOK
<1>4. MemOK(mem', fresh.key, now) /\ bound' \in BOOLEAN /\ toRemove' \subseteq 1 .. (fresh.kp - 1)
    BY <1>2, <1>3, TypeParts
<1> QED BY <1>2, <1>4, TypeStepSame

\* A conversation the client is in.
LEMMA GroupAt ==
    ASSUME TypeInv, NEW g \in Groups, Member(g)
    PROVE  /\ store.groups[g] \in GroupRow
           /\ store.groups[g].leaf \in LeafType
           /\ store.groups[g].scheme \in Schemes
           /\ ~Idle(g) => store.groups[g].pending \in LeafType
<1>1. store.groups \in [Groups -> GroupRow \cup {None}]
    BY TypeParts DEF StoreOK, Stores
<1>2. store.groups[g] \in GroupRow
    BY <1>1 DEF Member
<1>3. ~Idle(g) => store.groups[g].pending # None
    BY DEF Idle
<1> QED BY <1>2, <1>3 DEF GroupRow

\* A step that writes one conversation.
LEMMA GroupStepType ==
    ASSUME TypeInv, NEW g \in Groups, NEW v \in GroupRow, store' = [store EXCEPT !.groups[g] = v],
           UNCHANGED <<mem, toRemove, usage, fresh, now, bound>>
    PROVE  TypeInv'
<1>1. StoreOK(store', fresh.key, fresh.kp, now)
    BY TypeParts, GroupReplaced
<1>2. MemOK(mem', fresh.key, now) /\ bound' \in BOOLEAN /\ toRemove' \subseteq 1 .. (fresh.kp - 1)
    BY TypeParts
<1> QED BY <1>1, <1>2, TypeStepSame

\* The row of a conversation after a commit of the client's, an accepted one and a
\* cleared one.
LEMMA GroupRows ==
    ASSUME NEW r \in GroupRow, NEW p \in LeafType
    PROVE  /\ [r EXCEPT !.pending = p] \in GroupRow
           /\ [r EXCEPT !.pending = None] \in GroupRow
           /\ [r EXCEPT !.leaf = p, !.pending = None] \in GroupRow
    BY DEF GroupRow

\* The three steps as a write of one row.
LEMMA CommitSteps ==
    ASSUME NEW g \in Groups, store \in Stores, store.groups[g] \in GroupRow
    PROVE  /\ OrdinaryCommit(g) => store' = [store EXCEPT !.groups[g] = [store.groups[g] EXCEPT !.pending = store.groups[g].leaf]]
           /\ CommitAccepted(g) => store' = [store EXCEPT !.groups[g] = [store.groups[g] EXCEPT !.leaf = store.groups[g].pending, !.pending = None]]
           /\ ClearPendingCommit(g) => store' = [store EXCEPT !.groups[g] = [store.groups[g] EXCEPT !.pending = None]]
<1>1. OrdinaryCommit(g) => store' = [store EXCEPT !.groups[g] = [store.groups[g] EXCEPT !.pending = store.groups[g].leaf]]
    BY DEF OrdinaryCommit, Stores
<1>2. CommitAccepted(g) => store' = [store EXCEPT !.groups[g] = [store.groups[g] EXCEPT !.leaf = store.groups[g].pending, !.pending = None]]
    BY DEF CommitAccepted, Stores, GroupRow
<1>3. ClearPendingCommit(g) => store' = [store EXCEPT !.groups[g] = [store.groups[g] EXCEPT !.pending = None]]
    BY DEF ClearPendingCommit, Stores
<1> QED BY <1>1, <1>2, <1>3

\* Commits.
LEMMA CommitsType ==
    ASSUME TypeInv, NEW g \in Groups, OrdinaryCommit(g) \/ CommitAccepted(g) \/ ClearPendingCommit(g)
    PROVE  TypeInv'
<1>1. Member(g) /\ UNCHANGED <<mem, toRemove, usage, fresh, now, bound>>
    BY DEF OrdinaryCommit, CommitAccepted, ClearPendingCommit, Idle
<1>2. /\ store.groups[g] \in GroupRow
      /\ store.groups[g].leaf \in LeafType
      /\ ~Idle(g) => store.groups[g].pending \in LeafType
    BY <1>1, GroupAt
<1>3. store \in Stores
    BY TypeParts DEF StoreOK
<1>4. CASE OrdinaryCommit(g)
    <2> DEFINE v == [store.groups[g] EXCEPT !.pending = store.groups[g].leaf]
    <2>1. store' = [store EXCEPT !.groups[g] = v] /\ v \in GroupRow
        BY <1>2, <1>3, <1>4, CommitSteps, GroupRows
    <2> HIDE DEF v
    <2> QED BY <1>1, <2>1, GroupStepType
<1>5. CASE CommitAccepted(g)
    <2> DEFINE v == [store.groups[g] EXCEPT !.leaf = store.groups[g].pending, !.pending = None]
    <2>1. store.groups[g].pending \in LeafType
        BY <1>2, <1>5 DEF CommitAccepted
    <2>2. store' = [store EXCEPT !.groups[g] = v] /\ v \in GroupRow
        BY <1>2, <1>3, <1>5, <2>1, CommitSteps, GroupRows
    <2> HIDE DEF v
    <2> QED BY <1>1, <2>2, GroupStepType
<1>6. CASE ClearPendingCommit(g)
    <2> DEFINE v == [store.groups[g] EXCEPT !.pending = None]
    <2>1. store' = [store EXCEPT !.groups[g] = v] /\ v \in GroupRow
        BY <1>2, <1>3, <1>6, CommitSteps, GroupRows
    <2> HIDE DEF v
    <2> QED BY <1>1, <2>1, GroupStepType
<1> QED BY <1>4, <1>5, <1>6

\* save_identity of one identity: the credential, then the key pair.
LEMMA SaveOneTrail ==
    ASSUME NEW st, NEW key \in Nat, NEW kp \in Nat, now \in Nat, StoreOK(st, key, kp, now), NEW b \in Identity(key)
    PROVE  LET tr == SaveIdentities(st, <<b>>)
               p == SaveKeyPair(SaveCredential(st, b), b)
           IN  /\ tr \in Seq(Stores) /\ Len(tr) = 2 /\ Last(tr) = p
               /\ tr[1] = SaveCredential(st, b) /\ tr[2] = p
               /\ StoreOK(tr[1], key, kp, now) /\ StoreOK(p, key, kp, now)
               /\ SamePackages(st, tr[1]) /\ SamePackages(st, p)
<1> DEFINE bs == <<b>>
           tr == SaveIdentities(st, bs)
           K == 2 * Len(bs)
<1>1. bs \in Seq(Identity(key)) /\ Len(bs) = 1 /\ bs[1] = b
    OBVIOUS
<1>2. PICK f : /\ f[0] = st
               /\ \A n \in 0 .. (2 * Len(bs) - 1) :
                     f[n + 1] = (IF (n + 1) % 2 = 1 THEN SaveCredential(f[n], bs[((n + 1) + 1) \div 2]) ELSE SaveKeyPair(f[n], bs[(n + 1) \div 2]))
               /\ SaveIdentities(st, bs) = [n \in 1 .. 2 * Len(bs) |-> f[n]]
    <2> HIDE DEF bs
    <2> QED BY <1>1, SaveUnfold
<1> HIDE DEF bs
<1>3. /\ tr \in Seq(Stores)
      /\ Len(tr) = 2 * Len(bs)
      /\ \A n \in 1 .. Len(tr) : StoreOK(tr[n], key, kp, now) /\ SamePackages(st, tr[n])
    BY <1>1, IdentitiesSaved
<1>4. f[0 + 1] = SaveCredential(f[0], bs[((0 + 1) + 1) \div 2])
    <2>1. 0 \in 0 .. (2 * Len(bs) - 1) /\ (0 + 1) % 2 = 1
        BY <1>1
    <2> QED BY <1>2, <2>1
<1>5. f[1 + 1] = SaveKeyPair(f[1], bs[(1 + 1) \div 2])
    <2>1. 1 \in 0 .. (2 * Len(bs) - 1) /\ (1 + 1) % 2 # 1
        BY <1>1
    <2> QED BY <1>2, <2>1
<1>6. 0 + 1 = 1 /\ 1 + 1 = 2 /\ ((0 + 1) + 1) \div 2 = 1 /\ (1 + 1) \div 2 = 1
    OBVIOUS
<1>7. f[1] = SaveCredential(st, b) /\ f[2] = SaveKeyPair(SaveCredential(st, b), b)
    BY <1>1, <1>2, <1>4, <1>5, <1>6
<1>8. Len(tr) = 2 /\ tr[1] = f[1] /\ tr[2] = f[2]
    BY <1>1, <1>2, <1>3
<1> HIDE DEF tr
<1>9. Last(tr) = tr[2]
    BY <1>8 DEF Last
<1>10. 1 \in 1 .. Len(tr) /\ 2 \in 1 .. Len(tr)
    BY <1>8
<1> QED BY <1>3, <1>7, <1>8, <1>9, <1>10 DEF tr, bs

\* A store e2ei_rotate_all goes through: the new credential is saved, or its key
\* pair too, a commit is pending in some conversations, and some of the new key
\* packages are there.
Provisioned(st, s, b, kp) ==
    \E r : /\ Rotated(SaveKeyPair(SaveCredential(st, b), b), r, Leaf(b))
           /\ Requested(r, s, kp, NbKeyPackages, KpOf(Bundle(b), b.scheme))

RotateState(st, s, b, kp) == s = SaveCredential(st, b) \/ Provisioned(st, s, b, kp)

\* The last one: if new key packages are there, they have their private keys.
RotateEnd(st, s, b, kp) ==
    \E r : /\ Rotated(SaveKeyPair(SaveCredential(st, b), b), r, Leaf(b))
           /\ Requested(r, s, kp, NbKeyPackages, KpOf(Bundle(b), b.scheme))
           /\ s = r \/ \A m \in kp .. (kp + NbKeyPackages - 1) : Complete(s, m)

\* Nothing rotated yet, nothing generated yet.
LEMMA RotatedSelf ==
    ASSUME NEW p \in Stores, NEW leaf, NEW first, NEW count, NEW v
    PROVE  Rotated(p, p, leaf) /\ Requested(p, p, first, count, v)
    BY DEF Rotated, Requested, SameIdentity

\* e2ei_rotate_all, write by write.
LEMMA RotateAllTrail ==
    ASSUME NEW st, NEW key \in Nat, NEW kp \in Nat, now \in Nat, StoreOK(st, key, kp, now),
           key <= MaxKeys + 1, NEW b \in Identity(key),
           NEW order \in Seq({g \in Groups : st.groups[g] # None}), NEW done
    PROVE  LET saved == SaveIdentities(st, <<b>>)
               rotated == saved \o RotateGroups(Last(saved), order, Leaf(b))
               trail == IF done
                        THEN rotated \o GenerateKeyPackages(Last(rotated), kp, b.scheme, Bundle(b), NbKeyPackages)
                        ELSE rotated
           IN  /\ trail \in Seq(Stores)
               /\ \A n \in 1 .. Len(trail) : RotateState(st, trail[n], b, kp)
               /\ RotateEnd(st, trail[Len(trail)], b, kp)
<1> DEFINE saved == SaveIdentities(st, <<b>>)
           p == SaveKeyPair(SaveCredential(st, b), b)
           leaf == Leaf(b)
           rot == RotateGroups(p, order, leaf)
           rotated == saved \o rot
           z == Last(rotated)
           v == KpOf(Bundle(b), b.scheme)
           gen == GenerateKeyPackages(z, kp, b.scheme, Bundle(b), NbKeyPackages)
<1>0. /\ b.scheme \in Schemes /\ b.cred \in Credentials /\ b.pk \in 1 .. (key - 1) /\ NbKeyPackages \in Nat /\ MaxKeys \in Nat
    BY ClientAssumption DEF Identity
<1>1. /\ saved \in Seq(Stores) /\ Len(saved) = 2 /\ Last(saved) = p
      /\ saved[1] = SaveCredential(st, b) /\ saved[2] = p
      /\ StoreOK(p, key, kp, now) /\ SamePackages(st, p)
    BY SaveOneTrail
<1>2. p \in Stores /\ p.groups = st.groups
    BY <1>1 DEF StoreOK, SamePackages
<1>3. b.pk \in 1 .. MaxKeys
    BY <1>0
<1>4. leaf \in LeafType
    BY <1>0, <1>3 DEF Leaf, LeafType
<1>5. Bundle(b).cred \in Credentials /\ Bundle(b).pk \in 1 .. MaxKeys
    BY <1>0, <1>3 DEF Bundle
<1> HIDE DEF saved, p, leaf
<1>6. order \in Seq({g \in Groups : p.groups[g] # None})
    BY <1>2
<1>7. rot \in Seq(Stores) /\ Len(rot) = Len(order) /\ \A n \in 1 .. Len(rot) : Rotated(p, rot[n], leaf)
    BY <1>2, <1>4, <1>6, RotateTrail
<1> HIDE DEF rot
<1>8. /\ rotated \in Seq(Stores) /\ Len(rotated) = Len(saved) + Len(rot)
      /\ \A i \in 1 .. Len(saved) + Len(rot) : rotated[i] = IF i <= Len(saved) THEN saved[i] ELSE rot[i - Len(saved)]
    BY <1>1, <1>7, ConcatProperties
<1>9. Len(rot) \in Nat
    BY <1>7
<1> HIDE DEF rotated
<1>10. ASSUME NEW n \in 1 .. Len(rotated), n # 1 PROVE Rotated(p, rotated[n], leaf)
    <2>1. CASE n = 2
        <3>1. rotated[n] = p
            BY <1>1, <1>8, <1>9, <2>1
        <3> QED BY <1>2, <3>1, RotatedSelf
    <2>2. CASE n # 2
        <3>1. n - Len(saved) \in 1 .. Len(rot) /\ rotated[n] = rot[n - Len(saved)]
            BY <1>1, <1>8, <1>9, <1>10, <2>2
        <3> QED BY <1>7, <3>1
    <2> QED BY <2>1, <2>2
<1>11. ASSUME NEW n \in 1 .. Len(rotated) PROVE RotateState(st, rotated[n], b, kp)
    <2>1. CASE n = 1
        <3>1. rotated[n] = SaveCredential(st, b)
            BY <1>1, <1>8, <1>9, <2>1
        <3> QED BY <3>1 DEF RotateState
    <2>2. CASE n # 1
        <3>1. Rotated(p, rotated[n], leaf)
            BY <1>10, <2>2
        <3>2. rotated[n] \in Stores
            BY <3>1 DEF Rotated
        <3>3. Requested(rotated[n], rotated[n], kp, NbKeyPackages, v)
            BY <3>2, RotatedSelf
        <3> HIDE DEF v
        <3> QED BY <3>1, <3>3 DEF RotateState, Provisioned, p, leaf, v
    <2> QED BY <2>1, <2>2
<1>12. Rotated(p, z, leaf) /\ z \in Stores /\ z = rotated[Len(rotated)]
    <2>1. Len(rotated) \in 1 .. Len(rotated) /\ Len(rotated) # 1
        BY <1>1, <1>8, <1>9
    <2>2. z = rotated[Len(rotated)]
        BY DEF Last
    <2> QED BY <1>10, <2>1, <2>2 DEF Rotated
<1> HIDE DEF z
<1>13. /\ gen \in Seq(Stores)
       /\ \A n \in 1 .. Len(gen) : Requested(z, gen[n], kp, NbKeyPackages, v)
       /\ Requested(z, EndOf(z, gen), kp, NbKeyPackages, v)
       /\ \A m \in kp .. (kp + NbKeyPackages - 1) : Complete(EndOf(z, gen), m)
    BY <1>0, <1>5, <1>12, GenerateKeyPackagesTrail
<1> HIDE DEF gen
<1>14. ASSUME NEW n \in 1 .. Len(gen) PROVE RotateState(st, gen[n], b, kp)
    BY <1>12, <1>13 DEF RotateState, Provisioned, p, leaf
<1> DEFINE all == rotated \o gen
<1>15. /\ all \in Seq(Stores) /\ Len(all) = Len(rotated) + Len(gen)
       /\ \A i \in 1 .. Len(rotated) + Len(gen) : all[i] = IF i <= Len(rotated) THEN rotated[i] ELSE gen[i - Len(rotated)]
    BY <1>8, <1>13, ConcatProperties
<1>16. Len(rotated) \in Nat /\ Len(gen) \in Nat
    BY <1>8, <1>13
<1> HIDE DEF all
<1>17. ASSUME NEW n \in 1 .. Len(all) PROVE RotateState(st, all[n], b, kp)
    <2>1. CASE n <= Len(rotated)
        <3>1. n \in 1 .. Len(rotated) /\ all[n] = rotated[n]
            BY <1>15, <1>16, <2>1
        <3> QED BY <1>11, <3>1
    <2>2. CASE ~(n <= Len(rotated))
        <3>1. n - Len(rotated) \in 1 .. Len(gen) /\ all[n] = gen[n - Len(rotated)]
            BY <1>15, <1>16, <2>2
        <3> QED BY <1>14, <3>1
    <2> QED BY <2>1, <2>2
<1>20. RotateEnd(st, z, b, kp)
    <2>1. Requested(z, z, kp, NbKeyPackages, v)
        BY <1>12, RotatedSelf
    <2> HIDE DEF v
    <2> QED BY <1>12, <2>1 DEF RotateEnd, p, leaf, v
<1>21. RotateEnd(st, all[Len(all)], b, kp)
    <2>1. CASE Len(gen) = 0
        <3>1. Len(rotated) \in 1 .. Len(rotated) + Len(gen) /\ Len(all) = Len(rotated) /\ Len(rotated) <= Len(rotated)
            BY <1>1, <1>8, <1>9, <1>15, <2>1
        <3>2. all[Len(all)] = z
            BY <1>12, <1>15, <3>1
        <3> QED BY <1>20, <3>2
    <2>2. CASE Len(gen) # 0
        <3>1. Len(all) \in 1 .. Len(rotated) + Len(gen) /\ ~(Len(all) <= Len(rotated)) /\ Len(all) - Len(rotated) = Len(gen)
            BY <1>15, <1>16, <2>2
        <3>2. all[Len(all)] = gen[Len(gen)]
            BY <1>15, <3>1
        <3>3. EndOf(z, gen) = gen[Len(gen)]
            BY <1>13, <2>2, EndOfTrail
        <3> HIDE DEF v
        <3>4. all[Len(all)] = EndOf(z, gen)
            BY <3>2, <3>3
        <3> QED BY <1>12, <1>13, <3>4 DEF RotateEnd, p, leaf, v
    <2> QED BY <2>1, <2>2
<1> DEFINE trail == IF done THEN all ELSE rotated
<1>22. RotateEnd(st, trail[Len(trail)], b, kp)
    BY <1>12, <1>20, <1>21
<1>18. trail \in Seq(Stores) /\ \A n \in 1 .. Len(trail) : RotateState(st, trail[n], b, kp)
    BY <1>8, <1>11, <1>15, <1>17
<1>19. trail = IF done
               THEN (saved \o RotateGroups(Last(saved), order, Leaf(b))) \o GenerateKeyPackages(Last(saved \o RotateGroups(Last(saved), order, Leaf(b))), kp, b.scheme, Bundle(b), NbKeyPackages)
               ELSE saved \o RotateGroups(Last(saved), order, Leaf(b))
    BY <1>1 DEF all, gen, z, rotated, rot, leaf
<1> HIDE DEF trail
<1> QED BY <1>18, <1>19, <1>22 DEF saved

\* It keeps the store well-formed.
LEMMA RotateStateOK ==
    ASSUME NEW st, NEW key \in Nat, NEW kp \in Nat, 1 <= kp, now \in Nat, StoreOK(st, key, kp, now),
           NEW b \in Identity(key), NEW s, RotateState(st, s, b, kp)
    PROVE  StoreOK(s, key, kp + NbKeyPackages, now)
<1> DEFINE p == SaveKeyPair(SaveCredential(st, b), b)
           kp2 == kp + NbKeyPackages
<1>1. StoreOK(SaveCredential(st, b), key, kp, now) /\ StoreOK(p, key, kp, now)
    BY SaveOneTrail
<1>2. NbKeyPackages \in Nat /\ kp2 \in Nat /\ kp <= kp2
    BY ClientAssumption
<1>3. CASE s = SaveCredential(st, b)
    <2> HIDE DEF kp2
    <2>1. key <= key /\ now <= now
        OBVIOUS
    <2>2. StoreOK(s, key, kp2, now)
        BY <1>1, <1>2, <1>3, <2>1, StoreMonotone
    <2> QED BY <2>2 DEF kp2
<1>4. ASSUME NEW r, Rotated(p, r, Leaf(b)), Requested(r, s, kp, NbKeyPackages, KpOf(Bundle(b), b.scheme))
      PROVE  StoreOK(s, key, kp + NbKeyPackages, now)
    <2>1. StoreOK(r, key, kp, now)
        BY <1>1, <1>4, RotatedOK
    <2> DEFINE v == KpOf(Bundle(b), b.scheme)
    <2>2. Requested(r, s, kp, NbKeyPackages, v) /\ kp + NbKeyPackages <= kp2
        BY <1>2, <1>4
    <2> HIDE DEF v, kp2
    <2>3. StoreOK(s, key, kp2, now)
        BY <1>2, <2>1, <2>2, RequestedOK
    <2> QED BY <2>3 DEF kp2
<1> HIDE DEF p
<1> QED BY <1>3, <1>4 DEF RotateState, Provisioned, p

\* The identity e2ei_rotate_all saves, and the key packages it returns.
RotatedTo(sc, type) ==
    LET pk == EnrolledKey(mem.ids, sc, type) IN [scheme |-> sc, pk |-> pk, cred |-> X509(fresh.cert, pk)]

OldPackages(b) == {r.id : r \in {q \in ToSet(store.kps) : q.val.cred # b.cred}}

\* What a step of it changes.
RotateStep(b) ==
    /\ b \in Identity(fresh.key)
    /\ RotateState(store, store', b, fresh.kp)
    /\ mem' = [mem EXCEPT !.ids = PushAll(mem.ids, <<b>>)] \/ mem' = Off
    /\ toRemove' \in {OldPackages(b), toRemove}
    /\ mem'.on => RotateEnd(store, store', b, fresh.kp)

\* It stops after a write or returns.
LEMMA RotateAllStep ==
    ASSUME TypeInv, NEW sc \in Schemes, NEW type \in Types, NEW order \in SetToSeqs({g \in Groups : Member(g)}),
           RotateAll(sc, type, order)
    PROVE  RotateStep(RotatedTo(sc, type))
<1> DEFINE pk == EnrolledKey(mem.ids, sc, type)
           b == [scheme |-> sc, pk |-> pk, cred |-> X509(fresh.cert, pk)]
           ids == PushAll(mem.ids, <<b>>)
           saved == SaveIdentities(store, <<b>>)
           ready == Cardinality({i \in 1 .. Len(order) : \A j \in 1 .. i : Idle(order[j])})
           some == SubSeq(order, 1, ready)
           rotated == saved \o RotateGroups(Last(saved), some, Leaf(b))
           done == ready = Len(order)
           trail == IF done THEN rotated \o GenerateKeyPackages(Last(rotated), fresh.kp, b.scheme, Bundle(b), NbKeyPackages)
                    ELSE rotated
           m == [mem EXCEPT !.ids = ids]
           key == fresh.key
           old == OldPackages(b)
<1>1. /\ HasBundle(mem.ids, sc, type)
      /\ fresh.cert <= MaxCerts
      /\ \E n \in 1 .. Len(trail) : After(trail, n, m) /\ (toRemove' = old \/ toRemove' = toRemove)
      /\ fresh' = [fresh EXCEPT !.cert = @ + 1, !.kp = @ + NbKeyPackages]
      /\ usage' = usage /\ now' = now /\ bound' = bound
    BY DEF RotateAll, OldPackages
<1>2. mem.ids \in [Schemes -> Seq(Bundles(key, now))]
    BY TypeParts DEF MemOK
<1>3. pk \in 1 .. (key - 1)
    <2> DEFINE x == MostRecent(mem.ids, sc, type)
    <2>1. x \in Bundles(key, now)
        BY <1>1, <1>2, BundlesOfType
    <2> HIDE DEF x, key
    <2>2. x.pk \in 1 .. (key - 1)
        BY <2>1 DEF Bundles
    <2> QED BY <2>2 DEF EnrolledKey, x
<1>4. X509(fresh.cert, pk) \in Credentials
    <2>1. pk \in 1 .. MaxKeys /\ fresh.cert \in 1 .. MaxCerts
        BY <1>1, <1>3, TypeParts
    <2> QED BY <2>1 DEF Credentials
<1>6. RotatedTo(sc, type) = b
    BY DEF RotatedTo
<1> HIDE DEF pk
<1>5. b \in Identity(key) /\ b.scheme = sc
    BY <1>3, <1>4, IdentityOf
<1> HIDE DEF b
<1>9. some \in Seq({g \in Groups : store.groups[g] # None})
    <2> DEFINE G == {g \in Groups : Member(g)}
    <2>1. IsFiniteSet(G)
        <3>1. G \subseteq Groups
            OBVIOUS
        <3> QED BY <3>1, TypeParts, FS_Subset
    <2>2. order \in Seq(G) /\ Len(order) \in Nat
        BY <2>1, OrderOf
    <2> HIDE DEF G
    <2>3. ready \in 0 .. Len(order)
        <3> DEFINE R == {i \in 1 .. Len(order) : \A j \in 1 .. i : Idle(order[j])}
        <3>1. R \subseteq 1 .. Len(order)
            OBVIOUS
        <3> HIDE DEF R
        <3>2. IsFiniteSet(1 .. Len(order)) /\ Cardinality(1 .. Len(order)) = Len(order)
            BY <2>2, FS_Interval
        <3>3. Cardinality(R) <= Len(order) /\ Cardinality(R) \in Nat
            BY <3>1, <3>2, FS_Subset, FS_CardinalityType
        <3>4. Cardinality(R) \in 0 .. Len(order)
            BY <2>2, <3>3
        <3> QED BY <3>4 DEF R
    <2> HIDE DEF ready
    <2>4. some \in Seq(G)
        <3>1. 1 \in 1 .. Len(order) + 1 /\ ready \in (1 - 1) .. Len(order)
            BY <2>2, <2>3
        <3> QED BY <2>2, <3>1, SubSeqProperties
    <2>5. G = {g \in Groups : store.groups[g] # None}
        BY DEF G, Member
    <2> QED BY <2>4, <2>5
<1> HIDE DEF some, ready
<1>10. key \in Nat /\ key <= MaxKeys + 1 /\ fresh.kp \in Nat /\ 1 <= fresh.kp
    BY TypeParts
<1> HIDE DEF done
<1>11. /\ trail \in Seq(Stores)
       /\ \A n \in 1 .. Len(trail) : RotateState(store, trail[n], b, fresh.kp)
       /\ RotateEnd(store, trail[Len(trail)], b, fresh.kp)
    <2>1. StoreOK(store, key, fresh.kp, now) /\ now \in Nat
        BY TypeParts
    <2> HIDE DEF key
    <2> QED BY <1>5, <1>9, <1>10, <2>1, RotateAllTrail
<1> HIDE DEF trail
<1> HIDE DEF m, old
<1>12. PICK n \in 1 .. Len(trail) : After(trail, n, m) /\ (toRemove' = old \/ toRemove' = toRemove)
    BY <1>1
<1>13. RotateState(store, store', b, fresh.kp) /\ (mem' = m \/ mem' = Off)
    BY <1>11, <1>12 DEF After
<1>14. mem'.on => RotateEnd(store, store', b, fresh.kp)
    <2>1. n # Len(trail) => ~mem'.on
        BY <1>12 DEF After, Off
    <2> QED BY <1>11, <1>12, <2>1 DEF After
<1> QED BY <1>5, <1>6, <1>12, <1>13, <1>14 DEF RotateStep, m, old

\* e2ei_rotate_all
LEMMA RotateAllType ==
    ASSUME TypeInv, NEW sc \in Schemes, NEW type \in Types, NEW order \in SetToSeqs({g \in Groups : Member(g)}),
           RotateAll(sc, type, order)
    PROVE  TypeInv'
<1> DEFINE b == RotatedTo(sc, type)
           ids == PushAll(mem.ids, <<b>>)
           m == [mem EXCEPT !.ids = ids]
           key == fresh.key
           kp == fresh.kp + NbKeyPackages
           cert == fresh.cert + 1
           old == OldPackages(b)
<1>1. /\ fresh.cert <= MaxCerts
      /\ fresh' = [fresh EXCEPT !.cert = @ + 1, !.kp = @ + NbKeyPackages]
      /\ usage' = usage /\ now' = now /\ bound' = bound
    BY DEF RotateAll
<1>2. RotateStep(b)
    BY RotateAllStep
<1> HIDE DEF b
<1>3. /\ b \in Identity(key)
      /\ RotateState(store, store', b, fresh.kp)
      /\ mem' = m \/ mem' = Off
      /\ toRemove' = old \/ toRemove' = toRemove
    BY <1>2 DEF RotateStep
<1>4. mem.ids \in [Schemes -> Seq(Bundles(key, now))] /\ <<b>> \in Seq(Identity(key))
    BY <1>3, TypeParts DEF MemOK
<1>5. ids \in [Schemes -> Seq(Bundles(key, now))]
    <2>1. now <= now /\ key <= key /\ key \in Nat /\ now \in Nat
        BY TypeParts
    <2> QED BY <1>4, <2>1, PushAllType
<1>6. MemOK(mem', key, now)
    <2>1. MemOK(Off, key, now)
        BY DEF Off, MemOK
    <2> HIDE DEF ids
    <2>2. MemOK(m, key, now)
        BY <1>5, TypeParts DEF MemOK
    <2> HIDE DEF m
    <2> QED BY <1>3, <2>1, <2>2
<1>10. key \in Nat /\ key <= MaxKeys + 1 /\ fresh.kp \in Nat /\ 1 <= fresh.kp /\ kp \in Nat /\ fresh.kp <= kp
       /\ cert \in Nat /\ fresh.cert <= cert /\ cert <= MaxCerts + 1 /\ key <= key
    <2>1. fresh.cert <= MaxCerts
        BY <1>1
    <2> QED BY <2>1, TypeParts
<1>13. StoreOK(store', key, kp, now)
    BY <1>3, <1>10, TypeParts, RotateStateOK
<1>14. toRemove' \subseteq 1 .. (kp - 1)
    <2>1. 1 .. (fresh.kp - 1) \subseteq 1 .. (kp - 1)
        BY <1>10
    <2>2. old \subseteq 1 .. (fresh.kp - 1)
        BY TypeParts DEF StoreOK, WithinBounds, OldPackages
    <2> HIDE DEF old, kp
    <2> QED BY <1>3, <2>1, <2>2, TypeParts
<1>15. fresh' = [key |-> key, cert |-> cert, kp |-> kp]
    BY <1>1 DEF TypeInv, FreshOK
<1>16. bound' \in BOOLEAN /\ now' = now /\ usage' = usage
    BY <1>1, TypeParts
<1> HIDE DEF key, kp, cert
<1>17. fresh.key <= key
    BY <1>10 DEF key
<1> QED BY <1>6, <1>10, <1>13, <1>14, <1>15, <1>16, <1>17, TypeStep

\* delete_keypackages
LEMMA DeleteKeyPackagesType ==
    ASSUME TypeInv, DeleteKeyPackages
    PROVE  TypeInv'
<1> DEFINE pruned == Prune(store, toRemove)
           base == EndOf(store, pruned)
           gone == Abandoned(store, toRemove)
           key == fresh.key
           kp == fresh.kp
<1>1. /\ \/ /\ store' = base \/ store' = DeleteByCredential(base, gone)
            /\ mem' = mem \/ mem' = [mem EXCEPT !.ids = RemoveCredential(@, gone)]
            /\ toRemove' = {} \/ toRemove' = toRemove
         \/ /\ \E n \in 1 .. Len(pruned) : store' = pruned[n]
            /\ mem' = Off
            /\ toRemove' = toRemove
         \/ /\ \E some \in SUBSET gone : store' = DeleteByCredential(base, some)
            /\ mem' = Off
            /\ toRemove' = toRemove
      /\ usage' = usage /\ fresh' = fresh /\ now' = now /\ bound' = bound
    BY DEF DeleteKeyPackages
<1>2. TrailOK(pruned, key, kp) /\ StoreOK(base, key, kp, now)
    BY TypeParts, PruneOK
<1> HIDE DEF pruned, base, gone
<1>3. StoreOK(store', key, kp, now)
    <2>1. \A x : StoreOK(DeleteByCredential(base, x), key, kp, now)
        BY <1>2, CredentialsKept
    <2>2. \A n \in 1 .. Len(pruned) : StoreOK(pruned[n], key, kp, now)
        BY <1>2 DEF TrailOK
    <2> HIDE DEF key, kp
    <2> QED BY <1>1, <1>2, <2>1, <2>2
<1>4. MemOK(mem', key, now)
    <2>1. MemOK(mem, key, now)
        BY TypeParts
    <2>2. MemOK(Off, key, now)
        BY DEF Off, MemOK
    <2>3. MemOK([mem EXCEPT !.ids = RemoveCredential(@, gone)], key, now)
        <3>1. RemoveCredential(mem.ids, gone) \in [Schemes -> Seq(Bundles(key, now))]
            BY <2>1, RemoveCredentialType DEF MemOK
        <3> QED BY <2>1, <3>1 DEF MemOK
    <2> QED BY <1>1, <2>1, <2>2, <2>3
<1>5. toRemove' \subseteq 1 .. (fresh.kp - 1) /\ bound' \in BOOLEAN
    BY <1>1, TypeParts
<1> QED BY <1>1, <1>3, <1>4, <1>5, TypeStepSame

\* A second passes.
LEMMA TickType ==
    ASSUME TypeInv, Tick
    PROVE  TypeInv'
<1>1. now' = now + 1 /\ UNCHANGED <<store, mem, toRemove, usage, fresh, bound>>
    BY DEF Tick
<1>2. now' \in Nat /\ now <= now' /\ fresh.key \in Nat /\ fresh.kp \in Nat /\ now \in Nat
      /\ fresh.key <= fresh.key /\ fresh.kp <= fresh.kp
    BY <1>1, TypeParts
<1>3. StoreOK(store, fresh.key, fresh.kp, now')
    BY <1>2, TypeParts, StoreMonotone
<1>4. MemOK(mem, fresh.key, now')
    BY <1>2, TypeParts, MemMonotone
<1>5. StoreOK(store', fresh'.key, fresh'.kp, now') /\ MemOK(mem', fresh'.key, now')
    BY <1>1, <1>3, <1>4
<1>6. FreshOK' /\ usage' \in Usages /\ bound' \in BOOLEAN /\ toRemove' \subseteq 1 .. (fresh'.kp - 1)
    BY <1>1 DEF TypeInv, FreshOK
<1> QED BY <1>2, <1>5, <1>6 DEF TypeInv

\* A key package expires.
LEMMA ExpireType ==
    ASSUME TypeInv, NEW i \in 1 .. Len(store.kps), Expire(i)
    PROVE  TypeInv'
<1> DEFINE id == store.kps[i].id
           x == store.expired \cup {id}
           s == [store EXCEPT !.expired = x]
<1>1. store' = s /\ UNCHANGED <<mem, toRemove, usage, fresh, now, bound>>
    BY DEF Expire
<1>2. id \in 1 .. (fresh.kp - 1) /\ id \in Nat
    BY TypeParts, KeyPackageAt
<1>3. store \in Stores /\ store.expired \subseteq 1 .. (fresh.kp - 1)
    BY TypeParts DEF StoreOK, WithinBounds
<1>4. x \in SUBSET Nat /\ x \subseteq 1 .. (fresh.kp - 1)
    BY <1>2, <1>3 DEF Stores
<1> HIDE DEF x
<1>5. /\ s \in Stores /\ s.creds = store.creds /\ s.keys = store.keys /\ s.kps = store.kps
      /\ s.hpke = store.hpke /\ s.enc = store.enc /\ s.groups = store.groups /\ s.expired = x
    BY <1>3, <1>4 DEF Stores
<1> HIDE DEF s
<1>6. WithinBounds(s, fresh.key, fresh.kp, now)
    BY <1>4, <1>5, TypeParts DEF StoreOK, WithinBounds
<1>7. StoreOK(s, fresh.key, fresh.kp, now)
    BY <1>5, <1>6, TypeParts DEF StoreOK
<1>8. MemOK(mem', fresh.key, now) /\ bound' \in BOOLEAN /\ toRemove' \subseteq 1 .. (fresh.kp - 1)
    BY <1>1, TypeParts
<1> QED BY <1>1, <1>7, <1>8, TypeStepSame

\* The application dies.
LEMMA CrashType ==
    ASSUME TypeInv, Crash
    PROVE  TypeInv'
<1>1. mem' = Off /\ UNCHANGED <<store, toRemove, usage, fresh, now, bound>>
    BY DEF Crash
<1>2. MemOK(Off, fresh.key, now)
    BY DEF Off, MemOK
<1>3. StoreOK(store', fresh.key, fresh.kp, now) /\ MemOK(mem', fresh.key, now) /\ bound' \in BOOLEAN /\ toRemove' \subseteq 1 .. (fresh.kp - 1)
    BY <1>1, <1>2, TypeParts
<1> QED BY <1>1, <1>3, TypeStepSame

\* The empty store of a new installation.
LEMMA InitType == ClientInit => TypeInv
<1> SUFFICES ASSUME ClientInit PROVE TypeInv
    OBVIOUS
<1>1. store = [creds |-> << >>, keys |-> << >>, kps |-> << >>, hpke |-> {}, enc |-> {},
                expired |-> {}, groups |-> [g \in Groups |-> None]]
    BY DEF ClientInit
<1>2. << >> \in Seq(CredRow) /\ << >> \in Seq(KeyRow) /\ << >> \in Seq(KpRow) /\ ToSet(<< >>) = {}
    BY EmptySeq DEF ToSet
<1>3. store \in Stores
    <2>1. [g \in Groups |-> None] \in [Groups -> GroupRow \cup {None}]
        OBVIOUS
    <2> QED BY <1>1, <1>2, <2>1 DEF Stores
<1>4. WithinBounds(store, 1, 1, 0) /\ InOrder(store.creds) /\ OnePerId(store.creds)
    BY <1>1, <1>2 DEF WithinBounds, InOrder, OnePerId
<1>5. fresh = [key |-> 1, cert |-> 1, kp |-> 1] /\ now = 0 /\ mem = Off /\ toRemove = {} /\ usage \in Usages /\ bound = FALSE
    BY DEF ClientInit
<1>6. FreshOK
    BY <1>5, ClientAssumption DEF FreshOK
<1>7. MemOK(mem, fresh.key, now)
    BY <1>5 DEF Off, MemOK
<1> QED BY <1>3, <1>4, <1>5, <1>6, <1>7 DEF TypeInv, StoreOK

\* One step.
LEMMA NextType == TypeInv /\ [ClientNext]_clientVars => TypeInv'
<1> SUFFICES ASSUME TypeInv, [ClientNext]_clientVars PROVE TypeInv'
    OBVIOUS
<1>1. CASE UNCHANGED clientVars
    BY <1>1 DEF clientVars, TypeInv, FreshOK, StoreOK, WithinBounds, MemOK
<1>2. CASE \E order \in SetToSeqs(Schemes), type \in Types : InitGenerate(type, order)
    BY <1>2, InitGenerateType
<1>3. CASE \E order \in SetToSeqs(Schemes) : InitLoad(order)
    BY <1>3, InitLoadType
<1>4. CASE \E order \in SetToSeqs(Schemes) : GenerateRawKeypairs(order)
    BY <1>4, GenerateRawKeypairsType
<1>5. CASE InitExternal
    BY <1>5, InitExternalType
<1>6. CASE \E sc \in Schemes, type \in Types : RequestKeyPackages(sc, type)
    BY <1>6, RequestKeyPackagesType
<1>7. CASE \E g \in Groups, sc \in Schemes, type \in Types : NewConversation(g, sc, type)
    BY <1>7, NewConversationType
<1>8. CASE \E g \in Groups, i \in 1 .. Len(store.kps) : JoinConversation(g, i)
    BY <1>8, JoinConversationType
<1>9. CASE \E g \in Groups : OrdinaryCommit(g)
    BY <1>9, CommitsType
<1>10. CASE \E g \in Groups : CommitAccepted(g)
    BY <1>10, CommitsType
<1>11. CASE \E g \in Groups : ClearPendingCommit(g)
    BY <1>11, CommitsType
<1>12. CASE \E sc \in Schemes, type \in Types, order \in SetToSeqs({g \in Groups : Member(g)}) : RotateAll(sc, type, order)
    BY <1>12, RotateAllType
<1>13. CASE DeleteKeyPackages
    BY <1>13, DeleteKeyPackagesType
<1>14. CASE Tick
    BY <1>14, TickType
<1>15. CASE \E i \in 1 .. Len(store.kps) : Expire(i)
    BY <1>15, ExpireType
<1>16. CASE Crash
    BY <1>16, CrashType
<1> QED BY <1>1, <1>2, <1>3, <1>4, <1>5, <1>6, <1>7, <1>8, <1>9, <1>10, <1>11, <1>12, <1>13, <1>14, <1>15, <1>16 DEF ClientNext

\* TypeInv says what the tables and the structs declare.
LEMMA TypeInvImplies == TypeInv => ClientTypeOK
<1> SUFFICES ASSUME TypeInv PROVE ClientTypeOK
    OBVIOUS
<1>1. store \in Stores /\ WithinBounds(store, fresh.key, fresh.kp, now)
    BY TypeParts DEF StoreOK
<1>2. ASSUME NEW r \in ToSet(store.creds) PROVE r.id = Me /\ r.val \in [cred : Credentials, at : 0 .. now]
    <2>1. store.creds \in Seq(CredRow)
        BY <1>1 DEF Stores
    <2>2. r \in CredRow
        BY <2>1, SetOfSeq
    <2>3. r.val.at <= now
        BY <1>1 DEF WithinBounds
    <2>4. r.val.at \in 0 .. now
        BY <2>2, <2>3, TypeParts DEF CredRow
    <2> QED BY <2>2, <2>4 DEF CredRow
<1>3. ASSUME NEW r \in ToSet(store.keys)
      PROVE  r.id \in 1 .. (fresh.key - 1) /\ r.val \in [scheme : Schemes, owner : {Me, Temporary}]
    <2>1. store.keys \in Seq(KeyRow)
        BY <1>1 DEF Stores
    <2>2. r \in KeyRow
        BY <2>1, SetOfSeq
    <2> QED BY <1>1, <2>2 DEF KeyRow, WithinBounds
<1>4. ASSUME NEW r \in ToSet(store.kps) PROVE r.id < fresh.kp /\ Leaf(r.val) \in LeafType
    <2>1. store.kps \in Seq(KpRow)
        BY <1>1 DEF Stores
    <2>2. r \in KpRow
        BY <2>1, SetOfSeq
    <2>3. r.id \in 1 .. (fresh.kp - 1)
        BY <1>1 DEF WithinBounds
    <2>4. r.id < fresh.kp
        BY <2>3, TypeParts
    <2> QED BY <2>2, <2>4 DEF KpRow, KpValue, Leaf, LeafType
<1>5. store.hpke \cup store.enc \cup store.expired \cup toRemove \subseteq 1 .. (fresh.kp - 1)
    BY <1>1, TypeParts DEF WithinBounds
<1>6. ASSUME NEW g \in Groups, Member(g)
      PROVE  store.groups[g] \in [scheme : Schemes, leaf : LeafType, pending : LeafType \cup {None}]
    BY <1>6, GroupAt DEF GroupRow
<1>7. ASSUME NEW sc \in Schemes, NEW b \in ToSet(mem.ids[sc])
      PROVE  b \in [cred : Credentials, pk : 1 .. MaxKeys, at : 0 .. now]
    <2>1. mem.ids[sc] \in Seq(Bundles(fresh.key, now))
        BY TypeParts DEF MemOK
    <2>2. b \in Bundles(fresh.key, now)
        BY <2>1, SetOfSeq
    <2>3. 1 .. (fresh.key - 1) \subseteq 1 .. MaxKeys
        BY TypeParts
    <2> QED BY <2>2, <2>3 DEF Bundles
<1> QED BY <1>2, <1>3, <1>4, <1>5, <1>6, <1>7 DEF ClientTypeOK

\* After any sequence of calls, restarts and crashes between two writes, for
\* any number of schemes and conversations and on either kind of storage, rows,
\* bundles and leaves are what the tables and the structs declare.
THEOREM ClientTyped == ClientSpec => []ClientTypeOK
<1>1. ClientInit => TypeInv
    BY InitType
<1>2. TypeInv /\ [ClientNext]_clientVars => TypeInv'
    BY NextType
<1>3. TypeInv => ClientTypeOK
    BY TypeInvImplies
<1> QED BY <1>1, <1>2, <1>3, PTL DEF ClientSpec

-----------------------------------------------------------------------------
(* The private keys of key packages, on either platform, for any number of *)
(* schemes and however the application uses the library.                   *)

\* A step that leaves the key packages alone.
LEMMA UsableSame ==
    ASSUME store'.kps = store.kps, store'.hpke = store.hpke, store'.enc = store.enc
    PROVE  UsableStep
    BY DEF UsableStep, Complete

\* A step that deletes some.
LEMMA UsablePruned ==
    ASSUME Pruned(store, store')
    PROVE  UsableStep
    BY DEF Pruned, UsableStep

\* A step that adds some, to a store with the same key packages.
LEMMA UsableRequested ==
    ASSUME TypeInv, NEW st, st.kps = store.kps, st.hpke = store.hpke, st.enc = store.enc,
           NEW count \in Nat, NEW v, Requested(st, store', fresh.kp, count, v),
           mem'.on => \A m \in fresh.kp .. (fresh.kp + count - 1) : Complete(store', m)
    PROVE  UsableStep
<1>1. fresh.kp \in Nat /\ \A r \in ToSet(store.kps) : r.id < fresh.kp
    BY TypeParts DEF StoreOK, WithinBounds
<1>2. \A i : Complete(st, i) <=> Complete(store, i)
    BY DEF Complete
<1> SUFFICES ASSUME NEW r \in ToSet(store'.kps),
                    \/ r \in ToSet(store.kps) /\ Complete(store, r.id)
                    \/ r \notin ToSet(store.kps) /\ mem'.on
             PROVE  Complete(store', r.id)
    BY DEF UsableStep
<1>3. CASE r \in ToSet(store.kps) /\ Complete(store, r.id)
    <2>1. r.id < fresh.kp /\ Complete(st, r.id)
        BY <1>1, <1>2, <1>3
    <2> QED BY <2>1 DEF Requested
<1>4. CASE r \notin ToSet(store.kps) /\ mem'.on
    <2>1. r.id \in fresh.kp .. (fresh.kp + count - 1)
        BY <1>4 DEF Requested
    <2> QED BY <1>4, <2>1
<1> QED BY <1>3, <1>4

\* The failure of a pruning depends on the key packages only.
LEMMA SamePruneFails ==
    ASSUME NEW st, NEW s, SamePackages(st, s), NEW refs
    PROVE  PruneFails(s, refs) <=> PruneFails(st, refs)
<1>1. s.kps = st.kps /\ s.hpke = st.hpke /\ s.enc = st.enc /\ s.expired = st.expired
    BY DEF SamePackages
<1>2. Doomed(s, refs) = Doomed(st, refs)
    BY <1>1 DEF Doomed
<1>3. \A d, m : Refused(s, d, m) <=> Refused(st, d, m)
    BY <1>1 DEF Refused
<1> QED BY <1>2, <1>3 DEF PruneFails

\* A store without expired key packages, in which the ones from kp on have their
\* private keys.
Ready(s, kp) == \A r \in ToSet(s.kps) : r.id \notin s.expired /\ (r.id < kp \/ Complete(s, r.id))

\* Pruning does not fail there.
LEMMA ReadyPrunes ==
    ASSUME NEW s \in Stores, NEW kp, Ready(s, kp)
    PROVE  ~PruneFails(s, {})
<1> DEFINE D == Doomed(s, {})
<1>1. D \in Seq(Nat) /\ ToSet(D) = {r.id : r \in ToSet(s.kps)} \cap (s.expired \cup {})
    BY DoomedIds
<1>2. ToSet(D) = {}
    BY <1>1 DEF Ready
<1> HIDE DEF D
<1>6. D \in Seq(Nat)
    BY <1>1
<1>3. Len(D) \in Nat /\ ToSet(D) = {D[i] : i \in 1 .. Len(D)}
    BY <1>6, SetOfSeq
<1>4. Len(D) = 0
    <2>1. Len(D) # 0 => 1 \in 1 .. Len(D)
        BY <1>3
    <2> QED BY <1>2, <1>3, <2>1
<1>5. 1 .. 3 * Len(D) = {}
    BY <1>4
<1> QED BY <1>5 DEF PruneFails, D

\* A store after some writes of Client::generate: what was there keeps its private
\* keys, what is new has an id from kp on.
Grown(st, s, kp) ==
    /\ \A r \in ToSet(s.kps) : r \in ToSet(st.kps) \/ ~(r.id < kp)
    /\ \A r \in ToSet(s.kps) : r.id < kp /\ Complete(st, r.id) => Complete(s, r.id)

\* One more request.
LEMMA GrownRequested ==
    ASSUME NEW st, NEW p, NEW s, NEW kp \in Nat, NEW first \in Nat, kp <= first, NEW count \in Nat, NEW v,
           Grown(st, p, kp), Requested(p, s, first, count, v)
    PROVE  Grown(st, s, kp)
<1>1. \A r \in ToSet(s.kps) : r \in ToSet(p.kps) \/ ~(r.id < kp)
    BY DEF Requested
<1>2. \A r \in ToSet(s.kps) : r \in ToSet(st.kps) \/ ~(r.id < kp)
    BY <1>1 DEF Grown
<1>3. ASSUME NEW r \in ToSet(s.kps), r.id < kp, Complete(st, r.id) PROVE Complete(s, r.id)
    <2>1. r \in ToSet(p.kps)
        BY <1>1, <1>3
    <2>2. s \in Stores
        BY DEF Requested
    <2>3. s.kps \in Seq(KpRow)
        BY <2>2 DEF Stores
    <2>4. r \in KpRow
        BY <2>3, SetOfSeq
    <2>5. r.id \in Nat
        BY <2>4 DEF KpRow
    <2>6. r.id < first
        BY <1>3, <2>5
    <2>7. Complete(p, r.id)
        BY <1>3, <2>1 DEF Grown
    <2> QED BY <2>6, <2>7 DEF Requested
<1> QED BY <1>2, <1>3 DEF Grown

\* A request that prunes without failing makes a store ready.
LEMMA RequestReady ==
    ASSUME NEW key, NEW kp \in Nat, NEW first \in Nat, NEW p, StoreOK(p, key, first, now), NEW count \in Nat, NEW v, NEW s,
           Requested(p, s, first, count, v), RequestDone(p, s, first, count),
           \A r \in ToSet(p.kps) : r.id < kp \/ Complete(p, r.id)
    PROVE  Ready(s, kp)
<1> DEFINE I == first .. (first + count - 1)
<1>1. /\ p.expired \subseteq 1 .. (first - 1) /\ \A r \in ToSet(p.kps) : r.id \in 1 .. (first - 1)
    BY DEF StoreOK, WithinBounds
<1>2. \A i \in I : i \notin p.expired
    BY <1>1
<1>3. \A r \in ToSet(p.kps) : r.id < first
    BY <1>1
<1>4. /\ \A r \in ToSet(s.kps) : r \in ToSet(p.kps) \/ r.id \in I
      /\ s.expired \subseteq p.expired
      /\ \A r \in ToSet(s.kps) : r.id < first /\ Complete(p, r.id) => Complete(s, r.id)
      /\ \A r \in ToSet(s.kps) : r.id \notin p.expired \/ r.id \in I
      /\ \A i \in I : Complete(s, i)
    BY DEF Requested, RequestDone
<1> HIDE DEF I
<1>5. ASSUME NEW r \in ToSet(s.kps) PROVE r.id \notin s.expired /\ (r.id < kp \/ Complete(s, r.id))
    <2>1. CASE r.id \in I
        BY <1>2, <1>4, <2>1
    <2>2. CASE r.id \notin I
        <3>1. r \in ToSet(p.kps) /\ r.id \notin p.expired
            BY <1>4, <2>2
        <3> QED BY <1>3, <1>4, <3>1
    <2> QED BY <2>1, <2>2
<1> QED BY <1>5 DEF Ready

\* Client::generate, write by write, for any number of schemes.
LEMMA GenerateGrown ==
    ASSUME NEW st, NEW key \in Nat, NEW kp \in Nat, now \in Nat, StoreOK(st, key, kp, now),
           1 <= kp, key <= MaxKeys + 1, NEW bs \in Seq(Identity(key)), Len(bs) > 0
    PROVE  LET tr == GenerateTrail(st, bs, kp)
           IN  /\ \A n \in 1 .. Len(tr) : Grown(st, tr[n], kp)
               /\ ~PruneFails(st, {}) => Ready(tr[Len(tr)], kp)
<1> DEFINE L == Len(bs)
<1>0. L \in Nat /\ NbKeyPackages \in Nat /\ MaxKeys \in Nat
    BY ClientAssumption
<1>9. PICK f : GenerateTrailSteps(f, st, bs, kp)
    BY GenerateTrailUnfold
<1>2. /\ f[0] = SaveIdentities(st, bs)
      /\ \A n \in 0 .. (Len(bs) - 1) :
            f[n + 1] = IF n + 1 > 1 /\ PruneFails(st, {}) THEN f[n]
                       ELSE f[n] \o RequestTrail(Last(f[n]), kp + ((n + 1) - 1) * NbKeyPackages, bs[n + 1].scheme, Bundle(bs[n + 1]), NbKeyPackages)
      /\ GenerateTrail(st, bs, kp) = f[Len(bs)]
    BY <1>9 DEF GenerateTrailSteps
<1>3. \A r \in ToSet(st.kps) : r.id < kp
    BY DEF StoreOK, WithinBounds
<1> DEFINE End(n) == f[n][Len(f[n])]
           Walked(n) == /\ f[n] \in Seq(Stores) /\ Len(f[n]) > 0
                        /\ \A i \in 1 .. Len(f[n]) : Grown(st, f[n][i], kp)
                        /\ StoreOK(End(n), key, kp + n * NbKeyPackages, now)
           T == {n \in Nat : /\ Walked(n)
                             /\ n = 0 => SamePackages(st, End(n))
                             /\ n > 0 /\ ~PruneFails(st, {}) => Ready(End(n), kp)}
<1>4. 0 \in T
    <2> DEFINE tr == SaveIdentities(st, bs)
    <2>1. /\ tr \in Seq(Stores) /\ Len(tr) = 2 * Len(bs)
          /\ \A n \in 1 .. Len(tr) : StoreOK(tr[n], key, kp, now) /\ SamePackages(st, tr[n])
        BY IdentitiesSaved
    <2> HIDE DEF tr
    <2>2. Len(tr) > 0 /\ Len(tr) \in 1 .. Len(tr)
        BY <1>0, <2>1
    <2>3. \A i \in 1 .. Len(tr) : Grown(st, tr[i], kp)
        BY <2>1 DEF Grown, SamePackages, Complete
    <2>4. kp + 0 * NbKeyPackages = kp
        BY <1>0
    <2>5. f[0] = tr
        BY <1>2 DEF tr
    <2>6. Walked(0)
        BY <2>1, <2>2, <2>3, <2>4, <2>5
    <2>7. SamePackages(st, End(0))
        BY <2>1, <2>2, <2>5
    <2> HIDE DEF Walked, End
    <2> QED BY <2>6, <2>7
<1>5. ASSUME NEW n \in Nat, n < L, n \in T PROVE n + 1 \in T
    <2> DEFINE b == bs[n + 1]
               p == End(n)
               first == kp + n * NbKeyPackages
               more == RequestTrail(p, first, b.scheme, Bundle(b), NbKeyPackages)
               P == n * NbKeyPackages
    <2>1. /\ f[n] \in Seq(Stores) /\ Len(f[n]) > 0
          /\ \A i \in 1 .. Len(f[n]) : Grown(st, f[n][i], kp)
          /\ StoreOK(p, key, first, now)
          /\ n = 0 => SamePackages(st, p)
          /\ n > 0 /\ ~PruneFails(st, {}) => Ready(p, kp)
        BY <1>5
    <2>2. Last(f[n]) = p /\ Len(f[n]) \in 1 .. Len(f[n]) /\ p \in Stores /\ Grown(st, p, kp)
        <3> DEFINE x == f[n]
        <3>1. x \in Seq(Stores) /\ Len(x) > 0 /\ \A i \in 1 .. Len(x) : Grown(st, x[i], kp)
            BY <2>1
        <3> HIDE DEF x
        <3>2. Last(x) = x[Len(x)] /\ Len(x) \in 1 .. Len(x)
            BY <3>1, EndOfTrail
        <3>3. x[Len(x)] \in Stores /\ Grown(st, x[Len(x)], kp)
            BY <3>1, <3>2
        <3> QED BY <3>2, <3>3 DEF x
    <2>3. n \in 0 .. (Len(bs) - 1) /\ (n + 1) - 1 = n /\ n + 1 > 0 /\ n + 1 # 0
        BY <1>0, <1>5
    <2>4. P \in Nat /\ (n + 1) * NbKeyPackages = P + NbKeyPackages
        BY <1>0, <1>5, Products
    <2>5. /\ first \in Nat /\ 1 <= first /\ kp <= first /\ kp + (n + 1) * NbKeyPackages = first + NbKeyPackages
          /\ first + NbKeyPackages \in Nat /\ first <= first + NbKeyPackages
        <3>1. first = kp + P
            OBVIOUS
        <3> HIDE DEF P, first
        <3> QED BY <1>0, <2>4, <3>1
    <2>6. /\ f[n + 1] = IF n + 1 > 1 /\ PruneFails(st, {}) THEN f[n] ELSE f[n] \o more
        BY <1>2, <2>2, <2>3
    <2>7. b \in Identity(key)
        BY <1>0, <1>5
    <2>8. b.scheme \in Schemes /\ b.cred \in Credentials /\ b.pk \in 1 .. (key - 1)
        BY <2>7 DEF Identity
    <2>9. Bundle(b).cred \in Credentials /\ Bundle(b).pk \in 1 .. MaxKeys
        BY <1>0, <2>8 DEF Bundle
    <2> HIDE DEF p, b, first, P
    <2>10. CASE n + 1 > 1 /\ PruneFails(st, {})
        <3>1. f[n + 1] = f[n] /\ End(n + 1) = p
            BY <2>6, <2>10 DEF p
        <3>2. StoreOK(p, key, first + NbKeyPackages, now)
            <4>1. key <= key /\ now <= now
                OBVIOUS
            <4> QED BY <2>1, <2>5, <4>1, StoreMonotone
        <3>3. Walked(n + 1)
            BY <2>1, <2>5, <3>1, <3>2
        <3> HIDE DEF Walked, End
        <3> QED BY <2>3, <2>10, <3>3
    <2>11. CASE ~(n + 1 > 1 /\ PruneFails(st, {}))
        <3> DEFINE c == Lacking(p, b.scheme, NbKeyPackages)
                   v == KpOf(Bundle(b), b.scheme)
                   e == EndOf(p, more)
                   x == f[n]
                   all == x \o more
        <3>1. c \in 0 .. NbKeyPackages
            BY <1>0, <2>2, LackingRange
        <3>2. /\ RequestOK(p, more, first, c, v)
              /\ ~PruneFails(p, {}) => RequestDone(p, e, first, c)
            BY <1>0, <2>2, <2>5, <2>8, <2>9, RequestKeyPackagesTrail
        <3>3. c \in Nat /\ first + c <= first + NbKeyPackages
            BY <1>0, <2>5, <3>1
        <3> HIDE DEF c, v, more, e
        <3>4. /\ more \in Seq(Stores) /\ Requested(p, e, first, c, v)
              /\ \A m \in 1 .. Len(more) : Requested(p, more[m], first, c, v)
            BY <3>2 DEF RequestOK, e
        <3>5. StoreOK(e, key, first + NbKeyPackages, now)
            BY <2>1, <2>5, <3>3, <3>4, RequestedOK
        <3>6. \A m \in 1 .. Len(more) : Grown(st, more[m], kp)
            BY <2>2, <2>5, <3>3, <3>4, GrownRequested
        <3>7. /\ all \in Seq(Stores) /\ Len(all) = Len(x) + Len(more)
              /\ \A i \in 1 .. Len(x) + Len(more) : all[i] = IF i <= Len(x) THEN x[i] ELSE more[i - Len(x)]
              /\ Len(x) \in Nat /\ Len(more) \in Nat
            BY <2>1, <3>4, ConcatProperties
        <3>14. /\ Len(x) > 0 /\ Len(x) \in 1 .. Len(x) /\ p = x[Len(x)]
               /\ \A i \in 1 .. Len(x) : Grown(st, x[i], kp)
            BY <2>1, <2>2 DEF p
        <3> HIDE DEF all, x
        <3>8. \A i \in 1 .. Len(all) : Grown(st, all[i], kp)
            <4> SUFFICES ASSUME NEW i \in 1 .. Len(all) PROVE Grown(st, all[i], kp)
                OBVIOUS
            <4>1. CASE i <= Len(x)
                <5>1. i \in 1 .. Len(x) /\ all[i] = x[i]
                    BY <3>7, <4>1
                <5> QED BY <3>14, <5>1
            <4>2. CASE ~(i <= Len(x))
                <5>1. i - Len(x) \in 1 .. Len(more) /\ all[i] = more[i - Len(x)]
                    BY <3>7, <4>2
                <5> QED BY <3>6, <5>1
            <4> QED BY <4>1, <4>2
        <3>9. all[Len(all)] = e /\ Len(all) > 0
            <4>1. CASE Len(more) = 0
                <5>1. e = p
                    BY <3>4, <4>1, EndOfTrail DEF e
                <5>2. Len(all) = Len(x) /\ Len(all) \in 1 .. Len(x) + Len(more)
                    BY <3>7, <3>14, <4>1
                <5>3. all[Len(all)] = x[Len(x)]
                    BY <3>7, <3>14, <5>2
                <5> QED BY <3>14, <5>1, <5>2, <5>3
            <4>2. CASE Len(more) # 0
                <5>1. e = more[Len(more)]
                    BY <3>4, <4>2, EndOfTrail DEF e
                <5>2. Len(all) \in 1 .. Len(x) + Len(more) /\ ~(Len(all) <= Len(x)) /\ Len(all) - Len(x) = Len(more)
                    BY <3>7, <4>2
                <5> QED BY <3>7, <5>1, <5>2
            <4> QED BY <4>1, <4>2
        <3>10. f[n + 1] = all
            BY <2>6, <2>11 DEF all, x
        <3>11. End(n + 1) = e
            BY <3>9, <3>10
        <3>12. Walked(n + 1)
            BY <2>5, <3>5, <3>7, <3>8, <3>9, <3>10, <3>11
        <3>13. ~PruneFails(st, {}) => Ready(e, kp)
            <4> SUFFICES ASSUME ~PruneFails(st, {}) PROVE Ready(e, kp)
                OBVIOUS
            <4>1. ~PruneFails(p, {}) /\ \A r \in ToSet(p.kps) : r.id < kp \/ Complete(p, r.id)
                <5>1. CASE n = 0
                    <6>1. SamePackages(st, p)
                        BY <2>1, <5>1
                    <6>2. ~PruneFails(p, {})
                        BY <6>1, SamePruneFails
                    <6> QED BY <1>3, <6>1, <6>2 DEF SamePackages
                <5>2. CASE n # 0
                    <6>1. Ready(p, kp)
                        BY <2>1, <5>2
                    <6>2. ~PruneFails(p, {})
                        BY <2>2, <6>1, ReadyPrunes
                    <6> QED BY <6>1, <6>2 DEF Ready
                <5> QED BY <5>1, <5>2
            <4> QED BY <2>1, <2>5, <3>2, <3>3, <3>4, <4>1, RequestReady
        <3> HIDE DEF Walked, End
        <3> QED BY <2>3, <3>11, <3>12, <3>13
    <2> QED BY <2>10, <2>11
<1> HIDE DEF T, L
<1>6. 0 .. L \subseteq T
    BY <1>0, <1>4, <1>5, BoundedInduction
<1>7. L \in T /\ L > 0
    BY <1>0, <1>6 DEF L
<1>8. /\ \A i \in 1 .. Len(f[L]) : Grown(st, f[L][i], kp)
      /\ ~PruneFails(st, {}) => Ready(f[L][Len(f[L])], kp)
    BY <1>7 DEF T
<1> QED BY <1>2, <1>8 DEF L

\* mls_init on an empty store
LEMMA InitGenerateUsable ==
    ASSUME TypeInv, NEW order \in SetToSeqs(Schemes), NEW type \in Types, InitGenerate(type, order)
    PROVE  UsableStep
<1> DEFINE bs == [i \in 1 .. Len(order) |->
                    [scheme |-> order[i], pk |-> fresh.key + i - 1,
                     cred |-> IF type = "basic" THEN Basic(Me)
                              ELSE X509(fresh.cert + i - 1, fresh.key + i - 1)]]
           trail == GenerateTrail(store, bs, fresh.kp)
           m == IF PruneFails(store, {}) THEN mem ELSE [on |-> TRUE, ids |-> PushAll(Off.ids, bs)]
           key == fresh.key + Len(order)
           kp == fresh.kp
<1>1. order \in Seq(Schemes) /\ Len(order) \in Nat
    BY TypeParts, OrderOf
<1>2. /\ ~mem.on
      /\ fresh.key + Len(order) - 1 <= MaxKeys
      /\ type = "x509" => fresh.cert + Len(order) - 1 <= MaxCerts
      /\ \E n \in 1 .. Len(trail) : After(trail, n, m)
    BY DEF InitGenerate
<1>3. type = "basic" \/ fresh.cert + Len(order) - 1 <= MaxCerts
    BY <1>2 DEF Types
<1>4. bs \in Seq(Identity(key)) /\ Len(bs) = Len(order)
    <2>1. bs \in Seq(Identity(key))
        BY <1>1, <1>2, <1>3, GeneratedIdentities
    <2>2. DOMAIN bs = 1 .. Len(order)
        OBVIOUS
    <2> HIDE DEF bs
    <2> QED BY <1>1, <2>1, <2>2
<1>5. key \in Nat /\ fresh.key <= key /\ key <= MaxKeys + 1 /\ kp \in Nat /\ 1 <= kp /\ now \in Nat
    <2>1. fresh.key + Len(order) - 1 <= MaxKeys
        BY <1>2, Zenon
    <2> QED BY <1>1, <2>1, TypeParts
<1>6. StoreOK(store, key, kp, now)
    BY <1>5, TypeParts, StoreMonotone
<1> HIDE DEF bs, key
<1>7. Len(bs) > 0
    <2>1. SUFFICES ASSUME Len(bs) = 0 PROVE FALSE
        BY <1>1, <1>4
    <2>2. PICK f : GenerateTrailSteps(f, store, bs, kp)
        BY <1>4, GenerateTrailUnfold
    <2>3. trail = f[0] /\ f[0] = SaveIdentities(store, bs)
        BY <2>1, <2>2 DEF GenerateTrailSteps
    <2>4. Len(SaveIdentities(store, bs)) = 2 * Len(bs)
        BY <1>4, <1>5, <1>6, IdentitiesSaved
    <2> HIDE DEF trail, m
    <2>5. Len(trail) = 0
        BY <2>1, <2>3, <2>4
    <2> QED BY <1>2, <2>5
<1>8. /\ \A n \in 1 .. Len(trail) : Grown(store, trail[n], kp)
      /\ ~PruneFails(store, {}) => Ready(trail[Len(trail)], kp)
    BY <1>4, <1>5, <1>6, <1>7, GenerateGrown
<1>9. PICK n \in 1 .. Len(trail) : After(trail, n, m)
    BY <1>2
<1>10. store' = trail[n] /\ mem' = IF n = Len(trail) THEN m ELSE Off
    BY <1>9 DEF After
<1>11. mem'.on => n = Len(trail) /\ ~PruneFails(store, {})
    BY <1>2, <1>10 DEF Off
<1> HIDE DEF trail, m
<1>12. Grown(store, store', kp) /\ (mem'.on => Ready(store', kp))
    BY <1>8, <1>10, <1>11
<1>13. \A r \in ToSet(store.kps) : r.id < kp
    BY TypeParts DEF StoreOK, WithinBounds
<1> QED BY <1>12, <1>13 DEF UsableStep, Grown, Ready

\* get_or_create_client_keypackages
LEMMA RequestKeyPackagesUsable ==
    ASSUME TypeInv, NEW sc \in Schemes, NEW type \in Types, RequestKeyPackages(sc, type)
    PROVE  UsableStep
<1> DEFINE k == Lacking(store, sc, NbKeyPackages)
           b == MostRecent(mem.ids, sc, type)
           trail == RequestTrail(store, fresh.kp, sc, b, NbKeyPackages)
           pruned == Prune(store, {})
           fails == PruneFails(store, {}) \/ (k > 0 /\ ~HasBundle(mem.ids, sc, type))
<1>1. IF fails THEN \E n \in 1 .. Len(pruned) : After(pruned, n, mem)
      ELSE \E n \in 1 .. Len(trail) : After(trail, n, mem)
    BY DEF RequestKeyPackages
<1>2. k \in Nat /\ store \in Stores
    BY TypeParts, LackingRange DEF StoreOK
<1>3. CASE fails
    <2>1. \A n \in 1 .. Len(pruned) : Pruned(store, pruned[n])
        BY <1>2, PruneTrail
    <2> HIDE DEF pruned
    <2>2. Pruned(store, store')
        BY <1>1, <1>3, <2>1 DEF After
    <2> QED BY <2>2, UsablePruned
<1>4. CASE ~fails
    <2> DEFINE v == KpOf(b, sc)
    <2>1. k > 0 => b.cred \in Credentials /\ b.pk \in 1 .. MaxKeys
        <3> SUFFICES ASSUME k > 0 PROVE b.cred \in Credentials /\ b.pk \in 1 .. MaxKeys
            OBVIOUS
        <3>1. mem.ids \in [Schemes -> Seq(Bundles(fresh.key, now))]
            BY TypeParts DEF MemOK
        <3>2. b \in Bundles(fresh.key, now)
            BY <1>4, <3>1, BundlesOfType
        <3>3. b.cred \in Credentials /\ b.pk \in 1 .. (fresh.key - 1)
            BY <3>2 DEF Bundles
        <3> QED BY <3>3, TypeParts
    <2>2. ~PruneFails(store, {})
        BY <1>4
    <2> HIDE DEF b
    <2>3. /\ RequestOK(store, trail, fresh.kp, k, v)
          /\ RequestDone(store, EndOf(store, trail), fresh.kp, k)
        BY <1>2, <2>1, <2>2, TypeParts, RequestKeyPackagesTrail
    <2> HIDE DEF trail, k, v, fails
    <2>4. PICK n \in 1 .. Len(trail) : After(trail, n, mem)
        BY <1>1, <1>4
    <2>5. Requested(store, store', fresh.kp, k, v) /\ trail \in Seq(Stores)
        BY <2>3, <2>4 DEF After, RequestOK
    <2>6. ASSUME mem'.on PROVE \A i \in fresh.kp .. (fresh.kp + k - 1) : Complete(store', i)
        <3>1. n = Len(trail) /\ store' = trail[n]
            BY <2>4, <2>6 DEF After, Off
        <3>2. EndOf(store, trail) = trail[Len(trail)]
            BY <2>4, <2>5, EndOfTrail
        <3> QED BY <2>3, <3>1, <3>2 DEF RequestDone
    <2> QED BY <1>2, <2>5, <2>6, UsableRequested
<1> QED BY <1>3, <1>4

\* create
LEMMA NewConversationUsable ==
    ASSUME TypeInv, NEW g \in Groups, NEW sc \in Schemes, NEW type \in Types, NewConversation(g, sc, type)
    PROVE  UsableStep
<1> DEFINE b == [scheme |-> sc, pk |-> fresh.key, cred |-> Basic(Me)]
           key == fresh.key + 1
<1>1. PICK bs \in {<<b>>, << >>} : \E v :
         LET saved == SaveIdentities(store, bs)
             trail == Append(saved, SetGroup(EndOf(store, saved), g, v))
         IN  \E n \in 1 .. Len(trail) : store' = trail[n]
    BY DEF NewConversation, After
<1>12. PICK v :
         LET saved == SaveIdentities(store, bs)
             trail == Append(saved, SetGroup(EndOf(store, saved), g, v))
         IN  \E n \in 1 .. Len(trail) : store' = trail[n]
    BY <1>1
<1> DEFINE saved == SaveIdentities(store, bs)
           e == EndOf(store, saved)
           last == [e EXCEPT !.groups[g] = v]
           trail == Append(saved, last)
<1>2. \E n \in 1 .. Len(trail) : store' = trail[n]
    BY <1>12 DEF SetGroup
<1>3. key \in Nat /\ fresh.key <= key /\ fresh.key \in 1 .. (key - 1) /\ now \in Nat /\ fresh.kp \in Nat
    BY TypeParts
<1>4. bs \in Seq(Identity(key))
    <2>1. Basic(Me) \in Credentials
        BY DEF Credentials
    <2> HIDE DEF key
    <2>2. b \in Identity(key)
        BY <1>3, <2>1, IdentityOf
    <2> HIDE DEF b
    <2>3. CASE bs = <<b>>
        <3>1. <<b>> \in Seq(Identity(key))
            BY <2>2
        <3> QED BY <2>3, <3>1
    <2>4. CASE bs = << >>
        BY <2>4, EmptySeq
    <2> QED BY <1>1, <2>3, <2>4
<1>5. StoreOK(store, key, fresh.kp, now) /\ store \in Stores
    <2>1. StoreOK(store, key, fresh.kp, now)
        BY <1>3, TypeParts, StoreMonotone
    <2> QED BY <2>1 DEF StoreOK
<1> HIDE DEF key
<1>6. saved \in Seq(Stores) /\ \A n \in 1 .. Len(saved) : SamePackages(store, saved[n])
    BY <1>3, <1>4, <1>5, IdentitiesSaved
<1> HIDE DEF saved
<1>7. e \in Stores /\ SamePackages(store, e)
    <2>1. CASE Len(saved) = 0
        <3>1. e = store
            BY <1>6, <2>1, EndOfTrail
        <3> QED BY <1>5, <3>1 DEF SamePackages
    <2>2. CASE Len(saved) # 0
        <3>1. e = saved[Len(saved)] /\ Len(saved) \in 1 .. Len(saved)
            BY <1>6, <2>2, EndOfTrail
        <3> QED BY <1>6, <3>1
    <2> QED BY <2>1, <2>2
<1> HIDE DEF e
<1>8. last.kps = e.kps /\ last.hpke = e.hpke /\ last.enc = e.enc
    BY <1>7 DEF Stores
<1> HIDE DEF last
<1>9. PICK n \in 1 .. Len(trail) : store' = trail[n]
    BY <1>2
<1>10. store' = last \/ \E i \in 1 .. Len(saved) : store' = saved[i]
    BY <1>6, <1>9
<1>11. store'.kps = store.kps /\ store'.hpke = store.hpke /\ store'.enc = store.enc
    BY <1>6, <1>7, <1>8, <1>10 DEF SamePackages
<1> QED BY <1>11, UsableSame

\* e2ei_rotate_all
LEMMA RotateAllUsable ==
    ASSUME TypeInv, NEW sc \in Schemes, NEW type \in Types, NEW order \in SetToSeqs({g \in Groups : Member(g)}),
           RotateAll(sc, type, order)
    PROVE  UsableStep
<1> DEFINE b == RotatedTo(sc, type)
           c == SaveCredential(store, b)
           p == SaveKeyPair(c, b)
           v == KpOf(Bundle(b), b.scheme)
<1>1. /\ b \in Identity(fresh.key)
      /\ RotateState(store, store', b, fresh.kp)
      /\ mem'.on => RotateEnd(store, store', b, fresh.kp)
    BY RotateAllStep DEF RotateStep
<1> HIDE DEF b
<1>2. SamePackages(store, c) /\ SamePackages(store, p)
    <2>1. /\ fresh.key \in Nat /\ fresh.kp \in Nat /\ now \in Nat
          /\ StoreOK(store, fresh.key, fresh.kp, now)
        BY TypeParts
    <2> DEFINE tr == SaveIdentities(store, <<b>>)
    <2>2. tr[1] = c /\ SamePackages(store, tr[1]) /\ SamePackages(store, p)
        BY <1>1, <2>1, SaveOneTrail
    <2> QED BY <2>2
<1>3. NbKeyPackages \in Nat
    BY TypeParts
<1>4. CASE mem'.on
    <2>1. PICK r : /\ Rotated(p, r, Leaf(b))
                   /\ Requested(r, store', fresh.kp, NbKeyPackages, v)
                   /\ store' = r \/ \A m \in fresh.kp .. (fresh.kp + NbKeyPackages - 1) : Complete(store', m)
        BY <1>1, <1>4 DEF RotateEnd
    <2> HIDE DEF p, c, v
    <2>2. r.kps = store.kps /\ r.hpke = store.hpke /\ r.enc = store.enc
        BY <1>2, <2>1 DEF Rotated, SamePackages
    <2>3. CASE store' = r
        BY <2>2, <2>3, UsableSame
    <2>4. CASE \A m \in fresh.kp .. (fresh.kp + NbKeyPackages - 1) : Complete(store', m)
        BY <1>3, <2>1, <2>2, <2>4, UsableRequested
    <2> QED BY <2>1, <2>3, <2>4
<1>5. CASE ~mem'.on
    <2>1. CASE store' = c
        BY <1>2, <2>1, UsableSame DEF SamePackages
    <2>2. CASE Provisioned(store, store', b, fresh.kp)
        <3>1. PICK r : Rotated(p, r, Leaf(b)) /\ Requested(r, store', fresh.kp, NbKeyPackages, v)
            BY <2>2 DEF Provisioned
        <3> HIDE DEF p, c, v
        <3>2. r.kps = store.kps /\ r.hpke = store.hpke /\ r.enc = store.enc
            BY <1>2, <3>1 DEF Rotated, SamePackages
        <3> QED BY <1>3, <1>5, <3>1, <3>2, UsableRequested
    <2> QED BY <1>1, <2>1, <2>2 DEF RotateState
<1> QED BY <1>4, <1>5

\* delete_keypackages
LEMMA DeleteKeyPackagesUsable ==
    ASSUME TypeInv, DeleteKeyPackages
    PROVE  UsableStep
<1> DEFINE pruned == Prune(store, toRemove)
           base == EndOf(store, pruned)
<1>1. \/ store' = base
      \/ \E n \in 1 .. Len(pruned) : store' = pruned[n]
      \/ \E some : store' = DeleteByCredential(base, some)
    BY DEF DeleteKeyPackages
<1>2. /\ \A n \in 1 .. Len(pruned) : Pruned(store, pruned[n])
      /\ Pruned(store, base)
    BY TypeParts, PruneTrail DEF StoreOK
<1>3. StoreOK(base, fresh.key, fresh.kp, now)
    BY TypeParts, PruneOK
<1> HIDE DEF pruned, base
<1>4. CASE \E some : store' = DeleteByCredential(base, some)
    <2>1. SamePackages(base, store')
        BY <1>3, <1>4, CredentialsKept
    <2> QED BY <1>2, <2>1 DEF UsableStep, Pruned, SamePackages, Complete
<1>5. CASE store' = base \/ \E n \in 1 .. Len(pruned) : store' = pruned[n]
    BY <1>2, <1>5, UsablePruned
<1> QED BY <1>1, <1>4, <1>5

\* The steps that leave the key packages alone.
LEMMA KeysOnlyUsable ==
    ASSUME TypeInv,
           \/ \E order \in SetToSeqs(Schemes) : InitLoad(order)
           \/ \E order \in SetToSeqs(Schemes) : GenerateRawKeypairs(order)
           \/ InitExternal
    PROVE  UsableStep
<1>1. store \in Stores
    BY TypeParts DEF StoreOK
<1>2. ASSUME NEW order \in SetToSeqs(Schemes), InitLoad(order) PROVE UsableStep
    <2>1. store' = [store EXCEPT !.keys = Load(store, order, fresh.key).keys]
        BY <1>2 DEF InitLoad
    <2>2. store'.kps = store.kps /\ store'.hpke = store.hpke /\ store'.enc = store.enc
        BY <1>1, <2>1 DEF Stores
    <2> QED BY <2>2, UsableSame
<1>3. ASSUME NEW order \in SetToSeqs(Schemes), GenerateRawKeypairs(order) PROVE UsableStep
    <2> DEFINE trail == RawKeypairs(store, order, fresh.key)
    <2>1. order \in Seq(Schemes)
        BY TypeParts, OrderOf
    <2>2. /\ fresh.key \in Nat /\ fresh.kp \in Nat /\ 1 <= fresh.key
          /\ StoreOK(store, fresh.key, fresh.kp, now)
        BY TypeParts
    <2>3. Len(trail) = Len(order) /\ TrailSame(trail, store)
        BY <2>1, <2>2, RawOK
    <2>4. \E n \in 1 .. Len(order) : store' = trail[n]
        BY <1>3 DEF GenerateRawKeypairs
    <2> HIDE DEF trail
    <2>5. SamePackages(store, store')
        BY <2>3, <2>4 DEF TrailSame
    <2> QED BY <2>5, UsableSame DEF SamePackages
<1>4. ASSUME InitExternal PROVE UsableStep
    <2> DEFINE trail == AdoptKeypairs(store, store.keys)
    <2>1. store.keys \in Seq(KeysBelow(fresh.key))
        BY TypeParts, KeysOfStore
    <2>2. TrailSame(trail, store)
        BY <2>1, TypeParts, AdoptOK
    <2>3. \E n \in 1 .. Len(trail) : store' = trail[n]
        BY <1>4 DEF InitExternal, After
    <2> HIDE DEF trail
    <2>4. SamePackages(store, store')
        BY <2>2, <2>3 DEF TrailSame
    <2> QED BY <2>4, UsableSame DEF SamePackages
<1> QED BY <1>2, <1>3, <1>4

\* Commits.
LEMMA CommitsUsable ==
    ASSUME TypeInv, NEW g \in Groups, OrdinaryCommit(g) \/ CommitAccepted(g) \/ ClearPendingCommit(g)
    PROVE  UsableStep
<1>1. store \in Stores
    BY TypeParts DEF StoreOK
<1>2. Member(g)
    BY DEF OrdinaryCommit, CommitAccepted, ClearPendingCommit, Idle
<1>3. store.groups[g] \in GroupRow
    BY <1>2, GroupAt
<1>4. ASSUME NEW v, store' = [store EXCEPT !.groups[g] = v] PROVE UsableStep
    <2>1. store'.kps = store.kps /\ store'.hpke = store.hpke /\ store'.enc = store.enc
        BY <1>1, <1>4 DEF Stores
    <2> QED BY <2>1, UsableSame
<1>5. CASE OrdinaryCommit(g)
    <2>1. store' = [store EXCEPT !.groups[g] = [store.groups[g] EXCEPT !.pending = store.groups[g].leaf]]
        BY <1>1, <1>3, <1>5 DEF OrdinaryCommit, Stores
    <2> QED BY <1>4, <2>1
<1>6. CASE CommitAccepted(g)
    <2>1. store' = [store EXCEPT !.groups[g] = [store.groups[g] EXCEPT !.leaf = store.groups[g].pending, !.pending = None]]
        BY <1>1, <1>3, <1>6 DEF CommitAccepted, Stores, GroupRow
    <2> QED BY <1>4, <2>1
<1>7. CASE ClearPendingCommit(g)
    <2>1. store' = [store EXCEPT !.groups[g] = [store.groups[g] EXCEPT !.pending = None]]
        BY <1>1, <1>3, <1>7 DEF ClearPendingCommit, Stores
    <2> QED BY <1>4, <2>1
<1> QED BY <1>5, <1>6, <1>7

\* Conversations and time.
LEMMA OthersUsable ==
    ASSUME TypeInv,
           \/ \E g \in Groups, i \in 1 .. Len(store.kps) : JoinConversation(g, i)
           \/ \E g \in Groups : OrdinaryCommit(g) \/ CommitAccepted(g) \/ ClearPendingCommit(g)
           \/ Tick \/ (\E i \in 1 .. Len(store.kps) : Expire(i)) \/ Crash
    PROVE  UsableStep
<1>1. store \in Stores
    BY TypeParts DEF StoreOK
<1>2. ASSUME NEW g \in Groups, NEW i \in 1 .. Len(store.kps), JoinConversation(g, i) PROVE UsableStep
    <2>1. JoinStep(g, store.kps[i])
        BY <1>2, JoinConversationStep
    <2>2. CASE Pruned(store, store')
        BY <2>2, UsablePruned
    <2>3. CASE \E v : Joined(store, store', g, v)
        BY <2>3 DEF Joined, UsableStep
    <2> QED BY <2>1, <2>2, <2>3 DEF JoinStep
<1>3. ASSUME NEW g \in Groups, OrdinaryCommit(g) \/ CommitAccepted(g) \/ ClearPendingCommit(g) PROVE UsableStep
    BY <1>3, CommitsUsable
<1>4. ASSUME NEW i \in 1 .. Len(store.kps), Expire(i) PROVE UsableStep
    <2>1. store' = [store EXCEPT !.expired = @ \cup {store.kps[i].id}]
        BY <1>4 DEF Expire
    <2>2. store'.kps = store.kps /\ store'.hpke = store.hpke /\ store'.enc = store.enc
        BY <1>1, <2>1 DEF Stores
    <2> QED BY <2>2, UsableSame
<1>5. CASE Tick \/ Crash
    BY <1>5, UsableSame DEF Tick, Crash
<1> QED BY <1>2, <1>3, <1>4, <1>5

\* Every step.
LEMMA NextUsable == TypeInv /\ [ClientNext]_clientVars => [UsableStep]_clientVars
<1> SUFFICES ASSUME TypeInv, ClientNext PROVE UsableStep
    OBVIOUS
<1>1. CASE \E order \in SetToSeqs(Schemes), type \in Types : InitGenerate(type, order)
    BY <1>1, InitGenerateUsable
<1>2. CASE \E sc \in Schemes, type \in Types : RequestKeyPackages(sc, type)
    BY <1>2, RequestKeyPackagesUsable
<1>3. CASE \E g \in Groups, sc \in Schemes, type \in Types : NewConversation(g, sc, type)
    BY <1>3, NewConversationUsable
<1>4. CASE \E sc \in Schemes, type \in Types, order \in SetToSeqs({g \in Groups : Member(g)}) : RotateAll(sc, type, order)
    BY <1>4, RotateAllUsable
<1>5. CASE DeleteKeyPackages
    BY <1>5, DeleteKeyPackagesUsable
<1> QED BY <1>1, <1>2, <1>3, <1>4, <1>5, KeysOnlyUsable, OthersUsable DEF ClientNext

\* A key package keeps its private keys as long as it is stored, wherever a call is
\* cut short, and a call that returns leaves none of its own without them: on
\* either platform, with any number of schemes, however the library is used.
THEOREM PackagesStayUsable == ClientSpec => KeyPackagesUsable
<1>1. ClientInit => TypeInv
    BY InitType
<1>2. TypeInv /\ [ClientNext]_clientVars => TypeInv'
    BY NextType
<1>3. TypeInv /\ [ClientNext]_clientVars => [UsableStep]_clientVars
    BY NextUsable
<1> QED BY <1>1, <1>2, <1>3, PTL DEF ClientSpec, KeyPackagesUsable

-----------------------------------------------------------------------------
(* One scheme on SQLCipher, and an application that deletes the old key    *)
(* packages late: what identifies the client.                              *)

OneScheme == \E sc : Schemes = {sc}

Scope == Platform = "generic" /\ OneScheme /\ Usages \subseteq {"careful", "external"}

\* A credential is stored.
HasCred(st, c) == \E r \in ToSet(st.creds) : r.val.cred = c

\* The first key pair is the client's, and every certificate is for it.
Keyed(st) ==
    /\ st.keys # << >>
    /\ st.keys[1].val.owner = Me
    /\ \A r \in ToSet(st.creds) : r.val.cred.type = "x509" => r.val.cred.pk = st.keys[1].id

\* A leaf has a stored credential and the first key.
LeafKnown(st, l) == HasCred(st, l.cred) /\ l.pk = st.keys[1].id

LeavesKnown(st) ==
    /\ \A r \in ToSet(st.kps) : LeafKnown(st, r.val)
    /\ \A g \in Groups : st.groups[g] # None =>
          /\ LeafKnown(st, st.groups[g].leaf)
          /\ st.groups[g].pending # None => LeafKnown(st, st.groups[g].pending)

\* Something depends on the identity.
Alive(st) == ToSet(st.kps) # {} \/ \E g \in Groups : st.groups[g] # None

\* Certificates are stored in the order of their issue; a Basic credential has
\* the number 0.
CertsAscend(rows, cert) ==
    /\ \A i, j \in 1 .. Len(rows) : i < j => rows[i].val.cred.cert < rows[j].val.cred.cert
    /\ \A i \in 1 .. Len(rows) : rows[i].val.cred.cert < cert

\* What a usage can store before the first init has succeeded.
Begun(st, u) ==
    /\ u # "external" =>
          /\ \A r \in ToSet(st.creds) : r.val.cred.name = Me
          /\ ToSet(st.creds) = {} => st.keys = << >>
    /\ u = "external" /\ (\E r \in ToSet(st.creds) : r.val.cred.type = "x509") => Keyed(st)
    /\ st.keys # << >> /\ st.keys[1].val.owner = Temporary => ToSet(st.creds) = {}

GoodStore(st, u, cert) ==
    /\ CertsAscend(st.creds, cert)
    /\ Alive(st) => Keyed(st)
    /\ LeavesKnown(st)
    /\ Begun(st, u)

\* Some credential outlives the key packages the application is to delete.
Kept(st, refs) ==
    refs # {} => \E r \in ToSet(st.creds) : \A q \in ToSet(st.kps) : q.id \in refs => q.val.cred # r.val.cred

\* The bundles a load would find.
Mirror(st) ==
    [i \in 1 .. Len(st.creds) |->
        [cred |-> st.creds[i].val.cred, pk |-> st.keys[1].id, at |-> st.creds[i].val.at]]

Loaded(m, st) ==
    m.on => /\ ToSet(st.creds) # {}
            /\ Keyed(st)
            /\ \A sc \in Schemes : m.ids[sc] = Mirror(st)

IdentityInv ==
    /\ GoodStore(store, usage, fresh.cert)
    /\ Kept(store, toRemove)
    /\ Loaded(mem, store)
    /\ bound => Keyed(store)

-----------------------------------------------------------------------------
(* Lemmas on stores.                                                       *)

\* Stores with the same credentials and key pairs identify the same client.
LEMMA SameClient ==
    ASSUME NEW st, NEW s, s.creds = st.creds, s.keys = st.keys
    PROVE  /\ Keyed(s) <=> Keyed(st)
           /\ \A l : LeafKnown(s, l) <=> LeafKnown(st, l)
           /\ Mirror(s) = Mirror(st)
           /\ \A u : Begun(s, u) <=> Begun(st, u)
           /\ \A m : Loaded(m, s) <=> Loaded(m, st)
<1>1. Keyed(s) <=> Keyed(st)
    BY DEF Keyed
<1>2. \A l : LeafKnown(s, l) <=> LeafKnown(st, l)
    BY DEF LeafKnown, HasCred
<1>3. Mirror(s) = Mirror(st)
    BY DEF Mirror
<1>4. \A u : Begun(s, u) <=> Begun(st, u)
    BY <1>1 DEF Begun
<1>5. \A m : Loaded(m, s) <=> Loaded(m, st)
    BY <1>1, <1>3 DEF Loaded
<1> QED BY <1>1, <1>2, <1>3, <1>4, <1>5

\* Such a store is as good when its new leaves are known.
LEMMA GoodSame ==
    ASSUME NEW st, NEW s, NEW u, NEW cert, GoodStore(st, u, cert), s.creds = st.creds, s.keys = st.keys,
           Alive(s) => Keyed(st),
           \A r \in ToSet(s.kps) : LeafKnown(st, r.val),
           \A g \in Groups : s.groups[g] # None =>
              /\ LeafKnown(st, s.groups[g].leaf)
              /\ s.groups[g].pending # None => LeafKnown(st, s.groups[g].pending)
    PROVE  GoodStore(s, u, cert)
<1>1. LeavesKnown(s)
    BY SameClient DEF LeavesKnown
<1>2. Alive(s) => Keyed(s)
    BY SameClient
<1>3. Begun(s, u)
    BY SameClient DEF GoodStore
<1> QED BY <1>1, <1>2, <1>3 DEF GoodStore

\* Key packages deleted.
LEMMA PrunedGood ==
    ASSUME NEW st, NEW s, NEW u, NEW cert, GoodStore(st, u, cert), Pruned(st, s)
    PROVE  GoodStore(s, u, cert) /\ \A refs : Kept(st, refs) => Kept(s, refs)
<1>1. /\ s.creds = st.creds /\ s.keys = st.keys /\ s.groups = st.groups
      /\ \A r \in ToSet(s.kps) : r \in ToSet(st.kps)
    BY DEF Pruned, SameIdentity
<1>2. Alive(s) => Keyed(st)
    BY <1>1 DEF GoodStore, Alive
<1>3. \A r \in ToSet(s.kps) : LeafKnown(st, r.val)
    BY <1>1 DEF GoodStore, LeavesKnown
<1>4. \A g \in Groups : s.groups[g] # None =>
              /\ LeafKnown(st, s.groups[g].leaf)
              /\ s.groups[g].pending # None => LeafKnown(st, s.groups[g].pending)
    BY <1>1 DEF GoodStore, LeavesKnown
<1>5. GoodStore(s, u, cert)
    BY <1>1, <1>2, <1>3, <1>4, GoodSame
<1>6. ASSUME NEW refs, Kept(st, refs) PROVE Kept(s, refs)
    BY <1>1, <1>6 DEF Kept
<1> QED BY <1>5, <1>6

\* Key packages of a known leaf added.
LEMMA RequestedGood ==
    ASSUME NEW st, NEW s, NEW u, NEW cert, GoodStore(st, u, cert), Keyed(st), NEW first \in Nat, NEW count \in Nat, NEW v,
           count > 0 => LeafKnown(st, v), Requested(st, s, first, count, v)
    PROVE  /\ GoodStore(s, u, cert)
           /\ \A refs : Kept(st, refs) /\ refs \subseteq 1 .. (first - 1) => Kept(s, refs)
<1>1. /\ s.creds = st.creds /\ s.keys = st.keys /\ s.groups = st.groups
      /\ \A r \in ToSet(s.kps) : r \in ToSet(st.kps) \/ (r.val = v /\ r.id \in first .. (first + count - 1))
    BY DEF Requested, SameIdentity
<1>2. \A r \in ToSet(s.kps) : LeafKnown(st, r.val)
    <2> SUFFICES ASSUME NEW r \in ToSet(s.kps), r \notin ToSet(st.kps) PROVE LeafKnown(st, r.val)
        BY DEF GoodStore, LeavesKnown
    <2>1. r.val = v /\ r.id \in first .. (first + count - 1)
        BY <1>1
    <2>2. count > 0
        BY <2>1
    <2> QED BY <2>1, <2>2
<1>3. \A g \in Groups : s.groups[g] # None =>
              /\ LeafKnown(st, s.groups[g].leaf)
              /\ s.groups[g].pending # None => LeafKnown(st, s.groups[g].pending)
    BY <1>1 DEF GoodStore, LeavesKnown
<1>4. GoodStore(s, u, cert)
    BY <1>1, <1>2, <1>3, GoodSame
<1>5. ASSUME NEW refs, Kept(st, refs), refs \subseteq 1 .. (first - 1) PROVE Kept(s, refs)
    <2>1. \A q \in ToSet(s.kps) : q.id \in refs => q \in ToSet(st.kps)
        BY <1>1, <1>5
    <2> QED BY <1>1, <1>5, <2>1 DEF Kept
<1> QED BY <1>4, <1>5

\* A conversation written.
LEMMA GroupGood ==
    ASSUME NEW st, NEW s, NEW u, NEW cert, GoodStore(st, u, cert), Keyed(st), st \in Stores, NEW g \in Groups, NEW v,
           s.creds = st.creds, s.keys = st.keys,
           \A r \in ToSet(s.kps) : r \in ToSet(st.kps),
           s.groups = [st.groups EXCEPT ![g] = v],
           LeafKnown(st, v.leaf), v.pending # None => LeafKnown(st, v.pending)
    PROVE  GoodStore(s, u, cert) /\ \A refs : Kept(st, refs) => Kept(s, refs)
<1>1. \A r \in ToSet(s.kps) : LeafKnown(st, r.val)
    BY DEF GoodStore, LeavesKnown
<1>2. \A h \in Groups : s.groups[h] = IF h = g THEN v ELSE st.groups[h]
    BY DEF Stores
<1>3. \A h \in Groups : s.groups[h] # None =>
              /\ LeafKnown(st, s.groups[h].leaf)
              /\ s.groups[h].pending # None => LeafKnown(st, s.groups[h].pending)
    BY <1>2 DEF GoodStore, LeavesKnown
<1>4. GoodStore(s, u, cert)
    BY <1>1, <1>3, GoodSame
<1>5. ASSUME NEW refs, Kept(st, refs) PROVE Kept(s, refs)
    BY <1>5 DEF Kept
<1> QED BY <1>4, <1>5

\* The bundles of the stored credentials.
LEMMA Mirrored ==
    ASSUME NEW st \in Stores
    PROVE  /\ Mirror(st) \in Seq({Mirror(st)[i] : i \in 1 .. Len(st.creds)}) /\ Len(Mirror(st)) = Len(st.creds)
           /\ \A b \in ToSet(Mirror(st)) : b.pk = st.keys[1].id /\ \E r \in ToSet(st.creds) : b.cred = r.val.cred /\ b.at = r.val.at
           /\ \A r \in ToSet(st.creds) : \E b \in ToSet(Mirror(st)) : b.cred = r.val.cred /\ b.pk = st.keys[1].id
<1>1. st.creds \in Seq(CredRow)
    BY DEF Stores
<1> DEFINE B(i) == [cred |-> st.creds[i].val.cred, pk |-> st.keys[1].id, at |-> st.creds[i].val.at]
           m == Mirror(st)
<1>2. m = [i \in 1 .. Len(st.creds) |-> B(i)] /\ Len(st.creds) \in Nat
    BY <1>1 DEF Mirror
<1>3. DOMAIN m = 1 .. Len(st.creds) /\ \A i \in 1 .. Len(st.creds) : m[i] = B(i)
    BY <1>2
<1>4. Len(m) = Len(st.creds) /\ m \in Seq({m[i] : i \in 1 .. Len(st.creds)})
    <2> DEFINE S == {m[i] : i \in 1 .. Len(st.creds)}
    <2> HIDE DEF B, m
    <2>1. \A i \in 1 .. Len(st.creds) : m[i] \in S
        OBVIOUS
    <2>2. m = [i \in 1 .. Len(st.creds) |-> m[i]]
        BY <1>2, <1>3
    <2> HIDE DEF S
    <2>3. [i \in 1 .. Len(st.creds) |-> m[i]] \in Seq(S) /\ Len([i \in 1 .. Len(st.creds) |-> m[i]]) = Len(st.creds)
        BY <1>2, <2>1, TrailOf
    <2> QED BY <2>2, <2>3 DEF S
<1> HIDE DEF m
<1>5. ToSet(m) = {m[i] : i \in 1 .. Len(st.creds)}
    BY <1>3 DEF ToSet
<1>6. ToSet(st.creds) = {st.creds[i] : i \in 1 .. Len(st.creds)}
    BY <1>1, SetOfSeq
<1>7. ASSUME NEW b \in ToSet(m) PROVE b.pk = st.keys[1].id /\ \E r \in ToSet(st.creds) : b.cred = r.val.cred /\ b.at = r.val.at
    <2>1. PICK i \in 1 .. Len(st.creds) : b = B(i)
        BY <1>3, <1>5
    <2> QED BY <1>6, <2>1
<1>8. ASSUME NEW r \in ToSet(st.creds) PROVE \E b \in ToSet(m) : b.cred = r.val.cred /\ b.pk = st.keys[1].id
    <2>1. PICK i \in 1 .. Len(st.creds) : r = st.creds[i]
        BY <1>6
    <2>2. m[i] = B(i) /\ m[i] \in ToSet(m)
        BY <1>3, <1>5
    <2> QED BY <2>1, <2>2
<1> QED BY <1>4, <1>7, <1>8 DEF m

\* An identity a client can add: its certificate, if it has one, is for its key
\* and the newest, and the key is the client's, unless nothing is stored yet.
NewIdentity(st, b, u, cert) ==
    /\ b.cred.name = Me
    /\ b.cred.type = "x509" => b.cred.pk = b.pk
    /\ b.cred.cert < cert
    /\ \A r \in ToSet(st.creds) : r.val.cred.cert < b.cred.cert
    /\ \/ Keyed(st) /\ b.pk = st.keys[1].id
       \/ ToSet(st.creds) = {} /\ st.keys = << >> /\ u # "external"

\* A credential has a number.
LEMMA CertNumber ==
    ASSUME NEW c \in Credentials
    PROVE  /\ c.cert \in Nat /\ c.type \in Types
           /\ c.type = "x509" => c.cert >= 1
           /\ c.type = "basic" => c.cert = 0
<1>0. MaxCerts \in Nat
    BY ClientAssumption
<1>1. CASE \E n \in {Me, Temporary} : c = Basic(n)
    BY <1>1 DEF Basic, Types
<1>2. CASE \E n \in 1 .. MaxCerts, pk \in 1 .. MaxKeys : c = X509(n, pk)
    BY <1>0, <1>2 DEF X509, Types
<1> QED BY <1>1, <1>2 DEF Credentials

\* The credentials of a store have numbers.
LEMMA StoredCerts ==
    ASSUME NEW st \in Stores
    PROVE  /\ \A r \in ToSet(st.creds) : r.val.cred \in Credentials /\ r.val.cred.cert \in Nat
           /\ \A i \in 1 .. Len(st.creds) : st.creds[i] \in ToSet(st.creds) /\ st.creds[i].val.cred.cert \in Nat
<1>1. st.creds \in Seq(CredRow)
    BY DEF Stores
<1>2. \A r \in ToSet(st.creds) : r \in CredRow
    BY <1>1, SetOfSeq
<1>3. \A r \in ToSet(st.creds) : r.val.cred \in Credentials
    BY <1>2 DEF CredRow
<1>4. \A i \in 1 .. Len(st.creds) : st.creds[i] \in ToSet(st.creds)
    BY <1>1, SetOfSeq
<1> QED BY <1>3, <1>4, CertNumber

\* The new certificate comes last.
LEMMA CertAppended ==
    ASSUME NEW st \in Stores, NEW cert \in Nat, NEW cert2 \in Nat, cert <= cert2, CertsAscend(st.creds, cert), NEW row,
           row.val.cred.cert \in Nat, row.val.cred.cert < cert2, \A r \in ToSet(st.creds) : r.val.cred.cert < row.val.cred.cert
    PROVE  CertsAscend(Append(st.creds, row), cert2)
<1> DEFINE rows == st.creds
           L == Len(rows)
           a == Append(rows, row)
           N(x) == x.val.cred.cert
<1>1. rows \in Seq(CredRow) /\ L \in Nat
    BY DEF Stores
<1>2. Len(a) = L + 1 /\ a[L + 1] = row /\ \A i \in 1 .. L : a[i] = rows[i]
    BY <1>1
<1>3. \A i \in 1 .. L : N(rows[i]) \in Nat /\ N(rows[i]) < N(row)
    BY StoredCerts
<1>4. /\ \A i, j \in 1 .. L : i < j => N(rows[i]) < N(rows[j])
      /\ \A i \in 1 .. L : N(rows[i]) < cert
    BY DEF CertsAscend
<1> HIDE DEF rows, L, a
<1>5. ASSUME NEW i \in 1 .. Len(a), NEW j \in 1 .. Len(a), i < j PROVE N(a[i]) < N(a[j])
    <2>1. i \in 1 .. L /\ a[i] = rows[i]
        BY <1>1, <1>2, <1>5
    <2>2. CASE j = L + 1
        BY <1>2, <1>3, <2>1, <2>2
    <2>3. CASE j # L + 1
        <3>1. j \in 1 .. L /\ a[j] = rows[j]
            BY <1>1, <1>2, <2>3
        <3> QED BY <1>4, <1>5, <2>1, <3>1
    <2> QED BY <2>2, <2>3
<1>6. ASSUME NEW i \in 1 .. Len(a) PROVE N(a[i]) < cert2
    <2>1. CASE i = L + 1
        BY <1>2, <2>1
    <2>2. CASE i # L + 1
        <3>1. i \in 1 .. L /\ a[i] = rows[i]
            BY <1>1, <1>2, <2>2
        <3>2. N(rows[i]) \in Nat /\ N(rows[i]) < cert
            BY <1>3, <1>4, <3>1
        <3> QED BY <3>1, <3>2
    <2> QED BY <2>1, <2>2
<1>7. CertsAscend(a, cert2)
    BY <1>5, <1>6 DEF CertsAscend
<1> QED BY <1>7 DEF a, rows

\* A store with one more credential, and the client's key as before or new.
Enrolled(st, s, b) ==
    /\ s.creds = Append(st.creds, Row(Me, [cred |-> b.cred, at |-> now]))
    /\ s.kps = st.kps /\ s.hpke = st.hpke /\ s.enc = st.enc /\ s.groups = st.groups
    /\ \/ s.keys = st.keys
       \/ s.keys = Append(st.keys, Row(b.pk, [scheme |-> b.scheme, owner |-> Me]))

\* It is as good a store, and it knows the new leaf once the key is there.
LEMMA EnrolledGood ==
    ASSUME NEW st \in Stores, NEW s, NEW u, NEW cert \in Nat, NEW cert2 \in Nat, cert <= cert2, GoodStore(st, u, cert),
           NEW b, b.cred \in Credentials, NewIdentity(st, b, u, cert2), Enrolled(st, s, b)
    PROVE  /\ GoodStore(s, u, cert2)
           /\ ToSet(s.creds) = ToSet(st.creds) \cup {Row(Me, [cred |-> b.cred, at |-> now])}
           /\ \A refs : Kept(st, refs) => Kept(s, refs)
           /\ Keyed(st) \/ s.keys # st.keys => Keyed(s) /\ s.keys[1].id = b.pk /\ LeafKnown(s, Leaf(b))
<1> DEFINE row == Row(Me, [cred |-> b.cred, at |-> now])
           kr == Row(b.pk, [scheme |-> b.scheme, owner |-> Me])
<1>1. row.val.cred = b.cred /\ kr.id = b.pk /\ kr.val.owner = Me
    BY DEF Row
<1>2. st.creds \in Seq(CredRow) /\ st.keys \in Seq(KeyRow)
    BY DEF Stores
<1>3. s.creds = Append(st.creds, row) /\ s.kps = st.kps /\ s.hpke = st.hpke /\ s.enc = st.enc /\ s.groups = st.groups
    BY DEF Enrolled
<1>4. s.keys = st.keys \/ s.keys = Append(st.keys, kr)
    BY DEF Enrolled
<1> HIDE DEF row, kr
<1>5. ToSet(s.creds) = ToSet(st.creds) \cup {row}
    <2>1. DOMAIN Append(st.creds, row) = 1 .. (Len(st.creds) + 1) /\ DOMAIN st.creds = 1 .. Len(st.creds) /\ Len(st.creds) \in Nat
        BY <1>2
    <2>2. \A i \in 1 .. (Len(st.creds) + 1) : Append(st.creds, row)[i] = IF i = Len(st.creds) + 1 THEN row ELSE st.creds[i]
        BY <1>2
    <2> QED BY <1>3, <2>1, <2>2 DEF ToSet
<1>6. st.keys # << >> => s.keys # << >> /\ s.keys[1] = st.keys[1]
    BY <1>2, <1>4
<1>7. st.keys = << >> /\ s.keys # st.keys => s.keys # << >> /\ s.keys[1] = kr
    BY <1>4
<1>8. CertsAscend(s.creds, cert2)
    <2>1. b.cred.cert \in Nat
        BY CertNumber
    <2> QED BY <1>1, <1>3, <2>1, CertAppended DEF GoodStore, NewIdentity
<1>9. Keyed(st) => Keyed(s) /\ s.keys[1] = st.keys[1]
    <2> SUFFICES ASSUME Keyed(st) PROVE Keyed(s) /\ s.keys[1] = st.keys[1]
        OBVIOUS
    <2>1. s.keys # << >> /\ s.keys[1] = st.keys[1] /\ s.keys[1].val.owner = Me
        BY <1>6 DEF Keyed
    <2>2. b.cred.type = "x509" => b.cred.pk = s.keys[1].id
        BY <2>1 DEF NewIdentity, Keyed
    <2>3. \A r \in ToSet(st.creds) : r.val.cred.type = "x509" => r.val.cred.pk = s.keys[1].id
        BY <2>1 DEF Keyed
    <2> QED BY <1>1, <1>5, <2>1, <2>2, <2>3 DEF Keyed
<1>10. ~Keyed(st) => ToSet(st.creds) = {} /\ st.keys = << >> /\ u # "external"
    BY DEF NewIdentity
<1>11. ~Keyed(st) /\ s.keys # st.keys => Keyed(s) /\ s.keys[1] = kr
    <2> SUFFICES ASSUME ~Keyed(st), s.keys # st.keys PROVE Keyed(s) /\ s.keys[1] = kr
        OBVIOUS
    <2>1. s.keys # << >> /\ s.keys[1] = kr
        BY <1>7, <1>10
    <2>2. \A r \in ToSet(s.creds) : r.val.cred.type = "x509" => r.val.cred.pk = s.keys[1].id
        BY <1>1, <1>5, <1>10, <2>1 DEF NewIdentity
    <2> QED BY <1>1, <2>1, <2>2 DEF Keyed
<1>12. Keyed(st) \/ s.keys # st.keys => Keyed(s) /\ s.keys[1].id = b.pk
    <2>1. CASE Keyed(st)
        <3>1. b.pk = st.keys[1].id
            BY <2>1 DEF NewIdentity, Keyed
        <3> QED BY <1>9, <2>1, <3>1
    <2>2. CASE ~Keyed(st)
        BY <1>1, <1>11, <2>2
    <2> QED BY <2>1, <2>2
<1>13. HasCred(s, b.cred)
    BY <1>1, <1>5 DEF HasCred
<1>14. Keyed(st) \/ s.keys # st.keys => LeafKnown(s, Leaf(b))
    BY <1>12, <1>13 DEF LeafKnown, Leaf
<1>15. ASSUME NEW l, Keyed(st), LeafKnown(st, l) PROVE LeafKnown(s, l)
    BY <1>5, <1>9, <1>15 DEF LeafKnown, HasCred
<1>16. Alive(s) <=> Alive(st)
    BY <1>3 DEF Alive
<1>17. LeavesKnown(s)
    <2>1. CASE Alive(st)
        <3>1. Keyed(st) /\ LeavesKnown(st)
            BY <2>1 DEF GoodStore
        <3> QED BY <1>3, <1>15, <3>1 DEF LeavesKnown
    <2>2. CASE ~Alive(st)
        BY <1>3, <2>2 DEF LeavesKnown, Alive
    <2> QED BY <2>1, <2>2
<1>18. Alive(s) => Keyed(s)
    BY <1>9, <1>16 DEF GoodStore
<1>20. Begun(s, u)
    <2>1. u # "external" => \A r \in ToSet(s.creds) : r.val.cred.name = Me
        BY <1>1, <1>5 DEF GoodStore, Begun, NewIdentity
    <2>2. ToSet(s.creds) # {}
        BY <1>5
    <2>3. u = "external" => Keyed(s)
        BY <1>9, <1>10
    <2>4. ~(s.keys # << >> /\ s.keys[1].val.owner = Temporary)
        <3>1. Me # Temporary
            BY DEF Me, Temporary
        <3>2. CASE Keyed(st)
            BY <1>9, <3>1, <3>2 DEF Keyed
        <3>3. CASE ~Keyed(st)
            BY <1>10, <1>11, <3>1, <3>3 DEF Keyed
        <3> QED BY <3>2, <3>3
    <2> QED BY <2>1, <2>2, <2>3, <2>4 DEF Begun
<1>21. ASSUME NEW refs, Kept(st, refs) PROVE Kept(s, refs)
    BY <1>3, <1>5, <1>21 DEF Kept
<1> QED BY <1>5, <1>8, <1>12, <1>14, <1>17, <1>18, <1>20, <1>21 DEF GoodStore, row

\* The new identity is stored, at least its credential; the key packages are the
\* old ones and new ones.
Renewed(st, s, b, u, cert, kp) ==
    /\ s \in Stores
    /\ GoodStore(s, u, cert)
    /\ s.creds = Append(st.creds, Row(Me, [cred |-> b.cred, at |-> now]))
    /\ ToSet(s.creds) = ToSet(st.creds) \cup {Row(Me, [cred |-> b.cred, at |-> now])}
    /\ \A q \in ToSet(s.kps) : q \in ToSet(st.kps) \/ q.id \notin 1 .. (kp - 1)
    /\ \A refs : Kept(st, refs) /\ refs \subseteq 1 .. (kp - 1) => Kept(s, refs)
    /\ Keyed(st) => Keyed(s) /\ s.keys[1].id = b.pk

\* And its key is the client's.
Settled(st, s, b, u, cert, kp) == Renewed(st, s, b, u, cert, kp) /\ Keyed(s) /\ s.keys[1].id = b.pk

\* The key of an identity is the client's.
KeyOf(s, b) == Keyed(s) /\ s.keys[1].id = b.pk /\ LeafKnown(s, Leaf(b))

\* The credential alone, and then the key pair.
LEMMA SavedGood ==
    ASSUME NEW st, NEW key \in Nat, NEW kp \in Nat, now \in Nat, StoreOK(st, key, kp, now), Platform = "generic",
           NEW u, NEW cert \in Nat, NEW cert2 \in Nat, cert <= cert2, GoodStore(st, u, cert),
           NEW b \in Identity(key), NewIdentity(st, b, u, cert2)
    PROVE  LET p == SaveKeyPair(SaveCredential(st, b), b)
           IN  /\ Renewed(st, SaveCredential(st, b), b, u, cert2, kp)
               /\ Renewed(st, p, b, u, cert2, kp)
               /\ KeyOf(p, b)
<1> DEFINE s == SaveCredential(st, b)
           p == SaveKeyPair(s, b)
           row == Row(Me, [cred |-> b.cred, at |-> now])
           kr == Row(b.pk, [scheme |-> b.scheme, owner |-> Me])
<1>1. st \in Stores /\ b.cred \in Credentials /\ b.pk \in Nat /\ b.scheme \in Schemes
    BY DEF StoreOK, Identity
<1>2. /\ s \in Stores /\ s.keys = st.keys /\ s.kps = st.kps /\ s.hpke = st.hpke /\ s.enc = st.enc
      /\ s.groups = st.groups /\ s.creds = Append(st.creds, row)
    BY <1>1, CredentialSaved DEF StoreOK, WithinBounds
<1> HIDE DEF s
<1>3. /\ p \in Stores /\ p.creds = s.creds /\ p.kps = s.kps /\ p.hpke = s.hpke /\ p.enc = s.enc
      /\ p.groups = s.groups /\ p.keys = Append(s.keys, kr)
    BY <1>1, <1>2, KeyPairSaved
<1> HIDE DEF p, row, kr
<1>4. Enrolled(st, s, b) /\ Enrolled(st, p, b)
    BY <1>2, <1>3 DEF Enrolled, row, kr
<1>5. p.keys # st.keys
    <2>1. st.keys \in Seq(KeyRow)
        BY <1>1 DEF Stores
    <2>2. Len(Append(st.keys, kr)) = Len(st.keys) + 1 /\ Len(st.keys) \in Nat
        BY <2>1
    <2> QED BY <1>2, <1>3, <2>2
<1>6. /\ GoodStore(s, u, cert2)
      /\ ToSet(s.creds) = ToSet(st.creds) \cup {Row(Me, [cred |-> b.cred, at |-> now])}
      /\ \A refs : Kept(st, refs) => Kept(s, refs)
      /\ Keyed(st) \/ s.keys # st.keys => Keyed(s) /\ s.keys[1].id = b.pk /\ LeafKnown(s, Leaf(b))
    BY <1>1, <1>4, EnrolledGood
<1>7. /\ GoodStore(p, u, cert2)
      /\ ToSet(p.creds) = ToSet(st.creds) \cup {Row(Me, [cred |-> b.cred, at |-> now])}
      /\ \A refs : Kept(st, refs) => Kept(p, refs)
      /\ Keyed(st) \/ p.keys # st.keys => Keyed(p) /\ p.keys[1].id = b.pk /\ LeafKnown(p, Leaf(b))
    BY <1>1, <1>4, EnrolledGood
<1>8. Renewed(st, s, b, u, cert2, kp)
    BY <1>2, <1>6 DEF Renewed, row
<1>9. Renewed(st, p, b, u, cert2, kp)
    BY <1>2, <1>3, <1>7 DEF Renewed, row
<1> QED BY <1>5, <1>7, <1>8, <1>9 DEF s, p, KeyOf

\* The commits and the new key packages.
LEMMA ProvisionedGood ==
    ASSUME NEW st, NEW key \in Nat, NEW kp \in Nat, now \in Nat, StoreOK(st, key, kp, now), Platform = "generic",
           NEW u, NEW cert \in Nat, NEW cert2 \in Nat, cert <= cert2, GoodStore(st, u, cert),
           NEW b \in Identity(key), NewIdentity(st, b, u, cert2), NEW s, Provisioned(st, s, b, kp)
    PROVE  Settled(st, s, b, u, cert2, kp)
<1> DEFINE p == SaveKeyPair(SaveCredential(st, b), b)
           v == KpOf(Bundle(b), b.scheme)
<1>1. Renewed(st, p, b, u, cert2, kp) /\ Keyed(p) /\ p.keys[1].id = b.pk /\ LeafKnown(p, Leaf(b))
    <2>1. Renewed(st, p, b, u, cert2, kp) /\ KeyOf(p, b)
        BY SavedGood
    <2> HIDE DEF p
    <2> QED BY <2>1 DEF KeyOf
<1>2. PICK r : Rotated(p, r, Leaf(b)) /\ Requested(r, s, kp, NbKeyPackages, v)
    BY DEF Provisioned
<1>3. v.cred = b.cred /\ v.pk = b.pk /\ Leaf(b).cred = b.cred /\ Leaf(b).pk = b.pk /\ NbKeyPackages \in Nat
    BY ClientAssumption DEF KpOf, Bundle, Leaf
<1> HIDE DEF p, v
<1>4. /\ r.creds = p.creds /\ r.keys = p.keys /\ r.kps = p.kps /\ r.hpke = p.hpke /\ r.enc = p.enc
      /\ \A g \in Groups : r.groups[g] = p.groups[g] \/
            (p.groups[g] # None /\ r.groups[g] = [p.groups[g] EXCEPT !.pending = Leaf(b)])
    BY <1>2 DEF Rotated
<1>5. GoodStore(p, u, cert2) /\ p \in Stores
    BY <1>1 DEF Renewed
<1>6. \A g \in Groups : r.groups[g] # None =>
              /\ LeafKnown(p, r.groups[g].leaf)
              /\ r.groups[g].pending # None => LeafKnown(p, r.groups[g].pending)
    <2> SUFFICES ASSUME NEW g \in Groups, r.groups[g] # None
                 PROVE  /\ LeafKnown(p, r.groups[g].leaf)
                        /\ r.groups[g].pending # None => LeafKnown(p, r.groups[g].pending)
        OBVIOUS
    <2>1. CASE r.groups[g] = p.groups[g]
        BY <1>5, <2>1 DEF GoodStore, LeavesKnown
    <2>2. CASE p.groups[g] # None /\ r.groups[g] = [p.groups[g] EXCEPT !.pending = Leaf(b)]
        <3>1. p.groups[g] \in GroupRow
            BY <1>5, <2>2 DEF Stores
        <3>2. r.groups[g].leaf = p.groups[g].leaf /\ r.groups[g].pending = Leaf(b)
            BY <2>2, <3>1 DEF GroupRow
        <3> QED BY <1>1, <1>5, <2>2, <3>2 DEF GoodStore, LeavesKnown
    <2> QED BY <1>4, <2>1, <2>2
<1>7. GoodStore(r, u, cert2)
    <2>2. \A q \in ToSet(r.kps) : LeafKnown(p, q.val)
        BY <1>4, <1>5 DEF GoodStore, LeavesKnown
    <2> QED BY <1>1, <1>4, <1>5, <1>6, <2>2, GoodSame
<1>8. Keyed(r) /\ LeafKnown(r, v)
    BY <1>1, <1>3, <1>4 DEF Keyed, LeafKnown, HasCred
<1>9. /\ GoodStore(s, u, cert2)
      /\ \A refs : Kept(r, refs) /\ refs \subseteq 1 .. (kp - 1) => Kept(s, refs)
    BY <1>2, <1>3, <1>7, <1>8, RequestedGood
<1>10. /\ s \in Stores /\ s.creds = r.creds /\ s.keys = r.keys
       /\ \A q \in ToSet(s.kps) : q \in ToSet(r.kps) \/ (q.val = v /\ q.id \in kp .. (kp + NbKeyPackages - 1))
    BY <1>2 DEF Requested, SameIdentity
<1>11. \A refs : Kept(r, refs) <=> Kept(p, refs)
    BY <1>4 DEF Kept
<1>12. \A q \in ToSet(s.kps) : q \in ToSet(st.kps) \/ q.id \notin 1 .. (kp - 1)
    <2> SUFFICES ASSUME NEW q \in ToSet(s.kps) PROVE q \in ToSet(st.kps) \/ q.id \notin 1 .. (kp - 1)
        OBVIOUS
    <2>1. CASE q \in ToSet(r.kps)
        BY <1>1, <1>4, <2>1 DEF Renewed
    <2>2. CASE q.id \in kp .. (kp + NbKeyPackages - 1)
        BY <1>3, <2>2
    <2> QED BY <1>10, <2>1, <2>2
<1>13. \A refs : Kept(st, refs) /\ refs \subseteq 1 .. (kp - 1) => Kept(s, refs)
    BY <1>1, <1>9, <1>11 DEF Renewed
<1>14. Keyed(s) /\ s.keys[1].id = b.pk
    BY <1>1, <1>4, <1>10 DEF Keyed
<1>15. /\ s.creds = Append(st.creds, Row(Me, [cred |-> b.cred, at |-> now]))
       /\ ToSet(s.creds) = ToSet(st.creds) \cup {Row(Me, [cred |-> b.cred, at |-> now])}
    BY <1>1, <1>4, <1>10 DEF Renewed
<1>16. Renewed(st, s, b, u, cert2, kp)
    BY <1>9, <1>10, <1>12, <1>13, <1>14, <1>15 DEF Renewed
<1> QED BY <1>14, <1>16 DEF Settled

\* The new bundle comes last, as push_credential_bundle puts it.
LEMMA MirrorAppended ==
    ASSUME NEW st \in Stores, NEW s \in Stores, NEW b, s.creds = Append(st.creds, Row(Me, [cred |-> b.cred, at |-> now])),
           s.keys[1].id = b.pk, Keyed(st) => st.keys[1].id = b.pk, Keyed(st) \/ ToSet(st.creds) = {}
    PROVE  Mirror(s) = Append(Mirror(st), Bundle(b))
<1> DEFINE row == Row(Me, [cred |-> b.cred, at |-> now])
           L == Len(st.creds)
           M(i) == [cred |-> s.creds[i].val.cred, pk |-> s.keys[1].id, at |-> s.creds[i].val.at]
           N(i) == [cred |-> st.creds[i].val.cred, pk |-> st.keys[1].id, at |-> st.creds[i].val.at]
<1>1. st.creds \in Seq(CredRow) /\ L \in Nat
    BY DEF Stores
<1>2. row.val.cred = b.cred /\ row.val.at = now
    BY DEF Row
<1>3. s.creds = Append(st.creds, row)
    OBVIOUS
<1> HIDE DEF row
<1>4. Len(s.creds) = L + 1 /\ s.creds[L + 1] = row /\ \A i \in 1 .. L : s.creds[i] = st.creds[i]
    BY <1>1, <1>3
<1>5. Mirror(s) = [i \in 1 .. (L + 1) |-> M(i)] /\ Mirror(st) = [i \in 1 .. L |-> N(i)]
    BY <1>4 DEF Mirror
<1>6. M(L + 1) = Bundle(b)
    BY <1>2, <1>4 DEF Bundle
<1>7. \A i \in 1 .. L : M(i) = N(i)
    <2> SUFFICES ASSUME NEW i \in 1 .. L PROVE M(i) = N(i)
        OBVIOUS
    <2>1. st.creds[i] \in ToSet(st.creds)
        BY <1>1, SetOfSeq
    <2>2. st.keys[1].id = b.pk
        BY <2>1
    <2> QED BY <1>4, <2>2
<1> HIDE DEF L, M, N
<1> DEFINE a == Mirror(st)
           x == Bundle(b)
<1>8. a = [i \in 1 .. L |-> M(i)]
    BY <1>5, <1>7
<1>9. Mirror(s) = [i \in 1 .. (L + 1) |-> M(i)] /\ M(L + 1) = x
    BY <1>5, <1>6
<1> HIDE DEF a, x
<1>10. L \in Nat
    BY <1>1 DEF L
<1>11. Append(a, x) = [i \in 1 .. (L + 1) |-> M(i)]
    <2> DEFINE X == {M(i) : i \in 1 .. (L + 1)}
               f == [i \in 1 .. (L + 1) |-> M(i)]
    <2>1. \A i \in 1 .. L : M(i) \in X
        BY <1>10
    <2>2. x \in X
        BY <1>9, <1>10
    <2> HIDE DEF X
    <2>3. a \in Seq(X) /\ Len(a) = L
        BY <1>8, <1>10, <2>1
    <2>4. Len(Append(a, x)) = L + 1 /\ Append(a, x) \in Seq(X)
        BY <2>2, <2>3
    <2>5. \A i \in 1 .. (L + 1) : Append(a, x)[i] = M(i)
        <3> SUFFICES ASSUME NEW i \in 1 .. (L + 1) PROVE Append(a, x)[i] = M(i)
            OBVIOUS
        <3>1. Append(a, x)[i] = IF i = Len(a) + 1 THEN x ELSE a[i]
            BY <1>10, <2>2, <2>3
        <3>2. i # L + 1 => i \in 1 .. L
            BY <1>10
        <3> QED BY <1>8, <1>9, <2>3, <3>1, <3>2
    <2>6. f \in Seq(X) /\ Len(f) = L + 1 /\ \A i \in 1 .. (L + 1) : f[i] = M(i)
        <3>1. \A i \in 1 .. (L + 1) : M(i) \in X
            BY DEF X
        <3> QED BY <1>10, <3>1
    <2> HIDE DEF f
    <2>7. Append(a, x) = f
        BY <2>4, <2>5, <2>6, SeqEqual
    <2> QED BY <2>7 DEF f
<1> QED BY <1>9, <1>11 DEF a, x

\* The only order of one scheme.
LEMMA OneOrder ==
    ASSUME NEW sc, Schemes = {sc}
    PROVE  /\ \A order \in SetToSeqs(Schemes) : order \in Seq(Schemes) /\ Len(order) = 1 /\ order[1] = sc
           /\ <<sc>> \in SetToSeqs(Schemes)
<1>1. IsFiniteSet(Schemes) /\ Cardinality(Schemes) = 1
    BY FS_Singleton
<1>2. ASSUME NEW order \in SetToSeqs(Schemes) PROVE order \in Seq(Schemes) /\ Len(order) = 1 /\ order[1] = sc
    <2>1. order \in Seq(Schemes) /\ Len(order) = 1
        BY <1>1, OrderOf
    <2>2. order[1] \in Schemes
        <3>1. 1 \in 1 .. Len(order)
            BY <2>1
        <3> QED BY <2>1, <3>1, ElementOfSeq
    <2> QED BY <2>1, <2>2
<1>3. <<sc>> \in SetToSeqs(Schemes)
    <2>1. <<sc>> \in [1 .. Cardinality(Schemes) -> Schemes]
        BY <1>1
    <2>2. \A i, j \in 1 .. Cardinality(Schemes) : i # j => <<sc>>[i] # <<sc>>[j]
        BY <1>1
    <2> QED BY <2>1, <2>2 DEF SetToSeqs
<1> QED BY <1>2, <1>3

\* What load makes of a store: the first key, or a new one, for every credential.
LoadedFrom(l, st, key, sc) ==
    /\ l.keys = IF st.keys = << >> THEN <<Row(key, [scheme |-> sc, owner |-> Me])>> ELSE st.keys
    /\ l.ids[sc] = Mirror([st EXCEPT !.keys = l.keys])
    /\ \/ l.ok = FALSE
       \/ /\ l.ok = TRUE
          /\ \A r \in ToSet(st.creds) : r.val.cred.type = "x509" => r.val.cred.pk = l.keys[1].id
    /\ (/\ \A r \in ToSet(st.creds) : r.val.cred.name = Me /\ (r.val.cred.type = "x509" => r.val.cred.pk = l.keys[1].id)
        /\ \A i, j \in 1 .. Len(st.creds) : i < j => st.creds[i].val.cred # st.creds[j].val.cred)
       => l.ok = TRUE

\* The load of a store with one scheme.
LEMMA LoadOne ==
    ASSUME NEW sc, Schemes = {sc}, Platform = "generic", NEW st, NEW key, NEW kp, NEW t, StoreOK(st, key, kp, t),
           NEW order \in SetToSeqs(Schemes)
    PROVE  LoadedFrom(Load(st, order, key), st, key, sc)
<1> DEFINE C == [n \in 1 .. Len(st.creds) |-> st.creds[n].val]
           acc == [ok |-> TRUE, keys |-> st.keys, next |-> key, ids |-> Off.ids]
           l == Load(st, order, key)
           found == {i \in 1 .. Len(acc.keys) : acc.keys[i].val.scheme = sc}
           pk == IF found = {} THEN acc.next
                  ELSE acc.keys[CHOOSE i \in found : \A j \in found : i <= j].id
           cbs == [i \in 1 .. Len(C) |-> [cred |-> C[i].cred, pk |-> pk, at |-> C[i].at]]
           refused == \E i \in 1 .. Len(cbs) :
                      \/ cbs[i].cred.type = "basic" /\ cbs[i].cred.name # Me
                      \/ cbs[i].cred.type = "x509" /\ cbs[i].cred.pk # pk
                      \/ \E j \in 1 .. (i - 1) : cbs[j] = cbs[i]
           k2 == IF found = {} THEN acc.next + 1 ELSE acc.next
           ks == IF found = {}
                       THEN Save(KeyPairTable, acc.keys, pk, [scheme |-> sc, owner |-> Me]).rows
                       ELSE acc.keys
           ids == [acc.ids EXCEPT ![sc] = cbs]
           res == [ok |-> ~refused, next |-> k2, keys |-> ks, ids |-> ids]
           first == IF st.keys = << >> THEN key ELSE st.keys[1].id
           s == [st EXCEPT !.keys = ks]
<1>1. order \in Seq(Schemes) /\ Len(order) = 1 /\ order[1] = sc
    BY OneOrder
<1>2. l = LoadScheme(acc, sc, C)
    <2>1. PICK f : LoadSteps(f, st, order, key)
        BY <1>1, LoadUnfold
    <2>2. SortedCredentials(Keep(st.creds, {r \in ToSet(st.creds) : r.id = Me})) = C
        BY LoadedCredentials
    <2> HIDE DEF C
    <2>3. f[0 + 1] = LoadScheme(f[0], order[0 + 1], SortedCredentials(Keep(st.creds, {r \in ToSet(st.creds) : r.id = Me})))
        <3>1. 0 \in 0 .. (Len(order) - 1)
            BY <1>1
        <3> QED BY <2>1, <3>1 DEF LoadSteps
    <2>4. f[0] = acc /\ l = f[1]
        BY <1>1, <2>1 DEF LoadSteps
    <2>5. 0 + 1 = 1
        OBVIOUS
    <2> HIDE DEF acc, l
    <2> QED BY <1>1, <2>2, <2>3, <2>4, <2>5
<1>3. l = res
    BY <1>2 DEF LoadScheme
<1>4. /\ st \in Stores /\ st.keys \in Seq(KeyRow) /\ st.creds \in Seq(CredRow)
      /\ acc.ok = TRUE /\ acc.keys = st.keys /\ acc.next = key /\ acc.ids = Off.ids
    BY DEF StoreOK, Stores
<1> HIDE DEF acc, l
<1>5. found = 1 .. Len(st.keys)
    <2>1. \A i \in 1 .. Len(st.keys) : st.keys[i].val.scheme = sc
        <3> SUFFICES ASSUME NEW i \in 1 .. Len(st.keys) PROVE st.keys[i].val.scheme = sc
            OBVIOUS
        <3>1. st.keys[i] \in KeyRow
            BY <1>4
        <3> QED BY <3>1 DEF KeyRow
    <2> QED BY <1>4, <2>1
<1>6. found = {} <=> st.keys = << >>
    <2> HIDE DEF found
    <2>1. Len(st.keys) \in Nat /\ (Len(st.keys) = 0 <=> st.keys = << >>)
        BY <1>4
    <2>2. 1 .. Len(st.keys) = {} <=> Len(st.keys) = 0
        BY <2>1
    <2> QED BY <1>5, <2>1, <2>2
<1>7. pk = first
    <2>1. CASE st.keys = << >>
        <3> HIDE DEF found
        <3> QED BY <1>4, <1>6, <2>1
    <2>2. CASE st.keys # << >>
        <3> DEFINE c == CHOOSE i \in found : \A j \in found : i <= j
        <3>1. 1 \in 1 .. Len(st.keys) /\ Len(st.keys) \in Nat
            BY <1>4, <2>2
        <3>2. \E i \in found : \A j \in found : i <= j
            <4> HIDE DEF found
            <4> QED BY <1>5, <3>1
        <3>3. c \in found /\ \A j \in found : c <= j
            <4> HIDE DEF found
            <4> QED BY <3>2
        <3> HIDE DEF found
        <3>4. pk = acc.keys[c].id
            BY <1>6, <2>2
        <3> HIDE DEF c, pk
        <3>5. c = 1
            BY <1>5, <3>1, <3>3
        <3> QED BY <1>4, <2>2, <3>4, <3>5
    <2> QED BY <2>1, <2>2
<1>8. ks = IF st.keys = << >> THEN <<Row(key, [scheme |-> sc, owner |-> Me])>> ELSE st.keys
    <2>1. CASE st.keys = << >>
        <3> DEFINE v == [scheme |-> sc, owner |-> Me]
        <3>1. KeyPairTable.save = "insert"
            BY ClientTables
        <3> HIDE DEF found, pk, v
        <3>2. Save(KeyPairTable, acc.keys, pk, v).rows = Append(<< >>, Row(pk, v))
            BY <1>4, <2>1, <3>1 DEF Save, Outcome
        <3>3. Append(<< >>, Row(pk, v)) = <<Row(pk, v)>>
            OBVIOUS
        <3>4. pk = key
            BY <1>7, <2>1
        <3> QED BY <1>6, <2>1, <3>2, <3>3, <3>4 DEF v
    <2>2. CASE st.keys # << >>
        <3> HIDE DEF found, pk
        <3> QED BY <1>4, <1>6, <2>2
    <2> QED BY <2>1, <2>2
<1>9. ks[1].id = first
    <2> HIDE DEF ks
    <2>1. CASE st.keys = << >>
        <3> DEFINE x == Row(key, [scheme |-> sc, owner |-> Me])
        <3>1. x.id = key
            BY DEF Row
        <3>2. ks = <<x>>
            BY <1>8, <2>1
        <3> HIDE DEF x
        <3>3. ks[1] = x
            BY <3>2
        <3> QED BY <2>1, <3>1, <3>3
    <2>2. CASE st.keys # << >>
        BY <1>8, <2>2
    <2> QED BY <2>1, <2>2
<1> HIDE DEF found, pk, ks
<1>10. s.keys = ks /\ s.creds = st.creds
    BY <1>4 DEF Stores
<1> DEFINE B(i) == [cred |-> st.creds[i].val.cred, pk |-> pk, at |-> st.creds[i].val.at]
<1>11. Len(C) = Len(st.creds) /\ Len(st.creds) \in Nat /\ \A i \in 1 .. Len(st.creds) : C[i] = st.creds[i].val
    BY <1>4
<1>12. cbs = [i \in 1 .. Len(st.creds) |-> B(i)]
    BY <1>11
<1>13. cbs = Mirror(s)
    BY <1>7, <1>9, <1>10, <1>12 DEF Mirror
<1>14. Len(cbs) = Len(st.creds) /\ \A i \in 1 .. Len(st.creds) : cbs[i] = B(i)
    BY <1>11, <1>12
<1>27. \A i \in 1 .. Len(st.creds) : cbs[i].cred = st.creds[i].val.cred
    <2> HIDE DEF B, cbs
    <2> SUFFICES ASSUME NEW i \in 1 .. Len(st.creds) PROVE cbs[i].cred = st.creds[i].val.cred
        OBVIOUS
    <2>1. cbs[i] = B(i)
        BY <1>14
    <2> QED BY <2>1 DEF B
<1>15. ToSet(st.creds) = {st.creds[i] : i \in 1 .. Len(st.creds)}
    BY <1>4, SetOfSeq
<1> HIDE DEF cbs, C
<1>16. ids[sc] = cbs
    BY <1>4 DEF Off
<1>17. ~refused => \A r \in ToSet(st.creds) : r.val.cred.type = "x509" => r.val.cred.pk = pk
    <2> SUFFICES ASSUME ~refused, NEW i \in 1 .. Len(st.creds), st.creds[i].val.cred.type = "x509"
                 PROVE  st.creds[i].val.cred.pk = pk
        BY <1>15
    <2>1. cbs[i].cred = st.creds[i].val.cred
        BY <1>27
    <2> QED BY <1>14, <2>1
<1>18. ASSUME \A r \in ToSet(st.creds) : r.val.cred.name = Me /\ (r.val.cred.type = "x509" => r.val.cred.pk = pk),
              \A i, j \in 1 .. Len(st.creds) : i < j => st.creds[i].val.cred # st.creds[j].val.cred
       PROVE  ~refused
    <2> SUFFICES ASSUME NEW i \in 1 .. Len(st.creds)
                 PROVE  ~(\/ cbs[i].cred.type = "basic" /\ cbs[i].cred.name # Me
                          \/ cbs[i].cred.type = "x509" /\ cbs[i].cred.pk # pk
                          \/ \E j \in 1 .. (i - 1) : cbs[j] = cbs[i])
        BY <1>14
    <2>1. cbs[i].cred = st.creds[i].val.cred /\ st.creds[i] \in ToSet(st.creds)
        BY <1>15, <1>27
    <2>2. ASSUME NEW j \in 1 .. (i - 1) PROVE cbs[j] # cbs[i]
        <3>1. j \in 1 .. Len(st.creds) /\ j < i
            BY <1>11
        <3>2. cbs[j].cred = st.creds[j].val.cred
            BY <1>27, <3>1
        <3> QED BY <1>18, <2>1, <3>1, <3>2
    <2> QED BY <1>18, <2>1, <2>2
<1> HIDE DEF refused, ids
<1>19. l.ok = ~refused /\ l.keys = ks /\ l.ids = ids
    BY <1>3
<1>20. refused \in BOOLEAN
    BY DEF refused
<1>21. pk = l.keys[1].id
    BY <1>7, <1>9, <1>19
<1>22. l.ids[sc] = Mirror([st EXCEPT !.keys = l.keys])
    BY <1>13, <1>16, <1>19
<1>23. l.keys = IF st.keys = << >> THEN <<Row(key, [scheme |-> sc, owner |-> Me])>> ELSE st.keys
    BY <1>8, <1>19
<1>24. \/ l.ok = FALSE
       \/ /\ l.ok = TRUE
          /\ \A r \in ToSet(st.creds) : r.val.cred.type = "x509" => r.val.cred.pk = l.keys[1].id
    BY <1>17, <1>19, <1>20, <1>21
<1>25. (/\ \A r \in ToSet(st.creds) : r.val.cred.name = Me /\ (r.val.cred.type = "x509" => r.val.cred.pk = l.keys[1].id)
        /\ \A i, j \in 1 .. Len(st.creds) : i < j => st.creds[i].val.cred # st.creds[j].val.cred)
       => l.ok = TRUE
    BY <1>18, <1>19, <1>20, <1>21
<1>26. LoadedFrom(l, st, key, sc)
    BY <1>22, <1>23, <1>24, <1>25 DEF LoadedFrom
<1> QED BY <1>26 DEF l

\* A bundle of a type is found.
LEMMA BundleFound ==
    ASSUME NEW S, NEW ids \in [Schemes -> Seq(S)], NEW sc \in Schemes, NEW b \in ToSet(ids[sc])
    PROVE  HasBundle(ids, sc, b.cred.type)
<1> DEFINE X == {c \in ToSet(ids[sc]) : c.cred.type = b.cred.type}
           k == Keep(ids[sc], X)
<1>1. ids[sc] \in Seq(S) /\ b \in X
    OBVIOUS
<1>2. OfType(ids, sc, b.cred.type) = k
    BY DEF OfType
<1> HIDE DEF X
<1>3. ToSet(k) = ToSet(ids[sc]) \cap X
    BY <1>1, KeepElements
<1> HIDE DEF k
<1>4. b \in ToSet(k)
    BY <1>1, <1>3
<1>5. k # << >>
    BY <1>4 DEF ToSet
<1> QED BY <1>2, <1>5 DEF HasBundle

\* The bundles of the stored credentials sign for a known leaf.
LEMMA SignsMirror ==
    ASSUME NEW S, NEW ids \in [Schemes -> Seq(S)], NEW sc \in Schemes, NEW st \in Stores, ids[sc] = Mirror(st),
           NEW leaf, LeafKnown(st, leaf)
    PROVE  Signs(ids, sc, leaf)
<1> DEFINE type == leaf.cred.type
<1>1. PICK r \in ToSet(st.creds) : r.val.cred = leaf.cred
    BY DEF LeafKnown, HasCred
<1>2. /\ \A b \in ToSet(Mirror(st)) : b.pk = st.keys[1].id
      /\ \E b \in ToSet(Mirror(st)) : b.cred = r.val.cred /\ b.pk = st.keys[1].id
    BY Mirrored
<1>3. leaf.pk = st.keys[1].id
    BY DEF LeafKnown
<1>4. PICK b \in ToSet(ids[sc]) : b.cred = leaf.cred /\ b.pk = leaf.pk
    BY <1>1, <1>2, <1>3
<1>5. HasBundle(ids, sc, b.cred.type)
    BY <1>4, BundleFound
<1>6. MostRecent(ids, sc, type) \in ToSet(ids[sc])
    BY <1>4, <1>5, BundlesOfType
<1>7. MostRecent(ids, sc, type).pk = leaf.pk
    BY <1>2, <1>3, <1>6
<1>8. HasKey(ids, sc, type, leaf.pk)
    BY <1>4 DEF HasKey
<1> QED BY <1>7, <1>8 DEF Signs

\* The most recent bundle of the client's is a known leaf.
LEMMA MostRecentKnown ==
    ASSUME NEW S, NEW ids \in [Schemes -> Seq(S)], NEW sc \in Schemes, NEW st \in Stores, ids[sc] = Mirror(st),
           NEW type, HasBundle(ids, sc, type)
    PROVE  /\ LeafKnown(st, MostRecent(ids, sc, type))
           /\ MostRecent(ids, sc, type).pk = st.keys[1].id
<1> DEFINE b == MostRecent(ids, sc, type)
<1>1. b \in ToSet(ids[sc])
    BY BundlesOfType
<1> HIDE DEF b
<1>2. b.pk = st.keys[1].id /\ \E r \in ToSet(st.creds) : b.cred = r.val.cred
    <2>1. b \in ToSet(Mirror(st))
        BY <1>1
    <2>2. b.pk = st.keys[1].id /\ \E r \in ToSet(st.creds) : b.cred = r.val.cred /\ b.at = r.val.at
        BY <2>1, Mirrored
    <2> QED BY <2>2
<1>3. LeafKnown(st, b)
    BY <1>2 DEF LeafKnown, HasCred
<1> QED BY <1>2, <1>3 DEF b

\* The most recent certificate is the one with the highest number.
LEMMA NewestMirror ==
    ASSUME NEW S, NEW ids \in [Schemes -> Seq(S)], NEW sc \in Schemes, NEW st \in Stores, ids[sc] = Mirror(st),
           NEW cert \in Nat, CertsAscend(st.creds, cert), HasBundle(ids, sc, "x509"), NEW r \in ToSet(st.creds)
    PROVE  r.val.cred.cert <= MostRecent(ids, sc, "x509").cred.cert
<1> DEFINE m == Mirror(st)
           L == Len(st.creds)
           X == {b \in ToSet(m) : b.cred.type = "x509"}
           N(i) == st.creds[i].val.cred.cert
<1>1. st.creds \in Seq(CredRow) /\ L \in Nat
    BY DEF Stores
<1>2. m \in Seq(S) /\ Len(m) = L
    BY Mirrored
<1>3. \A i \in 1 .. L : m[i].cred = st.creds[i].val.cred
    BY DEF Mirror
<1>4. ToSet(st.creds) = {st.creds[i] : i \in 1 .. L} /\ ToSet(m) = {m[i] : i \in 1 .. L}
    BY <1>1, <1>2, SetOfSeq
<1>5. \A i \in 1 .. L : st.creds[i].val.cred \in Credentials /\ N(i) \in Nat
    BY StoredCerts
<1>6. PICK a \in 1 .. L : r = st.creds[a]
    BY <1>4
<1>7. \A i \in 1 .. L : N(i) <= N(L)
    <2> SUFFICES ASSUME NEW i \in 1 .. L PROVE N(i) <= N(L)
        OBVIOUS
    <2>1. L \in 1 .. L /\ (i = L \/ i < L)
        BY <1>1
    <2>2. i < L => N(i) < N(L)
        BY <2>1 DEF CertsAscend
    <2>3. N(i) \in Nat /\ N(L) \in Nat
        BY <1>5, <2>1
    <2> HIDE DEF L, N
    <2> QED BY <2>1, <2>2, <2>3
<1>8. PICK c \in 1 .. L : st.creds[c].val.cred.type = "x509"
    <2> DEFINE x == MostRecent(ids, sc, "x509")
    <2>1. x \in ToSet(m) /\ x.cred.type = "x509"
        BY BundlesOfType
    <2> HIDE DEF m, x
    <2>2. PICK i \in 1 .. L : x = m[i]
        BY <1>4, <2>1
    <2>3. m[i].cred = st.creds[i].val.cred
        BY <1>3
    <2> QED BY <2>1, <2>2, <2>3
<1>9. L \in 1 .. L /\ st.creds[L].val.cred.type = "x509"
    <2>1. L \in 1 .. L
        BY <1>1
    <2>2. N(c) >= 1 /\ N(c) <= N(L)
        BY <1>5, <1>7, <1>8, CertNumber
    <2>3. N(L) \in Nat /\ N(c) \in Nat /\ st.creds[L].val.cred \in Credentials
        BY <1>5, <2>1
    <2>4. N(L) # 0
        BY <2>2, <2>3
    <2>5. st.creds[L].val.cred.type \in {"basic", "x509"} /\ (st.creds[L].val.cred.type = "basic" => N(L) = 0)
        BY <2>3, CertNumber DEF Types
    <2> QED BY <2>1, <2>4, <2>5
<1>10. m[L] \in X
    BY <1>3, <1>4, <1>9
<1>11. OfType(ids, sc, "x509") = Keep(m, X)
    BY DEF OfType
<1>12. m # << >>
    BY <1>2, <1>9
<1> HIDE DEF X, m
<1>13. Keep(m, X) # << >> /\ Keep(m, X)[Len(Keep(m, X))] = m[L]
    BY <1>2, <1>10, <1>12, KeepLast
<1>14. MostRecent(ids, sc, "x509") = m[L]
    BY <1>11, <1>13 DEF MostRecent, Last
<1>15. MostRecent(ids, sc, "x509").cred.cert = N(L)
    BY <1>3, <1>9, <1>14
<1> QED BY <1>6, <1>7, <1>15

\* Two sequences to keep the same places of.
SamePlaces(s, good, t, good2) == Len(s) = Len(t) /\ \A i \in 1 .. Len(s) : s[i] \in good <=> t[i] \in good2

\* Keep goes through both alike.
LEMMA KeepMapped ==
    ASSUME NEW S, NEW s \in Seq(S), NEW good, NEW S2, NEW t \in Seq(S2), NEW good2, SamePlaces(s, good, t, good2)
    PROVE  /\ Keep(s, good) \in Seq(S) /\ Keep(t, good2) \in Seq(S2) /\ Len(Keep(s, good)) = Len(Keep(t, good2))
           /\ KeptFrom(Keep(s, good), Keep(t, good2), s, t)
<1>1. Len(s) = Len(t) /\ \A i \in 1 .. Len(s) : s[i] \in good <=> t[i] \in good2
    BY DEF SamePlaces
<1>2. Keep(s, good) \in Seq(S) /\ Keep(t, good2) \in Seq(S2) /\ Len(Keep(s, good)) = Len(Keep(t, good2))
    BY <1>1, KeepPlaces
<1>4. KeptFrom(Keep(s, good), Keep(t, good2), s, t)
    BY <1>1, KeepPlaces
<1> QED BY <1>2, <1>4

\* The rows delete_by_credential leaves.
Remaining(st, gone) == Keep(st.creds, {r \in ToSet(st.creds) : r.val.cred \notin gone})

\* Deleting credentials from the store and from memory leaves the same bundles.
LEMMA MirrorKept ==
    ASSUME NEW S, NEW ids \in [Schemes -> Seq(S)], NEW sc \in Schemes, NEW st \in Stores, ids[sc] = Mirror(st),
           NEW s \in Stores, s.keys = st.keys, NEW gone,
           s.creds = Remaining(st, gone)
    PROVE  RemoveCredential(ids, gone)[sc] = Mirror(s)
<1> DEFINE m == Mirror(st)
           rows == st.creds
           L == Len(rows)
           X == {r \in ToSet(rows) : r.val.cred \notin gone}
           Y == {b \in ToSet(m) : b.cred \notin gone}
           B(r) == [cred |-> r.val.cred, pk |-> st.keys[1].id, at |-> r.val.at]
           k == Keep(rows, X)
           n == Keep(m, Y)
           z == Mirror(s)
<1>1. rows \in Seq(CredRow) /\ L \in Nat
    BY DEF Stores
<1>2. m \in Seq(S) /\ Len(m) = L
    BY Mirrored
<1>3. \A i \in 1 .. L : m[i] = B(rows[i])
    BY DEF Mirror
<1>4. ToSet(rows) = {rows[i] : i \in 1 .. L} /\ ToSet(m) = {m[i] : i \in 1 .. L}
    BY <1>1, <1>2, SetOfSeq
<1>5. RemoveCredential(ids, gone)[sc] = n
    BY DEF RemoveCredential
<1>6. \A i \in 1 .. L : rows[i] \in X <=> m[i] \in Y
    <2> SUFFICES ASSUME NEW i \in 1 .. L PROVE rows[i] \in X <=> m[i] \in Y
        OBVIOUS
    <2>1. rows[i] \in ToSet(rows) /\ m[i] \in ToSet(m)
        BY <1>4
    <2> HIDE DEF m
    <2>2. m[i].cred = rows[i].val.cred
        <3>1. m[i] = B(rows[i])
            BY <1>3
        <3>2. B(rows[i]).cred = rows[i].val.cred
            OBVIOUS
        <3> HIDE DEF B
        <3> QED BY <3>1, <3>2
    <2> QED BY <2>1, <2>2
<1>7. s.creds = k
    BY DEF Remaining
<1> HIDE DEF X, Y, m
<1>8. /\ k \in Seq(CredRow) /\ n \in Seq(S) /\ Len(k) = Len(n)
      /\ KeptFrom(k, n, rows, m)
    <2> HIDE DEF rows
    <2>1. SamePlaces(rows, X, m, Y)
        BY <1>2, <1>6 DEF SamePlaces
    <2> QED BY <1>1, <1>2, <2>1, KeepMapped
<1> HIDE DEF k, n
<1>9. \A j \in 1 .. Len(k) : n[j] = B(k[j])
    <2> SUFFICES ASSUME NEW j \in 1 .. Len(k) PROVE n[j] = B(k[j])
        OBVIOUS
    <2>1. PICK i \in 1 .. L : k[j] = rows[i] /\ n[j] = m[i]
        BY <1>8 DEF KeptFrom
    <2>2. m[i] = B(rows[i])
        BY <1>3
    <2> HIDE DEF B
    <2> QED BY <2>1, <2>2
<1>10. z = [j \in 1 .. Len(k) |-> B(k[j])]
    BY <1>7 DEF Mirror
<1> HIDE DEF B, z
<1>11. n = [j \in 1 .. Len(k) |-> n[j]]
    BY <1>8
<1>12. n = z
    BY <1>9, <1>10, <1>11
<1> QED BY <1>5, <1>12 DEF z

-----------------------------------------------------------------------------
(* Every action keeps IdentityInv.                                         *)

\* What a step of the client leaves to show.
LEMMA IdentityStep ==
    ASSUME GoodStore(store', usage, fresh'.cert), Kept(store', toRemove'), Loaded(mem', store'), usage' = usage,
           bound' => Keyed(store')
    PROVE  IdentityInv'
    BY DEF IdentityInv

\* The store is a store.
LEMMA StoreTyped == TypeInv => /\ store \in Stores /\ fresh.cert \in Nat
                               /\ mem.ids \in [Schemes -> Seq(Bundles(fresh.key, now))]
    BY DEF TypeInv, StoreOK, FreshOK, MemOK

\* A client that is off, or was.
LEMMA OffLoaded == \A st : Loaded(Off, st)
    BY DEF Loaded, Off

\* After a write of a call that leaves credentials and keys alone.
LEMMA AfterSame ==
    ASSUME IdentityInv, NEW tr, NEW n, After(tr, n, mem), store'.creds = store.creds, store'.keys = store.keys
    PROVE  Loaded(mem', store')
<1>1. mem' = mem \/ mem' = Off
    BY DEF After
<1>2. Loaded(mem, store)
    BY DEF IdentityInv
<1>3. Loaded(mem, store')
    BY <1>2, SameClient
<1> QED BY <1>1, <1>3, OffLoaded

\* mls_init on a store with credentials
LEMMA InitLoadIdentity ==
    ASSUME Scope, TypeInv, IdentityInv, NEW order \in SetToSeqs(Schemes), InitLoad(order)
    PROVE  IdentityInv'
<1> DEFINE l == Load(store, order, fresh.key)
<1>1. PICK sc : Schemes = {sc} /\ Platform = "generic"
    BY DEF Scope, OneScheme
<1>2. LoadedFrom(l, store, fresh.key, sc)
    BY <1>1, TypeParts, LoadOne
<1>3. /\ ~mem.on /\ HasCredentials(store)
      /\ store' = [store EXCEPT !.keys = l.keys]
      /\ mem' = IF l.ok THEN [on |-> TRUE, ids |-> l.ids] ELSE mem
      /\ bound' = (bound \/ l.ok)
      /\ fresh' = [fresh EXCEPT !.key = l.next]
      /\ toRemove' = toRemove /\ usage' = usage
    BY DEF InitLoad
<1> HIDE DEF l
<1>4. /\ l.keys = IF store.keys = << >> THEN <<Row(fresh.key, [scheme |-> sc, owner |-> Me])>> ELSE store.keys
      /\ l.ids[sc] = Mirror(store')
      /\ \/ l.ok = FALSE
         \/ /\ l.ok = TRUE
            /\ \A r \in ToSet(store.creds) : r.val.cred.type = "x509" => r.val.cred.pk = l.keys[1].id
    BY <1>2, <1>3 DEF LoadedFrom
<1>5. /\ store'.keys = l.keys /\ store'.creds = store.creds /\ store'.kps = store.kps /\ store'.groups = store.groups
      /\ store'.hpke = store.hpke /\ store'.enc = store.enc
    BY <1>3, StoreTyped DEF Stores
<1>6. fresh'.cert = fresh.cert
    BY <1>3, TypeParts DEF TypeInv, FreshOK
<1>7. ToSet(store.creds) # {}
    BY <1>3 DEF HasCredentials
<1>8. GoodStore(store, usage, fresh.cert) /\ Kept(store, toRemove) /\ (bound => Keyed(store))
    BY DEF IdentityInv
<1>10. l.keys # << >> /\ l.keys[1].val.owner = Me
    <2>1. CASE store.keys = << >>
        <3> DEFINE x == Row(fresh.key, [scheme |-> sc, owner |-> Me])
        <3>1. x.val.owner = Me
            BY DEF Row
        <3>2. l.keys = <<x>>
            BY <1>4, <2>1
        <3> HIDE DEF x
        <3> QED BY <3>1, <3>2
    <2>2. CASE store.keys # << >>
        <3>1. store.keys[1].val.owner # Temporary
            BY <1>7, <1>8, <2>2 DEF GoodStore, Begun
        <3>2. store.keys \in Seq(KeyRow)
            BY StoreTyped DEF Stores
        <3>3. store.keys[1] \in KeyRow
            BY <2>2, <3>2
        <3> QED BY <1>4, <2>2, <3>1, <3>3 DEF KeyRow
    <2> QED BY <2>1, <2>2
<1>11. GoodStore(store', usage, fresh.cert)
    <2>1. CASE store.keys = << >>
        <3>1. ~Keyed(store)
            BY <2>1 DEF Keyed
        <3>2. ~Alive(store)
            BY <1>8, <3>1 DEF GoodStore
        <3>3. ~Alive(store') /\ LeavesKnown(store')
            BY <1>5, <3>2 DEF Alive, LeavesKnown
        <3>4. CertsAscend(store'.creds, fresh.cert)
            BY <1>5, <1>8 DEF GoodStore
        <3>5. Begun(store', usage)
            <4>1. usage # "external" => \A r \in ToSet(store'.creds) : r.val.cred.name = Me
                BY <1>5, <1>8 DEF GoodStore, Begun
            <4>2. ~(usage = "external" /\ \E r \in ToSet(store'.creds) : r.val.cred.type = "x509")
                BY <1>5, <1>8, <3>1 DEF GoodStore, Begun
            <4>3. store'.keys[1].val.owner # Temporary
                BY <1>5, <1>10 DEF Me, Temporary
            <4> QED BY <1>5, <1>7, <4>1, <4>2, <4>3 DEF Begun
        <3> QED BY <3>3, <3>4, <3>5 DEF GoodStore
    <2>2. CASE store.keys # << >>
        <3>1. store'.keys = store.keys
            BY <1>4, <1>5, <2>2
        <3>2. Alive(store') => Keyed(store)
            BY <1>5, <1>8 DEF GoodStore, Alive
        <3>3. (\A r \in ToSet(store'.kps) : LeafKnown(store, r.val)) /\ \A g \in Groups : store'.groups[g] # None =>
              /\ LeafKnown(store, store'.groups[g].leaf)
              /\ store'.groups[g].pending # None => LeafKnown(store, store'.groups[g].pending)
            BY <1>5, <1>8 DEF GoodStore, LeavesKnown
        <3> QED BY <1>5, <1>8, <3>1, <3>2, <3>3, GoodSame
    <2> QED BY <2>1, <2>2
<1>12. Kept(store', toRemove)
    BY <1>5, <1>8 DEF Kept
<1>13. l.ok = TRUE => Keyed(store')
    BY <1>4, <1>5, <1>10 DEF Keyed
<1>14. Loaded(mem', store')
    <2>1. CASE l.ok = TRUE
        <3>1. mem' = [on |-> TRUE, ids |-> l.ids]
            BY <1>3, <2>1
        <3>2. \A x \in Schemes : mem'.ids[x] = Mirror(store')
            BY <1>1, <1>4, <3>1
        <3> QED BY <1>5, <1>7, <1>13, <2>1, <3>2 DEF Loaded
    <2>2. CASE l.ok = FALSE
        BY <1>3, <2>2 DEF Loaded
    <2> QED BY <1>4, <2>1, <2>2
<1>15. bound' => Keyed(store')
    <2> SUFFICES ASSUME bound, l.ok # TRUE PROVE Keyed(store')
        BY <1>3, <1>4, <1>13
    <2>1. Keyed(store) /\ store.keys # << >>
        BY <1>8 DEF Keyed
    <2>2. store'.keys = store.keys
        BY <1>4, <1>5, <2>1
    <2> QED BY <1>5, <2>1, <2>2 DEF Keyed
<1> QED BY <1>3, <1>6, <1>11, <1>12, <1>14, <1>15, IdentityStep

\* get_or_create_client_keypackages
LEMMA RequestKeyPackagesIdentity ==
    ASSUME Scope, TypeInv, IdentityInv, NEW sc \in Schemes, NEW type \in Types, RequestKeyPackages(sc, type)
    PROVE  IdentityInv'
<1> DEFINE k == Lacking(store, sc, NbKeyPackages)
           b == MostRecent(mem.ids, sc, type)
           trail == RequestTrail(store, fresh.kp, sc, b, NbKeyPackages)
           pruned == Prune(store, {})
<1>1. /\ mem.on
      /\ IF PruneFails(store, {}) \/ (k > 0 /\ ~HasBundle(mem.ids, sc, type))
         THEN (\E n \in 1 .. Len(pruned) : After(pruned, n, mem)) /\ fresh' = fresh
         ELSE (\E n \in 1 .. Len(trail) : After(trail, n, mem)) /\ fresh' = [fresh EXCEPT !.kp = @ + k]
      /\ toRemove' = toRemove /\ usage' = usage /\ bound' = bound
    BY DEF RequestKeyPackages
<1>2. k \in Nat
    BY TypeParts, LackingRange DEF StoreOK
<1>3. /\ GoodStore(store, usage, fresh.cert) /\ Kept(store, toRemove) /\ Keyed(store)
      /\ mem.ids[sc] = Mirror(store) /\ toRemove \subseteq 1 .. (fresh.kp - 1)
    BY <1>1, TypeParts DEF IdentityInv, Loaded
<1>4. /\ fresh'.cert = fresh.cert
    BY <1>1, TypeParts DEF TypeInv, FreshOK
<1>5. CASE PruneFails(store, {}) \/ (k > 0 /\ ~HasBundle(mem.ids, sc, type))
    <2>1. pruned \in Seq(Stores) /\ \A n \in 1 .. Len(pruned) : Pruned(store, pruned[n])
        BY StoreTyped, PruneTrail
    <2> HIDE DEF k, b, trail, pruned
    <2>2. PICK n \in 1 .. Len(pruned) : After(pruned, n, mem)
        BY <1>1, <1>5
    <2>3. Pruned(store, store')
        BY <2>1, <2>2 DEF After
    <2>4. GoodStore(store', usage, fresh.cert) /\ Kept(store', toRemove)
        BY <1>3, <2>3, PrunedGood
    <2>5. store'.creds = store.creds /\ store'.keys = store.keys
        BY <2>3 DEF Pruned, SameIdentity
    <2>6. Loaded(mem', store') /\ Keyed(store')
        BY <1>3, <2>2, <2>5, AfterSame, SameClient
    <2> QED BY <1>1, <1>4, <2>4, <2>6, IdentityStep
<1>6. CASE ~(PruneFails(store, {}) \/ (k > 0 /\ ~HasBundle(mem.ids, sc, type)))
    <2> DEFINE v == KpOf(b, sc)
    <2>1. k > 0 => LeafKnown(store, v)
        <3> SUFFICES ASSUME k > 0 PROVE LeafKnown(store, v)
            OBVIOUS
        <3>1. LeafKnown(store, b)
            BY <1>3, <1>6, StoreTyped, TypeParts, MostRecentKnown
        <3> HIDE DEF b
        <3> QED BY <3>1 DEF KpOf, LeafKnown
    <2>2. k > 0 => b.cred \in Credentials /\ b.pk \in 1 .. MaxKeys
        <3> SUFFICES ASSUME k > 0 PROVE b.cred \in Credentials /\ b.pk \in 1 .. MaxKeys
            OBVIOUS
        <3>2. b \in Bundles(fresh.key, now)
            BY <1>6, StoreTyped, BundlesOfType
        <3>3. b.cred \in Credentials /\ b.pk \in 1 .. (fresh.key - 1)
            BY <3>2 DEF Bundles
        <3> QED BY <3>3, TypeParts
    <2> HIDE DEF b
    <2>3. RequestOK(store, trail, fresh.kp, k, v)
        BY <2>2, StoreTyped, TypeParts, RequestKeyPackagesTrail
    <2> HIDE DEF trail, k, v
    <2>4. PICK n \in 1 .. Len(trail) : After(trail, n, mem)
        BY <1>1, <1>6
    <2>5. Requested(store, store', fresh.kp, k, v)
        BY <2>3, <2>4 DEF After, RequestOK
    <2>6. GoodStore(store', usage, fresh.cert) /\ Kept(store', toRemove)
        BY <1>2, <1>3, <2>1, <2>5, TypeParts, RequestedGood
    <2>7. store'.creds = store.creds /\ store'.keys = store.keys
        BY <2>5 DEF Requested, SameIdentity
    <2>8. Loaded(mem', store') /\ Keyed(store')
        BY <1>3, <2>4, <2>7, AfterSame, SameClient
    <2> QED BY <1>1, <1>4, <2>6, <2>8, IdentityStep
<1> QED BY <1>5, <1>6

\* generate_raw_keypairs
LEMMA GenerateRawKeypairsIdentity ==
    ASSUME Scope, TypeInv, IdentityInv, NEW order \in SetToSeqs(Schemes), GenerateRawKeypairs(order)
    PROVE  IdentityInv'
<1> DEFINE trail == RawKeypairs(store, order, fresh.key)
           v == [scheme |-> order[1], owner |-> Temporary]
           row == Row(fresh.key, v)
<1>1. PICK sc : Schemes = {sc} /\ Platform = "generic"
    BY DEF Scope, OneScheme
<1>2. order \in Seq(Schemes) /\ Len(order) = 1
    BY <1>1, OneOrder
<1>3. /\ usage = "external" /\ ~mem.on
      /\ \A r \in ToSet(store.creds) : r.val.cred.type # "basic"
      /\ \E n \in 1 .. Len(order) : store' = trail[n]
      /\ fresh' = [fresh EXCEPT !.key = @ + Len(order)]
      /\ mem' = mem /\ toRemove' = toRemove /\ usage' = usage /\ bound' = bound
    BY DEF GenerateRawKeypairs
<1>4. PICK f : RawSteps(f, store, order, fresh.key)
    BY <1>2, RawUnfold
<1>5. store' = f[1]
    <2>1. trail = [n \in 1 .. Len(order) |-> f[n]]
        BY <1>4 DEF RawSteps
    <2> HIDE DEF trail
    <2> QED BY <1>2, <1>3, <2>1
<1>6. f[0 + 1] = [f[0] EXCEPT !.keys = Save(KeyPairTable, @, fresh.key + (0 + 1) - 1, [scheme |-> order[0 + 1], owner |-> Temporary]).rows]
    <2>1. 0 \in 0 .. (Len(order) - 1)
        BY <1>2
    <2> QED BY <1>4, <2>1 DEF RawSteps
<1>7. 0 + 1 = 1 /\ fresh.key + (0 + 1) - 1 = fresh.key
    BY TypeParts
<1> HIDE DEF v
<1>8. store' = [store EXCEPT !.keys = Save(KeyPairTable, @, fresh.key, v).rows]
    <2>1. f[0] = store
        BY <1>4 DEF RawSteps
    <2> QED BY <1>5, <1>6, <1>7, <2>1 DEF v
<1>9. Save(KeyPairTable, store.keys, fresh.key, v).rows = Append(store.keys, row)
    <2>1. KeyPairTable.save = "insert"
        BY <1>1, ClientTables
    <2> QED BY <2>1 DEF Save, Outcome
<1>10. row.val.owner = Temporary
    BY DEF Row, v
<1> HIDE DEF row
<1>11. /\ store'.keys = Append(store.keys, row) /\ store'.creds = store.creds /\ store'.kps = store.kps
       /\ store'.groups = store.groups /\ store'.hpke = store.hpke /\ store'.enc = store.enc
    BY <1>8, <1>9, StoreTyped DEF Stores
<1>12. store.keys \in Seq(KeyRow)
    BY StoreTyped DEF Stores
<1>13. store'.keys # << >> /\ (store.keys # << >> => store'.keys[1] = store.keys[1]) /\ (store.keys = << >> => store'.keys[1] = row)
    BY <1>11, <1>12
<1>14. fresh'.cert = fresh.cert
    BY <1>3 DEF TypeInv, FreshOK
<1>15. GoodStore(store, usage, fresh.cert) /\ Kept(store, toRemove) /\ (bound => Keyed(store))
    BY DEF IdentityInv
<1>16. Keyed(store) => Keyed(store')
    <2> SUFFICES ASSUME Keyed(store) PROVE Keyed(store')
        OBVIOUS
    <2>1. store.keys # << >>
        BY DEF Keyed
    <2> QED BY <1>11, <1>13, <2>1 DEF Keyed
<1>17. ASSUME NEW l, Keyed(store), LeafKnown(store, l) PROVE LeafKnown(store', l)
    <2>1. store.keys # << >>
        BY <1>17 DEF Keyed
    <2> QED BY <1>11, <1>13, <1>17, <2>1 DEF LeafKnown, HasCred
<1>18. LeavesKnown(store')
    <2>1. CASE Alive(store)
        <3>1. Keyed(store) /\ LeavesKnown(store)
            BY <1>15, <2>1 DEF GoodStore
        <3> QED BY <1>11, <1>17, <3>1 DEF LeavesKnown
    <2>2. CASE ~Alive(store)
        BY <1>11, <2>2 DEF LeavesKnown, Alive
    <2> QED BY <2>1, <2>2
<1>19. Alive(store') => Keyed(store')
    BY <1>11, <1>15, <1>16 DEF GoodStore, Alive
<1>20. CertsAscend(store'.creds, fresh.cert)
    BY <1>11, <1>15 DEF GoodStore
<1>21. Begun(store', usage)
    <2>1. (\E r \in ToSet(store'.creds) : r.val.cred.type = "x509") => Keyed(store')
        BY <1>3, <1>11, <1>15, <1>16 DEF GoodStore, Begun
    <2>2. store'.keys[1].val.owner = Temporary => ToSet(store'.creds) = {}
        <3>1. CASE store.keys # << >>
            BY <1>11, <1>13, <1>15, <3>1 DEF GoodStore, Begun
        <3>2. CASE store.keys = << >>
            <4>1. ~Keyed(store)
                BY <3>2 DEF Keyed
            <4>2. \A r \in ToSet(store.creds) : r.val.cred.type = "x509"
                BY <1>3, StoreTyped, StoredCerts, CertNumber DEF Types
            <4>3. ToSet(store.creds) = {}
                BY <1>3, <1>15, <4>1, <4>2 DEF GoodStore, Begun
            <4> QED BY <1>11, <4>3
        <3> QED BY <3>1, <3>2
    <2> QED BY <1>3, <2>1, <2>2 DEF Begun
<1>22. GoodStore(store', usage, fresh.cert)
    BY <1>18, <1>19, <1>20, <1>21 DEF GoodStore
<1>23. Kept(store', toRemove) /\ Loaded(mem', store') /\ (bound' => Keyed(store'))
    BY <1>3, <1>11, <1>15, <1>16 DEF Kept, Loaded
<1> QED BY <1>3, <1>14, <1>22, <1>23, IdentityStep

\* A smaller count of new key packages is within a larger.
LEMMA RequestedMore ==
    ASSUME NEW st, NEW s, NEW first \in Nat, NEW count \in Nat, NEW more \in Nat, count <= more, NEW v,
           Requested(st, s, first, count, v)
    PROVE  Requested(st, s, first, more, v)
<1>1. \A i \in first .. (first + count - 1) : i \in first .. (first + more - 1)
    OBVIOUS
<1> DEFINE I == first .. (first + count - 1)
           J == first .. (first + more - 1)
<1>2. /\ s \in Stores /\ SameIdentity(st, s)
      /\ \A q \in ToSet(s.kps) : q \in ToSet(st.kps) \/ (q.val = v /\ q.id \in I)
      /\ s.hpke \subseteq st.hpke \cup I /\ s.enc \subseteq st.enc \cup I /\ s.expired \subseteq st.expired
      /\ \A r \in ToSet(s.kps) : r.id < first /\ Complete(st, r.id) => Complete(s, r.id)
    BY DEF Requested
<1>3. I \subseteq J
    BY <1>1
<1> HIDE DEF I, J
<1>4. /\ \A q \in ToSet(s.kps) : q \in ToSet(st.kps) \/ (q.val = v /\ q.id \in J)
      /\ s.hpke \subseteq st.hpke \cup J /\ s.enc \subseteq st.enc \cup J
    BY <1>2, <1>3
<1> QED BY <1>2, <1>4 DEF Requested, J

\* Client::generate for one identity, write by write.
LEMMA GenerateOneTrail ==
    ASSUME NEW st, NEW key \in Nat, NEW kp \in Nat, 1 <= kp, now \in Nat, StoreOK(st, key, kp, now),
           key <= MaxKeys + 1, NEW b \in Identity(key)
    PROVE  LET tr == GenerateTrail(st, <<b>>, kp)
           IN  /\ Len(tr) \in Nat /\ Len(tr) >= 2 /\ tr[1] = SaveCredential(st, b)
               /\ \A n \in 1 .. Len(tr) : n # 1 => Provisioned(st, tr[n], b, kp)
<1> DEFINE bs == <<b>>
           saved == SaveIdentities(st, bs)
           p == SaveKeyPair(SaveCredential(st, b), b)
           leaf == Leaf(b)
           v == KpOf(Bundle(b), b.scheme)
           k == Lacking(p, b.scheme, NbKeyPackages)
           req == RequestTrail(p, kp, b.scheme, Bundle(b), NbKeyPackages)
           tr == GenerateTrail(st, bs, kp)
           all == saved \o req
<1>0. /\ b.scheme \in Schemes /\ b.cred \in Credentials /\ b.pk \in 1 .. (key - 1) /\ NbKeyPackages \in Nat /\ MaxKeys \in Nat
    BY ClientAssumption DEF Identity
<1>1. bs \in Seq(Identity(key)) /\ Len(bs) = 1 /\ bs[1] = b
    OBVIOUS
<1>2. /\ saved \in Seq(Stores) /\ Len(saved) = 2 /\ Last(saved) = p
      /\ saved[1] = SaveCredential(st, b) /\ saved[2] = p
      /\ StoreOK(p, key, kp, now)
    BY SaveOneTrail
<1>3. PICK f : GenerateTrailSteps(f, st, bs, kp)
    <2> HIDE DEF bs
    <2> QED BY <1>1, GenerateTrailUnfold
<1> HIDE DEF bs
<1>4. f[0 + 1] = f[0] \o RequestTrail(Last(f[0]), kp + ((0 + 1) - 1) * NbKeyPackages, bs[0 + 1].scheme, Bundle(bs[0 + 1]), NbKeyPackages)
    <2>1. 0 \in 0 .. (Len(bs) - 1) /\ ~(0 + 1 > 1)
        BY <1>1
    <2> QED BY <1>3, <2>1 DEF GenerateTrailSteps
<1>5. f[0] = saved /\ tr = f[1]
    BY <1>1, <1>3 DEF GenerateTrailSteps
<1>6. 0 + 1 = 1 /\ kp + ((0 + 1) - 1) * NbKeyPackages = kp
    BY <1>0
<1> HIDE DEF saved, p, tr
<1>7. tr = all
    BY <1>1, <1>2, <1>4, <1>5, <1>6
<1>8. b.pk \in 1 .. MaxKeys /\ Bundle(b).cred = b.cred /\ Bundle(b).pk = b.pk
    BY <1>0 DEF Bundle
<1>9. p \in Stores
    BY <1>2 DEF StoreOK
<1>10. RequestOK(p, req, kp, k, v)
    BY <1>0, <1>8, <1>9, RequestKeyPackagesTrail
<1>11. k \in Nat /\ k <= NbKeyPackages
    BY <1>0, <1>9, LackingRange
<1> HIDE DEF req, k, v
<1>12. req \in Seq(Stores) /\ \A n \in 1 .. Len(req) : Requested(p, req[n], kp, NbKeyPackages, v)
    BY <1>0, <1>10, <1>11, RequestedMore DEF RequestOK
<1>13. /\ all \in Seq(Stores) /\ Len(all) = Len(saved) + Len(req)
       /\ \A i \in 1 .. Len(saved) + Len(req) : all[i] = IF i <= Len(saved) THEN saved[i] ELSE req[i - Len(saved)]
    BY <1>2, <1>12, ConcatProperties
<1>14. Len(req) \in Nat
    BY <1>12
<1> HIDE DEF all
<1>15. Len(all) \in Nat /\ Len(all) >= 2 /\ all[1] = SaveCredential(st, b)
    BY <1>2, <1>13, <1>14
<1>16. ASSUME NEW n \in 1 .. Len(all), n # 1 PROVE Provisioned(st, all[n], b, kp)
    <2>1. Rotated(p, p, leaf)
        BY <1>9, RotatedSelf
    <2>2. Requested(p, all[n], kp, NbKeyPackages, v)
        <3>1. CASE n = 2
            <4>1. all[n] = p
                BY <1>2, <1>13, <1>14, <3>1
            <4> QED BY <1>9, <4>1, RotatedSelf
        <3>2. CASE n # 2
            <4>1. n - Len(saved) \in 1 .. Len(req) /\ all[n] = req[n - Len(saved)]
                BY <1>2, <1>13, <1>14, <1>16, <3>2
            <4> QED BY <1>12, <4>1
        <3> QED BY <3>1, <3>2
    <2> QED BY <2>1, <2>2 DEF Provisioned, p, v
<1> QED BY <1>7, <1>15, <1>16 DEF tr, bs

\* mls_init on an empty store
LEMMA InitGenerateIdentity ==
    ASSUME Scope, TypeInv, IdentityInv, NEW order \in SetToSeqs(Schemes), NEW type \in Types, InitGenerate(type, order)
    PROVE  IdentityInv'
<1> DEFINE B(i) == [scheme |-> order[i], pk |-> fresh.key + i - 1,
                     cred |-> IF type = "basic" THEN Basic(Me)
                              ELSE X509(fresh.cert + i - 1, fresh.key + i - 1)]
           bs == [i \in 1 .. Len(order) |-> B(i)]
           b == [scheme |-> order[1], pk |-> fresh.key,
                 cred |-> IF type = "basic" THEN Basic(Me) ELSE X509(fresh.cert, fresh.key)]
           trail == GenerateTrail(store, bs, fresh.kp)
           new == [on |-> TRUE, ids |-> PushAll(Off.ids, bs)]
           m == IF PruneFails(store, {}) THEN mem ELSE new
           key == fresh.key + 1
           cert == IF type = "x509" THEN fresh.cert + 1 ELSE fresh.cert
<1>1. PICK sc : Schemes = {sc} /\ Platform = "generic"
    BY DEF Scope, OneScheme
<1>2. order \in Seq(Schemes) /\ Len(order) = 1 /\ order[1] = sc /\ sc \in Schemes
    BY <1>1, OneOrder
<1>3. /\ ~mem.on /\ ~HasCredentials(store) /\ usage # "external"
      /\ fresh.key + Len(order) - 1 <= MaxKeys
      /\ type = "x509" => fresh.cert + Len(order) - 1 <= MaxCerts
      /\ \E n \in 1 .. Len(trail) : After(trail, n, m) /\ bound' = (n = Len(trail) /\ ~PruneFails(store, {}))
      /\ fresh' = [key |-> fresh.key + Len(order), kp |-> fresh.kp + Len(order) * NbKeyPackages,
                   cert |-> IF type = "x509" THEN fresh.cert + Len(order) ELSE fresh.cert]
      /\ toRemove' = toRemove /\ usage' = usage
    BY DEF InitGenerate
<1>4. bs = <<b>>
    <2>1. B(1) = b
        <3>1. fresh.key + 1 - 1 = fresh.key /\ fresh.cert + 1 - 1 = fresh.cert
            BY TypeParts
        <3> QED BY <3>1
    <2> HIDE DEF B, b
    <2>2. bs = [i \in 1 .. 1 |-> B(i)]
        BY <1>2
    <2>3. [i \in 1 .. 1 |-> B(i)] = <<B(1)>>
        OBVIOUS
    <2> QED BY <2>1, <2>2, <2>3
<1>5. fresh'.cert = cert /\ cert \in Nat /\ fresh.cert <= cert /\ fresh.cert \in Nat /\ 1 <= fresh.cert
    <2>1. fresh.cert \in Nat /\ 1 <= fresh.cert
        BY TypeParts
    <2>2. fresh'.cert = IF type = "x509" THEN fresh.cert + Len(order) ELSE fresh.cert
        BY <1>3
    <2> QED BY <1>2, <2>1, <2>2
<1>6. key \in Nat /\ key <= MaxKeys + 1 /\ fresh.key <= key /\ fresh.kp \in Nat /\ 1 <= fresh.kp /\ now \in Nat /\ fresh.key \in 1 .. (key - 1)
    <2>1. fresh.key <= MaxKeys
        BY <1>2, <1>3, TypeParts
    <2> QED BY <2>1, TypeParts
<1>7. b.cred \in Credentials /\ b.cred.name = Me /\ (b.cred.type = "x509" => b.cred.pk = b.pk) /\ b.cred.cert < cert
    <2>1. CASE type = "basic"
        BY <1>5, <2>1 DEF Credentials, Basic
    <2>2. CASE type # "basic"
        <3>1. type = "x509"
            BY <2>2 DEF Types
        <3>2. fresh.cert \in 1 .. MaxCerts /\ fresh.key \in 1 .. MaxKeys
            <4>1. fresh.cert <= MaxCerts
                BY <1>2, <1>3, <3>1, TypeParts
            <4>2. fresh.key <= MaxKeys
                BY <1>2, <1>3, TypeParts
            <4> QED BY <4>1, <4>2, TypeParts
        <3>3. X509(fresh.cert, fresh.key) \in Credentials
            BY <3>2 DEF Credentials
        <3>4. b.cred = X509(fresh.cert, fresh.key) /\ b.pk = fresh.key
            BY <2>2
        <3>5. cert = fresh.cert + 1
            BY <3>1
        <3> HIDE DEF b, cert
        <3> QED BY <1>5, <3>3, <3>4, <3>5 DEF X509
    <2> QED BY <2>1, <2>2
<1>8. b \in Identity(key) /\ b.scheme = sc
    <2> HIDE DEF key
    <2> QED BY <1>2, <1>6, <1>7, IdentityOf
<1> HIDE DEF b, B, bs
<1>9. ToSet(store.creds) = {}
    <2>1. store.creds \in Seq(CredRow)
        BY StoreTyped DEF Stores
    <2>2. \A r \in ToSet(store.creds) : r \in CredRow
        BY <2>1, SetOfSeq
    <2>3. \A r \in ToSet(store.creds) : r.id = Me
        BY <2>2 DEF CredRow
    <2> QED BY <1>3, <2>3 DEF HasCredentials
<1>10. GoodStore(store, usage, fresh.cert) /\ Kept(store, toRemove)
    BY DEF IdentityInv
<1>11. store.keys = << >>
    BY <1>3, <1>9, <1>10 DEF GoodStore, Begun
<1>12. ~Keyed(store)
    BY <1>11 DEF Keyed
<1>13. NewIdentity(store, b, usage, cert)
    BY <1>3, <1>7, <1>9, <1>11 DEF NewIdentity
<1>14. StoreOK(store, key, fresh.kp, now)
    <2>1. now <= now /\ fresh.kp <= fresh.kp
        BY <1>6
    <2> QED BY <1>6, <2>1, TypeParts, StoreMonotone
<1> HIDE DEF key, cert
<1>15. /\ Len(trail) \in Nat /\ Len(trail) >= 2 /\ trail[1] = SaveCredential(store, b)
       /\ \A n \in 1 .. Len(trail) : n # 1 => Provisioned(store, trail[n], b, fresh.kp)
    BY <1>4, <1>6, <1>8, <1>14, GenerateOneTrail
<1> HIDE DEF trail, m, new
<1>16. PICK n \in 1 .. Len(trail) : After(trail, n, m) /\ bound' = (n = Len(trail) /\ ~PruneFails(store, {}))
    BY <1>3
<1>17. store' = trail[n] /\ mem' = IF n = Len(trail) THEN m ELSE Off
    BY <1>16 DEF After
<1>18. toRemove \subseteq 1 .. (fresh.kp - 1)
    BY TypeParts
<1>19. Renewed(store, store', b, usage, cert, fresh.kp) /\ (n # 1 => Keyed(store') /\ store'.keys[1].id = b.pk)
    <2>1. CASE n = 1
        <3>1. store' = SaveCredential(store, b)
            BY <1>15, <1>17, <2>1
        <3>2. Renewed(store, SaveCredential(store, b), b, usage, cert, fresh.kp)
            BY <1>1, <1>5, <1>6, <1>8, <1>10, <1>13, <1>14, SavedGood
        <3> QED BY <2>1, <3>1, <3>2
    <2>2. CASE n # 1
        <3>1. Provisioned(store, store', b, fresh.kp)
            BY <1>15, <1>17, <2>2
        <3>2. Renewed(store, store', b, usage, cert, fresh.kp) /\ Keyed(store') /\ store'.keys[1].id = b.pk
            <4> DEFINE s == store'
            <4> HIDE DEF s
            <4>1. Provisioned(store, s, b, fresh.kp)
                BY <3>1 DEF s
            <4>2. Settled(store, s, b, usage, cert, fresh.kp)
                BY <1>1, <1>5, <1>6, <1>8, <1>10, <1>13, <1>14, <4>1, ProvisionedGood
            <4> QED BY <4>2 DEF s, Settled
        <3> QED BY <3>2
    <2> QED BY <2>1, <2>2
<1>20. GoodStore(store', usage, cert) /\ Kept(store', toRemove)
    BY <1>10, <1>18, <1>19 DEF Renewed
<1>21. Loaded(mem', store')
    <2>1. CASE n # Len(trail)
        BY <1>17, <2>1, OffLoaded
    <2>3. CASE PruneFails(store, {})
        <3>1. mem' = mem \/ mem' = Off
            BY <1>17, <2>3 DEF m
        <3> QED BY <1>3, <3>1 DEF Loaded, Off
    <2>2. CASE n = Len(trail) /\ ~PruneFails(store, {})
        <3>1. n # 1
            BY <1>15, <2>2
        <3>2. Keyed(store') /\ store'.keys[1].id = b.pk /\ store' \in Stores
              /\ store'.creds = Append(store.creds, Row(Me, [cred |-> b.cred, at |-> now])) /\ ToSet(store'.creds) # {}
            BY <1>19, <3>1 DEF Renewed
        <3>3. Mirror(store') = Append(Mirror(store), Bundle(b))
            BY <1>9, <1>12, <3>2, StoreTyped, MirrorAppended
        <3>4. Mirror(store) = << >>
            <4>1. store.creds \in Seq(CredRow)
                BY StoreTyped DEF Stores
            <4>2. Len(store.creds) = 0
                <5>1. ToSet(store.creds) = {store.creds[i] : i \in 1 .. Len(store.creds)}
                    BY <4>1, SetOfSeq
                <5>2. Len(store.creds) \in Nat /\ (Len(store.creds) # 0 => 1 \in 1 .. Len(store.creds))
                    BY <4>1
                <5> QED BY <1>9, <5>1, <5>2
            <4>3. Len(Mirror(store)) = 0 /\ Mirror(store) \in Seq({Mirror(store)[i] : i \in 1 .. Len(store.creds)})
                BY <4>2, StoreTyped, Mirrored
            <4> QED BY <4>3
        <3>5. PushAll(Off.ids, <<b>>)[b.scheme] = Append(Off.ids[b.scheme], Bundle(b))
            <4>1. Off.ids \in [Schemes -> Seq({Bundle(b)})]
                BY DEF Off
            <4>2. b.scheme \in Schemes
                BY <1>2, <1>8
            <4> QED BY <4>1, <4>2, PushOne
        <3>6. Off.ids[b.scheme] = << >>
            BY <1>2, <1>8 DEF Off
        <3>7. mem'.ids = PushAll(Off.ids, <<b>>)
            BY <1>4, <1>17, <2>2 DEF m, new
        <3>8. \A x \in Schemes : mem'.ids[x] = Mirror(store')
            BY <1>1, <1>8, <3>3, <3>4, <3>5, <3>6, <3>7
        <3> QED BY <3>2, <3>8 DEF Loaded
    <2> QED BY <2>1, <2>2, <2>3
<1>22. bound' => Keyed(store')
    <2>1. n = Len(trail) => n # 1
        BY <1>15
    <2>2. bound' => n = Len(trail)
        BY <1>16
    <2>3. n # 1 => Keyed(store')
        BY <1>19
    <2> QED BY <2>1, <2>2, <2>3
<1> QED BY <1>3, <1>5, <1>20, <1>21, <1>22, IdentityStep

\* The only row of a table is deleted.
LEMMA EraseOnly ==
    ASSUME NEW S, NEW rows \in Seq(S), Len(rows) = 1
    PROVE  Erase(KeyPairTable, rows, rows[1].id).rows = << >>
<1> DEFINE id == rows[1].id
<1>1. Stored(rows, id)
    BY DEF Stored
<1>2. FirstRow(rows, id) \in 1 .. Len(rows)
    BY <1>1, FirstRowStored
<1>3. WithoutRow(rows, id) \in Seq(S) /\ Len(WithoutRow(rows, id)) = Len(rows) - 1
    BY <1>2, RemoveAtProperties DEF WithoutRow
<1>4. WithoutRow(rows, id) = << >>
    BY <1>3
<1>5. RowsOf(rows, id) = 1
    <2>1. {n \in 1 .. Len(rows) : rows[n].id = id} = {1}
        OBVIOUS
    <2>2. Cardinality({1}) = 1
        BY FS_Singleton
    <2> QED BY <2>1, <2>2 DEF RowsOf
<1>6. KeyPairTable.erase \in {"any", "exact"}
    BY ClientTables
<1> QED BY <1>1, <1>4, <1>5, <1>6 DEF Erase, Outcome

\* A client whose provisional key pair is being adopted.
LEMMA AdoptedGood ==
    ASSUME NEW s, NEW cert \in Nat, 1 <= cert, ~Alive(s),
           \/ s.creds = << >> /\ s.keys = << >>
           \/ \E row, kr : /\ s.creds = <<row>> /\ row.val.cred = Basic(Temporary)
                           /\ s.keys = << >> \/ (s.keys = <<kr>> /\ kr.val.owner = Me)
    PROVE  GoodStore(s, "external", cert)
<1>1. LeavesKnown(s)
    BY DEF LeavesKnown, Alive
<1>2. Basic(Temporary).cert = 0 /\ Basic(Temporary).type = "basic"
    BY DEF Basic
<1>3. CASE s.creds = << >> /\ s.keys = << >>
    <2>1. ToSet(s.creds) = {} /\ CertsAscend(s.creds, cert)
        BY <1>3 DEF ToSet, CertsAscend
    <2>2. Begun(s, "external")
        BY <1>3, <2>1 DEF Begun
    <2> QED BY <1>1, <2>1, <2>2 DEF GoodStore
<1>4. ASSUME NEW row, NEW kr, s.creds = <<row>>, row.val.cred = Basic(Temporary),
             s.keys = << >> \/ (s.keys = <<kr>> /\ kr.val.owner = Me)
      PROVE  GoodStore(s, "external", cert)
    <2>1. ToSet(s.creds) = {row}
        BY <1>4 DEF ToSet
    <2>2. CertsAscend(s.creds, cert)
        BY <1>2, <1>4 DEF CertsAscend
    <2>3. ~(s.keys # << >> /\ s.keys[1].val.owner = Temporary)
        BY <1>4 DEF Me, Temporary
    <2>4. ~\E r \in ToSet(s.creds) : r.val.cred.type = "x509"
        BY <1>2, <1>4, <2>1
    <2>5. Begun(s, "external")
        BY <2>3, <2>4 DEF Begun
    <2> QED BY <1>1, <2>2, <2>5 DEF GoodStore
<1> QED BY <1>3, <1>4

\* The stores of init_with_external_client_id with one scheme.
Adopted(tr, st, r, cert) ==
    LET b == Provisional(r)
    IN  /\ tr \in Seq(Stores) /\ Len(tr) = 3
        /\ \A n \in 1 .. 3 : GoodStore(tr[n], "external", cert) /\ tr[n].kps = st.kps
        /\ Keyed(tr[3]) /\ tr[3].keys[1].id = b.pk
        /\ tr[3].creds = Append(st.creds, Row(Me, [cred |-> b.cred, at |-> now]))

\* The key pair goes, the credential comes, and the key pair again.
LEMMA AdoptOneTrail ==
    ASSUME NEW st, NEW key \in Nat, NEW kp \in Nat, now \in Nat, StoreOK(st, key, kp, now), Platform = "generic",
           NEW cert \in Nat, 1 <= cert, ~Alive(st), st.creds = << >>,
           NEW r \in KeysBelow(key), st.keys = <<r>>, r.val.owner = Temporary
    PROVE  Adopted(AdoptKeypairs(st, st.keys), st, r, cert)
<1> DEFINE ks == Erase(KeyPairTable, st.keys, r.id).rows
           s0 == [st EXCEPT !.keys = ks]
           b == Provisional(r)
           more == SaveIdentities(s0, <<b>>)
           s1 == SaveCredential(s0, b)
           s2 == SaveKeyPair(s1, b)
           row == Row(Me, [cred |-> b.cred, at |-> now])
           kr == Row(b.pk, [scheme |-> b.scheme, owner |-> Me])
           tr == AdoptKeypairs(st, st.keys)
<1>1. st \in Stores /\ st.keys \in Seq(KeyRow) /\ Len(st.keys) = 1 /\ st.keys[1] = r
    <2>1. st \in Stores
        BY DEF StoreOK
    <2>2. st.keys \in Seq(KeyRow)
        BY <2>1 DEF Stores
    <2>3. Len(st.keys) = 1 /\ st.keys[1] = r
        OBVIOUS
    <2> QED BY <2>1, <2>2, <2>3
<1>2. ks = << >>
    BY <1>1, EraseOnly
<1>3. tr = <<s0>> \o more
    <2>1. PICK f : AdoptSteps(f, st, st.keys)
        BY <1>1, AdoptUnfold
    <2>2. f[0] = << >> /\ tr = f[1]
        BY <1>1, <2>1 DEF AdoptSteps
    <2>3. f[0 + 1] = f[0] \o AdoptKeypair(EndOf(st, f[0]), st.keys[0 + 1])
        <3>1. 0 \in 0 .. (Len(st.keys) - 1)
            BY <1>1
        <3> QED BY <2>1, <3>1, Zenon DEF AdoptSteps
    <2>4. EndOf(st, f[0]) = st
        BY <2>2 DEF EndOf
    <2>5. 0 + 1 = 1
        OBVIOUS
    <2>6. tr = << >> \o AdoptKeypair(st, r)
        BY <1>1, <2>2, <2>3, <2>4, <2>5
    <2>7. AdoptKeypair(st, r) = <<s0>> \o more
        BY DEF AdoptKeypair
    <2>8. AdoptKeypair(st, r) \in Seq(Stores)
        BY AdoptOneOK DEF TrailOK
    <2> HIDE DEF s0, more, tr
    <2> QED BY <2>6, <2>7, <2>8, ConcatEmptySeq
<1>4. /\ StoreOK(s0, key, kp, now) /\ SamePackages(st, s0) /\ s0.keys = << >> /\ s0.creds = st.creds
    <2>1. << >> \in Seq(KeysBelow(key))
        OBVIOUS
    <2> HIDE DEF ks
    <2>2. ks \in Seq(KeysBelow(key))
        BY <1>2, <2>1
    <2>3. StoreOK(s0, key, kp, now) /\ SamePackages(st, s0) /\ s0.keys = ks /\ s0.creds = st.creds
        BY <2>2, KeysReplaced
    <2> QED BY <1>2, <2>3
<1>5. b \in Identity(key)
    BY ProvisionalIdentity
<1>6. b.cred = Basic(Temporary) /\ b.pk = r.id /\ b.cred \in Credentials /\ b.scheme \in Schemes /\ b.pk \in Nat
    <2>1. b.cred = Basic(Temporary) /\ b.pk = r.id
        BY DEF Provisional
    <2> HIDE DEF b
    <2> QED BY <1>5, <2>1 DEF Identity
<1> HIDE DEF s0, b, ks
<1>7. /\ more \in Seq(Stores) /\ Len(more) = 2 /\ more[1] = s1 /\ more[2] = s2
      /\ StoreOK(s1, key, kp, now) /\ SamePackages(s0, s1) /\ SamePackages(s0, s2)
    BY <1>4, <1>5, SaveOneTrail
<1>8. s0 \in Stores /\ s1 \in Stores
    BY <1>4, <1>7 DEF StoreOK
<1>9. /\ s1 \in Stores /\ s1.keys = s0.keys /\ s1.creds = Append(s0.creds, row)
    BY <1>4, <1>6, <1>8, CredentialSaved DEF StoreOK, WithinBounds
<1> HIDE DEF s1
<1>10. s2 \in Stores /\ s2.creds = s1.creds /\ s2.keys = Append(s1.keys, kr)
    BY <1>6, <1>8, KeyPairSaved
<1>11. row.val.cred = b.cred /\ kr.val.owner = Me /\ kr.id = b.pk
    BY DEF Row
<1> HIDE DEF s2, more, row, kr
<1>12. s1.creds = <<row>> /\ s2.creds = <<row>> /\ s1.keys = << >> /\ s2.keys = <<kr>>
    BY <1>4, <1>9, <1>10
<1>13. ASSUME NEW s, SamePackages(st, s) PROVE ~Alive(s) /\ s.kps = st.kps
    BY <1>13 DEF Alive, SamePackages
<1>14. SamePackages(st, s1) /\ SamePackages(st, s2)
    BY <1>4, <1>7 DEF SamePackages
<1>15. GoodStore(s0, "external", cert)
    <2>1. s0.creds = << >> /\ s0.keys = << >> /\ ~Alive(s0)
        BY <1>4, <1>13
    <2> QED BY <2>1, AdoptedGood
<1>16. GoodStore(s1, "external", cert)
    <2>1. ~Alive(s1)
        BY <1>13, <1>14
    <2>2. s1.creds = <<row>> /\ row.val.cred = Basic(Temporary) /\ s1.keys = << >>
        BY <1>6, <1>11, <1>12
    <2> QED BY <2>1, <2>2, AdoptedGood
<1>17. GoodStore(s2, "external", cert)
    <2>1. ~Alive(s2)
        BY <1>13, <1>14
    <2>2. s2.creds = <<row>> /\ row.val.cred = Basic(Temporary) /\ s2.keys = <<kr>> /\ kr.val.owner = Me
        BY <1>6, <1>11, <1>12
    <2> QED BY <2>1, <2>2, AdoptedGood
<1>18. Keyed(s2) /\ s2.keys[1].id = b.pk
    <2>1. ToSet(s2.creds) = {row}
        BY <1>12 DEF ToSet
    <2>2. row.val.cred.type # "x509"
        BY <1>6, <1>11 DEF Basic
    <2>3. s2.keys # << >> /\ s2.keys[1] = kr
        BY <1>12
    <2> QED BY <1>11, <2>1, <2>2, <2>3 DEF Keyed
<1>19. tr \in Seq(Stores) /\ Len(tr) = 3 /\ tr[1] = s0 /\ tr[2] = s1 /\ tr[3] = s2
    <2>1. <<s0>> \in Seq(Stores) /\ Len(<<s0>>) = 1 /\ <<s0>>[1] = s0
        BY <1>8
    <2> DEFINE h == <<s0>>
    <2> HIDE DEF h, tr
    <2>2. /\ h \o more \in Seq(Stores) /\ Len(h \o more) = Len(h) + Len(more)
          /\ \A i \in 1 .. Len(h) + Len(more) : (h \o more)[i] = IF i <= Len(h) THEN h[i] ELSE more[i - Len(h)]
        BY <1>7, <2>1, ConcatProperties DEF h
    <2>3. tr = h \o more
        BY <1>3 DEF h
    <2>4. Len(h) = 1 /\ h[1] = s0
        BY <2>1 DEF h
    <2> QED BY <1>7, <2>2, <2>3, <2>4
<1> HIDE DEF tr
<1>20. s0.kps = st.kps /\ s1.kps = st.kps /\ s2.kps = st.kps
    BY <1>4, <1>13, <1>14
<1>21. \A n \in 1 .. 3 : GoodStore(tr[n], "external", cert) /\ tr[n].kps = st.kps
    BY <1>15, <1>16, <1>17, <1>19, <1>20
<1>22. s2.creds = Append(st.creds, row)
    BY <1>4, <1>9, <1>10
<1> QED BY <1>18, <1>19, <1>21, <1>22 DEF Adopted, tr, b, row

\* init_with_external_client_id
LEMMA InitExternalIdentity ==
    ASSUME Scope, TypeInv, IdentityInv, InitExternal
    PROVE  IdentityInv'
<1> DEFINE tmp == store.keys
           trail == AdoptKeypairs(store, tmp)
           bs == [i \in 1 .. Len(tmp) |-> Provisional(tmp[i])]
           m == [on |-> TRUE, ids |-> PushAll(Off.ids, bs)]
           r == store.keys[1]
           b == Provisional(r)
<1>1. PICK sc : Schemes = {sc} /\ Platform = "generic"
    BY DEF Scope, OneScheme
<1>2. /\ usage = "external" /\ ~mem.on
      /\ Len(tmp) = Cardinality(Schemes)
      /\ \A q \in ToSet(tmp) : q.val.owner = Temporary
      /\ \E n \in 1 .. Len(trail) : After(trail, n, m) /\ bound' = (n = Len(trail))
      /\ toRemove' = toRemove /\ usage' = usage /\ fresh' = fresh /\ now' = now
    BY DEF InitExternal
<1>3. tmp \in Seq(KeysBelow(fresh.key)) /\ store.creds \in Seq(CredRow)
    BY TypeParts, KeysOfStore, StoreTyped DEF Stores
<1>4. Len(tmp) = 1
    BY <1>1, <1>2, FS_Singleton
<1>5. r \in KeysBelow(fresh.key) /\ tmp = <<r>> /\ r \in ToSet(tmp)
    BY <1>3, <1>4, SetOfSeq
<1>6. r.val.owner = Temporary
    BY <1>2, <1>5
<1>7. GoodStore(store, usage, fresh.cert) /\ Kept(store, toRemove) /\ (bound => Keyed(store))
    BY DEF IdentityInv
<1>8. ~Keyed(store)
    BY <1>6 DEF Keyed, Me, Temporary
<1>9. ~Alive(store)
    BY <1>7, <1>8 DEF GoodStore
<1>10. ToSet(store.creds) = {}
    BY <1>4, <1>5, <1>6, <1>7 DEF GoodStore, Begun
<1>11. store.creds = << >>
    <2>1. ToSet(store.creds) = {store.creds[i] : i \in 1 .. Len(store.creds)}
        BY <1>3, SetOfSeq
    <2>2. Len(store.creds) \in Nat /\ (Len(store.creds) # 0 => 1 \in 1 .. Len(store.creds))
        BY <1>3
    <2>3. Len(store.creds) = 0
        BY <1>10, <2>1, <2>2
    <2> QED BY <1>3, <2>3
<1>12. fresh.cert \in Nat /\ 1 <= fresh.cert
    BY TypeParts
<1>13. Adopted(trail, store, r, fresh.cert)
    <2>1. store.keys = <<r>>
        BY <1>5
    <2> HIDE DEF r
    <2> QED BY <1>1, <1>5, <1>6, <1>9, <1>11, <1>12, <2>1, TypeParts, AdoptOneTrail
<1>14. toRemove = {}
    BY <1>7, <1>10 DEF Kept
<1> HIDE DEF trail, b
<1>15. bs = <<b>>
    <2>1. bs = [i \in 1 .. 1 |-> Provisional(tmp[i])]
        BY <1>4
    <2>2. [i \in 1 .. 1 |-> Provisional(tmp[i])] = <<Provisional(tmp[1])>>
        OBVIOUS
    <2> QED BY <2>1, <2>2 DEF b
<1> HIDE DEF bs, m
<1>16. PICK n \in 1 .. Len(trail) : After(trail, n, m) /\ bound' = (n = Len(trail))
    BY <1>2
<1>17. /\ trail \in Seq(Stores) /\ Len(trail) = 3
       /\ \A i \in 1 .. 3 : GoodStore(trail[i], "external", fresh.cert) /\ trail[i].kps = store.kps
       /\ Keyed(trail[3]) /\ trail[3].keys[1].id = b.pk
       /\ trail[3].creds = Append(store.creds, Row(Me, [cred |-> b.cred, at |-> now]))
    BY <1>13 DEF Adopted, b
<1>18. store' = trail[n] /\ mem' = IF n = 3 THEN m ELSE Off
    BY <1>16, <1>17 DEF After
<1>19. GoodStore(store', usage, fresh.cert)
    BY <1>2, <1>17, <1>18
<1>20. Kept(store', toRemove)
    BY <1>14 DEF Kept
<1>21. Loaded(mem', store')
    <2>1. CASE n # 3
        BY <1>18, <2>1, OffLoaded
    <2>2. CASE n = 3
        <3>1. /\ Keyed(store') /\ store'.keys[1].id = b.pk /\ store' \in Stores
              /\ store'.creds = Append(store.creds, Row(Me, [cred |-> b.cred, at |-> now]))
            <4>1. store' = trail[3]
                BY <1>18, <2>2
            <4>2. trail[3] \in Stores
                <5>1. trail \in Seq(Stores) /\ 3 \in 1 .. Len(trail)
                    BY <1>17
                <5> QED BY <5>1, ElementOfSeq
            <4>3. Keyed(trail[3])
                BY <1>17
            <4> QED BY <1>17, <4>1, <4>2, <4>3
        <3>2. Mirror(store') = Append(Mirror(store), Bundle(b))
            BY <1>8, <1>10, <3>1, StoreTyped, MirrorAppended
        <3>3. Mirror(store) = << >>
            <4>1. Len(Mirror(store)) = 0 /\ Mirror(store) \in Seq({Mirror(store)[i] : i \in 1 .. Len(store.creds)})
                BY <1>11, StoreTyped, Mirrored
            <4> QED BY <4>1
        <3>4. b.scheme \in Schemes
            <4>1. b \in Identity(fresh.key)
                BY <1>5, ProvisionalIdentity DEF b
            <4> QED BY <4>1 DEF Identity
        <3>5. PushAll(Off.ids, <<b>>)[b.scheme] = Append(Off.ids[b.scheme], Bundle(b))
            <4>1. Off.ids \in [Schemes -> Seq({Bundle(b)})]
                BY DEF Off
            <4> QED BY <3>4, <4>1, PushOne
        <3>6. Off.ids[b.scheme] = << >>
            BY <3>4 DEF Off
        <3>7. mem'.ids = PushAll(Off.ids, <<b>>)
            BY <1>15, <1>18, <2>2 DEF m
        <3>8. \A x \in Schemes : mem'.ids[x] = Mirror(store')
            BY <1>1, <3>2, <3>3, <3>4, <3>5, <3>6, <3>7
        <3>9. ToSet(store'.creds) # {}
            <4> DEFINE w == Row(Me, [cred |-> b.cred, at |-> now])
            <4> HIDE DEF w
            <4>1. store'.creds = <<w>>
                BY <1>11, <3>1 DEF w
            <4> QED BY <4>1 DEF ToSet
        <3> QED BY <3>1, <3>8, <3>9 DEF Loaded
    <2> QED BY <2>1, <2>2
<1>22. bound' => Keyed(store')
    BY <1>16, <1>17, <1>18
<1>23. fresh'.cert = fresh.cert
    BY <1>2
<1> QED BY <1>2, <1>19, <1>20, <1>21, <1>22, <1>23, IdentityStep

\* A step of a running client that writes one conversation, with leaves that are
\* known.
LEMMA GroupStepIdentity ==
    ASSUME TypeInv, IdentityInv, mem.on, NEW g \in Groups, NEW v,
           store'.creds = store.creds, store'.keys = store.keys,
           \A r \in ToSet(store'.kps) : r \in ToSet(store.kps),
           store'.groups = [store.groups EXCEPT ![g] = v],
           LeafKnown(store, v.leaf), v.pending # None => LeafKnown(store, v.pending),
           mem' = mem, toRemove' = toRemove, usage' = usage, fresh'.cert = fresh.cert, bound' = bound
    PROVE  IdentityInv'
<1>1. /\ GoodStore(store, usage, fresh.cert) /\ Kept(store, toRemove) /\ Loaded(mem, store) /\ Keyed(store)
    BY DEF IdentityInv, Loaded
<1>2. store \in Stores
    BY StoreTyped
<1>3. GoodStore(store', usage, fresh.cert) /\ Kept(store', toRemove)
    <2> DEFINE s == store'
    <2>1. /\ s.creds = store.creds /\ s.keys = store.keys
          /\ \A r \in ToSet(s.kps) : r \in ToSet(store.kps)
          /\ s.groups = [store.groups EXCEPT ![g] = v]
        OBVIOUS
    <2> HIDE DEF s
    <2>2. GoodStore(s, usage, fresh.cert) /\ \A refs : Kept(store, refs) => Kept(s, refs)
        BY <1>1, <1>2, <2>1, GroupGood
    <2> QED BY <1>1, <2>2 DEF s
<1>4. Loaded(mem', store') /\ Keyed(store')
    BY <1>1, SameClient
<1> QED BY <1>3, <1>4, IdentityStep

\* create: the client has a bundle of the type, so none is created.
LEMMA NewConversationIdentity ==
    ASSUME Scope, TypeInv, IdentityInv, NEW g \in Groups, NEW sc \in Schemes, NEW type \in Types, NewConversation(g, sc, type)
    PROVE  IdentityInv'
<1> DEFINE create == type = "basic" /\ ~HasBundle(mem.ids, sc, type)
           bs == IF create THEN <<[scheme |-> sc, pk |-> fresh.key, cred |-> Basic(Me)]>> ELSE << >>
           ids == PushAll(mem.ids, bs)
           saved == SaveIdentities(store, bs)
           leaf == Leaf(MostRecent(ids, sc, type))
           v == [scheme |-> sc, leaf |-> leaf, pending |-> None]
           last == SetGroup(EndOf(store, saved), g, v)
           trail == Append(saved, last)
           m == [mem EXCEPT !.ids = ids]
<1>1. /\ mem.on
      /\ create \/ HasBundle(mem.ids, sc, type)
      /\ type = "basic" /\ usage # "basic_again" => ~HasBundle(mem.ids, sc, "x509")
      /\ \E n \in 1 .. Len(trail) : After(trail, n, m)
      /\ fresh' = [fresh EXCEPT !.key = @ + Len(bs)]
      /\ toRemove' = toRemove /\ usage' = usage /\ now' = now /\ bound' = bound
    BY DEF NewConversation
<1>2. Loaded(mem, store) /\ GoodStore(store, usage, fresh.cert) /\ store \in Stores
    BY StoreTyped DEF IdentityInv
<1>3. mem.ids \in [Schemes -> Seq(Bundles(fresh.key, now))] /\ mem.ids[sc] = Mirror(store) /\ ToSet(store.creds) # {}
    BY <1>1, <1>2, StoreTyped DEF Loaded
<1>4. ~create
    <2> SUFFICES ASSUME create PROVE FALSE
        OBVIOUS
    <2>1. PICK r \in ToSet(store.creds) : TRUE
        BY <1>3
    <2>2. PICK x \in ToSet(Mirror(store)) : x.cred = r.val.cred
        BY <1>2, Mirrored
    <2>3. HasBundle(mem.ids, sc, x.cred.type)
        BY <1>3, BundleFound
    <2>4. r.val.cred \in Credentials
        <3>1. store.creds \in Seq(CredRow)
            BY <1>2 DEF Stores
        <3>2. r \in CredRow
            BY <3>1, SetOfSeq
        <3> QED BY <3>2 DEF CredRow
    <2>5. x.cred.type \in {"basic", "x509"}
        BY <2>2, <2>4, CertNumber DEF Types
    <2>6. usage # "basic_again"
        BY TypeParts DEF Scope, TypeInv
    <2> QED BY <1>1, <2>3, <2>5, <2>6
<1>5. bs = << >> /\ Len(bs) = 0
    BY <1>4
<1>6. HasBundle(mem.ids, sc, type)
    BY <1>1, <1>4
<1>7. ids = mem.ids
    BY <1>3, <1>5, PushNone
<1>8. saved = << >>
    <2> HIDE DEF bs
    <2>1. bs \in Seq(Identity(fresh.key))
        BY <1>5
    <2>2. saved \in Seq(Stores) /\ Len(saved) = 2 * Len(bs)
        BY <2>1, TypeParts, IdentitiesSaved
    <2> HIDE DEF saved
    <2> QED BY <1>5, <2>2
<1>9. fresh'.cert = fresh.cert
    <2> HIDE DEF bs
    <2> QED BY <1>1 DEF TypeInv, FreshOK
<1>10. LeafKnown(store, MostRecent(mem.ids, sc, type)) /\ MostRecent(mem.ids, sc, type) \in Bundles(fresh.key, now)
    BY <1>2, <1>3, <1>6, MostRecentKnown, BundlesOfType
<1>11. leaf \in LeafType /\ LeafKnown(store, leaf)
    <2> DEFINE b == MostRecent(mem.ids, sc, type)
    <2>1. leaf = Leaf(b)
        BY <1>7
    <2> HIDE DEF b, leaf
    <2>2. leaf \in LeafType
        BY <1>10, <2>1, TypeParts, LeafOfBundle DEF b
    <2>3. LeafKnown(store, b)
        BY <1>10 DEF b
    <2>4. LeafKnown(store, leaf)
        BY <2>1, <2>3 DEF LeafKnown, Leaf
    <2> QED BY <2>2, <2>4
<1>12. v \in GroupRow /\ v.leaf = leaf /\ v.pending = None
    <2> HIDE DEF leaf
    <2> QED BY <1>11 DEF GroupRow
<1> HIDE DEF bs, ids, v, leaf, create
<1>13. last = [store EXCEPT !.groups[g] = v]
    BY <1>8 DEF SetGroup, EndOf
<1> HIDE DEF saved
<1>14. trail = <<last>>
    <2> HIDE DEF last
    <2> QED BY <1>8
<1> HIDE DEF last
<1>15. m = mem
    BY <1>7, TypeParts DEF MemOK
<1> HIDE DEF m
<1>16. store' = last /\ mem' = mem
    <2>1. Len(trail) = 1 /\ trail[1] = last
        BY <1>14
    <2> HIDE DEF trail
    <2>2. PICK n \in 1 .. Len(trail) : After(trail, n, m)
        BY <1>1
    <2>3. n = 1
        BY <2>1
    <2> QED BY <1>15, <2>1, <2>2, <2>3 DEF After
<1>17. /\ store'.groups = [store.groups EXCEPT ![g] = v] /\ store'.creds = store.creds /\ store'.keys = store.keys
       /\ store'.kps = store.kps /\ store'.hpke = store.hpke /\ store'.enc = store.enc
    BY <1>12, <1>13, <1>16, TypeParts, GroupReplaced
<1> QED BY <1>1, <1>9, <1>11, <1>12, <1>16, <1>17, GroupStepIdentity

\* process_welcome_message
LEMMA JoinConversationIdentity ==
    ASSUME Scope, TypeInv, IdentityInv, NEW g \in Groups, NEW i \in 1 .. Len(store.kps), JoinConversation(g, i)
    PROVE  IdentityInv'
<1> DEFINE q == store.kps[i]
           v == [scheme |-> q.val.scheme, leaf |-> Leaf(q.val), pending |-> None]
<1>1. JoinStep(g, q)
    BY JoinConversationStep
<1>2. /\ mem.on /\ toRemove' = toRemove /\ usage' = usage /\ fresh'.cert = fresh.cert /\ bound' = bound
    BY <1>1 DEF JoinStep
<1>3. q \in ToSet(store.kps)
    BY TypeParts, KeyPackageAt
<1>4. GoodStore(store, usage, fresh.cert) /\ Kept(store, toRemove) /\ Keyed(store)
    BY <1>2 DEF IdentityInv, Loaded
<1>5. LeafKnown(store, q.val)
    BY <1>3, <1>4 DEF GoodStore, LeavesKnown
<1>6. LeafKnown(store, v.leaf) /\ v.pending = None
    BY <1>5 DEF LeafKnown, Leaf
<1> HIDE DEF q
<1>7. CASE Pruned(store, store') /\ mem' = Off
    <2>1. GoodStore(store', usage, fresh.cert) /\ Kept(store', toRemove)
        BY <1>4, <1>7, PrunedGood
    <2>2. store'.creds = store.creds /\ store'.keys = store.keys
        BY <1>7 DEF Pruned, SameIdentity
    <2>3. Loaded(mem', store') /\ Keyed(store')
        BY <1>4, <1>7, <2>2, OffLoaded, SameClient
    <2> QED BY <1>2, <2>1, <2>3, IdentityStep
<1>8. CASE Joined(store, store', g, v) /\ mem' = mem
    <2> HIDE DEF v
    <2>1. /\ store'.creds = store.creds /\ store'.keys = store.keys
          /\ \A r \in ToSet(store'.kps) : r \in ToSet(store.kps)
          /\ store'.groups = [store.groups EXCEPT ![g] = v]
        BY <1>8 DEF Joined
    <2> QED BY <1>2, <1>6, <1>8, <2>1, GroupStepIdentity
<1> QED BY <1>1, <1>7, <1>8 DEF JoinStep

\* Commits, pending, accepted and cleared.
LEMMA CommitsIdentity ==
    ASSUME Scope, TypeInv, IdentityInv, NEW g \in Groups, OrdinaryCommit(g) \/ CommitAccepted(g) \/ ClearPendingCommit(g)
    PROVE  IdentityInv'
<1>1. mem.on /\ Member(g) /\ UNCHANGED <<mem, toRemove, usage, fresh, now, bound>>
    BY DEF OrdinaryCommit, CommitAccepted, ClearPendingCommit, Idle
<1>2. /\ store.groups[g] \in GroupRow
      /\ store.groups[g].leaf \in LeafType
      /\ ~Idle(g) => store.groups[g].pending \in LeafType
    BY <1>1, GroupAt
<1>3. store \in Stores /\ GoodStore(store, usage, fresh.cert)
    BY TypeParts DEF StoreOK, IdentityInv
<1>4. /\ LeafKnown(store, store.groups[g].leaf)
      /\ store.groups[g].pending # None => LeafKnown(store, store.groups[g].pending)
    BY <1>1, <1>3 DEF GoodStore, LeavesKnown, Member
<1>5. ASSUME NEW v \in GroupRow, store' = [store EXCEPT !.groups[g] = v],
             LeafKnown(store, v.leaf), v.pending # None => LeafKnown(store, v.pending)
      PROVE  IdentityInv'
    <2>1. /\ store'.groups = [store.groups EXCEPT ![g] = v] /\ store'.creds = store.creds /\ store'.keys = store.keys
          /\ store'.kps = store.kps /\ store'.hpke = store.hpke /\ store'.enc = store.enc
        BY <1>5, TypeParts, GroupReplaced
    <2> QED BY <1>1, <1>5, <2>1, GroupStepIdentity
<1>6. CASE OrdinaryCommit(g)
    <2> DEFINE v == [store.groups[g] EXCEPT !.pending = store.groups[g].leaf]
    <2>1. store' = [store EXCEPT !.groups[g] = v] /\ v \in GroupRow
        BY <1>2, <1>3, <1>6, CommitSteps, GroupRows
    <2>2. v.leaf = store.groups[g].leaf /\ v.pending = store.groups[g].leaf
        BY <1>2 DEF GroupRow
    <2> HIDE DEF v
    <2> QED BY <1>4, <1>5, <2>1, <2>2
<1>7. CASE CommitAccepted(g)
    <2> DEFINE v == [store.groups[g] EXCEPT !.leaf = store.groups[g].pending, !.pending = None]
    <2>1. store.groups[g].pending \in LeafType /\ store.groups[g].pending # None
        BY <1>2, <1>7 DEF CommitAccepted, Idle
    <2>2. store' = [store EXCEPT !.groups[g] = v] /\ v \in GroupRow
        BY <1>2, <1>3, <1>7, <2>1, CommitSteps, GroupRows
    <2>3. v.leaf = store.groups[g].pending /\ v.pending = None
        BY <1>2 DEF GroupRow
    <2> HIDE DEF v
    <2> QED BY <1>4, <1>5, <2>1, <2>2, <2>3
<1>8. CASE ClearPendingCommit(g)
    <2> DEFINE v == [store.groups[g] EXCEPT !.pending = None]
    <2>1. store' = [store EXCEPT !.groups[g] = v] /\ v \in GroupRow
        BY <1>2, <1>3, <1>8, CommitSteps, GroupRows
    <2>2. v.leaf = store.groups[g].leaf /\ v.pending = None
        BY <1>2 DEF GroupRow
    <2> HIDE DEF v
    <2> QED BY <1>4, <1>5, <2>1, <2>2
<1> QED BY <1>6, <1>7, <1>8

\* e2ei_rotate_all
LEMMA RotateAllIdentity ==
    ASSUME Scope, TypeInv, IdentityInv, NEW sc \in Schemes, NEW type \in Types,
           NEW order \in SetToSeqs({g \in Groups : Member(g)}), RotateAll(sc, type, order)
    PROVE  IdentityInv'
<1> DEFINE b == RotatedTo(sc, type)
           pk == EnrolledKey(mem.ids, sc, type)
           key == fresh.key
           cert == fresh.cert + 1
           old == OldPackages(b)
           ids == PushAll(mem.ids, <<b>>)
           m == [mem EXCEPT !.ids = ids]
<1>1. /\ mem.on /\ HasBundle(mem.ids, sc, type)
      /\ fresh' = [fresh EXCEPT !.cert = @ + 1, !.kp = @ + NbKeyPackages]
      /\ usage' = usage /\ now' = now /\ bound' = bound
    BY DEF RotateAll
<1>2. RotateStep(b)
    BY RotateAllStep
<1>3. Platform = "generic" /\ Schemes = {sc}
    BY DEF Scope, OneScheme
<1>4. /\ b \in Identity(key)
      /\ RotateState(store, store', b, fresh.kp)
      /\ mem' = m \/ mem' = Off
      /\ toRemove' = old \/ toRemove' = toRemove
    <2> HIDE DEF b
    <2> QED BY <1>2 DEF RotateStep
<1>5. /\ GoodStore(store, usage, fresh.cert) /\ Kept(store, toRemove) /\ Keyed(store) /\ store \in Stores
      /\ mem.ids[sc] = Mirror(store) /\ mem.ids \in [Schemes -> Seq(Bundles(key, now))]
    BY <1>1, StoreTyped DEF IdentityInv, Loaded
<1>6. b.scheme = sc /\ b.pk = pk /\ b.cred = X509(fresh.cert, pk)
    BY DEF RotatedTo
<1>7. pk = store.keys[1].id
    BY <1>1, <1>5, MostRecentKnown DEF EnrolledKey
<1> HIDE DEF b, pk
<1>8. b.cred.name = Me /\ b.cred.pk = b.pk /\ b.cred.cert = fresh.cert
    BY <1>6 DEF X509
<1>9. /\ fresh.cert \in Nat /\ cert \in Nat /\ fresh.cert <= cert /\ fresh.cert < cert /\ key \in Nat
      /\ fresh.kp \in Nat /\ 1 <= fresh.kp /\ now \in Nat
    BY TypeParts
<1>10. \A r \in ToSet(store.creds) : r.val.cred.cert < fresh.cert
    <2> SUFFICES ASSUME NEW r \in ToSet(store.creds) PROVE r.val.cred.cert < fresh.cert
        OBVIOUS
    <2>1. store.creds \in Seq(CredRow)
        BY <1>5 DEF Stores
    <2>2. PICK i \in 1 .. Len(store.creds) : r = store.creds[i]
        BY <2>1, SetOfSeq
    <2> QED BY <1>5, <2>2 DEF GoodStore, CertsAscend
<1>11. fresh'.cert = cert
    BY <1>1 DEF TypeInv, FreshOK
<1> HIDE DEF cert
<1>12. NewIdentity(store, b, usage, cert)
    BY <1>5, <1>6, <1>7, <1>8, <1>9, <1>10 DEF NewIdentity
<1>13. StoreOK(store, key, fresh.kp, now)
    BY TypeParts
<1> HIDE DEF key
<1>14. Renewed(store, store', b, usage, cert, fresh.kp)
    <2>1. CASE store' = SaveCredential(store, b)
        <3>1. Renewed(store, SaveCredential(store, b), b, usage, cert, fresh.kp)
            BY <1>3, <1>4, <1>5, <1>9, <1>12, <1>13, SavedGood
        <3> QED BY <2>1, <3>1
    <2>2. CASE Provisioned(store, store', b, fresh.kp)
        <3> DEFINE s == store'
        <3> HIDE DEF s
        <3>1. Provisioned(store, s, b, fresh.kp)
            BY <2>2 DEF s
        <3>2. Settled(store, s, b, usage, cert, fresh.kp)
            BY <1>3, <1>4, <1>5, <1>9, <1>12, <1>13, <3>1, ProvisionedGood
        <3> QED BY <3>2 DEF s, Settled
    <2> QED BY <1>4, <2>1, <2>2 DEF RotateState
<1>15. /\ store' \in Stores /\ GoodStore(store', usage, cert)
       /\ store'.creds = Append(store.creds, Row(Me, [cred |-> b.cred, at |-> now]))
       /\ ToSet(store'.creds) = ToSet(store.creds) \cup {Row(Me, [cred |-> b.cred, at |-> now])}
       /\ \A q \in ToSet(store'.kps) : q \in ToSet(store.kps) \/ q.id \notin 1 .. (fresh.kp - 1)
       /\ Kept(store', toRemove)
       /\ Keyed(store') /\ store'.keys[1].id = b.pk
    BY <1>5, <1>14, TypeParts DEF Renewed
<1>16. Kept(store', old)
    <2> DEFINE row == Row(Me, [cred |-> b.cred, at |-> now])
    <2>1. row.val.cred = b.cred
        BY DEF Row
    <2>2. row \in ToSet(store'.creds)
        BY <1>15
    <2>3. ASSUME NEW q \in ToSet(store'.kps), q.id \in old PROVE q.val.cred # b.cred
        <3>1. old \subseteq 1 .. (fresh.kp - 1)
            BY TypeParts DEF StoreOK, WithinBounds, OldPackages
        <3> HIDE DEF old
        <3>2. q \in ToSet(store.kps)
            BY <1>15, <2>3, <3>1
        <3>3. PICK r \in ToSet(store.creds) : r.val.cred = q.val.cred
            BY <1>5, <3>2 DEF GoodStore, LeavesKnown, LeafKnown, HasCred
        <3>4. q.val.cred.cert < fresh.cert
            BY <1>10, <3>3
        <3> QED BY <1>8, <1>9, <3>4
    <2> HIDE DEF row, old
    <2> QED BY <2>1, <2>2, <2>3 DEF Kept
<1>17. Kept(store', toRemove')
    BY <1>4, <1>15, <1>16
<1>18. Loaded(mem', store')
    <2>1. CASE mem' = Off
        BY <2>1, OffLoaded
    <2>2. CASE mem' = m
        <3>1. Mirror(store') = Append(Mirror(store), Bundle(b))
            BY <1>5, <1>6, <1>7, <1>15, MirrorAppended
        <3>2. Bundle(b) \in Bundles(key, now)
            <4>1. now \in 0 .. now
                BY <1>9
            <4>2. b.cred \in Credentials /\ b.pk \in 1 .. (key - 1)
                BY <1>4 DEF Identity
            <4> QED BY <4>1, <4>2 DEF Bundle, Bundles
        <3>3. ids[b.scheme] = Append(mem.ids[b.scheme], Bundle(b))
            <4>1. b.scheme \in Schemes
                BY <1>3, <1>6
            <4>2. mem.ids \in [Schemes -> Seq(Bundles(key, now))]
                BY <1>5
            <4> QED BY <3>2, <4>1, <4>2, PushOne
        <3> HIDE DEF ids
        <3>4. mem'.ids = ids
            BY <2>2, TypeParts DEF MemOK
        <3>5. \A x \in Schemes : mem'.ids[x] = Mirror(store')
            BY <1>3, <1>5, <1>6, <3>1, <3>3, <3>4
        <3>6. ToSet(store'.creds) # {}
            BY <1>15
        <3> QED BY <1>15, <3>5, <3>6 DEF Loaded
    <2> QED BY <1>4, <2>1, <2>2
<1>19. GoodStore(store', usage, fresh'.cert) /\ (bound' => Keyed(store')) /\ usage' = usage
    BY <1>1, <1>11, <1>15
<1> QED BY <1>17, <1>18, <1>19, IdentityStep

\* Credentials no leaf has, among others.
Unused(st, gone) ==
    /\ \A r \in ToSet(st.kps) : r.val.cred \notin gone
    /\ \A g \in Groups : st.groups[g] # None =>
          /\ st.groups[g].leaf.cred \notin gone
          /\ st.groups[g].pending # None => st.groups[g].pending.cred \notin gone
    /\ \E r \in ToSet(st.creds) : r.val.cred \notin gone

\* They can be deleted.
LEMMA DeletedGood ==
    ASSUME NEW st, NEW key, NEW kp, NEW t, StoreOK(st, key, kp, t), NEW u, NEW cert, GoodStore(st, u, cert),
           NEW gone, Unused(st, gone)
    PROVE  LET s == DeleteByCredential(st, gone)
           IN  /\ s \in Stores /\ s.keys = st.keys /\ s.kps = st.kps
               /\ s.creds = Keep(st.creds, {r \in ToSet(st.creds) : r.val.cred \notin gone})
               /\ GoodStore(s, u, cert)
               /\ Keyed(st) => Keyed(s)
               /\ \A r \in ToSet(st.creds) : r.val.cred \notin gone => r \in ToSet(s.creds)
               /\ ToSet(s.creds) # {}
<1> DEFINE s == DeleteByCredential(st, gone)
           X == {r \in ToSet(st.creds) : r.val.cred \notin gone}
           rows == st.creds
           k == Keep(rows, X)
<1>1. st \in Stores /\ rows \in Seq(CredRow)
    BY DEF StoreOK, Stores
<1>2. StoreOK(s, key, kp, t) /\ SamePackages(st, s) /\ s.keys = st.keys /\ s.creds = k
    BY CredentialsKept
<1> HIDE DEF X, s
<1>3. k \in Seq(CredRow) /\ ToSet(k) = ToSet(rows) \cap X /\ FromPlaces(k, rows)
    BY <1>1, KeepElements, KeepOrdered
<1> HIDE DEF k
<1>4. ToSet(s.creds) = X
    BY <1>2, <1>3 DEF X
<1>5. s.kps = st.kps /\ s.groups = st.groups /\ s.hpke = st.hpke /\ s.enc = st.enc /\ s \in Stores
    BY <1>2 DEF SamePackages, StoreOK
<1>6. CertsAscend(s.creds, cert)
    <2>1. CertsAscend(rows, cert)
        BY DEF GoodStore
    <2>2. \A i, j \in 1 .. Len(k) : i < j => k[i].val.cred.cert < k[j].val.cred.cert
        <3> SUFFICES ASSUME NEW i \in 1 .. Len(k), NEW j \in 1 .. Len(k), i < j
                     PROVE  k[i].val.cred.cert < k[j].val.cred.cert
            OBVIOUS
        <3>1. PICK a \in 1 .. Len(rows), b \in 1 .. Len(rows) : a < b /\ k[i] = rows[a] /\ k[j] = rows[b]
            BY <1>3 DEF FromPlaces
        <3> QED BY <2>1, <3>1 DEF CertsAscend
    <2>3. \A i \in 1 .. Len(k) : k[i].val.cred.cert < cert
        <3> SUFFICES ASSUME NEW i \in 1 .. Len(k) PROVE k[i].val.cred.cert < cert
            OBVIOUS
        <3>1. k[i] \in ToSet(rows)
            <4>1. k[i] \in ToSet(k)
                BY <1>3, SetOfSeq
            <4> QED BY <1>3, <4>1
        <3>2. PICK a \in 1 .. Len(rows) : k[i] = rows[a]
            BY <1>1, <3>1, SetOfSeq
        <3> QED BY <2>1, <3>2 DEF CertsAscend
    <2> QED BY <1>2, <2>2, <2>3 DEF CertsAscend
<1>7. Keyed(st) => Keyed(s)
    BY <1>2, <1>4 DEF Keyed, X
<1>8. Alive(s) => Keyed(s)
    BY <1>5, <1>7 DEF GoodStore, Alive
<1>10. ASSUME NEW l, LeafKnown(st, l), l.cred \notin gone PROVE LeafKnown(s, l)
    BY <1>2, <1>4, <1>10 DEF LeafKnown, HasCred, X
<1>11. LeavesKnown(s)
    <2>1. \A r \in ToSet(s.kps) : LeafKnown(s, r.val)
        BY <1>5, <1>10 DEF GoodStore, LeavesKnown, Unused
    <2>2. \A g \in Groups : s.groups[g] # None => LeafKnown(s, s.groups[g].leaf)
        BY <1>5, <1>10 DEF GoodStore, LeavesKnown, Unused
    <2>3. \A g \in Groups : s.groups[g] # None => (s.groups[g].pending # None => LeafKnown(s, s.groups[g].pending))
        BY <1>5, <1>10 DEF GoodStore, LeavesKnown, Unused
    <2> QED BY <2>1, <2>2, <2>3 DEF LeavesKnown
<1>12. ToSet(s.creds) # {}
    BY <1>4 DEF Unused, X
<1>13. Begun(s, u)
    <2>1. Begun(st, u)
        BY DEF GoodStore
    <2>2. u # "external" => \A r \in ToSet(s.creds) : r.val.cred.name = Me
        BY <1>4, <2>1 DEF Begun, X
    <2>3. u = "external" /\ (\E r \in ToSet(s.creds) : r.val.cred.type = "x509") => Keyed(s)
        BY <1>4, <1>7, <2>1 DEF Begun, X
    <2>4. ToSet(st.creds) # {}
        BY DEF Unused
    <2>5. ~(s.keys # << >> /\ s.keys[1].val.owner = Temporary)
        BY <1>2, <2>1, <2>4 DEF Begun
    <2> QED BY <1>12, <2>2, <2>3, <2>5 DEF Begun
<1>14. GoodStore(s, u, cert)
    BY <1>6, <1>8, <1>11, <1>13 DEF GoodStore
<1> QED BY <1>2, <1>4, <1>5, <1>7, <1>12, <1>14 DEF s, X, k

\* What delete_keypackages deletes after the key packages is not used, when no
\* conversation uses what the key packages are for.
LEMMA AbandonedUnused ==
    ASSUME TypeInv, IdentityInv, toRemove # {}, store.expired = {},
           ~InUse({r.val.cred : r \in {q \in ToSet(store.kps) : q.id \in toRemove}}),
           NEW base, Pruned(store, base), \A r \in ToSet(base.kps) : r.id \notin toRemove,
           NEW gone, gone \subseteq Abandoned(store, toRemove)
    PROVE  /\ Unused(base, gone)
           /\ \E r \in ToSet(base.creds) : r.val.cred \notin gone /\ \A q \in ToSet(base.kps) : q.id \in toRemove => q.val.cred # r.val.cred
<1> DEFINE D == ToSet(Doomed(store, toRemove))
           U(c) == {r.id : r \in {q \in ToSet(store.kps) : q.val.cred = c}}
           R == {r.val.cred : r \in {q \in ToSet(store.kps) : q.id \in toRemove}}
<1>1. D = {r.id : r \in ToSet(store.kps)} \cap toRemove
    BY StoreTyped, DoomedIds
<1>2. \A c \in gone : c \in {r.val.cred : r \in ToSet(store.kps)} /\ U(c) \subseteq D
    BY DEF Abandoned
<1> HIDE DEF D
<1>3. \A c \in gone : c \in R
    <2> SUFFICES ASSUME NEW c \in gone PROVE c \in R
        OBVIOUS
    <2>1. PICK r \in ToSet(store.kps) : c = r.val.cred
        BY <1>2
    <2>2. r.id \in U(c)
        BY <2>1
    <2> HIDE DEF U
    <2>3. r.id \in toRemove
        BY <1>1, <1>2, <2>2
    <2> QED BY <2>1, <2>3
<1>4. base.groups = store.groups /\ base.creds = store.creds /\ ToSet(base.kps) \subseteq ToSet(store.kps)
    BY DEF Pruned, SameIdentity
<1>5. \A r \in ToSet(base.kps) : r.val.cred \notin gone
    <2> SUFFICES ASSUME NEW r \in ToSet(base.kps), r.val.cred \in gone PROVE FALSE
        OBVIOUS
    <2>1. r \in ToSet(store.kps)
        BY <1>4
    <2>2. r.id \in U(r.val.cred)
        BY <2>1
    <2> HIDE DEF U
    <2>3. r.id \in toRemove
        BY <1>1, <1>2, <2>2
    <2> QED BY <2>3
<1> HIDE DEF R
<1>6. ASSUME NEW g \in Groups, store.groups[g] # None
      PROVE  store.groups[g].leaf.cred \notin R /\ (store.groups[g].pending # None => store.groups[g].pending.cred \notin R)
    <2>1. ~InUse(R)
        BY DEF R
    <2>2. ({store.groups[g].leaf.cred} \cup (IF Idle(g) THEN {} ELSE {store.groups[g].pending.cred})) \cap R = {}
        BY <1>6, <2>1 DEF InUse, Member
    <2>3. store.groups[g].pending # None => ~Idle(g)
        BY DEF Idle
    <2> QED BY <2>2, <2>3
<1>7. \A g \in Groups : base.groups[g] # None =>
          /\ base.groups[g].leaf.cred \notin gone
          /\ base.groups[g].pending # None => base.groups[g].pending.cred \notin gone
    BY <1>3, <1>4, <1>6
<1>8. PICK r \in ToSet(store.creds) : \A q \in ToSet(store.kps) : q.id \in toRemove => q.val.cred # r.val.cred
    BY DEF IdentityInv, Kept
<1>9. r.val.cred \notin R
    BY <1>8 DEF R
<1>10. r.val.cred \notin gone /\ r \in ToSet(base.creds)
    BY <1>3, <1>4, <1>9
<1>11. Unused(base, gone)
    BY <1>5, <1>7, <1>10 DEF Unused
<1> QED BY <1>4, <1>8, <1>10, <1>11

\* delete_keypackages
LEMMA DeleteKeyPackagesIdentity ==
    ASSUME Scope, TypeInv, IdentityInv, DeleteKeyPackages
    PROVE  IdentityInv'
<1> DEFINE pruned == Prune(store, toRemove)
           base == EndOf(store, pruned)
           gone == Abandoned(store, toRemove)
           key == fresh.key
           kp == fresh.kp
<1>1. PICK sc : Schemes = {sc} /\ Platform = "generic" /\ usage # "early_delete"
    BY TypeParts DEF Scope, OneScheme
<1>2. /\ mem.on /\ toRemove # {} /\ store.expired = {}
      /\ ~InUse({r.val.cred : r \in {q \in ToSet(store.kps) : q.id \in toRemove}})
      /\ \/ /\ store' = base /\ mem' = mem
            /\ toRemove' = {} \/ toRemove' = toRemove
         \/ /\ ~PruneFails(store, toRemove)
            /\ store' = DeleteByCredential(base, gone)
            /\ mem' = [mem EXCEPT !.ids = RemoveCredential(@, gone)]
            /\ toRemove' = {}
         \/ /\ \E n \in 1 .. Len(pruned) : store' = pruned[n]
            /\ mem' = Off
            /\ toRemove' = toRemove
         \/ /\ ~PruneFails(store, toRemove)
            /\ \E some \in SUBSET gone : store' = DeleteByCredential(base, some)
            /\ mem' = Off
            /\ toRemove' = toRemove
      /\ usage' = usage /\ fresh' = fresh /\ bound' = bound
    BY <1>1 DEF DeleteKeyPackages
<1>3. /\ GoodStore(store, usage, fresh.cert) /\ Kept(store, toRemove) /\ Keyed(store) /\ store \in Stores
      /\ mem.ids[sc] = Mirror(store) /\ mem.ids \in [Schemes -> Seq(Bundles(key, now))]
    BY <1>1, <1>2, StoreTyped DEF IdentityInv, Loaded
<1>4. /\ pruned \in Seq(Stores)
      /\ \A n \in 1 .. Len(pruned) : Pruned(store, pruned[n])
      /\ Pruned(store, base)
      /\ ~PruneFails(store, toRemove) => \A r \in ToSet(base.kps) : r.id \notin store.expired \cup toRemove
    BY <1>3, PruneTrail
<1>5. StoreOK(base, key, kp, now)
    BY TypeParts, PruneOK
<1> HIDE DEF pruned, base
<1>6. ~PruneFails(store, toRemove) => \A r \in ToSet(base.kps) : r.id \notin toRemove
    BY <1>4
<1>7. /\ base.creds = store.creds /\ base.keys = store.keys /\ GoodStore(base, usage, fresh.cert)
      /\ Keyed(base) /\ Mirror(base) = Mirror(store) /\ base \in Stores
    <2>1. base.creds = store.creds /\ base.keys = store.keys /\ base \in Stores
        BY <1>4 DEF Pruned, SameIdentity
    <2>2. GoodStore(base, usage, fresh.cert)
        BY <1>3, <1>4, PrunedGood
    <2> QED BY <1>3, <2>1, <2>2, SameClient
<1> HIDE DEF gone, key, kp
<1>8. ASSUME NEW some, some \subseteq gone, ~PruneFails(store, toRemove)
      PROVE  LET s == DeleteByCredential(base, some)
             IN  /\ s \in Stores /\ s.keys = base.keys
                 /\ s.creds = Keep(base.creds, {r \in ToSet(base.creds) : r.val.cred \notin some})
                 /\ GoodStore(s, usage, fresh.cert) /\ Keyed(s)
                 /\ ToSet(s.creds) # {}
                 /\ Kept(s, toRemove)
    <2> DEFINE s == DeleteByCredential(base, some)
    <2>1. /\ Unused(base, some)
          /\ \E r \in ToSet(base.creds) : r.val.cred \notin some /\ \A q \in ToSet(base.kps) : q.id \in toRemove => q.val.cred # r.val.cred
        BY <1>2, <1>4, <1>6, <1>8, AbandonedUnused DEF gone
    <2>2. /\ s \in Stores /\ s.keys = base.keys /\ s.kps = base.kps
          /\ s.creds = Keep(base.creds, {r \in ToSet(base.creds) : r.val.cred \notin some})
          /\ GoodStore(s, usage, fresh.cert)
          /\ Keyed(base) => Keyed(s)
          /\ \A r \in ToSet(base.creds) : r.val.cred \notin some => r \in ToSet(s.creds)
          /\ ToSet(s.creds) # {}
        BY <1>5, <1>7, <2>1, DeletedGood
    <2> HIDE DEF s
    <2>3. Kept(s, toRemove)
        BY <2>1, <2>2 DEF Kept
    <2> QED BY <1>7, <2>2, <2>3 DEF s
<1>9. fresh'.cert = fresh.cert
    BY <1>2
<1>10. CASE ~PruneFails(store, toRemove) /\ store' = DeleteByCredential(base, gone) /\ mem' = [mem EXCEPT !.ids = RemoveCredential(@, gone)] /\ toRemove' = {}
    <2>1. /\ store' \in Stores /\ store'.keys = base.keys
          /\ store'.creds = Keep(base.creds, {r \in ToSet(base.creds) : r.val.cred \notin gone})
          /\ GoodStore(store', usage, fresh.cert) /\ Keyed(store')
          /\ ToSet(store'.creds) # {}
        BY <1>8, <1>10
    <2>2. RemoveCredential(mem.ids, gone)[sc] = Mirror(store')
        <3>1. sc \in Schemes /\ mem.ids[sc] = Mirror(base)
            BY <1>1, <1>3, <1>7
        <3> DEFINE s == store'
        <3> HIDE DEF s
        <3>2. s \in Stores /\ s.keys = base.keys /\ s.creds = Remaining(base, gone)
            BY <2>1 DEF s, Remaining
        <3>3. RemoveCredential(mem.ids, gone)[sc] = Mirror(s)
            <4>1. mem.ids \in [Schemes -> Seq(Bundles(key, now))] /\ base \in Stores
                BY <1>3, <1>7
            <4> QED BY <3>1, <3>2, <4>1, MirrorKept
        <3> QED BY <3>3 DEF s
    <2>3. mem'.ids = RemoveCredential(mem.ids, gone)
        BY <1>10, TypeParts DEF MemOK
    <2>4. Loaded(mem', store')
        BY <1>1, <2>1, <2>2, <2>3 DEF Loaded
    <2>5. Kept(store', toRemove')
        BY <1>10 DEF Kept
    <2> QED BY <1>2, <1>9, <2>1, <2>4, <2>5, IdentityStep
<1>11. CASE (\E n \in 1 .. Len(pruned) : store' = pruned[n]) /\ mem' = Off /\ toRemove' = toRemove
    <2>1. Pruned(store, store')
        BY <1>4, <1>11
    <2>2. GoodStore(store', usage, fresh.cert) /\ Kept(store', toRemove)
        BY <1>3, <2>1, PrunedGood
    <2>3. Keyed(store')
        BY <1>3, <2>1, SameClient DEF Pruned, SameIdentity
    <2> QED BY <1>2, <1>9, <1>11, <2>2, <2>3, OffLoaded, IdentityStep
<1>12. CASE ~PruneFails(store, toRemove) /\ (\E some \in SUBSET gone : store' = DeleteByCredential(base, some)) /\ mem' = Off /\ toRemove' = toRemove
    <2>1. PICK some \in SUBSET gone : store' = DeleteByCredential(base, some)
        BY <1>12
    <2>2. GoodStore(store', usage, fresh.cert) /\ Keyed(store') /\ Kept(store', toRemove)
        BY <1>8, <1>12, <2>1
    <2> QED BY <1>2, <1>9, <1>12, <2>2, OffLoaded, IdentityStep
<1>13. CASE store' = base /\ mem' = mem /\ (toRemove' = {} \/ toRemove' = toRemove)
    <2>1. GoodStore(store', usage, fresh.cert) /\ Kept(store', toRemove) /\ Keyed(store')
        BY <1>3, <1>4, <1>7, <1>13, PrunedGood
    <2>2. Kept(store', toRemove')
        BY <1>13, <2>1 DEF Kept
    <2>3. Loaded(mem', store')
        <3>1. store'.creds = store.creds /\ store'.keys = store.keys /\ Loaded(mem, store)
            BY <1>7, <1>13 DEF IdentityInv
        <3> QED BY <1>13, <3>1, SameClient
    <2> QED BY <1>2, <1>9, <2>1, <2>2, <2>3, IdentityStep
<1> QED BY <1>2, <1>10, <1>11, <1>12, <1>13

\* A key package expires.
LEMMA ExpireIdentity ==
    ASSUME TypeInv, IdentityInv, NEW i \in 1 .. Len(store.kps), Expire(i)
    PROVE  IdentityInv'
<1>1. /\ store' = [store EXCEPT !.expired = @ \cup {store.kps[i].id}]
      /\ mem' = mem /\ toRemove' = toRemove /\ usage' = usage /\ fresh' = fresh /\ bound' = bound
    BY DEF Expire
<1>2. /\ store'.creds = store.creds /\ store'.keys = store.keys /\ store'.kps = store.kps
      /\ store'.hpke = store.hpke /\ store'.enc = store.enc /\ store'.groups = store.groups
    BY <1>1, StoreTyped DEF Stores
<1>3. /\ GoodStore(store, usage, fresh.cert) /\ Kept(store, toRemove) /\ Loaded(mem, store)
      /\ bound => Keyed(store)
    BY DEF IdentityInv
<1>4. Alive(store') => Keyed(store)
    BY <1>2, <1>3 DEF GoodStore, Alive
<1>5. /\ \A r \in ToSet(store'.kps) : LeafKnown(store, r.val)
      /\ \A g \in Groups : store'.groups[g] # None =>
            /\ LeafKnown(store, store'.groups[g].leaf)
            /\ store'.groups[g].pending # None => LeafKnown(store, store'.groups[g].pending)
    BY <1>2, <1>3 DEF GoodStore, LeavesKnown
<1>6. GoodStore(store', usage, fresh.cert)
    BY <1>2, <1>3, <1>4, <1>5, GoodSame
<1>7. Kept(store', toRemove)
    BY <1>2, <1>3 DEF Kept
<1>8. Loaded(mem, store') /\ (bound => Keyed(store'))
    BY <1>2, <1>3, SameClient
<1> QED BY <1>1, <1>6, <1>7, <1>8, IdentityStep

\* The empty store.
LEMMA InitIdentity == ClientInit => IdentityInv
<1> SUFFICES ASSUME ClientInit PROVE IdentityInv
    OBVIOUS
<1>1. store = [creds |-> << >>, keys |-> << >>, kps |-> << >>, hpke |-> {}, enc |-> {},
                expired |-> {}, groups |-> [g \in Groups |-> None]]
    BY DEF ClientInit
<1>2. mem = Off /\ toRemove = {} /\ bound = FALSE
    BY DEF ClientInit
<1>3. store.creds = << >> /\ store.keys = << >> /\ store.kps = << >> /\ ToSet(<< >>) = {} /\ \A g \in Groups : store.groups[g] = None
    BY <1>1 DEF ToSet
<1>4. CertsAscend(store.creds, fresh.cert)
    BY <1>3 DEF CertsAscend
<1>5. ~Alive(store) /\ LeavesKnown(store)
    BY <1>3 DEF Alive, LeavesKnown
<1>6. Begun(store, usage)
    BY <1>3 DEF Begun
<1>7. GoodStore(store, usage, fresh.cert)
    BY <1>4, <1>5, <1>6 DEF GoodStore
<1>8. Kept(store, toRemove) /\ Loaded(mem, store)
    BY <1>2, OffLoaded DEF Kept
<1> QED BY <1>2, <1>7, <1>8 DEF IdentityInv

\* One step.
LEMMA NextIdentity ==
    ASSUME Scope, TypeInv, IdentityInv, [ClientNext]_clientVars
    PROVE  IdentityInv'
<1>1. CASE UNCHANGED clientVars
    BY <1>1 DEF clientVars, IdentityInv
<1>2. CASE \E order \in SetToSeqs(Schemes), type \in Types : InitGenerate(type, order)
    BY <1>2, InitGenerateIdentity
<1>3. CASE \E order \in SetToSeqs(Schemes) : InitLoad(order)
    BY <1>3, InitLoadIdentity
<1>4. CASE \E order \in SetToSeqs(Schemes) : GenerateRawKeypairs(order)
    BY <1>4, GenerateRawKeypairsIdentity
<1>5. CASE InitExternal
    BY <1>5, InitExternalIdentity
<1>6. CASE \E sc \in Schemes, type \in Types : RequestKeyPackages(sc, type)
    BY <1>6, RequestKeyPackagesIdentity
<1>7. CASE \E g \in Groups, sc \in Schemes, type \in Types : NewConversation(g, sc, type)
    BY <1>7, NewConversationIdentity
<1>8. CASE \E g \in Groups, i \in 1 .. Len(store.kps) : JoinConversation(g, i)
    BY <1>8, JoinConversationIdentity
<1>9. CASE \E g \in Groups : OrdinaryCommit(g) \/ CommitAccepted(g) \/ ClearPendingCommit(g)
    BY <1>9, CommitsIdentity
<1>12. CASE \E sc \in Schemes, type \in Types, order \in SetToSeqs({g \in Groups : Member(g)}) : RotateAll(sc, type, order)
    BY <1>12, RotateAllIdentity
<1>13. CASE DeleteKeyPackages
    BY <1>13, DeleteKeyPackagesIdentity
<1>14. CASE Tick
    BY <1>14 DEF Tick, IdentityInv
<1>15. CASE \E i \in 1 .. Len(store.kps) : Expire(i)
    BY <1>15, ExpireIdentity
<1>16. CASE Crash
    <2>1. mem' = Off /\ store' = store /\ toRemove' = toRemove /\ usage' = usage /\ fresh' = fresh /\ bound' = bound
        BY <1>16 DEF Crash
    <2> QED BY <2>1, OffLoaded DEF IdentityInv
<1> QED BY <1>1, <1>2, <1>3, <1>4, <1>5, <1>6, <1>7, <1>8, <1>9, <1>12, <1>13, <1>14, <1>15, <1>16 DEF ClientNext

\* What a running client's bundles are.
LEMMA RunningClient ==
    ASSUME TypeInv, IdentityInv, mem.on
    PROVE  /\ mem.ids \in [Schemes -> Seq(Bundles(fresh.key, now))]
           /\ \A sc \in Schemes : mem.ids[sc] = Mirror(store)
           /\ store \in Stores /\ fresh.cert \in Nat /\ CertsAscend(store.creds, fresh.cert)
           /\ LeavesKnown(store)
    BY StoreTyped DEF IdentityInv, Loaded, GoodStore

\* The invariant and what the runs check.
LEMMA IdentitySignable == TypeInv /\ IdentityInv => GroupsSignable
<1> SUFFICES ASSUME TypeInv, IdentityInv, mem.on, NEW g \in Groups, Member(g)
             PROVE  /\ Signs(mem.ids, store.groups[g].scheme, store.groups[g].leaf)
                    /\ store.groups[g].pending # None => Signs(mem.ids, store.groups[g].scheme, store.groups[g].pending)
    BY DEF GroupsSignable
<1> DEFINE sc == store.groups[g].scheme
<1>1. sc \in Schemes
    BY GroupAt
<1>2. /\ LeafKnown(store, store.groups[g].leaf)
      /\ store.groups[g].pending # None => LeafKnown(store, store.groups[g].pending)
    BY RunningClient DEF LeavesKnown, Member
<1>3. mem.ids \in [Schemes -> Seq(Bundles(fresh.key, now))] /\ mem.ids[sc] = Mirror(store) /\ store \in Stores
    BY <1>1, RunningClient
<1> HIDE DEF sc
<1>4. Signs(mem.ids, sc, store.groups[g].leaf)
    BY <1>1, <1>2, <1>3, SignsMirror
<1>5. store.groups[g].pending # None => Signs(mem.ids, sc, store.groups[g].pending)
    BY <1>1, <1>2, <1>3, SignsMirror
<1> QED BY <1>4, <1>5 DEF sc

\* Every key package has its private keys, and its leaf a bundle.
LEMMA IdentityOwned == TypeInv /\ IdentityInv => KeyPackagesOwned
<1> SUFFICES ASSUME TypeInv, IdentityInv, mem.on, NEW r \in ToSet(store.kps)
             PROVE  \E b \in ToSet(mem.ids[r.val.scheme]) : Leaf(b) = Leaf(r.val)
    BY DEF KeyPackagesOwned
<1>1. r.val.scheme \in Schemes
    <2>1. store.kps \in Seq(KpRow)
        BY StoreTyped DEF Stores
    <2>2. r \in KpRow
        BY <2>1, SetOfSeq
    <2> QED BY <2>2 DEF KpRow, KpValue
<1>2. mem.ids[r.val.scheme] = Mirror(store) /\ LeafKnown(store, r.val) /\ store \in Stores
    BY <1>1, RunningClient DEF LeavesKnown
<1>3. PICK q \in ToSet(store.creds) : q.val.cred = r.val.cred
    BY <1>2 DEF LeafKnown, HasCred
<1>4. PICK b \in ToSet(Mirror(store)) : b.cred = q.val.cred /\ b.pk = store.keys[1].id
    BY <1>2, Mirrored
<1>5. Leaf(b) = Leaf(r.val)
    BY <1>2, <1>3, <1>4 DEF Leaf, LeafKnown
<1> QED BY <1>2, <1>5

\* The bundles are in the order of the certificates.
LEMMA IdentityNewest == TypeInv /\ IdentityInv => NewestCertificateUsed
<1> SUFFICES ASSUME TypeInv, IdentityInv, mem.on, NEW sc \in Schemes, HasBundle(mem.ids, sc, "x509"), NEW r \in ToSet(store.creds)
             PROVE  r.val.cred.cert <= MostRecent(mem.ids, sc, "x509").cred.cert
    BY DEF NewestCertificateUsed
<1>1. /\ mem.ids \in [Schemes -> Seq(Bundles(fresh.key, now))] /\ mem.ids[sc] = Mirror(store) /\ store \in Stores
      /\ fresh.cert \in Nat /\ CertsAscend(store.creds, fresh.cert)
    BY RunningClient
<1> QED BY <1>1, NewestMirror

\* A load finds the first key and refuses no credential.
LEMMA IdentityRestarts ==
    ASSUME Scope, TypeInv, IdentityInv
    PROVE  Restartable
<1> SUFFICES ASSUME bound, usage # "external"
             PROVE  \E order \in SetToSeqs(Schemes) :
                       LET loaded == Load(store, order, fresh.key)
                       IN  /\ loaded.ok
                           /\ \A g \in Groups : Member(g) =>
                                 Signs(loaded.ids, store.groups[g].scheme, store.groups[g].leaf)
    BY DEF Restartable
<1>1. PICK sc : Schemes = {sc} /\ Platform = "generic"
    BY DEF Scope, OneScheme
<1> DEFINE order == <<sc>>
           l == Load(store, order, fresh.key)
<1>2. order \in SetToSeqs(Schemes)
    BY <1>1, OneOrder
<1> HIDE DEF order
<1>3. LoadedFrom(l, store, fresh.key, sc)
    BY <1>1, <1>2, TypeParts, LoadOne
<1>4. l.ids \in [Schemes -> Seq(Bundles(l.next, now))]
    <2>1. order \in Seq(Schemes)
        BY <1>1, <1>2, OneOrder
    <2>2. LoadOK(l, fresh.key, now)
        BY <2>1, TypeParts, LoadAllOK
    <2> HIDE DEF l
    <2> QED BY <2>2 DEF LoadOK
<1> HIDE DEF l
<1>5. Keyed(store) /\ GoodStore(store, usage, fresh.cert) /\ store \in Stores
    BY StoreTyped DEF IdentityInv
<1>6. l.keys = store.keys
    BY <1>3, <1>5 DEF LoadedFrom, Keyed
<1>7. l.ids[sc] = Mirror(store)
    <2>1. [store EXCEPT !.keys = l.keys] = store
        BY <1>5, <1>6 DEF Stores
    <2> QED BY <1>3, <2>1 DEF LoadedFrom
<1>8. l.ok = TRUE
    <2>1. \A r \in ToSet(store.creds) : r.val.cred.name = Me /\ (r.val.cred.type = "x509" => r.val.cred.pk = l.keys[1].id)
        BY <1>5, <1>6 DEF GoodStore, Begun, Keyed
    <2>2. \A i, j \in 1 .. Len(store.creds) : i < j => store.creds[i].val.cred # store.creds[j].val.cred
        <3> SUFFICES ASSUME NEW i \in 1 .. Len(store.creds), NEW j \in 1 .. Len(store.creds), i < j
                     PROVE  store.creds[i].val.cred # store.creds[j].val.cred
            OBVIOUS
        <3>1. store.creds[i].val.cred.cert < store.creds[j].val.cred.cert
            BY <1>5 DEF GoodStore, CertsAscend
        <3>2. store.creds[i].val.cred.cert \in Nat
            BY <1>5, StoredCerts
        <3> QED BY <3>1, <3>2
    <2> QED BY <1>3, <2>1, <2>2 DEF LoadedFrom
<1>9. ASSUME NEW g \in Groups, Member(g) PROVE Signs(l.ids, store.groups[g].scheme, store.groups[g].leaf)
    <2>1. store.groups[g].scheme \in Schemes
        BY <1>9, GroupAt
    <2>2. LeafKnown(store, store.groups[g].leaf)
        BY <1>5, <1>9 DEF GoodStore, LeavesKnown, Member
    <2>3. l.ids[store.groups[g].scheme] = Mirror(store)
        BY <1>1, <1>7, <2>1
    <2> QED BY <1>4, <1>5, <2>1, <2>2, <2>3, SignsMirror
<1> QED BY <1>2, <1>8, <1>9 DEF l

\* The invariant of a client with one scheme.
LEMMA IdentityInvariant == Scope => (ClientSpec => [](TypeInv /\ IdentityInv))
<1> SUFFICES ASSUME Scope PROVE ClientSpec => [](TypeInv /\ IdentityInv)
    OBVIOUS
<1>1. ClientInit => TypeInv /\ IdentityInv
    BY InitType, InitIdentity
<1>2. TypeInv /\ IdentityInv /\ [ClientNext]_clientVars => TypeInv' /\ IdentityInv'
    BY NextType, NextIdentity
<1> QED BY <1>1, <1>2, PTL DEF ClientSpec

\* On SQLCipher, with one scheme and an application that keeps the old key
\* packages until no conversation uses their credential: a running client can
\* sign in every conversation it is a member of, before, during and after the
\* rotation of its credential, for any number of conversations, certificates
\* and restarts, and wherever a call was cut short.
THEOREM SignsInEveryGroup == Scope => (ClientSpec => []GroupsSignable)
<1>1. TypeInv /\ IdentityInv => GroupsSignable
    BY IdentitySignable
<1> SUFFICES ASSUME Scope PROVE ClientSpec => []GroupsSignable
    OBVIOUS
<1>2. ClientSpec => [](TypeInv /\ IdentityInv)
    BY IdentityInvariant
<1> QED BY <1>1, <1>2, PTL

\* There, once an init has succeeded the next one does, whenever the application
\* dies, and it finds the signature key of every conversation.
THEOREM RestartsAfterCrash == Scope => (ClientSpec => []Restartable)
<1> SUFFICES ASSUME Scope PROVE ClientSpec => []Restartable
    OBVIOUS
<1>1. TypeInv /\ IdentityInv => Restartable
    BY IdentityRestarts
<1>2. ClientSpec => [](TypeInv /\ IdentityInv)
    BY IdentityInvariant
<1> QED BY <1>1, <1>2, PTL

\* There, a running client has the bundle of every key package it can be invited
\* with, through rotations, deletions that fail half-way, and restarts.
THEOREM PackagesStayOwned == Scope => (ClientSpec => []KeyPackagesOwned)
<1>1. TypeInv /\ IdentityInv => KeyPackagesOwned
    BY IdentityOwned
<1> SUFFICES ASSUME Scope PROVE ClientSpec => []KeyPackagesOwned
    OBVIOUS
<1>2. ClientSpec => [](TypeInv /\ IdentityInv)
    BY IdentityInvariant
<1> QED BY <1>1, <1>2, PTL

\* There, the most recent X509 bundle is for the last certificate that is stored,
\* restarts and certificates of the same second included.
THEOREM UsesNewestCertificate == Scope => (ClientSpec => []NewestCertificateUsed)
<1>1. TypeInv /\ IdentityInv => NewestCertificateUsed
    BY IdentityNewest
<1> SUFFICES ASSUME Scope PROVE ClientSpec => []NewestCertificateUsed
    OBVIOUS
<1>2. ClientSpec => [](TypeInv /\ IdentityInv)
    BY IdentityInvariant
<1> QED BY <1>1, <1>2, PTL

=============================================================================
