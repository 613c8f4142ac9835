------------------------------ MODULE MCClient ------------------------------
EXTENDS Client, TLC

\* Conversations and schemes are interchangeable.
Symmetry == Permutations(Groups) \cup Permutations(Schemes)

\* Key packages of which a crash has left some rows, and not all three.
Torn ==
    LET refs == {r.id : r \in ToSet(store.kps)}
    IN  (refs \cup store.hpke \cup store.enc) \ (refs \cap store.hpke \cap store.enc)

\* The clock runs once there is a certificate, whose order is what it decides;
\* one key package is expired at a time, and one is torn.
InBounds ==
    /\ now > 0 => fresh.cert > 1
    /\ Cardinality(store.expired) <= 1
    /\ Cardinality(Torn) <= 1

=============================================================================
