---------------------------- MODULE MCEnrollment ----------------------------
EXTENDS Enrollment, TLC

CONSTANTS i1, l1, r1, r2

\* An intermediate of one of the roots, and a certificate of the intermediate.
MCIssuerOf == i1 :> r1 @@ l1 :> i1

Symmetry == Permutations(Slots) \cup Permutations(Tasks)

=============================================================================
