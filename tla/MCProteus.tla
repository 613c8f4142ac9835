----------------------------- MODULE MCProteus ------------------------------
\* The instances of Proteus that TLC checks.
EXTENDS Proteus, TLC

Symmetry == Permutations(Ids)

=============================================================================
