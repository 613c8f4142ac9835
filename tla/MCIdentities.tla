---------------------------- MODULE MCIdentities ----------------------------
EXTENDS Identities

\* Two devices of one user and one of another.
MCUserOf == [d \in {"alice_android", "alice_ios", "bob_android"} |->
               IF d = "bob_android" THEN "bob" ELSE "alice"]

=============================================================================
