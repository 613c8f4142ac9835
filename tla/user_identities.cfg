SPECIFICATION IdentitiesSpec
CONSTANTS
    Devices = {"alice_android", "alice_ios", "bob_android"}
    UserOf <- MCUserOf
    None = None
CHECK_DEADLOCK FALSE
INVARIANT
    AllUserIdentities
