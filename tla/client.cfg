SPECIFICATION ClientSpec
CONSTANTS
    Platform = "generic"
    Tasks = {}
    Schemes = {ed25519}
    Groups = {g1, g2}
    Usages = {"careful", "external"}
    None = None
    NbKeyPackages = 1
    MaxKeys = 2
    MaxCerts = 2
    MaxKeyPackages = 3
    MaxTime = 1
SYMMETRY Symmetry
CONSTRAINT InBounds
CHECK_DEADLOCK FALSE
INVARIANTS
    ClientTypeOK
    GroupsSignable
    Restartable
    KeyPackagesOwned
    NewestCertificateUsed
PROPERTIES
    KeyPackagesUsable
