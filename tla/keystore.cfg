SPECIFICATION BackendsSpec
CONSTANTS
    Keys = {k1, k2, k3}
    Values = {v1, v2}
    Missing = Missing
    CheckedTables <- MCTables
    MaxRows = 3
INVARIANTS
    BackendsTypeOK
    BackendsAgree
PROPERTIES
    SqlIsKeyed
