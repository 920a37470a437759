CONSTANTS
    Procs = {server, twin}
    Jobs = {j1, j2}
    Layers = 1
    Rest = 1
    MaxHangs = 1
    MaxLosses = 1
    None = none
SPECIFICATION Spec
INVARIANTS
    TypeOK
    NightlyWorkHoldsTheBase
PROPERTIES
    PassesDoNotStack
SYMMETRY Alike
