CONSTANTS
    Procs = {server}
    Jobs = {j1, j2, j3}
    Layers = 1
    Rest = 1
    MaxHangs = 0
    MaxLosses = 0
    None = none
SPECIFICATION Spec
INVARIANTS
    CarriedLockIsHandedBack
