CONSTANTS
    Procs = {server}
    Jobs = {j1, j2, j3}
    Layers = 1
    Rest = 1
    MaxHangs = 1
    MaxLosses = 1
    None = none
SPECIFICATION FairSpec
PROPERTIES
    NightlyIsAttempted
