CONSTANTS
    Msgs = {m1}
    Writers = {w1, w2}
    Jobs = {nightly, cli}
    Nightly = nightly
    Configs = {c1, c2}
    None = none
    Kinds = {"hook", "direct", "park", "service"}
    Faults = {}
    MaxDeaths = 1
SPECIFICATION Spec
INVARIANTS
    TypeOK
    
    
    OneWriterAtATime
SYMMETRY Alike
