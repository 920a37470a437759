CONSTANTS
    Msgs = {m1}
    Writers = {w1}
    Jobs = {nightly, cli}
    Nightly = nightly
    Configs = {c1}
    None = none
    Kinds = {"hook", "agent", "bridge", "park"}
    Faults = {"backdated", "overlap", "overrun", "partial", "lost_stamp", "busy"}
    MaxDeaths = 1
SPECIFICATION Spec
PROPERTIES
    WrittenRowsStayOut
    ParkedRowsSleep
SYMMETRY Alike
