CONSTANTS
    Msgs = {m1}
    Writers = {w1}
    Jobs = {nightly, cli}
    Nightly = nightly
    Configs = {c1}
    None = none
    Kinds = {"hook", "direct", "service"}
    Faults = {"partial"}
    MaxDeaths = 1
SPECIFICATION FairSpec
PROPERTIES
    ReceivedIsClosed
    UnaccountedIsRescued
