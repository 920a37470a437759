SPECIFICATION FairSpec
CONSTANTS
    Foci = {"graph", "wiki", "sweep", "storage", "vectors"}
    None = None  Idle = Idle  Queued = Queued
    p = p  q = q  r = r  t = t  u = u  v = v  w = w
PROPERTY PassesGetThere
CHECK_DEADLOCK FALSE
