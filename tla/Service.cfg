SPECIFICATION Spec
CONSTANTS
    Foci = {"connections", "sagas", "sagalog", "embeddings", "tools", "assembly", "retrieval", "expansion", "backups", "toolbackups", "housekeeping", "admission", "stash", "projects", "deliveries", "sessions", "daemon", "versions", "edits", "secrets", "imports"}
    None = None  Idle = Idle  Unwritten = Unwritten  Gone = Gone  Whole = Whole  Torn = Torn  NoFile = NoFile
    Tasks = {p, q}  Dirs = {t, u}  MaxOpens = 3  MaxMoves = 1
    Length = 3  Compensable = {1, 2, 3}  Keyed = {1, 2}  Retries = 1  MaxCrashes = 2  MaxRuns = 2  MaxKills = 1  MaxAge = 1
    Callers = {p, q}  Texts = {t, u}  Threshold = 2  Recovery = 1  MaxFailures = 2  MaxModes = 1
    Contents = {t}  Limit = 2  RateWindow = 2  DedupWindow = 2  PerUser = 1  MaxSeconds = 3  MaxCalls = 2
    Keys = {p}  Values = {t, u}  MaxClock = 2
    Slips = {p, q}  Notes = {t}  RingSize = 2  SaveEvery = 2  MaxMessages = 3  MaxFaults = 2
    Msgs = {p, q}  Sayings = {t}  Foreign = {}  MaxTime = 1  Lag = 0
    MaxLedger = 3
    Counts = {0, 1}  MaxDispatched = 2  MaxMarks = 1
    MaxSeeds = 2  ImportBatch = 2
    p = p  q = q  r = r  t = t  u = u  v = v
INVARIANT TypesOK
INVARIANT AdmittedOnce
INVARIANT CopiesSurvive
INVARIANT CachesAreHonest
 
 
 
PROPERTY HealthyHandlesSurvive
PROPERTY FirstClaimStands
CHECK_DEADLOCK FALSE
