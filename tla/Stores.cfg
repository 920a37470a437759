SPECIFICATION Spec
CONSTANTS
    Foci = {"staging", "memories", "overwrites", "graph", "migration", "repairs", "disturbed", "wiki", "sweep", "rescore", "gaps", "conflicts"}
    None = None  Idle = Idle  Queued = Queued
    p = p  q = q  r = r  t = t  u = u  v = v  w = w
    Keys = {p}  Values = {v}  Low = {}  Deciders = {t, u}  MaxProposals = 2  ExpireDays = 2  PurgeAfterDays = 0
    Topics = {p}  Exempt = {}  MaxIds = 2
    Nodes = {p, q}  Migrations = {t, u}  Evident = {p}  Edges = {{p, q}}  Spared = {q}
    FactKeys = {1, 2}  EpisodeIds = {11, 12}  JournalRows = {21}  Passages = {t, u}  JunkPassages = {u}
    Callers = {p, q}  Pages = {p, q, r}  PageTexts = {t}  MaxSeconds = 1
    Servers = {p, q}  SweptLayers = {p, q}  Items = {t, u}  Fleeting = {u}
    Statements = {t, u, v, w}  Silent = {w}  Related = {{t, u}, {t, v}}  Close = {{t, u}}  Resolvers = {p, q}  MaxRows = 3
    Users = {p, q}  AskedTexts = {t}  Builds = {u, v}  MaxGaps = 2  MaxCount = 2  Window = 1
INVARIANT TypesOK
INVARIANT MemoriesAreKept
INVARIANT OneOfEach
 
INVARIANT RepairsConverge
PROPERTY LossesAreFiled
 
CHECK_DEADLOCK FALSE
