------------------------------- MODULE MCLives ------------------------------
(* The passes that must get somewhere in the end: the sanitation of the     *)
(* graph, the wiki's re-index, the leader's periodic sweep, the storage     *)
(* pass and the breaker before the embeddings.  `focus` names the component *)
(* that runs; the others stay where they began.                             *)
EXTENDS Naturals

CONSTANTS Foci, \* the components this run looks at
          None, Idle, Queued,
          p, q, r, t, u, v, w \* anything a component needs names for

VARIABLES focus,
    nodes, edges, lastId, passG, wirer, journal, count,
    files, index, links, archive, chunked, job, cron, second, calls, crashes,
    role, tick, outside, staging, buffer, kept, episodes, faults,
    wal, dead, reader, stepping, passH, refused, total, pruner, audit, archiver,
    mode, up, breaker, cache, call, failures, modes

graph == <<nodes, edges, lastId, passG, wirer, journal, count>>
wiki == <<files, index, links, archive, chunked, job, cron, second, calls, crashes>>
sweep == <<role, tick, outside, staging, buffer, kept, episodes, faults>>
storage == <<wal, dead, reader, stepping, passH, refused, total, pruner, audit, archiver>>
vectors == <<mode, up, breaker, cache, call, failures, modes>>
vars == <<focus, graph, wiki, sweep, storage, vectors>>

------------------------------------------------------------------------------
Graph == INSTANCE Graph WITH
    pass <- passG,
    Facts <- {t, u, w}, Junk <- {u}, Sourced <- {t}, AnchorLike <- {w},
    Alike <- [x \in {t, u, w} |-> [y \in {t, u, w} |-> IF {x, y} = {t, u} THEN 1 ELSE IF {x, y} = {t, w} THEN 3 ELSE 0]],
    TopK <- 1, InsightMax <- 1, Community <- 2, MaxId <- 3, MinesPerPass <- 1,
    Miners <- {"embedding"}, MaxNights <- 2, MaxCalls <- 1

Wiki == INSTANCE Wiki WITH
    Callers <- {1, 2}, Pages <- {p, r}, Texts <- {t}, Hub <- r, HubText <- v, Facts <- {p}, FactText <- w,
    Mentions <- [x \in {t, v, w} |-> IF x = t THEN {p} ELSE {}],
    HubFloor <- 1, MaxCalls <- 2, MaxCrashes <- 1, MaxSeconds <- 0

Sweep == INSTANCE Sweep WITH
    Servers <- {1, 2}, Layers <- {p, q}, Items <- {}, Ephemeral <- {}, Window <- 1, MaxEpisodes <- 2,
    MaxStops <- 1, MaxFaults <- 0

Housekeeping == INSTANCE Housekeeping WITH
    pass <- passH,
    MaxLog <- 2, Attempts <- 2, MaxRows <- 1, Batch <- 1, MaxRefused <- 1, Entries <- {p}

Embeddings == INSTANCE Embeddings WITH
    Callers <- {1, 2}, Texts <- {t}, Threshold <- 2, Recovery <- 1, MaxFailures <- 2, MaxModes <- 1

------------------------------------------------------------------------------
Init ==
    /\ focus \in Foci
    /\ Graph!Init /\ Wiki!Init /\ Sweep!Init /\ Housekeeping!Init /\ Embeddings!Init
    /\ focus # "sweep" => staging \* where the choice plays no part
    /\ focus # "vectors" => mode = "model"

OfGraph == focus = "graph" /\ UNCHANGED <<focus, wiki, sweep, storage, vectors>>
OfWiki == focus = "wiki" /\ UNCHANGED <<focus, graph, sweep, storage, vectors>>
OfSweep == focus = "sweep" /\ UNCHANGED <<focus, graph, wiki, storage, vectors>>
OfStorage == focus = "storage" /\ UNCHANGED <<focus, graph, wiki, sweep, vectors>>
OfVectors == focus = "vectors" /\ UNCHANGED <<focus, graph, wiki, sweep, storage>>

Next ==
    \/ OfGraph /\ Graph!Next
    \/ OfWiki /\ Wiki!Next
    \/ OfSweep /\ Sweep!Next
    \/ OfStorage /\ Housekeeping!Next
    \/ OfVectors /\ Embeddings!Next

\* The fairness of each component's FairSpec.
Fairness ==
    /\ WF_vars(OfGraph /\ Graph!Sweep)
    /\ WF_vars(OfWiki /\ Wiki!Reindex)
    /\ \A x \in {p, r} : WF_vars(OfWiki /\ Wiki!ReadFile(x)) /\ WF_vars(OfWiki /\ Wiki!IndexFile(x))
    /\ \A s \in {1, 2} : WF_vars(OfSweep /\ Sweep!Claim(s))
    /\ WF_vars(OfSweep /\ Sweep!OthersFinish) /\ SF_vars(OfSweep /\ Sweep!Wake) /\ WF_vars(OfSweep /\ Sweep!Tick)
    /\ WF_vars(OfStorage /\ Housekeeping!Pass)
    /\ WF_vars(OfVectors /\ Embeddings!Tick)
    /\ \A c \in {1, 2} :
        /\ WF_vars(OfVectors /\ Embeddings!Ask(c))
        /\ WF_vars(OfVectors /\ (Embeddings!Answer(c) \/ Embeddings!Fails(c)))
        /\ WF_vars(OfVectors /\ (Embeddings!StoreModel(c) \/ Embeddings!StoreHash(c)))

FairSpec == Init /\ [][Next]_vars /\ Fairness

------------------------------------------------------------------------------
(* Properties *)

\* Every pass gets there, whatever it is interrupted by: a dangling edge left by
\* a late writer is swept (lifecycle/graph_sanitation.py), a text on disk becomes
\* the text the wiki's index searches, although the call that wrote it died
\* (wiki/manager.py), a heavy episode is judged while servers come and go
\* (mcp_server/lifespan.py, lifecycle/consolidation.py), a write-ahead log is
\* given back once readers stay away (features/db_maintenance.py), and a backend that
\* stays up closes its breaker for good (shared/embeddings.py).
PassesGetThere ==
    /\ Graph!DustIsSwept
    /\ Wiki!EveryTextIsSearched
    /\ Sweep!EveryEpisodeIsJudged
    /\ Housekeeping!SpaceComesBack
    /\ Embeddings!RecoveryIsNoticed
=============================================================================
