------------------------------ MODULE MCStores ------------------------------
(* The components that keep, move and mend what was remembered, one behind  *)
(* the other in a single run.  `focus` names the component that runs; its   *)
(* variables stand in the slots s1, s2, ... in the order it declares them,  *)
(* the slots it has no variable for stay 0.  The components share no state  *)
(* here: what composes in the code is composed inside their modules.        *)
EXTENDS Naturals

CONSTANTS Foci, \* the components this run looks at
          None, Idle, Queued,
          p, q, r, t, u, v, w, \* anything a component needs names for
          Keys, Values, Low, Deciders, MaxProposals, ExpireDays, PurgeAfterDays, \* Staging
          Topics, Exempt, MaxIds,                                               \* Memories
          Nodes, Migrations, Evident, Edges, Spared,                            \* LayerMigration
          FactKeys, EpisodeIds, JournalRows, Passages, JunkPassages,            \* Repairs
          Callers, Pages, PageTexts, MaxSeconds,                                \* Wiki
          Servers, SweptLayers, Items, Fleeting,                                \* Sweep
          Statements, Silent, Related, Close, Resolvers, MaxRows,               \* Conflicts
          Users, AskedTexts, Builds, MaxGaps, MaxCount, Window                  \* Gaps

ASSUME StagingAssumption == ExpireDays \in Nat /\ PurgeAfterDays \in Nat /\ None \notin Nat \cup Keys
ASSUME MemoriesAssumption ==
    /\ MaxIds \in Nat
    /\ t \notin Topics \X {v, w}
    /\ None \notin Nat \cup [id : Nat, val : {v, w}, old : BOOLEAN]
                   \cup [id : Nat, kind : {"fact", "episode"}, text : (Topics \X {v, w}) \cup {t}, purged : BOOLEAN]
ASSUME MigrationAssumption == None \notin Migrations
ASSUME RepairsAssumption ==
    /\ FactKeys \cap EpisodeIds = {} /\ FactKeys \subseteq Nat
    /\ None \notin [entry : Nat, value : {v, w}, raw : {"owner", "agent"}, dated : BOOLEAN]
    /\ None \notin [text : Passages, raw : {"none", "owner", "agent"}, dated : BOOLEAN]
ASSUME GapsAssumption == Window \in Nat
ASSUME WikiAssumption == MaxSeconds \in Nat
ASSUME ConflictsAssumption == MaxRows \in Nat /\ None \notin [text : Statements, conflict : BOOLEAN, group : Nat]

VARIABLES focus, s1, s2, s3, s4, s5, s6, s7, s8, s9, s10, s11, s12

slots == <<focus, s1, s2, s3, s4, s5, s6, s7, s8, s9, s10, s11, s12>>

------------------------------------------------------------------------------
Staging == INSTANCE Staging WITH
    rows <- s1, core <- s2, bin <- s3, decider <- s4, denied <- s5,
    Keys <- Keys, Values <- Values, Low <- Low, Deciders <- Deciders, MaxRows <- MaxProposals,
    ExpireDays <- ExpireDays, PurgeAfterDays <- PurgeAfterDays

\* A fact and an episode that fill the bin, and a fact that is overwritten with
\* another text or purged on purpose.
Memories(m) == INSTANCE Memories WITH
    facts <- s1, episodes <- s2, bin <- s3, next <- s4, archiver <- s5, approved <- s6,
    forgetter <- s7, restorer <- s8, memory <- s9,
    Keys <- Topics, Values <- m.values, Protected <- Exempt, Summaries <- m.summaries,
    MaxIds <- MaxIds, MaxBin <- m.bins, MaxPurges <- m.purges

Plain == [values |-> {v}, summaries |-> {t}, bins |-> 2, purges |-> 0]
Overwriting == [values |-> {v, w}, summaries |-> {}, bins |-> 1, purges |-> 1]

Graph == INSTANCE Graph WITH
    nodes <- s1, edges <- s2, lastId <- s3, pass <- s4, wirer <- s5, journal <- s6, count <- s7,
    Facts <- {t, u, w}, Junk <- {u}, Sourced <- {t}, AnchorLike <- {w},
    Alike <- [x \in {t, u, w} |-> [y \in {t, u, w} |-> IF {x, y} = {t, u} THEN 1 ELSE IF {x, y} = {t, w} THEN 3 ELSE 0]],
    TopK <- 1, InsightMax <- 1, Community <- 2, MaxId <- 3, MinesPerPass <- 1,
    Miners <- {"embedding", "tags", "markers"}, MaxNights <- 2, MaxCalls <- 1

LayerMigration == INSTANCE LayerMigration WITH
    base <- s1, manifest <- s2, token <- s3, lock <- s4, run <- s5, snaps <- s6, reports <- s7, commits <- s8, count <- s9,
    Nodes <- Nodes, Runs <- Migrations, Evidence <- [n \in Nodes |-> IF n \in Evident THEN 2 ELSE 1], Linked <- Edges,
    Excluded <- Spared, MaxWrites <- 1, MaxInventories <- 1, MaxReviews <- 2

Repairs(b) == INSTANCE Repairs WITH
    facts <- s1, episodes <- s2, born <- s3, nodes <- s4, journal <- s5, file <- s6, canon <- s7, copies <- s8,
    run <- s9, quiet <- s10, writes <- s11, runs <- s12,
    Keys <- FactKeys, Values <- b.values, Ids <- EpisodeIds, Texts <- Passages, Rows <- JournalRows,
    Junk <- JunkPassages, Sections <- b.sections, MaxWrites <- b.writes, MaxRuns <- b.runs

\* A script that is run again after it was killed, and one that others write
\* against in earnest.
Repeated == [values |-> {v, w}, sections |-> {p, q}, writes |-> 2, runs |-> 2]
Disturbed == [values |-> {v}, sections |-> {p}, writes |-> 3, runs |-> 1]

Wiki == INSTANCE Wiki WITH
    files <- s1, index <- s2, links <- s3, archive <- s4, chunked <- s5, job <- s6, cron <- s7, second <- s8,
    calls <- s9, crashes <- s10,
    Callers <- Callers, Pages <- Pages, Texts <- PageTexts, Hub <- r, HubText <- v, Facts <- {q}, FactText <- w,
    Mentions <- [x \in PageTexts \cup {v, w} |-> IF x \in PageTexts THEN {p} ELSE {}],
    HubFloor <- 2, MaxCalls <- 2, MaxCrashes <- 1, MaxSeconds <- MaxSeconds

Sweep == INSTANCE Sweep WITH
    role <- s1, tick <- s2, outside <- s3, staging <- s4, buffer <- s5, kept <- s6, episodes <- s7, faults <- s8,
    Servers <- Servers, Layers <- SweptLayers, Items <- Items, Ephemeral <- Fleeting, Window <- 1, MaxEpisodes <- 2,
    MaxStops <- 1, MaxFaults <- 0

Rescore == INSTANCE Rescore WITH
    rows <- s1, audit <- s2, locked <- s3, pass <- s4, stats <- s5, before <- s6, saves <- s7, passes <- s8,
    Users <- {p, q}, Rows <- {1, 2, 3}, OwnerOf <- [x \in 1..3 |-> IF x = 3 THEN q ELSE p], Weights <- {1, 2},
    Retries <- 1, Budget <- 1, Failures <- {"busy", "snapshot", "other"}, MaxSaves <- 1, MaxPasses <- 1

Conflicts == INSTANCE Conflicts WITH
    rows <- s1, bin <- s2, resolver <- s3, removed <- s4,
    Texts <- Statements, Benign <- Silent, Related <- Related, Close <- Close, Limit <- 2,
    Resolvers <- Resolvers, MaxRows <- MaxRows

Gaps == INSTANCE Gaps WITH
    rows <- s1, columns <- s2, asked <- s3, empty <- s4, build <- s5,
    Users <- Users, Texts <- AskedTexts, Builds <- Builds, MaxRows <- MaxGaps, MaxCount <- MaxCount, Window <- Window

------------------------------------------------------------------------------
\* The slots behind the first n, when nothing stands in them.
Empty(n) ==
    /\ n < 5 => s5 = 0
    /\ n < 6 => s6 = 0
    /\ n < 7 => s7 = 0
    /\ n < 8 => s8 = 0
    /\ n < 9 => s9 = 0
    /\ n < 10 => s10 = 0
    /\ n < 11 => s11 = 0
    /\ n < 12 => s12 = 0

Keeps(n) ==
    /\ UNCHANGED focus
    /\ n < 5 => UNCHANGED s5
    /\ n < 6 => UNCHANGED s6
    /\ n < 7 => UNCHANGED s7
    /\ n < 8 => UNCHANGED s8
    /\ n < 9 => UNCHANGED s9
    /\ n < 10 => UNCHANGED s10
    /\ n < 11 => UNCHANGED s11
    /\ n < 12 => UNCHANGED s12

Init ==
    /\ focus \in Foci
    /\ \/ focus = "staging" /\ Staging!Init /\ Empty(5)
       \/ focus = "memories" /\ Memories(Plain)!Init /\ Empty(9)
       \/ focus = "overwrites" /\ Memories(Overwriting)!Init /\ Empty(9)
       \/ focus = "graph" /\ Graph!Init /\ Empty(7)
       \/ focus = "migration" /\ LayerMigration!Init /\ Empty(9)
       \/ focus = "repairs" /\ Repairs(Repeated)!Init /\ Empty(12)
       \/ focus = "disturbed" /\ Repairs(Disturbed)!Init /\ Empty(12)
       \/ focus = "wiki" /\ Wiki!Init /\ Empty(10)
       \/ focus = "sweep" /\ Sweep!Init /\ Empty(8)
       \/ focus = "rescore" /\ Rescore!Init /\ Empty(8)
       \/ focus = "gaps" /\ Gaps!Init /\ Empty(5)
       \/ focus = "conflicts" /\ Conflicts!Init /\ Empty(4)

Next ==
    \/ focus = "staging" /\ Staging!Next /\ Keeps(5)
    \/ focus = "memories" /\ Memories(Plain)!Next /\ Keeps(9)
    \/ focus = "overwrites" /\ Memories(Overwriting)!Next /\ Keeps(9)
    \/ focus = "graph" /\ Graph!Next /\ Keeps(7)
    \/ focus = "migration" /\ LayerMigration!Next /\ Keeps(9)
    \/ focus = "repairs" /\ Repairs(Repeated)!Next /\ Keeps(12)
    \/ focus = "disturbed" /\ Repairs(Disturbed)!Next /\ Keeps(12)
    \/ focus = "wiki" /\ Wiki!Next /\ Keeps(10)
    \/ focus = "sweep" /\ Sweep!Next /\ Keeps(8)
    \/ focus = "rescore" /\ Rescore!Next /\ Keeps(8)
    \/ focus = "gaps" /\ Gaps!Next /\ Keeps(5)
    \/ focus = "conflicts" /\ Conflicts!Next /\ Keeps(4)

Spec == Init /\ [][Next]_slots

------------------------------------------------------------------------------
(* Properties: of every component, those its module states.                 *)

\* Every component's variables keep their types.
TypesOK ==
    /\ focus = "staging" => Staging!TypeOK
    /\ focus = "memories" => Memories(Plain)!TypeOK
    /\ focus = "overwrites" => Memories(Overwriting)!TypeOK
    /\ focus = "graph" => Graph!TypeOK
    /\ focus = "migration" => LayerMigration!TypeOK
    /\ focus = "repairs" => Repairs(Repeated)!TypeOK
    /\ focus = "disturbed" => Repairs(Disturbed)!TypeOK
    /\ focus = "wiki" => Wiki!TypeOK
    /\ focus = "sweep" => Sweep!TypeOK
    /\ focus = "rescore" => Rescore!TypeOK
    /\ focus = "gaps" => Gaps!TypeOK
    /\ focus = "conflicts" => Conflicts!TypeOK

\* What was remembered, and not overwritten, purged or dropped on request, is in
\* its table or in the bin, however an archive pass, a forget and a restore fail
\* or die between the two; a save or restore that raced one of them is excepted
\* (lifecycle/forgetting.py).
MemoriesAreKept ==
    /\ focus = "memories" => Memories(Plain)!NothingVanishes
    /\ focus = "overwrites" => Memories(Overwriting)!NothingVanishes

\* Nothing is held twice: no two pending proposals of one key (features/staging.py),
\* no two rows of the gap registry for one question (lifecycle/gap_registry.py),
\* however proposals, decisions, nights and crashes interleave.
OneOfEach ==
    /\ focus = "staging" => Staging!NoTwinPending
    /\ focus = "gaps" => Gaps!OneRowPerHole

\* What the records say was done was done: a committed layer migration has its
\* snapshot and its report (scripts/migrate_graph_layers.py), a rescore counts
\* what it committed (lifecycle/importance_scheduler.py), an edge joins the texts
\* a miner compared (lifecycle/graph_miners.py).
RecordsAreTrue ==
    /\ focus = "migration" => LayerMigration!EveryMoveIsOnRecord
    /\ focus = "rescore" => Rescore!CountersDescribeCommittedWork
    /\ focus = "graph" => Graph!EdgesJoinWhatWasCompared

\* A repair that reaches its verification undisturbed has left nothing of what
\* it looks for, also after an earlier run was killed half way (scripts/).
RepairsConverge ==
    /\ focus = "repairs" => Repairs(Repeated)!RepairsConverge
    /\ focus = "disturbed" => Repairs(Disturbed)!RepairsConverge

\* Nothing leaves before its copy is in place: an episode a repair removes, a
\* page retired from the wiki, an item the periodic sweep clears, of those it
\* had read, a statement a resolved conflict removes, unless the archive refused
\* it (scripts/, wiki/manager.py, mcp_server/lifespan.py, rag/conflict.py).
LossesAreFiled ==
    [][ /\ focus = "repairs" => Repairs(Repeated)!DeletedEpisodesAreArchived
        /\ focus = "disturbed" => Repairs(Disturbed)!DeletedEpisodesAreArchived
        /\ focus = "wiki" => Wiki!RetireLeavesACopy
        /\ focus = "sweep" => Sweep!OnlyLateItemsAreLost
        /\ focus = "conflicts" => Conflicts!DeletedWereOffered ]_slots

\* What was decided holds: a denied key is not staged again inside its window
\* (features/staging.py), a migration moves only what was reviewed, on the base
\* it was reviewed on (scripts/migrate_graph_layers.py), and a restore reports
\* what it restored and takes nothing purged out of the bin (lifecycle/forgetting.py).
DecisionsHold ==
    [][ /\ focus = "staging" => Staging!NoRestageInWindow
        /\ focus = "migration" => LayerMigration!OnlyWhatWasReviewed
        /\ focus = "memories" => Memories(Plain)!RestoreTellsTheTruth
        /\ focus = "overwrites" => Memories(Overwriting)!RestoreTellsTheTruth ]_slots
=============================================================================
