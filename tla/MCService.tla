------------------------------ MODULE MCService -----------------------------
(* The components that answer, admit, cache, back up and undo, one behind   *)
(* the other in a single run, as in MCStores: `focus` names the component   *)
(* that runs, its variables stand in the slots s1, s2, ... in the order it  *)
(* declares them.                                                           *)
EXTENDS Integers, Sequences

CONSTANTS Foci, \* the components this run looks at
          None, Idle, Unwritten, Gone, Whole, Torn, NoFile,
          p, q, r, t, u, v, \* anything a component needs names for
          Tasks, Dirs, MaxOpens, MaxMoves,                                \* Connections, Projects
          Length, Compensable, Keyed, Retries, MaxCrashes, MaxRuns, MaxKills, MaxAge, \* the sagas
          Callers, Texts, Threshold, Recovery, MaxFailures, MaxModes,     \* Embeddings; Admission has its callers
          Contents, Limit, RateWindow, DedupWindow, PerUser, MaxSeconds, MaxCalls, \* Admission
          Keys, Values, MaxClock,                                         \* Tools
          Slips, Notes, RingSize, SaveEvery, MaxMessages, MaxFaults,      \* Stash; Housekeeping has its entries
          Msgs, Sayings, Foreign, MaxTime, Lag,                           \* Deliveries
          MaxLedger,                                                      \* Versions
          Counts, MaxDispatched, MaxMarks,                                \* Sessions
          MaxSeeds, ImportBatch                                           \* Secrets, Imports

ASSUME ConnectionsAssumption == Dirs # {} /\ MaxOpens \in Nat /\ MaxMoves \in Nat
ASSUME SagasAssumption == Length \in Nat /\ Compensable \subseteq 1..Length /\ Retries \in Nat
ASSUME StashAssumption ==
    RingSize \in Nat /\ SaveEvery \in Nat \ {0} /\ None \notin Notes /\ None \notin [ring : Seq(Nat), pad : [Slips -> Notes \cup {None}]]
ASSUME LagAssumption == Lag \in Nat
ASSUME AdmissionAssumption == Limit \in Int /\ RateWindow \in Nat /\ DedupWindow \in Nat /\ MaxSeconds \in Nat
ASSUME BackupsAssumption == None \notin {p, q, r, Whole, Torn} /\ r # p
ASSUME DaemonAssumption == NoFile \notin Nat /\ Torn \notin Nat /\ NoFile # Torn
ASSUME SessionsAssumption == MaxDispatched \in Nat
ASSUME SecretsAssumption == None \notin Nat \cup [key : Nat, keys : [Keys -> {"none", "on", "off"}]]
ASSUME ImportsAssumption == ImportBatch \in Nat \ {0} /\ None \notin {"received", "parked", "gated_out"}
ASSUME ProjectsAssumption == Unwritten \notin Tasks /\ Gone \notin Tasks \cup {Unwritten}

VARIABLES focus, s1, s2, s3, s4, s5, s6, s7, s8, s9, s10, s11

slots == <<focus, s1, s2, s3, s4, s5, s6, s7, s8, s9, s10, s11>>

------------------------------------------------------------------------------
Connections == INSTANCE Connections WITH
    base_dir <- s1, cache <- s2, handles <- s3, task <- s4, main <- s5,
    Tasks <- Tasks, Dirs <- Dirs, MaxOpens <- MaxOpens, MaxMoves <- MaxMoves

Sagas == INSTANCE Sagas WITH
    saved <- s1, live <- s2, effect <- s3, stuck <- s4, crashes <- s5,
    Length <- Length, Compensable <- Compensable, Retries <- Retries, MaxCrashes <- MaxCrashes

SagaLog == INSTANCE SagaLog WITH
    file <- s1, live <- s2, log <- s3, effect <- s4, raised <- s5, dog <- s6, age <- s7, runs <- s8, crashes <- s9,
    Length <- Length, Keyed <- Keyed, Compensable <- Compensable, Retries <- Retries, MaxRuns <- MaxRuns,
    MaxCrashes <- MaxKills, MaxAge <- MaxAge

Embeddings == INSTANCE Embeddings WITH
    mode <- s1, up <- s2, breaker <- s3, cache <- s4, call <- s5, failures <- s6, modes <- s7,
    Callers <- Callers, Texts <- Texts, Threshold <- Threshold, Recovery <- Recovery, MaxFailures <- MaxFailures,
    MaxModes <- MaxModes

Tools == INSTANCE Tools WITH
    facts <- s1, clock <- s2, pad <- s3, seen <- s4, shown <- s5, recalls <- s6, backup <- s7, call <- s8,
    builder <- s9, reader <- s10, open <- s11,
    Keys <- Keys, Values <- Values, MaxClock <- MaxClock

Assembly == INSTANCE Assembly WITH
    call <- s1, stage <- s2, axis <- s3, blocks <- s4, left <- s5, spare <- s6, seen <- s7, failed <- s8, cand <- s9,
    Texts <- {t, u}, Costs <- {1, 4}, Budget <- 4, MaxBlocks <- 3, Sources <- <<"important", "relevant">>,
    Weight <- [important |-> 30, recent |-> 15, ops |-> 10, relevant |-> 30, day |-> 15], MinCeiling <- 1, MaxHits <- 2

\* Of what is stored, two choices: two pages with one text, an episode and a node
\* that is an entity as well; and an episode with two nodes that an edge joins.
RowWhere == [x \in {p, q, r, t, u} |-> CASE x \in {p, q} -> {"rag"} [] x = r -> {"episodic"} [] x = t -> {"graph", "entities"} [] x = u -> {"graph"}]
RowText == [x \in {p, q, r, t, u} |-> CASE x \in {p, q, r} -> 1 [] x = t -> 2 [] x = u -> 3]
RowScore == [x \in {p, q, r, t, u} |-> CASE x \in {p, t} -> 1 [] x \in {q, u} -> 2 [] x = r -> 3]
RowCovers == [x \in {p, q, r, t, u} |-> CASE x \in {p, q} -> {1} [] x = r -> {2} [] x = t -> {1, 2} [] x = u -> {}]

Retrieval == INSTANCE Retrieval WITH
    stored <- s1, loads <- s2, c <- s3,
    Rows <- {p, q, r, t}, Where <- RowWhere, Text <- RowText, Score <- RowScore, Covers <- RowCovers,
    Fresh <- {r}, Lexical <- {p}, Near <- {{t, u}},
    Terms <- {1, 2, 3, 4}, Gates <- {{"rag", "core"}}, Limit <- 1, MaxFails <- 1

Expansion == INSTANCE Retrieval WITH
    stored <- s1, loads <- s2, c <- s3,
    Rows <- {r, t, u}, Where <- RowWhere, Text <- RowText, Score <- RowScore, Covers <- RowCovers,
    Fresh <- {r}, Lexical <- {p}, Near <- {{t, u}},
    Terms <- {1, 2, 3, 4}, Gates <- {{"rag", "core"}}, Limit <- 1, MaxFails <- 1

\* Two processes with a cron, and one beside the tool.
Backups(crons, manual) == INSTANCE Backups WITH
    live <- s1, dirs <- s2, pc <- s3, own <- s4, lock <- s5, restorer <- s6, count <- s7,
    Crons <- crons, Manual <- manual, KeepCount <- 3, MaxBackups <- 4, MaxCrashes <- 1

Housekeeping == INSTANCE Housekeeping WITH
    wal <- s1, dead <- s2, reader <- s3, stepping <- s4, pass <- s5, refused <- s6, total <- s7, pruner <- s8,
    audit <- s9, archiver <- s10,
    MaxLog <- 1, Attempts <- 2, MaxRows <- 1, Batch <- 2, MaxRefused <- 2, Entries <- Slips

Admission == INSTANCE Admission WITH
    clock <- s1, requests <- s2, recent <- s3, running <- s4, rows <- s5, answer <- s6, foreign <- s7, history <- s8,
    Callers <- Callers, Contents <- Contents, Limit <- Limit, Window <- RateWindow, DedupWindow <- DedupWindow,
    PerUser <- PerUser, MaxTime <- MaxSeconds, MaxCalls <- MaxCalls

Stash == INSTANCE Stash WITH
    ring <- s1, disk <- s2, adds <- s3, unsaved <- s4, next <- s5, pad <- s6, stash <- s7, call <- s8, faults <- s9,
    history <- s10,
    Keys <- Slips, Texts <- Notes, RingSize <- RingSize, SaveEvery <- SaveEvery, MaxMessages <- MaxMessages,
    MaxFaults <- MaxFaults

Projects == INSTANCE Projects WITH
    view <- s1, disk <- s2, open <- s3, page <- s4, bin <- s5, task <- s6, acked <- s7,
    Tasks <- Tasks

Deliveries == INSTANCE Deliveries WITH
    clock <- s1, sent <- s2, journal <- s3, delivery <- s4,
    Msgs <- Msgs, Texts <- Sayings, Foreign <- Foreign, MaxTime <- MaxTime, Lag <- Lag

Sessions == INSTANCE Sessions WITH
    session <- s1, closer <- s2, log <- s3, lenient <- s4, differ <- s5, marks <- s6,
    Closers <- Callers, Counts <- Counts, MaxMessages <- MaxDispatched, MaxMarks <- MaxMarks

Secrets == INSTANCE Secrets WITH
    dotenv <- s1, seeds <- s2, proc <- s3, keysFile <- s4, tokenFile <- s5, answered <- s6, old <- s7,
    Procs <- Callers, APIKeys <- Keys, MaxSeeds <- MaxSeeds

Imports == INSTANCE Imports WITH
    source <- s1, journal <- s2, episodes <- s3, run <- s4, stored <- s5, faults <- s6,
    Texts <- Contents, Blank <- v, BatchLimit <- ImportBatch, Windows <- {<<1, 0>>, <<2, 2>>}, MaxId <- 3,
    MaxEpisodes <- 1, MaxFaults <- 1

\* Enough messages for more than a batch, and no renumbering (Daemon.cfg has that).
Daemon == INSTANCE Daemon WITH
    source <- s1, file <- s2, daemon <- s3, gates <- s4, store <- s5, history <- s6,
    Msgs <- {p, q, t}, Blank <- {t}, BatchLimit <- 2, RateMax <- 2, MaxCrashes <- 1, MaxMerges <- 0

\* Two keys that come and go, and one that changes its value.
Versions(keys, values) == INSTANCE Versions WITH
    facts <- s1, open <- s2, snapshot <- s3, ledger <- s4, restorer <- s5, merger <- s6,
    Keys <- keys, Values <- values, MaxLedger <- MaxLedger

------------------------------------------------------------------------------
\* The slots behind the first n, when nothing stands in them.
Empty(n) ==
    /\ n < 4 => s4 = 0
    /\ n < 5 => s5 = 0
    /\ n < 6 => s6 = 0
    /\ n < 7 => s7 = 0
    /\ n < 8 => s8 = 0
    /\ n < 9 => s9 = 0
    /\ n < 10 => s10 = 0
    /\ n < 11 => s11 = 0

Keeps(n) ==
    /\ UNCHANGED focus
    /\ n < 4 => UNCHANGED s4
    /\ n < 5 => UNCHANGED s5
    /\ n < 6 => UNCHANGED s6
    /\ n < 7 => UNCHANGED s7
    /\ n < 8 => UNCHANGED s8
    /\ n < 9 => UNCHANGED s9
    /\ n < 10 => UNCHANGED s10
    /\ n < 11 => UNCHANGED s11

Init ==
    /\ focus \in Foci
    /\ \/ focus = "connections" /\ Connections!Init /\ Empty(5)
       \/ focus = "sagas" /\ Sagas!Init /\ Empty(5)
       \/ focus = "sagalog" /\ SagaLog!Init /\ Empty(9)
       \/ focus = "embeddings" /\ Embeddings!Init /\ Empty(7)
       \/ focus = "tools" /\ Tools!Init /\ Empty(11)
       \/ focus = "assembly" /\ Assembly!Init /\ Empty(9)
       \/ focus = "retrieval" /\ Retrieval!Init /\ Empty(3)
       \/ focus = "expansion" /\ Expansion!Init /\ Empty(3)
       \/ focus = "backups" /\ Backups({p, q}, {})!Init /\ Empty(7)
       \/ focus = "toolbackups" /\ Backups({p}, {r})!Init /\ Empty(7)
       \/ focus = "housekeeping" /\ Housekeeping!Init /\ Empty(10)
       \/ focus = "admission" /\ Admission!Init /\ Empty(8)
       \/ focus = "stash" /\ Stash!Init /\ Empty(10)
       \/ focus = "projects" /\ Projects!Init /\ Empty(7)
       \/ focus = "deliveries" /\ Deliveries!Init /\ Empty(4)
       \/ focus = "sessions" /\ Sessions!Init /\ Empty(6)
       \/ focus = "daemon" /\ Daemon!Init /\ Empty(6)
       \/ focus = "versions" /\ Versions({p, q}, {t})!Init /\ Empty(6)
       \/ focus = "edits" /\ Versions({p}, {t, u})!Init /\ Empty(6)
       \/ focus = "secrets" /\ Secrets!Init /\ Empty(7)
       \/ focus = "imports" /\ Imports!Init /\ Empty(6)

Next ==
    \/ focus = "connections" /\ Connections!Next /\ Keeps(5)
    \/ focus = "sagas" /\ Sagas!Next /\ Keeps(5)
    \/ focus = "sagalog" /\ SagaLog!Next /\ Keeps(9)
    \/ focus = "embeddings" /\ Embeddings!Next /\ Keeps(7)
    \/ focus = "tools" /\ Tools!Next /\ Keeps(11)
    \/ focus = "assembly" /\ Assembly!Next /\ Keeps(9)
    \/ focus = "retrieval" /\ Retrieval!Next /\ Keeps(3)
    \/ focus = "expansion" /\ Expansion!Next /\ Keeps(3)
    \/ focus = "backups" /\ Backups({p, q}, {})!Next /\ Keeps(7)
    \/ focus = "toolbackups" /\ Backups({p}, {r})!Next /\ Keeps(7)
    \/ focus = "housekeeping" /\ Housekeeping!Next /\ Keeps(10)
    \/ focus = "admission" /\ Admission!Next /\ Keeps(8)
    \/ focus = "stash" /\ Stash!Next /\ Keeps(10)
    \/ focus = "projects" /\ Projects!Next /\ Keeps(7)
    \/ focus = "deliveries" /\ Deliveries!Next /\ Keeps(4)
    \/ focus = "sessions" /\ Sessions!Next /\ Keeps(6)
    \/ focus = "daemon" /\ Daemon!Next /\ Keeps(6)
    \/ focus = "versions" /\ Versions({p, q}, {t})!Next /\ Keeps(6)
    \/ focus = "edits" /\ Versions({p}, {t, u})!Next /\ Keeps(6)
    \/ focus = "secrets" /\ Secrets!Next /\ Keeps(7)
    \/ focus = "imports" /\ Imports!Next /\ Keeps(6)

Spec == Init /\ [][Next]_slots

------------------------------------------------------------------------------
(* Properties: of every component, those its module states.                 *)

\* Every component's variables keep their types.
TypesOK ==
    /\ focus = "connections" => Connections!TypeOK
    /\ focus = "sagas" => Sagas!TypeOK
    /\ focus = "sagalog" => SagaLog!TypeOK
    /\ focus = "embeddings" => Embeddings!TypeOK
    /\ focus = "tools" => Tools!TypeOK
    /\ focus = "assembly" => Assembly!TypeOK
    /\ focus = "retrieval" => Retrieval!TypeOK
    /\ focus = "expansion" => Expansion!TypeOK
    /\ focus = "backups" => Backups({p, q}, {})!TypeOK
    /\ focus = "toolbackups" => Backups({p}, {r})!TypeOK
    /\ focus = "housekeeping" => Housekeeping!TypeOK
    /\ focus = "admission" => Admission!TypeOK
    /\ focus = "stash" => Stash!TypeOK
    /\ focus = "projects" => Projects!TypeOK
    /\ focus = "deliveries" => Deliveries!TypeOK
    /\ focus = "sessions" => Sessions!TypeOK
    /\ focus = "daemon" => Daemon!TypeOK
    /\ focus = "versions" => Versions({p, q}, {t})!TypeOK
    /\ focus = "edits" => Versions({p}, {t, u})!TypeOK
    /\ focus = "secrets" => Secrets!TypeOK
    /\ focus = "imports" => Imports!TypeOK

\* Nothing gets past the gates twice: no content is handled twice inside the
\* dedup window, and no minute admits more than the limit (shared/middleware.py,
\* features/rate_limiting.py).
AdmittedOnce ==
    focus = "admission" => Admission!HandledOnce /\ Admission!WithinTheLimit

\* The last copy is not thrown away: a complete backup survives the pruning of
\* two processes (features/backup_cron.py), an audit row is pruned after a file
\* has it (features/audit_trail.py), a specification page is deleted after it
\* was filed (core/projects.py).
CopiesSurvive ==
    /\ focus = "backups" => Backups({p, q}, {})!ACompleteOneSurvives
    /\ focus = "toolbackups" => Backups({p}, {r})!ACompleteOneSurvives
    /\ focus = "housekeeping" => Housekeeping!PrunedIsFiled
    /\ focus = "projects" => Projects!DeletedIsFiled

\* A cache does not pass off what it holds for something else: no fallback
\* vector under the model's tag (shared/embeddings.py), no cached context that
\* denies what a tool that ended has written (mcp_server/tools/base.py).
CachesAreHonest ==
    /\ focus = "embeddings" => Embeddings!HashNeverMasquerades
    /\ focus = "tools" => Tools!StaleOnlyByRace

\* An answer has what it should have and no more: the builders stay inside their
\* budget and starve no source, a merge loses nothing its sources found and
\* keeps their order (features/inject.py, features/recall.py, rag/).
AnswersAreWhole ==
    /\ focus = "assembly" => Assembly!WithinBudget /\ Assembly!NoSourceStarves
    /\ focus = "retrieval" => Retrieval!NothingFoundIsLost /\ Retrieval!MergeKeepsOrder
    /\ focus = "expansion" => Expansion!NothingFoundIsLost /\ Expansion!MergeKeepsOrder

\* What claims to have been undone or put back has been: a compensated saga
\* (shared/saga), a restored snapshot (features/versioning.py), a stash that was
\* restored or lost its process half way (features/scratchpad.py).
UndoneMeansUndone ==
    /\ focus = "sagas" => Sagas!RolledBackMeansUndone
    /\ focus = "sagalog" => SagaLog!RollbackCoversReplays
    /\ focus = "versions" => Versions({p, q}, {t})!RestoreIsExact
    /\ focus = "edits" => Versions({p}, {t, u})!RestoreIsExact
    /\ focus = "stash" => Stash!StashKeepsEntries

\* Two records of one thing agree: the ledger and the timeline of a fact with
\* the fact (features/versioning.py, features/branches.py), a session's score and
\* gap marks with its row and its log (core/session.py), what a project call
\* was answered with what is committed (core/projects.py), the ring on disk with
\* the ring in memory up to a few messages (core/reflex.py), a delivery passed
\* over in silence with a row of its text (shared/l0.py), the saved cursor of the
\* daemon with what went through a handler, up to a batch (autohooks/daemon.py),
\* what was answered of an API key with the sealed store (features/auth/), the
\* verdict on an import with the journal (scripts/l0_import_source.py).
RecordsAgree ==
    /\ focus = "versions" => Versions({p, q}, {t})!LedgerIsAChain /\ Versions({p, q}, {t})!TimelineIsTrue
    /\ focus = "edits" => Versions({p}, {t, u})!LedgerIsAChain /\ Versions({p}, {t, u})!TimelineIsTrue
    /\ focus = "sessions" => Sessions!ScoreDescribesItsRow /\ Sessions!NoPhantomGap
    /\ focus = "projects" => Projects!AcknowledgedIsDurable
    /\ focus = "stash" => Stash!LossIsBounded
    /\ focus = "deliveries" => Deliveries!SilenceMeansStored
    /\ focus = "daemon" => Daemon!OneBatchAgain
    /\ focus = "secrets" => Secrets!AnswersAreStored
    /\ focus = "imports" => Imports!OKMeansStored

\* A getter that reopens a connection closes only what is of no use to the
\* others (shared/connection.py).
HealthyHandlesSurvive ==
    [][focus = "connections" => Connections!HealthyHandlesSurvive]_slots

\* Nothing newer is replaced by something older: a row keeps the source message
\* it was first claimed for (shared/l0.py), an import never puts an older value
\* in the place of a newer one (features/import_export.py).
FirstClaimStands ==
    [][ /\ focus = "deliveries" => Deliveries!ProvenanceIsKept
        /\ focus = "tools" => Tools!NewestWins ]_slots
=============================================================================
