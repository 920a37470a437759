-------------------------------- MODULE Graph --------------------------------
(***************************************************************************)
(* The epistemic graph (graph/epistemic.py) and the nightly pass over it   *)
(* (lifecycle/graph_enrich.py, graph_miners.py, graph_sanitation.py).      *)
(*                                                                         *)
(* One pass runs at a time: the nightly holds the base (Nightly).  The     *)
(* distiller wires facts, tools add and delete nodes, and a housekeeping   *)
(* loop sweeps dangling edges all the while.  A miner is either one        *)
(* transaction, or computes what it wants outside any transaction and      *)
(* writes it later: between the two the graph moves.  The dream phases and *)
(* the orphan collection read first and write later too.                   *)
(*                                                                         *)
(* Evidence is the constant Alike; weights are levels, ages are fresh (a   *)
(* day), mid and old (a month).                                            *)
(***************************************************************************)
EXTENDS Integers, FiniteSets, FiniteSetsExt, Sequences, SequencesExt

CONSTANTS
    Facts,      \* the texts of fact nodes
    Junk,       \* those that are raw JSON, tool output or a recall dump
    Sourced,    \* those whose core row names an episode as its parent
    AnchorLike, \* those that read like an anchor of an episode
    Alike,      \* [Facts -> [Facts -> 0..3]]: the evidence that two texts belong together
    TopK,       \* edges one run of a capped miner accepts per node
    InsightMax, \* insights per layer
    Community,  \* size from which a community is worth an insight
    MaxId,      \* bound on the nodes ever created
    MinesPerPass, \* bound on the miners that find anything in one pass
    Miners,     \* the miners that find anything
    MaxNights,  \* bound on the passes, one a night
    MaxCalls,   \* bound on the calls of tools and of the distiller's wiring
    None

VARIABLES
    nodes,   \* id -> [text, kind, age], or None
    edges,   \* rows of epi_edges: [a, b, rel, w, age, of], of being the two texts compared
    lastId,  \* AUTOINCREMENT: the largest id ever given
    pass,    \* graph_enrich: [pc, ids, want, rel, mined]
    wirer,   \* the distiller: [pc, id, want]
    journal, \* the junk texts captured before their nodes were deleted
    count    \* [nights, calls], for the bounds

vars == <<nodes, edges, lastId, pass, wirer, journal, count>>

Ids == 1..MaxId
Old == 2
MaxWeight == 3
Split == {"tokens", "entities", "sessions", "embedding", "markers"}
Atomic == {"tags", "co_retrieval", "structural", "provenance"}
Heuristic == {"topic_overlap", "co_mentions", "same_session", "semantic_overlap", "led_to",
              "tagged", "co_recalled", "co_cited", "sourced_from"}
Relations == Heuristic \cup {"asked", "dream_bridge", "insight_of"}
Texts == Facts \cup {"episode", "insight"}

Present(i) == nodes[i] # None
Live == {i \in Ids : Present(i)}
FactNodes == {i \in Live : nodes[i].kind = "fact"}
Dangling == {e \in edges : ~Present(e.a) \/ ~Present(e.b)}
Isolated == {i \in Live : \A e \in edges : i \notin {e.a, e.b}}

TypeOK ==
    /\ nodes \in [Ids -> [text : Texts, kind : {"fact", "episode", "insight"}, age : 0..1] \cup {None}]
    /\ edges \in SUBSET [a : Ids, b : Ids, rel : Relations, w : 0..MaxWeight, age : 0..Old, of : Texts \X Texts]
    /\ lastId \in 0..MaxId
    /\ pass.pc \in {"idle", "junk", "mining", "apply", "orphans", "collect", "nrem", "nremWrite", "rem", "remWrite", "insight", "abstract", "insert"}
    /\ pass.ids \in SUBSET Ids
    /\ wirer.pc \in {"idle", "apply"} /\ wirer.id \in Ids
    /\ journal \in SUBSET Facts
    /\ count \in [nights : 0..MaxNights, calls : 0..MaxCalls]

IdlePass == [pc |-> "idle", ids |-> {}, want |-> {}, rel |-> None, mined |-> 0]
IdleWirer == [pc |-> "idle", id |-> 1, want |-> {}]

Init ==
    /\ nodes = [i \in Ids |-> None]
    /\ edges = {}
    /\ lastId = 0
    /\ pass = IdlePass
    /\ wirer = IdleWirer
    /\ journal = {}
    /\ count = [nights |-> 0, calls |-> 0]

------------------------------------------------------------------------------
(* Rows *)

\* Mutant: the ids of deleted nodes are given again.
NewIdReused == IF Live = {} THEN 1 ELSE Max(Live) + 1

NewId == lastId + 1

Node(text, kind) == [text |-> text, kind |-> kind, age |-> 0]
Add(text, kind) == /\ NewId \in Ids
                   /\ nodes' = [nodes EXCEPT ![NewId] = Node(text, kind)]
                   /\ lastId' = IF NewId > lastId THEN NewId ELSE lastId

\* A deleted node takes its tags and every edge that touches it along.
Delete(S) == /\ nodes' = [i \in Ids |-> IF i \in S THEN None ELSE nodes[i]]
             /\ edges' = {e \in edges : e.a \notin S /\ e.b \notin S}

Same(e, f) == e.a = f.a /\ e.b = f.b /\ e.rel = f.rel
Edge(a, b, rel, w) == [a |-> a, b |-> b, rel |-> rel, w |-> w, age |-> 0, of |-> <<nodes[a].text, nodes[b].text>>]

\* The strongest evidence wins and refreshes the age; anything else is a no-op.
Upsert(E, wanted) ==
    {e \in E : \A f \in wanted : Same(e, f) => f.w <= e.w}
      \cup {f \in wanted : \A e \in E : Same(e, f) => f.w > e.w}

Touched(E, wanted) == UNION {{f.a, f.b} : f \in {g \in wanted : \A e \in E : ~Same(e, g)}}

\* Lateral inhibition of one node: a level for each stronger neighbour.
Inhibit(E, i) ==
    LET mine == {e \in E : i \in {e.a, e.b} /\ e.rel \in Heuristic}
        drop(e) == LET n == Cardinality({f \in mine : f.w > e.w}) IN IF n > e.w THEN e.w ELSE n
    IN  (E \ mine) \cup {[e EXCEPT !.w = @ - drop(e)] : e \in mine}

InhibitAll(E, dirty) == FoldLeft(Inhibit, E, SetToSortSeq(dirty, <))

\* What a miner leaves: the upserts, then one inhibition per touched node.
Mined(E, wanted) == InhibitAll(Upsert(E, wanted), Touched(E, wanted))

------------------------------------------------------------------------------
(* What each miner wants of the graph as it reads it *)

Pairs == {p \in FactNodes \X FactNodes : p[1] < p[2]}
Evidence(p) == Alike[nodes[p[1]].text][nodes[p[2]].text]
Wanted(P, rel, w(_)) == {Edge(p[1], p[2], rel, w(p)) : p \in P}
One(p) == 1
Two(p) == 2

\* Shared tags.
SharedTags == Wanted({p \in Pairs : Evidence(p) >= 1}, "tagged", One)

\* Shared rare tokens, above a cut that rises with the batch.
Cut == LET strongest == {Evidence(p) : p \in Pairs} IN IF strongest = {} \/ Max(strongest) < 3 THEN 1 ELSE 2
TopicOverlap == Wanted({p \in Pairs : Evidence(p) >= Cut}, "topic_overlap", Evidence)

\* Pairs in order, each accepted while both its ends are below the cap.
Degree(P, i) == Cardinality({p \in P : i \in {p[1], p[2]}})
Accept(P, p) == IF Degree(P, p[1]) < TopK /\ Degree(P, p[2]) < TopK THEN P \cup {p} ELSE P
Capped(P, before(_, _)) == FoldLeft(Accept, {}, SetToSortSeq(P, before))

ById(p, q) == p[1] < q[1] \/ (p[1] = q[1] /\ p[2] < q[2])
ByEvidence(p, q) == Evidence(p) > Evidence(q) \/ (Evidence(p) = Evidence(q) /\ ById(q, p))

SameSession == Wanted(Capped({p \in Pairs : Evidence(p) >= 1}, ById), "same_session", One)
CoMentions == Wanted(Capped({p \in Pairs : Evidence(p) >= 2}, ById), "co_mentions", One)
SemanticOverlap == Wanted(Capped({p \in Pairs : Evidence(p) >= 1}, ByEvidence), "semantic_overlap", Two)

\* Markers need no cap and cause no inhibition.
LedTo == Wanted({p \in Pairs : Evidence(p) = 3}, "led_to", One)

\* Recalled together twice or more; nodes that are gone are passed over.
CoRecalled == Wanted({p \in Pairs : Evidence(p) >= 2}, "co_recalled", One)

\* Cited together by a third node, over edges no heuristic made.
CoCited ==
    LET cites(i, j) == \E e \in edges : e.a = i /\ e.b = j /\ e.rel = "asked"
    IN  Wanted({p \in Pairs : \E i \in Live : cites(i, p[1]) /\ cites(i, p[2])}, "co_cited", One)

WantedBy(m) ==
    CASE m = "tags" -> SharedTags [] m = "tokens" -> TopicOverlap [] m = "sessions" -> SameSession
      [] m = "entities" -> CoMentions [] m = "embedding" -> SemanticOverlap [] m = "markers" -> LedTo
      [] m = "co_retrieval" -> CoRecalled [] m = "structural" -> CoCited

------------------------------------------------------------------------------
(* The live path *)

\* The distiller finds or adds the node of a clause, then computes its edges
\* to the others outside any transaction.
Learn(t) ==
    /\ wirer.pc = "idle"
    /\ \A i \in FactNodes : nodes[i].text # t
    /\ Add(t, "fact")
    /\ UNCHANGED <<edges, pass, wirer, journal, count>>

Call == count.calls < MaxCalls /\ count' = [count EXCEPT !.calls = @ + 1]

WireComputes(i) ==
    /\ Call
    /\ wirer.pc = "idle" /\ i \in FactNodes
    /\ LET want == {e \in TopicOverlap : i \in {e.a, e.b}} IN
          want # {} /\ wirer' = [pc |-> "apply", id |-> i, want |-> want]
    /\ UNCHANGED <<nodes, edges, lastId, pass, journal>>

WireApplies ==
    /\ wirer.pc = "apply"
    /\ edges' = Mined(edges, wirer.want)
    /\ wirer' = IdleWirer
    /\ UNCHANGED <<nodes, lastId, pass, journal, count>>

\* memory_graph tools: an edge between whatever ids the caller names, replacing
\* an edge of the same relation; nodes deleted by forget().
AskEdge(i, j) ==
    /\ Call /\ Present(i) /\ Present(j) /\ i # j
    /\ ~\E e \in edges : e.a = i /\ e.b = j /\ e.rel = "asked"
    /\ edges' = edges \cup {Edge(i, j, "asked", 2)}
    /\ UNCHANGED <<nodes, lastId, pass, wirer, journal>>

Forget(i) ==
    /\ Call /\ Present(i)
    /\ Delete({i})
    /\ UNCHANGED <<lastId, pass, wirer, journal>>

\* The housekeeping loops sweep edges that lost an end.
\* Mutant: only the source is looked at.
SweptBySource == {e \in edges : ~Present(e.a)}

Swept == Dangling

Sweep ==
    /\ Swept # {}
    /\ edges' = edges \ Swept
    /\ UNCHANGED <<nodes, lastId, pass, wirer, journal, count>>

------------------------------------------------------------------------------
(* The pass *)

At(pc) == pass.pc = pc
Enter(pc) == pass' = [IdlePass EXCEPT !.pc = pc, !.mined = pass.mined]

\* A night has passed.  Junk is read, then captured, then deleted; capture
\* never raises.
JunkScan ==
    /\ At("idle") /\ Live # {}
    /\ count.nights < MaxNights
    /\ count' = [count EXCEPT !.nights = @ + 1]
    /\ edges' = {[e EXCEPT !.age = IF @ = Old THEN Old ELSE @ + 1] : e \in edges}
    /\ nodes' = [i \in Ids |-> IF Present(i) THEN [nodes[i] EXCEPT !.age = 1] ELSE None]
    /\ pass' = [IdlePass EXCEPT !.pc = "junk", !.ids = {i \in FactNodes : nodes[i].text \in Junk}]
    /\ UNCHANGED <<lastId, wirer, journal>>

JunkDelete ==
    /\ At("junk")
    /\ \E kept \in SUBSET {nodes[i].text : i \in pass.ids \cap Live} : journal' = journal \cup (kept \cap Junk)
    /\ Delete(pass.ids)
    /\ Enter("mining")
    /\ UNCHANGED <<lastId, wirer, count>>

\* A miner that raises is logged and passed over, so any may be missing.
MineAtOnce(m) ==
    /\ At("mining") /\ pass.mined < MinesPerPass
    /\ m \in (Miners \cap Atomic) \ {"provenance"} /\ WantedBy(m) # {}
    /\ edges' = Mined(edges, WantedBy(m))
    /\ pass' = [pass EXCEPT !.mined = @ + 1]
    /\ UNCHANGED <<nodes, lastId, wirer, journal, count>>

\* The episode a fact came from gets a node of its own, once.
MineProvenance(i) ==
    /\ At("mining") /\ pass.mined < MinesPerPass
    /\ i \in FactNodes /\ nodes[i].text \in Sourced
    /\ \A j \in Live : nodes[j].kind # "episode"
    /\ Add("episode", "episode")
    /\ edges' = Mined(edges, {[a |-> NewId, b |-> i, rel |-> "sourced_from", w |-> 2, age |-> 0,
                               of |-> <<"episode", nodes[i].text>>]})
    /\ pass' = [pass EXCEPT !.mined = @ + 1]
    /\ UNCHANGED <<wirer, journal, count>>

MineComputes(m) ==
    /\ At("mining") /\ pass.mined < MinesPerPass
    /\ m \in Miners \cap Split /\ WantedBy(m) # {}
    /\ pass' = [pass EXCEPT !.pc = "apply", !.want = WantedBy(m), !.rel = m, !.mined = @ + 1]
    /\ UNCHANGED <<nodes, edges, lastId, wirer, journal, count>>

MineApplies ==
    /\ At("apply")
    /\ edges' = IF pass.rel = "markers" THEN Upsert(edges, pass.want) ELSE Mined(edges, pass.want)
    /\ Enter("mining")
    /\ UNCHANGED <<nodes, lastId, wirer, journal, count>>

\* Anchors without an edge, a week old.
OrphanScan ==
    /\ At("mining")
    /\ pass' = [IdlePass EXCEPT !.pc = "collect",
                  !.ids = {i \in Isolated : nodes[i].kind = "fact" /\ nodes[i].text \in AnchorLike /\ nodes[i].age = 1}]
    /\ UNCHANGED <<nodes, edges, lastId, wirer, journal, count>>

OrphanCollect ==
    /\ At("collect")
    /\ Delete(pass.ids)
    /\ Enter("nrem")
    /\ UNCHANGED <<lastId, wirer, journal, count>>

\* NREM reads the two age bands that matter and writes absolute weights later,
\* one chunk after another; below the floor an edge is deleted.
Slept(e) == [e EXCEPT !.w = IF e.age = Old THEN @ - 1 ELSE IF @ = MaxWeight THEN @ ELSE @ + 1]

NremReads ==
    /\ At("nrem")
    /\ pass' = [pass EXCEPT !.pc = "nremWrite",
                  !.want = {Slept(e) : e \in {f \in edges : f.rel \in Heuristic /\ f.age \in {0, Old}}}]
    /\ UNCHANGED <<nodes, edges, lastId, wirer, journal, count>>

NremWrites ==
    /\ At("nremWrite")
    /\ IF pass.want = {} THEN Enter("rem") /\ UNCHANGED edges
       ELSE \E s \in pass.want :
               /\ edges' = {e \in edges : ~Same(e, s)}
                             \cup {[e EXCEPT !.w = s.w] : e \in {f \in edges : Same(f, s) /\ s.w > 0}}
               /\ pass' = [pass EXCEPT !.want = @ \ {s}]
    /\ UNCHANGED <<nodes, lastId, wirer, journal, count>>

\* REM bridges an isolated node to the one most like it.
RemReads ==
    /\ At("rem")
    /\ pass' = [pass EXCEPT !.pc = "remWrite",
         !.want = Wanted({p \in Pairs : (p[1] \in Isolated \/ p[2] \in Isolated) /\ Evidence(p) = 3}, "dream_bridge", One)]
    /\ UNCHANGED <<nodes, edges, lastId, wirer, journal, count>>

RemWrites ==
    /\ At("remWrite")
    /\ edges' = edges \cup {f \in pass.want : \A e \in edges : ~Same(e, f)}
    /\ Enter("insight")
    /\ UNCHANGED <<nodes, lastId, wirer, journal, count>>

\* The insights of the last pass go before this one computes its own.
InsightsDrop ==
    /\ At("insight")
    /\ Delete({i \in Live : nodes[i].kind = "insight"})
    /\ Enter("abstract")
    /\ UNCHANGED <<lastId, wirer, journal, count>>

\* A community among the facts and edges as they are read now.
InsightComputes(C) ==
    /\ At("abstract") /\ pass.mined < MinesPerPass + InsightMax
    /\ C \subseteq FactNodes /\ Cardinality(C) >= Community
    /\ \A i \in C : \E e \in edges : e.w > 0 /\ i \in {e.a, e.b} /\ {e.a, e.b} \subseteq C
    /\ pass' = [pass EXCEPT !.pc = "insert", !.mined = @ + 1, !.want = {Edge(i, i, "insight_of", 2) : i \in C}]
    /\ UNCHANGED <<nodes, edges, lastId, wirer, journal, count>>

\* The insight and the edges to its members, in one transaction of their own.
InsightInsert ==
    /\ At("insert")
    /\ Add("insight", "insight")
    /\ edges' = edges \cup {[e EXCEPT !.a = NewId, !.of[1] = "insight"] : e \in pass.want}
    /\ Enter("abstract")
    /\ UNCHANGED <<wirer, journal, count>>

PassEnds ==
    /\ At("abstract")
    /\ pass' = IdlePass
    /\ UNCHANGED <<nodes, edges, lastId, wirer, journal, count>>

\* The process dies, or the phase raises out of the pass.
PassDies ==
    /\ ~At("idle")
    /\ pass' = IdlePass
    /\ UNCHANGED <<nodes, edges, lastId, wirer, journal, count>>

Pass ==
    \/ JunkScan \/ JunkDelete
    \/ \E m \in Atomic : MineAtOnce(m)
    \/ \E i \in Ids : MineProvenance(i)
    \/ \E m \in Split : MineComputes(m)
    \/ MineApplies \/ OrphanScan \/ OrphanCollect
    \/ NremReads \/ NremWrites \/ RemReads \/ RemWrites
    \/ InsightsDrop \/ (\E C \in SUBSET Ids : InsightComputes(C)) \/ InsightInsert
    \/ PassEnds \/ PassDies

Next ==
    \/ \E t \in Facts : Learn(t)
    \/ \E i \in Ids : WireComputes(i) \/ Forget(i) \/ \E j \in Ids : AskEdge(i, j)
    \/ WireApplies \/ Sweep
    \/ Pass

Spec == Init /\ [][Next]_vars
FairSpec == Spec /\ WF_vars(Sweep)

------------------------------------------------------------------------------
(* Properties *)

\* However long a miner computes while nodes come and go, an edge between two
\* nodes joins the two texts that were compared: what it finds missing it may
\* leave dangling, but it never joins strangers (_maintenance_split, epi_nodes).
EdgesJoinWhatWasCompared ==
    \A e \in edges : Present(e.a) /\ Present(e.b) => e.of = <<nodes[e.a].text, nodes[e.b].text>>

\* Dangling edges are dust, not debt: they are gone again some time after every
\* late write (prune_dangling_edges).
DustIsSwept == Dangling # {} ~> Dangling = {}
=============================================================================
