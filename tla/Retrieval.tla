----------------------------- MODULE Retrieval ------------------------------
(***************************************************************************)
(* Searching: the six sources of MultiSourceRAG and their merge, the dual  *)
(* route with its re-rank, gate and escalation, the ablation arms, the     *)
(* hook router's strategy table, and the ingest of pages.  A call awaits   *)
(* once per source (twice for rag: words, then vectors), and rows come and *)
(* go between the awaits; what happens between two awaits is one step.     *)
(*                                                                         *)
(* A row stands for a page, file, episode, fact or node that matches the   *)
(* query; its score is the one its source gives it.  bm25, Hamming and     *)
(* ACT-R arithmetic, the demotion by superseded names (which changes a     *)
(* score and no place) and the 500-character cut are left out.             *)
(***************************************************************************)
EXTENDS Integers, Sequences, FiniteSets, SequencesExt, FiniteSetsExt

CONSTANTS
    Rows,
    Where,    \* row -> the sources that find it
    Text,     \* row -> its (title, content prefix)
    Score,    \* row -> 1.. , in tenths
    Fresh,    \* rows created lately (only episodes carry created_at)
    Lexical,  \* rag rows the words of the query match; vectors match all
    Near,     \* pairs of nodes joined by an edge
    Covers,   \* row -> the terms of the query it contains
    Terms,    \* the terms of the query
    Gates,    \* the source sets the pre-gate may choose
    Limit,
    MaxFails, \* bound on the sources that fail in one call
    None

VARIABLES
    stored,   \* rows that exist
    loads,    \* pages whose ingest has looked and not yet written
    c         \* the call under way, or None

vars == <<stored, loads, c>>

Order == <<"rag", "wiki", "episodic", "core", "graph", "entities">>
Sources == ToSet(Order)
Modes == {"raw", "kinds", "factual", "multi-hop", "list", "router"}

Hits == [row : Rows, src : Sources \cup {"expand", "s2"}, act : Nat]
Calls == [mode : Modes, plan : SUBSET Sources, todo : Seq(Sources), hits : Seq(Hits),
          failed : SUBSET Sources, at : SUBSET Rows, lex : SUBSET Rows,
          first : Seq(Hits), pass : 1..2,
          stage : {"read", "vectors", "merged", "done", "raised"}]

TypeOK ==
    /\ stored \subseteq Rows /\ loads \subseteq Rows
    /\ c \in Calls \cup {None}

Init == stored = {} /\ loads = {} /\ c = None

InPlan(plan) == SelectSeq(Order, LAMBDA s : s \in plan)
Begin(mode, plan) ==
    [mode |-> mode, plan |-> plan, todo |-> InPlan(plan), hits |-> <<>>, failed |-> {},
     at |-> stored, lex |-> {}, first |-> <<>>, pass |-> 1, stage |-> "read"]
Escalation == [Begin("multi-hop", Sources) EXCEPT !.pass = 2]

(* --- rows come and go ------------------------------------------------- *)

IsPage(r) == "rag" \in Where[r]

\* Any other table's row: written by its own owner.
Add == \E r \in {x \in Rows \ stored : ~IsPage(x)} :
    stored' = stored \cup {r} /\ UNCHANGED <<loads, c>>

Delete == \E r \in stored :
    /\ stored' = stored \ {r}
    /\ c' = IF c = None THEN None ELSE [c EXCEPT !.at = @ \ {r}]
    /\ UNCHANGED loads

\* ingest looks for the content's hash, awaits the embeddings, then inserts.
IngestLooks == \E r \in {x \in Rows \ (stored \cup loads) : IsPage(x)} :
    /\ ~\E o \in stored : IsPage(o) /\ Text[o] = Text[r]
    /\ loads' = loads \cup {r}
    /\ UNCHANGED <<stored, c>>

IngestLands == \E r \in loads :
    stored' = stored \cup {r} /\ loads' = loads \ {r} /\ UNCHANGED c

(* --- one call --------------------------------------------------------- *)

Ask ==
    /\ c = None
    /\ \/ c' = Begin("raw", Sources)
       \/ \E g \in Gates : c' = Begin("raw", g \cup {"entities"})
       \/ c' = Begin("kinds", {"core", "rag"})
       \/ c' = Begin("factual", Sources \ {"graph"})
       \/ c' = Begin("multi-hop", Sources \ {"graph"})
       \/ \E g \in Gates : c' = Begin("factual", (g \ {"graph"}) \cup {"entities"})
       \/ c' = Begin("list", {"wiki", "graph"})
    /\ UNCHANGED <<stored, loads>>

\* The hook router: the strategies whose keywords the query has, then rag.
AskRouter ==
    /\ c = None
    /\ \E todo \in {<<"rag">>, <<"graph", "rag">>, <<"rag", "graph", "graph", "rag">>} :
         c' = [Begin("router", ToSet(todo)) EXCEPT !.todo = todo]
    /\ UNCHANGED <<stored, loads>>

Found(s) == {r \in stored : s \in Where[r]}

\* The list a source returns: at most n of what it found, best first.
Best(S, n) ==
    LET all == SetToSortSeq(S, LAMBDA a, b : Score[a] > Score[b]) IN
    SubSeq(all, 1, IF Len(all) < n THEN Len(all) ELSE n)
AsHits(rows, s) == [i \in 1..Len(rows) |-> [row |-> rows[i], src |-> s, act |-> 0]]

MayFail == Cardinality(c.failed) < MaxFails
Guarded == c.mode # "router"
Window == IF c.mode = "raw" THEN 2 * Limit ELSE Cardinality(Rows)

\* As if the first failure ended the plan.
StopsThere(s) == [c EXCEPT !.todo = <<>>, !.failed = @ \cup {s}, !.stage = "read"]

\* A source that raises is logged and the plan goes on; the router lets it out.
Fails(s) ==
    IF Guarded
    THEN [c EXCEPT !.todo = Tail(@), !.failed = @ \cup {s}, !.stage = "read"]
    ELSE [c EXCEPT !.stage = "raised"]

\* An empty strategy of the router falls through; a hit ends its table.
Gathered(s, rows) ==
    LET hits == c.hits \o AsHits(rows, s) IN
    IF c.mode = "router" /\ hits # <<>>
    THEN [c EXCEPT !.hits = hits, !.todo = <<>>, !.lex = {}, !.stage = "done"]
    ELSE [c EXCEPT !.hits = hits, !.todo = Tail(@), !.lex = {}, !.stage = "read"]

Read ==
    /\ c # None /\ c.stage = "read" /\ c.todo # <<>> /\ Head(c.todo) # "rag"
    /\ LET s == Head(c.todo) IN
       \/ MayFail /\ c' = Fails(s)
       \/ \E k \in {n \in 0..Window : n = Window \/ n = Cardinality(Found(s))} :
            \E S \in kSubset(k, Found(s)) : c' = Gathered(s, Best(S, k))
    /\ UNCHANGED <<stored, loads>>

\* A failing MATCH falls back to LIKE, so words are read or rag fails.
ReadWords ==
    /\ c # None /\ c.stage = "read" /\ c.todo # <<>> /\ Head(c.todo) = "rag"
    /\ \/ MayFail /\ c' = Fails("rag")
       \/ c' = [c EXCEPT !.lex = Found("rag") \cap Lexical, !.stage = "vectors"]
    /\ UNCHANGED <<stored, loads>>

\* _search_hybrid guards neither branch: vectors that fail take the words along.
ReadVectors ==
    /\ c # None /\ c.stage = "vectors"
    /\ \/ MayFail /\ c' = Fails("rag")
       \/ c' = Gathered("rag", Best(c.lex \cup Found("rag"), Window))
    /\ UNCHANGED <<stored, loads>>

(* --- expansion, dedup, merge ------------------------------------------ *)

RowsOf(hits) == {hits[i].row : i \in DOMAIN hits}
Neighbours(hits) ==
    {r \in stored : \E h \in ToSet(hits) : h.src = "graph" /\ {h.row, r} \in Near} \ RowsOf(hits)

\* The first hit of each text stays.
Distinct(hits) ==
    LET first == {i \in DOMAIN hits : ~\E j \in 1..(i - 1) : Text[hits[j].row] = Text[hits[i].row]}
        at == SetToSortSeq(first, LAMBDA i, j : i < j) IN
    [i \in DOMAIN at |-> hits[at[i]]]

Unit == 6
NormReversed(h, group) ==
    LET lo == Min(group) hi == Max(group) IN
    IF hi = lo THEN Unit ELSE ((hi - Score[h.row]) * Unit) \div (hi - lo)
Norm(h, group) ==
    LET lo == Min(group) hi == Max(group) IN
    IF hi = lo THEN Unit ELSE ((Score[h.row] - lo) * Unit) \div (hi - lo)
Recency(h) == IF h.src = "episodic" /\ h.row \in Fresh THEN 3 ELSE 2

Merged(hits) ==
    LET group(h) == {Score[hits[i].row] : i \in {j \in DOMAIN hits : hits[j].src = h.src}}
        final == [i \in DOMAIN hits |-> Norm(hits[i], group(hits[i])) * Recency(hits[i])]
        at == SetToSortSeq(DOMAIN hits, LAMBDA i, j : final[i] > final[j] \/ (final[i] = final[j] /\ i < j)) IN
    [i \in DOMAIN at |-> hits[at[i]]]

Cut(hits, n) == SubSeq(hits, 1, IF Len(hits) < n THEN Len(hits) ELSE n)

\* inhibit_scores with beta = 0.15, in two-hundredths, over the whole pool.
Activated(hits) == [i \in DOMAIN hits |->
    LET mine == Score[hits[i].row]
        lost == MapThenSumSet(LAMBDA j : Max({0, Score[hits[j].row] - mine}), DOMAIN hits) IN
    [hits[i] EXCEPT !.act = Max({0, 20 * mine - 3 * lost})]]

UpTo == IF c.mode \in {"raw", "kinds"} THEN Limit ELSE Cardinality(Rows)

\* The neighbours' read is the one await outside a guard: it fails the search.
Merge ==
    /\ c # None /\ c.stage = "read" /\ c.todo = <<>> /\ c.mode \in {"raw", "factual", "multi-hop"}
    /\ \/ /\ "graph" \in {h.src : h \in ToSet(c.hits)}
          /\ c' = [c EXCEPT !.stage = "raised"]
       \/ LET more == AsHits(SetToSeq(Neighbours(c.hits)), "expand") IN
          c' = [c EXCEPT !.hits = Activated(Cut(Merged(Distinct(c.hits \o more)), UpTo)), !.stage = "merged"]
    /\ UNCHANGED <<stored, loads>>

\* dense_per_kind: a set-merge by score, neither normalised nor expanded.
MergeKinds ==
    /\ c # None /\ c.stage = "read" /\ c.todo = <<>> /\ c.mode = "kinds"
    /\ LET d == Distinct(c.hits)
           at == SetToSortSeq(DOMAIN d, LAMBDA i, j :
                    Score[d[i].row] > Score[d[j].row] \/ (Score[d[i].row] = Score[d[j].row] /\ i < j)) IN
       c' = [c EXCEPT !.hits = Cut([i \in DOMAIN at |-> d[at[i]]], Limit), !.stage = "done"]
    /\ UNCHANGED <<stored, loads>>

(* --- the dual route --------------------------------------------------- *)

\* R, the activation min-maxed over the pool, in sixtieths.
Relevance(act, lo, hi) == IF hi = lo THEN 60 ELSE (60 * (act - lo)) \div (hi - lo)

\* EDM = R + 0.8 N + 0.3 G - K; a hit that says what one chosen says has K = 1.
Edm(hits, got) == [i \in DOMAIN hits |->
    LET acts == {h.act : h \in ToSet(hits)}
        new == Covers[hits[i].row] \ UNION {Covers[hits[j].row] : j \in got}
        chained == \E j \in got : {hits[i].row, hits[j].row} \in Near
        twin == \E j \in got : Text[hits[j].row] = Text[hits[i].row] IN
    Relevance(hits[i].act, Min(acts), Max(acts)) + (48 * Cardinality(new)) \div Cardinality(Terms)
           + (IF chained THEN 18 ELSE IF twin THEN -60 ELSE 0)]

\* Greedy: the best of the rest, each measured against those already chosen.
Pick(hits, picked) ==
    LET got == {picked[n].i : n \in DOMAIN picked}
        edm == Edm(hits, got)
        best == CHOOSE i \in DOMAIN hits \ got : \A j \in DOMAIN hits \ got :
                    edm[i] > edm[j] \/ (edm[i] = edm[j] /\ i <= j) IN
    Append(picked, [i |-> best, edm |-> edm[best]])
Chosen(hits) == FoldLeft(LAMBDA picked, h : Pick(hits, picked), <<>>, hits)

\* Below 5 % of the best a block is not returned.
Reranked(hits) ==
    LET picked == Chosen(hits)
        top == Max({0} \cup {picked[n].edm : n \in DOMAIN picked})
        kept == {n \in DOMAIN picked : picked[n].edm > 0 /\ 20 * picked[n].edm >= top}
        at == SetToSortSeq(kept, LAMBDA m, n : picked[m].edm > picked[n].edm
                                    \/ (picked[m].edm = picked[n].edm /\ picked[m].i < picked[n].i)) IN
    [k \in DOMAIN at |-> hits[picked[at[k]].i]]

\* The share of the query's terms the top ten cover, below 0.3.
LowConfidence(hits) ==
    10 * Cardinality(UNION {Covers[r] : r \in RowsOf(Cut(hits, 10))}) < 3 * Cardinality(Terms)

\* The gate looks at the first hit's activation: below 0.12 the query is refused.
Gate(hits) == IF hits # <<>> /\ hits[1].act < 24 THEN <<>> ELSE Cut(hits, Limit)
Joined(first, more) == first \o SelectSeq(more, LAMBDA h : h.row \notin RowsOf(first))

Answer ==
    /\ c # None /\ c.stage = "merged"
    /\ c' = IF c.mode = "raw" THEN [c EXCEPT !.stage = "done"]
            ELSE LET hits == Reranked(c.hits) IN
                 IF c.pass = 2
                 THEN [c EXCEPT !.hits = Gate(Joined(c.first, hits)), !.stage = "done"]
                 ELSE IF c.mode = "multi-hop" /\ LowConfidence(c.hits)
                 THEN [Escalation EXCEPT !.first = hits]
                 ELSE [c EXCEPT !.hits = Gate(hits), !.stage = "done"]
    /\ UNCHANGED <<stored, loads>>

\* s2_exhaustive: the whole category, or, below two children, the dense route.
AnswerList ==
    /\ c # None /\ c.mode = "list" /\ c.stage = "read" /\ c.todo = <<>>
    /\ c' = IF Len(c.hits) < 2 THEN Begin("factual", Sources \ {"graph"})
            ELSE [c EXCEPT !.hits = Cut(@, Limit), !.stage = "done"]
    /\ UNCHANGED <<stored, loads>>

\* Every strategy of the router came back empty.
AnswerNothing ==
    /\ c # None /\ c.mode = "router" /\ c.stage = "read" /\ c.todo = <<>>
    /\ c' = [c EXCEPT !.stage = "done"]
    /\ UNCHANGED <<stored, loads>>

Return ==
    /\ c # None /\ c.stage \in {"done", "raised"}
    /\ c' = None
    /\ UNCHANGED <<stored, loads>>

Next ==
    \/ Add \/ Delete \/ IngestLooks \/ IngestLands
    \/ Ask \/ AskRouter \/ Read \/ ReadWords \/ ReadVectors
    \/ Merge \/ MergeKinds \/ Answer \/ AnswerList \/ AnswerNothing \/ Return

Spec == Init /\ [][Next]_vars

(* --- properties ------------------------------------------------------- *)

\* A merge with room left has every row that was there all through the call in
\* a source of the plan that did not fail, itself or its twin; and the router
\* comes back empty only when no strategy of the query had such a row.
NothingFoundIsLost ==
    (c # None /\ ((c.stage = "merged" /\ Len(c.hits) < UpTo)
                   \/ (c.mode = "router" /\ c.stage = "done" /\ c.hits = <<>>)))
    => \A r \in c.at : Where[r] \cap (c.plan \ c.failed) # {}
                        => Text[r] \in {Text[x] : x \in RowsOf(c.hits)}

\* Within one source the merge never puts a hit before one that scores higher
\* and is at least as fresh, whatever came and went while the sources were read.
MergeKeepsOrder ==
    (c # None /\ c.stage = "merged") => \A i, j \in DOMAIN c.hits :
        (i < j /\ c.hits[i].src = c.hits[j].src /\ Recency(c.hits[i]) <= Recency(c.hits[j]))
            => Score[c.hits[i].row] >= Score[c.hits[j].row]
=============================================================================
