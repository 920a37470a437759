------------------------------ MODULE Assembly ------------------------------
(***************************************************************************)
(* The blocks a session is given within a budget of tokens: the recall     *)
(* protocol, the recap of a new session, the inject, wake_up (a recap in   *)
(* half of the budget, then an inject in what is left), and the smart      *)
(* context.  Each walks its axes in a fixed order; an axis yields texts    *)
(* one at a time, or raises.  A text stands for its normalised content.    *)
(***************************************************************************)
EXTENDS Naturals, Sequences, FiniteSets, SequencesExt

CONSTANTS
    Texts, Costs,   \* what an axis may yield, and the tokens it takes
    Budget,         \* of one call
    MaxBlocks,      \* bound on the blocks of one call
    Sources,        \* of the smart context, as a sequence, heaviest first
    Weight,         \* source -> percent
    MinCeiling,     \* a source of the smart context may always grow to this
    MaxHits,        \* bound on what a source of the smart context offers
    Idle

VARIABLES
    call,     \* the tool that was called, or Idle
    stage,    \* the builder at work: "recall", "zero", "recap", "inject", "done"
    axis,     \* its position in that builder's axes
    blocks,   \* what has been admitted: <<[axis, text, cost]>>
    left,     \* the builder's remaining tokens
    spare,    \* wake_up: what the inject will be given on top of `left`
    seen,     \* the normalised texts of this recall
    failed,   \* recap: the axes that raised
    cand      \* smart context: source -> the texts it offered

vars == <<call, stage, axis, blocks, left, spare, seen, failed, cand>>

Calls == {"recall", "zero", "recap", "inject", "wake_up", "smart"}

Axes ==
    [recall |-> <<"markers", "session", "episodes", "triggered", "semantic", "day">>,
     zero   |-> <<"markers", "day">>,
     recap  |-> <<"session", "checkpoint", "notes", "pending">>,
     inject |-> <<"pinned", "relevant", "recent", "gap", "scratchpad", "rehydrate",
                  "proposals", "triggered", "important", "insight">>]

Candidates == [text : Texts, cost : Costs]
NoHits == [s \in Range(Sources) |-> <<>>]
Marker == [axis |-> "cache_break", text |-> "<cache:break>", cost |-> 1]

TypeOK ==
    /\ call \in Calls \cup {Idle}
    /\ stage \in {"recall", "zero", "recap", "inject", "done"}
    /\ axis \in 1..11
    /\ blocks \in Seq([axis : STRING, text : Texts \cup {Marker.text, "degraded", "any"}, cost : Nat])
    /\ left \in 0..Budget /\ spare \in 0..Budget
    /\ seen \in SUBSET Texts
    /\ failed \in SUBSET Range(Axes.recap)
    /\ cand \in [Range(Sources) -> Seq(Candidates)]

Init ==
    /\ call = Idle /\ stage = "done" /\ axis = 1
    /\ blocks = <<>> /\ left = 0 /\ spare = 0
    /\ seen = {} /\ failed = {} /\ cand = NoHits

CostOf(bs) == FoldLeft(LAMBDA sum, b : sum + b.cost, 0, bs)

---------------------------------------------------------------------------
(* A call.  wake_up gives the recap half of the budget.                    *)
Called(c) ==
    /\ call = Idle
    /\ c # "smart"
    /\ call' = c
    /\ stage' = IF c = "wake_up" THEN "recap" ELSE c
    /\ left' = IF c = "wake_up" THEN Budget \div 2 ELSE Budget
    /\ spare' = Budget - left'
    /\ axis' = 1
    /\ UNCHANGED <<blocks, seen, failed, cand>>

AtAxis == stage # "done" /\ axis <= Len(Axes[stage])
Here == Axes[stage][axis]

\* _add: the recalls skip a text they have, the other builders do not look.
Dedups == stage \in {"recall", "zero"}
Fresh(t) == Dedups => t \notin seen
Affordable(c) == c.cost <= left
Admits(c) == Affordable(c) /\ Fresh(c.text)

Offer(c) ==
    /\ AtAxis
    /\ Len(blocks) < MaxBlocks
    /\ Admits(c)
    /\ blocks' = Append(blocks, [axis |-> Here, text |-> IF Dedups THEN c.text ELSE "any", cost |-> c.cost])
    /\ left' = left - c.cost
    /\ seen' = IF Dedups THEN seen \cup {c.text} ELSE seen
    /\ UNCHANGED <<call, stage, axis, spare, failed, cand>>

\* The markers are joined into one block whose parts are noted as well.
OfferMarkers(cs) ==
    /\ AtAxis /\ Here = "markers"
    /\ Len(blocks) < MaxBlocks
    /\ Affordable(cs)
    /\ blocks' = Append(blocks, [axis |-> Here, text |-> cs.text, cost |-> cs.cost])
    /\ left' = left - cs.cost
    /\ seen' = Texts
    /\ UNCHANGED <<call, stage, axis, spare, failed, cand>>

NextAxis ==
    /\ AtAxis
    /\ axis' = axis + 1
    /\ UNCHANGED <<call, stage, blocks, left, spare, seen, failed, cand>>

\* These reads of the inject stand outside of a try: the call raises.
Unguarded == stage = "inject" /\ Here \in {"relevant", "recent", "important"}

Raises ==
    /\ AtAxis /\ Unguarded
    /\ call' = Idle /\ stage' = "done" /\ axis' = 1
    /\ blocks' = <<>> /\ left' = 0 /\ spare' = 0
    /\ seen' = {} /\ failed' = {}
    /\ UNCHANGED cand

\* Any other axis that raises is logged; the recap remembers which.
AxisFails ==
    /\ AtAxis
    /\ ~Unguarded
    /\ axis' = axis + 1
    /\ failed' = IF stage = "recap" THEN failed \cup {Here} ELSE failed
    /\ UNCHANGED <<call, stage, blocks, left, spare, seen, cand>>

---------------------------------------------------------------------------
(* The recap names the axes that died, if that still fits, and goes on     *)
(* with the zero state of a recall in its own budget.                      *)
RecapTail ==
    /\ stage = "recap" /\ axis > Len(Axes.recap)
    /\ \E cost \in Costs :
         IF failed # {} /\ cost <= left
         THEN /\ blocks' = Append(blocks, [axis |-> "recap_degraded", text |-> "degraded", cost |-> cost])
              /\ left' = left - cost
         ELSE UNCHANGED <<blocks, left>>
    /\ stage' = "zero" /\ axis' = 1
    /\ UNCHANGED <<call, spare, seen, failed, cand>>

\* wake_up's inject gets what the recap did not use.
WholeBudget == Budget
LeftOver == left + spare

RecallEnds ==
    /\ stage \in {"recall", "zero"} /\ axis > Len(Axes[stage])
    /\ axis' = 1
    /\ seen' = {}
    /\ IF call = "wake_up"
       THEN stage' = "inject" /\ left' = LeftOver /\ spare' = 0
       ELSE stage' = "done" /\ UNCHANGED <<left, spare>>
    /\ UNCHANGED <<call, blocks, failed, cand>>

\* The query-independent blocks first; a marker between the two groups.
IsStable(b) == b.axis \in {"rehydrate", "important", "pinned", "insight"}
Ordered(bs) ==
    LET stable == SelectSeq(bs, IsStable)
        dynamic == SelectSeq(bs, LAMBDA b : ~IsStable(b))
    IN IF stable # <<>> /\ dynamic # <<>> THEN stable \o <<Marker>> \o dynamic ELSE bs

\* _apply_kind_policy: a kind may be capped; what it loses is not given back.
Capped == {"none", "important", "gap"}
WithoutKind(bs, kind) == SelectSeq(bs, LAMBDA b : b.axis # kind)

InjectEnds ==
    /\ stage = "inject" /\ axis > Len(Axes.inject)
    /\ stage' = "done" /\ axis' = 1
    /\ \E kind \in Capped : blocks' = WithoutKind(Ordered(blocks), kind)
    /\ UNCHANGED <<call, left, spare, seen, failed, cand>>

---------------------------------------------------------------------------
(* build_smart_context.  First every source is filled up to its floor,     *)
(* then what is over goes to the sources in order of weight, none of them  *)
(* beyond twice its floor.                                                 *)
Floor(s) == (Budget * Weight[s]) \div 100
Ceiling(s) == IF 2 * Floor(s) > MinCeiling THEN 2 * Floor(s) ELSE MinCeiling
Least(a, b) == IF a < b THEN a ELSE b

TryAdd(st, s, c, cap) ==
    IF c.text \in st.seen \/ st.used[s] + c.cost > cap THEN st
    ELSE [st EXCEPT !.seen = @ \cup {c.text},
                    !.used[s] = @ + c.cost,
                    !.left = @ - c.cost,
                    !.blocks = Append(@, [axis |-> s, text |-> c.text, cost |-> c.cost])]

Fill(st, s, cap, offer) == FoldLeft(LAMBDA acc, c : TryAdd(acc, s, c, cap), st, offer)

FirstComeFirstServed(st, offers) == 
    FoldLeft(LAMBDA acc, s : Fill(acc, s, acc.used[s] + acc.left, offers[s]), st, Sources)

FirstPass(st, offers) == FoldLeft(LAMBDA acc, s : Fill(acc, s, Floor(s), offers[s]), st, Sources)

SecondPass(st, offers) ==
    FoldLeft(LAMBDA acc, s : Fill(acc, s, Least(acc.used[s] + acc.left, Ceiling(s)), offers[s]), st, Sources)

Smart(offers) ==
    /\ call = Idle
    /\ call' = "smart"
    /\ cand' = offers
    /\ LET start == [blocks |-> <<>>, seen |-> {}, left |-> Budget, used |-> [s \in Range(Sources) |-> 0]]
           st == SecondPass(FirstPass(start, offers), offers)
       IN /\ blocks' = st.blocks
          /\ left' = st.left
    /\ UNCHANGED <<stage, axis, spare, seen, failed>>

Return ==
    /\ call # Idle /\ stage = "done"
    /\ call' = Idle
    /\ blocks' = <<>> /\ left' = 0 /\ spare' = 0
    /\ seen' = {} /\ failed' = {} /\ cand' = NoHits
    /\ UNCHANGED <<stage, axis>>

Next ==
    \/ \E c \in Calls : Called(c)
    \/ \E c \in Candidates : Offer(c) \/ OfferMarkers(c)
    \/ NextAxis \/ AxisFails \/ Raises \/ RecapTail \/ RecallEnds \/ InjectEnds
    \/ \E offers \in [Range(Sources) -> BoundedSeq(Candidates, MaxHits)] : Smart(offers)
    \/ Return

Spec == Init /\ [][Next]_vars

---------------------------------------------------------------------------
(* No builder hands out more than it was given, however its axes fail and  *)
(* whatever they offer: wake_up's two halves share one budget, and the     *)
(* second pass of the smart context spends what the first one left.  (The  *)
(* marker between the two groups of an inject is the one block that debits *)
(* nothing.)                                                               *)
WithinBudget ==
    CostOf(SelectSeq(blocks, LAMBDA b : b # Marker)) <= Budget

(* No source of the smart context starves another: one that offers no more *)
(* than its floor has every text it offered handed out.                    *)
NoSourceStarves ==
    call = "smart" =>
        \A s \in Range(Sources) :
            CostOf(cand[s]) <= Floor(s) =>
                \A i \in DOMAIN cand[s] : \E j \in DOMAIN blocks : blocks[j].text = cand[s][i].text
=============================================================================
