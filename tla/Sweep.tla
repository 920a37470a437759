-------------------------------- MODULE Sweep --------------------------------
(***************************************************************************)
(* The housekeeping leader and its hourly sweep (mcp_server/lifespan.py,    *)
(* shared/dream_buffer.py, lifecycle/consolidation.py).                     *)
(*                                                                          *)
(* Every server of a base tries to become the leader and tries again.  The  *)
(* leader's periodic task, under the maintenance lock, drains the dream     *)
(* buffer of each layer into a proposal (or straight into L4), promotes     *)
(* heavy episodes and throws away old unpromoted items.  Hooks stage items  *)
(* and sessions leave episodes at any moment.                               *)
(***************************************************************************)
EXTENDS Integers, Sequences, FiniteSets, Functions

CONSTANTS
    Servers, Layers, Items,
    Ephemeral,    \* the items the promotion gate refuses
    Window,       \* episodes a sweep looks at (10 in the code)
    MaxEpisodes, MaxStops, MaxFaults, \* bounds
    None

VARIABLES
    role,      \* server -> "down", "follower", "leader"
    tick,      \* where the leader's periodic task is: [pc, layers, items]
    outside,   \* the maintenance lock is held by somebody else of this base
    staging,   \* the configuration: are mutations staged
    buffer,    \* layer -> items in the dream buffer
    kept,      \* items proposed or saved to L4
    episodes,  \* the heavy episodes in order of creation: [layer, kind, seen, facts]; other: events and chat, which stay in L3
    faults

vars == <<role, tick, outside, staging, buffer, kept, episodes, faults>>

Kinds == {"fact", "other"}
Resting == [pc |-> "asleep", layers |-> {}, layer |-> None, items |-> {}]

TypeOK ==
    /\ role \in [Servers -> {"down", "follower", "leader"}]
    /\ tick.pc \in {"asleep", "begin", "layer", "read", "kept", "episodes", "cleanup", "end"}
    /\ tick.layers \subseteq Layers /\ tick.layer \in Layers \cup {None} /\ tick.items \subseteq Items
    /\ outside \in BOOLEAN /\ staging \in BOOLEAN
    /\ buffer \in [Layers -> SUBSET Items] /\ kept \subseteq Items
    /\ \A e \in Range(episodes) : e.layer \in Layers /\ e.kind \in Kinds /\ e.seen \in BOOLEAN /\ e.facts \in 0..1
    /\ faults \in 0..(MaxStops + MaxFaults)

Init ==
    /\ role = [s \in Servers |-> "follower"]
    /\ tick = Resting
    /\ outside = FALSE
    /\ staging \in BOOLEAN
    /\ buffer = [l \in Layers |-> {}]
    /\ kept = {}
    /\ episodes = <<>>
    /\ faults = 0

Leader == {s \in Servers : role[s] = "leader"}

------------------------------------------------------------------------------
(* Leadership *)

Claim(s) ==
    /\ role[s] = "follower" /\ Leader = {}
    /\ role' = [role EXCEPT ![s] = "leader"]
    /\ UNCHANGED <<tick, outside, staging, buffer, kept, episodes, faults>>

\* A claim that raises is a lost claim: the loop waits and tries again, and
\* nothing changes.  A server is shut down or killed: the lock goes with the
\* process, and the periodic task stops between two of its awaits.
Stop(s) ==
    /\ role[s] # "down" /\ faults < MaxStops
    /\ faults' = faults + 1
    /\ role' = [role EXCEPT ![s] = "down"]
    /\ tick' = IF role[s] = "leader" THEN Resting ELSE tick
    /\ UNCHANGED <<outside, staging, buffer, kept, episodes>>

Restart(s) ==
    /\ role[s] = "down"
    /\ role' = [role EXCEPT ![s] = "follower"]
    /\ UNCHANGED <<tick, outside, staging, buffer, kept, episodes, faults>>

------------------------------------------------------------------------------
(* What goes on around the sweep *)

Stage(i, l) ==
    /\ \A m \in Layers : i \notin buffer[m]
    /\ i \notin kept \cup tick.items
    /\ buffer' = [buffer EXCEPT ![l] = @ \cup {i}]
    /\ UNCHANGED <<role, tick, outside, staging, kept, episodes, faults>>

Happens(l, kind) ==
    /\ Len(episodes) < MaxEpisodes
    /\ episodes' = Append(episodes, [layer |-> l, kind |-> kind, seen |-> FALSE, facts |-> 0])
    /\ UNCHANGED <<role, tick, outside, staging, buffer, kept, faults>>

\* The importance sweep, a forgetting ritual or a nightly pass.
OthersStart ==
    /\ tick.pc = "asleep" /\ ~outside
    /\ outside' = TRUE
    /\ UNCHANGED <<role, tick, staging, buffer, kept, episodes, faults>>

OthersFinish ==
    /\ outside
    /\ outside' = FALSE
    /\ UNCHANGED <<role, tick, staging, buffer, kept, episodes, faults>>

------------------------------------------------------------------------------
(* The periodic task of the leader *)

At(pc) == Leader # {} /\ tick.pc = pc
Go(pc) == tick' = [tick EXCEPT !.pc = pc]

Wake ==
    /\ At("asleep") /\ ~outside
    /\ tick' = [Resting EXCEPT !.pc = "layer", !.layers = Layers]
    /\ UNCHANGED <<role, outside, staging, buffer, kept, episodes, faults>>

NextLayer(l) ==
    /\ At("layer") /\ l \in tick.layers
    /\ tick' = [tick EXCEPT !.layers = @ \ {l}, !.layer = l, !.items = buffer[l],
                            !.pc = IF buffer[l] = {} THEN "episodes" ELSE "read"]
    /\ UNCHANGED <<role, outside, staging, buffer, kept, episodes, faults>>

\* The gate drops what could never be applied; the rest is proposed, or saved.
Promotable == tick.items \ Ephemeral

Propose ==
    /\ At("read") /\ staging
    /\ kept' = kept \cup Promotable
    /\ Go("kept")
    /\ UNCHANGED <<role, outside, staging, buffer, episodes, faults>>

\* Saved one by one, each in a transaction of its own.
SaveOne(i) ==
    /\ At("read") /\ ~staging /\ i \in Promotable \ kept
    /\ kept' = kept \cup {i}
    /\ UNCHANGED <<role, tick, outside, staging, buffer, episodes, faults>>

SavedAll ==
    /\ At("read") /\ ~staging /\ Promotable \subseteq kept
    /\ Go("kept")
    /\ UNCHANGED <<role, outside, staging, buffer, kept, episodes, faults>>

\* Mutant: the clear is not scoped to the layer that was drained.
ClearedAnywhere == [l \in Layers |-> {}]

Cleared == [buffer EXCEPT ![tick.layer] = {}]

Clear ==
    /\ At("kept")
    /\ buffer' = Cleared
    /\ Go("episodes")
    /\ UNCHANGED <<role, outside, staging, kept, episodes, faults>>

Unseen(l) == {n \in DOMAIN episodes : episodes[n].layer = l /\ ~episodes[n].seen}

\* The oldest ones.
Candidates(l) == {n \in Unseen(l) : Cardinality({m \in Unseen(l) : m < n}) < Window}

Promoted(e) == [e EXCEPT !.seen = TRUE, !.facts = @ + 1]

\* Mutant: an episode that stays in L3 is not marked.
LeftUnmarked(e) == e

PassedOver(e) == [e EXCEPT !.seen = TRUE]

\* One transaction: the facts and the marks, or neither.
PromoteEpisodes ==
    /\ At("episodes")
    /\ episodes' = [n \in DOMAIN episodes |->
                      IF n \notin Candidates(tick.layer) THEN episodes[n]
                      ELSE IF episodes[n].kind = "fact" THEN Promoted(episodes[n]) ELSE PassedOver(episodes[n])]
    /\ Go("cleanup")
    /\ UNCHANGED <<role, outside, staging, buffer, kept, faults>>

\* Unpromoted items are ephemeral: a day old, or beyond the cap.  Skipped while
\* the shared handle has a transaction open.
CleanupOld ==
    /\ At("cleanup")
    /\ \E old \in SUBSET buffer[tick.layer] : buffer' = [buffer EXCEPT ![tick.layer] = @ \ old]
    /\ Go(IF tick.layers = {} THEN "end" ELSE "layer")
    /\ UNCHANGED <<role, outside, staging, kept, episodes, faults>>

\* Whatever happened, the lock is handed back.
Rest ==
    /\ At("end")
    /\ tick' = Resting
    /\ UNCHANGED <<role, outside, staging, buffer, kept, episodes, faults>>

Raises ==
    /\ Leader # {} /\ tick.pc \notin {"asleep", "end"} /\ faults < MaxStops + MaxFaults
    /\ faults' = faults + 1
    /\ tick' = Resting
    /\ UNCHANGED <<role, outside, staging, buffer, kept, episodes>>

Tick ==
    \/ Wake \/ Propose \/ SavedAll \/ Clear \/ PromoteEpisodes \/ CleanupOld \/ Rest
    \/ \E l \in Layers : NextLayer(l)
    \/ \E i \in Items : SaveOne(i)

Next ==
    \/ \E s \in Servers : Claim(s) \/ Stop(s) \/ Restart(s)
    \/ \E l \in Layers : (\E i \in Items : Stage(i, l)) \/ (\E kind \in Kinds : Happens(l, kind))
    \/ OthersStart \/ OthersFinish \/ Raises \/ Tick

Spec == Init /\ [][Next]_vars

\* A follower tries every minute, the leader ticks, and nobody holds the
\* maintenance lock for ever or just whenever the leader asks (acquire does not
\* wait: an attempt may be lost, not all of them).
FairSpec ==
    /\ Spec
    /\ \A s \in Servers : WF_vars(Claim(s))
    /\ WF_vars(OthersFinish) /\ SF_vars(Wake)
    /\ WF_vars(Tick)

------------------------------------------------------------------------------
(* Properties *)

\* Of every step: an item leaves the buffer of a layer only when that layer is swept, and of
\* the items the sweep has read only those it has kept or the gate refuses.  An
\* item staged while the sweep was proposing goes with them (lifespan,
\* clear_staging).
OnlyLateItemsAreLost ==
    tick.pc # "cleanup" =>
      \A l \in Layers : \A i \in buffer[l] \ buffer'[l] :
         l = tick.layer /\ (i \in tick.items => i \in kept \cup Ephemeral)

\* Every heavy episode is eventually judged, also one behind a window full of
\* episodes that stay in L3, or that arrives while servers come and go
\* (consolidate_episodes, leadership_loop).
Judged(n) == n \in DOMAIN episodes /\ episodes[n].seen
NobodyServes == \A s \in Servers : role[s] = "down"
EveryEpisodeIsJudged ==
    \A n \in 1..MaxEpisodes : (n \in DOMAIN episodes) ~> (Judged(n) \/ NobodyServes)
==============================================================================
