------------------------------- MODULE Tools --------------------------------
(***************************************************************************)
(* The memory tools of one owner and layer over the facts of L4: remember, *)
(* forget, the emergency purge, context and its inject, recall, import and *)
(* export, and the scratchpad.  A tool runs on the event loop and awaits   *)
(* between its read and its use: every await below is a pc.  The caches    *)
(* (dedup of a session, context, recall) live in the process; a time to    *)
(* live is an action that may always empty them.                           *)
(***************************************************************************)
EXTENDS Naturals, FiniteSets

CONSTANTS
    Keys, Values,   \* of facts; a query is a key
    MaxClock,       \* bound on the saves: `at` is the order of updated_at
    None

VARIABLES
    facts,    \* core_memory: key -> [val, at], or None
    clock,    \* the last updated_at
    pad,      \* agent_scratchpad: key -> value, or None
    seen,     \* _dedup_cache: the (key, value) of a session, within its TTL
    shown,    \* _context_cache: [vals, raced], or None
    recalls,  \* _recall_cache: query -> [val], or None
    backup,   \* an export on disk: the facts it holds, or None
    call,     \* the writing tool under way: [pc, key, val]
    builder,  \* context: [pc, vals, raced]
    reader,   \* recall: [pc, key, val]
    open      \* history: keys written with no invalidation since

vars == <<facts, clock, pad, seen, shown, recalls, backup, call, builder, reader, open>>

Rows == [val : Values, at : 1..MaxClock]
Shown == [Keys -> Values \cup {None}]
Resting == [pc |-> "idle", key |-> None, val |-> None]
NoBuild == [pc |-> "idle", vals |-> [k \in Keys |-> None], raced |-> FALSE]

TypeOK ==
    /\ facts \in [Keys -> Rows \cup {None}]
    /\ clock \in 0..MaxClock
    /\ pad \in [Keys -> Values \cup {None}]
    /\ seen \in SUBSET (Keys \X Values)
    /\ shown \in [vals : Shown, raced : BOOLEAN] \cup {None}
    /\ recalls \in [Keys -> [val : Values \cup {None}] \cup {None}]
    /\ backup \in [Keys -> Rows \cup {None}] \cup {None}
    /\ call \in [pc : {"idle", "remember", "forget", "promote", "drop", "hooks"},
                 key : Keys \cup {None}, val : Values \cup {None}]
    /\ builder \in [pc : {"idle", "consolidate", "read", "store"}, vals : Shown, raced : BOOLEAN]
    /\ reader \in [pc : {"idle", "read", "store"}, key : Keys \cup {None}, val : Values \cup {None}]
    /\ open \in SUBSET Keys

Init ==
    /\ facts = [k \in Keys |-> None] /\ clock = 0
    /\ pad = [k \in Keys |-> None]
    /\ seen = {} /\ shown = None /\ recalls = [k \in Keys |-> None]
    /\ backup = None
    /\ call = Resting /\ reader = Resting /\ builder = NoBuild
    /\ open = {}

Vals == [k \in Keys |-> IF facts[k] = None THEN None ELSE facts[k].val]

\* A committed change of the facts at `ks`; a build that has read is overtaken.
Wrote(ks) ==
    /\ builder' = IF builder.pc = "store" THEN [builder EXCEPT !.raced = TRUE] ELSE builder
    /\ open' = open \cup ks

Save(k, v) ==
    /\ clock < MaxClock
    /\ clock' = clock + 1
    /\ facts' = [facts EXCEPT ![k] = [val |-> v, at |-> clock + 1]]
    /\ Wrote({k})

Delete(ks) ==
    /\ facts' = [k \in Keys |-> IF k \in ks THEN None ELSE facts[k]]
    /\ Wrote(ks)

\* _invalidate_cache, the last thing of every writing tool but promote: the
\* recall cache is keyed by query and is not part of it.
LeftAlone == shown' = shown
Invalidate == shown' = None

UnderWay == IF call.pc \in {"hooks", "drop"} THEN {call.key} ELSE {}

---------------------------------------------------------------------------
(* memory_remember.  The dedup cache notes the pair before the rate limit  *)
(* and the gate have let the call pass: a repetition of a refused call is  *)
(* answered "skipped" while the entry lives.                               *)
IsDuplicate(k, v) == <<k, v>> \in seen

RememberStarts(k, v, inSession) ==
    /\ call.pc = "idle"
    /\ inSession => ~IsDuplicate(k, v)
    /\ seen' = IF inSession THEN seen \cup {<<k, v>>} ELSE seen
    /\ \/ call' = [pc |-> "remember", key |-> k, val |-> v]
       \/ UNCHANGED call                     \* over the limit, or below the gate
    /\ UNCHANGED <<facts, clock, pad, shown, recalls, backup, builder, reader, open>>

RememberWrites ==
    /\ call.pc = "remember"
    /\ Save(call.key, call.val)
    /\ call' = [call EXCEPT !.pc = "hooks"]
    /\ UNCHANGED <<pad, seen, shown, recalls, backup, reader>>

\* The hooks after the write never raise; then the context cache goes.
CallReturns ==
    /\ call.pc = "hooks"
    /\ Invalidate
    /\ open' = open \ {call.key}
    /\ call' = Resting
    /\ UNCHANGED <<facts, clock, pad, seen, recalls, backup, builder, reader>>

\* A save that raises, and a caller that hangs up: nothing is invalidated.
CallFails ==
    /\ call.pc # "idle"
    /\ call' = Resting
    /\ UNCHANGED <<facts, clock, pad, seen, shown, recalls, backup, builder, reader, open>>

(* forget: one key, exactly or by pattern; the archive it is put into      *)
(* first is the subject of Memories.  A preview only evicts the context.   *)
ForgetStarts(k) ==
    /\ call.pc = "idle"
    /\ \/ /\ facts[k] # None
          /\ call' = [pc |-> "forget", key |-> k, val |-> None]
          /\ UNCHANGED shown
       \/ /\ Invalidate                      \* dry_run, or nothing found
          /\ UNCHANGED call
    /\ UNCHANGED <<facts, clock, pad, seen, recalls, backup, builder, reader, open>>

ForgetDeletes ==
    /\ call.pc = "forget"
    /\ Delete({call.key})
    /\ call' = [call EXCEPT !.pc = "hooks"]
    /\ UNCHANGED <<clock, pad, seen, shown, recalls, backup, reader>>

(* scope "recent" and memory_lucidity_purge: every row newer than a        *)
(* cutoff.  A table whose DELETE raises is reported as 0 rows, and the     *)
(* purge goes on with the next; what is in the bin or an export stays.     *)
Purge(cutoff) ==
    LET hit == {k \in Keys : facts[k] # None /\ facts[k].at > cutoff}
    IN /\ call.pc = "idle"
       /\ \/ facts' = [k \in Keys |-> IF k \in hit THEN None ELSE facts[k]]
          \/ UNCHANGED facts                 \* the delete of this table failed
       /\ builder' = IF builder.pc = "store" THEN [builder EXCEPT !.raced = TRUE] ELSE builder
       /\ Invalidate
       /\ open' = UnderWay
       /\ UNCHANGED <<clock, pad, seen, recalls, backup, call, reader>>

---------------------------------------------------------------------------
(* import_export.  One transaction; a row of the file replaces a live one  *)
(* only when it is newer, and a forgotten fact comes back.                 *)
Export ==
    /\ backup' = facts
    /\ UNCHANGED <<facts, clock, pad, seen, shown, recalls, call, builder, reader, open>>

AlwaysNewer(k) == TRUE
Newer(k) == facts[k] = None \/ backup[k].at > facts[k].at
Wins(k) == backup[k] # None /\ Newer(k)

Import ==
    /\ backup # None
    /\ call.pc = "idle"
    /\ facts' = [k \in Keys |-> IF Wins(k) THEN backup[k] ELSE facts[k]]
    /\ builder' = IF builder.pc = "store" THEN [builder EXCEPT !.raced = TRUE] ELSE builder
    /\ Invalidate
    /\ open' = UnderWay
    /\ UNCHANGED <<clock, pad, seen, recalls, backup, call, reader>>

---------------------------------------------------------------------------
(* memory_context and memory_context_inject.  The inject first moves heavy *)
(* episodes into L4, then both read the facts and, awaits later, store.    *)
ContextStarts(inject) ==
    /\ builder.pc = "idle"
    /\ shown = None                          \* a live entry is the answer
    /\ builder' = [builder EXCEPT !.pc = IF inject THEN "consolidate" ELSE "read"]
    /\ UNCHANGED <<facts, clock, pad, seen, shown, recalls, backup, call, reader, open>>

InjectConsolidates ==
    /\ builder.pc = "consolidate"
    /\ builder' = [builder EXCEPT !.pc = "read"]
    /\ \/ \E k \in Keys, v \in Values :
            /\ clock < MaxClock
            /\ clock' = clock + 1
            /\ facts' = [facts EXCEPT ![k] = [val |-> v, at |-> clock + 1]]
            /\ Invalidate
            /\ open' = UnderWay
       \/ UNCHANGED <<facts, clock, shown, open>>   \* it raised: logged
    /\ UNCHANGED <<pad, seen, recalls, backup, call, reader>>

ContextReads ==
    /\ builder.pc = "read"
    /\ builder' = [pc |-> "store", vals |-> Vals, raced |-> FALSE]
    /\ UNCHANGED <<facts, clock, pad, seen, shown, recalls, backup, call, reader, open>>

ContextStores ==
    /\ builder.pc = "store"
    /\ shown' = [vals |-> builder.vals, raced |-> builder.raced]
    /\ builder' = NoBuild
    /\ UNCHANGED <<facts, clock, pad, seen, recalls, backup, call, reader, open>>

(* memory_recall: read after a miss, kept afterwards; no writer drops it.  *)
RecallStarts(k) ==
    /\ reader.pc = "idle"
    /\ recalls[k] = None
    /\ reader' = [pc |-> "read", key |-> k, val |-> None]
    /\ UNCHANGED <<facts, clock, pad, seen, shown, recalls, backup, call, builder, open>>

RecallReads ==
    /\ reader.pc = "read"
    /\ reader' = [reader EXCEPT !.pc = "store", !.val = Vals[reader.key]]
    /\ UNCHANGED <<facts, clock, pad, seen, shown, recalls, backup, call, builder, open>>

RecallKeeps ==
    /\ reader.pc = "store"
    /\ recalls' = [recalls EXCEPT ![reader.key] = [val |-> reader.val]]
    /\ reader' = Resting
    /\ UNCHANGED <<facts, clock, pad, seen, shown, backup, call, builder, open>>

---------------------------------------------------------------------------
(* The scratchpad: one entry a key; promote reads the entry, saves it as a *)
(* fact and clears the key, whatever the pad holds by then.  It tells no   *)
(* cache.                                                                  *)
PadWrite(k, v) ==
    /\ pad' = [j \in Keys |-> IF j = k THEN v ELSE pad[j]]
    /\ UNCHANGED <<facts, clock, seen, shown, recalls, backup, call, builder, reader, open>>

PadEvicts(k) ==                              \* the cap, and an explicit clear
    /\ pad[k] # None
    /\ pad' = [pad EXCEPT ![k] = None]
    /\ UNCHANGED <<facts, clock, seen, shown, recalls, backup, call, builder, reader, open>>

PromoteReads(k) ==
    /\ call.pc = "idle"
    /\ pad[k] # None
    /\ call' = [pc |-> "promote", key |-> k, val |-> pad[k]]
    /\ UNCHANGED <<facts, clock, pad, seen, shown, recalls, backup, builder, reader, open>>

PromoteSaves ==
    /\ call.pc = "promote"
    /\ Save(call.key, call.val)
    /\ call' = [call EXCEPT !.pc = "drop"]
    /\ UNCHANGED <<pad, seen, shown, recalls, backup, reader>>

PromoteClears ==
    /\ call.pc = "drop"
    /\ pad' = [pad EXCEPT ![call.key] = None]
    /\ call' = Resting
    /\ UNCHANGED <<facts, clock, seen, shown, recalls, backup, builder, reader, open>>

---------------------------------------------------------------------------
Expire ==                                    \* a time to live runs out
    /\ \/ seen # {} /\ seen' = {} /\ UNCHANGED <<shown, recalls, open>>
       \/ shown # None /\ Invalidate /\ open' = UnderWay /\ UNCHANGED <<seen, recalls>>
       \/ \E k \in Keys :
            /\ recalls[k] # None
            /\ recalls' = [recalls EXCEPT ![k] = None]
            /\ UNCHANGED <<seen, shown, open>>
    /\ UNCHANGED <<facts, clock, pad, backup, call, builder, reader>>

Next ==
    \/ \E k \in Keys, v \in Values, s \in BOOLEAN : RememberStarts(k, v, s)
    \/ RememberWrites \/ CallReturns \/ CallFails
    \/ \E k \in Keys : ForgetStarts(k) \/ RecallStarts(k) \/ PadEvicts(k) \/ PromoteReads(k)
    \/ ForgetDeletes
    \/ \E c \in 0..MaxClock : Purge(c)
    \/ Export \/ Import
    \/ \E b \in BOOLEAN : ContextStarts(b)
    \/ InjectConsolidates \/ ContextReads \/ ContextStores
    \/ RecallReads \/ RecallKeeps
    \/ \E k \in Keys, v \in Values : PadWrite(k, v)
    \/ PromoteSaves \/ PromoteClears
    \/ Expire

Spec == Init /\ [][Next]_vars

---------------------------------------------------------------------------
(* A cached context that was not overtaken while it was built shows the    *)
(* facts as they are, except for keys whose writer has not come to its     *)
(* invalidation, or never will (a promotion, a caller that hung up): the   *)
(* tools that end leave no context behind that denies what they did.       *)
StaleOnlyByRace ==
    (shown # None /\ ~shown.raced) => \A k \in Keys \ open : shown.vals[k] = Vals[k]

(* Of every step: an import never puts an older value in the place of a newer one. *)
NewestWins ==
    \A k \in Keys : (facts[k] # None /\ facts'[k] # None) => facts'[k].at >= facts[k].at
=============================================================================
