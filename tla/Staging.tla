------------------------------- MODULE Staging -------------------------------
(***************************************************************************)
(* Staged mutations (features/staging.py): a write that needs a review is  *)
(* recorded as a proposal, decided by a tool call, by the automatic lane   *)
(* or by expiry, applied by the code the direct path would have run, and   *)
(* perhaps reverted.                                                       *)
(*                                                                         *)
(* A dispatcher call is one step.  decide() and revert() make several, and *)
(* so does the automatic lane: everything interleaves there.               *)
(* Time is the age of a decision, or of a pending proposal, in days.       *)
(***************************************************************************)
EXTENDS Naturals

CONSTANTS
    Keys, Values,  \* identities of keyed proposals, and their payloads
    Low,           \* the payloads that the promotion gate refuses
    Deciders,      \* callers of decide() and revert()
    MaxRows,       \* bound on the proposals ever recorded
    ExpireDays, PurgeAfterDays,
    None

VARIABLES
    rows,    \* mutation_proposals: id -> [key, payload, status, age]
    core,    \* the facts applied: key -> payload, or None
    bin,     \* what archives took: key -> payload, or None
    decider, \* per caller, what it has read: [pc, id, key, payload]
    denied   \* history: key -> days since its last denial, or None

vars == <<rows, core, bin, decider, denied>>

Ids == 1..MaxRows
Decided == {"rejected", "expired"}

\* Mutants: the window of the tombstones is not the floor of the purge; a
\* pending proposal does not absorb.
PurgeDaysAsConfigured == PurgeAfterDays
NothingPending(k) == {}

PurgeDays == IF PurgeAfterDays > ExpireDays THEN PurgeAfterDays ELSE ExpireDays
Ages == 0..PurgeDays + 1
Payloads == Values \cup Keys \cup {None}  \* an archive's payload is the key it takes
NobodyDecides == [pc |-> "idle", id |-> 1, key |-> None, payload |-> None]
Empty == [key |-> None, payload |-> None, status |-> "none", age |-> 0]

TypeOK ==
    /\ rows \in [Ids -> [key : Keys \cup {None}, payload : Payloads, age : Ages,
                         status : {"none", "pending", "applied", "rejected", "expired", "reverted", "purged"}]]
    /\ core \in [Keys -> Values \cup {None}] /\ bin \in [Keys -> Values \cup {None}]
    /\ decider \in [Deciders -> [pc : {"idle", "approving", "rejecting", "applied", "reverting", "undone", "unpromoting"},
                                 id : Ids, key : Keys \cup {None}, payload : Payloads]]
    /\ denied \in [Keys -> Ages \cup {None}]

Init ==
    /\ rows = [i \in Ids |-> Empty]
    /\ core = [k \in Keys |-> None] /\ bin = [k \in Keys |-> None]
    /\ decider = [d \in Deciders |-> NobodyDecides]
    /\ denied = [k \in Keys |-> None]

------------------------------------------------------------------------------
(* Proposing *)

Pending(k) == {i \in Ids : rows[i].key = k /\ rows[i].status = "pending"}
Tombstones(k) == {i \in Ids : rows[i].key = k /\ rows[i].status \in Decided /\ rows[i].age < ExpireDays}
Free == {i \in Ids : rows[i].status = "none"}
Next1(S) == CHOOSE i \in S : \A j \in S : i <= j

Insert(k, payload) ==
    /\ Free # {}
    /\ rows' = [rows EXCEPT ![Next1(Free)] = [key |-> k, payload |-> payload, status |-> "pending", age |-> 0]]

Absorb(k, payload) == rows' = [rows EXCEPT ![Next1(Pending(k))].payload = payload, ![Next1(Pending(k))].age = 0]

\* A recent denial answers for the key, a pending proposal absorbs the payload.
Propose(k, v) ==
    /\ Tombstones(k) = {}
    /\ IF Pending(k) # {} THEN Absorb(k, v) ELSE Insert(k, v)
    /\ UNCHANGED <<core, bin, decider, denied>>

\* A consolidation or an archive has neither key nor title: nothing absorbs it
\* and no tombstone stops it.
ProposeKeyless(p) ==
    /\ Insert(None, p)
    /\ UNCHANGED <<core, bin, decider, denied>>

------------------------------------------------------------------------------
(* Deciding: the row is read, the write is done, the verdict is recorded *)

At(d, pc) == decider[d].pc = pc
Move(d, pc) == decider' = [decider EXCEPT ![d].pc = pc]
Leave(d) == decider' = [decider EXCEPT ![d] = NobodyDecides]
Read(d, i, pc) == /\ At(d, "idle")
                  /\ decider' = [decider EXCEPT ![d] = [pc |-> pc, id |-> i, key |-> rows[i].key, payload |-> rows[i].payload]]

Decide(d, i) ==
    /\ rows[i].status = "pending"
    /\ Read(d, i, "approving") \/ Read(d, i, "rejecting")
    /\ UNCHANGED <<rows, core, bin, denied>>

PassesGate(payload) == payload \notin Low

\* The automatic lane approves what the promotion gate would let through; it
\* decides from its own list, which may be older than the row.
AutoApply(d, i) ==
    /\ rows[i].key # None /\ rows[i].status = "pending" /\ PassesGate(rows[i].payload)
    /\ Read(d, i, "approving")
    /\ UNCHANGED <<rows, core, bin, denied>>

\* Recorded whatever the status has become meanwhile; a purged row is no row.
Record(i, status) ==
    /\ rows' = IF rows[i].status = "purged" THEN rows ELSE [rows EXCEPT ![i].status = status, ![i].age = 0]
    /\ denied' = IF rows[i].key = None THEN denied
                 ELSE [denied EXCEPT ![rows[i].key] = IF status \in Decided THEN 0 ELSE None]

Reject(d) ==
    /\ At(d, "rejecting")
    /\ Record(decider[d].id, "rejected")
    /\ Leave(d)
    /\ UNCHANGED <<core, bin>>

\* A save, or the archiving of what is there.
Apply(d) ==
    /\ At(d, "approving")
    /\ LET k == decider[d].key  what == decider[d].payload IN
          IF k \in Keys THEN core' = [core EXCEPT ![k] = what] /\ UNCHANGED bin
          ELSE IF what \in Keys /\ core[what] # None
          THEN core' = [core EXCEPT ![what] = None] /\ bin' = [bin EXCEPT ![what] = core[what]]
          ELSE UNCHANGED <<core, bin>>
    /\ Move(d, "applied")
    /\ UNCHANGED <<rows, denied>>

\* The write raises, or the process dies before the verdict is recorded.
ApplyFails(d) ==
    /\ At(d, "approving") \/ At(d, "applied")
    /\ Leave(d)
    /\ UNCHANGED <<rows, core, bin, denied>>

RecordApplied(d) ==
    /\ At(d, "applied")
    /\ Record(decider[d].id, "applied")
    /\ Leave(d)
    /\ UNCHANGED <<core, bin>>

\* Only a kind with exact provenance can be undone.
Revert(d, i) ==
    /\ rows[i].status = "applied"
    /\ rows[i].key \in Keys \/ rows[i].payload \in Keys
    /\ Read(d, i, "reverting")
    /\ UNCHANGED <<rows, core, bin, denied>>

\* Undoing a fact forgets its key, whatever it holds by now.
Forget(d) ==
    /\ At(d, "reverting") /\ decider[d].key \in Keys
    /\ core' = [core EXCEPT ![decider[d].key] = None]
    /\ Move(d, "undone")
    /\ UNCHANGED <<rows, bin, denied>>

\* An archived row goes back; a key that was written again since, or a row that
\* is gone, is refused and counted, and the proposal counts as reverted.
Restore(d) ==
    /\ At(d, "reverting") /\ decider[d].key = None
    /\ LET k == decider[d].payload IN
          IF bin[k] # None /\ core[k] = None
          THEN core' = [core EXCEPT ![k] = bin[k]] /\ bin' = [bin EXCEPT ![k] = None]
          ELSE UNCHANGED <<core, bin>>
    /\ Move(d, "undone")
    /\ UNCHANGED <<rows, denied>>

RecordReverted(d) ==
    /\ At(d, "undone")
    /\ Record(decider[d].id, "reverted")
    /\ Leave(d)
    /\ UNCHANGED <<core, bin>>

\* revert_transition finds the key of the promoted row, and deletes by key.
RevertTransition(d, k) ==
    /\ At(d, "idle") /\ core[k] # None
    /\ decider' = [decider EXCEPT ![d] = [NobodyDecides EXCEPT !.pc = "unpromoting", !.key = k]]
    /\ UNCHANGED <<rows, core, bin, denied>>

DeletePromoted(d) ==
    /\ At(d, "unpromoting")
    /\ core' = [core EXCEPT ![decider[d].key] = None]
    /\ Leave(d)
    /\ UNCHANGED <<rows, bin, denied>>

------------------------------------------------------------------------------
(* Time, expiry and purge *)

Older(age) == IF age > PurgeDays THEN age ELSE age + 1

Day ==
    /\ rows' = [i \in Ids |-> IF rows[i].status \in Decided \cup {"pending"} THEN [rows[i] EXCEPT !.age = Older(@)] ELSE rows[i]]
    /\ denied' = [k \in Keys |-> IF denied[k] = None THEN None ELSE Older(denied[k])]
    /\ UNCHANGED <<core, bin, decider>>

Expirable == {i \in Ids : rows[i].status = "pending" /\ rows[i].age > ExpireDays}

ExpireStale ==
    /\ Expirable # {}
    /\ rows' = [i \in Ids |-> IF i \in Expirable THEN [rows[i] EXCEPT !.status = "expired", !.age = 0] ELSE rows[i]]
    /\ denied' = [k \in Keys |-> IF \E i \in Expirable : rows[i].key = k THEN 0 ELSE denied[k]]
    /\ UNCHANGED <<core, bin, decider>>

Purgeable == {i \in Ids : rows[i].status \in Decided /\ rows[i].age > PurgeDays}

Purge ==
    /\ Purgeable # {}
    /\ rows' = [i \in Ids |-> IF i \in Purgeable THEN [Empty EXCEPT !.status = "purged"] ELSE rows[i]]
    /\ UNCHANGED <<core, bin, decider, denied>>

Next ==
    \/ \E k \in Keys, v \in Values : Propose(k, v)
    \/ \E p \in Values \cup Keys : ProposeKeyless(p)
    \/ \E d \in Deciders, i \in Ids : Decide(d, i) \/ AutoApply(d, i) \/ Revert(d, i)
    \/ \E d \in Deciders, k \in Keys : RevertTransition(d, k)
    \/ \E d \in Deciders : \/ Reject(d) \/ Apply(d) \/ ApplyFails(d) \/ RecordApplied(d)
                           \/ Forget(d) \/ Restore(d) \/ RecordReverted(d) \/ DeletePromoted(d)
    \/ Day \/ ExpireStale \/ Purge

Spec == Init /\ [][Next]_vars

------------------------------------------------------------------------------
(* Properties *)

\* The review queue holds no two indistinguishable proposals, however the
\* decisions, the expiry and repeated proposals interleave (propose).
NoTwinPending ==
    \A i, j \in Ids : rows[i].status = "pending" /\ rows[j].status = "pending" /\ rows[i].key = rows[j].key
                       => i = j \/ rows[i].key = None

\* Of every step: a key that was rejected, or that expired, is not staged again before its
\* window is over: no purge, late verdict or revert lifts the tombstone early
\* (propose, purge_decided_past_window).
NoRestageInWindow ==
    \A i \in Ids : rows[i].status = "none" /\ rows'[i].status = "pending" /\ rows'[i].key \in Keys
       => denied[rows'[i].key] = None \/ denied[rows'[i].key] >= ExpireDays
=============================================================================
