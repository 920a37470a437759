------------------------------ MODULE Versions ------------------------------
(***************************************************************************)
(* Branches, snapshots and roll-backs of the facts of one owner: a branch  *)
(* is a copy of the base layer under another layer name, a snapshot its    *)
(* payload, and every save or delete of CoreMemory appends what it changed *)
(* to a ledger from which one mutation can be undone.                      *)
(*                                                                         *)
(* One save or delete is one transaction; creating, merging or restoring   *)
(* takes several, and other calls run between them.  Archiving takes a     *)
(* fact away without the ledger.  A fact is its value, and its timeline is *)
(* known by the intervals that are open.                                   *)
(***************************************************************************)
EXTENDS Naturals, Sequences, FiniteSets

CONSTANTS
    Keys, Values,
    MaxLedger,   \* bound on the ledger
    None

VARIABLES
    facts,    \* layer -> key -> value or None; the layers are the base and its branch
    open,     \* core_memory_temporal: layer -> key -> values of the intervals without an end
    snapshot, \* key -> value or None, or None before it is taken
    ledger,   \* sequence of [layer, key, old, new]
    restorer, \* snapshot_restore: [pc, delete, save, touched]
    merger    \* merge_branch: [pc, todo]

vars == <<facts, open, snapshot, ledger, restorer, merger>>

Layers == {"base", "branch"}
Maybe == Values \cup {None}
Mutation == [layer : Layers, key : Keys, old : Maybe, new : Maybe]
Empty == [k \in Keys |-> None]
NoRestore == [pc |-> "idle", delete |-> {}, save |-> {}, touched |-> {}]
NoMerge == [pc |-> "idle", todo |-> {}]

TypeOK ==
    /\ facts \in [Layers -> [Keys -> Maybe]]
    /\ open \in [Layers -> [Keys -> SUBSET Values]]
    /\ snapshot \in [Keys -> Maybe] \cup {None}
    /\ ledger \in Seq(Mutation) /\ Len(ledger) <= MaxLedger
    /\ restorer \in [pc : {"idle", "delete", "save", "done"}, delete : SUBSET Keys, save : SUBSET Keys, touched : SUBSET Keys]
    /\ merger \in [pc : {"idle", "diffed"}, todo : SUBSET Keys]

Init ==
    /\ facts = [l \in Layers |-> Empty]
    /\ open = [l \in Layers |-> [k \in Keys |-> {}]]
    /\ snapshot = None
    /\ ledger = <<>>
    /\ restorer = NoRestore
    /\ merger = NoMerge

Held(l) == {k \in Keys : facts[l][k] # None}

\* Mutant: the row of the ledger is read after the update.
AfterTheUpdate(l, k, v) == [layer |-> l, key |-> k, old |-> v, new |-> v]

Recorded(l, k, v) == [layer |-> l, key |-> k, old |-> facts[l][k], new |-> v]

\* Mutant: a save opens its interval and leaves the former one open.
OneMore(l, k, v) == IF v = None THEN {} ELSE open[l][k] \cup {v}

\* A save closes what is open for the key and opens an interval; a delete closes.
Opened(l, k, v) == {v} \ {None}

\* CoreMemory.save, and delete for v = None: row, ledger and timeline in one
\* transaction.
Put(l, k, v) ==
    /\ Len(ledger) < MaxLedger
    /\ facts' = [facts EXCEPT ![l][k] = v]
    /\ open' = [open EXCEPT ![l][k] = Opened(l, k, v)]
    /\ ledger' = Append(ledger, Recorded(l, k, v))

\* A delete of what is not there changes nothing and is not recorded.
Erase(l, k) == IF facts[l][k] # None THEN Put(l, k, None) ELSE UNCHANGED <<facts, open, ledger>>

\* Somebody else's change to k of the base, as a restore under way counts it.
Disturbs(k) == restorer' = IF restorer.pc = "idle" THEN restorer ELSE [restorer EXCEPT !.touched = @ \cup {k}]

------------------------------------------------------------------------------
Save(k, v) ==
    /\ Put("base", k, v)
    /\ Disturbs(k)
    /\ UNCHANGED <<snapshot, merger>>

Delete(k) ==
    /\ facts["base"][k] # None
    /\ Put("base", k, None)
    /\ Disturbs(k)
    /\ UNCHANGED <<snapshot, merger>>

\* Forgetting takes the row without the ledger, and its interval stays open.
Archive(k) ==
    /\ facts["base"][k] # None
    /\ facts' = [facts EXCEPT !["base"][k] = None]
    /\ Disturbs(k)
    /\ UNCHANGED <<open, snapshot, ledger, merger>>

------------------------------------------------------------------------------
(* Branches *)

\* Refused while the branch has a row.  The copies carry neither ledger rows
\* nor intervals, and a branch that goes leaves its own open.
CreateBranch ==
    /\ Held("branch") = {} /\ Held("base") # {}
    /\ facts' = [facts EXCEPT !["branch"] = facts["base"]]
    /\ UNCHANGED <<open, snapshot, ledger, restorer, merger>>

WriteBranch(k, v) ==
    /\ Put("branch", k, v)
    /\ UNCHANGED <<snapshot, restorer, merger>>

DeleteBranch ==
    /\ Held("branch") # {}
    /\ facts' = [facts EXCEPT !["branch"] = Empty]
    /\ UNCHANGED <<open, snapshot, ledger, restorer, merger>>

Differing == {k \in Held("branch") : facts["branch"][k] # facts["base"][k]}

\* Every differing key, or a pick of them.
MergeDiffs(S) ==
    /\ merger.pc = "idle" /\ S # {} /\ S \subseteq Differing
    /\ merger' = [pc |-> "diffed", todo |-> S]
    /\ UNCHANGED <<facts, open, snapshot, ledger, restorer>>

AfterKey(k) == IF merger.todo = {k} THEN NoMerge ELSE [merger EXCEPT !.todo = @ \ {k}]

\* What the branch holds now; a row gone since the diff is skipped.  What the
\* base holds now is not looked at again.
MergeKey(k) ==
    /\ merger.pc = "diffed" /\ k \in merger.todo
    /\ IF facts["branch"][k] # None
       THEN Put("base", k, facts["branch"][k]) /\ Disturbs(k)
       ELSE UNCHANGED <<facts, open, ledger, restorer>>
    /\ merger' = AfterKey(k)
    /\ UNCHANGED snapshot

MergeDies ==
    /\ merger.pc = "diffed"
    /\ merger' = NoMerge
    /\ UNCHANGED <<facts, open, snapshot, ledger, restorer>>

------------------------------------------------------------------------------
(* Snapshots *)

SnapshotCreate ==
    /\ snapshot = None
    /\ snapshot' = facts["base"]
    /\ UNCHANGED <<facts, open, ledger, restorer, merger>>

InSnapshot == {k \in Keys : snapshot[k] # None}

\* Mutant: what was added since the snapshot is left in place.
NothingExtra == {}

Extra == Held("base") \ InSnapshot

\* The keys are read once, when the restore begins.
Going(r) == [r EXCEPT !.pc = IF r.delete # {} THEN "delete" ELSE IF r.save # {} THEN "save" ELSE "done"]

RestoreBegins ==
    /\ snapshot # None /\ restorer.pc \in {"idle", "done"}
    /\ restorer' = Going([pc |-> "idle", delete |-> Extra, save |-> InSnapshot, touched |-> {}])
    /\ UNCHANGED <<facts, open, snapshot, ledger, merger>>

RestoreDeletes ==
    /\ restorer.pc = "delete"
    /\ \E k \in restorer.delete :
          /\ Erase("base", k)
          /\ restorer' = Going([restorer EXCEPT !.delete = @ \ {k}, !.touched = @ \ {k}])
    /\ UNCHANGED <<snapshot, merger>>

RestoreSaves ==
    /\ restorer.pc = "save"
    /\ \E k \in restorer.save :
          /\ Put("base", k, snapshot[k])
          /\ restorer' = Going([restorer EXCEPT !.save = @ \ {k}, !.touched = @ \ {k}])
    /\ UNCHANGED <<snapshot, merger>>

\* Not one transaction: cut short, it is to be run again.
RestoreDies ==
    /\ restorer.pc # "idle"
    /\ restorer' = NoRestore
    /\ UNCHANGED <<facts, open, snapshot, ledger, merger>>

------------------------------------------------------------------------------
(* Undoing one mutation *)

Rollback(i) ==
    /\ LET m == ledger[i] IN
          /\ IF m.old = None THEN Erase(m.layer, m.key) ELSE Put(m.layer, m.key, m.old)
          /\ IF m.layer = "base" THEN Disturbs(m.key) ELSE UNCHANGED restorer
    /\ UNCHANGED <<snapshot, merger>>

------------------------------------------------------------------------------
Edit == \E k \in Keys : Delete(k) \/ Archive(k) \/ (\E v \in Values : Save(k, v) \/ WriteBranch(k, v))
Branch == CreateBranch \/ DeleteBranch \/ (\E S \in SUBSET Keys : MergeDiffs(S)) \/ (\E k \in Keys : MergeKey(k)) \/ MergeDies
Restore == SnapshotCreate \/ RestoreBegins \/ RestoreDeletes \/ RestoreSaves \/ RestoreDies

Next == Edit \/ Branch \/ Restore \/ (\E i \in 1..Len(ledger) : Rollback(i))

Spec == Init /\ [][Next]_vars

------------------------------------------------------------------------------
\* A restore that ends has made the base what the snapshot holds, but for the
\* keys somebody else changed while it ran; interrupted ones included, once
\* they are run again.
RestoreIsExact ==
    restorer.pc = "done" => \A k \in Keys \ restorer.touched : facts["base"][k] = snapshot[k]

\* What get_at_time may answer for the present.
TrueNow(l, k) == open[l][k]

\* A fact of the base that is there is the one value its timeline gives for now,
\* whatever restores, merges, roll-backs and passes that keep no timeline did.
TimelineIsTrue ==
    \A k \in Held("base") : TrueNow("base", k) = {facts["base"][k]}

\* The rows of one key of the base, by their places in the ledger.
Rows(k) == {i \in DOMAIN ledger : ledger[i].layer = "base" /\ ledger[i].key = k}

\* The ledger is a chain: what a mutation of a key found is what the one before
\* it left, or nothing, when a pass that keeps no ledger took the fact between
\* them; and the last one left what is there, unless it has been taken.
LedgerIsAChain ==
    \A k \in Keys :
        /\ \A i, j \in Rows(k) : i < j /\ ~(\E n \in Rows(k) : i < n /\ n < j) => ledger[j].old \in {ledger[i].new, None}
        /\ \A i \in Rows(k) : (\A n \in Rows(k) : n <= i) => facts["base"][k] \in {ledger[i].new, None}
===============================================================================
