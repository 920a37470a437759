--------------------------- MODULE LayerMigration ---------------------------
(***************************************************************************)
(* scripts/migrate_graph_layers.py: nodes written to the wrong layer move   *)
(* from user to agent.  The inventory writes a manifest, the operator       *)
(* reviews it and asks for the token of its exact bytes, and apply moves    *)
(* what was approved in one transaction, after a snapshot it keeps and      *)
(* before a report it cannot commit together with the database.             *)
(*                                                                          *)
(* The base stays in use: other processes write it whenever no migration    *)
(* holds the write lock, a second operator may run the same manifest, a     *)
(* run may die at any step.  A fingerprint is the content it is taken of.   *)
(***************************************************************************)
EXTENDS Integers, FiniteSets

CONSTANTS
    Nodes,
    Runs,      \* runs of apply
    Evidence,  \* [Nodes -> 0..2]: categories of evidence in the node itself and in its text
    Linked,    \* pairs of nodes joined by an edge
    Excluded,  \* nodes whose text matches an exclude pattern
    MaxWrites, \* bound on the writes of other processes
    MaxInventories, \* bound on the inventories taken
    MaxReviews, \* bound on the decisions the operator changes
    None

VARIABLES
    base,      \* [layer, other]: the layer of each node, and everything else in the file
    manifest,  \* the manifest file: [print, cand], or None
    token,     \* the bytes whose token the operator holds
    lock,      \* the run that holds the write lock
    run,       \* run -> [pc, man, level, moves]
    snaps,     \* snapshots installed in the snapshot directory
    reports,   \* [temp, final]: recovery reports, and reports moved into place
    commits,   \* history: [before, report] of every migration committed
    count      \* [inventories, reviews], for the bounds

vars == <<base, manifest, token, lock, run, snaps, reports, commits, count>>

Layers == {"user", "agent", "absent"}
Decisions == {"approve", "review", "exclude"}
Confidences == {"medium", "high"}
Candidates == [confidence : Confidences, decision : Decisions] \cup {None}
Bases == [layer : [Nodes -> Layers], other : 0..MaxWrites]
Manifests == [print : Bases, cand : [Nodes -> Candidates]]
Reports == [man : Manifests, moves : SUBSET Nodes]

AtRest == [pc |-> "idle", man |-> None, level |-> "none", moves |-> {}]

TypeOK ==
    /\ base \in Bases
    /\ manifest \in Manifests \cup {None} /\ token \in Manifests \cup {None}
    /\ lock \in Runs \cup {None}
    /\ \A r \in Runs :
         /\ run[r].pc \in {"idle", "ready", "locked", "verified", "moved", "reported", "committed", "over"}
         /\ run[r].man \in Manifests \cup {None} /\ run[r].moves \subseteq Nodes
    /\ snaps \subseteq Bases
    /\ reports.temp \subseteq Reports /\ reports.final \subseteq Reports
    /\ count \in [inventories : 0..MaxInventories, reviews : 0..MaxReviews]

Init ==
    /\ base \in [layer : [Nodes -> {"user", "agent"}], other : {0}]
    /\ manifest = None
    /\ token = None
    /\ lock = None
    /\ run = [r \in Runs |-> AtRest]
    /\ snaps = {}
    /\ reports = [temp |-> {}, final |-> {}]
    /\ commits = {}
    /\ count = [inventories |-> 0, reviews |-> 0]

------------------------------------------------------------------------------
(* The world around *)

\* Another process changes, adds or deletes a row: never while a run holds the lock.
Write ==
    /\ lock = None
    /\ base.other < MaxWrites
    /\ \E n \in Nodes, l \in Layers :
          /\ l # base.layer[n] => base.layer[n] # "agent" /\ l # "agent"
          /\ base' = [layer |-> [base.layer EXCEPT ![n] = l], other |-> base.other + 1]
    /\ UNCHANGED <<manifest, token, lock, run, snaps, reports, commits, count>>

\* Evidence of the text, of the node and of its edges each count once.
Categories(n) ==
    Evidence[n] + IF \E m \in Nodes : {m, n} \in Linked /\ base.layer[m] = "agent" THEN 1 ELSE 0

Candidate(n) ==
    IF base.layer[n] # "user" \/ Categories(n) = 0 THEN None
    ELSE [confidence |-> IF Categories(n) >= 2 THEN "high" ELSE "medium",
          decision |-> IF n \in Excluded THEN "exclude" ELSE "review"]

\* What the inventory reads of one backup of the base; it replaces the file.
Taken == [print |-> base, cand |-> [n \in Nodes |-> Candidate(n)]]

Inventory ==
    /\ count.inventories < MaxInventories
    /\ count' = [count EXCEPT !.inventories = @ + 1]
    /\ manifest' = Taken
    /\ UNCHANGED <<base, token, lock, run, snaps, reports, commits>>

\* The operator changes a decision, any time.
Review(n, d) ==
    /\ manifest # None
    /\ manifest.cand[n] # None /\ manifest.cand[n].decision # d
    /\ count.reviews < MaxReviews
    /\ count' = [count EXCEPT !.reviews = @ + 1]
    /\ manifest' = [manifest EXCEPT !.cand[n].decision = d]
    /\ UNCHANGED <<base, token, lock, run, snaps, reports, commits>>

ConfirmToken ==
    /\ manifest # None /\ token # manifest
    /\ token' = manifest
    /\ UNCHANGED <<base, manifest, lock, run, snaps, reports, commits, count>>

------------------------------------------------------------------------------
(* apply *)

Goto(r, pc) == run' = [run EXCEPT ![r].pc = pc]

ShouldMove(c, level) ==
    /\ c # None
    /\ \/ c.decision = "approve"
       \/ c.decision = "review" /\ level # "none" /\ (level = "high" => c.confidence = "high")

Listed(man) == {n \in Nodes : man.cand[n] # None}

\* Everything that is checked before any write: the token of the bytes just
\* read, each candidate and the fingerprint on a probe of the base.
Preflight(r, level) ==
    /\ run[r].pc = "idle"
    /\ manifest # None /\ token = manifest
    /\ \A n \in Listed(manifest) : base.layer[n] = "user"
    /\ manifest.print = base
    /\ LET moves == {n \in Nodes : ShouldMove(manifest.cand[n], level)} IN
          /\ moves # {}
          /\ run' = [run EXCEPT ![r] = [pc |-> "ready", man |-> manifest, level |-> level, moves |-> moves]]
    /\ UNCHANGED <<base, manifest, token, lock, snaps, reports, commits, count>>

\* BEGIN IMMEDIATE; a base that stays locked ends the run with nothing kept.
Lock(r) ==
    /\ run[r].pc = "ready"
    /\ IF lock = None THEN lock' = r /\ Goto(r, "locked") ELSE Goto(r, "over") /\ UNCHANGED lock
    /\ UNCHANGED <<base, manifest, token, snaps, reports, commits, count>>

\* Mutant: the fingerprint is trusted once the probe has matched.
AnySnapshot(r) == TRUE

SnapshotMatches(r) == base = run[r].man.print

\* Staged, synced, and linked under its name.
Installed == snaps \cup {base}

\* The snapshot under the lock is kept, matching or not; taking it may fail.
Snapshot(r) ==
    /\ run[r].pc = "locked"
    /\ \E taken \in BOOLEAN :
          IF taken THEN /\ snaps' = Installed
                        /\ IF SnapshotMatches(r) THEN Goto(r, "verified") /\ UNCHANGED lock
                           ELSE Goto(r, "over") /\ lock' = None
          ELSE Goto(r, "over") /\ lock' = None /\ UNCHANGED snaps
    /\ UNCHANGED <<base, manifest, token, reports, commits, count>>

\* The rows are updated one by one in the transaction; each must be there, in
\* user, and the counts afterwards must agree.
Moved(b, moves) == [b EXCEPT !.layer = [n \in Nodes |-> IF n \in moves THEN "agent" ELSE b.layer[n]]]

RunMoves(r) ==
    /\ run[r].pc = "verified"
    /\ IF \A n \in run[r].moves : base.layer[n] = "user"
       THEN Goto(r, "moved") /\ UNCHANGED lock
       ELSE Goto(r, "over") /\ lock' = None
    /\ UNCHANGED <<base, manifest, token, snaps, reports, commits, count>>

Report(r) == [man |-> run[r].man, moves |-> run[r].moves]

\* The report is durable beside its target before the commit.
WriteReport(r) ==
    /\ run[r].pc = "moved"
    /\ \/ Goto(r, "reported") /\ reports' = [reports EXCEPT !.temp = @ \cup {Report(r)}] /\ UNCHANGED lock
       \/ Goto(r, "over") /\ lock' = None /\ UNCHANGED reports
    /\ UNCHANGED <<base, manifest, token, snaps, commits, count>>

\* Mutant: the report is left for after the commit.
CommitAnyway(r) == run[r].pc \in {"moved", "reported"}

MayCommit(r) == run[r].pc = "reported"

Commit(r) ==
    /\ MayCommit(r)
    /\ base' = Moved(base, run[r].moves)
    /\ commits' = commits \cup {[before |-> base, report |-> Report(r)]}
    /\ lock' = None
    /\ Goto(r, "committed")
    /\ UNCHANGED <<manifest, token, snaps, reports, count>>

\* A commit that fails is rolled back and takes the report along.
CommitFails(r) ==
    /\ run[r].pc = "reported"
    /\ reports' = [reports EXCEPT !.temp = @ \ {Report(r)}]
    /\ lock' = None
    /\ Goto(r, "over")
    /\ UNCHANGED <<base, manifest, token, snaps, commits, count>>

\* os.replace; if it fails the recovery report stays where it is.
InstallReport(r) ==
    /\ run[r].pc = "committed"
    /\ \/ reports' = [temp |-> reports.temp \ {Report(r)}, final |-> reports.final \cup {Report(r)}]
       \/ UNCHANGED reports
    /\ Goto(r, "over")
    /\ UNCHANGED <<base, manifest, token, lock, snaps, commits, count>>

\* The process is killed: SQLite drops the open transaction.
Dies(r) ==
    /\ run[r].pc \notin {"idle", "over"}
    /\ Goto(r, "over")
    /\ lock' = IF lock = r THEN None ELSE lock
    /\ UNCHANGED <<base, manifest, token, snaps, reports, commits, count>>

Next ==
    \/ Write \/ Inventory \/ ConfirmToken
    \/ \E n \in Nodes, d \in Decisions : Review(n, d)
    \/ \E r \in Runs :
          \/ \E level \in {"none", "medium", "high"} : Preflight(r, level)
          \/ Lock(r) \/ Snapshot(r) \/ RunMoves(r) \/ WriteReport(r)
          \/ Commit(r) \/ CommitFails(r) \/ InstallReport(r) \/ Dies(r)

Spec == Init /\ [][Next]_vars

------------------------------------------------------------------------------
(* Properties *)

\* Of every step: a migration changes exactly what the operator confirmed: the base it commits
\* on is, to the last row, the one the manifest was taken of, whatever other
\* writers and other runs did between the probe and the lock; it moves only
\* candidates that were approved, and an excluded one never moves (apply,
\* _apply_transaction).
OnlyWhatWasReviewed ==
    commits' # commits =>
      \E r \in Runs :
         /\ run[r].pc # "committed" /\ run'[r].pc = "committed"
         /\ base = run[r].man.print
         /\ \A n \in Nodes : base'.layer[n] # base.layer[n] =>
               run[r].man.cand[n] # None /\ run[r].man.cand[n].decision # "exclude"

\* Wherever a run dies, a committed migration can be undone and accounted for:
\* the snapshot of the base before it is installed, and a complete report is
\* either in place or beside it (_install_snapshot, _write_report_temp).
EveryMoveIsOnRecord ==
    \A c \in commits : c.before \in snaps /\ c.report \in reports.temp \cup reports.final
=============================================================================
