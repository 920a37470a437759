----------------------------- MODULE Housekeeping -----------------------------
(***************************************************************************)
(* Keeping a base small: the hourly storage pass (VACUUM of a fragmented   *)
(* database, TRUNCATE checkpoint of its write-ahead log on a connection of *)
(* its own, retried), the pruning of the refusal log, and the audit        *)
(* trail's archive-and-prune.                                              *)
(*                                                                         *)
(* A write on the shared connection may be between its execute and its     *)
(* fetch when the pass runs (`stepping`), and a reader elsewhere may hold  *)
(* a snapshot of the log (`reader`).  Sizes are counts of commits and of   *)
(* rows; the reports, gauges and thresholds only log.                      *)
(***************************************************************************)
EXTENDS Naturals, FiniteSets

CONSTANTS
    MaxLog,     \* bound on the commits a log is modelled to hold
    Attempts,   \* _CHECKPOINT_ATTEMPTS
    MaxRows,    \* the cap on the refusal log
    Batch,      \* rows deleted in one write
    MaxRefused, \* bound on the refusals ever recorded
    Entries     \* the audit rows there can be

VARIABLES
    wal,       \* commits in the write-ahead log: the file's size
    dead,      \* the database has many free pages
    reader,    \* somebody reads from a snapshot in the log
    stepping,  \* a statement on the shared connection is under way
    pass,      \* the storage pass: [pc, tried]
    refused,   \* the refusal log: [old, new], rows past the retention and not
    total,     \* refusals ever recorded
    pruner,    \* prune_rejections: [pc, left], left as it counts it
    audit,     \* audit rows: id -> "none", "recent", "due" or "gone"
    archiver   \* archive_and_prune: [pc, rows]; and what every file holds: filed

vars == <<wal, dead, reader, stepping, pass, refused, total, pruner, audit, archiver>>

TypeOK ==
    /\ wal \in 0..MaxLog
    /\ {dead, reader, stepping} \subseteq BOOLEAN
    /\ pass \in [pc : {"idle", "vacuum", "checkpoint"}, tried : 0..Attempts]
    /\ refused \in [old : 0..MaxRefused, new : 0..MaxRefused]
    /\ total \in 0..MaxRefused
    /\ pruner \in [pc : {"idle", "age", "cap"}, left : 0..MaxRefused]
    /\ audit \in [Entries -> {"none", "recent", "due", "gone"}]
    /\ archiver \in [pc : {"idle", "write", "delete"}, rows : SUBSET Entries, filed : SUBSET Entries]

Init ==
    /\ wal = 0
    /\ dead = FALSE
    /\ reader = FALSE
    /\ stepping = FALSE
    /\ pass = [pc |-> "idle", tried |-> 0]
    /\ refused = [old |-> 0, new |-> 0]
    /\ total = 0
    /\ pruner = [pc |-> "idle", left |-> 0]
    /\ audit = [e \in Entries |-> "none"]
    /\ archiver = [pc |-> "idle", rows |-> {}, filed |-> {}]

Storage == <<wal, dead, reader, stepping, pass>>
Refusals == <<refused, total, pruner>>
Trail == <<audit, archiver>>

------------------------------------------------------------------------------
(* The rest of the server *)

\* A passive checkpoint keeps the file from growing for ever, not large.
Write ==
    /\ wal' = IF wal < MaxLog THEN wal + 1 ELSE wal
    /\ dead' \in BOOLEAN
    /\ wal' # wal \/ dead' # dead
    /\ UNCHANGED <<reader, stepping, pass, Refusals, Trail>>

Read ==
    /\ reader' = ~reader
    /\ UNCHANGED <<wal, dead, stepping, pass, Refusals, Trail>>

Step ==
    /\ stepping' = ~stepping
    /\ UNCHANGED <<wal, dead, reader, pass, Refusals, Trail>>

------------------------------------------------------------------------------
(* The storage pass *)

BeginPass ==
    /\ pass.pc = "idle"
    /\ pass' = [pass EXCEPT !.pc = "vacuum"]
    /\ UNCHANGED <<wal, dead, reader, stepping, Refusals, Trail>>

\* Mutant: the log is truncated only behind VACUUM's gate.
BehindTheGate == dead

Truncates == TRUE

AfterVacuum ==
    pass' = IF Truncates /\ wal # 0
            THEN [pc |-> "checkpoint", tried |-> 0]
            ELSE [pc |-> "idle", tried |-> 0]

\* VACUUM runs on the shared connection and refuses while a statement on it is
\* under way; rewriting every page goes through the log, whose truncation then
\* needs it free of readers.  A failure is logged and the pass goes on.
Vacuum ==
    /\ pass.pc = "vacuum" /\ dead /\ ~stepping
    /\ dead' = FALSE
    /\ wal' = IF reader THEN MaxLog ELSE 0
    /\ pass' = IF reader THEN [pc |-> "checkpoint", tried |-> 0] ELSE [pc |-> "idle", tried |-> 0]
    /\ UNCHANGED <<reader, stepping, Refusals, Trail>>

NoVacuum ==
    /\ pass.pc = "vacuum" /\ (~dead \/ stepping)
    /\ AfterVacuum
    /\ UNCHANGED <<wal, dead, reader, stepping, Refusals, Trail>>

\* On its own connection an attempt is declined by a reader and by nothing else.
Truncated ==
    /\ pass.pc = "checkpoint" /\ ~reader
    /\ wal' = 0
    /\ pass' = [pc |-> "idle", tried |-> 0]
    /\ UNCHANGED <<dead, reader, stepping, Refusals, Trail>>

Declined ==
    /\ pass.pc = "checkpoint" /\ reader
    /\ pass' = IF pass.tried + 1 < Attempts THEN [pass EXCEPT !.tried = @ + 1] ELSE [pc |-> "idle", tried |-> 0]
    /\ UNCHANGED <<wal, dead, reader, stepping, Refusals, Trail>>

------------------------------------------------------------------------------
(* The refusal log *)

Rows == refused.old + refused.new

\* Best effort, on a private connection: it may fail, and nobody is told.
RecordRejection ==
    /\ total < MaxRefused
    /\ total' = total + 1
    /\ refused' = [refused EXCEPT !.new = @ + 1]
    /\ UNCHANGED <<pruner, Storage, Trail>>

GetOld ==
    /\ refused.new > 0
    /\ refused' = [old |-> refused.old + 1, new |-> refused.new - 1]
    /\ UNCHANGED <<total, pruner, Storage, Trail>>

Least(a, b) == IF a < b THEN a ELSE b

\* The cutoff was fixed when the pass began; rows that get old meanwhile only
\* make it longer.
BeginPrune ==
    /\ pruner.pc = "idle"
    /\ pruner' = [pc |-> "age", left |-> 0]
    /\ UNCHANGED <<refused, total, Storage, Trail>>

PruneOld ==
    /\ pruner.pc = "age"
    /\ IF refused.old > 0
       THEN /\ refused' = [refused EXCEPT !.old = @ - Least(Batch, refused.old)]
            /\ UNCHANGED pruner
       ELSE /\ pruner' = [pc |-> "cap", left |-> Rows]
            /\ UNCHANGED refused
    /\ UNCHANGED <<total, Storage, Trail>>

\* The oldest first, as many as it counted above the cap.
Take == Least(Batch, pruner.left - MaxRows)

PruneCap ==
    /\ pruner.pc = "cap"
    /\ IF pruner.left > MaxRows
       THEN /\ LET fromOld == Least(Take, refused.old)
               IN  refused' = [old |-> refused.old - fromOld, new |-> refused.new - (Take - fromOld)]
            /\ pruner' = [pruner EXCEPT !.left = @ - Take]
       ELSE /\ pruner' = [pc |-> "idle", left |-> 0]
            /\ UNCHANGED refused
    /\ UNCHANGED <<total, Storage, Trail>>

------------------------------------------------------------------------------
(* The audit trail *)

Log(e) ==
    /\ audit[e] = "none"
    /\ audit' = [audit EXCEPT ![e] = "recent"]
    /\ UNCHANGED <<archiver, Storage, Refusals>>

ComeDue(e) ==
    /\ audit[e] = "recent"
    /\ audit' = [audit EXCEPT ![e] = "due"]
    /\ UNCHANGED <<archiver, Storage, Refusals>>

Due == {e \in Entries : audit[e] = "due"}

ArchiveSelects ==
    /\ archiver.pc = "idle" /\ Due # {}
    /\ archiver' = [archiver EXCEPT !.pc = "write", !.rows = Due]
    /\ UNCHANGED <<audit, Storage, Refusals>>

ArchiveWrites ==
    /\ archiver.pc = "write"
    /\ archiver' = [archiver EXCEPT !.pc = "delete", !.filed = @ \cup archiver.rows]
    /\ UNCHANGED <<audit, Storage, Refusals>>

\* Mutant: the delete computes its own cutoff.
DueByNow == Due

\* The cutoff of the delete is the selection's, so it names the same rows.
BeforeCutoff == Due \cap archiver.rows

ArchivePrunes ==
    /\ archiver.pc = "delete"
    /\ audit' = [e \in Entries |-> IF e \in BeforeCutoff THEN "gone" ELSE audit[e]]
    /\ archiver' = [archiver EXCEPT !.pc = "idle", !.rows = {}]
    /\ UNCHANGED <<Storage, Refusals>>

\* A crash, or a delete that raises: the next call archives the rows again.
ArchiveDies ==
    /\ archiver.pc # "idle"
    /\ archiver' = [archiver EXCEPT !.pc = "idle", !.rows = {}]
    /\ UNCHANGED <<audit, Storage, Refusals>>

------------------------------------------------------------------------------
Pass == BeginPass \/ Vacuum \/ NoVacuum \/ Truncated \/ Declined
Prune == BeginPrune \/ PruneOld \/ PruneCap
Archive == ArchiveSelects \/ ArchiveWrites \/ ArchivePrunes \/ ArchiveDies

Next == \/ Write \/ Read \/ Step \/ Pass
        \/ RecordRejection \/ GetOld \/ Prune
        \/ (\E e \in Entries : Log(e) \/ ComeDue(e)) \/ Archive

Spec == Init /\ [][Next]_vars

\* The leader's loop runs the storage pass every hour for as long as it lives.
FairSpec == Spec /\ WF_vars(Pass)

------------------------------------------------------------------------------
\* Once readers stay away from it, the log is given back to the filesystem
\* again and again, fragmented database or not.
SpaceComesBack == <>[]~reader => []<>(wal = 0)

\* No audit row leaves the table before a file holds it.
PrunedIsFiled == \A e \in Entries : audit[e] = "gone" => e \in archiver.filed
===============================================================================
