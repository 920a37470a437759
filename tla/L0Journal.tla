------------------------------ MODULE L0Journal ------------------------------
(***************************************************************************)
(* The L0 journal of a-memory: the append-only table every message enters  *)
(* first, its hash chain, its three age tiers and the chain auditor        *)
(* (src/shared/l0.py, src/lifecycle/l0_tiers.py).                          *)
(*                                                                         *)
(* Several operating-system processes (the MCP server, the external        *)
(* daemon, command-line importers) share one SQLite file.  Inside one      *)
(* process the capture calls are serialised by an asyncio lock; between    *)
(* processes only SQLite's single-writer lock orders them.  A capture is   *)
(* therefore modelled statement by statement, because each statement is a  *)
(* point where another process may run.                                    *)
(*                                                                         *)
(* A row's id is its position in `rows`: the column is AUTOINCREMENT, a    *)
(* rollback restores sqlite_sequence, so ids are dense in commit order.    *)
(* A digest (hash_self) is modelled by the pair of its id and the text it  *)
(* covers, which is what a collision-free hash over (hash_prev, type, ts,  *)
(* text) tells apart; hash_prev is the id of the row it names, 0 for "".   *)
(* The classification of a row's status is L0Rows' subject: here a row is  *)
(* either awaiting or `processed` (a status tier_l0 may move).             *)
(***************************************************************************)
EXTENDS Integers, Sequences, FiniteSets

CONSTANTS
    Procs,       \* operating-system processes that capture
    Tasks,       \* asyncio tasks that call capture()
    ProcOf,      \* the process a task runs in
    Texts,       \* message texts (layer and user id included)
    NoText,      \* a NULL text_z column
    Preview,     \* what the warm tier leaves in the text column
    MaxRows,     \* bound: rows ever committed
    MaxTimeouts  \* bound: captures that write without the lock

Holders == {"none", "nightly"}

ASSUME TasksAssumption == Tasks \cap Holders = {} /\ ProcOf \in [Tasks -> Procs]
ASSUME TextsAssumption == NoText \notin Texts /\ Preview \notin Texts /\ NoText # Preview
ASSUME BoundAssumption == MaxRows \in Nat /\ MaxTimeouts \in Nat

VARIABLES
    rows,         \* every row ever committed, in id order
    journal,      \* ids present in l0_journal
    archive,      \* ids present in l0_cold_archive
    writeLock,    \* who holds SQLite's write lock on memory.db
    captureLock,  \* per process: the task inside `async with _capture_lock`
    pc,           \* per task: the next statement of its capture()
    text,         \* per task: the text it captures
    head,         \* per task: the chain head it read
    tier,         \* the nightly tier_l0 transaction
    audit         \* a verify_chain() call

vars == <<rows, journal, archive, writeLock, captureLock, pc, text, head, tier, audit>>
table == <<rows, journal, archive>>
calls == <<captureLock, pc, text, head>>

\* Ages of a row's ts: below 30 days, 30 to 180 days, above 180 days.
Hot == 0
Warm == 1
Cold == 2

Row == [content : Texts,              \* what content_hash and hash_self cover
        text : Texts \cup {Preview},  \* the text column
        textZ : Texts \cup {NoText},  \* the text_z column
        prev : Nat,                   \* hash_prev
        age : {Hot, Warm, Cold},
        processed : BOOLEAN,
        by : Procs,                   \* which process captured it (history)
        locked : BOOLEAN]             \* its BEGIN IMMEDIATE succeeded (history)

Steps == {"idle", "lock", "prior", "begin", "head", "insert"}

Tier == [pc : {"idle", "selected", "writing"}, cold : SUBSET Nat]

TypeOK ==
    /\ rows \in Seq(Row)
    /\ journal \subseteq DOMAIN rows /\ archive \subseteq DOMAIN rows
    /\ writeLock \in Tasks \cup Holders
    /\ captureLock \in [Procs -> Tasks \cup {"none"}]
    /\ pc \in [Tasks -> Steps]
    /\ text \in [Tasks -> Texts \cup {NoText}]
    /\ \A t \in Tasks : text[t] = NoText <=> pc[t] = "idle"
    /\ head \in [Tasks -> Nat]
    /\ tier \in Tier /\ tier.cold \subseteq DOMAIN rows
    /\ audit = [pc |-> audit.pc, seen |-> audit.seen, tiered |-> audit.tiered, verdict |-> audit.verdict]
    /\ audit.pc \in {"idle", "archive"} /\ audit.verdict \in {"none", "whole", "broken"}
    /\ audit.seen \in [DOMAIN audit.seen -> Texts \cup {Preview}] /\ audit.tiered \in BOOLEAN

Init ==
    /\ rows = <<>> /\ journal = {} /\ archive = {}
    /\ writeLock = "none"
    /\ captureLock = [p \in Procs |-> "none"]
    /\ pc = [t \in Tasks |-> "idle"]
    /\ text = [t \in Tasks |-> NoText]
    /\ head = [t \in Tasks |-> 0]
    /\ tier = [pc |-> "idle", cold |-> {}]
    /\ audit = [pc |-> "idle", seen |-> <<>>, tiered |-> FALSE, verdict |-> "none"]

-----------------------------------------------------------------------------
(* capture() *)

\* ORDER BY id DESC LIMIT 1 over a set of ids; 0 is "no row".
Last(ids) == IF ids = {} THEN 0 ELSE CHOOSE i \in ids : \A j \in ids : j <= i

\* Mutant: ORDER BY ts instead of id.
JournalHeadByTs == Last({i \in journal : \A j \in journal : rows[i].age <= rows[j].age})

\* hash_self of the newest row of l0_journal: the archive is not consulted.
JournalHead == Last(journal)

InFlight == {t \in Tasks : pc[t] # "idle"}

Goto(t, step) == pc' = [pc EXCEPT ![t] = step]

\* Mutant: the call's state survives it.
ReturnKeepsText(t) ==
    /\ Goto(t, "idle")
    /\ captureLock' = [captureLock EXCEPT ![ProcOf[t]] = "none"]
    /\ head' = [head EXCEPT ![t] = 0]
    /\ UNCHANGED text

\* Leaving `async with _capture_lock`: the call is over, whatever it returned.
Return(t) ==
    /\ Goto(t, "idle")
    /\ captureLock' = [captureLock EXCEPT ![ProcOf[t]] = "none"]
    /\ text' = [text EXCEPT ![t] = NoText]
    /\ head' = [head EXCEPT ![t] = 0]

\* A writer calls capture(text).  The guard is the bound on rows.
Call(t, x) ==
    /\ pc[t] = "idle"
    /\ Len(rows) + Cardinality(InFlight) < MaxRows
    /\ text' = [text EXCEPT ![t] = x]
    /\ Goto(t, "lock")
    /\ UNCHANGED <<table, writeLock, captureLock, head, tier, audit>>

\* Mutant: no `async with _capture_lock`.
TakeNoCaptureLock(t) ==
    /\ pc[t] = "lock"
    /\ Goto(t, "prior")
    /\ UNCHANGED <<table, writeLock, captureLock, text, head, tier, audit>>

TakeCaptureLock(t) ==
    /\ pc[t] = "lock"
    /\ captureLock[ProcOf[t]] = "none"
    /\ captureLock' = [captureLock EXCEPT ![ProcOf[t]] = t]
    /\ Goto(t, "prior")
    /\ UNCHANGED <<table, writeLock, text, head, tier, audit>>

\* SELECT id ... WHERE content_hash=?: outside any transaction, journal only.
Captured(x) == \E i \in journal : rows[i].content = x

PriorFound(t) ==
    /\ pc[t] = "prior"
    /\ Captured(text[t])
    /\ Return(t)
    /\ UNCHANGED <<table, writeLock, tier, audit>>

PriorAbsent(t) ==
    /\ pc[t] = "prior"
    /\ ~ Captured(text[t])
    /\ Goto(t, "begin")
    /\ UNCHANGED <<table, writeLock, captureLock, text, head, tier, audit>>

BeginImmediate(t) ==
    /\ pc[t] = "begin"
    /\ writeLock = "none"
    /\ writeLock' = t
    /\ Goto(t, "head")
    /\ UNCHANGED <<table, captureLock, text, head, tier, audit>>

\* `with contextlib.suppress(Exception)` around BEGIN IMMEDIATE: after the busy
\* timeout (BUSY_TIMEOUT_MS) the capture goes on outside any transaction.  Every
\* write to memory.db takes the lock, so its holder need not be in this module.
Unlocked == {u \in Tasks : pc[u] \in {"head", "insert"} /\ writeLock # u}

BeginTimesOut(t) ==
    /\ Cardinality({i \in DOMAIN rows : ~ rows[i].locked}) + Cardinality(Unlocked) < MaxTimeouts
    /\ pc[t] = "begin"
    /\ Goto(t, "head")
    /\ UNCHANGED <<table, writeLock, captureLock, text, head, tier, audit>>

ReadHead(t) ==
    /\ pc[t] = "head"
    /\ head' = [head EXCEPT ![t] = JournalHead]
    /\ Goto(t, "insert")
    /\ UNCHANGED <<table, writeLock, captureLock, text, tier, audit>>

NewRow(t) ==
    [content |-> text[t], text |-> text[t], textZ |-> NoText, prev |-> head[t],
     age |-> Hot, processed |-> FALSE, by |-> ProcOf[t],
     locked |-> writeLock = t]

\* INSERT, the UPDATE of both hashes and the commit.  Without the BEGIN the
\* INSERT itself opens the transaction and must find the lock free.
Insert(t) ==
    /\ pc[t] = "insert"
    /\ writeLock \in {"none", t}
    /\ rows' = Append(rows, NewRow(t))
    /\ journal' = journal \cup {Len(rows) + 1}
    /\ writeLock' = "none"
    /\ Return(t)
    /\ UNCHANGED <<archive, tier, audit>>

\* Any statement after the dedup may raise: atomic() rolls back, capture()
\* swallows the exception and returns None.
CaptureRaises(t) ==
    /\ pc[t] \in {"head", "insert"}
    /\ writeLock' = IF writeLock = t THEN "none" ELSE writeLock
    /\ Return(t)
    /\ UNCHANGED <<table, tier, audit>>

\* The process is killed: SQLite discards its transaction, its locks vanish.
ProcessDies(p) ==
    LET dead == {t \in Tasks : ProcOf[t] = p} IN
    /\ \E t \in dead : pc[t] # "idle"
    /\ pc' = [t \in Tasks |-> IF t \in dead THEN "idle" ELSE pc[t]]
    /\ text' = [t \in Tasks |-> IF t \in dead THEN NoText ELSE text[t]]
    /\ head' = [t \in Tasks |-> IF t \in dead THEN 0 ELSE head[t]]
    /\ captureLock' = [captureLock EXCEPT ![p] = "none"]
    /\ writeLock' = IF writeLock \in dead THEN "none" ELSE writeLock
    /\ UNCHANGED <<table, tier, audit>>

-----------------------------------------------------------------------------
(* The rest of the journal's life *)

\* Some writer stamps the row with a status tier_l0 may move (see L0Rows).
Process(i) ==
    /\ i \in journal /\ ~ rows[i].processed
    /\ writeLock = "none"
    /\ rows' = [rows EXCEPT ![i].processed = TRUE]
    /\ UNCHANGED <<journal, archive, writeLock, calls, tier, audit>>

\* A row's ts crosses the next tier boundary.  ts is the source message's time
\* (ts_override), so a young row may be old at once and rows age in any order.
\* Only a processed row's age is ever read, so it is enough to age those.
GrowOlder(i) ==
    /\ i \in journal /\ rows[i].processed /\ rows[i].age < Cold
    /\ rows' = [rows EXCEPT ![i].age = @ + 1]
    /\ UNCHANGED <<journal, archive, writeLock, calls, tier, audit>>

\* What the chain covers: the full text, decompressed where the row is warm.
CapturedText(r) == IF r.textZ = NoText THEN r.text ELSE r.textZ

TierIdle == [pc |-> "idle", cold |-> {}]

\* tier_l0: the cold SELECT runs before its transaction takes the lock.
TierSelect ==
    /\ tier.pc = "idle"
    /\ tier' = [pc |-> "selected",
                cold |-> {i \in journal : rows[i].processed /\ rows[i].age = Cold}]
    /\ UNCHANGED <<table, writeLock, calls, audit>>

TierLocks ==
    /\ tier.pc = "selected"
    /\ writeLock = "none"
    /\ writeLock' = "nightly"
    /\ tier' = [tier EXCEPT !.pc = "writing"]
    /\ UNCHANGED <<table, calls, audit>>

\* Mutant: rows already compressed are compressed again.
IsWarmAgain(i) == rows[i].processed /\ rows[i].age = Warm

IsWarm(i) == rows[i].processed /\ rows[i].textZ = NoText /\ rows[i].age = Warm

\* Mutant: the DELETE repeats the SELECT's condition instead of naming its ids.
TierCommitByPredicate ==
    /\ tier.pc = "writing"
    /\ archive' = archive \cup tier.cold
    /\ journal' = {i \in journal : ~ (rows[i].processed /\ rows[i].age = Cold)}
    /\ writeLock' = "none"
    /\ tier' = TierIdle
    /\ UNCHANGED <<rows, calls, audit>>

\* Cold rows go to the archive in plain text and leave the journal; processed
\* rows of 30 to 180 days keep a preview and their text compressed.
TierCommit ==
    /\ tier.pc = "writing"
    /\ archive' = archive \cup tier.cold
    /\ journal' = journal \ tier.cold
    /\ rows' = [i \in DOMAIN rows |->
                 CASE i \in tier.cold ->
                        [rows[i] EXCEPT !.text = CapturedText(rows[i]), !.textZ = NoText]
                   [] i \in journal \ tier.cold /\ IsWarm(i) ->
                        [rows[i] EXCEPT !.text = Preview, !.textZ = rows[i].text]
                   [] OTHER -> rows[i]]
    /\ writeLock' = "none"
    /\ tier' = TierIdle
    /\ audit' = [audit EXCEPT !.tiered = @ \/ audit.pc = "archive"]
    /\ UNCHANGED calls

\* An exception or the death of the nightly process: nothing of it remains.
TierFails ==
    /\ tier.pc # "idle"
    /\ writeLock' = IF writeLock = "nightly" THEN "none" ELSE writeLock
    /\ tier' = TierIdle
    /\ UNCHANGED <<table, calls, audit>>

-----------------------------------------------------------------------------
(* verify_chain() *)

\* The link every id should carry when the chain is walked in id order.
PrevIn(ids, i) == Last({j \in ids : j < i})
LinkHolds(ids, i) == rows[i].prev = PrevIn(ids, i)

\* First query: the journal, with each row's text as captured.
AuditJournal ==
    /\ audit.pc = "idle"
    /\ audit' = [pc |-> "archive", seen |-> [i \in journal |-> CapturedText(rows[i])],
                 tiered |-> FALSE, verdict |-> "none"]
    /\ UNCHANGED <<table, writeLock, calls, tier>>

\* Mutant: the walk covers the journal alone.
WalkJournal(seen, cold) ==
    IF \A i \in DOMAIN seen : LinkHolds(DOMAIN seen, i) /\ seen[i] = rows[i].content
    THEN "whole" ELSE "broken"

\* The walk over both tables: a row present twice fails on its second copy.
Walk(seen, cold) ==
    LET ids == DOMAIN seen \cup DOMAIN cold IN
    IF /\ DOMAIN seen \cap DOMAIN cold = {}
       /\ \A i \in ids : LinkHolds(ids, i)
       /\ \A i \in DOMAIN seen : seen[i] = rows[i].content
       /\ \A i \in DOMAIN cold : cold[i] = rows[i].content
    THEN "whole" ELSE "broken"

\* Second query: the archive; then the two are merged by id and walked.
AuditArchive ==
    /\ audit.pc = "archive"
    /\ audit' = [pc |-> "idle", seen |-> <<>>, tiered |-> FALSE,
                 verdict |-> Walk(audit.seen, [i \in archive |-> rows[i].text])]
    /\ UNCHANGED <<table, writeLock, calls, tier>>

-----------------------------------------------------------------------------
CaptureStep(t) ==
    \/ TakeCaptureLock(t) \/ PriorFound(t) \/ PriorAbsent(t) \/ BeginImmediate(t)
    \/ BeginTimesOut(t) \/ ReadHead(t) \/ Insert(t)

Next ==
    \/ \E t \in Tasks : CaptureStep(t) \/ CaptureRaises(t) \/ \E x \in Texts : Call(t, x)
    \/ \E p \in Procs : ProcessDies(p)
    \/ \E i \in journal : Process(i) \/ GrowOlder(i)
    \/ TierSelect \/ TierLocks \/ TierCommit \/ TierFails
    \/ AuditJournal \/ AuditArchive

Spec == Init /\ [][Next]_vars

-----------------------------------------------------------------------------
(* Properties *)

\* A row is in exactly one tier: tiering neither loses a row, nor leaves it in
\* both tables, although it selects before it locks and may fail half way.
TiersPartitionRows ==
    /\ journal \cup archive = DOMAIN rows
    /\ journal \cap archive = {}

\* A row chains from the newest row that was in the journal when it was inserted:
\* between it and the row its hash_prev names there is nothing, or only rows
\* that tiering had moved away.
FromTheHead(i) ==
    \A j \in DOMAIN rows : rows[i].prev < j /\ j < i => j \in archive

\* A capture that obtained the write lock never forks the chain, whichever
\* processes capture, fail, die or tier at the same time, and even when they
\* write without the lock themselves.
LockedCapturesDoNotFork == \A i \in DOMAIN rows : rows[i].locked => FromTheHead(i)

\* Violated by a capture without the lock: no row forks the chain.  This is what
\* capture() claims of every write: `the UPDATE only applies if the chain head
\* is unchanged`.
NoFork == \A i \in DOMAIN rows : FromTheHead(i)

\* Inside one process the capture lock makes dedup exact: two journal rows with
\* the same text always come from two processes.
OneRowPerProcessAndText ==
    \A i, j \in journal :
        rows[i].content = rows[j].content /\ rows[i].by = rows[j].by => i = j

\* Tiering is lossless: hot to warm to cold, every row still reads as captured,
\* and an archived row holds its plain text.
TiersKeepTheText ==
    /\ \A i \in DOMAIN rows : CapturedText(rows[i]) = rows[i].content
    /\ \A i \in archive : rows[i].text = rows[i].content

\* What tiering owes every row, at every moment: one tier, and its whole text.
RowsAreWhole == TiersPartitionRows /\ TiersKeepTheText

\* Violated once tiering has run: every row is linked to its predecessor over
\* journal and archive together.
ChainIsWhole == \A i \in DOMAIN rows : LinkHolds(DOMAIN rows, i)

\* The auditor is right about the chain: it reports a break only where there is
\* one (unless a tiering commit fell between its two queries and showed it a row
\* twice), and it never passes over a break among the rows it saw.
AuditVerdictIsTrue ==
    [][audit.pc = "archive" /\ audit'.pc = "idle" =>
         /\ audit'.verdict = "broken" => audit.tiered \/ ~ ChainIsWhole
         /\ audit'.verdict = "whole" =>
              \A i \in DOMAIN audit.seen : LinkHolds(DOMAIN rows, i)]_vars

=============================================================================
