-------------------------- MODULE L0Journal_proofs --------------------------
(***************************************************************************)
(* Proofs about L0Journal, for any number of processes, tasks, texts and    *)
(* rows: its types, the partition of rows into tiers and their lossless     *)
(* text (one inductive invariant), the chain of the captures that held the  *)
(* write lock, the exactness of dedup inside a process, and the truth of    *)
(* the chain auditor's verdict.                                             *)
(***************************************************************************)
EXTENDS L0Journal, SequenceTheorems, WellFoundedInduction, TLAPS

-----------------------------------------------------------------------------
(* Last(ids): the head query *)

\* A nonempty set of ids of a finite journal has a greatest one, so the ORDER
\* BY id DESC LIMIT 1 of capture() returns a row and every other row is older.
LEMMA LastIsGreatest ==
    ASSUME NEW n \in Nat, NEW ids \in SUBSET (1..n)
    PROVE  /\ Last(ids) \in Nat
           /\ \A j \in ids : j <= Last(ids)
<1>1. CASE ids = {}
  BY <1>1 DEF Last
<1>2. CASE ids # {}
  <2>. DEFINE Gaps == {g \in 0..n : n - g \in ids}
  <2>1. Gaps \subseteq Nat /\ Gaps # {}
    <3>1. PICK i \in ids : TRUE
      BY <1>2
    <3>2. i \in 1..n
      OBVIOUS
    <3>3. n - i \in 0..n /\ n - (n - i) = i
      BY <3>2
    <3>4. n - i \in Gaps
      BY <3>3
    <3>5. Gaps \subseteq Nat
      OBVIOUS
    <3>. QED
      BY <3>4, <3>5
  <2>2. PICK g \in Gaps : \A h \in Gaps : ~ (<<h, g>> \in OpToRel(<, Nat))
    <3>. HIDE DEF Gaps
    <3>. QED
      BY <2>1, NatLessThanWellFounded, WFMin
  <2>3. \A h \in Gaps : g <= h
    <3>. SUFFICES ASSUME NEW h \in Gaps, h < g PROVE FALSE
      BY <2>1
    <3>1. h \in Nat /\ g \in Nat
      BY <2>1
    <3>2. <<h, g>> \in OpToRel(<, Nat)
      BY <3>1 DEF OpToRel
    <3>. QED
      BY <3>2, <2>2
  <2>4. n - g \in ids /\ \A j \in ids : j <= n - g
    <3>1. \A j \in ids : j \in Nat /\ n - j \in Gaps
      <4>. TAKE j \in ids
      <4>1. j \in 1..n
        OBVIOUS
      <4>2. n - j \in 0..n /\ n - (n - j) = j
        BY <4>1
      <4>. QED
        BY <4>1, <4>2
    <3>. QED
      BY <3>1, <2>3
  <2>5. Last(ids) \in ids /\ \A j \in ids : j <= Last(ids)
    BY <1>2, <2>4, Zenon DEF Last
  <2>6. \A j \in ids : j \in Nat
    OBVIOUS
  <2>. QED
    BY <2>5, <2>6
<1>. QED
  BY <1>1, <1>2

-----------------------------------------------------------------------------
(* Types, tiers and texts *)

\* The inductive invariant: compressing a row keeps its type only because a row
\* that is not compressed still holds its text, and an archived row is never
\* compressed again only because it has left the journal.
Shape == TypeOK /\ TiersPartitionRows /\ TiersKeepTheText

\* A function on 1..n is a sequence: what TierCommit leaves of `rows`.
LEMMA FunctionIsSeq ==
    ASSUME NEW S, NEW n \in Nat, NEW f \in [1..n -> S]
    PROVE  f \in Seq(S) /\ Len(f) = n
  OBVIOUS

\* The empty database has the shape.
LEMMA ShapeInit == Init => Shape
<1>. SUFFICES ASSUME Init PROVE Shape
  OBVIOUS
<1>1. rows \in Seq(Row) /\ DOMAIN rows = {}
  BY DEF Init
<1>2. text \in [Tasks -> Texts \cup {NoText}] /\ \A t \in Tasks : text[t] = NoText <=> pc[t] = "idle"
  BY DEF Init
<1>3. audit.seen \in [DOMAIN audit.seen -> Texts \cup {Preview}]
  BY DEF Init
<1>4. TypeOK
  BY <1>1, <1>2, <1>3 DEF Init, TypeOK, Steps, Holders, Tier
<1>. QED
  BY <1>1, <1>4 DEF Init, Shape, TiersPartitionRows, TiersKeepTheText

\* Tiers and texts depend on the table alone.
LEMMA TableUnchanged ==
    ASSUME UNCHANGED table
    PROVE  /\ TiersPartitionRows => TiersPartitionRows'
           /\ TiersKeepTheText => TiersKeepTheText'
  BY DEF table, TiersPartitionRows, TiersKeepTheText, CapturedText

\* Leaving a call.
LEMMA ReturnTypes ==
    ASSUME TypeOK, NEW t \in Tasks, Return(t)
    PROVE  /\ pc' \in [Tasks -> Steps]
           /\ text' \in [Tasks -> Texts \cup {NoText}]
           /\ \A u \in Tasks : text'[u] = NoText <=> pc'[u] = "idle"
           /\ head' \in [Tasks -> Nat]
           /\ captureLock' \in [Procs -> Tasks \cup {"none"}]
  BY TasksAssumption DEF TypeOK, Return, Goto, Steps

\* The chain head read by capture() is an id, and the greatest of the journal.
LEMMA HeadType == TypeOK => JournalHead \in Nat /\ \A j \in journal : j <= JournalHead
<1>. SUFFICES ASSUME TypeOK PROVE JournalHead \in Nat /\ \A j \in journal : j <= JournalHead
  OBVIOUS
<1>1. Len(rows) \in Nat /\ journal \in SUBSET (1..Len(rows))
  BY DEF TypeOK
<1>. QED
  BY <1>1, LastIsGreatest DEF JournalHead

\* A capture's steps up to its INSERT.
LEMMA CaptureTypes ==
    ASSUME TypeOK, NEW t \in Tasks,
           \/ \E x \in Texts : Call(t, x)
           \/ TakeCaptureLock(t) \/ PriorFound(t) \/ PriorAbsent(t) \/ BeginImmediate(t)
           \/ BeginTimesOut(t) \/ ReadHead(t) \/ CaptureRaises(t)
    PROVE  TypeOK' /\ UNCHANGED table
<1>. USE DEF TypeOK, table
<1>1. ASSUME NEW x \in Texts, Call(t, x) PROVE TypeOK' /\ UNCHANGED table
  BY <1>1, TextsAssumption DEF Call, Goto, Steps
<1>2. CASE TakeCaptureLock(t)
  BY <1>2, TasksAssumption DEF TakeCaptureLock, Goto, Steps
<1>3. CASE PriorFound(t)
  BY <1>3, ReturnTypes DEF PriorFound
<1>4. CASE PriorAbsent(t)
  BY <1>4 DEF PriorAbsent, Goto, Steps
<1>5. CASE BeginImmediate(t)
  BY <1>5 DEF BeginImmediate, Goto, Steps
<1>6. CASE BeginTimesOut(t)
  BY <1>6 DEF BeginTimesOut, Goto, Steps
<1>7. CASE ReadHead(t)
  BY <1>7, HeadType DEF ReadHead, Goto, Steps
<1>8. CASE CaptureRaises(t)
  BY <1>8, ReturnTypes DEF CaptureRaises, Holders
<1>. QED
  BY <1>1, <1>2, <1>3, <1>4, <1>5, <1>6, <1>7, <1>8

\* The death of a process leaves no partial call behind.
LEMMA DeathTypes ==
    ASSUME TypeOK, NEW p \in Procs, ProcessDies(p)
    PROVE  TypeOK' /\ UNCHANGED table
  BY DEF TypeOK, table, ProcessDies, Steps, Holders

\* What a row says is a text, possibly a preview.
LEMMA CapturedTextType ==
    ASSUME NEW r \in Row
    PROVE  CapturedText(r) \in Texts \cup {Preview}
  BY DEF CapturedText, Row

\* The two queries of verify_chain().
LEMMA AuditTypes ==
    ASSUME TypeOK, AuditJournal \/ AuditArchive
    PROVE  TypeOK' /\ UNCHANGED table
<1>. USE DEF TypeOK, table
<1>1. CASE AuditJournal
  <2>. DEFINE seen == [i \in journal |-> CapturedText(rows[i])]
  <2>1. \A i \in journal : rows[i] \in Row
    BY ElementOfSeq, LenProperties
  <2>2. seen \in [DOMAIN seen -> Texts \cup {Preview}]
    BY <2>1, CapturedTextType
  <2>3. audit' = [pc |-> "archive", seen |-> seen, tiered |-> FALSE, verdict |-> "none"]
    BY <1>1 DEF AuditJournal
  <2>. HIDE DEF seen
  <2>4. /\ audit'.pc \in {"idle", "archive"} /\ audit'.verdict \in {"none", "whole", "broken"}
        /\ audit'.seen \in [DOMAIN audit'.seen -> Texts \cup {Preview}] /\ audit'.tiered \in BOOLEAN
        /\ audit' = [pc |-> audit'.pc, seen |-> audit'.seen, tiered |-> audit'.tiered, verdict |-> audit'.verdict]
    BY <2>2, <2>3
  <2>. QED
    BY <1>1, <2>4 DEF AuditJournal, calls
<1>2. CASE AuditArchive
  <2>. DEFINE cold == [i \in archive |-> rows[i].text]
  <2>1. Walk(audit.seen, cold) \in {"whole", "broken"}
    BY DEF Walk
  <2>2. audit' = [pc |-> "idle", seen |-> <<>>, tiered |-> FALSE, verdict |-> Walk(audit.seen, cold)]
    BY <1>2 DEF AuditArchive
  <2>. HIDE DEF cold
  <2>3. /\ audit'.pc \in {"idle", "archive"} /\ audit'.verdict \in {"none", "whole", "broken"}
        /\ audit'.seen \in [DOMAIN audit'.seen -> Texts \cup {Preview}] /\ audit'.tiered \in BOOLEAN
        /\ audit' = [pc |-> audit'.pc, seen |-> audit'.seen, tiered |-> audit'.tiered, verdict |-> audit'.verdict]
    BY <2>1, <2>2
  <2>. QED
    BY <1>2, <2>3 DEF AuditArchive, calls
<1>. QED
  BY <1>1, <1>2

\* The SELECT, the lock and the failure of tier_l0.
LEMMA TierTypes ==
    ASSUME TypeOK, TierSelect \/ TierLocks \/ TierFails
    PROVE  TypeOK' /\ UNCHANGED table
<1>. USE DEF TypeOK, table, calls, Tier
<1>1. CASE TierSelect
  BY <1>1 DEF TierSelect
<1>2. CASE TierLocks
  BY <1>2 DEF TierLocks, Holders
<1>3. CASE TierFails
  BY <1>3 DEF TierFails, TierIdle, Holders
<1>. QED
  BY <1>1, <1>2, <1>3

\* The row an INSERT adds reads as its capture, and is in the journal alone.
LEMMA InsertShape ==
    ASSUME Shape, NEW t \in Tasks, Insert(t)
    PROVE  Shape'
<1>. USE DEF Shape, TypeOK
<1>1. text[t] \in Texts /\ head[t] \in Nat
  BY DEF Insert
<1>2. NewRow(t) \in Row
  BY <1>1, TasksAssumption DEF NewRow, Row
<1>3. /\ rows' \in Seq(Row)
      /\ Len(rows') = Len(rows) + 1
      /\ DOMAIN rows' = DOMAIN rows \cup {Len(rows) + 1}
      /\ Len(rows) + 1 \notin DOMAIN rows
      /\ \A i \in DOMAIN rows : rows'[i] = rows[i]
      /\ rows'[Len(rows) + 1] = NewRow(t)
  BY <1>2 DEF Insert
<1>4. TypeOK'
  BY <1>3, ReturnTypes DEF Insert, Holders
<1>5. TiersPartitionRows'
  BY <1>3 DEF TiersPartitionRows, Insert
<1>6. TiersKeepTheText'
  BY <1>1, <1>3, TextsAssumption DEF TiersKeepTheText, CapturedText, Insert, NewRow
<1>. QED
  BY <1>4, <1>5, <1>6

\* A stamp and the passage of time leave texts alone.
LEMMA RowShape ==
    ASSUME Shape, NEW i \in journal, Process(i) \/ GrowOlder(i)
    PROVE  /\ Shape'
           /\ DOMAIN rows' = DOMAIN rows
           /\ \A j \in DOMAIN rows : /\ rows'[j].prev = rows[j].prev
                                      /\ rows'[j].locked = rows[j].locked
                                      /\ rows'[j].content = rows[j].content
                                      /\ rows'[j].by = rows[j].by
<1>. USE DEF Shape, TypeOK
<1>1. i \in 1..Len(rows) /\ rows[i] \in Row
  BY LenProperties, ElementOfSeq
<1>2. PICK r \in Row : /\ rows' = [rows EXCEPT ![i] = r]
                       /\ r.text = rows[i].text /\ r.textZ = rows[i].textZ /\ r.content = rows[i].content
                       /\ r.prev = rows[i].prev /\ r.locked = rows[i].locked /\ r.by = rows[i].by
  <2>1. CASE Process(i)
    <3>. DEFINE r == [rows[i] EXCEPT !.processed = TRUE]
    <3>1. r \in Row
      BY <1>1 DEF Row
    <3>2. rows' = [rows EXCEPT ![i] = r]
      BY <2>1 DEF Process
    <3>. QED
      BY <1>1, <3>1, <3>2 DEF Row
  <2>2. CASE GrowOlder(i)
    <3>. DEFINE r == [rows[i] EXCEPT !.age = @ + 1]
    <3>01. rows[i].age \in {0, 1}
      BY <1>1, <2>2 DEF Row, GrowOlder, Hot, Warm, Cold
    <3>02. PICK age \in {Hot, Warm, Cold} : age = rows[i].age + 1
      BY <3>01 DEF Hot, Warm, Cold
    <3>03. r = [rows[i] EXCEPT !.age = age]
      BY <3>02
    <3>1. r \in Row
      <4>. HIDE DEF r
      <4>. QED
        BY <1>1, <3>03 DEF Row
    <3>2. rows' = [rows EXCEPT ![i] = r]
      BY <2>2 DEF GrowOlder
    <3>. QED
      BY <1>1, <3>1, <3>2 DEF Row
  <2>. QED
    BY <2>1, <2>2
<1>3. /\ rows' \in Seq(Row) /\ Len(rows') = Len(rows) /\ DOMAIN rows' = DOMAIN rows
      /\ \A j \in DOMAIN rows : rows'[j] = IF j = i THEN r ELSE rows[j]
  BY <1>1, <1>2, ExceptSeq, LenProperties
<1>4. UNCHANGED <<journal, archive, writeLock, captureLock, pc, text, head, tier, audit>>
  BY DEF Process, GrowOlder, calls
<1>5. TypeOK'
  BY <1>3, <1>4
<1>6. TiersPartitionRows'
  BY <1>3, <1>4 DEF TiersPartitionRows
<1>7. TiersKeepTheText'
  BY <1>2, <1>3, <1>4 DEF TiersKeepTheText, CapturedText
<1>. QED
  BY <1>2, <1>3, <1>5, <1>6, <1>7

\* The nightly transaction moves rows between tiers and loses no text.
LEMMA TierCommitShape ==
    ASSUME Shape, TierCommit
    PROVE  /\ Shape'
           /\ DOMAIN rows' = DOMAIN rows
           /\ archive \subseteq archive'
           /\ journal' \subseteq journal
           /\ \A j \in DOMAIN rows : /\ rows'[j].prev = rows[j].prev
                                      /\ rows'[j].locked = rows[j].locked
                                      /\ rows'[j].content = rows[j].content
                                      /\ rows'[j].by = rows[j].by
<1>. USE DEF Shape, TypeOK
<1>. DEFINE moved(i) ==
       CASE i \in tier.cold ->
              [rows[i] EXCEPT !.text = CapturedText(rows[i]), !.textZ = NoText]
         [] i \in journal \ tier.cold /\ IsWarm(i) ->
              [rows[i] EXCEPT !.text = Preview, !.textZ = rows[i].text]
         [] OTHER -> rows[i]
<1>1. rows' = [i \in DOMAIN rows |-> moved(i)]
  BY DEF TierCommit
<1>0. /\ archive' = archive \cup tier.cold /\ journal' = journal \ tier.cold
      /\ writeLock' = "none" /\ tier' = TierIdle
      /\ audit' = [audit EXCEPT !.tiered = audit.tiered \/ audit.pc = "archive"]
      /\ UNCHANGED <<captureLock, pc, text, head>>
  BY DEF TierCommit, calls
<1>2. Len(rows) \in Nat /\ DOMAIN rows = 1..Len(rows) /\ \A i \in DOMAIN rows : rows[i] \in Row
  BY LenProperties, ElementOfSeq
<1>3. ASSUME NEW i \in DOMAIN rows
      PROVE  /\ moved(i) \in Row
             /\ moved(i).prev = rows[i].prev /\ moved(i).locked = rows[i].locked
             /\ moved(i).content = rows[i].content /\ moved(i).by = rows[i].by
             /\ CapturedText(moved(i)) = rows[i].content
             /\ i \in tier.cold => moved(i).text = rows[i].content
             /\ i \in archive \ tier.cold => moved(i) = rows[i]
  <2>1. rows[i] \in Row /\ CapturedText(rows[i]) = rows[i].content /\ rows[i].content \in Texts
    BY <1>2 DEF TiersKeepTheText, Row
  <2>2. CASE i \in tier.cold
    <3>1. moved(i) = [rows[i] EXCEPT !.text = rows[i].content, !.textZ = NoText]
      BY <2>1, <2>2
    <3>. HIDE DEF moved
    <3>2. moved(i) \in Row
      BY <2>1, <3>1 DEF Row
    <3>3. /\ moved(i).text = rows[i].content /\ moved(i).textZ = NoText
          /\ moved(i).prev = rows[i].prev /\ moved(i).locked = rows[i].locked
          /\ moved(i).content = rows[i].content /\ moved(i).by = rows[i].by
      BY <2>1, <3>1 DEF Row
    <3>4. CapturedText(moved(i)) = rows[i].content
      BY <3>3 DEF CapturedText
    <3>. QED
      BY <2>2, <3>2, <3>3, <3>4
  <2>3. CASE i \in journal \ tier.cold /\ IsWarm(i)
    <3>1. moved(i) = [rows[i] EXCEPT !.text = Preview, !.textZ = rows[i].content]
      BY <2>1, <2>3 DEF IsWarm, CapturedText
    <3>2. i \notin archive
      BY <2>3 DEF TiersPartitionRows
    <3>. HIDE DEF moved
    <3>3. moved(i) \in Row
      BY <2>1, <3>1 DEF Row
    <3>4. /\ moved(i).textZ = rows[i].content
          /\ moved(i).prev = rows[i].prev /\ moved(i).locked = rows[i].locked
          /\ moved(i).content = rows[i].content /\ moved(i).by = rows[i].by
      BY <2>1, <3>1 DEF Row
    <3>5. CapturedText(moved(i)) = rows[i].content
      BY <2>1, <3>4, TextsAssumption DEF CapturedText
    <3>. QED
      BY <2>3, <3>2, <3>3, <3>4, <3>5
  <2>4. CASE i \notin tier.cold /\ ~ (i \in journal \ tier.cold /\ IsWarm(i))
    <3>1. moved(i) = rows[i]
      BY <2>4
    <3>. HIDE DEF moved
    <3>. QED
      BY <2>1, <2>4, <3>1
  <2>. QED
    BY <2>2, <2>3, <2>4
<1>. HIDE DEF moved
<1>4. rows' \in [1..Len(rows) -> Row] /\ DOMAIN rows' = DOMAIN rows
  BY <1>1, <1>2, <1>3
<1>5. rows' \in Seq(Row)
  BY <1>2, <1>4, FunctionIsSeq
<1>6. TypeOK'
  <2>2. tier' = [pc |-> "idle", cold |-> {}]
    BY <1>0 DEF TierIdle
  <2>3. /\ audit' = [pc |-> audit.pc, seen |-> audit.seen, tiered |-> audit'.tiered, verdict |-> audit.verdict]
        /\ audit'.tiered \in BOOLEAN
    <3>1. audit'.tiered = (audit.tiered \/ audit.pc = "archive")
      BY <1>0, Zenon
    <3>2. audit'.tiered \in BOOLEAN
      BY <3>1, Zenon
    <3>3. audit' = [pc |-> audit.pc, seen |-> audit.seen, tiered |-> audit'.tiered, verdict |-> audit.verdict]
      BY <1>0
    <3>. QED
      BY <3>2, <3>3
  <2>. QED
    BY <1>0, <1>4, <1>5, <2>2, <2>3 DEF Tier, Holders
<1>7. TiersPartitionRows'
  BY <1>0, <1>4 DEF TiersPartitionRows
<1>8. TiersKeepTheText'
  <2>1. \A i \in DOMAIN rows' : rows'[i] = moved(i) /\ i \in DOMAIN rows
    BY <1>1, <1>4
  <2>2. \A i \in DOMAIN rows' : CapturedText(rows'[i]) = rows'[i].content
    BY <1>3, <2>1
  <2>3. ASSUME NEW i \in archive' PROVE rows'[i].text = rows'[i].content
    <3>1. CASE i \in tier.cold
      BY <1>3, <1>4, <2>1, <3>1
    <3>2. CASE i \in archive \ tier.cold
      BY <1>3, <1>4, <2>1, <3>2 DEF TiersKeepTheText
    <3>. QED
      BY <1>0, <2>3, <3>1, <3>2
  <2>. QED
    BY <2>2, <2>3 DEF TiersKeepTheText
<1>9. \A j \in DOMAIN rows : rows'[j] = moved(j)
  BY <1>1
<1>. QED
  BY <1>0, <1>3, <1>4, <1>6, <1>7, <1>8, <1>9

\* Every step keeps the shape.
LEMMA ShapeNext == Shape /\ [Next]_vars => Shape'
<1>. SUFFICES ASSUME Shape, [Next]_vars PROVE Shape'
  OBVIOUS
<1>1. ASSUME NEW t \in Tasks, CaptureStep(t) \/ CaptureRaises(t) \/ \E x \in Texts : Call(t, x)
      PROVE  Shape'
  <2>1. CASE Insert(t)
    BY <2>1, InsertShape
  <2>2. CASE ~ Insert(t)
    BY <1>1, <2>2, CaptureTypes, TableUnchanged DEF CaptureStep, Shape
  <2>. QED
    BY <2>1, <2>2
<1>2. ASSUME NEW p \in Procs, ProcessDies(p) PROVE Shape'
  BY <1>2, DeathTypes, TableUnchanged DEF Shape
<1>3. ASSUME NEW i \in journal, Process(i) \/ GrowOlder(i) PROVE Shape'
  BY <1>3, RowShape
<1>4. CASE TierSelect \/ TierLocks \/ TierFails
  BY <1>4, TierTypes, TableUnchanged DEF Shape
<1>5. CASE TierCommit
  BY <1>5, TierCommitShape
<1>6. CASE AuditJournal \/ AuditArchive
  BY <1>6, AuditTypes, TableUnchanged DEF Shape
<1>7. CASE UNCHANGED vars
  BY <1>7 DEF vars, Shape, TypeOK, TiersPartitionRows, TiersKeepTheText, CapturedText
<1>. QED
  BY <1>1, <1>2, <1>3, <1>4, <1>5, <1>6, <1>7 DEF Next

\* Every reachable state has the declared types, keeps each row in exactly one
\* tier, and reads every row as it was captured (l0.py, l0_tiers.py).
THEOREM ShapeInvariant == Spec => []Shape
<1>. QED
  BY ShapeInit, ShapeNext, PTL DEF Spec

\* Every variable keeps its declared type: the tables hold ids of rows, a task
\* holds a text exactly while its capture() runs (l0.py).
THEOREM TypeCorrect == Spec => []TypeOK
<1>1. Shape => TypeOK
  BY DEF Shape
<1>. QED
  BY <1>1, ShapeInvariant, PTL

\* Tiering neither loses a row nor leaves it in both tables.
THEOREM TiersPartition == Spec => []TiersPartitionRows
<1>1. Shape => TiersPartitionRows
  BY DEF Shape
<1>. QED
  BY <1>1, ShapeInvariant, PTL

\* Tiering is lossless.
THEOREM TiersAreLossless == Spec => []TiersKeepTheText
<1>1. Shape => TiersKeepTheText
  BY DEF Shape
<1>. QED
  BY <1>1, ShapeInvariant, PTL

\* Both together: a row is in one tier and reads as it was captured, whatever
\* captures, fails, dies or ages while tier_l0 selects, locks and commits.
THEOREM RowsStayWhole == Spec => []RowsAreWhole
<1>1. Shape => RowsAreWhole
  BY DEF Shape, RowsAreWhole
<1>. QED
  BY <1>1, ShapeInvariant, PTL

-----------------------------------------------------------------------------
(* The chain of the captures that hold the write lock *)

\* A capture about to insert with the lock held knows the newest journal row:
\* whatever is newer than its head has been tiered away.
HeadIsNewest ==
    \A t \in Tasks :
        pc[t] = "insert" /\ writeLock = t
        => \A j \in DOMAIN rows : head[t] < j => j \in archive

Chained == HeadIsNewest /\ LockedCapturesDoNotFork

\* Steps that move no row and bring no task to its INSERT.
LEMMA ChainedUntouched ==
    ASSUME TypeOK, Chained, UNCHANGED table,
           \A u \in Tasks :
               pc'[u] = "insert" /\ writeLock' = u
               => pc[u] = "insert" /\ writeLock = u /\ head'[u] = head[u]
    PROVE  Chained'
  BY DEF Chained, HeadIsNewest, LockedCapturesDoNotFork, FromTheHead, table

\* Steps that change rows in place or archive some.
LEMMA ChainedInPlace ==
    ASSUME Chained, DOMAIN rows' = DOMAIN rows, archive \subseteq archive',
           UNCHANGED <<pc, head>>,
           writeLock' \in {writeLock, "none"},
           \A j \in DOMAIN rows : rows'[j].prev = rows[j].prev /\ rows'[j].locked = rows[j].locked
    PROVE  Chained'
<1>1. \A t \in Tasks : t # "none"
  BY TasksAssumption DEF Holders
<1>2. HeadIsNewest'
  BY <1>1 DEF Chained, HeadIsNewest
<1>3. LockedCapturesDoNotFork'
  BY DEF Chained, LockedCapturesDoNotFork, FromTheHead
<1>. QED
  BY <1>2, <1>3 DEF Chained

\* The INSERT of a capture that holds the lock: the head it read is still the head.
LEMMA ChainedInsert ==
    ASSUME Shape, Chained, NEW t \in Tasks, Insert(t)
    PROVE  Chained'
<1>. USE DEF Shape, TypeOK
<1>1. PICK n \in Nat : n = Len(rows) + 1
  OBVIOUS
<1>2. /\ DOMAIN rows' = DOMAIN rows \cup {n}
      /\ \A i \in DOMAIN rows : rows'[i] = rows[i] /\ i \in Nat /\ i < n
      /\ rows'[n] = NewRow(t)
      /\ archive' = archive
  <2>1. NewRow(t) \in Row
    <3>1. text[t] \in Texts
      BY DEF Insert
    <3>. QED
      BY <3>1, TasksAssumption DEF NewRow, Row
  <2>. QED
    BY <1>1, <2>1 DEF Insert
<1>3. HeadIsNewest'
  BY TasksAssumption DEF Insert, HeadIsNewest, Holders
<1>4. ASSUME NEW i \in DOMAIN rows, rows'[i].locked PROVE FromTheHead(i)'
  BY <1>2, <1>4 DEF Chained, LockedCapturesDoNotFork, FromTheHead
<1>5. ASSUME rows'[n].locked PROVE FromTheHead(n)'
  <2>1. writeLock = t
    <3>1. NewRow(t).locked = (writeLock = t)
      BY DEF NewRow
    <3>2. NewRow(t).locked
      BY <1>2, <1>5, Zenon
    <3>. QED
      BY <3>1, <3>2, Zenon
  <2>2. rows'[n].prev = head[t]
    BY <1>2 DEF NewRow
  <2>3. \A j \in DOMAIN rows : head[t] < j => j \in archive
    BY <2>1 DEF Chained, HeadIsNewest, Insert
  <2>. QED
    BY <1>2, <2>2, <2>3 DEF FromTheHead
<1>. QED
  BY <1>2, <1>3, <1>4, <1>5 DEF Chained, LockedCapturesDoNotFork

\* A task that reads the head reads the greatest id of the journal.
LEMMA ChainedReadHead ==
    ASSUME Shape, Chained, NEW t \in Tasks, ReadHead(t)
    PROVE  Chained'
<1>. USE DEF Shape, TypeOK
<1>1. \A j \in journal : j <= JournalHead
  BY HeadType
<1>2. JournalHead \in Nat /\ \A j \in DOMAIN rows : j \in Nat
  BY HeadType
<1>3. \A j \in DOMAIN rows : JournalHead < j => j \in archive
  BY <1>1, <1>2 DEF TiersPartitionRows
<1>4. head'[t] = JournalHead /\ \A u \in Tasks \ {t} : head'[u] = head[u] /\ pc'[u] = pc[u]
  BY DEF ReadHead, Goto
<1>5. HeadIsNewest'
  BY <1>3, <1>4 DEF Chained, HeadIsNewest, ReadHead, table
<1>6. LockedCapturesDoNotFork'
  BY DEF Chained, LockedCapturesDoNotFork, FromTheHead, ReadHead, table
<1>. QED
  BY <1>5, <1>6 DEF Chained

\* Every step keeps the chain invariant.
LEMMA ChainedNext == Shape /\ Chained /\ [Next]_vars => Chained'
<1>. SUFFICES ASSUME Shape, Chained, [Next]_vars PROVE Chained'
  OBVIOUS
<1>. USE DEF Shape
<1>1. ASSUME NEW t \in Tasks, CaptureStep(t) \/ CaptureRaises(t) \/ \E x \in Texts : Call(t, x)
      PROVE  Chained'
  <2>1. CASE Insert(t)
    BY <2>1, ChainedInsert
  <2>2. CASE ReadHead(t)
    BY <2>2, ChainedReadHead
  <2>3. ASSUME NEW x \in Texts, Call(t, x) PROVE Chained'
    BY <2>3, ChainedUntouched DEF Call, Goto, TypeOK
  <2>4. CASE TakeCaptureLock(t)
    BY <2>4, ChainedUntouched DEF TakeCaptureLock, Goto, TypeOK
  <2>5. CASE PriorFound(t)
    BY <2>5, ChainedUntouched DEF PriorFound, Return, Goto, TypeOK
  <2>6. CASE PriorAbsent(t)
    BY <2>6, ChainedUntouched DEF PriorAbsent, Goto, TypeOK
  <2>7. CASE BeginImmediate(t)
    BY <2>7, ChainedUntouched DEF BeginImmediate, Goto, TypeOK
  <2>8. CASE BeginTimesOut(t)
    BY <2>8, ChainedUntouched DEF BeginTimesOut, Goto, TypeOK
  <2>9. CASE CaptureRaises(t)
    BY <2>9, ChainedUntouched, TasksAssumption DEF CaptureRaises, Return, Goto, TypeOK, Holders
  <2>. QED
    BY <1>1, <2>1, <2>2, <2>3, <2>4, <2>5, <2>6, <2>7, <2>8, <2>9 DEF CaptureStep
<1>2. ASSUME NEW p \in Procs, ProcessDies(p) PROVE Chained'
  BY <1>2, ChainedUntouched, TasksAssumption DEF ProcessDies, TypeOK, Holders
<1>3. ASSUME NEW i \in journal, Process(i) \/ GrowOlder(i) PROVE Chained'
  BY <1>3, RowShape, ChainedInPlace DEF Process, GrowOlder, calls
<1>4. CASE TierSelect \/ TierLocks \/ TierFails
  BY <1>4, ChainedUntouched, TasksAssumption DEF TierSelect, TierLocks, TierFails, calls, Holders
<1>5. CASE TierCommit
  BY <1>5, TierCommitShape, ChainedInPlace DEF TierCommit, calls
<1>6. CASE AuditJournal \/ AuditArchive
  BY <1>6, ChainedUntouched DEF AuditJournal, AuditArchive, calls
<1>7. CASE UNCHANGED vars
  BY <1>7, ChainedUntouched DEF vars, table
<1>. QED
  BY <1>1, <1>2, <1>3, <1>4, <1>5, <1>6, <1>7 DEF Next

\* No capture that obtained BEGIN IMMEDIATE forks the chain, whatever the other
\* processes, the nightly tiering and the captures without a lock do (l0.py).
THEOREM NoForkUnderTheLock == Spec => []LockedCapturesDoNotFork
<1>1. Init => Chained
  BY DEF Init, Chained, HeadIsNewest, LockedCapturesDoNotFork
<1>2. Chained => LockedCapturesDoNotFork
  BY DEF Chained
<1>. QED
  BY <1>1, <1>2, ChainedNext, ShapeInvariant, PTL DEF Spec

-----------------------------------------------------------------------------
(* Dedup inside one process *)

\* A call past the lock owns its process's capture lock, and one past the dedup
\* query knows that its process has no journal row with its text.
Serial ==
    /\ \A t \in Tasks : pc[t] \notin {"idle", "lock"} => captureLock[ProcOf[t]] = t
    /\ \A t \in Tasks, i \in journal :
         pc[t] \in {"begin", "head", "insert"} /\ rows[i].by = ProcOf[t]
         => rows[i].content # text[t]

Deduped == Serial /\ OneRowPerProcessAndText

\* A call moving on moves no other call.
LEMMA GotoOne ==
    ASSUME TypeOK, NEW t \in Tasks, NEW step \in Steps, Goto(t, step)
    PROVE  pc'[t] = step /\ \A u \in Tasks \ {t} : pc'[u] = pc[u]
  BY DEF TypeOK, Goto

\* A call that returns frees the lock of its own process only.
LEMMA ReturnOne ==
    ASSUME TypeOK, Serial, NEW t \in Tasks, pc[t] \notin {"idle", "lock"}, Return(t)
    PROVE  /\ pc'[t] = "idle"
           /\ \A u \in Tasks \ {t} : pc'[u] = pc[u] /\ text'[u] = text[u]
           /\ \A u \in Tasks \ {t} : pc[u] \notin {"idle", "lock"} =>
                 ProcOf[u] # ProcOf[t] /\ captureLock'[ProcOf[u]] = captureLock[ProcOf[u]]
<1>1. pc'[t] = "idle" /\ \A u \in Tasks \ {t} : pc'[u] = pc[u]
  BY GotoOne DEF Return, Steps
<1>2. \A u \in Tasks \ {t} : text'[u] = text[u]
  BY DEF Return, TypeOK
<1>3. captureLock' = [captureLock EXCEPT ![ProcOf[t]] = "none"] /\ captureLock[ProcOf[t]] = t
  BY DEF Return, Serial
<1>4. ASSUME NEW u \in Tasks \ {t}, pc[u] \notin {"idle", "lock"}
      PROVE  ProcOf[u] # ProcOf[t] /\ captureLock'[ProcOf[u]] = captureLock[ProcOf[u]]
  <2>1. captureLock[ProcOf[u]] = u
    BY <1>4 DEF Serial
  <2>2. ProcOf[u] # ProcOf[t]
    BY <1>3, <2>1
  <2>3. ProcOf[u] \in Procs
    BY TasksAssumption
  <2>. QED
    BY <1>3, <2>2, <2>3 DEF TypeOK
<1>. QED
  BY <1>1, <1>2, <1>4

\* Steps of a capture that leave the journal as it is.
LEMMA DedupedCapture ==
    ASSUME TypeOK, Deduped, NEW t \in Tasks,
           \/ \E x \in Texts : Call(t, x)
           \/ TakeCaptureLock(t) \/ PriorFound(t) \/ PriorAbsent(t) \/ BeginImmediate(t)
           \/ BeginTimesOut(t) \/ ReadHead(t) \/ CaptureRaises(t)
    PROVE  Deduped'
<1>1. UNCHANGED <<rows, journal>>
  BY DEF Call, TakeCaptureLock, PriorFound, PriorAbsent, BeginImmediate, BeginTimesOut, ReadHead, CaptureRaises, table
<1>2. OneRowPerProcessAndText'
  BY <1>1 DEF Deduped, OneRowPerProcessAndText
<1>3. Serial
  BY DEF Deduped
<1>4. ASSUME NEW x \in Texts, Call(t, x) PROVE Serial'
  <2>1. pc'[t] = "lock" /\ \A u \in Tasks \ {t} : pc'[u] = pc[u] /\ text'[u] = text[u]
    BY <1>4, GotoOne DEF Call, Steps, TypeOK
  <2>2. UNCHANGED captureLock
    BY <1>4 DEF Call
  <2>. QED
    BY <1>1, <1>3, <2>1, <2>2 DEF Serial
<1>5. CASE TakeCaptureLock(t)
  <2>1. pc'[t] = "prior" /\ \A u \in Tasks \ {t} : pc'[u] = pc[u]
    BY <1>5, GotoOne DEF TakeCaptureLock, Steps
  <2>2. /\ captureLock[ProcOf[t]] = "none" /\ captureLock' = [captureLock EXCEPT ![ProcOf[t]] = t]
        /\ UNCHANGED text
    BY <1>5 DEF TakeCaptureLock
  <2>3. captureLock'[ProcOf[t]] = t
    BY <2>2, TasksAssumption DEF TypeOK
  <2>4. ASSUME NEW u \in Tasks \ {t}, pc[u] \notin {"idle", "lock"} PROVE captureLock'[ProcOf[u]] = u
    <3>1. captureLock[ProcOf[u]] = u /\ u # "none"
      BY <1>3, <2>4, TasksAssumption DEF Serial, Holders
    <3>2. ProcOf[u] # ProcOf[t] /\ ProcOf[u] \in Procs
      BY <2>2, <3>1, TasksAssumption
    <3>. QED
      BY <2>2, <3>1, <3>2 DEF TypeOK
  <2>9. Serial'
    BY <1>1, <1>3, <2>1, <2>2, <2>3, <2>4 DEF Serial
  <2>. QED
    BY <1>2, <2>9 DEF Deduped
<1>6. CASE PriorFound(t) \/ CaptureRaises(t)
  <2>1. pc[t] \notin {"idle", "lock"} /\ Return(t)
    BY <1>6 DEF PriorFound, CaptureRaises
  <2>9. Serial'
    BY <1>1, <1>3, <2>1, ReturnOne DEF Serial
  <2>. QED
    BY <1>2, <2>9 DEF Deduped
<1>7. CASE PriorAbsent(t)
  <2>1. pc'[t] = "begin" /\ \A u \in Tasks \ {t} : pc'[u] = pc[u]
    BY <1>7, GotoOne DEF PriorAbsent, Steps
  <2>2. pc[t] = "prior" /\ UNCHANGED <<captureLock, text>> /\ \A i \in journal : rows[i].content # text[t]
    BY <1>7 DEF PriorAbsent, Captured
  <2>9. Serial'
    BY <1>1, <1>3, <2>1, <2>2 DEF Serial
  <2>. QED
    BY <1>2, <2>9 DEF Deduped
<1>8. CASE BeginImmediate(t) \/ BeginTimesOut(t) \/ ReadHead(t)
  <2>1. /\ pc[t] \in {"begin", "head"} /\ pc'[t] \in {"head", "insert"}
        /\ \A u \in Tasks \ {t} : pc'[u] = pc[u]
    BY <1>8, GotoOne DEF BeginImmediate, BeginTimesOut, ReadHead, Steps
  <2>2. UNCHANGED <<captureLock, text>>
    BY <1>8 DEF BeginImmediate, BeginTimesOut, ReadHead
  <2>9. Serial'
    BY <1>1, <1>3, <2>1, <2>2 DEF Serial
  <2>. QED
    BY <1>2, <2>9 DEF Deduped
<1>. QED
  BY <1>2, <1>4, <1>5, <1>6, <1>7, <1>8 DEF Deduped

\* The INSERT under the capture lock: no other task of the process is in flight.
LEMMA DedupedInsert ==
    ASSUME Shape, Deduped, NEW t \in Tasks, Insert(t)
    PROVE  Deduped'
<1>1. PICK n \in Nat : n = Len(rows) + 1
  BY DEF Shape, TypeOK
<1>2. /\ journal' = journal \cup {n}
      /\ \A i \in journal : rows'[i] = rows[i]
      /\ rows'[n].content = text[t] /\ rows'[n].by = ProcOf[t]
  <2>1. NewRow(t) \in Row
    <3>1. text[t] \in Texts
      BY DEF Insert, Shape, TypeOK
    <3>. QED
      BY <3>1, TasksAssumption DEF NewRow, Row, Shape, TypeOK
  <2>2. rows'[n] = NewRow(t) /\ \A i \in journal : rows'[i] = rows[i]
    BY <1>1, <2>1 DEF Insert, Shape, TypeOK
  <2>3. journal' = journal \cup {n}
    BY <1>1 DEF Insert
  <2>4. NewRow(t).content = text[t] /\ NewRow(t).by = ProcOf[t]
    BY DEF NewRow
  <2>. QED
    BY <2>2, <2>3, <2>4
<1>3. TypeOK /\ Serial /\ OneRowPerProcessAndText
  BY DEF Shape, Deduped
<1>4. pc[t] = "insert" /\ Return(t)
  BY DEF Insert
<1>5. \A i \in journal : rows[i].by = ProcOf[t] => rows[i].content # text[t]
  BY <1>3, <1>4 DEF Serial
<1>6. /\ pc'[t] = "idle"
      /\ \A u \in Tasks \ {t} : pc'[u] = pc[u] /\ text'[u] = text[u]
      /\ \A u \in Tasks \ {t} : pc[u] \notin {"idle", "lock"} =>
             ProcOf[u] # ProcOf[t] /\ captureLock'[ProcOf[u]] = captureLock[ProcOf[u]]
  BY <1>3, <1>4, ReturnOne
<1>7. Serial'
  <2>1. \A u \in Tasks : pc'[u] \notin {"idle", "lock"} => captureLock'[ProcOf[u]] = u
    BY <1>3, <1>6 DEF Serial
  <2>2. \A u \in Tasks, i \in journal' :
          pc'[u] \in {"begin", "head", "insert"} /\ rows'[i].by = ProcOf[u]
          => rows'[i].content # text'[u]
    BY <1>2, <1>3, <1>6 DEF Serial
  <2>. QED
    BY <2>1, <2>2 DEF Serial
<1>8. OneRowPerProcessAndText'
  BY <1>2, <1>3, <1>5 DEF OneRowPerProcessAndText
<1>. QED
  BY <1>7, <1>8 DEF Deduped

\* Steps of the other actors: rows keep their text and process, the journal only
\* shrinks, the captures stand still.
LEMMA DedupedElsewhere ==
    ASSUME TypeOK, Deduped, journal' \subseteq journal,
           UNCHANGED <<captureLock, pc, text>>,
           \A j \in DOMAIN rows : rows'[j].content = rows[j].content /\ rows'[j].by = rows[j].by
    PROVE  Deduped'
<1>1. \A j \in journal' : /\ j \in journal
                         /\ rows'[j].content = rows[j].content /\ rows'[j].by = rows[j].by
  BY DEF TypeOK
<1>2. Serial'
  BY <1>1, Zenon DEF Deduped, Serial
<1>3. OneRowPerProcessAndText'
  BY <1>1 DEF Deduped, OneRowPerProcessAndText
<1>. QED
  BY <1>2, <1>3 DEF Deduped

\* A dead process holds no lock and runs no capture.
LEMMA DedupedDeath ==
    ASSUME TypeOK, Deduped, NEW p \in Procs, ProcessDies(p)
    PROVE  Deduped'
<1>. USE TasksAssumption DEF TypeOK, table
<1>1. /\ UNCHANGED <<rows, journal>>
      /\ captureLock' = [captureLock EXCEPT ![p] = "none"]
      /\ \A u \in Tasks : IF ProcOf[u] = p THEN pc'[u] = "idle"
                          ELSE pc'[u] = pc[u] /\ text'[u] = text[u]
  BY DEF ProcessDies
<1>. QED
  BY <1>1 DEF Deduped, Serial, OneRowPerProcessAndText

\* Every step keeps the dedup invariant.
LEMMA DedupedNext == Shape /\ Deduped /\ [Next]_vars => Deduped'
<1>. SUFFICES ASSUME Shape, Deduped, [Next]_vars PROVE Deduped'
  OBVIOUS
<1>. USE DEF Shape
<1>1. ASSUME NEW t \in Tasks, CaptureStep(t) \/ CaptureRaises(t) \/ \E x \in Texts : Call(t, x)
      PROVE  Deduped'
  BY <1>1, DedupedInsert, DedupedCapture DEF CaptureStep
<1>2. ASSUME NEW p \in Procs, ProcessDies(p) PROVE Deduped'
  BY <1>2, DedupedDeath
<1>3. ASSUME NEW i \in journal, Process(i) \/ GrowOlder(i) PROVE Deduped'
  BY <1>3, RowShape, DedupedElsewhere DEF Process, GrowOlder, calls
<1>4. CASE TierCommit
  BY <1>4, TierCommitShape, DedupedElsewhere DEF TierCommit, calls
<1>5. CASE TierSelect \/ TierLocks \/ TierFails \/ AuditJournal \/ AuditArchive
  BY <1>5, DedupedElsewhere DEF TierSelect, TierLocks, TierFails, AuditJournal, AuditArchive, calls, table
<1>6. CASE UNCHANGED vars
  BY <1>6, DedupedElsewhere DEF vars
<1>. QED
  BY <1>1, <1>2, <1>3, <1>4, <1>5, <1>6 DEF Next

\* The prior query and the capture lock make dedup exact inside a process: its
\* captures never leave two journal rows with the same text (l0.py).
THEOREM DedupIsExactPerProcess == Spec => []OneRowPerProcessAndText
<1>1. Init => Deduped
  BY DEF Init, Deduped, Serial, OneRowPerProcessAndText
<1>2. Deduped => OneRowPerProcessAndText
  BY DEF Deduped
<1>. QED
  BY <1>1, <1>2, DedupedNext, ShapeInvariant, PTL DEF Spec

-----------------------------------------------------------------------------
(* The auditor *)

\* What the first query leaves for the second.  It saw the journal when the ids
\* were 1..k; every one of them it saw or finds in the archive, because a row
\* leaves the journal only for the archive.  Unless a tiering commit fell in
\* between, the archive holds none but those it did not see.
SeenUpTo(k) ==
    /\ 1..k \subseteq DOMAIN rows
    /\ 1..k \subseteq DOMAIN audit.seen \cup archive
    /\ DOMAIN audit.seen \subseteq 1..k
    /\ \A i \in DOMAIN audit.seen : audit.seen[i] = rows[i].content
    /\ audit.tiered \/ (archive \subseteq 1..k /\ DOMAIN audit.seen \cap archive = {})

AuditCovers == audit.pc = "archive" => \E k \in Nat : SeenUpTo(k)

\* Steps of others between the two queries: rows are added and keep their text,
\* the archive grows, and only a tiering commit lets it grow.
LEMMA CoversElsewhere ==
    ASSUME AuditCovers, DOMAIN rows \subseteq DOMAIN rows',
           \A j \in DOMAIN rows : rows'[j].content = rows[j].content,
           archive \subseteq archive',
           audit'.pc = audit.pc, audit'.seen = audit.seen,
           \/ audit'.tiered = audit.tiered /\ archive' = archive
           \/ audit.pc = "archive" => audit'.tiered
    PROVE  AuditCovers'
<1>. SUFFICES ASSUME audit.pc = "archive" PROVE \E k \in Nat : SeenUpTo(k)'
  BY DEF AuditCovers
<1>1. PICK k \in Nat : SeenUpTo(k)
  BY DEF AuditCovers
<1>2. \A i \in DOMAIN audit.seen : i \in DOMAIN rows
  BY <1>1 DEF SeenUpTo
<1>3. \A i \in DOMAIN audit'.seen : audit'.seen[i] = rows'[i].content
  BY <1>1, <1>2 DEF SeenUpTo
<1>4. SeenUpTo(k)'
  BY <1>1, <1>3 DEF SeenUpTo
<1>. QED
  BY <1>4

\* The first query sees the whole journal.
LEMMA CoversFirstQuery ==
    ASSUME Shape, AuditJournal
    PROVE  AuditCovers'
<1>. USE DEF Shape, TypeOK
<1>1. Len(rows) \in Nat /\ DOMAIN rows = 1..Len(rows)
  BY LenProperties
<1>2. audit' = [pc |-> "archive", seen |-> [i \in journal |-> CapturedText(rows[i])],
                tiered |-> FALSE, verdict |-> "none"]
      /\ UNCHANGED <<rows, journal, archive>>
  BY DEF AuditJournal, table
<1>3. audit'.seen = [i \in journal |-> CapturedText(rows[i])]
  BY <1>2
<1>4. DOMAIN audit'.seen = journal
      /\ \A i \in journal : audit'.seen[i] = rows[i].content
  BY <1>3 DEF TiersKeepTheText
<1>5. SeenUpTo(Len(rows))'
  BY <1>1, <1>2, <1>4 DEF SeenUpTo, TiersPartitionRows
<1>. QED
  BY <1>1, <1>2, <1>5 DEF AuditCovers

\* Every step keeps what the second query will need.
LEMMA CoversNext == Shape /\ AuditCovers /\ [Next]_vars => AuditCovers'
<1>. SUFFICES ASSUME Shape, AuditCovers, [Next]_vars PROVE AuditCovers'
  OBVIOUS
<1>. USE DEF Shape
<1>1. ASSUME NEW t \in Tasks, CaptureStep(t) \/ CaptureRaises(t) \/ \E x \in Texts : Call(t, x)
      PROVE  AuditCovers'
  <2>1. CASE Insert(t)
    <3>1. rows' = Append(rows, NewRow(t)) /\ UNCHANGED <<archive, audit>>
      BY <2>1 DEF Insert
    <3>2. /\ DOMAIN rows \subseteq DOMAIN rows'
          /\ \A j \in DOMAIN rows : rows'[j] = rows[j]
      BY <3>1 DEF TypeOK
    <3>. QED
      BY <3>1, <3>2, CoversElsewhere
  <2>2. CASE ~ Insert(t)
    <3>1. UNCHANGED <<table, audit>>
      BY <1>1, <2>2 DEF CaptureStep, Call, TakeCaptureLock, PriorFound, PriorAbsent, BeginImmediate,
                        BeginTimesOut, ReadHead, CaptureRaises
    <3>. QED
      BY <3>1, CoversElsewhere DEF table
  <2>. QED
    BY <2>1, <2>2
<1>2. ASSUME NEW p \in Procs, ProcessDies(p) PROVE AuditCovers'
  BY <1>2, CoversElsewhere DEF ProcessDies, table
<1>3. ASSUME NEW i \in journal, Process(i) \/ GrowOlder(i) PROVE AuditCovers'
  BY <1>3, RowShape, CoversElsewhere DEF Process, GrowOlder
<1>4. CASE TierCommit
  <2>1. /\ DOMAIN rows' = DOMAIN rows /\ archive \subseteq archive'
        /\ \A j \in DOMAIN rows : rows'[j].content = rows[j].content
    BY <1>4, TierCommitShape
  <2>2. audit' = [audit EXCEPT !.tiered = audit.tiered \/ audit.pc = "archive"]
    BY <1>4 DEF TierCommit
  <2>3. audit = [pc |-> audit.pc, seen |-> audit.seen, tiered |-> audit.tiered, verdict |-> audit.verdict]
    BY DEF TypeOK
  <2>4. audit'.tiered = (audit.tiered \/ audit.pc = "archive")
    BY <2>2, <2>3, Zenon
  <2>5. audit'.pc = audit.pc /\ audit'.seen = audit.seen
    BY <2>2, <2>3
  <2>6. audit.pc = "archive" => audit'.tiered
    BY <2>4, Zenon
  <2>. QED
    BY <2>1, <2>5, <2>6, CoversElsewhere
<1>5. CASE TierSelect \/ TierLocks \/ TierFails
  BY <1>5, CoversElsewhere DEF TierSelect, TierLocks, TierFails, table
<1>6. CASE AuditJournal
  BY <1>6, CoversFirstQuery
<1>7. CASE AuditArchive
  BY <1>7 DEF AuditArchive, AuditCovers
<1>8. CASE UNCHANGED vars
  BY <1>8, CoversElsewhere DEF vars
<1>. QED
  BY <1>1, <1>2, <1>3, <1>4, <1>5, <1>6, <1>7, <1>8 DEF Next

\* An id up to k has the same predecessor in every set that holds 1..k and in
\* the whole database: what makes the walk over two tables a walk of the chain.
LEMMA SamePredecessor ==
    ASSUME NEW k \in Nat, NEW i \in 1..k, NEW ids, NEW all,
           1..k \subseteq ids, 1..k \subseteq all,
           ids \subseteq Nat \ {0}, all \subseteq Nat \ {0}
    PROVE  PrevIn(ids, i) = PrevIn(all, i)
<1>1. \A j \in Nat \ {0} : j < i => j \in 1..k
  OBVIOUS
<1>2. \A j : j \in {x \in ids : x < i} <=> j \in {x \in all : x < i}
  BY <1>1
<1>3. {j \in ids : j < i} = {j \in all : j < i}
  BY <1>2
<1>. QED
  BY <1>3 DEF PrevIn

\* What the second query's verdict says of the database of that moment.
LEMMA VerdictOfTheWalk ==
    ASSUME Shape, AuditCovers, AuditArchive
    PROVE  /\ audit'.verdict = "broken" => audit.tiered \/ ~ ChainIsWhole
           /\ audit'.verdict = "whole" =>
                \A i \in DOMAIN audit.seen : LinkHolds(DOMAIN rows, i)
<1>. DEFINE seen == audit.seen
            cold == [i \in archive |-> rows[i].text]
            ids == DOMAIN seen \cup archive
<1>1. audit' = [pc |-> "idle", seen |-> <<>>, tiered |-> FALSE, verdict |-> Walk(seen, cold)]
  BY DEF AuditArchive
<1>2. audit'.verdict = Walk(seen, cold)
  BY <1>1
<1>3. PICK k \in Nat : SeenUpTo(k)
  BY DEF AuditArchive, AuditCovers
<1>4. DOMAIN rows \subseteq Nat \ {0} /\ archive \subseteq DOMAIN rows
  BY LenProperties DEF Shape, TypeOK
<1>5. /\ 1..k \subseteq ids /\ 1..k \subseteq DOMAIN rows
      /\ ids \subseteq Nat \ {0} /\ DOMAIN seen \subseteq 1..k
  BY <1>3, <1>4 DEF SeenUpTo
<1>6. \A i \in 1..k : LinkHolds(ids, i) <=> LinkHolds(DOMAIN rows, i)
  <2>. TAKE i \in 1..k
  <2>. HIDE DEF ids
  <2>1. PrevIn(ids, i) = PrevIn(DOMAIN rows, i)
    BY <1>4, <1>5, SamePredecessor
  <2>. QED
    BY <2>1 DEF LinkHolds
<1>7. /\ DOMAIN cold = archive
      /\ \A i \in archive : cold[i] = rows[i].content
  BY DEF Shape, TiersKeepTheText
<1>8. Walk(seen, cold) = IF /\ DOMAIN seen \cap archive = {}
                            /\ \A i \in ids : LinkHolds(ids, i)
                         THEN "whole" ELSE "broken"
  <2>1. \A i \in DOMAIN seen : seen[i] = rows[i].content
    BY <1>3 DEF SeenUpTo
  <2>. HIDE DEF cold, seen
  <2>. QED
    BY <1>7, <2>1 DEF Walk
<1>9. ASSUME audit'.verdict = "broken", ~ audit.tiered PROVE ~ ChainIsWhole
  <2>1. DOMAIN seen \cap archive = {} /\ archive \subseteq 1..k
    BY <1>3, <1>9 DEF SeenUpTo
  <2>2. \E i \in ids : ~ LinkHolds(ids, i)
    BY <1>2, <1>8, <1>9, <2>1
  <2>3. PICK i \in 1..k : ~ LinkHolds(ids, i)
    BY <1>5, <2>1, <2>2
  <2>. QED
    BY <1>5, <1>6, <2>3 DEF ChainIsWhole
<1>10. ASSUME audit'.verdict = "whole" PROVE \A i \in DOMAIN audit.seen : LinkHolds(DOMAIN rows, i)
  <2>1. \A i \in ids : LinkHolds(ids, i)
    BY <1>2, <1>8, <1>10
  <2>. QED
    BY <1>5, <1>6, <2>1
<1>. QED
  BY <1>9, <1>10

\* The auditor is right about the chain, whatever captures, ages and tiers
\* between its two queries: a break it reports is one, or tiering showed it a row
\* twice, and it passes over none among the rows it saw (verify_chain, l0.py).
THEOREM AuditIsRight == Spec => AuditVerdictIsTrue
<1>1. Init => AuditCovers
  BY DEF Init, AuditCovers
<1>2. Shape /\ AuditCovers /\ [Next]_vars
      => [audit.pc = "archive" /\ audit'.pc = "idle" =>
            /\ audit'.verdict = "broken" => audit.tiered \/ ~ ChainIsWhole
            /\ audit'.verdict = "whole" =>
                 \A i \in DOMAIN audit.seen : LinkHolds(DOMAIN rows, i)]_vars
  <2>. SUFFICES ASSUME Shape, AuditCovers, [Next]_vars, audit.pc = "archive", audit'.pc = "idle"
                PROVE  /\ audit'.verdict = "broken" => audit.tiered \/ ~ ChainIsWhole
                       /\ audit'.verdict = "whole" =>
                            \A i \in DOMAIN audit.seen : LinkHolds(DOMAIN rows, i)
    OBVIOUS
  <2>1. CASE AuditArchive
    BY <2>1, VerdictOfTheWalk
  <2>2. CASE ~ AuditArchive
    <3>1. audit'.pc = audit.pc \/ AuditJournal
      <4>1. CASE TierCommit
        BY <4>1 DEF TierCommit, Shape, TypeOK
      <4>2. CASE ~ TierCommit /\ ~ AuditJournal
        BY <2>2, <4>2 DEF Next, CaptureStep, Call, TakeCaptureLock, PriorFound, PriorAbsent, BeginImmediate,
                          BeginTimesOut, ReadHead, Insert, CaptureRaises, ProcessDies, Process, GrowOlder,
                          TierSelect, TierLocks, TierFails, vars
      <4>. QED
        BY <4>1, <4>2
    <3>. QED
      BY <3>1 DEF AuditJournal
  <2>. QED
    BY <2>1, <2>2
<1>. QED
  BY <1>1, <1>2, CoversNext, ShapeInvariant, PTL DEF Spec, AuditVerdictIsTrue

=============================================================================
