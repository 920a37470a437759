------------------------- MODULE WriteDispatch_proofs ------------------------
(***************************************************************************)
(* Proofs about WriteDispatch, for any tasks and any number of foreign     *)
(* commits: its state keeps its type, a read-then-write section is not     *)
(* interleaved with another process's commit, and the calls implement      *)
(* Transactions, although they share a connection and its transaction.     *)
(***************************************************************************)
EXTENDS WriteDispatch, TLAPS

-----------------------------------------------------------------------------
(* The inductive invariant *)

Places == {"waiting", "body", "ok", "raised", "stale"}
Rows == Tasks \X (1..2)
Bases == [rows : SUBSET Rows, version : Versions]
Conns == [txn : BOOLEAN, snap : Versions \cup {NoSnapshot}, locked : BOOLEAN, dirty : SUBSET Rows]
Call == [kind : Kinds, pc : Places, done : 0..2, seen : Versions \cup {NoSnapshot}]

\* The asyncio lock is held by the one task that is inside a call.
OneHolder == \A t \in Tasks : (call[t].pc = "body") <=> (lock = t)

Unstarted == \A t \in Tasks :
    /\ call[t].done <= Length(call[t].kind)
    /\ call[t].pc = "waiting" => call[t].done = 0 /\ call[t].seen = NoSnapshot

\* A snapshot is of the past; under the write lock it is of the present.
Snapshots ==
    /\ foreign => base.version < MaxForeign
    /\ conn.snap \in Versions => conn.snap <= base.version
    /\ conn.locked => ~foreign /\ conn.snap = base.version

\* What a section has read is the snapshot it would write on.
Sections == \A t \in Tasks : call[t].pc = "body" /\ call[t].kind = "immediate" =>
    /\ call[t].seen # NoSnapshot => conn.snap = call[t].seen
    /\ call[t].done = 1 => call[t].seen # NoSnapshot /\ conn.locked

SectionInv == TypeOK /\ OneHolder /\ Unstarted /\ Snapshots /\ Sections

-----------------------------------------------------------------------------
(* Steps *)

LEMMA TypeUnfolds ==
    TypeOK <=> /\ base \in Bases /\ foreign \in BOOLEAN /\ lock \in Tasks \cup {Nobody}
               /\ conn \in Conns /\ call \in [Tasks -> Call]
  BY DEF TypeOK, Bases, Conns, Call, Places, Rows

LEMMA LengthTyped == ASSUME NEW k \in Kinds PROVE Length(k) \in 0..2
  BY DEF Kinds, Length

LEMMA WritingTyped ==
    ASSUME conn \in Conns, base \in Bases
    PROVE  /\ Writing \in Conns /\ Writing.snap = base.version /\ Writing.locked /\ Writing.dirty = conn.dirty
           /\ Pinned \in Conns /\ Pinned.locked = conn.locked /\ Pinned.dirty = conn.dirty
           /\ Pinned.snap = (IF conn.txn THEN View ELSE conn.snap)
           /\ Clean \in Conns /\ Clean.snap = NoSnapshot /\ Clean.locked = FALSE /\ Clean.dirty = {}
           /\ [conn EXCEPT !.txn = TRUE] \in Conns
           /\ View \in Versions
<1>1. base.version \in Versions /\ conn.snap \in Versions \cup {NoSnapshot}
  BY DEF Bases, Conns
<1>2. View \in Versions
  BY <1>1 DEF View
<1>3. Writing \in Conns /\ Writing.snap = base.version /\ Writing.locked /\ Writing.dirty = conn.dirty
  BY <1>1 DEF Writing, Conns
<1>4. /\ Pinned \in Conns /\ Pinned.locked = conn.locked /\ Pinned.dirty = conn.dirty
      /\ Pinned.snap = (IF conn.txn THEN View ELSE conn.snap)
  BY <1>2 DEF Pinned, Conns
<1>5. Clean \in Conns /\ Clean.snap = NoSnapshot /\ Clean.locked = FALSE /\ Clean.dirty = {}
  BY DEF Clean, Conns
<1>6. [conn EXCEPT !.txn = TRUE] \in Conns
  BY DEF Conns
<1>. QED
  BY <1>2, <1>3, <1>4, <1>5, <1>6

\* What a call that runs finds: it is the only one inside.
LEMMA OnlyOneInside ==
    ASSUME SectionInv, NEW t \in Tasks, Runs(t)
    PROVE  /\ lock = t /\ \A u \in Tasks : u # t => call[u].pc # "body"
           /\ call[t] \in Call /\ Length(call[t].kind) \in 0..2
<1>1. call \in [Tasks -> Call] /\ call[t] \in Call /\ lock = t
  BY TypeUnfolds DEF SectionInv, Runs
<1>2. call[t].kind \in Kinds
  BY <1>1 DEF Call
<1>. QED
  BY <1>1, <1>2, LengthTyped DEF SectionInv, OneHolder

\* A call that is over gives the lock back, and nobody is inside.
LEMMA EndingsKeepInv ==
    ASSUME SectionInv, NEW t \in Tasks, Runs(t),
           lock' = Nobody, foreign' = foreign, base' \in Bases, conn' \in Conns, Snapshots',
           NEW new \in Call, call' = [call EXCEPT ![t] = new],
           new.pc \in {"ok", "raised", "stale"}, new.kind = call[t].kind, new.done = call[t].done
    PROVE  SectionInv'
<1>1. call \in [Tasks -> Call] /\ foreign \in BOOLEAN
  BY TypeUnfolds DEF SectionInv
<1>2. call' \in [Tasks -> Call] /\ \A u \in Tasks : call'[u] = IF u = t THEN new ELSE call[u]
  BY <1>1
<1>3. \A u \in Tasks : call'[u].pc # "body"
  BY <1>2, OnlyOneInside
<1>4. TypeOK'
  BY <1>1, <1>2 DEF TypeOK, Bases, Conns, Call, Places, Rows
<1>5. OneHolder'
  BY <1>3, MarkersAssumption DEF OneHolder
<1>6. Unstarted'
  BY <1>2 DEF SectionInv, Unstarted
<1>7. Sections'
  BY <1>3 DEF Sections
<1>. QED
  BY <1>4, <1>5, <1>6, <1>7 DEF SectionInv

\* A statement inside a call: the others do not move.
LEMMA StatementsKeepInv ==
    ASSUME SectionInv, NEW t \in Tasks, Runs(t), UNCHANGED <<base, foreign, lock>>,
           conn' \in Conns, Snapshots',
           NEW new \in Call, call' = [call EXCEPT ![t] = new],
           new.pc = "body", new.kind = call[t].kind, new.done <= Length(new.kind),
           new.kind = "immediate" =>
              /\ new.seen # NoSnapshot => conn'.snap = new.seen
              /\ new.done = 1 => new.seen # NoSnapshot /\ conn'.locked
    PROVE  SectionInv'
<1>1. /\ call \in [Tasks -> Call] /\ base \in Bases /\ foreign \in BOOLEAN /\ lock \in Tasks \cup {Nobody}
      /\ call[t].pc = "body"
  BY TypeUnfolds DEF SectionInv, Runs
<1>2. call' \in [Tasks -> Call] /\ \A u \in Tasks : call'[u] = IF u = t THEN new ELSE call[u]
  BY <1>1
<1>3. TypeOK'
  BY <1>1, <1>2 DEF TypeOK, Bases, Conns, Call, Places, Rows
<1>4. OneHolder' /\ Unstarted'
  BY <1>1, <1>2 DEF SectionInv, OneHolder, Unstarted
<1>5. Sections'
  BY <1>2, OnlyOneInside DEF Sections
<1>. QED
  BY <1>3, <1>4, <1>5 DEF SectionInv

LEMMA ForeignKeepsInv == ASSUME SectionInv, ForeignBegin \/ ForeignCommit PROVE SectionInv'
<1>1. base \in Bases /\ base.version \in Versions /\ Versions \subseteq Nat /\ MaxForeign \in Nat
  BY TypeUnfolds, MaxForeignAssumption DEF SectionInv, Bases, Versions
<1>2. CASE ForeignBegin
  <2>1. TypeOK'
    BY <1>2 DEF ForeignBegin, SectionInv, TypeOK
  <2>2. Snapshots'
    BY <1>2 DEF ForeignBegin, SectionInv, Snapshots
  <2>. QED
    BY <1>2, <2>1, <2>2 DEF ForeignBegin, SectionInv, OneHolder, Unstarted, Sections
<1>3. CASE ForeignCommit
  <2>1. base.version < MaxForeign /\ ~ conn.locked
    BY <1>3 DEF ForeignCommit, SectionInv, Snapshots
  <2>2. base' \in Bases /\ base'.version = base.version + 1
    BY <1>1, <1>3, <2>1 DEF ForeignCommit, Bases, Versions
  <2>3. TypeOK'
    BY <1>3, <2>2 DEF ForeignCommit, SectionInv, TypeOK, Bases, Rows
  <2>4. Snapshots'
    BY <1>1, <1>3, <2>1, <2>2 DEF ForeignCommit, SectionInv, Snapshots
  <2>. QED
    BY <1>3, <2>3, <2>4 DEF ForeignCommit, SectionInv, OneHolder, Unstarted, Sections
<1>. QED
  BY <1>2, <1>3

\* Connections whose snapshot is none, or today's under a free file, or the old one.
LEMMA SnapshotsStand ==
    ASSUME SectionInv, UNCHANGED foreign, base'.version = base.version,
           \/ conn'.snap = conn.snap /\ conn'.locked = conn.locked
           \/ conn'.snap = NoSnapshot /\ ~ conn'.locked
           \/ conn'.snap = base.version /\ (conn'.locked => ~ foreign)
    PROVE  Snapshots'
<1>1. base.version \in Nat
  BY TypeUnfolds DEF SectionInv, Bases, Versions
<1>. QED
  BY <1>1, MarkersAssumption DEF SectionInv, Snapshots

LEMMA BorrowKeepsInv == ASSUME SectionInv, NEW t \in Tasks, Borrow(t) PROVE SectionInv'
<1>1. /\ call[t].pc = "waiting" /\ lock = Nobody /\ lock' = t /\ UNCHANGED <<base, foreign, conn>>
      /\ call' = [call EXCEPT ![t].pc = "body"] /\ call \in [Tasks -> Call]
  BY TypeUnfolds DEF Borrow, SectionInv
<1>2. [call[t] EXCEPT !.pc = "body"] \in Call
  BY <1>1 DEF Call, Places
<1>3. /\ call' \in [Tasks -> Call]
      /\ \A u \in Tasks : call'[u] = IF u = t THEN [call[t] EXCEPT !.pc = "body"] ELSE call[u]
  BY <1>1, <1>2
<1>4. call'[t].pc = "body" /\ call'[t].kind = call[t].kind /\ call'[t].done = call[t].done /\ call'[t].seen = call[t].seen
  BY <1>1, <1>3 DEF Call
<1>5. \A u \in Tasks : call[u].pc # "body"
  BY <1>1, MarkersAssumption DEF SectionInv, OneHolder
<1>6. TypeOK'
  BY <1>1, <1>3 DEF SectionInv, TypeOK, Call, Places
<1>7. OneHolder' /\ Unstarted' /\ Snapshots'
  BY <1>1, <1>3, <1>4, <1>5 DEF SectionInv, OneHolder, Unstarted, Snapshots
<1>8. Sections'
  BY <1>1, <1>3, <1>4, <1>5 DEF SectionInv, Unstarted, Sections
<1>. QED
  BY <1>6, <1>7, <1>8 DEF SectionInv

LEMMA CancelWaitingKeepsInv == ASSUME SectionInv, NEW t \in Tasks, CancelWaiting(t) PROVE SectionInv'
<1>1. /\ call[t].pc = "waiting" /\ UNCHANGED <<base, foreign, lock, conn>>
      /\ call' = [call EXCEPT ![t].pc = "raised"] /\ call \in [Tasks -> Call]
  BY TypeUnfolds DEF CancelWaiting, SectionInv
<1>2. [call[t] EXCEPT !.pc = "raised"] \in Call
  BY <1>1 DEF Call, Places
<1>3. /\ call' \in [Tasks -> Call]
      /\ \A u \in Tasks : call'[u] = IF u = t THEN [call[t] EXCEPT !.pc = "raised"] ELSE call[u]
  BY <1>1, <1>2
<1>4. call'[t].pc = "raised" /\ call'[t].kind = call[t].kind /\ call'[t].done = call[t].done
  BY <1>1, <1>3 DEF Call
<1>5. TypeOK'
  BY <1>1, <1>3 DEF SectionInv, TypeOK, Call, Places
<1>6. OneHolder' /\ Unstarted' /\ Snapshots' /\ Sections'
  BY <1>1, <1>3, <1>4 DEF SectionInv, OneHolder, Unstarted, Snapshots, Sections
<1>. QED
  BY <1>5, <1>6 DEF SectionInv

\* The read of a section: the snapshot it takes, or the one it finds.
LEMMA ReadFirstKeepsInv == ASSUME SectionInv, NEW t \in Tasks, ReadFirst(t) PROVE SectionInv'
<1>1. /\ Runs(t) /\ call[t].seen = NoSnapshot /\ UNCHANGED <<base, foreign, lock>>
      /\ call \in [Tasks -> Call] /\ conn \in Conns /\ base \in Bases
  BY TypeUnfolds DEF ReadFirst, SectionInv
<1>2. View \in Versions /\ base.version \in Versions /\ call[t].pc = "body"
  BY <1>1, WritingTyped DEF Bases, Runs
<1>3. /\ call[t] \in Call /\ call[t].done <= Length(call[t].kind)
      /\ call[t].kind = "immediate" => call[t].done # 1
  BY <1>1, <1>2 DEF SectionInv, Unstarted, Sections
<1>4. ASSUME NEW v \in Versions
      PROVE  LET new == [call[t] EXCEPT !.seen = v] IN
             new \in Call /\ new.pc = "body" /\ new.kind = call[t].kind /\ new.done = call[t].done /\ new.seen = v
  BY <1>2, <1>3 DEF Call
<1>5. CASE (call[t].kind = "atomic" \/ conn.txn) /\ conn' = Pinned /\ call' = [call EXCEPT ![t].seen = View]
  <2> DEFINE new == [call[t] EXCEPT !.seen = View]
  <2>1. call' = [call EXCEPT ![t] = new]
    BY <1>1, <1>5
  <2>2. new \in Call /\ new.pc = "body" /\ new.kind = call[t].kind /\ new.done = call[t].done /\ new.seen = View
    BY <1>2, <1>4
  <2>3. /\ conn' \in Conns /\ conn'.locked = conn.locked
        /\ conn'.snap = IF conn.txn THEN View ELSE conn.snap
    BY <1>1, <1>5, WritingTyped
  <2>4. Snapshots'
    <3>1. CASE conn.snap = NoSnapshot
      BY <1>1, <2>3, <3>1, SnapshotsStand, MarkersAssumption, <1>2 DEF View, SectionInv, Snapshots
    <3>2. CASE conn.snap # NoSnapshot
      BY <1>1, <2>3, <3>2, SnapshotsStand DEF View
    <3>. QED
      BY <3>1, <3>2
  <2>5. new.kind = "immediate" => conn'.snap = new.seen /\ new.done # 1
    BY <1>3, <1>5, <2>2, <2>3
  <2> HIDE DEF new
  <2>. QED
    BY <1>1, <1>3, <2>1, <2>2, <2>3, <2>4, <2>5, StatementsKeepInv
<1>6. CASE /\ call[t].kind = "immediate" /\ ~conn.txn /\ CanWrite /\ conn' = Writing
           /\ call' = [call EXCEPT ![t].seen = base.version]
  <2> DEFINE new == [call[t] EXCEPT !.seen = base.version]
  <2>1. call' = [call EXCEPT ![t] = new]
    BY <1>1, <1>6
  <2>2. new \in Call /\ new.pc = "body" /\ new.kind = call[t].kind /\ new.done = call[t].done /\ new.seen = base.version
    BY <1>2, <1>4
  <2>3. conn' \in Conns /\ conn'.snap = base.version /\ ~ foreign
    BY <1>1, <1>6, WritingTyped DEF CanWrite
  <2>4. Snapshots'
    BY <1>1, <2>3, SnapshotsStand
  <2> HIDE DEF new
  <2>. QED
    BY <1>1, <1>3, <2>1, <2>2, <2>3, <2>4, StatementsKeepInv
<1>. QED
  BY <1>5, <1>6 DEF ReadFirst

\* A statement that writes: the snapshot it is allowed to write on is today's,
\* so it is what the section has read.
LEMMA ExecuteKeepsInv == ASSUME SectionInv, NEW t \in Tasks, Execute(t) PROVE SectionInv'
<1>1. /\ Runs(t) /\ UNCHANGED <<base, foreign, lock>> /\ call[t].pc = "body"
      /\ call \in [Tasks -> Call] /\ conn \in Conns /\ base \in Bases /\ ~ foreign /\ ~ Stale
      /\ call[t].done < Length(call[t].kind)
      /\ call[t].kind = "immediate" => call[t].seen # NoSnapshot
  BY TypeUnfolds DEF Execute, MayWrite, CanWrite, RollsBack, Runs, SectionInv
<1>2. call[t] \in Call /\ Length(call[t].kind) \in 0..2 /\ call[t].done \in 0..2
  BY <1>1, OnlyOneInside DEF Call
<1>3. <<t, call[t].done + 1>> \in Rows
  BY <1>1, <1>2 DEF Rows
<1>4. conn' \in Conns /\ conn'.snap = base.version /\ conn'.locked
  BY <1>1, <1>3, WritingTyped DEF Execute, Conns
<1>5. Snapshots'
  BY <1>1, <1>4, SnapshotsStand
<1> DEFINE new == [call[t] EXCEPT !.done = @ + 1]
<1>6. call' = [call EXCEPT ![t] = new]
  BY <1>1 DEF Execute
<1>7. call[t].done + 1 \in 0..2
  BY <1>1, <1>2
<1>8. new \in Call /\ new.pc = "body" /\ new.kind = call[t].kind /\ new.done = call[t].done + 1 /\ new.seen = call[t].seen
  BY <1>1, <1>2, <1>7 DEF Call
<1>9. new.kind = "immediate" => new.seen # NoSnapshot /\ conn'.snap = new.seen
  <2>1. call[t].kind = "immediate" => conn.snap = call[t].seen /\ call[t].seen \in Versions
    BY <1>1, <1>2 DEF SectionInv, Sections, Call
  <2>2. call[t].kind = "immediate" => conn.snap = base.version
    BY <1>1, <2>1 DEF Stale, SectionInv, Snapshots, Versions, Bases
  <2>. QED
    BY <1>1, <1>4, <1>8, <2>1, <2>2
<1>10. new.done <= Length(new.kind)
  BY <1>1, <1>2, <1>8
<1> HIDE DEF new
<1>11. /\ new \in Call /\ conn' \in Conns /\ new.pc = "body" /\ new.kind = call[t].kind /\ new.done <= Length(new.kind)
       /\ UNCHANGED <<base, foreign, lock>> /\ Runs(t) /\ Snapshots' /\ call' = [call EXCEPT ![t] = new]
       /\ new.kind = "immediate" =>
            /\ new.seen # NoSnapshot => conn'.snap = new.seen
            /\ new.done = 1 => new.seen # NoSnapshot /\ conn'.locked
  BY <1>1, <1>4, <1>5, <1>6, <1>8, <1>9, <1>10
<1>. QED
  BY <1>11, StatementsKeepInv

\* A call that ends and leaves the connection as a statement did, or clean.
LEMMA EndsKeepInv ==
    ASSUME SectionInv, NEW t \in Tasks, Runs(t), NEW o \in {"ok", "raised", "stale"}, Ends(t, o),
           UNCHANGED foreign, base' \in Bases, base'.version = base.version, conn' \in Conns,
           \/ conn'.snap = conn.snap /\ conn'.locked = conn.locked
           \/ conn'.snap = NoSnapshot /\ ~ conn'.locked
           \/ conn'.snap = base.version /\ (conn'.locked => ~ foreign)
    PROVE  SectionInv'
<1> DEFINE new == [call[t] EXCEPT !.pc = o]
<1>1. call[t] \in Call /\ lock' = Nobody /\ call' = [call EXCEPT ![t] = new]
  BY OnlyOneInside DEF Ends
<1>2. new \in Call /\ new.pc = o /\ new.kind = call[t].kind /\ new.done = call[t].done
  BY <1>1 DEF Call, Places
<1>3. Snapshots'
  BY SnapshotsStand
<1> HIDE DEF new
<1>. QED
  BY <1>1, <1>2, <1>3, EndingsKeepInv

LEMMA QueryKeepsInv == ASSUME SectionInv, NEW t \in Tasks, Query(t) PROVE SectionInv'
<1> DEFINE new == [call[t] EXCEPT !.pc = "ok", !.seen = View]
<1>1. /\ Runs(t) /\ UNCHANGED <<base, foreign>> /\ lock' = Nobody /\ conn' = Pinned
      /\ call' = [call EXCEPT ![t] = new] /\ conn \in Conns /\ base \in Bases /\ call[t] \in Call
  BY TypeUnfolds, OnlyOneInside DEF Query, SectionInv
<1>2. /\ conn' \in Conns /\ conn'.locked = conn.locked /\ View \in Versions
      /\ conn'.snap = IF conn.txn THEN View ELSE conn.snap
  BY <1>1, WritingTyped
<1>3. new \in Call /\ new.pc = "ok" /\ new.kind = call[t].kind /\ new.done = call[t].done
  BY <1>1, <1>2 DEF Call, Places
<1>4. Snapshots'
  <2>1. CASE conn.snap = NoSnapshot
    BY <1>1, <1>2, <2>1, SnapshotsStand, MarkersAssumption DEF View, SectionInv, Snapshots, Bases
  <2>2. CASE conn.snap # NoSnapshot
    BY <1>1, <1>2, <2>2, SnapshotsStand DEF View
  <2>. QED
    BY <2>1, <2>2
<1> HIDE DEF new
<1>. QED
  BY <1>1, <1>2, <1>3, <1>4, EndingsKeepInv

LEMMA RaisingKeepsInv ==
    ASSUME SectionInv, NEW t \in Tasks, Violates(t) \/ Busy(t) \/ BusySnapshot(t) \/ Cancel(t)
    PROVE  SectionInv'
<1>1. /\ Runs(t) /\ UNCHANGED <<base, foreign>> /\ base \in Bases /\ conn \in Conns
      /\ \E o \in {"ok", "raised", "stale"} : Ends(t, o)
  BY TypeUnfolds DEF Violates, Busy, BusySnapshot, Cancel, MayWrite, SectionInv
<1>2. /\ conn' \in Conns
      /\ \/ conn'.snap = conn.snap /\ conn'.locked = conn.locked
         \/ conn'.snap = NoSnapshot /\ ~ conn'.locked
         \/ conn'.snap = base.version /\ (conn'.locked => ~ foreign)
  <2>1. CASE Violates(t)
    BY <1>1, <2>1, WritingTyped DEF Violates, After, CanWrite
  <2>2. CASE Busy(t)
    <3>1. /\ [conn EXCEPT !.txn = TRUE] \in Conns
          /\ [conn EXCEPT !.txn = TRUE].snap = conn.snap /\ [conn EXCEPT !.txn = TRUE].locked = conn.locked
      BY <1>1 DEF Conns
    <3>. QED
      BY <1>1, <2>2, <3>1, WritingTyped DEF Busy, After
  <2>3. CASE BusySnapshot(t)
    BY <1>1, <2>3, WritingTyped DEF BusySnapshot, After
  <2>4. CASE Cancel(t)
    BY <1>1, <2>4, WritingTyped DEF Cancel
  <2>. QED
    BY <2>1, <2>2, <2>3, <2>4
<1>. QED
  BY <1>1, <1>2, EndsKeepInv

LEMMA CommitKeepsInv == ASSUME SectionInv, NEW t \in Tasks, Commit(t) PROVE SectionInv'
<1>1. /\ Runs(t) /\ UNCHANGED foreign /\ conn' = Clean /\ base' = [base EXCEPT !.rows = @ \cup conn.dirty]
      /\ base \in Bases /\ conn \in Conns
      /\ \E o \in {"ok", "raised", "stale"} : Ends(t, o)
  BY TypeUnfolds DEF Commit, SectionInv
<1>2. base' \in Bases /\ base'.version = base.version
  BY <1>1 DEF Bases, Conns
<1>3. conn' \in Conns /\ conn'.snap = NoSnapshot /\ ~ conn'.locked
  BY <1>1, WritingTyped
<1>. QED
  BY <1>1, <1>2, <1>3, EndsKeepInv

LEMMA SectionInit == Init => SectionInv
<1> SUFFICES ASSUME Init PROVE SectionInv
  OBVIOUS
<1>1. 0 \in Versions
  BY MaxForeignAssumption DEF Versions
<1>2. \A t \in Tasks : \E k \in Kinds : call[t] = [kind |-> k, pc |-> "waiting", done |-> 0, seen |-> NoSnapshot]
  BY DEF Init
<1>3. \A t \in Tasks : call[t] \in Call /\ call[t].pc = "waiting" /\ call[t].done = 0 /\ call[t].seen = NoSnapshot
  <2> SUFFICES ASSUME NEW t \in Tasks
               PROVE  call[t] \in Call /\ call[t].pc = "waiting" /\ call[t].done = 0 /\ call[t].seen = NoSnapshot
    OBVIOUS
  <2>1. PICK k \in Kinds : call[t] = [kind |-> k, pc |-> "waiting", done |-> 0, seen |-> NoSnapshot]
    BY <1>2
  <2>. QED
    BY <2>1 DEF Call, Places
<1>4. call \in [Tasks -> Call]
  BY <1>3 DEF Init
<1>5. TypeOK
  BY <1>1, <1>4, TypeUnfolds DEF Init, Bases, Conns, Clean
<1>6. \A t \in Tasks : Length(call[t].kind) \in 0..2
  BY <1>3, LengthTyped DEF Call
<1>. QED
  BY <1>3, <1>5, <1>6, MarkersAssumption DEF Init, SectionInv, OneHolder, Unstarted, Snapshots, Sections, Clean

LEMMA SectionStep == SectionInv /\ [Next]_vars => SectionInv'
<1> SUFFICES ASSUME SectionInv, [Next]_vars PROVE SectionInv'
  OBVIOUS
<1>1. ASSUME NEW t \in Tasks, Step(t) \/ Cancel(t) \/ CancelWaiting(t) PROVE SectionInv'
  BY <1>1, BorrowKeepsInv, QueryKeepsInv, ReadFirstKeepsInv, ExecuteKeepsInv, RaisingKeepsInv, CommitKeepsInv,
     CancelWaitingKeepsInv DEF Step
<1>2. CASE UNCHANGED vars
  BY <1>2 DEF vars, SectionInv, TypeOK, OneHolder, Unstarted, Snapshots, Sections
<1>. QED
  BY <1>1, <1>2, ForeignKeepsInv DEF Next

\* The inductive core: one task is inside, a snapshot is of the past, and of
\* the present under the write lock; a section writes on what it has read.
THEOREM SectionInvariant == Spec => []SectionInv
  BY SectionInit, SectionStep, PTL DEF Spec

\* The types, for any tasks and any bound on the foreign commits.
THEOREM TypeCorrect == Spec => []TypeOK
<1>1. SectionInv => TypeOK
  BY DEF SectionInv
<1>. QED
  BY <1>1, SectionInvariant, PTL

\* Once a read-then-write section under the write lock has written, no other
\* process has committed since it read (shared/l0.py, the in_transaction guard).
THEOREM SectionsStandAlone == Spec => []SectionsAreIsolated
<1>1. SectionInv => SectionsAreIsolated
  <2> SUFFICES ASSUME SectionInv, NEW t \in Tasks, call[t].kind = "immediate", call[t].done = 1, Runs(t)
               PROVE  call[t].seen = base.version
    BY DEF SectionsAreIsolated
  <2>. QED
    BY DEF SectionInv, Sections, Snapshots, Runs
<1>. QED
  BY <1>1, SectionInvariant, PTL

-----------------------------------------------------------------------------
(* The refinement: what the open transaction holds *)

Own(t) == {<<t, i>> : i \in 1..call[t].done}

\* The row is of a call that raised and left its statements behind.
Abandoned(r) == \E u \in Tasks : ~ RollsBack(call[u].kind) /\ call[u].pc \in {"raised", "stale"} /\ r \in RowsOf(u)

\* The transaction holds the statements of the call inside, and otherwise only
\* what calls that no rollback covers have abandoned.
DirtInv ==
    /\ \A t \in Tasks : call[t].pc = "body" => Own(t) \subseteq conn.dirty
    /\ \A r \in conn.dirty : Abandoned(r) \/ \E t \in Tasks : call[t].pc = "body" /\ r \in Own(t)

LEMMA OwnAreItsRows == ASSUME SectionInv, NEW t \in Tasks PROVE Own(t) \subseteq RowsOf(t) /\ call[t] \in Call
<1>1. call[t] \in Call
  BY TypeUnfolds DEF SectionInv
<1>2. call[t].done \in 0..2 /\ Length(call[t].kind) \in 0..2 /\ call[t].done <= Length(call[t].kind)
  BY <1>1, LengthTyped DEF Call, SectionInv, Unstarted
<1>. QED
  BY <1>1, <1>2 DEF Own, RowsOf

\* One call moves, and only that one.
LEMMA OneMoves ==
    ASSUME SectionInv, NEW t \in Tasks, NEW new \in Call, call' = [call EXCEPT ![t] = new], new.kind = call[t].kind
    PROVE  /\ \A u \in Tasks : call'[u] = IF u = t THEN new ELSE call[u]
           /\ \A u \in Tasks : call'[u].kind = call[u].kind /\ RowsOf(u)' = RowsOf(u)
<1>1. call \in [Tasks -> Call]
  BY TypeUnfolds DEF SectionInv
<1>2. \A u \in Tasks : call'[u] = IF u = t THEN new ELSE call[u]
  BY <1>1
<1>. QED
  BY <1>2 DEF RowsOf

LEMMA EndingsKeepDirt ==
    ASSUME SectionInv, DirtInv, NEW t \in Tasks, Runs(t),
           NEW new \in Call, call' = [call EXCEPT ![t] = new],
           new.pc \in {"ok", "raised", "stale"}, new.kind = call[t].kind,
           \/ conn'.dirty = {}
           \/ /\ conn'.dirty = conn.dirty
              /\ Own(t) = {} \/ (new.pc \in {"raised", "stale"} /\ ~ RollsBack(new.kind))
    PROVE  DirtInv'
<1>1. /\ \A u \in Tasks : call'[u] = IF u = t THEN new ELSE call[u]
      /\ \A u \in Tasks : call'[u].kind = call[u].kind /\ RowsOf(u)' = RowsOf(u)
  BY OneMoves
<1>2. \A u \in Tasks : call'[u].pc # "body"
  BY <1>1, OnlyOneInside
<1>3. ASSUME NEW r, Abandoned(r) PROVE Abandoned(r)'
  <2>1. PICK u \in Tasks : ~ RollsBack(call[u].kind) /\ call[u].pc \in {"raised", "stale"} /\ r \in RowsOf(u)
    BY <1>3 DEF Abandoned
  <2>2. call'[u] = call[u] /\ RowsOf(u)' = RowsOf(u)
    BY <1>1, <2>1 DEF Runs
  <2>. QED
    BY <2>1, <2>2 DEF Abandoned, RollsBack
<1>4. ASSUME NEW r \in conn'.dirty PROVE Abandoned(r)'
  <2>1. CASE Abandoned(r)
    BY <1>3, <2>1
  <2>2. CASE ~ Abandoned(r)
    <3>1. PICK u \in Tasks : call[u].pc = "body" /\ r \in Own(u)
      BY <1>4, <2>2 DEF DirtInv
    <3>2. u = t
      BY <3>1, OnlyOneInside
    <3>3. r \in RowsOf(t)' /\ new.pc \in {"raised", "stale"} /\ ~ RollsBack(new.kind)
      BY <1>1, <1>4, <3>1, <3>2, OwnAreItsRows
    <3>. QED
      BY <1>1, <3>3 DEF Abandoned, RollsBack
  <2>. QED
    BY <2>1, <2>2
<1>. QED
  BY <1>2, <1>4 DEF DirtInv

\* A step inside a call, or into one: the statement adds its own row.
LEMMA StatementsKeepDirt ==
    ASSUME SectionInv, DirtInv, NEW t \in Tasks,
           call[t].pc = "body" \/ (lock = Nobody /\ call[t].pc = "waiting"),
           NEW new \in Call, call' = [call EXCEPT ![t] = new],
           new.pc = "body", new.kind = call[t].kind,
           \/ conn'.dirty = conn.dirty /\ new.done = call[t].done
           \/ /\ conn'.dirty = conn.dirty \cup {<<t, call[t].done + 1>>}
              /\ new.done = call[t].done + 1 /\ call[t].pc = "body"
    PROVE  DirtInv'
<1>1. /\ \A u \in Tasks : call'[u] = IF u = t THEN new ELSE call[u]
      /\ \A u \in Tasks : call'[u].kind = call[u].kind /\ RowsOf(u)' = RowsOf(u)
  BY OneMoves
<1>2. call[t].done \in 0..2 /\ (call[t].pc = "waiting" => call[t].done = 0)
  BY OwnAreItsRows DEF Call, SectionInv, Unstarted
<1>3. \A u \in Tasks \ {t} : call[u].pc # "body"
  BY MarkersAssumption DEF SectionInv, OneHolder
<1>4. ASSUME NEW r, Abandoned(r) PROVE Abandoned(r)'
  <2>1. PICK u \in Tasks : ~ RollsBack(call[u].kind) /\ call[u].pc \in {"raised", "stale"} /\ r \in RowsOf(u)
    BY <1>4 DEF Abandoned
  <2>2. call'[u] = call[u] /\ RowsOf(u)' = RowsOf(u)
    BY <1>1, <2>1
  <2>. QED
    BY <2>1, <2>2 DEF Abandoned, RollsBack
<1>5. Own(t) \subseteq conn.dirty
  <2>1. CASE call[t].pc = "body"
    BY <2>1 DEF DirtInv
  <2>2. CASE call[t].pc = "waiting"
    BY <1>2, <2>2 DEF Own
  <2>. QED
    BY <2>1, <2>2
<1>6. /\ Own(t)' \subseteq conn'.dirty /\ Own(t) \subseteq Own(t)'
      /\ \A r \in conn'.dirty : r \in conn.dirty \/ r \in Own(t)'
  <2>1. CASE conn'.dirty = conn.dirty /\ new.done = call[t].done
    BY <1>1, <1>5, <2>1 DEF Own
  <2>2. CASE conn'.dirty = conn.dirty \cup {<<t, call[t].done + 1>>} /\ new.done = call[t].done + 1
    <3>1. call'[t].done = call[t].done + 1
      BY <1>1, <2>2
    <3>2. 1..call'[t].done = 1..call[t].done \cup {call[t].done + 1}
      BY <1>2, <3>1
    <3>3. Own(t)' = Own(t) \cup {<<t, call[t].done + 1>>}
      BY <3>2 DEF Own
    <3>. QED
      BY <1>5, <2>2, <3>3
  <2>. QED
    BY <2>1, <2>2
<1>7. \A r \in conn'.dirty : Abandoned(r)' \/ \E u \in Tasks : call'[u].pc = "body" /\ r \in Own(u)'
  <2> SUFFICES ASSUME NEW r \in conn'.dirty, ~ Abandoned(r)' PROVE r \in Own(t)' /\ call'[t].pc = "body"
    OBVIOUS
  <2>1. CASE r \in conn.dirty
    <3>1. PICK u \in Tasks : call[u].pc = "body" /\ r \in Own(u)
      BY <1>4, <2>1 DEF DirtInv
    <3>. QED
      BY <1>1, <1>3, <1>6, <3>1
  <2>. QED
    BY <1>1, <1>6, <2>1
<1>. QED
  BY <1>1, <1>3, <1>6, <1>7 DEF DirtInv

-----------------------------------------------------------------------------
(* What the actions do to the call and to the transaction *)

LEMMA Statements ==
    ASSUME SectionInv, NEW t \in Tasks, Borrow(t) \/ ReadFirst(t) \/ Execute(t)
    PROVE  /\ UNCHANGED base /\ (call[t].pc = "body" \/ (lock = Nobody /\ call[t].pc = "waiting"))
           /\ \E new \in Call :
                /\ call' = [call EXCEPT ![t] = new] /\ new.pc = "body" /\ new.kind = call[t].kind
                /\ \/ conn'.dirty = conn.dirty /\ new.done = call[t].done
                   \/ /\ conn'.dirty = conn.dirty \cup {<<t, call[t].done + 1>>}
                      /\ new.done = call[t].done + 1 /\ call[t].pc = "body"
<1>1. call \in [Tasks -> Call] /\ call[t] \in Call /\ conn \in Conns /\ base \in Bases
  BY TypeUnfolds DEF SectionInv
<1>2. CASE Borrow(t)
  <2> DEFINE new == [call[t] EXCEPT !.pc = "body"]
  <2>1. call' = [call EXCEPT ![t] = new]
    BY <1>2 DEF Borrow
  <2>2. new \in Call /\ new.pc = "body" /\ new.kind = call[t].kind /\ new.done = call[t].done
    BY <1>1 DEF Call, Places
  <2> HIDE DEF new
  <2>. QED
    BY <1>2, <2>1, <2>2 DEF Borrow
<1>3. CASE ReadFirst(t)
  <2>1. PICK v \in Versions : call' = [call EXCEPT ![t].seen = v] /\ conn'.dirty = conn.dirty
    BY <1>1, <1>3, WritingTyped DEF ReadFirst, Bases
  <2> DEFINE new == [call[t] EXCEPT !.seen = v]
  <2>2. call' = [call EXCEPT ![t] = new]
    BY <2>1
  <2>3. new \in Call /\ new.pc = call[t].pc /\ new.kind = call[t].kind /\ new.done = call[t].done
    BY <1>1 DEF Call
  <2> HIDE DEF new
  <2>. QED
    BY <1>3, <2>1, <2>2, <2>3 DEF ReadFirst, Runs
<1>4. CASE Execute(t)
  <2>1. call[t].done < Length(call[t].kind) /\ Length(call[t].kind) \in 0..2 /\ call[t].done \in 0..2 /\ Runs(t)
    BY <1>1, <1>4, OnlyOneInside DEF Execute, MayWrite, Call
  <2>2. call[t].done + 1 \in 0..2
    BY <2>1
  <2> DEFINE new == [call[t] EXCEPT !.done = @ + 1]
  <2>3. call' = [call EXCEPT ![t] = new]
    BY <1>4 DEF Execute
  <2>4. new \in Call /\ new.pc = call[t].pc /\ new.kind = call[t].kind /\ new.done = call[t].done + 1
    BY <1>1, <2>2 DEF Call
  <2>5. conn'.dirty = conn.dirty \cup {<<t, call[t].done + 1>>}
    BY <1>1, <1>4, WritingTyped DEF Execute, Conns
  <2> HIDE DEF new
  <2>. QED
    BY <1>4, <2>1, <2>3, <2>4, <2>5 DEF Execute, Runs
<1>. QED
  BY <1>2, <1>3, <1>4

\* Raising: the transaction is rolled back, or the call is one no rollback covers.
LEMMA Raises ==
    ASSUME SectionInv, NEW t \in Tasks, Violates(t) \/ Busy(t) \/ BusySnapshot(t) \/ Cancel(t)
    PROVE  /\ UNCHANGED base /\ Runs(t)
           /\ \E new \in Call :
                /\ call' = [call EXCEPT ![t] = new] /\ new.pc \in {"raised", "stale"} /\ new.kind = call[t].kind
                /\ conn'.dirty = {} \/ (conn'.dirty = conn.dirty /\ ~ RollsBack(new.kind))
<1>1. call[t] \in Call /\ conn \in Conns /\ base \in Bases
  BY TypeUnfolds DEF SectionInv
<1>2. UNCHANGED base /\ Runs(t) /\ \E o \in {"raised", "stale"} : Ends(t, o)
  BY DEF Violates, Busy, BusySnapshot, Cancel, MayWrite
<1>3. PICK o \in {"raised", "stale"} : Ends(t, o)
  BY <1>2
<1> DEFINE new == [call[t] EXCEPT !.pc = o]
<1>4. call' = [call EXCEPT ![t] = new]
  BY <1>3 DEF Ends
<1>5. new \in Call /\ new.pc = o /\ new.kind = call[t].kind
  BY <1>1 DEF Call, Places
<1>6. conn'.dirty = {} \/ (conn'.dirty = conn.dirty /\ ~ RollsBack(call[t].kind))
  <2>1. [conn EXCEPT !.txn = TRUE].dirty = conn.dirty
    BY <1>1 DEF Conns
  <2>. QED
    BY <1>1, <2>1, WritingTyped DEF Violates, Busy, BusySnapshot, Cancel, After, RollsBack
<1> HIDE DEF new
<1>. QED
  BY <1>2, <1>4, <1>5, <1>6

\* Returning, or raising with the commit done: a read has written nothing, a
\* commit takes whatever the transaction holds.
LEMMA Returns ==
    ASSUME SectionInv, NEW t \in Tasks, Query(t) \/ Commit(t)
    PROVE  /\ Runs(t)
           /\ \E new \in Call :
                /\ call' = [call EXCEPT ![t] = new] /\ new.kind = call[t].kind
                /\ \/ Query(t) /\ new.pc = "ok" /\ conn'.dirty = conn.dirty /\ base' = base /\ RowsOf(t) = {}
                   \/ /\ Commit(t) /\ new.pc \in {"ok", "raised"} /\ conn'.dirty = {}
                      /\ base'.rows = base.rows \cup conn.dirty /\ Own(t) = RowsOf(t)
<1>1. call[t] \in Call /\ conn \in Conns /\ base \in Bases
  BY TypeUnfolds DEF SectionInv
<1>2. CASE Query(t)
  <2> DEFINE new == [call[t] EXCEPT !.pc = "ok", !.seen = View]
  <2>1. call' = [call EXCEPT ![t] = new]
    BY <1>2 DEF Query
  <2>2. new \in Call /\ new.pc = "ok" /\ new.kind = call[t].kind
    BY <1>1, WritingTyped DEF Call, Places
  <2>3. RowsOf(t) = {}
    BY <1>2 DEF Query, RowsOf, Length
  <2>4. conn'.dirty = conn.dirty
    BY <1>1, <1>2, WritingTyped DEF Query
  <2> HIDE DEF new
  <2>. QED
    BY <1>2, <2>1, <2>2, <2>3, <2>4 DEF Query
<1>3. CASE Commit(t)
  <2>1. PICK o \in {"ok", "raised"} : Ends(t, o)
    BY <1>3 DEF Commit
  <2> DEFINE new == [call[t] EXCEPT !.pc = o]
  <2>2. call' = [call EXCEPT ![t] = new]
    BY <2>1 DEF Ends
  <2>3. new \in Call /\ new.pc = o /\ new.kind = call[t].kind
    BY <1>1 DEF Call, Places
  <2>4. conn'.dirty = {} /\ base'.rows = base.rows \cup conn.dirty
    BY <1>1, <1>3, WritingTyped DEF Commit, Bases
  <2>5. Own(t) = RowsOf(t)
    BY <1>3 DEF Commit, Own, RowsOf
  <2> HIDE DEF new
  <2>. QED
    BY <1>3, <2>2, <2>3, <2>4, <2>5 DEF Commit
<1>. QED
  BY <1>2, <1>3

LEMMA DirtInit == Init => DirtInv
<1> SUFFICES ASSUME Init PROVE DirtInv
  OBVIOUS
<1>1. \A t \in Tasks : call[t].pc # "body"
  BY SectionInit, MarkersAssumption DEF Init, SectionInv, OneHolder
<1>2. conn.dirty = {}
  BY DEF Init, Clean
<1>. QED
  BY <1>1, <1>2 DEF DirtInv

LEMMA DirtStep == SectionInv /\ DirtInv /\ [Next]_vars => DirtInv'
<1> SUFFICES ASSUME SectionInv, DirtInv, [Next]_vars PROVE DirtInv'
  OBVIOUS
<1>1. ASSUME NEW t \in Tasks, Borrow(t) \/ ReadFirst(t) \/ Execute(t) PROVE DirtInv'
  BY <1>1, Statements, StatementsKeepDirt
<1>2. ASSUME NEW t \in Tasks, Violates(t) \/ Busy(t) \/ BusySnapshot(t) \/ Cancel(t) PROVE DirtInv'
  BY <1>2, Raises, EndingsKeepDirt
<1>3. ASSUME NEW t \in Tasks, Query(t) \/ Commit(t) PROVE DirtInv'
  <2>1. Runs(t) /\ (RowsOf(t) = {} => Own(t) = {})
    BY <1>3, Returns, OwnAreItsRows
  <2>. QED
    BY <1>3, <2>1, Returns, EndingsKeepDirt
<1>4. ASSUME NEW t \in Tasks, CancelWaiting(t) PROVE DirtInv'
  <2>1. /\ call \in [Tasks -> Call] /\ call[t].pc = "waiting" /\ UNCHANGED conn
        /\ call' = [call EXCEPT ![t].pc = "raised"]
    BY <1>4, TypeUnfolds DEF CancelWaiting, SectionInv
  <2>2. /\ \A u \in Tasks : u # t => call'[u] = call[u]
        /\ call'[t].pc = "raised" /\ call'[t].kind = call[t].kind
    BY <2>1 DEF Call
  <2>3. \A r : Abandoned(r) => Abandoned(r)'
    BY <2>1, <2>2 DEF Abandoned, RowsOf, RollsBack
  <2>. QED
    BY <2>1, <2>2, <2>3 DEF DirtInv, Own
<1>5. CASE ForeignBegin \/ ForeignCommit \/ UNCHANGED vars
  BY <1>5 DEF ForeignBegin, ForeignCommit, vars, DirtInv, Own, Abandoned, RowsOf, RollsBack
<1>. QED
  BY <1>1, <1>2, <1>3, <1>4, <1>5 DEF Next, Step

-----------------------------------------------------------------------------
(* The refinement: Transactions *)

AllRows == [t \in Tasks |-> RowsOf(t)]
LooseTasks == {t \in Tasks : ~RollsBack(call[t].kind)}
OutcomeAt(pc) == CASE pc = "ok" -> "ok" [] pc \in {"raised", "stale"} -> "raised" [] OTHER -> "pending"

LEMMA OutcomeIs == Outcome = [t \in Tasks |-> OutcomeAt(call[t].pc)]
  BY DEF Outcome, OutcomeAt

\* A call that moves changes its own outcome, and what no call may change stays.
LEMMA OutcomeMoves ==
    ASSUME SectionInv, NEW t \in Tasks, NEW new \in Call, call' = [call EXCEPT ![t] = new], new.kind = call[t].kind
    PROVE  /\ Outcome' = [Outcome EXCEPT ![t] = OutcomeAt(new.pc)]
           /\ AllRows' = AllRows /\ LooseTasks' = LooseTasks
<1>1. /\ \A u \in Tasks : call'[u] = IF u = t THEN new ELSE call[u]
      /\ \A u \in Tasks : call'[u].kind = call[u].kind /\ RowsOf(u)' = RowsOf(u)
  BY OneMoves
<1>2. Outcome' = [u \in Tasks |-> OutcomeAt(call'[u].pc)]
  BY OutcomeIs DEF Outcome, OutcomeAt
<1>3. Outcome' = [Outcome EXCEPT ![t] = OutcomeAt(new.pc)]
  BY <1>1, <1>2, OutcomeIs
<1>4. AllRows' = AllRows
  BY <1>1 DEF AllRows
<1>5. LooseTasks' = LooseTasks
  BY <1>1 DEF LooseTasks, RollsBack
<1>. QED
  BY <1>3, <1>4, <1>5

\* What is abandoned is what the promise lets surface late.
LEMMA AbandonedIsLoose == ASSUME NEW r PROVE Abandoned(r) <=> r \in Promise!Loose
<1>1. Promise!Loose = UNION {AllRows[u] : u \in {v \in LooseTasks : Outcome[v] = "raised"}}
  BY DEF Promise!Loose, AllRows, LooseTasks
<1>2. \A u \in Tasks : AllRows[u] = RowsOf(u) /\ (Outcome[u] = "raised" <=> call[u].pc \in {"raised", "stale"})
  BY DEF AllRows, Outcome
<1>. QED
  BY <1>1, <1>2 DEF Abandoned, LooseTasks

\* The transaction a commit takes: the call's own rows and late ones.
LEMMA CommitTakes ==
    ASSUME SectionInv, DirtInv, NEW t \in Tasks, Runs(t), Own(t) = RowsOf(t)
    PROVE  \E late \in SUBSET Promise!Loose : conn.dirty = RowsOf(t) \cup late
<1> DEFINE late == conn.dirty \ Own(t)
<1>1. ASSUME NEW r \in late PROVE r \in Promise!Loose
  <2>1. \A u \in Tasks : call[u].pc = "body" => u = t
    BY OnlyOneInside
  <2>. QED
    BY <1>1, <2>1, AbandonedIsLoose DEF DirtInv
<1>2. Own(t) \subseteq conn.dirty
  BY DEF DirtInv, Runs
<1>3. conn.dirty = RowsOf(t) \cup late
  BY <1>2
<1>. QED
  BY <1>1, <1>3

LEMMA PromiseInit == Init => Promise!Init
<1> SUFFICES ASSUME Init PROVE Promise!Init
  OBVIOUS
<1>1. \A t \in Tasks : call[t].pc = "waiting"
  <2> SUFFICES ASSUME NEW t \in Tasks PROVE call[t].pc = "waiting"
    OBVIOUS
  <2>1. PICK k \in Kinds : call[t] = [kind |-> k, pc |-> "waiting", done |-> 0, seen |-> NoSnapshot]
    BY DEF Init
  <2>. QED
    BY <2>1
<1>2. Outcome = [t \in Tasks |-> "pending"]
  BY <1>1, OutcomeIs DEF OutcomeAt
<1>3. base.rows = {}
  BY DEF Init
<1>. QED
  BY <1>2, <1>3 DEF Promise!Init

\* Every step of the dispatcher is a step of the promise, or invisible to it.
LEMMA PromiseStep == SectionInv /\ DirtInv /\ [Next]_vars => [Promise!Next]_(Promise!vars)
<1> SUFFICES ASSUME SectionInv, DirtInv, [Next]_vars PROVE [Promise!Next]_(Promise!vars)
  OBVIOUS
<1>1. \A t \in Tasks : Outcome[t] = OutcomeAt(call[t].pc) /\ AllRows[t] = RowsOf(t)
  BY OutcomeIs DEF AllRows
<1>2. ASSUME base'.rows = base.rows, Outcome' = Outcome, AllRows' = AllRows, LooseTasks' = LooseTasks
      PROVE  UNCHANGED Promise!vars
  BY <1>2 DEF Promise!vars, AllRows, LooseTasks
<1>3. ASSUME NEW t \in Tasks, NEW result, Outcome[t] = "pending", Outcome' = [Outcome EXCEPT ![t] = result],
             AllRows' = AllRows, LooseTasks' = LooseTasks
      PROVE  Promise!End(t, result)
  BY <1>3 DEF Promise!End, AllRows, LooseTasks
<1>4. ASSUME NEW t \in Tasks, Borrow(t) \/ ReadFirst(t) \/ Execute(t) PROVE UNCHANGED Promise!vars
  <2>1. PICK new \in Call : call' = [call EXCEPT ![t] = new] /\ new.pc = "body" /\ new.kind = call[t].kind
    BY <1>4, Statements
  <2>2. /\ Outcome' = [Outcome EXCEPT ![t] = OutcomeAt(new.pc)]
        /\ AllRows' = AllRows /\ LooseTasks' = LooseTasks
    BY <2>1, OutcomeMoves
  <2>3. Outcome[t] = OutcomeAt(new.pc) /\ base' = base
    BY <1>1, <1>4, <2>1, Statements DEF OutcomeAt
  <2>. QED
    BY <1>2, <2>2, <2>3, OutcomeIs
<1>5. ASSUME NEW t \in Tasks, Violates(t) \/ Busy(t) \/ BusySnapshot(t) \/ Cancel(t) PROVE Promise!Raise(t)
  <2>1. PICK new \in Call : /\ call' = [call EXCEPT ![t] = new] /\ new.pc \in {"raised", "stale"}
                            /\ new.kind = call[t].kind
    BY <1>5, Raises
  <2>2. /\ Outcome' = [Outcome EXCEPT ![t] = "raised"] /\ Outcome[t] = "pending"
        /\ AllRows' = AllRows /\ LooseTasks' = LooseTasks /\ base' = base
    BY <1>1, <1>5, <2>1, OutcomeMoves, Raises DEF OutcomeAt, Runs
  <2>. QED
    BY <1>3, <2>2 DEF Promise!Raise
<1>6. ASSUME NEW t \in Tasks, CancelWaiting(t) PROVE Promise!Raise(t)
  <2> DEFINE new == [call[t] EXCEPT !.pc = "raised"]
  <2>1. call[t].pc = "waiting" /\ UNCHANGED base /\ call' = [call EXCEPT ![t] = new] /\ call[t] \in Call
    BY <1>6, TypeUnfolds DEF CancelWaiting, SectionInv
  <2>2. new \in Call /\ new.pc = "raised" /\ new.kind = call[t].kind
    BY <2>1 DEF Call, Places
  <2> HIDE DEF new
  <2>3. /\ Outcome' = [Outcome EXCEPT ![t] = "raised"] /\ Outcome[t] = "pending"
        /\ AllRows' = AllRows /\ LooseTasks' = LooseTasks
    BY <1>1, <2>1, <2>2, OutcomeMoves DEF OutcomeAt
  <2>. QED
    BY <1>3, <2>1, <2>3 DEF Promise!Raise
<1>7. ASSUME NEW t \in Tasks, Query(t) \/ Commit(t) PROVE Promise!Return(t) \/ Promise!Raise(t)
  <2>1. PICK new \in Call :
            /\ call' = [call EXCEPT ![t] = new] /\ new.kind = call[t].kind
            /\ \/ new.pc = "ok" /\ base' = base /\ RowsOf(t) = {}
               \/ /\ new.pc \in {"ok", "raised"}
                  /\ base'.rows = base.rows \cup conn.dirty /\ Own(t) = RowsOf(t)
    BY <1>7, Returns
  <2>2. Outcome[t] = "pending" /\ Runs(t)
    BY <1>1, <1>7, Returns DEF OutcomeAt, Runs
  <2>3. /\ Outcome' = [Outcome EXCEPT ![t] = new.pc]
        /\ AllRows' = AllRows /\ LooseTasks' = LooseTasks
    BY <2>1, OutcomeMoves DEF OutcomeAt
  <2>4. Promise!End(t, new.pc)
    BY <1>3, <2>2, <2>3
  <2>5. CASE new.pc = "ok" /\ base' = base /\ RowsOf(t) = {}
    <3>1. base'.rows = base.rows \cup AllRows[t] \cup {}
      BY <1>1, <2>5
    <3>. QED
      BY <2>4, <2>5, <3>1 DEF Promise!Return, AllRows
  <2>6. CASE new.pc \in {"ok", "raised"} /\ base'.rows = base.rows \cup conn.dirty /\ Own(t) = RowsOf(t)
    <3>1. PICK late \in SUBSET Promise!Loose : conn.dirty = RowsOf(t) \cup late
      BY <2>2, <2>6, CommitTakes
    <3>2. base'.rows = base.rows \cup AllRows[t] \cup late
      BY <1>1, <2>6, <3>1
    <3>. QED
      BY <2>4, <2>6, <3>1, <3>2 DEF Promise!Return, Promise!Raise, AllRows
  <2>. QED
    BY <2>1, <2>5, <2>6
<1>8. CASE ForeignBegin \/ ForeignCommit \/ UNCHANGED vars
  <2>1. UNCHANGED call /\ base'.rows = base.rows
    BY <1>8, TypeUnfolds DEF ForeignBegin, ForeignCommit, vars, SectionInv, Bases
  <2>. QED
    BY <1>2, <2>1 DEF Outcome, AllRows, LooseTasks, RowsOf, RollsBack
<1>. QED
  BY <1>4, <1>5, <1>6, <1>7, <1>8 DEF Next, Step, Promise!Next

\* What callers may rely on: a call that returned is durable as a whole, and a
\* transaction that raised is durable at once or never, although every call
\* shares one connection (WriteDispatch.write, write_many, atomic).
THEOREM CallsAreTransactions == Spec => ImplementsTransactions
<1>1. Spec => [](SectionInv /\ DirtInv)
  BY SectionInit, SectionStep, DirtInit, DirtStep, PTL DEF Spec
<1>2. SectionInv /\ DirtInv /\ [Next]_vars => [Promise!Next]_(Promise!vars)
  BY PromiseStep
<1>. QED
  BY <1>1, <1>2, PromiseInit, PTL DEF Spec, ImplementsTransactions, Promise!Spec
=============================================================================
