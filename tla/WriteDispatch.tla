---------------------------- MODULE WriteDispatch ----------------------------
(***************************************************************************)
(* The write dispatcher (shared/write_dispatch.py): every subsystem of the *)
(* process reads and writes memory.db through one connection, guarded by   *)
(* one asyncio lock, while other processes write the same file.            *)
(*                                                                         *)
(* The connection is sqlite3's with its legacy transaction control: the    *)
(* first INSERT, UPDATE or DELETE opens a deferred transaction, which      *)
(* stays open until a commit or a rollback, whatever becomes of the        *)
(* statement; inside one a read pins a snapshot and a write takes the      *)
(* write lock of the file.  A read outside one holds nothing.              *)
(* Await points are steps, so other processes move between them, and a     *)
(* task can be cancelled at each (saga steps run under wait_for, the       *)
(* lifespan cancels its loops).                                            *)
(***************************************************************************)
EXTENDS Integers, FiniteSets

CONSTANTS
    Tasks,      \* coroutines of this process, one call each
    MaxForeign, \* bound on the commits of other processes
    Nobody, NoSnapshot

VARIABLES
    base,    \* [rows, version]: the durable rows of this process, foreign commits so far
    foreign, \* another process holds the write lock of the file
    lock,    \* the task that holds the asyncio lock, or Nobody
    conn,    \* the connection: [txn, snap, locked, dirty]
    call     \* per task: [kind, pc, done, seen]

vars == <<base, foreign, lock, conn, call>>

Kinds == {"read", "write", "many", "atomic", "immediate"}
Versions == 0..MaxForeign

ASSUME MaxForeignAssumption == MaxForeign \in Nat
ASSUME MarkersAssumption == Nobody \notin Tasks /\ NoSnapshot \notin Versions

\* How many statements that write the call makes, and the rows they write.
Length(kind) == CASE kind = "read" -> 0 [] kind \in {"write", "immediate"} -> 1 [] OTHER -> 2
RowsOf(t) == {<<t, i>> : i \in 1..Length(call[t].kind)}

\* atomic() undoes its statements on any exception; write() and a cancelled
\* write_many() leave them in the open transaction.
RollsBack(kind) == kind \in {"atomic", "immediate"}

Clean == [txn |-> FALSE, snap |-> NoSnapshot, locked |-> FALSE, dirty |-> {}]

TypeOK ==
    /\ base \in [rows : SUBSET (Tasks \X (1..2)), version : Versions]
    /\ foreign \in BOOLEAN
    /\ lock \in Tasks \cup {Nobody}
    /\ conn \in [txn : BOOLEAN, snap : Versions \cup {NoSnapshot}, locked : BOOLEAN, dirty : SUBSET (Tasks \X (1..2))]
    /\ call \in [Tasks -> [kind : Kinds, pc : {"waiting", "body", "ok", "raised", "stale"}, done : 0..2,
                           seen : Versions \cup {NoSnapshot}]]

Init ==
    /\ base = [rows |-> {}, version |-> 0]
    /\ foreign = FALSE
    /\ lock = Nobody
    /\ conn = Clean
    /\ call \in [Tasks -> {[kind |-> k, pc |-> "waiting", done |-> 0, seen |-> NoSnapshot] : k \in Kinds}]

------------------------------------------------------------------------------
(* The other processes *)

ForeignBegin == /\ ~foreign /\ ~conn.locked /\ base.version < MaxForeign
                /\ foreign' = TRUE
                /\ UNCHANGED <<base, lock, conn, call>>

ForeignCommit == /\ foreign
                 /\ foreign' = FALSE
                 /\ base' = [base EXCEPT !.version = @ + 1]
                 /\ UNCHANGED <<lock, conn, call>>

------------------------------------------------------------------------------
(* One call *)

Borrow(t) ==
    /\ call[t].pc = "waiting"
    /\ lock = Nobody
    /\ lock' = t
    /\ call' = [call EXCEPT ![t].pc = "body"]
    /\ UNCHANGED <<base, foreign, conn>>

Runs(t) == call[t].pc = "body" /\ lock = t
\* Mutant: only a call that succeeds gives the lock back.
EndsHolding(t, outcome) ==
    /\ lock' = (IF outcome = "ok" THEN Nobody ELSE lock)
    /\ call' = [call EXCEPT ![t].pc = outcome]

Ends(t, outcome) == lock' = Nobody /\ call' = [call EXCEPT ![t].pc = outcome]

\* A read inside a transaction sees the snapshot the transaction has or takes.
View == IF conn.snap = NoSnapshot THEN base.version ELSE conn.snap
Pinned == IF conn.txn THEN [conn EXCEPT !.snap = View] ELSE conn

Query(t) ==
    /\ Runs(t) /\ call[t].kind = "read"
    /\ conn' = Pinned
    /\ lock' = Nobody
    /\ call' = [call EXCEPT ![t].pc = "ok", ![t].seen = View]
    /\ UNCHANGED <<base, foreign>>

Stale == conn.snap \in Versions /\ conn.snap < base.version
CanWrite == ~foreign /\ ~Stale
Writing == [conn EXCEPT !.txn = TRUE, !.snap = base.version, !.locked = TRUE]

\* Mutant: no BEGIN IMMEDIATE before the read.
ReadUnlocked(t) ==
    /\ Runs(t) /\ RollsBack(call[t].kind) /\ call[t].seen = NoSnapshot
    /\ conn' = Pinned
    /\ call' = [call EXCEPT ![t].seen = View]
    /\ UNCHANGED <<base, foreign, lock>>

\* The read of a read-then-write section.  A section that must not be
\* interleaved takes the write lock first, unless the connection says that it
\* is in a transaction already.
ReadFirst(t) ==
    /\ Runs(t) /\ RollsBack(call[t].kind) /\ call[t].seen = NoSnapshot
    /\ \/ /\ call[t].kind = "atomic" \/ conn.txn
          /\ conn' = Pinned
          /\ call' = [call EXCEPT ![t].seen = View]
       \/ /\ call[t].kind = "immediate" /\ ~conn.txn
          /\ CanWrite
          /\ conn' = Writing
          /\ call' = [call EXCEPT ![t].seen = base.version]
    /\ UNCHANGED <<base, foreign, lock>>

MayWrite(t) ==
    /\ Runs(t)
    /\ call[t].done < Length(call[t].kind)
    /\ RollsBack(call[t].kind) => call[t].seen # NoSnapshot

Execute(t) ==
    /\ MayWrite(t) /\ CanWrite
    /\ conn' = [Writing EXCEPT !.dirty = @ \cup {<<t, call[t].done + 1>>}]
    /\ call' = [call EXCEPT ![t].done = @ + 1]
    /\ UNCHANGED <<base, foreign, lock>>

LeftOpen(kind, left) == left \* mutant: no rollback
\* What the connection keeps of a call that raises with it in state left.
After(kind, left) == IF kind \in {"many", "atomic", "immediate"} THEN Clean ELSE left

\* A constraint fails: the row is undone, the lock it took is not.
Violates(t) ==
    /\ MayWrite(t) /\ CanWrite
    /\ conn' = After(call[t].kind, Writing)
    /\ Ends(t, "raised")
    /\ UNCHANGED <<base, foreign>>

\* Another process keeps the lock past the busy timeout.
Busy(t) ==
    /\ MayWrite(t) \/ (Runs(t) /\ call[t].kind = "immediate" /\ call[t].seen = NoSnapshot /\ ~conn.txn)
    /\ foreign /\ ~Stale
    /\ conn' = After(call[t].kind, [conn EXCEPT !.txn = TRUE])
    /\ Ends(t, "raised")
    /\ UNCHANGED <<base, foreign>>

\* SQLITE_BUSY_SNAPSHOT: the snapshot is behind and cannot be upgraded.
BusySnapshot(t) ==
    /\ MayWrite(t) /\ Stale
    /\ conn' = After(call[t].kind, conn)
    /\ Ends(t, "stale")
    /\ UNCHANGED <<base, foreign>>

\* CancelledError is no Exception: only atomic's BaseException clause sees it.
Cancel(t) ==
    /\ Runs(t)
    /\ conn' = IF RollsBack(call[t].kind) THEN Clean ELSE conn
    /\ Ends(t, "raised")
    /\ UNCHANGED <<base, foreign>>

CancelWaiting(t) ==
    /\ call[t].pc = "waiting"
    /\ call' = [call EXCEPT ![t].pc = "raised"]
    /\ UNCHANGED <<base, foreign, lock, conn>>

\* The commit takes whatever the transaction holds, whoever wrote it; the
\* worker thread finishes it even when the caller is cancelled meanwhile.
Commit(t) ==
    /\ Runs(t)
    /\ call[t].kind # "read"
    /\ call[t].done = Length(call[t].kind)
    /\ base' = [base EXCEPT !.rows = @ \cup conn.dirty]
    /\ conn' = Clean
    /\ Ends(t, "ok") \/ Ends(t, "raised")
    /\ UNCHANGED foreign

Step(t) == \/ Borrow(t) \/ Query(t) \/ ReadFirst(t) \/ Execute(t) \/ Violates(t)
           \/ Busy(t) \/ BusySnapshot(t) \/ Commit(t)

Next == \/ \E t \in Tasks : Step(t) \/ Cancel(t) \/ CancelWaiting(t)
        \/ ForeignBegin \/ ForeignCommit

\* The event loop runs every ready task, and other processes end their
\* transactions; nothing makes them begin one.
Fairness == (\A t \in Tasks : WF_vars(Step(t))) /\ WF_vars(ForeignCommit)

Spec == Init /\ [][Next]_vars
FairSpec == Spec /\ Fairness

------------------------------------------------------------------------------
(* Properties *)

Outcome == [t \in Tasks |-> CASE call[t].pc = "ok" -> "ok"
                              [] call[t].pc \in {"raised", "stale"} -> "raised"
                              [] OTHER -> "pending"]

Promise == INSTANCE Transactions WITH durable <- base.rows, outcome <- Outcome, rows <- [t \in Tasks |-> RowsOf(t)],
                                      loose <- {t \in Tasks : ~RollsBack(call[t].kind)}

\* A call that returned is durable as a whole and an atomic() that raised is
\* so at once or never, although the connection is shared with calls that
\* leave their rows behind (WriteDispatch.write, write_many, atomic).
ImplementsTransactions == Promise!Spec

\* A read-then-write section under the write lock wrote on what it read: no
\* other process committed in between, even when the connection already was in
\* somebody's abandoned transaction and BEGIN IMMEDIATE was skipped
\* (shared/l0.py and features/replay.py, the in_transaction guard).
SectionsAreIsolated ==
    \A t \in Tasks : call[t].kind = "immediate" /\ call[t].done = 1 /\ Runs(t) => call[t].seen = base.version

\* No task waits for ever on the lock, its own or another's.
EveryCallReturns == \A t \in Tasks : <>(call[t].pc \in {"ok", "raised", "stale"})

\* Violated: what the class docstring says, that no snapshot goes stale relative to a foreign
\* commit, and the 517 failure is impossible at this API.
NeverStale == \A t \in Tasks : call[t].pc # "stale"
=============================================================================
