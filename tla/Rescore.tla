------------------------------- MODULE Rescore -------------------------------
(***************************************************************************)
(* The importance sweep (lifecycle/importance_scheduler.py): one pass over  *)
(* the users of a base, on a connection of its own, under the maintenance   *)
(* lock.  One transaction per user; a user that loses the write lock is     *)
(* tried again on a fresh connection, within a budget for the user and one  *)
(* for the pass.  Handlers write the same rows all the while.               *)
(***************************************************************************)
EXTENDS Integers, FiniteSets

CONSTANTS
    Users, Rows,
    OwnerOf,   \* row -> user
    Weights,   \* importances that differ by more than the threshold
    Retries,   \* attempts after the first, per user (2 in the code)
    Budget,    \* busy waits a pass may spend (2 in the code)
    Failures,  \* how a write may fail: "busy", "snapshot", "other"
    MaxSaves, MaxPasses, \* bounds
    None

VARIABLES
    rows,      \* row -> [weight, score, authored]: score is what the scorer makes of its text
    audit,     \* committed rescores of the current pass: the rows, once each
    locked,    \* the write lock of the base: "free", "sweep", "other"
    pass,      \* the sweep: [pc, left, user, attempts, spent, read, todo, writes]
    stats,     \* what the pass reports: [rescored, skipped, errors]
    before,    \* stats at the start of the attempt
    saves, passes

vars == <<rows, audit, locked, pass, stats, before, saves, passes>>

Row == [weight : Weights, score : Weights, authored : BOOLEAN]
RowsOf(u) == {r \in Rows : OwnerOf[r] = u}
NoCounts == [rescored |-> 0, skipped |-> 0, errors |-> 0]
Resting == [pc |-> "idle", left |-> {}, user |-> None, attempts |-> 0, spent |-> 0,
            read |-> <<>>, todo |-> {}, writes |-> {}]

TypeOK ==
    /\ rows \in [Rows -> Row]
    /\ audit \subseteq Rows
    /\ locked \in {"free", "sweep", "other"}
    /\ pass.pc \in {"idle", "users", "read", "write"}
    /\ pass.left \subseteq Users /\ pass.user \in Users \cup {None}
    /\ pass.attempts \in 0..Retries + 1 /\ pass.spent \in 0..Cardinality(Users) + Budget
    /\ pass.todo \subseteq Rows /\ pass.writes \subseteq Rows
    /\ \A c \in {stats, before} : c.rescored \in Nat /\ c.skipped \in Nat /\ c.errors \in 0..Cardinality(Users)

Init ==
    /\ \E w \in Weights : rows \in [Rows -> {row \in Row : row.weight = w}]
    /\ audit = {}
    /\ locked = "free"
    /\ pass = Resting
    /\ stats = NoCounts /\ before = NoCounts
    /\ saves = 0 /\ passes = 0

------------------------------------------------------------------------------
(* The handlers *)

\* A tool saves a row again: other text, other weight, perhaps by hand now.
Save(r, row) ==
    /\ locked = "free" /\ saves < MaxSaves
    /\ rows' = [rows EXCEPT ![r] = row]
    /\ saves' = saves + 1
    /\ UNCHANGED <<audit, locked, pass, stats, before, passes>>

OtherLocks ==
    /\ locked = "free"
    /\ locked' = "other"
    /\ UNCHANGED <<rows, audit, pass, stats, before, saves, passes>>

OtherUnlocks ==
    /\ locked = "other"
    /\ locked' = "free"
    /\ UNCHANGED <<rows, audit, pass, stats, before, saves, passes>>

------------------------------------------------------------------------------
(* The sweep *)

Begin ==
    /\ pass.pc = "idle" /\ passes < MaxPasses
    /\ passes' = passes + 1
    /\ pass' = [Resting EXCEPT !.pc = "users", !.left = Users]
    /\ stats' = NoCounts /\ audit' = {}
    /\ UNCHANGED <<rows, locked, before, saves>>

Attempt(u, attempts) == [pass EXCEPT !.pc = "read", !.user = u, !.attempts = attempts,
                                     !.read = <<>>, !.todo = {}, !.writes = {}, !.left = @ \ {u}]

NextUser(u) ==
    /\ pass.pc = "users" /\ u \in pass.left
    /\ pass' = Attempt(u, 1)
    /\ before' = stats
    /\ UNCHANGED <<rows, audit, locked, stats, saves, passes>>

EndPass ==
    /\ pass.pc = "users" /\ pass.left = {}
    /\ pass' = Resting
    /\ UNCHANGED <<rows, audit, locked, stats, before, saves, passes>>

\* The rows and their sources, read outside any transaction.
Read ==
    /\ pass.pc = "read"
    /\ pass' = [pass EXCEPT !.pc = "write", !.read = rows, !.todo = RowsOf(pass.user)]
    /\ UNCHANGED <<rows, audit, locked, stats, before, saves, passes>>

Organic(r) == ~pass.read[r].authored
Moved(r) == pass.read[r].score # pass.read[r].weight

Skip(r) ==
    /\ pass.pc = "write" /\ r \in pass.todo /\ ~(Organic(r) /\ Moved(r))
    /\ stats' = [stats EXCEPT !.skipped = @ + 1]
    /\ pass' = [pass EXCEPT !.todo = @ \ {r}]
    /\ UNCHANGED <<rows, audit, locked, before, saves, passes>>

\* The first write of a user takes the write lock.  updated_at is not touched.
Rescore(r) ==
    /\ pass.pc = "write" /\ r \in pass.todo /\ Organic(r) /\ Moved(r)
    /\ locked # "other"
    /\ locked' = "sweep"
    /\ pass' = [pass EXCEPT !.todo = @ \ {r}, !.writes = @ \cup {r}]
    /\ stats' = [stats EXCEPT !.rescored = @ + 1]
    /\ UNCHANGED <<rows, audit, before, saves, passes>>

Commit ==
    /\ pass.pc = "write" /\ pass.todo = {}
    /\ rows' = [r \in Rows |-> IF r \in pass.writes THEN [rows[r] EXCEPT !.weight = pass.read[r].score] ELSE rows[r]]
    /\ audit' = audit \cup pass.writes
    /\ locked' = IF locked = "sweep" THEN "free" ELSE locked
    /\ pass' = [pass EXCEPT !.pc = "users", !.writes = {}]
    /\ UNCHANGED <<stats, before, saves, passes>>

\* Mutant: the counts of an attempt that was rolled back are kept.
Kept(c) == stats

Restored(c) == c

\* The transaction is undone and this user is an error.
GiveUp(next) ==
    /\ stats' = [Restored(before) EXCEPT !.errors = @ + 1]
    /\ pass' = next
    /\ locked' = IF locked = "sweep" THEN "free" ELSE locked
    /\ UNCHANGED <<rows, audit, before, saves, passes>>

Done == [pass EXCEPT !.pc = "users", !.writes = {}, !.todo = {}]

CanFail(code) ==
    /\ pass.pc = "write" /\ pass.todo # {} /\ code \in Failures
    /\ code # "other" => \E r \in pass.todo : Organic(r) /\ Moved(r)
    /\ code = "busy" => locked = "other"
    /\ code = "snapshot" => locked = "free"

FailsForGood ==
    /\ CanFail("other")
    /\ GiveUp(Done)

Spent(code) == pass.spent + (IF code = "busy" THEN 1 ELSE 0)

BudgetSpent(code) == Spent(code) >= Budget

\* Mutant: the first attempt is not counted.
OneAttemptMore == pass.attempts <= Retries + 1

AttemptsLeft == pass.attempts <= Retries

Exhausted(code) ==
    /\ CanFail(code) /\ ~AttemptsLeft
    /\ GiveUp([Done EXCEPT !.spent = Spent(code)])

OverBudget(code) ==
    /\ CanFail(code) /\ AttemptsLeft /\ BudgetSpent(code)
    /\ GiveUp([Resting EXCEPT !.spent = Spent(code)])

RetryUser(code) ==
    /\ CanFail(code) /\ AttemptsLeft /\ ~BudgetSpent(code)
    /\ \/ /\ stats' = Restored(before)
          /\ pass' = [Attempt(pass.user, pass.attempts + 1) EXCEPT !.spent = Spent(code)]
          /\ UNCHANGED <<rows, audit, locked, before, saves, passes>>
       \/ GiveUp([Done EXCEPT !.spent = Spent(code)])  \* no connection to try again on

LosesTheLock == \E code \in {"busy", "snapshot"} : Exhausted(code) \/ OverBudget(code) \/ RetryUser(code)

Next ==
    \/ \E r \in Rows : Skip(r) \/ Rescore(r) \/ (\E row \in Row : Save(r, row))
    \/ \E u \in Users : NextUser(u)
    \/ OtherLocks \/ OtherUnlocks \/ Begin \/ EndPass \/ Read \/ Commit
    \/ FailsForGood \/ LosesTheLock

Spec == Init /\ [][Next]_vars

------------------------------------------------------------------------------
(* Properties *)

\* The counters describe committed work: what the pass reports as rescored is
\* what it has committed and what the open transaction holds, through every
\* failure, retry and reconnection.
CountersDescribeCommittedWork ==
    stats.rescored = Cardinality(audit) + Cardinality(pass.writes)

\* Violated: a pass waits for the write lock at most Budget times, however many users it
\* has: that is how long it can keep the others from the maintenance lock.
TheHoldIsCapped == pass.spent <= Budget

\* Violated: authored entries keep their authored weight.
AuthoredKeepTheirWeight ==
    [][\A r \in Rows : rows[r].authored /\ rows'[r].authored /\ saves' = saves => rows'[r].weight = rows[r].weight]_vars
==============================================================================
