------------------------------ MODULE Admission ------------------------------
(***************************************************************************)
(* What stands in front of the handlers: the middleware pipeline of hook   *)
(* events (validation, the minute's limit, deduplication) and the limiter  *)
(* over the database that every tool call asks.                            *)
(*                                                                         *)
(* Callers are coroutines of one event loop.  For a hook event nothing in  *)
(* the pipeline waits before the handler: the importance gate and the      *)
(* audit pass it through, so admission is one step, and other callers run  *)
(* while the handler does.  One user; a request is its content; time is    *)
(* counted in seconds.                                                     *)
(***************************************************************************)
EXTENDS Integers, FiniteSets, Functions

CONSTANTS
    Callers,
    Contents,    \* what is asked
    Limit,       \* requests a minute; 0 switches the limiter off
    Window,      \* the minute
    DedupWindow, \* the five seconds
    PerUser,     \* the database limiter's requests a minute
    MaxTime,     \* bound on the clock
    MaxCalls,    \* bound on the calls of either kind in one second
    None

VARIABLES
    clock,
    requests, \* the limiter's list: entries <<time, number within the second>>
    recent,   \* the dedup table: content -> when it was last let through, or None
    running,  \* caller -> [content, since] its handler works on, or None
    rows,     \* the database limiter's table: time -> rows
    answer,   \* what the last tool call was told: [allowed, at, retry], or None
    foreign,  \* somebody's transaction is open on the shared connection
    history   \* [started, admitted, twice]

vars == <<clock, requests, recent, running, rows, answer, foreign, history>>

Times == 0..MaxTime
Entries == Times \X (1..MaxCalls)
NoTimes == [t \in Times |-> 0]

TypeOK ==
    /\ clock \in Times
    /\ requests \subseteq Entries
    /\ recent \in [Contents -> Times \cup {None}]
    /\ running \in [Callers -> Contents \cup {None}]
    /\ rows \in [Times -> 0..MaxCalls]
    /\ answer \in [allowed : BOOLEAN, at : Times, reset : 0..Window] \cup {None}
    /\ foreign \in BOOLEAN
    /\ history \in [started : [Contents -> Times \cup {None}], admitted : SUBSET Entries, twice : BOOLEAN]

Init ==
    /\ clock = 0
    /\ requests = {}
    /\ recent = [c \in Contents |-> None]
    /\ running = [p \in Callers |-> None]
    /\ rows = NoTimes
    /\ answer = None
    /\ foreign = FALSE
    /\ history = [started |-> [c \in Contents |-> None], admitted |-> {}, twice |-> FALSE]

Tick ==
    /\ clock < MaxTime
    /\ clock' = clock + 1
    /\ UNCHANGED <<requests, recent, running, rows, answer, foreign, history>>

------------------------------------------------------------------------------
(* The pipeline *)

\* What is older than a minute leaves the list at every request.
Fresh == {e \in requests : clock - e[1] < Window}

InTheMinute == Cardinality(Fresh)

Full == Limit > 0 /\ InTheMinute >= Limit

Duplicate(c) == recent[c] # None /\ clock - recent[c] < DedupWindow

Entry == <<clock, Cardinality({e \in Fresh : e[1] = clock}) + 1>>

Passed == Fresh \cup {Entry}

\* Mutant: a content is noted when its handler is done with it.
NotedLater(c) == recent

Noted(c) == [recent EXCEPT ![c] = clock]

\* Blocked: written to the refusal log, and the caller is told.
Refuse(p) ==
    /\ running[p] = None /\ Full
    /\ requests' = Fresh
    /\ UNCHANGED <<clock, recent, running, rows, answer, foreign, history>>

\* A duplicate has used a place in the minute.
Dedupe(p, c) ==
    /\ running[p] = None /\ ~Full /\ Duplicate(c) /\ Entry \in Entries
    /\ requests' = Passed
    /\ history' = [history EXCEPT !.admitted = @ \cup {Entry}]
    /\ UNCHANGED <<clock, recent, running, rows, answer, foreign>>

Handle(p, c) ==
    /\ running[p] = None /\ ~Full /\ ~Duplicate(c) /\ Entry \in Entries
    /\ requests' = Passed
    /\ recent' = Noted(c)
    /\ running' = [running EXCEPT ![p] = c]
    /\ history' = [history EXCEPT !.started[c] = clock, !.admitted = @ \cup {Entry},
                      !.twice = @ \/ (history.started[c] # None /\ clock - history.started[c] < DedupWindow)]
    /\ UNCHANGED <<clock, rows, answer, foreign>>

\* It returns, or raises: the table keeps the content either way.
Finish(p) ==
    /\ running[p] # None
    /\ running' = [running EXCEPT ![p] = None]
    /\ UNCHANGED <<clock, requests, recent, rows, answer, foreign, history>>

------------------------------------------------------------------------------
(* The database limiter: one transaction *)

Transaction ==
    /\ foreign' = ~foreign
    /\ UNCHANGED <<clock, requests, recent, running, rows, answer, history>>

\* With somebody else's transaction open it records nothing and allows.
CheckBorrowed ==
    /\ foreign
    /\ answer' = [allowed |-> TRUE, at |-> clock, reset |-> 0]
    /\ UNCHANGED <<clock, requests, recent, running, rows, foreign, history>>

\* Rows up to the cutoff's own second stay.
Kept == [t \in Times |-> IF clock - t <= Window THEN rows[t] ELSE 0]

Inserted == [Kept EXCEPT ![clock] = @ + 1]

Oldest(f) == CHOOSE t \in Times : f[t] > 0 /\ \A u \in Times : f[u] > 0 => t <= u

\* Every check deletes what is past the window, of all users, so that the
\* periodic cleanup of ten windows has nothing to do.  The call's own row is
\* inserted before the count, so a refused call counts against the next one.
Check ==
    /\ ~foreign /\ rows[clock] < MaxCalls
    /\ rows' = Inserted
    /\ answer' =
          IF SumFunction(Inserted) > PerUser
          THEN LET left == Window - (clock - Oldest(Inserted)) IN [allowed |-> FALSE, at |-> clock, reset |-> IF left > 1 THEN left ELSE 1]
          ELSE [allowed |-> TRUE, at |-> clock, reset |-> 0]
    /\ UNCHANGED <<clock, requests, recent, running, foreign, history>>

------------------------------------------------------------------------------
Pipeline == \E p \in Callers : Refuse(p) \/ Finish(p) \/ (\E c \in Contents : Dedupe(p, c) \/ Handle(p, c))
Limiter == Transaction \/ CheckBorrowed \/ Check

Next == Tick \/ Pipeline \/ Limiter

Spec == Init /\ [][Next]_vars

------------------------------------------------------------------------------
\* No content's handler is started twice within the dedup window, not even
\* while the first is still at work.
HandledOnce == ~history.twice

\* The minute that begins at t.
Minute(t) == {e \in history.admitted : t <= e[1] /\ e[1] - t < Window}

\* No more than the limit gets past the limiter in any minute.
WithinTheLimit ==
    Limit > 0 => \A t \in Times : Cardinality(Minute(t)) <= Limit

\* Violated: a client that waits as long as it was told to is served.
WaitingHelps ==
    [][Check /\ answer # None /\ ~answer.allowed /\ clock >= answer.at + answer.reset => answer'.allowed]_vars
===============================================================================
