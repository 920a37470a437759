------------------------------ MODULE Nightly ------------------------------
(***************************************************************************)
(* The nightly scheduler of one base (src/features/backup_cron.py) with the *)
(* locks around it (src/shared/maintenance_lock.py, leader_lock.py) and the  *)
(* leadership of src/mcp_server/lifespan.py.                                *)
(*                                                                         *)
(* The cron thread of the leading process hands coroutines to the event     *)
(* loop of its process and waits for each with a timeout.  An expired wait  *)
(* abandons the job without cancelling it, so the job, the thread and the   *)
(* completion callbacks that give the maintenance lock back interleave.     *)
(* Every process that serves the base may do housekeeping under the same    *)
(* lock, may die, and may leave while its thread is still at work.          *)
(*                                                                         *)
(* A pass has `Layers` hooks, whose failure ends the hooks, and `Rest`      *)
(* further steps, whose failures are suppressed.  A list of futures is read *)
(* by the code only through `not f.done()`, so the sets hold live jobs.     *)
(* A wiki sync is one job for its two layers.  The backup (which waits for   *)
(* nothing and holds the backup lock only while it copies) is left out.      *)
(***************************************************************************)
EXTENDS Integers, FiniteSets, TLC

CONSTANTS
    Procs,      \* processes serving the base
    Jobs,       \* identities of the jobs on a main loop
    Layers,     \* layers whose nightly hook a pass fires
    Rest,       \* maintenance steps after the layers
    MaxHangs,   \* bound: jobs that never return
    MaxLosses,  \* bound: processes killed or shut down
    None        \* nobody

ASSUME StepsAssumption == Layers \in Nat \ {0} /\ Rest \in Nat
ASSUME LimitsAssumption == MaxHangs \in Nat /\ MaxLosses \in Nat
ASSUME NobodyAssumption == None \notin Procs

VARIABLES
    leader,    \* who holds .leader.lock
    turn,      \* who holds .backup_cron.lock
    base,      \* who holds .maintenance.lock, and for what
    due,       \* the cycle is due and within its budget: cycles_state.json
    cron,      \* per process: its cron thread
    live,      \* per process: jobs of its thread still on its main loop
    pending,   \* per process: _pending_futures, the live ones
    hooked,    \* per process: jobs with the completion callback
    calling,   \* per process: finished jobs whose callback has not run yet
    hung,      \* jobs that never return
    losses

vars == <<leader, turn, base, due, cron, live, pending, hooked, calling, hung, losses>>
locks == <<leader, turn, base>>
jobs == <<live, pending, hooked, calling, hung>>

\* What a process holds the maintenance lock for: the pass of its thread, jobs
\* the pass abandoned (_nightly_lock_fd), or housekeeping.
Uses == {"pass", "carried", "house"}
Free == [by |-> None, for |-> "house"]
Held(p, use) == [by |-> p, for |-> use]

LastStep == Layers + Rest

Places == {"off", "sleep", "gate", "asked", "turn", "submit", "await", "finish", "hook",
           "release", "wiki", "sync"}
Verdicts == {"ok", "failed", "running", "skipped"}
Ages == {"never", "lately", "long ago"}

Thread == [pc : Places,
           step : 1..LastStep + 1,
           job : Jobs \cup {None},
           wiki : SUBSET Jobs,  \* which of its jobs are wiki syncs (history)
           verdict : Verdicts,
           started : Ages,      \* _nightly_started_at and its grace
           backoff : BOOLEAN,   \* _nightly_retry_at lies ahead
           leaving : BOOLEAN]   \* lifespan is over

NewThread(backoff) ==
    [pc |-> "off", step |-> 1, job |-> None, wiki |-> {}, verdict |-> "ok",
     started |-> "never", backoff |-> backoff, leaving |-> FALSE]

TypeOK ==
    /\ leader \in Procs \cup {None} /\ turn \in Procs \cup {None}
    /\ base \in [by : Procs, for : Uses] \cup {Free}
    /\ due \in BOOLEAN
    /\ cron \in [Procs -> Thread]
    /\ live \in [Procs -> SUBSET Jobs] /\ pending \in [Procs -> SUBSET Jobs]
    /\ hooked \in [Procs -> SUBSET Jobs] /\ calling \in [Procs -> SUBSET Jobs]
    /\ hung \subseteq Jobs
    /\ losses \in 0..MaxLosses

Init ==
    /\ leader = None /\ turn = None /\ base = Free
    /\ due = TRUE
    /\ cron = [p \in Procs |-> NewThread(FALSE)]
    /\ live = [p \in Procs |-> {}] /\ pending = [p \in Procs |-> {}]
    /\ hooked = [p \in Procs |-> {}] /\ calling = [p \in Procs |-> {}]
    /\ hung = {} /\ losses = 0

At(p, pc) == cron[p].pc = pc
Goto(p, pc) == cron' = [cron EXCEPT ![p].pc = pc]

-----------------------------------------------------------------------------
(* Leadership *)

\* leadership_loop claims, the background set starts.
Claim(p) ==
    /\ leader = None /\ At(p, "off") /\ ~ cron[p].leaving
    /\ leader' = p
    /\ Goto(p, "sleep")
    /\ UNCHANGED <<turn, base, due, jobs, losses>>

\* lifespan ends: stop() waits five seconds for the thread and leaves it to the
\* death of the process; leadership is given up meanwhile.
Leave(p) ==
    /\ leader = p /\ losses < MaxLosses
    /\ leader' = None
    /\ losses' = losses + 1
    /\ cron' = [cron EXCEPT ![p].leaving = TRUE]
    /\ UNCHANGED <<turn, base, due, jobs>>

\* The process ends: its locks, its thread and its main loop go with it; a new
\* one reads the backoff from the state file.
Vanish(p) ==
    /\ leader' = IF leader = p THEN None ELSE leader
    /\ turn' = IF turn = p THEN None ELSE turn
    /\ base' = IF base.by = p THEN Free ELSE base
    /\ cron' \in {[cron EXCEPT ![p] = NewThread(backoff)] : backoff \in BOOLEAN}
    /\ live' = [live EXCEPT ![p] = {}] /\ pending' = [pending EXCEPT ![p] = {}]
    /\ hooked' = [hooked EXCEPT ![p] = {}] /\ calling' = [calling EXCEPT ![p] = {}]
    /\ hung' = hung \ live[p]
    /\ UNCHANGED due

Die(p) ==
    /\ losses < MaxLosses /\ ~ cron[p].leaving
    /\ losses' = losses + 1
    /\ Vanish(p)

Exit(p) ==
    /\ cron[p].leaving
    /\ Vanish(p)
    /\ UNCHANGED losses

-----------------------------------------------------------------------------
(* The jobs on a main loop and their callbacks *)

\* _release_nightly_lock_if_idle: the carried lock goes back once nothing the
\* list still names is running.
ReleasedIfIdle(p, remaining) ==
    IF remaining = {} /\ base = Held(p, "carried") THEN Free ELSE base

\* run_coroutine_threadsafe; the list is pruned and the future remembered.
Submit(p, j, pc) ==
    /\ \A q \in Procs : j \notin live[q] \cup calling[q]
    /\ live' = [live EXCEPT ![p] = @ \cup {j}]
    /\ pending' = [pending EXCEPT ![p] = @ \cup {j}]
    /\ hung' \in {hung, hung \cup {j}} /\ Cardinality(hung') <= MaxHangs
    /\ cron' = [cron EXCEPT ![p].pc = pc, ![p].job = j,
                            ![p].wiki = IF pc = "sync" THEN @ \cup {j} ELSE @ \ {j}]
    /\ UNCHANGED <<hooked, calling>>

\* The future is done first, its callback runs after.
JobEnds(p, j) ==
    /\ j \in live[p] \ hung
    /\ live' = [live EXCEPT ![p] = @ \ {j}]
    /\ pending' = [pending EXCEPT ![p] = @ \ {j}]
    /\ hooked' = [hooked EXCEPT ![p] = @ \ {j}]
    /\ calling' = [calling EXCEPT ![p] = IF j \in hooked[p] THEN @ \cup {j} ELSE @]
    /\ cron' = [cron EXCEPT ![p].wiki = @ \ {j}]
    /\ UNCHANGED <<locks, due, hung, losses>>

\* Mutant: the callback does not look at the other jobs.
CallbackReleases(p, j) ==
    /\ j \in calling[p]
    /\ calling' = [calling EXCEPT ![p] = @ \ {j}]
    /\ base' = ReleasedIfIdle(p, {})
    /\ UNCHANGED <<leader, turn, due, cron, live, pending, hooked, hung, losses>>

Callback(p, j) ==
    /\ j \in calling[p]
    /\ calling' = [calling EXCEPT ![p] = @ \ {j}]
    /\ base' = ReleasedIfIdle(p, pending[p])
    /\ UNCHANGED <<leader, turn, due, cron, live, pending, hooked, hung, losses>>

-----------------------------------------------------------------------------
(* The cron thread: _check_nightly *)

\* _nightly_busy: work of an earlier pass is still running.
StillBusy(p) ==
    /\ At(p, "sleep") /\ leader = p
    /\ pending[p] # {} /\ cron[p].started # "long ago"
    /\ Goto(p, "wiki")
    /\ UNCHANGED <<locks, due, jobs, losses>>

\* Mutant: the release looks at the jobs before they are given up.
GiveUpKeepsLock(p) ==
    /\ At(p, "sleep") /\ leader = p
    /\ pending[p] # {} /\ cron[p].started = "long ago"
    /\ pending' = [pending EXCEPT ![p] = {}]
    /\ base' = ReleasedIfIdle(p, pending[p])
    /\ cron' = [cron EXCEPT ![p].pc = "gate", ![p].started = "never"]
    /\ UNCHANGED <<leader, turn, due, live, hooked, calling, hung, losses>>

\* ... or has been for longer than the grace: it is given up, and its lock with it.
GiveUp(p) ==
    /\ At(p, "sleep") /\ leader = p
    /\ pending[p] # {} /\ cron[p].started = "long ago"
    /\ pending' = [pending EXCEPT ![p] = {}]
    /\ base' = ReleasedIfIdle(p, {})
    /\ cron' = [cron EXCEPT ![p].pc = "gate", ![p].started = "never"]
    /\ UNCHANGED <<leader, turn, due, live, hooked, calling, hung, losses>>

NotBusy(p) ==
    /\ At(p, "sleep") /\ leader = p
    /\ pending[p] = {}
    /\ cron' = [cron EXCEPT ![p].pc = "gate", ![p].started = "never"]
    /\ UNCHANGED <<locks, due, jobs, losses>>

\* stop(): the loop ends after the tick it is in.
Stop(p) ==
    /\ At(p, "sleep") /\ leader # p
    /\ Goto(p, "off")
    /\ UNCHANGED <<locks, due, jobs, losses>>

Gate(p) ==
    /\ At(p, "gate")
    /\ Goto(p, IF cron[p].backoff \/ ~ due THEN "wiki" ELSE "asked")
    /\ UNCHANGED <<locks, due, jobs, losses>>

TakeTurn(p) ==
    /\ At(p, "asked") /\ turn = None
    /\ turn' = p
    /\ cron' = [cron EXCEPT ![p].pc = "turn", ![p].started = "lately"]
    /\ UNCHANGED <<leader, base, due, jobs, losses>>

NoTurn(p) ==
    /\ At(p, "asked") /\ turn # None
    /\ Goto(p, "wiki")
    /\ UNCHANGED <<locks, due, jobs, losses>>

\* Mutant: the pass goes on without the maintenance lock.
TakeBaseAnyway(p) ==
    /\ At(p, "turn")
    /\ base' = IF base = Free THEN Held(p, "pass") ELSE base
    /\ cron' = [cron EXCEPT ![p].pc = "submit", ![p].step = 1, ![p].verdict = "ok"]
    /\ UNCHANGED <<leader, turn, due, jobs, losses>>

\* _fire_nightly_hooks waits for the maintenance lock, polling, and begins.
TakeBase(p) ==
    /\ At(p, "turn") /\ base = Free
    /\ base' = Held(p, "pass")
    /\ cron' = [cron EXCEPT ![p].pc = "submit", ![p].step = 1, ![p].verdict = "ok"]
    /\ UNCHANGED <<leader, turn, due, jobs, losses>>

\* The lock was held for the whole wait: the pass is skipped.
NoBase(p) ==
    /\ At(p, "turn") /\ base # Free
    /\ cron' = [cron EXCEPT ![p].pc = "release", ![p].verdict = "skipped"]
    /\ UNCHANGED <<locks, due, jobs, losses>>

SubmitStep(p, j) ==
    /\ At(p, "submit")
    /\ Submit(p, j, "await")
    /\ UNCHANGED <<locks, due, losses>>

\* Mutant: one step too many.
ToOneStepMore(p, s, verdict) ==
    cron' = [cron EXCEPT ![p].pc = IF s > LastStep + 1 THEN "finish" ELSE "submit",
                         ![p].step = s, ![p].job = None, ![p].verdict = verdict]

\* The thread goes to step s, or to the end of the pass.
ToStep(p, s, verdict) ==
    cron' = [cron EXCEPT ![p].pc = IF s > LastStep THEN "finish" ELSE "submit",
                         ![p].step = s, ![p].job = None, ![p].verdict = verdict]

\* The step returned.  record_nightly_done after the last layer; its own
\* failure is suppressed.
StepDone(p) ==
    LET c == cron[p] IN
    /\ At(p, "await") /\ c.job \notin live[p]
    /\ ToStep(p, c.step + 1, c.verdict)
    /\ due' \in IF c.step = Layers THEN {due, FALSE} ELSE {due}
    /\ UNCHANGED <<locks, jobs, losses>>

\* A layer's hook raised (or returned between the expiry of its budget and the
\* look at the live jobs): no further layer, the rest runs.  Elsewhere suppressed.
StepRaises(p) ==
    LET c == cron[p] IN
    /\ At(p, "await") /\ c.job \notin live[p]
    /\ IF c.step <= Layers THEN ToStep(p, Layers + 1, "failed") ELSE ToStep(p, c.step + 1, c.verdict)
    /\ UNCHANGED <<locks, due, jobs, losses>>

\* The wait expired and the job is still running.
StepExpires(p) ==
    LET c == cron[p] IN
    /\ At(p, "await") /\ c.job \in live[p]
    /\ IF c.step <= Layers THEN ToStep(p, Layers + 1, "running") ELSE ToStep(p, c.step + 1, c.verdict)
    /\ UNCHANGED <<locks, due, jobs, losses>>

\* Mutant: the lock is handed back by the verdict.
FinishByVerdict(p) ==
    /\ At(p, "finish")
    /\ IF cron[p].verdict # "running"
       THEN base' = Free /\ Goto(p, "release")
       ELSE base' = Held(p, "carried") /\ Goto(p, "hook")
    /\ UNCHANGED <<leader, turn, due, jobs, losses>>

\* _finish_nightly_lock: the lock outlives the pass while jobs are live.
Finish(p) ==
    /\ At(p, "finish")
    /\ IF pending[p] = {}
       THEN base' = Free /\ Goto(p, "release")
       ELSE base' = Held(p, "carried") /\ Goto(p, "hook")
    /\ UNCHANGED <<leader, turn, due, jobs, losses>>

\* add_done_callback on each of them: at once on one that finished meanwhile.
Hook(p) ==
    /\ At(p, "hook")
    /\ hooked' = [hooked EXCEPT ![p] = @ \cup pending[p]]
    /\ base' = ReleasedIfIdle(p, pending[p])
    /\ Goto(p, "release")
    /\ UNCHANGED <<leader, turn, due, live, pending, calling, hung, losses>>

\* The backup lock goes back; a failure starts a backoff, a success ends it.
Conclude(p) ==
    LET c == cron[p]
        backoff == IF c.verdict \in {"failed", "ok"} THEN c.verdict = "failed" ELSE c.backoff
    IN
    /\ At(p, "release")
    /\ turn' = None
    /\ cron' = [cron EXCEPT ![p] = [c EXCEPT !.pc = "wiki", !.step = 1, !.verdict = "ok", !.backoff = backoff]]
    /\ UNCHANGED <<leader, base, due, jobs, losses>>

-----------------------------------------------------------------------------
(* The cron thread: _check_wiki_sync *)

WikiNotDue(p) ==
    /\ At(p, "wiki")
    /\ Goto(p, "sleep")
    /\ UNCHANGED <<locks, due, jobs, losses>>

SubmitWiki(p, j) ==
    /\ At(p, "wiki")
    /\ Submit(p, j, "sync")
    /\ UNCHANGED <<locks, due, losses>>

\* It returned or raised, or the wait for it expired.
WikiEnds(p) ==
    /\ At(p, "sync")
    /\ cron' = [cron EXCEPT ![p].pc = "sleep", ![p].job = None]
    /\ UNCHANGED <<locks, due, jobs, losses>>

-----------------------------------------------------------------------------
(* Housekeeping and time *)

\* _periodic_tasks, the importance sweep, the forgetting ritual: no wait.
HouseTakes(p) ==
    /\ base = Free
    /\ base' = Held(p, "house")
    /\ UNCHANGED <<leader, turn, due, cron, jobs, losses>>

HouseEnds(p) ==
    /\ base = Held(p, "house")
    /\ base' = Free
    /\ UNCHANGED <<leader, turn, due, cron, jobs, losses>>

\* A day since the last recorded pass.
CycleDue ==
    /\ ~ due /\ due' = TRUE
    /\ UNCHANGED <<locks, cron, jobs, losses>>

\* 15 minutes, an hour or four since the failure.
BackoffEnds(p) ==
    /\ cron[p].backoff
    /\ cron' = [cron EXCEPT ![p].backoff = FALSE]
    /\ UNCHANGED <<locks, due, jobs, losses>>

\* NIGHTLY_INFLIGHT_GRACE_S since the pass began.
GraceEnds(p) ==
    /\ cron[p].started = "lately"
    /\ cron' = [cron EXCEPT ![p].started = "long ago"]
    /\ UNCHANGED <<locks, due, jobs, losses>>

-----------------------------------------------------------------------------
Tick(p) == StillBusy(p) \/ GiveUp(p) \/ NotBusy(p) \/ Stop(p)
Pass(p) ==
    \/ Gate(p) \/ TakeTurn(p) \/ NoTurn(p) \/ TakeBase(p) \/ StepDone(p) \/ StepRaises(p)
    \/ StepExpires(p) \/ Finish(p) \/ Hook(p) \/ Conclude(p)
    \/ \E j \in Jobs : SubmitStep(p, j)
Wiki(p) == WikiNotDue(p) \/ WikiEnds(p) \/ \E j \in Jobs : SubmitWiki(p, j)

Next ==
    \/ \E p \in Procs :
         \/ Claim(p) \/ Leave(p) \/ Die(p) \/ Exit(p)
         \/ Tick(p) \/ Pass(p) \/ NoBase(p) \/ Wiki(p)
         \/ HouseTakes(p) \/ HouseEnds(p) \/ GraceEnds(p) \/ BackoffEnds(p)
         \/ \E j \in Jobs : JobEnds(p, j) \/ Callback(p, j)
    \/ CycleDue

Spec == Init /\ [][Next]_vars

\* Leadership is claimed, the thread ticks, jobs that can return do, callbacks
\* run, housekeeping ends, time passes.  The wait for the maintenance lock polls
\* twenty times a second for two minutes, so it meets a moment when it is free.
Fairness ==
    /\ \A p \in Procs :
         /\ WF_vars(Claim(p)) /\ WF_vars(Exit(p)) /\ WF_vars(Tick(p))
         /\ WF_vars(Pass(p) \/ NoBase(p)) /\ SF_vars(TakeBase(p)) /\ WF_vars(Wiki(p))
         /\ WF_vars(HouseEnds(p)) /\ WF_vars(GraceEnds(p)) /\ WF_vars(BackoffEnds(p))
         /\ \A j \in Jobs : WF_vars(JobEnds(p, j)) /\ WF_vars(Callback(p, j))

FairSpec == Spec /\ Fairness

-----------------------------------------------------------------------------
(* Properties *)

\* Jobs of the pass, as opposed to wiki syncs, that the thread has not given up.
PassJobs(p) == pending[p] \ cron[p].wiki

\* Nobody else writes to the base while a nightly job runs, waited for or
\* abandoned, until its process gives it up: the maintenance lock is held for it.
NightlyWorkHoldsTheBase ==
    \A p \in Procs : PassJobs(p) # {} => base \in {Held(p, "pass"), Held(p, "carried")}

\* A new pass never starts on top of work an earlier one left behind, in this
\* process or another, unless that work was given up.
PassesDoNotStack ==
    [][\A p \in Procs : At(p, "turn") /\ cron'[p].pc = "submit" =>
         \A q \in Procs : PassJobs(q) = {}]_vars

\* The lock that outlives a pass is handed back by the completion callback of the
\* work it waits for: somebody is left to do it.
CarriedLockIsHandedBack ==
    \A p \in Procs :
        base = Held(p, "carried") /\ ~ At(p, "hook") => (hooked[p] \cap pending[p]) \cup calling[p] # {}

\* No wiki sync outlasts the wait for it, none runs while a lock is carried over.
WikiStaysApart ==
    \A p \in Procs : cron[p].wiki # {} => At(p, "sync") /\ base # Held(p, "carried")

\* From some time on housekeeping does not outlast the two-minute wait for its lock.
HouseIsQuick == <>[][\A p \in Procs : NoBase(p) => base.for # "house"]_vars

Attempted == \E p \in Procs : cron[p].step <= Layers /\ At(p, "await")

\* While wiki syncs stay apart and housekeeping is quick, a due cycle is attempted,
\* whatever fails, hangs or dies: nothing blocks the nightly pass for ever.
NightlyIsAttempted ==
    []WikiStaysApart /\ HouseIsQuick => (due ~> ~ due \/ Attempted)

\* Violated: the same of any job at all, so that a coroutine that never returns never blocks the
\* nightly pass for ever.
NightlyIsNeverBlocked == HouseIsQuick => (due ~> ~ due \/ Attempted)

\* Processes run the same code and jobs only compare for equality, so that a
\* model checker may take one for the other.
Alike == Permutations(Procs) \cup Permutations(Jobs)
=============================================================================
