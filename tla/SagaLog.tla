------------------------------ MODULE SagaLog ------------------------------
(***************************************************************************)
(* The older Saga class with its step log (shared/saga/impl/saga.py) and    *)
(* the watchdog over its state files (impl/watchdog.py, impl/storage.py).   *)
(*                                                                          *)
(* A step with an idempotency key is logged in memory.db once it is done    *)
(* and replayed from the log when the saga is executed again under the same *)
(* id.  The state file is only ever written; nothing resumes from it.  The  *)
(* watchdog reads a file and rewrites or unlinks it later.  A saga nested   *)
(* as a step is a step here.                                                *)
(***************************************************************************)
EXTENDS Integers, FiniteSets

CONSTANTS
    Length,      \* number of steps
    Keyed,       \* steps with an idempotency key
    Compensable, \* steps with a compensation
    Retries,     \* retry_attempts of each step
    MaxRuns, MaxCrashes, MaxAge, \* bounds; age 1 is past max_age_seconds, age 2 past the hour
    None

VARIABLES
    file,    \* the state file: [status, done] or None
    live,    \* the execution: [pc, step, undoing, attempt, done] or None
    log,     \* saga_step_log: steps recorded as done
    effect,  \* step -> "none", "some" or "all" of its action is in place
    raised,  \* steps whose last compensation raised
    dog,     \* what the watchdog has read and means to do: [act, state] or None
    age,     \* of started_at in the file
    runs, crashes

vars == <<file, live, log, effect, raised, dog, age, runs, crashes>>

Steps == 1..Length
Statuses == {"running", "compensating", "compensated", "stuck", "review"}
FileStates == [status : Statuses, done : SUBSET Steps]

TypeOK ==
    /\ file = None \/ file \in FileStates
    /\ live # None => /\ live.pc \in {"step", "lookup", "action", "done", "raised", "undo", "rolledback"}
                      /\ live.step \in 1..Length + 1 /\ live.undoing \in 0..Length /\ live.attempt \in 0..Retries + 1
                      /\ live.done \subseteq Steps
    /\ log \subseteq Keyed
    /\ effect \in [Steps -> {"none", "some", "all"}]
    /\ raised \subseteq Steps
    /\ dog = None \/ (dog.act \in {"mark", "recover", "clean"} /\ dog.state \in FileStates)
    /\ age \in 0..MaxAge /\ runs \in 0..MaxRuns /\ crashes \in 0..MaxCrashes

Init ==
    /\ file = None /\ live = None /\ dog = None
    /\ log = {} /\ raised = {}
    /\ effect = [i \in Steps |-> "none"]
    /\ age = 0 /\ runs = 0 /\ crashes = 0

At(pc) == live # None /\ live.pc = pc
Current == live.step

\* The whole state, written in place of the last one.
Saves(status, done) == file' = [status |-> status, done |-> done]

------------------------------------------------------------------------------
(* execute *)

\* Every execution starts at the first step; the file of the last one is not read.
Execute ==
    /\ live = None /\ runs < MaxRuns
    /\ runs' = runs + 1
    /\ live' = [pc |-> "step", step |-> 1, undoing |-> 0, attempt |-> 0, done |-> {}]
    /\ Saves("running", {})
    /\ age' = 0
    /\ UNCHANGED <<log, effect, raised, dog, crashes>>

StepStarts ==
    /\ At("step") /\ Current <= Length
    /\ live' = [live EXCEPT !.pc = "lookup", !.attempt = 0]
    /\ Saves("running", live.done)
    /\ UNCHANGED <<log, effect, raised, dog, age, runs, crashes>>

\* All steps done: the file is deleted.
Completes ==
    /\ At("step") /\ Current > Length
    /\ live' = None /\ file' = None
    /\ UNCHANGED <<log, effect, raised, dog, age, runs, crashes>>

\* Mutant: a replayed step is not counted among the completed ones.
ReplayedUncounted(i) == live.done

Replayed(i) == live.done \cup {i}

\* A lookup that fails is a miss.
Lookup ==
    /\ At("lookup")
    /\ \/ /\ Current \in log
          /\ live' = [live EXCEPT !.pc = "step", !.done = Replayed(Current), !.step = @ + 1]
          /\ Saves("running", Replayed(Current))
       \/ live' = [live EXCEPT !.pc = "action"] /\ UNCHANGED file
    /\ UNCHANGED <<log, effect, raised, dog, age, runs, crashes>>

ActionReturns ==
    /\ At("action")
    /\ effect' = [effect EXCEPT ![Current] = "all"]
    /\ live' = [live EXCEPT !.pc = "done"]
    /\ UNCHANGED <<file, log, raised, dog, age, runs, crashes>>

\* It raises, or is cut by its timeout, with any part of its work done.  Only
\* an exception of retry_on is retried: the others count as the last attempt.
ActionRaises ==
    /\ At("action")
    /\ \E e \in {effect[Current], "some", "all"} :
          effect' = [effect EXCEPT ![Current] = IF @ = "all" THEN "all" ELSE e]
    /\ \E n \in {live.attempt + 1, Retries + 1} : live' = [live EXCEPT !.pc = "raised", !.attempt = n]
    /\ UNCHANGED <<file, log, raised, dog, age, runs, crashes>>

Retry ==
    /\ At("raised") /\ live.attempt <= Retries
    /\ live' = [live EXCEPT !.pc = "action"]
    /\ UNCHANGED <<file, log, effect, raised, dog, age, runs, crashes>>

\* The log is written before the state file; a failing write of it is ignored.
LogStep ==
    /\ At("done") /\ Current \in Keyed \ log
    /\ log' = log \cup {Current}
    /\ UNCHANGED <<file, live, effect, raised, dog, age, runs, crashes>>

RecordStep ==
    /\ At("done")
    /\ live' = [live EXCEPT !.pc = "step", !.done = @ \cup {Current}, !.step = @ + 1]
    /\ Saves("running", live.done \cup {Current})
    /\ UNCHANGED <<log, effect, raised, dog, age, runs, crashes>>

\* Compensation starts below the step that failed.
Exhausted ==
    /\ At("raised") /\ live.attempt > Retries
    /\ live' = [live EXCEPT !.pc = "undo", !.undoing = Current - 1]
    /\ Saves("compensating", live.done)
    /\ UNCHANGED <<log, effect, raised, dog, age, runs, crashes>>

Undo ==
    /\ At("undo") /\ live.undoing > 0
    /\ live' = [live EXCEPT !.undoing = @ - 1]
    /\ IF live.undoing \in live.done \cap Compensable
       THEN \/ effect' = [effect EXCEPT ![live.undoing] = "none"] /\ raised' = raised \ {live.undoing}
            \/ raised' = raised \cup {live.undoing} /\ UNCHANGED effect
       ELSE UNCHANGED <<effect, raised>>
    /\ UNCHANGED <<file, log, dog, age, runs, crashes>>

\* The step log keeps the steps that were undone.
RolledBack ==
    /\ At("undo") /\ live.undoing = 0
    /\ live' = [live EXCEPT !.pc = "rolledback"]
    /\ Saves("compensated", live.done)
    /\ UNCHANGED <<log, effect, raised, dog, age, runs, crashes>>

\* The exception goes on to the caller, which may execute the saga again.
Raises ==
    /\ At("rolledback")
    /\ live' = None
    /\ UNCHANGED <<file, log, effect, raised, dog, age, runs, crashes>>

\* The process dies or the task is cancelled: no handler runs.
Crash ==
    /\ live # None /\ crashes < MaxCrashes
    /\ crashes' = crashes + 1 /\ live' = None
    /\ UNCHANGED <<file, log, effect, raised, dog, age, runs>>

------------------------------------------------------------------------------
(* The watchdog *)

Ages ==
    /\ file # None /\ age < MaxAge /\ age' = age + 1
    /\ UNCHANGED <<file, live, log, effect, raised, dog, runs, crashes>>

Overdue == file.status \in {"running", "compensating"} /\ age >= 1
Finished == file.status \in {"compensated", "stuck", "review"} /\ age >= 2

DogReads ==
    /\ dog = None /\ file # None
    /\ \E act \in {"mark", "recover", "clean"} :
        /\ CASE act = "mark" -> Overdue
             [] act = "recover" -> file.status = "stuck"
             [] act = "clean" -> Finished
        /\ dog' = [act |-> act, state |-> file]
    /\ UNCHANGED <<file, live, log, effect, raised, age, runs, crashes>>

\* It writes back what it read, whatever the saga has done since.
DogActs ==
    /\ dog # None /\ dog' = None
    /\ file' = CASE dog.act = "mark" -> [dog.state EXCEPT !.status = "stuck"]
                 [] dog.act = "recover" -> [dog.state EXCEPT !.status = "review"]
                 [] dog.act = "clean" -> None
    /\ UNCHANGED <<live, log, effect, raised, age, runs, crashes>>

------------------------------------------------------------------------------
Next ==
    \/ Execute \/ StepStarts \/ Completes \/ Lookup \/ ActionReturns \/ ActionRaises
    \/ Retry \/ LogStep \/ RecordStep \/ Exhausted \/ Undo \/ RolledBack \/ Raises \/ Crash
    \/ Ages \/ DogReads \/ DogActs

Spec == Init /\ [][Next]_vars

------------------------------------------------------------------------------
(* Properties *)

\* A saga that reports itself rolled back has undone every step below the one
\* that failed, the ones it had only replayed from the log included, except
\* where the compensation raised (_compensate, _check_idempotency).
RollbackCoversReplays ==
    At("rolledback") =>
        \A i \in Compensable : i < Current => effect[i] = "none" \/ i \in raised

\* Violated: a saga that completed has its effects.  Replaying a step that a compensation
\* has undone completes the saga without it (_check_idempotency).
CompletedMeansDone ==
    [][Completes => \A i \in Steps : effect[i] = "all"]_vars
==============================================================================
