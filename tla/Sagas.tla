------------------------------- MODULE Sagas -------------------------------
(***************************************************************************)
(* The saga engine (shared/saga/engine.py) over its file store              *)
(* (persistence.py, impl/crypto.py), as memory_saga runs it.                *)
(*                                                                          *)
(* One saga: its steps are executed in order, each retried, its progress    *)
(* saved before and after every step.  On failure the completed steps are   *)
(* compensated backwards.  The process may die at any point; execute() on   *)
(* the saved state resumes.  The effect of an action and the save that      *)
(* records it are two steps.                                                *)
(***************************************************************************)
EXTENDS Integers, Sequences

CONSTANTS
    Length,      \* number of steps
    Compensable, \* steps with a compensation
    Retries,     \* retry_attempts of each step
    MaxCrashes,  \* bound on the times the process dies
    None

VARIABLES
    saved,   \* the state file: [status, index, step], or None
    live,    \* the SagaState in memory and where the engine is: [status, index, step, pc, attempt], or None
    effect,  \* step -> how much of its action has been done and not undone
    stuck,   \* steps whose compensation raised
    crashes

vars == <<saved, live, effect, stuck, crashes>>

Steps == 1..Length
StepStatus == {"pending", "running", "completed", "failed"}
Status == {"running", "completed", "failed", "compensating", "compensated"}
File == [status : Status, index : Steps, step : [Steps -> StepStatus]]

TypeOK ==
    /\ saved \in File \cup {None}
    /\ live # None =>
         /\ live.status \in Status /\ live.index \in 0..Length + 1
         /\ live.step \in [Steps -> StepStatus] /\ live.attempt \in 0..Retries + 1
         /\ live.pc \in {"next", "action", "done", "raised", "abort", "undo"}
    /\ effect \in [Steps -> {"none", "some", "all"}]
    /\ stuck \subseteq Steps
    /\ crashes \in 0..MaxCrashes

Init ==
    /\ saved = None
    /\ live = None
    /\ effect = [i \in Steps |-> "none"]
    /\ stuck = {}
    /\ crashes = 0

\* save: the whole state, written to a temporary file and renamed.
Save(s) == saved' = [status |-> s.status, index |-> IF s.index \in Steps THEN s.index ELSE Length, step |-> s.step]
Persist(s) == live' = s /\ Save(s)

------------------------------------------------------------------------------
(* execute *)

\* A finished saga returns its context; any other starts over from its first
\* step, completed steps to be skipped.
Execute ==
    /\ live = None
    /\ saved # None => saved.status \notin {"completed", "compensated"}
    /\ Persist([status |-> "running", index |-> 1, pc |-> "next", attempt |-> 0,
                step |-> IF saved = None THEN [i \in Steps |-> "pending"] ELSE saved.step])
    /\ UNCHANGED <<effect, stuck, crashes>>

At(pc) == live # None /\ live.pc = pc
Current == live.index

\* Mutant: a resumed saga runs its completed steps again.
NothingSkipped(i) == FALSE

Skipped(i) == live.step[i] = "completed"

NextStep ==
    /\ At("next") /\ Current \in Steps
    /\ IF Skipped(Current) THEN live' = [live EXCEPT !.index = @ + 1] /\ UNCHANGED saved
       ELSE Persist([live EXCEPT !.pc = "action", !.attempt = 0, !.step[Current] = "running"])
    /\ UNCHANGED <<effect, stuck, crashes>>

Completes ==
    /\ At("next") /\ Current = Length + 1
    /\ Save([live EXCEPT !.status = "completed"])
    /\ live' = None
    /\ UNCHANGED <<effect, stuck, crashes>>

\* The action does its work, or raises having done nothing, some or all of it
\* (a timeout may cut it anywhere).
ActionReturns ==
    /\ At("action")
    /\ effect' = [effect EXCEPT ![Current] = "all"]
    /\ live' = [live EXCEPT !.pc = "done"]
    /\ UNCHANGED <<saved, stuck, crashes>>

ActionRaises ==
    /\ At("action")
    /\ \E e \in {effect[Current], "some", "all"} :
          effect' = [effect EXCEPT ![Current] = IF @ = "all" THEN "all" ELSE e]
    /\ live' = [live EXCEPT !.pc = "raised", !.attempt = @ + 1]
    /\ UNCHANGED <<saved, stuck, crashes>>

RecordStep ==
    /\ At("done")
    /\ Persist([live EXCEPT !.pc = "next", !.step[Current] = "completed", !.index = @ + 1])
    /\ UNCHANGED <<effect, stuck, crashes>>

\* Mutant: the first attempt is not counted.
RetryOnceMore ==
    /\ At("raised") /\ live.attempt <= Retries + 1
    /\ live' = [live EXCEPT !.pc = "action"]
    /\ UNCHANGED <<saved, effect, stuck, crashes>>

\* The pause of a retry keeps nothing locked and saves nothing.
Retry ==
    /\ At("raised") /\ live.attempt <= Retries
    /\ live' = [live EXCEPT !.pc = "action"]
    /\ UNCHANGED <<saved, effect, stuck, crashes>>

Exhausted ==
    /\ At("raised") /\ live.attempt > Retries
    /\ Persist([live EXCEPT !.pc = "abort", !.step[Current] = "failed"])
    /\ UNCHANGED <<effect, stuck, crashes>>

\* execute saves FAILED; compensate saves COMPENSATING and starts at the step
\* that failed.
Aborts ==
    /\ At("abort")
    /\ IF live.status = "running" THEN Persist([live EXCEPT !.status = "failed"])
       ELSE Persist([live EXCEPT !.status = "compensating", !.pc = "undo"])
    /\ UNCHANGED <<effect, stuck, crashes>>

\* Mutant: the completed step next to the failed one is passed over.
UndoneExceptLast(i) == live.step[i] = "completed" /\ i \in Compensable /\ (i = Length \/ live.step[i + 1] # "failed")

Undoable(i) == live.step[i] = "completed" /\ i \in Compensable

\* One step back; a compensation that raises is logged and left behind.
Undo ==
    /\ At("undo") /\ Current \in Steps
    /\ live' = [live EXCEPT !.index = @ - 1]
    /\ IF Undoable(Current)
       THEN \/ effect' = [effect EXCEPT ![Current] = "none"] /\ UNCHANGED stuck
            \/ stuck' = stuck \cup {Current} /\ UNCHANGED effect
       ELSE UNCHANGED <<effect, stuck>>
    /\ UNCHANGED <<saved, crashes>>

\* current_step_index is not moved by the way back.
Compensated ==
    /\ At("undo") /\ Current = 0
    /\ saved' = [saved EXCEPT !.status = "compensated"]
    /\ live' = None
    /\ UNCHANGED <<effect, stuck, crashes>>

Crash ==
    /\ live # None /\ crashes < MaxCrashes
    /\ crashes' = crashes + 1
    /\ live' = None
    /\ UNCHANGED <<saved, effect, stuck>>

Next ==
    \/ Execute \/ NextStep \/ Completes \/ ActionReturns \/ ActionRaises \/ RecordStep
    \/ Retry \/ Exhausted \/ Aborts \/ Undo \/ Compensated \/ Crash

Spec == Init /\ [][Next]_vars
FairSpec == Spec /\ WF_vars(NextStep \/ Completes \/ RecordStep \/ Retry \/ Exhausted \/ Aborts \/ Undo \/ Compensated)
                 /\ WF_vars(ActionReturns \/ ActionRaises) /\ WF_vars(Execute)

------------------------------------------------------------------------------
(* Properties *)

Settled(i) == effect[i] = "none" \/ i \in stuck

\* A saga that says it is compensated has undone every step it says it
\* completed, except where a compensation raised, however often it died and was
\* resumed on the way (compensate, execute).
RolledBackMeansUndone ==
    saved # None /\ saved.status = "compensated" =>
        \A i \in Compensable : saved.step[i] = "completed" => Settled(i)

\* Violated: what the resume path is for, that a completed saga has all its effects.  A saga
\* that died while compensating is resumed as running, skips the steps it had
\* undone, and completes without them.
CompletedMeansDone ==
    saved # None /\ saved.status = "completed" => \A i \in Steps : effect[i] = "all"

\* Violated: memory_saga's auto-rollback on failure.  The step that failed is never
\* compensated, whatever it had done by then.
FailureLeavesNothing ==
    saved # None /\ saved.status = "compensated" => \A i \in Compensable : Settled(i)
=============================================================================
