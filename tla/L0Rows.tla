------------------------------- MODULE L0Rows -------------------------------
(***************************************************************************)
(* The life of a row of l0_journal: who captures it, who may stamp it, how  *)
(* a row nobody stamped is judged by what memory holds, how a replay        *)
(* re-enters it and how it expires (src/shared/l0.py, src/hooks/external.py, *)
(* src/hooks/agent_hooks.py, src/features/replay.py, src/lifecycle/l0_tiers.py). *)
(*                                                                         *)
(* A capture commits BEFORE the write it announces and a stamp commits     *)
(* AFTER it; between the three, other deliveries, the nightly passes and a *)
(* command-line replay run in other tasks or processes, and any of them    *)
(* may die.  The status of a row is therefore a claim, and the properties  *)
(* relate the claim to `held`, what was really written.                    *)
(*                                                                         *)
(* One message is one row: the dedup key is the text, and a repeat after   *)
(* the row was archived is a new row, i.e. another member of Msgs.         *)
(* Time is read by the code only through four thresholds of a row's ts and *)
(* one of processed_at, so a row carries the threshold it has passed.      *)
(***************************************************************************)
EXTENDS Integers, FiniteSets, TLC

CONSTANTS
    Msgs,       \* messages: one journal row each
    Writers,    \* concurrent calls of the capture paths
    Jobs,       \* replaying actors: the nightly thread and command-line runs
    Nightly,    \* the job that runs the nightly sequence
    Configs,    \* gate configurations (config_hash values)
    Kinds,      \* capture paths the messages may come through
    Faults,     \* irregularities the environment may produce
    MaxDeaths,  \* bound: killed calls
    None        \* no message, no configuration

AllKinds == {"hook", "agent", "direct", "bridge", "park", "service"}
AllFaults == {"backdated",   \* ts_override: a message older than its capture
              "overlap",     \* two pipeline passes over one row at the same time
              "overrun",     \* a call takes longer than the ten-minute grace
              "partial",     \* the pipeline raises after a part was written
              "lost_stamp",  \* a pass dies between its write and its stamp
              "busy"}        \* a claim waits for the write lock in vain

ASSUME JobsAssumption == Nightly \in Jobs /\ None \notin Msgs \cup Configs
ASSUME EnvironmentAssumption == Kinds \subseteq AllKinds /\ Faults \subseteq AllFaults
ASSUME ConfigsAssumption == Configs # {} /\ Configs \cap {"unaccounted", "skip", "expired"} = {}
ASSUME DeathsAssumption == MaxDeaths \in Nat

VARIABLES
    kind,    \* the path each message comes through
    row,     \* its l0_journal row
    held,    \* what memory holds of it
    config,  \* the gate configuration in force
    writer,  \* one record per capture call
    job,     \* one record per job
    deaths

vars == <<kind, row, held, config, writer, job, deaths>>

\* What a row's ts has passed: nothing, the grace (600 s), the replay window and
\* the received TTL (both 7 days), the cold boundary (180 days).
Fresh == 0
Settled == 1
Overdue == 2
Ancient == 3

Saved == {"saved_l3", "promoted_l4"}
WRITTEN_STATUSES == Saved \cup {"routed_direct"}
Processed == Saved \cup {"gated_out"}
Status == WRITTEN_STATUSES \cup {"absent", "received", "parked", "processing", "gated_out", "archived"}

\* `decisions` is the set of facts its readers look for: the unaccounted_exit
\* marker, skip_distill, the never_processed reason, and one element per
\* configuration under which a (gate, config_hash) pair was recorded.
Reasons == {"unaccounted", "skip", "expired"}
Row == [status : Status, decisions : SUBSET (Reasons \cup Configs),
        age : Fresh..Ancient, stuck : BOOLEAN]  \* stuck: processed_at older than 600 s

NoRow == [status |-> "absent", decisions |-> {}, age |-> Fresh, stuck |-> FALSE]

\* `held`: the raw:<id> evidence classify_received can find, and how often the
\* content was written (2 stands for "more than once").
Held == [evidence : SUBSET Saved, writes : 0..2]

\* What a replay or an expiry keeps of a selected row while it runs.
SnapOf(r) == [received |-> r.status = "received", decisions |-> r.decisions]
NoSnap == SnapOf(NoRow)

WriterIdle == [pc |-> "idle", msg |-> None, fresh |-> FALSE, status |-> "absent"]
JobIdle == [task |-> "idle", pc |-> "next", todo |-> {}, msg |-> None, byId |-> FALSE,
            hash |-> None,
            snap |-> [m \in Msgs |-> NoSnap],
            status |-> "absent"]

TypeOK ==
    /\ kind \in [Msgs -> Kinds]
    /\ row \in [Msgs -> Row]
    /\ held \in [Msgs -> Held]
    /\ config \in Configs
    /\ writer \in [Writers -> [pc : {"idle", "judge", "admitted", "captured", "canon", "stamp", "write", "finally"},
                               msg : Msgs \cup {None}, fresh : BOOLEAN, status : Status]]
    /\ job \in [Jobs -> [task : {"idle", "sweep", "replay", "expire", "tier"},
                         pc : {"next", "judge", "claim", "claimed", "stamp"},
                         todo : SUBSET Msgs, msg : Msgs \cup {None}, byId : BOOLEAN,
                         hash : Configs \cup {None}, snap : [Msgs -> [received : BOOLEAN, decisions : SUBSET (Reasons \cup Configs)]],
                         status : Status]]
    /\ deaths \in 0..MaxDeaths

Init ==
    /\ kind \in [Msgs -> Kinds]
    /\ row = [m \in Msgs |-> NoRow]
    /\ held = [m \in Msgs |-> [evidence |-> {}, writes |-> 0]]
    /\ config \in Configs
    /\ writer = [w \in Writers |-> WriterIdle]
    /\ job = [j \in Jobs |-> JobIdle]
    /\ deaths = 0

-----------------------------------------------------------------------------
(* Operations on a row *)

\* _awaiting_verdict: the marker, and no verdict recorded since.
AwaitingVerdict(decisions) == "unaccounted" \in decisions /\ decisions \cap Configs = {}

WriteNeverHappened(r) == r.status = "gated_out" /\ AwaitingVerdict(r.decisions)

\* _judged_by
JudgedBy(decisions, hash) == hash \in decisions

\* close_row: a compare-and-set from `received`, or from a row awaiting its verdict.
CloseRow(r, status, why) ==
    IF r.status = "received" \/ WriteNeverHappened(r)
    THEN [r EXCEPT !.status = status, !.decisions = @ \cup why]
    ELSE r

\* An UPDATE ... WHERE id=? without a precondition; an archived row has left the table.
Overwrite(r, status, decisions) ==
    IF r.status = "archived" THEN r
    ELSE [r EXCEPT !.status = status, !.decisions = decisions, !.stuck = FALSE]

\* Mutant: content that reached both levels counts as none.
EarnedByOneLevel(levels) ==
    CASE levels = {"promoted_l4"} -> "promoted_l4"
      [] levels = {"saved_l3"} -> "saved_l3"
      [] OTHER -> "gated_out"

\* Mutant: an empty route still counts as a save.
EarnedAnyway(levels) == IF "promoted_l4" \in levels THEN "promoted_l4" ELSE "saved_l3"

\* The status that a set of written levels earns; L4 wins.
Earned(levels) ==
    CASE "promoted_l4" \in levels -> "promoted_l4"
      [] levels = {"saved_l3"} -> "saved_l3"
      [] OTHER -> "gated_out"

\* Mutant: no grace.
JudgeableAtOnce(m) == row[m].status = "received"

\* Mutant: the evidence is not consulted.
VerdictUnread(m) == "gated_out"

\* classify_received, once the row is received and past the grace: what the
\* evidence earns, where `gated_out` stands for UNACCOUNTED_EXIT.
Judgeable(m) == row[m].status = "received" /\ row[m].age # Fresh
Verdict(m) == Earned(held[m].evidence)

\* Mutant: the reason goes into the status column.
CloseByVerdictAsStatus(r, verdict) ==
    CloseRow(r, IF verdict = "gated_out" THEN "unaccounted_exit" ELSE verdict, {})

CloseByVerdict(r, verdict) ==
    CloseRow(r, verdict, IF verdict = "gated_out" THEN {"unaccounted"} ELSE {})

\* distill_and_route: what it writes of message m, tagged raw:<id> if `tagged`.
\* `levels` is empty when every atom was refused.
Distil(m, levels, tagged) ==
    held' = [held EXCEPT ![m] =
                [evidence |-> @.evidence \cup (IF tagged THEN levels ELSE {}),
                 writes |-> IF levels = {} \/ @.writes = 2 THEN @.writes ELSE @.writes + 1]]

Routes == {{}, {"saved_l3"}, {"promoted_l4"}, Saved}

-----------------------------------------------------------------------------
(* The capture paths *)

Busy(w) == writer[w].pc # "idle"
Passing(m) == {w \in Writers : writer[w].msg = m}
Claimed(m) == {j \in Jobs : job[j].msg = m /\ job[j].pc \in {"claimed", "stamp"}}

\* Without the fault, a second pass over a row starts only when the first is over.
NoDelivery(m) == "overlap" \in Faults \/ Passing(m) = {}
Alone(m) == NoDelivery(m) /\ ("overlap" \in Faults \/ Claimed(m) = {})

MoveTo(w, pc) == writer' = [writer EXCEPT ![w].pc = pc]
Done(w) == writer' = [writer EXCEPT ![w] = WriterIdle]

Admit(w, m) == writer' = [writer EXCEPT ![w] = [WriterIdle EXCEPT !.pc = "admitted", !.msg = m]]

\* auto_save_text: find_block sees no row, or one whose write never happened.
FindNothing(w, m) ==
    /\ ~ Busy(w) /\ kind[m] = "hook" /\ Alone(m)
    /\ row[m].status = "absent" \/ WriteNeverHappened(row[m])
    /\ Admit(w, m)
    /\ UNCHANGED <<kind, row, held, config, job, deaths>>

\* find_block judges a received row first: the evidence is read here ...
FindReceived(w, m) ==
    /\ ~ Busy(w) /\ kind[m] = "hook" /\ Alone(m)
    /\ Judgeable(m)
    /\ writer' = [writer EXCEPT ![w] = [WriterIdle EXCEPT !.pc = "judge", !.msg = m, !.status = Verdict(m)]]
    /\ UNCHANGED <<kind, row, held, config, job, deaths>>

\* ... the close is a later transaction, and only `unaccounted` re-enters.  The
\* verdict counts even when the close loses.
FindJudges(w) ==
    LET m == writer[w].msg IN
    /\ writer[w].pc = "judge"
    /\ row' = [row EXCEPT ![m] = CloseByVerdict(@, writer[w].status)]
    /\ IF writer[w].status = "gated_out" THEN Admit(w, m) ELSE Done(w)
    /\ UNCHANGED <<kind, held, config, job, deaths>>

\* The paths that capture without asking find_block.
Enter(w, m) ==
    /\ ~ Busy(w) /\ kind[m] # "hook" /\ Alone(m)
    /\ row[m].status # "archived"
    /\ Admit(w, m)
    /\ UNCHANGED <<kind, row, held, config, job, deaths>>

\* capture(): a new row, or the row the text already has.
Capture(w) ==
    LET m == writer[w].msg
        new == row[m].status = "absent"
    IN
    /\ writer[w].pc = "admitted"
    /\ \E age \in IF "backdated" \in Faults THEN Fresh..Overdue ELSE {Fresh} :
         row' = IF ~ new THEN row ELSE
                [row EXCEPT ![m] =
                   [NoRow EXCEPT !.status = IF kind[m] = "park" THEN "parked" ELSE "received",
                                 !.decisions = IF kind[m] = "direct" THEN {"skip"} ELSE {},
                                 !.age = age]]
    /\ IF kind[m] \in {"park", "service"} THEN Done(w)
       ELSE writer' = [writer EXCEPT ![w].pc = "captured", ![w].fresh = new]
    /\ UNCHANGED <<kind, held, config, job, deaths>>

\* A refusal is recorded under the configuration that made it.
Refusal(status) == IF status = "gated_out" THEN {config} ELSE {}

\* The call is about to stamp `status`.
Outcome(w, status) == writer' = [writer EXCEPT ![w].pc = "stamp", ![w].status = status]

\* adaptive_threshold.gate refuses the message: nothing is written.
GateRefuses(w) ==
    /\ writer[w].pc = "captured" /\ kind[writer[w].msg] = "hook"
    /\ Outcome(w, "gated_out")
    /\ UNCHANGED <<kind, row, held, config, job, deaths>>

\* Mutant: source_rid is dropped on every path.
PipelineRoutesUntagged(w, levels) ==
    LET m == writer[w].msg IN
    /\ writer[w].pc = "captured" /\ kind[m] \in {"hook", "agent", "bridge"}
    /\ Distil(m, levels, FALSE)
    /\ IF kind[m] = "bridge" THEN Done(w) ELSE Outcome(w, Earned(levels))
    /\ UNCHANGED <<kind, row, config, job, deaths>>

\* The pipeline writes and decides its stamp.  The agent path passes no
\* source_rid, so its writes leave no evidence; the bridge never stamps.
PipelineRoutes(w, levels) ==
    LET m == writer[w].msg IN
    /\ writer[w].pc = "captured" /\ kind[m] \in {"hook", "agent", "bridge"}
    /\ Distil(m, levels, kind[m] # "agent")
    /\ IF kind[m] = "bridge" THEN Done(w) ELSE Outcome(w, Earned(levels))
    /\ UNCHANGED <<kind, row, config, job, deaths>>

\* A DREAM: marker goes to staging or memory by its own protocol; the stamp is
\* the same when propose() raised and nothing was staged.
DreamMarker(w) ==
    LET m == writer[w].msg IN
    /\ writer[w].pc = "captured" /\ kind[m] = "hook"
    /\ Distil(m, {"promoted_l4"}, FALSE) \/ UNCHANGED held
    /\ Outcome(w, "routed_direct")
    /\ UNCHANGED <<kind, row, config, job, deaths>>

\* The agent hook without a memory manager: nothing is distilled.
NoManager(w) ==
    /\ writer[w].pc = "captured" /\ kind[writer[w].msg] = "agent"
    /\ Outcome(w, "routed_direct")
    /\ UNCHANGED <<kind, row, held, config, job, deaths>>

\* Persona canon: straight to L4, then an UPDATE with no status precondition.
PersonaCanon(w) ==
    LET m == writer[w].msg IN
    /\ writer[w].pc = "captured" /\ kind[m] = "hook"
    /\ Distil(m, {"promoted_l4"}, FALSE)
    /\ MoveTo(w, "canon")
    /\ UNCHANGED <<kind, row, config, job, deaths>>

PersonaStamp(w) ==
    LET m == writer[w].msg IN
    /\ writer[w].pc = "canon"
    /\ row' = [row EXCEPT ![m] = Overwrite(@, "promoted_l4", @.decisions)]
    /\ MoveTo(w, "finally")
    /\ UNCHANGED <<kind, held, config, job, deaths>>

\* The body raises before anything is written, or between two of its writes.
PipelineRaises(w) ==
    LET m == writer[w].msg IN
    /\ writer[w].pc = "captured" /\ kind[m] \in {"hook", "agent", "bridge"}
    /\ \/ UNCHANGED held
       \/ "partial" \in Faults /\ \E level \in Saved : Distil(m, {level}, kind[m] # "agent")
    /\ IF kind[m] = "hook" THEN MoveTo(w, "finally") ELSE Done(w)
    /\ UNCHANGED <<kind, row, config, job, deaths>>

\* close_row with the reason importance_gate_bypass or empty_route for a refusal.
Stamp(w) ==
    LET m == writer[w].msg IN
    /\ writer[w].pc = "stamp" /\ kind[m] # "direct"
    /\ row' = [row EXCEPT ![m] = CloseRow(@, writer[w].status, Refusal(writer[w].status))]
    /\ IF kind[m] = "hook" THEN MoveTo(w, "finally") ELSE Done(w)
    /\ UNCHANGED <<kind, held, config, job, deaths>>

\* _close_unaccounted, in auto_save_text's finally: a row still received.
CloseUnaccounted(w) ==
    LET m == writer[w].msg IN
    /\ writer[w].pc = "finally"
    /\ row' = IF row[m].status = "received"
              THEN [row EXCEPT ![m] = CloseRow(@, "gated_out", {"unaccounted"})] ELSE row
    /\ Done(w)
    /\ UNCHANGED <<kind, held, config, job, deaths>>

\* remember and think write by key themselves; remember stamps first.
DirectStamps(w) ==
    LET m == writer[w].msg IN
    /\ writer[w].pc \in {"captured", "stamp"} /\ kind[m] = "direct"
    /\ row' = [row EXCEPT ![m] = CloseRow(@, "routed_direct", {})]
    /\ IF writer[w].pc = "stamp" THEN Done(w) ELSE MoveTo(w, "write")
    /\ UNCHANGED <<kind, held, config, job, deaths>>

DirectWrites(w) ==
    LET m == writer[w].msg IN
    /\ writer[w].pc \in {"captured", "write"} /\ kind[m] = "direct"
    /\ Distil(m, {"promoted_l4"}, FALSE)
    /\ IF writer[w].pc = "write" THEN Done(w) ELSE MoveTo(w, "stamp")
    /\ UNCHANGED <<kind, row, config, job, deaths>>

\* A delivery between its write and its stamp whose write no judge will find: it
\* carries no raw:<id> tag, or the row is no longer `received` (a retry).
Unproven(w) ==
    /\ kind[writer[w].msg] = "hook"
    /\ \/ writer[w].pc = "canon"
       \/ writer[w].pc = "stamp" /\ (writer[w].status = "routed_direct" \/ ~ writer[w].fresh)

\* The process is killed: no finally runs.
WriterDies(w) ==
    /\ Busy(w) /\ deaths < MaxDeaths
    /\ "lost_stamp" \in Faults \/ ~ Unproven(w)
    /\ Done(w)
    /\ deaths' = deaths + 1
    /\ UNCHANGED <<kind, row, held, config, job>>

WriterProgress(w) ==
    \/ FindJudges(w) \/ Capture(w) \/ GateRefuses(w) \/ DreamMarker(w) \/ NoManager(w) \/ PersonaCanon(w)
    \/ PersonaStamp(w) \/ PipelineRaises(w) \/ Stamp(w) \/ CloseUnaccounted(w)
    \/ DirectStamps(w) \/ DirectWrites(w)
    \/ \E levels \in Routes : PipelineRoutes(w, levels)

-----------------------------------------------------------------------------
(* Sweep, replay, expiry and tiering *)

\* What each task's first SELECT returns.
Stranded == {m \in Msgs : row[m].status = "received" /\ kind[m] # "service"}
\* Mutant: the window replay takes only what nobody has closed.
WindowOfReceived == {m \in Msgs : row[m].status = "received" /\ row[m].age \in {Fresh, Settled}}

Window == {m \in Msgs : /\ row[m].age \in {Fresh, Settled} /\ kind[m] # "service"
                        /\ \/ row[m].status \in {"received", "gated_out"}
                           \/ row[m].status = "processing" /\ row[m].stuck}
Named == {m \in Msgs : row[m].status \notin {"absent", "archived"} /\ kind[m] # "service"}
\* Mutants: the expiry leaves service rows alone; it takes parked rows too.
ExpiredSpeech == {m \in Msgs : /\ row[m].status = "received" /\ kind[m] # "service"
                               /\ row[m].age \in {Overdue, Ancient}}
ExpiredParked == {m \in Msgs : /\ row[m].status \in {"received", "parked"}
                               /\ row[m].age \in {Overdue, Ancient}}
Expired == {m \in Msgs : row[m].status = "received" /\ row[m].age \in {Overdue, Ancient}}
ColdRows == {m \in Msgs : row[m].status \in Processed /\ row[m].age = Ancient}

\* The SELECT snapshots the rows; the configuration hash is taken once.
Start(j, task, todo, byId) ==
    job' = [job EXCEPT ![j] = [JobIdle EXCEPT !.task = task, !.todo = todo, !.byId = byId,
             !.hash = IF task \in {"replay", "expire"} THEN config ELSE @,
             !.snap = [m \in Msgs |-> IF m \in todo THEN SnapOf(row[m]) ELSE NoSnap]]]

At(j, task, pc) == job[j].task = task /\ job[j].pc = pc

\* The night: sweep_received, replay, close_overdue_received, tier_l0, in that
\* order; each task runs after the one before it has drained its rows.
NightStep(task, next, todo) ==
    /\ At(Nightly, task, "next") /\ job[Nightly].todo = {}
    /\ Start(Nightly, next, todo, FALSE)
    /\ UNCHANGED <<kind, row, held, config, writer, deaths>>

NightSweeps == NightStep("idle", "sweep", Stranded)
NightReplays == NightStep("sweep", "replay", Window)
NightExpires == NightStep("replay", "expire", Expired)
NightTiers == NightStep("expire", "tier", ColdRows)
NightEnds == NightStep("tier", "idle", {})

\* l0_cli replay [--ids] and l0_cli close-overdue, in a process of their own.
CommandStarts(j) ==
    /\ j # Nightly /\ job[j].task = "idle"
    /\ \/ Start(j, "replay", Window, FALSE)
       \/ Start(j, "replay", Named, TRUE)
       \/ Start(j, "expire", Expired, FALSE)
    /\ UNCHANGED <<kind, row, held, config, writer, deaths>>

CommandEnds(j) ==
    /\ j # Nightly /\ job[j].task # "idle" /\ job[j].pc = "next" /\ job[j].todo = {}
    /\ job' = [job EXCEPT ![j] = JobIdle]
    /\ UNCHANGED <<kind, row, held, config, writer, deaths>>

JobTo(j, pc, m, status) ==
    job' = [job EXCEPT ![j].pc = pc, ![j].msg = IF pc = "next" THEN None ELSE m, ![j].status = status,
                       ![j].todo = @ \ {m},
                       ![j].snap = IF pc = "next" THEN [@ EXCEPT ![m] = NoSnap] ELSE @]

Drain(j) == job' = [job EXCEPT ![j].todo = {}, ![j].snap = [m \in Msgs |-> NoSnap]]

\* The row at hand is finished with; the loop takes the next one.
NextRow(j, m) == JobTo(j, "next", m, "absent")

\* The sweep, and a replay for a row it selected as received, classify the row:
\* the evidence is read in one step and the close is another.
Classifies(j, m) ==
    \/ job[j].task = "sweep"
    \/ job[j].task = "replay" /\ job[j].snap[m].received

ReadEvidence(j, m) ==
    /\ job[j].pc = "next" /\ m \in job[j].todo /\ Classifies(j, m)
    /\ IF Judgeable(m) THEN JobTo(j, "judge", m, Verdict(m)) ELSE NextRow(j, m)
    /\ UNCHANGED <<kind, row, held, config, writer, deaths>>

CloseByEvidence(j) ==
    LET m == job[j].msg IN
    /\ job[j].pc = "judge"
    /\ row' = [row EXCEPT ![m] = CloseByVerdict(@, job[j].status)]
    /\ IF job[j].task = "replay" /\ job[j].status = "gated_out"
       THEN JobTo(j, "claim", m, "absent") ELSE NextRow(j, m)
    /\ UNCHANGED <<kind, held, config, writer, deaths>>

\* A replayed row that was not `received` needs no classification.
TakeRow(j, m) ==
    /\ At(j, "replay", "next") /\ m \in job[j].todo /\ ~ Classifies(j, m)
    /\ JobTo(j, "claim", m, "absent")
    /\ UNCHANGED <<kind, row, held, config, writer, deaths>>

Snap(j) == job[j].snap[job[j].msg]

SkipJudged(j) ==
    /\ At(j, "replay", "claim")
    /\ JudgedBy(Snap(j).decisions, job[j].hash)
    /\ NextRow(j, job[j].msg)
    /\ UNCHANGED <<kind, row, held, config, writer, deaths>>

\* skip_distill: its own entry wrote it; the status is set unconditionally.
SkipDirect(j) ==
    LET m == job[j].msg IN
    /\ At(j, "replay", "claim")
    /\ ~ JudgedBy(Snap(j).decisions, job[j].hash) /\ "skip" \in Snap(j).decisions
    /\ row' = [row EXCEPT ![m] = Overwrite(@, "routed_direct", @.decisions)]
    /\ NextRow(j, m)
    /\ UNCHANGED <<kind, held, config, writer, deaths>>

\* Mutants: a row in processing may be claimed at once; a written row may be claimed.
ClaimableWhileProcessing(j, r) ==
    /\ r.status \notin WRITTEN_STATUSES \cup {"archived"}
    /\ ~ (r.status = "gated_out" /\ JudgedBy(r.decisions, job[j].hash))
ClaimableFromSnapshot(j, r) ==
    /\ r.status # "archived" /\ ~ JudgedBy(Snap(j).decisions, job[j].hash)
    /\ r.status = "processing" => r.stuck

\* _claim's recheck under BEGIN IMMEDIATE.
Claimable(j, r) ==
    /\ r.status \notin WRITTEN_STATUSES \cup {"archived"}
    /\ ~ (r.status = "gated_out" /\ JudgedBy(r.decisions, job[j].hash))
    /\ r.status = "processing" => r.stuck

Claim(j) ==
    LET m == job[j].msg IN
    /\ At(j, "replay", "claim")
    /\ ~ JudgedBy(Snap(j).decisions, job[j].hash) /\ "skip" \notin Snap(j).decisions
    /\ IF Claimable(j, row[m])
       THEN /\ NoDelivery(m)
            /\ row' = [row EXCEPT ![m].status = "processing", ![m].stuck = FALSE]
            /\ JobTo(j, "claimed", m, "absent")
       ELSE NextRow(j, m) /\ UNCHANGED row
    /\ UNCHANGED <<kind, held, config, writer, deaths>>

\* BEGIN IMMEDIATE ran into the busy timeout: the row is left for the next pass.
ClaimBusy(j) ==
    /\ "busy" \in Faults /\ At(j, "replay", "claim")
    /\ NextRow(j, job[j].msg)
    /\ UNCHANGED <<kind, row, held, config, writer, deaths>>

\* The final UPDATEs of a replay: no status precondition, and the decisions are
\* the snapshot's plus this verdict.
ReplayVerdict(j, status) ==
    row' = [row EXCEPT ![job[j].msg] = Overwrite(@, status, Snap(j).decisions \cup {job[j].hash})]

ReplayGateRefuses(j) ==
    /\ At(j, "replay", "claimed") /\ ~ job[j].byId
    /\ ReplayVerdict(j, "gated_out")
    /\ NextRow(j, job[j].msg)
    /\ UNCHANGED <<kind, held, config, writer, deaths>>

ReplayRoutes(j, levels) ==
    /\ At(j, "replay", "claimed")
    /\ Distil(job[j].msg, levels, TRUE)
    /\ JobTo(j, "stamp", job[j].msg, Earned(levels))
    /\ UNCHANGED <<kind, row, config, writer, deaths>>

\* Mutant: what the router refused counts as known.
ReplayFindsRefused(j) ==
    /\ At(j, "replay", "claimed")
    /\ JobTo(j, "stamp", job[j].msg, "promoted_l4")
    /\ UNCHANGED <<kind, row, held, config, writer, deaths>>

\* Novelty: every atom is already in L4, nothing is written, the row is promoted.
ReplayFindsKnown(j) ==
    /\ At(j, "replay", "claimed")
    /\ held[job[j].msg].writes > 0
    /\ JobTo(j, "stamp", job[j].msg, "promoted_l4")
    /\ UNCHANGED <<kind, row, held, config, writer, deaths>>

ReplayStamps(j) ==
    /\ At(j, "replay", "stamp")
    /\ ReplayVerdict(j, job[j].status)
    /\ NextRow(j, job[j].msg)
    /\ UNCHANGED <<kind, held, config, writer, deaths>>

\* close_overdue_received: the SELECT ran before the transaction, and the UPDATE
\* has no precondition on the status.
Expire(j) ==
    /\ At(j, "expire", "next") /\ job[j].todo # {}
    /\ row' = [m \in Msgs |->
                 IF m \in job[j].todo
                 THEN Overwrite(row[m], "gated_out", job[j].snap[m].decisions \cup {"expired", job[j].hash})
                 ELSE row[m]]
    /\ Drain(j)
    /\ UNCHANGED <<kind, held, config, writer, deaths>>

\* tier_l0: the rows its SELECT returned leave the journal (see L0Journal).
Archive(j) ==
    /\ At(j, "tier", "next") /\ job[j].todo # {}
    /\ row' = [m \in Msgs |-> IF m \in job[j].todo THEN [row[m] EXCEPT !.status = "archived"] ELSE row[m]]
    /\ Drain(j)
    /\ UNCHANGED <<kind, held, config, writer, deaths>>

JobDies(j) ==
    /\ job[j].task # "idle" /\ deaths < MaxDeaths
    /\ "lost_stamp" \in Faults \/ job[j].pc # "stamp"
    /\ job' = [job EXCEPT ![j] = JobIdle]
    /\ deaths' = deaths + 1
    /\ UNCHANGED <<kind, row, held, config, writer>>

JobProgress(j) ==
    \/ CommandEnds(j) \/ CloseByEvidence(j) \/ SkipJudged(j) \/ SkipDirect(j) \/ Claim(j)
    \/ ReplayGateRefuses(j) \/ ReplayFindsKnown(j) \/ ReplayStamps(j) \/ Expire(j) \/ Archive(j)
    \/ \E m \in Msgs : ReadEvidence(j, m) \/ TakeRow(j, m)
    \/ \E levels \in Routes : ReplayRoutes(j, levels)

NightProgress == NightSweeps \/ NightReplays \/ NightExpires \/ NightTiers \/ NightEnds

-----------------------------------------------------------------------------
(* Time and configuration *)

Aged(r, age) ==
    IF r.status = "absent" THEN r
    ELSE [r EXCEPT !.age = IF @ < age THEN age ELSE @, !.stuck = r.status = "processing"]

\* Without the fault, ten minutes are longer than any single call or distillation.
TenMinutes ==
    /\ \A w \in Writers : Busy(w) => "overrun" \in Faults
    /\ \A j \in Jobs : job[j].pc \in {"claimed", "stamp"} => "overrun" \in Faults
    /\ row' = [m \in Msgs |-> Aged(row[m], Settled)]
    /\ row' # row
    /\ UNCHANGED <<kind, held, config, writer, job, deaths>>

\* Seven days (then 180) are longer than anything that runs.
Idle == (\A w \in Writers : ~ Busy(w)) /\ \A j \in Jobs : job[j].task = "idle"

TimePasses(age) ==
    /\ Idle
    /\ row' = [m \in Msgs |-> Aged(row[m], age)]
    /\ row' # row
    /\ UNCHANGED <<kind, held, config, writer, job, deaths>>

\* An operator edits the rules or the threshold.
Reconfigure ==
    /\ \E c \in Configs \ {config} : config' = c
    /\ UNCHANGED <<kind, row, held, writer, job, deaths>>

-----------------------------------------------------------------------------
Next ==
    \/ \E w \in Writers :
         \/ WriterProgress(w) \/ WriterDies(w)
         \/ \E m \in Msgs : FindNothing(w, m) \/ FindReceived(w, m) \/ Enter(w, m)
    \/ \E j \in Jobs : JobProgress(j) \/ CommandStarts(j) \/ ClaimBusy(j) \/ JobDies(j)
    \/ NightProgress
    \/ TenMinutes \/ TimePasses(Overdue) \/ TimePasses(Ancient) \/ Reconfigure

Spec == Init /\ [][Next]_vars

\* Calls and jobs run to their end and the nightly thread starts a night again
\* and again.  A replay is strongly fair: in the code it waits for no delivery,
\* it is only here that NoDelivery makes it.
Fairness ==
    /\ \A w \in Writers : WF_vars(WriterProgress(w))
    /\ \A j \in Jobs : SF_vars(JobProgress(j))
    /\ WF_vars(NightProgress)

FairSpec == Spec /\ Fairness

-----------------------------------------------------------------------------
(* Properties *)

\* A delivered message is written to memory at most once, over retries, raised
\* exceptions, killed calls, evidence judgements, replays and configuration
\* changes -- as long as no fault is in play and the row has not expired: an
\* expiry stamps what its SELECT saw and never asks for the evidence, so a
\* replay by id may write again what an expired row already had written.
HookWritesOnce ==
    \A m \in Msgs : kind[m] = "hook" /\ "expired" \notin row[m].decisions => held[m].writes <= 1

\* A row that claims a save has one: no closer ever stamps saved_l3 or
\* promoted_l4 for content that was never written, whatever goes wrong.
SavedClaimsAreTrue == \A m \in Msgs : row[m].status \in Saved => held[m].writes > 0

\* A recorded refusal of a delivered message is one: nothing of it was written.
\* (The expiry is excepted: it stamps what its SELECT saw, see Expire.)
RefusalsAreHonest ==
    \A m \in Msgs :
        /\ kind[m] = "hook" /\ row[m].status = "gated_out"
        /\ row[m].decisions \cap Configs # {} /\ "expired" \notin row[m].decisions
        => held[m].writes = 0

\* Violated: a row its own entry wrote is written.  Once remember and think have closed a row
\* as routed_direct and are over, memory holds the content.
DirectClaimsAreTrue ==
    \A m \in Msgs :
        kind[m] = "direct" /\ row[m].status = "routed_direct" /\ Passing(m) = {} => held[m].writes > 0

\* unaccounted_exit means what shared/l0.py says of it: NOTHING was written, so
\* a retry that is let in is the first to write (while it does, the mark stands).
UnaccountedMeansUnwritten ==
    \A m \in Msgs :
        kind[m] = "hook" /\ WriteNeverHappened(row[m]) /\ Passing(m) = {} => held[m].writes = 0

\* What a row's status says about memory is so: a save is one, a refusal is one,
\* and "nothing was written" is true while no retry is under way.
ClaimsAreTrue == SavedClaimsAreTrue /\ RefusalsAreHonest /\ UnaccountedMeansUnwritten

\* The ten-minute grace keeps every judge away from a row whose first writer is
\* still at work: sweep, replay, expiry and find_block leave it `received`.
GraceProtectsTheWriter ==
    \A w \in Writers :
        /\ writer[w].fresh /\ writer[w].pc \in {"captured", "canon", "stamp"}
        /\ kind[writer[w].msg] # "direct"
        => row[writer[w].msg].status = "received"

\* Two replays never distil the same row at the same time.
ReplaysExclude == \A m \in Msgs : Cardinality(Claimed(m)) <= 1

\* One row has one writer: its judges stay away from it while its first writer is
\* at work, and its replays from one another.
OneWriterAtATime == GraceProtectsTheWriter /\ ReplaysExclude

\* A written row never goes back into processing, although a replay decides from
\* a snapshot that may be as old as the whole run.
WrittenRowsStayOut ==
    [][\A m \in Msgs : row[m].status \in WRITTEN_STATUSES => row'[m].status # "processing"]_vars

\* A parked import sleeps until a replay names it: no sweep, expiry, tiering,
\* window replay or close moves it.
ParkedRowsSleep ==
    [][\A m \in Msgs : row[m].status = "parked" /\ row'[m].status # "parked" =>
         \E j \in Jobs : job[j].byId /\ job[j].msg = m]_vars

\* The clock moves when nothing runs, and that is time and again: a night and a
\* burst of deliveries take minutes, the clock's steps are days.
ClockMoves == SF_vars(TenMinutes) /\ SF_vars(TimePasses(Overdue)) /\ []<>Idle

\* No row stays `received` for ever: what its writer, the sweep and the replay
\* leave, the expiry closes.
ReceivedIsClosed ==
    ClockMoves => \A m \in Msgs : row[m].status = "received" ~> row[m].status # "received"

\* A message whose write never happened is taken up again by the nightly replay
\* while its row is within the seven-day window (the clock may stand there).
UnaccountedIsRescued ==
    \A m \in Msgs : WriteNeverHappened(row[m]) ~> ~ WriteNeverHappened(row[m]) \/ row[m].age \in {Overdue, Ancient}

\* Violated: a row stuck in processing is re-processed.
StuckIsFreed == \A m \in Msgs : row[m].status = "processing" ~> row[m].status # "processing"

\* Two deliveries run the same code and hashes only compare for equality, so
\* that a model checker may take one for the other.
Alike == Permutations(Writers) \cup Permutations(Configs)
=============================================================================
