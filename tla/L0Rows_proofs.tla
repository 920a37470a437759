----------------------------- MODULE L0Rows_proofs ----------------------------
(***************************************************************************)
(* Proofs about L0Rows, for any messages, deliveries, configurations and   *)
(* deaths, in four layers of one inductive invariant.                      *)
(*                                                                         *)
(* Whatever faults the environment produces (Wellformed, RowInv): types,   *)
(* written rows stay out of processing, parked rows sleep, and no row      *)
(* claims a save that never happened.  Without overlaps, overruns and      *)
(* backdated messages (GraceInv): the grace protects the first writer.     *)
(* With one command line beside the night (ClaimInv): one replay has a     *)
(* row.  Without any fault (AccountInv): a delivered message is written    *)
(* once and its status tells the truth.                                    *)
(*                                                                         *)
(* A step of a call or a job concerns one message: for each action a lemma *)
(* says what it changes (the Step lemmas), for each layer one says what a  *)
(* step owes to the invariant (Owes) and one that this is enough (Pays).   *)
(***************************************************************************)
EXTENDS L0Rows, TLAPS, FiniteSetTheorems

-----------------------------------------------------------------------------
(* Types *)

WriterPlaces == {"idle", "judge", "admitted", "captured", "canon", "stamp", "write", "finally"}
Writer == [pc : WriterPlaces, msg : Msgs \cup {None}, fresh : BOOLEAN, status : Status]

Decisions == SUBSET (Reasons \cup Configs)
Snapshot == [received : BOOLEAN, decisions : Decisions]
JobTasks == {"idle", "sweep", "replay", "expire", "tier"}
JobPlaces == {"next", "judge", "claim", "claimed", "stamp"}
Job == [task : JobTasks, pc : JobPlaces, todo : SUBSET Msgs, msg : Msgs \cup {None}, byId : BOOLEAN,
        hash : Configs \cup {None}, snap : [Msgs -> Snapshot], status : Status]

Judgements == Saved \cup {"gated_out"}

Typed ==
    /\ kind \in [Msgs -> Kinds]
    /\ row \in [Msgs -> Row]
    /\ held \in [Msgs -> Held]
    /\ config \in Configs
    /\ writer \in [Writers -> Writer]
    /\ job \in [Jobs -> Job]
    /\ deaths \in 0..MaxDeaths

\* A call that runs has a message, and where it stands says which path it is on.
CallFits(c) ==
    /\ c.pc = "idle" <=> c.msg = None
    /\ c.pc \in {"judge", "canon", "finally"} => kind[c.msg] = "hook"
    /\ c.pc \in {"captured", "stamp"} => kind[c.msg] \notin {"park", "service"}
    /\ c.pc = "judge" => c.status \in Judgements
    /\ c.pc = "stamp" /\ kind[c.msg] # "direct" => c.status \in Judgements \cup {"routed_direct"}

\* A job has a row at hand or is between two; only a replay goes past the verdict.
TaskFits(t) ==
    /\ t.pc = "next" <=> t.msg = None
    /\ t.msg \notin t.todo
    /\ t.pc = "judge" => t.task \in {"sweep", "replay"}
    /\ t.pc \in {"claim", "claimed", "stamp"} => t.task = "replay"
    /\ t.pc \in {"judge", "stamp"} => t.status \in Judgements
    /\ t.task \in {"replay", "expire"} => t.hash \in Configs
    /\ t.task = "idle" => t.todo = {}
    /\ t.byId => t.task = "replay"

Wellformed ==
    /\ Typed
    /\ \A w \in Writers : CallFits(writer[w])
    /\ \A j \in Jobs : TaskFits(job[j])

LEMMA TypeUnfolds == TypeOK <=> Typed
  BY DEF TypeOK, Typed, Writer, WriterPlaces, Job, JobTasks, JobPlaces, Snapshot, Decisions

-----------------------------------------------------------------------------
(* The operators *)

LEMMA NoMessage == None \notin Msgs /\ None \notin Configs
  BY JobsAssumption

LEMMA Sets ==
    /\ Saved \subseteq Judgements /\ Judgements \subseteq Status
    /\ WRITTEN_STATUSES \subseteq Status
    /\ "routed_direct" \in Status /\ "absent" \in Status /\ "received" \in Status /\ "parked" \in Status
    /\ "processing" \in Status /\ "archived" \in Status /\ "gated_out" \in Status
    /\ Configs \subseteq Reasons \cup Configs
    /\ \A c \in Configs : c \notin Reasons
  BY ConfigsAssumption DEF Saved, Judgements, WRITTEN_STATUSES, Status, Reasons

LEMMA Idles ==
    /\ NoRow \in Row /\ WriterIdle \in Writer /\ JobIdle \in Job /\ NoSnap \in Snapshot
    /\ WriterIdle.pc = "idle" /\ WriterIdle.msg = None
    /\ JobIdle.pc = "next" /\ JobIdle.msg = None /\ JobIdle.todo = {} /\ JobIdle.task = "idle"
    /\ JobIdle.byId = FALSE
<1>1. NoRow \in Row
  BY DEF NoRow, Row, Status, Fresh, Ancient
<1>2. NoSnap \in Snapshot
  BY DEF NoSnap, SnapOf, NoRow, Snapshot, Decisions
<1>3. WriterIdle \in Writer /\ WriterIdle.pc = "idle" /\ WriterIdle.msg = None
  BY DEF WriterIdle, Writer, WriterPlaces, Status
<1>4. /\ JobIdle.pc = "next" /\ JobIdle.msg = None /\ JobIdle.todo = {} /\ JobIdle.task = "idle"
      /\ JobIdle.byId = FALSE
  BY DEF JobIdle
<1>5. JobIdle \in Job
  BY <1>2, Zenon DEF JobIdle, Job, JobTasks, JobPlaces, Status
<1>. QED
  BY <1>1, <1>2, <1>3, <1>4, <1>5

\* What a closer makes of a row: the row as it is, or the status and the reason.
LEMMA CloseRowTyped ==
    ASSUME NEW r \in Row, NEW status \in Status, NEW why \in Decisions
    PROVE  CloseRow(r, status, why) \in Row
  BY DEF CloseRow, Row, Decisions

LEMMA OverwriteTyped ==
    ASSUME NEW r \in Row, NEW status \in Status, NEW decisions \in Decisions
    PROVE  Overwrite(r, status, decisions) \in Row
  BY DEF Overwrite, Row, Decisions

LEMMA EarnedTyped ==
    ASSUME NEW levels \in SUBSET Saved
    PROVE  /\ Earned(levels) \in Judgements
           /\ Earned(levels) = "gated_out" <=> levels = {}
  BY DEF Earned, Judgements, Saved

LEMMA VerdictTyped ==
    ASSUME Typed, NEW m \in Msgs
    PROVE  Verdict(m) \in Judgements /\ (Verdict(m) = "gated_out" <=> held[m].evidence = {})
<1>1. held[m].evidence \in SUBSET Saved
  BY DEF Typed, Held
<1>. QED
  BY <1>1, EarnedTyped DEF Verdict

LEMMA CloseByVerdictTyped ==
    ASSUME NEW r \in Row, NEW verdict \in Status
    PROVE  CloseByVerdict(r, verdict) \in Row
<1>1. {} \in Decisions /\ {"unaccounted"} \in Decisions
  BY DEF Decisions, Reasons
<1>. QED
  BY <1>1, CloseRowTyped DEF CloseByVerdict

LEMMA SnapOfReceived == ASSUME NEW r PROVE SnapOf(r).received <=> r.status = "received"
  BY DEF SnapOf

LEMMA SnapOfTyped == ASSUME NEW r \in Row PROVE SnapOf(r) \in Snapshot
  BY DEF SnapOf, Row, Snapshot, Decisions

\* A distillation touches one message, and only adds.
LEMMA DistilTyped ==
    ASSUME Typed, NEW m \in Msgs, NEW levels \in SUBSET Saved, NEW tagged \in BOOLEAN, Distil(m, levels, tagged)
    PROVE  /\ held' \in [Msgs -> Held]
           /\ \A n \in Msgs : n # m => held'[n] = held[n]
           /\ held'[m].evidence = held[m].evidence \cup (IF tagged THEN levels ELSE {})
           /\ held'[m].writes = IF levels = {} \/ held[m].writes = 2 THEN held[m].writes ELSE held[m].writes + 1
           /\ held[m].writes \in 0..2
<1>1. held[m] \in Held
  BY DEF Typed
<1>2. /\ held[m].evidence \cup (IF tagged THEN levels ELSE {}) \in SUBSET Saved
      /\ held[m].writes \in 0..2
      /\ (IF levels = {} \/ held[m].writes = 2 THEN held[m].writes ELSE held[m].writes + 1) \in 0..2
  BY <1>1 DEF Held
<1>. QED
  BY <1>1, <1>2 DEF Distil, Typed, Held

\* What a close makes of a row.
ClosedAs(r, c, status, why) ==
    /\ c \in Row /\ c.age = r.age /\ c.stuck = r.stuck
    /\ r.status = "received" \/ WriteNeverHappened(r) =>
          c.status = status /\ c.decisions = r.decisions \cup why
    /\ ~ (r.status = "received" \/ WriteNeverHappened(r)) => c = r

LEMMA CloseRowCloses ==
    ASSUME NEW r \in Row, NEW status \in Status, NEW why \in Decisions
    PROVE  ClosedAs(r, CloseRow(r, status, why), status, why)
  BY DEF ClosedAs, CloseRow, Row, Decisions

\* What an update without a precondition makes of it.
OverwrittenAs(r, c, status, decisions) ==
    /\ c \in Row /\ c.age = r.age
    /\ r.status = "archived" => c = r
    /\ r.status # "archived" => c.status = status /\ c.decisions = decisions /\ c.stuck = FALSE

LEMMA OverwriteOverwrites ==
    ASSUME NEW r \in Row, NEW status \in Status, NEW decisions \in Decisions
    PROVE  OverwrittenAs(r, Overwrite(r, status, decisions), status, decisions)
  BY DEF OverwrittenAs, Overwrite, Row, Decisions

-----------------------------------------------------------------------------
(* What the steps of a call change *)

\* A call on m leaves the other calls, the other messages and the jobs alone.
CallStep(w, m) ==
    /\ Wellformed'
    /\ m \in Msgs /\ kind' = kind /\ config' = config /\ job' = job
    /\ \A v \in Writers : v # w => writer'[v] = writer[v]
    /\ \A n \in Msgs : n # m => row'[n] = row[n] /\ held'[n] = held[n]

CallAt(w, pc, m, fresh, status) ==
    /\ writer'[w].pc = pc /\ writer'[w].msg = m
    /\ writer'[w].fresh = fresh /\ writer'[w].status = status

CallOver(w) == CallAt(w, "idle", None, FALSE, "absent")

\* What a distillation adds to what memory holds.
Adds(m, levels, tagged) ==
    /\ held'[m].evidence = held[m].evidence \cup (IF tagged THEN levels ELSE {})
    /\ held'[m].writes = IF levels = {} \/ held[m].writes = 2 THEN held[m].writes ELSE held[m].writes + 1

\* The call becomes c, and only m's row and what memory holds of m may change.
CallBecomes(w, m, c) ==
    /\ c \in Writer /\ CallFits(c) /\ writer' = [writer EXCEPT ![w] = c]
    /\ kind' = kind /\ config' = config /\ job' = job /\ deaths' \in 0..MaxDeaths
    /\ row' \in [Msgs -> Row] /\ held' \in [Msgs -> Held]
    /\ \A n \in Msgs : n # m => row'[n] = row[n] /\ held'[n] = held[n]

LEMMA CallFrame ==
    ASSUME Wellformed, NEW w \in Writers, NEW m \in Msgs, NEW c, CallBecomes(w, m, c)
    PROVE  CallStep(w, m) /\ writer'[w] = c
<1>1. writer' \in [Writers -> Writer] /\ writer'[w] = c /\ \A v \in Writers : v # w => writer'[v] = writer[v]
  BY DEF Wellformed, Typed, CallBecomes
<1>2. Typed'
  BY <1>1 DEF Wellformed, Typed, CallBecomes
<1>3. ASSUME NEW v \in Writers PROVE CallFits(writer[v])'
  BY <1>1 DEF Wellformed, CallFits, CallBecomes
<1>4. ASSUME NEW j \in Jobs PROVE TaskFits(job[j])'
  BY DEF Wellformed, TaskFits, CallBecomes
<1>. QED
  BY <1>1, <1>2, <1>3, <1>4 DEF CallStep, Wellformed, CallBecomes

\* A running call has a message, and its record is one.
LEMMA CallHasMessage ==
    ASSUME Wellformed, NEW w \in Writers, writer[w].pc # "idle"
    PROVE  writer[w].msg \in Msgs /\ writer[w] \in Writer
<1>1. writer[w] \in Writer /\ CallFits(writer[w])
  BY DEF Wellformed, Typed
<1>. QED
  BY <1>1 DEF Writer, CallFits

LEMMA FindNothingStep ==
    ASSUME Wellformed, NEW w \in Writers, NEW m \in Msgs, FindNothing(w, m)
    PROVE  /\ CallStep(w, m) /\ CallAt(w, "admitted", m, FALSE, "absent")
           /\ row' = row /\ held' = held
<1> DEFINE c == [WriterIdle EXCEPT !.pc = "admitted", !.msg = m]
<1>1. c \in Writer /\ c.pc = "admitted" /\ c.msg = m /\ c.fresh = FALSE /\ c.status = "absent"
  BY DEF WriterIdle, Writer, WriterPlaces, Status
<1>2. CallFits(c)
  BY <1>1, NoMessage DEF CallFits
<1>3. writer' = [writer EXCEPT ![w] = c] /\ UNCHANGED <<kind, row, held, config, job, deaths>>
  BY DEF FindNothing, Admit
<1> HIDE DEF c
<1>4. CallBecomes(w, m, c)
  BY <1>1, <1>2, <1>3 DEF CallBecomes, Wellformed, Typed
<1>5. CallStep(w, m) /\ writer'[w] = c
  BY <1>4, CallFrame
<1>. QED
  BY <1>1, <1>3, <1>5 DEF CallAt

LEMMA EnterStep ==
    ASSUME Wellformed, NEW w \in Writers, NEW m \in Msgs, Enter(w, m)
    PROVE  /\ CallStep(w, m) /\ CallAt(w, "admitted", m, FALSE, "absent")
           /\ row' = row /\ held' = held
<1> DEFINE c == [WriterIdle EXCEPT !.pc = "admitted", !.msg = m]
<1>1. c \in Writer /\ c.pc = "admitted" /\ c.msg = m /\ c.fresh = FALSE /\ c.status = "absent"
  BY DEF WriterIdle, Writer, WriterPlaces, Status
<1>2. CallFits(c)
  BY <1>1, NoMessage DEF CallFits
<1>3. writer' = [writer EXCEPT ![w] = c] /\ UNCHANGED <<kind, row, held, config, job, deaths>>
  BY DEF Enter, Admit
<1> HIDE DEF c
<1>4. CallBecomes(w, m, c)
  BY <1>1, <1>2, <1>3 DEF CallBecomes, Wellformed, Typed
<1>5. CallStep(w, m) /\ writer'[w] = c
  BY <1>4, CallFrame
<1>. QED
  BY <1>1, <1>3, <1>5 DEF CallAt

LEMMA FindReceivedStep ==
    ASSUME Wellformed, NEW w \in Writers, NEW m \in Msgs, FindReceived(w, m)
    PROVE  /\ CallStep(w, m) /\ CallAt(w, "judge", m, FALSE, Verdict(m))
           /\ row' = row /\ held' = held
<1> DEFINE c == [WriterIdle EXCEPT !.pc = "judge", !.msg = m, !.status = Verdict(m)]
<1>0. Verdict(m) \in Judgements
  BY VerdictTyped DEF Wellformed
<1>1. c \in Writer /\ c.pc = "judge" /\ c.msg = m /\ c.fresh = FALSE /\ c.status = Verdict(m)
  BY <1>0, Sets DEF WriterIdle, Writer, WriterPlaces
<1>2. CallFits(c)
  BY <1>0, <1>1, NoMessage DEF CallFits, FindReceived
<1>3. writer' = [writer EXCEPT ![w] = c] /\ UNCHANGED <<kind, row, held, config, job, deaths>>
  BY DEF FindReceived
<1> HIDE DEF c
<1>4. CallBecomes(w, m, c)
  BY <1>1, <1>2, <1>3 DEF CallBecomes, Wellformed, Typed
<1>5. CallStep(w, m) /\ writer'[w] = c
  BY <1>4, CallFrame
<1>. QED
  BY <1>1, <1>3, <1>5 DEF CallAt

\* The three ways a running call goes on.
LEMMA Moves ==
    ASSUME Wellformed, NEW w \in Writers, NEW pc \in WriterPlaces, MoveTo(w, pc)
    PROVE  \E c \in Writer : /\ writer' = [writer EXCEPT ![w] = c]
                             /\ c.pc = pc /\ c.msg = writer[w].msg
                             /\ c.fresh = writer[w].fresh /\ c.status = writer[w].status
<1> DEFINE c == [writer[w] EXCEPT !.pc = pc]
<1>1. writer[w] \in Writer
  BY DEF Wellformed, Typed
<1>2. /\ c \in Writer /\ c.pc = pc /\ c.msg = writer[w].msg
      /\ c.fresh = writer[w].fresh /\ c.status = writer[w].status
  BY <1>1 DEF Writer
<1>3. writer' = [writer EXCEPT ![w] = c]
  BY DEF MoveTo
<1>. QED
  BY <1>2, <1>3

LEMMA Decides ==
    ASSUME Wellformed, NEW w \in Writers, NEW status \in Status, Outcome(w, status)
    PROVE  \E c \in Writer : /\ writer' = [writer EXCEPT ![w] = c]
                             /\ c.pc = "stamp" /\ c.msg = writer[w].msg
                             /\ c.fresh = writer[w].fresh /\ c.status = status
<1> DEFINE c == [writer[w] EXCEPT !.pc = "stamp", !.status = status]
<1>1. writer[w] \in Writer
  BY DEF Wellformed, Typed
<1>2. c \in Writer /\ c.pc = "stamp" /\ c.msg = writer[w].msg /\ c.fresh = writer[w].fresh /\ c.status = status
  BY <1>1 DEF Writer, WriterPlaces
<1>3. writer' = [writer EXCEPT ![w] = c]
  BY <1>1 DEF Outcome, Wellformed, Typed, Writer
<1>. QED
  BY <1>2, <1>3

LEMMA Leaves ==
    ASSUME NEW w \in Writers, Done(w)
    PROVE  \E c \in Writer : /\ writer' = [writer EXCEPT ![w] = c]
                             /\ c.pc = "idle" /\ c.msg = None /\ c.fresh = FALSE /\ c.status = "absent"
  BY Idles DEF Done, WriterIdle

LEMMA GateRefusesStep ==
    ASSUME Wellformed, NEW w \in Writers, GateRefuses(w), NEW m, m = writer[w].msg
    PROVE  /\ CallStep(w, m) /\ CallAt(w, "stamp", m, writer[w].fresh, "gated_out")
           /\ row' = row /\ held' = held
<1>1. m \in Msgs
  BY CallHasMessage DEF GateRefuses
<1>2. PICK c \in Writer : /\ writer' = [writer EXCEPT ![w] = c]
                          /\ c.pc = "stamp" /\ c.msg = m /\ c.fresh = writer[w].fresh /\ c.status = "gated_out"
  BY Decides, Sets DEF GateRefuses
<1>3. CallFits(c)
  BY <1>1, <1>2, NoMessage DEF CallFits, GateRefuses, Judgements
<1>4. UNCHANGED <<kind, row, held, config, job, deaths>>
  BY DEF GateRefuses
<1>5. CallBecomes(w, m, c)
  BY <1>1, <1>2, <1>3, <1>4 DEF CallBecomes, Wellformed, Typed
<1>6. CallStep(w, m) /\ writer'[w] = c
  BY <1>1, <1>5, CallFrame
<1>. QED
  BY <1>2, <1>4, <1>6 DEF CallAt

LEMMA NoManagerStep ==
    ASSUME Wellformed, NEW w \in Writers, NoManager(w), NEW m, m = writer[w].msg
    PROVE  /\ CallStep(w, m) /\ CallAt(w, "stamp", m, writer[w].fresh, "routed_direct")
           /\ row' = row /\ held' = held
<1>1. m \in Msgs
  BY CallHasMessage DEF NoManager
<1>2. PICK c \in Writer : /\ writer' = [writer EXCEPT ![w] = c]
                          /\ c.pc = "stamp" /\ c.msg = m /\ c.fresh = writer[w].fresh /\ c.status = "routed_direct"
  BY Decides, Sets DEF NoManager
<1>3. CallFits(c)
  BY <1>1, <1>2, NoMessage DEF CallFits, NoManager
<1>4. UNCHANGED <<kind, row, held, config, job, deaths>>
  BY DEF NoManager
<1>5. CallBecomes(w, m, c)
  BY <1>1, <1>2, <1>3, <1>4 DEF CallBecomes, Wellformed, Typed
<1>6. CallStep(w, m) /\ writer'[w] = c
  BY <1>1, <1>5, CallFrame
<1>. QED
  BY <1>2, <1>4, <1>6 DEF CallAt

LEMMA DreamMarkerStep ==
    ASSUME Wellformed, NEW w \in Writers, DreamMarker(w), NEW m, m = writer[w].msg
    PROVE  /\ CallStep(w, m) /\ CallAt(w, "stamp", m, writer[w].fresh, "routed_direct")
           /\ row' = row /\ (held' = held \/ Adds(m, {"promoted_l4"}, FALSE))
<1>1. m \in Msgs
  BY CallHasMessage DEF DreamMarker
<1>2. PICK c \in Writer : /\ writer' = [writer EXCEPT ![w] = c]
                          /\ c.pc = "stamp" /\ c.msg = m /\ c.fresh = writer[w].fresh /\ c.status = "routed_direct"
  BY Decides, Sets DEF DreamMarker
<1>3. CallFits(c)
  BY <1>1, <1>2, NoMessage DEF CallFits, DreamMarker
<1>4. /\ held' \in [Msgs -> Held] /\ \A n \in Msgs : n # m => held'[n] = held[n]
      /\ held' = held \/ Adds(m, {"promoted_l4"}, FALSE)
  <2>1. CASE UNCHANGED held
    BY <2>1 DEF Wellformed, Typed
  <2>2. CASE Distil(m, {"promoted_l4"}, FALSE)
    BY <1>1, <2>2, DistilTyped DEF Adds, Saved, Wellformed
  <2>. QED
    BY <2>1, <2>2 DEF DreamMarker
<1>5. CallBecomes(w, m, c)
  BY <1>1, <1>2, <1>3, <1>4 DEF CallBecomes, Wellformed, Typed, DreamMarker
<1>6. CallStep(w, m) /\ writer'[w] = c
  BY <1>1, <1>5, CallFrame
<1>. QED
  BY <1>2, <1>4, <1>6 DEF CallAt, DreamMarker

LEMMA PipelineRoutesStep ==
    ASSUME Wellformed, NEW w \in Writers, NEW levels \in Routes, PipelineRoutes(w, levels), NEW m, m = writer[w].msg
    PROVE  /\ CallStep(w, m) /\ row' = row /\ Adds(m, levels, kind[m] # "agent")
           /\ IF kind[m] = "bridge" THEN CallOver(w) ELSE CallAt(w, "stamp", m, writer[w].fresh, Earned(levels))
<1>1. m \in Msgs /\ levels \in SUBSET Saved
  BY CallHasMessage DEF PipelineRoutes, Routes, Saved
<1>2. Earned(levels) \in Judgements
  BY <1>1, EarnedTyped
<1>3. PICK c \in Writer : /\ writer' = [writer EXCEPT ![w] = c]
                          /\ IF kind[m] = "bridge"
                             THEN c.pc = "idle" /\ c.msg = None /\ c.fresh = FALSE /\ c.status = "absent"
                             ELSE c.pc = "stamp" /\ c.msg = m /\ c.fresh = writer[w].fresh /\ c.status = Earned(levels)
  <2>1. CASE kind[m] = "bridge"
    BY <2>1, Leaves DEF PipelineRoutes
  <2>2. CASE kind[m] # "bridge"
    BY <1>2, <2>2, Decides, Sets DEF PipelineRoutes
  <2>. QED
    BY <2>1, <2>2
<1>4. CallFits(c)
  BY <1>1, <1>2, <1>3, NoMessage DEF CallFits, PipelineRoutes
<1>5. /\ held' \in [Msgs -> Held] /\ \A n \in Msgs : n # m => held'[n] = held[n]
      /\ Adds(m, levels, kind[m] # "agent")
  BY <1>1, DistilTyped DEF Adds, Wellformed, PipelineRoutes
<1>6. UNCHANGED <<kind, row, config, job, deaths>>
  BY DEF PipelineRoutes
<1>7. CallBecomes(w, m, c)
  BY <1>1, <1>3, <1>4, <1>5, <1>6 DEF CallBecomes, Wellformed, Typed
<1>8. CallStep(w, m) /\ writer'[w] = c
  BY <1>1, <1>7, CallFrame
<1>. QED
  BY <1>3, <1>5, <1>6, <1>8 DEF CallAt, CallOver

LEMMA PersonaCanonStep ==
    ASSUME Wellformed, NEW w \in Writers, PersonaCanon(w), NEW m, m = writer[w].msg
    PROVE  /\ CallStep(w, m) /\ CallAt(w, "canon", m, writer[w].fresh, writer[w].status)
           /\ row' = row /\ Adds(m, {"promoted_l4"}, FALSE)
<1>1. m \in Msgs
  BY CallHasMessage DEF PersonaCanon
<1>2. PICK c \in Writer : /\ writer' = [writer EXCEPT ![w] = c]
                          /\ c.pc = "canon" /\ c.msg = m /\ c.fresh = writer[w].fresh /\ c.status = writer[w].status
  BY Moves DEF PersonaCanon, WriterPlaces
<1>3. CallFits(c)
  BY <1>1, <1>2, NoMessage DEF CallFits, PersonaCanon
<1>4. /\ held' \in [Msgs -> Held] /\ \A n \in Msgs : n # m => held'[n] = held[n]
      /\ Adds(m, {"promoted_l4"}, FALSE)
  BY <1>1, DistilTyped DEF Adds, Wellformed, PersonaCanon, Saved
<1>5. UNCHANGED <<kind, row, config, job, deaths>>
  BY DEF PersonaCanon
<1>6. CallBecomes(w, m, c)
  BY <1>1, <1>2, <1>3, <1>4, <1>5 DEF CallBecomes, Wellformed, Typed
<1>7. CallStep(w, m) /\ writer'[w] = c
  BY <1>1, <1>6, CallFrame
<1>. QED
  BY <1>2, <1>4, <1>5, <1>7 DEF CallAt

LEMMA PipelineRaisesStep ==
    ASSUME Wellformed, NEW w \in Writers, PipelineRaises(w), NEW m, m = writer[w].msg
    PROVE  /\ CallStep(w, m) /\ row' = row
           /\ \/ held' = held
              \/ "partial" \in Faults /\ \E level \in Saved : Adds(m, {level}, kind[m] # "agent")
           /\ IF kind[m] = "hook" THEN CallAt(w, "finally", m, writer[w].fresh, writer[w].status) ELSE CallOver(w)
<1>1. m \in Msgs
  BY CallHasMessage DEF PipelineRaises
<1>2. PICK c \in Writer : /\ writer' = [writer EXCEPT ![w] = c]
                          /\ IF kind[m] = "hook"
                             THEN c.pc = "finally" /\ c.msg = m /\ c.fresh = writer[w].fresh /\ c.status = writer[w].status
                             ELSE c.pc = "idle" /\ c.msg = None /\ c.fresh = FALSE /\ c.status = "absent"
  <2>1. CASE kind[m] = "hook"
    BY <2>1, Moves DEF PipelineRaises, WriterPlaces
  <2>2. CASE kind[m] # "hook"
    BY <2>2, Leaves DEF PipelineRaises
  <2>. QED
    BY <2>1, <2>2
<1>3. CallFits(c)
  BY <1>1, <1>2, NoMessage DEF CallFits
<1>4. /\ held' \in [Msgs -> Held] /\ \A n \in Msgs : n # m => held'[n] = held[n]
      /\ \/ held' = held
         \/ "partial" \in Faults /\ \E level \in Saved : Adds(m, {level}, kind[m] # "agent")
  <2>1. CASE UNCHANGED held
    BY <2>1 DEF Wellformed, Typed
  <2>2. ASSUME "partial" \in Faults, NEW level \in Saved, Distil(m, {level}, kind[m] # "agent")
        PROVE  /\ held' \in [Msgs -> Held] /\ \A n \in Msgs : n # m => held'[n] = held[n]
               /\ Adds(m, {level}, kind[m] # "agent")
    <3>1. {level} \in SUBSET Saved /\ (kind[m] # "agent") \in BOOLEAN
      OBVIOUS
    <3>. QED
      BY <1>1, <2>2, <3>1, DistilTyped DEF Adds, Wellformed
  <2>. QED
    BY <2>1, <2>2 DEF PipelineRaises
<1>5. UNCHANGED <<kind, row, config, job, deaths>>
  BY DEF PipelineRaises
<1>6. CallBecomes(w, m, c)
  BY <1>1, <1>2, <1>3, <1>4, <1>5 DEF CallBecomes, Wellformed, Typed
<1>7. CallStep(w, m) /\ writer'[w] = c
  BY <1>1, <1>6, CallFrame
<1>. QED
  BY <1>2, <1>4, <1>5, <1>7 DEF CallAt, CallOver

LEMMA DirectWritesStep ==
    ASSUME Wellformed, NEW w \in Writers, DirectWrites(w), NEW m, m = writer[w].msg
    PROVE  /\ CallStep(w, m) /\ row' = row /\ Adds(m, {"promoted_l4"}, FALSE)
           /\ CallOver(w) \/ CallAt(w, "stamp", m, writer[w].fresh, writer[w].status)
<1>1. m \in Msgs
  BY CallHasMessage DEF DirectWrites
<1>2. PICK c \in Writer : /\ writer' = [writer EXCEPT ![w] = c]
                          /\ \/ c.pc = "idle" /\ c.msg = None /\ c.fresh = FALSE /\ c.status = "absent"
                             \/ c.pc = "stamp" /\ c.msg = m /\ c.fresh = writer[w].fresh /\ c.status = writer[w].status
  <2>1. CASE writer[w].pc = "write"
    BY <2>1, Leaves DEF DirectWrites
  <2>2. CASE writer[w].pc # "write"
    BY <2>2, Moves DEF DirectWrites, WriterPlaces
  <2>. QED
    BY <2>1, <2>2
<1>3. CallFits(c)
  BY <1>1, <1>2, NoMessage DEF CallFits, DirectWrites
<1>4. /\ held' \in [Msgs -> Held] /\ \A n \in Msgs : n # m => held'[n] = held[n]
      /\ Adds(m, {"promoted_l4"}, FALSE)
  BY <1>1, DistilTyped DEF Adds, Wellformed, DirectWrites, Saved
<1>5. UNCHANGED <<kind, row, config, job, deaths>>
  BY DEF DirectWrites
<1>6. CallBecomes(w, m, c)
  BY <1>1, <1>2, <1>3, <1>4, <1>5 DEF CallBecomes, Wellformed, Typed
<1>7. CallStep(w, m) /\ writer'[w] = c
  BY <1>1, <1>6, CallFrame
<1>. QED
  BY <1>2, <1>4, <1>5, <1>7 DEF CallAt, CallOver

LEMMA WriterDiesStep ==
    ASSUME Wellformed, NEW w \in Writers, WriterDies(w), NEW m, m = writer[w].msg
    PROVE  CallStep(w, m) /\ CallOver(w) /\ row' = row /\ held' = held
<1>1. m \in Msgs
  BY CallHasMessage DEF WriterDies, Busy
<1>2. PICK c \in Writer : /\ writer' = [writer EXCEPT ![w] = c]
                          /\ c.pc = "idle" /\ c.msg = None /\ c.fresh = FALSE /\ c.status = "absent"
  BY Leaves DEF WriterDies
<1>3. CallFits(c)
  BY <1>2, NoMessage DEF CallFits
<1>4. UNCHANGED <<kind, row, held, config, job>> /\ deaths' \in 0..MaxDeaths
  BY DeathsAssumption DEF WriterDies, Wellformed, Typed
<1>5. CallBecomes(w, m, c)
  BY <1>1, <1>2, <1>3, <1>4 DEF CallBecomes, Wellformed, Typed
<1>6. CallStep(w, m) /\ writer'[w] = c
  BY <1>1, <1>5, CallFrame
<1>. QED
  BY <1>2, <1>4, <1>6 DEF CallAt, CallOver

LEMMA RowSet ==
    ASSUME Typed, NEW m \in Msgs, NEW r \in Row, row' = [row EXCEPT ![m] = r]
    PROVE  row' \in [Msgs -> Row] /\ row'[m] = r /\ \A n \in Msgs : n # m => row'[n] = row[n]
  BY DEF Typed

\* The reason a verdict leaves.
Why(verdict) == IF verdict = "gated_out" THEN {"unaccounted"} ELSE {}

LEMMA VerdictCloses ==
    ASSUME NEW r \in Row, NEW verdict \in Status
    PROVE  ClosedAs(r, CloseByVerdict(r, verdict), verdict, Why(verdict))
<1>1. Why(verdict) \in Decisions
  BY DEF Why, Decisions, Reasons
<1>. QED
  BY <1>1, CloseRowCloses DEF CloseByVerdict, Why

LEMMA FindJudgesStep ==
    ASSUME Wellformed, NEW w \in Writers, FindJudges(w), NEW m, m = writer[w].msg
    PROVE  /\ CallStep(w, m) /\ held' = held
           /\ ClosedAs(row[m], row'[m], writer[w].status, Why(writer[w].status))
           /\ IF writer[w].status = "gated_out" THEN CallAt(w, "admitted", m, FALSE, "absent") ELSE CallOver(w)
<1>1. m \in Msgs /\ writer[w] \in Writer /\ row[m] \in Row
  BY CallHasMessage DEF FindJudges, Wellformed, Typed
<1>2. PICK c \in Writer : /\ writer' = [writer EXCEPT ![w] = c]
                          /\ c.fresh = FALSE /\ c.status = "absent"
                          /\ IF writer[w].status = "gated_out" THEN c.pc = "admitted" /\ c.msg = m
                                                               ELSE c.pc = "idle" /\ c.msg = None
  <2>1. CASE writer[w].status = "gated_out"
    <3> DEFINE c == [WriterIdle EXCEPT !.pc = "admitted", !.msg = m]
    <3>1. c \in Writer /\ c.pc = "admitted" /\ c.msg = m /\ c.fresh = FALSE /\ c.status = "absent"
      BY <1>1 DEF WriterIdle, Writer, WriterPlaces, Status
    <3>2. writer' = [writer EXCEPT ![w] = c]
      BY <2>1 DEF FindJudges, Admit
    <3> HIDE DEF c
    <3>. QED
      BY <2>1, <3>1, <3>2
  <2>2. CASE writer[w].status # "gated_out"
    BY <2>2, Leaves DEF FindJudges
  <2>. QED
    BY <2>1, <2>2
<1>3. CallFits(c)
  BY <1>1, <1>2, NoMessage DEF CallFits
<1>4. /\ row' \in [Msgs -> Row] /\ \A n \in Msgs : n # m => row'[n] = row[n]
      /\ ClosedAs(row[m], row'[m], writer[w].status, Why(writer[w].status))
  <2>1. ClosedAs(row[m], CloseByVerdict(row[m], writer[w].status), writer[w].status, Why(writer[w].status))
    BY <1>1, VerdictCloses DEF Writer
  <2>2. row' = [row EXCEPT ![m] = CloseByVerdict(row[m], writer[w].status)]
    BY DEF FindJudges
  <2>. QED
    BY <1>1, <2>1, <2>2, RowSet DEF ClosedAs, Wellformed
<1>5. UNCHANGED <<kind, held, config, job, deaths>>
  BY DEF FindJudges
<1>6. CallBecomes(w, m, c)
  BY <1>2, <1>3, <1>4, <1>5 DEF CallBecomes, Wellformed, Typed
<1>7. CallStep(w, m) /\ writer'[w] = c
  BY <1>1, <1>6, CallFrame
<1>. QED
  BY <1>2, <1>4, <1>5, <1>7 DEF CallAt, CallOver

LEMMA CaptureStep ==
    ASSUME Wellformed, NEW w \in Writers, Capture(w), NEW m, m = writer[w].msg
    PROVE  /\ CallStep(w, m) /\ held' = held
           /\ row[m].status # "absent" => row'[m] = row[m]
           /\ row[m].status = "absent" =>
                 /\ row'[m].status = (IF kind[m] = "park" THEN "parked" ELSE "received")
                 /\ row'[m].decisions = (IF kind[m] = "direct" THEN {"skip"} ELSE {})
                 /\ "backdated" \in Faults \/ row'[m].age = Fresh
           /\ IF kind[m] \in {"park", "service"} THEN CallOver(w)
              ELSE CallAt(w, "captured", m, row[m].status = "absent", writer[w].status)
<1>1. m \in Msgs /\ writer[w] \in Writer /\ row[m] \in Row
  BY CallHasMessage DEF Capture, Wellformed, Typed
<1>2. PICK c \in Writer : /\ writer' = [writer EXCEPT ![w] = c]
                          /\ IF kind[m] \in {"park", "service"}
                             THEN c.pc = "idle" /\ c.msg = None /\ c.fresh = FALSE /\ c.status = "absent"
                             ELSE /\ c.pc = "captured" /\ c.msg = m
                                  /\ c.fresh = (row[m].status = "absent") /\ c.status = writer[w].status
  <2>1. CASE kind[m] \in {"park", "service"}
    BY <2>1, Leaves DEF Capture
  <2>2. CASE kind[m] \notin {"park", "service"}
    <3> DEFINE c == [writer[w] EXCEPT !.pc = "captured", !.fresh = (row[m].status = "absent")]
    <3>1. /\ c \in Writer /\ c.pc = "captured" /\ c.msg = m
          /\ c.fresh = (row[m].status = "absent") /\ c.status = writer[w].status
      BY <1>1 DEF Writer, WriterPlaces
    <3>2. writer' = [writer EXCEPT ![w] = c]
      BY <1>1, <2>2 DEF Capture, Wellformed, Typed, Writer
    <3> HIDE DEF c
    <3>. QED
      BY <2>2, <3>1, <3>2
  <2>. QED
    BY <2>1, <2>2
<1>3. CallFits(c)
  BY <1>1, <1>2, NoMessage DEF CallFits
<1>4. /\ row' \in [Msgs -> Row] /\ \A n \in Msgs : n # m => row'[n] = row[n]
      /\ row[m].status # "absent" => row'[m] = row[m]
      /\ row[m].status = "absent" =>
            /\ row'[m].status = (IF kind[m] = "park" THEN "parked" ELSE "received")
            /\ row'[m].decisions = (IF kind[m] = "direct" THEN {"skip"} ELSE {})
            /\ "backdated" \in Faults \/ row'[m].age = Fresh
  <2>1. CASE row[m].status # "absent"
    BY <2>1 DEF Capture, Wellformed, Typed
  <2>2. CASE row[m].status = "absent"
    <3>1. PICK age \in (IF "backdated" \in Faults THEN Fresh..Overdue ELSE {Fresh}) :
             row' = [row EXCEPT ![m] =
                       [NoRow EXCEPT !.status = IF kind[m] = "park" THEN "parked" ELSE "received",
                                     !.decisions = IF kind[m] = "direct" THEN {"skip"} ELSE {},
                                     !.age = age]]
      BY <2>2 DEF Capture
    <3> DEFINE r == [NoRow EXCEPT !.status = IF kind[m] = "park" THEN "parked" ELSE "received",
                                  !.decisions = IF kind[m] = "direct" THEN {"skip"} ELSE {},
                                  !.age = age]
    <3>2. age \in Fresh..Ancient /\ ("backdated" \in Faults \/ age = Fresh)
      BY DEF Fresh, Overdue, Ancient
    <3>3. /\ r \in Row /\ r.age = age
          /\ r.status = (IF kind[m] = "park" THEN "parked" ELSE "received")
          /\ r.decisions = (IF kind[m] = "direct" THEN {"skip"} ELSE {})
      BY <3>2 DEF NoRow, Row, Status, Reasons
    <3> HIDE DEF r
    <3>4. row' = [row EXCEPT ![m] = r]
      BY <3>1 DEF r
    <3>. QED
      BY <1>1, <2>2, <3>2, <3>3, <3>4, RowSet DEF Wellformed
  <2>. QED
    BY <2>1, <2>2
<1>5. UNCHANGED <<kind, held, config, job, deaths>>
  BY DEF Capture
<1>6. CallBecomes(w, m, c)
  BY <1>2, <1>3, <1>4, <1>5 DEF CallBecomes, Wellformed, Typed
<1>7. CallStep(w, m) /\ writer'[w] = c
  BY <1>1, <1>6, CallFrame
<1>. QED
  BY <1>2, <1>4, <1>5, <1>7 DEF CallAt, CallOver

LEMMA PersonaStampStep ==
    ASSUME Wellformed, NEW w \in Writers, PersonaStamp(w), NEW m, m = writer[w].msg
    PROVE  /\ CallStep(w, m) /\ held' = held
           /\ OverwrittenAs(row[m], row'[m], "promoted_l4", row[m].decisions)
           /\ CallAt(w, "finally", m, writer[w].fresh, writer[w].status)
<1>1. m \in Msgs /\ writer[w] \in Writer /\ row[m] \in Row
  BY CallHasMessage DEF PersonaStamp, Wellformed, Typed
<1>2. PICK c \in Writer : /\ writer' = [writer EXCEPT ![w] = c]
                          /\ c.pc = "finally" /\ c.msg = m /\ c.fresh = writer[w].fresh /\ c.status = writer[w].status
  BY Moves DEF PersonaStamp, WriterPlaces
<1>3. CallFits(c)
  BY <1>1, <1>2, NoMessage DEF CallFits, PersonaStamp, Wellformed
<1>4. /\ row' \in [Msgs -> Row] /\ \A n \in Msgs : n # m => row'[n] = row[n]
      /\ OverwrittenAs(row[m], row'[m], "promoted_l4", row[m].decisions)
  <2>1. OverwrittenAs(row[m], Overwrite(row[m], "promoted_l4", row[m].decisions), "promoted_l4", row[m].decisions)
    BY <1>1, OverwriteOverwrites, Sets DEF Row, Decisions, Saved
  <2>2. row' = [row EXCEPT ![m] = Overwrite(row[m], "promoted_l4", row[m].decisions)]
    BY DEF PersonaStamp
  <2>. QED
    BY <1>1, <2>1, <2>2, RowSet DEF OverwrittenAs, Wellformed
<1>5. UNCHANGED <<kind, held, config, job, deaths>>
  BY DEF PersonaStamp
<1>6. CallBecomes(w, m, c)
  BY <1>2, <1>3, <1>4, <1>5 DEF CallBecomes, Wellformed, Typed
<1>7. CallStep(w, m) /\ writer'[w] = c
  BY <1>1, <1>6, CallFrame
<1>. QED
  BY <1>2, <1>4, <1>5, <1>7 DEF CallAt

LEMMA StampStep ==
    ASSUME Wellformed, NEW w \in Writers, Stamp(w), NEW m, m = writer[w].msg
    PROVE  /\ CallStep(w, m) /\ held' = held
           /\ ClosedAs(row[m], row'[m], writer[w].status, Refusal(writer[w].status))
           /\ IF kind[m] = "hook" THEN CallAt(w, "finally", m, writer[w].fresh, writer[w].status) ELSE CallOver(w)
<1>1. m \in Msgs /\ writer[w] \in Writer /\ row[m] \in Row
  BY CallHasMessage DEF Stamp, Wellformed, Typed
<1>2. PICK c \in Writer : /\ writer' = [writer EXCEPT ![w] = c]
                          /\ IF kind[m] = "hook"
                             THEN c.pc = "finally" /\ c.msg = m /\ c.fresh = writer[w].fresh /\ c.status = writer[w].status
                             ELSE c.pc = "idle" /\ c.msg = None /\ c.fresh = FALSE /\ c.status = "absent"
  <2>1. CASE kind[m] = "hook"
    BY <2>1, Moves DEF Stamp, WriterPlaces
  <2>2. CASE kind[m] # "hook"
    BY <2>2, Leaves DEF Stamp
  <2>. QED
    BY <2>1, <2>2
<1>3. CallFits(c)
  BY <1>1, <1>2, NoMessage DEF CallFits
<1>4. /\ row' \in [Msgs -> Row] /\ \A n \in Msgs : n # m => row'[n] = row[n]
      /\ ClosedAs(row[m], row'[m], writer[w].status, Refusal(writer[w].status))
  <2>1. Refusal(writer[w].status) \in Decisions
    BY DEF Refusal, Decisions, Wellformed, Typed
  <2>2. ClosedAs(row[m], CloseRow(row[m], writer[w].status, Refusal(writer[w].status)),
                 writer[w].status, Refusal(writer[w].status))
    BY <1>1, <2>1, CloseRowCloses DEF Writer
  <2>3. row' = [row EXCEPT ![m] = CloseRow(row[m], writer[w].status, Refusal(writer[w].status))]
    BY DEF Stamp
  <2>. QED
    BY <1>1, <2>2, <2>3, RowSet DEF ClosedAs, Wellformed
<1>5. UNCHANGED <<kind, held, config, job, deaths>>
  BY DEF Stamp
<1>6. CallBecomes(w, m, c)
  BY <1>2, <1>3, <1>4, <1>5 DEF CallBecomes, Wellformed, Typed
<1>7. CallStep(w, m) /\ writer'[w] = c
  BY <1>1, <1>6, CallFrame
<1>. QED
  BY <1>2, <1>4, <1>5, <1>7 DEF CallAt, CallOver

LEMMA CloseUnaccountedStep ==
    ASSUME Wellformed, NEW w \in Writers, CloseUnaccounted(w), NEW m, m = writer[w].msg
    PROVE  /\ CallStep(w, m) /\ held' = held /\ CallOver(w)
           /\ row[m].status # "received" => row'[m] = row[m]
           /\ row[m].status = "received" => ClosedAs(row[m], row'[m], "gated_out", {"unaccounted"})
<1>1. m \in Msgs /\ writer[w] \in Writer /\ row[m] \in Row
  BY CallHasMessage DEF CloseUnaccounted, Wellformed, Typed
<1>2. PICK c \in Writer : /\ writer' = [writer EXCEPT ![w] = c]
                          /\ c.pc = "idle" /\ c.msg = None /\ c.fresh = FALSE /\ c.status = "absent"
  BY Leaves DEF CloseUnaccounted
<1>3. CallFits(c)
  BY <1>2, NoMessage DEF CallFits
<1>4. /\ row' \in [Msgs -> Row] /\ \A n \in Msgs : n # m => row'[n] = row[n]
      /\ row[m].status # "received" => row'[m] = row[m]
      /\ row[m].status = "received" => ClosedAs(row[m], row'[m], "gated_out", {"unaccounted"})
  <2>1. CASE row[m].status # "received"
    BY <2>1 DEF CloseUnaccounted, Wellformed, Typed
  <2>2. CASE row[m].status = "received"
    <3>1. ClosedAs(row[m], CloseRow(row[m], "gated_out", {"unaccounted"}), "gated_out", {"unaccounted"})
      BY <1>1, CloseRowCloses, Sets DEF Decisions, Reasons
    <3>2. row' = [row EXCEPT ![m] = CloseRow(row[m], "gated_out", {"unaccounted"})]
      BY <2>2 DEF CloseUnaccounted
    <3>. QED
      BY <1>1, <2>2, <3>1, <3>2, RowSet DEF ClosedAs, Wellformed
  <2>. QED
    BY <2>1, <2>2
<1>5. UNCHANGED <<kind, held, config, job, deaths>>
  BY DEF CloseUnaccounted
<1>6. CallBecomes(w, m, c)
  BY <1>2, <1>3, <1>4, <1>5 DEF CallBecomes, Wellformed, Typed
<1>7. CallStep(w, m) /\ writer'[w] = c
  BY <1>1, <1>6, CallFrame
<1>. QED
  BY <1>2, <1>4, <1>5, <1>7 DEF CallAt, CallOver

LEMMA DirectStampsStep ==
    ASSUME Wellformed, NEW w \in Writers, DirectStamps(w), NEW m, m = writer[w].msg
    PROVE  /\ CallStep(w, m) /\ held' = held
           /\ ClosedAs(row[m], row'[m], "routed_direct", {})
           /\ CallOver(w) \/ CallAt(w, "write", m, writer[w].fresh, writer[w].status)
<1>1. m \in Msgs /\ writer[w] \in Writer /\ row[m] \in Row
  BY CallHasMessage DEF DirectStamps, Wellformed, Typed
<1>2. PICK c \in Writer : /\ writer' = [writer EXCEPT ![w] = c]
                          /\ \/ c.pc = "idle" /\ c.msg = None /\ c.fresh = FALSE /\ c.status = "absent"
                             \/ c.pc = "write" /\ c.msg = m /\ c.fresh = writer[w].fresh /\ c.status = writer[w].status
  <2>1. CASE writer[w].pc = "stamp"
    BY <2>1, Leaves DEF DirectStamps
  <2>2. CASE writer[w].pc # "stamp"
    BY <2>2, Moves DEF DirectStamps, WriterPlaces
  <2>. QED
    BY <2>1, <2>2
<1>3. CallFits(c)
  BY <1>1, <1>2, NoMessage DEF CallFits
<1>4. /\ row' \in [Msgs -> Row] /\ \A n \in Msgs : n # m => row'[n] = row[n]
      /\ ClosedAs(row[m], row'[m], "routed_direct", {})
  <2>1. ClosedAs(row[m], CloseRow(row[m], "routed_direct", {}), "routed_direct", {})
    BY <1>1, CloseRowCloses, Sets DEF Decisions
  <2>2. row' = [row EXCEPT ![m] = CloseRow(row[m], "routed_direct", {})]
    BY DEF DirectStamps
  <2>. QED
    BY <1>1, <2>1, <2>2, RowSet DEF ClosedAs, Wellformed
<1>5. UNCHANGED <<kind, held, config, job, deaths>>
  BY DEF DirectStamps
<1>6. CallBecomes(w, m, c)
  BY <1>2, <1>3, <1>4, <1>5 DEF CallBecomes, Wellformed, Typed
<1>7. CallStep(w, m) /\ writer'[w] = c
  BY <1>1, <1>6, CallFrame
<1>. QED
  BY <1>2, <1>4, <1>5, <1>7 DEF CallAt, CallOver

-----------------------------------------------------------------------------
(* What the steps of a job change *)

\* A job with m at hand leaves the other jobs, the other messages and the calls alone.
JobStep(j, m) ==
    /\ Wellformed'
    /\ m \in Msgs /\ kind' = kind /\ config' = config /\ writer' = writer
    /\ \A i \in Jobs : i # j => job'[i] = job[i]
    /\ \A n \in Msgs : n # m => row'[n] = row[n] /\ held'[n] = held[n]

\* The job goes on with m, or after it.
GoesOn(old, new, pc, m, status) ==
    /\ new.task = old.task /\ new.byId = old.byId /\ new.hash = old.hash
    /\ new.pc = pc /\ new.status = status
    /\ new.msg = (IF pc = "next" THEN None ELSE m)
    /\ new.todo = old.todo \ {m}
    /\ \A n \in Msgs : n # m \/ pc # "next" => new.snap[n] = old.snap[n]

JobBecomes(j, m, t) ==
    /\ t \in Job /\ TaskFits(t) /\ job' = [job EXCEPT ![j] = t]
    /\ kind' = kind /\ config' = config /\ writer' = writer /\ deaths' \in 0..MaxDeaths
    /\ row' \in [Msgs -> Row] /\ held' \in [Msgs -> Held]
    /\ \A n \in Msgs : n # m => row'[n] = row[n] /\ held'[n] = held[n]

LEMMA JobFrame ==
    ASSUME Wellformed, NEW j \in Jobs, NEW m \in Msgs, NEW t, JobBecomes(j, m, t)
    PROVE  JobStep(j, m) /\ job'[j] = t
<1>1. job' \in [Jobs -> Job] /\ job'[j] = t /\ \A i \in Jobs : i # j => job'[i] = job[i]
  BY DEF Wellformed, Typed, JobBecomes
<1>2. Typed'
  BY <1>1 DEF Wellformed, Typed, JobBecomes
<1>3. ASSUME NEW i \in Jobs PROVE TaskFits(job[i])'
  BY <1>1 DEF Wellformed, TaskFits, JobBecomes
<1>4. ASSUME NEW w \in Writers PROVE CallFits(writer[w])'
  BY DEF Wellformed, CallFits, JobBecomes
<1>. QED
  BY <1>1, <1>2, <1>3, <1>4 DEF JobStep, Wellformed, JobBecomes

LEMMA JobToGoesOn ==
    ASSUME Wellformed, NEW j \in Jobs, NEW m \in Msgs, NEW pc \in JobPlaces, NEW status \in Status,
           JobTo(j, pc, m, status)
    PROVE  \E t \in Job : job' = [job EXCEPT ![j] = t] /\ GoesOn(job[j], t, pc, m, status)
<1> DEFINE msg == IF pc = "next" THEN None ELSE m
           snap == IF pc = "next" THEN [job[j].snap EXCEPT ![m] = NoSnap] ELSE job[j].snap
           t == [job[j] EXCEPT !.pc = pc, !.msg = msg, !.status = status, !.todo = @ \ {m}, !.snap = snap]
<1>1. job[j] \in Job
  BY DEF Wellformed, Typed
<1>2. /\ snap \in [Msgs -> Snapshot] /\ msg \in Msgs \cup {None}
      /\ \A n \in Msgs : n # m \/ pc # "next" => snap[n] = job[j].snap[n]
  BY <1>1, Idles DEF Job
<1>3. job' = [job EXCEPT ![j] = t]
  BY <1>1 DEF JobTo, Wellformed, Typed, Job
<1> HIDE DEF snap
<1>4. /\ t \in Job /\ t.pc = pc /\ t.status = status /\ t.msg = msg /\ t.todo = job[j].todo \ {m} /\ t.snap = snap
      /\ t.task = job[j].task /\ t.byId = job[j].byId /\ t.hash = job[j].hash
  BY <1>1, <1>2 DEF Job
<1> HIDE DEF t
<1>. QED
  BY <1>2, <1>3, <1>4 DEF GoesOn

\* A job that has a row at hand.
LEMMA JobHasRow ==
    ASSUME Wellformed, NEW j \in Jobs, job[j].pc # "next"
    PROVE  job[j].msg \in Msgs /\ job[j].msg \notin job[j].todo /\ job[j] \in Job
<1>1. job[j] \in Job /\ TaskFits(job[j])
  BY DEF Wellformed, Typed
<1>. QED
  BY <1>1 DEF Job, TaskFits

LEMMA ReadEvidenceStep ==
    ASSUME Wellformed, NEW j \in Jobs, NEW m \in Msgs, ReadEvidence(j, m)
    PROVE  /\ JobStep(j, m) /\ row' = row /\ held' = held
           /\ IF Judgeable(m) THEN GoesOn(job[j], job'[j], "judge", m, Verdict(m))
                              ELSE GoesOn(job[j], job'[j], "next", m, "absent")
<1>1. Verdict(m) \in Judgements /\ Verdict(m) \in Status /\ job[j] \in Job /\ TaskFits(job[j])
  BY VerdictTyped, Sets DEF Wellformed, Typed
<1>2. PICK t \in Job : /\ job' = [job EXCEPT ![j] = t]
                       /\ IF Judgeable(m) THEN GoesOn(job[j], t, "judge", m, Verdict(m))
                                          ELSE GoesOn(job[j], t, "next", m, "absent")
  <2>1. CASE Judgeable(m)
    BY <1>1, <2>1, JobToGoesOn DEF ReadEvidence, JobPlaces
  <2>2. CASE ~ Judgeable(m)
    BY <2>2, JobToGoesOn, Sets DEF ReadEvidence, NextRow, JobPlaces
  <2>. QED
    BY <2>1, <2>2
<1>3. TaskFits(t)
  BY <1>1, <1>2, NoMessage DEF TaskFits, GoesOn, ReadEvidence, Classifies
<1>4. UNCHANGED <<kind, row, held, config, writer, deaths>>
  BY DEF ReadEvidence
<1>5. JobBecomes(j, m, t)
  BY <1>2, <1>3, <1>4 DEF JobBecomes, Wellformed, Typed
<1>6. JobStep(j, m) /\ job'[j] = t
  BY <1>5, JobFrame
<1>. QED
  BY <1>2, <1>4, <1>6

LEMMA CloseByEvidenceStep ==
    ASSUME Wellformed, NEW j \in Jobs, CloseByEvidence(j), NEW m, m = job[j].msg
    PROVE  /\ JobStep(j, m) /\ held' = held
           /\ ClosedAs(row[m], row'[m], job[j].status, Why(job[j].status))
           /\ IF job[j].task = "replay" /\ job[j].status = "gated_out"
              THEN GoesOn(job[j], job'[j], "claim", m, "absent")
              ELSE GoesOn(job[j], job'[j], "next", m, "absent")
<1>1. m \in Msgs /\ job[j] \in Job /\ TaskFits(job[j]) /\ row[m] \in Row /\ job[j].status \in Status
  BY JobHasRow DEF CloseByEvidence, Wellformed, Typed, Job
<1>2. PICK t \in Job : /\ job' = [job EXCEPT ![j] = t]
                       /\ IF job[j].task = "replay" /\ job[j].status = "gated_out"
                          THEN GoesOn(job[j], t, "claim", m, "absent")
                          ELSE GoesOn(job[j], t, "next", m, "absent")
  BY <1>1, JobToGoesOn, Sets DEF CloseByEvidence, NextRow, JobPlaces
<1>3. TaskFits(t)
  BY <1>1, <1>2, NoMessage DEF TaskFits, GoesOn, CloseByEvidence, Job
<1>4. /\ row' \in [Msgs -> Row] /\ \A n \in Msgs : n # m => row'[n] = row[n]
      /\ ClosedAs(row[m], row'[m], job[j].status, Why(job[j].status))
  <2>1. ClosedAs(row[m], CloseByVerdict(row[m], job[j].status), job[j].status, Why(job[j].status))
    BY <1>1, VerdictCloses
  <2>2. row' = [row EXCEPT ![m] = CloseByVerdict(row[m], job[j].status)]
    BY DEF CloseByEvidence
  <2>. QED
    BY <1>1, <2>1, <2>2, RowSet DEF ClosedAs, Wellformed
<1>5. UNCHANGED <<kind, held, config, writer, deaths>>
  BY DEF CloseByEvidence
<1>6. JobBecomes(j, m, t)
  BY <1>2, <1>3, <1>4, <1>5 DEF JobBecomes, Wellformed, Typed
<1>7. JobStep(j, m) /\ job'[j] = t
  BY <1>1, <1>6, JobFrame
<1>. QED
  BY <1>2, <1>4, <1>5, <1>7

\* The row at hand is left alone.
LEMMA PassOverStep ==
    ASSUME Wellformed, NEW j \in Jobs, SkipJudged(j) \/ ClaimBusy(j), NEW m, m = job[j].msg
    PROVE  JobStep(j, m) /\ row' = row /\ held' = held /\ GoesOn(job[j], job'[j], "next", m, "absent")
<1>1. m \in Msgs /\ job[j] \in Job /\ TaskFits(job[j])
  BY JobHasRow DEF SkipJudged, ClaimBusy, At, Wellformed, Typed
<1>2. PICK t \in Job : job' = [job EXCEPT ![j] = t] /\ GoesOn(job[j], t, "next", m, "absent")
  BY <1>1, JobToGoesOn, Sets DEF SkipJudged, ClaimBusy, NextRow, JobPlaces
<1>3. TaskFits(t)
  BY <1>1, <1>2, NoMessage DEF TaskFits, GoesOn, SkipJudged, ClaimBusy, At, Job
<1>4. UNCHANGED <<kind, row, held, config, writer, deaths>>
  BY DEF SkipJudged, ClaimBusy
<1>5. JobBecomes(j, m, t)
  BY <1>2, <1>3, <1>4 DEF JobBecomes, Wellformed, Typed
<1>6. JobStep(j, m) /\ job'[j] = t
  BY <1>1, <1>5, JobFrame
<1>. QED
  BY <1>2, <1>4, <1>6

LEMMA TakeRowStep ==
    ASSUME Wellformed, NEW j \in Jobs, NEW m \in Msgs, TakeRow(j, m)
    PROVE  JobStep(j, m) /\ row' = row /\ held' = held /\ GoesOn(job[j], job'[j], "claim", m, "absent")
<1>1. job[j] \in Job /\ TaskFits(job[j])
  BY DEF Wellformed, Typed
<1>2. PICK t \in Job : job' = [job EXCEPT ![j] = t] /\ GoesOn(job[j], t, "claim", m, "absent")
  BY <1>1, JobToGoesOn, Sets DEF TakeRow, JobPlaces
<1>3. TaskFits(t)
  BY <1>1, <1>2, NoMessage DEF TaskFits, GoesOn, TakeRow, At
<1>4. UNCHANGED <<kind, row, held, config, writer, deaths>>
  BY DEF TakeRow
<1>5. JobBecomes(j, m, t)
  BY <1>2, <1>3, <1>4 DEF JobBecomes, Wellformed, Typed
<1>6. JobStep(j, m) /\ job'[j] = t
  BY <1>5, JobFrame
<1>. QED
  BY <1>2, <1>4, <1>6

\* A replay's snapshot and hash are decisions.
LEMMA SnapTyped ==
    ASSUME Wellformed, NEW j \in Jobs, job[j].pc # "next", job[j].task = "replay"
    PROVE  /\ Snap(j) = job[j].snap[job[j].msg] /\ Snap(j) \in Snapshot
           /\ job[j].hash \in Configs /\ Snap(j).decisions \cup {job[j].hash} \in Decisions
<1>1. job[j].msg \in Msgs /\ job[j] \in Job /\ TaskFits(job[j])
  BY JobHasRow DEF Wellformed, Typed
<1>2. Snap(j) = job[j].snap[job[j].msg] /\ Snap(j) \in Snapshot
  BY <1>1 DEF Snap, Job
<1>3. job[j].hash \in Configs
  BY <1>1 DEF TaskFits
<1>. QED
  BY <1>2, <1>3 DEF Snapshot, Decisions

LEMMA SkipDirectStep ==
    ASSUME Wellformed, NEW j \in Jobs, SkipDirect(j), NEW m, m = job[j].msg
    PROVE  /\ JobStep(j, m) /\ held' = held
           /\ OverwrittenAs(row[m], row'[m], "routed_direct", row[m].decisions)
           /\ GoesOn(job[j], job'[j], "next", m, "absent")
<1>1. m \in Msgs /\ job[j] \in Job /\ TaskFits(job[j]) /\ row[m] \in Row
  BY JobHasRow DEF SkipDirect, At, Wellformed, Typed
<1>2. PICK t \in Job : job' = [job EXCEPT ![j] = t] /\ GoesOn(job[j], t, "next", m, "absent")
  BY <1>1, JobToGoesOn, Sets DEF SkipDirect, NextRow, JobPlaces
<1>3. TaskFits(t)
  BY <1>1, <1>2, NoMessage DEF TaskFits, GoesOn, SkipDirect, At, Job
<1>4. /\ row' \in [Msgs -> Row] /\ \A n \in Msgs : n # m => row'[n] = row[n]
      /\ OverwrittenAs(row[m], row'[m], "routed_direct", row[m].decisions)
  <2>1. OverwrittenAs(row[m], Overwrite(row[m], "routed_direct", row[m].decisions), "routed_direct", row[m].decisions)
    BY <1>1, OverwriteOverwrites, Sets DEF Row, Decisions
  <2>2. row' = [row EXCEPT ![m] = Overwrite(row[m], "routed_direct", row[m].decisions)]
    BY DEF SkipDirect
  <2>. QED
    BY <1>1, <2>1, <2>2, RowSet DEF OverwrittenAs, Wellformed
<1>5. UNCHANGED <<kind, held, config, writer, deaths>>
  BY DEF SkipDirect
<1>6. JobBecomes(j, m, t)
  BY <1>2, <1>3, <1>4, <1>5 DEF JobBecomes, Wellformed, Typed
<1>7. JobStep(j, m) /\ job'[j] = t
  BY <1>1, <1>6, JobFrame
<1>. QED
  BY <1>2, <1>4, <1>5, <1>7

LEMMA ClaimStep ==
    ASSUME Wellformed, NEW j \in Jobs, Claim(j), NEW m, m = job[j].msg
    PROVE  /\ JobStep(j, m) /\ held' = held
           /\ ~ Claimable(j, row[m]) => row' = row /\ GoesOn(job[j], job'[j], "next", m, "absent")
           /\ Claimable(j, row[m]) =>
                 /\ NoDelivery(m) /\ GoesOn(job[j], job'[j], "claimed", m, "absent")
                 /\ row'[m].status = "processing" /\ row'[m].stuck = FALSE
                 /\ row'[m].decisions = row[m].decisions /\ row'[m].age = row[m].age
<1>1. m \in Msgs /\ job[j] \in Job /\ TaskFits(job[j]) /\ row[m] \in Row
  BY JobHasRow DEF Claim, At, Wellformed, Typed
<1>2. PICK t \in Job : /\ job' = [job EXCEPT ![j] = t]
                       /\ IF Claimable(j, row[m]) THEN GoesOn(job[j], t, "claimed", m, "absent")
                                                  ELSE GoesOn(job[j], t, "next", m, "absent")
  <2>1. CASE Claimable(j, row[m])
    BY <1>1, <2>1, JobToGoesOn, Sets DEF Claim, JobPlaces
  <2>2. CASE ~ Claimable(j, row[m])
    BY <1>1, <2>2, JobToGoesOn, Sets DEF Claim, NextRow, JobPlaces
  <2>. QED
    BY <2>1, <2>2
<1>3. TaskFits(t)
  BY <1>1, <1>2, NoMessage DEF TaskFits, GoesOn, Claim, At, Job
<1>4. /\ row' \in [Msgs -> Row] /\ \A n \in Msgs : n # m => row'[n] = row[n]
      /\ ~ Claimable(j, row[m]) => row' = row
      /\ Claimable(j, row[m]) =>
            /\ row'[m].status = "processing" /\ row'[m].stuck = FALSE
            /\ row'[m].decisions = row[m].decisions /\ row'[m].age = row[m].age
  <2>1. CASE Claimable(j, row[m])
    <3> DEFINE r == [row[m] EXCEPT !.status = "processing", !.stuck = FALSE]
    <3>1. /\ r \in Row /\ r.status = "processing" /\ r.stuck = FALSE
          /\ r.decisions = row[m].decisions /\ r.age = row[m].age
      BY <1>1, Sets DEF Row
    <3>2. row' = [row EXCEPT ![m] = r]
      BY <1>1, <2>1 DEF Claim, Wellformed, Typed, Row
    <3> HIDE DEF r
    <3>. QED
      BY <1>1, <2>1, <3>1, <3>2, RowSet DEF Wellformed
  <2>2. CASE ~ Claimable(j, row[m])
    BY <2>2 DEF Claim, Wellformed, Typed
  <2>. QED
    BY <2>1, <2>2
<1>5. UNCHANGED <<kind, held, config, writer, deaths>> /\ (Claimable(j, row[m]) => NoDelivery(m))
  BY DEF Claim
<1>6. JobBecomes(j, m, t)
  BY <1>2, <1>3, <1>4, <1>5 DEF JobBecomes, Wellformed, Typed
<1>7. JobStep(j, m) /\ job'[j] = t
  BY <1>1, <1>6, JobFrame
<1>. QED
  BY <1>2, <1>4, <1>5, <1>7

\* The end of a replay, refused by the gate or stamped.
LEMMA ReplayEndsStep ==
    ASSUME Wellformed, NEW j \in Jobs, NEW status \in Judgements,
           \/ ReplayGateRefuses(j) /\ status = "gated_out"
           \/ ReplayStamps(j) /\ status = job[j].status,
           NEW m, m = job[j].msg
    PROVE  /\ JobStep(j, m) /\ held' = held
           /\ OverwrittenAs(row[m], row'[m], status, job[j].snap[m].decisions \cup {job[j].hash})
           /\ GoesOn(job[j], job'[j], "next", m, "absent")
<1>0. job[j].task = "replay" /\ job[j].pc \in {"claimed", "stamp"}
  BY DEF ReplayGateRefuses, ReplayStamps, At
<1>1. m \in Msgs /\ job[j] \in Job /\ TaskFits(job[j]) /\ row[m] \in Row
  BY <1>0, JobHasRow DEF Wellformed, Typed
<1>2. PICK t \in Job : job' = [job EXCEPT ![j] = t] /\ GoesOn(job[j], t, "next", m, "absent")
  BY <1>1, JobToGoesOn, Sets DEF ReplayGateRefuses, ReplayStamps, NextRow, JobPlaces
<1>3. TaskFits(t)
  BY <1>0, <1>1, <1>2, NoMessage DEF TaskFits, GoesOn, Job
<1>4. /\ row' \in [Msgs -> Row] /\ \A n \in Msgs : n # m => row'[n] = row[n]
      /\ OverwrittenAs(row[m], row'[m], status, job[j].snap[m].decisions \cup {job[j].hash})
  <2> DEFINE decisions == Snap(j).decisions \cup {job[j].hash}
  <2>1. decisions \in Decisions /\ decisions = job[j].snap[m].decisions \cup {job[j].hash}
    BY <1>0, SnapTyped
  <2>2. row' = [row EXCEPT ![m] = Overwrite(row[m], status, decisions)]
    BY DEF ReplayGateRefuses, ReplayStamps, ReplayVerdict
  <2> HIDE DEF decisions
  <2>3. OverwrittenAs(row[m], Overwrite(row[m], status, decisions), status, decisions)
    BY <1>1, <2>1, OverwriteOverwrites, Sets
  <2>. QED
    BY <1>1, <2>1, <2>2, <2>3, RowSet DEF OverwrittenAs, Wellformed
<1>5. UNCHANGED <<kind, held, config, writer, deaths>>
  BY DEF ReplayGateRefuses, ReplayStamps
<1>6. JobBecomes(j, m, t)
  BY <1>2, <1>3, <1>4, <1>5 DEF JobBecomes, Wellformed, Typed
<1>7. JobStep(j, m) /\ job'[j] = t
  BY <1>1, <1>6, JobFrame
<1>. QED
  BY <1>2, <1>4, <1>5, <1>7

LEMMA ReplayRoutesStep ==
    ASSUME Wellformed, NEW j \in Jobs, NEW levels \in Routes, ReplayRoutes(j, levels), NEW m, m = job[j].msg
    PROVE  /\ JobStep(j, m) /\ row' = row /\ Adds(m, levels, TRUE)
           /\ GoesOn(job[j], job'[j], "stamp", m, Earned(levels))
<1>1. m \in Msgs /\ job[j] \in Job /\ TaskFits(job[j]) /\ levels \in SUBSET Saved
  BY JobHasRow DEF ReplayRoutes, At, Wellformed, Typed, Routes, Saved
<1>2. Earned(levels) \in Judgements /\ Earned(levels) \in Status
  BY <1>1, EarnedTyped, Sets
<1>3. PICK t \in Job : job' = [job EXCEPT ![j] = t] /\ GoesOn(job[j], t, "stamp", m, Earned(levels))
  BY <1>1, <1>2, JobToGoesOn DEF ReplayRoutes, JobPlaces
<1>4. TaskFits(t)
  BY <1>1, <1>2, <1>3, NoMessage DEF TaskFits, GoesOn, ReplayRoutes, At, Job
<1>5. /\ held' \in [Msgs -> Held] /\ \A n \in Msgs : n # m => held'[n] = held[n]
      /\ Adds(m, levels, TRUE)
  BY <1>1, DistilTyped DEF Adds, Wellformed, ReplayRoutes
<1>6. UNCHANGED <<kind, row, config, writer, deaths>>
  BY DEF ReplayRoutes
<1>7. JobBecomes(j, m, t)
  BY <1>3, <1>4, <1>5, <1>6 DEF JobBecomes, Wellformed, Typed
<1>8. JobStep(j, m) /\ job'[j] = t
  BY <1>1, <1>7, JobFrame
<1>. QED
  BY <1>3, <1>5, <1>6, <1>8

LEMMA ReplayFindsKnownStep ==
    ASSUME Wellformed, NEW j \in Jobs, ReplayFindsKnown(j), NEW m, m = job[j].msg
    PROVE  /\ JobStep(j, m) /\ row' = row /\ held' = held
           /\ GoesOn(job[j], job'[j], "stamp", m, "promoted_l4")
<1>1. m \in Msgs /\ job[j] \in Job /\ TaskFits(job[j])
  BY JobHasRow DEF ReplayFindsKnown, At, Wellformed, Typed
<1>2. "promoted_l4" \in Judgements /\ "promoted_l4" \in Status
  BY DEF Judgements, Saved, Status, WRITTEN_STATUSES
<1>3. PICK t \in Job : job' = [job EXCEPT ![j] = t] /\ GoesOn(job[j], t, "stamp", m, "promoted_l4")
  BY <1>1, <1>2, JobToGoesOn DEF ReplayFindsKnown, JobPlaces
<1>4. TaskFits(t)
  BY <1>1, <1>2, <1>3, NoMessage DEF TaskFits, GoesOn, ReplayFindsKnown, At, Job
<1>5. UNCHANGED <<kind, row, held, config, writer, deaths>>
  BY DEF ReplayFindsKnown
<1>6. JobBecomes(j, m, t)
  BY <1>3, <1>4, <1>5 DEF JobBecomes, Wellformed, Typed
<1>7. JobStep(j, m) /\ job'[j] = t
  BY <1>1, <1>6, JobFrame
<1>. QED
  BY <1>3, <1>5, <1>7

-----------------------------------------------------------------------------
(* What starts and ends a task, and what concerns many rows *)

\* Only job j changes.
JobAlone(j) ==
    /\ Wellformed'
    /\ kind' = kind /\ config' = config /\ writer' = writer /\ row' = row /\ held' = held
    /\ \A i \in Jobs : i # j => job'[i] = job[i]

Started(j, task, todo, byId) ==
    /\ job'[j].task = task /\ job'[j].todo = todo /\ job'[j].byId = byId
    /\ job'[j].pc = "next" /\ job'[j].msg = None
    /\ \A n \in todo : job'[j].snap[n] = SnapOf(row[n])

LEMMA JobAloneFrame ==
    ASSUME Wellformed, NEW j \in Jobs, NEW t \in Job, TaskFits(t), job' = [job EXCEPT ![j] = t],
           UNCHANGED <<kind, row, held, config, writer>>, deaths' \in 0..MaxDeaths
    PROVE  JobAlone(j) /\ job'[j] = t
<1>1. job' \in [Jobs -> Job] /\ job'[j] = t /\ \A i \in Jobs : i # j => job'[i] = job[i]
  BY DEF Wellformed, Typed
<1>2. Typed'
  BY <1>1 DEF Wellformed, Typed
<1>3. ASSUME NEW i \in Jobs PROVE TaskFits(job[i])'
  BY <1>1 DEF Wellformed, TaskFits
<1>4. ASSUME NEW w \in Writers PROVE CallFits(writer[w])'
  BY DEF Wellformed, CallFits
<1>. QED
  BY <1>1, <1>2, <1>3, <1>4 DEF JobAlone, Wellformed

LEMMA StartStep ==
    ASSUME Wellformed, NEW j \in Jobs, NEW task \in JobTasks, NEW todo \in SUBSET Msgs, NEW byId \in BOOLEAN,
           byId => task = "replay", task = "idle" => todo = {},
           Start(j, task, todo, byId), UNCHANGED <<kind, row, held, config, writer, deaths>>
    PROVE  JobAlone(j) /\ Started(j, task, todo, byId)
<1> DEFINE snap == [m \in Msgs |-> IF m \in todo THEN SnapOf(row[m]) ELSE NoSnap]
           hash == IF task \in {"replay", "expire"} THEN config ELSE JobIdle.hash
           t == [JobIdle EXCEPT !.task = task, !.todo = todo, !.byId = byId, !.hash = hash, !.snap = snap]
<1>1. snap \in [Msgs -> Snapshot] /\ \A n \in todo : snap[n] = SnapOf(row[n])
  BY Idles, SnapOfTyped DEF Wellformed, Typed
<1>2. hash \in Configs \cup {None} /\ (task \in {"replay", "expire"} => hash \in Configs)
  BY DEF Wellformed, Typed, JobIdle
<1>3. job' = [job EXCEPT ![j] = t]
  BY DEF Start
<1> HIDE DEF snap, hash
<1>4. /\ t \in Job /\ t.task = task /\ t.todo = todo /\ t.byId = byId /\ t.hash = hash /\ t.snap = snap
      /\ t.pc = "next" /\ t.msg = None
  BY <1>1, <1>2, Idles DEF Job
<1> HIDE DEF t
<1>5. TaskFits(t)
  BY <1>2, <1>4, NoMessage DEF TaskFits
<1>6. deaths' \in 0..MaxDeaths
  BY DEF Wellformed, Typed
<1>7. JobAlone(j) /\ job'[j] = t
  BY <1>3, <1>4, <1>5, <1>6, JobAloneFrame
<1>. QED
  BY <1>1, <1>4, <1>7 DEF Started

LEMMA NightTurns ==
    ASSUME Wellformed, NEW task, NEW next \in JobTasks, NEW todo \in SUBSET Msgs, next = "idle" => todo = {},
           NightStep(task, next, todo)
    PROVE  /\ JobAlone(Nightly) /\ Started(Nightly, next, todo, FALSE) /\ Nightly \in Jobs
           /\ job[Nightly].task = task /\ job[Nightly].todo = {} /\ job[Nightly].msg = None
<1>1. Nightly \in Jobs
  BY JobsAssumption
<1>2. JobAlone(Nightly) /\ Started(Nightly, next, todo, FALSE)
  BY <1>1, StartStep DEF NightStep
<1>3. TaskFits(job[Nightly])
  BY <1>1 DEF Wellformed
<1>. QED
  BY <1>1, <1>2, <1>3 DEF NightStep, At, TaskFits

LEMMA CommandTurns ==
    ASSUME Wellformed, NEW j \in Jobs, CommandStarts(j)
    PROVE  /\ JobAlone(j) /\ j # Nightly /\ job[j].task = "idle"
           /\ \/ Started(j, "replay", Window, FALSE)
              \/ Started(j, "replay", Named, TRUE)
              \/ Started(j, "expire", Expired, FALSE)
<1>1. UNCHANGED <<kind, row, held, config, writer, deaths>> /\ j # Nightly /\ job[j].task = "idle"
  BY DEF CommandStarts
<1>2. /\ Window \in SUBSET Msgs /\ Named \in SUBSET Msgs /\ Expired \in SUBSET Msgs
      /\ "replay" \in JobTasks /\ "expire" \in JobTasks
  BY DEF Window, Named, Expired, JobTasks
<1>3. CASE Start(j, "replay", Window, FALSE)
  BY <1>1, <1>2, <1>3, StartStep
<1>4. CASE Start(j, "replay", Named, TRUE)
  BY <1>1, <1>2, <1>4, StartStep
<1>5. CASE Start(j, "expire", Expired, FALSE)
  BY <1>1, <1>2, <1>5, StartStep
<1>. QED
  BY <1>3, <1>4, <1>5 DEF CommandStarts

LEMMA TaskEnds ==
    ASSUME Wellformed, NEW j \in Jobs, CommandEnds(j) \/ JobDies(j)
    PROVE  JobAlone(j) /\ job'[j] = JobIdle
<1>1. TaskFits(JobIdle)
  BY Idles, NoMessage DEF TaskFits
<1>2. /\ UNCHANGED <<kind, row, held, config, writer>> /\ job' = [job EXCEPT ![j] = JobIdle]
      /\ deaths' \in 0..MaxDeaths
  BY DeathsAssumption DEF CommandEnds, JobDies, Wellformed, Typed
<1>. QED
  BY <1>1, <1>2, Idles, JobAloneFrame

\* A task deals with all its rows at once.
Drained(j) ==
    /\ Wellformed'
    /\ kind' = kind /\ config' = config /\ writer' = writer /\ held' = held
    /\ \A i \in Jobs : i # j => job'[i] = job[i]
    /\ job'[j].task = job[j].task /\ job'[j].byId = job[j].byId
    /\ job'[j].pc = "next" /\ job'[j].msg = None /\ job'[j].todo = {}
    /\ job[j].pc = "next" /\ job[j].msg = None

LEMMA DrainFrame ==
    ASSUME Wellformed, NEW j \in Jobs, job[j].pc = "next", Drain(j), row' \in [Msgs -> Row],
           UNCHANGED <<kind, held, config, writer, deaths>>
    PROVE  Drained(j)
<1> DEFINE t == [job[j] EXCEPT !.todo = {}, !.snap = [m \in Msgs |-> NoSnap]]
<1>0. job[j] \in Job /\ TaskFits(job[j])
  BY DEF Wellformed, Typed
<1>1. /\ t \in Job /\ t.task = job[j].task /\ t.byId = job[j].byId /\ t.hash = job[j].hash
      /\ t.pc = job[j].pc /\ t.msg = job[j].msg /\ t.status = job[j].status /\ t.todo = {}
  BY <1>0, Idles DEF Job
<1>2. job' = [job EXCEPT ![j] = t]
  BY <1>0 DEF Drain, Wellformed, Typed, Job
<1> HIDE DEF t
<1>3. TaskFits(t)
  BY <1>0, <1>1 DEF TaskFits
<1>4. job' \in [Jobs -> Job] /\ job'[j] = t /\ \A i \in Jobs : i # j => job'[i] = job[i]
  BY <1>1, <1>2 DEF Wellformed, Typed
<1>5. Typed'
  BY <1>4 DEF Wellformed, Typed
<1>6. ASSUME NEW i \in Jobs PROVE TaskFits(job[i])'
  BY <1>3, <1>4 DEF Wellformed, TaskFits
<1>7. ASSUME NEW w \in Writers PROVE CallFits(writer[w])'
  BY DEF Wellformed, CallFits
<1>. QED
  BY <1>0, <1>1, <1>4, <1>5, <1>6, <1>7 DEF Drained, Wellformed, TaskFits

LEMMA ExpireStep ==
    ASSUME Wellformed, NEW j \in Jobs, Expire(j)
    PROVE  /\ Drained(j) /\ job[j].task = "expire" /\ job[j].hash \in Configs
           /\ \A m \in Msgs : m \notin job[j].todo => row'[m] = row[m]
           /\ \A m \in job[j].todo :
                 OverwrittenAs(row[m], row'[m], "gated_out", job[j].snap[m].decisions \cup {"expired", job[j].hash})
<1>1. job[j] \in Job /\ TaskFits(job[j]) /\ job[j].pc = "next" /\ job[j].task = "expire"
  BY DEF Wellformed, Typed, Expire, At
<1>2. job[j].hash \in Configs /\ job[j].todo \subseteq Msgs
  BY <1>1 DEF TaskFits, Job
<1>3. ASSUME NEW m \in Msgs, m \notin job[j].todo PROVE row'[m] = row[m] /\ row'[m] \in Row
  BY <1>3 DEF Expire, Wellformed, Typed
<1>4. ASSUME NEW m \in job[j].todo
      PROVE  OverwrittenAs(row[m], row'[m], "gated_out", job[j].snap[m].decisions \cup {"expired", job[j].hash})
  <2> DEFINE decisions == job[j].snap[m].decisions \cup {"expired", job[j].hash}
  <2>1. m \in Msgs /\ row[m] \in Row /\ job[j].snap[m] \in Snapshot
    BY <1>1, <1>2 DEF Wellformed, Typed, Job
  <2>2. decisions \in Decisions
    BY <1>2, <2>1 DEF Snapshot, Decisions, Reasons
  <2>3. row'[m] = Overwrite(row[m], "gated_out", decisions)
    BY <2>1 DEF Expire
  <2> HIDE DEF decisions
  <2>4. OverwrittenAs(row[m], row'[m], "gated_out", decisions)
    BY <2>1, <2>2, <2>3, OverwriteOverwrites, Sets
  <2>. QED
    BY <2>4 DEF decisions
<1>5. row' \in [Msgs -> Row]
  <2>1. \A m \in Msgs : row'[m] \in Row
    BY <1>3, <1>4 DEF OverwrittenAs
  <2>2. row' = [m \in Msgs |-> row'[m]]
    BY DEF Expire
  <2>. QED
    BY <2>1, <2>2
<1>6. Drained(j)
  BY <1>1, <1>5, DrainFrame DEF Expire
<1>. QED
  BY <1>1, <1>2, <1>3, <1>4, <1>6

LEMMA ArchiveStep ==
    ASSUME Wellformed, NEW j \in Jobs, Archive(j)
    PROVE  /\ Drained(j) /\ job[j].task = "tier"
           /\ \A m \in Msgs : m \notin job[j].todo => row'[m] = row[m]
           /\ \A m \in job[j].todo :
                 /\ row'[m].status = "archived" /\ row'[m].decisions = row[m].decisions
                 /\ row'[m].age = row[m].age
<1>1. job[j] \in Job /\ job[j].pc = "next" /\ job[j].task = "tier" /\ job[j].todo \subseteq Msgs
  BY DEF Wellformed, Typed, Archive, At, Job
<1>2. ASSUME NEW m \in Msgs, m \notin job[j].todo PROVE row'[m] = row[m] /\ row'[m] \in Row
  BY <1>2 DEF Archive, Wellformed, Typed
<1>3. ASSUME NEW m \in job[j].todo
      PROVE  /\ row'[m] \in Row /\ row'[m].status = "archived" /\ row'[m].decisions = row[m].decisions
             /\ row'[m].age = row[m].age
  <2>1. row[m] \in Row /\ row'[m] = [row[m] EXCEPT !.status = "archived"]
    BY <1>1 DEF Archive, Wellformed, Typed
  <2>. QED
    BY <2>1, Sets DEF Row
<1>4. row' \in [Msgs -> Row]
  <2>1. \A m \in Msgs : row'[m] \in Row
    BY <1>2, <1>3
  <2>2. row' = [m \in Msgs |-> row'[m]]
    BY DEF Archive
  <2>. QED
    BY <2>1, <2>2
<1>5. Drained(j)
  BY <1>1, <1>4, DrainFrame DEF Archive
<1>. QED
  BY <1>1, <1>2, <1>3, <1>5

\* Time passes: rows get older, and those in processing get stuck.
Ages ==
    /\ Wellformed'
    /\ kind' = kind /\ config' = config /\ writer' = writer /\ held' = held /\ job' = job
    /\ \A m \in Msgs :
          /\ row'[m].status = row[m].status /\ row'[m].decisions = row[m].decisions
          /\ row[m].status = "absent" => row'[m] = row[m]
          /\ row[m].age \in Fresh..Ancient /\ row'[m].age \in Fresh..Ancient /\ row'[m].age >= row[m].age

LEMMA AgedAges ==
    ASSUME NEW r \in Row, NEW age \in Fresh..Ancient
    PROVE  /\ Aged(r, age) \in Row /\ Aged(r, age).status = r.status /\ Aged(r, age).decisions = r.decisions
           /\ r.status = "absent" => Aged(r, age) = r
           /\ r.age \in Fresh..Ancient /\ Aged(r, age).age >= r.age
<1> DEFINE a == IF r.age < age THEN age ELSE r.age
           stuck == r.status = "processing"
<1>1. r.age \in Fresh..Ancient /\ a \in Fresh..Ancient /\ a >= r.age
  BY DEF Row, Fresh, Ancient
<1>2. stuck \in BOOLEAN
  OBVIOUS
<1>3. Aged(r, age) = IF r.status = "absent" THEN r ELSE [r EXCEPT !.age = a, !.stuck = stuck]
  BY DEF Aged
<1> HIDE DEF a, stuck
<1>4. CASE r.status = "absent"
  BY <1>1, <1>3, <1>4 DEF Fresh, Ancient
<1>5. CASE r.status # "absent"
  <2> DEFINE new == [r EXCEPT !.age = a, !.stuck = stuck]
  <2>1. new \in Row /\ new.status = r.status /\ new.decisions = r.decisions /\ new.age = a
    BY <1>1, <1>2 DEF Row
  <2>. QED
    BY <1>1, <1>3, <1>5, <2>1
<1>. QED
  BY <1>4, <1>5

LEMMA TimeStep ==
    ASSUME Wellformed, TenMinutes \/ TimePasses(Overdue) \/ TimePasses(Ancient)
    PROVE  Ages
<1>1. PICK age \in Fresh..Ancient :
         row' = [m \in Msgs |-> Aged(row[m], age)] /\ UNCHANGED <<kind, held, config, writer, job, deaths>>
  BY DEF TenMinutes, TimePasses, Fresh, Settled, Overdue, Ancient
<1>2. \A m \in Msgs : row[m] \in Row
  BY DEF Wellformed, Typed
<1>3. ASSUME NEW m \in Msgs
      PROVE  /\ row'[m] \in Row
             /\ row'[m].status = row[m].status /\ row'[m].decisions = row[m].decisions
             /\ row[m].status = "absent" => row'[m] = row[m]
             /\ row[m].age \in Fresh..Ancient /\ row'[m].age \in Fresh..Ancient /\ row'[m].age >= row[m].age
  <2>1. row'[m] = Aged(row[m], age) /\ row[m] \in Row
    BY <1>1, <1>2
  <2>2. row'[m] \in Row => row'[m].age \in Fresh..Ancient
    BY DEF Row
  <2>. QED
    BY <2>1, <2>2, AgedAges
<1>4. row' \in [Msgs -> Row]
  BY <1>1, <1>3
<1>5. Typed'
  BY <1>1, <1>4 DEF Wellformed, Typed
<1>6. ASSUME NEW i \in Jobs PROVE TaskFits(job[i])'
  BY <1>1 DEF Wellformed, TaskFits
<1>7. ASSUME NEW w \in Writers PROVE CallFits(writer[w])'
  BY <1>1 DEF Wellformed, CallFits
<1>. QED
  BY <1>1, <1>3, <1>5, <1>6, <1>7 DEF Ages, Wellformed

LEMMA ReconfigureStep ==
    ASSUME Wellformed, Reconfigure
    PROVE  Wellformed' /\ UNCHANGED <<kind, row, held, writer, job>>
<1>1. UNCHANGED <<kind, row, held, writer, job, deaths>> /\ config' \in Configs
  BY DEF Reconfigure
<1>2. Typed'
  BY <1>1 DEF Wellformed, Typed
<1>3. ASSUME NEW i \in Jobs PROVE TaskFits(job[i])'
  BY <1>1 DEF Wellformed, TaskFits
<1>4. ASSUME NEW w \in Writers PROVE CallFits(writer[w])'
  BY <1>1 DEF Wellformed, CallFits
<1>. QED
  BY <1>1, <1>2, <1>3, <1>4 DEF Wellformed

LEMMA StutterStep ==
    ASSUME Wellformed, UNCHANGED vars
    PROVE  Wellformed'
<1>1. UNCHANGED <<kind, row, held, config, writer, job, deaths>>
  BY DEF vars
<1>2. Typed'
  BY <1>1 DEF Wellformed, Typed
<1>3. ASSUME NEW i \in Jobs PROVE TaskFits(job[i])'
  BY <1>1 DEF Wellformed, TaskFits
<1>4. ASSUME NEW w \in Writers PROVE CallFits(writer[w])'
  BY <1>1 DEF Wellformed, CallFits
<1>. QED
  BY <1>2, <1>3, <1>4 DEF Wellformed

-----------------------------------------------------------------------------
(* Types *)

LEMMA InitWellformed == ASSUME Init PROVE Wellformed
<1>1. Typed
  BY DeathsAssumption, Idles DEF Init, Typed, Held
<1>2. ASSUME NEW w \in Writers PROVE CallFits(writer[w])
  BY Idles DEF Init, CallFits
<1>3. ASSUME NEW j \in Jobs PROVE TaskFits(job[j])
  BY Idles, NoMessage DEF Init, TaskFits
<1>. QED
  BY <1>1, <1>2, <1>3 DEF Wellformed

\* The steps of the night, one by one.
LEMMA NightCases ==
    ASSUME Wellformed, NightProgress
    PROVE  /\ JobAlone(Nightly) /\ Nightly \in Jobs /\ job[Nightly].todo = {} /\ job[Nightly].msg = None
           /\ \/ job[Nightly].task = "idle" /\ Started(Nightly, "sweep", Stranded, FALSE)
              \/ job[Nightly].task = "sweep" /\ Started(Nightly, "replay", Window, FALSE)
              \/ job[Nightly].task = "replay" /\ Started(Nightly, "expire", Expired, FALSE)
              \/ job[Nightly].task = "expire" /\ Started(Nightly, "tier", ColdRows, FALSE)
              \/ job[Nightly].task = "tier" /\ Started(Nightly, "idle", {}, FALSE)
<1>1. /\ Stranded \in SUBSET Msgs /\ Window \in SUBSET Msgs /\ Expired \in SUBSET Msgs
      /\ ColdRows \in SUBSET Msgs /\ {} \in SUBSET Msgs
  BY DEF Stranded, Window, Expired, ColdRows
<1>2. "sweep" \in JobTasks /\ "replay" \in JobTasks /\ "expire" \in JobTasks /\ "tier" \in JobTasks /\ "idle" \in JobTasks
  BY DEF JobTasks
<1>3. CASE NightSweeps
  BY <1>1, <1>2, <1>3, NightTurns DEF NightSweeps
<1>4. CASE NightReplays
  BY <1>1, <1>2, <1>4, NightTurns DEF NightReplays
<1>5. CASE NightExpires
  BY <1>1, <1>2, <1>5, NightTurns DEF NightExpires
<1>6. CASE NightTiers
  BY <1>1, <1>2, <1>6, NightTurns DEF NightTiers
<1>7. CASE NightEnds
  BY <1>1, <1>2, <1>7, NightTurns DEF NightEnds
<1>. QED
  BY <1>3, <1>4, <1>5, <1>6, <1>7 DEF NightProgress

LEMMA NextWellformed ==
    ASSUME Wellformed, [Next]_vars
    PROVE  Wellformed'
<1>1. ASSUME NEW w \in Writers, NEW m \in Msgs, FindNothing(w, m) \/ FindReceived(w, m) \/ Enter(w, m)
      PROVE  Wellformed'
  BY <1>1, FindNothingStep, FindReceivedStep, EnterStep DEF CallStep
<1>2. ASSUME NEW w \in Writers, WriterProgress(w) PROVE Wellformed'
  <2>1. CASE \E levels \in Routes : PipelineRoutes(w, levels)
    BY <2>1, PipelineRoutesStep DEF CallStep
  <2>2. CASE FindJudges(w) \/ Capture(w) \/ PersonaStamp(w) \/ Stamp(w) \/ CloseUnaccounted(w) \/ DirectStamps(w)
    BY <2>2, FindJudgesStep, CaptureStep, PersonaStampStep, StampStep, CloseUnaccountedStep, DirectStampsStep
       DEF CallStep
  <2>3. CASE GateRefuses(w) \/ DreamMarker(w) \/ NoManager(w) \/ PersonaCanon(w) \/ PipelineRaises(w) \/ DirectWrites(w)
    BY <2>3, GateRefusesStep, DreamMarkerStep, NoManagerStep, PersonaCanonStep, PipelineRaisesStep, DirectWritesStep
       DEF CallStep
  <2>. QED
    BY <1>2, <2>1, <2>2, <2>3 DEF WriterProgress
<1>3. ASSUME NEW w \in Writers, WriterDies(w) PROVE Wellformed'
  BY <1>3, WriterDiesStep DEF CallStep
<1>4. ASSUME NEW j \in Jobs, JobProgress(j) PROVE Wellformed'
  <2>1. CASE \E m \in Msgs : ReadEvidence(j, m) \/ TakeRow(j, m)
    BY <2>1, ReadEvidenceStep, TakeRowStep DEF JobStep
  <2>2. CASE CloseByEvidence(j) \/ SkipJudged(j) \/ SkipDirect(j) \/ Claim(j) \/ ReplayFindsKnown(j)
    BY <2>2, CloseByEvidenceStep, PassOverStep, SkipDirectStep, ClaimStep, ReplayFindsKnownStep DEF JobStep
  <2>3. CASE ReplayGateRefuses(j)
    BY <2>3, ReplayEndsStep DEF JobStep, Judgements
  <2>4. CASE ReplayStamps(j)
    <3>1. job[j].status \in Judgements
      BY <2>4 DEF Wellformed, TaskFits, ReplayStamps, At
    <3>. QED
      BY <2>4, <3>1, ReplayEndsStep DEF JobStep
  <2>5. CASE \E levels \in Routes : ReplayRoutes(j, levels)
    BY <2>5, ReplayRoutesStep DEF JobStep
  <2>6. CASE CommandEnds(j) \/ Expire(j) \/ Archive(j)
    BY <2>6, TaskEnds, ExpireStep, ArchiveStep DEF JobAlone, Drained
  <2>. QED
    BY <1>4, <2>1, <2>2, <2>3, <2>4, <2>5, <2>6 DEF JobProgress
<1>5. ASSUME NEW j \in Jobs, CommandStarts(j) \/ ClaimBusy(j) \/ JobDies(j) PROVE Wellformed'
  BY <1>5, CommandTurns, PassOverStep, TaskEnds DEF JobAlone, JobStep
<1>6. CASE NightProgress
  BY <1>6, NightCases DEF JobAlone
<1>7. CASE TenMinutes \/ TimePasses(Overdue) \/ TimePasses(Ancient) \/ Reconfigure
  BY <1>7, TimeStep, ReconfigureStep DEF Ages
<1>8. CASE UNCHANGED vars
  BY <1>8, StutterStep
<1>. QED
  BY <1>1, <1>2, <1>3, <1>4, <1>5, <1>6, <1>7, <1>8 DEF Next

\* Every row, every call and every job is well formed, and where a call or a job
\* stands says which path it is on, whatever faults the environment produces.
THEOREM WellformedInvariant == Spec => []Wellformed
<1>1. Init => Wellformed
  BY InitWellformed
<1>2. Wellformed /\ [Next]_vars => Wellformed'
  BY NextWellformed
<1>. QED
  BY <1>1, <1>2, PTL DEF Spec

\* Type correctness of rows, evidence, calls and jobs.
THEOREM TypeCorrect == Spec => []TypeOK
  BY WellformedInvariant, TypeUnfolds, PTL DEF Wellformed

-----------------------------------------------------------------------------
(* Messages do not interact *)

Untouched(n) ==
    /\ kind'[n] = kind[n] /\ row'[n] = row[n] /\ held'[n] = held[n]
    /\ \A v \in Writers : /\ writer'[v].msg = n <=> writer[v].msg = n
                          /\ writer[v].msg = n => writer'[v] = writer[v]
    /\ \A i \in Jobs : /\ job'[i].task = job[i].task /\ job'[i].byId = job[i].byId /\ job'[i].hash = job[i].hash
                       /\ n \in job'[i].todo <=> n \in job[i].todo
                       /\ job'[i].msg = n <=> job[i].msg = n
                       /\ job[i].msg = n => job'[i].pc = job[i].pc /\ job'[i].status = job[i].status
                       /\ job'[i].snap[n] = job[i].snap[n]

LEMMA CallLeavesOthers ==
    ASSUME NEW w \in Writers, NEW m \in Msgs, NEW n \in Msgs, n # m, CallStep(w, m),
           writer[w].msg \in {m, None}, writer'[w].msg \in {m, None}
    PROVE  Untouched(n)
  BY NoMessage DEF CallStep, Untouched

LEMMA JobLeavesOthers ==
    ASSUME NEW j \in Jobs, NEW m \in Msgs, NEW n \in Msgs, n # m, JobStep(j, m),
           job[j].msg \in {m, None}, NEW pc, NEW status, GoesOn(job[j], job'[j], pc, m, status)
    PROVE  Untouched(n)
<1>1. /\ job'[j].task = job[j].task /\ job'[j].byId = job[j].byId /\ job'[j].hash = job[j].hash
      /\ n \in job'[j].todo <=> n \in job[j].todo
      /\ job'[j].msg # n /\ job[j].msg # n
      /\ job'[j].snap[n] = job[j].snap[n]
  BY NoMessage DEF GoesOn
<1>. QED
  BY <1>1 DEF JobStep, Untouched

\* A step of call w on message m, a step of job j on it, and the steps that
\* concern many messages at once.
CallActs(w, m) ==
    \/ FindNothing(w, m) \/ FindReceived(w, m) \/ Enter(w, m)
    \/ m = writer[w].msg /\ (WriterProgress(w) \/ WriterDies(w))

JobActs(j, m) ==
    \/ ReadEvidence(j, m) \/ TakeRow(j, m)
    \/ /\ m = job[j].msg
       /\ \/ CloseByEvidence(j) \/ SkipJudged(j) \/ ClaimBusy(j) \/ SkipDirect(j) \/ Claim(j) \/ ReplayGateRefuses(j)
          \/ ReplayFindsKnown(j) \/ ReplayStamps(j) \/ \E levels \in Routes : ReplayRoutes(j, levels)

TaskActs(j) == CommandStarts(j) \/ CommandEnds(j) \/ JobDies(j) \/ Expire(j) \/ Archive(j)

WorldActs == TenMinutes \/ TimePasses(Overdue) \/ TimePasses(Ancient) \/ Reconfigure \/ UNCHANGED vars

LEMMA CallConcernsOne ==
    ASSUME Wellformed, NEW w \in Writers, NEW m \in Msgs, CallActs(w, m)
    PROVE  \A n \in Msgs : n # m => Untouched(n)
<1>1. CASE FindNothing(w, m) \/ FindReceived(w, m) \/ Enter(w, m)
  <2>1. writer[w].msg = None
    BY <1>1 DEF FindNothing, FindReceived, Enter, Busy, Wellformed, CallFits
  <2>2. CallStep(w, m) /\ writer'[w].msg = m
    BY <1>1, FindNothingStep, FindReceivedStep, EnterStep DEF CallAt
  <2>. QED
    BY <2>1, <2>2, CallLeavesOthers
<1>2. CASE m = writer[w].msg /\ WriterDies(w)
  <2>1. CallStep(w, m) /\ writer'[w].msg = None
    BY <1>2, WriterDiesStep DEF CallOver, CallAt
  <2>. QED
    BY <1>2, <2>1, CallLeavesOthers
<1>3. CASE m = writer[w].msg /\ WriterProgress(w)
  <2>1. CallStep(w, m) /\ writer'[w].msg \in {m, None}
    <3>1. CASE \E levels \in Routes : PipelineRoutes(w, levels)
      BY <1>3, <3>1, PipelineRoutesStep DEF CallOver, CallAt
    <3>2. CASE FindJudges(w)
      BY <1>3, <3>2, FindJudgesStep DEF CallOver, CallAt
    <3>3. CASE Capture(w)
      BY <1>3, <3>3, CaptureStep DEF CallOver, CallAt
    <3>4. CASE PersonaStamp(w)
      BY <1>3, <3>4, PersonaStampStep DEF CallOver, CallAt
    <3>5. CASE Stamp(w)
      BY <1>3, <3>5, StampStep DEF CallOver, CallAt
    <3>6. CASE CloseUnaccounted(w)
      BY <1>3, <3>6, CloseUnaccountedStep DEF CallOver, CallAt
    <3>7. CASE DirectStamps(w)
      BY <1>3, <3>7, DirectStampsStep DEF CallOver, CallAt
    <3>8. CASE GateRefuses(w)
      BY <1>3, <3>8, GateRefusesStep DEF CallOver, CallAt
    <3>9. CASE DreamMarker(w)
      BY <1>3, <3>9, DreamMarkerStep DEF CallOver, CallAt
    <3>10. CASE NoManager(w)
      BY <1>3, <3>10, NoManagerStep DEF CallOver, CallAt
    <3>11. CASE PersonaCanon(w)
      BY <1>3, <3>11, PersonaCanonStep DEF CallOver, CallAt
    <3>12. CASE PipelineRaises(w)
      BY <1>3, <3>12, PipelineRaisesStep DEF CallOver, CallAt
    <3>13. CASE DirectWrites(w)
      BY <1>3, <3>13, DirectWritesStep DEF CallOver, CallAt
    <3>. QED
      BY <1>3, <3>1, <3>2, <3>3, <3>4, <3>5, <3>6, <3>7, <3>8, <3>9, <3>10, <3>11, <3>12, <3>13 DEF WriterProgress
  <2>. QED
    BY <1>3, <2>1, CallLeavesOthers
<1>. QED
  BY <1>1, <1>2, <1>3 DEF CallActs

LEMMA JobConcernsOne ==
    ASSUME Wellformed, NEW j \in Jobs, NEW m \in Msgs, JobActs(j, m)
    PROVE  \A n \in Msgs : n # m => Untouched(n)
<1>1. job[j].msg \in {m, None}
  <2>1. TaskFits(job[j])
    BY DEF Wellformed
  <2>. QED
    BY <2>1 DEF JobActs, ReadEvidence, TakeRow, At, TaskFits
<1>2. JobStep(j, m) /\ \E pc, status : GoesOn(job[j], job'[j], pc, m, status)
  <2>1. CASE ReadEvidence(j, m) \/ TakeRow(j, m)
    BY <2>1, ReadEvidenceStep, TakeRowStep
  <2>2. CASE m = job[j].msg /\ CloseByEvidence(j)
    BY <2>2, CloseByEvidenceStep
  <2>3. CASE m = job[j].msg /\ (SkipJudged(j) \/ ClaimBusy(j))
    BY <2>3, PassOverStep
  <2>4. CASE m = job[j].msg /\ SkipDirect(j)
    BY <2>4, SkipDirectStep
  <2>5. CASE m = job[j].msg /\ Claim(j)
    BY <2>5, ClaimStep
  <2>6. CASE m = job[j].msg /\ ReplayFindsKnown(j)
    BY <2>6, ReplayFindsKnownStep
  <2>7. CASE m = job[j].msg /\ ReplayGateRefuses(j)
    BY <2>7, ReplayEndsStep DEF Judgements
  <2>8. CASE m = job[j].msg /\ ReplayStamps(j)
    <3>1. job[j].status \in Judgements
      BY <2>8 DEF Wellformed, TaskFits, ReplayStamps, At
    <3>. QED
      BY <2>8, <3>1, ReplayEndsStep
  <2>9. CASE m = job[j].msg /\ \E levels \in Routes : ReplayRoutes(j, levels)
    BY <2>9, ReplayRoutesStep
  <2>. QED
    BY <2>1, <2>2, <2>3, <2>4, <2>5, <2>6, <2>7, <2>8, <2>9 DEF JobActs
<1>. QED
  BY <1>1, <1>2, JobLeavesOthers

LEMMA NextCases ==
    ASSUME Wellformed, [Next]_vars
    PROVE  \/ \E w \in Writers : \E m \in Msgs : CallActs(w, m)
           \/ \E j \in Jobs : \E m \in Msgs : JobActs(j, m)
           \/ \E j \in Jobs : TaskActs(j)
           \/ NightProgress
           \/ WorldActs
<1>1. ASSUME NEW w \in Writers, WriterProgress(w) \/ WriterDies(w) PROVE \E m \in Msgs : CallActs(w, m)
  <2>1. writer[w].pc # "idle"
    BY <1>1 DEF WriterProgress, WriterDies, Busy, FindJudges, Capture, GateRefuses, DreamMarker, NoManager,
       PersonaCanon, PersonaStamp, PipelineRaises, Stamp, CloseUnaccounted, DirectStamps, DirectWrites, PipelineRoutes
  <2>. QED
    BY <1>1, <2>1, CallHasMessage DEF CallActs
<1>2. ASSUME NEW j \in Jobs, JobProgress(j) \/ ClaimBusy(j)
      PROVE  (\E m \in Msgs : JobActs(j, m)) \/ TaskActs(j)
  <2>1. CASE \E m \in Msgs : ReadEvidence(j, m) \/ TakeRow(j, m)
    BY <2>1 DEF JobActs
  <2>2. CASE CommandEnds(j) \/ Expire(j) \/ Archive(j)
    BY <2>2 DEF TaskActs
  <2>3. CASE \/ CloseByEvidence(j) \/ SkipJudged(j) \/ ClaimBusy(j) \/ SkipDirect(j) \/ Claim(j) \/ ReplayGateRefuses(j)
             \/ ReplayFindsKnown(j) \/ ReplayStamps(j) \/ \E levels \in Routes : ReplayRoutes(j, levels)
    <3>1. job[j].pc # "next"
      BY <2>3 DEF CloseByEvidence, SkipJudged, ClaimBusy, SkipDirect, Claim, ReplayGateRefuses, ReplayFindsKnown,
         ReplayStamps, ReplayRoutes, At
    <3>. QED
      BY <2>3, <3>1, JobHasRow DEF JobActs
  <2>. QED
    BY <1>2, <2>1, <2>2, <2>3 DEF JobProgress
<1>. QED
  BY <1>1, <1>2 DEF Next, CallActs, TaskActs, WorldActs

-----------------------------------------------------------------------------
(* Whatever faults the environment produces *)

\* A row that is not there is nobody's: its calls have not captured it yet, and
\* no job has seen it.
AbsentIsAlone(n) ==
    row[n].status = "absent" =>
        /\ row[n] = NoRow
        /\ \A w \in Writers : writer[w].msg = n => writer[w].pc = "admitted"
        /\ \A j \in Jobs : job[j].msg # n /\ n \notin job[j].todo

\* A parked row is an import, and only a replay that names it has it in hand.
ParkedIsAlone(n) ==
    row[n].status = "parked" =>
        /\ kind[n] = "park"
        /\ \A j \in Jobs : ~ job[j].byId => job[j].msg # n /\ n \notin job[j].todo

\* Nobody claims, or is about to claim, a save of content that was never written.
SavesExist(n) ==
    held[n].writes = 0 =>
        /\ held[n].evidence = {}
        /\ row[n].status \notin Saved
        /\ \A w \in Writers : writer[w].msg = n =>
              /\ writer[w].pc # "canon"
              /\ writer[w].pc \in {"judge", "stamp"} => writer[w].status \notin Saved
        /\ \A j \in Jobs : job[j].msg = n /\ job[j].pc \in {"judge", "stamp"} => job[j].status \notin Saved

RowFits(n) == AbsentIsAlone(n) /\ ParkedIsAlone(n) /\ SavesExist(n)

\* What a step may never do to the row of n.
Rests(n) ==
    /\ row[n].status \in WRITTEN_STATUSES => row'[n].status # "processing"
    /\ row[n].status = "parked" /\ row'[n].status # "parked" => \E j \in Jobs : job[j].byId /\ job[j].msg = n

LEMMA RowFitsUntouched ==
    ASSUME NEW n \in Msgs, RowFits(n), Untouched(n)
    PROVE  RowFits(n)' /\ Rests(n)
<1>1. AbsentIsAlone(n)'
  BY DEF RowFits, AbsentIsAlone, Untouched
<1>2. ParkedIsAlone(n)'
  BY DEF RowFits, ParkedIsAlone, Untouched
<1>3. SavesExist(n)'
  BY DEF RowFits, SavesExist, Untouched
<1>4. Rests(n)
  BY DEF Untouched, Rests, WRITTEN_STATUSES, Saved
<1>. QED
  BY <1>1, <1>2, <1>3, <1>4 DEF RowFits

\* What a step of call w owes to the row of m.
CallOwes(w, m) ==
    /\ row'[m].status = "absent" => row'[m] = row[m] /\ (writer'[w].msg = m => writer'[w].pc = "admitted")
    /\ row'[m].status = "parked" => row[m].status = "parked" \/ (row[m].status = "absent" /\ kind[m] = "park")
    /\ held'[m].writes = 0 =>
          /\ held[m].writes = 0 /\ held'[m].evidence = {} /\ row'[m].status \notin Saved
          /\ writer'[w].msg = m => /\ writer'[w].pc # "canon"
                                   /\ writer'[w].pc \in {"judge", "stamp"} => writer'[w].status \notin Saved
    /\ row[m].status \in WRITTEN_STATUSES => row'[m].status # "processing"
    /\ row[m].status = "parked" => row'[m].status = "parked"

LEMMA CallPays ==
    ASSUME NEW w \in Writers, NEW m \in Msgs, RowFits(m), CallStep(w, m), CallOwes(w, m)
    PROVE  RowFits(m)' /\ Rests(m)
<1>1. AbsentIsAlone(m)'
  BY DEF RowFits, AbsentIsAlone, CallStep, CallOwes
<1>2. ParkedIsAlone(m)'
  BY DEF RowFits, AbsentIsAlone, ParkedIsAlone, CallStep, CallOwes
<1>3. SavesExist(m)'
  BY DEF RowFits, SavesExist, CallStep, CallOwes
<1>4. Rests(m)
  BY DEF CallOwes, Rests
<1>. QED
  BY <1>1, <1>2, <1>3, <1>4 DEF RowFits

LEMMA RowFitsCall ==
    ASSUME Wellformed, NEW w \in Writers, NEW m \in Msgs, RowFits(m), CallActs(w, m)
    PROVE  RowFits(m)' /\ Rests(m)
<1> SUFFICES CallStep(w, m) /\ CallOwes(w, m)
  BY CallPays
<1>1. /\ m # None /\ CallFits(writer[w]) /\ held[m].writes \in 0..2
      /\ row[m].status = "absent" /\ writer[w].msg = m => writer[w].pc = "admitted"
      /\ row[m].status = "parked" => kind[m] = "park"
      /\ held[m].writes = 0 => /\ held[m].evidence = {} /\ row[m].status \notin Saved
                               /\ writer[w].msg = m => /\ writer[w].pc # "canon"
                                                       /\ writer[w].pc \in {"judge", "stamp"} => writer[w].status \notin Saved
  BY NoMessage DEF Wellformed, Typed, Held, RowFits, AbsentIsAlone, ParkedIsAlone, SavesExist
<1>2. CASE FindNothing(w, m)
  <2>1. CallStep(w, m) /\ CallAt(w, "admitted", m, FALSE, "absent") /\ row' = row /\ held' = held
    BY <1>2, FindNothingStep
  <2>. QED
    BY <1>1, <2>1 DEF CallOwes, CallAt, WRITTEN_STATUSES, Saved
<1>3. CASE FindReceived(w, m)
  <2>1. CallStep(w, m) /\ CallAt(w, "judge", m, FALSE, Verdict(m)) /\ row' = row /\ held' = held
    BY <1>3, FindReceivedStep
  <2>2. row[m].status = "received"
    BY <1>3 DEF FindReceived, Judgeable
  <2>3. held[m].evidence = {} => Verdict(m) = "gated_out"
    BY VerdictTyped DEF Wellformed
  <2>. QED
    BY <1>1, <2>1, <2>2, <2>3 DEF CallOwes, CallAt, WRITTEN_STATUSES, Saved
<1>4. CASE Enter(w, m)
  <2>1. CallStep(w, m) /\ CallAt(w, "admitted", m, FALSE, "absent") /\ row' = row /\ held' = held
    BY <1>4, EnterStep
  <2>. QED
    BY <1>1, <2>1 DEF CallOwes, CallAt, WRITTEN_STATUSES, Saved
<1>5. CASE m = writer[w].msg /\ FindJudges(w)
  <2>1. /\ CallStep(w, m) /\ held' = held /\ writer[w].pc = "judge"
        /\ ClosedAs(row[m], row'[m], writer[w].status, Why(writer[w].status))
        /\ CallAt(w, "admitted", m, FALSE, "absent") \/ CallOver(w)
    BY <1>5, FindJudgesStep DEF FindJudges
  <2>. QED
    BY <1>1, <1>5, <2>1 DEF CallOwes, CallAt, CallOver, ClosedAs, WriteNeverHappened, CallFits, Judgements, WRITTEN_STATUSES, Saved
<1>6. CASE m = writer[w].msg /\ Capture(w)
  <2>1. /\ CallStep(w, m) /\ held' = held
        /\ row[m].status # "absent" => row'[m] = row[m]
        /\ row[m].status = "absent" => row'[m].status = (IF kind[m] = "park" THEN "parked" ELSE "received")
        /\ CallOver(w) \/ CallAt(w, "captured", m, row[m].status = "absent", writer[w].status)
    BY <1>6, CaptureStep
  <2>. QED
    BY <1>1, <1>6, <2>1 DEF CallOwes, CallAt, CallOver, WRITTEN_STATUSES, Saved
<1>7. CASE m = writer[w].msg /\ PersonaStamp(w)
  <2>1. /\ CallStep(w, m) /\ held' = held /\ writer[w].pc = "canon"
        /\ OverwrittenAs(row[m], row'[m], "promoted_l4", row[m].decisions)
        /\ CallAt(w, "finally", m, writer[w].fresh, writer[w].status)
    BY <1>7, PersonaStampStep DEF PersonaStamp
  <2>. QED
    BY <1>1, <1>7, <2>1 DEF CallOwes, CallAt, OverwrittenAs, CallFits, WRITTEN_STATUSES, Saved
<1>8. CASE m = writer[w].msg /\ Stamp(w)
  <2>1. /\ CallStep(w, m) /\ held' = held /\ writer[w].pc = "stamp" /\ kind[m] # "direct"
        /\ ClosedAs(row[m], row'[m], writer[w].status, Refusal(writer[w].status))
        /\ CallOver(w) \/ CallAt(w, "finally", m, writer[w].fresh, writer[w].status)
    BY <1>8, StampStep DEF Stamp
  <2>. QED
    BY <1>1, <1>8, <2>1 DEF CallOwes, CallAt, CallOver, ClosedAs, WriteNeverHappened, CallFits, Judgements, WRITTEN_STATUSES, Saved
<1>9. CASE m = writer[w].msg /\ CloseUnaccounted(w)
  <2>1. /\ CallStep(w, m) /\ held' = held /\ CallOver(w)
        /\ row[m].status # "received" => row'[m] = row[m]
        /\ row[m].status = "received" => ClosedAs(row[m], row'[m], "gated_out", {"unaccounted"})
    BY <1>9, CloseUnaccountedStep
  <2>2. row'[m] = row[m] \/ row'[m].status = "gated_out"
    BY <2>1 DEF ClosedAs
  <2>. QED
    BY <1>1, <1>9, <2>1, <2>2 DEF CallOwes, CallAt, CallOver, ClosedAs, WRITTEN_STATUSES, Saved, CloseUnaccounted
<1>10. CASE m = writer[w].msg /\ DirectStamps(w)
  <2>1. /\ CallStep(w, m) /\ held' = held /\ writer[w].pc \in {"captured", "stamp"}
        /\ ClosedAs(row[m], row'[m], "routed_direct", {})
        /\ CallOver(w) \/ CallAt(w, "write", m, writer[w].fresh, writer[w].status)
    BY <1>10, DirectStampsStep DEF DirectStamps
  <2>. QED
    BY <1>1, <1>10, <2>1 DEF CallOwes, CallAt, CallOver, ClosedAs, WriteNeverHappened, WRITTEN_STATUSES, Saved
<1>11. CASE m = writer[w].msg /\ GateRefuses(w)
  <2>1. /\ CallStep(w, m) /\ row' = row /\ held' = held /\ writer[w].pc = "captured"
        /\ CallAt(w, "stamp", m, writer[w].fresh, "gated_out")
    BY <1>11, GateRefusesStep DEF GateRefuses
  <2>. QED
    BY <1>1, <1>11, <2>1 DEF CallOwes, CallAt, WRITTEN_STATUSES, Saved
<1>12. CASE m = writer[w].msg /\ DreamMarker(w)
  <2>1. /\ CallStep(w, m) /\ row' = row /\ writer[w].pc = "captured"
        /\ held' = held \/ Adds(m, {"promoted_l4"}, FALSE)
        /\ CallAt(w, "stamp", m, writer[w].fresh, "routed_direct")
    BY <1>12, DreamMarkerStep DEF DreamMarker
  <2>. QED
    BY <1>1, <1>12, <2>1 DEF CallOwes, CallAt, Adds, WRITTEN_STATUSES, Saved
<1>13. CASE m = writer[w].msg /\ NoManager(w)
  <2>1. /\ CallStep(w, m) /\ row' = row /\ held' = held /\ writer[w].pc = "captured"
        /\ CallAt(w, "stamp", m, writer[w].fresh, "routed_direct")
    BY <1>13, NoManagerStep DEF NoManager
  <2>. QED
    BY <1>1, <1>13, <2>1 DEF CallOwes, CallAt, WRITTEN_STATUSES, Saved
<1>14. CASE m = writer[w].msg /\ PersonaCanon(w)
  <2>1. /\ CallStep(w, m) /\ row' = row /\ writer[w].pc = "captured" /\ Adds(m, {"promoted_l4"}, FALSE)
        /\ CallAt(w, "canon", m, writer[w].fresh, writer[w].status)
    BY <1>14, PersonaCanonStep DEF PersonaCanon
  <2>. QED
    BY <1>1, <1>14, <2>1 DEF CallOwes, CallAt, Adds, WRITTEN_STATUSES, Saved
<1>15. CASE m = writer[w].msg /\ PipelineRaises(w)
  <2>1. /\ CallStep(w, m) /\ row' = row /\ writer[w].pc = "captured"
        /\ held' = held \/ \E level \in Saved : Adds(m, {level}, kind[m] # "agent")
        /\ CallOver(w) \/ CallAt(w, "finally", m, writer[w].fresh, writer[w].status)
    BY <1>15, PipelineRaisesStep DEF PipelineRaises
  <2>2. held'[m] = held[m] \/ held'[m].writes # 0
    BY <1>1, <2>1 DEF Adds
  <2>. QED
    BY <1>1, <1>15, <2>1, <2>2 DEF CallOwes, CallAt, CallOver, WRITTEN_STATUSES, Saved
<1>16. CASE m = writer[w].msg /\ DirectWrites(w)
  <2>1. /\ CallStep(w, m) /\ row' = row /\ writer[w].pc \in {"captured", "write"} /\ Adds(m, {"promoted_l4"}, FALSE)
        /\ CallOver(w) \/ CallAt(w, "stamp", m, writer[w].fresh, writer[w].status)
    BY <1>16, DirectWritesStep DEF DirectWrites
  <2>. QED
    BY <1>1, <1>16, <2>1 DEF CallOwes, CallAt, CallOver, Adds, WRITTEN_STATUSES, Saved
<1>17. ASSUME m = writer[w].msg, NEW levels \in Routes, PipelineRoutes(w, levels)
       PROVE  CallStep(w, m) /\ CallOwes(w, m)
  <2>1. /\ CallStep(w, m) /\ row' = row /\ writer[w].pc = "captured" /\ Adds(m, levels, kind[m] # "agent")
        /\ CallOver(w) \/ CallAt(w, "stamp", m, writer[w].fresh, Earned(levels))
    BY <1>17, PipelineRoutesStep DEF PipelineRoutes
  <2>2. levels = {} => Earned(levels) = "gated_out"
    BY DEF Earned
  <2>3. \/ levels = {} /\ held'[m].writes = held[m].writes /\ held'[m].evidence = held[m].evidence
        \/ held'[m].writes # 0
    BY <1>1, <2>1 DEF Adds
  <2>. QED
    BY <1>1, <1>17, <2>1, <2>2, <2>3 DEF CallOwes, CallAt, CallOver, WRITTEN_STATUSES, Saved
<1>18. CASE m = writer[w].msg /\ WriterDies(w)
  <2>1. CallStep(w, m) /\ CallOver(w) /\ row' = row /\ held' = held /\ writer[w].pc # "idle"
    BY <1>18, WriterDiesStep DEF WriterDies, Busy
  <2>. QED
    BY <1>1, <1>18, <2>1 DEF CallOwes, CallAt, CallOver, WRITTEN_STATUSES, Saved
<1>. QED
  BY <1>2, <1>3, <1>4, <1>5, <1>6, <1>7, <1>8, <1>9, <1>10, <1>11, <1>12, <1>13, <1>14, <1>15, <1>16, <1>17, <1>18
     DEF CallActs, WriterProgress

\* What a step of job j owes to the row of m.
JobOwes(j, m) ==
    /\ row'[m].status # "absent"
    /\ row'[m].status = "parked" => row[m].status = "parked"
    /\ row[m].status = "parked" /\ row'[m].status # "parked" => job[j].msg = m
    /\ held'[m].writes = 0 =>
          /\ held[m].writes = 0 /\ held'[m].evidence = {} /\ row'[m].status \notin Saved
          /\ job'[j].msg = m /\ job'[j].pc \in {"judge", "stamp"} => job'[j].status \notin Saved
    /\ row[m].status \in WRITTEN_STATUSES => row'[m].status # "processing"

LEMMA JobPays ==
    ASSUME NEW j \in Jobs, NEW m \in Msgs, RowFits(m), JobStep(j, m), JobOwes(j, m),
           job'[j].byId = job[j].byId, job[j].msg = m \/ m \in job[j].todo
    PROVE  RowFits(m)' /\ Rests(m)
<1>1. AbsentIsAlone(m)'
  BY DEF AbsentIsAlone, JobOwes
<1>2. ParkedIsAlone(m)'
  BY DEF RowFits, ParkedIsAlone, JobStep, JobOwes
<1>3. SavesExist(m)'
  BY DEF RowFits, SavesExist, JobStep, JobOwes
<1>4. Rests(m)
  BY DEF RowFits, ParkedIsAlone, JobOwes, Rests
<1>. QED
  BY <1>1, <1>2, <1>3, <1>4 DEF RowFits

LEMMA RowFitsJob ==
    ASSUME Wellformed, NEW j \in Jobs, NEW m \in Msgs, RowFits(m), JobActs(j, m)
    PROVE  RowFits(m)' /\ Rests(m)
<1> SUFFICES /\ JobStep(j, m) /\ JobOwes(j, m) /\ job'[j].byId = job[j].byId
             /\ job[j].msg = m \/ m \in job[j].todo
  BY JobPays
<1>1. /\ m # None /\ TaskFits(job[j]) /\ held[m].writes \in 0..2
      /\ job[j].msg = m \/ m \in job[j].todo => row[m].status # "absent"
      /\ held[m].writes = 0 =>
            /\ held[m].evidence = {} /\ row[m].status \notin Saved
            /\ job[j].msg = m /\ job[j].pc \in {"judge", "stamp"} => job[j].status \notin Saved
  BY NoMessage DEF Wellformed, Typed, Held, RowFits, AbsentIsAlone, SavesExist
<1>2. CASE ReadEvidence(j, m)
  <2>1. /\ JobStep(j, m) /\ row' = row /\ held' = held /\ m \in job[j].todo
        /\ GoesOn(job[j], job'[j], "judge", m, Verdict(m)) \/ GoesOn(job[j], job'[j], "next", m, "absent")
    BY <1>2, ReadEvidenceStep DEF ReadEvidence
  <2>2. held[m].evidence = {} => Verdict(m) = "gated_out"
    BY VerdictTyped DEF Wellformed
  <2>. QED
    BY <1>1, <2>1, <2>2 DEF JobOwes, GoesOn, WRITTEN_STATUSES, Saved
<1>3. CASE TakeRow(j, m)
  <2>1. /\ JobStep(j, m) /\ row' = row /\ held' = held /\ m \in job[j].todo
        /\ GoesOn(job[j], job'[j], "claim", m, "absent")
    BY <1>3, TakeRowStep DEF TakeRow
  <2>. QED
    BY <1>1, <2>1 DEF JobOwes, GoesOn, WRITTEN_STATUSES, Saved
<1>4. CASE m = job[j].msg /\ CloseByEvidence(j)
  <2>1. /\ JobStep(j, m) /\ held' = held /\ job[j].pc = "judge"
        /\ ClosedAs(row[m], row'[m], job[j].status, Why(job[j].status))
        /\ GoesOn(job[j], job'[j], "claim", m, "absent") \/ GoesOn(job[j], job'[j], "next", m, "absent")
    BY <1>4, CloseByEvidenceStep DEF CloseByEvidence
  <2>. QED
    BY <1>1, <1>4, <2>1 DEF JobOwes, GoesOn, ClosedAs, WriteNeverHappened, TaskFits, Judgements, WRITTEN_STATUSES, Saved
<1>5. CASE m = job[j].msg /\ (SkipJudged(j) \/ ClaimBusy(j))
  <2>1. JobStep(j, m) /\ row' = row /\ held' = held /\ GoesOn(job[j], job'[j], "next", m, "absent")
    BY <1>5, PassOverStep
  <2>. QED
    BY <1>1, <1>5, <2>1 DEF JobOwes, GoesOn, WRITTEN_STATUSES, Saved
<1>6. CASE m = job[j].msg /\ SkipDirect(j)
  <2>1. /\ JobStep(j, m) /\ held' = held /\ GoesOn(job[j], job'[j], "next", m, "absent")
        /\ OverwrittenAs(row[m], row'[m], "routed_direct", row[m].decisions)
    BY <1>6, SkipDirectStep
  <2>. QED
    BY <1>1, <1>6, <2>1 DEF JobOwes, GoesOn, OverwrittenAs, WRITTEN_STATUSES, Saved
<1>7. CASE m = job[j].msg /\ Claim(j)
  <2>1. /\ JobStep(j, m) /\ held' = held
        /\ GoesOn(job[j], job'[j], "claimed", m, "absent") \/ GoesOn(job[j], job'[j], "next", m, "absent")
        /\ row' = row \/ (row'[m].status = "processing" /\ Claimable(j, row[m]))
    BY <1>7, ClaimStep
  <2>. QED
    BY <1>1, <1>7, <2>1 DEF JobOwes, GoesOn, Claimable, WRITTEN_STATUSES, Saved
<1>8. CASE m = job[j].msg /\ ReplayFindsKnown(j)
  <2>1. /\ JobStep(j, m) /\ row' = row /\ held' = held /\ held[m].writes > 0
        /\ GoesOn(job[j], job'[j], "stamp", m, "promoted_l4")
    BY <1>8, ReplayFindsKnownStep DEF ReplayFindsKnown
  <2>. QED
    BY <1>1, <1>8, <2>1 DEF JobOwes, GoesOn, WRITTEN_STATUSES, Saved
<1>9. CASE m = job[j].msg /\ (ReplayGateRefuses(j) \/ ReplayStamps(j))
  <2>1. PICK status \in Judgements :
           /\ JobStep(j, m) /\ held' = held
           /\ OverwrittenAs(row[m], row'[m], status, job[j].snap[m].decisions \cup {job[j].hash})
           /\ GoesOn(job[j], job'[j], "next", m, "absent")
           /\ status = "gated_out" \/ (status = job[j].status /\ job[j].pc = "stamp")
    <3>1. CASE ReplayGateRefuses(j)
      BY <1>9, <3>1, ReplayEndsStep DEF Judgements
    <3>2. CASE ReplayStamps(j)
      <4>1. job[j].status \in Judgements /\ job[j].pc = "stamp"
        BY <1>1, <3>2 DEF TaskFits, ReplayStamps, At
      <4>. QED
        BY <1>9, <3>2, <4>1, ReplayEndsStep
    <3>. QED
      BY <1>9, <3>1, <3>2
  <2>. QED
    BY <1>1, <1>9, <2>1 DEF JobOwes, GoesOn, OverwrittenAs, Judgements, WRITTEN_STATUSES, Saved
<1>10. ASSUME m = job[j].msg, NEW levels \in Routes, ReplayRoutes(j, levels)
       PROVE  /\ JobStep(j, m) /\ JobOwes(j, m) /\ job'[j].byId = job[j].byId
              /\ job[j].msg = m \/ m \in job[j].todo
  <2>1. /\ JobStep(j, m) /\ row' = row /\ Adds(m, levels, TRUE)
        /\ GoesOn(job[j], job'[j], "stamp", m, Earned(levels))
    BY <1>10, ReplayRoutesStep
  <2>2. levels = {} => Earned(levels) = "gated_out"
    BY DEF Earned
  <2>3. \/ levels = {} /\ held'[m].writes = held[m].writes /\ held'[m].evidence = held[m].evidence
        \/ held'[m].writes # 0
    BY <1>1, <2>1 DEF Adds
  <2>. QED
    BY <1>1, <1>10, <2>1, <2>2, <2>3 DEF JobOwes, GoesOn, WRITTEN_STATUSES, Saved
<1>. QED
  BY <1>2, <1>3, <1>4, <1>5, <1>6, <1>7, <1>8, <1>9, <1>10 DEF JobActs

LEMMA RowFitsTask ==
    ASSUME Wellformed, NEW j \in Jobs, TaskActs(j) \/ (j = Nightly /\ NightProgress), NEW n \in Msgs, RowFits(n)
    PROVE  RowFits(n)' /\ Rests(n)
<1>1. CASE CommandStarts(j) \/ (j = Nightly /\ NightProgress)
  <2>1. /\ JobAlone(j) /\ job'[j].msg = None /\ job'[j].pc = "next"
        /\ n \in job'[j].todo => row[n].status # "absent" /\ (row[n].status = "parked" => job'[j].byId)
    <3>1. /\ n \in Stranded \cup Window \cup Expired \cup ColdRows => row[n].status \notin {"absent", "parked"}
          /\ n \in Named => row[n].status # "absent"
      BY DEF Stranded, Window, Expired, ColdRows, Named, Processed, Saved
    <3>2. CASE CommandStarts(j)
      BY <3>1, <3>2, CommandTurns DEF Started
    <3>3. CASE j = Nightly /\ NightProgress
      BY <3>1, <3>3, NightCases DEF Started
    <3>. QED
      BY <1>1, <3>2, <3>3
  <2>2. AbsentIsAlone(n)'
    BY <2>1, NoMessage DEF RowFits, AbsentIsAlone, JobAlone
  <2>3. ParkedIsAlone(n)'
    BY <2>1, NoMessage DEF RowFits, ParkedIsAlone, JobAlone
  <2>4. SavesExist(n)'
    BY <2>1 DEF RowFits, SavesExist, JobAlone
  <2>5. Rests(n)
    BY <2>1 DEF JobAlone, Rests, WRITTEN_STATUSES, Saved
  <2>. QED
    BY <2>2, <2>3, <2>4, <2>5 DEF RowFits
<1>2. CASE CommandEnds(j) \/ JobDies(j)
  <2>1. JobAlone(j) /\ job'[j] = JobIdle
    BY <1>2, TaskEnds
  <2>2. AbsentIsAlone(n)'
    BY <2>1, Idles, NoMessage DEF RowFits, AbsentIsAlone, JobAlone
  <2>3. ParkedIsAlone(n)'
    BY <2>1, Idles, NoMessage DEF RowFits, ParkedIsAlone, JobAlone
  <2>4. SavesExist(n)'
    BY <2>1, Idles DEF RowFits, SavesExist, JobAlone
  <2>5. Rests(n)
    BY <2>1 DEF JobAlone, Rests, WRITTEN_STATUSES, Saved
  <2>. QED
    BY <2>2, <2>3, <2>4, <2>5 DEF RowFits
<1>3. CASE Expire(j) \/ Archive(j)
  <2>1. /\ Drained(j) /\ job[j].task # "replay"
        /\ \/ row'[n] = row[n]
           \/ n \in job[j].todo /\ row'[n].status \in {"gated_out", "archived"}
    <3>1. CASE Expire(j)
      BY <3>1, ExpireStep DEF OverwrittenAs
    <3>2. CASE Archive(j)
      BY <3>2, ArchiveStep
    <3>. QED
      BY <1>3, <3>1, <3>2
  <2>2. ~ job[j].byId
    BY <2>1 DEF Wellformed, TaskFits
  <2>3. row[n].status \in {"absent", "parked"} => row'[n] = row[n]
    BY <2>1, <2>2 DEF RowFits, AbsentIsAlone, ParkedIsAlone
  <2>4. AbsentIsAlone(n)'
    BY <2>1, <2>3, NoMessage DEF RowFits, AbsentIsAlone, Drained
  <2>5. ParkedIsAlone(n)'
    BY <2>1, <2>3, NoMessage DEF RowFits, ParkedIsAlone, Drained
  <2>6. SavesExist(n)'
    BY <2>1, NoMessage DEF RowFits, SavesExist, Drained, Saved
  <2>7. Rests(n)
    BY <2>1, <2>3 DEF Rests, WRITTEN_STATUSES, Saved
  <2>. QED
    BY <2>4, <2>5, <2>6, <2>7 DEF RowFits
<1>. QED
  BY <1>1, <1>2, <1>3 DEF TaskActs

LEMMA RowFitsWorld ==
    ASSUME Wellformed, WorldActs, NEW n \in Msgs, RowFits(n)
    PROVE  RowFits(n)' /\ Rests(n)
<1>1. /\ kind' = kind /\ writer' = writer /\ held' = held /\ job' = job
      /\ row'[n].status = row[n].status /\ (row[n].status = "absent" => row'[n] = row[n])
  BY TimeStep, ReconfigureStep DEF WorldActs, Ages, vars
<1>2. AbsentIsAlone(n)'
  BY <1>1 DEF RowFits, AbsentIsAlone
<1>3. ParkedIsAlone(n)'
  BY <1>1 DEF RowFits, ParkedIsAlone
<1>4. SavesExist(n)'
  BY <1>1 DEF RowFits, SavesExist
<1>5. Rests(n)
  BY <1>1 DEF Rests, WRITTEN_STATUSES, Saved
<1>. QED
  BY <1>2, <1>3, <1>4, <1>5 DEF RowFits

RowInv == Wellformed /\ \A n \in Msgs : RowFits(n)

LEMMA InitRowInv == ASSUME Init PROVE RowInv
<1>1. ASSUME NEW n \in Msgs PROVE RowFits(n)
  <2>1. /\ row[n] = NoRow /\ held[n].evidence = {} /\ held[n].writes = 0
        /\ \A w \in Writers : writer[w] = WriterIdle
        /\ \A j \in Jobs : job[j] = JobIdle
    BY DEF Init
  <2>2. row[n].status = "absent"
    BY <2>1 DEF NoRow
  <2>3. AbsentIsAlone(n)
    BY <2>1, Idles, NoMessage DEF AbsentIsAlone
  <2>4. ParkedIsAlone(n)
    BY <2>2 DEF ParkedIsAlone
  <2>5. SavesExist(n)
    BY <2>1, <2>2, Idles DEF SavesExist, Saved
  <2>. QED
    BY <2>3, <2>4, <2>5 DEF RowFits
<1>. QED
  BY <1>1, InitWellformed DEF RowInv

LEMMA NextRowInv ==
    ASSUME RowInv, [Next]_vars
    PROVE  RowInv' /\ \A n \in Msgs : Rests(n)
<1>1. Wellformed /\ Wellformed' /\ \A n \in Msgs : RowFits(n)
  BY NextWellformed DEF RowInv
<1>2. ASSUME NEW w \in Writers, NEW m \in Msgs, CallActs(w, m), NEW n \in Msgs PROVE RowFits(n)' /\ Rests(n)
  BY <1>1, <1>2, CallConcernsOne, RowFitsUntouched, RowFitsCall
<1>3. ASSUME NEW j \in Jobs, NEW m \in Msgs, JobActs(j, m), NEW n \in Msgs PROVE RowFits(n)' /\ Rests(n)
  BY <1>1, <1>3, JobConcernsOne, RowFitsUntouched, RowFitsJob
<1>4. ASSUME NEW j \in Jobs, TaskActs(j), NEW n \in Msgs PROVE RowFits(n)' /\ Rests(n)
  BY <1>1, <1>4, RowFitsTask
<1>5. ASSUME NightProgress, NEW n \in Msgs PROVE RowFits(n)' /\ Rests(n)
  BY <1>1, <1>5, RowFitsTask, JobsAssumption
<1>6. ASSUME WorldActs, NEW n \in Msgs PROVE RowFits(n)' /\ Rests(n)
  BY <1>1, <1>6, RowFitsWorld
<1>7. \A n \in Msgs : RowFits(n)' /\ Rests(n)
  BY <1>1, <1>2, <1>3, <1>4, <1>5, <1>6, NextCases
<1>. QED
  BY <1>1, <1>7 DEF RowInv

\* A row that is not there has no reader, a parked one only those that name it, and
\* nobody claims, or is about to claim, a save of what was never written.
THEOREM RowInvariant == Spec => []RowInv
<1>1. Init => RowInv
  BY InitRowInv
<1>2. RowInv /\ [Next]_vars => RowInv'
  BY NextRowInv
<1>. QED
  BY <1>1, <1>2, PTL DEF Spec

\* A row that claims a save has one, whatever goes wrong.
THEOREM SavesAreTrue == Spec => []SavedClaimsAreTrue
<1>1. RowInv => SavedClaimsAreTrue
  <2>1. ASSUME RowInv, NEW m \in Msgs, row[m].status \in Saved PROVE held[m].writes > 0
    BY <2>1 DEF RowInv, RowFits, SavesExist, Wellformed, Typed, Held
  <2>. QED
    BY <2>1 DEF SavedClaimsAreTrue
<1>. QED
  BY <1>1, RowInvariant, PTL

\* A written row never goes back into processing, whatever goes wrong.
THEOREM WrittenStayOut == Spec => WrittenRowsStayOut
<1>1. RowInv /\ [Next]_vars
      => [\A m \in Msgs : row[m].status \in WRITTEN_STATUSES => row'[m].status # "processing"]_vars
  BY NextRowInv DEF Rests
<1>. QED
  BY <1>1, RowInvariant, PTL DEF Spec, WrittenRowsStayOut

\* A parked import sleeps until a replay names it, whatever goes wrong.
THEOREM ParkedSleep == Spec => ParkedRowsSleep
<1>1. RowInv /\ [Next]_vars
      => [\A m \in Msgs : row[m].status = "parked" /\ row'[m].status # "parked" =>
            \E j \in Jobs : job[j].byId /\ job[j].msg = m]_vars
  BY NextRowInv DEF Rests
<1>. QED
  BY <1>1, RowInvariant, PTL DEF Spec, ParkedRowsSleep

-----------------------------------------------------------------------------
(* Without overlapping passes, overruns and backdated messages *)

Punctual == Faults \cap {"overlap", "overrun", "backdated"} = {}

\* A message has one delivery at a time, and no replay distils it meanwhile.
OneDelivery(n) ==
    /\ \A v, w \in Writers : writer[v].msg = n /\ writer[w].msg = n => v = w
    /\ \A w \in Writers, j \in Jobs :
          writer[w].msg = n /\ job[j].msg = n => job[j].pc \notin {"claimed", "stamp"}

\* A job that has a received row in its list saw it received, and the one that
\* has it at hand is judging it: the grace is over, and it goes no further.
ReceivedIsJudged(n) ==
    row[n].status = "received" =>
        \A j \in Jobs : /\ n \in job[j].todo => job[j].snap[n].received
                        /\ job[j].msg = n => row[n].age # Fresh /\ job[j].pc = "judge"

\* What expires, or is tiered, is old.
ExpiryIsLate(n) == \A j \in Jobs : n \in job[j].todo /\ job[j].task \in {"expire", "tier"} => row[n].age >= Overdue

\* The call that captured a row still finds it received, within its grace.
FirstWriterAlone(n) ==
    \A w \in Writers : /\ writer[w].msg = n /\ writer[w].fresh
                       /\ writer[w].pc \in {"captured", "canon", "stamp"} /\ kind[n] # "direct"
                       => row[n].status = "received" /\ row[n].age = Fresh

Graced(n) == OneDelivery(n) /\ ReceivedIsJudged(n) /\ ExpiryIsLate(n) /\ FirstWriterAlone(n)

LEMMA GracedUntouched ==
    ASSUME NEW n \in Msgs, Graced(n), Untouched(n)
    PROVE  Graced(n)'
<1>1. OneDelivery(n)'
  BY DEF Graced, OneDelivery, Untouched
<1>2. ReceivedIsJudged(n)'
  BY DEF Graced, ReceivedIsJudged, Untouched
<1>3. ExpiryIsLate(n)'
  BY DEF Graced, ExpiryIsLate, Untouched
<1>4. FirstWriterAlone(n)'
  BY DEF Graced, FirstWriterAlone, Untouched
<1>. QED
  BY <1>1, <1>2, <1>3, <1>4 DEF Graced

\* Nobody delivers m, and nobody distils it.
Unattended(m) ==
    /\ \A v \in Writers : writer[v].msg # m
    /\ \A j \in Jobs : job[j].msg = m => job[j].pc \notin {"claimed", "stamp"}

LEMMA AloneIsUnattended ==
    ASSUME Punctual, NEW m
    PROVE  /\ NoDelivery(m) => \A v \in Writers : writer[v].msg # m
           /\ Alone(m) => Unattended(m)
  BY DEF Punctual, NoDelivery, Alone, Passing, Claimed, Unattended

\* What a step of call w owes to the grace of m.
CallOwesGrace(w, m) ==
    /\ row'[m].age = row[m].age
    /\ row'[m].status = "received" => row[m].status \in {"absent", "received"}
    /\ /\ writer'[w].msg = m /\ writer'[w].fresh /\ writer'[w].pc \in {"captured", "canon", "stamp"} /\ kind[m] # "direct"
       => row'[m].status = "received" /\ row'[m].age = Fresh

LEMMA CallPaysGrace ==
    ASSUME NEW w \in Writers, NEW m \in Msgs, RowFits(m), Graced(m), CallStep(w, m),
           writer[w].msg = m \/ Unattended(m), CallOwesGrace(w, m)
    PROVE  Graced(m)'
<1>1. OneDelivery(m)'
  BY DEF Graced, OneDelivery, CallStep, Unattended
<1>2. ReceivedIsJudged(m)'
  BY DEF Graced, ReceivedIsJudged, CallStep, CallOwesGrace, RowFits, AbsentIsAlone
<1>3. ExpiryIsLate(m)'
  BY DEF Graced, ExpiryIsLate, CallStep, CallOwesGrace, RowFits, AbsentIsAlone
<1>4. FirstWriterAlone(m)'
  BY DEF Graced, OneDelivery, FirstWriterAlone, CallStep, CallOwesGrace, Unattended
<1>. QED
  BY <1>1, <1>2, <1>3, <1>4 DEF Graced

LEMMA CallsKeepTheGrace ==
    ASSUME Punctual, Wellformed, NEW w \in Writers, NEW m \in Msgs, RowFits(m), Graced(m), CallActs(w, m)
    PROVE  CallStep(w, m) /\ (writer[w].msg = m \/ Unattended(m)) /\ CallOwesGrace(w, m)
<1>1. /\ m # None /\ CallFits(writer[w])
      /\ /\ writer[w].msg = m /\ writer[w].fresh /\ writer[w].pc \in {"captured", "canon", "stamp"} /\ kind[m] # "direct"
         => row[m].status = "received" /\ row[m].age = Fresh
      /\ row[m].status = "absent" => row[m].age = Fresh /\ (writer[w].msg = m => writer[w].pc = "admitted")
  BY NoMessage DEF Wellformed, Graced, FirstWriterAlone, RowFits, AbsentIsAlone, NoRow
<1>2. CASE FindNothing(w, m) \/ Enter(w, m)
  <2>1. /\ CallStep(w, m) /\ CallAt(w, "admitted", m, FALSE, "absent") /\ row' = row
        /\ Alone(m)
    BY <1>2, FindNothingStep, EnterStep DEF FindNothing, Enter
  <2>. QED
    BY <2>1, AloneIsUnattended DEF CallOwesGrace, CallAt
<1>3. CASE FindReceived(w, m)
  <2>1. CallStep(w, m) /\ CallAt(w, "judge", m, FALSE, Verdict(m)) /\ row' = row /\ Alone(m)
    BY <1>3, FindReceivedStep DEF FindReceived
  <2>. QED
    BY <2>1, AloneIsUnattended DEF CallOwesGrace, CallAt
<1>5. CASE m = writer[w].msg /\ FindJudges(w)
  <2>1. /\ CallStep(w, m) /\ writer[w].pc = "judge"
        /\ ClosedAs(row[m], row'[m], writer[w].status, Why(writer[w].status))
        /\ CallAt(w, "admitted", m, FALSE, "absent") \/ CallOver(w)
    BY <1>5, FindJudgesStep DEF FindJudges
  <2>. QED
    BY <1>1, <1>5, <2>1 DEF CallOwesGrace, CallAt, CallOver, ClosedAs, CallFits, Judgements, Saved
<1>6. CASE m = writer[w].msg /\ Capture(w)
  <2>1. /\ CallStep(w, m)
        /\ row[m].status # "absent" => row'[m] = row[m]
        /\ row[m].status = "absent" => /\ row'[m].status = (IF kind[m] = "park" THEN "parked" ELSE "received")
                                       /\ row'[m].age = Fresh
        /\ IF kind[m] \in {"park", "service"} THEN CallOver(w)
           ELSE CallAt(w, "captured", m, row[m].status = "absent", writer[w].status)
    BY <1>6, CaptureStep DEF Punctual
  <2>. QED
    BY <1>1, <1>6, <2>1 DEF CallOwesGrace, CallAt, CallOver
<1>7. CASE m = writer[w].msg /\ PersonaStamp(w)
  <2>1. /\ CallStep(w, m)
        /\ OverwrittenAs(row[m], row'[m], "promoted_l4", row[m].decisions)
        /\ CallAt(w, "finally", m, writer[w].fresh, writer[w].status)
    BY <1>7, PersonaStampStep
  <2>. QED
    BY <1>1, <1>7, <2>1 DEF CallOwesGrace, CallAt, OverwrittenAs
<1>8. CASE m = writer[w].msg /\ Stamp(w)
  <2>1. /\ CallStep(w, m) /\ writer[w].pc = "stamp" /\ kind[m] # "direct"
        /\ ClosedAs(row[m], row'[m], writer[w].status, Refusal(writer[w].status))
        /\ CallOver(w) \/ CallAt(w, "finally", m, writer[w].fresh, writer[w].status)
    BY <1>8, StampStep DEF Stamp
  <2>. QED
    BY <1>1, <1>8, <2>1 DEF CallOwesGrace, CallAt, CallOver, ClosedAs, CallFits, Judgements, Saved
<1>9. CASE m = writer[w].msg /\ CloseUnaccounted(w)
  <2>1. /\ CallStep(w, m) /\ CallOver(w)
        /\ row'[m] = row[m] \/ (row'[m].status = "gated_out" /\ row'[m].age = row[m].age)
    BY <1>9, CloseUnaccountedStep DEF ClosedAs
  <2>. QED
    BY <1>1, <1>9, <2>1 DEF CallOwesGrace, CallAt, CallOver
<1>10. CASE m = writer[w].msg /\ DirectStamps(w)
  <2>1. /\ CallStep(w, m) /\ kind[m] = "direct"
        /\ ClosedAs(row[m], row'[m], "routed_direct", {})
    BY <1>10, DirectStampsStep DEF DirectStamps
  <2>. QED
    BY <1>1, <1>10, <2>1 DEF CallOwesGrace, ClosedAs
<1>11. CASE m = writer[w].msg /\ (GateRefuses(w) \/ DreamMarker(w) \/ NoManager(w) \/ PersonaCanon(w))
  <2>1. /\ CallStep(w, m) /\ row' = row /\ writer[w].pc = "captured"
        /\ writer'[w].msg = m /\ writer'[w].fresh = writer[w].fresh
    <3>1. CASE GateRefuses(w)
      BY <1>11, <3>1, GateRefusesStep DEF GateRefuses, CallAt
    <3>2. CASE DreamMarker(w)
      BY <1>11, <3>2, DreamMarkerStep DEF DreamMarker, CallAt
    <3>3. CASE NoManager(w)
      BY <1>11, <3>3, NoManagerStep DEF NoManager, CallAt
    <3>4. CASE PersonaCanon(w)
      BY <1>11, <3>4, PersonaCanonStep DEF PersonaCanon, CallAt
    <3>. QED
      BY <1>11, <3>1, <3>2, <3>3, <3>4
  <2>. QED
    BY <1>1, <1>11, <2>1 DEF CallOwesGrace
<1>12. CASE m = writer[w].msg /\ (PipelineRaises(w) \/ DirectWrites(w) \/ WriterDies(w))
  <2>1. /\ CallStep(w, m) /\ row' = row
        /\ CallOver(w) \/ writer'[w].pc = "finally" \/ kind[m] = "direct"
    <3>1. CASE PipelineRaises(w)
      BY <1>12, <3>1, PipelineRaisesStep DEF CallAt
    <3>2. CASE DirectWrites(w)
      BY <1>12, <3>2, DirectWritesStep DEF DirectWrites
    <3>3. CASE WriterDies(w)
      BY <1>12, <3>3, WriterDiesStep
    <3>. QED
      BY <1>12, <3>1, <3>2, <3>3
  <2>. QED
    BY <1>1, <1>12, <2>1 DEF CallOwesGrace, CallAt, CallOver
<1>13. ASSUME m = writer[w].msg, NEW levels \in Routes, PipelineRoutes(w, levels)
       PROVE  CallStep(w, m) /\ (writer[w].msg = m \/ Unattended(m)) /\ CallOwesGrace(w, m)
  <2>1. /\ CallStep(w, m) /\ row' = row /\ writer[w].pc = "captured"
        /\ CallOver(w) \/ CallAt(w, "stamp", m, writer[w].fresh, Earned(levels))
    BY <1>13, PipelineRoutesStep DEF PipelineRoutes
  <2>. QED
    BY <1>1, <1>13, <2>1 DEF CallOwesGrace, CallAt, CallOver
<1>. QED
  BY <1>2, <1>3, <1>5, <1>6, <1>7, <1>8, <1>9, <1>10, <1>11, <1>12, <1>13 DEF CallActs, WriterProgress

\* What a step of job j owes to the grace of m.
JobOwesGrace(j, m) ==
    /\ row'[m].age = row[m].age
    /\ row'[m].status = "received" =>
          row[m].status = "received" /\ (job'[j].msg = m => row[m].age # Fresh /\ job'[j].pc = "judge")
    /\ row[m].status = "received" /\ row[m].age = Fresh => row'[m].status = "received"
    /\ job'[j].msg = m /\ job'[j].pc \in {"claimed", "stamp"} =>
          \/ job[j].msg = m /\ job[j].pc \in {"claimed", "stamp"}
          \/ \A v \in Writers : writer[v].msg # m

LEMMA JobPaysGrace ==
    ASSUME NEW j \in Jobs, NEW m \in Msgs, Graced(m), JobStep(j, m), JobOwesGrace(j, m),
           NEW pc, NEW status, GoesOn(job[j], job'[j], pc, m, status)
    PROVE  Graced(m)'
<1>1. OneDelivery(m)'
  BY DEF Graced, OneDelivery, JobStep, JobOwesGrace
<1>2. ReceivedIsJudged(m)'
  BY DEF Graced, ReceivedIsJudged, JobStep, JobOwesGrace, GoesOn
<1>3. ExpiryIsLate(m)'
  BY DEF Graced, ExpiryIsLate, JobStep, JobOwesGrace, GoesOn
<1>4. FirstWriterAlone(m)'
  BY DEF Graced, FirstWriterAlone, JobStep, JobOwesGrace
<1>. QED
  BY <1>1, <1>2, <1>3, <1>4 DEF Graced

LEMMA JobsKeepTheGrace ==
    ASSUME Punctual, Wellformed, NEW j \in Jobs, NEW m \in Msgs, RowFits(m), Graced(m), JobActs(j, m)
    PROVE  JobStep(j, m) /\ JobOwesGrace(j, m) /\ \E pc, status : GoesOn(job[j], job'[j], pc, m, status)
<1>1. /\ m # None /\ TaskFits(job[j]) /\ m \in Msgs
      /\ row[m].status = "received" =>
            /\ m \in job[j].todo => job[j].snap[m].received
            /\ job[j].msg = m => row[m].age # Fresh /\ job[j].pc = "judge"
  BY NoMessage DEF Wellformed, Graced, ReceivedIsJudged
<1>2. CASE ReadEvidence(j, m)
  <2>1. CASE Judgeable(m)
    <3>1. /\ JobStep(j, m) /\ row' = row /\ GoesOn(job[j], job'[j], "judge", m, Verdict(m))
          /\ row[m].age # Fresh
      BY <1>2, <2>1, ReadEvidenceStep DEF Judgeable
    <3>. QED
      BY <1>1, <3>1 DEF JobOwesGrace, GoesOn
  <2>2. CASE ~ Judgeable(m)
    <3>1. JobStep(j, m) /\ row' = row /\ GoesOn(job[j], job'[j], "next", m, "absent")
      BY <1>2, <2>2, ReadEvidenceStep
    <3>. QED
      BY <1>1, <3>1 DEF JobOwesGrace, GoesOn
  <2>. QED
    BY <2>1, <2>2
<1>3. CASE TakeRow(j, m)
  <2>1. JobStep(j, m) /\ row' = row /\ GoesOn(job[j], job'[j], "claim", m, "absent")
    BY <1>3, TakeRowStep
  <2>2. row[m].status # "received"
    BY <1>1, <1>3 DEF TakeRow, At, Classifies
  <2>. QED
    BY <1>1, <2>1, <2>2 DEF JobOwesGrace, GoesOn
<1>4. CASE m = job[j].msg /\ CloseByEvidence(j)
  <2>1. /\ JobStep(j, m) /\ job[j].pc = "judge"
        /\ ClosedAs(row[m], row'[m], job[j].status, Why(job[j].status))
        /\ \E pc : pc \in {"claim", "next"} /\ GoesOn(job[j], job'[j], pc, m, "absent")
    BY <1>4, CloseByEvidenceStep DEF CloseByEvidence
  <2>2. row'[m].status # "received"
    BY <1>1, <2>1 DEF ClosedAs, TaskFits, Judgements, Saved
  <2>. QED
    BY <1>1, <1>4, <2>1, <2>2 DEF JobOwesGrace, GoesOn, ClosedAs
<1>5. CASE m = job[j].msg /\ (SkipJudged(j) \/ ClaimBusy(j))
  <2>1. JobStep(j, m) /\ row' = row /\ GoesOn(job[j], job'[j], "next", m, "absent")
    BY <1>5, PassOverStep
  <2>. QED
    BY <1>1, <2>1 DEF JobOwesGrace, GoesOn
<1>6. CASE m = job[j].msg /\ SkipDirect(j)
  <2>1. /\ JobStep(j, m) /\ GoesOn(job[j], job'[j], "next", m, "absent")
        /\ OverwrittenAs(row[m], row'[m], "routed_direct", row[m].decisions)
    BY <1>6, SkipDirectStep
  <2>2. row[m].status # "received"
    BY <1>1, <1>6 DEF SkipDirect, At
  <2>. QED
    BY <1>1, <2>1, <2>2 DEF JobOwesGrace, GoesOn, OverwrittenAs
<1>7. CASE m = job[j].msg /\ Claim(j)
  <2>1. row[m].status # "received"
    BY <1>1, <1>7 DEF Claim, At
  <2>2. CASE Claimable(j, row[m])
    <3>1. /\ JobStep(j, m) /\ NoDelivery(m) /\ GoesOn(job[j], job'[j], "claimed", m, "absent")
          /\ row'[m].status = "processing" /\ row'[m].age = row[m].age
      BY <1>7, <2>2, ClaimStep
    <3>. QED
      BY <1>1, <2>1, <3>1, AloneIsUnattended DEF JobOwesGrace, GoesOn
  <2>3. CASE ~ Claimable(j, row[m])
    <3>1. JobStep(j, m) /\ row' = row /\ GoesOn(job[j], job'[j], "next", m, "absent")
      BY <1>7, <2>3, ClaimStep
    <3>. QED
      BY <1>1, <2>1, <3>1 DEF JobOwesGrace, GoesOn
  <2>. QED
    BY <2>2, <2>3
<1>8. CASE m = job[j].msg /\ ReplayFindsKnown(j)
  <2>1. JobStep(j, m) /\ row' = row /\ GoesOn(job[j], job'[j], "stamp", m, "promoted_l4") /\ job[j].pc = "claimed"
    BY <1>8, ReplayFindsKnownStep DEF ReplayFindsKnown, At
  <2>. QED
    BY <1>1, <1>8, <2>1 DEF JobOwesGrace, GoesOn
<1>9. CASE m = job[j].msg /\ (ReplayGateRefuses(j) \/ ReplayStamps(j))
  <2>1. /\ JobStep(j, m) /\ job[j].pc # "judge" /\ GoesOn(job[j], job'[j], "next", m, "absent")
        /\ \E status \in Judgements :
              OverwrittenAs(row[m], row'[m], status, job[j].snap[m].decisions \cup {job[j].hash})
    <3>1. CASE ReplayGateRefuses(j)
      BY <1>9, <3>1, ReplayEndsStep DEF Judgements, ReplayGateRefuses, At
    <3>2. CASE ReplayStamps(j)
      <4>1. job[j].status \in Judgements /\ job[j].pc = "stamp"
        BY <1>1, <3>2 DEF TaskFits, ReplayStamps, At
      <4>. QED
        BY <1>9, <3>2, <4>1, ReplayEndsStep
    <3>. QED
      BY <1>9, <3>1, <3>2
  <2>2. row[m].status # "received" /\ row'[m].status # "received" /\ row'[m].age = row[m].age
    BY <1>1, <1>9, <2>1 DEF OverwrittenAs, Judgements, Saved
  <2>. QED
    BY <1>1, <2>1, <2>2 DEF JobOwesGrace, GoesOn
<1>10. ASSUME m = job[j].msg, NEW levels \in Routes, ReplayRoutes(j, levels)
       PROVE  JobStep(j, m) /\ JobOwesGrace(j, m) /\ \E pc, status : GoesOn(job[j], job'[j], pc, m, status)
  <2>1. /\ JobStep(j, m) /\ row' = row /\ job[j].pc = "claimed"
        /\ GoesOn(job[j], job'[j], "stamp", m, Earned(levels))
    BY <1>10, ReplayRoutesStep DEF ReplayRoutes, At
  <2>. QED
    BY <1>1, <1>10, <2>1 DEF JobOwesGrace, GoesOn
<1>. QED
  BY <1>2, <1>3, <1>4, <1>5, <1>6, <1>7, <1>8, <1>9, <1>10 DEF JobActs

LEMMA GracedTask ==
    ASSUME Wellformed, NEW j \in Jobs, TaskActs(j) \/ (j = Nightly /\ NightProgress),
           NEW n \in Msgs, RowFits(n), Graced(n)
    PROVE  Graced(n)'
<1>0. row[n].age \in Fresh..Ancient
  BY DEF Wellformed, Typed, Row
<1>1. CASE CommandStarts(j) \/ (j = Nightly /\ NightProgress)
  <2>1. /\ JobAlone(j) /\ job'[j].msg = None
        /\ n \in job'[j].todo => /\ job'[j].snap[n] = SnapOf(row[n])
                                 /\ job'[j].task \in {"expire", "tier"} => row[n].age >= Overdue
    <3>1. n \in Expired \cup ColdRows => row[n].age >= Overdue
      BY DEF Expired, ColdRows, Overdue, Ancient
    <3>2. CASE CommandStarts(j)
      BY <3>1, <3>2, CommandTurns DEF Started
    <3>3. CASE j = Nightly /\ NightProgress
      BY <3>1, <3>3, NightCases DEF Started
    <3>. QED
      BY <1>1, <3>2, <3>3
  <2>2. OneDelivery(n)'
    BY <2>1, NoMessage DEF Graced, OneDelivery, JobAlone
  <2>3. ReceivedIsJudged(n)'
    <3>1. row[n].status = "received" /\ n \in job'[j].todo => job'[j].snap[n].received
      BY <2>1, SnapOfReceived
    <3>. QED
      BY <2>1, <3>1, NoMessage DEF Graced, ReceivedIsJudged, JobAlone
  <2>4. ExpiryIsLate(n)'
    BY <2>1 DEF Graced, ExpiryIsLate, JobAlone
  <2>5. FirstWriterAlone(n)'
    BY <2>1 DEF Graced, FirstWriterAlone, JobAlone
  <2>. QED
    BY <2>2, <2>3, <2>4, <2>5 DEF Graced
<1>2. CASE CommandEnds(j) \/ JobDies(j)
  <2>1. JobAlone(j) /\ job'[j].msg = None /\ job'[j].todo = {}
    BY <1>2, TaskEnds, Idles
  <2>2. OneDelivery(n)'
    BY <2>1, NoMessage DEF Graced, OneDelivery, JobAlone
  <2>3. ReceivedIsJudged(n)'
    BY <2>1, NoMessage DEF Graced, ReceivedIsJudged, JobAlone
  <2>4. ExpiryIsLate(n)'
    BY <2>1 DEF Graced, ExpiryIsLate, JobAlone
  <2>5. FirstWriterAlone(n)'
    BY <2>1 DEF Graced, FirstWriterAlone, JobAlone
  <2>. QED
    BY <2>2, <2>3, <2>4, <2>5 DEF Graced
<1>3. CASE Expire(j) \/ Archive(j)
  <2>1. /\ Drained(j) /\ job[j].task \in {"expire", "tier"}
        /\ row'[n].age = row[n].age
        /\ \/ row'[n] = row[n]
           \/ n \in job[j].todo /\ row'[n].status \in {"gated_out", "archived"}
    <3>1. CASE Expire(j)
      BY <3>1, ExpireStep DEF OverwrittenAs
    <3>2. CASE Archive(j)
      BY <3>2, ArchiveStep
    <3>. QED
      BY <1>3, <3>1, <3>2
  <2>2. row[n].age = Fresh => row'[n] = row[n]
    BY <2>1 DEF Graced, ExpiryIsLate, Fresh, Overdue
  <2>3. OneDelivery(n)'
    BY <2>1, NoMessage DEF Graced, OneDelivery, Drained
  <2>4. ReceivedIsJudged(n)'
    BY <2>1, NoMessage DEF Graced, ReceivedIsJudged, Drained
  <2>5. ExpiryIsLate(n)'
    BY <2>1 DEF Graced, ExpiryIsLate, Drained
  <2>6. FirstWriterAlone(n)'
    BY <2>1, <2>2 DEF Graced, FirstWriterAlone, Drained
  <2>. QED
    BY <2>3, <2>4, <2>5, <2>6 DEF Graced
<1>. QED
  BY <1>1, <1>2, <1>3 DEF TaskActs

\* When the clock moves, no call is under way.
LEMMA ClockFindsNoCall ==
    ASSUME Punctual, Wellformed, TenMinutes \/ TimePasses(Overdue) \/ TimePasses(Ancient)
    PROVE  /\ \A w \in Writers : writer[w].pc = "idle" /\ writer[w].msg = None
           /\ \A j \in Jobs : job[j].pc \notin {"claimed", "stamp"}
<1>1. \A j \in Jobs : job[j].task = "idle" => job[j].pc \notin {"claimed", "stamp"}
  BY DEF Wellformed, TaskFits
<1>2. \A w \in Writers : writer[w].pc = "idle" => writer[w].msg = None
  BY DEF Wellformed, CallFits
<1>. QED
  BY <1>1, <1>2 DEF Punctual, TenMinutes, TimePasses, Idle, Busy

LEMMA GracedWorld ==
    ASSUME Punctual, Wellformed, WorldActs, NEW n \in Msgs, Graced(n)
    PROVE  Graced(n)'
<1>1. CASE TenMinutes \/ TimePasses(Overdue) \/ TimePasses(Ancient)
  <2>1. /\ kind' = kind /\ writer' = writer /\ job' = job /\ row'[n].status = row[n].status
        /\ row[n].age \in Fresh..Ancient /\ row'[n].age \in Fresh..Ancient /\ row'[n].age >= row[n].age
    BY <1>1, TimeStep DEF Ages
  <2>2. /\ row[n].age # Fresh => row'[n].age # Fresh
        /\ row[n].age >= Overdue => row'[n].age >= Overdue
    BY <2>1 DEF Fresh, Overdue, Ancient
  <2>3. OneDelivery(n)'
    BY <2>1 DEF Graced, OneDelivery
  <2>4. ReceivedIsJudged(n)'
    BY <2>1, <2>2 DEF Graced, ReceivedIsJudged
  <2>5. ExpiryIsLate(n)'
    BY <2>1, <2>2 DEF Graced, ExpiryIsLate
  <2>6. FirstWriterAlone(n)'
    BY <1>1, <2>1, ClockFindsNoCall, NoMessage DEF FirstWriterAlone
  <2>. QED
    BY <2>3, <2>4, <2>5, <2>6 DEF Graced
<1>2. CASE Reconfigure \/ UNCHANGED vars
  <2>1. UNCHANGED <<kind, row, writer, job>>
    BY <1>2, ReconfigureStep DEF vars
  <2>2. OneDelivery(n)'
    BY <2>1 DEF Graced, OneDelivery
  <2>3. ReceivedIsJudged(n)'
    BY <2>1 DEF Graced, ReceivedIsJudged
  <2>4. ExpiryIsLate(n)'
    BY <2>1 DEF Graced, ExpiryIsLate
  <2>5. FirstWriterAlone(n)'
    BY <2>1 DEF Graced, FirstWriterAlone
  <2>. QED
    BY <2>2, <2>3, <2>4, <2>5 DEF Graced
<1>. QED
  BY <1>1, <1>2 DEF WorldActs

GraceInv == RowInv /\ \A n \in Msgs : Graced(n)

LEMMA InitGraceInv == ASSUME Init PROVE GraceInv
<1>1. ASSUME NEW n \in Msgs PROVE Graced(n)
  <2>1. /\ \A w \in Writers : writer[w].msg = None
        /\ \A j \in Jobs : job[j].msg = None /\ job[j].todo = {}
        /\ row[n].status = "absent"
    BY Idles DEF Init, NoRow
  <2>. QED
    BY <2>1, NoMessage DEF Graced, OneDelivery, ReceivedIsJudged, ExpiryIsLate, FirstWriterAlone
<1>. QED
  BY <1>1, InitRowInv DEF GraceInv

LEMMA NextGraceInv ==
    ASSUME Punctual, GraceInv, [Next]_vars
    PROVE  GraceInv'
<1>1. Wellformed /\ RowInv' /\ \A n \in Msgs : RowFits(n) /\ Graced(n)
  BY NextRowInv DEF GraceInv, RowInv
<1>2. ASSUME NEW w \in Writers, NEW m \in Msgs, CallActs(w, m), NEW n \in Msgs PROVE Graced(n)'
  BY <1>1, <1>2, CallConcernsOne, GracedUntouched, CallsKeepTheGrace, CallPaysGrace
<1>3. ASSUME NEW j \in Jobs, NEW m \in Msgs, JobActs(j, m), NEW n \in Msgs PROVE Graced(n)'
  BY <1>1, <1>3, JobConcernsOne, GracedUntouched, JobsKeepTheGrace, JobPaysGrace
<1>4. ASSUME NEW j \in Jobs, TaskActs(j), NEW n \in Msgs PROVE Graced(n)'
  BY <1>1, <1>4, GracedTask
<1>5. ASSUME NightProgress, NEW n \in Msgs PROVE Graced(n)'
  BY <1>1, <1>5, GracedTask, JobsAssumption
<1>6. ASSUME WorldActs, NEW n \in Msgs PROVE Graced(n)'
  BY <1>1, <1>6, GracedWorld
<1>7. \A n \in Msgs : Graced(n)'
  BY <1>1, <1>2, <1>3, <1>4, <1>5, <1>6, NextCases
<1>. QED
  BY <1>1, <1>7 DEF GraceInv

\* The grace keeps every judge away from a row whose first writer is at work.
THEOREM GraceHolds == ASSUME Punctual PROVE Spec => []GraceProtectsTheWriter
<1>1. Init => GraceInv
  BY InitGraceInv
<1>2. GraceInv /\ [Next]_vars => GraceInv'
  BY NextGraceInv
<1>3. GraceInv => GraceProtectsTheWriter
  <2>1. ASSUME GraceInv, NEW w \in Writers, writer[w].pc \in {"captured", "canon", "stamp"}
        PROVE  writer[w].msg \in Msgs
    BY <2>1, CallHasMessage DEF GraceInv, RowInv
  <2>. QED
    BY <2>1 DEF GraceInv, Graced, FirstWriterAlone, GraceProtectsTheWriter
<1>. QED
  BY <1>1, <1>2, <1>3, PTL DEF Spec

-----------------------------------------------------------------------------
(* With one command line beside the night *)

\* A third replaying process is beyond what the claim can arbitrate: a command's
\* expiry rewrites rows that another command's replay by id has claimed.
OneCommand == \A i, j \in Jobs : i # Nightly /\ j # Nightly => i = j

\* Who distils itself says so in the row, and in whatever was read of it.
SkipIsDirect(n) ==
    /\ row[n].status # "absent" => ("skip" \in row[n].decisions <=> kind[n] = "direct")
    /\ \A j \in Jobs : n \in job[j].todo \/ job[j].msg = n =>
          ("skip" \in job[j].snap[n].decisions <=> kind[n] = "direct")

\* What a replay leaves out: service rows, rows past its window unless it names
\* them, and rows their own entry distils.
ReplaySpares(n) ==
    \A j \in Jobs : job[j].task = "replay" /\ (n \in job[j].todo \/ job[j].msg = n) =>
        /\ kind[n] # "service"
        /\ ~ job[j].byId => row[n].age < Overdue
        /\ job[j].msg = n /\ job[j].pc \in {"claimed", "stamp"} => kind[n] # "direct"

\* The night's sweep closes what is overdue before its replay and its expiry:
\* the expiry finds service rows only.
NightCloses(n) ==
    /\ ~ job[Nightly].byId
    /\ kind[n] # "service" /\ row[n].status = "received" /\ row[n].age >= Overdue =>
          /\ job[Nightly].task \notin {"replay", "expire"}
          /\ job[Nightly].task = "sweep" => n \in job[Nightly].todo \/ job[Nightly].msg = n
    /\ job[Nightly].task = "expire" /\ n \in job[Nightly].todo => kind[n] = "service"

\* A claimed row stays in processing, not yet stuck, until its claimer is done
\* or the row is tiered away.
Distils(j, n) == job[j].msg = n /\ job[j].pc \in {"claimed", "stamp"}
ClaimStands(r) == r.status = "archived" \/ (r.status = "processing" /\ ~ r.stuck)
ClaimHolds(n) ==
    /\ \A j \in Jobs : Distils(j, n) => ClaimStands(row[n])
    /\ \A i, j \in Jobs : Distils(i, n) /\ Distils(j, n) => i = j

Reserved(n) == SkipIsDirect(n) /\ ReplaySpares(n) /\ NightCloses(n) /\ ClaimHolds(n)

LEMMA ReservedUntouched ==
    ASSUME NEW n \in Msgs, Reserved(n), Untouched(n)
    PROVE  Reserved(n)'
<1>1. SkipIsDirect(n)'
  BY DEF Reserved, SkipIsDirect, Untouched
<1>2. ReplaySpares(n)'
  BY DEF Reserved, ReplaySpares, Untouched
<1>3. NightCloses(n)'
  BY JobsAssumption DEF Reserved, NightCloses, Untouched
<1>4. ClaimHolds(n)'
  BY DEF Reserved, ClaimHolds, Distils, Untouched
<1>. QED
  BY <1>1, <1>2, <1>3, <1>4 DEF Reserved

\* What a step of call w owes to the claim on m, beyond what it owes to the grace.
CallOwesClaim(m) == row'[m].status # "absent" => ("skip" \in row'[m].decisions <=> kind[m] = "direct")

LEMMA CallPaysClaim ==
    ASSUME NEW w \in Writers, NEW m \in Msgs, RowFits(m), Graced(m), Reserved(m), CallStep(w, m),
           writer[w].msg = m \/ Unattended(m), CallOwesGrace(w, m), CallOwesClaim(m)
    PROVE  Reserved(m)'
<1>0. row[m].status = "absent" => row[m].age = Fresh
  BY DEF RowFits, AbsentIsAlone, NoRow
<1>1. SkipIsDirect(m)'
  BY DEF Reserved, SkipIsDirect, CallStep, CallOwesClaim
<1>2. ReplaySpares(m)'
  BY DEF Reserved, ReplaySpares, CallStep, CallOwesGrace
<1>3. NightCloses(m)'
  BY <1>0 DEF Reserved, NightCloses, CallStep, CallOwesGrace, Fresh, Overdue
<1>4. ClaimHolds(m)'
  <2>1. \A j \in Jobs : ~ Distils(j, m)
    BY DEF Graced, OneDelivery, Unattended, Distils
  <2>. QED
    BY <2>1 DEF ClaimHolds, Distils, CallStep
<1>. QED
  BY <1>1, <1>2, <1>3, <1>4 DEF Reserved

LEMMA ClosedSkip ==
    ASSUME NEW r, NEW c, NEW status, NEW why, ClosedAs(r, c, status, why), "skip" \notin why
    PROVE  "skip" \in c.decisions <=> "skip" \in r.decisions
  BY DEF ClosedAs

LEMMA NoReasonSkips ==
    /\ \A status : "skip" \notin Refusal(status) \/ config \notin Configs
    /\ \A verdict : "skip" \notin Why(verdict)
    /\ \A c \in Configs : c # "skip"
  BY Sets DEF Refusal, Why, Reasons

LEMMA CallsKeepTheClaim ==
    ASSUME Wellformed, NEW w \in Writers, NEW m \in Msgs, RowFits(m), SkipIsDirect(m), CallActs(w, m)
    PROVE  CallOwesClaim(m)
<1>1. /\ row[m].status # "absent" => ("skip" \in row[m].decisions <=> kind[m] = "direct")
      /\ row[m].status = "absent" /\ writer[w].msg = m => writer[w].pc = "admitted"
      /\ config \in Configs /\ CallFits(writer[w])
  BY DEF SkipIsDirect, RowFits, AbsentIsAlone, Wellformed, Typed
<1>2. CASE row' = row
  BY <1>1, <1>2 DEF CallOwesClaim
<1>3. CASE m = writer[w].msg /\ FindJudges(w)
  <2>1. writer[w].pc = "judge" /\ ClosedAs(row[m], row'[m], writer[w].status, Why(writer[w].status))
    BY <1>3, FindJudgesStep DEF FindJudges
  <2>. QED
    BY <1>1, <1>3, <2>1, ClosedSkip, NoReasonSkips DEF CallOwesClaim
<1>4. CASE m = writer[w].msg /\ Capture(w)
  <2>1. /\ row[m].status # "absent" => row'[m] = row[m]
        /\ row[m].status = "absent" => row'[m].decisions = (IF kind[m] = "direct" THEN {"skip"} ELSE {})
    BY <1>4, CaptureStep
  <2>. QED
    BY <1>1, <2>1 DEF CallOwesClaim
<1>5. CASE m = writer[w].msg /\ PersonaStamp(w)
  <2>1. writer[w].pc = "canon" /\ OverwrittenAs(row[m], row'[m], "promoted_l4", row[m].decisions)
    BY <1>5, PersonaStampStep DEF PersonaStamp
  <2>. QED
    BY <1>1, <1>5, <2>1 DEF CallOwesClaim, OverwrittenAs
<1>6. CASE m = writer[w].msg /\ Stamp(w)
  <2>1. writer[w].pc = "stamp" /\ ClosedAs(row[m], row'[m], writer[w].status, Refusal(writer[w].status))
    BY <1>6, StampStep DEF Stamp
  <2>. QED
    BY <1>1, <1>6, <2>1, ClosedSkip, NoReasonSkips DEF CallOwesClaim
<1>7. CASE m = writer[w].msg /\ CloseUnaccounted(w)
  <2>1. /\ writer[w].pc = "finally"
        /\ row'[m] = row[m] \/ ClosedAs(row[m], row'[m], "gated_out", {"unaccounted"})
    BY <1>7, CloseUnaccountedStep DEF CloseUnaccounted
  <2>. QED
    BY <1>1, <1>7, <2>1, ClosedSkip DEF CallOwesClaim
<1>8. CASE m = writer[w].msg /\ DirectStamps(w)
  <2>1. writer[w].pc \in {"captured", "stamp"} /\ ClosedAs(row[m], row'[m], "routed_direct", {})
    BY <1>8, DirectStampsStep DEF DirectStamps
  <2>. QED
    BY <1>1, <1>8, <2>1, ClosedSkip DEF CallOwesClaim
<1>9. ASSUME \/ FindNothing(w, m) \/ FindReceived(w, m) \/ Enter(w, m) \/ WriterDies(w)
             \/ GateRefuses(w) \/ DreamMarker(w) \/ NoManager(w) \/ PersonaCanon(w) \/ PipelineRaises(w) \/ DirectWrites(w)
             \/ \E levels \in Routes : PipelineRoutes(w, levels)
      PROVE  row' = row
  BY <1>9 DEF FindNothing, FindReceived, Enter, WriterDies, GateRefuses, DreamMarker, NoManager, PersonaCanon,
     PipelineRaises, DirectWrites, PipelineRoutes
<1>. QED
  BY <1>2, <1>3, <1>4, <1>5, <1>6, <1>7, <1>8, <1>9 DEF CallActs, WriterProgress

\* Another job distils m.
Contended(j, m) == \E i \in Jobs : i # j /\ Distils(i, m)

\* What a step of job j owes to the claim on m, beyond what it owes to the grace.
JobOwesClaim(j, m) ==
    /\ "skip" \in row'[m].decisions <=> kind[m] = "direct"
    /\ row'[m] # row[m] => ~ Contended(j, m)
    /\ job'[j].msg = m /\ job'[j].pc \in {"claimed", "stamp"} =>
          ~ Contended(j, m) /\ kind[m] # "direct" /\ ClaimStands(row'[m])
    /\ job[j].task = "sweep" /\ row'[m].status = "received" /\ row[m].age >= Overdue => job'[j].msg = m

LEMMA JobPaysClaim ==
    ASSUME NEW j \in Jobs, NEW m \in Msgs, Reserved(m), JobStep(j, m), JobOwesGrace(j, m), JobOwesClaim(j, m),
           job[j].msg = m \/ m \in job[j].todo,
           NEW pc, NEW status, GoesOn(job[j], job'[j], pc, m, status)
    PROVE  Reserved(m)'
<1>1. SkipIsDirect(m)'
  BY NoMessage DEF Reserved, SkipIsDirect, JobStep, JobOwesClaim, GoesOn
<1>2. ReplaySpares(m)'
  BY DEF Reserved, ReplaySpares, JobStep, JobOwesGrace, JobOwesClaim, GoesOn
<1>3. NightCloses(m)'
  <2>1. CASE j = Nightly
    BY <2>1 DEF Reserved, NightCloses, JobStep, JobOwesGrace, JobOwesClaim, GoesOn
  <2>2. CASE j # Nightly
    BY <2>2, JobsAssumption DEF Reserved, NightCloses, JobStep, JobOwesGrace
  <2>. QED
    BY <2>1, <2>2
<1>4. ClaimHolds(m)'
  <2>1. ASSUME NEW i \in Jobs, Distils(i, m)' PROVE i = j \/ Distils(i, m)
    BY <2>1 DEF JobStep, Distils
  <2>2. Distils(j, m)' => ~ Contended(j, m) /\ ClaimStands(row'[m])
    BY DEF JobOwesClaim, Distils
  <2>3. row'[m] # row[m] => ~ Contended(j, m)
    BY DEF JobOwesClaim
  <2>. QED
    BY <2>1, <2>2, <2>3 DEF Reserved, ClaimHolds, Contended
<1>. QED
  BY <1>1, <1>2, <1>3, <1>4 DEF Reserved

LEMMA JobsKeepTheClaim ==
    ASSUME Wellformed, NEW j \in Jobs, NEW m \in Msgs, RowFits(m), Reserved(m), JobActs(j, m)
    PROVE  JobOwesClaim(j, m) /\ (job[j].msg = m \/ m \in job[j].todo)
<1>1. /\ m # None /\ TaskFits(job[j]) /\ m \in Msgs
      /\ job[j].msg = m \/ m \in job[j].todo =>
            /\ row[m].status # "absent"
            /\ "skip" \in row[m].decisions <=> kind[m] = "direct"
            /\ "skip" \in job[j].snap[m].decisions <=> kind[m] = "direct"
  BY NoMessage DEF Wellformed, Reserved, SkipIsDirect, RowFits, AbsentIsAlone
<1>2. /\ Contended(j, m) => ClaimStands(row[m]) /\ kind[m] # "direct" /\ ~ Distils(j, m)
      /\ Distils(j, m) => ClaimStands(row[m]) /\ kind[m] # "direct"
  <2>1. ASSUME NEW i \in Jobs, Distils(i, m) PROVE ClaimStands(row[m]) /\ kind[m] # "direct"
    <3>1. job[i].task = "replay"
      BY <2>1 DEF Wellformed, TaskFits, Distils
    <3>. QED
      BY <2>1, <3>1 DEF Reserved, ReplaySpares, ClaimHolds, Distils
  <2>2. Contended(j, m) => ~ Distils(j, m)
    BY DEF Contended, Reserved, ClaimHolds
  <2>. QED
    BY <2>1, <2>2 DEF Contended
<1> HIDE DEF Contended
<1>3. CASE ReadEvidence(j, m)
  <2>1. /\ row' = row /\ m \in job[j].todo
        /\ IF Judgeable(m) THEN GoesOn(job[j], job'[j], "judge", m, Verdict(m))
                           ELSE GoesOn(job[j], job'[j], "next", m, "absent")
    BY <1>3, ReadEvidenceStep DEF ReadEvidence
  <2>2. row[m].status = "received" /\ row[m].age >= Overdue => Judgeable(m)
    BY DEF Judgeable, Overdue, Fresh
  <2>. QED
    BY <1>1, <2>1, <2>2 DEF JobOwesClaim, GoesOn
<1>4. CASE TakeRow(j, m)
  <2>1. /\ row' = row /\ m \in job[j].todo /\ job[j].task = "replay"
        /\ GoesOn(job[j], job'[j], "claim", m, "absent")
    BY <1>4, TakeRowStep DEF TakeRow, At
  <2>. QED
    BY <1>1, <2>1 DEF JobOwesClaim, GoesOn
<1>5. CASE m = job[j].msg /\ CloseByEvidence(j)
  <2>1. /\ job[j].pc = "judge"
        /\ ClosedAs(row[m], row'[m], job[j].status, Why(job[j].status))
        /\ \E pc : pc \in {"claim", "next"} /\ GoesOn(job[j], job'[j], pc, m, "absent")
    BY <1>5, CloseByEvidenceStep DEF CloseByEvidence
  <2>2. row'[m].status # "received" /\ ("skip" \in row'[m].decisions <=> "skip" \in row[m].decisions)
    BY <1>1, <2>1, ClosedSkip, NoReasonSkips DEF ClosedAs, TaskFits, Judgements, Saved
  <2>3. Contended(j, m) => row'[m] = row[m]
    BY <1>2, <2>1 DEF ClosedAs, ClaimStands, WriteNeverHappened
  <2>. QED
    BY <1>1, <1>5, <2>1, <2>2, <2>3 DEF JobOwesClaim, GoesOn
<1>6. CASE m = job[j].msg /\ (SkipJudged(j) \/ ClaimBusy(j))
  <2>1. row' = row /\ job[j].task = "replay" /\ GoesOn(job[j], job'[j], "next", m, "absent")
    BY <1>6, PassOverStep DEF SkipJudged, ClaimBusy, At
  <2>. QED
    BY <1>1, <1>6, <2>1 DEF JobOwesClaim, GoesOn
<1>7. CASE m = job[j].msg /\ SkipDirect(j)
  <2>1. /\ GoesOn(job[j], job'[j], "next", m, "absent") /\ job[j].task = "replay"
        /\ OverwrittenAs(row[m], row'[m], "routed_direct", row[m].decisions)
        /\ "skip" \in job[j].snap[m].decisions
    BY <1>7, SkipDirectStep DEF SkipDirect, Snap, At
  <2>. QED
    BY <1>1, <1>2, <1>7, <2>1 DEF JobOwesClaim, GoesOn, OverwrittenAs
<1>8. CASE m = job[j].msg /\ Claim(j)
  <2>1. job[j].task = "replay" /\ "skip" \notin job[j].snap[m].decisions
    BY <1>8 DEF Claim, Snap, At
  <2>2. CASE Claimable(j, row[m])
    <3>1. /\ GoesOn(job[j], job'[j], "claimed", m, "absent")
          /\ row'[m].status = "processing" /\ row'[m].stuck = FALSE /\ row'[m].decisions = row[m].decisions
      BY <1>8, <2>2, ClaimStep
    <3>2. ~ Contended(j, m)
      BY <1>2, <2>2 DEF Claimable, ClaimStands
    <3>. QED
      BY <1>1, <1>8, <2>1, <3>1, <3>2 DEF JobOwesClaim, ClaimStands
  <2>3. CASE ~ Claimable(j, row[m])
    <3>1. row' = row /\ GoesOn(job[j], job'[j], "next", m, "absent")
      BY <1>8, <2>3, ClaimStep
    <3>. QED
      BY <1>1, <1>8, <2>1, <3>1 DEF JobOwesClaim, GoesOn
  <2>. QED
    BY <2>2, <2>3
<1>9. CASE m = job[j].msg /\ ReplayFindsKnown(j)
  <2>1. row' = row /\ Distils(j, m) /\ job[j].task = "replay"
    BY <1>9 DEF ReplayFindsKnown, At, Distils
  <2>. QED
    BY <1>1, <1>2, <1>9, <2>1 DEF JobOwesClaim
<1>10. CASE m = job[j].msg /\ (ReplayGateRefuses(j) \/ ReplayStamps(j))
  <2>1. /\ Distils(j, m) /\ job[j].task = "replay" /\ GoesOn(job[j], job'[j], "next", m, "absent")
        /\ \E status \in Judgements :
              OverwrittenAs(row[m], row'[m], status, job[j].snap[m].decisions \cup {job[j].hash})
    <3>1. CASE ReplayGateRefuses(j)
      BY <1>10, <3>1, ReplayEndsStep DEF Judgements, ReplayGateRefuses, At, Distils
    <3>2. CASE ReplayStamps(j)
      <4>1. job[j].status \in Judgements
        BY <1>1, <3>2 DEF TaskFits, ReplayStamps, At
      <4>. QED
        BY <1>10, <3>2, <4>1, ReplayEndsStep DEF ReplayStamps, At, Distils
    <3>. QED
      BY <1>10, <3>1, <3>2
  <2>2. "skip" \in row'[m].decisions <=> kind[m] = "direct"
    <3>1. job[j].hash # "skip"
      BY <1>1, <2>1, NoReasonSkips DEF TaskFits
    <3>. QED
      BY <1>1, <1>10, <2>1, <3>1 DEF OverwrittenAs
  <2>. QED
    BY <1>1, <1>2, <1>10, <2>1, <2>2 DEF JobOwesClaim, GoesOn
<1>11. ASSUME m = job[j].msg, NEW levels \in Routes, ReplayRoutes(j, levels)
       PROVE  JobOwesClaim(j, m) /\ (job[j].msg = m \/ m \in job[j].todo)
  <2>1. row' = row /\ Distils(j, m) /\ job[j].task = "replay"
    BY <1>11 DEF ReplayRoutes, At, Distils
  <2>. QED
    BY <1>1, <1>2, <1>11, <2>1 DEF JobOwesClaim
<1>. QED
  BY <1>3, <1>4, <1>5, <1>6, <1>7, <1>8, <1>9, <1>10, <1>11 DEF JobActs

\* What a night's task finds when it starts.
LEMMA StartsReserved ==
    ASSUME Wellformed, NEW j \in Jobs, CommandStarts(j) \/ (j = Nightly /\ NightProgress),
           NEW n \in Msgs, Reserved(n)
    PROVE  /\ JobAlone(j) /\ job'[j].msg = None /\ job'[j].pc = "next"
           /\ n \in job'[j].todo => row[n].status # "absent" /\ job'[j].snap[n].decisions = row[n].decisions
           /\ job'[j].task = "replay" /\ n \in job'[j].todo =>
                 kind[n] # "service" /\ (~ job'[j].byId => row[n].age < Overdue)
           /\ j = Nightly => NightCloses(n)'
<1>0. SnapOf(row[n]).decisions = row[n].decisions
  BY DEF SnapOf
<1>1. /\ n \in Window => kind[n] # "service" /\ row[n].age < Overdue
      /\ n \in Named => kind[n] # "service"
  BY DEF Window, Named, Fresh, Settled, Overdue
<1>2. n \in Stranded \cup Window \cup Named \cup Expired \cup ColdRows => row[n].status # "absent"
  BY DEF Stranded, Window, Named, Expired, ColdRows, Processed, Saved
<1>3. CASE CommandStarts(j)
  <2>1. /\ JobAlone(j) /\ j # Nightly
        /\ \/ Started(j, "replay", Window, FALSE)
           \/ Started(j, "replay", Named, TRUE)
           \/ Started(j, "expire", Expired, FALSE)
    BY <1>3, CommandTurns
  <2>. QED
    BY <1>0, <1>1, <1>2, <2>1 DEF Started
<1>4. CASE j = Nightly /\ NightProgress
  <2>1. /\ JobAlone(j) /\ job[j].todo = {} /\ job[j].msg = None
        /\ \/ job[j].task = "idle" /\ Started(j, "sweep", Stranded, FALSE)
           \/ job[j].task = "sweep" /\ Started(j, "replay", Window, FALSE)
           \/ job[j].task = "replay" /\ Started(j, "expire", Expired, FALSE)
           \/ job[j].task = "expire" /\ Started(j, "tier", ColdRows, FALSE)
           \/ job[j].task = "tier" /\ Started(j, "idle", {}, FALSE)
    BY <1>4, NightCases
  <2>2. /\ row[n].status = "received" /\ kind[n] # "service" => n \in Stranded
        /\ n \in Expired => row[n].status = "received" /\ row[n].age >= Overdue
    BY DEF Stranded, Expired, Overdue, Ancient
  <2>3. NightCloses(n)'
    <3>1. kind' = kind /\ row' = row
      BY <2>1 DEF JobAlone
    <3>2. kind[n] # "service" /\ row[n].status = "received" /\ row[n].age >= Overdue =>
             job[j].task \notin {"replay", "expire", "sweep"}
      BY <1>4, <2>1, NoMessage DEF Reserved, NightCloses
    <3>. QED
      BY <1>4, <2>1, <2>2, <3>1, <3>2 DEF NightCloses, Started
  <2>. QED
    BY <1>0, <1>1, <1>2, <2>1, <2>3 DEF Started
<1>. QED
  BY <1>3, <1>4

\* No replay has, or has yet to take, what an expiry is about to close.
LEMMA ExpiryFindsNoReplay ==
    ASSUME OneCommand, Wellformed, NEW j \in Jobs, job[j].task = "expire", NEW n \in Msgs, n \in job[j].todo,
           Graced(n), Reserved(n), NEW i \in Jobs, n \in job[i].todo \/ job[i].msg = n
    PROVE  job[i].task # "replay"
<1> SUFFICES ASSUME job[i].task = "replay" PROVE FALSE
  OBVIOUS
<1>1. kind[n] # "service"
  BY DEF Reserved, ReplaySpares
<1>2. j # Nightly
  BY <1>1 DEF Reserved, NightCloses
<1>3. i = Nightly
  BY <1>2 DEF OneCommand
<1>4. row[n].age < Overdue
  BY <1>3 DEF Reserved, NightCloses, ReplaySpares
<1>5. row[n].age >= Overdue
  BY DEF Graced, ExpiryIsLate
<1>6. row[n].age \in Fresh..Ancient
  BY DEF Wellformed, Typed, Row
<1>. QED
  BY <1>4, <1>5, <1>6 DEF Fresh, Ancient, Overdue

LEMMA ExpiryFindsNoClaim ==
    ASSUME OneCommand, Wellformed, NEW j \in Jobs, job[j].task = "expire", NEW n \in Msgs, n \in job[j].todo,
           Graced(n), Reserved(n), NEW i \in Jobs
    PROVE  ~ Distils(i, n)
<1>1. Distils(i, n) => job[i].task = "replay" /\ job[i].msg = n
  BY DEF Wellformed, TaskFits, Distils
<1>. QED
  BY <1>1, ExpiryFindsNoReplay

LEMMA ReservedTask ==
    ASSUME OneCommand, Wellformed, NEW j \in Jobs, TaskActs(j) \/ (j = Nightly /\ NightProgress),
           NEW n \in Msgs, RowFits(n), Graced(n), Reserved(n)
    PROVE  Reserved(n)'
<1>1. CASE CommandStarts(j) \/ (j = Nightly /\ NightProgress)
  <2>1. /\ JobAlone(j) /\ job'[j].msg # n /\ job'[j].pc = "next"
        /\ n \in job'[j].todo => row[n].status # "absent" /\ job'[j].snap[n].decisions = row[n].decisions
        /\ job'[j].task = "replay" /\ n \in job'[j].todo =>
              kind[n] # "service" /\ (~ job'[j].byId => row[n].age < Overdue)
        /\ j = Nightly => NightCloses(n)'
    BY <1>1, StartsReserved, NoMessage
  <2>2. SkipIsDirect(n)'
    BY <2>1 DEF Reserved, SkipIsDirect, JobAlone
  <2>3. ReplaySpares(n)'
    BY <2>1 DEF Reserved, ReplaySpares, JobAlone
  <2>4. NightCloses(n)'
    BY <2>1, JobsAssumption DEF Reserved, NightCloses, JobAlone
  <2>5. ClaimHolds(n)'
    BY <2>1 DEF Reserved, ClaimHolds, Distils, JobAlone
  <2>. QED
    BY <2>2, <2>3, <2>4, <2>5 DEF Reserved
<1>2. CASE CommandEnds(j) \/ JobDies(j)
  <2>1. /\ JobAlone(j) /\ job'[j].msg # n /\ job'[j].todo = {}
        /\ job'[j].task = "idle" /\ job'[j].byId = FALSE
    BY <1>2, TaskEnds, Idles, NoMessage
  <2>2. SkipIsDirect(n)'
    BY <2>1 DEF Reserved, SkipIsDirect, JobAlone
  <2>3. ReplaySpares(n)'
    BY <2>1 DEF Reserved, ReplaySpares, JobAlone
  <2>4. NightCloses(n)'
    BY <2>1, JobsAssumption DEF Reserved, NightCloses, JobAlone
  <2>5. ClaimHolds(n)'
    BY <2>1 DEF Reserved, ClaimHolds, Distils, JobAlone
  <2>. QED
    BY <2>2, <2>3, <2>4, <2>5 DEF Reserved
<1>3. CASE Expire(j) \/ Archive(j)
  <2>1. /\ Drained(j) /\ job[j].task \in {"expire", "tier"} /\ job'[j].msg # n
        /\ \/ row'[n] = row[n]
           \/ /\ n \in job[j].todo /\ row[n].status # "absent"
              /\ row'[n].age = row[n].age /\ row'[n].status # "received"
              /\ "skip" \in row'[n].decisions <=> kind[n] = "direct"
        /\ \A i \in Jobs : Distils(i, n) => ClaimStands(row'[n])
    <3>0. /\ n \in job[j].todo => row[n].status # "absent"
          /\ row[n].status # "absent" => ("skip" \in row[n].decisions <=> kind[n] = "direct")
          /\ n \in job[j].todo => ("skip" \in job[j].snap[n].decisions <=> kind[n] = "direct")
          /\ \A i \in Jobs : Distils(i, n) => ClaimStands(row[n])
      BY DEF RowFits, AbsentIsAlone, Reserved, SkipIsDirect, ClaimHolds
    <3>1. CASE Expire(j)
      <4>1. /\ Drained(j) /\ job[j].task = "expire" /\ job[j].hash # "skip"
            /\ n \notin job[j].todo => row'[n] = row[n]
            /\ n \in job[j].todo =>
                  OverwrittenAs(row[n], row'[n], "gated_out", job[j].snap[n].decisions \cup {"expired", job[j].hash})
        BY <3>1, ExpireStep, NoReasonSkips
      <4>2. n \in job[j].todo => \A i \in Jobs : ~ Distils(i, n)
        BY <4>1, ExpiryFindsNoClaim
      <4>3. row'[n] = row[n] \/ (/\ n \in job[j].todo /\ row'[n].age = row[n].age /\ row'[n].status = "gated_out"
                                 /\ "skip" \in row'[n].decisions <=> "skip" \in job[j].snap[n].decisions)
        BY <4>1 DEF OverwrittenAs
      <4>. QED
        BY <3>0, <4>1, <4>2, <4>3, NoMessage DEF Drained
    <3>2. CASE Archive(j)
      BY <3>0, <3>2, ArchiveStep, NoMessage DEF ClaimStands, Drained
    <3>. QED
      BY <1>3, <3>1, <3>2
  <2>2. SkipIsDirect(n)'
    BY <2>1 DEF Reserved, SkipIsDirect, Drained
  <2>3. ReplaySpares(n)'
    BY <2>1 DEF Reserved, ReplaySpares, Drained
  <2>4. NightCloses(n)'
    <3>1. CASE j = Nightly
      BY <2>1, <3>1 DEF Reserved, NightCloses, Drained
    <3>2. CASE j # Nightly
      BY <2>1, <3>2, JobsAssumption DEF Reserved, NightCloses, Drained
    <3>. QED
      BY <3>1, <3>2
  <2>5. ClaimHolds(n)'
    <3>1. ASSUME NEW i \in Jobs, Distils(i, n)' PROVE Distils(i, n)
      BY <2>1, <3>1 DEF Drained, Distils
    <3>2. ASSUME NEW i \in Jobs, Distils(i, n)' PROVE ClaimStands(row[n])'
      BY <2>1, <3>1, <3>2 DEF ClaimStands
    <3>. QED
      BY <3>1, <3>2 DEF Reserved, ClaimHolds
  <2>. QED
    BY <2>2, <2>3, <2>4, <2>5 DEF Reserved
<1>. QED
  BY <1>1, <1>2, <1>3 DEF TaskActs

\* Ten minutes end a grace, never a window.
LEMMA MinutesAreNotDays ==
    ASSUME Wellformed, TenMinutes, NEW n \in Msgs
    PROVE  /\ row[n].age < Overdue => row'[n].age < Overdue
           /\ row'[n].age >= Overdue => row[n].age >= Overdue
<1>1. row[n] \in Row /\ row'[n] = Aged(row[n], Settled)
  BY DEF Wellformed, Typed, TenMinutes
<1>2. row[n].age \in 0..3
  BY <1>1 DEF Row, Fresh, Ancient
<1>3. row'[n].age = row[n].age \/ (row[n].age < Settled /\ row'[n].age = Settled)
  BY <1>1 DEF Aged, Row
<1>. QED
  BY <1>2, <1>3 DEF Settled, Overdue

LEMMA ReservedWorld ==
    ASSUME Punctual, Wellformed, WorldActs, NEW n \in Msgs, Reserved(n)
    PROVE  Reserved(n)'
<1>1. CASE TenMinutes \/ TimePasses(Overdue) \/ TimePasses(Ancient)
  <2>1. /\ kind' = kind /\ job' = job
        /\ row'[n].status = row[n].status /\ row'[n].decisions = row[n].decisions
        /\ \A j \in Jobs : ~ Distils(j, n)
    BY <1>1, TimeStep, ClockFindsNoCall DEF Ages, Distils
  <2>2. \/ \A j \in Jobs : job[j].task = "idle"
        \/ /\ row[n].age < Overdue => row'[n].age < Overdue
           /\ row'[n].age >= Overdue => row[n].age >= Overdue
    BY <1>1, MinutesAreNotDays DEF TimePasses, Idle
  <2>3. SkipIsDirect(n)'
    BY <2>1 DEF Reserved, SkipIsDirect
  <2>4. ReplaySpares(n)'
    BY <2>1, <2>2 DEF Reserved, ReplaySpares
  <2>5. NightCloses(n)'
    BY <2>1, <2>2, JobsAssumption DEF Reserved, NightCloses
  <2>6. ClaimHolds(n)'
    BY <2>1 DEF ClaimHolds, Distils
  <2>. QED
    BY <2>3, <2>4, <2>5, <2>6 DEF Reserved
<1>2. CASE Reconfigure \/ UNCHANGED vars
  <2>1. UNCHANGED <<kind, row, job>>
    BY <1>2, ReconfigureStep DEF vars
  <2>2. SkipIsDirect(n)'
    BY <2>1 DEF Reserved, SkipIsDirect
  <2>3. ReplaySpares(n)'
    BY <2>1 DEF Reserved, ReplaySpares
  <2>4. NightCloses(n)'
    BY <2>1 DEF Reserved, NightCloses
  <2>5. ClaimHolds(n)'
    BY <2>1 DEF Reserved, ClaimHolds, Distils, ClaimStands
  <2>. QED
    BY <2>2, <2>3, <2>4, <2>5 DEF Reserved
<1>. QED
  BY <1>1, <1>2 DEF WorldActs

ClaimInv == GraceInv /\ \A n \in Msgs : Reserved(n)

LEMMA InitClaimInv == ASSUME Init PROVE ClaimInv
<1>1. ASSUME NEW n \in Msgs PROVE Reserved(n)
  <2>1. /\ \A j \in Jobs : job[j].msg = None /\ job[j].todo = {} /\ job[j].task = "idle" /\ job[j].byId = FALSE
        /\ row[n].status = "absent"
    BY Idles DEF Init, NoRow
  <2>. QED
    BY <2>1, NoMessage, JobsAssumption DEF Reserved, SkipIsDirect, ReplaySpares, NightCloses, ClaimHolds, Distils
<1>. QED
  BY <1>1, InitGraceInv DEF ClaimInv

LEMMA NextClaimInv ==
    ASSUME Punctual, OneCommand, ClaimInv, [Next]_vars
    PROVE  ClaimInv'
<1>1. Wellformed /\ GraceInv' /\ \A n \in Msgs : RowFits(n) /\ Graced(n) /\ Reserved(n)
  BY NextGraceInv DEF ClaimInv, GraceInv, RowInv
<1>2. ASSUME NEW w \in Writers, NEW m \in Msgs, CallActs(w, m), NEW n \in Msgs PROVE Reserved(n)'
  <2>1. CallOwesClaim(m)
    BY <1>1, <1>2, CallsKeepTheClaim DEF Reserved
  <2>. QED
    BY <1>1, <1>2, <2>1, CallConcernsOne, ReservedUntouched, CallsKeepTheGrace, CallPaysClaim
<1>3. ASSUME NEW j \in Jobs, NEW m \in Msgs, JobActs(j, m), NEW n \in Msgs PROVE Reserved(n)'
  <2>1. JobOwesClaim(j, m) /\ (job[j].msg = m \/ m \in job[j].todo)
    BY <1>1, <1>3, JobsKeepTheClaim
  <2>. QED
    BY <1>1, <1>3, <2>1, JobConcernsOne, ReservedUntouched, JobsKeepTheGrace, JobPaysClaim
<1>4. ASSUME NEW j \in Jobs, TaskActs(j), NEW n \in Msgs PROVE Reserved(n)'
  BY <1>1, <1>4, ReservedTask
<1>5. ASSUME NightProgress, NEW n \in Msgs PROVE Reserved(n)'
  BY <1>1, <1>5, ReservedTask, JobsAssumption
<1>6. ASSUME WorldActs, NEW n \in Msgs PROVE Reserved(n)'
  BY <1>1, <1>6, ReservedWorld
<1>7. \A n \in Msgs : Reserved(n)'
  BY <1>1, <1>2, <1>3, <1>4, <1>5, <1>6, NextCases
<1>. QED
  BY <1>1, <1>7 DEF ClaimInv

\* One writer at a time: the grace keeps the judges away from a row's first writer,
\* and the claim keeps its replays from one another.
THEOREM OneWriter == ASSUME Punctual, OneCommand PROVE Spec => []OneWriterAtATime
<1>1. Init => ClaimInv
  BY InitClaimInv
<1>2. ClaimInv /\ [Next]_vars => ClaimInv'
  BY NextClaimInv
<1>3. ClaimInv => ReplaysExclude
  <2>1. ASSUME ClaimInv, NEW m \in Msgs PROVE Cardinality(Claimed(m)) <= 1
    <3>1. \A i, j \in Claimed(m) : i = j
      BY <2>1 DEF ClaimInv, Reserved, ClaimHolds, Distils, Claimed
    <3>2. CASE Claimed(m) = {}
      BY <3>2, FS_EmptySet
    <3>3. CASE Claimed(m) # {}
      <4>1. PICK j : Claimed(m) = {j}
        BY <3>1, <3>3
      <4>. QED
        BY <4>1, FS_Singleton
    <3>. QED
      BY <3>2, <3>3
  <2>. QED
    BY <2>1 DEF ReplaysExclude
<1>4. Spec => []ReplaysExclude
  BY <1>1, <1>2, <1>3, PTL DEF Spec
<1>. QED
  BY <1>4, GraceHolds, PTL DEF OneWriterAtATime

-----------------------------------------------------------------------------
(* Without any fault: what is written once, and what a status says of it *)

Quiet == Faults = {}

LEMMA QuietIsPunctual == ASSUME Quiet PROVE Punctual
  BY DEF Quiet, Punctual

Unexpired(r) == "expired" \notin r.decisions
Judged(r) == r.decisions \cap Configs # {}
Closeable(r) == r.status = "received" \/ WriteNeverHappened(r)
Retried(r) == WriteNeverHappened(r) \/ r.status = "archived"

\* A received row has no verdict, an expired one has, and a refused one says why.
VerdictFits(r) ==
    /\ r.status = "received" => ~ Judged(r)
    /\ ~ Unexpired(r) => Judged(r)
    /\ r.status = "gated_out" => Judged(r) \/ "unaccounted" \in r.decisions

\* No row expires, or comes back from it, under a replay that has read it.
ReplayKnowsExpiry(n) ==
    \A j \in Jobs : job[j].task = "replay" /\ (n \in job[j].todo \/ job[j].msg = n) =>
        ("expired" \in job[j].snap[n].decisions <=> "expired" \in row[n].decisions)

\* Nothing was written before the pipeline of delivery c writes, and a retry
\* writes under a row whose write never happened.
CallAgrees(c, r, h) ==
    /\ c.pc = "judge" /\ c.status = "gated_out" => h.writes = 0 /\ (r.status = "received" \/ Retried(r))
    /\ c.pc = "admitted" => h.writes = 0 /\ (r.status = "absent" \/ Retried(r))
    /\ c.pc = "captured" => h.writes = 0
    /\ c.pc = "stamp" /\ c.status = "gated_out" => h.writes = 0
    /\ c.pc \in {"captured", "canon", "stamp"} /\ ~ c.fresh => Retried(r)
    /\ c.pc = "finally" /\ Closeable(r) => h.writes = 0

DeliveryFits(n) == \A w \in Writers : writer[w].msg = n => CallAgrees(writer[w], row[n], held[n])

\* What was written shows: in the status, in the evidence, or in a delivery or a
\* replay that has yet to stamp it.
Writing(w, n) == writer[w].msg = n /\ Unproven(w)
WriteShows(n) ==
    held[n].writes > 0 =>
        /\ row[n].status # "absent"
        /\ row[n].status = "received" => held[n].evidence # {} \/ \E w \in Writers : Writing(w, n)
        /\ WriteNeverHappened(row[n]) => \E w \in Writers : Writing(w, n)
        /\ row[n].status = "gated_out" => ~ Judged(row[n])
        /\ row[n].status = "processing" => \E j \in Jobs : Distils(j, n) /\ job[j].pc = "stamp"

\* The same of a replay, and of a judge that read the evidence.
JobAgrees(t, r, h) ==
    /\ t.pc = "claimed" => h.writes = 0
    /\ t.pc = "stamp" /\ t.status = "gated_out" => h.writes = 0
    /\ t.pc = "judge" /\ t.status = "gated_out" /\ r.status = "received" => h.writes = 0
    /\ t.pc = "judge" /\ t.status \in Saved => ~ WriteNeverHappened(r)

ReplayFits(n) ==
    /\ row[n].status = "processing" => \A w \in Writers : writer[w].msg # n
    /\ \A j \in Jobs : job[j].msg = n => JobAgrees(job[j], row[n], held[n])

Accounted(n) == DeliveryFits(n) /\ WriteShows(n) /\ ReplayFits(n) /\ held[n].writes <= 1

Honest(n) ==
    kind[n] = "hook" =>
        VerdictFits(row[n]) /\ ReplayKnowsExpiry(n) /\ (Unexpired(row[n]) => Accounted(n))

LEMMA HonestUntouched ==
    ASSUME NEW n \in Msgs, Honest(n), Untouched(n)
    PROVE  Honest(n)'
<1>0. kind'[n] = kind[n] /\ row'[n] = row[n] /\ held'[n] = held[n]
  BY DEF Untouched
<1>1. ReplayKnowsExpiry(n) => ReplayKnowsExpiry(n)'
  BY DEF ReplayKnowsExpiry, Untouched
<1>2. DeliveryFits(n) => DeliveryFits(n)'
  BY <1>0 DEF DeliveryFits, Untouched
<1>3. WriteShows(n) => WriteShows(n)'
  <2>1. \A w \in Writers : Writing(w, n) => Writing(w, n)'
    BY DEF Writing, Unproven, Untouched
  <2>2. \A j \in Jobs : Distils(j, n) /\ job[j].pc = "stamp" => Distils(j, n)' /\ job'[j].pc = "stamp"
    BY DEF Distils, Untouched
  <2>. QED
    BY <1>0, <2>1, <2>2 DEF WriteShows
<1>4. ReplayFits(n) => ReplayFits(n)'
  BY <1>0 DEF ReplayFits, JobAgrees, Untouched
<1>. QED
  BY <1>0, <1>1, <1>2, <1>3, <1>4 DEF Honest, Accounted

\* What the closers make of a row's verdict.
LEMMA UnaccountedClose ==
    ASSUME NEW r, NEW c, VerdictFits(r), ClosedAs(r, c, "gated_out", {"unaccounted"})
    PROVE  /\ VerdictFits(c) /\ ("expired" \in c.decisions <=> "expired" \in r.decisions)
           /\ Closeable(r) => WriteNeverHappened(c)
           /\ ~ Closeable(r) => c = r
<1>1. CASE Closeable(r)
  <2>1. c.status = "gated_out" /\ c.decisions = r.decisions \cup {"unaccounted"}
    BY <1>1 DEF ClosedAs, Closeable
  <2>2. r.decisions \cap Configs = {}
    BY <1>1 DEF Closeable, VerdictFits, Judged, WriteNeverHappened, AwaitingVerdict
  <2>3. c.decisions \cap Configs = {}
    BY <2>1, <2>2, ConfigsAssumption
  <2>. QED
    BY <1>1, <2>1, <2>2, <2>3 DEF VerdictFits, Unexpired, Judged, WriteNeverHappened, AwaitingVerdict
<1>2. CASE ~ Closeable(r)
  BY <1>2 DEF ClosedAs, Closeable
<1>. QED
  BY <1>1, <1>2

LEMMA SavedClose ==
    ASSUME NEW r, NEW c, NEW status \in Saved \cup {"routed_direct"}, VerdictFits(r), ClosedAs(r, c, status, {})
    PROVE  /\ VerdictFits(c) /\ ("expired" \in c.decisions <=> "expired" \in r.decisions)
           /\ Closeable(r) => c.status = status
           /\ ~ Closeable(r) => c = r
<1>1. CASE Closeable(r)
  <2>1. c.status = status /\ c.decisions = r.decisions
    BY <1>1 DEF ClosedAs, Closeable
  <2>. QED
    BY <1>1, <2>1 DEF VerdictFits, Unexpired, Judged, Saved
<1>2. CASE ~ Closeable(r)
  BY <1>2 DEF ClosedAs, Closeable
<1>. QED
  BY <1>1, <1>2

LEMMA RefusalClose ==
    ASSUME NEW r, NEW c, VerdictFits(r), config \in Configs, ClosedAs(r, c, "gated_out", {config})
    PROVE  /\ VerdictFits(c) /\ ("expired" \in c.decisions <=> "expired" \in r.decisions)
           /\ Closeable(r) => c.status = "gated_out" /\ Judged(c)
           /\ ~ Closeable(r) => c = r
<1>1. CASE Closeable(r)
  <2>1. c.status = "gated_out" /\ c.decisions = r.decisions \cup {config}
    BY <1>1 DEF ClosedAs, Closeable
  <2>2. config \in c.decisions \cap Configs /\ config # "expired"
    BY <2>1, ConfigsAssumption
  <2>. QED
    BY <1>1, <2>1, <2>2 DEF VerdictFits, Unexpired, Judged
<1>2. CASE ~ Closeable(r)
  BY <1>2 DEF ClosedAs, Closeable
<1>. QED
  BY <1>1, <1>2

\* What a verdict without a precondition makes of it.
LEMMA VerdictOverwrites ==
    ASSUME NEW c, NEW hash \in Configs, c.status \in Judgements, hash \in c.decisions
    PROVE  VerdictFits(c) /\ ~ WriteNeverHappened(c)
<1>1. hash \in c.decisions \cap Configs /\ hash # "expired"
  BY ConfigsAssumption
<1>. QED
  BY <1>1 DEF VerdictFits, Judged, Judgements, Saved, WriteNeverHappened, AwaitingVerdict

\* What call w, the only one on m, finds of it.
CallFinds(w, m) ==
    /\ VerdictFits(row[m]) /\ held[m].writes \in 0..2
    /\ row[m].status = "absent" => held[m].writes = 0 \/ ~ Unexpired(row[m])
    /\ Unexpired(row[m]) =>
          /\ writer[w].msg = m => CallAgrees(writer[w], row[m], held[m]) /\ row[m].status # "processing"
          /\ held[m].writes <= 1
          /\ held[m].writes > 0 =>
                /\ row[m].status = "received" => held[m].evidence # {} \/ Writing(w, m)
                /\ WriteNeverHappened(row[m]) => Writing(w, m)
                /\ row[m].status = "gated_out" => ~ Judged(row[m])

LEMMA CallFindsHonest ==
    ASSUME Wellformed, NEW w \in Writers, NEW m \in Msgs, kind[m] = "hook", Honest(m), OneDelivery(m),
           writer[w].msg = m \/ Unattended(m)
    PROVE  CallFinds(w, m)
<1>1. VerdictFits(row[m]) /\ held[m].writes \in 0..2 /\ (Unexpired(row[m]) => Accounted(m))
  BY DEF Honest, Wellformed, Typed, Held
<1>2. (\E v \in Writers : Writing(v, m)) => Writing(w, m)
  BY DEF OneDelivery, Unattended, Writing
<1>. QED
  BY <1>1, <1>2 DEF CallFinds, Accounted, DeliveryFits, WriteShows, ReplayFits

\* What a step of call w owes to the account of m.
CallOwesAccount(w, m) ==
    /\ VerdictFits(row'[m]) /\ ("expired" \in row'[m].decisions <=> "expired" \in row[m].decisions)
    /\ Unexpired(row[m]) =>
          /\ writer'[w].msg = m => CallAgrees(writer'[w], row'[m], held'[m])
          /\ held'[m].writes <= 1 /\ row'[m].status # "processing"
          /\ held'[m].writes > 0 =>
                /\ row'[m].status # "absent"
                /\ row'[m].status = "received" => held'[m].evidence # {} \/ Writing(w, m)'
                /\ WriteNeverHappened(row'[m]) => Writing(w, m)'
                /\ row'[m].status = "gated_out" => ~ Judged(row'[m])
          /\ row'[m].status = "received" => held'[m].writes = held[m].writes \/ row'[m].age = Fresh
          /\ WriteNeverHappened(row'[m]) => WriteNeverHappened(row[m]) \/ held'[m].writes = 0

LEMMA CallPaysAccount ==
    ASSUME NEW w \in Writers, NEW m \in Msgs, kind[m] = "hook", RowFits(m), RowFits(m)', Graced(m), Graced(m)', Honest(m),
           CallStep(w, m), writer[w].msg = m \/ Unattended(m), CallOwesGrace(w, m), CallOwesAccount(w, m)
    PROVE  Honest(m)'
<1>1. VerdictFits(row'[m]) /\ (Unexpired(row'[m]) <=> Unexpired(row[m]))
  BY DEF CallOwesAccount, Unexpired
<1>2. ReplayKnowsExpiry(m)'
  BY DEF Honest, ReplayKnowsExpiry, CallStep, CallOwesAccount
<1>3. ASSUME Unexpired(row[m]) PROVE Accounted(m)'
  <2>1. DeliveryFits(m)'
    BY <1>3 DEF Graced, OneDelivery, Unattended, DeliveryFits, CallStep, CallOwesAccount
  <2>2. WriteShows(m)'
    <3>1. Writing(w, m)' => \E v \in Writers : Writing(v, m)'
      OBVIOUS
    <3>. QED
      BY <1>3, <3>1 DEF WriteShows, CallOwesAccount
  <2>3. ReplayFits(m)'
    <3>1. row'[m].status # "processing"
      BY <1>3 DEF CallOwesAccount
    <3>2. ASSUME NEW j \in Jobs, job'[j].msg = m PROVE JobAgrees(job'[j], row'[m], held'[m])
      <4>1. job'[j] = job[j] /\ JobAgrees(job[j], row[m], held[m])
        BY <1>3, <3>2 DEF CallStep, Honest, Accounted, ReplayFits
      <4>2. job[j].pc \notin {"claimed", "stamp"}
        BY <3>2, <4>1 DEF Graced, OneDelivery, Unattended
      <4>3. row'[m].status = "received" => row[m].status = "received" /\ held'[m].writes = held[m].writes
        BY <1>3, <3>2 DEF Graced, ReceivedIsJudged, RowFits, AbsentIsAlone, CallOwesGrace, CallOwesAccount, CallStep
      <4>4. job[j].pc = "judge" /\ job[j].status \in Saved => ~ WriteNeverHappened(row'[m])
        BY <1>3, <3>2, <4>1 DEF RowFits, SavesExist, CallOwesAccount, JobAgrees
      <4>. QED
        BY <4>1, <4>2, <4>3, <4>4 DEF JobAgrees
    <3>. QED
      BY <3>1, <3>2 DEF ReplayFits
  <2>. QED
    BY <1>3, <2>1, <2>2, <2>3 DEF Accounted, CallOwesAccount
<1>. QED
  BY <1>1, <1>2, <1>3 DEF Honest

\* A call that changes neither the row nor what memory holds.
LEMMA CallOnlyMoves ==
    ASSUME NEW w \in Writers, NEW m \in Msgs, CallFinds(w, m), row' = row, held' = held,
           Unexpired(row[m]) =>
              /\ row[m].status # "processing" /\ (held[m].writes > 0 => ~ Writing(w, m))
              /\ writer'[w].msg = m => CallAgrees(writer'[w], row[m], held[m])
    PROVE  CallOwesAccount(w, m)
  BY DEF CallFinds, CallOwesAccount

\* A delivery of m that is at work, and one that starts.
LEMMA CallAtWork ==
    ASSUME Wellformed, NEW w \in Writers, NEW m \in Msgs, kind[m] = "hook", RowFits(m), Graced(m), CallFinds(w, m),
           writer[w].msg = m
    PROVE  /\ m # None /\ CallFits(writer[w]) /\ config \in Configs
           /\ row[m].status = "absent" => writer[w].pc = "admitted"
           /\ Unexpired(row[m]) => CallAgrees(writer[w], row[m], held[m]) /\ row[m].status # "processing"
           /\ writer[w].pc \in {"captured", "canon", "stamp"} /\ Unexpired(row[m]) =>
                 (row[m].status = "received" /\ row[m].age = Fresh) \/ (~ writer[w].fresh /\ Retried(row[m]))
<1>1. m # None /\ CallFits(writer[w]) /\ config \in Configs /\ (row[m].status = "absent" => writer[w].pc = "admitted")
  BY NoMessage DEF Wellformed, Typed, RowFits, AbsentIsAlone
<1>2. Unexpired(row[m]) => CallAgrees(writer[w], row[m], held[m]) /\ row[m].status # "processing"
  BY DEF CallFinds
<1>3. writer[w].pc \in {"captured", "canon", "stamp"} /\ writer[w].fresh =>
         row[m].status = "received" /\ row[m].age = Fresh
  BY DEF Graced, FirstWriterAlone
<1>. QED
  BY <1>1, <1>2, <1>3 DEF CallAgrees

LEMMA CallStarts ==
    ASSUME Wellformed, NEW w \in Writers, NEW m \in Msgs, kind[m] = "hook", Graced(m), CallFinds(w, m),
           FindNothing(w, m) \/ FindReceived(w, m)
    PROVE  CallOwesAccount(w, m)
<1>1. writer[w].msg # m
  BY NoMessage DEF FindNothing, FindReceived, Busy, Wellformed, CallFits
<1>2. ~ Writing(w, m)
  BY <1>1 DEF Writing
<1>3. CASE FindNothing(w, m)
  <2>1. /\ CallAt(w, "admitted", m, FALSE, "absent") /\ row' = row /\ held' = held
        /\ row[m].status = "absent" \/ WriteNeverHappened(row[m])
    BY <1>3, FindNothingStep DEF FindNothing
  <2>2. row[m].status # "processing" /\ (Unexpired(row[m]) => held[m].writes = 0)
    BY <1>2, <2>1 DEF CallFinds, WriteNeverHappened
  <2>3. Unexpired(row[m]) => CallAgrees(writer'[w], row[m], held[m])
    BY <2>1, <2>2 DEF CallAgrees, CallAt, Retried
  <2>. QED
    BY <1>2, <2>1, <2>2, <2>3, CallOnlyMoves
<1>4. CASE FindReceived(w, m)
  <2>1. /\ CallAt(w, "judge", m, FALSE, Verdict(m)) /\ row' = row /\ held' = held /\ row[m].status = "received"
    BY <1>4, FindReceivedStep DEF FindReceived, Judgeable
  <2>2. Unexpired(row[m]) /\ Verdict(m) = "gated_out" => held[m].writes = 0
    BY <1>2, <2>1, VerdictTyped DEF CallFinds, Wellformed
  <2>3. Unexpired(row[m]) => CallAgrees(writer'[w], row[m], held[m])
    BY <2>1, <2>2 DEF CallAgrees, CallAt
  <2>. QED
    BY <1>2, <2>1, <2>3, CallOnlyMoves
<1>. QED
  BY <1>3, <1>4

LEMMA CallJudges ==
    ASSUME Wellformed, NEW w \in Writers, NEW m \in Msgs, kind[m] = "hook", RowFits(m), Graced(m), CallFinds(w, m),
           m = writer[w].msg, FindJudges(w)
    PROVE  CallOwesAccount(w, m)
<1>1. /\ m # None /\ writer[w].pc = "judge" /\ writer[w].status \in Judgements /\ row[m].status # "absent"
      /\ Unexpired(row[m]) => CallAgrees(writer[w], row[m], held[m]) /\ row[m].status # "processing"
  BY CallAtWork DEF FindJudges, CallFits
<1>2. /\ held' = held /\ ClosedAs(row[m], row'[m], writer[w].status, Why(writer[w].status))
      /\ IF writer[w].status = "gated_out" THEN CallAt(w, "admitted", m, FALSE, "absent") ELSE CallOver(w)
  BY FindJudgesStep
<1>3. VerdictFits(row[m]) /\ ~ Writing(w, m)
  BY <1>1 DEF CallFinds, Writing, Unproven
<1>4. CASE writer[w].status = "gated_out"
  <2>1. /\ VerdictFits(row'[m]) /\ ("expired" \in row'[m].decisions <=> "expired" \in row[m].decisions)
        /\ Closeable(row[m]) => WriteNeverHappened(row'[m])
        /\ ~ Closeable(row[m]) => row'[m] = row[m]
    BY <1>2, <1>3, <1>4, UnaccountedClose DEF Why
  <2>2. Unexpired(row[m]) => held[m].writes = 0 /\ Retried(row'[m])
    BY <1>1, <1>4, <2>1 DEF CallAgrees, Retried, Closeable
  <2>3. Unexpired(row[m]) => CallAgrees(writer'[w], row'[m], held[m])
    BY <1>2, <1>4, <2>2 DEF CallAgrees, CallAt
  <2>. QED
    BY <1>1, <1>2, <2>1, <2>2, <2>3 DEF CallOwesAccount, WriteNeverHappened, Retried
<1>5. CASE writer[w].status # "gated_out"
  <2>1. writer[w].status \in Saved \cup {"routed_direct"} /\ Why(writer[w].status) = {}
    BY <1>1, <1>5 DEF Judgements, Why
  <2>2. /\ VerdictFits(row'[m]) /\ ("expired" \in row'[m].decisions <=> "expired" \in row[m].decisions)
        /\ Closeable(row[m]) => row'[m].status = writer[w].status
        /\ ~ Closeable(row[m]) => row'[m] = row[m]
    BY <1>2, <1>3, <2>1, SavedClose
  <2>3. (row'[m] = row[m] /\ ~ Closeable(row[m])) \/ row'[m].status \in Saved \cup {"routed_direct"}
    BY <2>1, <2>2
  <2>. QED
    BY <1>1, <1>2, <1>3, <1>5, <2>2, <2>3 DEF CallOwesAccount, CallFinds, CallOver, CallAt, Closeable, WriteNeverHappened, Saved
<1>. QED
  BY <1>4, <1>5

LEMMA CallEnters ==
    ASSUME Wellformed, NEW w \in Writers, NEW m \in Msgs, kind[m] = "hook", RowFits(m), Graced(m), CallFinds(w, m),
           m = writer[w].msg, Capture(w)
    PROVE  CallOwesAccount(w, m)
<1>1. /\ writer[w].pc = "admitted" /\ (Unexpired(row[m]) => CallAgrees(writer[w], row[m], held[m]) /\ row[m].status # "processing")
  BY CallAtWork DEF Capture
<1>2. /\ held' = held /\ CallAt(w, "captured", m, row[m].status = "absent", writer[w].status)
      /\ row[m].status # "absent" => row'[m] = row[m]
      /\ row[m].status = "absent" => row'[m].status = "received" /\ row'[m].decisions = {}
  BY CaptureStep
<1>3. row[m].status = "absent" => row[m].decisions = {}
  BY DEF RowFits, AbsentIsAlone, NoRow
<1>4. VerdictFits(row'[m]) /\ ("expired" \in row'[m].decisions <=> "expired" \in row[m].decisions)
  BY <1>2, <1>3 DEF CallFinds, VerdictFits, Unexpired, Judged
<1>5. Unexpired(row[m]) => held'[m].writes = 0 /\ CallAgrees(writer'[w], row'[m], held'[m])
  BY <1>1, <1>2 DEF CallAgrees, CallAt, Retried
<1>. QED
  BY <1>1, <1>2, <1>4, <1>5 DEF CallOwesAccount

\* A delivery at work that writes, or decides not to, and leaves the row alone.
LEMMA CallDecides ==
    ASSUME Wellformed, NEW w \in Writers, NEW m \in Msgs, kind[m] = "hook", RowFits(m), Graced(m), CallFinds(w, m),
           m = writer[w].msg, writer[w].pc = "captured", CallStep(w, m), row' = row,
           NEW pc \in {"canon", "stamp"}, NEW status, CallAt(w, pc, m, writer[w].fresh, status),
           Unexpired(row[m]) =>
              /\ held'[m].writes <= 1
              /\ held'[m].writes > 0 => held'[m].evidence # {} \/ pc = "canon" \/ status = "routed_direct"
              /\ pc = "stamp" /\ status = "gated_out" => held'[m].writes = 0
    PROVE  CallOwesAccount(w, m)
<1>1. /\ row[m].status # "absent" /\ VerdictFits(row[m])
      /\ Unexpired(row[m]) => /\ row[m].status # "processing"
                              /\ (row[m].status = "received" /\ row[m].age = Fresh) \/ (~ writer[w].fresh /\ Retried(row[m]))
                              /\ ~ writer[w].fresh => Retried(row[m])
  <2>1. Unexpired(row[m]) => CallAgrees(writer[w], row[m], held[m])
    BY CallAtWork
  <2>. QED
    BY <2>1, CallAtWork DEF CallAgrees, CallFinds
<1>2. CallAgrees(writer'[w], row[m], held'[m]) \/ ~ Unexpired(row[m])
  BY <1>1 DEF CallAgrees, CallAt
<1>3. Unproven(w)' <=> pc = "canon" \/ status = "routed_direct" \/ ~ writer[w].fresh
  BY DEF Unproven, CallAt, CallStep
<1>4. Writing(w, m)' <=> pc = "canon" \/ status = "routed_direct" \/ ~ writer[w].fresh
  BY <1>3 DEF Writing, CallAt
<1>5. Retried(row[m]) => row[m].status # "received" /\ (row[m].status = "gated_out" => ~ Judged(row[m]))
  BY DEF Retried, WriteNeverHappened, AwaitingVerdict, Judged
<1>6. WriteNeverHappened(row[m]) => row[m].status = "gated_out"
  BY DEF WriteNeverHappened
<1>. QED
  BY <1>1, <1>2, <1>4, <1>5, <1>6 DEF CallOwesAccount

LEMMA CallPipes ==
    ASSUME Wellformed, NEW w \in Writers, NEW m \in Msgs, kind[m] = "hook", RowFits(m), Graced(m), CallFinds(w, m),
           m = writer[w].msg,
           GateRefuses(w) \/ DreamMarker(w) \/ PersonaCanon(w) \/ \E levels \in Routes : PipelineRoutes(w, levels)
    PROVE  CallOwesAccount(w, m)
<1>1. writer[w].pc = "captured"
  BY DEF GateRefuses, DreamMarker, PersonaCanon, PipelineRoutes
<1>2. Unexpired(row[m]) => held[m].writes = 0
  BY <1>1, CallAtWork DEF CallAgrees
<1>3. CASE GateRefuses(w)
  <2>1. CallStep(w, m) /\ CallAt(w, "stamp", m, writer[w].fresh, "gated_out") /\ row' = row /\ held' = held
    BY <1>3, GateRefusesStep
  <2>2. Unexpired(row[m]) => held'[m].writes = 0
    BY <1>2, <2>1
  <2>3. Unexpired(row[m]) =>
          /\ held'[m].writes <= 1
          /\ held'[m].writes > 0 => held'[m].evidence # {} \/ "stamp" = "canon" \/ "gated_out" = "routed_direct"
          /\ "stamp" = "stamp" /\ "gated_out" = "gated_out" => held'[m].writes = 0
    BY <2>2
  <2>. QED
    BY <1>1, <2>1, <2>3, CallDecides
<1>4. CASE DreamMarker(w)
  <2>1. /\ CallStep(w, m) /\ CallAt(w, "stamp", m, writer[w].fresh, "routed_direct") /\ row' = row
        /\ held' = held \/ Adds(m, {"promoted_l4"}, FALSE)
    BY <1>4, DreamMarkerStep
  <2>2. Unexpired(row[m]) => /\ held'[m].writes <= 1
                             /\ held'[m].writes > 0 => held'[m].evidence # {} \/ "stamp" = "canon" \/ "routed_direct" = "routed_direct"
                             /\ "stamp" = "stamp" /\ "routed_direct" = "gated_out" => held'[m].writes = 0
    BY <1>2, <2>1 DEF Adds
  <2>. QED
    BY <1>1, <2>1, <2>2, CallDecides
<1>5. CASE PersonaCanon(w)
  <2>1. /\ CallStep(w, m) /\ CallAt(w, "canon", m, writer[w].fresh, writer[w].status) /\ row' = row
        /\ Adds(m, {"promoted_l4"}, FALSE)
    BY <1>5, PersonaCanonStep
  <2>2. Unexpired(row[m]) => held'[m].writes <= 1
    BY <1>2, <2>1 DEF Adds
  <2>. QED
    BY <1>1, <2>1, <2>2, CallDecides
<1>6. ASSUME NEW levels \in Routes, PipelineRoutes(w, levels) PROVE CallOwesAccount(w, m)
  <2>1. /\ CallStep(w, m) /\ CallAt(w, "stamp", m, writer[w].fresh, Earned(levels)) /\ row' = row
        /\ Adds(m, levels, TRUE)
    BY <1>6, PipelineRoutesStep
  <2>2. Earned(levels) = "gated_out" => levels = {}
    BY DEF Earned, Routes, Saved
  <2>3. Unexpired(row[m]) => /\ held'[m].writes <= 1 /\ (held'[m].writes > 0 => held'[m].evidence # {})
                             /\ levels = {} => held'[m].writes = 0
    BY <1>2, <2>1 DEF Adds
  <2>. QED
    BY <1>1, <2>1, <2>2, <2>3, CallDecides
<1>. QED
  BY <1>3, <1>4, <1>5, <1>6

\* A delivery that ends, or is about to, without touching anything.
LEMMA CallEnds ==
    ASSUME Wellformed, NEW w \in Writers, NEW m \in Msgs, kind[m] = "hook", RowFits(m), Graced(m), CallFinds(w, m),
           Quiet, m = writer[w].msg, PipelineRaises(w) \/ WriterDies(w)
    PROVE  CallOwesAccount(w, m)
<1>1. CASE PipelineRaises(w)
  <2>1. /\ writer[w].pc = "captured" /\ row' = row /\ held' = held
        /\ CallAt(w, "finally", m, writer[w].fresh, writer[w].status)
    BY <1>1, PipelineRaisesStep DEF PipelineRaises, Quiet
  <2>2. Unexpired(row[m]) => held[m].writes = 0 /\ row[m].status # "processing"
    BY <2>1, CallAtWork DEF CallAgrees
  <2>3. Unexpired(row[m]) => CallAgrees(writer'[w], row[m], held[m])
    BY <2>1, <2>2 DEF CallAgrees, CallAt
  <2>. QED
    BY <2>1, <2>2, <2>3, CallOnlyMoves
<1>2. CASE WriterDies(w)
  <2>1. CallOver(w) /\ row' = row /\ held' = held /\ ~ Writing(w, m)
    BY <1>2, WriterDiesStep DEF WriterDies, Quiet, Writing
  <2>2. writer'[w].msg # m
    BY <2>1, CallAtWork DEF CallOver, CallAt
  <2>3. Unexpired(row[m]) => row[m].status # "processing"
    BY CallAtWork
  <2>. QED
    BY <2>1, <2>2, <2>3, CallOnlyMoves
<1>. QED
  BY <1>1, <1>2

\* The stamps of a delivery, and its finally.
LEMMA CallStamps ==
    ASSUME Wellformed, NEW w \in Writers, NEW m \in Msgs, kind[m] = "hook", RowFits(m), Graced(m), CallFinds(w, m),
           m = writer[w].msg, Stamp(w)
    PROVE  CallOwesAccount(w, m)
<1>1. /\ m # None /\ writer[w].pc = "stamp" /\ writer[w].status \in Judgements \cup {"routed_direct"}
      /\ config \in Configs /\ row[m].status # "absent" /\ VerdictFits(row[m])
      /\ Unexpired(row[m]) =>
            /\ CallAgrees(writer[w], row[m], held[m]) /\ row[m].status # "processing" /\ held[m].writes <= 1
            /\ row[m].status = "received" \/ Retried(row[m])
  BY CallAtWork DEF Stamp, CallFits, CallFinds
<1>2. /\ held' = held /\ ClosedAs(row[m], row'[m], writer[w].status, Refusal(writer[w].status))
      /\ CallAt(w, "finally", m, writer[w].fresh, writer[w].status)
  BY StampStep
<1>3. ~ Closeable(row[m]) /\ Unexpired(row[m]) => row[m].status = "archived"
  BY <1>1 DEF Closeable, Retried
<1>4. row'[m].status # "received" /\ ~ WriteNeverHappened(row'[m]) => ~ Closeable(row'[m])
  BY DEF Closeable
<1>5. CASE writer[w].status = "gated_out"
  <2>1. /\ VerdictFits(row'[m]) /\ ("expired" \in row'[m].decisions <=> "expired" \in row[m].decisions)
        /\ Closeable(row[m]) => row'[m].status = "gated_out" /\ Judged(row'[m])
        /\ ~ Closeable(row[m]) => row'[m] = row[m]
    BY <1>1, <1>2, <1>5, RefusalClose DEF Refusal
  <2>2. Unexpired(row[m]) => held[m].writes = 0
    BY <1>1, <1>5 DEF CallAgrees
  <2>3. Unexpired(row[m]) => row'[m].status \in {"gated_out", "archived"} /\ ~ WriteNeverHappened(row'[m])
    BY <1>3, <2>1 DEF WriteNeverHappened, AwaitingVerdict, Judged
  <2>4. Unexpired(row[m]) => CallAgrees(writer'[w], row'[m], held[m])
    BY <1>2, <2>2 DEF CallAgrees, CallAt
  <2>. QED
    BY <1>2, <2>1, <2>2, <2>3, <2>4 DEF CallOwesAccount
<1>6. CASE writer[w].status # "gated_out"
  <2>1. writer[w].status \in Saved \cup {"routed_direct"} /\ Refusal(writer[w].status) = {}
    BY <1>1, <1>6 DEF Judgements, Refusal
  <2>2. /\ VerdictFits(row'[m]) /\ ("expired" \in row'[m].decisions <=> "expired" \in row[m].decisions)
        /\ Closeable(row[m]) => row'[m].status = writer[w].status
        /\ ~ Closeable(row[m]) => row'[m] = row[m]
    BY <1>1, <1>2, <2>1, SavedClose
  <2>3. Unexpired(row[m]) => row'[m].status \in Saved \cup {"routed_direct", "archived"}
    BY <1>3, <2>1, <2>2
  <2>4. Unexpired(row[m]) => ~ Closeable(row'[m]) /\ row'[m].status \notin {"received", "gated_out", "absent", "processing"}
    BY <2>3 DEF Closeable, WriteNeverHappened, Saved
  <2>5. Unexpired(row[m]) => CallAgrees(writer'[w], row'[m], held[m])
    BY <1>2, <2>4 DEF CallAgrees, CallAt
  <2>6. WriteNeverHappened(row'[m]) => row'[m].status = "gated_out"
    BY DEF WriteNeverHappened
  <2>. QED
    BY <1>1, <1>2, <2>2, <2>4, <2>5, <2>6 DEF CallOwesAccount
<1>. QED
  BY <1>5, <1>6

LEMMA PersonaSettles ==
    ASSUME Wellformed, NEW w \in Writers, NEW m \in Msgs, kind[m] = "hook", RowFits(m), Graced(m), CallFinds(w, m),
           m = writer[w].msg, PersonaStamp(w)
    PROVE  CallOwesAccount(w, m)
<1>1. VerdictFits(row[m]) /\ (Unexpired(row[m]) => held[m].writes <= 1)
  BY DEF CallFinds
<1>2. /\ held' = held /\ OverwrittenAs(row[m], row'[m], "promoted_l4", row[m].decisions)
      /\ CallAt(w, "finally", m, writer[w].fresh, writer[w].status)
  BY PersonaStampStep
<1>3. row'[m].status \in {"promoted_l4", "archived"} /\ row'[m].decisions = row[m].decisions
  BY <1>2 DEF OverwrittenAs
<1>4. ~ Closeable(row'[m]) /\ ~ WriteNeverHappened(row'[m])
  BY <1>3 DEF Closeable, WriteNeverHappened
<1>5. VerdictFits(row'[m])
  BY <1>1, <1>3 DEF VerdictFits, Unexpired, Judged
<1>6. CallAgrees(writer'[w], row'[m], held'[m])
  BY <1>2, <1>4 DEF CallAgrees, CallAt
<1>. QED
  BY <1>1, <1>2, <1>3, <1>4, <1>5, <1>6 DEF CallOwesAccount

LEMMA CallCloses ==
    ASSUME Wellformed, NEW w \in Writers, NEW m \in Msgs, kind[m] = "hook", RowFits(m), Graced(m), CallFinds(w, m),
           m = writer[w].msg, CloseUnaccounted(w)
    PROVE  CallOwesAccount(w, m)
<1>1. /\ m # None /\ writer[w].pc = "finally" /\ VerdictFits(row[m]) /\ ~ Writing(w, m)
      /\ Unexpired(row[m]) => CallAgrees(writer[w], row[m], held[m]) /\ row[m].status # "processing"
  BY CallAtWork DEF CloseUnaccounted, CallFinds, Writing, Unproven
<1>2. /\ held' = held /\ CallOver(w)
      /\ row[m].status # "received" => row'[m] = row[m]
      /\ row[m].status = "received" => ClosedAs(row[m], row'[m], "gated_out", {"unaccounted"})
  BY CloseUnaccountedStep
<1>3. CASE row[m].status = "received"
  <2>1. /\ VerdictFits(row'[m]) /\ ("expired" \in row'[m].decisions <=> "expired" \in row[m].decisions)
        /\ WriteNeverHappened(row'[m])
    BY <1>1, <1>2, <1>3, UnaccountedClose DEF Closeable
  <2>2. Unexpired(row[m]) => held[m].writes = 0
    BY <1>1, <1>3 DEF CallAgrees, Closeable
  <2>. QED
    BY <1>1, <1>2, <2>1, <2>2 DEF CallOwesAccount, CallOver, CallAt, WriteNeverHappened
<1>4. CASE row[m].status # "received"
  <2>1. row'[m] = row[m] /\ writer'[w].msg # m /\ row[m].status # "absent"
    BY <1>1, <1>2, <1>4, CallAtWork DEF CallOver, CallAt
  <2>2. Unexpired(row[m]) /\ WriteNeverHappened(row[m]) => held[m].writes = 0
    BY <1>1 DEF CallAgrees, Closeable
  <2>. QED
    BY <1>1, <1>2, <1>4, <2>1, <2>2 DEF CallOwesAccount, CallFinds
<1>. QED
  BY <1>3, <1>4

LEMMA CallsKeepTheAccount ==
    ASSUME Quiet, Wellformed, NEW w \in Writers, NEW m \in Msgs, kind[m] = "hook", RowFits(m), Graced(m), CallFinds(w, m),
           CallActs(w, m)
    PROVE  CallOwesAccount(w, m)
<1>1. ~ Enter(w, m)
  BY DEF Enter
<1>2. m = writer[w].msg => ~ NoManager(w) /\ ~ DirectStamps(w) /\ ~ DirectWrites(w)
  BY DEF NoManager, DirectStamps, DirectWrites
<1>3. CASE FindNothing(w, m) \/ FindReceived(w, m)
  BY <1>3, CallStarts
<1>4. CASE m = writer[w].msg /\ FindJudges(w)
  BY <1>4, CallJudges
<1>5. CASE m = writer[w].msg /\ Capture(w)
  BY <1>5, CallEnters
<1>6. CASE /\ m = writer[w].msg
           /\ GateRefuses(w) \/ DreamMarker(w) \/ PersonaCanon(w) \/ \E levels \in Routes : PipelineRoutes(w, levels)
  BY <1>6, CallPipes
<1>7. CASE m = writer[w].msg /\ (PipelineRaises(w) \/ WriterDies(w))
  BY <1>7, CallEnds
<1>8. CASE m = writer[w].msg /\ Stamp(w)
  BY <1>8, CallStamps
<1>9. CASE m = writer[w].msg /\ PersonaStamp(w)
  BY <1>9, PersonaSettles
<1>10. CASE m = writer[w].msg /\ CloseUnaccounted(w)
  BY <1>10, CallCloses
<1>. QED
  BY <1>1, <1>2, <1>3, <1>4, <1>5, <1>6, <1>7, <1>8, <1>9, <1>10 DEF CallActs, WriterProgress

\* What a step of job j owes to the account of m.
JobOwesAccount(j, m) ==
    /\ VerdictFits(row'[m]) /\ ("expired" \in row'[m].decisions <=> "expired" \in row[m].decisions)
    /\ Unexpired(row[m]) =>
          /\ job'[j].msg = m => JobAgrees(job'[j], row'[m], held'[m])
          /\ held'[m].writes <= 1 /\ WriteShows(m)'
          /\ \/ row'[m] = row[m] /\ held'[m] = held[m]
             \/ /\ \A v \in Writers : writer[v].msg = m =>
                      CallAgrees(writer[v], row'[m], held'[m]) /\ row'[m].status # "processing"
                /\ \A i \in Jobs : i # j /\ job[i].msg = m => JobAgrees(job[i], row'[m], held'[m])

LEMMA JobPaysAccount ==
    ASSUME NEW j \in Jobs, NEW m \in Msgs, kind[m] = "hook", Honest(m), JobStep(j, m), JobOwesAccount(j, m),
           job[j].msg = m \/ m \in job[j].todo,
           NEW pc, NEW status, GoesOn(job[j], job'[j], pc, m, status)
    PROVE  Honest(m)'
<1>1. VerdictFits(row'[m]) /\ (Unexpired(row'[m]) <=> Unexpired(row[m]))
  BY DEF JobOwesAccount, Unexpired
<1>2. ReplayKnowsExpiry(m)'
  BY NoMessage DEF Honest, ReplayKnowsExpiry, JobStep, JobOwesAccount, GoesOn
<1>3. ASSUME Unexpired(row[m]) PROVE Accounted(m)'
  <2>1. \A v \in Writers : writer[v].msg = m =>
           CallAgrees(writer[v], row'[m], held'[m]) /\ row'[m].status # "processing"
    BY <1>3 DEF JobOwesAccount, Honest, Accounted, DeliveryFits, ReplayFits
  <2>2. \A i \in Jobs : i # j /\ job[i].msg = m => JobAgrees(job[i], row'[m], held'[m])
    BY <1>3 DEF JobOwesAccount, Honest, Accounted, ReplayFits
  <2>3. DeliveryFits(m)'
    BY <2>1 DEF DeliveryFits, JobStep
  <2>4. ReplayFits(m)'
    BY <1>3, <2>1, <2>2 DEF ReplayFits, JobStep, JobOwesAccount
  <2>. QED
    BY <1>3, <2>3, <2>4 DEF Accounted, JobOwesAccount
<1>. QED
  BY <1>1, <1>2, <1>3 DEF Honest

\* What job j finds of a delivered message it has at hand, or is to take.
JobFinds(j, m) ==
    /\ m # None /\ TaskFits(job[j]) /\ VerdictFits(row[m]) /\ row[m].status \notin {"absent", "parked"}
    /\ job[j].task = "replay" => ("expired" \in job[j].snap[m].decisions <=> "expired" \in row[m].decisions)
    /\ "skip" \notin job[j].snap[m].decisions
    /\ row[m].status = "received" => /\ m \in job[j].todo => job[j].snap[m].received
                                     /\ job[j].msg = m => row[m].age # Fresh /\ job[j].pc = "judge"
    /\ Distils(j, m) => /\ ClaimStands(row[m]) /\ \A v \in Writers : writer[v].msg # m
                        /\ \A i \in Jobs : Distils(i, m) => i = j
    /\ held[m].writes \in 0..2
    /\ held[m].writes = 0 =>
          /\ job[j].msg = m /\ job[j].pc \in {"judge", "stamp"} => job[j].status \notin Saved
          /\ \A i \in Jobs : job[i].msg = m /\ job[i].pc = "judge" => job[i].status \notin Saved

LEMMA JobFindsHonest ==
    ASSUME Wellformed, NEW j \in Jobs, NEW m \in Msgs, kind[m] = "hook", RowFits(m), Graced(m), Reserved(m), Honest(m),
           job[j].msg = m \/ m \in job[j].todo
    PROVE  JobFinds(j, m) /\ (Unexpired(row[m]) => Accounted(m))
<1>1. m # None /\ TaskFits(job[j]) /\ held[m].writes \in 0..2
  BY NoMessage DEF Wellformed, Typed, Held
<1>2. VerdictFits(row[m]) /\ (Unexpired(row[m]) => Accounted(m))
      /\ (job[j].task = "replay" => ("expired" \in job[j].snap[m].decisions <=> "expired" \in row[m].decisions))
  BY DEF Honest, ReplayKnowsExpiry
<1>3. /\ row[m].status \notin {"absent", "parked"}
      /\ held[m].writes = 0 =>
            \A i \in Jobs : job[i].msg = m /\ job[i].pc \in {"judge", "stamp"} => job[i].status \notin Saved
  BY DEF RowFits, AbsentIsAlone, ParkedIsAlone, SavesExist
<1>4. "skip" \notin job[j].snap[m].decisions
  BY DEF Reserved, SkipIsDirect
<1>5. row[m].status = "received" => /\ m \in job[j].todo => job[j].snap[m].received
                                    /\ job[j].msg = m => row[m].age # Fresh /\ job[j].pc = "judge"
  BY DEF Graced, ReceivedIsJudged
<1>6. Distils(j, m) => /\ ClaimStands(row[m]) /\ \A v \in Writers : writer[v].msg # m
                       /\ \A i \in Jobs : Distils(i, m) => i = j
  BY DEF Reserved, ClaimHolds, Graced, OneDelivery, Distils
<1>. QED
  BY <1>1, <1>2, <1>3, <1>4, <1>5, <1>6 DEF JobFinds

\* A job that does not touch the row.
LEMMA JobOnlyMoves ==
    ASSUME NEW j \in Jobs, NEW m \in Msgs, JobFinds(j, m), Unexpired(row[m]) => Accounted(m),
           JobStep(j, m), row' = row, held' = held, Distils(j, m) => Distils(j, m)' /\ job'[j].pc = "stamp",
           Unexpired(row[m]) /\ job'[j].msg = m => JobAgrees(job'[j], row[m], held[m])
    PROVE  JobOwesAccount(j, m)
<1>1. VerdictFits(row[m])
  BY DEF JobFinds
<1>2. ASSUME Unexpired(row[m]) PROVE WriteShows(m)'
  <2>1. \A w \in Writers : Writing(w, m)' <=> Writing(w, m)
    BY DEF Writing, Unproven, JobStep
  <2>2. \A i \in Jobs : Distils(i, m) /\ job[i].pc = "stamp" => Distils(i, m)' /\ job'[i].pc = "stamp"
    BY DEF Distils, JobStep
  <2>. QED
    BY <1>2, <2>1, <2>2 DEF Accounted, WriteShows
<1>. QED
  BY <1>1, <1>2 DEF JobOwesAccount, Accounted

LEMMA JobReads ==
    ASSUME Wellformed, NEW j \in Jobs, NEW m \in Msgs, kind[m] = "hook", Graced(m), JobFinds(j, m),
           Unexpired(row[m]) => Accounted(m), ReadEvidence(j, m) \/ TakeRow(j, m)
    PROVE  JobOwesAccount(j, m)
<1>1. m # None /\ TaskFits(job[j]) /\ job[j].pc = "next"
  BY DEF JobFinds, ReadEvidence, TakeRow, At
<1>2. ~ Distils(j, m)
  BY <1>1 DEF Distils
<1>3. CASE ReadEvidence(j, m) /\ Judgeable(m)
  <2>1. /\ JobStep(j, m) /\ row' = row /\ held' = held /\ GoesOn(job[j], job'[j], "judge", m, Verdict(m))
        /\ row[m].status = "received" /\ row[m].age # Fresh
    BY <1>3, ReadEvidenceStep DEF Judgeable
  <2>2. Verdict(m) \in Judgements /\ (Verdict(m) = "gated_out" => held[m].evidence = {}) /\ held[m].writes \in 0..2
    BY VerdictTyped DEF Wellformed, JobFinds
  <2>3. ASSUME Unexpired(row[m]), NEW w \in Writers, Writing(w, m) PROVE FALSE
    <3>1. writer[w].msg = m /\ writer[w].pc \in {"canon", "stamp"} /\ CallAgrees(writer[w], row[m], held[m])
      BY <2>3 DEF Writing, Unproven, Accounted, DeliveryFits
    <3>2. ~ writer[w].fresh
      BY <2>1, <3>1 DEF Graced, FirstWriterAlone
    <3>3. Retried(row[m])
      BY <3>1, <3>2 DEF CallAgrees
    <3>. QED
      BY <2>1, <3>3 DEF Retried, WriteNeverHappened
  <2>4. Unexpired(row[m]) /\ Verdict(m) = "gated_out" => held[m].writes = 0
    BY <2>1, <2>2, <2>3 DEF Accounted, WriteShows
  <2>5. ~ WriteNeverHappened(row[m])
    BY <2>1 DEF WriteNeverHappened
  <2>6. Unexpired(row[m]) => JobAgrees(job'[j], row[m], held[m])
    BY <2>1, <2>4, <2>5 DEF JobAgrees, GoesOn
  <2>. QED
    BY <1>2, <2>1, <2>6, JobOnlyMoves
<1>4. CASE ReadEvidence(j, m) /\ ~ Judgeable(m)
  <2>1. JobStep(j, m) /\ row' = row /\ held' = held /\ GoesOn(job[j], job'[j], "next", m, "absent")
    BY <1>4, ReadEvidenceStep
  <2>2. job'[j].msg # m
    BY <1>1, <2>1 DEF GoesOn
  <2>. QED
    BY <1>2, <2>1, <2>2, JobOnlyMoves
<1>5. CASE TakeRow(j, m)
  <2>1. JobStep(j, m) /\ row' = row /\ held' = held /\ GoesOn(job[j], job'[j], "claim", m, "absent")
    BY <1>5, TakeRowStep
  <2>2. JobAgrees(job'[j], row[m], held[m])
    BY <2>1 DEF JobAgrees, GoesOn
  <2>. QED
    BY <1>2, <2>1, <2>2, JobOnlyMoves
<1>. QED
  BY <1>3, <1>4, <1>5

\* A job that is done with the row without touching it.
LEMMA JobPasses ==
    ASSUME NEW j \in Jobs, NEW m \in Msgs, JobFinds(j, m), Unexpired(row[m]) => Accounted(m),
           JobStep(j, m), row' = row, held' = held, ~ Distils(j, m),
           NEW pc \in {"next", "claim"}, GoesOn(job[j], job'[j], pc, m, "absent")
    PROVE  JobOwesAccount(j, m)
<1>1. JobAgrees(job'[j], row[m], held[m])
  BY DEF JobAgrees, GoesOn
<1>. QED
  BY <1>1, JobOnlyMoves

LEMMA RowSame ==
    ASSUME NEW r \in Row, NEW c \in Row, c.status = r.status, c.decisions = r.decisions, c.age = r.age, c.stuck = r.stuck
    PROVE  c = r
  BY DEF Row

\* Nobody who is at work on m says otherwise of a row closed as unwritten ...
LEMMA UnwrittenAgrees ==
    ASSUME NEW r, NEW h, h.writes = 0, WriteNeverHappened(r)
    PROVE  /\ \A c : CallAgrees(c, r, h)
           /\ \A t : (t.pc = "judge" => t.status \notin Saved) => JobAgrees(t, r, h)
  BY DEF CallAgrees, JobAgrees, Retried

\* ... or as saved, unless they found it unwritten.
LEMMA SavedAgrees ==
    ASSUME NEW r, NEW c, NEW h, h.writes > 0, h.writes \in 0..2, r.status = "received", c.status \in Saved
    PROVE  /\ \A d : CallAgrees(d, r, h) => CallAgrees(d, c, h)
           /\ \A t : JobAgrees(t, r, h) => JobAgrees(t, c, h)
<1>1. ~ Closeable(c) /\ ~ WriteNeverHappened(c) /\ c.status # "received" /\ h.writes # 0
  BY DEF Closeable, WriteNeverHappened, Saved
<1>2. ~ Retried(r)
  BY DEF Retried, WriteNeverHappened
<1>3. \A d : CallAgrees(d, r, h) => CallAgrees(d, c, h)
  BY <1>1, <1>2 DEF CallAgrees
<1>4. \A t : JobAgrees(t, r, h) => JobAgrees(t, c, h)
  BY <1>1 DEF JobAgrees
<1>. QED
  BY <1>3, <1>4

LEMMA JobJudges ==
    ASSUME Wellformed, NEW j \in Jobs, NEW m \in Msgs, kind[m] = "hook", JobFinds(j, m),
           Unexpired(row[m]) => Accounted(m), m = job[j].msg, CloseByEvidence(j)
    PROVE  JobOwesAccount(j, m)
<1>1. /\ m # None /\ job[j].pc = "judge" /\ job[j].status \in Judgements /\ VerdictFits(row[m]) /\ held[m].writes \in 0..2
      /\ Unexpired(row[m]) => JobAgrees(job[j], row[m], held[m]) /\ held[m].writes <= 1
      /\ held[m].writes = 0 =>
           /\ job[j].status \notin Saved
           /\ \A i \in Jobs : job[i].msg = m /\ job[i].pc = "judge" => job[i].status \notin Saved
  BY DEF CloseByEvidence, JobFinds, TaskFits, Accounted, ReplayFits
<1>2. /\ JobStep(j, m) /\ held' = held
      /\ ClosedAs(row[m], row'[m], job[j].status, Why(job[j].status))
      /\ \E pc \in {"next", "claim"} : GoesOn(job[j], job'[j], pc, m, "absent")
  BY CloseByEvidenceStep
<1>3. ~ Distils(j, m)
  BY <1>1 DEF Distils
<1>4. JobAgrees(job'[j], row'[m], held'[m])
  BY <1>2 DEF JobAgrees, GoesOn
<1>5. CASE row'[m] = row[m]
  <2>1. row' = row
    BY <1>2, <1>5 DEF JobStep, Wellformed, Typed
  <2>. QED
    BY <1>2, <1>3, <2>1, JobPasses
<1>6. CASE row'[m] # row[m] /\ job[j].status = "gated_out"
  <2>1. /\ VerdictFits(row'[m]) /\ ("expired" \in row'[m].decisions <=> "expired" \in row[m].decisions)
        /\ WriteNeverHappened(row'[m]) /\ Closeable(row[m])
    BY <1>1, <1>2, <1>6, UnaccountedClose DEF Why
  <2>2. row[m].status = "received"
    <3>1. ASSUME WriteNeverHappened(row[m]) PROVE FALSE
      <4>1. row[m].status = "gated_out" /\ "unaccounted" \in row[m].decisions
        BY <3>1 DEF WriteNeverHappened, AwaitingVerdict
      <4>2. row'[m].status = row[m].status /\ row'[m].decisions = row[m].decisions
        BY <1>2, <1>6, <3>1, <4>1 DEF ClosedAs, Why
      <4>3. row[m] \in Row /\ row'[m] \in Row /\ row'[m].age = row[m].age /\ row'[m].stuck = row[m].stuck
        BY <1>2 DEF ClosedAs, Wellformed, Typed
      <4>. QED
        BY <1>6, <4>2, <4>3, RowSame
    <3>. QED
      BY <2>1, <3>1 DEF Closeable
  <2>3. ASSUME Unexpired(row[m]) PROVE held'[m].writes = 0
    BY <1>1, <1>2, <1>6, <2>2, <2>3 DEF JobAgrees
  <2>4. ASSUME Unexpired(row[m]) PROVE WriteShows(m)'
    BY <2>3, <2>4 DEF WriteShows
  <2>5. ASSUME Unexpired(row[m])
        PROVE  /\ \A v \in Writers : CallAgrees(writer[v], row'[m], held'[m])
               /\ \A i \in Jobs : i # j /\ job[i].msg = m => JobAgrees(job[i], row'[m], held'[m])
    BY <1>1, <1>2, <2>1, <2>3, <2>5, UnwrittenAgrees
  <2>6. row'[m].status # "processing"
    BY <2>1 DEF WriteNeverHappened
  <2>. QED
    BY <1>4, <2>1, <2>3, <2>4, <2>5, <2>6 DEF JobOwesAccount
<1>7. CASE row'[m] # row[m] /\ job[j].status # "gated_out"
  <2>1. job[j].status \in Saved /\ Why(job[j].status) = {}
    BY <1>1, <1>7 DEF Judgements, Why
  <2>2. /\ VerdictFits(row'[m]) /\ ("expired" \in row'[m].decisions <=> "expired" \in row[m].decisions)
        /\ row'[m].status \in Saved /\ Closeable(row[m])
    BY <1>1, <1>2, <1>7, <2>1, SavedClose
  <2>3. Unexpired(row[m]) => row[m].status = "received"
    BY <1>1, <2>1, <2>2 DEF Closeable, JobAgrees
  <2>4. held[m].writes > 0
    BY <1>1, <2>1
  <2>5. ASSUME Unexpired(row[m])
        PROVE  /\ \A v \in Writers : writer[v].msg = m => CallAgrees(writer[v], row'[m], held'[m])
               /\ \A i \in Jobs : job[i].msg = m => JobAgrees(job[i], row'[m], held'[m])
    <3>1. /\ \A d : CallAgrees(d, row[m], held[m]) => CallAgrees(d, row'[m], held[m])
          /\ \A t : JobAgrees(t, row[m], held[m]) => JobAgrees(t, row'[m], held[m])
      BY <1>1, <2>2, <2>3, <2>4, <2>5, SavedAgrees
    <3>. QED
      BY <1>2, <2>5, <3>1 DEF Accounted, DeliveryFits, ReplayFits
  <2>6. WriteShows(m)' /\ row'[m].status # "processing"
    BY <2>2 DEF WriteShows, WriteNeverHappened, Saved
  <2>. QED
    BY <1>1, <1>2, <1>4, <2>2, <2>5, <2>6 DEF JobOwesAccount
<1>. QED
  BY <1>5, <1>6, <1>7

LEMMA JobClaims ==
    ASSUME Punctual, Wellformed, NEW j \in Jobs, NEW m \in Msgs, kind[m] = "hook", JobFinds(j, m), ClaimHolds(m),
           Unexpired(row[m]) => Accounted(m), m = job[j].msg, Claim(j)
    PROVE  JobOwesAccount(j, m)
<1>1. job[j].pc = "claim" /\ ~ Distils(j, m)
  BY DEF Claim, At, Distils
<1>2. CASE ~ Claimable(j, row[m])
  <2>1. JobStep(j, m) /\ held' = held /\ row' = row /\ GoesOn(job[j], job'[j], "next", m, "absent")
    BY <1>2, ClaimStep
  <2>. QED
    BY <1>1, <2>1, JobPasses
<1>3. CASE Claimable(j, row[m])
  <2>1. /\ JobStep(j, m) /\ held' = held /\ GoesOn(job[j], job'[j], "claimed", m, "absent")
        /\ \A v \in Writers : writer[v].msg # m
        /\ row'[m].status = "processing" /\ row'[m].decisions = row[m].decisions
    BY <1>3, ClaimStep, AloneIsUnattended
  <2>2. /\ VerdictFits(row[m]) /\ row[m].status \notin {"absent", "parked", "received"} /\ held[m].writes \in 0..2
        /\ held[m].writes = 0 => \A i \in Jobs : job[i].msg = m /\ job[i].pc = "judge" => job[i].status \notin Saved
    BY <1>1 DEF JobFinds
  <2>3. VerdictFits(row'[m]) /\ ~ WriteNeverHappened(row'[m])
    BY <2>1, <2>2 DEF VerdictFits, Unexpired, Judged, WriteNeverHappened
  <2>4. ASSUME Unexpired(row[m]), held[m].writes > 0 PROVE FALSE
    <3>1. WriteShows(m) /\ \A w \in Writers : ~ Writing(w, m)
      BY <2>1, <2>4 DEF Accounted, Writing
    <3>2. row[m].status \notin WRITTEN_STATUSES \cup {"archived"}
      BY <1>3 DEF Claimable
    <3>3. row[m].status \in {"processing", "gated_out"}
      BY <2>2, <3>2 DEF Wellformed, Typed, Row, Status
    <3>4. CASE row[m].status = "processing"
      <4>1. row[m].stuck
        BY <1>3, <3>4 DEF Claimable
      <4>2. PICK i \in Jobs : Distils(i, m)
        BY <2>4, <3>1, <3>4 DEF WriteShows
      <4>. QED
        BY <3>4, <4>1, <4>2 DEF ClaimHolds, ClaimStands
    <3>5. CASE row[m].status = "gated_out"
      BY <2>2, <2>4, <3>1, <3>5 DEF WriteShows, VerdictFits, WriteNeverHappened, AwaitingVerdict, Judged
    <3>. QED
      BY <3>3, <3>4, <3>5
  <2>5. ASSUME Unexpired(row[m]) PROVE held[m].writes = 0
    BY <2>2, <2>4, <2>5
  <2>6. ASSUME Unexpired(row[m]) PROVE WriteShows(m)'
    BY <2>1, <2>5, <2>6 DEF WriteShows
  <2>7. ASSUME Unexpired(row[m])
        PROVE  /\ JobAgrees(job'[j], row'[m], held'[m])
               /\ \A i \in Jobs : i # j /\ job[i].msg = m => JobAgrees(job[i], row'[m], held'[m])
    BY <2>1, <2>3, <2>5, <2>7 DEF JobAgrees, GoesOn
  <2>. QED
    BY <2>1, <2>3, <2>5, <2>6, <2>7 DEF JobOwesAccount
<1>. QED
  BY <1>2, <1>3

\* A replay at work on a row it has claimed: it writes ...
LEMMA JobWrites ==
    ASSUME Wellformed, NEW j \in Jobs, NEW m \in Msgs, kind[m] = "hook", JobFinds(j, m),
           Unexpired(row[m]) => Accounted(m), m = job[j].msg,
           ReplayFindsKnown(j) \/ \E levels \in Routes : ReplayRoutes(j, levels)
    PROVE  JobOwesAccount(j, m)
<1>1. job[j].pc = "claimed" /\ Distils(j, m) /\ m \in Msgs
  BY JobHasRow DEF ReplayFindsKnown, ReplayRoutes, At, Distils
<1>2. /\ ClaimStands(row[m]) /\ VerdictFits(row[m])
      /\ \A v \in Writers : writer[v].msg # m
      /\ \A i \in Jobs : Distils(i, m) => i = j
      /\ Unexpired(row[m]) => held[m].writes = 0
  BY <1>1 DEF JobFinds, Accounted, ReplayFits, JobAgrees
<1>3. row[m].status \notin {"received", "gated_out", "absent"} /\ ~ WriteNeverHappened(row[m])
  BY <1>2 DEF ClaimStands, WriteNeverHappened
<1>4. CASE ReplayFindsKnown(j)
  <2>1. /\ JobStep(j, m) /\ held' = held /\ row' = row /\ GoesOn(job[j], job'[j], "stamp", m, "promoted_l4")
        /\ held[m].writes > 0
    BY <1>4, ReplayFindsKnownStep DEF ReplayFindsKnown
  <2>2. ~ Unexpired(row[m])
    BY <1>2, <2>1
  <2>. QED
    BY <1>2, <2>1, <2>2 DEF JobOwesAccount
<1>5. ASSUME NEW levels \in Routes, ReplayRoutes(j, levels) PROVE JobOwesAccount(j, m)
  <2>1. JobStep(j, m) /\ row' = row /\ Adds(m, levels, TRUE) /\ GoesOn(job[j], job'[j], "stamp", m, Earned(levels))
    BY <1>5, ReplayRoutesStep
  <2>2. Earned(levels) = "gated_out" => levels = {}
    BY DEF Earned, Routes, Saved
  <2>3. Unexpired(row[m]) => held'[m].writes <= 1 /\ (levels = {} => held'[m].writes = 0)
    BY <1>2, <2>1 DEF Adds
  <2>4. Unexpired(row[m]) => JobAgrees(job'[j], row[m], held'[m])
    BY <2>1, <2>2, <2>3 DEF JobAgrees, GoesOn
  <2>5. Distils(j, m)' /\ job'[j].pc = "stamp"
    BY <2>1 DEF Distils, GoesOn
  <2>6. WriteShows(m)'
    BY <1>3, <2>1, <2>5 DEF WriteShows
  <2>7. ASSUME NEW i \in Jobs, i # j, job[i].msg = m PROVE JobAgrees(job[i], row[m], held'[m])
    <3>1. job[i].pc \notin {"claimed", "stamp"}
      BY <1>2, <2>7 DEF Distils
    <3>. QED
      BY <1>3, <3>1 DEF JobAgrees
  <2>. QED
    BY <1>2, <2>1, <2>3, <2>4, <2>6, <2>7 DEF JobOwesAccount
<1>. QED
  BY <1>4, <1>5

\* ... and stamps.
LEMMA JobStamps ==
    ASSUME Wellformed, NEW j \in Jobs, NEW m \in Msgs, kind[m] = "hook", JobFinds(j, m),
           Unexpired(row[m]) => Accounted(m), m = job[j].msg, ReplayGateRefuses(j) \/ ReplayStamps(j)
    PROVE  JobOwesAccount(j, m)
<1>1. /\ Distils(j, m) /\ m \in Msgs /\ m # None
      /\ job[j].task = "replay" /\ job[j].hash \in Configs
      /\ job[j].pc = "stamp" => job[j].status \in Judgements
  BY JobHasRow DEF ReplayGateRefuses, ReplayStamps, At, Distils, JobFinds, TaskFits
<1>2. /\ ClaimStands(row[m]) /\ VerdictFits(row[m])
      /\ \A v \in Writers : writer[v].msg # m
      /\ \A i \in Jobs : Distils(i, m) => i = j
      /\ "expired" \in job[j].snap[m].decisions <=> "expired" \in row[m].decisions
      /\ Unexpired(row[m]) => JobAgrees(job[j], row[m], held[m]) /\ held[m].writes <= 1
      /\ held[m].writes \in 0..2
  BY <1>1 DEF JobFinds, Accounted, ReplayFits
<1>3. PICK status \in Judgements :
         /\ JobStep(j, m) /\ held' = held
         /\ OverwrittenAs(row[m], row'[m], status, job[j].snap[m].decisions \cup {job[j].hash})
         /\ GoesOn(job[j], job'[j], "next", m, "absent")
         /\ Unexpired(row[m]) /\ status = "gated_out" => held[m].writes = 0
  <2>1. CASE ReplayGateRefuses(j)
    <3>1. "gated_out" \in Judgements /\ (Unexpired(row[m]) => held[m].writes = 0)
      BY <1>2, <2>1 DEF ReplayGateRefuses, At, JobAgrees, Judgements
    <3>. QED
      BY <2>1, <3>1, ReplayEndsStep
  <2>2. CASE ReplayStamps(j)
    <3>1. job[j].status \in Judgements /\ (Unexpired(row[m]) /\ job[j].status = "gated_out" => held[m].writes = 0)
      BY <1>1, <1>2, <2>2 DEF ReplayStamps, At, JobAgrees
    <3>. QED
      BY <2>2, <3>1, ReplayEndsStep
  <2>. QED
    BY <2>1, <2>2
<1>4. /\ VerdictFits(row'[m]) /\ ~ WriteNeverHappened(row'[m])
      /\ row[m].status = "archived" => row'[m] = row[m]
      /\ row[m].status # "archived" => row'[m].status = status
      /\ "expired" \in row'[m].decisions <=> "expired" \in row[m].decisions
  <2>1. CASE row[m].status # "archived"
    <3>1. row'[m].status = status /\ row'[m].decisions = job[j].snap[m].decisions \cup {job[j].hash}
      BY <1>3, <2>1 DEF OverwrittenAs
    <3>2. /\ VerdictFits(row'[m]) /\ ~ WriteNeverHappened(row'[m])
      BY <1>1, <3>1, VerdictOverwrites
    <3>3. job[j].hash # "expired"
      BY <1>1, ConfigsAssumption
    <3>. QED
      BY <1>2, <2>1, <3>1, <3>2, <3>3
  <2>2. CASE row[m].status = "archived"
    BY <1>2, <1>3, <2>2 DEF OverwrittenAs, WriteNeverHappened
  <2>. QED
    BY <2>1, <2>2
<1>5. /\ row'[m].status \in Judgements \cup {"archived"}
      /\ Unexpired(row[m]) /\ row'[m].status = "gated_out" => held'[m].writes = 0
  BY <1>3, <1>4
<1>6. row'[m].status \notin {"absent", "received", "processing"}
  BY <1>5 DEF Judgements, Saved
<1>7. ASSUME Unexpired(row[m]) PROVE WriteShows(m)'
  BY <1>4, <1>5, <1>6, <1>7 DEF WriteShows
<1>8. job'[j].msg # m
  BY <1>1, <1>3 DEF GoesOn
<1>9. ASSUME NEW i \in Jobs, i # j, job[i].msg = m PROVE JobAgrees(job[i], row'[m], held'[m])
  <2>1. job[i].pc \notin {"claimed", "stamp"}
    BY <1>2, <1>9 DEF Distils
  <2>. QED
    BY <1>4, <1>6, <2>1 DEF JobAgrees
<1>. QED
  BY <1>2, <1>3, <1>4, <1>7, <1>8, <1>9 DEF JobOwesAccount

LEMMA JobsKeepTheAccount ==
    ASSUME Punctual, Wellformed, NEW j \in Jobs, NEW m \in Msgs, kind[m] = "hook",
           Graced(m), ClaimHolds(m), JobFinds(j, m), Unexpired(row[m]) => Accounted(m), JobActs(j, m)
    PROVE  JobOwesAccount(j, m)
<1>1. CASE ReadEvidence(j, m) \/ TakeRow(j, m)
  BY <1>1, JobReads
<1>2. CASE m = job[j].msg /\ CloseByEvidence(j)
  BY <1>2, JobJudges
<1>3. CASE m = job[j].msg /\ (SkipJudged(j) \/ ClaimBusy(j))
  <2>1. JobStep(j, m) /\ row' = row /\ held' = held /\ GoesOn(job[j], job'[j], "next", m, "absent")
    BY <1>3, PassOverStep
  <2>2. ~ Distils(j, m)
    BY <1>3 DEF SkipJudged, ClaimBusy, At, Distils
  <2>. QED
    BY <2>1, <2>2, JobPasses
<1>4. CASE m = job[j].msg /\ SkipDirect(j)
  BY <1>4 DEF SkipDirect, Snap, JobFinds
<1>5. CASE m = job[j].msg /\ Claim(j)
  BY <1>5, JobClaims
<1>6. CASE m = job[j].msg /\ (ReplayFindsKnown(j) \/ \E levels \in Routes : ReplayRoutes(j, levels))
  BY <1>6, JobWrites
<1>7. CASE m = job[j].msg /\ (ReplayGateRefuses(j) \/ ReplayStamps(j))
  BY <1>7, JobStamps
<1>. QED
  BY <1>1, <1>2, <1>3, <1>4, <1>5, <1>6, <1>7 DEF JobActs

\* A job that turns to another task leaves the account as it is.
LEMMA HonestTurns ==
    ASSUME NEW j \in Jobs, NEW n \in Msgs, Honest(n), JobAlone(j), job'[j].msg # n,
           ~ (Distils(j, n) /\ job[j].pc = "stamp"),
           job'[j].task = "replay" /\ n \in job'[j].todo => job'[j].snap[n].decisions = row[n].decisions
    PROVE  Honest(n)'
<1>0. kind'[n] = kind[n] /\ row'[n] = row[n] /\ held'[n] = held[n] /\ writer' = writer
  BY DEF JobAlone
<1>1. ReplayKnowsExpiry(n) => ReplayKnowsExpiry(n)'
  BY DEF ReplayKnowsExpiry, JobAlone
<1>2. DeliveryFits(n) => DeliveryFits(n)'
  BY <1>0 DEF DeliveryFits
<1>3. WriteShows(n) => WriteShows(n)'
  <2>1. \A w \in Writers : Writing(w, n) => Writing(w, n)'
    BY DEF Writing, Unproven, JobAlone
  <2>2. \A i \in Jobs : Distils(i, n) /\ job[i].pc = "stamp" => Distils(i, n)' /\ job'[i].pc = "stamp"
    BY DEF Distils, JobAlone
  <2>. QED
    BY <1>0, <2>1, <2>2 DEF WriteShows
<1>4. ReplayFits(n) => ReplayFits(n)'
  BY <1>0 DEF ReplayFits, JobAlone
<1>. QED
  BY <1>0, <1>1, <1>2, <1>3, <1>4 DEF Honest, Accounted

\* What an expiry did not list, or found tiered away.
LEMMA HonestSpared ==
    ASSUME NEW j \in Jobs, NEW n \in Msgs, Honest(n), Drained(j), row'[n] = row[n]
    PROVE  Honest(n)'
<1>0. kind'[n] = kind[n] /\ held'[n] = held[n] /\ writer' = writer /\ job'[j].msg # n
  BY NoMessage DEF Drained
<1>1. ReplayKnowsExpiry(n) => ReplayKnowsExpiry(n)'
  BY <1>0 DEF ReplayKnowsExpiry, Drained
<1>2. DeliveryFits(n) => DeliveryFits(n)'
  BY <1>0 DEF DeliveryFits
<1>3. WriteShows(n) => WriteShows(n)'
  <2>1. \A w \in Writers : Writing(w, n) => Writing(w, n)'
    BY DEF Writing, Unproven, Drained
  <2>2. \A i \in Jobs : Distils(i, n) /\ job[i].pc = "stamp" => Distils(i, n)' /\ job'[i].pc = "stamp"
    BY DEF Distils, Drained
  <2>. QED
    BY <1>0, <2>1, <2>2 DEF WriteShows
<1>4. ReplayFits(n) => ReplayFits(n)'
  BY <1>0 DEF ReplayFits, Drained
<1>. QED
  BY <1>0, <1>1, <1>2, <1>3, <1>4 DEF Honest, Accounted

LEMMA HonestArchived ==
    ASSUME NEW j \in Jobs, NEW n \in Msgs, Honest(n), Drained(j),
           row'[n].status = "archived", row'[n].decisions = row[n].decisions
    PROVE  Honest(n)'
<1>0. kind'[n] = kind[n] /\ held'[n] = held[n] /\ writer' = writer /\ job'[j].msg # n
  BY NoMessage DEF Drained
<1>1. ~ WriteNeverHappened(row'[n]) /\ Retried(row'[n]) /\ ~ Closeable(row'[n])
  BY DEF WriteNeverHappened, Retried, Closeable
<1>2. VerdictFits(row[n]) => VerdictFits(row'[n])
  BY DEF VerdictFits, Unexpired, Judged
<1>3. ReplayKnowsExpiry(n) => ReplayKnowsExpiry(n)'
  BY <1>0 DEF ReplayKnowsExpiry, Drained
<1>4. DeliveryFits(n) => DeliveryFits(n)'
  BY <1>0, <1>1 DEF DeliveryFits, CallAgrees
<1>5. WriteShows(n)'
  BY <1>1 DEF WriteShows
<1>6. ReplayFits(n) => ReplayFits(n)'
  BY <1>0, <1>1 DEF ReplayFits, JobAgrees, Drained
<1>. QED
  BY <1>0, <1>2, <1>3, <1>4, <1>5, <1>6 DEF Honest, Accounted, Unexpired

\* What an expiry closes is beyond the account; no replay had read it.
LEMMA HonestExpired ==
    ASSUME OneCommand, Wellformed, NEW j \in Jobs, Expire(j), NEW n \in Msgs, Graced(n), Reserved(n), Honest(n)
    PROVE  Honest(n)'
<1>1. /\ Drained(j) /\ job[j].task = "expire" /\ job[j].hash \in Configs
      /\ n \notin job[j].todo => row'[n] = row[n]
      /\ n \in job[j].todo =>
            OverwrittenAs(row[n], row'[n], "gated_out", job[j].snap[n].decisions \cup {"expired", job[j].hash})
  BY ExpireStep
<1>2. CASE row'[n] = row[n]
  BY <1>1, <1>2, HonestSpared
<1>3. CASE row'[n] # row[n]
  <2>1. n \in job[j].todo /\ row'[n].status = "gated_out" /\ {"expired", job[j].hash} \subseteq row'[n].decisions
    BY <1>1, <1>3 DEF OverwrittenAs
  <2>2. VerdictFits(row'[n]) /\ ~ Unexpired(row'[n])
    BY <1>1, <2>1 DEF VerdictFits, Judged, Unexpired
  <2>3. ReplayKnowsExpiry(n)'
    <3>1. ASSUME NEW i \in Jobs, job'[i].task = "replay", n \in job'[i].todo \/ job'[i].msg = n PROVE FALSE
      <4>1. i # j
        BY <1>1, <3>1 DEF Drained
      <4>2. job'[i] = job[i]
        BY <1>1, <4>1 DEF Drained
      <4>. QED
        BY <1>1, <2>1, <3>1, <4>2, ExpiryFindsNoReplay
    <3>. QED
      BY <3>1 DEF ReplayKnowsExpiry
  <2>. QED
    BY <2>2, <2>3 DEF Honest
<1>. QED
  BY <1>2, <1>3

LEMMA HonestTask ==
    ASSUME Quiet, OneCommand, Wellformed, NEW j \in Jobs, TaskActs(j) \/ (j = Nightly /\ NightProgress),
           NEW n \in Msgs, Graced(n), Reserved(n), Honest(n)
    PROVE  Honest(n)'
<1>1. CASE CommandStarts(j) \/ (j = Nightly /\ NightProgress)
  <2>1. /\ JobAlone(j) /\ job'[j].msg # n
        /\ n \in job'[j].todo => job'[j].snap[n].decisions = row[n].decisions
    BY <1>1, StartsReserved, NoMessage
  <2>2. ~ Distils(j, n)
    <3>1. CASE CommandStarts(j)
      BY <3>1, CommandTurns DEF Wellformed, TaskFits, Distils
    <3>2. CASE j = Nightly /\ NightProgress
      BY <3>2, NightCases, NoMessage DEF Distils
    <3>. QED
      BY <1>1, <3>1, <3>2
  <2>. QED
    BY <2>1, <2>2, HonestTurns
<1>2. CASE CommandEnds(j) \/ JobDies(j)
  <2>1. JobAlone(j) /\ job'[j].msg # n /\ job'[j].todo = {}
    BY <1>2, TaskEnds, Idles, NoMessage
  <2>2. job[j].pc # "stamp"
    BY <1>2 DEF CommandEnds, JobDies, Quiet
  <2>. QED
    BY <2>1, <2>2, HonestTurns
<1>3. CASE Expire(j)
  BY <1>3, HonestExpired
<1>4. CASE Archive(j)
  <2>1. /\ Drained(j)
        /\ \/ row'[n] = row[n]
           \/ row'[n].status = "archived" /\ row'[n].decisions = row[n].decisions
    BY <1>4, ArchiveStep
  <2>. QED
    BY <2>1, HonestSpared, HonestArchived
<1>. QED
  BY <1>1, <1>2, <1>3, <1>4 DEF TaskActs

\* No status and no verdict changes with time.
LEMMA HonestWorld ==
    ASSUME Wellformed, WorldActs, NEW n \in Msgs, Honest(n)
    PROVE  Honest(n)'
<1>1. /\ kind' = kind /\ writer' = writer /\ job' = job /\ held' = held
      /\ row'[n].status = row[n].status /\ row'[n].decisions = row[n].decisions
  <2>1. CASE TenMinutes \/ TimePasses(Overdue) \/ TimePasses(Ancient)
    BY <2>1, TimeStep DEF Ages
  <2>2. CASE Reconfigure \/ UNCHANGED vars
    BY <2>2, ReconfigureStep DEF vars
  <2>. QED
    BY <2>1, <2>2 DEF WorldActs
<1>2. /\ WriteNeverHappened(row'[n]) <=> WriteNeverHappened(row[n])
      /\ Retried(row'[n]) <=> Retried(row[n])
      /\ Closeable(row'[n]) <=> Closeable(row[n])
      /\ VerdictFits(row'[n]) <=> VerdictFits(row[n])
      /\ Unexpired(row'[n]) <=> Unexpired(row[n])
      /\ Judged(row'[n]) <=> Judged(row[n])
  BY <1>1 DEF WriteNeverHappened, Retried, Closeable, VerdictFits, Unexpired, Judged
<1>3. ReplayKnowsExpiry(n) => ReplayKnowsExpiry(n)'
  BY <1>1 DEF ReplayKnowsExpiry
<1>4. DeliveryFits(n) => DeliveryFits(n)'
  BY <1>1, <1>2 DEF DeliveryFits, CallAgrees
<1>5. WriteShows(n) => WriteShows(n)'
  <2>1. \A w \in Writers : Writing(w, n) => Writing(w, n)'
    BY <1>1 DEF Writing, Unproven
  <2>2. \A i \in Jobs : Distils(i, n) => Distils(i, n)'
    BY <1>1 DEF Distils
  <2>. QED
    BY <1>1, <1>2, <2>1, <2>2 DEF WriteShows
<1>6. ReplayFits(n) => ReplayFits(n)'
  BY <1>1, <1>2 DEF ReplayFits, JobAgrees
<1>. QED
  BY <1>1, <1>2, <1>3, <1>4, <1>5, <1>6 DEF Honest, Accounted

AccountInv == ClaimInv /\ \A n \in Msgs : Honest(n)

LEMMA InitAccountInv == ASSUME Init PROVE AccountInv
<1>1. ASSUME NEW n \in Msgs PROVE Honest(n)
  <2>1. /\ \A w \in Writers : writer[w].msg = None
        /\ \A j \in Jobs : job[j].msg = None /\ job[j].todo = {}
        /\ row[n].status = "absent" /\ row[n].decisions = {} /\ held[n].writes = 0
    BY Idles DEF Init, NoRow
  <2>2. VerdictFits(row[n])
    BY <2>1 DEF VerdictFits, Unexpired
  <2>3. ReplayKnowsExpiry(n) /\ DeliveryFits(n) /\ ReplayFits(n)
    BY <2>1, NoMessage DEF ReplayKnowsExpiry, DeliveryFits, ReplayFits
  <2>. QED
    BY <2>1, <2>2, <2>3 DEF Honest, Accounted, WriteShows
<1>. QED
  BY <1>1, InitClaimInv DEF AccountInv

LEMMA NextAccountInv ==
    ASSUME Quiet, OneCommand, AccountInv, [Next]_vars
    PROVE  AccountInv'
<1>1. /\ Punctual /\ Wellformed /\ ClaimInv'
      /\ \A n \in Msgs : RowFits(n) /\ Graced(n) /\ Reserved(n) /\ Honest(n)
      /\ \A n \in Msgs : RowFits(n)' /\ Graced(n)'
  <2>1. Punctual /\ ClaimInv'
    BY QuietIsPunctual, NextClaimInv DEF AccountInv
  <2>. QED
    BY <2>1 DEF AccountInv, ClaimInv, GraceInv, RowInv
<1>2. ASSUME NEW w \in Writers, NEW m \in Msgs, CallActs(w, m) PROVE Honest(m)'
  <2>1. CallStep(w, m) /\ (writer[w].msg = m \/ Unattended(m)) /\ CallOwesGrace(w, m)
    BY <1>1, <1>2, CallsKeepTheGrace
  <2>2. CASE kind[m] # "hook"
    BY <2>1, <2>2 DEF CallStep, Honest
  <2>3. CASE kind[m] = "hook"
    <3>1. CallFinds(w, m)
      BY <1>1, <2>1, <2>3, CallFindsHonest DEF Graced
    <3>2. CallOwesAccount(w, m)
      BY <1>1, <1>2, <2>3, <3>1, CallsKeepTheAccount
    <3>. QED
      BY <1>1, <2>1, <2>3, <3>2, CallPaysAccount
  <2>. QED
    BY <2>2, <2>3
<1>3. ASSUME NEW j \in Jobs, NEW m \in Msgs, JobActs(j, m) PROVE Honest(m)'
  <2>1. JobStep(j, m) /\ \E pc, status : GoesOn(job[j], job'[j], pc, m, status)
    BY <1>1, <1>3, JobsKeepTheGrace
  <2>2. job[j].msg = m \/ m \in job[j].todo
    BY <1>1, <1>3, JobsKeepTheClaim
  <2>3. CASE kind[m] # "hook"
    BY <2>1, <2>3 DEF JobStep, Honest
  <2>4. CASE kind[m] = "hook"
    <3>1. JobFinds(j, m) /\ (Unexpired(row[m]) => Accounted(m))
      BY <1>1, <2>2, <2>4, JobFindsHonest
    <3>2. JobOwesAccount(j, m)
      BY <1>1, <1>3, <2>4, <3>1, JobsKeepTheAccount DEF Reserved
    <3>. QED
      BY <1>1, <2>1, <2>2, <2>4, <3>2, JobPaysAccount
  <2>. QED
    BY <2>3, <2>4
<1>4. ASSUME NEW w \in Writers, NEW m \in Msgs, CallActs(w, m), NEW n \in Msgs PROVE Honest(n)'
  BY <1>1, <1>2, <1>4, CallConcernsOne, HonestUntouched
<1>5. ASSUME NEW j \in Jobs, NEW m \in Msgs, JobActs(j, m), NEW n \in Msgs PROVE Honest(n)'
  BY <1>1, <1>3, <1>5, JobConcernsOne, HonestUntouched
<1>6. ASSUME NEW j \in Jobs, TaskActs(j), NEW n \in Msgs PROVE Honest(n)'
  BY <1>1, <1>6, HonestTask
<1>7. ASSUME NightProgress, NEW n \in Msgs PROVE Honest(n)'
  BY <1>1, <1>7, HonestTask, JobsAssumption
<1>8. ASSUME WorldActs, NEW n \in Msgs PROVE Honest(n)'
  BY <1>1, <1>8, HonestWorld
<1>9. \A n \in Msgs : Honest(n)'
  BY <1>1, <1>4, <1>5, <1>6, <1>7, <1>8, NextCases
<1>. QED
  BY <1>1, <1>9 DEF AccountInv

\* What was written of a delivered message is accounted for: in its row's status,
\* in the evidence, or in the delivery or the replay that has yet to stamp it.
THEOREM AccountInvariant == ASSUME Quiet, OneCommand PROVE Spec => []AccountInv
<1>1. Init => AccountInv
  BY InitAccountInv
<1>2. AccountInv /\ [Next]_vars => AccountInv'
  BY NextAccountInv
<1>. QED
  BY <1>1, <1>2, PTL DEF Spec

\* A delivered message that has not expired is written to memory at most once,
\* over retries, raises, killed calls, judges, replays and reconfigurations.
THEOREM WrittenOnce == ASSUME Quiet, OneCommand PROVE Spec => []HookWritesOnce
<1>1. AccountInv => HookWritesOnce
  BY DEF AccountInv, Honest, Accounted, Unexpired, HookWritesOnce
<1>. QED
  BY <1>1, AccountInvariant, PTL

\* A status tells the truth about memory: a save is one, a recorded refusal of a
\* delivered message is one, and an unaccounted row nobody retries is unwritten.
THEOREM StatusIsTrue == ASSUME Quiet, OneCommand PROVE Spec => []ClaimsAreTrue
<1>1. AccountInv => RefusalsAreHonest
  <2>1. ASSUME AccountInv, NEW m \in Msgs, kind[m] = "hook", row[m].status = "gated_out",
               row[m].decisions \cap Configs # {}, "expired" \notin row[m].decisions
        PROVE  held[m].writes = 0
    <3>1. WriteShows(m) /\ held[m].writes \in 0..2
      BY <2>1 DEF AccountInv, ClaimInv, GraceInv, RowInv, Wellformed, Typed, Held, Honest, Accounted, Unexpired
    <3>. QED
      BY <2>1, <3>1 DEF WriteShows, Judged
  <2>. QED
    BY <2>1 DEF RefusalsAreHonest
<1>2. AccountInv => UnaccountedMeansUnwritten
  <2>1. ASSUME AccountInv, NEW m \in Msgs, kind[m] = "hook", WriteNeverHappened(row[m]), Passing(m) = {}
        PROVE  held[m].writes = 0
    <3>1. VerdictFits(row[m]) /\ (Unexpired(row[m]) => WriteShows(m)) /\ held[m].writes \in 0..2
      BY <2>1 DEF AccountInv, ClaimInv, GraceInv, RowInv, Wellformed, Typed, Held, Honest, Accounted
    <3>2. Unexpired(row[m])
      BY <2>1, <3>1 DEF VerdictFits, WriteNeverHappened, AwaitingVerdict, Judged
    <3>3. \A w \in Writers : ~ Writing(w, m)
      BY <2>1 DEF Passing, Writing
    <3>. QED
      BY <2>1, <3>1, <3>2, <3>3 DEF WriteShows
  <2>. QED
    BY <2>1 DEF UnaccountedMeansUnwritten
<1>. QED
  BY <1>1, <1>2, AccountInvariant, SavesAreTrue, PTL DEF ClaimsAreTrue

=============================================================================
