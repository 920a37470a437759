---------------------------- MODULE Upkeep_proofs ----------------------------
(* Proofs about the components of MCService that guard, keep and throw away: *)
(* admission, housekeeping, projects and backups, for every value of the     *)
(* constants they are given; at the end the properties of the run.           *)
EXTENDS Service_proofs, FiniteSetTheorems

------------------------------------------------------------------------------
(* Admission *)

\* What was admitted in the last minute is on the limiter's list, and what the
\* table of the duplicates notes is when a handler was last started.
AdmissionInv ==
    /\ s1 \in Admission!Times
    /\ IsFiniteSet(s2) /\ IsFiniteSet(s8.admitted)
    /\ s2 \subseteq Admission!Entries /\ s8.admitted \subseteq Admission!Entries
    /\ \A e \in s8.admitted : e[1] <= s1 /\ (s1 - e[1] < RateWindow => e \in s2)
    /\ s8 = [started |-> s8.started, admitted |-> s8.admitted, twice |-> FALSE]
    /\ s3 = s8.started /\ s3 = [text \in Contents |-> s3[text]]
    /\ Admission!WithinTheLimit

LEMMA AdmissionHolds == AdmissionInv => Admission!HandledOnce /\ Admission!WithinTheLimit
  BY DEF AdmissionInv, Admission!HandledOnce

\* The module's own copy of the operator.
LEMMA CountsAlike == \A S : Admission!Cardinality(S) = Cardinality(S)
  BY DEF Admission!Cardinality, Cardinality

LEMMA AdmissionInit == Admission!Init => AdmissionInv
<1> SUFFICES ASSUME Admission!Init PROVE AdmissionInv
  OBVIOUS
<1>1. s8.admitted = {} /\ s2 = {} /\ IsFiniteSet({})
  BY FS_EmptySet DEF Admission!Init
<1>2. Admission!WithinTheLimit
  <2> SUFFICES ASSUME Limit > 0, NEW moment \in Admission!Times
               PROVE  Cardinality(Admission!Minute(moment)) <= Limit
    BY CountsAlike DEF Admission!WithinTheLimit
  <2>1. Admission!Minute(moment) = {}
    BY <1>1 DEF Admission!Minute
  <2> QED
    BY <2>1, FS_EmptySet, AdmissionAssumption
<1> QED
  BY <1>1, <1>2, AdmissionAssumption DEF Admission!Init, AdmissionInv, Admission!Times

LEMMA EntriesAreTimed == \A e \in Admission!Entries : e[1] \in Nat
  BY AdmissionAssumption DEF Admission!Entries, Admission!Times

LEMMA FreshIsFinite ==
  ASSUME AdmissionInv
  PROVE  IsFiniteSet(Admission!Fresh) /\ Cardinality(Admission!Fresh) \in Nat /\ Admission!Fresh \subseteq s2
<1>1. Admission!Fresh \subseteq s2
  BY DEF Admission!Fresh
<1> QED
  BY <1>1, FS_Subset, FS_CardinalityType DEF AdmissionInv

\* One more gets through: a minute that has it in has no more than the list.
LEMMA OneMoreIsWithin ==
  ASSUME AdmissionInv, ~Admission!Full, Admission!Entry \in Admission!Entries,
         s8'.admitted = s8.admitted \cup {Admission!Entry}
  PROVE  Admission!WithinTheLimit'
<1> SUFFICES ASSUME Limit > 0, NEW moment \in Admission!Times
             PROVE  Cardinality(Admission!Minute(moment)') <= Limit
  BY CountsAlike DEF Admission!WithinTheLimit
<1>1. s1 \in Nat /\ moment \in Nat /\ RateWindow \in Nat /\ Limit \in Nat
  BY AdmissionAssumption DEF AdmissionInv, Admission!Times
<1>2. Admission!Entry[1] = s1
  BY DEF Admission!Entry
<1>3. CASE moment <= s1 /\ s1 - moment < RateWindow
  <2>1. Admission!Minute(moment)' \subseteq Admission!Fresh \cup {Admission!Entry}
    <3> SUFFICES ASSUME NEW e \in s8.admitted, moment <= e[1] PROVE e \in Admission!Fresh
      BY DEF Admission!Minute
    <3>1. e[1] \in Nat /\ e[1] <= s1 /\ (s1 - e[1] < RateWindow => e \in s2)
      BY EntriesAreTimed DEF AdmissionInv
    <3>2. s1 - e[1] < RateWindow
      BY <1>1, <1>3, <3>1
    <3> QED
      BY <3>1, <3>2 DEF Admission!Fresh
  <2>2. IsFiniteSet(Admission!Fresh \cup {Admission!Entry})
        /\ Cardinality(Admission!Fresh \cup {Admission!Entry}) <= Cardinality(Admission!Fresh) + 1
    <3>1. IsFiniteSet(Admission!Fresh \cup {Admission!Entry})
          /\ Cardinality(Admission!Fresh \cup {Admission!Entry}) =
                IF Admission!Entry \in Admission!Fresh THEN Cardinality(Admission!Fresh) ELSE Cardinality(Admission!Fresh) + 1
      BY FreshIsFinite, FS_AddElement
    <3> QED
      BY <3>1, FreshIsFinite
  <2>3. Cardinality(Admission!Minute(moment)') <= Cardinality(Admission!Fresh \cup {Admission!Entry})
        /\ Cardinality(Admission!Minute(moment)') \in Nat /\ Cardinality(Admission!Fresh \cup {Admission!Entry}) \in Nat
    BY <2>1, <2>2, FS_Subset, FS_CardinalityType
  <2>4. Cardinality(Admission!Fresh) \in Nat /\ Cardinality(Admission!Fresh) < Limit
    BY <1>1, FreshIsFinite, CountsAlike DEF Admission!Full, Admission!InTheMinute
  <2> QED
    BY <1>1, <2>2, <2>3, <2>4
<1>4. CASE ~(moment <= s1 /\ s1 - moment < RateWindow)
  <2>1. Admission!Minute(moment)' = Admission!Minute(moment)
    BY <1>2, <1>4 DEF Admission!Minute
  <2>2. Cardinality(Admission!Minute(moment)) <= Limit
    BY CountsAlike DEF AdmissionInv, Admission!WithinTheLimit
  <2> QED
    BY <2>1, <2>2
<1> QED
  BY <1>3, <1>4

\* The list and the admitted grow by one and the same entry.
LEMMA AdmittedIsSafe ==
  ASSUME AdmissionInv, ~Admission!Full, Admission!Entry \in Admission!Entries, UNCHANGED s1,
         s2' = Admission!Passed,
         s8' = [started |-> s8'.started, admitted |-> s8.admitted \cup {Admission!Entry}, twice |-> FALSE],
         s3' = s8'.started, s3' = [text \in Contents |-> s3'[text]]
  PROVE  AdmissionInv'
<1>1. s8'.admitted = s8.admitted \cup {Admission!Entry} /\ s8'.twice = FALSE
  OBVIOUS
<1>2. Admission!WithinTheLimit'
  BY <1>1, OneMoreIsWithin
<1>3. IsFiniteSet(s2') /\ IsFiniteSet(s8'.admitted)
  <2>1. IsFiniteSet(Admission!Fresh) /\ IsFiniteSet(s8.admitted)
    BY FreshIsFinite DEF AdmissionInv
  <2> QED
    BY <1>1, <2>1, FS_AddElement DEF Admission!Passed
<1>4. s2' \subseteq Admission!Entries /\ s8'.admitted \subseteq Admission!Entries
  BY <1>1, FreshIsFinite DEF AdmissionInv, Admission!Passed
<1>5. \A e \in s8'.admitted : e[1] <= s1' /\ (s1' - e[1] < RateWindow => e \in s2')
  <2>1. Admission!Entry[1] = s1 /\ s1 \in Nat
    BY AdmissionAssumption DEF Admission!Entry, AdmissionInv, Admission!Times
  <2> QED
    BY <1>1, <2>1 DEF AdmissionInv, Admission!Passed, Admission!Fresh
<1>6. s8' = [started |-> s8'.started, admitted |-> s8'.admitted, twice |-> FALSE]
  BY <1>1
<1> QED
  BY <1>2, <1>3, <1>4, <1>5, <1>6 DEF AdmissionInv

\* The three parts of the history are set one after the other.
LEMMA ToldAll ==
  ASSUME NEW row, row = [started |-> row.started, admitted |-> row.admitted, twice |-> row.twice],
         NEW text, NEW moment, NEW es, NEW bool
  PROVE  [row EXCEPT !.started[text] = moment, !.admitted = es, !.twice = bool]
            = [started |-> [row.started EXCEPT ![text] = moment], admitted |-> es, twice |-> bool]
<1> DEFINE one == [row EXCEPT !.started = [row.started EXCEPT ![text] = moment]]
           two == [one EXCEPT !.admitted = es]
           three == [two EXCEPT !.twice = bool]
<1>1. one = [started |-> [row.started EXCEPT ![text] = moment], admitted |-> row.admitted, twice |-> row.twice]
  OBVIOUS
<1>2. [row EXCEPT !.started[text] = moment, !.admitted = es, !.twice = bool] = three
  OBVIOUS
<1> HIDE DEF one
<1>3. two = [started |-> [row.started EXCEPT ![text] = moment], admitted |-> es, twice |-> row.twice]
  BY <1>1
<1> HIDE DEF two
<1>4. three = [started |-> [row.started EXCEPT ![text] = moment], admitted |-> es, twice |-> bool]
  BY <1>3
<1> QED
  BY <1>2, <1>4

LEMMA ToldAdmitted ==
  ASSUME NEW row, NEW twice, row = [started |-> row.started, admitted |-> row.admitted, twice |-> twice], NEW es
  PROVE  [row EXCEPT !.admitted = es] = [started |-> row.started, admitted |-> es, twice |-> twice]
  OBVIOUS

LEMMA HandleIsSafe ==
  ASSUME AdmissionInv, NEW caller, NEW text \in Contents, Admission!Handle(caller, text) PROVE AdmissionInv'
<1>1. ~Admission!Full /\ Admission!Entry \in Admission!Entries /\ UNCHANGED s1 /\ s2' = Admission!Passed
  BY DEF Admission!Handle
<1>2. s8 = [started |-> s8.started, admitted |-> s8.admitted, twice |-> FALSE] /\ s3 = s8.started
      /\ s3 = [other \in Contents |-> s3[other]]
  BY DEF AdmissionInv
<1> DEFINE es == s8.admitted \cup {Admission!Entry}
           bool == s8.twice \/ (s8.started[text] # None /\ s1 - s8.started[text] < DedupWindow)
<1>3. s8' = [s8 EXCEPT !.started[text] = s1, !.admitted = es, !.twice = bool]
  BY DEF Admission!Handle
<1>4. bool = FALSE
  <2>1. s8.twice = FALSE
    BY <1>2
  <2>2. ~(s8.started[text] # None /\ s1 - s8.started[text] < DedupWindow)
    BY <1>2 DEF Admission!Handle, Admission!Duplicate
  <2> QED
    BY <2>1, <2>2
<1> HIDE DEF es, bool
<1>5. s8' = [started |-> [s8.started EXCEPT ![text] = s1], admitted |-> es, twice |-> FALSE]
  BY <1>2, <1>3, <1>4, ToldAll
<1>6. s3' = [s3 EXCEPT ![text] = s1]
  BY DEF Admission!Handle, Admission!Noted
<1>7. s3' = s8'.started /\ s3' = [other \in Contents |-> s3'[other]]
  BY <1>2, <1>5, <1>6
<1> QED
  BY <1>1, <1>5, <1>7, AdmittedIsSafe DEF es

LEMMA DedupeIsSafe ==
  ASSUME AdmissionInv, NEW caller, NEW text, Admission!Dedupe(caller, text) PROVE AdmissionInv'
<1> DEFINE es == s8.admitted \cup {Admission!Entry}
<1>1. ~Admission!Full /\ Admission!Entry \in Admission!Entries /\ UNCHANGED <<s1, s3>> /\ s2' = Admission!Passed
      /\ s8' = [s8 EXCEPT !.admitted = es]
  BY DEF Admission!Dedupe
<1>2. s8 = [started |-> s8.started, admitted |-> s8.admitted, twice |-> FALSE] /\ s3 = s8.started
      /\ s3 = [other \in Contents |-> s3[other]]
  BY DEF AdmissionInv
<1> HIDE DEF es
<1> DEFINE no == FALSE
<1> HIDE DEF no
<1>3. s8' = [started |-> s8.started, admitted |-> es, twice |-> no]
  <2>1. s8 = [started |-> s8.started, admitted |-> s8.admitted, twice |-> no]
    BY <1>2 DEF no
  <2>2. [s8 EXCEPT !.admitted = es] = [started |-> s8.started, admitted |-> es, twice |-> no]
    BY <2>1, ToldAdmitted
  <2> QED
    BY <1>1, <2>2
<1> QED
  BY <1>1, <1>2, <1>3, AdmittedIsSafe DEF es, no

\* What falls out of the list is older than a minute, and stays so.
LEMMA AgeIsSafe ==
  ASSUME AdmissionInv, UNCHANGED <<s3, s8>>, s1' \in {s1, s1 + 1}, s1' \in Admission!Times, s2' \in {s2, Admission!Fresh}
  PROVE  AdmissionInv'
<1>1. s1 \in Nat /\ s1' \in Nat /\ s1' >= s1 /\ RateWindow \in Nat
  BY AdmissionAssumption DEF AdmissionInv, Admission!Times
<1>2. \A e \in s8.admitted : e[1] <= s1' /\ (s1' - e[1] < RateWindow => e \in s2')
  <2> SUFFICES ASSUME NEW e \in s8.admitted PROVE e[1] <= s1' /\ (s1' - e[1] < RateWindow => e \in s2')
    OBVIOUS
  <2>1. e[1] \in Nat /\ e[1] <= s1 /\ (s1 - e[1] < RateWindow => e \in s2)
    BY EntriesAreTimed DEF AdmissionInv
  <2> QED
    BY <1>1, <2>1 DEF Admission!Fresh
<1>3. IsFiniteSet(s2') /\ s2' \subseteq Admission!Entries
  BY FreshIsFinite DEF AdmissionInv
<1>4. Admission!WithinTheLimit'
  BY DEF AdmissionInv, Admission!WithinTheLimit, Admission!Minute
<1> QED
  BY <1>2, <1>3, <1>4 DEF AdmissionInv

LEMMA AdmissionNext == AdmissionInv /\ [Admission!Next]_(Admission!vars) => AdmissionInv'
<1> SUFFICES ASSUME AdmissionInv, [Admission!Next]_(Admission!vars) PROVE AdmissionInv'
  OBVIOUS
<1>1. CASE UNCHANGED <<s1, s2, s3, s8>>
  BY <1>1, AgeIsSafe DEF AdmissionInv
<1>2. CASE Admission!Tick
  <2>1. s1' = s1 + 1 /\ s1' \in Admission!Times /\ UNCHANGED <<s2, s3, s8>>
    BY <1>2, AdmissionAssumption DEF Admission!Tick, AdmissionInv, Admission!Times
  <2> QED
    BY <2>1, AgeIsSafe
<1>3. CASE \E caller \in Callers : Admission!Refuse(caller)
  BY <1>3, AgeIsSafe DEF Admission!Refuse, AdmissionInv
<1>4. CASE \E caller \in Callers, text \in Contents : Admission!Dedupe(caller, text) \/ Admission!Handle(caller, text)
  BY <1>4, DedupeIsSafe, HandleIsSafe
<1>5. CASE \/ \E caller \in Callers : Admission!Finish(caller)
           \/ Admission!Transaction \/ Admission!CheckBorrowed \/ Admission!Check \/ UNCHANGED Admission!vars
  BY <1>1, <1>5 DEF Admission!Finish, Admission!Transaction, Admission!CheckBorrowed, Admission!Check, Admission!vars
<1> QED
  BY <1>2, <1>3, <1>4, <1>5 DEF Admission!Next, Admission!Pipeline, Admission!Limiter

------------------------------------------------------------------------------
(* Housekeeping *)

\* What the archiver is about to delete, and what has gone, is in a file.
TrailInv ==
    /\ s9 = [e \in Slips |-> s9[e]]
    /\ s10 = [pc |-> s10.pc, rows |-> s10.rows, filed |-> s10.filed]
    /\ s10.pc = "delete" => s10.rows \subseteq s10.filed
    /\ Housekeeping!PrunedIsFiled

LEMMA TrailInit == Housekeeping!Init => TrailInv
  BY DEF Housekeeping!Init, TrailInv, Housekeeping!PrunedIsFiled

\* The archiver's record, two parts at a time.
LEMMA ArchiverTurns ==
  ASSUME NEW row, row = [pc |-> row.pc, rows |-> row.rows, filed |-> row.filed], NEW pc, NEW some
  PROVE  /\ [row EXCEPT !.pc = pc, !.rows = some] = [pc |-> pc, rows |-> some, filed |-> row.filed]
         /\ [row EXCEPT !.pc = pc, !.filed = some] = [pc |-> pc, rows |-> row.rows, filed |-> some]
<1> DEFINE half == [row EXCEPT !.pc = pc]
<1>1. half = [pc |-> pc, rows |-> row.rows, filed |-> row.filed]
  OBVIOUS
<1>2. /\ [row EXCEPT !.pc = pc, !.rows = some] = [half EXCEPT !.rows = some]
      /\ [row EXCEPT !.pc = pc, !.filed = some] = [half EXCEPT !.filed = some]
  OBVIOUS
<1> HIDE DEF half
<1>3. /\ [half EXCEPT !.rows = some] = [pc |-> pc, rows |-> some, filed |-> row.filed]
      /\ [half EXCEPT !.filed = some] = [pc |-> pc, rows |-> row.rows, filed |-> some]
  BY <1>1
<1> QED
  BY <1>2, <1>3

LEMMA ArchiveIsSafe == ASSUME TrailInv, Housekeeping!Archive PROVE TrailInv'
<1>1. s10 = [pc |-> s10.pc, rows |-> s10.rows, filed |-> s10.filed] /\ s9 = [e \in Slips |-> s9[e]]
  BY DEF TrailInv
<1>2. CASE Housekeeping!ArchiveSelects
  <2>1. s10' = [s10 EXCEPT !.pc = "write", !.rows = Housekeeping!Due] /\ UNCHANGED s9
    BY <1>2 DEF Housekeeping!ArchiveSelects
  <2>2. s10' = [pc |-> "write", rows |-> Housekeeping!Due, filed |-> s10.filed]
    BY <1>1, <2>1, ArchiverTurns
  <2> QED
    BY <2>1, <2>2 DEF TrailInv, Housekeeping!PrunedIsFiled
<1>3. CASE Housekeeping!ArchiveWrites
  <2> DEFINE filed == s10.filed \cup s10.rows
  <2>1. s10' = [s10 EXCEPT !.pc = "delete", !.filed = filed] /\ UNCHANGED s9
    BY <1>3 DEF Housekeeping!ArchiveWrites
  <2>2. s10' = [pc |-> "delete", rows |-> s10.rows, filed |-> filed]
    BY <1>1, <2>1, ArchiverTurns
  <2> QED
    BY <2>1, <2>2 DEF TrailInv, Housekeeping!PrunedIsFiled
<1>4. CASE Housekeeping!ArchivePrunes \/ Housekeeping!ArchiveDies
  <2>1. s10' = [s10 EXCEPT !.pc = "idle", !.rows = {}]
    BY <1>4 DEF Housekeeping!ArchivePrunes, Housekeeping!ArchiveDies
  <2>2. s10' = [pc |-> "idle", rows |-> {}, filed |-> s10.filed]
    BY <1>1, <2>1, ArchiverTurns
  <2>3. UNCHANGED s9 \/ (s10.pc = "delete" /\ s9' = [e \in Slips |-> IF e \in Housekeeping!BeforeCutoff THEN "gone" ELSE s9[e]])
    BY <1>4 DEF Housekeeping!ArchivePrunes, Housekeeping!ArchiveDies
  <2> QED
    BY <1>1, <2>2, <2>3 DEF TrailInv, Housekeeping!PrunedIsFiled, Housekeeping!BeforeCutoff
<1> QED
  BY <1>2, <1>3, <1>4 DEF Housekeeping!Archive

LEMMA TrailNext == TrailInv /\ [Housekeeping!Next]_(Housekeeping!vars) => TrailInv'
<1> SUFFICES ASSUME TrailInv, [Housekeeping!Next]_(Housekeeping!vars) PROVE TrailInv'
  OBVIOUS
<1>1. CASE UNCHANGED <<s9, s10>>
  BY <1>1 DEF TrailInv, Housekeeping!PrunedIsFiled
<1>2. CASE \E e \in Slips : Housekeeping!Log(e) \/ Housekeeping!ComeDue(e)
  BY <1>2 DEF TrailInv, Housekeeping!PrunedIsFiled, Housekeeping!Log, Housekeeping!ComeDue
<1>3. CASE \/ Housekeeping!Write \/ Housekeeping!Read \/ Housekeeping!Step \/ Housekeeping!Pass
           \/ Housekeeping!RecordRejection \/ Housekeeping!GetOld \/ Housekeeping!Prune \/ UNCHANGED Housekeeping!vars
  BY <1>1, <1>3 DEF Housekeeping!Write, Housekeeping!Read, Housekeeping!Step, Housekeeping!Pass, Housekeeping!BeginPass,
     Housekeeping!Vacuum, Housekeeping!NoVacuum, Housekeeping!Truncated, Housekeeping!Declined, Housekeeping!RecordRejection,
     Housekeeping!GetOld, Housekeeping!Prune, Housekeeping!BeginPrune, Housekeeping!PruneOld, Housekeeping!PruneCap,
     Housekeeping!Trail, Housekeeping!vars
<1> QED
  BY <1>2, <1>3, ArchiveIsSafe DEF Housekeeping!Next

------------------------------------------------------------------------------
(* Projects *)

\* What is left of a plan.
IsRest(plan, whole) ==
    /\ plan \in Seq(Projects!Steps) /\ Len(plan) <= Len(whole)
    /\ \A j \in 1..Len(plan) : plan[j] = whole[j + Len(whole) - Len(plan)]

\* Who has come how far has done what: in the transaction, or committed.
Achieved(x, action, left, view, disk, bin) ==
    /\ action = "decision" => (left <= 4 => x \in view.decisions) /\ (left <= 3 => x \in disk.decisions)
    /\ action = "mapping" => (left <= 4 => view.artifact # Unwritten) /\ (left <= 3 => disk.artifact # Unwritten)
    /\ action = "init" => (left <= 1 => view.project # Unwritten) /\ (left <= 0 => disk.project # Unwritten)
    /\ action = "update" => (left <= 7 => view.project # Unwritten) /\ (left <= 6 => disk.project # Unwritten)
    /\ action = "archive" => (left <= 1 => bin # {})

Sound(x, action, plan, view, disk, bin) ==
    plan # <<>> =>
        /\ action \in Projects!Actions /\ IsRest(plan, Projects!Plan(action))
        /\ Achieved(x, action, Len(plan), view, disk, bin)

Durable(x, action, disk) ==
    /\ action = "decision" => x \in disk.decisions
    /\ action = "mapping" => disk.artifact # Unwritten
    /\ action \in {"init", "update"} => disk.project # Unwritten

StoreRow(row) == row = [project |-> row.project, decisions |-> row.decisions, artifact |-> row.artifact, symbols |-> row.symbols]
ProjectTaskRow(row) == row = [action |-> row.action, plan |-> row.plan, borrowed |-> row.borrowed, text |-> row.text]

\* One state of the database holds what another does.
Follows(store, other) ==
    /\ store.decisions \subseteq other.decisions
    /\ store.artifact # Unwritten => other.artifact # Unwritten
    /\ store.project # Unwritten => other.project # Unwritten

ProjectRows ==
    /\ StoreRow(s1) /\ StoreRow(s2)
    /\ s6 = [x \in Tasks |-> s6[x]] /\ \A x \in Tasks : ProjectTaskRow(s6[x])
    /\ s7 \subseteq Tasks

ProjectsInv ==
    /\ ProjectRows
    /\ Follows(s2, s1)
    /\ \A x \in Tasks : Sound(x, s6[x].action, s6[x].plan, s1, s2, s5)
    /\ \A x \in s7 : Durable(x, s6[x].action, s2) /\ s6[x].action # "none"
    /\ Projects!DeletedIsFiled

LEMMA ProjectsHold == ProjectsInv => Projects!DeletedIsFiled /\ Projects!AcknowledgedIsDurable
  BY DEF ProjectsInv, Durable, Projects!AcknowledgedIsDurable

LEMMA ProjectsInit == Projects!Init => ProjectsInv
<1> SUFFICES ASSUME Projects!Init PROVE ProjectsInv
  OBVIOUS
<1>1. /\ s1 = Projects!EmptyStore /\ s2 = Projects!EmptyStore /\ s4 = Unwritten /\ s7 = {}
      /\ s6 = [x \in Tasks |-> Projects!NoTask]
  BY DEF Projects!Init
<1>2. StoreRow(Projects!EmptyStore) /\ Follows(Projects!EmptyStore, Projects!EmptyStore)
  BY DEF Projects!EmptyStore, StoreRow, Follows
<1>3. ProjectTaskRow(Projects!NoTask) /\ Projects!NoTask.plan = <<>>
  BY DEF Projects!NoTask, ProjectTaskRow
<1>4. Projects!DeletedIsFiled
  BY <1>1, ProjectsAssumption DEF Projects!DeletedIsFiled
<1> QED
  BY <1>1, <1>2, <1>3, <1>4 DEF ProjectsInv, ProjectRows, Sound

\* How many steps an action has, and the ones that matter.
LEMMA PlanOfDecision ==
  Len(Projects!Plan("decision")) = 7 /\ Projects!Plan("decision")[3] = "decide" /\ Projects!Plan("decision")[4] = "commit"
  BY DEF Projects!Plan

LEMMA PlanOfMapping ==
  Len(Projects!Plan("mapping")) = 7 /\ Projects!Plan("mapping")[3] = "map" /\ Projects!Plan("mapping")[4] = "commit"
  BY DEF Projects!Plan

LEMMA PlanOfInit ==
  Len(Projects!Plan("init")) = 5 /\ Projects!Plan("init")[4] = "upsert" /\ Projects!Plan("init")[5] = "commit"
  BY DEF Projects!Plan

LEMMA PlanOfUpdate ==
  Len(Projects!Plan("update")) = 11 /\ Projects!Plan("update")[4] = "upsert" /\ Projects!Plan("update")[5] = "commit"
  BY DEF Projects!Plan

LEMMA PlanOfArchive == Len(Projects!Plan("archive")) = 5 /\ Projects!Plan("archive")[4] = "file"
  BY DEF Projects!Plan

LEMMA PlansAreSteps == \A action \in Projects!Actions : Projects!Plan(action) \in Seq(Projects!Steps)
<1>1. Projects!Plan("decision") \in Seq(Projects!Steps) /\ Projects!Plan("mapping") \in Seq(Projects!Steps)
  BY DEF Projects!Plan, Projects!Steps
<1>2. Projects!Plan("init") \in Seq(Projects!Steps) /\ Projects!Plan("archive") \in Seq(Projects!Steps)
  BY DEF Projects!Plan, Projects!Steps
<1>3. Projects!Plan("update") \in Seq(Projects!Steps)
  BY DEF Projects!Plan, Projects!Steps
<1> QED
  BY <1>1, <1>2, <1>3 DEF Projects!Actions

\* Where a plan has the steps that matter.
LEMMA Places ==
  ASSUME NEW action \in Projects!Actions, NEW j \in 1..Len(Projects!Plan(action))
  PROVE  /\ Projects!Plan(action)[j] = "look" => j = 1 /\ Projects!Plan(action)[2] = "script"
         /\ Projects!Plan(action)[j] = "unlink" => action = "archive" /\ j = 5
         /\ Projects!Plan(action)[j] = "search" => action = "archive"
<1>1. CASE action = "decision"
  BY <1>1 DEF Projects!Plan
<1>2. CASE action = "mapping"
  BY <1>2 DEF Projects!Plan
<1>3. CASE action = "init"
  BY <1>3 DEF Projects!Plan
<1>4. CASE action = "update"
  BY <1>4 DEF Projects!Plan
<1>5. CASE action = "archive"
  BY <1>5 DEF Projects!Plan
<1> QED
  BY <1>1, <1>2, <1>3, <1>4, <1>5 DEF Projects!Actions

\* Which step comes next, by how many are left.
LEMMA NextStep ==
  ASSUME NEW action \in Projects!Actions, NEW plan, plan # <<>>, IsRest(plan, Projects!Plan(action))
  PROVE  /\ action = "decision" => (Len(plan) = 5 => Head(plan) = "decide") /\ (Len(plan) = 4 => Head(plan) = "commit")
         /\ action = "mapping" => (Len(plan) = 5 => Head(plan) = "map") /\ (Len(plan) = 4 => Head(plan) = "commit")
         /\ action = "init" => (Len(plan) = 2 => Head(plan) = "upsert") /\ (Len(plan) = 1 => Head(plan) = "commit")
         /\ action = "update" => (Len(plan) = 8 => Head(plan) = "upsert") /\ (Len(plan) = 7 => Head(plan) = "commit")
         /\ action = "archive" => (Len(plan) = 2 => Head(plan) = "file")
         /\ Head(plan) = "look" => Len(plan) = Len(Projects!Plan(action)) /\ Len(plan) >= 5
         /\ Head(plan) = "unlink" => action = "archive" /\ Len(plan) = 1
         /\ Head(plan) = "search" => action = "archive"
<1>1. plan \in Seq(Projects!Steps) /\ Len(plan) \in Nat /\ Len(plan) >= 1 /\ Head(plan) = plan[1]
  BY DEF IsRest
<1>2. Len(plan) <= Len(Projects!Plan(action)) /\ Head(plan) = Projects!Plan(action)[1 + Len(Projects!Plan(action)) - Len(plan)]
  BY <1>1 DEF IsRest
<1>3. Len(Projects!Plan(action)) \in Nat /\ 1 + Len(Projects!Plan(action)) - Len(plan) \in 1..Len(Projects!Plan(action))
  BY <1>1, <1>2, PlansAreSteps
<1>4. Len(Projects!Plan(action)) >= 5 /\ (action = "archive" => Len(Projects!Plan(action)) = 5)
  <2> DEFINE n == Len(Projects!Plan(action))
  <2>1. CASE action = "decision"
    <3>1. n = 7
      BY <2>1, PlanOfDecision
    <3> HIDE DEF n
    <3>2. n >= 5
      BY <3>1
    <3>3. action # "archive"
      BY <2>1
    <3> QED
      BY <3>2, <3>3 DEF n
  <2>2. CASE action = "mapping"
    <3>1. n = 7
      BY <2>2, PlanOfMapping
    <3> HIDE DEF n
    <3>2. n >= 5
      BY <3>1
    <3>3. action # "archive"
      BY <2>2
    <3> QED
      BY <3>2, <3>3 DEF n
  <2>3. CASE action = "init"
    BY <2>3, PlanOfInit
  <2>4. CASE action = "update"
    BY <2>4, PlanOfUpdate
  <2>5. CASE action = "archive"
    BY <2>5, PlanOfArchive
  <2> QED
    BY <2>1, <2>2, <2>3, <2>4, <2>5 DEF Projects!Actions
<1> DEFINE at == 1 + Len(Projects!Plan(action)) - Len(plan)
<1>5. Head(plan) = Projects!Plan(action)[at] /\ at \in 1..Len(Projects!Plan(action))
  BY <1>2, <1>3
<1>6. /\ Head(plan) = "look" => at = 1
      /\ Head(plan) = "unlink" => action = "archive" /\ at = 5
      /\ Head(plan) = "search" => action = "archive"
  <2> HIDE DEF at
  <2> QED
    BY <1>5, Places
<1>7. /\ Head(plan) = "look" => Len(plan) = Len(Projects!Plan(action)) /\ Len(plan) >= 5
      /\ Head(plan) = "unlink" => action = "archive" /\ Len(plan) = 1
      /\ Head(plan) = "search" => action = "archive"
  <2>1. Head(plan) = "look" => Len(plan) = Len(Projects!Plan(action)) /\ Len(plan) >= 5
    BY <1>1, <1>3, <1>4, <1>6
  <2>2. ASSUME Head(plan) = "unlink" PROVE action = "archive" /\ Len(plan) = 1
    <3>1. action = "archive" /\ at = 5
      BY <1>6, <2>2
    <3>2. Len(Projects!Plan(action)) = 5
      BY <1>4, <3>1
    <3>3. Len(plan) \in Nat
      BY <1>1
    <3>4. 1 + 5 - Len(plan) = 5
      BY <3>1, <3>2
    <3> QED
      BY <3>1, <3>3, <3>4
  <2> QED
    BY <1>6, <2>1, <2>2
<1>8. ASSUME action = "decision", Len(plan) = 5 PROVE Head(plan) = "decide"
  <2>1. at = 3
    BY <1>8, PlanOfDecision
  <2> QED
    BY <1>5, <1>8, <2>1, PlanOfDecision
<1>9. ASSUME action = "decision", Len(plan) = 4 PROVE Head(plan) = "commit"
  <2>1. at = 4
    BY <1>9, PlanOfDecision
  <2> QED
    BY <1>5, <1>9, <2>1, PlanOfDecision
<1>10. ASSUME action = "mapping", Len(plan) = 5 PROVE Head(plan) = "map"
  <2>1. at = 3
    BY <1>10, PlanOfMapping
  <2> QED
    BY <1>5, <1>10, <2>1, PlanOfMapping
<1>11. ASSUME action = "mapping", Len(plan) = 4 PROVE Head(plan) = "commit"
  <2>1. at = 4
    BY <1>11, PlanOfMapping
  <2> QED
    BY <1>5, <1>11, <2>1, PlanOfMapping
<1>12. ASSUME action = "init", Len(plan) = 2 PROVE Head(plan) = "upsert"
  <2>1. at = 4
    BY <1>12, PlanOfInit
  <2> QED
    BY <1>5, <1>12, <2>1, PlanOfInit
<1>13. ASSUME action = "init", Len(plan) = 1 PROVE Head(plan) = "commit"
  <2>1. at = 5
    BY <1>13, PlanOfInit
  <2> QED
    BY <1>5, <1>13, <2>1, PlanOfInit
<1>14. ASSUME action = "update", Len(plan) = 8 PROVE Head(plan) = "upsert"
  <2>1. at = 4
    BY <1>14, PlanOfUpdate
  <2> QED
    BY <1>5, <1>14, <2>1, PlanOfUpdate
<1>15. ASSUME action = "update", Len(plan) = 7 PROVE Head(plan) = "commit"
  <2>1. at = 5
    BY <1>15, PlanOfUpdate
  <2> QED
    BY <1>5, <1>15, <2>1, PlanOfUpdate
<1>16. ASSUME action = "archive", Len(plan) = 2 PROVE Head(plan) = "file"
  <2>1. at = 4
    BY <1>16, PlanOfArchive
  <2> QED
    BY <1>5, <1>16, <2>1, PlanOfArchive
<1> QED
  BY <1>7, <1>8, <1>9, <1>10, <1>11, <1>12, <1>13, <1>14, <1>15, <1>16

LEMMA TailIsRest ==
  ASSUME NEW plan, plan # <<>>, NEW whole \in Seq(Projects!Steps), IsRest(plan, whole)
  PROVE  IsRest(Tail(plan), whole) /\ Len(Tail(plan)) = Len(plan) - 1
<1>1. plan \in Seq(Projects!Steps) /\ Len(plan) \in Nat /\ Len(plan) >= 1 /\ Len(whole) \in Nat /\ Len(plan) <= Len(whole)
  BY DEF IsRest
<1>2. Tail(plan) \in Seq(Projects!Steps) /\ Len(Tail(plan)) = Len(plan) - 1 /\ \A j \in 1..Len(Tail(plan)) : Tail(plan)[j] = plan[j + 1]
  BY <1>1
<1>3. \A j \in 1..Len(Tail(plan)) : Tail(plan)[j] = whole[j + Len(whole) - Len(Tail(plan))]
  <2> TAKE j \in 1..Len(Tail(plan))
  <2>1. j + 1 \in 1..Len(plan) /\ (j + 1) + Len(whole) - Len(plan) = j + Len(whole) - Len(Tail(plan))
    BY <1>1, <1>2
  <2> QED
    BY <1>2, <2>1 DEF IsRest
<1> QED
  BY <1>1, <1>2, <1>3 DEF IsRest

\* What a step has to bring about for its call.
Does(x, step, view, view2, disk2, bin2) ==
    /\ step = "decide" => x \in view2.decisions
    /\ step = "map" => view2.artifact # Unwritten
    /\ step = "upsert" => view2.project # Unwritten
    /\ step = "commit" => disk2 = view
    /\ step = "file" => bin2 # {}

Later(view, disk, bin, view2, disk2, bin2) == Follows(view, view2) /\ Follows(disk, disk2) /\ (bin # {} => bin2 # {})

LEMMA SoundStays ==
  ASSUME NEW x, NEW action, NEW plan, NEW view, NEW disk, NEW bin, NEW view2, NEW disk2, NEW bin2,
         Sound(x, action, plan, view, disk, bin), Later(view, disk, bin, view2, disk2, bin2)
  PROVE  Sound(x, action, plan, view2, disk2, bin2)
  BY DEF Sound, Achieved, Later, Follows

LEMMA AdvanceIsSound ==
  ASSUME NEW x, NEW action, NEW plan, NEW view, NEW disk, NEW bin, NEW view2, NEW disk2, NEW bin2,
         Sound(x, action, plan, view, disk, bin), Later(view, disk, bin, view2, disk2, bin2),
         plan # <<>>, Does(x, Head(plan), view, view2, disk2, bin2)
  PROVE  /\ Sound(x, action, Tail(plan), view2, disk2, bin2)
         /\ Len(plan) = 1 => Durable(x, action, disk2)
<1>1. action \in Projects!Actions /\ IsRest(plan, Projects!Plan(action)) /\ Achieved(x, action, Len(plan), view, disk, bin)
  BY DEF Sound
<1>2. IsRest(Tail(plan), Projects!Plan(action)) /\ Len(Tail(plan)) = Len(plan) - 1 /\ Len(plan) \in Nat /\ Len(plan) >= 1
  <2>1. plan \in Seq(Projects!Steps) /\ Len(plan) \in Nat /\ Len(plan) >= 1
    BY <1>1 DEF IsRest
  <2> QED
    BY <1>1, <2>1, TailIsRest, PlansAreSteps
<1>3. Achieved(x, action, Len(plan) - 1, view2, disk2, bin2)
  <2>1. ASSUME action = "decision"
       PROVE  (Len(plan) - 1 <= 4 => x \in view2.decisions) /\ (Len(plan) - 1 <= 3 => x \in disk2.decisions)
    <3>1. (Len(plan) <= 4 => x \in view.decisions) /\ (Len(plan) <= 3 => x \in disk.decisions)
      BY <1>1, <2>1 DEF Achieved
    <3>2. (Len(plan) = 5 => x \in view2.decisions) /\ (Len(plan) = 4 => disk2 = view)
      BY <1>1, <2>1, NextStep DEF Does
    <3> QED
      BY <1>2, <3>1, <3>2 DEF Later, Follows
  <2>2. ASSUME action = "mapping"
       PROVE  (Len(plan) - 1 <= 4 => view2.artifact # Unwritten) /\ (Len(plan) - 1 <= 3 => disk2.artifact # Unwritten)
    <3>1. (Len(plan) <= 4 => view.artifact # Unwritten) /\ (Len(plan) <= 3 => disk.artifact # Unwritten)
      BY <1>1, <2>2 DEF Achieved
    <3>2. (Len(plan) = 5 => view2.artifact # Unwritten) /\ (Len(plan) = 4 => disk2 = view)
      BY <1>1, <2>2, NextStep DEF Does
    <3> QED
      BY <1>2, <3>1, <3>2 DEF Later, Follows
  <2>3. ASSUME action = "init"
       PROVE  (Len(plan) - 1 <= 1 => view2.project # Unwritten) /\ (Len(plan) - 1 <= 0 => disk2.project # Unwritten)
    <3>1. (Len(plan) <= 1 => view.project # Unwritten) /\ (Len(plan) <= 0 => disk.project # Unwritten)
      BY <1>1, <2>3 DEF Achieved
    <3>2. (Len(plan) = 2 => view2.project # Unwritten) /\ (Len(plan) = 1 => disk2 = view)
      BY <1>1, <2>3, NextStep DEF Does
    <3> QED
      BY <1>2, <3>1, <3>2 DEF Later, Follows
  <2>4. ASSUME action = "update"
       PROVE  (Len(plan) - 1 <= 7 => view2.project # Unwritten) /\ (Len(plan) - 1 <= 6 => disk2.project # Unwritten)
    <3>1. (Len(plan) <= 7 => view.project # Unwritten) /\ (Len(plan) <= 6 => disk.project # Unwritten)
      BY <1>1, <2>4 DEF Achieved
    <3>2. (Len(plan) = 8 => view2.project # Unwritten) /\ (Len(plan) = 7 => disk2 = view)
      BY <1>1, <2>4, NextStep DEF Does
    <3> QED
      BY <1>2, <3>1, <3>2 DEF Later, Follows
  <2>5. ASSUME action = "archive" PROVE Len(plan) - 1 <= 1 => bin2 # {}
    <3>1. Len(plan) <= 1 => bin # {}
      BY <1>1, <2>5 DEF Achieved
    <3>2. Len(plan) = 2 => bin2 # {}
      BY <1>1, <2>5, NextStep DEF Does
    <3> QED
      BY <1>2, <3>1, <3>2 DEF Later
  <2> QED
    BY <2>1, <2>2, <2>3, <2>4, <2>5 DEF Achieved
<1>4. Len(plan) = 1 => Durable(x, action, disk2)
  BY <1>3 DEF Achieved, Durable
<1> QED
  BY <1>1, <1>2, <1>3, <1>4 DEF Sound

\* One task moves; nothing anybody has achieved is lost.
LEMMA ProjectTaskMoves ==
  ASSUME ProjectsInv, NEW x \in Tasks, NEW row, ProjectTaskRow(row), s6' = [s6 EXCEPT ![x] = row],
         x \in s7 => row.action = s6[x].action,
         StoreRow(s1'), StoreRow(s2'), Follows(s2', s1'), Later(s1, s2, s5, s1', s2', s5'),
         Sound(x, row.action, row.plan, s1', s2', s5'),
         s7' = s7 \/ (s7' = s7 \cup {x} /\ Durable(x, row.action, s2') /\ row.action # "none"),
         s4' = Gone => s5' # {}
  PROVE  ProjectsInv'
<1>1. s6' = [y \in Tasks |-> IF y = x THEN row ELSE s6[y]]
  BY DEF ProjectsInv, ProjectRows
<1>2. s6' = [y \in Tasks |-> s6'[y]] /\ \A y \in Tasks : ProjectTaskRow(s6'[y])
  BY <1>1 DEF ProjectsInv, ProjectRows
<1>3. \A y \in Tasks : Sound(y, s6'[y].action, s6'[y].plan, s1', s2', s5')
  BY <1>1, SoundStays DEF ProjectsInv
<1>4. ASSUME NEW y \in s7' PROVE y \in Tasks /\ Durable(y, s6'[y].action, s2') /\ s6'[y].action # "none"
  <2>1. CASE y \in s7
    <3>1. y \in Tasks /\ Durable(y, s6[y].action, s2) /\ s6[y].action # "none" /\ s6'[y].action = s6[y].action
      BY <1>1, <2>1 DEF ProjectsInv, ProjectRows
    <3> QED
      BY <3>1 DEF Durable, Later, Follows
  <2>2. CASE y \notin s7
    BY <1>1, <1>4, <2>2
  <2> QED
    BY <2>1, <2>2
<1>5. s7' \subseteq Tasks
  BY <1>4
<1> QED
  BY <1>2, <1>3, <1>4, <1>5 DEF ProjectsInv, ProjectRows, StoreRow, ProjectTaskRow, Follows, Sound, Achieved, Durable, Projects!DeletedIsFiled,
     IsRest

\* The plan of a task's row changes.
LEMMA TaskTurns ==
  ASSUME NEW row, ProjectTaskRow(row), NEW plan
  PROVE  [row EXCEPT !.plan = plan] = [action |-> row.action, plan |-> plan, borrowed |-> row.borrowed, text |-> row.text]
  BY DEF ProjectTaskRow

\* A task takes its next step.
LEMMA AdvanceKeeps ==
  ASSUME ProjectsInv, NEW x \in Tasks, s6[x].plan # <<>>, Projects!Advance(x),
         StoreRow(s1'), StoreRow(s2'), Follows(s2', s1'), Later(s1, s2, s5, s1', s2', s5'),
         Does(x, Head(s6[x].plan), s1, s1', s2', s5'), s4' = Gone => s5' # {}
  PROVE  ProjectsInv'
<1> DEFINE plan == s6[x].plan
           row == [action |-> s6[x].action, plan |-> Tail(plan), borrowed |-> s6[x].borrowed, text |-> s6[x].text]
<1>1. s6' = [s6 EXCEPT ![x] = [s6[x] EXCEPT !.plan = Tail(plan)]]
  BY DEF Projects!Advance, ProjectsInv, ProjectRows
<1>2. ProjectTaskRow(s6[x]) /\ Sound(x, s6[x].action, plan, s1, s2, s5)
  BY DEF ProjectsInv, ProjectRows
<1>3. s6' = [s6 EXCEPT ![x] = row] /\ ProjectTaskRow(row) /\ row.action = s6[x].action /\ row.plan = Tail(plan)
  BY <1>1, <1>2, TaskTurns DEF ProjectTaskRow
<1>4. Sound(x, s6[x].action, Tail(plan), s1', s2', s5') /\ (Len(plan) = 1 => Durable(x, s6[x].action, s2'))
  BY <1>2, AdvanceIsSound
<1>5. s6[x].action # "none"
  BY <1>2 DEF Sound, Projects!Actions
<1>6. s7' = s7 \/ (s7' = s7 \cup {x} /\ Len(plan) = 1)
  BY DEF Projects!Advance
<1> HIDE DEF row, plan
<1> QED
  BY <1>3, <1>4, <1>5, <1>6, ProjectTaskMoves DEF plan

\* A task only comes to stand elsewhere.
LEMMA StandsElsewhere ==
  ASSUME ProjectsInv, NEW x \in Tasks, NEW row, ProjectTaskRow(row), s6' = [s6 EXCEPT ![x] = row],
         x \in s7 => row.action = s6[x].action, Sound(x, row.action, row.plan, s1, s2, s5),
         s7' = s7 \/ (s7' = s7 \cup {x} /\ Durable(x, row.action, s2) /\ row.action # "none"),
         UNCHANGED <<s1, s2, s4, s5>>
  PROVE  ProjectsInv'
<1>1. StoreRow(s1') /\ StoreRow(s2') /\ Follows(s2', s1') /\ Later(s1, s2, s5, s1', s2', s5') /\ (s4' = Gone => s5' # {})
  BY DEF ProjectsInv, ProjectRows, Follows, Later, StoreRow, Projects!DeletedIsFiled
<1>2. Sound(x, row.action, row.plan, s1', s2', s5') /\ s2' = s2
  OBVIOUS
<1> QED
  BY <1>1, <1>2, ProjectTaskMoves

\* What a statement does to the database as its transaction sees it.
LEMMA Executed ==
  ASSUME ProjectsInv, NEW x \in Tasks, NEW step, NEW new, Projects!Executes(x, step, new),
         StoreRow(new), Follows(s1, new),
         step = "decide" => x \in new.decisions, step = "map" => new.artifact # Unwritten,
         step = "upsert" => new.project # Unwritten, step # "commit", step # "file"
  PROVE  ProjectsInv'
<1>1. s6[x].plan # <<>> /\ Head(s6[x].plan) = step /\ Projects!Advance(x) /\ s1' = new /\ UNCHANGED <<s2, s4, s5>>
  BY DEF Projects!Executes, Projects!At
<1>2. StoreRow(s2) /\ Follows(s2, s1) /\ (s4' = Gone => s5' # {})
  BY <1>1 DEF ProjectsInv, ProjectRows, Projects!DeletedIsFiled
<1>3. Follows(s2, new) /\ Later(s1, s2, s5, new, s2, s5)
  BY <1>2 DEF Follows, Later
<1>4. Does(x, step, s1, new, s2, s5)
  BY DEF Does
<1>5. StoreRow(s1') /\ StoreRow(s2') /\ Follows(s2', s1') /\ Later(s1, s2, s5, s1', s2', s5') /\ Does(x, Head(s6[x].plan), s1, s1', s2', s5')
  BY <1>1, <1>2, <1>3, <1>4
<1> QED
  BY <1>1, <1>2, <1>5, AdvanceKeeps

LEMMA StatementsAreSafe ==
  ASSUME ProjectsInv, NEW x \in Tasks,
         \/ Projects!UpsertProject(x) \/ Projects!AddDecision(x) \/ Projects!UpsertArtifact(x)
         \/ Projects!ClearSymbols(x) \/ Projects!InsertSymbols(x) \/ Projects!TouchProject(x)
  PROVE  ProjectsInv'
<1>1. StoreRow(s1) /\ x # Unwritten
  BY ProjectsAssumption DEF ProjectsInv, ProjectRows
<1>2. CASE Projects!UpsertProject(x)
  <2> DEFINE new == [s1 EXCEPT !.project = x]
  <2>1. new = [project |-> x, decisions |-> s1.decisions, artifact |-> s1.artifact, symbols |-> s1.symbols]
    BY <1>1 DEF StoreRow
  <2>2. Projects!Executes(x, "upsert", new)
    BY <1>2 DEF Projects!UpsertProject
  <2> HIDE DEF new
  <2>3. StoreRow(new) /\ Follows(s1, new) /\ new.project # Unwritten
    BY <1>1, <2>1 DEF StoreRow, Follows
  <2> QED
    BY <2>2, <2>3, Executed
<1>3. CASE Projects!AddDecision(x)
  <2> DEFINE all == s1.decisions \cup {x}
             new == [s1 EXCEPT !.decisions = all]
  <2>1. new = [project |-> s1.project, decisions |-> all, artifact |-> s1.artifact, symbols |-> s1.symbols]
    BY <1>1 DEF StoreRow
  <2>2. Projects!Executes(x, "decide", new)
    BY <1>3 DEF Projects!AddDecision
  <2> HIDE DEF new
  <2>3. StoreRow(new) /\ Follows(s1, new) /\ x \in new.decisions
    BY <1>1, <2>1 DEF StoreRow, Follows
  <2> QED
    BY <2>2, <2>3, Executed
<1>4. CASE Projects!UpsertArtifact(x)
  <2> DEFINE new == [s1 EXCEPT !.artifact = x]
  <2>1. new = [project |-> s1.project, decisions |-> s1.decisions, artifact |-> x, symbols |-> s1.symbols]
    BY <1>1 DEF StoreRow
  <2>2. Projects!Executes(x, "map", new)
    BY <1>4 DEF Projects!UpsertArtifact
  <2> HIDE DEF new
  <2>3. StoreRow(new) /\ Follows(s1, new) /\ new.artifact # Unwritten
    BY <1>1, <2>1 DEF StoreRow, Follows
  <2> QED
    BY <2>2, <2>3, Executed
<1>5. ASSUME NEW some, NEW step \in {"clear", "index"}, Projects!Executes(x, step, [s1 EXCEPT !.symbols = some]) PROVE ProjectsInv'
  <2> DEFINE new == [s1 EXCEPT !.symbols = some]
  <2>1. new = [project |-> s1.project, decisions |-> s1.decisions, artifact |-> s1.artifact, symbols |-> some]
    BY <1>1 DEF StoreRow
  <2>2. Projects!Executes(x, step, new)
    BY <1>5
  <2> HIDE DEF new
  <2>3. StoreRow(new) /\ Follows(s1, new)
    BY <1>1, <2>1 DEF StoreRow, Follows
  <2> QED
    BY <1>5, <2>2, <2>3, Executed
<1>6. CASE Projects!ClearSymbols(x)
  BY <1>5, <1>6 DEF Projects!ClearSymbols
<1>7. CASE Projects!InsertSymbols(x)
  BY <1>5, <1>7 DEF Projects!InsertSymbols
<1>8. CASE Projects!TouchProject(x)
  <2>1. Projects!Executes(x, "touch", s1) /\ Follows(s1, s1)
    BY <1>8 DEF Projects!TouchProject, Follows
  <2> QED
    BY <1>1, <2>1, Executed
<1> QED
  BY <1>2, <1>3, <1>4, <1>6, <1>7, <1>8

\* Whoever commits commits everybody's work.
LEMMA CommitsAreSafe ==
  ASSUME ProjectsInv, NEW x \in Tasks, Projects!Commit(x) \/ Projects!RunScript(x) \/ Projects!Release(x)
  PROVE  ProjectsInv'
<1>1. /\ s6[x].plan # <<>> /\ Projects!Advance(x) /\ Head(s6[x].plan) \in {"commit", "script", "release"}
      /\ UNCHANGED <<s1, s4, s5>>
      /\ s2' = s1 \/ (s2' = s2 /\ Head(s6[x].plan) = "release")
  BY DEF Projects!Commit, Projects!RunScript, Projects!Release, Projects!At, Projects!CommitAll
<1>2. StoreRow(s1) /\ StoreRow(s2) /\ Follows(s2, s1) /\ Follows(s1, s1) /\ Follows(s2, s2) /\ (s4' = Gone => s5' # {})
  BY <1>1 DEF ProjectsInv, ProjectRows, Projects!DeletedIsFiled, Follows
<1>3. StoreRow(s1') /\ StoreRow(s2') /\ Follows(s2', s1') /\ Follows(s1, s1') /\ Follows(s2, s2')
  BY <1>1, <1>2
<1>4. Later(s1, s2, s5, s1', s2', s5')
  BY <1>1, <1>3 DEF Later
<1>5. Does(x, Head(s6[x].plan), s1, s1', s2', s5')
  BY <1>1 DEF Does
<1> QED
  BY <1>1, <1>2, <1>3, <1>4, <1>5, AdvanceKeeps

\* The page: written, filed, deleted.
LEMMA PagesAreSafe ==
  ASSUME ProjectsInv, NEW x \in Tasks, Projects!WritePage(x) \/ Projects!FilePage(x) \/ Projects!DeletePage(x)
  PROVE  ProjectsInv'
<1>1. /\ s6[x].plan # <<>> /\ Projects!Advance(x) /\ Head(s6[x].plan) \in {"page", "file", "unlink"}
      /\ UNCHANGED <<s1, s2>>
      /\ Head(s6[x].plan) = "page" => s4' = x /\ s5' = s5
      /\ Head(s6[x].plan) = "file" => s4' = s4 /\ s5' = s5 \cup {s6[x].text}
      /\ Head(s6[x].plan) = "unlink" => s5' = s5
  BY DEF Projects!WritePage, Projects!FilePage, Projects!DeletePage, Projects!At
<1>2. StoreRow(s1) /\ StoreRow(s2) /\ Follows(s2, s1) /\ Follows(s1, s1) /\ Follows(s2, s2)
  BY DEF ProjectsInv, ProjectRows, Follows
<1>3. s5 # {} => s5' # {}
  BY <1>1
<1>4. Head(s6[x].plan) = "file" => s5' # {}
  BY <1>1
<1>5. Head(s6[x].plan) = "unlink" => s5 # {}
  <2>1. /\ s6[x].action \in Projects!Actions /\ IsRest(s6[x].plan, Projects!Plan(s6[x].action))
        /\ Achieved(x, s6[x].action, Len(s6[x].plan), s1, s2, s5)
    BY <1>1 DEF ProjectsInv, Sound
  <2>2. Head(s6[x].plan) = "unlink" => s6[x].action = "archive" /\ Len(s6[x].plan) = 1
    BY <1>1, <2>1, NextStep
  <2>3. ASSUME Head(s6[x].plan) = "unlink" PROVE s5 # {}
    <3>1. Achieved(x, "archive", 1, s1, s2, s5)
      BY <2>1, <2>2, <2>3
    <3> QED
      BY <3>1 DEF Achieved
  <2> QED
    BY <2>3
<1>6. s4' = Gone => s5' # {}
  <2>1. s4 = Gone => s5 # {}
    BY DEF ProjectsInv, Projects!DeletedIsFiled
  <2> QED
    BY <1>1, <1>4, <1>5, <2>1, ProjectsAssumption
<1>7. StoreRow(s1') /\ StoreRow(s2') /\ Follows(s2', s1') /\ Later(s1, s2, s5, s1', s2', s5')
  BY <1>1, <1>2, <1>3 DEF Later
<1>8. Does(x, Head(s6[x].plan), s1, s1', s2', s5')
  BY <1>1, <1>4 DEF Does
<1> QED
  BY <1>1, <1>6, <1>7, <1>8, AdvanceKeeps

\* Steps that read: who owns the transaction, whether there is a page.
LEMMA ReadsAreSafe ==
  ASSUME ProjectsInv, NEW x \in Tasks, Projects!ReadOwner(x) \/ Projects!SearchPage(x)
  PROVE  ProjectsInv'
<1> DEFINE plan == s6[x].plan
<1>1. ProjectTaskRow(s6[x]) /\ Sound(x, s6[x].action, plan, s1, s2, s5)
  BY DEF ProjectsInv, ProjectRows
<1>2. plan # <<>> /\ Head(plan) \in {"own", "search"} /\ UNCHANGED <<s1, s2, s4, s5>>
  BY DEF Projects!ReadOwner, Projects!SearchPage, Projects!At
<1>3. Sound(x, s6[x].action, Tail(plan), s1, s2, s5)
  <2>1. Later(s1, s2, s5, s1, s2, s5) /\ Does(x, Head(plan), s1, s1, s2, s5)
    BY <1>2 DEF Later, Does, Follows
  <2> QED
    BY <1>1, <1>2, <2>1, AdvanceIsSound
<1>4. s6[x].action \in Projects!Actions /\ s6[x].action # "none"
  BY <1>1, <1>2 DEF Sound, Projects!Actions
<1>5. CASE Projects!ReadOwner(x)
  <2> DEFINE row == [action |-> s6[x].action, plan |-> Tail(plan), borrowed |-> s3, text |-> s6[x].text]
  <2>1. s6' = [s6 EXCEPT ![x] = [s6[x] EXCEPT !.plan = Tail(plan), !.borrowed = s3]] /\ s7' = s7
    BY <1>5 DEF Projects!ReadOwner, ProjectsInv, ProjectRows
  <2>2. [s6[x] EXCEPT !.plan = Tail(plan), !.borrowed = s3] = row
    <3> DEFINE old == s6[x]
               rest == Tail(plan)
    <3>1. ProjectTaskRow(old)
      BY <1>1
    <3> HIDE DEF old, rest
    <3> DEFINE half == [old EXCEPT !.plan = rest]
    <3>2. half = [action |-> old.action, plan |-> rest, borrowed |-> old.borrowed, text |-> old.text]
      BY <3>1, TaskTurns
    <3>3. [old EXCEPT !.plan = rest, !.borrowed = s3] = [half EXCEPT !.borrowed = s3]
      BY <3>1 DEF ProjectTaskRow
    <3> HIDE DEF half
    <3>4. [half EXCEPT !.borrowed = s3] = [action |-> old.action, plan |-> rest, borrowed |-> s3, text |-> old.text]
      BY <3>2
    <3> QED
      BY <3>3, <3>4 DEF old, rest
  <2>3. ProjectTaskRow(row) /\ row.action = s6[x].action /\ row.plan = Tail(plan)
    BY DEF ProjectTaskRow
  <2> HIDE DEF row, plan
  <2> QED
    BY <1>2, <1>3, <2>1, <2>2, <2>3, StandsElsewhere
<1>6. CASE Projects!SearchPage(x) /\ s4 \in Tasks
  <2> DEFINE row == [action |-> s6[x].action, plan |-> Tail(plan), borrowed |-> s6[x].borrowed, text |-> s4]
  <2>1. s6' = [s6 EXCEPT ![x] = [s6[x] EXCEPT !.plan = Tail(plan), !.text = s4]] /\ s7' = s7
    BY <1>6 DEF Projects!SearchPage, ProjectsInv, ProjectRows
  <2>2. [s6[x] EXCEPT !.plan = Tail(plan), !.text = s4] = row
    <3> DEFINE old == s6[x]
               rest == Tail(plan)
    <3>1. ProjectTaskRow(old)
      BY <1>1
    <3> HIDE DEF old, rest
    <3> DEFINE half == [old EXCEPT !.plan = rest]
    <3>2. half = [action |-> old.action, plan |-> rest, borrowed |-> old.borrowed, text |-> old.text]
      BY <3>1, TaskTurns
    <3>3. [old EXCEPT !.plan = rest, !.text = s4] = [half EXCEPT !.text = s4]
      BY <3>1 DEF ProjectTaskRow
    <3> HIDE DEF half
    <3>4. [half EXCEPT !.text = s4] = [action |-> old.action, plan |-> rest, borrowed |-> old.borrowed, text |-> s4]
      BY <3>2
    <3> QED
      BY <3>3, <3>4 DEF old, rest
  <2>3. ProjectTaskRow(row) /\ row.action = s6[x].action /\ row.plan = Tail(plan)
    BY DEF ProjectTaskRow
  <2> HIDE DEF row, plan
  <2> QED
    BY <1>2, <1>3, <2>1, <2>2, <2>3, StandsElsewhere
<1>7. CASE Projects!SearchPage(x) /\ s4 \notin Tasks
  <2> DEFINE row == [action |-> s6[x].action, plan |-> <<>>, borrowed |-> s6[x].borrowed, text |-> s6[x].text]
  <2>1. s6' = [s6 EXCEPT ![x] = [s6[x] EXCEPT !.plan = <<>>]] /\ s7' = s7 \cup {x} /\ Head(plan) = "search"
    BY <1>7 DEF Projects!SearchPage, Projects!At, ProjectsInv, ProjectRows
  <2>2. s6' = [s6 EXCEPT ![x] = row] /\ ProjectTaskRow(row) /\ row.action = s6[x].action /\ row.plan = <<>>
    BY <1>1, <2>1, TaskTurns DEF ProjectTaskRow
  <2>3. s6[x].action = "archive"
    BY <1>1, <1>2, <2>1, NextStep DEF Sound
  <2>4. Durable(x, s6[x].action, s2) /\ Sound(x, s6[x].action, <<>>, s1, s2, s5)
    BY <2>3 DEF Durable, Sound
  <2> HIDE DEF row, plan
  <2> QED
    BY <1>2, <1>4, <2>1, <2>2, <2>4, StandsElsewhere
<1> QED
  BY <1>5, <1>6, <1>7

\* The script is passed by when a transaction is open.
LEMMA LookIsSafe ==
  ASSUME ProjectsInv, NEW x \in Tasks, Projects!LookForTransaction(x)
  PROVE  ProjectsInv'
<1> DEFINE plan == s6[x].plan
           action == s6[x].action
<1>1. ProjectTaskRow(s6[x]) /\ Sound(x, action, plan, s1, s2, s5)
  BY DEF ProjectsInv, ProjectRows
<1>2. plan # <<>> /\ Head(plan) = "look" /\ UNCHANGED <<s1, s2, s4, s5, s7>>
  BY DEF Projects!LookForTransaction, Projects!At
<1>3. Later(s1, s2, s5, s1, s2, s5) /\ Does(x, "look", s1, s1, s2, s5) /\ Does(x, "script", s1, s1, s2, s5)
  BY DEF Later, Does, Follows
<1>4. Sound(x, action, Tail(plan), s1, s2, s5)
  BY <1>1, <1>2, <1>3, AdvanceIsSound
<1>5. Tail(plan) # <<>> /\ Head(Tail(plan)) = "script"
  <2>1. action \in Projects!Actions /\ IsRest(plan, Projects!Plan(action))
    BY <1>1, <1>2 DEF Sound
  <2>6. plan \in Seq(Projects!Steps) /\ Len(plan) \in Nat
    BY <2>1 DEF IsRest
  <2>7. Len(plan) = Len(Projects!Plan(action)) /\ Len(plan) >= 5
    BY <1>2, <2>1, NextStep
  <2>2. plan \in Seq(Projects!Steps) /\ Len(plan) = Len(Projects!Plan(action)) /\ Len(plan) >= 5 /\ Len(plan) \in Nat
    BY <2>6, <2>7
  <2>3. plan[1] = "look" /\ \A j \in 1..Len(plan) : plan[j] = Projects!Plan(action)[j]
    BY <1>2, <2>1, <2>2 DEF IsRest
  <2>4. Projects!Plan(action)[1] = "look" /\ 1 \in 1..Len(Projects!Plan(action))
    BY <2>2, <2>3
  <2>5. plan[2] = "script"
    BY <2>1, <2>2, <2>3, <2>4, Places
  <2>8. Tail(plan) \in Seq(Projects!Steps) /\ Len(Tail(plan)) = Len(plan) - 1 /\ Tail(plan)[1] = plan[2]
    BY <1>2, <2>2
  <2>9. Len(Tail(plan)) >= 4
    BY <2>2, <2>8
  <2> DEFINE rest == Tail(plan)
  <2>10. rest \in Seq(Projects!Steps) /\ Len(rest) >= 4 /\ rest[1] = "script"
    BY <2>5, <2>8, <2>9
  <2> HIDE DEF rest
  <2>11. rest # <<>> /\ Head(rest) = "script"
    BY <2>10
  <2> QED
    BY <2>11 DEF rest
<1>6. Sound(x, action, Tail(Tail(plan)), s1, s2, s5)
  BY <1>3, <1>4, <1>5, AdvanceIsSound
<1> DEFINE rest == IF s3 THEN Tail(Tail(plan)) ELSE Tail(plan)
           row == [action |-> action, plan |-> rest, borrowed |-> s6[x].borrowed, text |-> s6[x].text]
<1>7. s6' = [s6 EXCEPT ![x] = [s6[x] EXCEPT !.plan = rest]]
  BY DEF Projects!LookForTransaction, ProjectsInv, ProjectRows
<1>8. Sound(x, action, rest, s1, s2, s5)
  BY <1>4, <1>6
<1> HIDE DEF rest
<1>9. s6' = [s6 EXCEPT ![x] = row] /\ ProjectTaskRow(row) /\ row.action = action /\ row.plan = rest
  BY <1>1, <1>7, TaskTurns DEF ProjectTaskRow
<1> HIDE DEF row, plan
<1> QED
  BY <1>2, <1>8, <1>9, StandsElsewhere

\* A call ends before its plan does: the code map is skipped, or it fails.
LEMMA CutsAreSafe ==
  ASSUME ProjectsInv, NEW x \in Tasks, Projects!SkipCodeMap(x) \/ Projects!Fails(x)
  PROVE  ProjectsInv'
<1> DEFINE plan == s6[x].plan
           row == [action |-> s6[x].action, plan |-> <<>>, borrowed |-> s6[x].borrowed, text |-> s6[x].text]
<1>1. ProjectTaskRow(s6[x]) /\ Sound(x, s6[x].action, plan, s1, s2, s5)
  BY DEF ProjectsInv, ProjectRows
<1>2. s6' = [s6 EXCEPT ![x] = [s6[x] EXCEPT !.plan = <<>>]] /\ UNCHANGED <<s1, s2, s4, s5>>
  BY DEF Projects!SkipCodeMap, Projects!Fails, ProjectsInv, ProjectRows
<1>3. s6' = [s6 EXCEPT ![x] = row] /\ ProjectTaskRow(row) /\ row.action = s6[x].action /\ row.plan = <<>>
  BY <1>1, <1>2, TaskTurns DEF ProjectTaskRow
<1>4. Sound(x, s6[x].action, <<>>, s1, s2, s5)
  BY DEF Sound
<1>5. s7' = s7 \/ (s7' = s7 \cup {x} /\ Durable(x, s6[x].action, s2) /\ s6[x].action # "none")
  <2>1. CASE Projects!Fails(x)
    BY <2>1 DEF Projects!Fails
  <2>2. CASE Projects!SkipCodeMap(x)
    <3>1. s6[x].action = "update" /\ Len(plan) \in 1..6 /\ s7' = s7 \cup {x}
      BY <2>2 DEF Projects!SkipCodeMap, Projects!CodeMapSteps
    <3>2. plan # <<>>
      BY <3>1
    <3>3. Achieved(x, "update", Len(plan), s1, s2, s5)
      BY <1>1, <3>1, <3>2 DEF Sound
    <3> DEFINE left == Len(plan)
    <3>5. left \in 1..6 /\ Achieved(x, "update", left, s1, s2, s5)
      BY <3>1, <3>3
    <3> HIDE DEF left
    <3>4. s2.project # Unwritten
      BY <3>5 DEF Achieved
    <3> QED
      BY <3>1, <3>4 DEF Durable
  <2> QED
    BY <2>1, <2>2
<1> HIDE DEF row, plan
<1> QED
  BY <1>2, <1>3, <1>4, <1>5, StandsElsewhere

LEMMA IsTaskRow ==
  ASSUME NEW row, NEW action, NEW plan, NEW borrowed, NEW text,
         row = [action |-> action, plan |-> plan, borrowed |-> borrowed, text |-> text]
  PROVE  ProjectTaskRow(row) /\ row.action = action /\ row.plan = plan
  BY DEF ProjectTaskRow

LEMMA CallIsSafe ==
  ASSUME ProjectsInv, NEW x \in Tasks, NEW action \in Projects!Actions, Projects!Call(x, action)
  PROVE  ProjectsInv'
<1> DEFINE plan == Projects!Plan(action)
           row == [action |-> action, plan |-> plan, borrowed |-> FALSE, text |-> Unwritten]
<1>1. s6[x].action = "none" /\ UNCHANGED <<s1, s2, s4, s5, s7>>
  BY DEF Projects!Call
<1>2. s6' = [s6 EXCEPT ![x] = row]
  <2> DEFINE no == FALSE
             empty == <<>>
             none == "none"
             blank == Projects!NoTask
  <2>1. blank = [action |-> none, plan |-> empty, borrowed |-> no, text |-> Unwritten]
    BY DEF Projects!NoTask
  <2>2. s6' = [s6 EXCEPT ![x] = [Projects!NoTask EXCEPT !.action = action, !.plan = plan]]
    BY DEF Projects!Call
  <2>3. row = [action |-> action, plan |-> plan, borrowed |-> no, text |-> Unwritten]
    OBVIOUS
  <2> HIDE DEF no, empty, none, blank, plan, row
  <2> DEFINE half == [blank EXCEPT !.action = action]
  <2>5. half = [action |-> action, plan |-> empty, borrowed |-> no, text |-> Unwritten]
    BY <2>1
  <2>6. [blank EXCEPT !.action = action, !.plan = plan] = [half EXCEPT !.plan = plan]
    BY <2>1
  <2> HIDE DEF half
  <2>4. [blank EXCEPT !.action = action, !.plan = plan] = [action |-> action, plan |-> plan, borrowed |-> no, text |-> Unwritten]
    BY <2>5, <2>6
  <2> QED
    BY <2>2, <2>3, <2>4 DEF blank
<1>3. ProjectTaskRow(row) /\ row.action = action /\ row.plan = plan
  BY DEF ProjectTaskRow
<1>4. x \notin s7
  BY <1>1 DEF ProjectsInv
<1>5. plan \in Seq(Projects!Steps) /\ Len(plan) \in Nat
  BY PlansAreSteps
<1>6. IsRest(plan, plan)
  <2> HIDE DEF plan
  <2>1. \A j \in 1..Len(plan) : j + Len(plan) - Len(plan) = j
    BY <1>5
  <2> QED
    BY <1>5, <2>1 DEF IsRest
<1>7. Achieved(x, action, Len(plan), s1, s2, s5)
  <2>1. CASE action = "decision"
    <3>1. Len(plan) = 7
      BY <2>1, PlanOfDecision
    <3> HIDE DEF plan
    <3> QED
      BY <2>1, <3>1 DEF Achieved
  <2>2. CASE action = "mapping"
    <3>1. Len(plan) = 7
      BY <2>2, PlanOfMapping
    <3> HIDE DEF plan
    <3> QED
      BY <2>2, <3>1 DEF Achieved
  <2>3. CASE action = "init"
    <3>1. Len(plan) = 5
      BY <2>3, PlanOfInit
    <3> HIDE DEF plan
    <3> QED
      BY <2>3, <3>1 DEF Achieved
  <2>4. CASE action = "update"
    <3>1. Len(plan) = 11
      BY <2>4, PlanOfUpdate
    <3> HIDE DEF plan
    <3> QED
      BY <2>4, <3>1 DEF Achieved
  <2>5. CASE action = "archive"
    <3>1. Len(plan) = 5
      BY <2>5, PlanOfArchive
    <3> HIDE DEF plan
    <3> QED
      BY <2>5, <3>1 DEF Achieved
  <2> QED
    BY <2>1, <2>2, <2>3, <2>4, <2>5 DEF Projects!Actions
<1>8. Sound(x, action, plan, s1, s2, s5)
  BY <1>6, <1>7 DEF Sound
<1> HIDE DEF row, plan
<1> QED
  BY <1>1, <1>2, <1>3, <1>4, <1>8, StandsElsewhere

\* What a crash leaves is what was committed; the page and the bin are files.
LEMMA ProjectCrashIsSafe == ASSUME ProjectsInv, Projects!Crash PROVE ProjectsInv'
<1>1. s1' = s2 /\ UNCHANGED <<s2, s4, s5, s7>> /\ s6' = [x \in Tasks |-> [s6[x] EXCEPT !.plan = <<>>]]
  BY DEF Projects!Crash
<1>2. ASSUME NEW x \in Tasks
      PROVE  s6'[x] = [action |-> s6[x].action, plan |-> <<>>, borrowed |-> s6[x].borrowed, text |-> s6[x].text]
  <2>1. ProjectTaskRow(s6[x]) /\ s6'[x] = [s6[x] EXCEPT !.plan = <<>>]
    BY <1>1, <1>2 DEF ProjectsInv, ProjectRows
  <2> QED
    BY <2>1, TaskTurns
<1>3. \A x \in Tasks : ProjectTaskRow(s6'[x]) /\ s6'[x].plan = <<>> /\ s6'[x].action = s6[x].action
  <2> TAKE x \in Tasks
  <2> DEFINE row == s6'[x]
  <2>1. row = [action |-> s6[x].action, plan |-> <<>>, borrowed |-> s6[x].borrowed, text |-> s6[x].text]
    BY <1>2
  <2> HIDE DEF row
  <2>2. ProjectTaskRow(row) /\ row.plan = <<>> /\ row.action = s6[x].action
    BY <2>1, IsTaskRow
  <2> QED
    BY <2>2 DEF row
<1>4. s6' = [x \in Tasks |-> s6'[x]]
  BY <1>1
<1>5. /\ StoreRow(s2) /\ Follows(s2, s2) /\ s7 \subseteq Tasks /\ Projects!DeletedIsFiled
      /\ \A x \in s7 : Durable(x, s6[x].action, s2) /\ s6[x].action # "none"
  BY DEF ProjectsInv, ProjectRows, Follows
<1>6. \A x \in s7 : Durable(x, s6'[x].action, s2) /\ s6'[x].action # "none"
  BY <1>3, <1>5
<1>7. \A x \in Tasks : Sound(x, s6'[x].action, s6'[x].plan, s2, s2, s5)
  BY <1>3 DEF Sound
<1> QED
  BY <1>1, <1>3, <1>4, <1>5, <1>6, <1>7 DEF ProjectsInv, ProjectRows, StoreRow, ProjectTaskRow, Follows, Durable, Sound, Achieved, IsRest,
     Projects!DeletedIsFiled

LEMMA ProjectsNext == ProjectsInv /\ [Projects!Next]_(Projects!vars) => ProjectsInv'
<1> SUFFICES ASSUME ProjectsInv, [Projects!Next]_(Projects!vars) PROVE ProjectsInv'
  OBVIOUS
<1>1. ASSUME NEW x \in Tasks, Projects!Action(x) PROVE ProjectsInv'
  BY <1>1, CallIsSafe, LookIsSafe, CommitsAreSafe, StatementsAreSafe, CutsAreSafe, ReadsAreSafe, PagesAreSafe DEF Projects!Action
<1>2. CASE UNCHANGED Projects!vars
  BY <1>2 DEF Projects!vars, ProjectsInv, ProjectRows, StoreRow, ProjectTaskRow, Follows, Durable, Sound, Achieved, IsRest, Projects!DeletedIsFiled
<1> QED
  BY <1>1, <1>2, ProjectCrashIsSafe DEF Projects!Next

------------------------------------------------------------------------------
(* Backups *)

Folder == [name : Nat, db : {Whole, Torn, None}, wiki : {Whole, Torn, None}, manifest : BOOLEAN]

Shelf(dirs) == {dirs[i] : i \in 1..Len(dirs)}

OneOfAName(dirs) == \A i, j \in 1..Len(dirs) : dirs[i].name = dirs[j].name => i = j

Filled(d) == d.manifest /\ d.db # None /\ d.wiki # None

InStages == {"snapshot", "wiki", "manifest", "clean"}

\* The directory of a writer holds what the writer has put there so far.
Hale(stage, d) ==
    /\ stage \in InStages
    /\ stage \in {"wiki", "manifest"} => d.db # None
    /\ stage = "manifest" => d.wiki # None
    /\ stage = "clean" => Filled(d)

Cast(crons, manual) == None \notin crons /\ crons \cap manual = {} /\ IsFiniteSet(manual) /\ Cardinality(manual) <= 1

BackupRows(all) ==
    /\ s1 \in [{"db", "wiki"} -> {Whole, Torn}]
    /\ s2 \in Seq(Folder)
    /\ s3 \in [all -> InStages \cup {"idle", "jitter"}]
    /\ s4 = [w \in all |-> s4[w]]
    /\ s7 = [begun |-> s7.begun, crashes |-> s7.crashes, whole |-> s7.whole]
    /\ s7.begun \in Nat /\ s7.crashes \in 0..1 /\ s7.whole \in BOOLEAN

\* Who writes: one cron, under the lock; each its own directory.
WritersApart(crons, all, broken) ==
    /\ \A w \in all : s3[w] \in InStages => s4[w] \in 1..s7.begun
    /\ \A w, x \in all : s3[w] \in InStages /\ s3[x] \in InStages /\ s4[w] = s4[x] => w = x
    /\ \A w \in all : s3[w] = "clean" => w \in crons /\ s7.whole
    /\ \A c \in crons : s3[c] \in InStages =>
          s5 = c /\ s4[c] \notin broken /\ \E d \in Shelf(s2) : d.name = s4[c]
    /\ ~s7.whole => \A w \in all : s3[w] \in InStages => s4[w] \notin broken

\* What a crash has broken has a name in `broken`; everything else is filled, or
\* in the making and as far as its writer.
Kept(all, broken) ==
    \A d \in Shelf(s2) : d.name \notin broken =>
        Filled(d) \/ \E w \in all : s4[w] = d.name /\ Hale(s3[w], d)

BackupsInv(crons, manual, broken) ==
    /\ BackupRows(crons \cup manual)
    /\ broken \in SUBSET (1..s7.begun) /\ IsFiniteSet(broken) /\ Cardinality(broken) <= s7.crashes
    /\ OneOfAName(s2) /\ \A d \in Shelf(s2) : d.name \in 1..s7.begun
    /\ WritersApart(crons, crons \cup manual, broken)
    /\ Kept(crons \cup manual, broken)
    /\ s7.whole => \E d \in Shelf(s2) : Filled(d)

LEMMA BackupsHold ==
  ASSUME NEW crons, NEW manual, NEW broken, BackupsInv(crons, manual, broken)
  PROVE  Backups(crons, manual)!ACompleteOneSurvives
  BY DEF BackupsInv, Filled, Shelf, Backups!ACompleteOneSurvives, Backups!Complete

LEMMA BackupsInit ==
  ASSUME NEW crons, NEW manual, Backups(crons, manual)!Init
  PROVE  BackupsInv(crons, manual, {})
<1>1. /\ s1 = [e \in {"db", "wiki"} |-> Whole] /\ s2 = <<>> /\ s3 = [w \in crons \cup manual |-> "idle"]
      /\ s4 = [w \in crons \cup manual |-> None] /\ s7 = [begun |-> 0, crashes |-> 0, whole |-> FALSE]
  BY DEF Backups!Init, Backups!Entries, Backups!Writers
<1>2. s7.begun = 0 /\ s7.crashes = 0 /\ s7.whole = FALSE
  BY <1>1
<1>3. BackupRows(crons \cup manual)
  BY <1>1, <1>2 DEF BackupRows
<1>4. Shelf(s2) = {} /\ OneOfAName(s2)
  BY <1>1 DEF Shelf, OneOfAName
<1>5. IsFiniteSet({}) /\ Cardinality({}) = 0
  BY FS_EmptySet
<1>6. WritersApart(crons, crons \cup manual, {}) /\ Kept(crons \cup manual, {})
  BY <1>1, <1>2, <1>4 DEF WritersApart, Kept, InStages
<1> QED
  BY <1>2, <1>3, <1>4, <1>5, <1>6 DEF BackupsInv

------------------------------------------------------------------------------
(* The shelf *)

LEMMA ShelfOf ==
  ASSUME NEW dirs \in Seq(Folder), OneOfAName(dirs)
  PROVE  /\ Shelf(dirs) \subseteq Folder
         /\ \A d, e \in Shelf(dirs) : d.name = e.name => d = e
         /\ \A i \in 1..Len(dirs) : dirs[i] \in Shelf(dirs)
  BY DEF Shelf, OneOfAName

\* A directory that is written moves to the end.
Moved(dirs, i, d) == [j \in 1..Len(dirs) |-> IF j < i THEN dirs[j] ELSE IF j < Len(dirs) THEN dirs[j + 1] ELSE d]

LEMMA TouchedShelf ==
  ASSUME NEW dirs, dirs \in Seq(Folder), OneOfAName(dirs), NEW i, i \in 1..Len(dirs), NEW d, d \in Folder, d.name = dirs[i].name
  PROVE  /\ Moved(dirs, i, d) \in Seq(Folder) /\ OneOfAName(Moved(dirs, i, d))
         /\ Shelf(Moved(dirs, i, d)) = (Shelf(dirs) \ {dirs[i]}) \cup {d}
<1> DEFINE new == Moved(dirs, i, d)
<1>0. new = [j \in 1..Len(dirs) |-> IF j < i THEN dirs[j] ELSE IF j < Len(dirs) THEN dirs[j + 1] ELSE d]
  BY DEF Moved
<1> HIDE DEF new
<1>1. Len(dirs) \in Nat /\ Len(dirs) >= 1 /\ i \in Nat /\ \A j \in 1..Len(dirs) : dirs[j] \in Folder
  OBVIOUS
<1>2. \A j \in 1..Len(dirs) : new[j] \in Folder
  BY <1>0, <1>1
<1>3. new \in Seq(Folder) /\ Len(new) = Len(dirs)
  BY <1>0, <1>1, <1>2
\* Where the one at j has gone, and which comes from where.
<1> DEFINE To(j) == IF j < i THEN j ELSE j - 1
           From(j) == IF j < i THEN j ELSE j + 1
<1>4. ASSUME NEW j \in 1..Len(dirs), j # i PROVE To(j) \in 1..Len(dirs) /\ new[To(j)] = dirs[j]
  BY <1>0, <1>1, <1>4
<1>5. new[Len(dirs)] = d
  BY <1>0, <1>1
<1>6. ASSUME NEW j \in 1..Len(dirs), j # Len(dirs) PROVE From(j) \in 1..Len(dirs) /\ From(j) # i /\ new[j] = dirs[From(j)]
  BY <1>0, <1>1, <1>6
<1>7. OneOfAName(new)
  <2> SUFFICES ASSUME NEW j \in 1..Len(dirs), NEW k \in 1..Len(dirs), new[j].name = new[k].name PROVE j = k
    BY <1>3 DEF OneOfAName
  <2>1. CASE j # Len(dirs) /\ k # Len(dirs)
    <3>1. From(j) = From(k)
      BY <1>6, <2>1 DEF OneOfAName
    <3> QED
      BY <1>1, <3>1
  <2>2. CASE j = Len(dirs) /\ k # Len(dirs)
    <3>1. dirs[From(k)].name = dirs[i].name /\ From(k) \in 1..Len(dirs) /\ From(k) # i
      BY <1>5, <1>6, <2>2
    <3> QED
      BY <3>1 DEF OneOfAName
  <2>3. CASE j # Len(dirs) /\ k = Len(dirs)
    <3>1. dirs[From(j)].name = dirs[i].name /\ From(j) \in 1..Len(dirs) /\ From(j) # i
      BY <1>5, <1>6, <2>3
    <3> QED
      BY <3>1 DEF OneOfAName
  <2> QED
    BY <2>1, <2>2, <2>3
<1>8. ASSUME NEW e \in Shelf(new) PROVE e \in (Shelf(dirs) \ {dirs[i]}) \cup {d}
  <2>1. PICK j \in 1..Len(dirs) : e = new[j]
    BY <1>3 DEF Shelf
  <2>2. CASE j = Len(dirs)
    BY <1>5, <2>1, <2>2
  <2>3. CASE j # Len(dirs)
    <3>1. e = dirs[From(j)] /\ From(j) \in 1..Len(dirs) /\ From(j) # i
      BY <1>6, <2>1, <2>3
    <3>2. e # dirs[i]
      BY <3>1 DEF OneOfAName
    <3> QED
      BY <3>1, <3>2 DEF Shelf
  <2> QED
    BY <2>2, <2>3
<1>9. ASSUME NEW e \in (Shelf(dirs) \ {dirs[i]}) \cup {d} PROVE e \in Shelf(new)
  <2>1. CASE e = d
    BY <1>1, <1>3, <1>5, <2>1 DEF Shelf
  <2>2. CASE e \in Shelf(dirs) /\ e # dirs[i]
    <3>1. PICK j \in 1..Len(dirs) : e = dirs[j] /\ j # i
      BY <2>2 DEF Shelf
    <3> QED
      BY <1>3, <1>4, <3>1 DEF Shelf
  <2> QED
    BY <1>9, <2>1, <2>2
<1> QED
  BY <1>3, <1>7, <1>8, <1>9 DEF new

LEMMA AppendedShelf ==
  ASSUME NEW dirs \in Seq(Folder), OneOfAName(dirs), NEW d \in Folder, \A e \in Shelf(dirs) : e.name # d.name
  PROVE  /\ Append(dirs, d) \in Seq(Folder) /\ OneOfAName(Append(dirs, d))
         /\ Shelf(Append(dirs, d)) = Shelf(dirs) \cup {d}
<1> DEFINE new == Append(dirs, d)
<1>1. /\ new \in Seq(Folder) /\ Len(dirs) \in Nat /\ Len(new) = Len(dirs) + 1 /\ new[Len(dirs) + 1] = d
      /\ \A j \in 1..Len(dirs) : new[j] = dirs[j]
  OBVIOUS
<1> HIDE DEF new
<1>2. \A j \in 1..Len(dirs) : dirs[j] \in Shelf(dirs)
  BY DEF Shelf
<1>3. \A j \in 1..Len(new) : j \in 1..Len(dirs) \/ j = Len(dirs) + 1
  BY <1>1
<1>4. OneOfAName(new)
  BY <1>1, <1>2, <1>3 DEF OneOfAName
<1>5. \A e : e \in Shelf(new) => e \in Shelf(dirs) \cup {d}
  BY <1>1, <1>2, <1>3 DEF Shelf
<1>6. \A e : e \in Shelf(dirs) \cup {d} => e \in Shelf(new)
  <2>1. Len(dirs) + 1 \in 1..Len(new) /\ \A j \in 1..Len(dirs) : j \in 1..Len(new)
    BY <1>1
  <2> QED
    BY <1>1, <2>1 DEF Shelf
<1> QED
  BY <1>1, <1>4, <1>5, <1>6 DEF new

\* The oldest are removed.
LEMMA CleanedShelf ==
  ASSUME NEW dirs \in Seq(Folder), OneOfAName(dirs), NEW n \in 0..Len(dirs), NEW new,
         new = [j \in 1..(Len(dirs) - n) |-> dirs[j + n]]
  PROVE  /\ new \in Seq(Folder) /\ OneOfAName(new)
         /\ Shelf(new) \subseteq Shelf(dirs)
         /\ \A i \in 1..Len(dirs) : i > n => dirs[i] \in Shelf(new)
<1>1. Len(dirs) \in Nat /\ n \in Nat /\ n <= Len(dirs) /\ Len(dirs) - n \in Nat /\ \A j \in 1..Len(dirs) : dirs[j] \in Folder
  OBVIOUS
<1>2. \A j \in 1..(Len(dirs) - n) : j + n \in 1..Len(dirs)
  BY <1>1
<1>3. new \in Seq(Folder) /\ Len(new) = Len(dirs) - n
  BY <1>1, <1>2
<1>4. OneOfAName(new)
  BY <1>1, <1>2, <1>3 DEF OneOfAName
<1>5. Shelf(new) \subseteq Shelf(dirs)
  BY <1>2, <1>3 DEF Shelf
<1>6. ASSUME NEW i \in 1..Len(dirs), i > n PROVE dirs[i] \in Shelf(new)
  <2>1. i - n \in 1..(Len(dirs) - n) /\ (i - n) + n = i
    BY <1>1, <1>6
  <2>2. new[i - n] = dirs[i]
    BY <2>1
  <2> QED
    BY <1>3, <2>1, <2>2 DEF Shelf
<1> QED
  BY <1>3, <1>4, <1>5, <1>6

------------------------------------------------------------------------------
(* One writer moves *)

LEMMA StillApart ==
  ASSUME NEW crons, NEW all, crons \subseteq all, NEW broken, WritersApart(crons, all, broken), NEW w \in all, NEW broken2,
         s7.begun \in Nat, s7'.begun \in Nat, s7'.begun >= s7.begun, s7.whole => s7'.whole,
         \A x \in all : x # w => s3'[x] = s3[x] /\ s4'[x] = s4[x],
         s3'[w] \in InStages =>
            s4'[w] \in 1..s7'.begun /\ \A x \in all : x # w /\ s3[x] \in InStages => s4[x] # s4'[w],
         s3'[w] = "clean" => w \in crons /\ s7'.whole,
         \A c \in crons : c # w /\ s3[c] \in InStages =>
            s5' = c /\ s4[c] \notin broken2 /\ \E d \in Shelf(s2') : d.name = s4[c],
         w \in crons /\ s3'[w] \in InStages => s5' = w /\ s4'[w] \notin broken2 /\ \E d \in Shelf(s2') : d.name = s4'[w],
         ~s7'.whole => \A x \in all : x # w /\ s3[x] \in InStages => s4[x] \notin broken2,
         ~s7'.whole /\ s3'[w] \in InStages => s4'[w] \notin broken2
  PROVE  WritersApart(crons, all, broken2)'
<1>1. \A x \in all : s3'[x] \in InStages => s4'[x] \in 1..s7'.begun
  BY DEF WritersApart
<1>2. \A x, y \in all : s3'[x] \in InStages /\ s3'[y] \in InStages /\ s4'[x] = s4'[y] => x = y
  BY DEF WritersApart
<1>3. \A x \in all : s3'[x] = "clean" => x \in crons /\ s7'.whole
  BY DEF WritersApart
<1>4. \A c \in crons : s3'[c] \in InStages =>
          s5' = c /\ s4'[c] \notin broken2 /\ \E d \in Shelf(s2') : d.name = s4'[c]
  BY DEF WritersApart
<1>5. ~s7'.whole => \A x \in all : s3'[x] \in InStages => s4'[x] \notin broken2
  BY DEF WritersApart
<1> QED
  BY <1>1, <1>2, <1>3, <1>4, <1>5 DEF WritersApart, Shelf, InStages

LEMMA StillKept ==
  ASSUME NEW all, NEW broken, Kept(all, broken), NEW w \in all, NEW broken2, broken \subseteq broken2,
         \A x \in all : x # w => s3'[x] = s3[x] /\ s4'[x] = s4[x],
         \A e \in Shelf(s2') : \/ e \in Shelf(s2)
                               \/ e.name \in broken2 \/ Filled(e) \/ (s4'[w] = e.name /\ Hale(s3'[w], e)),
         \A e \in Shelf(s2) : s4[w] = e.name /\ Hale(s3[w], e) /\ e \in Shelf(s2') =>
             e.name \in broken2 \/ Filled(e) \/ (s4'[w] = e.name /\ Hale(s3'[w], e))
  PROVE  Kept(all, broken2)'
<1>1. ASSUME NEW e \in Shelf(s2'), e.name \notin broken2
      PROVE  Filled(e) \/ \E x \in all : s4'[x] = e.name /\ Hale(s3'[x], e)
  <2>1. CASE e \notin Shelf(s2)
    BY <1>1, <2>1
  <2>2. CASE e \in Shelf(s2)
    <3>1. Filled(e) \/ \E x \in all : s4[x] = e.name /\ Hale(s3[x], e)
      BY <1>1, <2>2 DEF Kept
    <3> QED
      BY <1>1, <2>2, <3>1
  <2> QED
    BY <2>1, <2>2
<1> QED
  BY <1>1 DEF Kept, Shelf, Filled, Hale, InStages

\* The directory of a writer is as far as its writer, unless a crash broke it.
LEMMA MineIsHale ==
  ASSUME NEW crons, NEW manual, NEW broken, BackupsInv(crons, manual, broken), NEW w \in crons \cup manual, s3[w] \in InStages,
         NEW d \in Shelf(s2), d.name = s4[w], d.name \notin broken
  PROVE  Filled(d) \/ Hale(s3[w], d)
  BY DEF BackupsInv, Kept, WritersApart, Hale

\* What is to be shown of a step that touches neither the live files nor the
\* number of crashes.
LEMMA SameBroken ==
  ASSUME NEW crons, NEW manual, NEW broken, BackupsInv(crons, manual, broken),
         BackupRows(crons \cup manual)', s7'.begun >= s7.begun, s7'.crashes >= s7.crashes,
         OneOfAName(s2'), \A d \in Shelf(s2') : d.name \in 1..s7'.begun,
         WritersApart(crons, crons \cup manual, broken)', Kept(crons \cup manual, broken)',
         s7'.whole => \E d \in Shelf(s2') : Filled(d)
  PROVE  BackupsInv(crons, manual, broken)'
<1>1. s7.begun \in Nat /\ s7'.begun \in Nat /\ s7.crashes \in Nat /\ s7'.crashes \in Nat
  BY DEF BackupsInv, BackupRows
<1>2. broken \in SUBSET (1..s7'.begun) /\ IsFiniteSet(broken) /\ Cardinality(broken) <= s7'.crashes
  <2>1. broken \in SUBSET (1..s7.begun) /\ IsFiniteSet(broken) /\ Cardinality(broken) <= s7.crashes
    BY DEF BackupsInv
  <2>2. Cardinality(broken) \in Nat
    BY <2>1, FS_CardinalityType
  <2> QED
    BY <1>1, <2>1, <2>2
<1> QED
  BY <1>2 DEF BackupsInv, OneOfAName, Shelf, Filled

------------------------------------------------------------------------------
(* The steps of a writer *)

LEMMA CountTurns ==
  ASSUME NEW row, row = [begun |-> row.begun, crashes |-> row.crashes, whole |-> row.whole], NEW new
  PROVE  /\ [row EXCEPT !.begun = new] = [begun |-> new, crashes |-> row.crashes, whole |-> row.whole]
         /\ [row EXCEPT !.crashes = new] = [begun |-> row.begun, crashes |-> new, whole |-> row.whole]
         /\ [row EXCEPT !.whole = new] = [begun |-> row.begun, crashes |-> row.crashes, whole |-> new]
  OBVIOUS

\* A writer moves between idle and the jitter.
LEMMA WaitIsSafe ==
  ASSUME NEW crons, NEW manual, NEW broken, BackupsInv(crons, manual, broken), NEW w \in crons \cup manual,
         \/ Backups(crons, manual)!Due(w) \/ Backups(crons, manual)!StopInJitter(w) \/ Backups(crons, manual)!SkipBusy(w)
  PROVE  BackupsInv(crons, manual, broken)'
<1> DEFINE all == crons \cup manual
<1>1. PICK st \in {"idle", "jitter"} : s3' = [s3 EXCEPT ![w] = st]
  BY DEF Backups!Due, Backups!StopInJitter, Backups!SkipBusy
<1>2. s3[w] \notin InStages /\ UNCHANGED <<s1, s2, s4, s5, s6, s7>>
  BY DEF Backups!Due, Backups!StopInJitter, Backups!SkipBusy, InStages
<1>3. BackupRows(all) /\ WritersApart(crons, all, broken) /\ Kept(all, broken)
  BY DEF BackupsInv
<1>4. s3' \in [all -> InStages \cup {"idle", "jitter"}] /\ s3'[w] \notin InStages /\ \A x \in all : x # w => s3'[x] = s3[x] /\ s4'[x] = s4[x]
  BY <1>1, <1>2, <1>3 DEF BackupRows, InStages
<1>5. BackupRows(all)'
  BY <1>2, <1>3, <1>4 DEF BackupRows, InStages, Folder
<1>6. WritersApart(crons, all, broken)'
  BY <1>1, <1>2, <1>3, <1>4 DEF WritersApart, InStages, Shelf
<1>7. Kept(all, broken)'
  <2>1. \A e \in Shelf(s2) : ~ Hale(s3[w], e)
    BY <1>2 DEF Hale
  <2> QED
    BY <1>2, <1>3, <1>4, <2>1, StillKept
<1>8. OneOfAName(s2) /\ (\A d \in Shelf(s2) : d.name \in 1..s7.begun) /\ (s7.whole => \E d \in Shelf(s2) : Filled(d))
  BY DEF BackupsInv
<1>9. s7.begun \in Nat /\ s7.crashes \in Nat
  BY <1>3 DEF BackupRows
<1> QED
  BY <1>2, <1>5, <1>6, <1>7, <1>8, <1>9, SameBroken

\* A new directory, with a name nobody has.
LEMMA BeginIsSafe ==
  ASSUME NEW crons, NEW manual, NEW broken, BackupsInv(crons, manual, broken), Cast(crons, manual), NEW w \in crons \cup manual,
         Backups(crons, manual)!TakeLock(w) \/ Backups(crons, manual)!BackupNow(w)
  PROVE  BackupsInv(crons, manual, broken)'
<1> DEFINE all == crons \cup manual
           n == s7.begun + 1
           no == FALSE
           d == [name |-> n, db |-> None, wiki |-> None, manifest |-> no]
<1>1. /\ BackupRows(all) /\ WritersApart(crons, all, broken) /\ Kept(all, broken)
      /\ OneOfAName(s2) /\ (\A e \in Shelf(s2) : e.name \in 1..s7.begun) /\ (s7.whole => \E e \in Shelf(s2) : Filled(e))
      /\ broken \subseteq 1..s7.begun
  BY DEF BackupsInv
<1>2. s7.begun \in Nat /\ s7.crashes \in 0..1 /\ s7.whole \in BOOLEAN /\ s2 \in Seq(Folder)
  BY <1>1 DEF BackupRows
<1>3. /\ s7' = [s7 EXCEPT !.begun = n] /\ s4' = [s4 EXCEPT ![w] = n] /\ s2' = Append(s2, d)
      /\ s3' = [s3 EXCEPT ![w] = "snapshot"] /\ UNCHANGED <<s1, s6>>
  BY DEF Backups!TakeLock, Backups!BackupNow, Backups!Begin
<1>4. /\ s3[w] \notin InStages
      /\ \/ s5 = None /\ s5' = w
         \/ w \in manual /\ s5' = s5
  BY DEF Backups!TakeLock, Backups!BackupNow, Backups!LockFree, InStages
<1>5. s7' = [begun |-> n, crashes |-> s7.crashes, whole |-> s7.whole]
  <2> HIDE DEF n
  <2> QED
    BY <1>1, <1>3, CountTurns DEF BackupRows
<1>6. s7'.begun = n /\ s7'.crashes = s7.crashes /\ s7'.whole = s7.whole /\ n \in Nat /\ n >= s7.begun
  BY <1>2, <1>5
<1>7. d \in Folder /\ d.name = n /\ d.db = None
  BY <1>2 DEF Folder
<1>8. \A e \in Shelf(s2) : e.name # n
  BY <1>1, <1>2
<1>9. s2' \in Seq(Folder) /\ OneOfAName(s2') /\ Shelf(s2') = Shelf(s2) \cup {d}
  <2> HIDE DEF d, n
  <2> QED
    BY <1>1, <1>2, <1>3, <1>7, <1>8, AppendedShelf
<1>10. /\ s3' \in [all -> InStages \cup {"idle", "jitter"}] /\ s3'[w] = "snapshot" /\ s4'[w] = n
       /\ s4' = [x \in all |-> s4'[x]]
       /\ \A x \in all : x # w => s3'[x] = s3[x] /\ s4'[x] = s4[x]
  BY <1>1, <1>3 DEF BackupRows, InStages
<1>11. BackupRows(all)'
  BY <1>1, <1>2, <1>3, <1>5, <1>6, <1>9, <1>10 DEF BackupRows, InStages, Folder
<1>12. "snapshot" \in InStages /\ "snapshot" # "clean" /\ n \in 1..n /\ n \notin broken
  BY <1>1, <1>2 DEF InStages
<1>13. \A x \in all : s3[x] \in InStages => s4[x] # n
  BY <1>1, <1>2 DEF WritersApart
<1>14. \A c \in crons : c # w /\ s3[c] \in InStages =>
           s5' = c /\ s4[c] \notin broken /\ \E e \in Shelf(s2') : e.name = s4[c]
  BY <1>1, <1>4, <1>9 DEF WritersApart, Cast
<1>15. w \in crons => s5' = w
  BY <1>4 DEF Cast
<1>16. \E e \in Shelf(s2') : e.name = n
  BY <1>7, <1>9
<1>17. ~s7'.whole => \A x \in all : s3[x] \in InStages => s4[x] \notin broken
  BY <1>1, <1>6 DEF WritersApart
<1> HIDE DEF d, n
<1>18. WritersApart(crons, all, broken)'
  BY <1>1, <1>2, <1>6, <1>10, <1>12, <1>13, <1>14, <1>15, <1>16, <1>17, StillApart
<1>19. Kept(all, broken)'
  <2>1. Hale("snapshot", d) /\ \A e \in Shelf(s2) : ~ Hale(s3[w], e)
    BY <1>4, <1>12 DEF Hale
  <2> QED
    BY <1>1, <1>7, <1>9, <1>10, <2>1, StillKept
<1>20. \A e \in Shelf(s2') : e.name \in 1..s7'.begun
  <2>1. n \in 1..n /\ 1..s7.begun \subseteq 1..n
    BY <1>2 DEF n
  <2> QED
    BY <1>1, <1>6, <1>7, <1>9, <2>1
<1>21. s7'.whole => \E e \in Shelf(s2') : Filled(e)
  BY <1>1, <1>6, <1>9
<1> QED
  <2>1. s7'.begun >= s7.begun /\ s7'.crashes >= s7.crashes
    BY <1>2, <1>6
  <2> QED
    BY <1>9, <1>11, <1>18, <1>19, <1>20, <1>21, <2>1, SameBroken

\* A writer writes into its directory, or the manifest over what it wrote.
LEMMA WriteIsSafe ==
  ASSUME NEW crons, NEW manual, NEW broken, BackupsInv(crons, manual, broken), Cast(crons, manual), NEW w \in crons \cup manual,
         \/ Backups(crons, manual)!Snapshot(w) \/ Backups(crons, manual)!CopyWiki(w) \/ Backups(crons, manual)!Manifest(w)
  PROVE  BackupsInv(crons, manual, broken)'
<1> DEFINE all == crons \cup manual
           yes == TRUE
<1>1. /\ BackupRows(all) /\ WritersApart(crons, all, broken) /\ Kept(all, broken)
      /\ OneOfAName(s2) /\ (\A e \in Shelf(s2) : e.name \in 1..s7.begun) /\ (s7.whole => \E e \in Shelf(s2) : Filled(e))
  BY DEF BackupsInv
<1>2. s7.begun \in Nat /\ s7.crashes \in 0..1 /\ s7.whole \in BOOLEAN /\ s2 \in Seq(Folder) /\ s1["db"] # None /\ s1["wiki"] # None
      /\ s1["db"] \in {Whole, Torn} /\ s1["wiki"] \in {Whole, Torn}
  BY <1>1, BackupsAssumption DEF BackupRows
\* What the three have in common: the directory at i becomes d.
<1>3. \E i \in 1..Len(s2), d \in Folder :
         /\ s2[i].name = s4[w] /\ d.name = s2[i].name
         /\ s2' = [j \in 1..Len(s2) |-> IF j < i THEN s2[j] ELSE IF j < Len(s2) THEN s2[j + 1] ELSE d]
         /\ Filled(s2[i]) => Filled(d)
         /\ s3[w] \in {"snapshot", "wiki", "manifest"} /\ s3'[w] \in {"wiki", "manifest", "clean", "idle"}
         /\ Hale(s3[w], s2[i]) => Filled(d) \/ (Hale(s3'[w], d) /\ s3'[w] \in {"wiki", "manifest"})
         /\ s3'[w] \in {"clean", "idle"} => s3[w] = "manifest" /\ s7' = [s7 EXCEPT !.whole = yes]
         /\ s3'[w] \in {"wiki", "manifest"} => s7' = s7
         /\ s3'[w] = "clean" => w \in crons
         /\ w \in crons => s3'[w] # "idle"
         /\ s3' \in [all -> InStages \cup {"idle", "jitter"}] /\ \A x \in all : x # w => s3'[x] = s3[x]
  <2>1. CASE Backups(crons, manual)!Snapshot(w)
    <3>1. PICK i \in 1..Len(s2) :
             s2[i].name = s4[w] /\ s2' = [j \in 1..Len(s2) |-> IF j < i THEN s2[j] ELSE IF j < Len(s2) THEN s2[j + 1]
                                                                ELSE [s2[i] EXCEPT !.db = s1["db"]]]
      BY <2>1 DEF Backups!Snapshot, Backups!Mine, Backups!Places, Backups!Touched
    <3> DEFINE d == [s2[i] EXCEPT !.db = s1["db"]]
    <3>2. s2[i] \in Folder
      BY <1>2
    <3>3. d \in Folder /\ d.name = s2[i].name /\ d.db # None /\ d.wiki = s2[i].wiki /\ d.manifest = s2[i].manifest
      BY <1>2, <3>2 DEF Folder
    <3>4. s3[w] = "snapshot" /\ s3' = [s3 EXCEPT ![w] = "wiki"] /\ s7' = s7
      BY <2>1 DEF Backups!Snapshot
    <3>5. s3'[w] = "wiki" /\ s3' \in [all -> InStages \cup {"idle", "jitter"}] /\ \A x \in all : x # w => s3'[x] = s3[x]
      BY <1>1, <3>4 DEF BackupRows, InStages
    <3> HIDE DEF d
    <3>6. Hale("wiki", d) /\ (Filled(s2[i]) => Filled(d))
      BY <3>3 DEF Hale, Filled, InStages
    <3> QED
      BY <3>1, <3>3, <3>4, <3>5, <3>6 DEF d
  <2>2. CASE Backups(crons, manual)!CopyWiki(w)
    <3>1. PICK i \in 1..Len(s2) :
             s2[i].name = s4[w] /\ s2' = [j \in 1..Len(s2) |-> IF j < i THEN s2[j] ELSE IF j < Len(s2) THEN s2[j + 1]
                                                                ELSE [s2[i] EXCEPT !.wiki = s1["wiki"]]]
      BY <2>2 DEF Backups!CopyWiki, Backups!Mine, Backups!Places, Backups!Touched
    <3> DEFINE d == [s2[i] EXCEPT !.wiki = s1["wiki"]]
    <3>2. s2[i] \in Folder
      BY <1>2
    <3>3. d \in Folder /\ d.name = s2[i].name /\ d.wiki # None /\ d.db = s2[i].db /\ d.manifest = s2[i].manifest
      BY <1>2, <3>2 DEF Folder
    <3>4. s3[w] = "wiki" /\ s3' = [s3 EXCEPT ![w] = "manifest"] /\ s7' = s7
      BY <2>2 DEF Backups!CopyWiki
    <3>5. s3'[w] = "manifest" /\ s3' \in [all -> InStages \cup {"idle", "jitter"}] /\ \A x \in all : x # w => s3'[x] = s3[x]
      BY <1>1, <3>4 DEF BackupRows, InStages
    <3> HIDE DEF d
    <3>6. (Hale("wiki", s2[i]) => Hale("manifest", d)) /\ (Filled(s2[i]) => Filled(d))
      BY <3>3 DEF Hale, Filled, InStages
    <3> QED
      BY <3>1, <3>3, <3>4, <3>5, <3>6 DEF d
  <2>3. CASE Backups(crons, manual)!Manifest(w)
    <3>1. PICK i \in 1..Len(s2) :
             s2[i].name = s4[w] /\ s2' = [j \in 1..Len(s2) |-> IF j < i THEN s2[j] ELSE IF j < Len(s2) THEN s2[j + 1]
                                                                ELSE [s2[i] EXCEPT !.manifest = TRUE]]
      BY <2>3 DEF Backups!Manifest, Backups!Mine, Backups!Places, Backups!Touched
    <3> DEFINE d == [s2[i] EXCEPT !.manifest = TRUE]
    <3>2. s2[i] \in Folder
      BY <1>2
    <3>3. d \in Folder /\ d.name = s2[i].name /\ d.wiki = s2[i].wiki /\ d.db = s2[i].db /\ d.manifest = TRUE
      BY <1>2, <3>2 DEF Folder
    <3>4. s3[w] = "manifest" /\ s7' = [s7 EXCEPT !.whole = yes]
          /\ \/ w \in crons /\ s3' = [s3 EXCEPT ![w] = "clean"]
             \/ w \notin crons /\ s3' = [s3 EXCEPT ![w] = "idle"]
      BY <2>3 DEF Backups!Manifest, Backups!Finish
    <3>5. /\ s3'[w] \in {"clean", "idle"} /\ (s3'[w] = "clean" => w \in crons) /\ (w \in crons => s3'[w] # "idle")
          /\ s3' \in [all -> InStages \cup {"idle", "jitter"}] /\ \A x \in all : x # w => s3'[x] = s3[x]
      BY <1>1, <3>4 DEF BackupRows, InStages
    <3> HIDE DEF d
    <3>6. (Hale("manifest", s2[i]) => Filled(d)) /\ (Filled(s2[i]) => Filled(d))
      BY <3>3 DEF Hale, Filled, InStages
    <3> QED
      BY <3>1, <3>3, <3>4, <3>5, <3>6 DEF d
  <2> QED
    BY <2>1, <2>2, <2>3
<1>4. PICK i \in 1..Len(s2), d \in Folder :
         /\ s2[i].name = s4[w] /\ d.name = s2[i].name
         /\ s2' = [j \in 1..Len(s2) |-> IF j < i THEN s2[j] ELSE IF j < Len(s2) THEN s2[j + 1] ELSE d]
         /\ Filled(s2[i]) => Filled(d)
         /\ s3[w] \in {"snapshot", "wiki", "manifest"} /\ s3'[w] \in {"wiki", "manifest", "clean", "idle"}
         /\ Hale(s3[w], s2[i]) => Filled(d) \/ (Hale(s3'[w], d) /\ s3'[w] \in {"wiki", "manifest"})
         /\ s3'[w] \in {"clean", "idle"} => s3[w] = "manifest" /\ s7' = [s7 EXCEPT !.whole = yes]
         /\ s3'[w] \in {"wiki", "manifest"} => s7' = s7
         /\ s3'[w] = "clean" => w \in crons
         /\ w \in crons => s3'[w] # "idle"
         /\ s3' \in [all -> InStages \cup {"idle", "jitter"}] /\ \A x \in all : x # w => s3'[x] = s3[x]
  BY <1>3
\* The rest of the state.
<1>5. /\ s1' = s1 /\ s4' = [x \in all |-> s4'[x]] /\ \A x \in all : x # w => s4'[x] = s4[x]
      /\ s3'[w] # "idle" => s4'[w] = s4[w] /\ s5' = s5
      /\ s3'[w] = "idle" => s5' = (IF s5 = w THEN None ELSE s5)
  BY <1>1, <1>4 DEF Backups!Snapshot, Backups!CopyWiki, Backups!Manifest, Backups!Finish, BackupRows
<1>6. s7' = s7 \/ s7' = [begun |-> s7.begun, crashes |-> s7.crashes, whole |-> yes]
  <2> HIDE DEF yes
  <2> QED
    BY <1>1, <1>4, CountTurns DEF BackupRows
<1>7. /\ s7'.begun = s7.begun /\ s7'.crashes = s7.crashes /\ (s7.whole => s7'.whole) /\ s7'.whole \in BOOLEAN
      /\ s7' = [begun |-> s7'.begun, crashes |-> s7'.crashes, whole |-> s7'.whole]
  <2>1. CASE s7' = s7
    BY <1>1, <2>1 DEF BackupRows
  <2>2. CASE s7' = [begun |-> s7.begun, crashes |-> s7.crashes, whole |-> yes]
    <3>1. s7'.whole = yes /\ s7'.begun = s7.begun /\ s7'.crashes = s7.crashes
      BY <2>2
    <3> QED
      BY <2>2, <3>1
  <2> QED
    BY <1>6, <2>1, <2>2
<1>8. s3'[w] = "clean" => s7'.whole
  <2>1. s3'[w] = "clean" => s7' = [begun |-> s7.begun, crashes |-> s7.crashes, whole |-> yes]
    <3> HIDE DEF yes
    <3> QED
      BY <1>1, <1>4, CountTurns DEF BackupRows
  <2>2. s3'[w] = "clean" => s7'.whole = yes
    BY <2>1
  <2> QED
    BY <2>2
<1>9. s2' \in Seq(Folder) /\ OneOfAName(s2') /\ Shelf(s2') = (Shelf(s2) \ {s2[i]}) \cup {d}
  <2>1. s2' = Moved(s2, i, d)
    BY <1>4 DEF Moved
  <2>4. s2 \in Seq(Folder) /\ OneOfAName(s2) /\ d.name = s2[i].name
    BY <1>1, <1>2, <1>4
  <2>3. LET new == Moved(s2, i, d) IN new \in Seq(Folder) /\ OneOfAName(new) /\ Shelf(new) = (Shelf(s2) \ {s2[i]}) \cup {d}
    BY <2>4, TouchedShelf
  <2> QED
    BY <2>1, <2>3
<1>10. s2[i] \in Shelf(s2) /\ \A e \in Shelf(s2) : e.name = s4[w] => e = s2[i]
  BY <1>1, <1>2, <1>4, ShelfOf
<1>11. s4[w] \notin broken => Filled(s2[i]) \/ Hale(s3[w], s2[i])
  BY <1>4, <1>10, MineIsHale DEF InStages
<1>12. BackupRows(all)'
  BY <1>1, <1>2, <1>4, <1>5, <1>7, <1>9 DEF BackupRows, InStages, Folder
<1>13. s3[w] \in InStages
  BY <1>4 DEF InStages
<1>14. WritersApart(crons, all, broken)'
  <2>1. s3'[w] \in InStages =>
           s4'[w] \in 1..s7'.begun /\ \A x \in all : x # w /\ s3[x] \in InStages => s4[x] # s4'[w]
    BY <1>1, <1>5, <1>7, <1>13 DEF WritersApart, InStages
  <2>2. \A c \in crons : c # w /\ s3[c] \in InStages =>
           s5' = c /\ s4[c] \notin broken /\ \E e \in Shelf(s2') : e.name = s4[c]
    <3> TAKE c \in crons
    <3> HAVE c # w /\ s3[c] \in InStages
    <3>1. s5 = c /\ s4[c] \notin broken /\ s4[c] # s4[w] /\ \E e \in Shelf(s2) : e.name = s4[c]
      BY <1>1, <1>13 DEF WritersApart
    <3>2. s5' = s5
      BY <1>4, <1>5, <3>1
    <3> QED
      BY <1>4, <1>9, <3>1, <3>2
  <2>3. w \in crons /\ s3'[w] \in InStages => s5' = w /\ s4'[w] \notin broken /\ \E e \in Shelf(s2') : e.name = s4'[w]
    BY <1>1, <1>4, <1>5, <1>9, <1>13 DEF WritersApart
  <2>4. ~s7'.whole => \A x \in all : s3[x] \in InStages => s4[x] \notin broken
    BY <1>1, <1>7 DEF WritersApart
  <2>5. ~s7'.whole /\ s3'[w] \in InStages => s4'[w] \notin broken
    <3>1. s3'[w] \in InStages => s4'[w] = s4[w]
      BY <1>5 DEF InStages
    <3> QED
      BY <1>13, <2>4, <3>1
  <2>6. s7'.begun \in Nat /\ s7'.begun >= s7.begun /\ crons \subseteq all
    BY <1>2, <1>7
  <2>7. \A x \in all : x # w => s3'[x] = s3[x] /\ s4'[x] = s4[x]
    BY <1>4, <1>5
  <2>8. s3'[w] = "clean" => w \in crons /\ s7'.whole
    BY <1>4, <1>8
  <2> QED
    BY <1>1, <1>2, <1>7, <2>1, <2>2, <2>3, <2>4, <2>5, <2>6, <2>7, <2>8, StillApart
<1>15. d.name \in broken \/ Filled(d) \/ (s4'[w] = d.name /\ Hale(s3'[w], d))
  BY <1>4, <1>5, <1>11
<1>16. Kept(all, broken)'
  <2>1. \A e \in Shelf(s2') : e \in Shelf(s2) \/ e.name \in broken \/ Filled(e) \/ (s4'[w] = e.name /\ Hale(s3'[w], e))
    BY <1>9, <1>15
  <2>2. \A e \in Shelf(s2) : s4[w] = e.name /\ Hale(s3[w], e) /\ e \in Shelf(s2') =>
            e.name \in broken \/ Filled(e) \/ (s4'[w] = e.name /\ Hale(s3'[w], e))
    BY <1>9, <1>10, <1>15
  <2> QED
    BY <1>1, <1>4, <1>5, <2>1, <2>2, StillKept
<1>17. \A e \in Shelf(s2') : e.name \in 1..s7'.begun
  BY <1>1, <1>4, <1>7, <1>9, <1>10
\* The first to be completed is whole; later ones find a whole one.
<1>18. s7'.whole => \E e \in Shelf(s2') : Filled(e)
  <2>1. CASE s7.whole
    <3>1. PICK e \in Shelf(s2) : Filled(e)
      BY <1>1, <2>1
    <3> QED
      BY <1>4, <1>9, <3>1
  <2>2. CASE ~s7.whole /\ s7'.whole
    <3>1. s4[w] \notin broken
      BY <1>1, <1>13, <2>2 DEF WritersApart
    <3>2. s3'[w] \in {"clean", "idle"}
      BY <1>4, <2>2
    <3>3. Filled(d)
      BY <1>4, <1>11, <3>1, <3>2
    <3> QED
      BY <1>9, <3>3
  <2> QED
    BY <1>2, <1>7, <2>1, <2>2
<1>19. s7'.begun >= s7.begun /\ s7'.crashes >= s7.crashes
  BY <1>2, <1>7
<1> QED
  BY <1>9, <1>12, <1>14, <1>16, <1>17, <1>18, <1>19, SameBroken

\* A writer leaves: it has finished, failed or died.
Leaves(crons, all, w, broken, broken2) ==
    /\ broken \subseteq broken2 /\ broken2 \subseteq 1..s7.begun /\ IsFiniteSet(broken2)
    /\ Cardinality(broken2) <= s7'.crashes /\ s7'.crashes \in 0..1 /\ s7'.begun = s7.begun /\ s7'.whole = s7.whole
    /\ s7' = [begun |-> s7'.begun, crashes |-> s7'.crashes, whole |-> s7'.whole]
    /\ s1' = s1 /\ s3' = [s3 EXCEPT ![w] = "idle"] /\ s4' = [s4 EXCEPT ![w] = None] /\ s5' = (IF s5 = w THEN None ELSE s5)
    /\ s2' \in Seq(Folder) /\ OneOfAName(s2')
    /\ \A e \in Shelf(s2') : e \in Shelf(s2) \/ e.name \in broken2
    /\ \A e \in Shelf(s2') : e \in Shelf(s2) /\ s4[w] = e.name /\ Hale(s3[w], e) => e.name \in broken2 \/ Filled(e)
    /\ \A c \in crons : c # w /\ s3[c] \in InStages => s4[c] \notin broken2 /\ \E d \in Shelf(s2') : d.name = s4[c]
    /\ ~s7.whole => \A x \in all : x # w /\ s3[x] \in InStages => s4[x] \notin broken2
    /\ s7.whole => \E e \in Shelf(s2') : Filled(e)

LEMMA LeavingIsSafe ==
  ASSUME NEW crons, NEW manual, NEW broken, BackupsInv(crons, manual, broken), Cast(crons, manual), NEW w \in crons \cup manual,
         NEW broken2, Leaves(crons, crons \cup manual, w, broken, broken2)
  PROVE  BackupsInv(crons, manual, broken2)'
<1> USE DEF Leaves
<1> DEFINE all == crons \cup manual
<1>1. /\ BackupRows(all) /\ WritersApart(crons, all, broken) /\ Kept(all, broken)
      /\ \A e \in Shelf(s2) : e.name \in 1..s7.begun
  BY DEF BackupsInv
<1>2. /\ s3' \in [all -> InStages \cup {"idle", "jitter"}] /\ s3'[w] = "idle" /\ s4' = [x \in all |-> s4'[x]]
      /\ \A x \in all : x # w => s3'[x] = s3[x] /\ s4'[x] = s4[x]
  BY <1>1 DEF BackupRows, InStages
<1>3. s7.begun \in Nat /\ s7.whole \in BOOLEAN
  BY <1>1 DEF BackupRows
<1>4. BackupRows(all)'
  BY <1>1, <1>2, <1>3 DEF BackupRows, InStages, Folder
<1>5. "idle" \notin InStages /\ "idle" # "clean"
  BY DEF InStages
<1>6. \A c \in crons : c # w /\ s3[c] \in InStages => s5' = c
  BY <1>1 DEF WritersApart
<1>7. WritersApart(crons, all, broken2)'
  <2>1. s7'.begun \in Nat /\ s7'.begun >= s7.begun /\ crons \subseteq all /\ (s7.whole => s7'.whole)
    BY <1>3
  <2>2. \A c \in crons : c # w /\ s3[c] \in InStages =>
           s5' = c /\ s4[c] \notin broken2 /\ \E d \in Shelf(s2') : d.name = s4[c]
    BY <1>6
  <2>3. ~s7'.whole => \A x \in all : x # w /\ s3[x] \in InStages => s4[x] \notin broken2
    OBVIOUS
  <2>4. s3'[w] \notin InStages /\ s3'[w] # "clean"
    BY <1>2, <1>5
  <2>5. s3'[w] \in InStages =>
           s4'[w] \in 1..s7'.begun /\ \A x \in all : x # w /\ s3[x] \in InStages => s4[x] # s4'[w]
    BY <2>4
  <2>6. s3'[w] = "clean" => w \in crons /\ s7'.whole
    BY <2>4
  <2>7. w \in crons /\ s3'[w] \in InStages => s5' = w /\ s4'[w] \notin broken2 /\ \E d \in Shelf(s2') : d.name = s4'[w]
    BY <2>4
  <2>8. ~s7'.whole /\ s3'[w] \in InStages => s4'[w] \notin broken2
    BY <2>4
  <2>9. \A x \in all : x # w => s3'[x] = s3[x] /\ s4'[x] = s4[x]
    BY <1>2
  <2>10. WritersApart(crons, all, broken) /\ s7.begun \in Nat
    BY <1>1, <1>3
  <2> QED
    BY <2>1, <2>2, <2>3, <2>5, <2>6, <2>7, <2>8, <2>9, <2>10, StillApart
<1>8. Kept(all, broken2)'
  BY <1>1, <1>2, StillKept
<1>9. \A e \in Shelf(s2') : e.name \in 1..s7'.begun
  BY <1>1
<1>10. s7'.whole => \E e \in Shelf(s2') : Filled(e)
  OBVIOUS
<1>11. broken2 \in SUBSET (1..s7'.begun)
  OBVIOUS
<1> QED
  BY <1>4, <1>7, <1>8, <1>9, <1>10, <1>11 DEF BackupsInv, OneOfAName, Shelf, Filled

LEMMA AtMostOne ==
  ASSUME NEW S, IsFiniteSet(S), Cardinality(S) <= 1, NEW a \in S, NEW b \in S
  PROVE  a = b
<1>1. Cardinality(S) \in Nat
  BY FS_CardinalityType
<1>2. Cardinality(S) = 1
  BY <1>1, FS_EmptySet
<1> QED
  BY <1>2, FS_Singleton

\* Incomplete directories count like complete ones: of three, one is another
\* writer's and one was left by a crash.
LEMMA OneOfThree ==
  ASSUME NEW crons, NEW manual, NEW broken, BackupsInv(crons, manual, broken), Cast(crons, manual),
         NEW c \in crons, s3[c] = "clean", Len(s2) > 3
  PROVE  \E i \in (Len(s2) - 2)..Len(s2) : Filled(s2[i])
<1> DEFINE L == Len(s2)
<1>1. s2 \in Seq(Folder) /\ L \in Nat /\ s7.crashes \in 0..1 /\ OneOfAName(s2)
  BY DEF BackupsInv, BackupRows
<1>2. L - 2 \in 1..L /\ L - 1 \in 1..L /\ L \in 1..L /\ L - 2 # L - 1 /\ L - 1 # L /\ L - 2 # L
  BY <1>1
<1> HIDE DEF L
<1>3. \A i \in 1..L : s2[i] \in Shelf(s2)
  BY DEF Shelf, L
<1>4. ASSUME NEW i \in 1..L, ~Filled(s2[i]), s2[i].name \notin broken
      PROVE  \E m \in manual : s4[m] = s2[i].name
  <2>1. PICK x \in crons \cup manual : s4[x] = s2[i].name /\ Hale(s3[x], s2[i])
    BY <1>3, <1>4 DEF BackupsInv, Kept
  <2>2. s3[x] \in InStages /\ s3[x] # "clean"
    BY <1>4, <2>1 DEF Hale
  <2>3. s3[c] \in InStages
    BY DEF InStages
  <2>4. x \notin crons
    BY <2>2, <2>3 DEF BackupsInv, WritersApart
  <2> QED
    BY <2>1, <2>4
<1>5. \A i, j \in 1..L : i # j => s2[i].name # s2[j].name
  BY <1>1 DEF OneOfAName, L
<1>6. \A i, j \in 1..L : s2[i].name \in broken /\ s2[j].name \in broken => i = j
  <2>1. IsFiniteSet(broken) /\ Cardinality(broken) <= s7.crashes /\ Cardinality(broken) \in Nat
    BY FS_CardinalityType DEF BackupsInv
  <2>2. Cardinality(broken) <= 1
    BY <1>1, <2>1
  <2> QED
    BY <1>5, <2>1, <2>2, AtMostOne
<1>7. \A i, j \in 1..L : ~Filled(s2[i]) /\ ~Filled(s2[j]) /\ s2[i].name \notin broken /\ s2[j].name \notin broken => i = j
  <2> TAKE i, j \in 1..L
  <2> HAVE ~Filled(s2[i]) /\ ~Filled(s2[j]) /\ s2[i].name \notin broken /\ s2[j].name \notin broken
  <2>1. PICK m \in manual : s4[m] = s2[i].name
    BY <1>4
  <2>2. PICK k \in manual : s4[k] = s2[j].name
    BY <1>4
  <2>3. m = k
    BY AtMostOne DEF Cast
  <2> QED
    BY <1>5, <2>1, <2>2, <2>3
<1>8. Filled(s2[L - 2]) \/ Filled(s2[L - 1]) \/ Filled(s2[L])
  BY <1>2, <1>6, <1>7
<1>9. L - 2 \in (L - 2)..L /\ L - 1 \in (L - 2)..L /\ L \in (L - 2)..L
  BY <1>1
<1> QED
  BY <1>8, <1>9 DEF L

LEMMA LossIsSafe ==
  ASSUME NEW crons, NEW manual, NEW broken, BackupsInv(crons, manual, broken), Cast(crons, manual), NEW w \in crons \cup manual,
         Backups(crons, manual)!LosesDirectory(w)
  PROVE  BackupsInv(crons, manual, broken)'
<1> DEFINE all == crons \cup manual
<1>1. /\ BackupRows(all) /\ WritersApart(crons, all, broken) /\ Kept(all, broken) /\ OneOfAName(s2)
      /\ (s7.whole => \E e \in Shelf(s2) : Filled(e))
      /\ broken \subseteq 1..s7.begun /\ IsFiniteSet(broken) /\ Cardinality(broken) <= s7.crashes
  BY DEF BackupsInv
<1>2. /\ s3' = [s3 EXCEPT ![w] = "idle"] /\ s4' = [s4 EXCEPT ![w] = None] /\ s5' = (IF s5 = w THEN None ELSE s5)
      /\ UNCHANGED <<s1, s2, s6, s7>> /\ \A i \in 1..Len(s2) : s2[i].name # s4[w]
  BY DEF Backups!LosesDirectory, Backups!Finish, Backups!Mine, Backups!Places
<1>3. \A e \in Shelf(s2) : e.name # s4[w]
  BY <1>2 DEF Shelf
<1>4. s7.crashes \in 0..1 /\ s7 = [begun |-> s7.begun, crashes |-> s7.crashes, whole |-> s7.whole] /\ s2 \in Seq(Folder)
  BY <1>1 DEF BackupRows
<1>5. \A c \in crons : s3[c] \in InStages => s4[c] \notin broken /\ \E d \in Shelf(s2) : d.name = s4[c]
  BY <1>1 DEF WritersApart
<1>6. ~s7.whole => \A x \in all : s3[x] \in InStages => s4[x] \notin broken
  BY <1>1 DEF WritersApart
<1>7. Leaves(crons, all, w, broken, broken)
  BY <1>1, <1>2, <1>3, <1>4, <1>5, <1>6 DEF Leaves
<1> QED
  BY <1>7, LeavingIsSafe

\* Of those that stay one is complete: the cleaner's own, or one of the count.
LEMMA CleanIsSafe ==
  ASSUME NEW crons, NEW manual, NEW broken, BackupsInv(crons, manual, broken), Cast(crons, manual), NEW w \in crons \cup manual,
         Backups(crons, manual)!Clean(w)
  PROVE  BackupsInv(crons, manual, broken)'
<1> DEFINE all == crons \cup manual
<1>1. /\ BackupRows(all) /\ WritersApart(crons, all, broken) /\ Kept(all, broken) /\ OneOfAName(s2)
      /\ broken \subseteq 1..s7.begun /\ IsFiniteSet(broken) /\ Cardinality(broken) <= s7.crashes
  BY DEF BackupsInv
<1>2. /\ s3[w] = "clean"
      /\ s3' = [s3 EXCEPT ![w] = "idle"] /\ s4' = [s4 EXCEPT ![w] = None] /\ s5' = (IF s5 = w THEN None ELSE s5)
      /\ UNCHANGED <<s1, s6, s7>>
  BY DEF Backups!Clean, Backups!Finish
<1>3. PICK n \in 0..Len(s2) : /\ Backups(crons, manual)!Aged(n)
                              /\ s2' = [j \in 1..(Len(s2) - Backups(crons, manual)!Doomed(n)) |->
                                            s2[j + Backups(crons, manual)!Doomed(n)]]
  BY DEF Backups!Clean
<1>4. /\ s7.crashes \in 0..1 /\ s7 = [begun |-> s7.begun, crashes |-> s7.crashes, whole |-> s7.whole] /\ s2 \in Seq(Folder)
      /\ s7.begun \in Nat
  BY <1>1 DEF BackupRows
<1>5. s3[w] \in InStages /\ w \in crons /\ s5 = w /\ s7.whole /\ s4[w] \notin broken
  BY <1>1, <1>2 DEF WritersApart, InStages
<1>6. \A c \in crons : c # w => s3[c] \notin InStages
  BY <1>1, <1>5 DEF WritersApart
<1> DEFINE over == Backups(crons, manual)!Doomed(n)
<1>7. over = IF Len(s2) - n > 3 THEN Len(s2) - 3 ELSE n
  BY DEF Backups!Doomed
<1>8. Len(s2) \in Nat /\ over \in 0..Len(s2)
  BY <1>4, <1>7
<1>9. \E i \in 1..Len(s2) : i > over /\ Filled(s2[i])
  <2>1. CASE Len(s2) - n > 3
    <3>1. Len(s2) > 3 /\ over = Len(s2) - 3
      BY <1>7, <1>8, <2>1
    <3>2. PICK i \in (Len(s2) - 2)..Len(s2) : Filled(s2[i])
      BY <1>2, <1>5, <3>1, OneOfThree
    <3>3. i \in 1..Len(s2) /\ i > Len(s2) - 3
      BY <1>8, <3>1
    <3> QED
      BY <3>1, <3>2, <3>3
  <2>2. CASE ~(Len(s2) - n > 3)
    <3>1. PICK d \in Shelf(s2) : d.name = s4[w]
      BY <1>1, <1>5 DEF WritersApart
    <3>2. Filled(d)
      BY <1>2, <1>5, <3>1, MineIsHale DEF Hale
    <3>3. PICK i \in 1..Len(s2) : d = s2[i]
      BY DEF Shelf
    <3>4. \A j \in 1..n : ~(s4[w] = s2[j].name)
      BY <1>2, <1>3 DEF Backups!Aged, Backups!Working, Backups!Writers
    <3>5. i > n
      BY <1>8, <3>1, <3>3, <3>4
    <3> QED
      BY <1>7, <2>2, <3>2, <3>3, <3>5
  <2> QED
    BY <2>1, <2>2
<1>10. s2' = [j \in 1..(Len(s2) - over) |-> s2[j + over]]
  BY <1>3
<1> HIDE DEF over
<1>11. /\ s2' \in Seq(Folder) /\ OneOfAName(s2') /\ Shelf(s2') \subseteq Shelf(s2)
       /\ \A i \in 1..Len(s2) : i > over => s2[i] \in Shelf(s2')
  <2> DEFINE new == [j \in 1..(Len(s2) - over) |-> s2[j + over]]
  <2>1. new = [j \in 1..(Len(s2) - over) |-> s2[j + over]] /\ s2' = new
    BY <1>10
  <2> HIDE DEF new
  <2> QED
    BY <1>1, <1>4, <1>8, <2>1, CleanedShelf
<1>12. \E e \in Shelf(s2') : Filled(e)
  BY <1>9, <1>11
<1>13. \A e \in Shelf(s2') : e \in Shelf(s2) /\ s4[w] = e.name /\ Hale(s3[w], e) => e.name \in broken \/ Filled(e)
  BY <1>2 DEF Hale
<1>14. s7' = s7 /\ s7'.crashes \in 0..1 /\ s7' = [begun |-> s7'.begun, crashes |-> s7'.crashes, whole |-> s7'.whole]
  BY <1>2, <1>4
<1>15. Leaves(crons, all, w, broken, broken)
  BY <1>1, <1>2, <1>4, <1>5, <1>6, <1>11, <1>12, <1>13, <1>14 DEF Leaves
<1> QED
  BY <1>15, LeavingIsSafe

\* One more is broken by one more crash.
LEMMA OneMoreBroken ==
  ASSUME NEW broken, IsFiniteSet(broken), NEW n \in Nat, Cardinality(broken) <= n, NEW x
  PROVE  IsFiniteSet(broken \cup {x}) /\ Cardinality(broken \cup {x}) <= n + 1
<1>1. Cardinality(broken) \in Nat
  BY FS_CardinalityType
<1> QED
  BY <1>1, FS_AddElement

LEMMA WriterCrashIsSafe ==
  ASSUME NEW crons, NEW manual, NEW broken, BackupsInv(crons, manual, broken), Cast(crons, manual), NEW w \in crons \cup manual,
         Backups(crons, manual)!Crash(w)
  PROVE  \E broken2 : BackupsInv(crons, manual, broken2)'
<1> DEFINE all == crons \cup manual
           more == s7.crashes + 1
<1>1. /\ BackupRows(all) /\ WritersApart(crons, all, broken) /\ Kept(all, broken) /\ OneOfAName(s2)
      /\ broken \subseteq 1..s7.begun /\ IsFiniteSet(broken) /\ Cardinality(broken) <= s7.crashes
      /\ (s7.whole => \E e \in Shelf(s2) : Filled(e)) /\ \A e \in Shelf(s2) : e.name \in 1..s7.begun
  BY DEF BackupsInv
<1>2. /\ s3' = [s3 EXCEPT ![w] = "idle"] /\ s4' = [s4 EXCEPT ![w] = None] /\ s5' = (IF s5 = w THEN None ELSE s5)
      /\ s1' = s1 /\ s7' = [s7 EXCEPT !.crashes = more] /\ s7.crashes < 1 /\ s3[w] # "idle"
  BY DEF Backups!Crash, Backups!Finish
<1>3. /\ s7.crashes \in 0..1 /\ s7 = [begun |-> s7.begun, crashes |-> s7.crashes, whole |-> s7.whole] /\ s2 \in Seq(Folder)
      /\ s7.begun \in Nat /\ s7.whole \in BOOLEAN
  BY <1>1 DEF BackupRows
<1>4. s7' = [begun |-> s7.begun, crashes |-> more, whole |-> s7.whole]
  <2> HIDE DEF more
  <2> QED
    BY <1>2, <1>3, CountTurns
<1>5. s7'.begun = s7.begun /\ s7'.crashes = more /\ s7'.whole = s7.whole /\ s7'.crashes \in 0..1
  BY <1>2, <1>3, <1>4
<1>6. s7' = [begun |-> s7'.begun, crashes |-> s7'.crashes, whole |-> s7'.whole]
  BY <1>4, <1>5
<1>7. \A c \in crons : c # w /\ s3[c] \in InStages => s4[c] \notin broken /\ \E d \in Shelf(s2) : d.name = s4[c]
  BY <1>1 DEF WritersApart
<1>8. ~s7.whole => \A x \in all : x # w /\ s3[x] \in InStages => s4[x] \notin broken
  BY <1>1 DEF WritersApart
<1>9. ASSUME NEW x PROVE IsFiniteSet(broken \cup {x}) /\ Cardinality(broken \cup {x}) <= s7'.crashes
  <2> DEFINE n == s7.crashes
  <2>1. n \in Nat /\ IsFiniteSet(broken) /\ Cardinality(broken) <= n
    BY <1>1, <1>3
  <2>2. s7'.crashes = n + 1
    BY <1>5
  <2> HIDE DEF n
  <2>3. IsFiniteSet(broken \cup {x}) /\ Cardinality(broken \cup {x}) <= n + 1
    BY <2>1, OneMoreBroken
  <2> QED
    BY <2>2, <2>3
<1>10. IsFiniteSet(broken) /\ Cardinality(broken) <= s7'.crashes
  BY <1>1, <1>3, <1>5, FS_CardinalityType
\* In the jitter it has written nothing.
<1>11. CASE s3[w] = "jitter"
  <2>1. s2' = s2
    BY <1>11 DEF Backups!Crash
  <2>2. \A e : ~ Hale(s3[w], e)
    BY <1>11 DEF Hale, InStages
  <2>3. OneOfAName(s2') /\ Shelf(s2') = Shelf(s2) /\ s2' \in Seq(Folder)
    BY <1>1, <1>3, <2>1
  <2>4. Leaves(crons, all, w, broken, broken)
    BY <1>1, <1>2, <1>5, <1>6, <1>7, <1>8, <1>10, <2>2, <2>3 DEF Leaves
  <2> QED
    BY <2>4, LeavingIsSafe
\* Its own directory stays as it is, or is torn.
<1>12. CASE s3[w] \in InStages /\ (s2' = s2 \/ s3[w] = "snapshot")
  <2> DEFINE after == broken \cup {s4[w]}
  <2>1. s4[w] \in 1..s7.begun
    BY <1>1, <1>12 DEF WritersApart
  <2>2. \A x \in all : x # w /\ s3[x] \in InStages => s4[x] # s4[w]
    BY <1>1, <1>12 DEF WritersApart
  <2>3. /\ s2' \in Seq(Folder) /\ OneOfAName(s2')
        /\ \A e \in Shelf(s2') : e \in Shelf(s2) \/ e.name = s4[w]
        /\ \A e \in Shelf(s2) : e \in Shelf(s2') \/ (e.name = s4[w] /\ (Filled(e) => \E d \in Shelf(s2') : Filled(d)))
    <3>1. CASE s2' = s2
      BY <1>1, <1>3, <3>1
    <3>2. CASE s2' # s2
      <4>1. PICK i \in 1..Len(s2) : s2[i].name = s4[w] /\
               s2' = [j \in 1..Len(s2) |-> IF j < i THEN s2[j] ELSE IF j < Len(s2) THEN s2[j + 1] ELSE [s2[i] EXCEPT !.db = Torn]]
        BY <1>12, <3>2 DEF Backups!Crash, Backups!Mine, Backups!Places, Backups!Touched
      <4>2. s2[i] \in Folder
        BY <1>3
      <4>3. PICK d \in Folder : d = [s2[i] EXCEPT !.db = Torn]
        BY <4>2 DEF Folder
      <4>4. d \in Folder /\ d.name = s2[i].name /\ d.db = Torn /\ d.wiki = s2[i].wiki /\ d.manifest = s2[i].manifest
        BY <4>2, <4>3 DEF Folder
      <4>5. Filled(s2[i]) => Filled(d)
        BY <4>4, BackupsAssumption DEF Filled
      <4>6. s2' = Moved(s2, i, d)
        BY <4>1, <4>3 DEF Moved
      <4>7. s2 \in Seq(Folder) /\ OneOfAName(s2) /\ d.name = s2[i].name
        BY <1>1, <1>3, <4>4
      <4>8. s2' \in Seq(Folder) /\ OneOfAName(s2') /\ Shelf(s2') = (Shelf(s2) \ {s2[i]}) \cup {d}
        BY <4>6, <4>7, TouchedShelf
      <4> QED
        BY <4>1, <4>4, <4>5, <4>8
    <3> QED
      BY <3>1, <3>2
  <2>4. \A c \in crons : c # w /\ s3[c] \in InStages => s4[c] \notin after /\ \E d \in Shelf(s2') : d.name = s4[c]
    BY <1>7, <2>2, <2>3
  <2>5. ~s7.whole => \A x \in all : x # w /\ s3[x] \in InStages => s4[x] \notin after
    BY <1>8, <2>2
  <2>6. s7.whole => \E e \in Shelf(s2') : Filled(e)
    BY <1>1, <2>3
  <2>7. s4[w] \in after /\ broken \subseteq after /\ after \subseteq 1..s7.begun /\ IsFiniteSet(after) /\ Cardinality(after) <= s7'.crashes
    BY <1>1, <1>9, <2>1
  <2> HIDE DEF after
  <2>8. /\ \A e \in Shelf(s2') : e \in Shelf(s2) \/ e.name \in after
        /\ \A e \in Shelf(s2') : e \in Shelf(s2) /\ s4[w] = e.name /\ Hale(s3[w], e) => e.name \in after \/ Filled(e)
    BY <2>3, <2>7
  <2>9. Leaves(crons, all, w, broken, after)
    BY <1>2, <1>5, <1>6, <2>3, <2>4, <2>5, <2>6, <2>7, <2>8 DEF Leaves
  <2> QED
    BY <2>9, LeavingIsSafe
\* Another directory, an old one, has lost an entry.
<1>13. CASE s3[w] = "clean" /\ s2' # s2
  <2>1. s3[w] \in InStages /\ w \in crons /\ s5 = w /\ s7.whole
    BY <1>1, <1>13 DEF WritersApart, InStages
  <2>2. \A c \in crons : c # w => s3[c] \notin InStages
    BY <1>1, <2>1 DEF WritersApart
  <2>3. PICK i \in 1..Backups(crons, manual)!Doomed(0) :
           s2' = [j \in 1..Len(s2) |-> IF j < i THEN s2[j] ELSE IF j < Len(s2) THEN s2[j + 1] ELSE [s2[i] EXCEPT !.db = None]]
    BY <1>13 DEF Backups!Crash, Backups!Touched
  <2>4. Len(s2) \in Nat /\ Len(s2) > 3 /\ i \in 1..(Len(s2) - 3)
    <3>1. Len(s2) \in Nat
      BY <1>3
    <3>2. Backups(crons, manual)!Doomed(0) = IF Len(s2) - 0 > 3 THEN Len(s2) - 3 ELSE 0
      BY DEF Backups!Doomed
    <3> QED
      BY <3>1, <3>2
  <2>5. PICK k \in (Len(s2) - 2)..Len(s2) : Filled(s2[k])
    BY <1>13, <2>1, <2>4, OneOfThree
  <2>6. i \in 1..Len(s2) /\ k \in 1..Len(s2) /\ k # i
    BY <2>4
  <2>7. s2[i] \in Folder /\ s2[i] \in Shelf(s2)
    BY <1>3, <2>6 DEF Shelf
  <2>8. PICK d \in Folder : d = [s2[i] EXCEPT !.db = None]
    BY <2>7 DEF Folder
  <2> DEFINE after == broken \cup {s2[i].name}
  <2>9. d \in Folder /\ d.name = s2[i].name
    BY <2>7, <2>8 DEF Folder
  <2>10. s2' = Moved(s2, i, d)
    BY <2>3, <2>8 DEF Moved
  <2>11. s2' \in Seq(Folder) /\ OneOfAName(s2') /\ Shelf(s2') = (Shelf(s2) \ {s2[i]}) \cup {d}
    <3>1. s2 \in Seq(Folder) /\ OneOfAName(s2) /\ i \in 1..Len(s2) /\ d.name = s2[i].name /\ d \in Folder
      BY <1>1, <1>3, <2>6, <2>9
    <3> QED
      BY <3>1, <2>10, TouchedShelf
  <2>12. s2[k] \in Shelf(s2) /\ s2[k] # s2[i]
    BY <1>1, <2>6 DEF Shelf, OneOfAName
  <2>13. \E e \in Shelf(s2') : Filled(e)
    BY <2>5, <2>10, <2>11, <2>12
  <2>14. s2[i].name \in after /\ broken \subseteq after /\ after \subseteq 1..s7.begun /\ IsFiniteSet(after) /\ Cardinality(after) <= s7'.crashes
    BY <1>1, <1>9, <2>7
  <2> HIDE DEF after
  <2>15. \A e \in Shelf(s2') : e \in Shelf(s2) \/ e.name \in after
    BY <2>9, <2>10, <2>11, <2>14
  <2>16. \A e \in Shelf(s2') : e \in Shelf(s2) /\ s4[w] = e.name /\ Hale(s3[w], e) => e.name \in after \/ Filled(e)
    BY <1>13 DEF Hale
  <2>17. s2' \in Seq(Folder) /\ OneOfAName(s2')
    BY <2>10, <2>11
  <2>18. \A c \in crons : c # w /\ s3[c] \in InStages => s4[c] \notin after /\ \E e \in Shelf(s2') : e.name = s4[c]
    BY <2>2
  <2>19. ~s7.whole => \A x \in all : x # w /\ s3[x] \in InStages => s4[x] \notin after
    BY <2>1
  <2>20. Leaves(crons, all, w, broken, after)
    BY <1>2, <1>5, <1>6, <2>13, <2>14, <2>15, <2>16, <2>17, <2>18, <2>19 DEF Leaves
  <2> QED
    BY <2>20, LeavingIsSafe
<1>14. s3[w] \in InStages \cup {"jitter"} /\ (s2' = s2 \/ s3[w] \in {"snapshot", "clean"})
  BY <1>1, <1>2 DEF BackupRows, Backups!Crash
<1> QED
  BY <1>11, <1>12, <1>13, <1>14 DEF InStages

------------------------------------------------------------------------------
(* Restoring changes the live files, and a restore can die. *)

LEMMA RestoringIsSafe ==
  ASSUME NEW crons, NEW manual, NEW broken, BackupsInv(crons, manual, broken), Backups(crons, manual)!Restoring
  PROVE  BackupsInv(crons, manual, broken)'
<1> DEFINE all == crons \cup manual
           more == s7.crashes + 1
<1>1. /\ BackupRows(all) /\ WritersApart(crons, all, broken) /\ Kept(all, broken) /\ OneOfAName(s2)
      /\ (s7.whole => \E e \in Shelf(s2) : Filled(e)) /\ \A e \in Shelf(s2) : e.name \in 1..s7.begun
  BY DEF BackupsInv
<1>2. UNCHANGED <<s2, s3, s4, s5>>
  BY DEF Backups!Restoring, Backups!Restore, Backups!RestoreEntry, Backups!RestoreDies
<1>3. s1' \in [{"db", "wiki"} -> {Whole, Torn}]
  <2>1. CASE s1' = s1
    BY <1>1, <2>1 DEF BackupRows
  <2>2. CASE \E e \in s6.todo : \E i \in 1..Len(s2) : s2[i][e] # None /\ s1' = [s1 EXCEPT ![e] = s2[i][e]]
    <3>1. PICK e \in s6.todo, i \in 1..Len(s2) : s2[i][e] # None /\ s1' = [s1 EXCEPT ![e] = s2[i][e]]
      BY <2>2
    <3>2. s2[i] \in Folder
      BY <1>1 DEF BackupRows
    <3>3. e \in {"db", "wiki"} => s2[i][e] \in {Whole, Torn}
      BY <3>1, <3>2 DEF Folder
    <3> QED
      BY <1>1, <3>1, <3>3 DEF BackupRows
  <2> QED
    BY <2>1, <2>2 DEF Backups!Restoring, Backups!Restore, Backups!RestoreEntry, Backups!RestoreDies, Backups!Places
<1>4. /\ s7.crashes \in 0..1 /\ s7 = [begun |-> s7.begun, crashes |-> s7.crashes, whole |-> s7.whole] /\ s2 \in Seq(Folder)
      /\ s7.begun \in Nat /\ s7.whole \in BOOLEAN
  BY <1>1 DEF BackupRows
<1>5. s7' = s7 \/ (s7' = [s7 EXCEPT !.crashes = more] /\ s7.crashes < 1)
  BY DEF Backups!Restoring, Backups!Restore, Backups!RestoreEntry, Backups!RestoreDies
<1>6. s7' = s7 \/ (s7' = [begun |-> s7.begun, crashes |-> more, whole |-> s7.whole] /\ s7.crashes < 1)
  <2> HIDE DEF more
  <2> QED
    BY <1>4, <1>5, CountTurns
<1>7. /\ s7'.begun = s7.begun /\ s7'.crashes \in 0..1 /\ s7'.crashes >= s7.crashes /\ s7'.whole = s7.whole
      /\ s7' = [begun |-> s7'.begun, crashes |-> s7'.crashes, whole |-> s7'.whole]
  <2>1. CASE s7' = s7
    BY <1>4, <2>1
  <2>2. CASE s7' = [begun |-> s7.begun, crashes |-> more, whole |-> s7.whole] /\ s7.crashes < 1
    BY <1>4, <2>2
  <2> QED
    BY <1>6, <2>1, <2>2
<1>8. BackupRows(all)'
  BY <1>1, <1>2, <1>3, <1>4, <1>7 DEF BackupRows, InStages, Folder
<1>9. WritersApart(crons, all, broken)' /\ Kept(all, broken)'
  BY <1>1, <1>2, <1>7 DEF WritersApart, Kept, InStages, Hale, Shelf, Filled
<1>10. /\ s7'.begun >= s7.begun /\ s7'.crashes >= s7.crashes /\ OneOfAName(s2')
       /\ (\A d \in Shelf(s2') : d.name \in 1..s7'.begun) /\ (s7'.whole => \E d \in Shelf(s2') : Filled(d))
  BY <1>1, <1>2, <1>4, <1>7
<1> QED
  BY <1>8, <1>9, <1>10, SameBroken

LEMMA BackupsNext ==
  ASSUME NEW crons, NEW manual, Cast(crons, manual)
  PROVE  (\E broken : BackupsInv(crons, manual, broken)) /\ [Backups(crons, manual)!Next]_(Backups(crons, manual)!vars)
         => \E broken : BackupsInv(crons, manual, broken)'
<1> SUFFICES ASSUME NEW broken, BackupsInv(crons, manual, broken), [Backups(crons, manual)!Next]_(Backups(crons, manual)!vars)
             PROVE  \E broken2 : BackupsInv(crons, manual, broken2)'
  OBVIOUS
<1>1. ASSUME NEW w \in crons \cup manual, Backups(crons, manual)!Write(w) PROVE \E broken2 : BackupsInv(crons, manual, broken2)'
  BY <1>1, WaitIsSafe, BeginIsSafe, WriteIsSafe, LossIsSafe, CleanIsSafe, WriterCrashIsSafe DEF Backups!Write
<1>2. CASE UNCHANGED Backups(crons, manual)!vars
  <2>1. UNCHANGED <<s1, s2, s3, s4, s5, s6, s7>>
    BY <1>2 DEF Backups!vars
  <2>2. s7.begun \in Nat /\ s7.crashes \in Nat
    BY DEF BackupsInv, BackupRows
  <2>3. /\ BackupRows(crons \cup manual) /\ WritersApart(crons, crons \cup manual, broken) /\ Kept(crons \cup manual, broken)
        /\ OneOfAName(s2) /\ (\A d \in Shelf(s2) : d.name \in 1..s7.begun) /\ (s7.whole => \E d \in Shelf(s2) : Filled(d))
    BY DEF BackupsInv
  <2>4. BackupRows(crons \cup manual)'
    BY <2>1, <2>3 DEF BackupRows, InStages, Folder
  <2>5. WritersApart(crons, crons \cup manual, broken)' /\ Kept(crons \cup manual, broken)'
    BY <2>1, <2>3 DEF WritersApart, Kept, InStages, Hale, Shelf, Filled
  <2>6. BackupsInv(crons, manual, broken)'
    BY <2>1, <2>2, <2>3, <2>4, <2>5, SameBroken
  <2> QED
    BY <2>6
<1>3. CASE Backups(crons, manual)!Restoring
  BY <1>3, RestoringIsSafe
<1> QED
  BY <1>1, <1>2, <1>3 DEF Backups!Next, Backups!Writers

------------------------------------------------------------------------------
(* Sessions *)

\* A row of the log that was not stored wherever it was due, by the strict rule.
Lacks(i) == i \in DOMAIN s3 /\ s3[i].saved # Sessions!Due(s3[i].importance, FALSE)

\* A score in hand is that of the count the closing will store, and a gap that is
\* marked, or about to be, is of a message that lacks a tier.
SessionsInv ==
    /\ s1 = [state |-> s1.state, count |-> s1.count, score |-> s1.score]
    /\ s1.score # None => s1.score.count = s1.count
    /\ s2 = [c \in Callers |-> s2[c]]
    /\ \A c \in Callers :
          /\ s2[c] = [pc |-> s2[c].pc, given |-> s2[c].given, read |-> s2[c].read, score |-> s2[c].score]
          /\ s2[c].score # None => s2[c].score.count = Sessions!Stored(c)
    /\ s3 \in Seq([importance : {0} \cup Sessions!Tiers, saved : SUBSET Sessions!Tiers]) /\ Len(s3) <= MaxDispatched
    /\ s5 = [pc |-> s5.pc, gaps |-> s5.gaps] /\ \A i \in s5.gaps : Lacks(i)
    /\ s6 = [i \in 1..MaxDispatched |-> s6[i]] /\ \A i \in 1..MaxDispatched : s6[i] > 0 => Lacks(i)

LEMMA SessionsHold == SessionsInv => Sessions!ScoreDescribesItsRow /\ Sessions!NoPhantomGap
<1> SUFFICES ASSUME SessionsInv PROVE Sessions!ScoreDescribesItsRow /\ Sessions!NoPhantomGap
  OBVIOUS
<1>1. Len(s3) \in Nat /\ DOMAIN s3 = 1..Len(s3) /\ Len(s3) <= MaxDispatched
  BY DEF SessionsInv
<1>2. DOMAIN s3 \subseteq 1..MaxDispatched
  BY <1>1, SessionsAssumption
<1> QED
  BY <1>2 DEF SessionsInv, Lacks, Sessions!ScoreDescribesItsRow, Sessions!NoPhantomGap

LEMMA SessionsInit == Sessions!Init => SessionsInv
  BY SessionsAssumption DEF SessionsInv, Lacks, Sessions!Init, Sessions!AtRest, Sessions!NoDiff

\* What a closing's row becomes when one field changes, and then another.
LEMMA ClosingTurns ==
  ASSUME NEW row, row = [pc |-> row.pc, given |-> row.given, read |-> row.read, score |-> row.score], NEW pc, NEW score
  PROVE  [[row EXCEPT !.pc = pc] EXCEPT !.score = score] = [pc |-> pc, given |-> row.given, read |-> row.read, score |-> score]
<1>1. [row EXCEPT !.pc = pc] = [pc |-> pc, given |-> row.given, read |-> row.read, score |-> row.score]
  OBVIOUS
<1>2. [[pc |-> pc, given |-> row.given, read |-> row.read, score |-> row.score] EXCEPT !.score = score]
         = [pc |-> pc, given |-> row.given, read |-> row.read, score |-> score]
  OBVIOUS
<1> QED
  BY <1>1, <1>2

LEMMA ClosingIsSafe ==
  ASSUME SessionsInv, NEW c \in Callers,
         (\E given \in Counts : Sessions!ReadSession(c, given)) \/ Sessions!ComputeQuality(c) \/ Sessions!WriteSession(c)
  PROVE  SessionsInv'
<1> USE DEF SessionsInv
<1>1. CASE \E given \in Counts : Sessions!ReadSession(c, given)
  <2> DEFINE rest == [pc |-> "idle", given |-> 0, read |-> 0, score |-> None]
  <2>0. PICK given \in Counts : s2' = [s2 EXCEPT ![c] = [rest EXCEPT !.pc = "read", !.given = given, !.read = s1.count]]
    BY <1>1 DEF Sessions!ReadSession, Sessions!AtRest
  <2>1. s2' = [s2 EXCEPT ![c] = [pc |-> "read", given |-> given, read |-> s1.count, score |-> None]]
    <3>1. [rest EXCEPT !.pc = "read", !.given = given, !.read = s1.count]
            = [[[rest EXCEPT !.pc = "read"] EXCEPT !.given = given] EXCEPT !.read = s1.count]
      OBVIOUS
    <3>2. [rest EXCEPT !.pc = "read"] = [pc |-> "read", given |-> 0, read |-> 0, score |-> None]
      OBVIOUS
    <3>3. [[pc |-> "read", given |-> 0, read |-> 0, score |-> None] EXCEPT !.given = given]
            = [pc |-> "read", given |-> given, read |-> 0, score |-> None]
      OBVIOUS
    <3>4. [[pc |-> "read", given |-> given, read |-> 0, score |-> None] EXCEPT !.read = s1.count]
            = [pc |-> "read", given |-> given, read |-> s1.count, score |-> None]
      OBVIOUS
    <3> HIDE DEF rest
    <3> QED
      BY <2>0, <3>1, <3>2, <3>3, <3>4
  <2>2. UNCHANGED <<s1, s3, s4, s5, s6>>
    BY <1>1 DEF Sessions!ReadSession
  <2> QED
    BY <2>1, <2>2 DEF Lacks, Sessions!Stored
<1>2. CASE Sessions!ComputeQuality(c)
  <2>1. PICK score \in {Sessions!Quality(c), None} : s2' = [s2 EXCEPT ![c] = [s2[c] EXCEPT !.pc = "scored", !.score = score]]
    BY <1>2 DEF Sessions!ComputeQuality
  <2>2. UNCHANGED <<s1, s3, s4, s5, s6>>
    BY <1>2 DEF Sessions!ComputeQuality
  <2>3. s2'[c] = [pc |-> "scored", given |-> s2[c].given, read |-> s2[c].read, score |-> score]
    <3>1. s2'[c] = [s2[c] EXCEPT !.pc = "scored", !.score = score]
      BY <2>1
    <3>2. s2'[c] = [[s2[c] EXCEPT !.pc = "scored"] EXCEPT !.score = score]
      BY <3>1
    <3> QED
      BY <3>2, ClosingTurns
  <2>4. \A d \in Callers : d # c => s2'[d] = s2[d]
    BY <2>1
  <2>5. score # None => score.count = Sessions!Stored(c)'
    BY <2>1, <2>3 DEF Sessions!Quality, Sessions!Stored
  <2> QED
    BY <2>1, <2>2, <2>3, <2>4, <2>5 DEF Lacks, Sessions!Stored
<1>3. CASE Sessions!WriteSession(c)
  <2>1. s1' = [state |-> "closed", count |-> Sessions!Stored(c), score |-> s2[c].score] /\ UNCHANGED <<s3, s4, s5, s6>>
    BY <1>3 DEF Sessions!WriteSession
  <2>2. s2' = [s2 EXCEPT ![c] = [pc |-> "done", given |-> 0, read |-> 0, score |-> None]]
    <3>1. [Sessions!AtRest EXCEPT !.pc = "done"] = [pc |-> "done", given |-> 0, read |-> 0, score |-> None]
      BY DEF Sessions!AtRest
    <3> QED
      BY <1>3, <3>1 DEF Sessions!WriteSession
  <2> QED
    BY <2>1, <2>2 DEF Lacks, Sessions!Stored
<1> QED
  BY <1>1, <1>2, <1>3

LEMMA DispatchIsSafe ==
  ASSUME SessionsInv, NEW importance \in {0} \cup Sessions!Tiers, NEW saved \in SUBSET Sessions!Tiers,
         Sessions!Dispatch(importance, saved)
  PROVE  SessionsInv'
<1> DEFINE row == [importance |-> importance, saved |-> saved]
           Rows == [importance : {0} \cup Sessions!Tiers, saved : SUBSET Sessions!Tiers]
<1>1. s3' = Append(s3, row) /\ Len(s3) < MaxDispatched /\ UNCHANGED <<s1, s2, s4, s5, s6>>
  BY DEF Sessions!Dispatch
<1>2. row \in Rows /\ s3 \in Seq(Rows)
  BY DEF SessionsInv
<1> HIDE DEF row, Rows
<1>3. /\ s3' \in Seq(Rows) /\ Len(s3') = Len(s3) + 1 /\ Len(s3) \in Nat
      /\ \A i \in DOMAIN s3 : i \in DOMAIN s3' /\ s3'[i] = s3[i]
  BY <1>1, <1>2
<1>4. \A i : Lacks(i) => Lacks(i)'
  BY <1>3 DEF Lacks
<1>5. Len(s3') <= MaxDispatched
  BY <1>1, <1>3, SessionsAssumption
<1> QED
  BY <1>1, <1>3, <1>4, <1>5 DEF SessionsInv, Sessions!Stored, Rows

LEMMA DiffIsSafe ==
  ASSUME SessionsInv,
         \/ \E since, until \in 0..Len(s3) : Sessions!ComputeGaps(since, until)
         \/ Sessions!SaveGap \/ Sessions!DiffEnds \/ Sessions!DiffDies
  PROVE  SessionsInv'
<1> USE DEF SessionsInv
<1>0. UNCHANGED <<s1, s2, s3, s4>>
  BY DEF Sessions!ComputeGaps, Sessions!SaveGap, Sessions!DiffEnds, Sessions!DiffDies
<1>1. CASE \E since, until \in 0..Len(s3) : Sessions!ComputeGaps(since, until)
  <2>1. PICK since \in 0..Len(s3), until \in 0..Len(s3) :
            s5' = [pc |-> "saving", gaps |-> {i \in since + 1..until : Sessions!Missing(s3[i]) # {}}] /\ UNCHANGED s6
    BY <1>1 DEF Sessions!ComputeGaps
  <2>2. \A i \in since + 1..until : Sessions!Missing(s3[i]) # {} => Lacks(i)
    <3>1. \A i \in since + 1..until : i \in DOMAIN s3
      BY SessionsAssumption
    <3>2. \A row : Sessions!Missing(row) # {} => row.saved # Sessions!Due(row.importance, FALSE)
      BY DEF Sessions!Missing, Sessions!Due
    <3> QED
      BY <3>1, <3>2 DEF Lacks
  <2> QED
    BY <1>0, <2>1, <2>2 DEF Lacks, Sessions!Stored
<1>2. CASE Sessions!SaveGap
  <2>1. PICK i \in s5.gaps : s6' = [s6 EXCEPT ![i] = @ + 1] /\ s5' = [s5 EXCEPT !.gaps = @ \ {i}]
    BY <1>2 DEF Sessions!SaveGap
  <2> QED
    BY <1>0, <2>1 DEF Lacks, Sessions!Stored
<1>3. CASE Sessions!DiffEnds \/ Sessions!DiffDies
  <2>1. s5' = [pc |-> "idle", gaps |-> {}] /\ UNCHANGED s6
    BY <1>3 DEF Sessions!DiffEnds, Sessions!DiffDies, Sessions!NoDiff
  <2> QED
    BY <1>0, <2>1 DEF Lacks, Sessions!Stored
<1> QED
  BY <1>1, <1>2, <1>3

LEMMA SessionsNext == SessionsInv /\ [Sessions!Next]_(Sessions!vars) => SessionsInv'
<1> SUFFICES ASSUME SessionsInv, [Sessions!Next]_(Sessions!vars) PROVE SessionsInv'
  OBVIOUS
<1>1. CASE Sessions!CreateSession
  <2>1. s1' = [s1 EXCEPT !.state = "open"] /\ UNCHANGED <<s2, s3, s4, s5, s6>>
    BY <1>1 DEF Sessions!CreateSession
  <2> QED
    BY <2>1 DEF SessionsInv, Lacks, Sessions!Stored
<1>2. CASE Sessions!ChangeRule \/ UNCHANGED Sessions!vars
  BY <1>2 DEF SessionsInv, Lacks, Sessions!Stored, Sessions!ChangeRule, Sessions!vars
<1> QED
  BY <1>1, <1>2, ClosingIsSafe, DispatchIsSafe, DiffIsSafe DEF Sessions!Next

------------------------------------------------------------------------------
(* Secrets *)

SecretRow == [pc : {"idle", "locked", "loaded", "legacy"}, key : Nat, seeks : BOOLEAN, op : Secrets!Ops \cup {None},
              arg : Keys \cup {None}, data : Secrets!Keyring, token : Callers \cup {None}]
Sealing == [key : Nat, keys : Secrets!Keyring]
HasLock(x) == s3[x].pc \in {"locked", "loaded"}

\* One process holds the lock, and what it has loaded, and what the store holds
\* once there is one, are the keys the callers were told.
SecretsInv ==
    /\ s1 \in Seq(Nat \ {0}) /\ s2 \in Nat /\ s3 \in [Callers -> SecretRow] /\ s4 \in Sealing \cup {None}
    /\ s6 \in Secrets!Keyring
    /\ \A x \in Callers : HasLock(x) => s3[x].op \in Secrets!Ops /\ s3[x].arg \in Keys
    /\ ~s7 =>
          /\ IF s4 = None THEN s6 = Secrets!NoKeys ELSE s4.key # 0 /\ s4.keys = s6
          /\ \A x \in Callers : s3[x].pc # "legacy" /\ (s3[x].pc = "loaded" => s3[x].data = s6)
          /\ \A x, y \in Callers : HasLock(x) /\ HasLock(y) => x = y

LEMMA SecretsHold == SecretsInv => Secrets!AnswersAreStored
  BY DEF SecretsInv, Secrets!AnswersAreStored, Secrets!Held, Secrets!NoKeys

LEMMA FreshIsRow == Secrets!Fresh \in SecretRow /\ Secrets!Fresh.pc = "idle" /\ Secrets!NoKeys \in Secrets!Keyring
  BY DEF Secrets!Fresh, SecretRow, Secrets!Keyring, Secrets!NoKeys, Secrets!Marks

LEMMA SecretsInit == Secrets!Init => SecretsInv
<1> SUFFICES ASSUME Secrets!Init PROVE SecretsInv
  OBVIOUS
<1>1. s1 = <<>> /\ s2 = 0 /\ s3 = [x \in Callers |-> Secrets!Fresh] /\ s7 \in BOOLEAN
  BY DEF Secrets!Init
<1>2. PICK k \in Keys : /\ s6 = IF s7 THEN [Secrets!NoKeys EXCEPT ![k] = "on"] ELSE Secrets!NoKeys
                        /\ s4 = IF s7 THEN [key |-> 0, keys |-> s6] ELSE None
  BY DEF Secrets!Init
<1>3. s6 \in Secrets!Keyring /\ s4 \in Sealing \cup {None}
  BY <1>2, FreshIsRow DEF Secrets!Keyring, Secrets!Marks, Sealing
<1>4. s3 \in [Callers -> SecretRow] /\ \A x \in Callers : s3[x].pc = "idle"
  BY <1>1, FreshIsRow
<1> QED
  BY <1>1, <1>2, <1>3, <1>4 DEF SecretsInv, HasLock

\* A process takes another row; what it did not lock stays unlocked.
LEMMA TurnIsSafe ==
  ASSUME SecretsInv, NEW x \in Callers, NEW row \in SecretRow, s3' = [s3 EXCEPT ![x] = row],
         s1' \in Seq(Nat \ {0}), s2' \in Nat, UNCHANGED <<s4, s6, s7>>,
         \/ row.pc = s3[x].pc /\ row.op = s3[x].op /\ row.arg = s3[x].arg /\ row.data = s3[x].data
         \/ row.pc = "idle"
  PROVE  SecretsInv'
  BY DEF SecretsInv, HasLock

LEMMA MasterKeyIsSafe == ASSUME SecretsInv, NEW x \in Callers, Secrets!MasterKey(x) PROVE SecretsInv'
<1>1. s3[x] \in SecretRow /\ s1 \in Seq(Nat \ {0}) /\ s2 \in Nat
  BY DEF SecretsInv
<1>2. CASE Secrets!TakeKey(x)
  <2>1. s3' = [s3 EXCEPT ![x] = [s3[x] EXCEPT !.key = Head(s1)]] /\ s1 # <<>> /\ UNCHANGED <<s1, s2, s4, s6, s7>>
    BY <1>2 DEF Secrets!TakeKey
  <2>2. Head(s1) \in Nat
    BY <1>1, <2>1
  <2> QED
    BY <1>1, <2>1, <2>2, TurnIsSafe DEF SecretRow
<1>3. CASE Secrets!FindNoKey(x)
  <2>1. s3' = [s3 EXCEPT ![x] = [s3[x] EXCEPT !.seeks = TRUE]] /\ UNCHANGED <<s1, s2, s4, s6, s7>>
    BY <1>3 DEF Secrets!FindNoKey
  <2> QED
    BY <1>1, <2>1, TurnIsSafe DEF SecretRow
<1>4. CASE Secrets!MakeKey(x)
  <2> DEFINE row == [s3[x] EXCEPT !.seeks = FALSE, !.key = s2 + 1]
  <2>1. s3' = [s3 EXCEPT ![x] = row] /\ UNCHANGED <<s4, s6, s7>>
    BY <1>4 DEF Secrets!MakeKey
  <2>2. s2' \in Nat /\ s1' \in Seq(Nat \ {0})
    <3>1. s2' = s2 + 1 /\ (s1' = Append(s1, s2') \/ s1' = s1)
      BY <1>4 DEF Secrets!MakeKey
    <3>2. s2' \in Nat \ {0}
      BY <1>1, <3>1
    <3> QED
      BY <1>1, <3>1, <3>2
  <2>3. row \in SecretRow /\ row.pc = s3[x].pc /\ row.op = s3[x].op /\ row.arg = s3[x].arg /\ row.data = s3[x].data
    <3>1. s2 + 1 \in Nat
      BY <1>1
    <3> QED
      BY <1>1, <3>1 DEF SecretRow
  <2> HIDE DEF row
  <2> QED
    BY <2>1, <2>2, <2>3, TurnIsSafe
<1> QED
  BY <1>2, <1>3, <1>4 DEF Secrets!MasterKey

LEMMA RestedIsRow ==
  ASSUME SecretsInv, NEW x \in Callers PROVE Secrets!Rested(x) \in SecretRow /\ Secrets!Rested(x).pc = "idle"
  BY FreshIsRow DEF SecretsInv, SecretRow, Secrets!Rested

LEMMA MutatedIsKeyring ==
  ASSUME NEW data \in Secrets!Keyring, NEW op \in Secrets!Ops, NEW k \in Keys PROVE Secrets!Mutated(data, op, k) \in Secrets!Keyring
  BY DEF Secrets!Mutated, Secrets!Ops, Secrets!Keyring, Secrets!Marks

LEMMA LockIsSafe ==
  ASSUME SecretsInv, NEW x \in Callers, NEW op \in Secrets!Ops, NEW k \in Keys, Secrets!Lock(x, op, k) PROVE SecretsInv'
<1> DEFINE row == [s3[x] EXCEPT !.pc = "locked", !.op = op, !.arg = k]
<1>1. s3' = [s3 EXCEPT ![x] = row] /\ UNCHANGED <<s1, s2, s4, s6, s7>> /\ \A y \in Callers : ~HasLock(y)
  BY DEF Secrets!Lock, Secrets!LockFree, HasLock
<1>2. row \in SecretRow /\ row.pc = "locked" /\ row.op = op /\ row.arg = k
  BY DEF SecretsInv, SecretRow
<1> HIDE DEF row
<1> QED
  BY <1>1, <1>2 DEF SecretsInv, HasLock

LEMMA LoadIsSafe == ASSUME SecretsInv, NEW x \in Callers, Secrets!LoadKeys(x) PROVE SecretsInv'
<1> DEFINE row == [s3[x] EXCEPT !.pc = "loaded", !.data = Secrets!Decoded(x)]
<1>1. s3' = [s3 EXCEPT ![x] = row] /\ UNCHANGED <<s1, s2, s6, s7>> /\ HasLock(x) /\ s3[x].pc = "locked"
  BY DEF Secrets!LoadKeys, HasLock, Secrets!At
<1>2. s3[x] \in SecretRow /\ s3[x].op \in Secrets!Ops /\ s3[x].arg \in Keys /\ s3[x].key \in Nat
  BY <1>1 DEF SecretsInv, SecretRow
<1>3. s4 # None => s4 \in Sealing /\ s4.key \in Nat /\ s4.keys \in Secrets!Keyring
  BY DEF SecretsInv, Sealing
<1>4. Secrets!Decoded(x) \in Secrets!Keyring /\ (~s7 => Secrets!Decoded(x) = s6)
  <2>1. CASE s4 = None
    BY <1>2, <2>1, FreshIsRow, SecretsAssumption DEF Secrets!Decoded, Secrets!SealedWith, SecretsInv
  <2>2. CASE s4 # None
    <3>1. Secrets!SealedWith = s4.key /\ s4.key # None
      BY <1>3, <2>2, SecretsAssumption DEF Secrets!SealedWith
    <3>2. s4.key \in {0, s3[x].key}
      BY <3>1 DEF Secrets!LoadKeys, Secrets!Readable
    <3> QED
      BY <1>3, <2>2, <3>1, <3>2 DEF Secrets!Decoded, SecretsInv
  <2> QED
    BY <2>1, <2>2
<1>5. row \in SecretRow /\ row.pc = "loaded" /\ row.op = s3[x].op /\ row.arg = s3[x].arg /\ row.data = Secrets!Decoded(x)
  BY <1>2, <1>4 DEF SecretRow
<1>6. s4' \in Sealing \cup {None} /\ (~s7 => s4' = s4)
  <2>1. CASE Secrets!SealedWith = 0
    <3>1. s4 # None /\ s4.key = 0 /\ s4' = [s4 EXCEPT !.key = s3[x].key]
      BY <2>1, SecretsAssumption DEF Secrets!SealedWith, Secrets!LoadKeys
    <3>2. s7
      BY <3>1 DEF SecretsInv
    <3> QED
      BY <1>2, <1>3, <3>1, <3>2 DEF Sealing
  <2>2. CASE Secrets!SealedWith # 0
    BY <2>2 DEF Secrets!LoadKeys, SecretsInv
  <2> QED
    BY <2>1, <2>2
<1> HIDE DEF row
<1> QED
  BY <1>1, <1>2, <1>4, <1>5, <1>6 DEF SecretsInv, HasLock

LEMMA SaveIsStored == ASSUME SecretsInv, NEW x \in Callers, Secrets!SaveKeys(x) PROVE SecretsInv'
<1> DEFINE file == [key |-> s3[x].key, keys |-> Secrets!Mutated(s3[x].data, s3[x].op, s3[x].arg)]
<1>1. /\ s3' = [s3 EXCEPT ![x] = Secrets!Rested(x)] /\ s4' = file /\ UNCHANGED <<s1, s2, s7>>
      /\ s6' = Secrets!Mutated(s6, s3[x].op, s3[x].arg) /\ HasLock(x) /\ s3[x].pc = "loaded" /\ s3[x].key # 0
  BY DEF Secrets!SaveKeys, HasLock, Secrets!At, Secrets!Sealed
<1>2. s3[x] \in SecretRow /\ s3[x].op \in Secrets!Ops /\ s3[x].arg \in Keys /\ s3[x].key \in Nat /\ s3[x].data \in Secrets!Keyring
      /\ s6 \in Secrets!Keyring
  BY <1>1 DEF SecretsInv, SecretRow
<1>3. s4' \in Sealing /\ s6' \in Secrets!Keyring
  BY <1>1, <1>2, MutatedIsKeyring DEF Sealing
<1>4. s4' # None
  BY <1>3, SecretsAssumption DEF Sealing, Secrets!Keyring, Secrets!Marks
<1>5. ~s7 => s4'.keys = s6' /\ s4'.key # 0
  BY <1>1 DEF SecretsInv
<1>6. s3' \in [Callers -> SecretRow] /\ s3'[x].pc = "idle" /\ \A y \in Callers : y # x => s3'[y] = s3[y]
  BY <1>1, RestedIsRow DEF SecretsInv
<1> QED
  BY <1>1, <1>3, <1>4, <1>5, <1>6 DEF SecretsInv, HasLock

LEMMA ListingIsSafe ==
  ASSUME SecretsInv, NEW x \in Callers, Secrets!ReadJSON(x) \/ Secrets!RotateJSON(x) PROVE SecretsInv'
<1>1. CASE Secrets!ReadJSON(x)
  <2> DEFINE row == [s3[x] EXCEPT !.pc = "legacy", !.data = s4.keys]
  <2>1. s3' = [s3 EXCEPT ![x] = row] /\ UNCHANGED <<s1, s2, s4, s6, s7>> /\ Secrets!SealedWith = 0
    BY <1>1 DEF Secrets!ReadJSON
  <2>2. s4 # None /\ s4.key = 0 /\ s4 \in Sealing
    BY <2>1, SecretsAssumption DEF Secrets!SealedWith, SecretsInv
  <2>3. s7
    BY <2>2 DEF SecretsInv
  <2>4. row \in SecretRow /\ row.pc = "legacy"
    BY <2>2 DEF SecretsInv, SecretRow, Sealing
  <2> HIDE DEF row
  <2> QED
    BY <2>1, <2>3, <2>4 DEF SecretsInv, HasLock
<1>2. CASE Secrets!RotateJSON(x)
  <2>1. s3' = [s3 EXCEPT ![x] = Secrets!Rested(x)] /\ UNCHANGED <<s1, s2, s6, s7>> /\ s3[x].pc = "legacy"
        /\ s4' = [key |-> s3[x].key, keys |-> s3[x].data]
    BY <1>2 DEF Secrets!RotateJSON, Secrets!At
  <2>2. s7 /\ s3[x] \in SecretRow
    BY <2>1 DEF SecretsInv
  <2>3. s4' \in Sealing
    BY <2>1, <2>2 DEF Sealing, SecretRow
  <2> QED
    BY <2>1, <2>2, <2>3, RestedIsRow DEF SecretsInv, HasLock
<1> QED
  BY <1>1, <1>2

LEMMA TokenIsSafe ==
  ASSUME SecretsInv, NEW x \in Callers, Secrets!LoadToken(x) \/ Secrets!Rotate(x) PROVE SecretsInv'
<1>1. PICK token \in Callers : s3' = [s3 EXCEPT ![x] = [s3[x] EXCEPT !.token = token]] /\ UNCHANGED <<s1, s2, s4, s6, s7>>
  BY DEF Secrets!LoadToken, Secrets!Rotate
<1>2. s3[x] \in SecretRow /\ s1 \in Seq(Nat \ {0}) /\ s2 \in Nat
  BY DEF SecretsInv
<1> QED
  BY <1>1, <1>2, TurnIsSafe DEF SecretRow

LEMMA SecretsNext == SecretsInv /\ [Secrets!Next]_(Secrets!vars) => SecretsInv'
<1> SUFFICES ASSUME SecretsInv, [Secrets!Next]_(Secrets!vars) PROVE SecretsInv'
  OBVIOUS
<1>1. CASE UNCHANGED Secrets!vars
  BY <1>1 DEF SecretsInv, HasLock, Secrets!vars
<1>2. ASSUME NEW x \in Callers, Secrets!Refuse(x) \/ Secrets!Restart(x) PROVE SecretsInv'
  <2>1. PICK row \in {Secrets!Rested(x), Secrets!Fresh} : s3' = [s3 EXCEPT ![x] = row] /\ UNCHANGED <<s1, s2, s4, s6, s7>>
    BY <1>2 DEF Secrets!Refuse, Secrets!Restart
  <2>2. row \in SecretRow /\ row.pc = "idle" /\ s1 \in Seq(Nat \ {0}) /\ s2 \in Nat
    BY <1>2, FreshIsRow, RestedIsRow DEF SecretsInv
  <2> QED
    BY <2>1, <2>2, TurnIsSafe
<1> QED
  BY <1>1, <1>2, MasterKeyIsSafe, LockIsSafe, LoadIsSafe, SaveIsStored, ListingIsSafe, TokenIsSafe
     DEF Secrets!Next, Secrets!Update

------------------------------------------------------------------------------
(* Imports *)

ImportRow == [pc : {"idle", "reading", "batch"}, dry : BOOLEAN, from : Nat, stop : Nat, cursor : Nat, batch : Seq(Nat),
              failures : Nat, episodes : Nat, verdict : {"ok", "review", "dry", None}]
OnRecord(x) == s2[x] # None

\* A batch is what follows the cursor, as far as the source went when it was
\* fetched, and what the cursor has passed without a failure is on record.
ImportsInv ==
    /\ s1 \in Seq(Contents \cup {v}) /\ s2 \in [Contents -> {"received", "parked", "gated_out", None}] /\ s3 \in Nat
    /\ s4 \in ImportRow
    /\ s4.pc # "idle" => s4.from >= 1 /\ s4.stop <= Len(s1)
    /\ s4.pc = "batch" => s4.cursor + Len(s4.batch) <= Len(s1) /\ \A i \in 1..Len(s4.batch) : s4.batch[i] = s4.cursor + i
    /\ s4.pc # "idle" /\ ~s4.dry /\ s4.failures = 0 =>
           \A i \in s4.from..s4.cursor : i \in DOMAIN s1 /\ (s1[i] # v => OnRecord(s1[i]))
    /\ s5 \subseteq Contents /\ \A x \in s5 : OnRecord(x)

LEMMA ImportsHold == ImportsInv => Imports!OKMeansStored
  BY DEF ImportsInv, OnRecord, Imports!OKMeansStored

LEMMA RestingIsRow == Imports!Resting \in ImportRow /\ Imports!Resting.pc = "idle"
<1>1. <<>> \in Seq(Nat)
  OBVIOUS
<1> QED
  BY <1>1 DEF Imports!Resting, ImportRow

LEMMA ImportsInit == Imports!Init => ImportsInv
<1> SUFFICES ASSUME Imports!Init PROVE ImportsInv
  OBVIOUS
<1>1. s1 = <<>> /\ s2 = [x \in Contents |-> None] /\ s3 = 0 /\ s4 = Imports!Resting /\ s5 = {}
  BY DEF Imports!Init
<1> QED
  BY <1>1, RestingIsRow DEF ImportsInv

\* The source grows at its end, and what has a row keeps one.
LEMMA MeanwhileIsSafe ==
  ASSUME ImportsInv,
         \/ \E m \in Imports!Messages : Imports!Say(m)
         \/ \E x \in Contents : Imports!LiveCapture(x)
         \/ Imports!Expire
  PROVE  ImportsInv'
<1>0. UNCHANGED <<s4, s5>>
  BY DEF Imports!Say, Imports!LiveCapture, Imports!Expire
<1>1. CASE \E m \in Imports!Messages : Imports!Say(m)
  <2>1. PICK m \in Contents \cup {v} : s1' = Append(s1, m) /\ UNCHANGED <<s2, s3>>
    BY <1>1 DEF Imports!Say, Imports!Messages
  <2>2. /\ s1' \in Seq(Contents \cup {v}) /\ Len(s1) \in Nat /\ Len(s1') = Len(s1) + 1
        /\ \A i \in DOMAIN s1 : i \in DOMAIN s1' /\ s1'[i] = s1[i]
    BY <2>1 DEF ImportsInv
  <2>3. s4.stop \in Nat /\ s4.cursor \in Nat /\ Len(s4.batch) \in Nat
    BY DEF ImportsInv, ImportRow
  <2> QED
    BY <1>0, <2>1, <2>2, <2>3 DEF ImportsInv, OnRecord
<1>2. CASE (\E x \in Contents : Imports!LiveCapture(x)) \/ Imports!Expire
  <2>1. /\ UNCHANGED s1 /\ s2' \in [Contents -> {"received", "parked", "gated_out", None}] /\ s3' \in Nat
        /\ \A x \in Contents : OnRecord(x) => OnRecord(x)'
    <3>1. CASE \E x \in Contents : Imports!LiveCapture(x)
      <4>1. PICK x \in Contents : Imports!LiveCapture(x)
        BY <3>1
      <4>2. s3' \in Nat
        BY <4>1 DEF ImportsInv, Imports!LiveCapture
      <4>3. s2' = [s2 EXCEPT ![x] = IF s2[x] = None THEN "received" ELSE s2[x]] /\ UNCHANGED s1
        BY <4>1 DEF Imports!LiveCapture
      <4> QED
        BY <4>2, <4>3 DEF ImportsInv, OnRecord
    <3>2. CASE Imports!Expire
      BY <3>2, ImportsAssumption DEF ImportsInv, OnRecord, Imports!Expire
    <3> QED
      BY <1>2, <3>1, <3>2
  <2>2. \A i \in DOMAIN s1 : s1[i] # v => s1[i] \in Contents
    BY DEF ImportsInv
  <2> QED
    BY <1>0, <2>1, <2>2 DEF ImportsInv
<1> QED
  BY <1>1, <1>2

\* What is to be shown of a step of the import: its row still fits.
LEMMA ImportGoes ==
  ASSUME ImportsInv, UNCHANGED <<s1, s3>>, s2' \in [Contents -> {"received", "parked", "gated_out", None}],
         \A x \in Contents : OnRecord(x) => OnRecord(x)',
         NEW row \in ImportRow, s4' = row,
         row.pc # "idle" => row.from >= 1 /\ row.stop <= Len(s1),
         row.pc = "batch" => row.cursor + Len(row.batch) <= Len(s1) /\ \A i \in 1..Len(row.batch) : row.batch[i] = row.cursor + i,
         row.pc # "idle" /\ ~row.dry /\ row.failures = 0 =>
           \A i \in row.from..row.cursor : i \in DOMAIN s1 /\ (s1[i] # v => s2'[s1[i]] # None),
         s5' \subseteq Contents, \A x \in s5' : x \in s5 \/ OnRecord(x)
  PROVE  ImportsInv'
  BY DEF ImportsInv, OnRecord

LEMMA StartIsSafe ==
  ASSUME ImportsInv, NEW window \in {<<1, 0>>, <<2, 2>>}, NEW dry \in BOOLEAN, Imports!Start(window[1], window[2], dry)
  PROVE  ImportsInv'
<1> DEFINE stop == IF window[2] = 0 \/ window[2] > Len(s1) THEN Len(s1) ELSE window[2]
           row == [Imports!Resting EXCEPT !.pc = "reading", !.dry = dry, !.from = window[1], !.stop = stop,
                                          !.cursor = window[1] - 1, !.episodes = s3]
<1>1. s4' = row /\ UNCHANGED <<s1, s2, s3, s5>>
  BY DEF Imports!Start
<1>2. window[1] \in Nat /\ window[1] >= 1 /\ window[2] \in Nat /\ Len(s1) \in Nat /\ s3 \in Nat
  BY DEF ImportsInv
<1>3. stop \in Nat /\ stop <= Len(s1) /\ window[1] - 1 \in Nat
  BY <1>2
<1> HIDE DEF stop
<1>4. row \in ImportRow /\ row.pc = "reading" /\ row.from = window[1] /\ row.stop = stop /\ row.cursor = window[1] - 1
  BY <1>2, <1>3, RestingIsRow DEF ImportRow
<1> HIDE DEF row
<1> QED
  BY <1>1, <1>2, <1>3, <1>4, ImportGoes DEF ImportsInv, OnRecord

LEMMA FetchIsSafe == ASSUME ImportsInv, Imports!Fetch PROVE ImportsInv'
<1> DEFINE ahead == Imports!Ahead
           batch == [i \in 1..ahead |-> s4.cursor + i]
           row == [s4 EXCEPT !.pc = "batch", !.batch = batch]
<1>1. s4' = row /\ UNCHANGED <<s1, s2, s3, s5>> /\ s4.pc = "reading" /\ ahead > 0
  BY DEF Imports!Fetch
<1>2. s4 \in ImportRow /\ s4.cursor \in Nat /\ Len(s1) \in Nat
  BY DEF ImportsInv, ImportRow
<1>3. ahead \in Nat /\ s4.cursor + ahead <= Len(s1)
  BY <1>1, <1>2, ImportsAssumption DEF Imports!Ahead
<1> HIDE DEF ahead
<1>4. batch \in Seq(Nat) /\ Len(batch) = ahead /\ \A i \in 1..ahead : batch[i] = s4.cursor + i
  BY <1>2, <1>3
<1> HIDE DEF batch
<1>5. /\ row \in ImportRow /\ row.pc = "batch" /\ row.from = s4.from /\ row.stop = s4.stop /\ row.cursor = s4.cursor
      /\ row.batch = batch /\ row.dry = s4.dry /\ row.failures = s4.failures
  BY <1>2, <1>4 DEF ImportRow
<1> HIDE DEF row
<1> QED
  BY <1>1, <1>2, <1>3, <1>4, <1>5, ImportGoes DEF ImportsInv, OnRecord

LEMMA BeyondIsSafe == ASSUME ImportsInv, Imports!Beyond \/ Imports!BatchDone PROVE ImportsInv'
<1>1. UNCHANGED <<s1, s2, s3, s5>> /\ s4.pc = "batch" /\ s4 \in ImportRow
  BY DEF Imports!Beyond, Imports!BatchDone, ImportsInv
<1>2. s4.cursor \in Nat /\ s4.stop \in Nat /\ s4.from \in Nat /\ s4.batch \in Seq(Nat)
  BY <1>1 DEF ImportRow
<1>3. CASE Imports!Beyond
  <2> DEFINE none == <<>>
             row == [s4 EXCEPT !.pc = "reading", !.cursor = s4.stop, !.batch = none]
  <2>1. s4' = row /\ s4.batch # <<>> /\ Head(s4.batch) > s4.stop
    BY <1>3 DEF Imports!Beyond
  <2>2. s4.batch[1] = s4.cursor + 1 /\ Head(s4.batch) = s4.batch[1]
    <3>1. 1 \in 1..Len(s4.batch) /\ Head(s4.batch) = s4.batch[1]
      BY <1>2, <2>1
    <3> QED
      BY <1>1, <3>1 DEF ImportsInv
  <2>3. s4.stop <= s4.cursor
    BY <1>2, <2>1, <2>2
  <2>4. none \in Seq(Nat)
    OBVIOUS
  <2> HIDE DEF none
  <2>5. /\ row \in ImportRow /\ row.pc = "reading" /\ row.from = s4.from /\ row.stop = s4.stop /\ row.cursor = s4.stop
        /\ row.dry = s4.dry /\ row.failures = s4.failures
    BY <1>1, <1>2, <2>4 DEF ImportRow
  <2> HIDE DEF row
  <2>6. \A i \in s4.from..s4.stop : i \in s4.from..s4.cursor
    BY <1>2, <2>3
  <2> QED
    BY <1>1, <2>1, <2>5, <2>6, ImportGoes DEF ImportsInv, OnRecord
<1>4. CASE Imports!BatchDone
  <2> DEFINE row == [s4 EXCEPT !.pc = "reading"]
  <2>1. s4' = row
    BY <1>4 DEF Imports!BatchDone
  <2>2. /\ row \in ImportRow /\ row.pc = "reading" /\ row.from = s4.from /\ row.stop = s4.stop /\ row.cursor = s4.cursor
        /\ row.dry = s4.dry /\ row.failures = s4.failures
    BY <1>1, <1>2 DEF ImportRow
  <2> HIDE DEF row
  <2> QED
    BY <1>1, <2>1, <2>2, ImportGoes DEF ImportsInv, OnRecord
<1> QED
  BY <1>3, <1>4

\* The next message of a batch is passed: it has no text, is on record now, or is
\* counted as a failure.
LEMMA PassingIsSafe ==
  ASSUME ImportsInv, Imports!Importing, UNCHANGED <<s1, s3, s5>>,
         s2' \in [Contents -> {"received", "parked", "gated_out", None}],
         \A x \in Contents : OnRecord(x) => OnRecord(x)',
         NEW failed \in {0, 1}, s4' = [Imports!Passed EXCEPT !.failures = @ + failed],
         failed = 0 => Imports!Current = v \/ s4.dry \/ s2'[Imports!Current] # None
  PROVE  ImportsInv'
<1> DEFINE rest == Tail(s4.batch)
           id == Head(s4.batch)
           passed == [s4 EXCEPT !.cursor = id, !.batch = rest]
           row == [passed EXCEPT !.failures = passed.failures + failed]
<1>1. s4' = row
  BY DEF Imports!Passed
<1>2. s4.pc = "batch" /\ s4.batch # <<>> /\ s4 \in ImportRow
  BY DEF Imports!Importing, ImportsInv
<1>3. s4.cursor \in Nat /\ s4.stop \in Nat /\ s4.from \in Nat /\ s4.batch \in Seq(Nat) /\ s4.failures \in Nat /\ Len(s1) \in Nat
  BY <1>2 DEF ImportRow, ImportsInv
<1>4. Len(s4.batch) \in Nat /\ Len(s4.batch) >= 1
  BY <1>2, <1>3
<1>5. s4.cursor + Len(s4.batch) <= Len(s1)
  BY <1>2 DEF ImportsInv
<1>6. id = s4.cursor + 1 /\ id \in Nat /\ id \in DOMAIN s1
  <2>1. 1 \in 1..Len(s4.batch) /\ id = s4.batch[1]
    BY <1>2, <1>3, <1>4
  <2>2. s4.batch[1] = s4.cursor + 1
    BY <1>2, <2>1 DEF ImportsInv
  <2>3. DOMAIN s1 = 1..Len(s1)
    BY DEF ImportsInv
  <2> QED
    BY <1>3, <1>4, <1>5, <2>1, <2>2, <2>3
<1>7. rest \in Seq(Nat) /\ Len(rest) = Len(s4.batch) - 1 /\ \A i \in 1..Len(rest) : rest[i] = s4.batch[i + 1]
  BY <1>2, <1>3
<1> HIDE DEF rest, id
<1>8. \A i \in 1..Len(rest) : rest[i] = id + i
  <2> SUFFICES ASSUME NEW i \in 1..Len(rest) PROVE rest[i] = id + i
    OBVIOUS
  <2>1. i + 1 \in 1..Len(s4.batch) /\ i \in Nat
    BY <1>4, <1>7
  <2>2. s4.batch[i + 1] = s4.cursor + (i + 1)
    BY <1>2, <2>1 DEF ImportsInv
  <2>3. rest[i] = s4.batch[i + 1]
    BY <1>7
  <2>4. s4.cursor + (i + 1) = id + i
    <3>1. s4.cursor \in Nat /\ id = s4.cursor + 1 /\ i \in Nat
      BY <1>3, <1>6, <2>1
    <3> QED
      BY <3>1
  <2> QED
    BY <2>2, <2>3, <2>4
<1>9. id + Len(rest) <= Len(s1)
  BY <1>3, <1>4, <1>6, <1>7, <1>5
<1>10. Imports!Current = s1[id]
  BY DEF Imports!Current, id
<1>11. /\ passed \in ImportRow /\ passed.pc = "batch" /\ passed.from = s4.from /\ passed.stop = s4.stop /\ passed.cursor = id
       /\ passed.batch = rest /\ passed.dry = s4.dry /\ passed.failures = s4.failures
  BY <1>2, <1>6, <1>7 DEF ImportRow
<1> HIDE DEF passed
<1>12. /\ row \in ImportRow /\ row.pc = "batch" /\ row.from = s4.from /\ row.stop = s4.stop /\ row.cursor = id
       /\ row.batch = rest /\ row.dry = s4.dry /\ row.failures = s4.failures + failed
  <2>1. passed.failures + failed \in Nat
    BY <1>3, <1>11
  <2> QED
    BY <1>11, <2>1 DEF ImportRow
<1> HIDE DEF row
<1>13. ASSUME ~row.dry, row.failures = 0, NEW i \in row.from..row.cursor
       PROVE  i \in DOMAIN s1 /\ (s1[i] # v => s2'[s1[i]] # None)
  <2>1. failed = 0 /\ s4.failures = 0 /\ ~s4.dry
    BY <1>3, <1>12, <1>13
  <2>2. CASE i = id
    BY <1>6, <1>10, <2>1, <2>2
  <2>3. CASE i # id
    <3>1. i \in s4.from..s4.cursor
      BY <1>3, <1>6, <1>12, <1>13, <2>3
    <3>2. i \in DOMAIN s1 /\ (s1[i] # v => OnRecord(s1[i]))
      BY <1>2, <2>1, <3>1 DEF ImportsInv
    <3>3. s1[i] # v => s1[i] \in Contents
      BY <3>2 DEF ImportsInv
    <3> QED
      BY <3>2, <3>3 DEF OnRecord
  <2> QED
    BY <2>2, <2>3
<1>14. s4.from >= 1 /\ s4.stop <= Len(s1)
  BY <1>2 DEF ImportsInv
<1>15. s5' \subseteq Contents
  BY DEF ImportsInv
<1> QED
  BY <1>1, <1>8, <1>9, <1>12, <1>13, <1>14, <1>15, ImportGoes

LEMMA BatchIsSafe ==
  ASSUME ImportsInv, Imports!SkipEmpty \/ Imports!CaptureParked \/ Imports!CaptureFails PROVE ImportsInv'
<1>0. Imports!Importing /\ UNCHANGED <<s1, s3, s5>>
  BY DEF Imports!SkipEmpty, Imports!CaptureParked, Imports!CaptureFails
<1>1. Imports!Passed.failures \in Nat /\ Imports!Passed = [Imports!Passed EXCEPT !.failures = @ + 0]
  <2> DEFINE passed == Imports!Passed
  <2>1. s4 \in ImportRow /\ passed = [s4 EXCEPT !.cursor = Head(s4.batch), !.batch = Tail(s4.batch)]
    BY DEF ImportsInv, Imports!Passed
  <2>2. passed.failures \in Nat /\ passed = [passed EXCEPT !.failures = passed.failures]
    BY <2>1 DEF ImportRow
  <2> HIDE DEF passed
  <2>3. passed.failures + 0 = passed.failures
    BY <2>2
  <2>4. passed = [passed EXCEPT !.failures = passed.failures + 0]
    BY <2>2, <2>3
  <2> QED
    BY <2>2, <2>4 DEF passed
<1>2. s2 \in [Contents -> {"received", "parked", "gated_out", None}]
  BY DEF ImportsInv
<1>3. CASE Imports!SkipEmpty
  BY <1>0, <1>1, <1>2, <1>3, PassingIsSafe DEF Imports!SkipEmpty, OnRecord
<1>4. CASE Imports!CaptureParked
  <2>1. /\ s4' = Imports!Passed
        /\ s2' = IF s4.dry \/ s2[Imports!Current] # None THEN s2 ELSE [s2 EXCEPT ![Imports!Current] = "parked"]
    BY <1>4 DEF Imports!CaptureParked
  <2>2. /\ s2' \in [Contents -> {"received", "parked", "gated_out", None}]
        /\ \A x \in Contents : OnRecord(x) => OnRecord(x)'
    BY <1>2, <2>1, ImportsAssumption DEF OnRecord
  <2>3. Imports!Current \in Contents
    <3>1. s4.pc = "batch" /\ s4.batch # <<>> /\ s4.batch \in Seq(Nat) /\ s4.cursor \in Nat /\ Len(s1) \in Nat
      BY <1>0 DEF Imports!Importing, ImportsInv, ImportRow
    <3>2. Head(s4.batch) = s4.cursor + 1 /\ s4.cursor + Len(s4.batch) <= Len(s1) /\ Len(s4.batch) >= 1 /\ Len(s4.batch) \in Nat
      BY <3>1 DEF ImportsInv
    <3>3. Head(s4.batch) \in 1..Len(s1)
      BY <3>1, <3>2
    <3> QED
      BY <1>4, <3>3 DEF Imports!CaptureParked, Imports!Current, ImportsInv
  <2>4. s4.dry \/ s2'[Imports!Current] # None
    BY <1>2, <2>1, <2>3, ImportsAssumption
  <2> QED
    BY <1>0, <1>1, <2>1, <2>2, <2>4, PassingIsSafe
<1>5. CASE Imports!CaptureFails
  <2>1. s4' = [Imports!Passed EXCEPT !.failures = @ + 1] /\ UNCHANGED s2
    BY <1>5 DEF Imports!CaptureFails, Imports!Failed
  <2> QED
    BY <1>0, <1>2, <2>1, PassingIsSafe DEF OnRecord
<1> QED
  BY <1>3, <1>4, <1>5

LEMMA FinishIsSafe == ASSUME ImportsInv, Imports!Finish PROVE ImportsInv'
<1> DEFINE none == <<>>
           row == [s4 EXCEPT !.pc = "idle", !.verdict = Imports!Verdict, !.batch = none]
<1>1. /\ s4' = row /\ UNCHANGED <<s1, s2, s3>> /\ s4.pc = "reading"
      /\ s5' = IF Imports!Verdict = "ok" THEN s5 \cup Imports!Window ELSE s5
  BY DEF Imports!Finish
<1>2. s4 \in ImportRow /\ s4.cursor \in Nat /\ s4.stop \in Nat /\ Len(s1) \in Nat /\ s4.stop <= Len(s1) /\ none \in Seq(Nat)
  BY <1>1 DEF ImportsInv, ImportRow
<1>3. Imports!Verdict \in {"ok", "review", "dry", None}
  BY DEF Imports!Verdict
<1> HIDE DEF none
<1>4. row \in ImportRow /\ row.pc = "idle"
  BY <1>2, <1>3 DEF ImportRow
<1> HIDE DEF row
<1>5. s4.cursor >= s4.stop
  BY <1>2, ImportsAssumption DEF Imports!Finish, Imports!Ahead
<1>6. ASSUME Imports!Verdict = "ok", NEW x \in Imports!Window PROVE x \in Contents /\ OnRecord(x)
  <2>1. ~s4.dry /\ s4.failures = 0
    BY <1>6 DEF Imports!Verdict
  <2>2. PICK i \in s4.from..s4.stop : x = s1[i] /\ x # v
    BY DEF Imports!Window
  <2>3. i \in s4.from..s4.cursor
    BY <1>2, <1>5
  <2>4. i \in DOMAIN s1 /\ OnRecord(s1[i])
    BY <1>1, <2>1, <2>2, <2>3 DEF ImportsInv
  <2> QED
    BY <2>2, <2>4 DEF ImportsInv
<1>7. s5 \subseteq Contents /\ s2 \in [Contents -> {"received", "parked", "gated_out", None}]
  BY DEF ImportsInv
<1> QED
  BY <1>1, <1>4, <1>6, <1>7, ImportGoes DEF OnRecord

LEMMA ImportsNext == ImportsInv /\ [Imports!Next]_(Imports!vars) => ImportsInv'
<1> SUFFICES ASSUME ImportsInv, [Imports!Next]_(Imports!vars) PROVE ImportsInv'
  OBVIOUS
<1>1. CASE UNCHANGED Imports!vars
  BY <1>1 DEF ImportsInv, OnRecord, Imports!vars
<1>2. CASE Imports!Dies
  <2>1. s4' = Imports!Resting /\ UNCHANGED <<s1, s2, s3, s5>>
    BY <1>2 DEF Imports!Dies
  <2> QED
    BY <2>1, RestingIsRow DEF ImportsInv, OnRecord
<1> QED
  BY <1>1, <1>2, MeanwhileIsSafe, StartIsSafe, FetchIsSafe, BeyondIsSafe, BatchIsSafe, FinishIsSafe DEF Imports!Next

------------------------------------------------------------------------------
(* The ledger and the timeline *)

Perhaps(values) == values \cup {None}
LedgerRows(keys, values) ==
    [layer : {"base", "branch"}, key : keys, old : Perhaps(values), new : Perhaps(values)]

\* What a fact of the base is now, its timeline and the last row of its ledger say.
LedgerInv(keys, values) ==
    /\ s1 \in [{"base", "branch"} -> [keys -> Perhaps(values)]]
    /\ s2 \in [{"base", "branch"} -> [keys -> SUBSET Perhaps(values)]]
    /\ s3 \in [keys -> Perhaps(values)] \cup {None}
    /\ s4 \in Seq(LedgerRows(keys, values))
    /\ s6 = [pc |-> s6.pc, todo |-> s6.todo] /\ s6.todo \subseteq keys
    /\ Versions(keys, values)!TimelineIsTrue
    /\ Versions(keys, values)!LedgerIsAChain

LEMMA LedgerInit == ASSUME NEW keys, NEW values, Versions(keys, values)!Init PROVE LedgerInv(keys, values)
<1>1. s1 = [l \in {"base", "branch"} |-> [k \in keys |-> None]] /\ s2 = [l \in {"base", "branch"} |-> [k \in keys |-> {}]]
      /\ s3 = None /\ s4 = <<>> /\ s6 = [pc |-> "idle", todo |-> {}]
  BY DEF Versions!Init, Versions!Empty, Versions!Layers, Versions!NoMerge
<1>2. Versions(keys, values)!TimelineIsTrue
  BY <1>1 DEF Versions!TimelineIsTrue, Versions!Held
<1>3. Versions(keys, values)!LedgerIsAChain
  BY <1>1 DEF Versions!LedgerIsAChain, Versions!Rows
<1> QED
  BY <1>1, <1>2, <1>3 DEF LedgerInv, Perhaps

\* Row, ledger and timeline of one fact, in one step.
LEMMA PutIsChained ==
  ASSUME NEW keys, NEW values, LedgerInv(keys, values), NEW l \in {"base", "branch"}, NEW k \in keys, NEW val \in Perhaps(values),
         Versions(keys, values)!Put(l, k, val), UNCHANGED s3, s6' = [pc |-> s6'.pc, todo |-> s6'.todo], s6'.todo \subseteq keys
  PROVE  LedgerInv(keys, values)'
<1> DEFINE row == [layer |-> l, key |-> k, old |-> s1[l][k], new |-> val]
           last == Len(s4) + 1
           Of(j) == Versions(keys, values)!Rows(j)
<1>1. /\ s1' = [s1 EXCEPT ![l] = [s1[l] EXCEPT ![k] = val]] /\ s2' = [s2 EXCEPT ![l] = [s2[l] EXCEPT ![k] = {val} \ {None}]]
      /\ s4' = Append(s4, row)
  BY DEF Versions!Put, Versions!Opened, Versions!Recorded
<1>2. s1 \in [{"base", "branch"} -> [keys -> Perhaps(values)]] /\ s2 \in [{"base", "branch"} -> [keys -> SUBSET Perhaps(values)]]
      /\ s4 \in Seq(LedgerRows(keys, values))
  BY DEF LedgerInv
<1>3. row \in LedgerRows(keys, values) /\ row.layer = l /\ row.key = k /\ row.old = s1[l][k] /\ row.new = val
  BY <1>2 DEF LedgerRows
<1> HIDE DEF row
<1>4. /\ s4' \in Seq(LedgerRows(keys, values)) /\ Len(s4) \in Nat /\ DOMAIN s4 = 1..Len(s4) /\ DOMAIN s4' = 1..last
      /\ s4'[last] = row /\ \A i \in DOMAIN s4 : s4'[i] = s4[i]
  BY <1>1, <1>2, <1>3
<1>5. s1' \in [{"base", "branch"} -> [keys -> Perhaps(values)]] /\ s2' \in [{"base", "branch"} -> [keys -> SUBSET Perhaps(values)]]
  BY <1>1, <1>2
<1>6. \A j \in keys : s1'["base"][j] = IF l = "base" /\ j = k THEN val ELSE s1["base"][j]
  BY <1>1, <1>2
<1>7. \A j \in keys : s2'["base"][j] = IF l = "base" /\ j = k THEN {val} \ {None} ELSE s2["base"][j]
  BY <1>1, <1>2
<1>8. Versions(keys, values)!TimelineIsTrue'
  BY <1>6, <1>7 DEF LedgerInv, Versions!TimelineIsTrue, Versions!Held, Versions!TrueNow
<1>9. \A j \in keys : Of(j)' = IF l = "base" /\ j = k THEN Of(j) \cup {last} ELSE Of(j)
  <2>1. ASSUME NEW j \in keys, NEW i \in DOMAIN s4' PROVE i \in Of(j)' <=> i \in Of(j) \/ (i = last /\ l = "base" /\ j = k)
    <3>1. i \in DOMAIN s4 <=> i # last
      BY <1>4
    <3> QED
      BY <1>3, <1>4, <3>1 DEF Versions!Rows
  <2>2. ASSUME NEW j \in keys PROVE Of(j)' \subseteq DOMAIN s4' /\ Of(j) \subseteq DOMAIN s4 /\ DOMAIN s4 \subseteq DOMAIN s4' /\ last \in DOMAIN s4'
    BY <1>4 DEF Versions!Rows
  <2> HIDE DEF Of, last
  <2> QED
    BY <2>1, <2>2
<1>10. ASSUME NEW j \in keys, ~(l = "base" /\ j = k)
       PROVE  /\ \A i, m \in Of(j)' : i < m /\ ~(\E n \in Of(j)' : i < n /\ n < m) => s4'[m].old \in {s4'[i].new, None}
              /\ \A i \in Of(j)' : (\A n \in Of(j)' : n <= i) => s1'["base"][j] \in {s4'[i].new, None}
  <2>1. Of(j)' = Of(j) /\ s1'["base"][j] = s1["base"][j] /\ \A i \in Of(j) : s4'[i] = s4[i]
    BY <1>4, <1>6, <1>9, <1>10 DEF Versions!Rows
  <2> QED
    BY <2>1 DEF LedgerInv, Versions!LedgerIsAChain
<1>11. ASSUME l = "base"
       PROVE  /\ \A i, m \in Of(k)' : i < m /\ ~(\E n \in Of(k)' : i < n /\ n < m) => s4'[m].old \in {s4'[i].new, None}
              /\ \A i \in Of(k)' : (\A n \in Of(k)' : n <= i) => s1'["base"][k] \in {s4'[i].new, None}
  <2>1. Of(k)' = Of(k) \cup {last} /\ s1'["base"][k] = val
    BY <1>6, <1>9, <1>11
  <2>2. \A i \in Of(k) : i \in Nat /\ i < last /\ s4'[i] = s4[i]
    BY <1>4 DEF Versions!Rows
  <2>3. last \in Nat /\ s4'[last].old = s1["base"][k] /\ s4'[last].new = val
    BY <1>3, <1>4, <1>11
  <2>4. \A i \in Of(k) : (\A n \in Of(k) : n <= i) => s1["base"][k] \in {s4[i].new, None}
    BY DEF LedgerInv, Versions!LedgerIsAChain
  <2>5. \A i, m \in Of(k) : i < m /\ ~(\E n \in Of(k) : i < n /\ n < m) => s4[m].old \in {s4[i].new, None}
    BY DEF LedgerInv, Versions!LedgerIsAChain
  <2> HIDE DEF Of, last
  <2>6. ASSUME NEW i \in Of(k)', NEW m \in Of(k)', i < m, ~(\E n \in Of(k)' : i < n /\ n < m)
        PROVE  s4'[m].old \in {s4'[i].new, None}
    <3>1. CASE m = last
      <4>1. i \in Of(k)
        BY <2>1, <2>2, <2>3, <2>6, <3>1
      <4>2. \A n \in Of(k) : n <= i
        BY <2>1, <2>2, <2>3, <2>6, <3>1, <4>1
      <4> QED
        BY <2>2, <2>3, <2>4, <3>1, <4>1, <4>2
    <3>2. CASE m # last
      <4>1. i \in Of(k) /\ m \in Of(k)
        BY <2>1, <2>2, <2>3, <2>6, <3>2
      <4> QED
        BY <2>1, <2>2, <2>5, <2>6, <4>1
    <3> QED
      BY <3>1, <3>2
  <2>7. ASSUME NEW i \in Of(k)', \A n \in Of(k)' : n <= i PROVE s1'["base"][k] \in {s4'[i].new, None}
    <3>1. i = last
      BY <2>1, <2>2, <2>3, <2>7
    <3> QED
      BY <2>1, <2>3, <3>1
  <2> QED
    BY <2>6, <2>7
<1>12. Versions(keys, values)!LedgerIsAChain'
  BY <1>10, <1>11 DEF Versions!LedgerIsAChain
<1> QED
  BY <1>4, <1>5, <1>8, <1>12 DEF LedgerInv

\* A fact of the base goes without a row, or a branch comes and goes.
LEMMA TakenIsChained ==
  ASSUME NEW keys, NEW values, LedgerInv(keys, values), UNCHANGED <<s2, s3, s4>>,
         s1' \in [{"base", "branch"} -> [keys -> Perhaps(values)]], \A j \in keys : s1'["base"][j] \in {s1["base"][j], None},
         s6' = [pc |-> s6'.pc, todo |-> s6'.todo], s6'.todo \subseteq keys
  PROVE  LedgerInv(keys, values)'
<1>1. Versions(keys, values)!TimelineIsTrue'
  BY DEF LedgerInv, Versions!TimelineIsTrue, Versions!Held, Versions!TrueNow
<1>2. \A j : UNCHANGED Versions(keys, values)!Rows(j)
  BY DEF Versions!Rows
<1>3. Versions(keys, values)!LedgerIsAChain'
  BY <1>2 DEF LedgerInv, Versions!LedgerIsAChain
<1> QED
  BY <1>1, <1>3 DEF LedgerInv

LEMMA EraseIsChained ==
  ASSUME NEW keys, NEW values, LedgerInv(keys, values), NEW l \in {"base", "branch"}, NEW k \in keys,
         Versions(keys, values)!Erase(l, k), UNCHANGED <<s3, s6>>
  PROVE  LedgerInv(keys, values)'
<1>1. s6' = [pc |-> s6'.pc, todo |-> s6'.todo] /\ s6'.todo \subseteq keys
  BY DEF LedgerInv
<1>2. CASE s1[l][k] # None
  BY <1>1, <1>2, PutIsChained DEF Versions!Erase, Perhaps
<1>3. CASE s1[l][k] = None
  <2>1. UNCHANGED <<s1, s2, s3, s4>>
    BY <1>3 DEF Versions!Erase
  <2> QED
    BY <1>1, <2>1, TakenIsChained DEF LedgerInv
<1> QED
  BY <1>2, <1>3

LEMMA EditIsChained ==
  ASSUME NEW keys, NEW values, LedgerInv(keys, values), Versions(keys, values)!Edit PROVE LedgerInv(keys, values)'
<1>1. UNCHANGED <<s3, s6>> /\ s6' = [pc |-> s6'.pc, todo |-> s6'.todo] /\ s6'.todo \subseteq keys
  BY DEF LedgerInv, Versions!Edit, Versions!Delete, Versions!Archive, Versions!Save, Versions!WriteBranch
<1>2. ASSUME NEW k \in keys, Versions(keys, values)!Delete(k) PROVE LedgerInv(keys, values)'
  BY <1>1, <1>2, PutIsChained DEF Versions!Delete, Perhaps
<1>3. ASSUME NEW k \in keys, Versions(keys, values)!Archive(k) PROVE LedgerInv(keys, values)'
  <2>1. s1' = [s1 EXCEPT !["base"] = [s1["base"] EXCEPT ![k] = None]] /\ UNCHANGED <<s2, s4>>
    BY <1>3 DEF Versions!Archive
  <2>2. s1 \in [{"base", "branch"} -> [keys -> Perhaps(values)]] /\ None \in Perhaps(values)
    BY DEF LedgerInv, Perhaps
  <2>3. s1' \in [{"base", "branch"} -> [keys -> Perhaps(values)]] /\ \A j \in keys : s1'["base"][j] \in {s1["base"][j], None}
    BY <2>1, <2>2
  <2> QED
    BY <1>1, <2>1, <2>3, TakenIsChained
<1>4. ASSUME NEW k \in keys, NEW val \in values, Versions(keys, values)!Save(k, val) \/ Versions(keys, values)!WriteBranch(k, val)
      PROVE  LedgerInv(keys, values)'
  <2>1. val \in Perhaps(values) /\ \E l \in {"base", "branch"} : Versions(keys, values)!Put(l, k, val)
    BY <1>4 DEF Versions!Save, Versions!WriteBranch, Perhaps
  <2> QED
    BY <1>1, <2>1, PutIsChained
<1> QED
  BY <1>2, <1>3, <1>4 DEF Versions!Edit

LEMMA BranchIsChained ==
  ASSUME NEW keys, NEW values, LedgerInv(keys, values), Versions(keys, values)!Branch PROVE LedgerInv(keys, values)'
<1>0. /\ UNCHANGED s3 /\ s6 = [pc |-> s6.pc, todo |-> s6.todo] /\ s6.todo \subseteq keys
      /\ s1 \in [{"base", "branch"} -> [keys -> Perhaps(values)]]
  BY DEF LedgerInv, Versions!Branch, Versions!CreateBranch, Versions!DeleteBranch, Versions!MergeDiffs, Versions!MergeKey,
         Versions!MergeDies
<1>1. CASE Versions(keys, values)!CreateBranch \/ Versions(keys, values)!DeleteBranch
  <2>1. PICK table \in [keys -> Perhaps(values)] : s1' = [s1 EXCEPT !["branch"] = table] /\ UNCHANGED <<s2, s4, s6>>
    BY <1>0, <1>1 DEF Versions!CreateBranch, Versions!DeleteBranch, Versions!Empty, Perhaps
  <2>2. s1' \in [{"base", "branch"} -> [keys -> Perhaps(values)]] /\ s1'["base"] = s1["base"]
    BY <1>0, <2>1
  <2> QED
    BY <1>0, <2>1, <2>2, TakenIsChained
<1>2. CASE (\E S \in SUBSET keys : Versions(keys, values)!MergeDiffs(S)) \/ Versions(keys, values)!MergeDies
  <2>1. PICK S \in SUBSET keys, pc \in {"idle", "diffed"} : s6' = [pc |-> pc, todo |-> S] /\ UNCHANGED <<s1, s2, s4>>
    BY <1>2 DEF Versions!MergeDiffs, Versions!MergeDies, Versions!NoMerge
  <2> QED
    BY <1>0, <2>1, TakenIsChained
<1>3. ASSUME NEW k \in keys, Versions(keys, values)!MergeKey(k) PROVE LedgerInv(keys, values)'
  <2>1. s6' = [pc |-> s6'.pc, todo |-> s6'.todo] /\ s6'.todo \subseteq keys
    <3>1. CASE s6.todo = {k}
      BY <1>3, <3>1 DEF Versions!MergeKey, Versions!AfterKey, Versions!NoMerge
    <3>2. CASE s6.todo # {k}
      BY <1>0, <1>3, <3>2 DEF Versions!MergeKey, Versions!AfterKey
    <3> QED
      BY <3>1, <3>2
  <2>2. CASE s1["branch"][k] # None
    BY <1>0, <1>3, <2>1, <2>2, PutIsChained DEF Versions!MergeKey
  <2>3. CASE s1["branch"][k] = None
    BY <1>0, <1>3, <2>1, <2>3, TakenIsChained DEF Versions!MergeKey
  <2> QED
    BY <2>2, <2>3
<1> QED
  BY <1>1, <1>2, <1>3 DEF Versions!Branch

LEMMA RestoreIsChained ==
  ASSUME NEW keys, NEW values, LedgerInv(keys, values), RestoreInv(keys), Versions(keys, values)!Restore
  PROVE  LedgerInv(keys, values)'
<1>0. /\ UNCHANGED s6 /\ s6 = [pc |-> s6.pc, todo |-> s6.todo] /\ s6.todo \subseteq keys
      /\ s1 \in [{"base", "branch"} -> [keys -> Perhaps(values)]]
  BY DEF LedgerInv, Versions!Restore, Versions!SnapshotCreate, Versions!RestoreBegins, Versions!RestoreDeletes,
         Versions!RestoreSaves, Versions!RestoreDies
<1>1. CASE Versions(keys, values)!SnapshotCreate \/ Versions(keys, values)!RestoreBegins \/ Versions(keys, values)!RestoreDies
  <2>1. UNCHANGED <<s1, s2, s4, s6>> /\ s3' \in [keys -> Perhaps(values)] \cup {None}
    BY <1>0, <1>1 DEF Versions!SnapshotCreate, Versions!RestoreBegins, Versions!RestoreDies, LedgerInv
  <2>2. \A j : UNCHANGED Versions(keys, values)!Rows(j)
    BY <2>1 DEF Versions!Rows
  <2> QED
    BY <2>1, <2>2 DEF LedgerInv, Versions!TimelineIsTrue, Versions!Held, Versions!TrueNow, Versions!LedgerIsAChain
<1>2. CASE Versions(keys, values)!RestoreDeletes
  <2>1. PICK k \in s5.delete : Versions(keys, values)!Erase("base", k)
    BY <1>2 DEF Versions!RestoreDeletes
  <2>2. UNCHANGED s3 /\ k \in keys
    BY <1>2 DEF Versions!RestoreDeletes, RestoreInv, OnTheWay
  <2> QED
    BY <1>0, <2>1, <2>2, EraseIsChained
<1>3. CASE Versions(keys, values)!RestoreSaves
  <2>1. PICK k \in s5.save : Versions(keys, values)!Put("base", k, s3[k])
    BY <1>3 DEF Versions!RestoreSaves
  <2>2. UNCHANGED s3 /\ s3 # None /\ k \in keys
    BY <1>3 DEF Versions!RestoreSaves, RestoreInv, OnTheWay
  <2>3. s3[k] \in Perhaps(values)
    BY <2>2 DEF LedgerInv
  <2> QED
    BY <1>0, <2>1, <2>2, <2>3, PutIsChained
<1> QED
  BY <1>1, <1>2, <1>3 DEF Versions!Restore

LEMMA LedgerNext ==
  ASSUME NEW keys, NEW values, LedgerInv(keys, values), RestoreInv(keys),
         [Versions(keys, values)!Next]_(Versions(keys, values)!vars)
  PROVE  LedgerInv(keys, values)'
<1>1. CASE UNCHANGED Versions(keys, values)!vars
  <2>1. UNCHANGED <<s1, s2, s3, s4, s6>>
    BY <1>1 DEF Versions!vars
  <2> QED
    BY <2>1, TakenIsChained DEF LedgerInv
<1>2. ASSUME NEW i \in 1..Len(s4), Versions(keys, values)!Rollback(i) PROVE LedgerInv(keys, values)'
  <2>1. s4[i].layer \in {"base", "branch"} /\ s4[i].key \in keys /\ s4[i].old \in Perhaps(values)
    <3>1. s4 \in Seq(LedgerRows(keys, values))
      BY DEF LedgerInv
    <3>2. s4[i] \in LedgerRows(keys, values)
      BY <3>1
    <3> QED
      BY <3>2 DEF LedgerRows
  <2>2. /\ IF s4[i].old = None THEN Versions(keys, values)!Erase(s4[i].layer, s4[i].key)
           ELSE Versions(keys, values)!Put(s4[i].layer, s4[i].key, s4[i].old)
        /\ UNCHANGED <<s3, s6>>
    BY <1>2 DEF Versions!Rollback
  <2>3. s6 = [pc |-> s6.pc, todo |-> s6.todo] /\ s6.todo \subseteq keys
    BY DEF LedgerInv
  <2> QED
    BY <2>1, <2>2, <2>3, EraseIsChained, PutIsChained
<1> QED
  BY <1>1, <1>2, EditIsChained, BranchIsChained, RestoreIsChained DEF Versions!Next

------------------------------------------------------------------------------
(* What a crash of the ring's process can lose *)

\* The additions the counter has counted, and one round of it for each save that
\* failed: an import sets the counter to its limit and saves.
Added == IF s3 < SaveEvery THEN s3 ELSE SaveEvery - 1
Excused == SaveEvery * s10.saves

LossInv == s3 \in 0..SaveEvery /\ s4 \in Nat /\ s10.saves \in Nat /\ s4 <= Added + Excused

LEMMA ExcusedGrows == \A n \in Nat : SaveEvery * n \in Nat /\ SaveEvery * (n + 1) = SaveEvery * n + SaveEvery
  BY StashAssumption

LEMMA LossHolds == LossInv => Stash!LossIsBounded
<1> SUFFICES ASSUME LossInv PROVE s4 < SaveEvery * (s10.saves + 1)
  BY DEF Stash!LossIsBounded
<1>1. s10.saves \in Nat /\ s4 \in Nat /\ s3 \in Nat /\ SaveEvery \in Nat \ {0} /\ s4 <= Added + SaveEvery * s10.saves
  BY StashAssumption DEF LossInv, Excused
<1> DEFINE b == SaveEvery * s10.saves
<1>2. b \in Nat /\ SaveEvery * (s10.saves + 1) = b + SaveEvery
  BY <1>1, ExcusedGrows
<1>3. s4 <= Added + b
  BY <1>1
<1> HIDE DEF b
<1> QED
  BY <1>1, <1>2, <1>3 DEF Added

LEMMA LossInit == Stash!Init => LossInv
<1> SUFFICES ASSUME Stash!Init PROVE LossInv
  OBVIOUS
<1>1. s3 = 0 /\ s4 = 0 /\ s10.saves = 0
  BY DEF Stash!Init
<1>2. Excused \in Nat /\ Added \in Nat
  BY <1>1, ExcusedGrows, StashAssumption DEF Excused, Added
<1> QED
  BY <1>1, <1>2, StashAssumption DEF LossInv

LEMMA SumIsNat == \A a, b \in Nat : a + b \in Nat
  OBVIOUS

LEMMA RoomAbove == \A a, b, x \in Nat : x <= a => x <= a + b
  OBVIOUS

LEMMA RoomForOne ==
  ASSUME NEW n \in Nat, NEW a \in Nat, NEW b \in Nat, NEW c \in Nat, NEW every \in Nat, n <= a + b, a <= every - 1
  PROVE  n + 1 <= c + (b + every)
  OBVIOUS

\* What is to be shown of a step, with the saves that failed in it: the file took
\* the ring as it is, or as it was a few additions ago, or a save failed.
Losing(n) ==
    \/ s4' <= Added'
    \/ n = 1 /\ s4' <= Added' + SaveEvery
    \/ n = 1 /\ s4' = s4 + 1
    \/ n = 0 /\ s4' = s4 /\ s3' = s3
    \/ n = 0 /\ s4' = s4 + 1 /\ s3' = s3 + 1 /\ s3 + 1 < SaveEvery

LEMMA LossGoes ==
  ASSUME LossInv, s3' \in 0..SaveEvery, s4' \in Nat, NEW n \in {0, 1}, s10'.saves = s10.saves + n, Losing(n)
  PROVE  LossInv'
<1> DEFINE b == SaveEvery * s10.saves
           c == SaveEvery * s10'.saves
<1>1. s3 \in Nat /\ s3' \in Nat /\ s4 \in Nat /\ s10.saves \in Nat /\ SaveEvery \in Nat \ {0} /\ s4 <= Added + b
  BY StashAssumption DEF LossInv, Excused
<1>2. b \in Nat /\ s10'.saves \in Nat /\ c = IF n = 1 THEN b + SaveEvery ELSE b
  BY <1>1, ExcusedGrows
<1>3. Excused' = c
  BY DEF Excused
<1> HIDE DEF b, c
<1>4. Added \in Nat /\ Added' \in Nat /\ Added <= SaveEvery - 1
  BY <1>1 DEF Added
<1>5. s4' <= Added' + c
  <2>0. c \in Nat /\ (n = 1 => c = b + SaveEvery)
    BY <1>1, <1>2
  <2>1. CASE s4' <= Added'
    BY <1>4, <2>0, <2>1, RoomAbove
  <2>5. CASE n = 1 /\ s4' <= Added' + SaveEvery
    <3>0. Added' \in Nat /\ SaveEvery \in Nat
      BY <1>1, <1>4
    <3>1. c = b + SaveEvery /\ Added' + SaveEvery \in Nat
      <4>1. Added' + SaveEvery \in Nat
        BY <3>0, SumIsNat
      <4> QED
        BY <2>0, <2>5, <4>1
    <3>2. s4' <= (Added' + SaveEvery) + b
      BY <1>2, <2>5, <3>1, RoomAbove
    <3>3. (Added' + SaveEvery) + b = Added' + c
      BY <1>1, <1>2, <1>4, <3>1
    <3> QED
      BY <3>2, <3>3
  <2>2. CASE n = 1 /\ s4' = s4 + 1
    <3>1. c = b + SaveEvery
      BY <1>2, <2>2
    <3> QED
      BY <1>1, <1>2, <1>4, <2>2, <3>1, RoomForOne
  <2>3. CASE n = 0 /\ s4' = s4 /\ s3' = s3
    <3>1. Added' = Added /\ c = b
      BY <1>2, <2>3 DEF Added
    <3>2. s4' <= Added + b
      BY <1>1, <2>3
    <3> QED
      BY <3>1, <3>2
  <2>4. CASE n = 0 /\ s4' = s4 + 1 /\ s3' = s3 + 1 /\ s3 + 1 < SaveEvery
    <3>1. Added' = Added + 1 /\ c = b
      BY <1>1, <1>2, <2>4 DEF Added
    <3> QED
      BY <1>1, <1>2, <1>4, <2>4, <3>1
  <2> QED
    BY <2>1, <2>2, <2>3, <2>4, <2>5 DEF Losing
<1> QED
  BY <1>2, <1>3, <1>5 DEF LossInv

LEMMA LossNext == StashInv /\ LossInv /\ [Stash!Next]_(Stash!vars) => LossInv'
<1> SUFFICES ASSUME StashInv, LossInv, [Stash!Next]_(Stash!vars) PROVE LossInv'
  OBVIOUS
<1>1. /\ s10 = [kept |-> s10.kept, lost |-> s10.lost, saves |-> s10.saves] /\ s10.saves \in Nat
      /\ s3 \in 0..SaveEvery /\ s4 \in Nat /\ SaveEvery \in Nat \ {0}
  BY StashAssumption DEF StashInv, StashTypes, LossInv
<1>2. ASSUME NEW ring, NEW n, Stash!SaveRing(ring, n)
      PROVE  \/ s4' = 0 /\ s10'.saves = s10.saves + 0
             \/ s4' = n /\ s10'.saves = s10.saves + 1
  BY <1>1, <1>2 DEF Stash!SaveRing
<1>3. CASE Stash!Add
  <2>1. CASE s3' = 0 /\ \E ring : Stash!SaveRing(ring, s4 + 1)
    BY <1>1, <1>2, <2>1, LossGoes DEF Losing, Added
  <2>2. CASE ~Stash!DueByCount(s3 + 1) /\ s3' = (IF s3 < SaveEvery THEN s3 + 1 ELSE s3) /\ s4' = s4 + 1 /\ UNCHANGED s10
    BY <1>1, <2>2, LossGoes DEF Losing, Stash!DueByCount
  <2> QED
    BY <1>3, <2>1, <2>2 DEF Stash!Add
<1>4. CASE Stash!ImportRing
  <2>1. s3' = SaveEvery /\ \E ring : Stash!SaveRing(ring, s4 + 1)
    BY <1>4 DEF Stash!ImportRing
  <2> QED
    BY <1>1, <1>2, <2>1, LossGoes DEF Losing, Added
<1>5. CASE Stash!Crash
  <2>1. s3' = 0 /\ s4' = 0 /\ s10'.saves = s10.saves + 0
    BY <1>1, <1>5 DEF Stash!Crash
  <2> QED
    BY <1>1, <2>1, LossGoes DEF Losing, Added
<1>6. CASE Stash!ClearRing
  <2>1. UNCHANGED s3 /\ \E ring : Stash!SaveRing(ring, 0)
    BY <1>6 DEF Stash!ClearRing
  <2> QED
    BY <1>1, <1>2, <2>1, LossGoes DEF Losing, Added
<1>7. CASE Stash!Refill
  <2> DEFINE len == Len(s7.ring)
  <2>1. len \in Nat
    <3>1. s7 \in StashSet
      BY <1>7 DEF Stash!Refill, StashInv, StashTypes, CallHolds
    <3> QED
      BY <3>1 DEF StashSet
  <2>2. PICK i \in 0..len :
           /\ s3' = IF i = 0 THEN s3 + (len - i) ELSE len - i
           /\ len - i > 0 => ~(s3' >= SaveEvery)
           /\ \/ s4' = len - i /\ UNCHANGED s10
              \/ i <= SaveEvery /\ s4' = len /\ s10' = [s10 EXCEPT !.saves = @ + 1]
    BY <1>7 DEF Stash!Refill, Stash!DueByCount
  <2> HIDE DEF len
  <2>3. s3' \in 0..SaveEvery
    BY <1>1, <2>1, <2>2
  <2>4. CASE s4' = len - i /\ UNCHANGED s10
    <3>1. s4' \in Nat /\ s4' <= Added' /\ s10'.saves = s10.saves + 0
      BY <1>1, <2>1, <2>2, <2>4 DEF Added
    <3> QED
      BY <2>3, <3>1, LossGoes DEF Losing
  <2>5. CASE i <= SaveEvery /\ s4' = len /\ s10' = [s10 EXCEPT !.saves = @ + 1]
    <3>1. s4' \in Nat /\ s4' <= Added' + SaveEvery
      BY <1>1, <2>1, <2>2, <2>5 DEF Added
    <3>2. s10'.saves = s10.saves + 1
      BY <1>1, <2>5
    <3> QED
      BY <2>3, <3>1, <3>2, LossGoes DEF Losing
  <2> QED
    BY <2>2, <2>4, <2>5
<1>8. CASE Stash!Pad \/ UNCHANGED Stash!vars \/ Stash!StashInsert \/ Stash!ClearPad \/ Stash!StashPop \/ Stash!PopWrites
           \/ Stash!PopDrops \/ Stash!StashDrop
  <2>1. UNCHANGED <<s3, s4>>
    BY <1>8 DEF Stash!Pad, Stash!ClearEntry, Stash!WriteEntry, Stash!vars, Stash!StashInsert, Stash!ClearPad, Stash!StashPop,
                Stash!PopWrites, Stash!PopDrops, Stash!StashDrop
  <2>2. s10'.saves = s10.saves
    BY <1>1, <1>8 DEF Stash!Pad, Stash!ClearEntry, Stash!WriteEntry, Stash!vars, Stash!StashInsert, Stash!ClearPad, Stash!StashPop,
                Stash!PopWrites, Stash!PopDrops, Stash!StashDrop
  <2> QED
    BY <1>1, <2>1, <2>2, LossGoes DEF Losing
<1> QED
  BY <1>3, <1>4, <1>5, <1>6, <1>7, <1>8 DEF Stash!Next, Stash!Ring, Stash!Stashing

------------------------------------------------------------------------------
(* The daemon *)

\* What Daemon_proofs shows of every daemon, for the one of the run.
Reader == INSTANCE Daemon_proofs WITH
    source <- s1, file <- s2, daemon <- s3, gates <- s4, store <- s5, history <- s6,
    Msgs <- {p, q, t}, Blank <- {t}, BatchLimit <- 2, RateMax <- 2, MaxCrashes <- 1, MaxMerges <- 0

\* The module and the one proved about define the same actions.
LEMMA SameCount == \A S : Reader!Cardinality(S) = Daemon!Cardinality(S)
  BY DEF Reader!Cardinality, Daemon!Cardinality

LEMMA SameIds == Reader!Ids = Daemon!Ids
  BY SameCount DEF Reader!Ids, Daemon!Ids

LEMMA SameMark == Reader!Mark = Daemon!Mark
  BY SameIds DEF Reader!Mark, Daemon!Mark

LEMMA SameInit == Daemon!Init => Reader!Init
  BY SameIds DEF Reader!Init, Daemon!Init, Reader!EmptyGates, Daemon!EmptyGates

LEMMA SameNext == [Daemon!Next]_(Daemon!vars) => [Reader!Next]_(Reader!vars)
<1>1. ASSUME NEW x PROVE Daemon!Arrive(x) => Reader!Arrive(x)
  BY SameMark DEF Reader!Arrive, Daemon!Arrive, Reader!Sent, Daemon!Sent, Reader!MaxId, Daemon!MaxId
<1>2. ASSUME NEW x PROVE Daemon!Merge(x) => Reader!Merge(x)
  BY SameMark DEF Reader!Merge, Daemon!Merge, Reader!MaxId, Daemon!MaxId, Reader!Dealt, Daemon!Dealt
<1>3. Daemon!Start => Reader!Start
  BY SameMark DEF Reader!Start, Daemon!Start
<1>4. Daemon!TakeBaseline => Reader!TakeBaseline
  BY SameMark DEF Reader!TakeBaseline, Daemon!TakeBaseline, Reader!SaveAt, Daemon!SaveAt, Reader!MaxId, Daemon!MaxId, Reader!Sent, Daemon!Sent
<1>5. Daemon!Rewind => Reader!Rewind
  BY SameMark DEF Reader!Rewind, Daemon!Rewind, Reader!WentBackwards, Daemon!WentBackwards, Reader!MaxId, Daemon!MaxId, Reader!SaveAt, Daemon!SaveAt
<1>6. Daemon!Fetch => Reader!Fetch
  BY SameMark DEF Reader!Fetch, Daemon!Fetch, Reader!WentBackwards, Daemon!WentBackwards, Reader!MaxId, Daemon!MaxId, Reader!Batch, Daemon!Batch
<1>7. Daemon!EndBatch => Reader!EndBatch
  BY SameMark DEF Reader!EndBatch, Daemon!EndBatch
<1>8. Daemon!BeginSave => Reader!BeginSave
  BY SameMark DEF Reader!BeginSave, Daemon!BeginSave
<1>9. Daemon!EndSave => Reader!EndSave
  BY SameMark DEF Reader!EndSave, Daemon!EndSave
<1>10. Daemon!SkipBlank => Reader!SkipBlank
  BY SameMark DEF Reader!SkipBlank, Daemon!SkipBlank, Reader!Dispatching, Daemon!Dispatching, Reader!Current, Daemon!Current, Reader!MoveOn, Daemon!MoveOn
<1>11. Daemon!RateLimited => Reader!RateLimited
  BY SameMark DEF Reader!RateLimited, Daemon!RateLimited, Reader!Dispatching, Daemon!Dispatching, Reader!Current, Daemon!Current, Reader!HoldHere, Daemon!HoldHere
<1>12. Daemon!Deduped => Reader!Deduped
  BY SameMark DEF Reader!Deduped, Daemon!Deduped, Reader!Dispatching, Daemon!Dispatching, Reader!Current, Daemon!Current, Reader!HoldHere, Daemon!HoldHere
<1>13. Daemon!Duplicate => Reader!Duplicate
  BY SameMark DEF Reader!Duplicate, Daemon!Duplicate, Reader!Reached, Daemon!Reached, Reader!Dispatching, Daemon!Dispatching, Reader!Current, Daemon!Current, Reader!MoveOn, Daemon!MoveOn
<1>14. Daemon!Delivered => Reader!Delivered
  BY SameMark DEF Reader!Delivered, Daemon!Delivered, Reader!Fresh, Daemon!Fresh, Reader!Reached, Daemon!Reached, Reader!Dispatching, Daemon!Dispatching, Reader!Current, Daemon!Current, Reader!MoveOn, Daemon!MoveOn
<1>15. Daemon!Closed => Reader!Closed
  BY SameMark DEF Reader!Closed, Daemon!Closed, Reader!Fresh, Daemon!Fresh, Reader!Reached, Daemon!Reached, Reader!Dispatching, Daemon!Dispatching, Reader!Current, Daemon!Current, Reader!MoveOn, Daemon!MoveOn
<1>16. Daemon!Transient => Reader!Transient
  BY SameMark DEF Reader!Transient, Daemon!Transient, Reader!Fresh, Daemon!Fresh, Reader!Reached, Daemon!Reached, Reader!Dispatching, Daemon!Dispatching, Reader!Current, Daemon!Current, Reader!HoldHere, Daemon!HoldHere
<1>17. Daemon!MinutePasses => Reader!MinutePasses
  BY SameMark DEF Reader!MinutePasses, Daemon!MinutePasses
<1>18. Daemon!DedupExpires => Reader!DedupExpires
  BY SameMark DEF Reader!DedupExpires, Daemon!DedupExpires
<1>19. Daemon!Crash => Reader!Crash
  BY SameMark DEF Reader!Crash, Daemon!Crash, Reader!Dispatching, Daemon!Dispatching, Reader!Current, Daemon!Current, Reader!EmptyGates, Daemon!EmptyGates
<1>50. UNCHANGED Daemon!vars => UNCHANGED Reader!vars
  BY DEF Daemon!vars, Reader!vars
<1>53. (\E m \in {p, q, t} : Daemon!Arrive(m)) => \E m \in {p, q, t} : Reader!Arrive(m)
  BY <1>1
<1>54. (\E n \in 1..Daemon!MaxId : Daemon!Merge(n)) => \E n \in 1..Reader!MaxId : Reader!Merge(n)
  BY <1>2 DEF Daemon!MaxId, Reader!MaxId
<1>51. Daemon!Tick => Reader!Tick
  BY <1>3, <1>4, <1>5, <1>6, <1>7, <1>8, <1>9 DEF Reader!Tick, Daemon!Tick
<1>52. Daemon!Dispatch => Reader!Dispatch
  BY <1>10, <1>11, <1>12, <1>13, <1>14, <1>15, <1>16 DEF Reader!Dispatch, Daemon!Dispatch
<1> QED
  BY <1>17, <1>18, <1>19, <1>50, <1>51, <1>52, <1>53, <1>54 DEF Reader!Next, Daemon!Next

\* What Daemon assumes of its constants.
LEMMA CursorAssumptions ==
  /\ NoFile \notin Reader!Ids /\ Torn \notin Reader!Ids /\ NoFile # Torn
  /\ Reader!IsFiniteSet({p, q, t}) /\ {t} \subseteq {p, q, t}
<1>1. \A S : Reader!IsFiniteSet(S) = IsFiniteSet(S)
  BY DEF Reader!IsFiniteSet, IsFiniteSet
<1>2. \A S : Reader!Cardinality(S) = Cardinality(S)
  BY DEF Reader!Cardinality, Cardinality
<1>3. IsFiniteSet({}) /\ \A S, x : IsFiniteSet(S) => IsFiniteSet(S \cup {x})
  BY FS_EmptySet, FS_AddElement
<1>4. IsFiniteSet((({} \cup {p}) \cup {q}) \cup {t})
  BY <1>3
<1>5. (({} \cup {p}) \cup {q}) \cup {t} = {p, q, t}
  OBVIOUS
<1>6. Cardinality({p, q, t}) \in Nat
  BY <1>4, <1>5, FS_CardinalityType
<1> QED
  BY <1>1, <1>2, <1>4, <1>5, <1>6, DaemonAssumption DEF Reader!Ids

\* The reader stands at the mark, and handlers run at most a batch ahead of it.
CursorInv == Reader!ReaderInv /\ Reader!WindowInv

LEMMA CursorInit == Daemon!Init => CursorInv
  BY SameInit, CursorAssumptions, Reader!ReaderInit, Reader!WindowInit DEF CursorInv

LEMMA CursorNext == CursorInv /\ [Daemon!Next]_(Daemon!vars) => CursorInv'
  BY SameNext, CursorAssumptions, Reader!ReaderStep, Reader!WindowStep DEF CursorInv

LEMMA CursorHolds == CursorInv => Daemon!OneBatchAgain
<1>1. CursorInv => Reader!OneBatchAgain
  BY CursorAssumptions, Reader!WindowBounds DEF CursorInv
<1>2. Reader!OneBatchAgain => Daemon!OneBatchAgain
  BY SameCount, SameMark DEF Reader!OneBatchAgain, Daemon!OneBatchAgain, Reader!MaxId, Daemon!MaxId
<1> QED
  BY <1>1, <1>2

------------------------------------------------------------------------------
(* The run *)

\* The gates of the run: AdmittedOnce, for every limit, every window and any
\* number of callers.
THEOREM GatesHold == Spec => []AdmittedOnce
<1> DEFINE Inv == focus = "admission" => AdmissionInv
<1>1. Init => Inv
  BY AdmissionInit DEF Init
<1>2. ASSUME Inv, [Next]_slots, focus = "admission" PROVE AdmissionInv'
  <2>1. AdmissionInv /\ [Admission!Next]_(Admission!vars)
    BY <1>2, FocusStays DEF Next, slots, Admission!vars
  <2> QED
    BY <2>1, AdmissionNext
<1>3. Inv /\ [Next]_slots => Inv'
  BY <1>2, FocusStays
<1>4. Inv => AdmittedOnce
  BY AdmissionHolds DEF AdmittedOnce
<1> QED
  BY <1>1, <1>3, <1>4, PTL DEF Spec

SomeBroken(crons, manual) == \E broken : BackupsInv(crons, manual, broken)

LEMMA SomeBrokenNext ==
  ASSUME NEW crons, NEW manual, Cast(crons, manual), SomeBroken(crons, manual),
         [Backups(crons, manual)!Next]_(Backups(crons, manual)!vars)
  PROVE  SomeBroken(crons, manual)'
  BY BackupsNext DEF SomeBroken

\* The two casts of the run: two processes with a cron, and one beside the tool.
LEMMA Casts == Cast({p, q}, {}) /\ Cast({p}, {r})
<1>1. IsFiniteSet({}) /\ Cardinality({}) = 0 /\ IsFiniteSet({r}) /\ Cardinality({r}) = 1
  BY FS_EmptySet, FS_Singleton
<1> QED
  BY <1>1, BackupsAssumption DEF Cast

\* The last copy is not thrown away: CopiesSurvive, of the backups for the two
\* casts of the run, of the audit trail and of the specification page.
THEOREM LastCopiesSurvive == Spec => []CopiesSurvive
<1> DEFINE Inv == /\ focus = "backups" => SomeBroken({p, q}, {})
                  /\ focus = "toolbackups" => SomeBroken({p}, {r})
                  /\ focus = "housekeeping" => TrailInv
                  /\ focus = "projects" => ProjectsInv
<1>1. Init => Inv
  BY BackupsInit, TrailInit, ProjectsInit DEF Init, SomeBroken
<1>2. ASSUME Inv, [Next]_slots, focus = "backups" PROVE SomeBroken({p, q}, {})'
  <2>1. SomeBroken({p, q}, {}) /\ [Backups({p, q}, {})!Next]_(Backups({p, q}, {})!vars)
    BY <1>2, FocusStays DEF Next, slots, Backups!vars
  <2> QED
    BY <2>1, Casts, SomeBrokenNext
<1>3. ASSUME Inv, [Next]_slots, focus = "toolbackups" PROVE SomeBroken({p}, {r})'
  <2>1. SomeBroken({p}, {r}) /\ [Backups({p}, {r})!Next]_(Backups({p}, {r})!vars)
    BY <1>3, FocusStays DEF Next, slots, Backups!vars
  <2> QED
    BY <2>1, Casts, SomeBrokenNext
<1>4. ASSUME Inv, [Next]_slots, focus = "housekeeping" PROVE TrailInv'
  <2>1. TrailInv /\ [Housekeeping!Next]_(Housekeeping!vars)
    BY <1>4, FocusStays DEF Next, slots, Housekeeping!vars
  <2> QED
    BY <2>1, TrailNext
<1>5. ASSUME Inv, [Next]_slots, focus = "projects" PROVE ProjectsInv'
  <2>1. ProjectsInv /\ [Projects!Next]_(Projects!vars)
    BY <1>5, FocusStays DEF Next, slots, Projects!vars
  <2> QED
    BY <2>1, ProjectsNext
<1>6. Inv /\ [Next]_slots => Inv'
  BY <1>2, <1>3, <1>4, <1>5, FocusStays
<1>7. Inv => CopiesSurvive
  BY BackupsHold, ProjectsHold DEF CopiesSurvive, SomeBroken, TrailInv
<1> QED
  BY <1>1, <1>6, <1>7, PTL DEF Spec

\* Records and what they are about: RecordsAgree, of the sessions' log and its
\* scores, the ledger and the timeline of facts, the projects, the ring of the
\* stash, the deliveries, the daemon's cursor, the keyring and the imports.
THEOREM RecordsHold == Spec => []RecordsAgree
<1> DEFINE Inv == /\ focus = "versions" => RestoreInv({p, q}) /\ LedgerInv({p, q}, {t})
                  /\ focus = "edits" => RestoreInv({p}) /\ LedgerInv({p}, {t, u})
                  /\ focus = "sessions" => SessionsInv
                  /\ focus = "projects" => ProjectsInv
                  /\ focus = "stash" => StashInv /\ LossInv
                  /\ focus = "deliveries" => DeliveriesInv
                  /\ focus = "daemon" => CursorInv
                  /\ focus = "secrets" => SecretsInv
                  /\ focus = "imports" => ImportsInv
<1>1. Init => Inv
  BY RestoreInit, LedgerInit, SessionsInit, ProjectsInit, StashInit, LossInit, DeliveriesInit, CursorInit, SecretsInit,
     ImportsInit DEF Init
<1>2. ASSUME Inv, [Next]_slots, focus = "versions" PROVE RestoreInv({p, q})' /\ LedgerInv({p, q}, {t})'
  <2>1. [Versions({p, q}, {t})!Next]_(Versions({p, q}, {t})!vars)
    BY <1>2, FocusStays DEF Next, slots, Versions!vars
  <2> QED
    BY <1>2, <2>1, RestoreNext, LedgerNext
<1>3. ASSUME Inv, [Next]_slots, focus = "edits" PROVE RestoreInv({p})' /\ LedgerInv({p}, {t, u})'
  <2>1. [Versions({p}, {t, u})!Next]_(Versions({p}, {t, u})!vars)
    BY <1>3, FocusStays DEF Next, slots, Versions!vars
  <2> QED
    BY <1>3, <2>1, RestoreNext, LedgerNext
<1>4. ASSUME Inv, [Next]_slots, focus = "sessions" PROVE SessionsInv'
  <2>1. [Sessions!Next]_(Sessions!vars)
    BY <1>4, FocusStays DEF Next, slots, Sessions!vars
  <2> QED
    BY <1>4, <2>1, SessionsNext
<1>5. ASSUME Inv, [Next]_slots, focus = "projects" PROVE ProjectsInv'
  <2>1. [Projects!Next]_(Projects!vars)
    BY <1>5, FocusStays DEF Next, slots, Projects!vars
  <2> QED
    BY <1>5, <2>1, ProjectsNext
<1>6. ASSUME Inv, [Next]_slots, focus = "stash" PROVE StashInv' /\ LossInv'
  <2>1. [Stash!Next]_(Stash!vars)
    BY <1>6, FocusStays DEF Next, slots, Stash!vars
  <2> QED
    BY <1>6, <2>1, StashNext, LossNext
<1>7. ASSUME Inv, [Next]_slots, focus = "deliveries" PROVE DeliveriesInv'
  <2>1. [Deliveries!Next]_(Deliveries!vars)
    BY <1>7, FocusStays DEF Next, slots, Deliveries!vars
  <2> QED
    BY <1>7, <2>1, DeliveriesNext
<1>8. ASSUME Inv, [Next]_slots, focus = "daemon" PROVE CursorInv'
  <2>1. [Daemon!Next]_(Daemon!vars)
    BY <1>8, FocusStays DEF Next, slots, Daemon!vars
  <2> QED
    BY <1>8, <2>1, CursorNext
<1>9. ASSUME Inv, [Next]_slots, focus = "secrets" PROVE SecretsInv'
  <2>1. [Secrets!Next]_(Secrets!vars)
    BY <1>9, FocusStays DEF Next, slots, Secrets!vars
  <2> QED
    BY <1>9, <2>1, SecretsNext
<1>10. ASSUME Inv, [Next]_slots, focus = "imports" PROVE ImportsInv'
  <2>1. [Imports!Next]_(Imports!vars)
    BY <1>10, FocusStays DEF Next, slots, Imports!vars
  <2> QED
    BY <1>10, <2>1, ImportsNext
<1>11. Inv /\ [Next]_slots => Inv'
  BY <1>2, <1>3, <1>4, <1>5, <1>6, <1>7, <1>8, <1>9, <1>10, FocusStays
<1>12. Inv => RecordsAgree
  BY SessionsHold, ProjectsHold, LossHolds, SilenceIsStored, CursorHolds, SecretsHold, ImportsHold DEF RecordsAgree, LedgerInv
<1> QED
  BY <1>1, <1>11, <1>12, PTL DEF Spec
==============================================================================
