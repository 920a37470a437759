--------------------------- MODULE Service_proofs ---------------------------
(* Proofs about the components of MCService, for every value of the          *)
(* constants they are given: the inductive invariant of each component, the  *)
(* lemmas it rests on, one per action, and at the end the properties of the  *)
(* run.                                                                      *)
EXTENDS MCService, SequenceTheorems, TLAPS

HandleRow == [dir : Dirs, state : {"open", "broken", "closed"}]
TaskRow == [pc : {"idle", "dropping", "lookup", "probing", "retiring", "opening", "configuring", "holding", "failed"},
            conn : Nat \cup {None}, target : Dirs \cup {None}]

ConnectionTypes ==
    /\ s1 \in [dir : Dirs, moves : Nat]
    /\ s2 \in [conn : Nat \cup {None}, path : Dirs \cup {None}]
    /\ s3 \in Seq(HandleRow)
    /\ s4 \in [Tasks -> TaskRow]

\* What is cached is what was opened under the path beside it.
CacheIsFiled == s2.conn # None => s2.conn \in DOMAIN s3 /\ s3[s2.conn].dir = s2.path

\* What a task is about to close or to file, of the given handles.
Fits(row, handles) ==
    /\ row.pc \in {"dropping", "retiring", "configuring", "probing"} => row.conn \in DOMAIN handles
    /\ row.pc = "dropping" => row.target # handles[row.conn].dir
    /\ row.pc = "retiring" => handles[row.conn].state # "open"
    /\ row.pc \in {"dropping", "lookup", "opening"} => row.target \in Dirs
    /\ row.pc = "configuring" => row.target = handles[row.conn].dir

TasksFit == \A task \in Tasks : Fits(s4[task], s3)

HandlesInv == ConnectionTypes /\ CacheIsFiled /\ TasksFit

\* Handles are added and get worse, and keep their directory.
Worse(handles) ==
    /\ handles \in Seq(HandleRow)
    /\ \A h \in DOMAIN s3 : /\ h \in DOMAIN handles
                            /\ handles[h].dir = s3[h].dir
                            /\ s3[h].state # "open" => handles[h].state # "open"

LEMMA ConnectionsInit == Connections!Init => HandlesInv
<1> SUFFICES ASSUME Connections!Init PROVE HandlesInv
  OBVIOUS
<1>1. s1 \in [dir : Dirs, moves : Nat]
  BY ConnectionsAssumption DEF Connections!Init
<1>2. s4 \in [Tasks -> TaskRow]
  BY DEF Connections!Init, TaskRow
<1> QED
  BY <1>1, <1>2 DEF Connections!Init, HandlesInv, ConnectionTypes, CacheIsFiled, TasksFit, Fits

LEMMA SameIsWorse == HandlesInv /\ UNCHANGED s3 => Worse(s3')
  BY DEF HandlesInv, ConnectionTypes, Worse

\* What fits the handles fits them when they have got worse.
LEMMA FitsStays == ASSUME NEW row \in TaskRow, Fits(row, s3), Worse(s3') PROVE Fits(row, s3')
  BY DEF Fits, Worse

\* A step of one task, or of none, with the cache as it was or as it may be.
LEMMA TaskMoves ==
  ASSUME HandlesInv, NEW task \in Tasks, NEW row \in TaskRow,
         s4' = [s4 EXCEPT ![task] = row], Worse(s3'), Fits(row, s3')
  PROVE  s4' \in [Tasks -> TaskRow] /\ TasksFit'
<1>1. s4 \in [Tasks -> TaskRow] /\ TasksFit
  BY DEF HandlesInv, ConnectionTypes
<1>2. s4' \in [Tasks -> TaskRow] /\ s4'[task] = row /\ \A other \in Tasks \ {task} : s4'[other] = s4[other]
  BY <1>1
<1>3. \A other \in Tasks \ {task} : Fits(s4[other], s3')
  BY <1>1, FitsStays DEF TasksFit
<1> QED
  BY <1>2, <1>3 DEF TasksFit

LEMMA CacheStays == ASSUME HandlesInv, Worse(s3'), UNCHANGED s2 PROVE CacheIsFiled'
  BY DEF HandlesInv, CacheIsFiled, Worse

LEMMA TasksStay == ASSUME HandlesInv, Worse(s3'), UNCHANGED s4 PROVE s4' \in [Tasks -> TaskRow] /\ TasksFit'
  BY FitsStays DEF HandlesInv, ConnectionTypes, TasksFit

\* The lookup sends a task to probe what is cached, or to open what is not.
LEMMA LookupIsSafe ==
  ASSUME HandlesInv, NEW task \in Tasks, NEW conn \in {s2.conn, None}, Connections!Lookup(task, conn), UNCHANGED s3
  PROVE  s4' \in [Tasks -> TaskRow] /\ TasksFit'
<1>1. ConnectionTypes /\ CacheIsFiled
  BY DEF HandlesInv
<1>2. s1.dir \in Dirs
  BY <1>1 DEF ConnectionTypes
<1> DEFINE row == IF conn # None THEN [pc |-> "probing", conn |-> conn, target |-> s1.dir]
                  ELSE [pc |-> "opening", conn |-> None, target |-> s1.dir]
<1>3. s4' = [s4 EXCEPT ![task] = row]
  BY DEF Connections!Lookup, Connections!Goto
<1>4. conn # None => conn \in DOMAIN s3 /\ conn \in Nat
  BY <1>1 DEF CacheIsFiled, ConnectionTypes
<1>5. row \in TaskRow /\ Fits(row, s3)
  BY <1>2, <1>4 DEF TaskRow, Fits
<1>6. Worse(s3') /\ Fits(row, s3')
  BY <1>5, SameIsWorse
<1> HIDE DEF row
<1> QED
  BY <1>3, <1>5, <1>6, TaskMoves

LEMMA GetIsSafe == ASSUME HandlesInv, NEW task \in Tasks, Connections!Get(task) PROVE HandlesInv'
<1>1. ConnectionTypes /\ CacheIsFiled /\ UNCHANGED <<s1, s3>> /\ Worse(s3')
  BY SameIsWorse DEF HandlesInv, Connections!Get
<1>2. CASE s2.path \notin {None, s1.dir} /\ s2.conn # None
  <2> DEFINE row == [pc |-> "dropping", conn |-> s2.conn, target |-> s1.dir]
  <2>1. s4' = [s4 EXCEPT ![task] = row] /\ s2' = [conn |-> None, path |-> None]
    BY <1>2 DEF Connections!Get, Connections!Goto
  <2>2. row \in TaskRow /\ Fits(row, s3)
    BY <1>1, <1>2 DEF TaskRow, Fits, ConnectionTypes, CacheIsFiled
  <2> HIDE DEF row
  <2>3. s4' \in [Tasks -> TaskRow] /\ TasksFit'
    BY <1>1, <2>1, <2>2, TaskMoves
  <2> QED
    BY <1>1, <2>1, <2>3 DEF HandlesInv, ConnectionTypes, CacheIsFiled
<1>3. CASE s2.path \notin {None, s1.dir} /\ s2.conn = None
  <2>1. Connections!Lookup(task, None) /\ s2' = [conn |-> None, path |-> None]
    BY <1>3 DEF Connections!Get
  <2>2. s4' \in [Tasks -> TaskRow] /\ TasksFit'
    BY <1>1, <2>1, LookupIsSafe
  <2> QED
    BY <1>1, <2>1, <2>2 DEF HandlesInv, ConnectionTypes, CacheIsFiled
<1>4. CASE s2.path \in {None, s1.dir}
  <2>1. Connections!Lookup(task, s2.conn) /\ s2' = s2
    BY <1>4 DEF Connections!Get
  <2>2. s4' \in [Tasks -> TaskRow] /\ TasksFit'
    BY <1>1, <2>1, LookupIsSafe
  <2> QED
    BY <1>1, <2>1, <2>2 DEF HandlesInv, ConnectionTypes, CacheIsFiled
<1> QED
  BY <1>2, <1>3, <1>4

\* Closing a handle makes it worse.
LEMMA ClosedIsWorse ==
  ASSUME HandlesInv, NEW h, s3' = [s3 EXCEPT ![h].state = "closed"] \/ s3' = [s3 EXCEPT ![h].state = "broken"]
  PROVE  Worse(s3')
<1>1. s3 \in Seq(HandleRow) /\ s3 \in [1..Len(s3) -> HandleRow] /\ Len(s3) \in Nat
  BY DEF HandlesInv, ConnectionTypes
<1>2. PICK state \in {"closed", "broken"} : s3' = [s3 EXCEPT ![h].state = state]
  OBVIOUS
<1>3. CASE h \notin DOMAIN s3
  BY <1>1, <1>2, <1>3 DEF Worse
<1>4. CASE h \in DOMAIN s3
  <2>1. [s3[h] EXCEPT !.state = state] \in HandleRow
    BY <1>1, <1>4 DEF HandleRow
  <2>2. s3' \in [1..Len(s3) -> HandleRow]
    BY <1>1, <1>2, <1>4, <2>1
  <2>3. s3' \in Seq(HandleRow) /\ DOMAIN s3' = DOMAIN s3
    BY <1>1, <2>2
  <2>4. s3'[h].dir = s3[h].dir /\ s3'[h].state # "open" /\ \A g \in DOMAIN s3 \ {h} : s3'[g] = s3[g]
    BY <1>1, <1>2, <1>4 DEF HandleRow
  <2> QED
    BY <2>3, <2>4 DEF Worse
<1> QED
  BY <1>3, <1>4

LEMMA BreakIsSafe == ASSUME HandlesInv, NEW h, Connections!Break(h) PROVE HandlesInv'
<1>1. UNCHANGED <<s1, s2, s4>> /\ Worse(s3')
  BY ClosedIsWorse DEF Connections!Break
<1>2. s3' \in Seq(HandleRow)
  BY <1>1 DEF Worse
<1> QED
  BY <1>1, <1>2, CacheStays, TasksStay DEF HandlesInv, ConnectionTypes

LEMMA RepointIsSafe == HandlesInv /\ Connections!Repoint => HandlesInv'
<1> SUFFICES ASSUME HandlesInv, Connections!Repoint PROVE HandlesInv'
  OBVIOUS
<1>1. UNCHANGED <<s2, s3, s4>> /\ Worse(s3') /\ s1' \in [dir : Dirs, moves : Nat]
  BY SameIsWorse DEF HandlesInv, ConnectionTypes, Connections!Repoint
<1> QED
  BY <1>1, CacheStays, TasksStay DEF HandlesInv, ConnectionTypes

CacheRow == [conn : Nat \cup {None}, path : Dirs \cup {None}]

\* A step of a coroutine: what its task becomes fits the handles.
Moves(task, row) ==
    /\ UNCHANGED s1
    /\ s4' = [s4 EXCEPT ![task] = row]
    /\ row \in TaskRow /\ Fits(row, s3')
    /\ Worse(s3')
    /\ s2' \in CacheRow /\ CacheIsFiled'

LEMMA MovesAreSafe == ASSUME HandlesInv, NEW task \in Tasks, NEW row, Moves(task, row) PROVE HandlesInv'
<1>1. s4' \in [Tasks -> TaskRow] /\ TasksFit'
  BY TaskMoves DEF Moves
<1> QED
  BY <1>1 DEF Moves, HandlesInv, ConnectionTypes, Worse, CacheRow

LEMMA TaskFacts ==
  ASSUME HandlesInv, NEW task \in Tasks
  PROVE  /\ s4[task].conn \in Nat \cup {None} /\ s4[task].target \in Dirs \cup {None} /\ Fits(s4[task], s3)
         /\ s1.dir \in Dirs /\ s2 \in CacheRow /\ s3 \in Seq(HandleRow)
         /\ CacheIsFiled
<1>1. s4[task] \in TaskRow
  BY DEF HandlesInv, ConnectionTypes
<1> QED
  BY <1>1 DEF HandlesInv, ConnectionTypes, TaskRow, TasksFit, CacheRow

LEMMA DroppedMoves ==
  ASSUME HandlesInv, NEW task \in Tasks, Connections!Dropped(task) PROVE \E row : Moves(task, row)
<1> DEFINE row == [pc |-> "lookup", conn |-> None, target |-> s4[task].target]
<1>1. s4' = [s4 EXCEPT ![task] = row] /\ UNCHANGED <<s1, s2>> /\ Worse(s3') /\ s4[task].pc = "dropping"
  BY ClosedIsWorse DEF Connections!Dropped, Connections!Goto
<1>2. row \in TaskRow /\ Fits(row, s3')
  BY <1>1, TaskFacts DEF TaskRow, Fits
<1> HIDE DEF row
<1> QED
  BY <1>1, <1>2, TaskFacts, CacheStays DEF Moves

LEMMA ResumeMoves ==
  ASSUME HandlesInv, NEW task \in Tasks, Connections!Resume(task) PROVE HandlesInv'
<1>1. Connections!Lookup(task, s2.conn) /\ UNCHANGED <<s1, s2, s3>>
  BY DEF Connections!Resume
<1>2. s4' \in [Tasks -> TaskRow] /\ TasksFit' /\ Worse(s3')
  BY <1>1, LookupIsSafe, SameIsWorse
<1>3. CacheIsFiled'
  BY <1>1, <1>2, CacheStays
<1> QED
  BY <1>1, <1>2, <1>3 DEF HandlesInv, ConnectionTypes

LEMMA ProbedMoves ==
  ASSUME HandlesInv, NEW task \in Tasks, Connections!Probed(task) PROVE \E row : Moves(task, row)
<1> DEFINE row == [pc |-> "holding", conn |-> s4[task].conn, target |-> s4[task].target]
<1>1. s4' = [s4 EXCEPT ![task] = row] /\ UNCHANGED <<s1, s2, s3>> /\ Worse(s3')
  BY SameIsWorse DEF Connections!Probed, Connections!Goto
<1>2. row \in TaskRow /\ Fits(row, s3')
  BY TaskFacts DEF TaskRow, Fits
<1> HIDE DEF row
<1> QED
  BY <1>1, <1>2, TaskFacts, CacheStays DEF Moves

LEMMA ProbeFailsMoves ==
  ASSUME HandlesInv, NEW task \in Tasks, Connections!ProbeFails(task) PROVE \E row : Moves(task, row)
<1> DEFINE row == IF Connections!IsMine(s4[task].conn)
                  THEN [pc |-> "retiring", conn |-> s2.conn, target |-> s4[task].target]
                  ELSE [pc |-> "opening", conn |-> None, target |-> s1.dir]
<1>1. /\ s4' = [s4 EXCEPT ![task] = row] /\ UNCHANGED <<s1, s3>> /\ Worse(s3')
      /\ s4[task].pc = "probing" /\ s3[s4[task].conn].state # "open"
  BY SameIsWorse DEF Connections!ProbeFails, Connections!Goto
<1>2. s2' = [s2 EXCEPT !.conn = None] \/ s2' = s2
  BY DEF Connections!ProbeFails
<1>3. s2' \in CacheRow /\ CacheIsFiled'
  <2>1. CASE s2' = s2
    BY <1>1, <2>1, TaskFacts, CacheStays
  <2>2. CASE s2' = [s2 EXCEPT !.conn = None]
    BY <2>2, TaskFacts DEF CacheRow, CacheIsFiled
  <2> QED
    BY <1>2, <2>1, <2>2
<1>4. s4[task].conn \in DOMAIN s3
  BY <1>1, TaskFacts DEF Fits
<1>5. row \in TaskRow /\ Fits(row, s3')
  BY <1>1, <1>4, TaskFacts DEF TaskRow, Fits, CacheRow, Connections!IsMine
<1> HIDE DEF row
<1> QED
  BY <1>1, <1>3, <1>5 DEF Moves

LEMMA RetiredMoves ==
  ASSUME HandlesInv, NEW task \in Tasks, Connections!Retired(task) PROVE \E row : Moves(task, row)
<1> DEFINE row == [pc |-> "opening", conn |-> None, target |-> s1.dir]
<1>1. s4' = [s4 EXCEPT ![task] = row] /\ UNCHANGED <<s1, s2>> /\ Worse(s3')
  BY ClosedIsWorse DEF Connections!Retired, Connections!Goto
<1>2. row \in TaskRow /\ Fits(row, s3')
  BY <1>1, TaskFacts DEF TaskRow, Fits
<1> HIDE DEF row
<1> QED
  BY <1>1, <1>2, TaskFacts, CacheStays DEF Moves

LEMMA ConnectMoves ==
  ASSUME HandlesInv, NEW task \in Tasks, Connections!Connect(task) PROVE \E row : Moves(task, row)
<1> DEFINE row == [pc |-> "configuring", conn |-> Len(s3) + 1, target |-> s4[task].target]
           handle == [dir |-> s4[task].target, state |-> "open"]
<1>1. /\ s4' = [s4 EXCEPT ![task] = row] /\ UNCHANGED <<s1, s2>> /\ s3' = Append(s3, handle)
      /\ s4[task].pc = "opening"
  BY DEF Connections!Connect, Connections!Goto
<1>2. s4[task].target \in Dirs /\ s3 \in Seq(HandleRow)
  BY <1>1, TaskFacts DEF Fits
<1>3. handle \in HandleRow
  BY <1>2 DEF HandleRow
<1>4. s3' \in Seq(HandleRow) /\ Len(s3') = Len(s3) + 1 /\ s3'[Len(s3) + 1] = handle /\ \A h \in 1..Len(s3) : s3'[h] = s3[h]
  BY <1>1, <1>2, <1>3
<1>5. Worse(s3')
  BY <1>2, <1>4 DEF Worse
<1>6. row \in TaskRow /\ Fits(row, s3')
  BY <1>2, <1>4 DEF TaskRow, Fits
<1> HIDE DEF row, handle
<1> QED
  BY <1>1, <1>5, <1>6, TaskFacts, CacheStays DEF Moves

LEMMA ConnectFailsMoves ==
  ASSUME HandlesInv, NEW task \in Tasks, Connections!ConnectFails(task) \/ Connections!Done(task) PROVE \E row : Moves(task, row)
<1> PICK pc \in {"failed", "idle"} : s4' = [s4 EXCEPT ![task] = [pc |-> pc, conn |-> None, target |-> None]]
  BY DEF Connections!ConnectFails, Connections!Done, Connections!Goto
<1> DEFINE row == [pc |-> pc, conn |-> None, target |-> None]
<1>1. UNCHANGED <<s1, s2, s3>> /\ Worse(s3')
  BY SameIsWorse DEF Connections!ConnectFails, Connections!Done
<1>2. row \in TaskRow /\ Fits(row, s3')
  BY DEF TaskRow, Fits
<1>3. s4' = [s4 EXCEPT ![task] = row]
  OBVIOUS
<1> HIDE DEF row
<1> QED
  BY <1>1, <1>2, <1>3, TaskFacts, CacheStays DEF Moves

LEMMA InstallMoves ==
  ASSUME HandlesInv, NEW task \in Tasks, Connections!Install(task) PROVE \E row : Moves(task, row)
<1> DEFINE row == [pc |-> "holding", conn |-> s4[task].conn, target |-> s4[task].target]
<1>1. /\ s4' = [s4 EXCEPT ![task] = row] /\ UNCHANGED <<s1, s3>> /\ Worse(s3')
      /\ s2' = [conn |-> s4[task].conn, path |-> s4[task].target] /\ s4[task].pc = "configuring"
  BY SameIsWorse DEF Connections!Install, Connections!Goto
<1>2. row \in TaskRow /\ Fits(row, s3')
  BY TaskFacts DEF TaskRow, Fits
<1>3. s2' \in CacheRow /\ CacheIsFiled'
  BY <1>1, TaskFacts DEF Fits, CacheRow, CacheIsFiled
<1> HIDE DEF row
<1> QED
  BY <1>1, <1>2, <1>3 DEF Moves

LEMMA CoroutineIsSafe == ASSUME HandlesInv, NEW task \in Tasks, Connections!Coroutine(task) PROVE HandlesInv'
<1>1. CASE Connections!Resume(task)
  BY <1>1, ResumeMoves
<1>2. CASE \E row : Moves(task, row)
  BY <1>2, MovesAreSafe
<1> QED
  BY <1>1, <1>2, DroppedMoves, ProbedMoves, ProbeFailsMoves, RetiredMoves, ConnectMoves, ConnectFailsMoves, InstallMoves
     DEF Connections!Coroutine

LEMMA CloseAllIsSafe == HandlesInv /\ Connections!CloseAll => HandlesInv'
<1> SUFFICES ASSUME HandlesInv, Connections!CloseAll PROVE HandlesInv'
  OBVIOUS
<1>1. UNCHANGED <<s1, s4>> /\ s2' = [conn |-> None, path |-> None]
  BY DEF Connections!CloseAll
<1>2. Worse(s3')
  BY ClosedIsWorse, SameIsWorse DEF Connections!CloseAll
<1>3. s4' \in [Tasks -> TaskRow] /\ TasksFit'
  BY <1>1, <1>2, TasksStay
<1> QED
  BY <1>1, <1>2, <1>3 DEF HandlesInv, ConnectionTypes, CacheIsFiled, Worse

LEMMA ConnectionsNext == HandlesInv /\ [Connections!Next]_(Connections!vars) => HandlesInv'
<1> SUFFICES ASSUME HandlesInv, [Connections!Next]_(Connections!vars) PROVE HandlesInv'
  OBVIOUS
<1>1. CASE \E task \in Tasks : Connections!Get(task) \/ Connections!Coroutine(task)
  BY <1>1, GetIsSafe, CoroutineIsSafe
<1>2. CASE \E h : Connections!Break(h)
  BY <1>2, BreakIsSafe
<1>3. CASE Connections!Repoint
  BY <1>3, RepointIsSafe
<1>4. CASE Connections!CloseAll
  BY <1>4, CloseAllIsSafe
<1>5. CASE UNCHANGED <<s1, s2, s3, s4>>
  BY <1>5 DEF HandlesInv, ConnectionTypes, CacheIsFiled, TasksFit, Fits
<1>6. CASE Connections!CommandReturns \/ Connections!CommandRaises \/ Connections!Exit \/ Connections!Guard
  BY <1>5, <1>6 DEF Connections!CommandReturns, Connections!CommandRaises, Connections!Exit, Connections!Guard
<1>7. CASE UNCHANGED Connections!vars
  BY <1>5, <1>7 DEF Connections!vars
<1> QED
  BY <1>1, <1>2, <1>3, <1>4, <1>6, <1>7 DEF Connections!Next

\* Only a broken or a strange handle is closed, and only by the task that has it.
LEMMA ClosesAreDue ==
  ASSUME HandlesInv, [Connections!Next]_(Connections!vars) PROVE Connections!HealthyHandlesSurvive
<1> SUFFICES ASSUME NEW h \in DOMAIN s3, s3[h].state = "open", s3'[h].state = "closed", s5.pc # "closing"
             PROVE  \E task \in Tasks : s4[task].pc = "dropping" /\ s4[task].conn = h /\ s4[task].target # s3[h].dir
  BY DEF Connections!HealthyHandlesSurvive
<1>1. s3 \in Seq(HandleRow) /\ h \in 1..Len(s3) /\ s3' # s3
  BY DEF HandlesInv, ConnectionTypes
<1>2. ~Connections!CloseAll
  BY DEF Connections!CloseAll
<1>3. ASSUME NEW g, Connections!Break(g) PROVE FALSE
  <2>1. s3' = [s3 EXCEPT ![g].state = "broken"]
    BY <1>3 DEF Connections!Break
  <2>2. s3'[h] = IF h = g THEN [s3[h] EXCEPT !.state = "broken"] ELSE s3[h]
    BY <1>1, <2>1
  <2> QED
    BY <1>1, <2>2 DEF HandleRow
<1>4. PICK task \in Tasks : Connections!Dropped(task) \/ Connections!Retired(task) \/ Connections!Connect(task)
  BY <1>1, <1>2, <1>3 DEF Connections!Next, Connections!vars, Connections!Get, Connections!Coroutine, Connections!Resume,
     Connections!Probed, Connections!ProbeFails, Connections!ConnectFails, Connections!Install, Connections!Done,
     Connections!Repoint, Connections!CommandReturns, Connections!CommandRaises, Connections!Exit, Connections!Guard
<1>5. Fits(s4[task], s3)
  BY DEF HandlesInv, TasksFit
<1>6. ASSUME s3' = [s3 EXCEPT ![s4[task].conn].state = "closed"] PROVE s4[task].conn = h
  BY <1>1, <1>6 DEF HandleRow
<1>7. CASE Connections!Dropped(task)
  <2>1. s4[task].pc = "dropping" /\ s4[task].conn = h
    BY <1>6, <1>7 DEF Connections!Dropped
  <2> QED
    BY <1>5, <2>1 DEF Fits
<1>8. CASE Connections!Retired(task)
  <2>1. s4[task].pc = "retiring" /\ s4[task].conn = h
    BY <1>6, <1>8 DEF Connections!Retired
  <2> QED
    BY <1>5, <2>1 DEF Fits
<1>9. CASE Connections!Connect(task)
  <2>1. PICK handle : s3' = Append(s3, handle)
    BY <1>9 DEF Connections!Connect
  <2>2. s3'[h] = s3[h]
    BY <1>1, <2>1
  <2> QED
    BY <2>2
<1> QED
  BY <1>4, <1>7, <1>8, <1>9

\* Of every step: a getter closes only what is of no use to the others
\* (get() and the same_entry test in shared/connection.py), for every number of
\* coroutines, directories and connections.
THEOREM HandlesAreSafe == Connections!Spec => [][Connections!HealthyHandlesSurvive]_(Connections!vars)
<1>1. HandlesInv /\ [Connections!Next]_(Connections!vars) => [Connections!HealthyHandlesSurvive]_(Connections!vars)
  BY ClosesAreDue
<1> QED
  BY <1>1, ConnectionsInit, ConnectionsNext, PTL DEF Connections!Spec

------------------------------------------------------------------------------
(* Deliveries *)

Block == [text : Sayings, ts : Nat, source : Msgs \cup {None}]
Delivered == [pc : {"none", "look", "capture", "claim", "recent", "refuse"} \cup Deliveries!Outcomes, ts : Nat, prior : Nat]

DeliveryTypes ==
    /\ s1 \in Nat
    /\ s2 \in [Msgs -> [text : Sayings, at : Nat] \cup {None}]
    /\ s3 \in Seq(Block)
    /\ s4 \in [Deliveries!Ways -> Delivered]

\* What a delivery goes by, of the given journal and the given message.
Holds(row, journal, msg) ==
    /\ row.pc # "none" => msg # None
    /\ row.pc \in {"claim", "recent", "passed", "claimed"} =>
          row.prior \in DOMAIN journal /\ journal[row.prior].text = msg.text
    /\ row.pc \in {"passed", "claimed"} => Deliveries!Apart(journal[row.prior].ts, row.ts) <= Lag

DeliveriesHold == \A d \in Deliveries!Ways : Holds(s4[d], s3, s2[d[1]])

DeliveriesInv == DeliveryTypes /\ DeliveriesHold

\* Rows are added and keep text and hour, and the source once they have one.
Grows(journal) ==
    /\ journal \in Seq(Block)
    /\ \A i \in DOMAIN s3 : /\ i \in DOMAIN journal
                            /\ journal[i].text = s3[i].text /\ journal[i].ts = s3[i].ts
                            /\ s3[i].source # None => journal[i].source = s3[i].source

LEMMA DeliveriesInit == Deliveries!Init => DeliveriesInv
<1> SUFFICES ASSUME Deliveries!Init PROVE DeliveriesInv
  OBVIOUS
<1>1. s4 \in [Deliveries!Ways -> Delivered]
  BY DEF Deliveries!Init, Deliveries!NoDelivery, Delivered
<1> QED
  BY <1>1 DEF Deliveries!Init, Deliveries!NoDelivery, DeliveriesInv, DeliveryTypes, DeliveriesHold, Holds

LEMMA DeliveryFacts ==
  ASSUME DeliveriesInv, NEW d \in Deliveries!Ways
  PROVE  /\ d[1] \in Msgs /\ s1 \in Nat /\ s3 \in Seq(Block)
         /\ s2[d[1]] # None => s2[d[1]].text \in Sayings /\ s2[d[1]].at \in Nat
         /\ s4[d] \in Delivered /\ s4[d].ts \in Nat /\ s4[d].prior \in Nat
         /\ Holds(s4[d], s3, s2[d[1]])
<1>1. d[1] \in Msgs
  BY DEF Deliveries!Ways
<1>2. s2[d[1]] \in [text : Sayings, at : Nat] \cup {None} /\ s4[d] \in Delivered
  BY <1>1 DEF DeliveriesInv, DeliveryTypes
<1> QED
  BY <1>1, <1>2 DEF DeliveriesInv, DeliveryTypes, DeliveriesHold, Delivered

LEMMA SameGrows == DeliveriesInv /\ UNCHANGED s3 => Grows(s3')
  BY DEF DeliveriesInv, DeliveryTypes, Grows

\* The window of a claim is one side of the window of a recent capture.
LEMMA WindowIsNear ==
  ASSUME NEW a \in Nat, NEW b \in Nat, a >= b, a <= b + Lag PROVE Deliveries!Apart(a, b) <= Lag
  BY LagAssumption DEF Deliveries!Apart

LEMMA HoldsStays ==
  ASSUME NEW row, NEW msg, Holds(row, s3, msg), Grows(s3') PROVE Holds(row, s3', msg)
  BY DEF Holds, Grows

\* A step of one delivery.
LEMMA DeliveryMoves ==
  ASSUME DeliveriesInv, NEW d \in Deliveries!Ways, NEW row \in Delivered, UNCHANGED <<s1, s2>>,
         s4' = [s4 EXCEPT ![d] = row], Grows(s3'), Holds(row, s3', s2[d[1]])
  PROVE  DeliveriesInv'
<1>1. s4' \in [Deliveries!Ways -> Delivered] /\ s4'[d] = row /\ \A e \in Deliveries!Ways \ {d} : s4'[e] = s4[e]
  BY DEF DeliveriesInv, DeliveryTypes
<1>2. ASSUME NEW e \in Deliveries!Ways PROVE Holds(s4'[e], s3', s2[e[1]])
  BY <1>1, HoldsStays, DeliveryFacts
<1> QED
  BY <1>1, <1>2 DEF DeliveriesInv, DeliveryTypes, DeliveriesHold, Grows

LEMMA SayIsSafe ==
  ASSUME DeliveriesInv, NEW m \in Msgs, NEW text \in Sayings, Deliveries!Say(m, text) PROVE DeliveriesInv' /\ Grows(s3')
<1>1. /\ s2[m] = None /\ s2' = [s2 EXCEPT ![m] = [text |-> text, at |-> s1]] /\ UNCHANGED <<s1, s3, s4>>
  BY DEF Deliveries!Say
<1>2. s2' \in [Msgs -> [text : Sayings, at : Nat] \cup {None}]
  BY <1>1 DEF DeliveriesInv, DeliveryTypes
<1>3. ASSUME NEW e \in Deliveries!Ways PROVE Holds(s4[e], s3, s2'[e[1]])
  <2>1. CASE e[1] = m
    BY <1>1, <2>1, DeliveryFacts DEF Holds
  <2>2. CASE e[1] # m
    BY <1>1, <2>2, DeliveryFacts DEF DeliveriesInv, DeliveryTypes
  <2> QED
    BY <2>1, <2>2
<1> QED
  BY <1>1, <1>2, <1>3, SameGrows DEF DeliveriesInv, DeliveryTypes, DeliveriesHold

LEMMA ArriveIsSafe ==
  ASSUME DeliveriesInv, NEW d \in Deliveries!Ways, Deliveries!Arrive(d) PROVE DeliveriesInv' /\ Grows(s3')
<1> DEFINE row == [pc |-> IF Deliveries!TextOf(d) \in Foreign THEN "refuse" ELSE "look",
                   ts |-> IF d[2] = "plugin" THEN s1 ELSE s2[d[1]].at, prior |-> 0]
<1>1. s2[d[1]] # None /\ s4' = [s4 EXCEPT ![d] = row] /\ UNCHANGED <<s1, s2, s3>> /\ Grows(s3')
  BY SameGrows DEF Deliveries!Arrive
<1>2. row \in Delivered
  BY <1>1, DeliveryFacts DEF Delivered
<1>3. Holds(row, s3', s2[d[1]])
  BY <1>1 DEF Holds
<1> HIDE DEF row
<1> QED
  BY <1>1, <1>2, <1>3, DeliveryMoves

LEMMA FindBlockIsSafe ==
  ASSUME DeliveriesInv, NEW d \in Deliveries!Ways, Deliveries!FindBlock(d) PROVE DeliveriesInv' /\ Grows(s3')
<1>1. s4[d].pc = "look" /\ UNCHANGED <<s1, s2, s3>> /\ Grows(s3')
  BY SameGrows DEF Deliveries!FindBlock, Deliveries!At
<1>2. s2[d[1]] # None
  BY <1>1, DeliveryFacts DEF Holds
<1>3. CASE s4' = [s4 EXCEPT ![d].pc = "capture"]
  <2> DEFINE row == [s4[d] EXCEPT !.pc = "capture"]
  <2>1. s4' = [s4 EXCEPT ![d] = row]
    BY <1>3
  <2>2. row \in Delivered
    BY DeliveryFacts DEF Delivered
  <2>3. Holds(row, s3', s2[d[1]])
    BY <1>2, DeliveryFacts DEF Holds, Delivered
  <2> HIDE DEF row
  <2> QED
    BY <1>1, <2>1, <2>2, <2>3, DeliveryMoves
<1>4. CASE \E i \in Deliveries!Holding(Deliveries!TextOf(d)) :
              s4' = [s4 EXCEPT ![d].prior = i, ![d].pc = IF d[2] = "daemon" THEN "claim" ELSE "recent"]
  <2>1. PICK i \in Deliveries!Holding(Deliveries!TextOf(d)) :
              s4' = [s4 EXCEPT ![d].prior = i, ![d].pc = IF d[2] = "daemon" THEN "claim" ELSE "recent"]
    BY <1>4
  <2>2. i \in DOMAIN s3 /\ s3[i].text = s2[d[1]].text /\ i \in Nat
    BY <2>1, DeliveryFacts DEF Deliveries!Holding, Deliveries!TextOf
  <2> DEFINE row == [s4[d] EXCEPT !.prior = i, !.pc = IF d[2] = "daemon" THEN "claim" ELSE "recent"]
  <2>3. s4' = [s4 EXCEPT ![d] = row]
    BY <2>1
  <2>4. row \in Delivered
    BY <2>2, DeliveryFacts DEF Delivered
  <2>5. Holds(row, s3', s2[d[1]])
    BY <1>1, <1>2, <2>2, DeliveryFacts DEF Holds, Delivered
  <2> HIDE DEF row
  <2> QED
    BY <1>1, <2>3, <2>4, <2>5, DeliveryMoves
<1> QED
  BY <1>3, <1>4 DEF Deliveries!FindBlock, Deliveries!Goto

\* A delivery that comes to its end, or to its next step, with what it knows.
LEMMA EndHolds ==
  ASSUME DeliveriesInv, NEW d \in Deliveries!Ways, s2[d[1]] # None, Grows(s3'), UNCHANGED <<s1, s2>>,
         NEW pc \in {"stored", "recorded", "unrecorded"}, Deliveries!End(d, pc)
  PROVE  DeliveriesInv'
<1> DEFINE row == [Deliveries!NoDelivery EXCEPT !.pc = pc]
<1>1. s4' = [s4 EXCEPT ![d] = row]
  BY DEF Deliveries!End
<1>2. row \in Delivered /\ Holds(row, s3', s2[d[1]])
  BY DEF Delivered, Holds, Deliveries!NoDelivery, Deliveries!Outcomes
<1> HIDE DEF row
<1> QED
  BY <1>1, <1>2, DeliveryMoves

LEMMA GotoHolds ==
  ASSUME DeliveriesInv, NEW d \in Deliveries!Ways, s4[d].pc \in {"claim", "recent"}, Grows(s3'), UNCHANGED <<s1, s2>>,
         NEW pc \in {"claimed", "passed", "recent", "refuse"}, Deliveries!Goto(d, pc),
         pc \in {"claimed", "passed"} => Deliveries!Apart(s3[s4[d].prior].ts, s4[d].ts) <= Lag
  PROVE  DeliveriesInv'
<1> DEFINE row == [s4[d] EXCEPT !.pc = pc]
<1>1. s4' = [s4 EXCEPT ![d] = row]
  BY DEF Deliveries!Goto
<1>2. row \in Delivered
  BY DeliveryFacts DEF Delivered, Deliveries!Outcomes
<1>3. row.pc = pc /\ row.ts = s4[d].ts /\ row.prior = s4[d].prior
  BY DeliveryFacts DEF Delivered
<1> HIDE DEF row
<1>4. Holds(row, s3, s2[d[1]])
  BY <1>3, DeliveryFacts DEF Holds
<1>5. Holds(row, s3', s2[d[1]])
  BY <1>4, HoldsStays
<1> QED
  BY <1>1, <1>2, <1>5, DeliveryMoves

LEMMA CaptureIsSafe ==
  ASSUME DeliveriesInv, NEW d \in Deliveries!Ways, Deliveries!Capture(d) PROVE DeliveriesInv' /\ Grows(s3')
<1>1. s4[d].pc = "capture" /\ UNCHANGED <<s1, s2>> /\ Deliveries!End(d, "stored")
  BY DEF Deliveries!Capture, Deliveries!At
<1>2. s2[d[1]] # None
  BY <1>1, DeliveryFacts DEF Holds
<1> DEFINE block == [text |-> Deliveries!TextOf(d), ts |-> s4[d].ts, source |-> Deliveries!SourceOf(d)]
<1>3. CASE s3' = Append(s3, block)
  <2>1. block \in Block
    BY <1>2, DeliveryFacts DEF Block, Deliveries!TextOf, Deliveries!SourceOf
  <2> HIDE DEF block
  <2>2. s3 \in Seq(Block)
    BY DeliveryFacts
  <2>3. s3' \in Seq(Block) /\ Len(s3') = Len(s3) + 1 /\ \A i \in 1..Len(s3) : s3'[i] = s3[i]
    BY <1>3, <2>1, <2>2
  <2> QED
    BY <2>2, <2>3, <1>1, <1>2, EndHolds DEF Grows
<1>4. CASE UNCHANGED s3
  BY <1>1, <1>2, <1>4, SameGrows, EndHolds
<1> QED
  BY <1>3, <1>4 DEF Deliveries!Capture

\* The claim writes the one name the row may have.
LEMMA ClaimGrows ==
  ASSUME DeliveriesInv, NEW d \in Deliveries!Ways, NEW i \in DOMAIN s3, s3[i].source \in {None, d[1]},
         s3' = [s3 EXCEPT ![i].source = d[1]]
  PROVE  Grows(s3')
<1>1. s3 \in Seq(Block) /\ s3 \in [1..Len(s3) -> Block] /\ Len(s3) \in Nat /\ d[1] \in Msgs
  BY DeliveryFacts
<1> DEFINE block == [s3[i] EXCEPT !.source = d[1]]
<1>2. block \in Block /\ block.text = s3[i].text /\ block.ts = s3[i].ts /\ block.source = d[1]
  BY <1>1 DEF Block
<1>3. s3' = [s3 EXCEPT ![i] = block]
  OBVIOUS
<1> HIDE DEF block
<1>4. s3' \in [1..Len(s3) -> Block]
  BY <1>1, <1>2, <1>3
<1>5. s3' \in Seq(Block) /\ DOMAIN s3' = DOMAIN s3
  BY <1>1, <1>4
<1>6. s3'[i] = block /\ \A j \in DOMAIN s3 \ {i} : s3'[j] = s3[j]
  BY <1>1, <1>3
<1> QED
  BY <1>2, <1>5, <1>6 DEF Grows

LEMMA ClaimIsSafe ==
  ASSUME DeliveriesInv, NEW d \in Deliveries!Ways, Deliveries!Claim(d) PROVE DeliveriesInv' /\ Grows(s3')
<1> DEFINE i == s4[d].prior
<1>1. s4[d].pc = "claim" /\ UNCHANGED <<s1, s2>> /\ i \in DOMAIN s3
  BY DeliveryFacts DEF Deliveries!Claim, Deliveries!At, Holds
<1>2. CASE /\ Deliveries!MayClaim(s3[i], d)
           /\ s3' = [s3 EXCEPT ![i].source = d[1]]
           /\ Deliveries!Goto(d, "claimed")
  <2>1. s3[i].source \in {None, d[1]} /\ Grows(s3')
    BY <1>1, <1>2, ClaimGrows DEF Deliveries!MayClaim
  <2>2. s3[i] \in Block /\ s4[d].ts \in Nat
    BY <1>1, DeliveryFacts
  <2>3. Deliveries!Apart(s3[i].ts, s4[d].ts) <= Lag
    BY <1>2, <2>2, WindowIsNear DEF Deliveries!MayClaim, Block
  <2> QED
    BY <1>1, <1>2, <2>1, <2>3, GotoHolds
<1>3. CASE Deliveries!Goto(d, "recent") /\ UNCHANGED s3
  BY <1>1, <1>3, SameGrows, GotoHolds
<1> QED
  BY <1>2, <1>3 DEF Deliveries!Claim

LEMMA PassOverIsSafe ==
  ASSUME DeliveriesInv, NEW d \in Deliveries!Ways, Deliveries!PassOver(d) PROVE DeliveriesInv' /\ Grows(s3')
<1>1. s4[d].pc = "recent" /\ UNCHANGED <<s1, s2, s3>> /\ Grows(s3')
  BY SameGrows DEF Deliveries!PassOver, Deliveries!At
<1>2. CASE Deliveries!IsRecentCapture(s3[s4[d].prior], d) /\ Deliveries!Goto(d, "passed")
  BY <1>1, <1>2, GotoHolds DEF Deliveries!IsRecentCapture
<1>3. CASE Deliveries!Goto(d, "refuse")
  BY <1>1, <1>3, GotoHolds
<1> QED
  BY <1>2, <1>3 DEF Deliveries!PassOver

LEMMA RefuseIsSafe ==
  ASSUME DeliveriesInv, NEW d \in Deliveries!Ways, Deliveries!Refuse(d) PROVE DeliveriesInv' /\ Grows(s3')
<1>1. s4[d].pc = "refuse" /\ UNCHANGED <<s1, s2, s3>> /\ Grows(s3')
  BY SameGrows DEF Deliveries!Refuse, Deliveries!At
<1>2. s2[d[1]] # None
  BY <1>1, DeliveryFacts DEF Holds
<1> QED
  BY <1>1, <1>2, EndHolds DEF Deliveries!Refuse

LEMMA RetryIsSafe ==
  ASSUME DeliveriesInv, NEW d \in Deliveries!Ways, Deliveries!Retry(d) PROVE DeliveriesInv' /\ Grows(s3')
<1>1. s4' = [s4 EXCEPT ![d] = Deliveries!NoDelivery] /\ UNCHANGED <<s1, s2, s3>> /\ Grows(s3')
  BY SameGrows DEF Deliveries!Retry
<1>2. Deliveries!NoDelivery \in Delivered /\ Holds(Deliveries!NoDelivery, s3', s2[d[1]])
  BY DEF Delivered, Holds, Deliveries!NoDelivery
<1> QED
  BY <1>1, <1>2, DeliveryMoves

LEMMA DeliveriesNext == DeliveriesInv /\ [Deliveries!Next]_(Deliveries!vars) => DeliveriesInv' /\ Grows(s3')
<1> SUFFICES ASSUME DeliveriesInv, [Deliveries!Next]_(Deliveries!vars) PROVE DeliveriesInv' /\ Grows(s3')
  OBVIOUS
<1>1. CASE Deliveries!Tick
  BY <1>1, SameGrows DEF Deliveries!Tick, DeliveriesInv, DeliveryTypes, DeliveriesHold
<1>2. CASE UNCHANGED Deliveries!vars
  BY <1>2, SameGrows DEF Deliveries!vars, DeliveriesInv, DeliveryTypes, DeliveriesHold
<1>3. CASE \E m \in Msgs, text \in Sayings : Deliveries!Say(m, text)
  BY <1>3, SayIsSafe
<1>4. ASSUME NEW d \in Deliveries!Ways,
             \/ Deliveries!Arrive(d) \/ Deliveries!FindBlock(d) \/ Deliveries!Capture(d) \/ Deliveries!Claim(d)
             \/ Deliveries!PassOver(d) \/ Deliveries!Refuse(d) \/ Deliveries!Retry(d)
      PROVE  DeliveriesInv' /\ Grows(s3')
  BY <1>4, ArriveIsSafe, FindBlockIsSafe, CaptureIsSafe, ClaimIsSafe, PassOverIsSafe, RefuseIsSafe, RetryIsSafe
<1> QED
  BY <1>1, <1>2, <1>3, <1>4 DEF Deliveries!Next

LEMMA SilenceIsStored == DeliveriesInv => Deliveries!SilenceMeansStored
  BY DEF DeliveriesInv, DeliveriesHold, Holds, Deliveries!SilenceMeansStored, Deliveries!TextOf

LEMMA ClaimsStand == DeliveriesInv /\ [Deliveries!Next]_(Deliveries!vars) => Deliveries!ProvenanceIsKept
  BY DeliveriesNext DEF Grows, Deliveries!ProvenanceIsKept

------------------------------------------------------------------------------
(* Tools *)

\* A table of facts, no fact of it from after the given moment.
Dated(table, moment) ==
    /\ table = [k \in Keys |-> table[k]]
    /\ \A k \in Keys : table[k] # None => table[k].at \in Nat /\ table[k].at <= moment

\* A build is a record, and what it has read is true until it is overtaken.
Shaped(build) == build = [pc |-> build.pc, vals |-> build.vals, raced |-> build.raced]
BuildIsTrue == s9.pc = "store" /\ ~s9.raced => \A k \in Keys : s9.vals[k] = Tools!Vals[k]

FactsAreDated == s2 \in Nat /\ Dated(s1, s2) /\ (s7 # None => Dated(s7, s2))

ToolsInv == FactsAreDated /\ Shaped(s9) /\ BuildIsTrue /\ Tools!StaleOnlyByRace

LEMMA ToolsInit == Tools!Init => ToolsInv
  BY DEF Tools!Init, ToolsInv, FactsAreDated, Dated, Shaped, BuildIsTrue, Tools!NoBuild, Tools!StaleOnlyByRace

\* The facts stand, and so does what is shown, or nothing is; a build begins,
\* ends or goes on.
Steady ==
    /\ UNCHANGED <<s1, s2>>
    /\ s7' \in {s7, s1}
    /\ s5' = None \/ UNCHANGED <<s5, s11>>
    /\ UNCHANGED s9 \/ (Shaped(s9') /\ s9'.pc # "store")

LEMMA SteadyIsSafe == ToolsInv /\ Steady => ToolsInv'
<1> SUFFICES ASSUME ToolsInv, Steady PROVE ToolsInv'
  OBVIOUS
<1>1. FactsAreDated'
  BY DEF ToolsInv, FactsAreDated, Dated, Steady
<1>2. Tools!Vals' = Tools!Vals
  BY DEF Steady, Tools!Vals
<1>3. Shaped(s9') /\ BuildIsTrue'
  BY <1>2 DEF ToolsInv, Shaped, BuildIsTrue, Steady
<1>4. Tools!StaleOnlyByRace'
  BY <1>2 DEF ToolsInv, Tools!StaleOnlyByRace, Steady
<1> QED
  BY <1>1, <1>3, <1>4 DEF ToolsInv

\* The facts change at some keys, to what is saved now or came with the file; a
\* build that has read is overtaken, and what is shown goes or stays open at the keys.
Written(ks) ==
    /\ s2' \in Nat /\ s2 <= s2' /\ UNCHANGED s7
    /\ Dated(s1', s2')
    /\ \A k \in Keys \ ks : s1'[k] = s1[k]
    /\ s9'.pc = "store" => s9'.raced
    /\ Shaped(s9')
    /\ s5' = None \/ (UNCHANGED s5 /\ s11' = s11 \cup ks)

LEMMA LaterIsDated == ASSUME NEW table, NEW a \in Nat, NEW b \in Nat, a <= b, Dated(table, a) PROVE Dated(table, b)
  BY DEF Dated

LEMMA WrittenIsSafe == ASSUME ToolsInv, NEW ks, Written(ks) PROVE ToolsInv'
<1>1. FactsAreDated'
  BY LaterIsDated DEF ToolsInv, FactsAreDated, Written
<1>2. \A k \in Keys \ ks : Tools!Vals'[k] = Tools!Vals[k]
  BY DEF Written, Tools!Vals
<1>3. Shaped(s9') /\ BuildIsTrue'
  BY DEF Written, BuildIsTrue
<1>4. Tools!StaleOnlyByRace'
  BY <1>2 DEF ToolsInv, Tools!StaleOnlyByRace, Written
<1> QED
  BY <1>1, <1>3, <1>4 DEF ToolsInv

\* A build under way while somebody writes.
LEMMA OvertakenIsShaped ==
  ASSUME ToolsInv, s9' = IF s9.pc = "store" THEN [s9 EXCEPT !.raced = TRUE] ELSE s9
  PROVE  Shaped(s9') /\ (s9'.pc = "store" => s9'.raced)
  BY DEF ToolsInv, Shaped

LEMMA SavedIsDated ==
  ASSUME ToolsInv, NEW k, NEW val, s2' = s2 + 1, s1' = [s1 EXCEPT ![k] = [val |-> val, at |-> s2 + 1]]
  PROVE  s2' \in Nat /\ s2 <= s2' /\ Dated(s1', s2') /\ \A j \in Keys \ {k} : s1'[j] = s1[j]
<1>1. s2 \in Nat /\ Dated(s1, s2')
  BY LaterIsDated DEF ToolsInv, FactsAreDated
<1>2. \A j \in Keys : s1'[j] = IF j = k THEN [val |-> val, at |-> s2 + 1] ELSE s1[j]
  BY <1>1 DEF Dated
<1>3. s1' = [j \in Keys |-> s1'[j]]
  BY <1>1 DEF Dated
<1> QED
  BY <1>1, <1>2, <1>3 DEF Dated

LEMMA SaveIsWritten ==
  ASSUME ToolsInv, NEW k, NEW val, Tools!Save(k, val), UNCHANGED <<s5, s7>> PROVE Written({k})
  BY SavedIsDated, OvertakenIsShaped DEF Tools!Save, Tools!Wrote, Written

LEMMA DroppedIsDated ==
  ASSUME ToolsInv, NEW ks, s1' = [k \in Keys |-> IF k \in ks THEN None ELSE s1[k]]
  PROVE  Dated(s1', s2) /\ s2 \in Nat /\ \A k \in Keys \ ks : s1'[k] = s1[k]
  BY DEF ToolsInv, FactsAreDated, Dated

LEMMA DeleteIsWritten ==
  ASSUME ToolsInv, NEW ks, Tools!Delete(ks), UNCHANGED <<s2, s5, s7>> PROVE Written(ks)
  BY DroppedIsDated, OvertakenIsShaped DEF Tools!Delete, Tools!Wrote, Written

LEMMA PurgeIsWritten ==
  ASSUME ToolsInv, NEW c, Tools!Purge(c) PROVE \E ks : Written(ks)
<1>1. UNCHANGED <<s2, s7>> /\ s5' = None /\ Shaped(s9') /\ (s9'.pc = "store" => s9'.raced)
  BY OvertakenIsShaped DEF Tools!Purge, Tools!Invalidate
<1>2. PICK ks : s1' = [k \in Keys |-> IF k \in ks THEN None ELSE s1[k]] \/ s1' = s1
  BY DEF Tools!Purge
<1>3. Dated(s1', s2) /\ s2 \in Nat /\ \A k \in Keys \ ks : s1'[k] = s1[k]
  BY <1>2, DroppedIsDated DEF ToolsInv, FactsAreDated
<1> QED
  BY <1>1, <1>3 DEF Written

LEMMA ImportIsWritten ==
  ASSUME ToolsInv, Tools!Import PROVE \E ks : Written(ks)
<1>1. UNCHANGED <<s2, s7>> /\ s5' = None /\ s7 # None /\ Shaped(s9') /\ (s9'.pc = "store" => s9'.raced)
  BY OvertakenIsShaped DEF Tools!Import, Tools!Invalidate
<1>2. s1' = [k \in Keys |-> IF Tools!Wins(k) THEN s7[k] ELSE s1[k]]
  BY DEF Tools!Import
<1>3. Dated(s1', s2) /\ s2 \in Nat
  BY <1>1, <1>2 DEF ToolsInv, FactsAreDated, Dated
<1>4. Written(Keys)
  BY <1>1, <1>3 DEF Written
<1> QED
  BY <1>4

LEMMA InjectIsSafe == ToolsInv /\ Tools!InjectConsolidates => ToolsInv'
<1> SUFFICES ASSUME ToolsInv, Tools!InjectConsolidates PROVE ToolsInv'
  OBVIOUS
<1>1. UNCHANGED s7 /\ Shaped(s9') /\ s9'.pc # "store"
  BY DEF Tools!InjectConsolidates, ToolsInv, Shaped
<1>2. CASE UNCHANGED <<s1, s2, s5, s11>>
  BY <1>1, <1>2, SteadyIsSafe DEF Steady
<1>3. ASSUME NEW k \in Keys, NEW val \in Values,
             s2' = s2 + 1, s1' = [s1 EXCEPT ![k] = [val |-> val, at |-> s2 + 1]], Tools!Invalidate
      PROVE  ToolsInv'
  BY <1>1, <1>3, SavedIsDated, WrittenIsSafe DEF Written, Tools!Invalidate
<1> QED
  BY <1>2, <1>3 DEF Tools!InjectConsolidates

LEMMA ReadsIsSafe == ToolsInv /\ Tools!ContextReads => ToolsInv'
<1> SUFFICES ASSUME ToolsInv, Tools!ContextReads PROVE ToolsInv'
  OBVIOUS
<1>1. UNCHANGED <<s1, s2, s5, s7, s11>> /\ s9' = [pc |-> "store", vals |-> Tools!Vals, raced |-> FALSE]
  BY DEF Tools!ContextReads
<1>2. Tools!Vals' = Tools!Vals
  BY <1>1 DEF Tools!Vals
<1>3. FactsAreDated' /\ Shaped(s9') /\ BuildIsTrue'
  BY <1>1, <1>2 DEF ToolsInv, FactsAreDated, Shaped, BuildIsTrue, Dated
<1>4. Tools!StaleOnlyByRace'
  BY <1>1, <1>2 DEF ToolsInv, Tools!StaleOnlyByRace
<1> QED
  BY <1>3, <1>4 DEF ToolsInv

LEMMA StoresIsSafe == ToolsInv /\ Tools!ContextStores => ToolsInv'
<1> SUFFICES ASSUME ToolsInv, Tools!ContextStores PROVE ToolsInv'
  OBVIOUS
<1>1. UNCHANGED <<s1, s2, s7, s11>> /\ s9' = Tools!NoBuild /\ s9.pc = "store" /\ s5' = [vals |-> s9.vals, raced |-> s9.raced]
  BY DEF Tools!ContextStores
<1>2. Tools!Vals' = Tools!Vals
  BY <1>1 DEF Tools!Vals
<1>3. FactsAreDated' /\ Shaped(s9') /\ BuildIsTrue'
  BY <1>1, <1>2 DEF ToolsInv, FactsAreDated, Shaped, BuildIsTrue, Dated, Tools!NoBuild
<1>4. Tools!StaleOnlyByRace'
  BY <1>1, <1>2 DEF ToolsInv, Tools!StaleOnlyByRace, BuildIsTrue
<1> QED
  BY <1>3, <1>4 DEF ToolsInv

LEMMA ContextStartsSteady == ASSUME ToolsInv, NEW b \in BOOLEAN, Tools!ContextStarts(b) PROVE Steady
<1>1. s9' = [s9 EXCEPT !.pc = IF b THEN "consolidate" ELSE "read"] /\ UNCHANGED <<s1, s2, s5, s7, s11>>
  BY DEF Tools!ContextStarts
<1>2. Shaped(s9') /\ s9'.pc # "store"
  BY <1>1 DEF ToolsInv, Shaped
<1> QED
  BY <1>1, <1>2 DEF Steady

\* What the other tools do stands in none of these.
QuietTools ==
    \/ \E k \in Keys, val \in Values, s \in BOOLEAN : Tools!RememberStarts(k, val, s)
    \/ Tools!CallReturns \/ Tools!CallFails
    \/ \E k \in Keys : Tools!ForgetStarts(k) \/ Tools!RecallStarts(k) \/ Tools!PadEvicts(k) \/ Tools!PromoteReads(k)
    \/ Tools!Export \/ Tools!RecallReads \/ Tools!RecallKeeps
    \/ \E k \in Keys, val \in Values : Tools!PadWrite(k, val)
    \/ Tools!PromoteClears \/ Tools!Expire

LEMMA QuietIsSteady == QuietTools => Steady
  BY DEF QuietTools, Steady, Tools!RememberStarts, Tools!CallReturns, Tools!CallFails, Tools!ForgetStarts, Tools!RecallStarts,
     Tools!PadEvicts, Tools!PromoteReads, Tools!Export, Tools!RecallReads, Tools!RecallKeeps, Tools!PadWrite,
     Tools!PromoteClears, Tools!Expire, Tools!Invalidate

LEMMA ToolsNext == ToolsInv /\ [Tools!Next]_(Tools!vars) => ToolsInv'
<1> SUFFICES ASSUME ToolsInv, [Tools!Next]_(Tools!vars) PROVE ToolsInv'
  OBVIOUS
<1>1. CASE QuietTools
  BY <1>1, QuietIsSteady, SteadyIsSafe
<1>2. CASE UNCHANGED Tools!vars
  BY <1>2, SteadyIsSafe DEF Tools!vars, Steady
<1>3. CASE \E b \in BOOLEAN : Tools!ContextStarts(b)
  BY <1>3, ContextStartsSteady, SteadyIsSafe
<1>4. CASE Tools!RememberWrites \/ Tools!PromoteSaves
  BY <1>4, SaveIsWritten, WrittenIsSafe DEF Tools!RememberWrites, Tools!PromoteSaves
<1>5. CASE Tools!ForgetDeletes
  BY <1>5, DeleteIsWritten, WrittenIsSafe DEF Tools!ForgetDeletes
<1>6. CASE \E c \in 0..MaxClock : Tools!Purge(c)
  BY <1>6, PurgeIsWritten, WrittenIsSafe
<1>7. CASE Tools!Import
  BY <1>7, ImportIsWritten, WrittenIsSafe
<1>8. CASE Tools!InjectConsolidates \/ Tools!ContextReads \/ Tools!ContextStores
  BY <1>8, InjectIsSafe, ReadsIsSafe, StoresIsSafe
<1> QED
  BY <1>1, <1>2, <1>3, <1>4, <1>5, <1>6, <1>7, <1>8 DEF Tools!Next, QuietTools

\* What replaces a fact is saved now, or the newer of the two.
LEMMA NewestStays == ToolsInv /\ [Tools!Next]_(Tools!vars) => Tools!NewestWins
<1> SUFFICES ASSUME ToolsInv, [Tools!Next]_(Tools!vars), NEW k \in Keys, s1[k] # None, s1'[k] # None
             PROVE  s1'[k].at >= s1[k].at
  BY DEF Tools!NewestWins
<1>1. /\ s2 \in Nat /\ s1[k].at \in Nat /\ s1[k].at <= s2 /\ s1 = [j \in Keys |-> s1[j]]
      /\ s7 # None => \A j \in Keys : s7[j] # None => s7[j].at \in Nat
  BY DEF ToolsInv, FactsAreDated, Dated
<1>2. CASE s1'[k] = s1[k]
  BY <1>1, <1>2
<1>3. CASE Tools!Import
  BY <1>1, <1>3 DEF Tools!Import, Tools!Wins, Tools!Newer
<1>4. CASE \E j, val : s1' = [s1 EXCEPT ![j] = [val |-> val, at |-> s2 + 1]]
  BY <1>1, <1>4
<1>5. CASE \E ks : s1' = [j \in Keys |-> IF j \in ks THEN None ELSE s1[j]]
  BY <1>2, <1>5
<1>6. CASE QuietTools \/ (\E b \in BOOLEAN : Tools!ContextStarts(b)) \/ UNCHANGED Tools!vars
  BY <1>2, <1>6, QuietIsSteady, ContextStartsSteady DEF Steady, Tools!vars
<1>7. CASE Tools!RememberWrites \/ Tools!PromoteSaves
  BY <1>4, <1>7 DEF Tools!RememberWrites, Tools!PromoteSaves, Tools!Save
<1>8. CASE Tools!ForgetDeletes \/ (\E c \in 0..MaxClock : Tools!Purge(c))
  BY <1>2, <1>5, <1>8 DEF Tools!ForgetDeletes, Tools!Delete, Tools!Purge
<1>9. CASE Tools!InjectConsolidates \/ Tools!ContextReads \/ Tools!ContextStores
  BY <1>2, <1>4, <1>9 DEF Tools!InjectConsolidates, Tools!ContextReads, Tools!ContextStores
<1> QED
  BY <1>3, <1>6, <1>7, <1>8, <1>9 DEF Tools!Next, QuietTools

------------------------------------------------------------------------------
(* Embeddings *)

VectorsInv == s4 = [text \in Texts |-> s4[text]] /\ Embeddings!HashNeverMasquerades

LEMMA VectorsInit == Embeddings!Init => VectorsInv
  BY DEF Embeddings!Init, VectorsInv, Embeddings!HashNeverMasquerades

\* A row is stored as it is tagged, unless it is a fallback's.
LEMMA StoreIsSafe ==
  ASSUME VectorsInv, NEW c, NEW tag, NEW by, Embeddings!Store(c, tag, by), tag = "model" => by = "model"
  PROVE  VectorsInv'
  BY DEF VectorsInv, Embeddings!HashNeverMasquerades, Embeddings!Store

LEMMA MissesIsSafe == ASSUME VectorsInv, NEW text \in Texts, Embeddings!Misses(text) PROVE VectorsInv'
<1>1. s4' = [s4 EXCEPT ![text] = None]
  BY DEF Embeddings!Misses
<1>2. s4' = [other \in Texts |-> IF other = text THEN None ELSE s4[other]]
  BY <1>1 DEF VectorsInv
<1> QED
  BY <1>2 DEF VectorsInv, Embeddings!HashNeverMasquerades

LEMMA VectorsNext == VectorsInv /\ [Embeddings!Next]_(Embeddings!vars) => VectorsInv'
<1> SUFFICES ASSUME VectorsInv, [Embeddings!Next]_(Embeddings!vars) PROVE VectorsInv'
  OBVIOUS
<1>1. CASE UNCHANGED s4
  BY <1>1 DEF VectorsInv, Embeddings!HashNeverMasquerades
<1>2. CASE \E c \in Callers : Embeddings!StoreModel(c) \/ Embeddings!StoreHash(c)
  BY <1>2, StoreIsSafe DEF Embeddings!StoreModel, Embeddings!StoreHash, Embeddings!FallbackTag
<1>3. CASE \E text \in Texts : Embeddings!Misses(text)
  BY <1>3, MissesIsSafe
<1>4. CASE \E c \in Callers : Embeddings!Requests(c) \/ Embeddings!Ask(c) \/ Embeddings!Answer(c) \/ Embeddings!Fails(c)
  BY <1>1, <1>4 DEF Embeddings!Requests, Embeddings!Embed, Embeddings!Ask, Embeddings!Answer, Embeddings!Fails
<1>5. CASE \/ Embeddings!Reset \/ Embeddings!Tick \/ Embeddings!BackendFails \/ Embeddings!BackendRecovers
           \/ Embeddings!Restart \/ UNCHANGED Embeddings!vars
  BY <1>1, <1>5 DEF Embeddings!Reset, Embeddings!Tick, Embeddings!BackendFails, Embeddings!BackendRecovers,
     Embeddings!Restart, Embeddings!vars
<1> QED
  BY <1>2, <1>3, <1>4, <1>5 DEF Embeddings!Next

------------------------------------------------------------------------------
(* Sagas *)

Course == [Sagas!Steps -> Sagas!StepStatus]
Engine == [status : {"running", "failed", "compensating"}, index : Nat, step : Course, attempt : Nat,
           pc : {"next", "action", "done", "raised", "abort", "undo"}]
Work == [Sagas!Steps -> {"none", "some", "all"}]

\* Steps are completed one behind the other, across all executions.
InOrder(step) ==
    /\ step \in Course
    /\ \A j \in Sagas!Steps : step[j] = "completed" => \A i \in Sagas!Steps : i < j => step[i] = "completed"

SettledSteps == {i \in Sagas!Steps : Sagas!Settled(i)}

\* Where the engine is: behind completed steps, at one that is not, or on its
\* way back with what is above it settled.
Underway(row, settled) ==
    /\ row \in Engine
    /\ InOrder(row.step)
    /\ row.pc \in {"next", "action", "done", "raised"} => \A i \in Sagas!Steps : i < row.index => row.step[i] = "completed"
    /\ row.pc \in {"action", "done", "raised"} => row.index \in Sagas!Steps /\ row.step[row.index] # "completed"
    /\ row.pc = "abort" => \A i \in Sagas!Steps : row.index <= i => row.step[i] # "completed"
    /\ row.pc = "undo" => \A i \in Compensable : row.index < i /\ row.step[i] = "completed" => i \in settled

\* The file beside it: of no saga that is rolled back, and on the way back of this course.
Filed(file, row) == file = [status |-> row.status, index |-> file.index, step |-> row.step]
Beside(file, row) == file.status # "compensated" /\ (row.pc = "undo" => Filed(file, row))

SagaInv ==
    /\ s3 \in Work
    /\ s1 # None => InOrder(s1.step)
    /\ s2 # None => Underway(s2, SettledSteps) /\ Beside(s1, s2)
    /\ Sagas!RolledBackMeansUndone

LEMMA SagaInit == Sagas!Init => SagaInv
  BY DEF Sagas!Init, SagaInv, Work, Sagas!RolledBackMeansUndone

LEMMA StepsAreInt == \A i \in Sagas!Steps : i \in Nat /\ 1 <= i /\ i <= Length
  BY SagasAssumption DEF Sagas!Steps

\* The engine goes on, with the file as it was or written anew.
LEMMA EngineGoes ==
  ASSUME SagaInv, NEW row, s2' = row, Underway(row, SettledSteps'), s3' \in Work,
         (s2 # None /\ UNCHANGED s1 /\ row.pc # "undo") \/ Filed(s1', row)
         \/ (s2 # None /\ UNCHANGED s1 /\ Filed(s1, row))
  PROVE  SagaInv'
<1>1. row.status # "compensated" /\ InOrder(row.step)
  BY DEF Underway, Engine
<1>2. Beside(s1', row)
  BY <1>1 DEF SagaInv, Beside, Filed
<1>3. s1' # None => InOrder(s1'.step)
  BY <1>1 DEF SagaInv, Filed
<1>4. Sagas!RolledBackMeansUndone'
  BY <1>2 DEF Beside, Sagas!RolledBackMeansUndone
<1> QED
  BY <1>2, <1>3, <1>4 DEF SagaInv

LEMMA SaveFiles == ASSUME NEW row, Sagas!Save(row) PROVE Filed(s1', row)
  BY DEF Sagas!Save, Filed

LEMMA ExecuteIsSafe == SagaInv /\ Sagas!Execute => SagaInv'
<1> SUFFICES ASSUME SagaInv, Sagas!Execute PROVE SagaInv'
  OBVIOUS
<1> DEFINE step == IF s1 = None THEN [i \in Sagas!Steps |-> "pending"] ELSE s1.step
           row == [status |-> "running", index |-> 1, pc |-> "next", attempt |-> 0, step |-> step]
<1>1. s2' = row /\ Sagas!Save(row) /\ UNCHANGED s3
  BY DEF Sagas!Execute, Sagas!Persist
<1>2. InOrder(step)
  BY DEF SagaInv, InOrder, Course, Sagas!StepStatus
<1>3. row \in Engine /\ row.pc = "next" /\ row.index = 1 /\ row.step = step
  BY <1>2 DEF Engine, InOrder
<1> HIDE DEF row, step
<1>4. Underway(row, SettledSteps')
  BY <1>2, <1>3, StepsAreInt DEF Underway
<1> QED
  BY <1>1, <1>4, SaveFiles, EngineGoes DEF SagaInv

LEMMA EngineFacts ==
  ASSUME SagaInv, s2 # None
  PROVE  /\ Underway(s2, SettledSteps) /\ s3 \in Work
         /\ s2.index \in Nat /\ s2.step \in Course /\ s2.attempt \in Nat
         /\ s2.status \in {"running", "failed", "compensating"}
         /\ s2 = [status |-> s2.status, index |-> s2.index, step |-> s2.step, attempt |-> s2.attempt, pc |-> s2.pc]
  BY DEF SagaInv, Underway, Engine

LEMMA EngineExcept ==
  ASSUME NEW row \in Engine, NEW pc \in {"next", "abort"}, NEW course \in Course
  PROVE  /\ [row EXCEPT !.pc = pc, !.step = course] \in Engine
         /\ [row EXCEPT !.pc = pc, !.step = course].pc = pc
         /\ [row EXCEPT !.pc = pc, !.step = course].step = course
         /\ [row EXCEPT !.pc = pc, !.step = course].index = row.index
  BY DEF Engine

LEMMA NextStepIsSafe == SagaInv /\ Sagas!NextStep => SagaInv'
<1> SUFFICES ASSUME SagaInv, Sagas!NextStep PROVE SagaInv'
  OBVIOUS
<1> DEFINE i == s2.index
<1>1. s2 # None /\ s2.pc = "next" /\ i \in Sagas!Steps /\ i \in Nat /\ UNCHANGED s3
  BY StepsAreInt DEF Sagas!NextStep, Sagas!At, Sagas!Current
<1>2. CASE s2.step[i] = "completed"
  <2> DEFINE row == [s2 EXCEPT !.index = i + 1]
  <2>1. s2' = row /\ UNCHANGED s1
    BY <1>2 DEF Sagas!NextStep, Sagas!Skipped, Sagas!Current
  <2>2. row \in Engine
    BY <1>1, EngineFacts DEF Engine, Underway
  <2>3. row.pc = "next" /\ row.index = i + 1 /\ row.step = s2.step
    BY <1>1, EngineFacts DEF Engine
  <2> HIDE DEF row
  <2>4. Underway(row, SettledSteps')
    BY <1>1, <1>2, <2>2, <2>3, EngineFacts, StepsAreInt DEF Underway
  <2> QED
    BY <1>1, <2>1, <2>3, <2>4, EngineGoes DEF SagaInv
<1>3. CASE s2.step[i] # "completed"
  <2> DEFINE step == [s2.step EXCEPT ![i] = "running"]
             row == [s2 EXCEPT !.pc = "action", !.attempt = 0, !.step = step]
  <2>1. s2' = row /\ Sagas!Save(row)
    BY <1>3 DEF Sagas!NextStep, Sagas!Skipped, Sagas!Current, Sagas!Persist
  <2>2. step \in Course /\ step[i] = "running" /\ \A j \in Sagas!Steps \ {i} : step[j] = s2.step[j]
    BY <1>1, EngineFacts DEF Course, Sagas!StepStatus
  <2>3. InOrder(step)
    BY <1>1, <1>3, <2>2, EngineFacts DEF InOrder, Underway
  <2> HIDE DEF step
  <2>4. row \in Engine
    BY <1>1, <2>2, EngineFacts DEF Engine
  <2>5. row.pc = "action" /\ row.index = i /\ row.step = step
    BY <1>1, EngineFacts DEF Engine
  <2> HIDE DEF row
  <2>6. Underway(row, SettledSteps')
    BY <1>1, <2>2, <2>3, <2>4, <2>5, EngineFacts, StepsAreInt DEF Underway
  <2> QED
    BY <1>1, <2>1, <2>6, SaveFiles, EngineGoes DEF SagaInv
<1> QED
  BY <1>2, <1>3

\* What is over is not rolled back; no engine is left.
LEMMA CompletesIsSafe == SagaInv /\ Sagas!Completes => SagaInv'
<1> SUFFICES ASSUME SagaInv, Sagas!Completes PROVE SagaInv'
  OBVIOUS
<1>1. s2 # None /\ s2' = None /\ UNCHANGED s3 /\ Sagas!Save([s2 EXCEPT !.status = "completed"])
  BY DEF Sagas!Completes, Sagas!At
<1>2. s1'.status = "completed" /\ s1'.step = s2.step
  BY <1>1, EngineFacts DEF Sagas!Save
<1> QED
  BY <1>1, <1>2, EngineFacts DEF SagaInv, Underway, Sagas!RolledBackMeansUndone

\* The action, and the pause after it: the course stands.
LEMMA ActionIsSafe == SagaInv /\ (Sagas!ActionReturns \/ Sagas!ActionRaises \/ Sagas!Retry) => SagaInv'
<1> SUFFICES ASSUME SagaInv, Sagas!ActionReturns \/ Sagas!ActionRaises \/ Sagas!Retry PROVE SagaInv'
  OBVIOUS
<1>1. s2 # None /\ s2.pc \in {"action", "raised"} /\ UNCHANGED s1
  BY DEF Sagas!ActionReturns, Sagas!ActionRaises, Sagas!Retry, Sagas!At
<1>2. s3' \in Work
  BY EngineFacts DEF Sagas!ActionReturns, Sagas!ActionRaises, Sagas!Retry, Sagas!At, Work
<1>3. PICK pc \in {"action", "done", "raised"}, attempt \in Nat : s2' = [s2 EXCEPT !.pc = pc, !.attempt = attempt]
  <2>1. CASE Sagas!ActionReturns
    <3>1. [s2 EXCEPT !.pc = "done"] = [s2 EXCEPT !.pc = "done", !.attempt = s2.attempt]
      BY <1>1, EngineFacts
    <3> QED
      BY <1>1, <2>1, <3>1, EngineFacts DEF Sagas!ActionReturns
  <2>2. CASE Sagas!ActionRaises
    <3>1. s2.attempt + 1 \in Nat
      BY <1>1, EngineFacts
    <3> QED
      BY <1>1, <2>2, <3>1 DEF Sagas!ActionRaises
  <2>3. CASE Sagas!Retry
    <3>1. [s2 EXCEPT !.pc = "action"] = [s2 EXCEPT !.pc = "action", !.attempt = s2.attempt]
      BY <1>1, EngineFacts
    <3> QED
      BY <1>1, <2>3, <3>1, EngineFacts DEF Sagas!Retry
  <2> QED
    BY <2>1, <2>2, <2>3
<1> DEFINE row == [s2 EXCEPT !.pc = pc, !.attempt = attempt]
<1>4. row \in Engine
  BY <1>1, EngineFacts DEF Engine
<1>5. row.pc = pc /\ row.index = s2.index /\ row.step = s2.step
  BY <1>1, EngineFacts DEF Engine
<1>6. s2' = row
  BY <1>3
<1> HIDE DEF row
<1>7. Underway(row, SettledSteps')
  BY <1>1, <1>4, <1>5, EngineFacts DEF Underway
<1> QED
  BY <1>1, <1>2, <1>5, <1>6, <1>7, EngineGoes DEF SagaInv

LEMMA RecordIsSafe == SagaInv /\ Sagas!RecordStep => SagaInv'
<1> SUFFICES ASSUME SagaInv, Sagas!RecordStep PROVE SagaInv'
  OBVIOUS
<1> DEFINE i == s2.index
           step == [s2.step EXCEPT ![i] = "completed"]
           advanced == [s2 EXCEPT !.pc = "next", !.step = step]
           row == [advanced EXCEPT !.index = i + 1]
<1>1. s2 # None /\ s2.pc = "done" /\ UNCHANGED s3
  BY DEF Sagas!RecordStep, Sagas!At
<1>2. i \in Sagas!Steps /\ i \in Nat /\ \A j \in Sagas!Steps : j < i => s2.step[j] = "completed"
  BY <1>1, EngineFacts DEF Underway
<1>3. s2' = row /\ Sagas!Save(row)
  BY DEF Sagas!RecordStep, Sagas!Persist, Sagas!Current
<1>4. step \in Course /\ step[i] = "completed" /\ \A j \in Sagas!Steps \ {i} : step[j] = s2.step[j]
  BY <1>1, <1>2, EngineFacts DEF Course, Sagas!StepStatus
<1>5. InOrder(step)
  BY <1>1, <1>2, <1>4, EngineFacts, StepsAreInt DEF InOrder, Underway
<1> HIDE DEF step
<1>6. s2 \in Engine
  BY <1>1, EngineFacts DEF Underway
<1>7. advanced \in Engine /\ advanced.pc = "next" /\ advanced.step = step
  BY <1>4, <1>6, EngineExcept
<1> HIDE DEF advanced
<1>8. row \in Engine /\ row.pc = "next" /\ row.index = i + 1 /\ row.step = step
  BY <1>2, <1>7 DEF Engine
<1> HIDE DEF row
<1>9. Underway(row, SettledSteps')
  BY <1>2, <1>4, <1>5, <1>8, StepsAreInt DEF Underway
<1> QED
  BY <1>1, <1>3, <1>9, SaveFiles, EngineGoes DEF SagaInv

LEMMA ExhaustedIsSafe == SagaInv /\ Sagas!Exhausted => SagaInv'
<1> SUFFICES ASSUME SagaInv, Sagas!Exhausted PROVE SagaInv'
  OBVIOUS
<1> DEFINE i == s2.index
           step == [s2.step EXCEPT ![i] = "failed"]
           row == [s2 EXCEPT !.pc = "abort", !.step = step]
<1>1. s2 # None /\ s2.pc = "raised" /\ UNCHANGED s3
  BY DEF Sagas!Exhausted, Sagas!At
<1>2. i \in Sagas!Steps /\ i \in Nat /\ s2.step[i] # "completed" /\ InOrder(s2.step)
  BY <1>1, EngineFacts DEF Underway
<1>3. s2' = row /\ Sagas!Save(row)
  BY DEF Sagas!Exhausted, Sagas!Persist, Sagas!Current
<1>4. step \in Course /\ step[i] = "failed" /\ \A j \in Sagas!Steps \ {i} : step[j] = s2.step[j]
  BY <1>1, <1>2, EngineFacts DEF Course, Sagas!StepStatus
<1>5. InOrder(step) /\ \A j \in Sagas!Steps : i <= j => step[j] # "completed"
  BY <1>1, <1>2, <1>4, StepsAreInt DEF InOrder
<1> HIDE DEF step
<1>6. s2 \in Engine
  BY <1>1, EngineFacts DEF Underway
<1>7. row \in Engine /\ row.pc = "abort" /\ row.index = i /\ row.step = step
  BY <1>4, <1>6, EngineExcept
<1> HIDE DEF row
<1>8. Underway(row, SettledSteps')
  BY <1>5, <1>7 DEF Underway
<1> QED
  BY <1>1, <1>3, <1>8, SaveFiles, EngineGoes DEF SagaInv

LEMMA AbortsIsSafe == SagaInv /\ Sagas!Aborts => SagaInv'
<1> SUFFICES ASSUME SagaInv, Sagas!Aborts PROVE SagaInv'
  OBVIOUS
<1>1. s2 # None /\ s2.pc = "abort" /\ UNCHANGED s3
  BY DEF Sagas!Aborts, Sagas!At
<1>2. PICK status \in {"failed", "compensating"}, pc \in {"abort", "undo"} :
         s2' = [s2 EXCEPT !.status = status, !.pc = pc] /\ Sagas!Save([s2 EXCEPT !.status = status, !.pc = pc])
  <2>1. CASE s2.status = "running"
    <3>1. [s2 EXCEPT !.status = "failed"] = [s2 EXCEPT !.status = "failed", !.pc = "abort"]
      BY <1>1, EngineFacts
    <3> QED
      BY <2>1, <3>1 DEF Sagas!Aborts, Sagas!Persist
  <2>2. CASE s2.status # "running"
    BY <2>2 DEF Sagas!Aborts, Sagas!Persist
  <2> QED
    BY <2>1, <2>2
<1> DEFINE row == [s2 EXCEPT !.status = status, !.pc = pc]
<1>3. row \in Engine
  BY <1>1, EngineFacts DEF Engine
<1>4. row.pc = pc /\ row.index = s2.index /\ row.step = s2.step
  BY <1>1, EngineFacts DEF Engine
<1>5. s2' = row /\ Sagas!Save(row)
  BY <1>2
<1> HIDE DEF row
<1>6. \A i \in Compensable : i \in Sagas!Steps /\ (s2.index < i => s2.step[i] # "completed")
  BY <1>1, EngineFacts, StepsAreInt, SagasAssumption DEF Underway, Sagas!Steps
<1>7. Underway(row, SettledSteps')
  BY <1>1, <1>3, <1>4, <1>6, EngineFacts DEF Underway
<1> QED
  BY <1>1, <1>5, <1>7, SaveFiles, EngineGoes DEF SagaInv

LEMMA UndoIsSafe == SagaInv /\ Sagas!Undo => SagaInv'
<1> SUFFICES ASSUME SagaInv, Sagas!Undo PROVE SagaInv'
  OBVIOUS
<1> DEFINE i == s2.index
           row == [s2 EXCEPT !.index = i - 1]
<1>1. s2 # None /\ s2.pc = "undo" /\ UNCHANGED s1 /\ s2' = row /\ i \in Sagas!Steps /\ i \in Nat /\ i >= 1
  BY StepsAreInt DEF Sagas!Undo, Sagas!At, Sagas!Current
<1>2. s3' \in Work
  BY <1>1, EngineFacts DEF Sagas!Undo, Sagas!Current, Work
<1>3. \A j \in Compensable \ {i} : j \in SettledSteps => j \in SettledSteps'
  BY <1>1, EngineFacts, SagasAssumption DEF Sagas!Undo, Sagas!Current, Sagas!Settled, SettledSteps, Work
<1>4. i \in Compensable /\ s2.step[i] = "completed" => i \in SettledSteps'
  BY <1>1, EngineFacts DEF Sagas!Undo, Sagas!Undoable, Sagas!Current, Sagas!Settled, SettledSteps, Work
<1>5. row \in Engine
  BY <1>1, EngineFacts DEF Engine
<1>6. row.pc = "undo" /\ row.index = i - 1 /\ row.step = s2.step /\ row.status = s2.status
  BY <1>1, EngineFacts DEF Engine
<1> HIDE DEF row
<1>7. \A j \in Compensable : j \in Nat
  BY SagasAssumption
<1>8. ASSUME NEW j \in Compensable, i - 1 < j, s2.step[j] = "completed" PROVE j \in SettledSteps'
  <2>1. j = i \/ i < j
    BY <1>1, <1>7, <1>8
  <2> QED
    BY <1>1, <1>3, <1>4, <1>8, <2>1, EngineFacts DEF Underway
<1>9. Underway(row, SettledSteps')
  BY <1>1, <1>5, <1>6, <1>8, EngineFacts DEF Underway
<1>10. Filed(s1, row)
  BY <1>1, <1>6 DEF SagaInv, Beside, Filed
<1> QED
  BY <1>1, <1>2, <1>9, <1>10, EngineGoes

LEMMA CompensatedIsSafe == SagaInv /\ Sagas!Compensated => SagaInv'
<1> SUFFICES ASSUME SagaInv, Sagas!Compensated PROVE SagaInv'
  OBVIOUS
<1>1. s2 # None /\ s2.pc = "undo" /\ s2.index = 0 /\ s2' = None /\ UNCHANGED <<s3, s4>> /\ s1' = [s1 EXCEPT !.status = "compensated"]
  BY DEF Sagas!Compensated, Sagas!At, Sagas!Current
<1>2. Filed(s1, s2) /\ Underway(s2, SettledSteps) /\ s3 \in Work
  BY <1>1 DEF SagaInv, Beside
<1>3. s1'.step = s2.step
  BY <1>1, <1>2 DEF Filed
<1>4. \A i \in Compensable : i \in Nat /\ 0 < i
  BY SagasAssumption
<1>5. \A i \in Compensable : s2.step[i] = "completed" => i \in SettledSteps'
  BY <1>1, <1>2, <1>4 DEF Underway, Sagas!Settled, SettledSteps
<1> QED
  BY <1>1, <1>2, <1>3, <1>5 DEF SagaInv, Sagas!RolledBackMeansUndone, Underway, SettledSteps

LEMMA SagaNext == SagaInv /\ [Sagas!Next]_(Sagas!vars) => SagaInv'
<1> SUFFICES ASSUME SagaInv, [Sagas!Next]_(Sagas!vars) PROVE SagaInv'
  OBVIOUS
<1>1. CASE Sagas!Crash
  BY <1>1 DEF SagaInv, Sagas!Crash, Sagas!RolledBackMeansUndone, Sagas!Settled
<1>2. CASE UNCHANGED Sagas!vars
  BY <1>2 DEF SagaInv, Sagas!vars, Sagas!RolledBackMeansUndone, Sagas!Settled, SettledSteps, Underway
<1> QED
  BY <1>1, <1>2, ExecuteIsSafe, NextStepIsSafe, CompletesIsSafe, ActionIsSafe, RecordIsSafe, ExhaustedIsSafe, AbortsIsSafe,
     UndoIsSafe, CompensatedIsSafe DEF Sagas!Next

------------------------------------------------------------------------------
(* SagaLog *)

Execution == [pc : {"step", "lookup", "action", "done", "raised", "undo", "rolledback"},
              step : Nat \ {0}, undoing : Nat, attempt : Nat, done : SUBSET SagaLog!Steps]

\* What has been undone by now, or whose compensation raised.
UndoneSteps == {i \in SagaLog!Steps : s4[i] = "none" \/ i \in s5}

\* Every step below the present one counts as done; on the way back those above
\* are undone.
Counted(row, undone) ==
    /\ row \in Execution
    /\ \A i \in SagaLog!Steps : i < row.step => i \in row.done
    /\ row.pc \in {"lookup", "action", "done", "raised"} => row.step \in SagaLog!Steps
    /\ row.pc \in {"undo", "rolledback"} =>
          /\ row.undoing < row.step
          /\ \A i \in Compensable : row.undoing < i /\ i < row.step => i \in undone
    /\ row.pc = "rolledback" => row.undoing = 0

SagaLogInv == s4 \in [SagaLog!Steps -> {"none", "some", "all"}] /\ (s2 # None => Counted(s2, UndoneSteps))

LEMMA SagaLogInit == SagaLog!Init => SagaLogInv
  BY DEF SagaLog!Init, SagaLogInv

LEMMA LogStepsAreInt == \A i \in SagaLog!Steps : i \in Nat /\ 1 <= i /\ i <= Length
  BY SagasAssumption DEF SagaLog!Steps

LEMMA RollbackIsCovered == SagaLogInv => SagaLog!RollbackCoversReplays
<1> SUFFICES ASSUME SagaLogInv, s2 # None, s2.pc = "rolledback", NEW i \in Compensable, i < s2.step
             PROVE  s4[i] = "none" \/ i \in s5
  BY DEF SagaLog!RollbackCoversReplays, SagaLog!At, SagaLog!Current
<1>1. i \in Nat /\ 0 < i
  BY SagasAssumption
<1>2. i \in UndoneSteps
  BY <1>1 DEF SagaLogInv, Counted
<1> QED
  BY <1>2 DEF UndoneSteps

LEMMA ExecutionFacts ==
  ASSUME SagaLogInv, s2 # None
  PROVE  /\ Counted(s2, UndoneSteps) /\ s2 \in Execution
         /\ s2.step \in Nat /\ s2.step >= 1 /\ s2.undoing \in Nat /\ s2.done \subseteq SagaLog!Steps
  BY DEF SagaLogInv, Counted, Execution

\* On the way forward.
LEMMA ForwardIsCounted ==
  ASSUME SagaLogInv, NEW row, row \in Execution, row.pc \notin {"undo", "rolledback"},
         \A i \in SagaLog!Steps : i < row.step => i \in row.done, s2' = row,
         row.pc # "step" => row.step \in SagaLog!Steps,
         s4' \in [SagaLog!Steps -> {"none", "some", "all"}]
  PROVE  SagaLogInv'
  BY DEF SagaLogInv, Counted

LEMMA PcIsTyped ==
  ASSUME NEW row \in Execution, NEW pc \in {"step", "lookup", "action", "done", "raised", "undo", "rolledback"}
  PROVE  /\ [row EXCEPT !.pc = pc] \in Execution
         /\ [row EXCEPT !.pc = pc].pc = pc
         /\ [row EXCEPT !.pc = pc].step = row.step
         /\ [row EXCEPT !.pc = pc].done = row.done
         /\ [row EXCEPT !.pc = pc].undoing = row.undoing
  BY DEF Execution

LEMMA LogExecuteIsSafe == SagaLogInv /\ SagaLog!Execute => SagaLogInv'
<1> SUFFICES ASSUME SagaLogInv, SagaLog!Execute PROVE SagaLogInv'
  OBVIOUS
<1> DEFINE row == [pc |-> "step", step |-> 1, undoing |-> 0, attempt |-> 0, done |-> {}]
<1>1. s2' = row /\ UNCHANGED s4
  BY DEF SagaLog!Execute
<1>2. row \in Execution
  BY DEF Execution
<1>3. \A i \in SagaLog!Steps : i < row.step => i \in row.done
  BY LogStepsAreInt
<1>4. row.pc = "step"
  OBVIOUS
<1> HIDE DEF row
<1> QED
  BY <1>1, <1>2, <1>3, <1>4, ForwardIsCounted DEF SagaLogInv

\* The engine waits, looks up, works or retries: the course stands.
LEMMA LogWorkIsSafe ==
  SagaLogInv /\ (SagaLog!StepStarts \/ SagaLog!ActionReturns \/ SagaLog!ActionRaises \/ SagaLog!Retry) => SagaLogInv'
<1> SUFFICES ASSUME SagaLogInv, SagaLog!StepStarts \/ SagaLog!ActionReturns \/ SagaLog!ActionRaises \/ SagaLog!Retry
             PROVE  SagaLogInv'
  OBVIOUS
<1>1. s2 # None
  BY DEF SagaLog!StepStarts, SagaLog!ActionReturns, SagaLog!ActionRaises, SagaLog!Retry, SagaLog!At
<1>2. s4' \in [SagaLog!Steps -> {"none", "some", "all"}]
  BY DEF SagaLogInv, SagaLog!StepStarts, SagaLog!ActionReturns, SagaLog!ActionRaises, SagaLog!Retry
<1>3. s2.attempt + 1 \in Nat /\ Retries + 1 \in Nat
  BY <1>1, ExecutionFacts, SagasAssumption DEF Execution
<1>4. PICK pc \in {"lookup", "action", "done", "raised"}, n \in Nat :
         s2' = [s2 EXCEPT !.pc = pc] \/ s2' = [s2 EXCEPT !.pc = pc, !.attempt = n]
  BY <1>3 DEF SagaLog!StepStarts, SagaLog!ActionReturns, SagaLog!ActionRaises, SagaLog!Retry
<1>5. s2 \in Execution
  BY <1>1, ExecutionFacts
<1>6. ASSUME s2' = [s2 EXCEPT !.pc = pc]
      PROVE  s2' \in Execution /\ s2'.pc = pc /\ s2'.step = s2.step /\ s2'.done = s2.done
  BY <1>5, <1>6 DEF Execution
<1>7. ASSUME s2' = [s2 EXCEPT !.pc = pc, !.attempt = n]
      PROVE  s2' \in Execution /\ s2'.pc = pc /\ s2'.step = s2.step /\ s2'.done = s2.done
  BY <1>5, <1>7 DEF Execution
<1>8. s2' \in Execution /\ s2'.pc = pc /\ s2'.step = s2.step /\ s2'.done = s2.done
  BY <1>4, <1>6, <1>7
<1>9. s2.step \in SagaLog!Steps
  BY <1>1, ExecutionFacts DEF SagaLog!StepStarts, SagaLog!ActionReturns, SagaLog!ActionRaises, SagaLog!Retry, SagaLog!At,
     SagaLog!Current, SagaLog!Steps, Counted
<1> QED
  BY <1>1, <1>2, <1>8, <1>9, ForwardIsCounted, ExecutionFacts DEF Counted

\* A step done, or replayed from the log.
LEMMA AdvanceIsCounted ==
  ASSUME SagaLogInv, s2 # None, s2.step \in SagaLog!Steps, UNCHANGED s4,
         s2' = [s2 EXCEPT !.pc = "step", !.done = s2.done \cup {s2.step}, !.step = s2.step + 1]
  PROVE  SagaLogInv'
<1> DEFINE done == s2.done \cup {s2.step}
           counted == [s2 EXCEPT !.pc = "step", !.done = done]
           row == [counted EXCEPT !.step = s2.step + 1]
<1>1. s2' = row
  OBVIOUS
<1>2. done \in SUBSET SagaLog!Steps /\ s2 \in Execution /\ s2.step + 1 \in Nat \ {0}
  BY ExecutionFacts
<1> HIDE DEF done
<1>3. counted \in Execution /\ counted.pc = "step" /\ counted.done = done
  BY <1>2 DEF Execution
<1> HIDE DEF counted
<1>4. row \in Execution /\ row.pc = "step" /\ row.done = done /\ row.step = s2.step + 1
  BY <1>2, <1>3 DEF Execution
<1>5. s2' \in Execution /\ s2'.pc = "step" /\ s2'.step = s2.step + 1 /\ s2'.done = s2.done \cup {s2.step}
  BY <1>1, <1>4 DEF done
<1>6. \A i \in SagaLog!Steps : i < s2'.step => i \in s2'.done
  BY <1>5, ExecutionFacts, LogStepsAreInt DEF Counted
<1> QED
  BY <1>5, <1>6, ForwardIsCounted DEF SagaLogInv
LEMMA LogAdvanceIsSafe == SagaLogInv /\ (SagaLog!Lookup \/ SagaLog!RecordStep) => SagaLogInv'
<1> SUFFICES ASSUME SagaLogInv, SagaLog!Lookup \/ SagaLog!RecordStep PROVE SagaLogInv'
  OBVIOUS
<1>1. s2 # None /\ s2.pc \in {"lookup", "done"} /\ UNCHANGED s4
  BY DEF SagaLog!Lookup, SagaLog!RecordStep, SagaLog!At
<1>2. s2.step \in SagaLog!Steps /\ s2 \in Execution
  BY <1>1, ExecutionFacts DEF Counted
<1>3. CASE s2' = [s2 EXCEPT !.pc = "step", !.done = s2.done \cup {s2.step}, !.step = s2.step + 1]
  BY <1>1, <1>2, <1>3, AdvanceIsCounted
<1>4. CASE s2' = [s2 EXCEPT !.pc = "action"]
  <2>1. s2' \in Execution /\ s2'.pc = "action" /\ s2'.step = s2.step /\ s2'.done = s2.done
    BY <1>2, <1>4, PcIsTyped
  <2> QED
    BY <1>1, <1>2, <2>1, ForwardIsCounted, ExecutionFacts DEF Counted, SagaLogInv
<1> QED
  BY <1>3, <1>4 DEF SagaLog!Lookup, SagaLog!RecordStep, SagaLog!Replayed, SagaLog!Current

LEMMA LogExhaustedIsSafe == SagaLogInv /\ SagaLog!Exhausted => SagaLogInv'
<1> SUFFICES ASSUME SagaLogInv, SagaLog!Exhausted PROVE SagaLogInv'
  OBVIOUS
<1>1. s2 # None /\ s2 \in Execution /\ s2' = [s2 EXCEPT !.pc = "undo", !.undoing = s2.step - 1] /\ UNCHANGED <<s4, s5>>
  BY ExecutionFacts DEF SagaLog!Exhausted, SagaLog!At, SagaLog!Current
<1>2. s2.step - 1 \in Nat /\ s2.step \in Nat
  BY <1>1, ExecutionFacts
<1>3. s2' \in Execution /\ s2'.pc = "undo" /\ s2'.step = s2.step /\ s2'.done = s2.done /\ s2'.undoing = s2.step - 1
  BY <1>1, <1>2 DEF Execution
<1>4. \A i \in Compensable : ~(s2.step - 1 < i /\ i < s2.step)
  BY <1>2, SagasAssumption
<1> QED
  BY <1>1, <1>2, <1>3, <1>4, ExecutionFacts DEF SagaLogInv, Counted

LEMMA LogUndoIsSafe == SagaLogInv /\ SagaLog!Undo => SagaLogInv'
<1> SUFFICES ASSUME SagaLogInv, SagaLog!Undo PROVE SagaLogInv'
  OBVIOUS
<1> DEFINE i == s2.undoing
<1>1. s2 # None /\ s2.pc = "undo" /\ i > 0 /\ i \in Nat /\ s2' = [s2 EXCEPT !.undoing = i - 1] /\ s2 \in Execution
  BY ExecutionFacts DEF SagaLog!Undo, SagaLog!At
<1>2. s2' \in Execution /\ s2'.pc = "undo" /\ s2'.step = s2.step /\ s2'.done = s2.done /\ s2'.undoing = i - 1
  BY <1>1 DEF Execution
<1>3. s4' \in [SagaLog!Steps -> {"none", "some", "all"}]
  BY <1>1 DEF SagaLog!Undo, SagaLogInv
<1>4. \A j \in SagaLog!Steps \ {i} : j \in UndoneSteps => j \in UndoneSteps'
  BY DEF SagaLog!Undo, SagaLogInv, UndoneSteps
<1>5. i \in Compensable /\ i < s2.step => i \in UndoneSteps'
  <2> SUFFICES ASSUME i \in Compensable, i < s2.step PROVE i \in UndoneSteps'
    OBVIOUS
  <2>1. i \in SagaLog!Steps
    BY SagasAssumption DEF SagaLog!Steps
  <2>2. i \in s2.done
    BY <1>1, <2>1, ExecutionFacts DEF Counted
  <2> QED
    BY <2>1, <2>2 DEF SagaLog!Undo, SagaLogInv, UndoneSteps
<1>6. ASSUME NEW j \in Compensable, i - 1 < j, j < s2.step PROVE j \in UndoneSteps'
  <2>1. j \in SagaLog!Steps /\ j \in Nat
    BY SagasAssumption DEF SagaLog!Steps
  <2>2. CASE j = i
    BY <1>5, <1>6, <2>2
  <2>3. CASE j # i
    <3>1. i < j
      BY <1>1, <1>6, <2>1, <2>3
    <3> QED
      BY <1>1, <1>4, <1>6, <2>1, <2>3, <3>1, ExecutionFacts DEF Counted
  <2> QED
    BY <2>2, <2>3
<1>7. i - 1 < s2.step
  BY <1>1, ExecutionFacts DEF Counted
<1> QED
  BY <1>1, <1>2, <1>3, <1>6, <1>7, ExecutionFacts DEF SagaLogInv, Counted

LEMMA LogRolledBackIsSafe == SagaLogInv /\ SagaLog!RolledBack => SagaLogInv'
<1> SUFFICES ASSUME SagaLogInv, SagaLog!RolledBack PROVE SagaLogInv'
  OBVIOUS
<1>1. s2 # None /\ s2.pc = "undo" /\ s2.undoing = 0 /\ s2' = [s2 EXCEPT !.pc = "rolledback"] /\ s2 \in Execution /\ UNCHANGED <<s4, s5>>
  BY ExecutionFacts DEF SagaLog!RolledBack, SagaLog!At
<1>2. s2' \in Execution /\ s2'.pc = "rolledback" /\ s2'.step = s2.step /\ s2'.done = s2.done /\ s2'.undoing = s2.undoing
  BY <1>1, PcIsTyped
<1>3. UndoneSteps' = UndoneSteps
  BY <1>1 DEF UndoneSteps
<1> QED
  BY <1>1, <1>2, <1>3, ExecutionFacts DEF SagaLogInv, Counted

LEMMA SagaLogNext == SagaLogInv /\ [SagaLog!Next]_(SagaLog!vars) => SagaLogInv'
<1> SUFFICES ASSUME SagaLogInv, [SagaLog!Next]_(SagaLog!vars) PROVE SagaLogInv'
  OBVIOUS
<1>1. CASE s2' = None /\ UNCHANGED s4
  BY <1>1 DEF SagaLogInv
<1>2. CASE UNCHANGED <<s2, s4, s5>>
  <2>1. UndoneSteps' = UndoneSteps
    BY <1>2 DEF UndoneSteps
  <2> QED
    BY <1>2, <2>1 DEF SagaLogInv
<1>3. CASE SagaLog!Completes \/ SagaLog!Raises \/ SagaLog!Crash
  BY <1>1, <1>3 DEF SagaLog!Completes, SagaLog!Raises, SagaLog!Crash
<1>4. CASE SagaLog!LogStep \/ SagaLog!Ages \/ SagaLog!DogReads \/ SagaLog!DogActs \/ UNCHANGED SagaLog!vars
  BY <1>2, <1>4 DEF SagaLog!LogStep, SagaLog!Ages, SagaLog!DogReads, SagaLog!DogActs, SagaLog!vars
<1> QED
  BY <1>3, <1>4, LogExecuteIsSafe, LogWorkIsSafe, LogAdvanceIsSafe, LogExhaustedIsSafe, LogUndoIsSafe, LogRolledBackIsSafe
     DEF SagaLog!Next

------------------------------------------------------------------------------
(* Versions *)

\* Two tables of facts over the keys, and a restore that is a record.
Tables(tables, keys) ==
    /\ DOMAIN tables = {"base", "branch"} /\ tables = [l \in DOMAIN tables |-> tables[l]]
    /\ \A l \in {"base", "branch"} : tables[l] = [k \in keys |-> tables[l][k]]

Restoring(row) == row = [pc |-> row.pc, delete |-> row.delete, save |-> row.save, touched |-> row.touched]

\* A restore under way, or done: what it has yet to delete the snapshot has not,
\* what it has yet to save the snapshot has, and the rest is as the snapshot has
\* it, unless somebody else has changed it since.
OnTheWay(row, keys, snapshot, base) ==
    /\ row.delete \subseteq {k \in keys : snapshot[k] = None}
    /\ row.save \subseteq {k \in keys : snapshot[k] # None}
    /\ \A k \in keys \ row.touched : k \notin row.delete \cup row.save => base[k] = snapshot[k]
    /\ row.pc = "save" => row.delete = {}
    /\ row.pc = "done" => row.delete = {} /\ row.save = {}

RestoreInv(keys) ==
    /\ Tables(s1, keys)
    /\ Restoring(s5)
    /\ s5.pc # "idle" => s3 # None /\ OnTheWay(s5, keys, s3, s1["base"])

LEMMA RestoreInit == ASSUME NEW keys, NEW values, Versions(keys, values)!Init PROVE RestoreInv(keys)
  BY DEF Versions!Init, Versions!Empty, Versions!Layers, Versions!NoRestore, RestoreInv, Tables, Restoring

LEMMA RestoreExact == ASSUME NEW keys, NEW values, RestoreInv(keys) PROVE Versions(keys, values)!RestoreIsExact
  BY DEF RestoreInv, OnTheWay, Versions!RestoreIsExact

\* One fact of one table is written.
Writes(l, k, val) == s1' = [s1 EXCEPT ![l][k] = val]

LEMMA PutKeepsTables ==
  ASSUME NEW keys, Tables(s1, keys), NEW l, NEW k, NEW val, Writes(l, k, val)
  PROVE  /\ Tables(s1', keys)
         /\ \A j \in keys : s1'["base"][j] = IF l = "base" /\ j = k THEN val ELSE s1["base"][j]
<1>1. \A m \in {"base", "branch"} : s1'[m] = IF l = m THEN [s1[m] EXCEPT ![k] = val] ELSE s1[m]
  BY DEF Tables, Writes
<1>2. \A m \in {"base", "branch"} : s1'[m] = [j \in keys |-> IF l = m /\ j = k THEN val ELSE s1[m][j]]
  BY <1>1 DEF Tables
<1>3. DOMAIN s1' = {"base", "branch"} /\ s1' = [m \in DOMAIN s1' |-> s1'[m]]
  BY DEF Tables, Writes
<1> QED
  BY <1>2, <1>3 DEF Tables

\* Somebody writes one fact of the base, and the restore under way notes it.
LEMMA DisturbedIsSafe ==
  ASSUME NEW keys, NEW values, RestoreInv(keys), NEW k, Versions(keys, values)!Disturbs(k), UNCHANGED s3,
         Tables(s1', keys), \A j \in keys \ {k} : s1'["base"][j] = s1["base"][j]
  PROVE  RestoreInv(keys)'
<1>1. CASE s5.pc = "idle"
  BY <1>1 DEF RestoreInv, Versions!Disturbs
<1>2. CASE s5.pc # "idle"
  <2>1. s5' = [s5 EXCEPT !.touched = s5.touched \cup {k}] /\ Restoring(s5)
    BY <1>2 DEF Versions!Disturbs, RestoreInv
  <2>2. s5' = [pc |-> s5.pc, delete |-> s5.delete, save |-> s5.save, touched |-> s5.touched \cup {k}]
    BY <2>1 DEF Restoring
  <2> QED
    BY <1>2, <2>2 DEF RestoreInv, Restoring, OnTheWay
<1> QED
  BY <1>1, <1>2

\* The base stands, and so does the restore.
LEMMA BaseStands ==
  ASSUME NEW keys, RestoreInv(keys), Tables(s1', keys), \A j \in keys : s1'["base"][j] = s1["base"][j],
         UNCHANGED s5, UNCHANGED s3 \/ s3 = None
  PROVE  RestoreInv(keys)'
  BY DEF RestoreInv, OnTheWay

LEMMA EditIsSafe ==
  ASSUME NEW keys, NEW values, RestoreInv(keys), NEW k,
         \/ Versions(keys, values)!Delete(k) \/ Versions(keys, values)!Archive(k)
         \/ \E val : Versions(keys, values)!Save(k, val)
  PROVE  RestoreInv(keys)'
<1>1. PICK val : Writes("base", k, val)
  BY DEF Writes, Versions!Delete, Versions!Archive, Versions!Save, Versions!Put
<1>2. UNCHANGED s3 /\ Versions(keys, values)!Disturbs(k)
  BY DEF Versions!Delete, Versions!Archive, Versions!Save
<1>3. Tables(s1', keys) /\ \A j \in keys \ {k} : s1'["base"][j] = s1["base"][j]
  BY <1>1, PutKeepsTables DEF RestoreInv
<1> QED
  BY <1>2, <1>3, DisturbedIsSafe

LEMMA BranchIsSafe ==
  ASSUME NEW keys, NEW values, RestoreInv(keys),
         \/ Versions(keys, values)!CreateBranch \/ Versions(keys, values)!DeleteBranch
         \/ \E S : Versions(keys, values)!MergeDiffs(S)
         \/ Versions(keys, values)!MergeDies
         \/ \E k, val : Versions(keys, values)!WriteBranch(k, val)
  PROVE  RestoreInv(keys)'
<1>1. UNCHANGED <<s3, s5>>
  BY DEF Versions!CreateBranch, Versions!DeleteBranch, Versions!MergeDiffs, Versions!MergeDies, Versions!WriteBranch
<1>2. CASE UNCHANGED s1
  BY <1>1, <1>2, BaseStands DEF RestoreInv
<1>3. ASSUME NEW row, row = [k \in keys |-> row[k]], s1' = [s1 EXCEPT !["branch"] = row]
      PROVE  RestoreInv(keys)'
  <2>1. Tables(s1', keys) /\ s1'["base"] = s1["base"]
    BY <1>3 DEF RestoreInv, Tables
  <2> QED
    BY <1>1, <2>1, BaseStands
<1>4. ASSUME NEW k, NEW val, Writes("branch", k, val) PROVE RestoreInv(keys)'
  <2>1. Tables(s1', keys) /\ \A j \in keys : s1'["base"][j] = s1["base"][j]
    BY <1>4, PutKeepsTables DEF RestoreInv
  <2> QED
    BY <1>1, <2>1, BaseStands
<1>5. CASE Versions(keys, values)!CreateBranch
  BY <1>3, <1>5 DEF Versions!CreateBranch, RestoreInv, Tables
<1>6. CASE Versions(keys, values)!DeleteBranch
  BY <1>3, <1>6 DEF Versions!DeleteBranch, Versions!Empty
<1>7. CASE \E k, val : Versions(keys, values)!WriteBranch(k, val)
  BY <1>4, <1>7 DEF Versions!WriteBranch, Versions!Put, Writes
<1> QED
  BY <1>2, <1>5, <1>6, <1>7 DEF Versions!MergeDiffs, Versions!MergeDies

LEMMA MergeKeyIsSafe ==
  ASSUME NEW keys, NEW values, RestoreInv(keys), NEW k, Versions(keys, values)!MergeKey(k)
  PROVE  RestoreInv(keys)'
<1>1. UNCHANGED s3
  BY DEF Versions!MergeKey
<1>2. CASE UNCHANGED <<s1, s5>>
  BY <1>1, <1>2, BaseStands DEF RestoreInv
<1>3. CASE Versions(keys, values)!Put("base", k, s1["branch"][k]) /\ Versions(keys, values)!Disturbs(k)
  <2>1. Writes("base", k, s1["branch"][k])
    BY <1>3 DEF Versions!Put, Writes
  <2>2. Tables(s1', keys) /\ \A j \in keys \ {k} : s1'["base"][j] = s1["base"][j]
    BY <2>1, PutKeepsTables DEF RestoreInv
  <2> QED
    BY <1>1, <1>3, <2>2, DisturbedIsSafe
<1> QED
  BY <1>2, <1>3 DEF Versions!MergeKey

LEMMA RollbackIsSafe ==
  ASSUME NEW keys, NEW values, RestoreInv(keys), NEW i, Versions(keys, values)!Rollback(i)
  PROVE  RestoreInv(keys)'
<1> DEFINE m == s4[i]
<1>1. UNCHANGED s3
  BY DEF Versions!Rollback
<1>2. (\E val : Writes(m.layer, m.key, val)) \/ s1' = s1
  BY DEF Writes, Versions!Rollback, Versions!Put, Versions!Erase
<1>3. /\ Tables(s1', keys)
      /\ \A j \in keys : s1'["base"][j] # s1["base"][j] => m.layer = "base" /\ j = m.key
  BY <1>2, PutKeepsTables DEF RestoreInv
<1>4. CASE m.layer = "base" /\ Versions(keys, values)!Disturbs(m.key)
  BY <1>1, <1>3, <1>4, DisturbedIsSafe
<1>5. CASE m.layer # "base" /\ UNCHANGED s5
  BY <1>1, <1>3, <1>5, BaseStands
<1> QED
  BY <1>4, <1>5 DEF Versions!Rollback

LEMMA GoingIsRestoring ==
  ASSUME NEW keys, NEW values, NEW row, Restoring(row)
  PROVE  /\ Restoring(Versions(keys, values)!Going(row))
         /\ Versions(keys, values)!Going(row).delete = row.delete /\ Versions(keys, values)!Going(row).save = row.save
         /\ Versions(keys, values)!Going(row).touched = row.touched
         /\ Versions(keys, values)!Going(row).pc =
               IF row.delete # {} THEN "delete" ELSE IF row.save # {} THEN "save" ELSE "done"
  BY DEF Restoring, Versions!Going

\* A step of the restore itself: what is left fits the snapshot, and what is not
\* left has come to be as the snapshot has it.
LEMMA RestoreGoes ==
  ASSUME NEW keys, NEW values, RestoreInv(keys), s3 # None, UNCHANGED s3, Tables(s1', keys),
         NEW row, Restoring(row), s5' = Versions(keys, values)!Going(row),
         row.delete \subseteq {k \in keys : s3[k] = None}, row.save \subseteq {k \in keys : s3[k] # None},
         \A k \in keys \ row.touched : k \notin row.delete \cup row.save => s1'["base"][k] = s3[k]
  PROVE  RestoreInv(keys)'
  BY GoingIsRestoring DEF RestoreInv, OnTheWay

LEMMA RestoreBeginsIsSafe ==
  ASSUME NEW keys, NEW values, RestoreInv(keys), Versions(keys, values)!RestoreBegins
  PROVE  RestoreInv(keys)'
<1> DEFINE row == [pc |-> "idle", delete |-> Versions(keys, values)!Extra, save |-> Versions(keys, values)!InSnapshot, touched |-> {}]
<1>1. s3 # None /\ UNCHANGED <<s1, s3>> /\ s5' = Versions(keys, values)!Going(row)
  BY DEF Versions!RestoreBegins
<1>2. Restoring(row)
  BY DEF Restoring
<1>3. row.delete \subseteq {k \in keys : s3[k] = None} /\ row.save \subseteq {k \in keys : s3[k] # None}
  BY DEF Versions!Extra, Versions!InSnapshot, Versions!Held
<1>4. \A k \in keys \ row.touched : k \notin row.delete \cup row.save => s1["base"][k] = s3[k]
  BY DEF Versions!Extra, Versions!InSnapshot, Versions!Held
<1> HIDE DEF row
<1> QED
  BY <1>1, <1>2, <1>3, <1>4, RestoreGoes DEF RestoreInv

LEMMA StrikeDelete ==
  ASSUME NEW row, Restoring(row), NEW some, NEW less
  PROVE  [row EXCEPT !.delete = some, !.touched = less] = [pc |-> row.pc, delete |-> some, save |-> row.save, touched |-> less]
<1> DEFINE half == [row EXCEPT !.delete = some]
<1>1. half = [pc |-> row.pc, delete |-> some, save |-> row.save, touched |-> row.touched]
  BY DEF Restoring
<1>2. [row EXCEPT !.delete = some, !.touched = less] = [half EXCEPT !.touched = less]
  OBVIOUS
<1> HIDE DEF half
<1>3. [half EXCEPT !.touched = less] = [pc |-> row.pc, delete |-> some, save |-> row.save, touched |-> less]
  BY <1>1
<1> QED
  BY <1>2, <1>3

LEMMA StrikeSave ==
  ASSUME NEW row, Restoring(row), NEW some, NEW less
  PROVE  [row EXCEPT !.save = some, !.touched = less] = [pc |-> row.pc, delete |-> row.delete, save |-> some, touched |-> less]
<1> DEFINE half == [row EXCEPT !.save = some]
<1>1. half = [pc |-> row.pc, delete |-> row.delete, save |-> some, touched |-> row.touched]
  BY DEF Restoring
<1>2. [row EXCEPT !.save = some, !.touched = less] = [half EXCEPT !.touched = less]
  OBVIOUS
<1> HIDE DEF half
<1>3. [half EXCEPT !.touched = less] = [pc |-> row.pc, delete |-> row.delete, save |-> some, touched |-> less]
  BY <1>1
<1> QED
  BY <1>2, <1>3

LEMMA RestoreStepIsSafe ==
  ASSUME NEW keys, NEW values, RestoreInv(keys),
         Versions(keys, values)!RestoreDeletes \/ Versions(keys, values)!RestoreSaves
  PROVE  RestoreInv(keys)'
<1>1. s5.pc \in {"delete", "save"} /\ s3 # None /\ UNCHANGED s3 /\ OnTheWay(s5, keys, s3, s1["base"]) /\ Restoring(s5)
  BY DEF Versions!RestoreDeletes, Versions!RestoreSaves, RestoreInv
<1>2. CASE Versions(keys, values)!RestoreDeletes
  <2>1. PICK k \in s5.delete :
           /\ Versions(keys, values)!Erase("base", k)
           /\ s5' = Versions(keys, values)!Going([s5 EXCEPT !.delete = @ \ {k}, !.touched = @ \ {k}])
    BY <1>2 DEF Versions!RestoreDeletes
  <2> DEFINE row == [s5 EXCEPT !.delete = @ \ {k}, !.touched = @ \ {k}]
  <2>2. row = [pc |-> s5.pc, delete |-> s5.delete \ {k}, save |-> s5.save, touched |-> s5.touched \ {k}]
    BY <1>1, StrikeDelete
  <2>3. k \in keys /\ s3[k] = None
    BY <1>1 DEF OnTheWay
  <2>4. Tables(s1', keys) /\ \A j \in keys : s1'["base"][j] = IF j = k THEN None ELSE s1["base"][j]
    <3>1. CASE s1["base"][k] = None
      BY <2>1, <3>1 DEF Versions!Erase, RestoreInv
    <3>2. CASE Writes("base", k, None)
      BY <3>2, PutKeepsTables DEF RestoreInv
    <3> QED
      BY <2>1, <3>1, <3>2 DEF Versions!Erase, Versions!Put, Writes
  <2>5. s5' = Versions(keys, values)!Going(row)
    BY <2>1
  <2> HIDE DEF row
  <2> QED
    BY <1>1, <2>2, <2>3, <2>4, <2>5, RestoreGoes DEF OnTheWay, Restoring
<1>3. CASE Versions(keys, values)!RestoreSaves
  <2>1. PICK k \in s5.save :
           /\ Versions(keys, values)!Put("base", k, s3[k])
           /\ s5' = Versions(keys, values)!Going([s5 EXCEPT !.save = @ \ {k}, !.touched = @ \ {k}])
    BY <1>3 DEF Versions!RestoreSaves
  <2> DEFINE row == [s5 EXCEPT !.save = @ \ {k}, !.touched = @ \ {k}]
  <2>2. row = [pc |-> s5.pc, delete |-> s5.delete, save |-> s5.save \ {k}, touched |-> s5.touched \ {k}]
    BY <1>1, StrikeSave
  <2>3. k \in keys /\ s3[k] # None
    BY <1>1 DEF OnTheWay
  <2>4. Tables(s1', keys) /\ \A j \in keys : s1'["base"][j] = IF j = k THEN s3[k] ELSE s1["base"][j]
    <3>1. Writes("base", k, s3[k])
      BY <2>1 DEF Versions!Put, Writes
    <3> QED
      BY <3>1, PutKeepsTables DEF RestoreInv
  <2>5. s5' = Versions(keys, values)!Going(row)
    BY <2>1
  <2> HIDE DEF row
  <2> QED
    BY <1>1, <2>2, <2>3, <2>4, <2>5, RestoreGoes DEF OnTheWay, Restoring
<1> QED
  BY <1>2, <1>3

LEMMA SnapshotIsSafe ==
  ASSUME NEW keys, NEW values, RestoreInv(keys),
         Versions(keys, values)!SnapshotCreate \/ Versions(keys, values)!RestoreDies
  PROVE  RestoreInv(keys)'
<1>1. CASE Versions(keys, values)!SnapshotCreate
  BY <1>1, BaseStands DEF Versions!SnapshotCreate, RestoreInv
<1>2. CASE Versions(keys, values)!RestoreDies
  BY <1>2 DEF Versions!RestoreDies, Versions!NoRestore, RestoreInv, Restoring
<1> QED
  BY <1>1, <1>2

LEMMA RestoreNext ==
  ASSUME NEW keys, NEW values, RestoreInv(keys), [Versions(keys, values)!Next]_(Versions(keys, values)!vars)
  PROVE  RestoreInv(keys)'
<1>1. CASE Versions(keys, values)!Edit
  BY <1>1, EditIsSafe, BranchIsSafe DEF Versions!Edit
<1>2. CASE Versions(keys, values)!Branch
  BY <1>2, BranchIsSafe, MergeKeyIsSafe DEF Versions!Branch
<1>3. CASE Versions(keys, values)!Restore
  BY <1>3, SnapshotIsSafe, RestoreBeginsIsSafe, RestoreStepIsSafe DEF Versions!Restore
<1>4. CASE \E i \in 1..Len(s4) : Versions(keys, values)!Rollback(i)
  BY <1>4, RollbackIsSafe
<1>5. CASE UNCHANGED Versions(keys, values)!vars
  BY <1>5, BaseStands DEF Versions!vars, RestoreInv
<1> QED
  BY <1>1, <1>2, <1>3, <1>4, <1>5 DEF Versions!Next

------------------------------------------------------------------------------
(* Stash *)

PadSet == [Slips -> Notes \cup {None}]
StashSet == [ring : Seq(Nat), pad : PadSet]
HistorySet == [kept : SUBSET Stash!Entries, lost : SUBSET Stash!Entries, saves : Nat]

\* What a stash call under way may count on.
CallHolds(pc, todo, stash, pad, lost) ==
    /\ pc \in {"clear ring", "clear pad", "refill", "write"} => stash # None
    /\ pc = "clear ring" => todo = {} \/ stash.pad = pad
    /\ pc = "clear pad" => stash.pad = pad
    /\ pc \in {"refill", "write"} =>
          /\ todo \subseteq Stash!EntriesOf(stash.pad)
          /\ Stash!EntriesOf(stash.pad) \ todo \subseteq Stash!EntriesOf(pad) \cup lost

StashTypes ==
    /\ s1 \in Seq(Nat) /\ s2 \in Seq(Nat) /\ s5 \in Nat
    /\ s6 \in PadSet
    /\ s7 \in StashSet \cup {None}
    /\ s8 = [pc |-> s8.pc, todo |-> s8.todo]
    /\ s10 = [kept |-> s10.kept, lost |-> s10.lost, saves |-> s10.saves]

EntriesKept(kept, lost, pad, stash) ==
    kept \ lost \subseteq Stash!EntriesOf(pad) \cup (IF stash # None THEN Stash!EntriesOf(stash.pad) ELSE {})

StashInv ==
    /\ StashTypes
    /\ CallHolds(s8.pc, s8.todo, s7, s6, s10.lost)
    /\ EntriesKept(s10.kept, s10.lost, s6, s7)

LEMMA StashKeeps == StashInv => Stash!StashKeepsEntries
  BY DEF StashInv, EntriesKept, Stash!StashKeepsEntries

LEMMA StashInit == Stash!Init => StashInv
  BY DEF Stash!Init, Stash!Blank, Stash!NoCall, StashInv, StashTypes, PadSet, CallHolds, EntriesKept

\* Writing one entry of a pad.
LEMMA WriteOnPad ==
  ASSUME NEW pad \in PadSet, NEW k \in Slips, NEW text \in Notes \cup {None}
  PROVE  /\ [pad EXCEPT ![k] = text] \in PadSet
         /\ Stash!EntriesOf([pad EXCEPT ![k] = text]) =
               (Stash!EntriesOf(pad) \ {<<k, pad[k]>>}) \cup (IF text # None THEN {<<k, text>>} ELSE {})
<1> DEFINE after == [pad EXCEPT ![k] = text]
<1>1. after \in PadSet /\ \A j \in Slips : after[j] = IF j = k THEN text ELSE pad[j]
  BY DEF PadSet
<1> HIDE DEF after
<1>2. Stash!EntriesOf(after) = (Stash!EntriesOf(pad) \ {<<k, pad[k]>>}) \cup (IF text # None THEN {<<k, text>>} ELSE {})
  BY <1>1 DEF Stash!EntriesOf
<1> QED
  BY <1>1, <1>2 DEF after

LEMMA NewestIsRing == ASSUME NEW s \in Seq(Nat) PROVE Stash!Newest(s) \in Seq(Nat)
<1>1. CASE Len(s) > RingSize
  <2>1. Len(s) \in Nat /\ RingSize \in Nat
    BY StashAssumption
  <2>2. Len(s) - RingSize + 1 \in 1..Len(s) + 1 /\ Len(s) \in (Len(s) - RingSize + 1) - 1..Len(s)
    BY <1>1, <2>1
  <2> QED
    BY <1>1, <2>2, SubSeqProperties DEF Stash!Newest
<1> QED
  BY <1>1 DEF Stash!Newest

\* A save of the ring leaves of the history all but its count.
LEMMA SavingTells ==
  ASSUME StashInv, NEW ring \in Seq(Nat), NEW n, Stash!SaveRing(ring, n)
  PROVE  s2' \in Seq(Nat) /\ s10' = [kept |-> s10.kept, lost |-> s10.lost, saves |-> s10'.saves]
<1>1. s10 = [kept |-> s10.kept, lost |-> s10.lost, saves |-> s10.saves] /\ s2 \in Seq(Nat)
  BY DEF StashInv, StashTypes
<1>2. CASE s2' = ring /\ UNCHANGED s10
  BY <1>1, <1>2
<1>3. CASE s2' = s2 /\ s10' = [s10 EXCEPT !.saves = @ + 1]
  BY <1>1, <1>3
<1> QED
  BY <1>2, <1>3 DEF Stash!SaveRing

\* What leaves the pad, the stash, the call and the two sets of the history.
LEMMA PadStands ==
  ASSUME StashInv, s1' \in Seq(Nat), s2' \in Seq(Nat), s5' \in Nat, UNCHANGED <<s6, s7>>,
         s8' = s8 \/ s8' = Stash!NoCall,
         s10' = [kept |-> s10.kept, lost |-> s10.lost, saves |-> s10'.saves]
  PROVE  StashInv'
<1>1. s10'.kept = s10.kept /\ s10'.lost = s10.lost
  OBVIOUS
<1>2. StashTypes'
  BY DEF StashInv, StashTypes, Stash!NoCall
<1>3. EntriesKept(s10.kept, s10.lost, s6, s7)'
  BY <1>1 DEF StashInv, EntriesKept
<1>4. CallHolds(s8'.pc, s8'.todo, s7, s6, s10.lost)
  <2>1. CASE s8' = s8
    BY <2>1 DEF StashInv
  <2>2. CASE s8' = Stash!NoCall
    BY <2>2 DEF Stash!NoCall, CallHolds
  <2> QED
    BY <2>1, <2>2
<1>5. CallHolds(s8.pc, s8.todo, s7, s6, s10.lost)'
  BY <1>1, <1>4
<1> QED
  BY <1>2, <1>3, <1>5 DEF StashInv

LEMMA RingIsSafe == ASSUME StashInv, Stash!Ring PROVE StashInv'
<1>1. s1 \in Seq(Nat) /\ s2 \in Seq(Nat) /\ s5 \in Nat
      /\ s10 = [kept |-> s10.kept, lost |-> s10.lost, saves |-> s10.saves]
  BY DEF StashInv, StashTypes
<1>2. CASE Stash!Add \/ Stash!ImportRing
  <2>1. s1' = Stash!Newest(Append(s1, s5)) /\ s5' = s5 + 1 /\ UNCHANGED <<s6, s7, s8>>
    BY <1>2 DEF Stash!Add, Stash!ImportRing
  <2>2. Append(s1, s5) \in Seq(Nat) /\ s5' \in Nat
    BY <1>1, <2>1
  <2>5. s1' \in Seq(Nat)
    BY <2>1, <2>2, NewestIsRing
  <2>3. (\E n : Stash!SaveRing(s1', n)) \/ UNCHANGED <<s2, s10>>
    BY <1>2 DEF Stash!Add, Stash!ImportRing
  <2>4. s2' \in Seq(Nat) /\ s10' = [kept |-> s10.kept, lost |-> s10.lost, saves |-> s10'.saves]
    BY <1>1, <2>5, <2>3, SavingTells
  <2> QED
    BY <2>1, <2>2, <2>4, <2>5, PadStands
<1>3. CASE Stash!Crash
  BY <1>1, <1>3, PadStands DEF Stash!Crash
<1> QED
  BY <1>2, <1>3 DEF Stash!Ring

\* An entry comes or goes by the agent's own hand.
LEMMA EntryIsSafe ==
  ASSUME StashInv, NEW k \in Slips, NEW text \in Notes \cup {None},
         IF text = None THEN Stash!ClearEntry(k) ELSE Stash!WriteEntry(k, text)
  PROVE  StashInv'
<1> DEFINE kept == IF text = None THEN s10.kept \ {<<k, s6[k]>>} ELSE (s10.kept \ {<<k, s6[k]>>}) \cup {<<k, text>>}
           lost == IF text = None THEN s10.lost ELSE s10.lost \ {<<k, text>>}
<1>1. s6 \in PadSet /\ s10 = [kept |-> s10.kept, lost |-> s10.lost, saves |-> s10.saves]
  BY DEF StashInv, StashTypes
<1>2. s8 = Stash!NoCall /\ s6' = [s6 EXCEPT ![k] = text] /\ UNCHANGED <<s1, s2, s5, s7, s8>>
  BY DEF Stash!ClearEntry, Stash!WriteEntry
<1>3. s10'.kept = kept /\ s10'.lost = lost /\ s10' = [kept |-> s10'.kept, lost |-> s10'.lost, saves |-> s10'.saves]
  <2>1. CASE text = None
    <3>1. s10' = [s10 EXCEPT !.kept = @ \ {<<k, s6[k]>>}]
      BY <2>1 DEF Stash!ClearEntry
    <3> DEFINE less == s10.kept \ {<<k, s6[k]>>}
    <3>2. s10' = [kept |-> less, lost |-> s10.lost, saves |-> s10.saves]
      BY <1>1, <3>1
    <3> QED
      BY <2>1, <3>2
  <2>2. CASE text # None
    <3> DEFINE more == (s10.kept \ {<<k, old>> : old \in {s6[k]}}) \cup {<<k, text>>}
               less == s10.lost \ {<<k, text>>}
    <3>1. s10' = [s10 EXCEPT !.kept = more, !.lost = less]
      BY <2>2 DEF Stash!WriteEntry
    <3>2. kept = more /\ lost = less
      BY <2>2
    <3> HIDE DEF more, less, kept, lost
    <3>3. s10' = [kept |-> more, lost |-> less, saves |-> s10.saves]
      BY <1>1, <3>1
    <3> QED
      BY <3>2, <3>3
  <2> QED
    BY <2>1, <2>2
<1>4. s6' \in PadSet
      /\ Stash!EntriesOf(s6') = (Stash!EntriesOf(s6) \ {<<k, s6[k]>>}) \cup (IF text # None THEN {<<k, text>>} ELSE {})
  BY <1>1, <1>2, WriteOnPad
<1>5. StashTypes'
  BY <1>2, <1>3, <1>4 DEF StashInv, StashTypes
<1>6. EntriesKept(s10.kept, s10.lost, s6, s7)'
  BY <1>2, <1>3, <1>4 DEF StashInv, EntriesKept
<1>7. CallHolds(s8.pc, s8.todo, s7, s6, s10.lost)'
  BY <1>2 DEF CallHolds, Stash!NoCall
<1> QED
  BY <1>5, <1>6, <1>7 DEF StashInv

LEMMA PadIsSafe == ASSUME StashInv, Stash!Pad PROVE StashInv'
<1>1. PICK k \in Slips : Stash!ClearEntry(k) \/ (\E text \in Notes : Stash!WriteEntry(k, text))
  BY DEF Stash!Pad
<1> QED
  BY <1>1, EntryIsSafe, StashAssumption

LEMMA StashSaveIsSafe ==
  ASSUME StashInv, Stash!StashInsert \/ Stash!ClearRing \/ Stash!ClearPad
  PROVE  StashInv'
<1>1. StashTypes
  BY DEF StashInv
<1>2. CASE Stash!StashInsert
  <2>1. PICK pad \in Stash!PadAsRead : s7' = [ring |-> s1, pad |-> pad] /\ s8' = [pc |-> "clear ring", todo |-> Stash!EntriesOf(pad)]
    BY <1>2 DEF Stash!StashInsert
  <2>2. s7 = None /\ UNCHANGED <<s1, s2, s5, s6, s10>>
    BY <1>2 DEF Stash!StashInsert
  <2>3. pad \in PadSet /\ (pad # s6 => Stash!EntriesOf(pad) = {})
    BY <1>1, <2>1 DEF Stash!PadAsRead, StashTypes, PadSet, Stash!Blank, Stash!EntriesOf
  <2>4. s7' \in StashSet /\ s7' # None
    <3>1. s7' \in StashSet
      BY <1>1, <2>1, <2>3 DEF StashTypes, StashSet
    <3> QED
      BY <3>1, StashAssumption DEF StashSet, PadSet
  <2>5. StashTypes'
    BY <1>1, <2>1, <2>2, <2>4 DEF StashTypes
  <2>6. EntriesKept(s10.kept, s10.lost, s6, s7)'
    BY <2>2 DEF StashInv, EntriesKept
  <2>7. CallHolds(s8.pc, s8.todo, s7, s6, s10.lost)'
    BY <2>1, <2>2, <2>3, <2>4 DEF CallHolds
  <2> QED
    BY <2>5, <2>6, <2>7 DEF StashInv
<1>3. CASE Stash!ClearRing
  <2>1. s8.pc = "clear ring" /\ s1' = <<>> /\ UNCHANGED <<s5, s6, s7>> /\ Stash!SaveRing(<<>>, 0)
        /\ s8' = (IF s8.todo # {} THEN [s8 EXCEPT !.pc = "clear pad"] ELSE Stash!NoCall)
    BY <1>3 DEF Stash!ClearRing
  <2>2. s2' \in Seq(Nat) /\ s10' = [kept |-> s10.kept, lost |-> s10.lost, saves |-> s10'.saves]
    <3>1. <<>> \in Seq(Nat)
      OBVIOUS
    <3> QED
      BY <2>1, <3>1, SavingTells
  <2>5. s1' \in Seq(Nat) /\ s5' \in Nat /\ s10'.kept = s10.kept /\ s10'.lost = s10.lost
    <3>1. s1' \in Seq(Nat)
      <4>1. s1' = <<>>
        BY <2>1
      <4> QED
        BY <4>1
    <3>2. s5' \in Nat
      BY <1>1, <2>1 DEF StashTypes
    <3>3. s10'.kept = s10.kept /\ s10'.lost = s10.lost
      BY <2>2
    <3> QED
      BY <3>1, <3>2, <3>3
  <2>3. CASE s8.todo = {}
    <3>1. s8' = Stash!NoCall
      BY <2>1, <2>3
    <3> QED
      BY <2>1, <2>2, <2>5, <3>1, PadStands
  <2>4. CASE s8.todo # {}
    <3>1. s8' = [pc |-> "clear pad", todo |-> s8.todo]
      BY <1>1, <2>1, <2>4 DEF StashTypes
    <3>2. s7 # None /\ s7.pad = s6
      BY <2>1, <2>4 DEF StashInv, CallHolds
    <3>3. StashTypes'
      BY <1>1, <2>1, <2>2, <2>5, <3>1 DEF StashTypes
    <3>4. EntriesKept(s10.kept, s10.lost, s6, s7)'
      BY <2>1, <2>5 DEF StashInv, EntriesKept
    <3>5. CallHolds(s8'.pc, s8'.todo, s7, s6, s10.lost)
      BY <3>1, <3>2 DEF CallHolds
    <3>6. CallHolds(s8.pc, s8.todo, s7, s6, s10.lost)'
      BY <2>1, <2>5, <3>5
    <3> QED
      BY <3>3, <3>4, <3>6 DEF StashInv
  <2> QED
    BY <2>3, <2>4
<1>4. CASE Stash!ClearPad
  <2>1. s8.pc = "clear pad" /\ s8' = Stash!NoCall /\ UNCHANGED <<s1, s2, s5, s7, s10>> /\ s6' \in {s6, Stash!Blank}
    BY <1>4 DEF Stash!ClearPad
  <2>2. s7 # None /\ s7.pad = s6
    BY <2>1 DEF StashInv, CallHolds
  <2>3. s6' \in PadSet
    BY <1>1, <2>1 DEF StashTypes, PadSet, Stash!Blank
  <2>4. StashTypes'
    BY <1>1, <2>1, <2>3 DEF StashTypes, Stash!NoCall
  <2>5. EntriesKept(s10.kept, s10.lost, s6, s7)'
    BY <2>1, <2>2 DEF StashInv, EntriesKept
  <2>6. CallHolds(s8.pc, s8.todo, s7, s6, s10.lost)'
    BY <2>1 DEF CallHolds, Stash!NoCall
  <2> QED
    BY <2>4, <2>5, <2>6 DEF StashInv
<1> QED
  BY <1>2, <1>3, <1>4

LEMMA StashPopIsSafe == ASSUME StashInv, Stash!StashPop \/ Stash!Refill PROVE StashInv'
<1>1. StashTypes
  BY DEF StashInv
<1>2. CASE Stash!StashPop
  <2>1. s7 # None /\ s8' = [pc |-> "refill", todo |-> Stash!EntriesOf(s7.pad)] /\ UNCHANGED <<s1, s2, s5, s6, s7, s10>>
    BY <1>2 DEF Stash!StashPop
  <2>2. StashTypes'
    BY <1>1, <2>1 DEF StashTypes
  <2>3. EntriesKept(s10.kept, s10.lost, s6, s7)'
    BY <2>1 DEF StashInv, EntriesKept
  <2>4. CallHolds(s8.pc, s8.todo, s7, s6, s10.lost)'
    BY <2>1 DEF CallHolds
  <2> QED
    BY <2>2, <2>3, <2>4 DEF StashInv
<1>3. CASE Stash!Refill
  <2>1. s8.pc = "refill" /\ s1' = s7.ring /\ s8' = [s8 EXCEPT !.pc = "write"] /\ UNCHANGED <<s5, s6, s7>>
    BY <1>3 DEF Stash!Refill
  <2>2. s7 # None /\ s7 \in StashSet
    BY <1>1, <2>1 DEF StashInv, CallHolds, StashTypes
  <2>3. s1' \in Seq(Nat)
    BY <2>1, <2>2 DEF StashSet
  <2>4. PICK i \in 0..Len(s7.ring) :
           \/ s2' = SubSeq(s7.ring, 1, i) /\ UNCHANGED s10
           \/ s2' = s2 /\ s10' = [s10 EXCEPT !.saves = @ + 1]
    BY <1>3 DEF Stash!Refill
  <2>5. SubSeq(s7.ring, 1, i) \in Seq(Nat)
    <3>1. s7.ring \in Seq(Nat) /\ i \in 0..Len(s7.ring) /\ Len(s7.ring) \in Nat
      BY <2>2, <2>4 DEF StashSet
    <3>2. 1 \in 1..Len(s7.ring) + 1 /\ i \in 1 - 1..Len(s7.ring)
      BY <3>1
    <3> QED
      BY <3>1, <3>2, SubSeqProperties
  <2>6. s2' \in Seq(Nat) /\ s10' = [kept |-> s10.kept, lost |-> s10.lost, saves |-> s10'.saves]
    <3>1. CASE s2' = SubSeq(s7.ring, 1, i) /\ UNCHANGED s10
      BY <1>1, <2>5, <3>1 DEF StashTypes
    <3>2. CASE s2' = s2 /\ s10' = [s10 EXCEPT !.saves = @ + 1]
      BY <1>1, <3>2 DEF StashTypes
    <3> QED
      BY <2>4, <3>1, <3>2
  <2>7. s8' = [pc |-> "write", todo |-> s8.todo]
    BY <1>1, <2>1 DEF StashTypes
  <2>8. StashTypes'
    BY <1>1, <2>1, <2>3, <2>6, <2>7 DEF StashTypes
  <2>9. EntriesKept(s10.kept, s10.lost, s6, s7)'
    BY <2>1, <2>6 DEF StashInv, EntriesKept
  <2>10. CallHolds(s8.pc, s8.todo, s7, s6, s10.lost)'
    <3>1. s10'.lost = s10.lost
      BY <2>6
    <3> QED
      BY <2>1, <2>7, <3>1 DEF StashInv, CallHolds
  <2> QED
    BY <2>8, <2>9, <2>10 DEF StashInv
<1> QED
  BY <1>2, <1>3

LEMMA PopWritesIsSafe == ASSUME StashInv, Stash!PopWrites PROVE StashInv'
<1>1. StashTypes /\ s8.pc = "write" /\ UNCHANGED <<s1, s2, s5, s7>>
  BY DEF StashInv, Stash!PopWrites
<1>2. PICK e \in s8.todo :
         /\ s8' = [s8 EXCEPT !.todo = @ \ {e}]
         /\ \/ /\ s6' = [s6 EXCEPT ![e[1]] = e[2]]
               /\ s10' = [s10 EXCEPT !.lost = @ \cup ({<<e[1], s6[e[1]]>>} \cap (Stash!Entries \ {e}))]
            \/ UNCHANGED s6 /\ s10' = [s10 EXCEPT !.lost = @ \cup {e}]
  BY DEF Stash!PopWrites
<1> DEFINE left == s8.todo \ {e}
<1>3. s8' = [pc |-> "write", todo |-> left]
  BY <1>1, <1>2 DEF StashTypes
<1>4. s7 # None /\ s7 \in StashSet /\ s8.todo \subseteq Stash!EntriesOf(s7.pad)
      /\ Stash!EntriesOf(s7.pad) \ s8.todo \subseteq Stash!EntriesOf(s6) \cup s10.lost
  BY <1>1 DEF StashInv, CallHolds, StashTypes
<1>5. PICK k \in Slips : e = <<k, s7.pad[k]>> /\ s7.pad[k] # None /\ s7.pad[k] \in Notes
  BY <1>2, <1>4 DEF Stash!EntriesOf, StashSet, PadSet
<1>6. \A x \in Stash!EntriesOf(s7.pad) \ {e} : x[1] # k /\ x = <<x[1], x[2]>>
  BY <1>5 DEF Stash!EntriesOf
<1>7. CASE UNCHANGED s6 /\ s10' = [s10 EXCEPT !.lost = @ \cup {e}]
  <2> DEFINE lost == s10.lost \cup {e}
  <2>1. s10' = [kept |-> s10.kept, lost |-> lost, saves |-> s10.saves]
    BY <1>1, <1>7 DEF StashTypes
  <2>2. StashTypes'
    BY <1>1, <1>3, <1>7, <2>1 DEF StashTypes
  <2>3. EntriesKept(s10.kept, s10.lost, s6, s7)'
    BY <1>1, <1>7, <2>1 DEF StashInv, EntriesKept
  <2>4. CallHolds(s8.pc, s8.todo, s7, s6, s10.lost)'
    BY <1>1, <1>3, <1>4, <1>7, <2>1 DEF CallHolds
  <2> QED
    BY <2>2, <2>3, <2>4 DEF StashInv
<1>8. CASE /\ s6' = [s6 EXCEPT ![e[1]] = e[2]]
           /\ s10' = [s10 EXCEPT !.lost = @ \cup ({<<e[1], s6[e[1]]>>} \cap (Stash!Entries \ {e}))]
  <2> DEFINE over == {<<k, s6[k]>>} \cap (Stash!Entries \ {e})
             lost == s10.lost \cup over
  <2>1. s10' = [kept |-> s10.kept, lost |-> lost, saves |-> s10.saves]
    BY <1>1, <1>5, <1>8 DEF StashTypes
  <2>2. s6' \in PadSet /\ Stash!EntriesOf(s6') = (Stash!EntriesOf(s6) \ {<<k, s6[k]>>}) \cup {e}
    BY <1>1, <1>5, <1>8, WriteOnPad DEF StashTypes
  <2>3. Stash!EntriesOf(s6) \subseteq Stash!Entries
    BY <1>1 DEF StashTypes, PadSet, Stash!EntriesOf, Stash!Entries
  <2>4. Stash!EntriesOf(s6) \subseteq Stash!EntriesOf(s6') \cup lost
    BY <2>2, <2>3
  <2>5. StashTypes'
    BY <1>1, <1>3, <2>1, <2>2 DEF StashTypes
  <2>6. EntriesKept(s10.kept, s10.lost, s6, s7)'
    <3>1. s10'.kept = s10.kept /\ s10'.lost = lost
      BY <2>1
    <3> QED
      BY <1>1, <1>4, <2>4, <3>1 DEF StashInv, EntriesKept
  <2>7. CallHolds(s8.pc, s8.todo, s7, s6, s10.lost)'
    <3>1. s10'.lost = lost /\ s8'.pc = "write" /\ s8'.todo = left
      BY <1>3, <2>1
    <3> HIDE DEF lost
    <3>2. Stash!EntriesOf(s7.pad) \ left \subseteq Stash!EntriesOf(s6') \cup lost
      BY <1>4, <2>2, <2>4 DEF lost
    <3> QED
      BY <1>1, <1>4, <3>1, <3>2 DEF CallHolds
  <2> QED
    BY <2>5, <2>6, <2>7 DEF StashInv
<1> QED
  BY <1>2, <1>7, <1>8

LEMMA StashGoesIsSafe == ASSUME StashInv, Stash!PopDrops \/ Stash!StashDrop PROVE StashInv'
<1>1. StashTypes
  BY DEF StashInv
<1>2. CASE Stash!PopDrops
  <2>1. s8.pc = "write" /\ s8.todo = {} /\ s7' = None /\ s8' = Stash!NoCall /\ UNCHANGED <<s1, s2, s5, s6, s10>>
    BY <1>2 DEF Stash!PopDrops, Stash!AllWritten
  <2>2. Stash!EntriesOf(s7.pad) \subseteq Stash!EntriesOf(s6) \cup s10.lost
    BY <2>1 DEF StashInv, CallHolds
  <2>3. StashTypes'
    BY <1>1, <2>1 DEF StashTypes, Stash!NoCall
  <2>4. EntriesKept(s10.kept, s10.lost, s6, s7)'
    BY <2>1, <2>2 DEF StashInv, EntriesKept
  <2>5. CallHolds(s8.pc, s8.todo, s7, s6, s10.lost)'
    BY <2>1 DEF CallHolds, Stash!NoCall
  <2> QED
    BY <2>3, <2>4, <2>5 DEF StashInv
<1>3. CASE Stash!StashDrop
  <2> DEFINE kept == s10.kept \ (Stash!EntriesOf(s7.pad) \ Stash!EntriesOf(s6))
  <2>1. s7' = None /\ s8 = Stash!NoCall /\ UNCHANGED <<s1, s2, s5, s6, s8>> /\ s10' = [s10 EXCEPT !.kept = kept]
    BY <1>3 DEF Stash!StashDrop
  <2>2. s10' = [kept |-> kept, lost |-> s10.lost, saves |-> s10.saves]
    BY <1>1, <2>1 DEF StashTypes
  <2>3. StashTypes'
    BY <1>1, <2>1, <2>2 DEF StashTypes
  <2>4. EntriesKept(s10.kept, s10.lost, s6, s7)'
    BY <2>1, <2>2 DEF StashInv, EntriesKept
  <2>5. CallHolds(s8.pc, s8.todo, s7, s6, s10.lost)'
    BY <2>1 DEF CallHolds, Stash!NoCall
  <2> QED
    BY <2>3, <2>4, <2>5 DEF StashInv
<1> QED
  BY <1>2, <1>3

LEMMA StashNext == StashInv /\ [Stash!Next]_(Stash!vars) => StashInv'
<1> SUFFICES ASSUME StashInv, [Stash!Next]_(Stash!vars) PROVE StashInv'
  OBVIOUS
<1>1. CASE UNCHANGED Stash!vars
  BY <1>1, PadStands DEF Stash!vars, StashInv, StashTypes
<1>2. CASE Stash!Stashing
  BY <1>2, StashSaveIsSafe, StashPopIsSafe, PopWritesIsSafe, StashGoesIsSafe DEF Stash!Stashing
<1> QED
  BY <1>1, <1>2, RingIsSafe, PadIsSafe DEF Stash!Next
------------------------------------------------------------------------------
(* The run: the component in focus steps, the others do not. *)

LEMMA FocusStays == [Next]_slots => focus' = focus
  BY DEF Next, slots, Keeps

\* The same of the run: HealthyHandlesSurvive.
THEOREM HandlesSurvive == Spec => HealthyHandlesSurvive
<1> DEFINE Inv == focus = "connections" => HandlesInv
<1>1. Init => Inv
  BY ConnectionsInit DEF Init
<1>2. [Next]_slots => [focus = "connections" => Connections!Next]_slots
  BY DEF Next
<1>3. Inv /\ [Next]_slots => Inv'
  <2> SUFFICES ASSUME Inv, [Next]_slots, focus' = "connections" PROVE HandlesInv'
    OBVIOUS
  <2>1. HandlesInv /\ [Connections!Next]_(Connections!vars)
    BY FocusStays DEF Next, slots, Connections!vars
  <2> QED
    BY <2>1, ConnectionsNext
<1>4. Inv /\ [Next]_slots => [focus = "connections" => Connections!HealthyHandlesSurvive]_slots
  <2> SUFFICES ASSUME Inv, [Next]_slots, focus = "connections" PROVE Connections!HealthyHandlesSurvive
    OBVIOUS
  <2>1. HandlesInv /\ [Connections!Next]_(Connections!vars)
    BY FocusStays DEF Next, slots, Connections!vars
  <2> QED
    BY <2>1, ClosesAreDue
<1> QED
  BY <1>1, <1>3, <1>4, PTL DEF Spec, HealthyHandlesSurvive

\* The same of the run, with the imports beside it: FirstClaimStands.
THEOREM NewerStands == Spec => FirstClaimStands
<1> DEFINE Inv == (focus = "deliveries" => DeliveriesInv) /\ (focus = "tools" => ToolsInv)
<1>1. Init => Inv
  BY DeliveriesInit, ToolsInit DEF Init
<1>2. ASSUME Inv, [Next]_slots, focus = "deliveries" PROVE DeliveriesInv' /\ Deliveries!ProvenanceIsKept
  <2>1. DeliveriesInv /\ [Deliveries!Next]_(Deliveries!vars)
    BY <1>2, FocusStays DEF Next, slots, Deliveries!vars
  <2> QED
    BY <2>1, DeliveriesNext, ClaimsStand
<1>3. ASSUME Inv, [Next]_slots, focus = "tools" PROVE ToolsInv' /\ Tools!NewestWins
  <2>1. ToolsInv /\ [Tools!Next]_(Tools!vars)
    BY <1>3, FocusStays DEF Next, slots, Tools!vars
  <2> QED
    BY <2>1, ToolsNext, NewestStays
<1>4. Inv /\ [Next]_slots => Inv'
  BY <1>2, <1>3, FocusStays
<1>5. Inv /\ [Next]_slots => [ /\ focus = "deliveries" => Deliveries!ProvenanceIsKept
                               /\ focus = "tools" => Tools!NewestWins ]_slots
  BY <1>2, <1>3
<1> QED
  BY <1>1, <1>4, <1>5, PTL DEF Spec, FirstClaimStands

\* No cache of the run passes off what it holds for something else.
THEOREM HonestCaches == Spec => []CachesAreHonest
<1> DEFINE Inv == (focus = "embeddings" => VectorsInv) /\ (focus = "tools" => ToolsInv)
<1>1. Init => Inv
  BY VectorsInit, ToolsInit DEF Init
<1>2. ASSUME Inv, [Next]_slots, focus = "embeddings" PROVE VectorsInv'
  <2>1. VectorsInv /\ [Embeddings!Next]_(Embeddings!vars)
    BY <1>2, FocusStays DEF Next, slots, Embeddings!vars
  <2> QED
    BY <2>1, VectorsNext
<1>3. ASSUME Inv, [Next]_slots, focus = "tools" PROVE ToolsInv'
  <2>1. ToolsInv /\ [Tools!Next]_(Tools!vars)
    BY <1>3, FocusStays DEF Next, slots, Tools!vars
  <2> QED
    BY <2>1, ToolsNext
<1>4. Inv /\ [Next]_slots => Inv'
  BY <1>2, <1>3, FocusStays
<1>5. Inv => CachesAreHonest
  BY DEF CachesAreHonest, VectorsInv, ToolsInv
<1> QED
  BY <1>1, <1>4, <1>5, PTL DEF Spec

\* What the run undoes is undone: both sagas, the restore of a snapshot for the
\* two choices of keys and values, and the stash.
THEOREM UndoneIsUndone == Spec => []UndoneMeansUndone
<1> DEFINE Inv == /\ focus = "sagas" => SagaInv
                  /\ focus = "sagalog" => SagaLogInv
                  /\ focus = "versions" => RestoreInv({p, q})
                  /\ focus = "edits" => RestoreInv({p})
                  /\ focus = "stash" => StashInv
<1>1. Init => Inv
  BY SagaInit, SagaLogInit, RestoreInit, StashInit DEF Init
<1>2. ASSUME Inv, [Next]_slots, focus = "sagas" PROVE SagaInv'
  <2>1. SagaInv /\ [Sagas!Next]_(Sagas!vars)
    BY <1>2, FocusStays DEF Next, slots, Sagas!vars
  <2> QED
    BY <2>1, SagaNext
<1>3. ASSUME Inv, [Next]_slots, focus = "sagalog" PROVE SagaLogInv'
  <2>1. SagaLogInv /\ [SagaLog!Next]_(SagaLog!vars)
    BY <1>3, FocusStays DEF Next, slots, SagaLog!vars
  <2> QED
    BY <2>1, SagaLogNext
<1>4. ASSUME Inv, [Next]_slots, focus = "versions" PROVE RestoreInv({p, q})'
  <2>1. RestoreInv({p, q}) /\ [Versions({p, q}, {t})!Next]_(Versions({p, q}, {t})!vars)
    BY <1>4, FocusStays DEF Next, slots, Versions!vars
  <2> QED
    BY <2>1, RestoreNext
<1>5. ASSUME Inv, [Next]_slots, focus = "edits" PROVE RestoreInv({p})'
  <2>1. RestoreInv({p}) /\ [Versions({p}, {t, u})!Next]_(Versions({p}, {t, u})!vars)
    BY <1>5, FocusStays DEF Next, slots, Versions!vars
  <2> QED
    BY <2>1, RestoreNext
<1>6. ASSUME Inv, [Next]_slots, focus = "stash" PROVE StashInv'
  <2>1. StashInv /\ [Stash!Next]_(Stash!vars)
    BY <1>6, FocusStays DEF Next, slots, Stash!vars
  <2> QED
    BY <2>1, StashNext
<1>7. Inv /\ [Next]_slots => Inv'
  BY <1>2, <1>3, <1>4, <1>5, <1>6, FocusStays
<1>8. Inv => UndoneMeansUndone
  BY RollbackIsCovered, RestoreExact, StashKeeps DEF UndoneMeansUndone, SagaInv
<1> QED
  BY <1>1, <1>7, <1>8, PTL DEF Spec
=============================================================================
