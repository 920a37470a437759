-------------------------- MODULE Nightly_proofs --------------------------
(***************************************************************************)
(* Proofs about Nightly, for any processes, jobs, steps and bounds: the      *)
(* state keeps its type, a nightly job runs only under the maintenance lock   *)
(* until it is given up, and a pass never begins on top of another's work.    *)
(***************************************************************************)
EXTENDS Nightly, TLAPS

-----------------------------------------------------------------------------
(* The inductive invariant *)

\* A thread with a step to wait for has a step left.
StepsRemain == \A p \in Procs : cron[p].pc \in {"submit", "await"} => cron[p].step \in 1..LastStep

\* From its first step to its finish a pass has the maintenance lock.
PassHasTheBase ==
    \A p \in Procs : cron[p].pc \in {"submit", "await", "finish"} => base = Held(p, "pass")

\* A pass's job would not be covered by the lock were it not for the pass itself
\* holding it when the job is submitted and when the lock is carried over.
Guarded == TypeOK /\ StepsRemain /\ PassHasTheBase /\ NightlyWorkHoldsTheBase

\* The lock of one process for one use is no other's, and is not free.
LEMMA LocksDiffer ==
    ASSUME NEW p \in Procs, NEW q \in Procs, NEW u \in Uses, NEW v \in Uses
    PROVE  /\ Held(p, u) # Free
           /\ Held(p, u) = Held(q, v) => p = q /\ u = v
           /\ Held(p, u) \in [by : Procs, for : Uses] \cup {Free}
           /\ Held(p, u).by = p /\ Free.by = None /\ p # None
           /\ Held(p, u).for = u
  BY NobodyAssumption DEF Held, Free

\* The release of a carried lock leaves every other lock alone.
LEMMA ReleaseIsOwn ==
    ASSUME TypeOK, NEW p \in Procs, NEW s, base' = ReleasedIfIdle(p, s)
    PROVE  /\ base' \in [by : Procs, for : Uses] \cup {Free}
           /\ \A q \in Procs : base = Held(q, "pass") => base' = base
           /\ \A q \in Procs \ {p} : base = Held(q, "carried") => base' = base
           /\ s # {} => base' = base
<1>1. base \in [by : Procs, for : Uses] \cup {Free}
  BY DEF TypeOK
<1>2. \A q \in Procs : Held(q, "pass") # Held(p, "carried")
  BY LocksDiffer DEF Uses
<1>3. \A q \in Procs \ {p} : Held(q, "carried") # Held(p, "carried")
  BY LocksDiffer DEF Uses
<1>. QED
  BY <1>1, <1>2, <1>3 DEF ReleasedIfIdle

\* The steps of a pass are numbered from one.
LEMMA StepNumbers == LastStep \in Nat /\ LastStep >= 1 /\ Layers \in 1..LastStep
  BY StepsAssumption DEF LastStep

-----------------------------------------------------------------------------
(* Types *)

\* What the actions change in a thread leaves it a thread.
LEMMA ThreadMoves ==
    ASSUME NEW c \in Thread
    PROVE  /\ \A pc \in Places : [c EXCEPT !.pc = pc] \in Thread
           /\ \A pc \in Places, a \in Ages : [c EXCEPT !.pc = pc, !.started = a] \in Thread
           /\ \A pc \in Places, v \in Verdicts : [c EXCEPT !.pc = pc, !.verdict = v] \in Thread
           /\ \A pc \in Places, s \in 1..LastStep + 1, v \in Verdicts : [c EXCEPT !.pc = pc, !.step = s, !.verdict = v] \in Thread
           /\ \A pc \in Places, s \in 1..LastStep + 1, k \in Jobs \cup {None}, v \in Verdicts : [c EXCEPT !.pc = pc, !.step = s, !.job = k, !.verdict = v] \in Thread
           /\ \A pc \in Places, s \in 1..LastStep + 1, v \in Verdicts, b \in BOOLEAN : [c EXCEPT !.pc = pc, !.step = s, !.verdict = v, !.backoff = b] \in Thread
           /\ \A pc \in Places, k \in Jobs \cup {None}, w \in SUBSET Jobs : [c EXCEPT !.pc = pc, !.job = k, !.wiki = w] \in Thread
           /\ \A pc \in Places, k \in Jobs \cup {None} : [c EXCEPT !.pc = pc, !.job = k] \in Thread
           /\ \A w \in SUBSET Jobs : [c EXCEPT !.wiki = w] \in Thread
           /\ \A a \in Ages : [c EXCEPT !.started = a] \in Thread
           /\ \A b \in BOOLEAN : [c EXCEPT !.backoff = b] \in Thread
           /\ \A b \in BOOLEAN : [c EXCEPT !.leaving = b] \in Thread
<1>1. \A pc \in Places :
        [c EXCEPT !.pc = pc] \in Thread
  BY Zenon DEF Thread
<1>2. \A pc \in Places, a \in Ages :
        [c EXCEPT !.pc = pc, !.started = a] \in Thread
  BY Zenon DEF Thread
<1>3. \A pc \in Places, v \in Verdicts :
        [c EXCEPT !.pc = pc, !.verdict = v] \in Thread
  BY Zenon DEF Thread
<1>4. \A pc \in Places, s \in 1..LastStep + 1, v \in Verdicts :
        [c EXCEPT !.pc = pc, !.step = s, !.verdict = v] \in Thread
  BY Zenon DEF Thread
<1>5. \A pc \in Places, s \in 1..LastStep + 1, k \in Jobs \cup {None}, v \in Verdicts :
        [c EXCEPT !.pc = pc, !.step = s, !.job = k, !.verdict = v] \in Thread
  BY Zenon DEF Thread
<1>6. \A pc \in Places, s \in 1..LastStep + 1, v \in Verdicts, b \in BOOLEAN :
        [c EXCEPT !.pc = pc, !.step = s, !.verdict = v, !.backoff = b] \in Thread
  BY Zenon DEF Thread
<1>7. \A pc \in Places, k \in Jobs \cup {None}, w \in SUBSET Jobs :
        [c EXCEPT !.pc = pc, !.job = k, !.wiki = w] \in Thread
  BY Zenon DEF Thread
<1>8. \A pc \in Places, k \in Jobs \cup {None} :
        [c EXCEPT !.pc = pc, !.job = k] \in Thread
  BY Zenon DEF Thread
<1>9. \A w \in SUBSET Jobs :
        [c EXCEPT !.wiki = w] \in Thread
  BY Zenon DEF Thread
<1>10. \A a \in Ages :
        [c EXCEPT !.started = a] \in Thread
  BY Zenon DEF Thread
<1>11. \A b \in BOOLEAN :
        [c EXCEPT !.backoff = b] \in Thread
  BY Zenon DEF Thread
<1>12. \A b \in BOOLEAN :
        [c EXCEPT !.leaving = b] \in Thread
  BY Zenon DEF Thread
<1>. QED
  BY <1>1, <1>2, <1>3, <1>4, <1>5, <1>6, <1>7, <1>8, <1>9, <1>10, <1>11, <1>12

\* A thread as a process finds it when it starts.
LEMMA NewThreadType == \A b \in BOOLEAN : NewThread(b) \in Thread
  BY StepNumbers DEF NewThread, Thread, Places, Verdicts, Ages

\* The fields of a thread.
LEMMA ThreadFields ==
    ASSUME NEW c \in Thread
    PROVE  /\ c.pc \in Places /\ c.step \in 1..LastStep + 1 /\ c.job \in Jobs \cup {None}
           /\ c.wiki \in SUBSET Jobs /\ c.verdict \in Verdicts /\ c.started \in Ages
           /\ c.backoff \in BOOLEAN /\ c.leaving \in BOOLEAN
  BY Zenon DEF Thread

-----------------------------------------------------------------------------
(* Every action keeps the types *)

\* One thread changes into one that has a step left if it needs one.
LEMMA ThreadStep ==
    ASSUME TypeOK, StepsRemain, NEW p \in Procs, NEW c \in Thread,
           c.pc \in {"submit", "await"} => c.step \in 1..LastStep,
           cron' = [cron EXCEPT ![p] = c]
    PROVE  cron' \in [Procs -> Thread] /\ StepsRemain'
  BY DEF TypeOK, StepsRemain

\* Leadership, deaths and time.
LEMMA LifeTypes ==
    ASSUME TypeOK, StepsRemain, NEW p \in Procs,
           Claim(p) \/ Leave(p) \/ Die(p) \/ Exit(p) \/ GraceEnds(p) \/ BackoffEnds(p)
    PROVE  TypeOK' /\ StepsRemain'
<1>1. cron \in [Procs -> Thread] /\ cron[p] \in Thread
  BY DEF TypeOK
<1>2. cron[p].pc \in {"submit", "await"} => cron[p].step \in 1..LastStep
  BY DEF StepsRemain
<1>3. ASSUME Claim(p) PROVE TypeOK' /\ StepsRemain'
  <2>. DEFINE c == [cron[p] EXCEPT !.pc = "sleep"]
  <2>1. c \in Thread
    BY <1>1, <1>2, ThreadMoves DEF Places, Verdicts, Ages
  <2>2. c.pc \in {"submit", "await"} => c.step \in 1..LastStep
    BY <1>1, <1>3 DEF Claim, Goto, jobs, Thread, StepsRemain
  <2>3. cron' = [cron EXCEPT ![p] = c]
    BY <1>1, <1>3 DEF Claim, Goto, jobs
  <2>4. cron' \in [Procs -> Thread] /\ StepsRemain'
    BY <2>1, <2>2, <2>3, ThreadStep
  <2>. QED
    BY <1>1, <1>3, <2>4 DEF TypeOK, Claim, Goto, jobs
<1>4. ASSUME Leave(p) PROVE TypeOK' /\ StepsRemain'
  <2>. DEFINE c == [cron[p] EXCEPT !.leaving = TRUE]
  <2>1. c \in Thread
    BY <1>1, <1>2, ThreadMoves DEF Places, Verdicts, Ages
  <2>2. c.pc \in {"submit", "await"} => c.step \in 1..LastStep
    BY <1>1, <1>4, <1>2 DEF Leave, jobs, Thread, StepsRemain
  <2>3. cron' = [cron EXCEPT ![p] = c]
    BY <1>1, <1>4 DEF Leave, jobs
  <2>4. cron' \in [Procs -> Thread] /\ StepsRemain'
    BY <2>1, <2>2, <2>3, ThreadStep
  <2>. QED
    BY <1>1, <1>4, <2>4, LimitsAssumption DEF TypeOK, Leave, jobs
<1>5. ASSUME GraceEnds(p) PROVE TypeOK' /\ StepsRemain'
  <2>. DEFINE c == [cron[p] EXCEPT !.started = "long ago"]
  <2>1. c \in Thread
    BY <1>1, <1>2, ThreadMoves DEF Places, Verdicts, Ages
  <2>2. c.pc \in {"submit", "await"} => c.step \in 1..LastStep
    BY <1>1, <1>5, <1>2 DEF GraceEnds, jobs, locks, Thread, StepsRemain
  <2>3. cron' = [cron EXCEPT ![p] = c]
    BY <1>1, <1>5 DEF GraceEnds, jobs, locks
  <2>4. cron' \in [Procs -> Thread] /\ StepsRemain'
    BY <2>1, <2>2, <2>3, ThreadStep
  <2>. QED
    BY <1>1, <1>5, <2>4 DEF TypeOK, GraceEnds, jobs, locks
<1>6. ASSUME BackoffEnds(p) PROVE TypeOK' /\ StepsRemain'
  <2>. DEFINE c == [cron[p] EXCEPT !.backoff = FALSE]
  <2>1. c \in Thread
    BY <1>1, <1>2, ThreadMoves DEF Places, Verdicts, Ages
  <2>2. c.pc \in {"submit", "await"} => c.step \in 1..LastStep
    BY <1>1, <1>6, <1>2 DEF BackoffEnds, jobs, locks, Thread, StepsRemain
  <2>3. cron' = [cron EXCEPT ![p] = c]
    BY <1>1, <1>6 DEF BackoffEnds, jobs, locks
  <2>4. cron' \in [Procs -> Thread] /\ StepsRemain'
    BY <2>1, <2>2, <2>3, ThreadStep
  <2>. QED
    BY <1>1, <1>6, <2>4 DEF TypeOK, BackoffEnds, jobs, locks
<1>7. ASSUME Vanish(p), losses' \in 0..MaxLosses PROVE TypeOK' /\ StepsRemain'
  <2>1. PICK b \in BOOLEAN : cron' = [cron EXCEPT ![p] = NewThread(b)]
    BY <1>7 DEF Vanish
  <2>2. NewThread(b) \in Thread /\ NewThread(b).pc = "off"
    BY NewThreadType DEF NewThread
  <2>3. cron' \in [Procs -> Thread] /\ StepsRemain'
    BY <2>1, <2>2, ThreadStep
  <2>. QED
    BY <1>7, <2>3 DEF TypeOK, Vanish
<1>8. ASSUME Die(p) \/ Exit(p) PROVE Vanish(p) /\ losses' \in 0..MaxLosses
  BY <1>8, LimitsAssumption DEF Die, Exit, TypeOK
<1>. QED
  BY <1>3, <1>4, <1>5, <1>6, <1>7, <1>8

\* Jobs, their callbacks and housekeeping.
LEMMA LoopTypes ==
    ASSUME TypeOK, StepsRemain, NEW p \in Procs,
           \/ \E j \in Jobs : JobEnds(p, j) \/ Callback(p, j)
           \/ HouseTakes(p) \/ HouseEnds(p) \/ CycleDue
    PROVE  TypeOK' /\ StepsRemain'
<1>1. cron \in [Procs -> Thread] /\ cron[p] \in Thread
  BY DEF TypeOK
<1>2. cron[p].pc \in {"submit", "await"} => cron[p].step \in 1..LastStep
  BY DEF StepsRemain
<1>3. ASSUME NEW j \in Jobs, JobEnds(p, j) PROVE TypeOK' /\ StepsRemain'
  <2>. DEFINE c == [cron[p] EXCEPT !.wiki = @ \ {j}]
  <2>1. c \in Thread
    BY <1>1, ThreadMoves, ThreadFields
  <2>2. c.pc \in {"submit", "await"} => c.step \in 1..LastStep
    BY <1>1, <1>2 DEF Thread
  <2>3. cron' = [cron EXCEPT ![p] = c]
    BY <1>1, <1>3 DEF JobEnds
  <2>4. cron' \in [Procs -> Thread] /\ StepsRemain'
    BY <2>1, <2>2, <2>3, ThreadStep
  <2>. QED
    BY <1>3, <2>4 DEF TypeOK, JobEnds, locks
<1>4. ASSUME NEW j \in Jobs, Callback(p, j) PROVE TypeOK' /\ StepsRemain'
  <2>1. base' \in [by : Procs, for : Uses] \cup {Free}
    BY <1>4, ReleaseIsOwn DEF Callback
  <2>. QED
    BY <1>4, <2>1 DEF TypeOK, StepsRemain, Callback
<1>5. ASSUME HouseTakes(p) \/ HouseEnds(p) PROVE TypeOK' /\ StepsRemain'
  <2>1. base' \in [by : Procs, for : Uses] \cup {Free}
    BY <1>5, LocksDiffer DEF HouseTakes, HouseEnds, Uses
  <2>. QED
    BY <1>5, <2>1 DEF TypeOK, StepsRemain, HouseTakes, HouseEnds, jobs
<1>6. ASSUME CycleDue PROVE TypeOK' /\ StepsRemain'
  BY <1>6 DEF TypeOK, StepsRemain, CycleDue, jobs, locks
<1>. QED
  BY <1>3, <1>4, <1>5, <1>6

\* The tick of a thread up to its pass, and its wiki sync.
LEMMA TickTypes ==
    ASSUME TypeOK, StepsRemain, NEW p \in Procs,
           Tick(p) \/ Gate(p) \/ TakeTurn(p) \/ NoTurn(p) \/ NoBase(p) \/ Wiki(p)
    PROVE  TypeOK' /\ StepsRemain'
<1>1. cron \in [Procs -> Thread] /\ cron[p] \in Thread
  BY DEF TypeOK
<1>2. cron[p].pc \in {"submit", "await"} => cron[p].step \in 1..LastStep
  BY DEF StepsRemain
<1>3. ASSUME StillBusy(p) PROVE TypeOK' /\ StepsRemain'
  <2>. DEFINE c == [cron[p] EXCEPT !.pc = "wiki"]
  <2>1. c \in Thread
    BY <1>1, <1>3, ThreadMoves DEF Places, Verdicts, Ages
  <2>2. c.pc \in {"submit", "await"} => c.step \in 1..LastStep
    BY <1>1, <1>3 DEF StillBusy, Goto, jobs, locks, Thread, StepsRemain
  <2>3. cron' = [cron EXCEPT ![p] = c]
    BY <1>1, <1>3 DEF StillBusy, Goto, jobs, locks
  <2>4. cron' \in [Procs -> Thread] /\ StepsRemain'
    BY <2>1, <2>2, <2>3, ThreadStep
  <2>. QED
    BY <1>1, <1>3, <2>4 DEF TypeOK, StillBusy, Goto, jobs, locks
<1>4. ASSUME GiveUp(p) PROVE TypeOK' /\ StepsRemain'
  <2>. DEFINE c == [cron[p] EXCEPT !.pc = "gate", !.started = "never"]
  <2>1. c \in Thread
    BY <1>1, ThreadMoves DEF Places, Ages
  <2>2. c.pc = "gate"
    BY <1>1 DEF Thread
  <2>3. cron' = [cron EXCEPT ![p] = c]
    BY <1>1, <1>4 DEF GiveUp
  <2>4. cron' \in [Procs -> Thread] /\ StepsRemain'
    BY <2>1, <2>2, <2>3, ThreadStep
  <2>5. base' \in [by : Procs, for : Uses] \cup {Free}
    BY <1>4, ReleaseIsOwn DEF GiveUp
  <2>. QED
    BY <1>4, <2>4, <2>5 DEF TypeOK, GiveUp
<1>5. ASSUME NotBusy(p) PROVE TypeOK' /\ StepsRemain'
  <2>. DEFINE c == [cron[p] EXCEPT !.pc = "gate", !.started = "never"]
  <2>1. c \in Thread
    BY <1>1, <1>5, ThreadMoves DEF Places, Verdicts, Ages
  <2>2. c.pc \in {"submit", "await"} => c.step \in 1..LastStep
    BY <1>1, <1>5 DEF NotBusy, jobs, locks, Thread, StepsRemain
  <2>3. cron' = [cron EXCEPT ![p] = c]
    BY <1>1, <1>5 DEF NotBusy, jobs, locks
  <2>4. cron' \in [Procs -> Thread] /\ StepsRemain'
    BY <2>1, <2>2, <2>3, ThreadStep
  <2>. QED
    BY <1>1, <1>5, <2>4 DEF TypeOK, NotBusy, jobs, locks
<1>6. ASSUME Stop(p) PROVE TypeOK' /\ StepsRemain'
  <2>. DEFINE c == [cron[p] EXCEPT !.pc = "off"]
  <2>1. c \in Thread
    BY <1>1, <1>6, ThreadMoves DEF Places, Verdicts, Ages
  <2>2. c.pc \in {"submit", "await"} => c.step \in 1..LastStep
    BY <1>1, <1>6 DEF Stop, Goto, jobs, locks, Thread, StepsRemain
  <2>3. cron' = [cron EXCEPT ![p] = c]
    BY <1>1, <1>6 DEF Stop, Goto, jobs, locks
  <2>4. cron' \in [Procs -> Thread] /\ StepsRemain'
    BY <2>1, <2>2, <2>3, ThreadStep
  <2>. QED
    BY <1>1, <1>6, <2>4 DEF TypeOK, Stop, Goto, jobs, locks
<1>7. ASSUME Gate(p) PROVE TypeOK' /\ StepsRemain'
  <2>. DEFINE c == [cron[p] EXCEPT !.pc = IF cron[p].backoff \/ ~ due THEN "wiki" ELSE "asked"]
  <2>1. c \in Thread
    BY <1>1, <1>7, ThreadMoves DEF Places, Verdicts, Ages
  <2>2. c.pc \in {"submit", "await"} => c.step \in 1..LastStep
    BY <1>1, <1>7 DEF Gate, Goto, jobs, locks, Thread, StepsRemain
  <2>3. cron' = [cron EXCEPT ![p] = c]
    BY <1>1, <1>7 DEF Gate, Goto, jobs, locks
  <2>4. cron' \in [Procs -> Thread] /\ StepsRemain'
    BY <2>1, <2>2, <2>3, ThreadStep
  <2>. QED
    BY <1>1, <1>7, <2>4 DEF TypeOK, Gate, Goto, jobs, locks
<1>8. ASSUME TakeTurn(p) PROVE TypeOK' /\ StepsRemain'
  <2>. DEFINE c == [cron[p] EXCEPT !.pc = "turn", !.started = "lately"]
  <2>1. c \in Thread
    BY <1>1, <1>8, ThreadMoves DEF Places, Verdicts, Ages
  <2>2. c.pc \in {"submit", "await"} => c.step \in 1..LastStep
    BY <1>1, <1>8 DEF TakeTurn, jobs, Thread, StepsRemain
  <2>3. cron' = [cron EXCEPT ![p] = c]
    BY <1>1, <1>8 DEF TakeTurn, jobs
  <2>4. cron' \in [Procs -> Thread] /\ StepsRemain'
    BY <2>1, <2>2, <2>3, ThreadStep
  <2>. QED
    BY <1>1, <1>8, <2>4 DEF TypeOK, TakeTurn, jobs
<1>9. ASSUME NoTurn(p) PROVE TypeOK' /\ StepsRemain'
  <2>. DEFINE c == [cron[p] EXCEPT !.pc = "wiki"]
  <2>1. c \in Thread
    BY <1>1, <1>9, ThreadMoves DEF Places, Verdicts, Ages
  <2>2. c.pc \in {"submit", "await"} => c.step \in 1..LastStep
    BY <1>1, <1>9 DEF NoTurn, Goto, jobs, locks, Thread, StepsRemain
  <2>3. cron' = [cron EXCEPT ![p] = c]
    BY <1>1, <1>9 DEF NoTurn, Goto, jobs, locks
  <2>4. cron' \in [Procs -> Thread] /\ StepsRemain'
    BY <2>1, <2>2, <2>3, ThreadStep
  <2>. QED
    BY <1>1, <1>9, <2>4 DEF TypeOK, NoTurn, Goto, jobs, locks
<1>10. ASSUME NoBase(p) PROVE TypeOK' /\ StepsRemain'
  <2>. DEFINE c == [cron[p] EXCEPT !.pc = "release", !.verdict = "skipped"]
  <2>1. c \in Thread
    BY <1>1, <1>10, ThreadMoves DEF Places, Verdicts, Ages
  <2>2. c.pc \in {"submit", "await"} => c.step \in 1..LastStep
    BY <1>1, <1>10 DEF NoBase, jobs, locks, Thread, StepsRemain
  <2>3. cron' = [cron EXCEPT ![p] = c]
    BY <1>1, <1>10 DEF NoBase, jobs, locks
  <2>4. cron' \in [Procs -> Thread] /\ StepsRemain'
    BY <2>1, <2>2, <2>3, ThreadStep
  <2>. QED
    BY <1>1, <1>10, <2>4 DEF TypeOK, NoBase, jobs, locks
<1>11. ASSUME WikiNotDue(p) PROVE TypeOK' /\ StepsRemain'
  <2>. DEFINE c == [cron[p] EXCEPT !.pc = "sleep"]
  <2>1. c \in Thread
    BY <1>1, <1>11, ThreadMoves DEF Places, Verdicts, Ages
  <2>2. c.pc \in {"submit", "await"} => c.step \in 1..LastStep
    BY <1>1, <1>11 DEF WikiNotDue, Goto, jobs, locks, Thread, StepsRemain
  <2>3. cron' = [cron EXCEPT ![p] = c]
    BY <1>1, <1>11 DEF WikiNotDue, Goto, jobs, locks
  <2>4. cron' \in [Procs -> Thread] /\ StepsRemain'
    BY <2>1, <2>2, <2>3, ThreadStep
  <2>. QED
    BY <1>1, <1>11, <2>4 DEF TypeOK, WikiNotDue, Goto, jobs, locks
<1>12. ASSUME WikiEnds(p) PROVE TypeOK' /\ StepsRemain'
  <2>. DEFINE c == [cron[p] EXCEPT !.pc = "sleep", !.job = None]
  <2>1. c \in Thread
    BY <1>1, <1>12, ThreadMoves DEF Places, Verdicts, Ages
  <2>2. c.pc \in {"submit", "await"} => c.step \in 1..LastStep
    BY <1>1, <1>12 DEF WikiEnds, jobs, locks, Thread, StepsRemain
  <2>3. cron' = [cron EXCEPT ![p] = c]
    BY <1>1, <1>12 DEF WikiEnds, jobs, locks
  <2>4. cron' \in [Procs -> Thread] /\ StepsRemain'
    BY <2>1, <2>2, <2>3, ThreadStep
  <2>. QED
    BY <1>1, <1>12, <2>4 DEF TypeOK, WikiEnds, jobs, locks
<1>13. ASSUME NEW j \in Jobs, SubmitWiki(p, j) PROVE TypeOK' /\ StepsRemain'
  <2>. DEFINE w == cron[p].wiki \cup {j}
              c == [cron[p] EXCEPT !.pc = "sync", !.job = j, !.wiki = w]
  <2>0. w \in SUBSET Jobs /\ j \in Jobs \cup {None} /\ "sync" \in Places
    BY <1>1, ThreadFields DEF Places
  <2>. HIDE DEF w
  <2>1. c \in Thread
    BY <1>1, <2>0, ThreadMoves
  <2>2. c.pc = "sync"
    BY <1>1 DEF Thread
  <2>3. cron' = [cron EXCEPT ![p] = c]
    BY <1>1, <1>13 DEF SubmitWiki, Submit, w
  <2>4. cron' \in [Procs -> Thread] /\ StepsRemain'
    BY <2>1, <2>2, <2>3, ThreadStep
  <2>. QED
    BY <1>13, <2>4 DEF TypeOK, SubmitWiki, Submit, locks
<1>. QED
  BY <1>3, <1>4, <1>5, <1>6, <1>7, <1>8, <1>9, <1>10, <1>11, <1>12, <1>13 DEF Tick, Wiki

\* A pass goes on to a step it has, or past the last.
LEMMA GoesOn ==
    ASSUME TypeOK, StepsRemain, NEW p \in Procs, NEW s \in 1..LastStep + 1, NEW v \in Verdicts,
           ToStep(p, s, v)
    PROVE  cron' \in [Procs -> Thread] /\ StepsRemain'
<1>. DEFINE pc == IF s > LastStep THEN "finish" ELSE "submit"
            c == [cron[p] EXCEPT !.pc = pc, !.step = s, !.job = None, !.verdict = v]
<1>1. cron \in [Procs -> Thread] /\ cron[p] \in Thread
  BY DEF TypeOK
<1>2. pc \in Places /\ None \in Jobs \cup {None}
  BY DEF Places
<1>3. pc \in {"submit", "await"} => s \in 1..LastStep
  BY StepNumbers
<1>4. cron' = [cron EXCEPT ![p] = c]
  BY <1>1 DEF ToStep
<1>. HIDE DEF pc
<1>5. c \in Thread
  BY <1>1, <1>2, ThreadMoves
<1>6. c.pc = pc /\ c.step = s
  BY <1>1 DEF Thread
<1>. QED
  BY <1>3, <1>4, <1>5, <1>6, ThreadStep

\* The pass.
LEMMA PassTypes ==
    ASSUME TypeOK, StepsRemain, NEW p \in Procs,
           \/ TakeBase(p) \/ StepDone(p) \/ StepRaises(p) \/ StepExpires(p)
           \/ Finish(p) \/ Hook(p) \/ Conclude(p)
           \/ \E j \in Jobs : SubmitStep(p, j)
    PROVE  TypeOK' /\ StepsRemain'
<1>1. cron \in [Procs -> Thread] /\ cron[p] \in Thread
  BY DEF TypeOK
<1>2. cron[p].pc \in {"submit", "await"} => cron[p].step \in 1..LastStep
  BY DEF StepsRemain
<1>3. ASSUME TakeBase(p) PROVE TypeOK' /\ StepsRemain'
  <2>. DEFINE c == [cron[p] EXCEPT !.pc = "submit", !.step = 1, !.verdict = "ok"]
  <2>0. "submit" \in Places /\ 1 \in 1..LastStep + 1 /\ "ok" \in Verdicts
    BY StepNumbers DEF Places, Verdicts
  <2>1. c \in Thread
    BY <1>1, <2>0, ThreadMoves
  <2>2. c.step \in 1..LastStep
    BY <1>1, StepNumbers DEF Thread
  <2>3. cron' = [cron EXCEPT ![p] = c]
    BY <1>1, <1>3 DEF TakeBase
  <2>4. cron' \in [Procs -> Thread] /\ StepsRemain'
    BY <2>1, <2>2, <2>3, ThreadStep
  <2>. QED
    BY <1>3, <2>4, LocksDiffer DEF TypeOK, TakeBase, jobs, Uses
<1>4. ASSUME NEW j \in Jobs, SubmitStep(p, j) PROVE TypeOK' /\ StepsRemain'
  <2>. DEFINE w == cron[p].wiki \ {j}
              c == [cron[p] EXCEPT !.pc = "await", !.job = j, !.wiki = w]
  <2>1. w \in SUBSET Jobs /\ j \in Jobs \cup {None} /\ "await" \in Places
    BY <1>1, ThreadFields DEF Places
  <2>2. cron' = [cron EXCEPT ![p] = c]
    BY <1>1, <1>4 DEF SubmitStep, Submit
  <2>. HIDE DEF w
  <2>3. c \in Thread
    BY <1>1, <2>1, ThreadMoves
  <2>4. c.step \in 1..LastStep
    BY <1>1, <1>2, <1>4 DEF SubmitStep, At, Thread
  <2>5. cron' \in [Procs -> Thread] /\ StepsRemain'
    BY <2>2, <2>3, <2>4, ThreadStep
  <2>6. hung' \subseteq Jobs
    BY <1>4 DEF TypeOK, SubmitStep, Submit
  <2>7. live' \in [Procs -> SUBSET Jobs] /\ pending' \in [Procs -> SUBSET Jobs]
    <3>1. live' = [live EXCEPT ![p] = @ \cup {j}] /\ pending' = [pending EXCEPT ![p] = @ \cup {j}]
      BY <1>4 DEF SubmitStep, Submit
    <3>. QED
      BY <3>1 DEF TypeOK
  <2>8. UNCHANGED <<leader, turn, base, due, hooked, calling, losses>>
    BY <1>4 DEF SubmitStep, Submit, locks
  <2>. QED
    BY <2>5, <2>6, <2>7, <2>8 DEF TypeOK
<1>5. ASSUME StepDone(p) \/ StepRaises(p) \/ StepExpires(p) PROVE TypeOK' /\ StepsRemain'
  <2>1. cron[p].step + 1 \in 1..LastStep + 1 /\ Layers + 1 \in 1..LastStep + 1
    <3>1. cron[p].step \in 1..LastStep
      BY <1>2, <1>5 DEF StepDone, StepRaises, StepExpires, At
    <3>. QED
      BY <3>1, StepNumbers
  <2>2. cron[p].verdict \in Verdicts /\ "failed" \in Verdicts /\ "running" \in Verdicts
    BY <1>1, ThreadFields DEF Verdicts
  <2>3. \/ ToStep(p, cron[p].step + 1, cron[p].verdict)
        \/ ToStep(p, Layers + 1, "failed") \/ ToStep(p, Layers + 1, "running")
    BY <1>5 DEF StepDone, StepRaises, StepExpires
  <2>4. cron' \in [Procs -> Thread] /\ StepsRemain'
    BY <2>1, <2>2, <2>3, GoesOn
  <2>5. due' \in BOOLEAN /\ UNCHANGED <<locks, jobs, losses>>
    BY <1>5 DEF TypeOK, StepDone, StepRaises, StepExpires
  <2>. QED
    BY <2>4, <2>5 DEF TypeOK, locks, jobs
<1>6. ASSUME Finish(p) PROVE TypeOK' /\ StepsRemain'
  <2>1. PICK pc \in {"release", "hook"} : Goto(p, pc)
    BY <1>6 DEF Finish
  <2>. DEFINE c == [cron[p] EXCEPT !.pc = pc]
  <2>2. c \in Thread
    BY <1>1, ThreadMoves DEF Places
  <2>3. c.pc \notin {"submit", "await"}
    BY <1>1 DEF Thread
  <2>4. cron' = [cron EXCEPT ![p] = c]
    BY <1>1, <2>1 DEF Goto
  <2>5. cron' \in [Procs -> Thread] /\ StepsRemain'
    BY <2>2, <2>3, <2>4, ThreadStep
  <2>. QED
    BY <1>6, <2>5, LocksDiffer DEF TypeOK, Finish, jobs, Uses
<1>7. ASSUME Hook(p) PROVE TypeOK' /\ StepsRemain'
  <2>. DEFINE c == [cron[p] EXCEPT !.pc = "release"]
  <2>1. c \in Thread
    BY <1>1, ThreadMoves DEF Places
  <2>2. c.pc = "release"
    BY <1>1 DEF Thread
  <2>3. cron' = [cron EXCEPT ![p] = c]
    BY <1>1, <1>7 DEF Hook, Goto
  <2>4. cron' \in [Procs -> Thread] /\ StepsRemain'
    BY <2>1, <2>2, <2>3, ThreadStep
  <2>5. base' \in [by : Procs, for : Uses] \cup {Free}
    BY <1>7, ReleaseIsOwn DEF Hook
  <2>. QED
    BY <1>7, <2>4, <2>5 DEF TypeOK, Hook
<1>8. ASSUME Conclude(p) PROVE TypeOK' /\ StepsRemain'
  <2>. DEFINE b == IF cron[p].verdict \in {"failed", "ok"} THEN cron[p].verdict = "failed" ELSE cron[p].backoff
              c == [cron[p] EXCEPT !.pc = "wiki", !.step = 1, !.verdict = "ok", !.backoff = b]
  <2>1. b \in BOOLEAN
    BY <1>1, ThreadFields, Zenon
  <2>2. cron' = [cron EXCEPT ![p] = c]
    BY <1>8, Zenon DEF Conclude
  <2>. HIDE DEF b
  <2>0. "wiki" \in Places /\ 1 \in 1..LastStep + 1 /\ "ok" \in Verdicts
    BY StepNumbers DEF Places, Verdicts
  <2>3. c \in Thread
    BY <1>1, <2>0, <2>1, ThreadMoves
  <2>4. c.pc = "wiki"
    BY <1>1 DEF Thread
  <2>5. cron' \in [Procs -> Thread] /\ StepsRemain'
    BY <2>2, <2>3, <2>4, ThreadStep
  <2>. QED
    BY <1>8, <2>5 DEF TypeOK, Conclude, jobs
<1>. QED
  BY <1>3, <1>4, <1>5, <1>6, <1>7, <1>8

\* Every step keeps the types.
LEMMA TypesKept == TypeOK /\ StepsRemain /\ [Next]_vars => TypeOK' /\ StepsRemain'
<1>. SUFFICES ASSUME TypeOK, StepsRemain, [Next]_vars PROVE TypeOK' /\ StepsRemain'
  OBVIOUS
<1>1. CASE UNCHANGED vars
  BY <1>1 DEF TypeOK, StepsRemain, vars
<1>2. CASE CycleDue
  BY <1>2 DEF TypeOK, StepsRemain, CycleDue, jobs, locks
<1>3. ASSUME NEW p \in Procs,
             \/ Claim(p) \/ Leave(p) \/ Die(p) \/ Exit(p) \/ GraceEnds(p) \/ BackoffEnds(p)
             \/ Tick(p) \/ Pass(p) \/ NoBase(p) \/ Wiki(p) \/ HouseTakes(p) \/ HouseEnds(p)
             \/ \E j \in Jobs : JobEnds(p, j) \/ Callback(p, j)
      PROVE  TypeOK' /\ StepsRemain'
  BY <1>3, LifeTypes, LoopTypes, TickTypes, PassTypes DEF Pass
<1>. QED
  BY <1>1, <1>2, <1>3 DEF Next

-----------------------------------------------------------------------------
(* The maintenance lock *)

Covered == PassHasTheBase /\ NightlyWorkHoldsTheBase
Working == {"submit", "await", "finish"}

\* A step of process p that neither touches the lock, nor begins a pass, nor adds
\* a job to one.
Quiet(p) ==
    /\ base' = base
    /\ \A q \in Procs : PassJobs(q)' \subseteq PassJobs(q)
    /\ \A q \in Procs : cron'[q].pc \in Working => cron[q].pc \in Working

\* Such a step leaves every pass covered.
LEMMA QuietIsCovered == ASSUME Covered, NEW p, Quiet(p) PROVE Covered'
  BY DEF Covered, Quiet, Working, PassHasTheBase, NightlyWorkHoldsTheBase

\* Most steps are of that kind.
LEMMA QuietSteps ==
    ASSUME TypeOK, NEW p \in Procs,
           \/ Claim(p) \/ Leave(p) \/ GraceEnds(p) \/ BackoffEnds(p)
           \/ StillBusy(p) \/ NotBusy(p) \/ Stop(p) \/ Gate(p) \/ TakeTurn(p) \/ NoTurn(p) \/ NoBase(p)
           \/ StepDone(p) \/ StepRaises(p) \/ StepExpires(p) \/ Conclude(p)
           \/ WikiNotDue(p) \/ WikiEnds(p)
           \/ \E j \in Jobs : SubmitWiki(p, j) \/ JobEnds(p, j)
    PROVE  Quiet(p)
<1>1. cron \in [Procs -> Thread] /\ pending \in [Procs -> SUBSET Jobs]
  BY DEF TypeOK
<1>2. ASSUME Claim(p) \/ Leave(p) \/ GraceEnds(p) \/ BackoffEnds(p) PROVE Quiet(p)
  <2>1. UNCHANGED <<base, pending>>
    BY <1>2 DEF Claim, Leave, GraceEnds, BackoffEnds, jobs, locks
  <2>2. \A q \in Procs : cron'[q].wiki = cron[q].wiki /\ (cron'[q].pc = cron[q].pc \/ cron'[q].pc = "sleep")
    <3>1. CASE Claim(p)
      BY <1>1, <3>1 DEF Claim, Goto, Thread
    <3>2. CASE Leave(p)
      BY <1>1, <3>2 DEF Leave, Thread
    <3>3. CASE GraceEnds(p)
      BY <1>1, <3>3 DEF GraceEnds, Thread
    <3>4. CASE BackoffEnds(p)
      BY <1>1, <3>4 DEF BackoffEnds, Thread
    <3>. QED
      BY <1>2, <3>1, <3>2, <3>3, <3>4
  <2>. QED
    BY <2>1, <2>2 DEF Quiet, PassJobs, Working
<1>3. ASSUME StillBusy(p) \/ NotBusy(p) \/ Stop(p) \/ Gate(p) PROVE Quiet(p)
  <2>1. UNCHANGED <<base, pending>>
    BY <1>3 DEF StillBusy, NotBusy, Stop, Gate, jobs, locks
  <2>2. \A q \in Procs : /\ cron'[q].wiki = cron[q].wiki
                         /\ cron'[q].pc = cron[q].pc \/ cron'[q].pc \in {"wiki", "gate", "off", "asked"}
    <3>1. CASE StillBusy(p)
      BY <1>1, <3>1 DEF StillBusy, Goto, Thread
    <3>2. CASE NotBusy(p)
      BY <1>1, <3>2 DEF NotBusy, Thread
    <3>3. CASE Stop(p)
      BY <1>1, <3>3 DEF Stop, Goto, Thread
    <3>4. CASE Gate(p)
      BY <1>1, <3>4 DEF Gate, Goto, Thread
    <3>. QED
      BY <1>3, <3>1, <3>2, <3>3, <3>4
  <2>. QED
    BY <2>1, <2>2 DEF Quiet, PassJobs, Working
<1>4. ASSUME TakeTurn(p) \/ NoTurn(p) \/ NoBase(p) PROVE Quiet(p)
  BY <1>1, <1>4 DEF TakeTurn, NoTurn, NoBase, Goto, jobs, locks, Quiet, PassJobs, Working, Thread
<1>5. ASSUME StepDone(p) \/ StepRaises(p) \/ StepExpires(p) PROVE Quiet(p)
  <2>1. PICK s, v : ToStep(p, s, v)
    BY <1>5 DEF StepDone, StepRaises, StepExpires
  <2>2. cron[p].pc = "await" /\ UNCHANGED <<locks, jobs>>
    BY <1>5 DEF StepDone, StepRaises, StepExpires, At
  <2>. QED
    BY <1>1, <2>1, <2>2 DEF ToStep, jobs, locks, Quiet, PassJobs, Working, Thread
<1>6. ASSUME Conclude(p) \/ WikiNotDue(p) \/ WikiEnds(p) PROVE Quiet(p)
  <2>1. UNCHANGED <<base, pending>>
    BY <1>6 DEF Conclude, WikiNotDue, WikiEnds, jobs, locks
  <2>2. \A q \in Procs : /\ cron'[q].wiki = cron[q].wiki
                         /\ cron'[q].pc = cron[q].pc \/ cron'[q].pc \in {"wiki", "sleep"}
    <3>1. CASE Conclude(p)
      BY <1>1, <3>1 DEF Conclude, Thread
    <3>2. CASE WikiNotDue(p)
      BY <1>1, <3>2 DEF WikiNotDue, Goto, Thread
    <3>3. CASE WikiEnds(p)
      BY <1>1, <3>3 DEF WikiEnds, Thread
    <3>. QED
      BY <1>6, <3>1, <3>2, <3>3
  <2>. QED
    BY <2>1, <2>2 DEF Quiet, PassJobs, Working
<1>7. ASSUME NEW j \in Jobs, SubmitWiki(p, j) PROVE Quiet(p)
  BY <1>1, <1>7 DEF SubmitWiki, Submit, At, locks, Quiet, PassJobs, Working, Thread
<1>8. ASSUME NEW j \in Jobs, JobEnds(p, j) PROVE Quiet(p)
  BY <1>1, <1>8 DEF JobEnds, locks, Quiet, PassJobs, Working, Thread
<1>. QED
  BY <1>2, <1>3, <1>4, <1>5, <1>6, <1>7, <1>8

\* The lock taken, and given back by whoever may.
LEMMA LockSteps ==
    ASSUME TypeOK, Covered, NEW p \in Procs,
           \/ TakeBase(p) \/ Finish(p) \/ Hook(p) \/ GiveUp(p) \/ Vanish(p)
           \/ HouseTakes(p) \/ HouseEnds(p)
           \/ \E j \in Jobs : SubmitStep(p, j) \/ Callback(p, j)
    PROVE  Covered'
<1>1. cron \in [Procs -> Thread] /\ pending \in [Procs -> SUBSET Jobs]
  BY DEF TypeOK
<1>2. \A q \in Procs : Held(q, "pass") # Free /\ Held(q, "carried") # Free /\ Held(q, "pass") # Held(p, "house")
                       /\ Held(q, "carried") # Held(p, "house") /\ Held(q, "pass") # Held(p, "carried")
  BY LocksDiffer DEF Uses
<1>3. \A q \in Procs \ {p} : Held(q, "pass") # Held(p, "pass") /\ Held(q, "carried") # Held(p, "carried")
                             /\ Held(q, "carried") # Held(p, "pass") /\ Held(q, "pass").by # p /\ Held(q, "carried").by # p
  BY LocksDiffer DEF Uses
<1>4. ASSUME base \notin {Held(q, u) : q \in Procs, u \in {"pass", "carried"}}
      PROVE  \A q \in Procs : PassJobs(q) = {} /\ cron[q].pc \notin Working
  BY <1>4 DEF Covered, PassHasTheBase, NightlyWorkHoldsTheBase, Working
<1>5. ASSUME TakeBase(p) PROVE Covered'
  <2>1. \A q \in Procs : PassJobs(q) = {} /\ cron[q].pc \notin Working
    BY <1>2, <1>4, <1>5 DEF TakeBase
  <2>2. \A q \in Procs \ {p} : cron'[q] = cron[q]
    BY <1>1, <1>5 DEF TakeBase
  <2>3. \A q \in Procs : PassJobs(q)' = {}
    BY <1>1, <1>5, <2>1 DEF TakeBase, PassJobs, jobs, Thread
  <2>. QED
    BY <1>5, <2>1, <2>2, <2>3 DEF TakeBase, Covered, PassHasTheBase, NightlyWorkHoldsTheBase, Working
<1>6. ASSUME Finish(p) PROVE Covered'
  <2>1. base = Held(p, "pass")
    BY <1>6 DEF Finish, At, Covered, PassHasTheBase
  <2>2. \A q \in Procs \ {p} : PassJobs(q) = {} /\ cron[q].pc \notin Working
    BY <1>2, <1>3, <2>1 DEF Covered, PassHasTheBase, NightlyWorkHoldsTheBase, Working
  <2>3. cron'[p].pc \notin Working /\ \A q \in Procs \ {p} : cron'[q] = cron[q]
    BY <1>1, <1>6 DEF Finish, Goto, Working, Thread
  <2>4. pending' = pending /\ (pending[p] # {} => base' = Held(p, "carried"))
    BY <1>6 DEF Finish, jobs
  <2>. QED
    BY <2>2, <2>3, <2>4 DEF Covered, PassHasTheBase, NightlyWorkHoldsTheBase, PassJobs, Working
<1>7. ASSUME Vanish(p) PROVE Covered'
  <2>1. pending'[p] = {} /\ \A q \in Procs \ {p} : pending'[q] = pending[q] /\ cron'[q] = cron[q]
    BY <1>1, <1>7 DEF Vanish
  <2>2. cron'[p].pc = "off"
    BY <1>1, <1>7 DEF Vanish, NewThread
  <2>3. base' = IF base.by = p THEN Free ELSE base
    BY <1>7 DEF Vanish
  <2>. QED
    BY <1>3, <2>1, <2>2, <2>3 DEF Covered, PassHasTheBase, NightlyWorkHoldsTheBase, PassJobs
<1>8. ASSUME NEW s, base' = ReleasedIfIdle(p, s), pending'[p] = {} \/ s = pending[p],
             \A q \in Procs : /\ pending'[q] \subseteq pending[q] /\ cron'[q].wiki = cron[q].wiki
                              /\ cron'[q].pc \in Working => cron[q].pc \in Working
      PROVE  Covered'
  BY <1>2, <1>3, <1>8 DEF ReleasedIfIdle, Covered, PassHasTheBase, NightlyWorkHoldsTheBase, PassJobs, Working
<1>9. ASSUME Hook(p) PROVE Covered'
  BY <1>1, <1>8, <1>9 DEF Hook, Goto, Working, Thread
<1>10. ASSUME GiveUp(p) PROVE Covered'
  BY <1>1, <1>8, <1>10 DEF GiveUp, Working, Thread
<1>11. ASSUME NEW j \in Jobs, Callback(p, j) PROVE Covered'
  BY <1>1, <1>8, <1>11 DEF Callback
<1>12. ASSUME HouseTakes(p) \/ HouseEnds(p) PROVE Covered'
  BY <1>2, <1>12 DEF HouseTakes, HouseEnds, jobs, Covered, PassHasTheBase, NightlyWorkHoldsTheBase, PassJobs
<1>13. ASSUME NEW j \in Jobs, SubmitStep(p, j) PROVE Covered'
  <2>1. base = Held(p, "pass") /\ base' = base
    BY <1>13 DEF SubmitStep, locks, At, Covered, PassHasTheBase
  <2>2. \A q \in Procs \ {p} : pending'[q] = pending[q] /\ cron'[q] = cron[q]
    BY <1>1, <1>13 DEF SubmitStep, Submit
  <2>. QED
    BY <2>1, <2>2 DEF Covered, PassHasTheBase, NightlyWorkHoldsTheBase, PassJobs
<1>. QED
  BY <1>5, <1>6, <1>7, <1>9, <1>10, <1>11, <1>12, <1>13

-----------------------------------------------------------------------------
(* The theorems *)

\* Nothing runs at first.
LEMMA GuardedInit == Init => Guarded
<1>. SUFFICES ASSUME Init PROVE Guarded
  OBVIOUS
<1>0. NewThread(FALSE) \in Thread
  BY NewThreadType
<1>1. cron \in [Procs -> Thread] /\ \A p \in Procs : cron[p].pc = "off"
  <2>1. cron = [p \in Procs |-> NewThread(FALSE)]
    BY DEF Init
  <2>2. NewThread(FALSE).pc = "off"
    BY DEF NewThread
  <2>. QED
    BY <1>0, <2>1, <2>2
<1>2. TypeOK
  <2>1. losses \in 0..MaxLosses
    BY LimitsAssumption DEF Init
  <2>2. /\ live \in [Procs -> SUBSET Jobs] /\ pending \in [Procs -> SUBSET Jobs]
        /\ hooked \in [Procs -> SUBSET Jobs] /\ calling \in [Procs -> SUBSET Jobs]
    BY DEF Init
  <2>3. /\ leader \in Procs \cup {None} /\ turn \in Procs \cup {None} /\ due \in BOOLEAN
        /\ base \in [by : Procs, for : Uses] \cup {Free} /\ hung \subseteq Jobs
    BY DEF Init
  <2>. QED
    BY <1>1, <2>1, <2>2, <2>3 DEF TypeOK
<1>3. StepsRemain /\ PassHasTheBase
  BY <1>1 DEF StepsRemain, PassHasTheBase
<1>4. NightlyWorkHoldsTheBase
  BY DEF Init, NightlyWorkHoldsTheBase, PassJobs
<1>. QED
  BY <1>2, <1>3, <1>4 DEF Guarded

\* Every step keeps the types and keeps the passes covered.
LEMMA GuardedStep == Guarded /\ [Next]_vars => Guarded'
<1>. SUFFICES ASSUME Guarded, [Next]_vars PROVE Guarded'
  OBVIOUS
<1>1. TypeOK /\ StepsRemain /\ Covered
  BY DEF Guarded, Covered
<1>2. TypeOK' /\ StepsRemain'
  BY <1>1, TypesKept
<1>3. Covered'
  <2>1. CASE UNCHANGED vars \/ CycleDue
    BY <1>1, <2>1 DEF vars, CycleDue, locks, jobs, Covered, PassHasTheBase, NightlyWorkHoldsTheBase, PassJobs
  <2>2. ASSUME NEW p \in Procs, Claim(p) \/ Leave(p) \/ GraceEnds(p) \/ BackoffEnds(p)
        PROVE  Covered'
    BY <1>1, <2>2, QuietSteps, QuietIsCovered
  <2>3. ASSUME NEW p \in Procs, Die(p) \/ Exit(p) \/ HouseTakes(p) \/ HouseEnds(p) PROVE Covered'
    BY <1>1, <2>3, LockSteps DEF Die, Exit
  <2>4. ASSUME NEW p \in Procs, Tick(p) \/ NoBase(p) \/ Wiki(p) PROVE Covered'
    BY <1>1, <2>4, QuietSteps, QuietIsCovered, LockSteps DEF Tick, Wiki
  <2>5. ASSUME NEW p \in Procs, Pass(p) PROVE Covered'
    BY <1>1, <2>5, QuietSteps, QuietIsCovered, LockSteps DEF Pass
  <2>6. ASSUME NEW p \in Procs, NEW j \in Jobs, JobEnds(p, j) \/ Callback(p, j) PROVE Covered'
    BY <1>1, <2>6, QuietSteps, QuietIsCovered, LockSteps
  <2>. QED
    BY <2>1, <2>2, <2>3, <2>4, <2>5, <2>6 DEF Next
<1>. QED
  BY <1>2, <1>3 DEF Guarded, Covered

\* The inductive invariant holds of every reachable state.
THEOREM GuardedInvariant == Spec => []Guarded
  BY GuardedInit, GuardedStep, PTL DEF Spec

\* The state of the scheduler keeps its type.
THEOREM TypeCorrect == Spec => []TypeOK
<1>1. Guarded => TypeOK
  BY DEF Guarded
<1>. QED
  BY <1>1, GuardedInvariant, PTL

\* Whatever is abandoned, hangs, dies or is taken over: while a job of a nightly
\* pass runs that its process has not given up, that process holds the base.
THEOREM NightlyWorkIsCovered == Spec => []NightlyWorkHoldsTheBase
<1>1. Guarded => NightlyWorkHoldsTheBase
  BY DEF Guarded
<1>. QED
  BY <1>1, GuardedInvariant, PTL

\* Only the taking of the lock begins a pass.
LEMMA PassBegins ==
    ASSUME TypeOK, Next, NEW p \in Procs, At(p, "turn"), cron'[p].pc = "submit"
    PROVE  base = Free
<1>1. cron \in [Procs -> Thread] /\ cron[p].pc \notin Working /\ cron'[p].pc \in Working
  BY DEF TypeOK, At, Working
<1>2. ASSUME NEW q \in Procs, Quiet(q) PROVE FALSE
  BY <1>1, <1>2 DEF Quiet
<1>3. ASSUME NEW q \in Procs, HouseTakes(q) \/ HouseEnds(q) \/ \E j \in Jobs : Callback(q, j) PROVE FALSE
  BY <1>1, <1>3 DEF HouseTakes, HouseEnds, Callback
<1>4. ASSUME NEW q \in Procs, Finish(q) \/ Hook(q) \/ GiveUp(q) PROVE FALSE
  BY <1>1, <1>4 DEF Finish, Hook, GiveUp, Goto, At, Thread, Working
<1>5. ASSUME NEW q \in Procs, Die(q) \/ Exit(q) PROVE FALSE
  BY <1>1, <1>5 DEF Die, Exit, Vanish, NewThread, Working
<1>6. ASSUME NEW q \in Procs, NEW j \in Jobs, SubmitStep(q, j) PROVE FALSE
  BY <1>1, <1>6 DEF SubmitStep, Submit, At, Thread
<1>7. ASSUME CycleDue PROVE FALSE
  BY <1>1, <1>7 DEF CycleDue
<1>8. ASSUME NEW q \in Procs, Tick(q) \/ Pass(q) \/ NoBase(q) \/ Wiki(q), ~ TakeBase(q) PROVE FALSE
  BY <1>2, <1>4, <1>6, <1>8, QuietSteps DEF Tick, Pass, Wiki
<1>9. ASSUME NEW q \in Procs, TakeBase(q) PROVE base = Free
  BY <1>9 DEF TakeBase
<1>. QED
  BY <1>2, <1>3, <1>5, <1>7, <1>8, <1>9, QuietSteps DEF Next

\* A pass begins only when no process has nightly work left it has not given up.
THEOREM NoStacking == Spec => PassesDoNotStack
<1>. DEFINE Alone == \A p \in Procs : At(p, "turn") /\ cron'[p].pc = "submit" =>
                       \A q \in Procs : PassJobs(q) = {}
<1>1. Guarded /\ [Next]_vars => Alone
  <2>. SUFFICES ASSUME Guarded, [Next]_vars, NEW p \in Procs, At(p, "turn"), cron'[p].pc = "submit"
                PROVE  \A q \in Procs : PassJobs(q) = {}
    OBVIOUS
  <2>1. base = Free
    BY PassBegins DEF Guarded, vars, At
  <2>. QED
    BY <2>1, LocksDiffer DEF Guarded, NightlyWorkHoldsTheBase, Uses
<1>. QED
  BY <1>1, GuardedInvariant, PTL DEF Spec, PassesDoNotStack
=============================================================================
