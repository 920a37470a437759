-------------------------------- MODULE Gaps --------------------------------
(***************************************************************************)
(* The registry of knowledge gaps (lifecycle/gap_registry.py): each night  *)
(* the questions nobody answered and the searches that found nothing are   *)
(* counted, one row per hole, and the session brief shows the fresh ones.  *)
(*                                                                         *)
(* A build is one transaction under the write lock, begun after the table  *)
(* was made sure of; nights of two processes may overlap.  Ages are days.  *)
(***************************************************************************)
EXTENDS Naturals, Sequences

CONSTANTS
    Users, Texts,
    Builds,      \* processes that build the registry
    MaxRows,     \* bound on the rows
    MaxCount,    \* seen_count is not followed beyond it
    Window,      \* _GAP_MAX_AGE_DAYS
    None

VARIABLES
    rows,    \* memory_gaps: sequence of [user, text, last, count]
    columns, \* the two columns of observations exist
    asked,   \* question episodes: user -> text -> age, or None
    empty,   \* recall_zero_results: pairs <<user, text>>, which nothing removes
    build    \* per process: [pc, view, todo, before]

vars == <<rows, columns, asked, empty, build>>

Ages == 0..Window + 1
Row == [user : Users, text : Texts, last : Ages \cup {None}, count : 1..MaxCount]
Observations == [origin : {"question", "zero_result"}, user : Users, text : Texts]
Resting == [pc |-> "idle", view |-> <<>>, todo |-> {}, before |-> {}]

TypeOK ==
    /\ rows \in Seq(Row) /\ Len(rows) <= MaxRows
    /\ columns \in BOOLEAN
    /\ asked \in [Users -> [Texts -> Ages \cup {None}]]
    /\ empty \subseteq Users \X Texts
    /\ build \in [Builds -> [pc : {"idle", "altered", "ready", "locked", "counting"}, view : Seq(Row),
                             todo : SUBSET Observations, before : SUBSET Texts]]

\* A base from before the columns may hold a row, whose last_seen is 0 then.
Init ==
    /\ \/ rows = <<>> /\ columns \in BOOLEAN
       \/ /\ columns = FALSE
          /\ \E u \in Users, t \in Texts : rows = <<[user |-> u, text |-> t, last |-> None, count |-> 1]>>
    /\ asked = [u \in Users |-> [t \in Texts |-> None]]
    /\ empty = {}
    /\ build = [b \in Builds |-> Resting]

At(b, pc) == build[b].pc = pc
Goto(b, pc) == build' = [build EXCEPT ![b].pc = pc]
Unlocked == \A b \in Builds : build[b].pc \notin {"locked", "counting"}
Hashes(R) == {R[i].text : i \in DOMAIN R}

------------------------------------------------------------------------------
Ask(u, t) ==
    /\ asked' = [asked EXCEPT ![u][t] = 0]
    /\ UNCHANGED <<rows, columns, empty, build>>

FindNothing(u, t) ==
    /\ empty' = empty \cup {<<u, t>>}
    /\ UNCHANGED <<rows, columns, asked, build>>

Older(age) == IF age = None \/ age = Window + 1 THEN age ELSE age + 1

\* A build is over within the day.
Day ==
    /\ asked' = [u \in Users |-> [t \in Texts |-> Older(asked[u][t])]]
    /\ Unlocked
    /\ rows' = [i \in DOMAIN rows |-> [rows[i] EXCEPT !.last = Older(@)]]
    /\ UNCHANGED <<columns, empty, build>>

------------------------------------------------------------------------------
(* Making sure of the table: also done by every reader *)

Begin(b) ==
    /\ At(b, "idle")
    /\ columns
    /\ build' = [build EXCEPT ![b].pc = "ready", ![b].before = Hashes(rows)]
    /\ UNCHANGED <<rows, columns, asked, empty>>

\* The ALTERs are committed, and what they added is filled in afterwards by
\* the one who added it, if it is still there: the row's own ts.
AddColumns(b) ==
    /\ At(b, "idle") /\ ~columns
    /\ columns' = TRUE
    /\ Goto(b, "altered")
    /\ UNCHANGED <<rows, asked, empty>>

Backfill(b) ==
    /\ At(b, "altered") /\ Unlocked
    /\ \E ts \in Ages : rows' = [i \in DOMAIN rows |-> IF rows[i].last = None THEN [rows[i] EXCEPT !.last = ts] ELSE rows[i]]
    /\ build' = [build EXCEPT ![b].pc = "ready", ![b].before = Hashes(rows)]
    /\ UNCHANGED <<columns, asked, empty>>

------------------------------------------------------------------------------
(* The build *)

TakeLock(b) ==
    /\ At(b, "ready") /\ Unlocked
    /\ build' = [build EXCEPT ![b].pc = "locked", ![b].view = rows]
    /\ UNCHANGED <<rows, columns, asked, empty>>

\* The observations of this night: fresh questions, and every search that has
\* ever found nothing.
Questions == {o \in Observations : /\ o.origin = "question"
                                  /\ asked[o.user][o.text] # None /\ asked[o.user][o.text] <= Window}
ZeroResults == {o \in Observations : o.origin = "zero_result" /\ <<o.user, o.text>> \in empty}

Scan(b) ==
    /\ At(b, "locked")
    /\ build' = [build EXCEPT ![b].pc = "counting", ![b].todo = Questions \cup ZeroResults]
    /\ UNCHANGED <<rows, columns, asked, empty>>

\* Mutant: which holes are known is read before the lock is taken.
KnownBefore(b, text) == {i \in DOMAIN build[b].view : build[b].view[i].text = text /\ text \in build[b].before}

\* A hole is its text, whoever asked, in whichever layer.
Known(b, text) == {i \in DOMAIN build[b].view : build[b].view[i].text = text}

More(n) == IF n = MaxCount THEN n ELSE n + 1

\* One observation counts an existing row or adds one.
Counted(b, o) ==
    {[build[b].view EXCEPT ![i].count = More(@), ![i].last = 0] : i \in Known(b, o.text)}
    \cup (IF Known(b, o.text) = {} /\ Len(build[b].view) < MaxRows
          THEN {Append(build[b].view, [user |-> o.user, text |-> o.text, last |-> 0, count |-> 1])} ELSE {})

\* Which scan is on: the questions come first.
Scanned(b) == IF \E o \in build[b].todo : o.origin = "question" THEN "question" ELSE "zero_result"

CountOne(b) ==
    /\ At(b, "counting")
    /\ \E o \in build[b].todo :
          /\ o.origin = Scanned(b)
          /\ \E view \in Counted(b, o) : build' = [build EXCEPT ![b].view = view, ![b].todo = @ \ {o}]
    /\ UNCHANGED <<rows, columns, asked, empty>>

\* A statement of a scan fails: the rest of that scan is left, what it wrote stays.
ScanFails(b) ==
    /\ At(b, "counting")
    /\ build' = [build EXCEPT ![b].todo = {o \in @ : o.origin # Scanned(b)}]
    /\ UNCHANGED <<rows, columns, asked, empty>>

Commit(b) ==
    /\ At(b, "counting") /\ build[b].todo = {}
    /\ rows' = build[b].view
    /\ build' = [build EXCEPT ![b] = Resting]
    /\ UNCHANGED <<columns, asked, empty>>

\* The process dies, or the transaction fails: it is rolled back.
Dies(b) ==
    /\ ~At(b, "idle")
    /\ build' = [build EXCEPT ![b] = Resting]
    /\ UNCHANGED <<rows, columns, asked, empty>>

Build(b) == Begin(b) \/ AddColumns(b) \/ Backfill(b) \/ TakeLock(b) \/ Scan(b) \/ CountOne(b) \/ ScanFails(b) \/ Commit(b) \/ Dies(b)

Next ==
    \/ \E u \in Users, t \in Texts : Ask(u, t) \/ FindNothing(u, t)
    \/ Day
    \/ \E b \in Builds : Build(b)

Spec == Init /\ [][Next]_vars

------------------------------------------------------------------------------
(* The brief *)

OpenGaps(u) == {i \in DOMAIN rows : rows[i].user = u /\ rows[i].last # None /\ rows[i].last <= Window}

\* No two rows are the same hole, whatever nights overlap or are cut short:
\* the table has no unique key, so the lookup must see what the lock protects.
OneRowPerHole == \A i, j \in DOMAIN rows : rows[i].text = rows[j].text => i = j

\* Violated: a row from before the columns that is never given its own date,
\* because the process died between the ALTER and the UPDATE.
LegacyRowsAreDated == columns /\ (\A b \in Builds : At(b, "idle")) => \A i \in DOMAIN rows : rows[i].last # None

\* Violated: somebody asked, the night counted it, and the brief of that user
\* does not show it, because somebody else had asked it first.
EverybodySeesTheirGap ==
    [][\A b \in Builds, u \in Users, t \in Texts :
          At(b, "counting") /\ build'[b].pc = "idle" /\ rows' # rows /\ asked[u][t] = 0
             => \E i \in DOMAIN rows' : rows'[i].text = t /\ rows'[i].user = u]_vars
=============================================================================
