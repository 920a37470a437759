------------------------------ MODULE Sessions ------------------------------
(***************************************************************************)
(* The end of a session: it is closed with a quality score, possibly by    *)
(* two callers at once, and a diff looks for the messages of its window    *)
(* that were not stored where they should have been and leaves an episode  *)
(* for each.                                                               *)
(*                                                                         *)
(* Closing reads the row, scores and writes, with other calls in between.  *)
(* A score is the numbers it was computed from.  A message's importance is *)
(* the highest tier it is due in, 0 for none, 3 for L3, 4 for L4.          *)
(***************************************************************************)
EXTENDS Naturals, Sequences, FiniteSets

CONSTANTS
    Closers,        \* calls of close_session
    Counts,         \* what a caller may say of the messages, 0 for nothing
    MaxMessages,    \* bound on the dispatch log
    MaxMarks,       \* bound on the episodes left for one message
    None

VARIABLES
    session,   \* [state, count, score]
    closer,    \* per call: [pc, given, read, score]
    log,       \* memory_dispatch_log: sequence of [importance, saved]
    lenient,   \* the watch rule in force asks for L4 alone
    differ,    \* the diff: [pc, gaps]
    marks      \* diff_gap episodes: per row of the log

vars == <<session, closer, log, lenient, differ, marks>>

Tiers == {3, 4}
AtRest == [pc |-> "idle", given |-> 0, read |-> 0, score |-> None]
NoDiff == [pc |-> "idle", gaps |-> {}]
Score == [count : Counts, stored : 0..MaxMessages]

TypeOK ==
    /\ session \in [state : {"none", "open", "closed"}, count : Counts, score : Score \cup {None}]
    /\ closer \in [Closers -> [pc : {"idle", "read", "scored", "done"}, given : Counts, read : Counts, score : Score \cup {None}]]
    /\ log \in Seq([importance : {0} \cup Tiers, saved : SUBSET Tiers]) /\ Len(log) <= MaxMessages
    /\ lenient \in BOOLEAN
    /\ differ \in [pc : {"idle", "saving"}, gaps : SUBSET (1..MaxMessages)]
    /\ marks \in [1..MaxMessages -> 0..MaxMarks]

Init ==
    /\ session = [state |-> "none", count |-> 0, score |-> None]
    /\ closer = [c \in Closers |-> AtRest]
    /\ log = <<>>
    /\ lenient \in BOOLEAN
    /\ differ = NoDiff
    /\ marks = [i \in 1..MaxMessages |-> 0]

------------------------------------------------------------------------------
(* The session *)

CreateSession ==
    /\ session.state = "none"
    /\ session' = [session EXCEPT !.state = "open"]
    /\ UNCHANGED <<closer, log, lenient, differ, marks>>

At(c, pc) == closer[c].pc = pc

ReadSession(c, given) ==
    /\ At(c, "idle") /\ session.state # "none"
    /\ closer' = [closer EXCEPT ![c] = [AtRest EXCEPT !.pc = "read", !.given = given, !.read = session.count]]
    /\ UNCHANGED <<session, log, lenient, differ, marks>>

\* Mutant: the count is taken from the row as it is when it is written.
GivenOrPresent(c) == IF closer[c].given # 0 THEN closer[c].given ELSE session.count

\* What the caller says, or else what the row said.
Stored(c) == IF closer[c].given # 0 THEN closer[c].given ELSE closer[c].read

\* What the session's window holds, one table after the other.
StoredInWindow == Cardinality({i \in DOMAIN log : log[i].saved # {}})

\* The score is computed from what will be stored; a failure leaves none and
\* is not fatal.
Quality(c) == [count |-> IF closer[c].given # 0 THEN closer[c].given ELSE closer[c].read, stored |-> StoredInWindow]

ComputeQuality(c) ==
    /\ At(c, "read")
    /\ \E score \in {Quality(c), None} : closer' = [closer EXCEPT ![c].pc = "scored", ![c].score = score]
    /\ UNCHANGED <<session, log, lenient, differ, marks>>

\* One UPDATE, whoever else has closed the session by now.
WriteSession(c) ==
    /\ At(c, "scored")
    /\ session' = [state |-> "closed", count |-> Stored(c), score |-> closer[c].score]
    /\ closer' = [closer EXCEPT ![c] = [AtRest EXCEPT !.pc = "done"]]
    /\ UNCHANGED <<log, lenient, differ, marks>>

------------------------------------------------------------------------------
(* The dispatch log and the rule *)

\* The two thresholds of the rule in force, as the tiers they ask for.
Due(importance, easy) == {tier \in Tiers : tier <= importance /\ (easy => tier = 4)}

\* A message is stored where it is due, or somewhere on the way a write fails.
Dispatch(importance, saved) ==
    /\ Len(log) < MaxMessages
    /\ saved \subseteq Due(importance, FALSE)
    /\ log' = Append(log, [importance |-> importance, saved |-> saved])
    /\ UNCHANGED <<session, closer, lenient, differ, marks>>

ChangeRule ==
    /\ lenient' = ~lenient
    /\ UNCHANGED <<session, closer, log, differ, marks>>

------------------------------------------------------------------------------
(* The diff *)

\* Mutant: one threshold for both tiers, that of L3.
MissingByOneThreshold(row) == IF Due(row.importance, lenient) = {} THEN {} ELSE Tiers \ row.saved

\* Each tier against its own threshold, by the rule in force now.
Missing(row) == Due(row.importance, lenient) \ row.saved

\* Of the window the harness asks for: nothing keeps it from asking twice.
ComputeGaps(since, until) ==
    /\ differ.pc = "idle"
    /\ differ' = [pc |-> "saving", gaps |-> {i \in since + 1..until : Missing(log[i]) # {}}]
    /\ UNCHANGED <<session, closer, log, lenient, marks>>

\* In the order of the log.
SaveGap ==
    /\ differ.pc = "saving"
    /\ \E i \in differ.gaps :
          /\ \A j \in differ.gaps : i <= j
          /\ marks[i] < MaxMarks
          /\ marks' = [marks EXCEPT ![i] = @ + 1]
          /\ differ' = [differ EXCEPT !.gaps = @ \ {i}]
    /\ UNCHANGED <<session, closer, log, lenient>>

DiffEnds ==
    /\ differ.pc = "saving" /\ differ.gaps = {}
    /\ differ' = NoDiff
    /\ UNCHANGED <<session, closer, log, lenient, marks>>

\* The server dies or a save fails: the gaps that are left have no episode.
DiffDies ==
    /\ differ.pc = "saving"
    /\ differ' = NoDiff
    /\ UNCHANGED <<session, closer, log, lenient, marks>>

Next ==
    \/ CreateSession
    \/ \E c \in Closers : (\E given \in Counts : ReadSession(c, given)) \/ ComputeQuality(c) \/ WriteSession(c)
    \/ \E importance \in {0} \cup Tiers, saved \in SUBSET Tiers : Dispatch(importance, saved)
    \/ ChangeRule
    \/ \E since, until \in 0..Len(log) : ComputeGaps(since, until)
    \/ SaveGap \/ DiffEnds \/ DiffDies

Spec == Init /\ [][Next]_vars

------------------------------------------------------------------------------
(* Properties *)

\* However two closings interleave, the score of a session was computed from
\* the number of messages that is stored beside it (close_session).
ScoreDescribesItsRow == session.score # None => session.score.count = session.count

\* Violated: a closing that was told a count is undone by one that was not and
\* had read the row before.
CountsAreNotForgotten == [][session.count # 0 => session'.count # 0]_vars

\* A message that was stored in every tier it was due in, by either rule, is
\* never reported as a gap, whatever rule was in force when (compute_session_gaps).
NoPhantomGap == \A i \in DOMAIN log : marks[i] > 0 => log[i].saved # Due(log[i].importance, FALSE)
=============================================================================
