------------------------------- MODULE Daemon -------------------------------
(***************************************************************************)
(* The autohooks daemon (autohooks/daemon.py): a poll loop that tails a    *)
(* chat database another process writes, offers each message to the hook   *)
(* pipeline and keeps a cursor in a state file.                            *)
(*                                                                         *)
(* One dispatch runs the middleware chain (rate limit, then dedup), then   *)
(* the handler of the hook registry, which reports a failure as a result   *)
(* and says whether it was transient.  The daemon reads the result and     *)
(* either moves past the message or stops the batch there.  The process    *)
(* may die at any point, between a write and the saving of the cursor and  *)
(* in the middle of that saving too: save_cursor truncates the file and    *)
(* writes it again.  A tick on which the source is busy or broken changes  *)
(* nothing and is a stutter here; what the handler does inside is L0Rows.  *)
(***************************************************************************)
EXTENDS Integers, Sequences, FiniteSets

CONSTANTS
    Msgs,        \* messages, each written to the source at most once
    Blank,       \* the messages whose text is empty
    BatchLimit,  \* rows read per poll
    RateMax,     \* dispatches the limiter lets through per minute
    MaxCrashes,  \* bound on the deaths of the daemon
    MaxMerges,   \* bound on the renumberings of the source
    NoFile, Torn \* the state file does not exist / was truncated and not rewritten

VARIABLES
    source,   \* the messages of the chat table, in id order: an id is a position
    file,     \* the cursor in the state file, or NoFile, or Torn
    daemon,   \* the process: [pc, cursor, upto, left]
    gates,    \* the memory of the middleware chain: [passed, recent]
    store,    \* what became of the messages: [written, logged, closed]
    history   \* [crashes, merges, unread]: counters and the messages a merge put out of reach

vars == <<source, file, daemon, gates, store, history>>

Ids == 0..Cardinality(Msgs)

ASSUME MessagesAssumption == IsFiniteSet(Msgs) /\ Blank \subseteq Msgs
ASSUME BoundsAssumption == BatchLimit \in Nat /\ RateMax \in Nat /\ MaxCrashes \in Nat /\ MaxMerges \in Nat
ASSUME FileAssumption == NoFile \notin Ids /\ Torn \notin Ids /\ NoFile # Torn

Sent == {source[i] : i \in DOMAIN source}
MaxId == Len(source)

\* Everything up to here is behind the daemon, whatever happens to it.
Mark == CASE file \in Ids -> file [] file = Torn -> daemon.cursor [] file = NoFile -> 0

\* A message that no longer needs the daemon.
Dealt == Blank \cup store.written \cup store.closed

TypeOK ==
    /\ source \in UNION {[1..n -> Msgs] : n \in Ids}
    /\ file \in Ids \cup {NoFile, Torn}
    /\ daemon \in [pc : {"down", "poll", "dispatch", "save", "saving"}, cursor : Ids, upto : Ids, left : Ids]
    /\ gates \in [passed : 0..RateMax, recent : SUBSET Msgs]
    /\ store \in [written : SUBSET Msgs, logged : SUBSET Msgs, closed : SUBSET Msgs]
    /\ history \in [crashes : 0..MaxCrashes, merges : 0..MaxMerges, unread : SUBSET Msgs]

EmptyGates == [passed |-> 0, recent |-> {}]

\* The messages present before the first start are the history it will skip.
Init ==
    /\ source \in UNION {[1..n -> Msgs] : n \in 0..1}
    /\ file = NoFile
    /\ daemon = [pc |-> "down", cursor |-> 0, upto |-> 0, left |-> 0]
    /\ gates = EmptyGates
    /\ store = [written |-> {}, logged |-> {}, closed |-> {}]
    /\ history = [crashes |-> 0, merges |-> 0, unread |-> {}]

------------------------------------------------------------------------------
(* The chat database, written by another process *)

Arrive(m) ==
    /\ m \notin Sent \cup store.written \cup store.closed \cup history.unread
    /\ source' = Append(source, m)
    /\ history' = IF MaxId < Mark THEN [history EXCEPT !.unread = @ \cup {m}] ELSE history
    /\ UNCHANGED <<file, daemon, gates, store>>

\* A merge of agents re-issues the ids: the oldest n rows leave and the others
\* move down.  A row that lands at or below the cursor unread is out of reach
\* until the daemon notices.
Merge(n) ==
    /\ history.merges < MaxMerges
    /\ n \in 1..MaxId
    /\ daemon.pc \in {"down", "poll"}
    /\ source' = SubSeq(source, n + 1, MaxId)
    /\ history' = [history EXCEPT !.merges = @ + 1,
           !.unread = @ \cup ({source[i] : i \in {j \in n + 1..MaxId : j - n <= Mark}} \ Dealt)]
    /\ UNCHANGED <<file, daemon, gates, store>>

------------------------------------------------------------------------------
(* The process *)

\* A file that cannot be parsed raises out of run_daemon, so a torn file never
\* gets past this point.
Start ==
    /\ daemon.pc = "down"
    /\ file # Torn
    /\ daemon' = [daemon EXCEPT !.pc = "poll", !.left = 0,
                                !.cursor = IF file = NoFile THEN 0 ELSE file]
    /\ UNCHANGED <<source, file, gates, store, history>>

SaveAt(id) == daemon' = [daemon EXCEPT !.pc = "save", !.cursor = id, !.upto = id, !.left = 0]

\* No state file: the newest existing row is the first cursor.
TakeBaseline ==
    /\ daemon.pc = "poll" /\ file = NoFile
    /\ SaveAt(MaxId)
    /\ store' = [store EXCEPT !.closed = @ \cup Sent]
    /\ UNCHANGED <<source, file, gates, history>>

WentBackwards == MaxId < daemon.cursor

\* The newest row is behind the cursor: everything is read again from zero.
Rewind ==
    /\ daemon.pc = "poll" /\ file # NoFile
    /\ WentBackwards
    /\ SaveAt(0)
    /\ UNCHANGED <<source, file, gates, store, history>>

\* Mutant: the row right behind the cursor is left for the next poll.
BatchShort == LET ahead == MaxId - daemon.cursor - 1 IN IF ahead < BatchLimit THEN ahead ELSE BatchLimit

Batch == LET ahead == MaxId - daemon.cursor IN IF ahead < BatchLimit THEN ahead ELSE BatchLimit

Fetch ==
    /\ daemon.pc = "poll" /\ file # NoFile
    /\ ~WentBackwards
    /\ Batch > 0
    /\ daemon' = [daemon EXCEPT !.pc = "dispatch", !.upto = daemon.cursor, !.left = Batch]
    /\ UNCHANGED <<source, file, gates, store, history>>

------------------------------------------------------------------------------
(* One dispatch *)

Dispatching == daemon.pc = "dispatch" /\ daemon.left > 0
Current == source[daemon.upto + 1]
MoveOn == daemon' = [daemon EXCEPT !.upto = @ + 1, !.left = @ - 1]
HoldPassing == daemon' = [daemon EXCEPT !.upto = @ + 1, !.left = 0] \* mutant: past the held message
HoldHere == daemon' = [daemon EXCEPT !.left = 0]

\* Empty text is passed over before the pipeline, which it would only crowd.
SkipBlank ==
    /\ Dispatching /\ Current \in Blank
    /\ MoveOn
    /\ UNCHANGED <<source, file, gates, store, history>>

RateLimited ==
    /\ Dispatching /\ Current \notin Blank
    /\ gates.passed = RateMax
    /\ HoldHere
    /\ UNCHANGED <<source, file, gates, store, history>>

\* Mutant: the dedup gate counts what it declines, whatever the limiter said.
DedupedUncounted ==
    /\ Dispatching /\ Current \notin Blank
    /\ Current \in gates.recent
    /\ gates' = [gates EXCEPT !.passed = @ + 1]
    /\ HoldHere
    /\ UNCHANGED <<source, file, store, history>>

\* The rate limiter has counted the call before the dedup gate declines it.
Deduped ==
    /\ Dispatching /\ Current \notin Blank
    /\ gates.passed < RateMax
    /\ Current \in gates.recent
    /\ gates' = [gates EXCEPT !.passed = @ + 1]
    /\ HoldHere
    /\ UNCHANGED <<source, file, store, history>>

Reached ==
    /\ Dispatching /\ Current \notin Blank
    /\ gates.passed < RateMax
    /\ Current \notin gates.recent
    /\ gates' = [passed |-> gates.passed + 1, recent |-> gates.recent \cup {Current}]
    /\ UNCHANGED <<source, file, history>>

\* The dispatch log already holds the message: an earlier delivery was finished.
Duplicate == Reached /\ Current \in store.logged /\ MoveOn /\ UNCHANGED store

Fresh == Reached /\ Current \notin store.logged

\* The log row is best effort: its failure does not fail the save.
Delivered ==
    /\ Fresh /\ MoveOn
    /\ \E kept \in {{}, {Current}} :
          store' = [store EXCEPT !.written = @ \cup {Current}, !.logged = @ \cup kept]

\* The event is refused on its merits (the hook is disabled, an unimportant
\* text), or it can never be delivered: a handler bug, a permanent database
\* error outside the handler.
Closed == Fresh /\ MoveOn /\ store' = [store EXCEPT !.closed = @ \cup {Current}]

\* A busy database, after the handler had written or before.
Transient ==
    /\ Fresh /\ HoldHere
    /\ \E done \in {{}, {Current}} : store' = [store EXCEPT !.written = @ \cup done]

Dispatch == SkipBlank \/ RateLimited \/ Deduped \/ Duplicate \/ Delivered \/ Closed \/ Transient

\* The gates forget: the minute of the limiter, the seconds of the dedup.
MinutePasses ==
    /\ gates.passed > 0
    /\ gates' = [gates EXCEPT !.passed = 0]
    /\ UNCHANGED <<source, file, daemon, store, history>>

DedupExpires ==
    /\ gates.recent # {}
    /\ gates' = [gates EXCEPT !.recent = {}]
    /\ UNCHANGED <<source, file, daemon, store, history>>

------------------------------------------------------------------------------
(* The end of a tick *)

\* Mutant: the cursor is moved and the file left as it is.
EndBatchUnsaved ==
    /\ daemon.pc = "dispatch" /\ daemon.left = 0
    /\ daemon' = [daemon EXCEPT !.pc = "poll", !.cursor = daemon.upto]
    /\ UNCHANGED <<source, file, gates, store, history>>

EndBatch ==
    /\ daemon.pc = "dispatch" /\ daemon.left = 0
    /\ daemon' = IF daemon.upto = daemon.cursor
                 THEN [daemon EXCEPT !.pc = "poll"]
                 ELSE [daemon EXCEPT !.pc = "save", !.cursor = daemon.upto]
    /\ UNCHANGED <<source, file, gates, store, history>>

\* write_text opens the file for writing, which empties it, then writes.  After
\* a rewind the rows that were out of reach are ahead again.
BeginSave ==
    /\ daemon.pc = "save"
    /\ file' = Torn
    /\ daemon' = [daemon EXCEPT !.pc = "saving"]
    /\ history' = IF daemon.cursor = 0 THEN [history EXCEPT !.unread = {}] ELSE history
    /\ UNCHANGED <<source, gates, store>>

EndSave ==
    /\ daemon.pc = "saving"
    /\ file' = daemon.cursor
    /\ daemon' = [daemon EXCEPT !.pc = "poll"]
    /\ UNCHANGED <<source, gates, store, history>>

\* The process dies, the gates with it; inside a handler the message may have
\* been written and not logged.
Crash ==
    /\ daemon.pc # "down"
    /\ history.crashes < MaxCrashes
    /\ history' = [history EXCEPT !.crashes = @ + 1]
    /\ daemon' = [pc |-> "down", cursor |-> Mark, upto |-> 0, left |-> 0]
    /\ gates' = EmptyGates
    /\ \/ UNCHANGED store
       \/ /\ Dispatching /\ Current \notin Blank
          /\ store' = [store EXCEPT !.written = @ \cup {Current}]
    /\ UNCHANGED <<source, file>>

Tick == Start \/ TakeBaseline \/ Rewind \/ Fetch \/ EndBatch \/ BeginSave \/ EndSave

Next ==
    \/ \E m \in Msgs : Arrive(m)
    \/ \E n \in 1..MaxId : Merge(n)
    \/ Tick \/ Dispatch
    \/ MinutePasses \/ DedupExpires
    \/ Crash

\* The loop runs, systemd restarts it, windows pass, and a busy database is
\* busy for a while and not for ever.
Fairness ==
    /\ WF_vars(Tick)
    /\ WF_vars(Dispatch)
    /\ WF_vars(MinutePasses)
    /\ WF_vars(DedupExpires)
    /\ SF_vars(Delivered \/ Closed)

Spec == Init /\ [][Next]_vars
FairSpec == Spec /\ Fairness

------------------------------------------------------------------------------
(* Properties *)

Promise == INSTANCE Delivery WITH log <- source, dealt <- Dealt \cup history.unread, mark <- Mark

\* Whatever the gates, the failures and the crashes do, the daemon is an
\* at-least-once reader: the cursor moves only over messages that were written,
\* refused, undeliverable or skipped as history (run_daemon, handled_upto).
ImplementsPromise == Promise!Spec

\* A crash costs at most one batch of repeated dispatches (the docstring of
\* autohooks/daemon.py): no more than BatchLimit messages ahead of the saved
\* cursor have been through a handler, as long as nobody renumbers the source.
OneBatchAgain ==
    history.merges = 0 /\ file # NoFile =>
        Cardinality({i \in Mark + 1..MaxId : source[i] \in store.written \cup store.closed}) <= BatchLimit

\* Every message is dealt with in the end, unless a renumbering put it out of
\* reach or the state file was left torn, which no restart survives: a held
\* message is offered again until the gates and the database let it through.
EveryMessageIsDealtWith ==
    \A m \in Msgs : m \in Sent ~> (m \in Dealt \cup history.unread \/ m \notin Sent \/ (file = Torn /\ daemon.pc = "down"))
=============================================================================
