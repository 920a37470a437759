------------------------------ MODULE Delivery ------------------------------
(***************************************************************************)
(* What the autohooks daemon promises about a chat log it tails            *)
(* (autohooks/daemon.py, the module docstring): at-least-once delivery.    *)
(* The mark behind which nothing is ever read again moves past a message   *)
(* only once that message has been dealt with.  Nothing is said of         *)
(* batches, gates, retries or crashes: those are Daemon's business.        *)
(***************************************************************************)
EXTENDS Naturals, Sequences

CONSTANT Msgs

VARIABLES
    log,    \* the chat log: the messages in the order of their ids
    dealt,  \* the messages that need no further attention, or are out of reach
    mark    \* everything up to this id is behind the reader

vars == <<log, dealt, mark>>

Init == log \in Seq(Msgs) /\ dealt \in SUBSET Msgs /\ mark = 0

\* Another process writes a message; after a renumbering its id may be one the
\* reader has passed, and the promise does not cover it.
Arrive(m) == /\ log' = Append(log, m)
             /\ dealt' = IF Len(log) < mark THEN dealt \cup {m} ELSE dealt
             /\ UNCHANGED mark

\* Messages are written, refused on their merits, found undeliverable, or
\* skipped as history.
Deal(S) == dealt' = dealt \cup S /\ UNCHANGED <<log, mark>>

\* The mark moves forward over messages that have been dealt with.
Advance(n) == /\ n \in mark + 1..Len(log)
              /\ \A i \in mark + 1..n : log[i] \in dealt
              /\ mark' = n
              /\ UNCHANGED <<log, dealt>>

\* Everything is read again, and what was out of reach no longer is.
Rewind == mark' = 0 /\ dealt' \in SUBSET dealt /\ UNCHANGED log

\* The log is replaced by a renumbered one.
Replaced(n) == /\ log' = SubSeq(log, n + 1, Len(log))
               /\ dealt' = dealt \cup {log[i] : i \in {j \in n + 1..Len(log) : j - n <= mark}}
               /\ UNCHANGED mark

Next == \/ \E m \in Msgs : Arrive(m)
        \/ \E S \in SUBSET Msgs : Deal(S)
        \/ \E n \in 1..Len(log) : Advance(n) \/ Replaced(n)
        \/ Rewind

Spec == Init /\ [][Next]_vars

\* Nothing that still needs attention is behind the mark.
NothingLeftBehind == \A i \in 1..Len(log) : i <= mark => log[i] \in dealt
=============================================================================
