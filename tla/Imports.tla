------------------------------- MODULE Imports ------------------------------
(***************************************************************************)
(* The import of a source's history into the journal, and no further       *)
(* (scripts/l0_import_source.py): a window of ids is read batch by batch   *)
(* and captured as parked rows, and a verdict compares the counts of       *)
(* before with those of after.  The live hooks go on writing meanwhile.    *)
(*                                                                         *)
(* The journal holds one row for a text, of one layer and user here; the   *)
(* chain, which the verdict also asks for, is L0Journal's.                 *)
(***************************************************************************)
EXTENDS Naturals, Sequences

CONSTANTS
    Texts, Blank,  \* messages; the one without text
    BatchLimit,
    Windows,       \* pairs of --from-id and --to-id, 0 for none
    MaxId,         \* bound on the source
    MaxEpisodes,   \* bound on what the live hooks distil
    MaxFaults,     \* bound on captures that fail and processes that die
    None

VARIABLES
    source,        \* the agent's table, by id
    journal,       \* per text: status of its row, or None
    episodes,      \* number of episodes
    run,           \* the import: [pc, dry, from, stop, cursor, batch, failures, episodes, verdict]
    stored,        \* texts the last import that said OK was to store
    faults

vars == <<source, journal, episodes, run, stored, faults>>

Messages == Texts \cup {Blank}
Resting == [pc |-> "idle", dry |-> FALSE, from |-> 1, stop |-> 0, cursor |-> 0, batch |-> <<>>, failures |-> 0,
            episodes |-> 0, verdict |-> None]

TypeOK ==
    /\ source \in Seq(Messages) /\ Len(source) <= MaxId
    /\ journal \in [Texts -> {"received", "parked", "gated_out", None}]
    /\ episodes \in 0..MaxEpisodes
    /\ run \in [pc : {"idle", "reading", "batch"}, dry : BOOLEAN, from : 1..MaxId, stop : 0..MaxId, cursor : 0..MaxId,
                batch : Seq(1..MaxId), failures : 0..MaxFaults,
                episodes : 0..MaxEpisodes, verdict : {"ok", "review", "dry", None}]
    /\ stored \subseteq Texts
    /\ faults \in 0..MaxFaults

Init ==
    /\ source = <<>>
    /\ journal = [t \in Texts |-> None]
    /\ episodes = 0
    /\ run = Resting
    /\ stored = {}
    /\ faults = 0

------------------------------------------------------------------------------
(* What goes on meanwhile *)

Say(m) ==
    /\ Len(source) < MaxId
    /\ source' = Append(source, m)
    /\ UNCHANGED <<journal, episodes, run, stored, faults>>

\* A text the hooks capture, with or without an episode made of it.
LiveCapture(t) ==
    /\ journal' = [journal EXCEPT ![t] = IF @ = None THEN "received" ELSE @]
    /\ episodes' \in {episodes, episodes + 1} \cap 0..MaxEpisodes
    /\ UNCHANGED <<source, run, stored, faults>>

\* The nightly expiry closes what was received, not what was parked.
Expire ==
    /\ journal' = [t \in Texts |-> IF journal[t] = "received" THEN "gated_out" ELSE journal[t]]
    /\ UNCHANGED <<source, episodes, run, stored, faults>>

------------------------------------------------------------------------------
(* The import *)

\* The window ends at the newest id of this moment.
Start(from, upTo, dry) ==
    /\ run.pc = "idle"
    /\ LET stop == IF upTo = 0 \/ upTo > Len(source) THEN Len(source) ELSE upTo
       IN run' = [Resting EXCEPT !.pc = "reading", !.dry = dry, !.from = from, !.stop = stop, !.cursor = from - 1,
                                 !.episodes = episodes]
    /\ UNCHANGED <<source, journal, episodes, stored, faults>>

Ahead == IF Len(source) - run.cursor < BatchLimit THEN Len(source) - run.cursor ELSE BatchLimit

Fetch ==
    /\ run.pc = "reading" /\ run.cursor < run.stop /\ Ahead > 0
    /\ run' = [run EXCEPT !.pc = "batch", !.batch = [i \in 1..Ahead |-> run.cursor + i]]
    /\ UNCHANGED <<source, journal, episodes, stored, faults>>

\* A batch may reach beyond the window: the rest of it is dropped.
Beyond ==
    /\ run.pc = "batch" /\ run.batch # <<>> /\ Head(run.batch) > run.stop
    /\ run' = [run EXCEPT !.pc = "reading", !.cursor = run.stop, !.batch = <<>>]
    /\ UNCHANGED <<source, journal, episodes, stored, faults>>

Passed == [run EXCEPT !.cursor = Head(run.batch), !.batch = Tail(@)]
Current == source[Head(run.batch)]
Importing == run.pc = "batch" /\ run.batch # <<>> /\ Head(run.batch) <= run.stop

SkipEmpty ==
    /\ Importing /\ Current = Blank
    /\ run' = Passed
    /\ UNCHANGED <<source, journal, episodes, stored, faults>>

\* A dry run only counts; a text that is on record already is not written again,
\* whatever status its row has.
CaptureParked ==
    /\ Importing /\ Current # Blank
    /\ journal' = IF run.dry \/ journal[Current] # None THEN journal ELSE [journal EXCEPT ![Current] = "parked"]
    /\ run' = Passed
    /\ UNCHANGED <<source, episodes, stored, faults>>

\* Mutant: a capture that returned nothing is counted as written.
Uncounted == Passed

Failed == [Passed EXCEPT !.failures = @ + 1]

CaptureFails ==
    /\ Importing /\ Current # Blank /\ ~run.dry /\ faults < MaxFaults
    /\ run' = Failed
    /\ faults' = faults + 1
    /\ UNCHANGED <<source, journal, episodes, stored>>

BatchDone ==
    /\ run.pc = "batch" /\ run.batch = <<>>
    /\ run' = [run EXCEPT !.pc = "reading"]
    /\ UNCHANGED <<source, journal, episodes, stored, faults>>

\* A persona's episodes are to be as many as before.
Verdict == IF run.dry THEN "dry" ELSE IF run.failures = 0 /\ run.episodes = episodes THEN "ok" ELSE "review"

Window == {source[i] : i \in run.from..run.stop} \ {Blank}

Finish ==
    /\ run.pc = "reading" /\ (run.cursor >= run.stop \/ Ahead = 0)
    /\ stored' = IF Verdict = "ok" THEN stored \cup Window ELSE stored
    /\ run' = [run EXCEPT !.pc = "idle", !.verdict = Verdict, !.batch = <<>>]
    /\ UNCHANGED <<source, journal, episodes, faults>>

Dies ==
    /\ run.pc # "idle" /\ faults < MaxFaults
    /\ run' = Resting
    /\ faults' = faults + 1
    /\ UNCHANGED <<source, journal, episodes, stored>>

Next ==
    \/ \E m \in Messages : Say(m)
    \/ \E t \in Texts : LiveCapture(t)
    \/ Expire
    \/ \E window \in Windows, dry \in BOOLEAN : Start(window[1], window[2], dry)
    \/ Fetch \/ Beyond \/ SkipEmpty \/ CaptureParked \/ CaptureFails \/ BatchDone \/ Finish \/ Dies

Spec == Init /\ [][Next]_vars

------------------------------------------------------------------------------
(* Properties *)

\* What an import that said OK was to store is in the journal, whatever its
\* batches and its window, and however often it was begun again.
OKMeansStored == \A t \in stored : journal[t] # None

\* Violated: a row the import answers for is closed by the nightly expiry,
\* because the hooks had captured the text first and it was never parked.
ImportedRowsSleep == \A t \in stored : journal[t] # "gated_out"

\* Violated: no capture failed and the import asks for a review all the same,
\* for an episode of the hooks.
ReviewMeansFailure == run.verdict = "review" => run.failures > 0
=============================================================================
