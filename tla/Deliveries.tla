----------------------------- MODULE Deliveries -----------------------------
(***************************************************************************)
(* One message, two ways in: the plugin pushes it and cannot name its      *)
(* source row, the daemon tails the chat database and can.  Whichever      *)
(* comes second is refused at the door as a duplicate (auto_save_text),    *)
(* hands its source id to the row that won, or is let go without a word    *)
(* because the other path has stored the message.                          *)
(*                                                                         *)
(* Time passes in units of the capture lag, against which the clock slack  *)
(* is nothing.  What follows the capture is in L0Rows.                     *)
(***************************************************************************)
EXTENDS Naturals, Sequences

CONSTANTS
    Msgs, Texts,   \* source messages, and what they may say
    Foreign,       \* the texts the guards refuse: dumps, boilerplate, injections
    MaxTime,       \* bound on the clock
    Lag,           \* CAPTURE_LAG_S
    None

VARIABLES
    clock,
    sent,      \* source database: message -> [text, at], or None
    journal,   \* sequence of [text, ts, source]
    delivery   \* per <<message, path>>: [pc, ts, prior]

vars == <<clock, sent, journal, delivery>>

Paths == {"plugin", "daemon"}
Ways == Msgs \X Paths
Times == 0..MaxTime
Row == [text : Texts, ts : Times, source : Msgs \cup {None}]
Outcomes == {"stored", "claimed", "passed", "recorded", "unrecorded"}
NoDelivery == [pc |-> "none", ts |-> 0, prior |-> 0]

TypeOK ==
    /\ clock \in Times
    /\ sent \in [Msgs -> [text : Texts, at : Times] \cup {None}]
    /\ journal \in Seq(Row)
    /\ delivery \in [Ways -> [pc : {"none", "look", "capture", "claim", "recent", "refuse"} \cup Outcomes,
                              ts : Times, prior : Nat]]

Init ==
    /\ clock = 0
    /\ sent = [m \in Msgs |-> None]
    /\ journal = <<>>
    /\ delivery = [d \in Ways |-> NoDelivery]

At(d, pc) == delivery[d].pc = pc
Goto(d, pc) == delivery' = [delivery EXCEPT ![d].pc = pc]
End(d, pc) == delivery' = [delivery EXCEPT ![d] = [NoDelivery EXCEPT !.pc = pc]]
TextOf(d) == sent[d[1]].text

Tick ==
    /\ clock < MaxTime
    /\ clock' = clock + 1
    /\ UNCHANGED <<sent, journal, delivery>>

Say(m, text) ==
    /\ sent[m] = None
    /\ sent' = [sent EXCEPT ![m] = [text |-> text, at |-> clock]]
    /\ UNCHANGED <<clock, journal, delivery>>

------------------------------------------------------------------------------
(* At the door *)

\* The plugin's delivery carries its own hour, the daemon's that of the message.
\* A delivery that was let through or refused may come once more.
Arrive(d) ==
    /\ sent[d[1]] # None
    /\ At(d, "none")
    /\ LET ts == IF d[2] = "plugin" THEN clock ELSE sent[d[1]].at
       IN delivery' = [delivery EXCEPT ![d] = [pc |-> IF TextOf(d) \in Foreign THEN "refuse" ELSE "look", ts |-> ts, prior |-> 0]]
    /\ UNCHANGED <<clock, sent, journal>>

Holding(text) == {i \in DOMAIN journal : journal[i].text = text}

\* find_block has no window: the first row with that text.
FindBlock(d) ==
    /\ At(d, "look")
    /\ IF Holding(TextOf(d)) = {} THEN Goto(d, "capture")
       ELSE \E i \in Holding(TextOf(d)) :
               /\ \A j \in Holding(TextOf(d)) : i <= j
               /\ delivery' = [delivery EXCEPT ![d].prior = i,
                                               ![d].pc = IF d[2] = "daemon" THEN "claim" ELSE "recent"]
    /\ UNCHANGED <<clock, sent, journal>>

SourceOf(d) == IF d[2] = "daemon" THEN d[1] ELSE None

\* The capture looks again; a row that came in between is given back as it is.
Capture(d) ==
    /\ At(d, "capture")
    /\ journal' = IF Holding(TextOf(d)) # {} THEN journal
                  ELSE Append(journal, [text |-> TextOf(d), ts |-> delivery[d].ts, source |-> SourceOf(d)])
    /\ End(d, "stored")
    /\ UNCHANGED <<clock, sent>>

\* Mutant: the row's former source is not looked at.
TakenBack(row, d) == row.ts >= delivery[d].ts /\ row.ts <= delivery[d].ts + Lag

\* The claim names the row's source if none is named, inside the causal window.
MayClaim(row, d) ==
    /\ row.source \in {None, d[1]}
    /\ row.ts >= delivery[d].ts /\ row.ts <= delivery[d].ts + Lag

\* A failing UPDATE claims nothing.
Claim(d) ==
    /\ At(d, "claim")
    /\ \/ /\ MayClaim(journal[delivery[d].prior], d)
          /\ journal' = [journal EXCEPT ![delivery[d].prior].source = d[1]]
          /\ Goto(d, "claimed")
       \/ Goto(d, "recent") /\ UNCHANGED journal
    /\ UNCHANGED <<clock, sent>>

Apart(a, b) == IF a < b THEN b - a ELSE a - b

\* Mutant: a row with that text is evidence enough, whenever it was captured.
AnyCapture(row, d) == TRUE

\* Symmetric, for nothing is written by it.
IsRecentCapture(row, d) == Apart(row.ts, delivery[d].ts) <= Lag

\* A failing read knows nothing, and the refusal stays.
PassOver(d) ==
    /\ At(d, "recent")
    /\ \/ IsRecentCapture(journal[delivery[d].prior], d) /\ Goto(d, "passed")
       \/ Goto(d, "refuse")
    /\ UNCHANGED <<clock, sent, journal>>

\* The verdict and its record are one function; the record is best effort.
Refuse(d) ==
    /\ At(d, "refuse")
    /\ End(d, "recorded") \/ End(d, "unrecorded")
    /\ UNCHANGED <<clock, sent, journal>>

\* The daemon holds its cursor and offers a message again; the plugin retries.
Retry(d) ==
    /\ delivery[d].pc \in Outcomes
    /\ delivery' = [delivery EXCEPT ![d] = NoDelivery]
    /\ UNCHANGED <<clock, sent, journal>>

Next ==
    \/ Tick
    \/ \E m \in Msgs, text \in Texts : Say(m, text)
    \/ \E d \in Ways : Arrive(d) \/ FindBlock(d) \/ Capture(d) \/ Claim(d) \/ PassOver(d) \/ Refuse(d) \/ Retry(d)

Spec == Init /\ [][Next]_vars

------------------------------------------------------------------------------
(* Properties *)

\* Of every step: a row that names its source names a message with that text, and keeps the
\* name: a later delivery of the same words never takes the row over, and two
\* deliveries of one message never leave it without (claim_source_msg_id).
ProvenanceIsKept ==
    \A i \in DOMAIN journal :
       journal[i].source # None => journal'[i].source = journal[i].source

\* What is turned away without a word was stored about that time, by this path
\* or the other (_refuse, is_recent_capture).
SilenceMeansStored ==
    \A d \in Ways :
        delivery[d].pc \in {"passed", "claimed"} =>
            \E i \in DOMAIN journal : /\ journal[i].text = TextOf(d)
                                      /\ Apart(journal[i].ts, delivery[d].ts) <= Lag
=============================================================================
