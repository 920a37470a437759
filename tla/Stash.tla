-------------------------------- MODULE Stash --------------------------------
(***************************************************************************)
(* The working context of an agent: the ring of recent messages (L1), kept *)
(* in memory and saved to a file now and then, the scratchpad (a table),   *)
(* and the stash that puts both aside and brings them back.                *)
(*                                                                         *)
(* Stash calls have no await that suspends, so nothing of their process    *)
(* runs between their steps; a crash can end them there, and each step is  *)
(* a transaction of its own.  A failed read of the scratchpad is an empty  *)
(* one, a failed write returns False and nobody looks.  Messages are       *)
(* numbered in the order they come.                                        *)
(***************************************************************************)
EXTENDS Naturals, Sequences, FiniteSets

CONSTANTS
    Keys, Texts, \* the entries of the scratchpad
    RingSize,    \* max_size of the ring
    SaveEvery,   \* _SAVE_EVERY_ADDS
    MaxMessages, \* bound on the messages
    MaxFaults,   \* bound on failed reads, writes and saves, and crashes
    None

VARIABLES
    ring,    \* the messages in memory
    disk,    \* the messages in the file
    adds,    \* _adds_since_save
    unsaved, \* history: messages added since the file was last written
    next,    \* the number of the next message
    pad,     \* key -> text or None
    stash,   \* [ring, pad], or None
    call,    \* the stash call under way: [pc, todo]
    faults,  \* how many reads, writes and saves failed, and crashes happened
    history  \* [kept, lost, saves]: entries nobody removed, those whose write
             \* back failed, and the saves of the ring that failed

vars == <<ring, disk, adds, unsaved, next, pad, stash, call, faults, history>>

Pads == [Keys -> Texts \cup {None}]
Entries == Keys \X Texts
Blank == [k \in Keys |-> None]
NoCall == [pc |-> "idle", todo |-> {}]
EntriesOf(p) == {<<k, p[k]>> : k \in {j \in Keys : p[j] # None}}

TypeOK ==
    /\ ring \in Seq(1..MaxMessages) /\ Len(ring) <= RingSize
    /\ disk \in Seq(1..MaxMessages) /\ Len(disk) <= RingSize
    /\ adds \in 0..SaveEvery
    /\ unsaved \in 0..MaxMessages
    /\ next \in 1..MaxMessages + 1
    /\ pad \in Pads
    /\ stash \in [ring : Seq(1..MaxMessages), pad : Pads] \cup {None}
    /\ call \in [pc : {"idle", "clear ring", "clear pad", "refill", "write"}, todo : SUBSET Entries]
    /\ faults \in 0..MaxFaults
    /\ history \in [kept : SUBSET Entries, lost : SUBSET Entries, saves : 0..MaxFaults]

Init ==
    /\ ring = <<>> /\ disk = <<>>
    /\ adds = 0 /\ unsaved = 0
    /\ next = 1
    /\ pad = Blank
    /\ stash = None
    /\ call = NoCall
    /\ faults = 0
    /\ history = [kept |-> {}, lost |-> {}, saves |-> 0]

Fault == faults < MaxFaults /\ faults' = faults + 1

Newest(s) == IF Len(s) > RingSize THEN SubSeq(s, Len(s) - RingSize + 1, Len(s)) ELSE s

------------------------------------------------------------------------------
(* The ring *)

\* The file is replaced whole; a failure is swallowed and the file stays.
SaveRing(r, n) ==
    \/ /\ disk' = r /\ unsaved' = 0
       /\ UNCHANGED <<faults, history>>
    \/ /\ Fault
       /\ disk' = disk /\ unsaved' = n
       /\ history' = [history EXCEPT !.saves = @ + 1]

\* Mutant: only the passing of time makes a save due.
OnlyWithTime(n) == FALSE

DueByCount(n) == n >= SaveEvery

\* Due by count, or because thirty seconds have passed, which may be.  The
\* counter starts anew whether or not the file was written.
Add ==
    /\ call = NoCall /\ next <= MaxMessages
    /\ next' = next + 1
    /\ ring' = Newest(Append(ring, next))
    /\ \/ /\ SaveRing(ring', unsaved + 1)
          /\ adds' = 0
       \/ /\ ~DueByCount(adds + 1)
          /\ adds' = IF adds < SaveEvery THEN adds + 1 ELSE adds
          /\ unsaved' = unsaved + 1
          /\ UNCHANGED <<disk, faults, history>>
    /\ UNCHANGED <<pad, stash, call>>

\* Newest wins; saved at once, and the next addition saves again.
ImportRing ==
    /\ call = NoCall /\ next <= MaxMessages
    /\ next' = next + 1
    /\ ring' = Newest(Append(ring, next))
    /\ adds' = SaveEvery
    /\ SaveRing(ring', unsaved + 1)
    /\ UNCHANGED <<pad, stash, call>>

\* A new process loads what the file holds.
Crash ==
    /\ Fault
    /\ ring' = disk /\ adds' = 0 /\ unsaved' = 0
    /\ call' = NoCall
    /\ UNCHANGED <<disk, next, pad, stash, history>>

------------------------------------------------------------------------------
(* The scratchpad *)

\* The agent's own hand: what it overwrites or clears is not lost.
WriteEntry(k, t) ==
    /\ call = NoCall
    /\ pad' = [pad EXCEPT ![k] = t]
    /\ history' = [history EXCEPT !.kept = (@ \ {<<k, u>> : u \in {pad[k]}}) \cup {<<k, t>>}, !.lost = @ \ {<<k, t>>}]
    /\ UNCHANGED <<ring, disk, adds, unsaved, next, stash, call, faults>>

ClearEntry(k) ==
    /\ call = NoCall /\ pad[k] # None
    /\ pad' = [pad EXCEPT ![k] = None]
    /\ history' = [history EXCEPT !.kept = @ \ {<<k, pad[k]>>}]
    /\ UNCHANGED <<ring, disk, adds, unsaved, next, stash, call, faults>>

\* What read_entries says the pad holds.
PadAsRead == {pad} \cup (IF faults < MaxFaults THEN {Blank} ELSE {})
Misread(p) == IF p # pad THEN Fault ELSE UNCHANGED faults

------------------------------------------------------------------------------
(* stash_save *)

StashInsert ==
    /\ call = NoCall /\ stash = None
    /\ \E p \in PadAsRead :
          /\ Misread(p)
          /\ ring # <<>> \/ p # Blank
          /\ stash' = [ring |-> ring, pad |-> p]
          /\ call' = [pc |-> "clear ring", todo |-> EntriesOf(p)]
    /\ UNCHANGED <<ring, disk, adds, unsaved, next, pad, history>>

ClearRing ==
    /\ call.pc = "clear ring"
    /\ ring' = <<>>
    /\ SaveRing(<<>>, 0)
    /\ call' = IF call.todo # {} THEN [call EXCEPT !.pc = "clear pad"] ELSE NoCall
    /\ UNCHANGED <<adds, next, pad, stash>>

\* Clearing may fail too; the entries are in both places then.
ClearPad ==
    /\ call.pc = "clear pad"
    /\ \/ pad' = Blank /\ UNCHANGED faults
       \/ Fault /\ UNCHANGED pad
    /\ call' = NoCall
    /\ UNCHANGED <<ring, disk, adds, unsaved, next, stash, history>>

------------------------------------------------------------------------------
(* stash_pop *)

\* Refused while the pad is seen to hold anything.
StashPop ==
    /\ call = NoCall /\ stash # None
    /\ Blank \in PadAsRead
    /\ Misread(Blank)
    /\ call' = [pc |-> "refill", todo |-> EntriesOf(stash.pad)]
    /\ UNCHANGED <<ring, disk, adds, unsaved, next, pad, stash, history>>

\* The ring is cleared and filled again, saved on clearing and as additions
\* come due: the last save came after i of them, or is the one that failed.
Refill ==
    /\ call.pc = "refill"
    /\ ring' = stash.ring
    /\ \E i \in 0..Len(stash.ring) :
          LET since == Len(stash.ring) - i IN
          /\ adds' = IF i = 0 THEN adds + since ELSE since
          /\ since > 0 => ~DueByCount(adds')
          /\ \/ /\ disk' = SubSeq(stash.ring, 1, i) /\ unsaved' = since
                /\ UNCHANGED <<faults, history>>
             \/ /\ Fault /\ i <= SaveEvery
                /\ disk' = disk /\ unsaved' = Len(stash.ring)
                /\ history' = [history EXCEPT !.saves = @ + 1]
    /\ call' = [call EXCEPT !.pc = "write"]
    /\ UNCHANGED <<next, pad, stash>>

\* Mutant: the stash is dropped before its entries are back.
AtOnce == TRUE

AllWritten == call.todo = {}

\* An entry is written, or its write fails and the rest go on.  Over an entry
\* the pad was not seen to hold it is the agent's text that goes.
PopWrites ==
    /\ call.pc = "write"
    /\ \E e \in call.todo :
          /\ call' = [call EXCEPT !.todo = @ \ {e}]
          /\ \/ /\ pad' = [pad EXCEPT ![e[1]] = e[2]]
                /\ history' = [history EXCEPT !.lost = @ \cup ({<<e[1], pad[e[1]]>>} \cap (Entries \ {e}))]
                /\ UNCHANGED faults
             \/ /\ Fault
                /\ history' = [history EXCEPT !.lost = @ \cup {e}]
                /\ UNCHANGED pad
    /\ UNCHANGED <<ring, disk, adds, unsaved, next, stash>>

PopDrops ==
    /\ call.pc = "write" /\ AllWritten
    /\ stash' = None
    /\ call' = NoCall
    /\ UNCHANGED <<ring, disk, adds, unsaved, next, pad, faults, history>>

\* Thrown away on purpose.
StashDrop ==
    /\ call = NoCall /\ stash # None
    /\ stash' = None
    /\ history' = [history EXCEPT !.kept = @ \ (EntriesOf(stash.pad) \ EntriesOf(pad))]
    /\ UNCHANGED <<ring, disk, adds, unsaved, next, pad, call, faults>>

------------------------------------------------------------------------------
Ring == Add \/ ImportRing \/ Crash
Pad == \E k \in Keys : ClearEntry(k) \/ (\E t \in Texts : WriteEntry(k, t))
Stashing == StashInsert \/ ClearRing \/ ClearPad \/ StashPop \/ Refill \/ PopWrites \/ PopDrops \/ StashDrop

Next == Ring \/ Pad \/ Stashing

Spec == Init /\ [][Next]_vars

------------------------------------------------------------------------------
\* An entry the agent never removed is on the pad or in the stash, unless its
\* write back failed, or fell on an entry that a failed read hid.
StashKeepsEntries ==
    \A e \in history.kept \ history.lost :
        e \in EntriesOf(pad) \/ (stash # None /\ e \in EntriesOf(stash.pad))

\* Violated: nothing is lost silently, as the module's docstring says.
NoSilentLoss == history.kept \cap history.lost = {}

\* A crash loses at most the few messages since the last save: as many more
\* for each save that failed.
LossIsBounded == unsaved < SaveEvery * (history.saves + 1)
===============================================================================
