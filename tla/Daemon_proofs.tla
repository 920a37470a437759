---------------------------- MODULE Daemon_proofs ---------------------------
(***************************************************************************)
(* Proofs about Daemon, for any messages, limits and bounds: its state     *)
(* keeps its type, it implements at-least-once delivery (Delivery), and    *)
(* nothing that still needs it is behind the mark.                         *)
(***************************************************************************)
EXTENDS Daemon, TLAPS, FiniteSetTheorems

-----------------------------------------------------------------------------
(* The inductive invariant *)

\* The chat log is a sequence in which no message occurs twice.
Distinct ==
    /\ source \in Seq(Msgs)
    /\ \A i, j \in 1..Len(source) : source[i] = source[j] => i = j

Places == {"down", "poll", "dispatch", "save", "saving"}

Fields ==
    /\ file \in Ids \cup {NoFile, Torn}
    /\ daemon \in [pc : Places, cursor : Ids, upto : Ids, left : Ids]
    /\ gates \in [passed : 0..RateMax, recent : SUBSET Msgs]
    /\ store \in [written : SUBSET Msgs, logged : SUBSET Msgs, closed : SUBSET Msgs]
    /\ history \in [crashes : 0..MaxCrashes, merges : 0..MaxMerges, unread : SUBSET Msgs]

\* The file is torn only while it is rewritten, or once the process has died
\* in that; a reader at work stands at the mark.
AtTheMark ==
    /\ daemon.pc = "saving" => file = Torn
    /\ file = Torn => daemon.pc \in {"saving", "down"}
    /\ daemon.pc = "dispatch" => file # NoFile
    /\ daemon.pc \in {"poll", "dispatch"} => daemon.cursor = Mark

\* Messages a batch, or a cursor that waits to be saved, has moved over.
BatchIsDealt ==
    /\ store.logged \subseteq store.written
    /\ daemon.pc = "dispatch" =>
          /\ daemon.cursor <= daemon.upto
          /\ daemon.upto + daemon.left <= Len(source)
          /\ \A i \in daemon.cursor + 1..daemon.upto : source[i] \in Dealt
    /\ daemon.pc = "save" /\ daemon.cursor # 0 =>
          /\ Mark <= daemon.cursor
          /\ daemon.cursor <= Len(source)
          /\ \A i \in Mark + 1..daemon.cursor : source[i] \in Dealt

ReaderInv == Distinct /\ Fields /\ AtTheMark /\ BatchIsDealt

-----------------------------------------------------------------------------
(* The log *)

LEMMA IdsAreNumbers == Cardinality(Msgs) \in Nat /\ Ids \subseteq Nat /\ 0 \in Ids
  BY MessagesAssumption, FS_CardinalityType DEF Ids

\* A log without repetitions is no longer than there are messages.
LEMMA LogFits ==
    ASSUME NEW s \in Seq(Msgs), \A i, j \in 1..Len(s) : s[i] = s[j] => i = j
    PROVE  Len(s) \in Ids
<1>1. Len(s) \in Nat /\ s \in [1..Len(s) -> Msgs]
  OBVIOUS
<1>2. s \in Injection(1..Len(s), Msgs)
  BY <1>1 DEF Injection, IsInjective
<1>3. Cardinality(1..Len(s)) = Len(s)
  BY <1>1, FS_Interval
<1>4. Len(s) <= Cardinality(Msgs)
  BY <1>2, <1>3, FS_Injection, MessagesAssumption
<1>. QED
  BY <1>1, <1>4, IdsAreNumbers DEF Ids

\* The sequences of the log are the functions of its type.
LEMMA LogTyped ==
    ASSUME Distinct
    PROVE  source \in UNION {[1..n -> Msgs] : n \in Ids}
<1>1. Len(source) \in Ids
  BY LogFits DEF Distinct
<1>2. source \in [1..Len(source) -> Msgs]
  BY DEF Distinct
<1>. QED
  BY <1>1, <1>2

\* A message that is new to the log goes to its end.
LEMMA LogGrows ==
    ASSUME Distinct, NEW m \in Msgs, m \notin Sent, source' = Append(source, m)
    PROVE  /\ Distinct'
           /\ Len(source') = Len(source) + 1 /\ Len(source) \in Nat
           /\ \A i \in 1..Len(source) : source'[i] = source[i]
           /\ source'[Len(source) + 1] = m
<1>1. source \in Seq(Msgs) /\ DOMAIN source = 1..Len(source) /\ Len(source) \in Nat
  BY DEF Distinct
<1>2. /\ source' \in Seq(Msgs) /\ Len(source') = Len(source) + 1
      /\ \A i \in 1..Len(source) : source'[i] = source[i]
      /\ source'[Len(source) + 1] = m
  BY <1>1
<1>3. \A i \in 1..Len(source) : source[i] # m
  BY <1>1 DEF Sent
<1>4. ASSUME NEW i \in 1..Len(source'), NEW j \in 1..Len(source'), source'[i] = source'[j] PROVE i = j
  BY <1>1, <1>2, <1>3, <1>4 DEF Distinct
<1>. QED
  BY <1>1, <1>2, <1>4 DEF Distinct

\* The rest of a sequence behind its first n elements.
LEMMA SubSeqOfLog ==
    ASSUME NEW s \in Seq(Msgs), NEW n \in 1..Len(s)
    PROVE  /\ SubSeq(s, n + 1, Len(s)) \in Seq(Msgs)
           /\ Len(SubSeq(s, n + 1, Len(s))) = Len(s) - n
           /\ \A i \in 1..Len(s) - n : SubSeq(s, n + 1, Len(s))[i] = s[i + n]
  OBVIOUS

\* A renumbering drops rows at the front and keeps the order of the others.
LEMMA LogShrinks ==
    ASSUME Distinct, NEW n \in 1..MaxId, source' = SubSeq(source, n + 1, MaxId)
    PROVE  /\ Distinct'
           /\ Len(source') = Len(source) - n
           /\ \A i \in 1..Len(source') : source'[i] = source[i + n]
<1>1. source \in Seq(Msgs) /\ Len(source) \in Nat /\ MaxId = Len(source) /\ n \in 1..Len(source)
  BY DEF Distinct, MaxId
<1>2. /\ source' \in Seq(Msgs) /\ Len(source') = Len(source) - n
      /\ \A i \in 1..Len(source') : source'[i] = source[i + n]
  BY <1>1, SubSeqOfLog
<1>3. ASSUME NEW i \in 1..Len(source'), NEW j \in 1..Len(source'), source'[i] = source'[j] PROVE i = j
  <2>1. i + n \in 1..Len(source) /\ j + n \in 1..Len(source)
    BY <1>1, <1>2
  <2>2. source[i + n] = source[j + n]
    BY <1>2, <1>3
  <2>. QED
    BY <1>1, <2>1, <2>2 DEF Distinct
<1>. QED
  BY <1>2, <1>3 DEF Distinct

-----------------------------------------------------------------------------
(* The reader *)

LEMMA MarkTyped == ASSUME Fields PROVE Mark \in Ids
  BY IdsAreNumbers, FileAssumption DEF Fields, Mark

LEMMA ReaderNumbers ==
    ASSUME ReaderInv
    PROVE  /\ daemon.cursor \in Nat /\ daemon.upto \in Nat /\ daemon.left \in Nat
           /\ Mark \in Nat /\ Len(source) \in Nat /\ MaxId = Len(source)
<1>1. daemon \in [pc : Places, cursor : Ids, upto : Ids, left : Ids] /\ source \in Seq(Msgs)
  BY DEF ReaderInv, Fields, Distinct
<1>2. daemon.cursor \in Ids /\ daemon.upto \in Ids /\ daemon.left \in Ids
  BY <1>1
<1>3. Mark \in Ids
  BY MarkTyped DEF ReaderInv
<1>4. Ids \subseteq Nat
  BY IdsAreNumbers
<1>5. Len(source) \in Nat /\ MaxId = Len(source)
  BY <1>1 DEF MaxId
<1>. QED
  BY <1>2, <1>3, <1>4, <1>5

\* What is being dispatched is the row behind those the batch is done with.
LEMMA CurrentIsNext ==
    ASSUME ReaderInv, Dispatching
    PROVE  /\ daemon.upto \in Nat /\ daemon.cursor \in Nat /\ daemon.left \in Nat /\ Len(source) \in Nat
           /\ daemon.upto + 1 \in 1..Len(source)
           /\ Current \in Msgs
           /\ daemon.upto + 1 \in Ids /\ daemon.left - 1 \in Ids
<1>1. /\ daemon.upto \in Nat /\ daemon.cursor \in Nat /\ daemon.left \in Nat
      /\ daemon.left \in Ids
  BY IdsAreNumbers DEF ReaderInv, Fields
<1>2. Len(source) \in Nat /\ Len(source) \in Ids
  BY LogFits DEF ReaderInv, Distinct
<1>3. daemon.pc = "dispatch" /\ daemon.left > 0 /\ daemon.upto + daemon.left <= Len(source)
  BY DEF ReaderInv, BatchIsDealt, Dispatching
<1>4. daemon.upto + 1 \in 1..Len(source)
  BY <1>1, <1>2, <1>3
<1>5. Current \in Msgs
  BY <1>4 DEF Current, ReaderInv, Distinct
<1>6. daemon.upto + 1 \in Ids /\ daemon.left - 1 \in Ids
  BY <1>1, <1>2, <1>3, <1>4, IdsAreNumbers DEF Ids
<1>. QED
  BY <1>1, <1>2, <1>4, <1>5, <1>6

\* What dispatches have in common: they move on over a message that is dealt
\* with, or stop the batch where it is, and only add to the store.
LEMMA DispatchInv ==
    ASSUME ReaderInv, Dispatching, UNCHANGED <<source, file, history>>,
           gates' \in [passed : 0..RateMax, recent : SUBSET Msgs],
           store' \in [written : SUBSET Msgs, logged : SUBSET Msgs, closed : SUBSET Msgs],
           store.written \subseteq store'.written, store.closed \subseteq store'.closed,
           store'.logged \subseteq store'.written,
           (MoveOn /\ Current \in Dealt') \/ HoldHere
    PROVE  ReaderInv'
<1>1. /\ daemon.upto \in Nat /\ daemon.cursor \in Nat /\ daemon.left \in Nat /\ Len(source) \in Nat
      /\ daemon.upto + 1 \in 1..Len(source)
      /\ daemon.upto + 1 \in Ids /\ daemon.left - 1 \in Ids
  BY CurrentIsNext
<1>2. daemon \in [pc : Places, cursor : Ids, upto : Ids, left : Ids] /\ 0 \in Ids
  BY IdsAreNumbers DEF ReaderInv, Fields
<1>3. /\ daemon' \in [pc : Places, cursor : Ids, upto : Ids, left : Ids]
      /\ daemon'.pc = "dispatch" /\ daemon'.cursor = daemon.cursor
      /\ \/ daemon'.upto = daemon.upto + 1 /\ daemon'.left = daemon.left - 1 /\ Current \in Dealt'
         \/ daemon'.upto = daemon.upto /\ daemon'.left = 0
  BY <1>1, <1>2 DEF MoveOn, HoldHere, Dispatching
<1>4. Distinct' /\ Fields'
  BY <1>3 DEF ReaderInv, Distinct, Fields
<1>5. Mark' = Mark /\ daemon.pc = "dispatch"
  BY <1>3 DEF Mark, Dispatching
<1>6. AtTheMark'
  BY <1>3, <1>5 DEF ReaderInv, AtTheMark
<1>7. Dealt \subseteq Dealt'
  BY DEF Dealt
<1>8. \A i \in daemon'.cursor + 1..daemon'.upto : source[i] \in Dealt'
  BY <1>1, <1>3, <1>5, <1>7 DEF ReaderInv, BatchIsDealt, Current
<1>9. daemon'.cursor <= daemon'.upto /\ daemon'.upto + daemon'.left <= Len(source)
  BY <1>1, <1>3, <1>5 DEF ReaderInv, BatchIsDealt
<1>10. BatchIsDealt'
  BY <1>3, <1>8, <1>9 DEF BatchIsDealt
<1>. QED
  BY <1>4, <1>6, <1>10 DEF ReaderInv

\* What every dispatch does: it only adds to the store, and it moves on over
\* a message that is dealt with or stops the batch where it is.
LEMMA DispatchAdds ==
    ASSUME ReaderInv, Dispatch
    PROVE  /\ Dispatching /\ UNCHANGED <<source, file, history>>
           /\ gates' \in [passed : 0..RateMax, recent : SUBSET Msgs]
           /\ store' \in [written : SUBSET Msgs, logged : SUBSET Msgs, closed : SUBSET Msgs]
           /\ store.written \subseteq store'.written /\ store.closed \subseteq store'.closed
           /\ store'.written \cup store'.closed \subseteq store.written \cup store.closed \cup {Current}
           /\ store'.logged \subseteq store'.written
           /\ (MoveOn /\ Current \in Dealt') \/ HoldHere
<1>1. Dispatching /\ UNCHANGED <<source, file, history>>
  BY DEF Dispatch, SkipBlank, RateLimited, Deduped, Duplicate, Delivered, Closed, Transient, Fresh, Reached
<1>2. Current \in Msgs
  BY <1>1, CurrentIsNext
<1>3. /\ gates \in [passed : 0..RateMax, recent : SUBSET Msgs]
      /\ store \in [written : SUBSET Msgs, logged : SUBSET Msgs, closed : SUBSET Msgs]
      /\ store.logged \subseteq store.written
      /\ RateMax \in Nat
  BY BoundsAssumption DEF ReaderInv, Fields, BatchIsDealt
<1>4. /\ gates' \in [passed : 0..RateMax, recent : SUBSET Msgs]
      /\ store' \in [written : SUBSET Msgs, logged : SUBSET Msgs, closed : SUBSET Msgs]
      /\ store.written \subseteq store'.written /\ store.closed \subseteq store'.closed
      /\ store'.written \cup store'.closed \subseteq store.written \cup store.closed \cup {Current}
      /\ store'.logged \subseteq store'.written
      /\ (MoveOn /\ Current \in Dealt') \/ HoldHere
  <2>1. CASE SkipBlank
    BY <1>3, <2>1 DEF SkipBlank, Dealt
  <2>2. CASE RateLimited
    BY <1>3, <2>2 DEF RateLimited
  <2>3. CASE Deduped
    BY <1>3, <2>3 DEF Deduped
  <2>4. CASE Duplicate
    BY <1>2, <1>3, <2>4 DEF Duplicate, Reached, Dealt
  <2>5. CASE Delivered
    <3>1. PICK kept \in {{}, {Current}} :
              store' = [store EXCEPT !.written = @ \cup {Current}, !.logged = @ \cup kept]
      BY <2>5 DEF Delivered
    <3>2. /\ store'.written = store.written \cup {Current} /\ store'.closed = store.closed
          /\ store'.logged = store.logged \cup kept
          /\ store' \in [written : SUBSET Msgs, logged : SUBSET Msgs, closed : SUBSET Msgs]
      BY <1>2, <1>3, <3>1
    <3>3. gates' \in [passed : 0..RateMax, recent : SUBSET Msgs] /\ MoveOn
      BY <1>2, <1>3, <2>5 DEF Delivered, Fresh, Reached
    <3>. QED
      BY <1>3, <3>2, <3>3 DEF Dealt
  <2>6. CASE Closed
    BY <1>2, <1>3, <2>6 DEF Closed, Fresh, Reached, Dealt
  <2>7. CASE Transient
    BY <1>2, <1>3, <2>7 DEF Transient, Fresh, Reached
  <2>. QED
    BY <2>1, <2>2, <2>3, <2>4, <2>5, <2>6, <2>7 DEF Dispatch
<1>. QED
  BY <1>1, <1>4

LEMMA DispatchKeepsInv == ASSUME ReaderInv, Dispatch PROVE ReaderInv'
  BY DispatchAdds, DispatchInv

LEMMA ArriveKeepsInv == ASSUME ReaderInv, NEW m \in Msgs, Arrive(m) PROVE ReaderInv'
<1>1. m \notin Sent /\ source' = Append(source, m) /\ UNCHANGED <<file, daemon, gates, store>>
  BY DEF Arrive
<1>2. /\ Distinct'
      /\ Len(source') = Len(source) + 1 /\ Len(source) \in Nat
      /\ \A i \in 1..Len(source) : source'[i] = source[i]
  BY <1>1, LogGrows DEF ReaderInv
<1>3. history' \in [crashes : 0..MaxCrashes, merges : 0..MaxMerges, unread : SUBSET Msgs]
  BY DEF Arrive, ReaderInv, Fields
<1>4. Mark' = Mark /\ Dealt' = Dealt
  BY <1>1 DEF Mark, Dealt
<1>5. Mark \in Nat /\ daemon.cursor \in Nat /\ daemon.upto \in Nat /\ daemon.left \in Nat
  BY MarkTyped, IdsAreNumbers DEF ReaderInv, Fields
<1>6. BatchIsDealt'
  <2>1. ASSUME daemon.pc = "dispatch", NEW i \in daemon.cursor + 1..daemon.upto
        PROVE  source'[i] \in Dealt /\ i \in 1..Len(source)
    BY <1>2, <1>5, <2>1 DEF ReaderInv, BatchIsDealt
  <2>2. ASSUME daemon.pc = "save", daemon.cursor # 0, NEW i \in Mark + 1..daemon.cursor
        PROVE  source'[i] \in Dealt /\ i \in 1..Len(source)
    BY <1>2, <1>5, <2>2 DEF ReaderInv, BatchIsDealt
  <2>. QED
    BY <1>1, <1>2, <1>4, <1>5, <2>1, <2>2 DEF ReaderInv, BatchIsDealt
<1>. QED
  BY <1>1, <1>2, <1>3, <1>4, <1>6 DEF ReaderInv, Fields, AtTheMark

LEMMA MergeKeepsInv == ASSUME ReaderInv, NEW n \in 1..MaxId, Merge(n) PROVE ReaderInv'
<1>1. /\ source' = SubSeq(source, n + 1, MaxId) /\ UNCHANGED <<file, daemon, gates, store>>
      /\ daemon.pc \in {"down", "poll"} /\ history.merges < MaxMerges
  BY DEF Merge
<1>2. Distinct'
  BY <1>1, LogShrinks DEF ReaderInv
<1>3. \A i \in n + 1..MaxId : source[i] \in Msgs
  BY DEF MaxId, ReaderInv, Distinct
<1>4. PICK lost \in SUBSET Msgs : history' = [history EXCEPT !.merges = @ + 1, !.unread = @ \cup lost]
  BY <1>3 DEF Merge
<1>5. history' \in [crashes : 0..MaxCrashes, merges : 0..MaxMerges, unread : SUBSET Msgs]
  <2>1. /\ history \in [crashes : 0..MaxCrashes, merges : 0..MaxMerges, unread : SUBSET Msgs]
        /\ history.merges + 1 \in 0..MaxMerges
        /\ history.unread \cup lost \in SUBSET Msgs
    BY <1>1, BoundsAssumption DEF ReaderInv, Fields
  <2>. QED
    BY <1>4, <2>1
<1>6. Mark' = Mark
  BY <1>1 DEF Mark
<1>. QED
  BY <1>1, <1>2, <1>5, <1>6 DEF ReaderInv, Fields, AtTheMark, BatchIsDealt

\* The cursor is set for a save: to the newest row, over history, or to zero.
LEMMA PollSavesInv ==
    ASSUME ReaderInv, TakeBaseline \/ Rewind
    PROVE  ReaderInv'
<1>1. Len(source) \in Ids /\ 0 \in Ids /\ MaxId = Len(source) /\ Ids \subseteq Nat
  BY LogFits, IdsAreNumbers DEF ReaderInv, Distinct, MaxId
<1>2. daemon.pc = "poll" /\ UNCHANGED <<source, file, gates, history>>
  BY DEF TakeBaseline, Rewind
<1>3. CASE TakeBaseline
  <2>1. file = NoFile /\ Mark = 0 /\ Mark' = 0
    BY <1>2, <1>3, FileAssumption DEF TakeBaseline, Mark
  <2>2. /\ daemon' \in [pc : Places, cursor : Ids, upto : Ids, left : Ids]
        /\ daemon'.pc = "save" /\ daemon'.cursor = Len(source)
    BY <1>1, <1>2, <1>3 DEF TakeBaseline, SaveAt, ReaderInv, Fields, Places
  <2>3. /\ store' = [store EXCEPT !.closed = @ \cup Sent]
        /\ Sent \subseteq Msgs /\ \A i \in 1..Len(source) : source[i] \in Sent
    BY <1>3 DEF TakeBaseline, Sent, ReaderInv, Distinct
  <2>4. /\ store' \in [written : SUBSET Msgs, logged : SUBSET Msgs, closed : SUBSET Msgs]
        /\ store'.logged \subseteq store'.written /\ Sent \subseteq store'.closed
    BY <2>3 DEF ReaderInv, Fields, BatchIsDealt
  <2>5. Distinct' /\ Fields'
    BY <1>2, <2>2, <2>4 DEF ReaderInv, Distinct, Fields
  <2>6. AtTheMark'
    BY <1>2, <2>1, <2>2, FileAssumption DEF ReaderInv, AtTheMark
  <2>7. BatchIsDealt'
    BY <1>1, <1>2, <2>1, <2>2, <2>3, <2>4 DEF BatchIsDealt, Dealt
  <2>. QED
    BY <2>5, <2>6, <2>7 DEF ReaderInv
<1>4. CASE Rewind
  <2>1. /\ daemon' \in [pc : Places, cursor : Ids, upto : Ids, left : Ids]
        /\ daemon'.pc = "save" /\ daemon'.cursor = 0 /\ UNCHANGED store
    BY <1>1, <1>2, <1>4 DEF Rewind, SaveAt, ReaderInv, Fields, Places
  <2>. QED
    BY <1>2, <2>1 DEF ReaderInv, Distinct, Fields, AtTheMark, BatchIsDealt
<1>. QED
  BY <1>3, <1>4

LEMMA StartKeepsInv == ASSUME ReaderInv, Start PROVE ReaderInv'
<1>1. /\ daemon.pc = "down" /\ file # Torn /\ UNCHANGED <<source, file, gates, store, history>>
      /\ daemon' = [daemon EXCEPT !.pc = "poll", !.left = 0, !.cursor = IF file = NoFile THEN 0 ELSE file]
  BY DEF Start
<1>2. 0 \in Ids /\ file \in Ids \cup {NoFile}
  BY <1>1, IdsAreNumbers DEF ReaderInv, Fields
<1>3. /\ daemon' \in [pc : Places, cursor : Ids, upto : Ids, left : Ids]
      /\ daemon'.pc = "poll" /\ daemon'.cursor = IF file = NoFile THEN 0 ELSE file
  BY <1>1, <1>2 DEF ReaderInv, Fields, Places
<1>4. Mark' = daemon'.cursor
  BY <1>1, <1>2, <1>3, FileAssumption DEF Mark
<1>. QED
  BY <1>1, <1>3, <1>4 DEF ReaderInv, Distinct, Fields, AtTheMark, BatchIsDealt

LEMMA FetchKeepsInv == ASSUME ReaderInv, Fetch PROVE ReaderInv'
<1>1. /\ daemon.pc = "poll" /\ file # NoFile /\ UNCHANGED <<source, file, gates, store, history>>
      /\ daemon' = [daemon EXCEPT !.pc = "dispatch", !.upto = daemon.cursor, !.left = Batch]
      /\ MaxId >= daemon.cursor /\ Batch > 0
  BY DEF Fetch, WentBackwards, MaxId, ReaderInv, Distinct, Fields, Ids
<1>2. Len(source) \in Ids /\ MaxId = Len(source) /\ Ids \subseteq Nat /\ daemon.cursor \in Ids
  BY LogFits, IdsAreNumbers DEF ReaderInv, Distinct, Fields, MaxId
<1>3. Batch \in Nat /\ daemon.cursor + Batch <= Len(source)
  BY <1>1, <1>2, BoundsAssumption DEF Batch
<1>4. Batch \in Ids
  BY <1>2, <1>3, IdsAreNumbers DEF Ids
<1>5. /\ daemon' \in [pc : Places, cursor : Ids, upto : Ids, left : Ids] /\ daemon'.pc = "dispatch"
      /\ daemon'.cursor = daemon.cursor /\ daemon'.upto = daemon.cursor /\ daemon'.left = Batch
  BY <1>1, <1>2, <1>4 DEF ReaderInv, Fields, Places
<1>6. Mark' = Mark /\ file # Torn
  BY <1>1, <1>5 DEF Mark, ReaderInv, AtTheMark
<1>. QED
  BY <1>1, <1>2, <1>3, <1>5, <1>6 DEF ReaderInv, Distinct, Fields, AtTheMark, BatchIsDealt

LEMMA EndBatchKeepsInv == ASSUME ReaderInv, EndBatch PROVE ReaderInv'
<1>1. daemon.pc = "dispatch" /\ UNCHANGED <<source, file, gates, store, history>> /\ file \in Ids
  BY DEF EndBatch, ReaderInv, Fields, AtTheMark
<1>2. /\ daemon \in [pc : Places, cursor : Ids, upto : Ids, left : Ids]
      /\ daemon.cursor \in Nat /\ daemon.upto \in Nat /\ daemon.left \in Nat /\ Len(source) \in Nat
  BY ReaderNumbers DEF ReaderInv, Fields
<1>3. Mark' = Mark /\ Mark = daemon.cursor
  BY <1>1 DEF Mark, ReaderInv, AtTheMark
<1>4. /\ daemon' \in [pc : Places, cursor : Ids, upto : Ids, left : Ids]
      /\ \/ daemon'.pc = "poll" /\ daemon'.cursor = daemon.cursor
         \/ daemon'.pc = "save" /\ daemon'.cursor = daemon.upto
  <2>1. CASE daemon.upto = daemon.cursor
    BY <1>2, <2>1 DEF EndBatch, Places
  <2>2. CASE daemon.upto # daemon.cursor
    BY <1>2, <2>2 DEF EndBatch, Places
  <2>. QED
    BY <2>1, <2>2
<1>5. /\ daemon.cursor <= daemon.upto /\ daemon.upto <= Len(source)
      /\ \A i \in daemon.cursor + 1..daemon.upto : source[i] \in Dealt
  BY <1>1, <1>2 DEF ReaderInv, BatchIsDealt
<1>6. Dealt' = Dealt /\ file # Torn
  BY <1>1, FileAssumption DEF Dealt
<1>7. Distinct' /\ Fields' /\ AtTheMark'
  BY <1>1, <1>3, <1>4, <1>6, FileAssumption DEF ReaderInv, Distinct, Fields, AtTheMark
<1>8. BatchIsDealt'
  BY <1>1, <1>2, <1>3, <1>4, <1>5, <1>6 DEF ReaderInv, BatchIsDealt
<1>. QED
  BY <1>7, <1>8 DEF ReaderInv

LEMMA SaveKeepsInv == ASSUME ReaderInv, BeginSave \/ EndSave PROVE ReaderInv'
<1>1. UNCHANGED <<source, gates, store>>
  BY DEF BeginSave, EndSave
<1>2. CASE BeginSave
  <2>1. /\ daemon' \in [pc : Places, cursor : Ids, upto : Ids, left : Ids]
        /\ daemon'.pc = "saving" /\ file' = Torn
        /\ history' \in [crashes : 0..MaxCrashes, merges : 0..MaxMerges, unread : SUBSET Msgs]
    BY <1>2 DEF BeginSave, ReaderInv, Fields, Places
  <2>. QED
    BY <1>1, <2>1, FileAssumption DEF ReaderInv, Distinct, Fields, AtTheMark, BatchIsDealt
<1>3. CASE EndSave
  <2>1. /\ daemon' \in [pc : Places, cursor : Ids, upto : Ids, left : Ids]
        /\ daemon'.pc = "poll" /\ file' = daemon.cursor /\ file' \in Ids /\ daemon'.cursor = daemon.cursor
        /\ UNCHANGED history
    BY <1>3 DEF EndSave, ReaderInv, Fields, Places
  <2>2. Mark' = daemon'.cursor /\ file' # Torn
    BY <2>1, FileAssumption DEF Mark
  <2>. QED
    BY <1>1, <2>1, <2>2 DEF ReaderInv, Distinct, Fields, AtTheMark, BatchIsDealt
<1>. QED
  BY <1>2, <1>3

LEMMA CrashKeepsInv == ASSUME ReaderInv, Crash PROVE ReaderInv'
<1>1. /\ daemon' = [pc |-> "down", cursor |-> Mark, upto |-> 0, left |-> 0]
      /\ gates' = EmptyGates /\ UNCHANGED <<source, file>>
      /\ history.crashes < MaxCrashes /\ history' = [history EXCEPT !.crashes = @ + 1]
  BY DEF Crash
<1>2. Mark \in Ids /\ 0 \in Ids
  BY MarkTyped, IdsAreNumbers DEF ReaderInv
<1>3. /\ store' \in [written : SUBSET Msgs, logged : SUBSET Msgs, closed : SUBSET Msgs]
      /\ store'.logged \subseteq store'.written
  BY CurrentIsNext DEF Crash, ReaderInv, Fields, BatchIsDealt
<1>4. daemon' \in [pc : Places, cursor : Ids, upto : Ids, left : Ids] /\ daemon'.pc = "down"
  BY <1>1, <1>2 DEF Places
<1>5. gates' \in [passed : 0..RateMax, recent : SUBSET Msgs]
  BY <1>1, BoundsAssumption DEF EmptyGates
<1>6. history' \in [crashes : 0..MaxCrashes, merges : 0..MaxMerges, unread : SUBSET Msgs]
  BY <1>1, BoundsAssumption DEF ReaderInv, Fields
<1>. QED
  BY <1>1, <1>3, <1>4, <1>5, <1>6 DEF ReaderInv, Distinct, Fields, AtTheMark, BatchIsDealt

LEMMA GatesForgetInv == ASSUME ReaderInv, MinutePasses \/ DedupExpires PROVE ReaderInv'
<1>1. UNCHANGED <<source, file, daemon, store, history>>
  BY DEF MinutePasses, DedupExpires
<1>2. gates' \in [passed : 0..RateMax, recent : SUBSET Msgs]
  BY BoundsAssumption DEF MinutePasses, DedupExpires, ReaderInv, Fields
<1>3. Mark' = Mark /\ Dealt' = Dealt
  BY <1>1 DEF Mark, Dealt
<1>. QED
  BY <1>1, <1>2, <1>3 DEF ReaderInv, Distinct, Fields, AtTheMark, BatchIsDealt

LEMMA ReaderInit == Init => ReaderInv
<1> SUFFICES ASSUME Init PROVE ReaderInv
  OBVIOUS
<1>1. source \in Seq(Msgs) /\ Len(source) \in 0..1
  <2>1. PICK n \in 0..1 : source \in [1..n -> Msgs]
    BY DEF Init
  <2>. QED
    BY <2>1
<1>2. Distinct
  BY <1>1 DEF Distinct
<1>3. Fields
  BY IdsAreNumbers, BoundsAssumption DEF Init, Fields, Places, EmptyGates
<1>4. AtTheMark /\ BatchIsDealt
  BY FileAssumption DEF Init, AtTheMark, BatchIsDealt
<1>. QED
  BY <1>2, <1>3, <1>4 DEF ReaderInv

LEMMA ReaderStep == ReaderInv /\ [Next]_vars => ReaderInv'
<1> SUFFICES ASSUME ReaderInv, [Next]_vars PROVE ReaderInv'
  OBVIOUS
<1>1. CASE \E m \in Msgs : Arrive(m)
  BY <1>1, ArriveKeepsInv
<1>2. CASE \E n \in 1..MaxId : Merge(n)
  BY <1>2, MergeKeepsInv
<1>3. CASE Tick
  BY <1>3, StartKeepsInv, PollSavesInv, FetchKeepsInv, EndBatchKeepsInv, SaveKeepsInv DEF Tick
<1>4. CASE Dispatch
  BY <1>4, DispatchKeepsInv
<1>5. CASE MinutePasses \/ DedupExpires
  BY <1>5, GatesForgetInv
<1>6. CASE Crash
  BY <1>6, CrashKeepsInv
<1>7. CASE UNCHANGED vars
  BY <1>7 DEF vars, ReaderInv, Distinct, Fields, AtTheMark, BatchIsDealt, Mark, Dealt
<1>. QED
  BY <1>1, <1>2, <1>3, <1>4, <1>5, <1>6, <1>7 DEF Next

\* The inductive core: the log repeats nothing, the fields keep their types,
\* a reader at work stands at the mark, and what a batch or an unsaved cursor
\* has moved over has been dealt with (run_daemon).
THEOREM ReaderInvariant == Spec => []ReaderInv
  BY ReaderInit, ReaderStep, PTL DEF Spec

\* The types the run daemon checks, for any messages and bounds.
THEOREM TypeCorrect == Spec => []TypeOK
<1>1. ReaderInv => TypeOK
  BY LogTyped DEF ReaderInv, Fields, TypeOK, Places
<1>. QED
  BY <1>1, ReaderInvariant, PTL

-----------------------------------------------------------------------------
(* The refinement: Delivery, with the source as its log *)

HandledOrLost == Dealt \cup history.unread

LEMMA StartsAtTheMark == Init => Promise!Init
<1> SUFFICES ASSUME Init PROVE Promise!Init
  OBVIOUS
<1>1. ReaderInv
  BY ReaderInit
<1>2. source \in Seq(Msgs)
  BY <1>1 DEF ReaderInv, Distinct
<1>3. Dealt \cup history.unread \in SUBSET Msgs
  BY MessagesAssumption DEF Init, Dealt
<1>4. Mark = 0
  BY FileAssumption DEF Init, Mark
<1>. QED
  BY <1>2, <1>3, <1>4 DEF Promise!Init

\* The reader's own bookkeeping is not visible at the mark.
LEMMA Bookkeeping ==
    ASSUME ReaderInv, Start \/ Rewind \/ Fetch \/ EndBatch \/ EndSave \/ MinutePasses \/ DedupExpires
    PROVE  source' = source /\ HandledOrLost' = HandledOrLost /\ Mark' = Mark
<1>1. UNCHANGED <<source, store, history>>
  BY DEF Start, Rewind, Fetch, EndBatch, EndSave, MinutePasses, DedupExpires, SaveAt
<1>2. HandledOrLost' = HandledOrLost
  BY <1>1 DEF HandledOrLost, Dealt
<1>3. CASE Start \/ Rewind \/ Fetch \/ EndBatch
  <2>1. file' = file /\ file # Torn
    BY <1>3 DEF Start, Rewind, Fetch, EndBatch, ReaderInv, AtTheMark
  <2>. QED
    BY <1>1, <1>2, <2>1, FileAssumption DEF Mark, ReaderInv, Fields
<1>4. CASE EndSave
  <2>1. file = Torn /\ file' = daemon.cursor /\ daemon.cursor \in Ids
    BY <1>4 DEF EndSave, ReaderInv, AtTheMark, Fields
  <2>. QED
    BY <1>1, <1>2, <2>1, FileAssumption DEF Mark
<1>5. CASE MinutePasses \/ DedupExpires
  BY <1>1, <1>2, <1>5 DEF MinutePasses, DedupExpires, Mark
<1>. QED
  BY <1>3, <1>4, <1>5, <1>1, <1>2

\* Dispatches, the baseline and a crash inside a handler only deal with more.
LEMMA Dealing ==
    ASSUME ReaderInv, Dispatch \/ TakeBaseline \/ Crash
    PROVE  /\ source' = source /\ Mark' = Mark
           /\ \E S \in SUBSET Msgs : HandledOrLost' = HandledOrLost \cup S
<1>1. /\ UNCHANGED <<source, file>> /\ history'.unread = history.unread
      /\ store.written \subseteq store'.written /\ store.closed \subseteq store'.closed
  <2>1. CASE Dispatch
    BY <2>1, DispatchAdds
  <2>2. CASE TakeBaseline
    BY <2>2 DEF TakeBaseline, ReaderInv, Fields
  <2>3. CASE Crash
    BY <2>3 DEF Crash, ReaderInv, Fields
  <2>. QED
    BY <2>1, <2>2, <2>3
<1>2. ReaderInv'
  BY DispatchKeepsInv, PollSavesInv, CrashKeepsInv
<1>3. Dealt' \in SUBSET Msgs /\ Dealt \subseteq Dealt'
  BY <1>1, <1>2, MessagesAssumption DEF Dealt, ReaderInv, Fields
<1>4. HandledOrLost' = HandledOrLost \cup Dealt'
  BY <1>1, <1>3 DEF HandledOrLost
<1>5. Mark' = Mark
  <2>1. CASE file = Torn
    <3>1. Crash
      BY <2>1 DEF Dispatch, SkipBlank, RateLimited, Deduped, Duplicate, Delivered, Closed, Transient,
                  Fresh, Reached, Dispatching, TakeBaseline, ReaderInv, AtTheMark
    <3>. QED
      BY <1>1, <2>1, <3>1, FileAssumption DEF Crash, Mark
  <2>2. CASE file # Torn
    BY <1>1, <2>2, FileAssumption DEF Mark, ReaderInv, Fields
  <2>. QED
    BY <2>1, <2>2
<1>. QED
  BY <1>1, <1>3, <1>4, <1>5

\* The save is where the mark moves: to zero, or over rows that are dealt with.
LEMMA Saving ==
    ASSUME ReaderInv, BeginSave
    PROVE  /\ source' = source
           /\ \/ Mark' = 0 /\ HandledOrLost' \in SUBSET HandledOrLost
              \/ Mark' = Mark /\ HandledOrLost' = HandledOrLost
              \/ /\ Mark' \in Mark + 1..Len(source)
                 /\ \A i \in Mark + 1..Mark' : source[i] \in HandledOrLost
                 /\ HandledOrLost' = HandledOrLost
<1>1. UNCHANGED <<source, store>> /\ daemon.pc = "save" /\ Mark' = daemon.cursor
  BY FileAssumption DEF BeginSave, Mark, ReaderInv, Fields
<1>2. CASE daemon.cursor = 0
  BY <1>1, <1>2 DEF BeginSave, HandledOrLost, Dealt, ReaderInv, Fields
<1>3. CASE daemon.cursor # 0
  <2>1. /\ Mark <= daemon.cursor /\ daemon.cursor <= Len(source)
        /\ \A i \in Mark + 1..daemon.cursor : source[i] \in Dealt
    BY <1>1, <1>3 DEF ReaderInv, BatchIsDealt
  <2>2. HandledOrLost' = HandledOrLost
    BY <1>1, <1>3 DEF BeginSave, HandledOrLost, Dealt
  <2>. QED
    BY <1>1, <2>1, <2>2, ReaderNumbers DEF HandledOrLost
<1>. QED
  BY <1>2, <1>3

\* Every step of the daemon is a step of the promise, or none of its business.
LEMMA PromiseStep == ReaderInv /\ [Next]_vars => [Promise!Next]_(Promise!vars)
<1> SUFFICES ASSUME ReaderInv, [Next]_vars PROVE [Promise!Next]_(Promise!vars)
  OBVIOUS
<1>1. ASSUME NEW m \in Msgs, Arrive(m) PROVE Promise!Arrive(m)
  <2>1. Mark' = Mark /\ Dealt' = Dealt /\ source' = Append(source, m)
    BY <1>1 DEF Arrive, Mark, Dealt
  <2>2. Dealt' \cup history'.unread
          = IF Len(source) < Mark THEN (Dealt \cup history.unread) \cup {m} ELSE Dealt \cup history.unread
    BY <1>1, <2>1 DEF Arrive, MaxId, ReaderInv, Fields
  <2>. QED
    BY <2>1, <2>2 DEF Promise!Arrive
<1>2. ASSUME NEW n \in 1..MaxId, Merge(n) PROVE Promise!Replaced(n) /\ n \in 1..Len(source)
  <2>1. Mark' = Mark /\ Dealt' = Dealt /\ source' = SubSeq(source, n + 1, Len(source)) /\ MaxId = Len(source)
    BY <1>2 DEF Merge, Mark, Dealt, MaxId
  <2> DEFINE Passed == {source[i] : i \in {j \in n + 1..Len(source) : j - n <= Mark}}
  <2>2. history' = [history EXCEPT !.merges = @ + 1, !.unread = @ \cup (Passed \ Dealt)]
    BY <1>2, <2>1 DEF Merge
  <2> HIDE DEF Passed
  <2>3. Dealt' \cup history'.unread = (Dealt \cup history.unread) \cup Passed
    BY <2>1, <2>2 DEF ReaderInv, Fields
  <2>. QED
    BY <2>1, <2>3 DEF Promise!Replaced, Passed
<1>3. ASSUME NEW S \in SUBSET Msgs, source' = source, Mark' = Mark, HandledOrLost' = HandledOrLost \cup S
      PROVE  Promise!Deal(S)
  BY <1>3 DEF HandledOrLost, Promise!Deal
<1>4. ASSUME BeginSave
      PROVE  Promise!Rewind \/ UNCHANGED Promise!vars \/ \E n \in 1..Len(source) : Promise!Advance(n)
  BY <1>4, Saving, ReaderNumbers DEF HandledOrLost, Promise!Rewind, Promise!vars, Promise!Advance
<1>5. ASSUME source' = source, HandledOrLost' = HandledOrLost, Mark' = Mark
      PROVE  UNCHANGED Promise!vars
  BY <1>5 DEF HandledOrLost, Promise!vars
<1>6. CASE \E m \in Msgs : Arrive(m)
  BY <1>1, <1>6 DEF Promise!Next
<1>7. CASE \E n \in 1..MaxId : Merge(n)
  BY <1>2, <1>7 DEF Promise!Next
<1>8. CASE Start \/ Rewind \/ Fetch \/ EndBatch \/ EndSave \/ MinutePasses \/ DedupExpires
  BY <1>5, <1>8, Bookkeeping
<1>9. CASE Dispatch \/ TakeBaseline \/ Crash
  BY <1>3, <1>9, Dealing DEF Promise!Next
<1>10. CASE BeginSave
  BY <1>4, <1>10 DEF Promise!Next
<1>11. CASE UNCHANGED vars
  BY <1>5, <1>11 DEF vars, HandledOrLost, Dealt, Mark
<1>. QED
  BY <1>6, <1>7, <1>8, <1>9, <1>10, <1>11 DEF Next, Tick

\* The daemon is an at-least-once reader, whatever the gates decline, the
\* handlers fail at and the crashes interrupt (run_daemon, handled_upto).
THEOREM ImplementsDelivery == Spec => ImplementsPromise
<1>1. Init => Promise!Init
  BY StartsAtTheMark
<1>2. ReaderInv /\ [Next]_vars => [Promise!Next]_(Promise!vars)
  BY PromiseStep
<1>. QED
  BY <1>1, <1>2, ReaderInvariant, PTL DEF Spec, ImplementsPromise, Promise!Spec

LEMMA NothingSlipsBack ==
    ReaderInv /\ Promise!NothingLeftBehind /\ [Promise!Next]_(Promise!vars) => Promise!NothingLeftBehind'
<1> SUFFICES ASSUME ReaderInv, Promise!NothingLeftBehind, [Promise!Next]_(Promise!vars)
             PROVE  Promise!NothingLeftBehind'
  OBVIOUS
<1>1. source \in Seq(Msgs) /\ Len(source) \in Nat /\ Mark \in Nat
  BY ReaderNumbers DEF ReaderInv, Distinct
<1>2. \A i \in 1..Len(source) : i <= Mark => source[i] \in HandledOrLost
  BY DEF Promise!NothingLeftBehind, HandledOrLost
<1>3. SUFFICES \A i \in 1..Len(source') : i <= Mark' => source'[i] \in HandledOrLost'
  BY DEF Promise!NothingLeftBehind, HandledOrLost
<1>4. CASE \E m \in Msgs : Promise!Arrive(m)
  <2>1. PICK m \in Msgs : Promise!Arrive(m)
    BY <1>4
  <2>2. /\ source' = Append(source, m) /\ Mark' = Mark
        /\ HandledOrLost' = IF Len(source) < Mark THEN HandledOrLost \cup {m} ELSE HandledOrLost
    BY <2>1 DEF Promise!Arrive, HandledOrLost
  <2>3. /\ Len(source') = Len(source) + 1
        /\ \A i \in 1..Len(source') : source'[i] = IF i = Len(source) + 1 THEN m ELSE source[i]
    BY <1>1, <2>2
  <2>. QED
    BY <1>1, <1>2, <2>2, <2>3
<1>5. CASE \E S \in SUBSET Msgs : Promise!Deal(S)
  <2>1. source' = source /\ Mark' = Mark /\ HandledOrLost \subseteq HandledOrLost'
    BY <1>5 DEF Promise!Deal, HandledOrLost
  <2>. QED
    BY <1>2, <2>1
<1>6. CASE \E n \in 1..Len(source) : Promise!Advance(n)
  <2>1. PICK n \in Mark + 1..Len(source) :
           /\ \A i \in Mark + 1..n : source[i] \in HandledOrLost
           /\ Mark' = n /\ source' = source /\ HandledOrLost' = HandledOrLost
    BY <1>6 DEF Promise!Advance, HandledOrLost
  <2>. QED
    BY <1>1, <1>2, <2>1
<1>7. CASE \E n \in 1..Len(source) : Promise!Replaced(n)
  <2>1. PICK n \in 1..Len(source) : Promise!Replaced(n)
    BY <1>7
  <2>2. /\ source' = SubSeq(source, n + 1, Len(source)) /\ Mark' = Mark
        /\ \A j \in n + 1..Len(source) : j - n <= Mark => source[j] \in HandledOrLost'
    BY <2>1 DEF Promise!Replaced, HandledOrLost
  <2>3. Len(source') = Len(source) - n /\ \A i \in 1..Len(source') : source'[i] = source[i + n]
    BY <1>1, <2>2, SubSeqOfLog
  <2>. QED
    BY <1>1, <2>2, <2>3
<1>8. CASE Promise!Rewind
  BY <1>1, <1>8 DEF Promise!Rewind
<1>9. CASE UNCHANGED Promise!vars
  BY <1>2, <1>9 DEF Promise!vars, HandledOrLost
<1>. QED
  BY <1>4, <1>5, <1>6, <1>7, <1>8, <1>9 DEF Promise!Next

\* Nothing that still needs the daemon is behind its mark: what is there was
\* written, refused, skipped as history, or put out of reach by a renumbering.
THEOREM NothingIsLeftBehind == Spec => []Promise!NothingLeftBehind
<1>1. Init => Promise!NothingLeftBehind
  <2>1. Init => Mark = 0
    BY FileAssumption DEF Init, Mark
  <2>. QED
    BY <2>1 DEF Promise!NothingLeftBehind
<1>2. ReaderInv /\ Promise!NothingLeftBehind /\ [Next]_vars => Promise!NothingLeftBehind'
  BY PromiseStep, NothingSlipsBack
<1>. QED
  BY <1>1, <1>2, ReaderInvariant, PTL DEF Spec

-----------------------------------------------------------------------------
(* What a crash can make the daemon do again *)

\* The row is one a handler has seen the end of.
Touched(i) == source[i] \in store.written \cup store.closed

\* As long as nobody renumbers the source, handlers run at most a batch ahead
\* of the file, and what a baseline closed is behind the cursor it saves.
WindowInv == history.merges = 0 =>
    /\ Mark <= Len(source)
    /\ daemon.pc = "dispatch" => daemon.upto + daemon.left <= Mark + BatchLimit
    /\ daemon.pc = "save" => Mark <= daemon.cursor /\ daemon.cursor <= Len(source)
    /\ file # NoFile => \A i \in 1..Len(source) : Touched(i) => i <= Mark + BatchLimit
    /\ file = NoFile /\ daemon.pc = "save" => \A i \in 1..Len(source) : Touched(i) => i <= daemon.cursor

LEMMA WindowInit == Init => WindowInv
<1> SUFFICES ASSUME Init PROVE WindowInv
  OBVIOUS
<1>1. ReaderInv /\ Mark = 0 /\ file = NoFile /\ daemon.pc = "down"
  BY ReaderInit, FileAssumption DEF Init, Mark
<1>. QED
  BY <1>1, ReaderNumbers DEF WindowInv

\* Dispatches, and a crash inside one, touch the row behind those done with.
LEMMA TouchesCurrent ==
    ASSUME ReaderInv, WindowInv, history.merges = 0, Dispatching,
           NEW i \in 1..Len(source), source[i] = Current
    PROVE  i <= Mark + BatchLimit
<1>1. daemon.upto + 1 \in 1..Len(source) /\ i = daemon.upto + 1
  BY CurrentIsNext DEF Current, ReaderInv, Distinct
<1>2. daemon.upto + daemon.left <= Mark + BatchLimit /\ daemon.left > 0
  BY DEF WindowInv, Dispatching
<1>. QED
  BY <1>1, <1>2, ReaderNumbers, BoundsAssumption

LEMMA WindowStep == ReaderInv /\ WindowInv /\ [Next]_vars => WindowInv'
<1> SUFFICES ASSUME ReaderInv, WindowInv, [Next]_vars, history'.merges = 0 PROVE WindowInv'
  BY DEF WindowInv
<1>1. /\ daemon.cursor \in Nat /\ daemon.upto \in Nat /\ daemon.left \in Nat
      /\ Mark \in Nat /\ Len(source) \in Nat /\ MaxId = Len(source) /\ BatchLimit \in Nat
  BY ReaderNumbers, BoundsAssumption
<1>2. ReaderInv'
  BY ReaderStep
<1>3. ASSUME NEW m \in Msgs, Arrive(m) PROVE WindowInv'
  <2>1. /\ source' = Append(source, m) /\ m \notin store.written \cup store.closed
        /\ UNCHANGED <<file, daemon, gates, store>> /\ history.merges = 0 /\ Mark' = Mark
    BY <1>3 DEF Arrive, ReaderInv, Fields, Mark
  <2>2. /\ Len(source') = Len(source) + 1
        /\ \A i \in 1..Len(source') : source'[i] = IF i = Len(source) + 1 THEN m ELSE source[i]
    BY <2>1 DEF ReaderInv, Distinct
  <2>3. \A i \in 1..Len(source') : Touched(i)' => i \in 1..Len(source) /\ Touched(i)
    BY <1>1, <2>1, <2>2 DEF Touched
  <2>. QED
    BY <1>1, <2>1, <2>2, <2>3 DEF WindowInv
<1>4. ASSUME NEW n \in 1..MaxId, Merge(n) PROVE FALSE
  <2>1. PICK lost : history' = [history EXCEPT !.merges = @ + 1, !.unread = lost]
    BY <1>4 DEF Merge
  <2>2. history'.merges = history.merges + 1 /\ history.merges \in Nat
    BY <2>1, BoundsAssumption DEF ReaderInv, Fields
  <2>. QED
    BY <2>2
<1>5. CASE Start
  <2>1. UNCHANGED <<source, file, store, history>> /\ daemon'.pc = "poll" /\ Mark' = Mark
    BY <1>5, Bookkeeping DEF Start, ReaderInv, Fields
  <2>. QED
    BY <2>1 DEF WindowInv, Touched
<1>6. CASE TakeBaseline
  <2>1. /\ UNCHANGED <<source, file, history>> /\ file = NoFile
        /\ daemon'.pc = "save" /\ daemon'.cursor = Len(source) /\ Mark' = Mark
    BY <1>1, <1>6, Dealing DEF TakeBaseline, SaveAt, ReaderInv, Fields
  <2>. QED
    BY <1>1, <2>1 DEF WindowInv
<1>7. CASE Rewind
  <2>1. daemon.pc = "poll" /\ Len(source) < daemon.cursor /\ history.merges = 0
    BY <1>1, <1>7 DEF Rewind, WentBackwards
  <2>2. daemon.cursor = Mark /\ Mark <= Len(source)
    BY <2>1 DEF WindowInv, ReaderInv, AtTheMark
  <2>. QED
    BY <1>1, <2>1, <2>2
<1>8. CASE Fetch
  <2>1. /\ UNCHANGED <<source, file, store, history>> /\ daemon'.pc = "dispatch"
        /\ daemon'.upto = Mark /\ daemon'.left = Batch /\ Mark' = Mark /\ file # NoFile
    BY <1>8, Bookkeeping DEF Fetch, ReaderInv, Fields, AtTheMark
  <2>2. Batch <= BatchLimit /\ Batch \in Int
    BY <1>1 DEF Batch
  <2>. QED
    BY <1>1, <2>1, <2>2 DEF WindowInv, Touched
<1>9. CASE EndBatch
  <2>1. UNCHANGED <<source, file, store, history>> /\ Mark' = Mark /\ daemon.pc = "dispatch"
    BY <1>9, Bookkeeping DEF EndBatch
  <2>2. Mark = daemon.cursor /\ file # NoFile
    BY <2>1 DEF ReaderInv, AtTheMark
  <2>3. Mark <= daemon.upto /\ daemon.upto <= Len(source)
    BY <1>1, <2>1, <2>2 DEF ReaderInv, BatchIsDealt
  <2>4. daemon'.pc = "poll" \/ (daemon'.pc = "save" /\ daemon'.cursor = daemon.upto)
    <3>1. CASE daemon.upto = daemon.cursor
      BY <1>9, <3>1 DEF EndBatch, ReaderInv, Fields
    <3>2. CASE daemon.upto # daemon.cursor
      BY <1>9, <3>2 DEF EndBatch, ReaderInv, Fields
    <3>. QED
      BY <3>1, <3>2
  <2>. QED
    BY <2>1, <2>2, <2>3, <2>4 DEF WindowInv, Touched
<1>10. CASE BeginSave
  <2>1. /\ UNCHANGED <<source, store>> /\ daemon.pc = "save" /\ daemon'.pc = "saving" /\ file' = Torn
        /\ Mark' = daemon.cursor /\ history.merges = 0
    BY <1>10, FileAssumption DEF BeginSave, Mark, ReaderInv, Fields
  <2>2. Mark <= daemon.cursor /\ daemon.cursor <= Len(source)
    BY <2>1 DEF WindowInv
  <2>3. \A i \in 1..Len(source) : Touched(i) => i <= daemon.cursor + BatchLimit
    BY <1>1, <2>1, <2>2 DEF WindowInv
  <2>. QED
    BY <2>1, <2>2, <2>3, FileAssumption DEF WindowInv, Touched
<1>11. CASE EndSave
  <2>1. /\ UNCHANGED <<source, store, history>> /\ daemon'.pc = "poll" /\ file = Torn /\ Mark' = Mark
    BY <1>11, Bookkeeping DEF EndSave, ReaderInv, AtTheMark, Fields
  <2>. QED
    BY <2>1, FileAssumption DEF WindowInv, Touched
<1>12. CASE Dispatch
  <2>1. /\ Dispatching /\ UNCHANGED <<source, file, history>> /\ Mark' = Mark
        /\ store'.written \cup store'.closed \subseteq store.written \cup store.closed \cup {Current}
        /\ MoveOn \/ HoldHere
    BY <1>12, DispatchAdds, Dealing
  <2>2. \A i \in 1..Len(source) : Touched(i)' => Touched(i) \/ source[i] = Current
    BY <2>1 DEF Touched
  <2>3. daemon.pc = "dispatch" /\ daemon.left > 0 /\ file # NoFile
    BY <2>1 DEF Dispatching, ReaderInv, AtTheMark
  <2>4. daemon \in [pc : Places, cursor : Ids, upto : Ids, left : Ids]
    BY DEF ReaderInv, Fields
  <2>5. /\ daemon'.pc = "dispatch"
        /\ \/ daemon'.upto = daemon.upto + 1 /\ daemon'.left = daemon.left - 1
           \/ daemon'.upto = daemon.upto /\ daemon'.left = 0
    BY <2>1, <2>3, <2>4 DEF MoveOn, HoldHere
  <2>6. daemon'.upto + daemon'.left <= daemon.upto + daemon.left
    BY <1>1, <2>3, <2>5
  <2>7. daemon'.upto + daemon'.left <= Mark + BatchLimit
    BY <1>1, <2>1, <2>3, <2>5, <2>6 DEF WindowInv
  <2>. QED
    BY <1>1, <2>1, <2>2, <2>3, <2>5, <2>7, TouchesCurrent DEF WindowInv
<1>13. CASE MinutePasses \/ DedupExpires
  <2>1. UNCHANGED <<source, file, daemon, store, history>> /\ Mark' = Mark
    BY <1>13, Bookkeeping DEF MinutePasses, DedupExpires
  <2>. QED
    BY <2>1 DEF WindowInv, Touched
<1>14. CASE Crash
  <2>1. /\ UNCHANGED <<source, file>> /\ daemon'.pc = "down" /\ Mark' = Mark /\ history.merges = 0
    BY <1>14, Dealing DEF Crash, ReaderInv, Fields
  <2>2. \/ UNCHANGED store
        \/ Dispatching /\ store'.written = store.written \cup {Current} /\ store'.closed = store.closed
    BY <1>14 DEF Crash, ReaderInv, Fields
  <2>3. \A i \in 1..Len(source) : Touched(i)' => Touched(i) \/ (Dispatching /\ source[i] = Current)
    BY <2>1, <2>2 DEF Touched
  <2>. QED
    BY <2>1, <2>3, TouchesCurrent DEF WindowInv
<1>15. CASE UNCHANGED vars
  BY <1>15 DEF vars, WindowInv, Touched, Mark
<1>. QED
  BY <1>3, <1>4, <1>5, <1>6, <1>7, <1>8, <1>9, <1>10, <1>11, <1>12, <1>13, <1>14, <1>15 DEF Next, Tick

\* In the window of a batch there are no more rows than a batch.
LEMMA WindowBounds == ReaderInv /\ WindowInv => OneBatchAgain
<1> SUFFICES ASSUME ReaderInv, WindowInv, history.merges = 0, file # NoFile
             PROVE  Cardinality({i \in Mark + 1..MaxId : Touched(i)}) <= BatchLimit
  BY DEF OneBatchAgain, Touched
<1> DEFINE Ahead == {i \in Mark + 1..MaxId : Touched(i)}
           Window == Mark + 1..Mark + BatchLimit
<1>1. Mark \in Nat /\ BatchLimit \in Nat /\ MaxId = Len(source) /\ Len(source) \in Nat
  BY ReaderNumbers, BoundsAssumption
<1>2. Ahead \subseteq Window
  BY <1>1 DEF WindowInv
<1>3. IsFiniteSet(Window) /\ Cardinality(Window) = BatchLimit
  <2>1. ASSUME NEW a \in Int, NEW b \in Int, b = a + BatchLimit - 1
        PROVE  IsFiniteSet(a..b) /\ Cardinality(a..b) = BatchLimit
    <3>1. IsFiniteSet(a..b) /\ Cardinality(a..b) = IF a > b THEN 0 ELSE b - a + 1
      BY FS_Interval
    <3>. QED
      BY <1>1, <2>1, <3>1
  <2>2. Mark + 1 \in Int /\ Mark + BatchLimit \in Int /\ Mark + BatchLimit = (Mark + 1) + BatchLimit - 1
    BY <1>1
  <2>. QED
    BY <2>1, <2>2, Zenon
<1>. QED
  BY <1>1, <1>2, <1>3, FS_Subset

\* The docstring of autohooks/daemon.py, for any batch: no more rows than one
\* batch ahead of the saved cursor have been through a handler.
THEOREM ACrashRepeatsOneBatch == Spec => []OneBatchAgain
<1>1. Spec => [](ReaderInv /\ WindowInv)
  BY ReaderInit, ReaderStep, WindowInit, WindowStep, PTL DEF Spec
<1>. QED
  BY <1>1, WindowBounds, PTL
=============================================================================
