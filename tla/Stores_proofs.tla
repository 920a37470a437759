---------------------------- MODULE Stores_proofs ----------------------------
(* Proofs about the components of MCStores, for every value of the constants*)
(* they are given: staging, the gap registry, facts and episodes with their *)
(* bin, the migration of layers, the sweep, conflicts, the wiki, the repair *)
(* scripts; at the end the properties of the run.                           *)
EXTENDS MCStores, FiniteSetTheorems, SequenceTheorems, TLAPS

------------------------------------------------------------------------------
(* Staging *)

Proposal(row) ==
    /\ row = [key |-> row.key, payload |-> row.payload, status |-> row.status, age |-> row.age]
    /\ row.age \in Nat /\ row.key \in Keys \cup {None}
    /\ row.status \in {"none", "purged"} => row.key = None

\* A row that says why a key may not be staged.
Denies(row, key, age) == row.key = key /\ row.status \in {"rejected", "expired"} /\ row.age <= age

DecidersOK ==
    /\ s4 = [d \in Deciders |-> s4[d]]
    /\ \A d \in Deciders :
          /\ s4[d] = [pc |-> s4[d].pc, id |-> s4[d].id, key |-> s4[d].key, payload |-> s4[d].payload]
          /\ s4[d].pc \in {"approving", "rejecting", "applied", "reverting", "undone"} => s4[d].id \in Staging!Ids

\* Every denial that is remembered stands in a row, for as long as it is of use.
ProposalsInv ==
    /\ s1 = [i \in Staging!Ids |-> s1[i]] /\ \A i \in Staging!Ids : Proposal(s1[i])
    /\ s5 = [k \in Keys |-> s5[k]] /\ \A k \in Keys : s5[k] \in Nat \cup {None}
    /\ Staging!NoTwinPending
    /\ \A k \in Keys : s5[k] # None /\ s5[k] < ExpireDays => \E i \in Staging!Ids : Denies(s1[i], k, s5[k])

LEMMA StagingInit == Staging!Init => ProposalsInv /\ DecidersOK
  BY StagingAssumption DEF Staging!Init, Staging!Empty, Staging!NobodyDecides, ProposalsInv, DecidersOK, Proposal, Staging!NoTwinPending

LEMMA DecidersStep ==
  ASSUME DecidersOK, [Staging!Next]_(Staging!vars) PROVE DecidersOK'
<1> USE DEF DecidersOK
<1>1. CASE UNCHANGED s4
  BY <1>1
<1>2. ASSUME NEW d \in Deciders, NEW i \in Staging!Ids, NEW pc, Staging!Read(d, i, pc) PROVE DecidersOK'
  BY <1>2 DEF Staging!Read
<1>3. ASSUME NEW d \in Deciders, Staging!Leave(d) PROVE DecidersOK'
  BY <1>3 DEF Staging!Leave, Staging!NobodyDecides
<1>4. ASSUME NEW d \in Deciders, NEW pc, Staging!Move(d, pc),
             s4[d].pc \in {"approving", "rejecting", "applied", "reverting", "undone"} PROVE DecidersOK'
  BY <1>4 DEF Staging!Move
<1>5. ASSUME NEW d \in Deciders, NEW k, Staging!RevertTransition(d, k) PROVE DecidersOK'
  <2> DEFINE half == [Staging!NobodyDecides EXCEPT !.pc = "unpromoting"]
             new == [half EXCEPT !.key = k]
  <2>1. half = [pc |-> "unpromoting", id |-> 1, key |-> None, payload |-> None]
    BY DEF Staging!NobodyDecides
  <2>2. s4' = [s4 EXCEPT ![d] = new]
    BY <1>5 DEF Staging!RevertTransition
  <2> HIDE DEF half
  <2>3. new = [pc |-> "unpromoting", id |-> 1, key |-> k, payload |-> None]
    BY <2>1
  <2> HIDE DEF new
  <2> QED
    BY <2>2, <2>3
<1>6. ASSUME NEW d \in Deciders,
             \/ Staging!Reject(d) \/ Staging!Apply(d) \/ Staging!ApplyFails(d) \/ Staging!RecordApplied(d)
             \/ Staging!Forget(d) \/ Staging!Restore(d) \/ Staging!RecordReverted(d) \/ Staging!DeletePromoted(d)
      PROVE  DecidersOK'
  <2>1. \/ Staging!Leave(d)
        \/ \E pc : Staging!Move(d, pc) /\ s4[d].pc \in {"approving", "rejecting", "applied", "reverting", "undone"}
    BY <1>6 DEF Staging!Reject, Staging!Apply, Staging!ApplyFails, Staging!RecordApplied, Staging!Forget, Staging!Restore,
       Staging!RecordReverted, Staging!DeletePromoted, Staging!At
  <2> QED
    BY <2>1, <1>3, <1>4
<1>7. ASSUME NEW d \in Deciders, NEW i \in Staging!Ids, Staging!Decide(d, i) \/ Staging!AutoApply(d, i) \/ Staging!Revert(d, i)
      PROVE  DecidersOK'
  <2>1. \E pc : Staging!Read(d, i, pc)
    BY <1>7 DEF Staging!Decide, Staging!AutoApply, Staging!Revert
  <2> QED
    BY <2>1, <1>2
<1>8. ASSUME \/ \E k, val : Staging!Propose(k, val)
             \/ \E val : Staging!ProposeKeyless(val)
             \/ Staging!Day \/ Staging!ExpireStale \/ Staging!Purge \/ UNCHANGED Staging!vars
      PROVE  UNCHANGED s4
  BY <1>8 DEF Staging!Propose, Staging!ProposeKeyless, Staging!Day, Staging!ExpireStale, Staging!Purge, Staging!vars
<1> QED
  BY <1>1, <1>5, <1>6, <1>7, <1>8 DEF Staging!Next

\* What is to be shown of a step: the rows, the denials, and what ties them.
LEMMA OneRowTurns ==
  ASSUME ProposalsInv, NEW i \in Staging!Ids, s1' = [j \in Staging!Ids |-> IF j = i THEN s1'[i] ELSE s1[j]],
         Proposal(s1'[i]), UNCHANGED s5,
         s1'[i].status = "pending" => \/ s1[i].status = "pending" /\ s1'[i].key = s1[i].key
                                      \/ s1'[i].key = None
                                      \/ \A j \in Staging!Ids : s1[j].status = "pending" => s1[j].key # s1'[i].key,
         s1[i].status \notin {"rejected", "expired"}
  PROVE  ProposalsInv'
<1>1. \A j \in Staging!Ids : s1'[j] = IF j = i THEN s1'[i] ELSE s1[j]
  OBVIOUS
<1>2. Staging!NoTwinPending'
  BY <1>1 DEF ProposalsInv, Staging!NoTwinPending, Staging!Ids
<1>3. ASSUME NEW k \in Keys, s5[k] # None, s5[k] < ExpireDays PROVE \E j \in Staging!Ids : Denies(s1'[j], k, s5[k])
  <2>1. PICK j \in Staging!Ids : Denies(s1[j], k, s5[k])
    BY <1>3 DEF ProposalsInv
  <2>2. j # i
    BY <2>1 DEF Denies
  <2> QED
    BY <1>1, <2>1, <2>2
<1> QED
  BY <1>1, <1>2, <1>3 DEF ProposalsInv, Staging!Ids, Proposal, Denies

LEMMA SmallestFree ==
  ASSUME NEW S, S \subseteq Staging!Ids, S # {} PROVE Staging!Next1(S) \in S
<1>1. S \subseteq Nat
  BY DEF Staging!Ids
<1>2. PICK i \in S : \A j \in S : ~ (<<j, i>> \in OpToRel(<, Nat))
  BY <1>1, NatLessThanWellFounded, WFMin
<1>3. \A j \in S : i <= j
  <2> SUFFICES ASSUME NEW j \in S, j < i PROVE FALSE
    BY <1>1
  <2>1. j \in Nat /\ i \in Nat
    BY <1>1
  <2>2. <<j, i>> \in OpToRel(<, Nat)
    BY <2>1 DEF OpToRel
  <2> QED
    BY <1>2, <2>2
<1> QED
  BY <1>3 DEF Staging!Next1

LEMMA InsertIsSafe ==
  ASSUME ProposalsInv, NEW k \in Keys \cup {None}, NEW payload, Staging!Insert(k, payload), UNCHANGED s5,
         k # None => Staging!Pending(k) = {}
  PROVE  ProposalsInv' /\ \E i \in Staging!Ids : s1[i].status = "none" /\ s1'[i].key = k /\ \A j \in Staging!Ids : j # i => s1'[j] = s1[j]
<1> DEFINE i == Staging!Next1(Staging!Free)
<1>1. i \in Staging!Ids /\ s1[i].status = "none"
  <2>1. Staging!Free \subseteq Staging!Ids /\ Staging!Free # {}
    BY DEF Staging!Free, Staging!Insert
  <2>2. i \in Staging!Free
    BY <2>1, SmallestFree
  <2> QED
    BY <2>2 DEF Staging!Free
<1>2. s1' = [s1 EXCEPT ![i] = [key |-> k, payload |-> payload, status |-> "pending", age |-> 0]]
  BY DEF Staging!Insert
<1> HIDE DEF i
<1>3. s1'[i] = [key |-> k, payload |-> payload, status |-> "pending", age |-> 0]
      /\ s1' = [j \in Staging!Ids |-> IF j = i THEN s1'[i] ELSE s1[j]]
  BY <1>1, <1>2 DEF ProposalsInv
<1>4. Proposal(s1'[i]) /\ s1'[i].key = k
  BY <1>3 DEF Proposal
<1>5. k = None \/ \A j \in Staging!Ids : s1[j].status = "pending" => s1[j].key # k
  BY DEF Staging!Pending
<1>6. ProposalsInv'
  BY <1>1, <1>3, <1>4, <1>5, OneRowTurns
<1> QED
  BY <1>1, <1>3, <1>4, <1>6

LEMMA ProposeIsSafe ==
  ASSUME ProposalsInv, NEW k \in Keys, NEW val, Staging!Propose(k, val)
  PROVE  ProposalsInv' /\ Staging!NoRestageInWindow
<1>1. Staging!Tombstones(k) = {} /\ UNCHANGED s5 /\ k # None
  BY StagingAssumption DEF Staging!Propose
<1>2. CASE Staging!Pending(k) # {} /\ Staging!Absorb(k, val)
  <2> DEFINE i == Staging!Next1(Staging!Pending(k))
  <2>1. i \in Staging!Ids /\ s1[i].status = "pending" /\ s1[i].key = k
    <3>1. Staging!Pending(k) \subseteq Staging!Ids
      BY DEF Staging!Pending
    <3>2. i \in Staging!Pending(k)
      BY <1>2, <3>1, SmallestFree
    <3> QED
      BY <3>2 DEF Staging!Pending
  <2>2. s1' = [s1 EXCEPT ![i].payload = val, ![i].age = 0]
    BY <1>2 DEF Staging!Absorb
  <2> HIDE DEF i
  <2>3. s1[i] = [key |-> s1[i].key, payload |-> s1[i].payload, status |-> s1[i].status, age |-> s1[i].age] /\ s1 = [j \in Staging!Ids |-> s1[j]]
    BY <2>1 DEF ProposalsInv, Proposal
  <2>4. s1'[i] = [key |-> k, payload |-> val, status |-> "pending", age |-> 0]
        /\ s1' = [j \in Staging!Ids |-> IF j = i THEN s1'[i] ELSE s1[j]]
    BY <2>1, <2>2, <2>3
  <2>5. Proposal(s1'[i]) /\ s1'[i].key = k /\ s1'[i].status = "pending"
    BY <2>4 DEF Proposal
  <2>6. ProposalsInv'
    BY <1>1, <2>1, <2>4, <2>5, OneRowTurns
  <2> QED
    BY <2>1, <2>4, <2>6 DEF Staging!NoRestageInWindow
<1>3. CASE Staging!Pending(k) = {} /\ Staging!Insert(k, val)
  <2>1. PICK i \in Staging!Ids : s1[i].status = "none" /\ s1'[i].key = k /\ \A j \in Staging!Ids : j # i => s1'[j] = s1[j]
    BY <1>1, <1>3, InsertIsSafe
  <2>2. ProposalsInv'
    BY <1>1, <1>3, InsertIsSafe
  <2>3. s5[k] = None \/ s5[k] >= ExpireDays
    <3> SUFFICES ASSUME s5[k] # None, s5[k] < ExpireDays PROVE FALSE
      BY StagingAssumption DEF ProposalsInv
    <3>1. PICK j \in Staging!Ids : Denies(s1[j], k, s5[k])
      BY DEF ProposalsInv
    <3>2. s1[j].age \in Nat /\ s5[k] \in Nat
      BY DEF ProposalsInv, Proposal
    <3>3. s1[j].age < ExpireDays
      BY <3>1, <3>2, StagingAssumption DEF Denies
    <3> QED
      BY <1>1, <3>1, <3>3 DEF Staging!Tombstones, Staging!Decided, Denies
  <2>4. Staging!NoRestageInWindow
    BY <2>1, <2>3 DEF Staging!NoRestageInWindow
  <2> QED
    BY <2>2, <2>4
<1> QED
  BY <1>2, <1>3 DEF Staging!Propose

\* A verdict is recorded, whatever the status has become meanwhile.
LEMMA RecordIsSafe ==
  ASSUME ProposalsInv, NEW i \in Staging!Ids, NEW status \in {"applied", "rejected", "reverted"}, Staging!Record(i, status)
  PROVE  ProposalsInv' /\ Staging!NoRestageInWindow
<1>1. CASE s1[i].status = "purged"
  <2>1. s1[i].key = None
    BY <1>1 DEF ProposalsInv, Proposal
  <2>2. UNCHANGED <<s1, s5>>
    BY <1>1, <2>1 DEF Staging!Record
  <2> QED
    BY <2>2 DEF ProposalsInv, Staging!NoTwinPending, Staging!NoRestageInWindow, Staging!Ids
<1>2. CASE s1[i].status # "purged"
  <2>1. s1[i] = [key |-> s1[i].key, payload |-> s1[i].payload, status |-> s1[i].status, age |-> s1[i].age] /\ s1 = [j \in Staging!Ids |-> s1[j]]
    BY DEF ProposalsInv, Proposal
  <2>2. s1' = [s1 EXCEPT ![i].status = status, ![i].age = 0]
    BY <1>2 DEF Staging!Record
  <2>3. s1'[i] = [key |-> s1[i].key, payload |-> s1[i].payload, status |-> status, age |-> 0]
        /\ s1' = [j \in Staging!Ids |-> IF j = i THEN s1'[i] ELSE s1[j]]
    BY <2>1, <2>2
  <2>4. Proposal(s1'[i]) /\ s1'[i].status = status /\ s1'[i].key = s1[i].key /\ s1'[i].age = 0
    BY <2>3 DEF Proposal, ProposalsInv
  <2>5. \A j \in Staging!Ids : j # i => s1'[j] = s1[j]
    BY <2>3
  <2>6. s5' = IF s1[i].key = None THEN s5 ELSE [s5 EXCEPT ![s1[i].key] = IF status \in {"rejected", "expired"} THEN 0 ELSE None]
    BY DEF Staging!Record, Staging!Decided
  <2>7. s5' = [k \in Keys |-> s5'[k]] /\ (\A k \in Keys : s5'[k] \in Nat \cup {None}) /\ \A k \in Keys : k # s1[i].key => s5'[k] = s5[k]
    BY <2>6 DEF ProposalsInv
  <2>8. s1[i].key \in Keys => s5'[s1[i].key] = IF status = "rejected" THEN 0 ELSE None
    BY <2>6, StagingAssumption DEF ProposalsInv
  <2>9. ASSUME NEW k \in Keys, s5'[k] # None, s5'[k] < ExpireDays PROVE \E j \in Staging!Ids : Denies(s1'[j], k, s5'[k])
    <3>1. CASE k = s1[i].key
      BY <2>4, <2>8, <2>9, <3>1 DEF Denies
    <3>2. CASE k # s1[i].key
      <4>1. PICK j \in Staging!Ids : Denies(s1[j], k, s5[k])
        BY <2>7, <2>9, <3>2 DEF ProposalsInv
      <4>2. j # i
        BY <3>2, <4>1 DEF Denies
      <4> QED
        BY <2>5, <2>7, <3>2, <4>1, <4>2
    <3> QED
      BY <3>1, <3>2
  <2>10. Staging!NoTwinPending'
    BY <2>4, <2>5 DEF ProposalsInv, Staging!NoTwinPending, Staging!Ids
  <2>11. Staging!NoRestageInWindow
    BY <2>4, <2>5 DEF Staging!NoRestageInWindow
  <2>12. \A j \in Staging!Ids : Proposal(s1'[j])
    BY <2>4, <2>5 DEF ProposalsInv
  <2>13. s1' = [j \in Staging!Ids |-> s1'[j]]
    BY <2>3
  <2> QED
    BY <2>7, <2>9, <2>10, <2>11, <2>12, <2>13 DEF ProposalsInv, Staging!Ids, Proposal, Denies
<1> QED
  BY <1>1, <1>2

\* Time passes, and rows expire or are purged: what a row becomes.
LEMMA AllRowsTurn ==
  ASSUME ProposalsInv, s1' = [i \in Staging!Ids |-> s1'[i]], \A i \in Staging!Ids : Proposal(s1'[i]),
         s5' = [k \in Keys |-> s5'[k]], \A k \in Keys : s5'[k] \in Nat \cup {None},
         \A i \in Staging!Ids : s1'[i].status = "pending" => s1[i].status = "pending" /\ s1[i].key = s1'[i].key,
         \A k \in Keys : s5'[k] # None /\ s5'[k] < ExpireDays => \E i \in Staging!Ids : Denies(s1'[i], k, s5'[k])
  PROVE  ProposalsInv' /\ Staging!NoRestageInWindow
<1>1. Staging!NoTwinPending' /\ Staging!NoRestageInWindow
  BY DEF ProposalsInv, Staging!NoTwinPending, Staging!NoRestageInWindow, Staging!Ids
<1> QED
  BY <1>1 DEF ProposalsInv, Staging!Ids, Proposal, Denies

LEMMA DayIsSafe == ASSUME ProposalsInv, Staging!Day PROVE ProposalsInv' /\ Staging!NoRestageInWindow
<1>1. PurgeAfterDays \in Nat /\ ExpireDays \in Nat /\ Staging!PurgeDays \in Nat /\ None \notin Nat /\ ExpireDays <= Staging!PurgeDays
  BY StagingAssumption DEF Staging!PurgeDays
<1>2. \A age \in Nat : Staging!Older(age) \in Nat /\ age <= Staging!Older(age)
  BY <1>1 DEF Staging!Older
<1>3. \A age, other \in Nat : age <= other => Staging!Older(age) <= Staging!Older(other)
  BY <1>1 DEF Staging!Older
<1>4. ASSUME NEW i \in Staging!Ids
      PROVE  /\ Proposal(s1'[i]) /\ s1'[i].status = s1[i].status /\ s1'[i].key = s1[i].key
             /\ s1[i].status \in {"rejected", "expired"} => s1'[i].age = Staging!Older(s1[i].age)
  <2>1. s1[i] = [key |-> s1[i].key, payload |-> s1[i].payload, status |-> s1[i].status, age |-> s1[i].age] /\ Proposal(s1[i]) /\ s1[i].age \in Nat
    BY DEF ProposalsInv, Proposal
  <2>2. CASE s1[i].status \in {"rejected", "expired", "pending"}
    <3>1. s1'[i] = [s1[i] EXCEPT !.age = Staging!Older(s1[i].age)]
      BY <2>2 DEF Staging!Day, Staging!Decided
    <3>2. s1'[i] = [key |-> s1[i].key, payload |-> s1[i].payload, status |-> s1[i].status, age |-> Staging!Older(s1[i].age)]
      BY <2>1, <3>1
    <3> QED
      BY <1>2, <2>1, <3>2 DEF Proposal
  <2>3. CASE s1[i].status \notin {"rejected", "expired", "pending"}
    <3>1. s1'[i] = s1[i]
      BY <2>3 DEF Staging!Day, Staging!Decided
    <3> QED
      BY <2>1, <2>3, <3>1
  <2> QED
    BY <2>2, <2>3
<1>5. s1' = [i \in Staging!Ids |-> s1'[i]]
  BY DEF Staging!Day
<1>6. s5' = [k \in Keys |-> s5'[k]] /\ \A k \in Keys : s5'[k] = IF s5[k] = None THEN None ELSE Staging!Older(s5[k])
  BY DEF Staging!Day
<1>7. \A k \in Keys : s5'[k] \in Nat \cup {None}
  BY <1>2, <1>6 DEF ProposalsInv
<1>8. ASSUME NEW k \in Keys, s5'[k] # None, s5'[k] < ExpireDays PROVE \E i \in Staging!Ids : Denies(s1'[i], k, s5'[k])
  <2>1. s5[k] # None /\ s5[k] \in Nat /\ s5'[k] = Staging!Older(s5[k])
    BY <1>6, <1>8 DEF ProposalsInv
  <2>2. s5[k] < ExpireDays
    BY <1>1, <1>2, <1>8, <2>1
  <2>3. PICK i \in Staging!Ids : Denies(s1[i], k, s5[k])
    BY <2>1, <2>2 DEF ProposalsInv
  <2>4. s1[i].age \in Nat
    BY DEF ProposalsInv, Proposal
  <2> QED
    BY <1>3, <1>4, <2>1, <2>3, <2>4 DEF Denies
<1> QED
  BY <1>4, <1>5, <1>6, <1>7, <1>8, AllRowsTurn

LEMMA ExpireIsSafe == ASSUME ProposalsInv, Staging!ExpireStale PROVE ProposalsInv' /\ Staging!NoRestageInWindow
<1>1. ASSUME NEW i \in Staging!Ids
      PROVE  /\ Proposal(s1'[i]) /\ s1'[i].key = s1[i].key
             /\ i \notin Staging!Expirable => s1'[i] = s1[i]
             /\ i \in Staging!Expirable => s1[i].status = "pending" /\ s1'[i].status = "expired" /\ s1'[i].age = 0
  <2>1. s1[i] = [key |-> s1[i].key, payload |-> s1[i].payload, status |-> s1[i].status, age |-> s1[i].age] /\ Proposal(s1[i])
    BY DEF ProposalsInv, Proposal
  <2>2. CASE i \in Staging!Expirable
    <3>1. s1'[i] = [s1[i] EXCEPT !.status = "expired", !.age = 0]
      BY <2>2 DEF Staging!ExpireStale
    <3>2. s1'[i] = [key |-> s1[i].key, payload |-> s1[i].payload, status |-> "expired", age |-> 0]
      BY <2>1, <3>1
    <3> QED
      BY <2>1, <2>2, <3>2 DEF Proposal, Staging!Expirable
  <2>3. CASE i \notin Staging!Expirable
    <3>1. s1'[i] = s1[i]
      BY <2>3 DEF Staging!ExpireStale
    <3> QED
      BY <2>1, <2>3, <3>1
  <2> QED
    BY <2>2, <2>3
<1>2. s1' = [i \in Staging!Ids |-> s1'[i]]
  BY DEF Staging!ExpireStale
<1>3. s5' = [k \in Keys |-> s5'[k]]
      /\ \A k \in Keys : s5'[k] = IF \E i \in Staging!Expirable : s1[i].key = k THEN 0 ELSE s5[k]
  BY DEF Staging!ExpireStale
<1>4. \A k \in Keys : s5'[k] \in Nat \cup {None}
  BY <1>3 DEF ProposalsInv
<1>5. ASSUME NEW k \in Keys, s5'[k] # None, s5'[k] < ExpireDays PROVE \E i \in Staging!Ids : Denies(s1'[i], k, s5'[k])
  <2>1. CASE \E i \in Staging!Expirable : s1[i].key = k
    <3>1. PICK i \in Staging!Expirable : s1[i].key = k
      BY <2>1
    <3>2. i \in Staging!Ids
      BY DEF Staging!Expirable
    <3> QED
      BY <1>1, <1>3, <2>1, <3>1, <3>2 DEF Denies
  <2>2. CASE ~ \E i \in Staging!Expirable : s1[i].key = k
    <3>1. PICK i \in Staging!Ids : Denies(s1[i], k, s5[k])
      BY <1>3, <1>5, <2>2 DEF ProposalsInv
    <3>2. i \notin Staging!Expirable
      BY <1>1, <3>1 DEF Denies
    <3> QED
      BY <1>1, <1>3, <2>2, <3>1, <3>2
  <2> QED
    BY <2>1, <2>2
<1> QED
  BY <1>1, <1>2, <1>3, <1>4, <1>5, AllRowsTurn

LEMMA PurgeIsSafe == ASSUME ProposalsInv, Staging!Purge PROVE ProposalsInv' /\ Staging!NoRestageInWindow
<1>1. ASSUME NEW i \in Staging!Ids
      PROVE  /\ Proposal(s1'[i])
             /\ i \notin Staging!Purgeable => s1'[i] = s1[i]
             /\ i \in Staging!Purgeable => s1'[i].status = "purged"
  <2>1. CASE i \in Staging!Purgeable
    <3>1. s1'[i] = [key |-> None, payload |-> None, status |-> "purged", age |-> 0]
      BY <2>1 DEF Staging!Purge, Staging!Empty
    <3> QED
      BY <2>1, <3>1 DEF Proposal
  <2>2. CASE i \notin Staging!Purgeable
    <3>1. s1'[i] = s1[i]
      BY <2>2 DEF Staging!Purge
    <3> QED
      BY <2>2, <3>1 DEF ProposalsInv
  <2> QED
    BY <2>1, <2>2
<1>2. s1' = [i \in Staging!Ids |-> s1'[i]] /\ UNCHANGED s5
  BY DEF Staging!Purge
<1>3. ASSUME NEW k \in Keys, s5[k] # None, s5[k] < ExpireDays PROVE \E i \in Staging!Ids : Denies(s1'[i], k, s5[k])
  <2>1. PICK i \in Staging!Ids : Denies(s1[i], k, s5[k])
    BY <1>3 DEF ProposalsInv
  <2>2. s1[i].age \in Nat /\ s5[k] \in Nat /\ s1[i].age <= s5[k]
    BY <1>3, <2>1 DEF ProposalsInv, Proposal, Denies
  <2>3. ~(s1[i].age > Staging!PurgeDays)
    BY <1>3, <2>2, StagingAssumption DEF Staging!PurgeDays
  <2>4. i \notin Staging!Purgeable
    BY <2>3 DEF Staging!Purgeable
  <2> QED
    BY <1>1, <2>1, <2>4
<1>4. \A i \in Staging!Ids : s1'[i].status = "pending" => s1[i].status = "pending" /\ s1[i].key = s1'[i].key
  BY <1>1
<1>5. s5' = [k \in Keys |-> s5'[k]] /\ \A k \in Keys : s5'[k] \in Nat \cup {None}
  BY <1>2 DEF ProposalsInv
<1> QED
  BY <1>1, <1>2, <1>3, <1>4, <1>5, AllRowsTurn

LEMMA StagingNext ==
  ASSUME ProposalsInv, DecidersOK, [Staging!Next]_(Staging!vars)
  PROVE  ProposalsInv' /\ DecidersOK' /\ Staging!NoRestageInWindow
<1>1. ASSUME UNCHANGED <<s1, s5>> PROVE ProposalsInv' /\ Staging!NoRestageInWindow
  BY <1>1 DEF ProposalsInv, Staging!NoTwinPending, Staging!NoRestageInWindow, Staging!Ids
<1>2. ASSUME NEW val, Staging!ProposeKeyless(val) PROVE ProposalsInv' /\ Staging!NoRestageInWindow
  <2>1. Staging!Insert(None, val) /\ UNCHANGED s5
    BY <1>2 DEF Staging!ProposeKeyless
  <2>2. ProposalsInv'
    BY <2>1, InsertIsSafe
  <2>3. PICK i \in Staging!Ids : s1'[i].key = None /\ \A j \in Staging!Ids : j # i => s1'[j] = s1[j]
    BY <2>1, InsertIsSafe
  <2> QED
    BY <2>2, <2>3, StagingAssumption DEF Staging!NoRestageInWindow
<1>3. ASSUME NEW d \in Deciders, Staging!Reject(d) \/ Staging!RecordApplied(d) \/ Staging!RecordReverted(d)
      PROVE  ProposalsInv' /\ Staging!NoRestageInWindow
  <2>1. s4[d].id \in Staging!Ids
    BY <1>3 DEF Staging!Reject, Staging!RecordApplied, Staging!RecordReverted, Staging!At, DecidersOK
  <2>2. \E status \in {"applied", "rejected", "reverted"} : Staging!Record(s4[d].id, status)
    BY <1>3 DEF Staging!Reject, Staging!RecordApplied, Staging!RecordReverted
  <2> QED
    BY <2>1, <2>2, RecordIsSafe
<1>4. ASSUME NEW d, NEW i, Staging!Decide(d, i) \/ Staging!AutoApply(d, i) \/ Staging!Revert(d, i) PROVE UNCHANGED <<s1, s5>>
  BY <1>4 DEF Staging!Decide, Staging!AutoApply, Staging!Revert
<1>5. ASSUME NEW d,
             \/ Staging!Apply(d) \/ Staging!ApplyFails(d) \/ Staging!Forget(d) \/ Staging!Restore(d) \/ Staging!DeletePromoted(d)
             \/ \E k : Staging!RevertTransition(d, k)
      PROVE  UNCHANGED <<s1, s5>>
  BY <1>5 DEF Staging!Apply, Staging!ApplyFails, Staging!Forget, Staging!Restore, Staging!DeletePromoted, Staging!RevertTransition
<1>6. UNCHANGED Staging!vars => UNCHANGED <<s1, s5>>
  BY DEF Staging!vars
<1>7. ProposalsInv' /\ Staging!NoRestageInWindow
  BY <1>1, <1>2, <1>3, <1>4, <1>5, <1>6, ProposeIsSafe, DayIsSafe, ExpireIsSafe, PurgeIsSafe DEF Staging!Next
<1>8. DecidersOK'
  BY DecidersStep
<1> QED
  BY <1>7, <1>8

------------------------------------------------------------------------------
(* The gap registry *)

Hole == [user : Users, text : AskedTexts, last : Nat \cup {None}, count : Nat]

OneOfAText(view) == \A i, j \in DOMAIN view : view[i].text = view[j].text => i = j

BuildRow(row) == row = [pc |-> row.pc, view |-> row.view, todo |-> row.todo, before |-> row.before]

\* The table has one row for a text, and so has what every build will commit.
BuildOK(row) ==
    /\ BuildRow(row)
    /\ row.view \in Seq(Hole) /\ OneOfAText(row.view) /\ row.todo \subseteq Gaps!Observations

GapsInv ==
    /\ s1 \in Seq(Hole) /\ OneOfAText(s1)
    /\ s5 = [b \in Builds |-> s5[b]] /\ \A b \in Builds : BuildOK(s5[b])

LEMMA GapsHold == GapsInv => Gaps!OneRowPerHole
  BY DEF GapsInv, OneOfAText, Gaps!OneRowPerHole

LEMMA RestingIsOK == BuildOK(Gaps!Resting)
  BY DEF BuildOK, BuildRow, OneOfAText, Gaps!Resting

LEMMA GapsInit == Gaps!Init => GapsInv
<1> SUFFICES ASSUME Gaps!Init PROVE GapsInv
  OBVIOUS
<1>1. s5 = [b \in Builds |-> Gaps!Resting]
  BY DEF Gaps!Init
<1>2. CASE s1 = <<>>
  BY <1>1, <1>2, RestingIsOK DEF GapsInv, OneOfAText
<1>3. CASE \E user \in Users, text \in AskedTexts : s1 = <<[user |-> user, text |-> text, last |-> None, count |-> 1]>>
  BY <1>1, <1>3, RestingIsOK DEF GapsInv, OneOfAText, Hole
<1> QED
  BY <1>2, <1>3 DEF Gaps!Init

\* The build of b is another now, and in order.
LEMMA BuildTurns ==
  ASSUME GapsInv, NEW b \in Builds, NEW row, BuildOK(row), s5' = [s5 EXCEPT ![b] = row], UNCHANGED s1
  PROVE  GapsInv'
<1>1. \A x \in Builds : s5'[x] = IF x = b THEN row ELSE s5[x]
  BY DEF GapsInv
<1>2. s5' = [x \in Builds |-> s5'[x]]
  BY DEF GapsInv
<1>3. \A x \in Builds : BuildOK(s5'[x])
  BY <1>1 DEF GapsInv
<1> QED
  BY <1>2, <1>3 DEF GapsInv, OneOfAText, BuildOK, BuildRow, Gaps!Observations, Hole

\* The rows are touched, and none becomes another hole.
LEMMA RowsAge ==
  ASSUME GapsInv, s1' = [i \in DOMAIN s1 |-> s1'[i]], \A i \in DOMAIN s1 : s1'[i] \in Hole /\ s1'[i].text = s1[i].text
  PROVE  s1' \in Seq(Hole) /\ OneOfAText(s1')
<1>1. s1 \in Seq(Hole) /\ OneOfAText(s1) /\ DOMAIN s1 = 1..Len(s1) /\ Len(s1) \in Nat
  BY DEF GapsInv
<1>2. s1' \in Seq(Hole) /\ DOMAIN s1' = DOMAIN s1
  BY <1>1
<1> QED
  BY <1>1, <1>2 DEF OneOfAText

LEMMA GapsDayIsSafe == ASSUME GapsInv, Gaps!Day PROVE GapsInv'
<1>1. s1 \in Seq(Hole) /\ DOMAIN s1 = 1..Len(s1)
  BY DEF GapsInv
<1>2. \A age \in Nat \cup {None} : Gaps!Older(age) \in Nat \cup {None}
  BY GapsAssumption DEF Gaps!Older
<1>3. ASSUME NEW i \in DOMAIN s1 PROVE s1'[i] \in Hole /\ s1'[i].text = s1[i].text
  <2>1. s1[i] \in Hole
    BY <1>1
  <2>2. s1'[i] = [s1[i] EXCEPT !.last = Gaps!Older(s1[i].last)]
    BY DEF Gaps!Day
  <2> QED
    BY <1>2, <2>1, <2>2 DEF Hole
<1>4. s1' = [i \in DOMAIN s1 |-> s1'[i]] /\ UNCHANGED s5
  BY DEF Gaps!Day
<1>5. s1' \in Seq(Hole) /\ OneOfAText(s1')
  BY <1>3, <1>4, RowsAge
<1> QED
  BY <1>4, <1>5 DEF GapsInv, OneOfAText, BuildOK, BuildRow, Gaps!Observations, Hole

LEMMA BackfillIsSafe == ASSUME GapsInv, NEW b \in Builds, Gaps!Backfill(b) PROVE GapsInv'
<1>1. s1 \in Seq(Hole) /\ DOMAIN s1 = 1..Len(s1)
  BY DEF GapsInv
<1>2. PICK ts \in Gaps!Ages : s1' = [i \in DOMAIN s1 |-> IF s1[i].last = None THEN [s1[i] EXCEPT !.last = ts] ELSE s1[i]]
  BY DEF Gaps!Backfill
<1>3. ts \in Nat
  BY GapsAssumption DEF Gaps!Ages
<1>4. ASSUME NEW i \in DOMAIN s1 PROVE s1'[i] \in Hole /\ s1'[i].text = s1[i].text
  <2>1. s1[i] \in Hole
    BY <1>1
  <2>2. s1'[i] = s1[i] \/ s1'[i] = [s1[i] EXCEPT !.last = ts]
    BY <1>2
  <2> QED
    BY <1>3, <2>1, <2>2 DEF Hole
<1>5. s1' = [i \in DOMAIN s1 |-> s1'[i]]
  BY <1>2
<1>6. s1' \in Seq(Hole) /\ OneOfAText(s1')
  BY <1>4, <1>5, RowsAge
<1> DEFINE hashes == Gaps!Hashes(s1')
<1>7. s5' = [s5 EXCEPT ![b].pc = "ready", ![b].before = Gaps!Hashes(s1)]
  BY DEF Gaps!Backfill
<1>8. \A x \in Builds : BuildOK(s5'[x])
  <2> SUFFICES ASSUME NEW x \in Builds PROVE BuildOK(s5'[x])
    OBVIOUS
  <2>1. BuildOK(s5[x]) /\ s5[x] = [pc |-> s5[x].pc, view |-> s5[x].view, todo |-> s5[x].todo, before |-> s5[x].before]
    BY DEF GapsInv, BuildOK, BuildRow
  <2> DEFINE old == Gaps!Hashes(s1)
             half == [s5[x] EXCEPT !.pc = "ready"]
             row == [half EXCEPT !.before = old]
  <2>2. s5'[x] = IF x = b THEN row ELSE s5[x]
    BY <1>7 DEF GapsInv
  <2>3. half = [pc |-> "ready", view |-> s5[x].view, todo |-> s5[x].todo, before |-> s5[x].before]
    BY <2>1
  <2> HIDE DEF old, half
  <2>4. row = [pc |-> "ready", view |-> s5[x].view, todo |-> s5[x].todo, before |-> old]
    BY <2>3
  <2> HIDE DEF row
  <2>5. BuildOK(row)
    BY <2>1, <2>4 DEF BuildOK, BuildRow
  <2> QED
    BY <2>1, <2>2, <2>5
<1>9. s5' = [x \in Builds |-> s5'[x]]
  BY <1>7 DEF GapsInv
<1> QED
  BY <1>6, <1>8, <1>9 DEF GapsInv, OneOfAText, BuildOK, BuildRow, Gaps!Observations, Hole

\* The steps that leave the tables alone and move the build by its own record.
LEMMA BuildMovesAreSafe ==
  ASSUME GapsInv, NEW b \in Builds,
         \/ Gaps!Begin(b) \/ Gaps!AddColumns(b) \/ Gaps!TakeLock(b) \/ Gaps!Scan(b) \/ Gaps!ScanFails(b) \/ Gaps!Dies(b)
  PROVE  GapsInv'
<1> DEFINE row == s5[b]
<1>1. /\ s1 \in Seq(Hole) /\ OneOfAText(s1) /\ BuildOK(row)
      /\ row = [pc |-> row.pc, view |-> row.view, todo |-> row.todo, before |-> row.before]
      /\ s5 = [x \in Builds |-> s5[x]]
  BY DEF GapsInv, BuildOK, BuildRow
<1>2. CASE Gaps!Begin(b)
  <2> DEFINE hashes == Gaps!Hashes(s1)
             half == [row EXCEPT !.pc = "ready"]
             new == [half EXCEPT !.before = hashes]
  <2>1. s5' = [s5 EXCEPT ![b] = new] /\ UNCHANGED s1
    BY <1>2 DEF Gaps!Begin
  <2>2. half = [pc |-> "ready", view |-> row.view, todo |-> row.todo, before |-> row.before]
    BY <1>1
  <2> HIDE DEF hashes, half
  <2>3. new = [pc |-> "ready", view |-> row.view, todo |-> row.todo, before |-> hashes]
    BY <2>2
  <2> HIDE DEF new
  <2>4. BuildOK(new)
    BY <1>1, <2>3 DEF BuildOK, BuildRow
  <2> QED
    BY <2>1, <2>4, BuildTurns
<1>3. CASE Gaps!AddColumns(b)
  <2> DEFINE new == [row EXCEPT !.pc = "altered"]
  <2>1. s5' = [s5 EXCEPT ![b] = new] /\ UNCHANGED s1
    BY <1>3 DEF Gaps!AddColumns, Gaps!Goto
  <2>2. new = [pc |-> "altered", view |-> row.view, todo |-> row.todo, before |-> row.before]
    BY <1>1
  <2> HIDE DEF new
  <2>3. BuildOK(new)
    BY <1>1, <2>2 DEF BuildOK, BuildRow
  <2> QED
    BY <2>1, <2>3, BuildTurns
<1>4. CASE Gaps!TakeLock(b)
  <2> DEFINE half == [row EXCEPT !.pc = "locked"]
             new == [half EXCEPT !.view = s1]
  <2>1. s5' = [s5 EXCEPT ![b] = new] /\ UNCHANGED s1
    BY <1>4 DEF Gaps!TakeLock
  <2>2. half = [pc |-> "locked", view |-> row.view, todo |-> row.todo, before |-> row.before]
    BY <1>1
  <2> HIDE DEF half
  <2>3. new = [pc |-> "locked", view |-> s1, todo |-> row.todo, before |-> row.before]
    BY <2>2
  <2> HIDE DEF new
  <2>4. BuildOK(new)
    BY <1>1, <2>3 DEF BuildOK, BuildRow
  <2> QED
    BY <2>1, <2>4, BuildTurns
<1>5. CASE Gaps!Scan(b)
  <2> DEFINE todo == Gaps!Questions \cup Gaps!ZeroResults
             half == [row EXCEPT !.pc = "counting"]
             new == [half EXCEPT !.todo = todo]
  <2>1. s5' = [s5 EXCEPT ![b] = new] /\ UNCHANGED s1
    BY <1>5 DEF Gaps!Scan
  <2>2. half = [pc |-> "counting", view |-> row.view, todo |-> row.todo, before |-> row.before]
    BY <1>1
  <2>3. todo \subseteq Gaps!Observations
    BY DEF Gaps!Questions, Gaps!ZeroResults
  <2> HIDE DEF half, todo
  <2>4. new = [pc |-> "counting", view |-> row.view, todo |-> todo, before |-> row.before]
    BY <2>2
  <2> HIDE DEF new
  <2>5. BuildOK(new)
    BY <1>1, <2>3, <2>4 DEF BuildOK, BuildRow
  <2> QED
    BY <2>1, <2>5, BuildTurns
<1>6. CASE Gaps!ScanFails(b)
  <2> DEFINE todo == {o \in row.todo : o.origin # Gaps!Scanned(b)}
             new == [row EXCEPT !.todo = todo]
  <2>1. s5' = [s5 EXCEPT ![b] = new] /\ UNCHANGED s1
    BY <1>6 DEF Gaps!ScanFails
  <2>2. todo \subseteq row.todo
    OBVIOUS
  <2> HIDE DEF todo
  <2>3. new = [pc |-> row.pc, view |-> row.view, todo |-> todo, before |-> row.before]
    BY <1>1
  <2> HIDE DEF new
  <2>4. BuildOK(new)
    BY <1>1, <2>2, <2>3 DEF BuildOK, BuildRow
  <2> QED
    BY <2>1, <2>4, BuildTurns
<1>7. CASE Gaps!Dies(b)
  BY <1>7, RestingIsOK, BuildTurns DEF Gaps!Dies
<1> QED
  BY <1>2, <1>3, <1>4, <1>5, <1>6, <1>7

\* A row counted again is the hole it was.
LEMMA CountedAgain ==
  ASSUME NEW view \in Seq(Hole), OneOfAText(view), NEW i \in DOMAIN view, NEW row \in Hole, row.text = view[i].text
  PROVE  [view EXCEPT ![i] = row] \in Seq(Hole) /\ OneOfAText([view EXCEPT ![i] = row])
<1> DEFINE new == [view EXCEPT ![i] = row]
<1>1. DOMAIN view = 1..Len(view) /\ Len(view) \in Nat
  OBVIOUS
<1>2. /\ new \in Seq(Hole) /\ Len(new) = Len(view)
      /\ \A j \in 1..Len(view) : new[j] = IF j = i THEN row ELSE view[j]
  BY <1>1, ExceptSeq
<1>3. DOMAIN new = DOMAIN view /\ \A j \in DOMAIN view : new[j].text = view[j].text
  BY <1>1, <1>2
<1> QED
  BY <1>2, <1>3 DEF OneOfAText

\* A row is added only for a text that none has.
LEMMA CountedFirst ==
  ASSUME NEW view \in Seq(Hole), OneOfAText(view), NEW row \in Hole, \A i \in DOMAIN view : view[i].text # row.text
  PROVE  Append(view, row) \in Seq(Hole) /\ OneOfAText(Append(view, row))
<1> DEFINE new == Append(view, row)
           n == Len(view)
<1>1. DOMAIN view = 1..n /\ n \in Nat
  OBVIOUS
<1>2. /\ new \in Seq(Hole) /\ Len(new) = n + 1 /\ new[n + 1] = row
      /\ \A j \in 1..n : new[j] = view[j]
  BY AppendProperties
<1>3. DOMAIN new = 1..(n + 1)
  BY <1>2
<1> HIDE DEF new, n
<1>4. \A j \in DOMAIN new : j \in DOMAIN view \/ j = n + 1
  BY <1>1, <1>3
<1>5. \A i, j \in DOMAIN new : new[i].text = new[j].text => i = j
  BY <1>1, <1>2, <1>4 DEF OneOfAText
<1>6. new \in Seq(Hole) /\ OneOfAText(new)
  BY <1>2, <1>5 DEF OneOfAText
<1> QED
  BY <1>6 DEF new

LEMMA CountOneIsSafe == ASSUME GapsInv, NEW b \in Builds, Gaps!CountOne(b) PROVE GapsInv'
<1> DEFINE row == s5[b]
<1>1. /\ row.view \in Seq(Hole) /\ OneOfAText(row.view) /\ row.todo \subseteq Gaps!Observations
      /\ row = [pc |-> row.pc, view |-> row.view, todo |-> row.todo, before |-> row.before]
  BY DEF GapsInv, BuildOK, BuildRow
<1>a. PICK o \in row.todo : \E view \in Gaps!Counted(b, o) :
         s5' = [s5 EXCEPT ![b].view = view, ![b].todo = row.todo \ {o}] /\ UNCHANGED s1
  BY DEF Gaps!CountOne
<1>2. PICK view \in Gaps!Counted(b, o) :
         s5' = [s5 EXCEPT ![b].view = view, ![b].todo = row.todo \ {o}] /\ UNCHANGED s1
  BY <1>a
<1>3. view \in Seq(Hole) /\ OneOfAText(view)
  <2>1. CASE \E i \in Gaps!Known(b, o.text) :
               view = [row.view EXCEPT ![i].count = Gaps!More(row.view[i].count), ![i].last = 0]
    <3>1. PICK i \in DOMAIN row.view :
             view = [row.view EXCEPT ![i].count = Gaps!More(row.view[i].count), ![i].last = 0]
      BY <2>1 DEF Gaps!Known
    <3>2. row.view[i] \in Hole
      BY <1>1
    <3> DEFINE more == Gaps!More(row.view[i].count)
               half == [row.view[i] EXCEPT !.count = more]
               new == [half EXCEPT !.last = 0]
    <3>3. more \in Nat
      BY <3>2 DEF Gaps!More, Hole
    <3> HIDE DEF more
    <3>4. half \in Hole /\ half.text = row.view[i].text
      BY <3>2, <3>3 DEF Hole
    <3> HIDE DEF half
    <3>5. new \in Hole /\ new.text = row.view[i].text
      BY <3>4 DEF Hole
    <3>6. view = [row.view EXCEPT ![i] = new]
      BY <3>1 DEF half, more
    <3> HIDE DEF new, row
    <3>7. [row.view EXCEPT ![i] = new] \in Seq(Hole) /\ OneOfAText([row.view EXCEPT ![i] = new])
      BY <1>1, <3>1, <3>5, CountedAgain
    <3> QED
      BY <3>6, <3>7
  <2>2. CASE Gaps!Known(b, o.text) = {} /\ view = Append(row.view, [user |-> o.user, text |-> o.text, last |-> 0, count |-> 1])
    <3> DEFINE new == [user |-> o.user, text |-> o.text, last |-> 0, count |-> 1]
    <3>1. new \in Hole /\ new.text = o.text /\ view = Append(row.view, new)
      BY <1>1, <2>2 DEF Hole, Gaps!Observations
    <3>2. \A i \in DOMAIN row.view : row.view[i].text # o.text
      BY <2>2 DEF Gaps!Known
    <3> HIDE DEF new, row
    <3>3. \A i \in DOMAIN row.view : row.view[i].text # new.text
      BY <3>1, <3>2
    <3>4. Append(row.view, new) \in Seq(Hole) /\ OneOfAText(Append(row.view, new))
      BY <1>1, <3>1, <3>3, CountedFirst
    <3> QED
      BY <3>1, <3>4
  <2> QED
    BY <2>1, <2>2 DEF Gaps!Counted
<1> DEFINE todo == row.todo \ {o}
           half == [row EXCEPT !.view = view]
           new == [half EXCEPT !.todo = todo]
<1>4. s5' = [s5 EXCEPT ![b] = new] /\ UNCHANGED s1
  BY <1>2
<1>5. todo \subseteq Gaps!Observations
  BY <1>1
<1>6. half = [pc |-> row.pc, view |-> view, todo |-> row.todo, before |-> row.before]
  BY <1>1
<1> HIDE DEF todo, half
<1>7. new = [pc |-> row.pc, view |-> view, todo |-> todo, before |-> row.before]
  BY <1>6
<1> HIDE DEF new
<1>8. BuildOK(new)
  BY <1>3, <1>5, <1>7 DEF BuildOK, BuildRow
<1> QED
  BY <1>4, <1>8, BuildTurns

LEMMA GapsCommitIsSafe == ASSUME GapsInv, NEW b \in Builds, Gaps!Commit(b) PROVE GapsInv'
<1>1. s1' = s5[b].view /\ s5' = [s5 EXCEPT ![b] = Gaps!Resting]
  BY DEF Gaps!Commit
<1>2. s1' \in Seq(Hole) /\ OneOfAText(s1')
  BY <1>1 DEF GapsInv, BuildOK
<1>3. s5' = [x \in Builds |-> s5'[x]] /\ \A x \in Builds : BuildOK(s5'[x])
  BY <1>1, RestingIsOK DEF GapsInv
<1> QED
  BY <1>2, <1>3 DEF GapsInv, OneOfAText, BuildOK, BuildRow, Gaps!Observations, Hole

LEMMA GapsNext == GapsInv /\ [Gaps!Next]_(Gaps!vars) => GapsInv'
<1> SUFFICES ASSUME GapsInv, [Gaps!Next]_(Gaps!vars) PROVE GapsInv'
  OBVIOUS
<1>1. CASE UNCHANGED <<s1, s5>>
  BY <1>1 DEF GapsInv, OneOfAText, BuildOK, BuildRow, Gaps!Observations, Hole
<1>2. CASE \E b \in Builds : Gaps!Build(b)
  BY <1>2, BackfillIsSafe, BuildMovesAreSafe, CountOneIsSafe, GapsCommitIsSafe DEF Gaps!Build
<1>3. CASE \E user \in Users, text \in AskedTexts : Gaps!Ask(user, text) \/ Gaps!FindNothing(user, text)
  <2>1. UNCHANGED <<s1, s5>>
    BY <1>3 DEF Gaps!Ask, Gaps!FindNothing
  <2> QED
    BY <1>1, <2>1
<1>4. CASE UNCHANGED Gaps!vars
  BY <1>1, <1>4 DEF Gaps!vars
<1> QED
  BY <1>2, <1>3, <1>4, GapsDayIsSafe DEF Gaps!Next

------------------------------------------------------------------------------
(* Facts, episodes and the bin: m gives a cast its values, texts and bounds *)

\* No row is None, and no episode is the text of a fact.
Cast(m) ==
    /\ m.bins \in Nat
    /\ None \notin Nat \cup [id : Nat, val : m.values, old : BOOLEAN]
                  \cup [id : Nat, kind : {"fact"}, text : Topics \X m.values, purged : BOOLEAN]
                  \cup [id : Nat, kind : {"episode"}, text : m.summaries, purged : BOOLEAN]
    /\ m.summaries \cap (Topics \X m.values) = {}

Fact(m) == [id : Nat, val : m.values, old : BOOLEAN]
FactShadow(m) == [id : Nat, kind : {"fact"}, text : Topics \X m.values, purged : BOOLEAN]
EpisodeShadow(m) == [id : Nat, kind : {"episode"}, text : m.summaries, purged : BOOLEAN]

Held(k) == s1[k] # None
InBin(b) == s3[b] # None
Lost(text) == text \notin s9.kept \ s9.raced

TablesOK(m) ==
    /\ s1 \in [Topics -> Fact(m) \cup {None}]
    /\ s2 \in [m.summaries -> Nat \cup {None}]
    /\ s3 \in [1..m.bins -> FactShadow(m) \cup EpisodeShadow(m) \cup {None}]
    /\ s4 = [fact |-> s4.fact, episode |-> s4.episode, bin |-> s4.bin]
    /\ s4.fact \in Nat /\ s4.episode \in Nat /\ s4.bin \in Nat /\ s4.bin >= 1
    /\ s5 = [pc |-> s5.pc, rows |-> s5.rows]
    /\ s7 = [pc |-> s7.pc, key |-> s7.key, row |-> s7.row, purge |-> s7.purge]
    /\ s8 = [pc |-> s8.pc, todo |-> s8.todo, kind |-> s8.kind, bid |-> s8.bid, counted |-> s8.counted, landed |-> s8.landed, gone |-> s8.gone]
    /\ s9 = [kept |-> s9.kept, raced |-> s9.raced]

\* An id names one fact, and the next is free; the bin is filled from below.
Numbered(m) ==
    /\ \A k \in Topics : Held(k) => s1[k].id < s4.fact
    /\ \A j, k \in Topics : Held(j) /\ Held(k) /\ s1[j].id = s1[k].id => j = k
    /\ \A b \in 1..m.bins : b >= s4.bin => ~InBin(b)

\* A row that was read: who has its id now is that fact, unless a save raced.
ReadOnce(m, k, row) ==
    /\ k \in Topics /\ row \in Fact(m) /\ row.id < s4.fact
    /\ \A j \in Topics : Held(j) /\ s1[j].id = row.id => j = k /\ (s1[j].val = row.val \/ Lost(<<j, s1[j].val>>))

ArchiverOK(m) ==
    \A r0 \in s5.rows : r0 \in Topics \X Fact(m) /\ ReadOnce(m, r0[1], r0[2])

\* What a forget deletes by its key is in the bin by then, or was raced.
ForgetterOK(m) ==
    s7.pc # "idle" =>
        /\ ReadOnce(m, s7.key, s7.row)
        /\ s7.purge \in BOOLEAN
        /\ ~s7.purge /\ Held(s7.key) =>
              \/ Lost(<<s7.key, s1[s7.key].val>>)
              \/ /\ s1[s7.key].val = s7.row.val
                 /\ s7.pc = "delete" => \E b \in 1..m.bins : InBin(b) /\ s3[b].kind = "fact" /\ s3[b].text = <<s7.key, s7.row.val>>

\* The episode of the shadow b is in its table, or has another shadow outside S.
Elsewhere(m, b, S) ==
    \/ s2[s3[b].text] # None
    \/ \E c \in 1..m.bins \ S : c # b /\ InBin(c) /\ s3[c].kind = "episode" /\ s3[c].text = s3[b].text

\* The open transaction of a restore: the facts it brings back are of keys that
\* nobody holds, an episode whose shadow it drops is somewhere else.
RestorerOK(m) ==
    /\ s8.gone \subseteq 1..m.bins /\ \A b \in s8.gone : InBin(b) /\ ~s3[b].purged
    /\ s8.pc \in {"idle", "returned"} => s8.gone = {} /\ s8.landed = {}
    /\ s8.pc \in {"next", "write", "saved"} => s8.counted \subseteq s8.gone
    /\ s8.landed = {s3[b].text : b \in {c \in s8.gone : s3[c].kind = "fact"}}
    /\ \A b \in s8.gone : s3[b].kind = "fact" =>
          /\ ~Held(s3[b].text[1])
          /\ \A c \in s8.gone : s3[c].kind = "fact" /\ s3[c].text[1] = s3[b].text[1] => c = b
    /\ \A b \in s8.gone : s3[b].kind = "episode" => Elsewhere(m, b, s8.gone)
    /\ s8.pc \in {"write", "saved"} => s8.bid \in 1..m.bins \ s8.gone /\ InBin(s8.bid) /\ ~s3[s8.bid].purged
    /\ s8.pc = "saved" => s3[s8.bid].kind = "episode" /\ s8.gone = {} /\ Elsewhere(m, s8.bid, {})

There(m, text) ==
    \/ \E k \in Topics : Held(k) /\ text = <<k, s1[k].val>>
    \/ text \in m.summaries /\ s2[text] # None
    \/ \E b \in 1..m.bins : InBin(b) /\ s3[b].text = text

AllThere(m) == \A text : Lost(text) \/ There(m, text)

MemoriesInv(m) == TablesOK(m) /\ Numbered(m) /\ ArchiverOK(m) /\ ForgetterOK(m) /\ RestorerOK(m) /\ AllThere(m)


LEMMA MemoriesHold == ASSUME NEW m, MemoriesInv(m) PROVE Memories(m)!NothingVanishes
  BY DEF MemoriesInv, AllThere, There, Held, InBin, Lost, Memories!NothingVanishes, Memories!Live, Memories!Binned,
         Memories!Filled, Memories!Present, Memories!Bids

LEMMA MemoriesInit == ASSUME NEW m, Cast(m), Memories(m)!Init PROVE MemoriesInv(m)
<1> USE DEF Memories!Init, Memories!Nobody, Memories!AtRest
<1>1. TablesOK(m) /\ Numbered(m)
  BY DEF TablesOK, Numbered, Held, InBin, Memories!Bids
<1>2. ArchiverOK(m) /\ ForgetterOK(m) /\ RestorerOK(m)
  BY DEF ArchiverOK, ForgetterOK, RestorerOK
<1> QED
  BY <1>1, <1>2 DEF MemoriesInv, AllThere, Lost

------------------------------------------------------------------------------
(* Steps that bring no fact back *)

\* No fact appears or changes its value, no shadow leaves.
Calm(m) ==
    /\ \A k \in Topics : s1'[k] # None => s1[k] # None /\ s1'[k].id = s1[k].id /\ s1'[k].val = s1[k].val
    /\ \A b \in 1..m.bins : InBin(b) => s3'[b] = s3[b]
    /\ s4'.fact = s4.fact
    /\ \A b \in 1..m.bins : b >= s4'.bin => s3'[b] = None
    /\ \A k \in Topics, val \in m.values : Lost(<<k, val>>) => Lost(<<k, val>>)'

LEMMA CalmReads ==
  ASSUME NEW m, TablesOK(m), Calm(m), NEW k, NEW row, ReadOnce(m, k, row)
  PROVE  ReadOnce(m, k, row)'
<1>1. \A j \in Topics : Held(j) => s1[j].val \in m.values
  BY DEF TablesOK, Fact, Held
<1> QED
  BY <1>1 DEF Calm, ReadOnce, Held, Fact

LEMMA CalmNumbers == ASSUME NEW m, Numbered(m), Calm(m) PROVE Numbered(m)'
  BY DEF Numbered, Calm, Held, InBin

LEMMA CalmArchiver == ASSUME NEW m, TablesOK(m), ArchiverOK(m), Calm(m), UNCHANGED s5 PROVE ArchiverOK(m)'
<1>1. \A r0 \in s5.rows : ReadOnce(m, r0[1], r0[2])'
  BY CalmReads DEF ArchiverOK
<1> QED
  BY <1>1 DEF ArchiverOK, Fact

LEMMA CalmForgetter == ASSUME NEW m, TablesOK(m), ForgetterOK(m), Calm(m), UNCHANGED s7 PROVE ForgetterOK(m)'
<1> SUFFICES ASSUME s7.pc # "idle" PROVE ForgetterOK(m)'
  BY DEF ForgetterOK
<1>1. ReadOnce(m, s7.key, s7.row)'
  <2>1. ReadOnce(m, s7.key, s7.row)
    BY DEF ForgetterOK
  <2> DEFINE key == s7.key
             row == s7.row
  <2>2. key' = key /\ row' = row
    OBVIOUS
  <2> HIDE DEF key, row
  <2>3. ReadOnce(m, key, row)
    BY <2>1 DEF key, row
  <2>4. ASSUME NEW k, NEW old, ReadOnce(m, k, old) PROVE ReadOnce(m, k, old)'
    BY <2>4, CalmReads
  <2> QED
    BY <2>2, <2>3, <2>4 DEF key, row, ReadOnce
<1>2. s7.key \in Topics /\ (Held(s7.key) => s1[s7.key].val \in m.values)
  BY DEF ForgetterOK, ReadOnce, TablesOK, Fact, Held
<1>3. ASSUME ~s7.purge, s1'[s7.key] # None
      PROVE  \/ Lost(<<s7.key, s1[s7.key].val>>)'
             \/ /\ s1'[s7.key].val = s7.row.val
                /\ s7.pc = "delete" => \E b \in 1..m.bins : s3'[b] # None /\ s3'[b].kind = "fact" /\ s3'[b].text = <<s7.key, s7.row.val>>
  BY <1>2, <1>3 DEF Calm, ForgetterOK, Held, InBin
<1> QED
  BY <1>1, <1>3 DEF ForgetterOK, Held, InBin, Calm

LEMMA CalmRestorer ==
  ASSUME NEW m, TablesOK(m), RestorerOK(m), Calm(m), UNCHANGED s8, s8.gone # {} => UNCHANGED s2,
         \A text \in m.summaries : s2[text] # None =>
            s2'[text] # None \/ \E c \in 1..m.bins : ~InBin(c) /\ s3'[c] # None /\ s3'[c].kind = "episode" /\ s3'[c].text = text
  PROVE  RestorerOK(m)'
<1>1. \A b \in 1..m.bins : InBin(b) => s3'[b] = s3[b] /\ s3'[b] # None
  BY DEF Calm, InBin
<1>2. \A b \in s8.gone : b \in 1..m.bins /\ InBin(b)
  BY DEF RestorerOK
<1>3. \A b \in s8.gone : s3[b].kind = "fact" => s3[b].text[1] \in Topics
  BY <1>2 DEF TablesOK, FactShadow, EpisodeShadow, InBin
<1>4. s8.gone # {} => \A b \in s8.gone : Elsewhere(m, b, s8.gone) => Elsewhere(m, b, s8.gone)'
  BY <1>1, <1>2 DEF Elsewhere, InBin
<1>5. s8.pc = "saved" => Elsewhere(m, s8.bid, {})'
  <2> SUFFICES ASSUME s8.pc = "saved" PROVE Elsewhere(m, s8.bid, {})'
    OBVIOUS
  <2>1. s8.bid \in 1..m.bins /\ InBin(s8.bid) /\ s3[s8.bid].kind = "episode" /\ Elsewhere(m, s8.bid, {})
    BY DEF RestorerOK
  <2>2. s3[s8.bid].text \in m.summaries
    BY <2>1 DEF TablesOK, FactShadow, EpisodeShadow, InBin
  <2>3. CASE s2[s3[s8.bid].text] # None
    BY <1>1, <2>1, <2>2, <2>3 DEF Elsewhere, InBin
  <2>4. CASE \E c \in 1..m.bins \ {} : c # s8.bid /\ InBin(c) /\ s3[c].kind = "episode" /\ s3[c].text = s3[s8.bid].text
    BY <1>1, <2>1, <2>4 DEF Elsewhere, InBin
  <2> QED
    BY <2>1, <2>3, <2>4 DEF Elsewhere
<1>6. s8.landed = {s3'[b].text : b \in {c \in s8.gone : s3'[c].kind = "fact"}}
  <2>1. \A b \in s8.gone : s3'[b] = s3[b]
    BY <1>1, <1>2
  <2> QED
    BY <2>1 DEF RestorerOK
<1>7. \A b \in s8.gone : s3'[b].kind = "fact" =>
          /\ s1'[s3'[b].text[1]] = None
          /\ \A c \in s8.gone : s3'[c].kind = "fact" /\ s3'[c].text[1] = s3'[b].text[1] => c = b
  BY <1>1, <1>2, <1>3 DEF RestorerOK, Calm, Held
<1> QED
  BY <1>1, <1>2, <1>4, <1>5, <1>6, <1>7 DEF RestorerOK, InBin, Held

\* Nothing that was there is nowhere, when what leaves is in the bin or lost.
LEMMA StillThere ==
  ASSUME NEW m, AllThere(m),
         \A text : \A k \in Topics : Held(k) /\ text = <<k, s1[k].val>> => There(m, text)' \/ Lost(text)',
         \A text \in m.summaries : s2[text] # None => There(m, text)',
         \A text : \A b \in 1..m.bins : InBin(b) /\ text = s3[b].text => There(m, text)',
         \A text : Lost(text) => Lost(text)' \/ There(m, text)'
  PROVE  AllThere(m)'
<1> SUFFICES ASSUME NEW text PROVE Lost(text)' \/ There(m, text)'
  BY DEF AllThere, There, Lost, Held, InBin
<1>1. CASE Lost(text)
  BY <1>1
<1>2. CASE \E k \in Topics : Held(k) /\ text = <<k, s1[k].val>>
  BY <1>2
<1>3. CASE text \in m.summaries /\ s2[text] # None
  BY <1>3
<1>4. CASE \E b \in 1..m.bins : InBin(b) /\ s3[b].text = text
  BY <1>4
<1> QED
  BY <1>1, <1>2, <1>3, <1>4 DEF AllThere, There

\* A step that brings no fact back disturbs only what it rewrites.
LEMMA CalmStep ==
  ASSUME NEW m, MemoriesInv(m), TablesOK(m)', Calm(m), AllThere(m)'
  PROVE  /\ Numbered(m)'
         /\ s5' = s5 => ArchiverOK(m)'
         /\ s7' = s7 => ForgetterOK(m)'
         /\ s8' = s8 /\ (s2' = s2 \/ (s8.gone = {} /\ \A text \in m.summaries : s2[text] # None => s2'[text] # None)) => RestorerOK(m)'
         /\ s5' = s5 /\ s7' = s7 /\ s8' = s8 /\ s2' = s2 => MemoriesInv(m)'
<1>1. Numbered(m)'
  BY CalmNumbers DEF MemoriesInv
<1>2. s5' = s5 => ArchiverOK(m)'
  BY CalmArchiver DEF MemoriesInv
<1>3. s7' = s7 => ForgetterOK(m)'
  BY CalmForgetter DEF MemoriesInv
<1>4. s8' = s8 /\ (s2' = s2 \/ (s8.gone = {} /\ \A text \in m.summaries : s2[text] # None => s2'[text] # None)) => RestorerOK(m)'
  BY CalmRestorer DEF MemoriesInv
<1> QED
  BY <1>1, <1>2, <1>3, <1>4 DEF MemoriesInv

\* What a step puts into the bin stands in rows that were empty.
LEMMA ShelveFills ==
  ASSUME NEW m, Cast(m), TablesOK(m), Numbered(m), NEW S, S \subseteq FactShadow(m) \cup EpisodeShadow(m), Memories(m)!Shelve(S)
  PROVE  /\ s3' \in [1..m.bins -> FactShadow(m) \cup EpisodeShadow(m) \cup {None}]
         /\ s4' = [fact |-> s4.fact, episode |-> s4.episode, bin |-> s4'.bin] /\ s4'.bin \in Nat /\ s4'.bin >= 1
         /\ \A b \in 1..m.bins : InBin(b) => s3'[b] = s3[b]
         /\ \A b \in 1..m.bins : b >= s4'.bin => s3'[b] = None
         /\ \A x \in S : \E b \in 1..m.bins : ~InBin(b) /\ s3'[b] = x
<1>1. PICK after \in s4.bin..m.bins + 1 : \E shelf \in Memories(m)!Numberings(S, s4.bin, after) :
         /\ s3' = [b \in 1..m.bins |-> IF b \in DOMAIN shelf THEN shelf[b] ELSE s3[b]]
         /\ s4' = [s4 EXCEPT !.bin = after]
  BY DEF Memories!Shelve, Memories!Bids
<1>2. PICK shelf \in Memories(m)!Numberings(S, s4.bin, after) :
         /\ s3' = [b \in 1..m.bins |-> IF b \in DOMAIN shelf THEN shelf[b] ELSE s3[b]]
         /\ s4' = [s4 EXCEPT !.bin = after]
  BY <1>1
<1>3. s4.bin \in Nat /\ s4.bin >= 1 /\ after \in Nat /\ s4.bin <= after /\ after <= m.bins + 1 /\ m.bins \in Nat
  BY <1>1 DEF TablesOK, Cast
<1>4. s4' = [fact |-> s4.fact, episode |-> s4.episode, bin |-> after]
  BY <1>2 DEF TablesOK
<1>5. shelf \in [s4.bin..after - 1 -> S] /\ {shelf[i] : i \in DOMAIN shelf} = S
  BY <1>2 DEF Memories!Numberings
<1>6. \A b \in 1..m.bins : b >= s4.bin => ~InBin(b)
  BY DEF Numbered
<1>7. ASSUME NEW b \in 1..m.bins, InBin(b) PROVE s3'[b] = s3[b]
  <2>1. b \notin DOMAIN shelf
    BY <1>3, <1>5, <1>6, <1>7
  <2> QED
    BY <1>2, <2>1
<1>8. ASSUME NEW b \in 1..m.bins, b >= after PROVE s3'[b] = None
  <2>1. b \notin DOMAIN shelf /\ b >= s4.bin
    BY <1>3, <1>5, <1>8
  <2> QED
    BY <1>2, <1>6, <2>1 DEF InBin
<1>9. ASSUME NEW x \in S PROVE \E b \in 1..m.bins : ~InBin(b) /\ s3'[b] = x
  <2>1. PICK b \in s4.bin..after - 1 : shelf[b] = x
    BY <1>5
  <2>2. b \in 1..m.bins /\ b \in DOMAIN shelf /\ b >= s4.bin
    BY <1>3, <1>5, <2>1
  <2> QED
    BY <1>2, <1>6, <2>1, <2>2
<1>10. s3' \in [1..m.bins -> FactShadow(m) \cup EpisodeShadow(m) \cup {None}]
  <2>1. \A b \in 1..m.bins : s3'[b] \in FactShadow(m) \cup EpisodeShadow(m) \cup {None}
    BY <1>2, <1>5 DEF TablesOK
  <2> QED
    BY <1>2, <2>1
<1> QED
  BY <1>3, <1>4, <1>7, <1>8, <1>9, <1>10

\* Facts of the keys in D leave, into the bin or for good.
LEMMA FactsLeave ==
  ASSUME NEW m, MemoriesInv(m), NEW D, s1' = [k \in Topics |-> IF k \in D THEN None ELSE s1[k]],
         s3' \in [1..m.bins -> FactShadow(m) \cup EpisodeShadow(m) \cup {None}],
         s4' = [fact |-> s4.fact, episode |-> s4.episode, bin |-> s4'.bin], s4'.bin \in Nat, s4'.bin >= 1,
         \A b \in 1..m.bins : InBin(b) => s3'[b] = s3[b],
         \A b \in 1..m.bins : b >= s4'.bin => s3'[b] = None,
         \A text : Lost(text) => Lost(text)',
         \A text : \A k \in Topics : k \in D /\ Held(k) /\ text = <<k, s1[k].val>> =>
            Lost(text)' \/ \E b \in 1..m.bins : s3'[b] # None /\ s3'[b].text = text
  PROVE  /\ s1' \in [Topics -> Fact(m) \cup {None}] /\ Calm(m)
         /\ s2' = s2 => AllThere(m)'
<1>1. s1' \in [Topics -> Fact(m) \cup {None}]
  BY DEF MemoriesInv, TablesOK
<1>2. Calm(m)
  BY DEF Calm, MemoriesInv, TablesOK, InBin
<1>3. ASSUME s2' = s2 PROVE AllThere(m)'
  <2>1. ASSUME NEW k \in Topics, NEW text, Held(k), text = <<k, s1[k].val>> PROVE There(m, text)' \/ Lost(text)'
    <3>1. CASE k \in D
      BY <2>1, <3>1 DEF There, InBin
    <3>2. CASE k \notin D
      <4>1. s1'[k] = s1[k]
        BY <3>2
      <4> QED
        BY <2>1, <4>1 DEF There, Held
    <3> QED
      BY <3>1, <3>2
  <2>2. \A text \in m.summaries : s2[text] # None => There(m, text)'
    BY <1>3 DEF There
  <2>3. \A text : \A b \in 1..m.bins : InBin(b) /\ text = s3[b].text => There(m, text)'
    BY DEF There, InBin
  <2> QED
    BY <2>1, <2>2, <2>3, StillThere DEF MemoriesInv
<1> QED
  BY <1>1, <1>2, <1>3

------------------------------------------------------------------------------
(* Archiving *)

LEMMA GrowOldIsSafe == ASSUME NEW m, Cast(m), MemoriesInv(m), NEW k \in Topics, Memories(m)!GrowOld(k) PROVE MemoriesInv(m)'
<1>1. s1' = [s1 EXCEPT ![k].old = TRUE] /\ Held(k) /\ UNCHANGED <<s2, s3, s4, s5, s6, s7, s8, s9>>
  BY DEF Memories!GrowOld, Memories!Present, Held
<1>2. s1 \in [Topics -> Fact(m) \cup {None}] /\ s1[k] \in Fact(m)
  BY <1>1 DEF MemoriesInv, TablesOK, Held
<1> DEFINE row == [s1[k] EXCEPT !.old = TRUE]
<1>3. row \in Fact(m) /\ row.id = s1[k].id /\ row.val = s1[k].val
  BY <1>2 DEF Fact
<1>4. s1' = [s1 EXCEPT ![k] = row]
  BY <1>1
<1> HIDE DEF row
<1>5. s1' \in [Topics -> Fact(m) \cup {None}] /\ \A j \in Topics : s1'[j] = IF j = k THEN row ELSE s1[j]
  BY <1>2, <1>3, <1>4
<1>6. TablesOK(m)'
  BY <1>1, <1>5 DEF MemoriesInv, TablesOK, Fact, FactShadow, EpisodeShadow
<1>7. Calm(m)
  BY <1>1, <1>3, <1>5 DEF Calm, Held, MemoriesInv, Numbered, Lost, InBin
<1>8. \A j \in Topics : Held(j) => Held(j)' /\ s1'[j].val = s1[j].val
  <2>1. row # None
    BY <1>3 DEF Cast, Fact
  <2> QED
    BY <1>3, <1>5, <2>1 DEF Held
<1>9. AllThere(m)'
  <2>1. \A text : Lost(text) => Lost(text)'
    BY <1>1 DEF Lost
  <2>2. \A text : There(m, text) => There(m, text)'
    BY <1>1, <1>8 DEF There, InBin
  <2>3. \A text : Lost(text)' => Lost(text)
    BY <1>1 DEF Lost
  <2> QED
    BY <2>1, <2>2, <2>3 DEF MemoriesInv, AllThere
<1> QED
  BY <1>1, <1>6, <1>7, <1>9, CalmStep

\* A step that touches no table and no text.
LEMMA TablesStay ==
  ASSUME NEW m, MemoriesInv(m), UNCHANGED <<s1, s2, s3, s4, s9>>
  PROVE  /\ s5' = [pc |-> s5'.pc, rows |-> s5'.rows] /\ s7' = [pc |-> s7'.pc, key |-> s7'.key, row |-> s7'.row, purge |-> s7'.purge]
            /\ s8' = [pc |-> s8'.pc, todo |-> s8'.todo, kind |-> s8'.kind, bid |-> s8'.bid, counted |-> s8'.counted, landed |-> s8'.landed, gone |-> s8'.gone]
            => TablesOK(m)'
         /\ Calm(m) /\ AllThere(m)'
<1>1. Calm(m)
  BY DEF Calm, MemoriesInv, Numbered, InBin, Lost
<1>2. AllThere(m)'
  BY DEF MemoriesInv, AllThere, Lost, There, Held, InBin
<1> QED
  BY <1>1, <1>2 DEF MemoriesInv, TablesOK, Fact, FactShadow, EpisodeShadow

LEMMA ArchiveSelectsIsSafe == ASSUME NEW m, Cast(m), MemoriesInv(m), Memories(m)!ArchiveSelects PROVE MemoriesInv(m)'
<1>1. /\ UNCHANGED <<s1, s2, s3, s4, s6, s7, s8, s9>>
      /\ s5' = [pc |-> "selected", rows |-> {<<k, s1[k]>> : k \in Memories(m)!Archivable}]
  BY DEF Memories!ArchiveSelects
<1>2. TablesOK(m)' /\ Calm(m) /\ AllThere(m)'
  <2>1. TablesOK(m)
    BY DEF MemoriesInv
  <2> QED
    BY <1>1, <2>1, TablesStay DEF TablesOK
<1>3. ArchiverOK(m)'
  <2> SUFFICES ASSUME NEW r0 \in s5'.rows PROVE r0 \in Topics \X Fact(m) /\ ReadOnce(m, r0[1], r0[2])'
    BY DEF ArchiverOK, Fact, ReadOnce, Held, Lost
  <2>1. PICK k \in Topics : r0 = <<k, s1[k]>> /\ Held(k)
    BY <1>1 DEF Memories!Archivable, Memories!Present, Held
  <2>2. s1[k] \in Fact(m) /\ s1[k].id < s4.fact
    BY <2>1 DEF MemoriesInv, TablesOK, Numbered, Held
  <2>3. \A j \in Topics : Held(j) /\ s1[j].id = s1[k].id => j = k
    BY <2>1 DEF MemoriesInv, Numbered
  <2>4. r0[1] = k /\ r0[2] = s1[k]
    BY <2>1
  <2> QED
    BY <1>1, <2>1, <2>2, <2>3, <2>4 DEF ReadOnce, Held, Lost, Fact
<1> QED
  BY <1>1, <1>2, <1>3, CalmStep DEF MemoriesInv

LEMMA WithoutLeave ==
  ASSUME NEW m, MemoriesInv(m), NEW ids
  PROVE  Memories(m)!Without(ids) = [k \in Topics |-> IF k \in {j \in Topics : Held(j) /\ s1[j].id \in ids} THEN None ELSE s1[k]]
  BY DEF Memories!Without, Memories!Present, Held

LEMMA ArchiveRunsIsSafe == ASSUME NEW m, Cast(m), MemoriesInv(m), Memories(m)!ArchiveRuns PROVE MemoriesInv(m)'
<1> DEFINE S == {Memories(m)!Shadow(r0[1], r0[2]) : r0 \in s5.rows}
           ids == {r0[2].id : r0 \in s5.rows}
           D == {j \in Topics : Held(j) /\ s1[j].id \in ids}
<1>1. /\ Memories(m)!Shelve(S) /\ s1' = Memories(m)!Without(ids) /\ s5' = [pc |-> "idle", rows |-> {}]
      /\ UNCHANGED <<s2, s6, s7, s8, s9>>
  BY DEF Memories!ArchiveRuns
<1>2. \A r0 \in s5.rows : /\ r0 \in Topics \X Fact(m) /\ ReadOnce(m, r0[1], r0[2])
                          /\ Memories(m)!Shadow(r0[1], r0[2]) \in FactShadow(m)
                          /\ Memories(m)!Shadow(r0[1], r0[2]).text = <<r0[1], r0[2].val>>
  <2> SUFFICES ASSUME NEW r0 \in s5.rows
               PROVE /\ r0 \in Topics \X Fact(m) /\ ReadOnce(m, r0[1], r0[2])
                     /\ Memories(m)!Shadow(r0[1], r0[2]) \in FactShadow(m)
                     /\ Memories(m)!Shadow(r0[1], r0[2]).text = <<r0[1], r0[2].val>>
    OBVIOUS
  <2>1. r0 \in Topics \X Fact(m) /\ ReadOnce(m, r0[1], r0[2])
    BY DEF MemoriesInv, ArchiverOK
  <2>2. r0[1] \in Topics /\ r0[2].id \in Nat /\ r0[2].val \in m.values
    BY <2>1 DEF Fact
  <2> QED
    BY <2>1, <2>2 DEF Memories!Shadow, FactShadow
<1>3. S \subseteq FactShadow(m) \cup EpisodeShadow(m)
  BY <1>2
<1> HIDE DEF S
<1>4. /\ s3' \in [1..m.bins -> FactShadow(m) \cup EpisodeShadow(m) \cup {None}]
      /\ s4' = [fact |-> s4.fact, episode |-> s4.episode, bin |-> s4'.bin] /\ s4'.bin \in Nat /\ s4'.bin >= 1
      /\ \A b \in 1..m.bins : InBin(b) => s3'[b] = s3[b]
      /\ \A b \in 1..m.bins : b >= s4'.bin => s3'[b] = None
      /\ \A x \in S : \E b \in 1..m.bins : ~InBin(b) /\ s3'[b] = x
  BY <1>1, <1>3, ShelveFills DEF MemoriesInv
<1>5. s1' = [k \in Topics |-> IF k \in D THEN None ELSE s1[k]]
  BY <1>1, WithoutLeave
<1>6. ASSUME NEW k \in Topics, NEW text, k \in D, Held(k), text = <<k, s1[k].val>>
      PROVE  Lost(text)' \/ \E b \in 1..m.bins : s3'[b] # None /\ s3'[b].text = text
  <2>1. PICK r0 \in s5.rows : s1[k].id = r0[2].id
    BY <1>6
  <2>2. k = r0[1] /\ (s1[k].val = r0[2].val \/ Lost(text))
    BY <1>2, <1>6, <2>1 DEF ReadOnce
  <2>3. CASE Lost(text)
    BY <1>1, <2>3 DEF Lost
  <2>4. CASE s1[k].val = r0[2].val
    <3> DEFINE x == Memories(m)!Shadow(r0[1], r0[2])
    <3>1. x \in S /\ x.text = text /\ x \in FactShadow(m)
      BY <1>2, <1>6, <2>2, <2>4 DEF S
    <3> HIDE DEF x
    <3>2. x # None
      BY <3>1 DEF Cast, FactShadow
    <3> QED
      BY <1>4, <3>1, <3>2
  <2> QED
    BY <2>2, <2>3, <2>4
<1> HIDE DEF D, ids
<1>7. s2' = s2 /\ \A text : Lost(text) => Lost(text)'
  BY <1>1 DEF Lost
<1>a. \A text : \A k \in Topics : k \in D /\ Held(k) /\ text = <<k, s1[k].val>> =>
         Lost(text)' \/ \E b \in 1..m.bins : s3'[b] # None /\ s3'[b].text = text
  BY <1>6
<1>b. s1' \in [Topics -> Fact(m) \cup {None}] /\ Calm(m) /\ (s2' = s2 => AllThere(m)')
  BY <1>4, <1>5, <1>7, <1>a, FactsLeave
<1>8. s1' \in [Topics -> Fact(m) \cup {None}] /\ Calm(m) /\ AllThere(m)'
  BY <1>7, <1>b
<1>9. TablesOK(m)'
  BY <1>1, <1>4, <1>8 DEF MemoriesInv, TablesOK, Fact, FactShadow, EpisodeShadow
<1>10. ArchiverOK(m)'
  BY <1>1 DEF ArchiverOK
<1> QED
  BY <1>1, <1>8, <1>9, <1>10, CalmStep DEF MemoriesInv

LEMMA ArchiveEntriesIsSafe == ASSUME NEW m, Cast(m), MemoriesInv(m), Memories(m)!ArchiveEntries PROVE MemoriesInv(m)'
<1> DEFINE D == {j \in Topics : Held(j) /\ s1[j].id \in s6}
           S == {Memories(m)!Shadow(k, s1[k]) : k \in D}
<1>1. /\ Memories(m)!Shelve(S) /\ s1' = Memories(m)!Without(s6) /\ UNCHANGED <<s2, s5, s7, s8, s9>>
  BY DEF Memories!ArchiveEntries, Memories!Taken, Memories!Present, Held
<1>2. \A k \in D : /\ Memories(m)!Shadow(k, s1[k]) \in FactShadow(m)
                   /\ Memories(m)!Shadow(k, s1[k]).text = <<k, s1[k].val>>
  <2> SUFFICES ASSUME NEW k \in D PROVE /\ Memories(m)!Shadow(k, s1[k]) \in FactShadow(m)
                                        /\ Memories(m)!Shadow(k, s1[k]).text = <<k, s1[k].val>>
    OBVIOUS
  <2>1. k \in Topics /\ s1[k] \in Fact(m)
    BY DEF MemoriesInv, TablesOK, Held
  <2>2. s1[k].id \in Nat /\ s1[k].val \in m.values
    BY <2>1 DEF Fact
  <2> QED
    BY <2>1, <2>2 DEF Memories!Shadow, FactShadow
<1>3. S \subseteq FactShadow(m) \cup EpisodeShadow(m)
  BY <1>2
<1>4. \A k \in D : Memories(m)!Shadow(k, s1[k]) \in S
  OBVIOUS
<1> HIDE DEF S
<1>5. /\ s3' \in [1..m.bins -> FactShadow(m) \cup EpisodeShadow(m) \cup {None}]
      /\ s4' = [fact |-> s4.fact, episode |-> s4.episode, bin |-> s4'.bin] /\ s4'.bin \in Nat /\ s4'.bin >= 1
      /\ \A b \in 1..m.bins : InBin(b) => s3'[b] = s3[b]
      /\ \A b \in 1..m.bins : b >= s4'.bin => s3'[b] = None
      /\ \A x \in S : \E b \in 1..m.bins : ~InBin(b) /\ s3'[b] = x
  BY <1>1, <1>3, ShelveFills DEF MemoriesInv
<1>6. s1' = [k \in Topics |-> IF k \in D THEN None ELSE s1[k]]
  BY <1>1, WithoutLeave
<1> HIDE DEF D
<1>7. ASSUME NEW k \in Topics, NEW text, k \in D, Held(k), text = <<k, s1[k].val>>
      PROVE  Lost(text)' \/ \E b \in 1..m.bins : s3'[b] # None /\ s3'[b].text = text
  <2> DEFINE x == Memories(m)!Shadow(k, s1[k])
  <2>1. x \in S /\ x.text = text /\ x \in FactShadow(m)
    BY <1>2, <1>4, <1>7
  <2> HIDE DEF x
  <2>2. x # None
    BY <2>1 DEF Cast, FactShadow
  <2> QED
    BY <1>5, <2>1, <2>2
<1>8. \A text : Lost(text) => Lost(text)'
  BY <1>1 DEF Lost
<1>9. s1' \in [Topics -> Fact(m) \cup {None}] /\ Calm(m) /\ AllThere(m)'
  BY <1>1, <1>5, <1>6, <1>7, <1>8, FactsLeave
<1>10. TablesOK(m)'
  BY <1>1, <1>5, <1>9 DEF MemoriesInv, TablesOK, Fact, FactShadow, EpisodeShadow
<1> QED
  BY <1>1, <1>9, <1>10, CalmStep DEF MemoriesInv

LEMMA ArchiveFailsIsSafe ==
  ASSUME NEW m, MemoriesInv(m), Memories(m)!ArchiveFails \/ Memories(m)!Approve
  PROVE  MemoriesInv(m)'
<1>1. UNCHANGED <<s1, s2, s3, s4, s7, s8, s9>> /\ (s5' = [pc |-> "idle", rows |-> {}] \/ UNCHANGED s5)
  BY DEF Memories!ArchiveFails, Memories!Approve
<1>2. TablesOK(m)' /\ Calm(m) /\ AllThere(m)'
  <2>1. TablesOK(m)
    BY DEF MemoriesInv
  <2> QED
    BY <1>1, <2>1, TablesStay DEF TablesOK
<1>3. s5' = [pc |-> "idle", rows |-> {}] => ArchiverOK(m)'
  BY DEF ArchiverOK
<1> QED
  BY <1>1, <1>2, <1>3, CalmStep DEF MemoriesInv

LEMMA ArchiveEpisodeIsSafe ==
  ASSUME NEW m, Cast(m), MemoriesInv(m), NEW text \in m.summaries, Memories(m)!ArchiveEpisode(text)
  PROVE  MemoriesInv(m)'
<1> DEFINE x == [id |-> s2[text], kind |-> "episode", text |-> text, purged |-> FALSE]
<1>1. /\ Memories(m)!Shelve({x}) /\ s2[text] # None /\ s2' = [s2 EXCEPT ![text] = None] /\ UNCHANGED <<s1, s5, s6, s7, s8, s9>>
      /\ s8.gone = {}
  BY DEF Memories!ArchiveEpisode, Memories!Locked
<1>2. x \in EpisodeShadow(m) /\ x.text = text /\ x.kind = "episode"
  BY <1>1 DEF EpisodeShadow, MemoriesInv, TablesOK
<1> HIDE DEF x
<1>3. x # None
  BY <1>2 DEF Cast, EpisodeShadow
<1>4. /\ s3' \in [1..m.bins -> FactShadow(m) \cup EpisodeShadow(m) \cup {None}]
      /\ s4' = [fact |-> s4.fact, episode |-> s4.episode, bin |-> s4'.bin] /\ s4'.bin \in Nat /\ s4'.bin >= 1
      /\ \A b \in 1..m.bins : InBin(b) => s3'[b] = s3[b]
      /\ \A b \in 1..m.bins : b >= s4'.bin => s3'[b] = None
      /\ \E b \in 1..m.bins : ~InBin(b) /\ s3'[b] = x
  <2> DEFINE S == {x}
  <2>1. S \subseteq FactShadow(m) \cup EpisodeShadow(m) /\ x \in S /\ Memories(m)!Shelve(S)
    BY <1>1, <1>2
  <2> HIDE DEF S
  <2> QED
    BY <2>1, ShelveFills DEF MemoriesInv
<1>5. Calm(m)
  BY <1>1, <1>4 DEF Calm, Lost
<1>6. \A other \in m.summaries : s2'[other] = IF other = text THEN None ELSE s2[other]
  BY <1>1 DEF MemoriesInv, TablesOK
<1>7. TablesOK(m)'
  BY <1>1, <1>4, <1>6 DEF MemoriesInv, TablesOK, Fact, FactShadow, EpisodeShadow
<1>8. AllThere(m)'
  <2>1. \A some : \A k \in Topics : Held(k) /\ some = <<k, s1[k].val>> => There(m, some)' \/ Lost(some)'
    BY <1>1 DEF There, Held
  <2>2. \A other \in m.summaries : s2[other] # None => There(m, other)'
    BY <1>2, <1>3, <1>4, <1>6 DEF There, InBin
  <2>3. \A some : \A b \in 1..m.bins : InBin(b) /\ some = s3[b].text => There(m, some)'
    BY <1>4 DEF There, InBin
  <2>4. \A some : Lost(some) => Lost(some)'
    BY <1>1 DEF Lost
  <2> QED
    BY <2>1, <2>2, <2>3, <2>4, StillThere DEF MemoriesInv
<1>9. RestorerOK(m)'
  <2>1. \A other \in m.summaries : s2[other] # None =>
           s2'[other] # None \/ \E c \in 1..m.bins : ~InBin(c) /\ s3'[c] # None /\ s3'[c].kind = "episode" /\ s3'[c].text = other
    BY <1>2, <1>3, <1>4, <1>6
  <2> QED
    BY <1>1, <1>5, <2>1, CalmRestorer DEF MemoriesInv
<1> QED
  BY <1>1, <1>5, <1>7, <1>8, <1>9, CalmStep DEF MemoriesInv

------------------------------------------------------------------------------
(* Saving and forgetting *)

LEMMA SaveEpisodeIsSafe ==
  ASSUME NEW m, Cast(m), MemoriesInv(m), NEW text \in m.summaries, Memories(m)!SaveEpisode(text)
  PROVE  MemoriesInv(m)'
<1>1. /\ s2[text] = None /\ s2' = [s2 EXCEPT ![text] = s4.episode] /\ s4' = [s4 EXCEPT !.episode = s4.episode + 1]
      /\ s9' = [s9 EXCEPT !.kept = s9.kept \cup {text}] /\ UNCHANGED <<s1, s3, s5, s6, s7, s8>> /\ s8.gone = {}
  BY DEF Memories!SaveEpisode, Memories!Locked
<1>2. s4.episode \in Nat /\ s4.episode # None
  BY DEF MemoriesInv, TablesOK, Cast
<1>3. \A other \in m.summaries : s2'[other] = IF other = text THEN s4.episode ELSE s2[other]
  BY <1>1 DEF MemoriesInv, TablesOK
<1>4. s4' = [fact |-> s4.fact, episode |-> s4.episode + 1, bin |-> s4.bin]
  BY <1>1 DEF MemoriesInv, TablesOK
<1>5. s9' = [kept |-> s9.kept \cup {text}, raced |-> s9.raced]
  BY <1>1 DEF MemoriesInv, TablesOK
<1>a. s2' \in [m.summaries -> Nat \cup {None}] /\ s4.episode + 1 \in Nat
  BY <1>1, <1>2 DEF MemoriesInv, TablesOK
<1>6. TablesOK(m)'
  BY <1>1, <1>4, <1>5, <1>a DEF MemoriesInv, TablesOK, Fact, FactShadow, EpisodeShadow
<1>7. \A some : some # text => (Lost(some) => Lost(some)')
  BY <1>5 DEF Lost
<1>8. \A k \in Topics, val \in m.values : <<k, val>> # text
  BY DEF Cast
<1>9. Calm(m)
  BY <1>1, <1>4, <1>7, <1>8 DEF Calm, MemoriesInv, Numbered, InBin
<1>10. AllThere(m)'
  <2>1. There(m, text)'
    BY <1>2, <1>3 DEF There
  <2>2. \A some : There(m, some) => There(m, some)'
    BY <1>1, <1>2, <1>3 DEF There, Held, InBin
  <2>3. ASSUME NEW some PROVE Lost(some)' \/ There(m, some)'
    <3>1. CASE some = text
      BY <2>1, <3>1
    <3>2. CASE some # text
      BY <1>7, <2>2, <3>2 DEF MemoriesInv, AllThere
    <3> QED
      BY <3>1, <3>2
  <2> QED
    BY <2>3 DEF AllThere
<1>11. \A other \in m.summaries : s2[other] # None => s2'[other] # None
  BY <1>1, <1>3
<1> QED
  BY <1>1, <1>6, <1>9, <1>10, <1>11, CalmStep DEF MemoriesInv

LEMMA ForgetReadsIsSafe ==
  ASSUME NEW m, Cast(m), MemoriesInv(m), NEW k \in Topics, NEW purge \in BOOLEAN, Memories(m)!ForgetReads(k, purge)
  PROVE  MemoriesInv(m)'
<1>1. /\ Held(k) /\ UNCHANGED <<s1, s2, s3, s4, s5, s6, s8, s9>>
      /\ s7' = [pc |-> "archive", key |-> k, row |-> s1[k], purge |-> purge]
  BY DEF Memories!ForgetReads, Memories!Present, Held
<1>2. TablesOK(m)' /\ Calm(m) /\ AllThere(m)'
  <2>1. TablesOK(m)
    BY DEF MemoriesInv
  <2> QED
    BY <1>1, <2>1, TablesStay DEF TablesOK
<1>3. s1[k] \in Fact(m) /\ s1[k].id < s4.fact /\ \A j \in Topics : Held(j) /\ s1[j].id = s1[k].id => j = k
  BY <1>1 DEF MemoriesInv, TablesOK, Numbered, Held
<1>4. ForgetterOK(m)'
  BY <1>1, <1>3 DEF ForgetterOK, ReadOnce, Held, Lost, Fact
<1> QED
  BY <1>1, <1>2, <1>4, CalmStep DEF MemoriesInv

LEMMA ForgetShelvesIsSafe == ASSUME NEW m, Cast(m), MemoriesInv(m), Memories(m)!ForgetShelves PROVE MemoriesInv(m)'
<1> DEFINE x == [Memories(m)!Shadow(s7.key, s7.row) EXCEPT !.purged = s7.purge]
<1>1. /\ Memories(m)!Shelve({x}) /\ s7.pc = "archive" /\ s7' = [s7 EXCEPT !.pc = "delete"]
      /\ UNCHANGED <<s1, s2, s5, s6, s8, s9>>
  BY DEF Memories!ForgetShelves
<1>2. s7.key \in Topics /\ s7.row \in Fact(m) /\ s7.purge \in BOOLEAN
  BY <1>1 DEF MemoriesInv, ForgetterOK, ReadOnce
<1>3. x \in FactShadow(m) /\ x.kind = "fact" /\ x.text = <<s7.key, s7.row.val>>
  <2>1. s7.row.id \in Nat /\ s7.row.val \in m.values
    BY <1>2 DEF Fact
  <2>2. Memories(m)!Shadow(s7.key, s7.row) = [id |-> s7.row.id, kind |-> "fact", text |-> <<s7.key, s7.row.val>>, purged |-> FALSE]
    BY DEF Memories!Shadow
  <2>3. x = [id |-> s7.row.id, kind |-> "fact", text |-> <<s7.key, s7.row.val>>, purged |-> s7.purge]
    BY <2>2
  <2> QED
    BY <1>2, <2>1, <2>3 DEF FactShadow
<1> HIDE DEF x
<1>4. x # None
  BY <1>3 DEF Cast, FactShadow
<1>5. /\ s3' \in [1..m.bins -> FactShadow(m) \cup EpisodeShadow(m) \cup {None}]
      /\ s4' = [fact |-> s4.fact, episode |-> s4.episode, bin |-> s4'.bin] /\ s4'.bin \in Nat /\ s4'.bin >= 1
      /\ \A b \in 1..m.bins : InBin(b) => s3'[b] = s3[b]
      /\ \A b \in 1..m.bins : b >= s4'.bin => s3'[b] = None
      /\ \E b \in 1..m.bins : ~InBin(b) /\ s3'[b] = x
  <2> DEFINE S == {x}
  <2>1. S \subseteq FactShadow(m) \cup EpisodeShadow(m) /\ x \in S /\ Memories(m)!Shelve(S)
    BY <1>1, <1>3
  <2> HIDE DEF S
  <2> QED
    BY <2>1, ShelveFills DEF MemoriesInv
<1>6. s7' = [pc |-> "delete", key |-> s7.key, row |-> s7.row, purge |-> s7.purge]
  BY <1>1 DEF MemoriesInv, TablesOK
<1>7. Calm(m)
  BY <1>1, <1>5 DEF Calm, Lost
<1>8. TablesOK(m)'
  BY <1>1, <1>5, <1>6 DEF MemoriesInv, TablesOK, Fact, FactShadow, EpisodeShadow
<1>9. AllThere(m)'
  <2>1. \A some : There(m, some) => There(m, some)'
    BY <1>1, <1>5 DEF There, Held, InBin
  <2> QED
    BY <1>1, <2>1 DEF MemoriesInv, AllThere, Lost
<1>10. ForgetterOK(m)'
  <2>1. ReadOnce(m, s7.key, s7.row)
    BY <1>1 DEF MemoriesInv, ForgetterOK
  <2>2. ReadOnce(m, s7.key, s7.row)'
    <3> DEFINE key == s7.key
               row == s7.row
    <3> HIDE DEF key, row
    <3>1. ReadOnce(m, key, row)
      BY <2>1 DEF key, row
    <3>2. key' = key /\ row' = row
      BY <1>6 DEF key, row
    <3> QED
      BY <1>1, <1>5, <1>6, <3>1 DEF ReadOnce, Held, Lost, Fact, key, row
  <2>3. ~s7.purge /\ Held(s7.key) => Lost(<<s7.key, s1[s7.key].val>>) \/ s1[s7.key].val = s7.row.val
    BY <1>1 DEF MemoriesInv, ForgetterOK
  <2> QED
    BY <1>1, <1>2, <1>3, <1>4, <1>5, <1>6, <2>2, <2>3 DEF ForgetterOK, Held, InBin, Lost
<1> QED
  BY <1>1, <1>7, <1>8, <1>9, <1>10, CalmStep DEF MemoriesInv

LEMMA ForgottenAreLost ==
  ASSUME NEW m, TablesOK(m), NEW T, Memories(m)!Forgotten(T)
  PROVE  /\ s9' = [kept |-> s9'.kept, raced |-> s9'.raced]
         /\ \A text : Lost(text) => Lost(text)'
         /\ \A text \in T : Lost(text)'
  BY DEF Memories!Forgotten, Lost, TablesOK

\* A forget ends: the facts it takes are in the bin, or were not to be kept.
LEMMA FactsAreDropped ==
  ASSUME NEW m, MemoriesInv(m), NEW D, s1' = [k \in Topics |-> IF k \in D THEN None ELSE s1[k]],
         s7' = s7 \/ s7' = Memories(m)!Nobody, UNCHANGED <<s2, s3, s4, s5, s8>>,
         s9' = [kept |-> s9'.kept, raced |-> s9'.raced],
         \A text : Lost(text) => Lost(text)',
         \A text : \A k \in Topics : k \in D /\ Held(k) /\ text = <<k, s1[k].val>> =>
            Lost(text)' \/ \E b \in 1..m.bins : InBin(b) /\ s3[b].text = text
  PROVE  MemoriesInv(m)'
<1>1. /\ s3' \in [1..m.bins -> FactShadow(m) \cup EpisodeShadow(m) \cup {None}]
      /\ s4' = [fact |-> s4.fact, episode |-> s4.episode, bin |-> s4'.bin] /\ s4'.bin \in Nat /\ s4'.bin >= 1
      /\ \A b \in 1..m.bins : InBin(b) => s3'[b] = s3[b]
      /\ \A b \in 1..m.bins : b >= s4'.bin => s3'[b] = None
  BY DEF MemoriesInv, TablesOK, Numbered, InBin
<1>2. \A text : \A k \in Topics : k \in D /\ Held(k) /\ text = <<k, s1[k].val>> =>
         Lost(text)' \/ \E b \in 1..m.bins : s3'[b] # None /\ s3'[b].text = text
  BY DEF InBin
<1>3. s1' \in [Topics -> Fact(m) \cup {None}] /\ Calm(m) /\ AllThere(m)'
  BY <1>1, <1>2, FactsLeave
<1>4. s7' = [pc |-> s7'.pc, key |-> s7'.key, row |-> s7'.row, purge |-> s7'.purge] /\ (s7' # s7 => s7'.pc = "idle")
  BY DEF MemoriesInv, TablesOK, Memories!Nobody
<1>5. TablesOK(m)'
  BY <1>1, <1>3, <1>4 DEF MemoriesInv, TablesOK, Fact, FactShadow, EpisodeShadow
<1>6. s7' # s7 => ForgetterOK(m)'
  BY <1>4 DEF ForgetterOK
<1> QED
  BY <1>3, <1>5, <1>6, CalmStep DEF MemoriesInv

LEMMA ForgetDeletesIsSafe == ASSUME NEW m, Cast(m), MemoriesInv(m), Memories(m)!ForgetDeletes PROVE MemoriesInv(m)'
<1>1. s7.pc = "delete" /\ s7' = Memories(m)!Nobody /\ UNCHANGED <<s2, s3, s4, s5, s6, s8>>
  BY DEF Memories!ForgetDeletes
<1>2. /\ s7.key \in Topics /\ s7.row \in Fact(m) /\ s7.purge \in BOOLEAN
      /\ \A j \in Topics : Held(j) /\ s1[j].id = s7.row.id => j = s7.key /\ (s1[j].val = s7.row.val \/ Lost(<<j, s1[j].val>>))
  BY <1>1 DEF MemoriesInv, ForgetterOK, ReadOnce
<1> DEFINE D == IF s7.purge THEN {j \in Topics : Held(j) /\ s1[j].id \in {s7.row.id}} ELSE {s7.key}
           T == {<<s7.key, s7.row.val>>} \cap Memories(m)!Live
<1>3. CASE s7.purge
  <2>1. s1' = [k \in Topics |-> IF k \in D THEN None ELSE s1[k]]
    BY <1>3, WithoutLeave DEF Memories!ForgetDeletes
  <2>2. Memories(m)!Forgotten(T)
    BY <1>3 DEF Memories!ForgetDeletes
  <2>3. ASSUME NEW k \in Topics, NEW text, k \in D, Held(k), text = <<k, s1[k].val>> PROVE Lost(text) \/ text \in T
    <3>1. k = s7.key /\ (s1[k].val = s7.row.val \/ Lost(<<k, s1[k].val>>))
      BY <1>2, <1>3, <2>3
    <3>2. text \in Memories(m)!Live
      BY <2>3 DEF Memories!Live, Memories!Present, Held
    <3> QED
      BY <2>3, <3>1, <3>2
  <2> HIDE DEF D, T
  <2>4. /\ s9' = [kept |-> s9'.kept, raced |-> s9'.raced]
        /\ \A text : Lost(text) => Lost(text)'
        /\ \A text \in T : Lost(text)'
    BY <2>2, ForgottenAreLost DEF MemoriesInv
  <2>5. \A text : \A k \in Topics : k \in D /\ Held(k) /\ text = <<k, s1[k].val>> => Lost(text)'
    BY <2>3, <2>4
  <2> QED
    BY <1>1, <2>1, <2>4, <2>5, FactsAreDropped
<1>4. CASE ~s7.purge
  <2>1. s1' = [k \in Topics |-> IF k \in D THEN None ELSE s1[k]] /\ UNCHANGED s9
    BY <1>2, <1>4 DEF Memories!ForgetDeletes, MemoriesInv, TablesOK
  <2>2. \A k \in Topics : k \in D => k = s7.key
    BY <1>4
  <2>3. Held(s7.key) => \/ Lost(<<s7.key, s1[s7.key].val>>)
                        \/ \E b \in 1..m.bins : InBin(b) /\ s3[b].text = <<s7.key, s1[s7.key].val>>
    BY <1>1, <1>4 DEF MemoriesInv, ForgetterOK
  <2> HIDE DEF D
  <2>4. /\ s9' = [kept |-> s9'.kept, raced |-> s9'.raced]
        /\ \A text : Lost(text) => Lost(text)'
    BY <2>1 DEF Lost, MemoriesInv, TablesOK
  <2>5. \A text : \A k \in Topics : k \in D /\ Held(k) /\ text = <<k, s1[k].val>> =>
           Lost(text)' \/ \E b \in 1..m.bins : InBin(b) /\ s3[b].text = text
    BY <2>1, <2>2, <2>3 DEF Lost
  <2> QED
    BY <1>1, <2>1, <2>4, <2>5, FactsAreDropped
<1> QED
  BY <1>2, <1>3, <1>4

LEMMA ForgetFailsIsSafe == ASSUME NEW m, MemoriesInv(m), Memories(m)!ForgetFails PROVE MemoriesInv(m)'
<1>1. UNCHANGED <<s1, s2, s3, s4, s5, s8, s9>> /\ s7' = Memories(m)!Nobody
  BY DEF Memories!ForgetFails
<1>2. TablesOK(m)' /\ Calm(m) /\ AllThere(m)'
  <2>1. TablesOK(m)
    BY DEF MemoriesInv
  <2> QED
    BY <1>1, <2>1, TablesStay DEF TablesOK, Memories!Nobody
<1>3. ForgetterOK(m)'
  BY <1>1 DEF ForgetterOK, Memories!Nobody
<1> QED
  BY <1>1, <1>2, <1>3, CalmStep DEF MemoriesInv

LEMMA ForgetRecentIsSafe == ASSUME NEW m, MemoriesInv(m), Memories(m)!ForgetRecent PROVE MemoriesInv(m)'
<1> DEFINE D == {k \in Topics : Held(k) /\ ~s1[k].old}
           T == {<<k, s1[k].val>> : k \in D}
<1>1. /\ s1' = [k \in Topics |-> IF k \in D THEN None ELSE s1[k]] /\ Memories(m)!Forgotten(T)
      /\ UNCHANGED <<s2, s3, s4, s5, s7, s8>>
  BY DEF Memories!ForgetRecent, Memories!Present, Held
<1>2. \A text : \A k \in Topics : k \in D /\ text = <<k, s1[k].val>> => text \in T
  OBVIOUS
<1> HIDE DEF D, T
<1>3. /\ s9' = [kept |-> s9'.kept, raced |-> s9'.raced]
      /\ \A text : Lost(text) => Lost(text)'
      /\ \A text \in T : Lost(text)'
  BY <1>1, ForgottenAreLost DEF MemoriesInv
<1> QED
  BY <1>1, <1>2, <1>3, FactsAreDropped

LostNow(text) == text \notin s9'.kept \ s9'.raced

\* The new fact has a fresh id, and whoever had its row in hand knows it raced.
LEMMA SaveIsSafe ==
  ASSUME NEW m, Cast(m), MemoriesInv(m), NEW k \in Topics, NEW val \in m.values, Memories(m)!Save(k, val)
  PROVE  MemoriesInv(m)'
<1> DEFINE over == IF Held(k) THEN {<<k, s1[k].val>>} ELSE {}
           new == <<k, val>>
           hand == IF Memories(m)!InHand(k) THEN {new} ELSE {}
           half == [s1[k] EXCEPT !.val = val]
           row == IF Held(k) THEN [half EXCEPT !.old = FALSE] ELSE [id |-> s4.fact, val |-> val, old |-> FALSE]
<1>1. /\ s8.gone = {} /\ UNCHANGED <<s2, s3, s5, s6, s7, s8>>
      /\ s9' = [kept |-> (s9.kept \ over) \cup {new}, raced |-> (s9.raced \ (over \cup {new})) \cup hand]
  BY DEF Memories!Save, Memories!Locked, Memories!Present, Held
<1>2. s1 \in [Topics -> Fact(m) \cup {None}] /\ s4 = [fact |-> s4.fact, episode |-> s4.episode, bin |-> s4.bin] /\ s4.fact \in Nat
  BY DEF MemoriesInv, TablesOK
<1>3. /\ s1' = [s1 EXCEPT ![k] = row]
      /\ s4' = [fact |-> s4'.fact, episode |-> s4.episode, bin |-> s4.bin] /\ s4'.fact \in Nat /\ s4'.fact >= s4.fact
      /\ ~Held(k) => s4'.fact = s4.fact + 1
  <2>1. CASE Held(k)
    <3>1. s1[k] \in Fact(m)
      BY <1>2, <2>1 DEF Held
    <3>2. s1' = [s1 EXCEPT ![k] = [s1[k] EXCEPT !.val = val, !.old = FALSE]] /\ s4' = s4
      BY <2>1 DEF Memories!Save, Memories!Present, Held
    <3>3. [s1[k] EXCEPT !.val = val, !.old = FALSE] = [half EXCEPT !.old = FALSE]
      BY <3>1 DEF Fact
    <3>e. s1' = [s1 EXCEPT ![k] = row]
      BY <2>1, <3>2, <3>3
    <3>f. s4'.fact \in Nat /\ s4'.fact >= s4.fact /\ s4' = [fact |-> s4'.fact, episode |-> s4.episode, bin |-> s4.bin]
      BY <1>2, <3>2
    <3> QED
      BY <2>1, <3>e, <3>f
  <2>2. CASE ~Held(k)
    <3>1. s1' = [s1 EXCEPT ![k] = row] /\ s4' = [s4 EXCEPT !.fact = s4.fact + 1]
      BY <2>2 DEF Memories!Save, Memories!Present, Held
    <3> QED
      BY <1>2, <2>2, <3>1
  <2> QED
    BY <2>1, <2>2
<1>4. row \in Fact(m) /\ row # None /\ row.val = val /\ (Held(k) => row.id = s1[k].id) /\ (~Held(k) => row.id = s4.fact)
  <2>1. CASE Held(k)
    <3>1. half \in Fact(m) /\ half.id = s1[k].id /\ half.val = val
      BY <1>2, <2>1 DEF Held, Fact
    <3> HIDE DEF half
    <3>2. row \in Fact(m) /\ row.id = s1[k].id /\ row.val = val
      BY <2>1, <3>1 DEF Fact
    <3> HIDE DEF row
    <3> QED
      BY <2>1, <3>2 DEF Cast, Fact
  <2>2. CASE ~Held(k)
    <3>1. row = [id |-> s4.fact, val |-> val, old |-> FALSE]
      BY <2>2
    <3> HIDE DEF row
    <3>2. row \in Fact(m) /\ row.id = s4.fact /\ row.val = val
      BY <1>2, <3>1 DEF Fact
    <3> QED
      BY <2>2, <3>2 DEF Cast, Fact
  <2> QED
    BY <2>1, <2>2
<1> HIDE DEF row
<1>5. s1' \in [Topics -> Fact(m) \cup {None}] /\ \A j \in Topics : s1'[j] = IF j = k THEN row ELSE s1[j]
  BY <1>2, <1>3, <1>4
<1>6. TablesOK(m)'
  <2>1. s9' = [kept |-> s9'.kept, raced |-> s9'.raced]
    BY <1>1
  <2> HIDE DEF over, new, hand
  <2> QED
    BY <1>1, <1>3, <1>5, <2>1 DEF MemoriesInv, TablesOK, Fact, FactShadow, EpisodeShadow
<1>7. Numbered(m)'
  <2>1. \A j \in Topics : Held(j) => s1[j].id \in Nat /\ s1[j].id < s4.fact
    BY <1>2 DEF MemoriesInv, Numbered, Held, Fact
  <2>2. \A j, i \in Topics : Held(j) /\ Held(i) /\ s1[j].id = s1[i].id => j = i
    BY DEF MemoriesInv, Numbered
  <2>3. \A j \in Topics : s1'[j] # None => s1'[j].id < s4'.fact
    BY <1>2, <1>3, <1>4, <1>5, <2>1 DEF Held
  <2>4. \A j, i \in Topics : s1'[j] # None /\ s1'[i] # None /\ s1'[j].id = s1'[i].id => j = i
    BY <1>2, <1>4, <1>5, <2>1, <2>2 DEF Held
  <2> QED
    BY <1>1, <1>3, <2>3, <2>4 DEF MemoriesInv, Numbered, Held, InBin
<1>8. \A text : text # new => (Lost(text) => LostNow(text))
  BY <1>1 DEF Lost, LostNow
<1>9. Memories(m)!InHand(k) => LostNow(new)
  BY <1>1 DEF LostNow
<1>10. \A j, value : j # k => <<j, value>> # new
  OBVIOUS
<1> HIDE DEF over, new, hand
<1>11. ASSUME NEW j, NEW other, ReadOnce(m, j, other),
              Held(k) /\ s1[k].id = other.id => Memories(m)!InHand(k)
       PROVE  ReadOnce(m, j, other)'
  <2>1. \A i \in Topics : Held(i) => s1[i].val \in m.values
    BY <1>2 DEF Held, Fact
  <2>2. j \in Topics /\ other \in Fact(m) /\ other.id \in Nat /\ other.id < s4.fact
    BY <1>11 DEF ReadOnce, Fact
  <2>3. ASSUME NEW i \in Topics, s1'[i] # None, s1'[i].id = other.id
        PROVE  i = j /\ (s1'[i].val = other.val \/ LostNow(<<i, s1'[i].val>>))
    <3>1. CASE i = k
      <4>1. Held(k) /\ s1[k].id = other.id
        BY <1>2, <1>4, <1>5, <2>2, <2>3, <3>1
      <4>2. s1'[i].val = val /\ LostNow(new)
        BY <1>4, <1>5, <1>9, <1>11, <3>1, <4>1
      <4> QED
        BY <1>11, <3>1, <4>1, <4>2 DEF ReadOnce, new
    <3>2. CASE i # k
      <4>1. s1'[i] = s1[i] /\ Held(i)
        BY <1>5, <2>3, <3>2 DEF Held
      <4> QED
        BY <1>8, <1>10, <1>11, <2>3, <3>2, <4>1 DEF ReadOnce
    <3> QED
      BY <3>1, <3>2
  <2> QED
    BY <1>2, <1>3, <2>2, <2>3 DEF ReadOnce, Held, Fact, Lost, LostNow
<1>12. ArchiverOK(m)'
  <2>1. ASSUME NEW r0 \in s5.rows PROVE r0 \in Topics \X Fact(m) /\ ReadOnce(m, r0[1], r0[2])'
    <3>1. r0 \in Topics \X Fact(m) /\ ReadOnce(m, r0[1], r0[2])
      BY DEF MemoriesInv, ArchiverOK
    <3>2. Held(k) /\ s1[k].id = r0[2].id => Memories(m)!InHand(k)
      BY <3>1 DEF Memories!InHand, Memories!Present, Held, ReadOnce
    <3> QED
      BY <1>11, <3>1, <3>2
  <2> QED
    BY <1>1, <2>1 DEF ArchiverOK, Fact
<1>13. ForgetterOK(m)'
  <2> SUFFICES ASSUME s7.pc # "idle" PROVE ForgetterOK(m)'
    BY <1>1 DEF ForgetterOK
  <2>1. ReadOnce(m, s7.key, s7.row)
    BY DEF MemoriesInv, ForgetterOK
  <2> DEFINE key == s7.key
             read == s7.row
  <2>2. key' = key /\ read' = read /\ (k = key => Memories(m)!InHand(k))
    BY <1>1 DEF Memories!InHand
  <2> HIDE DEF key, read
  <2>3. ReadOnce(m, key, read) /\ (Held(k) /\ s1[k].id = read.id => k = key)
    BY <2>1 DEF key, read, ReadOnce
  <2>4. ASSUME ReadOnce(m, key, read)' PROVE ReadOnce(m, s7.key, s7.row)'
    BY <2>4 DEF key, read
  <2>5. ReadOnce(m, key, read)'
    <3>1. ASSUME NEW j, NEW other, ReadOnce(m, j, other), Held(k) /\ s1[k].id = other.id => Memories(m)!InHand(k)
          PROVE  ReadOnce(m, j, other)'
      BY <1>11, <3>1
    <3> QED
      BY <2>2, <2>3, <3>1 DEF ReadOnce
  <2>6. ~s7.purge /\ s1'[s7.key] # None =>
           \/ LostNow(<<s7.key, s1'[s7.key].val>>)
           \/ /\ s1'[s7.key].val = s7.row.val
              /\ s7.pc = "delete" => \E b \in 1..m.bins : InBin(b) /\ s3[b].kind = "fact" /\ s3[b].text = <<s7.key, s7.row.val>>
    <3>1. CASE s7.key = k
      BY <1>4, <1>5, <1>9, <2>2, <3>1 DEF key, new
    <3>2. CASE s7.key # k
      BY <1>5, <1>8, <1>10, <2>1, <3>2 DEF MemoriesInv, ForgetterOK, ReadOnce, Held
    <3> QED
      BY <3>1, <3>2
  <2>7. s7.purge \in BOOLEAN
    BY DEF MemoriesInv, ForgetterOK
  <2> QED
    BY <1>1, <2>4, <2>5, <2>6, <2>7 DEF ForgetterOK, Held, InBin, Lost, LostNow
<1>14. RestorerOK(m)'
  BY <1>1 DEF MemoriesInv, RestorerOK, Elsewhere, InBin
<1>15. AllThere(m)'
  <2>1. \A j \in Topics : Held(j) /\ j # k => s1'[j] = s1[j]
    BY <1>5
  <2>2. ASSUME NEW text PROVE Lost(text)' \/ There(m, text)'
    <3>1. CASE text = new
      BY <1>4, <1>5, <3>1 DEF There, Held, new
    <3>2. CASE Held(k) /\ text = <<k, s1[k].val>> /\ text # new
      BY <1>1, <3>2 DEF Lost, over
    <3>3. CASE There(m, text) /\ text # new /\ ~(Held(k) /\ text = <<k, s1[k].val>>)
      BY <1>1, <2>1, <3>3 DEF There, Held, InBin
    <3>4. CASE Lost(text) /\ text # new
      BY <1>8, <3>4 DEF Lost, LostNow
    <3> QED
      BY <3>1, <3>2, <3>3, <3>4 DEF MemoriesInv, AllThere
  <2> QED
    BY <2>2 DEF AllThere
<1> QED
  BY <1>6, <1>7, <1>12, <1>13, <1>14, <1>15 DEF MemoriesInv

------------------------------------------------------------------------------
(* restore_entries *)

IsRestorer(row) ==
    row = [pc |-> row.pc, todo |-> row.todo, kind |-> row.kind, bid |-> row.bid, counted |-> row.counted, landed |-> row.landed, gone |-> row.gone]

\* A step of the restorer alone.
LEMMA RestorerTurns ==
  ASSUME NEW m, MemoriesInv(m), UNCHANGED <<s1, s2, s3, s4, s5, s7, s9>>, IsRestorer(s8'), RestorerOK(m)'
  PROVE  MemoriesInv(m)'
<1>1. TablesOK(m)' /\ Calm(m) /\ AllThere(m)'
  <2>1. TablesOK(m)
    BY DEF MemoriesInv
  <2> QED
    BY <2>1, TablesStay DEF TablesOK, IsRestorer
<1> QED
  BY <1>1, CalmStep DEF MemoriesInv

LEMMA RestoreStartsIsSafe ==
  ASSUME NEW m, MemoriesInv(m), NEW ids, NEW kind, Memories(m)!RestoreStarts(ids, kind)
  PROVE  MemoriesInv(m)'
<1>1. UNCHANGED <<s1, s2, s3, s4, s5, s7, s9>>
  BY DEF Memories!RestoreStarts
<1>2. s8' = [pc |-> "next", todo |-> ids, kind |-> kind, bid |-> None, counted |-> {}, landed |-> {}, gone |-> {}]
  BY DEF Memories!RestoreStarts, Memories!AtRest
<1>3. RestorerOK(m)'
  BY <1>2 DEF RestorerOK
<1> QED
  BY <1>1, <1>2, <1>3, RestorerTurns DEF IsRestorer

LEMMA RestoreLooksIsSafe == ASSUME NEW m, Cast(m), MemoriesInv(m), Memories(m)!RestoreLooks PROVE MemoriesInv(m)'
<1>1. UNCHANGED <<s1, s2, s3, s4, s5, s7, s9>> /\ s8.pc = "next"
  BY DEF Memories!RestoreLooks
<1>2. RestorerOK(m) /\ IsRestorer(s8)
  BY DEF MemoriesInv, TablesOK, IsRestorer
<1>3. PICK i \in s8.todo :
         \/ \E b \in 1..m.bins : /\ Memories(m)!Matches(i) = {b} /\ Memories(m)!Accepted(b)
                                 /\ s8' = [s8 EXCEPT !.pc = "write", !.bid = b, !.todo = s8.todo \ {i}]
         \/ s8' = [s8 EXCEPT !.todo = s8.todo \ {i}]
  BY DEF Memories!RestoreLooks, Memories!Bids
<1> DEFINE rest == s8.todo \ {i}
<1>4. CASE s8' = [s8 EXCEPT !.todo = rest]
  <2> HIDE DEF rest
  <2>1. s8' = [pc |-> s8.pc, todo |-> rest, kind |-> s8.kind, bid |-> s8.bid, counted |-> s8.counted, landed |-> s8.landed, gone |-> s8.gone]
    BY <1>2, <1>4 DEF IsRestorer
  <2>2. RestorerOK(m)'
    BY <1>1, <1>2, <2>1 DEF RestorerOK, Elsewhere, InBin, Held
  <2> QED
    BY <1>1, <2>1, <2>2, RestorerTurns DEF IsRestorer
<1>5. ASSUME NEW b \in 1..m.bins, Memories(m)!Matches(i) = {b}, Memories(m)!Accepted(b),
             s8' = [s8 EXCEPT !.pc = "write", !.bid = b, !.todo = rest]
      PROVE  MemoriesInv(m)'
  <2>1. b \notin s8.gone /\ InBin(b) /\ ~s3[b].purged
    BY <1>5 DEF Memories!Matches, Memories!Filled, Memories!Bids, Memories!Accepted, Memories!Refused, InBin
  <2> HIDE DEF rest
  <2> DEFINE half == [s8 EXCEPT !.pc = "write"]
             more == [half EXCEPT !.bid = b]
  <2>2. s8' = [more EXCEPT !.todo = rest]
    BY <1>5
  <2>3. half = [pc |-> "write", todo |-> s8.todo, kind |-> s8.kind, bid |-> s8.bid, counted |-> s8.counted, landed |-> s8.landed, gone |-> s8.gone]
    BY <1>2 DEF IsRestorer
  <2> HIDE DEF half
  <2>4. more = [pc |-> "write", todo |-> s8.todo, kind |-> s8.kind, bid |-> b, counted |-> s8.counted, landed |-> s8.landed, gone |-> s8.gone]
    BY <2>3
  <2> HIDE DEF more
  <2>5. s8' = [pc |-> "write", todo |-> rest, kind |-> s8.kind, bid |-> b, counted |-> s8.counted, landed |-> s8.landed, gone |-> s8.gone]
    BY <2>2, <2>4
  <2>6. RestorerOK(m)'
    BY <1>1, <1>2, <2>1, <2>5 DEF RestorerOK, Elsewhere, InBin, Held
  <2> QED
    BY <1>1, <2>5, <2>6, RestorerTurns DEF IsRestorer
<1> QED
  BY <1>3, <1>4, <1>5

\* The row of the bin that a restore has just written is counted, and to go.
LEMMA CountedRow ==
  ASSUME NEW m, IsRestorer(s8)
  PROVE  Memories(m)!Counted = [pc |-> "next", todo |-> s8.todo, kind |-> s8.kind, bid |-> None,
                             counted |-> s8.counted \cup {s8.bid}, landed |-> s8.landed, gone |-> s8.gone \cup {s8.bid}]
<1> DEFINE counted == s8.counted \cup {s8.bid}
           gone == s8.gone \cup {s8.bid}
           h1 == [s8 EXCEPT !.pc = "next"]
           h2 == [h1 EXCEPT !.bid = None]
           h3 == [h2 EXCEPT !.counted = counted]
<1>1. Memories(m)!Counted = [h3 EXCEPT !.gone = gone]
  BY DEF Memories!Counted
<1>2. h1 = [pc |-> "next", todo |-> s8.todo, kind |-> s8.kind, bid |-> s8.bid, counted |-> s8.counted, landed |-> s8.landed, gone |-> s8.gone]
  BY DEF IsRestorer
<1> HIDE DEF h1
<1>3. h2 = [pc |-> "next", todo |-> s8.todo, kind |-> s8.kind, bid |-> None, counted |-> s8.counted, landed |-> s8.landed, gone |-> s8.gone]
  BY <1>2
<1> HIDE DEF h2, counted, gone
<1>4. h3 = [pc |-> "next", todo |-> s8.todo, kind |-> s8.kind, bid |-> None, counted |-> counted, landed |-> s8.landed, gone |-> s8.gone]
  BY <1>3
<1> HIDE DEF h3
<1>5. [h3 EXCEPT !.gone = gone] = [pc |-> "next", todo |-> s8.todo, kind |-> s8.kind, bid |-> None, counted |-> counted, landed |-> s8.landed, gone |-> gone]
  BY <1>4
<1> QED
  BY <1>1, <1>5 DEF counted, gone

LEMMA RestoreFactIsSafe == ASSUME NEW m, Cast(m), MemoriesInv(m), Memories(m)!RestoreFact PROVE MemoriesInv(m)'
<1> DEFINE bid == s8.bid
           text == s3[bid].text
<1>1. UNCHANGED <<s1, s2, s3, s4, s5, s7, s9>> /\ s8.pc = "write" /\ s3[bid].kind = "fact"
  BY DEF Memories!RestoreFact, Memories!InBin
<1>2. RestorerOK(m) /\ IsRestorer(s8)
  BY DEF MemoriesInv, TablesOK, IsRestorer
<1>3. bid \in 1..m.bins /\ bid \notin s8.gone /\ InBin(bid) /\ ~s3[bid].purged
  BY <1>1, <1>2 DEF RestorerOK
<1>4. s3[bid] \in FactShadow(m)
  BY <1>1, <1>3 DEF MemoriesInv, TablesOK, FactShadow, EpisodeShadow, InBin
<1>5. text = <<text[1], text[2]>> /\ text[1] \in Topics /\ text[2] \in m.values
  BY <1>4 DEF FactShadow
<1>6. CASE s8' = [s8 EXCEPT !.pc = "next", !.bid = None]
  <2> DEFINE half == [s8 EXCEPT !.pc = "next"]
  <2>1. s8' = [half EXCEPT !.bid = None]
    BY <1>6
  <2>2. half = [pc |-> "next", todo |-> s8.todo, kind |-> s8.kind, bid |-> s8.bid, counted |-> s8.counted, landed |-> s8.landed, gone |-> s8.gone]
    BY <1>2 DEF IsRestorer
  <2> HIDE DEF half
  <2>3. s8' = [pc |-> "next", todo |-> s8.todo, kind |-> s8.kind, bid |-> None, counted |-> s8.counted, landed |-> s8.landed, gone |-> s8.gone]
    BY <2>1, <2>2
  <2>4. RestorerOK(m)'
    BY <1>1, <1>2, <2>3 DEF RestorerOK, Elsewhere, InBin, Held
  <2> QED
    BY <1>1, <2>3, <2>4, RestorerTurns DEF IsRestorer
<1>7. CASE ~Memories(m)!KeyTaken(text[1]) /\ s8' = [Memories(m)!Counted EXCEPT !.landed = Memories(m)!Counted.landed \cup {text}]
  <2> DEFINE landed == s8.landed \cup {text}
             counted == s8.counted \cup {bid}
             gone == s8.gone \cup {bid}
             half == Memories(m)!Counted
  <2>1. half = [pc |-> "next", todo |-> s8.todo, kind |-> s8.kind, bid |-> None, counted |-> counted, landed |-> s8.landed, gone |-> gone]
    BY <1>2, CountedRow
  <2>2. s8' = [half EXCEPT !.landed = landed]
    <3>1. s8' = [half EXCEPT !.landed = half.landed \cup {text}]
      BY <1>7
    <3> HIDE DEF half
    <3>2. half.landed = s8.landed
      BY <2>1
    <3> QED
      BY <3>1, <3>2
  <2>3. \A val \in m.values : <<text[1], val>> \notin s8.landed
    BY <1>7 DEF Memories!KeyTaken
  <2>4. ~Held(text[1])
    BY <1>7 DEF Memories!KeyTaken, Memories!Present, Held
  <2> HIDE DEF half, landed, counted, gone
  <2>5. s8' = [pc |-> "next", todo |-> s8.todo, kind |-> s8.kind, bid |-> None, counted |-> counted, landed |-> landed, gone |-> gone]
    BY <2>1, <2>2
  <2>6. \A b \in s8.gone : s3[b].kind = "fact" => s3[b].text[1] # text[1]
    <3> SUFFICES ASSUME NEW b \in s8.gone, s3[b].kind = "fact", s3[b].text[1] = text[1] PROVE FALSE
      OBVIOUS
    <3>1. b \in 1..m.bins /\ InBin(b) /\ s3[b].text \in s8.landed
      BY <1>2 DEF RestorerOK
    <3>2. s3[b].text \in Topics \X m.values
      BY <3>1 DEF MemoriesInv, TablesOK, FactShadow, EpisodeShadow, InBin
    <3>3. s3[b].text = <<text[1], s3[b].text[2]>> /\ s3[b].text[2] \in m.values
      BY <3>2
    <3> QED
      BY <2>3, <3>1, <3>3
  <2>7. RestorerOK(m)'
    <3>1. gone \subseteq 1..m.bins /\ \A b \in gone : s3[b] # None /\ ~s3[b].purged
      BY <1>2, <1>3 DEF RestorerOK, gone, InBin
    <3>2. counted \subseteq gone
      BY <1>1, <1>2 DEF RestorerOK, gone, counted
    <3>3. landed = {s3[b].text : b \in {c \in gone : s3[c].kind = "fact"}}
      BY <1>1, <1>2 DEF RestorerOK, gone, landed
    <3>4. \A b \in gone : s3[b].kind = "fact" =>
             /\ s1[s3[b].text[1]] = None
             /\ \A c \in gone : s3[c].kind = "fact" /\ s3[c].text[1] = s3[b].text[1] => c = b
      BY <1>2, <2>4, <2>6 DEF RestorerOK, gone, Held
    <3>5. \A b \in gone : s3[b].kind = "episode" => Elsewhere(m, b, gone)
      BY <1>1, <1>2 DEF RestorerOK, gone, Elsewhere
    <3> QED
      BY <1>1, <2>5, <3>1, <3>2, <3>3, <3>4, <3>5 DEF RestorerOK, Elsewhere, InBin, Held
  <2> QED
    BY <1>1, <2>5, <2>7, RestorerTurns DEF IsRestorer
<1> QED
  BY <1>6, <1>7 DEF Memories!RestoreFact, Memories!InBin

LEMMA RestoreEpisodeIsSafe == ASSUME NEW m, Cast(m), MemoriesInv(m), Memories(m)!RestoreEpisode PROVE MemoriesInv(m)'
<1> DEFINE bid == s8.bid
           text == s3[bid].text
           number == s4.episode
<1>1. /\ s8.pc = "write" /\ s3[bid].kind = "episode" /\ s8.gone = {} /\ s8.landed = {} /\ s8' = [s8 EXCEPT !.pc = "saved"]
      /\ UNCHANGED <<s1, s3, s5, s7, s9>>
      /\ \/ s2[text] # None /\ UNCHANGED <<s2, s4>>
         \/ s2[text] = None /\ s2' = [s2 EXCEPT ![text] = number] /\ s4' = [s4 EXCEPT !.episode = number + 1]
  BY DEF Memories!RestoreEpisode, Memories!InBin, Memories!Locked
<1>2. RestorerOK(m) /\ IsRestorer(s8) /\ TablesOK(m) /\ number \in Nat /\ number # None /\ number + 1 \in Nat
  BY DEF MemoriesInv, TablesOK, IsRestorer, Cast
<1>3. bid \in 1..m.bins /\ bid \notin s8.gone /\ InBin(bid) /\ ~s3[bid].purged
  BY <1>1, <1>2 DEF RestorerOK
<1>4. text \in m.summaries
  BY <1>1, <1>3 DEF MemoriesInv, TablesOK, FactShadow, EpisodeShadow, InBin
<1> HIDE DEF number
<1>5. s8' = [pc |-> "saved", todo |-> s8.todo, kind |-> s8.kind, bid |-> s8.bid, counted |-> s8.counted, landed |-> s8.landed, gone |-> s8.gone]
  BY <1>1, <1>2 DEF IsRestorer
<1>6. s4' = [fact |-> s4.fact, episode |-> s4'.episode, bin |-> s4.bin] /\ s4'.episode \in Nat
  <2>1. s4 = [fact |-> s4.fact, episode |-> s4.episode, bin |-> s4.bin] /\ s4.episode \in Nat
    BY <1>2 DEF TablesOK
  <2> QED
    BY <1>1, <1>2, <2>1
<1>7. /\ s2' \in [m.summaries -> Nat \cup {None}]
      /\ s2'[text] # None /\ \A other \in m.summaries : s2[other] # None => s2'[other] # None
  BY <1>1, <1>2, <1>4 DEF TablesOK
<1>8. TablesOK(m)'
  BY <1>1, <1>2, <1>5, <1>6, <1>7 DEF TablesOK, Fact, FactShadow, EpisodeShadow
<1>9. Calm(m)
  BY <1>1, <1>6 DEF Calm, MemoriesInv, Numbered, InBin, Lost
<1>10. AllThere(m)'
  <2>1. \A some : There(m, some) => There(m, some)'
    BY <1>1, <1>7 DEF There, Held, InBin
  <2> QED
    BY <1>1, <2>1 DEF MemoriesInv, AllThere, Lost
<1>11. RestorerOK(m)'
  BY <1>1, <1>2, <1>3, <1>5, <1>7 DEF RestorerOK, Elsewhere, InBin, Held
<1> QED
  BY <1>1, <1>8, <1>9, <1>10, <1>11, CalmStep DEF MemoriesInv

LEMMA RestoreDropsShadowIsSafe == ASSUME NEW m, Cast(m), MemoriesInv(m), Memories(m)!RestoreDropsShadow PROVE MemoriesInv(m)'
<1> DEFINE bid == s8.bid
<1>1. UNCHANGED <<s1, s2, s3, s4, s5, s7, s9>> /\ s8.pc = "saved" /\ s8' = Memories(m)!Counted
  BY DEF Memories!RestoreDropsShadow
<1>2. RestorerOK(m) /\ IsRestorer(s8)
  BY DEF MemoriesInv, TablesOK, IsRestorer
<1>3. /\ bid \in 1..m.bins /\ InBin(bid) /\ ~s3[bid].purged /\ s3[bid].kind = "episode" /\ s8.gone = {}
      /\ Elsewhere(m, bid, {}) /\ s8.counted = {} /\ s8.landed = {}
  BY <1>1, <1>2 DEF RestorerOK
<1>4. s8' = [pc |-> "next", todo |-> s8.todo, kind |-> s8.kind, bid |-> None, counted |-> {bid}, landed |-> {}, gone |-> {bid}]
  BY <1>1, <1>2, <1>3, CountedRow
<1>5. Elsewhere(m, bid, {bid})
  BY <1>3 DEF Elsewhere
<1> HIDE DEF bid
<1>6. RestorerOK(m)'
  BY <1>1, <1>3, <1>4, <1>5 DEF RestorerOK, Elsewhere, InBin, Held
<1> QED
  BY <1>1, <1>4, <1>6, RestorerTurns DEF IsRestorer

LEMMA MemoriesCrashIsSafe == ASSUME NEW m, MemoriesInv(m), Memories(m)!Crash PROVE MemoriesInv(m)'
<1>1. /\ UNCHANGED <<s1, s2, s3, s4, s9>> /\ s8' = Memories(m)!AtRest /\ s7' = Memories(m)!Nobody
      /\ s5' = [pc |-> "idle", rows |-> {}]
  BY DEF Memories!Crash
<1>2. TablesOK(m)' /\ Calm(m) /\ AllThere(m)'
  BY <1>1, TablesStay DEF Memories!Nobody, Memories!AtRest
<1>3. ArchiverOK(m)' /\ ForgetterOK(m)' /\ RestorerOK(m)'
  BY <1>1 DEF ArchiverOK, ForgetterOK, RestorerOK, Memories!Nobody, Memories!AtRest
<1> QED
  BY <1>2, <1>3, CalmStep DEF MemoriesInv


\* The end of a restore: the facts of the rows in gone come back under new ids,
\* and these rows leave the bin.
Key(b) == s3[b].text[1]

ThereNow(m, text) ==
    \/ \E k \in Topics : s1'[k] # None /\ text = <<k, s1'[k].val>>
    \/ text \in m.summaries /\ s2'[text] # None
    \/ \E b \in 1..m.bins : s3'[b] # None /\ s3'[b].text = text

LEMMA ReturnBringsBack ==
  ASSUME NEW m, Cast(m), MemoriesInv(m), s8.pc \in {"next", "write", "saved"}, Memories(m)!Return(s8.gone)
  PROVE  /\ UNCHANGED <<s2, s5, s6, s7>>
         /\ s4' = [fact |-> s4'.fact, episode |-> s4.episode, bin |-> s4.bin] /\ s4'.fact \in Nat /\ s4'.fact >= s4.fact
         /\ s1' \in [Topics -> Fact(m) \cup {None}]
         /\ \A k \in Topics : Held(k) => s1'[k] = s1[k]
         /\ \A k \in Topics : s1'[k] = s1[k]
               \/ \E b \in s8.gone : /\ s3[b].kind = "fact" /\ Key(b) = k /\ s1'[k] # None /\ s1'[k].val = s3[b].text[2]
                                     /\ s1'[k].id >= s4.fact /\ s1'[k].id < s4'.fact
         /\ \A b \in s8.gone : s3[b].kind = "fact" => Key(b) \in Topics /\ s1'[Key(b)] # None /\ s3[b].text = <<Key(b), s1'[Key(b)].val>>
         /\ \A j, k \in Topics : s1'[j] # None /\ s1'[k] # None /\ s1'[j].id = s1'[k].id => j = k
<1> DEFINE G == {b \in s8.gone : s3[b].kind = "fact"}
<1>1. UNCHANGED <<s2, s5, s6, s7>>
  BY DEF Memories!Return
<1>2. PICK after \in s4.fact..MaxIds + 1 : \E back \in Memories(m)!Numberings(G, s4.fact, after) :
          /\ s1' = [k \in Topics |->
                 IF \E i \in DOMAIN back : s3[back[i]].text[1] = k
                 THEN LET i == CHOOSE j \in DOMAIN back : s3[back[j]].text[1] = k
                      IN  [id |-> i, val |-> s3[back[i]].text[2], old |-> FALSE]
                 ELSE s1[k]]
          /\ s4' = [s4 EXCEPT !.fact = after]
  BY DEF Memories!Return
<1>3. PICK back \in Memories(m)!Numberings(G, s4.fact, after) :
          /\ s1' = [k \in Topics |->
                 IF \E i \in DOMAIN back : Key(back[i]) = k
                 THEN LET i == CHOOSE j \in DOMAIN back : Key(back[j]) = k
                      IN  [id |-> i, val |-> s3[back[i]].text[2], old |-> FALSE]
                 ELSE s1[k]]
          /\ s4' = [s4 EXCEPT !.fact = after]
  BY <1>2 DEF Key
<1>4. s4.fact \in Nat /\ after \in Nat /\ after >= s4.fact /\ s4' = [fact |-> after, episode |-> s4.episode, bin |-> s4.bin]
  <2>1. MaxIds \in Nat /\ s4.fact \in Nat
    BY MemoriesAssumption DEF MemoriesInv, TablesOK
  <2>2. s4 = [fact |-> s4.fact, episode |-> s4.episode, bin |-> s4.bin]
    BY DEF MemoriesInv, TablesOK
  <2>3. after \in Nat /\ after >= s4.fact
    BY <2>1
  <2>4. s4' = [fact |-> after, episode |-> s4.episode, bin |-> s4.bin]
    BY <1>3, <2>2
  <2> QED
    BY <2>1, <2>3, <2>4
<1>5. /\ back \in [s4.fact..after - 1 -> G] /\ DOMAIN back = s4.fact..after - 1 /\ {back[i] : i \in DOMAIN back} = G
  BY <1>3 DEF Memories!Numberings
<1>6. ASSUME NEW b \in G
      PROVE  /\ s3[b] \in FactShadow(m) /\ ~Held(Key(b)) /\ b \in s8.gone
             /\ \A c \in G : Key(c) = Key(b) => c = b
  <2>1. b \in 1..m.bins /\ InBin(b)
    BY DEF MemoriesInv, RestorerOK
  <2>2. s3[b] \in FactShadow(m)
    BY <2>1 DEF MemoriesInv, TablesOK, FactShadow, EpisodeShadow, InBin
  <2> QED
    BY <2>2 DEF MemoriesInv, RestorerOK, Key
<1>7. ASSUME NEW b \in G
      PROVE  Key(b) \in Topics /\ s3[b].text = <<Key(b), s3[b].text[2]>> /\ s3[b].text[2] \in m.values
  BY <1>6 DEF FactShadow, Key
<1> DEFINE Row(i) == [id |-> i, val |-> s3[back[i]].text[2], old |-> FALSE]
<1>8. ASSUME NEW k \in Topics, \E i \in DOMAIN back : Key(back[i]) = k
      PROVE  \E i \in DOMAIN back : Key(back[i]) = k /\ s1'[k] = Row(i)
  <2> DEFINE i == CHOOSE j \in DOMAIN back : Key(back[j]) = k
  <2>1. i \in DOMAIN back /\ Key(back[i]) = k
    BY <1>8
  <2>2. s1'[k] = Row(i)
    BY <1>3, <1>8
  <2> QED
    BY <2>1, <2>2
<1>9. ASSUME NEW k \in Topics, ~\E i \in DOMAIN back : Key(back[i]) = k
      PROVE  s1'[k] = s1[k]
  BY <1>3, <1>9
<1>10. ASSUME NEW i \in DOMAIN back
       PROVE  /\ back[i] \in G /\ i \in Nat /\ i >= s4.fact /\ i < after /\ Row(i) \in Fact(m) /\ Row(i) # None
              /\ Row(i).id = i /\ Row(i).val = s3[back[i]].text[2]
  <2>1. back[i] \in G /\ i \in Nat /\ i >= s4.fact /\ i < after
    BY <1>4, <1>5
  <2>2. Row(i) \in Fact(m)
    BY <1>7, <2>1 DEF Fact
  <2> QED
    BY <2>1, <2>2 DEF Cast, Fact
<1> HIDE DEF Row
<1>11. \A k \in Topics : Held(k) => s1'[k] = s1[k]
  BY <1>6, <1>9, <1>10
<1>12. s1' \in [Topics -> Fact(m) \cup {None}]
  <2>1. \A k \in Topics : s1'[k] \in Fact(m) \cup {None}
    BY <1>8, <1>9, <1>10 DEF MemoriesInv, TablesOK
  <2>2. s1' = [k \in Topics |-> s1'[k]]
    BY <1>3
  <2> QED
    BY <2>1, <2>2
<1>13. ASSUME NEW k \in Topics
       PROVE  s1'[k] = s1[k]
               \/ \E b \in s8.gone : /\ s3[b].kind = "fact" /\ Key(b) = k /\ s1'[k] # None /\ s1'[k].val = s3[b].text[2]
                                     /\ s1'[k].id >= s4.fact /\ s1'[k].id < after
  <2>1. CASE \E i \in DOMAIN back : Key(back[i]) = k
    <3>1. PICK i \in DOMAIN back : Key(back[i]) = k /\ s1'[k] = Row(i)
      BY <1>8, <2>1
    <3> QED
      BY <1>10, <3>1
  <2> QED
    BY <1>9, <2>1
<1>14. ASSUME NEW b \in G PROVE Key(b) \in Topics /\ s1'[Key(b)] # None /\ s3[b].text = <<Key(b), s1'[Key(b)].val>>
  <2>1. \E i \in DOMAIN back : Key(back[i]) = Key(b)
    BY <1>5
  <2>2. PICK i \in DOMAIN back : Key(back[i]) = Key(b) /\ s1'[Key(b)] = Row(i)
    BY <1>7, <1>8, <2>1
  <2>3. back[i] = b
    BY <1>6, <1>10, <2>2
  <2> QED
    BY <1>7, <1>10, <2>2, <2>3
<1>15. ASSUME NEW j \in Topics, NEW k \in Topics, s1'[j] # None, s1'[k] # None, s1'[j].id = s1'[k].id PROVE j = k
  <2>1. CASE \E i \in DOMAIN back : Key(back[i]) = j
    <3>1. PICK i \in DOMAIN back : Key(back[i]) = j /\ s1'[j] = Row(i)
      BY <1>8, <2>1
    <3>2. CASE \E g \in DOMAIN back : Key(back[g]) = k
      <4>1. PICK g \in DOMAIN back : Key(back[g]) = k /\ s1'[k] = Row(g)
        BY <1>8, <3>2
      <4> QED
        BY <1>10, <1>15, <3>1, <4>1
    <3>3. CASE ~\E g \in DOMAIN back : Key(back[g]) = k
      <4>1. s1[k].id < s4.fact /\ s1[k].id \in Nat /\ s1'[k] = s1[k]
        BY <1>9, <1>15, <3>3 DEF MemoriesInv, Numbered, TablesOK, Held, Fact
      <4> QED
        BY <1>4, <1>10, <1>15, <3>1, <4>1
    <3> QED
      BY <3>2, <3>3
  <2>2. CASE ~\E i \in DOMAIN back : Key(back[i]) = j
    <3>1. s1[j].id < s4.fact /\ s1[j].id \in Nat /\ s1'[j] = s1[j]
      BY <1>9, <1>15, <2>2 DEF MemoriesInv, Numbered, TablesOK, Held, Fact
    <3>2. CASE \E g \in DOMAIN back : Key(back[g]) = k
      <4>1. PICK g \in DOMAIN back : Key(back[g]) = k /\ s1'[k] = Row(g)
        BY <1>8, <3>2
      <4> QED
        BY <1>4, <1>10, <1>15, <3>1, <4>1
    <3>3. CASE ~\E g \in DOMAIN back : Key(back[g]) = k
      BY <1>9, <1>15, <3>1, <3>3 DEF MemoriesInv, Numbered, Held
    <3> QED
      BY <3>2, <3>3
  <2> QED
    BY <2>1, <2>2
<1> QED
  BY <1>1, <1>4, <1>11, <1>12, <1>13, <1>14, <1>15

LEMMA ReturnIsSafe ==
  ASSUME NEW m, Cast(m), MemoriesInv(m), s8.pc \in {"next", "write", "saved"}, Memories(m)!Return(s8.gone)
  PROVE  MemoriesInv(m)' /\ Memories(m)!RestoreTellsTheTruth
<1> DEFINE Raced == {s3[b].text : b \in {c \in s8.gone : s3[c].kind = "fact" /\ s3[c].text[1] = s7.key}}
<1>1. /\ UNCHANGED <<s2, s5, s6, s7>>
      /\ s4' = [fact |-> s4'.fact, episode |-> s4.episode, bin |-> s4.bin] /\ s4'.fact \in Nat /\ s4'.fact >= s4.fact
      /\ s1' \in [Topics -> Fact(m) \cup {None}]
      /\ \A k \in Topics : Held(k) => s1'[k] = s1[k]
      /\ \A k \in Topics : s1'[k] = s1[k]
            \/ \E b \in s8.gone : /\ s3[b].kind = "fact" /\ Key(b) = k /\ s1'[k] # None /\ s1'[k].val = s3[b].text[2]
                                  /\ s1'[k].id >= s4.fact /\ s1'[k].id < s4'.fact
      /\ \A b \in s8.gone : s3[b].kind = "fact" => Key(b) \in Topics /\ s1'[Key(b)] # None /\ s3[b].text = <<Key(b), s1'[Key(b)].val>>
      /\ \A j, k \in Topics : s1'[j] # None /\ s1'[k] # None /\ s1'[j].id = s1'[k].id => j = k
  BY ReturnBringsBack
<1>2. /\ s3' = [b \in 1..m.bins |-> IF b \in s8.gone THEN None ELSE s3[b]]
      /\ s8' = [Memories(m)!AtRest EXCEPT !.pc = "returned", !.counted = s8.counted]
      /\ s9' = [s9 EXCEPT !.raced = s9.raced \cup Raced]
  BY DEF Memories!Return, Memories!Bids
<1>3. TablesOK(m) /\ Numbered(m) /\ RestorerOK(m)
  BY DEF MemoriesInv
<1>4. s8' = [pc |-> "returned", todo |-> {}, kind |-> None, bid |-> None, counted |-> s8.counted, landed |-> {}, gone |-> {}]
  <2> DEFINE counted == s8.counted
             half == [Memories(m)!AtRest EXCEPT !.pc = "returned"]
  <2>1. s8' = [half EXCEPT !.counted = counted]
    BY <1>2
  <2>2. half = [pc |-> "returned", todo |-> {}, kind |-> None, bid |-> None, counted |-> {}, landed |-> {}, gone |-> {}]
    BY DEF Memories!AtRest
  <2> HIDE DEF half, counted
  <2>3. s8' = [pc |-> "returned", todo |-> {}, kind |-> None, bid |-> None, counted |-> counted, landed |-> {}, gone |-> {}]
    BY <2>1, <2>2
  <2> QED
    BY <2>3 DEF counted
<1>5. s9' = [kept |-> s9.kept, raced |-> s9.raced \cup Raced]
  <2> DEFINE raced == s9.raced \cup Raced
  <2>1. s9' = [s9 EXCEPT !.raced = raced]
    BY <1>2
  <2>2. s9 = [kept |-> s9.kept, raced |-> s9.raced]
    BY <1>3 DEF TablesOK
  <2> HIDE DEF raced
  <2>3. s9' = [kept |-> s9.kept, raced |-> raced]
    BY <2>1, <2>2
  <2> QED
    BY <2>3 DEF raced
<1>6. \A text : (Lost(text) \/ text \in Raced) => LostNow(text) /\ Lost(text)'
  BY <1>5 DEF Lost, LostNow
<1> HIDE DEF Raced
<1>7. s3' \in [1..m.bins -> FactShadow(m) \cup EpisodeShadow(m) \cup {None}]
  BY <1>2, <1>3 DEF TablesOK
<1>8. TablesOK(m)'
  BY <1>1, <1>3, <1>4, <1>5, <1>7 DEF TablesOK, Fact, FactShadow, EpisodeShadow
<1>9. Numbered(m)'
  <2>1. \A k \in Topics : s1'[k] # None => s1'[k].id < s4'.fact
    <3> SUFFICES ASSUME NEW k \in Topics, s1'[k] # None PROVE s1'[k].id < s4'.fact
      OBVIOUS
    <3>1. CASE s1'[k] = s1[k]
      <4>1. s1[k].id < s4.fact /\ s1[k].id \in Nat /\ s4.fact \in Nat
        BY <1>3, <3>1 DEF Numbered, Held, TablesOK, Fact
      <4> QED
        BY <1>1, <3>1, <4>1
    <3> QED
      BY <1>1, <3>1
  <2>2. \A b \in 1..m.bins : b >= s4'.bin => s3'[b] = None
    <3>1. s4'.bin = s4.bin
      BY <1>1
    <3> QED
      BY <1>2, <1>3, <3>1 DEF Numbered, InBin
  <2> QED
    BY <1>1, <2>1, <2>2 DEF Numbered, Held, InBin
<1>10. ASSUME NEW k, NEW row, ReadOnce(m, k, row) PROVE ReadOnce(m, k, row)'
  <2>1. row.id < s4'.fact
    <3>1. row.id < s4.fact /\ row.id \in Nat /\ s4.fact \in Nat
      BY <1>3, <1>10 DEF ReadOnce, Fact, TablesOK
    <3> QED
      BY <1>1, <3>1
  <2>2. ASSUME NEW j \in Topics, s1'[j] # None, s1'[j].id = row.id
        PROVE  j = k /\ (s1'[j].val = row.val \/ LostNow(<<j, s1'[j].val>>))
    <3>1. s1'[j] = s1[j]
      <4>1. row.id < s4.fact /\ row.id \in Nat /\ s4.fact \in Nat /\ s1'[j].id \in Nat
        BY <1>3, <1>10, <2>2 DEF ReadOnce, Fact, TablesOK
      <4>2. ~(s1'[j].id >= s4.fact)
        BY <2>2, <4>1
      <4> QED
        BY <1>1, <4>2
    <3>2. j = k /\ (s1[j].val = row.val \/ Lost(<<j, s1[j].val>>))
      BY <1>10, <2>2, <3>1 DEF ReadOnce, Held
    <3> QED
      BY <1>6, <3>1, <3>2
  <2> QED
    BY <1>10, <2>1, <2>2 DEF ReadOnce, Held, Fact, Lost, LostNow
<1>11. ArchiverOK(m)'
  <2>1. \A r0 \in s5.rows : ReadOnce(m, r0[1], r0[2])'
    BY <1>10 DEF MemoriesInv, ArchiverOK
  <2> QED
    BY <1>1, <2>1 DEF MemoriesInv, ArchiverOK, Fact
<1>12. ForgetterOK(m)'
  <2> SUFFICES ASSUME s7.pc # "idle" PROVE ForgetterOK(m)'
    BY <1>1 DEF ForgetterOK
  <2>1. ReadOnce(m, s7.key, s7.row) /\ s7.purge \in BOOLEAN
    BY DEF MemoriesInv, ForgetterOK
  <2>2. ReadOnce(m, s7.key, s7.row)'
    <3> DEFINE key == s7.key
               row == s7.row
    <3>1. key' = key /\ row' = row
      BY <1>1
    <3>2. ReadOnce(m, key, row)
      BY <2>1
    <3> HIDE DEF key, row
    <3>3. ASSUME NEW k, NEW old, ReadOnce(m, k, old) PROVE ReadOnce(m, k, old)'
      BY <1>10, <3>3
    <3> QED
      BY <3>1, <3>2, <3>3 DEF key, row, ReadOnce
  <2>3. ASSUME ~s7.purge, s1'[s7.key] # None
        PROVE  \/ LostNow(<<s7.key, s1'[s7.key].val>>)
               \/ /\ s1'[s7.key].val = s7.row.val
                  /\ s7.pc = "delete" => \E b \in 1..m.bins : s3'[b] # None /\ s3'[b].kind = "fact" /\ s3'[b].text = <<s7.key, s7.row.val>>
    <3>1. s7.key \in Topics
      BY <2>1 DEF ReadOnce
    <3>2. CASE ~Held(s7.key)
      <4>1. s1'[s7.key] # s1[s7.key]
        BY <2>3, <3>2 DEF Held
      <4>2. PICK b \in s8.gone : s3[b].kind = "fact" /\ Key(b) = s7.key /\ s1'[s7.key].val = s3[b].text[2]
        BY <1>1, <3>1, <4>1
      <4>3. s3[b].text \in Raced
        BY <4>2 DEF Raced, Key
      <4>4. s3[b].text = <<s7.key, s1'[s7.key].val>>
        BY <1>1, <4>2
      <4> QED
        BY <1>6, <4>3, <4>4
    <3>3. CASE Held(s7.key)
      <4>1. s1'[s7.key] = s1[s7.key]
        BY <1>1, <3>1, <3>3
      <4>2. CASE Lost(<<s7.key, s1[s7.key].val>>)
        BY <1>6, <4>1, <4>2
      <4>3. CASE ~Lost(<<s7.key, s1[s7.key].val>>)
        <5>1. /\ s1[s7.key].val = s7.row.val
              /\ s7.pc = "delete" => \E b \in 1..m.bins : InBin(b) /\ s3[b].kind = "fact" /\ s3[b].text = <<s7.key, s7.row.val>>
          BY <2>3, <3>3, <4>3 DEF MemoriesInv, ForgetterOK
        <5>2. ASSUME NEW b \in 1..m.bins, InBin(b), s3[b].kind = "fact", s3[b].text = <<s7.key, s7.row.val>>
              PROVE  s3'[b] = s3[b]
          <6>1. Key(b) = s7.key
            BY <5>2 DEF Key
          <6>2. b \notin s8.gone
            BY <1>3, <3>3, <5>2, <6>1 DEF RestorerOK, Key
          <6> QED
            BY <1>2, <6>2
        <5> QED
          BY <4>1, <5>1, <5>2 DEF InBin
      <4> QED
        BY <4>2, <4>3
    <3> QED
      BY <3>2, <3>3
  <2> QED
    BY <1>1, <2>1, <2>2, <2>3 DEF ForgetterOK, Held, InBin, Lost, LostNow
<1>13. RestorerOK(m)'
  BY <1>4 DEF RestorerOK
<1>14. ASSUME NEW b \in s8.gone PROVE ThereNow(m, s3[b].text)
  <2>1. b \in 1..m.bins /\ InBin(b)
    BY <1>3 DEF RestorerOK
  <2>2. CASE s3[b].kind = "fact"
    <3>1. \E k \in Topics : s1'[k] # None /\ s3[b].text = <<k, s1'[k].val>>
      BY <1>1, <2>2
    <3> QED
      BY <3>1 DEF ThereNow
  <2>3. CASE s3[b].kind = "episode"
    <3>1. s3[b].text \in m.summaries /\ Elsewhere(m, b, s8.gone)
      BY <1>3, <2>1, <2>3 DEF TablesOK, FactShadow, EpisodeShadow, InBin, RestorerOK
    <3>2. CASE s2[s3[b].text] # None
      BY <1>1, <3>1, <3>2 DEF ThereNow
    <3>3. CASE \E c \in 1..m.bins \ s8.gone : c # b /\ InBin(c) /\ s3[c].kind = "episode" /\ s3[c].text = s3[b].text
      <4>1. PICK c \in 1..m.bins : s3'[c] # None /\ s3'[c].text = s3[b].text
        BY <1>2, <3>3 DEF InBin
      <4> QED
        BY <4>1 DEF ThereNow
    <3> QED
      BY <3>1, <3>2, <3>3 DEF Elsewhere
  <2> QED
    BY <1>3, <2>1, <2>2, <2>3 DEF TablesOK, FactShadow, EpisodeShadow, InBin
<1>15. AllThere(m)'
  <2>1. \A text : \A k \in Topics : Held(k) /\ text = <<k, s1[k].val>> => There(m, text)' \/ Lost(text)'
    BY <1>1 DEF There, Held
  <2>2. \A text \in m.summaries : s2[text] # None => There(m, text)'
    BY <1>1 DEF There
  <2>3. \A text : \A b \in 1..m.bins : InBin(b) /\ text = s3[b].text => There(m, text)'
    <3> SUFFICES ASSUME NEW text, NEW b \in 1..m.bins, InBin(b), text = s3[b].text PROVE There(m, text)'
      OBVIOUS
    <3>1. CASE b \in s8.gone
      <4>1. ThereNow(m, text)
        BY <1>14, <3>1
      <4> QED
        BY <4>1 DEF There, ThereNow, Held, InBin
    <3>2. CASE b \notin s8.gone
      <4>1. s3'[b] = s3[b]
        BY <1>2, <3>2
      <4> QED
        BY <4>1 DEF There, InBin
    <3> QED
      BY <3>1, <3>2
  <2> QED
    BY <1>6, <2>1, <2>2, <2>3, StillThere DEF MemoriesInv
<1>16. Memories(m)!RestoreTellsTheTruth
  <2>1. s8'.counted = s8.counted /\ s8.counted \subseteq s8.gone /\ s8.gone \subseteq 1..m.bins
    BY <1>3, <1>4 DEF RestorerOK
  <2>2. ASSUME NEW b \in s8.gone PROVE s3'[b] = None /\ s3[b].text \in Memories(m)!Live' \cup Memories(m)!Binned'
    <3>1. s3'[b] = None
      BY <1>2, <2>1
    <3>2. ThereNow(m, s3[b].text)
      BY <1>14
    <3>3. \A text : ThereNow(m, text) => text \in Memories(m)!Live' \cup Memories(m)!Binned'
      BY DEF ThereNow, Memories!Live, Memories!Binned, Memories!Filled, Memories!Present, Memories!Bids
    <3> QED
      BY <3>1, <3>2, <3>3
  <2>3. ASSUME NEW b \in Memories(m)!Filled, s3[b].purged PROVE s3'[b] = s3[b]
    BY <1>2, <1>3, <2>3 DEF RestorerOK, Memories!Filled, Memories!Bids
  <2> QED
    BY <2>1, <2>2, <2>3 DEF Memories!RestoreTellsTheTruth
<1> QED
  BY <1>8, <1>9, <1>11, <1>12, <1>13, <1>15, <1>16 DEF MemoriesInv

\* No other step ends a restore, and none rewrites a row of the bin.
Otherwise(m) == /\ s8'.pc = s8.pc \/ s8'.pc # "returned"
                /\ \A b \in 1..m.bins : InBin(b) => s3'[b] = s3[b]

LEMMA OtherwiseTrue == ASSUME NEW m, Otherwise(m) PROVE Memories(m)!RestoreTellsTheTruth
  BY DEF Otherwise, InBin, Memories!RestoreTellsTheTruth, Memories!Filled, Memories!Bids

LEMMA ShelveKeeps ==
  ASSUME NEW m, Cast(m), TablesOK(m), Numbered(m), NEW S, Memories(m)!Shelve(S), s8' = s8
  PROVE  Otherwise(m)
<1>1. PICK after \in s4.bin..m.bins + 1 : \E shelf \in Memories(m)!Numberings(S, s4.bin, after) :
         s3' = [b \in 1..m.bins |-> IF b \in DOMAIN shelf THEN shelf[b] ELSE s3[b]]
  BY DEF Memories!Shelve, Memories!Bids
<1>2. PICK shelf \in Memories(m)!Numberings(S, s4.bin, after) :
         s3' = [b \in 1..m.bins |-> IF b \in DOMAIN shelf THEN shelf[b] ELSE s3[b]]
  BY <1>1
<1>3. DOMAIN shelf = s4.bin..after - 1
  BY <1>2 DEF Memories!Numberings
<1>4. ASSUME NEW b \in 1..m.bins, InBin(b) PROVE s3'[b] = s3[b]
  <2>1. b \notin DOMAIN shelf
    BY <1>3, <1>4 DEF Numbered, TablesOK, Cast
  <2> QED
    BY <1>2, <2>1
<1> QED
  BY <1>4 DEF Otherwise

LEMMA RestoreIsSafe ==
  ASSUME NEW m, Cast(m), MemoriesInv(m), Memories(m)!Restore
  PROVE  MemoriesInv(m)' /\ Memories(m)!RestoreTellsTheTruth
<1>1. TablesOK(m) /\ IsRestorer(s8)
  BY DEF MemoriesInv, TablesOK, IsRestorer
<1>2. ASSUME NEW ids, NEW kind, Memories(m)!RestoreStarts(ids, kind)
      PROVE  MemoriesInv(m)' /\ Memories(m)!RestoreTellsTheTruth
  <2>1. s8'.pc = "next" /\ s3' = s3
    BY <1>2 DEF Memories!RestoreStarts, Memories!AtRest
  <2> QED
    BY <1>2, <2>1, RestoreStartsIsSafe, OtherwiseTrue DEF Otherwise
<1>3. CASE Memories(m)!RestoreLooks
  <2>1. s3' = s3 /\ \E i \in s8.todo : \/ s8' = [s8 EXCEPT !.todo = s8.todo \ {i}]
                                       \/ \E b \in 1..m.bins : s8' = [s8 EXCEPT !.pc = "write", !.bid = b, !.todo = s8.todo \ {i}]
    BY <1>3 DEF Memories!RestoreLooks, Memories!Bids
  <2>2. ASSUME NEW rest, s8' = [s8 EXCEPT !.todo = rest] PROVE s8'.pc = s8.pc
    BY <1>1, <2>2 DEF IsRestorer
  <2>3. ASSUME NEW rest, NEW b, s8' = [s8 EXCEPT !.pc = "write", !.bid = b, !.todo = rest] PROVE s8'.pc = "write"
    <3> DEFINE half == [s8 EXCEPT !.pc = "write"]
               more == [half EXCEPT !.bid = b]
    <3>1. half.pc = "write" /\ half = [pc |-> half.pc, todo |-> half.todo, kind |-> half.kind, bid |-> half.bid, counted |-> half.counted, landed |-> half.landed, gone |-> half.gone]
      BY <1>1 DEF IsRestorer
    <3> HIDE DEF half
    <3>2. more.pc = "write" /\ more = [pc |-> more.pc, todo |-> more.todo, kind |-> more.kind, bid |-> more.bid, counted |-> more.counted, landed |-> more.landed, gone |-> more.gone]
      BY <3>1
    <3> HIDE DEF more
    <3>3. s8' = [more EXCEPT !.todo = rest]
      BY <2>3 DEF more, half
    <3> QED
      BY <3>2, <3>3
  <2>4. Otherwise(m)
    BY <2>1, <2>2, <2>3 DEF Otherwise
  <2> QED
    BY <1>3, <2>4, RestoreLooksIsSafe, OtherwiseTrue
<1>4. CASE Memories(m)!RestoreFact
  <2>1. s3' = s3 /\ s8.pc = "write"
    BY <1>4 DEF Memories!RestoreFact
  <2> DEFINE c == Memories(m)!Counted
  <2>2. c.pc = "next" /\ c = [pc |-> c.pc, todo |-> c.todo, kind |-> c.kind, bid |-> c.bid, counted |-> c.counted, landed |-> c.landed, gone |-> c.gone]
    BY <1>1, CountedRow
  <2>3. \E text : s8' = [c EXCEPT !.landed = c.landed \cup {text}] \/ s8' = [s8 EXCEPT !.pc = "next", !.bid = None]
    BY <1>4 DEF Memories!RestoreFact
  <2> HIDE DEF c
  <2>4. ASSUME NEW landed, s8' = [c EXCEPT !.landed = landed] PROVE s8'.pc = "next"
    BY <2>2, <2>4
  <2>5. ASSUME s8' = [s8 EXCEPT !.pc = "next", !.bid = None] PROVE s8'.pc = "next"
    BY <1>1, <2>5 DEF IsRestorer
  <2>6. s8'.pc = "next"
    BY <2>3, <2>4, <2>5
  <2>7. Otherwise(m)
    BY <2>1, <2>6 DEF Otherwise
  <2> QED
    BY <1>4, <2>7, RestoreFactIsSafe, OtherwiseTrue
<1>5. CASE Memories(m)!RestoreEpisode
  <2>1. s3' = s3 /\ s8' = [s8 EXCEPT !.pc = "saved"]
    BY <1>5 DEF Memories!RestoreEpisode
  <2>2. Otherwise(m)
    BY <1>1, <2>1 DEF Otherwise, IsRestorer
  <2> QED
    BY <1>5, <2>2, RestoreEpisodeIsSafe, OtherwiseTrue
<1>6. CASE Memories(m)!RestoreDropsShadow
  <2>1. s3' = s3 /\ s8' = Memories(m)!Counted
    BY <1>6 DEF Memories!RestoreDropsShadow
  <2>2. Otherwise(m)
    BY <1>1, <2>1, CountedRow DEF Otherwise
  <2> QED
    BY <1>6, <2>2, RestoreDropsShadowIsSafe, OtherwiseTrue
<1>7. CASE Memories(m)!RestoreEnds
  BY <1>7, ReturnIsSafe DEF Memories!RestoreEnds
<1>8. CASE Memories(m)!RestoreFails
  BY <1>8, ReturnIsSafe DEF Memories!RestoreFails, Memories!Committed
<1> QED
  BY <1>2, <1>3, <1>4, <1>5, <1>6, <1>7, <1>8 DEF Memories!Restore

LEMMA MemoriesNext ==
  ASSUME NEW m, Cast(m), MemoriesInv(m), [Memories(m)!Next]_(Memories(m)!vars)
  PROVE  MemoriesInv(m)' /\ Memories(m)!RestoreTellsTheTruth
<1>1. TablesOK(m) /\ Numbered(m)
  BY DEF MemoriesInv
<1>2. CASE UNCHANGED Memories(m)!vars
  <2>1. UNCHANGED <<s1, s2, s3, s4, s5, s6, s7, s8, s9>>
    BY <1>2 DEF Memories!vars
  <2>2. IsRestorer(s8') /\ RestorerOK(m)'
    BY <2>1 DEF MemoriesInv, TablesOK, IsRestorer, RestorerOK, Elsewhere, InBin, Held
  <2> QED
    BY <2>1, <2>2, RestorerTurns, OtherwiseTrue DEF Otherwise
<1>3. ASSUME NEW k \in Topics, NEW val \in m.values, Memories(m)!Save(k, val)
      PROVE  MemoriesInv(m)' /\ Memories(m)!RestoreTellsTheTruth
  BY <1>3, SaveIsSafe, OtherwiseTrue DEF Memories!Save, Otherwise
<1>4. ASSUME NEW k \in Topics, Memories(m)!GrowOld(k)
      PROVE  MemoriesInv(m)' /\ Memories(m)!RestoreTellsTheTruth
  BY <1>4, GrowOldIsSafe, OtherwiseTrue DEF Memories!GrowOld, Otherwise
<1>5. ASSUME NEW k \in Topics, NEW purge \in BOOLEAN, Memories(m)!ForgetReads(k, purge)
      PROVE  MemoriesInv(m)' /\ Memories(m)!RestoreTellsTheTruth
  BY <1>5, ForgetReadsIsSafe, OtherwiseTrue DEF Memories!ForgetReads, Otherwise
<1>6. ASSUME NEW text \in m.summaries, Memories(m)!SaveEpisode(text)
      PROVE  MemoriesInv(m)' /\ Memories(m)!RestoreTellsTheTruth
  BY <1>6, SaveEpisodeIsSafe, OtherwiseTrue DEF Memories!SaveEpisode, Otherwise
<1>7. ASSUME NEW text \in m.summaries, Memories(m)!ArchiveEpisode(text)
      PROVE  MemoriesInv(m)' /\ Memories(m)!RestoreTellsTheTruth
  <2>1. Otherwise(m)
    BY <1>1, <1>7, ShelveKeeps DEF Memories!ArchiveEpisode
  <2> QED
    BY <1>7, <2>1, ArchiveEpisodeIsSafe, OtherwiseTrue
<1>8. CASE Memories(m)!ArchiveSelects
  BY <1>8, ArchiveSelectsIsSafe, OtherwiseTrue DEF Memories!ArchiveSelects, Otherwise
<1>9. CASE Memories(m)!ArchiveRuns
  <2>1. Otherwise(m)
    BY <1>1, <1>9, ShelveKeeps DEF Memories!ArchiveRuns
  <2> QED
    BY <1>9, <2>1, ArchiveRunsIsSafe, OtherwiseTrue
<1>10. CASE Memories(m)!ArchiveFails
  BY <1>10, ArchiveFailsIsSafe, OtherwiseTrue DEF Memories!ArchiveFails, Otherwise
<1>11. CASE Memories(m)!Approve
  BY <1>11, ArchiveFailsIsSafe, OtherwiseTrue DEF Memories!Approve, Otherwise
<1>12. CASE Memories(m)!ArchiveEntries
  <2>1. Otherwise(m)
    BY <1>1, <1>12, ShelveKeeps DEF Memories!ArchiveEntries
  <2> QED
    BY <1>12, <2>1, ArchiveEntriesIsSafe, OtherwiseTrue
<1>13. CASE Memories(m)!ForgetShelves
  <2>1. Otherwise(m)
    BY <1>1, <1>13, ShelveKeeps DEF Memories!ForgetShelves
  <2> QED
    BY <1>13, <2>1, ForgetShelvesIsSafe, OtherwiseTrue
<1>14. CASE Memories(m)!ForgetDeletes
  BY <1>14, ForgetDeletesIsSafe, OtherwiseTrue DEF Memories!ForgetDeletes, Otherwise
<1>15. CASE Memories(m)!ForgetFails
  BY <1>15, ForgetFailsIsSafe, OtherwiseTrue DEF Memories!ForgetFails, Otherwise
<1>16. CASE Memories(m)!ForgetRecent
  BY <1>16, ForgetRecentIsSafe, OtherwiseTrue DEF Memories!ForgetRecent, Otherwise
<1>17. CASE Memories(m)!Restore
  BY <1>17, RestoreIsSafe
<1>18. CASE Memories(m)!Crash
  BY <1>18, MemoriesCrashIsSafe, OtherwiseTrue DEF Memories!Crash, Memories!AtRest, Otherwise
<1> QED
  BY <1>2, <1>3, <1>4, <1>5, <1>6, <1>7, <1>8, <1>9, <1>10, <1>11, <1>12, <1>13, <1>14, <1>15, <1>16, <1>17, <1>18
     DEF Memories!Next

LEMMA MemoryCasts == Cast(Plain) /\ Cast(Overwriting)
<1>1. Cast(Plain)
  BY MemoriesAssumption DEF Cast, Plain
<1>2. Cast(Overwriting)
  BY MemoriesAssumption DEF Cast, Overwriting
<1> QED
  BY <1>1, <1>2

------------------------------------------------------------------------------
(* The migration of layers *)

Fingerprint(x) == s5[x].man.print

\* The base has left b behind: a node that b has elsewhere is in agent, for good.
LeftBehind(b) == \E n \in Nodes : b.layer[n] # "agent" /\ s1.layer[n] = "agent"

IsRow(x) == s5[x] = [pc |-> s5[x].pc, man |-> s5[x].man, level |-> s5[x].level, moves |-> s5[x].moves]

MigrationTables ==
    /\ s1 = [layer |-> s1.layer, other |-> s1.other] /\ s1.layer = [n \in Nodes |-> s1.layer[n]]
    /\ s5 = [x \in Migrations |-> s5[x]] /\ \A x \in Migrations : IsRow(x)
    /\ s7 = [temp |-> s7.temp, final |-> s7.final]

\* Who is between its lock and its end holds the lock alone.
LockHeld == \A x \in Migrations : s5[x].pc \in {"locked", "verified", "moved", "reported"} => s4 = x

\* A run past its probe moves what was approved, at least one node, each in user
\* when the manifest was taken.
Approved ==
    \A x \in Migrations : s5[x].pc # "idle" =>
        /\ s5[x].moves # {} /\ s5[x].moves \subseteq Nodes
        /\ \A n \in s5[x].moves : s5[x].man.cand[n] # None /\ s5[x].man.cand[n].decision # "exclude"
                                 /\ Fingerprint(x).layer[n] = "user"

\* Under the lock the base is what the manifest was taken of, and is kept.
Verified ==
    \A x \in Migrations : s5[x].pc \in {"verified", "moved", "reported"} => s1 = Fingerprint(x) /\ s1 \in s6

Reported == \A x \in Migrations : s5[x].pc = "reported" => LayerMigration!Report(x) \in s7.temp

OnRecord ==
    \A c \in s8 : /\ c.before \in s6 /\ c.report \in s7.temp \cup s7.final
                  /\ c.before = c.report.man.print /\ LeftBehind(c.before)

Installing == \A x \in Migrations : s5[x].pc = "committed" => \E c \in s8 : c.report = LayerMigration!Report(x)

MigrationInv == MigrationTables /\ LockHeld /\ Approved /\ Verified /\ Reported /\ OnRecord /\ Installing

LEMMA MigrationHolds == MigrationInv => LayerMigration!EveryMoveIsOnRecord
  BY DEF MigrationInv, OnRecord, LayerMigration!EveryMoveIsOnRecord

LEMMA MigrationInit == LayerMigration!Init => MigrationInv
<1> SUFFICES ASSUME LayerMigration!Init PROVE MigrationInv
  OBVIOUS
<1> USE DEF LayerMigration!Init, LayerMigration!AtRest
<1>1. PICK layer \in [Nodes -> {"user", "agent"}] : s1 = [layer |-> layer, other |-> 0]
  OBVIOUS
<1>2. \A x \in Migrations : s5[x].pc = "idle" /\ IsRow(x)
  BY DEF IsRow
<1>3. MigrationTables
  BY <1>1, <1>2 DEF MigrationTables
<1> QED
  BY <1>2, <1>3 DEF MigrationInv, LockHeld, Approved, Verified, Reported, OnRecord, Installing

\* A run goes on: its manifest and its moves stay.
LEMMA Goes ==
  ASSUME MigrationTables, NEW x \in Migrations, NEW pc, LayerMigration!Goto(x, pc)
  PROVE  /\ s5' = [y \in Migrations |-> s5'[y]]
         /\ s5'[x] = [pc |-> pc, man |-> s5[x].man, level |-> s5[x].level, moves |-> s5[x].moves]
         /\ \A y \in Migrations : y # x => s5'[y] = s5[y]
         /\ \A y \in Migrations : IsRow(y)' /\ Fingerprint(y)' = Fingerprint(y) /\ s5'[y].moves = s5[y].moves /\ s5'[y].man = s5[y].man
                                  /\ LayerMigration!Report(y)' = LayerMigration!Report(y)
<1> DEFINE row == [s5[x] EXCEPT !.pc = pc]
<1>1. s5' = [s5 EXCEPT ![x] = row]
  BY DEF LayerMigration!Goto
<1>2. row = [pc |-> pc, man |-> s5[x].man, level |-> s5[x].level, moves |-> s5[x].moves]
  BY DEF MigrationTables, IsRow
<1> HIDE DEF row
<1>3. s5' = [y \in Migrations |-> IF y = x THEN row ELSE s5[y]]
  BY <1>1 DEF MigrationTables
<1>4. \A y \in Migrations : s5'[y].moves = s5[y].moves /\ s5'[y].man = s5[y].man
  BY <1>2, <1>3
<1>5. \A y \in Migrations : IsRow(y)'
  BY <1>2, <1>3 DEF IsRow, MigrationTables
<1> QED
  BY <1>2, <1>3, <1>4, <1>5 DEF Fingerprint, LayerMigration!Report

\* A step that leaves the base, the records and the commits alone, and moves
\* one run on, to a place that asks no more than it has.
LEMMA RunGoesOn ==
  ASSUME MigrationInv, NEW x \in Migrations, NEW pc, LayerMigration!Goto(x, pc), s5[x].pc # "idle",
         UNCHANGED <<s1, s8>>, s6 \subseteq s6', s7' = [temp |-> s7'.temp, final |-> s7'.final],
         \A c \in s8 : c.report \in s7'.temp \cup s7'.final,
         \A y \in Migrations : y # x /\ s5[y].pc = "reported" => LayerMigration!Report(y) \in s7'.temp,
         pc = "reported" => LayerMigration!Report(x) \in s7'.temp,
         pc \in {"verified", "moved", "reported"} => s1 = Fingerprint(x) /\ s1 \in s6',
         pc \in {"locked", "verified", "moved", "reported"} => s4' = x,
         s4' = s4 \/ s4 \in {None, x},
         pc # "idle" /\ pc # "committed"
  PROVE  MigrationInv'
<1>1. /\ s5' = [y \in Migrations |-> s5'[y]]
      /\ s5'[x] = [pc |-> pc, man |-> s5[x].man, level |-> s5[x].level, moves |-> s5[x].moves]
      /\ \A y \in Migrations : y # x => s5'[y] = s5[y]
      /\ \A y \in Migrations : IsRow(y)' /\ Fingerprint(y)' = Fingerprint(y) /\ s5'[y].moves = s5[y].moves /\ s5'[y].man = s5[y].man
                               /\ LayerMigration!Report(y)' = LayerMigration!Report(y)
  BY Goes DEF MigrationInv
<1>2. MigrationTables'
  BY <1>1 DEF MigrationInv, MigrationTables, IsRow
<1>3. LockHeld'
  <2> SUFFICES ASSUME NEW y \in Migrations, s5'[y].pc \in {"locked", "verified", "moved", "reported"} PROVE s4' = y
    BY DEF LockHeld
  <2>1. CASE y = x
    BY <1>1, <2>1
  <2>2. CASE y # x
    BY <1>1, <2>2, MigrationAssumption DEF MigrationInv, LockHeld
  <2> QED
    BY <2>1, <2>2
<1>4. Approved'
  <2> SUFFICES ASSUME NEW y \in Migrations, s5'[y].pc # "idle"
               PROVE  /\ s5'[y].moves # {} /\ s5'[y].moves \subseteq Nodes
                      /\ \A n \in s5'[y].moves : s5'[y].man.cand[n] # None /\ s5'[y].man.cand[n].decision # "exclude"
                                                 /\ Fingerprint(y)'.layer[n] = "user"
    BY DEF Approved
  <2>1. s5[y].pc # "idle"
    BY <1>1
  <2> QED
    BY <1>1, <2>1 DEF MigrationInv, Approved
<1>5. Verified'
  <2> SUFFICES ASSUME NEW y \in Migrations, s5'[y].pc \in {"verified", "moved", "reported"} PROVE s1' = Fingerprint(y)' /\ s1' \in s6'
    BY DEF Verified
  <2>1. CASE y = x
    BY <1>1, <2>1
  <2>2. CASE y # x
    BY <1>1, <2>2 DEF MigrationInv, Verified
  <2> QED
    BY <2>1, <2>2
<1>6. Reported'
  <2> SUFFICES ASSUME NEW y \in Migrations, s5'[y].pc = "reported" PROVE LayerMigration!Report(y)' \in s7'.temp
    BY DEF Reported
  <2>1. CASE y = x
    BY <1>1, <2>1
  <2>2. CASE y # x
    BY <1>1, <2>2 DEF MigrationInv, Reported
  <2> QED
    BY <2>1, <2>2
<1>7. OnRecord'
  BY DEF MigrationInv, OnRecord, LeftBehind
<1>8. Installing'
  <2> SUFFICES ASSUME NEW y \in Migrations, s5'[y].pc = "committed" PROVE \E c \in s8' : c.report = LayerMigration!Report(y)'
    BY DEF Installing
  <2>1. y # x
    BY <1>1
  <2> QED
    BY <1>1, <2>1 DEF MigrationInv, Installing
<1> QED
  BY <1>2, <1>3, <1>4, <1>5, <1>6, <1>7, <1>8 DEF MigrationInv

\* What no run does.
LEMMA OthersAreSafe ==
  ASSUME MigrationInv, UNCHANGED <<s5, s6, s7, s8>>, UNCHANGED s4,
         \/ UNCHANGED s1
         \/ /\ s4 = None /\ s1' = [layer |-> s1'.layer, other |-> s1'.other] /\ s1'.layer = [n \in Nodes |-> s1'.layer[n]]
            /\ \A n \in Nodes : s1.layer[n] = "agent" => s1'.layer[n] = "agent"
  PROVE  MigrationInv'
<1> USE DEF MigrationInv
<1>1. MigrationTables' /\ LockHeld' /\ Approved'
  BY DEF MigrationTables, IsRow, LockHeld, Approved, Fingerprint
<1>2. Verified'
  BY MigrationAssumption DEF Verified, LockHeld, Fingerprint
<1>3. Reported' /\ Installing'
  BY DEF Reported, Installing, LayerMigration!Report
<1>4. OnRecord'
  BY DEF OnRecord, LeftBehind
<1> QED
  BY <1>1, <1>2, <1>3, <1>4

LEMMA WriteIsSafe == ASSUME MigrationInv, LayerMigration!Write PROVE MigrationInv'
<1>1. PICK n \in Nodes, l \in LayerMigration!Layers :
         /\ l # s1.layer[n] => s1.layer[n] # "agent" /\ l # "agent"
         /\ s1' = [layer |-> [s1.layer EXCEPT ![n] = l], other |-> s1.other + 1]
  BY DEF LayerMigration!Write
<1> DEFINE layer == [s1.layer EXCEPT ![n] = l]
<1>2. s1.layer = [k \in Nodes |-> s1.layer[k]]
  BY DEF MigrationInv, MigrationTables
<1>3. layer = [k \in Nodes |-> layer[k]] /\ \A k \in Nodes : s1.layer[k] = "agent" => layer[k] = "agent"
  BY <1>1, <1>2
<1> HIDE DEF layer
<1>4. s1' = [layer |-> layer, other |-> s1.other + 1]
  BY <1>1 DEF layer
<1>5. s4 = None /\ UNCHANGED <<s4, s5, s6, s7, s8>>
  BY DEF LayerMigration!Write
<1>6. s1'.layer = layer
  BY <1>4
<1> QED
  BY <1>3, <1>4, <1>5, <1>6, OthersAreSafe

LEMMA PreflightIsSafe ==
  ASSUME MigrationInv, NEW x \in Migrations, NEW level, LayerMigration!Preflight(x, level)
  PROVE  MigrationInv'
<1> DEFINE moves == {n \in Nodes : LayerMigration!ShouldMove(s2.cand[n], level)}
           row == [pc |-> "ready", man |-> s2, level |-> level, moves |-> moves]
<1>1. /\ s5' = [s5 EXCEPT ![x] = row] /\ moves # {} /\ s2.print = s1 /\ s5[x].pc = "idle"
      /\ \A n \in LayerMigration!Listed(s2) : s1.layer[n] = "user"
      /\ UNCHANGED <<s1, s4, s6, s7, s8>>
  BY DEF LayerMigration!Preflight
<1>2. \A n \in moves : s2.cand[n] # None /\ s2.cand[n].decision # "exclude" /\ s2.print.layer[n] = "user"
  BY <1>1 DEF LayerMigration!ShouldMove, LayerMigration!Listed
<1>3. moves \subseteq Nodes
  OBVIOUS
<1> HIDE DEF moves
<1>4. row.pc = "ready" /\ row.man = s2 /\ row.moves = moves /\ row = [pc |-> row.pc, man |-> row.man, level |-> row.level, moves |-> row.moves]
  OBVIOUS
<1> HIDE DEF row
<1>5. s5' = [y \in Migrations |-> IF y = x THEN row ELSE s5[y]]
  BY <1>1 DEF MigrationInv, MigrationTables
<1> USE DEF MigrationInv
<1>6. MigrationTables'
  BY <1>1, <1>4, <1>5 DEF MigrationTables, IsRow
<1>7. LockHeld'
  BY <1>1, <1>4, <1>5 DEF LockHeld
<1>8. Approved'
  <2> SUFFICES ASSUME NEW y \in Migrations, s5'[y].pc # "idle"
               PROVE  /\ s5'[y].moves # {} /\ s5'[y].moves \subseteq Nodes
                      /\ \A n \in s5'[y].moves : s5'[y].man.cand[n] # None /\ s5'[y].man.cand[n].decision # "exclude"
                                                 /\ s5'[y].man.print.layer[n] = "user"
    BY DEF Approved, Fingerprint
  <2>1. CASE y = x
    BY <1>1, <1>2, <1>3, <1>4, <1>5, <2>1
  <2>2. CASE y # x
    BY <1>5, <2>2 DEF Approved, Fingerprint
  <2> QED
    BY <2>1, <2>2
<1>9. Verified'
  BY <1>1, <1>4, <1>5 DEF Verified, Fingerprint
<1>10. Reported' /\ Installing'
  BY <1>1, <1>4, <1>5 DEF Reported, Installing, LayerMigration!Report
<1>11. OnRecord'
  BY <1>1 DEF OnRecord, LeftBehind
<1> QED
  BY <1>6, <1>7, <1>8, <1>9, <1>10, <1>11

LEMMA LockIsSafe == ASSUME MigrationInv, NEW x \in Migrations, LayerMigration!Lock(x) PROVE MigrationInv'
<1>1. s5[x].pc = "ready" /\ UNCHANGED <<s1, s6, s7, s8>>
  BY DEF LayerMigration!Lock
<1>2. s7' = [temp |-> s7'.temp, final |-> s7'.final] /\ \A c \in s8 : c.report \in s7'.temp \cup s7'.final
  BY <1>1 DEF MigrationInv, MigrationTables, OnRecord
<1>3. \A y \in Migrations : y # x /\ s5[y].pc = "reported" => LayerMigration!Report(y) \in s7'.temp
  BY <1>1 DEF MigrationInv, Reported
<1>4. CASE s4 = None /\ s4' = x /\ LayerMigration!Goto(x, "locked")
  BY <1>1, <1>2, <1>3, <1>4, RunGoesOn
<1>5. CASE LayerMigration!Goto(x, "over") /\ UNCHANGED s4
  BY <1>1, <1>2, <1>3, <1>5, RunGoesOn
<1> QED
  BY <1>4, <1>5 DEF LayerMigration!Lock

LEMMA SnapshotIsSafe == ASSUME MigrationInv, NEW x \in Migrations, LayerMigration!Snapshot(x) PROVE MigrationInv'
<1>1. s5[x].pc = "locked" /\ UNCHANGED <<s1, s7, s8>> /\ s4 = x
  BY DEF LayerMigration!Snapshot, MigrationInv, LockHeld
<1>2. s7' = [temp |-> s7'.temp, final |-> s7'.final] /\ \A c \in s8 : c.report \in s7'.temp \cup s7'.final
  BY <1>1 DEF MigrationInv, MigrationTables, OnRecord
<1>3. \A y \in Migrations : y # x /\ s5[y].pc = "reported" => LayerMigration!Report(y) \in s7'.temp
  BY <1>1 DEF MigrationInv, Reported
<1>4. CASE s6' = s6 \cup {s1} /\ s1 = Fingerprint(x) /\ LayerMigration!Goto(x, "verified") /\ UNCHANGED s4
  BY <1>1, <1>2, <1>3, <1>4, RunGoesOn
<1>5. CASE s6' \in {s6, s6 \cup {s1}} /\ LayerMigration!Goto(x, "over") /\ s4' = None
  BY <1>1, <1>2, <1>3, <1>5, RunGoesOn
<1> QED
  BY <1>4, <1>5 DEF LayerMigration!Snapshot, LayerMigration!Installed, LayerMigration!SnapshotMatches, Fingerprint

LEMMA RunMovesIsSafe == ASSUME MigrationInv, NEW x \in Migrations, LayerMigration!RunMoves(x) PROVE MigrationInv'
<1>1. s5[x].pc = "verified" /\ UNCHANGED <<s1, s6, s7, s8>> /\ s4 = x /\ s1 = Fingerprint(x) /\ s1 \in s6
  BY DEF LayerMigration!RunMoves, MigrationInv, LockHeld, Verified
<1>2. s7' = [temp |-> s7'.temp, final |-> s7'.final] /\ \A c \in s8 : c.report \in s7'.temp \cup s7'.final
  BY <1>1 DEF MigrationInv, MigrationTables, OnRecord
<1>3. \A y \in Migrations : y # x /\ s5[y].pc = "reported" => LayerMigration!Report(y) \in s7'.temp
  BY <1>1 DEF MigrationInv, Reported
<1>4. CASE LayerMigration!Goto(x, "moved") /\ UNCHANGED s4
  BY <1>1, <1>2, <1>3, <1>4, RunGoesOn
<1>5. CASE LayerMigration!Goto(x, "over") /\ s4' = None
  BY <1>1, <1>2, <1>3, <1>5, RunGoesOn
<1> QED
  BY <1>4, <1>5 DEF LayerMigration!RunMoves

LEMMA WriteReportIsSafe == ASSUME MigrationInv, NEW x \in Migrations, LayerMigration!WriteReport(x) PROVE MigrationInv'
<1>1. s5[x].pc = "moved" /\ UNCHANGED <<s1, s6, s8>> /\ s4 = x /\ s1 = Fingerprint(x) /\ s1 \in s6
  BY DEF LayerMigration!WriteReport, MigrationInv, LockHeld, Verified
<1> DEFINE temp == s7.temp \cup {LayerMigration!Report(x)}
<1>2. s7 = [temp |-> s7.temp, final |-> s7.final] /\ (\A c \in s8 : c.report \in s7.temp \cup s7.final)
  BY DEF MigrationInv, MigrationTables, OnRecord
<1>3. \A y \in Migrations : y # x /\ s5[y].pc = "reported" => LayerMigration!Report(y) \in s7.temp
  BY DEF MigrationInv, Reported
<1>4. CASE LayerMigration!Goto(x, "reported") /\ s7' = [s7 EXCEPT !.temp = temp] /\ UNCHANGED s4
  <2>1. s7.temp \subseteq temp /\ LayerMigration!Report(x) \in temp
    OBVIOUS
  <2> HIDE DEF temp
  <2>2. s7' = [temp |-> temp, final |-> s7.final]
    BY <1>2, <1>4
  <2>3. s7'.temp = temp /\ s7'.final = s7.final /\ s7' = [temp |-> s7'.temp, final |-> s7'.final]
    BY <2>2
  <2>4. \A c \in s8 : c.report \in s7'.temp \cup s7'.final
    BY <1>2, <2>1, <2>3
  <2>5. \A y \in Migrations : y # x /\ s5[y].pc = "reported" => LayerMigration!Report(y) \in s7'.temp
    BY <1>3, <2>1, <2>3
  <2>6. LayerMigration!Report(x) \in s7'.temp
    BY <2>1, <2>3
  <2> QED
    BY <1>1, <1>4, <2>3, <2>4, <2>5, <2>6, RunGoesOn
<1>5. CASE LayerMigration!Goto(x, "over") /\ s4' = None /\ UNCHANGED s7
  BY <1>1, <1>2, <1>3, <1>5, RunGoesOn
<1> QED
  BY <1>4, <1>5 DEF LayerMigration!WriteReport

\* The report of a run that has not committed is not that of a migration that
\* has: the base has left the base of the latter behind.
LEMMA NotTheirs ==
  ASSUME MigrationInv, NEW x \in Migrations, s5[x].pc = "reported"
  PROVE  \A c \in s8 : c.report # LayerMigration!Report(x)
<1> SUFFICES ASSUME NEW c \in s8, c.report = LayerMigration!Report(x) PROVE FALSE
  OBVIOUS
<1>1. s1 = Fingerprint(x) /\ LeftBehind(c.before) /\ c.before = c.report.man.print
  BY DEF MigrationInv, Verified, OnRecord
<1>2. c.before = s1
  BY <1>1 DEF LayerMigration!Report, Fingerprint
<1> QED
  BY <1>1, <1>2 DEF LeftBehind

LEMMA CommitFailsIsSafe == ASSUME MigrationInv, NEW x \in Migrations, LayerMigration!CommitFails(x) PROVE MigrationInv'
<1> DEFINE temp == s7.temp \ {LayerMigration!Report(x)}
<1>1. /\ s5[x].pc = "reported" /\ UNCHANGED <<s1, s6, s8>> /\ s4 = x /\ s4' = None /\ LayerMigration!Goto(x, "over")
      /\ s7' = [s7 EXCEPT !.temp = temp]
  BY DEF LayerMigration!CommitFails, MigrationInv, LockHeld
<1>2. s7 = [temp |-> s7.temp, final |-> s7.final] /\ (\A c \in s8 : c.report \in temp \cup s7.final)
  BY <1>1, NotTheirs DEF MigrationInv, MigrationTables, OnRecord
<1> HIDE DEF temp
<1>3. s7'.temp = temp /\ s7'.final = s7.final /\ s7' = [temp |-> s7'.temp, final |-> s7'.final]
  BY <1>1, <1>2
<1>4. \A y \in Migrations : y # x => s5[y].pc # "reported"
  BY <1>1 DEF MigrationInv, LockHeld
<1>5. \A c \in s8 : c.report \in s7'.temp \cup s7'.final
  BY <1>2, <1>3
<1> QED
  BY <1>1, <1>3, <1>4, <1>5, RunGoesOn

LEMMA InstallReportIsSafe == ASSUME MigrationInv, NEW x \in Migrations, LayerMigration!InstallReport(x) PROVE MigrationInv'
<1> DEFINE temp == s7.temp \ {LayerMigration!Report(x)}
           final == s7.final \cup {LayerMigration!Report(x)}
<1>1. /\ s5[x].pc = "committed" /\ UNCHANGED <<s1, s4, s6, s8>> /\ LayerMigration!Goto(x, "over")
      /\ s7' = [temp |-> temp, final |-> final] \/ UNCHANGED s7
  BY DEF LayerMigration!InstallReport
<1>2. /\ s7 = [temp |-> s7.temp, final |-> s7.final]
      /\ \A c \in s8 : c.report \in s7.temp \cup s7.final /\ c.report \in temp \cup final
  BY DEF MigrationInv, MigrationTables, OnRecord
<1>3. \A y \in Migrations : s5[y].pc = "reported" => LayerMigration!Report(y) \in temp /\ LayerMigration!Report(y) \in s7.temp
  <2> SUFFICES ASSUME NEW y \in Migrations, s5[y].pc = "reported" PROVE LayerMigration!Report(y) \in temp /\ LayerMigration!Report(y) \in s7.temp
    OBVIOUS
  <2>1. LayerMigration!Report(y) \in s7.temp
    BY DEF MigrationInv, Reported
  <2>2. LayerMigration!Report(y) # LayerMigration!Report(x)
    BY <1>1, NotTheirs DEF MigrationInv, Installing
  <2> QED
    BY <2>1, <2>2
<1> HIDE DEF temp, final
<1>4. CASE s7' = [temp |-> temp, final |-> final]
  <2>1. s7'.temp = temp /\ s7'.final = final /\ s7' = [temp |-> s7'.temp, final |-> s7'.final]
    BY <1>4
  <2>2. \A c \in s8 : c.report \in s7'.temp \cup s7'.final
    BY <1>2, <2>1
  <2>3. \A y \in Migrations : y # x /\ s5[y].pc = "reported" => LayerMigration!Report(y) \in s7'.temp
    BY <1>3, <2>1
  <2> QED
    BY <1>1, <2>1, <2>2, <2>3, RunGoesOn
<1>5. CASE UNCHANGED s7
  BY <1>1, <1>2, <1>3, <1>5, RunGoesOn
<1> QED
  BY <1>1, <1>4, <1>5

LEMMA DiesIsSafe == ASSUME MigrationInv, NEW x \in Migrations, LayerMigration!Dies(x) PROVE MigrationInv'
<1>1. /\ s5[x].pc # "idle" /\ UNCHANGED <<s1, s6, s7, s8>> /\ LayerMigration!Goto(x, "over")
      /\ s4' = IF s4 = x THEN None ELSE s4
  BY DEF LayerMigration!Dies
<1>2. s7' = [temp |-> s7'.temp, final |-> s7'.final] /\ \A c \in s8 : c.report \in s7'.temp \cup s7'.final
  BY <1>1 DEF MigrationInv, MigrationTables, OnRecord
<1>3. \A y \in Migrations : y # x /\ s5[y].pc = "reported" => LayerMigration!Report(y) \in s7'.temp
  BY <1>1 DEF MigrationInv, Reported
<1> QED
  BY <1>1, <1>2, <1>3, RunGoesOn

LEMMA CommitIsSafe ==
  ASSUME MigrationInv, NEW x \in Migrations, LayerMigration!Commit(x)
  PROVE  MigrationInv' /\ LayerMigration!OnlyWhatWasReviewed
<1> DEFINE report == LayerMigration!Report(x)
           mine == [before |-> s1, report |-> report]
           layer == [n \in Nodes |-> IF n \in s5[x].moves THEN "agent" ELSE s1.layer[n]]
<1>1. /\ s5[x].pc = "reported" /\ s1' = LayerMigration!Moved(s1, s5[x].moves) /\ s8' = s8 \cup {mine} /\ s4' = None
      /\ LayerMigration!Goto(x, "committed") /\ UNCHANGED <<s6, s7>>
  BY DEF LayerMigration!Commit, LayerMigration!MayCommit
<1>2. s4 = x /\ s1 = Fingerprint(x) /\ s1 \in s6 /\ report \in s7.temp
  BY <1>1 DEF MigrationInv, LockHeld, Verified, Reported
<1>3. /\ s5' = [y \in Migrations |-> s5'[y]]
      /\ s5'[x] = [pc |-> "committed", man |-> s5[x].man, level |-> s5[x].level, moves |-> s5[x].moves]
      /\ \A y \in Migrations : y # x => s5'[y] = s5[y]
      /\ \A y \in Migrations : IsRow(y)' /\ Fingerprint(y)' = Fingerprint(y) /\ s5'[y].moves = s5[y].moves /\ s5'[y].man = s5[y].man
                               /\ LayerMigration!Report(y)' = LayerMigration!Report(y)
  BY <1>1, Goes DEF MigrationInv
<1>4. \A y \in Migrations : y # x => s5[y].pc \notin {"locked", "verified", "moved", "reported"}
  BY <1>2 DEF MigrationInv, LockHeld
<1>5. /\ s5[x].moves # {} /\ s5[x].moves \subseteq Nodes
      /\ \A n \in s5[x].moves : s5[x].man.cand[n] # None /\ s5[x].man.cand[n].decision # "exclude" /\ s1.layer[n] = "user"
  BY <1>1, <1>2 DEF MigrationInv, Approved
<1>6. s1' = [layer |-> layer, other |-> s1.other]
  <2> HIDE DEF layer
  <2>1. s1' = [s1 EXCEPT !.layer = layer]
    BY <1>1 DEF LayerMigration!Moved, layer
  <2> QED
    BY <2>1 DEF MigrationInv, MigrationTables
<1>7. s1'.layer = layer
  BY <1>6
<1>8. \A n \in Nodes : (s1.layer[n] = "agent" => s1'.layer[n] = "agent") /\ (n \in s5[x].moves => s1'.layer[n] = "agent")
                       /\ (n \notin s5[x].moves => s1'.layer[n] = s1.layer[n])
  BY <1>7
<1>9. layer = [n \in Nodes |-> layer[n]]
  OBVIOUS
<1> HIDE DEF layer
<1>10. mine.before = s1 /\ mine.report = report /\ report.man.print = Fingerprint(x)
  BY DEF LayerMigration!Report, Fingerprint
<1> HIDE DEF mine, report
<1>11. MigrationTables'
  BY <1>1, <1>3, <1>6, <1>7, <1>9 DEF MigrationInv, MigrationTables
<1>12. LockHeld' /\ Verified' /\ Reported'
  BY <1>3, <1>4 DEF LockHeld, Verified, Reported
<1>13. Approved'
  <2> SUFFICES ASSUME NEW y \in Migrations, s5'[y].pc # "idle"
               PROVE  /\ s5'[y].moves # {} /\ s5'[y].moves \subseteq Nodes
                      /\ \A n \in s5'[y].moves : s5'[y].man.cand[n] # None /\ s5'[y].man.cand[n].decision # "exclude"
                                                 /\ Fingerprint(y)'.layer[n] = "user"
    BY DEF Approved
  <2>1. s5[y].pc # "idle"
    BY <1>1, <1>3
  <2> QED
    BY <1>3, <2>1 DEF MigrationInv, Approved
<1>14. OnRecord'
  <2> SUFFICES ASSUME NEW c \in s8 \cup {mine}
               PROVE  /\ c.before \in s6 /\ c.report \in s7.temp \cup s7.final /\ c.before = c.report.man.print
                      /\ \E n \in Nodes : c.before.layer[n] # "agent" /\ s1'.layer[n] = "agent"
    BY <1>1 DEF OnRecord, LeftBehind
  <2>1. CASE c \in s8
    BY <1>8, <2>1 DEF MigrationInv, OnRecord, LeftBehind
  <2>2. CASE c = mine
    BY <1>2, <1>5, <1>8, <1>10, <2>2
  <2> QED
    BY <2>1, <2>2
<1>15. Installing'
  <2> SUFFICES ASSUME NEW y \in Migrations, s5'[y].pc = "committed" PROVE \E c \in s8' : c.report = LayerMigration!Report(y)'
    BY DEF Installing
  <2>1. CASE y = x
    BY <1>1, <1>3, <1>10, <2>1 DEF report
  <2>2. CASE y # x
    BY <1>1, <1>3, <2>2 DEF MigrationInv, Installing
  <2> QED
    BY <2>1, <2>2
<1>16. LayerMigration!OnlyWhatWasReviewed
  BY <1>1, <1>2, <1>3, <1>5, <1>8 DEF LayerMigration!OnlyWhatWasReviewed, Fingerprint
<1> QED
  BY <1>11, <1>12, <1>13, <1>14, <1>15, <1>16 DEF MigrationInv

LEMMA MigrationNext ==
  ASSUME MigrationInv, [LayerMigration!Next]_(LayerMigration!vars)
  PROVE  MigrationInv' /\ LayerMigration!OnlyWhatWasReviewed
<1>1. s8' = s8 => LayerMigration!OnlyWhatWasReviewed
  BY DEF LayerMigration!OnlyWhatWasReviewed
<1>2. CASE UNCHANGED <<s1, s4, s5, s6, s7, s8>>
  BY <1>1, <1>2, OthersAreSafe
<1>3. CASE LayerMigration!Write
  BY <1>1, <1>3, WriteIsSafe DEF LayerMigration!Write
<1>4. ASSUME NEW x \in Migrations, NEW level, LayerMigration!Preflight(x, level) PROVE MigrationInv' /\ s8' = s8
  BY <1>4, PreflightIsSafe DEF LayerMigration!Preflight
<1>5. ASSUME NEW x \in Migrations, LayerMigration!Lock(x) PROVE MigrationInv' /\ s8' = s8
  BY <1>5, LockIsSafe DEF LayerMigration!Lock
<1>6. ASSUME NEW x \in Migrations, LayerMigration!Snapshot(x) PROVE MigrationInv' /\ s8' = s8
  BY <1>6, SnapshotIsSafe DEF LayerMigration!Snapshot
<1>7. ASSUME NEW x \in Migrations, LayerMigration!RunMoves(x) PROVE MigrationInv' /\ s8' = s8
  BY <1>7, RunMovesIsSafe DEF LayerMigration!RunMoves
<1>8. ASSUME NEW x \in Migrations, LayerMigration!WriteReport(x) PROVE MigrationInv' /\ s8' = s8
  BY <1>8, WriteReportIsSafe DEF LayerMigration!WriteReport
<1>9. ASSUME NEW x \in Migrations, LayerMigration!CommitFails(x) PROVE MigrationInv' /\ s8' = s8
  BY <1>9, CommitFailsIsSafe DEF LayerMigration!CommitFails
<1>10. ASSUME NEW x \in Migrations, LayerMigration!InstallReport(x) PROVE MigrationInv' /\ s8' = s8
  BY <1>10, InstallReportIsSafe DEF LayerMigration!InstallReport
<1>11. ASSUME NEW x \in Migrations, LayerMigration!Dies(x) PROVE MigrationInv' /\ s8' = s8
  BY <1>11, DiesIsSafe DEF LayerMigration!Dies
<1>12. CASE LayerMigration!Inventory \/ LayerMigration!ConfirmToken \/ \E n \in Nodes, d \in LayerMigration!Decisions : LayerMigration!Review(n, d)
  BY <1>2, <1>12 DEF LayerMigration!Inventory, LayerMigration!ConfirmToken, LayerMigration!Review
<1> QED
  BY <1>1, <1>2, <1>3, <1>4, <1>5, <1>6, <1>7, <1>8, <1>9, <1>10, <1>11, <1>12, CommitIsSafe
     DEF LayerMigration!Next, LayerMigration!vars

------------------------------------------------------------------------------
(* The periodic sweep *)

IsTick(x) == x = [pc |-> x.pc, layers |-> x.layers, layer |-> x.layer, items |-> x.items]

\* Between the proposals and the clear, what the gate lets through is kept.
SweepInv ==
    /\ IsTick(s2) /\ s5 = [l \in SweptLayers |-> s5[l]]
    /\ s2.pc = "kept" => s2.items \ Fleeting \subseteq s6

LEMMA SweepInit == Sweep!Init => SweepInv
  BY DEF Sweep!Init, Sweep!Resting, SweepInv, IsTick

LEMMA TickGoes ==
  ASSUME IsTick(s2), NEW pc, Sweep!Go(pc)
  PROVE  s2' = [pc |-> pc, layers |-> s2.layers, layer |-> s2.layer, items |-> s2.items]
  BY DEF Sweep!Go, IsTick

LEMMA SweepNext ==
  ASSUME SweepInv, [Sweep!Next]_(Sweep!vars)
  PROVE  SweepInv' /\ Sweep!OnlyLateItemsAreLost
<1> USE DEF SweepInv
<1>1. ASSUME UNCHANGED <<s2, s5>>, s6 \subseteq s6' PROVE SweepInv' /\ Sweep!OnlyLateItemsAreLost
  BY <1>1 DEF Sweep!OnlyLateItemsAreLost, IsTick
<1>2. ASSUME IsTick(s2'), s2'.pc # "kept", UNCHANGED s5 PROVE SweepInv' /\ Sweep!OnlyLateItemsAreLost
  BY <1>2 DEF Sweep!OnlyLateItemsAreLost, IsTick
<1>3. ASSUME NEW server, Sweep!Claim(server) \/ Sweep!Stop(server) \/ Sweep!Restart(server)
      PROVE  SweepInv' /\ Sweep!OnlyLateItemsAreLost
  <2>1. UNCHANGED <<s5, s6>> /\ (UNCHANGED s2 \/ s2' = Sweep!Resting)
    BY <1>3 DEF Sweep!Claim, Sweep!Stop, Sweep!Restart
  <2>2. IsTick(Sweep!Resting) /\ Sweep!Resting.pc = "asleep"
    BY DEF Sweep!Resting, IsTick
  <2> QED
    BY <1>1, <1>2, <2>1, <2>2
<1>4. ASSUME NEW i, NEW l, Sweep!Stage(i, l) PROVE SweepInv' /\ Sweep!OnlyLateItemsAreLost
  <2>1. s5' = [s5 EXCEPT ![l] = s5[l] \cup {i}] /\ UNCHANGED <<s2, s6>>
    BY <1>4 DEF Sweep!Stage
  <2>2. s5' = [k \in SweptLayers |-> s5'[k]] /\ \A k \in SweptLayers : s5[k] \subseteq s5'[k]
    BY <2>1
  <2>3. \A k \in SweptLayers : s5[k] \ s5'[k] = {}
    BY <2>2
  <2>4. Sweep!OnlyLateItemsAreLost
    BY <2>3 DEF Sweep!OnlyLateItemsAreLost
  <2>5. SweepInv'
    BY <2>1, <2>2 DEF IsTick
  <2> QED
    BY <2>4, <2>5
<1>5. CASE Sweep!Wake
  <2> DEFINE half == [Sweep!Resting EXCEPT !.pc = "layer"]
  <2>1. s2' = [half EXCEPT !.layers = SweptLayers] /\ UNCHANGED s5
    BY <1>5 DEF Sweep!Wake
  <2>2. half = [pc |-> "layer", layers |-> {}, layer |-> None, items |-> {}]
    BY DEF Sweep!Resting
  <2> HIDE DEF half
  <2>3. s2' = [pc |-> "layer", layers |-> SweptLayers, layer |-> None, items |-> {}]
    BY <2>1, <2>2
  <2>4. IsTick(s2') /\ s2'.pc # "kept"
    BY <2>3 DEF IsTick
  <2> QED
    BY <1>2, <2>1, <2>4
<1>6. ASSUME NEW l, Sweep!NextLayer(l) PROVE SweepInv' /\ Sweep!OnlyLateItemsAreLost
  <2> DEFINE rest == s2.layers \ {l}
             items == s5[l]
             pc == IF s5[l] = {} THEN "episodes" ELSE "read"
             h1 == [s2 EXCEPT !.layers = rest]
             h2 == [h1 EXCEPT !.layer = l]
             h3 == [h2 EXCEPT !.items = items]
  <2>1. s2' = [h3 EXCEPT !.pc = pc] /\ UNCHANGED s5
    BY <1>6 DEF Sweep!NextLayer
  <2>2. pc # "kept"
    OBVIOUS
  <2> HIDE DEF rest, items, pc
  <2>3. h1 = [pc |-> s2.pc, layers |-> rest, layer |-> s2.layer, items |-> s2.items]
    BY DEF IsTick
  <2> HIDE DEF h1
  <2>4. h2 = [pc |-> s2.pc, layers |-> rest, layer |-> l, items |-> s2.items]
    BY <2>3
  <2> HIDE DEF h2
  <2>5. h3 = [pc |-> s2.pc, layers |-> rest, layer |-> l, items |-> items]
    BY <2>4
  <2> HIDE DEF h3
  <2>6. s2' = [pc |-> pc, layers |-> rest, layer |-> l, items |-> items]
    BY <2>1, <2>5
  <2> QED
    BY <1>2, <2>1, <2>2, <2>6 DEF IsTick
<1>7. CASE Sweep!Propose \/ Sweep!SavedAll
  <2>1. Sweep!Go("kept") /\ UNCHANGED s5 /\ s2.items \ Fleeting \subseteq s6'
    BY <1>7 DEF Sweep!Propose, Sweep!SavedAll, Sweep!Promotable
  <2>2. s2' = [pc |-> "kept", layers |-> s2.layers, layer |-> s2.layer, items |-> s2.items]
    BY <2>1, TickGoes
  <2> QED
    BY <2>1, <2>2 DEF IsTick, Sweep!OnlyLateItemsAreLost
<1>8. CASE Sweep!Clear
  <2>1. Sweep!Go("episodes") /\ s5' = [s5 EXCEPT ![s2.layer] = {}] /\ s2.pc = "kept" /\ UNCHANGED s6
    BY <1>8 DEF Sweep!Clear, Sweep!Cleared, Sweep!At
  <2>2. s2' = [pc |-> "episodes", layers |-> s2.layers, layer |-> s2.layer, items |-> s2.items]
    BY <2>1, TickGoes
  <2>3. s5' = [k \in SweptLayers |-> s5'[k]] /\ \A k \in SweptLayers : k # s2.layer => s5'[k] = s5[k]
    BY <2>1
  <2> QED
    BY <2>1, <2>2, <2>3 DEF IsTick, Sweep!OnlyLateItemsAreLost
<1>9. CASE Sweep!PromoteEpisodes
  <2>1. Sweep!Go("cleanup") /\ UNCHANGED s5
    BY <1>9 DEF Sweep!PromoteEpisodes
  <2> QED
    BY <1>2, <2>1, TickGoes DEF IsTick
<1>10. CASE Sweep!CleanupOld
  <2> DEFINE pc == IF s2.layers = {} THEN "end" ELSE "layer"
  <2>1. Sweep!Go(pc) /\ s2.pc = "cleanup" /\ \E old : s5' = [s5 EXCEPT ![s2.layer] = s5[s2.layer] \ old]
    BY <1>10 DEF Sweep!CleanupOld, Sweep!At
  <2>2. pc # "kept"
    OBVIOUS
  <2> HIDE DEF pc
  <2>3. s2' = [pc |-> pc, layers |-> s2.layers, layer |-> s2.layer, items |-> s2.items]
    BY <2>1, TickGoes
  <2>4. s5' = [k \in SweptLayers |-> s5'[k]]
    BY <2>1
  <2> QED
    BY <2>1, <2>2, <2>3, <2>4 DEF IsTick, Sweep!OnlyLateItemsAreLost
<1>11. CASE Sweep!Rest \/ Sweep!Raises
  <2>1. s2' = Sweep!Resting /\ UNCHANGED s5
    BY <1>11 DEF Sweep!Rest, Sweep!Raises
  <2> QED
    BY <1>2, <2>1 DEF Sweep!Resting, IsTick
<1>12. CASE \/ UNCHANGED Sweep!vars \/ Sweep!OthersStart \/ Sweep!OthersFinish
            \/ \E l \in SweptLayers, kind \in Sweep!Kinds : Sweep!Happens(l, kind)
            \/ \E i \in Items : Sweep!SaveOne(i)
  BY <1>1, <1>12 DEF Sweep!vars, Sweep!OthersStart, Sweep!OthersFinish, Sweep!Happens, Sweep!SaveOne
<1> QED
  BY <1>3, <1>4, <1>5, <1>6, <1>7, <1>8, <1>9, <1>10, <1>11, <1>12 DEF Sweep!Next, Sweep!Tick

------------------------------------------------------------------------------
(* Statements in conflict *)

Kept(i) == [text : Statements, conflict : BOOLEAN, group : {0, i}]
Rows == {None} \cup UNION {Kept(i) : i \in 1..MaxRows}
Resolutions == [pc : {"idle", "archiving", "logging", "done"}, group : Nat, keep : Nat,
                todo : SUBSET (1..MaxRows), read : SUBSET (1..MaxRows), failed : SUBSET (1..MaxRows)]

\* A conflict's only member is the row it is named for, and a resolution under
\* way has read it unless it keeps it.
Offered(x, i) == i \in x.todo \/ i \in x.failed \/ s2[i] > 0
ResolutionOK(x) ==
    x.pc = "archiving" => /\ x.group # 0 /\ (x.group # x.keep => x.group \in x.read)
                          /\ \A i \in x.read : Offered(x, i)

ConflictsInv ==
    /\ s1 \in Seq(Rows) /\ Len(s1) <= MaxRows
    /\ \A i \in DOMAIN s1 : s1[i] # None => s1[i] \in Kept(i)
    /\ s2 \in [1..MaxRows -> Nat]
    /\ s3 \in [Resolvers -> Resolutions]
    /\ \A c \in Resolvers : ResolutionOK(s3[c])

LEMMA RowsAreNone == \A i \in 1..MaxRows : None \notin Kept(i)
<1> SUFFICES ASSUME NEW i \in 1..MaxRows, None \in Kept(i) PROVE FALSE
  OBVIOUS
<1>1. None \in [text : Statements, conflict : BOOLEAN, group : Nat]
  BY DEF Kept
<1> QED
  BY <1>1, ConflictsAssumption

LEMMA RecordsAreRows == None \in Rows /\ \A i \in 1..MaxRows : Kept(i) \subseteq Rows
<1>1. ASSUME NEW i \in 1..MaxRows PROVE Kept(i) \subseteq Rows
  BY DEF Rows
<1>2. None \in Rows
  BY DEF Rows
<1> QED
  BY <1>1, <1>2

LEMMA ConflictsInit == Conflicts!Init => ConflictsInv
<1> SUFFICES ASSUME Conflicts!Init PROVE ConflictsInv
  OBVIOUS
<1>1. s1 = <<>> /\ s2 = [i \in 1..MaxRows |-> 0] /\ s3 = [c \in Resolvers |-> Conflicts!Resting]
  BY DEF Conflicts!Init, Conflicts!Ids
<1>2. Conflicts!Resting \in Resolutions /\ Conflicts!Resting.pc = "idle"
  BY DEF Conflicts!Resting, Resolutions
<1> QED
  BY <1>1, <1>2, ConflictsAssumption DEF ConflictsInv, ResolutionOK

LEMMA ConflictCheckKeeps ==
  ASSUME ConflictsInv, NEW x \in Statements, Conflicts!CheckText(x)
  PROVE  ConflictsInv' /\ Conflicts!DeletedWereOffered
<1>1. s1 \in Seq(Rows) /\ Len(s1) <= MaxRows /\ \A i \in DOMAIN s1 : s1[i] # None => s1[i] \in Kept(i)
  BY DEF ConflictsInv
<1>2. UNCHANGED <<s2, s3>>
  BY DEF Conflicts!CheckText
<1>3. \A i \in 1..MaxRows : Kept(i) \subseteq Rows /\ None \notin Kept(i)
  BY RowsAreNone DEF Rows
<1>4. ASSUME s1' \in Seq(Rows), Len(s1') <= MaxRows, \A i \in DOMAIN s1' : s1'[i] # None => s1'[i] \in Kept(i),
                      \A i \in Conflicts!Present : i \in DOMAIN s1' /\ s1'[i] # None
               PROVE  ConflictsInv' /\ Conflicts!DeletedWereOffered
  <2>1. \A c \in Resolvers : ResolutionOK(s3[c])'
    BY <1>2 DEF ConflictsInv, ResolutionOK, Offered
  <2>2. s2' \in [1..MaxRows -> Nat] /\ s3' \in [Resolvers -> Resolutions]
    BY <1>2 DEF ConflictsInv
  <2>3. ConflictsInv'
    BY <1>4, <2>1, <2>2 DEF ConflictsInv, Rows, Kept
  <2> QED
    BY <1>4, <2>3 DEF Conflicts!DeletedWereOffered
<1>5. CASE \E i \in Conflicts!Contradicted(x) : Conflicts!Marked(x, i)
  <2>1. PICK i \in Conflicts!Contradicted(x) : Conflicts!Marked(x, i)
    BY <1>5
  <2>2. i \in DOMAIN s1 /\ s1[i] # None
    BY DEF Conflicts!Contradicted, Conflicts!Candidates, Conflicts!Present
  <2>3. i \in 1..MaxRows
    BY <1>1, <2>2, ConflictsAssumption
  <2>4. s1[i] \in Kept(i)
    BY <1>1, <2>2
  <2> DEFINE mid == [s1 EXCEPT ![i].conflict = TRUE]
             row == [mid[i] EXCEPT !.group = i]
  <2>5. s1' = s1 \/ s1' = [mid EXCEPT ![i].group = i]
    BY <2>1 DEF Conflicts!Marked
  <2>6. mid[i] \in Kept(i)
    BY <2>2, <2>4 DEF Kept
  <2>7. mid = [s1 EXCEPT ![i] = mid[i]]
    BY <2>2
  <2> HIDE DEF mid
  <2>8. [mid EXCEPT ![i].group = i] = [mid EXCEPT ![i] = row]
    OBVIOUS
  <2>9. row \in Kept(i)
    BY <2>6 DEF Kept
  <2> HIDE DEF row
  <2>10. [mid EXCEPT ![i] = row] = [s1 EXCEPT ![i] = row]
    BY <2>7
  <2>11. row \in Rows /\ row # None
    BY <1>3, <2>3, <2>9
  <2>12. CASE s1' = [s1 EXCEPT ![i] = row]
    <3>1. s1' \in Seq(Rows) /\ Len(s1') = Len(s1)
      BY <1>1, <2>2, <2>11, <2>12
    <3>2. DOMAIN s1' = DOMAIN s1 /\ \A j \in DOMAIN s1 : s1'[j] = IF j = i THEN row ELSE s1[j]
      BY <2>12
    <3>3. \A j \in DOMAIN s1' : s1'[j] # None => s1'[j] \in Kept(j)
      BY <1>1, <2>9, <3>2
    <3>4. \A j \in Conflicts!Present : j \in DOMAIN s1' /\ s1'[j] # None
      BY <2>11, <3>2 DEF Conflicts!Present
    <3> QED
      BY <1>1, <1>4, <3>1, <3>3, <3>4
  <2>13. CASE s1' = s1
    <3>1. \A j \in Conflicts!Present : j \in DOMAIN s1' /\ s1'[j] # None
      BY <2>13 DEF Conflicts!Present
    <3> QED
      BY <1>1, <1>4, <2>13, <3>1
  <2> QED
    BY <2>5, <2>8, <2>10, <2>12, <2>13
<1>6. CASE \E row : row = [text |-> x, conflict |-> FALSE, group |-> 0] /\ Len(s1) < MaxRows /\ s1' = Append(s1, row)
  <2>1. PICK row : row = [text |-> x, conflict |-> FALSE, group |-> 0] /\ Len(s1) < MaxRows /\ s1' = Append(s1, row)
    BY <1>6
  <2> DEFINE n == Len(s1) + 1
  <2>2. n \in 1..MaxRows
    BY <1>1, <2>1, ConflictsAssumption
  <2>3. row \in Kept(n)
    BY <2>1 DEF Kept
  <2>4. row \in Rows
    BY <1>3, <2>2, <2>3
  <2>5. s1' \in Seq(Rows) /\ Len(s1') = n /\ DOMAIN s1 = 1..Len(s1) /\ DOMAIN s1' = 1..n
    BY <1>1, <2>1, <2>4
  <2>6. s1'[n] = row /\ \A j \in 1..Len(s1) : s1'[j] = s1[j]
    BY <1>1, <2>1
  <2> HIDE DEF n
  <2>7. \A j \in 1..n : j = n \/ j \in 1..Len(s1)
    BY <1>1 DEF n
  <2>8. \A j \in 1..Len(s1) : j \in 1..n
    BY <1>1 DEF n
  <2>9. \A j \in DOMAIN s1' : s1'[j] # None => s1'[j] \in Kept(j)
    BY <1>1, <2>3, <2>5, <2>6, <2>7
  <2>10. \A j \in Conflicts!Present : j \in DOMAIN s1' /\ s1'[j] # None
    BY <2>5, <2>6, <2>8 DEF Conflicts!Present
  <2> QED
    BY <1>4, <2>2, <2>5, <2>9, <2>10
<1> QED
  BY <1>5, <1>6 DEF Conflicts!CheckText

\* What a resolution does to its own record, rows and bin apart.
LEMMA ResolverMoves ==
  ASSUME ConflictsInv, NEW c \in Resolvers, NEW x \in Resolutions,
         s3' = [s3 EXCEPT ![c] = x], UNCHANGED s1, s2' \in [1..MaxRows -> Nat],
         \A i \in 1..MaxRows : s2[i] > 0 => s2'[i] > 0, ResolutionOK(x)'
  PROVE  ConflictsInv' /\ Conflicts!DeletedWereOffered
<1>1. s3' \in [Resolvers -> Resolutions]
  BY DEF ConflictsInv
<1>2. ASSUME NEW d \in Resolvers PROVE ResolutionOK(s3[d])'
  <2>1. CASE d = c
    BY <2>1 DEF ConflictsInv, ResolutionOK, Offered
  <2>2. CASE d # c
    <3>1. s3'[d] = s3[d] /\ s3[d] \in Resolutions
      BY <2>2 DEF ConflictsInv
    <3>2. s3[d].read \subseteq 1..MaxRows
      BY <3>1 DEF Resolutions
    <3> QED
      BY <3>1, <3>2 DEF ConflictsInv, ResolutionOK, Offered
  <2> QED
    BY <2>1, <2>2
<1>3. Conflicts!DeletedWereOffered
  BY DEF Conflicts!DeletedWereOffered, Conflicts!Present
<1> QED
  BY <1>1, <1>2, <1>3 DEF ConflictsInv

LEMMA ConflictReadKeeps ==
  ASSUME ConflictsInv, NEW c \in Resolvers, NEW group \in 1..MaxRows, NEW keep \in 1..MaxRows, Conflicts!ReadGroup(c, group, keep)
  PROVE  ConflictsInv' /\ Conflicts!DeletedWereOffered
<1>0. PICK read : read = {i \in Conflicts!Present : s1[i].group = group /\ i # keep}
  OBVIOUS
<1> DEFINE h1 == [Conflicts!Resting EXCEPT !.pc = "archiving"]
           h2 == [h1 EXCEPT !.group = group]
           h3 == [h2 EXCEPT !.keep = keep]
           h4 == [h3 EXCEPT !.todo = read]
           x == [pc |-> "archiving", group |-> group, keep |-> keep, todo |-> read, read |-> read, failed |-> {}]
<1>1. s3' = [s3 EXCEPT ![c] = [h4 EXCEPT !.read = read]] /\ UNCHANGED <<s1, s2>>
  BY <1>0 DEF Conflicts!ReadGroup
<1>2. group \in {s1[i].group : i \in Conflicts!Present} \ {0}
  BY DEF Conflicts!ReadGroup
<1>3. PICK i \in Conflicts!Present : s1[i].group = group
  BY <1>2
<1>4. i = group
  BY <1>2, <1>3 DEF ConflictsInv, Conflicts!Present, Kept
<1>5. read \subseteq 1..MaxRows /\ (group # keep => group \in read)
  BY <1>0, <1>3, <1>4, ConflictsAssumption DEF ConflictsInv, Conflicts!Present
<1>6. h1 = [pc |-> "archiving", group |-> 0, keep |-> 0, todo |-> {}, read |-> {}, failed |-> {}]
  BY DEF Conflicts!Resting
<1> HIDE DEF h1
<1>7. h2 = [pc |-> "archiving", group |-> group, keep |-> 0, todo |-> {}, read |-> {}, failed |-> {}]
  BY <1>6
<1> HIDE DEF h2
<1>8. h3 = [pc |-> "archiving", group |-> group, keep |-> keep, todo |-> {}, read |-> {}, failed |-> {}]
  BY <1>7
<1> HIDE DEF h3
<1>9. h4 = [pc |-> "archiving", group |-> group, keep |-> keep, todo |-> read, read |-> {}, failed |-> {}]
  BY <1>8
<1> HIDE DEF h4
<1>10. s3' = [s3 EXCEPT ![c] = x]
  <2>1. PICK a : a = [h4 EXCEPT !.read = read]
    OBVIOUS
  <2>2. s3' = [s3 EXCEPT ![c] = a] /\ a = x
    BY <1>1, <1>9, <2>1
  <2> QED BY <2>2
<1>11. x \in Resolutions
  BY <1>5 DEF Resolutions
<1>12. ResolutionOK(x)'
  BY <1>5 DEF ResolutionOK, Offered
<1>13. s2' \in [1..MaxRows -> Nat]
  BY <1>1 DEF ConflictsInv
<1> HIDE DEF x
<1> QED
  BY <1>1, <1>10, <1>11, <1>12, <1>13, ResolverMoves

LEMMA ConflictArchiveKeeps ==
  ASSUME ConflictsInv, NEW c \in Resolvers, Conflicts!ArchiveRow(c)
  PROVE  ConflictsInv' /\ Conflicts!DeletedWereOffered
<1>0. PICK old : old = s3[c]
  OBVIOUS
<1>1. old \in Resolutions /\ ResolutionOK(old) /\ s2 \in [1..MaxRows -> Nat] /\ s3 \in [Resolvers -> Resolutions]
  BY <1>0 DEF ConflictsInv
<1>2. UNCHANGED s1
  BY DEF Conflicts!ArchiveRow
<1>3. PICK i \in old.todo :
        \/ /\ s2' = [s2 EXCEPT ![i] = s2[i] + 1]
           /\ s3' = [s3 EXCEPT ![c].todo = old.todo \ {i}]
        \/ /\ s3' = [s3 EXCEPT ![c].todo = old.todo \ {i}, ![c].failed = old.failed \cup {i}]
           /\ UNCHANGED s2
  BY <1>0 DEF Conflicts!ArchiveRow
<1>4. old = [pc |-> old.pc, group |-> old.group, keep |-> old.keep, todo |-> old.todo, read |-> old.read, failed |-> old.failed]
      /\ old.todo \subseteq 1..MaxRows /\ old.read \subseteq 1..MaxRows /\ old.failed \subseteq 1..MaxRows /\ i \in 1..MaxRows
  BY <1>1, <1>3 DEF Resolutions
<1> DEFINE less == [old EXCEPT !.todo = old.todo \ {i}]
           x == [pc |-> old.pc, group |-> old.group, keep |-> old.keep, todo |-> old.todo \ {i}, read |-> old.read,
                 failed |-> old.failed]
           y == [pc |-> old.pc, group |-> old.group, keep |-> old.keep, todo |-> old.todo \ {i}, read |-> old.read,
                 failed |-> old.failed \cup {i}]
<1>5. x \in Resolutions /\ y \in Resolutions
  BY <1>1, <1>4 DEF Resolutions
<1>6. less = x
  BY <1>4
<1>7. [x EXCEPT !.failed = old.failed \cup {i}] = y
  OBVIOUS
<1>8. CASE s2' = [s2 EXCEPT ![i] = s2[i] + 1] /\ s3' = [s3 EXCEPT ![c].todo = old.todo \ {i}]
  <2>0. s3' = [s3 EXCEPT ![c] = less]
    BY <1>0, <1>8
  <2>1. s3' = [s3 EXCEPT ![c] = x]
    <3>1. PICK a : a = less
      OBVIOUS
    <3>2. s3' = [s3 EXCEPT ![c] = a] /\ a = x
      BY <1>6, <2>0, <3>1
    <3> HIDE DEF less, x
    <3> QED BY <3>2
  <2>2. s2' \in [1..MaxRows -> Nat] /\ s2'[i] > 0 /\ \A j \in 1..MaxRows : s2[j] > 0 => s2'[j] > 0
    BY <1>1, <1>4, <1>8
  <2>3. ResolutionOK(x)'
    BY <1>1, <1>4, <2>2 DEF ResolutionOK, Offered
  <2> HIDE DEF x
  <2> QED
    BY <1>2, <1>5, <2>1, <2>2, <2>3, ResolverMoves
<1>9. CASE s3' = [s3 EXCEPT ![c].todo = old.todo \ {i}, ![c].failed = old.failed \cup {i}] /\ UNCHANGED s2
  <2> DEFINE mid == [s3 EXCEPT ![c].todo = old.todo \ {i}]
  <2>1. mid = [s3 EXCEPT ![c] = x] /\ mid[c] = x
    BY <1>0, <1>1, <1>6
  <2>2. s3' = [mid EXCEPT ![c].failed = old.failed \cup {i}]
    BY <1>9
  <2> HIDE DEF mid, x, y, less
  <2>3. s3' = [mid EXCEPT ![c] = y]
    BY <1>7, <2>1, <2>2
  <2>4. s3' = [s3 EXCEPT ![c] = y]
    BY <2>1, <2>3
  <2>5. ResolutionOK(y)'
    BY <1>1, <1>4, <1>9 DEF ResolutionOK, Offered, y
  <2> QED
    BY <1>1, <1>2, <1>5, <1>9, <2>4, <2>5, ResolverMoves
<1> QED
  BY <1>3, <1>8, <1>9

LEMMA ConflictDeleteKeeps ==
  ASSUME ConflictsInv, NEW c \in Resolvers, Conflicts!DeleteGroup(c)
  PROVE  ConflictsInv' /\ Conflicts!DeletedWereOffered
<1> DEFINE old == s3[c]
           Now(i) == IF i \in Conflicts!InGroup(c) THEN None
                     ELSE IF i = s3[c].keep /\ s1[i] # None THEN [s1[i] EXCEPT !.conflict = FALSE, !.group = 0]
                     ELSE s1[i]
<1>1. old \in Resolutions /\ ResolutionOK(old) /\ s2 \in [1..MaxRows -> Nat] /\ s3 \in [Resolvers -> Resolutions]
  BY DEF ConflictsInv
<1>2. old.pc = "archiving" /\ old.todo = {} /\ UNCHANGED s2
  BY DEF Conflicts!DeleteGroup, Conflicts!At
<1>3. s1' = [i \in DOMAIN s1 |-> Now(i)]
  BY DEF Conflicts!DeleteGroup
<1>4. s1 \in Seq(Rows) /\ Len(s1) <= MaxRows /\ \A i \in DOMAIN s1 : s1[i] # None => s1[i] \in Kept(i)
  BY DEF ConflictsInv
<1>5. \A i \in DOMAIN s1 : Now(i) = None \/ Now(i) \in Kept(i)
  <2> SUFFICES ASSUME NEW i \in DOMAIN s1, s1[i] # None PROVE Now(i) = None \/ Now(i) \in Kept(i)
    BY DEF Conflicts!InGroup, Conflicts!Present
  <2>1. s1[i] \in Kept(i)
    BY <1>4
  <2> DEFINE half == [s1[i] EXCEPT !.conflict = FALSE]
             free == [half EXCEPT !.group = 0]
  <2>2. half \in Kept(i)
    BY <2>1 DEF Kept
  <2> HIDE DEF half
  <2>4. free \in Kept(i)
    BY <2>2 DEF Kept
  <2>5. Now(i) \in {None, free, s1[i]}
    BY DEF half
  <2> HIDE DEF Now, free
  <2> QED
    BY <2>1, <2>4, <2>5
<1>6. s1' \in Seq(Rows) /\ Len(s1') <= MaxRows /\ \A i \in DOMAIN s1' : s1'[i] # None => s1'[i] \in Kept(i)
  <2> HIDE DEF Now
  <2>1. \A i \in DOMAIN s1 : Now(i) \in Rows
    <3>1. \A i \in DOMAIN s1 : i \in 1..MaxRows
      BY <1>4, ConflictsAssumption
    <3> QED
      BY <1>5, <3>1, RecordsAreRows
  <2>2. Len(s1) \in Nat /\ DOMAIN s1 = 1..Len(s1)
    BY <1>4
  <2>3. s1' \in Seq(Rows) /\ Len(s1') = Len(s1) /\ DOMAIN s1' = DOMAIN s1
    BY <1>3, <2>1, <2>2
  <2> QED
    BY <1>3, <1>4, <1>5, <2>3
<1>7. s3' = [s3 EXCEPT ![c] = [old EXCEPT !.pc = "logging"]] /\ [old EXCEPT !.pc = "logging"] \in Resolutions
      /\ [old EXCEPT !.pc = "logging"].pc = "logging"
  BY <1>1 DEF Conflicts!DeleteGroup, Resolutions
<1>8. ConflictsInv'
  <2>1. s3' \in [Resolvers -> Resolutions]
    BY <1>1, <1>7
  <2>2. ASSUME NEW d \in Resolvers PROVE ResolutionOK(s3[d])'
    <3>1. d = c \/ s3'[d] = s3[d]
      BY <1>1, <1>7
    <3>2. d = c => s3'[d].pc = "logging"
      BY <1>1, <1>7
    <3> QED
      BY <1>2, <3>1, <3>2 DEF ConflictsInv, ResolutionOK, Offered
  <2> QED
    BY <1>1, <1>2, <1>6, <2>1, <2>2 DEF ConflictsInv, Rows, Kept
<1>9. Conflicts!DeletedWereOffered
  <2> SUFFICES ASSUME NEW i \in Conflicts!Present, i \notin {j \in DOMAIN s1' : s1'[j] # None}
               PROVE  Conflicts!At(c, "archiving") /\ i \in s3[c].read /\ (s2[i] > 0 \/ i \in s3[c].failed)
    BY DEF Conflicts!DeletedWereOffered
  <2>1. i \in DOMAIN s1 /\ s1[i] # None /\ Now(i) = None
    <3> HIDE DEF Now
    <3> QED BY <1>3 DEF Conflicts!Present
  <2>2. s1[i] \in Kept(i) /\ i \in 1..MaxRows
    BY <1>4, <2>1, ConflictsAssumption
  <2>3. i \in Conflicts!InGroup(c)
    <3> DEFINE half == [s1[i] EXCEPT !.conflict = FALSE]
               free == [half EXCEPT !.group = 0]
    <3>1. half \in Kept(i)
      BY <2>2 DEF Kept
    <3> HIDE DEF half
    <3>3. free \in Kept(i)
      BY <3>1 DEF Kept
    <3>4. free # None
      BY <2>2, <3>3, RowsAreNone
    <3>5. i \notin Conflicts!InGroup(c) => Now(i) \in {free, s1[i]}
      BY DEF half
    <3> HIDE DEF Now, free
    <3> QED
      BY <2>1, <3>4, <3>5
  <2>4. s1[i].group = old.group /\ i # old.keep
    BY <2>3 DEF Conflicts!InGroup
  <2>5. i = old.group
    BY <1>1, <1>2, <2>2, <2>4 DEF Kept, ResolutionOK
  <2> QED
    BY <1>1, <1>2, <2>2, <2>4, <2>5 DEF ResolutionOK, Offered, Conflicts!At
<1> QED
  BY <1>8, <1>9

LEMMA ConflictEndKeeps ==
  ASSUME ConflictsInv, NEW c \in Resolvers, Conflicts!LogResolution(c) \/ Conflicts!Dies(c)
  PROVE  ConflictsInv' /\ Conflicts!DeletedWereOffered
<1> DEFINE x == [Conflicts!Resting EXCEPT !.pc = "done"]
<1>1. s3' = [s3 EXCEPT ![c] = x] /\ UNCHANGED <<s1, s2>>
  BY DEF Conflicts!LogResolution, Conflicts!Dies
<1>2. x \in Resolutions /\ x.pc = "done"
  BY DEF Conflicts!Resting, Resolutions
<1> HIDE DEF x
<1>3. ResolutionOK(x)' /\ s2' \in [1..MaxRows -> Nat]
  BY <1>1, <1>2 DEF ResolutionOK, ConflictsInv
<1> QED
  BY <1>1, <1>2, <1>3, ResolverMoves

LEMMA ConflictsNext ==
  ASSUME ConflictsInv, [Conflicts!Next]_(Conflicts!vars)
  PROVE  ConflictsInv' /\ Conflicts!DeletedWereOffered
<1>1. ASSUME UNCHANGED Conflicts!vars PROVE ConflictsInv' /\ Conflicts!DeletedWereOffered
  <2>1. UNCHANGED <<s1, s2, s3>>
    BY <1>1 DEF Conflicts!vars
  <2>2. ConflictsInv'
    BY <2>1 DEF ConflictsInv, ResolutionOK, Offered
  <2>3. Conflicts!DeletedWereOffered
    BY <2>1 DEF Conflicts!DeletedWereOffered, Conflicts!Present
  <2> QED
    BY <2>2, <2>3
<1>2. ASSUME NEW c \in Resolvers, Conflicts!Resolve(c) PROVE ConflictsInv' /\ Conflicts!DeletedWereOffered
  BY <1>2, ConflictReadKeeps, ConflictArchiveKeeps, ConflictDeleteKeeps, ConflictEndKeeps DEF Conflicts!Resolve, Conflicts!Ids
<1> QED
  BY <1>1, <1>2, ConflictCheckKeeps DEF Conflicts!Next

------------------------------------------------------------------------------
(* Retiring a page of the wiki *)

HasCopy(x) == \E n \in 0..MaxSeconds : <<x, n>> \in DOMAIN s4

\* A call that retires a page is somewhere on its plan, and past the copy once
\* the unlink is next.
CallOK(x) ==
    x.op \in {"retire", "shelve"} =>
      /\ x.todo \in {<<"keep", "unlink", "drop">>, <<"unlink", "drop">>, <<"drop">>, <<>>}
      /\ x.todo = <<"unlink", "drop">> => HasCopy(x.page)

IsCall(x) == x = [op |-> x.op, page |-> x.page, text |-> x.text, status |-> x.status, todo |-> x.todo]

WikiInv ==
    /\ s8 \in 0..MaxSeconds
    /\ s6 = [c \in Callers |-> s6[c]]
    /\ \A c \in Callers : IsCall(s6[c]) /\ CallOK(s6[c])

LEMMA WikiInit == Wiki!Init => WikiInv
<1>1. IsCall(Wiki!Resting) /\ Wiki!Resting.todo = <<>>
  BY DEF Wiki!Resting, IsCall
<1> QED
  BY <1>1, WikiAssumption DEF Wiki!Init, WikiInv, CallOK

\* What one call does: its record changes, and no copy goes.
LEMMA CallMoves ==
  ASSUME WikiInv, NEW c \in Callers, NEW x, s6' = [s6 EXCEPT ![c] = x], IsCall(x), CallOK(x)',
         DOMAIN s4 \subseteq DOMAIN s4', UNCHANGED s8
  PROVE  WikiInv'
<1>1. s6' = [d \in Callers |-> s6'[d]] /\ s6'[c] = x /\ \A d \in Callers \ {c} : s6'[d] = s6[d]
  BY DEF WikiInv
<1>2. ASSUME NEW d \in Callers PROVE IsCall(s6'[d]) /\ CallOK(s6[d])'
  <2>1. CASE d = c
    BY <1>1, <2>1 DEF CallOK, HasCopy
  <2>2. CASE d # c
    <3>1. s6'[d] = s6[d]
      BY <1>1, <2>2
    <3> QED
      BY <3>1 DEF WikiInv, CallOK, HasCopy
  <2> QED
    BY <2>1, <2>2
<1> QED
  BY <1>1, <1>2 DEF WikiInv, IsCall

LEMMA RestingIsFine == IsCall(Wiki!Resting) /\ CallOK(Wiki!Resting)'
  BY DEF Wiki!Resting, IsCall, CallOK

LEMMA CallStarts ==
  ASSUME WikiInv, NEW c \in Callers, NEW op, NEW x, NEW f, NEW plan, Wiki!Call(c, op, x, f, plan),
         op \in {"retire", "shelve"} => plan = Wiki!RetirePlan
  PROVE  WikiInv'
<1> DEFINE y == [op |-> op, page |-> x, text |-> f.text, status |-> f.status, todo |-> plan]
<1>1. s6' = [s6 EXCEPT ![c] = y] /\ UNCHANGED <<s4, s8>>
  BY DEF Wiki!Call
<1>2. IsCall(y)
  BY DEF IsCall
<1>3. CallOK(y)'
  BY DEF CallOK, Wiki!RetirePlan
<1> HIDE DEF y
<1> QED
  BY <1>1, <1>2, <1>3, CallMoves

LEMMA WikiStarts ==
  ASSUME WikiInv, NEW c \in Callers, Wiki!Start(c)
  PROVE  WikiInv'
<1>1. ASSUME NEW x, NEW y, Wiki!Add(c, x, y) PROVE WikiInv'
  <2> DEFINE f == [text |-> y, status |-> "active"]
  <2>1. Wiki!Call(c, "add", x, f, Wiki!AddPlan)
    BY <1>1 DEF Wiki!Add
  <2> HIDE DEF f
  <2> QED
    BY <2>1, CallStarts
<1>2. ASSUME NEW x, NEW y, Wiki!Update(c, x, y) PROVE WikiInv'
  <2>1. PICK f : Wiki!Call(c, "update", x, f, Wiki!UpdatePlan)
    BY <1>2 DEF Wiki!Update
  <2> QED
    BY <2>1, CallStarts
<1>3. ASSUME NEW x, NEW y, Wiki!ProjectUpdate(c, x, y) PROVE WikiInv'
  BY <1>1, <1>2, <1>3 DEF Wiki!ProjectUpdate
<1>4. ASSUME NEW x, NEW f, Wiki!Sync(c, x, f) PROVE WikiInv'
  <2>1. Wiki!Call(c, "sync", x, f, Wiki!SyncPlan)
    BY <1>4 DEF Wiki!Sync
  <2> QED
    BY <2>1, CallStarts
<1>5. ASSUME NEW x, Wiki!Promote(c, x) PROVE WikiInv'
  BY <1>1, <1>5 DEF Wiki!Promote
<1>6. ASSUME NEW x, Wiki!Retire(c, x) PROVE WikiInv'
  <2>1. PICK f : Wiki!Call(c, "retire", x, f, Wiki!RetirePlan)
    BY <1>6 DEF Wiki!Retire
  <2> QED
    BY <2>1, CallStarts
<1>7. ASSUME NEW x, Wiki!Shelve(c, x) PROVE WikiInv'
  <2>1. PICK f : Wiki!Call(c, "shelve", x, f, Wiki!RetirePlan)
    BY <1>7 DEF Wiki!Shelve
  <2> QED
    BY <2>1, CallStarts
<1>8. ASSUME NEW x, Wiki!Delete(c, x) PROVE WikiInv'
  <2>1. PICK f : Wiki!Call(c, "delete", x, f, Wiki!DeletePlan)
    BY <1>8 DEF Wiki!Delete
  <2> QED
    BY <2>1, CallStarts
<1> QED
  BY <1>1, <1>2, <1>3, <1>4, <1>5, <1>6, <1>7, <1>8 DEF Wiki!Start

LEMMA Tails ==
  /\ Head(<<"keep", "unlink", "drop">>) = "keep" /\ Tail(<<"keep", "unlink", "drop">>) = <<"unlink", "drop">>
  /\ Head(<<"unlink", "drop">>) = "unlink" /\ Tail(<<"unlink", "drop">>) = <<"drop">>
  /\ Head(<<"drop">>) = "drop" /\ Tail(<<"drop">>) = <<>>
  /\ <<"keep", "unlink", "drop">> # <<"unlink", "drop">> /\ <<"drop">> # <<"unlink", "drop">> /\ <<>> # <<"unlink", "drop">>
  OBVIOUS

\* A step of a call: the plan is one shorter, and the copy is there once it has
\* been kept.
LEMMA CallAdvances ==
  ASSUME WikiInv, NEW c \in Callers, NEW step, Wiki!Doing(c, step), Wiki!Advance(c),
         DOMAIN s4 \subseteq DOMAIN s4', UNCHANGED s8,
         NEW page, page = s6[c].page, step = "keep" => HasCopy(page)'
  PROVE  WikiInv'
<1>1. PICK old : old = s6[c]
  OBVIOUS
<1> DEFINE left == Tail(old.todo)
           next == [op |-> old.op, page |-> old.page, text |-> old.text, status |-> old.status, todo |-> left]
<1>2. IsCall(old) /\ CallOK(old) /\ s6 = [d \in Callers |-> s6[d]]
  BY <1>1 DEF WikiInv
<1>3. [old EXCEPT !.todo = left] = next
  <2>1. PICK a, b, d, e, f : old = [op |-> a, page |-> b, text |-> d, status |-> e, todo |-> f]
    BY <1>2 DEF IsCall
  <2> HIDE DEF left
  <2> QED
    BY <2>1
<1>4. s6' = [s6 EXCEPT ![c] = IF left = <<>> THEN Wiki!Resting ELSE [old EXCEPT !.todo = left]]
  BY <1>1 DEF Wiki!Advance
<1>5. PICK x : x \in {Wiki!Resting, next} /\ s6' = [s6 EXCEPT ![c] = x]
  BY <1>3, <1>4
<1>6. old.todo # <<>> /\ Head(old.todo) = step
  BY <1>1 DEF Wiki!Doing
<1>7. IsCall(next)
  BY DEF IsCall
<1>8. old.op \in {"retire", "shelve"} => old.todo \in {<<"keep", "unlink", "drop">>, <<"unlink", "drop">>, <<"drop">>}
  BY <1>2, <1>6 DEF CallOK
<1>9. CallOK(next)'
  <2>1. CASE old.todo = <<"keep", "unlink", "drop">>
    <3>1. step = "keep" /\ next.todo = <<"unlink", "drop">>
      BY <1>6, <2>1, Tails
    <3>2. HasCopy(old.page)'
      BY <1>1, <3>1
    <3>3. next.page = old.page
      OBVIOUS
    <3> HIDE DEF next
    <3> QED
      BY <3>1, <3>2, <3>3 DEF CallOK
  <2>2. CASE old.todo \in {<<"unlink", "drop">>, <<"drop">>}
    <3>1. next.todo \in {<<"drop">>, <<>>}
      BY <2>2, Tails
    <3> HIDE DEF next
    <3> QED
      BY <3>1, Tails DEF CallOK
  <2>3. CASE old.op \notin {"retire", "shelve"}
    BY <2>3 DEF CallOK
  <2> QED
    BY <1>8, <2>1, <2>2, <2>3
<1>10. IsCall(x) /\ CallOK(x)'
  BY <1>5, <1>7, <1>9, RestingIsFine
<1> HIDE DEF next
<1> QED
  BY <1>5, <1>10, CallMoves

LEMMA KeepMakesACopy ==
  ASSUME WikiInv, NEW c \in Callers, Wiki!Keep(c), NEW page, page = s6[c].page
  PROVE  DOMAIN s4 \subseteq DOMAIN s4' /\ HasCopy(page)'
<1>1. UNCHANGED s8
  BY DEF Wiki!Keep
<1>2. DOMAIN s4' = {<<page, s8>>} \cup DOMAIN s4
  BY DEF Wiki!Keep
<1> QED
  BY <1>1, <1>2 DEF WikiInv, HasCopy

LEMMA WikiNext ==
  ASSUME WikiInv, [Wiki!Next]_(Wiki!vars)
  PROVE  WikiInv' /\ Wiki!RetireLeavesACopy
<1>1. Wiki!RetireLeavesACopy
  <2> SUFFICES ASSUME NEW c \in Callers, Wiki!Unlink(c), s6[c].op \in {"retire", "shelve"}
               PROVE  HasCopy(s6[c].page)
    BY DEF Wiki!RetireLeavesACopy, HasCopy
  <2>1. s6[c].todo # <<>> /\ Head(s6[c].todo) = "unlink"
    BY DEF Wiki!Unlink, Wiki!Doing
  <2> QED
    BY <2>1, Tails DEF WikiInv, CallOK
<1>2. ASSUME UNCHANGED Wiki!vars PROVE WikiInv'
  BY <1>2 DEF Wiki!vars, WikiInv, CallOK, HasCopy, IsCall
<1>3. ASSUME NEW c \in Callers, NEW step, step # "keep", Wiki!Doing(c, step), Wiki!Advance(c), UNCHANGED <<s4, s8>>
      PROVE  WikiInv'
  <2>1. PICK page : page = s6[c].page
    OBVIOUS
  <2>2. DOMAIN s4 \subseteq DOMAIN s4'
    BY <1>3
  <2> QED
    BY <1>3, <2>1, <2>2, CallAdvances
<1>4. ASSUME NEW c \in Callers, Wiki!Write(c) \/ Wiki!Save(c) \/ Wiki!Link(c) \/ Wiki!WriteHub(c) \/ Wiki!Chunk(c)
                                \/ Wiki!Unlink(c) \/ Wiki!DropRow(c)
      PROVE  WikiInv'
  <2>1. PICK step \in {"write", "save", "link", "hub", "chunk", "unlink", "drop"} :
          Wiki!Doing(c, step) /\ Wiki!Advance(c) /\ UNCHANGED <<s4, s8>>
    BY <1>4 DEF Wiki!Write, Wiki!Save, Wiki!Link, Wiki!WriteHub, Wiki!Chunk, Wiki!Unlink, Wiki!DropRow
  <2> QED
    BY <1>3, <2>1
<1>5. ASSUME NEW c \in Callers, Wiki!Keep(c) PROVE WikiInv'
  <2>1. PICK page : page = s6[c].page
    OBVIOUS
  <2>2. Wiki!Doing(c, "keep") /\ Wiki!Advance(c) /\ UNCHANGED s8
    BY <1>5 DEF Wiki!Keep
  <2>3. DOMAIN s4 \subseteq DOMAIN s4' /\ HasCopy(page)'
    BY <1>5, <2>1, KeepMakesACopy
  <2> QED
    BY <2>1, <2>2, <2>3, CallAdvances
<1>6. ASSUME NEW c \in Callers, Wiki!Crash(c) PROVE WikiInv'
  <2>1. s6' = [s6 EXCEPT ![c] = Wiki!Resting] /\ UNCHANGED <<s4, s8>>
    BY <1>6 DEF Wiki!Crash
  <2> QED
    BY <2>1, RestingIsFine, CallMoves
<1>7. ASSUME Wiki!Tick PROVE WikiInv'
  <2>1. s8' \in 0..MaxSeconds /\ UNCHANGED <<s4, s6>>
    BY <1>7, WikiAssumption DEF Wiki!Tick, WikiInv
  <2> QED
    BY <2>1 DEF WikiInv, CallOK, HasCopy, IsCall
<1>8. ASSUME Wiki!Reindex \/ \E x \in Pages : Wiki!ReadFile(x) \/ Wiki!IndexFile(x) PROVE WikiInv'
  <2>1. UNCHANGED <<s4, s6, s8>>
    BY <1>8 DEF Wiki!Reindex, Wiki!ReadFile, Wiki!IndexFile
  <2> QED
    BY <2>1 DEF WikiInv, CallOK, HasCopy, IsCall
<1> QED
  BY <1>1, <1>2, <1>4, <1>5, <1>6, <1>7, <1>8, WikiStarts DEF Wiki!Next

------------------------------------------------------------------------------
(* The repair scripts *)

FactLines == [entry : Nat, value : {v, w}, raw : {"owner", "agent"}, dated : BOOLEAN]
EpisodeLines == [text : Passages, raw : {"none", "owner", "agent"}, dated : BOOLEAN]
Bounded(b) == b.values \subseteq {v, w} /\ b.writes \in Nat

LinesOK ==
    /\ s1 \in [FactKeys -> FactLines \cup {None}]
    /\ s2 \in [EpisodeIds -> EpisodeLines \cup {None}]
    /\ \A i \in EpisodeIds : s2[i] # None => i \in s3
    /\ s10 \in BOOLEAN

IsRun(x) ==
    x = [script |-> x.script, pc |-> x.pc, plan |-> x.plan, left |-> x.left, row |-> x.row,
         nodes |-> x.nodes, facts |-> x.facts, episodes |-> x.episodes, file |-> x.file]

\* An episode a script has planned to take is the one it saw, or gone: ids are
\* not used again.
SnapshotOK(x) ==
    x.script \in {"episode twins", "leaks", "legacy"} =>
      \A i \in EpisodeIds : i \in x.plan => i \in s3 /\ (s2[i] # None => s2[i].text = x.episodes[i].text)

\* What is no longer left to archive has its copy, before anything is deleted.
HasCopyOf(x, i) == <<"episode", i, x.episodes[i].text>> \in s8
ArchivedOK(x) ==
    x.script \in {"episode twins", "legacy"} =>
      /\ x.pc = "archive" => \A i \in EpisodeIds : i \in x.plan /\ i \notin x.left => HasCopyOf(x, i)
      /\ x.pc = "delete" => \A i \in EpisodeIds : i \in x.plan => HasCopyOf(x, i)

\* Undisturbed, what a script has still to do is what it would plan now.
ToDo(x) ==
    CASE x.script = "core twins" /\ x.pc = "archive" -> x.left
      [] x.script = "core twins" /\ x.pc = "delete"  -> x.left \cup {x.row}
      [] x.script = "mirror"                         -> x.left
      [] OTHER                                       -> x.plan
OnCourse(b, x) ==
    s10 = TRUE =>
      /\ x.pc = "verify" => Repairs(b)!PlanOf(x.script) = {}
      /\ x.pc # "verify" => Repairs(b)!PlanOf(x.script) = ToDo(x)
      /\ x.script = "core twins" /\ x.pc = "delete" => x.row \notin x.left
      /\ x.script = "mirror" => x.file = s6

RepairInv(b) ==
    /\ LinesOK
    /\ s9 # None => IsRun(s9) /\ SnapshotOK(s9) /\ ArchivedOK(s9) /\ OnCourse(b, s9)

Repaired(b) == RepairInv(b)' /\ Repairs(b)!DeletedEpisodesAreArchived

LEMMA RepairInit ==
  ASSUME NEW b, Repairs(b)!Init
  PROVE  RepairInv(b)
  BY DEF Repairs!Init, RepairInv, LinesOK

LEMMA RowsAreThere == None \notin FactLines /\ None \notin EpisodeLines
  BY RepairsAssumption DEF FactLines, EpisodeLines

\* A handler has written: a plan made before is no longer on course, but the
\* episodes it takes are those it saw.
LEMMA HandlersWrite ==
  ASSUME NEW b, RepairInv(b), UNCHANGED s9, LinesOK', s10' = FALSE, s3 \subseteq s3', s8 \subseteq s8',
         \A i \in EpisodeIds : i \in s3 /\ s2'[i] # None => s2[i] # None /\ s2'[i].text = s2[i].text,
         \A i \in EpisodeIds : s2[i] # None /\ s2'[i] = None => <<"episode", i, s2[i].text>> \in s8'
  PROVE  Repaired(b)
<1>1. Repairs(b)!DeletedEpisodesAreArchived
  BY DEF Repairs!DeletedEpisodesAreArchived
<1>2. ASSUME s9 # None PROVE SnapshotOK(s9)' /\ ArchivedOK(s9)'
  <2>1. SnapshotOK(s9) /\ ArchivedOK(s9)
    BY <1>2 DEF RepairInv
  <2>2. SnapshotOK(s9)'
    BY <2>1 DEF SnapshotOK
  <2>3. ArchivedOK(s9)'
    BY <2>1 DEF ArchivedOK, HasCopyOf
  <2> QED
    BY <2>2, <2>3
<1>3. OnCourse(b, s9)'
  BY DEF OnCourse
<1> QED
  BY <1>1, <1>2, <1>3 DEF Repaired, RepairInv, IsRun

LEMMA FactsWritten ==
  ASSUME NEW b, Bounded(b), RepairInv(b), NEW k \in FactKeys,
         Repairs(b)!ForgetFact(k) \/ \E row \in Repairs(b)!FactRow : Repairs(b)!SaveFact(k, row)
  PROVE  Repaired(b)
<1>1. UNCHANGED <<s2, s3, s9>> /\ s10' = FALSE /\ s8 \subseteq s8'
  BY DEF Repairs!ForgetFact, Repairs!SaveFact, Repairs!Writes
<1>2. s1' \in [FactKeys -> FactLines \cup {None}]
  <2>1. Repairs(b)!FactRow \subseteq FactLines
    BY DEF Repairs!FactRow, Repairs!Entries, FactLines, Bounded
  <2>2. PICK row \in FactLines \cup {None} : s1' = [s1 EXCEPT ![k] = row]
    BY <2>1 DEF Repairs!ForgetFact, Repairs!SaveFact
  <2> QED
    BY <2>2 DEF RepairInv, LinesOK
<1>3. LinesOK'
  BY <1>1, <1>2 DEF RepairInv, LinesOK
<1> QED
  BY <1>1, <1>3, HandlersWrite

LEMMA EpisodesWritten ==
  ASSUME NEW b, RepairInv(b), NEW i \in EpisodeIds,
         Repairs(b)!ForgetEpisode(i) \/ \E row \in Repairs(b)!EpisodeRow : Repairs(b)!SaveEpisode(i, row)
  PROVE  Repaired(b)
<1>1. UNCHANGED s9 /\ s10' = FALSE
  BY DEF Repairs!ForgetEpisode, Repairs!SaveEpisode, Repairs!Writes
<1>2. s2 \in [EpisodeIds -> EpisodeLines \cup {None}] /\ \A j \in EpisodeIds : s2[j] # None => j \in s3
  BY DEF RepairInv, LinesOK
<1>3. CASE Repairs(b)!ForgetEpisode(i)
  <2>1. s2' = [s2 EXCEPT ![i] = None] /\ UNCHANGED <<s1, s3>> /\ s8' = s8 \cup {<<"episode", i, s2[i].text>>}
    BY <1>3 DEF Repairs!ForgetEpisode
  <2>2. s2' \in [EpisodeIds -> EpisodeLines \cup {None}] /\ (\A j \in EpisodeIds : s2'[j] = None \/ s2'[j] = s2[j])
        /\ s2'[i] = None /\ \A j \in EpisodeIds \ {i} : s2'[j] = s2[j]
    BY <1>2, <2>1
  <2>3. LinesOK'
    BY <1>1, <1>2, <2>1, <2>2 DEF RepairInv, LinesOK
  <2> QED
    BY <1>1, <2>1, <2>2, <2>3, HandlersWrite
<1>4. CASE \E row \in Repairs(b)!EpisodeRow : Repairs(b)!SaveEpisode(i, row)
  <2>1. PICK row \in EpisodeLines : s2' = [s2 EXCEPT ![i] = row]
    BY <1>4 DEF Repairs!SaveEpisode, Repairs!EpisodeRow, Repairs!Raws, EpisodeLines
  <2>2. UNCHANGED <<s1, s8>> /\ s3' = s3 \cup {i} /\ i \notin s3
    BY <1>4 DEF Repairs!SaveEpisode
  <2>3. s2' \in [EpisodeIds -> EpisodeLines \cup {None}] /\ s2'[i] = row /\ \A j \in EpisodeIds \ {i} : s2'[j] = s2[j]
    BY <1>2, <2>1
  <2>4. LinesOK'
    BY <1>1, <1>2, <2>2, <2>3 DEF RepairInv, LinesOK
  <2>5. row # None
    BY RowsAreThere
  <2> QED
    BY <1>1, <2>2, <2>3, <2>4, <2>5, HandlersWrite
<1> QED
  BY <1>3, <1>4

LEMMA OthersWritten ==
  ASSUME NEW b, RepairInv(b),
         (\E x, status : Repairs(b)!Journal(x, status)) \/ \E sections : Repairs(b)!EditFile(sections)
  PROVE  Repaired(b)
<1>1. UNCHANGED <<s1, s2, s3, s8, s9>> /\ s10' = FALSE
  BY DEF Repairs!Journal, Repairs!EditFile, Repairs!Writes
<1>2. LinesOK'
  BY <1>1 DEF RepairInv, LinesOK
<1> QED
  BY <1>1, <1>2, HandlersWrite

------------------------------------------------------------------------------
(* The steps of a script *)

LEMMA Plans ==
  ASSUME NEW b
  PROVE  /\ Repairs(b)!PlanOf("core twins") = Repairs(b)!TwinFacts
         /\ Repairs(b)!PlanOf("episode twins") = Repairs(b)!TwinEpisodes
         /\ Repairs(b)!PlanOf("leaks") = Repairs(b)!Leaked \cup Repairs(b)!LeakedEpisodes
         /\ Repairs(b)!PlanOf("legacy") = Repairs(b)!JunkEpisodes
         /\ Repairs(b)!PlanOf("dates") = Repairs(b)!Undated(s1) \cup Repairs(b)!Undated(s2)
         /\ Repairs(b)!PlanOf("stranded") = Repairs(b)!Stranded
         /\ Repairs(b)!PlanOf("mirror") = (s6 \ s7) \cup (s7 \ s6)
  BY DEF Repairs!PlanOf

LEMMA PlansStay ==
  ASSUME NEW b, UNCHANGED <<s1, s2, s4, s5, s6, s7>>, NEW script
  PROVE  Repairs(b)!PlanOf(script)' = Repairs(b)!PlanOf(script)
  BY DEF Repairs!PlanOf, Repairs!TwinFacts, Repairs!TwinEpisodes, Repairs!SameRaw, Repairs!Group, Repairs!Leaked,
         Repairs!LeakedEpisodes, Repairs!JunkEpisodes, Repairs!Undated, Repairs!Stranded, Repairs!Live

LEMMA RunEnds ==
  ASSUME NEW b, RepairInv(b), s9' = None, UNCHANGED <<s1, s2, s3, s10>>
  PROVE  Repaired(b)
<1>1. LinesOK'
  BY DEF RepairInv, LinesOK
<1>2. Repairs(b)!DeletedEpisodesAreArchived
  BY DEF Repairs!DeletedEpisodesAreArchived
<1> QED
  BY <1>1, <1>2 DEF Repaired, RepairInv

LEMMA RunBecomes ==
  ASSUME NEW b, NEW x, s9' = x, IsRun(x), LinesOK', SnapshotOK(x)', ArchivedOK(x)', OnCourse(b, x)',
         Repairs(b)!DeletedEpisodesAreArchived
  PROVE  Repaired(b)
<1>1. s9' # None => IsRun(s9)' /\ SnapshotOK(s9)' /\ ArchivedOK(s9)' /\ OnCourse(b, s9)'
  BY DEF IsRun, SnapshotOK, ArchivedOK, HasCopyOf, OnCourse, ToDo
<1> QED
  BY <1>1 DEF Repaired, RepairInv

LEMMA PcGoes ==
  ASSUME NEW x, IsRun(x), NEW pc
  PROVE  [x EXCEPT !.pc = pc] =
           [script |-> x.script, pc |-> pc, plan |-> x.plan, left |-> x.left, row |-> x.row,
            nodes |-> x.nodes, facts |-> x.facts, episodes |-> x.episodes, file |-> x.file]
<1>1. PICK a1, a2, a3, a4, a5, a6, a7, a8, a9 :
        x = [script |-> a1, pc |-> a2, plan |-> a3, left |-> a4, row |-> a5, nodes |-> a6, facts |-> a7, episodes |-> a8, file |-> a9]
  BY DEF IsRun
<1> QED
  BY <1>1

LEMMA LeftGoes ==
  ASSUME NEW x, IsRun(x), NEW left
  PROVE  [x EXCEPT !.left = left] =
           [script |-> x.script, pc |-> x.pc, plan |-> x.plan, left |-> left, row |-> x.row,
            nodes |-> x.nodes, facts |-> x.facts, episodes |-> x.episodes, file |-> x.file]
<1>1. PICK a1, a2, a3, a4, a5, a6, a7, a8, a9 :
        x = [script |-> a1, pc |-> a2, plan |-> a3, left |-> a4, row |-> a5, nodes |-> a6, facts |-> a7, episodes |-> a8, file |-> a9]
  BY DEF IsRun
<1> QED
  BY <1>1

LEMMA RowGoes ==
  ASSUME NEW x, IsRun(x), NEW row
  PROVE  [x EXCEPT !.row = row] =
           [script |-> x.script, pc |-> x.pc, plan |-> x.plan, left |-> x.left, row |-> row,
             nodes |-> x.nodes, facts |-> x.facts, episodes |-> x.episodes, file |-> x.file]
<1>1. PICK a1, a2, a3, a4, a5, a6, a7, a8, a9 :
        x = [script |-> a1, pc |-> a2, plan |-> a3, left |-> a4, row |-> a5, nodes |-> a6, facts |-> a7, episodes |-> a8, file |-> a9]
  BY DEF IsRun
<1> QED
  BY <1>1

LEMMA PcAndLeftGo ==
  ASSUME NEW x, IsRun(x), NEW pc, NEW left
  PROVE  [x EXCEPT !.pc = pc, !.left = left] =
           [script |-> x.script, pc |-> pc, plan |-> x.plan, left |-> left, row |-> x.row,
             nodes |-> x.nodes, facts |-> x.facts, episodes |-> x.episodes, file |-> x.file]
<1> DEFINE y1 == [x EXCEPT !.pc = pc]
           y2 == [y1 EXCEPT !.left = left]
<1>1. y1 = [script |-> x.script, pc |-> pc, plan |-> x.plan, left |-> x.left, row |-> x.row,
                 nodes |-> x.nodes, facts |-> x.facts, episodes |-> x.episodes, file |-> x.file] /\ IsRun(y1)
  BY PcGoes DEF IsRun
<1> HIDE DEF y1
<1>2. y2 = [script |-> x.script, pc |-> pc, plan |-> x.plan, left |-> left, row |-> x.row,
                 nodes |-> x.nodes, facts |-> x.facts, episodes |-> x.episodes, file |-> x.file] /\ IsRun(y2)
  BY <1>1, LeftGoes DEF IsRun
<1> HIDE DEF y2
<1> QED
  BY <1>2 DEF y1, y2

LEMMA LeftAndPcGo ==
  ASSUME NEW x, IsRun(x), NEW left, NEW pc
  PROVE  [x EXCEPT !.left = left, !.pc = pc] =
           [script |-> x.script, pc |-> pc, plan |-> x.plan, left |-> left, row |-> x.row,
             nodes |-> x.nodes, facts |-> x.facts, episodes |-> x.episodes, file |-> x.file]
<1> DEFINE y1 == [x EXCEPT !.left = left]
           y2 == [y1 EXCEPT !.pc = pc]
<1>1. y1 = [script |-> x.script, pc |-> x.pc, plan |-> x.plan, left |-> left, row |-> x.row,
                 nodes |-> x.nodes, facts |-> x.facts, episodes |-> x.episodes, file |-> x.file] /\ IsRun(y1)
  BY LeftGoes DEF IsRun
<1> HIDE DEF y1
<1>2. y2 = [script |-> x.script, pc |-> pc, plan |-> x.plan, left |-> left, row |-> x.row,
                 nodes |-> x.nodes, facts |-> x.facts, episodes |-> x.episodes, file |-> x.file] /\ IsRun(y2)
  BY <1>1, PcGoes DEF IsRun
<1> HIDE DEF y2
<1> QED
  BY <1>2 DEF y1, y2

LEMMA AllThreeGo ==
  ASSUME NEW x, IsRun(x), NEW pc, NEW left, NEW row
  PROVE  [x EXCEPT !.pc = pc, !.left = left, !.row = row] =
           [script |-> x.script, pc |-> pc, plan |-> x.plan, left |-> left, row |-> row,
             nodes |-> x.nodes, facts |-> x.facts, episodes |-> x.episodes, file |-> x.file]
<1> DEFINE y1 == [x EXCEPT !.pc = pc]
           y2 == [y1 EXCEPT !.left = left]
           y3 == [y2 EXCEPT !.row = row]
<1>1. y1 = [script |-> x.script, pc |-> pc, plan |-> x.plan, left |-> x.left, row |-> x.row,
                 nodes |-> x.nodes, facts |-> x.facts, episodes |-> x.episodes, file |-> x.file] /\ IsRun(y1)
  BY PcGoes DEF IsRun
<1> HIDE DEF y1
<1>2. y2 = [script |-> x.script, pc |-> pc, plan |-> x.plan, left |-> left, row |-> x.row,
                 nodes |-> x.nodes, facts |-> x.facts, episodes |-> x.episodes, file |-> x.file] /\ IsRun(y2)
  BY <1>1, LeftGoes DEF IsRun
<1> HIDE DEF y2
<1>3. y3 = [script |-> x.script, pc |-> pc, plan |-> x.plan, left |-> left, row |-> row,
                 nodes |-> x.nodes, facts |-> x.facts, episodes |-> x.episodes, file |-> x.file] /\ IsRun(y3)
  BY <1>2, RowGoes DEF IsRun
<1> HIDE DEF y3
<1> QED
  BY <1>3 DEF y1, y2, y3

LEMMA ScriptStarts ==
  ASSUME NEW b, RepairInv(b), NEW script \in Repairs(b)!Scripts, Repairs(b)!Start(script)
  PROVE  Repaired(b)
<1>1. PICK plan : plan = Repairs(b)!PlanOf(script)
  OBVIOUS
<1>2. PICK pc : pc = Repairs(b)!FirstStep(script)
  OBVIOUS
<1>3. pc \in {"guard", "archive", "delete"} /\ (script = "core twins" => pc = "guard") /\ (script = "episode twins" => pc = "guard")
      /\ (script = "mirror" => pc = "delete") /\ (script = "legacy" => pc = "archive")
  BY <1>2 DEF Repairs!FirstStep
<1>4. PICK x, episodes : /\ s9' = x
                         /\ episodes = s2 
                         /\ \E nodes, facts, file : file = s6 /\ x = [script |-> script, pc |-> pc, plan |-> plan, left |-> plan, row |-> None,
                              nodes |-> nodes, facts |-> facts, episodes |-> episodes, file |-> file]
  BY <1>1, <1>2 DEF Repairs!Start
<1>5. PICK nodes, facts, file :
        file = s6 /\ x = [script |-> script, pc |-> pc, plan |-> plan, left |-> plan, row |-> None,
                              nodes |-> nodes, facts |-> facts, episodes |-> episodes, file |-> file]
  BY <1>4
<1>6. UNCHANGED <<s1, s2, s3, s4, s5, s6, s7, s8>> /\ s10' = TRUE
  BY DEF Repairs!Start, Repairs!base
<1>7. IsRun(x) /\ x.script = script /\ x.pc = pc /\ x.plan = plan /\ x.left = plan /\ x.episodes = episodes /\ x.file = file
  BY <1>5 DEF IsRun
<1>8. LinesOK'
  BY <1>6 DEF RepairInv, LinesOK
<1>9. SnapshotOK(x)'
  <2> SUFFICES ASSUME script \in {"episode twins", "leaks", "legacy"}, NEW i \in EpisodeIds, i \in plan
               PROVE  i \in s3
    BY <1>4, <1>6, <1>7 DEF SnapshotOK
  <2>0. DOMAIN s1 = FactKeys /\ DOMAIN s2 = EpisodeIds
    BY DEF RepairInv, LinesOK
  <2>1. s2[i] # None
    <3>1. CASE script = "episode twins"
      <4>1. i \in Repairs(b)!TwinEpisodes
        BY <1>1, <3>1, Plans
      <4> QED
        BY <4>1 DEF Repairs!TwinEpisodes, Repairs!Live
    <3>2. CASE script = "leaks"
      <4>1. i \in Repairs(b)!Leaked \cup Repairs(b)!LeakedEpisodes
        BY <1>1, <3>2, Plans
      <4> QED
        BY <2>0, <4>1, RepairsAssumption DEF Repairs!Leaked, Repairs!LeakedEpisodes, Repairs!Live
    <3>3. CASE script = "legacy"
      <4>1. i \in Repairs(b)!JunkEpisodes
        BY <1>1, <3>3, Plans
      <4> QED
        BY <4>1 DEF Repairs!JunkEpisodes, Repairs!Live
    <3> QED
      BY <3>1, <3>2, <3>3
  <2> QED
    BY <2>1 DEF RepairInv, LinesOK
<1>10. ArchivedOK(x)'
  BY <1>3, <1>7 DEF ArchivedOK
<1>11. OnCourse(b, x)'
  <2>1. Repairs(b)!PlanOf(script)' = plan
    BY <1>1, <1>6, PlansStay
  <2>2. ToDo(x) = plan
    BY <1>3, <1>7 DEF ToDo
  <2>3. pc # "verify" /\ ~(script = "core twins" /\ pc = "delete") /\ file = s6'
    BY <1>3, <1>5, <1>6
  <2> QED
    BY <1>7, <2>1, <2>2, <2>3 DEF OnCourse, ToDo
<1>12. Repairs(b)!DeletedEpisodesAreArchived
  BY <1>6 DEF Repairs!DeletedEpisodesAreArchived
<1> QED
  BY <1>4, <1>7, <1>8, <1>9, <1>10, <1>11, <1>12, RunBecomes

\* A script that changes its own record only, or the archive.
LEMMA ScriptGoesOn ==
  ASSUME NEW b, RepairInv(b), s9 # None, NEW old, old = s9, NEW pc, NEW left, NEW row, NEW x,
         x = [script |-> old.script, pc |-> pc, plan |-> old.plan, left |-> left, row |-> row,
              nodes |-> old.nodes, facts |-> old.facts, episodes |-> old.episodes, file |-> old.file],
         s9' = x, UNCHANGED <<s1, s2, s3, s4, s5, s6, s7, s10>>, s8 \subseteq s8', ArchivedOK(x)',
         s10 = TRUE => /\ pc # "verify" => ToDo(x) = ToDo(old) /\ old.pc # "verify"
                       /\ old.script = "core twins" /\ pc = "delete" => row \notin left
                       /\ pc = "verify" => Repairs(b)!PlanOf(old.script) = {}
  PROVE  Repaired(b)
<1>1. IsRun(x) /\ x.script = old.script /\ x.pc = pc /\ x.plan = old.plan /\ x.left = left /\ x.row = row
      /\ x.episodes = old.episodes /\ x.file = old.file
  BY DEF IsRun
<1>2. LinesOK'
  BY DEF RepairInv, LinesOK
<1>3. SnapshotOK(x)'
  BY <1>1 DEF RepairInv, SnapshotOK
<1>4. OnCourse(b, old)
  BY DEF RepairInv
<1>5. Repairs(b)!PlanOf(x.script)' = Repairs(b)!PlanOf(old.script)
  BY <1>1, PlansStay
<1>6. OnCourse(b, x)'
  <2> SUFFICES ASSUME s10 = TRUE PROVE OnCourse(b, x)'
    BY DEF OnCourse
  <2>1. pc # "verify" => Repairs(b)!PlanOf(x.script)' = ToDo(x)
    BY <1>4, <1>5 DEF OnCourse
  <2>2. ToDo(x)' = ToDo(x)
    BY DEF ToDo
  <2>3. x.script = "mirror" => x.file = s6'
    BY <1>1, <1>4 DEF OnCourse
  <2> QED
    BY <1>1, <1>5, <2>1, <2>2, <2>3 DEF OnCourse
<1>7. Repairs(b)!DeletedEpisodesAreArchived
  BY DEF Repairs!DeletedEpisodesAreArchived
<1> QED
  BY <1>1, <1>2, <1>3, <1>6, <1>7, RunBecomes

LEMMA Guards ==
  ASSUME NEW b, RepairInv(b), Repairs(b)!GuardFacts \/ Repairs(b)!GuardEpisodes
  PROVE  Repaired(b)
<1>1. PICK old : old = s9
  OBVIOUS
<1>2. PICK pc : pc = "archive"
  OBVIOUS
<1>3. PICK left : left = old.plan
  OBVIOUS
<1>4. PICK x : x = [old EXCEPT !.pc = pc, !.left = left]
  OBVIOUS
<1>5. s9 # None /\ old.pc = "guard" /\ old.script \in {"core twins", "episode twins"}
      /\ UNCHANGED <<s1, s2, s3, s4, s5, s6, s7, s8, s10>>
      /\ (s9' = None \/ s9' = x)
  BY <1>1, <1>2, <1>3, <1>4
     DEF Repairs!GuardFacts, Repairs!GuardEpisodes, Repairs!At, Repairs!Abort, Repairs!Go, Repairs!base, Repairs!Keep
<1>6. CASE s9' = None
  BY <1>5, <1>6, RunEnds
<1>7. CASE s9' = x
  <2>1. x = [script |-> old.script, pc |-> pc, plan |-> old.plan, left |-> left, row |-> old.row,
             nodes |-> old.nodes, facts |-> old.facts, episodes |-> old.episodes, file |-> old.file]
    <3>1. IsRun(old)
      BY <1>1, <1>5 DEF RepairInv
    <3> QED
      BY <1>4, <3>1, PcAndLeftGo
  <2>2. ArchivedOK(x)'
    BY <1>2, <1>3, <2>1 DEF ArchivedOK
  <2>3. ToDo(x) = ToDo(old)
    BY <1>2, <1>3, <1>5, <2>1 DEF ToDo
  <2>4. s10 = TRUE =>
         /\ pc # "verify" => ToDo(x) = ToDo(old) /\ old.pc # "verify"
         /\ old.script = "core twins" /\ pc = "delete" => old.row \notin left
         /\ pc = "verify" => Repairs(b)!PlanOf(old.script) = {}
    BY <1>2, <1>5, <2>3
  <2>5. s8 \subseteq s8' /\ UNCHANGED <<s1, s2, s3, s4, s5, s6, s7, s10>> /\ s9 # None
    BY <1>5
  <2> QED
    BY <1>1, <1>7, <2>1, <2>2, <2>4, <2>5, ScriptGoesOn
<1> QED
  BY <1>5, <1>6, <1>7

LEMMA FactArchived ==
  ASSUME NEW b, RepairInv(b), NEW k \in FactKeys, Repairs(b)!ArchiveFact(k)
  PROVE  Repaired(b)
<1>1. PICK old : old = s9
  OBVIOUS
<1>2. PICK left : left = old.left \ {k}
  OBVIOUS
<1>3. PICK x : x = [old EXCEPT !.pc = "delete", !.left = left, !.row = k]
  OBVIOUS
<1>4. s9 # None /\ old.pc = "archive" /\ old.script = "core twins" /\ k \in old.left /\ s8 \subseteq s8' /\ s9' = x
      /\ UNCHANGED <<s1, s2, s3, s4, s5, s6, s7, s10>>
  BY <1>1, <1>2, <1>3 DEF Repairs!ArchiveFact, Repairs!At, Repairs!base, Repairs!Keep
<1>5. x = [script |-> old.script, pc |-> "delete", plan |-> old.plan, left |-> left, row |-> k,
           nodes |-> old.nodes, facts |-> old.facts, episodes |-> old.episodes, file |-> old.file]
  <2>1. IsRun(old)
    BY <1>1, <1>4 DEF RepairInv
  <2> QED
    BY <1>3, <2>1, AllThreeGo
<1>6. ArchivedOK(x)'
  BY <1>4, <1>5 DEF ArchivedOK
<1>7. ToDo(x) = ToDo(old)
  BY <1>2, <1>4, <1>5 DEF ToDo
<1>8. k \notin left
  BY <1>2
<1>9. s10 = TRUE =>
       /\ "delete" # "verify" => ToDo(x) = ToDo(old) /\ old.pc # "verify"
       /\ old.script = "core twins" /\ "delete" = "delete" => k \notin left
       /\ "delete" = "verify" => Repairs(b)!PlanOf(old.script) = {}
  BY <1>4, <1>7, <1>8
<1> QED
  BY <1>1, <1>4, <1>5, <1>6, <1>9, ScriptGoesOn

LEMMA EpisodeArchived ==
  ASSUME NEW b, RepairInv(b), NEW i \in EpisodeIds, Repairs(b)!ArchiveEpisode(i)
  PROVE  Repaired(b)
<1>1. PICK old : old = s9
  OBVIOUS
<1>2. PICK left : left = old.left \ {i}
  OBVIOUS
<1>3. PICK pc : pc = IF old.left = {i} THEN "delete" ELSE old.pc
  OBVIOUS
<1>4. PICK x : x = [old EXCEPT !.left = left, !.pc = pc]
  OBVIOUS
<1>5. s9 # None /\ old.pc = "archive" /\ old.script \in {"episode twins", "legacy"} /\ i \in old.left /\ s9' = x
      /\ s8' = s8 \cup {<<"episode", i, old.episodes[i].text>>}
      /\ UNCHANGED <<s1, s2, s3, s4, s5, s6, s7, s10>>
  BY <1>1, <1>2, <1>3, <1>4 DEF Repairs!ArchiveEpisode, Repairs!CopyOf, Repairs!base, Repairs!Keep
<1>6. x = [script |-> old.script, pc |-> pc, plan |-> old.plan, left |-> left, row |-> old.row,
           nodes |-> old.nodes, facts |-> old.facts, episodes |-> old.episodes, file |-> old.file]
  <2>1. IsRun(old)
    BY <1>1, <1>5 DEF RepairInv
  <2> QED
    BY <1>4, <2>1, LeftAndPcGo
<1>7. ArchivedOK(old)
  BY <1>1, <1>5 DEF RepairInv
<1>8. x.pc = pc /\ x.left = left /\ x.plan = old.plan /\ x.episodes = old.episodes
  BY <1>6
<1>9. \A j \in EpisodeIds : j \in old.plan /\ j \notin left => HasCopyOf(x, j)'
  BY <1>2, <1>5, <1>7, <1>8 DEF ArchivedOK, HasCopyOf
<1>10. ArchivedOK(x)'
  BY <1>2, <1>3, <1>5, <1>8, <1>9 DEF ArchivedOK
<1>11. ToDo(x) = ToDo(old) /\ pc # "verify"
  BY <1>3, <1>5, <1>6 DEF ToDo
<1>12. s8 \subseteq s8'
  BY <1>5
<1>13. s10 = TRUE =>
       /\ pc # "verify" => ToDo(x) = ToDo(old) /\ old.pc # "verify"
       /\ old.script = "core twins" /\ pc = "delete" => old.row \notin left
       /\ pc = "verify" => Repairs(b)!PlanOf(old.script) = {}
  BY <1>5, <1>11
<1>14. s9 # None /\ s9' = x /\ UNCHANGED <<s1, s2, s3, s4, s5, s6, s7, s10>>
  BY <1>5
<1> QED
  BY <1>1, <1>6, <1>10, <1>12, <1>13, <1>14, ScriptGoesOn

LEMMA ScriptEnds ==
  ASSUME NEW b, RepairInv(b), Repairs(b)!Verified \/ Repairs(b)!Killed
  PROVE  Repaired(b)
<1>1. s9' = None /\ UNCHANGED <<s1, s2, s3, s10>>
  BY DEF Repairs!Verified, Repairs!Killed, Repairs!base, Repairs!Keep
<1> QED
  BY <1>1, RunEnds

LEMMA MirrorDone ==
  ASSUME NEW b, RepairInv(b), Repairs(b)!Mirrored
  PROVE  Repaired(b)
<1>1. PICK old : old = s9
  OBVIOUS
<1>2. PICK x : x = [old EXCEPT !.pc = "verify", !.left = old.plan]
  OBVIOUS
<1>3. s9 # None /\ old.pc = "delete" /\ old.script = "mirror" /\ old.left = {} /\ s9' = x
      /\ UNCHANGED <<s1, s2, s3, s4, s5, s6, s7, s8, s10>>
  BY <1>1, <1>2 DEF Repairs!Mirrored, Repairs!At, Repairs!Go, Repairs!base, Repairs!Keep
<1>4. x = [script |-> old.script, pc |-> "verify", plan |-> old.plan, left |-> old.plan, row |-> old.row,
           nodes |-> old.nodes, facts |-> old.facts, episodes |-> old.episodes, file |-> old.file]
  <2>1. IsRun(old)
    BY <1>1, <1>3 DEF RepairInv
  <2> QED
    BY <1>2, <2>1, PcAndLeftGo
<1>5. ArchivedOK(x)'
  BY <1>3, <1>4 DEF ArchivedOK
<1>6. s10 = TRUE => Repairs(b)!PlanOf(old.script) = {}
  BY <1>1, <1>3 DEF RepairInv, OnCourse, ToDo
<1>7. s8 \subseteq s8'
  BY <1>3
<1> QED
  BY <1>1, <1>3, <1>4, <1>5, <1>6, <1>7, ScriptGoesOn

------------------------------------------------------------------------------
(* What the scripts remove and change *)

\* Removing one twin leaves the others twins of the one that stays.
LEMMA OneTwinLess ==
  ASSUME NEW b, LinesOK, NEW k \in Repairs(b)!TwinFacts, s1' = [x \in FactKeys |-> IF x = k THEN None ELSE s1[x]]
  PROVE  Repairs(b)!TwinFacts' = Repairs(b)!TwinFacts \ {k}
<1> DEFINE Alive == {x \in FactKeys : s1[x] # None}
           Twin(x, y) == y > x /\ s1[y].value = s1[x].value
<1>1. DOMAIN s1 = FactKeys /\ DOMAIN s1' = FactKeys /\ (\A x \in FactKeys : s1'[x] = IF x = k THEN None ELSE s1[x])
  BY DEF LinesOK
<1>2. Repairs(b)!TwinFacts = {x \in Alive : \E y \in Alive : Twin(x, y)}
  BY <1>1 DEF Repairs!TwinFacts, Repairs!Live
<1>3. Repairs(b)!TwinFacts' = {x \in Alive \ {k} : \E y \in Alive \ {k} : Twin(x, y)}
  <2>1. {x \in DOMAIN s1' : s1'[x] # None} = Alive \ {k}
    BY <1>1
  <2>2. Repairs(b)!TwinFacts' =
          {x \in Alive \ {k} : \E y \in Alive \ {k} : y > x /\ s1'[y].value = s1'[x].value}
    BY <2>1 DEF Repairs!TwinFacts, Repairs!Live
  <2>3. \A x, y \in Alive \ {k} : (y > x /\ s1'[y].value = s1'[x].value) <=> Twin(x, y)
    BY <1>1
  <2> HIDE DEF Alive, Twin
  <2> QED
    BY <2>2, <2>3
<1>4. ASSUME NEW x \in Alive \ {k}, \E y \in Alive : Twin(x, y) PROVE \E y \in Alive \ {k} : Twin(x, y)
  <2>1. PICK y \in Alive : Twin(x, y)
    BY <1>4
  <2>2. PICK z \in Alive : Twin(k, z)
    BY <1>2
  <2>3. k \in Nat /\ x \in Nat /\ y \in Nat /\ z \in Nat
    BY <1>1, RepairsAssumption DEF Repairs!TwinFacts, Repairs!Live
  <2>4. CASE y = k
    <3>1. Twin(x, z) /\ z # k
      BY <2>1, <2>2, <2>3, <2>4
    <3> QED
      BY <3>1
  <2> QED
    BY <2>1, <2>4
<1> HIDE DEF Alive, Twin
<1> QED
  BY <1>2, <1>3, <1>4

LEMMA FactDeleted ==
  ASSUME NEW b, RepairInv(b), NEW k \in FactKeys, Repairs(b)!DeleteFact(k)
  PROVE  Repaired(b)
<1>1. PICK old : old = s9
  OBVIOUS
<1>2. PICK pc : pc = IF old.left = {} THEN "verify" ELSE "archive"
  OBVIOUS
<1>3. PICK x : x = [old EXCEPT !.pc = pc]
  OBVIOUS
<1>4. s9 # None /\ old.pc = "delete" /\ old.script = "core twins" /\ k = old.row /\ s9' = x
      /\ s1' = Repairs(b)!Removed(s1, {k}) /\ UNCHANGED <<s2, s3, s4, s5, s6, s7, s8, s10>>
  BY <1>1, <1>2, <1>3 DEF Repairs!DeleteFact, Repairs!At, Repairs!Keep
<1>5. x = [script |-> old.script, pc |-> pc, plan |-> old.plan, left |-> old.left, row |-> old.row,
           nodes |-> old.nodes, facts |-> old.facts, episodes |-> old.episodes, file |-> old.file]
  <2>1. IsRun(old)
    BY <1>1, <1>4 DEF RepairInv
  <2> QED
    BY <1>3, <2>1, PcGoes
<1>6. LinesOK /\ OnCourse(b, old)
  BY <1>1, <1>4 DEF RepairInv
<1>7. s1' = [y \in FactKeys |-> IF y = k THEN None ELSE s1[y]]
  BY <1>4, <1>6 DEF Repairs!Removed, LinesOK
<1>8. LinesOK'
  BY <1>4, <1>6, <1>7 DEF LinesOK
<1>9. IsRun(x) /\ x.script = "core twins" /\ x.pc = pc /\ x.left = old.left
  BY <1>4, <1>5 DEF IsRun
<1>10. ASSUME s10 = TRUE PROVE Repairs(b)!TwinFacts' = old.left
  <2>1. old.row \notin old.left /\ Repairs(b)!TwinFacts = old.left \cup {old.row}
    BY <1>4, <1>6, <1>10, Plans DEF OnCourse, ToDo
  <2>2. k \in Repairs(b)!TwinFacts
    BY <1>4, <2>1
  <2>3. Repairs(b)!TwinFacts' = Repairs(b)!TwinFacts \ {k}
    BY <1>6, <1>7, <2>2, OneTwinLess
  <2> QED
    BY <1>4, <2>1, <2>3
<1>11. OnCourse(b, x)'
  <2> SUFFICES ASSUME s10 = TRUE PROVE OnCourse(b, x)'
    BY <1>4 DEF OnCourse
  <2>1. Repairs(b)!PlanOf("core twins")' = old.left
    BY <1>10 DEF Repairs!PlanOf
  <2>2. (pc = "verify" <=> old.left = {}) /\ pc # "delete"
    BY <1>2
  <2>3. pc # "verify" => ToDo(x) = old.left
    BY <1>2, <1>9 DEF ToDo
  <2> QED
    BY <1>9, <2>1, <2>2, <2>3 DEF OnCourse, ToDo
<1>12. SnapshotOK(x)' /\ ArchivedOK(x)'
  BY <1>9 DEF SnapshotOK, ArchivedOK
<1>13. Repairs(b)!DeletedEpisodesAreArchived
  BY <1>4 DEF Repairs!DeletedEpisodesAreArchived
<1> QED
  BY <1>4, <1>8, <1>9, <1>11, <1>12, <1>13, RunBecomes

\* A script that removes or changes its plan in one transaction, and goes on to
\* its verification.
LEMMA ScriptCommits ==
  ASSUME NEW b, RepairInv(b), s9 # None, NEW old, old = s9, Repairs(b)!Go("verify"),
         LinesOK', UNCHANGED <<s3, s10>>,
         old.script \in {"episode twins", "leaks", "legacy"} => \A i \in EpisodeIds : s2'[i] = None \/ s2'[i] = s2[i],
         Repairs(b)!DeletedEpisodesAreArchived,
         old.script = "mirror" => s6' = s6,
         s10 = TRUE => Repairs(b)!PlanOf(old.script)' = {}
  PROVE  Repaired(b)
<1>1. PICK left : left = old.plan
  OBVIOUS
<1>2. PICK x : x = [old EXCEPT !.pc = "verify", !.left = left]
  OBVIOUS
<1>3. s9' = x
  BY <1>1, <1>2 DEF Repairs!Go
<1>4. IsRun(old) /\ SnapshotOK(old) /\ OnCourse(b, old)
  BY DEF RepairInv
<1>5. x = [script |-> old.script, pc |-> "verify", plan |-> old.plan, left |-> left, row |-> old.row,
           nodes |-> old.nodes, facts |-> old.facts, episodes |-> old.episodes, file |-> old.file]
  BY <1>2, <1>4, PcAndLeftGo
<1>6. IsRun(x) /\ x.script = old.script /\ x.pc = "verify" /\ x.plan = old.plan /\ x.episodes = old.episodes /\ x.file = old.file
  BY <1>5 DEF IsRun
<1>7. SnapshotOK(x)'
  BY <1>4, <1>6 DEF SnapshotOK
<1>8. ArchivedOK(x)'
  BY <1>6 DEF ArchivedOK
<1>9. OnCourse(b, x)'
  <2> SUFFICES ASSUME s10 = TRUE PROVE OnCourse(b, x)'
    BY DEF OnCourse
  <2>1. Repairs(b)!PlanOf(x.script)' = {}
    BY <1>6
  <2>2. x.script = "mirror" => x.file = s6'
    BY <1>4, <1>6 DEF OnCourse
  <2> QED
    BY <1>6, <2>1, <2>2 DEF OnCourse
<1> QED
  BY <1>3, <1>6, <1>7, <1>8, <1>9, RunBecomes

\* The episodes a script removes are those it saw, and their copies are there.
LEMMA EpisodesRemoved ==
  ASSUME NEW b, RepairInv(b), s9 # None, NEW old, old = s9,
         s2' = Repairs(b)!Removed(s2, old.plan), s8 \subseteq s8',
         old.script \in {"episode twins", "leaks", "legacy"},
         \A i \in EpisodeIds : i \in old.plan => <<"episode", i, old.episodes[i].text>> \in s8'
  PROVE  /\ s2' \in [EpisodeIds -> EpisodeLines \cup {None}]
         /\ \A i \in EpisodeIds : s2'[i] = IF i \in old.plan THEN None ELSE s2[i]
         /\ Repairs(b)!DeletedEpisodesAreArchived
<1>1. s2 \in [EpisodeIds -> EpisodeLines \cup {None}] /\ SnapshotOK(old)
  BY DEF RepairInv, LinesOK
<1>2. s2' = [i \in EpisodeIds |-> IF i \in old.plan THEN None ELSE s2[i]]
  BY <1>1 DEF Repairs!Removed
<1>3. s2' \in [EpisodeIds -> EpisodeLines \cup {None}] /\ \A i \in EpisodeIds : s2'[i] = IF i \in old.plan THEN None ELSE s2[i]
  BY <1>1, <1>2
<1>4. ASSUME NEW i \in EpisodeIds, s2[i] # None, s2'[i] = None PROVE <<"episode", i, s2[i].text>> \in s8'
  <2>1. i \in old.plan
    BY <1>3, <1>4
  <2>2. s2[i].text = old.episodes[i].text
    BY <1>1, <1>4, <2>1 DEF SnapshotOK
  <2> QED
    BY <2>1, <2>2
<1>5. Repairs(b)!DeletedEpisodesAreArchived
  BY <1>4 DEF Repairs!DeletedEpisodesAreArchived
<1> QED
  BY <1>3, <1>5

LEMMA TwinsDeleted ==
  ASSUME NEW b, RepairInv(b), Repairs(b)!DeleteTwins
  PROVE  Repaired(b)
<1>1. PICK old : old = s9
  OBVIOUS
<1>2. s9 # None /\ old.pc = "delete" /\ old.script = "episode twins" /\ Repairs(b)!Go("verify")
      /\ s2' = Repairs(b)!Removed(s2, old.plan) /\ UNCHANGED <<s1, s3, s4, s5, s6, s7, s8, s10>>
  BY <1>1 DEF Repairs!DeleteTwins, Repairs!At, Repairs!Keep
<1>3. ArchivedOK(old) /\ OnCourse(b, old) /\ LinesOK
  BY <1>1, <1>2 DEF RepairInv
<1>4. \A i \in EpisodeIds : i \in old.plan => <<"episode", i, old.episodes[i].text>> \in s8'
  BY <1>2, <1>3 DEF ArchivedOK, HasCopyOf
<1>5. /\ s2' \in [EpisodeIds -> EpisodeLines \cup {None}]
      /\ \A i \in EpisodeIds : s2'[i] = IF i \in old.plan THEN None ELSE s2[i]
      /\ Repairs(b)!DeletedEpisodesAreArchived
  BY <1>1, <1>2, <1>4, EpisodesRemoved
<1>6. LinesOK'
  BY <1>2, <1>3, <1>5 DEF LinesOK
<1>7. ASSUME s10 = TRUE PROVE Repairs(b)!TwinEpisodes' = {}
  <2> DEFINE Alike(i, j) == s2[j].text = s2[i].text
  <2>1. old.plan = Repairs(b)!TwinEpisodes
    BY <1>2, <1>3, <1>7, Plans DEF OnCourse, ToDo
  <2>2. DOMAIN s2 = EpisodeIds /\ DOMAIN s2' = EpisodeIds
    BY <1>3, <1>5 DEF LinesOK
  <2>3. \A i \in EpisodeIds : i \in old.plan <=>
          /\ s2[i] # None
          /\ \E raw \in Repairs(b)!Raws \ {"none"} : \A j \in EpisodeIds : s2[j] # None /\ Alike(i, j) => s2[j].raw = raw
          /\ \E j \in EpisodeIds : s2[j] # None /\ Alike(i, j) /\ j < i
    BY <2>1, <2>2 DEF Repairs!TwinEpisodes, Repairs!SameRaw, Repairs!Group, Repairs!Live
  <2>4. SUFFICES ASSUME NEW i \in Repairs(b)!TwinEpisodes' PROVE FALSE
    OBVIOUS
  <2>5. PICK raw \in Repairs(b)!Raws \ {"none"}, j \in EpisodeIds :
          /\ i \in EpisodeIds /\ s2'[i] # None
          /\ \A k \in EpisodeIds : s2'[k] # None /\ s2'[k].text = s2'[i].text => s2'[k].raw = raw
          /\ s2'[j] # None /\ s2'[j].text = s2'[i].text /\ j < i
    BY <2>2 DEF Repairs!TwinEpisodes, Repairs!SameRaw, Repairs!Group, Repairs!Live, Repairs!Raws
  <2>6. i \notin old.plan /\ s2'[i] = s2[i] /\ j \notin old.plan /\ s2'[j] = s2[j]
    BY <1>5, <2>5
  <2>7. PICK k \in EpisodeIds : s2[k] # None /\ Alike(i, k) /\ s2[k].raw # raw
    BY <2>3, <2>5, <2>6
  <2>8. k \in old.plan
    BY <1>5, <2>5, <2>6, <2>7
  <2>9. PICK one \in Repairs(b)!Raws \ {"none"} : \A m \in EpisodeIds : s2[m] # None /\ Alike(k, m) => s2[m].raw = one
    BY <2>3, <2>8
  <2>10. \A m \in EpisodeIds : s2[m] # None /\ Alike(i, m) => s2[m].raw = one
    BY <2>7, <2>9
  <2> QED
    BY <2>3, <2>5, <2>6, <2>10
<1>8. \A i \in EpisodeIds : s2'[i] = None \/ s2'[i] = s2[i]
  BY <1>5
<1>9. s10 = TRUE => Repairs(b)!PlanOf(old.script)' = {}
  BY <1>2, <1>7 DEF Repairs!PlanOf
<1>10. UNCHANGED <<s3, s10>> /\ s9 # None /\ (old.script = "mirror" => s6' = s6)
  BY <1>2
<1> QED
  BY <1>1, <1>2, <1>5, <1>6, <1>8, <1>9, <1>10, ScriptCommits

LEMMA JunkDeleted ==
  ASSUME NEW b, RepairInv(b), Repairs(b)!DeleteJunk
  PROVE  Repaired(b)
<1>1. PICK old : old = s9
  OBVIOUS
<1>2. s9 # None /\ old.pc = "delete" /\ old.script = "legacy" /\ Repairs(b)!Go("verify")
      /\ s2' = Repairs(b)!Removed(s2, old.plan) /\ UNCHANGED <<s1, s3, s5, s6, s7, s8, s10>>
  BY <1>1 DEF Repairs!DeleteJunk, Repairs!At, Repairs!Keep
<1>3. ArchivedOK(old) /\ OnCourse(b, old) /\ LinesOK
  BY <1>1, <1>2 DEF RepairInv
<1>4. \A i \in EpisodeIds : i \in old.plan => <<"episode", i, old.episodes[i].text>> \in s8'
  BY <1>2, <1>3 DEF ArchivedOK, HasCopyOf
<1>5. /\ s2' \in [EpisodeIds -> EpisodeLines \cup {None}]
      /\ \A i \in EpisodeIds : s2'[i] = IF i \in old.plan THEN None ELSE s2[i]
      /\ Repairs(b)!DeletedEpisodesAreArchived
  BY <1>1, <1>2, <1>4, EpisodesRemoved
<1>6. LinesOK'
  BY <1>2, <1>3, <1>5 DEF LinesOK
<1>7. ASSUME s10 = TRUE PROVE Repairs(b)!JunkEpisodes' = {}
  <2>1. old.plan = Repairs(b)!JunkEpisodes
    BY <1>2, <1>3, <1>7, Plans DEF OnCourse, ToDo
  <2>2. DOMAIN s2 = EpisodeIds /\ DOMAIN s2' = EpisodeIds
    BY <1>3, <1>5 DEF LinesOK
  <2> QED
    BY <1>5, <2>1, <2>2 DEF Repairs!JunkEpisodes, Repairs!Live
<1>8. \A i \in EpisodeIds : s2'[i] = None \/ s2'[i] = s2[i]
  BY <1>5
<1>9. s10 = TRUE => Repairs(b)!PlanOf(old.script)' = {}
  BY <1>2, <1>7 DEF Repairs!PlanOf
<1>10. UNCHANGED <<s3, s10>> /\ s9 # None /\ (old.script = "mirror" => s6' = s6)
  BY <1>2
<1> QED
  BY <1>1, <1>2, <1>5, <1>6, <1>8, <1>9, <1>10, ScriptCommits

LEMMA LeaksPurged ==
  ASSUME NEW b, RepairInv(b), Repairs(b)!PurgeLeaks
  PROVE  Repaired(b)
<1>1. PICK old : old = s9
  OBVIOUS
<1>2. s9 # None /\ old.script = "leaks" /\ old.pc = "delete" /\ UNCHANGED <<s3, s10>>
      /\ ((s9' = None /\ UNCHANGED <<s1, s2>>) \/ Repairs(b)!Go("verify"))
  BY <1>1 DEF Repairs!PurgeLeaks, Repairs!At, Repairs!Keep, Repairs!Abort, Repairs!base
<1>3. CASE s9' = None /\ UNCHANGED <<s1, s2>>
  BY <1>2, <1>3, RunEnds
<1>4. CASE /\ Repairs(b)!Go("verify")
           /\ s1' = Repairs(b)!Removed(s1, old.plan) /\ s2' = Repairs(b)!Removed(s2, old.plan) /\ s8 \subseteq s8'
           /\ \A i \in EpisodeIds : i \in old.plan => <<"episode", i, old.episodes[i].text>> \in s8'
  <2>1. /\ s2' \in [EpisodeIds -> EpisodeLines \cup {None}]
        /\ \A i \in EpisodeIds : s2'[i] = IF i \in old.plan THEN None ELSE s2[i]
        /\ Repairs(b)!DeletedEpisodesAreArchived
    BY <1>1, <1>2, <1>4, EpisodesRemoved
  <2>2. LinesOK /\ OnCourse(b, old)
    BY <1>1, <1>2 DEF RepairInv
  <2>3. s1' \in [FactKeys -> FactLines \cup {None}] /\ \A k \in FactKeys : s1'[k] = IF k \in old.plan THEN None ELSE s1[k]
    <3>1. s1' = [k \in FactKeys |-> IF k \in old.plan THEN None ELSE s1[k]]
      BY <1>4, <2>2 DEF Repairs!Removed, LinesOK
    <3> QED
      BY <2>2, <3>1 DEF LinesOK
  <2>4. LinesOK'
    BY <1>2, <2>1, <2>2, <2>3 DEF LinesOK
  <2>5. ASSUME s10 = TRUE PROVE Repairs(b)!Leaked' \cup Repairs(b)!LeakedEpisodes' = {}
    <3>1. old.plan = Repairs(b)!Leaked \cup Repairs(b)!LeakedEpisodes
      BY <1>2, <2>2, <2>5, Plans DEF OnCourse, ToDo
    <3>2. DOMAIN s1 = FactKeys /\ DOMAIN s1' = FactKeys /\ DOMAIN s2 = EpisodeIds /\ DOMAIN s2' = EpisodeIds
      BY <2>1, <2>2, <2>3 DEF LinesOK
    <3>3. Repairs(b)!Leaked' = {}
      BY <2>3, <3>1, <3>2 DEF Repairs!Leaked, Repairs!Live
    <3>4. Repairs(b)!LeakedEpisodes' = {}
      BY <2>1, <3>1, <3>2 DEF Repairs!LeakedEpisodes, Repairs!Live
    <3> QED
      BY <3>3, <3>4
  <2>6. \A i \in EpisodeIds : s2'[i] = None \/ s2'[i] = s2[i]
    BY <2>1
  <2>7. s10 = TRUE => Repairs(b)!PlanOf(old.script)' = {}
    BY <1>2, <2>5 DEF Repairs!PlanOf
  <2>8. s9 # None /\ (old.script = "mirror" => s6' = s6)
    BY <1>2
  <2> QED
    BY <1>1, <1>2, <1>4, <2>1, <2>4, <2>6, <2>7, <2>8, ScriptCommits
<1> QED
  BY <1>1, <1>3, <1>4 DEF Repairs!PurgeLeaks, Repairs!Abort, Repairs!base, Repairs!CopyOf

LEMMA DatesSet ==
  ASSUME NEW b, RepairInv(b), Repairs(b)!Redate
  PROVE  Repaired(b)
<1>1. PICK old : old = s9
  OBVIOUS
<1>2. s9 # None /\ old.pc = "delete" /\ old.script = "dates" /\ Repairs(b)!Go("verify")
      /\ s1' = Repairs(b)!Dated(s1, old.plan) /\ s2' = Repairs(b)!Dated(s2, old.plan) /\ UNCHANGED <<s3, s6, s10>>
  BY <1>1 DEF Repairs!Redate, Repairs!At, Repairs!Keep
<1>3. OnCourse(b, old) /\ LinesOK
  BY <1>1, <1>2 DEF RepairInv
<1>4. ASSUME NEW row \in FactLines \cup EpisodeLines
      PROVE  [row EXCEPT !.dated = TRUE].dated = TRUE
             /\ (row \in FactLines => [row EXCEPT !.dated = TRUE] \in FactLines)
             /\ (row \in EpisodeLines => [row EXCEPT !.dated = TRUE] \in EpisodeLines)
  BY DEF FactLines, EpisodeLines
<1>5. s1' \in [FactKeys -> FactLines \cup {None}] /\ \A k \in FactKeys :
        IF k \in old.plan /\ s1[k] # None THEN s1'[k].dated = TRUE /\ s1'[k] # None ELSE s1'[k] = s1[k]
  <2>1. s1' = [k \in FactKeys |-> IF k \in old.plan /\ s1[k] # None THEN [s1[k] EXCEPT !.dated = TRUE] ELSE s1[k]]
    BY <1>2, <1>3 DEF Repairs!Dated, LinesOK
  <2>2. \A k \in FactKeys : s1[k] # None => [s1[k] EXCEPT !.dated = TRUE] \in FactLines /\ [s1[k] EXCEPT !.dated = TRUE].dated = TRUE
    BY <1>3, <1>4 DEF LinesOK
  <2> QED
    BY <1>3, <2>1, <2>2, RowsAreThere DEF LinesOK
<1>6. s2' \in [EpisodeIds -> EpisodeLines \cup {None}] /\ \A i \in EpisodeIds :
        IF i \in old.plan /\ s2[i] # None THEN s2'[i].dated = TRUE /\ s2'[i] # None ELSE s2'[i] = s2[i]
  <2>1. s2' = [i \in EpisodeIds |-> IF i \in old.plan /\ s2[i] # None THEN [s2[i] EXCEPT !.dated = TRUE] ELSE s2[i]]
    BY <1>2, <1>3 DEF Repairs!Dated, LinesOK
  <2>2. \A i \in EpisodeIds : s2[i] # None => [s2[i] EXCEPT !.dated = TRUE] \in EpisodeLines /\ [s2[i] EXCEPT !.dated = TRUE].dated = TRUE
    BY <1>3, <1>4 DEF LinesOK
  <2> QED
    BY <1>3, <2>1, <2>2, RowsAreThere DEF LinesOK
<1>7. LinesOK'
  BY <1>2, <1>3, <1>5, <1>6 DEF LinesOK
<1>8. ASSUME s10 = TRUE PROVE Repairs(b)!PlanOf(old.script)' = {}
  <2>1. old.plan = Repairs(b)!Undated(s1) \cup Repairs(b)!Undated(s2)
    BY <1>2, <1>3, <1>8, Plans DEF OnCourse, ToDo
  <2>2. DOMAIN s1 = FactKeys /\ DOMAIN s1' = FactKeys /\ DOMAIN s2 = EpisodeIds /\ DOMAIN s2' = EpisodeIds
    BY <1>3, <1>5, <1>6 DEF LinesOK
  <2>3. {k \in FactKeys : s1'[k] # None /\ s1'[k].raw # "none" /\ ~s1'[k].dated} = {}
    BY <1>3, <1>5, <2>1, <2>2 DEF Repairs!Undated, Repairs!Live
  <2>4. {i \in EpisodeIds : s2'[i] # None /\ s2'[i].raw # "none" /\ ~s2'[i].dated} = {}
    BY <1>3, <1>6, <2>1, <2>2 DEF Repairs!Undated, Repairs!Live
  <2>5. Repairs(b)!PlanOf("dates")' = {k \in DOMAIN s1' : s1'[k] # None /\ s1'[k].raw # "none" /\ ~s1'[k].dated}
                                      \cup {i \in DOMAIN s2' : s2'[i] # None /\ s2'[i].raw # "none" /\ ~s2'[i].dated}
    BY DEF Repairs!PlanOf, Repairs!Undated, Repairs!Live
  <2> QED
    BY <1>2, <2>2, <2>3, <2>4, <2>5
<1>9. Repairs(b)!DeletedEpisodesAreArchived
  BY <1>6 DEF Repairs!DeletedEpisodesAreArchived
<1>10. UNCHANGED <<s3, s10>> /\ s9 # None /\ (old.script = "mirror" => s6' = s6) /\ old.script \notin {"episode twins", "leaks", "legacy"}
  BY <1>2
<1> QED
  BY <1>1, <1>2, <1>7, <1>8, <1>9, <1>10, ScriptCommits

LEMMA StrandedClosed ==
  ASSUME NEW b, RepairInv(b), Repairs(b)!CloseStranded
  PROVE  Repaired(b)
<1>1. PICK old : old = s9
  OBVIOUS
<1>2. s9 # None /\ old.pc = "delete" /\ old.script = "stranded" /\ Repairs(b)!Go("verify")
      /\ s5' = [x \in JournalRows |-> IF x \in old.plan THEN "closed" ELSE s5[x]] /\ UNCHANGED <<s1, s2, s3, s6, s10>>
  BY <1>1 DEF Repairs!CloseStranded, Repairs!At, Repairs!Keep
<1>3. OnCourse(b, old) /\ LinesOK
  BY <1>1, <1>2 DEF RepairInv
<1>4. LinesOK'
  BY <1>2, <1>3 DEF LinesOK
<1>5. ASSUME s10 = TRUE PROVE Repairs(b)!Stranded' = {}
  <2>1. old.plan = Repairs(b)!Stranded
    BY <1>2, <1>3, <1>5, Plans DEF OnCourse, ToDo
  <2> QED
    BY <1>2, <2>1 DEF Repairs!Stranded
<1>6. s10 = TRUE => Repairs(b)!PlanOf(old.script)' = {}
  BY <1>2, <1>5 DEF Repairs!PlanOf
<1>7. Repairs(b)!DeletedEpisodesAreArchived
  BY <1>2 DEF Repairs!DeletedEpisodesAreArchived
<1>8. UNCHANGED <<s3, s10>> /\ s9 # None /\ (old.script = "mirror" => s6' = s6) /\ old.script \notin {"episode twins", "leaks", "legacy"}
  BY <1>2
<1> QED
  BY <1>1, <1>2, <1>4, <1>6, <1>7, <1>8, ScriptCommits

LEMMA SectionMirrored ==
  ASSUME NEW b, RepairInv(b), NEW section, Repairs(b)!MirrorSection(section) \/ Repairs(b)!DropOrphan(section)
  PROVE  Repaired(b)
<1>1. PICK old : old = s9
  OBVIOUS
<1>2. PICK left : left = old.left \ {section}
  OBVIOUS
<1>3. PICK x : x = [old EXCEPT !.left = left]
  OBVIOUS
<1>4. s9 # None /\ old.pc = "delete" /\ old.script = "mirror" /\ section \in old.left /\ s9' = x
      /\ ((section \in old.file /\ s7' = s7 \cup {section}) \/ (section \notin old.file /\ s7' = s7 \ {section}))
      /\ UNCHANGED <<s1, s2, s3, s6, s8, s10>>
  BY <1>1, <1>2, <1>3 DEF Repairs!MirrorSection, Repairs!DropOrphan, Repairs!At, Repairs!Keep
<1>5. x = [script |-> old.script, pc |-> old.pc, plan |-> old.plan, left |-> left, row |-> old.row,
           nodes |-> old.nodes, facts |-> old.facts, episodes |-> old.episodes, file |-> old.file]
  <2>1. IsRun(old)
    BY <1>1, <1>4 DEF RepairInv
  <2> QED
    BY <1>3, <2>1, LeftGoes
<1>6. IsRun(x) /\ x.script = "mirror" /\ x.pc = "delete" /\ x.left = left /\ x.file = old.file
  BY <1>4, <1>5 DEF IsRun
<1>7. LinesOK'
  BY <1>4 DEF RepairInv, LinesOK
<1>8. SnapshotOK(x)' /\ ArchivedOK(x)'
  BY <1>6 DEF SnapshotOK, ArchivedOK
<1>9. OnCourse(b, x)'
  <2> SUFFICES ASSUME s10 = TRUE PROVE OnCourse(b, x)'
    BY <1>4 DEF OnCourse
  <2>1. old.left = (s6 \ s7) \cup (s7 \ s6) /\ old.file = s6
    BY <1>1, <1>4, Plans DEF RepairInv, OnCourse, ToDo
  <2>2. (s6 \ s7') \cup (s7' \ s6) = left
    BY <1>2, <1>4, <2>1
  <2>3. Repairs(b)!PlanOf("mirror")' = left
    BY <1>4, <2>2 DEF Repairs!PlanOf
  <2>4. ToDo(x) = left
    BY <1>6 DEF ToDo
  <2> QED
    BY <1>4, <1>6, <2>1, <2>3, <2>4 DEF OnCourse, ToDo
<1>10. Repairs(b)!DeletedEpisodesAreArchived
  BY <1>4 DEF Repairs!DeletedEpisodesAreArchived
<1> QED
  BY <1>4, <1>6, <1>7, <1>8, <1>9, <1>10, RunBecomes

LEMMA RepairNext ==
  ASSUME NEW b, Bounded(b), RepairInv(b), [Repairs(b)!Next]_(Repairs(b)!vars)
  PROVE  RepairInv(b)' /\ Repairs(b)!DeletedEpisodesAreArchived
<1>1. ASSUME UNCHANGED Repairs(b)!vars PROVE Repaired(b)
  <2>1. UNCHANGED <<s1, s2, s3, s4, s5, s6, s7, s8, s9, s10>>
    BY <1>1 DEF Repairs!vars, Repairs!base
  <2>2. CASE s9 = None
    BY <2>1, <2>2, RunEnds
  <2>3. CASE s9 # None
    <3>1. PICK x : x = s9
      OBVIOUS
    <3>2. IsRun(x) /\ SnapshotOK(x) /\ ArchivedOK(x) /\ OnCourse(b, x) /\ LinesOK
      BY <2>3, <3>1 DEF RepairInv
    <3>3. LinesOK' /\ SnapshotOK(x)' /\ ArchivedOK(x)'
      BY <2>1, <3>2 DEF LinesOK, SnapshotOK, ArchivedOK, HasCopyOf
    <3>4. Repairs(b)!PlanOf(x.script)' = Repairs(b)!PlanOf(x.script)
      BY <2>1, PlansStay
    <3>5. OnCourse(b, x)'
      BY <2>1, <3>2, <3>4 DEF OnCourse, ToDo
    <3>6. Repairs(b)!DeletedEpisodesAreArchived
      BY <2>1 DEF Repairs!DeletedEpisodesAreArchived
    <3> QED
      BY <2>1, <3>1, <3>2, <3>3, <3>5, <3>6, RunBecomes
  <2> QED
    BY <2>2, <2>3
<1>2. ASSUME NEW k \in FactKeys, \/ \E row \in Repairs(b)!FactRow : Repairs(b)!SaveFact(k, row)
                                \/ Repairs(b)!ForgetFact(k) \/ Repairs(b)!ArchiveFact(k) \/ Repairs(b)!DeleteFact(k)
      PROVE  Repaired(b)
  BY <1>2, FactsWritten, FactArchived, FactDeleted
<1>3. ASSUME NEW i \in EpisodeIds, \/ \E row \in Repairs(b)!EpisodeRow : Repairs(b)!SaveEpisode(i, row)
                                  \/ Repairs(b)!ForgetEpisode(i) \/ Repairs(b)!ArchiveEpisode(i)
      PROVE  Repaired(b)
  BY <1>3, EpisodesWritten, EpisodeArchived
<1>4. ASSUME NEW x, NEW status, Repairs(b)!Journal(x, status) PROVE Repaired(b)
  BY <1>4, OthersWritten
<1>5. ASSUME NEW sections, Repairs(b)!EditFile(sections) PROVE Repaired(b)
  BY <1>5, OthersWritten
<1> QED
  BY <1>1, <1>2, <1>3, <1>4, <1>5, SectionMirrored, ScriptStarts, Guards, TwinsDeleted, JunkDeleted, LeaksPurged, DatesSet,
     StrandedClosed, MirrorDone, ScriptEnds DEF Repairs!Next, Repaired

LEMMA RepairHolds ==
  ASSUME NEW b, RepairInv(b)
  PROVE  Repairs(b)!RepairsConverge
<1>1. s10 = TRUE \/ ~s10
  BY DEF RepairInv, LinesOK
<1> QED
  BY <1>1 DEF RepairInv, OnCourse, Repairs!RepairsConverge
------------------------------------------------------------------------------
(* The run *)

LEMMA FocusStays == [Next]_slots => focus' = focus
  BY DEF Next, slots, Keeps

\* Nothing is held twice: OneOfEach, of proposals for any keys, deciders and
\* ages, of the gap registry for any users, texts and builds.
THEOREM NothingIsHeldTwice == Spec => []OneOfEach
<1> DEFINE Inv == /\ focus = "staging" => ProposalsInv /\ DecidersOK
                  /\ focus = "gaps" => GapsInv
<1>1. Init => Inv
  BY StagingInit, GapsInit DEF Init
<1>2. ASSUME Inv, [Next]_slots, focus = "staging" PROVE ProposalsInv' /\ DecidersOK'
  <2>1. ProposalsInv /\ DecidersOK /\ [Staging!Next]_(Staging!vars)
    BY <1>2, FocusStays DEF Next, slots, Staging!vars
  <2> QED
    BY <2>1, StagingNext
<1>3. ASSUME Inv, [Next]_slots, focus = "gaps" PROVE GapsInv'
  <2>1. GapsInv /\ [Gaps!Next]_(Gaps!vars)
    BY <1>3, FocusStays DEF Next, slots, Gaps!vars
  <2> QED
    BY <2>1, GapsNext
<1>4. Inv /\ [Next]_slots => Inv'
  BY <1>2, <1>3, FocusStays
<1>5. Inv => OneOfEach
  BY GapsHold DEF OneOfEach, ProposalsInv
<1> QED
  BY <1>1, <1>4, <1>5, PTL DEF Spec

MemoriesRunInv == /\ focus = "memories" => MemoriesInv(Plain)
                  /\ focus = "overwrites" => MemoriesInv(Overwriting)

LEMMA MemoriesRun ==
  /\ Init => MemoriesRunInv
  /\ MemoriesRunInv /\ [Next]_slots =>
       /\ MemoriesRunInv'
       /\ focus = "memories" => Memories(Plain)!RestoreTellsTheTruth
       /\ focus = "overwrites" => Memories(Overwriting)!RestoreTellsTheTruth
<1>1. Init => MemoriesRunInv
  BY MemoryCasts, MemoriesInit DEF Init, MemoriesRunInv
<1>2. ASSUME MemoriesRunInv, [Next]_slots, focus = "memories"
      PROVE  MemoriesInv(Plain)' /\ Memories(Plain)!RestoreTellsTheTruth
  <2>1. MemoriesInv(Plain) /\ [Memories(Plain)!Next]_(Memories(Plain)!vars)
    BY <1>2, FocusStays DEF Next, slots, Memories!vars, MemoriesRunInv
  <2>2. ASSUME NEW m, Cast(m), MemoriesInv(m), [Memories(m)!Next]_(Memories(m)!vars)
        PROVE  MemoriesInv(m)' /\ Memories(m)!RestoreTellsTheTruth
    BY <2>2, MemoriesNext
  <2> QED
    BY <2>1, <2>2, MemoryCasts
<1>3. ASSUME MemoriesRunInv, [Next]_slots, focus = "overwrites"
      PROVE  MemoriesInv(Overwriting)' /\ Memories(Overwriting)!RestoreTellsTheTruth
  <2>1. MemoriesInv(Overwriting) /\ [Memories(Overwriting)!Next]_(Memories(Overwriting)!vars)
    BY <1>3, FocusStays DEF Next, slots, Memories!vars, MemoriesRunInv
  <2>2. ASSUME NEW m, Cast(m), MemoriesInv(m), [Memories(m)!Next]_(Memories(m)!vars)
        PROVE  MemoriesInv(m)' /\ Memories(m)!RestoreTellsTheTruth
    BY <2>2, MemoriesNext
  <2> QED
    BY <2>1, <2>2, MemoryCasts
<1> QED
  BY <1>1, <1>2, <1>3, FocusStays DEF MemoriesRunInv

\* No memory is lost between its table and the bin: MemoriesAreKept, of the two
\* casts of the run, for any topics and any bounds on the ids.
THEOREM NoMemoryIsLost == Spec => []MemoriesAreKept
<1>1. MemoriesRunInv => MemoriesAreKept
  BY MemoriesHold DEF MemoriesRunInv, MemoriesAreKept
<1> QED
  BY <1>1, MemoriesRun, PTL DEF Spec

LEMMA MigrationRun ==
  /\ Init => (focus = "migration" => MigrationInv)
  /\ (focus = "migration" => MigrationInv) /\ [Next]_slots =>
       (focus = "migration" => MigrationInv' /\ LayerMigration!OnlyWhatWasReviewed)
<1>1. Init => (focus = "migration" => MigrationInv)
  BY MigrationInit DEF Init
<1>2. ASSUME MigrationInv, [Next]_slots, focus = "migration" PROVE MigrationInv' /\ LayerMigration!OnlyWhatWasReviewed
  <2>1. [LayerMigration!Next]_(LayerMigration!vars)
    BY <1>2, FocusStays DEF Next, slots, LayerMigration!vars
  <2> QED
    BY <1>2, <2>1, MigrationNext
<1> QED
  BY <1>1, <1>2

\* A committed migration can be undone and accounted for: the part of
\* RecordsAreTrue that scripts/migrate_graph_layers.py answers for, for any
\* nodes, evidence and number of runs.
THEOREM MovesAreOnRecord == Spec => [](focus = "migration" => LayerMigration!EveryMoveIsOnRecord)
<1> DEFINE Inv == focus = "migration" => MigrationInv
<1>1. Inv /\ [Next]_slots => Inv'
  BY MigrationRun, FocusStays
<1>2. Inv => (focus = "migration" => LayerMigration!EveryMoveIsOnRecord)
  BY MigrationHolds
<1>3. Init => Inv
  BY MigrationRun
<1> QED
  BY <1>1, <1>2, <1>3, PTL DEF Spec

\* What was decided holds: DecisionsHold, of denials, of reviewed migrations
\* and of what a restore reports.
THEOREM DecisionsStand == Spec => DecisionsHold
<1> DEFINE Inv == /\ focus = "staging" => ProposalsInv /\ DecidersOK
                  /\ focus = "migration" => MigrationInv
                  /\ MemoriesRunInv
           Holds == /\ focus = "staging" => Staging!NoRestageInWindow
                    /\ focus = "migration" => LayerMigration!OnlyWhatWasReviewed
                    /\ focus = "memories" => Memories(Plain)!RestoreTellsTheTruth
                    /\ focus = "overwrites" => Memories(Overwriting)!RestoreTellsTheTruth
<1>1. Init => Inv
  BY StagingInit, MigrationRun, MemoriesRun DEF Init
<1>2. ASSUME Inv, [Next]_slots, focus = "staging" PROVE ProposalsInv' /\ DecidersOK' /\ Staging!NoRestageInWindow
  <2>1. ProposalsInv /\ DecidersOK /\ [Staging!Next]_(Staging!vars)
    BY <1>2, FocusStays DEF Next, slots, Staging!vars
  <2> QED
    BY <2>1, StagingNext
<1>3. Inv /\ [Next]_slots => Inv' /\ Holds
  BY <1>2, MigrationRun, MemoriesRun, FocusStays
<1> QED
  BY <1>1, <1>3, PTL DEF Spec, DecisionsHold

RepairsRunInv == /\ focus = "repairs" => RepairInv(Repeated)
                 /\ focus = "disturbed" => RepairInv(Disturbed)

LEMMA RunsAreBounded == Bounded(Repeated) /\ Bounded(Disturbed)
  BY DEF Bounded, Repeated, Disturbed

LEMMA RepairsRun ==
  /\ Init => RepairsRunInv
  /\ RepairsRunInv /\ [Next]_slots =>
       /\ RepairsRunInv'
       /\ focus = "repairs" => Repairs(Repeated)!DeletedEpisodesAreArchived
       /\ focus = "disturbed" => Repairs(Disturbed)!DeletedEpisodesAreArchived
<1>1. Init => RepairsRunInv
  BY RepairInit DEF Init, RepairsRunInv
<1> DEFINE Mends(b) == RepairInv(b)' /\ Repairs(b)!DeletedEpisodesAreArchived
<1>2. ASSUME NEW b, Bounded(b), RepairInv(b), [Repairs(b)!Next]_(Repairs(b)!vars) PROVE Mends(b)
  BY <1>2, RepairNext
<1>3. ASSUME RepairsRunInv, [Next]_slots, focus = "repairs" PROVE Mends(Repeated)
  <2>1. RepairInv(Repeated) /\ [Repairs(Repeated)!Next]_(Repairs(Repeated)!vars)
    BY <1>3, FocusStays DEF Next, slots, Repairs!vars, Repairs!base, RepairsRunInv
  <2> HIDE DEF Mends
  <2> QED
    BY <2>1, <1>2, RunsAreBounded
<1>4. ASSUME RepairsRunInv, [Next]_slots, focus = "disturbed" PROVE Mends(Disturbed)
  <2>1. RepairInv(Disturbed) /\ [Repairs(Disturbed)!Next]_(Repairs(Disturbed)!vars)
    BY <1>4, FocusStays DEF Next, slots, Repairs!vars, Repairs!base, RepairsRunInv
  <2> HIDE DEF Mends
  <2> QED
    BY <2>1, <1>2, RunsAreBounded
<1> QED
  BY <1>1, <1>3, <1>4, FocusStays DEF RepairsRunInv

\* A repair that reaches its verification undisturbed has left nothing of what
\* it looks for: RepairsConverge, of the two runs of the scripts, for any facts,
\* episodes, journal rows and junk.
THEOREM RepairsEndClean == Spec => []RepairsConverge
<1>1. RepairsRunInv => RepairsConverge
  BY RepairHolds DEF RepairsRunInv, RepairsConverge
<1> QED
  BY <1>1, RepairsRun, PTL DEF Spec

\* Nothing leaves before its copy is in place: LossesAreFiled, of the repair
\* scripts, the retired page, the periodic sweep and the resolved conflict, for
\* any callers, servers, layers and resolvers.
THEOREM NoLossIsUnfiled == Spec => LossesAreFiled
<1> DEFINE Inv == /\ RepairsRunInv
                  /\ focus = "wiki" => WikiInv
                  /\ focus = "sweep" => SweepInv
                  /\ focus = "conflicts" => ConflictsInv
           Filed == /\ focus = "repairs" => Repairs(Repeated)!DeletedEpisodesAreArchived
                    /\ focus = "disturbed" => Repairs(Disturbed)!DeletedEpisodesAreArchived
                    /\ focus = "wiki" => Wiki!RetireLeavesACopy
                    /\ focus = "sweep" => Sweep!OnlyLateItemsAreLost
                    /\ focus = "conflicts" => Conflicts!DeletedWereOffered
<1>1. Init => Inv
  BY RepairsRun, WikiInit, SweepInit, ConflictsInit DEF Init
<1>2. ASSUME Inv, [Next]_slots, focus = "wiki" PROVE WikiInv' /\ Wiki!RetireLeavesACopy
  <2>1. WikiInv /\ [Wiki!Next]_(Wiki!vars)
    BY <1>2, FocusStays DEF Next, slots, Wiki!vars
  <2> QED
    BY <2>1, WikiNext
<1>3. ASSUME Inv, [Next]_slots, focus = "sweep" PROVE SweepInv' /\ Sweep!OnlyLateItemsAreLost
  <2>1. SweepInv /\ [Sweep!Next]_(Sweep!vars)
    BY <1>3, FocusStays DEF Next, slots, Sweep!vars
  <2> QED
    BY <2>1, SweepNext
<1>4. ASSUME Inv, [Next]_slots, focus = "conflicts" PROVE ConflictsInv' /\ Conflicts!DeletedWereOffered
  <2>1. ConflictsInv /\ [Conflicts!Next]_(Conflicts!vars)
    BY <1>4, FocusStays DEF Next, slots, Conflicts!vars
  <2> QED
    BY <2>1, ConflictsNext
<1>5. Inv /\ [Next]_slots => Inv' /\ Filed
  BY <1>2, <1>3, <1>4, RepairsRun, FocusStays
<1> QED
  BY <1>1, <1>5, PTL DEF Spec, LossesAreFiled
==============================================================================
