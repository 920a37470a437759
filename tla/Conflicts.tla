----------------------------- MODULE Conflicts ------------------------------
(***************************************************************************)
(* Statements that contradict one another (rag/conflict.py): a text is     *)
(* compared with those on record and either put on record or reported      *)
(* against the first it is too close to; resolving a conflict keeps one    *)
(* row, archives the others of its group and deletes them.                 *)
(*                                                                         *)
(* A check is one transaction.  Resolving reads, archives row by row and   *)
(* deletes; checks and other resolutions happen in between.  A group is    *)
(* named for the row it was opened for.                                    *)
(***************************************************************************)
EXTENDS Naturals, Sequences, FiniteSets

CONSTANTS
    Texts,
    Benign,       \* those that are no statement, or have no keyword
    Related,      \* pairs of them with a keyword in common
    Close,        \* pairs with a similarity above the minimum
    Limit,        \* rows a check compares with
    Resolvers,
    MaxRows,      \* bound on the rows ever
    None

VARIABLES
    rows,         \* memory_conflicts: by id [text, conflict, group], or None once deleted
    bin,          \* archived: bag of ids, as counts
    resolver,     \* per call: [pc, group, keep, todo, read, failed]
    removed       \* what the audit says was removed: ids

vars == <<rows, bin, resolver, removed>>

Ids == 1..MaxRows
Resting == [pc |-> "idle", group |-> 0, keep |-> 0, todo |-> {}, read |-> {}, failed |-> {}]

TypeOK ==
    /\ rows \in Seq([text : Texts, conflict : BOOLEAN, group : {0} \cup Ids] \cup {None}) /\ Len(rows) <= MaxRows
    /\ bin \in [Ids -> 0..Cardinality(Resolvers)]
    /\ resolver \in [Resolvers -> [pc : {"idle", "archiving", "logging", "done"}, group : {0} \cup Ids, keep : {0} \cup Ids,
                                   todo : SUBSET Ids, read : SUBSET Ids, failed : SUBSET Ids]]
    /\ removed \subseteq Ids

Init ==
    /\ rows = <<>>
    /\ bin = [i \in Ids |-> 0]
    /\ resolver = [c \in Resolvers |-> Resting]
    /\ removed = {}

Shares(a, b) == a = b \/ {a, b} \in Related
Alike(a, b) == a # b /\ {a, b} \in Close
Present == {i \in DOMAIN rows : rows[i] # None}

------------------------------------------------------------------------------
(* Checking *)

\* The first rows with a keyword in common, no more than the limit.
Candidates(t) ==
    LET found == {i \in Present : Shares(rows[i].text, t)}
    IN {i \in found : Cardinality({j \in found : j < i}) < Limit}

Contradicted(t) == {i \in Candidates(t) : Alike(rows[i].text, t)}

\* Mutant: the text that contradicts goes on record beside the one it
\* contradicts, in its group.
BothMarked(t, i) ==
    /\ Len(rows) < MaxRows
    /\ LET group == IF rows[i].group # 0 THEN rows[i].group ELSE i
       IN rows' = Append([rows EXCEPT ![i].conflict = TRUE, ![i].group = group], [text |-> t, conflict |-> TRUE, group |-> group])

\* The row on record is marked, once; the text itself is only reported.
Marked(t, i) == rows' = IF rows[i].conflict THEN rows ELSE [rows EXCEPT ![i].conflict = TRUE, ![i].group = i]

CheckText(t) ==
    /\ t \notin Benign
    /\ \/ \E i \in Contradicted(t) : (\A j \in Contradicted(t) : i <= j) /\ Marked(t, i)
       \/ /\ Contradicted(t) = {} /\ Len(rows) < MaxRows
          /\ rows' = Append(rows, [text |-> t, conflict |-> FALSE, group |-> 0])
    /\ UNCHANGED <<bin, resolver, removed>>

------------------------------------------------------------------------------
(* Resolving *)

At(c, pc) == resolver[c].pc = pc
InGroup(c) == {i \in Present : rows[i].group = resolver[c].group /\ i # resolver[c].keep}

\* Any group that has been reported, and any row to keep.
ReadGroup(c, group, keep) ==
    /\ At(c, "idle")
    /\ group \in {rows[i].group : i \in Present} \ {0}
    /\ LET read == {i \in Present : rows[i].group = group /\ i # keep}
       IN resolver' = [resolver EXCEPT ![c] = [Resting EXCEPT !.pc = "archiving", !.group = group, !.keep = keep,
                                                              !.todo = read, !.read = read]]
    /\ UNCHANGED <<rows, bin, removed>>

\* A row that cannot be archived is passed over in silence.
ArchiveRow(c) ==
    /\ At(c, "archiving")
    /\ \E i \in resolver[c].todo :
          \/ /\ bin' = [bin EXCEPT ![i] = @ + 1]
             /\ resolver' = [resolver EXCEPT ![c].todo = @ \ {i}]
          \/ /\ resolver' = [resolver EXCEPT ![c].todo = @ \ {i}, ![c].failed = @ \cup {i}]
             /\ UNCHANGED bin
    /\ UNCHANGED <<rows, removed>>

\* By the group, not by the rows that were read, and the kept row is released.
DeleteGroup(c) ==
    /\ At(c, "archiving") /\ resolver[c].todo = {}
    /\ rows' = [i \in DOMAIN rows |-> IF i \in InGroup(c) THEN None
                                      ELSE IF i = resolver[c].keep /\ rows[i] # None
                                           THEN [rows[i] EXCEPT !.conflict = FALSE, !.group = 0]
                                      ELSE rows[i]]
    /\ resolver' = [resolver EXCEPT ![c].pc = "logging"]
    /\ UNCHANGED <<bin, removed>>

LogResolution(c) ==
    /\ At(c, "logging")
    /\ removed' \in {removed \cup resolver[c].read, removed}
    /\ resolver' = [resolver EXCEPT ![c] = [Resting EXCEPT !.pc = "done"]]
    /\ UNCHANGED <<rows, bin>>

\* The call is lost with its process.
Dies(c) ==
    /\ At(c, "archiving") \/ At(c, "logging")
    /\ resolver' = [resolver EXCEPT ![c] = [Resting EXCEPT !.pc = "done"]]
    /\ UNCHANGED <<rows, bin, removed>>

Resolve(c) == (\E group, keep \in Ids : ReadGroup(c, group, keep)) \/ ArchiveRow(c) \/ DeleteGroup(c) \/ LogResolution(c) \/ Dies(c)

Next == (\E t \in Texts : CheckText(t)) \/ (\E c \in Resolvers : Resolve(c))

Spec == Init /\ [][Next]_vars

------------------------------------------------------------------------------
(* Properties *)

Deleted == DOMAIN rows \ Present

\* Of every step: a row that a resolution deletes was read by it and offered to
\* the archive, although the deletion names the group and checks go on in
\* between (ConflictResolver.resolve).
DeletedWereOffered ==
    \A i \in Present : i \notin {j \in DOMAIN rows' : rows'[j] # None} =>
        \E c \in Resolvers : At(c, "archiving") /\ i \in resolver[c].read /\ (bin[i] > 0 \/ i \in resolver[c].failed)

\* Violated: a row is deleted that nobody has archived.
ArchivedBeforeRemoval == \A i \in Deleted : bin[i] > 0

\* Violated: two resolutions of one group archive a row twice.
ArchivedOnce == \A i \in Ids : bin[i] <= 1
=============================================================================
