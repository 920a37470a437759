------------------------------ MODULE Memories ------------------------------
(***************************************************************************)
(* Facts (core_memory, L4), episodes (L3) and the bin they are forgotten   *)
(* into (archived_memories): saving, forgetting, the archive pass, the     *)
(* approved archive and TTL sweep, the purge scripts, and restore.         *)
(*                                                                         *)
(* Everything but restore writes through the dispatcher: one such call is  *)
(* one transaction and one step.  restore_entries works on the shared      *)
(* connection, whose transaction stays open from its first write to its    *)
(* commit and keeps the write lock, so a dispatcher call fails meanwhile.  *)
(* Facts and episodes are numbered independently, so ids collide.          *)
(* One owner and one layer; a preview writes nothing and is a stutter.     *)
(***************************************************************************)
EXTENDS Naturals, FiniteSets

CONSTANTS
    Keys, Values,   \* the keys of facts and what they hold
    Protected,      \* the keys whose kind is never archived
    Summaries,      \* the texts of episodes
    MaxIds,         \* bound on the ids of either table
    MaxBin,         \* bound on the rows ever put into the bin
    MaxPurges,      \* bound on the rows the purge scripts take
    None

VARIABLES
    facts,    \* key -> [id, val, old], or None
    episodes, \* summary -> id, or None
    bin,      \* bid -> [id, kind, text, purged], or None: bid is the bin's own id
    next,     \* the next id of each table: [fact, episode, bin]
    archiver, \* archive_old_entries: [pc, rows], the rows it selected
    approved, \* the ids a proposal or a sweep has pinned
    forgetter,\* forget(): [pc, key, row]
    restorer, \* restore_entries: [pc, todo, kind, bid, counted, landed, gone]
    memory    \* history: [kept, raced], texts that nobody overwrote, purged or dropped

vars == <<facts, episodes, bin, next, archiver, approved, forgetter, restorer, memory>>

Ids == 1..MaxIds
Bids == 1..MaxBin
FactTexts == Keys \X Values
Texts == FactTexts \cup Summaries
FactRow == [id : Ids, val : Values, old : BOOLEAN]
BinRow == [id : Ids, kind : {"fact", "episode"}, text : Texts, purged : BOOLEAN]
AtRest == [pc |-> "idle", todo |-> {}, kind |-> None, bid |-> None, counted |-> {}, landed |-> {}, gone |-> {}]

TypeOK ==
    /\ facts \in [Keys -> FactRow \cup {None}]
    /\ episodes \in [Summaries -> Ids \cup {None}]
    /\ bin \in [Bids -> BinRow \cup {None}]
    /\ next \in [fact : 1..MaxIds + 1, episode : 1..MaxIds + 1, bin : 1..MaxBin + 1]
    /\ archiver \in [pc : {"idle", "selected"}, rows : SUBSET (Keys \X FactRow)]
    /\ approved \in SUBSET Ids
    /\ forgetter \in [pc : {"idle", "archive", "delete"}, key : Keys \cup {None}, row : FactRow \cup {None}, purge : BOOLEAN]
    /\ restorer \in [pc : {"idle", "next", "write", "saved", "returned"}, todo : SUBSET Ids, kind : {"episode", None},
                     bid : Bids \cup {None}, counted : SUBSET Bids, landed : SUBSET FactTexts, gone : SUBSET Bids]
    /\ memory \in [kept : SUBSET Texts, raced : SUBSET Texts]

Nobody == [pc |-> "idle", key |-> None, row |-> None, purge |-> FALSE]

Init ==
    /\ facts = [k \in Keys |-> None]
    /\ episodes = [s \in Summaries |-> None]
    /\ bin = [b \in Bids |-> None]
    /\ next = [fact |-> 1, episode |-> 1, bin |-> 1]
    /\ archiver = [pc |-> "idle", rows |-> {}]
    /\ approved = {}
    /\ forgetter = Nobody
    /\ restorer = AtRest
    /\ memory = [kept |-> {}, raced |-> {}]

Present(k) == facts[k] # None
Live == {<<k, facts[k].val>> : k \in {j \in Keys : Present(j)}} \cup {s \in Summaries : episodes[s] # None}
Filled == {b \in Bids : bin[b] # None}
Binned == {bin[b].text : b \in Filled}

\* The shared connection holds the write lock from the first write of a
\* restore to its commit.
Locked == restorer.landed # {} \/ restorer.gone # {}

\* The ways to number the members of S from a number on.
Numberings(S, from, after) ==
    {f \in [from..after - 1 -> S] : /\ \A i, j \in DOMAIN f : f[i] = f[j] => i = j
                                   /\ {f[i] : i \in DOMAIN f} = S}

\* The bin with S put into it, in some order.
Shelve(S) ==
    \E after \in next.bin..MaxBin + 1 : \E shelf \in Numberings(S, next.bin, after) :
        /\ bin' = [b \in Bids |-> IF b \in DOMAIN shelf THEN shelf[b] ELSE bin[b]]
        /\ next' = [next EXCEPT !.bin = after]

Shadow(k, row) == [id |-> row.id, kind |-> "fact", text |-> <<k, row.val>>, purged |-> FALSE]

------------------------------------------------------------------------------
(* Saving *)

\* Someone who read the row of k before this save is about to delete it.
InHand(k) == \/ \E r \in archiver.rows : r[1] = k /\ Present(k) /\ r[2].id = facts[k].id
             \/ forgetter.key = k

Save(k, v) ==
    /\ ~Locked
    /\ IF Present(k)
       THEN /\ facts' = [facts EXCEPT ![k] = [@ EXCEPT !.val = v, !.old = FALSE]]
            /\ UNCHANGED next
       ELSE /\ next.fact \in Ids
            /\ facts' = [facts EXCEPT ![k] = [id |-> next.fact, val |-> v, old |-> FALSE]]
            /\ next' = [next EXCEPT !.fact = @ + 1]
    /\ LET over == IF Present(k) THEN {<<k, facts[k].val>>} ELSE {} IN
          memory' = [kept |-> (memory.kept \ over) \cup {<<k, v>>},
                     raced |-> (memory.raced \ (over \cup {<<k, v>>})) \cup (IF InHand(k) THEN {<<k, v>>} ELSE {})]
    /\ UNCHANGED <<episodes, bin, archiver, approved, forgetter, restorer>>

\* A text that is there already is not written twice.
SaveEpisode(s) ==
    /\ ~Locked
    /\ episodes[s] = None /\ next.episode \in Ids
    /\ episodes' = [episodes EXCEPT ![s] = next.episode]
    /\ next' = [next EXCEPT !.episode = @ + 1]
    /\ memory' = [memory EXCEPT !.kept = @ \cup {s}]
    /\ UNCHANGED <<facts, bin, archiver, approved, forgetter, restorer>>

------------------------------------------------------------------------------
(* Time *)

\* Ninety days without an update, and an importance that decay has lowered.
GrowOld(k) ==
    /\ Present(k) /\ ~facts[k].old
    /\ facts' = [facts EXCEPT ![k].old = TRUE]
    /\ UNCHANGED <<episodes, bin, next, archiver, approved, forgetter, restorer, memory>>

------------------------------------------------------------------------------
(* Archiving *)

Archivable == {k \in Keys \ Protected : Present(k) /\ facts[k].old}

Without(ids) == [k \in Keys |-> IF Present(k) /\ facts[k].id \in ids THEN None ELSE facts[k]]

\* archive_old_entries selects outside the transaction in which it shelves and
\* deletes, and never looks at the rows again.
ArchiveSelects ==
    /\ archiver.pc = "idle" /\ Archivable # {}
    /\ archiver' = [pc |-> "selected", rows |-> {<<k, facts[k]>> : k \in Archivable}]
    /\ UNCHANGED <<facts, episodes, bin, next, approved, forgetter, restorer, memory>>

ArchiveRuns ==
    /\ archiver.pc = "selected" /\ ~Locked
    /\ Shelve({Shadow(r[1], r[2]) : r \in archiver.rows})
    /\ facts' = Without({r[2].id : r \in archiver.rows})
    /\ archiver' = [pc |-> "idle", rows |-> {}]
    /\ UNCHANGED <<episodes, approved, forgetter, restorer, memory>>

ArchiveFails ==
    /\ archiver.pc = "selected"
    /\ archiver' = [pc |-> "idle", rows |-> {}]
    /\ UNCHANGED <<facts, episodes, bin, next, approved, forgetter, restorer, memory>>

\* A proposal, or the TTL sweep, pins the ids it has found; much later they
\* are archived as they are by then.
Approve ==
    /\ approved = {} /\ Archivable # {}
    /\ approved' = {facts[k].id : k \in Archivable}
    /\ UNCHANGED <<facts, episodes, bin, next, archiver, forgetter, restorer, memory>>

\* Mutant: the rows leave although the bin took nothing.
NothingTaken(ids) == {}

Taken(ids) == {Shadow(k, facts[k]) : k \in {j \in Keys : Present(j) /\ facts[j].id \in ids}}

ArchiveEntries ==
    /\ approved # {} /\ ~Locked
    /\ Shelve(Taken(approved))
    /\ facts' = Without(approved)
    /\ approved' = {}
    /\ UNCHANGED <<episodes, archiver, forgetter, restorer, memory>>

\* Old unimportant episodes: the selection may be stale too, but an episode
\* does not change and its id is never used again.
ArchiveEpisode(s) ==
    /\ ~Locked /\ episodes[s] # None
    /\ Shelve({[id |-> episodes[s], kind |-> "episode", text |-> s, purged |-> FALSE]})
    /\ episodes' = [episodes EXCEPT ![s] = None]
    /\ UNCHANGED <<facts, archiver, approved, forgetter, restorer, memory>>

------------------------------------------------------------------------------
(* forget(scope="exact") with the shadow bin, a purge script,              *)
(* and forget(scope="recent")                                              *)

Purged == {b \in Filled : bin[b].purged}

Forgotten(T) == memory' = [kept |-> memory.kept \ T, raced |-> memory.raced \ T]

ForgetReads(k, purge) ==
    /\ forgetter.pc = "idle" /\ Present(k)
    /\ purge => Cardinality(Purged) < MaxPurges
    /\ forgetter' = [pc |-> "archive", key |-> k, row |-> facts[k], purge |-> purge]
    /\ UNCHANGED <<facts, episodes, bin, next, archiver, approved, restorer, memory>>

\* Committed on its own: the delete may never come.
ForgetShelves ==
    /\ forgetter.pc = "archive" /\ ~Locked
    /\ Shelve({[Shadow(forgetter.key, forgetter.row) EXCEPT !.purged = forgetter.purge]})
    /\ forgetter' = [forgetter EXCEPT !.pc = "delete"]
    /\ UNCHANGED <<facts, episodes, archiver, approved, restorer, memory>>

\* forget deletes by key, whatever the key holds by now; a purge by id.
ForgetDeletes ==
    /\ forgetter.pc = "delete" /\ ~Locked
    /\ IF forgetter.purge
       THEN /\ facts' = Without({forgetter.row.id})
            /\ Forgotten({<<forgetter.key, forgetter.row.val>>} \cap Live)
       ELSE /\ facts' = [facts EXCEPT ![forgetter.key] = None]
            /\ UNCHANGED memory
    /\ forgetter' = Nobody
    /\ UNCHANGED <<episodes, bin, next, archiver, approved, restorer>>

ForgetFails ==
    /\ forgetter.pc # "idle"
    /\ forgetter' = Nobody
    /\ UNCHANGED <<facts, episodes, bin, next, archiver, approved, restorer, memory>>

\* No bin, and not while the shared connection is in a transaction.
ForgetRecent ==
    /\ ~Locked
    /\ LET recent == {k \in Keys : Present(k) /\ ~facts[k].old} IN
          /\ recent # {}
          /\ facts' = [k \in Keys |-> IF k \in recent THEN None ELSE facts[k]]
          /\ Forgotten({<<k, facts[k].val>> : k \in recent})
    /\ UNCHANGED <<episodes, bin, next, archiver, approved, forgetter, restorer>>

------------------------------------------------------------------------------
(* restore_entries *)

RestoreStarts(ids, kind) ==
    /\ restorer.pc \in {"idle", "returned"} /\ ids # {}
    /\ restorer' = [AtRest EXCEPT !.pc = "next", !.todo = ids, !.kind = kind]
    /\ UNCHANGED <<facts, episodes, bin, next, archiver, approved, forgetter, memory>>

Matches(i) == {b \in Filled \ restorer.gone : bin[b].id = i /\ restorer.kind \in {None, bin[b].kind}}
KeyTaken(k) == Present(k) \/ \E v \in Values : <<k, v>> \in restorer.landed

\* Mutant: a deliberate removal is handed back.
NothingRefused(b) == FALSE

Refused(b) == bin[b].purged
Accepted(b) == ~Refused(b) /\ (bin[b].kind = "fact" => ~KeyTaken(bin[b].text[1]))

\* Not found, ambiguous, refused on its reason, or the key is back already.
RestoreLooks ==
    /\ restorer.pc = "next"
    /\ \E i \in restorer.todo :
          \/ \E b \in Bids : /\ Matches(i) = {b} /\ Accepted(b)
                            /\ restorer' = [restorer EXCEPT !.pc = "write", !.bid = b, !.todo = @ \ {i}]
          \/ /\ \A b \in Bids : Matches(i) = {b} => ~Accepted(b)
             /\ restorer' = [restorer EXCEPT !.todo = @ \ {i}]
    /\ UNCHANGED <<facts, episodes, bin, next, archiver, approved, forgetter, memory>>

InBin == bin[restorer.bid]
Counted == [restorer EXCEPT !.pc = "next", !.bid = None, !.counted = @ \cup {restorer.bid}, !.gone = @ \cup {restorer.bid}]

\* The row and the delete of its shadow share the open transaction.  A key
\* taken since the look is refused by the unique index.
RestoreFact ==
    /\ restorer.pc = "write" /\ InBin.kind = "fact"
    /\ next.fact + Cardinality(restorer.landed) \in Ids
    /\ restorer' = IF KeyTaken(InBin.text[1]) THEN [restorer EXCEPT !.pc = "next", !.bid = None]
                   ELSE [Counted EXCEPT !.landed = @ \cup {InBin.text}]
    /\ UNCHANGED <<facts, episodes, bin, next, archiver, approved, forgetter, memory>>

\* The dispatcher's own connection commits the episode at once, unless the
\* transaction of this very call keeps it out.
RestoreEpisode ==
    /\ restorer.pc = "write" /\ InBin.kind = "episode" /\ ~Locked
    /\ episodes[InBin.text] = None => next.episode \in Ids
    /\ IF episodes[InBin.text] # None THEN UNCHANGED <<episodes, next>>
       ELSE episodes' = [episodes EXCEPT ![InBin.text] = next.episode] /\ next' = [next EXCEPT !.episode = @ + 1]
    /\ restorer' = [restorer EXCEPT !.pc = "saved"]
    /\ UNCHANGED <<facts, bin, archiver, approved, forgetter, memory>>

RestoreDropsShadow ==
    /\ restorer.pc = "saved"
    /\ restorer' = Counted
    /\ UNCHANGED <<facts, episodes, bin, next, archiver, approved, forgetter, memory>>

\* Mutant: the failing call takes its pending rows back.
RolledBack == {}

Committed == restorer.gone

\* The end of the call, the failing one included: it commits what it has, for
\* the count it returns to be true.
Return(gone) ==
    /\ \E after \in next.fact..MaxIds + 1 : \E back \in Numberings({b \in gone : bin[b].kind = "fact"}, next.fact, after) :
          /\ facts' = [k \in Keys |->
                 IF \E i \in DOMAIN back : bin[back[i]].text[1] = k
                 THEN LET i == CHOOSE j \in DOMAIN back : bin[back[j]].text[1] = k
                      IN  [id |-> i, val |-> bin[back[i]].text[2], old |-> FALSE]
                 ELSE facts[k]]
          /\ next' = [next EXCEPT !.fact = after]
    /\ bin' = [b \in Bids |-> IF b \in gone THEN None ELSE bin[b]]
    /\ restorer' = [AtRest EXCEPT !.pc = "returned", !.counted = restorer.counted]
    /\ memory' = [memory EXCEPT !.raced = @ \cup {bin[b].text : b \in {c \in gone : bin[c].kind = "fact" /\ bin[c].text[1] = forgetter.key}}]
    /\ UNCHANGED <<episodes, archiver, approved, forgetter>>

RestoreEnds == restorer.pc = "next" /\ restorer.todo = {} /\ Return(restorer.gone)

RestoreFails == restorer.pc \in {"next", "write", "saved"} /\ Return(Committed)

\* The process dies: an open transaction is undone, and so is every plan.
Crash ==
    /\ restorer' = AtRest /\ forgetter' = Nobody
    /\ archiver' = [pc |-> "idle", rows |-> {}]
    /\ restorer.pc \in {"next", "write", "saved"} \/ forgetter.pc # "idle"
    /\ UNCHANGED <<facts, episodes, bin, next, approved, memory>>

Restore ==
    \/ \E ids \in SUBSET Ids, kind \in {"episode", None} : RestoreStarts(ids, kind)
    \/ RestoreLooks \/ RestoreFact \/ RestoreEpisode \/ RestoreDropsShadow \/ RestoreEnds \/ RestoreFails

Next ==
    \/ \E k \in Keys, v \in Values : Save(k, v)
    \/ \E k \in Keys : GrowOld(k) \/ ForgetReads(k, FALSE) \/ ForgetReads(k, TRUE)
    \/ \E s \in Summaries : SaveEpisode(s) \/ ArchiveEpisode(s)
    \/ ArchiveSelects \/ ArchiveRuns \/ ArchiveFails \/ Approve \/ ArchiveEntries
    \/ ForgetShelves \/ ForgetDeletes \/ ForgetFails \/ ForgetRecent
    \/ Restore
    \/ Crash

Spec == Init /\ [][Next]_vars

------------------------------------------------------------------------------
(* Properties *)

\* What was remembered, and not overwritten, purged or dropped on request, is
\* in its table or in the bin, whatever fails or dies between the two
\* (archive_old_entries, archive_entries, forget, restore_entries); except a
\* fact saved or restored while an archive pass or a forget had it in hand.
NothingVanishes == memory.kept \ memory.raced \subseteq Live \cup Binned

\* Violated: the same without the exception, as the comment in
\* archive_old_entries and the docstring of _forget_exact have it.
NothingEverVanishes == memory.kept \subseteq Live \cup Binned

\* Of every step: when a restore returns, failing or not, each row it counts is out of the bin
\* and its text is in a table or has been forgotten anew, and a row purged on
\* purpose never leaves the bin (restore_entries, refusal_reason).
RestoreTellsTheTruth ==
    /\ restorer.pc # "returned" /\ restorer'.pc = "returned" =>
          \A b \in restorer'.counted : bin'[b] = None /\ bin[b].text \in Live' \cup Binned'
    /\ \A b \in Filled : bin[b].purged => bin'[b] = bin[b]
=============================================================================
