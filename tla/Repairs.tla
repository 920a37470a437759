------------------------------- MODULE Repairs -------------------------------
(***************************************************************************)
(* The repair scripts an operator runs on a live base (scripts/): collapse  *)
(* twin facts and twin episodes, purge facts that leaked from the agent's   *)
(* layer, purge legacy junk, give rows their true date, close stranded      *)
(* journal rows, mirror an identity file.                                   *)
(*                                                                          *)
(* Each script plans on a snapshot, archives, deletes and verifies, in more *)
(* than one transaction; handlers write in between and the script may be    *)
(* killed anywhere and run again.                                           *)
(***************************************************************************)
EXTENDS Integers, FiniteSets

CONSTANTS
    Keys, Values, Ids, Texts, Rows, Sections,
    Junk,      \* texts purge_l3_legacy recognises
    MaxWrites, MaxRuns, \* bounds
    None

VARIABLES
    facts,    \* key -> [entry, value, raw, dated] of the owner's layer, or None
    episodes, \* id -> [text, raw, dated], or None
    born,     \* the ids given out so far
    nodes,    \* contents of the graph's nodes
    journal,  \* journal row -> status
    file,     \* the identity file: the sections it has
    canon,    \* the sections mirrored to L4
    copies,   \* archived_memories and the JSONL files: <<what, whose, content>>
    run,      \* the script at work: [script, pc, plan, left, row, ...what it read], or None
    quiet,    \* nobody else has written since the plan
    writes, runs

base == <<facts, episodes, born, nodes, journal, file, canon>>
vars == <<base, copies, run, quiet, writes, runs>>

Raws == {"none", "owner", "agent"}
Entries == 1..MaxWrites
FactRow == [entry : Entries, value : Values, raw : {"owner", "agent"}, dated : BOOLEAN]
EpisodeRow == [text : Texts, raw : Raws, dated : BOOLEAN]
Scripts == {"core twins", "episode twins", "leaks", "legacy", "dates", "stranded", "mirror"}

Live(table) == {x \in DOMAIN table : table[x] # None}

TypeOK ==
    /\ facts \in [Keys -> FactRow \cup {None}]
    /\ episodes \in [Ids -> EpisodeRow \cup {None}]
    /\ born \subseteq Ids /\ Live(episodes) \subseteq born
    /\ nodes \subseteq Values \cup Texts
    /\ journal \in [Rows -> {"received", "judged", "closed"}]
    /\ file \subseteq Sections /\ canon \subseteq Sections
    /\ run # None => run.script \in Scripts /\ run.pc \in {"guard", "archive", "delete", "verify"}
    /\ quiet \in BOOLEAN

Init ==
    /\ facts = [k \in Keys |-> None]
    /\ episodes = [i \in Ids |-> None]
    /\ born = {}
    /\ nodes = {}
    /\ journal = [r \in Rows |-> "judged"]
    /\ file = {} /\ canon = {}
    /\ copies = {}
    /\ run = None
    /\ quiet = TRUE
    /\ writes = 0 /\ runs = 0


------------------------------------------------------------------------------
(* The handlers *)

Writes == writes < MaxWrites /\ writes' = writes + 1 /\ quiet' = FALSE

\* A save under a live key keeps the row; entry ids are never used again.
SaveFact(k, row) ==
    /\ Writes
    /\ row.entry = IF facts[k] = None THEN writes' ELSE facts[k].entry
    /\ facts' = [facts EXCEPT ![k] = row]
    /\ nodes' = nodes \cup {row.value}
    /\ UNCHANGED <<episodes, born, journal, file, canon, copies, run, runs>>

SaveEpisode(i, row) ==
    /\ Writes
    /\ i \notin born /\ \A j \in Ids : j < i => j \in born
    /\ born' = born \cup {i}
    /\ episodes' = [episodes EXCEPT ![i] = row]
    /\ nodes' = nodes \cup {row.text}
    /\ UNCHANGED <<facts, journal, file, canon, copies, run, runs>>

ForgetFact(k) ==
    /\ Writes
    /\ facts[k] # None
    /\ facts' = [facts EXCEPT ![k] = None]
    /\ copies' = copies \cup {<<"fact", k, facts[k].value>>}
    /\ UNCHANGED <<episodes, born, nodes, journal, file, canon, run, runs>>

ForgetEpisode(i) ==
    /\ Writes
    /\ episodes[i] # None
    /\ episodes' = [episodes EXCEPT ![i] = None]
    /\ copies' = copies \cup {<<"episode", i, episodes[i].text>>}
    /\ UNCHANGED <<facts, born, nodes, journal, file, canon, run, runs>>

Journal(r, status) ==
    /\ Writes
    /\ journal[r] # status
    /\ journal' = [journal EXCEPT ![r] = status]
    /\ UNCHANGED <<facts, episodes, born, nodes, file, canon, copies, run, runs>>

EditFile(sections) ==
    /\ Writes
    /\ file' = sections
    /\ UNCHANGED <<facts, episodes, born, nodes, journal, canon, copies, run, runs>>

------------------------------------------------------------------------------
(* What each script plans to remove or change *)

\* Among equal values of one layer and user the heaviest stays, or the newest.
TwinFacts == {k \in Live(facts) : \E j \in Live(facts) : j > k /\ facts[j].value = facts[k].value}

Group(i) == {j \in Live(episodes) : episodes[j].text = episodes[i].text}

\* Only one block emitted again and again: all rows carry its one raw tag and
\* are the same but for their dates.
SameRaw(group) == \E raw \in Raws \ {"none"} : \A j \in group : episodes[j].raw = raw

TwinEpisodes == {i \in Live(episodes) : SameRaw(Group(i)) /\ \E j \in Group(i) : j < i}

Leaked == {k \in Live(facts) : facts[k].raw = "agent"}
LeakedEpisodes == {i \in Live(episodes) : episodes[i].raw = "agent"}
ValuesOf(keys) == {facts[k].value : k \in keys}
LeakedNodes == nodes \cap (ValuesOf(Leaked) \ ValuesOf(Live(facts) \ Leaked))

JunkEpisodes == {i \in Live(episodes) : episodes[i].text \in Junk}

\* Rows whose provenance reaches a source message.
Undated(table) == {x \in Live(table) : table[x].raw # "none" /\ ~table[x].dated}

Stranded == {r \in Rows : journal[r] = "received"}

PlanOf(script) ==
    CASE script = "core twins"    -> TwinFacts
      [] script = "episode twins" -> TwinEpisodes
      [] script = "leaks"         -> Leaked \cup LeakedEpisodes
      [] script = "legacy"        -> JunkEpisodes
      [] script = "dates"         -> Undated(facts) \cup Undated(episodes)
      [] script = "stranded"      -> Stranded
      [] script = "mirror"        -> (file \ canon) \cup (canon \ file)

FirstStep(script) ==
    CASE script \in {"core twins", "episode twins"} -> "guard"
      [] script = "legacy" -> "archive"
      [] OTHER -> "delete"

Start(script) ==
    /\ run = None /\ runs < MaxRuns
    /\ PlanOf(script) # {}
    /\ runs' = runs + 1
    /\ quiet' = TRUE
    /\ run' = [script |-> script, pc |-> FirstStep(script), plan |-> PlanOf(script), left |-> PlanOf(script), row |-> None,
               nodes |-> LeakedNodes, facts |-> facts, episodes |-> episodes, file |-> file]
    /\ UNCHANGED <<base, copies, writes>>

------------------------------------------------------------------------------
(* The steps of the scripts *)

At(script, pc) == run # None /\ run.script = script /\ run.pc = pc
Go(pc) == run' = [run EXCEPT !.pc = pc, !.left = run.plan]
Keep == UNCHANGED <<quiet, writes, runs>>
Abort == run' = None /\ UNCHANGED <<base, copies>>

\* Mutant: a group's last row is spared.
RemovedButLast(table, plan) ==
    [x \in DOMAIN table |-> IF x \in plan /\ \E y \in DOMAIN table : y > x THEN None ELSE table[x]]

Removed(table, plan) == [x \in DOMAIN table |-> IF x \in plan THEN None ELSE table[x]]

\* A doomed key must address one row; what the row holds is not looked at.
GuardFacts ==
    /\ At("core twins", "guard")
    /\ \/ (\A k \in run.plan : facts[k] # None) /\ Go("archive") /\ UNCHANGED <<base, copies>>
       \/ (\E k \in run.plan : facts[k] = None) /\ Abort
    /\ Keep

\* Archived and deleted one after the other, by key.
ArchiveFact(k) ==
    /\ At("core twins", "archive") /\ k \in run.left
    /\ copies' = copies \cup {<<"fact", k, run.facts[k].value>>}
    /\ run' = [run EXCEPT !.pc = "delete", !.left = @ \ {k}, !.row = k]
    /\ UNCHANGED base /\ Keep

DeleteFact(k) ==
    /\ At("core twins", "delete") /\ k = run.row
    /\ facts' = Removed(facts, {k})
    /\ run' = [run EXCEPT !.pc = IF run.left = {} THEN "verify" ELSE "archive"]
    /\ UNCHANGED <<episodes, born, nodes, journal, file, canon, copies>> /\ Keep

\* Every doomed id must still match its group.
GuardEpisodes ==
    /\ At("episode twins", "guard")
    /\ \/ (\A i \in run.plan : episodes[i] = run.episodes[i]) /\ Go("archive") /\ UNCHANGED <<base, copies>>
       \/ (\E i \in run.plan : episodes[i] # run.episodes[i]) /\ Abort
    /\ Keep

\* Mutant: the archive takes the row the script keeps.
ItsTwin(i) == <<"episode", i - 1, run.episodes[i].text>>

CopyOf(i) == <<"episode", i, run.episodes[i].text>>

ArchiveEpisode(i) ==
    /\ run # None /\ run.script \in {"episode twins", "legacy"} /\ run.pc = "archive" /\ i \in run.left
    /\ copies' = copies \cup {CopyOf(i)}
    /\ run' = [run EXCEPT !.left = @ \ {i}, !.pc = IF run.left = {i} THEN "delete" ELSE @]
    /\ UNCHANGED base /\ Keep

DeleteTwins ==
    /\ At("episode twins", "delete")
    /\ episodes' = Removed(episodes, run.plan)
    /\ Go("verify")
    /\ UNCHANGED <<facts, born, nodes, journal, file, canon, copies>> /\ Keep

\* One transaction for the junk episodes, the junk nodes and their edges.
DeleteJunk ==
    /\ At("legacy", "delete")
    /\ episodes' = Removed(episodes, run.plan)
    /\ nodes' = nodes \ {run.episodes[i].text : i \in run.plan}
    /\ Go("verify")
    /\ UNCHANGED <<facts, born, journal, file, canon, copies>> /\ Keep

SameRow(k) == facts[k] # None /\ facts[k].entry = run.facts[k].entry

\* One transaction; each row must still be of the owner's layer.
PurgeLeaks ==
    /\ At("leaks", "delete")
    /\ \/ /\ \A k \in run.plan \cap Keys : SameRow(k)
          /\ copies' = copies \cup {<<"fact", k, run.facts[k].value>> : k \in run.plan \cap Keys}
                             \cup {CopyOf(i) : i \in run.plan \cap Ids}
          /\ facts' = Removed(facts, run.plan) /\ episodes' = Removed(episodes, run.plan)
          /\ nodes' = nodes \ run.nodes
          /\ Go("verify")
          /\ UNCHANGED <<born, journal, file, canon>>
       \/ (\E k \in run.plan \cap Keys : ~SameRow(k)) /\ Abort
    /\ Keep

Dated(table, plan) == [x \in DOMAIN table |-> IF x \in plan /\ table[x] # None THEN [table[x] EXCEPT !.dated = TRUE] ELSE table[x]]

Redate ==
    /\ At("dates", "delete")
    /\ facts' = Dated(facts, run.plan)
    /\ episodes' = Dated(episodes, run.plan)
    /\ Go("verify")
    /\ UNCHANGED <<born, nodes, journal, file, canon, copies>> /\ Keep

CloseStranded ==
    /\ At("stranded", "delete")
    /\ journal' = [r \in Rows |-> IF r \in run.plan THEN "closed" ELSE journal[r]]
    /\ Go("verify")
    /\ UNCHANGED <<facts, episodes, born, nodes, file, canon, copies>> /\ Keep

\* The file is read once; sections are written one by one, then those it no
\* longer has are dropped one by one.
MirrorSection(s) ==
    /\ At("mirror", "delete") /\ s \in run.left /\ s \in run.file
    /\ canon' = canon \cup {s}
    /\ run' = [run EXCEPT !.left = @ \ {s}]
    /\ UNCHANGED <<facts, episodes, born, nodes, journal, file, copies>> /\ Keep

DropOrphan(s) ==
    /\ At("mirror", "delete") /\ run.left \cap run.file = {} /\ s \in run.left
    /\ canon' = canon \ {s}
    /\ run' = [run EXCEPT !.left = @ \ {s}]
    /\ UNCHANGED <<facts, episodes, born, nodes, journal, file, copies>> /\ Keep

Mirrored ==
    /\ At("mirror", "delete") /\ run.left = {}
    /\ Go("verify")
    /\ UNCHANGED <<base, copies>> /\ Keep

Verified ==
    /\ run # None /\ run.pc = "verify"
    /\ run' = None
    /\ UNCHANGED <<base, copies>> /\ Keep

Killed ==
    /\ run # None /\ run.pc # "verify"
    /\ run' = None
    /\ UNCHANGED <<base, copies>> /\ Keep

Next ==
    \/ \E k \in Keys : (\E row \in FactRow : SaveFact(k, row)) \/ ForgetFact(k) \/ ArchiveFact(k) \/ DeleteFact(k)
    \/ \E i \in Ids : (\E row \in EpisodeRow : SaveEpisode(i, row)) \/ ForgetEpisode(i) \/ ArchiveEpisode(i)
    \/ \E r \in Rows : \E status \in {"received", "judged"} : Journal(r, status)
    \/ \E sections \in SUBSET Sections : EditFile(sections)
    \/ \E s \in Sections : MirrorSection(s) \/ DropOrphan(s)
    \/ \E script \in Scripts : Start(script)
    \/ GuardFacts \/ GuardEpisodes \/ DeleteTwins \/ DeleteJunk \/ PurgeLeaks \/ Redate \/ CloseStranded
    \/ Mirrored \/ Verified \/ Killed

Spec == Init /\ [][Next]_vars

------------------------------------------------------------------------------
(* Properties *)

\* VERDICT=CLEAN: a script that gets to its verification leaves nothing of what
\* it looks for, if nobody wrote in the meantime, also when an earlier run of
\* it was killed half way.
RepairsConverge == run # None /\ run.pc = "verify" /\ quiet => PlanOf(run.script) = {}

\* Of every step, archive before delete: every episode a script removes is in the archive with
\* the very text it had when it was removed.
DeletedEpisodesAreArchived ==
    \A i \in Ids : episodes[i] # None /\ episodes'[i] = None => <<"episode", i, episodes[i].text>> \in copies'

\* Violated: the row purge_speaker_layer_leaks takes is still what the plan saw.
OnlyWhatThePlanSaw ==
    [][\A k \in Keys : facts[k] # None /\ facts'[k] = None => <<"fact", k, facts[k].value>> \in copies']_vars
==============================================================================
