-------------------------------- MODULE Wiki --------------------------------
(***************************************************************************)
(* The wiki of one layer: Markdown files and the index over them           *)
(* (wiki/manager.py, wiki/index.py, wiki/lint.py, features/                 *)
(* wiki_reconciliation.py, the project and wiki tools).                     *)
(*                                                                          *)
(* A call writes the file, then the index row and its FTS row in one        *)
(* transaction, then links, hub page and RAG chunks, with an await between  *)
(* any two; two callers interleave and a server dies between two of them.   *)
(* The cron re-indexes the whole tree.  A page is its file name; titles     *)
(* that sanitize to one name are one page here.                             *)
(***************************************************************************)
EXTENDS Integers, Sequences, FiniteSets, Functions

CONSTANTS
    Callers, Pages, Texts,
    Hub, HubText,   \* the generated MOC_<type>.md and what is in it
    Facts,          \* pages named like a fact worth promoting
    FactText,
    Mentions,       \* text -> the pages its [[wikilinks]] name
    HubFloor,       \* active pages before a hub is written (3 in the code)
    MaxCalls, MaxCrashes, MaxSeconds, \* bounds
    Idle, Queued, None

VARIABLES
    files,    \* page -> [text, status] or None: the Markdown tree
    index,    \* page -> [text, status, hash] or None: wiki_index and wiki_fts
    links,    \* wiki_links: <<from, to>>, never removed
    archive,  \* <<page, second>> -> text: the copies under _retired/ and the archive
    chunked,  \* texts in rag_pages, one row per content
    job,      \* caller -> the call it is in: [op, page, text, status, todo]
    cron,     \* page -> Idle, Queued or the file as the cron has read it
    second, calls, crashes

vars == <<files, index, links, archive, chunked, job, cron, second, calls, crashes>>

AllTexts == Texts \cup {HubText, FactText}
Statuses == {"active", "archived"}
Files == [text : AllTexts, status : Statuses]
\* add() and the cron hash the text, update() and the sync the whole file.
Hashes == {"text", "page"} \X AllTexts \X (Statuses \cup {None})
TextHash(t) == <<"text", t, None>>
PageHash(f) == <<"page", f.text, f.status>>
Resting == [op |-> None, page |-> None, text |-> None, status |-> None, todo |-> <<>>]

TypeOK ==
    /\ \A p \in Pages : files[p] = None \/ files[p] \in Files
    /\ \A p \in Pages : index[p] = None \/ index[p] \in [text : AllTexts, status : Statuses, hash : Hashes]
    /\ links \subseteq Pages \X Pages
    /\ DOMAIN archive \subseteq Pages \X (0..MaxSeconds) /\ Range(archive) \subseteq AllTexts
    /\ chunked \subseteq AllTexts
    /\ \A c \in Callers : job[c].op \in {None, "add", "update", "sync", "retire", "shelve", "delete"}
    /\ \A p \in Pages : cron[p] \in {Idle, Queued} \/ cron[p] \in Files
    /\ second \in 0..MaxSeconds /\ calls \in 0..MaxCalls /\ crashes \in 0..MaxCrashes

Init ==
    /\ files = [p \in Pages |-> None]
    /\ index = [p \in Pages |-> None]
    /\ links = {} /\ archive = << >> /\ chunked = {}
    /\ job = [c \in Callers |-> Resting]
    /\ cron = [p \in Pages |-> Idle]
    /\ second = 0 /\ calls = 0 /\ crashes = 0

Existing == {p \in Pages : files[p] # None}
Indexed == {p \in Pages : index[p] # None}
\* What the lists show: the active rows whose file is there.
ActiveRows == {p \in Indexed : index[p].status = "active"}
Listed == ActiveRows \cap Existing

------------------------------------------------------------------------------
(* The calls, as the steps each has left to do *)

AddPlan == <<"write", "save", "link", "hub", "chunk">>
UpdatePlan == <<"write", "save", "link", "chunk", "hub">>
SyncPlan == <<"write", "save", "chunk">>
UnlinkFirst == <<"unlink", "keep", "drop">>  \* mutant: the file goes before its copy is there
RetirePlan == <<"keep", "unlink", "drop">>
DeletePlan == <<"unlink", "drop">>

Call(c, op, p, f, plan) ==
    /\ job[c].op = None /\ calls < MaxCalls
    /\ calls' = calls + 1
    /\ job' = [job EXCEPT ![c] = [op |-> op, page |-> p, text |-> f.text, status |-> f.status, todo |-> plan]]
    /\ UNCHANGED <<files, index, links, archive, chunked, cron, second, crashes>>

\* A page of the same name is overwritten.
Add(c, p, t) == Call(c, "add", p, [text |-> t, status |-> "active"], AddPlan)

\* update() reads the file, changes what it was given and writes it back later.
Update(c, p, f) == files[p] # None /\ Call(c, "update", p, f, UpdatePlan)

\* The project tool updates the page its search finds, else adds one.
ProjectUpdate(c, p, t) ==
    IF p \in ActiveRows
      THEN Update(c, p, [files[p] EXCEPT !.text = t])
      ELSE Add(c, p, t)

\* A fact with an active page of its name is skipped.
Promote(c, p) == p \in Facts \ Listed /\ Add(c, p, FactText)

\* An external file replaces the page of its name unless the two are the same.
Sync(c, p, f) == files[p] # f /\ Call(c, "sync", p, f, SyncPlan)

Retire(c, p) == files[p] # None /\ Call(c, "retire", p, files[p], RetirePlan)

\* The project tool archives the text of the row its search found.
Shelve(c, p) ==
    /\ p \in ActiveRows
    /\ Call(c, "shelve", p, [text |-> index[p].text, status |-> index[p].status], RetirePlan)

Delete(c, p) == Call(c, "delete", p, [text |-> None, status |-> None], DeletePlan)

------------------------------------------------------------------------------
(* The steps *)

Doing(c, step) == job[c].todo # <<>> /\ Head(job[c].todo) = step

Advance(c) ==
    LET left == Tail(job[c].todo)
    IN job' = [job EXCEPT ![c] = IF left = <<>> THEN Resting ELSE [job[c] EXCEPT !.todo = left]]

Mine(c) == [text |-> job[c].text, status |-> job[c].status]

Write(c) ==
    /\ Doing(c, "write")
    /\ files' = [files EXCEPT ![job[c].page] = Mine(c)]
    /\ Advance(c)
    /\ UNCHANGED <<index, links, archive, chunked, cron, second, calls, crashes>>

\* WikiIndex.save: nothing when the hash is the row's own, else the row and its FTS row.
Saved(p, f, hash) ==
    IF index[p] # None /\ index[p].hash = hash
      THEN index
      ELSE [index EXCEPT ![p] = [text |-> f.text, status |-> f.status, hash |-> hash]]

Save(c) ==
    /\ Doing(c, "save")
    /\ index' = Saved(job[c].page, Mine(c), IF job[c].op = "add" THEN TextHash(job[c].text) ELSE PageHash(Mine(c)))
    /\ Advance(c)
    /\ UNCHANGED <<files, links, archive, chunked, cron, second, calls, crashes>>

Link(c) ==
    /\ Doing(c, "link")
    /\ links' = links \cup {<<job[c].page, q>> : q \in (Mentions[job[c].text] \cap Listed) \ {job[c].page}}
    /\ Advance(c)
    /\ UNCHANGED <<files, index, archive, chunked, cron, second, calls, crashes>>

\* The hub is written to the tree without an index row.
WriteHub(c) ==
    /\ Doing(c, "hub")
    /\ files' = IF Cardinality(ActiveRows) < HubFloor THEN files
                ELSE [files EXCEPT ![Hub] = [text |-> HubText, status |-> "active"]]
    /\ Advance(c)
    /\ UNCHANGED <<index, links, archive, chunked, cron, second, calls, crashes>>

\* A text already chunked is not chunked again; a failure is swallowed.
Chunk(c) ==
    /\ Doing(c, "chunk")
    /\ chunked' \in {chunked, chunked \cup {job[c].text}}
    /\ Advance(c)
    /\ UNCHANGED <<files, index, links, archive, cron, second, calls, crashes>>

\* The copy is named after the page and the second it is made in.
Keep(c) ==
    /\ Doing(c, "keep")
    /\ LET copy == <<job[c].page, second>>
       IN archive' = [a \in {copy} \cup DOMAIN archive |-> IF a = copy THEN job[c].text ELSE archive[a]]
    /\ Advance(c)
    /\ UNCHANGED <<files, index, links, chunked, cron, second, calls, crashes>>

Unlink(c) ==
    /\ Doing(c, "unlink")
    /\ files' = [files EXCEPT ![job[c].page] = None]
    /\ Advance(c)
    /\ UNCHANGED <<index, links, archive, chunked, cron, second, calls, crashes>>

DropRow(c) ==
    /\ Doing(c, "drop")
    /\ index' = [index EXCEPT ![job[c].page] = None]
    /\ Advance(c)
    /\ UNCHANGED <<files, links, archive, chunked, cron, second, calls, crashes>>

\* The server dies, or the call is cancelled, between two steps.
Crash(c) ==
    /\ job[c].op # None /\ crashes < MaxCrashes
    /\ crashes' = crashes + 1
    /\ job' = [job EXCEPT ![c] = Resting]
    /\ UNCHANGED <<files, index, links, archive, chunked, cron, second, calls>>

Tick ==
    /\ second < MaxSeconds /\ second' = second + 1
    /\ UNCHANGED <<files, index, links, archive, chunked, job, cron, calls, crashes>>

------------------------------------------------------------------------------
(* The cron's reindex_all: every file at once *)

Reindex ==
    /\ \A p \in Pages : cron[p] = Idle
    /\ cron' = [p \in Pages |-> IF files[p] = None THEN Idle ELSE Queued]
    /\ UNCHANGED <<files, index, links, archive, chunked, job, second, calls, crashes>>

\* A file that is gone by now is an error of that file only.
ReadFile(p) ==
    /\ cron[p] = Queued
    /\ cron' = [cron EXCEPT ![p] = IF files[p] = None THEN Idle ELSE files[p]]
    /\ UNCHANGED <<files, index, links, archive, chunked, job, second, calls, crashes>>

AnyRow(p, t) == index[p] # None  \* mutant: what has a row is not looked at again
SameText(p, t) == index[p] # None /\ index[p].hash = TextHash(t)

IndexFile(p) ==
    /\ cron[p] \notin {Idle, Queued}
    /\ index' = IF SameText(p, cron[p].text) THEN index ELSE Saved(p, cron[p], TextHash(cron[p].text))
    /\ cron' = [cron EXCEPT ![p] = Idle]
    /\ UNCHANGED <<files, links, archive, chunked, job, second, calls, crashes>>

------------------------------------------------------------------------------
Named == Pages \ {Hub}

Start(c) ==
    \E p \in Named :
        \/ \E t \in Texts : Add(c, p, t) \/ ProjectUpdate(c, p, t)
        \/ \E t \in Texts : Update(c, p, [files[p] EXCEPT !.text = t])
        \/ \E s \in Statuses : Update(c, p, [files[p] EXCEPT !.status = s])
        \/ \E f \in [text : Texts, status : Statuses] : Sync(c, p, f)
        \/ Promote(c, p) \/ Retire(c, p) \/ Shelve(c, p) \/ Delete(c, p)

Next ==
    \/ \E c \in Callers :
        \/ Start(c) \/ Write(c) \/ Save(c) \/ Link(c) \/ WriteHub(c) \/ Chunk(c)
        \/ Keep(c) \/ Unlink(c) \/ DropRow(c) \/ Crash(c)
    \/ Tick \/ Reindex
    \/ \E p \in Pages : ReadFile(p) \/ IndexFile(p)

\* The cron re-indexes every interval, whatever the callers do.
FairSpec ==
    /\ Init /\ [][Next]_vars
    /\ WF_vars(Reindex)
    /\ \A p \in Pages : WF_vars(ReadFile(p)) /\ WF_vars(IndexFile(p))

------------------------------------------------------------------------------
(* Properties *)

OutOfDate(p) == files[p] # None /\ (index[p] = None \/ index[p].text # files[p].text)

\* A text on disk becomes the text the index searches, although the call that
\* wrote it may have died before its index row, lost a race with another call
\* or with the cron itself, or come from a generated hub (reindex_all).
EveryTextIsSearched == \A p \in Pages : OutOfDate(p) ~> ~OutOfDate(p)

\* Violated: the same of a page's status, as the comment in update() has it ("so a
\* status-only change still reaches the index").
EveryStatusIsSearched ==
    \A p \in Pages :
        LET Differs == files[p] # None /\ (index[p] = None \/ index[p].status # files[p].status)
        IN  Differs ~> ~Differs

\* Of every step: a page that retire() or the project archive takes out of the tree has a copy
\* in the archive by then, wherever the call is cut off.
RetireLeavesACopy ==
    \A c \in Callers : Unlink(c) /\ job[c].op \in {"retire", "shelve"}
         => \E s \in 0..MaxSeconds : <<job[c].page, s>> \in DOMAIN archive
==============================================================================
