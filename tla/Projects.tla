------------------------------ MODULE Projects ------------------------------
(***************************************************************************)
(* The project store: identity, decisions, artifacts and code symbols in   *)
(* projects.db, the specification of a project as a page of the wiki.      *)
(*                                                                         *)
(* projects.db has one handle per process and no dispatcher: whoever       *)
(* executes a statement opens the one transaction, whoever commits commits *)
(* everybody's work, and every await lets another call in.  The model has  *)
(* one project, one artifact and one page; the pages of the mapping and    *)
(* the reports of recall and audit are left out.                           *)
(***************************************************************************)
EXTENDS Naturals, Sequences

CONSTANTS
    Tasks,       \* calls of the project primitive, one action each
    Unwritten,   \* what a row or the page holds before anybody wrote it
    Gone         \* the page after a deletion

VARIABLES
    view,    \* projects.db as the shared handle sees it
    disk,    \* what has been committed
    open,    \* a transaction is open on the handle
    page,    \* the specification page: the task that wrote it, Unwritten or Gone
    bin,     \* archived_memories: the pages filed
    task,    \* per task: [action, plan, borrowed, text]
    acked    \* history: the tasks that were answered

vars == <<view, disk, open, page, bin, task, acked>>

Actions == {"init", "decision", "mapping", "update", "archive"}

\* The steps of an action, each followed by an await: the schema, the statements
\* of ProjectMemory with their commits, and touch().
Plan(action) ==
    CASE action = "init" -> <<"look", "script", "page", "upsert", "commit">>
      [] action = "decision" -> <<"look", "script", "decide", "commit", "own", "touch", "release">>
      [] action = "mapping" -> <<"look", "script", "map", "commit", "own", "touch", "release">>
      [] action = "update" -> <<"look", "script", "page", "upsert", "commit",
                                "clear", "index", "commit", "own", "touch", "release">>
      [] action = "archive" -> <<"look", "script", "search", "file", "unlink">>

\* The last steps of an update refresh the code map.
CodeMapSteps == 6

Store == [project : Tasks \cup {Unwritten}, decisions : SUBSET Tasks, artifact : Tasks \cup {Unwritten}, symbols : SUBSET Tasks]
Steps == {"look", "script", "page", "upsert", "decide", "map", "clear", "index", "commit",
          "own", "touch", "release", "search", "file", "unlink"}
NoTask == [action |-> "none", plan |-> <<>>, borrowed |-> FALSE, text |-> Unwritten]
EmptyStore == [project |-> Unwritten, decisions |-> {}, artifact |-> Unwritten, symbols |-> {}]

TypeOK ==
    /\ view \in Store /\ disk \in Store /\ open \in BOOLEAN
    /\ page \in Tasks \cup {Unwritten, Gone} /\ bin \subseteq Tasks
    /\ task \in [Tasks -> [action : Actions \cup {"none"}, plan : Seq(Steps), borrowed : BOOLEAN, text : Tasks \cup {Unwritten}]]
    /\ acked \subseteq Tasks

Init ==
    /\ view = EmptyStore /\ disk = EmptyStore /\ open = FALSE
    /\ page = Unwritten /\ bin = {}
    /\ task = [t \in Tasks |-> NoTask]
    /\ acked = {}

------------------------------------------------------------------------------
At(t, step) == task[t].plan # <<>> /\ Head(task[t].plan) = step
Advance(t) ==
    /\ task' = [task EXCEPT ![t].plan = Tail(@)]
    /\ acked' = IF Len(task[t].plan) = 1 THEN acked \cup {t} ELSE acked

Call(t, action) ==
    /\ task[t].action = "none"
    /\ task' = [task EXCEPT ![t] = [NoTask EXCEPT !.action = action, !.plan = Plan(action)]]
    /\ UNCHANGED <<view, disk, open, page, bin, acked>>

\* The schema script rides along in an open transaction ...
LookForTransaction(t) ==
    /\ At(t, "look")
    /\ task' = [task EXCEPT ![t].plan = IF open THEN Tail(Tail(@)) ELSE Tail(@)]
    /\ UNCHANGED <<view, disk, open, page, bin, acked>>

CommitAll == disk' = view /\ open' = FALSE /\ UNCHANGED <<view, page, bin>>

\* ... and commits otherwise, whatever has been opened since it looked.
RunScript(t) == At(t, "script") /\ Advance(t) /\ CommitAll

Executes(t, step, new) ==
    /\ At(t, step) /\ Advance(t)
    /\ view' = new /\ open' = TRUE
    /\ UNCHANGED <<disk, page, bin>>

UpsertProject(t) == Executes(t, "upsert", [view EXCEPT !.project = t])
AddDecision(t) == Executes(t, "decide", [view EXCEPT !.decisions = @ \cup {t}])
UpsertArtifact(t) == Executes(t, "map", [view EXCEPT !.artifact = t])

\* The code index: one statement deletes, one inserts, one commits.
ClearSymbols(t) == Executes(t, "clear", [view EXCEPT !.symbols = {}])
InsertSymbols(t) == Executes(t, "index", [view EXCEPT !.symbols = @ \cup {t}])

\* No directory, no indexer, or any failure on the way: the call is answered
\* "skipped", with what it executed still open.
SkipCodeMap(t) ==
    /\ task[t].action = "update" /\ Len(task[t].plan) \in 1..CodeMapSteps
    /\ task' = [task EXCEPT ![t].plan = <<>>]
    /\ acked' = acked \cup {t}
    /\ UNCHANGED <<view, disk, open, page, bin>>

Commit(t) == At(t, "commit") /\ Advance(t) /\ CommitAll

\* touch(): who opened the transaction is read, the UPDATE opens one if there
\* is none by then, and it is committed if there was none before.
ReadOwner(t) ==
    /\ At(t, "own")
    /\ task' = [task EXCEPT ![t].plan = Tail(@), ![t].borrowed = open]
    /\ UNCHANGED <<view, disk, open, page, bin, acked>>

TouchProject(t) == Executes(t, "touch", view)

Release(t) ==
    /\ At(t, "release") /\ Advance(t)
    /\ IF task[t].borrowed THEN UNCHANGED <<view, disk, open, page, bin>> ELSE CommitAll

------------------------------------------------------------------------------
(* The page *)

WritePage(t) ==
    /\ At(t, "page") /\ Advance(t)
    /\ page' = t
    /\ UNCHANGED <<view, disk, open, bin>>

\* No page of that title: "not_found", and nothing is done.
SearchPage(t) ==
    /\ At(t, "search")
    /\ IF page \in Tasks
       THEN task' = [task EXCEPT ![t].plan = Tail(@), ![t].text = page] /\ UNCHANGED acked
       ELSE task' = [task EXCEPT ![t].plan = <<>>] /\ acked' = acked \cup {t}
    /\ UNCHANGED <<view, disk, open, page, bin>>

FilePage(t) ==
    /\ At(t, "file") /\ Advance(t)
    /\ bin' = bin \cup {task[t].text}
    /\ UNCHANGED <<view, disk, open, page>>

\* By its path, whatever it holds by now.
DeletePage(t) ==
    /\ At(t, "unlink") /\ Advance(t)
    /\ page' = Gone
    /\ UNCHANGED <<view, disk, open, bin>>

------------------------------------------------------------------------------
\* The call is cancelled or a statement fails; what it executed stays open.
Fails(t) ==
    /\ task[t].plan # <<>>
    /\ task' = [task EXCEPT ![t].plan = <<>>]
    /\ UNCHANGED <<view, disk, open, page, bin, acked>>

Crash ==
    /\ \E t \in Tasks : task[t].plan # <<>>
    /\ view' = disk /\ open' = FALSE
    /\ task' = [t \in Tasks |-> [task[t] EXCEPT !.plan = <<>>]]
    /\ UNCHANGED <<disk, page, bin, acked>>

Action(t) ==
    \/ \E action \in Actions : Call(t, action)
    \/ LookForTransaction(t) \/ RunScript(t)
    \/ UpsertProject(t) \/ AddDecision(t) \/ UpsertArtifact(t) \/ ClearSymbols(t) \/ InsertSymbols(t) \/ SkipCodeMap(t)
    \/ Commit(t) \/ ReadOwner(t) \/ TouchProject(t) \/ Release(t)
    \/ WritePage(t) \/ SearchPage(t) \/ FilePage(t) \/ DeletePage(t)
    \/ Fails(t)

Next == (\E t \in Tasks : Action(t)) \/ Crash

Spec == Init /\ [][Next]_vars

------------------------------------------------------------------------------
\* What a call was told is recorded survives everything: its own commit and
\* nobody else's discretion makes it durable (add_decision, upsert_artifact,
\* upsert_project, replace_symbols).
AcknowledgedIsDurable ==
    \A t \in acked :
        CASE task[t].action = "decision" -> t \in disk.decisions
          [] task[t].action = "mapping" -> disk.artifact # Unwritten
          [] task[t].action \in {"init", "update"} -> disk.project # Unwritten
          [] OTHER -> TRUE

\* A page that an archiving deleted has been filed, wherever it was cut short
\* (_action_archive); not always the text that was deleted.
DeletedIsFiled == page = Gone => bin # {}

\* Violated: nobody is at work and the transaction of a touch is still open,
\* because the one it was borrowed from had been committed in between.
NothingStaysOpen == (\A t \in Tasks : task[t].plan = <<>> /\ task[t].action # "none") => ~open
=============================================================================
