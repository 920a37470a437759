----------------------------- MODULE Connections -----------------------------
(***************************************************************************)
(* The connection manager (shared/connection.py): one cached connection    *)
(* per database file, opened on the first get() and probed on every later  *)
(* one, and the end of a command line process (autohooks/__main__.py),     *)
(* which cannot leave the interpreter while a connection's worker thread   *)
(* is alive.                                                               *)
(*                                                                         *)
(* One database name is enough: names do not interact.  get() awaits when  *)
(* it probes, closes, connects and configures, so coroutines interleave    *)
(* there; base_dir can be repointed under a manager, and a connection can  *)
(* break.                                                                  *)
(***************************************************************************)
EXTENDS Naturals, Sequences

CONSTANTS
    Tasks,     \* coroutines that call get()
    Dirs,      \* the directories base_dir may name
    MaxOpens,  \* bound on the connections opened
    MaxMoves,  \* bound on the repointings of base_dir
    None

VARIABLES
    base_dir, \* the directory, and how often it was moved: [dir, moves]
    cache,    \* [conn, path]: the entry of _conns and of _paths
    handles,  \* every connection ever opened: [dir, state], state open, broken or closed
    task,     \* per task: [pc, conn, target]
    main      \* the process: [pc, command]

vars == <<base_dir, cache, handles, task, main>>

Handles == 1..MaxOpens
Alive == {h \in DOMAIN handles : handles[h].state # "closed"}

TypeOK ==
    /\ base_dir \in [dir : Dirs, moves : 0..MaxMoves]
    /\ cache \in [conn : Handles \cup {None}, path : Dirs \cup {None}]
    /\ handles \in UNION {[1..n -> [dir : Dirs, state : {"open", "broken", "closed"}]] : n \in 0..MaxOpens}
    /\ task \in [Tasks -> [pc : {"idle", "dropping", "lookup", "probing", "retiring", "opening", "configuring", "holding", "failed"},
                           conn : Handles \cup {None}, target : Dirs \cup {None}]]
    /\ main \in [pc : {"running", "closing", "returned", "joining", "exited", "raised"},
                 command : {"daemon", "one_shot"}]

Init ==
    /\ base_dir = [dir |-> CHOOSE d \in Dirs : TRUE, moves |-> 0]
    /\ cache = [conn |-> None, path |-> None]
    /\ handles = <<>>
    /\ task = [t \in Tasks |-> [pc |-> "idle", conn |-> None, target |-> None]]
    /\ \E c \in {"daemon", "one_shot"} : main = [pc |-> "running", command |-> c]

------------------------------------------------------------------------------
(* The environment *)

Repoint ==
    /\ base_dir.moves < MaxMoves
    /\ \E d \in Dirs \ {base_dir.dir} : base_dir' = [dir |-> d, moves |-> base_dir.moves + 1]
    /\ UNCHANGED <<cache, handles, task, main>>

Break(h) ==
    /\ h \in DOMAIN handles /\ handles[h].state = "open"
    /\ handles' = [handles EXCEPT ![h].state = "broken"]
    /\ UNCHANGED <<base_dir, cache, task, main>>

------------------------------------------------------------------------------
(* get(), one step from an await to the next *)

Goto(t, pc, h, target) == task' = [task EXCEPT ![t] = [pc |-> pc, conn |-> h, target |-> target]]

\* The cached handle, if any, is probed; without one a connection is opened on
\* the directory that base_dir names at this moment.
Lookup(t, conn) ==
    IF conn # None THEN Goto(t, "probing", conn, base_dir.dir) ELSE Goto(t, "opening", None, base_dir.dir)

\* A handle opened under another directory is dropped before the lookup.
Get(t) ==
    /\ main.pc = "running" /\ task[t].pc = "idle"
    /\ IF cache.path \notin {None, base_dir.dir}
       THEN /\ cache' = [conn |-> None, path |-> None]
            /\ IF cache.conn # None THEN Goto(t, "dropping", cache.conn, base_dir.dir) ELSE Lookup(t, None)
       ELSE Lookup(t, cache.conn) /\ UNCHANGED cache
    /\ UNCHANGED <<base_dir, handles, main>>

Dropped(t) ==
    /\ task[t].pc = "dropping"
    /\ handles' = [handles EXCEPT ![task[t].conn].state = "closed"]
    /\ Goto(t, "lookup", None, task[t].target)
    /\ UNCHANGED <<base_dir, cache, main>>

Resume(t) ==
    /\ task[t].pc = "lookup"
    /\ Lookup(t, cache.conn)
    /\ UNCHANGED <<base_dir, cache, handles, main>>

Probed(t) ==
    /\ task[t].pc = "probing"
    /\ handles[task[t].conn].state = "open"
    /\ Goto(t, "holding", task[t].conn, task[t].target)
    /\ UNCHANGED <<base_dir, cache, handles, main>>

\* Mutant: whatever is cached is taken for the handle that was probed.
AnyIsMine(h) == cache.conn # None

IsMine(h) == cache.conn = h

\* A probe that fails: the entry is dropped and closed only if it still is the
\* handle that was probed, and either way a new connection is opened.
ProbeFails(t) ==
    /\ task[t].pc = "probing"
    /\ handles[task[t].conn].state # "open"
    /\ IF IsMine(task[t].conn)
       THEN cache' = [cache EXCEPT !.conn = None] /\ Goto(t, "retiring", cache.conn, task[t].target)
       ELSE UNCHANGED cache /\ Goto(t, "opening", None, base_dir.dir)
    /\ UNCHANGED <<base_dir, handles, main>>

Retired(t) ==
    /\ task[t].pc = "retiring"
    /\ handles' = [handles EXCEPT ![task[t].conn].state = "closed"]
    /\ Goto(t, "opening", None, base_dir.dir)
    /\ UNCHANGED <<base_dir, cache, main>>

\* The worker thread starts and the handle is tracked before it is configured.
Connect(t) ==
    /\ task[t].pc = "opening"
    /\ Len(handles) < MaxOpens
    /\ handles' = Append(handles, [dir |-> task[t].target, state |-> "open"])
    /\ Goto(t, "configuring", Len(handles) + 1, task[t].target)
    /\ UNCHANGED <<base_dir, cache, main>>

ConnectFails(t) ==
    /\ task[t].pc = "opening"
    /\ Goto(t, "failed", None, None)
    /\ UNCHANGED <<base_dir, cache, handles, main>>

Install(t) ==
    /\ task[t].pc = "configuring"
    /\ cache' = [conn |-> task[t].conn, path |-> task[t].target]
    /\ Goto(t, "holding", task[t].conn, task[t].target)
    /\ UNCHANGED <<base_dir, handles, main>>

Done(t) ==
    /\ task[t].pc = "holding"
    /\ Goto(t, "idle", None, None)
    /\ UNCHANGED <<base_dir, cache, handles, main>>

------------------------------------------------------------------------------
(* The end of the process *)

AllIdle == \A t \in Tasks : task[t].pc \in {"idle", "failed"}

\* Every command ends with a return inside the try, so the else clause that
\* closes the manager is not reached.
CommandReturns ==
    /\ main.pc = "running" /\ AllIdle
    /\ main' = [main EXCEPT !.pc = "joining"]
    /\ UNCHANGED <<base_dir, cache, handles, task>>

CommandRaises ==
    /\ main.pc = "running" /\ AllIdle
    /\ main' = [main EXCEPT !.pc = "closing"]
    /\ UNCHANGED <<base_dir, cache, handles, task>>

CloseAll ==
    /\ main.pc = "closing"
    /\ handles' = IF cache.conn # None THEN [handles EXCEPT ![cache.conn].state = "closed"] ELSE handles
    /\ cache' = [conn |-> None, path |-> None]
    /\ main' = [main EXCEPT !.pc = "joining"]
    /\ UNCHANGED <<base_dir, task>>

\* The interpreter joins the worker threads of every open connection.
Exit ==
    /\ main.pc = "joining"
    /\ Alive = {}
    /\ main' = [main EXCEPT !.pc = "exited"]
    /\ UNCHANGED <<base_dir, cache, handles, task>>

\* One-shot commands arm a watchdog that ends the process from outside.
Guard ==
    /\ main.command = "one_shot"
    /\ main.pc # "exited"
    /\ main' = [main EXCEPT !.pc = "exited"]
    /\ UNCHANGED <<base_dir, cache, handles, task>>

Coroutine(t) == \/ Dropped(t) \/ Resume(t) \/ Probed(t) \/ ProbeFails(t) \/ Retired(t)
                \/ Connect(t) \/ ConnectFails(t) \/ Install(t) \/ Done(t)

Next == \/ \E t \in Tasks : Get(t) \/ Coroutine(t)
        \/ \E h \in Handles : Break(h)
        \/ Repoint \/ CommandReturns \/ CommandRaises \/ CloseAll \/ Exit \/ Guard

Fairness == /\ \A t \in Tasks : WF_vars(Coroutine(t))
            /\ WF_vars(CloseAll) /\ WF_vars(Exit) /\ WF_vars(Guard)

Spec == Init /\ [][Next]_vars
FairSpec == Spec /\ Fairness

------------------------------------------------------------------------------
(* Properties *)

\* Of every step: a getter closes only what is of no use: a handle that broke or that was
\* opened under another directory; the healthy replacement another getter has
\* installed meanwhile is not its to close (get(), the same_entry test).
HealthyHandlesSurvive ==
    \A h \in DOMAIN handles :
       handles[h].state = "open" /\ handles'[h].state = "closed" =>
           \/ main.pc = "closing"
           \/ \E t \in Tasks : task[t].pc = "dropping" /\ task[t].conn = h /\ task[t].target # handles[h].dir

\* Violated: what _close_ariel is for (autohooks/__main__.py), that the
\* connections are closed before exit and the process ends by itself.
ProcessEnds == main.pc = "joining" ~> main.pc = "exited"
=============================================================================
