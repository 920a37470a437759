------------------------------- MODULE Backups -------------------------------
(***************************************************************************)
(* Backups of one base: the cron threads of the processes that serve it    *)
(* and the backup tool write them, entry by entry, the manifest last; the  *)
(* cron prunes what is old or beyond the count; restore copies a backup's  *)
(* entries over the live files, one at a time.                             *)
(*                                                                         *)
(* A file is whole, torn or missing: which commits it holds is abstracted, *)
(* and so are the write-ahead log a restore leaves beside the database and *)
(* the jitter's length.  A directory's age is its modification time, so    *)
(* `dirs` is kept in that order, oldest first.                             *)
(***************************************************************************)
EXTENDS Naturals, Sequences

CONSTANTS
    Crons,       \* the processes that run the backup cron
    Manual,      \* the callers of the backup tool
    KeepCount,   \* backup_keep_count
    MaxBackups,  \* bound on the backups ever begun
    MaxCrashes,  \* bound on the crashes
    Whole, Torn, \* a file, and one whose writing was cut short
    None

VARIABLES
    live,     \* entry -> the live file
    dirs,     \* the backup directories in the order of their modification times
    pc,       \* writer -> where it is
    own,      \* writer -> the name of the directory it writes
    lock,     \* the writer that holds the backup lock, or None
    restorer, \* restore(): [todo, from, listed]
    count     \* [begun, crashes, whole]: whole once a backup has been completed

vars == <<live, dirs, pc, own, lock, restorer, count>>

Writers == Crons \cup Manual
Content == {Whole, Torn, None}
Entries == {"db", "wiki"}
Dir == [name : 1..MaxBackups, db : Content, wiki : Content, manifest : BOOLEAN]
NoRestore == [todo |-> {}, from |-> None]

TypeOK ==
    /\ live \in [Entries -> {Whole, Torn}]
    /\ dirs \in Seq(Dir)
    /\ pc \in [Writers -> {"idle", "jitter", "snapshot", "wiki", "manifest", "clean"}]
    /\ own \in [Writers -> 1..MaxBackups \cup {None}]
    /\ lock \in Crons \cup {None}
    /\ restorer \in [todo : SUBSET Entries, from : 1..MaxBackups \cup {None}]
    /\ count \in [begun : 0..MaxBackups, crashes : 0..MaxCrashes, whole : BOOLEAN]

Init ==
    /\ live = [e \in Entries |-> Whole]
    /\ dirs = <<>>
    /\ pc = [w \in Writers |-> "idle"]
    /\ own = [w \in Writers |-> None]
    /\ lock = None
    /\ restorer = NoRestore
    /\ count = [begun |-> 0, crashes |-> 0, whole |-> FALSE]

Places(n) == {i \in 1..Len(dirs) : dirs[i].name = n}

\* A write inside the directory at i makes it the youngest, as d.
Touched(i, d) ==
    [j \in 1..Len(dirs) |-> IF j < i THEN dirs[j] ELSE IF j < Len(dirs) THEN dirs[j + 1] ELSE d]

------------------------------------------------------------------------------
(* Writing a backup *)

\* The interval has passed for this process: its own clock, its own state.
Due(c) ==
    /\ c \in Crons /\ pc[c] = "idle"
    /\ pc' = [pc EXCEPT ![c] = "jitter"]
    /\ UNCHANGED <<live, dirs, own, lock, restorer, count>>

StopInJitter(c) ==
    /\ pc[c] = "jitter"
    /\ pc' = [pc EXCEPT ![c] = "idle"]
    /\ UNCHANGED <<live, dirs, own, lock, restorer, count>>

\* A fresh name: the second and a random suffix.
Begin(w) ==
    /\ count.begun < MaxBackups
    /\ count' = [count EXCEPT !.begun = @ + 1]
    /\ own' = [own EXCEPT ![w] = count.begun + 1]
    /\ dirs' = Append(dirs, [name |-> count.begun + 1, db |-> None, wiki |-> None, manifest |-> FALSE])
    /\ pc' = [pc EXCEPT ![w] = "snapshot"]

LockFree == lock = None

\* The lock is taken after the jitter, so that it is never squatted.
TakeLock(c) ==
    /\ pc[c] = "jitter" /\ LockFree
    /\ lock' = c
    /\ Begin(c)
    /\ UNCHANGED <<live, restorer>>

SkipBusy(c) ==
    /\ pc[c] = "jitter" /\ ~LockFree
    /\ pc' = [pc EXCEPT ![c] = "idle"]
    /\ UNCHANGED <<live, dirs, own, lock, restorer, count>>

\* The tool takes no lock and does not prune.
BackupNow(m) ==
    /\ m \in Manual /\ pc[m] = "idle"
    /\ Begin(m)
    /\ UNCHANGED <<live, lock, restorer>>

\* The directory of w; gone when another's pruning has taken it.
Mine(w) == Places(own[w])

\* What the rest of an attempt does once it is over, one way or another.
Finish(w) ==
    /\ pc' = [pc EXCEPT ![w] = "idle"]
    /\ own' = [own EXCEPT ![w] = None]
    /\ lock' = IF lock = w THEN None ELSE lock

Snapshot(w) ==
    /\ pc[w] = "snapshot"
    /\ \E i \in Mine(w) : dirs' = Touched(i, [dirs[i] EXCEPT !.db = live.db])
    /\ pc' = [pc EXCEPT ![w] = "wiki"]
    /\ UNCHANGED <<live, own, lock, restorer, count>>

CopyWiki(w) ==
    /\ pc[w] = "wiki"
    /\ \E i \in Mine(w) : dirs' = Touched(i, [dirs[i] EXCEPT !.wiki = live.wiki])
    /\ pc' = [pc EXCEPT ![w] = "manifest"]
    /\ UNCHANGED <<live, own, lock, restorer, count>>

Manifest(w) ==
    /\ pc[w] = "manifest"
    /\ \E i \in Mine(w) : dirs' = Touched(i, [dirs[i] EXCEPT !.manifest = TRUE])
    /\ count' = [count EXCEPT !.whole = TRUE]
    /\ IF w \in Crons
       THEN /\ pc' = [pc EXCEPT ![w] = "clean"]
            /\ UNCHANGED <<own, lock>>
       ELSE Finish(w)
    /\ UNCHANGED <<live, restorer>>

\* Its directory was pruned under it: the next write raises.
LosesDirectory(w) ==
    /\ pc[w] \in {"snapshot", "wiki", "manifest"} /\ Mine(w) = {}
    /\ Finish(w)
    /\ UNCHANGED <<live, dirs, restorer, count>>

------------------------------------------------------------------------------
(* Pruning *)

Working(d) == \E w \in Writers : pc[w] # "idle" /\ own[w] = d.name

\* n is how many have passed the retention; nothing in the making is that old.
Aged(n) == n \in 0..Len(dirs) /\ \A i \in 1..n : ~Working(dirs[i])

\* How many go: those past the retention, and of the others those beyond the count.
Doomed(n) == IF Len(dirs) - n > KeepCount THEN Len(dirs) - KeepCount ELSE n

Clean(c) ==
    /\ pc[c] = "clean"
    /\ \E n \in 0..Len(dirs) :
          /\ Aged(n)
          /\ dirs' = [j \in 1..(Len(dirs) - Doomed(n)) |-> dirs[j + Doomed(n)]]
    /\ Finish(c)
    /\ UNCHANGED <<live, restorer, count>>

------------------------------------------------------------------------------
(* Crashes *)

\* The kernel drops the lock of a process that dies.  Cut short while it
\* snapshots, a writer leaves a torn database; while it removes a directory,
\* one that has lost an entry and is the youngest for it.
Crash(w) ==
    /\ pc[w] # "idle" /\ count.crashes < MaxCrashes
    /\ count' = [count EXCEPT !.crashes = @ + 1]
    /\ Finish(w)
    /\ \/ UNCHANGED dirs
       \/ pc[w] = "snapshot" /\ \E i \in Mine(w) : dirs' = Touched(i, [dirs[i] EXCEPT !.db = Torn])
       \/ pc[w] = "clean" /\ \E i \in 1..Doomed(0) : dirs' = Touched(i, [dirs[i] EXCEPT !.db = None])
    /\ UNCHANGED <<live, restorer>>

------------------------------------------------------------------------------
(* Restoring *)

\* The manifest's entries, or without one whatever database is there.
Listed(d) == IF d.manifest THEN Entries ELSE IF d.db # None THEN {"db"} ELSE {}

Restore(d) ==
    /\ restorer = NoRestore /\ Listed(d) # {}
    /\ restorer' = [todo |-> Listed(d), from |-> d.name]
    /\ UNCHANGED <<live, dirs, pc, own, lock, count>>

\* One entry; it is left out when it, or the whole directory, has gone.  The
\* log beside the database stays as it is.
RestoreEntry ==
    /\ \E e \in restorer.todo :
          /\ e = "wiki" => "db" \notin restorer.todo
          /\ \/ \E i \in Places(restorer.from) : dirs[i][e] # None /\ live' = [live EXCEPT ![e] = dirs[i][e]]
             \/ (\A i \in Places(restorer.from) : dirs[i][e] = None) /\ UNCHANGED live
          /\ restorer' = IF restorer.todo = {e} THEN NoRestore ELSE [restorer EXCEPT !.todo = @ \ {e}]
    /\ UNCHANGED <<dirs, pc, own, lock, count>>

RestoreDies ==
    /\ restorer # NoRestore /\ count.crashes < MaxCrashes
    /\ count' = [count EXCEPT !.crashes = @ + 1]
    /\ restorer' = NoRestore
    /\ UNCHANGED <<live, dirs, pc, own, lock>>

------------------------------------------------------------------------------
Write(w) == \/ Due(w) \/ StopInJitter(w) \/ TakeLock(w) \/ SkipBusy(w) \/ BackupNow(w)
            \/ Snapshot(w) \/ CopyWiki(w) \/ Manifest(w) \/ LosesDirectory(w) \/ Clean(w) \/ Crash(w)

Restoring == (\E i \in 1..Len(dirs) : Restore(dirs[i])) \/ RestoreEntry \/ RestoreDies

Next == (\E w \in Writers : Write(w)) \/ Restoring

Spec == Init /\ [][Next]_vars

------------------------------------------------------------------------------
Complete(d) == d.manifest /\ d.db # None /\ d.wiki # None

\* Once a backup has been completed there is always a complete one to restore
\* from, whatever the pruning of two processes removes and whoever dies half
\* way: incomplete directories count like complete ones, so this needs the
\* one-writer lock and a count above what crashes and the tool can add.
ACompleteOneSurvives == count.whole => \E i \in 1..Len(dirs) : Complete(dirs[i])

\* Violated: restoring never leaves a torn database in place of a whole one.
RestoreNeverTears == live["db"] = Whole
===============================================================================
