---------------------------- MODULE Transactions ----------------------------
(***************************************************************************)
(* What a caller of shared/write_dispatch.py may rely on, without the lock,*)
(* the shared connection and the other processes: a call that returns has  *)
(* made all its rows durable at once, and a transaction that raised has    *)
(* made all or none durable by then and makes none durable later.  Only    *)
(* the statements of a call that no rollback covers may surface late.      *)
(***************************************************************************)
CONSTANT Tasks

VARIABLES
    durable, \* the rows other connections can see
    outcome, \* per task: "pending", "ok" or "raised"
    rows,    \* per task: what its call writes
    loose    \* the tasks whose call no rollback covers

vars == <<durable, outcome, rows, loose>>

Init == durable = {} /\ outcome = [t \in Tasks |-> "pending"]

\* The rows a call that raised may still make durable through a later commit.
Loose == UNION {rows[t] : t \in {u \in loose : outcome[u] = "raised"}}

End(t, result) ==
    /\ outcome[t] = "pending"
    /\ outcome' = [outcome EXCEPT ![t] = result]
    /\ UNCHANGED <<rows, loose>>

Return(t) == End(t, "ok") /\ \E late \in SUBSET Loose : durable' = durable \cup rows[t] \cup late

\* A cancelled caller does not learn whether its commit went through.
Raise(t) == End(t, "raised") /\ \/ UNCHANGED durable
                                \/ \E late \in SUBSET Loose : durable' = durable \cup rows[t] \cup late

Next == \E t \in Tasks : Return(t) \/ Raise(t)

Spec == Init /\ [][Next]_vars
=============================================================================
