----------------------------- MODULE Embeddings -----------------------------
(***************************************************************************)
(* The embedding cache behind its circuit breaker (shared/embeddings.py,    *)
(* shared/circuit_breaker.py; shared/harness_breaker.py uses the breaker    *)
(* the same way).                                                           *)
(*                                                                          *)
(* A call looks its texts up under the tag of the backend it has, asks the  *)
(* breaker, then the model in a thread or over HTTP, and stores what it got.*)
(* Calls overlap: the answer of a call let through before the breaker       *)
(* opened may arrive after.  The cache holds one row per text, whatever its *)
(* tag.  A server may be started without a model (hash mode).               *)
(***************************************************************************)
EXTENDS Integers, FiniteSets

CONSTANTS
    Callers, Texts,
    Threshold,  \* consecutive failures that open the breaker (3, 5 for a harness)
    Recovery,   \* ticks before a probe (30 s, 60 s)
    MaxFailures, MaxModes, \* bounds on failures of the backend and on restarts
    None

VARIABLES
    mode,     \* "model" or "hash": what this server process has
    up,       \* the backend answers
    breaker,  \* [state, failures, openFor]: openFor counts the ticks since it opened
    cache,    \* text -> [tag, by] or None: under which tag, computed by what
    call,     \* caller -> the call it is in: [pc, wanted, mode] or None
    failures, modes

vars == <<mode, up, breaker, cache, call, failures, modes>>

Backends == {"model", "hash"}

TypeOK ==
    /\ mode \in Backends /\ up \in BOOLEAN
    /\ breaker \in [state : {"closed", "open", "halfopen"}, failures : 0..Threshold + MaxFailures, openFor : 0..Recovery + 1]
    /\ \A t \in Texts : cache[t] = None \/ cache[t] \in [tag : Backends, by : Backends]
    /\ \A c \in Callers : call[c] = None \/ call[c] \in [pc : {"ask", "model", "hash", "got"}, wanted : SUBSET Texts, mode : Backends]
    /\ failures \in 0..MaxFailures /\ modes \in 0..MaxModes

Closed == [state |-> "closed", failures |-> 0, openFor |-> 0]

Init ==
    /\ mode \in Backends /\ up = TRUE
    /\ breaker = Closed
    /\ cache = [t \in Texts |-> None]
    /\ call = [c \in Callers |-> None]
    /\ failures = 0 /\ modes = 0

------------------------------------------------------------------------------
(* The breaker *)

\* Looking at the state of an open breaker past its timeout makes it half-open.
Looked == IF breaker.state = "open" /\ breaker.openFor > Recovery
            THEN [breaker EXCEPT !.state = "halfopen"] ELSE breaker

\* Every request is let through while it is half-open.
Allows == Looked.state # "open"

\* Mutant: a success forgets the failures but leaves the breaker half-open.
Forgiving(b) == [b EXCEPT !.failures = 0]

Success(b) == [b EXCEPT !.failures = 0, !.state = IF @ = "halfopen" THEN "closed" ELSE @]

\* A failure counts in every state, and a late one opens the breaker anew.
Failure(b) ==
    IF b.state = "halfopen" \/ b.failures + 1 >= Threshold
      THEN [state |-> "open", failures |-> b.failures + 1, openFor |-> 0]
      ELSE [b EXCEPT !.failures = @ + 1]

\* The diagnostics' healing resets it.
Reset ==
    /\ breaker # Closed /\ breaker' = Closed
    /\ UNCHANGED <<mode, up, cache, call, failures, modes>>

Tick ==
    /\ breaker.state = "open" /\ breaker.openFor <= Recovery
    /\ breaker' = [breaker EXCEPT !.openFor = @ + 1]
    /\ UNCHANGED <<mode, up, cache, call, failures, modes>>

------------------------------------------------------------------------------
(* embed *)

\* The rows of the call's own tag are hits; the others are to be computed.
Embed(c, texts) ==
    /\ call[c] = None
    /\ LET hits == {t \in texts : cache[t] # None /\ cache[t].tag = mode} IN
        /\ call' = [call EXCEPT ![c] = IF hits = texts THEN None
                                        ELSE [pc |-> "ask", wanted |-> texts \ hits, mode |-> mode]]
    /\ UNCHANGED <<mode, up, breaker, cache, failures, modes>>

\* Without a model, or with the breaker open, the hash of the text is its vector.
Ask(c) ==
    /\ call[c] # None /\ call[c].pc = "ask"
    /\ IF call[c].mode = "model"
         THEN breaker' = Looked /\ call' = [call EXCEPT ![c].pc = IF Allows THEN "model" ELSE "hash"]
         ELSE call' = [call EXCEPT ![c].pc = "hash"] /\ UNCHANGED breaker
    /\ UNCHANGED <<mode, up, cache, failures, modes>>

\* The service answers with a vector a text.
Answer(c) ==
    /\ call[c] # None /\ call[c].pc = "model" /\ up
    /\ breaker' = Success(breaker)
    /\ call' = [call EXCEPT ![c].pc = "got"]
    /\ UNCHANGED <<mode, up, cache, failures, modes>>

\* An error or a timeout: the caller gets the exception and nothing is stored.
Fails(c) ==
    /\ call[c] # None /\ call[c].pc = "model"
    /\ ~up
    /\ breaker' = [Failure(breaker) EXCEPT !.failures = IF @ > Threshold THEN Threshold ELSE @]
    /\ call' = [call EXCEPT ![c] = None]
    /\ UNCHANGED <<mode, up, cache, failures, modes>>

Store(c, tag, by) ==
    /\ cache' = [t \in Texts |-> IF t \in call[c].wanted THEN [tag |-> tag, by |-> by] ELSE cache[t]]
    /\ call' = [call EXCEPT ![c] = None]
    /\ UNCHANGED <<mode, up, breaker, failures, modes>>

StoreModel(c) ==
    /\ call[c] # None /\ call[c].pc = "got"
    /\ Store(c, call[c].mode, "model")

\* Mutant: a fallback vector is stored under the tag of the call.
CallTag(tag) == tag

\* The tag of a hash vector, prefixed once.
FallbackTag(tag) == "hash"

\* A row of the model's is replaced where a server without a model asks.
StoreHash(c) ==
    /\ call[c] # None /\ call[c].pc = "hash"
    /\ Store(c, FallbackTag(call[c].mode), "hash")

------------------------------------------------------------------------------
BackendFails == up /\ failures < MaxFailures /\ up' = FALSE /\ failures' = failures + 1
                /\ UNCHANGED <<mode, breaker, cache, call, modes>>
BackendRecovers == ~up /\ up' = TRUE /\ UNCHANGED <<mode, breaker, cache, call, failures, modes>>

\* A restart loses the breaker's state and the calls, and keeps the cache.
Restart ==
    /\ modes < MaxModes /\ modes' = modes + 1
    /\ mode' \in Backends
    /\ breaker' = Closed
    /\ call' = [c \in Callers |-> None]
    /\ UNCHANGED <<up, cache, failures>>

\* A row that cannot be decoded is a miss; so is a text not asked for before,
\* which takes the place of one of these.
Misses(t) == cache[t] # None /\ cache' = [cache EXCEPT ![t] = None]
              /\ UNCHANGED <<mode, up, breaker, call, failures, modes>>

Requests(c) == \E texts \in SUBSET Texts \ {{}} : Embed(c, texts)

Next ==
    \/ \E c \in Callers : Requests(c) \/ Ask(c) \/ Answer(c) \/ Fails(c) \/ StoreModel(c) \/ StoreHash(c)
    \/ \E t \in Texts : Misses(t)
    \/ Reset \/ Tick \/ BackendFails \/ BackendRecovers \/ Restart

\* A call goes on once it is made, and one let through to the backend ends by
\* an answer or a timeout.
FairSpec ==
    /\ Init /\ [][Next]_vars
    /\ WF_vars(Tick)
    /\ \A c \in Callers :
        /\ WF_vars(Ask(c)) /\ WF_vars(Answer(c) \/ Fails(c)) /\ WF_vars(StoreModel(c) \/ StoreHash(c))

------------------------------------------------------------------------------
(* Properties *)

\* A vector served or stored as the model's was computed by the model, across
\* open breakers, late answers and servers without a model (_fallback_tag,
\* _cache_model_tag).
HashNeverMasquerades ==
    \A t \in Texts : cache[t] # None /\ cache[t].tag = "model" => cache[t].by = "model"

Asking == \E c \in Callers : call[c] # None /\ call[c].pc = "ask"

\* Once the backend stays up, a server with a model closes its breaker for good,
\* as long as it keeps being asked for texts it has no row of (record_success).
RecoveryIsNoticed ==
    <>[](up /\ mode = "model") /\ []<>Asking => <>[](breaker.state = "closed")
=============================================================================
