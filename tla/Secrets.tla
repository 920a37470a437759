------------------------------- MODULE Secrets -----------------------------
(***************************************************************************)
(* The master key and the two stores it seals (shared/master_key.py,       *)
(* features/auth): a process that finds no key makes one and appends it to *)
(* the .env file, the first line of which later processes take; the API    *)
(* keys are read, changed and rewritten under a file lock, the bearer      *)
(* token without one.                                                      *)
(*                                                                         *)
(* No keyring and no configured key, the installation's default.  A master *)
(* key is its number, a token the process that made it.  A file is replaced*)
(* in one step; a process that dies is another one when it starts again.   *)
(***************************************************************************)
EXTENDS Naturals, Sequences, FiniteSets

CONSTANTS
    Procs,
    APIKeys,     \* what create_key may return
    MaxSeeds,    \* bound on the master keys made
    None

VARIABLES
    dotenv,      \* the lines MCP_MASTER_KEY of the .env file
    seeds,       \* master keys made so far
    proc,        \* per process: [pc, key, seeks, op, arg, data, token]
    keysFile,    \* keys.enc: [key, keys], key 0 for JSON from before the encryption, or None
    tokenFile,   \* token.enc: [key, token], or None
    answered,    \* what the calls that returned, one after the other, make of the API keys
    old          \* the installation is from before the encryption

vars == <<dotenv, seeds, proc, keysFile, tokenFile, answered, old>>

Seeds == 1..MaxSeeds
Marks == {"none", "on", "off"}
Keyring == [APIKeys -> Marks]
NoKeys == [k \in APIKeys |-> "none"]
Fresh == [pc |-> "idle", key |-> 0, seeks |-> FALSE, op |-> None, arg |-> None, data |-> NoKeys, token |-> None]
Ops == {"create", "verify", "revoke", "delete"}

TypeOK ==
    /\ dotenv \in Seq(Seeds) /\ Len(dotenv) <= MaxSeeds
    /\ seeds \in 0..MaxSeeds
    /\ proc \in [Procs -> [pc : {"idle", "locked", "loaded", "legacy"}, key : {0} \cup Seeds, seeks : BOOLEAN,
                           op : Ops \cup {None}, arg : APIKeys \cup {None}, data : Keyring, token : Procs \cup {None}]]
    /\ keysFile \in [key : {0} \cup Seeds, keys : Keyring] \cup {None}
    /\ tokenFile \in [key : Seeds, token : Procs] \cup {None}
    /\ answered \in Keyring
    /\ old \in BOOLEAN

\* An old installation has one key in plain JSON.
Init ==
    /\ dotenv = <<>> /\ seeds = 0
    /\ proc = [p \in Procs |-> Fresh]
    /\ tokenFile = None
    /\ old \in BOOLEAN
    /\ \E k \in APIKeys :
          /\ answered = IF old THEN [NoKeys EXCEPT ![k] = "on"] ELSE NoKeys
          /\ keysFile = IF old THEN [key |-> 0, keys |-> answered] ELSE None

At(p, pc) == proc[p].pc = pc /\ ~proc[p].seeks
Rested(p) == [Fresh EXCEPT !.key = proc[p].key, !.token = proc[p].token]
Sealed(p) == proc[p].key # 0

------------------------------------------------------------------------------
(* The master key: looked for when it is first needed, then cached *)

TakeKey(p) ==
    /\ ~Sealed(p) /\ ~proc[p].seeks /\ dotenv # <<>>
    /\ proc' = [proc EXCEPT ![p].key = Head(dotenv)]
    /\ UNCHANGED <<dotenv, seeds, keysFile, tokenFile, answered, old>>

FindNoKey(p) ==
    /\ ~Sealed(p) /\ ~proc[p].seeks /\ dotenv = <<>>
    /\ proc' = [proc EXCEPT ![p].seeks = TRUE]
    /\ UNCHANGED <<dotenv, seeds, keysFile, tokenFile, answered, old>>

\* The line is appended whatever the file holds by now, and a failure to
\* append is suppressed.
MakeKey(p) ==
    /\ proc[p].seeks /\ seeds < MaxSeeds
    /\ seeds' = seeds + 1
    /\ dotenv' \in {Append(dotenv, seeds'), dotenv}
    /\ proc' = [proc EXCEPT ![p].seeks = FALSE, ![p].key = seeds']
    /\ UNCHANGED <<keysFile, tokenFile, answered, old>>

------------------------------------------------------------------------------
(* The API keys *)

SealedWith == IF keysFile = None THEN None ELSE keysFile.key

\* What the store holds of a key.
Held(k) == IF keysFile = None THEN "none" ELSE keysFile.keys[k]

\* Mutant: without fcntl, as the code runs on Windows.
LockSkipped(p) == TRUE

LockFree(p) == \A o \in Procs : proc[o].pc \notin {"locked", "loaded"}

Lock(p, op, k) ==
    /\ At(p, "idle") /\ LockFree(p)
    /\ op = "create" => Held(k) = "none"
    /\ proc' = [proc EXCEPT ![p].pc = "locked", ![p].op = op, ![p].arg = k]
    /\ UNCHANGED <<dotenv, seeds, keysFile, tokenFile, answered, old>>

\* Mutant: an unreadable store is taken for an empty one.
Tolerant(p) == TRUE

\* No file, a file under this process's key, or JSON.
Readable(p) == SealedWith \in {None, 0, proc[p].key}

\* What load() makes of the file.
Decoded(p) == IF SealedWith \in {0, proc[p].key} THEN keysFile.keys ELSE NoKeys

\* JSON is rewritten sealed on the spot.
LoadKeys(p) ==
    /\ At(p, "locked") /\ (SealedWith # None => Sealed(p)) /\ Readable(p)
    /\ proc' = [proc EXCEPT ![p].pc = "loaded", ![p].data = Decoded(p)]
    /\ keysFile' = IF SealedWith = 0 THEN [keysFile EXCEPT !.key = proc[p].key] ELSE keysFile
    /\ UNCHANGED <<dotenv, seeds, tokenFile, answered, old>>

\* StoreUnreadable: nothing is written.
Refuse(p) ==
    /\ At(p, "locked") /\ Sealed(p) /\ ~Readable(p)
    /\ proc' = [proc EXCEPT ![p] = Rested(p)]
    /\ UNCHANGED <<dotenv, seeds, keysFile, tokenFile, answered, old>>

\* A key that is unknown, or that was revoked, is not touched.
Mutated(data, op, k) ==
    [data EXCEPT ![k] = CASE op = "create" -> "on"
                          [] op = "verify" -> @
                          [] op = "revoke" -> IF @ = "none" THEN @ ELSE "off"
                          [] op = "delete" -> "none"]

\* Saved in any case, unchanged too; the call returns.
SaveKeys(p) ==
    /\ At(p, "loaded") /\ Sealed(p)
    /\ keysFile' = [key |-> proc[p].key, keys |-> Mutated(proc[p].data, proc[p].op, proc[p].arg)]
    /\ answered' = Mutated(answered, proc[p].op, proc[p].arg)
    /\ proc' = [proc EXCEPT ![p] = Rested(p)]
    /\ UNCHANGED <<dotenv, seeds, tokenFile, old>>

\* Listing the keys, and constructing the authenticator, load without the
\* lock; of that only what JSON makes them write matters.
ReadJSON(p) ==
    /\ At(p, "idle") /\ Sealed(p) /\ SealedWith = 0
    /\ proc' = [proc EXCEPT ![p].pc = "legacy", ![p].data = keysFile.keys]
    /\ UNCHANGED <<dotenv, seeds, keysFile, tokenFile, answered, old>>

RotateJSON(p) ==
    /\ At(p, "legacy")
    /\ keysFile' = [key |-> proc[p].key, keys |-> proc[p].data]
    /\ proc' = [proc EXCEPT ![p] = Rested(p)]
    /\ UNCHANGED <<dotenv, seeds, tokenFile, answered, old>>

------------------------------------------------------------------------------
(* The bearer token: absent or unreadable, another one takes its place *)

LoadToken(p) ==
    /\ At(p, "idle") /\ Sealed(p)
    /\ \E token \in Procs : /\ tokenFile = [key |-> proc[p].key, token |-> token]
                            /\ proc' = [proc EXCEPT ![p].token = token]
    /\ UNCHANGED <<dotenv, seeds, keysFile, tokenFile, answered, old>>

Rotate(p) ==
    /\ At(p, "idle") /\ Sealed(p)
    /\ tokenFile' = [key |-> proc[p].key, token |-> p]
    /\ proc' = [proc EXCEPT ![p].token = p]
    /\ UNCHANGED <<dotenv, seeds, keysFile, answered, old>>

\* The process ends, or dies; the lock goes with it.
Restart(p) ==
    /\ proc[p] # Fresh
    /\ proc' = [proc EXCEPT ![p] = Fresh]
    /\ UNCHANGED <<dotenv, seeds, keysFile, tokenFile, answered, old>>

MasterKey(p) == TakeKey(p) \/ FindNoKey(p) \/ MakeKey(p)
Update(p) == (\E op \in Ops, k \in APIKeys : Lock(p, op, k)) \/ LoadKeys(p) \/ Refuse(p) \/ SaveKeys(p)

Next == \E p \in Procs :
    MasterKey(p) \/ Update(p) \/ ReadJSON(p) \/ RotateJSON(p) \/ LoadToken(p) \/ Rotate(p) \/ Restart(p)

Spec == Init /\ [][Next]_vars

------------------------------------------------------------------------------
(* Properties *)

\* What the answered calls make of the keys is what the store holds: no two
\* processes undo one another's changes, no revoked key comes back, and a process
\* with another master key changes nothing (EncryptedStore.update).  An installation from before the encryption
\* is excepted: there it is violated, by a listing that rewrites what it read.
AnswersAreStored == ~old => \A k \in APIKeys : Held(k) = answered[k]

\* Violated: the store is not readable to the processes that start from now on,
\* because the key it was sealed with was appended second, or not at all.
ReadableAfterRestart == SealedWith \in Seeds /\ dotenv # <<>> => SealedWith = Head(dotenv)

\* Violated: after a rotation the other servers ask for the token of before.
OneTokenForAll == \A p, q \in Procs : proc[p].token # None /\ proc[q].token # None => proc[p].token = proc[q].token
=============================================================================
