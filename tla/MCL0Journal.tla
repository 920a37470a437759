---------------------------- MODULE MCL0Journal ----------------------------
(* Values for model checking L0Journal: two tasks of the server process and *)
(* one task of a second process.                                            *)
EXTENDS L0Journal, TLC

CONSTANTS server, daemon, s1, s2, d1, hello, bye

MCProcs == {server, daemon}
MCTasks == {s1, s2, d1}
MCTexts == {hello, bye}
MCProcOf == s1 :> server @@ s2 :> server @@ d1 :> daemon

\* The two server tasks run the same code, and the texts only compare for equality.
Alike == Permutations({s1, s2}) \cup Permutations(MCTexts)
=============================================================================
