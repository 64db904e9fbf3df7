---------------------------- MODULE MCFrontDoor ----------------------------
(***************************************************************************)
(* Model-checking instance of FrontDoor: a runner whose token is listed    *)
(* twice, so that the later record counts.  It may submit and not read, so *)
(* its reads are counted and end with 403.                                 *)
(***************************************************************************)
EXTENDS FrontDoor, TLC

TokenRecords == <<[name |-> "retired", secret |-> "s1", scopes |-> {"jobs:read"}],
                  [name |-> "runner", secret |-> "s1", scopes |-> {"reviews:write"}]>>

\* Processes, keys and bodies are interchangeable.
Symmetry == Permutations(Processes) \union Permutations(Keys) \union Permutations(Bodies)
=============================================================================
