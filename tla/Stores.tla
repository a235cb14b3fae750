------------------------------- MODULE Stores -------------------------------
(***************************************************************************)
(* The model-checking instance of the two stores that several writers      *)
(* share: the scoped memory with its feed and briefing, and the token      *)
(* file.  They have no state in common: a behaviour is one of one of them, *)
(* the other being at rest, and the states of the run are the sum.         *)
(* Where argon2 is installed matters to the verdicts only, and to them     *)
(* only when the script has it and the hub has not.  A migration and a     *)
(* sleep are not explored together: the rows that one changes are private, *)
(* those that a briefing reads are shared.                                 *)
(***************************************************************************)
EXTENDS HouseholdFeed, TokenStore, TLC

VARIABLE running    \* what runs

StoresInit ==
    /\ running \in {"memory", "feed", "tokens"}
    /\ Init /\ (running = "memory" \/ \A id \in Ids : ~Stored(id))
    /\ TokenInit
    /\ site.argon2 = {"hub", "script"} \/ site = [calm |-> TRUE, argon2 |-> {"script"}]
    /\ running = "tokens" \/ site = [calm |-> TRUE, argon2 |-> {"script"}]

StoresNext ==
    \/ running = "memory" /\ Memory /\ UNCHANGED <<tokenVars, running>>
    \/ running = "feed" /\ Next /\ total' = 0 /\ UNCHANGED <<tokenVars, running>>
    \/ running = "tokens" /\ TokenNext /\ UNCHANGED <<vars, running>>

StoresSpec == StoresInit /\ [][StoresNext]_<<vars, tokenVars, running>>

\* Old rows and threads are interchangeable; members are not, as one of them is
\* the migration's default.
Symmetry == Permutations(Threads) \cup Permutations(Legacy)
=============================================================================
