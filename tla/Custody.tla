------------------------------ MODULE Custody ------------------------------
(***************************************************************************)
(* What the inbox promises a sender (docs/sprints/SPRINT_5_PLAN, Card 5):  *)
(* a message taken into custody stays there until its member answers it,   *)
(* each member answers in arrival order, and an answer is never undone.    *)
(***************************************************************************)
EXTENDS Naturals

CONSTANTS Chats,  \* the messages that may be sent
          To      \* To[c]: the member message c is for

VARIABLES arrival,  \* arrival[c]: c's place in the order of arrival, 0 before it
          answered  \* the messages that have an answer

custodyVars == <<arrival, answered>>

InCustody(c) == arrival[c] > 0

Init ==
    /\ arrival = [c \in Chats |-> 0]
    /\ answered = {}

Accept(c) ==
    /\ ~ InCustody(c)
    /\ arrival'[c] \in Nat
    /\ \A d \in Chats : arrival[d] < arrival'[c]
    /\ arrival' = [arrival EXCEPT ![c] = arrival'[c]]
    /\ UNCHANGED answered

Answer(c) ==
    /\ InCustody(c)
    /\ c \notin answered
    /\ \A d \in Chats :
         To[d] = To[c] /\ InCustody(d) /\ arrival[d] < arrival[c] => d \in answered
    /\ answered' = answered \cup {c}
    /\ UNCHANGED arrival

Next == \E c \in Chats : Accept(c) \/ Answer(c)

Spec == Init /\ [][Next]_custodyVars
=============================================================================
