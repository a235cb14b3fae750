---------------------------- MODULE MCFamilyHub ----------------------------
(* Instances of FamilyHub for TLC: who sends what to whom. *)
EXTENDS FamilyHub, TLC

CONSTANTS vera, drew, guest, c1, c2, g1, g2, s1, s2, s3

\* Two persons write to the one member of the registry.
MCTexts == Chats \cup Generates
MCTo == [x \in MCTexts |-> vera]
MCFrom == [x \in MCTexts |-> IF x \in {c2, g2} THEN guest ELSE drew]

\* One person's messages to one member: they share a session.
MCFromOne == [x \in MCTexts |-> drew]

\* Legacy clients that share one X-Session-Id.
MCClientSid == [g \in Generates |-> s3]

HubSids == Permutations(Sids \ ClientSids)
=============================================================================
