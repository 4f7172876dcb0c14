---------------------------- MODULE MCChatSystem ----------------------------
(* An instance of ChatSystem: a client that connects three times to the   *)
(* one slot there is for it, another client's connection, and one room.   *)
EXTENDS ChatSystem

CONSTANTS c1, s1, s2, anna, bob, empty

OneClient == {c1}
OneSlot == {s1}
OneElsewhere == {s2}
Anna == {anna}
Bob == {bob}
Room0 == {0}

\* Every step sets out, which none reads.
AllButOut == <<clientVars, tables, announced, closing>>
=============================================================================
