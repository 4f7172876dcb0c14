---------------------------- MODULE MCChatServer ----------------------------
(* An instance of ChatServer: three users, the empty ID and two others, two *)
(* rooms, so that the rooms and the IDs run out.                            *)
EXTENDS ChatServer

CONSTANTS u1, u2, u3, anna, empty, bob

ThreeUsers == {u1, u2, u3}
ThreeIDs == {anna, bob, empty}
=============================================================================
