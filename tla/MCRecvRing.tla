----------------------------- MODULE MCRecvRing -----------------------------
(* An instance of RecvRing: packets from the least to longer than a receive. *)
EXTENDS RecvRing

TwoLengths == {2, 5}
=============================================================================
