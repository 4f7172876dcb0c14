----------------------------- MODULE MCFraming -----------------------------
(* The two ends that cut a stream into packets, the server's ring and the   *)
(* client's buffer.  They share nothing: a behaviour is of one or the other. *)
EXTENDS MCRecvRing, ClientBuffer

TwoSizes == {2, 3}

VARIABLE end

FramingInit == Init /\ BufferInit /\ end \in {"server", "client"}

FramingNext ==
  /\ end' = end
  /\ \/ end = "server" /\ Next /\ UNCHANGED bufferVars
     \/ end = "client" /\ BufferNext /\ UNCHANGED vars

FramingSpec ==
  /\ FramingInit /\ [][FramingNext]_<<vars, bufferVars, end>>
  /\ Fairness /\ BufferFairness
=============================================================================
