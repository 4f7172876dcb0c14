--------------------------- MODULE PacketChannel ---------------------------
(***************************************************************************)
(* What the receiving side promises the application: the packets a client  *)
(* sends are handed over whole, once each and in their order, however the  *)
(* stream is cut and wherever its bytes are kept, unless what waits is     *)
(* more than it keeps room for: from then on it promises nothing.          *)
(***************************************************************************)
EXTENDS Sequences

CONSTANT Packets

VARIABLES
  line,         \* the packets sent and not handed over
  out,          \* the packet handed over last
  lossy         \* more came than there was room for

Init == line = << >> /\ out = << >> /\ lossy = FALSE

Send(p) == line' = Append(line, p) /\ UNCHANGED out

HandOver ==
  /\ line # << >>
  /\ out' = Head(line)
  /\ line' = Tail(line)

Next ==
  \/ lossy' = TRUE
  \/ UNCHANGED lossy /\ (HandOver \/ \E p \in Packets : Send(p))

Spec == Init /\ [][Next]_<<line, out, lossy>>
=============================================================================
