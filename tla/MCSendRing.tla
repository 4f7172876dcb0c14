----------------------------- MODULE MCSendRing -----------------------------
(* Instances of SendRing: one handler at a time or two, and two workers. *)
EXTENDS SendRing, TLC

CONSTANTS h1, h2, w1, w2

OneHandler == {h1}
TwoHandlers == {h1, h2}
TwoWorkers == {w1, w2}

\* Handlers are interchangeable, and so are workers.
Alike == Permutations(TwoHandlers) \cup Permutations(TwoWorkers)
=============================================================================
