----------------------------- MODULE MCAsyncLog -----------------------------
(* Two threads and a queue shorter than what they write.          *)
EXTENDS AsyncLog

CONSTANTS t1, t2

TwoWriters == {t1, t2}
=============================================================================
