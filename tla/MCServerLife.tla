---------------------------- MODULE MCServerLife ----------------------------
(* Two workers, two logic threads, and every ini file that differs in what *)
(* starting and stopping depend on.                                        *)
EXTENDS ServerLife

CONSTANTS w1, w2, l1, l2

TwoWorkers == {w1, w2}
TwoLogics == {l1, l2}
AllInfos == [valid: BOOLEAN, logics: {{}, {l1}, {l1, l2}}, sized: BOOLEAN,
             measured: BOOLEAN]
=============================================================================
