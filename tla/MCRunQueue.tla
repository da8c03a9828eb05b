----------------------------- MODULE MCRunQueue -----------------------------
(***************************************************************************)
(* Instances of RunQueue for TLC.                                          *)
(***************************************************************************)
EXTENDS RunQueue, TLC

CONSTANTS a, b, c, d,    \* pipelines
          s1, s2,        \* scheduler threads
          w1, w2, w3     \* worker threads

MCNames == {a, b, c, d}
MCCallers == {s1, s2}
MCWorkers == {w1, w2, w3}
=============================================================================
