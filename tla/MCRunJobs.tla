----------------------------- MODULE MCRunJobs -----------------------------
(***************************************************************************)
(* Instances of RunJobs for TLC.                                           *)
(***************************************************************************)
EXTENDS RunJobs, TLC

CONSTANTS j1, j2,   \* job ids
          c1        \* a tab

MCJobs == {j1, j2}
MCClients == {c1}
=============================================================================
