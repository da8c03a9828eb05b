--------------------------- MODULE MCPipelineRuns ---------------------------
(***************************************************************************)
(* Instances of PipelineRuns for TLC.                                      *)
(***************************************************************************)
EXTENDS PipelineRuns, TLC

CONSTANTS a, b,      \* pipelines; a is one of the demos
          r1, r2     \* runners

MCNames == {a, b}
MCDemoNames == {a}
MCRunners == {r1, r2}
=============================================================================
