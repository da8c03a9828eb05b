----------------------------- MODULE MCExecute -----------------------------
(***************************************************************************)
(* Instances of Execute for TLC.                                           *)
(***************************************************************************)
EXTENDS Execute

CONSTANTS local, cloud  \* pipelines: to a local folder, and to S3

MCNames == {local, cloud}
MCDest == [n \in MCNames |-> IF n = local THEN "filesystem" ELSE "s3"]
MCCsv == {local}
=============================================================================
