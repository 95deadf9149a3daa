---------------------------- MODULE MCAiJobQueue ----------------------------
(* A small instance of the job queue for TLC.                              *)
EXTENDS AiJobQueue

CONSTANTS j1, j2, p1

MCPrdOf == [j \in Jobs |-> p1]
=============================================================================
