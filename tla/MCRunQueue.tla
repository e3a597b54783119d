----------------------------- MODULE MCRunQueue -----------------------------
(* Instances of RunQueueSpec for TLC.                                      *)
EXTENDS RunQueueSpec

MCRuns == 1..4
MCExperiments == 1..3
MCPriorities == {<<1, 2>>, <<2, 2>>, <<3, 1>>}
=============================================================================
