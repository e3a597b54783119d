--------------------------- MODULE MCBacktestRuns ---------------------------
(* Instances of the run service for TLC.                                   *)
EXTENDS BacktestRunsProperties

TwoRuns == 1..2
ThreeRuns == 1..3
OneExperiment == {1}
TwoExperiments == 1..2
OneWeight == {1}

(* A run both want, then one of the experiment alone.                      *)
UserAndOneShort == {<<User, 1>>, <<1, 1>>, <<1, 2>>}
(* The user and two experiments share a run, one of them has two more.     *)
UserAndTwo == {<<User, 1>>, <<1, 1>>, <<2, 1>>, <<1, 2>>, <<1, 3>>}
=============================================================================
