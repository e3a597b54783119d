----------------------- MODULE LedgerRefreshProperties -----------------------
(***************************************************************************)
(* What a refresh of the ledger promises, over LedgerRefresh.              *)
(***************************************************************************)
EXTENDS LedgerRefresh

(* Type invariant.                                                         *)
States == [code : {"idle", "running", "applying", "succeeded", "partial", "failed"},
           drifted : BOOLEAN, remote : {"unknown", "behind", "up_to_date"}]

Stages == {"none", "arrived", "admitted", "answered"}

TypeOK ==
  /\ state \in States /\ previous \in States /\ admitting \in Int
  /\ starter \in [Starters -> {"idle", "asked", "entered"}]
  /\ check \in {"idle", "unknown", "behind", "up_to_date"}
  /\ thread \in {"none", "begun", "spawned", "cancelling", "waiting", "decided", "apply", "swap",
                 "close_old", "report"}
  /\ stopping \in BOOLEAN /\ job \in BOOLEAN
  /\ tool \in {"off", "started", "fetched", "ended"} /\ outcome \in Outcomes
  /\ server \in 1..MaxBuild /\ disk \in 1..server /\ kept \subseteq 1..disk
  /\ app \in 1..MaxApps /\ pinned \in [1..MaxApps -> 1..disk] /\ open \subseteq 1..app
  /\ thread = "swap" => app < MaxApps
  /\ missed \in Nat /\ closing \in {"no", "stop", "kill", "stopped", "closed"}
  /\ request \in [Requests -> [stage : Stages, at : 0..app]]
  /\ active \in [Requests -> 0..app]

(* While data is fetched and applied, the app in use computes nothing and  *)
(* lets nothing new in: neither a computation accepted just before, nor a  *)
(* request that was being admitted, is caught by the new container         *)
(* (start(), admit_work(), ContainerActiveWork).                           *)
RefreshIsAlone == thread # "none" => admitting = 0 /\ ActiveWork = {}

(* What the app in use pinned at its start stays on disk for as long as    *)
(* fewer than Keep fetches went by without being applied: gc of the tool   *)
(* does not know of the app (KEEP_BUILDS in ledger_sync_process).          *)
PinnedIsKept == missed < Keep => pinned[app] \in kept

(* When the server has ended its shutdown, no tool runs on that the        *)
(* refresh waits for, and no container is left open, whichever of the two  *)
(* was on its way when the shutdown began (stop(), _swap()).               *)
ShutdownLeavesNothing ==
  /\ closing \in {"stopped", "closed"} /\ thread = "waiting" => ~Runs
  /\ closing = "closed" /\ thread # "close_old" => open = {}

-----------------------------------------------------------------------------
(* The inductive invariant behind the safety properties above.             *)

(* One start() or one thread has the refresh, and the state says so; what  *)
(* a start() may have to restore is no refresh.                            *)
Entered == {s \in Starters : starter[s] = "entered"}

OneRefresh ==
  /\ \A s, t \in Entered : s = t
  /\ thread # "none" => Entered = {}
  /\ state.code \in Busy <=> thread # "none" \/ Entered # {}
  /\ Entered # {} => previous.code \notin Busy

(* The count of requests being admitted is right, and 0 during a refresh.  *)
InAdmission == {r \in Requests : request[r].stage \in {"admitted", "answered"}}

AdmissionsCounted ==
  /\ IsFiniteSet(InAdmission) /\ admitting = Cardinality(InAdmission)
  /\ state.code \in Busy => InAdmission = {}

(* The tool runs only for a thread that will wait for it; stop() knows it  *)
(* from the moment the thread looked at the flag.                          *)
ToolIsWatched ==
  /\ tool # "off" => thread \in {"spawned", "cancelling", "waiting"}
  /\ thread \in {"cancelling", "waiting"} => job
  /\ stopping <=> closing \in {"kill", "stopped", "closed"}

(* Only the app in use is open, and for a moment the one before it.        *)
OpenApps ==
  /\ open \subseteq {app} \union (IF thread = "close_old" THEN {app - 1} ELSE {})
  /\ closing = "closed" => app \notin open

(* What is on disk is the newest of what is kept; the builds after the     *)
(* pinned one came with the fetches that were missed.                      *)
NewerThan(k) == {j \in kept : j > k}

BuildsAgree ==
  /\ disk \in kept
  /\ Cardinality(NewerThan(pinned[app])) <= missed
  /\ thread = "swap" => pinned[app + 1] = disk

IndInv ==
  /\ TypeOK /\ OneRefresh /\ AdmissionsCounted /\ ToolIsWatched /\ OpenApps /\ BuildsAgree
  /\ RefreshIsAlone /\ PinnedIsKept /\ ShutdownLeavesNothing

-----------------------------------------------------------------------------
(* Liveness.                                                               *)

(* Every refresh comes to an end and lets computations start again: it is  *)
(* applied, it fails, or it is given up (the comment at _service.py:349).  *)
RefreshEnds == state.code \in Busy ~> state.code \notin Busy

-----------------------------------------------------------------------------
(* Said by the code and refuted by TLC (README, section 3).                *)

(* bootstrap/_reload.py:9: an app that was replaced computes nothing.      *)
OldAppIsIdle == \A r \in Requests : active[r] \in {0, app} \/ active[r] \in open
=============================================================================
