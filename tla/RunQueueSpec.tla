---------------------------- MODULE RunQueueSpec ----------------------------
(***************************************************************************)
(* RunQueue on its own: any sequence of the operations the service calls,  *)
(* with a history variable that counts how often an experiment was passed  *)
(* over.  application/backtest_run/_scheduler.py promises that an          *)
(* experiment that came later does not starve; counting makes the promise  *)
(* a bound instead of an "eventually".                                     *)
(***************************************************************************)
EXTENDS RunQueue

CONSTANT Priorities    \* <<experiment, weight>>: what each may be given

ASSUME PrioritiesAssumption == Priorities \subseteq Experiments \X (Nat \ {0})
ASSUME ExperimentsAreFinite == IsFiniteSet(Experiments)

VARIABLES
    queue,     \* the RunQueue
    passed     \* [Experiments -> Nat]: runs taken from other experiments while
               \* this one had a run ready, since it was last served, since its
               \* lane came into being and since the controls last changed

queueVars == <<queue, passed>>

QueueInit ==
    /\ queue = EmptyQueue
    /\ passed = [e \in Experiments |-> 0]

-----------------------------------------------------------------------------
(* A lane that is emptied loses its place in the line, and its count.      *)
KeepCounts == passed' = [e \in Experiments |-> IF queue'.items[e] = <<>> THEN 0 ELSE passed[e]]

ResetCounts == passed' = [e \in Experiments |-> 0]

(* `push': the service pushes a run once, when it accepts it.              *)
PushRun(run, l) ==
    /\ ~InQueue(queue, run)
    /\ \A r \in Runs : r < run => InQueue(queue, r)
    /\ queue' = Push(queue, run, l)
    /\ KeepCounts

(* `move', when an owner joins or leaves.                                  *)
MoveRun(run, l) ==
    /\ InQueue(queue, run)
    /\ queue' = Move(queue, run, l)
    /\ KeepCounts

(* `remove', when a waiting run is cancelled.                              *)
CancelRun(run) ==
    /\ InQueue(queue, run)
    /\ queue' = RemoveRun(queue, run)
    /\ KeepCounts

(* `configure', on pause, resume and a change of priority.                 *)
ConfigureLane(e, pause, w) ==
    /\ queue' = Configure(queue, e, pause, w)
    /\ ResetCounts

(* `forget': only for an experiment that has no unfinished run.            *)
ForgetLane(e) ==
    /\ queue.items[e] = <<>>
    /\ queue' = Forget(queue, {e})
    /\ ResetCounts

(* `pop'.                                                                  *)
TakeRun(experiments) ==
    /\ HasNext(queue, experiments)
    /\ queue' = Pop(queue, experiments)
    /\ LET l == NextLane(queue, experiments) IN
       passed' = [e \in Experiments |->
                    IF e = l \/ queue'.items[e] = <<>> \/ e \in queue.paused THEN 0
                    ELSE IF l = User THEN passed[e] ELSE passed[e] + 1]

QueueNext ==
    \/ \E run \in Runs : CancelRun(run)
    \/ \E run \in Runs, l \in Lanes : PushRun(run, l) \/ MoveRun(run, l)
    \/ \E p \in Priorities, pause \in BOOLEAN : ConfigureLane(p[1], pause, p[2])
    \/ \E e \in Experiments : ForgetLane(e)
    \/ \E experiments \in BOOLEAN : TakeRun(experiments)

QueueSpec == QueueInit /\ [][QueueNext]_queueVars

-----------------------------------------------------------------------------
QueueTypeOK ==
    /\ queue \in Queue
    /\ passed \in [Experiments -> Nat]

(* Every run waits in one place only, and the line lists exactly the lanes *)
(* that hold runs, once each, whatever mix of moves, cancellations and     *)
(* turns came before: a lane left in the dict after its last run went      *)
(* would be chosen and have no run to give.                                *)
WellFormed == WaitsOnce(queue) /\ OrderIsLanes(queue)

(* Only one experiment is in the middle of a turn, so a turn that a pause  *)
(* interrupted is over and does not add to the next one.                   *)
SingleTurn == OneTurn(queue)

(* The queue keeps its order: both of the above.                           *)
QueueInOrder == WellFormed /\ SingleTurn

(* An experiment with a run ready is passed over by at most one full turn  *)
(* of each of the other experiments before it is served, whichever lanes   *)
(* fill up, empty or exchange runs in between.                             *)
OtherWeight(e) == SumFunctionOnSet(queue.weight, Experiments \ {e})

BoundedBypass == \A e \in Experiments : passed[e] <= OtherWeight(e)
=============================================================================
