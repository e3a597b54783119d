------------------------------ MODULE RunQueue ------------------------------
(***************************************************************************)
(* The waiting queue of the backtest run service: RunQueue and             *)
(* experiment_slots of application/backtest_run/_scheduler.py, as          *)
(* operators on a queue value.  One lane holds the runs a user asked for   *)
(* (the lane None of the code, `User' here), and every experiment has a    *)
(* lane of its own.  The user's lane goes first; the experiments share     *)
(* what is left by weighted round robin.                                   *)
(*                                                                         *)
(* A queue is a record of the five fields of the class:                    *)
(*   order   the keys of the dict `_lanes' in insertion order              *)
(*   items   its values; a lane that is not in order is empty              *)
(*   served  `_served', 0 for a lane it does not list                      *)
(*   paused  `_paused'                                                     *)
(*   weight  `_weights', 1 for a lane it does not list                     *)
(* Experiment ids and run ids are numbers, so that the two orders the code *)
(* relies on, sorted owners and records in order of acceptance, are <.     *)
(***************************************************************************)
EXTENDS Naturals, Sequences, FiniteSets, SequencesExt

CONSTANTS
    Runs,          \* run ids, in the order in which they are given out
    Experiments    \* experiment ids

ASSUME RunsAssumption == Runs \subseteq Nat \ {0}
ASSUME ExperimentsAssumption == Experiments \subseteq Nat \ {0}

(* The owner None, and its lane.                                           *)
User == 0

Lanes == Experiments \cup {User}

Queue == [order  : Seq(Lanes),
          items  : [Lanes -> Seq(Runs)],
          served : [Lanes -> Nat],
          paused : SUBSET Experiments,
          weight : [Experiments -> Nat \ {0}]]

EmptyQueue == [order  |-> <<>>,
               items  |-> [l \in Lanes |-> <<>>],
               served |-> [l \in Lanes |-> 0],
               paused |-> {},
               weight |-> [e \in Experiments |-> 1]]

-----------------------------------------------------------------------------
(* With two or more slots, one is kept for the user's runs.                *)
ExperimentSlots(slots) == IF slots >= 2 THEN slots - 1 ELSE slots

InLane(q, run, l) == Contains(q.items[l], run)

InQueue(q, run) == \E l \in Lanes : InLane(q, run, l)

LaneOf(q, run) == CHOOSE l \in Lanes : InLane(q, run, l)

Configure(q, e, pause, w) ==
    [q EXCEPT !.paused = IF pause THEN @ \cup {e} ELSE @ \ {e},
              !.weight = [@ EXCEPT ![e] = w]]

(* Experiments without unfinished runs lose their controls and what is     *)
(* left of their turn.                                                     *)
Forget(q, S) ==
    [q EXCEPT !.paused = @ \ S,
              !.weight = [e \in Experiments |-> IF e \in S THEN 1 ELSE @[e]],
              !.served = [l \in Lanes |-> IF l \in S THEN 0 ELSE @[l]]]

Push(q, run, l) ==
    [q EXCEPT !.order = IF q.items[l] = <<>> THEN Append(@, l) ELSE @,
              !.items = [@ EXCEPT ![l] = Append(q.items[l], run)]]

(* Mutant of RemoveFrom: the emptied lane stays in the line.               *)
RemoveFromKeepsLane(q, run, l) ==
    [q EXCEPT !.items = [@ EXCEPT ![l] = RemoveFirst(q.items[l], run)]]

(* Taking the last run out of a lane deletes the lane, and its turn.       *)
RemoveFrom(q, run, l) ==
    LET rest == RemoveFirst(q.items[l], run) IN
    [q EXCEPT !.items  = [@ EXCEPT ![l] = rest],
              !.order  = IF rest = <<>> THEN RemoveFirst(@, l) ELSE @,
              !.served = IF rest = <<>> THEN [@ EXCEPT ![l] = 0] ELSE @]

RemoveRun(q, run) == IF InQueue(q, run) THEN RemoveFrom(q, run, LaneOf(q, run)) ELSE q

(* Mutant of Move: a run that does not wait is pushed as well.             *)
MoveAlways(q, run, l) ==
    IF ~InLane(q, run, l) THEN Push(RemoveRun(q, run), run, l) ELSE q

(* A run that is already in the lane keeps its place, and one that does    *)
(* not wait is left alone.                                                 *)
Move(q, run, l) ==
    IF InQueue(q, run) /\ ~InLane(q, run, l) THEN Push(RemoveRun(q, run), run, l) ELSE q

-----------------------------------------------------------------------------
(* `_next': the user's lane first; then, unless the experiments' share of  *)
(* the slots is used up, the first lane that is not paused.                *)
Ready(q, experiments, l) ==
    /\ q.items[l] # <<>>
    /\ l = User \/ (experiments /\ q.items[User] = <<>> /\ l \notin q.paused)

IsNext(q, experiments, l) ==
    \E i \in 1..Len(q.order) :
        /\ q.order[i] = l
        /\ Ready(q, experiments, l)
        /\ \A j \in 1..(i-1) : ~Ready(q, experiments, q.order[j])

HasNext(q, experiments) == \E l \in Lanes : Ready(q, experiments, l)

NextLane(q, experiments) == CHOOSE l \in Lanes : IsNext(q, experiments, l)

Peek(q, experiments) == Head(q.items[NextLane(q, experiments)])

(* Mutants of PopFrom: other turns go on; a turn is one run too long.      *)
PopFromKeepsTurns(q, l) ==
    LET rest  == Tail(q.items[l])
        taken == q.served[l] + 1
        stays == rest # <<>> /\ l # User /\ taken < q.weight[l]
    IN [q EXCEPT
          !.items  = [@ EXCEPT ![l] = rest],
          !.served = [@ EXCEPT ![l] = IF stays THEN taken ELSE 0],
          !.order  = IF rest = <<>> THEN RemoveFirst(@, l)
                     ELSE IF stays THEN @
                     ELSE Append(RemoveFirst(@, l), l)]

PopFromOneMore(q, l) ==
    LET rest  == Tail(q.items[l])
        taken == q.served[l] + 1
        turns == IF l = User THEN q.served ELSE [m \in Lanes |-> 0]
        stays == rest # <<>> /\ l # User /\ taken <= q.weight[l]
    IN [q EXCEPT
          !.items  = [@ EXCEPT ![l] = rest],
          !.served = IF stays THEN [turns EXCEPT ![l] = taken] ELSE turns,
          !.order  = IF rest = <<>> THEN RemoveFirst(@, l)
                     ELSE IF stays THEN @
                     ELSE Append(RemoveFirst(@, l), l)]

(* A lane that is taken from for the w-th time in a turn, w its weight,    *)
(* goes to the end of the line.  Taking from an experiment's lane ends the *)
(* turn of any other; taking from the user's lane does not.                *)
PopFrom(q, l) ==
    LET rest   == Tail(q.items[l])
        taken  == q.served[l] + 1
        turns  == IF l = User THEN q.served ELSE [m \in Lanes |-> 0]
        stays  == rest # <<>> /\ l # User /\ taken < q.weight[l]
    IN [q EXCEPT
          !.items  = [@ EXCEPT ![l] = rest],
          !.served = IF stays THEN [turns EXCEPT ![l] = taken] ELSE turns,
          !.order  = IF rest = <<>> THEN RemoveFirst(@, l)
                     ELSE IF stays THEN @
                     ELSE Append(RemoveFirst(@, l), l)]

Pop(q, experiments) == PopFrom(q, NextLane(q, experiments))

-----------------------------------------------------------------------------
(* What a queue satisfies after any sequence of operations: a run waits in *)
(* one place, and order lists exactly the lanes that hold runs, once each. *)
Once(s) == \A i, j \in 1..Len(s) : s[i] = s[j] => i = j

WaitsOnce(q) ==
    /\ \A l \in Lanes : Once(q.items[l])
    /\ \A l, m \in Lanes, run \in Runs : InLane(q, run, l) /\ InLane(q, run, m) => l = m

OrderIsLanes(q) ==
    /\ Once(q.order)
    /\ \A l \in Lanes : Contains(q.order, l) <=> q.items[l] # <<>>

Good(q) == q \in Queue /\ WaitsOnce(q) /\ OrderIsLanes(q)

(* At most one experiment is in the middle of a turn.                      *)
OneTurn(q) == \A l, m \in Lanes : q.served[l] > 0 /\ q.served[m] > 0 => l = m
=============================================================================
