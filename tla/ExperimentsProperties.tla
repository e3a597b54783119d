------------------------ MODULE ExperimentsProperties ------------------------
(***************************************************************************)
(* What an experiment and its walk forward promise, over Experiments.      *)
(***************************************************************************)
EXTENDS Experiments

(* Every run that still computes for the experiment is the last attempt of *)
(* a trial or the last pick of a window: nothing computes a trial twice,   *)
(* whatever retries come while trials are submitted (_submit(), advance()).*)
(* Only a run whose row could not be written is lost.                      *)
EveryRunIsCurrent ==
  \A r \in 1..Len(runs) : runs[r] = "live" /\ r \notin strays =>
    \/ \E t \in T : attempts[t] # <<>> /\ Last(attempts[t]) = r
    \/ \E w \in W : picks[w] # <<>> /\ Last(picks[w]).run = r

(* Once cancel() has returned, nothing runs on for the experiment and      *)
(* nothing is started for it, whatever was being submitted or picked       *)
(* (the order of the mark and the list of runs in cancel()).               *)
CancelReachesAll ==
  call.stage = "done" => \A r \in 1..Len(runs) : runs[r] # "live" \/ r \in strays

(* A window is validated with one trial only, although its validation is   *)
(* started again after a restart and trials were retried since (advance()).*)
SameCellAgain ==
  \A w \in W : \A p, q \in ToSet(picks[w]) : p.trial = q.trial

(* An experiment that is being submitted comes to its end, with every      *)
(* trial and every validation, unless it was cancelled or a call failed;   *)
(* after a restart it goes on where it was left (recover()).               *)
WalkEnds == []<>(Completed \/ cancelledAt \/ faults > 0 \/ sub.stage = "off")

-----------------------------------------------------------------------------
(* The inductive invariant behind them.                                    *)
Stages == {"read", "submit", "look", "choose", "picking", "done", "stopped", "recover", "off"}
TrialTasks == [item : T, seen : Nat]
WindowTasks == [item : W, seen : Nat, trial : 0..Trials]

(* The types of all variables.                                             *)
TypeOK ==
  /\ runs \in Seq(Live \cup Ended \cup {"interrupted"})
  /\ attempts \in [T -> Seq(0..Len(runs))]
  /\ picks \in [W -> Seq([trial : 0..Trials, run : 0..Len(runs)])]
  /\ cancelledAt \in BOOLEAN /\ cancelled \in BOOLEAN
  /\ scored \subseteq 1..Len(runs) /\ strays \subseteq 1..Len(runs)
  /\ sub \in [stage : Stages, todo : SUBSET (TrialTasks \cup WindowTasks), last : BOOLEAN]
  /\ call \in [stage : {"none", "going", "failed", "done"}, left : SUBSET (1..Len(runs))]
  /\ faults \in 0..MaxFaults /\ retries \in 0..MaxRetries /\ restarts \in 0..MaxRestarts

(* What is to be handed in is still pending, unless a row came in between, *)
(* and then the count of rows tells.                                       *)
TasksAreDue ==
  /\ sub.stage = "submit" =>
       \A todo \in sub.todo :
         /\ todo \in TrialTasks /\ todo.seen <= Len(attempts[todo.item])
         /\ todo.seen = Len(attempts[todo.item]) => Pending(todo.item)
  /\ sub.stage \in {"choose", "picking"} =>
       \A todo \in sub.todo :
         /\ todo \in WindowTasks /\ todo.seen <= Len(picks[todo.item])
         /\ todo.seen = Len(picks[todo.item]) =>
              \/ picks[todo.item] = <<>>
              \/ PickOf(todo.item) = "interrupted" /\ todo.trial = Last(picks[todo.item]).trial

(* A call of cancel() has left every run it could know, and after its mark *)
(* nobody may hand in another one.                                         *)
CancelHolds ==
  /\ cancelledAt => cancelled \/ sub.stage \in {"recover", "off"}
  /\ Held => ~cancelledAt
  /\ call.stage \in {"going", "done"} =>
       /\ cancelledAt
       /\ \A r \in 1..Len(runs) : runs[r] = "live" => r \in strays \cup call.left
  /\ call.stage = "done" => call.left = {}

IndInv == TypeOK /\ TasksAreDue /\ CancelHolds /\ EveryRunIsCurrent /\ SameCellAgain

-----------------------------------------------------------------------------
(* Said by the code and refuted by TLC (README, section 3).                *)

(* advance(): every window whose training has ended is picked and run.     *)
EveryWindowIsWalked == []<>(Completed \/ cancelledAt \/ faults > 0)

(* advance(): a cell is picked when the training of its window has ended.  *)
PickAfterTraining ==
  [][\A w \in W : picks'[w] # picks[w] => \A t \in InWindow(w) : Settled(t)]_vars
=============================================================================
