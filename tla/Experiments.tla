----------------------------- MODULE Experiments -----------------------------
(***************************************************************************)
(* application/experiment_run/_service.py: one experiment, whose trials    *)
(* are handed to the run service by a submission thread, and whose windows *)
(* are walked forward: when the trials of a window have ended, the best of *)
(* them is picked and run on the window's test period.                     *)
(*                                                                         *)
(* The service's lock covers each handed run with its row; what is handed  *)
(* is decided before, without it, while retries, a cancellation, the ends  *)
(* of runs and a restart come in between.  The run service is the status   *)
(* of each run it was handed.                                              *)
(***************************************************************************)
EXTENDS Integers, Sequences, SequencesExt, FiniteSetsExt

CONSTANTS Trials,    \* number of trials
          Windows,   \* number of windows: trial t belongs to window t mod Windows
          MaxFaults, \* bound: calls that fail
          MaxRetries, MaxRestarts  \* bounds

ASSUME ExperimentAssumption == {Trials, Windows} \subseteq Nat \ {0}
                               /\ {MaxFaults, MaxRetries, MaxRestarts} \subseteq Nat

VARIABLES attempts, \* rows: the runs of each trial in turn; 0: rejected
          picks,    \* rows: the picks of each window in turn
          cancelledAt, \* row: was the experiment cancelled
          cancelled,   \* _cancelled of this process
          runs,     \* the run service: the status of each run, by its number;
                    \* "others": it goes on, but the experiment left it
          scored,   \* runs with a score in the ledger
          sub,      \* the submission thread: stage, what it is to hand in
          call,     \* a call of cancel(): how far, and the runs it has left
          strays,   \* runs without a row (history)
          faults, retries, restarts

rows == <<attempts, picks, cancelledAt>>
service == <<runs, scored, strays>>
counts == <<retries, restarts>>
vars == <<rows, cancelled, service, sub, call, faults, counts>>

T == 1..Trials
W == 0..Windows - 1
InWindow(w) == {t \in T : t % Windows = w}

Live == {"live", "others", "stopping"}
Status(r) == IF r = 0 THEN "failed" ELSE runs[r]
Of(t) == IF attempts[t] = <<>> THEN "none" ELSE Status(Last(attempts[t]))
(* trial_status(), settled(): an interrupted run waits for the recovery.   *)
Ended == {"completed", "failed", "cancelled"}
Settled(t) == Of(t) \in Ended \/ (attempts[t] = <<>> /\ cancelledAt)

Init ==
  /\ attempts = [t \in T |-> <<>>] /\ picks = [w \in W |-> <<>>] /\ cancelledAt = FALSE
  /\ cancelled = FALSE /\ runs = <<>> /\ scored = {} /\ strays = {}
  /\ sub = [stage |-> "read", todo |-> {}, last |-> FALSE]
  /\ call = [stage |-> "none", left |-> {}]
  /\ faults = 0 /\ retries = 0 /\ restarts = 0
-----------------------------------------------------------------------------
(* _open_windows(): the trials have ended, and the window has no pick or   *)
(* one whose run was interrupted.                                          *)
PickOf(w) == IF picks[w] = <<>> THEN "none" ELSE
             IF Last(picks[w]).trial = 0 THEN "failed" ELSE Status(Last(picks[w]).run)
Open == {w \in W : (\A t \in InWindow(w) : Settled(t)) /\ PickOf(w) \in {"none", "interrupted"}}

(* _walk_forward_pending() and experiment_status().                        *)
Completed ==
  /\ ~cancelledAt /\ \A t \in T : Of(t) \in Ended
  /\ \A w \in W : PickOf(w) \in Ended \/ (PickOf(w) = "none" /\ \A t \in InWindow(w) : Of(t) # "completed")

(* _choose(): the trial with the best score; trials are numbered by it.    *)
Best(w) == LET cells == {t \in InWindow(w) : Of(t) = "completed" /\ Last(attempts[t]) \in scored}
           IN IF cells = {} THEN 0 ELSE Max(cells)

(* A pick whose run was interrupted is run again.  Mutant of Chosen: the   *)
(* window is judged again.                                                 *)
ChosenAnew(w) == Best(w)
Chosen(w) == IF picks[w] = <<>> THEN Best(w) ELSE Last(picks[w]).trial
-----------------------------------------------------------------------------
(* _started(): the run service takes the run, rejects it, or the call      *)
(* fails before or after it; then the row is added, which may fail.  What  *)
(* is left by a failure is what a crash between the two would leave.       *)
NextRun == Len(runs) + 1
HandIn(r) ==
  /\ \/ r = NextRun /\ runs' = Append(runs, "live")
     \/ r = 0 /\ UNCHANGED runs
  /\ UNCHANGED <<scored, strays, faults>>
HandInFails ==
  /\ faults < MaxFaults /\ faults' = faults + 1 /\ UNCHANGED scored
  /\ \/ runs' = Append(runs, "live") /\ strays' = strays \union {NextRun}
     \/ UNCHANGED <<runs, strays>>

Held == sub.stage = "picking"   \* the lock, over several runs
Stage(s) == sub' = [sub EXCEPT !.stage = s]
(* What the thread has to do is done in the order of trials and windows.   *)
IsFirst(todo) == todo \in sub.todo /\ \A other \in sub.todo : todo.item <= other.item
Done(todo) == sub' = [sub EXCEPT !.todo = @ \ {todo}]

(* _submit(): what is pending, then one trial after the other.             *)
Pending(t) == attempts[t] = <<>> \/ Of(t) = "interrupted"

Read ==
  /\ sub.stage = "read"
  /\ sub' = [stage |-> "submit", last |-> FALSE,
             todo |-> {[item |-> t, seen |-> Len(attempts[t])] : t \in {u \in T : Pending(u)}}]
  /\ UNCHANGED <<rows, cancelled, service, call, faults, counts>>

AddAttempt(t, r) == attempts' = [attempts EXCEPT ![t] = Append(@, r)]

(* Mutants of MayHand: it does not look for a cancellation, or for a retry *)
(* that came first.                                                        *)
MayHandCancelled(todo) == Len(attempts[todo.item]) = todo.seen
MayHandTwice(todo) == ~cancelled
MayHand(todo) == ~cancelled /\ Len(attempts[todo.item]) = todo.seen

Submit ==
  /\ sub.stage = "submit"
  /\ \E todo \in sub.todo :
     /\ IsFirst(todo)
     /\ \/ /\ ~MayHand(todo) /\ UNCHANGED <<attempts, service, faults>>
           /\ IF cancelled THEN Stage("done") ELSE Done(todo)
        \/ /\ MayHand(todo) /\ \E r \in {0, NextRun} : HandIn(r) /\ AddAttempt(todo.item, r)
           /\ Done(todo)
        \/ /\ MayHand(todo) /\ HandInFails /\ Stage("stopped") /\ UNCHANGED attempts
  /\ UNCHANGED <<picks, cancelledAt, cancelled, call, counts>>

Submitted ==
  /\ sub.stage = "submit" /\ sub.todo = {} /\ Stage("look")
  /\ UNCHANGED <<rows, cancelled, service, call, faults, counts>>

(* advance(): the open windows and their choices are read without the lock.*)
Look ==
  /\ sub.stage = "look"
  /\ IF cancelledAt THEN Stage("done")
     ELSE sub' = [stage |-> "choose", last |-> \A t \in T : Settled(t),
                  todo |-> {[item |-> w, seen |-> Len(picks[w]), trial |-> Chosen(w)] : w \in Open}]
  /\ UNCHANGED <<rows, cancelled, service, call, faults, counts>>

(* The thread goes on until the trials had ended when it looked.  Mutant of*)
(* After: it looks once.                                                   *)
AfterOnce == "done"
After == IF sub.last THEN "done" ELSE "look"

Choose ==
  /\ sub.stage = "choose"
  /\ Stage(IF sub.todo # {} /\ ~cancelledAt THEN "picking" ELSE After)
  /\ UNCHANGED <<rows, cancelled, service, call, faults, counts>>

AddPick(w, t, r) == picks' = [picks EXCEPT ![w] = Append(@, [trial |-> t, run |-> r])]

Pick ==
  /\ sub.stage = "picking"
  /\ \E todo \in sub.todo :
     /\ IsFirst(todo)
     /\ \/ /\ Len(picks[todo.item]) # todo.seen /\ Done(todo) /\ UNCHANGED <<picks, service, faults>>
        \/ /\ Len(picks[todo.item]) = todo.seen /\ todo.trial = 0
           /\ AddPick(todo.item, 0, 0) /\ Done(todo) /\ UNCHANGED <<service, faults>>
        \/ /\ Len(picks[todo.item]) = todo.seen /\ todo.trial # 0
           /\ \E r \in {0, NextRun} : HandIn(r) /\ AddPick(todo.item, todo.trial, r)
           /\ Done(todo)
        \/ /\ Len(picks[todo.item]) = todo.seen /\ todo.trial # 0
           /\ HandInFails /\ Stage("stopped") /\ UNCHANGED picks
  /\ UNCHANGED <<attempts, cancelledAt, cancelled, call, counts>>

Picked ==
  /\ sub.stage = "picking" /\ sub.todo = {} /\ Stage(After)
  /\ UNCHANGED <<rows, cancelled, service, call, faults, counts>>
-----------------------------------------------------------------------------
(* retry() of a trial that failed, was cancelled or was interrupted.       *)
Retry(t) ==
  /\ ~Held /\ retries < MaxRetries /\ retries' = retries + 1
  /\ ~cancelledAt /\ Of(t) \in {"failed", "cancelled", "interrupted"}
  /\ \/ \E r \in {0, NextRun} : HandIn(r) /\ AddAttempt(t, r)
     \/ HandInFails /\ UNCHANGED attempts
  /\ UNCHANGED <<picks, cancelledAt, cancelled, sub, call, restarts>>

(* cancel(): the mark and the runs there are in one section of the lock,   *)
(* the runs outside of it.  A call that fails may be repeated.             *)
Known == {r \in (UNION {ToSet(attempts[t]) : t \in T}) \union
                {p.run : p \in UNION {ToSet(picks[w]) : w \in W}} : r # 0}

Cancel ==
  /\ ~Held /\ call.stage \in {"none", "failed"} /\ ~Completed
  /\ cancelledAt' = TRUE /\ cancelled' = TRUE
  /\ call' = [stage |-> "going", left |-> Known]
  /\ UNCHANGED <<attempts, picks, service, sub, faults, counts>>

(* cancel() of the run service: the run goes on only for other owners.     *)
CancelRun(r) ==
  /\ call.stage = "going" /\ r \in call.left
  /\ call' = [call EXCEPT !.left = @ \ {r}]
  /\ \/ runs[r] = "live" /\ \E st \in {"stopping", "others"} : runs' = [runs EXCEPT ![r] = st]
     \/ runs[r] # "live" /\ UNCHANGED runs
  /\ UNCHANGED <<rows, cancelled, scored, strays, sub, faults, counts>>

CancelEnds ==
  /\ call.stage = "going"
  /\ \/ call.left = {} /\ call' = [call EXCEPT !.stage = "done"] /\ UNCHANGED faults
     \/ /\ faults < MaxFaults /\ faults' = faults + 1
        /\ call' = [stage |-> "failed", left |-> {}]
  /\ UNCHANGED <<rows, cancelled, service, sub, counts>>
-----------------------------------------------------------------------------
(* The run service; the ledger may miss the score of a completed run.  A   *)
(* run cancelled by a user is to the experiment what a failed one is.      *)
RunEnds(r) ==
  /\ r \in 1..Len(runs)
  /\ \/ /\ runs[r] \in {"live", "others"}
        /\ \E st \in {"completed", "failed"} : runs' = [runs EXCEPT ![r] = st]
        /\ \/ UNCHANGED scored
           \/ runs'[r] = "completed" /\ scored' = scored \union {r}
     \/ runs[r] = "stopping" /\ runs' = [runs EXCEPT ![r] = "cancelled"] /\ UNCHANGED scored
  /\ UNCHANGED <<rows, cancelled, strays, sub, call, faults, counts>>

(* The process ends; the next one closes what was running, then recover()  *)
(* submits the experiment again unless it was cancelled or completed.      *)
Restart ==
  /\ restarts < MaxRestarts /\ restarts' = restarts + 1
  /\ runs' = [r \in 1..Len(runs) |-> IF runs[r] \in Live THEN "interrupted" ELSE runs[r]]
  /\ cancelled' = FALSE
  /\ call' = [stage |-> IF call.stage = "going" THEN "failed" ELSE call.stage, left |-> {}]
  /\ sub' = [stage |-> "recover", todo |-> {}, last |-> FALSE]
  /\ UNCHANGED <<rows, scored, strays, faults, retries>>

(* recover() of the new process: an experiment that is over gets no thread.*)
Recover ==
  /\ sub.stage = "recover" /\ Stage(IF cancelledAt \/ Completed THEN "off" ELSE "read")
  /\ UNCHANGED <<rows, cancelled, service, call, faults, counts>>
-----------------------------------------------------------------------------
Submission == Read \/ Submit \/ Submitted \/ Look \/ Choose \/ Pick \/ Picked \/ Recover

Next ==
  \/ Submission \/ Restart
  \/ \E t \in T : Retry(t)
  \/ Cancel \/ CancelEnds \/ \E r \in call.left : CancelRun(r)
  \/ \E r \in 1..Len(runs) : RunEnds(r)

Spec == Init /\ [][Next]_vars

(* The submission thread goes on, and every run ends (BacktestRuns).       *)
FairSpec == Spec /\ WF_vars(Submission) /\ WF_vars(\E r \in 1..Len(runs) : RunEnds(r))
=============================================================================
