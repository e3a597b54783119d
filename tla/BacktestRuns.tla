---------------------------- MODULE BacktestRuns ----------------------------
(***************************************************************************)
(* BacktestRunService of application/backtest_run/_service.py: accepting a *)
(* backtest, joining a request to a run of the same input, sharing a run   *)
(* between a user and experiments, cancelling, pausing, handing waiting    *)
(* runs to the transport within the slots and the memory guard, settling   *)
(* what the transport reports, and closing interrupted runs after a        *)
(* restart.                                                                *)
(*                                                                         *)
(* The service has one re-entrant lock.  An action below is one critical   *)
(* section of it, with one exception: the two loops that run inside a      *)
(* section, relaning the shared runs of an experiment and dispatching, are *)
(* unrolled.  While `section' is not "open" the lock is held by such a     *)
(* loop, only its next round may run, and every section that ends in       *)
(* `_dispatch' leaves `section' at the loop.  What happens outside the     *)
(* lock, the computation and the discarding of a result, may fall between  *)
(* the rounds.                                                             *)
(*                                                                         *)
(* The transport is the RunExecutionPort: it computes, commits an artifact *)
(* and calls `on_finished' once.  A refused admission, and a repository    *)
(* that fails to add the run, leave no trace and are no step.              *)
(***************************************************************************)
EXTENDS RunQueue, FiniteSetsExt

CONSTANTS
    Slots,         \* run_slots
    Kept,          \* _FINISHED_RECORDS_KEPT
    Weights,       \* the priorities an experiment may have
    Requests,      \* <<owner, run>>: who may ask for which run, that is, whose
                   \* requests have the same input
    MaxCrashes,    \* bound: how often the server stops
    MaxFaults      \* bound: failed writes, failed discards, failed starts

ASSUME SlotsAssumption == Slots \in Nat \ {0}
ASSUME KeptAssumption == Kept \in Nat \ {0}
ASSUME WeightsAssumption == Weights \subseteq Nat \ {0}
ASSUME RequestsAssumption == Requests \subseteq Lanes \X Runs
ASSUME BoundsAssumption == MaxCrashes \in Nat /\ MaxFaults \in Nat

VARIABLES
    \* What survives a restart.
    stored,              \* run repository: the status of each run
    artifact,            \* artifact store: the runs with a committed result
    controls,            \* experiment repository: pause and priority
    \* The memory of the service.
    records,             \* _records: the runs with a copy in memory
    status,              \* state.status of each record
    owners,              \* record.owners
    cancelled,           \* records whose cancellation event is set
    experimentSlot,      \* records with experiment_slot
    memoryWait,          \* records whose message says they wait for memory
    waiting,             \* _waiting
    running,             \* _running
    runningExperiments,  \* _running_experiments
    finished,            \* _finished
    section,             \* who has the lock: see above
    todo,                \* the records still to be relaned
    controlling,         \* the experiment whose control is saved but not yet
                         \* applied, User if there is none
    \* The transport.
    phase,               \* where each run is between its start and its release
    hold,                \* what set_memory_hold was last told
    \* Bounds.
    crashes, faults,
    \* History.
    leftBehind           \* the runs whose result the service could not remove, or was
                         \* settling when the server stopped

durable == <<stored, artifact, controls>>
recordVars == <<records, status, owners, cancelled, experimentSlot, memoryWait, finished>>
slotVars == <<running, runningExperiments>>
lockVars == <<section, todo, controlling>>
transportVars == <<phase, hold>>
boundVars == <<crashes, faults, leftBehind>>
vars == <<durable, recordVars, waiting, slotVars, lockVars, transportVars, boundVars>>

-----------------------------------------------------------------------------
Absent == "absent"
Unfinished == {"queued", "running", "cancel_requested"}
Terminal == {"completed", "failed", "cancelled"}
Statuses == {Absent} \cup Unfinished \cup Terminal

(* A run with a handle is, in turn: computing; reported as committed,      *)
(* failed or stopped (the steps of `_settle'); settled but still holding   *)
(* its slot; released.                                                     *)
SlotPhases == {"computing", "committed", "discarding", "failing", "cancelling", "settled"}
Phases == {"none", "released"} \cup SlotPhases

Sections == {"open", "relane", "dispatch", "boot"}

HoldsSlot == {r \in Runs : phase[r] \in SlotPhases}

(* `_lane': the user's lane if a user waits for the run, otherwise that of *)
(* the first owner that is not paused.                                     *)
Least(S) == CHOOSE n \in S : \A m \in S : n <= m

LaneFor(q, owning) ==
    IF User \in owning THEN User
    ELSE IF owning \subseteq q.paused THEN Least(owning)
    ELSE Least(owning \ q.paused)

(* `_owner_active': the owner has a run in memory that has not ended.      *)
OwnerActive(e) == \E r \in records : e \in owners[r] /\ status[r] \notin Terminal

(* Mutant of IdleAfter: an owner whose runs are all started counts as idle.*)
IdleAfterStart(S) ==
    {e \in S \ {User} : \A r \in records : e \notin owners'[r] \/ status'[r] # "queued"}

(* `_release_idle_owner' for the owners in S, after the step.              *)
IdleAfter(S) ==
    {e \in S \ {User} : \A r \in records : e \notin owners'[r] \/ status'[r] \in Terminal}

-----------------------------------------------------------------------------
Init ==
    /\ stored = [r \in Runs |-> Absent]
    /\ artifact = {}
    /\ controls = [e \in Experiments |-> [paused |-> FALSE, weight |-> 1]]
    /\ records = {}
    /\ status = [r \in Runs |-> Absent]
    /\ owners = [r \in Runs |-> {}]
    /\ cancelled = {}
    /\ experimentSlot = {}
    /\ memoryWait = {}
    /\ waiting = EmptyQueue
    /\ running = 0
    /\ runningExperiments = 0
    /\ finished = <<>>
    /\ section = "open"
    /\ todo = {}
    /\ controlling = User
    /\ phase = [r \in Runs |-> "none"]
    /\ hold = FALSE
    /\ crashes = 0
    /\ faults = 0
    /\ leftBehind = {}

-----------------------------------------------------------------------------
Lost(saved) == IF saved THEN 0 ELSE 1

Faults(n) == faults + n <= MaxFaults /\ faults' = faults + n

(* `_persist' of a status: a failure is swallowed.                         *)
Persist(r, st, saved) == stored' = IF saved THEN [stored EXCEPT ![r] = st] ELSE stored

(* Mutant of Retire: an end is dropped although it was not saved.          *)
RetireUnsaved(r, saved) ==
    LET list == Append(finished, r) IN
    IF Len(list) > Kept
    THEN finished' = Tail(list) /\ records' = records \ {Head(list)}
    ELSE finished' = list /\ UNCHANGED records

(* `_retire': a saved end leaves the copy in memory to the last Kept of    *)
(* them.                                                                   *)
Retire(r, saved) ==
    LET list == IF saved THEN Append(finished, r) ELSE finished IN
    IF Len(list) > Kept
    THEN finished' = Tail(list) /\ records' = records \ {Head(list)}
    ELSE finished' = list /\ UNCHANGED records

(* `_emit' of an end: change the status, save it, release the owners it    *)
(* leaves idle (and `leaving', who called), retire the record.             *)
EmitEnd(r, st, saved, q, leaving) ==
    /\ status' = [status EXCEPT ![r] = st]
    /\ memoryWait' = memoryWait \ {r}
    /\ Persist(r, st, saved)
    /\ waiting' = Forget(q, IdleAfter(owners'[r] \cup leaving))
    /\ Retire(r, saved)

-----------------------------------------------------------------------------
(* `start'.  An experiment calls it under the experiment lock and hands in *)
(* the controls it has just read.                                          *)
MayStart(o, r) ==
    /\ section = "open"
    /\ o = User \/ controlling = User
    /\ <<o, r>> \in Requests

WithControls(o) ==
    IF o = User THEN waiting ELSE Configure(waiting, o, controls[o].paused, controls[o].weight)

(* A new run.                                                              *)
Accept(o, r) ==
    /\ MayStart(o, r)
    /\ stored[r] = Absent
    /\ \A s \in Runs : s < r => stored[s] # Absent
    /\ stored' = [stored EXCEPT ![r] = "queued"]
    /\ status' = [status EXCEPT ![r] = "queued"]
    /\ records' = records \cup {r}
    /\ owners' = [owners EXCEPT ![r] = {o}]
    /\ waiting' = Push(WithControls(o), r, LaneFor(WithControls(o), {o}))
    /\ section' = "dispatch"
    /\ UNCHANGED <<artifact, controls, cancelled, experimentSlot, memoryWait, finished,
                   slotVars, todo, controlling, transportVars, boundVars>>

(* Mutant of Join: a run that is being cancelled is joined too.            *)
JoinCancelled(o, r) ==
    /\ MayStart(o, r)
    /\ r \in records
    /\ status[r] \in Unfinished
    /\ owners' = [owners EXCEPT ![r] = @ \cup {o}]
    /\ waiting' = Move(WithControls(o), r, LaneFor(WithControls(o), owners'[r]))
    /\ section' = "dispatch"
    /\ UNCHANGED <<durable, records, status, cancelled, experimentSlot, memoryWait, finished,
                   slotVars, todo, controlling, transportVars, boundVars>>

(* A request whose input a waiting or running run already has.             *)
Join(o, r) ==
    /\ MayStart(o, r)
    /\ r \in records
    /\ status[r] \in {"queued", "running"}
    /\ owners' = [owners EXCEPT ![r] = @ \cup {o}]
    /\ waiting' = Move(WithControls(o), r, LaneFor(WithControls(o), owners'[r]))
    /\ section' = "dispatch"
    /\ UNCHANGED <<durable, records, status, cancelled, experimentSlot, memoryWait, finished,
                   slotVars, todo, controlling, transportVars, boundVars>>

(* `cancel': the owner leaves the run.  Four outcomes.                     *)
Leave(o, r) ==
    /\ section = "open"
    /\ r \in records
    /\ o = User \/ o \in owners[r]
    /\ owners' = [owners EXCEPT ![r] = @ \ {o}]
    /\ UNCHANGED <<artifact, controls, experimentSlot, slotVars, todo, controlling, transportVars,
                   crashes, leftBehind>>

LeaveEnded(o, r) ==
    /\ Leave(o, r)
    /\ status[r] \in Terminal
    /\ UNCHANGED <<stored, records, status, cancelled, memoryWait, waiting, finished, section,
                   faults>>

LeaveToOthers(o, r) ==
    /\ Leave(o, r)
    /\ status[r] \notin Terminal
    /\ owners'[r] # {}
    /\ UNCHANGED <<stored, records, status, cancelled, memoryWait, finished, faults>>
    /\ waiting' = Forget(Move(waiting, r, LaneFor(waiting, owners'[r])), IdleAfter({o}))
    /\ section' = "dispatch"

CancelWaiting(o, r, saved) ==
    /\ Leave(o, r)
    /\ status[r] \notin Terminal
    /\ owners'[r] = {}
    /\ InQueue(waiting, r)
    /\ cancelled' = cancelled \cup {r}
    /\ Faults(Lost(saved))
    /\ EmitEnd(r, "cancelled", saved, RemoveRun(waiting, r), {o})
    /\ section' = "dispatch"

CancelStarted(o, r, saved) ==
    /\ Leave(o, r)
    /\ status[r] \notin Terminal
    /\ owners'[r] = {}
    /\ ~InQueue(waiting, r)
    /\ cancelled' = cancelled \cup {r}
    /\ status' = [status EXCEPT ![r] = "cancel_requested"]
    /\ memoryWait' = memoryWait \ {r}
    /\ Faults(Lost(saved))
    /\ IF status[r] = "cancel_requested"
       THEN saved /\ UNCHANGED stored
       ELSE Persist(r, "cancel_requested", saved)
    /\ waiting' = Forget(waiting, IdleAfter({o}))
    /\ UNCHANGED <<records, finished, section>>

-----------------------------------------------------------------------------
(* `ExperimentService.control': the controls are saved under the           *)
(* experiment lock, then handed to `schedule', which takes the lock of the *)
(* run service.                                                            *)
SetControls(e, paused, w) ==
    /\ section # "boot"
    /\ controlling = User
    /\ controlling' = e
    /\ controls' = [controls EXCEPT ![e] = [paused |-> paused, weight |-> w]]
    /\ UNCHANGED <<stored, artifact, recordVars, waiting, slotVars, section, todo,
                   transportVars, boundVars>>

(* Mutant of Shared: the runs of one owner instead of the shared ones.     *)
SharedByOne(e) == {r \in records : owners[r] = {e}}

Shared(e) == {r \in records : e \in owners[r] /\ owners[r] # {e}}

Schedule(e) ==
    /\ section = "open"
    /\ controlling = e
    /\ controlling' = User
    /\ IF OwnerActive(e)
       THEN /\ waiting' = Configure(waiting, e, controls[e].paused, controls[e].weight)
            /\ todo' = Shared(e)
            /\ section' = IF todo' = {} THEN "dispatch" ELSE "relane"
       ELSE waiting' = Forget(waiting, {e}) /\ UNCHANGED <<section, todo>>
    /\ UNCHANGED <<durable, recordVars, slotVars, transportVars, boundVars>>

(* One round of the loop of `schedule': the shared runs of the experiment, *)
(* in order of acceptance.                                                 *)
RelaneNext(r) ==
    /\ section = "relane"
    /\ r \in todo /\ \A s \in todo : r <= s
    /\ waiting' = Move(waiting, r, LaneFor(waiting, owners[r]))
    /\ todo' = todo \ {r}
    /\ section' = IF todo' = {} THEN "dispatch" ELSE "relane"
    /\ UNCHANGED <<durable, recordVars, slotVars, controlling, transportVars, boundVars>>

-----------------------------------------------------------------------------
(* `_dispatch'.  A head is the run the queue would give while a slot is    *)
(* free.                                                                   *)
ExperimentsMay == runningExperiments < ExperimentSlots(Slots)

HasHead == running < Slots /\ HasNext(waiting, ExperimentsMay)

HeadRun == Peek(waiting, ExperimentsMay)

(* Mutant of Guarded: runs that have ended are weighed as well.            *)
GuardedByEnded == \E r \in records : phase[r] # "none"

(* The memory guard weighs the head against the runs that have a handle    *)
(* and have not ended.  Without one it admits; otherwise the verdict       *)
(* depends on the memory of the machine and may be either.                 *)
Guarded == \E r \in records : phase[r] # "none" /\ status[r] \notin Terminal

DispatchStart(r) ==
    /\ section = "dispatch"
    /\ HasHead /\ r = HeadRun
    /\ waiting' = Pop(waiting, ExperimentsMay)
    /\ phase' = [phase EXCEPT ![r] = "computing"]
    /\ running' = running + 1
    /\ IF User \in owners[r]
       THEN UNCHANGED <<experimentSlot, runningExperiments>>
       ELSE /\ experimentSlot' = experimentSlot \cup {r}
            /\ runningExperiments' = runningExperiments + 1
    /\ UNCHANGED <<durable, records, status, owners, cancelled, memoryWait, finished, lockVars,
                   hold, boundVars>>

(* The transport has no thread or memory for it: the run fails.            *)
DispatchStartFails(r, saved) ==
    /\ section = "dispatch"
    /\ HasHead /\ r = HeadRun
    /\ Faults(1 + Lost(saved))
    /\ UNCHANGED <<artifact, controls, owners, cancelled, experimentSlot, slotVars, lockVars,
                   transportVars, crashes,
                   leftBehind>>
    /\ EmitEnd(r, "failed", saved, Pop(waiting, ExperimentsMay), {})

(* The head waits for memory, and whatever is behind it waits too.         *)
DispatchHold ==
    /\ section = "dispatch"
    /\ HasHead
    /\ Guarded
    /\ hold' = TRUE
    /\ memoryWait' = {HeadRun}
    /\ section' = "open"
    /\ UNCHANGED <<durable, records, status, owners, cancelled, experimentSlot, finished,
                   waiting, slotVars, todo, controlling, phase, boundVars>>

DispatchDone ==
    /\ section = "dispatch"
    /\ ~HasHead
    /\ hold' = FALSE
    /\ memoryWait' = {}
    /\ section' = "open"
    /\ UNCHANGED <<durable, records, status, owners, cancelled, experimentSlot, finished,
                   waiting, slotVars, todo, controlling, phase, boundVars>>

-----------------------------------------------------------------------------
(* `on_progress': the first report makes a queued run running.  A          *)
(* cancelled run takes no progress, the computation is told to stop.       *)
Progress(r, saved) ==
    /\ section = "open"
    /\ phase[r] = "computing"
    /\ status[r] = "queued"
    /\ status' = [status EXCEPT ![r] = "running"]
    /\ memoryWait' = memoryWait \ {r}
    /\ Faults(Lost(saved))
    /\ Persist(r, "running", saved)
    /\ UNCHANGED <<artifact, controls, records, owners, cancelled, experimentSlot, finished,
                   waiting, slotVars, lockVars, transportVars, crashes,
                   leftBehind>>

(* What the transport does outside the lock.                               *)
Outside(r, from, to) ==
    /\ section # "boot"
    /\ phase[r] = from
    /\ phase' = [phase EXCEPT ![r] = to]
    /\ UNCHANGED <<stored, controls, recordVars, waiting, slotVars, lockVars, hold, crashes>>

(* The computation renames its result into place and reports it, whether   *)
(* or not a cancellation has been asked for in the meantime.               *)
EndCommitted(r) ==
    /\ Outside(r, "computing", "committed")
    /\ artifact' = artifact \cup {r}
    /\ UNCHANGED <<faults, leftBehind>>

(* It fails, and what it left is removed.                                  *)
EndFailed(r) ==
    /\ Outside(r, "computing", "failing")
    /\ UNCHANGED <<artifact, faults, leftBehind>>

(* It stops because it was told to.                                        *)
EndStopped(r) ==
    /\ r \in cancelled
    /\ Outside(r, "computing", "cancelling")
    /\ UNCHANGED <<artifact, faults, leftBehind>>

(* `_settle', first of a committed result: `_complete'.  The cancellation  *)
(* won: the result is to be discarded outside the lock.                    *)
CompleteLate(r) ==
    /\ section = "open"
    /\ phase[r] = "committed"
    /\ r \in cancelled
    /\ phase' = [phase EXCEPT ![r] = "discarding"]
    /\ UNCHANGED <<durable, recordVars, waiting, slotVars, lockVars, hold, boundVars>>

(* Mutant of Complete: the completion is told although it was not saved.   *)
CompleteUnchecked(r) ==
    /\ section = "open"
    /\ phase[r] = "committed"
    /\ r \notin cancelled
    /\ phase' = [phase EXCEPT ![r] = "settled"]
    /\ UNCHANGED <<artifact, controls, owners, cancelled, experimentSlot, slotVars, lockVars,
                   hold, crashes, leftBehind>>
    /\ \E saved \in BOOLEAN : Faults(Lost(saved)) /\ EmitEnd(r, "completed", saved, waiting, {})

(* The completion won, and is saved before anyone sees it.                 *)
Complete(r) ==
    /\ section = "open"
    /\ phase[r] = "committed"
    /\ r \notin cancelled
    /\ phase' = [phase EXCEPT ![r] = "settled"]
    /\ UNCHANGED <<artifact, controls, owners, cancelled, experimentSlot, slotVars, lockVars,
                   hold, boundVars>>
    /\ EmitEnd(r, "completed", TRUE, waiting, {})

(* Mutant of CompleteUnsaved: a completion that could not be saved leaves   *)
(* its result there.                                                       *)
CompleteUnsavedKeeps(r, gone) ==
    /\ section = "open"
    /\ phase[r] = "committed"
    /\ r \notin cancelled
    /\ phase' = [phase EXCEPT ![r] = "failing"]
    /\ Faults(1 + Lost(gone))
    /\ leftBehind' = IF gone THEN leftBehind ELSE leftBehind \cup {r}
    /\ UNCHANGED <<durable, recordVars, waiting, slotVars, lockVars, hold, crashes>>

(* It could not be saved: the result goes (unless that fails as well) and  *)
(* the run is going to fail.                                               *)
CompleteUnsaved(r, gone) ==
    /\ section = "open"
    /\ phase[r] = "committed"
    /\ r \notin cancelled
    /\ phase' = [phase EXCEPT ![r] = "failing"]
    /\ Faults(1 + Lost(gone))
    /\ IF gone
       THEN artifact' = artifact \ {r} /\ UNCHANGED leftBehind
       ELSE leftBehind' = leftBehind \cup {r} /\ UNCHANGED artifact
    /\ UNCHANGED <<stored, controls, recordVars, waiting, slotVars, lockVars, hold, crashes>>

Discard(r) ==
    /\ Outside(r, "discarding", "cancelling")
    /\ artifact' = artifact \ {r}
    /\ UNCHANGED <<faults, leftBehind>>

DiscardFails(r) ==
    /\ Outside(r, "discarding", "failing")
    /\ Faults(1)
    /\ leftBehind' = leftBehind \cup {r}
    /\ UNCHANGED artifact

(* Mutants of Settle: a cancelled run that fails becomes a failed one; or  *)
(* it is not settled at all.                                               *)
SettleAsFailed(r, saved) ==
    /\ section = "open"
    /\ phase[r] \in {"cancelling", "failing"}
    /\ phase' = [phase EXCEPT ![r] = "settled"]
    /\ Faults(Lost(saved))
    /\ UNCHANGED <<artifact, controls, owners, cancelled, experimentSlot, slotVars, lockVars,
                   hold, crashes, leftBehind>>
    /\ EmitEnd(r, IF phase[r] = "cancelling" THEN "cancelled" ELSE "failed", saved, waiting, {})

SettleSkipsCancelled(r, saved) ==
    /\ section = "open"
    /\ phase[r] = "cancelling" \/ (phase[r] = "failing" /\ r \notin cancelled)
    /\ phase' = [phase EXCEPT ![r] = "settled"]
    /\ Faults(Lost(saved))
    /\ UNCHANGED <<artifact, controls, owners, cancelled, experimentSlot, slotVars, lockVars,
                   hold, crashes, leftBehind>>
    /\ EmitEnd(r, IF phase[r] = "cancelling" THEN "cancelled" ELSE "failed", saved, waiting, {})

(* `_settle' of a stopped computation, and `_fail': a cancelled run that   *)
(* fails is cancelled.                                                     *)
Settle(r, saved) ==
    /\ section = "open"
    /\ phase[r] \in {"cancelling", "failing"}
    /\ phase' = [phase EXCEPT ![r] = "settled"]
    /\ Faults(Lost(saved))
    /\ UNCHANGED <<artifact, controls, owners, cancelled, experimentSlot, slotVars, lockVars,
                   hold, crashes, leftBehind>>
    /\ LET st == IF phase[r] = "cancelling" \/ r \in cancelled THEN "cancelled" ELSE "failed"
       IN EmitEnd(r, st, saved, waiting, {})

(* Mutant of Release: the share is the one of the owners the run has now.  *)
ReleaseByOwners(r) ==
    /\ section = "open"
    /\ phase[r] = "settled"
    /\ phase' = [phase EXCEPT ![r] = "released"]
    /\ running' = running - 1
    /\ runningExperiments' = IF User \notin owners[r] THEN runningExperiments - 1
                             ELSE runningExperiments
    /\ section' = "dispatch"
    /\ UNCHANGED <<durable, recordVars, waiting, todo, controlling, hold, boundVars>>

(* The rest of `_finish': the slot is given back and the next run started. *)
Release(r) ==
    /\ section = "open"
    /\ phase[r] = "settled"
    /\ phase' = [phase EXCEPT ![r] = "released"]
    /\ running' = running - 1
    /\ runningExperiments' = IF r \in experimentSlot THEN runningExperiments - 1
                             ELSE runningExperiments
    /\ section' = "dispatch"
    /\ UNCHANGED <<durable, recordVars, waiting, todo, controlling, hold, boundVars>>

-----------------------------------------------------------------------------
(* The server stops, in the middle of whatever it does: the memory and the *)
(* computations are gone.                                                  *)
Crash ==
    /\ crashes < MaxCrashes
    /\ crashes' = crashes + 1
    /\ records' = {}
    /\ status' = [r \in Runs |-> Absent]
    /\ owners' = [r \in Runs |-> {}]
    /\ cancelled' = {}
    /\ experimentSlot' = {}
    /\ memoryWait' = {}
    /\ finished' = <<>>
    /\ waiting' = EmptyQueue
    /\ running' = 0
    /\ runningExperiments' = 0
    /\ section' = "boot"
    /\ todo' = {}
    /\ controlling' = User
    /\ phase' = [r \in Runs |-> "none"]
    /\ hold' = FALSE
    /\ leftBehind' = leftBehind \cup {r \in Runs : phase[r] \in {"committed", "discarding"}}
    /\ UNCHANGED <<durable, faults>>

(* `_close_interrupted_runs', one run at a time, before requests are       *)
(* served.                                                                 *)
CloseInterrupted(r) ==
    /\ section = "boot"
    /\ stored[r] \in Unfinished
    /\ stored' = [stored EXCEPT ![r] = "failed"]
    /\ UNCHANGED <<artifact, controls, recordVars, waiting, slotVars, lockVars, transportVars,
                   boundVars>>

OpenService ==
    /\ section = "boot"
    /\ \A r \in Runs : stored[r] \notin Unfinished
    /\ section' = "open"
    /\ UNCHANGED <<durable, recordVars, waiting, slotVars, todo, controlling, transportVars,
                   boundVars>>

-----------------------------------------------------------------------------
Request(o, r) ==
    \/ Accept(o, r)
    \/ Join(o, r)
    \/ LeaveEnded(o, r)
    \/ LeaveToOthers(o, r)
    \/ \E saved \in BOOLEAN : CancelWaiting(o, r, saved) \/ CancelStarted(o, r, saved)

LoopStep ==
    \/ \E r \in Runs : RelaneNext(r)
    \/ \E r \in Runs, saved \in BOOLEAN : DispatchStartFails(r, saved)
    \/ \E r \in Runs : DispatchStart(r)
    \/ DispatchHold
    \/ DispatchDone

(* The computation comes to an end.                                        *)
End(r) == EndCommitted(r) \/ EndFailed(r) \/ EndStopped(r)

(* The steps of `_finish' after that.                                      *)
Finish(r) ==
    \/ CompleteLate(r)
    \/ Complete(r)
    \/ \E gone \in BOOLEAN : CompleteUnsaved(r, gone)
    \/ Discard(r)
    \/ DiscardFails(r)
    \/ \E saved \in BOOLEAN : Settle(r, saved)
    \/ Release(r)

Boot == OpenService \/ \E r \in Runs : CloseInterrupted(r)

Next ==
    \/ \E o \in Lanes, r \in Runs : Request(o, r)
    \/ \E e \in Experiments, paused \in BOOLEAN, w \in Weights : SetControls(e, paused, w)
    \/ \E e \in Experiments : Schedule(e)
    \/ LoopStep
    \/ \E r \in Runs, saved \in BOOLEAN : Progress(r, saved)
    \/ \E r \in Runs : End(r) \/ Finish(r)
    \/ Crash
    \/ Boot

Spec == Init /\ [][Next]_vars

(* A thread that holds the lock goes on; a computation ends by itself; the *)
(* thread that waits for the lock with the end of a run gets it, however   *)
(* many requests come in between.  Requests and crashes have no fairness.  *)
Fairness ==
    /\ WF_vars(LoopStep)
    /\ WF_vars(Boot)
    /\ \A e \in Experiments : SF_vars(Schedule(e))
    /\ \A r \in Runs : WF_vars(End(r)) /\ SF_vars(Finish(r))

FairSpec == Spec /\ Fairness
=============================================================================
