----------------------- MODULE BacktestRunsProperties -----------------------
(***************************************************************************)
(* What the run service must keep to, whatever requests, ends, faults and  *)
(* restarts come in which order.                                           *)
(***************************************************************************)
EXTENDS BacktestRuns

(* What a client is told: the copy in memory, or what was saved.           *)
Visible(r) == IF r \in records THEN status[r] ELSE stored[r]

(* The types of all variables.                                             *)
TypeOK ==
    /\ stored \in [Runs -> Statuses]
    /\ artifact \subseteq Runs
    /\ controls \in [Experiments -> [paused : BOOLEAN, weight : Nat \ {0}]]
    /\ records \subseteq Runs
    /\ status \in [Runs -> Statuses]
    /\ owners \in [Runs -> SUBSET Lanes]
    /\ cancelled \subseteq Runs
    /\ experimentSlot \subseteq Runs
    /\ memoryWait \subseteq Runs
    /\ waiting \in Queue
    /\ running \in Int
    /\ runningExperiments \in Int
    /\ finished \in Seq(Runs)
    /\ section \in Sections
    /\ todo \subseteq Runs
    /\ controlling \in Lanes
    /\ phase \in [Runs -> Phases]
    /\ hold \in BOOLEAN
    /\ crashes \in 0..MaxCrashes
    /\ faults \in 0..MaxFaults
    /\ leftBehind \subseteq Runs

-----------------------------------------------------------------------------
(* Slots.                                                                  *)

(* Every way a run can end (completed, failed, cancelled before or after   *)
(* its result was committed, an end that could not be saved) gives its     *)
(* slot back exactly once, to the share it was taken from although owners  *)
(* came and went meanwhile; and the limits hold.                           *)
SlotAccounting ==
    /\ running = Cardinality(HoldsSlot)
    /\ runningExperiments = Cardinality(HoldsSlot \cap experimentSlot)
    /\ running <= Slots
    /\ runningExperiments <= ExperimentSlots(Slots)

(* What the docstring of experiment_slots says: with two or more slots one *)
(* is reserved for the user's own runs, so the runs that only experiments  *)
(* still want never hold all of them.  A run is counted once, when it      *)
(* starts (`record.experiment_slot = None not in record.owners').          *)
UserSlotReserved ==
    Cardinality({r \in HoldsSlot : r \in records /\ owners[r] # {} /\ User \notin owners[r]})
        <= ExperimentSlots(Slots)

-----------------------------------------------------------------------------
(* The waiting queue against the records.                                  *)

(* A run waits in the queue if and only if its record says it is queued    *)
(* and nothing has started it: a run missing from the queue would stay     *)
(* queued for ever, an ended run left in it would be started.              *)
WaitingIsQueued ==
    \A r \in Runs :
        InQueue(waiting, r) <=> r \in records /\ status[r] = "queued" /\ phase[r] = "none"

(* A waiting run stands where its owners and their pauses put it, although *)
(* owners join and leave and each experiment is paused on its own; only    *)
(* the loop that puts this right may see it elsewhere.                     *)
LaneMatchesOwners ==
    \A r \in Runs, l \in Lanes :
        InLane(waiting, r, l) => r \in todo \/ l = LaneFor(waiting, owners[r])

(* The lane of an experiment with unfinished runs has the controls that    *)
(* were saved last, also after a restart and after runs that joined; one   *)
(* without leaves nothing behind, so that a later run of it does not start *)
(* under forgotten controls.                                               *)
ControlsApplied ==
    \A e \in Experiments :
        IF OwnerActive(e)
        THEN controlling = e \/ /\ e \in waiting.paused <=> controls[e].paused
                                /\ waiting.weight[e] = controls[e].weight
        ELSE e \notin waiting.paused /\ waiting.weight[e] = 1

(* Between two critical sections, a run that could start is waiting for    *)
(* memory and for nothing else: it is the one whose message says so, the   *)
(* transport has been told, and a run that will end is there to wake the   *)
(* queue.                                                                  *)
HoldExplained ==
    section = "open" =>
        /\ hold <=> HasHead
        /\ memoryWait = IF hold THEN {HeadRun} ELSE {}
        /\ hold => HoldsSlot # {}

-----------------------------------------------------------------------------
(* Cancelling and the end of a run.                                        *)

(* A run is cancelled only when nobody is left who wants it, and nobody    *)
(* can join it from then on.                                               *)
CancelNeedsEveryOwner ==
    \A r \in records :
        /\ r \in cancelled => owners[r] = {}
        /\ status[r] \in {"cancel_requested", "cancelled"} <=> r \in cancelled

(* A completed run is saved as completed and its result is there.          *)
CompletedIsDurable ==
    \A r \in Runs :
        /\ r \in records /\ status[r] = "completed" => stored[r] = "completed"
        /\ stored[r] = "completed" => r \in artifact

(* Whether it was cancelled after its result was committed or its          *)
(* completion could not be saved: a run that did not complete leaves no    *)
(* result in the store.  The only exceptions are the runs whose very       *)
(* removal failed, and those the server was settling when it stopped.      *)
NoStrayResult ==
    \A r \in artifact \ leftBehind :
        stored[r] = "completed" \/ phase[r] \in {"committed", "discarding"}

(* A copy in memory is dropped only when the repository tells the same.    *)
SavedBeforeDropped ==
    /\ section # "boot" =>
         \A r \in Runs : stored[r] \in Unfinished => r \in records
    /\ \A r \in records : stored[r] \in Terminal => stored[r] = status[r]

(* All of it seen from outside: the service implements RunLifecycle.       *)
Lifecycle == INSTANCE RunLifecycle WITH
    view <- [r \in Runs |-> Visible(r)],
    sure <- {r \in Runs : stored[r] \in Terminal},
    up   <- section # "boot"

ImplementsLifecycle == Lifecycle!Spec

-----------------------------------------------------------------------------
(* The inductive invariant behind the safety properties above.             *)

(* Nothing is known of a run that was not accepted.                        *)
OnlyAccepted ==
    \A r \in Runs :
        r \in records \cup cancelled \cup experimentSlot \/ phase[r] # "none" => stored[r] # Absent

(* A run on its way to an end is in memory and has not ended; a stop has   *)
(* been asked for; what was committed is there; a share is counted once.   *)
PhasesAgree ==
    \A r \in Runs :
        /\ phase[r] \in SlotPhases \ {"settled"} => r \in records /\ status[r] \in Unfinished
        /\ phase[r] \in {"discarding", "cancelling"} => r \in cancelled
        /\ phase[r] = "committed" => r \in artifact
        /\ phase[r] = "none" => r \notin experimentSlot

(* Someone wants every run that is not being cancelled.                    *)
SomeoneWants ==
    \A r \in records :
        /\ status[r] # Absent
        /\ status[r] \in {"queued", "running"} => owners[r] # {}

(* A run in the user's lane is wanted by the user.                         *)
UserLane == \A r \in Runs : InLane(waiting, r, User) => User \in owners[r]

FinishedSaved == \A i \in 1..Len(finished) : stored[finished[i]] \in Terminal

BootEmpty ==
    section = "boot" => /\ records = {} /\ cancelled = {}
                        /\ \A r \in Runs : phase[r] = "none"

IndInv ==
    /\ TypeOK
    /\ Good(waiting)
    /\ WaitingIsQueued
    /\ CancelNeedsEveryOwner
    /\ CompletedIsDurable
    /\ SavedBeforeDropped
    /\ OnlyAccepted
    /\ PhasesAgree
    /\ SomeoneWants
    /\ UserLane
    /\ FinishedSaved
    /\ BootEmpty

(* Lanes and controls are kept together: a run joins an experiment only    *)
(* under controls that are applied, and nobody is left to be moved when    *)
(* the loop of `schedule' is over.                                         *)
ControlInv ==
    /\ ControlsApplied
    /\ LaneMatchesOwners
    /\ section # "relane" => todo = {}

(* Nothing is held before requests are served, and a run that holds the    *)
(* queue back has a slot: one whose end was settled is not weighed.        *)
HoldInv ==
    /\ HoldExplained
    /\ section = "boot" => ~hold /\ memoryWait = {}
    /\ \A r \in records : phase[r] \in {"settled", "released"} => status[r] \in Terminal

-----------------------------------------------------------------------------
(* Liveness.                                                               *)

(* A started run gives its slot back.                                      *)
StartedEnds == \A r \in Runs : phase[r] \in SlotPhases ~> phase[r] \notin SlotPhases

(* A run waits for ever only if in the end nobody but paused experiments   *)
(* wants it: not because of other lanes, of the memory guard, of a start   *)
(* that failed or of a run that was cancelled at the wrong moment.         *)
Stuck(r) == section = "open" /\ InQueue(waiting, r)

OnlyPausedWait ==
    \A r \in Runs :
        <>[]InQueue(waiting, r) => <>[](Stuck(r) => owners[r] \subseteq waiting.paused)
=============================================================================
