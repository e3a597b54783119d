---------------------------- MODULE LedgerRefresh ----------------------------
(***************************************************************************)
(* application/ledger_refresh/_service.py: fetching the ledger's new       *)
(* builds into a running server, with the app it replaces                  *)
(* (bootstrap/_reload.py) and the requests that start computations         *)
(* (STARTS_WORK of _ledger_refresh_routes.py).                             *)
(*                                                                         *)
(* A container pins the build that is on disk when it is built.  Every     *)
(* action is one section of the service's lock, one step of the event      *)
(* loop, or one call made outside of both: requests, the refresh thread,   *)
(* checks and the shutdown interleave between them.  The tool behind the   *)
(* port is one process that fetches, then ends.                            *)
(***************************************************************************)
EXTENDS Integers, FiniteSets

CONSTANTS Requests,    \* requests that start a computation
          Starters,    \* clients that ask for a refresh
          Keep,        \* KEEP_BUILDS: builds of a table that are kept
          MaxBuild,    \* bound: builds the server commits
          MaxApps      \* bound: containers put into use

ASSUME RefreshAssumption == {Keep, MaxBuild, MaxApps} \subseteq Nat \ {0}

VARIABLES state,      \* _state: code, drifted, remote
          previous,   \* what start() restores when it gives up
          admitting,  \* _admitting
          starter,    \* how far each start() has come
          check,      \* a check(): what its plan found
          thread,     \* how far _run() has come
          stopping,   \* _stopping
          job,        \* _job: is there a tool to stop
          tool,       \* the tool's process
          outcome,    \* its SyncOutcome
          server,     \* the newest build at the server
          disk,       \* the build the local MANIFEST points at
          kept,       \* the builds on disk
          app,        \* ReloadableApp._app: the number of the container in use
          pinned,     \* the build each container reads
          open,       \* the containers whose lifespan is open
          missed,     \* fetches since the container in use was built (history)
          closing,    \* _closed, and how far the shutdown has come
          request,    \* how far each request has come, and the app it is at
          active      \* the app each accepted computation runs in; 0: none

clients == <<starter, check>>
tooling == <<stopping, job, tool, outcome>>
data == <<server, disk, kept>>
apps == <<app, pinned, open, missed, closing>>
work == <<request, active>>
vars == <<state, previous, admitting, clients, thread, tooling, data, apps, work>>

Busy == {"running", "applying"}

(* What last_run.json says, as the adapter hands it on.                    *)
Outcomes == [rebuilt : BOOLEAN, failure : {"none", "unexpected"}, tables : BOOLEAN,
             catalog : BOOLEAN, mismatch : BOOLEAN, drifted : BOOLEAN]
NewState == [code |-> "idle", drifted |-> FALSE, remote |-> "unknown"]
NoRecord == [rebuilt |-> FALSE, failure |-> "unexpected", tables |-> FALSE,
             catalog |-> FALSE, mismatch |-> FALSE, drifted |-> FALSE]

Init ==
  /\ state = NewState /\ previous = NewState /\ admitting = 0
  /\ starter = [s \in Starters |-> "idle"] /\ check = "idle" /\ thread = "none"
  /\ stopping = FALSE /\ job = FALSE /\ tool = "off" /\ outcome = NoRecord
  /\ server = 1 /\ disk = 1 /\ kept = {1}
  /\ app = 1 /\ pinned = [a \in 1..MaxApps |-> 1] /\ open = {1} /\ missed = 0
  /\ closing = "no"
  /\ request = [r \in Requests |-> [stage |-> "none", at |-> 0]]
  /\ active = [r \in Requests |-> 0]

(* ContainerActiveWork: what the container in use computes.                *)
ActiveWork == {r \in Requests : active[r] = app}
-----------------------------------------------------------------------------
(* Requests.  The one that starts a computation is handed to the app in    *)
(* use when it arrives; admit_work() judges it later, on another thread.   *)
Moves(r, stage) == request' = [request EXCEPT ![r].stage = stage]

Arrive(r) ==
  /\ request[r].stage = "none" /\ active[r] = 0 /\ closing = "no"
  /\ request' = [request EXCEPT ![r] = [stage |-> "arrived", at |-> app]]
  /\ UNCHANGED <<state, previous, admitting, clients, thread, tooling, data, apps, active>>

(* Mutant of Admits: it looks only for the fetch.                          *)
AdmitsWhileApplying == state.code # "running"
Admits == state.code \notin Busy

Admit(r) ==
  /\ request[r].stage = "arrived"
  /\ \/ Admits /\ admitting' = admitting + 1 /\ Moves(r, "admitted")
     \/ ~Admits /\ UNCHANGED admitting /\ Moves(r, "none")
  /\ UNCHANGED <<state, previous, clients, thread, tooling, data, apps, active>>

(* The route hands the computation to the container of its app, or rejects *)
(* it for reasons of its own; then the place is given back.                *)
Answer(r) ==
  /\ request[r].stage = "admitted" /\ Moves(r, "answered")
  /\ active' \in {active, [active EXCEPT ![r] = request[r].at]}
  /\ UNCHANGED <<state, previous, admitting, clients, thread, tooling, data, apps>>

Leave(r) ==
  /\ request[r].stage = "answered" /\ Moves(r, "none")
  /\ admitting' = admitting - 1
  /\ UNCHANGED <<state, previous, clients, thread, tooling, data, apps, active>>

WorkEnds(r) ==
  /\ active[r] # 0 /\ active' = [active EXCEPT ![r] = 0]
  /\ UNCHANGED <<state, previous, admitting, clients, thread, tooling, data, apps, request>>
-----------------------------------------------------------------------------
(* start(): status() says whether it can; then the section of the lock,    *)
(* the count, the thread.  The lock of a tool somebody else runs only      *)
(* refuses, which is no step.                                              *)
Ask(s) ==
  /\ starter[s] = "idle" /\ app < MaxApps
  /\ state.code \notin Busy /\ ActiveWork = {}
  /\ starter' = [starter EXCEPT ![s] = "asked"]
  /\ UNCHANGED <<state, previous, admitting, check, thread, tooling, data, apps, work>>

(* Mutant of Refused: a request that is being admitted does not count.     *)
RefusedOnlyBusy == state.code \in Busy
Refused == state.code \in Busy \/ admitting > 0

Enter(s) ==
  /\ starter[s] = "asked"
  /\ \/ /\ Refused
        /\ starter' = [starter EXCEPT ![s] = "idle"] /\ UNCHANGED <<state, previous>>
     \/ /\ ~Refused
        /\ previous' = state
        /\ state' = [state EXCEPT !.code = "running", !.drifted = FALSE]
        /\ starter' = [starter EXCEPT ![s] = "entered"]
  /\ UNCHANGED <<admitting, check, thread, tooling, data, apps, work>>

(* Computations accepted before RUNNING are counted now.  The count and    *)
(* the start of the thread may fail as well.                               *)
(* Mutant of GiveUp: the state stays.                                      *)
GiveUpStuck(s) ==
  /\ starter[s] = "entered" /\ starter' = [starter EXCEPT ![s] = "idle"]
  /\ previous' = NewState
  /\ UNCHANGED <<state, admitting, check, thread, tooling, data, apps, work>>
GiveUp(s) ==
  /\ starter[s] = "entered" /\ starter' = [starter EXCEPT ![s] = "idle"]
  /\ state' = previous /\ previous' = NewState
  /\ UNCHANGED <<admitting, check, thread, tooling, data, apps, work>>

Launch(s) ==
  /\ starter[s] = "entered" /\ starter' = [starter EXCEPT ![s] = "idle"]
  /\ ActiveWork = {} /\ thread' = "begun" /\ previous' = NewState
  /\ UNCHANGED <<state, admitting, check, tooling, data, apps, work>>
-----------------------------------------------------------------------------
(* check(): looks at the state, asks for a plan without the lock, stores   *)
(* the verdict into whatever state there is by then.                       *)
Plan ==
  /\ check = "idle" /\ state.code \notin Busy
  /\ check' \in {"unknown", IF server > disk THEN "behind" ELSE "up_to_date"}
  /\ UNCHANGED <<state, previous, admitting, starter, thread, tooling, data, apps, work>>

StoreCheck ==
  /\ check # "idle" /\ check' = "idle"
  /\ state' = [state EXCEPT !.remote = check]
  /\ UNCHANGED <<previous, admitting, starter, thread, tooling, data, apps, work>>
-----------------------------------------------------------------------------
(* _run() and _sync_once(): the tool is started, then known to stop().     *)
Spawn ==
  /\ thread = "begun"
  /\ \/ tool' = "started" /\ thread' = "spawned" /\ UNCHANGED outcome
     \/ outcome' = NoRecord /\ thread' = "decided" /\ UNCHANGED tool
  /\ UNCHANGED <<state, previous, admitting, clients, stopping, job, data, apps, work>>

(* Mutant of Register: without the look at the flag.                       *)
RegisterBlind ==
  /\ thread = "spawned" /\ job' = TRUE /\ thread' = "waiting"
  /\ UNCHANGED <<state, previous, admitting, clients, stopping, tool, outcome, data, apps, work>>
Register ==
  /\ thread = "spawned" /\ job' = TRUE
  /\ thread' = IF stopping THEN "cancelling" ELSE "waiting"
  /\ UNCHANGED <<state, previous, admitting, clients, stopping, tool, outcome, data, apps, work>>

(* cancel() of the job: a process that is killed leaves no record of its   *)
(* run; one that has ended is left alone.                                  *)
Runs == tool \in {"started", "fetched"}
Kill == IF Runs THEN tool' = "ended" /\ outcome' = NoRecord ELSE UNCHANGED <<tool, outcome>>

CancelAtOnce ==
  /\ thread = "cancelling" /\ thread' = "waiting" /\ Kill
  /\ UNCHANGED <<state, previous, admitting, clients, stopping, job, data, apps, work>>

Waited ==
  /\ thread = "waiting" /\ tool = "ended"
  /\ tool' = "off" /\ job' = FALSE /\ thread' = "decided"
  /\ UNCHANGED <<state, previous, admitting, clients, stopping, outcome, data, apps, work>>

classify(o) ==
  CASE o.rebuilt /\ o.failure # "none" -> "unverified"
    [] o.rebuilt /\ o.failure = "none" -> IF o.mismatch THEN "mismatch" ELSE "none"
    [] ~o.rebuilt /\ o.tables -> "tables_failed"
    [] ~o.rebuilt /\ ~o.tables -> IF o.catalog THEN "catalog" ELSE o.failure

Partial == {"tables_failed", "catalog"}

(* _finish().                                                              *)
GivesIn(failure) ==
  /\ state' = [state EXCEPT !.code = IF failure \in Partial THEN "partial" ELSE "failed"]
  /\ thread' = "none" /\ outcome' = NoRecord
  /\ UNCHANGED <<previous, admitting, clients, stopping, job, tool, data, apps, work>>

GiveIn == thread = "decided" /\ classify(outcome) # "none" /\ GivesIn(classify(outcome))

BeginApply ==
  /\ thread = "decided" /\ classify(outcome) = "none" /\ thread' = "apply"
  /\ state' = [state EXCEPT !.code = "applying", !.drifted = outcome.drifted]
  /\ UNCHANGED <<previous, admitting, clients, tooling, data, apps, work>>

(* apply(): refused while the server ends; otherwise the container is      *)
(* built outside of the event loop, which may fail, and _swap() looks      *)
(* again.  Mutant of MayApply: it does not.                                *)
MayApplyAlways == TRUE
MayApply == closing = "no"

Build ==
  /\ thread = "apply" /\ MayApply /\ app < MaxApps /\ thread' = "swap"
  /\ pinned' = [pinned EXCEPT ![app + 1] = disk]
  /\ UNCHANGED <<state, previous, admitting, clients, tooling, data, app, open, missed, closing, work>>

ApplyFails == thread \in {"apply", "swap"} /\ GivesIn("apply")

Swap ==
  /\ thread = "swap" /\ MayApply /\ thread' = "close_old"
  /\ app' = app + 1 /\ open' = open \union {app + 1} /\ missed' = 0
  /\ UNCHANGED <<state, previous, admitting, clients, tooling, data, pinned, closing, work>>

(* A closed container ends its computations.  Asked later, it takes more.  *)
Closed(a) ==
  /\ open' = open \ {a}
  /\ active' = [r \in Requests |-> IF active[r] = a THEN 0 ELSE active[r]]

CloseOld ==
  /\ thread = "close_old" /\ Closed(app - 1) /\ thread' = "report"
  /\ UNCHANGED <<state, previous, admitting, clients, tooling, data, app, pinned, missed, closing, request>>

Succeed ==
  /\ thread = "report" /\ thread' = "none" /\ outcome' = NoRecord
  /\ state' = [state EXCEPT !.code = "succeeded",
                            !.remote = IF state.drifted THEN "unknown" ELSE "up_to_date"]
  /\ UNCHANGED <<previous, admitting, clients, stopping, job, tool, data, apps, work>>
-----------------------------------------------------------------------------
(* The tool and the server.  A fetch takes the newest build, if it is new, *)
(* and keeps besides it the newest Keep - 1 of the others.                 *)
(* Mutant of Kept: one build less.                                         *)
KeptFewer == {k \in kept : Cardinality({j \in kept : j > k}) < Keep - 2}
Kept == {k \in kept : Cardinality({j \in kept : j > k}) < Keep - 1}

Fetch ==
  /\ tool = "started" /\ tool' = "fetched"
  /\ \/ disk = server /\ UNCHANGED <<data, missed>>
     \/ /\ disk < server /\ disk' = server /\ UNCHANGED server
        /\ kept' = Kept \union {server} /\ missed' = missed + 1
  /\ UNCHANGED <<state, previous, admitting, clients, thread, stopping, job, outcome, app, pinned,
                 open, closing, work>>

(* A rebuilt catalog comes after the fetch of every table.                 *)
ToolEnds ==
  /\ Runs /\ tool' = "ended"
  /\ outcome' \in {o \in Outcomes : /\ o.rebuilt => tool = "fetched" /\ ~o.tables /\ ~o.catalog
                                    /\ o.rebuilt /\ o.failure = "none" => o.drifted = (disk < server)
                                    /\ ~o.rebuilt => ~o.drifted /\ ~o.mismatch /\ (o.failure = "none" => o.tables \/ o.catalog)
                                    /\ o.failure # "none" => ~o.tables /\ ~o.catalog /\ ~o.mismatch /\ ~o.drifted}
  /\ UNCHANGED <<state, previous, admitting, clients, thread, stopping, job, data, apps, work>>

ServerCommits ==
  /\ server < MaxBuild /\ server' = server + 1
  /\ UNCHANGED <<state, previous, admitting, clients, thread, tooling, disk, kept, apps, work>>
-----------------------------------------------------------------------------
(* The shutdown: _closed on the loop, stop() in a thread, then the stack   *)
(* of the app in use.                                                      *)
Shuts(stage) == closing' = stage /\ UNCHANGED <<state, previous, admitting, clients, thread, data,
                                                app, pinned, missed, request>>

Close == closing = "no" /\ Shuts("stop") /\ UNCHANGED <<tooling, open, active>>

Stop ==
  /\ closing = "stop" /\ stopping' = TRUE
  /\ Shuts(IF job THEN "kill" ELSE "stopped")
  /\ UNCHANGED <<job, tool, outcome, open, active>>

StopKills == closing = "kill" /\ Kill /\ Shuts("stopped") /\ UNCHANGED <<stopping, job, open, active>>

CloseApp == closing = "stopped" /\ Closed(app) /\ Shuts("closed") /\ UNCHANGED tooling
-----------------------------------------------------------------------------
RequestStep(r) == Admit(r) \/ Answer(r) \/ Leave(r)
StarterStep(s) == Enter(s) \/ GiveUp(s) \/ Launch(s)
ThreadStep == Spawn \/ Register \/ CancelAtOnce \/ Waited \/ GiveIn \/ BeginApply \/ Build
              \/ ApplyFails \/ Swap \/ CloseOld \/ Succeed
ShutdownStep == Stop \/ StopKills \/ CloseApp

Next ==
  \/ \E r \in Requests : Arrive(r) \/ RequestStep(r) \/ WorkEnds(r)
  \/ \E s \in Starters : Ask(s) \/ StarterStep(s)
  \/ Plan \/ StoreCheck
  \/ ThreadStep
  \/ Fetch \/ ToolEnds \/ ServerCommits
  \/ Close \/ ShutdownStep

Spec == Init /\ [][Next]_vars

(* A start() and the thread of a refresh go on; a tool ends, at the latest *)
(* when the deadline of its job kills it (SYNC_DEADLINE_S).                *)
FairSpec == Spec /\ (\A s \in Starters : WF_vars(StarterStep(s))) /\ WF_vars(ThreadStep) /\ WF_vars(ToolEnds)
=============================================================================
