--------------------------- MODULE WorkerTransport ---------------------------
(***************************************************************************)
(* adapters/outbound/run_worker_process/_execution.py: runs computed by    *)
(* worker processes, one process for each run, and the spare worker that   *)
(* is booted ahead of the next run.                                        *)
(*                                                                         *)
(* The supervisor of a run, the keeper of a spare and the shutdown are     *)
(* threads; they and the callers interleave between the sections of the    *)
(* locks and around every wait for a process.  A worker that is killed may *)
(* get a little further before it is dead.  What it prints is read in      *)
(* order and to the end, so the last thing it said stands for its lines.   *)
(***************************************************************************)
EXTENDS Integers

CONSTANTS Runs,
          Limit,      \* SPARE_FAILURE_LIMIT
          MaxSpares   \* bound: spares that are started

ASSUME TransportAssumption == Limit \in Nat \ {0} /\ MaxSpares \in Nat /\ Runs \intersect (0..MaxSpares) = {}

VARIABLES closed, held, deferred, failures,   \* _closed, _memory_held, ...
          slot,      \* _spare: the number of the spare in the slot; 0: none
          made,      \* spares started so far
          refilling, \* set_memory_hold() is about to fill the slot
          keeper,    \* how far _keep_spare() of each spare has come
          ready, taken, left,  \* spares: _Spare.ready, .taken, .left
          step,      \* how far the supervision of each run has come
          worker,    \* the worker of each run: a spare, or its own; 0: none
          registered,\* runs whose _process is set
          cancelled, abandoned,   \* runs: _cancelled, _abandoned
          leaving,   \* runs the shutdown still has to abandon
          outcome, report,        \* of each run
          life,      \* of each process: off, alive, struck, dead
          said,      \* the last thing each process said
          jobs,      \* processes that have got their job
          files      \* the directory of each run

flags == <<closed, held, deferred, failures, refilling>>
spares == <<slot, made, keeper, ready, taken, left>>
asks == <<cancelled, abandoned, leaving>>
results == <<outcome, report>>
procs == <<life, said, jobs, files>>
vars == <<flags, spares, step, worker, registered, asks, results, procs>>

Spares == 1..MaxSpares
Workers == Spares \union Runs
Booted(w) == said[w] \in {"ready", "committed", "failed"}
Lives(w) == life[w] \in {"alive", "struck"}

Init ==
  /\ closed = FALSE /\ held = FALSE /\ deferred = FALSE /\ failures = 0 /\ refilling = TRUE
  /\ slot = 0 /\ made = 0 /\ keeper = [s \in Spares |-> "none"]
  /\ ready = {} /\ taken = {} /\ left = {}
  /\ step = [r \in Runs |-> "new"] /\ worker = [r \in Runs |-> 0] /\ registered = {}
  /\ cancelled = {} /\ abandoned = {} /\ leaving = {}
  /\ outcome = [r \in Runs |-> "none"] /\ report = outcome /\ files = outcome
  /\ life = [w \in Workers |-> "off"] /\ said = [w \in Workers |-> "nothing"] /\ jobs = {}

Goes(r, at) == step' = [step EXCEPT ![r] = at]
Keeps(s, at) == keeper' = [keeper EXCEPT ![s] = at]
Kill(w) == life' = [life EXCEPT ![w] = IF @ = "alive" THEN "struck" ELSE @]
-----------------------------------------------------------------------------
(* _fill_spare(): nothing, put off, or a new spare whose thread may fail   *)
(* to start.  k: what the keepers of the other spares go on to.            *)
FillSpare(k) ==
  /\ UNCHANGED <<closed, held, failures, ready, taken, left>>
  /\ \/ /\ closed \/ slot # 0 \/ ~held   \* not wanted, or the thread does not start
        /\ keeper' = k /\ UNCHANGED <<deferred, slot, made>>
     \/ ~closed /\ slot = 0 /\ held /\ deferred' = TRUE /\ keeper' = k /\ UNCHANGED <<slot, made>>
     \/ /\ ~closed /\ slot = 0 /\ ~held /\ made < MaxSpares /\ UNCHANGED deferred
        /\ slot' = made + 1 /\ made' = made + 1 /\ keeper' = [k EXCEPT ![made + 1] = "spawn"]

(* set_memory_hold(): a release fills the slot if that had been put off.   *)
SetMemoryHold ==
  /\ ~refilling /\ held' = ~held
  /\ refilling' = (held /\ deferred) /\ deferred' = (deferred /\ ~held)
  /\ UNCHANGED <<closed, failures, spares, step, worker, registered, asks, results, procs>>

RefillAfterHold ==
  /\ refilling /\ refilling' = FALSE /\ FillSpare(keeper)
  /\ UNCHANGED <<step, worker, registered, asks, results, procs>>
-----------------------------------------------------------------------------
(* _keep_spare().                                                          *)
KeeperSpawn(s) ==
  /\ keeper[s] = "spawn"
  /\ \/ Keeps(s, "register") /\ life' = [life EXCEPT ![s] = "alive"]
     \/ Keeps(s, "close") /\ UNCHANGED life
  /\ UNCHANGED <<flags, slot, made, ready, taken, left, step, worker, registered, asks, results,
                 said, jobs, files>>

(* A spare the shutdown gave up before it knew of its process ends here.   *)
KeeperRegister(s) ==
  /\ keeper[s] = "register"
  /\ \/ slot = s /\ Keeps(s, "boot") /\ UNCHANGED life
     \/ slot # s /\ Keeps(s, "close") /\ Kill(s)
  /\ UNCHANGED <<flags, slot, made, ready, taken, left, step, worker, registered, asks, results,
                 said, jobs, files>>

(* boot() of the spare: up to its ready line, or to the end of its output. *)
KeeperBoot(s) ==
  /\ keeper[s] = "boot"
  /\ \/ /\ said[s] = "ready" /\ Keeps(s, "wait")
        /\ IF slot = s THEN ready' = ready \union {s} /\ failures' = 0 ELSE UNCHANGED <<ready, failures>>
        /\ UNCHANGED life
     \/ said[s] = "bad" /\ life[s] = "alive" /\ Kill(s) /\ UNCHANGED <<keeper, ready, failures>>
     \/ said[s] # "ready" /\ life[s] = "dead" /\ Keeps(s, "close") /\ UNCHANGED <<life, ready, failures>>
  /\ UNCHANGED <<closed, held, deferred, refilling, slot, made, taken, left, step, worker, registered,
                 asks, results, said, jobs, files>>

(* The keeper stops waiting when the spare left or died; the worker of a   *)
(* spare that was taken is not its any more.                               *)
(* Mutant of NotMine: a spare that left is always ended.                   *)
NotMineNever(s) == FALSE
NotMine(s) == s \in taken

KeeperWait(s) ==
  /\ keeper[s] = "wait" /\ (s \in left \/ life[s] = "dead")
  /\ \/ NotMine(s) /\ Keeps(s, "over") /\ UNCHANGED life
     \/ ~NotMine(s) /\ Keeps(s, "close") /\ Kill(s)
  /\ UNCHANGED <<flags, slot, made, ready, taken, left, step, worker, registered, asks, results,
                 said, jobs, files>>

(* The process has ended, if there was one; then _spare_failed(), which is *)
(* not for a spare the shutdown took out of the slot.                      *)
SpareFailed(s) ==
  /\ keeper[s] = "close" /\ ~Lives(s)
  /\ \/ slot # s /\ Keeps(s, "over") /\ UNCHANGED <<slot, failures>>
     \/ /\ slot = s /\ slot' = 0 /\ failures' = failures + 1
        /\ Keeps(s, IF failures' >= Limit THEN "over" ELSE "refill")
  /\ UNCHANGED <<closed, held, deferred, refilling, made, ready, taken, left, step, worker, registered,
                 asks, results, procs>>

KeeperRefill(s) ==
  /\ keeper[s] = "refill" /\ FillSpare([keeper EXCEPT ![s] = "over"])
  /\ UNCHANGED <<refilling, step, worker, registered, asks, results, procs>>
-----------------------------------------------------------------------------
(* start(): a handle only, or a thread of its own.                         *)
Start(r) ==
  /\ step[r] = "new" /\ Goes(r, IF closed THEN "over" ELSE "take")
  /\ UNCHANGED <<flags, spares, worker, registered, asks, results, procs>>

(* _take_spare(), and the refill that follows.                             *)
CanTake == slot \in ready /\ life[slot] # "dead"

TakeSpare(r) ==
  /\ step[r] = "take"
  /\ \/ /\ CanTake
        /\ taken' = taken \union {slot} /\ left' = left \union {slot} /\ slot' = 0
        /\ worker' = [worker EXCEPT ![r] = slot] /\ Goes(r, "refill")
     \/ /\ ~CanTake
        /\ Goes(r, "spawn") /\ UNCHANGED <<taken, left, slot, worker>>
  /\ UNCHANGED <<flags, made, keeper, ready, registered, asks, results, procs>>

(* After a spare was taken, and after an own worker booted.                *)
RunRefill(r) ==
  /\ step[r] \in {"refill", "booted"} /\ FillSpare(keeper)
  /\ Goes(r, IF step[r] = "refill" THEN "register" ELSE "decide")
  /\ UNCHANGED <<refilling, worker, registered, asks, results, procs>>

Spawn(r) ==
  /\ step[r] = "spawn"
  /\ \/ /\ life' = [life EXCEPT ![r] = "alive"] /\ worker' = [worker EXCEPT ![r] = r]
        /\ Goes(r, "register") /\ UNCHANGED outcome
     \/ outcome' = [outcome EXCEPT ![r] = "failed"] /\ Goes(r, "report") /\ UNCHANGED <<life, worker>>
  /\ UNCHANGED <<flags, spares, registered, asks, report, said, jobs, files>>

(* The process is known to cancel() from here; a cancellation that came    *)
(* before is made up for.  Mutant of Register: it is not.                  *)
AfterRegister(r) == Goes(r, IF Booted(worker[r]) THEN "decide" ELSE "boot")
RegisterBlind(r) ==
  /\ step[r] = "register" /\ registered' = registered \union {r} /\ AfterRegister(r)
  /\ UNCHANGED <<flags, spares, worker, asks, results, procs>>
Register(r) ==
  /\ step[r] = "register" /\ registered' = registered \union {r} /\ AfterRegister(r)
  /\ IF r \in cancelled THEN Kill(worker[r]) ELSE UNCHANGED life
  /\ UNCHANGED <<flags, spares, worker, asks, results, said, jobs, files>>

Dead(r) == life[worker[r]] = "dead"

Boot(r) ==
  /\ step[r] = "boot"
  /\ \/ said[r] = "ready" /\ Goes(r, "booted") /\ UNCHANGED life
     \/ said[r] = "bad" /\ life[r] = "alive" /\ Kill(r) /\ UNCHANGED step
  /\ UNCHANGED <<flags, spares, worker, registered, asks, results, said, jobs, files>>

(* The flag is looked at once more before the job is written.              *)
Decide(r) ==
  /\ step[r] = "decide" /\ Goes(r, "read")
  /\ IF r \in cancelled THEN Kill(worker[r]) /\ UNCHANGED jobs
     ELSE jobs' = jobs \union {worker[r]} /\ UNCHANGED life
  /\ UNCHANGED <<flags, spares, worker, registered, asks, results, said, files>>

(* _read_events(): a line that breaks the protocol ends the worker.        *)
ReadEvents(r) ==
  /\ step[r] = "read" /\ said[worker[r]] = "bad" /\ life[worker[r]] = "alive" /\ Kill(worker[r])
  /\ UNCHANGED <<flags, spares, step, worker, registered, asks, results, said, jobs, files>>

(* The output has ended and so has the worker.  What it said last counts   *)
(* before the cancellation (_outcome()).                                   *)
(* Mutant of Ended: the last line is enough.                               *)
EndedByLine(r) == Dead(r) \/ said[worker[r]] \in {"committed", "failed"}
Ended(r) == Dead(r)

OutcomeOf(r) ==
  LET last == said[worker[r]] IN
  IF last \in {"committed", "failed"} THEN last
  ELSE IF last # "bad" /\ r \in cancelled THEN "cancelled" ELSE "failed"

Outcome(r) ==
  /\ step[r] = "read" \/ (step[r] = "boot" /\ said[r] # "ready")
  /\ Ended(r) /\ Goes(r, "clean")
  /\ outcome' = [outcome EXCEPT ![r] = OutcomeOf(r)]
  /\ UNCHANGED <<flags, spares, worker, registered, asks, report, procs>>

(* _clean_up(): the service, not this, settles a completion against a      *)
(* cancellation.  Mutant of HandedOver: a cancelled run loses its result.  *)
HandedOverUncancelled(r) == outcome[r] = "committed" /\ r \notin cancelled
HandedOver(r) == outcome[r] = "committed" /\ r \notin abandoned

CleanUp(r) ==
  /\ step[r] = "clean" /\ Goes(r, IF HandedOver(r) THEN "report" ELSE "discard")
  /\ UNCHANGED <<flags, spares, worker, registered, asks, results, procs>>

Discard(r) ==
  /\ step[r] = "discard" /\ Goes(r, "report")
  /\ files' \in {files, [files EXCEPT ![r] = "none"]}
  /\ UNCHANGED <<flags, spares, worker, registered, asks, results, life, said, jobs>>

(* The shutdown may come between the look at _abandoned and the report.    *)
Judge(r) ==
  /\ step[r] = "report" /\ Goes(r, IF r \in abandoned THEN "over" ELSE "tell")
  /\ UNCHANGED <<flags, spares, worker, registered, asks, results, procs>>

Tell(r) ==
  /\ step[r] = "tell" /\ Goes(r, "over") /\ report' = [report EXCEPT ![r] = outcome[r]]
  /\ UNCHANGED <<flags, spares, worker, registered, asks, outcome, procs>>
-----------------------------------------------------------------------------
(* cancel(), by the service or the shutdown: the flag and the process in   *)
(* one section of the lock, and the kill, which need not take effect yet.  *)
Cancels(r) ==
  /\ cancelled' = cancelled \union {r}
  /\ IF r \in registered THEN Kill(worker[r]) ELSE UNCHANGED life

Cancel(r) ==
  /\ step[r] # "new" /\ r \notin cancelled /\ Cancels(r)
  /\ UNCHANGED <<flags, spares, step, worker, registered, abandoned, leaving, results, said, jobs, files>>

(* shutdown(), then abandon() of each run it found.                        *)
Shutdown ==
  /\ ~closed /\ closed' = TRUE
  /\ slot' = 0 /\ left' = left \union ({slot} \ {0})
  /\ IF slot # 0 /\ keeper[slot] \in {"boot", "wait", "close"} THEN Kill(slot) ELSE UNCHANGED life
  /\ leaving' = {r \in Runs : step[r] \notin {"new", "over"}}
  /\ UNCHANGED <<held, deferred, failures, refilling, made, keeper, ready, taken, step, worker, registered,
                 cancelled, abandoned, results, said, jobs, files>>

Abandon(r) ==
  /\ r \in leaving \ abandoned /\ abandoned' = abandoned \union {r}
  /\ UNCHANGED <<flags, spares, step, worker, registered, cancelled, leaving, results, procs>>

AbandonCancels(r) ==
  /\ r \in leaving \intersect abandoned /\ leaving' = leaving \ {r} /\ Cancels(r)
  /\ UNCHANGED <<flags, spares, step, worker, registered, abandoned, results, said, jobs, files>>
-----------------------------------------------------------------------------
(* The worker processes.  They go on until they are dead.                  *)
Says(w, line) == said' = [said EXCEPT ![w] = line]

WorkerBoots(w) ==
  /\ Lives(w) /\ said[w] = "nothing" /\ \E line \in {"ready", "bad"} : Says(w, line)
  /\ UNCHANGED <<flags, spares, step, worker, registered, asks, results, life, jobs, files>>

WorkerWorks(r) ==
  /\ worker[r] \in jobs /\ Lives(worker[r]) /\ said[worker[r]] = "ready"
  /\ \/ \E f \in {<<"none", "partial">>, <<"partial", "whole">>, <<"partial", "none">>} :
          files[r] = f[1] /\ files' = [files EXCEPT ![r] = f[2]] /\ UNCHANGED said
     \/ files[r] = "whole" /\ Says(worker[r], "committed") /\ UNCHANGED files
     \/ files[r] = "none" /\ Says(worker[r], "failed") /\ UNCHANGED files
  /\ UNCHANGED <<flags, spares, step, worker, registered, asks, results, life, jobs>>

(* A line out of order or not understood.                                  *)
WorkerMisspeaks(w) ==
  /\ w \in jobs /\ Lives(w) /\ said[w] # "bad" /\ Says(w, "bad")
  /\ UNCHANGED <<flags, spares, step, worker, registered, asks, results, life, jobs, files>>

WorkerDies(w) ==
  /\ Lives(w) /\ life' = [life EXCEPT ![w] = "dead"]
  /\ UNCHANGED <<flags, spares, step, worker, registered, asks, results, said, jobs, files>>

KilledDies(w) == life[w] = "struck" /\ WorkerDies(w)
-----------------------------------------------------------------------------
KeeperStep(s) == KeeperSpawn(s) \/ KeeperRegister(s) \/ KeeperBoot(s) \/ KeeperWait(s)
                 \/ SpareFailed(s) \/ KeeperRefill(s)
Supervise(r) == TakeSpare(r) \/ RunRefill(r) \/ Spawn(r) \/ Register(r) \/ Boot(r)
                \/ Decide(r) \/ ReadEvents(r) \/ Outcome(r) \/ CleanUp(r) \/ Discard(r) \/ Judge(r) \/ Tell(r)
StopStep(r) == Abandon(r) \/ AbandonCancels(r)

Next ==
  \/ SetMemoryHold \/ RefillAfterHold \/ Shutdown
  \/ \E s \in Spares : KeeperStep(s)
  \/ \E r \in Runs : Start(r) \/ Supervise(r) \/ Cancel(r) \/ StopStep(r) \/ WorkerWorks(r)
  \/ \E w \in Workers : WorkerBoots(w) \/ WorkerMisspeaks(w) \/ WorkerDies(w)

Spec == Init /\ [][Next]_vars

(* The threads go on, and a killed process dies.  A worker that is not     *)
(* killed may hang for ever.                                               *)
FairSpec ==
  /\ Spec
  /\ \A s \in Spares : WF_vars(KeeperStep(s))
  /\ \A r \in Runs : WF_vars(Supervise(r)) /\ WF_vars(StopStep(r))
  /\ \A w \in Workers : WF_vars(KilledDies(w))
=============================================================================
