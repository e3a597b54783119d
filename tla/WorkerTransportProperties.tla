---------------------- MODULE WorkerTransportProperties ----------------------
(***************************************************************************)
(* What the worker transport promises, over WorkerTransport.               *)
(***************************************************************************)
EXTENDS WorkerTransport

(* A thread that is done leaves no process behind: the worker of a run is  *)
(* dead before its files are touched, and a spare is dead or with a run    *)
(* that is still supervised (_keep_spare(), _clean_up(), shutdown()).      *)
NoOrphan ==
  /\ \A r \in Runs : step[r] \in {"clean", "discard", "report", "tell", "over"} /\ worker[r] # 0
                       => Dead(r)
  /\ \A s \in Spares : keeper[s] \in {"refill", "over"} /\ Lives(s)
                         => \E r \in Runs : worker[r] = s

(* The worker of a run is killed only because the run was cancelled or     *)
(* given up, or because the worker broke the protocol; above all not by    *)
(* the keeper the spare was taken from.                                    *)
KilledForAReason ==
  [][\A r \in Runs : worker[r] # 0 /\ life[worker[r]] = "alive" /\ life'[worker[r]] = "struck"
       => r \in cancelled' \/ said[worker[r]] = "bad"]_vars

(* A run that was cancelled comes to its end, wherever the cancellation    *)
(* met it and although its worker may hang; so does every run, and every   *)
(* spare, once the server shuts down.                                      *)
StoppedEnds ==
  []<>(\A r \in Runs : step[r] \in {"new", "over"} \/ ~(closed \/ r \in cancelled))
  /\ []<>(closed => \A s \in Spares : keeper[s] \in {"none", "over"})

(* How far a run has come, and its outcome, as the service may see them.   *)
PhaseOf(r) == IF step[r] \in {"report", "tell"} THEN "settled"
               ELSE IF step[r] \in {"new", "over"} THEN step[r] ELSE "running"
SettledAs(r) == IF step[r] \in {"report", "tell", "over"} THEN outcome[r] ELSE "none"

Transport == INSTANCE RunTransport WITH
  phase <- [r \in Runs |-> PhaseOf(r)],
  outcome <- [r \in Runs |-> SettledAs(r)],
  asked <- cancelled,
  left <- abandoned

(* Each run ends in one outcome that is reported once, agrees with the     *)
(* cancellations and with the files, and nothing is written after it.      *)
ImplementsTransport == Transport!Spec
-----------------------------------------------------------------------------
(* The inductive invariant behind the safety properties above.             *)

(* A run is on its way to a worker, has one, or is done with it.           *)
Before == {"new", "take", "spawn"}
Working == {"refill", "register", "boot", "booted", "decide", "read"}
Done == {"clean", "discard", "report", "tell", "over"}
Phases == {"none", "spawn", "register", "boot", "wait", "close", "refill", "over"}
Outcomes == {"none", "committed", "failed", "cancelled"}

(* The types of all variables.                                             *)
TypeOK ==
  /\ closed \in BOOLEAN /\ held \in BOOLEAN /\ deferred \in BOOLEAN /\ refilling \in BOOLEAN
  /\ failures \in Nat /\ slot \in 0..MaxSpares /\ made \in 0..MaxSpares
  /\ keeper \in [Spares -> Phases]
  /\ ready \subseteq Spares /\ taken \subseteq Spares /\ left \subseteq Spares
  /\ step \in [Runs -> Before \union Working \union Done]
  /\ worker \in [Runs -> {0} \union Workers]
  /\ registered \subseteq Runs /\ cancelled \subseteq Runs /\ abandoned \subseteq Runs /\ leaving \subseteq Runs
  /\ outcome \in [Runs -> Outcomes] /\ report \in [Runs -> Outcomes]
  /\ life \in [Workers -> {"off", "alive", "struck", "dead"}]
  /\ said \in [Workers -> {"nothing", "ready", "bad", "committed", "failed"}]
  /\ jobs \subseteq Workers
  /\ files \in [Runs -> {"none", "partial", "whole"}]

(* Spares are numbered as they are made.  One is taken only from the slot, *)
(* after it booted, and is then not in the slot any more; a keeper that is *)
(* done has lost its process or handed it over.                            *)
SparesAgree ==
  /\ slot <= made
  /\ \A s \in Spares :
       /\ keeper[s] = "none" <=> made < s
       /\ keeper[s] \in {"none", "spawn"} => life[s] = "off"
       /\ s \in ready => keeper[s] \notin {"none", "spawn", "register", "boot"}
       /\ s \in taken => s \in ready /\ slot # s
       /\ keeper[s] \in {"refill", "over"} /\ Lives(s) => s \in taken

(* A worker is the worker of one run: its own, or a spare that was taken.  *)
OneRunEach ==
  /\ \A r \in Runs : worker[r] \in {0, r} \union taken
  /\ \A s \in taken : \E r \in Runs : worker[r] = s
  /\ \A p, r \in Runs : worker[p] = worker[r] /\ worker[r] # 0 => p = r

(* A run has a worker from the moment it is given one, and is done only    *)
(* when that worker is dead.                                               *)
RunsAgree ==
  \A r \in Runs :
    /\ step[r] \in Before => worker[r] = 0 /\ life[r] = "off"
    /\ step[r] \in Working => worker[r] # 0
    /\ step[r] \in Done /\ worker[r] # 0 => Dead(r)

(* Only a worker with a job says how it ended, and what it says was        *)
(* committed is there.                                                     *)
JobsAgree ==
  /\ \A w \in jobs : \E r \in Runs : worker[r] = w
  /\ \A w \in Workers : said[w] \in {"committed", "failed"} => w \in jobs
  /\ \A r \in Runs : step[r] \in Working /\ said[worker[r]] = "committed" => files[r] = "whole"

(* The outcome of a run, before and after its files were looked after.     *)
OutcomesAgree ==
  /\ \A r \in leaving : step[r] # "new"
  /\ \A r \in Runs :
       /\ step[r] = "new" => outcome[r] = "none"
       /\ step[r] \in Done \ {"over"} => outcome[r] # "none"
       /\ outcome[r] = "cancelled" => r \in cancelled
       /\ step[r] = "clean" /\ outcome[r] = "committed" => files[r] = "whole"
       /\ step[r] = "discard" => outcome[r] # "committed" \/ r \in abandoned

IndInv ==
  TypeOK /\ SparesAgree /\ OneRunEach /\ RunsAgree /\ JobsAgree /\ OutcomesAgree
=============================================================================
