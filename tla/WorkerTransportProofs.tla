------------------------ MODULE WorkerTransportProofs ------------------------
(***************************************************************************)
(* The worker transport for any runs, any number of spares and any limit   *)
(* of failures.                                                            *)
(***************************************************************************)
EXTENDS WorkerTransportProperties, TLAPS

LEMMA Bounds ==
  /\ Limit \in Nat /\ MaxSpares \in Nat /\ 0 \notin Workers
  /\ \A s \in Spares : s \notin Runs /\ s \in Nat /\ s # 0
BY TransportAssumption DEF Workers, Spares

-----------------------------------------------------------------------------
(* Frames.                                                                 *)

(* Processes only get older: none is started, and the dead stay dead.      *)
Ages ==
  /\ life' \in [Workers -> {"off", "alive", "struck", "dead"}]
  /\ \A w \in Workers : /\ life'[w] = "off" <=> life[w] = "off"
                        /\ life[w] = "dead" => life'[w] = "dead"

LEMMA KillAges == ASSUME TypeOK, NEW w, Kill(w) PROVE Ages
BY DEF TypeOK, Kill, Ages

LEMMA DeathAges == ASSUME TypeOK, NEW w \in Workers, Lives(w), life' = [life EXCEPT ![w] = "dead"] PROVE Ages
BY DEF TypeOK, Lives, Ages

LEMMA SameAges == ASSUME TypeOK, UNCHANGED life PROVE Ages
BY DEF TypeOK, Ages

LEMMA SparesKept ==
  ASSUME TypeOK, SparesAgree, Ages, UNCHANGED <<slot, made, keeper, ready, taken>>
  PROVE  SparesAgree'
<1>1. \A s \in Spares : (life[s] = "off" => life'[s] = "off") /\ (Lives(s)' => Lives(s))
  BY DEF TypeOK, Ages, Lives, Workers
<1> QED
  BY <1>1 DEF SparesAgree

LEMMA RunsKept ==
  ASSUME TypeOK, RunsAgree, Ages, UNCHANGED <<step, worker>>
  PROVE  RunsAgree'
BY DEF TypeOK, RunsAgree, Ages, Dead, Workers

LEMMA OwnersKept ==
  ASSUME OneRunEach, UNCHANGED <<worker, taken>>
  PROVE  OneRunEach'
BY DEF OneRunEach

LEMMA JobsKept ==
  ASSUME JobsAgree, UNCHANGED <<step, worker, said, jobs, files>>
  PROVE  JobsAgree'
BY DEF JobsAgree

LEMMA OutcomesKept ==
  ASSUME OutcomesAgree, UNCHANGED <<step, outcome, files, leaving>>,
         cancelled \subseteq cancelled', abandoned \subseteq abandoned'
  PROVE  OutcomesAgree'
BY DEF OutcomesAgree

(* Whatever _fill_spare() does, at most one new spare is in the slot.      *)
LEMMA FillFacts ==
  ASSUME TypeOK, NEW k \in [Spares -> Phases], FillSpare(k), slot <= made
  PROVE  /\ slot' \in 0..MaxSpares /\ made' \in 0..MaxSpares /\ keeper' \in [Spares -> Phases]
         /\ deferred' \in BOOLEAN /\ slot' <= made' /\ made <= made' /\ made' <= made + 1
         /\ slot' = slot \/ slot' = made'
         /\ \A s \in Spares : IF made < s /\ s <= made' THEN keeper'[s] = "spawn" /\ slot' = s
                              ELSE keeper'[s] = k[s] /\ (slot' = s => slot = s)
         /\ UNCHANGED <<closed, held, failures, ready, taken, left>>
<1> USE Bounds
<1>1. CASE keeper' = k /\ UNCHANGED <<slot, made>>
  <2>1. deferred' \in BOOLEAN /\ keeper' = k /\ UNCHANGED <<closed, held, failures, ready, taken, left>>
    BY <1>1 DEF TypeOK, FillSpare
  <2>2. slot' \in 0..MaxSpares /\ made' \in 0..MaxSpares /\ made' = made /\ slot' = slot
    BY <1>1 DEF TypeOK
  <2> QED
    BY <2>1, <2>2
<1>2. CASE /\ slot = 0 /\ made < MaxSpares /\ deferred' = deferred
           /\ slot' = made + 1 /\ made' = made + 1 /\ keeper' = [k EXCEPT ![made + 1] = "spawn"]
  BY <1>2 DEF TypeOK, FillSpare, Spares, Phases
<1> QED
  BY <1>1, <1>2 DEF FillSpare

(* The slot is filled by a keeper that goes on to its end, or by others.   *)
LEMMA FillSpares ==
  ASSUME TypeOK, SparesAgree, UNCHANGED life, NEW k \in [Spares -> Phases], FillSpare(k),
         \A s \in Spares : k[s] = keeper[s] \/ (k[s] = "over" /\ keeper[s] = "refill")
  PROVE  SparesAgree'
<1> USE Bounds
<1>1. slot <= made /\ slot' <= made'
  BY FillFacts DEF SparesAgree
<1>2. ASSUME NEW s \in Spares
      PROVE  /\ keeper'[s] = "none" <=> made' < s
             /\ keeper'[s] \in {"none", "spawn"} => life'[s] = "off"
             /\ s \in ready' => keeper'[s] \notin {"none", "spawn", "register", "boot"}
             /\ s \in taken' => s \in ready' /\ slot' # s
             /\ keeper'[s] \in {"refill", "over"} /\ life'[s] \in {"alive", "struck"} => s \in taken'
  <2>1. made \in Nat /\ made' \in Nat /\ s \in Nat /\ made <= made' /\ ready' = ready /\ taken' = taken
    BY <1>1, FillFacts DEF TypeOK
  <2>2. /\ keeper[s] = "none" <=> made < s
        /\ keeper[s] \in {"none", "spawn"} => life[s] = "off"
        /\ s \in ready => keeper[s] \notin {"none", "spawn", "register", "boot"}
        /\ s \in taken => s \in ready /\ slot # s
        /\ keeper[s] \in {"refill", "over"} /\ life[s] \in {"alive", "struck"} => s \in taken
    BY DEF SparesAgree, Lives
  <2>3. CASE made < s /\ s <= made'
    <3>1. keeper'[s] = "spawn"
      BY <1>1, <2>3, FillFacts
    <3> QED
      BY <2>1, <2>2, <2>3, <3>1
  <2>4. CASE ~(made < s /\ s <= made')
    <3>1. keeper'[s] = k[s] /\ (slot' = s => slot = s)
      BY <1>1, <2>4, FillFacts
    <3> QED
      BY <2>1, <2>2, <2>4, <3>1
  <2> QED
    BY <2>3, <2>4
<1> QED
  BY <1>1, <1>2 DEF SparesAgree, Lives

-----------------------------------------------------------------------------
LEMMA InitInv == Init => IndInv
<1> SUFFICES ASSUME Init PROVE IndInv
  OBVIOUS
<1> USE Bounds
<1>1. TypeOK
  <2>0. closed \in BOOLEAN /\ held \in BOOLEAN /\ deferred \in BOOLEAN /\ refilling \in BOOLEAN
    BY Zenon DEF Init
  <2>1. /\ failures \in Nat /\ slot \in 0..MaxSpares /\ made \in 0..MaxSpares
    BY DEF Init
  <2>2. /\ ready = {} /\ taken = {} /\ left = {} /\ registered = {}
        /\ cancelled = {} /\ abandoned = {} /\ leaving = {} /\ jobs = {}
    BY DEF Init
  <2>3. keeper \in [Spares -> Phases] /\ step \in [Runs -> Before \union Working \union Done]
    BY DEF Init, Phases, Before
  <2>4. /\ worker \in [Runs -> {0} \union Workers]
        /\ outcome \in [Runs -> Outcomes] /\ report \in [Runs -> Outcomes]
        /\ files \in [Runs -> {"none", "partial", "whole"}]
    BY DEF Init, Outcomes
  <2>5. /\ life \in [Workers -> {"off", "alive", "struck", "dead"}]
        /\ said \in [Workers -> {"nothing", "ready", "bad", "committed", "failed"}]
    BY DEF Init
  <2> QED
    BY <2>0, <2>1, <2>2, <2>3, <2>4, <2>5 DEF TypeOK
<1>2. SparesAgree /\ OneRunEach
  BY DEF Init, SparesAgree, OneRunEach, Lives, Spares, Workers
<1>3. RunsAgree /\ JobsAgree /\ OutcomesAgree
  BY DEF Init, RunsAgree, JobsAgree, OutcomesAgree, Before, Working, Done, Workers
<1> QED
  BY <1>1, <1>2, <1>3 DEF IndInv

(* The memory guard and the fill of the slot it put off.                   *)
LEMMA MemoryHoldInv == ASSUME IndInv, SetMemoryHold PROVE IndInv'
<1>1. TypeOK'
  BY DEF IndInv, TypeOK, SetMemoryHold, spares, asks, results, procs
<1>2. UNCHANGED <<spares, step, worker, asks, results, procs>>
  BY DEF SetMemoryHold
<1> QED
  BY <1>1, <1>2, SameAges, SparesKept, RunsKept, OwnersKept, JobsKept, OutcomesKept
  DEF IndInv, spares, asks, results, procs

LEMMA RefillInv == ASSUME IndInv, RefillAfterHold PROVE IndInv'
<1> USE Bounds DEF IndInv, RefillAfterHold
<1>1. keeper \in [Spares -> Phases] /\ slot <= made
  BY DEF TypeOK, SparesAgree
<1>2. TypeOK'
  BY <1>1, FillFacts DEF TypeOK, asks, results, procs
<1>3. SparesAgree'
  BY <1>1, FillSpares DEF procs
<1>4. taken' = taken /\ UNCHANGED <<step, worker, asks, results, procs>>
  BY <1>1, FillFacts
<1> QED
  BY <1>2, <1>3, <1>4, SameAges, RunsKept, OwnersKept, JobsKept, OutcomesKept
  DEF asks, results, procs

-----------------------------------------------------------------------------
(* The keepers of the spares.                                              *)

(* A keeper goes on: not into a state that has no process yet, and to its  *)
(* end only without a process, or with one that was taken.                 *)
LEMMA KeeperMoves ==
  ASSUME TypeOK, SparesAgree, Ages, NEW s \in Spares, NEW at \in Phases \ {"none", "spawn"},
         keeper[s] # "none", Keeps(s, at),
         s \in ready' => at \notin {"register", "boot"},
         at \in {"refill", "over"} /\ Lives(s)' => s \in taken,
         UNCHANGED <<made, taken>>, slot' \in {0, slot}, ready \subseteq ready', ready' \subseteq ready \union {s}
  PROVE  SparesAgree' /\ keeper' \in [Spares -> Phases]
<1>1. \A p \in Spares : (life[p] = "off" => life'[p] = "off") /\ (Lives(p)' => Lives(p))
  BY DEF TypeOK, Ages, Lives, Workers
<1>2. keeper' \in [Spares -> Phases]
  BY DEF TypeOK, Keeps
<1>3. \A p \in Spares : keeper'[p] = IF p = s THEN at ELSE keeper[p]
  BY DEF TypeOK, Keeps
<1>4. slot' <= made'
  BY DEF TypeOK, SparesAgree
<1>5. ASSUME NEW p \in Spares
      PROVE  /\ keeper'[p] = "none" <=> made' < p
             /\ keeper'[p] \in {"none", "spawn"} => life'[p] = "off"
             /\ p \in ready' => keeper'[p] \notin {"none", "spawn", "register", "boot"}
             /\ p \in taken' => p \in ready' /\ slot' # p
             /\ keeper'[p] \in {"refill", "over"} /\ Lives(p)' => p \in taken'
  <2>1. CASE p = s
    BY <1>1, <1>3, <2>1, Bounds DEF SparesAgree
  <2>2. CASE p # s
    BY <1>1, <1>3, <2>2, Bounds DEF SparesAgree
  <2> QED
    BY <2>1, <2>2
<1> QED
  BY <1>2, <1>4, <1>5 DEF SparesAgree

LEMMA KeeperSpawnInv == ASSUME IndInv, NEW s \in Spares, KeeperSpawn(s) PROVE IndInv'
<1> USE Bounds DEF IndInv, KeeperSpawn
<1>1. life[s] = "off" /\ s \in Workers /\ keeper[s] = "spawn" /\ s \notin taken /\ s \notin ready
  BY DEF SparesAgree, Workers
<1>2. life' \in [Workers -> {"off", "alive", "struck", "dead"}] /\ \A w \in Workers \ {s} : life'[w] = life[w]
  BY DEF TypeOK
<1>3. /\ keeper' \in [Spares -> Phases] /\ keeper'[s] \in {"register", "close"}
      /\ \A p \in Spares \ {s} : keeper'[p] = keeper[p]
  BY DEF TypeOK, Keeps, Phases
<1>4. TypeOK'
  BY <1>2, <1>3 DEF TypeOK, flags, asks, results
<1>5. SparesAgree'
  BY <1>1, <1>2, <1>3 DEF SparesAgree, Lives, Workers
<1>6. RunsAgree'
  BY <1>1, <1>2 DEF TypeOK, RunsAgree, Dead, Workers
<1> QED
  BY <1>4, <1>5, <1>6, OwnersKept, JobsKept, OutcomesKept DEF asks, results

LEMMA KeeperRegisterInv == ASSUME IndInv, NEW s \in Spares, KeeperRegister(s) PROVE IndInv'
<1> USE DEF IndInv, KeeperRegister
<1>1. Ages
  BY KillAges, SameAges
<1>2. PICK at \in {"boot", "close"} : Keeps(s, at)
  OBVIOUS
<1>3. SparesAgree' /\ keeper' \in [Spares -> Phases]
  <2>1. s \notin ready /\ keeper[s] # "none" /\ at \in Phases \ {"none", "spawn"}
    BY DEF SparesAgree, Phases
  <2> QED
    BY <1>1, <1>2, <2>1, KeeperMoves
<1>4. TypeOK'
  BY <1>1, <1>3 DEF TypeOK, Ages, flags, asks, results
<1> QED
  BY <1>1, <1>3, <1>4, RunsKept, OwnersKept, JobsKept, OutcomesKept DEF asks, results

LEMMA KeeperBootInv == ASSUME IndInv, NEW s \in Spares, KeeperBoot(s) PROVE IndInv'
<1> USE DEF IndInv, KeeperBoot
<1>1. Ages
  BY KillAges, SameAges
<1>2. SparesAgree' /\ keeper' \in [Spares -> Phases]
  <2>1. CASE UNCHANGED <<keeper, ready>>
    BY <1>1, <2>1, SparesKept DEF TypeOK
  <2>2. CASE \E at \in {"wait", "close"} : Keeps(s, at)
    <3>1. PICK at \in {"wait", "close"} : Keeps(s, at)
      BY <2>2
    <3>2. keeper[s] # "none" /\ at \in Phases \ {"none", "spawn"}
      BY DEF Phases
    <3> QED
      BY <1>1, <3>1, <3>2, KeeperMoves
  <2> QED
    BY <2>1, <2>2
<1>3. TypeOK'
  <2>1. ready' \subseteq Spares /\ failures' \in Nat
    BY DEF TypeOK
  <2> QED
    BY <1>1, <1>2, <2>1 DEF TypeOK, Ages, asks, results
<1> QED
  BY <1>1, <1>2, <1>3, RunsKept, OwnersKept, JobsKept, OutcomesKept DEF asks, results

LEMMA KeeperWaitInv == ASSUME IndInv, NEW s \in Spares, KeeperWait(s) PROVE IndInv'
<1> USE DEF IndInv, KeeperWait
<1>1. Ages
  BY KillAges, SameAges
<1>2. PICK at \in {"over", "close"} : Keeps(s, at) /\ (at = "over" => s \in taken)
  BY DEF NotMine
<1>3. SparesAgree' /\ keeper' \in [Spares -> Phases]
  <2>1. keeper[s] # "none" /\ at \in Phases \ {"none", "spawn"}
    BY DEF Phases
  <2> QED
    BY <1>1, <1>2, <2>1, KeeperMoves
<1>4. TypeOK'
  BY <1>1, <1>3 DEF TypeOK, Ages, flags, asks, results
<1> QED
  BY <1>1, <1>3, <1>4, RunsKept, OwnersKept, JobsKept, OutcomesKept DEF asks, results

LEMMA SpareFailedInv == ASSUME IndInv, NEW s \in Spares, SpareFailed(s) PROVE IndInv'
<1> USE DEF IndInv, SpareFailed
<1>1. Ages /\ ~Lives(s)'
  BY SameAges DEF procs, Lives
<1>2. PICK at \in {"over", "refill"} : Keeps(s, at)
  OBVIOUS
<1>3. slot' \in {0, slot} /\ failures' \in Nat
  BY DEF TypeOK
<1>4. SparesAgree' /\ keeper' \in [Spares -> Phases]
  <2>1. keeper[s] # "none" /\ at \in Phases \ {"none", "spawn"}
    BY DEF Phases
  <2> QED
    BY <1>1, <1>2, <1>3, <2>1, KeeperMoves
<1>5. TypeOK'
  BY <1>3, <1>4, Bounds DEF TypeOK, asks, results, procs
<1> QED
  BY <1>1, <1>4, <1>5, RunsKept, OwnersKept, JobsKept, OutcomesKept DEF asks, results, procs

LEMMA KeeperRefillInv == ASSUME IndInv, NEW s \in Spares, KeeperRefill(s) PROVE IndInv'
<1> USE Bounds DEF IndInv, KeeperRefill
<1> DEFINE k == [keeper EXCEPT ![s] = "over"]
<1>1. /\ k \in [Spares -> Phases] /\ slot <= made /\ s <= made
      /\ \A p \in Spares : k[p] = IF p = s THEN "over" ELSE keeper[p]
  BY DEF TypeOK, SparesAgree, Phases, Spares
<1>2. FillSpare(k)
  OBVIOUS
<1> HIDE DEF k
<1>3. TypeOK'
  BY <1>1, <1>2, FillFacts DEF TypeOK, asks, results, procs
<1>4. SparesAgree'
  <2>1. \A p \in Spares : k[p] = keeper[p] \/ (k[p] = "over" /\ keeper[p] = "refill")
    BY <1>1
  <2> QED
    BY <1>1, <1>2, <2>1, FillSpares DEF procs
<1>5. taken' = taken
  BY <1>1, <1>2, FillFacts
<1> QED
  BY <1>3, <1>4, <1>5, SameAges, RunsKept, OwnersKept, JobsKept, OutcomesKept
  DEF asks, results, procs

-----------------------------------------------------------------------------
(* The supervision of the runs.                                            *)

Steps == Before \union Working \union Done

LEMMA StepMoves ==
  ASSUME TypeOK, NEW r \in Runs, NEW at \in Steps, Goes(r, at)
  PROVE  step' \in [Runs -> Steps] /\ step'[r] = at /\ \A p \in Runs \ {r} : step'[p] = step[p]
BY DEF TypeOK, Goes, Steps

(* A run goes on with the worker it has, or without one.                   *)
LEMMA RunMoves ==
  ASSUME TypeOK, RunsAgree, Ages, NEW r \in Runs, NEW at \in Steps, Goes(r, at), UNCHANGED worker,
         at \in Before => step[r] \in Before,
         at \in Working => worker[r] # 0,
         at \in Done /\ worker[r] # 0 => step[r] \in Done \/ Dead(r)
  PROVE  RunsAgree'
<1> USE Bounds
<1>1. ASSUME NEW p \in Runs
      PROVE  /\ step'[p] \in Before => worker'[p] = 0 /\ life'[p] = "off"
             /\ step'[p] \in Working => worker'[p] # 0
             /\ step'[p] \in Done /\ worker'[p] # 0 => life'[worker'[p]] = "dead"
  <2>1. /\ life[p] = "off" => life'[p] = "off"
        /\ worker[p] # 0 /\ life[worker[p]] = "dead" => life'[worker[p]] = "dead"
    BY DEF TypeOK, Ages, Workers
  <2>2. CASE p = r
    BY <2>1, <2>2, StepMoves DEF RunsAgree, Dead
  <2>3. CASE p # r
    BY <2>1, <2>3, StepMoves DEF RunsAgree, Dead
  <2> QED
    BY <2>2, <2>3
<1> QED
  BY <1>1 DEF RunsAgree, Dead

LEMMA StartInv == ASSUME IndInv, NEW r \in Runs, Start(r) PROVE IndInv'
<1> USE DEF IndInv, Start
<1>1. PICK at \in {"over", "take"} : Goes(r, at)
  OBVIOUS
<1>2. at \in Steps /\ worker[r] = 0 /\ step[r] \in Before /\ at \notin Working
  BY DEF Steps, Before, Working, Done, RunsAgree
<1>3. TypeOK'
  BY <1>1, <1>2, StepMoves DEF TypeOK, Steps, flags, spares, asks, results, procs
<1>4. RunsAgree'
  BY <1>1, <1>2, SameAges, RunMoves DEF procs
<1>5. SparesAgree' /\ OneRunEach'
  BY SameAges, SparesKept, OwnersKept DEF spares, procs
<1>6. JobsAgree'
  BY <1>1, <1>2, StepMoves DEF JobsAgree, procs
<1>7. OutcomesAgree'
  BY <1>1, <1>2, StepMoves DEF TypeOK, OutcomesAgree, Done, asks, results, procs
<1> QED
  BY <1>3, <1>4, <1>5, <1>6, <1>7

LEMMA TakeSpareInv == ASSUME IndInv, NEW r \in Runs, TakeSpare(r) PROVE IndInv'
<1> USE Bounds DEF IndInv, TakeSpare
<1>0. /\ step[r] \in Before /\ worker[r] = 0 /\ life[r] = "off"
      /\ "refill" \in Steps /\ "refill" \in Working /\ "refill" \notin Done \union Before
      /\ "spawn" \in Steps /\ "spawn" \in Before /\ "spawn" \notin Working \union Done
  BY DEF RunsAgree, Steps, Before, Working, Done
<1>1. CASE /\ CanTake
           /\ taken' = taken \union {slot} /\ left' = left \union {slot} /\ slot' = 0
           /\ worker' = [worker EXCEPT ![r] = slot] /\ Goes(r, "refill")
  <2>1. /\ slot \in Spares /\ slot \in ready /\ slot # 0 /\ slot \notin taken /\ slot \in Workers
        /\ life[slot] # "dead"
    BY <1>1 DEF TypeOK, CanTake, SparesAgree, Workers
  <2>2. /\ worker' \in [Runs -> {0} \union Workers] /\ worker'[r] = slot
        /\ \A p \in Runs \ {r} : worker'[p] = worker[p] /\ worker[p] # slot
    BY <1>1, <2>1 DEF TypeOK, OneRunEach
  <2>3. TypeOK'
    BY <1>0, <1>1, <2>1, <2>2, StepMoves DEF TypeOK, Steps, flags, asks, results, procs
  <2>4. SparesAgree'
    BY <1>1, <2>1 DEF TypeOK, SparesAgree, Lives, procs
  <2>5. OneRunEach'
    <3>1. \A p \in Runs : worker'[p] \in {0, p} \union taken'
      BY <1>1, <2>2 DEF OneRunEach
    <3>2. \A s \in taken' : \E p \in Runs : worker'[p] = s
      <4>1. \A s \in taken : \E p \in Runs : worker[p] = s /\ p # r
        BY <1>0 DEF TypeOK, OneRunEach
      <4> QED
        BY <1>1, <2>2, <4>1
    <3>3. \A p, q \in Runs : worker'[p] = worker'[q] /\ worker'[p] # 0 => p = q
      BY <2>2 DEF OneRunEach
    <3> QED
      BY <3>1, <3>2, <3>3 DEF OneRunEach
  <2>6. RunsAgree'
    BY <1>0, <1>1, <2>1, <2>2, StepMoves DEF RunsAgree, Dead, procs
  <2>7. JobsAgree'
    <3>1. \A w \in jobs : w # slot /\ \E p \in Runs : worker[p] = w /\ p # r
      BY <1>0, <2>1, <2>2 DEF TypeOK, JobsAgree
    <3>2. \A w \in jobs' : \E p \in Runs : worker'[p] = w
      BY <2>2, <3>1 DEF procs
    <3>3. \A p \in Runs : step'[p] \in Working /\ said[worker'[p]] = "committed" => files[p] = "whole"
      BY <1>0, <1>1, <2>1, <2>2, <3>1, StepMoves DEF JobsAgree
    <3> QED
      BY <3>2, <3>3 DEF JobsAgree, procs
  <2>8. OutcomesAgree'
    BY <1>0, <1>1, StepMoves DEF TypeOK, OutcomesAgree, Done, asks, results, procs
  <2> QED
    BY <2>3, <2>4, <2>5, <2>6, <2>7, <2>8
<1>2. CASE Goes(r, "spawn") /\ UNCHANGED <<taken, left, slot, worker>>
  <2>1. TypeOK'
    BY <1>0, <1>2, StepMoves DEF TypeOK, Steps, flags, asks, results, procs
  <2>2. RunsAgree'
    BY <1>0, <1>2, SameAges, RunMoves DEF procs
  <2>3. SparesAgree' /\ OneRunEach'
    BY <1>2, SameAges, SparesKept, OwnersKept DEF procs
  <2>4. JobsAgree'
    BY <1>0, <1>2, StepMoves DEF JobsAgree, procs
  <2>5. OutcomesAgree'
    BY <1>0, <1>2, StepMoves DEF TypeOK, OutcomesAgree, Done, asks, results, procs
  <2> QED
    BY <2>1, <2>2, <2>3, <2>4, <2>5
<1> QED
  BY <1>1, <1>2

LEMMA RunRefillInv == ASSUME IndInv, NEW r \in Runs, RunRefill(r) PROVE IndInv'
<1> USE Bounds DEF IndInv, RunRefill
<1>1. PICK at \in {"register", "decide"} : Goes(r, at)
  OBVIOUS
<1>2. /\ at \in Steps /\ step[r] \in Working /\ at \in Working /\ at \notin Before \union Done
      /\ worker[r] # 0 /\ at # "new"
  BY DEF RunsAgree, Steps, Before, Working, Done
<1>3. keeper \in [Spares -> Phases] /\ slot <= made
  BY DEF TypeOK, SparesAgree
<1>4. TypeOK'
  BY <1>1, <1>2, <1>3, StepMoves, FillFacts DEF TypeOK, Steps, asks, results, procs
<1>5. SparesAgree'
  BY <1>3, FillSpares DEF procs
<1>6. RunsAgree'
  BY <1>1, <1>2, SameAges, RunMoves DEF procs
<1>7. OneRunEach'
  BY <1>3, FillFacts, OwnersKept
<1>8. JobsAgree'
  BY <1>1, <1>2, StepMoves DEF JobsAgree, procs
<1>9. OutcomesAgree'
  BY <1>1, <1>2, StepMoves DEF TypeOK, OutcomesAgree, Done, asks, results, procs
<1> QED
  BY <1>4, <1>5, <1>6, <1>7, <1>8, <1>9

LEMMA SpawnInv == ASSUME IndInv, NEW r \in Runs, Spawn(r) PROVE IndInv'
<1> USE Bounds DEF IndInv, Spawn
<1>0. /\ step[r] \in Before /\ worker[r] = 0 /\ life[r] = "off" /\ r \in Workers /\ r \notin Spares /\ r # 0
      /\ "register" \in Steps /\ "register" \in Working /\ "register" \notin Done \union Before
      /\ "report" \in Steps /\ "report" \in Done /\ "report" \notin Working \union Before
  BY DEF RunsAgree, Steps, Before, Working, Done, Workers
<1>1. CASE /\ life' = [life EXCEPT ![r] = "alive"] /\ worker' = [worker EXCEPT ![r] = r]
           /\ Goes(r, "register") /\ UNCHANGED outcome
  <2>1. /\ life' \in [Workers -> {"off", "alive", "struck", "dead"}] /\ life'[r] = "alive"
        /\ \A w \in Workers \ {r} : life'[w] = life[w]
    BY <1>1, <1>0 DEF TypeOK
  <2>2. /\ worker' \in [Runs -> {0} \union Workers] /\ worker'[r] = r
        /\ \A p \in Runs \ {r} : worker'[p] = worker[p] /\ worker[p] # r
    BY <1>1, <1>0 DEF TypeOK, OneRunEach
  <2>3. TypeOK'
    BY <1>0, <1>1, <2>1, <2>2, StepMoves DEF TypeOK, Steps, flags, spares, asks
  <2>4. SparesAgree'
    BY <1>0, <2>1 DEF SparesAgree, Lives, Workers, spares
  <2>5. OneRunEach'
    BY <1>0, <2>2 DEF TypeOK, OneRunEach, spares
  <2>6. RunsAgree'
    BY <1>0, <1>1, <2>1, <2>2, StepMoves DEF TypeOK, RunsAgree, Dead, Workers
  <2>7. JobsAgree'
    <3>1. \A w \in jobs : w # r /\ \E p \in Runs : worker[p] = w /\ p # r
      BY <1>0, <2>2 DEF TypeOK, JobsAgree
    <3>2. \A w \in jobs' : \E p \in Runs : worker'[p] = w
      BY <2>2, <3>1
    <3>3. \A p \in Runs : step'[p] \in Working /\ said[worker'[p]] = "committed" => files[p] = "whole"
      BY <1>0, <1>1, <2>2, <3>1, StepMoves DEF JobsAgree
    <3> QED
      BY <3>2, <3>3 DEF JobsAgree
  <2>8. OutcomesAgree'
    BY <1>0, <1>1, StepMoves DEF TypeOK, OutcomesAgree, Done, asks
  <2> QED
    BY <2>3, <2>4, <2>5, <2>6, <2>7, <2>8
<1>2. CASE outcome' = [outcome EXCEPT ![r] = "failed"] /\ Goes(r, "report") /\ UNCHANGED <<life, worker>>
  <2>1. outcome' \in [Runs -> Outcomes] /\ outcome'[r] = "failed" /\ \A p \in Runs \ {r} : outcome'[p] = outcome[p]
    BY <1>2 DEF TypeOK, Outcomes
  <2>2. TypeOK'
    BY <1>0, <1>2, <2>1, StepMoves DEF TypeOK, Steps, flags, spares, asks
  <2>3. RunsAgree'
    BY <1>0, <1>2, SameAges, RunMoves
  <2>4. SparesAgree' /\ OneRunEach'
    BY <1>2, SameAges, SparesKept, OwnersKept DEF spares
  <2>5. JobsAgree'
    BY <1>0, <1>2, StepMoves DEF JobsAgree
  <2>6. OutcomesAgree'
    BY <1>0, <1>2, <2>1, StepMoves DEF TypeOK, OutcomesAgree, Done, asks
  <2> QED
    BY <2>2, <2>3, <2>4, <2>5, <2>6
<1> QED
  BY <1>1, <1>2

(* The supervisor goes on with its worker, or only ends a process.         *)
LEMMA GoesOnInv ==
  ASSUME IndInv, NEW r \in Runs, NEW at \in Working, Goes(r, at), step[r] \in Working, Ages,
         registered' \subseteq Runs, jobs' = jobs \/ jobs' = jobs \union {worker[r]},
         UNCHANGED <<flags, spares, worker, asks, results, said, files>>
  PROVE  IndInv'
<1> USE DEF IndInv
<1>1. at \in Steps /\ at \notin Before /\ at \notin Done /\ at # "new" /\ worker[r] # 0 /\ worker[r] \in Workers
  BY DEF TypeOK, RunsAgree, Steps, Before, Working, Done
<1>2. TypeOK'
  BY <1>1, StepMoves DEF TypeOK, Steps, Ages, flags, spares, asks, results
<1>3. RunsAgree'
  BY <1>1, RunMoves
<1>4. SparesAgree' /\ OneRunEach'
  BY SparesKept, OwnersKept DEF spares
<1>5. JobsAgree'
  <2>1. \A w \in jobs' : \E p \in Runs : worker'[p] = w
    BY DEF JobsAgree
  <2>2. \A p \in Runs : step'[p] \in Working /\ said[worker[p]] = "committed" => files[p] = "whole"
    BY <1>1, StepMoves DEF JobsAgree
  <2> QED
    BY <2>1, <2>2 DEF JobsAgree
<1>6. OutcomesAgree'
  BY <1>1, StepMoves DEF TypeOK, OutcomesAgree, Done, Working, asks, results
<1> QED
  BY <1>2, <1>3, <1>4, <1>5, <1>6

LEMMA OnlyAgesInv ==
  ASSUME IndInv, Ages, cancelled \subseteq cancelled', cancelled' \subseteq Runs,
         abandoned \subseteq abandoned', abandoned' \subseteq Runs, leaving' \subseteq leaving,
         UNCHANGED <<flags, spares, step, worker, registered, results, said, jobs, files>>
  PROVE  IndInv'
<1> USE DEF IndInv
<1>1. TypeOK'
  BY DEF TypeOK, Ages, flags, spares, results
<1>2. OutcomesAgree'
  BY DEF OutcomesAgree, results
<1> QED
  BY <1>1, <1>2, SparesKept, OwnersKept, RunsKept, JobsKept DEF spares

LEMMA RegisterInv == ASSUME IndInv, NEW r \in Runs, Register(r) PROVE IndInv'
<1>1. Ages
  BY KillAges, SameAges DEF Register, IndInv
<1>2. PICK at \in {"decide", "boot"} : Goes(r, at)
  BY DEF Register, AfterRegister
<1>3. step[r] \in Working /\ at \in Working /\ registered' \subseteq Runs
  BY DEF Working, Register, IndInv, TypeOK
<1> QED
  BY <1>1, <1>2, <1>3, GoesOnInv DEF Register

LEMMA BootInv == ASSUME IndInv, NEW r \in Runs, Boot(r) PROVE IndInv'
<1>1. Ages
  BY KillAges, SameAges DEF Boot, IndInv
<1>2. CASE Goes(r, "booted")
  <2>1. step[r] \in Working /\ "booted" \in Working /\ registered' \subseteq Runs
    BY DEF Working, Boot, IndInv, TypeOK
  <2> QED
    BY <1>1, <1>2, <2>1, GoesOnInv DEF Boot
<1>3. CASE UNCHANGED step
  BY <1>1, <1>3, OnlyAgesInv DEF Boot, IndInv, TypeOK, asks
<1> QED
  BY <1>2, <1>3 DEF Boot

LEMMA DecideInv == ASSUME IndInv, NEW r \in Runs, Decide(r) PROVE IndInv'
<1>1. Ages
  BY KillAges, SameAges DEF Decide, IndInv
<1>2. step[r] \in Working /\ "read" \in Working /\ registered' \subseteq Runs
  BY DEF Working, Decide, IndInv, TypeOK
<1> QED
  BY <1>1, <1>2, GoesOnInv DEF Decide

LEMMA ReadEventsInv == ASSUME IndInv, NEW r \in Runs, ReadEvents(r) PROVE IndInv'
<1>1. Ages
  BY KillAges DEF ReadEvents, IndInv
<1> QED
  BY <1>1, OnlyAgesInv DEF ReadEvents, IndInv, TypeOK, asks

(* The requests to stop, and a process that dies by itself.                *)
LEMMA CancelInv == ASSUME IndInv, NEW r \in Runs, Cancel(r) PROVE IndInv'
<1>1. Ages
  BY KillAges, SameAges DEF Cancel, Cancels, IndInv
<1> QED
  BY <1>1, OnlyAgesInv DEF Cancel, Cancels, IndInv, TypeOK

LEMMA StopStepInv == ASSUME IndInv, NEW r \in Runs, StopStep(r) PROVE IndInv'
<1>1. CASE Abandon(r)
  BY <1>1, SameAges, OnlyAgesInv DEF Abandon, IndInv, TypeOK, procs
<1>2. CASE AbandonCancels(r)
  <2>1. Ages
    BY <1>2, KillAges, SameAges DEF AbandonCancels, Cancels, IndInv
  <2> QED
    BY <1>2, <2>1, OnlyAgesInv DEF AbandonCancels, Cancels, IndInv, TypeOK
<1> QED
  BY <1>1, <1>2 DEF StopStep

LEMMA WorkerDiesInv == ASSUME IndInv, NEW w \in Workers, WorkerDies(w) PROVE IndInv'
<1>1. Ages
  BY DeathAges DEF WorkerDies, IndInv
<1> QED
  BY <1>1, OnlyAgesInv DEF WorkerDies, IndInv, TypeOK, asks

-----------------------------------------------------------------------------
(* The end of a run.                                                       *)

LEMMA OutcomeInv == ASSUME IndInv, NEW r \in Runs, Outcome(r) PROVE IndInv'
<1> USE Bounds DEF IndInv, Outcome
<1>1. /\ Goes(r, "clean") /\ Dead(r) /\ "clean" \in Steps /\ "clean" \in Done
      /\ "clean" \notin Working /\ "clean" \notin Before
      /\ step[r] \in Working /\ worker[r] # 0 /\ worker[r] \in Workers
  BY DEF TypeOK, RunsAgree, Ended, Steps, Before, Working, Done
<1>2. /\ OutcomeOf(r) \in Outcomes \ {"none"}
      /\ OutcomeOf(r) = "cancelled" => r \in cancelled
      /\ OutcomeOf(r) = "committed" => files[r] = "whole"
  BY <1>1 DEF OutcomeOf, Outcomes, JobsAgree
<1>3. /\ outcome' \in [Runs -> Outcomes] /\ outcome'[r] = OutcomeOf(r)
      /\ \A p \in Runs \ {r} : outcome'[p] = outcome[p]
  BY <1>2 DEF TypeOK
<1>4. TypeOK'
  BY <1>1, <1>3, StepMoves DEF TypeOK, Steps, flags, spares, asks, procs
<1>5. RunsAgree'
  BY <1>1, SameAges, RunMoves DEF procs
<1>6. SparesAgree' /\ OneRunEach'
  BY SameAges, SparesKept, OwnersKept DEF spares, procs
<1>7. JobsAgree'
  BY <1>1, StepMoves DEF JobsAgree, procs
<1>8. OutcomesAgree'
  BY <1>1, <1>2, <1>3, StepMoves DEF TypeOK, OutcomesAgree, asks, procs
<1> QED
  BY <1>4, <1>5, <1>6, <1>7, <1>8

(* From clean to over; the files of a run may go when it is discarded.     *)
LEMMA EndsInv ==
  ASSUME IndInv, NEW r \in Runs, NEW at \in Done \ {"clean"}, Goes(r, at), step[r] \in Done \ {"over"},
         at = "discard" => outcome[r] # "committed" \/ r \in abandoned,
         UNCHANGED <<flags, spares, worker, registered, asks, outcome, life, said, jobs>>,
         report' \in [Runs -> Outcomes],
         files' \in [Runs -> {"none", "partial", "whole"}],
         \A p \in Runs \ {r} : files'[p] = files[p]
  PROVE  IndInv'
<1> USE Bounds DEF IndInv
<1>1. at \in Steps /\ at \notin Before /\ at \notin Working /\ at # "new" /\ at # "clean"
  BY DEF Steps, Before, Working, Done
<1>2. TypeOK'
  BY <1>1, StepMoves DEF TypeOK, Steps, flags, spares, asks
<1>3. RunsAgree'
  BY <1>1, SameAges, RunMoves
<1>4. SparesAgree' /\ OneRunEach'
  BY SameAges, SparesKept, OwnersKept DEF spares
<1>5. JobsAgree'
  <2>1. \A p \in Runs : step'[p] \in Working => p # r /\ step'[p] = step[p] /\ files'[p] = files[p]
    BY <1>1, StepMoves
  <2> QED
    BY <2>1 DEF JobsAgree
<1>6. OutcomesAgree'
  BY <1>1, StepMoves DEF TypeOK, OutcomesAgree, asks
<1> QED
  BY <1>2, <1>3, <1>4, <1>5, <1>6

LEMMA CleanUpInv == ASSUME IndInv, NEW r \in Runs, CleanUp(r) PROVE IndInv'
<1>1. PICK at \in {"report", "discard"} :
        Goes(r, at) /\ (at = "discard" => outcome[r] # "committed" \/ r \in abandoned)
  BY DEF CleanUp, HandedOver
<1>2. at \in Done \ {"clean"} /\ step[r] \in Done \ {"over"}
  BY DEF CleanUp, Done
<1> QED
  BY <1>1, <1>2, EndsInv DEF CleanUp, IndInv, TypeOK, results, procs

LEMMA DiscardInv == ASSUME IndInv, NEW r \in Runs, Discard(r) PROVE IndInv'
<1>1. Goes(r, "report") /\ "report" \in Done \ {"clean"} /\ step[r] \in Done \ {"over"} /\ "report" # "discard"
  BY DEF Discard, Done
<1>2. files' \in [Runs -> {"none", "partial", "whole"}] /\ \A p \in Runs \ {r} : files'[p] = files[p]
  BY DEF Discard, IndInv, TypeOK
<1> QED
  BY <1>1, <1>2, EndsInv DEF Discard, IndInv, TypeOK, results

LEMMA JudgeInv == ASSUME IndInv, NEW r \in Runs, Judge(r) PROVE IndInv'
<1>1. PICK at \in {"over", "tell"} : Goes(r, at)
  BY DEF Judge
<1>2. at \in Done \ {"clean"} /\ step[r] \in Done \ {"over"} /\ at # "discard"
  BY DEF Judge, Done
<1> QED
  BY <1>1, <1>2, EndsInv DEF Judge, IndInv, TypeOK, results, procs

LEMMA TellInv == ASSUME IndInv, NEW r \in Runs, Tell(r) PROVE IndInv'
<1>1. Goes(r, "over") /\ "over" \in Done \ {"clean"} /\ step[r] \in Done \ {"over"} /\ "over" # "discard"
  BY DEF Tell, Done
<1>2. report' \in [Runs -> Outcomes]
  BY DEF Tell, IndInv, TypeOK
<1> QED
  BY <1>1, <1>2, EndsInv DEF Tell, IndInv, TypeOK, procs

LEMMA ShutdownInv == ASSUME IndInv, Shutdown PROVE IndInv'
<1> USE Bounds DEF IndInv, Shutdown
<1>1. Ages
  BY KillAges, SameAges
<1>2. slot' = 0 /\ left' \subseteq Spares /\ leaving' \subseteq Runs
  BY DEF TypeOK, Spares
<1>3. TypeOK'
  BY <1>1, <1>2 DEF TypeOK, Ages, results
<1>4. SparesAgree'
  <2>1. \A s \in Spares : (life[s] = "off" => life'[s] = "off") /\ (Lives(s)' => Lives(s)) /\ slot' # s
    BY <1>1, <1>2 DEF TypeOK, Ages, Lives, Workers
  <2>2. slot' <= made'
    BY <1>2 DEF TypeOK
  <2> QED
    BY <2>1, <2>2 DEF SparesAgree
<1>5. OutcomesAgree'
  BY DEF OutcomesAgree, results
<1> QED
  BY <1>1, <1>3, <1>4, <1>5, OwnersKept, RunsKept, JobsKept

-----------------------------------------------------------------------------
(* The worker processes.                                                   *)

(* A worker says something, and only its own run's files change.           *)
LEMMA SpeaksInv ==
  ASSUME IndInv,
         UNCHANGED <<flags, spares, step, worker, registered, asks, results, life, jobs>>,
         said' \in [Workers -> {"nothing", "ready", "bad", "committed", "failed"}],
         files' \in [Runs -> {"none", "partial", "whole"}],
         \A w \in Workers : said'[w] \in {"committed", "failed"} => w \in jobs,
         \A r \in Runs : step[r] \in Working /\ said'[worker[r]] = "committed" => files'[r] = "whole",
         \A r \in Runs : files'[r] = files[r] \/ step[r] \in Working
  PROVE  IndInv'
<1> USE DEF IndInv
<1>1. TypeOK'
  BY DEF TypeOK, flags, spares, asks, results
<1>2. JobsAgree'
  BY DEF JobsAgree
<1>3. OutcomesAgree'
  <2>1. \A r \in Runs : step[r] = "clean" => files'[r] = files[r]
    BY DEF Working
  <2> QED
    BY <2>1 DEF OutcomesAgree, asks, results
<1> QED
  BY <1>1, <1>2, <1>3, SameAges, SparesKept, OwnersKept, RunsKept DEF spares

LEMMA WorkerBootsInv == ASSUME IndInv, NEW w \in Workers, WorkerBoots(w) PROVE IndInv'
<1> USE DEF IndInv, WorkerBoots
<1>1. PICK line \in {"ready", "bad"} : Says(w, line)
  OBVIOUS
<1>2. /\ said' \in [Workers -> {"nothing", "ready", "bad", "committed", "failed"}] /\ said'[w] = line
      /\ \A v \in Workers \ {w} : said'[v] = said[v]
  BY <1>1 DEF TypeOK, Says
<1>3. \A r \in Runs : step[r] \in Working => worker[r] \in Workers
  BY DEF TypeOK, RunsAgree
<1>4. \A r \in Runs : step[r] \in Working /\ said'[worker[r]] = "committed" => files'[r] = "whole"
  BY <1>2, <1>3 DEF JobsAgree
<1> QED
  BY <1>2, <1>4, SpeaksInv DEF TypeOK, JobsAgree

LEMMA WorkerMisspeaksInv == ASSUME IndInv, NEW w \in Workers, WorkerMisspeaks(w) PROVE IndInv'
<1> USE DEF IndInv, WorkerMisspeaks
<1>1. /\ said' \in [Workers -> {"nothing", "ready", "bad", "committed", "failed"}] /\ said'[w] = "bad"
      /\ \A v \in Workers \ {w} : said'[v] = said[v]
  BY DEF TypeOK, Says
<1>2. \A r \in Runs : step[r] \in Working => worker[r] \in Workers
  BY DEF TypeOK, RunsAgree
<1>3. \A r \in Runs : step[r] \in Working /\ said'[worker[r]] = "committed" => files'[r] = "whole"
  BY <1>1, <1>2 DEF JobsAgree
<1> QED
  BY <1>1, <1>3, SpeaksInv DEF TypeOK, JobsAgree

(* A worker that has its job lives only as long as its run is supervised.  *)
LEMMA WorksForOne ==
  ASSUME IndInv, NEW r \in Runs, WorkerWorks(r)
  PROVE  /\ step[r] \in Working /\ worker[r] \in Workers
         /\ \A p \in Runs : step[p] \in Working /\ worker[p] = worker[r] => p = r
<1> USE Bounds DEF IndInv, WorkerWorks
<1>1. worker[r] \in Workers /\ worker[r] # 0
  BY DEF TypeOK
<1>2. step[r] \in Working
  BY <1>1 DEF TypeOK, RunsAgree, Dead, Lives
<1> QED
  BY <1>1, <1>2 DEF OneRunEach

LEMMA WorkerWorksInv == ASSUME IndInv, NEW r \in Runs, WorkerWorks(r) PROVE IndInv'
<1> USE DEF IndInv, WorkerWorks
<1>1. CASE /\ \E f \in {<<"none", "partial">>, <<"partial", "whole">>, <<"partial", "none">>} :
                files[r] = f[1] /\ files' = [files EXCEPT ![r] = f[2]]
           /\ UNCHANGED said
  <2>0. \A f \in {<<"none", "partial">>, <<"partial", "whole">>, <<"partial", "none">>} :
          f[2] \in {"none", "partial", "whole"}
    OBVIOUS
  <2>1. PICK g \in {"none", "partial", "whole"} : files' = [files EXCEPT ![r] = g]
    <3>1. PICK f \in {<<"none", "partial">>, <<"partial", "whole">>, <<"partial", "none">>} :
            files' = [files EXCEPT ![r] = f[2]]
      BY <1>1
    <3> WITNESS f[2] \in {"none", "partial", "whole"}
    <3> QED
      BY <3>1
  <2>2. files' \in [Runs -> {"none", "partial", "whole"}] /\ \A p \in Runs \ {r} : files'[p] = files[p]
    BY <2>1 DEF TypeOK
  <2>3. \A p \in Runs : step[p] \in Working /\ said'[worker[p]] = "committed" => files'[p] = "whole"
    BY <1>1, <2>2 DEF JobsAgree
  <2>4. /\ \A w \in Workers : said'[w] \in {"committed", "failed"} => w \in jobs
        /\ \A p \in Runs : files'[p] = files[p] \/ step[p] \in Working
    BY <1>1, <2>2, WorksForOne DEF JobsAgree
  <2> QED
    BY <1>1, <2>2, <2>3, <2>4, SpeaksInv DEF TypeOK
<1>2. CASE /\ UNCHANGED files
           /\ \E line \in {"committed", "failed"} :
                Says(worker[r], line) /\ (line = "committed" => files[r] = "whole")
  <2>1. PICK line \in {"committed", "failed"} :
          Says(worker[r], line) /\ (line = "committed" => files[r] = "whole")
    BY <1>2
  <2>2. /\ said' \in [Workers -> {"nothing", "ready", "bad", "committed", "failed"}] /\ said'[worker[r]] = line
        /\ \A v \in Workers \ {worker[r]} : said'[v] = said[v]
    BY <2>1, WorksForOne DEF TypeOK, Says
  <2>3. \A p \in Runs : step[p] \in Working /\ said'[worker[p]] = "committed" => files'[p] = "whole"
    <3>1. \A p \in Runs \ {r} : step[p] \in Working => worker[p] \in Workers \ {worker[r]}
      BY WorksForOne DEF TypeOK, RunsAgree
    <3> QED
      BY <1>2, <2>1, <2>2, <3>1 DEF JobsAgree
  <2>4. /\ \A w \in Workers : said'[w] \in {"committed", "failed"} => w \in jobs
        /\ \A p \in Runs : files'[p] = files[p]
    BY <1>2, <2>2 DEF JobsAgree
  <2> QED
    BY <1>2, <2>2, <2>3, <2>4, SpeaksInv DEF TypeOK
<1> QED
  BY <1>1, <1>2

-----------------------------------------------------------------------------
(* The theorems.                                                           *)

LEMMA KeeperStepInv == ASSUME IndInv, NEW s \in Spares, KeeperStep(s) PROVE IndInv'
BY KeeperSpawnInv, KeeperRegisterInv, KeeperBootInv, KeeperWaitInv, SpareFailedInv, KeeperRefillInv
DEF KeeperStep

LEMMA SuperviseInv == ASSUME IndInv, NEW r \in Runs, Supervise(r) PROVE IndInv'
BY TakeSpareInv, RunRefillInv, SpawnInv, RegisterInv, BootInv, DecideInv, ReadEventsInv, OutcomeInv,
   CleanUpInv, DiscardInv, JudgeInv, TellInv
DEF Supervise

LEMMA StutterInv == ASSUME IndInv, UNCHANGED vars PROVE IndInv'
BY SameAges, OnlyAgesInv DEF IndInv, TypeOK, vars, asks, procs

LEMMA NextInv == IndInv /\ [Next]_vars => IndInv'
<1> SUFFICES ASSUME IndInv, [Next]_vars PROVE IndInv'
  OBVIOUS
<1>1. CASE SetMemoryHold \/ RefillAfterHold \/ Shutdown
  BY <1>1, MemoryHoldInv, RefillInv, ShutdownInv
<1>2. CASE \E s \in Spares : KeeperStep(s)
  BY <1>2, KeeperStepInv
<1>3. CASE \E r \in Runs : Start(r) \/ Supervise(r) \/ Cancel(r) \/ StopStep(r) \/ WorkerWorks(r)
  BY <1>3, StartInv, SuperviseInv, CancelInv, StopStepInv, WorkerWorksInv
<1>4. CASE \E w \in Workers : WorkerBoots(w) \/ WorkerMisspeaks(w) \/ WorkerDies(w)
  BY <1>4, WorkerBootsInv, WorkerMisspeaksInv, WorkerDiesInv
<1>5. CASE UNCHANGED vars
  BY <1>5, StutterInv
<1> QED
  BY <1>1, <1>2, <1>3, <1>4, <1>5 DEF Next

(* The inductive invariant: spares, runs, their workers, jobs and outcomes *)
(* agree, whatever the threads and the processes do in which order.        *)
THEOREM Invariance == Spec => []IndInv
<1>1. Init => IndInv
  BY InitInv
<1>2. IndInv /\ [Next]_vars => IndInv'
  BY NextInv
<1> QED
  BY <1>1, <1>2, PTL DEF Spec

(* Every variable of the worker transport keeps its type.                  *)
THEOREM TypeCorrect == Spec => []TypeOK
<1>1. IndInv => TypeOK
  BY DEF IndInv
<1> QED
  BY <1>1, Invariance, PTL

(* No thread of the transport that is done leaves a process behind: the    *)
(* worker of a run is dead before _clean_up() touches its files, and a     *)
(* keeper is done only when its process is dead or is a run's.             *)
THEOREM NoProcessIsLeft == Spec => []NoOrphan
<1>1. IndInv => NoOrphan
  BY DEF IndInv, NoOrphan, RunsAgree, SparesAgree, OneRunEach, Done
<1> QED
  BY <1>1, Invariance, PTL

-----------------------------------------------------------------------------
(* Who is killed.                                                          *)

Reason(r) == r \in cancelled' \/ said[worker[r]] = "bad"

(* The worker of run r is killed in this step.                             *)
Killed(r) == worker[r] # 0 /\ life[worker[r]] = "alive" /\ life'[worker[r]] = "struck"

(* A step that strikes one process at most.                                *)
LEMMA KillsOne ==
  ASSUME TypeOK, NEW w, Kill(w), NEW r \in Runs, Killed(r)
  PROVE  worker[r] = w
BY DEF TypeOK, Kill, Killed, Workers

LEMMA KeeperKills ==
  ASSUME IndInv, NEW s \in Spares, KeeperStep(s), NEW r \in Runs, Killed(r)
  PROVE  Reason(r)
<1> USE DEF IndInv
<1>1. worker[r] \in {r} \union taken /\ (worker[r] = s => s \in taken)
  BY Bounds DEF TypeOK, OneRunEach, Killed
<1>2. CASE KeeperSpawn(s)
  BY <1>1, <1>2, Bounds DEF KeeperSpawn, Killed, TypeOK, Workers
<1>3. CASE KeeperRegister(s)
  <2>1. s \notin taken
    BY <1>3 DEF KeeperRegister, SparesAgree
  <2> QED
    BY <1>1, <1>3, <2>1, KillsOne DEF KeeperRegister, Killed
<1>4. CASE KeeperBoot(s)
  <2>1. s \notin taken
    BY <1>4 DEF KeeperBoot, SparesAgree
  <2> QED
    BY <1>1, <1>4, <2>1, KillsOne DEF KeeperBoot, Killed
<1>5. CASE KeeperWait(s)
  BY <1>1, <1>5, KillsOne DEF KeeperWait, NotMine, Killed
<1>6. CASE SpareFailed(s) \/ KeeperRefill(s)
  BY <1>6 DEF SpareFailed, KeeperRefill, procs, Killed
<1> QED
  BY <1>2, <1>3, <1>4, <1>5, <1>6 DEF KeeperStep

LEMMA SupervisorKills ==
  ASSUME IndInv, NEW p \in Runs, Supervise(p), NEW r \in Runs, Killed(r)
  PROVE  Reason(r)
<1> USE DEF IndInv
<1>0. worker[p] # 0 /\ worker[p] = worker[r] => p = r
  BY DEF OneRunEach
<1>1. CASE TakeSpare(p) \/ RunRefill(p) \/ Outcome(p) \/ CleanUp(p) \/ Discard(p) \/ Judge(p) \/ Tell(p)
  BY <1>1 DEF TakeSpare, RunRefill, Outcome, CleanUp, Discard, Judge, Tell, procs, Killed
<1>2. CASE Spawn(p)
  <2>1. life'[worker[r]] \in {"alive", life[worker[r]]}
    BY <1>2 DEF Spawn, TypeOK, Killed
  <2> QED
    BY <2>1 DEF Killed
<1>3. CASE Register(p)
  BY <1>0, <1>3, KillsOne DEF Register, Killed, Reason, asks
<1>4. CASE Boot(p)
  BY <1>4, KillsOne DEF Boot, Killed, Reason
<1>5. CASE Decide(p)
  BY <1>0, <1>5, KillsOne DEF Decide, Killed, Reason, asks
<1>6. CASE ReadEvents(p)
  BY <1>6, KillsOne DEF ReadEvents, Killed, Reason
<1> QED
  BY <1>1, <1>2, <1>3, <1>4, <1>5, <1>6 DEF Supervise

LEMMA CancelKills ==
  ASSUME IndInv, NEW p \in Runs, Cancels(p), NEW r \in Runs, Killed(r)
  PROVE  Reason(r)
<1>1. worker[p] # 0 /\ worker[p] = worker[r] => p = r
  BY DEF IndInv, OneRunEach
<1> QED
  BY <1>1, KillsOne DEF IndInv, Cancels, Killed, Reason

LEMMA NextKills ==
  ASSUME IndInv, [Next]_vars, NEW r \in Runs, Killed(r)
  PROVE  Reason(r)
<1> USE DEF IndInv
<1>1. CASE SetMemoryHold \/ RefillAfterHold \/ UNCHANGED vars
  BY <1>1 DEF SetMemoryHold, RefillAfterHold, vars, procs, Killed
<1>2. CASE Shutdown
  <2>1. worker[r] # slot
    BY Bounds DEF TypeOK, OneRunEach, SparesAgree, Killed, Spares
  <2> QED
    BY <1>2, <2>1, KillsOne DEF Shutdown, Killed
<1>3. CASE \E s \in Spares : KeeperStep(s)
  BY <1>3, KeeperKills
<1>4. CASE \E p \in Runs : Supervise(p)
  BY <1>4, SupervisorKills
<1>5. CASE \E p \in Runs : Cancel(p) \/ AbandonCancels(p)
  BY <1>5, CancelKills DEF Cancel, AbandonCancels
<1>6. CASE \E p \in Runs : Start(p) \/ Abandon(p) \/ WorkerWorks(p)
  BY <1>6 DEF Start, Abandon, WorkerWorks, procs, Killed
<1>7. CASE \E w \in Workers : WorkerBoots(w) \/ WorkerMisspeaks(w) \/ WorkerDies(w)
  <2>1. life'[worker[r]] \in {"dead", life[worker[r]]}
    BY <1>7 DEF WorkerBoots, WorkerMisspeaks, WorkerDies, TypeOK, Killed
  <2> QED
    BY <2>1 DEF Killed
<1> QED
  BY <1>1, <1>2, <1>3, <1>4, <1>5, <1>6, <1>7 DEF Next, StopStep

(* The worker of a run is struck only because the run was cancelled or     *)
(* given up, or because the worker broke the protocol: not by the keeper   *)
(* of the spare it was, nor by a shutdown that empties the slot.           *)
THEOREM NobodyElseIsKilled == Spec => KilledForAReason
<1> DEFINE A == \A r \in Runs :
                  worker[r] # 0 /\ life[worker[r]] = "alive" /\ life'[worker[r]] = "struck"
                    => r \in cancelled' \/ said[worker[r]] = "bad"
<1>1. IndInv /\ [Next]_vars => [A]_vars
  BY NextKills DEF Killed, Reason
<1> HIDE DEF A
<1>2. Spec => [][A]_vars
  BY <1>1, Invariance, PTL DEF Spec
<1> QED
  BY <1>2 DEF A, KilledForAReason

-----------------------------------------------------------------------------
(* The transport implements RunTransport.                                  *)

Running == {"take", "spawn", "clean", "discard"} \union Working

LEMMA InitRefines == Init => Transport!Init
BY DEF Init, Transport!Init, PhaseOf, SettledAs

LEMMA NothingSeen ==
  ASSUME \A r \in Runs : PhaseOf(r)' = PhaseOf(r) /\ SettledAs(r)' = SettledAs(r),
         UNCHANGED <<report, files, cancelled, abandoned>>
  PROVE  UNCHANGED Transport!vars
<1>1. /\ [r \in Runs |-> PhaseOf(r)]' = [r \in Runs |-> PhaseOf(r)]
      /\ [r \in Runs |-> SettledAs(r)]' = [r \in Runs |-> SettledAs(r)]
  OBVIOUS
<1> QED
  BY <1>1 DEF Transport!vars

(* What is seen of the phases when one run moves.                          *)
LEMMA SeenMove ==
  ASSUME TypeOK, NEW r \in Runs, NEW at \in Steps, Goes(r, at),
         \A p \in Runs \ {r} : outcome'[p] = outcome[p]
  PROVE  /\ \A p \in Runs \ {r} : PhaseOf(p)' = PhaseOf(p) /\ SettledAs(p)' = SettledAs(p)
         /\ PhaseOf(r)' = IF at \in {"report", "tell"} THEN "settled"
                            ELSE IF at \in {"new", "over"} THEN at ELSE "running"
         /\ SettledAs(r)' = IF at \in {"report", "tell", "over"} THEN outcome'[r] ELSE "none"
<1>1. step'[r] = at /\ \A p \in Runs \ {r} : step'[p] = step[p]
  BY StepMoves
<1>2. /\ PhaseOf(r)' = IF at \in {"report", "tell"} THEN "settled"
                         ELSE IF at \in {"new", "over"} THEN at ELSE "running"
      /\ SettledAs(r)' = IF at \in {"report", "tell", "over"} THEN outcome'[r] ELSE "none"
  BY <1>1 DEF PhaseOf, SettledAs
<1>3. \A p \in Runs \ {r} : PhaseOf(p)' = PhaseOf(p) /\ SettledAs(p)' = SettledAs(p)
  BY <1>1 DEF PhaseOf, SettledAs
<1> QED
  BY <1>2, <1>3

LEMMA SeenPhase ==
  ASSUME NEW r \in Runs
  PROVE  /\ step[r] \in Running => PhaseOf(r) = "running" /\ SettledAs(r) = "none"
         /\ step[r] \in {"report", "tell"} => PhaseOf(r) = "settled" /\ SettledAs(r) = outcome[r]
         /\ step[r] = "new" => PhaseOf(r) = "new" /\ SettledAs(r) = "none"
         /\ step[r] # "new" => PhaseOf(r) # "new"
BY DEF PhaseOf, SettledAs, Running, Working

(* The functions of the mapping when the phase of one run changes.         *)
LEMMA MappedMove ==
  ASSUME NEW r \in Runs, NEW ph, NEW o, PhaseOf(r)' = ph, SettledAs(r)' = o,
         \A p \in Runs \ {r} : PhaseOf(p)' = PhaseOf(p) /\ SettledAs(p)' = SettledAs(p)
  PROVE  /\ [p \in Runs |-> PhaseOf(p)]' = [[p \in Runs |-> PhaseOf(p)] EXCEPT ![r] = ph]
         /\ [p \in Runs |-> SettledAs(p)]' = [[p \in Runs |-> SettledAs(p)] EXCEPT ![r] = o]
         /\ SettledAs(r) = o => [p \in Runs |-> SettledAs(p)]' = [p \in Runs |-> SettledAs(p)]
OBVIOUS

(* A run that goes on, or whose outcome is found, shows nothing yet.       *)
LEMMA RunningUnseen ==
  ASSUME TypeOK, NEW r \in Runs, NEW at \in Running, Goes(r, at), step[r] \in Running,
         \A p \in Runs \ {r} : outcome'[p] = outcome[p],
         UNCHANGED <<report, files, cancelled, abandoned>>
  PROVE  UNCHANGED Transport!vars
<1>1. at \in Steps /\ at \notin {"report", "tell", "new", "over"}
  BY DEF Running, Steps, Before, Working, Done
<1>2. PhaseOf(r)' = "running" /\ SettledAs(r)' = "none"
  BY <1>1, SeenMove
<1> QED
  BY <1>1, <1>2, SeenMove, SeenPhase, NothingSeen

(* A run settles: its outcome is kept, and its files stay or go.           *)
LEMMA SettleRefines ==
  ASSUME IndInv, NEW r \in Runs, Goes(r, "report"), step[r] \in Running,
         outcome' \in [Runs -> Outcomes], outcome'[r] # "none",
         \A p \in Runs \ {r} : outcome'[p] = outcome[p],
         outcome'[r] = "cancelled" => r \in cancelled,
         \/ outcome'[r] = "committed" /\ files[r] = "whole" /\ r \notin abandoned /\ UNCHANGED files
         \/ /\ outcome'[r] # "committed" \/ r \in abandoned
            /\ files' \in {files, [files EXCEPT ![r] = "none"]},
         UNCHANGED <<report, cancelled, abandoned>>
  PROVE  Transport!Next
<1> USE DEF IndInv
<1> DEFINE o == outcome'[r]
<1>1. "report" \in Steps /\ o \in {"committed", "failed", "cancelled"}
  BY DEF Steps, Done, Outcomes
<1>2. PhaseOf(r) = "running" /\ PhaseOf(r)' = "settled" /\ SettledAs(r)' = o
  BY <1>1, SeenMove, SeenPhase
<1>3. /\ [p \in Runs |-> PhaseOf(p)]' = [[p \in Runs |-> PhaseOf(p)] EXCEPT ![r] = "settled"]
      /\ [p \in Runs |-> SettledAs(p)]' = [[p \in Runs |-> SettledAs(p)] EXCEPT ![r] = o]
  BY <1>1, <1>2, SeenMove, MappedMove
<1>4. [p \in Runs |-> PhaseOf(p)][r] = "running"
  BY <1>2
<1>5. o = "cancelled" => r \in cancelled
  OBVIOUS
<1>6. \/ o = "committed" /\ files[r] = "whole" /\ r \notin abandoned /\ UNCHANGED files
      \/ /\ o # "committed" \/ r \in abandoned
         /\ files' \in {files, [files EXCEPT ![r] = "none"]}
  OBVIOUS
<1> HIDE DEF o
<1>7. Transport!Settle(r)
  BY <1>1, <1>3, <1>4, <1>5, <1>6 DEF Transport!Settle
<1> QED
  BY <1>7 DEF Transport!Next

(* A run is over: reported, or given up.                                   *)
LEMMA ReportRefines ==
  ASSUME IndInv, NEW r \in Runs, Goes(r, "over"), step[r] \in {"report", "tell"}, UNCHANGED outcome,
         report' = [report EXCEPT ![r] = outcome[r]] \/ (r \in abandoned /\ UNCHANGED report),
         UNCHANGED <<files, cancelled, abandoned>>
  PROVE  Transport!Next
<1> USE DEF IndInv
<1>1. "over" \in Steps
  BY DEF Steps, Done
<1>2. /\ PhaseOf(r) = "settled" /\ SettledAs(r) = outcome[r]
      /\ PhaseOf(r)' = "over" /\ SettledAs(r)' = outcome[r]
  BY <1>1, SeenMove, SeenPhase
<1>3. /\ [p \in Runs |-> PhaseOf(p)]' = [[p \in Runs |-> PhaseOf(p)] EXCEPT ![r] = "over"]
      /\ [p \in Runs |-> SettledAs(p)]' = [p \in Runs |-> SettledAs(p)]
  BY <1>1, <1>2, SeenMove, MappedMove
<1>4. [p \in Runs |-> PhaseOf(p)][r] = "settled" /\ [p \in Runs |-> SettledAs(p)][r] = outcome[r]
  BY <1>2
<1>5. Transport!Report(r)
  BY <1>3, <1>4 DEF Transport!Report
<1> QED
  BY <1>5 DEF Transport!Next

LEMMA StartRefines == ASSUME IndInv, NEW r \in Runs, Start(r) PROVE Transport!Next
<1> USE DEF IndInv, Start
<1>1. PICK at \in {"over", "take"} : Goes(r, at)
  OBVIOUS
<1>2. at \in Steps /\ outcome[r] = "none" /\ outcome' = outcome
  BY DEF Steps, Before, Done, OutcomesAgree, results
<1>3. PICK ph \in {"running", "over"} : PhaseOf(r)' = ph
  BY <1>1, <1>2, SeenMove
<1>4. PhaseOf(r) = "new" /\ SettledAs(r) = "none" /\ SettledAs(r)' = "none"
  BY <1>1, <1>2, SeenMove, SeenPhase
<1>5. /\ [p \in Runs |-> PhaseOf(p)]' = [[p \in Runs |-> PhaseOf(p)] EXCEPT ![r] = ph]
      /\ [p \in Runs |-> SettledAs(p)]' = [p \in Runs |-> SettledAs(p)]
  BY <1>1, <1>2, <1>3, <1>4, SeenMove, MappedMove
<1>6. [p \in Runs |-> PhaseOf(p)][r] = "new"
  BY <1>4
<1>7. Transport!Start(r)
  BY <1>5, <1>6 DEF Transport!Start, asks, results, procs
<1> QED
  BY <1>7 DEF Transport!Next

(* A step that leaves steps and outcomes alone shows what it does to the   *)
(* requests and the files.                                                 *)
LEMMA StepsUnseen ==
  ASSUME UNCHANGED <<step, outcome>>
  PROVE  /\ [p \in Runs |-> PhaseOf(p)]' = [p \in Runs |-> PhaseOf(p)]
         /\ [p \in Runs |-> SettledAs(p)]' = [p \in Runs |-> SettledAs(p)]
BY DEF PhaseOf, SettledAs

LEMMA CancelRefines ==
  ASSUME NEW r \in Runs, step[r] # "new", Cancels(r), UNCHANGED <<step, results, files, abandoned>>
  PROVE  Transport!Next
<1>1. [p \in Runs |-> PhaseOf(p)][r] # "new"
  BY SeenPhase
<1>2. Transport!Ask(r)
  BY <1>1, StepsUnseen DEF Transport!Ask, Cancels, results
<1> QED
  BY <1>2 DEF Transport!Next

LEMMA AbandonRefines == ASSUME IndInv, NEW r \in Runs, Abandon(r) PROVE Transport!Next
<1>1. [p \in Runs |-> PhaseOf(p)][r] # "new"
  BY SeenPhase DEF IndInv, OutcomesAgree, Abandon
<1>2. Transport!GiveUp(r)
  BY <1>1, StepsUnseen DEF Transport!GiveUp, Abandon, results, procs
<1> QED
  BY <1>2 DEF Transport!Next

LEMMA WorksRefines ==
  ASSUME IndInv, NEW r \in Runs, WorkerWorks(r)
  PROVE  Transport!Next \/ UNCHANGED Transport!vars
<1> USE DEF WorkerWorks
<1>1. UNCHANGED <<step, outcome, report, cancelled, abandoned>>
  BY DEF asks, results
<1>2. CASE UNCHANGED files
  BY <1>1, <1>2, StepsUnseen DEF Transport!vars
<1>3. CASE \E g \in {"none", "partial", "whole"} : files' = [files EXCEPT ![r] = g]
  <2>1. [p \in Runs |-> PhaseOf(p)][r] = "running"
    BY WorksForOne, SeenPhase DEF Running
  <2>2. Transport!Write(r)
    BY <1>1, <1>3, <2>1, StepsUnseen DEF Transport!Write
  <2> QED
    BY <2>2 DEF Transport!Next
<1>4. \A f \in {<<"none", "partial">>, <<"partial", "whole">>, <<"partial", "none">>} :
        f[2] \in {"none", "partial", "whole"}
  OBVIOUS
<1> QED
  BY <1>2, <1>3, <1>4

LEMMA SuperviseRefines ==
  ASSUME IndInv, NEW r \in Runs, Supervise(r)
  PROVE  Transport!Next \/ UNCHANGED Transport!vars
<1> USE DEF IndInv
<1>1. /\ {"take", "spawn", "clean", "discard", "refill", "register", "boot", "booted", "decide", "read"}
            \subseteq Running
  BY DEF Running, Working
<1>2. CASE TakeSpare(r)
  <2>1. (\E at \in {"refill", "spawn"} : Goes(r, at)) /\ step[r] = "take"
    BY <1>2 DEF TakeSpare
  <2> QED
    BY <1>1, <1>2, <2>1, RunningUnseen DEF TakeSpare, asks, results, procs
<1>3. CASE RunRefill(r)
  <2>1. (\E at \in {"register", "decide"} : Goes(r, at)) /\ step[r] \in {"refill", "booted"}
    BY <1>3 DEF RunRefill
  <2> QED
    BY <1>1, <1>3, <2>1, RunningUnseen DEF RunRefill, asks, results, procs
<1>4. CASE Spawn(r) /\ UNCHANGED outcome /\ Goes(r, "register")
  BY <1>1, <1>4, RunningUnseen DEF Spawn, asks
<1>5. CASE Spawn(r) /\ outcome' = [outcome EXCEPT ![r] = "failed"] /\ Goes(r, "report")
  <2>1. outcome' \in [Runs -> Outcomes] /\ outcome'[r] = "failed" /\ \A p \in Runs \ {r} : outcome'[p] = outcome[p]
    BY <1>5 DEF TypeOK, Outcomes
  <2> QED
    BY <1>1, <1>5, <2>1, SettleRefines DEF Spawn, asks
<1>6. CASE Register(r)
  <2>1. (\E at \in {"decide", "boot"} : Goes(r, at)) /\ step[r] = "register"
    BY <1>6 DEF Register, AfterRegister
  <2> QED
    BY <1>1, <1>6, <2>1, RunningUnseen DEF Register, asks, results
<1>7. CASE (Boot(r) \/ ReadEvents(r)) /\ UNCHANGED step
  BY <1>7, StepsUnseen DEF Boot, ReadEvents, asks, results, Transport!vars
<1>8. CASE Boot(r) /\ Goes(r, "booted")
  BY <1>1, <1>8, RunningUnseen DEF Boot, asks, results
<1>9. CASE Decide(r)
  BY <1>1, <1>9, RunningUnseen DEF Decide, asks, results
<1>10. CASE Outcome(r)
  <2>1. \A p \in Runs \ {r} : outcome'[p] = outcome[p]
    BY <1>10 DEF Outcome, TypeOK
  <2>2. step[r] \in {"read", "boot"} /\ Goes(r, "clean")
    BY <1>10 DEF Outcome
  <2> QED
    BY <1>1, <1>10, <2>1, <2>2, RunningUnseen DEF Outcome, asks, procs
<1>11. CASE CleanUp(r)
  <2>1. CASE HandedOver(r) /\ Goes(r, "report")
    BY <1>1, <1>11, <2>1, SettleRefines DEF CleanUp, HandedOver, TypeOK, OutcomesAgree, asks, results, procs
  <2>2. CASE Goes(r, "discard")
    BY <1>1, <1>11, <2>2, RunningUnseen DEF CleanUp, asks, results, procs
  <2> QED
    BY <1>11, <2>1, <2>2 DEF CleanUp
<1>12. CASE Discard(r)
  <2>1. outcome[r] # "none" /\ (outcome[r] # "committed" \/ r \in abandoned)
        /\ (outcome[r] = "cancelled" => r \in cancelled)
    BY <1>12 DEF Discard, OutcomesAgree, Done
  <2> QED
    BY <1>1, <1>12, <2>1, SettleRefines DEF Discard, TypeOK, asks, results
<1>13. CASE Judge(r) /\ r \in abandoned
  BY <1>13, ReportRefines DEF Judge, asks, results, procs
<1>14. CASE Judge(r) /\ r \notin abandoned
  <2>1. "tell" \in Steps /\ Goes(r, "tell") /\ step[r] = "report" /\ outcome' = outcome
    BY <1>14 DEF Judge, Steps, Done, results
  <2>2. PhaseOf(r)' = PhaseOf(r) /\ SettledAs(r)' = SettledAs(r)
    BY <2>1, SeenMove, SeenPhase
  <2> QED
    BY <1>14, <2>1, <2>2, SeenMove, NothingSeen DEF Judge, asks, results, procs
<1>15. CASE Tell(r)
  BY <1>15, ReportRefines DEF Tell, asks, procs
<1> QED
  BY <1>2, <1>3, <1>4, <1>5, <1>6, <1>7, <1>8, <1>9, <1>10, <1>11, <1>12, <1>13, <1>14, <1>15
  DEF Supervise, Spawn, Boot, ReadEvents

LEMMA NextRefines == IndInv /\ [Next]_vars => [Transport!Next]_(Transport!vars)
<1> SUFFICES ASSUME IndInv, [Next]_vars PROVE Transport!Next \/ UNCHANGED Transport!vars
  OBVIOUS
<1>1. CASE SetMemoryHold \/ RefillAfterHold \/ Shutdown \/ UNCHANGED vars
  BY <1>1, StepsUnseen DEF SetMemoryHold, RefillAfterHold, Shutdown, vars, asks, results, procs, Transport!vars
<1>2. CASE \E s \in Spares : KeeperStep(s)
  <2>1. UNCHANGED <<step, outcome, report, files, cancelled, abandoned>>
    BY <1>2 DEF KeeperStep, KeeperSpawn, KeeperRegister, KeeperBoot, KeeperWait, SpareFailed, KeeperRefill,
                asks, results, procs
  <2> QED
    BY <2>1, StepsUnseen DEF Transport!vars
<1>3. CASE \E r \in Runs : Start(r) \/ Supervise(r) \/ WorkerWorks(r)
  BY <1>3, StartRefines, SuperviseRefines, WorksRefines
<1>4. CASE \E r \in Runs : Cancel(r) \/ StopStep(r)
  <2>1. ASSUME NEW r \in Runs, Cancel(r) PROVE Transport!Next
    BY <2>1, CancelRefines DEF Cancel
  <2>2. ASSUME NEW r \in Runs, AbandonCancels(r) PROVE Transport!Next
    BY <2>2, CancelRefines DEF AbandonCancels, IndInv, OutcomesAgree
  <2> QED
    BY <1>4, <2>1, <2>2, AbandonRefines DEF StopStep
<1>5. CASE \E w \in Workers : WorkerBoots(w) \/ WorkerMisspeaks(w) \/ WorkerDies(w)
  BY <1>5, StepsUnseen DEF WorkerBoots, WorkerMisspeaks, WorkerDies, asks, results, Transport!vars
<1> QED
  BY <1>1, <1>2, <1>3, <1>4, <1>5 DEF Next

(* The transport keeps what RunTransport promises the service: one outcome *)
(* for each run, reported once, cancelled only if that was asked for, with *)
(* the result in place exactly when the outcome says so, and nothing       *)
(* written afterwards.                                                     *)
THEOREM ImplementsRunTransport == Spec => ImplementsTransport
BY InitRefines, Invariance, NextRefines, PTL DEF Spec, ImplementsTransport, Transport!Spec
=============================================================================
