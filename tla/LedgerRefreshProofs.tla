------------------------ MODULE LedgerRefreshProofs ------------------------
(***************************************************************************)
(* A refresh of the ledger for any requests and starters, any number of    *)
(* builds, of builds kept and of containers.                               *)
(***************************************************************************)
EXTENDS LedgerRefreshProperties, FiniteSetTheorems, TLAPS

LEMMA Bounds == Keep \in Nat /\ MaxBuild \in Nat /\ MaxApps \in Nat /\ 1 \in 1..MaxBuild /\ 1 \in 1..MaxApps
BY RefreshAssumption

LEMMA OutcomesKnown ==
  /\ NoRecord \in Outcomes /\ NewState \in States
  /\ \A o \in Outcomes : classify(o) \in {"none", "unexpected", "unverified", "mismatch", "tables_failed", "catalog"}
BY DEF NoRecord, Outcomes, NewState, States, classify

-----------------------------------------------------------------------------
(* Types.                                                                  *)

(* Changes of one field.                                                   *)
Codes == {"running", "applying", "succeeded", "partial", "failed"}
Remotes == {"unknown", "behind", "up_to_date"}

LEMMA StateMoves ==
  ASSUME NEW s \in States
  PROVE  /\ \A c \in Codes : [s EXCEPT !.code = c] \in States /\ [s EXCEPT !.code = c].code = c
         /\ \A c \in Codes, d \in BOOLEAN :
              /\ [s EXCEPT !.code = c, !.drifted = d] \in States
              /\ [s EXCEPT !.code = c, !.drifted = d].code = c
         /\ \A c \in Codes, v \in Remotes :
              /\ [s EXCEPT !.code = c, !.remote = v] \in States
              /\ [s EXCEPT !.code = c, !.remote = v].code = c
         /\ \A v \in Remotes :
              [s EXCEPT !.remote = v] \in States /\ [s EXCEPT !.remote = v].code = s.code
BY DEF States, Codes, Remotes

LEMMA RequestMoves ==
  ASSUME TypeOK, NEW r \in Requests, NEW stage \in Stages, Moves(r, stage)
  PROVE  /\ request' \in [Requests -> [stage : Stages, at : 0..app]]
         /\ request'[r].stage = stage /\ request'[r].at = request[r].at
         /\ \A q \in Requests \ {r} : request'[q] = request[q]
BY DEF TypeOK, Moves

LEMMA InitType == Init => TypeOK
<1> SUFFICES ASSUME Init PROVE TypeOK
  OBVIOUS
<1>1. request \in [Requests -> [stage : Stages, at : 0..app]]
  BY Bounds DEF Init, Stages
<1>2. open \subseteq 1..app /\ kept \subseteq 1..disk /\ pinned \in [1..MaxApps -> 1..disk]
  BY Bounds DEF Init
<1> QED
  <2>1. state \in States /\ previous \in States /\ outcome \in Outcomes
    BY OutcomesKnown DEF Init
  <2>2. app \in 1..MaxApps /\ server \in 1..MaxBuild /\ disk \in 1..server
    BY Bounds DEF Init
  <2>3. active \in [Requests -> 0..app] /\ starter \in [Starters -> {"idle", "asked", "entered"}]
    BY DEF Init
  <2>4. /\ admitting \in Int /\ missed \in Nat
        /\ check = "idle" /\ thread = "none" /\ tool = "off" /\ closing = "no"
        /\ stopping = FALSE /\ job = FALSE
    BY DEF Init
  <2> QED
    BY <1>1, <1>2, <2>1, <2>2, <2>3, <2>4 DEF TypeOK

LEMMA NextType == TypeOK /\ [Next]_vars => TypeOK'
<1> SUFFICES ASSUME TypeOK, [Next]_vars PROVE TypeOK'
  OBVIOUS
<1> USE Bounds, OutcomesKnown DEF TypeOK
<1>1. CASE \E r \in Requests : Arrive(r) \/ RequestStep(r) \/ WorkEnds(r)
  <2> PICK r \in Requests : Arrive(r) \/ RequestStep(r) \/ WorkEnds(r)
    BY <1>1
  <2>1. CASE Arrive(r)
    BY <2>1 DEF Arrive, Stages, clients, tooling, data, apps
  <2>2. CASE Admit(r)
    <3>1. \E stage \in Stages : Moves(r, stage)
      BY <2>2 DEF Admit, Stages
    <3>2. request' \in [Requests -> [stage : Stages, at : 0..app]]
      BY <3>1, RequestMoves
    <3>3. admitting' \in Int
      BY <2>2 DEF Admit
    <3>4. UNCHANGED <<state, previous, clients, thread, tooling, data, apps, active>>
      BY <2>2 DEF Admit
    <3> QED
      BY <3>2, <3>3, <3>4 DEF clients, tooling, data, apps
  <2>3. CASE Answer(r)
    <3>1. request[r].at \in 0..app
      OBVIOUS
    <3>2. request' \in [Requests -> [stage : Stages, at : 0..app]]
      BY <2>3, RequestMoves DEF Answer, Stages
    <3>3. active' \in [Requests -> 0..app]
      BY <2>3, <3>1 DEF Answer
    <3> QED
      BY <2>3, <3>1, <3>2, <3>3 DEF Answer, clients, tooling, data, apps
  <2>4. CASE Leave(r)
    <3>1. request' \in [Requests -> [stage : Stages, at : 0..app]] /\ admitting' \in Int
      BY <2>4, RequestMoves DEF Leave, Stages
    <3> QED
      BY <2>4, <3>1 DEF Leave, clients, tooling, data, apps
  <2>5. CASE WorkEnds(r)
    BY <2>5 DEF WorkEnds, clients, tooling, data, apps
  <2> QED
    BY <2>1, <2>2, <2>3, <2>4, <2>5 DEF RequestStep
<1>2. CASE \E s \in Starters : Ask(s) \/ StarterStep(s)
  <2> PICK s \in Starters : Ask(s) \/ StarterStep(s)
    BY <1>2
  <2>1. CASE Ask(s)
    BY <2>1 DEF Ask, tooling, data, apps, work
  <2>2. CASE Enter(s)
    <3>1. state' \in States /\ previous' \in States
      <4>1. [state EXCEPT !.code = "running", !.drifted = FALSE] \in States
        BY DEF States
      <4> QED
        BY <2>2, <4>1 DEF Enter
    <3>2. starter' \in [Starters -> {"idle", "asked", "entered"}]
      BY <2>2 DEF Enter
    <3> QED
      BY <2>2, <3>1, <3>2 DEF Enter, tooling, data, apps, work
  <2>3. CASE GiveUp(s)
    BY <2>3 DEF GiveUp, tooling, data, apps, work
  <2>4. CASE Launch(s)
    BY <2>4 DEF Launch, tooling, data, apps, work
  <2> QED
    BY <2>1, <2>2, <2>3, <2>4 DEF StarterStep
<1>3. CASE Plan
  BY <1>3 DEF Plan, tooling, data, apps, work
<1>4. CASE StoreCheck
  <2>1. state' \in States
    <3>1. check \in Remotes /\ state \in States /\ state' = [state EXCEPT !.remote = check]
      BY <1>4 DEF Remotes, StoreCheck
    <3> QED
      BY ONLY <3>1, StateMoves
  <2> QED
    BY <1>4, <2>1 DEF StoreCheck, tooling, data, apps, work
<1>5. CASE ThreadStep
  <2>1. CASE Spawn
    BY <2>1 DEF Spawn, clients, data, apps, work
  <2>2. CASE Register
    BY <2>2 DEF Register, clients, data, apps, work
  <2>3. CASE CancelAtOnce
    BY <2>3 DEF CancelAtOnce, Kill, clients, data, apps, work
  <2>4. CASE Waited
    BY <2>4 DEF Waited, clients, data, apps, work
  <2>5. CASE GiveIn \/ ApplyFails
    <3>1. PICK failure : GivesIn(failure)
      BY <2>5 DEF GiveIn, ApplyFails
    <3>2. state' \in States
      BY <3>1, StateMoves DEF Codes, Remotes, GivesIn
    <3> QED
      BY <3>1, <3>2 DEF GivesIn, clients, data, apps, work
  <2>6. CASE BeginApply
    <3>1. outcome.drifted \in BOOLEAN
      BY DEF Outcomes
    <3>2. /\ state' = [state EXCEPT !.code = "applying", !.drifted = outcome.drifted]
          /\ state \in States /\ "applying" \in Codes
      BY <2>6 DEF BeginApply, Codes
    <3>3. state' \in States
      BY ONLY <3>1, <3>2, StateMoves
    <3> QED
      BY <2>6, <3>3 DEF BeginApply, clients, tooling, data, apps, work
  <2>7. CASE Build
    BY <2>7 DEF Build, clients, tooling, data, work
  <2>8. CASE Swap
    <3>1. app' \in 1..MaxApps
      BY <2>8 DEF Swap
    <3> QED
      BY <2>8, <3>1 DEF Swap, clients, tooling, data, work
  <2>9. CASE CloseOld
    BY <2>9 DEF CloseOld, Closed, clients, tooling, data
  <2>10. CASE Succeed
    <3>1. state' \in States
      BY <2>10, StateMoves DEF Codes, Remotes, Succeed
    <3> QED
      BY <2>10, <3>1 DEF Succeed, clients, data, apps, work
  <2> QED
    BY <1>5, <2>1, <2>2, <2>3, <2>4, <2>5, <2>6, <2>7, <2>8, <2>9, <2>10 DEF ThreadStep
<1>6. CASE Fetch
  <2>1. disk' \in 1..server' /\ disk <= disk' /\ server' = server
    BY <1>6 DEF Fetch, data
  <2>2. kept' \subseteq 1..disk'
    <3>1. kept \subseteq 1..disk' /\ Kept \subseteq kept /\ disk' \in 1..disk'
      BY <2>1 DEF Kept
    <3>2. kept' = kept \/ kept' = Kept \union {disk'}
      BY <1>6 DEF Fetch, data
    <3> QED
      BY <3>1, <3>2
  <2>3. pinned' \in [1..MaxApps -> 1..disk']
    <3>1. 1..disk \subseteq 1..disk'
      BY <2>1
    <3> QED
      BY <1>6, <3>1 DEF Fetch
  <2>4. /\ missed' \in Nat /\ tool' = "fetched"
        /\ UNCHANGED <<state, previous, admitting, clients, thread, stopping, job, outcome, app,
                       open, closing, work>>
    BY <1>6 DEF Fetch, data
  <2>5. server' \in 1..MaxBuild /\ disk' \in 1..server'
    BY <2>1
  <2> QED
    BY <2>2, <2>3, <2>4, <2>5 DEF clients, work
<1>7. CASE ToolEnds
  BY <1>7 DEF ToolEnds, clients, data, apps, work
<1>8. CASE ServerCommits
  BY <1>8 DEF ServerCommits, clients, tooling, apps, work
<1>9. CASE Close \/ ShutdownStep
  <2>1. CASE Close
    BY <2>1 DEF Close, Shuts, clients, tooling, data
  <2>4. CASE Stop
    BY <2>4 DEF Stop, Shuts, clients, tooling, data
  <2>3. CASE StopKills
    BY <2>3 DEF StopKills, Shuts, Kill, clients, tooling, data
  <2>2. CASE CloseApp
    BY <2>2 DEF CloseApp, Shuts, Closed, clients, tooling, data
  <2> QED
    BY <1>9, <2>1, <2>2, <2>3, <2>4 DEF ShutdownStep
<1>10. CASE UNCHANGED vars
  BY <1>10 DEF vars, clients, tooling, data, apps, work
<1> QED
  BY <1>1, <1>2, <1>3, <1>4, <1>5, <1>6, <1>7, <1>8, <1>9, <1>10 DEF Next

-----------------------------------------------------------------------------
(* The refresh is one start() or one thread.  A step either leaves the     *)
(* starters, the thread and the code of the state alone, or is one of the  *)
(* steps named here.                                                       *)
Calm ==
  /\ Entered' = Entered
  /\ thread' # "none" <=> thread # "none"
  /\ state'.code \in Busy <=> state.code \in Busy
  /\ previous' = previous

LEMMA StepsOfRefresh ==
  ASSUME TypeOK, OneRefresh, [Next]_vars
  PROVE  Calm \/ (\E s \in Starters : StarterStep(s)) \/ GiveIn \/ ApplyFails \/ Succeed
<1> USE DEF Calm, Entered
<1>1. CASE \E r \in Requests : Arrive(r) \/ RequestStep(r) \/ WorkEnds(r)
  BY <1>1 DEF RequestStep, Arrive, Admit, Answer, Leave, WorkEnds, clients
<1>2. CASE \E s \in Starters : Ask(s)
  BY <1>2 DEF Ask, TypeOK
<1>3. CASE Plan
  BY <1>3 DEF Plan
<1>4. CASE StoreCheck
  BY <1>4, StateMoves DEF StoreCheck, TypeOK, Remotes
<1>5. CASE Spawn \/ Register \/ CancelAtOnce \/ Waited
  BY <1>5 DEF Spawn, Register, CancelAtOnce, Waited, clients
<1>6. CASE Build \/ Swap \/ CloseOld
  BY <1>6 DEF Build, Swap, CloseOld, clients
<1>7. CASE BeginApply
  <2>1. state' = [state EXCEPT !.code = "applying", !.drifted = outcome.drifted] /\ outcome.drifted \in BOOLEAN
    BY <1>7 DEF BeginApply, TypeOK, Outcomes
  <2>2. state'.code = "applying"
    BY <2>1 DEF TypeOK, States
  <2> QED
    BY <1>7, <2>2 DEF BeginApply, OneRefresh, Busy, clients
<1>8. CASE Fetch \/ ToolEnds \/ ServerCommits
  BY <1>8 DEF Fetch, ToolEnds, ServerCommits, clients
<1>9. CASE Close \/ ShutdownStep
  BY <1>9 DEF Close, ShutdownStep, Stop, StopKills, CloseApp, Shuts, clients
<1>10. CASE UNCHANGED vars
  BY <1>10 DEF vars, clients
<1> QED
  BY <1>1, <1>2, <1>3, <1>4, <1>5, <1>6, <1>7, <1>8, <1>9, <1>10 DEF Next, ThreadStep

LEMMA NextOneRefresh ==
  ASSUME TypeOK, OneRefresh, [Next]_vars
  PROVE  OneRefresh'
<1>1. CASE Calm
  BY <1>1 DEF Calm, OneRefresh
<1>2. ASSUME NEW s \in Starters, StarterStep(s) PROVE OneRefresh'
  <2>1. CASE Enter(s) /\ starter'[s] = "idle"
    <3>1. Entered' = Entered
      BY <2>1 DEF Enter, Entered, TypeOK
    <3> QED
      BY <2>1, <3>1 DEF Enter, OneRefresh, TypeOK
  <2>2. CASE Enter(s) /\ starter'[s] = "entered"
    <3>1. ~Refused /\ state' = [state EXCEPT !.code = "running", !.drifted = FALSE] /\ previous' = state
      BY <2>2 DEF Enter, TypeOK
    <3>2. state'.code = "running"
      BY <3>1 DEF TypeOK, States
    <3>3. Entered = {} /\ thread = "none"
      BY <3>1 DEF Refused, OneRefresh
    <3>4. Entered' = {s} /\ thread' = thread
      BY <2>2, <3>3 DEF Enter, Entered, TypeOK
    <3> QED
      BY <3>1, <3>2, <3>3, <3>4 DEF OneRefresh, Refused, Busy
  <2>3. CASE GiveUp(s)
    <3>1. Entered = {s} /\ Entered' = {}
      BY <2>3 DEF GiveUp, Entered, OneRefresh, TypeOK
    <3> QED
      BY <2>3, <3>1 DEF GiveUp, OneRefresh
  <2>4. CASE Launch(s)
    <3>1. Entered = {s} /\ Entered' = {}
      BY <2>4 DEF Launch, Entered, OneRefresh, TypeOK
    <3> QED
      BY <2>4, <3>1 DEF Launch, OneRefresh
  <2>5. starter'[s] \in {"idle", "entered"}
    BY <1>2 DEF StarterStep, Enter, GiveUp, Launch, TypeOK
  <2> QED
    BY <1>2, <2>1, <2>2, <2>3, <2>4, <2>5 DEF StarterStep
<1>3. CASE GiveIn \/ ApplyFails \/ Succeed
  <2>1. thread # "none" /\ thread' = "none" /\ Entered' = Entered
    BY <1>3 DEF GiveIn, ApplyFails, GivesIn, Succeed, Entered, clients
  <2>2. state'.code \in {"partial", "failed", "succeeded"}
    <3>1. state \in States
      BY DEF TypeOK
    <3>2. CASE GiveIn \/ ApplyFails
      BY <3>1, <3>2 DEF GiveIn, ApplyFails, GivesIn, States
    <3>3. CASE Succeed
      <4>1. PICK v \in Remotes : state' = [state EXCEPT !.code = "succeeded", !.remote = v]
        BY <3>3 DEF Succeed, Remotes
      <4> QED
        BY <3>1, <4>1 DEF States
    <3> QED
      BY <1>3, <3>2, <3>3
  <2> QED
    BY <2>1, <2>2 DEF OneRefresh, Busy
<1> QED
  BY <1>1, <1>2, <1>3, StepsOfRefresh

-----------------------------------------------------------------------------
(* Admission.                                                              *)
LEMMA NextAdmissions ==
  ASSUME TypeOK, OneRefresh, AdmissionsCounted, [Next]_vars
  PROVE  AdmissionsCounted'
<1>1. ASSUME NEW r \in Requests, Admit(r) PROVE AdmissionsCounted'
  <2>1. CASE ~Admits
    <3>1. InAdmission' = InAdmission /\ admitting' = admitting /\ state' = state
      BY <1>1, <2>1, RequestMoves DEF Admit, Moves, Stages, TypeOK, InAdmission
    <3> QED
      BY <3>1 DEF AdmissionsCounted
  <2>2. CASE Admits
    <3>1. Moves(r, "admitted") /\ admitting' = admitting + 1 /\ state' = state /\ request[r].stage = "arrived"
      BY <1>1, <2>2 DEF Admit
    <3>2. r \notin InAdmission /\ InAdmission' = InAdmission \union {r}
      BY <3>1, RequestMoves DEF Stages, InAdmission
    <3>3. IsFiniteSet(InAdmission') /\ Cardinality(InAdmission') = Cardinality(InAdmission) + 1
      BY <3>2, FS_AddElement DEF AdmissionsCounted
    <3> QED
      BY <2>2, <3>1, <3>3 DEF AdmissionsCounted, Admits
  <2> QED
    BY <2>1, <2>2
<1>2. ASSUME NEW r \in Requests, Leave(r) PROVE AdmissionsCounted'
  <2>1. Moves(r, "none") /\ admitting' = admitting - 1 /\ state' = state /\ request[r].stage = "answered"
    BY <1>2 DEF Leave
  <2>2. r \in InAdmission /\ InAdmission' = InAdmission \ {r}
    BY <2>1, RequestMoves DEF Stages, InAdmission
  <2>3. IsFiniteSet(InAdmission') /\ Cardinality(InAdmission') = Cardinality(InAdmission) - 1
    BY <2>2, FS_RemoveElement DEF AdmissionsCounted
  <2> QED
    BY <2>1, <2>2, <2>3 DEF AdmissionsCounted
<1>3. ASSUME NEW r \in Requests, Answer(r) PROVE AdmissionsCounted'
  <2>1. Moves(r, "answered") /\ admitting' = admitting /\ state' = state /\ request[r].stage = "admitted"
    BY <1>3 DEF Answer
  <2>2. InAdmission' = InAdmission
    BY <2>1, RequestMoves DEF Stages, InAdmission
  <2> QED
    BY <2>1, <2>2 DEF AdmissionsCounted
<1>4. ASSUME NEW r \in Requests, Arrive(r) PROVE AdmissionsCounted'
  <2>1. InAdmission' = InAdmission
    BY <1>4 DEF Arrive, TypeOK, InAdmission
  <2> QED
    BY <1>4, <2>1 DEF Arrive, AdmissionsCounted
<1>5. CASE UNCHANGED <<request, admitting>>
  <2>1. InAdmission' = InAdmission
    BY <1>5 DEF InAdmission
  <2>2. state'.code \in Busy => state.code \in Busy \/ admitting = 0
    <3>1. CASE Calm
      BY <3>1 DEF Calm
    <3>2. CASE \E s \in Starters : StarterStep(s)
      <4> PICK s \in Starters : StarterStep(s)
        BY <3>2
      <4>1. CASE Enter(s) /\ ~Refused
        BY <4>1, FS_CardinalityType DEF Refused, AdmissionsCounted
      <4>2. CASE Enter(s) /\ Refused
        BY <4>2 DEF Enter
      <4>3. CASE GiveUp(s)
        BY <4>3 DEF GiveUp, OneRefresh, Entered
      <4>4. CASE Launch(s)
        BY <4>4 DEF Launch
      <4> QED
        BY <4>1, <4>2, <4>3, <4>4 DEF StarterStep
    <3>3. CASE GiveIn \/ ApplyFails \/ Succeed
      BY <3>3 DEF GiveIn, ApplyFails, Succeed, OneRefresh
    <3> QED
      BY <3>1, <3>2, <3>3, StepsOfRefresh
  <2>3. admitting = 0 => InAdmission = {}
    BY FS_EmptySet DEF AdmissionsCounted
  <2> QED
    BY <1>5, <2>1, <2>2, <2>3 DEF AdmissionsCounted
<1>6. \/ UNCHANGED <<request, admitting>>
      \/ \E r \in Requests : Admit(r) \/ Leave(r) \/ Answer(r) \/ Arrive(r)
  BY DEF Next, RequestStep, WorkEnds, Ask, StarterStep, Enter, GiveUp, Launch, Plan, StoreCheck,
         ThreadStep, Spawn, Register, CancelAtOnce, Waited, GiveIn, ApplyFails, GivesIn, BeginApply,
         Build, Swap, CloseOld, Succeed, Fetch, ToolEnds, ServerCommits, Close, ShutdownStep, Stop,
         StopKills, CloseApp, Shuts, work, vars
<1> QED
  BY <1>1, <1>2, <1>3, <1>4, <1>5, <1>6

-----------------------------------------------------------------------------
(* What the app in use computes.                                           *)
LEMMA NextAlone ==
  ASSUME TypeOK, OneRefresh, AdmissionsCounted, RefreshIsAlone, OneRefresh', AdmissionsCounted', [Next]_vars
  PROVE  RefreshIsAlone'
<1>1. thread' # "none" => admitting' = 0
  BY FS_EmptySet DEF OneRefresh, AdmissionsCounted
<1>2. ASSUME thread' # "none", NEW r \in Requests PROVE active'[r] # app'
  <2>1. CASE thread = "none"
    <3>1. PICK s \in Starters : Launch(s)
      BY <1>2, <2>1, StepsOfRefresh
      DEF Calm, StarterStep, Enter, GiveUp, GiveIn, ApplyFails, GivesIn, Succeed
    <3> QED
      BY <3>1 DEF Launch, ActiveWork, apps, work
  <2>2. CASE thread # "none"
    <3>1. active[r] # app /\ active[r] \in 0..app /\ app \in Nat /\ app # 0
      BY <2>2, Bounds DEF RefreshIsAlone, ActiveWork, TypeOK
    <3>2. CASE Swap
      BY <3>1, <3>2 DEF Swap, work
    <3>3. CASE CloseOld \/ CloseApp
      BY <3>1, <3>3 DEF CloseOld, CloseApp, Shuts, Closed
    <3>4. ASSUME NEW q \in Requests, Answer(q) PROVE FALSE
      <4>1. q \in InAdmission /\ state.code \in Busy
        BY <2>2, <3>4 DEF Answer, InAdmission, OneRefresh
      <4> QED
        BY <4>1 DEF AdmissionsCounted
    <3>5. CASE \E q \in Requests : WorkEnds(q)
      BY <3>1, <3>5 DEF WorkEnds, apps, TypeOK
    <3>6. CASE UNCHANGED <<app, active>>
      BY <3>1, <3>6
    <3> QED
      BY <3>2, <3>3, <3>4, <3>5, <3>6
      DEF Next, RequestStep, Arrive, Admit, Leave, Ask, StarterStep, Enter, GiveUp, Launch, Plan, StoreCheck,
         ThreadStep, Spawn, Register, CancelAtOnce, Waited, GiveIn, ApplyFails, GivesIn, BeginApply,
         Build, Succeed, Fetch, ToolEnds, ServerCommits, Close, ShutdownStep, Stop,
         StopKills, Shuts, apps, work, vars
  <2> QED
    BY <2>1, <2>2
<1> QED
  BY <1>1, <1>2 DEF RefreshIsAlone, ActiveWork

-----------------------------------------------------------------------------
(* The tool and the shutdown.                                              *)
LEMMA NextToolIsWatched ==
  ASSUME TypeOK, OneRefresh, ToolIsWatched, [Next]_vars
  PROVE  ToolIsWatched'
<1> USE DEF ToolIsWatched
<1>1. CASE \E r \in Requests : Arrive(r) \/ RequestStep(r) \/ WorkEnds(r)
  BY <1>1 DEF RequestStep, Arrive, Admit, Answer, Leave, WorkEnds, tooling, apps
<1>2. ASSUME NEW s \in Starters, Ask(s) \/ StarterStep(s) PROVE ToolIsWatched'
  <2>1. CASE Launch(s)
    <3>1. thread = "none"
      BY <2>1 DEF Launch, OneRefresh, Entered
    <3> QED
      BY <2>1, <3>1 DEF Launch, tooling, apps
  <2>2. CASE Ask(s) \/ Enter(s) \/ GiveUp(s)
    BY <2>2 DEF Ask, Enter, GiveUp, tooling, apps
  <2> QED
    BY <1>2, <2>1, <2>2 DEF StarterStep
<1>3. CASE Plan \/ StoreCheck
  BY <1>3 DEF Plan, StoreCheck, tooling, apps
<1>4. CASE Spawn \/ Register \/ Waited
  BY <1>4 DEF Spawn, Register, Waited, apps
<1>5. CASE CancelAtOnce
  BY <1>5 DEF CancelAtOnce, Kill, Runs, apps
<1>6. CASE GiveIn \/ ApplyFails \/ BeginApply \/ Succeed
  BY <1>6 DEF GiveIn, ApplyFails, GivesIn, BeginApply, Succeed, tooling, apps
<1>7. CASE Build \/ Swap \/ CloseOld
  BY <1>7 DEF Build, Swap, CloseOld, tooling
<1>8. CASE Fetch \/ ToolEnds \/ ServerCommits
  BY <1>8 DEF Fetch, ToolEnds, Runs, ServerCommits, tooling, apps
<1>9. CASE Close \/ Stop \/ CloseApp
  BY <1>9 DEF Close, Stop, CloseApp, Shuts, tooling
<1>10. CASE StopKills
  BY <1>10 DEF StopKills, Kill, Runs, Shuts
<1>11. CASE UNCHANGED vars
  BY <1>11 DEF vars, tooling, apps
<1> QED
  BY <1>1, <1>2, <1>3, <1>4, <1>5, <1>6, <1>7, <1>8, <1>9, <1>10, <1>11 DEF Next, ThreadStep, ShutdownStep

LEMMA NextOpenApps ==
  ASSUME TypeOK, OneRefresh, OpenApps, [Next]_vars
  PROVE  OpenApps'
<1> USE DEF OpenApps
<1>1. CASE Swap
  <2>1. app' - 1 = app /\ app' # app
    BY <1>1 DEF Swap, TypeOK
  <2> QED
    BY <1>1, <2>1 DEF Swap, MayApply
<1>2. CASE CloseOld
  <2>1. app' = app /\ app - 1 # app
    BY <1>2 DEF CloseOld, TypeOK
  <2> QED
    BY <1>2, <2>1 DEF CloseOld, Closed
<1>3. CASE CloseApp
  BY <1>3 DEF CloseApp, Shuts, Closed
<1>4. CASE Close \/ Stop \/ StopKills
  BY <1>4 DEF Close, Stop, StopKills, Shuts
<1>5. CASE Succeed
  BY <1>5 DEF Succeed, apps
<1>6. ASSUME UNCHANGED <<app, open, closing>>, thread = "close_old" => thread' = "close_old" PROVE OpenApps'
  BY <1>6
<1>7. \/ UNCHANGED <<app, open, closing>> /\ (thread = "close_old" => thread' = "close_old")
      \/ Swap \/ CloseOld \/ CloseApp \/ Close \/ Stop \/ StopKills \/ Succeed
  <2>1. CASE \E r \in Requests : Arrive(r) \/ RequestStep(r) \/ WorkEnds(r)
    BY <2>1 DEF RequestStep, Arrive, Admit, Answer, Leave, WorkEnds, apps
  <2>2. ASSUME NEW s \in Starters, Ask(s) \/ StarterStep(s)
        PROVE  UNCHANGED <<app, open, closing>> /\ (thread = "close_old" => thread' = "close_old")
    BY <2>2 DEF StarterStep, Ask, Enter, GiveUp, Launch, OneRefresh, Entered, apps
  <2>3. CASE Plan \/ StoreCheck \/ Fetch \/ ToolEnds \/ ServerCommits \/ UNCHANGED vars
    BY <2>3 DEF Plan, StoreCheck, Fetch, ToolEnds, ServerCommits, apps, vars
  <2>4. CASE Spawn \/ Register \/ CancelAtOnce \/ Waited \/ GiveIn \/ BeginApply \/ Build \/ ApplyFails
    BY <2>4 DEF Spawn, Register, CancelAtOnce, Waited, GiveIn, BeginApply, Build, ApplyFails, GivesIn, apps
  <2> QED
    BY <2>1, <2>2, <2>3, <2>4 DEF Next, ThreadStep, ShutdownStep
<1> QED
  BY <1>1, <1>2, <1>3, <1>4, <1>5, <1>6, <1>7

LEMMA NextShutdown ==
  ASSUME TypeOK, OneRefresh, ToolIsWatched, OpenApps', ShutdownLeavesNothing, [Next]_vars
  PROVE  ShutdownLeavesNothing'
<1>1. closing' = "closed" /\ thread' # "close_old" => open' = {}
  BY DEF OpenApps
<1>2. ASSUME closing' \in {"stopped", "closed"}, thread' = "waiting" PROVE ~Runs'
  <2>1. CASE closing \in {"stopped", "closed"} /\ thread = "waiting"
    <3>1. ~Runs
      BY <2>1 DEF ShutdownLeavesNothing
    <3>2. tool' = tool \/ tool' \in {"ended", "off"}
      BY <2>1, <3>1 DEF Next, RequestStep, Arrive, Admit, Answer, Leave, WorkEnds, Ask, StarterStep, Enter, GiveUp,
         Launch, Plan, StoreCheck, ThreadStep, Spawn, Register, CancelAtOnce, Waited, GiveIn, ApplyFails,
         GivesIn, BeginApply, Build, Swap, CloseOld, Succeed, Fetch, ToolEnds, ServerCommits, Close,
         ShutdownStep, Stop, StopKills, CloseApp, Shuts, Kill, Runs, tooling, apps, vars
    <3> QED
      BY <3>1, <3>2 DEF Runs
  <2>2. CASE thread # "waiting"
    <3>1. CASE Register
      BY <1>2, <3>1 DEF Register, ToolIsWatched, apps
    <3>2. CASE CancelAtOnce
      BY <3>2 DEF CancelAtOnce, Kill, Runs
    <3>3. Register \/ CancelAtOnce
      BY <1>2, <2>2 DEF Next, RequestStep, Arrive, Admit, Answer, Leave, WorkEnds, Ask, StarterStep, Enter, GiveUp,
         Launch, Plan, StoreCheck, ThreadStep, Spawn, Waited, GiveIn, ApplyFails, GivesIn, BeginApply,
         Build, Swap, CloseOld, Succeed, Fetch, ToolEnds, ServerCommits, Close, ShutdownStep, Stop,
         StopKills, CloseApp, Shuts, clients, tooling, vars
    <3> QED
      BY <3>1, <3>2, <3>3
  <2>3. CASE closing \notin {"stopped", "closed"} /\ thread = "waiting"
    <3>1. CASE Stop
      BY <1>2, <2>3, <3>1 DEF Stop, Shuts, ToolIsWatched
    <3>2. CASE StopKills
      BY <3>2 DEF StopKills, Kill, Runs
    <3>3. Stop \/ StopKills
      BY <1>2, <2>3 DEF Next, RequestStep, Arrive, Admit, Answer, Leave, WorkEnds, Ask, StarterStep, Enter, GiveUp,
         Launch, Plan, StoreCheck, ThreadStep, Spawn, Register, CancelAtOnce, Waited, GiveIn, ApplyFails,
         GivesIn, BeginApply, Build, Swap, CloseOld, Succeed, Fetch, ToolEnds, ServerCommits, Close,
         ShutdownStep, CloseApp, Shuts, apps, vars
    <3> QED
      BY <3>1, <3>2, <3>3
  <2> QED
    BY <2>1, <2>2, <2>3
<1> QED
  BY <1>1, <1>2 DEF ShutdownLeavesNothing

-----------------------------------------------------------------------------
(* The builds on disk.                                                     *)
LEMMA NewerFinite ==
  ASSUME TypeOK, NEW k, NEW S \in SUBSET kept
  PROVE  IsFiniteSet(S) /\ Cardinality(S) \in Nat
<1>1. IsFiniteSet(1..disk) /\ S \subseteq 1..disk
  BY FS_Interval DEF TypeOK
<1> QED
  BY <1>1, FS_Subset, FS_CardinalityType

(* A fetch that follows fewer than Keep - 1 missed ones leaves the pinned  *)
(* build, and adds one newer build at most.                                *)
LEMMA FetchKeeps ==
  ASSUME TypeOK, ToolIsWatched, BuildsAgree, PinnedIsKept, Fetch
  PROVE  BuildsAgree' /\ PinnedIsKept'
<1> DEFINE p == pinned[app]
           Newer == NewerThan(p)
<1>1. Newer \subseteq kept /\ IsFiniteSet(Newer) /\ Cardinality(Newer) \in Nat
  BY NewerFinite DEF NewerThan
<1>2. CASE UNCHANGED <<data, missed>>
  BY <1>2 DEF Fetch, BuildsAgree, PinnedIsKept, NewerThan, data
<1>3. CASE disk < server /\ disk' = server /\ kept' = Kept \union {server} /\ missed' = missed + 1
  <2>1. UNCHANGED <<app, pinned, thread>>
    BY DEF Fetch
  <2>2. Cardinality(NewerThan(p)') <= missed'
    <3>1. NewerThan(p)' \subseteq Newer \union {server}
      <4>1. p' = p /\ Kept \subseteq kept
        BY <2>1 DEF Kept
      <4>2. NewerThan(p)' = {j \in kept' : j > p}
        BY <4>1 DEF NewerThan
      <4> QED
        BY <1>3, <4>1, <4>2 DEF NewerThan
    <3>2. server \notin Newer
      BY <1>3 DEF TypeOK, NewerThan
    <3>3. IsFiniteSet(Newer \union {server}) /\ Cardinality(Newer \union {server}) = Cardinality(Newer) + 1
      BY <1>1, <3>2, FS_AddElement
    <3>4. Cardinality(NewerThan(p)') <= Cardinality(Newer) + 1 /\ Cardinality(NewerThan(p)') \in Nat
      BY <3>1, <3>3, FS_Subset, FS_CardinalityType
    <3> QED
      BY <1>1, <1>3, <3>4 DEF BuildsAgree, TypeOK
  <2>3. missed' < Keep => p \in kept'
    <3>1. ASSUME missed' < Keep PROVE p \in Kept
      <4>1. p \in kept /\ Cardinality(Newer) < Keep - 1
        BY <1>1, <1>3, <3>1, Bounds DEF BuildsAgree, PinnedIsKept, TypeOK
      <4> QED
        BY <4>1 DEF Kept, NewerThan
    <3> QED
      BY <1>3, <3>1
  <2>4. thread # "swap"
    BY DEF Fetch, ToolIsWatched
  <2> QED
    BY <1>3, <2>1, <2>2, <2>3, <2>4 DEF BuildsAgree, PinnedIsKept
<1> QED
  BY <1>2, <1>3 DEF Fetch

LEMMA NextBuilds ==
  ASSUME TypeOK, OneRefresh, ToolIsWatched, BuildsAgree, PinnedIsKept, [Next]_vars
  PROVE  BuildsAgree' /\ PinnedIsKept'
<1>1. CASE Fetch
  BY <1>1, FetchKeeps
<1>2. CASE Swap
  <2>1. app' = app + 1 /\ app' # app /\ pinned' = pinned /\ pinned[app + 1] = disk /\ missed' = 0 /\ thread' # "swap"
        /\ UNCHANGED data
    BY <1>2 DEF Swap, BuildsAgree, TypeOK
  <2>2. NewerThan(disk) = {}
    <3>1. \A j \in kept : j <= disk /\ j \in Int /\ disk \in Int
      BY DEF TypeOK
    <3> QED
      BY <3>1 DEF NewerThan
  <2> QED
    BY <2>1, <2>2, FS_EmptySet DEF BuildsAgree, PinnedIsKept, NewerThan, data
<1>3. CASE Build
  <2>1. pinned'[app] = pinned[app] /\ pinned'[app + 1] = disk
    <3>1. app \in 1..MaxApps /\ app + 1 \in 1..MaxApps /\ app + 1 # app
      BY <1>3, Bounds DEF Build, TypeOK
    <3> QED
      BY <1>3, <3>1 DEF Build, TypeOK
  <2> QED
    BY <1>3, <2>1 DEF Build, BuildsAgree, PinnedIsKept, NewerThan, data
<1>4. ASSUME UNCHANGED <<kept, disk, app, pinned, missed>>, thread' = "swap" => thread = "swap"
      PROVE  BuildsAgree' /\ PinnedIsKept'
  BY <1>4 DEF BuildsAgree, PinnedIsKept, NewerThan
<1>5. \/ UNCHANGED <<kept, disk, app, pinned, missed>> /\ (thread' = "swap" => thread = "swap")
      \/ Fetch \/ Swap \/ Build
  BY DEF Next, RequestStep, Arrive, Admit, Answer, Leave, WorkEnds, Ask, StarterStep, Enter, GiveUp,
         Launch, Plan, StoreCheck, ThreadStep, Spawn, Register, CancelAtOnce, Waited, GiveIn, ApplyFails,
         GivesIn, BeginApply, CloseOld, Succeed, ToolEnds, ServerCommits, Close, ShutdownStep, Stop,
         StopKills, CloseApp, Shuts, data, apps, vars
<1> QED
  BY <1>1, <1>2, <1>3, <1>4, <1>5

-----------------------------------------------------------------------------
LEMMA InitInv == Init => IndInv
<1> SUFFICES ASSUME Init PROVE IndInv
  OBVIOUS
<1>1. OneRefresh /\ ToolIsWatched /\ OpenApps
  BY DEF Init, OneRefresh, Entered, ToolIsWatched, OpenApps, NewState, Busy
<1>2. AdmissionsCounted /\ RefreshIsAlone
  <2>1. InAdmission = {}
    BY DEF Init, InAdmission
  <2> QED
    BY <2>1, FS_EmptySet DEF Init, AdmissionsCounted, RefreshIsAlone
<1>3. BuildsAgree /\ PinnedIsKept
  <2>1. NewerThan(pinned[app]) = {} /\ pinned[app] = 1
    BY Bounds DEF Init, NewerThan
  <2> QED
    <3>1. Cardinality(NewerThan(pinned[app])) = 0 /\ missed = 0
      BY <2>1, FS_EmptySet DEF Init
    <3>2. disk \in kept /\ pinned[app] \in kept /\ thread # "swap"
      BY <2>1 DEF Init
    <3> QED
      BY <3>1, <3>2 DEF BuildsAgree, PinnedIsKept
<1>4. ShutdownLeavesNothing
  BY DEF Init, ShutdownLeavesNothing
<1> QED
  BY <1>1, <1>2, <1>3, <1>4, InitType DEF IndInv

LEMMA NextInv == IndInv /\ [Next]_vars => IndInv'
<1> SUFFICES ASSUME IndInv, [Next]_vars PROVE IndInv'
  OBVIOUS
<1> USE DEF IndInv
<1>1. TypeOK'
  BY NextType
<1>2. OneRefresh' /\ AdmissionsCounted' /\ ToolIsWatched' /\ OpenApps'
  BY NextOneRefresh, NextAdmissions, NextToolIsWatched, NextOpenApps
<1>3. RefreshIsAlone' /\ ShutdownLeavesNothing' /\ BuildsAgree' /\ PinnedIsKept'
  BY <1>2, NextAlone, NextShutdown, NextBuilds
<1> QED
  BY <1>1, <1>2, <1>3

THEOREM Invariance == Spec => []IndInv
BY InitInv, NextInv, PTL DEF Spec

(* Type correctness of the refresh, its containers, clients and tool.      *)
THEOREM TypeCorrect == Spec => []TypeOK
<1>1. IndInv => TypeOK
  BY DEF IndInv
<1> QED
  BY <1>1, Invariance, PTL

(* No computation is caught by a refresh, however admissions, counts and   *)
(* starts interleave (admit_work(), start() of the service).               *)
THEOREM NothingIsCaught == Spec => []RefreshIsAlone
<1>1. IndInv => RefreshIsAlone
  BY DEF IndInv
<1> QED
  BY <1>1, Invariance, PTL

(* The build the app in use reads is on disk for as long as fewer than     *)
(* Keep fetches went by unapplied (gc_table() of ledger_sync).             *)
THEOREM PinnedBuildIsKept == Spec => []PinnedIsKept
<1>1. IndInv => PinnedIsKept
  BY DEF IndInv
<1> QED
  BY <1>1, Invariance, PTL

(* A shutdown stops the tool that is waited for and closes every container *)
(* (stop() of the service, ReloadableApp).                                 *)
THEOREM ShutdownIsClean == Spec => []ShutdownLeavesNothing
<1>1. IndInv => ShutdownLeavesNothing
  BY DEF IndInv
<1> QED
  BY <1>1, Invariance, PTL
=============================================================================
