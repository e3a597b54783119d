-------------------------- MODULE ExperimentsProofs --------------------------
(***************************************************************************)
(* An experiment for any number of trials and windows, with any number of  *)
(* faults, retries and restarts.                                           *)
(*                                                                         *)
(* The argument: a run is handed in for a trial or a window only if the    *)
(* count of its rows is the one that was seen when the trial was pending,  *)
(* so that the row that is no longer the last belongs to a run that has    *)
(* ended; a mark of cancellation is set while no pick is under way, and    *)
(* nothing is handed in after it.                                          *)
(***************************************************************************)
EXTENDS ExperimentsProperties, SequenceTheorems, WellFoundedInduction, TLAPS

Statuses == Live \cup Ended \cup {"interrupted"}

LEMMA ParameterTypes ==
    Trials \in Nat \ {0} /\ Windows \in Nat \ {0} /\ MaxFaults \in Nat /\ MaxRetries \in Nat /\ MaxRestarts \in Nat
PROOF
    BY ExperimentAssumption

-----------------------------------------------------------------------------
(* Sequences of rows.                                                      *)
LEMMA RowAdded ==
    ASSUME NEW S, NEW s \in Seq(S), NEW x \in S
    PROVE  /\ Append(s, x) \in Seq(S) /\ Append(s, x) # <<>>
           /\ Len(s) \in Nat /\ Len(Append(s, x)) = Len(s) + 1
           /\ Last(Append(s, x)) = x
           /\ ToSet(Append(s, x)) = ToSet(s) \cup {x}
           /\ \A i \in 1..Len(s) : Append(s, x)[i] = s[i]
PROOF
<1> DEFINE t == Append(s, x)
<1>1. /\ t \in Seq(S) /\ Len(s) \in Nat /\ Len(t) = Len(s) + 1
      /\ \A i \in 1..Len(s) : t[i] = s[i]
      /\ t[Len(s) + 1] = x
    BY AppendProperties, LenProperties
<1> HIDE DEF t
<1>2. DOMAIN t = 1..(Len(s) + 1) /\ DOMAIN s = 1..Len(s)
    BY <1>1, LenProperties
<1>3. ToSet(t) = ToSet(s) \cup {x}
    BY <1>1, <1>2 DEF ToSet
<1>4. Last(t) = x
    BY <1>1 DEF Last
<1>5. t # <<>>
  <2>1. Len(t) # 0
      BY <1>1
  <2> QED
      BY <2>1, EmptySeq
<1> QED
    BY <1>1, <1>3, <1>4, <1>5 DEF t

LEMMA LastRow ==
    ASSUME NEW S, NEW s \in Seq(S), s # <<>>
    PROVE  Last(s) \in S /\ Last(s) \in ToSet(s)
PROOF
<1>1. Len(s) \in Nat \ {0} /\ DOMAIN s = 1..Len(s)
    BY EmptySeq, LenProperties
<1>2. Len(s) \in 1..Len(s)
    BY <1>1
<1> QED
    BY <1>1, <1>2, ElementOfSeq DEF Last, ToSet

LEMMA RowsAreTyped ==
    ASSUME NEW S, NEW s \in Seq(S)
    PROVE  ToSet(s) \subseteq S
PROOF
    BY LenProperties, ElementOfSeq DEF ToSet

(* The largest of some trials.                                             *)
LEMMA MaxFacts ==
    ASSUME NEW N \in Nat, NEW S \in SUBSET (1..N), S # {}
    PROVE  Max(S) \in S
PROOF
<1> DEFINE R == OpToRel(<, Nat)
           D == {N - x : x \in S}
<1>1. D \subseteq Nat /\ D # {}
  <2>1. \A x \in S : N - x \in Nat
      OBVIOUS
  <2> QED
      BY <2>1
<1>2. \E d \in D : \A e \in D : d <= e
  <2>1. IsWellFoundedOn(R, Nat)
      BY NatLessThanWellFounded
  <2>2. ASSUME NEW n \in Nat, NEW m \in Nat, <<m, n>> \notin R
        PROVE  n <= m
      BY <2>2 DEF OpToRel
  <2> HIDE DEF R, D
  <2>3. \E d \in D : \A e \in D : <<e, d>> \notin R
      BY <1>1, <2>1, WFMin
  <2> QED
      BY <1>1, <2>2, <2>3
<1>3. PICK d \in D : \A e \in D : d <= e
    BY <1>2
<1>4. PICK x \in S : d = N - x
    BY <1>3
<1>5. \A y \in S : x >= y
  <2>1. \A y \in S : N - x <= N - y
      BY <1>3, <1>4
  <2> QED
      BY <2>1
<1> QED
    BY <1>5 DEF Max

-----------------------------------------------------------------------------
(* The runs in the run service go on: none comes alive again, none leaves  *)
(* its interruption, and a new one is known as new or has no row.          *)
RunsGoOn(new) ==
    /\ Len(runs) <= Len(runs')
    /\ \A r \in 1..Len(runs) : /\ runs'[r] = "live" => runs[r] = "live"
                               /\ runs[r] = "interrupted" => runs'[r] = "interrupted"
    /\ \A r \in 1..Len(runs') : r \in 1..Len(runs) \/ r = new \/ r \in strays'
    /\ strays \subseteq strays'

(* What holds of the types of runs and rows after such a step.             *)
RunTypes ==
    /\ runs \in Seq(Statuses) /\ Len(runs) \in Nat
    /\ attempts \in [T -> Seq(0..Len(runs))]
    /\ picks \in [W -> Seq([trial : 0..Trials, run : 0..Len(runs)])]
    /\ scored \subseteq 1..Len(runs) /\ strays \subseteq 1..Len(runs)

LEMMA TypesOfRuns == TypeOK => RunTypes
PROOF
    BY LenProperties DEF TypeOK, RunTypes, Statuses

LEMMA RowsStayTyped ==
    ASSUME RunTypes, runs' \in Seq(Statuses), Len(runs) <= Len(runs')
    PROVE  /\ Len(runs') \in Nat
           /\ attempts \in [T -> Seq(0..Len(runs'))]
           /\ picks \in [W -> Seq([trial : 0..Trials, run : 0..Len(runs')])]
PROOF
<1>1. Len(runs') \in Nat /\ Len(runs) \in Nat
    BY LenProperties
<1>2. 0..Len(runs) \subseteq 0..Len(runs')
    BY <1>1
<1>3. [trial : 0..Trials, run : 0..Len(runs)] \subseteq [trial : 0..Trials, run : 0..Len(runs')]
    BY <1>2
<1>4. \A t \in T : attempts[t] \in Seq(0..Len(runs'))
    BY <1>2, SeqMonotonic DEF RunTypes
<1>5. ASSUME NEW w \in W PROVE picks[w] \in Seq([trial : 0..Trials, run : 0..Len(runs')])
  <2>1. picks[w] \in Seq([trial : 0..Trials, run : 0..Len(runs)])
      BY DEF RunTypes
  <2> QED
      BY <1>3, <2>1, SeqMonotonic
<1> QED
    BY <1>1, <1>4, <1>5 DEF RunTypes

(* The run service takes the run or rejects it; or the call fails.         *)
LEMMA HandInFacts ==
    ASSUME TypeOK, NEW r \in {0, NextRun}, HandIn(r)
    PROVE  /\ RunsGoOn(r) /\ r \in 0..Len(runs')
           /\ runs' \in Seq(Statuses) /\ scored' \subseteq 1..Len(runs') /\ strays' \subseteq 1..Len(runs')
           /\ UNCHANGED faults
PROOF
<1>1. RunTypes /\ "live" \in Statuses
    BY TypesOfRuns DEF Statuses, Live
<1>2. CASE r = NextRun
  <2>1. runs' = Append(runs, "live") /\ UNCHANGED <<scored, strays, faults>> /\ r = Len(runs) + 1
      BY <1>1, <1>2 DEF HandIn, NextRun, RunTypes
  <2>2. /\ runs' \in Seq(Statuses) /\ Len(runs') = Len(runs) + 1
        /\ \A x \in 1..Len(runs) : runs'[x] = runs[x]
      BY <1>1, <2>1, RowAdded DEF RunTypes
  <2> QED
      BY <1>1, <2>1, <2>2 DEF RunTypes, RunsGoOn
<1>3. CASE r = 0 /\ r # NextRun
    BY <1>1, <1>3 DEF HandIn, RunTypes, RunsGoOn
<1> QED
    BY <1>2, <1>3

LEMMA HandInFailsFacts ==
    ASSUME TypeOK, HandInFails
    PROVE  /\ RunsGoOn(0)
           /\ runs' \in Seq(Statuses) /\ scored' \subseteq 1..Len(runs') /\ strays' \subseteq 1..Len(runs')
           /\ faults' \in 0..MaxFaults
PROOF
<1>1. RunTypes /\ "live" \in Statuses
    BY TypesOfRuns DEF Statuses, Live
<1>2. faults' \in 0..MaxFaults /\ scored' = scored
    BY ParameterTypes DEF TypeOK, HandInFails
<1>3. CASE runs' = Append(runs, "live") /\ strays' = strays \cup {NextRun}
  <2>1. /\ runs' \in Seq(Statuses) /\ Len(runs') = Len(runs) + 1
        /\ \A x \in 1..Len(runs) : runs'[x] = runs[x]
      BY <1>1, <1>3, RowAdded DEF RunTypes
  <2>2. strays' \subseteq 1..Len(runs') /\ strays \subseteq strays' /\ Len(runs) + 1 \in strays'
    <3>1. NextRun = Len(runs) + 1 /\ NextRun \in 1..Len(runs')
        BY <1>1, <2>1 DEF RunTypes, NextRun
    <3>2. 1..Len(runs) \subseteq 1..Len(runs')
        BY <1>1, <2>1 DEF RunTypes
    <3> QED
        BY <1>1, <1>3, <3>1, <3>2 DEF RunTypes
  <2>3. scored' \subseteq 1..Len(runs')
      BY <1>1, <1>2, <2>1 DEF RunTypes
  <2>4. RunsGoOn(0)
      BY <1>1, <2>1, <2>2 DEF RunTypes, RunsGoOn
  <2> QED
      BY <1>2, <2>1, <2>2, <2>3, <2>4
<1>4. CASE UNCHANGED <<runs, strays>>
    BY <1>1, <1>2, <1>4 DEF RunTypes, RunsGoOn
<1> QED
    BY <1>3, <1>4 DEF HandInFails

-----------------------------------------------------------------------------
(* The parts of the invariant that a step leaves alone.                    *)
LEMMA DueStays ==
    ASSUME TypeOK, NEW new, RunsGoOn(new), NEW t \in T, attempts'[t] = attempts[t], Pending(t)
    PROVE  Pending(t)'
PROOF
<1>1. RunTypes
    BY TypesOfRuns
<1>2. CASE attempts[t] = <<>>
    BY <1>2 DEF Pending
<1>3. CASE attempts[t] # <<>>
  <2> DEFINE r == Last(attempts[t])
  <2>1. r \in 0..Len(runs) /\ Status(r) = "interrupted"
      BY <1>1, <1>3, LastRow DEF RunTypes, Pending, Of
  <2>2. r # 0 /\ runs[r] = "interrupted"
      BY <2>1 DEF Status
  <2>3. runs'[r] = "interrupted"
      BY <1>1, <2>1, <2>2 DEF RunsGoOn, RunTypes
  <2> QED
      BY <1>3, <2>2, <2>3 DEF Pending, Of, Status
<1> QED
    BY <1>2, <1>3

LEMMA OpenStays ==
    ASSUME TypeOK, NEW new, RunsGoOn(new), NEW w \in W, picks'[w] = picks[w],
           picks[w] # <<>>, PickOf(w) = "interrupted"
    PROVE  PickOf(w)' = "interrupted"
PROOF
<1>1. RunTypes
    BY TypesOfRuns
<1> DEFINE p == Last(picks[w])
<1>2. p.run \in 0..Len(runs) /\ p.trial # 0 /\ Status(p.run) = "interrupted"
  <2>1. picks[w] \in Seq([trial : 0..Trials, run : 0..Len(runs)])
      BY <1>1 DEF RunTypes
  <2>2. p \in [trial : 0..Trials, run : 0..Len(runs)]
      BY <2>1, LastRow
  <2> QED
      BY <2>2 DEF PickOf
<1>3. p.run # 0 /\ runs[p.run] = "interrupted"
    BY <1>2 DEF Status
<1>4. runs'[p.run] = "interrupted"
    BY <1>1, <1>2, <1>3 DEF RunsGoOn, RunTypes
<1> QED
    BY <1>2, <1>3, <1>4 DEF PickOf, Status

(* A step of somebody else, or a step on with less to do.                  *)
RowsGrow ==
    /\ \A t \in T : attempts'[t] = attempts[t] \/ Len(attempts'[t]) > Len(attempts[t])
    /\ \A w \in W : picks'[w] = picks[w] \/ Len(picks'[w]) > Len(picks[w])

LEMMA TasksStayDue ==
    ASSUME TypeOK, TasksAreDue, NEW new, RunsGoOn(new), RowsGrow,
           \A t \in T : Len(attempts'[t]) \in Nat, \A w \in W : Len(picks'[w]) \in Nat,
           sub'.todo \subseteq sub.todo,
           sub'.stage = "submit" => sub.stage = "submit",
           sub'.stage \in {"choose", "picking"} => sub.stage \in {"choose", "picking"}
    PROVE  TasksAreDue'
PROOF
<1>1. /\ \A t \in T : Len(attempts[t]) \in Nat
      /\ \A w \in W : Len(picks[w]) \in Nat
  <2>1. RunTypes
      BY TypesOfRuns
  <2>2. ASSUME NEW t \in T PROVE Len(attempts[t]) \in Nat
    <3>1. attempts[t] \in Seq(0..Len(runs))
        BY <2>1 DEF RunTypes
    <3> QED
        BY <3>1, LenProperties
  <2>3. ASSUME NEW w \in W PROVE Len(picks[w]) \in Nat
    <3>1. picks[w] \in Seq([trial : 0..Trials, run : 0..Len(runs)])
        BY <2>1 DEF RunTypes
    <3> QED
        BY <3>1, LenProperties
  <2> QED
      BY <2>2, <2>3
<1>2. ASSUME sub'.stage = "submit", NEW todo \in sub'.todo
      PROVE  /\ todo \in TrialTasks /\ todo.seen <= Len(attempts'[todo.item])
             /\ todo.seen = Len(attempts'[todo.item]) => Pending(todo.item)'
  <2>1. /\ todo \in TrialTasks /\ todo.seen <= Len(attempts[todo.item])
        /\ todo.seen = Len(attempts[todo.item]) => Pending(todo.item)
      BY <1>2 DEF TasksAreDue
  <2>2. todo.item \in T /\ todo.seen \in Nat
      BY <2>1 DEF TrialTasks
  <2>3. CASE attempts'[todo.item] = attempts[todo.item]
      BY <2>1, <2>2, <2>3, DueStays
  <2>4. CASE Len(attempts'[todo.item]) > Len(attempts[todo.item])
      BY <1>1, <2>1, <2>2, <2>4
  <2> QED
      BY <2>2, <2>3, <2>4 DEF RowsGrow
<1>3. ASSUME sub'.stage \in {"choose", "picking"}, NEW todo \in sub'.todo
      PROVE  /\ todo \in WindowTasks /\ todo.seen <= Len(picks'[todo.item])
             /\ todo.seen = Len(picks'[todo.item]) =>
                  \/ picks'[todo.item] = <<>>
                  \/ PickOf(todo.item)' = "interrupted" /\ todo.trial = Last(picks'[todo.item]).trial
  <2>1. /\ todo \in WindowTasks /\ todo.seen <= Len(picks[todo.item])
        /\ todo.seen = Len(picks[todo.item]) =>
             \/ picks[todo.item] = <<>>
             \/ PickOf(todo.item) = "interrupted" /\ todo.trial = Last(picks[todo.item]).trial
      BY <1>3 DEF TasksAreDue
  <2>2. todo.item \in W /\ todo.seen \in Nat
      BY <2>1 DEF WindowTasks
  <2>3. CASE picks'[todo.item] = picks[todo.item]
      BY <2>1, <2>2, <2>3, OpenStays
  <2>4. CASE Len(picks'[todo.item]) > Len(picks[todo.item])
      BY <1>1, <2>1, <2>2, <2>4
  <2> QED
      BY <2>2, <2>3, <2>4 DEF RowsGrow
<1> QED
    BY <1>2, <1>3 DEF TasksAreDue

(* The runs alive before the step still have the last rows, and the new    *)
(* one, if there is one, gets a last row.                                  *)
LEMMA CurrentStays ==
    ASSUME TypeOK, EveryRunIsCurrent, NEW new, RunsGoOn(new),
           \A t \in T : \/ attempts'[t] = attempts[t]
                        \/ attempts[t] = <<>>
                        \/ Last(attempts[t]) = 0 \/ runs[Last(attempts[t])] # "live",
           \A w \in W : \/ picks'[w] = picks[w]
                        \/ picks[w] = <<>>
                        \/ Last(picks[w]).run = 0 \/ runs[Last(picks[w]).run] # "live",
           \/ new \notin 1..Len(runs') \/ new \in 1..Len(runs)
           \/ \E t \in T : attempts'[t] # <<>> /\ Last(attempts'[t]) = new
           \/ \E w \in W : picks'[w] # <<>> /\ Last(picks'[w]).run = new
    PROVE  EveryRunIsCurrent'
PROOF
<1> SUFFICES ASSUME NEW r \in 1..Len(runs'), runs'[r] = "live", r \notin strays'
             PROVE  \/ \E t \in T : attempts'[t] # <<>> /\ Last(attempts'[t]) = r
                    \/ \E w \in W : picks'[w] # <<>> /\ Last(picks'[w]).run = r
    BY DEF EveryRunIsCurrent
<1>1. CASE r \in 1..Len(runs)
  <2>1. runs[r] = "live" /\ r \notin strays /\ r # 0
      BY <1>1 DEF RunsGoOn
  <2>2. CASE \E t \in T : attempts[t] # <<>> /\ Last(attempts[t]) = r
      BY <2>1, <2>2
  <2>3. CASE \E w \in W : picks[w] # <<>> /\ Last(picks[w]).run = r
      BY <2>1, <2>3
  <2> QED
      BY <1>1, <2>1, <2>2, <2>3 DEF EveryRunIsCurrent
<1>2. CASE r \notin 1..Len(runs)
    BY <1>2 DEF RunsGoOn
<1> QED
    BY <1>1, <1>2

-----------------------------------------------------------------------------
(* Steps of the thread.                                                    *)
Threads == [stage : Stages, todo : SUBSET (TrialTasks \cup WindowTasks), last : BOOLEAN]

LEMMA StageFacts ==
    ASSUME TypeOK, NEW s \in Stages, Stage(s)
    PROVE  sub' \in Threads /\ sub'.stage = s /\ sub'.todo = sub.todo /\ sub'.last = sub.last
PROOF
    BY DEF TypeOK, Stage, Threads

LEMMA DoneFacts ==
    ASSUME TypeOK, NEW todo, Done(todo)
    PROVE  sub' \in Threads /\ sub'.stage = sub.stage /\ sub'.todo \subseteq sub.todo
PROOF
<1>1. sub \in Threads /\ sub' = [sub EXCEPT !.todo = sub.todo \ {todo}]
    BY DEF TypeOK, Done, Threads
<1>2. sub.todo \ {todo} \in SUBSET (TrialTasks \cup WindowTasks)
    BY <1>1 DEF Threads
<1> QED
    BY <1>1, <1>2 DEF Threads

(* The types after a step that hands a run in, or changes what runs.       *)
LEMMA TypesAfter ==
    ASSUME TypeOK, runs' \in Seq(Statuses), Len(runs) <= Len(runs'),
           attempts' \in [T -> Seq(0..Len(runs'))],
           picks' \in [W -> Seq([trial : 0..Trials, run : 0..Len(runs')])],
           cancelledAt' \in BOOLEAN, cancelled' \in BOOLEAN,
           scored' \subseteq 1..Len(runs'), strays' \subseteq 1..Len(runs'),
           sub' \in Threads,
           call' = call \/ call' \in [stage : {"none", "going", "failed", "done"}, left : SUBSET (1..Len(runs'))],
           faults' \in 0..MaxFaults, retries' \in 0..MaxRetries, restarts' \in 0..MaxRestarts
    PROVE  TypeOK'
PROOF
<1>1. call' \in [stage : {"none", "going", "failed", "done"}, left : SUBSET (1..Len(runs'))]
  <2>1. CASE call' = call
    <3>1. /\ call \in [stage : {"none", "going", "failed", "done"}, left : SUBSET (1..Len(runs))]
          /\ Len(runs) \in Nat /\ Len(runs') \in Nat
        BY LenProperties DEF TypeOK, Statuses
    <3>2. 1..Len(runs) \subseteq 1..Len(runs')
        BY <3>1
    <3> QED
        BY <2>1, <3>1, <3>2
  <2> QED
      BY <2>1
<1> QED
    BY <1>1 DEF TypeOK, Threads, Statuses

LEMMA RowLengths ==
    ASSUME NEW n \in Nat, NEW a \in [T -> Seq(0..n)],
           NEW p \in [W -> Seq([trial : 0..Trials, run : 0..n])]
    PROVE  /\ \A t \in T : Len(a[t]) \in Nat
           /\ \A w \in W : Len(p[w]) \in Nat
PROOF
<1>1. ASSUME NEW t \in T PROVE Len(a[t]) \in Nat
  <2>1. a[t] \in Seq(0..n)
      OBVIOUS
  <2> QED
      BY <2>1, LenProperties
<1>2. ASSUME NEW w \in W PROVE Len(p[w]) \in Nat
  <2>1. p[w] \in Seq([trial : 0..Trials, run : 0..n])
      OBVIOUS
  <2> QED
      BY <2>1, LenProperties
<1> QED
    BY <1>1, <1>2

(* A row of a trial whose last run is over, or that has none.              *)
LEMMA AttemptAdded ==
    ASSUME IndInv, NEW t \in T, NEW r \in 0..Len(runs'), RunsGoOn(r), runs' \in Seq(Statuses),
           AddAttempt(t, r), UNCHANGED picks,
           Of(t) # "live"
    PROVE  /\ attempts' \in [T -> Seq(0..Len(runs'))]
           /\ picks' \in [W -> Seq([trial : 0..Trials, run : 0..Len(runs')])]
           /\ RowsGrow /\ EveryRunIsCurrent' /\ SameCellAgain'
PROOF
<1>1. RunTypes /\ Len(runs) <= Len(runs')
    BY TypesOfRuns DEF IndInv, RunsGoOn
<1>2. /\ attempts \in [T -> Seq(0..Len(runs'))] /\ Len(runs') \in Nat
      /\ picks' \in [W -> Seq([trial : 0..Trials, run : 0..Len(runs')])]
    BY <1>1, RowsStayTyped
<1>3. attempts' = [attempts EXCEPT ![t] = Append(attempts[t], r)]
    BY DEF AddAttempt
<1>4. /\ Append(attempts[t], r) \in Seq(0..Len(runs')) /\ Append(attempts[t], r) # <<>>
      /\ Len(Append(attempts[t], r)) > Len(attempts[t]) /\ Last(Append(attempts[t], r)) = r
  <2>1. attempts[t] \in Seq(0..Len(runs')) /\ r \in 0..Len(runs')
      BY <1>2
  <2> DEFINE before == attempts[t]
             S == 0..Len(runs')
  <2> HIDE DEF before, S
  <2>2. /\ Append(before, r) \in Seq(S) /\ Append(before, r) # <<>>
        /\ Last(Append(before, r)) = r
        /\ Len(before) \in Nat /\ Len(Append(before, r)) = Len(before) + 1
    <3>1. before \in Seq(S) /\ r \in S
      BY <2>1 DEF before, S
    <3> QED
      BY ONLY <3>1, RowAdded
  <2> QED
      BY <2>2 DEF before, S
<1>5. /\ attempts' \in [T -> Seq(0..Len(runs'))]
      /\ attempts'[t] = Append(attempts[t], r) /\ \A u \in T \ {t} : attempts'[u] = attempts[u]
    BY <1>2, <1>3, <1>4
<1>6. RowsGrow
    BY <1>4, <1>5 DEF RowsGrow
<1>7. EveryRunIsCurrent'
  <2>1. attempts[t] = <<>> \/ Last(attempts[t]) = 0 \/ runs[Last(attempts[t])] # "live"
      BY DEF Of, Status
  <2>2. attempts'[t] # <<>> /\ Last(attempts'[t]) = r
      BY <1>4, <1>5
  <2>3. /\ \A u \in T : \/ attempts'[u] = attempts[u]
                        \/ attempts[u] = <<>>
                        \/ Last(attempts[u]) = 0 \/ runs[Last(attempts[u])] # "live"
        /\ \A w \in W : picks'[w] = picks[w]
      BY <1>5, <2>1
  <2> QED
      BY <2>2, <2>3, CurrentStays DEF IndInv
<1>8. SameCellAgain'
    BY DEF IndInv, SameCellAgain
<1> QED
    BY <1>2, <1>5, <1>6, <1>7, <1>8

(* A row of a window that has none, or whose last run was interrupted: it  *)
(* is for the trial that was picked before.                                *)
LEMMA PickAdded ==
    ASSUME IndInv, NEW w \in W, NEW t \in 0..Trials, NEW r \in 0..Len(runs'), RunsGoOn(r),
           runs' \in Seq(Statuses), AddPick(w, t, r), UNCHANGED attempts,
           picks[w] = <<>> \/ (PickOf(w) = "interrupted" /\ t = Last(picks[w]).trial)
    PROVE  /\ attempts' \in [T -> Seq(0..Len(runs'))]
           /\ picks' \in [W -> Seq([trial : 0..Trials, run : 0..Len(runs')])]
           /\ RowsGrow /\ EveryRunIsCurrent' /\ SameCellAgain'
PROOF
<1> DEFINE Row == [trial : 0..Trials, run : 0..Len(runs')]
           row == [trial |-> t, run |-> r]
<1>1. RunTypes /\ Len(runs) <= Len(runs')
    BY TypesOfRuns DEF IndInv, RunsGoOn
<1>2. /\ attempts' \in [T -> Seq(0..Len(runs'))] /\ Len(runs') \in Nat
      /\ picks \in [W -> Seq(Row)]
    BY <1>1, RowsStayTyped
<1>3. picks' = [picks EXCEPT ![w] = Append(picks[w], row)] /\ row \in Row /\ row.trial = t /\ row.run = r
    BY DEF AddPick
<1> HIDE DEF Row, row
<1>4. picks[w] \in Seq(Row)
    BY <1>2
<1>5. /\ Append(picks[w], row) \in Seq(Row) /\ Append(picks[w], row) # <<>>
      /\ Len(Append(picks[w], row)) > Len(picks[w]) /\ Last(Append(picks[w], row)) = row
      /\ ToSet(Append(picks[w], row)) = ToSet(picks[w]) \cup {row}
    BY <1>3, <1>4, RowAdded
<1>6. /\ picks' \in [W -> Seq(Row)]
      /\ picks'[w] = Append(picks[w], row) /\ \A v \in W \ {w} : picks'[v] = picks[v]
    BY <1>2, <1>3, <1>5
<1>7. RowsGrow
    BY <1>5, <1>6 DEF RowsGrow
<1>8. EveryRunIsCurrent'
  <2>1. picks[w] = <<>> \/ Last(picks[w]).run = 0 \/ runs[Last(picks[w]).run] # "live"
      BY DEF PickOf, Status
  <2>2. picks'[w] # <<>> /\ Last(picks'[w]).run = r
      BY <1>3, <1>5, <1>6
  <2>3. /\ \A v \in W : \/ picks'[v] = picks[v]
                        \/ picks[v] = <<>>
                        \/ Last(picks[v]).run = 0 \/ runs[Last(picks[v]).run] # "live"
        /\ \A u \in T : attempts'[u] = attempts[u]
      BY <1>6, <2>1
  <2> QED
      BY <2>2, <2>3, CurrentStays DEF IndInv
<1>9. SameCellAgain'
  <2>1. \A p \in ToSet(picks[w]) : p.trial = t
    <3>1. CASE picks[w] = <<>>
      <4>1. ToSet(<<>>) = {}
          BY EmptySeq DEF ToSet
      <4> QED
          BY <3>1, <4>1
    <3>2. CASE picks[w] # <<>> /\ t = Last(picks[w]).trial
      <4>1. Last(picks[w]) \in ToSet(picks[w])
          BY <1>4, <3>2, LastRow
      <4> QED
          BY <3>2, <4>1 DEF IndInv, SameCellAgain
    <3> QED
        BY <3>1, <3>2
  <2> QED
      BY <1>3, <1>5, <1>6, <2>1 DEF IndInv, SameCellAgain
<1> QED
    BY <1>2, <1>6, <1>7, <1>8, <1>9 DEF Row

(* A step that adds no row.                                                *)
LEMMA NothingAdded ==
    ASSUME IndInv, NEW new, RunsGoOn(new), new \notin 1..Len(runs') \/ new \in 1..Len(runs),
           runs' \in Seq(Statuses), UNCHANGED <<attempts, picks>>
    PROVE  /\ attempts' \in [T -> Seq(0..Len(runs'))]
           /\ picks' \in [W -> Seq([trial : 0..Trials, run : 0..Len(runs')])]
           /\ RowsGrow /\ EveryRunIsCurrent' /\ SameCellAgain'
PROOF
<1>1. RunTypes /\ Len(runs) <= Len(runs')
    BY TypesOfRuns DEF IndInv, RunsGoOn
<1>2. /\ attempts' \in [T -> Seq(0..Len(runs'))]
      /\ picks' \in [W -> Seq([trial : 0..Trials, run : 0..Len(runs')])]
    BY <1>1, RowsStayTyped
<1>3. RowsGrow /\ SameCellAgain'
    BY DEF RowsGrow, IndInv, SameCellAgain
<1>4. EveryRunIsCurrent'
    BY CurrentStays DEF IndInv
<1> QED
    BY <1>2, <1>3, <1>4

(* The marks of a cancellation, and a step that hands nothing in after it. *)
LEMMA CancelStays ==
    ASSUME TypeOK, CancelHolds, NEW new, RunsGoOn(new),
           new \notin 1..Len(runs') \/ new \in 1..Len(runs) \/ ~cancelledAt,
           UNCHANGED <<cancelledAt, cancelled, call>>,
           sub.stage \in {"recover", "off"} => sub'.stage \in {"recover", "off"} \/ ~cancelledAt,
           Held' => Held \/ ~cancelledAt
    PROVE  CancelHolds'
PROOF
<1>1. CASE ~cancelledAt
    BY <1>1 DEF CancelHolds
<1>2. CASE cancelledAt
  <2>1. (cancelledAt => cancelled \/ sub.stage \in {"recover", "off"})'
      BY <1>2 DEF CancelHolds
  <2>2. ~Held'
      BY <1>2 DEF CancelHolds
  <2>3. \A r \in 1..Len(runs') : r \in 1..Len(runs) \/ r \in strays'
      BY <1>2 DEF RunsGoOn
  <2>4. call.stage \in {"going", "done"} =>
          \A r \in 1..Len(runs') : runs'[r] = "live" => r \in strays' \cup call.left
      BY <2>3 DEF CancelHolds, RunsGoOn
  <2> QED
      BY <1>2, <2>1, <2>2, <2>4 DEF CancelHolds
<1> QED
    BY <1>1, <1>2

-----------------------------------------------------------------------------
(* The actions.                                                            *)
LEMMA InitInv == Init => IndInv
PROOF
<1> SUFFICES ASSUME Init PROVE IndInv
    OBVIOUS
<1>1. runs = <<>> /\ Len(runs) = 0 /\ runs \in Seq(Statuses)
    BY EmptySeq DEF Init
<1>2. TypeOK
  <2>1. attempts \in [T -> Seq(0..Len(runs))] /\ picks \in [W -> Seq([trial : 0..Trials, run : 0..Len(runs)])]
      BY EmptySeq DEF Init
  <2>2. sub \in Threads
      BY DEF Init, Threads, Stages
  <2>3. call \in [stage : {"none", "going", "failed", "done"}, left : SUBSET (1..Len(runs))]
      BY DEF Init
  <2>4. cancelledAt \in BOOLEAN /\ cancelled \in BOOLEAN
      BY ZenonT(20) DEF Init
  <2>5. scored \subseteq 1..Len(runs) /\ strays \subseteq 1..Len(runs)
      BY DEF Init
  <2>6. faults \in 0..MaxFaults /\ retries \in 0..MaxRetries /\ restarts \in 0..MaxRestarts
      BY ParameterTypes DEF Init
  <2> QED
      BY <1>1, <2>1, <2>2, <2>3, <2>4, <2>5, <2>6 DEF TypeOK, Statuses, Threads
<1>3. EveryRunIsCurrent
    BY <1>1 DEF EveryRunIsCurrent
<1>4. SameCellAgain
  <2>1. ToSet(<<>>) = {}
      BY EmptySeq DEF ToSet
  <2> QED
      BY <2>1 DEF Init, SameCellAgain
<1>5. TasksAreDue /\ CancelHolds
    BY <1>1 DEF Init, TasksAreDue, CancelHolds, Held
<1> QED
    BY <1>2, <1>3, <1>4, <1>5 DEF IndInv

(* A step of the thread alone, on with what it has to do or to a stage     *)
(* without anything.                                                       *)
LEMMA ThreadMoves ==
    ASSUME IndInv, UNCHANGED <<rows, cancelled, service, call, faults, counts>>,
           sub' \in Threads, TasksAreDue',
           sub.stage \in {"recover", "off"} => sub'.stage \in {"recover", "off"} \/ ~cancelledAt,
           Held' => Held \/ ~cancelledAt
    PROVE  IndInv'
PROOF
<1>1. UNCHANGED <<attempts, picks, cancelledAt, runs, scored, strays, retries, restarts>>
    BY DEF rows, service, counts
<1>2. RunTypes /\ TypeOK
    BY TypesOfRuns DEF IndInv
<1>3. RunsGoOn(0) /\ 0 \notin 1..Len(runs') /\ runs' \in Seq(Statuses) /\ Len(runs) <= Len(runs')
    BY <1>1, <1>2 DEF RunsGoOn, RunTypes
<1>4. /\ attempts' \in [T -> Seq(0..Len(runs'))]
      /\ picks' \in [W -> Seq([trial : 0..Trials, run : 0..Len(runs')])]
      /\ EveryRunIsCurrent' /\ SameCellAgain'
    BY <1>1, <1>3, NothingAdded
<1>5. CancelHolds'
    BY <1>1, <1>2, <1>3, CancelStays DEF IndInv
<1>6. TypeOK'
    BY <1>1, <1>2 DEF TypeOK, Threads
<1> QED
    BY <1>4, <1>5, <1>6 DEF IndInv

LEMMA QuietDue ==
    ASSUME TypeOK, sub'.stage \notin {"submit", "choose", "picking"}
    PROVE  TasksAreDue'
PROOF
    BY DEF TasksAreDue

LEMMA ReadStep == IndInv /\ Read => IndInv'
PROOF
<1> SUFFICES ASSUME IndInv, Read PROVE IndInv'
    OBVIOUS
<1> DEFINE tasks == {[item |-> t, seen |-> Len(attempts[t])] : t \in {u \in T : Pending(u)}}
<1>1. /\ sub.stage = "read" /\ sub' = [stage |-> "submit", last |-> FALSE, todo |-> tasks]
      /\ UNCHANGED <<rows, cancelled, service, call, faults, counts>>
    BY DEF Read
<1>2. UNCHANGED <<attempts, runs>>
    BY <1>1 DEF rows, service
<1>3. \A t \in T : Len(attempts[t]) \in Nat
    BY TypesOfRuns, RowLengths DEF IndInv, RunTypes
<1>4. \A todo \in tasks : /\ todo \in TrialTasks /\ todo.seen = Len(attempts[todo.item]) /\ Pending(todo.item)
    BY <1>3 DEF TrialTasks
<1>5. TasksAreDue'
  <2>1. \A t \in T : Pending(t)' <=> Pending(t)
      BY <1>2 DEF Pending, Of, Status
  <2>2. \A todo \in sub'.todo : /\ todo \in TrialTasks /\ todo.seen <= Len(attempts'[todo.item])
                                /\ Pending(todo.item)'
    <3> SUFFICES ASSUME NEW todo \in tasks
                 PROVE  /\ todo \in TrialTasks /\ todo.seen <= Len(attempts'[todo.item])
                        /\ Pending(todo.item)'
        BY <1>1
    <3>1. todo.item \in T /\ todo.seen = Len(attempts[todo.item]) /\ Pending(todo.item) /\ todo \in TrialTasks
        BY <1>4 DEF TrialTasks
    <3>2. todo.seen <= Len(attempts'[todo.item])
        BY <1>2, <1>3, <3>1
    <3> QED
        BY <2>1, <3>1, <3>2
  <2> QED
      BY <1>1, <2>2 DEF TasksAreDue
<1>6. sub' \in Threads
  <2>1. tasks \in SUBSET (TrialTasks \cup WindowTasks)
      BY <1>4
  <2> HIDE DEF tasks
  <2> QED
      BY <1>1, <2>1 DEF Threads, Stages
<1> QED
    BY <1>1, <1>5, <1>6, ThreadMoves DEF Held

(* The best of some trials, or none.                                       *)
LEMMA ChosenFacts ==
    ASSUME TypeOK, NEW w \in W
    PROVE  /\ Chosen(w) \in 0..Trials
           /\ picks[w] # <<>> => Chosen(w) = Last(picks[w]).trial
PROOF
<1>1. Best(w) \in 0..Trials
  <2> DEFINE cells == {t \in InWindow(w) : Of(t) = "completed" /\ Last(attempts[t]) \in scored}
  <2>1. cells \in SUBSET (1..Trials) /\ Trials \in Nat
      BY ParameterTypes DEF InWindow, T
  <2>2. Best(w) = IF cells = {} THEN 0 ELSE Max(cells)
      BY DEF Best
  <2> HIDE DEF cells
  <2>3. CASE cells = {}
      BY <2>1, <2>2, <2>3
  <2>4. CASE cells # {}
    <3>1. Max(cells) \in cells
        BY <2>1, <2>4, MaxFacts
    <3>2. Best(w) = Max(cells)
        BY <2>2, <2>4
    <3>3. Max(cells) \in 1..Trials
        BY <2>1, <3>1
    <3> HIDE DEF Best
    <3> QED
        BY <2>1, <3>2, <3>3
  <2> QED
      BY <2>3, <2>4
<1>2. picks[w] # <<>> => Last(picks[w]).trial \in 0..Trials
  <2>1. picks[w] \in Seq([trial : 0..Trials, run : 0..Len(runs)])
      BY TypesOfRuns DEF RunTypes
  <2>2. picks[w] # <<>> => Last(picks[w]) \in [trial : 0..Trials, run : 0..Len(runs)]
      BY <2>1, LastRow
  <2> QED
      BY <2>2
<1> QED
    BY <1>1, <1>2 DEF Chosen

LEMMA LookStep == IndInv /\ Look => IndInv'
PROOF
<1> SUFFICES ASSUME IndInv, Look PROVE IndInv'
    OBVIOUS
<1>1. sub.stage = "look" /\ UNCHANGED <<rows, cancelled, service, call, faults, counts>>
    BY DEF Look
<1>2. UNCHANGED <<picks, runs>> /\ TypeOK
    BY <1>1 DEF rows, service, IndInv
<1>3. CASE cancelledAt
  <2>1. Stage("done") /\ "done" \in Stages
      BY <1>3 DEF Look, Stages
  <2>2. sub' \in Threads /\ sub'.stage = "done"
      BY <1>2, <2>1, StageFacts
  <2> QED
      BY <1>1, <1>2, <2>2, QuietDue, ThreadMoves DEF Held
<1>4. CASE ~cancelledAt
  <2> DEFINE tasks == {[item |-> w, seen |-> Len(picks[w]), trial |-> Chosen(w)] : w \in Open}
  <2>1. sub' = [stage |-> "choose", last |-> \A t \in T : Settled(t), todo |-> tasks]
      BY <1>4 DEF Look
  <2>2. \A w \in W : Len(picks[w]) \in Nat /\ Chosen(w) \in 0..Trials
      BY <1>2, TypesOfRuns, RowLengths, ChosenFacts DEF RunTypes
  <2>3. ASSUME NEW w \in Open
        PROVE  w \in W /\ (picks[w] = <<>> \/ (PickOf(w) = "interrupted" /\ Chosen(w) = Last(picks[w]).trial))
    <3>1. w \in W /\ PickOf(w) \in {"none", "interrupted"}
        BY DEF Open
    <3>2. picks[w] # <<>> => PickOf(w) # "none"
      <4>1. ASSUME picks[w] # <<>>, Last(picks[w]).trial # 0 PROVE Status(Last(picks[w]).run) # "none"
        <5>1. picks[w] \in Seq([trial : 0..Trials, run : 0..Len(runs)])
            BY <1>2, <3>1, TypesOfRuns DEF RunTypes
        <5>2. Last(picks[w]) \in [trial : 0..Trials, run : 0..Len(runs)]
            BY <4>1, <5>1, LastRow
        <5>3. Last(picks[w]).run \in 0..Len(runs) /\ runs \in Seq(Statuses) /\ Len(runs) \in Nat
            BY <1>2, <5>2, TypesOfRuns DEF RunTypes
        <5>4. Last(picks[w]).run # 0 => runs[Last(picks[w]).run] \in Statuses
          <6>1. Last(picks[w]).run # 0 => Last(picks[w]).run \in 1..Len(runs)
              BY <5>3
          <6> QED
              BY <5>3, <6>1, ElementOfSeq
        <5> QED
            BY <5>4 DEF Status, Statuses, Live, Ended
      <4> QED
          BY <4>1 DEF PickOf
    <3> QED
        BY <1>2, <3>1, <3>2, ChosenFacts
  <2>4. TasksAreDue'
    <3>1. \A w \in W : PickOf(w)' = PickOf(w)
        BY <1>2 DEF PickOf, Status
    <3>2. ASSUME NEW todo \in tasks
          PROVE  /\ todo \in WindowTasks /\ todo.seen <= Len(picks'[todo.item])
                 /\ \/ picks'[todo.item] = <<>>
                    \/ PickOf(todo.item)' = "interrupted" /\ todo.trial = Last(picks'[todo.item]).trial
      <4>1. PICK w \in Open : todo = [item |-> w, seen |-> Len(picks[w]), trial |-> Chosen(w)]
          OBVIOUS
      <4>2. todo.item = w /\ todo.seen = Len(picks[w]) /\ todo.trial = Chosen(w) /\ w \in W
          BY <2>3, <4>1
      <4>3. todo \in WindowTasks /\ todo.seen <= Len(picks[w])
          BY <2>2, <4>1, <4>2 DEF WindowTasks
      <4> QED
          BY <1>2, <2>3, <3>1, <4>2, <4>3
    <3> HIDE DEF tasks
    <3>3. sub'.stage = "choose" /\ sub'.todo = tasks
        BY <2>1
    <3> QED
        BY <3>2, <3>3 DEF TasksAreDue
  <2>5. sub' \in Threads
    <3>1. tasks \in SUBSET (TrialTasks \cup WindowTasks)
        BY <2>2, <2>3 DEF WindowTasks
    <3> HIDE DEF tasks
    <3> QED
        BY <2>1, <3>1 DEF Threads, Stages
  <2>6. ~Held'
      BY <2>1 DEF Held
  <2> QED
      BY <1>1, <2>4, <2>5, <2>6, ThreadMoves
<1> QED
    BY <1>3, <1>4

-----------------------------------------------------------------------------
(* The thread moves on, with its tasks or without.                         *)
LEMMA LookAgainFacts == IndInv => After \in {"done", "look"} /\ After \in Stages
PROOF
    BY DEF After, Stages

LEMMA MoveOn ==
    ASSUME IndInv, UNCHANGED <<rows, cancelled, service, call, faults, counts>>,
           NEW s \in Stages \ {"submit", "choose", "picking"}, Stage(s),
           sub.stage \notin {"recover", "off"} \/ s = "off" \/ ~cancelledAt
    PROVE  IndInv'
PROOF
<1>1. sub' \in Threads /\ sub'.stage = s
    BY StageFacts DEF IndInv
<1>2. TasksAreDue'
    BY <1>1, QuietDue DEF IndInv
<1> QED
    BY <1>1, <1>2, ThreadMoves DEF Held

LEMMA SubmittedStep == IndInv /\ Submitted => IndInv'
PROOF
<1> SUFFICES ASSUME IndInv, Submitted PROVE IndInv'
    OBVIOUS
<1>1. "look" \in Stages \ {"submit", "choose", "picking"}
    BY DEF Stages
<1> QED
    BY <1>1, MoveOn DEF Submitted

LEMMA PickedStep == IndInv /\ Picked => IndInv'
PROOF
<1> SUFFICES ASSUME IndInv, Picked PROVE IndInv'
    OBVIOUS
<1>1. After \in Stages \ {"submit", "choose", "picking"}
    BY LookAgainFacts
<1>2. Stage(After) /\ sub.stage = "picking" /\ UNCHANGED <<rows, cancelled, service, call, faults, counts>>
    BY DEF Picked
<1> QED
    BY <1>1, <1>2, MoveOn

LEMMA RecoverStep == IndInv /\ Recover => IndInv'
PROOF
<1> SUFFICES ASSUME IndInv, Recover PROVE IndInv'
    OBVIOUS
<1> DEFINE s == IF cancelledAt \/ Completed THEN "off" ELSE "read"
<1>1. s \in Stages \ {"submit", "choose", "picking"} /\ (s = "off" \/ ~cancelledAt)
    BY DEF Stages
<1>2. Stage(s) /\ UNCHANGED <<rows, cancelled, service, call, faults, counts>>
    BY DEF Recover
<1> QED
    BY <1>1, <1>2, MoveOn

LEMMA NoRun ==
    ASSUME TypeOK, UNCHANGED <<rows, service>>
    PROVE  RunsGoOn(0) /\ 0 \notin 1..Len(runs') /\ RowsGrow
           /\ \A t \in T : Len(attempts'[t]) \in Nat
           /\ \A w \in W : Len(picks'[w]) \in Nat
PROOF
<1>1. UNCHANGED <<attempts, picks, runs, strays>> /\ RunTypes
    BY TypesOfRuns DEF rows, service
<1>2. /\ \A t \in T : Len(attempts[t]) \in Nat
      /\ \A w \in W : Len(picks[w]) \in Nat
    BY <1>1, RowLengths DEF RunTypes
<1> QED
    BY <1>1, <1>2 DEF RunsGoOn, RunTypes, RowsGrow

(* A step of the thread on with its tasks, or with fewer of them.          *)
LEMMA TasksGoOn ==
    ASSUME IndInv, UNCHANGED <<rows, cancelled, service, call, faults, counts>>,
           sub' \in Threads, sub'.todo \subseteq sub.todo,
           sub.stage \in {"submit", "choose", "picking"},
           \/ sub'.stage = sub.stage
           \/ sub.stage = "choose" /\ sub'.stage = "picking" /\ ~cancelledAt
    PROVE  IndInv'
PROOF
<1>1. RunsGoOn(0) /\ RowsGrow /\ (\A t \in T : Len(attempts'[t]) \in Nat)
      /\ \A w \in W : Len(picks'[w]) \in Nat
    BY NoRun DEF IndInv
<1>2. TasksAreDue'
    BY <1>1, TasksStayDue DEF IndInv
<1> QED
    BY <1>2, ThreadMoves DEF Held

LEMMA ChooseStep == IndInv /\ Choose => IndInv'
PROOF
<1> SUFFICES ASSUME IndInv, Choose PROVE IndInv'
    OBVIOUS
<1>1. sub.stage = "choose" /\ UNCHANGED <<rows, cancelled, service, call, faults, counts>>
    BY DEF Choose
<1>2. CASE sub.todo # {} /\ ~cancelledAt
  <2>1. Stage("picking") /\ "picking" \in Stages
      BY <1>2 DEF Choose, Stages
  <2>2. sub' \in Threads /\ sub'.stage = "picking" /\ sub'.todo = sub.todo
      BY <2>1, StageFacts DEF IndInv
  <2> QED
      BY <1>1, <1>2, <2>2, TasksGoOn
<1>3. CASE ~(sub.todo # {} /\ ~cancelledAt)
  <2>1. Stage(After)
      BY <1>3 DEF Choose
  <2>2. After \in Stages \ {"submit", "choose", "picking"}
      BY LookAgainFacts
  <2> QED
      BY <1>1, <2>1, <2>2, MoveOn
<1> QED
    BY <1>2, <1>3

(* A step that hands a run in for a row: the rest of the invariant.        *)
LEMMA HandedIn ==
    ASSUME IndInv, NEW r \in {0, NextRun}, HandIn(r),
           attempts' \in [T -> Seq(0..Len(runs'))],
           picks' \in [W -> Seq([trial : 0..Trials, run : 0..Len(runs')])],
           RowsGrow, EveryRunIsCurrent', SameCellAgain',
           UNCHANGED <<cancelledAt, cancelled, call, restarts>>, retries' \in 0..MaxRetries,
           sub' \in Threads, sub'.stage = sub.stage, sub'.todo \subseteq sub.todo,
           ~cancelledAt
    PROVE  IndInv'
PROOF
<1>1. TypeOK /\ TasksAreDue /\ CancelHolds /\ RunTypes
    BY TypesOfRuns DEF IndInv
<1>2. /\ RunsGoOn(r) /\ runs' \in Seq(Statuses) /\ scored' \subseteq 1..Len(runs')
      /\ strays' \subseteq 1..Len(runs') /\ UNCHANGED faults /\ Len(runs') \in Nat
    BY <1>1, HandInFacts, LenProperties
<1>3. Len(runs) <= Len(runs')
    BY <1>2 DEF RunsGoOn
<1>4. TypeOK'
  <2>1. /\ cancelledAt' \in BOOLEAN /\ cancelled' \in BOOLEAN
        /\ call' = call /\ faults' \in 0..MaxFaults /\ restarts' \in 0..MaxRestarts
      BY <1>1, <1>2 DEF TypeOK
  <2> QED
      BY <1>1, <1>2, <1>3, <2>1, TypesAfter
<1>5. CancelHolds'
    BY <1>1, <1>2, CancelStays DEF Held
<1>6. (\A t \in T : Len(attempts'[t]) \in Nat) /\ \A w \in W : Len(picks'[w]) \in Nat
    BY <1>2, RowLengths
<1>7. TasksAreDue'
    BY <1>1, <1>2, <1>6, TasksStayDue
<1> QED
    BY <1>4, <1>5, <1>7 DEF IndInv

(* A step whose call fails.                                                *)
LEMMA HandInFailed ==
    ASSUME IndInv, HandInFails, UNCHANGED <<rows, cancelled, call, restarts>>,
           retries' \in 0..MaxRetries,
           UNCHANGED sub \/ (Stage("stopped") /\ sub.stage \in {"submit", "picking"})
    PROVE  IndInv'
PROOF
<1>1. TypeOK /\ TasksAreDue /\ CancelHolds /\ RunTypes /\ UNCHANGED <<attempts, picks, cancelledAt>>
    BY TypesOfRuns DEF IndInv, rows
<1>2. /\ RunsGoOn(0) /\ runs' \in Seq(Statuses) /\ scored' \subseteq 1..Len(runs')
      /\ strays' \subseteq 1..Len(runs') /\ faults' \in 0..MaxFaults /\ Len(runs') \in Nat
      /\ 0 \notin 1..Len(runs')
    BY <1>1, HandInFailsFacts, LenProperties
<1>3. Len(runs) <= Len(runs')
    BY <1>2 DEF RunsGoOn
<1>4. /\ attempts' \in [T -> Seq(0..Len(runs'))]
      /\ picks' \in [W -> Seq([trial : 0..Trials, run : 0..Len(runs')])]
      /\ RowsGrow /\ EveryRunIsCurrent' /\ SameCellAgain'
    BY <1>1, <1>2, NothingAdded
<1>5. sub' \in Threads /\ sub'.todo \subseteq sub.todo /\ (sub'.stage = sub.stage \/ sub'.stage = "stopped")
      /\ (sub.stage \in {"recover", "off"} => sub'.stage = sub.stage)
  <2>1. CASE UNCHANGED sub
      BY <1>1, <2>1 DEF TypeOK, Threads
  <2>2. CASE Stage("stopped") /\ sub.stage \in {"submit", "picking"}
    <3>1. "stopped" \in Stages
        BY DEF Stages
    <3> QED
        BY <1>1, <2>2, <3>1, StageFacts
  <2> QED
      BY <2>1, <2>2
<1>6. TypeOK'
  <2>1. /\ cancelledAt' \in BOOLEAN /\ cancelled' \in BOOLEAN
        /\ call' = call /\ restarts' \in 0..MaxRestarts
      BY <1>1 DEF TypeOK
  <2> QED
      BY <1>1, <1>2, <1>3, <1>4, <1>5, <2>1, TypesAfter
<1>7. CancelHolds'
    BY <1>1, <1>2, <1>5, CancelStays DEF Held
<1>8. (\A t \in T : Len(attempts'[t]) \in Nat) /\ \A w \in W : Len(picks'[w]) \in Nat
    BY <1>2, <1>4, RowLengths
<1>9. TasksAreDue'
    BY <1>1, <1>2, <1>4, <1>5, <1>8, TasksStayDue
<1> QED
    BY <1>4, <1>6, <1>7, <1>9 DEF IndInv

LEMMA SubmitStep == IndInv /\ Submit => IndInv'
PROOF
<1> SUFFICES ASSUME IndInv, Submit PROVE IndInv'
    OBVIOUS
<1>1. sub.stage = "submit" /\ UNCHANGED <<picks, cancelledAt, cancelled, call, counts>>
    BY DEF Submit
<1>2. UNCHANGED <<retries, restarts>> /\ TypeOK /\ retries' \in 0..MaxRetries
    BY <1>1 DEF counts, IndInv, TypeOK
<1>3. PICK todo \in sub.todo :
     /\ IsFirst(todo)
     /\ \/ /\ ~MayHand(todo) /\ UNCHANGED <<attempts, service, faults>>
           /\ IF cancelled THEN Stage("done") ELSE Done(todo)
        \/ /\ MayHand(todo) /\ \E r \in {0, NextRun} : HandIn(r) /\ AddAttempt(todo.item, r)
           /\ Done(todo)
        \/ /\ MayHand(todo) /\ HandInFails /\ Stage("stopped") /\ UNCHANGED attempts
    BY DEF Submit
<1>4. CASE ~MayHand(todo) /\ UNCHANGED <<attempts, service, faults>>
           /\ IF cancelled THEN Stage("done") ELSE Done(todo)
  <2>1. UNCHANGED <<rows, cancelled, service, call, faults, counts>>
      BY <1>1, <1>4 DEF rows
  <2>2. CASE cancelled
    <3>1. "done" \in Stages \ {"submit", "choose", "picking"} /\ Stage("done")
        BY <1>4, <2>2 DEF Stages
    <3> QED
        BY <1>1, <2>1, <3>1, MoveOn
  <2>3. CASE ~cancelled
    <3>1. sub' \in Threads /\ sub'.stage = sub.stage /\ sub'.todo \subseteq sub.todo
        BY <1>2, <1>4, <2>3, DoneFacts
    <3> QED
        BY <1>1, <2>1, <3>1, TasksGoOn
  <2> QED
      BY <2>2, <2>3
<1>5. CASE MayHand(todo) /\ (\E r \in {0, NextRun} : HandIn(r) /\ AddAttempt(todo.item, r)) /\ Done(todo)
  <2>1. PICK r \in {0, NextRun} : HandIn(r) /\ AddAttempt(todo.item, r)
      BY <1>5
  <2>2. sub' \in Threads /\ sub'.stage = sub.stage /\ sub'.todo \subseteq sub.todo
      BY <1>2, <1>5, DoneFacts
  <2>3. todo.item \in T /\ Pending(todo.item)
      BY <1>1, <1>5 DEF IndInv, TasksAreDue, TrialTasks, MayHand
  <2>4. Of(todo.item) # "live"
      BY <2>3 DEF Pending, Of
  <2>5. ~cancelledAt
      BY <1>1, <1>5 DEF MayHand, IndInv, CancelHolds
  <2>6. RunsGoOn(r) /\ r \in 0..Len(runs') /\ runs' \in Seq(Statuses)
      BY <1>2, <2>1, HandInFacts
  <2>7. /\ attempts' \in [T -> Seq(0..Len(runs'))]
        /\ picks' \in [W -> Seq([trial : 0..Trials, run : 0..Len(runs')])]
        /\ RowsGrow /\ EveryRunIsCurrent' /\ SameCellAgain'
      BY <1>1, <2>1, <2>3, <2>4, <2>6, AttemptAdded
  <2> QED
      BY <1>1, <1>2, <2>1, <2>2, <2>5, <2>7, HandedIn
<1>6. CASE MayHand(todo) /\ HandInFails /\ Stage("stopped") /\ UNCHANGED attempts
  <2>1. UNCHANGED <<rows, cancelled, call, restarts>>
      BY <1>1, <1>2, <1>6 DEF rows
  <2> QED
      BY <1>1, <1>2, <1>6, <2>1, HandInFailed
<1> QED
    BY <1>3, <1>4, <1>5, <1>6

LEMMA PickStep == IndInv /\ Pick => IndInv'
PROOF
<1> SUFFICES ASSUME IndInv, Pick PROVE IndInv'
    OBVIOUS
<1>1. sub.stage = "picking" /\ UNCHANGED <<attempts, cancelledAt, cancelled, call, counts>>
    BY DEF Pick
<1>2. UNCHANGED <<retries, restarts>> /\ TypeOK /\ retries' \in 0..MaxRetries /\ ~cancelledAt
    BY <1>1 DEF counts, IndInv, TypeOK, CancelHolds, Held
<1>3. PICK todo \in sub.todo :
     /\ IsFirst(todo)
     /\ \/ /\ Len(picks[todo.item]) # todo.seen /\ Done(todo) /\ UNCHANGED <<picks, service, faults>>
        \/ /\ Len(picks[todo.item]) = todo.seen /\ todo.trial = 0
           /\ AddPick(todo.item, 0, 0) /\ Done(todo) /\ UNCHANGED <<service, faults>>
        \/ /\ Len(picks[todo.item]) = todo.seen /\ todo.trial # 0
           /\ \E r \in {0, NextRun} : HandIn(r) /\ AddPick(todo.item, todo.trial, r)
           /\ Done(todo)
        \/ /\ Len(picks[todo.item]) = todo.seen /\ todo.trial # 0
           /\ HandInFails /\ Stage("stopped") /\ UNCHANGED picks
    BY DEF Pick
<1>4. /\ todo.item \in W /\ todo.trial \in 0..Trials
      /\ Len(picks[todo.item]) = todo.seen =>
           picks[todo.item] = <<>> \/ (PickOf(todo.item) = "interrupted" /\ todo.trial = Last(picks[todo.item]).trial)
    BY <1>1 DEF IndInv, TasksAreDue, WindowTasks
<1>5. ASSUME NEW r \in {0, NextRun}, HandIn(r), AddPick(todo.item, todo.trial, r), Done(todo),
             Len(picks[todo.item]) = todo.seen
      PROVE  IndInv'
  <2>1. RunsGoOn(r) /\ r \in 0..Len(runs') /\ runs' \in Seq(Statuses)
      BY <1>2, <1>5, HandInFacts
  <2>2. /\ attempts' \in [T -> Seq(0..Len(runs'))]
        /\ picks' \in [W -> Seq([trial : 0..Trials, run : 0..Len(runs')])]
        /\ RowsGrow /\ EveryRunIsCurrent' /\ SameCellAgain'
      BY <1>1, <1>4, <1>5, <2>1, PickAdded
  <2>3. sub' \in Threads /\ sub'.stage = sub.stage /\ sub'.todo \subseteq sub.todo
      BY <1>2, <1>5, DoneFacts
  <2> QED
      BY <1>1, <1>2, <1>5, <2>2, <2>3, HandedIn
<1>6. CASE Len(picks[todo.item]) # todo.seen /\ Done(todo) /\ UNCHANGED <<picks, service, faults>>
  <2>1. UNCHANGED <<rows, cancelled, service, call, faults, counts>>
      BY <1>1, <1>6 DEF rows
  <2>2. sub' \in Threads /\ sub'.stage = sub.stage /\ sub'.todo \subseteq sub.todo
      BY <1>2, <1>6, DoneFacts
  <2> QED
      BY <1>1, <2>1, <2>2, TasksGoOn
<1>7. CASE /\ Len(picks[todo.item]) = todo.seen /\ todo.trial = 0
           /\ AddPick(todo.item, 0, 0) /\ Done(todo) /\ UNCHANGED <<service, faults>>
  <2>1. HandIn(0)
      BY <1>7 DEF HandIn, service
  <2> QED
      BY <1>5, <1>7, <2>1
<1>8. CASE /\ Len(picks[todo.item]) = todo.seen /\ todo.trial # 0
           /\ \E r \in {0, NextRun} : HandIn(r) /\ AddPick(todo.item, todo.trial, r)
           /\ Done(todo)
    BY <1>5, <1>8
<1>9. CASE /\ Len(picks[todo.item]) = todo.seen /\ todo.trial # 0
           /\ HandInFails /\ Stage("stopped") /\ UNCHANGED picks
  <2>1. UNCHANGED <<rows, cancelled, call, restarts>>
      BY <1>1, <1>2, <1>9 DEF rows
  <2> QED
      BY <1>1, <1>2, <1>9, <2>1, HandInFailed
<1> QED
    BY <1>3, <1>6, <1>7, <1>8, <1>9

LEMMA RetryStep == ASSUME IndInv, NEW t \in T, Retry(t) PROVE IndInv'
PROOF
<1>1. /\ retries' = retries + 1 /\ retries < MaxRetries /\ ~cancelledAt
      /\ Of(t) \in {"failed", "cancelled", "interrupted"}
      /\ UNCHANGED <<picks, cancelledAt, cancelled, sub, call, restarts>>
    BY DEF Retry
<1>2. TypeOK /\ sub \in Threads
    BY DEF IndInv, TypeOK, Threads
<1>3. retries' \in 0..MaxRetries
  <2>1. retries \in 0..MaxRetries
      BY <1>2 DEF TypeOK
  <2> QED
      BY <1>1, <2>1, ParameterTypes
<1>4. CASE \E r \in {0, NextRun} : HandIn(r) /\ AddAttempt(t, r)
  <2>1. PICK r \in {0, NextRun} : HandIn(r) /\ AddAttempt(t, r)
      BY <1>4
  <2>2. RunsGoOn(r) /\ r \in 0..Len(runs') /\ runs' \in Seq(Statuses)
      BY <1>2, <2>1, HandInFacts
  <2>3. /\ attempts' \in [T -> Seq(0..Len(runs'))]
        /\ picks' \in [W -> Seq([trial : 0..Trials, run : 0..Len(runs')])]
        /\ RowsGrow /\ EveryRunIsCurrent' /\ SameCellAgain'
      BY <1>1, <2>1, <2>2, AttemptAdded
  <2> QED
      BY <1>1, <1>2, <1>3, <2>1, <2>3, HandedIn
<1>5. CASE HandInFails /\ UNCHANGED attempts
  <2>1. UNCHANGED <<rows, cancelled, call, restarts>>
      BY <1>1, <1>5 DEF rows
  <2> QED
      BY <1>1, <1>2, <1>5, <1>3, <2>1, HandInFailed
<1> QED
    BY <1>4, <1>5 DEF Retry

-----------------------------------------------------------------------------
(* Steps of the others: no row is added.                                   *)
Calls == [stage : {"none", "going", "failed", "done"}, left : SUBSET (1..Len(runs))]

LEMMA NoRowAdded ==
    ASSUME IndInv, RunsGoOn(0), runs' \in Seq(Statuses), UNCHANGED <<attempts, picks>>,
           scored' \subseteq 1..Len(runs'), strays' \subseteq 1..Len(runs'),
           cancelledAt' \in BOOLEAN, cancelled' \in BOOLEAN,
           sub' \in Threads, UNCHANGED sub \/ (sub'.todo = {} /\ sub'.stage = "recover"),
           call' = call \/ call' \in Calls',
           faults' \in 0..MaxFaults, retries' \in 0..MaxRetries, restarts' \in 0..MaxRestarts,
           CancelHolds'
    PROVE  IndInv'
PROOF
<1>1. /\ TypeOK /\ TasksAreDue /\ RunTypes /\ Len(runs) <= Len(runs') /\ Len(runs') \in Nat
      /\ 0 \notin 1..Len(runs')
    BY TypesOfRuns, LenProperties DEF IndInv, RunsGoOn
<1>2. /\ attempts' \in [T -> Seq(0..Len(runs'))]
      /\ picks' \in [W -> Seq([trial : 0..Trials, run : 0..Len(runs')])]
      /\ RowsGrow /\ EveryRunIsCurrent' /\ SameCellAgain'
    BY <1>1, NothingAdded
<1>3. TypeOK'
    BY <1>1, <1>2, TypesAfter DEF Calls
<1>4. (\A t \in T : Len(attempts'[t]) \in Nat) /\ \A w \in W : Len(picks'[w]) \in Nat
    BY <1>1, <1>2, RowLengths
<1>5. TasksAreDue'
    BY <1>1, <1>2, <1>4, TasksStayDue
<1> QED
    BY <1>2, <1>3, <1>5 DEF IndInv

LEMMA SameRuns ==
    ASSUME TypeOK, UNCHANGED service
    PROVE  /\ RunsGoOn(0) /\ runs' \in Seq(Statuses) /\ RunTypes
           /\ scored' \subseteq 1..Len(runs') /\ strays' \subseteq 1..Len(runs')
           /\ UNCHANGED <<runs, scored, strays>>
PROOF
<1>1. UNCHANGED <<runs, scored, strays>> /\ RunTypes
    BY TypesOfRuns DEF service
<1>2. Len(runs) \in Nat /\ runs' = runs /\ strays' = strays
    BY <1>1 DEF RunTypes
<1>3. RunsGoOn(0)
    BY <1>2 DEF RunsGoOn
<1>4. runs' \in Seq(Statuses) /\ scored' \subseteq 1..Len(runs') /\ strays' \subseteq 1..Len(runs')
    BY <1>1 DEF RunTypes
<1> QED
    BY <1>1, <1>3, <1>4

LEMMA Bounded ==
    ASSUME TypeOK
    PROVE  /\ faults \in 0..MaxFaults /\ retries \in 0..MaxRetries /\ restarts \in 0..MaxRestarts
           /\ (UNCHANGED counts => retries' \in 0..MaxRetries /\ restarts' \in 0..MaxRestarts)
           /\ cancelledAt \in BOOLEAN /\ cancelled \in BOOLEAN /\ sub \in Threads
           /\ call \in Calls
PROOF
    BY DEF TypeOK, counts, Threads, Calls

(* The runs that a call of cancel() knows.                                 *)
LEMMA KnownFacts ==
    ASSUME IndInv
    PROVE  /\ Known \subseteq 1..Len(runs)
           /\ \A r \in 1..Len(runs) : runs[r] = "live" => r \in strays \cup Known
PROOF
<1>1. RunTypes /\ EveryRunIsCurrent
    BY TypesOfRuns DEF IndInv
<1>2. ASSUME NEW t \in T, NEW r \in ToSet(attempts[t]) PROVE r \in 0..Len(runs)
  <2>1. attempts[t] \in Seq(0..Len(runs))
      BY <1>1 DEF RunTypes
  <2> QED
      BY <2>1, RowsAreTyped
<1>3. ASSUME NEW w \in W, NEW p \in ToSet(picks[w]) PROVE p.run \in 0..Len(runs)
  <2>1. picks[w] \in Seq([trial : 0..Trials, run : 0..Len(runs)])
      BY <1>1 DEF RunTypes
  <2>2. p \in [trial : 0..Trials, run : 0..Len(runs)]
      BY <2>1, RowsAreTyped
  <2> QED
      BY <2>2
<1> DEFINE ofTrials == UNION {ToSet(attempts[t]) : t \in T}
           ofWindows == {p.run : p \in UNION {ToSet(picks[w]) : w \in W}}
<1>4. Known = {r \in ofTrials \cup ofWindows : r # 0}
    BY DEF Known
<1>5. \A r : r \in ofTrials <=> \E t \in T : r \in ToSet(attempts[t])
    OBVIOUS
<1>6. \A r : r \in ofWindows <=> \E w \in W : \E p \in ToSet(picks[w]) : r = p.run
    OBVIOUS
<1> HIDE DEF ofTrials, ofWindows
<1>7. \A r : r \in Known <=> r # 0 /\ (r \in ofTrials \/ r \in ofWindows)
    BY <1>4
<1>8. ASSUME NEW r \in Known PROVE r \in 1..Len(runs)
  <2>1. r # 0 /\ ((\E t \in T : r \in ToSet(attempts[t])) \/ \E w \in W : \E p \in ToSet(picks[w]) : r = p.run)
      BY <1>7, <1>5, <1>6
  <2>2. r \in 0..Len(runs)
      BY <1>2, <1>3, <2>1
  <2> QED
      BY <1>1, <2>1, <2>2 DEF RunTypes
<1>9. ASSUME NEW r \in 1..Len(runs), runs[r] = "live", r \notin strays PROVE r \in Known
  <2>1. r # 0
      BY <1>1 DEF RunTypes
  <2>2. ASSUME NEW t \in T, attempts[t] # <<>>, Last(attempts[t]) = r PROVE r \in Known
    <3>1. attempts[t] \in Seq(0..Len(runs))
        BY <1>1 DEF RunTypes
    <3>2. r \in ToSet(attempts[t])
        BY <2>2, <3>1, LastRow
    <3> QED
        BY <1>7, <1>5, <2>1, <3>2
  <2>3. ASSUME NEW w \in W, picks[w] # <<>>, Last(picks[w]).run = r PROVE r \in Known
    <3>1. picks[w] \in Seq([trial : 0..Trials, run : 0..Len(runs)])
        BY <1>1 DEF RunTypes
    <3>2. Last(picks[w]) \in ToSet(picks[w])
        BY <2>3, <3>1, LastRow
    <3>3. r \in ofWindows
        BY <1>6, <2>3, <3>2
    <3> QED
        BY <1>7, <2>1, <3>3
  <2> QED
      BY <1>1, <1>9, <2>2, <2>3 DEF EveryRunIsCurrent
<1> QED
    BY <1>8, <1>9

LEMMA CancelStep == IndInv /\ Cancel => IndInv'
PROOF
<1> SUFFICES ASSUME IndInv, Cancel PROVE IndInv'
    OBVIOUS
<1>1. /\ ~Held /\ cancelledAt' = TRUE /\ cancelled' = TRUE /\ call' = [stage |-> "going", left |-> Known]
      /\ UNCHANGED <<attempts, picks, service, sub, faults, counts>> /\ TypeOK
    BY DEF Cancel, IndInv
<1>2. /\ RunsGoOn(0) /\ runs' \in Seq(Statuses) /\ RunTypes
      /\ scored' \subseteq 1..Len(runs') /\ strays' \subseteq 1..Len(runs')
      /\ UNCHANGED <<runs, scored, strays>>
    BY <1>1, SameRuns
<1>3. call' \in Calls'
    BY <1>1, <1>2, KnownFacts DEF Calls
<1>4. CancelHolds'
  <2>1. \A r \in 1..Len(runs') : runs'[r] = "live" => r \in strays' \cup call'.left
      BY <1>1, <1>2, KnownFacts
  <2> QED
      BY <1>1, <2>1 DEF CancelHolds, Held
<1> QED
    BY <1>1, <1>2, <1>3, <1>4, Bounded, NoRowAdded

LEMMA CancelRunStep == ASSUME IndInv, NEW r \in call.left, CancelRun(r) PROVE IndInv'
PROOF
<1>1. /\ call.stage = "going" /\ call' = [call EXCEPT !.left = @ \ {r}]
      /\ UNCHANGED <<rows, cancelled, scored, strays, sub, faults, counts>> /\ TypeOK
      /\ UNCHANGED <<attempts, picks, cancelledAt>>
    BY DEF CancelRun, IndInv, rows
<1>2. RunTypes /\ call \in Calls /\ r \in 1..Len(runs) /\ CancelHolds
    BY <1>1, TypesOfRuns, Bounded DEF Calls, IndInv
<1>3. /\ runs' \in Seq(Statuses) /\ Len(runs') = Len(runs)
      /\ \A x \in 1..Len(runs) : x # r => runs'[x] = runs[x]
      /\ runs'[r] # "live" /\ (runs[r] = "interrupted" => runs'[r] = "interrupted")
  <2>1. CASE runs[r] = "live" /\ \E st \in {"stopping", "others"} : runs' = [runs EXCEPT ![r] = st]
    <3>1. PICK st \in {"stopping", "others"} : runs' = [runs EXCEPT ![r] = st]
        BY <2>1
    <3>2. st \in Statuses /\ st # "live"
        BY DEF Statuses, Live
    <3>3. runs' \in Seq(Statuses) /\ Len(runs') = Len(runs)
        BY <1>2, <3>1, <3>2, ExceptSeq DEF RunTypes
    <3>4. DOMAIN runs = 1..Len(runs)
        BY <1>2, LenProperties DEF RunTypes
    <3>5. runs'[r] = st /\ \A x \in 1..Len(runs) : x # r => runs'[x] = runs[x]
        BY <1>2, <3>1, <3>4
    <3> QED
        BY <2>1, <3>2, <3>3, <3>5
  <2>2. CASE runs[r] # "live" /\ UNCHANGED runs
      BY <1>2, <2>2 DEF RunTypes
  <2> QED
      BY <2>1, <2>2 DEF CancelRun
<1>4. RunsGoOn(0)
  <2>1. Len(runs) \in Nat /\ strays' = strays /\ Len(runs') = Len(runs)
      BY <1>1, <1>2, <1>3 DEF RunTypes
  <2>2. \A x \in 1..Len(runs) : /\ runs'[x] = "live" => runs[x] = "live"
                                /\ runs[x] = "interrupted" => runs'[x] = "interrupted"
      BY <1>3
  <2> QED
      BY <2>1, <2>2 DEF RunsGoOn
<1>5. call' \in Calls' /\ call'.stage = "going" /\ call'.left = call.left \ {r}
    BY <1>1, <1>2, <1>3 DEF Calls
<1>6. scored' \subseteq 1..Len(runs') /\ strays' \subseteq 1..Len(runs')
    BY <1>1, <1>2, <1>3 DEF RunTypes
<1>7. CancelHolds'
  <2>1. \A x \in 1..Len(runs') : runs'[x] = "live" => x \in strays' \cup call'.left
      BY <1>1, <1>2, <1>3, <1>5 DEF CancelHolds
  <2>2. cancelledAt' /\ (cancelledAt' => cancelled' \/ sub'.stage \in {"recover", "off"}) /\ ~Held'
      BY <1>1, <1>2 DEF CancelHolds, Held
  <2> QED
      BY <1>5, <2>1, <2>2 DEF CancelHolds
<1> QED
    BY <1>1, <1>3, <1>4, <1>5, <1>6, <1>7, Bounded, NoRowAdded

LEMMA CancelEndsStep == IndInv /\ CancelEnds => IndInv'
PROOF
<1> SUFFICES ASSUME IndInv, CancelEnds PROVE IndInv'
    OBVIOUS
<1>1. /\ call.stage = "going" /\ UNCHANGED <<rows, cancelled, service, sub, counts>> /\ TypeOK
      /\ UNCHANGED <<attempts, picks, cancelledAt>>
    BY DEF CancelEnds, IndInv, rows
<1>2. /\ RunsGoOn(0) /\ runs' \in Seq(Statuses) /\ RunTypes
      /\ scored' \subseteq 1..Len(runs') /\ strays' \subseteq 1..Len(runs')
      /\ UNCHANGED <<runs, scored, strays>>
    BY <1>1, SameRuns
<1>3. call \in Calls /\ CancelHolds
    BY <1>1, Bounded DEF IndInv
<1>4. /\ faults' \in 0..MaxFaults /\ call' \in Calls'
      /\ \/ call'.stage = "failed"
         \/ call'.stage = "done" /\ call'.left = {} /\ call.left = {}
  <2>1. CASE call.left = {} /\ call' = [call EXCEPT !.stage = "done"] /\ UNCHANGED faults
    <3>1. faults' \in 0..MaxFaults
        BY <1>1, <2>1, Bounded
    <3> QED
        BY <1>2, <1>3, <2>1, <3>1 DEF Calls
  <2>2. CASE faults < MaxFaults /\ faults' = faults + 1 /\ call' = [stage |-> "failed", left |-> {}]
    <3>1. faults' \in 0..MaxFaults
        BY <1>1, <2>2, Bounded, ParameterTypes
    <3> QED
        BY <2>2, <3>1 DEF Calls
  <2> QED
      BY <2>1, <2>2 DEF CancelEnds
<1>5. CancelHolds'
    BY <1>1, <1>2, <1>3, <1>4 DEF CancelHolds, Held
<1> QED
    BY <1>1, <1>2, <1>4, <1>5, Bounded, NoRowAdded

LEMMA RunEndsStep == ASSUME IndInv, NEW r \in 1..Len(runs), RunEnds(r) PROVE IndInv'
PROOF
<1>1. /\ UNCHANGED <<rows, cancelled, strays, sub, call, faults, counts>> /\ TypeOK
      /\ UNCHANGED <<attempts, picks, cancelledAt>>
    BY DEF RunEnds, IndInv, rows
<1>2. RunTypes /\ CancelHolds
    BY <1>1, TypesOfRuns DEF IndInv
<1>3. PICK st \in {"completed", "failed", "cancelled"} : runs' = [runs EXCEPT ![r] = st]
    BY DEF RunEnds
<1>4. /\ runs[r] \in Live /\ (scored' = scored \/ scored' = scored \cup {r})
    BY DEF RunEnds, Live
<1>5. /\ runs' \in Seq(Statuses) /\ Len(runs') = Len(runs)
      /\ \A x \in 1..Len(runs) : x # r => runs'[x] = runs[x]
      /\ runs'[r] # "live" /\ runs[r] # "interrupted"
  <2>1. st \in Statuses /\ st # "live"
      BY DEF Statuses, Ended
  <2>2. runs' \in Seq(Statuses) /\ Len(runs') = Len(runs)
      BY <1>2, <1>3, <2>1, ExceptSeq DEF RunTypes
  <2>3. DOMAIN runs = 1..Len(runs)
      BY <1>2, LenProperties DEF RunTypes
  <2>4. runs'[r] = st /\ \A x \in 1..Len(runs) : x # r => runs'[x] = runs[x]
      BY <1>2, <1>3, <2>3
  <2> QED
      BY <1>4, <2>1, <2>2, <2>4 DEF Live
<1>6. RunsGoOn(0)
  <2>1. Len(runs) \in Nat /\ strays' = strays /\ Len(runs') = Len(runs)
      BY <1>1, <1>2, <1>5 DEF RunTypes
  <2>2. \A x \in 1..Len(runs) : /\ runs'[x] = "live" => runs[x] = "live"
                                /\ runs[x] = "interrupted" => runs'[x] = "interrupted"
      BY <1>5
  <2> QED
      BY <2>1, <2>2 DEF RunsGoOn
<1>7. scored' \subseteq 1..Len(runs') /\ strays' \subseteq 1..Len(runs')
    BY <1>1, <1>2, <1>4, <1>5 DEF RunTypes
<1>8. CancelHolds'
  <2>1. call.stage \in {"going", "done"} =>
          \A x \in 1..Len(runs') : runs'[x] = "live" => x \in strays' \cup call'.left
      BY <1>1, <1>2, <1>5 DEF CancelHolds
  <2> QED
      BY <1>1, <1>2, <2>1 DEF CancelHolds, Held
<1> QED
    BY <1>1, <1>5, <1>6, <1>7, <1>8, Bounded, NoRowAdded

LEMMA RestartStep == IndInv /\ Restart => IndInv'
PROOF
<1> SUFFICES ASSUME IndInv, Restart PROVE IndInv'
    OBVIOUS
<1>1. /\ restarts < MaxRestarts /\ restarts' = restarts + 1 /\ cancelled' = FALSE
      /\ runs' = [r \in 1..Len(runs) |-> IF runs[r] \in Live THEN "interrupted" ELSE runs[r]]
      /\ call' = [stage |-> IF call.stage = "going" THEN "failed" ELSE call.stage, left |-> {}]
      /\ sub' = [stage |-> "recover", todo |-> {}, last |-> FALSE]
      /\ UNCHANGED <<attempts, picks, cancelledAt, scored, strays, faults, retries>> /\ TypeOK
    BY DEF Restart, IndInv, rows
<1>2. RunTypes /\ CancelHolds /\ call \in Calls
    BY <1>1, TypesOfRuns, Bounded DEF IndInv
<1>3. \A x \in 1..Len(runs) : runs[x] \in Statuses
  <2>1. runs \in Seq(Statuses)
      BY <1>2 DEF RunTypes
  <2> QED
      BY <2>1, ElementOfSeq
<1>4. /\ runs' \in Seq(Statuses) /\ Len(runs') = Len(runs)
      /\ \A x \in 1..Len(runs) : /\ runs'[x] # "live"
                                 /\ runs[x] = "interrupted" => runs'[x] = "interrupted"
  <2>1. Len(runs) \in Nat
      BY <1>2 DEF RunTypes
  <2>2. \A x \in 1..Len(runs) : /\ runs'[x] \in Statuses /\ runs'[x] # "live"
                                /\ runs[x] = "interrupted" => runs'[x] = "interrupted"
      BY <1>1, <1>3 DEF Statuses, Live, Ended
  <2>3. runs' \in [1..Len(runs) -> Statuses]
      BY <1>1, <2>2
  <2>4. runs' \in Seq(Statuses) /\ Len(runs') = Len(runs)
      BY <2>1, <2>3, IsASeq, LenProperties
  <2> QED
      BY <2>2, <2>4
<1>5. RunsGoOn(0)
  <2>1. Len(runs) \in Nat /\ strays' = strays /\ Len(runs') = Len(runs)
      BY <1>1, <1>2, <1>4 DEF RunTypes
  <2> QED
      BY <1>4, <2>1 DEF RunsGoOn
<1>6. sub' \in Threads /\ sub'.todo = {} /\ sub'.stage = "recover"
    BY <1>1 DEF Threads, Stages
<1>7. /\ call' \in Calls' /\ call'.left = {}
      /\ call'.stage # "going" /\ (call'.stage = "done" => call.stage = "done")
    BY <1>1, <1>2 DEF Calls
<1>8. scored' \subseteq 1..Len(runs') /\ strays' \subseteq 1..Len(runs')
    BY <1>1, <1>2, <1>4 DEF RunTypes
<1>9. restarts' \in 0..MaxRestarts /\ retries' \in 0..MaxRetries /\ faults' \in 0..MaxFaults
  <2>1. restarts \in 0..MaxRestarts /\ retries \in 0..MaxRetries /\ faults \in 0..MaxFaults
      BY <1>1, Bounded
  <2> QED
      BY <1>1, <2>1, ParameterTypes
<1>10. CancelHolds'
    BY <1>1, <1>2, <1>4, <1>6, <1>7 DEF CancelHolds, Held
<1>11. cancelledAt' \in BOOLEAN /\ cancelled' \in BOOLEAN
    BY <1>1, Bounded
<1> QED
    BY <1>1, <1>4, <1>5, <1>6, <1>7, <1>8, <1>9, <1>10, <1>11, NoRowAdded

-----------------------------------------------------------------------------
LEMMA StutterStep == IndInv /\ UNCHANGED vars => IndInv'
PROOF
<1> SUFFICES ASSUME IndInv, UNCHANGED vars PROVE IndInv'
    OBVIOUS
<1>1. UNCHANGED <<rows, cancelled, service, sub, call, faults, counts>>
    BY DEF vars
<1>2. TypeOK /\ UNCHANGED <<attempts, picks, cancelledAt>>
    BY <1>1 DEF IndInv, rows
<1>3. /\ RunsGoOn(0) /\ runs' \in Seq(Statuses)
      /\ scored' \subseteq 1..Len(runs') /\ strays' \subseteq 1..Len(runs')
      /\ UNCHANGED <<runs, scored, strays>>
    BY <1>1, <1>2, SameRuns
<1>4. CancelHolds'
    BY <1>1, <1>2, <1>3 DEF IndInv, CancelHolds, Held
<1> QED
    BY <1>1, <1>2, <1>3, <1>4, Bounded, NoRowAdded

LEMMA NextInv == IndInv /\ [Next]_vars => IndInv'
PROOF
<1> SUFFICES ASSUME IndInv, [Next]_vars PROVE IndInv'
    OBVIOUS
<1>1. CASE Submission
    BY <1>1, ReadStep, SubmitStep, SubmittedStep, LookStep, ChooseStep, PickStep, PickedStep, RecoverStep
    DEF Submission
<1>2. CASE Restart
    BY <1>2, RestartStep
<1>3. CASE \E t \in T : Retry(t)
    BY <1>3, RetryStep
<1>4. CASE Cancel \/ CancelEnds
    BY <1>4, CancelStep, CancelEndsStep
<1>5. CASE \E r \in call.left : CancelRun(r)
    BY <1>5, CancelRunStep
<1>6. CASE \E r \in 1..Len(runs) : RunEnds(r)
    BY <1>6, RunEndsStep
<1>7. CASE UNCHANGED vars
    BY <1>7, StutterStep
<1> QED
    BY <1>1, <1>2, <1>3, <1>4, <1>5, <1>6, <1>7 DEF Next

LEMMA Invariance == Spec => []IndInv
PROOF
    BY InitInv, NextInv, PTL DEF Spec

(* The types of the rows, of the runs and of what the thread is to do.     *)
THEOREM TypeCorrect == Spec => []TypeOK
PROOF
<1>1. IndInv => TypeOK
    BY DEF IndInv
<1> QED
    BY <1>1, Invariance, PTL

(* However many retries, restarts and failing calls come while the thread  *)
(* submits and picks (_submit(), advance(), retry()), what computes for    *)
(* the experiment is the last run of a trial or of a window.               *)
THEOREM NothingComputesTwice == Spec => []EveryRunIsCurrent
PROOF
<1>1. IndInv => EveryRunIsCurrent
    BY DEF IndInv
<1> QED
    BY <1>1, Invariance, PTL

(* A cancel() that has returned has reached every run (cancel()): none is  *)
(* computing for the experiment, and none will.                            *)
THEOREM CancelIsComplete == Spec => []CancelReachesAll
PROOF
<1>1. IndInv => CancelReachesAll
    BY DEF IndInv, CancelHolds, CancelReachesAll
<1> QED
    BY <1>1, Invariance, PTL

(* A window that is validated again is validated with the trial that was   *)
(* picked for it (advance()).                                              *)
THEOREM ValidationKeepsItsCell == Spec => []SameCellAgain
PROOF
<1>1. IndInv => SameCellAgain
    BY DEF IndInv
<1> QED
    BY <1>1, Invariance, PTL
=============================================================================
