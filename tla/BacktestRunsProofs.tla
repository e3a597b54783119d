------------------------- MODULE BacktestRunsProofs -------------------------
(***************************************************************************)
(* The safety of the waiting queue and of the run service for any number   *)
(* of runs, experiments and slots, and with any number of faults and       *)
(* restarts.  In order: what each operation of the queue does; the queue   *)
(* alone (RunQueueSpec), its shape (QInv) and its fairness (Passed); the   *)
(* inductive invariant IndInv of the service, action by action; the slots  *)
(* (SlotInv); the results (NoStrayResult); lanes and controls              *)
(* (ControlInv); the memory hold (HoldInv); the refinement of              *)
(* RunLifecycle.                                                           *)
(***************************************************************************)
EXTENDS BacktestRunsProperties, RunQueueSpec, SumProofs, SequenceTheorems

(* x stands before y in a line.                                            *)
Ahead(s, x, y) == \E i, j \in 1..Len(s) : i < j /\ s[i] = x /\ s[j] = y

(* Removing an element of a sequence without repetitions.                  *)
LEMMA RemoveFirstFacts ==
    ASSUME NEW S, NEW s \in Seq(S), NEW e, Contains(s, e), Once(s)
    PROVE  LET t == RemoveFirst(s, e) IN
           /\ t \in Seq(S)
           /\ Len(t) = Len(s) - 1
           /\ Once(t)
           /\ \A x : Contains(t, x) <=> Contains(s, x) /\ x # e
           /\ \A x, y : Ahead(t, x, y) => Ahead(s, x, y)
PROOF
<1> DEFINE I == {i \in 1..Len(s) : s[i] = e}
           k == Min(I)
           t == RemoveAt(s, k)
<1>1. Len(s) \in Nat /\ \A i \in 1..Len(s) : s[i] \in S
    BY LenProperties, ElementOfSeq
<1>2. I # {} /\ I \subseteq Nat
    BY <1>1 DEF Contains
<1>3. k \in I
    BY <1>2, LeastExists DEF Min
<1>4. RemoveFirst(s, e) = t
    BY <1>2 DEF RemoveFirst, SelectInSeq, Contains
<1>5. k \in 1..Len(s) /\ s[k] = e
    BY <1>3
<1> HIDE DEF k, I
<1>6. /\ t \in Seq(S)
      /\ Len(t) = Len(s) - 1
      /\ \A i \in 1..Len(t) : t[i] = IF i < k THEN s[i] ELSE s[i + 1]
  <2> DEFINE s1 == SubSeq(s, 1, k - 1)
             s2 == SubSeq(s, k + 1, Len(s))
  <2>1. /\ s1 \in Seq(S)
        /\ Len(s1) = k - 1
        /\ \A i \in 1..(k - 1) : s1[i] = s[i]
    BY <1>1, <1>5, SubSeqProperties
  <2>2. /\ s2 \in Seq(S)
        /\ Len(s2) = Len(s) - k
        /\ \A i \in 1..(Len(s) - k) : s2[i] = s[k + i]
    BY <1>1, <1>5, SubSeqProperties
  <2>3. t = s1 \o s2
    BY DEF RemoveAt
  <2> HIDE DEF s1, s2, t
  <2>4. /\ t \in Seq(S)
        /\ Len(t) = Len(s1) + Len(s2)
        /\ \A i \in 1..(Len(s1) + Len(s2)) :
             t[i] = IF i <= Len(s1) THEN s1[i] ELSE s2[i - Len(s1)]
    BY <2>1, <2>2, <2>3, ConcatProperties
  <2>5. k \in Nat /\ Len(s1) + Len(s2) = Len(s) - 1
    BY <1>1, <1>5, <2>1, <2>2
  <2>6. ASSUME NEW i \in 1..(Len(s) - 1)
        PROVE  t[i] = IF i < k THEN s[i] ELSE s[i + 1]
    <3>1. CASE i < k
      <4>1. t[i] = s1[i]
        BY <2>1, <2>4, <2>5, <3>1
      <4> QED
        BY <2>1, <2>5, <3>1, <4>1
    <3>2. CASE ~(i < k)
      <4>1. t[i] = s2[i - (k - 1)]
        BY <2>1, <2>4, <2>5, <3>2
      <4>2. i - (k - 1) \in 1..(Len(s) - k) /\ k + (i - (k - 1)) = i + 1
        BY <1>1, <2>5, <3>2
      <4>3. s2[i - (k - 1)] = s[k + (i - (k - 1))]
        BY <2>2, <4>2
      <4> QED
        BY <3>2, <4>1, <4>2, <4>3
    <3> QED
      BY <3>1, <3>2
  <2> QED
    BY <2>4, <2>5, <2>6
<1> HIDE DEF t
<1>7. Once(t)
  <2>1. SUFFICES ASSUME NEW i \in 1..Len(t), NEW j \in 1..Len(t), t[i] = t[j]
                 PROVE  i = j
    BY DEF Once
  <2> DEFINE at(n) == IF n < k THEN n ELSE n + 1
  <2>2. at(i) \in 1..Len(s) /\ at(j) \in 1..Len(s) /\ s[at(i)] = s[at(j)]
    BY <1>1, <1>5, <1>6, <2>1
  <2>3. at(i) = at(j)
    BY <2>2 DEF Once
  <2> QED
    BY <1>1, <1>5, <1>6, <2>3
<1>8. ASSUME NEW x PROVE Contains(t, x) <=> Contains(s, x) /\ x # e
  <2>1. ASSUME Contains(t, x) PROVE Contains(s, x) /\ x # e
    <3>1. PICK i \in 1..Len(t) : t[i] = x
      BY <2>1 DEF Contains
    <3> DEFINE n == IF i < k THEN i ELSE i + 1
    <3>2. n \in 1..Len(s) /\ n # k /\ s[n] = x
      BY <1>1, <1>5, <1>6, <3>1
    <3> HIDE DEF n
    <3> QED
      BY <1>5, <3>2 DEF Contains, Once
  <2>2. ASSUME Contains(s, x), x # e PROVE Contains(t, x)
    <3>1. PICK i \in 1..Len(s) : s[i] = x
      BY <2>2 DEF Contains
    <3>2. CASE i < k
      BY <1>1, <1>5, <1>6, <3>1, <3>2 DEF Contains
    <3>3. CASE i > k
      <4>1. i - 1 \in 1..Len(t) /\ t[i - 1] = x
        BY <1>1, <1>5, <1>6, <3>1, <3>3
      <4> QED
        BY <4>1 DEF Contains
    <3> QED
      BY <1>1, <1>5, <2>2, <3>1, <3>2, <3>3
  <2> QED
    BY <2>1, <2>2
<1>9. ASSUME NEW x, NEW y, Ahead(t, x, y) PROVE Ahead(s, x, y)
  <2>1. PICK i \in 1..Len(t), j \in 1..Len(t) : i < j /\ t[i] = x /\ t[j] = y
    BY <1>9 DEF Ahead
  <2> DEFINE at(n) == IF n < k THEN n ELSE n + 1
  <2>2. at(i) \in 1..Len(s) /\ at(j) \in 1..Len(s) /\ s[at(i)] = x /\ s[at(j)] = y
    BY <1>1, <1>5, <1>6, <2>1
  <2>3. at(i) < at(j)
    BY <1>1, <1>5, <1>6, <2>1
  <2> QED
    BY <2>2, <2>3 DEF Ahead
<1> QED
    BY <1>4, <1>6, <1>7, <1>8, <1>9

LEMMA AppendFacts ==
    ASSUME NEW S, NEW s \in Seq(S), NEW e \in S
    PROVE  /\ Append(s, e) \in Seq(S)
           /\ Append(s, e) # <<>>
           /\ \A x : Contains(Append(s, e), x) <=> Contains(s, x) \/ x = e
           /\ Once(s) /\ ~Contains(s, e) => Once(Append(s, e))
           /\ \A x, y : Ahead(Append(s, e), x, y) /\ y # e => Ahead(s, x, y)
PROOF
<1> DEFINE t == Append(s, e)
<1>1. /\ Len(s) \in Nat
      /\ t \in Seq(S)
      /\ Len(t) = Len(s) + 1
      /\ \A i \in 1..Len(s) : t[i] = s[i]
      /\ t[Len(s) + 1] = e
    BY AppendProperties, LenProperties
<1>2. t # <<>>
    BY <1>1, EmptySeq
<1> HIDE DEF t
<1>3. ASSUME NEW x PROVE Contains(t, x) <=> Contains(s, x) \/ x = e
  <2>1. ASSUME NEW i \in 1..Len(t), t[i] = x PROVE Contains(s, x) \/ x = e
    BY <1>1, <2>1 DEF Contains
  <2>2. ASSUME NEW i \in 1..Len(s), s[i] = x PROVE Contains(t, x)
    BY <1>1, <2>2 DEF Contains
  <2>3. Contains(t, e)
    BY <1>1 DEF Contains
  <2> QED
    BY <2>1, <2>2, <2>3 DEF Contains
<1>4. ASSUME Once(s), ~Contains(s, e) PROVE Once(t)
    BY <1>1, <1>4 DEF Once, Contains
<1>5. ASSUME NEW x, NEW y, Ahead(t, x, y), y # e PROVE Ahead(s, x, y)
  <2>1. PICK i \in 1..Len(t), j \in 1..Len(t) : i < j /\ t[i] = x /\ t[j] = y
    BY <1>5 DEF Ahead
  <2>2. i \in 1..Len(s) /\ j \in 1..Len(s)
    BY <1>1, <1>5, <2>1
  <2> QED
    BY <1>1, <2>1, <2>2 DEF Ahead
<1> QED
    BY <1>1, <1>2, <1>3, <1>4, <1>5 DEF t

LEMMA TailFacts ==
    ASSUME NEW S, NEW s \in Seq(S), s # <<>>, Once(s)
    PROVE  /\ Tail(s) \in Seq(S)
           /\ Head(s) \in S
           /\ Contains(s, Head(s))
           /\ Once(Tail(s))
           /\ \A x : Contains(Tail(s), x) <=> Contains(s, x) /\ x # Head(s)
PROOF
<1> DEFINE t == Tail(s)
<1>1. /\ Len(s) \in Nat \ {0}
      /\ t \in Seq(S)
      /\ Head(s) \in S
      /\ Len(t) = Len(s) - 1
      /\ \A i \in 1..Len(t) : t[i] = s[i + 1]
    BY HeadTailProperties, EmptySeq
<1>2. Head(s) = s[1]
    BY <1>1
<1> HIDE DEF t
<1>3. Once(t)
  <2>1. SUFFICES ASSUME NEW i \in 1..Len(t), NEW j \in 1..Len(t), t[i] = t[j]
                 PROVE  i = j
    BY DEF Once
  <2>2. i + 1 \in 1..Len(s) /\ j + 1 \in 1..Len(s) /\ s[i + 1] = s[j + 1]
    BY <1>1, <2>1
  <2>3. i + 1 = j + 1
    BY <2>2 DEF Once
  <2> QED
    BY <1>1, <2>3
<1>4. ASSUME NEW x PROVE Contains(t, x) <=> Contains(s, x) /\ x # Head(s)
  <2>1. ASSUME NEW i \in 1..Len(t), t[i] = x PROVE Contains(s, x) /\ x # Head(s)
    <3>1. i + 1 \in 1..Len(s) /\ s[i + 1] = x /\ i + 1 # 1 /\ 1 \in 1..Len(s)
      BY <1>1, <2>1
    <3> QED
      BY <1>2, <3>1 DEF Contains, Once
  <2>2. ASSUME NEW i \in 1..Len(s), s[i] = x, x # Head(s) PROVE Contains(t, x)
    <3>1. i - 1 \in 1..Len(t) /\ (i - 1) + 1 = i
      BY <1>1, <1>2, <2>2
    <3>2. t[i - 1] = x
      BY <1>1, <2>2, <3>1
    <3> QED
      BY <3>1, <3>2 DEF Contains
  <2> QED
    BY <2>1, <2>2 DEF Contains
<1> QED
    BY <1>1, <1>2, <1>3, <1>4 DEF t, Contains

-----------------------------------------------------------------------------
(* A lane is empty exactly if no run is in it.                             *)
LEMMA LaneNotEmpty ==
    ASSUME NEW S, NEW s \in Seq(S)
    PROVE  s # <<>> <=> \E x \in S : Contains(s, x)
PROOF
<1>1. s = <<>> => Len(s) = 0
    BY EmptySeq
<1>2. s # <<>> => Len(s) \in Nat \ {0}
    BY EmptySeq
<1>3. \A i \in 1..Len(s) : s[i] \in S
    BY ElementOfSeq
<1> QED
    BY <1>1, <1>2, <1>3 DEF Contains

LEMMA EmptyQueueGood == Good(EmptyQueue) /\ \A r : ~InQueue(EmptyQueue, r)
PROOF
<1>1. User \in Lanes /\ Len(<<>>) = 0
    BY DEF User, Lanes
<1>2. EmptyQueue \in Queue
    BY EmptySeq DEF EmptyQueue, Queue
<1>3. \A x : ~Contains(<<>>, x)
    BY <1>1 DEF Contains
<1>4. Once(<<>>)
    BY <1>1 DEF Once
<1> QED
    BY <1>2, <1>3, <1>4 DEF Good, EmptyQueue, WaitsOnce, OrderIsLanes, InQueue, InLane

(* `configure' and `forget' move nobody.                                   *)
LEMMA ConfigureFacts ==
    ASSUME NEW q, Good(q), NEW e \in Experiments, NEW pause \in BOOLEAN, NEW w \in Nat \ {0}
    PROVE  /\ Good(Configure(q, e, pause, w))
           /\ Configure(q, e, pause, w).items = q.items
PROOF
<1>1. q \in Queue
    BY DEF Good
<1>2. /\ Configure(q, e, pause, w) \in Queue
      /\ Configure(q, e, pause, w).items = q.items
      /\ Configure(q, e, pause, w).order = q.order
    BY <1>1 DEF Configure, Queue
<1> QED
    BY <1>2 DEF Good, WaitsOnce, OrderIsLanes, InLane

LEMMA ForgetFacts ==
    ASSUME NEW q, Good(q), NEW S \in SUBSET Experiments
    PROVE  /\ Good(Forget(q, S))
           /\ Forget(q, S).items = q.items
PROOF
<1>1. q \in Queue
    BY DEF Good
<1> DEFINE p  == q.paused \ S
           ws == [x \in Experiments |-> IF x \in S THEN 1 ELSE q.weight[x]]
           sv == [l \in Lanes |-> IF l \in S THEN 0 ELSE q.served[l]]
<1>2. p \in SUBSET Experiments /\ ws \in [Experiments -> Nat \ {0}]
    BY <1>1 DEF Queue
<1>3. sv \in [Lanes -> Nat]
    BY <1>1 DEF Queue
<1>4. Forget(q, S) = [q EXCEPT !.paused = p, !.weight = ws, !.served = sv]
    BY DEF Forget
<1> HIDE DEF p, ws, sv
<1>5. /\ Forget(q, S) \in Queue
      /\ Forget(q, S).items = q.items
      /\ Forget(q, S).order = q.order
    BY <1>1, <1>2, <1>3, <1>4 DEF Queue
<1> QED
    BY <1>5 DEF Good, WaitsOnce, OrderIsLanes, InLane

(* What they do to the controls.                                           *)
LEMMA ConfigureControls ==
    ASSUME NEW q \in Queue, NEW e \in Experiments, NEW pause \in BOOLEAN, NEW w \in Nat \ {0}
    PROVE  /\ e \in Configure(q, e, pause, w).paused <=> pause
           /\ Configure(q, e, pause, w).weight[e] = w
           /\ \A f \in Experiments \ {e} :
                /\ f \in Configure(q, e, pause, w).paused <=> f \in q.paused
                /\ Configure(q, e, pause, w).weight[f] = q.weight[f]
PROOF
<1> DEFINE p  == IF pause THEN q.paused \cup {e} ELSE q.paused \ {e}
           ws == [q.weight EXCEPT ![e] = w]
<1>1. Configure(q, e, pause, w).paused = p /\ Configure(q, e, pause, w).weight = ws
    BY DEF Configure, Queue
<1>2. ws[e] = w /\ \A f \in Experiments \ {e} : ws[f] = q.weight[f]
    BY DEF Queue
<1> QED
    BY <1>1, <1>2

LEMMA ForgetControls ==
    ASSUME NEW q \in Queue, NEW S \in SUBSET Experiments
    PROVE  \A e \in Experiments :
             /\ e \in Forget(q, S).paused <=> e \in q.paused /\ e \notin S
             /\ Forget(q, S).weight[e] = IF e \in S THEN 1 ELSE q.weight[e]
PROOF
<1> DEFINE ws == [x \in Experiments |-> IF x \in S THEN 1 ELSE q.weight[x]]
<1>1. Forget(q, S).paused = q.paused \ S /\ Forget(q, S).weight = ws
    BY DEF Forget, Queue
<1> QED
    BY <1>1

-----------------------------------------------------------------------------
LEMMA PushFacts ==
    ASSUME NEW q, Good(q), NEW run \in Runs, NEW l \in Lanes, ~InQueue(q, run)
    PROVE  /\ Good(Push(q, run, l))
           /\ \A x : \A m \in Lanes :
                InLane(Push(q, run, l), x, m) <=> InLane(q, x, m) \/ (x = run /\ m = l)
           /\ Push(q, run, l).paused = q.paused
           /\ Push(q, run, l).weight = q.weight
PROOF
<1> DEFINE p     == Push(q, run, l)
           lane  == Append(q.items[l], run)
           order == IF q.items[l] = <<>> THEN Append(q.order, l) ELSE q.order
<1>1. /\ q \in Queue
      /\ q.order \in Seq(Lanes)
      /\ q.items \in [Lanes -> Seq(Runs)]
      /\ q.items[l] \in Seq(Runs)
      /\ ~Contains(q.items[l], run)
      /\ Once(q.items[l])
      /\ Once(q.order)
      /\ \A m \in Lanes : Contains(q.order, m) <=> q.items[m] # <<>>
    BY DEF Good, Queue, WaitsOnce, OrderIsLanes, InQueue, InLane
<1>2. /\ lane \in Seq(Runs)
      /\ lane # <<>>
      /\ \A x : Contains(lane, x) <=> Contains(q.items[l], x) \/ x = run
      /\ Once(lane)
    BY <1>1, AppendFacts
<1>3. /\ order \in Seq(Lanes)
      /\ \A m : Contains(order, m) <=> Contains(q.order, m) \/ m = l
      /\ Once(order)
    BY <1>1, AppendFacts
<1>4. p = [q EXCEPT !.order = order, !.items = [q.items EXCEPT ![l] = lane]]
    BY DEF Push
<1> HIDE DEF lane, order, p
<1>5. /\ p \in Queue
      /\ p.order = order
      /\ p.items = [q.items EXCEPT ![l] = lane]
      /\ p.paused = q.paused
      /\ p.weight = q.weight
    BY <1>1, <1>2, <1>3, <1>4 DEF Queue
<1>6. \A m \in Lanes : p.items[m] = IF m = l THEN lane ELSE q.items[m]
    BY <1>1, <1>5
<1>7. \A x : \A m \in Lanes : InLane(p, x, m) <=> InLane(q, x, m) \/ (x = run /\ m = l)
    BY <1>2, <1>6 DEF InLane
<1>8. WaitsOnce(p)
    BY <1>2, <1>6, <1>7 DEF Good, WaitsOnce, InQueue
<1>9. OrderIsLanes(p)
    BY <1>1, <1>2, <1>3, <1>5, <1>6 DEF OrderIsLanes
<1> QED
    BY <1>5, <1>7, <1>8, <1>9 DEF Good, p

LEMMA RemoveFromFacts ==
    ASSUME NEW q, Good(q), NEW run \in Runs, NEW l \in Lanes, InLane(q, run, l)
    PROVE  /\ Good(RemoveFrom(q, run, l))
           /\ \A x \in Runs, m \in Lanes :
                InLane(RemoveFrom(q, run, l), x, m) <=> InLane(q, x, m) /\ x # run
           /\ RemoveFrom(q, run, l).paused = q.paused
           /\ RemoveFrom(q, run, l).weight = q.weight
PROOF
<1> DEFINE p      == RemoveFrom(q, run, l)
           rest   == RemoveFirst(q.items[l], run)
           order  == IF rest = <<>> THEN RemoveFirst(q.order, l) ELSE q.order
           served == IF rest = <<>> THEN [q.served EXCEPT ![l] = 0] ELSE q.served
<1>1. /\ q \in Queue
      /\ q.order \in Seq(Lanes)
      /\ q.items \in [Lanes -> Seq(Runs)]
      /\ q.served \in [Lanes -> Nat]
      /\ q.items[l] \in Seq(Runs)
      /\ Contains(q.items[l], run)
      /\ Once(q.items[l])
      /\ Once(q.order)
      /\ \A m \in Lanes : Contains(q.order, m) <=> q.items[m] # <<>>
    BY DEF Good, Queue, WaitsOnce, OrderIsLanes, InLane
<1>2. /\ rest \in Seq(Runs)
      /\ Once(rest)
      /\ \A x : Contains(rest, x) <=> Contains(q.items[l], x) /\ x # run
    BY <1>1, RemoveFirstFacts
<1>3. q.items[l] # <<>>
    BY <1>1, LaneNotEmpty
<1>4. /\ order \in Seq(Lanes)
      /\ Once(order)
      /\ \A m : Contains(order, m) <=> Contains(q.order, m) /\ (rest = <<>> => m # l)
    BY <1>1, <1>3, RemoveFirstFacts
<1>5. served \in [Lanes -> Nat]
    BY <1>1
<1>6. p = [q EXCEPT !.items = [q.items EXCEPT ![l] = rest], !.order = order,
                    !.served = served]
    BY DEF RemoveFrom
<1> HIDE DEF rest, order, served, p
<1>7. /\ p \in Queue
      /\ p.order = order
      /\ p.items = [q.items EXCEPT ![l] = rest]
      /\ p.paused = q.paused
      /\ p.weight = q.weight
    BY <1>1, <1>2, <1>4, <1>5, <1>6 DEF Queue
<1>8. \A m \in Lanes : p.items[m] = IF m = l THEN rest ELSE q.items[m]
    BY <1>1, <1>7
<1>9. \A x \in Runs, m \in Lanes : InLane(p, x, m) <=> InLane(q, x, m) /\ x # run
    BY <1>2, <1>8 DEF InLane, Good, WaitsOnce
<1>10. WaitsOnce(p)
    BY <1>2, <1>8, <1>9 DEF Good, WaitsOnce
<1>11. OrderIsLanes(p)
    BY <1>1, <1>3, <1>4, <1>7, <1>8 DEF OrderIsLanes
<1> QED
    BY <1>7, <1>9, <1>10, <1>11 DEF Good, p

LEMMA LaneOfFacts ==
    ASSUME NEW q, NEW run, InQueue(q, run)
    PROVE  LaneOf(q, run) \in Lanes /\ InLane(q, run, LaneOf(q, run))
PROOF
    BY DEF InQueue, LaneOf

(* `remove': the run is gone, and nobody else.                             *)
LEMMA RemoveRunFacts ==
    ASSUME NEW q, Good(q), NEW run \in Runs
    PROVE  /\ Good(RemoveRun(q, run))
           /\ \A x \in Runs, m \in Lanes :
                InLane(RemoveRun(q, run), x, m) <=> InLane(q, x, m) /\ x # run
           /\ RemoveRun(q, run).paused = q.paused
           /\ RemoveRun(q, run).weight = q.weight
PROOF
<1>1. CASE InQueue(q, run)
    BY <1>1, LaneOfFacts, RemoveFromFacts DEF RemoveRun
<1>2. CASE ~InQueue(q, run)
    BY <1>2 DEF RemoveRun, InQueue
<1> QED
    BY <1>1, <1>2

(* `move': the run is in the lane it was moved to, if it waited at all.    *)
LEMMA MoveFacts ==
    ASSUME NEW q, Good(q), NEW run \in Runs, NEW l \in Lanes
    PROVE  /\ Good(Move(q, run, l))
           /\ \A x \in Runs, m \in Lanes :
                InLane(Move(q, run, l), x, m) <=>
                    IF x = run /\ InQueue(q, run) THEN m = l ELSE InLane(q, x, m)
           /\ Move(q, run, l).paused = q.paused
           /\ Move(q, run, l).weight = q.weight
PROOF
<1>1. CASE InQueue(q, run) /\ ~InLane(q, run, l)
  <2> DEFINE p == RemoveRun(q, run)
  <2>1. /\ Good(p)
        /\ \A x \in Runs, m \in Lanes : InLane(p, x, m) <=> InLane(q, x, m) /\ x # run
        /\ p.paused = q.paused
        /\ p.weight = q.weight
    BY RemoveRunFacts
  <2>2. ~InQueue(p, run)
    BY <2>1 DEF InQueue
  <2>3. Move(q, run, l) = Push(p, run, l)
    BY <1>1 DEF Move
  <2> HIDE DEF p
  <2> QED
    BY <1>1, <2>1, <2>2, <2>3, PushFacts
<1>2. CASE ~(InQueue(q, run) /\ ~InLane(q, run, l))
    BY <1>2 DEF Move, InQueue, Good, WaitsOnce
<1> QED
    BY <1>1, <1>2

-----------------------------------------------------------------------------
(* A queue that has a next run has exactly one lane to take it from.       *)
LEMMA NextLaneFacts ==
    ASSUME NEW q, Good(q), NEW experiments \in BOOLEAN, HasNext(q, experiments)
    PROVE  /\ NextLane(q, experiments) \in Lanes
           /\ IsNext(q, experiments, NextLane(q, experiments))
           /\ Ready(q, experiments, NextLane(q, experiments))
PROOF
<1> DEFINE I == {i \in 1..Len(q.order) : Ready(q, experiments, q.order[i])}
<1>1. /\ q.order \in Seq(Lanes)
      /\ Len(q.order) \in Nat
      /\ \A m \in Lanes : Contains(q.order, m) <=> q.items[m] # <<>>
    BY LenProperties DEF Good, Queue, OrderIsLanes
<1>2. PICK l \in Lanes : Ready(q, experiments, l)
    BY DEF HasNext
<1>3. I \subseteq Nat /\ I # {}
    BY <1>1, <1>2 DEF Ready, Contains
<1>4. PICK n \in I : \A m \in I : n <= m
    BY <1>3, LeastExists
<1>5. q.order[n] \in Lanes
    BY <1>1, <1>4, ElementOfSeq
<1>6. IsNext(q, experiments, q.order[n])
  <2>1. ASSUME NEW j \in 1..(n - 1) PROVE ~Ready(q, experiments, q.order[j])
    <3>1. j \in 1..Len(q.order) /\ ~(n <= j)
      BY <1>1, <1>4
    <3> QED
      BY <1>4, <3>1
  <2> QED
    BY <1>4, <2>1 DEF IsNext
<1>7. \E m \in Lanes : IsNext(q, experiments, m)
    BY <1>5, <1>6
<1>8. NextLane(q, experiments) \in Lanes /\ IsNext(q, experiments, NextLane(q, experiments))
    BY <1>7 DEF NextLane
<1> QED
    BY <1>8 DEF IsNext

(* `pop' takes the run that `peek' shows, which waited, and nobody else;   *)
(* it is a run the user waits for or one of an experiment that is not      *)
(* paused.                                                                 *)
LEMMA PopFacts ==
    ASSUME NEW q, Good(q), NEW experiments \in BOOLEAN, HasNext(q, experiments)
    PROVE  LET run == Peek(q, experiments)
               l   == NextLane(q, experiments)
               p   == Pop(q, experiments) IN
           /\ run \in Runs
           /\ l \in Lanes
           /\ InLane(q, run, l)
           /\ l = User \/ (experiments /\ l \notin q.paused)
           /\ Good(p)
           /\ \A x \in Runs, m \in Lanes : InLane(p, x, m) <=> InLane(q, x, m) /\ x # run
           /\ p.paused = q.paused
           /\ p.weight = q.weight
PROOF
<1> DEFINE l      == NextLane(q, experiments)
           run    == Head(q.items[l])
           p      == PopFrom(q, l)
           rest   == Tail(q.items[l])
           taken  == q.served[l] + 1
           turns  == IF l = User THEN q.served ELSE [m \in Lanes |-> 0]
           stays  == rest # <<>> /\ l # User /\ taken < q.weight[l]
           served == IF stays THEN [turns EXCEPT ![l] = taken] ELSE turns
           order  == IF rest = <<>> THEN RemoveFirst(q.order, l)
                     ELSE IF stays THEN q.order
                     ELSE Append(RemoveFirst(q.order, l), l)
<1>1. l \in Lanes /\ Ready(q, experiments, l)
    BY NextLaneFacts
<1> HIDE DEF l
<1>2. /\ q \in Queue
      /\ q.order \in Seq(Lanes)
      /\ q.items \in [Lanes -> Seq(Runs)]
      /\ q.served \in [Lanes -> Nat]
      /\ q.items[l] \in Seq(Runs)
      /\ q.items[l] # <<>>
      /\ Once(q.items[l])
      /\ Once(q.order)
      /\ \A m \in Lanes : Contains(q.order, m) <=> q.items[m] # <<>>
    BY <1>1 DEF Good, Queue, WaitsOnce, OrderIsLanes, Ready
<1>3. /\ rest \in Seq(Runs)
      /\ run \in Runs
      /\ Contains(q.items[l], run)
      /\ Once(rest)
      /\ \A x : Contains(rest, x) <=> Contains(q.items[l], x) /\ x # run
    BY <1>2, TailFacts
<1>4. /\ RemoveFirst(q.order, l) \in Seq(Lanes)
      /\ Once(RemoveFirst(q.order, l))
      /\ \A m : Contains(RemoveFirst(q.order, l), m) <=> Contains(q.order, m) /\ m # l
    BY <1>1, <1>2, RemoveFirstFacts
<1>5. /\ order \in Seq(Lanes)
      /\ Once(order)
      /\ \A m : Contains(order, m) <=> Contains(q.order, m) /\ (rest = <<>> => m # l)
  <2> DEFINE less == RemoveFirst(q.order, l)
  <2>1. /\ Append(less, l) \in Seq(Lanes)
        /\ Once(Append(less, l))
        /\ \A m : Contains(Append(less, l), m) <=> Contains(less, m) \/ m = l
    BY <1>1, <1>4, AppendFacts
  <2> HIDE DEF less
  <2> QED
    BY <1>1, <1>2, <1>4, <2>1 DEF less
<1>6. turns \in [Lanes -> Nat]
    BY <1>2
<1>7. served \in [Lanes -> Nat]
  <2>1. taken \in Nat
    BY <1>1, <1>2
  <2> HIDE DEF taken, turns
  <2> QED
    BY <1>6, <2>1
<1>8. p = [q EXCEPT !.items = [q.items EXCEPT ![l] = rest], !.served = served, !.order = order]
    BY DEF PopFrom
<1> HIDE DEF run, p, rest, taken, turns, stays, served, order
<1>9. /\ p \in Queue
      /\ p.order = order
      /\ p.items = [q.items EXCEPT ![l] = rest]
      /\ p.paused = q.paused
      /\ p.weight = q.weight
    BY <1>2, <1>3, <1>5, <1>7, <1>8 DEF Queue
<1>10. \A m \in Lanes : p.items[m] = IF m = l THEN rest ELSE q.items[m]
    BY <1>1, <1>2, <1>9
<1>11. InLane(q, run, l)
    BY <1>3 DEF InLane
<1>12. \A x \in Runs, m \in Lanes : InLane(p, x, m) <=> InLane(q, x, m) /\ x # run
    BY <1>1, <1>3, <1>10, <1>11 DEF InLane, Good, WaitsOnce
<1>13. WaitsOnce(p)
    BY <1>3, <1>10, <1>12 DEF Good, WaitsOnce
<1>14. OrderIsLanes(p)
    BY <1>1, <1>2, <1>5, <1>9, <1>10 DEF OrderIsLanes
<1>15. Good(p)
    BY <1>9, <1>13, <1>14 DEF Good
<1>16. Peek(q, experiments) = run /\ Pop(q, experiments) = p /\ NextLane(q, experiments) = l
    BY DEF Peek, Pop, run, p, l
<1>17. l = User \/ (experiments /\ l \notin q.paused)
    BY <1>1 DEF Ready
<1> QED
    BY <1>1, <1>3, <1>9, <1>11, <1>12, <1>15, <1>16, <1>17

(* There is one lane to take it from, and forgetting the experiments of    *)
(* empty lanes does not change which.                                      *)
LEMMA OneNext ==
    ASSUME NEW q, Good(q), NEW experiments \in BOOLEAN,
           NEW l, IsNext(q, experiments, l), NEW m, IsNext(q, experiments, m)
    PROVE  l = m
PROOF
<1>1. Len(q.order) \in Nat
    BY LenProperties DEF Good, Queue
<1>2. PICK i \in 1..Len(q.order) : q.order[i] = l /\ Ready(q, experiments, l)
                                   /\ \A j \in 1..(i-1) : ~Ready(q, experiments, q.order[j])
    BY DEF IsNext
<1>3. PICK k \in 1..Len(q.order) : q.order[k] = m /\ Ready(q, experiments, m)
                                   /\ \A j \in 1..(k-1) : ~Ready(q, experiments, q.order[j])
    BY DEF IsNext
<1>4. ~(i < k) /\ ~(k < i)
  <2>1. i < k => i \in 1..(k-1)
      BY <1>1
  <2>2. k < i => k \in 1..(i-1)
      BY <1>1
  <2> QED
      BY <1>2, <1>3, <2>1, <2>2
<1>5. i = k
    BY <1>1, <1>4
<1> QED
    BY <1>2, <1>3, <1>5

LEMMA ForgetNext ==
    ASSUME NEW q, Good(q), NEW S \in SUBSET Experiments, NEW experiments \in BOOLEAN,
           \A e \in S : q.items[e] = <<>>
    PROVE  /\ HasNext(Forget(q, S), experiments) <=> HasNext(q, experiments)
           /\ HasNext(q, experiments) => Peek(Forget(q, S), experiments) = Peek(q, experiments)
PROOF
<1> DEFINE p == Forget(q, S)
<1>1. p.items = q.items /\ p.order = q.order /\ p.paused = q.paused \ S
    BY DEF Forget, Good, Queue
<1>2. Good(p)
    BY ForgetFacts
<1>3. q.order \in Seq(Lanes) /\ Len(q.order) \in Nat
    BY LenProperties DEF Good, Queue
<1> HIDE DEF p
<1>4. \A l \in Lanes : Ready(p, experiments, l) <=> Ready(q, experiments, l)
    BY <1>1 DEF Ready
<1>5. HasNext(p, experiments) <=> HasNext(q, experiments)
    BY <1>4 DEF HasNext
<1>6. ASSUME HasNext(q, experiments) PROVE Peek(p, experiments) = Peek(q, experiments)
  <2>1. ASSUME NEW l \in Lanes, IsNext(p, experiments, l) PROVE IsNext(q, experiments, l)
    <3>1. PICK i \in 1..Len(q.order) : q.order[i] = l /\ Ready(p, experiments, l)
                                       /\ \A j \in 1..(i-1) : ~Ready(p, experiments, q.order[j])
        BY <1>1, <2>1 DEF IsNext
    <3>2. \A j \in 1..(i-1) : q.order[j] \in Lanes
      <4>1. \A j \in 1..(i-1) : j \in 1..Len(q.order)
          BY <1>3
      <4> QED
          BY <1>3, <4>1, ElementOfSeq
    <3> QED
        BY <1>4, <3>1, <3>2 DEF IsNext
  <2>2. /\ NextLane(p, experiments) \in Lanes /\ IsNext(p, experiments, NextLane(p, experiments))
        /\ NextLane(q, experiments) \in Lanes /\ IsNext(q, experiments, NextLane(q, experiments))
      BY <1>2, <1>5, <1>6, NextLaneFacts
  <2>3. NextLane(p, experiments) = NextLane(q, experiments)
      BY <2>1, <2>2, OneNext
  <2> QED
      BY <1>1, <2>3 DEF Peek
<1> QED
    BY <1>5, <1>6 DEF p
-----------------------------------------------------------------------------
QInv == Good(queue) /\ OneTurn(queue)

LEMMA InitQ == QueueInit => QInv
PROOF
    BY EmptyQueueGood DEF QueueInit, QInv, OneTurn, EmptyQueue

(* A queue without turns others do not have.                               *)
LEMMA FewerTurns ==
    ASSUME NEW q, NEW p, OneTurn(q), q \in Queue, p \in Queue,
           \A l \in Lanes : p.served[l] > 0 => q.served[l] > 0
    PROVE  OneTurn(p)
PROOF
    BY DEF OneTurn

LEMMA RemoveTurns ==
    ASSUME NEW q, Good(q), OneTurn(q), NEW run \in Runs
    PROVE  OneTurn(RemoveRun(q, run))
PROOF
<1>1. q \in Queue /\ RemoveRun(q, run) \in Queue
    BY RemoveRunFacts DEF Good
<1>2. \A l \in Lanes : RemoveRun(q, run).served[l] > 0 => q.served[l] > 0
  <2>1. CASE InQueue(q, run)
    <3> DEFINE m == LaneOf(q, run)
    <3>1. RemoveRun(q, run).served \in {q.served, [q.served EXCEPT ![m] = 0]}
      BY <1>1, <2>1 DEF RemoveRun, RemoveFrom, Queue
    <3>2. q.served \in [Lanes -> Nat]
      BY <1>1 DEF Queue
    <3> HIDE DEF m
    <3> QED
      BY <3>1, <3>2
  <2>2. CASE ~InQueue(q, run)
    BY <2>2 DEF RemoveRun
  <2> QED
    BY <2>1, <2>2
<1> QED
    BY <1>1, <1>2, FewerTurns

LEMMA PushTurns ==
    ASSUME NEW q, Good(q), OneTurn(q), NEW run \in Runs, NEW l \in Lanes, ~InQueue(q, run)
    PROVE  OneTurn(Push(q, run, l))
PROOF
<1>1. q \in Queue /\ Push(q, run, l) \in Queue
    BY PushFacts DEF Good
<1>2. Push(q, run, l).served = q.served
    BY <1>1 DEF Push, Queue
<1> QED
    BY <1>2 DEF OneTurn

LEMMA MoveTurns ==
    ASSUME NEW q, Good(q), OneTurn(q), NEW run \in Runs, NEW l \in Lanes
    PROVE  OneTurn(Move(q, run, l))
PROOF
<1>1. Good(RemoveRun(q, run)) /\ ~InQueue(RemoveRun(q, run), run)
    BY RemoveRunFacts DEF InQueue
<1>2. OneTurn(Push(RemoveRun(q, run), run, l))
    BY <1>1, RemoveTurns, PushTurns
<1> QED
    BY <1>2 DEF Move

(* Taking a run from an experiment ends every other turn.                  *)
LEMMA PopTurns ==
    ASSUME NEW q, Good(q), OneTurn(q), NEW experiments \in BOOLEAN, HasNext(q, experiments)
    PROVE  OneTurn(Pop(q, experiments))
PROOF
<1> DEFINE l     == NextLane(q, experiments)
           turns == IF l = User THEN q.served ELSE [m \in Lanes |-> 0]
           stays == Tail(q.items[l]) # <<>> /\ l # User /\ q.served[l] + 1 < q.weight[l]
<1>1. q \in Queue /\ l \in Lanes
    BY PopFacts DEF Good
<1>2. Pop(q, experiments).served = IF stays THEN [turns EXCEPT ![l] = q.served[l] + 1] ELSE turns
    BY <1>1 DEF Pop, PopFrom, Queue
<1>3. q.served \in [Lanes -> Nat]
    BY <1>1 DEF Queue
<1>4. CASE l = User
    BY <1>2, <1>4 DEF OneTurn
<1>5. CASE l # User
  <2>1. \A m \in Lanes \ {l} : Pop(q, experiments).served[m] = 0
    BY <1>1, <1>2, <1>5
  <2> HIDE DEF l
  <2> QED
    BY <2>1 DEF OneTurn
<1> QED
    BY <1>4, <1>5

LEMMA ControlTurns ==
    ASSUME NEW q, Good(q), OneTurn(q), NEW e \in Experiments, NEW pause \in BOOLEAN,
           NEW w \in Nat \ {0}
    PROVE  OneTurn(Configure(q, e, pause, w)) /\ OneTurn(Forget(q, {e}))
PROOF
<1>1. q \in Queue /\ Configure(q, e, pause, w) \in Queue /\ Forget(q, {e}) \in Queue
    BY ConfigureFacts, ForgetFacts DEF Good
<1>2. Configure(q, e, pause, w).served = q.served
    BY <1>1 DEF Configure, Queue
<1>3. Forget(q, {e}).served = [l \in Lanes |-> IF l \in {e} THEN 0 ELSE q.served[l]]
    BY <1>1 DEF Forget, Queue
<1>4. \A l \in Lanes : Forget(q, {e}).served[l] > 0 => q.served[l] > 0
    BY <1>3
<1>5. OneTurn(Configure(q, e, pause, w))
    BY <1>2 DEF OneTurn
<1> QED
    BY <1>1, <1>4, <1>5, FewerTurns

LEMMA NextQ == QInv /\ [QueueNext]_queueVars => QInv'
PROOF
<1> SUFFICES ASSUME QInv, [QueueNext]_queueVars PROVE QInv'
    OBVIOUS
<1> USE DEF QInv
<1>1. ASSUME NEW run \in Runs, CancelRun(run) PROVE QInv'
    BY <1>1, RemoveRunFacts, RemoveTurns DEF CancelRun
<1>2. ASSUME NEW run \in Runs, NEW l \in Lanes, PushRun(run, l) PROVE QInv'
    BY <1>2, PushFacts, PushTurns DEF PushRun
<1>3. ASSUME NEW run \in Runs, NEW l \in Lanes, MoveRun(run, l) PROVE QInv'
    BY <1>3, MoveFacts, MoveTurns DEF MoveRun
<1>4. ASSUME NEW p \in Priorities, NEW pause \in BOOLEAN, ConfigureLane(p[1], pause, p[2])
      PROVE  QInv'
  <2>1. p[1] \in Experiments /\ p[2] \in Nat \ {0}
    BY PrioritiesAssumption
  <2>2. queue' = Configure(queue, p[1], pause, p[2])
    BY <1>4 DEF ConfigureLane
  <2> QED
    BY <2>1, <2>2, ConfigureFacts, ControlTurns
<1>5. ASSUME NEW e \in Experiments, ForgetLane(e) PROVE QInv'
  <2>1. {e} \in SUBSET Experiments
    OBVIOUS
  <2>2. queue' = Forget(queue, {e})
    BY <1>5 DEF ForgetLane
  <2>3. 1 \in Nat \ {0} /\ TRUE \in BOOLEAN
    OBVIOUS
  <2> QED
    BY <2>1, <2>2, <2>3, ForgetFacts, ControlTurns
<1>6. ASSUME NEW experiments \in BOOLEAN, TakeRun(experiments) PROVE QInv'
    BY <1>6, PopFacts, PopTurns DEF TakeRun
<1>7. CASE UNCHANGED queueVars
    BY <1>7 DEF queueVars
<1> QED
    BY <1>1, <1>2, <1>3, <1>4, <1>5, <1>6, <1>7 DEF QueueNext

LEMMA QInvariance == QueueSpec => []QInv
PROOF
<1> QED
    BY InitQ, NextQ, PTL DEF QueueSpec

(* After any sequence of operations a run waits in one place, the line     *)
(* lists exactly the lanes with runs, so that `pop' and `peek' always find *)
(* one, and at most one experiment is in the middle of a turn, whatever    *)
(* the weights.                                                            *)
THEOREM QueueKeepsOrder == QueueSpec => []QueueInOrder
PROOF
<1>1. QInv => QueueInOrder
    BY DEF QInv, Good, WellFormed, SingleTurn, QueueInOrder
<1> QED
    BY <1>1, QInvariance, PTL
-----------------------------------------------------------------------------
(* How often an experiment e may have been passed over by f: by all of f's *)
(* turn once f stands behind it, by the part of the turn f has had if f    *)
(* is the next to be served, and not at all if others go before f.         *)
Foremost(q, f) ==
    /\ Contains(q.order, f) /\ f \notin q.paused
    /\ \A g \in Experiments : Ahead(q.order, g, f) => g \in q.paused

TurnsHad(q, f) == IF q.served[f] < q.weight[f] THEN q.served[f] ELSE q.weight[f] - 1

Turns(q, e, f) ==
    IF ~Ahead(q.order, f, e) THEN q.weight[f]
    ELSE IF Foremost(q, f) THEN TurnsHad(q, f) ELSE 0

Others(e) == Experiments \ {e}

Share(q, e) == SumFunctionOnSet([f \in Experiments |-> Turns(q, e, f)], Others(e))

LEMMA OthersFinite == \A e : IsFiniteSet(Others(e))
BY ExperimentsAreFinite, FS_Subset DEF Others

LEMMA TurnsType ==
    ASSUME NEW q \in Queue, NEW e, NEW f \in Experiments
    PROVE  /\ Turns(q, e, f) \in Nat /\ TurnsHad(q, f) \in Nat
           /\ Turns(q, e, f) <= q.weight[f] /\ TurnsHad(q, f) < q.weight[f]
           /\ q.weight[f] \in Nat \ {0}
PROOF
<1>1. q.weight[f] \in Nat \ {0} /\ q.served[f] \in Nat
    BY DEF Queue, Lanes
<1> QED
    BY <1>1 DEF Turns, TurnsHad

(* Who keeps the place and the turn has no more turns to come.             *)
LEMMA PlaceKept ==
    ASSUME NEW q \in Queue, NEW p \in Queue, p.weight = q.weight,
           NEW e \in Experiments, NEW f \in Others(e),
           Ahead(p.order, f, e) =>
             /\ Ahead(q.order, f, e)
             /\ Foremost(q, f) => Foremost(p, f) /\ q.served[f] <= p.served[f]
    PROVE  Turns(q, e, f) <= Turns(p, e, f)
PROOF
<1>1. f \in Experiments
    BY DEF Others
<1>2. /\ Turns(q, e, f) \in Nat /\ Turns(p, e, f) \in Nat
      /\ Turns(q, e, f) <= q.weight[f] /\ q.weight[f] \in Nat \ {0}
      /\ q.served[f] \in Nat /\ p.served[f] \in Nat
    BY <1>1, TurnsType DEF Queue, Lanes
<1>3. CASE ~Ahead(p.order, f, e)
    BY <1>2, <1>3 DEF Turns
<1>4. CASE Ahead(p.order, f, e)
  <2>1. TurnsHad(q, f) <= TurnsHad(p, f) \/ ~Foremost(q, f)
    BY <1>2, <1>4 DEF TurnsHad
  <2>2. CASE Foremost(q, f)
    BY <1>4, <2>1, <2>2 DEF Turns
  <2>3. CASE ~Foremost(q, f)
    <3>1. Turns(q, e, f) = 0
      BY <1>4, <2>3 DEF Turns
    <3> QED
      BY <1>2, <3>1
  <2> QED
    BY <2>2, <2>3
<1> QED
    BY <1>3, <1>4

(* Nobody but l changes place, and l goes behind all others, if at all.    *)
LineKept(q, p, l) ==
    /\ p.weight = q.weight /\ p.paused = q.paused
    /\ \A g, f \in Experiments : f # l /\ Ahead(p.order, g, f) => Ahead(q.order, g, f)
    /\ l \in Experiments => \A f : ~Ahead(p.order, l, f)

LEMMA AheadIsThere ==
    ASSUME NEW s, NEW x, NEW y, Ahead(s, x, y)
    PROVE  Contains(s, x) /\ Contains(s, y)
BY DEF Ahead, Contains

LEMMA LineKeepsTurns ==
    ASSUME NEW q \in Queue, NEW p \in Queue, NEW l, LineKept(q, p, l),
           NEW e \in Experiments, e # l, NEW f \in Others(e),
           q.served[f] <= p.served[f] \/ ~Ahead(p.order, f, e)
    PROVE  Turns(q, e, f) <= Turns(p, e, f)
PROOF
<1>1. f \in Experiments
    BY DEF Others
<1>2. ASSUME Ahead(p.order, f, e), Foremost(q, f) PROVE Foremost(p, f)
  <2>1. f # l
    BY <1>1, <1>2 DEF LineKept
  <2>2. Contains(p.order, f) /\ f \notin p.paused
    BY <1>2, AheadIsThere DEF Foremost, LineKept
  <2>3. \A g \in Experiments : Ahead(p.order, g, f) => g \in p.paused
    BY <1>1, <1>2, <2>1 DEF Foremost, LineKept
  <2> QED
    BY <2>2, <2>3 DEF Foremost
<1>3. Ahead(p.order, f, e) => Ahead(q.order, f, e)
    BY <1>1 DEF LineKept
<1>4. p.weight = q.weight
    BY DEF LineKept
<1> QED
    BY <1>2, <1>3, <1>4, PlaceKept

(* Nobody stands behind the one that was put at the end of the line.       *)
LEMMA LastInLine ==
    ASSUME NEW S, NEW s \in Seq(S), NEW e \in S, ~Contains(s, e)
    PROVE  \A x : ~Ahead(Append(s, e), e, x)
PROOF
<1>1. /\ Len(s) \in Nat /\ Len(Append(s, e)) = Len(s) + 1
      /\ \A i \in 1..Len(s) : Append(s, e)[i] = s[i]
    BY AppendProperties, LenProperties
<1> DEFINE t == Append(s, e)
<1> HIDE DEF t
<1>2. Len(s) \in Nat /\ Len(t) = Len(s) + 1 /\ \A i \in 1..Len(s) : t[i] = s[i]
    BY <1>1 DEF t
<1>3. ASSUME NEW x, Ahead(t, e, x) PROVE FALSE
  <2>1. PICK i \in 1..Len(t), j \in 1..Len(t) : i < j /\ t[i] = e
    BY <1>3 DEF Ahead
  <2>2. i \in 1..Len(s) /\ s[i] = e
    BY <1>2, <2>1
  <2> QED
    BY <2>2 DEF Contains
<1> QED
    BY <1>3 DEF t

LEMMA PushKeepsTurns ==
    ASSUME NEW q, Good(q), NEW run \in Runs, NEW l \in Lanes, ~InQueue(q, run),
           NEW e \in Experiments, q.items[e] # <<>>, NEW f \in Others(e)
    PROVE  Turns(q, e, f) <= Turns(Push(q, run, l), e, f)
PROOF
<1> DEFINE p == Push(q, run, l)
           m == IF q.items[l] = <<>> THEN l ELSE User
<1>1. q \in Queue /\ p \in Queue /\ p.weight = q.weight /\ p.paused = q.paused
    BY PushFacts DEF Good
<1>2. /\ p.served = q.served
      /\ p.order = IF q.items[l] = <<>> THEN Append(q.order, l) ELSE q.order
    BY <1>1 DEF Push, Queue
<1>3. q.order \in Seq(Lanes) /\ (q.items[l] = <<>> => ~Contains(q.order, l))
    BY DEF Good, Queue, OrderIsLanes
<1> HIDE DEF p
<1>4. LineKept(q, p, m)
  <2>1. CASE q.items[l] = <<>>
    <3>1. \A x, y : Ahead(p.order, x, y) /\ y # l => Ahead(q.order, x, y)
      BY <1>2, <1>3, <2>1, AppendFacts
    <3>2. \A x : ~Ahead(p.order, l, x)
      BY <1>2, <1>3, <2>1, LastInLine
    <3> QED
      BY <1>1, <2>1, <3>1, <3>2 DEF LineKept
  <2>2. CASE q.items[l] # <<>>
    <3>1. User \notin Experiments
      BY ExperimentsAssumption DEF User
    <3> QED
      BY <1>1, <1>2, <2>2, <3>1 DEF LineKept
  <2> QED
    BY <2>1, <2>2
<1>5. e # m
    BY ExperimentsAssumption DEF User
<1>6. q.served[f] <= p.served[f]
    BY <1>1, <1>2 DEF Queue, Others, Lanes
<1> HIDE DEF m
<1>7. Turns(q, e, f) <= Turns(p, e, f)
    BY <1>1, <1>4, <1>5, <1>6, LineKeepsTurns
<1> QED
    BY <1>7 DEF p

LEMMA RemoveKeepsTurns ==
    ASSUME NEW q, Good(q), NEW run \in Runs, NEW e \in Experiments, NEW f \in Others(e)
    PROVE  Turns(q, e, f) <= Turns(RemoveRun(q, run), e, f)
PROOF
<1> DEFINE p == RemoveRun(q, run)
           l == LaneOf(q, run)
           rest == RemoveFirst(q.items[l], run)
<1>1. q \in Queue /\ p \in Queue /\ p.weight = q.weight /\ p.paused = q.paused
    BY RemoveRunFacts DEF Good
<1>2. CASE ~InQueue(q, run)
  <2>1. p = q
    BY <1>2 DEF RemoveRun
  <2>2. Turns(q, e, f) \in Nat
    BY <1>1, TurnsType DEF Others
  <2> QED
    BY <2>1, <2>2
<1>3. CASE InQueue(q, run)
  <2>1. l \in Lanes /\ InLane(q, run, l)
    BY <1>3, LaneOfFacts
  <2>2. /\ p.order = IF rest = <<>> THEN RemoveFirst(q.order, l) ELSE q.order
        /\ p.served = IF rest = <<>> THEN [q.served EXCEPT ![l] = 0] ELSE q.served
    BY <1>1, <1>3 DEF RemoveRun, RemoveFrom, Queue
  <2>3. q.order \in Seq(Lanes) /\ Once(q.order) /\ Contains(q.order, l)
        /\ q.items[l] \in Seq(Runs)
    <3>1. q.order \in Seq(Lanes) /\ q.items[l] \in Seq(Runs) /\ Once(q.order)
      BY <1>1, <2>1 DEF Good, Queue, OrderIsLanes
    <3>2. q.items[l] # <<>>
      BY <2>1, <3>1, LaneNotEmpty DEF InLane
    <3> QED
      BY <2>1, <3>1, <3>2 DEF Good, OrderIsLanes
  <2> HIDE DEF p, l, rest
  <2>4. \A x, y : Ahead(p.order, x, y) => Ahead(q.order, x, y)
    BY <2>2, <2>3, RemoveFirstFacts
  <2>5. User \notin Experiments
    BY ExperimentsAssumption DEF User
  <2>6. LineKept(q, p, User)
    BY <1>1, <2>4, <2>5 DEF LineKept
  <2>7. q.served[f] <= p.served[f] \/ ~Ahead(p.order, f, e)
    <3>1. q.served \in [Lanes -> Nat] /\ f \in Lanes
      BY <1>1 DEF Queue, Others, Lanes
    <3>2. CASE rest = <<>> /\ f = l
      <4>1. ~Contains(p.order, f)
        BY <2>2, <2>3, <3>2, RemoveFirstFacts
      <4> QED
        BY <4>1, AheadIsThere
    <3>3. CASE ~(rest = <<>> /\ f = l)
      BY <2>2, <3>1, <3>3
    <3> QED
      BY <3>2, <3>3
  <2>8. e # User
    BY <2>5
  <2> QED
    BY <1>1, <2>6, <2>7, <2>8, LineKeepsTurns DEF p
<1> QED
    BY <1>2, <1>3 DEF p

(* The experiment a run is taken from stands before all that could be      *)
(* served, and is the foremost of them.                                    *)
LEMMA FirstInLine ==
    ASSUME NEW q, Good(q), NEW experiments \in BOOLEAN, NEW l \in Experiments,
           IsNext(q, experiments, l)
    PROVE  /\ Foremost(q, l)
           /\ \A e \in Experiments \ {l} :
                Contains(q.order, e) /\ e \notin q.paused => Ahead(q.order, l, e)
PROOF
<1>1. /\ q.order \in Seq(Lanes) /\ Len(q.order) \in Nat /\ Once(q.order)
      /\ \A m \in Lanes : Contains(q.order, m) <=> q.items[m] # <<>>
    BY LenProperties DEF Good, Queue, OrderIsLanes
<1>2. PICK i \in 1..Len(q.order) : q.order[i] = l /\ Ready(q, experiments, l)
                                   /\ \A j \in 1..(i-1) : ~Ready(q, experiments, q.order[j])
    BY DEF IsNext
<1>3. l # User /\ experiments /\ q.items[User] = <<>> /\ l \notin q.paused
    BY <1>2, ExperimentsAssumption DEF Ready, User
<1>4. ASSUME NEW e \in Experiments, NEW j \in 1..Len(q.order), q.order[j] = e, j < i
      PROVE  e \in q.paused
  <2>1. e \in Lanes /\ q.items[e] # <<>>
    BY <1>1, <1>4 DEF Lanes, Contains
  <2>2. j \in 1..(i-1)
    BY <1>1, <1>4
  <2> QED
    BY <1>2, <1>3, <1>4, <2>1, <2>2 DEF Ready
<1>5. ASSUME NEW e \in Experiments \ {l}, Contains(q.order, e), e \notin q.paused
      PROVE  Ahead(q.order, l, e)
  <2>1. PICK j \in 1..Len(q.order) : q.order[j] = e
    BY <1>5 DEF Contains
  <2>2. ~(j < i) /\ j # i
    BY <1>2, <1>4, <1>5, <2>1
  <2>3. i < j
    BY <1>1, <2>2
  <2> QED
    BY <1>2, <2>1, <2>3 DEF Ahead
<1>6. ASSUME NEW g \in Experiments, Ahead(q.order, g, l) PROVE g \in q.paused
  <2>1. PICK j \in 1..Len(q.order), k \in 1..Len(q.order) :
          j < k /\ q.order[j] = g /\ q.order[k] = l
    BY <1>6 DEF Ahead
  <2>2. k = i
    BY <1>1, <1>2, <2>1 DEF Once
  <2> QED
    BY <1>4, <2>1, <2>2
<1>7. Contains(q.order, l)
    BY <1>2 DEF Contains
<1> QED
    BY <1>3, <1>5, <1>6, <1>7 DEF Foremost

(* What taking a run makes of the queue, with the lane it was taken from.  *)
Stays(q, l) == Tail(q.items[l]) # <<>> /\ l # User /\ q.served[l] + 1 < q.weight[l]

LEMMA PopIs ==
    ASSUME NEW q, Good(q), NEW experiments \in BOOLEAN, HasNext(q, experiments)
    PROVE  LET l == NextLane(q, experiments)
               p == Pop(q, experiments) IN
           /\ p.order = IF Tail(q.items[l]) = <<>> THEN RemoveFirst(q.order, l)
                        ELSE IF Stays(q, l) THEN q.order
                        ELSE Append(RemoveFirst(q.order, l), l)
           /\ Stays(q, l) => p.served[l] = q.served[l] + 1
           /\ l = User => p.served = q.served
PROOF
<1> DEFINE l == NextLane(q, experiments)
           p == Pop(q, experiments)
<1>0. q \in Queue /\ l \in Lanes
    BY PopFacts DEF Good
<1>1. q \in Queue /\ l \in Lanes /\ q.served \in [Lanes -> Nat]
    BY <1>0 DEF Queue
<1> DEFINE turns == IF l = User THEN q.served ELSE [m \in Lanes |-> 0]
<1>2. /\ p.order = IF Tail(q.items[l]) = <<>> THEN RemoveFirst(q.order, l)
                   ELSE IF Stays(q, l) THEN q.order
                   ELSE Append(RemoveFirst(q.order, l), l)
      /\ p.served = IF Stays(q, l) THEN [turns EXCEPT ![l] = q.served[l] + 1] ELSE turns
    BY <1>1 DEF Pop, PopFrom, Queue, Stays
<1>3. DOMAIN turns = Lanes
    BY <1>1
<1> HIDE DEF turns
<1>4. Stays(q, l) => p.served[l] = q.served[l] + 1
    BY <1>1, <1>2, <1>3
<1>5. l = User => p.served = q.served
    BY <1>2 DEF Stays, turns
<1> QED
    BY <1>2, <1>4, <1>5

LEMMA PopTakesTurn ==
    ASSUME NEW q, Good(q), NEW experiments \in BOOLEAN, HasNext(q, experiments),
           NEW l, l = NextLane(q, experiments), NEW p, p = Pop(q, experiments),
           NEW e \in Experiments, e # l, q.items[e] # <<>>, e \notin q.paused,
           NEW f \in Others(e)
    PROVE  Turns(q, e, f) + (IF f = l THEN 1 ELSE 0) <= Turns(p, e, f)
PROOF
<1>1. /\ q \in Queue /\ p \in Queue /\ p.weight = q.weight /\ p.paused = q.paused
      /\ l \in Lanes /\ IsNext(q, experiments, l) /\ q.items[l] # <<>>
    BY PopFacts, NextLaneFacts DEF Good, Ready
<1>2. /\ p.order = IF Tail(q.items[l]) = <<>> THEN RemoveFirst(q.order, l)
                   ELSE IF Stays(q, l) THEN q.order
                   ELSE Append(RemoveFirst(q.order, l), l)
      /\ Stays(q, l) => p.served[l] = q.served[l] + 1
      /\ l = User => p.served = q.served
    BY PopIs
<1>3. /\ q.order \in Seq(Lanes) /\ Once(q.order) /\ Contains(q.order, l) /\ Contains(q.order, e)
    BY <1>1 DEF Good, Queue, OrderIsLanes, Lanes
<1> DEFINE less == RemoveFirst(q.order, l)
<1>4. /\ less \in Seq(Lanes) /\ ~Contains(less, l)
      /\ \A x, y : Ahead(less, x, y) => Ahead(q.order, x, y)
    BY <1>3, RemoveFirstFacts
<1> HIDE DEF less
<1>5. /\ \A x, y : Ahead(Append(less, l), x, y) /\ y # l => Ahead(less, x, y)
      /\ \A x : ~Ahead(Append(less, l), l, x)
    BY <1>1, <1>4, AppendFacts, LastInLine
<1>6. \A x, y : Ahead(p.order, x, y) /\ y # l => Ahead(q.order, x, y)
    BY <1>2, <1>4, <1>5 DEF less
<1>7. f \in Experiments /\ f # e
    BY DEF Others
<1>8. User \notin Experiments
    BY ExperimentsAssumption DEF User
<1>9. /\ Turns(q, e, f) \in Nat /\ Turns(p, e, f) \in Nat /\ q.served[f] \in Nat
      /\ Turns(q, e, f) <= q.weight[f] /\ q.weight[f] \in Nat \ {0}
    BY <1>1, <1>7, TurnsType DEF Queue, Lanes
<1>10. CASE l = User
  <2>1. LineKept(q, p, l)
    BY <1>1, <1>6, <1>8, <1>10 DEF LineKept
  <2>2. Turns(q, e, f) <= Turns(p, e, f)
    <3>1. q.served[f] <= p.served[f]
      BY <1>2, <1>9, <1>10
    <3> QED
      BY <1>1, <2>1, <3>1, LineKeepsTurns
  <2> QED
    BY <1>7, <1>8, <1>9, <1>10, <2>2
<1>11. CASE l # User /\ f # l
  <2>1. l \in Experiments
    BY <1>1, <1>11 DEF Lanes
  <2>2. Ahead(q.order, f, e) => ~Foremost(q, f)
    <3>1. ASSUME Foremost(q, f) PROVE FALSE
      <4>1. Ahead(q.order, l, f) /\ Foremost(q, l)
        BY <1>1, <1>7, <1>11, <2>1, <3>1, FirstInLine DEF Foremost
      <4> QED
        BY <2>1, <3>1, <4>1 DEF Foremost
    <3> QED
      BY <3>1
  <2>3. Turns(q, e, f) <= Turns(p, e, f)
    <3>1. CASE Ahead(q.order, f, e)
      BY <1>9, <2>2, <3>1 DEF Turns
    <3>2. CASE ~Ahead(q.order, f, e)
      <4>1. Turns(p, e, f) = q.weight[f]
        BY <1>1, <1>6, <3>2 DEF Turns
      <4> QED
        BY <1>9, <4>1
    <3> QED
      BY <3>1, <3>2
  <2> QED
    BY <1>9, <1>11, <2>3
<1>12. CASE l # User /\ f = l
  <2>1. l \in Experiments
    BY <1>1, <1>12 DEF Lanes
  <2>2. Foremost(q, l) /\ Ahead(q.order, l, e)
    BY <1>1, <1>3, <2>1, FirstInLine
  <2>3. Turns(q, e, f) = TurnsHad(q, f)
    BY <1>12, <2>2 DEF Turns
  <2>4. CASE Tail(q.items[l]) # <<>> /\ Stays(q, l)
    <3>1. p.order = q.order /\ p.served[f] = q.served[f] + 1 /\ q.served[f] + 1 < q.weight[f]
      BY <1>2, <1>12, <2>4 DEF Stays
    <3>2. Foremost(p, f) /\ Ahead(p.order, f, e)
      BY <1>1, <1>12, <2>2, <3>1 DEF Foremost
    <3>3. Turns(p, e, f) = TurnsHad(p, f)
      BY <3>2 DEF Turns
    <3>4. TurnsHad(q, f) = q.served[f] /\ TurnsHad(p, f) = q.served[f] + 1
      BY <1>1, <1>9, <3>1 DEF TurnsHad
    <3> QED
      BY <1>9, <1>12, <2>3, <3>3, <3>4
  <2>5. CASE ~(Tail(q.items[l]) # <<>> /\ Stays(q, l))
    <3>1. ~Ahead(p.order, f, e)
      <4>1. p.order = less \/ p.order = Append(less, l)
        BY <1>2, <2>5 DEF less
      <4>2. ~Ahead(less, l, e)
        BY ONLY <1>4, AheadIsThere
      <4>3. ~Ahead(Append(less, l), l, e)
        BY ONLY <1>5
      <4> QED
        BY ONLY <1>12, <4>1, <4>2, <4>3
    <3>2. Turns(p, e, f) = q.weight[f]
      BY <1>1, <3>1 DEF Turns
    <3>3. TurnsHad(q, f) < q.weight[f] /\ TurnsHad(q, f) \in Nat
      BY <1>1, <1>7, TurnsType
    <3> QED
      BY <1>9, <1>12, <2>3, <3>2, <3>3
  <2> QED
    BY <2>4, <2>5
<1> QED
    BY <1>10, <1>11, <1>12

(* An experiment that was passed over waits, is not paused, and was passed *)
(* over no more often than the others had turns.                           *)
Passed ==
    /\ passed \in [Experiments -> Nat]
    /\ \A e \in Experiments :
         passed[e] > 0 => /\ queue.items[e] # <<>> /\ e \notin queue.paused
                          /\ passed[e] <= Share(queue, e)

LEMMA ShareType ==
    ASSUME NEW q \in Queue, NEW e \in Experiments
    PROVE  Share(q, e) \in Nat /\ \A f \in Others(e) : Turns(q, e, f) \in Nat
PROOF
<1>1. \A f \in Others(e) : Turns(q, e, f) \in Nat
    BY TurnsType DEF Others
<1> DEFINE turns == [f \in Experiments |-> Turns(q, e, f)]
<1>2. \A f \in Others(e) : turns[f] \in Nat
    BY <1>1 DEF Others
<1> HIDE DEF turns
<1>3. SumFunctionOnSet(turns, Others(e)) \in Nat
    BY <1>2, OthersFinite, SumNatural
<1> QED
    BY <1>1, <1>3 DEF Share, turns

LEMMA ShareGrows ==
    ASSUME NEW q \in Queue, NEW p \in Queue, NEW e \in Experiments,
           \A f \in Others(e) : Turns(q, e, f) <= Turns(p, e, f)
    PROVE  Share(q, e) <= Share(p, e)
PROOF
<1> DEFINE before == [f \in Experiments |-> Turns(q, e, f)]
           after  == [f \in Experiments |-> Turns(p, e, f)]
<1>1. \A f \in Others(e) : before[f] \in Int /\ after[f] \in Int /\ before[f] <= after[f]
    BY TurnsType DEF Others
<1> HIDE DEF before, after
<1>2. SumFunctionOnSet(before, Others(e)) <= SumFunctionOnSet(after, Others(e))
    BY <1>1, OthersFinite, SumMonotone
<1> QED
    BY <1>2 DEF Share, before, after

LEMMA ShareGrowsByOne ==
    ASSUME NEW q \in Queue, NEW p \in Queue, NEW e \in Experiments, NEW l \in Others(e),
           \A f \in Others(e) : Turns(q, e, f) + (IF f = l THEN 1 ELSE 0) <= Turns(p, e, f)
    PROVE  Share(q, e) + 1 <= Share(p, e)
PROOF
<1> DEFINE before == [f \in Experiments |-> Turns(q, e, f)]
           more   == [before EXCEPT ![l] = @ + 1]
           after  == [f \in Experiments |-> Turns(p, e, f)]
<1>1. \A f \in Others(e) : Turns(q, e, f) \in Nat /\ Turns(p, e, f) \in Nat
    BY ShareType
<1>2. /\ \A f \in Others(e) : before[f] = Turns(q, e, f) /\ after[f] = Turns(p, e, f)
      /\ \A f \in Others(e) : more[f] = before[f] + (IF f = l THEN 1 ELSE 0)
    BY <1>1 DEF Others
<1> HIDE DEF before, more, after
<1>3. \A f \in Others(e) : /\ before[f] \in Int /\ more[f] \in Int /\ after[f] \in Int
                           /\ more[f] <= after[f]
    BY <1>1, <1>2
<1>4. SumFunctionOnSet(more, Others(e)) = SumFunctionOnSet(before, Others(e)) + (more[l] - before[l])
  <2>1. \A f \in Others(e) \ {l} : before[f] = more[f]
    BY <1>2, <1>3
  <2>2. \A f \in Others(e) : before[f] \in Int /\ more[f] \in Int
    BY <1>3
  <2> QED
    BY <2>1, <2>2, OthersFinite, SumUpdate
<1>5. more[l] - before[l] = 1
    BY <1>2, <1>3
<1>6. SumFunctionOnSet(more, Others(e)) <= SumFunctionOnSet(after, Others(e))
    BY <1>3, OthersFinite, SumMonotone
<1> QED
    BY <1>4, <1>5, <1>6 DEF Share, before, after

(* The steps that serve nobody.                                            *)
LEMMA NobodyServed ==
    ASSUME QInv, QInv', Passed, KeepCounts, queue'.paused = queue.paused,
           \A e \in Experiments :
             queue.items[e] # <<>> /\ queue'.items[e] # <<>> =>
               \A f \in Others(e) : Turns(queue, e, f) <= Turns(queue', e, f)
    PROVE  Passed'
PROOF
<1>1. queue \in Queue /\ queue' \in Queue
    BY DEF QInv, Good
<1>2. passed' \in [Experiments -> Nat]
    BY DEF KeepCounts, Passed
<1>3. ASSUME NEW e \in Experiments, passed'[e] > 0
      PROVE  /\ queue'.items[e] # <<>> /\ e \notin queue'.paused
             /\ passed'[e] <= Share(queue', e)
  <2>1. queue'.items[e] # <<>> /\ passed'[e] = passed[e]
    BY <1>3 DEF KeepCounts
  <2>2. queue.items[e] # <<>> /\ e \notin queue.paused /\ passed[e] <= Share(queue, e)
    BY <1>3, <2>1 DEF Passed
  <2>3. Share(queue, e) <= Share(queue', e)
    BY <1>1, <2>1, <2>2, ShareGrows
  <2>4. Share(queue, e) \in Nat /\ Share(queue', e) \in Nat /\ passed[e] \in Nat
    BY <1>1, ShareType DEF Passed
  <2> QED
    BY <2>1, <2>2, <2>3, <2>4
<1> QED
    BY <1>2, <1>3 DEF Passed

LEMMA TakePassed ==
    ASSUME QInv, QInv', Passed, NEW experiments \in BOOLEAN, TakeRun(experiments)
    PROVE  Passed'
PROOF
<1> DEFINE l == NextLane(queue, experiments)
<1>1. /\ Good(queue) /\ HasNext(queue, experiments) /\ queue' = Pop(queue, experiments)
      /\ passed' = [e \in Experiments |->
                      IF e = l \/ queue'.items[e] = <<>> \/ e \in queue.paused THEN 0
                      ELSE IF l = User THEN passed[e] ELSE passed[e] + 1]
    BY DEF QInv, TakeRun
<1>2. /\ queue \in Queue /\ queue' \in Queue /\ queue'.paused = queue.paused /\ l \in Lanes
      /\ \A x \in Runs, m \in Lanes : InLane(queue', x, m) => InLane(queue, x, m)
    BY <1>1, PopFacts DEF QInv, Good
<1>3. passed \in [Experiments -> Nat]
    BY DEF Passed
<1> HIDE DEF l
<1>4. passed' \in [Experiments -> Nat]
    BY <1>1, <1>3
<1>5. ASSUME NEW e \in Experiments, passed'[e] > 0
      PROVE  /\ queue'.items[e] # <<>> /\ e \notin queue'.paused
             /\ passed'[e] <= Share(queue', e)
  <2>1. /\ e # l /\ queue'.items[e] # <<>> /\ e \notin queue.paused
        /\ passed'[e] = IF l = User THEN passed[e] ELSE passed[e] + 1
    BY <1>1, <1>5
  <2>2. queue.items[e] # <<>>
    <3>1. e \in Lanes /\ queue.items[e] \in Seq(Runs) /\ queue'.items[e] \in Seq(Runs)
      BY <1>2 DEF Queue, Lanes
    <3>2. PICK x \in Runs : InLane(queue', x, e)
      BY <2>1, <3>1, LaneNotEmpty DEF InLane
    <3> QED
      BY <1>2, <3>1, <3>2, LaneNotEmpty DEF InLane
  <2>3. \A f \in Others(e) :
          Turns(queue, e, f) + (IF f = l THEN 1 ELSE 0) <= Turns(queue', e, f)
    BY <1>1, <2>1, <2>2, PopTakesTurn DEF l
  <2>4. /\ Share(queue, e) \in Nat /\ Share(queue', e) \in Nat /\ passed[e] \in Nat
        /\ \A f \in Others(e) : Turns(queue, e, f) \in Nat /\ Turns(queue', e, f) \in Nat
    BY <1>2, <1>3, ShareType
  <2>5. passed[e] <= Share(queue, e)
    BY <2>4 DEF Passed
  <2>6. CASE l = User
    <3>1. \A f \in Others(e) : Turns(queue, e, f) <= Turns(queue', e, f)
      BY <2>3, <2>4
    <3>2. Share(queue, e) <= Share(queue', e)
      BY <1>2, <3>1, ShareGrows
    <3> QED
      BY <1>2, <2>1, <2>4, <2>5, <2>6, <3>2
  <2>7. CASE l # User
    <3>1. l \in Others(e)
      BY <1>2, <2>1, <2>7 DEF Lanes, Others
    <3>2. Share(queue, e) + 1 <= Share(queue', e)
      BY <1>2, <2>3, <3>1, ShareGrowsByOne
    <3> QED
      BY <1>2, <2>1, <2>4, <2>5, <2>7, <3>2
  <2> QED
    BY <2>6, <2>7
<1> QED
    BY <1>4, <1>5 DEF Passed

LEMMA MovePassed ==
    ASSUME QInv, QInv', Passed, NEW run \in Runs, NEW l \in Lanes, MoveRun(run, l)
    PROVE  Passed'
PROOF
<1> DEFINE left == RemoveRun(queue, run)
<1>1. Good(queue) /\ queue' = Move(queue, run, l) /\ KeepCounts /\ InQueue(queue, run)
    BY DEF QInv, MoveRun
<1>2. queue'.paused = queue.paused
    BY <1>1, MoveFacts
<1>3. CASE InLane(queue, run, l)
  <2>1. queue' = queue
    BY <1>1, <1>3 DEF Move
  <2>2. \A e \in Experiments : \A f \in Others(e) : Turns(queue, e, f) \in Nat
    BY <1>1, ShareType DEF Good
  <2> QED
    BY <1>1, <2>1, <2>2, NobodyServed
<1>4. CASE ~InLane(queue, run, l)
  <2>1. queue' = Push(left, run, l)
    BY <1>1, <1>4 DEF Move
  <2>2. /\ Good(left) /\ ~InQueue(left, run)
        /\ \A x \in Runs, m \in Lanes : InLane(left, x, m) <=> InLane(queue, x, m) /\ x # run
    BY <1>1, RemoveRunFacts DEF InQueue
  <2>3. queue \in Queue /\ left \in Queue /\ queue' \in Queue
    BY <1>1, <2>2 DEF Good, QInv
  <2>4. \A e \in Experiments : \A f \in Others(e) : Turns(queue, e, f) <= Turns(left, e, f)
    BY <1>1, RemoveKeepsTurns
  <2> HIDE DEF left
  <2>5. ASSUME NEW e \in Experiments, left.items[e] # <<>>, NEW f \in Others(e)
        PROVE  Turns(queue, e, f) <= Turns(queue', e, f)
    <3>1. Turns(left, e, f) <= Turns(queue', e, f)
      BY <2>1, <2>2, <2>5, PushKeepsTurns
    <3>2. Turns(queue, e, f) \in Nat /\ Turns(left, e, f) \in Nat /\ Turns(queue', e, f) \in Nat
      BY <2>3, ShareType
    <3> QED
      BY <2>4, <2>5, <3>1, <3>2
  <2>6. ASSUME NEW e \in Experiments, queue.items[e] # <<>>, queue'.items[e] # <<>>
        PROVE  left.items[e] # <<>>
    <3>1. /\ e \in Lanes /\ queue.items[e] \in Seq(Runs) /\ left.items[e] \in Seq(Runs)
          /\ queue'.items[e] \in Seq(Runs)
      BY <2>3 DEF Queue, Lanes
    <3>2. PICK x \in Runs : InLane(queue', x, e)
      BY <2>6, <3>1, LaneNotEmpty DEF InLane
    <3>3. PICK y \in Runs : InLane(queue, y, e)
      BY <2>6, <3>1, LaneNotEmpty DEF InLane
    <3>4. IF x = run THEN e = l ELSE InLane(queue, x, e)
      BY <1>1, <3>1, <3>2, MoveFacts
    <3>5. \E z \in Runs : InLane(left, z, e)
      BY <1>4, <2>2, <3>1, <3>3, <3>4
    <3> QED
      BY <3>1, <3>5, LaneNotEmpty DEF InLane
  <2> QED
    BY <1>1, <1>2, <2>5, <2>6, NobodyServed
<1> QED
    BY <1>3, <1>4

LEMMA NextPassed == QInv /\ QInv' /\ Passed /\ [QueueNext]_queueVars => Passed'
PROOF
<1> SUFFICES ASSUME QInv, QInv', Passed, [QueueNext]_queueVars PROVE Passed'
    OBVIOUS
<1>1. Good(queue) /\ queue \in Queue
    BY DEF QInv, Good
<1>2. ASSUME NEW run \in Runs, CancelRun(run) PROVE Passed'
  <2>1. queue' = RemoveRun(queue, run) /\ KeepCounts
    BY <1>2 DEF CancelRun
  <2>2. queue'.paused = queue.paused
    BY <1>1, <2>1, RemoveRunFacts
  <2>3. \A e \in Experiments : \A f \in Others(e) : Turns(queue, e, f) <= Turns(queue', e, f)
    BY <1>1, <2>1, RemoveKeepsTurns
  <2> QED
    BY <2>1, <2>2, <2>3, NobodyServed
<1>3. ASSUME NEW run \in Runs, NEW l \in Lanes, PushRun(run, l) PROVE Passed'
  <2>1. queue' = Push(queue, run, l) /\ KeepCounts /\ ~InQueue(queue, run)
    BY <1>3 DEF PushRun
  <2>2. queue'.paused = queue.paused
    BY <1>1, <2>1, PushFacts
  <2>3. \A e \in Experiments : queue.items[e] # <<>> =>
          \A f \in Others(e) : Turns(queue, e, f) <= Turns(queue', e, f)
    BY <1>1, <2>1, PushKeepsTurns
  <2> QED
    BY <2>1, <2>2, <2>3, NobodyServed
<1>4. ASSUME NEW run \in Runs, NEW l \in Lanes, MoveRun(run, l) PROVE Passed'
    BY <1>4, MovePassed
<1>5. ASSUME ResetCounts PROVE Passed'
    BY <1>5 DEF ResetCounts, Passed
<1>6. ASSUME NEW experiments \in BOOLEAN, TakeRun(experiments) PROVE Passed'
    BY <1>6, TakePassed
<1>7. CASE UNCHANGED queueVars
  <2>1. queue' = queue /\ passed' = passed
    BY <1>7 DEF queueVars
  <2> QED
    BY <2>1 DEF Passed
<1> QED
    BY <1>2, <1>3, <1>4, <1>5, <1>6, <1>7 DEF QueueNext, ConfigureLane, ForgetLane

LEMMA PassedHolds == QueueSpec => [](QInv /\ Passed)
PROOF
<1>1. QueueInit => Passed
    BY DEF QueueInit, Passed
<1> QED
    BY <1>1, InitQ, NextQ, NextPassed, PTL DEF QueueSpec

(* An experiment with a run ready is passed over by at most one full turn  *)
(* of each other experiment (`_next' and `pop'), for any number of them    *)
(* and any weights: what the others have left of their turns before it is  *)
(* its turn only shrinks, unless somebody changes the controls.            *)
THEOREM NobodyStarves == QueueSpec => []BoundedBypass
PROOF
<1>1. QInv /\ Passed => BoundedBypass
  <2> SUFFICES ASSUME QInv, Passed, NEW e \in Experiments PROVE passed[e] <= OtherWeight(e)
    BY DEF BoundedBypass
  <2>1. queue \in Queue
    BY DEF QInv, Good
  <2> DEFINE turns == [f \in Experiments |-> Turns(queue, e, f)]
  <2>2. \A f \in Others(e) : /\ turns[f] \in Int /\ queue.weight[f] \in Int
                             /\ turns[f] <= queue.weight[f]
    BY <2>1, TurnsType DEF Others
  <2>3. \A f \in Others(e) : queue.weight[f] \in Nat
    BY <2>1 DEF Queue, Others
  <2> HIDE DEF turns
  <2>4. SumFunctionOnSet(turns, Others(e)) <= SumFunctionOnSet(queue.weight, Others(e))
    BY <2>2, OthersFinite, SumMonotone
  <2>5. SumFunctionOnSet(queue.weight, Others(e)) \in Nat
    BY <2>3, OthersFinite, SumNatural
  <2>6. Share(queue, e) \in Nat /\ Share(queue, e) <= OtherWeight(e) /\ OtherWeight(e) \in Nat
    BY <2>1, <2>4, <2>5, ShareType DEF Share, turns, OtherWeight, Others
  <2>7. passed[e] \in Nat /\ (passed[e] > 0 => passed[e] <= Share(queue, e))
    BY DEF Passed
  <2> QED
    BY <2>6, <2>7
<1> QED
    BY <1>1, PassedHolds, PTL

-----------------------------------------------------------------------------
USE DEF Absent, Unfinished, Terminal, User

LEMMA InitInv == Init => IndInv
PROOF
<1> SUFFICES ASSUME Init PROVE IndInv
    OBVIOUS
<1> USE DEF Init
<1>1. Good(waiting) /\ \A r : ~InQueue(waiting, r)
    BY EmptyQueueGood
<1>2. TypeOK
  <2>1. waiting \in Queue /\ finished \in Seq(Runs)
    BY <1>1 DEF Good
  <2>2. controls \in [Experiments -> [paused : BOOLEAN, weight : Nat \ {0}]]
    OBVIOUS
  <2>3. 0 \in 0..MaxCrashes /\ 0 \in 0..MaxFaults
    BY BoundsAssumption
  <2>4. /\ stored \in [Runs -> Statuses] /\ status \in [Runs -> Statuses]
        /\ owners \in [Runs -> SUBSET Lanes]
        /\ phase \in [Runs -> Phases]
    BY DEF Statuses, Phases
  <2>5. section \in Sections /\ controlling \in Lanes /\ hold \in BOOLEAN
    BY DEF Sections, Lanes
  <2> QED
    BY <2>1, <2>2, <2>3, <2>4, <2>5 DEF TypeOK
<1>3. WaitingIsQueued /\ UserLane
    BY <1>1 DEF WaitingIsQueued, UserLane, InQueue, Lanes
<1>4. /\ CancelNeedsEveryOwner /\ CompletedIsDurable /\ SavedBeforeDropped
      /\ OnlyAccepted /\ SomeoneWants /\ BootEmpty
    BY DEF CancelNeedsEveryOwner, CompletedIsDurable, SavedBeforeDropped, OnlyAccepted,
           SomeoneWants, BootEmpty
<1>5. PhasesAgree
    BY DEF PhasesAgree, SlotPhases
<1>6. FinishedSaved
  <2>1. Len(finished) = 0
    OBVIOUS
  <2> QED
    BY <2>1 DEF FinishedSaved
<1> QED
    BY <1>1, <1>2, <1>3, <1>4, <1>5, <1>6 DEF IndInv

-----------------------------------------------------------------------------
(* The lane of a run somebody wants.                                       *)
LEMMA LaneForFacts ==
    ASSUME NEW q, q \in Queue, NEW owning \in SUBSET Lanes, owning # {}
    PROVE  /\ LaneFor(q, owning) \in owning
           /\ LaneFor(q, owning) = User <=> User \in owning
PROOF
<1>1. ASSUME NEW S \in SUBSET Lanes, S # {} PROVE Least(S) \in S
  <2>1. S \in SUBSET Nat
    BY ExperimentsAssumption DEF Lanes
  <2> QED
    BY <1>1, <2>1, LeastExists DEF Least
<1>2. CASE User \in owning
    BY <1>2 DEF LaneFor
<1>3. CASE User \notin owning
    BY <1>1, <1>3 DEF LaneFor
<1> QED
    BY <1>2, <1>3

(* `_emit' of an end: who is dropped from memory has been saved.           *)
LEMMA EmitEndFacts ==
    ASSUME IndInv, NEW r \in Runs, r \in records, NEW st \in Terminal, NEW saved \in BOOLEAN,
           NEW q, Good(q), NEW leaving \in SUBSET Lanes,
           owners' \in [Runs -> SUBSET Lanes],
           EmitEnd(r, st, saved, q, leaving)
    PROVE  /\ status' = [status EXCEPT ![r] = st]
           /\ stored' = IF saved THEN [stored EXCEPT ![r] = st] ELSE stored
           /\ memoryWait' = memoryWait \ {r}
           /\ Good(waiting')
           /\ waiting'.items = q.items
           /\ records' \subseteq records
           /\ \A x \in records \ records' : stored'[x] \in Terminal
           /\ finished' \in Seq(Runs)
           /\ FinishedSaved'
PROOF
<1>1. /\ status' = [status EXCEPT ![r] = st]
      /\ memoryWait' = memoryWait \ {r}
      /\ stored' = IF saved THEN [stored EXCEPT ![r] = st] ELSE stored
      /\ waiting' = Forget(q, IdleAfter(owners'[r] \cup leaving))
      /\ Retire(r, saved)
    BY DEF EmitEnd, Persist
<1>2. Good(waiting') /\ waiting'.items = q.items
  <2>1. IdleAfter(owners'[r] \cup leaving) \in SUBSET Experiments
    BY DEF IdleAfter, Lanes
  <2> QED
    BY <1>1, <2>1, ForgetFacts
<1> DEFINE list == IF saved THEN Append(finished, r) ELSE finished
<1>3. /\ finished \in Seq(Runs)
      /\ stored \in [Runs -> Statuses]
      /\ \A i \in 1..Len(finished) : finished[i] \in Runs /\ stored[finished[i]] \in Terminal
    BY ElementOfSeq DEF IndInv, TypeOK, FinishedSaved
<1>4. \A x \in Runs : stored[x] \in Terminal => stored'[x] \in Terminal
    BY <1>1, <1>3
<1>5. list \in Seq(Runs) /\ \A i \in 1..Len(list) : stored'[list[i]] \in Terminal
  <2>1. CASE saved
    <3>1. /\ list \in Seq(Runs)
          /\ Len(finished) \in Nat
          /\ Len(list) = Len(finished) + 1
          /\ \A i \in 1..Len(finished) : list[i] = finished[i]
          /\ list[Len(finished) + 1] = r
      BY <1>3, <2>1, AppendProperties, LenProperties
    <3>2. stored'[r] = st
      BY <1>1, <1>3, <2>1
    <3> HIDE DEF list
    <3> QED
      BY <1>3, <1>4, <3>1, <3>2
  <2>2. CASE ~saved
    BY <1>3, <1>4, <2>2
  <2> QED
    BY <2>1, <2>2
<1>6. \/ finished' = list /\ records' = records
      \/ list # <<>> /\ finished' = Tail(list) /\ records' = records \ {Head(list)}
  <2>1. Len(list) > Kept => list # <<>>
    BY <1>5, KeptAssumption, EmptySeq
  <2> QED
    BY <1>1, <2>1 DEF Retire
<1> HIDE DEF list
<1>7. CASE finished' = list /\ records' = records
    BY <1>1, <1>2, <1>5, <1>7 DEF FinishedSaved
<1>8. CASE list # <<>> /\ finished' = Tail(list) /\ records' = records \ {Head(list)}
  <2>1. /\ Len(list) \in Nat \ {0}
        /\ Tail(list) \in Seq(Runs)
        /\ Len(Tail(list)) = Len(list) - 1
        /\ \A i \in 1..Len(Tail(list)) : Tail(list)[i] = list[i + 1]
        /\ Head(list) = list[1]
    BY <1>5, <1>8, HeadTailProperties, EmptySeq
  <2>2. stored'[Head(list)] \in Terminal
    BY <1>5, <2>1
  <2>3. FinishedSaved'
    <3>1. ASSUME NEW i \in 1..Len(Tail(list)) PROVE stored'[Tail(list)[i]] \in Terminal
      <4>1. i + 1 \in 1..Len(list)
        BY <2>1
      <4> QED
        BY <1>5, <2>1, <4>1
    <3> QED
      BY <1>8, <3>1 DEF FinishedSaved
  <2> QED
    BY <1>1, <1>2, <1>8, <2>1, <2>2, <2>3
<1> QED
    BY <1>6, <1>7, <1>8

-----------------------------------------------------------------------------
(* The steps that leave the queue and the records alone.                   *)
LEMMA OutsideInv ==
    ASSUME IndInv, NEW r \in Runs,
           \/ EndCommitted(r) \/ EndFailed(r) \/ EndStopped(r) \/ Discard(r) \/ DiscardFails(r)
           \/ CompleteLate(r) \/ \E gone \in BOOLEAN : CompleteUnsaved(r, gone)
    PROVE  IndInv'
PROOF
<1> USE DEF EndCommitted, EndFailed, EndStopped, Discard, DiscardFails, Outside, Faults,
            CompleteLate, CompleteUnsaved, durable, recordVars, slotVars, lockVars, boundVars
<1>1. /\ UNCHANGED <<stored, controls, records, status, owners, cancelled, experimentSlot,
                      memoryWait, finished, waiting, running, runningExperiments, section, todo,
                      controlling, hold, crashes>>
      /\ leftBehind' \in {leftBehind, leftBehind \cup {r}}
      /\ phase[r] \in {"computing", "discarding", "committed"}
      /\ section # "boot"
    OBVIOUS
<1>2. PICK to \in SlotPhases :
        /\ phase' = [phase EXCEPT ![r] = to]
        /\ to # "settled"
        /\ to \in {"discarding", "cancelling"} => r \in cancelled
        /\ artifact' \in {artifact, artifact \cup {r}, artifact \ {r}}
        /\ to = "committed" => r \in artifact'
    BY DEF SlotPhases, IndInv, PhasesAgree
<1>3. phase \in [Runs -> Phases] /\ phase' \in [Runs -> Phases]
    BY <1>2 DEF IndInv, TypeOK, Phases
<1>4. TypeOK'
  <2>1. faults' \in 0..MaxFaults
    BY BoundsAssumption DEF IndInv, TypeOK, Lost
  <2>2. artifact' \subseteq Runs /\ leftBehind' \subseteq Runs
    BY <1>1, <1>2 DEF IndInv, TypeOK
  <2> QED
    BY <1>1, <1>3, <2>1, <2>2 DEF IndInv, TypeOK
<1>5. Good(waiting)' /\ UserLane' /\ FinishedSaved' /\ SomeoneWants' /\ SavedBeforeDropped'
      /\ CancelNeedsEveryOwner'
    BY <1>1 DEF IndInv, UserLane, FinishedSaved, SomeoneWants, SavedBeforeDropped,
                CancelNeedsEveryOwner
<1>6. WaitingIsQueued'
    BY <1>1, <1>2, <1>3 DEF IndInv, WaitingIsQueued, SlotPhases
<1>7. CompletedIsDurable'
  <2>1. stored[r] # "completed"
    BY <1>1 DEF IndInv, PhasesAgree, SavedBeforeDropped, SlotPhases
  <2> QED
    BY <1>1, <1>2, <2>1 DEF IndInv, CompletedIsDurable
<1>8. OnlyAccepted' /\ BootEmpty'
    BY <1>1, <1>2, <1>3 DEF IndInv, OnlyAccepted, BootEmpty
<1>9. PhasesAgree'
    BY <1>1, <1>2, <1>3 DEF IndInv, PhasesAgree, SlotPhases
<1> QED
    BY <1>4, <1>5, <1>6, <1>7, <1>8, <1>9 DEF IndInv

(* The slot is given back.                                                 *)
LEMMA ReleaseInv ==
    ASSUME IndInv, NEW r \in Runs, Release(r)
    PROVE  IndInv'
PROOF
<1>1. /\ UNCHANGED <<stored, artifact, controls, records, status, owners, cancelled,
                      experimentSlot, memoryWait, finished, waiting, todo, controlling, hold,
                      crashes, faults, leftBehind>>
      /\ phase[r] = "settled"
      /\ phase' = [phase EXCEPT ![r] = "released"]
      /\ section = "open" /\ section' = "dispatch"
    BY DEF Release, durable, recordVars, boundVars
<1>2. phase \in [Runs -> Phases] /\ phase' \in [Runs -> Phases]
    BY <1>1 DEF IndInv, TypeOK, Phases
<1>3. TypeOK'
  <2>1. running' \in Int /\ runningExperiments' \in Int
    BY DEF Release, IndInv, TypeOK
  <2> QED
    BY <1>1, <1>2, <2>1 DEF IndInv, TypeOK, Sections
<1>4. Good(waiting)' /\ UserLane' /\ FinishedSaved' /\ SomeoneWants' /\ SavedBeforeDropped'
      /\ CancelNeedsEveryOwner' /\ CompletedIsDurable' /\ BootEmpty'
    BY <1>1 DEF IndInv, UserLane, FinishedSaved, SomeoneWants, SavedBeforeDropped,
                CancelNeedsEveryOwner, CompletedIsDurable, BootEmpty
<1>5. WaitingIsQueued'
    BY <1>1, <1>2 DEF IndInv, WaitingIsQueued
<1>6. OnlyAccepted'
    BY <1>1, <1>2 DEF IndInv, OnlyAccepted
<1>7. PhasesAgree'
    BY <1>1, <1>2 DEF IndInv, PhasesAgree, SlotPhases
<1> QED
    BY <1>3, <1>4, <1>5, <1>6, <1>7 DEF IndInv

(* The first report of a computation.                                      *)
LEMMA ProgressInv ==
    ASSUME IndInv, NEW r \in Runs, NEW saved \in BOOLEAN, Progress(r, saved)
    PROVE  IndInv'
PROOF
<1>1. /\ UNCHANGED <<artifact, controls, records, owners, cancelled, experimentSlot, finished,
                      waiting, running, runningExperiments, section, todo, controlling, phase,
                      hold, crashes, leftBehind>>
      /\ section = "open"
      /\ phase[r] = "computing"
      /\ status[r] = "queued"
      /\ status' = [status EXCEPT ![r] = "running"]
      /\ stored' = IF saved THEN [stored EXCEPT ![r] = "running"] ELSE stored
      /\ memoryWait' = memoryWait \ {r}
      /\ faults + Lost(saved) <= MaxFaults /\ faults' = faults + Lost(saved)
    BY DEF Progress, Persist, Faults, slotVars, lockVars, transportVars
<1>2. status \in [Runs -> Statuses] /\ stored \in [Runs -> Statuses]
    BY DEF IndInv, TypeOK
<1>3. r \in records /\ stored[r] \notin Terminal
    BY <1>1 DEF IndInv, PhasesAgree, SavedBeforeDropped, SlotPhases
<1>4. /\ \A x \in Runs : stored'[x] = IF x = r /\ saved THEN "running" ELSE stored[x]
      /\ \A x \in Runs : status'[x] = IF x = r THEN "running" ELSE status[x]
    BY <1>1, <1>2
<1>5. TypeOK'
  <2>1. status' \in [Runs -> Statuses] /\ stored' \in [Runs -> Statuses]
    BY <1>1, <1>2 DEF Statuses
  <2>2. faults' \in 0..MaxFaults
    BY <1>1, BoundsAssumption DEF Lost, IndInv, TypeOK
  <2> QED
    BY <1>1, <2>1, <2>2 DEF IndInv, TypeOK
<1>6. Good(waiting)' /\ UserLane'
    BY <1>1 DEF IndInv, UserLane
<1>7. WaitingIsQueued'
    BY <1>1, <1>4 DEF IndInv, WaitingIsQueued
<1>8. CancelNeedsEveryOwner'
    BY <1>1, <1>4 DEF IndInv, CancelNeedsEveryOwner, TypeOK
<1>9. CompletedIsDurable' /\ SavedBeforeDropped'
    BY <1>1, <1>3, <1>4 DEF IndInv, CompletedIsDurable, SavedBeforeDropped, TypeOK
<1>10. OnlyAccepted' /\ SomeoneWants' /\ PhasesAgree' /\ BootEmpty'
    BY <1>1, <1>3, <1>4 DEF IndInv, OnlyAccepted, SomeoneWants, PhasesAgree, BootEmpty, TypeOK
<1>11. FinishedSaved'
  <2>1. \A i \in 1..Len(finished) : finished[i] \in Runs
    BY ElementOfSeq DEF IndInv, TypeOK
  <2> QED
    BY <1>1, <1>3, <1>4, <2>1 DEF IndInv, FinishedSaved
<1> QED
    BY <1>5, <1>6, <1>7, <1>8, <1>9, <1>10, <1>11 DEF IndInv

(* Every end of a run: what the actions that call EmitEnd have in common.  *)
(* The run r ends as st, with the owners own and in the phase ph; the      *)
(* queue q is the old one without it.                                      *)
Ends(r, st, saved, leaving, q, own, ph) ==
    /\ r \in records /\ status[r] \in Unfinished
    /\ Good(q)
    /\ EmitEnd(r, st, saved, q, leaving)
    /\ \A x \in Runs : InQueue(q, x) <=> InQueue(waiting, x) /\ x # r
    /\ \A x \in Runs : InLane(q, x, User) => InLane(waiting, x, User)
    /\ owners' = [owners EXCEPT ![r] = own]
    /\ cancelled' \in {cancelled, cancelled \cup {r}}
    /\ st = "cancelled" <=> r \in cancelled'
    /\ r \in cancelled' => own = {}
    /\ phase' = [phase EXCEPT ![r] = ph]
    /\ ph = "none" => phase[r] = "none"
    /\ st = "completed" => saved /\ r \in artifact
    /\ section # "boot" /\ section' \in Sections \ {"boot"}
    /\ faults' \in 0..MaxFaults
    /\ running' \in Int /\ runningExperiments' \in Int
    /\ UNCHANGED <<artifact, controls, experimentSlot, todo, controlling, hold, crashes, leftBehind>>

LEMMA EndInv ==
    ASSUME IndInv, NEW r \in Runs, NEW st \in Terminal, NEW saved \in BOOLEAN,
           NEW leaving \in SUBSET Lanes, NEW q, NEW own \in SUBSET owners[r],
           NEW ph \in {"none", "settled"},
           Ends(r, st, saved, leaving, q, own, ph)
    PROVE  IndInv'
PROOF
<1> USE DEF Ends
<1>1. /\ status \in [Runs -> Statuses] /\ stored \in [Runs -> Statuses]
      /\ phase \in [Runs -> Phases] /\ owners \in [Runs -> SUBSET Lanes]
      /\ records \subseteq Runs /\ cancelled \subseteq Runs
    BY DEF IndInv, TypeOK
<1>2. owners' \in [Runs -> SUBSET Lanes]
    BY <1>1
<1>3. /\ status' = [status EXCEPT ![r] = st]
      /\ stored' = IF saved THEN [stored EXCEPT ![r] = st] ELSE stored
      /\ memoryWait' = memoryWait \ {r}
      /\ Good(waiting')
      /\ waiting'.items = q.items
      /\ records' \subseteq records
      /\ \A x \in records \ records' : stored'[x] \in Terminal
      /\ finished' \in Seq(Runs)
      /\ FinishedSaved'
    BY <1>2, EmitEndFacts
<1>4. /\ \A x \in Runs : stored'[x] = IF x = r /\ saved THEN st ELSE stored[x]
      /\ \A x \in Runs : status'[x] = IF x = r THEN st ELSE status[x]
      /\ \A x \in Runs : phase'[x] = IF x = r THEN ph ELSE phase[x]
      /\ \A x \in Runs : owners'[x] = IF x = r THEN own ELSE owners[x]
      /\ \A x \in Runs : x # r => (x \in cancelled' <=> x \in cancelled)
    BY <1>1, <1>3
<1>5. /\ \A x \in Runs : InQueue(waiting', x) <=> InQueue(waiting, x) /\ x # r
      /\ \A x \in Runs : InLane(waiting', x, User) => InLane(waiting, x, User)
    BY <1>3 DEF InQueue, InLane
<1>6. stored[r] \notin Terminal /\ stored[r] # Absent
    BY DEF IndInv, SavedBeforeDropped, OnlyAccepted
<1>7. \A x \in records \ records' : x # r => status[x] \in Terminal
    BY <1>1, <1>3, <1>4 DEF IndInv, SavedBeforeDropped
<1>8. TypeOK'
  <2>1. status' \in [Runs -> Statuses] /\ stored' \in [Runs -> Statuses]
    BY <1>1, <1>3 DEF Statuses
  <2>2. phase' \in [Runs -> Phases]
    BY <1>1 DEF Phases, SlotPhases
  <2>3. waiting' \in Queue
    BY <1>3 DEF Good
  <2>4. cancelled' \subseteq Runs /\ memoryWait' \subseteq Runs /\ records' \subseteq Runs
    BY <1>1, <1>3 DEF IndInv, TypeOK
  <2> QED
    BY <1>2, <1>3, <2>1, <2>2, <2>3, <2>4 DEF IndInv, TypeOK
<1>9. WaitingIsQueued'
    BY <1>1, <1>3, <1>4, <1>5, <1>7 DEF IndInv, WaitingIsQueued
<1>10. CancelNeedsEveryOwner'
    BY <1>1, <1>3, <1>4 DEF IndInv, CancelNeedsEveryOwner
<1>11. CompletedIsDurable'
    BY <1>1, <1>3, <1>4 DEF IndInv, CompletedIsDurable
<1>12. SavedBeforeDropped'
    BY <1>1, <1>3, <1>4, <1>6, <1>7 DEF IndInv, SavedBeforeDropped
<1>13. OnlyAccepted'
    BY <1>1, <1>3, <1>4, <1>6 DEF IndInv, OnlyAccepted
<1>14. PhasesAgree'
    BY <1>1, <1>3, <1>4, <1>7 DEF IndInv, PhasesAgree, SlotPhases
<1>15. SomeoneWants' /\ UserLane' /\ BootEmpty'
  <2>1. SomeoneWants' /\ BootEmpty'
    BY <1>1, <1>3, <1>4 DEF IndInv, SomeoneWants, BootEmpty
  <2>2. ~InLane(waiting', r, User)
    BY <1>5 DEF InQueue, Lanes
  <2> QED
    BY <1>4, <1>5, <2>1, <2>2 DEF IndInv, UserLane
<1> QED
    BY <1>3, <1>8, <1>9, <1>10, <1>11, <1>12, <1>13, <1>14, <1>15 DEF IndInv

LEMMA CompleteInv ==
    ASSUME IndInv, NEW r \in Runs, Complete(r)
    PROVE  IndInv'
PROOF
<1>1. /\ UNCHANGED <<artifact, controls, owners, cancelled, experimentSlot, running,
                      runningExperiments, section, todo, controlling, hold, crashes, faults, leftBehind>>
      /\ section = "open"
      /\ phase[r] = "committed"
      /\ r \notin cancelled
      /\ phase' = [phase EXCEPT ![r] = "settled"]
      /\ EmitEnd(r, "completed", TRUE, waiting, {})
    BY DEF Complete, slotVars, lockVars, boundVars
<1>2. r \in records /\ status[r] \in Unfinished /\ r \in artifact
    BY <1>1 DEF IndInv, PhasesAgree, SlotPhases
<1>3. owners' = [owners EXCEPT ![r] = owners[r]]
    BY <1>1 DEF IndInv, TypeOK
<1>4. ~InQueue(waiting, r) /\ Good(waiting)
    BY <1>1 DEF IndInv, WaitingIsQueued
<1>5. /\ section' \in Sections \ {"boot"} /\ faults' \in 0..MaxFaults
      /\ running' \in Int /\ runningExperiments' \in Int
    BY <1>1 DEF IndInv, TypeOK
<1>6. Ends(r, "completed", TRUE, {}, waiting, owners[r], "settled")
    BY <1>1, <1>2, <1>3, <1>4, <1>5 DEF Ends
<1> QED
    BY <1>6, EndInv

LEMMA SettleInv ==
    ASSUME IndInv, NEW r \in Runs, NEW saved \in BOOLEAN, Settle(r, saved)
    PROVE  IndInv'
PROOF
<1> DEFINE st == IF phase[r] = "cancelling" \/ r \in cancelled THEN "cancelled" ELSE "failed"
<1>1. /\ UNCHANGED <<artifact, controls, owners, cancelled, experimentSlot, running,
                      runningExperiments, section, todo, controlling, hold, crashes, leftBehind>>
      /\ section = "open"
      /\ phase[r] \in {"cancelling", "failing"}
      /\ phase' = [phase EXCEPT ![r] = "settled"]
      /\ faults + Lost(saved) <= MaxFaults /\ faults' = faults + Lost(saved)
      /\ EmitEnd(r, st, saved, waiting, {})
    BY DEF Settle, Faults, slotVars, lockVars
<1>2. /\ r \in records /\ status[r] \in Unfinished
      /\ st \in Terminal /\ (st = "cancelled" <=> r \in cancelled) /\ st # "completed"
      /\ r \in cancelled => owners[r] = {}
    BY <1>1 DEF IndInv, PhasesAgree, CancelNeedsEveryOwner, SlotPhases
<1>3. owners' = [owners EXCEPT ![r] = owners[r]]
    BY <1>1 DEF IndInv, TypeOK
<1>4. ~InQueue(waiting, r) /\ Good(waiting)
    BY <1>1 DEF IndInv, WaitingIsQueued
<1>5. /\ section' \in Sections \ {"boot"} /\ faults' \in 0..MaxFaults
      /\ running' \in Int /\ runningExperiments' \in Int
    BY <1>1, BoundsAssumption DEF IndInv, TypeOK, Lost
<1> HIDE DEF st
<1>6. Ends(r, st, saved, {}, waiting, owners[r], "settled")
    BY <1>1, <1>2, <1>3, <1>4, <1>5 DEF Ends
<1> QED
    BY <1>2, <1>6, EndInv

LEMMA CancelWaitingInv ==
    ASSUME IndInv, NEW o \in Lanes, NEW r \in Runs, NEW saved \in BOOLEAN,
           CancelWaiting(o, r, saved)
    PROVE  IndInv'
PROOF
<1>1. /\ UNCHANGED <<artifact, controls, experimentSlot, running, runningExperiments, todo,
                      controlling, phase, hold, crashes, leftBehind>>
      /\ section = "open" /\ section' = "dispatch"
      /\ r \in records
      /\ owners' = [owners EXCEPT ![r] = @ \ {o}]
      /\ owners'[r] = {}
      /\ InQueue(waiting, r)
      /\ cancelled' = cancelled \cup {r}
      /\ faults + Lost(saved) <= MaxFaults /\ faults' = faults + Lost(saved)
      /\ EmitEnd(r, "cancelled", saved, RemoveRun(waiting, r), {o})
    BY DEF CancelWaiting, Leave, Faults, slotVars, transportVars
<1>2. owners' = [owners EXCEPT ![r] = {}]
    BY <1>1 DEF IndInv, TypeOK
<1>3. status[r] = "queued" /\ phase[r] = "none"
    BY <1>1 DEF IndInv, WaitingIsQueued
<1>4. phase' = [phase EXCEPT ![r] = "none"]
    BY <1>1, <1>3 DEF IndInv, TypeOK
<1> DEFINE q == RemoveRun(waiting, r)
<1>5. /\ Good(q)
      /\ \A x \in Runs : InQueue(q, x) <=> InQueue(waiting, x) /\ x # r
      /\ \A x \in Runs : InLane(q, x, User) => InLane(waiting, x, User)
    BY RemoveRunFacts DEF IndInv, InQueue, Lanes
<1>6. /\ section' \in Sections \ {"boot"} /\ faults' \in 0..MaxFaults
      /\ running' \in Int /\ runningExperiments' \in Int
    BY <1>1, BoundsAssumption DEF IndInv, TypeOK, Lost, Sections
<1> HIDE DEF q
<1>7. EmitEnd(r, "cancelled", saved, q, {o})
    BY <1>1 DEF q
<1>8. Ends(r, "cancelled", saved, {o}, q, {}, "none")
    BY <1>1, <1>2, <1>3, <1>4, <1>5, <1>6, <1>7 DEF Ends
<1> QED
    BY <1>8, EndInv

LEMMA DispatchStartFailsInv ==
    ASSUME IndInv, NEW r \in Runs, NEW saved \in BOOLEAN, DispatchStartFails(r, saved)
    PROVE  IndInv'
PROOF
<1> DEFINE q == Pop(waiting, ExperimentsMay)
<1>1. /\ UNCHANGED <<artifact, controls, owners, cancelled, experimentSlot, running,
                      runningExperiments, section, todo, controlling, phase, hold, crashes, leftBehind>>
      /\ section = "dispatch"
      /\ HasNext(waiting, ExperimentsMay) /\ r = Peek(waiting, ExperimentsMay)
      /\ faults + (1 + Lost(saved)) <= MaxFaults /\ faults' = faults + (1 + Lost(saved))
      /\ EmitEnd(r, "failed", saved, q, {})
    BY DEF DispatchStartFails, HasHead, HeadRun, Faults, slotVars, lockVars, transportVars
<1>2. ExperimentsMay \in BOOLEAN
    BY DEF ExperimentsMay
<1>3. /\ InQueue(waiting, r)
      /\ Good(q)
      /\ \A x \in Runs : InQueue(q, x) <=> InQueue(waiting, x) /\ x # r
      /\ \A x \in Runs : InLane(q, x, User) => InLane(waiting, x, User)
    BY <1>1, <1>2, PopFacts DEF IndInv, InQueue, Lanes
<1>4. /\ r \in records /\ status[r] = "queued" /\ phase[r] = "none"
      /\ r \notin cancelled
    BY <1>3 DEF IndInv, WaitingIsQueued, CancelNeedsEveryOwner
<1>5. owners' = [owners EXCEPT ![r] = owners[r]] /\ phase' = [phase EXCEPT ![r] = "none"]
    BY <1>1, <1>4 DEF IndInv, TypeOK
<1>6. /\ section' \in Sections \ {"boot"} /\ faults' \in 0..MaxFaults
      /\ running' \in Int /\ runningExperiments' \in Int
    BY <1>1, BoundsAssumption DEF IndInv, TypeOK, Lost, Sections
<1> HIDE DEF q
<1>7. Ends(r, "failed", saved, {}, q, owners[r], "none")
    BY <1>1, <1>3, <1>4, <1>5, <1>6 DEF Ends
<1> QED
    BY <1>7, EndInv

-----------------------------------------------------------------------------
(* Requests.                                                               *)
LEMMA WithControlsFacts ==
    ASSUME IndInv, NEW o \in Lanes
    PROVE  /\ Good(WithControls(o))
           /\ WithControls(o).items = waiting.items
PROOF
<1>1. CASE o = User
    BY <1>1 DEF WithControls, IndInv
<1>2. CASE o # User
  <2>1. o \in Experiments /\ controls[o].paused \in BOOLEAN /\ controls[o].weight \in Nat \ {0}
    BY <1>2 DEF Lanes, IndInv, TypeOK
  <2> QED
    BY <1>2, <2>1, ConfigureFacts DEF WithControls, IndInv
<1> QED
    BY <1>1, <1>2

LEMMA AcceptInv ==
    ASSUME IndInv, NEW o \in Lanes, NEW r \in Runs, Accept(o, r)
    PROVE  IndInv'
PROOF
<1> DEFINE q == WithControls(o)
           l == LaneFor(q, {o})
<1>1. /\ UNCHANGED <<artifact, controls, cancelled, experimentSlot, memoryWait, finished,
                      running, runningExperiments, todo, controlling, phase, hold, crashes,
                      faults, leftBehind>>
      /\ section = "open" /\ section' = "dispatch"
      /\ stored[r] = Absent
      /\ stored' = [stored EXCEPT ![r] = "queued"]
      /\ status' = [status EXCEPT ![r] = "queued"]
      /\ records' = records \cup {r}
      /\ owners' = [owners EXCEPT ![r] = {o}]
      /\ waiting' = Push(q, r, l)
    BY DEF Accept, MayStart, slotVars, transportVars, boundVars
<1>2. /\ status \in [Runs -> Statuses] /\ stored \in [Runs -> Statuses]
      /\ owners \in [Runs -> SUBSET Lanes] /\ records \subseteq Runs
    BY DEF IndInv, TypeOK
<1>3. r \notin records /\ r \notin cancelled /\ phase[r] = "none"
    BY <1>1 DEF IndInv, OnlyAccepted
<1>4. Good(q) /\ q.items = waiting.items
    BY WithControlsFacts
<1>5. l = o
    BY <1>4, LaneForFacts DEF Good
<1> HIDE DEF q, l
<1>6. ~InQueue(q, r)
    BY <1>3, <1>4 DEF IndInv, WaitingIsQueued, InQueue, InLane
<1>7. /\ Good(waiting')
      /\ \A x : \A m \in Lanes :
           InLane(waiting', x, m) <=> InLane(waiting, x, m) \/ (x = r /\ m = o)
  <2>1. waiting' = Push(q, r, o) /\ r \in Runs /\ o \in Lanes
    BY <1>1, <1>5
  <2>2. /\ Good(waiting')
        /\ \A x : \A m \in Lanes : InLane(waiting', x, m) <=> InLane(q, x, m) \/ (x = r /\ m = o)
    BY ONLY <1>4, <1>6, <2>1, PushFacts
  <2>3. \A x : \A m \in Lanes : InLane(q, x, m) <=> InLane(waiting, x, m)
    BY <1>4 DEF InLane
  <2> QED
    BY ONLY <2>2, <2>3
<1>8. \A x \in Runs : InQueue(waiting', x) <=> InQueue(waiting, x) \/ x = r
    BY <1>7 DEF InQueue
<1>9. /\ \A x \in Runs : stored'[x] = IF x = r THEN "queued" ELSE stored[x]
      /\ \A x \in Runs : status'[x] = IF x = r THEN "queued" ELSE status[x]
      /\ \A x \in Runs : owners'[x] = IF x = r THEN {o} ELSE owners[x]
    BY <1>1, <1>2
<1>10. TypeOK'
  <2>1. status' \in [Runs -> Statuses] /\ stored' \in [Runs -> Statuses]
    BY <1>1, <1>2 DEF Statuses
  <2>2. owners' \in [Runs -> SUBSET Lanes] /\ waiting' \in Queue /\ section' \in Sections
    BY <1>1, <1>2, <1>7 DEF Good, Sections
  <2> QED
    BY <1>1, <2>1, <2>2 DEF IndInv, TypeOK
<1>11. WaitingIsQueued'
    BY <1>1, <1>3, <1>8, <1>9 DEF IndInv, WaitingIsQueued
<1>12. CancelNeedsEveryOwner'
    BY <1>1, <1>2, <1>3, <1>9 DEF IndInv, CancelNeedsEveryOwner
<1>13. CompletedIsDurable' /\ SavedBeforeDropped' /\ OnlyAccepted'
    BY <1>1, <1>2, <1>9 DEF IndInv, CompletedIsDurable, SavedBeforeDropped, OnlyAccepted
<1>14. PhasesAgree' /\ SomeoneWants' /\ BootEmpty'
    BY <1>1, <1>2, <1>9 DEF IndInv, PhasesAgree, SomeoneWants, BootEmpty
<1>15. UserLane'
  <2>1. User \in Lanes /\ ~InLane(waiting, r, User)
    BY <1>4, <1>6 DEF InQueue, InLane, Lanes
  <2> QED
    BY <1>7, <1>9, <2>1 DEF IndInv, UserLane
<1>16. FinishedSaved'
  <2>1. \A i \in 1..Len(finished) : finished[i] \in Runs
    BY ElementOfSeq DEF IndInv, TypeOK
  <2> QED
    BY <1>1, <1>9, <2>1 DEF IndInv, FinishedSaved
<1> QED
    BY <1>7, <1>10, <1>11, <1>12, <1>13, <1>14, <1>15, <1>16 DEF IndInv

(* A step after which the runs in memory have the statuses and phases they *)
(* had: the owners change, or the lanes of those who wait.                 *)
Regroups(r, q) ==
    /\ UNCHANGED <<stored, artifact, records, status, cancelled, experimentSlot, finished, phase>>
    /\ section # "boot" /\ section' # "boot"
    /\ owners' \in [Runs -> SUBSET Lanes]
    /\ \A x \in Runs : x # r => owners'[x] = owners[x]
    /\ r \in records => \/ owners'[r] # {} /\ status[r] \in {"queued", "running"}
                        \/ owners'[r] \subseteq owners[r] /\ status[r] \in Terminal
                        \/ owners'[r] = owners[r]
    /\ Good(q)
    /\ waiting'.items = q.items /\ Good(waiting')
    /\ \A x \in Runs : InQueue(q, x) <=> InQueue(waiting, x)
    /\ \A x \in Runs : x # r => (InLane(q, x, User) <=> InLane(waiting, x, User))
    /\ InLane(q, r, User) => User \in owners'[r]
    /\ TypeOK'

LEMMA RegroupInv ==
    ASSUME IndInv, NEW r \in Runs, NEW q, Regroups(r, q)
    PROVE  IndInv'
PROOF
<1> USE DEF Regroups
<1>1. records \subseteq Runs
    BY DEF IndInv, TypeOK
<1>2. /\ \A x \in Runs : InQueue(waiting', x) <=> InQueue(waiting, x)
      /\ \A x \in Runs : InLane(waiting', x, User) <=> InLane(q, x, User)
    BY DEF InQueue, InLane
<1>3. WaitingIsQueued'
    BY <1>2 DEF IndInv, WaitingIsQueued
<1>4. UserLane'
    BY <1>2 DEF IndInv, UserLane
<1>5. CancelNeedsEveryOwner' /\ SomeoneWants'
    BY <1>1 DEF IndInv, CancelNeedsEveryOwner, SomeoneWants
<1>6. /\ CompletedIsDurable' /\ SavedBeforeDropped' /\ OnlyAccepted' /\ PhasesAgree'
      /\ FinishedSaved' /\ BootEmpty'
    BY DEF IndInv, CompletedIsDurable, SavedBeforeDropped, OnlyAccepted, PhasesAgree,
           FinishedSaved, BootEmpty
<1> QED
    BY <1>3, <1>4, <1>5, <1>6 DEF IndInv

LEMMA JoinInv ==
    ASSUME IndInv, NEW o \in Lanes, NEW r \in Runs, Join(o, r)
    PROVE  IndInv'
PROOF
<1> DEFINE p == WithControls(o)
           l == LaneFor(p, owners'[r])
           q == Move(p, r, l)
<1>1. /\ UNCHANGED <<stored, artifact, controls, records, status, cancelled, experimentSlot,
                      memoryWait, finished, running, runningExperiments, todo, controlling, phase,
                      hold, crashes, faults, leftBehind>>
      /\ section = "open" /\ section' = "dispatch"
      /\ r \in records /\ status[r] \in {"queued", "running"}
      /\ owners' = [owners EXCEPT ![r] = @ \cup {o}]
      /\ waiting' = q
    BY DEF Join, MayStart, slotVars, transportVars, boundVars, durable
<1>2. owners' \in [Runs -> SUBSET Lanes] /\ owners'[r] = owners[r] \cup {o}
      /\ \A x \in Runs : x # r => owners'[x] = owners[x]
    BY <1>1 DEF IndInv, TypeOK
<1>3. Good(p) /\ p.items = waiting.items
    BY WithControlsFacts
<1>4. l \in Lanes /\ (l = User => User \in owners'[r])
    BY <1>2, <1>3, LaneForFacts DEF Good
<1> HIDE DEF p, l
<1>5. /\ Good(q)
      /\ \A x \in Runs, m \in Lanes :
           InLane(q, x, m) <=> IF x = r /\ InQueue(p, r) THEN m = l ELSE InLane(p, x, m)
    BY <1>3, <1>4, MoveFacts
<1> HIDE DEF q
<1>6. /\ \A x \in Runs : InQueue(q, x) <=> InQueue(waiting, x)
      /\ \A x \in Runs : x # r => (InLane(q, x, User) <=> InLane(waiting, x, User))
      /\ InLane(q, r, User) => User \in owners'[r]
    BY <1>3, <1>4, <1>5 DEF InQueue, InLane, Lanes
<1>7. TypeOK'
    BY <1>1, <1>2, <1>5 DEF IndInv, TypeOK, Good, Sections
<1>8. Regroups(r, q)
    BY <1>1, <1>2, <1>5, <1>6, <1>7 DEF Regroups
<1> QED
    BY <1>8, RegroupInv

LEMMA LeaveEndedInv ==
    ASSUME IndInv, NEW o \in Lanes, NEW r \in Runs, LeaveEnded(o, r)
    PROVE  IndInv'
PROOF
<1>1. /\ UNCHANGED <<stored, artifact, controls, records, status, cancelled, experimentSlot,
                      memoryWait, waiting, finished, running, runningExperiments, section, todo,
                      controlling, phase, hold, crashes, faults, leftBehind>>
      /\ section = "open"
      /\ status[r] \in Terminal
      /\ owners' = [owners EXCEPT ![r] = @ \ {o}]
    BY DEF LeaveEnded, Leave, slotVars, transportVars
<1>2. owners' \in [Runs -> SUBSET Lanes] /\ owners'[r] \subseteq owners[r]
      /\ \A x \in Runs : x # r => owners'[x] = owners[x]
    BY <1>1 DEF IndInv, TypeOK
<1>3. ~InLane(waiting, r, User)
    BY <1>1 DEF IndInv, WaitingIsQueued, InQueue, Lanes
<1>4. TypeOK'
    BY <1>1, <1>2 DEF IndInv, TypeOK
<1>5. Regroups(r, waiting)
    BY <1>1, <1>2, <1>3, <1>4 DEF Regroups, IndInv
<1> QED
    BY <1>5, RegroupInv

LEMMA LeaveToOthersInv ==
    ASSUME IndInv, NEW o \in Lanes, NEW r \in Runs, LeaveToOthers(o, r)
    PROVE  IndInv'
PROOF
<1> DEFINE l == LaneFor(waiting, owners'[r])
           q == Move(waiting, r, l)
<1>1. /\ UNCHANGED <<stored, artifact, controls, records, status, cancelled, experimentSlot,
                      memoryWait, finished, running, runningExperiments, todo, controlling, phase,
                      hold, crashes, faults, leftBehind>>
      /\ section = "open" /\ section' = "dispatch"
      /\ r \in records /\ status[r] \notin Terminal
      /\ owners' = [owners EXCEPT ![r] = @ \ {o}]
      /\ owners'[r] # {}
      /\ waiting' = Forget(q, IdleAfter({o}))
    BY DEF LeaveToOthers, Leave, slotVars, transportVars
<1>2. owners' \in [Runs -> SUBSET Lanes] /\ owners'[r] \subseteq owners[r]
      /\ \A x \in Runs : x # r => owners'[x] = owners[x]
    BY <1>1 DEF IndInv, TypeOK
<1>3. status[r] \in {"queued", "running"}
  <2>1. owners[r] # {}
    BY <1>1, <1>2
  <2>2. r \notin cancelled /\ status[r] # Absent /\ status[r] \in Statuses
    BY <1>1, <2>1 DEF IndInv, CancelNeedsEveryOwner, SomeoneWants, TypeOK
  <2> QED
    BY <1>1, <2>2 DEF IndInv, CancelNeedsEveryOwner, Statuses
<1>4. l \in Lanes /\ (l = User => User \in owners'[r])
    BY <1>1, <1>2, LaneForFacts DEF IndInv, Good
<1> HIDE DEF l
<1>5. /\ Good(q)
      /\ \A x \in Runs, m \in Lanes :
           InLane(q, x, m) <=> IF x = r /\ InQueue(waiting, r) THEN m = l ELSE InLane(waiting, x, m)
    BY <1>4, MoveFacts DEF IndInv
<1> HIDE DEF q
<1>6. Good(waiting') /\ waiting'.items = q.items
  <2>1. IdleAfter({o}) \in SUBSET Experiments
    BY DEF IdleAfter, Lanes
  <2> QED
    BY <1>1, <1>5, <2>1, ForgetFacts
<1>7. /\ \A x \in Runs : InQueue(q, x) <=> InQueue(waiting, x)
      /\ \A x \in Runs : x # r => (InLane(q, x, User) <=> InLane(waiting, x, User))
      /\ InLane(q, r, User) => User \in owners'[r]
    BY <1>4, <1>5 DEF InQueue, Lanes
<1>8. TypeOK'
    BY <1>1, <1>2, <1>6 DEF IndInv, TypeOK, Good, Sections
<1>9. Regroups(r, q)
    BY <1>1, <1>2, <1>3, <1>5, <1>6, <1>7, <1>8 DEF Regroups
<1> QED
    BY <1>9, RegroupInv

LEMMA CancelStartedInv ==
    ASSUME IndInv, NEW o \in Lanes, NEW r \in Runs, NEW saved \in BOOLEAN,
           CancelStarted(o, r, saved)
    PROVE  IndInv'
PROOF
<1>1. /\ UNCHANGED <<artifact, controls, records, experimentSlot, finished, running,
                      runningExperiments, section, todo, controlling, phase, hold, crashes, leftBehind>>
      /\ section = "open"
      /\ r \in records /\ status[r] \notin Terminal
      /\ owners' = [owners EXCEPT ![r] = @ \ {o}]
      /\ owners'[r] = {}
      /\ ~InQueue(waiting, r)
      /\ cancelled' = cancelled \cup {r}
      /\ status' = [status EXCEPT ![r] = "cancel_requested"]
      /\ stored' \in {stored, [stored EXCEPT ![r] = "cancel_requested"]}
      /\ memoryWait' = memoryWait \ {r}
      /\ faults + Lost(saved) <= MaxFaults /\ faults' = faults + Lost(saved)
      /\ waiting' = Forget(waiting, IdleAfter({o}))
    BY DEF CancelStarted, Leave, Persist, Faults, slotVars, transportVars
<1>2. /\ status \in [Runs -> Statuses] /\ stored \in [Runs -> Statuses]
      /\ owners \in [Runs -> SUBSET Lanes] /\ records \subseteq Runs
    BY DEF IndInv, TypeOK
<1>3. stored[r] \notin Terminal /\ stored[r] # Absent /\ status[r] # Absent
    BY <1>1 DEF IndInv, SavedBeforeDropped, OnlyAccepted, SomeoneWants
<1>4. /\ \A x \in Runs : stored'[x] = stored[x] \/ (x = r /\ stored'[x] = "cancel_requested")
      /\ \A x \in Runs : status'[x] = IF x = r THEN "cancel_requested" ELSE status[x]
      /\ \A x \in Runs : owners'[x] = IF x = r THEN {} ELSE owners[x]
    BY <1>1, <1>2
<1>5. Good(waiting') /\ waiting'.items = waiting.items
  <2>1. IdleAfter({o}) \in SUBSET Experiments
    BY DEF IdleAfter, Lanes
  <2> QED
    BY <1>1, <2>1, ForgetFacts DEF IndInv
<1>6. /\ \A x \in Runs : InQueue(waiting', x) <=> InQueue(waiting, x)
      /\ \A x \in Runs : InLane(waiting', x, User) <=> InLane(waiting, x, User)
    BY <1>5 DEF InQueue, InLane
<1>7. TypeOK'
  <2>1. status' \in [Runs -> Statuses] /\ stored' \in [Runs -> Statuses]
    BY <1>1, <1>2 DEF Statuses
  <2>2. owners' \in [Runs -> SUBSET Lanes] /\ waiting' \in Queue
    BY <1>1, <1>2, <1>5 DEF Good
  <2>3. faults' \in 0..MaxFaults
    BY <1>1, BoundsAssumption DEF IndInv, TypeOK, Lost
  <2> QED
    BY <1>1, <2>1, <2>2, <2>3 DEF IndInv, TypeOK
<1>8. WaitingIsQueued'
  <2>1. records' = records /\ phase' = phase /\ ~InQueue(waiting, r)
    BY <1>1
  <2>2. ASSUME NEW x \in Runs
        PROVE  InQueue(waiting', x) <=> x \in records' /\ status'[x] = "queued" /\ phase'[x] = "none"
    <3>1. CASE x = r
      BY <1>4, <1>6, <2>1, <3>1
    <3>2. CASE x # r
      BY <1>4, <1>6, <2>1, <3>2 DEF IndInv, WaitingIsQueued
    <3> QED
      BY <3>1, <3>2
  <2> QED
    BY <2>2 DEF WaitingIsQueued
<1>9. CancelNeedsEveryOwner' /\ SomeoneWants'
    BY <1>1, <1>2, <1>4 DEF IndInv, CancelNeedsEveryOwner, SomeoneWants
<1>10. CompletedIsDurable' /\ SavedBeforeDropped' /\ OnlyAccepted'
    BY <1>1, <1>2, <1>3, <1>4 DEF IndInv, CompletedIsDurable, SavedBeforeDropped, OnlyAccepted
<1>11. PhasesAgree' /\ BootEmpty'
    BY <1>1, <1>2, <1>4 DEF IndInv, PhasesAgree, BootEmpty
<1>12. UserLane'
  <2>1. ~InLane(waiting, r, User)
    BY <1>1 DEF InQueue, Lanes
  <2> QED
    BY <1>4, <1>6, <2>1 DEF IndInv, UserLane
<1>13. FinishedSaved'
  <2>1. \A i \in 1..Len(finished) : finished[i] \in Runs
    BY ElementOfSeq DEF IndInv, TypeOK
  <2> QED
    BY <1>1, <1>3, <1>4, <2>1 DEF IndInv, FinishedSaved
<1> QED
    BY <1>5, <1>7, <1>8, <1>9, <1>10, <1>11, <1>12, <1>13 DEF IndInv

-----------------------------------------------------------------------------
(* Controls.                                                               *)
LEMMA SetControlsInv ==
    ASSUME IndInv, NEW e \in Experiments, NEW paused \in BOOLEAN, NEW w \in Weights,
           SetControls(e, paused, w)
    PROVE  IndInv'
PROOF
<1>1. /\ UNCHANGED <<stored, artifact, records, status, owners, cancelled, experimentSlot,
                      memoryWait, finished, waiting, running, runningExperiments, section, todo,
                      phase, hold, crashes, faults, leftBehind>>
      /\ controlling' = e
      /\ controls' = [controls EXCEPT ![e] = [paused |-> paused, weight |-> w]]
    BY DEF SetControls, recordVars, slotVars, transportVars, boundVars
<1>2. TypeOK'
  <2>1. controls' \in [Experiments -> [paused : BOOLEAN, weight : Nat \ {0}]]
    BY <1>1, WeightsAssumption DEF IndInv, TypeOK
  <2> QED
    BY <1>1, <2>1 DEF IndInv, TypeOK, Lanes
<1>3. /\ Good(waiting)' /\ WaitingIsQueued' /\ UserLane' /\ CancelNeedsEveryOwner'
      /\ SomeoneWants' /\ CompletedIsDurable' /\ SavedBeforeDropped' /\ OnlyAccepted'
      /\ PhasesAgree' /\ FinishedSaved' /\ BootEmpty'
    BY <1>1 DEF IndInv, WaitingIsQueued, UserLane, CancelNeedsEveryOwner, SomeoneWants,
                CompletedIsDurable, SavedBeforeDropped, OnlyAccepted, PhasesAgree,
                FinishedSaved, BootEmpty
<1> QED
    BY <1>2, <1>3 DEF IndInv

(* Steps of the lock's holder that touch no record: the queue keeps its    *)
(* runs in their lanes.                                                    *)
KeepsAll ==
    /\ UNCHANGED <<stored, artifact, records, status, owners, cancelled, experimentSlot,
                   finished, phase>>
    /\ section' = "boot" <=> section = "boot"
    /\ Good(waiting') /\ waiting'.items = waiting.items
    /\ TypeOK'

LEMMA KeepsAllInv ==
    ASSUME IndInv, KeepsAll
    PROVE  IndInv'
PROOF
<1> USE DEF KeepsAll
<1>1. WaitingIsQueued' /\ UserLane'
    BY DEF IndInv, WaitingIsQueued, UserLane, InQueue, InLane
<1>2. /\ CancelNeedsEveryOwner' /\ SomeoneWants' /\ CompletedIsDurable' /\ SavedBeforeDropped'
      /\ OnlyAccepted' /\ PhasesAgree' /\ FinishedSaved' /\ BootEmpty'
    BY DEF IndInv, CancelNeedsEveryOwner, SomeoneWants, CompletedIsDurable, SavedBeforeDropped,
           OnlyAccepted, PhasesAgree, FinishedSaved, BootEmpty
<1> QED
    BY <1>1, <1>2 DEF IndInv

LEMMA ScheduleInv ==
    ASSUME IndInv, NEW e \in Experiments, Schedule(e)
    PROVE  IndInv'
PROOF
<1>1. /\ UNCHANGED <<stored, artifact, controls, records, status, owners, cancelled,
                      experimentSlot, memoryWait, finished, running, runningExperiments, phase,
                      hold, crashes, faults, leftBehind>>
      /\ section = "open" /\ section' \in {"open", "relane", "dispatch"}
      /\ controlling' = User
      /\ todo' \in {todo, Shared(e)}
      /\ \/ waiting' = Configure(waiting, e, controls[e].paused, controls[e].weight)
         \/ waiting' = Forget(waiting, {e})
    BY DEF Schedule, durable, recordVars, slotVars, transportVars, boundVars
<1>2. Good(waiting') /\ waiting'.items = waiting.items
  <2>1. controls[e].paused \in BOOLEAN /\ controls[e].weight \in Nat \ {0}
    BY DEF IndInv, TypeOK
  <2> QED
    BY <1>1, <2>1, ConfigureFacts, ForgetFacts DEF IndInv
<1>3. TypeOK'
    BY <1>1, <1>2 DEF IndInv, TypeOK, Good, Shared, Sections, Lanes
<1>4. KeepsAll
    BY <1>1, <1>2, <1>3 DEF KeepsAll
<1> QED
    BY <1>4, KeepsAllInv

LEMMA RelaneNextInv ==
    ASSUME IndInv, NEW r \in Runs, RelaneNext(r)
    PROVE  IndInv'
PROOF
<1> DEFINE l == LaneFor(waiting, owners[r])
           q == Move(waiting, r, l)
<1>1. /\ UNCHANGED <<stored, artifact, controls, records, status, owners, cancelled,
                      experimentSlot, memoryWait, finished, running, runningExperiments,
                      controlling, phase, hold, crashes, faults, leftBehind>>
      /\ section = "relane" /\ section' \in {"relane", "dispatch"}
      /\ todo' = todo \ {r}
      /\ waiting' = q
    BY DEF RelaneNext, durable, recordVars, slotVars, transportVars, boundVars
<1>2. CASE InQueue(waiting, r)
  <2>1. owners[r] # {} /\ owners[r] \in SUBSET Lanes
    BY <1>2 DEF IndInv, WaitingIsQueued, SomeoneWants, TypeOK
  <2>2. l \in Lanes /\ (l = User => User \in owners[r])
    BY <2>1, LaneForFacts DEF IndInv, Good
  <2> HIDE DEF l
  <2>3. /\ Good(q)
        /\ \A x \in Runs, m \in Lanes :
             InLane(q, x, m) <=> IF x = r THEN m = l ELSE InLane(waiting, x, m)
    BY <1>2, <2>2, MoveFacts DEF IndInv
  <2> HIDE DEF q
  <2>4. /\ \A x \in Runs : InQueue(q, x) <=> InQueue(waiting, x)
        /\ \A x \in Runs : x # r => (InLane(q, x, User) <=> InLane(waiting, x, User))
        /\ InLane(q, r, User) => User \in owners[r]
    BY <1>2, <2>2, <2>3 DEF InQueue, Lanes
  <2>5. TypeOK'
    BY <1>1, <2>3 DEF IndInv, TypeOK, Good, Sections
  <2>6. Regroups(r, q)
    BY <1>1, <2>3, <2>4, <2>5 DEF Regroups, IndInv, TypeOK
  <2> QED
    BY <2>6, RegroupInv
<1>3. CASE ~InQueue(waiting, r)
  <2>1. waiting' = waiting
    BY <1>1, <1>3 DEF Move
  <2>2. TypeOK'
    BY <1>1, <2>1 DEF IndInv, TypeOK, Sections
  <2>3. KeepsAll
    BY <1>1, <2>1, <2>2 DEF KeepsAll, IndInv
  <2> QED
    BY <2>3, KeepsAllInv
<1> QED
    BY <1>2, <1>3

-----------------------------------------------------------------------------
(* Dispatching.                                                            *)
LEMMA HeadFacts ==
    ASSUME IndInv, HasHead
    PROVE  /\ HeadRun \in Runs
           /\ InQueue(waiting, HeadRun)
           /\ HeadRun \in records /\ status[HeadRun] = "queued" /\ phase[HeadRun] = "none"
           /\ User \notin owners[HeadRun] => ExperimentsMay
           /\ Good(Pop(waiting, ExperimentsMay))
           /\ \A x \in Runs, m \in Lanes :
                InLane(Pop(waiting, ExperimentsMay), x, m) <=> InLane(waiting, x, m) /\ x # HeadRun
PROOF
<1>1. ExperimentsMay \in BOOLEAN /\ HasNext(waiting, ExperimentsMay) /\ Good(waiting)
    BY DEF ExperimentsMay, HasHead, IndInv
<1> DEFINE l == NextLane(waiting, ExperimentsMay)
<1>2. /\ HeadRun \in Runs
      /\ l \in Lanes
      /\ InLane(waiting, HeadRun, l)
      /\ l = User \/ ExperimentsMay
      /\ Good(Pop(waiting, ExperimentsMay))
      /\ \A x \in Runs, m \in Lanes :
           InLane(Pop(waiting, ExperimentsMay), x, m) <=> InLane(waiting, x, m) /\ x # HeadRun
    BY <1>1, PopFacts DEF HeadRun
<1> HIDE DEF l
<1>3. InQueue(waiting, HeadRun)
    BY <1>2 DEF InQueue
<1>4. HeadRun \in records /\ status[HeadRun] = "queued" /\ phase[HeadRun] = "none"
    BY <1>2, <1>3 DEF IndInv, WaitingIsQueued
<1>5. User \notin owners[HeadRun] => ExperimentsMay
    BY <1>2 DEF IndInv, UserLane
<1> QED
    BY <1>2, <1>3, <1>4, <1>5

LEMMA DispatchStartInv ==
    ASSUME IndInv, NEW r \in Runs, DispatchStart(r)
    PROVE  IndInv'
PROOF
<1>1. /\ UNCHANGED <<stored, artifact, controls, records, status, owners, cancelled, memoryWait,
                      finished, section, todo, controlling, hold, crashes, faults, leftBehind>>
      /\ section = "dispatch"
      /\ HasHead /\ r = HeadRun
      /\ waiting' = Pop(waiting, ExperimentsMay)
      /\ phase' = [phase EXCEPT ![r] = "computing"]
      /\ running' = running + 1
      /\ experimentSlot' \in {experimentSlot, experimentSlot \cup {r}}
      /\ runningExperiments' \in {runningExperiments, runningExperiments + 1}
    BY DEF DispatchStart, durable, lockVars, boundVars
<1>2. /\ InQueue(waiting, r)
      /\ r \in records /\ status[r] = "queued" /\ phase[r] = "none"
      /\ Good(waiting')
      /\ \A x \in Runs, m \in Lanes : InLane(waiting', x, m) <=> InLane(waiting, x, m) /\ x # r
    BY <1>1, HeadFacts
<1>3. \A x \in Runs : InQueue(waiting', x) <=> InQueue(waiting, x) /\ x # r
    BY <1>2 DEF InQueue
<1>4. /\ phase' \in [Runs -> Phases]
      /\ \A x \in Runs : phase'[x] = IF x = r THEN "computing" ELSE phase[x]
    BY <1>1 DEF IndInv, TypeOK, Phases, SlotPhases
<1>5. TypeOK'
  <2>1. running' \in Int /\ runningExperiments' \in Int
    BY <1>1 DEF IndInv, TypeOK
  <2> QED
    BY <1>1, <1>2, <1>4, <2>1 DEF IndInv, TypeOK, Good
<1>6. WaitingIsQueued'
    BY <1>1, <1>3, <1>4 DEF IndInv, WaitingIsQueued
<1>7. UserLane'
    BY <1>1, <1>2 DEF IndInv, UserLane, Lanes
<1>8. /\ CancelNeedsEveryOwner' /\ SomeoneWants' /\ CompletedIsDurable' /\ SavedBeforeDropped'
      /\ FinishedSaved' /\ BootEmpty'
    BY <1>1 DEF IndInv, CancelNeedsEveryOwner, SomeoneWants, CompletedIsDurable,
                SavedBeforeDropped, FinishedSaved, BootEmpty
<1>9. OnlyAccepted'
    BY <1>1, <1>2, <1>4 DEF IndInv, OnlyAccepted
<1>10. PhasesAgree'
    BY <1>1, <1>2, <1>4 DEF IndInv, PhasesAgree, SlotPhases
<1> QED
    BY <1>2, <1>5, <1>6, <1>7, <1>8, <1>9, <1>10 DEF IndInv

LEMMA DispatchEndsInv ==
    ASSUME IndInv, DispatchHold \/ DispatchDone
    PROVE  IndInv'
PROOF
<1>1. /\ UNCHANGED <<stored, artifact, controls, records, status, owners, cancelled,
                      experimentSlot, finished, waiting, running, runningExperiments, todo,
                      controlling, phase, crashes, faults, leftBehind>>
      /\ section = "dispatch" /\ section' = "open"
      /\ hold' \in BOOLEAN
      /\ memoryWait' = {} \/ (HasHead /\ memoryWait' = {HeadRun})
    BY DEF DispatchHold, DispatchDone, durable, slotVars, boundVars
<1>2. memoryWait' \subseteq Runs
    BY <1>1, HeadFacts
<1>3. TypeOK'
    BY <1>1, <1>2 DEF IndInv, TypeOK, Sections
<1>4. KeepsAll
    BY <1>1, <1>3 DEF KeepsAll, IndInv
<1> QED
    BY <1>4, KeepsAllInv

-----------------------------------------------------------------------------
(* Restarts.                                                               *)
LEMMA CrashInv ==
    ASSUME IndInv, Crash
    PROVE  IndInv'
PROOF
<1>1. /\ UNCHANGED <<stored, artifact, controls, faults>>
      /\ crashes < MaxCrashes /\ crashes' = crashes + 1
      /\ records' = {} /\ cancelled' = {} /\ experimentSlot' = {} /\ memoryWait' = {}
      /\ todo' = {} /\ finished' = <<>>
      /\ status' = [r \in Runs |-> "absent"]
      /\ owners' = [r \in Runs |-> {}]
      /\ phase' = [r \in Runs |-> "none"]
      /\ waiting' = EmptyQueue
      /\ running' = 0 /\ runningExperiments' = 0
      /\ section' = "boot" /\ controlling' = 0 /\ hold' = FALSE
      /\ leftBehind' = leftBehind \cup {r \in Runs : phase[r] \in {"committed", "discarding"}}
    BY DEF Crash, durable
<1>2. Good(waiting') /\ \A r : ~InQueue(waiting', r)
    BY <1>1, EmptyQueueGood
<1>3. TypeOK'
  <2>1. waiting' \in Queue /\ finished' \in Seq(Runs)
    BY <1>1, <1>2 DEF Good
  <2>2. crashes' \in 0..MaxCrashes /\ faults' \in 0..MaxFaults
    BY <1>1, BoundsAssumption DEF IndInv, TypeOK
  <2>3. /\ status' \in [Runs -> Statuses]
        /\ owners' \in [Runs -> SUBSET Lanes]
        /\ phase' \in [Runs -> Phases]
    BY <1>1 DEF Statuses, Phases
  <2>4. section' \in Sections /\ controlling' \in Lanes /\ hold' \in BOOLEAN
    BY <1>1 DEF Sections, Lanes
  <2>5. stored' \in [Runs -> Statuses] /\ artifact' \subseteq Runs /\ leftBehind' \subseteq Runs
        /\ controls' \in [Experiments -> [paused : BOOLEAN, weight : Nat \ {0}]]
    BY <1>1 DEF IndInv, TypeOK
  <2> QED
    BY <1>1, <2>1, <2>2, <2>3, <2>4, <2>5 DEF TypeOK
<1>4. WaitingIsQueued' /\ UserLane'
    BY <1>1, <1>2 DEF WaitingIsQueued, UserLane, InQueue, Lanes
<1>5. /\ CancelNeedsEveryOwner' /\ SavedBeforeDropped' /\ SomeoneWants' /\ BootEmpty'
      /\ PhasesAgree'
    BY <1>1 DEF CancelNeedsEveryOwner, SavedBeforeDropped, SomeoneWants, BootEmpty, PhasesAgree,
                SlotPhases
<1>6. CompletedIsDurable' /\ OnlyAccepted'
    BY <1>1 DEF IndInv, CompletedIsDurable, OnlyAccepted
<1>7. FinishedSaved'
  <2>1. Len(finished') = 0
    BY <1>1
  <2> QED
    BY <2>1 DEF FinishedSaved
<1> QED
    BY <1>2, <1>3, <1>4, <1>5, <1>6, <1>7 DEF IndInv

LEMMA CloseInterruptedInv ==
    ASSUME IndInv, NEW r \in Runs, CloseInterrupted(r)
    PROVE  IndInv'
PROOF
<1>1. /\ UNCHANGED <<artifact, controls, records, status, owners, cancelled, experimentSlot,
                      memoryWait, finished, waiting, running, runningExperiments, section, todo,
                      controlling, phase, hold, crashes, faults, leftBehind>>
      /\ section = "boot"
      /\ stored[r] \in Unfinished
      /\ stored' = [stored EXCEPT ![r] = "failed"]
    BY DEF CloseInterrupted, recordVars, slotVars, lockVars, transportVars, boundVars
<1>2. /\ stored' \in [Runs -> Statuses]
      /\ \A x \in Runs : stored'[x] = IF x = r THEN "failed" ELSE stored[x]
    BY <1>1 DEF IndInv, TypeOK, Statuses
<1>3. TypeOK'
    BY <1>1, <1>2 DEF IndInv, TypeOK
<1>4. /\ Good(waiting') /\ WaitingIsQueued' /\ CancelNeedsEveryOwner' /\ PhasesAgree'
      /\ SomeoneWants' /\ UserLane' /\ BootEmpty'
    BY <1>1 DEF IndInv, WaitingIsQueued, CancelNeedsEveryOwner, PhasesAgree, SomeoneWants,
                UserLane, BootEmpty
<1>5. CompletedIsDurable' /\ OnlyAccepted'
    BY <1>1, <1>2 DEF IndInv, CompletedIsDurable, OnlyAccepted, BootEmpty
<1>6. SavedBeforeDropped'
    BY <1>1 DEF IndInv, SavedBeforeDropped, BootEmpty
<1>7. FinishedSaved'
  <2>1. \A i \in 1..Len(finished) : finished[i] \in Runs
    BY ElementOfSeq DEF IndInv, TypeOK
  <2> QED
    BY <1>1, <1>2, <2>1 DEF IndInv, FinishedSaved
<1> QED
    BY <1>3, <1>4, <1>5, <1>6, <1>7 DEF IndInv

LEMMA OpenServiceInv ==
    ASSUME IndInv, OpenService
    PROVE  IndInv'
PROOF
<1>1. /\ UNCHANGED <<stored, artifact, controls, records, status, owners, cancelled,
                      experimentSlot, memoryWait, finished, waiting, running, runningExperiments,
                      todo, controlling, phase, hold, crashes, faults, leftBehind>>
      /\ section' = "open"
      /\ \A r \in Runs : stored[r] \notin Unfinished
    BY DEF OpenService, durable, recordVars, slotVars, transportVars, boundVars
<1>2. TypeOK'
    BY <1>1 DEF IndInv, TypeOK, Sections
<1>3. SavedBeforeDropped' /\ BootEmpty'
    BY <1>1 DEF IndInv, SavedBeforeDropped, BootEmpty
<1>4. /\ Good(waiting') /\ WaitingIsQueued' /\ CancelNeedsEveryOwner' /\ PhasesAgree'
      /\ SomeoneWants' /\ UserLane' /\ CompletedIsDurable' /\ OnlyAccepted' /\ FinishedSaved'
    BY <1>1 DEF IndInv, WaitingIsQueued, CancelNeedsEveryOwner, PhasesAgree, SomeoneWants,
                UserLane, CompletedIsDurable, OnlyAccepted, FinishedSaved
<1> QED
    BY <1>2, <1>3, <1>4 DEF IndInv

-----------------------------------------------------------------------------
(* The invariant.                                                          *)
LEMMA RequestInv ==
    ASSUME IndInv, NEW o \in Lanes, NEW r \in Runs, Request(o, r)
    PROVE  IndInv'
PROOF
<1>1. CASE Accept(o, r)
    BY <1>1, AcceptInv
<1>2. CASE Join(o, r)
    BY <1>2, JoinInv
<1>3. CASE LeaveEnded(o, r)
    BY <1>3, LeaveEndedInv
<1>4. CASE LeaveToOthers(o, r)
    BY <1>4, LeaveToOthersInv
<1>5. ASSUME NEW saved \in BOOLEAN, CancelWaiting(o, r, saved) PROVE IndInv'
    BY <1>5, CancelWaitingInv
<1>6. ASSUME NEW saved \in BOOLEAN, CancelStarted(o, r, saved) PROVE IndInv'
    BY <1>6, CancelStartedInv
<1> QED
    BY <1>1, <1>2, <1>3, <1>4, <1>5, <1>6 DEF Request

LEMMA LoopStepInv ==
    ASSUME IndInv, LoopStep
    PROVE  IndInv'
PROOF
<1>1. ASSUME NEW r \in Runs, RelaneNext(r) PROVE IndInv'
    BY <1>1, RelaneNextInv
<1>2. ASSUME NEW r \in Runs, NEW saved \in BOOLEAN, DispatchStartFails(r, saved) PROVE IndInv'
    BY <1>2, DispatchStartFailsInv
<1>3. ASSUME NEW r \in Runs, DispatchStart(r) PROVE IndInv'
    BY <1>3, DispatchStartInv
<1>4. CASE DispatchHold \/ DispatchDone
    BY <1>4, DispatchEndsInv
<1> QED
    BY <1>1, <1>2, <1>3, <1>4 DEF LoopStep

LEMMA FinishInv ==
    ASSUME IndInv, NEW r \in Runs, End(r) \/ Finish(r)
    PROVE  IndInv'
PROOF
<1>1. CASE \/ EndCommitted(r) \/ EndFailed(r) \/ EndStopped(r) \/ Discard(r) \/ DiscardFails(r)
           \/ CompleteLate(r) \/ \E gone \in BOOLEAN : CompleteUnsaved(r, gone)
    BY <1>1, OutsideInv
<1>2. CASE Complete(r)
    BY <1>2, CompleteInv
<1>3. ASSUME NEW saved \in BOOLEAN, Settle(r, saved) PROVE IndInv'
    BY <1>3, SettleInv
<1>4. CASE Release(r)
    BY <1>4, ReleaseInv
<1> QED
    BY <1>1, <1>2, <1>3, <1>4 DEF End, Finish

LEMMA NextInv == IndInv /\ [Next]_vars => IndInv'
PROOF
<1> SUFFICES ASSUME IndInv, [Next]_vars PROVE IndInv'
    OBVIOUS
<1>1. ASSUME NEW o \in Lanes, NEW r \in Runs, Request(o, r) PROVE IndInv'
    BY <1>1, RequestInv
<1>2. ASSUME NEW e \in Experiments, NEW paused \in BOOLEAN, NEW w \in Weights,
             SetControls(e, paused, w)
      PROVE  IndInv'
    BY <1>2, SetControlsInv
<1>3. ASSUME NEW e \in Experiments, Schedule(e) PROVE IndInv'
    BY <1>3, ScheduleInv
<1>4. CASE LoopStep
    BY <1>4, LoopStepInv
<1>5. ASSUME NEW r \in Runs, NEW saved \in BOOLEAN, Progress(r, saved) PROVE IndInv'
    BY <1>5, ProgressInv
<1>6. ASSUME NEW r \in Runs, End(r) \/ Finish(r) PROVE IndInv'
    BY <1>6, FinishInv
<1>7. CASE Crash
    BY <1>7, CrashInv
<1>8. CASE Boot
    BY <1>8, OpenServiceInv, CloseInterruptedInv DEF Boot
<1>9. CASE UNCHANGED vars
  <2>1. UNCHANGED <<stored, artifact, controls, records, status, owners, cancelled,
                    experimentSlot, memoryWait, finished, waiting, running, runningExperiments,
                    section, todo, controlling, phase, hold, crashes, faults, leftBehind>>
    BY <1>9 DEF vars, durable, recordVars, slotVars, lockVars, transportVars, boundVars
  <2>2. TypeOK'
    BY <2>1 DEF IndInv, TypeOK
  <2>3. KeepsAll
    BY <2>1, <2>2 DEF KeepsAll, IndInv
  <2> QED
    BY <2>3, KeepsAllInv
<1> QED
    BY <1>1, <1>2, <1>3, <1>4, <1>5, <1>6, <1>7, <1>8, <1>9 DEF Next

THEOREM Invariance == Spec => []IndInv
PROOF
<1> QED
    BY InitInv, NextInv, PTL DEF Spec

(* Every variable keeps its type.                                          *)
THEOREM TypeCorrect == Spec => []TypeOK
PROOF
<1>1. IndInv => TypeOK
    BY DEF IndInv
<1> QED
    BY <1>1, Invariance, PTL

(* The waiting queue and the records never disagree about who waits: no    *)
(* accepted run is lost and no ended run is started, whatever requests,    *)
(* ends, failed writes and restarts come in which order.                   *)
THEOREM QueueAgreesWithRecords == Spec => []WaitingIsQueued
PROOF
<1>1. IndInv => WaitingIsQueued
    BY DEF IndInv
<1> QED
    BY <1>1, Invariance, PTL

(* A run somebody still wants is never cancelled, and a run that is being  *)
(* cancelled is never joined.                                              *)
THEOREM NoOwnerIsOverruled == Spec => []CancelNeedsEveryOwner
PROOF
<1>1. IndInv => CancelNeedsEveryOwner
    BY DEF IndInv
<1> QED
    BY <1>1, Invariance, PTL

(* What is told to be completed is saved and has its result, also when a   *)
(* cancellation, a failed write or a restart falls in between.             *)
THEOREM CompletionIsDurable == Spec => []CompletedIsDurable
PROOF
<1>1. IndInv => CompletedIsDurable
    BY DEF IndInv
<1> QED
    BY <1>1, Invariance, PTL

(* No run is forgotten: while requests are served, whatever the repository *)
(* has as unfinished is in memory, and what is saved as ended is told so.  *)
THEOREM NothingDroppedUnsaved == Spec => []SavedBeforeDropped
PROOF
<1>1. IndInv => SavedBeforeDropped
    BY DEF IndInv
<1> QED
    BY <1>1, Invariance, PTL

-----------------------------------------------------------------------------
(* The slots of the run service: every end of a run gives back exactly the *)
(* share it took, for any number of slots, runs, faults and restarts.      *)
(* Relative to the invariant above: the head of the queue has no slot yet, *)
(* and it has an owner the share it takes allows.                          *)
SlotInv == IsFiniteSet(HoldsSlot) /\ SlotAccounting

(* Steps that neither give nor take a slot.                                *)
SlotsKept ==
    /\ UNCHANGED <<running, runningExperiments, experimentSlot>>
    /\ \A x \in Runs : phase'[x] \in SlotPhases <=> phase[x] \in SlotPhases

LEMMA SlotsKeptInv ==
    ASSUME SlotInv, SlotsKept
    PROVE  SlotInv'
PROOF
<1>1. HoldsSlot' = HoldsSlot
    BY DEF SlotsKept, HoldsSlot
<1> QED
    BY <1>1 DEF SlotInv, SlotAccounting, SlotsKept

LEMMA PhaseMoved ==
    ASSUME IndInv, NEW r \in Runs, NEW from \in SlotPhases, NEW to \in SlotPhases,
           phase[r] = from, phase' = [phase EXCEPT ![r] = to],
           UNCHANGED <<running, runningExperiments, experimentSlot>>
    PROVE  SlotsKept
PROOF
<1>1. phase \in [Runs -> Phases]
    BY DEF IndInv, TypeOK
<1> QED
    BY <1>1 DEF SlotsKept

LEMMA InitSlots == Init => SlotInv
PROOF
<1> SUFFICES ASSUME Init PROVE SlotInv
    OBVIOUS
<1>1. HoldsSlot = {} /\ running = 0 /\ runningExperiments = 0
    BY DEF Init, HoldsSlot, SlotPhases
<1>2. HoldsSlot \cap experimentSlot = {}
    BY <1>1
<1>3. ExperimentSlots(Slots) \in Nat
    BY SlotsAssumption DEF ExperimentSlots
<1> QED
    BY <1>1, <1>2, <1>3, FS_EmptySet, SlotsAssumption DEF SlotInv, SlotAccounting

(* A started run had no slot, and its share of them was not used up.       *)
LEMMA DispatchStartSlots ==
    ASSUME IndInv, SlotInv, NEW r \in Runs, DispatchStart(r)
    PROVE  SlotInv'
PROOF
<1> DEFINE E == HoldsSlot \cap experimentSlot
<1>1. /\ r \in Runs /\ phase[r] = "none" /\ r \notin HoldsSlot /\ r \notin experimentSlot
      /\ User \notin owners[r] => ExperimentsMay
      /\ running < Slots
  <2>1. HasHead /\ r = HeadRun
    BY DEF DispatchStart
  <2>2. phase[r] = "none" /\ (User \notin owners[r] => ExperimentsMay)
    BY <2>1, HeadFacts
  <2> QED
    BY <2>1, <2>2 DEF HasHead, HoldsSlot, SlotPhases, IndInv, PhasesAgree
<1>2. HoldsSlot' = HoldsSlot \cup {r}
    BY DEF DispatchStart, HoldsSlot, SlotPhases, IndInv, TypeOK
<1>3. /\ IsFiniteSet(HoldsSlot) /\ IsFiniteSet(E)
      /\ running = Cardinality(HoldsSlot) /\ runningExperiments = Cardinality(E)
      /\ runningExperiments <= ExperimentSlots(Slots)
      /\ Cardinality(HoldsSlot) \in Nat /\ Cardinality(E) \in Nat
      /\ ExperimentSlots(Slots) \in Nat
  <2>1. /\ IsFiniteSet(HoldsSlot) /\ running = Cardinality(HoldsSlot)
        /\ runningExperiments = Cardinality(E) /\ runningExperiments <= ExperimentSlots(Slots)
    BY DEF SlotInv, SlotAccounting
  <2>2. IsFiniteSet(E)
    BY <2>1, FS_Subset
  <2>3. ExperimentSlots(Slots) \in Nat
    BY SlotsAssumption DEF ExperimentSlots
  <2> QED
    BY <2>1, <2>2, <2>3, FS_CardinalityType
<1>4. /\ IsFiniteSet(HoldsSlot') /\ running' = Cardinality(HoldsSlot') /\ running' <= Slots
  <2>1. Cardinality(HoldsSlot \cup {r}) = Cardinality(HoldsSlot) + 1
        /\ IsFiniteSet(HoldsSlot \cup {r})
    BY <1>1, <1>3, FS_AddElement
  <2>2. running' = running + 1
    BY DEF DispatchStart
  <2> QED
    BY <1>1, <1>2, <1>3, <2>1, <2>2, SlotsAssumption
<1>5. CASE User \in owners[r]
  <2>1. UNCHANGED <<experimentSlot, runningExperiments>>
    BY <1>5 DEF DispatchStart
  <2>2. HoldsSlot' \cap experimentSlot' = E
    BY <1>1, <1>2, <2>1
  <2> QED
    BY <1>3, <1>4, <2>1, <2>2 DEF SlotInv, SlotAccounting
<1>6. CASE User \notin owners[r]
  <2>1. experimentSlot' = experimentSlot \cup {r} /\ runningExperiments' = runningExperiments + 1
    BY <1>6 DEF DispatchStart
  <2>2. HoldsSlot' \cap experimentSlot' = E \cup {r}
    BY <1>1, <1>2, <2>1
  <2>3. Cardinality(E \cup {r}) = Cardinality(E) + 1
    BY <1>1, <1>3, FS_AddElement
  <2>4. runningExperiments < ExperimentSlots(Slots)
    BY <1>1, <1>6 DEF ExperimentsMay
  <2> HIDE DEF E
  <2>5. /\ runningExperiments' = Cardinality(HoldsSlot' \cap experimentSlot')
        /\ runningExperiments' <= ExperimentSlots(Slots)
    BY <1>3, <2>1, <2>2, <2>3, <2>4
  <2> QED
    BY <1>4, <2>5 DEF SlotInv, SlotAccounting
<1> QED
    BY <1>5, <1>6

(* The end of a run gives back what it took.                               *)
LEMMA ReleaseSlots ==
    ASSUME IndInv, SlotInv, NEW r \in Runs, Release(r)
    PROVE  SlotInv'
PROOF
<1> DEFINE E == HoldsSlot \cap experimentSlot
<1>1. /\ r \in HoldsSlot
      /\ HoldsSlot' = HoldsSlot \ {r}
      /\ experimentSlot' = experimentSlot
      /\ running' = running - 1
      /\ runningExperiments' = IF r \in experimentSlot THEN runningExperiments - 1
                               ELSE runningExperiments
    BY DEF Release, recordVars, HoldsSlot, SlotPhases, IndInv, TypeOK
<1>2. /\ IsFiniteSet(HoldsSlot) /\ running = Cardinality(HoldsSlot)
      /\ runningExperiments = Cardinality(E)
      /\ running <= Slots /\ runningExperiments <= ExperimentSlots(Slots)
    BY DEF SlotInv, SlotAccounting
<1>3. IsFiniteSet(E)
    BY <1>2, FS_Subset
<1>4. /\ Cardinality(HoldsSlot) \in Nat /\ Cardinality(E) \in Nat
      /\ ExperimentSlots(Slots) \in Nat
    BY <1>2, <1>3, FS_CardinalityType, SlotsAssumption DEF ExperimentSlots
<1>5. IsFiniteSet(HoldsSlot') /\ Cardinality(HoldsSlot') = Cardinality(HoldsSlot) - 1
    BY <1>1, <1>2, FS_RemoveElement
<1>6. HoldsSlot' \cap experimentSlot' = E \ {r}
    BY <1>1
<1>7. Cardinality(E \ {r}) = IF r \in experimentSlot THEN Cardinality(E) - 1 ELSE Cardinality(E)
  <2>1. CASE r \in experimentSlot
    BY <1>1, <1>3, <2>1, FS_RemoveElement
  <2>2. CASE r \notin experimentSlot
    <3>1. E \ {r} = E
      BY <2>2
    <3> QED
      BY <2>2, <3>1
  <2> QED
    BY <2>1, <2>2
<1> HIDE DEF E
<1> QED
    BY <1>1, <1>2, <1>4, <1>5, <1>6, <1>7, SlotsAssumption DEF SlotInv, SlotAccounting

LEMMA FinishSlots ==
    ASSUME IndInv, SlotInv, NEW r \in Runs, End(r) \/ Finish(r)
    PROVE  SlotInv'
PROOF
<1> USE DEF SlotPhases
<1>1. CASE End(r) \/ Discard(r) \/ DiscardFails(r)
  <2>1. PICK from, to \in SlotPhases : Outside(r, from, to)
    BY <1>1 DEF End, EndCommitted, EndFailed, EndStopped, Discard, DiscardFails
  <2>2. SlotsKept
    BY <2>1, PhaseMoved DEF Outside, recordVars, slotVars
  <2> QED
    BY <2>2, SlotsKeptInv
<1>2. CASE CompleteLate(r) \/ Complete(r) \/ \E gone \in BOOLEAN : CompleteUnsaved(r, gone)
  <2>1. PICK to \in SlotPhases : phase[r] = "committed" /\ phase' = [phase EXCEPT ![r] = to]
    BY <1>2 DEF CompleteLate, Complete, CompleteUnsaved
  <2>2. UNCHANGED <<running, runningExperiments, experimentSlot>>
    BY <1>2 DEF CompleteLate, Complete, CompleteUnsaved, recordVars, slotVars
  <2> QED
    BY <2>1, <2>2, PhaseMoved, SlotsKeptInv
<1>3. ASSUME NEW saved \in BOOLEAN, Settle(r, saved) PROVE SlotInv'
  <2>1. /\ phase[r] \in {"cancelling", "failing"} /\ phase' = [phase EXCEPT ![r] = "settled"]
        /\ UNCHANGED <<running, runningExperiments, experimentSlot>>
    BY <1>3 DEF Settle, slotVars
  <2> QED
    BY <2>1, PhaseMoved, SlotsKeptInv
<1>4. CASE Release(r)
    BY <1>4, ReleaseSlots
<1> QED
    BY <1>1, <1>2, <1>3, <1>4 DEF Finish

LEMMA NextSlots == IndInv /\ SlotInv /\ [Next]_vars => SlotInv'
PROOF
<1> SUFFICES ASSUME IndInv, SlotInv, [Next]_vars PROVE SlotInv'
    OBVIOUS
<1>1. ASSUME UNCHANGED <<phase, running, runningExperiments, experimentSlot>> PROVE SlotInv'
    BY <1>1, SlotsKeptInv DEF SlotsKept
<1>2. ASSUME NEW o \in Lanes, NEW r \in Runs, Request(o, r) PROVE SlotInv'
  <2>1. UNCHANGED <<phase, running, runningExperiments, experimentSlot>>
    BY <1>2 DEF Request, Accept, Join, LeaveEnded, LeaveToOthers, CancelWaiting, CancelStarted,
                Leave, slotVars, transportVars
  <2> QED
    BY <1>1, <2>1
<1>3. ASSUME \/ \E e \in Experiments, paused \in BOOLEAN, w \in Weights : SetControls(e, paused, w)
             \/ \E e \in Experiments : Schedule(e)
             \/ \E r \in Runs : RelaneNext(r)
             \/ \E r \in Runs, saved \in BOOLEAN : DispatchStartFails(r, saved)
             \/ DispatchHold \/ DispatchDone
             \/ \E r \in Runs, saved \in BOOLEAN : Progress(r, saved)
             \/ Boot
             \/ UNCHANGED vars
      PROVE  SlotInv'
  <2>1. UNCHANGED <<phase, running, runningExperiments, experimentSlot>>
    BY <1>3 DEF SetControls, Schedule, RelaneNext, DispatchStartFails, DispatchHold, DispatchDone,
                Progress, Boot, OpenService, CloseInterrupted, vars, recordVars, slotVars,
                transportVars
  <2> QED
    BY <1>1, <2>1
<1>4. ASSUME NEW r \in Runs, DispatchStart(r) PROVE SlotInv'
    BY <1>4, DispatchStartSlots
<1>5. ASSUME NEW r \in Runs, End(r) \/ Finish(r) PROVE SlotInv'
    BY <1>5, FinishSlots
<1>6. CASE Crash
  <2>1. HoldsSlot' = {} /\ running' = 0 /\ runningExperiments' = 0
    BY <1>6 DEF Crash, HoldsSlot, SlotPhases
  <2>2. HoldsSlot' \cap experimentSlot' = {}
    BY <2>1
  <2>3. ExperimentSlots(Slots) \in Nat
    BY SlotsAssumption DEF ExperimentSlots
  <2> QED
    BY <2>1, <2>2, <2>3, FS_EmptySet, SlotsAssumption DEF SlotInv, SlotAccounting
<1> QED
    BY <1>2, <1>3, <1>4, <1>5, <1>6 DEF Next, LoopStep

(* However runs end, and however owners come and go while they compute, no *)
(* slot leaks, none is given back twice and the limits hold.               *)
THEOREM SlotsAreAccounted == Spec => []SlotAccounting
PROOF
<1>1. IndInv /\ SlotInv /\ [Next]_vars => SlotInv'
    BY NextSlots
<1>2. SlotInv => SlotAccounting
    BY DEF SlotInv
<1> QED
    BY InitSlots, Invariance, <1>1, <1>2, PTL DEF Spec

-----------------------------------------------------------------------------
(* Results.                                                                *)

(* A step that adds no result and leaves those that are there accounted    *)
(* for.                                                                    *)
LEMMA StrayKept ==
    ASSUME NoStrayResult, NEW r \in Runs,
           artifact' \subseteq artifact,
           leftBehind \subseteq leftBehind',
           \A x \in artifact' \ {r} : /\ stored[x] = "completed" => stored'[x] = "completed"
                                      /\ phase'[x] = phase[x],
           r \in artifact' \ leftBehind' =>
                \/ stored'[r] = "completed" \/ phase'[r] \in {"committed", "discarding"}
    PROVE  NoStrayResult'
PROOF
    BY DEF NoStrayResult

(* A run in memory that has not ended is not saved as completed.           *)
LEMMA UnfinishedNotSaved ==
    ASSUME IndInv, NEW r \in Runs, r \in records, status[r] \in Unfinished
    PROVE  stored[r] # "completed"
PROOF
    BY DEF IndInv, SavedBeforeDropped

(* The steps of the transport and of the end of a run.                     *)
LEMMA FinishStray ==
    ASSUME IndInv, NoStrayResult, NEW r \in Runs, End(r) \/ Finish(r)
    PROVE  NoStrayResult'
PROOF
<1>1. phase \in [Runs -> Phases] /\ stored \in [Runs -> Statuses] /\ artifact \subseteq Runs
    BY DEF IndInv, TypeOK
<1>2. ASSUME NEW to, phase' = [phase EXCEPT ![r] = to]
      PROVE  phase'[r] = to /\ \A x \in Runs \ {r} : phase'[x] = phase[x]
    BY <1>1, <1>2
<1>3. phase[r] \in SlotPhases \ {"settled"} => r \in records /\ stored[r] # "completed"
    BY UnfinishedNotSaved DEF IndInv, PhasesAgree
<1>4. CASE EndCommitted(r)
  <2>1. /\ artifact' = artifact \cup {r} /\ phase'[r] = "committed"
        /\ UNCHANGED <<stored, leftBehind>>
    BY <1>2, <1>4 DEF EndCommitted, Outside
  <2>2. \A x \in Runs \ {r} : phase'[x] = phase[x]
    BY <1>2, <1>4 DEF EndCommitted, Outside
  <2> QED
    BY <1>1, <2>1, <2>2 DEF NoStrayResult
<1>5. CASE EndFailed(r) \/ EndStopped(r)
  <2>1. /\ phase[r] = "computing" /\ UNCHANGED <<artifact, stored, leftBehind>>
        /\ \A x \in Runs \ {r} : phase'[x] = phase[x]
    BY <1>2, <1>5 DEF EndFailed, EndStopped, Outside
  <2>2. r \notin artifact \ leftBehind
    BY <1>3, <2>1 DEF NoStrayResult, SlotPhases
  <2> QED
    BY <1>1, <2>1, <2>2, StrayKept
<1>6. CASE CompleteLate(r)
  <2>1. /\ phase'[r] = "discarding" /\ UNCHANGED <<artifact, stored, leftBehind>>
        /\ \A x \in Runs \ {r} : phase'[x] = phase[x]
    BY <1>2, <1>6 DEF CompleteLate, durable, boundVars
  <2> QED
    BY <1>1, <2>1, StrayKept
<1>7. CASE \/ \E gone \in BOOLEAN : CompleteUnsaved(r, gone)
           \/ DiscardFails(r)
  <2>1. /\ UNCHANGED stored /\ artifact' \subseteq artifact /\ leftBehind \subseteq leftBehind'
        /\ r \notin artifact' \ leftBehind'
        /\ \A x \in Runs \ {r} : phase'[x] = phase[x]
    BY <1>2, <1>7 DEF CompleteUnsaved, DiscardFails, Outside
  <2> QED
    BY <1>1, <2>1, StrayKept
<1>8. CASE Discard(r)
  <2>1. /\ artifact' = artifact \ {r} /\ UNCHANGED <<stored, leftBehind>>
        /\ \A x \in Runs \ {r} : phase'[x] = phase[x]
    BY <1>2, <1>8 DEF Discard, Outside
  <2> QED
    BY <1>1, <2>1, StrayKept
<1>9. CASE Complete(r)
  <2>1. /\ stored' = [stored EXCEPT ![r] = "completed"] /\ UNCHANGED <<artifact, leftBehind>>
        /\ \A x \in Runs \ {r} : phase'[x] = phase[x]
    BY <1>2, <1>9 DEF Complete, EmitEnd, Persist, boundVars
  <2>2. stored'[r] = "completed" /\ \A x \in Runs \ {r} : stored'[x] = stored[x]
    BY <1>1, <2>1
  <2> QED
    BY <1>1, <2>1, <2>2, StrayKept
<1>10. ASSUME NEW saved \in BOOLEAN, Settle(r, saved) PROVE NoStrayResult'
  <2>1. /\ phase[r] \in {"cancelling", "failing"} /\ UNCHANGED <<artifact, leftBehind>>
        /\ \A x \in Runs \ {r} : phase'[x] = phase[x]
    BY <1>2, <1>10 DEF Settle
  <2>2. \A x \in Runs \ {r} : stored'[x] = stored[x]
    BY <1>1, <1>10 DEF Settle, EmitEnd, Persist
  <2>3. r \notin artifact \ leftBehind
    BY <1>3, <2>1 DEF NoStrayResult, SlotPhases
  <2> QED
    BY <1>1, <2>1, <2>2, <2>3, StrayKept
<1>11. CASE Release(r)
  <2>1. /\ phase[r] = "settled" /\ UNCHANGED <<artifact, stored, leftBehind>>
        /\ \A x \in Runs \ {r} : phase'[x] = phase[x]
    BY <1>2, <1>11 DEF Release, durable, boundVars
  <2> QED
    BY <1>1, <2>1, StrayKept DEF NoStrayResult
<1> QED
    BY <1>4, <1>5, <1>6, <1>7, <1>8, <1>9, <1>10, <1>11 DEF End, Finish

(* The steps that change what is saved of a run, and no result.            *)
LEMMA SavedStray ==
    ASSUME IndInv, NoStrayResult, NEW r \in Runs,
           stored' = stored \/ \E st \in Statuses : stored' = [stored EXCEPT ![r] = st],
           stored[r] # "completed",
           UNCHANGED <<artifact, leftBehind>>,
           phase' = phase \/ (phase' = [phase EXCEPT ![r] = "computing"] /\ phase[r] = "none")
    PROVE  NoStrayResult'
PROOF
<1>1. phase \in [Runs -> Phases] /\ stored \in [Runs -> Statuses] /\ artifact \subseteq Runs
    BY DEF IndInv, TypeOK
<1>2. /\ \A x \in Runs \ {r} : stored'[x] = stored[x] /\ phase'[x] = phase[x]
      /\ phase[r] \in {"committed", "discarding"} => phase'[r] = phase[r]
    BY <1>1
<1> QED
    BY <1>1, <1>2, StrayKept DEF NoStrayResult

LEMMA NextStray == IndInv /\ NoStrayResult /\ [Next]_vars => NoStrayResult'
PROOF
<1> SUFFICES ASSUME IndInv, NoStrayResult, [Next]_vars PROVE NoStrayResult'
    OBVIOUS
<1>1. ASSUME UNCHANGED <<artifact, stored, phase, leftBehind>> PROVE NoStrayResult'
    BY <1>1 DEF NoStrayResult
<1>2. ASSUME NEW o \in Lanes, NEW r \in Runs, Request(o, r) PROVE NoStrayResult'
  <2>1. CASE Join(o, r) \/ LeaveEnded(o, r) \/ LeaveToOthers(o, r)
    BY <1>1, <2>1 DEF Join, LeaveEnded, LeaveToOthers, Leave, durable, transportVars, boundVars
  <2>2. CASE Accept(o, r)
    BY <2>2, SavedStray DEF Accept, transportVars, boundVars, Statuses
  <2>3. ASSUME NEW saved \in BOOLEAN, CancelWaiting(o, r, saved) PROVE NoStrayResult'
    <3>1. r \in records /\ status[r] \in Unfinished
      BY <2>3 DEF CancelWaiting, Leave, IndInv, SomeoneWants, TypeOK, Statuses
    <3>2. stored[r] # "completed"
      BY <3>1, UnfinishedNotSaved
    <3>3. /\ stored' = stored \/ stored' = [stored EXCEPT ![r] = "cancelled"]
          /\ UNCHANGED <<artifact, leftBehind, phase>>
      BY <2>3 DEF CancelWaiting, Leave, EmitEnd, Persist, transportVars
    <3> QED
      BY <3>2, <3>3, SavedStray DEF Statuses
  <2>4. ASSUME NEW saved \in BOOLEAN, CancelStarted(o, r, saved) PROVE NoStrayResult'
    <3>1. r \in records /\ status[r] \in Unfinished
      BY <2>4 DEF CancelStarted, Leave, IndInv, SomeoneWants, TypeOK, Statuses
    <3>2. stored[r] # "completed"
      BY <3>1, UnfinishedNotSaved
    <3>3. /\ stored' = stored \/ stored' = [stored EXCEPT ![r] = "cancel_requested"]
          /\ UNCHANGED <<artifact, leftBehind, phase>>
      BY <2>4 DEF CancelStarted, Leave, Persist, transportVars
    <3> QED
      BY <3>2, <3>3, SavedStray DEF Statuses
  <2> QED
    BY <1>2, <2>1, <2>2, <2>3, <2>4 DEF Request
<1>3. ASSUME \/ \E e \in Experiments, paused \in BOOLEAN, w \in Weights : SetControls(e, paused, w)
             \/ \E e \in Experiments : Schedule(e)
             \/ \E r \in Runs : RelaneNext(r)
             \/ DispatchHold \/ DispatchDone \/ OpenService
             \/ UNCHANGED vars
      PROVE  NoStrayResult'
    BY <1>1, <1>3 DEF SetControls, Schedule, RelaneNext, DispatchHold, DispatchDone, OpenService, vars,
                      durable, transportVars, boundVars
<1>4. ASSUME NEW r \in Runs, DispatchStart(r) PROVE NoStrayResult'
  <2>1. phase[r] = "none" /\ r \in records /\ status[r] \in Unfinished
    BY <1>4, HeadFacts DEF DispatchStart
  <2>2. stored[r] # "completed"
    BY <2>1, UnfinishedNotSaved
  <2> QED
    BY <1>4, <2>1, <2>2, SavedStray DEF DispatchStart, durable, boundVars
<1>5. ASSUME NEW r \in Runs, NEW saved \in BOOLEAN, DispatchStartFails(r, saved) PROVE NoStrayResult'
  <2>1. r \in records /\ status[r] \in Unfinished
    BY <1>5, HeadFacts DEF DispatchStartFails
  <2>2. stored[r] # "completed"
    BY <2>1, UnfinishedNotSaved
  <2> QED
    BY <1>5, <2>2, SavedStray
       DEF DispatchStartFails, EmitEnd, Persist, transportVars, Statuses
<1>6. ASSUME NEW r \in Runs, NEW saved \in BOOLEAN, Progress(r, saved) PROVE NoStrayResult'
  <2>1. r \in records /\ status[r] \in Unfinished
    BY <1>6 DEF Progress, IndInv, PhasesAgree, SlotPhases
  <2>2. stored[r] # "completed"
    BY <2>1, UnfinishedNotSaved
  <2>3. /\ stored' = stored \/ stored' = [stored EXCEPT ![r] = "running"]
        /\ UNCHANGED <<artifact, leftBehind, phase>>
    BY <1>6 DEF Progress, Persist, transportVars
  <2> QED
    BY <2>2, <2>3, SavedStray DEF Statuses
<1>7. ASSUME NEW r \in Runs, End(r) \/ Finish(r) PROVE NoStrayResult'
    BY <1>7, FinishStray
<1>8. CASE Crash
  <2>1. /\ UNCHANGED <<artifact, stored>>
        /\ \A x \in Runs : phase[x] \in {"committed", "discarding"} => x \in leftBehind'
        /\ leftBehind \subseteq leftBehind'
    BY <1>8 DEF Crash, durable
  <2> QED
    BY <2>1 DEF NoStrayResult, IndInv, TypeOK
<1>9. ASSUME NEW r \in Runs, CloseInterrupted(r) PROVE NoStrayResult'
    BY <1>9, SavedStray DEF CloseInterrupted, transportVars, boundVars, Statuses
<1> QED
    BY <1>2, <1>3, <1>4, <1>5, <1>6, <1>7, <1>8, <1>9 DEF Next, LoopStep, Boot

(* A run that did not complete leaves no result in the store, whatever     *)
(* cancels it and when and whatever of it could not be saved, unless the   *)
(* removal itself failed or the server stopped while it was settled.       *)
THEOREM NothingStrayIsLeft == Spec => []NoStrayResult
PROOF
<1>1. Init => NoStrayResult
    BY DEF Init, NoStrayResult
<1> QED
    BY <1>1, NextStray, Invariance, PTL DEF Spec

-----------------------------------------------------------------------------
(* Controls.                                                               *)

(* What ControlsApplied says of one experiment.                            *)
Applied(e) ==
    IF OwnerActive(e)
    THEN controlling = e \/ /\ e \in waiting.paused <=> controls[e].paused
                            /\ waiting.weight[e] = controls[e].weight
    ELSE e \notin waiting.paused /\ waiting.weight[e] = 1

(* Queue q has the controls that waiting has for experiment e.             *)
SameControls(q, e) ==
    /\ e \in q.paused <=> e \in waiting.paused
    /\ q.weight[e] = waiting.weight[e]

LEMMA AppliedStays ==
    ASSUME NEW e \in Experiments, Applied(e), OwnerActive(e)' <=> OwnerActive(e),
           SameControls(waiting', e), controls'[e] = controls[e], controlling = e => controlling' = e
    PROVE  Applied(e)'
PROOF
    BY DEF Applied, SameControls

(* Forgetting the owners a step leaves idle.                               *)
LEMMA IdleApplied ==
    ASSUME ControlsApplied, NEW S \in SUBSET Lanes, NEW q \in Queue,
           \A e \in Experiments : SameControls(q, e),
           waiting' = Forget(q, IdleAfter(S)),
           records' \subseteq records, \A x \in records \ records' : status'[x] \in Terminal,
           \A e \in Experiments : OwnerActive(e)' => OwnerActive(e),
           \A e \in Experiments \ S : OwnerActive(e) => OwnerActive(e)',
           UNCHANGED <<controls, controlling>>
    PROVE  /\ ControlsApplied'
           /\ \A e \in Experiments : OwnerActive(e)' => SameControls(waiting', e)
PROOF
<1>1. IdleAfter(S) \in SUBSET Experiments
    BY DEF IdleAfter, Lanes
<1>2. \A e \in Experiments :
        /\ e \in waiting'.paused <=> e \in waiting.paused /\ e \notin IdleAfter(S)
        /\ waiting'.weight[e] = IF e \in IdleAfter(S) THEN 1 ELSE waiting.weight[e]
    BY <1>1, ForgetControls DEF SameControls
<1>3. \A e \in Experiments : e \in IdleAfter(S) => ~OwnerActive(e)'
    BY DEF IdleAfter, OwnerActive
<1>4. \A e \in Experiments \cap S : e \notin IdleAfter(S) => OwnerActive(e)'
  <2> SUFFICES ASSUME NEW e \in Experiments \cap S, e \notin IdleAfter(S) PROVE OwnerActive(e)'
      OBVIOUS
  <2>1. e # User
      BY ExperimentsAssumption
  <2>2. PICK x \in records : e \in owners'[x] /\ status'[x] \notin Terminal
      BY <2>1 DEF IdleAfter
  <2> QED
      BY <2>2 DEF OwnerActive
<1>5. ASSUME NEW e \in Experiments PROVE Applied(e)'
  <2>1. Applied(e)
      BY DEF ControlsApplied, Applied
  <2>2. CASE e \in IdleAfter(S)
      BY <1>2, <1>3, <2>2 DEF Applied
  <2>3. CASE e \notin IdleAfter(S)
    <3>1. SameControls(waiting', e)
        BY <1>2, <2>3 DEF SameControls
    <3>2. OwnerActive(e)' <=> OwnerActive(e)
        BY <1>4, <2>3
    <3> QED
        BY <2>1, <3>1, <3>2, AppliedStays
  <2> QED
      BY <2>2, <2>3
<1>6. ControlsApplied'
    BY <1>5 DEF ControlsApplied, Applied
<1>7. \A e \in Experiments : OwnerActive(e)' => SameControls(waiting', e)
    BY <1>2, <1>3 DEF SameControls
<1> QED
    BY <1>6, <1>7

-----------------------------------------------------------------------------
(* Lanes.                                                                  *)

(* The lane of a run depends on the pauses of its owners only.             *)
LEMMA SameLane ==
    ASSUME NEW p, NEW q, NEW owning, \A e \in owning : e \in p.paused <=> e \in q.paused
    PROVE  LaneFor(p, owning) = LaneFor(q, owning)
PROOF
<1>1. owning \ p.paused = owning \ q.paused /\ (owning \subseteq p.paused <=> owning \subseteq q.paused)
    OBVIOUS
<1> QED
    BY <1>1 DEF LaneFor

LEMMA LaneOfOne == ASSUME NEW q, NEW e \in Experiments PROVE LaneFor(q, {e}) = e
PROOF
<1>1. e # User /\ Least({e}) = e
    BY ExperimentsAssumption DEF Least
<1>2. CASE {e} \subseteq q.paused
    BY <1>1, <1>2 DEF LaneFor
<1>3. CASE ~({e} \subseteq q.paused)
  <2>1. {e} \ q.paused = {e}
      BY <1>3
  <2> QED
      BY <1>1, <1>3, <2>1 DEF LaneFor
<1> QED
    BY <1>2, <1>3

(* The lanes after a step: queue q has every run in its lane, and has the  *)
(* pauses of every owner that still has unfinished runs.                   *)
LEMMA LanesMatch ==
    ASSUME IndInv', NEW q \in Queue,
           \A x \in Runs, l \in Lanes :
                InLane(waiting', x, l) => x \in todo' \/ l = LaneFor(q, owners'[x]),
           \A e \in Experiments : OwnerActive(e)' => (e \in waiting'.paused <=> e \in q.paused)
    PROVE  LaneMatchesOwners'
PROOF
<1> SUFFICES ASSUME NEW x \in Runs, NEW l \in Lanes, InLane(waiting', x, l), x \notin todo'
             PROVE  l = LaneFor(waiting', owners'[x])
    BY DEF LaneMatchesOwners
<1>1. x \in records' /\ status'[x] = "queued" /\ owners'[x] \subseteq Lanes
    BY DEF IndInv, TypeOK, WaitingIsQueued, InQueue
<1>2. \A e \in owners'[x] \cap Experiments : OwnerActive(e)'
    BY <1>1 DEF OwnerActive
<1>3. User \notin waiting'.paused /\ User \notin q.paused
    BY ExperimentsAssumption DEF IndInv, TypeOK, Queue
<1>4. \A e \in owners'[x] : e \in waiting'.paused <=> e \in q.paused
    BY <1>1, <1>2, <1>3 DEF Lanes
<1> QED
    BY <1>4, SameLane

(* A step that moves nobody, and changes no controls and no owner of a     *)
(* waiting run.                                                            *)
LEMMA ControlKept ==
    ASSUME IndInv, ControlInv, IndInv',
           \A x \in Runs, l \in Lanes : InLane(waiting', x, l) => InLane(waiting, x, l),
           \A e \in Experiments : SameControls(waiting', e),
           \A e \in Experiments : OwnerActive(e)' <=> OwnerActive(e),
           \A x \in Runs : InQueue(waiting', x) => owners'[x] = owners[x],
           UNCHANGED <<controls, controlling, todo>>, section' # "relane" => section # "relane"
    PROVE  ControlInv'
PROOF
<1>1. \A e \in Experiments : Applied(e) /\ Applied(e)'
    BY AppliedStays DEF ControlInv, ControlsApplied, Applied
<1>2. ControlsApplied'
    BY <1>1 DEF ControlsApplied, Applied
<1>3. LaneMatchesOwners'
  <2>1. waiting \in Queue
      BY DEF IndInv, TypeOK
  <2>2. \A x \in Runs, l \in Lanes :
          InLane(waiting', x, l) => x \in todo' \/ l = LaneFor(waiting, owners'[x])
      BY DEF ControlInv, LaneMatchesOwners, InQueue
  <2> QED
      BY <2>1, <2>2, LanesMatch DEF SameControls
<1> QED
    BY <1>2, <1>3 DEF ControlInv

(* A request of an owner under the controls it hands in.                   *)
LEMMA WithControlsControls ==
    ASSUME IndInv, ControlInv, NEW o \in Lanes, NEW r \in Runs, MayStart(o, r)
    PROVE  LET q == WithControls(o) IN
           /\ q \in Queue
           /\ \A e \in Experiments \ {o} : SameControls(q, e)
           /\ o # User => /\ o \in q.paused <=> controls[o].paused
                          /\ q.weight[o] = controls[o].weight
           /\ \A x \in Runs, l \in Lanes : InLane(q, x, l) => l = LaneFor(q, owners[x])
           /\ todo = {}
PROOF
<1> DEFINE q == WithControls(o)
<1>1. q \in Queue /\ waiting \in Queue /\ q.items = waiting.items
    BY WithControlsFacts DEF Good, IndInv
<1>2. /\ \A e \in Experiments \ {o} : SameControls(q, e)
      /\ o # User => /\ o \in q.paused <=> controls[o].paused
                     /\ q.weight[o] = controls[o].weight
  <2>1. CASE o = User
      BY <2>1 DEF WithControls, SameControls
  <2>2. CASE o # User
    <3>1. o \in Experiments /\ controls[o].paused \in BOOLEAN /\ controls[o].weight \in Nat \ {0}
        BY <2>2 DEF Lanes, IndInv, TypeOK
    <3> QED
        BY <1>1, <2>2, <3>1, ConfigureControls DEF WithControls, SameControls
  <2> QED
      BY <2>1, <2>2
<1>3. o # User /\ OwnerActive(o) => (o \in q.paused <=> o \in waiting.paused)
  <2>1. o # User => o \in Experiments /\ controlling # o
      BY DEF MayStart, Lanes
  <2> QED
      BY <1>2, <2>1 DEF ControlInv, ControlsApplied
<1>4. todo = {}
    BY DEF MayStart, ControlInv
<1> HIDE DEF q
<1>5. ASSUME NEW x \in Runs, NEW l \in Lanes, InLane(q, x, l) PROVE l = LaneFor(q, owners[x])
  <2>1. InLane(waiting, x, l)
      BY <1>1, <1>5 DEF InLane
  <2>2. l = LaneFor(waiting, owners[x])
      BY <1>4, <2>1 DEF ControlInv, LaneMatchesOwners
  <2>3. x \in records /\ status[x] = "queued" /\ owners[x] \subseteq Lanes
      BY <2>1 DEF IndInv, TypeOK, WaitingIsQueued, InQueue
  <2>4. \A e \in owners[x] \cap Experiments : OwnerActive(e)
      BY <2>3 DEF OwnerActive
  <2>5. User \notin waiting.paused /\ User \notin q.paused
      BY <1>1, ExperimentsAssumption DEF Queue
  <2>6. \A e \in owners[x] : e \in waiting.paused <=> e \in q.paused
      BY <1>2, <1>3, <2>3, <2>4, <2>5 DEF Lanes, SameControls
  <2> QED
      BY <2>2, <2>6, SameLane
<1> QED
    BY <1>1, <1>2, <1>4, <1>5 DEF q

-----------------------------------------------------------------------------
(* The end of a run: its owners that are idle now lose their controls.     *)
LEMMA EndControl ==
    ASSUME IndInv, ControlInv, IndInv', NEW r \in Runs, r \in records, NEW st \in Terminal,
           NEW saved \in BOOLEAN, NEW q, Good(q), q.paused = waiting.paused, q.weight = waiting.weight,
           \A x \in Runs, l \in Lanes : InLane(q, x, l) => InLane(waiting, x, l),
           NEW leaving \in SUBSET Lanes, EmitEnd(r, st, saved, q, leaving),
           \A x \in Runs \ {r} : owners'[x] = owners[x],
           owners[r] \subseteq owners'[r] \cup leaving,
           UNCHANGED <<controls, controlling, todo>>, section' # "relane" => section # "relane"
    PROVE  ControlInv'
PROOF
<1> DEFINE S == owners'[r] \cup leaving
<1>1. /\ status' = [status EXCEPT ![r] = st]
      /\ waiting' = Forget(q, IdleAfter(S))
      /\ waiting'.items = q.items
      /\ records' \subseteq records
      /\ \A x \in records \ records' : stored'[x] \in Terminal
  <2>1. owners' \in [Runs -> SUBSET Lanes]
      BY DEF IndInv, TypeOK
  <2>2. waiting' = Forget(q, IdleAfter(S))
      BY DEF EmitEnd
  <2>3. /\ status' = [status EXCEPT ![r] = st] /\ waiting'.items = q.items /\ records' \subseteq records
        /\ \A x \in records \ records' : stored'[x] \in Terminal
      BY <2>1, EmitEndFacts
  <2> QED
      BY <2>2, <2>3
<1>2. /\ S \in SUBSET Lanes /\ q \in Queue /\ records \subseteq Runs
      /\ \A x \in Runs : status'[x] = IF x = r THEN st ELSE status[x]
  <2>1. owners' \in [Runs -> SUBSET Lanes] /\ records \subseteq Runs /\ status \in [Runs -> Statuses]
      BY DEF IndInv, TypeOK
  <2> QED
      BY <1>1, <2>1 DEF Good
<1>3. \A x \in records \ records' : status'[x] \in Terminal
  <2>1. \A x \in records \ {r} : stored'[x] = stored[x]
    <3>1. stored' = IF saved THEN [stored EXCEPT ![r] = st] ELSE stored
        BY DEF EmitEnd, Persist
    <3> QED
        BY <1>2, <3>1 DEF IndInv, TypeOK
  <2> QED
      BY <1>1, <1>2, <2>1 DEF IndInv, SavedBeforeDropped
<1>4. \A e \in Experiments : OwnerActive(e)' => OwnerActive(e)
    BY <1>1, <1>2 DEF OwnerActive
<1>5. \A e \in Experiments \ S : OwnerActive(e) => OwnerActive(e)'
  <2> SUFFICES ASSUME NEW e \in Experiments \ S, OwnerActive(e) PROVE OwnerActive(e)'
      OBVIOUS
  <2>1. PICK x \in records : e \in owners[x] /\ status[x] \notin Terminal
      BY DEF OwnerActive
  <2>2. x # r /\ x \in Runs
      BY <1>2, <2>1
  <2> QED
      BY <1>2, <1>3, <2>1, <2>2 DEF OwnerActive
<1>6. \A e \in Experiments : SameControls(q, e)
    BY DEF SameControls
<1> HIDE DEF S
<1>7. ControlsApplied' /\ \A e \in Experiments : OwnerActive(e)' => SameControls(waiting', e)
    BY <1>1, <1>2, <1>3, <1>4, <1>5, <1>6, IdleApplied DEF ControlInv
<1>8. LaneMatchesOwners'
  <2>1. ASSUME NEW x \in Runs, NEW l \in Lanes, InLane(waiting', x, l)
        PROVE  x \in todo' \/ l = LaneFor(waiting, owners'[x])
    <3>1. InLane(waiting, x, l)
        BY <1>1, <2>1 DEF InLane
    <3>2. x # r
      <4>1. x \in records' /\ status'[x] = "queued"
          BY <2>1 DEF IndInv, WaitingIsQueued, InQueue
      <4> QED
          BY <1>2, <4>1
    <3> QED
        BY <3>1, <3>2 DEF ControlInv, LaneMatchesOwners
  <2>2. waiting \in Queue
      BY DEF IndInv, TypeOK
  <2> QED
      BY <1>7, <2>1, <2>2, LanesMatch DEF SameControls
<1> QED
    BY <1>7, <1>8 DEF ControlInv

(* An owner leaves a run that goes on, or that is told to stop.            *)
LEMMA LeaveControl ==
    ASSUME IndInv, ControlInv, IndInv', NEW o \in Lanes, NEW r \in Runs, NEW q \in Queue,
           \A e \in Experiments : SameControls(q, e),
           waiting' = Forget(q, IdleAfter({o})), waiting'.items = q.items,
           \A x \in Runs, l \in Lanes : InLane(q, x, l) => l = LaneFor(waiting, owners'[x]),
           owners' = [owners EXCEPT ![r] = @ \ {o}],
           records' = records, \A x \in records : status'[x] \in Terminal <=> status[x] \in Terminal,
           UNCHANGED <<controls, controlling, todo>>, section' # "relane" => section # "relane"
    PROVE  ControlInv'
PROOF
<1>1. /\ \A x \in Runs \ {r} : owners'[x] = owners[x]
      /\ owners'[r] = owners[r] \ {o} /\ records \subseteq Runs
    BY DEF IndInv, TypeOK
<1>2. \A e \in Experiments : OwnerActive(e)' => OwnerActive(e)
    BY <1>1 DEF OwnerActive
<1>3. \A e \in Experiments \ {o} : OwnerActive(e) => OwnerActive(e)'
    BY <1>1 DEF OwnerActive
<1>4. ControlsApplied' /\ \A e \in Experiments : OwnerActive(e)' => SameControls(waiting', e)
  <2>1. {o} \in SUBSET Lanes /\ \A x \in records \ records' : status'[x] \in Terminal
      OBVIOUS
  <2> QED
      BY <1>2, <1>3, <2>1, IdleApplied DEF ControlInv
<1>5. LaneMatchesOwners'
  <2>1. \A x \in Runs, l \in Lanes : InLane(waiting', x, l) => x \in todo' \/ l = LaneFor(waiting, owners'[x])
      BY DEF InLane
  <2>2. waiting \in Queue
      BY DEF IndInv, TypeOK
  <2> QED
      BY <1>4, <2>1, <2>2, LanesMatch DEF SameControls
<1> QED
    BY <1>4, <1>5 DEF ControlInv

-----------------------------------------------------------------------------
(* Requests.                                                               *)
LEMMA AcceptControl ==
    ASSUME IndInv, ControlInv, IndInv', NEW o \in Lanes, NEW r \in Runs, Accept(o, r)
    PROVE  ControlInv'
PROOF
<1> DEFINE q == WithControls(o)
           l == LaneFor(q, {o})
<1>1. /\ MayStart(o, r) /\ stored[r] = Absent
      /\ status' = [status EXCEPT ![r] = "queued"] /\ records' = records \cup {r}
      /\ owners' = [owners EXCEPT ![r] = {o}] /\ waiting' = Push(q, r, l)
      /\ section' = "dispatch" /\ UNCHANGED <<controls, todo, controlling>>
    BY DEF Accept
<1>2. /\ q \in Queue /\ Good(q)
      /\ \A e \in Experiments \ {o} : SameControls(q, e)
      /\ o # User => (o \in q.paused <=> controls[o].paused) /\ q.weight[o] = controls[o].weight
      /\ \A x \in Runs, m \in Lanes : InLane(q, x, m) => m = LaneFor(q, owners[x])
      /\ todo = {}
    BY <1>1, WithControlsControls, WithControlsFacts
<1>3. r \notin records /\ ~InQueue(waiting, r) /\ records \subseteq Runs
    BY <1>1 DEF IndInv, TypeOK, OnlyAccepted, WaitingIsQueued
<1>4. ~InQueue(q, r)
    BY <1>3, WithControlsFacts DEF InQueue, InLane
<1>5. l \in Lanes
    BY <1>2, LaneForFacts
<1> HIDE DEF q, l
<1>6. /\ \A x \in Runs, m \in Lanes : InLane(waiting', x, m) <=> InLane(q, x, m) \/ (x = r /\ m = l)
      /\ waiting'.paused = q.paused /\ waiting'.weight = q.weight
    BY <1>1, <1>2, <1>4, <1>5, PushFacts
<1>7. /\ \A x \in Runs \ {r} : owners'[x] = owners[x] /\ status'[x] = status[x]
      /\ owners'[r] = {o} /\ status'[r] = "queued"
    BY <1>1 DEF IndInv, TypeOK
<1>8. \A e \in Experiments : OwnerActive(e)' <=> OwnerActive(e) \/ e = o
    BY <1>1, <1>3, <1>7 DEF OwnerActive
<1>9. ASSUME NEW e \in Experiments PROVE Applied(e)'
  <2>1. CASE e = o
    <3>1. o # User
        BY <2>1, ExperimentsAssumption
    <3> QED
        BY <1>1, <1>2, <1>6, <1>8, <2>1, <3>1 DEF Applied
  <2>2. CASE e # o
    <3>1. Applied(e)
        BY DEF ControlInv, ControlsApplied, Applied
    <3>2. SameControls(waiting', e) /\ (OwnerActive(e)' <=> OwnerActive(e))
        BY <1>2, <1>6, <1>8, <2>2 DEF SameControls
    <3> QED
        BY <1>1, <3>1, <3>2, AppliedStays
  <2> QED
      BY <2>1, <2>2
<1>10. LaneMatchesOwners'
  <2>1. \A x \in Runs, m \in Lanes : InLane(waiting', x, m) => m = LaneFor(q, owners'[x])
      BY <1>2, <1>4, <1>6, <1>7 DEF InQueue, l
  <2> QED
      BY <1>2, <1>6, <2>1, LanesMatch
<1>11. ControlsApplied'
    BY <1>9 DEF ControlsApplied, Applied
<1> QED
    BY <1>1, <1>2, <1>10, <1>11 DEF ControlInv

LEMMA JoinControl ==
    ASSUME IndInv, ControlInv, IndInv', NEW o \in Lanes, NEW r \in Runs, Join(o, r)
    PROVE  ControlInv'
PROOF
<1> DEFINE q == WithControls(o)
           l == LaneFor(q, owners'[r])
<1>1. /\ MayStart(o, r) /\ r \in records /\ status[r] \in {"queued", "running"}
      /\ owners' = [owners EXCEPT ![r] = @ \cup {o}] /\ waiting' = Move(q, r, l)
      /\ section' = "dispatch" /\ UNCHANGED <<status, records, controls, todo, controlling>>
    BY DEF Join, durable
<1>2. /\ q \in Queue /\ Good(q)
      /\ \A e \in Experiments \ {o} : SameControls(q, e)
      /\ o # User => (o \in q.paused <=> controls[o].paused) /\ q.weight[o] = controls[o].weight
      /\ \A x \in Runs, m \in Lanes : InLane(q, x, m) => m = LaneFor(q, owners[x])
      /\ todo = {}
    BY <1>1, WithControlsControls, WithControlsFacts
<1>3. /\ \A x \in Runs \ {r} : owners'[x] = owners[x]
      /\ owners'[r] = owners[r] \cup {o} /\ owners'[r] \in SUBSET Lanes /\ records \subseteq Runs
    BY <1>1 DEF IndInv, TypeOK
<1>4. l \in Lanes
  <2>1. LaneFor(q, owners'[r]) \in owners'[r]
      BY <1>2, <1>3, LaneForFacts
  <2> QED
      BY <1>3, <2>1
<1> HIDE DEF q, l
<1>5. /\ \A x \in Runs, m \in Lanes :
           InLane(waiting', x, m) <=> IF x = r /\ InQueue(q, r) THEN m = l ELSE InLane(q, x, m)
      /\ waiting'.paused = q.paused /\ waiting'.weight = q.weight
    BY <1>1, <1>2, <1>4, MoveFacts
<1>6. \A e \in Experiments : OwnerActive(e)' <=> OwnerActive(e) \/ e = o
    BY <1>1, <1>3 DEF OwnerActive
<1>7. ASSUME NEW e \in Experiments PROVE Applied(e)'
  <2>1. CASE e = o
    <3>1. o # User
        BY <2>1, ExperimentsAssumption
    <3> QED
        BY <1>1, <1>2, <1>5, <1>6, <2>1, <3>1 DEF Applied
  <2>2. CASE e # o
    <3>1. Applied(e)
        BY DEF ControlInv, ControlsApplied, Applied
    <3>2. SameControls(waiting', e) /\ (OwnerActive(e)' <=> OwnerActive(e))
        BY <1>2, <1>5, <1>6, <2>2 DEF SameControls
    <3> QED
        BY <1>1, <3>1, <3>2, AppliedStays
  <2> QED
      BY <2>1, <2>2
<1>8. LaneMatchesOwners'
  <2>1. \A x \in Runs, m \in Lanes : InLane(waiting', x, m) => m = LaneFor(q, owners'[x])
    <3> SUFFICES ASSUME NEW x \in Runs, NEW m \in Lanes, InLane(waiting', x, m)
                 PROVE  m = LaneFor(q, owners'[x])
        OBVIOUS
    <3>1. CASE x = r
      <4>1. InQueue(q, r)
          BY <1>5, <3>1 DEF InQueue
      <4>2. m = l
          BY <1>5, <3>1, <4>1
      <4> QED
          BY <3>1, <4>2 DEF l
    <3>2. CASE x # r
        BY <1>2, <1>3, <1>5, <3>2
    <3> QED
        BY <3>1, <3>2
  <2> QED
      BY <1>2, <1>5, <2>1, LanesMatch
<1>9. ControlsApplied'
    BY <1>7 DEF ControlsApplied, Applied
<1> QED
    BY <1>1, <1>2, <1>8, <1>9 DEF ControlInv

LEMMA LeaveEndedControl ==
    ASSUME IndInv, ControlInv, IndInv', NEW o \in Lanes, NEW r \in Runs, LeaveEnded(o, r)
    PROVE  ControlInv'
PROOF
<1>1. /\ UNCHANGED <<waiting, status, records, controls, todo, controlling, section>>
      /\ r \in records /\ status[r] \in Terminal /\ owners' = [owners EXCEPT ![r] = @ \ {o}]
    BY DEF LeaveEnded, Leave
<1>2. \A x \in Runs \ {r} : owners'[x] = owners[x]
    BY <1>1 DEF IndInv, TypeOK
<1>3. \A e \in Experiments : OwnerActive(e)' <=> OwnerActive(e)
    BY <1>1, <1>2 DEF OwnerActive, IndInv, TypeOK
<1>4. ~InQueue(waiting', r)
    BY <1>1 DEF IndInv, WaitingIsQueued
<1> QED
    BY <1>1, <1>2, <1>3, <1>4, ControlKept DEF SameControls

LEMMA LeaveToOthersControl ==
    ASSUME IndInv, ControlInv, IndInv', NEW o \in Lanes, NEW r \in Runs, LeaveToOthers(o, r)
    PROVE  ControlInv'
PROOF
<1> DEFINE l == LaneFor(waiting, owners'[r])
           q == Move(waiting, r, l)
<1>1. /\ UNCHANGED <<status, records, controls, todo, controlling>>
      /\ owners' = [owners EXCEPT ![r] = @ \ {o}] /\ owners'[r] # {} /\ section = "open" /\ section' = "dispatch"
      /\ waiting' = Forget(q, IdleAfter({o}))
    BY DEF LeaveToOthers, Leave
<1>2. /\ \A x \in Runs \ {r} : owners'[x] = owners[x]
      /\ owners'[r] \in SUBSET Lanes /\ waiting \in Queue /\ Good(waiting)
    BY <1>1 DEF IndInv, TypeOK
<1>3. l \in Lanes
  <2>1. LaneFor(waiting, owners'[r]) \in owners'[r]
      BY <1>1, <1>2, LaneForFacts
  <2> QED
      BY <1>2, <2>1
<1>4. /\ Good(q) /\ q \in Queue
      /\ \A x \in Runs, m \in Lanes :
           InLane(q, x, m) <=> IF x = r /\ InQueue(waiting, r) THEN m = l ELSE InLane(waiting, x, m)
      /\ q.paused = waiting.paused /\ q.weight = waiting.weight
    BY <1>2, <1>3, MoveFacts DEF Good
<1>5. IdleAfter({o}) \in SUBSET Experiments
    BY DEF IdleAfter, Lanes
<1> HIDE DEF q
<1>6. waiting'.items = q.items
    BY <1>1, <1>4, <1>5, ForgetFacts
<1>7. \A x \in Runs, m \in Lanes : InLane(q, x, m) => m = LaneFor(waiting, owners'[x])
    BY <1>1, <1>2, <1>4 DEF InQueue, ControlInv, LaneMatchesOwners
<1>8. \A e \in Experiments : SameControls(q, e)
    BY <1>4 DEF SameControls
<1> HIDE DEF l
<1> QED
    BY <1>1, <1>4, <1>6, <1>7, <1>8, LeaveControl

LEMMA CancelWaitingControl ==
    ASSUME IndInv, ControlInv, IndInv', NEW o \in Lanes, NEW r \in Runs, NEW saved \in BOOLEAN,
           CancelWaiting(o, r, saved)
    PROVE  ControlInv'
PROOF
<1> DEFINE q == RemoveRun(waiting, r)
<1>1. /\ UNCHANGED <<controls, todo, controlling>> /\ section' = "dispatch" /\ r \in records
      /\ owners' = [owners EXCEPT ![r] = @ \ {o}] /\ owners'[r] = {}
      /\ EmitEnd(r, "cancelled", saved, q, {o})
    BY DEF CancelWaiting, Leave
<1>2. \A x \in Runs \ {r} : owners'[x] = owners[x]
    BY <1>1 DEF IndInv, TypeOK
<1>3. owners[r] \subseteq {o}
    BY <1>1 DEF IndInv, TypeOK
<1>4. /\ Good(q) /\ q.paused = waiting.paused /\ q.weight = waiting.weight
      /\ \A x \in Runs, m \in Lanes : InLane(q, x, m) => InLane(waiting, x, m)
    BY RemoveRunFacts DEF IndInv
<1> HIDE DEF q
<1>5. /\ "cancelled" \in Terminal /\ {o} \in SUBSET Lanes /\ owners[r] \subseteq owners'[r] \cup {o}
      /\ section' # "relane" => section # "relane"
    BY <1>1, <1>3 DEF CancelWaiting, Leave
<1> QED
    BY <1>1, <1>2, <1>4, <1>5, EndControl

LEMMA CancelStartedControl ==
    ASSUME IndInv, ControlInv, IndInv', NEW o \in Lanes, NEW r \in Runs, NEW saved \in BOOLEAN,
           CancelStarted(o, r, saved)
    PROVE  ControlInv'
PROOF
<1>1. /\ UNCHANGED <<records, controls, todo, controlling, section>> /\ section = "open"
      /\ owners' = [owners EXCEPT ![r] = @ \ {o}]
      /\ status' = [status EXCEPT ![r] = "cancel_requested"] /\ status[r] \notin Terminal
      /\ ~InQueue(waiting, r) /\ waiting' = Forget(waiting, IdleAfter({o}))
    BY DEF CancelStarted, Leave
<1>2. /\ \A x \in Runs \ {r} : owners'[x] = owners[x]
      /\ \A x \in records : status'[x] \in Terminal <=> status[x] \in Terminal
      /\ waiting \in Queue /\ Good(waiting)
    BY <1>1 DEF IndInv, TypeOK
<1>3. waiting'.items = waiting.items
  <2>1. IdleAfter({o}) \in SUBSET Experiments
      BY DEF IdleAfter, Lanes
  <2> QED
      BY <1>1, <1>2, <2>1, ForgetFacts
<1>4. \A x \in Runs, l \in Lanes : InLane(waiting, x, l) => l = LaneFor(waiting, owners'[x])
    BY <1>1, <1>2 DEF InQueue, ControlInv, LaneMatchesOwners
<1>5. \A e \in Experiments : SameControls(waiting, e)
    BY DEF SameControls
<1> QED
    BY <1>1, <1>2, <1>3, <1>4, <1>5, LeaveControl

-----------------------------------------------------------------------------
(* Controls are changed and applied.                                       *)
LEMMA SetControlsControl ==
    ASSUME IndInv, ControlInv, IndInv', NEW e \in Experiments, NEW paused \in BOOLEAN, NEW w \in Weights,
           SetControls(e, paused, w)
    PROVE  ControlInv'
PROOF
<1>1. /\ UNCHANGED <<waiting, records, status, owners, section, todo>>
      /\ controlling = User /\ controlling' = e
      /\ controls' = [controls EXCEPT ![e] = [paused |-> paused, weight |-> w]]
    BY DEF SetControls, recordVars
<1>2. \A f \in Experiments \ {e} : controls'[f] = controls[f]
    BY <1>1 DEF IndInv, TypeOK
<1>3. ASSUME NEW f \in Experiments PROVE Applied(f)'
  <2>1. Applied(f) /\ f # User
      BY ExperimentsAssumption DEF ControlInv, ControlsApplied, Applied
  <2> QED
      BY <1>1, <1>2, <2>1 DEF Applied, OwnerActive
<1>4. ControlsApplied'
    BY <1>3 DEF ControlsApplied, Applied
<1>5. LaneMatchesOwners'
    BY <1>1 DEF ControlInv, LaneMatchesOwners
<1> QED
    BY <1>1, <1>4, <1>5 DEF ControlInv

(* `schedule' of an experiment with unfinished runs: the runs it shares    *)
(* are still to be moved, those it has alone are in its own lane.          *)
LEMMA ScheduleActiveControl ==
    ASSUME IndInv, ControlInv, IndInv', NEW e \in Experiments, Schedule(e), OwnerActive(e)
    PROVE  ControlInv'
PROOF
<1> DEFINE q == Configure(waiting, e, controls[e].paused, controls[e].weight)
<1>1. /\ UNCHANGED <<controls, records, status, owners>>
      /\ section = "open" /\ controlling = e /\ controlling' = User
      /\ waiting' = q /\ todo' = Shared(e)
      /\ section' = IF todo' = {} THEN "dispatch" ELSE "relane"
    BY DEF Schedule, durable, recordVars
<1>2. controls[e].paused \in BOOLEAN /\ controls[e].weight \in Nat \ {0} /\ Good(waiting) /\ waiting \in Queue
    BY DEF IndInv, TypeOK
<1>3. /\ q.items = waiting.items
      /\ e \in q.paused <=> controls[e].paused
      /\ q.weight[e] = controls[e].weight
      /\ \A f \in Experiments \ {e} : SameControls(q, f)
    BY <1>2, ConfigureFacts, ConfigureControls DEF SameControls
<1> HIDE DEF q
<1>4. ASSUME NEW f \in Experiments PROVE Applied(f)'
  <2>1. CASE f = e
      BY <1>1, <1>3, <2>1 DEF Applied, OwnerActive
  <2>2. CASE f # e
    <3>1. Applied(f) /\ f # User
        BY ExperimentsAssumption DEF ControlInv, ControlsApplied, Applied
    <3> QED
        BY <1>1, <1>3, <2>2, <3>1 DEF Applied, OwnerActive, SameControls
  <2> QED
      BY <2>1, <2>2
<1>5. ControlsApplied'
    BY <1>4 DEF ControlsApplied, Applied
<1>6. ASSUME NEW x \in Runs, NEW l \in Lanes, InLane(waiting', x, l), x \notin todo'
      PROVE  l = LaneFor(waiting', owners'[x])
  <2>1. InLane(waiting, x, l)
      BY <1>1, <1>3, <1>6 DEF InLane
  <2>2. x \in records /\ owners[x] \subseteq Lanes
      BY <2>1 DEF IndInv, TypeOK, WaitingIsQueued, InQueue
  <2>3. l = LaneFor(waiting, owners[x])
      BY <1>1, <2>1 DEF ControlInv, LaneMatchesOwners
  <2>4. CASE e \in owners[x]
    <3>1. owners[x] = {e}
        BY <1>1, <1>6, <2>2, <2>4 DEF Shared
    <3> QED
        BY <1>1, <2>3, <3>1, LaneOfOne
  <2>5. CASE e \notin owners[x]
    <3>1. User \notin waiting.paused /\ User \notin waiting'.paused
        BY ExperimentsAssumption DEF IndInv, TypeOK, Queue
    <3>2. \A f \in owners[x] : f \in waiting'.paused <=> f \in waiting.paused
        BY <1>1, <1>3, <2>2, <2>5, <3>1 DEF Lanes, SameControls
    <3>3. LaneFor(waiting', owners[x]) = LaneFor(waiting, owners[x])
        BY <3>2, SameLane
    <3> QED
        BY <1>1, <2>3, <3>3
  <2> QED
      BY <2>4, <2>5
<1>7. LaneMatchesOwners'
    BY <1>6 DEF LaneMatchesOwners
<1> QED
    BY <1>1, <1>5, <1>7 DEF ControlInv

(* `schedule' of an experiment without unfinished runs.                    *)
LEMMA ScheduleIdleControl ==
    ASSUME IndInv, ControlInv, IndInv', NEW e \in Experiments, Schedule(e), ~OwnerActive(e)
    PROVE  ControlInv'
PROOF
<1>1. /\ UNCHANGED <<controls, records, status, owners, section, todo>>
      /\ section = "open" /\ controlling = e /\ controlling' = User
      /\ waiting' = Forget(waiting, {e})
    BY DEF Schedule, durable, recordVars
<1>2. Good(waiting) /\ waiting \in Queue /\ {e} \in SUBSET Experiments
    BY DEF IndInv, TypeOK
<1>3. /\ waiting'.items = waiting.items
      /\ \A f \in Experiments :
           /\ f \in waiting'.paused <=> f \in waiting.paused /\ f # e
           /\ waiting'.weight[f] = IF f = e THEN 1 ELSE waiting.weight[f]
    BY <1>1, <1>2, ForgetFacts, ForgetControls
<1>4. ASSUME NEW f \in Experiments PROVE Applied(f)'
  <2>1. Applied(f) /\ f # User
      BY ExperimentsAssumption DEF ControlInv, ControlsApplied, Applied
  <2> QED
      BY <1>1, <1>3, <2>1 DEF Applied, OwnerActive
<1>5. ControlsApplied'
    BY <1>4 DEF ControlsApplied, Applied
<1>6. LaneMatchesOwners'
  <2>1. \A x \in Runs, l \in Lanes :
          InLane(waiting', x, l) => x \in todo' \/ l = LaneFor(waiting, owners'[x])
      BY <1>1, <1>3 DEF InLane, ControlInv, LaneMatchesOwners
  <2>2. \A f \in Experiments : OwnerActive(f)' => (f \in waiting'.paused <=> f \in waiting.paused)
      BY <1>1, <1>3 DEF OwnerActive
  <2> QED
      BY <1>2, <2>1, <2>2, LanesMatch
<1> QED
    BY <1>1, <1>5, <1>6 DEF ControlInv

LEMMA RelaneNextControl ==
    ASSUME IndInv, ControlInv, IndInv', NEW r \in Runs, RelaneNext(r)
    PROVE  ControlInv'
PROOF
<1> DEFINE l == LaneFor(waiting, owners[r])
<1>1. /\ UNCHANGED <<controls, records, status, owners, controlling>>
      /\ r \in todo /\ todo' = todo \ {r} /\ waiting' = Move(waiting, r, l)
      /\ section' = IF todo' = {} THEN "dispatch" ELSE "relane"
    BY DEF RelaneNext, durable, recordVars
<1>2. Good(waiting) /\ waiting \in Queue /\ owners[r] \in SUBSET Lanes
    BY DEF IndInv, TypeOK
<1>3. CASE ~InQueue(waiting, r)
  <2>1. waiting' = waiting
      BY <1>1, <1>3 DEF Move
  <2>2. ControlsApplied'
      BY <1>1, <2>1 DEF ControlInv, ControlsApplied, OwnerActive
  <2>3. LaneMatchesOwners'
      BY <1>1, <1>3, <2>1 DEF ControlInv, LaneMatchesOwners, InQueue
  <2> QED
      BY <1>1, <2>2, <2>3 DEF ControlInv
<1>4. CASE InQueue(waiting, r)
  <2>1. r \in records /\ status[r] = "queued"
      BY <1>4 DEF IndInv, WaitingIsQueued
  <2>2. l \in Lanes
      BY <1>2, <2>1, LaneForFacts DEF IndInv, SomeoneWants
  <2> HIDE DEF l
  <2>3. /\ \A x \in Runs, m \in Lanes :
             InLane(waiting', x, m) <=> IF x = r THEN m = l ELSE InLane(waiting, x, m)
        /\ waiting'.paused = waiting.paused /\ waiting'.weight = waiting.weight
      BY <1>1, <1>2, <1>4, <2>2, MoveFacts
  <2>4. ControlsApplied'
      BY <1>1, <2>3 DEF ControlInv, ControlsApplied, OwnerActive
  <2>5. \A x \in Runs, m \in Lanes : InLane(waiting', x, m) => x \in todo' \/ m = LaneFor(waiting, owners'[x])
      BY <1>1, <2>3 DEF ControlInv, LaneMatchesOwners, l
  <2>6. LaneMatchesOwners'
      BY <1>2, <2>3, <2>5, LanesMatch
  <2> QED
      BY <1>1, <2>4, <2>6 DEF ControlInv
<1> QED
    BY <1>3, <1>4

-----------------------------------------------------------------------------
(* Dispatching, the ends of runs, restarts.                                *)

(* Steps that leave the queue, the owners and the lock's loop alone and    *)
(* end no run.                                                             *)
LEMMA UntouchedControl ==
    ASSUME IndInv, ControlInv, IndInv',
           UNCHANGED <<waiting, records, owners, controls, controlling, todo>>,
           \A x \in records : status'[x] \in Terminal <=> status[x] \in Terminal,
           section # "relane"
    PROVE  ControlInv'
PROOF
<1>1. \A e \in Experiments : SameControls(waiting', e) /\ (OwnerActive(e)' <=> OwnerActive(e))
    BY DEF OwnerActive, SameControls
<1>2. ControlsApplied'
  <2>1. \A e \in Experiments : Applied(e) /\ Applied(e)'
      BY <1>1, AppliedStays DEF ControlInv, ControlsApplied, Applied
  <2> QED
      BY <2>1 DEF ControlsApplied, Applied
<1>3. LaneMatchesOwners' /\ (section' # "relane" => todo' = {})
    BY DEF ControlInv, LaneMatchesOwners
<1> QED
    BY <1>2, <1>3 DEF ControlInv

LEMMA DispatchControl ==
    ASSUME IndInv, ControlInv, IndInv', NEW r \in Runs,
           DispatchStart(r) \/ \E saved \in BOOLEAN : DispatchStartFails(r, saved)
    PROVE  ControlInv'
PROOF
<1> DEFINE q == Pop(waiting, ExperimentsMay)
<1>1. HasHead /\ r = HeadRun /\ section = "dispatch"
    BY DEF DispatchStart, DispatchStartFails
<1>2. /\ Good(q) /\ q.paused = waiting.paused /\ q.weight = waiting.weight
      /\ \A x \in Runs, l \in Lanes : InLane(q, x, l) <=> InLane(waiting, x, l) /\ x # r
  <2>1. ExperimentsMay \in BOOLEAN /\ HasNext(waiting, ExperimentsMay) /\ Good(waiting)
      BY <1>1 DEF ExperimentsMay, HasHead, IndInv
  <2> QED
      BY <1>1, <2>1, PopFacts DEF HeadRun
<1>3. r \in records
    BY <1>1, HeadFacts
<1> HIDE DEF q
<1>4. CASE DispatchStart(r)
  <2>1. /\ UNCHANGED <<records, status, owners, controls, controlling, todo, section>> /\ waiting' = q
      BY <1>4 DEF DispatchStart, durable, lockVars, q
  <2>2. \A e \in Experiments : SameControls(waiting', e) /\ (OwnerActive(e)' <=> OwnerActive(e))
      BY <1>2, <2>1 DEF SameControls, OwnerActive
  <2>3. \A x \in Runs, l \in Lanes : InLane(waiting', x, l) => InLane(waiting, x, l)
      BY <1>2, <2>1
  <2> QED
      BY <2>1, <2>2, <2>3, ControlKept
<1>5. ASSUME NEW saved \in BOOLEAN, DispatchStartFails(r, saved) PROVE ControlInv'
  <2>1. UNCHANGED <<owners, controls, controlling, todo, section>> /\ EmitEnd(r, "failed", saved, q, {})
      BY <1>5 DEF DispatchStartFails, lockVars, q
  <2>2. /\ "failed" \in Terminal /\ {} \in SUBSET Lanes /\ owners[r] \subseteq owners'[r] \cup {}
        /\ \A x \in Runs \ {r} : owners'[x] = owners[x]
        /\ section' # "relane" => section # "relane"
        /\ \A x \in Runs, l \in Lanes : InLane(q, x, l) => InLane(waiting, x, l)
      BY <1>1, <1>2, <2>1
  <2> QED
      BY <1>2, <1>3, <2>1, <2>2, EndControl
<1> QED
    BY <1>4, <1>5

LEMMA FinishControl ==
    ASSUME IndInv, ControlInv, IndInv', NEW r \in Runs, End(r) \/ Finish(r)
    PROVE  ControlInv'
PROOF
<1>1. ControlInv /\ section # "relane" => todo = {}
    BY DEF ControlInv
<1>2. CASE \/ EndCommitted(r) \/ EndFailed(r) \/ EndStopped(r) \/ Discard(r) \/ DiscardFails(r)
           \/ CompleteLate(r) \/ (\E gone \in BOOLEAN : CompleteUnsaved(r, gone)) \/ Release(r)
  <2>1. UNCHANGED <<waiting, records, status, owners, controls, controlling, todo>>
      BY <1>2 DEF EndCommitted, EndFailed, EndStopped, Discard, DiscardFails, Outside, CompleteLate,
                  CompleteUnsaved, Release, durable, recordVars, lockVars
  <2>2. section' # "relane" => section # "relane"
      BY <1>2 DEF EndCommitted, EndFailed, EndStopped, Discard, DiscardFails, Outside, CompleteLate,
                  CompleteUnsaved, Release, lockVars
  <2>3. \A e \in Experiments : SameControls(waiting', e) /\ (OwnerActive(e)' <=> OwnerActive(e))
      BY <2>1 DEF SameControls, OwnerActive
  <2> QED
      BY <2>1, <2>2, <2>3, ControlKept
<1>3. ASSUME NEW st \in Terminal, NEW saved \in BOOLEAN, r \in records, EmitEnd(r, st, saved, waiting, {}),
             UNCHANGED <<owners, controls, controlling, todo, section>>
      PROVE  ControlInv'
  <2>1. /\ {} \in SUBSET Lanes /\ owners[r] \subseteq owners'[r] \cup {}
        /\ \A x \in Runs \ {r} : owners'[x] = owners[x]
        /\ section' # "relane" => section # "relane"
        /\ Good(waiting)
      BY <1>3 DEF IndInv
  <2> QED
      BY <1>3, <2>1, EndControl
<1>4. phase[r] \in SlotPhases \ {"settled"} => r \in records
    BY DEF IndInv, PhasesAgree
<1>5. CASE Complete(r)
  <2>1. /\ EmitEnd(r, "completed", TRUE, waiting, {}) /\ phase[r] = "committed"
        /\ UNCHANGED <<owners, controls, controlling, todo, section>>
      BY <1>5 DEF Complete, lockVars
  <2>2. "completed" \in Terminal /\ TRUE \in BOOLEAN /\ r \in records
      BY <1>4, <2>1 DEF SlotPhases
  <2> QED
      BY <1>3, <2>1, <2>2
<1>6. ASSUME NEW saved \in BOOLEAN, Settle(r, saved) PROVE ControlInv'
  <2>1. PICK st \in Terminal : EmitEnd(r, st, saved, waiting, {})
      BY <1>6 DEF Settle
  <2>2. /\ phase[r] \in {"cancelling", "failing"}
        /\ UNCHANGED <<owners, controls, controlling, todo, section>>
      BY <1>6 DEF Settle, lockVars
  <2>3. r \in records
      BY <1>4, <2>2 DEF SlotPhases
  <2> QED
      BY <1>3, <2>1, <2>2, <2>3
<1> QED
    BY <1>2, <1>5, <1>6 DEF End, Finish

LEMMA CrashControl ==
    ASSUME Crash
    PROVE  ControlInv'
PROOF
<1>1. /\ records' = {} /\ todo' = {} /\ waiting' = EmptyQueue
    BY DEF Crash
<1>2. /\ \A r : ~InQueue(EmptyQueue, r)
      /\ EmptyQueue.paused = {} /\ \A e \in Experiments : EmptyQueue.weight[e] = 1
    BY EmptyQueueGood DEF EmptyQueue
<1>3. ControlsApplied'
    BY <1>1, <1>2 DEF ControlsApplied, OwnerActive
<1>4. LaneMatchesOwners'
    BY <1>1, <1>2 DEF LaneMatchesOwners, InQueue
<1> QED
    BY <1>1, <1>3, <1>4 DEF ControlInv

LEMMA InitControl == Init => ControlInv
PROOF
<1> SUFFICES ASSUME Init PROVE ControlInv
    OBVIOUS
<1>1. /\ records = {} /\ todo = {} /\ waiting = EmptyQueue
    BY DEF Init
<1>2. /\ \A r : ~InQueue(EmptyQueue, r)
      /\ EmptyQueue.paused = {} /\ \A e \in Experiments : EmptyQueue.weight[e] = 1
    BY EmptyQueueGood DEF EmptyQueue
<1>3. ControlsApplied
    BY <1>1, <1>2 DEF ControlsApplied, OwnerActive
<1>4. LaneMatchesOwners
    BY <1>1, <1>2 DEF LaneMatchesOwners, InQueue
<1> QED
    BY <1>1, <1>3, <1>4 DEF ControlInv

LEMMA NextControl == IndInv /\ ControlInv /\ IndInv' /\ [Next]_vars => ControlInv'
PROOF
<1> SUFFICES ASSUME IndInv, ControlInv, IndInv', [Next]_vars PROVE ControlInv'
    OBVIOUS
<1>1. ASSUME NEW o \in Lanes, NEW r \in Runs, Request(o, r) PROVE ControlInv'
    BY <1>1, AcceptControl, JoinControl, LeaveEndedControl, LeaveToOthersControl,
       CancelWaitingControl, CancelStartedControl DEF Request
<1>2. ASSUME NEW e \in Experiments, NEW paused \in BOOLEAN, NEW w \in Weights,
             SetControls(e, paused, w)
      PROVE  ControlInv'
    BY <1>2, SetControlsControl
<1>3. ASSUME NEW e \in Experiments, Schedule(e) PROVE ControlInv'
    BY <1>3, ScheduleActiveControl, ScheduleIdleControl
<1>4. ASSUME NEW r \in Runs, RelaneNext(r) PROVE ControlInv'
    BY <1>4, RelaneNextControl
<1>5. ASSUME NEW r \in Runs, DispatchStart(r) \/ \E saved \in BOOLEAN : DispatchStartFails(r, saved)
      PROVE  ControlInv'
    BY <1>5, DispatchControl
<1>6. ASSUME NEW r \in Runs, End(r) \/ Finish(r) PROVE ControlInv'
    BY <1>6, FinishControl
<1>7. CASE Crash
    BY <1>7, CrashControl
<1>8. CASE DispatchHold \/ DispatchDone \/ Boot
  <2>1. UNCHANGED <<waiting, records, status, owners, controls, controlling, todo>> /\ section # "relane"
      BY <1>8 DEF DispatchHold, DispatchDone, Boot, OpenService, CloseInterrupted, durable, recordVars, lockVars
  <2> QED
      BY <2>1, UntouchedControl
<1>9. ASSUME NEW r \in Runs, NEW saved \in BOOLEAN, Progress(r, saved) PROVE ControlInv'
  <2>1. /\ UNCHANGED <<waiting, records, owners, controls, controlling, todo>> /\ section # "relane"
        /\ status[r] = "queued" /\ status' = [status EXCEPT ![r] = "running"]
      BY <1>9 DEF Progress, lockVars
  <2>2. \A x \in records : status'[x] \in Terminal <=> status[x] \in Terminal
      BY <2>1 DEF IndInv, TypeOK
  <2> QED
      BY <2>1, <2>2, UntouchedControl
<1>10. CASE UNCHANGED vars
    BY <1>10 DEF ControlInv, ControlsApplied, LaneMatchesOwners, OwnerActive, vars, durable, recordVars, lockVars
<1> QED
    BY <1>1, <1>2, <1>3, <1>4, <1>5, <1>6, <1>7, <1>8, <1>9, <1>10 DEF Next, LoopStep

THEOREM ControlsKept == Spec => []ControlInv
PROOF
<1> QED
    BY InitControl, NextControl, Invariance, PTL DEF Spec

(* The lane of an experiment with unfinished runs has the controls that    *)
(* were saved last; one without unfinished runs has none left.             *)
THEOREM ControlsAreApplied == Spec => []ControlsApplied
PROOF
<1>1. ControlInv => ControlsApplied
    BY DEF ControlInv
<1> QED
    BY <1>1, ControlsKept, PTL

(* A waiting run stands in the lane that its owners and their pauses give. *)
THEOREM RunsStandInTheirLane == Spec => []LaneMatchesOwners
PROOF
<1>1. ControlInv => LaneMatchesOwners
    BY DEF ControlInv
<1> QED
    BY <1>1, ControlsKept, PTL

-----------------------------------------------------------------------------
(* The memory hold.                                                        *)

(* The experiments a step leaves idle have nothing in the queue, so that   *)
(* forgetting them leaves the head as it is.                               *)
LEMMA ForgetKeepsHead ==
    ASSUME IndInv, ControlInv, section = "open", NEW S \in SUBSET Experiments,
           \A e \in S, x \in records :
                e \in owners[x] => status[x] # "queued" \/ ~InQueue(waiting, x),
           waiting' = Forget(waiting, S), UNCHANGED slotVars
    PROVE  /\ HasHead' <=> HasHead
           /\ HasHead => HeadRun' = HeadRun
PROOF
<1>1. Good(waiting) /\ waiting \in Queue /\ todo = {}
    BY DEF IndInv, TypeOK, ControlInv
<1>2. \A e \in S : waiting.items[e] = <<>>
  <2> SUFFICES ASSUME NEW e \in S, waiting.items[e] # <<>> PROVE FALSE
      OBVIOUS
  <2>1. waiting.items[e] \in Seq(Runs) /\ e \in Lanes
      BY <1>1 DEF Queue, Lanes
  <2>2. PICK x \in Runs : InLane(waiting, x, e)
      BY <2>1, LaneNotEmpty DEF InLane
  <2>3. InQueue(waiting, x) /\ e = LaneFor(waiting, owners[x])
      BY <1>1, <2>1, <2>2 DEF InQueue, ControlInv, LaneMatchesOwners
  <2>4. /\ x \in records /\ status[x] = "queued" /\ owners[x] \in SUBSET Lanes /\ owners[x] # {}
      BY <2>3 DEF IndInv, TypeOK, WaitingIsQueued, SomeoneWants
  <2>5. e \in owners[x]
      BY <1>1, <2>3, <2>4, LaneForFacts
  <2> QED
      BY <2>3, <2>4, <2>5
<1>3. ExperimentsMay \in BOOLEAN /\ ExperimentsMay' = ExperimentsMay /\ running' = running
    BY DEF ExperimentsMay, slotVars
<1>4. /\ HasNext(waiting', ExperimentsMay) <=> HasNext(waiting, ExperimentsMay)
      /\ HasNext(waiting, ExperimentsMay) => Peek(waiting', ExperimentsMay) = Peek(waiting, ExperimentsMay)
    BY <1>1, <1>2, <1>3, ForgetNext
<1> QED
    BY <1>3, <1>4 DEF HasHead, HeadRun

(* A step between two sections that leaves the head, and wakes nobody.     *)
LEMMA HoldKept ==
    ASSUME IndInv, HoldInv, section = "open", NEW r, ~InQueue(waiting, r),
           HasHead' <=> HasHead, HasHead => HeadRun' = HeadRun,
           hold' = hold, memoryWait' = memoryWait \/ memoryWait' = memoryWait \ {r},
           HoldsSlot # {} => HoldsSlot' # {}
    PROVE  HoldExplained'
PROOF
<1>1. /\ hold <=> HasHead
      /\ memoryWait = IF hold THEN {HeadRun} ELSE {}
      /\ hold => HoldsSlot # {}
    BY DEF HoldInv, HoldExplained
<1>2. hold \in BOOLEAN /\ (HasHead => HeadRun # r)
    BY HeadFacts DEF IndInv, TypeOK
<1>3. memoryWait' = IF hold' THEN {HeadRun'} ELSE {}
  <2>1. CASE hold
    <3>1. memoryWait = {HeadRun} /\ HeadRun # r /\ HeadRun' = HeadRun
        BY <1>1, <1>2, <2>1
    <3>2. memoryWait' = {HeadRun}
        BY <3>1
    <3> QED
        BY <2>1, <3>1, <3>2
  <2>2. CASE ~hold
    <3>1. memoryWait = {}
        BY <1>1, <2>2
    <3> QED
        BY <2>2, <3>1
  <2> QED
      BY <2>1, <2>2
<1>4. (hold' <=> HasHead') /\ (hold' => HoldsSlot' # {})
    BY <1>1
<1> QED
    BY <1>3, <1>4 DEF HoldExplained

(* What else the invariant says, apart from HoldExplained.                 *)
EndsTold == \A r \in records : phase[r] \in {"settled", "released"} => status[r] \in Terminal

LEMMA HoldParts ==
    ASSUME HoldExplained', section' # "boot", EndsTold'
    PROVE  HoldInv'
PROOF
    BY DEF HoldInv, EndsTold

(* The end of a run that does not wait any more.                           *)
LEMMA EndHold ==
    ASSUME IndInv, ControlInv, HoldInv, section = "open", NEW r \in Runs, phase[r] \in SlotPhases \ {"settled"},
           NEW st \in Terminal, NEW saved \in BOOLEAN, EmitEnd(r, st, saved, waiting, {}),
           phase' = [phase EXCEPT ![r] = "settled"],
           UNCHANGED <<owners, slotVars, lockVars, hold>>
    PROVE  HoldInv'
PROOF
<1>1. /\ records \subseteq Runs /\ status \in [Runs -> Statuses] /\ phase \in [Runs -> Phases]
      /\ r \in records /\ Good(waiting) /\ owners \in [Runs -> SUBSET Lanes]
    BY DEF IndInv, TypeOK, PhasesAgree
<1>2. ~InQueue(waiting, r)
    BY DEF IndInv, WaitingIsQueued, SlotPhases
<1>3. /\ status' = [status EXCEPT ![r] = st] /\ records' \subseteq records
      /\ waiting' = Forget(waiting, IdleAfter(owners'[r]))
      /\ memoryWait' = memoryWait \ {r}
  <2>1. /\ status' = [status EXCEPT ![r] = st]
        /\ waiting' = Forget(waiting, IdleAfter(owners'[r] \cup {})) /\ memoryWait' = memoryWait \ {r}
      BY DEF EmitEnd
  <2>2. records' \subseteq records
    <3>1. {} \in SUBSET Lanes /\ owners' \in [Runs -> SUBSET Lanes]
        BY <1>1
    <3> QED
        BY <1>1, <3>1, EmitEndFacts
  <2>3. owners'[r] \cup {} = owners'[r]
      OBVIOUS
  <2> QED
      BY <2>1, <2>2, <2>3
<1>4. /\ \A x \in Runs \ {r} : status'[x] = status[x] /\ phase'[x] = phase[x]
      /\ status'[r] = st /\ phase'[r] = "settled"
    BY <1>1, <1>3
<1>5. IdleAfter(owners'[r]) \in SUBSET Experiments
    BY <1>1 DEF IdleAfter, Lanes
<1>6. \A e \in IdleAfter(owners'[r]), x \in records :
        e \in owners[x] => status[x] # "queued" \/ ~InQueue(waiting, x)
    BY <1>1, <1>2, <1>4 DEF IdleAfter
<1>7. (HasHead' <=> HasHead) /\ (HasHead => HeadRun' = HeadRun)
    BY <1>3, <1>5, <1>6, ForgetKeepsHead
<1>8. HoldsSlot' # {}
    BY <1>4 DEF HoldsSlot, SlotPhases
<1>9. HoldExplained'
    BY <1>2, <1>3, <1>7, <1>8, HoldKept
<1>10. EndsTold'
    BY <1>1, <1>3, <1>4 DEF HoldInv, EndsTold
<1> QED
    BY <1>9, <1>10, HoldParts DEF lockVars

LEMMA CancelStartedHold ==
    ASSUME IndInv, ControlInv, HoldInv, NEW o \in Lanes, NEW r \in Runs, NEW saved \in BOOLEAN,
           CancelStarted(o, r, saved)
    PROVE  HoldInv'
PROOF
<1>1. /\ UNCHANGED <<records, phase, hold>> /\ UNCHANGED slotVars
      /\ section = "open" /\ section' = "open" /\ ~InQueue(waiting, r)
      /\ owners' = [owners EXCEPT ![r] = @ \ {o}] /\ status[r] \notin Terminal
      /\ status' = [status EXCEPT ![r] = "cancel_requested"]
      /\ memoryWait' = memoryWait \ {r} /\ waiting' = Forget(waiting, IdleAfter({o}))
    BY DEF CancelStarted, Leave, transportVars
<1>2. records \subseteq Runs /\ \A x \in Runs \ {r} : owners'[x] = owners[x] /\ status'[x] = status[x]
    BY <1>1 DEF IndInv, TypeOK
<1>3. IdleAfter({o}) \in SUBSET Experiments
    BY DEF IdleAfter, Lanes
<1>4. \A e \in IdleAfter({o}), x \in records :
        e \in owners[x] => status[x] # "queued" \/ ~InQueue(waiting, x)
    BY <1>1, <1>2 DEF IdleAfter
<1>5. (HasHead' <=> HasHead) /\ (HasHead => HeadRun' = HeadRun)
    BY <1>1, <1>3, <1>4, ForgetKeepsHead
<1>6. HoldsSlot' = HoldsSlot
    BY <1>1 DEF HoldsSlot
<1>7. HoldExplained'
    BY <1>1, <1>5, <1>6, HoldKept
<1>8. EndsTold'
    BY <1>1, <1>2 DEF HoldInv, EndsTold
<1> QED
    BY <1>1, <1>7, <1>8, HoldParts

LEMMA ScheduleHold ==
    ASSUME IndInv, ControlInv, HoldInv, NEW e \in Experiments, Schedule(e)
    PROVE  HoldInv'
PROOF
<1>1. /\ UNCHANGED <<records, owners, status, phase, hold, memoryWait>> /\ UNCHANGED slotVars
      /\ section = "open" /\ section' # "boot"
    BY DEF Schedule, recordVars, transportVars
<1>2. EndsTold'
    BY <1>1 DEF HoldInv, EndsTold
<1>3. CASE OwnerActive(e)
  <2>1. section' # "open"
      BY <1>3 DEF Schedule
  <2> QED
      BY <1>1, <1>2, <2>1, HoldParts DEF HoldExplained
<1>4. CASE ~OwnerActive(e)
  <2>1. waiting' = Forget(waiting, {e}) /\ {e} \in SUBSET Experiments
      BY <1>4 DEF Schedule
  <2>2. \A f \in {e}, x \in records : f \in owners[x] => status[x] # "queued" \/ ~InQueue(waiting, x)
      BY <1>4 DEF OwnerActive
  <2>3. (HasHead' <=> HasHead) /\ (HasHead => HeadRun' = HeadRun)
      BY <1>1, <2>1, <2>2, ForgetKeepsHead
  <2>4. HoldsSlot' = HoldsSlot
      BY <1>1 DEF HoldsSlot
  <2>5. HoldExplained'
      BY <1>1, <2>3, <2>4 DEF HoldInv, HoldExplained
  <2> QED
      BY <1>1, <1>2, <2>5, HoldParts
<1> QED
    BY <1>3, <1>4

(* A run that has ended and kept its slot is not weighed, so that the      *)
(* guard can hold the head only while another run has a slot.              *)
LEMMA DispatchEndsHold ==
    ASSUME IndInv, HoldInv, DispatchHold \/ DispatchDone
    PROVE  HoldInv'
PROOF
<1>1. /\ UNCHANGED <<waiting, records, status, phase, running, runningExperiments>> /\ section' = "open"
    BY DEF DispatchHold, DispatchDone, slotVars
<1>2. /\ HasHead' <=> HasHead
      /\ HeadRun' = HeadRun
    BY <1>1 DEF HasHead, HeadRun, ExperimentsMay
<1>3. EndsTold'
    BY <1>1 DEF HoldInv, EndsTold
<1>4. CASE DispatchDone
  <2>1. ~HasHead /\ hold' = FALSE /\ memoryWait' = {}
      BY <1>4 DEF DispatchDone
  <2>2. HoldExplained'
      BY <1>2, <2>1 DEF HoldExplained
  <2> QED
      BY <1>1, <1>3, <2>2, HoldParts
<1>5. CASE DispatchHold
  <2>1. HasHead /\ hold' = TRUE /\ memoryWait' = {HeadRun} /\ Guarded
      BY <1>5 DEF DispatchHold
  <2>2. PICK r \in records : phase[r] # "none" /\ status[r] \notin Terminal
      BY <2>1 DEF Guarded
  <2>3. phase[r] \in SlotPhases /\ r \in Runs
      BY <2>2 DEF HoldInv, IndInv, TypeOK, Phases
  <2>4. HoldsSlot' # {}
      BY <1>1, <2>3 DEF HoldsSlot
  <2>5. HoldExplained'
      BY <1>2, <2>1, <2>4 DEF HoldExplained
  <2> QED
      BY <1>1, <1>3, <2>5, HoldParts
<1> QED
    BY <1>4, <1>5

LEMMA FinishHold ==
    ASSUME IndInv, ControlInv, HoldInv, NEW r \in Runs, End(r) \/ Finish(r)
    PROVE  HoldInv'
PROOF
<1>1. records \subseteq Runs /\ phase \in [Runs -> Phases]
    BY DEF IndInv, TypeOK
<1>2. CASE \/ EndCommitted(r) \/ EndFailed(r) \/ EndStopped(r) \/ Discard(r) \/ DiscardFails(r)
           \/ CompleteLate(r) \/ \E gone \in BOOLEAN : CompleteUnsaved(r, gone)
  <2>1. /\ UNCHANGED <<waiting, records, status, running, runningExperiments, section, hold, memoryWait>>
        /\ section # "boot"
      BY <1>2 DEF EndCommitted, EndFailed, EndStopped, Discard, DiscardFails, Outside, CompleteLate,
                  CompleteUnsaved, recordVars, slotVars, lockVars
  <2>2. PICK to \in {"committed", "failing", "cancelling", "discarding"} : phase' = [phase EXCEPT ![r] = to]
      BY <1>2 DEF EndCommitted, EndFailed, EndStopped, Discard, DiscardFails, Outside, CompleteLate,
                  CompleteUnsaved
  <2>3. phase'[r] = to /\ \A x \in Runs \ {r} : phase'[x] = phase[x]
      BY <1>1, <2>2
  <2>4. HoldsSlot' # {}
      BY <2>3 DEF HoldsSlot, SlotPhases
  <2>5. HasHead' = HasHead /\ HeadRun' = HeadRun
      BY <2>1 DEF HasHead, HeadRun, ExperimentsMay
  <2>6. HoldExplained'
      BY <2>1, <2>4, <2>5 DEF HoldInv, HoldExplained
  <2>7. EndsTold'
      BY <1>1, <2>1, <2>3 DEF HoldInv, EndsTold
  <2> QED
      BY <2>1, <2>6, <2>7, HoldParts
<1>3. CASE Complete(r)
  <2>1. /\ section = "open" /\ phase[r] = "committed" /\ phase' = [phase EXCEPT ![r] = "settled"]
        /\ UNCHANGED <<owners, slotVars, lockVars, hold>> /\ EmitEnd(r, "completed", TRUE, waiting, {})
      BY <1>3 DEF Complete
  <2>2. phase[r] \in SlotPhases \ {"settled"} /\ "completed" \in Terminal /\ TRUE \in BOOLEAN
      BY <2>1 DEF SlotPhases
  <2> QED
      BY <2>1, <2>2, EndHold
<1>4. ASSUME NEW saved \in BOOLEAN, Settle(r, saved) PROVE HoldInv'
  <2>1. PICK st \in Terminal : EmitEnd(r, st, saved, waiting, {})
      BY <1>4 DEF Settle
  <2>2. /\ section = "open" /\ phase[r] \in {"cancelling", "failing"} /\ phase' = [phase EXCEPT ![r] = "settled"]
        /\ UNCHANGED <<owners, slotVars, lockVars, hold>>
      BY <1>4 DEF Settle
  <2>3. phase[r] \in SlotPhases \ {"settled"}
      BY <2>2 DEF SlotPhases
  <2> QED
      BY <2>1, <2>2, <2>3, EndHold
<1>5. CASE Release(r)
  <2>1. /\ UNCHANGED <<records, status>> /\ phase[r] = "settled" /\ section' = "dispatch"
        /\ phase' = [phase EXCEPT ![r] = "released"]
      BY <1>5 DEF Release, recordVars
  <2>2. EndsTold'
      BY <1>1, <2>1 DEF HoldInv, EndsTold
  <2> QED
      BY <2>1, <2>2, HoldParts DEF HoldExplained
<1> QED
    BY <1>2, <1>3, <1>4, <1>5 DEF End, Finish

LEMMA RequestHold ==
    ASSUME IndInv, ControlInv, HoldInv, NEW o \in Lanes, NEW r \in Runs, Request(o, r)
    PROVE  HoldInv'
PROOF
<1>1. /\ records \subseteq Runs /\ phase \in [Runs -> Phases] /\ status \in [Runs -> Statuses]
      /\ owners \in [Runs -> SUBSET Lanes]
    BY DEF IndInv, TypeOK
<1>2. CASE Accept(o, r)
  <2>1. /\ section' = "dispatch" /\ UNCHANGED phase /\ records' = records \cup {r} /\ stored[r] = Absent
        /\ status' = [status EXCEPT ![r] = "queued"]
      BY <1>2 DEF Accept, transportVars
  <2>2. phase[r] = "none" /\ r \notin records
      BY <2>1 DEF IndInv, OnlyAccepted
  <2>3. EndsTold'
      BY <1>1, <2>1, <2>2 DEF HoldInv, EndsTold
  <2> QED
      BY <2>1, <2>3, HoldParts DEF HoldExplained
<1>3. CASE Join(o, r) \/ LeaveToOthers(o, r)
  <2>1. section' = "dispatch" /\ UNCHANGED <<phase, records, status>>
      BY <1>3 DEF Join, LeaveToOthers, Leave, transportVars
  <2>2. EndsTold'
      BY <2>1 DEF HoldInv, EndsTold
  <2> QED
      BY <2>1, <2>2, HoldParts DEF HoldExplained
<1>4. CASE LeaveEnded(o, r)
  <2>1. /\ UNCHANGED <<section, phase, records, status, waiting, running, runningExperiments, hold, memoryWait>>
        /\ section = "open"
      BY <1>4 DEF LeaveEnded, Leave, transportVars, slotVars
  <2>2. HasHead' = HasHead /\ HeadRun' = HeadRun /\ HoldsSlot' = HoldsSlot
      BY <2>1 DEF HasHead, HeadRun, ExperimentsMay, HoldsSlot
  <2> QED
      BY <2>1, <2>2 DEF HoldInv, HoldExplained
<1>5. ASSUME NEW saved \in BOOLEAN, CancelWaiting(o, r, saved) PROVE HoldInv'
  <2>1. /\ section' = "dispatch" /\ UNCHANGED phase /\ r \in records
        /\ owners' = [owners EXCEPT ![r] = @ \ {o}]
        /\ EmitEnd(r, "cancelled", saved, RemoveRun(waiting, r), {o})
      BY <1>5 DEF CancelWaiting, Leave, transportVars
  <2>2. Good(RemoveRun(waiting, r)) /\ {o} \in SUBSET Lanes /\ owners' \in [Runs -> SUBSET Lanes]
        /\ "cancelled" \in Terminal
      BY <1>1, <2>1, RemoveRunFacts DEF IndInv
  <2>3. status' = [status EXCEPT ![r] = "cancelled"] /\ records' \subseteq records
      BY <2>1, <2>2, EmitEndFacts
  <2>4. EndsTold'
      BY <1>1, <2>1, <2>3 DEF HoldInv, EndsTold
  <2> QED
      BY <2>1, <2>4, HoldParts DEF HoldExplained
<1>6. ASSUME NEW saved \in BOOLEAN, CancelStarted(o, r, saved) PROVE HoldInv'
    BY <1>6, CancelStartedHold
<1> QED
    BY <1>2, <1>3, <1>4, <1>5, <1>6 DEF Request

LEMMA LoopStepHold ==
    ASSUME IndInv, ControlInv, HoldInv, LoopStep
    PROVE  HoldInv'
PROOF
<1>1. /\ records \subseteq Runs /\ phase \in [Runs -> Phases] /\ status \in [Runs -> Statuses]
      /\ owners \in [Runs -> SUBSET Lanes]
    BY DEF IndInv, TypeOK
<1>2. ASSUME NEW r \in Runs, RelaneNext(r) PROVE HoldInv'
  <2>1. section' \in {"dispatch", "relane"} /\ UNCHANGED <<phase, records, status>>
      BY <1>2 DEF RelaneNext, transportVars, recordVars
  <2>2. EndsTold'
      BY <2>1 DEF HoldInv, EndsTold
  <2> QED
      BY <2>1, <2>2, HoldParts DEF HoldExplained
<1>3. ASSUME NEW r \in Runs, DispatchStart(r) PROVE HoldInv'
  <2>1. section' = "dispatch" /\ UNCHANGED <<records, status>> /\ phase' = [phase EXCEPT ![r] = "computing"]
      BY <1>3 DEF DispatchStart, lockVars
  <2>2. EndsTold'
      BY <1>1, <2>1 DEF HoldInv, EndsTold
  <2> QED
      BY <2>1, <2>2, HoldParts DEF HoldExplained
<1>4. ASSUME NEW r \in Runs, NEW saved \in BOOLEAN, DispatchStartFails(r, saved) PROVE HoldInv'
  <2>1. /\ section' = "dispatch" /\ UNCHANGED <<phase, owners>>
        /\ EmitEnd(r, "failed", saved, Pop(waiting, ExperimentsMay), {})
      BY <1>4 DEF DispatchStartFails, lockVars, transportVars
  <2>2. /\ Good(Pop(waiting, ExperimentsMay)) /\ r \in records
        /\ {} \in SUBSET Lanes /\ owners' \in [Runs -> SUBSET Lanes] /\ "failed" \in Terminal
      BY <1>1, <1>4, <2>1, HeadFacts DEF DispatchStartFails
  <2>3. status' = [status EXCEPT ![r] = "failed"] /\ records' \subseteq records
      BY <2>1, <2>2, EmitEndFacts
  <2>4. EndsTold'
      BY <1>1, <2>1, <2>3 DEF HoldInv, EndsTold
  <2> QED
      BY <2>1, <2>4, HoldParts DEF HoldExplained
<1> QED
    BY <1>2, <1>3, <1>4, DispatchEndsHold DEF LoopStep

LEMMA ProgressHold ==
    ASSUME IndInv, ControlInv, HoldInv, NEW r \in Runs, NEW saved \in BOOLEAN, Progress(r, saved)
    PROVE  HoldInv'
PROOF
<1>1. /\ UNCHANGED <<records, waiting, running, runningExperiments, section, phase, hold>>
      /\ section = "open" /\ phase[r] = "computing"
      /\ status' = [status EXCEPT ![r] = "running"] /\ memoryWait' = memoryWait \ {r}
    BY DEF Progress, slotVars, lockVars, transportVars
<1>2. ~InQueue(waiting, r)
    BY <1>1 DEF IndInv, WaitingIsQueued
<1>3. HasHead' = HasHead /\ HeadRun' = HeadRun /\ HoldsSlot' = HoldsSlot
    BY <1>1 DEF HasHead, HeadRun, ExperimentsMay, HoldsSlot
<1>4. HoldExplained'
    BY <1>1, <1>2, <1>3, HoldKept
<1>5. EndsTold'
    BY <1>1 DEF HoldInv, EndsTold, IndInv, TypeOK
<1> QED
    BY <1>1, <1>4, <1>5, HoldParts

(* Before requests are served there is nothing to hold.                    *)
LEMMA BootHold ==
    ASSUME IndInv, HoldInv, Boot \/ Crash
    PROVE  HoldInv'
PROOF
<1>1. CASE Crash
    BY <1>1 DEF Crash, HoldInv, HoldExplained
<1>2. ASSUME NEW r \in Runs, CloseInterrupted(r) PROVE HoldInv'
    BY <1>2 DEF CloseInterrupted, recordVars, lockVars, transportVars, HoldInv, HoldExplained
<1>3. CASE OpenService
  <2>1. /\ UNCHANGED <<records, status, waiting, running, runningExperiments, phase, hold, memoryWait>>
        /\ section = "boot" /\ section' = "open"
      BY <1>3 DEF OpenService, recordVars, slotVars, transportVars
  <2>2. ~hold /\ memoryWait = {} /\ records = {}
      BY <2>1 DEF HoldInv, IndInv, BootEmpty
  <2>3. ~HasHead
      BY <2>2, HeadFacts
  <2>4. HasHead' = HasHead
      BY <2>1 DEF HasHead, ExperimentsMay
  <2> QED
      BY <2>1, <2>2, <2>3, <2>4 DEF HoldInv, HoldExplained
<1> QED
    BY <1>1, <1>2, <1>3 DEF Boot

LEMMA InitHold == Init => HoldInv
PROOF
<1> SUFFICES ASSUME Init PROVE HoldInv
    OBVIOUS
<1>1. records = {} /\ memoryWait = {} /\ hold = FALSE /\ section = "open" /\ waiting = EmptyQueue
    BY DEF Init
<1>2. ~HasHead
    BY <1>1, InitInv, HeadFacts
<1> QED
    BY <1>1, <1>2 DEF HoldInv, HoldExplained

LEMMA NextHold == IndInv /\ ControlInv /\ HoldInv /\ [Next]_vars => HoldInv'
PROOF
<1> SUFFICES ASSUME IndInv, ControlInv, HoldInv, [Next]_vars PROVE HoldInv'
    OBVIOUS
<1>1. ASSUME \/ \E e \in Experiments, paused \in BOOLEAN, w \in Weights : SetControls(e, paused, w)
             \/ UNCHANGED vars
      PROVE  HoldInv'
  <2>1. UNCHANGED <<section, phase, records, status, waiting, running, runningExperiments, hold, memoryWait>>
      BY <1>1 DEF SetControls, vars, recordVars, slotVars, lockVars, transportVars
  <2>2. HasHead' = HasHead /\ HeadRun' = HeadRun /\ HoldsSlot' = HoldsSlot
      BY <2>1 DEF HasHead, HeadRun, ExperimentsMay, HoldsSlot
  <2> QED
      BY <2>1, <2>2 DEF HoldInv, HoldExplained
<1> QED
    BY <1>1, RequestHold, ScheduleHold, LoopStepHold, ProgressHold, FinishHold, BootHold DEF Next

(* Between two critical sections a run that could start waits for memory   *)
(* and for nothing else: it is the one whose message says so, the          *)
(* transport was told, and a run with a slot is there whose end will wake  *)
(* the queue.                                                              *)
THEOREM HoldIsExplained == Spec => []HoldExplained
PROOF
<1>1. HoldInv => HoldExplained
    BY DEF HoldInv
<1> QED
    BY <1>1, InitHold, NextHold, Invariance, ControlsKept, PTL DEF Spec

-----------------------------------------------------------------------------
(***************************************************************************)
(* The run service implements RunLifecycle: whatever shares, queues,       *)
(* slots, failed writes and restarts do inside, a client sees each run     *)
(* pass through its statuses in the promised order.                        *)
(*                                                                         *)
(* The argument: a critical section changes the status of at most one run  *)
(* and saves it or not; the copies it drops from memory tell what is       *)
(* saved (SavedBeforeDropped); the cancellation event and the status agree *)
(* (CancelNeedsEveryOwner), so a cancelled run can end in one way only.    *)
(***************************************************************************)
USE DEF Lifecycle!Unfinished, Lifecycle!Terminal

LEMMA InitRefines == Init => Lifecycle!Init
PROOF
    BY DEF Init, Lifecycle!Init, Visible

(* A step of the service that no client notices.                           *)
Unnoticed ==
    /\ UNCHANGED <<records, status, stored>>
    /\ section' = "boot" <=> section = "boot"

LEMMA UnnoticedRefines ==
    ASSUME Unnoticed
    PROVE  UNCHANGED Lifecycle!vars
PROOF
<1>1. [r \in Runs |-> Visible(r)]' = [r \in Runs |-> Visible(r)]
    BY DEF Unnoticed, Visible
<1>2. {r \in Runs : stored[r] \in Terminal}' = {r \in Runs : stored[r] \in Terminal}
    BY DEF Unnoticed
<1>3. (section # "boot")' = (section # "boot")
    BY DEF Unnoticed
<1> QED
    BY <1>1, <1>2, <1>3 DEF Lifecycle!vars

(* A step that moves run r to status st.                                   *)
Advances(r, st, saved) ==
    /\ section # "boot" /\ section' # "boot"
    /\ st \in Lifecycle!Follows(Visible(r))
    /\ stored[r] \notin Terminal
    /\ status' = [status EXCEPT ![r] = st]
    /\ stored' = IF saved THEN [stored EXCEPT ![r] = st] ELSE stored
    /\ st = "completed" => saved
    /\ records' \subseteq records \cup {r}
    /\ \A x \in (records \cup {r}) \ records' : stored'[x] \in Terminal

LEMMA AdvanceRefines ==
    ASSUME IndInv, NEW r \in Runs, NEW st \in Unfinished \cup Terminal, NEW saved \in BOOLEAN,
           Advances(r, st, saved)
    PROVE  Lifecycle!Next
PROOF
<1>1. /\ stored \in [Runs -> Statuses] /\ status \in [Runs -> Statuses] /\ records \subseteq Runs
      /\ \A x \in records : stored[x] \in Terminal => stored[x] = status[x]
    BY DEF IndInv, TypeOK, SavedBeforeDropped
<1>2. /\ \A x \in Runs : status'[x] = IF x = r THEN st ELSE status[x]
      /\ \A x \in Runs : stored'[x] = IF x = r /\ saved THEN st ELSE stored[x]
    BY <1>1 DEF Advances
<1>3. \A x \in Runs : Visible(x)' = IF x = r THEN st ELSE Visible(x)
  <2>1. CASE r \in records'
    BY <1>1, <1>2, <2>1 DEF Advances, Visible
  <2>2. CASE r \notin records'
    <3>1. stored'[r] \in Terminal
      BY <2>2 DEF Advances
    <3>2. saved
      BY <1>2, <3>1 DEF Advances
    <3> QED
      BY <1>1, <1>2, <2>2, <3>2 DEF Advances, Visible
  <2> QED
    BY <2>1, <2>2
<1> DEFINE view == [x \in Runs |-> Visible(x)]
           sure == {x \in Runs : stored[x] \in Terminal}
<1>4. view' = [view EXCEPT ![r] = st]
    BY <1>3
<1>5. \/ st # "completed" /\ sure' = sure
      \/ st \in Terminal /\ sure' = sure \cup {r}
  <2>1. CASE saved /\ st \in Terminal
    BY <1>2, <2>1
  <2>2. CASE ~(saved /\ st \in Terminal)
    <3>1. st # "completed"
      BY <2>2 DEF Advances
    <3>2. sure' = sure
      BY <1>2, <2>2 DEF Advances
    <3> QED
      BY <3>1, <3>2
  <2> QED
    BY <2>1, <2>2
<1>6. st \in Lifecycle!Follows(view[r]) /\ (section # "boot") /\ (section # "boot")' = (section # "boot")
    BY DEF Advances
<1> HIDE DEF view, sure
<1>7. Lifecycle!Step(r, st)
    BY <1>4, <1>5, <1>6 DEF Lifecycle!Step, view, sure
<1> QED
    BY <1>7 DEF Lifecycle!Next

(* What the record of a run that has not ended says.                       *)
LEMMA UnfinishedVisible ==
    ASSUME IndInv, NEW r \in Runs, r \in records, status[r] \notin Terminal
    PROVE  /\ Visible(r) = status[r]
           /\ stored[r] \notin Terminal
           /\ status[r] = "cancel_requested" <=> r \in cancelled
           /\ status[r] \in Unfinished
PROOF
    BY DEF IndInv, Visible, SavedBeforeDropped, CancelNeedsEveryOwner, SomeoneWants, TypeOK, Statuses

(* An emitted end is a step of the lifecycle.                              *)
Emits(r, st, saved, q, leaving) ==
    /\ EmitEnd(r, st, saved, q, leaving)
    /\ r \in records /\ status[r] \notin Terminal
    /\ st = "completed" => saved
    /\ r \in cancelled => st = "cancelled"
    /\ Good(q)
    /\ owners' \in [Runs -> SUBSET Lanes]
    /\ section # "boot" /\ section' # "boot"

LEMMA EmitEndRefines ==
    ASSUME IndInv, NEW r \in Runs, NEW st \in Terminal, NEW saved \in BOOLEAN,
           NEW q, NEW leaving \in SUBSET Lanes,
           Emits(r, st, saved, q, leaving)
    PROVE  Lifecycle!Next
PROOF
<1> USE DEF Emits
<1>1. /\ status' = [status EXCEPT ![r] = st]
      /\ stored' = IF saved THEN [stored EXCEPT ![r] = st] ELSE stored
      /\ records' \subseteq records
      /\ \A x \in records \ records' : stored'[x] \in Terminal
    BY EmitEndFacts
<1>2. /\ Visible(r) = status[r] /\ stored[r] \notin Terminal /\ status[r] \in Unfinished
      /\ status[r] = "cancel_requested" <=> r \in cancelled
    BY UnfinishedVisible
<1>3. st \in Lifecycle!Follows(Visible(r))
    BY <1>2 DEF Lifecycle!Follows
<1>4. Advances(r, st, saved)
    BY <1>1, <1>2, <1>3 DEF Advances
<1> QED
    BY <1>4, AdvanceRefines

-----------------------------------------------------------------------------
LEMMA RequestRefines ==
    ASSUME IndInv, NEW o \in Lanes, NEW r \in Runs, Request(o, r)
    PROVE  Lifecycle!Next \/ UNCHANGED Lifecycle!vars
PROOF
<1>1. CASE Accept(o, r)
  <2>1. /\ stored[r] = "absent" /\ section = "open" /\ section' = "dispatch"
        /\ status' = [status EXCEPT ![r] = "queued"]
        /\ stored' = [stored EXCEPT ![r] = "queued"]
        /\ records' = records \cup {r}
    BY <1>1 DEF Accept, MayStart
  <2>2. Visible(r) = "absent"
    BY <2>1 DEF IndInv, OnlyAccepted, Visible
  <2>3. Advances(r, "queued", TRUE)
    BY <2>1, <2>2 DEF Advances, Lifecycle!Follows
  <2> QED
    BY <2>3, AdvanceRefines
<1>2. CASE Join(o, r) \/ LeaveEnded(o, r) \/ LeaveToOthers(o, r)
  <2>1. Unnoticed
    BY <1>2 DEF Join, MayStart, LeaveEnded, LeaveToOthers, Leave, Unnoticed, durable
  <2> QED
    BY <2>1, UnnoticedRefines
<1>3. ASSUME NEW saved \in BOOLEAN, CancelWaiting(o, r, saved) PROVE Lifecycle!Next
  <2>1. /\ section = "open" /\ section' = "dispatch" /\ r \in records
        /\ status[r] \notin Terminal
        /\ owners' = [owners EXCEPT ![r] = @ \ {o}]
        /\ EmitEnd(r, "cancelled", saved, RemoveRun(waiting, r), {o})
    BY <1>3 DEF CancelWaiting, Leave
  <2>2. owners' \in [Runs -> SUBSET Lanes]
    BY <2>1 DEF IndInv, TypeOK
  <2>3. Good(RemoveRun(waiting, r))
    BY RemoveRunFacts DEF IndInv
  <2> QED
    BY <2>1, <2>2, <2>3, EmitEndRefines DEF Emits
<1>4. ASSUME NEW saved \in BOOLEAN, CancelStarted(o, r, saved)
      PROVE  Lifecycle!Next \/ UNCHANGED Lifecycle!vars
  <2>1. /\ section = "open" /\ section' = section /\ r \in records
        /\ status[r] \notin Terminal
        /\ records' = records
        /\ status' = [status EXCEPT ![r] = "cancel_requested"]
        /\ IF status[r] = "cancel_requested"
           THEN UNCHANGED stored
           ELSE stored' = IF saved THEN [stored EXCEPT ![r] = "cancel_requested"] ELSE stored
    BY <1>4 DEF CancelStarted, Leave, Persist
  <2>2. /\ Visible(r) = status[r] /\ stored[r] \notin Terminal /\ status[r] \in Unfinished
    BY <2>1, UnfinishedVisible
  <2>3. CASE status[r] = "cancel_requested"
    <3>1. Unnoticed
      BY <2>1, <2>3 DEF Unnoticed, IndInv, TypeOK
    <3> QED
      BY <3>1, UnnoticedRefines
  <2>4. CASE status[r] # "cancel_requested"
    <3>1. Advances(r, "cancel_requested", saved)
      BY <2>1, <2>2, <2>4 DEF Advances, Lifecycle!Follows
    <3> QED
      BY <3>1, AdvanceRefines
  <2> QED
    BY <2>3, <2>4
<1> QED
    BY <1>1, <1>2, <1>3, <1>4 DEF Request

LEMMA LoopStepRefines ==
    ASSUME IndInv, LoopStep
    PROVE  Lifecycle!Next \/ UNCHANGED Lifecycle!vars
PROOF
<1>1. ASSUME NEW r \in Runs, NEW saved \in BOOLEAN, DispatchStartFails(r, saved)
      PROVE  Lifecycle!Next
  <2>1. /\ HasHead /\ r = HeadRun /\ section = "dispatch" /\ section' = section
        /\ owners' = owners
        /\ EmitEnd(r, "failed", saved, Pop(waiting, ExperimentsMay), {})
    BY <1>1 DEF DispatchStartFails, lockVars
  <2>2. /\ r \in records /\ status[r] = "queued" /\ Good(Pop(waiting, ExperimentsMay))
        /\ r \notin cancelled
    BY <2>1, HeadFacts DEF IndInv, CancelNeedsEveryOwner
  <2>3. owners' \in [Runs -> SUBSET Lanes]
    BY <2>1 DEF IndInv, TypeOK
  <2> QED
    BY <2>1, <2>2, <2>3, EmitEndRefines DEF Emits
<1>2. CASE \/ \E r \in Runs : RelaneNext(r) \/ DispatchStart(r)
           \/ DispatchHold \/ DispatchDone
  <2>1. Unnoticed
    BY <1>2 DEF RelaneNext, DispatchStart, DispatchHold, DispatchDone, Unnoticed, durable,
                recordVars, lockVars
  <2> QED
    BY <2>1, UnnoticedRefines
<1> QED
    BY <1>1, <1>2 DEF LoopStep

LEMMA EndRefines ==
    ASSUME IndInv, NEW r \in Runs, End(r) \/ Finish(r)
    PROVE  Lifecycle!Next \/ UNCHANGED Lifecycle!vars
PROOF
<1>1. CASE End(r) \/ Discard(r) \/ DiscardFails(r) \/ Release(r)
           \/ CompleteLate(r) \/ \E gone \in BOOLEAN : CompleteUnsaved(r, gone)
  <2>1. Unnoticed
    BY <1>1 DEF End, EndCommitted, EndFailed, EndStopped, Discard, DiscardFails, Outside, Release,
                CompleteLate, CompleteUnsaved, Unnoticed, durable, recordVars, lockVars
  <2> QED
    BY <2>1, UnnoticedRefines
<1>2. CASE Complete(r)
  <2>1. /\ section = "open" /\ section' = section /\ owners' = owners
        /\ phase[r] = "committed" /\ r \notin cancelled
    BY <1>2 DEF Complete, lockVars
  <2>2. r \in records /\ status[r] \notin Terminal
    BY <2>1 DEF IndInv, PhasesAgree, SlotPhases
  <2>3. owners' \in [Runs -> SUBSET Lanes] /\ Good(waiting)
    BY <2>1 DEF IndInv, TypeOK
  <2>4. EmitEnd(r, "completed", TRUE, waiting, {})
    BY <1>2 DEF Complete
  <2>5. Emits(r, "completed", TRUE, waiting, {})
    BY <2>1, <2>2, <2>3, <2>4 DEF Emits
  <2>6. TRUE \in BOOLEAN /\ "completed" \in Terminal /\ {} \in SUBSET Lanes
    OBVIOUS
  <2> HIDE DEF Terminal
  <2> QED
    BY <2>5, <2>6, EmitEndRefines
<1>3. ASSUME NEW saved \in BOOLEAN, Settle(r, saved) PROVE Lifecycle!Next
  <2> DEFINE st == IF phase[r] = "cancelling" \/ r \in cancelled THEN "cancelled" ELSE "failed"
  <2>1. /\ section = "open" /\ section' = section /\ owners' = owners
        /\ phase[r] \in {"cancelling", "failing"}
        /\ EmitEnd(r, st, saved, waiting, {})
    BY <1>3 DEF Settle, lockVars
  <2>2. r \in records /\ status[r] \notin Terminal
    BY <2>1 DEF IndInv, PhasesAgree, SlotPhases
  <2>3. owners' \in [Runs -> SUBSET Lanes] /\ Good(waiting)
    BY <2>1 DEF IndInv, TypeOK
  <2>4. st \in Terminal /\ st # "completed" /\ (r \in cancelled => st = "cancelled")
    OBVIOUS
  <2> HIDE DEF st
  <2> QED
    BY <2>1, <2>2, <2>3, <2>4, EmitEndRefines DEF Emits
<1> QED
    BY <1>1, <1>2, <1>3 DEF End, Finish

LEMMA ProgressRefines ==
    ASSUME IndInv, NEW r \in Runs, NEW saved \in BOOLEAN, Progress(r, saved)
    PROVE  Lifecycle!Next
PROOF
<1>1. /\ section = "open" /\ section' = section
      /\ phase[r] = "computing" /\ status[r] = "queued"
      /\ records' = records
      /\ status' = [status EXCEPT ![r] = "running"]
      /\ stored' = IF saved THEN [stored EXCEPT ![r] = "running"] ELSE stored
    BY DEF Progress, Persist, lockVars
<1>2. r \in records
    BY <1>1 DEF IndInv, PhasesAgree, SlotPhases
<1>3. Visible(r) = "queued" /\ stored[r] \notin Terminal
    BY <1>1, <1>2, UnfinishedVisible
<1>4. Advances(r, "running", saved)
    BY <1>1, <1>2, <1>3 DEF Advances, Lifecycle!Follows
<1> QED
    BY <1>4, AdvanceRefines

(* A restart shows what was saved.                                         *)
LEMMA CrashRefines ==
    ASSUME IndInv, Crash
    PROVE  Lifecycle!Next
PROOF
<1>1. records' = {} /\ stored' = stored /\ section' = "boot"
    BY DEF Crash, durable
<1> DEFINE back == [r \in Runs |-> IF stored[r] \in Unfinished THEN stored[r] ELSE "queued"]
           view == [r \in Runs |-> Visible(r)]
           sure == {r \in Runs : stored[r] \in Terminal}
<1>2. ASSUME NEW r \in Runs
      PROVE  stored[r] = IF r \in sure \/ view[r] = "absent" THEN view[r] ELSE back[r]
  <2>1. stored[r] \in Statuses
    BY DEF IndInv, TypeOK
  <2>2. CASE r \in records
    BY <2>1, <2>2 DEF IndInv, SavedBeforeDropped, SomeoneWants, OnlyAccepted, Visible, Statuses
  <2>3. CASE r \notin records
    BY <2>1, <2>3 DEF Visible, Statuses
  <2> QED
    BY <2>2, <2>3
<1>3. view' = [r \in Runs |-> stored[r]]
    BY <1>1 DEF Visible
<1>4. view' = [r \in Runs |-> IF r \in sure \/ view[r] = "absent" THEN view[r] ELSE back[r]]
  <2> HIDE DEF view, sure, back
  <2> QED
    BY <1>2, <1>3
<1>5. back \in [Runs -> Unfinished] /\ sure' = sure /\ (section # "boot")' = FALSE
    BY <1>1
<1>6. Lifecycle!Stop
  <2> HIDE DEF back
  <2> QED
    BY <1>4, <1>5 DEF Lifecycle!Stop
<1> QED
    BY <1>6 DEF Lifecycle!Next

LEMMA BootRefines ==
    ASSUME IndInv, Boot
    PROVE  Lifecycle!Next
PROOF
<1>1. section = "boot" /\ records = {} /\ records' = {}
    BY DEF Boot, OpenService, CloseInterrupted, recordVars, IndInv, BootEmpty
<1> DEFINE view == [r \in Runs |-> Visible(r)]
<1>2. view = [r \in Runs |-> stored[r]] /\ view' = [r \in Runs |-> stored'[r]]
    BY <1>1 DEF Visible
<1>3. ASSUME NEW r \in Runs, CloseInterrupted(r) PROVE Lifecycle!Next
  <2>1. /\ stored[r] \in Unfinished /\ stored' = [stored EXCEPT ![r] = "failed"]
        /\ section' = section /\ stored \in [Runs -> Statuses]
    BY <1>3 DEF CloseInterrupted, lockVars, IndInv, TypeOK
  <2>2. view[r] \in Unfinished /\ view' = [view EXCEPT ![r] = "failed"]
    BY <1>2, <2>1
  <2>3. {x \in Runs : stored[x] \in Terminal}' = {x \in Runs : stored[x] \in Terminal} \cup {r}
    BY <2>1
  <2>4. Lifecycle!Close(r)
    BY <1>1, <2>1, <2>2, <2>3 DEF Lifecycle!Close
  <2> QED
    BY <2>4 DEF Lifecycle!Next
<1>4. ASSUME OpenService PROVE Lifecycle!Next
  <2>1. /\ \A r \in Runs : stored[r] \notin Unfinished
        /\ stored' = stored /\ section' = "open"
    BY <1>4 DEF OpenService, durable
  <2>2. view' = view /\ \A r \in Runs : view[r] \notin Unfinished
    BY <1>2, <2>1
  <2>3. Lifecycle!Serve
    BY <1>1, <2>1, <2>2 DEF Lifecycle!Serve
  <2> QED
    BY <2>3 DEF Lifecycle!Next
<1> QED
    BY <1>3, <1>4 DEF Boot

LEMMA NextRefines == IndInv /\ [Next]_vars => [Lifecycle!Next]_(Lifecycle!vars)
PROOF
<1> SUFFICES ASSUME IndInv, [Next]_vars PROVE Lifecycle!Next \/ UNCHANGED Lifecycle!vars
    OBVIOUS
<1>1. CASE \/ \E e \in Experiments, paused \in BOOLEAN, w \in Weights : SetControls(e, paused, w)
           \/ \E e \in Experiments : Schedule(e)
           \/ UNCHANGED vars
  <2>1. Unnoticed
    BY <1>1 DEF SetControls, Schedule, vars, Unnoticed, durable, recordVars, lockVars
  <2> QED
    BY <2>1, UnnoticedRefines
<1> QED
    BY <1>1, RequestRefines, LoopStepRefines, ProgressRefines, EndRefines, CrashRefines, BootRefines
       DEF Next

(* The service keeps the promise of RunLifecycle: the order of statuses,   *)
(* the finality of an end, and what a restart may take back.               *)
THEOREM ServiceImplementsLifecycle == Spec => ImplementsLifecycle
PROOF
<1> QED
    BY InitRefines, Invariance, NextRefines, PTL DEF Spec, ImplementsLifecycle, Lifecycle!Spec
=============================================================================
