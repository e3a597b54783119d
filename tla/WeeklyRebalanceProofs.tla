------------------------ MODULE WeeklyRebalanceProofs ------------------------
(***************************************************************************)
(* The properties of WeeklyRebalanceProperties follow from its IndInv, for *)
(* any symbols, holdings, targets, cash and number of runs.  Quantities    *)
(* are sums over the orders of a symbol and side (SumProofs): most steps   *)
(* change one term of them.                                                *)
(***************************************************************************)
EXTENDS WeeklyRebalanceProperties, SumProofs

USE PlanAssumption

LEMMA LeastOfTwo ==
  ASSUME NEW a \in Int, NEW b \in Int
  PROVE  Min({a, b}) \in Int /\ Min({a, b}) <= a /\ Min({a, b}) <= b
PROOF
<1>1. \E x \in {a, b} : \A y \in {a, b} : x <= y
  OBVIOUS
<1> QED
  BY <1>1 DEF Min

LEMMA LargestOfTwo ==
  ASSUME NEW a \in Int, NEW b \in Int
  PROVE  Max({a, b}) = IF a >= b THEN a ELSE b
PROOF
<1>1. \E x \in {a, b} : \A y \in {a, b} : x >= y
  OBVIOUS
<1> QED
  BY <1>1 DEF Max

(* There are finitely many orders, so whatever is summed is finite.        *)
LEMMA FinitelyManyOrders ==
  /\ IsFiniteSet(Ids)
  /\ \A S \in SUBSET Ids : IsFiniteSet(S)
PROOF
<1> DEFINE Numbers == 0 .. MaxRuns - 1
           Pairs == (Symbols \X Sides) \X Numbers
           f == [p \in Pairs |-> <<p[1][1], p[1][2], p[2]>>]
<1>1. IsFiniteSet(Sides)
  <2>1. IsFiniteSet({"buy"})
    BY FS_Singleton
  <2>2. Sides = {"buy"} \cup {"sell"}
    BY DEF Sides
  <2> QED
    BY <2>1, <2>2, FS_AddElement
<1>2. IsFiniteSet(Numbers)
  BY FS_Interval
<1>3. IsFiniteSet(Pairs)
  <2>1. IsFiniteSet(Symbols \X Sides)
    BY <1>1, FS_Product
  <2> QED
    BY <1>2, <2>1, FS_Product
<1>4. f \in Surjection(Pairs, Ids)
  <2>1. f \in [Pairs -> Ids]
    BY DEF Ids
  <2>2. \A i \in Ids : \E p \in Pairs : f[p] = i
    <3> TAKE i \in Ids
    <3>1. <<<<i[1], i[2]>>, i[3]>> \in Pairs /\ f[<<<<i[1], i[2]>>, i[3]>>] = i
      BY DEF Ids
    <3> QED
      BY <3>1
  <2> QED
    BY <2>1, <2>2 DEF Surjection
<1>5. IsFiniteSet(Ids)
  BY <1>3, <1>4, FS_Surjection
<1> QED
  BY <1>5, FS_Subset

LEMMA LanesHoldOrders ==
  /\ \A s \in Symbols, side \in Sides :
       Of(s, side) \in SUBSET Ids /\ IsFiniteSet(Of(s, side))
  /\ \A side \in Sides : All(side) \in SUBSET Ids /\ IsFiniteSet(All(side))
BY FinitelyManyOrders DEF Of, All

(* Of a sum one term changes.                                              *)
LEMMA OneTermChanges ==
  ASSUME NEW f, NEW g, NEW S, NEW i, IsFiniteSet(S),
         \A j \in S : f[j] \in Int /\ g[j] \in Int,
         \A j \in S \ {i} : f[j] = g[j]
  PROVE  SumFunctionOnSet(g, S) = SumFunctionOnSet(f, S) + (IF i \in S THEN g[i] - f[i] ELSE 0)
PROOF
<1>1. CASE i \in S
  BY <1>1, SumUpdate
<1>2. CASE i \notin S
  <2>1. SumFunctionOnSet(f, S) = SumFunctionOnSet(g, S)
    BY <1>2, SumSame
  <2>2. SumFunctionOnSet(f, S) \in Int
    BY SumType
  <2> QED
    BY <1>2, <2>1, <2>2
<1> QED
  BY <1>1, <1>2

LEMMA OneOrderChanges ==
  ASSUME NEW S \in SUBSET Ids, NEW i \in Ids,
         orders \in [Ids -> Orders], orders' \in [Ids -> Orders],
         \A j \in Ids \ {i} : orders'[j] = orders[j]
  PROVE  /\ Filled(S)' = Filled(S) + (IF i \in S THEN orders'[i].filled - orders[i].filled ELSE 0)
         /\ MayFill(S)' = MayFill(S) + (IF i \in S THEN Rest(orders'[i]) - Rest(orders[i]) ELSE 0)
PROOF
<1> DEFINE f == [j \in Ids |-> orders[j].filled]
           g == [j \in Ids |-> orders'[j].filled]
           r == [j \in Ids |-> Rest(orders[j])]
           q == [j \in Ids |-> Rest(orders'[j])]
<1>1. IsFiniteSet(S)
  BY FinitelyManyOrders
<1>2. \A j \in S : f[j] \in Int /\ g[j] \in Int /\ r[j] \in Int /\ q[j] \in Int
  BY DEF Orders, Rest
<1>3. \A j \in S \ {i} : f[j] = g[j] /\ r[j] = q[j]
  OBVIOUS
<1>4. /\ f[i] = orders[i].filled /\ g[i] = orders'[i].filled
      /\ r[i] = Rest(orders[i]) /\ q[i] = Rest(orders'[i])
  OBVIOUS
<1>5. /\ Filled(S) = SumFunctionOnSet(f, S) /\ Filled(S)' = SumFunctionOnSet(g, S)
      /\ MayFill(S) = SumFunctionOnSet(r, S) /\ MayFill(S)' = SumFunctionOnSet(q, S)
  BY DEF Filled, MayFill
<1> HIDE DEF f, g, r, q
<1>6. SumFunctionOnSet(g, S) = SumFunctionOnSet(f, S) + (IF i \in S THEN g[i] - f[i] ELSE 0)
  BY <1>1, <1>2, <1>3, OneTermChanges
<1>7. SumFunctionOnSet(q, S) = SumFunctionOnSet(r, S) + (IF i \in S THEN q[i] - r[i] ELSE 0)
  BY <1>1, <1>2, <1>3, OneTermChanges
<1> QED
  BY <1>4, <1>5, <1>6, <1>7

(* What the sums are: natural numbers, while no order fills beyond itself. *)
LEMMA SumsAreNatural ==
  ASSUME TypeOK, LedgerIsBehind
  PROVE  /\ \A S \in SUBSET Ids : Filled(S) \in Nat /\ MayFill(S) \in Nat
         /\ \A s \in Symbols, side \in Sides : Booked(s, side) \in Nat
         /\ Holdings \in [Symbols -> Int]
         /\ FreeCash \in Int
PROOF
<1>1. ASSUME NEW S \in SUBSET Ids PROVE Filled(S) \in Nat /\ MayFill(S) \in Nat
  <2> DEFINE f == [j \in Ids |-> orders[j].filled]
             r == [j \in Ids |-> Rest(orders[j])]
  <2>1. \A j \in S : f[j] \in Nat /\ r[j] \in Nat
    BY DEF TypeOK, LedgerIsBehind, Orders, Rest
  <2>2. Filled(S) = SumFunctionOnSet(f, S) /\ MayFill(S) = SumFunctionOnSet(r, S)
    BY DEF Filled, MayFill
  <2> HIDE DEF f, r
  <2> QED
    BY <2>1, <2>2, FinitelyManyOrders, SumNatural
<1>2. ASSUME NEW s \in Symbols, NEW side \in Sides PROVE Booked(s, side) \in Nat
  <2> DEFINE f == [j \in Ids |-> Counted(ledger[j])]
  <2>1. \A j \in Of(s, side) : f[j] \in Nat
    BY LanesHoldOrders DEF TypeOK, Orders, Counted
  <2>2. Booked(s, side) = SumFunctionOnSet(f, Of(s, side))
    BY DEF Booked
  <2> HIDE DEF f
  <2> QED
    BY <2>1, <2>2, LanesHoldOrders, SumNatural
<1>3. Holdings \in [Symbols -> Int]
  BY <1>1, LanesHoldOrders DEF Holdings, Sides
<1>4. FreeCash \in Int
  BY <1>1, LanesHoldOrders DEF FreeCash, Sides
<1> QED
  BY <1>1, <1>2, <1>3, <1>4

LEMMA OpenIsInteger ==
  ASSUME NEW view \in [Ids -> Orders], NEW s \in Symbols, NEW side \in Sides
  PROVE  Open(view, Of(s, side)) \in Int
PROOF
<1> DEFINE f == [j \in Ids |-> OpenQuantity(view[j])]
<1>1. \A j \in Of(s, side) : f[j] \in Int
  BY LanesHoldOrders DEF Orders, OpenQuantity
<1>2. Open(view, Of(s, side)) = SumFunctionOnSet(f, Of(s, side))
  BY DEF Open
<1> HIDE DEF f
<1> QED
  BY <1>1, <1>2, LanesHoldOrders, SumType

LEMMA DeltaIsInteger ==
  ASSUME NEW view \in [Ids -> Orders], NEW holdings \in [Symbols -> Int], NEW s \in Symbols
  PROVE  Delta(view, holdings, s) \in Int
BY OpenIsInteger DEF Delta, Sides
-----------------------------------------------------------------------------
(* The orders of a symbol and side are numbered without gaps; while the    *)
(* run has not come to them, the next number is free.                      *)
LEMMA NextIsFree ==
  ASSUME TypeOK, Numbered, ViewHolds, Decided,
         NEW s \in Symbols, NEW side \in Sides, Due(s, side)
  PROVE  \E c \in 0 .. MaxRuns - 1 :
           /\ NextId(s, side) = <<s, side, c>> /\ c < runs
           /\ \A n \in 0 .. MaxRuns - 1 : ledger[<<s, side, n>>] = None <=> n >= c
PROOF
<1> DEFINE At(n) == <<s, side, n>>
           Gaps == {n \in 0 .. MaxRuns : n = MaxRuns \/ ledger[At(n)] = None}
<1>1. PICK c \in Gaps : \A n \in Gaps : c <= n
  <2>1. Gaps \in SUBSET Nat /\ MaxRuns \in Gaps
    OBVIOUS
  <2> HIDE DEF Gaps
  <2> QED
    BY <2>1, LeastExists
<1>2. c \in 0 .. MaxRuns
  OBVIOUS
<1>3. ASSUME NEW n \in 0 .. MaxRuns - 1 PROVE ledger[At(n)] = None <=> n >= c
  <2>1. CASE n < c
    BY <1>1, <2>1
  <2>2. CASE n >= c /\ ledger[At(n)] # None
    <3>1. CASE n = c
      BY <1>1, <2>2, <3>1
    <3>2. CASE c < n
      <4>1. c \in 0 .. (n - 1)
        BY <1>2, <3>2
      <4>2. ledger[At(c)] # None
        BY <2>2, <4>1 DEF Numbered
      <4>3. ledger[At(c)] = None
        BY <1>1, <3>2
      <4> QED
        BY <4>2, <4>3
    <3> QED
      BY <1>2, <2>2, <3>1, <3>2
  <2> QED
    BY <1>2, <2>1, <2>2
<1>4. c < runs /\ c < MaxRuns
  <2>1. runs \in 0 .. MaxRuns /\ runs >= 1
    BY DEF TypeOK, Numbered, Decided
  <2>2. CASE c = 0
    BY <2>1, <2>2
  <2>3. CASE c > 0
    <3>1. c - 1 \in 0 .. MaxRuns - 1
      BY <1>2, <2>3
    <3>2. ledger[At(c - 1)] # None
      BY <1>2, <1>3, <3>1
    <3>3. c - 1 < runs - 1
      BY <3>1, <3>2 DEF Numbered
    <3> QED
      BY <1>2, <2>1, <3>3
  <2> QED
    BY <1>2, <2>2, <2>3
<1>5. Cardinality({i \in Of(s, side) : run.view[i] # None}) = c
  <2> DEFINE K == {i \in Of(s, side) : run.view[i] # None}
             f == [n \in 0 .. (c - 1) |-> At(n)]
  <2>1. K = {At(n) : n \in 0 .. (c - 1)}
    <3>1. ASSUME NEW i \in K PROVE i \in {At(n) : n \in 0 .. (c - 1)}
      <4>1. i \in Ids /\ i = At(i[3]) /\ i[3] \in 0 .. MaxRuns - 1
        BY DEF Of, Ids
      <4>2. ledger[i] # None
        BY <3>1 DEF ViewHolds
      <4>3. i[3] < c
        BY <1>2, <1>3, <4>1, <4>2
      <4> QED
        BY <1>2, <4>1, <4>3
    <3>2. ASSUME NEW n \in 0 .. (c - 1) PROVE At(n) \in K
      <4>1. n \in 0 .. MaxRuns - 1 /\ n < c
        BY <1>2
      <4>2. At(n) \in Of(s, side) /\ ledger[At(n)] # None
        BY <1>2, <1>3, <4>1 DEF Of, Ids
      <4> QED
        BY <4>2 DEF ViewHolds
    <3> QED
      BY <3>1, <3>2
  <2>2. f \in Bijection(0 .. (c - 1), K)
    <3> HIDE DEF K
    <3>1. f \in [0 .. (c - 1) -> K]
      BY <2>1
    <3>2. \A n, m \in 0 .. (c - 1) : f[n] = f[m] => n = m
      OBVIOUS
    <3>3. \A k \in K : \E n \in 0 .. (c - 1) : f[n] = k
      BY <2>1
    <3> QED
      BY <3>1, <3>2, <3>3 DEF Bijection, Injection, Surjection, IsInjective
  <2>3. IsFiniteSet(0 .. (c - 1)) /\ Cardinality(0 .. (c - 1)) = c
    <3>1. 0 \in Int /\ c - 1 \in Int /\ (IF 0 > c - 1 THEN 0 ELSE (c - 1) - 0 + 1) = c
      BY <1>2
    <3> HIDE DEF Gaps, K, f
    <3> QED
      BY <3>1, FS_Interval
  <2> HIDE DEF f, K
  <2>4. Cardinality(K) = c
    BY <2>2, <2>3, FS_Bijection DEF ExistsBijection
  <2> QED
    BY <2>4 DEF K
<1>6. NextId(s, side) = At(c) /\ c \in 0 .. MaxRuns - 1
  BY <1>2, <1>4, <1>5 DEF NextId
<1> HIDE DEF Gaps
<1> QED
  BY <1>3, <1>4, <1>6

LEMMA InitiallySound == Init => IndInv
PROOF
<1> SUFFICES ASSUME Init PROVE IndInv
  OBVIOUS
<1> USE DEF Init, Idle, None
<1>1. TypeOK
  <2>1. [i \in Ids |-> None] \in [Ids -> Orders]
    BY DEF Orders
  <2>2. 0 \in 0 .. MaxRuns
    OBVIOUS
  <2>3. run \in [step : Steps, phase : {"open", "chase"}, view : [Ids -> Orders],
                 holdings : [Symbols -> Nat], buys : SUBSET Symbols,
                 todo : SUBSET Symbols, budget : Int, available : Int]
    BY <2>1 DEF Steps
  <2> QED
    BY <2>1, <2>2, <2>3 DEF TypeOK
<1>2. LedgerIsBehind
  BY DEF LedgerIsBehind
<1>3. Numbered /\ ViewHolds /\ OneIsOpen
  BY LanesHoldOrders DEF Numbered, ViewHolds, OneIsOpen, Due, Decided, Of, Ids
<1>4. \A S \in SUBSET Ids : Filled(S) = 0 /\ MayFill(S) = 0
  <2> TAKE S \in SUBSET Ids
  <2> DEFINE f == [j \in Ids |-> orders[j].filled]
             r == [j \in Ids |-> Rest(orders[j])]
  <2>1. \A j \in S : f[j] = 0 /\ r[j] = 0
    BY DEF Rest
  <2>2. Filled(S) = SumFunctionOnSet(f, S) /\ MayFill(S) = SumFunctionOnSet(r, S)
    BY DEF Filled, MayFill
  <2> HIDE DEF f, r
  <2> QED
    BY <2>1, <2>2, FinitelyManyOrders, SumOfNothing
<1>5. \A s \in Symbols, side \in Sides : Booked(s, side) = 0
  <2> TAKE s \in Symbols, side \in Sides
  <2> DEFINE f == [j \in Ids |-> Counted(ledger[j])]
  <2>1. \A j \in Of(s, side) : f[j] = 0
    BY LanesHoldOrders DEF Counted
  <2>2. Booked(s, side) = SumFunctionOnSet(f, Of(s, side))
    BY DEF Booked
  <2> HIDE DEF f
  <2> QED
    BY <2>1, <2>2, LanesHoldOrders, SumOfNothing
<1>6. InPlan
  <2>1. \A s \in Symbols, side \in Sides : 0 <= Planned(s, side)
    BY LargestOfTwo DEF Planned
  <2> QED
    BY <1>5, <2>1 DEF InPlan, Decided
<1>7. SharesAreHeld
  BY <1>4, LanesHoldOrders DEF SharesAreHeld, Holdings, Sides
<1>8. CashIsLeft
  BY <1>4, LanesHoldOrders DEF CashIsLeft, FreeCash, Sides
<1> QED
  BY <1>1, <1>2, <1>3, <1>6, <1>7, <1>8 DEF IndInv
-----------------------------------------------------------------------------
(* What depends on the orders, or on the ledger, alone.                    *)
LEMMA SameOrders ==
  ASSUME UNCHANGED orders
  PROVE  /\ \A S : Filled(S)' = Filled(S) /\ MayFill(S)' = MayFill(S)
         /\ Holdings' = Holdings /\ FreeCash' = FreeCash
PROOF
<1>1. \A S : Filled(S)' = Filled(S) /\ MayFill(S)' = MayFill(S)
  BY DEF Filled, MayFill
<1> QED
  BY <1>1 DEF Holdings, FreeCash

LEMMA SameLedger ==
  ASSUME UNCHANGED ledger
  PROVE  \A s, side : Booked(s, side)' = Booked(s, side)
BY DEF Booked

LEMMA OnlyTheRunMoves ==
  ASSUME IndInv, UNCHANGED <<orders, ledger>>
  PROVE  LedgerIsBehind' /\ OneIsOpen' /\ SharesAreHeld'
PROOF
<1>1. LedgerIsBehind'
  BY DEF IndInv, LedgerIsBehind
<1>2. OneIsOpen'
  BY DEF IndInv, OneIsOpen
<1>3. SharesAreHeld'
  BY SameOrders DEF IndInv, SharesAreHeld
<1> QED
  BY <1>1, <1>2, <1>3

(* The ledger counts no more than before, but for one order.               *)
LEMMA CountsNoMore ==
  ASSUME NEW s \in Symbols, NEW side \in Sides, NEW i,
         ledger \in [Ids -> Orders], ledger' \in [Ids -> Orders],
         \A j \in Ids \ {i} : Counted(ledger'[j]) <= Counted(ledger[j])
  PROVE  Booked(s, side)' <= Booked(s, side)
           + (IF i \in Of(s, side) THEN Counted(ledger'[i]) - Counted(ledger[i]) ELSE 0)
PROOF
<1> DEFINE S == Of(s, side)
           f == [j \in Ids |-> Counted(ledger[j])]
           g == [j \in Ids |-> Counted(ledger'[j])]
           h == [j \in Ids |-> IF j = i THEN g[j] ELSE f[j]]
<1>1. S \in SUBSET Ids /\ IsFiniteSet(S)
  BY LanesHoldOrders
<1>2. \A j \in S : f[j] \in Int /\ g[j] \in Int /\ h[j] \in Int /\ g[j] <= h[j]
  BY <1>1 DEF Orders, Counted
<1>3. \A j \in S \ {i} : f[j] = h[j]
  BY <1>1
<1>4. Booked(s, side) = SumFunctionOnSet(f, S) /\ Booked(s, side)' = SumFunctionOnSet(g, S)
  BY DEF Booked
<1>5. i \in S => f[i] = Counted(ledger[i]) /\ h[i] = Counted(ledger'[i])
  BY <1>1
<1> HIDE DEF S, f, g, h
<1>6. SumFunctionOnSet(h, S) = SumFunctionOnSet(f, S) + (IF i \in S THEN h[i] - f[i] ELSE 0)
  BY <1>1, <1>2, <1>3, OneTermChanges
<1>7. SumFunctionOnSet(g, S) <= SumFunctionOnSet(h, S)
  BY <1>1, <1>2, SumMonotone
<1>8. SumFunctionOnSet(f, S) \in Int /\ SumFunctionOnSet(g, S) \in Int /\ SumFunctionOnSet(h, S) \in Int
  BY <1>1, <1>2, SumType
<1>9. CASE i \in S
  BY <1>2, <1>4, <1>5, <1>6, <1>7, <1>8, <1>9 DEF S
<1>10. CASE i \notin S
  BY <1>4, <1>6, <1>7, <1>8, <1>10 DEF S
<1> QED
  BY <1>9, <1>10

LEMMA CountsLess ==
  ASSUME NEW s \in Symbols, NEW side \in Sides,
         ledger \in [Ids -> Orders], ledger' \in [Ids -> Orders],
         \A j \in Ids : Counted(ledger'[j]) <= Counted(ledger[j])
  PROVE  Booked(s, side)' <= Booked(s, side)
PROOF
<1>1. PICK i : i \notin Of(s, side)
  <2>1. {x \in Of(s, side) : x \notin x} \notin Of(s, side)
    OBVIOUS
  <2> QED
    BY <2>1
<1>2. Booked(s, side)' <= Booked(s, side) + 0
  BY <1>1, CountsNoMore
<1>3. Booked(s, side) \in Int /\ Booked(s, side)' \in Int
  <2> DEFINE f == [j \in Ids |-> Counted(ledger[j])]
             g == [j \in Ids |-> Counted(ledger'[j])]
  <2>1. \A j \in Of(s, side) : f[j] \in Int /\ g[j] \in Int
    BY LanesHoldOrders DEF Orders, Counted
  <2>2. /\ Booked(s, side) = SumFunctionOnSet(f, Of(s, side))
        /\ Booked(s, side)' = SumFunctionOnSet(g, Of(s, side))
    BY DEF Booked
  <2> HIDE DEF f, g
  <2> QED
    BY <2>1, <2>2, LanesHoldOrders, SumType
<1> QED
  BY <1>2, <1>3

(* The ledger after a query of the broker.                                 *)
LEMMA CaughtUp ==
  ASSUME TypeOK, LedgerIsBehind
  PROVE  /\ Recovered \in [Ids -> Orders]
         /\ \A i \in Ids :
              /\ Recovered[i] = None <=> ledger[i] = None
              /\ Recovered[i].state = "none" => Recovered[i] = None
              /\ Recovered[i].filled <= orders[i].filled
              /\ orders[i] # None => Recovered[i] = orders[i]
              /\ Recovered[i].state = "open" => orders[i] # None
              /\ Recovered[i].state = "done" => orders[i] = Recovered[i]
              /\ Counted(Recovered[i]) <= Counted(ledger[i])
              /\ orders[i] = None => Counted(Recovered[i]) = Counted(ledger[i])
BY DEF TypeOK, LedgerIsBehind, Recovered, Orders, Counted, None

LEMMA WantsIsInteger ==
  ASSUME TypeOK, NEW s \in Symbols, NEW side \in Sides
  PROVE  Wants(s, side) \in Int /\ Planned(s, side) \in Nat
PROOF
<1>1. Delta(run.view, run.holdings, s) \in Int
  BY DeltaIsInteger DEF TypeOK
<1>2. Planned(s, side) \in Nat
  BY LargestOfTwo DEF Planned
<1> QED
  BY <1>1, <1>2 DEF Wants
-----------------------------------------------------------------------------
(* Steps of the run that touch neither orders nor ledger.                  *)
LEMMA ExecuteKeeps ==
  ASSUME IndInv, NEW phase \in {"open", "chase"}, Execute(phase)
  PROVE  IndInv'
PROOF
<1> USE DEF IndInv, Execute
<1>1. run'.step = "recover" /\ runs' = runs + 1
  BY DEF Idle
<1>2. TypeOK'
  <2>1. run' \in [step : Steps, phase : {"open", "chase"}, view : [Ids -> Orders],
                 holdings : [Symbols -> Nat], buys : SUBSET Symbols,
                 todo : SUBSET Symbols, budget : Int, available : Int]
    <3>1. Idle \in [step : Steps, phase : {"open", "chase"}, view : [Ids -> Orders],
                    holdings : [Symbols -> Nat], buys : SUBSET Symbols,
                    todo : SUBSET Symbols, budget : Int, available : Int]
      BY DEF Steps, Orders, None, Idle
    <3>2. run' = [Idle EXCEPT !.step = "recover", !.phase = phase]
      BY DEF Execute
    <3> QED
      BY <3>1, <3>2 DEF Steps
  <2> QED
    BY <1>1, <2>1 DEF TypeOK
<1>3. LedgerIsBehind' /\ OneIsOpen' /\ SharesAreHeld'
  BY OnlyTheRunMoves
<1>4. Numbered'
  BY <1>1 DEF Numbered, TypeOK
<1>5. ViewHolds'
  BY <1>1 DEF ViewHolds, Decided
<1>6. InPlan'
  BY <1>1, SameLedger DEF InPlan, Decided, Planned
<1>7. CashIsLeft'
  BY <1>1, SameOrders DEF CashIsLeft
<1> QED
  BY <1>2, <1>3, <1>4, <1>5, <1>6, <1>7

LEMMA EndKeeps == IndInv /\ End => IndInv'
PROOF
<1> SUFFICES ASSUME IndInv, End PROVE IndInv'
  OBVIOUS
<1> USE DEF IndInv, End, Idle
<1>1. run'.step = "idle"
  OBVIOUS
<1>2. TypeOK'
  <2>1. run' \in [step : Steps, phase : {"open", "chase"}, view : [Ids -> Orders],
                 holdings : [Symbols -> Nat], buys : SUBSET Symbols,
                 todo : SUBSET Symbols, budget : Int, available : Int]
    BY DEF Steps, Orders, None
  <2> QED
    BY <1>1, <2>1 DEF TypeOK
<1>3. LedgerIsBehind' /\ OneIsOpen' /\ SharesAreHeld'
  BY OnlyTheRunMoves
<1>4. Numbered'
  BY <1>1 DEF Numbered, Due
<1>5. ViewHolds'
  BY <1>1 DEF ViewHolds, Decided
<1>6. InPlan'
  BY <1>1, SameLedger DEF InPlan, Decided, Planned
<1>7. CashIsLeft'
  BY <1>1, SameOrders DEF CashIsLeft
<1> QED
  BY <1>2, <1>3, <1>4, <1>5, <1>6, <1>7

LEMMA CancelledKeeps == IndInv /\ Cancelled => IndInv'
PROOF
<1> SUFFICES ASSUME IndInv, Cancelled PROVE IndInv'
  OBVIOUS
<1> USE DEF IndInv, Cancelled
<1>1. run' = [run EXCEPT !.step = "recover_again"] /\ run.step = "cancels" /\ run.todo = {}
  OBVIOUS
<1>2. TypeOK'
  BY <1>1 DEF TypeOK, Steps
<1>3. LedgerIsBehind' /\ OneIsOpen' /\ SharesAreHeld'
  BY OnlyTheRunMoves
<1>d. run'.step = "recover_again"
  BY <1>1 DEF TypeOK
<1>4. Numbered'
  BY <1>1, <1>d DEF Numbered, Due
<1>5. ViewHolds'
  BY <1>d DEF ViewHolds, Decided
<1>6. InPlan'
  BY <1>d, SameLedger DEF InPlan, Decided, Planned
<1>7. CashIsLeft'
  BY <1>d, SameOrders DEF CashIsLeft
<1> QED
  BY <1>2, <1>3, <1>4, <1>5, <1>6, <1>7

LEMMA SellsDoneKeeps == IndInv /\ SellsDone => IndInv'
PROOF
<1> SUFFICES ASSUME IndInv, SellsDone PROVE IndInv'
  OBVIOUS
<1> USE DEF IndInv, SellsDone
<1>1. run' = [run EXCEPT !.step = "recover_cash"] /\ run.step = "sells"
  OBVIOUS
<1>2. TypeOK'
  BY <1>1 DEF TypeOK, Steps
<1>3. LedgerIsBehind' /\ OneIsOpen' /\ SharesAreHeld'
  BY OnlyTheRunMoves
<1>d. /\ run'.step = "recover_cash" /\ run'.view = run.view
      /\ run'.holdings = run.holdings /\ run'.buys = run.buys
  BY <1>1 DEF TypeOK
<1>e. \A s \in Symbols, side \in Sides : Due(s, side)' => Due(s, side)
  BY <1>1, <1>d DEF Due
<1>4. Numbered'
  BY <1>1, <1>d, <1>e DEF Numbered
<1>5. ViewHolds'
  BY <1>1, <1>d, <1>e DEF ViewHolds, Decided
<1>6. InPlan'
  BY <1>1, <1>d, <1>e, SameLedger DEF InPlan, Decided, Planned, Wants
<1>7. CashIsLeft'
  BY <1>d, SameOrders DEF CashIsLeft
<1> QED
  BY <1>2, <1>3, <1>4, <1>5, <1>6, <1>7

LEMMA ReadCashKeeps == IndInv /\ ReadCash => IndInv'
PROOF
<1> SUFFICES ASSUME IndInv, ReadCash PROVE IndInv'
  OBVIOUS
<1> USE DEF IndInv, ReadCash
<1>1. /\ run' = [run EXCEPT !.step = "buys", !.todo = run.buys, !.available = FreeCash - Floor]
      /\ run.step = "account_cash"
  OBVIOUS
<1>0. FreeCash \in Int
  BY SumsAreNatural
<1>2. TypeOK'
  <2>1. run' \in [step : Steps, phase : {"open", "chase"}, view : [Ids -> Orders],
                 holdings : [Symbols -> Nat], buys : SUBSET Symbols,
                 todo : SUBSET Symbols, budget : Int, available : Int]
    <3>1. FreeCash - Floor \in Int
      BY <1>0
    <3>2. run.buys \in SUBSET Symbols
      BY DEF TypeOK
    <3> QED
      BY <1>1, <3>1, <3>2 DEF TypeOK, Steps
  <2> QED
    BY <1>1, <2>1 DEF TypeOK
<1>3. LedgerIsBehind' /\ OneIsOpen' /\ SharesAreHeld'
  BY OnlyTheRunMoves
<1>d. /\ run'.step = "buys" /\ run'.view = run.view /\ run'.holdings = run.holdings
      /\ run'.todo = run.buys /\ run'.available = FreeCash - Floor
  BY <1>1 DEF TypeOK
<1>e. \A s \in Symbols, side \in Sides : Due(s, side)' => Due(s, side)
  BY <1>1, <1>d DEF Due
<1>4. Numbered'
  BY <1>1, <1>d, <1>e DEF Numbered
<1>5. ViewHolds'
  BY <1>1, <1>d, <1>e DEF ViewHolds, Decided
<1>6. InPlan'
  <2> SUFFICES ASSUME ~torn, NEW s \in Symbols, NEW side \in Sides
               PROVE  /\ Booked(s, side)' <= Planned(s, side)'
                      /\ Decided' /\ Due(s, side)' =>
                            Booked(s, side)' + Wants(s, side)' <= Planned(s, side)'
    BY DEF InPlan
  <2>1. /\ Wants(s, side)' = Wants(s, side) /\ Planned(s, side)' = Planned(s, side)
        /\ Booked(s, side)' = Booked(s, side)
    BY <1>d, SameLedger DEF Wants, Planned
  <2>2. /\ Booked(s, side) <= Planned(s, side)
        /\ Decided /\ Due(s, side) => Booked(s, side) + Wants(s, side) <= Planned(s, side)
    BY DEF InPlan
  <2>3. Decided /\ (Due(s, side)' => Due(s, side))
    BY <1>1, <1>e DEF Decided
  <2> QED
    BY ONLY <2>1, <2>2, <2>3
<1>7. CashIsLeft'
  BY <1>0, <1>d, SameOrders DEF CashIsLeft
<1> QED
  BY <1>2, <1>3, <1>4, <1>5, <1>6, <1>7
-----------------------------------------------------------------------------
(* The placing: what holdings and ledger count together is what the ledger *)
(* counts, if the account is not newer than the ledger.                    *)
LEMMA AccountAndLedgerAgree ==
  ASSUME TypeOK, LedgerIsBehind, \A i \in Ids : Recovered[i].filled = ledger[i].filled,
         NEW s \in Symbols, NEW side \in Sides
  PROVE  Filled(Of(s, side)) + Open(ledger, Of(s, side)) = Booked(s, side)
PROOF
<1> DEFINE S == Of(s, side)
           f == [j \in Ids |-> Counted(ledger[j])]
           g == [j \in Ids |-> OpenQuantity(ledger[j])]
           h == [j \in Ids |-> orders[j].filled]
<1>1. S \in SUBSET Ids /\ IsFiniteSet(S)
  BY LanesHoldOrders
<1>2. ASSUME NEW j \in S PROVE f[j] \in Int /\ g[j] \in Int /\ h[j] = f[j] - g[j]
  <2>1. j \in Ids
    BY <1>1
  <2>2. f[j] = Counted(ledger[j]) /\ g[j] = OpenQuantity(ledger[j]) /\ h[j] = orders[j].filled
    BY <2>1
  <2>3. ledger[j] \in Orders /\ orders[j] \in Orders
    BY <2>1 DEF TypeOK
  <2>4. orders[j].filled = ledger[j].filled
    BY <2>1, <2>3 DEF LedgerIsBehind, Recovered, None, Orders
  <2> QED
    BY <2>2, <2>3, <2>4 DEF Counted, OpenQuantity, Orders
<1>3. Booked(s, side) = SumFunctionOnSet(f, S) /\ Open(ledger, S) = SumFunctionOnSet(g, S)
      /\ Filled(S) = SumFunctionOnSet(h, S)
  BY DEF Booked, Open, Filled
<1> HIDE DEF S, f, g, h
<1>4. SumFunctionOnSet(h, S) = SumFunctionOnSet(f, S) - SumFunctionOnSet(g, S)
  BY <1>1, <1>2, SumMinus
<1>5. SumFunctionOnSet(f, S) \in Int /\ SumFunctionOnSet(g, S) \in Int
  BY <1>1, <1>2, SumType
<1> QED
  BY <1>3, <1>4, <1>5 DEF S

LEMMA HoldingsAreNatural ==
  ASSUME TypeOK, LedgerIsBehind, SharesAreHeld
  PROVE  Holdings \in [Symbols -> Nat]
PROOF
<1>1. \A s \in Symbols : MayFill(Of(s, "sell")) \in Nat /\ Holdings[s] \in Int
  BY SumsAreNatural, LanesHoldOrders DEF Sides
<1>2. \A s \in Symbols : Holdings[s] \in Nat
  BY <1>1 DEF SharesAreHeld
<1>3. Holdings \in [Symbols -> Int]
  BY SumsAreNatural
<1> QED
  BY <1>2, <1>3

LEMMA ReadAccountKeeps == IndInv /\ ReadAccount => IndInv'
PROOF
<1> SUFFICES ASSUME IndInv, ReadAccount PROVE IndInv'
  OBVIOUS
<1> USE DEF IndInv
<1>1. LedgerIsBehind' /\ OneIsOpen' /\ SharesAreHeld'
  BY OnlyTheRunMoves DEF ReadAccount
<1>2. \A s \in Symbols, side \in Sides : Due(s, side)
  BY DEF Due, ReadAccount
<1>3. runs >= 1 /\ runs \in 0 .. MaxRuns /\ runs' = runs /\ ledger' = ledger /\ orders' = orders
  BY DEF ReadAccount, Numbered, TypeOK
<1>4. Numbered'
  BY <1>2, <1>3 DEF Numbered
<1>5. CASE run.step = "account" /\ run.phase = "chase"
  <2>1. run' = [run EXCEPT !.step = "cancels", !.todo = {i \in Ids : ledger[i].state = "open"}]
    BY <1>5 DEF ReadAccount
  <2>2. TypeOK'
    <3>1. run' \in [step : Steps, phase : {"open", "chase"}, view : [Ids -> Orders],
                   holdings : [Symbols -> Nat], buys : SUBSET Symbols,
                   todo : SUBSET Ids, budget : Int, available : Int]
      BY <2>1 DEF TypeOK, Steps
    <3>2. run'.step = "cancels"
      BY <2>1 DEF TypeOK
    <3> QED
      BY <3>1, <3>2 DEF TypeOK, ReadAccount
  <2>3. run'.step = "cancels" /\ run'.todo = {i \in Ids : ledger[i].state = "open"}
    BY <2>1 DEF TypeOK
  <2>4. ViewHolds'
    BY <1>3, <2>3 DEF ViewHolds, Decided, LedgerIsBehind
  <2>5. InPlan'
    <3>1. torn => torn'
      BY DEF ReadAccount, TypeOK
    <3>2. \A s \in Symbols, side \in Sides : Booked(s, side)' = Booked(s, side)
      BY <1>3, SameLedger
    <3> QED
      BY <2>3, <3>1, <3>2 DEF InPlan, Decided, Planned
  <2>6. CashIsLeft'
    BY <2>3, SameOrders DEF CashIsLeft, ReadAccount
  <2> QED
    BY <1>1, <1>4, <2>2, <2>4, <2>5, <2>6
<1>6. CASE ~(run.step = "account" /\ run.phase = "chase")
  <2>1. run' = Placing(ledger, Holdings)
    BY <1>6 DEF ReadAccount
  <2>2. Holdings \in [Symbols -> Nat]
    BY HoldingsAreNatural
  <2>3. MaxOrders - Cardinality({i \in Ids : ledger[i] # None}) \in Int
    <3>1. IsFiniteSet({i \in Ids : ledger[i] # None})
      BY FinitelyManyOrders
    <3> QED
      BY <3>1, FS_CardinalityType
  <2>4. /\ run' \in [step : Steps, phase : {"open", "chase"}, view : [Ids -> Orders],
                   holdings : [Symbols -> Nat], buys : SUBSET Symbols,
                   todo : SUBSET Symbols, budget : Int, available : Int]
        /\ run'.step = "sells" /\ run'.view = ledger /\ run'.holdings = Holdings
        /\ run'.todo = {s \in Symbols : Delta(ledger, Holdings, s) < 0}
        /\ run'.buys = {s \in Symbols : Delta(ledger, Holdings, s) > 0}
    <3> DEFINE todo == {s \in Symbols : Delta(ledger, Holdings, s) < 0}
               buys == {s \in Symbols : Delta(ledger, Holdings, s) > 0}
               budget == MaxOrders - Cardinality({i \in Ids : ledger[i] # None})
    <3>1. run' = [run EXCEPT !.step = "sells", !.view = ledger, !.holdings = Holdings,
                             !.todo = todo, !.buys = buys, !.budget = budget]
      BY <2>1 DEF Placing
    <3>2. todo \in SUBSET Symbols /\ buys \in SUBSET Symbols /\ budget \in Int
      BY <2>3
    <3> HIDE DEF todo, buys, budget
    <3>3. /\ run' \in [step : Steps, phase : {"open", "chase"}, view : [Ids -> Orders],
                     holdings : [Symbols -> Nat], buys : SUBSET Symbols,
                     todo : SUBSET Symbols, budget : Int, available : Int]
          /\ run'.step = "sells" /\ run'.view = ledger /\ run'.holdings = Holdings
          /\ run'.todo = todo /\ run'.buys = buys
      BY <2>2, <3>1, <3>2 DEF TypeOK, Steps
    <3> QED
      BY <3>3 DEF todo, buys
  <2>5. TypeOK'
    BY <2>4 DEF TypeOK, ReadAccount
  <2>6. ViewHolds'
    <3>1. \A i \in Ids : orders[i].state = "open" => ledger[i].state \in Living
      BY DEF LedgerIsBehind, TypeOK, Orders, Living, None
    <3> QED
      BY <1>3, <2>4, <3>1, LanesHoldOrders DEF ViewHolds
  <2>7. InPlan'
    <3> SUFFICES ASSUME ~torn',  NEW s \in Symbols, NEW side \in Sides
                 PROVE  /\ Booked(s, side)' <= Planned(s, side)
                        /\ Due(s, side)' => Booked(s, side)' + Wants(s, side)' <= Planned(s, side)
      BY DEF InPlan, Planned
    <3>1. ~torn /\ \A i \in Ids : Recovered[i].filled = ledger[i].filled
      BY DEF ReadAccount, TypeOK
    <3>2. /\ Booked(s, "buy") \in Nat /\ Booked(s, "sell") \in Nat
          /\ Booked(s, "buy") <= Planned(s, "buy") /\ Booked(s, "sell") <= Planned(s, "sell")
      BY <3>1, SumsAreNatural DEF InPlan, Sides
    <3>3. /\ Booked(s, "buy")' = Booked(s, "buy") /\ Booked(s, "sell")' = Booked(s, "sell")
      BY <1>3, SameLedger
    <3>4. Start[s] \in Nat /\ Target[s] \in Nat
      OBVIOUS
    <3>5. Delta(ledger, Holdings, s) = Target[s] - (Start[s] + Booked(s, "buy") - Booked(s, "sell"))
      <4>1. /\ Filled(Of(s, "buy")) + Open(ledger, Of(s, "buy")) = Booked(s, "buy")
            /\ Filled(Of(s, "sell")) + Open(ledger, Of(s, "sell")) = Booked(s, "sell")
        BY <3>1, AccountAndLedgerAgree DEF Sides
      <4>2. /\ Filled(Of(s, "buy")) \in Int /\ Filled(Of(s, "sell")) \in Int
            /\ Open(ledger, Of(s, "buy")) \in Int /\ Open(ledger, Of(s, "sell")) \in Int
        BY SumsAreNatural, LanesHoldOrders, OpenIsInteger DEF Sides, TypeOK
      <4>3. Holdings[s] = Start[s] + Filled(Of(s, "buy")) - Filled(Of(s, "sell"))
        BY DEF Holdings
      <4> QED
        BY <3>2, <3>4, <4>1, <4>2, <4>3 DEF Delta
    <3>6. /\ Planned(s, "buy") = IF Target[s] >= Start[s] THEN Target[s] - Start[s] ELSE 0
          /\ Planned(s, "sell") = IF Start[s] >= Target[s] THEN Start[s] - Target[s] ELSE 0
      <4>1. Target[s] - Start[s] \in Int /\ Start[s] - Target[s] \in Int
        BY <3>4
      <4> QED
        BY <3>4, <4>1, LargestOfTwo DEF Planned
    <3>7. Wants(s, side)' = IF side = "buy" THEN Delta(ledger, Holdings, s)
                                            ELSE -Delta(ledger, Holdings, s)
      BY <2>4 DEF Wants
    <3>8. Due(s, side)' => IF side = "buy" THEN Delta(ledger, Holdings, s) > 0
                                           ELSE Delta(ledger, Holdings, s) < 0
      BY <2>4 DEF Due, Sides
    <3>9. Delta(ledger, Holdings, s) \in Int
      BY <3>2, <3>4, <3>5
    <3>10. CASE side = "buy"
      BY <3>2, <3>3, <3>4, <3>5, <3>6, <3>7, <3>8, <3>9, <3>10
    <3>11. CASE side = "sell"
      <4>1. -Delta(ledger, Holdings, s) = (Start[s] + Booked(s, "buy") - Booked(s, "sell")) - Target[s]
        BY <3>2, <3>4, <3>5
      <4> QED
        BY <3>2, <3>3, <3>4, <3>5, <3>6, <3>7, <3>8, <3>11, <4>1
    <3> QED
      BY <3>10, <3>11 DEF Sides
  <2>8. CashIsLeft'
    BY <2>4, SameOrders DEF CashIsLeft, ReadAccount
  <2> QED
    BY <1>1, <1>4, <2>5, <2>6, <2>7, <2>8
<1> QED
  BY <1>5, <1>6
-----------------------------------------------------------------------------
(* The ledger catches up: nothing it counts grows.                         *)
LEMMA CatchingUpKeeps ==
  ASSUME TypeOK, LedgerIsBehind, UNCHANGED orders, ledger' = Recovered
  PROVE  /\ LedgerIsBehind'
         /\ \A i \in Ids : ledger'[i] = None <=> ledger[i] = None
         /\ \A s \in Symbols, side \in Sides :
              Booked(s, side)' <= Booked(s, side) /\ Booked(s, side)' \in Int
PROOF
<1>1. Recovered \in [Ids -> Orders]
  BY CaughtUp
<1>2. LedgerIsBehind'
  BY DEF TypeOK, LedgerIsBehind, Recovered, Orders, None
<1>3. \A i \in Ids : ledger'[i] = None <=> ledger[i] = None
  BY CaughtUp
<1>4. ASSUME NEW s \in Symbols, NEW side \in Sides
      PROVE  Booked(s, side)' <= Booked(s, side)
  <2>1. \A j \in Ids : Counted(ledger'[j]) <= Counted(ledger[j])
    BY CaughtUp
  <2>2. ledger \in [Ids -> Orders] /\ ledger' \in [Ids -> Orders]
    BY <1>1 DEF TypeOK
  <2> QED
    BY <2>1, <2>2, CountsLess
<1>5. ASSUME NEW s \in Symbols, NEW side \in Sides PROVE Booked(s, side)' \in Int
  <2> DEFINE g == [j \in Ids |-> Counted(ledger'[j])]
  <2>1. \A j \in Of(s, side) : g[j] \in Int
    BY <1>1, LanesHoldOrders DEF Orders, Counted
  <2>2. Booked(s, side)' = SumFunctionOnSet(g, Of(s, side))
    BY DEF Booked
  <2> HIDE DEF g
  <2> QED
    BY <2>1, <2>2, LanesHoldOrders, SumType
<1> QED
  BY <1>2, <1>3, <1>4, <1>5
LEMMA RecoverKeeps == IndInv /\ Recover => IndInv'
PROOF
<1> SUFFICES ASSUME IndInv, Recover PROVE IndInv'
  OBVIOUS
<1> USE DEF IndInv
<1>1. /\ ledger' = Recovered /\ orders' = orders /\ runs' = runs /\ torn' = torn /\ dark' = dark
      /\ asked' = asked
  BY DEF Recover
<1>2. /\ LedgerIsBehind' /\ \A i \in Ids : ledger'[i] = None <=> ledger[i] = None
      /\ \A s \in Symbols, side \in Sides :
           Booked(s, side)' <= Booked(s, side) /\ Booked(s, side)' \in Int
  BY <1>1, CatchingUpKeeps
<1>3. \A s \in Symbols, side \in Sides :
         /\ Booked(s, side) \in Int /\ Wants(s, side) \in Int /\ Planned(s, side) \in Int
         /\ Booked(s, side)' <= Planned(s, side)' \/ torn
  <2> TAKE s \in Symbols, side \in Sides
  <2>1. Booked(s, side) \in Int /\ Wants(s, side) \in Int /\ Planned(s, side) \in Int
    BY SumsAreNatural, WantsIsInteger
  <2>2. Planned(s, side)' = Planned(s, side)
    BY DEF Planned
  <2> QED
    BY <1>2, <2>1, <2>2 DEF InPlan
<1>4. OneIsOpen' /\ SharesAreHeld'
  <2>1. OneIsOpen'
    BY <1>1 DEF OneIsOpen
  <2> QED
    BY <1>1, <2>1, SameOrders DEF SharesAreHeld
<1>i. \A s \in Symbols, side \in Sides, n \in 0..(MaxRuns - 1) : <<s, side, n>> \in Ids
  BY DEF Ids
<1>r. Recovered \in [Ids -> Orders]
  BY CaughtUp
<1>5. CASE run' = Idle
  <2>1. run'.step = "idle"
    BY <1>5 DEF Idle
  <2>2. TypeOK'
    <3>1. run' \in [step : Steps, phase : {"open", "chase"}, view : [Ids -> Orders],
                   holdings : [Symbols -> Nat], buys : SUBSET Symbols,
                   todo : SUBSET Symbols, budget : Int, available : Int]
      BY <1>5 DEF Steps, Orders, None, Idle
    <3> QED
      BY <1>1, <1>r, <2>1, <3>1 DEF TypeOK
  <2>3. Numbered' /\ ViewHolds'
    <3>1. Numbered'
      <4> SUFFICES ASSUME NEW s \in Symbols, NEW side \in Sides, NEW n \in 0..(MaxRuns - 1),
                          ledger'[<<s, side, n>>] # None
                   PROVE  n < runs /\ \A m \in 0..(n - 1) : ledger'[<<s, side, m>>] # None
        BY <1>1, <2>1 DEF Numbered, Due
      <4>1. n < runs /\ \A m \in 0..(n - 1) : ledger[<<s, side, m>>] # None
        BY <1>2, <1>i DEF Numbered
      <4>2. \A m \in 0..(n - 1) : m \in 0..(MaxRuns - 1)
        OBVIOUS
      <4> QED
        BY <1>2, <1>i, <4>1, <4>2
    <3> QED
      BY <2>1, <3>1 DEF ViewHolds, Decided
  <2>4. InPlan' /\ CashIsLeft'
    <3>1. InPlan'
      BY <1>1, <1>3, <2>1 DEF InPlan, Decided
    <3> QED
      BY <1>1, <2>1, <3>1, SameOrders DEF CashIsLeft
  <2> QED
    BY <1>2, <1>4, <2>2, <2>3, <2>4
<1>6. CASE run' # Idle
  <2>1. PICK step \in {"account", "account_again", "account_cash"} :
          /\ run' = [run EXCEPT !.step = step]
          /\ step = "account_cash" <=> run.step = "recover_cash"
    BY <1>6 DEF Recover
  <2>2. run.step \in {"recover", "recover_again", "recover_cash"}
    BY DEF Recover
  <2>3. /\ run'.step = step /\ run'.view = run.view /\ run'.holdings = run.holdings
        /\ run'.todo = run.todo /\ run'.buys = run.buys
    BY <2>1 DEF TypeOK
  <2>4. \A s \in Symbols, side \in Sides : Due(s, side)' => Due(s, side)
    BY <2>1, <2>2, <2>3 DEF Due
  <2>5. TypeOK'
    <3>1. run' \in [step : Steps, phase : {"open", "chase"}, view : [Ids -> Orders],
                   holdings : [Symbols -> Nat], buys : SUBSET Symbols,
                   todo : SUBSET Symbols, budget : Int, available : Int]
      BY <2>1, <2>2 DEF TypeOK, Steps
    <3> QED
      BY <1>1, <1>r, <2>3, <3>1 DEF TypeOK
  <2>6. Numbered'
    <3>1. run.step # "idle" /\ runs >= 1
      BY <2>2 DEF Numbered
    <3> SUFFICES ASSUME NEW s \in Symbols, NEW side \in Sides, NEW n \in 0..(MaxRuns - 1),
                        ledger'[<<s, side, n>>] # None
                 PROVE  /\ n < runs /\ (Due(s, side)' => n < runs - 1)
                        /\ \A m \in 0..(n - 1) : ledger'[<<s, side, m>>] # None
      BY <1>1, <3>1 DEF Numbered
    <3>2. /\ n < runs /\ (Due(s, side) => n < runs - 1)
          /\ \A m \in 0..(n - 1) : ledger[<<s, side, m>>] # None
      BY <1>2, <1>i DEF Numbered
    <3>3. \A m \in 0..(n - 1) : m \in 0..(MaxRuns - 1)
      OBVIOUS
    <3> QED
      BY <1>2, <1>i, <2>4, <3>2, <3>3
  <2>7. ViewHolds'
    <3>1. run'.step # "cancels" /\ (Decided' => Decided)
      BY <2>1, <2>2, <2>3 DEF Decided
    <3> QED
      BY <1>1, <1>2, <2>3, <2>4, <3>1, LanesHoldOrders DEF ViewHolds
  <2>8. InPlan'
    <3> SUFFICES ASSUME ~torn, NEW s \in Symbols, NEW side \in Sides
                 PROVE  /\ Booked(s, side)' <= Planned(s, side)'
                        /\ Decided' /\ Due(s, side)' =>
                              Booked(s, side)' + Wants(s, side)' <= Planned(s, side)'
      BY <1>1 DEF InPlan
    <3>1. Decided' => Decided
      BY <2>1, <2>2, <2>3 DEF Decided
    <3>2. Wants(s, side)' = Wants(s, side) /\ Planned(s, side)' = Planned(s, side)
      BY <2>3 DEF Wants, Planned
    <3>3. /\ Booked(s, side) <= Planned(s, side)
          /\ Decided /\ Due(s, side) => Booked(s, side) + Wants(s, side) <= Planned(s, side)
      BY DEF InPlan
    <3>4. Booked(s, side) \in Int /\ Wants(s, side) \in Int /\ Planned(s, side) \in Int
      BY <1>3
    <3>5. Booked(s, side)' <= Booked(s, side) /\ Booked(s, side)' \in Int
      BY <1>2, <1>3
    <3>6. Due(s, side)' => Due(s, side)
      BY <2>4
    <3> QED
      BY ONLY <3>1, <3>2, <3>3, <3>4, <3>5, <3>6
  <2>9. CashIsLeft'
    BY <1>1, <2>1, <2>3, SameOrders DEF CashIsLeft
  <2> QED
    BY <1>2, <1>4, <2>5, <2>6, <2>7, <2>8, <2>9
<1> QED
  BY <1>5, <1>6

LEMMA SkipKeeps == ASSUME IndInv, NEW s \in Symbols, Skip(s) PROVE IndInv'
PROOF
<1> USE DEF IndInv
<1>1. /\ orders' = orders /\ runs' = runs /\ torn' = torn /\ dark' = dark /\ asked' = asked
      /\ ledger' \in {ledger, Recovered}
      /\ run.step \in {"sells", "buys"} /\ s \in run.todo
  BY DEF Skip
<1>2. /\ LedgerIsBehind' /\ \A i \in Ids : ledger'[i] = None <=> ledger[i] = None
      /\ \A t \in Symbols, side \in Sides :
           Booked(t, side)' <= Booked(t, side) /\ Booked(t, side)' \in Int
  <2>1. CASE ledger' = Recovered
    BY <1>1, <2>1, CatchingUpKeeps
  <2>2. CASE ledger' = ledger
    <3>1. \A t \in Symbols, side \in Sides :
            Booked(t, side)' = Booked(t, side) /\ Booked(t, side) \in Int
      BY <2>2, SameLedger, SumsAreNatural
    <3> QED
      BY <1>1, <2>2, <3>1, OnlyTheRunMoves
  <2> QED
    BY <1>1, <2>1, <2>2
<1>3. /\ run' \in [step : Steps, phase : {"open", "chase"}, view : [Ids -> Orders],
                 holdings : [Symbols -> Nat], buys : SUBSET Symbols,
                 todo : SUBSET Symbols, budget : Int, available : Int]
      /\ run'.step = run.step /\ run'.view = run.view /\ run'.holdings = run.holdings
      /\ run'.todo = run.todo \ {s} /\ run'.buys = run.buys /\ run'.available = run.available
  <2>1. run \in [step : Steps, phase : {"open", "chase"}, view : [Ids -> Orders],
                 holdings : [Symbols -> Nat], buys : SUBSET Symbols,
                 todo : SUBSET Symbols, budget : Int, available : Int]
    BY <1>1 DEF TypeOK
  <2>2. CASE run' = [run EXCEPT !.todo = @ \ {s}]
    BY <2>1, <2>2
  <2>3. ASSUME NEW none \in Int, none = 0, Sent(s, none)
        PROVE  /\ run' \in [step : Steps, phase : {"open", "chase"}, view : [Ids -> Orders],
                       holdings : [Symbols -> Nat], buys : SUBSET Symbols,
                       todo : SUBSET Symbols, budget : Int, available : Int]
               /\ run'.step = run.step /\ run'.view = run.view /\ run'.holdings = run.holdings
               /\ run'.todo = run.todo \ {s} /\ run'.buys = run.buys
               /\ run'.available = run.available
    <3>1. run.available - none = run.available
      BY <2>1, <2>3
    <3> DEFINE budget == run.budget - 1
               todo == run.todo \ {s}
    <3>2. run' = [run EXCEPT !.todo = todo, !.budget = budget, !.available = run.available]
      BY <2>3, <3>1 DEF Sent
    <3>3. budget \in Int /\ todo \in SUBSET Symbols /\ todo = run.todo \ {s}
      BY <2>1
    <3> HIDE DEF budget, todo
    <3>4. /\ run' \in [step : Steps, phase : {"open", "chase"}, view : [Ids -> Orders],
                      holdings : [Symbols -> Nat], buys : SUBSET Symbols,
                      todo : SUBSET Symbols, budget : Int, available : Int]
      BY ONLY <2>1, <3>2, <3>3
    <3>5. /\ run'.step = run.step /\ run'.view = run.view /\ run'.holdings = run.holdings
          /\ run'.todo = run.todo \ {s} /\ run'.buys = run.buys
          /\ run'.available = run.available
      BY ONLY <2>1, <3>2, <3>3
    <3> QED
      BY <3>4, <3>5
  <2>4. CASE Sent(s, 0)
    BY <2>3, <2>4
  <2> QED
    BY <2>2, <2>4 DEF Skip
<1>4. \A t \in Symbols, side \in Sides : Due(t, side)' => Due(t, side)
  BY <1>1, <1>3 DEF Due
<1>5. TypeOK'
  <2>1. Recovered \in [Ids -> Orders]
    BY CaughtUp
  <2> QED
    BY <1>1, <1>3, <2>1 DEF TypeOK
<1>6. Numbered'
  <2>1. run.step # "idle" /\ runs >= 1
    BY <1>1 DEF Numbered
  <2> SUFFICES ASSUME NEW t \in Symbols, NEW side \in Sides, NEW n \in 0..(MaxRuns - 1),
                      ledger'[<<t, side, n>>] # None
               PROVE  /\ n < runs /\ (Due(t, side)' => n < runs - 1)
                      /\ \A m \in 0..(n - 1) : ledger'[<<t, side, m>>] # None
    BY <1>1, <2>1 DEF Numbered
  <2>2. <<t, side, n>> \in Ids /\ \A m \in 0..(n - 1) : <<t, side, m>> \in Ids
    BY DEF Ids
  <2>3. /\ n < runs /\ (Due(t, side) => n < runs - 1)
        /\ \A m \in 0..(n - 1) : ledger[<<t, side, m>>] # None
    BY <1>2, <2>2 DEF Numbered
  <2> QED
    BY <1>2, <1>4, <2>2, <2>3
<1>7. ViewHolds'
  <2>1. run'.step # "cancels" /\ Decided
    BY <1>1, <1>3 DEF Decided
  <2> QED
    BY <1>1, <1>2, <1>3, <1>4, <2>1, LanesHoldOrders DEF ViewHolds
<1>8. OneIsOpen' /\ SharesAreHeld'
  <2>1. OneIsOpen'
    BY <1>1 DEF OneIsOpen
  <2> QED
    BY <1>1, <2>1, SameOrders DEF SharesAreHeld
<1>9. InPlan'
  <2> SUFFICES ASSUME ~torn, NEW t \in Symbols, NEW side \in Sides
               PROVE  /\ Booked(t, side)' <= Planned(t, side)'
                      /\ Decided' /\ Due(t, side)' =>
                            Booked(t, side)' + Wants(t, side)' <= Planned(t, side)'
    BY <1>1 DEF InPlan
  <2>1. Decided
    BY <1>1 DEF Decided
  <2>2. Wants(t, side)' = Wants(t, side) /\ Planned(t, side)' = Planned(t, side)
    BY <1>3 DEF Wants, Planned
  <2>3. /\ Booked(t, side) <= Planned(t, side)
        /\ Decided /\ Due(t, side) => Booked(t, side) + Wants(t, side) <= Planned(t, side)
    BY DEF InPlan
  <2>4. Booked(t, side) \in Int /\ Wants(t, side) \in Int /\ Planned(t, side) \in Int
    BY SumsAreNatural, WantsIsInteger
  <2> QED
    BY <1>2, <1>4, <2>1, <2>2, <2>3, <2>4
<1>10. CashIsLeft'
  BY <1>1, <1>3, SameOrders DEF CashIsLeft
<1> QED
  BY <1>2, <1>5, <1>6, <1>7, <1>8, <1>9, <1>10
-----------------------------------------------------------------------------
(* An order at the broker goes on or ends: it never comes to stand for     *)
(* more than before.                                                       *)
Onward(o, n) ==
  /\ n \in Orders /\ n.state \in {"open", "done"} /\ n.quantity = o.quantity
  /\ n.state = "open" => o.state = "open" /\ n.filled < n.quantity
  /\ n.filled >= o.filled /\ n.filled <= n.quantity
  /\ n.filled + Rest(n) <= o.filled + Rest(o)

LEMMA OrderGoesOn ==
  ASSUME IndInv, NEW i \in Ids, orders[i] # None, orders' \in [Ids -> Orders],
         \A j \in Ids \ {i} : orders'[j] = orders[j], Onward(orders[i], orders'[i])
  PROVE  OneIsOpen' /\ SharesAreHeld' /\ FreeCash' \in Int /\ FreeCash' >= FreeCash
PROOF
<1> USE DEF IndInv
<1> DEFINE more == orders'[i].filled - orders[i].filled
           rest == Rest(orders'[i]) - Rest(orders[i])
<1>1. OneIsOpen'
  BY LanesHoldOrders DEF OneIsOpen, Onward
<1>2. more \in Int /\ rest \in Int /\ more >= 0 /\ more + rest <= 0
  <2>1. orders[i] \in Orders /\ orders'[i] \in Orders
    BY DEF TypeOK
  <2>2. Rest(orders[i]) \in Int /\ Rest(orders'[i]) \in Int
    BY <2>1 DEF Rest, Orders
  <2> QED
    BY <2>1, <2>2 DEF Onward, Orders
<1>3. \A S \in SUBSET Ids :
        /\ Filled(S)' = Filled(S) + (IF i \in S THEN more ELSE 0)
        /\ MayFill(S)' = MayFill(S) + (IF i \in S THEN rest ELSE 0)
        /\ Filled(S) \in Int /\ MayFill(S) \in Int
  BY OneOrderChanges, SumsAreNatural DEF TypeOK
<1> HIDE DEF more, rest
<1>4. SharesAreHeld'
  <2> SUFFICES ASSUME NEW s \in Symbols PROVE MayFill(Of(s, "sell"))' <= Holdings'[s]
    BY DEF SharesAreHeld
  <2> DEFINE B == Of(s, "buy")
             S == Of(s, "sell")
  <2>1. B \in SUBSET Ids /\ S \in SUBSET Ids
    BY LanesHoldOrders DEF Sides
  <2>2. ~(i \in B /\ i \in S)
    BY DEF Of
  <2>3. /\ Holdings[s] = Start[s] + Filled(B) - Filled(S)
        /\ Holdings'[s] = Start[s] + Filled(B)' - Filled(S)'
        /\ MayFill(S) <= Holdings[s] /\ Start[s] \in Int
    BY DEF Holdings, SharesAreHeld
  <2> HIDE DEF B, S
  <2>4. /\ Filled(B)' = Filled(B) + (IF i \in B THEN more ELSE 0)
        /\ Filled(S)' = Filled(S) + (IF i \in S THEN more ELSE 0)
        /\ MayFill(S)' = MayFill(S) + (IF i \in S THEN rest ELSE 0)
        /\ Filled(B) \in Int /\ Filled(S) \in Int /\ MayFill(S) \in Int
    BY <1>3, <2>1
  <2>5. MayFill(S)' <= Holdings'[s]
    BY <1>2, <2>2, <2>3, <2>4
  <2> QED
    BY <2>5 DEF S
<1>5. FreeCash' \in Int /\ FreeCash' >= FreeCash
  <2> DEFINE B == All("buy")
             S == All("sell")
  <2>1. B \in SUBSET Ids /\ S \in SUBSET Ids
    BY LanesHoldOrders DEF Sides
  <2>2. ~(i \in B /\ i \in S)
    BY DEF All
  <2>3. /\ FreeCash = Cash - Filled(B) + Filled(S) - MayFill(B)
        /\ FreeCash' = Cash - Filled(B)' + Filled(S)' - MayFill(B)'
    BY DEF FreeCash
  <2> HIDE DEF B, S
  <2>4. /\ Filled(B)' = Filled(B) + (IF i \in B THEN more ELSE 0)
        /\ Filled(S)' = Filled(S) + (IF i \in S THEN more ELSE 0)
        /\ MayFill(B)' = MayFill(B) + (IF i \in B THEN rest ELSE 0)
        /\ Filled(B) \in Int /\ Filled(S) \in Int /\ MayFill(B) \in Int
    BY <1>3, <2>1
  <2> QED
    BY <1>2, <2>2, <2>3, <2>4
<1> QED
  BY <1>1, <1>4, <1>5

LEMMA BrokerMoves ==
  ASSUME IndInv, NEW i \in Ids, orders[i].state = "open", orders' \in [Ids -> Orders],
         \A j \in Ids \ {i} : orders'[j] = orders[j], Onward(orders[i], orders'[i]),
         UNCHANGED <<asked, ledger, runs, run, torn, dark>>
  PROVE  IndInv'
PROOF
<1> USE DEF IndInv
<1>0. orders[i] # None /\ orders[i] \in Orders
  BY DEF None, TypeOK
<1>1. OneIsOpen' /\ SharesAreHeld' /\ FreeCash' \in Int /\ FreeCash' >= FreeCash
  BY <1>0, OrderGoesOn
<1>2. TypeOK'
  BY DEF TypeOK
<1>3. LedgerIsBehind'
  <2> SUFFICES ASSUME NEW j \in Ids PROVE
        /\ orders'[j].state \in {"none", "open", "done"}
        /\ orders'[j].filled <= orders'[j].quantity
        /\ orders'[j].state = "open" => orders'[j].filled < orders'[j].quantity
        /\ orders'[j].state = "none" => orders'[j] = None
        /\ ledger[j].state = "none" => ledger[j] = None
        /\ ledger[j].filled <= orders'[j].filled
        /\ orders'[j] # None => ledger[j] # None /\ ledger[j].quantity = orders'[j].quantity
        /\ ledger[j].state = "open" => orders'[j] # None
        /\ ledger[j].state = "done" => orders'[j] = ledger[j]
    BY DEF LedgerIsBehind
  <2>1. CASE j # i
    BY <2>1 DEF LedgerIsBehind
  <2>2. CASE j = i
    <3>1. orders'[i] # None /\ orders'[i] \in Orders /\ ledger[i] \in Orders
      BY DEF Onward, None, TypeOK
    <3>2. ledger[i].state # "done" /\ ledger[i] # None /\ ledger[i].quantity = orders[i].quantity
          /\ ledger[i].filled <= orders[i].filled
          /\ (ledger[i].state = "none" => ledger[i] = None)
      BY <1>0 DEF LedgerIsBehind
    <3>3. ledger[i].filled <= orders'[i].filled
      BY <1>0, <3>1, <3>2 DEF Onward, Orders
    <3> QED
      BY <2>2, <3>1, <3>2, <3>3 DEF Onward
  <2> QED
    BY <2>1, <2>2
<1>4. Numbered'
  BY DEF Numbered, Due
<1>5. ViewHolds'
  <2>1. \A j \in Ids : /\ orders[j] # None => orders'[j] # None
                       /\ orders'[j].state = "open" => orders[j].state = "open"
    BY DEF Onward, None
  <2>2. run.step = "cancels" => run.todo \in SUBSET Ids
    BY DEF TypeOK
  <2>3. \A s \in Symbols, side \in Sides : Due(s, side)' = Due(s, side)
    BY DEF Due
  <2>4. Decided' = Decided
    BY DEF Decided
  <2> QED
    BY <2>1, <2>2, <2>3, <2>4, LanesHoldOrders DEF ViewHolds
<1>6. InPlan'
  <2>1. ASSUME NEW s \in Symbols, NEW side \in Sides
        PROVE  /\ Booked(s, side)' = Booked(s, side) /\ Planned(s, side)' = Planned(s, side)
               /\ Wants(s, side)' = Wants(s, side) /\ Due(s, side)' = Due(s, side)
    BY SameLedger DEF Planned, Wants, Due
  <2>2. Decided' = Decided /\ torn' = torn
    BY DEF Decided
  <2> QED
    BY <2>1, <2>2 DEF InPlan
<1>7. CashIsLeft'
  <2>1. FreeCash \in Int
    BY SumsAreNatural
  <2>2. run.step = "buys" => run.available \in Int
    BY DEF TypeOK
  <2> QED
    BY <1>1, <2>1, <2>2 DEF CashIsLeft
<1> QED
  BY <1>1, <1>2, <1>3, <1>4, <1>5, <1>6, <1>7

LEMMA FillKeeps == ASSUME IndInv, NEW i \in Ids, Fill(i) PROVE IndInv'
PROOF
<1> USE DEF IndInv
<1> DEFINE filled == orders[i].filled + 1
           o == [orders[i] EXCEPT !.filled = filled,
                   !.state = IF filled = orders[i].quantity THEN "done" ELSE "open"]
<1>1. orders \in [Ids -> Orders] /\ orders[i].state = "open"
  BY DEF TypeOK, Fill
<1>2. orders[i].filled < orders[i].quantity
  BY <1>1 DEF LedgerIsBehind
<1>3. orders' = [orders EXCEPT ![i] = o]
  BY <1>1 DEF Fill, Orders
<1>4. o \in Orders /\ o.filled = filled /\ o.quantity = orders[i].quantity
      /\ o.state = (IF filled = orders[i].quantity THEN "done" ELSE "open")
  <2>1. orders[i] \in Orders /\ filled \in Nat
    BY <1>1 DEF Orders
  <2> HIDE DEF filled
  <2> QED
    BY <2>1 DEF Orders
<1>5. Onward(orders[i], o)
  BY <1>1, <1>2, <1>4 DEF Onward, Rest, Orders
<1> HIDE DEF o
<1>6. orders' \in [Ids -> Orders] /\ orders'[i] = o /\ \A j \in Ids \ {i} : orders'[j] = orders[j]
  BY <1>1, <1>3, <1>4
<1> QED
  BY <1>1, <1>5, <1>6, BrokerMoves DEF Fill

(* An order is taken off at the broker.                                    *)
LEMMA TakenOff ==
  ASSUME IndInv, NEW i \in Ids, orders[i] # None
  PROVE  LET o == [orders[i] EXCEPT !.state = "done"]
         IN  /\ Onward(orders[i], o) /\ o.state = "done" /\ o # None
             /\ [orders EXCEPT ![i].state = "done"] = [orders EXCEPT ![i] = o]
PROOF
<1>1. orders \in [Ids -> Orders] /\ orders[i].filled <= orders[i].quantity
  BY DEF TypeOK, IndInv, LedgerIsBehind
<1> QED
  BY <1>1 DEF Onward, Rest, Orders, None

LEMMA TakeBackKeeps == ASSUME IndInv, NEW i \in Ids, TakeBack(i) PROVE IndInv'
PROOF
<1> DEFINE o == [orders[i] EXCEPT !.state = "done"]
<1>1. orders \in [Ids -> Orders] /\ orders[i].state = "open" /\ orders[i] # None
  BY DEF TypeOK, TakeBack, IndInv, None
<1>2. Onward(orders[i], o) /\ orders' = [orders EXCEPT ![i] = o]
  BY <1>1, TakenOff DEF TakeBack
<1>3. o \in Orders
  BY <1>2 DEF Onward
<1> HIDE DEF o
<1>4. orders' \in [Ids -> Orders] /\ orders'[i] = o /\ \A j \in Ids \ {i} : orders'[j] = orders[j]
  BY <1>1, <1>2, <1>3
<1> QED
  BY <1>1, <1>2, <1>4, BrokerMoves DEF TakeBack
LEMMA CancelKeeps == ASSUME IndInv, NEW i \in Ids, Cancel(i) PROVE IndInv'
PROOF
<1> USE DEF IndInv
<1> DEFINE o == [orders[i] EXCEPT !.state = "done"]
<1>1. /\ run.step = "cancels" /\ i \in run.todo /\ run' = [run EXCEPT !.todo = @ \ {i}]
      /\ runs' = runs /\ torn' = torn /\ dark' = dark
      /\ asked' \in {asked, asked \cup {i}}
  BY DEF Cancel
<1>2. orders[i] # None /\ orders \in [Ids -> Orders] /\ ledger \in [Ids -> Orders]
  BY <1>1 DEF ViewHolds, TypeOK
<1>3. Onward(orders[i], o) /\ o.state = "done" /\ o # None
  BY <1>2, TakenOff
<1>4. \/ orders' = [orders EXCEPT ![i] = o] /\ ledger' = [ledger EXCEPT ![i] = o]
      \/ orders' = orders /\ ledger' = ledger
  <2>1. CASE /\ orders' = [orders EXCEPT ![i].state = "done"]
             /\ ledger' = [ledger EXCEPT ![i] = orders'[i]]
    BY <1>2, <2>1, TakenOff
  <2> QED
    BY <2>1 DEF Cancel
<1> HIDE DEF o
<1>5. o \in Orders
  BY <1>3 DEF Onward
<1>6. /\ orders' \in [Ids -> Orders] /\ ledger' \in [Ids -> Orders]
      /\ \A j \in Ids \ {i} : orders'[j] = orders[j] /\ ledger'[j] = ledger[j]
      /\ (orders'[i] = o /\ ledger'[i] = o) \/ (orders'[i] = orders[i] /\ ledger'[i] = ledger[i])
  BY <1>2, <1>4, <1>5
<1>7. /\ run' \in [step : Steps, phase : {"open", "chase"}, view : [Ids -> Orders],
                 holdings : [Symbols -> Nat], buys : SUBSET Symbols,
                 todo : SUBSET Ids, budget : Int, available : Int]
      /\ run'.step = "cancels" /\ run'.todo = run.todo \ {i}
  BY <1>1 DEF TypeOK
<1>8. OneIsOpen' /\ SharesAreHeld'
  <2>1. CASE orders' = orders
    BY <2>1, SameOrders DEF OneIsOpen, SharesAreHeld
  <2>2. CASE orders' = [orders EXCEPT ![i] = o]
    <3>1. orders'[i] = o
      BY <1>2, <2>2
    <3> QED
      BY <1>2, <1>3, <1>6, <3>1, OrderGoesOn
  <2> QED
    BY <1>4, <2>1, <2>2
<1>9. CASE orders' = orders /\ ledger' = ledger
  <2>1. TypeOK'
    BY <1>1, <1>6, <1>7 DEF TypeOK
  <2>2. LedgerIsBehind'
    BY <1>9, OnlyTheRunMoves
  <2>3. Numbered'
    BY <1>1, <1>7, <1>9 DEF Numbered, Due
  <2>4. ViewHolds'
    BY <1>1, <1>7, <1>9 DEF ViewHolds, Decided
  <2>5. InPlan'
    <3>1. \A s \in Symbols, side \in Sides : Booked(s, side)' = Booked(s, side)
      BY <1>9, SameLedger
    <3> SUFFICES ASSUME ~torn, NEW s \in Symbols, NEW side \in Sides
                 PROVE  Booked(s, side)' <= Planned(s, side)
      BY <1>1, <1>7 DEF InPlan, Decided, Planned
    <3> QED
      BY <3>1 DEF InPlan
  <2>6. CashIsLeft'
    BY <1>1, <1>7, <1>9, SameOrders DEF CashIsLeft
  <2> QED
    BY <1>8, <2>1, <2>2, <2>3, <2>4, <2>5, <2>6
<1>10. CASE orders' = [orders EXCEPT ![i] = o] /\ ledger' = [ledger EXCEPT ![i] = o]
  <2>0. orders'[i] = o /\ ledger'[i] = o
    BY <1>2, <1>10
  <2>1. TypeOK'
    BY <1>1, <1>6, <1>7 DEF TypeOK
  <2>2. LedgerIsBehind'
    <3>1. o.filled <= o.quantity
      BY <1>3 DEF Onward
    <3>2. o.filled \in Nat
      BY <1>5 DEF Orders
    <3> QED
      BY <1>3, <1>6, <2>0, <3>1, <3>2 DEF LedgerIsBehind
  <2>3. \A j \in Ids : ledger'[j] = None <=> ledger[j] = None
    BY <1>2, <1>3, <1>6, <2>0 DEF LedgerIsBehind
  <2>4. Numbered'
    <3>1. runs >= 1
      BY <1>1 DEF Numbered
    <3> SUFFICES ASSUME NEW s \in Symbols, NEW side \in Sides, NEW n \in 0..(MaxRuns - 1),
                        ledger'[<<s, side, n>>] # None
                 PROVE  /\ n < runs /\ n < runs - 1
                        /\ \A m \in 0..(n - 1) : ledger'[<<s, side, m>>] # None
      BY <1>1, <3>1 DEF Numbered
    <3>2. <<s, side, n>> \in Ids /\ \A m \in 0..(n - 1) : <<s, side, m>> \in Ids
      BY DEF Ids
    <3>3. Due(s, side)
      BY <1>1 DEF Due
    <3>4. /\ n < runs /\ n < runs - 1
          /\ \A m \in 0..(n - 1) : ledger[<<s, side, m>>] # None
      BY <2>3, <3>2, <3>3 DEF Numbered
    <3> QED
      BY <2>3, <3>2, <3>4
  <2>5. ViewHolds'
    <3>1. \A j \in run.todo : j \in Ids
      BY <1>1 DEF TypeOK
    <3>2. \A j \in run.todo : orders'[j] # None
      BY <1>1, <1>3, <1>6, <2>0, <3>1 DEF ViewHolds
    <3> QED
      BY <1>7, <3>2 DEF ViewHolds, Decided
  <2>6. InPlan'
    <3> SUFFICES ASSUME ~torn, NEW s \in Symbols, NEW side \in Sides
                 PROVE  Booked(s, side)' <= Planned(s, side)
      BY <1>1, <1>7 DEF InPlan, Decided, Planned
    <3>1. \A j \in Ids : Counted(ledger'[j]) <= Counted(ledger[j])
      <4> SUFFICES ASSUME NEW j \in Ids PROVE Counted(ledger'[j]) <= Counted(ledger[j])
        OBVIOUS
      <4>1. CASE j # i
        <5>1. Counted(ledger[j]) \in Int
          BY <1>2 DEF Counted, Orders
        <5> QED
          BY <1>6, <4>1, <5>1
      <4>2. CASE j = i
        <5>1. Counted(ledger'[i]) = o.filled /\ o.filled \in Nat
          BY <1>3, <1>5, <2>0 DEF Counted, Orders
        <5>2. o.filled = orders[i].filled
          BY <1>2 DEF o, Orders
        <5>3. CASE ledger[i].state = "done"
          BY <4>2, <5>1, <5>2, <5>3 DEF LedgerIsBehind, Counted
        <5>4. CASE ledger[i].state # "done"
          <6>1. Counted(ledger[i]) = orders[i].quantity /\ orders[i].filled <= orders[i].quantity
            BY <1>2, <5>4 DEF LedgerIsBehind, Counted
          <6> QED
            BY <4>2, <5>1, <5>2, <6>1
        <5> QED
          BY <5>3, <5>4
      <4> QED
        BY <4>1, <4>2
    <3>2. Booked(s, side)' <= Booked(s, side)
      BY <1>2, <1>6, <3>1, CountsLess
    <3>3. Booked(s, side) <= Planned(s, side) /\ Booked(s, side) \in Int /\ Planned(s, side) \in Int
      BY SumsAreNatural, WantsIsInteger DEF InPlan
    <3>4. Booked(s, side)' \in Int
      <4> DEFINE g == [j \in Ids |-> Counted(ledger'[j])]
      <4>1. \A j \in Of(s, side) : g[j] \in Int
        BY <1>6, LanesHoldOrders DEF Orders, Counted
      <4>2. Booked(s, side)' = SumFunctionOnSet(g, Of(s, side))
        BY DEF Booked
      <4> HIDE DEF g
      <4> QED
        BY <4>1, <4>2, LanesHoldOrders, SumType
    <3> QED
      BY <3>2, <3>3, <3>4
  <2>7. CashIsLeft'
    <3>1. FreeCash' \in Int /\ FreeCash' >= FreeCash
      BY <1>2, <1>3, <1>6, <2>0, OrderGoesOn
    <3>2. FreeCash \in Int
      BY SumsAreNatural
    <3> QED
      BY <1>1, <1>7, <3>1, <3>2 DEF CashIsLeft
  <2> QED
    BY <1>8, <2>1, <2>2, <2>4, <2>5, <2>6, <2>7
<1> QED
  BY <1>4, <1>9, <1>10
-----------------------------------------------------------------------------
(* An order is sent: what is known of it, and what comes of it.            *)
LEMMA WhatIsSent ==
  ASSUME IndInv, NEW s \in Symbols, NEW side \in Sides, Sending(s, side)
  PROVE  /\ Decided /\ Due(s, side)
         /\ Wanted(s, side) \in Nat \ {0} /\ Wanted(s, side) <= Wants(s, side)
         /\ side = "buy" => run.step = "buys" /\ Wanted(s, side) <= run.available
         /\ side = "sell" => run.step = "sells"
         /\ run.todo \in SUBSET Symbols
         /\ \A i \in Of(s, side) : orders[i].state # "open"
PROOF
<1> USE DEF IndInv
<1>1. /\ side = "buy" => run.step = "buys"
      /\ side = "sell" => run.step = "sells"
      /\ s \in run.todo /\ Wanted(s, side) > 0 /\ ~Blocked(s, side)
  BY DEF Sending, Sides
<1>2. Decided /\ Due(s, side)
  BY <1>1 DEF Decided, Due, Sides
<1>3. Delta(run.view, run.holdings, s) \in Int
  BY DeltaIsInteger DEF TypeOK
<1>4. run.available \in Int /\ run.holdings[s] \in Int
  BY DEF TypeOK
<1>5. /\ Wanted(s, side) \in Int /\ Wanted(s, side) <= Wants(s, side)
      /\ side = "buy" => Wanted(s, side) <= run.available
  <2>1. CASE side = "buy"
    BY <1>3, <1>4, <2>1, LeastOfTwo DEF Wanted, Wants
  <2>2. CASE side = "sell"
    <3>1. -Delta(run.view, run.holdings, s) \in Int
      BY <1>3
    <3> QED
      BY <1>4, <2>2, <3>1, LeastOfTwo DEF Wanted, Wants
  <2> QED
    BY <2>1, <2>2 DEF Sides
<1>6. run.todo \in SUBSET Symbols
  BY <1>1 DEF TypeOK, Sides
<1>7. \A i \in Of(s, side) : orders[i].state # "open"
  BY <1>1, <1>2 DEF ViewHolds, Blocked, Living
<1> QED
  BY <1>1, <1>2, <1>5, <1>6, <1>7

Entered(id, state, quantity) == ledger' = [Recovered EXCEPT ![id] = NewOrder(state, quantity)]
Placed(id, state, quantity) == orders' = [orders EXCEPT ![id] = NewOrder(state, quantity)]

LEMMA OutcomesOfSubmit ==
  ASSUME NEW s \in Symbols, NEW side \in Sides, Submit(s, side)
  PROVE  LET quantity == Wanted(s, side)
             id == NextId(s, side)
         IN  /\ Sending(s, side) /\ Admitted(s, side, quantity)
             /\ UNCHANGED <<asked, runs, torn>>
             /\ \/ /\ Placed(id, "open", quantity) /\ Entered(id, "open", quantity)
                   /\ Sent(s, Spent(side, quantity)) /\ UNCHANGED dark
                \/ /\ Placed(id, "done", quantity) /\ Entered(id, "done", quantity)
                   /\ Sent(s, 0) /\ UNCHANGED dark
                \/ /\ Placed(id, "open", quantity) /\ Entered(id, "unknown", quantity)
                   /\ Sent(s, 0) /\ dark' = (dark \/ side = "buy")
                \/ /\ UNCHANGED <<orders, dark>> /\ Sent(s, 0)
                   /\ Entered(id, "unknown", quantity) \/ Entered(id, "ready", quantity)
BY DEF Submit, Placed, Entered

LEMMA SentChangesTheRun ==
  ASSUME NEW s \in Symbols, NEW spent \in Int, Sent(s, spent),
         run \in [step : Steps, phase : {"open", "chase"}, view : [Ids -> Orders],
                  holdings : [Symbols -> Nat], buys : SUBSET Symbols,
                  todo : SUBSET Symbols, budget : Int, available : Int]
  PROVE  /\ run' \in [step : Steps, phase : {"open", "chase"}, view : [Ids -> Orders],
                      holdings : [Symbols -> Nat], buys : SUBSET Symbols,
                      todo : SUBSET Symbols, budget : Int, available : Int]
         /\ run'.step = run.step /\ run'.view = run.view /\ run'.holdings = run.holdings
         /\ run'.todo = run.todo \ {s} /\ run'.buys = run.buys
         /\ run'.available = run.available - spent
PROOF
<1> DEFINE budget == run.budget - 1
           todo == run.todo \ {s}
           available == run.available - spent
<1>1. run' = [run EXCEPT !.todo = todo, !.budget = budget, !.available = available]
  BY DEF Sent
<1>2. budget \in Int /\ todo \in SUBSET Symbols /\ available \in Int
  OBVIOUS
<1> HIDE DEF budget, todo, available
<1>3. /\ run' \in [step : Steps, phase : {"open", "chase"}, view : [Ids -> Orders],
                   holdings : [Symbols -> Nat], buys : SUBSET Symbols,
                   todo : SUBSET Symbols, budget : Int, available : Int]
      /\ run'.step = run.step /\ run'.view = run.view /\ run'.holdings = run.holdings
      /\ run'.todo = todo /\ run'.buys = run.buys /\ run'.available = available
  BY <1>1, <1>2
<1> QED
  BY <1>3 DEF todo, available

LEMMA SubmitKeeps == ASSUME IndInv, NEW s \in Symbols, NEW side \in Sides, Submit(s, side) PROVE IndInv'
PROOF
<1> USE DEF IndInv
<1> DEFINE q == Wanted(s, side)
           id == NextId(s, side)
           N(state) == NewOrder(state, q)
<1>1. /\ Sending(s, side) /\ Admitted(s, side, q)
      /\ asked' = asked /\ runs' = runs /\ torn' = torn
  BY OutcomesOfSubmit
<1>2. /\ Decided /\ Due(s, side) /\ q \in Nat \ {0} /\ q <= Wants(s, side)
      /\ side = "buy" => run.step = "buys" /\ q <= run.available
      /\ side = "sell" => run.step = "sells"
      /\ run.todo \in SUBSET Symbols /\ \A i \in Of(s, side) : orders[i].state # "open"
  BY <1>1, WhatIsSent
<1>3. PICK c \in 0 .. MaxRuns - 1 :
        /\ id = <<s, side, c>> /\ c < runs
        /\ \A n \in 0 .. MaxRuns - 1 : ledger[<<s, side, n>>] = None <=> n >= c
  BY <1>2, NextIsFree
<1>4. id \in Ids /\ id \in Of(s, side) /\ ledger[id] = None /\ orders[id] = None
  <2>1. id \in Ids /\ id \in Of(s, side)
    BY <1>3 DEF Of, Ids
  <2>2. ledger[id] = None
    BY <1>3
  <2> QED
    BY <2>1, <2>2 DEF LedgerIsBehind
<1>5. PICK spent \in Int, told \in {"open", "done", "unknown", "ready"} :
        /\ Entered(id, told, q) /\ Sent(s, spent)
        /\ \/ /\ Placed(id, "open", q) /\ told = "open"
              /\ spent = Spent(side, q) /\ dark' = dark
           \/ Placed(id, "done", q) /\ told = "done" /\ spent = 0 /\ dark' = dark
           \/ /\ Placed(id, "open", q) /\ told = "unknown" /\ spent = 0
              /\ dark' = (dark \/ side = "buy")
           \/ /\ UNCHANGED <<orders, dark>> /\ spent = 0 /\ told \in {"unknown", "ready"}
  <2>1. Spent(side, q) \in Int
    BY <1>2 DEF Spent
  <2> QED
    BY <2>1, OutcomesOfSubmit
<1> HIDE DEF q, id
<1>6. \A state \in {"open", "done", "unknown", "ready"} :
        /\ N(state) \in Orders /\ N(state) # None
        /\ N(state).state = state /\ N(state).quantity = q /\ N(state).filled = 0
  BY <1>2 DEF NewOrder, Orders, None
<1>7. /\ orders \in [Ids -> Orders] /\ ledger \in [Ids -> Orders] /\ Recovered \in [Ids -> Orders]
  BY CaughtUp DEF TypeOK
<1>8. /\ ledger' \in [Ids -> Orders] /\ ledger'[id] = N(told)
      /\ \A j \in Ids \ {id} : ledger'[j] = Recovered[j]
  BY <1>4, <1>5, <1>6, <1>7 DEF Entered
<1>9. /\ orders' \in [Ids -> Orders] /\ \A j \in Ids \ {id} : orders'[j] = orders[j]
      /\ \/ /\ orders'[id] = N("open") /\ told = "open"
            /\ spent = Spent(side, q) /\ dark' = dark
         \/ orders'[id] = N("done") /\ told = "done" /\ spent = 0 /\ dark' = dark
         \/ /\ orders'[id] = N("open") /\ told = "unknown" /\ spent = 0
            /\ dark' = (dark \/ side = "buy")
         \/ /\ orders'[id] = None /\ told \in {"unknown", "ready"} /\ spent = 0 /\ dark' = dark
  BY <1>4, <1>5, <1>6, <1>7 DEF Placed
<1> HIDE DEF N
<1>10. /\ run' \in [step : Steps, phase : {"open", "chase"}, view : [Ids -> Orders],
                    holdings : [Symbols -> Nat], buys : SUBSET Symbols,
                    todo : SUBSET Symbols, budget : Int, available : Int]
       /\ run'.step = run.step /\ run'.view = run.view /\ run'.holdings = run.holdings
       /\ run'.todo = run.todo \ {s} /\ run'.buys = run.buys
       /\ run'.available = run.available - spent
  <2>1. run \in [step : Steps, phase : {"open", "chase"}, view : [Ids -> Orders],
                  holdings : [Symbols -> Nat], buys : SUBSET Symbols,
                  todo : SUBSET Symbols, budget : Int, available : Int]
    BY <1>2 DEF TypeOK
  <2> QED
    BY <1>5, <2>1, SentChangesTheRun
<1>11. /\ ~Due(s, side)'
       /\ \A t \in Symbols, lane \in Sides : Due(t, lane)' => Due(t, lane)
  BY <1>2, <1>10 DEF Due, Sides
<1>12. \A j \in Ids \ {id} : ledger'[j] = None <=> ledger[j] = None
  BY <1>8, CaughtUp
<1>13. \A t \in Symbols, lane \in Sides : id \in Of(t, lane) => t = s /\ lane = side
  BY <1>3 DEF Of
<1>14. TypeOK'
  <2>1. dark' \in BOOLEAN
    BY <1>9 DEF TypeOK
  <2> QED
    BY <1>1, <1>2, <1>8, <1>9, <1>10, <2>1 DEF TypeOK, Decided
<1>15. LedgerIsBehind'
  <2> SUFFICES ASSUME NEW j \in Ids PROVE
        /\ orders'[j].state \in {"none", "open", "done"}
        /\ orders'[j].filled <= orders'[j].quantity
        /\ orders'[j].state = "open" => orders'[j].filled < orders'[j].quantity
        /\ orders'[j].state = "none" => orders'[j] = None
        /\ ledger'[j].state = "none" => ledger'[j] = None
        /\ ledger'[j].filled <= orders'[j].filled
        /\ orders'[j] # None => ledger'[j] # None /\ ledger'[j].quantity = orders'[j].quantity
        /\ ledger'[j].state = "open" => orders'[j] # None
        /\ ledger'[j].state = "done" => orders'[j] = ledger'[j]
    BY DEF LedgerIsBehind
  <2>1. CASE j # id
    <3>1. orders'[j] = orders[j] /\ ledger'[j] = Recovered[j]
      BY <1>8, <1>9, <2>1
    <3> QED
      BY <3>1, CaughtUp DEF LedgerIsBehind
  <2>2. CASE j = id
    <3>1. None.state = "none" /\ None.quantity = 0 /\ None.filled = 0
      BY DEF None
    <3> QED
      BY <1>2, <1>6, <1>8, <1>9, <2>2, <3>1
  <2> QED
    BY <2>1, <2>2
<1>16. Numbered'
  <2>1. runs >= 1 /\ runs' = runs
    BY <1>1, <1>2 DEF Numbered, Decided
  <2> SUFFICES ASSUME NEW t \in Symbols, NEW lane \in Sides, NEW n \in 0..(MaxRuns - 1),
                      ledger'[<<t, lane, n>>] # None
               PROVE  /\ n < runs /\ (Due(t, lane)' => n < runs - 1)
                      /\ \A m \in 0..(n - 1) : ledger'[<<t, lane, m>>] # None
    BY <2>1 DEF Numbered
  <2>2. <<t, lane, n>> \in Ids /\ \A m \in 0..(n - 1) : <<t, lane, m>> \in Ids /\ m \in 0..(MaxRuns - 1)
    BY DEF Ids
  <2>3. \A j \in Ids : ledger[j] # None => ledger'[j] # None
    BY <1>6, <1>8, <1>12
  <2>4. CASE <<t, lane, n>> = id
    <3>1. t = s /\ lane = side /\ n = c
      BY <1>3, <2>4
    <3>2. \A m \in 0..(n - 1) : ledger[<<t, lane, m>>] # None
      BY <1>3, <2>2, <3>1
    <3> QED
      BY <1>3, <1>11, <2>2, <2>3, <3>1, <3>2
  <2>5. CASE <<t, lane, n>> # id
    <3>1. ledger[<<t, lane, n>>] # None
      BY <1>12, <2>2, <2>5
    <3>2. /\ n < runs /\ (Due(t, lane) => n < runs - 1)
          /\ \A m \in 0..(n - 1) : ledger[<<t, lane, m>>] # None
      BY <3>1 DEF Numbered
    <3> QED
      BY <1>11, <2>2, <2>3, <3>2
  <2> QED
    BY <2>4, <2>5
<1>17. ViewHolds'
  <2>1. run'.step # "cancels"
    BY <1>2, <1>10 DEF Decided
  <2> SUFFICES ASSUME NEW t \in Symbols, NEW lane \in Sides, Due(t, lane)', NEW i \in Of(t, lane)
               PROVE  /\ run'.view[i] = None <=> ledger'[i] = None
                      /\ orders'[i].state = "open" => run'.view[i].state \in Living
    BY <2>1 DEF ViewHolds
  <2>2. i \in Ids \ {id}
    BY <1>11, <1>13, LanesHoldOrders
  <2>3. /\ run.view[i] = None <=> ledger[i] = None
        /\ orders[i].state = "open" => run.view[i].state \in Living
    BY <1>2, <1>11 DEF ViewHolds
  <2> QED
    BY <1>9, <1>10, <1>12, <2>2, <2>3
<1>18. OneIsOpen'
  <2> SUFFICES ASSUME NEW t \in Symbols, NEW lane \in Sides, NEW i \in Of(t, lane), NEW j \in Of(t, lane),
                      orders'[i].state = "open", orders'[j].state = "open"
               PROVE  i = j
    BY DEF OneIsOpen
  <2>1. i \in Ids /\ j \in Ids
    BY LanesHoldOrders
  <2>2. CASE t = s /\ lane = side
    BY <1>2, <1>9, <2>1, <2>2
  <2>3. CASE ~(t = s /\ lane = side)
    BY <1>9, <1>13, <2>1, <2>3 DEF OneIsOpen
  <2> QED
    BY <2>2, <2>3
<1>19. InPlan'
  <2> SUFFICES ASSUME ~torn, NEW t \in Symbols, NEW lane \in Sides
               PROVE  /\ Booked(t, lane)' <= Planned(t, lane)
                      /\ Due(t, lane)' => Booked(t, lane)' + Wants(t, lane)' <= Planned(t, lane)
    BY <1>1 DEF InPlan, Planned
  <2>1. Booked(t, lane)' <= Booked(t, lane)
          + (IF id \in Of(t, lane) THEN Counted(ledger'[id]) - Counted(ledger[id]) ELSE 0)
    <3>1. \A j \in Ids \ {id} : Counted(ledger'[j]) <= Counted(ledger[j])
      BY <1>8, CaughtUp
    <3> QED
      BY <1>7, <1>8, <3>1, CountsNoMore
  <2>2. Counted(ledger[id]) = 0 /\ Counted(ledger'[id]) \in Nat /\ Counted(ledger'[id]) <= q
    BY <1>2, <1>4, <1>6, <1>8 DEF Counted, None
  <2>3. /\ Booked(t, lane) <= Planned(t, lane)
        /\ Due(t, lane) => Booked(t, lane) + Wants(t, lane) <= Planned(t, lane)
    BY <1>2 DEF InPlan
  <2>n. Booked(t, lane) \in Int /\ Wants(t, lane) \in Int /\ Planned(t, lane) \in Int
    BY SumsAreNatural, WantsIsInteger
  <2>4. Booked(t, lane)' \in Int
    <3> DEFINE g == [j \in Ids |-> Counted(ledger'[j])]
    <3>1. \A j \in Of(t, lane) : g[j] \in Int
      BY <1>8, LanesHoldOrders DEF Orders, Counted
    <3>2. Booked(t, lane)' = SumFunctionOnSet(g, Of(t, lane))
      BY DEF Booked
    <3> HIDE DEF g
    <3> QED
      BY <3>1, <3>2, LanesHoldOrders, SumType
  <2>5. Wants(t, lane)' = Wants(t, lane)
    BY <1>10 DEF Wants
  <2>6. CASE t = s /\ lane = side
    BY <1>2, <1>4, <1>11, <2>1, <2>2, <2>3, <2>n, <2>4, <2>6
  <2>7. CASE ~(t = s /\ lane = side)
    <3>1. id \notin Of(t, lane) /\ (Due(t, lane)' => Due(t, lane))
      BY <1>11, <1>13, <2>7
    <3>2. Booked(t, lane)' <= Booked(t, lane)
      BY <2>1, <2>n, <3>1
    <3> QED
      BY <2>3, <2>n, <2>4, <2>5, <3>1, <3>2
  <2> QED
    BY <2>6, <2>7
<1>20. /\ orders[id].filled = 0 /\ orders'[id].filled = 0
       /\ Rest(orders[id]) = 0 /\ Rest(orders'[id]) \in {0, q}
       /\ Rest(orders'[id]) = q => told = "open" \/ (told = "unknown" /\ dark' = (dark \/ side = "buy"))
  <2>1. None.state = "none" /\ None.quantity = 0 /\ None.filled = 0
    BY DEF None
  <2>2. Rest(None) = 0 /\ Rest(N("done")) = 0 /\ Rest(N("open")) = q
    BY <1>2, <1>6, <2>1 DEF Rest
  <2> QED
    BY <1>2, <1>4, <1>6, <1>9, <2>1, <2>2
<1>21. \A S \in SUBSET Ids :
         /\ Filled(S)' = Filled(S)
         /\ MayFill(S)' = MayFill(S) + (IF id \in S THEN Rest(orders'[id]) ELSE 0)
         /\ Filled(S) \in Int /\ MayFill(S) \in Int
  <2> TAKE S \in SUBSET Ids
  <2>1. /\ Filled(S)' = Filled(S) + (IF id \in S THEN orders'[id].filled - orders[id].filled ELSE 0)
        /\ MayFill(S)' = MayFill(S) + (IF id \in S THEN Rest(orders'[id]) - Rest(orders[id]) ELSE 0)
    BY <1>4, <1>7, <1>9, OneOrderChanges
  <2>2. Filled(S) \in Int /\ MayFill(S) \in Int /\ Rest(orders'[id]) \in Int
    BY <1>2, <1>20, SumsAreNatural
  <2> QED
    BY <1>20, <2>1, <2>2
<1>22. SharesAreHeld'
  <2> SUFFICES ASSUME NEW t \in Symbols PROVE MayFill(Of(t, "sell"))' <= Holdings'[t]
    BY DEF SharesAreHeld
  <2>1. Of(t, "sell") \in SUBSET Ids /\ Of(t, "buy") \in SUBSET Ids
    BY LanesHoldOrders DEF Sides
  <2>2. Holdings'[t] = Holdings[t] /\ Holdings[t] \in Int
    BY <1>21, <2>1, SumsAreNatural DEF Holdings
  <2>3. MayFill(Of(t, "sell")) <= Holdings[t]
    BY DEF SharesAreHeld
  <2>4. MayFill(Of(t, "sell"))' = MayFill(Of(t, "sell"))
          + (IF id \in Of(t, "sell") THEN Rest(orders'[id]) ELSE 0)
        /\ MayFill(Of(t, "sell")) \in Int
    BY <1>21, <2>1
  <2>5. CASE id \in Of(t, "sell")
    <3>1. t = s /\ side = "sell"
      BY <1>13, <2>5 DEF Sides
    <3>2. q <= Holdings[t] - MayFill(Of(t, "sell"))
      BY <1>1, <3>1 DEF Admitted
    <3> QED
      BY <1>2, <1>20, <2>2, <2>3, <2>4, <2>5, <3>2
  <2>6. CASE id \notin Of(t, "sell")
    BY <2>2, <2>3, <2>4, <2>6
  <2> QED
    BY <2>5, <2>6
<1>23. CashIsLeft'
  <2> SUFFICES ASSUME ~dark'
               PROVE  /\ FreeCash' >= Floor
                      /\ run'.step = "buys" => run'.available <= FreeCash' - Floor
    BY DEF CashIsLeft
  <2>1. ~dark
    BY <1>9 DEF TypeOK
  <2>2. All("buy") \in SUBSET Ids /\ All("sell") \in SUBSET Ids /\ (id \in All("buy") <=> side = "buy")
    BY <1>3, <1>4, LanesHoldOrders DEF Sides, All
  <2>3. FreeCash' = FreeCash - (IF side = "buy" THEN Rest(orders'[id]) ELSE 0) /\ FreeCash \in Int
    <3>1. /\ Filled(All("buy"))' = Filled(All("buy")) /\ Filled(All("sell"))' = Filled(All("sell"))
          /\ MayFill(All("buy"))' = MayFill(All("buy")) + (IF side = "buy" THEN Rest(orders'[id]) ELSE 0)
          /\ Filled(All("buy")) \in Int /\ Filled(All("sell")) \in Int /\ MayFill(All("buy")) \in Int
      BY <1>21, <2>2
    <3>2. Rest(orders'[id]) \in Int
      BY <1>2, <1>20
    <3> QED
      BY <3>1, <3>2 DEF FreeCash
  <2>4. /\ FreeCash >= Floor /\ (run.step = "buys" => run.available <= FreeCash - Floor)
        /\ run.available \in Int /\ Floor \in Int
    BY <1>2, <2>1 DEF CashIsLeft, TypeOK
  <2>5. CASE side = "sell"
    <3>1. FreeCash' = FreeCash /\ run'.step = "sells"
      BY <1>2, <1>10, <2>3, <2>5
    <3> QED
      BY <2>4, <3>1
  <2>6. CASE side = "buy"
    <3>1. run.step = "buys" /\ q <= run.available
      BY <1>2, <2>6
    <3>2. \/ Rest(orders'[id]) = q /\ spent = q
          \/ Rest(orders'[id]) = 0 /\ spent \in {0, q}
      <4>1. told = "open" => spent = q
        BY <1>9, <2>6 DEF Spent
      <4>2. spent \in {0, q}
        BY <1>9, <2>6 DEF Spent
      <4>3. ~(told = "unknown" /\ dark' = (dark \/ side = "buy"))
        BY <2>6
      <4> QED
        BY <1>20, <4>1, <4>2, <4>3
    <3>3. q \in Nat /\ run'.available = run.available - spent /\ FreeCash' = FreeCash - Rest(orders'[id])
      BY <1>2, <1>10, <2>3, <2>6
    <3> HIDE DEF q
    <3> QED
      BY <2>3, <2>4, <3>1, <3>2, <3>3
  <2> QED
    BY <2>5, <2>6 DEF Sides
<1> QED
  BY <1>14, <1>15, <1>16, <1>17, <1>18, <1>19, <1>22, <1>23
-----------------------------------------------------------------------------
LEMMA Invariance == Spec => []IndInv
PROOF
<1>1. IndInv /\ [Next]_vars => IndInv'
  <2> SUFFICES ASSUME IndInv, [Next]_vars PROVE IndInv'
    OBVIOUS
  <2>1. ASSUME NEW phase \in {"open", "chase"}, Execute(phase) PROVE IndInv'
    BY <2>1, ExecuteKeeps
  <2>2. CASE Recover
    BY <2>2, RecoverKeeps
  <2>3. CASE ReadAccount
    BY <2>3, ReadAccountKeeps
  <2>4. CASE ReadCash
    BY <2>4, ReadCashKeeps
  <2>5. ASSUME NEW i \in Ids, Cancel(i) PROVE IndInv'
    BY <2>5, CancelKeeps
  <2>6. CASE Cancelled
    BY <2>6, CancelledKeeps
  <2>7. ASSUME NEW s \in Symbols, Skip(s) PROVE IndInv'
    BY <2>7, SkipKeeps
  <2>8. ASSUME NEW s \in Symbols, NEW side \in Sides, Submit(s, side) PROVE IndInv'
    BY <2>8, SubmitKeeps
  <2>9. CASE SellsDone
    BY <2>9, SellsDoneKeeps
  <2>10. CASE End
    BY <2>10, EndKeeps
  <2>11. ASSUME NEW i \in Ids, Fill(i) PROVE IndInv'
    BY <2>11, FillKeeps
  <2>12. ASSUME NEW i \in Ids, TakeBack(i) PROVE IndInv'
    BY <2>12, TakeBackKeeps
  <2>13. CASE UNCHANGED vars
    <3>1. UNCHANGED <<orders, asked, ledger, runs, run, torn, dark>>
      BY <2>13 DEF vars
    <3>2. LedgerIsBehind' /\ OneIsOpen' /\ SharesAreHeld'
      BY <3>1, OnlyTheRunMoves
    <3>3. TypeOK'
      BY <3>1 DEF IndInv, TypeOK
    <3>4. Numbered'
      BY <3>1 DEF IndInv, Numbered, Due
    <3>5. ViewHolds'
      BY <3>1 DEF IndInv, ViewHolds, Due, Decided
    <3>6. InPlan'
      BY <3>1, SameLedger DEF IndInv, InPlan, Planned, Wants, Due, Decided
    <3>7. CashIsLeft'
      BY <3>1, SameOrders DEF IndInv, CashIsLeft
    <3> QED
      BY <3>2, <3>3, <3>4, <3>5, <3>6, <3>7 DEF IndInv
  <2> QED
    BY <2>1, <2>2, <2>3, <2>4, <2>5, <2>6, <2>7, <2>8, <2>9, <2>10, <2>11, <2>12, <2>13 DEF Next
<1> QED
  BY <1>1, InitiallySound, PTL DEF Spec

(* Type correctness of broker, ledger and run.                             *)
THEOREM TypeCorrect == Spec => []TypeOK
PROOF
<1>1. IndInv => TypeOK
  BY DEF IndInv
<1> QED
  BY <1>1, Invariance, PTL

(* execute() never has two orders of a symbol and side alive at the broker,*)
(* through unconfirmed cancellations, lost answers and runs that die.      *)
THEOREM OneOrderLives == Spec => []OneOrderAtATime
PROOF
<1>1. IndInv => OneOrderAtATime
  <2> SUFFICES ASSUME IndInv, NEW s \in Symbols, NEW side \in Sides
               PROVE  Cardinality({i \in Of(s, side) : orders[i].state = "open"}) <= 1
    BY DEF OneOrderAtATime
  <2> DEFINE living == {i \in Of(s, side) : orders[i].state = "open"}
  <2>1. \A i, j \in living : i = j
    BY DEF IndInv, OneIsOpen
  <2> HIDE DEF living
  <2>2. CASE living = {}
    <3>1. Cardinality(living) = 0
      BY <2>2, FS_EmptySet
    <3> QED
      BY <3>1 DEF living
  <2>3. CASE living # {}
    <3>1. PICK i : i \in living
      BY <2>3
    <3>2. living = {i}
      BY <2>1, <3>1
    <3>3. Cardinality(living) = 1
      BY <3>2, FS_Singleton
    <3> QED
      BY <3>3 DEF living
  <2> QED
    BY <2>2, <2>3
<1> QED
  BY <1>1, Invariance, PTL

(* Whatever is ordered stays within the plan, unless an account was read   *)
(* that is newer than the orders: the tear is the only way out of it.      *)
THEOREM OnlyTornLeavesThePlan == Spec => []OutOfPlanOnlyTorn
PROOF
<1>1. IndInv => OutOfPlanOnlyTorn
  <2> SUFFICES ASSUME IndInv, ~torn, NEW s \in Symbols
               PROVE  /\ Ordered(s, "buy") <= Planned(s, "buy")
                      /\ Ordered(s, "sell") <= Planned(s, "sell")
    BY DEF OutOfPlanOnlyTorn, WithinPlan, Planned
  <2>1. ASSUME NEW side \in Sides PROVE Ordered(s, side) <= Planned(s, side)
    <3> DEFINE S == Of(s, side)
               f == [j \in Ids |-> Counted(ledger[j])]
               h == [j \in Ids |-> orders[j].filled]
               r == [j \in Ids |-> Rest(orders[j])]
               both == [j \in Ids |-> h[j] + r[j]]
    <3>1. S \in SUBSET Ids /\ IsFiniteSet(S)
      BY LanesHoldOrders
    <3>2. ASSUME NEW j \in S
          PROVE  /\ f[j] \in Int /\ h[j] \in Int /\ r[j] \in Int /\ both[j] \in Int
                 /\ h[j] = both[j] - r[j] /\ both[j] <= f[j]
      <4>1. j \in Ids /\ ledger[j] \in Orders /\ orders[j] \in Orders
        BY <3>1 DEF IndInv, TypeOK
      <4>2. /\ f[j] = Counted(ledger[j]) /\ h[j] = orders[j].filled /\ r[j] = Rest(orders[j])
            /\ both[j] = orders[j].filled + Rest(orders[j])
        BY <4>1
      <4>3. orders[j].filled + Rest(orders[j]) <= Counted(ledger[j])
        BY <4>1 DEF IndInv, LedgerIsBehind, Rest, Counted, Orders, None
      <4> QED
        BY <4>1, <4>2, <4>3 DEF Counted, Rest, Orders
    <3>3. /\ Booked(s, side) = SumFunctionOnSet(f, S)
          /\ Filled(S) = SumFunctionOnSet(h, S) /\ MayFill(S) = SumFunctionOnSet(r, S)
      BY DEF Booked, Filled, MayFill
    <3> HIDE DEF S, f, h, r, both
    <3>4. SumFunctionOnSet(h, S) = SumFunctionOnSet(both, S) - SumFunctionOnSet(r, S)
      BY <3>1, <3>2, SumMinus
    <3>5. SumFunctionOnSet(both, S) <= SumFunctionOnSet(f, S)
      BY <3>1, <3>2, SumMonotone
    <3>6. /\ SumFunctionOnSet(both, S) \in Int /\ SumFunctionOnSet(r, S) \in Int
          /\ SumFunctionOnSet(f, S) \in Int
      BY <3>1, <3>2, SumType
    <3>7. Ordered(s, side) = SumFunctionOnSet(both, S)
      BY <3>3, <3>4, <3>6 DEF Ordered, S
    <3>8. Booked(s, side) <= Planned(s, side) /\ Planned(s, side) \in Int
      BY WantsIsInteger DEF IndInv, InPlan
    <3> QED
      BY <3>3, <3>5, <3>6, <3>7, <3>8
  <2> QED
    BY <2>1 DEF Sides
<1> QED
  BY <1>1, Invariance, PTL

(* Purchases leave the cash the plan leaves, unless the answer to one was  *)
(* lost.                                                                   *)
THEOREM FloorIsKept == Spec => []FloorKept
PROOF
<1>1. IndInv => FloorKept
  BY DEF IndInv, CashIsLeft, FloorKept
<1> QED
  BY <1>1, Invariance, PTL
=============================================================================
