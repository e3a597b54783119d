------------------------------ MODULE SumProofs ------------------------------
(***************************************************************************)
(* Sums over finite sets, SumFunctionOnSet of the community modules: what  *)
(* cash, shares and turns add up to.  The sum is a fold, a function that   *)
(* is defined by recursion over the subsets of the set.  Its facts are     *)
(* proved by induction over those subsets, in the form of the least        *)
(* counterexample.                                                         *)
(***************************************************************************)
EXTENDS Integers, FiniteSetsExt, FiniteSetTheorems, WellFoundedInduction, TLAPS

(* A set of natural numbers that is not empty has a least one.             *)
LEMMA LeastExists ==
    ASSUME NEW S \in SUBSET Nat, S # {}
    PROVE  \E n \in S : \A m \in S : n <= m
PROOF
<1> DEFINE R == OpToRel(<, Nat)
<1>1. IsWellFoundedOn(R, Nat)
    BY NatLessThanWellFounded
<1>2. ASSUME NEW n \in Nat, NEW m \in Nat, <<m, n>> \notin R
      PROVE  n <= m
    BY <1>2 DEF OpToRel
<1> HIDE DEF R
<1>3. \E n \in S : \A m \in S : ~ (<<m, n>> \in R)
    BY <1>1, WFMin
<1> QED
    BY <1>2, <1>3

Chosen(s) == CHOOSE x \in s : TRUE

(* The function `it' adds up f over the sets of D.                         *)
Adds(it, f, D) ==
  it = [s \in D |-> IF s = {} THEN 0 ELSE f[Chosen(s)] + it[s \ {Chosen(s)}]]

Adder(f, S) == CHOOSE it : Adds(it, f, SUBSET S)

(* The sum of the community modules is the value of that recursion at S.   *)
LEMMA SumIs ==
  ASSUME NEW f, NEW S
  PROVE  SumFunctionOnSet(f, S) = Adder(f, S)[S]
BY DEF SumFunctionOnSet, FoldFunctionOnSet, MapThenFoldSet, Adder, Adds, Chosen

(* What the recursion takes out of a set is in it,                         *)
LEMMA ChosenIn == ASSUME NEW s, s # {} PROVE Chosen(s) \in s
BY DEF Chosen

(* and leaves a smaller finite set.                                        *)
LEMMA LessByOne ==
  ASSUME NEW s, IsFiniteSet(s), NEW x \in s
  PROVE  IsFiniteSet(s \ {x}) /\ Cardinality(s) \in Nat /\ Cardinality(s \ {x}) = Cardinality(s) - 1
         /\ Cardinality(s \ {x}) \in Nat
BY FS_RemoveElement, FS_CardinalityType

(* Induction over the subsets of a finite set.                             *)
LEMMA SubsetInduction ==
  ASSUME NEW S, IsFiniteSet(S), NEW Good,
         {} \in Good,
         ASSUME NEW s \in SUBSET S, NEW x \in s, \A y \in s : s \ {y} \in Good PROVE s \in Good
  PROVE  S \in Good
PROOF
<1> DEFINE Bad == {n \in Nat : \E s \in SUBSET S : Cardinality(s) = n /\ s \notin Good}
<1>0. \A s \in SUBSET S : IsFiniteSet(s) /\ Cardinality(s) \in Nat
  BY FS_Subset, FS_CardinalityType
<1>1. CASE Bad = {}
  BY <1>0, <1>1
<1>2. CASE Bad # {}
  <2>1. PICK n \in Bad : \A m \in Bad : n <= m
    BY <1>2, LeastExists
  <2>2. PICK s \in SUBSET S : Cardinality(s) = n /\ s \notin Good
    BY <2>1
  <2>3. PICK x : x \in s
    BY <2>2
  <2>4. ASSUME NEW y \in s PROVE s \ {y} \in Good
    <3>1. Cardinality(s \ {y}) = n - 1 /\ n - 1 \in Nat
      BY <1>0, <2>2, LessByOne
    <3>2. n - 1 \notin Bad
      BY <2>1, <3>1
    <3> QED
      BY <3>1, <3>2
  <2> QED
    BY <2>2, <2>3, <2>4
<1> QED
  BY <1>1, <1>2

(* The recursion defines a function: it does for sets of up to n members.  *)
LEMMA AdderExists ==
  ASSUME NEW f, NEW S, IsFiniteSet(S)
  PROVE  \E it : Adds(it, f, SUBSET S)
PROOF
<1> DEFINE D(n) == {s \in SUBSET S : Cardinality(s) <= n}
           Bad == {n \in Nat : ~ \E it : Adds(it, f, D(n))}
<1>0. \A s \in SUBSET S : IsFiniteSet(s) /\ Cardinality(s) \in Nat /\ Cardinality(s) <= Cardinality(S)
  BY FS_Subset, FS_CardinalityType
<1>1. SUFFICES ASSUME Bad # {} PROVE FALSE
  <2>1. D(Cardinality(S)) = SUBSET S /\ Cardinality(S) \in Nat
    BY <1>0
  <2> QED
    BY <2>1
<1>2. PICK n \in Bad : \A m \in Bad : n <= m
  <2>1. Bad \in SUBSET Nat
    OBVIOUS
  <2> HIDE DEF Bad
  <2> QED
    BY <1>1, <2>1, LeastExists
<1>n. n \in Nat /\ ~ \E it : Adds(it, f, D(n))
  OBVIOUS
<1>3. CASE n = 0
  <2> DEFINE it == [s \in D(0) |-> 0]
  <2>1. \A s \in D(0) : s = {}
    <3> SUFFICES ASSUME NEW s \in D(0), s # {} PROVE FALSE
      OBVIOUS
    <3>1. PICK x : x \in s
      OBVIOUS
    <3>2. s \in SUBSET S /\ Cardinality(s) <= 0
      OBVIOUS
    <3>3. IsFiniteSet(s)
      BY <1>0, <3>2
    <3>4. Cardinality(s \ {x}) = Cardinality(s) - 1 /\ Cardinality(s) \in Nat /\ Cardinality(s \ {x}) \in Nat
      BY <3>1, <3>3, LessByOne
    <3> QED
      BY <3>2, <3>4
  <2>2. Adds(it, f, D(0))
    BY <2>1 DEF Adds
  <2> QED
    BY <1>2, <1>3, <2>2
<1>4. CASE n # 0
  <2>0. n - 1 \in Nat /\ ~ (n <= n - 1)
    BY <1>n, <1>4
  <2>1. n - 1 \in Nat /\ n - 1 \notin Bad
    BY <1>2, <2>0
  <2>2. PICK it : Adds(it, f, D(n - 1))
    BY <2>1
  <2> DEFINE more == [s \in D(n) |-> IF s = {} THEN 0 ELSE f[Chosen(s)] + it[s \ {Chosen(s)}]]
  <2>3. ASSUME NEW s \in D(n), s # {} PROVE Chosen(s) \in s /\ s \ {Chosen(s)} \in D(n - 1)
    <3>1. Chosen(s) \in s /\ s \in SUBSET S /\ Cardinality(s) <= n
      BY <2>3, ChosenIn
    <3>2. IsFiniteSet(s)
      BY <1>0, <3>1
    <3>3. Cardinality(s \ {Chosen(s)}) = Cardinality(s) - 1 /\ Cardinality(s) \in Nat
      BY <3>1, <3>2, LessByOne
    <3>4. Cardinality(s \ {Chosen(s)}) <= n - 1
      BY <1>n, <3>1, <3>3
    <3> QED
      BY <3>1, <3>4
  <2>4. ASSUME NEW t \in D(n - 1) PROVE more[t] = it[t]
    <3>1. t \in D(n)
      <4>1. t \in SUBSET S /\ Cardinality(t) <= n - 1
        OBVIOUS
      <4>2. Cardinality(t) \in Nat
        BY <1>0, <4>1
      <4> QED
        BY <1>n, <4>1, <4>2
    <3> HIDE DEF D
    <3> QED
      BY <2>2, <3>1 DEF Adds
  <2> HIDE DEF D
  <2>5. Adds(more, f, D(n))
    BY <2>3, <2>4 DEF Adds
  <2> QED
    BY <1>n, <2>5
<1> QED
  BY <1>3, <1>4

(* So what is chosen to add up does add up.                                *)
LEMMA AdderAdds ==
  ASSUME NEW f, NEW S, IsFiniteSet(S)
  PROVE  Adds(Adder(f, S), f, SUBSET S)
BY AdderExists DEF Adder

(* The sum over T does not depend on the set the recursion ranges over.    *)
LEMMA AddersAgree ==
  ASSUME NEW f, NEW g, NEW S, NEW T \in SUBSET S, IsFiniteSet(S), \A x \in T : f[x] = g[x]
  PROVE  Adder(f, S)[T] = Adder(g, T)[T]
PROOF
<1> DEFINE Good == {s \in SUBSET T : Adder(f, S)[s] = Adder(g, T)[s]}
<1>0. IsFiniteSet(T)
  BY FS_Subset
<1>1. Adds(Adder(f, S), f, SUBSET S) /\ Adds(Adder(g, T), g, SUBSET T)
  BY <1>0, AdderAdds
<1>2. {} \in Good
  BY <1>1 DEF Adds
<1>3. ASSUME NEW s \in SUBSET T, NEW x \in s, \A y \in s : s \ {y} \in Good PROVE s \in Good
  <2>1. Chosen(s) \in s
    BY ChosenIn
  <2>2. Adder(f, S)[s] = f[Chosen(s)] + Adder(f, S)[s \ {Chosen(s)}]
    BY <1>1, <2>1 DEF Adds
  <2>3. Adder(g, T)[s] = g[Chosen(s)] + Adder(g, T)[s \ {Chosen(s)}]
    BY <1>1, <2>1 DEF Adds
  <2> QED
    BY <1>3, <2>1, <2>2, <2>3
<1> HIDE DEF Good
<1>4. T \in Good
  BY <1>0, <1>2, <1>3, SubsetInduction
<1> QED
  BY <1>4 DEF Good

(* Nothing adds up to 0.                                                   *)
LEMMA SumEmpty == ASSUME NEW f PROVE SumFunctionOnSet(f, {}) = 0
PROOF
<1>1. Adds(Adder(f, {}), f, SUBSET {})
  BY AdderAdds, FS_EmptySet
<1> QED
  BY <1>1, SumIs DEF Adds

(* The sum depends on the values on the set alone.                         *)
LEMMA SumSame ==
  ASSUME NEW f, NEW g, NEW S, IsFiniteSet(S), \A x \in S : f[x] = g[x]
  PROVE  SumFunctionOnSet(f, S) = SumFunctionOnSet(g, S)
BY AddersAgree, SumIs

(* One step of the recursion.                                              *)
LEMMA SumChosen ==
  ASSUME NEW f, NEW S, IsFiniteSet(S), S # {}
  PROVE  SumFunctionOnSet(f, S) = f[Chosen(S)] + SumFunctionOnSet(f, S \ {Chosen(S)})
PROOF
<1>1. Adds(Adder(f, S), f, SUBSET S)
  BY AdderAdds
<1>2. Adder(f, S)[S] = f[Chosen(S)] + Adder(f, S)[S \ {Chosen(S)}]
  BY <1>1 DEF Adds
<1>3. Adder(f, S)[S \ {Chosen(S)}] = Adder(f, S \ {Chosen(S)})[S \ {Chosen(S)}]
  BY AddersAgree
<1> QED
  BY <1>2, <1>3, SumIs

(* Integers add up to an integer.                                          *)
LEMMA SumType ==
  ASSUME NEW f, NEW S, IsFiniteSet(S), \A x \in S : f[x] \in Int
  PROVE  SumFunctionOnSet(f, S) \in Int
PROOF
<1> DEFINE Good == {s \in SUBSET S : SumFunctionOnSet(f, s) \in Int}
<1>1. {} \in Good
  BY SumEmpty
<1>2. ASSUME NEW s \in SUBSET S, NEW x \in s, \A y \in s : s \ {y} \in Good PROVE s \in Good
  <2>1. Chosen(s) \in s /\ IsFiniteSet(s)
    BY ChosenIn, FS_Subset
  <2>2. SumFunctionOnSet(f, s) = f[Chosen(s)] + SumFunctionOnSet(f, s \ {Chosen(s)})
    BY <2>1, SumChosen
  <2> QED
    BY <1>2, <2>1, <2>2
<1> HIDE DEF Good
<1>3. S \in Good
  BY <1>1, <1>2, SubsetInduction
<1> QED
  BY <1>3 DEF Good

(* Any member can be taken out first, not only the chosen one.             *)
LEMMA SumRemove ==
  ASSUME NEW f, NEW S, IsFiniteSet(S), \A x \in S : f[x] \in Int, NEW x \in S
  PROVE  SumFunctionOnSet(f, S) = f[x] + SumFunctionOnSet(f, S \ {x})
PROOF
<1> DEFINE Good == {s \in SUBSET S : \A y \in s :
                      SumFunctionOnSet(f, s) = f[y] + SumFunctionOnSet(f, s \ {y})}
<1>0. \A s \in SUBSET S : IsFiniteSet(s) /\ SumFunctionOnSet(f, s) \in Int
  BY FS_Subset, SumType
<1>1. {} \in Good
  OBVIOUS
<1>2. ASSUME NEW s \in SUBSET S, NEW z \in s, \A y \in s : s \ {y} \in Good PROVE s \in Good
  <2> DEFINE c == Chosen(s)
  <2>1. c \in s
    BY ChosenIn
  <2> HIDE DEF c
  <2>2. SumFunctionOnSet(f, s) = f[c] + SumFunctionOnSet(f, s \ {c})
    BY <1>0, <2>1, SumChosen DEF c
  <2>3. ASSUME NEW y \in s, y # c PROVE SumFunctionOnSet(f, s) = f[y] + SumFunctionOnSet(f, s \ {y})
    <3>1. s \ {c} \in Good /\ s \ {y} \in Good
      BY <1>2, <2>1
    <3>2. SumFunctionOnSet(f, s \ {c}) = f[y] + SumFunctionOnSet(f, (s \ {c}) \ {y})
      BY <2>3, <3>1
    <3>3. SumFunctionOnSet(f, s \ {y}) = f[c] + SumFunctionOnSet(f, (s \ {y}) \ {c})
      BY <2>1, <2>3, <3>1
    <3> DEFINE rest == SumFunctionOnSet(f, (s \ {c}) \ {y})
    <3>4. (s \ {c}) \ {y} = (s \ {y}) \ {c} /\ (s \ {c}) \ {y} \in SUBSET S
      OBVIOUS
    <3>5. f[c] \in Int /\ f[y] \in Int /\ rest \in Int
      BY <1>0, <2>1, <3>4
    <3>6. SumFunctionOnSet(f, s \ {y}) = f[c] + rest /\ SumFunctionOnSet(f, s) = f[c] + (f[y] + rest)
      BY <2>2, <3>2, <3>3, <3>4
    <3> HIDE DEF rest
    <3>7. f[c] + (f[y] + rest) = f[y] + (f[c] + rest)
      BY <3>5
    <3> QED
      BY <3>6, <3>7
  <2> QED
    BY <2>2, <2>3
<1> HIDE DEF Good
<1>3. S \in Good
  BY <1>1, <1>2, SubsetInduction
<1> QED
  BY <1>3 DEF Good

(* A member more adds its value,                                           *)
LEMMA SumAdd ==
  ASSUME NEW f, NEW S, IsFiniteSet(S), NEW y, y \notin S,
         \A x \in S \cup {y} : f[x] \in Int
  PROVE  SumFunctionOnSet(f, S \cup {y}) = f[y] + SumFunctionOnSet(f, S)
PROOF
<1>1. IsFiniteSet(S \cup {y}) /\ (S \cup {y}) \ {y} = S
  BY FS_AddElement
<1> QED
  BY <1>1, SumRemove

(* also when the function is another outside of the old set.               *)
LEMMA SumExtended ==
  ASSUME NEW f, NEW g, NEW S, IsFiniteSet(S), NEW y, y \notin S,
         \A x \in S : f[x] = g[x] /\ f[x] \in Int, g[y] \in Int
  PROVE  SumFunctionOnSet(g, S \cup {y}) = SumFunctionOnSet(f, S) + g[y]
PROOF
<1>1. SumFunctionOnSet(g, S \cup {y}) = g[y] + SumFunctionOnSet(g, S)
  BY SumAdd
<1>2. SumFunctionOnSet(g, S) = SumFunctionOnSet(f, S) /\ SumFunctionOnSet(f, S) \in Int
  BY SumSame, SumType
<1> QED
  BY <1>1, <1>2

(* One value changes.                                                      *)
LEMMA SumUpdate ==
  ASSUME NEW f, NEW g, NEW S, IsFiniteSet(S), NEW y \in S,
         \A x \in S : f[x] \in Int /\ g[x] \in Int,
         \A x \in S \ {y} : f[x] = g[x]
  PROVE  SumFunctionOnSet(g, S) = SumFunctionOnSet(f, S) + (g[y] - f[y])
PROOF
<1> DEFINE rest == SumFunctionOnSet(f, S \ {y})
<1>1. IsFiniteSet(S \ {y})
  BY FS_RemoveElement
<1>2. SumFunctionOnSet(g, S \ {y}) = rest
  BY <1>1, SumSame
<1>3. SumFunctionOnSet(f, S) = f[y] + rest /\ SumFunctionOnSet(g, S) = g[y] + rest
  BY <1>2, SumRemove
<1>4. rest \in Int /\ f[y] \in Int /\ g[y] \in Int
  BY <1>1, SumType
<1> HIDE DEF rest
<1>5. g[y] + rest = (f[y] + rest) + (g[y] - f[y])
  BY <1>4
<1> QED
  BY <1>3, <1>5

(* No value is larger, nor is the sum.                                     *)
LEMMA SumMonotone ==
  ASSUME NEW f, NEW g, NEW S, IsFiniteSet(S),
         \A x \in S : f[x] \in Int /\ g[x] \in Int /\ f[x] <= g[x]
  PROVE  SumFunctionOnSet(f, S) <= SumFunctionOnSet(g, S)
PROOF
<1> DEFINE Good == {s \in SUBSET S : SumFunctionOnSet(f, s) <= SumFunctionOnSet(g, s)}
<1>0. \A s \in SUBSET S : /\ IsFiniteSet(s)
                          /\ SumFunctionOnSet(f, s) \in Int /\ SumFunctionOnSet(g, s) \in Int
  BY FS_Subset, SumType
<1>1. {} \in Good
  BY SumEmpty
<1>2. ASSUME NEW s \in SUBSET S, NEW x \in s, \A y \in s : s \ {y} \in Good PROVE s \in Good
  <2>1. /\ SumFunctionOnSet(f, s) = f[x] + SumFunctionOnSet(f, s \ {x})
        /\ SumFunctionOnSet(g, s) = g[x] + SumFunctionOnSet(g, s \ {x})
    BY <1>0, SumRemove
  <2>2. /\ s \ {x} \in SUBSET S
        /\ SumFunctionOnSet(f, s \ {x}) \in Int /\ SumFunctionOnSet(g, s \ {x}) \in Int
    BY <1>0
  <2>3. SumFunctionOnSet(f, s \ {x}) <= SumFunctionOnSet(g, s \ {x})
    BY <1>2
  <2>4. f[x] \in Int /\ g[x] \in Int /\ f[x] <= g[x]
    OBVIOUS
  <2> QED
    BY <2>1, <2>2, <2>3, <2>4
<1> HIDE DEF Good
<1>3. S \in Good
  BY <1>1, <1>2, SubsetInduction
<1> QED
  BY <1>3 DEF Good

(* Sums of differences are differences of sums.                            *)
LEMMA SumMinus ==
  ASSUME NEW f, NEW g, NEW h, NEW S, IsFiniteSet(S),
         \A x \in S : f[x] \in Int /\ g[x] \in Int /\ h[x] = f[x] - g[x]
  PROVE  SumFunctionOnSet(h, S) = SumFunctionOnSet(f, S) - SumFunctionOnSet(g, S)
PROOF
<1> DEFINE Good == {s \in SUBSET S : SumFunctionOnSet(h, s)
                                       = SumFunctionOnSet(f, s) - SumFunctionOnSet(g, s)}
<1>0. \A s \in SUBSET S : /\ IsFiniteSet(s)
                          /\ SumFunctionOnSet(f, s) \in Int /\ SumFunctionOnSet(g, s) \in Int
  BY FS_Subset, SumType
<1>1. {} \in Good
  BY SumEmpty
<1>2. ASSUME NEW s \in SUBSET S, NEW x \in s, \A y \in s : s \ {y} \in Good PROVE s \in Good
  <2>1. /\ SumFunctionOnSet(f, s) = f[x] + SumFunctionOnSet(f, s \ {x})
        /\ SumFunctionOnSet(g, s) = g[x] + SumFunctionOnSet(g, s \ {x})
        /\ SumFunctionOnSet(h, s) = h[x] + SumFunctionOnSet(h, s \ {x})
    BY <1>0, SumRemove
  <2>2. /\ s \ {x} \in SUBSET S
        /\ SumFunctionOnSet(f, s \ {x}) \in Int /\ SumFunctionOnSet(g, s \ {x}) \in Int
    BY <1>0
  <2>3. SumFunctionOnSet(h, s \ {x}) = SumFunctionOnSet(f, s \ {x}) - SumFunctionOnSet(g, s \ {x})
    BY <1>2
  <2>4. f[x] \in Int /\ g[x] \in Int /\ h[x] = f[x] - g[x]
    OBVIOUS
  <2> QED
    BY <2>1, <2>2, <2>3, <2>4
<1> HIDE DEF Good
<1>3. S \in Good
  BY <1>1, <1>2, SubsetInduction
<1> QED
  BY <1>3 DEF Good

(* Zeros add up to 0.                                                      *)
LEMMA SumOfNothing ==
  ASSUME NEW f, NEW S, IsFiniteSet(S), \A x \in S : f[x] = 0
  PROVE  SumFunctionOnSet(f, S) = 0
PROOF
<1> DEFINE Good == {s \in SUBSET S : SumFunctionOnSet(f, s) = 0}
<1>1. {} \in Good
  BY SumEmpty
<1>2. ASSUME NEW s \in SUBSET S, NEW x \in s, \A y \in s : s \ {y} \in Good PROVE s \in Good
  <2>1. SumFunctionOnSet(f, s) = f[x] + SumFunctionOnSet(f, s \ {x})
    BY FS_Subset, SumRemove
  <2> QED
    BY <1>2, <2>1
<1> HIDE DEF Good
<1>3. S \in Good
  BY <1>1, <1>2, SubsetInduction
<1> QED
  BY <1>3 DEF Good

(* Natural numbers add up to a natural number.                             *)
LEMMA SumNatural ==
  ASSUME NEW f, NEW S, IsFiniteSet(S), \A x \in S : f[x] \in Nat
  PROVE  SumFunctionOnSet(f, S) \in Nat
PROOF
<1> DEFINE zero == [x \in S |-> 0]
<1>1. SumFunctionOnSet(zero, S) = 0
  BY SumOfNothing
<1>2. SumFunctionOnSet(zero, S) <= SumFunctionOnSet(f, S)
  BY SumMonotone
<1>3. SumFunctionOnSet(f, S) \in Int
  BY SumType
<1> QED
  BY <1>1, <1>2, <1>3

(* The same numbers under other names.                                     *)
LEMMA SumRenamed ==
  ASSUME NEW f, NEW g, NEW h, NEW S, NEW T, IsFiniteSet(S), h \in [S -> T],
         \A x, y \in S : h[x] = h[y] => x = y,
         \A t \in T : \E x \in S : h[x] = t,
         \A t \in T : f[t] \in Int,
         \A x \in S : g[x] = f[h[x]]
  PROVE  SumFunctionOnSet(g, S) = SumFunctionOnSet(f, T)
PROOF
<1> DEFINE Of(s) == {h[x] : x \in s}
           Good == {s \in SUBSET S : /\ IsFiniteSet(Of(s))
                                     /\ SumFunctionOnSet(g, s) = SumFunctionOnSet(f, Of(s))}
<1>0. \A s \in SUBSET S : IsFiniteSet(s) /\ Of(s) \subseteq T
  BY FS_Subset
<1>1. {} \in Good
  <2>1. Of({}) = {}
    OBVIOUS
  <2> QED
    BY <2>1, SumEmpty, FS_EmptySet
<1>2. ASSUME NEW s \in SUBSET S, NEW x \in s, \A y \in s : s \ {y} \in Good PROVE s \in Good
  <2> DEFINE all == Of(s)
             less == Of(s \ {x})
  <2>1. IsFiniteSet(less) /\ SumFunctionOnSet(g, s \ {x}) = SumFunctionOnSet(f, less)
    BY <1>2
  <2>2. /\ all = less \cup {h[x]} /\ h[x] \notin less
        /\ \A t \in less \cup {h[x]} : f[t] \in Int
    OBVIOUS
  <2> HIDE DEF all, less
  <2>3. IsFiniteSet(all)
    BY <2>1, <2>2, FS_AddElement
  <2>4. SumFunctionOnSet(f, all) = f[h[x]] + SumFunctionOnSet(f, less)
    BY <2>1, <2>2, SumAdd
  <2>5. SumFunctionOnSet(g, s) = g[x] + SumFunctionOnSet(g, s \ {x})
    BY <1>0, SumRemove
  <2> QED
    BY <2>1, <2>3, <2>4, <2>5 DEF all, less
<1>3. S \in Good
  <2> HIDE DEF Good
  <2> QED
    BY <1>1, <1>2, SubsetInduction
<1>4. Of(S) = T
  OBVIOUS
<1> QED
  BY <1>3, <1>4
==============================================================================
