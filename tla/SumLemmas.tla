----------------------------- MODULE SumLemmas -----------------------------
(***************************************************************************)
(* What the proofs about the money need to know of a sum: SumFunction and  *)
(* SumFunctionOnSet of the community modules, over a finite set and for    *)
(* every function into the integers.  The library's induction theorems     *)
(* take an operator, which no prover here can instantiate, so an induction *)
(* over a set is an argument by a smallest counterexample: the set of      *)
(* counterexamples, were it not empty, would have a minimal member.        *)
(***************************************************************************)
EXTENDS Functions, FiniteSets, FiniteSetTheorems, WellFoundedInduction, TLAPS

(* Smallest counterexamples. *)

Less == {ss \in Nat \X Nat : ss[1] < ss[2]}

(* The order of the naturals has no infinite descent. *)
LEMMA LessWellFounded == IsWellFoundedOn(Less, Nat)
    BY NatLessThanWellFounded DEF OpToRel, Less

(* A set of naturals that has a member has a least one. *)
LEMMA Least ==
    ASSUME NEW S, S \subseteq Nat, S # {}
    PROVE  \E n \in S : \A m \in S : n <= m
  <1>1. PICK n \in S : \A m \in S : ~(<<m, n>> \in Less)
    BY LessWellFounded, WFMin
  <1>2. \A m \in S : ~(m < n)
    BY <1>1 DEF Less
  <1>. QED
    BY <1>2

(* A family of subsets of a finite set that has a member has a minimal one. *)
LEMMA Minimal ==
    ASSUME NEW S, IsFiniteSet(S), NEW B, B \subseteq SUBSET S, B # {}
    PROVE  \E s \in B : \A t \in B : t \subseteq s => t = s
  <1>1. IsWellFoundedOn(StrictSubsetOrdering(S), SUBSET S)
    BY FS_StrictSubsetOrderingWellFounded, FS_FiniteSubsetsOfFinite
  <1>2. PICK s \in B : \A t \in B : ~(<<t, s>> \in StrictSubsetOrdering(S))
    BY <1>1, WFMin
  <1>. QED
    BY <1>2 DEF StrictSubsetOrdering

---------------------------------------------------------------------------
(* The recursive function behind a sum. *)

Pick(s) == CHOOSE x \in s : TRUE

Unfolded(f, g, D) ==
    g = [s \in D |-> IF s = {} THEN 0 ELSE f[Pick(s)] + g[s \ {Pick(s)}]]

Iter(f, T) == CHOOSE g : Unfolded(f, g, SUBSET T)

(* A sum is that function, taken at the whole set. *)
LEMMA SumIsIter ==
    ASSUME NEW f, NEW T
    PROVE  SumFunctionOnSet(f, T) = Iter(f, T)[T]
    BY DEF SumFunctionOnSet, FoldFunctionOnSet, MapThenFoldSet, Iter, Unfolded, Pick

Small(T, n) == {s \in SUBSET T : Cardinality(s) <= n}

(* Such a function exists over the subsets of each size, by induction on it. *)
LEMMA UnfoldedSmall ==
    ASSUME NEW f, NEW T, IsFiniteSet(T), NEW n \in Nat
    PROVE  \E g : Unfolded(f, g, Small(T, n))
  <1> DEFINE B == {k \in Nat : ~\E g : Unfolded(f, g, Small(T, k))}
  <1> SUFFICES ASSUME B # {} PROVE FALSE
    OBVIOUS
  <1>1. PICK k \in B : \A m \in B : k <= m
    BY Least
  <1>2. \A s \in SUBSET T : IsFiniteSet(s) /\ Cardinality(s) \in Nat
    BY FS_Subset, FS_CardinalityType
  <1>3. CASE k = 0
    <2>1. Small(T, k) = {{}}
      BY <1>2, <1>3, FS_EmptySet DEF Small
    <2> DEFINE g == [s \in {{}} |-> 0]
    <2>2. Unfolded(f, g, Small(T, k))
      BY <2>1 DEF Unfolded
    <2>. QED
      BY <1>1, <2>2
  <1>4. CASE k # 0
    <2>1. k - 1 \in Nat /\ ~(k <= k - 1)
      BY <1>4
    <2>2. PICK g : Unfolded(f, g, Small(T, k - 1))
      BY <1>1, <2>1
    <2> DEFINE h == [s \in Small(T, k) |->
                       IF s = {} THEN 0 ELSE f[Pick(s)] + g[s \ {Pick(s)}]]
    <2>3. ASSUME NEW s \in Small(T, k), s # {}
          PROVE  s \ {Pick(s)} \in Small(T, k - 1)
      <3>1. Pick(s) \in s
        BY <2>3 DEF Pick
      <3>2. s \in SUBSET T /\ IsFiniteSet(s) /\ Cardinality(s) \in Nat
            /\ Cardinality(s) <= k
        BY <1>2, <2>3 DEF Small
      <3>3. Cardinality(s \ {Pick(s)}) = Cardinality(s) - 1
        BY <3>1, <3>2, FS_RemoveElement
      <3>4. Cardinality(s \ {Pick(s)}) <= k - 1
        BY <3>2, <3>3, <2>1
      <3>. QED
        BY <3>2, <3>4 DEF Small
    <2>4. ASSUME NEW s \in Small(T, k - 1)
          PROVE  s \in Small(T, k) /\ h[s] = g[s]
      <3>1. s \in Small(T, k)
        BY <1>2, <2>1, <2>4 DEF Small
      <3>. QED
        BY <2>2, <2>4, <3>1 DEF Unfolded
    <2>5. ASSUME NEW s \in Small(T, k), s # {}
          PROVE  g[s \ {Pick(s)}] = h[s \ {Pick(s)}]
      BY <2>3, <2>4, <2>5
    <2>6. Unfolded(f, h, Small(T, k))
      BY <2>5 DEF Unfolded
    <2>. QED
      BY <1>1, <2>6
  <1>. QED
    BY <1>3, <1>4

(* It exists over all subsets of a finite set. *)
LEMMA IterUnfolded ==
    ASSUME NEW f, NEW T, IsFiniteSet(T)
    PROVE  Unfolded(f, Iter(f, T), SUBSET T)
  <1>1. Cardinality(T) \in Nat
    BY FS_CardinalityType
  <1>2. SUBSET T = Small(T, Cardinality(T))
    BY FS_Subset DEF Small
  <1>3. \E g : Unfolded(f, g, Small(T, Cardinality(T)))
    BY <1>1, UnfoldedSmall
  <1>. QED
    BY <1>2, <1>3 DEF Iter

(* Two such functions agree wherever both are defined. *)
LEMMA UnfoldedUnique ==
    ASSUME NEW f, NEW g, NEW h, NEW T, IsFiniteSet(T), NEW U, U \subseteq T,
           Unfolded(f, g, SUBSET T), Unfolded(f, h, SUBSET U)
    PROVE  \A s \in SUBSET U : g[s] = h[s]
  <1> DEFINE B == {s \in SUBSET U : g[s] # h[s]}
  <1> SUFFICES ASSUME B # {} PROVE FALSE
    OBVIOUS
  <1>1. IsFiniteSet(U)
    BY FS_Subset
  <1>2. PICK s \in B : \A t \in B : t \subseteq s => t = s
    <2>1. B \subseteq SUBSET U
      OBVIOUS
    <2> HIDE DEF B
    <2>. QED
      BY <1>1, <2>1, Minimal
  <1>3. CASE s = {}
    BY <1>2, <1>3 DEF Unfolded
  <1>4. CASE s # {}
    <2>1. Pick(s) \in s
      BY <1>4 DEF Pick
    <2>2. s \ {Pick(s)} \in SUBSET U /\ s \ {Pick(s)} \in SUBSET T /\ s \in SUBSET T
      BY <1>2
    <2>3. g[s \ {Pick(s)}] = h[s \ {Pick(s)}]
      BY <1>2, <2>1, <2>2
    <2>. QED
      BY <1>2, <1>4, <2>2, <2>3 DEF Unfolded
  <1>. QED
    BY <1>3, <1>4

---------------------------------------------------------------------------
(* Sums over a finite set. *)

(* Nothing adds up to nothing. *)
LEMMA SumEmpty ==
    ASSUME NEW f
    PROVE  SumFunctionOnSet(f, {}) = 0
  <1>1. Unfolded(f, Iter(f, {}), SUBSET {})
    BY IterUnfolded, FS_EmptySet
  <1>2. Iter(f, {})[{}] = 0
    BY <1>1 DEF Unfolded
  <1>. QED
    BY <1>2, SumIsIter

(* A sum is the picked element's value and the sum of the rest. *)
LEMMA SumPick ==
    ASSUME NEW f, NEW T, IsFiniteSet(T), T # {}
    PROVE  /\ Pick(T) \in T
           /\ SumFunctionOnSet(f, T)
                = f[Pick(T)] + SumFunctionOnSet(f, T \ {Pick(T)})
  <1>1. Pick(T) \in T
    BY DEF Pick
  <1> DEFINE U == T \ {Pick(T)}
  <1>2. U \subseteq T /\ IsFiniteSet(U)
    BY FS_Subset
  <1>3. Unfolded(f, Iter(f, T), SUBSET T) /\ Unfolded(f, Iter(f, U), SUBSET U)
    BY <1>2, IterUnfolded
  <1>4. Iter(f, T)[U] = Iter(f, U)[U]
    <2>1. U \in SUBSET U
      OBVIOUS
    <2> HIDE DEF U
    <2>2. \A s \in SUBSET U : Iter(f, T)[s] = Iter(f, U)[s]
      BY <1>2, <1>3, UnfoldedUnique
    <2>. QED
      BY <2>1, <2>2
  <1>5. Iter(f, T)[T] = f[Pick(T)] + Iter(f, T)[U]
    BY <1>3 DEF Unfolded
  <1>. QED
    BY <1>1, <1>4, <1>5, SumIsIter

(* Integers add up to an integer. *)
LEMMA SumInt ==
    ASSUME NEW f, NEW T, IsFiniteSet(T), \A x \in T : f[x] \in Int
    PROVE  SumFunctionOnSet(f, T) \in Int
  <1> DEFINE B == {s \in SUBSET T : SumFunctionOnSet(f, s) \notin Int}
  <1> SUFFICES ASSUME B # {} PROVE FALSE
    OBVIOUS
  <1>1. PICK s \in B : \A t \in B : t \subseteq s => t = s
    <2>1. B \subseteq SUBSET T
      OBVIOUS
    <2> HIDE DEF B
    <2>. QED
      BY <2>1, Minimal
  <1>2. s \in SUBSET T /\ IsFiniteSet(s) /\ s # {}
    <2>1. s \in SUBSET T /\ SumFunctionOnSet(f, s) \notin Int
      OBVIOUS
    <2>2. s # {}
      BY <2>1, SumEmpty
    <2>. QED
      BY <2>1, <2>2, FS_Subset
  <1>3. /\ Pick(s) \in s
        /\ SumFunctionOnSet(f, s) = f[Pick(s)] + SumFunctionOnSet(f, s \ {Pick(s)})
    BY <1>2, SumPick
  <1>4. SumFunctionOnSet(f, s \ {Pick(s)}) \in Int
    BY <1>1, <1>2, <1>3
  <1>. QED
    BY <1>2, <1>3, <1>4

(* Any element may be taken out first. *)
LEMMA SumRemove ==
    ASSUME NEW f, NEW T, IsFiniteSet(T), \A x \in T : f[x] \in Int, NEW e \in T
    PROVE  SumFunctionOnSet(f, T) = f[e] + SumFunctionOnSet(f, T \ {e})
  <1> DEFINE Sum(s) == SumFunctionOnSet(f, s)
             B == {s \in SUBSET T : \E x \in s : Sum(s) # f[x] + Sum(s \ {x})}
  <1> SUFFICES ASSUME B # {} PROVE FALSE
    OBVIOUS
  <1>1. PICK s \in B : \A t \in B : t \subseteq s => t = s
    <2>1. B \subseteq SUBSET T
      OBVIOUS
    <2> HIDE DEF B
    <2>. QED
      BY <2>1, Minimal
  <1>2. PICK x \in s : Sum(s) # f[x] + Sum(s \ {x})
    OBVIOUS
  <1>3. s \in SUBSET T /\ IsFiniteSet(s) /\ s # {} /\ x \in s
    BY FS_Subset
  <1> DEFINE p == Pick(s)
  <1>4. p \in s /\ Sum(s) = f[p] + Sum(s \ {p})
    BY <1>3, SumPick
  <1>5. p # x
    BY <1>2, <1>4
  <1> DEFINE rest == s \ {p, x}
  <1>6. Sum(s \ {p}) = f[x] + Sum(rest)
    <2>1. /\ s \ {p} \in SUBSET T /\ x \in s \ {p} /\ s \ {p} # s
          /\ s \ {p} \subseteq s /\ (s \ {p}) \ {x} = rest
      BY <1>3, <1>4, <1>5
    <2>2. s \ {p} \notin B
      BY <1>1, <2>1
    <2>3. Sum(s \ {p}) = f[x] + Sum((s \ {p}) \ {x})
      BY <2>1, <2>2
    <2>. QED
      BY <2>1, <2>3
  <1>7. Sum(s \ {x}) = f[p] + Sum(rest)
    <2>1. /\ s \ {x} \in SUBSET T /\ p \in s \ {x} /\ s \ {x} # s
          /\ s \ {x} \subseteq s /\ (s \ {x}) \ {p} = rest
      BY <1>3, <1>4, <1>5
    <2>2. s \ {x} \notin B
      BY <1>1, <2>1
    <2>3. Sum(s \ {x}) = f[p] + Sum((s \ {x}) \ {p})
      BY <2>1, <2>2
    <2>. QED
      BY <2>1, <2>3
  <1>8. Sum(rest) \in Int /\ f[p] \in Int /\ f[x] \in Int
    <2>1. rest \in SUBSET T /\ IsFiniteSet(rest) /\ (\A y \in rest : f[y] \in Int)
      BY <1>3, FS_Subset
    <2>. QED
      BY <1>3, <1>4, <2>1, SumInt
  <1>9. Sum(s) = f[x] + Sum(s \ {x})
    <2> HIDE DEF Sum, p, rest
    <2>. QED
      BY <1>4, <1>6, <1>7, <1>8
  <1>. QED
    BY <1>2, <1>9

(* Functions that agree on the set have the same sum. *)
LEMMA SumSame ==
    ASSUME NEW f, NEW g, NEW T, IsFiniteSet(T), \A x \in T : f[x] = g[x]
    PROVE  SumFunctionOnSet(f, T) = SumFunctionOnSet(g, T)
  <1> DEFINE B == {s \in SUBSET T : SumFunctionOnSet(f, s) # SumFunctionOnSet(g, s)}
  <1> SUFFICES ASSUME B # {} PROVE FALSE
    OBVIOUS
  <1>1. PICK s \in B : \A t \in B : t \subseteq s => t = s
    <2>1. B \subseteq SUBSET T
      OBVIOUS
    <2> HIDE DEF B
    <2>. QED
      BY <2>1, Minimal
  <1>2. s \in SUBSET T /\ SumFunctionOnSet(f, s) # SumFunctionOnSet(g, s)
    OBVIOUS
  <1>3. s # {}
    BY <1>2, SumEmpty
  <1>4. IsFiniteSet(s)
    BY <1>2, FS_Subset
  <1>5. /\ Pick(s) \in s
        /\ SumFunctionOnSet(f, s) = f[Pick(s)] + SumFunctionOnSet(f, s \ {Pick(s)})
        /\ SumFunctionOnSet(g, s) = g[Pick(s)] + SumFunctionOnSet(g, s \ {Pick(s)})
    BY <1>3, <1>4, SumPick
  <1>6. SumFunctionOnSet(f, s \ {Pick(s)}) = SumFunctionOnSet(g, s \ {Pick(s)})
    BY <1>1, <1>2, <1>5
  <1>. QED
    BY <1>2, <1>5, <1>6

(* The sum of a pointwise sum is the sum of the sums. *)
LEMMA SumAdd ==
    ASSUME NEW f, NEW g, NEW h, NEW T, IsFiniteSet(T),
           \A x \in T : f[x] \in Int /\ g[x] \in Int /\ h[x] = f[x] + g[x]
    PROVE  SumFunctionOnSet(h, T) = SumFunctionOnSet(f, T) + SumFunctionOnSet(g, T)
  <1> DEFINE Sum(k, s) == SumFunctionOnSet(k, s)
             B == {s \in SUBSET T : Sum(h, s) # Sum(f, s) + Sum(g, s)}
  <1> SUFFICES ASSUME B # {} PROVE FALSE
    OBVIOUS
  <1>1. PICK s \in B : \A t \in B : t \subseteq s => t = s
    <2>1. B \subseteq SUBSET T
      OBVIOUS
    <2> HIDE DEF B
    <2>. QED
      BY <2>1, Minimal
  <1>2. s \in SUBSET T /\ Sum(h, s) # Sum(f, s) + Sum(g, s)
    OBVIOUS
  <1>3. s # {}
    BY <1>2, SumEmpty
  <1> DEFINE p == Pick(s)
             rest == s \ {p}
  <1>4. IsFiniteSet(s)
    BY <1>2, FS_Subset
  <1>5. /\ p \in s
        /\ Sum(f, s) = f[p] + Sum(f, rest)
        /\ Sum(g, s) = g[p] + Sum(g, rest)
        /\ Sum(h, s) = h[p] + Sum(h, rest)
    BY <1>3, <1>4, SumPick
  <1>6. rest \in SUBSET T /\ rest # s /\ rest \subseteq s
    BY <1>2, <1>5
  <1>7. Sum(h, rest) = Sum(f, rest) + Sum(g, rest)
    BY <1>1, <1>6
  <1>8. Sum(f, rest) \in Int /\ Sum(g, rest) \in Int
    <2>1. IsFiniteSet(rest) /\ \A x \in rest : f[x] \in Int /\ g[x] \in Int
      BY <1>6, FS_Subset
    <2>. QED
      BY <2>1, SumInt
  <1>9. f[p] \in Int /\ g[p] \in Int /\ h[p] = f[p] + g[p]
    BY <1>2, <1>5
  <1> HIDE DEF Sum, p, rest
  <1>. QED
    BY <1>2, <1>5, <1>7, <1>8, <1>9

(* Naturals add up to a natural. *)
LEMMA SumNat ==
    ASSUME NEW f, NEW T, IsFiniteSet(T), \A x \in T : f[x] \in Nat
    PROVE  SumFunctionOnSet(f, T) \in Nat
  <1> DEFINE B == {s \in SUBSET T : SumFunctionOnSet(f, s) \notin Nat}
  <1> SUFFICES ASSUME B # {} PROVE FALSE
    OBVIOUS
  <1>1. PICK s \in B : \A t \in B : t \subseteq s => t = s
    <2>1. B \subseteq SUBSET T
      OBVIOUS
    <2> HIDE DEF B
    <2>. QED
      BY <2>1, Minimal
  <1>2. s \in SUBSET T /\ SumFunctionOnSet(f, s) \notin Nat
    OBVIOUS
  <1>3. s # {}
    BY <1>2, SumEmpty
  <1>4. IsFiniteSet(s)
    BY <1>2, FS_Subset
  <1>5. /\ Pick(s) \in s
        /\ SumFunctionOnSet(f, s) = f[Pick(s)] + SumFunctionOnSet(f, s \ {Pick(s)})
    BY <1>3, <1>4, SumPick
  <1>6. SumFunctionOnSet(f, s \ {Pick(s)}) \in Nat
    BY <1>1, <1>2, <1>5
  <1>7. f[Pick(s)] \in Nat
    BY <1>2, <1>5
  <1>. QED
    BY <1>2, <1>5, <1>6, <1>7

---------------------------------------------------------------------------
(* The same for SumFunction, which adds up a whole function. *)

(* No amount is larger than the sum it is part of. *)
LEMMA TotalNat ==
    ASSUME NEW T, IsFiniteSet(T), NEW f \in [T -> Nat]
    PROVE  /\ SumFunction(f) \in Nat
           /\ \A x \in T : f[x] <= SumFunction(f)
           /\ \A x \in T, y \in T : x # y => f[x] + f[y] <= SumFunction(f)
  <1>1. SumFunction(f) = SumFunctionOnSet(f, T)
    BY DEF SumFunction
  <1>2. \A s \in SUBSET T : IsFiniteSet(s) /\ SumFunctionOnSet(f, s) \in Nat
    <2> TAKE s \in SUBSET T
    <2>1. IsFiniteSet(s) /\ \A x \in s : f[x] \in Nat
      BY FS_Subset
    <2>. QED
      BY <2>1, SumNat
  <1>3. \A s \in SUBSET T : \A x \in s :
          SumFunctionOnSet(f, s) = f[x] + SumFunctionOnSet(f, s \ {x})
    <2> TAKE s \in SUBSET T
    <2> TAKE x \in s
    <2>1. IsFiniteSet(s) /\ \A y \in s : f[y] \in Int
      BY <1>2
    <2>. QED
      BY <2>1, SumRemove
  <1>4. ASSUME NEW x \in T, NEW y \in T, x # y
        PROVE  f[x] + f[y] <= SumFunctionOnSet(f, T)
    <2>1. T \in SUBSET T /\ T \ {x} \in SUBSET T /\ y \in T \ {x}
          /\ (T \ {x}) \ {y} \in SUBSET T
      BY <1>4
    <2>2. SumFunctionOnSet(f, T) = f[x] + SumFunctionOnSet(f, T \ {x})
      BY <1>3, <2>1
    <2>3. SumFunctionOnSet(f, T \ {x}) = f[y] + SumFunctionOnSet(f, (T \ {x}) \ {y})
      BY <1>3, <2>1
    <2>4. SumFunctionOnSet(f, (T \ {x}) \ {y}) \in Nat /\ f[x] \in Nat /\ f[y] \in Nat
      BY <1>2, <2>1
    <2>. QED
      BY <2>2, <2>3, <2>4
  <1>5. ASSUME NEW x \in T PROVE f[x] <= SumFunctionOnSet(f, T)
    <2>1. T \in SUBSET T /\ T \ {x} \in SUBSET T
      OBVIOUS
    <2>2. SumFunctionOnSet(f, T) = f[x] + SumFunctionOnSet(f, T \ {x})
      BY <1>3, <2>1
    <2>3. SumFunctionOnSet(f, T \ {x}) \in Nat /\ f[x] \in Nat
      BY <1>2, <2>1
    <2>. QED
      BY <2>2, <2>3
  <1>6. SumFunctionOnSet(f, T) \in Nat
    BY <1>2
  <1>. QED
    BY <1>1, <1>4, <1>5, <1>6

(* An integer function has an integer total. *)
LEMMA TotalInt ==
    ASSUME NEW T, IsFiniteSet(T), NEW f \in [T -> Int]
    PROVE  SumFunction(f) \in Int
    BY SumInt DEF SumFunction

(* Nothing but zeros adds up to zero. *)
LEMMA TotalZero ==
    ASSUME NEW T, IsFiniteSet(T), NEW f \in [T -> Int], \A x \in T : f[x] = 0
    PROVE  SumFunction(f) = 0
  <1> DEFINE n == SumFunctionOnSet(f, T)
  <1>1. n = n + n
    BY SumAdd
  <1>2. n \in Int
    BY SumInt
  <1>3. n = 0
    <2> HIDE DEF n
    <2>. QED
      BY <1>1, <1>2
  <1>. QED
    BY <1>3 DEF SumFunction

(* The total of a pointwise sum. *)
LEMMA TotalAdd ==
    ASSUME NEW T, IsFiniteSet(T), NEW f \in [T -> Int], NEW g \in [T -> Int],
           NEW h \in [T -> Int], \A x \in T : h[x] = f[x] + g[x]
    PROVE  SumFunction(h) = SumFunction(f) + SumFunction(g)
    BY SumAdd DEF SumFunction

(* A smaller function has a smaller total. *)
LEMMA TotalMonotone ==
    ASSUME NEW T, IsFiniteSet(T), NEW f \in [T -> Int], NEW g \in [T -> Int],
           \A x \in T : f[x] <= g[x]
    PROVE  SumFunction(f) <= SumFunction(g)
  <1> DEFINE d == [x \in T |-> g[x] - f[x]]
  <1>1. d \in [T -> Nat] /\ d \in [T -> Int] /\ \A x \in T : g[x] = f[x] + d[x]
    OBVIOUS
  <1> HIDE DEF d
  <1>2. SumFunction(g) = SumFunction(f) + SumFunction(d)
    BY <1>1, TotalAdd
  <1>3. SumFunction(d) \in Nat /\ SumFunction(f) \in Int
    BY <1>1, TotalNat, TotalInt
  <1>. QED
    BY <1>2, <1>3

(* Changing one value changes the total by as much. *)
LEMMA TotalChange ==
    ASSUME NEW T, IsFiniteSet(T), NEW f \in [T -> Int], NEW g \in [T -> Int],
           NEW e \in T, \A x \in T \ {e} : g[x] = f[x]
    PROVE  SumFunction(g) = SumFunction(f) + (g[e] - f[e])
  <1>1. T \ {e} \in SUBSET T /\ IsFiniteSet(T \ {e})
    BY FS_Subset
  <1>2. SumFunctionOnSet(f, T) = f[e] + SumFunctionOnSet(f, T \ {e})
    BY SumRemove
  <1>3. SumFunctionOnSet(g, T) = g[e] + SumFunctionOnSet(g, T \ {e})
    BY SumRemove
  <1>4. SumFunctionOnSet(f, T \ {e}) = SumFunctionOnSet(g, T \ {e})
    BY <1>1, SumSame
  <1>5. SumFunctionOnSet(f, T \ {e}) \in Int
    BY <1>1, SumInt
  <1>. QED
    BY <1>2, <1>3, <1>4, <1>5 DEF SumFunction

(* A common factor comes out of a total. *)
LEMMA TotalScale ==
    ASSUME NEW T, IsFiniteSet(T), NEW f \in [T -> Int], NEW h \in [T -> Int],
           NEW c \in Int, \A x \in T : h[x] = c * f[x]
    PROVE  SumFunction(h) = c * SumFunction(f)
  <1> DEFINE Sum(k, s) == SumFunctionOnSet(k, s)
             B == {s \in SUBSET T : Sum(h, s) # c * Sum(f, s)}
  <1>1. ASSUME B # {} PROVE FALSE
    <2>1. PICK s \in B : \A t \in B : t \subseteq s => t = s
      <3>1. B \subseteq SUBSET T
        OBVIOUS
      <3> HIDE DEF B
      <3>. QED
        BY <1>1, <3>1, Minimal
    <2>2. s \in SUBSET T /\ Sum(h, s) # c * Sum(f, s)
      OBVIOUS
    <2>3. s # {}
      <3>1. Sum(h, {}) = 0 /\ Sum(f, {}) = 0 /\ c * 0 = 0
        BY SumEmpty
      <3> HIDE DEF Sum
      <3>. QED
        BY <2>2, <3>1
    <2> DEFINE p == Pick(s)
               rest == s \ {p}
    <2>4. IsFiniteSet(s)
      BY <2>2, FS_Subset
    <2>5. p \in s /\ Sum(f, s) = f[p] + Sum(f, rest) /\ Sum(h, s) = h[p] + Sum(h, rest)
      BY <2>3, <2>4, SumPick
    <2>6. rest \in SUBSET T /\ rest # s /\ rest \subseteq s
      BY <2>2, <2>5
    <2>7. Sum(h, rest) = c * Sum(f, rest)
      BY <2>1, <2>6
    <2>8. Sum(f, rest) \in Int
      <3>1. IsFiniteSet(rest) /\ \A x \in rest : f[x] \in Int
        BY <2>6, FS_Subset
      <3>. QED
        BY <3>1, SumInt
    <2>9. f[p] \in Int /\ h[p] = c * f[p]
      BY <2>2, <2>5
    <2> HIDE DEF Sum, p, rest
    <2>10. c * (f[p] + Sum(f, rest)) = c * f[p] + c * Sum(f, rest)
      BY <2>8, <2>9
    <2>. QED
      BY <2>2, <2>5, <2>7, <2>9, <2>10
  <1>2. T \in SUBSET T /\ T \notin B
    BY <1>1
  <1>. QED
    BY <1>2 DEF SumFunction

(* A sum over a part is the total of the function that is zero elsewhere. *)
LEMMA SumRestrict ==
    ASSUME NEW T, IsFiniteSet(T), NEW S \in SUBSET T, NEW f, NEW g \in [T -> Int],
           \A x \in S : g[x] = f[x], \A x \in T \ S : g[x] = 0
    PROVE  SumFunctionOnSet(f, S) = SumFunction(g)
  <1> DEFINE B == {s \in SUBSET T :
                     SumFunctionOnSet(f, s \intersect S) # SumFunctionOnSet(g, s)}
  <1>1. ASSUME B # {} PROVE FALSE
    <2>1. PICK s \in B : \A t \in B : t \subseteq s => t = s
      <3>1. B \subseteq SUBSET T
        OBVIOUS
      <3> HIDE DEF B
      <3>. QED
        BY <1>1, <3>1, Minimal
    <2>2. s \in SUBSET T /\ SumFunctionOnSet(f, s \intersect S) # SumFunctionOnSet(g, s)
      OBVIOUS
    <2>3. s # {}
      <3>1. {} \intersect S = {}
        OBVIOUS
      <3>. QED
        BY <2>2, <3>1, SumEmpty
    <2>4. PICK x \in s : TRUE
      BY <2>3
    <2>5. IsFiniteSet(s) /\ \A y \in s : g[y] \in Int
      BY <2>2, FS_Subset
    <2>6. SumFunctionOnSet(g, s) = g[x] + SumFunctionOnSet(g, s \ {x})
      BY <2>5, SumRemove
    <2>7. s \ {x} \in SUBSET T /\ s \ {x} # s /\ s \ {x} \subseteq s
      BY <2>2
    <2>8. SumFunctionOnSet(f, (s \ {x}) \intersect S) = SumFunctionOnSet(g, s \ {x})
      BY <2>1, <2>7
    <2>9. SumFunctionOnSet(g, s \ {x}) \in Int
      <3>1. IsFiniteSet(s \ {x}) /\ \A y \in s \ {x} : g[y] \in Int
        BY <2>5, <2>7, FS_Subset
      <3>. QED
        BY <3>1, SumInt
    <2>10. CASE x \in S
      <3>1. /\ IsFiniteSet(s \intersect S) /\ x \in s \intersect S
            /\ \A y \in s \intersect S : f[y] \in Int
        BY <2>2, <2>5, <2>10, FS_Subset
      <3>2. SumFunctionOnSet(f, s \intersect S)
              = f[x] + SumFunctionOnSet(f, (s \intersect S) \ {x})
        BY <3>1, SumRemove
      <3>3. (s \intersect S) \ {x} = (s \ {x}) \intersect S
        OBVIOUS
      <3>4. SumFunctionOnSet(f, s \intersect S)
              = f[x] + SumFunctionOnSet(f, (s \ {x}) \intersect S)
        BY <3>2, <3>3
      <3>. QED
        BY <2>2, <2>6, <2>8, <2>10, <3>4
    <2>11. CASE x \notin S
      <3>1. s \intersect S = (s \ {x}) \intersect S
        BY <2>11
      <3>2. g[x] = 0
        BY <2>2, <2>11
      <3>3. SumFunctionOnSet(g, s) = SumFunctionOnSet(g, s \ {x})
        BY <2>6, <2>9, <3>2
      <3>. QED
        BY <2>2, <2>8, <3>1, <3>3
    <2>. QED
      BY <2>10, <2>11
  <1>2. T \in SUBSET T /\ T \notin B
    BY <1>1
  <1>3. SumFunctionOnSet(f, T \intersect S) = SumFunctionOnSet(g, T)
    BY <1>2
  <1>4. T \intersect S = S
    OBVIOUS
  <1>. QED
    BY <1>3, <1>4 DEF SumFunction

(* A sum may be taken owner by owner. *)
LEMMA SumByOwner ==
    ASSUME NEW T, IsFiniteSet(T), NEW S, IsFiniteSet(S), NEW owner \in [S -> T],
           NEW f, \A x \in S : f[x] \in Int
    PROVE  /\ [t \in T |-> SumFunctionOnSet(f, {x \in S : owner[x] = t})] \in [T -> Int]
           /\ SumFunction([t \in T |-> SumFunctionOnSet(f, {x \in S : owner[x] = t})])
                = SumFunctionOnSet(f, S)
  <1> DEFINE Part(s, t) == {x \in s : owner[x] = t}
             Parts(s) == [t \in T |-> SumFunctionOnSet(f, Part(s, t))]
             B == {s \in SUBSET S : SumFunction(Parts(s)) # SumFunctionOnSet(f, s)}
  <1>1. ASSUME NEW s \in SUBSET S PROVE Parts(s) \in [T -> Int]
    <2>1. ASSUME NEW t \in T PROVE SumFunctionOnSet(f, Part(s, t)) \in Int
      <3>1. IsFiniteSet(Part(s, t)) /\ \A x \in Part(s, t) : f[x] \in Int
        BY FS_Subset
      <3> HIDE DEF Part
      <3>. QED
        BY <3>1, SumInt
    <2> HIDE DEF Part
    <2>. QED
      BY <2>1
  <1>2. ASSUME B # {} PROVE FALSE
    <2>1. PICK s \in B : \A t \in B : t \subseteq s => t = s
      <3>1. B \subseteq SUBSET S
        OBVIOUS
      <3> HIDE DEF B
      <3>. QED
        BY <1>2, <3>1, Minimal
    <2>2. s \in SUBSET S /\ SumFunction(Parts(s)) # SumFunctionOnSet(f, s)
      OBVIOUS
    <2>3. s # {}
      <3>1. SUFFICES ASSUME s = {} PROVE FALSE
        OBVIOUS
      <3>2. \A t \in T : Part(s, t) = {}
        BY <3>1
      <3>3. Parts(s) \in [T -> Int] /\ \A t \in T : Parts(s)[t] = 0
        <4> HIDE DEF Part
        <4>1. \A t \in T : Parts(s)[t] = SumFunctionOnSet(f, {})
          BY <3>2
        <4>. QED
          BY <1>1, <2>2, <4>1, SumEmpty
      <3>4. SumFunction(Parts(s)) = 0
        <4> HIDE DEF Parts
        <4>. QED
          BY <3>3, TotalZero
      <3>. QED
        BY <2>2, <3>1, <3>4, SumEmpty
    <2>4. PICK x \in s : TRUE
      BY <2>3
    <2> DEFINE rest == s \ {x}
    <2>5. IsFiniteSet(s) /\ x \in S /\ owner[x] \in T /\ \A y \in s : f[y] \in Int
      BY <2>2, FS_Subset
    <2>6. SumFunctionOnSet(f, s) = f[x] + SumFunctionOnSet(f, rest)
      BY <2>5, SumRemove
    <2>7. rest \in SUBSET S /\ rest # s /\ rest \subseteq s
      BY <2>2
    <2>8. SumFunction(Parts(rest)) = SumFunctionOnSet(f, rest)
      <3> HIDE DEF rest, Parts
      <3>. QED
        BY <2>1, <2>7
    <2>9. \A t \in T \ {owner[x]} : Parts(s)[t] = Parts(rest)[t]
      <3> TAKE t \in T \ {owner[x]}
      <3>1. Part(s, t) = Part(rest, t)
        OBVIOUS
      <3> HIDE DEF Part, rest
      <3>. QED
        BY <3>1
    <2>10. Parts(s)[owner[x]] = f[x] + Parts(rest)[owner[x]]
      <3> DEFINE t == owner[x]
      <3>1. /\ IsFiniteSet(Part(s, t)) /\ x \in Part(s, t)
            /\ \A y \in Part(s, t) : f[y] \in Int
        BY <2>2, <2>5, FS_Subset
      <3>2. Part(rest, t) = Part(s, t) \ {x}
        OBVIOUS
      <3>3. SumFunctionOnSet(f, Part(s, t)) = f[x] + SumFunctionOnSet(f, Part(s, t) \ {x})
        <4> HIDE DEF Part, t
        <4>. QED
          BY <3>1, SumRemove
      <3>4. t \in T
        BY <2>5
      <3> HIDE DEF Part, rest, t
      <3>5. Parts(s)[t] = f[x] + Parts(rest)[t]
        BY <3>2, <3>3, <3>4
      <3>. QED
        BY <3>5 DEF t
    <2>11. Parts(s) \in [T -> Int] /\ Parts(rest) \in [T -> Int]
      BY <1>1, <2>2, <2>7
    <2> HIDE DEF Parts, rest
    <2>12. SumFunction(Parts(s)) = SumFunction(Parts(rest))
             + (Parts(s)[owner[x]] - Parts(rest)[owner[x]])
      BY <2>5, <2>9, <2>11, TotalChange
    <2>13. SumFunction(Parts(rest)) \in Int /\ Parts(rest)[owner[x]] \in Int /\ f[x] \in Int
      BY <2>5, <2>11, TotalInt
    <2>. QED
      BY <2>2, <2>6, <2>8, <2>10, <2>12, <2>13
  <1>3. S \in SUBSET S /\ S \notin B
    BY <1>2
  <1>. QED
    BY <1>1, <1>3
============================================================================
