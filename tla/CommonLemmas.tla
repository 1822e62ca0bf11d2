---------------------------- MODULE CommonLemmas ----------------------------
(***************************************************************************)
(* What the proofs of several components rest on: products, quotients and  *)
(* sums, and what the book operators do to a sequence of resting orders.   *)
(***************************************************************************)
EXTENDS BookOps, FiniteSetsExt, FiniteSetTheorems, WellFoundedInduction,
        SequenceTheorems, TLAPS

(* Products of naturals are naturals.                                       *)
LEMMA ProductNat == \A a, b \in Nat : a * b \in Nat
OBVIOUS

(* So are quotients.                                                        *)
LEMMA DivNat == \A a \in Nat, q \in Nat \ {0} : a \div q \in Nat
OBVIOUS

(* Multiplying and dividing by the same number is exact.                   *)
LEMMA MulDivExact ==
    ASSUME NEW a \in Nat, NEW q \in Nat \ {0}
    PROVE  (a * q) \div q = a
<1> DEFINE d == (a * q) \div q
<1>1. a * q \in Nat /\ d \in Nat
  BY ProductNat, DivNat
<1>2. d * q <= a * q /\ a * q < (d + 1) * q
  BY <1>1
<1> HIDE DEF d
<1>3. ~(d < a)
  <2>1. d < a => (d + 1) * q <= a * q
    BY <1>1
  <2> QED BY <1>1, <1>2, <2>1
<1>4. ~(a < d)
  <2>1. a < d => (a + 1) * q <= d * q
    BY <1>1
  <2>2. (a + 1) * q = a * q + q
    BY <1>1
  <2> QED BY <1>1, <1>2, <2>1, <2>2
<1> QED BY <1>1, <1>3, <1>4 DEF d

(* A pro-rata part is no more than the whole.                              *)
LEMMA ShareBound ==
    ASSUME NEW a \in Nat, NEW n \in Nat, NEW q \in Nat \ {0}, n <= q
    PROVE  (a * n) \div q \in Nat /\ (a * n) \div q <= a
<1> DEFINE d == (a * n) \div q
<1>1. a * n \in Nat /\ d \in Nat
  BY ProductNat, DivNat
<1>2. d * q <= a * n
  BY <1>1
<1>3. a * n <= a * q
  OBVIOUS
<1> HIDE DEF d
<1>4. ~(a < d)
  <2>1. a < d => (a + 1) * q <= d * q
    BY <1>1
  <2>2. (a + 1) * q = a * q + q /\ a * q \in Nat /\ d * q \in Nat
    BY <1>1
  <2> QED BY <1>1, <1>2, <1>3, <2>1, <2>2
<1> QED BY <1>1, <1>4 DEF d

-----------------------------------------------------------------------------
\* Sums over finite sets.  What SumFunctionOnSet computes is shown by induction
\* over the subsets of a finite set: a minimal counterexample in the
\* strict-subset ordering.

(* A nonempty set of subsets of a finite set has a smallest element.        *)
LEMMA SmallestSubset ==
    ASSUME NEW S, IsFiniteSet(S), NEW Bad, Bad \subseteq SUBSET S, Bad # {}
    PROVE  \E T \in Bad : \A U \in Bad : U \subseteq T => U = T
<1>1. IsWellFoundedOn(StrictSubsetOrdering(S), SUBSET S)
  BY FS_StrictSubsetOrderingWellFounded, FS_FiniteSubsetsOfFinite
<1>2. \E T \in Bad : \A U \in Bad : ~(<<U, T>> \in StrictSubsetOrdering(S))
  BY <1>1, WFMin
<1> QED BY <1>2 DEF StrictSubsetOrdering

\* the element a fold takes first
First(s) == CHOOSE x \in s : TRUE

(* A nonempty set has it.                                                   *)
LEMMA FirstIn == \A s : s # {} => First(s) \in s
BY DEF First

\* g is the recursive function of a sum of f over subsets of S
IsSum(g, f, S) ==
    g = [s \in SUBSET S |-> IF s = {} THEN 0 ELSE f[First(s)] + g[s \ {First(s)}]]

(* What that function is at a set, the empty one and any other.             *)
LEMMA SumValues ==
    ASSUME NEW S, NEW f, NEW g, IsSum(g, f, S), NEW s \in SUBSET S
    PROVE  /\ s = {} => g[s] = 0
           /\ s # {} => /\ First(s) \in s
                        /\ g[s] = f[First(s)] + g[s \ {First(s)}]
<1>1. g[s] = IF s = {} THEN 0 ELSE f[First(s)] + g[s \ {First(s)}]
  BY DEF IsSum
<1> QED BY <1>1, FirstIn

(* It does not depend on the set it was made for.                           *)
LEMMA SumUnique ==
    ASSUME NEW S, IsFiniteSet(S), NEW f, NEW T \in SUBSET S,
           NEW g, IsSum(g, f, S), NEW h, IsSum(h, f, T)
    PROVE  \A s \in SUBSET T : g[s] = h[s]
<1> DEFINE Bad == {s \in SUBSET T : g[s] # h[s]}
<1> SUFFICES ASSUME Bad # {} PROVE FALSE
  OBVIOUS
<1>1. IsFiniteSet(T)
  BY FS_Subset
<1>2. PICK s \in Bad : \A u \in Bad : u \subseteq s => u = s
  <2>1. Bad \subseteq SUBSET T
    OBVIOUS
  <2> HIDE DEF Bad
  <2> QED BY <1>1, <2>1, SmallestSubset
<1>3. s \in SUBSET T /\ s \in SUBSET S
  OBVIOUS
<1>4. s # {}
  BY <1>3, SumValues
<1>5. /\ First(s) \in s
      /\ g[s] = f[First(s)] + g[s \ {First(s)}]
      /\ h[s] = f[First(s)] + h[s \ {First(s)}]
  BY <1>3, <1>4, SumValues
<1>6. s \ {First(s)} \notin Bad
  BY <1>2, <1>5
<1>7. g[s \ {First(s)}] = h[s \ {First(s)}]
  BY <1>3, <1>6
<1> QED BY <1>5, <1>7

(* There is one.                                                            *)
LEMMA SumExists ==
    ASSUME NEW S, IsFiniteSet(S), NEW f
    PROVE  \E g : IsSum(g, f, S)
<1> DEFINE Bad == {T \in SUBSET S : ~\E g : IsSum(g, f, T)}
<1> SUFFICES ASSUME Bad # {} PROVE FALSE
  OBVIOUS
<1>1. PICK T \in Bad : \A U \in Bad : U \subseteq T => U = T
  <2>1. Bad \subseteq SUBSET S
    OBVIOUS
  <2> HIDE DEF Bad
  <2> QED BY <2>1, SmallestSubset
<1>2. T \in SUBSET S /\ IsFiniteSet(T)
  BY FS_Subset
<1> DEFINE G(U) == CHOOSE g : IsSum(g, f, U)
<1>3. ASSUME NEW U \in SUBSET T, U # T PROVE IsSum(G(U), f, U) /\ IsFiniteSet(U)
  <2>1. \E g : IsSum(g, f, U)
    BY <1>1, <1>3
  <2> QED BY <2>1, <1>2, FS_Subset
<1> DEFINE val(s) == IF s = {} THEN 0
                     ELSE f[First(s)] + G(s \ {First(s)})[s \ {First(s)}]
           g == [s \in SUBSET T |-> val(s)]
<1> HIDE DEF G
<1>4. ASSUME NEW u \in SUBSET T, u # T PROVE g[u] = G(u)[u]
  <2>1. IsSum(G(u), f, u) /\ IsFiniteSet(u) /\ u \in SUBSET u
    BY <1>3, <1>4
  <2>2. CASE u = {}
    <3>1. G(u)[u] = 0
      BY <2>1, <2>2, SumValues
    <3>2. g[u] = 0
      BY <2>2
    <3> QED BY <3>1, <3>2
  <2>3. CASE u # {}
    <3> DEFINE w == u \ {First(u)}
    <3>1. /\ First(u) \in u
          /\ G(u)[u] = f[First(u)] + G(u)[w]
      BY <2>1, <2>3, SumValues
    <3>2. w \in SUBSET T /\ w # T /\ w \in SUBSET u
      BY <3>1
    <3>3. IsSum(G(w), f, w)
      BY <3>2, <1>3
    <3>4. G(u)[w] = G(w)[w]
      BY <2>1, <3>2, <3>3, SumUnique
    <3>5. g[u] = f[First(u)] + G(w)[w]
      BY <2>3
    <3> QED BY <3>1, <3>4, <3>5
  <2> QED BY <2>2, <2>3
<1>5. ASSUME NEW s \in SUBSET T
      PROVE  g[s] = IF s = {} THEN 0 ELSE f[First(s)] + g[s \ {First(s)}]
  <2>1. CASE s = {}
    BY <2>1
  <2>2. CASE s # {}
    <3>1. First(s) \in s
      BY <2>2, FirstIn
    <3>2. s \ {First(s)} \in SUBSET T /\ s \ {First(s)} # T
      BY <3>1
    <3>3. g[s \ {First(s)}] = G(s \ {First(s)})[s \ {First(s)}]
      BY <3>2, <1>4
    <3>4. g[s] = f[First(s)] + G(s \ {First(s)})[s \ {First(s)}]
      BY <2>2
    <3> QED BY <3>3, <3>4, <2>2
  <2> QED BY <2>1, <2>2
<1>6. g = [s \in SUBSET T |-> g[s]]
  OBVIOUS
<1>7. IsSum(g, f, T)
  <2> HIDE DEF g
  <2> QED BY <1>5, <1>6 DEF IsSum
<1> QED BY <1>7

(* The sum of the community modules is its value at the whole set.          *)
LEMMA SumDefined ==
    ASSUME NEW S, IsFiniteSet(S), NEW f
    PROVE  LET g == CHOOSE g : IsSum(g, f, S)
           IN  IsSum(g, f, S) /\ SumFunctionOnSet(f, S) = g[S]
<1>1. IsSum(CHOOSE g : IsSum(g, f, S), f, S)
  BY SumExists
<1>2. SumFunctionOnSet(f, S) = (CHOOSE g : IsSum(g, f, S))[S]
  BY DEF SumFunctionOnSet, FoldFunctionOnSet, MapThenFoldSet, IsSum, First
<1> QED BY <1>1, <1>2

-----------------------------------------------------------------------------
(* What a sum is, whatever the order it is taken in                         *)

(* The sum of nothing is zero.                                              *)
LEMMA SumEmpty == ASSUME NEW f PROVE SumFunctionOnSet(f, {}) = 0
<1>1. IsFiniteSet({})
  BY FS_EmptySet
<1> DEFINE g == CHOOSE g : IsSum(g, f, {})
<1>2. IsSum(g, f, {}) /\ SumFunctionOnSet(f, {}) = g[{}]
  BY <1>1, SumDefined
<1> HIDE DEF g
<1>3. {} \in SUBSET {}
  OBVIOUS
<1>4. g[{}] = 0
  BY <1>1, <1>2, <1>3, SumValues
<1> QED BY <1>2, <1>4

(* A sum is the summand taken first and the sum of the others.              *)
LEMMA SumFirst ==
    ASSUME NEW S, IsFiniteSet(S), NEW f, S # {}
    PROVE  /\ First(S) \in S
           /\ SumFunctionOnSet(f, S) =
                  f[First(S)] + SumFunctionOnSet(f, S \ {First(S)})
<1> DEFINE T == S \ {First(S)}
           g == CHOOSE g : IsSum(g, f, S)
           h == CHOOSE h : IsSum(h, f, T)
<1>1. T \in SUBSET S /\ IsFiniteSet(T)
  BY FS_Subset
<1>2. IsSum(g, f, S) /\ SumFunctionOnSet(f, S) = g[S]
  BY SumDefined
<1>3. IsSum(h, f, T) /\ SumFunctionOnSet(f, T) = h[T]
  BY <1>1, SumDefined
<1> HIDE DEF g, h
<1>4. First(S) \in S /\ g[S] = f[First(S)] + g[T]
  BY <1>2, SumValues
<1>5. g[T] = h[T]
  BY <1>1, <1>2, <1>3, SumUnique
<1> QED BY <1>2, <1>3, <1>4, <1>5

(* A sum of integers is one.                                                *)
LEMMA SumInt ==
    ASSUME NEW S, IsFiniteSet(S), NEW f, \A x \in S : f[x] \in Int
    PROVE  SumFunctionOnSet(f, S) \in Int
<1> DEFINE Bad == {T \in SUBSET S : SumFunctionOnSet(f, T) \notin Int}
<1> SUFFICES ASSUME Bad # {} PROVE FALSE
  BY DEF Bad
<1>1. PICK T \in Bad : \A U \in Bad : U \subseteq T => U = T
  <2>1. Bad \subseteq SUBSET S
    OBVIOUS
  <2> HIDE DEF Bad
  <2> QED BY <2>1, SmallestSubset
<1>2. T \in SUBSET S /\ IsFiniteSet(T) /\ SumFunctionOnSet(f, T) \notin Int
  BY FS_Subset
<1>3. T # {}
  BY <1>2, SumEmpty
<1>4. /\ First(T) \in T
      /\ SumFunctionOnSet(f, T) = f[First(T)] + SumFunctionOnSet(f, T \ {First(T)})
  BY <1>2, <1>3, SumFirst
<1>5. SumFunctionOnSet(f, T \ {First(T)}) \in Int
  BY <1>1, <1>2, <1>4
<1> QED BY <1>2, <1>4, <1>5

(* Any element may be taken out.                                            *)
LEMMA SumRemove ==
    ASSUME NEW S, IsFiniteSet(S), NEW f, \A x \in S : f[x] \in Int, NEW x \in S
    PROVE  SumFunctionOnSet(f, S) = f[x] + SumFunctionOnSet(f, S \ {x})
<1> DEFINE Takes(T) == \A y \in T :
               SumFunctionOnSet(f, T) = f[y] + SumFunctionOnSet(f, T \ {y})
           Bad == {T \in SUBSET S : ~Takes(T)}
<1> SUFFICES ASSUME Bad # {} PROVE FALSE
  OBVIOUS
<1>1. PICK T \in Bad : \A U \in Bad : U \subseteq T => U = T
  <2>1. Bad \subseteq SUBSET S
    OBVIOUS
  <2> HIDE DEF Bad
  <2> QED BY <2>1, SmallestSubset
<1>2. T \in SUBSET S /\ IsFiniteSet(T)
  BY FS_Subset
<1>3. PICK y \in T : SumFunctionOnSet(f, T) # f[y] + SumFunctionOnSet(f, T \ {y})
  OBVIOUS
<1> DEFINE c == First(T)
<1>4. c \in T /\ SumFunctionOnSet(f, T) = f[c] + SumFunctionOnSet(f, T \ {c})
  BY <1>2, SumFirst
<1> HIDE DEF c
<1>5. y # c
  BY <1>3, <1>4
<1>6. ASSUME NEW U \in SUBSET S, U \subseteq T, U # T
      PROVE  /\ Takes(U)
             /\ IsFiniteSet(U)
  BY <1>1, <1>2, <1>6, FS_Subset
<1> HIDE DEF Bad
<1>7. SumFunctionOnSet(f, T \ {c}) = f[y] + SumFunctionOnSet(f, (T \ {c}) \ {y})
  BY <1>2, <1>4, <1>5, <1>6
<1>8. SumFunctionOnSet(f, T \ {y}) = f[c] + SumFunctionOnSet(f, (T \ {y}) \ {c})
  BY <1>2, <1>4, <1>5, <1>6
<1>9. (T \ {c}) \ {y} = (T \ {y}) \ {c}
  OBVIOUS
<1>10. SumFunctionOnSet(f, (T \ {c}) \ {y}) \in Int
  <2>1. IsFiniteSet((T \ {c}) \ {y})
    BY <1>2, FS_Subset
  <2> QED BY <1>2, <2>1, SumInt
<1>11. f[c] \in Int /\ f[y] \in Int
  BY <1>2, <1>4
<1>12. \A a, b, r, s, t, u \in Int :
          s = a + t /\ t = b + r /\ u = a + r => s = b + u
  OBVIOUS
<1> DEFINE rest == SumFunctionOnSet(f, (T \ {c}) \ {y})
           noc  == SumFunctionOnSet(f, T \ {c})
           noy  == SumFunctionOnSet(f, T \ {y})
           all  == SumFunctionOnSet(f, T)
<1>13. all = f[c] + noc /\ noc = f[y] + rest /\ noy = f[c] + rest /\ rest \in Int
  BY <1>4, <1>7, <1>8, <1>9, <1>10
<1>14. all # f[y] + noy
  BY <1>3
<1> HIDE DEF rest, noc, noy, all
<1> QED BY <1>11, <1>12, <1>13, <1>14

(* Equal summands have equal sums.                                          *)
LEMMA SumSame ==
    ASSUME NEW S, IsFiniteSet(S), NEW f, NEW g, \A x \in S : f[x] = g[x]
    PROVE  SumFunctionOnSet(f, S) = SumFunctionOnSet(g, S)
<1> DEFINE Bad == {T \in SUBSET S : SumFunctionOnSet(f, T) # SumFunctionOnSet(g, T)}
<1> SUFFICES ASSUME Bad # {} PROVE FALSE
  OBVIOUS
<1>1. PICK T \in Bad : \A U \in Bad : U \subseteq T => U = T
  <2>1. Bad \subseteq SUBSET S
    OBVIOUS
  <2> HIDE DEF Bad
  <2> QED BY <2>1, SmallestSubset
<1>2. T \in SUBSET S /\ IsFiniteSet(T)
  BY FS_Subset
<1>3. T # {}
  BY SumEmpty
<1>4. /\ First(T) \in T
      /\ SumFunctionOnSet(f, T) = f[First(T)] + SumFunctionOnSet(f, T \ {First(T)})
      /\ SumFunctionOnSet(g, T) = g[First(T)] + SumFunctionOnSet(g, T \ {First(T)})
  BY <1>2, <1>3, SumFirst
<1>5. SumFunctionOnSet(f, T \ {First(T)}) = SumFunctionOnSet(g, T \ {First(T)})
  BY <1>1, <1>2, <1>4
<1> QED BY <1>2, <1>4, <1>5

(* A sum grows with one of its summands.                                    *)
LEMMA SumMoves ==
    ASSUME NEW S, IsFiniteSet(S), NEW f, NEW g, NEW x \in S, NEW d \in Int,
           \A y \in S : f[y] \in Int, g[x] = f[x] + d,
           \A y \in S \ {x} : g[y] = f[y]
    PROVE  SumFunctionOnSet(g, S) = SumFunctionOnSet(f, S) + d
<1>1. f[x] \in Int /\ g[x] \in Int
  OBVIOUS
<1>2. SumFunctionOnSet(f, S) \in Int
  BY SumInt
<1>3. IsFiniteSet(S \ {x})
  BY FS_RemoveElement
<1>4. \A y \in S : g[y] \in Int
  BY <1>1
<1>5. SumFunctionOnSet(f, S) = f[x] + SumFunctionOnSet(f, S \ {x})
  BY SumRemove
<1>6. SumFunctionOnSet(g, S) = g[x] + SumFunctionOnSet(g, S \ {x})
  BY <1>4, SumRemove, Zenon
<1>7. SumFunctionOnSet(f, S \ {x}) = SumFunctionOnSet(g, S \ {x})
  BY <1>3, SumSame
<1>8. SumFunctionOnSet(f, S \ {x}) \in Int
  BY <1>3, SumInt
<1> QED BY <1>1, <1>5, <1>6, <1>7, <1>8

(* Two sums of integers add up summand by summand.                          *)
LEMMA SumAdd ==
    ASSUME NEW S, IsFiniteSet(S), NEW f, NEW g, NEW h,
           \A x \in S : f[x] \in Int /\ g[x] \in Int /\ h[x] = f[x] + g[x]
    PROVE  SumFunctionOnSet(h, S) = SumFunctionOnSet(f, S) + SumFunctionOnSet(g, S)
<1> DEFINE Bad == {T \in SUBSET S : SumFunctionOnSet(h, T)
                        # SumFunctionOnSet(f, T) + SumFunctionOnSet(g, T)}
<1> SUFFICES ASSUME Bad # {} PROVE FALSE
  OBVIOUS
<1>1. PICK T \in Bad : \A U \in Bad : U \subseteq T => U = T
  <2>1. Bad \subseteq SUBSET S
    OBVIOUS
  <2> HIDE DEF Bad
  <2> QED BY <2>1, SmallestSubset
<1>2. T \in SUBSET S /\ IsFiniteSet(T)
  BY FS_Subset
<1>3. T # {}
  <2>1. /\ SumFunctionOnSet(f, {}) = 0
        /\ SumFunctionOnSet(g, {}) = 0
        /\ SumFunctionOnSet(h, {}) = 0
    BY SumEmpty
  <2>2. SumFunctionOnSet(h, {}) = SumFunctionOnSet(f, {}) + SumFunctionOnSet(g, {})
    BY <2>1
  <2> QED BY <2>2
<1> DEFINE U == T \ {First(T)}
<1>4. /\ First(T) \in T
      /\ SumFunctionOnSet(f, T) = f[First(T)] + SumFunctionOnSet(f, U)
      /\ SumFunctionOnSet(g, T) = g[First(T)] + SumFunctionOnSet(g, U)
      /\ SumFunctionOnSet(h, T) = h[First(T)] + SumFunctionOnSet(h, U)
  BY <1>2, <1>3, SumFirst
<1>5. SumFunctionOnSet(h, U) = SumFunctionOnSet(f, U) + SumFunctionOnSet(g, U)
  BY <1>1, <1>2, <1>4
<1>6. IsFiniteSet(U) /\ U \subseteq S
  BY <1>2, FS_Subset
<1>7. SumFunctionOnSet(f, U) \in Int /\ SumFunctionOnSet(g, U) \in Int
  BY <1>6, SumInt
<1>8. SumFunctionOnSet(h, T) # SumFunctionOnSet(f, T) + SumFunctionOnSet(g, T)
  OBVIOUS
<1>9. h[First(T)] = f[First(T)] + g[First(T)] /\ f[First(T)] \in Int /\ g[First(T)] \in Int
  BY <1>2, <1>4
<1> HIDE DEF Bad, U
<1> QED BY <1>4, <1>5, <1>7, <1>8, <1>9

(* A sum of natural numbers is one, and no summand exceeds it.              *)
LEMMA SumNat ==
    ASSUME NEW S, IsFiniteSet(S), NEW f, \A x \in S : f[x] \in Nat
    PROVE  /\ SumFunctionOnSet(f, S) \in Nat
           /\ \A x \in S : f[x] <= SumFunctionOnSet(f, S)
<1> DEFINE Bad == {T \in SUBSET S : SumFunctionOnSet(f, T) \notin Nat}
<1>1. ASSUME Bad # {} PROVE FALSE
  <2>1. PICK T \in Bad : \A U \in Bad : U \subseteq T => U = T
    <3>1. Bad \subseteq SUBSET S
      OBVIOUS
    <3> HIDE DEF Bad
    <3> QED BY <1>1, <3>1, SmallestSubset
  <2>2. T \in SUBSET S /\ IsFiniteSet(T) /\ SumFunctionOnSet(f, T) \notin Nat
    BY FS_Subset
  <2>3. T # {}
    BY <2>2, SumEmpty
  <2>4. /\ First(T) \in T
        /\ SumFunctionOnSet(f, T) = f[First(T)] + SumFunctionOnSet(f, T \ {First(T)})
    BY <2>2, <2>3, SumFirst
  <2>5. SumFunctionOnSet(f, T \ {First(T)}) \in Nat
    BY <2>1, <2>2, <2>4
  <2> QED BY <2>2, <2>4, <2>5
<1>2. \A T \in SUBSET S : SumFunctionOnSet(f, T) \in Nat
  BY <1>1
<1>3. ASSUME NEW x \in S PROVE f[x] <= SumFunctionOnSet(f, S)
  <2>1. SumFunctionOnSet(f, S) = f[x] + SumFunctionOnSet(f, S \ {x})
    BY SumRemove
  <2>2. SumFunctionOnSet(f, S \ {x}) \in Nat
    BY <1>2
  <2> QED BY <2>1, <2>2
<1> QED BY <1>2, <1>3

(* A sum of zeros is zero.                                                  *)
LEMMA SumZero ==
    ASSUME NEW S, IsFiniteSet(S), NEW f, \A x \in S : f[x] = 0
    PROVE  SumFunctionOnSet(f, S) = 0
<1> DEFINE Bad == {T \in SUBSET S : SumFunctionOnSet(f, T) # 0}
<1> SUFFICES ASSUME Bad # {} PROVE FALSE
  OBVIOUS
<1>1. PICK T \in Bad : \A U \in Bad : U \subseteq T => U = T
  <2>1. Bad \subseteq SUBSET S
    OBVIOUS
  <2> HIDE DEF Bad
  <2> QED BY <2>1, SmallestSubset
<1>2. T \in SUBSET S /\ IsFiniteSet(T) /\ SumFunctionOnSet(f, T) # 0
  BY FS_Subset
<1>3. T # {}
  BY <1>2, SumEmpty
<1>4. /\ First(T) \in T
      /\ SumFunctionOnSet(f, T) = f[First(T)] + SumFunctionOnSet(f, T \ {First(T)})
  BY <1>2, <1>3, SumFirst
<1>5. SumFunctionOnSet(f, T \ {First(T)}) = 0
  BY <1>1, <1>2, <1>4
<1> QED BY <1>2, <1>4, <1>5

(* A sum of ones counts.                                                    *)
LEMMA SumOnes ==
    ASSUME NEW S, IsFiniteSet(S), NEW f, \A x \in S : f[x] = 1
    PROVE  SumFunctionOnSet(f, S) = Cardinality(S)
<1> DEFINE Bad == {T \in SUBSET S : SumFunctionOnSet(f, T) # Cardinality(T)}
<1> SUFFICES ASSUME Bad # {} PROVE FALSE
  OBVIOUS
<1>1. PICK T \in Bad : \A U \in Bad : U \subseteq T => U = T
  <2>1. Bad \subseteq SUBSET S
    OBVIOUS
  <2> HIDE DEF Bad
  <2> QED BY <2>1, SmallestSubset
<1>2. T \in SUBSET S /\ IsFiniteSet(T) /\ SumFunctionOnSet(f, T) # Cardinality(T)
  BY FS_Subset
<1>3. T # {}
  BY <1>2, SumEmpty, FS_EmptySet
<1> DEFINE t == First(T)
<1>4. /\ t \in T
      /\ SumFunctionOnSet(f, T) = f[t] + SumFunctionOnSet(f, T \ {t})
  BY <1>2, <1>3, SumFirst
<1>5. SumFunctionOnSet(f, T \ {t}) = Cardinality(T \ {t})
  BY <1>1, <1>2, <1>4
<1>6. Cardinality(T \ {t}) = Cardinality(T) - 1 /\ Cardinality(T) \in Nat
  BY <1>2, <1>4, FS_RemoveElement, FS_CardinalityType
<1>7. f[t] = 1
  BY <1>2, <1>4
<1> HIDE DEF t
<1> QED BY <1>2, <1>4, <1>5, <1>6, <1>7

(* A constant factor comes out of a sum.                                    *)
LEMMA SumScale ==
    ASSUME NEW S, IsFiniteSet(S), NEW c \in Int, NEW f, NEW h,
           \A x \in S : f[x] \in Int /\ h[x] = c * f[x]
    PROVE  SumFunctionOnSet(h, S) = c * SumFunctionOnSet(f, S)
<1> DEFINE Bad == {T \in SUBSET S : SumFunctionOnSet(h, T)
                                       # c * SumFunctionOnSet(f, T)}
<1> SUFFICES ASSUME Bad # {} PROVE FALSE
  OBVIOUS
<1>1. PICK T \in Bad : \A U \in Bad : U \subseteq T => U = T
  <2>1. Bad \subseteq SUBSET S
    OBVIOUS
  <2> HIDE DEF Bad
  <2> QED BY <2>1, SmallestSubset
<1>2. /\ T \in SUBSET S /\ IsFiniteSet(T)
      /\ SumFunctionOnSet(h, T) # c * SumFunctionOnSet(f, T)
  BY FS_Subset
<1>3. T # {}
  <2>1. SumFunctionOnSet(f, {}) = 0 /\ SumFunctionOnSet(h, {}) = 0
    BY SumEmpty
  <2>2. SumFunctionOnSet(h, {}) = c * SumFunctionOnSet(f, {})
    BY <2>1
  <2> QED BY <1>2, <2>2
<1> DEFINE t == First(T)
           a == SumFunctionOnSet(f, T \ {t})
           b == SumFunctionOnSet(h, T \ {t})
<1>4. /\ t \in T
      /\ SumFunctionOnSet(f, T) = f[t] + a
      /\ SumFunctionOnSet(h, T) = h[t] + b
  BY <1>2, <1>3, SumFirst
<1>5. b = c * a
  BY <1>1, <1>2, <1>4
<1>6. a \in Int /\ f[t] \in Int /\ h[t] = c * f[t]
  <2>1. IsFiniteSet(T \ {t}) /\ \A x \in T \ {t} : f[x] \in Int
    BY <1>2, FS_RemoveElement
  <2>2. a \in Int
    BY <2>1, SumInt
  <2> QED BY <1>2, <1>4, <2>2
<1> HIDE DEF a, b, t
<1>7. \A i, j \in Int : c * (i + j) = c * i + c * j
  OBVIOUS
<1>8. c * (f[t] + a) = h[t] + b
  BY <1>5, <1>6, <1>7
<1> QED BY <1>2, <1>4, <1>8

(* Summands that are zero outside T and within c of zero in T.              *)
LEMMA SumWithin ==
    ASSUME NEW S, IsFiniteSet(S), NEW T, NEW c \in Nat, NEW f,
           \A x \in S : f[x] \in Int,
           \A x \in S : IF x \in T THEN -c <= f[x] /\ f[x] <= c ELSE f[x] = 0
    PROVE  /\ SumFunctionOnSet(f, S) <= c * Cardinality(S \cap T)
           /\ -SumFunctionOnSet(f, S) <= c * Cardinality(S \cap T)
<1> DEFINE Within(U) == /\ SumFunctionOnSet(f, U) <= c * Cardinality(U \cap T)
                        /\ -SumFunctionOnSet(f, U) <= c * Cardinality(U \cap T)
           Bad == {U \in SUBSET S : ~Within(U)}
<1> SUFFICES ASSUME Bad # {} PROVE FALSE
  OBVIOUS
<1>1. PICK U \in Bad : \A V \in Bad : V \subseteq U => V = U
  <2>1. Bad \subseteq SUBSET S
    OBVIOUS
  <2> HIDE DEF Bad
  <2> QED BY <2>1, SmallestSubset
<1>2. U \in SUBSET S /\ IsFiniteSet(U) /\ ~Within(U)
  BY FS_Subset
<1>3. U # {}
  <2>1. SumFunctionOnSet(f, {}) = 0 /\ Cardinality({} \cap T) = 0
    BY SumEmpty, FS_EmptySet
  <2>2. c * 0 = 0
    OBVIOUS
  <2>3. Within({})
    BY <2>1, <2>2
  <2> QED BY <1>2, <2>3
<1> DEFINE x == First(U)
           V == U \ {x}
           a == SumFunctionOnSet(f, U)
           b == SumFunctionOnSet(f, V)
           k == Cardinality(U \cap T)
           j == Cardinality(V \cap T)
<1>4. x \in U /\ a = f[x] + b
  BY <1>2, <1>3, SumFirst
<1>5. Within(V)
  BY <1>1, <1>2, <1>4
<1>6. b <= c * j /\ -b <= c * j /\ ~(a <= c * k /\ -a <= c * k)
  BY <1>2, <1>5
<1>7. b \in Int /\ f[x] \in Int
  <2>1. IsFiniteSet(V) /\ \A y \in V : f[y] \in Int
    BY <1>2, FS_RemoveElement
  <2> HIDE DEF V
  <2>2. b \in Int
    BY <2>1, SumInt
  <2> QED BY <1>2, <1>4, <2>2
<1>8. k \in Nat /\ j = IF x \in T THEN k - 1 ELSE k
  <2>1. IsFiniteSet(U \cap T)
    BY <1>2, FS_Subset
  <2>2. V \cap T = (U \cap T) \ {x} /\ (x \in U \cap T <=> x \in T)
    BY <1>4
  <2>3. Cardinality((U \cap T) \ {x})
          = IF x \in U \cap T THEN Cardinality(U \cap T) - 1 ELSE Cardinality(U \cap T)
    BY <2>1, FS_RemoveElement
  <2>4. Cardinality(U \cap T) \in Nat
    BY <2>1, FS_CardinalityType
  <2> QED BY <2>2, <2>3, <2>4
<1>9. IF x \in T THEN -c <= f[x] /\ f[x] <= c ELSE f[x] = 0
  BY <1>2, <1>4
<1> HIDE DEF x, V, a, b, k, j
<1>10. CASE x \in T
  <2>1. j = k - 1 /\ c * (k - 1) = c * k - c
    BY <1>8, <1>10
  <2> DEFINE p == c * k
  <2>2. p \in Nat
    BY <1>8, ProductNat
  <2>3. b <= p - c /\ -b <= p - c /\ ~(a <= p /\ -a <= p) /\ a = f[x] + b
    BY <1>4, <1>6, <2>1
  <2> HIDE DEF p
  <2> QED BY <1>7, <1>9, <1>10, <2>2, <2>3
<1>11. CASE x \notin T
  BY <1>4, <1>6, <1>7, <1>8, <1>9, <1>11
<1> QED BY <1>10, <1>11

(* The sums of the classes into which a key sorts the summands are, summed, *)
(* the whole sum.                                                           *)
LEMMA SumByKey ==
    ASSUME NEW S, IsFiniteSet(S), NEW K, IsFiniteSet(K),
           NEW f, \A x \in S : f[x] \in Int, NEW key, \A x \in S : key[x] \in K,
           NEW part,
           \A a \in K : \A x \in S : part[a][x] = (IF key[x] = a THEN f[x] ELSE 0),
           NEW g, \A a \in K : g[a] = SumFunctionOnSet(part[a], S)
    PROVE  SumFunctionOnSet(g, K) = SumFunctionOnSet(f, S)
<1> DEFINE G(T) == [a \in K |-> SumFunctionOnSet(part[a], T)]
           Bad == {T \in SUBSET S :
                     SumFunctionOnSet(G(T), K) # SumFunctionOnSet(f, T)}
<1>1. SumFunctionOnSet(g, K) = SumFunctionOnSet(G(S), K)
  <2>1. \A a \in K : g[a] = G(S)[a]
    OBVIOUS
  <2> HIDE DEF G
  <2> QED BY <2>1, SumSame
<1>2. \A T : \A a \in K : G(T)[a] = SumFunctionOnSet(part[a], T)
  OBVIOUS
<1> HIDE DEF G
<1>3. ASSUME Bad # {} PROVE FALSE
  <2>1. PICK T \in Bad : \A U \in Bad : U \subseteq T => U = T
    <3>1. Bad \subseteq SUBSET S
      OBVIOUS
    <3> HIDE DEF Bad
    <3> QED BY <1>3, <3>1, SmallestSubset
  <2>2. /\ T \in SUBSET S /\ IsFiniteSet(T)
        /\ SumFunctionOnSet(G(T), K) # SumFunctionOnSet(f, T)
    BY FS_Subset
  <2>3. T # {}
    <3>1. \A a \in K : G({})[a] = 0
      BY <1>2, SumEmpty
    <3>2. SumFunctionOnSet(G({}), K) = 0
      BY <3>1, SumZero
    <3> QED BY <2>2, <3>2, SumEmpty
  <2> DEFINE t == First(T)
             U == T \ {t}
  <2>4. t \in T /\ SumFunctionOnSet(f, T) = f[t] + SumFunctionOnSet(f, U)
    BY <2>2, <2>3, SumFirst
  <2>5. \A a \in K : SumFunctionOnSet(part[a], T)
                       = part[a][t] + SumFunctionOnSet(part[a], U)
    BY <2>2, <2>3, SumFirst
  <2>6. U \in SUBSET S /\ IsFiniteSet(U) /\ U \notin Bad
    BY <2>1, <2>2, <2>4, FS_Subset
  <2>7. SumFunctionOnSet(G(U), K) = SumFunctionOnSet(f, U)
    BY <2>6
  <2>8. /\ f[t] \in Int
        /\ key[t] \in K
        /\ \A a \in K : part[a][t] = IF key[t] = a THEN f[t] ELSE 0
    BY <2>2, <2>4
  <2>9. \A a \in K : G(U)[a] \in Int
    <3>1. ASSUME NEW a \in K PROVE G(U)[a] \in Int
      <4>1. \A x \in U : part[a][x] \in Int
        BY <2>6
      <4> QED BY <1>2, <2>6, <4>1, SumInt
    <3> QED BY <3>1
  <2>10. SumFunctionOnSet(f, U) \in Int
    BY <2>6, SumInt
  <2> HIDE DEF t, U, Bad
  <2>11. G(T)[key[t]] = G(U)[key[t]] + f[t]
    BY <1>2, <2>5, <2>8, <2>9
  <2>12. \A a \in K \ {key[t]} : G(T)[a] = G(U)[a]
    BY <1>2, <2>5, <2>8, <2>9
  <2>13. SumFunctionOnSet(G(T), K) = SumFunctionOnSet(G(U), K) + f[t]
    <3> DEFINE before == G(U)
               after == G(T)
               k == key[t]
               d == f[t]
    <3>1. /\ k \in K /\ d \in Int /\ after[k] = before[k] + d
          /\ \A a \in K : before[a] \in Int
          /\ \A a \in K \ {k} : after[a] = before[a]
      BY <2>8, <2>9, <2>11, <2>12
    <3> HIDE DEF before, after, k, d
    <3>2. SumFunctionOnSet(after, K) = SumFunctionOnSet(before, K) + d
      BY ONLY <3>1, IsFiniteSet(K), SumMoves
    <3> QED BY <3>2 DEF before, after, d
  <2> QED BY <2>2, <2>4, <2>7, <2>8, <2>10, <2>13
<1>4. S \notin Bad
  BY <1>3
<1> QED BY <1>1, <1>4

(* The sum of a sequence grows by what is appended.                         *)
LEMMA SumAppended ==
    ASSUME NEW n \in Nat, NEW f, NEW g,
           \A i \in 1..n : f[i] \in Int /\ g[i] = f[i], g[n + 1] \in Int
    PROVE  SumFunctionOnSet(g, 1..(n + 1)) = SumFunctionOnSet(f, 1..n) + g[n + 1]
<1>1. IsFiniteSet(1..n) /\ IsFiniteSet(1..(n + 1))
  BY FS_Interval
<1>2. /\ \A i \in 1..(n + 1) : g[i] \in Int
      /\ n + 1 \in 1..(n + 1)
      /\ (1..(n + 1)) \ {n + 1} = 1..n
  OBVIOUS
<1>3. SumFunctionOnSet(g, 1..(n + 1)) = g[n + 1] + SumFunctionOnSet(g, 1..n)
  BY <1>1, <1>2, SumRemove
<1>4. SumFunctionOnSet(g, 1..n) = SumFunctionOnSet(f, 1..n)
  BY <1>1, SumSame
<1>5. SumFunctionOnSet(f, 1..n) \in Int
  BY <1>1, SumInt
<1> QED BY <1>3, <1>4, <1>5

(* Natural summands: a part of the set sums to no more than the whole, and  *)
(* to the whole when all else is zero.                                      *)
LEMMA SumPart ==
    ASSUME NEW S, IsFiniteSet(S), NEW f, \A x \in S : f[x] \in Nat, NEW E \in SUBSET S
    PROVE  /\ SumFunctionOnSet(f, E) <= SumFunctionOnSet(f, S)
           /\ (\A x \in S \ E : f[x] = 0)
                => SumFunctionOnSet(f, E) = SumFunctionOnSet(f, S)
<1> DEFINE sum(T) == SumFunctionOnSet(f, T)
           Holds(T) == /\ sum(E) <= sum(E \cup T)
                       /\ (\A x \in T : f[x] = 0) => sum(E) = sum(E \cup T)
           Bad == {T \in SUBSET (S \ E) : ~Holds(T)}
<1>1. \A T \in SUBSET S : IsFiniteSet(T) /\ sum(T) \in Nat
  <2> SUFFICES ASSUME NEW T \in SUBSET S PROVE IsFiniteSet(T) /\ sum(T) \in Nat
    OBVIOUS
  <2>1. IsFiniteSet(T) /\ \A x \in T : f[x] \in Nat
    BY FS_Subset
  <2> QED BY <2>1, SumNat
<1>2. ASSUME Bad # {} PROVE FALSE
  <2>1. PICK T \in Bad : \A U \in Bad : U \subseteq T => U = T
    <3>1. Bad \subseteq SUBSET (S \ E) /\ IsFiniteSet(S \ E)
      BY <1>1
    <3> HIDE DEF Bad
    <3> QED BY <1>2, <3>1, SmallestSubset
  <2>2. T \in SUBSET (S \ E) /\ ~Holds(T)
    OBVIOUS
  <2>3. T # {}
    <3>1. E \cup {} = E /\ sum(E) \in Nat
      BY <1>1
    <3>2. Holds({})
      BY <3>1
    <3> QED BY <2>2, <3>2
  <2>4. PICK x : x \in T
    BY <2>3
  <2> DEFINE U == T \ {x}
             W == E \cup T
  <2>5. /\ W \in SUBSET S /\ x \in W /\ W \ {x} = E \cup U /\ f[x] \in Nat
        /\ E \cup U \in SUBSET S /\ E \in SUBSET S
    BY <2>2, <2>4
  <2>6. sum(W) = f[x] + sum(E \cup U)
    <3>1. IsFiniteSet(W) /\ \A y \in W : f[y] \in Int
      BY <1>1, <2>5
    <3> HIDE DEF W, U
    <3>2. SumFunctionOnSet(f, W) = f[x] + SumFunctionOnSet(f, W \ {x})
      BY <2>5, <3>1, SumRemove
    <3> QED BY <2>5, <3>2
  <2>7. Holds(U)
    <3>1. U \in SUBSET (S \ E) /\ U \subseteq T /\ U # T
      BY <2>2, <2>4
    <3> QED BY <2>1, <3>1
  <2>8. sum(W) \in Nat /\ sum(E \cup U) \in Nat /\ sum(E) \in Nat
    BY <1>1, <2>5
  <2> HIDE DEF sum, W
  <2>9. sum(E) <= sum(W)
    BY <2>5, <2>6, <2>7, <2>8
  <2>10. ASSUME \A y \in T : f[y] = 0 PROVE sum(E) = sum(W)
    <3>1. f[x] = 0 /\ sum(E) = sum(E \cup U)
      BY <2>4, <2>7, <2>10
    <3> QED BY <2>6, <2>8, <3>1
  <2>11. Holds(T)
    BY <2>9, <2>10 DEF W
  <2> QED BY <2>2, <2>11
<1>3. S \ E \notin Bad /\ E \cup (S \ E) = S
  BY <1>2
<1>4. Holds(S \ E)
  BY <1>3
<1> QED BY <1>3, <1>4

-----------------------------------------------------------------------------
\* Books.

\* two resting orders alike in all but what remains of them
Alike(o, p) ==
    /\ o.id = p.id
    /\ o.owner = p.owner
    /\ o.side = p.side
    /\ o.px = p.px
    /\ o.seq = p.seq

\* c comes from b by removing and part-filling orders: h finds the old place
\* of each order, and the places keep their order
Thinned(c, b, h) ==
    /\ h \in [DOMAIN c -> DOMAIN b]
    /\ \A k \in DOMAIN c : Alike(c[k], b[h[k]])
    /\ \A k, l \in DOMAIN c : k < l => h[k] < h[l]

(* Removing one order closes the gap it leaves.                            *)
LEMMA WithoutIs ==
    ASSUME NEW S, NEW b \in Seq(S), NEW i \in DOMAIN b
    PROVE  /\ Without(b, i) \in Seq(S)
           /\ Len(Without(b, i)) = Len(b) - 1
           /\ \A k \in 1..(Len(b) - 1) :
                 Without(b, i)[k] = IF k < i THEN b[k] ELSE b[k + 1]
<1> DEFINE l == SubSeq(b, 1, i - 1)
           r == SubSeq(b, i + 1, Len(b))
           c == Without(b, i)
<1>1. Len(b) \in Nat /\ DOMAIN b = 1..Len(b) /\ i \in 1..Len(b)
      /\ \A k \in 1..Len(b) : b[k] \in S
  BY LenProperties, ElementOfSeq
<1>2. /\ l \in Seq(S)
      /\ Len(l) = i - 1
      /\ \A k \in 1..(i - 1) : l[k] = b[k]
  <2>1. \A k \in 1..(i - 1) : b[k] \in S
    BY <1>1
  <2> QED BY <1>1, <2>1, SubSeqProperties
<1>3. /\ r \in Seq(S)
      /\ Len(r) = Len(b) - i
      /\ \A k \in 1..(Len(b) - i) : r[k] = b[i + k]
  <2>1. \A k \in (i + 1)..Len(b) : b[k] \in S
    BY <1>1
  <2>2. i + 1 \in Int /\ Len(b) \in Int
    BY <1>1
  <2>3. /\ r \in Seq(S)
        /\ Len(r) = IF i + 1 <= Len(b) THEN Len(b) - (i + 1) + 1 ELSE 0
        /\ \A k \in 1..(Len(b) - (i + 1) + 1) : r[k] = b[i + 1 + k - 1]
    BY <2>1, <2>2, SubSeqProperties
  <2> HIDE DEF r
  <2>4. Len(r) = Len(b) - i
    BY <1>1, <2>3
  <2>5. \A k \in 1..(Len(b) - i) : r[k] = b[i + k]
    <3>1. \A k \in 1..(Len(b) - i) : /\ k \in 1..(Len(b) - (i + 1) + 1)
                                      /\ i + 1 + k - 1 = i + k
      BY <1>1
    <3> QED BY <2>3, <3>1
  <2> QED BY <2>3, <2>4, <2>5
<1>4. /\ c \in Seq(S)
      /\ Len(c) = Len(b) - 1
      /\ \A k \in 1..(Len(b) - 1) : c[k] = IF k < i THEN b[k] ELSE b[k + 1]
  <2>1. /\ c \in Seq(S)
        /\ Len(c) = Len(l) + Len(r)
        /\ \A k \in 1..(Len(l) + Len(r)) :
             c[k] = IF k <= Len(l) THEN l[k] ELSE r[k - Len(l)]
    BY <1>2, <1>3, ConcatProperties DEF Without
  <2> HIDE DEF l, r, c
  <2>2. ASSUME NEW k \in 1..(Len(b) - 1)
        PROVE  c[k] = IF k < i THEN b[k] ELSE b[k + 1]
    <3>1. CASE k < i
      BY <1>1, <1>2, <1>3, <2>1, <3>1
    <3>2. CASE ~(k < i)
      <4>1. k - (i - 1) \in 1..(Len(b) - i) /\ i + (k - (i - 1)) = k + 1
        BY <1>1, <3>2
      <4>2. r[k - (i - 1)] = b[k + 1]
        BY <1>3, <4>1
      <4>3. k \in 1..(Len(l) + Len(r)) /\ ~(k <= Len(l)) /\ Len(l) = i - 1
        BY <1>1, <1>2, <1>3, <3>2
      <4>4. c[k] = r[k - (i - 1)]
        BY <2>1, <4>3
      <4> QED BY <3>2, <4>2, <4>4
    <3> QED BY <3>1, <3>2
  <2> QED BY <1>1, <1>2, <1>3, <2>1, <2>2
<1> QED BY <1>4 DEF c

(* What is left is a book, with its orders in their order.                 *)
LEMMA WithoutThins ==
    ASSUME NEW S, NEW b \in Seq(S), NEW i \in DOMAIN b
    PROVE  /\ Without(b, i) \in Seq(S)
           /\ \E h : /\ Thinned(Without(b, i), b, h)
                     /\ \A k \in DOMAIN Without(b, i) :
                          h[k] # i /\ Without(b, i)[k] = b[h[k]]
<1> DEFINE c == Without(b, i)
           h == [k \in 1..(Len(b) - 1) |-> IF k < i THEN k ELSE k + 1]
<1>1. Len(b) \in Nat /\ DOMAIN b = 1..Len(b) /\ i \in 1..Len(b)
  BY LenProperties
<1>4. /\ c \in Seq(S)
      /\ Len(c) = Len(b) - 1
      /\ \A k \in 1..(Len(b) - 1) : c[k] = IF k < i THEN b[k] ELSE b[k + 1]
  BY WithoutIs
<1> HIDE DEF c
<1>5. DOMAIN c = 1..(Len(b) - 1)
  BY <1>4, LenProperties
<1>6. \A k \in DOMAIN c : h[k] \in DOMAIN b /\ h[k] # i /\ c[k] = b[h[k]]
  BY <1>1, <1>4, <1>5
<1>7. Thinned(c, b, h)
  <2>1. h \in [DOMAIN c -> DOMAIN b]
    BY <1>5, <1>6
  <2>2. \A k, m \in DOMAIN c : k < m => h[k] < h[m]
    BY <1>1, <1>5
  <2> QED BY <1>6, <2>1, <2>2 DEF Thinned, Alike
<1> QED BY <1>4, <1>6, <1>7 DEF c

\* the resting orders with ids, owners and prices from given sets
RestingOf(I, O, P) ==
    [id : I, owner : O, side : Sides, px : P, rem : Nat \ {0}, seq : Nat]

(* A fill of at most what an order has left thins the book.                *)
LEMMA ConsumeThins ==
    ASSUME NEW I, NEW O, NEW P, NEW b \in Seq(RestingOf(I, O, P)),
           NEW i \in DOMAIN b, NEW q \in Nat \ {0}, q <= b[i].rem
    PROVE  /\ Consume(b, i, q) \in Seq(RestingOf(I, O, P))
           /\ \E h : Thinned(Consume(b, i, q), b, h)
<1> DEFINE S == RestingOf(I, O, P)
<1>1. CASE b[i].rem = q
  BY <1>1, WithoutThins DEF Consume
<1>2. CASE b[i].rem # q
  <2> DEFINE e == [b[i] EXCEPT !.rem = @ - q]
             c == [b EXCEPT ![i] = e]
             h == [k \in DOMAIN b |-> k]
  <2>1. Len(b) \in Nat /\ DOMAIN b = 1..Len(b) /\ i \in 1..Len(b) /\ b[i] \in S
    BY LenProperties, ElementOfSeq
  <2>2. b[i].rem \in Nat /\ b[i].rem - q \in Nat \ {0}
    BY <1>2, <2>1 DEF RestingOf
  <2>3. e \in S /\ Alike(e, b[i])
    BY <2>1, <2>2 DEF RestingOf, Alike
  <2> HIDE DEF e
  <2>4. /\ c \in Seq(S)
        /\ Len(c) = Len(b)
        /\ \A j \in 1..Len(b) : c[j] = IF j = i THEN e ELSE b[j]
    BY <2>1, <2>3, ExceptSeq
  <2>5. DOMAIN c = DOMAIN b
    BY <2>1, <2>4, LenProperties
  <2>6. \A k \in DOMAIN c : Alike(c[k], b[h[k]])
    BY <2>1, <2>3, <2>4, <2>5 DEF Alike
  <2>7. Thinned(c, b, h)
    BY <2>1, <2>5, <2>6 DEF Thinned
  <2>8. Consume(b, i, q) = c
    BY <1>2 DEF Consume, e
  <2> QED BY <2>4, <2>7, <2>8
<1> QED BY <1>1, <1>2

(* A thinned book is as uncrossed as it was, holds no order twice and no   *)
(* order it did not hold.                                                  *)
LEMMA ThinnedSound ==
    ASSUME NEW S, NEW b \in Seq(S), NEW c \in Seq(S), NEW h, Thinned(c, b, h)
    PROVE  /\ Uncrossed(b) => Uncrossed(c)
           /\ UniqueIds(b) => UniqueIds(c)
           /\ RestingIds(c) \subseteq RestingIds(b)
<1>1. \A k \in DOMAIN c : h[k] \in DOMAIN b /\ Alike(c[k], b[h[k]])
  BY DEF Thinned
<1>2. Uncrossed(b) => Uncrossed(c)
  BY <1>1 DEF Uncrossed, Alike
<1>3. UniqueIds(b) => UniqueIds(c)
  <2> SUFFICES ASSUME UniqueIds(b), NEW k \in DOMAIN c, NEW m \in DOMAIN c,
                      c[k].id = c[m].id
               PROVE  k = m
    BY DEF UniqueIds
  <2>1. h[k] = h[m]
    BY <1>1 DEF UniqueIds, Alike
  <2>2. k \in Nat /\ m \in Nat /\ h[k] \in Nat
    BY <1>1, LenProperties
  <2>3. ~(k < m) /\ ~(m < k)
    BY <2>1, <2>2 DEF Thinned
  <2> QED BY <2>2, <2>3
<1>4. RestingIds(c) \subseteq RestingIds(b)
  BY <1>1 DEF RestingIds, Alike
<1> QED BY <1>2, <1>3, <1>4

(* Resting an order that crosses nothing and has a fresh id keeps a book   *)
(* uncrossed and its ids unique.                                           *)
LEMMA RestSound ==
    ASSUME NEW I, NEW O, NEW P \in SUBSET Int,
           NEW b \in Seq(RestingOf(I, O, P)), NEW e \in RestingOf(I, O, P)
    PROVE  /\ Append(b, e) \in Seq(RestingOf(I, O, P))
           /\ Len(Append(b, e)) = Len(b) + 1
           /\ \A k \in 1..Len(b) : Append(b, e)[k] = b[k]
           /\ Append(b, e)[Len(b) + 1] = e
           /\ Uncrossed(b) /\ ~CanMatch(b, e.side, e.px) => Uncrossed(Append(b, e))
           /\ UniqueIds(b) /\ e.id \notin RestingIds(b) => UniqueIds(Append(b, e))
<1> DEFINE S == RestingOf(I, O, P)
           c == Append(b, e)
<1>1. Len(b) \in Nat /\ DOMAIN b = 1..Len(b) /\ \A k \in 1..Len(b) : b[k] \in S
  BY LenProperties, ElementOfSeq
<1>2. e.side \in Sides /\ e.px \in Int
  BY DEF RestingOf
<1>3. /\ c \in Seq(S)
      /\ Len(c) = Len(b) + 1
      /\ \A k \in 1..Len(b) : c[k] = b[k]
      /\ c[Len(b) + 1] = e
  BY AppendProperties
<1>4. DOMAIN c = 1..(Len(b) + 1)
  BY <1>3, LenProperties
<1> HIDE DEF c
<1>5. ASSUME Uncrossed(b), ~CanMatch(b, e.side, e.px)
      PROVE  Uncrossed(c)
  <2> SUFFICES ASSUME NEW k \in DOMAIN c, NEW m \in DOMAIN c,
                      c[k].side = "buy", c[m].side = "sell"
               PROVE  c[k].px < c[m].px
    BY DEF Uncrossed
  <2>1. \A j \in 1..Len(b) : b[j].px \in Int
    BY <1>1 DEF RestingOf
  <2>2. \A j \in DOMAIN b : b[j].side # e.side => ~Crosses(e.side, e.px, b[j].px)
    BY <1>5 DEF CanMatch, OppOrders
  <2>3. CASE k \in 1..Len(b) /\ m \in 1..Len(b)
    BY <1>1, <1>3, <1>5, <2>3 DEF Uncrossed
  <2>4. CASE k \in 1..Len(b) /\ m = Len(b) + 1
    <3>1. e.side = "sell" /\ c[m] = e /\ c[k] = b[k]
      BY <1>2, <1>3, <2>4
    <3>2. ~(e.px <= b[k].px)
      BY <1>1, <2>2, <2>4, <3>1 DEF Crosses
    <3> QED BY <1>2, <2>1, <2>4, <3>1, <3>2
  <2>5. CASE k = Len(b) + 1 /\ m \in 1..Len(b)
    <3>1. e.side = "buy" /\ c[k] = e /\ c[m] = b[m]
      BY <1>2, <1>3, <2>5
    <3>2. ~(e.px >= b[m].px)
      BY <1>1, <2>2, <2>5, <3>1 DEF Crosses
    <3> QED BY <1>2, <2>1, <2>5, <3>1, <3>2
  <2>6. CASE k = Len(b) + 1 /\ m = Len(b) + 1
    BY <2>6
  <2> QED BY <1>1, <1>4, <2>3, <2>4, <2>5, <2>6
<1>6. ASSUME UniqueIds(b), e.id \notin RestingIds(b)
      PROVE  UniqueIds(c)
  <2>1. \A k \in 1..Len(b) : c[k].id # e.id /\ c[k] = b[k]
    BY <1>1, <1>3, <1>6 DEF RestingIds
  <2> QED BY <1>1, <1>2, <1>3, <1>4, <1>6, <2>1 DEF UniqueIds
<1> QED BY <1>3, <1>5, <1>6 DEF c

\* an order of owner u with this id rests in b
RestsFor(b, u, id) == \E i \in DOMAIN b : b[i].id = id /\ b[i].owner = u

(* The orders that stay when one is removed.                               *)
LEMMA WithoutRests ==
    ASSUME NEW S, NEW b \in Seq(S), NEW i \in DOMAIN b, UniqueIds(b)
    PROVE  /\ \A u, id : RestsFor(Without(b, i), u, id)
                             <=> RestsFor(b, u, id) /\ id # b[i].id
           /\ \A k \in DOMAIN Without(b, i) :
                 \E j \in DOMAIN b \ {i} : Without(b, i)[k] = b[j]
<1> DEFINE c == Without(b, i)
<1>1. Len(b) \in Nat /\ DOMAIN b = 1..Len(b) /\ i \in 1..Len(b)
  BY LenProperties
<1>2. /\ c \in Seq(S)
      /\ Len(c) = Len(b) - 1
      /\ \A k \in 1..(Len(b) - 1) : c[k] = IF k < i THEN b[k] ELSE b[k + 1]
  BY WithoutIs
<1> HIDE DEF c
<1>3. DOMAIN c = 1..(Len(b) - 1)
  BY <1>2, LenProperties
<1>4. \A k \in DOMAIN c : \E j \in DOMAIN b \ {i} : c[k] = b[j]
  <2>1. ASSUME NEW k \in DOMAIN c PROVE \E j \in DOMAIN b \ {i} : c[k] = b[j]
    <3>1. CASE k < i
      <4>1. k \in DOMAIN b \ {i} /\ c[k] = b[k]
        BY <1>1, <1>2, <1>3, <3>1
      <4> QED BY <4>1
    <3>2. CASE ~(k < i)
      <4>1. k + 1 \in DOMAIN b \ {i} /\ c[k] = b[k + 1]
        BY <1>1, <1>2, <1>3, <3>2
      <4> QED BY <4>1
    <3> QED BY <3>1, <3>2
  <2> QED BY <2>1
<1>5. \A j \in DOMAIN b \ {i} : \E k \in DOMAIN c : c[k] = b[j]
  <2>1. ASSUME NEW j \in DOMAIN b \ {i} PROVE \E k \in DOMAIN c : c[k] = b[j]
    <3>1. CASE j < i
      <4>1. j \in DOMAIN c /\ c[j] = b[j]
        BY <1>1, <1>2, <1>3, <3>1
      <4> QED BY <4>1
    <3>2. CASE ~(j < i)
      <4>1. j - 1 \in DOMAIN c /\ ~(j - 1 < i) /\ j - 1 + 1 = j
        BY <1>1, <1>3, <3>2
      <4>2. c[j - 1] = b[j]
        BY <1>2, <1>3, <4>1
      <4> QED BY <4>1, <4>2
    <3> QED BY <3>1, <3>2
  <2> QED BY <2>1
<1>6. \A u, id : RestsFor(c, u, id) <=> RestsFor(b, u, id) /\ id # b[i].id
  <2> SUFFICES ASSUME NEW u, NEW id
               PROVE  RestsFor(c, u, id) <=> RestsFor(b, u, id) /\ id # b[i].id
    OBVIOUS
  <2>1. ASSUME RestsFor(c, u, id) PROVE RestsFor(b, u, id) /\ id # b[i].id
    <3>1. PICK k \in DOMAIN c : c[k].id = id /\ c[k].owner = u
      BY <2>1 DEF RestsFor
    <3>2. PICK j \in DOMAIN b \ {i} : c[k] = b[j]
      BY <1>4
    <3> QED BY <3>1, <3>2 DEF RestsFor, UniqueIds
  <2>2. ASSUME RestsFor(b, u, id), id # b[i].id PROVE RestsFor(c, u, id)
    <3>1. PICK j \in DOMAIN b : b[j].id = id /\ b[j].owner = u
      BY <2>2 DEF RestsFor
    <3>2. j # i
      BY <2>2, <3>1
    <3>3. PICK k \in DOMAIN c : c[k] = b[j]
      BY <1>5, <3>2
    <3> QED BY <3>1, <3>3 DEF RestsFor
  <2> QED BY <2>1, <2>2
<1> QED BY <1>4, <1>6 DEF c

(* A fill touches one order, and removes it when it fills it.              *)
LEMMA ConsumeRests ==
    ASSUME NEW I, NEW O, NEW P, NEW b \in Seq(RestingOf(I, O, P)),
           NEW i \in DOMAIN b, NEW q \in Nat \ {0}, q <= b[i].rem, UniqueIds(b)
    PROVE  /\ \A u, id : RestsFor(Consume(b, i, q), u, id)
                             <=> RestsFor(b, u, id) /\ (q = b[i].rem => id # b[i].id)
           /\ \A k \in DOMAIN Consume(b, i, q) : \E j \in DOMAIN b :
                 /\ Consume(b, i, q)[k].id = b[j].id
                 /\ Consume(b, i, q)[k].rem = IF j = i THEN b[j].rem - q ELSE b[j].rem
<1> DEFINE S == RestingOf(I, O, P)
<1>1. CASE b[i].rem = q
  <2>1. Consume(b, i, q) = Without(b, i)
    BY <1>1 DEF Consume
  <2>2. \A k \in DOMAIN Without(b, i) : \E j \in DOMAIN b \ {i} : Without(b, i)[k] = b[j]
    BY WithoutRests
  <2>3. \A u, id : RestsFor(Without(b, i), u, id) <=> RestsFor(b, u, id) /\ id # b[i].id
    BY WithoutRests
  <2> QED BY <1>1, <2>1, <2>2, <2>3
<1>2. CASE b[i].rem # q
  <2> DEFINE e == [b[i] EXCEPT !.rem = @ - q]
             c == [b EXCEPT ![i] = e]
  <2>1. Len(b) \in Nat /\ DOMAIN b = 1..Len(b) /\ i \in 1..Len(b) /\ b[i] \in S
    BY LenProperties, ElementOfSeq
  <2>2. b[i].rem \in Nat /\ b[i].rem - q \in Nat \ {0}
    BY <1>2, <2>1 DEF RestingOf
  <2>3. /\ e \in S /\ e.id = b[i].id /\ e.owner = b[i].owner
        /\ e.rem = b[i].rem - q
    BY <2>1, <2>2 DEF RestingOf
  <2> HIDE DEF e
  <2>4. /\ c \in Seq(S)
        /\ Len(c) = Len(b)
        /\ \A j \in 1..Len(b) : c[j] = IF j = i THEN e ELSE b[j]
    BY <2>1, <2>3, ExceptSeq
  <2>5. DOMAIN c = DOMAIN b
    BY <2>1, <2>4, LenProperties
  <2>6. Consume(b, i, q) = c
    BY <1>2 DEF Consume, e
  <2> HIDE DEF c
  <2>7. \A k \in DOMAIN c : /\ c[k].id = b[k].id /\ c[k].owner = b[k].owner
                            /\ c[k].rem = IF k = i THEN b[k].rem - q ELSE b[k].rem
    BY <2>1, <2>3, <2>4, <2>5
  <2>8. \A u, id : RestsFor(c, u, id) <=> RestsFor(b, u, id)
    BY <2>5, <2>7 DEF RestsFor
  <2> QED BY <1>2, <2>5, <2>6, <2>7, <2>8
<1> QED BY <1>1, <1>2
=============================================================================
