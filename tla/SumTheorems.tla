----------------------------- MODULE SumTheorems -----------------------------
(***************************************************************************)
(* What the other proofs need to know of SumFunctionOnSet: sums of         *)
(* integers over finite sets.  The sum is a fold, whose function on the    *)
(* subsets of a set is recursive.  That there is such a function, and      *)
(* what it computes, is shown by taking a smallest subset for which it is  *)
(* not so (WFMin).                                                         *)
(***************************************************************************)
EXTENDS Integers, FiniteSets, FiniteSetsExt, FiniteSetTheorems, TLAPS

-----------------------------------------------------------------------------
(* The recursion *)

Pick(S) == CHOOSE x \in S : TRUE

IsSum(g, f, S) ==
    g = [T \in SUBSET S |-> IF T = {} THEN 0 ELSE f[Pick(T)] + g[T \ {Pick(T)}]]

\* What SumFunctionOnSet is by its definition
LEMMA SumIs ==
    ASSUME NEW f, NEW S
    PROVE  SumFunctionOnSet(f, S) = (CHOOSE g : IsSum(g, f, S))[S]
BY DEF SumFunctionOnSet, FoldFunctionOnSet, MapThenFoldSet, IsSum, Pick

\* A nonempty set of subsets of a finite set has a smallest one.
LEMMA Smallest ==
    ASSUME NEW S, IsFiniteSet(S), NEW F \in SUBSET SUBSET S, F # {}
    PROVE  \E T \in F : \A U \in F : U \subseteq T => U = T
<1> DEFINE R == StrictSubsetOrdering(S)
<1>1. IsWellFoundedOn(R, SUBSET S)
  BY FS_StrictSubsetOrderingWellFounded, FS_FiniteSubsetsOfFinite
<1> HIDE DEF R
<1>2. PICK T \in F : \A U \in F : <<U, T>> \notin R
  BY <1>1, WFMin
<1> QED
  BY <1>2 DEF R, StrictSubsetOrdering

\* The element a sum takes first is one of the set.
LEMMA PickIn == ASSUME NEW S, S # {} PROVE Pick(S) \in S
BY DEF Pick

\* What such a function gives for one subset.
LEMMA IsSumAt ==
    ASSUME NEW f, NEW S, NEW g, IsSum(g, f, S), NEW T \in SUBSET S
    PROVE  g[T] = IF T = {} THEN 0 ELSE f[Pick(T)] + g[T \ {Pick(T)}]
<1> DEFINE G == [U \in SUBSET S |-> IF U = {} THEN 0 ELSE f[Pick(U)] + g[U \ {Pick(U)}]]
<1>1. g = G
  BY DEF IsSum
<1>2. G[T] = IF T = {} THEN 0 ELSE f[Pick(T)] + g[T \ {Pick(T)}]
  OBVIOUS
<1> HIDE DEF G
<1> QED
  BY <1>1, <1>2

\* Two such functions agree where both are defined.
LEMMA IsSumUnique ==
    ASSUME NEW f, NEW S, IsFiniteSet(S), NEW U, NEW g, NEW h, IsSum(g, f, S), IsSum(h, f, U),
           S \subseteq U
    PROVE  \A T \in SUBSET S : g[T] = h[T]
<1> DEFINE F == {T \in SUBSET S : g[T] # h[T]}
<1> SUFFICES ASSUME F # {} PROVE FALSE
  OBVIOUS
<1>1. PICK T \in F : \A V \in F : V \subseteq T => V = T
  <2>1. F \in SUBSET SUBSET S
    OBVIOUS
  <2> HIDE DEF F
  <2> QED
    BY <2>1, Smallest
<1>2. /\ g[T] = IF T = {} THEN 0 ELSE f[Pick(T)] + g[T \ {Pick(T)}]
      /\ h[T] = IF T = {} THEN 0 ELSE f[Pick(T)] + h[T \ {Pick(T)}]
  BY IsSumAt
<1>3. T # {} => g[T \ {Pick(T)}] = h[T \ {Pick(T)}]
  BY <1>1, PickIn
<1> QED
  BY <1>2, <1>3

\* There is such a function on every finite set: the one of the sums themselves.
SumsOn(f, S) == [T \in SUBSET S |-> SumFunctionOnSet(f, T)]

LEMMA SumExists ==
    ASSUME NEW f, NEW S, IsFiniteSet(S)
    PROVE  IsSum(SumsOn(f, S), f, S)
<1> DEFINE F == {T \in SUBSET S : ~ IsSum(SumsOn(f, T), f, T)}
<1> SUFFICES ASSUME F # {} PROVE FALSE
  OBVIOUS
<1>1. PICK T \in F : \A V \in F : V \subseteq T => V = T
  <2>1. F \in SUBSET SUBSET S
    OBVIOUS
  <2> HIDE DEF F
  <2> QED
    BY <2>1, Smallest
<1> DEFINE body(g, V) == IF V = {} THEN 0 ELSE f[Pick(V)] + g[V \ {Pick(V)}]
           G == [V \in SUBSET T |-> body(SumsOn(f, T), V)]
<1>2. ASSUME NEW V \in SUBSET T, V # T
      PROVE  IsSum(SumsOn(f, V), f, V)
  BY <1>1, <1>2
<1>3. ASSUME NEW V \in SUBSET T, V # T
      PROVE  G[V] = SumFunctionOnSet(f, V)
  <2>1. IsSum(SumsOn(f, V), f, V)
    BY <1>2, <1>3
  <2>2. SumsOn(f, V)[V] = body(SumsOn(f, V), V)
    BY <2>1, IsSumAt
  <2>3. V # {} => SumsOn(f, V)[V \ {Pick(V)}] = SumsOn(f, T)[V \ {Pick(V)}]
    BY <1>3 DEF SumsOn
  <2> QED
    BY <2>2, <2>3 DEF SumsOn
<1>4. IsSum(G, f, T)
  <2>1. ASSUME NEW V \in SUBSET T, V # {}
        PROVE  SumsOn(f, T)[V \ {Pick(V)}] = G[V \ {Pick(V)}]
    <3>1. V \ {Pick(V)} \in SUBSET T /\ V \ {Pick(V)} # T
      BY <2>1, PickIn
    <3> HIDE DEF G
    <3> QED
      BY <1>3, <3>1 DEF SumsOn
  <2>2. ASSUME NEW V \in SUBSET T
        PROVE  body(SumsOn(f, T), V) = body(G, V)
    <3> HIDE DEF G
    <3> QED
      BY <2>1
  <2>3. G = [V \in SUBSET T |-> body(G, V)]
    <3> DEFINE H == G
    <3>1. \A V \in SUBSET T : body(SumsOn(f, T), V) = body(H, V)
      BY <2>2
    <3>2. H = [V \in SUBSET T |-> body(SumsOn(f, T), V)]
      OBVIOUS
    <3> HIDE DEF H
    <3>3. H = [V \in SUBSET T |-> body(H, V)]
      BY <3>1, <3>2
    <3> QED
      BY <3>3 DEF H
  <2> HIDE DEF G
  <2> QED
    BY <2>3 DEF IsSum
<1>5. G[T] = SumFunctionOnSet(f, T)
  <2> HIDE DEF G
  <2>1. IsSum(CHOOSE g : IsSum(g, f, T), f, T)
    BY <1>4, Zenon
  <2>2. IsFiniteSet(T)
    BY FS_Subset
  <2>3. G[T] = (CHOOSE g : IsSum(g, f, T))[T]
    BY <1>4, <2>1, <2>2, IsSumUnique
  <2> QED
    BY <2>3, SumIs
<1>6. G = SumsOn(f, T)
  <2>1. \A V \in SUBSET T : G[V] = SumFunctionOnSet(f, V)
    BY <1>3, <1>5
  <2>2. G = [V \in SUBSET T |-> G[V]]
    OBVIOUS
  <2> HIDE DEF G
  <2> QED
    BY <2>1, <2>2 DEF SumsOn
<1> HIDE DEF G
<1> QED
  BY <1>1, <1>4, <1>6

-----------------------------------------------------------------------------
(* The facts *)

\* Nothing adds up to nothing.
LEMMA SumEmpty == ASSUME NEW f PROVE SumFunctionOnSet(f, {}) = 0
<1>1. IsSum(SumsOn(f, {}), f, {})
  BY SumExists, FS_EmptySet
<1> QED
  BY <1>1, IsSumAt DEF SumsOn

\* The sum of a nonempty set, one step down.
LEMMA SumPicked ==
    ASSUME NEW f, NEW S, IsFiniteSet(S), S # {}
    PROVE  SumFunctionOnSet(f, S) = f[Pick(S)] + SumFunctionOnSet(f, S \ {Pick(S)})
<1>1. IsSum(SumsOn(f, S), f, S)
  BY SumExists
<1>2. SumsOn(f, S)[S] = f[Pick(S)] + SumsOn(f, S)[S \ {Pick(S)}]
  BY <1>1, IsSumAt
<1> QED
  BY <1>2 DEF SumsOn

\* A sum of integers is an integer.
LEMMA SumInt ==
    ASSUME NEW S, IsFiniteSet(S), NEW f, \A x \in S : f[x] \in Int
    PROVE  SumFunctionOnSet(f, S) \in Int
<1> DEFINE F == {T \in SUBSET S : SumFunctionOnSet(f, T) \notin Int}
<1> SUFFICES ASSUME F # {} PROVE FALSE
  OBVIOUS
<1>1. PICK T \in F : \A V \in F : V \subseteq T => V = T
  <2>1. F \in SUBSET SUBSET S
    OBVIOUS
  <2> HIDE DEF F
  <2> QED
    BY <2>1, Smallest
<1>2. T # {}
  BY SumEmpty
<1>3. SumFunctionOnSet(f, T \ {Pick(T)}) \in Int
  BY <1>1, <1>2, PickIn
<1>4. SumFunctionOnSet(f, T) = f[Pick(T)] + SumFunctionOnSet(f, T \ {Pick(T)})
  BY <1>2, SumPicked, FS_Subset
<1> QED
  BY <1>2, <1>3, <1>4, PickIn

\* A sum of natural numbers is one.
LEMMA SumNat ==
    ASSUME NEW S, IsFiniteSet(S), NEW f, \A x \in S : f[x] \in Nat
    PROVE  SumFunctionOnSet(f, S) \in Nat
<1> DEFINE F == {T \in SUBSET S : SumFunctionOnSet(f, T) \notin Nat}
<1> SUFFICES ASSUME F # {} PROVE FALSE
  OBVIOUS
<1>1. PICK T \in F : \A V \in F : V \subseteq T => V = T
  <2>1. F \in SUBSET SUBSET S
    OBVIOUS
  <2> HIDE DEF F
  <2> QED
    BY <2>1, Smallest
<1>2. T # {}
  BY SumEmpty
<1>3. SumFunctionOnSet(f, T \ {Pick(T)}) \in Nat
  BY <1>1, <1>2, PickIn
<1>4. SumFunctionOnSet(f, T) = f[Pick(T)] + SumFunctionOnSet(f, T \ {Pick(T)})
  BY <1>2, SumPicked, FS_Subset
<1> QED
  BY <1>2, <1>3, <1>4, PickIn

\* Any of the elements may be taken off: the order does not matter.
LEMMA SumLess ==
    ASSUME NEW S, IsFiniteSet(S), NEW f, \A x \in S : f[x] \in Int, NEW a \in S
    PROVE  SumFunctionOnSet(f, S) = f[a] + SumFunctionOnSet(f, S \ {a})
<1> DEFINE F == {T \in SUBSET S : \E x \in T :
                    SumFunctionOnSet(f, T) # f[x] + SumFunctionOnSet(f, T \ {x})}
<1> SUFFICES ASSUME F # {} PROVE FALSE
  OBVIOUS
<1>1. PICK T \in F : \A V \in F : V \subseteq T => V = T
  <2>1. F \in SUBSET SUBSET S
    OBVIOUS
  <2> HIDE DEF F
  <2> QED
    BY <2>1, Smallest
<1>2. PICK x \in T : SumFunctionOnSet(f, T) # f[x] + SumFunctionOnSet(f, T \ {x})
  OBVIOUS
<1> DEFINE p == Pick(T)
<1>3. p \in T /\ T \subseteq S /\ IsFiniteSet(T)
  BY PickIn, FS_Subset
<1>4. SumFunctionOnSet(f, T) = f[p] + SumFunctionOnSet(f, T \ {p})
  BY <1>3, SumPicked
<1>5. x # p
  BY <1>2, <1>4
<1>6. T \ {p} \notin F /\ T \ {x} \notin F
  BY <1>1, <1>3
<1> HIDE DEF p
<1>7. SumFunctionOnSet(f, T \ {p}) = f[x] + SumFunctionOnSet(f, (T \ {p}) \ {x})
  BY <1>3, <1>5, <1>6
<1>8. SumFunctionOnSet(f, T \ {x}) = f[p] + SumFunctionOnSet(f, (T \ {x}) \ {p})
  BY <1>3, <1>5, <1>6
<1>9. (T \ {p}) \ {x} = (T \ {x}) \ {p}
  OBVIOUS
<1>10. SumFunctionOnSet(f, (T \ {p}) \ {x}) \in Int
  <2>1. IsFiniteSet((T \ {p}) \ {x})
    BY <1>3, FS_Subset
  <2> QED
    BY <1>3, <2>1, SumInt
<1>11. f[x] \in Int /\ f[p] \in Int
  BY <1>3
<1>12. SumFunctionOnSet(f, (T \ {p}) \ {x}) = SumFunctionOnSet(f, (T \ {x}) \ {p})
  BY <1>9
<1> HIDE DEF F
<1> QED
  BY <1>2, <1>4, <1>7, <1>8, <1>10, <1>11, <1>12

\* What is the same at every element adds up to the same.
LEMMA SumSame ==
    ASSUME NEW S, IsFiniteSet(S), NEW f, NEW g, \A x \in S : f[x] = g[x]
    PROVE  SumFunctionOnSet(f, S) = SumFunctionOnSet(g, S)
<1> DEFINE F == {T \in SUBSET S : SumFunctionOnSet(f, T) # SumFunctionOnSet(g, T)}
<1> SUFFICES ASSUME F # {} PROVE FALSE
  OBVIOUS
<1>1. PICK T \in F : \A V \in F : V \subseteq T => V = T
  <2>1. F \in SUBSET SUBSET S
    OBVIOUS
  <2> HIDE DEF F
  <2> QED
    BY <2>1, Smallest
<1>2. T # {}
  BY SumEmpty
<1>3. SumFunctionOnSet(f, T \ {Pick(T)}) = SumFunctionOnSet(g, T \ {Pick(T)})
  BY <1>1, <1>2, PickIn
<1>4. /\ SumFunctionOnSet(f, T) = f[Pick(T)] + SumFunctionOnSet(f, T \ {Pick(T)})
      /\ SumFunctionOnSet(g, T) = g[Pick(T)] + SumFunctionOnSet(g, T \ {Pick(T)})
  BY <1>2, SumPicked, FS_Subset
<1> QED
  BY <1>2, <1>3, <1>4, PickIn

\* A sum of sums is the sum of both.
LEMMA SumPlus ==
    ASSUME NEW S, IsFiniteSet(S), NEW f, NEW g, NEW h,
           \A x \in S : f[x] \in Int /\ g[x] \in Int /\ h[x] = f[x] + g[x]
    PROVE  SumFunctionOnSet(h, S) = SumFunctionOnSet(f, S) + SumFunctionOnSet(g, S)
<1> DEFINE F == {T \in SUBSET S : SumFunctionOnSet(h, T)
                                  # SumFunctionOnSet(f, T) + SumFunctionOnSet(g, T)}
<1> SUFFICES ASSUME F # {} PROVE FALSE
  OBVIOUS
<1>1. PICK T \in F : \A V \in F : V \subseteq T => V = T
  <2>1. F \in SUBSET SUBSET S
    OBVIOUS
  <2> HIDE DEF F
  <2> QED
    BY <2>1, Smallest
<1>2. T # {}
  <2>1. /\ SumFunctionOnSet(f, {}) = 0 /\ SumFunctionOnSet(g, {}) = 0
        /\ SumFunctionOnSet(h, {}) = 0
    BY SumEmpty
  <2>2. SumFunctionOnSet(h, {}) = SumFunctionOnSet(f, {}) + SumFunctionOnSet(g, {})
    BY <2>1
  <2>3. {} \notin F
    BY <2>2
  <2> HIDE DEF F
  <2> QED
    BY <2>3
<1> DEFINE p == Pick(T)
           U == T \ {p}
<1>3. p \in T /\ IsFiniteSet(T) /\ U \subseteq S /\ IsFiniteSet(U)
  BY <1>2, PickIn, FS_Subset
<1>4. SumFunctionOnSet(h, U) = SumFunctionOnSet(f, U) + SumFunctionOnSet(g, U)
  BY <1>1, <1>3
<1>5. /\ SumFunctionOnSet(f, T) = f[p] + SumFunctionOnSet(f, U)
      /\ SumFunctionOnSet(g, T) = g[p] + SumFunctionOnSet(g, U)
      /\ SumFunctionOnSet(h, T) = h[p] + SumFunctionOnSet(h, U)
  BY <1>2, <1>3, SumPicked
<1>6. f[p] \in Int /\ g[p] \in Int /\ h[p] = f[p] + g[p]
  BY <1>3
<1>7. SumFunctionOnSet(f, U) \in Int /\ SumFunctionOnSet(g, U) \in Int
  BY <1>3, SumInt
<1> HIDE DEF p, U
<1> QED
  BY <1>4, <1>5, <1>6, <1>7

\* Where everything else stays, a sum changes by what one element does.
LEMMA SumChange ==
    ASSUME NEW S, IsFiniteSet(S), NEW a \in S, NEW f, NEW g,
           \A x \in S : f[x] \in Int /\ g[x] \in Int,
           \A x \in S \ {a} : g[x] = f[x]
    PROVE  SumFunctionOnSet(g, S) = SumFunctionOnSet(f, S) + (g[a] - f[a])
<1>1. /\ SumFunctionOnSet(f, S) = f[a] + SumFunctionOnSet(f, S \ {a})
      /\ SumFunctionOnSet(g, S) = g[a] + SumFunctionOnSet(g, S \ {a})
  BY SumLess
<1>2. IsFiniteSet(S \ {a})
  BY FS_Subset
<1>3. SumFunctionOnSet(f, S \ {a}) = SumFunctionOnSet(g, S \ {a})
  BY <1>2, SumSame
<1>4. SumFunctionOnSet(f, S \ {a}) \in Int
  BY <1>2, SumInt
<1> QED
  BY <1>1, <1>3, <1>4

\* What is nothing everywhere adds up to nothing.
LEMMA SumZero ==
    ASSUME NEW S, IsFiniteSet(S), NEW f, \A x \in S : f[x] = 0
    PROVE  SumFunctionOnSet(f, S) = 0
<1> DEFINE F == {T \in SUBSET S : SumFunctionOnSet(f, T) # 0}
<1> SUFFICES ASSUME F # {} PROVE FALSE
  OBVIOUS
<1>1. PICK T \in F : \A V \in F : V \subseteq T => V = T
  <2>1. F \in SUBSET SUBSET S
    OBVIOUS
  <2> HIDE DEF F
  <2> QED
    BY <2>1, Smallest
<1>2. T # {}
  BY SumEmpty
<1>3. SumFunctionOnSet(f, T \ {Pick(T)}) = 0
  BY <1>1, <1>2, PickIn
<1>4. SumFunctionOnSet(f, T) = f[Pick(T)] + SumFunctionOnSet(f, T \ {Pick(T)})
  BY <1>2, SumPicked, FS_Subset
<1> QED
  BY <1>2, <1>3, <1>4, PickIn

\* Elements that count for nothing may be left out.
LEMMA SumOver ==
    ASSUME NEW S, IsFiniteSet(S), NEW T \in SUBSET S, NEW f, NEW g,
           \A x \in T : f[x] \in Int /\ g[x] = f[x], \A x \in S \ T : g[x] = 0
    PROVE  SumFunctionOnSet(g, S) = SumFunctionOnSet(f, T)
<1> DEFINE F == {U \in SUBSET S : SumFunctionOnSet(g, U) # SumFunctionOnSet(f, U \cap T)}
<1> SUFFICES ASSUME F # {} PROVE FALSE
  <2>1. S \cap T = T
    OBVIOUS
  <2> QED
    BY <2>1
<1>1. PICK U \in F : \A V \in F : V \subseteq U => V = U
  <2>1. F \in SUBSET SUBSET S
    OBVIOUS
  <2> HIDE DEF F
  <2> QED
    BY <2>1, Smallest
<1>2. U # {}
  <2>1. {} \cap T = {}
    OBVIOUS
  <2> QED
    BY <2>1, SumEmpty
<1> DEFINE p == Pick(U)
<1>3. p \in U /\ U \subseteq S /\ IsFiniteSet(U) /\ IsFiniteSet(U \cap T)
  BY <1>2, PickIn, FS_Subset
<1>4. SumFunctionOnSet(g, U \ {p}) = SumFunctionOnSet(f, (U \ {p}) \cap T)
  BY <1>1, <1>3
<1>5. SumFunctionOnSet(g, U) # SumFunctionOnSet(f, U \cap T)
  BY <1>1
<1>6. SumFunctionOnSet(g, U) = g[p] + SumFunctionOnSet(g, U \ {p})
  BY <1>2, <1>3, SumPicked
<1>7. CASE p \in T
  <2>1. SumFunctionOnSet(f, U \cap T) = f[p] + SumFunctionOnSet(f, (U \cap T) \ {p})
    BY <1>3, <1>7, SumLess
  <2>2. (U \cap T) \ {p} = (U \ {p}) \cap T
    OBVIOUS
  <2> HIDE DEF p
  <2> QED
    BY <1>4, <1>6, <1>7, <2>1, <2>2
<1>8. CASE p \notin T
  <2>1. (U \ {p}) \cap T = U \cap T
    BY <1>8
  <2>2. SumFunctionOnSet(f, U \cap T) \in Int
    BY <1>3, SumInt
  <2>3. g[p] = 0
    BY <1>3, <1>8
  <2>4. SumFunctionOnSet(g, U \ {p}) = SumFunctionOnSet(f, U \cap T)
    BY <1>4, <2>1
  <2> HIDE DEF p, F
  <2> QED
    BY <1>6, <1>5, <2>2, <2>3, <2>4
<1> QED
  BY <1>7, <1>8

\* A larger element makes a larger sum.
LEMMA SumAtMost ==
    ASSUME NEW S, IsFiniteSet(S), NEW f, NEW g,
           \A x \in S : f[x] \in Int /\ g[x] \in Int /\ f[x] <= g[x]
    PROVE  SumFunctionOnSet(f, S) <= SumFunctionOnSet(g, S)
<1> DEFINE d == [x \in S |-> g[x] - f[x]]
<1>1. SumFunctionOnSet(d, S) \in Nat
  <2>1. \A x \in S : d[x] \in Nat
    OBVIOUS
  <2> HIDE DEF d
  <2> QED
    BY <2>1, SumNat
<1>2. SumFunctionOnSet(g, S) = SumFunctionOnSet(f, S) + SumFunctionOnSet(d, S)
  <2>1. \A x \in S : f[x] \in Int /\ d[x] \in Int /\ g[x] = f[x] + d[x]
    OBVIOUS
  <2> HIDE DEF d
  <2> QED
    BY <2>1, SumPlus
<1>3. SumFunctionOnSet(f, S) \in Int
  BY SumInt
<1> HIDE DEF d
<1> QED
  BY <1>1, <1>2, <1>3

\* One of them is no more than the sum of all.
LEMMA SumAtLeast ==
    ASSUME NEW S, IsFiniteSet(S), NEW f, \A x \in S : f[x] \in Nat, NEW a \in S
    PROVE  f[a] <= SumFunctionOnSet(f, S)
<1>1. SumFunctionOnSet(f, S) = f[a] + SumFunctionOnSet(f, S \ {a})
  BY SumLess
<1>2. SumFunctionOnSet(f, S \ {a}) \in Nat
  BY FS_Subset, SumNat
<1> QED
  BY <1>1, <1>2
==============================================================================
