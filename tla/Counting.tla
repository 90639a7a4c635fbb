------------------------------ MODULE Counting ------------------------------
(***************************************************************************)
(* Facts that proofs count with, which the library does not have: about    *)
(* SumFunctionOnSet for natural numbers, and about the factorials and      *)
(* binomial coefficients of Combinatorics.  Each recursion is shown to     *)
(* count the elements of a set.  Induction on finite sets is by a smallest *)
(* counterexample (WFMin), and on numbers by a least one.                  *)
(***************************************************************************)
EXTENDS Functions, Combinatorics, FiniteSetTheorems, FunctionTheorems, TLAPS

-----------------------------------------------------------------------------
(* Sums.  The recursion of a sum picks the elements in an order of its own; *)
(* a sum is therefore shown to be the number of units in it, which has none *)

\* The units that make up the weights of a set.
Units(w, S) == UNION {{x} \X (1 .. w[x]) : x \in S}

\* What the recursion of the sum computes for every subset.
Pick(s) == CHOOSE x \in s : TRUE
SumsUp(g, w, S) ==
    g = [s \in SUBSET S |-> IF s = {} THEN 0 ELSE w[Pick(s)] + g[s \ {Pick(s)}]]

\* The sum is what its recursion computes for the whole set.
LEMMA SumIsRecursion ==
    ASSUME NEW S, NEW w
    PROVE  SumFunctionOnSet(w, S) = (CHOOSE g : SumsUp(g, w, S))[S]
BY DEF SumFunctionOnSet, FoldFunctionOnSet, MapThenFoldSet, SumsUp, Pick

\* Every finite set without a property has a smallest subset without it.
LEMMA SmallestSubset ==
    ASSUME NEW S, IsFiniteSet(S), NEW Bad, Bad \subseteq SUBSET S, Bad # {}
    PROVE  \E s \in Bad : \A t \in Bad : t \subseteq s => t = s
<1>1. IsWellFoundedOn(StrictSubsetOrdering(S), SUBSET S)
    BY FS_StrictSubsetOrderingWellFounded, FS_FiniteSubsetsOfFinite
<1>2. PICK s \in Bad : \A t \in Bad : <<t, s>> \notin StrictSubsetOrdering(S)
    BY <1>1, WFMin
<1> QED BY <1>2 DEF StrictSubsetOrdering

\* One more element brings its own units.
LEMMA UnitsAdd ==
    ASSUME NEW S, NEW x, x \notin S, NEW w, w[x] \in Nat,
           IsFiniteSet(Units(w, S))
    PROVE  /\ IsFiniteSet(Units(w, S \cup {x}))
           /\ Cardinality(Units(w, S \cup {x}))
                = w[x] + Cardinality(Units(w, S))
<1> DEFINE numbers == 1 .. w[x]
           own == {x} \X numbers
<1>1. IsFiniteSet(numbers) /\ Cardinality(numbers) = w[x]
    BY FS_Interval
<1>2. IsFiniteSet({x}) /\ Cardinality({x}) = 1
    BY FS_Singleton
<1>3. IsFiniteSet(own) /\ Cardinality(own) = w[x]
    <2> HIDE DEF numbers
    <2>1. IsFiniteSet(own) /\ Cardinality(own) = Cardinality({x}) * Cardinality(numbers)
        BY <1>1, <1>2, FS_Product, Zenon
    <2> QED BY <1>1, <1>2, <2>1
<1>4. Units(w, S \cup {x}) = own \cup Units(w, S) /\ own \cap Units(w, S) = {}
    BY DEF Units
<1> HIDE DEF own
<1>5. /\ Cardinality(Units(w, S)) \in Nat
      /\ Cardinality(own \cap Units(w, S)) = 0
    BY <1>4, FS_CardinalityType, FS_EmptySet, Zenon
<1>6. /\ IsFiniteSet(own \cup Units(w, S))
      /\ Cardinality(own \cup Units(w, S)) = Cardinality(own)
           + Cardinality(Units(w, S)) - Cardinality(own \cap Units(w, S))
    BY <1>3, FS_Union
<1>7. /\ IsFiniteSet(Units(w, S \cup {x}))
      /\ Cardinality(Units(w, S \cup {x})) = Cardinality(own)
           + Cardinality(Units(w, S)) - Cardinality(own \cap Units(w, S))
    BY <1>4, <1>6, Zenon
<1> QED BY <1>3, <1>5, <1>7

\* There are finitely many units.
LEMMA UnitsFinite ==
    ASSUME NEW S, IsFiniteSet(S), NEW w, \A x \in S : w[x] \in Nat
    PROVE  IsFiniteSet(Units(w, S))
<1> DEFINE Bad == {s \in SUBSET S : ~IsFiniteSet(Units(w, s))}
<1> SUFFICES ASSUME Bad # {} PROVE FALSE
    OBVIOUS
<1>0. Bad \subseteq SUBSET S
    OBVIOUS
<1> HIDE DEF Bad
<1>1. PICK s \in Bad : \A t \in Bad : t \subseteq s => t = s
    BY <1>0, SmallestSubset
<1> USE DEF Bad
<1>2. CASE s = {}
    BY <1>1, <1>2, FS_EmptySet DEF Units
<1>3. ASSUME NEW x \in s PROVE FALSE
    <2>1. s \ {x} \notin Bad /\ s = (s \ {x}) \cup {x} /\ w[x] \in Nat
        BY <1>1
    <2>2. IsFiniteSet(Units(w, s \ {x}))
        BY <1>1, <2>1
    <2>3. IsFiniteSet(Units(w, (s \ {x}) \cup {x}))
        BY <2>1, <2>2, UnitsAdd
    <2> QED BY <1>1, <2>1, <2>3
<1> QED BY <1>2, <1>3

\* The number of units is one solution of the recursion, and what any solution
\* says of the whole set.
LEMMA CountSumsUp ==
    ASSUME NEW S, IsFiniteSet(S), NEW w, \A x \in S : w[x] \in Nat
    PROVE  SumsUp([s \in SUBSET S |-> Cardinality(Units(w, s))], w, S)
<1> DEFINE count == [s \in SUBSET S |-> Cardinality(Units(w, s))]
<1>1. ASSUME NEW s \in SUBSET S
      PROVE  count[s] = IF s = {} THEN 0 ELSE w[Pick(s)] + count[s \ {Pick(s)}]
    <2>1. CASE s = {}
        BY <2>1, FS_EmptySet DEF Units
    <2>2. CASE s # {}
        <3> DEFINE x == Pick(s)
        <3>1. x \in s
            BY <2>2 DEF Pick
        <3> HIDE DEF x
        <3>2. w[x] \in Nat /\ s = (s \ {x}) \cup {x} /\ x \notin s \ {x}
            BY <3>1
        <3>3. IsFiniteSet(Units(w, s \ {x}))
            BY UnitsFinite, FS_Subset
        <3>4. Cardinality(Units(w, (s \ {x}) \cup {x}))
                = w[x] + Cardinality(Units(w, s \ {x}))
            BY <3>2, <3>3, UnitsAdd
        <3>5. count[s] = w[x] + count[s \ {x}]
            BY <3>2, <3>4
        <3> QED BY <2>2, <3>5 DEF x
    <2> QED BY <2>1, <2>2
<1> QED BY <1>1 DEF SumsUp

LEMMA SumsUpToUnits ==
    ASSUME NEW S, IsFiniteSet(S), NEW w, \A x \in S : w[x] \in Nat,
           NEW sums, SumsUp(sums, w, S)
    PROVE  sums[S] = Cardinality(Units(w, S))
<1> DEFINE count == [s \in SUBSET S |-> Cardinality(Units(w, s))]
           Bad == {s \in SUBSET S : sums[s] # count[s]}
<1>1. SumsUp(count, w, S)
    BY CountSumsUp
<1> HIDE DEF count
<1>2. Bad = {}
    <2> SUFFICES ASSUME Bad # {} PROVE FALSE
        OBVIOUS
    <2>0. Bad \subseteq SUBSET S
        OBVIOUS
    <2> HIDE DEF Bad
    <2>1. PICK s \in Bad : \A t \in Bad : t \subseteq s => t = s
        BY <2>0, SmallestSubset
    <2> USE DEF Bad
    <2>2. sums[s] = IF s = {} THEN 0 ELSE w[Pick(s)] + sums[s \ {Pick(s)}]
        BY <2>1 DEF SumsUp
    <2>3. count[s] = IF s = {} THEN 0 ELSE w[Pick(s)] + count[s \ {Pick(s)}]
        BY <1>1, <2>1 DEF SumsUp
    <2>4. s # {} => Pick(s) \in s
        BY DEF Pick
    <2>5. s # {} => s \ {Pick(s)} \notin Bad
        BY <2>1, <2>4
    <2>6. s # {} => sums[s \ {Pick(s)}] = count[s \ {Pick(s)}]
        BY <2>1, <2>5
    <2> QED BY <2>1, <2>2, <2>3, <2>6
<1>3. sums[S] = count[S]
    BY <1>2
<1> QED BY <1>3 DEF count

\* A sum is the number of its units.
LEMMA SumCountsUnits ==
    ASSUME NEW S, IsFiniteSet(S), NEW w, \A x \in S : w[x] \in Nat
    PROVE  SumFunctionOnSet(w, S) = Cardinality(Units(w, S))
<1> DEFINE sums == CHOOSE g : SumsUp(g, w, S)
<1>1. SumsUp(sums, w, S)
    BY CountSumsUp
<1> HIDE DEF sums
<1> QED BY <1>1, SumsUpToUnits, SumIsRecursion DEF sums

-----------------------------------------------------------------------------
(* What proofs about sums use *)

\* The sum of natural numbers is one.
LEMMA SumType ==
    ASSUME NEW S, IsFiniteSet(S), NEW w, \A x \in S : w[x] \in Nat
    PROVE  SumFunctionOnSet(w, S) \in Nat
BY UnitsFinite, SumCountsUnits, FS_CardinalityType

\* Nothing sums up to 0.
LEMMA SumEmpty == \A w : SumFunctionOnSet(w, {}) = 0
<1> TAKE w
<1>1. Units(w, {}) = {}
    BY DEF Units
<1> QED BY <1>1, SumCountsUnits, FS_EmptySet

\* One more element adds its weight.
LEMMA SumAdd ==
    ASSUME NEW S, IsFiniteSet(S), NEW x, x \notin S, NEW w,
           w[x] \in Nat, \A y \in S : w[y] \in Nat
    PROVE  SumFunctionOnSet(w, S \cup {x}) = w[x] + SumFunctionOnSet(w, S)
<1>1. IsFiniteSet(S \cup {x}) /\ \A y \in S \cup {x} : w[y] \in Nat
    BY FS_AddElement
<1>2. IsFiniteSet(Units(w, S))
    BY UnitsFinite
<1>3. Cardinality(Units(w, S \cup {x})) = w[x] + Cardinality(Units(w, S))
    BY <1>2, UnitsAdd
<1>4. SumFunctionOnSet(w, S) = Cardinality(Units(w, S))
    BY SumCountsUnits
<1>5. SumFunctionOnSet(w, S \cup {x}) = Cardinality(Units(w, S \cup {x}))
    BY <1>1, SumCountsUnits
<1> QED BY <1>3, <1>4, <1>5

\* The sum over one element is its weight.
LEMMA SumOfOne ==
    ASSUME NEW w, NEW x, w[x] \in Nat
    PROVE  SumFunctionOnSet(w, {x}) = w[x]
<1>1. SumFunctionOnSet(w, {} \cup {x}) = w[x] + SumFunctionOnSet(w, {})
    BY SumAdd, FS_EmptySet
<1>2. {} \cup {x} = {x}
    OBVIOUS
<1>3. SumFunctionOnSet(w, {x}) = w[x] + SumFunctionOnSet(w, {})
    BY <1>1, <1>2, Zenon
<1> QED BY <1>3, SumEmpty

\* One element less takes its weight away.
LEMMA SumRemove ==
    ASSUME NEW S, IsFiniteSet(S), NEW x \in S, NEW w, \A y \in S : w[y] \in Nat
    PROVE  SumFunctionOnSet(w, S) = w[x] + SumFunctionOnSet(w, S \ {x})
<1>1. IsFiniteSet(S \ {x}) /\ x \notin S \ {x} /\ (S \ {x}) \cup {x} = S
    BY FS_RemoveElement
<1>2. w[x] \in Nat /\ \A y \in S \ {x} : w[y] \in Nat
    OBVIOUS
<1>3. SumFunctionOnSet(w, (S \ {x}) \cup {x})
        = w[x] + SumFunctionOnSet(w, S \ {x})
    BY <1>1, <1>2, SumAdd
<1> QED BY <1>1, <1>3

\* Only the weights of the elements matter.
LEMMA SumSame ==
    ASSUME NEW S, IsFiniteSet(S), NEW v, NEW w,
           \A x \in S : w[x] \in Nat /\ v[x] = w[x]
    PROVE  SumFunctionOnSet(v, S) = SumFunctionOnSet(w, S)
<1>1. Units(v, S) = Units(w, S)
    BY DEF Units
<1> QED BY <1>1, SumCountsUnits

\* The sum of a part is no more than that of the whole.
LEMMA SumOfPart ==
    ASSUME NEW S, IsFiniteSet(S), NEW w, \A x \in S : w[x] \in Nat,
           NEW T \in SUBSET S
    PROVE  SumFunctionOnSet(w, T) <= SumFunctionOnSet(w, S)
<1>1. Units(w, T) \subseteq Units(w, S) /\ IsFiniteSet(Units(w, S))
    BY UnitsFinite DEF Units
<1>2. Cardinality(Units(w, T)) <= Cardinality(Units(w, S))
    BY <1>1, FS_Subset
<1>3. IsFiniteSet(T)
    BY FS_Subset
<1> QED BY <1>2, <1>3, SumCountsUnits

\* Two sets together weigh no more than both on their own.
LEMMA SumOfBoth ==
    ASSUME NEW S, IsFiniteSet(S), NEW T, IsFiniteSet(T), NEW w,
           \A x \in S \cup T : w[x] \in Nat
    PROVE  SumFunctionOnSet(w, S \cup T)
             <= SumFunctionOnSet(w, S) + SumFunctionOnSet(w, T)
<1>1. /\ SumFunctionOnSet(w, S \cup T) = Cardinality(Units(w, S \cup T))
      /\ SumFunctionOnSet(w, S) = Cardinality(Units(w, S))
      /\ SumFunctionOnSet(w, T) = Cardinality(Units(w, T))
    BY SumCountsUnits, FS_Union
<1>2. Units(w, S \cup T) = Units(w, S) \cup Units(w, T)
    BY DEF Units
<1>3. IsFiniteSet(Units(w, S)) /\ IsFiniteSet(Units(w, T))
    BY UnitsFinite
<1>4. /\ Cardinality(Units(w, S)) \in Nat /\ Cardinality(Units(w, T)) \in Nat
      /\ Cardinality(Units(w, S) \cap Units(w, T)) \in Nat
    BY <1>3, FS_Intersection, FS_CardinalityType
<1>5. Cardinality(Units(w, S) \cup Units(w, T)) =
        Cardinality(Units(w, S)) + Cardinality(Units(w, T))
          - Cardinality(Units(w, S) \cap Units(w, T))
    BY <1>3, FS_Union
<1>6. Cardinality(Units(w, S \cup T)) = Cardinality(Units(w, S) \cup Units(w, T))
    BY <1>2, Zenon
<1> QED BY <1>1, <1>4, <1>5, <1>6

\* If no weight is above a limit, the sum is at most as many times the limit.
LEMMA SumLimit ==
    ASSUME NEW S, IsFiniteSet(S), NEW limit \in Nat, NEW w,
           \A x \in S : w[x] \in Nat /\ w[x] <= limit
    PROVE  SumFunctionOnSet(w, S) <= Cardinality(S) * limit
<1> DEFINE numbers == 1 .. limit
<1>1. IsFiniteSet(numbers) /\ Cardinality(numbers) = limit
    BY FS_Interval
<1>2. Units(w, S) \subseteq S \X numbers
    BY DEF Units
<1> HIDE DEF numbers
<1>3. /\ IsFiniteSet(S \X numbers)
      /\ Cardinality(S \X numbers) = Cardinality(S) * Cardinality(numbers)
    BY <1>1, FS_Product, Zenon
<1>4. Cardinality(Units(w, S)) <= Cardinality(S \X numbers)
    BY <1>2, <1>3, FS_Subset
<1>5. SumFunctionOnSet(w, S) = Cardinality(Units(w, S))
    BY SumCountsUnits
<1> QED BY <1>1, <1>3, <1>4, <1>5
-----------------------------------------------------------------------------
(* Factorials and binomial coefficients count functions *)

\* A set of natural numbers has a least one.
LEMMA LeastNumber ==
    ASSUME NEW S, S \subseteq Nat, S # {}
    PROVE  \E m \in S : \A k \in S : m <= k
<1>1. PICK n \in S : TRUE
    OBVIOUS
<1> DEFINE Range0 == 0 .. n
           Bad == {0 .. k : k \in S \cap Range0}
<1>2. IsFiniteSet(Range0)
    BY <1>1, FS_Interval
<1>3. Bad \subseteq SUBSET Range0 /\ Bad # {}
    BY <1>1
<1>4. PICK s \in Bad : \A t \in Bad : t \subseteq s => t = s
    <2> HIDE DEF Bad, Range0
    <2> QED BY <1>2, <1>3, SmallestSubset
<1>5. PICK m \in S \cap Range0 : s = 0 .. m
    BY <1>4
<1>6. ASSUME NEW k \in S, ~(m <= k) PROVE FALSE
    <2>1. k \in Range0 /\ k \in Nat /\ m \in Nat /\ k < m
        BY <1>1, <1>5, <1>6
    <2>2. 0 .. k \in Bad /\ 0 .. k \subseteq s /\ m \in s /\ m \notin 0 .. k
        BY <1>5, <1>6, <2>1
    <2> QED BY <1>4, <2>2
<1> QED BY <1>5, <1>6

\* n! counts the functions that choose one of the first i numbers for each i
\* up to n: there are n choices for the last.
Picks(n) == {f \in [1 .. n -> 1 .. n] : \A i \in 1 .. n : f[i] <= i}

LEMMA NoPicks == IsFiniteSet(Picks(0)) /\ Cardinality(Picks(0)) = 1
<1> DEFINE nothing == [i \in 1 .. 0 |-> i]
<1>1. nothing \in Picks(0)
    BY DEF Picks
<1>2. ASSUME NEW f \in Picks(0) PROVE f = nothing
    BY DEF Picks
<1>3. Picks(0) = {nothing}
    <2> HIDE DEF nothing
    <2> QED BY <1>1, <1>2
<1> HIDE DEF nothing
<1> QED BY <1>3, FS_Singleton

LEMMA MorePicks ==
    ASSUME NEW n \in Nat \ {0}, IsFiniteSet(Picks(n - 1))
    PROVE  /\ IsFiniteSet(Picks(n))
           /\ Cardinality(Picks(n)) = n * Cardinality(Picks(n - 1))
<1> DEFINE Pairs == (1 .. n) \X Picks(n - 1)
           F(p) == [i \in 1 .. n |-> IF i = n THEN p[1] ELSE p[2][i]]
           Put == [p \in Pairs |-> F(p)]
<1>1. ASSUME NEW k \in 1 .. n, NEW f \in Picks(n - 1)
      PROVE  /\ F(<<k, f>>) \in Picks(n)
             /\ F(<<k, f>>)[n] = k
             /\ \A i \in 1 .. n - 1 : F(<<k, f>>)[i] = f[i]
    BY DEF Picks
<1>2. Put \in [Pairs -> Picks(n)]
    BY <1>1
<1>3. ASSUME NEW p \in Pairs, NEW q \in Pairs, Put[p] = Put[q] PROVE p = q
    <2>1. PICK k \in 1 .. n, f \in Picks(n - 1) : p = <<k, f>>
        OBVIOUS
    <2>2. PICK l \in 1 .. n, g \in Picks(n - 1) : q = <<l, g>>
        OBVIOUS
    <2>3. F(<<k, f>>) = F(<<l, g>>)
        BY <1>3, <2>1, <2>2
    <2>4. k = l /\ \A i \in 1 .. n - 1 : f[i] = g[i]
        <3> HIDE DEF F
        <3> QED BY <1>1, <2>3
    <2>5. f = g
        BY <2>4 DEF Picks
    <2> QED BY <2>1, <2>2, <2>4, <2>5
<1>4. ASSUME NEW h \in Picks(n) PROVE \E p \in Pairs : Put[p] = h
    <2> DEFINE f == [i \in 1 .. n - 1 |-> h[i]]
    <2>1. f \in Picks(n - 1) /\ h[n] \in 1 .. n
        BY DEF Picks
    <2>2. F(<<h[n], f>>) = h
        BY DEF Picks
    <2>3. <<h[n], f>> \in Pairs
        BY <2>1
    <2> HIDE DEF f, F
    <2> QED BY <2>2, <2>3
<1>5. Put \in Bijection(Pairs, Picks(n))
    <2> HIDE DEF Put, Pairs
    <2> QED BY <1>2, <1>3, <1>4, Fun_IsBij
<1>6. IsFiniteSet(1 .. n) /\ Cardinality(1 .. n) = n
    BY FS_Interval
<1>7. IsFiniteSet(Pairs) /\ Cardinality(Pairs) = n * Cardinality(Picks(n - 1))
    <2> DEFINE numbers == 1 .. n
               before == Picks(n - 1)
    <2>1. /\ IsFiniteSet(numbers \X before)
          /\ Cardinality(numbers \X before) = Cardinality(numbers) * Cardinality(before)
        <3> HIDE DEF numbers, before
        <3> QED BY <1>6, FS_Product, Zenon DEF numbers, before
    <2> QED BY <1>6, <2>1
<1>8. ExistsBijection(Pairs, Picks(n))
    BY <1>5 DEF ExistsBijection
<1> HIDE DEF Pairs
<1> QED BY <1>7, <1>8, FS_Bijection

LEMMA PicksFinite ==
    ASSUME NEW n \in Nat
    PROVE  IsFiniteSet(Picks(n)) /\ Cardinality(Picks(n)) \in Nat \ {0}
<1> DEFINE Wrong(k) == ~(IsFiniteSet(Picks(k)) /\ Cardinality(Picks(k)) \in Nat \ {0})
           Bad == {k \in Nat : Wrong(k)}
<1>1. Bad \subseteq Nat
    OBVIOUS
<1>2. SUFFICES ASSUME Bad # {} PROVE FALSE
    OBVIOUS
<1>3. PICK m \in Bad : \A k \in Bad : m <= k
    <2> HIDE DEF Bad
    <2> QED BY <1>1, <1>2, LeastNumber
<1>4. CASE m = 0
    BY <1>3, <1>4, NoPicks
<1>5. CASE m # 0
    <2>1. m \in Nat \ {0} /\ m - 1 \in Nat /\ m - 1 \notin Bad
        BY <1>3, <1>5
    <2>2. IsFiniteSet(Picks(m - 1)) /\ Cardinality(Picks(m - 1)) \in Nat \ {0}
        BY <2>1
    <2>3. IsFiniteSet(Picks(m)) /\ Cardinality(Picks(m)) = m * Cardinality(Picks(m - 1))
        BY <2>1, <2>2, MorePicks
    <2>4. \A x, y \in Nat \ {0} : x * y \in Nat \ {0}
        OBVIOUS
    <2> HIDE DEF Bad
    <2>5. Cardinality(Picks(m)) \in Nat \ {0}
        BY <2>1, <2>2, <2>3, <2>4
    <2> QED BY <1>3, <2>3, <2>5 DEF Bad
<1> QED BY <1>4, <1>5

\* What its definition says of a factorial.
LEMMA FactorialRecursion ==
    /\ factorial[0] = 1
    /\ \A n \in Nat \ {0} : factorial[n] = n * factorial[n - 1]
    /\ \A n \in Nat : factorial[n] \in Nat \ {0}
<1> DEFINE Def(g) == g = [n \in Nat |-> IF n = 0 THEN 1 ELSE n * g[n - 1]]
           count == [n \in Nat |-> Cardinality(Picks(n))]
<1>1. Def(count)
    <2>1. ASSUME NEW n \in Nat
          PROVE  count[n] = IF n = 0 THEN 1 ELSE n * count[n - 1]
        BY NoPicks, MorePicks, PicksFinite
    <2> HIDE DEF count
    <2>2. count = [n \in Nat |-> count[n]]
        BY DEF count
    <2> QED BY <2>1, <2>2
<1>2. factorial = CHOOSE g : Def(g)
    BY Zenon DEF factorial
<1>3. Def(factorial)
    <2> HIDE DEF Def, count
    <2> QED BY <1>1, <1>2
<1>4. \A n \in Nat : factorial[n] = IF n = 0 THEN 1 ELSE n * factorial[n - 1]
    <2> HIDE DEF count
    <2> QED BY <1>3
<1> DEFINE Bad == {n \in Nat : factorial[n] \notin Nat \ {0}}
<1>5. Bad = {}
    <2> SUFFICES ASSUME Bad # {} PROVE FALSE
        OBVIOUS
    <2>1. Bad \subseteq Nat
        OBVIOUS
    <2>2. PICK m \in Bad : \A k \in Bad : m <= k
        <3> HIDE DEF Bad
        <3> QED BY <2>1, LeastNumber
    <2>3. m # 0
        BY <1>4, <2>2
    <2>4. m \in Nat \ {0} /\ m - 1 \in Nat /\ m - 1 \notin Bad
        BY <2>2, <2>3
    <2>5. factorial[m - 1] \in Nat \ {0}
        BY <2>4
    <2>6. \A x, y \in Nat \ {0} : x * y \in Nat \ {0}
        OBVIOUS
    <2>7. factorial[m] \in Nat \ {0}
        BY <1>4, <2>4, <2>5, <2>6
    <2> QED BY <2>2, <2>7
<1> QED BY <1>4, <1>5

\* C(a + b, a) counts the functions from a numbers to 0 .. b that never go
\* down: the last value is either b, or it is below b and so are all others.
Stairs(a, b) ==
    {w \in [0 .. a - 1 -> 0 .. b] : \A s, t \in 0 .. a - 1 : s <= t => w[s] <= w[t]}

LEMMA OneStair ==
    ASSUME NEW a \in Nat, NEW b \in Nat, a = 0 \/ b = 0
    PROVE  IsFiniteSet(Stairs(a, b)) /\ Cardinality(Stairs(a, b)) = 1
<1> DEFINE flat == [t \in 0 .. a - 1 |-> 0]
<1>1. flat \in Stairs(a, b)
    BY DEF Stairs
<1>2. ASSUME NEW w \in Stairs(a, b) PROVE w = flat
    <2>1. w \in [0 .. a - 1 -> 0 .. b]
        BY DEF Stairs
    <2>2. \A t \in 0 .. a - 1 : w[t] = 0
        BY <2>1
    <2> QED BY <2>1, <2>2
<1>3. Stairs(a, b) = {flat}
    <2> HIDE DEF flat
    <2> QED BY <1>1, <1>2
<1> HIDE DEF flat
<1> QED BY <1>3, FS_Singleton

LEMMA MoreStairs ==
    ASSUME NEW a \in Nat \ {0}, NEW b \in Nat \ {0},
           IsFiniteSet(Stairs(a - 1, b)), IsFiniteSet(Stairs(a, b - 1))
    PROVE  /\ IsFiniteSet(Stairs(a, b))
           /\ Cardinality(Stairs(a, b))
                = Cardinality(Stairs(a - 1, b)) + Cardinality(Stairs(a, b - 1))
<1> DEFINE High == {w \in Stairs(a, b) : w[a - 1] = b}
           Low == {w \in Stairs(a, b) : w[a - 1] # b}
           F(v) == [t \in 0 .. a - 1 |-> IF t = a - 1 THEN b ELSE v[t]]
           Put == [v \in Stairs(a - 1, b) |-> F(v)]
<1>1. Low = Stairs(a, b - 1)
    <2>1. ASSUME NEW w \in Low PROVE w \in Stairs(a, b - 1)
        <3>1. /\ w \in [0 .. a - 1 -> 0 .. b] /\ w[a - 1] # b /\ a - 1 \in 0 .. a - 1
              /\ \A s, t \in 0 .. a - 1 : s <= t => w[s] <= w[t]
            BY DEF Stairs
        <3>2. \A t \in 0 .. a - 1 : w[t] \in 0 .. b - 1
            BY <3>1
        <3>3. w \in [0 .. a - 1 -> 0 .. b - 1]
            BY <3>1, <3>2
        <3> QED BY <3>1, <3>3 DEF Stairs
    <2>2. ASSUME NEW w \in Stairs(a, b - 1) PROVE w \in Low
        <3>1. /\ w \in [0 .. a - 1 -> 0 .. b - 1] /\ a - 1 \in 0 .. a - 1
              /\ \A s, t \in 0 .. a - 1 : s <= t => w[s] <= w[t]
            BY DEF Stairs
        <3>2. w \in [0 .. a - 1 -> 0 .. b] /\ w[a - 1] # b
            BY <3>1
        <3> QED BY <3>1, <3>2 DEF Stairs
    <2> QED BY <2>1, <2>2
<1>2. ASSUME NEW v \in Stairs(a - 1, b)
      PROVE  /\ F(v) \in High
             /\ \A t \in 0 .. (a - 1) - 1 : F(v)[t] = v[t]
             /\ v = [t \in 0 .. (a - 1) - 1 |-> v[t]]
    <2>1. /\ v \in [0 .. (a - 1) - 1 -> 0 .. b]
          /\ \A s, t \in 0 .. (a - 1) - 1 : s <= t => v[s] <= v[t]
        BY DEF Stairs
    <2>2. F(v) \in [0 .. a - 1 -> 0 .. b]
        BY <2>1
    <2>3. ASSUME NEW s \in 0 .. a - 1, NEW t \in 0 .. a - 1, s <= t
          PROVE  F(v)[s] <= F(v)[t]
        BY <2>1, <2>3
    <2>4. F(v)[a - 1] = b
        OBVIOUS
    <2>5. F(v) \in High
        BY <2>2, <2>3, <2>4 DEF Stairs
    <2> QED BY <2>1, <2>5
<1>3. Put \in [Stairs(a - 1, b) -> High]
    <2> HIDE DEF F, High
    <2> QED BY <1>2
<1>4. ASSUME NEW v \in Stairs(a - 1, b), NEW w \in Stairs(a - 1, b), Put[v] = Put[w]
      PROVE  v = w
    <2>1. F(v) = F(w)
        BY <1>4
    <2> HIDE DEF F, High
    <2>2. \A t \in 0 .. (a - 1) - 1 : v[t] = w[t]
        BY <1>2, <2>1
    <2> QED BY <1>2, <2>2
<1>5. ASSUME NEW w \in High PROVE \E v \in Stairs(a - 1, b) : Put[v] = w
    <2> DEFINE v == [t \in 0 .. (a - 1) - 1 |-> w[t]]
    <2>1. /\ w \in [0 .. a - 1 -> 0 .. b] /\ w[a - 1] = b
          /\ \A s, t \in 0 .. a - 1 : s <= t => w[s] <= w[t]
        BY DEF Stairs
    <2>2. v \in Stairs(a - 1, b)
        BY <2>1 DEF Stairs
    <2>3. F(v) = w
        BY <2>1
    <2> HIDE DEF v, F
    <2> QED BY <2>2, <2>3
<1> DEFINE Fewer == Stairs(a - 1, b)
<1>6. Put \in Bijection(Fewer, High)
    <2> HIDE DEF Put, High
    <2> QED BY <1>3, <1>4, <1>5, Fun_IsBij
<1>7. ExistsBijection(Fewer, High)
    <2> HIDE DEF Put, High, Fewer
    <2> QED BY <1>6 DEF ExistsBijection
<1>8. IsFiniteSet(High) /\ Cardinality(High) = Cardinality(Fewer)
    <2> HIDE DEF High
    <2> QED BY <1>7, FS_Bijection
<1>9. High \cup Low = Stairs(a, b) /\ High \cap Low = {}
    OBVIOUS
<1>10. IsFiniteSet(Low) /\ Cardinality(Low) = Cardinality(Stairs(a, b - 1))
    <2> HIDE DEF Low
    <2> QED BY <1>1
<1> HIDE DEF High, Low
<1>11. /\ IsFiniteSet(High \cup Low)
       /\ Cardinality(High \cup Low) = Cardinality(High) + Cardinality(Low)
            - Cardinality(High \cap Low)
    BY <1>8, <1>10, FS_Union
<1>12. Cardinality(High) \in Nat /\ Cardinality(Low) \in Nat
    BY <1>8, <1>10, FS_CardinalityType
<1>13. Cardinality(High \cap Low) = 0
    BY <1>9, FS_EmptySet
<1>14. IsFiniteSet(Stairs(a, b)) /\ Cardinality(Stairs(a, b)) = Cardinality(High) + Cardinality(Low)
    <2>1. /\ IsFiniteSet(Stairs(a, b))
          /\ Cardinality(Stairs(a, b)) = Cardinality(High) + Cardinality(Low)
               - Cardinality(High \cap Low)
        BY <1>9, <1>11, Zenon
    <2> QED BY <1>12, <1>13, <2>1
<1> QED BY <1>8, <1>10, <1>14

\* How the counts of the two kinds add up to a factorial.
LEMMA TimesFactorials ==
    ASSUME NEW a \in Nat, NEW b \in Nat, NEW f \in Nat, NEW g \in Nat,
           NEW v \in Nat, NEW w \in Nat
    PROVE  a * (v * f * (b * g)) + b * (w * (a * f) * g)
             = (v + w) * (a * f) * (b * g)
OBVIOUS

LEMMA FactorialOfSum ==
    ASSUME NEW n \in Nat
    PROVE  \A a, b \in Nat : a + b = n =>
             /\ IsFiniteSet(Stairs(a, b)) /\ Cardinality(Stairs(a, b)) \in Nat
             /\ factorial[n] = Cardinality(Stairs(a, b)) * factorial[a] * factorial[b]
<1> DEFINE Right(a, b) ==
             /\ IsFiniteSet(Stairs(a, b)) /\ Cardinality(Stairs(a, b)) \in Nat
             /\ factorial[a + b] = Cardinality(Stairs(a, b)) * factorial[a] * factorial[b]
           Bad == {k \in Nat : \E a, b \in Nat : a + b = k /\ ~Right(a, b)}
<1>1. Bad \subseteq Nat
    OBVIOUS
<1>2. SUFFICES ASSUME Bad # {} PROVE FALSE
    OBVIOUS
<1>3. PICK m \in Bad : \A k \in Bad : m <= k
    <2> HIDE DEF Bad
    <2> QED BY <1>1, <1>2, LeastNumber
<1>4. PICK a \in Nat, b \in Nat : a + b = m /\ ~Right(a, b)
    <2> HIDE DEF Right
    <2> QED BY <1>3
<1>5. factorial[0] = 1 /\ factorial[a] \in Nat /\ factorial[b] \in Nat
    BY FactorialRecursion
<1>6. CASE a = 0 \/ b = 0
    <2>1. IsFiniteSet(Stairs(a, b)) /\ Cardinality(Stairs(a, b)) = 1
        BY <1>6, OneStair
    <2>2. CASE a = 0
        <3>1. a + b = b /\ factorial[a] = 1 /\ factorial[a + b] = factorial[b]
            BY <1>5, <2>2
        <3> QED BY <1>4, <1>5, <2>1, <3>1
    <2>3. CASE b = 0
        <3>1. a + b = a /\ factorial[b] = 1 /\ factorial[a + b] = factorial[a]
            BY <1>5, <2>3
        <3> QED BY <1>4, <1>5, <2>1, <3>1
    <2> QED BY <1>6, <2>2, <2>3
<1>7. CASE a # 0 /\ b # 0
    <2>1. /\ a \in Nat \ {0} /\ b \in Nat \ {0} /\ a - 1 \in Nat /\ b - 1 \in Nat
          /\ m \in Nat \ {0} /\ (a - 1) + b = m - 1 /\ a + (b - 1) = m - 1
          /\ m - 1 \in Nat /\ ~(m <= m - 1) /\ a + b = m
        BY <1>4, <1>7
    <2>2. Right(a - 1, b) /\ Right(a, b - 1)
        <3>1. m - 1 \notin Bad
            BY <1>3, <2>1
        <3> HIDE DEF Right
        <3> QED BY <2>1, <3>1
    <2> DEFINE v == Cardinality(Stairs(a - 1, b))
               w == Cardinality(Stairs(a, b - 1))
               f == factorial[a - 1]
               g == factorial[b - 1]
    <2>3. /\ IsFiniteSet(Stairs(a, b))
          /\ Cardinality(Stairs(a, b)) = v + w
        BY <2>1, <2>2, MoreStairs
    <2>4. /\ factorial[a] = a * f /\ factorial[b] = b * g /\ factorial[m] = m * factorial[m - 1]
          /\ f \in Nat /\ g \in Nat
        BY <2>1, FactorialRecursion
    <2>5. /\ v \in Nat /\ w \in Nat
          /\ factorial[m - 1] = v * f * factorial[b]
          /\ factorial[m - 1] = w * factorial[a] * g
        BY <2>1, <2>2
    <2>6. Cardinality(Stairs(a, b)) \in Nat /\ Cardinality(Stairs(a, b)) = v + w
        BY <2>3, <2>5
    <2> HIDE DEF v, w, f, g
    <2>7. factorial[m - 1] \in Nat
        BY <2>1, FactorialRecursion
    <2>8. m * factorial[m - 1] = a * factorial[m - 1] + b * factorial[m - 1]
        BY <2>1, <2>7
    <2>9. factorial[m] = a * (v * f * (b * g)) + b * (w * (a * f) * g)
        BY <2>4, <2>5, <2>8
    <2>10. factorial[m] = (v + w) * (a * f) * (b * g)
        BY <2>1, <2>4, <2>5, <2>9, TimesFactorials
    <2>11. factorial[a + b] = Cardinality(Stairs(a, b)) * factorial[a] * factorial[b]
        BY <2>1, <2>4, <2>6, <2>10
    <2> QED BY <1>4, <2>3, <2>6, <2>11
<1> QED BY <1>6, <1>7

\* The binomial coefficient.
LEMMA Quotient ==
    ASSUME NEW x \in Nat, NEW y \in Nat \ {0}
    PROVE  (x * y) \div y = x
OBVIOUS

\* The coefficient is the number of staircases.
LEMMA ChooseCountsStairs ==
    ASSUME NEW a \in Nat, NEW b \in Nat
    PROVE  /\ IsFiniteSet(Stairs(a, b))
           /\ choose(a + b, b) = Cardinality(Stairs(a, b))
<1> DEFINE w == Cardinality(Stairs(a, b))
<1>1. /\ IsFiniteSet(Stairs(a, b)) /\ w \in Nat
      /\ factorial[a + b] = w * factorial[a] * factorial[b]
    <2>1. a + b \in Nat
        OBVIOUS
    <2> QED BY <2>1, FactorialOfSum
<1>2. factorial[a] \in Nat \ {0} /\ factorial[b] \in Nat \ {0}
    BY FactorialRecursion
<1> HIDE DEF w
<1>3. /\ factorial[b] * factorial[a] \in Nat \ {0}
      /\ factorial[a + b] = w * (factorial[b] * factorial[a])
    <2>1. \A x \in Nat, y, z \in Nat \ {0} : z * y \in Nat \ {0} /\ x * y * z = x * (z * y)
        OBVIOUS
    <2> QED BY <1>1, <1>2, <2>1
<1>4. (a + b) - b = a
    OBVIOUS
<1>5. choose(a + b, b) = factorial[a + b] \div (factorial[b] * factorial[a])
    BY <1>4, Zenon DEF choose
<1>6. choose(a + b, b) = w
    BY <1>1, <1>3, <1>5, Quotient
<1> QED BY <1>1, <1>6 DEF w
=============================================================================
