------------------------------ MODULE Sums_proofs ------------------------------
(***************************************************************************)
(* The sum of a function over a finite set, SumFunctionOnSet of the        *)
(* community modules, for functions into the naturals: the payment modules *)
(* state their accounts with it.                                           *)
(*                                                                         *)
(* The sum is a fold, a recursive function on the subsets of the set that  *)
(* takes elements out in an order of its own.  Here it is shown to count   *)
(* the units of which the values consist; what the other proofs need of a  *)
(* sum are facts about the cardinality of that set of units.               *)
(***************************************************************************)
EXTENDS Integers, FiniteSets, Functions, FiniteSetTheorems, FunctionTheorems, TLAPS

\* One pair for each unit of each value.
Units(f, S) == {u \in S \X (Nat \ {0}) : u[2] <= f[u[1]]}

\* The element that the fold takes out of a set.
Picked(s) == CHOOSE x \in s : TRUE

\* The equation that the fold solves.
SolvesFold(iter, f, S) ==
  iter = [s \in SUBSET S |-> IF s = {} THEN 0
                             ELSE f[Picked(s)] + iter[s \ {Picked(s)}]]

\* The units of one element.
LEMMA UnitsOfOne ==
  ASSUME NEW f, NEW x, f[x] \in Nat
  PROVE  /\ IsFiniteSet(Units(f, {x}))
         /\ Cardinality(Units(f, {x})) = f[x]
<1> DEFINE unit == [k \in 1 .. f[x] |-> <<x, k>>]
<1>1. unit \in Bijection(1 .. f[x], Units(f, {x}))
  <2>1. \A k \in 1 .. f[x] : unit[k] \in Units(f, {x})
    BY DEF Units
  <2>2. \A j, k \in 1 .. f[x] : unit[j] = unit[k] => j = k
    OBVIOUS
  <2>3. ASSUME NEW u \in Units(f, {x})
        PROVE  \E k \in 1 .. f[x] : unit[k] = u
    <3>1. u = <<x, u[2]>> /\ u[2] \in 1 .. f[x]
      BY <2>3 DEF Units
    <3> QED BY <3>1
  <2> HIDE DEF unit
  <2>4. unit \in [1 .. f[x] -> Units(f, {x})]
    BY <2>1 DEF unit
  <2> QED BY <2>2, <2>3, <2>4 DEF Bijection, Injection, IsInjective, Surjection
<1>2. IsFiniteSet(1 .. f[x]) /\ Cardinality(1 .. f[x]) = f[x]
  BY FS_Interval
<1>3. ExistsBijection(1 .. f[x], Units(f, {x}))
  BY <1>1 DEF ExistsBijection
<1> QED BY <1>2, <1>3, FS_Bijection

\* The units of a finite set are finitely many.
LEMMA UnitsFinite ==
  ASSUME NEW f, NEW S, IsFiniteSet(S), \A x \in S : f[x] \in Nat
  PROVE  IsFiniteSet(Units(f, S))
<1> DEFINE family == [x \in S |-> Units(f, {x})]
           all == {family[x] : x \in S}
<1>1. IsFiniteSet(all)
  <2>1. family \in Surjection(S, all)
    BY DEF Surjection
  <2> QED BY <2>1, FS_Surjection
<1>2. \A T \in all : IsFiniteSet(T)
  BY UnitsOfOne
<1>3. Units(f, S) \subseteq UNION all
  <2> SUFFICES ASSUME NEW u \in Units(f, S) PROVE u \in UNION all
    OBVIOUS
  <2>1. u[1] \in S /\ u \in Units(f, {u[1]})
    BY DEF Units
  <2> QED BY <2>1
<1>4. IsFiniteSet(UNION all)
  BY <1>1, <1>2, FS_UNION
<1> QED BY <1>3, <1>4, FS_Subset

\* Taking an element out takes its units out.
LEMMA UnitsWithout ==
  ASSUME NEW f, NEW S, IsFiniteSet(S), \A x \in S : f[x] \in Nat, NEW x \in S
  PROVE  Cardinality(Units(f, S)) = f[x] + Cardinality(Units(f, S \ {x}))
<1>1. IsFiniteSet(S \ {x}) /\ (\A y \in S \ {x} : f[y] \in Nat)
  BY FS_RemoveElement
<1>2. Units(f, S) = Units(f, {x}) \cup Units(f, S \ {x})
  BY DEF Units
<1>3. Units(f, {x}) \cap Units(f, S \ {x}) = {}
  BY DEF Units
<1>4. /\ IsFiniteSet(Units(f, {x}))
      /\ IsFiniteSet(Units(f, S \ {x}))
      /\ Cardinality(Units(f, {x})) = f[x]
  BY <1>1, UnitsOfOne, UnitsFinite
<1>5. Cardinality(Units(f, S \ {x})) \in Nat
  BY <1>4, FS_CardinalityType
<1>6. Cardinality(Units(f, {x}) \cap Units(f, S \ {x})) = 0
  BY <1>3, FS_EmptySet
<1>7. Cardinality(Units(f, {x}) \cup Units(f, S \ {x}))
        = f[x] + Cardinality(Units(f, S \ {x})) - 0
  BY <1>4, <1>6, FS_Union
<1> QED BY <1>2, <1>5, <1>7

\* Counting units solves the equation of the fold.
LEMMA CountingSolves ==
  ASSUME NEW f, NEW S, IsFiniteSet(S), \A x \in S : f[x] \in Nat
  PROVE  SolvesFold([s \in SUBSET S |-> Cardinality(Units(f, s))], f, S)
<1> DEFINE count == [s \in SUBSET S |-> Cardinality(Units(f, s))]
<1>1. ASSUME NEW s \in SUBSET S
      PROVE  count[s] = IF s = {} THEN 0 ELSE f[Picked(s)] + count[s \ {Picked(s)}]
  <2>1. CASE s = {}
    <3>1. Units(f, {}) = {}
      BY DEF Units
    <3> QED BY <2>1, <3>1, FS_EmptySet
  <2>2. CASE s # {}
    <3>1. Picked(s) \in s
      BY <2>2 DEF Picked
    <3>2. IsFiniteSet(s) /\ \A x \in s : f[x] \in Nat
      BY FS_Subset
    <3>3. Cardinality(Units(f, s)) = f[Picked(s)] + Cardinality(Units(f, s \ {Picked(s)}))
      BY <3>1, <3>2, UnitsWithout
    <3>4. s \ {Picked(s)} \in SUBSET S
      OBVIOUS
    <3> QED BY <2>2, <3>3, <3>4
  <2> QED BY <2>1, <2>2
<1> HIDE DEF count
<1>2. count = [s \in SUBSET S |-> IF s = {} THEN 0
                                  ELSE f[Picked(s)] + count[s \ {Picked(s)}]]
  <2>1. count = [s \in SUBSET S |-> count[s]]
    BY DEF count
  <2> QED BY <1>1, <2>1
<1> QED BY <1>2 DEF SolvesFold, count

\* The equation has one solution: a smallest set on which two of them differ
\* cannot be.
LEMMA FoldIsUnique ==
  ASSUME NEW f, NEW S, IsFiniteSet(S), NEW g, NEW h,
         SolvesFold(g, f, S), SolvesFold(h, f, S)
  PROVE  g[S] = h[S]
<1> DEFINE apart == {s \in SUBSET S : g[s] # h[s]}
<1>1. SUFFICES ASSUME apart # {} PROVE FALSE
  BY <1>1
<1>2. IsWellFoundedOn(StrictSubsetOrdering(S), SUBSET S)
  BY FS_StrictSubsetOrderingWellFounded, FS_FiniteSubsetsOfFinite
<1>3. apart \subseteq SUBSET S
  OBVIOUS
<1> HIDE DEF apart
<1>4. PICK s \in apart : \A t \in apart : ~(<<t, s>> \in StrictSubsetOrdering(S))
  BY <1>1, <1>2, <1>3, WFMin
<1>5. s \in SUBSET S /\ g[s] # h[s]
  BY DEF apart
<1>6. /\ g[s] = IF s = {} THEN 0 ELSE f[Picked(s)] + g[s \ {Picked(s)}]
      /\ h[s] = IF s = {} THEN 0 ELSE f[Picked(s)] + h[s \ {Picked(s)}]
  BY <1>5 DEF SolvesFold
<1>7. s # {}
  BY <1>5, <1>6
<1>8. Picked(s) \in s
  BY <1>7 DEF Picked
<1> DEFINE t == s \ {Picked(s)}
<1>9. t \in SUBSET S /\ t \subseteq s /\ t # s
  BY <1>5, <1>8
<1>10. <<t, s>> \in StrictSubsetOrdering(S)
  BY <1>5, <1>9 DEF StrictSubsetOrdering
<1>11. g[t] = h[t]
  BY <1>4, <1>9, <1>10 DEF apart
<1> QED BY <1>5, <1>6, <1>7, <1>11

\* The sum of a function over a finite set is the number of its units.
THEOREM SumCountsUnits ==
  ASSUME NEW f, NEW S, IsFiniteSet(S), \A x \in S : f[x] \in Nat
  PROVE  SumFunctionOnSet(f, S) = Cardinality(Units(f, S))
<1> DEFINE iter == CHOOSE g : SolvesFold(g, f, S)
           count == [s \in SUBSET S |-> Cardinality(Units(f, s))]
<1>1. SumFunctionOnSet(f, S) = iter[S]
  BY DEF SumFunctionOnSet, FoldFunctionOnSet, MapThenFoldSet, SolvesFold, Picked
<1>2. SolvesFold(count, f, S)
  BY CountingSolves
<1> HIDE DEF count
<1>3. SolvesFold(iter, f, S)
  BY <1>2
<1> HIDE DEF iter
<1>4. iter[S] = count[S]
  BY <1>2, <1>3, FoldIsUnique
<1> QED BY <1>1, <1>4 DEF count

-----------------------------------------------------------------------------
(* What the accounts need of a sum. *)

\* A sum of naturals is a natural; that of nothing is 0.
LEMMA SumType ==
  ASSUME NEW f, NEW S, IsFiniteSet(S), \A x \in S : f[x] \in Nat
  PROVE  SumFunctionOnSet(f, S) \in Nat
BY SumCountsUnits, UnitsFinite, FS_CardinalityType

LEMMA SumOfNothing ==
  ASSUME NEW f
  PROVE  SumFunctionOnSet(f, {}) = 0
<1>1. Units(f, {}) = {}
  BY DEF Units
<1> QED BY <1>1, SumCountsUnits, FS_EmptySet

LEMMA SumOfZeros ==
  ASSUME NEW f, NEW S, IsFiniteSet(S), \A x \in S : f[x] = 0
  PROVE  SumFunctionOnSet(f, S) = 0
<1>1. Units(f, S) = {}
  BY DEF Units
<1> QED BY <1>1, SumCountsUnits, FS_EmptySet

\* One element is taken out of the sum, or added to it.
LEMMA SumWithout ==
  ASSUME NEW f, NEW S, IsFiniteSet(S), \A x \in S : f[x] \in Nat, NEW x \in S
  PROVE  SumFunctionOnSet(f, S) = f[x] + SumFunctionOnSet(f, S \ {x})
<1>1. IsFiniteSet(S \ {x})
  BY FS_RemoveElement
<1> QED BY <1>1, UnitsWithout, SumCountsUnits

LEMMA SumWith ==
  ASSUME NEW f, NEW S, IsFiniteSet(S), \A y \in S : f[y] \in Nat,
         NEW x, x \notin S, f[x] \in Nat
  PROVE  SumFunctionOnSet(f, S \cup {x}) = SumFunctionOnSet(f, S) + f[x]
<1>1. IsFiniteSet(S \cup {x}) /\ (S \cup {x}) \ {x} = S
  BY FS_AddElement
<1>2. SumFunctionOnSet(f, S \cup {x}) = f[x] + SumFunctionOnSet(f, S)
  BY <1>1, SumWithout
<1> QED BY <1>2, SumType

\* The sum over two sets that share nothing.
LEMMA SumOfUnion ==
  ASSUME NEW f, NEW S, NEW T, IsFiniteSet(S), IsFiniteSet(T), S \cap T = {},
         \A x \in S \cup T : f[x] \in Nat
  PROVE  SumFunctionOnSet(f, S \cup T) = SumFunctionOnSet(f, S) + SumFunctionOnSet(f, T)
<1>1. /\ IsFiniteSet(Units(f, S)) /\ IsFiniteSet(Units(f, T))
      /\ Cardinality(Units(f, S)) \in Nat /\ Cardinality(Units(f, T)) \in Nat
  BY UnitsFinite, FS_CardinalityType
<1>2. Units(f, S \cup T) = Units(f, S) \cup Units(f, T)
  BY DEF Units
<1>3. Units(f, S) \cap Units(f, T) = {}
  BY DEF Units
<1>4. Cardinality(Units(f, S) \cap Units(f, T)) = 0
  BY <1>3, FS_EmptySet
<1>5. Cardinality(Units(f, S) \cup Units(f, T))
        = Cardinality(Units(f, S)) + Cardinality(Units(f, T))
  <2>1. Cardinality(Units(f, S) \cup Units(f, T))
          = Cardinality(Units(f, S)) + Cardinality(Units(f, T))
              - Cardinality(Units(f, S) \cap Units(f, T))
    BY <1>1, FS_Union
  <2> QED BY <1>1, <1>4, <2>1
<1>6. IsFiniteSet(S \cup T)
  BY FS_Union
<1> QED BY <1>2, <1>5, <1>6, SumCountsUnits

\* Only the values on the set matter.
LEMMA SumAgrees ==
  ASSUME NEW f, NEW g, NEW S, IsFiniteSet(S),
         \A x \in S : f[x] \in Nat /\ f[x] = g[x]
  PROVE  SumFunctionOnSet(f, S) = SumFunctionOnSet(g, S)
<1>1. Units(f, S) = Units(g, S)
  BY DEF Units
<1> QED BY <1>1, SumCountsUnits

\* Two functions that differ at one element have sums that differ as much.
LEMMA SumChangesAt ==
  ASSUME NEW f, NEW g, NEW S, IsFiniteSet(S), NEW x \in S,
         \A y \in S : f[y] \in Nat /\ g[y] \in Nat,
         \A y \in S \ {x} : f[y] = g[y]
  PROVE  SumFunctionOnSet(g, S) = SumFunctionOnSet(f, S) + g[x] - f[x]
<1>1. IsFiniteSet(S \ {x})
  BY FS_RemoveElement
<1>2. SumFunctionOnSet(f, S \ {x}) = SumFunctionOnSet(g, S \ {x})
  BY <1>1, SumAgrees
<1>3. /\ SumFunctionOnSet(f, S) = f[x] + SumFunctionOnSet(f, S \ {x})
      /\ SumFunctionOnSet(g, S) = g[x] + SumFunctionOnSet(g, S \ {x})
  BY SumWithout
<1>4. SumFunctionOnSet(f, S \ {x}) \in Nat
  BY <1>1, SumType
<1> QED BY <1>2, <1>3, <1>4

\* More elements, or greater values, make a sum no smaller.
LEMMA SumMonotone ==
  ASSUME NEW f, NEW g, NEW S, NEW T, IsFiniteSet(T), S \subseteq T,
         \A x \in S : f[x] \in Nat /\ f[x] <= g[x],
         \A x \in T : g[x] \in Nat
  PROVE  SumFunctionOnSet(f, S) <= SumFunctionOnSet(g, T)
<1>1. IsFiniteSet(S)
  BY FS_Subset
<1>2. Units(f, S) \subseteq Units(g, T)
  <2> SUFFICES ASSUME NEW u \in Units(f, S) PROVE u \in Units(g, T)
    OBVIOUS
  <2>1. u \in S \X (Nat \ {0}) /\ u[2] <= f[u[1]]
    BY DEF Units
  <2>2. u[1] \in S /\ u[2] \in Nat /\ f[u[1]] \in Nat /\ f[u[1]] <= g[u[1]]
        /\ g[u[1]] \in Nat
    BY <2>1
  <2>3. u[2] <= g[u[1]]
    BY <2>1, <2>2
  <2> QED BY <2>1, <2>3 DEF Units
<1>3. IsFiniteSet(Units(g, T))
  BY UnitsFinite
<1>4. Cardinality(Units(f, S)) <= Cardinality(Units(g, T))
  BY <1>2, <1>3, FS_Subset
<1> QED BY <1>1, <1>4, SumCountsUnits
================================================================================
