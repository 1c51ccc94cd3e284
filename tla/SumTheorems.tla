---------------------------- MODULE SumTheorems ----------------------------
(***************************************************************************)
(* Sums of functions with a finite domain, as SumFunction of the community *)
(* modules defines them: the sum of integers is an integer, zero over      *)
(* nothing, changes by the value of a point that is added or changed, does *)
(* not see points with the value zero, and follows the order of the        *)
(* values.  The argument is induction over the subsets of a finite set     *)
(* (SubsetInduction), stated for a set of subsets where an induction       *)
(* theorem would take an operator.                                         *)
(***************************************************************************)
EXTENDS Integers, Functions, FiniteSetTheorems, WellFoundedInduction, TLAPS

Pick(s) == CHOOSE x \in s : TRUE

(* h is the table from which the sum of f over D is read.                   *)
IsTable(f, h, D) ==
    h = [s \in SUBSET D |->
           IF s = {} THEN 0 ELSE f[Pick(s)] + h[s \ {Pick(s)}]]

Table(f, D) == CHOOSE h : IsTable(f, h, D)

LEMMA SumIs ==
    ASSUME NEW f, NEW S
    PROVE  SumFunctionOnSet(f, S) = Table(f, S)[S]
BY DEF SumFunctionOnSet, FoldFunctionOnSet, MapThenFoldSet, Table, IsTable, Pick

(* Of the subsets of a finite set that are in G, one has no smaller one.    *)
LEMMA SmallestSubset ==
    ASSUME NEW D, IsFiniteSet(D), NEW G \in SUBSET SUBSET D, G # {}
    PROVE  \E T \in G : \A U \in SUBSET T : U # T => U \notin G
<1>1. FiniteSubsetsOf(D) = SUBSET D
  BY FS_FiniteSubsetsOfFinite
<1>2. IsWellFoundedOn(StrictSubsetOrdering(D), SUBSET D)
  BY <1>1, FS_StrictSubsetOrderingWellFounded
<1>3. \E T \in G : \A U \in G : <<U, T>> \notin StrictSubsetOrdering(D)
  BY <1>2, WFMin
<1> QED BY <1>3 DEF StrictSubsetOrdering

(* Induction over the subsets of a finite set.                              *)
LEMMA SubsetInduction ==
    ASSUME NEW D, IsFiniteSet(D), NEW G,
           \A T \in SUBSET D : (\A U \in SUBSET T : U # T => U \in G) => T \in G
    PROVE  D \in G
<1> DEFINE Bad == (SUBSET D) \ G
<1>1. SUFFICES ASSUME Bad # {} PROVE FALSE
  OBVIOUS
<1>2. PICK T \in Bad : \A U \in SUBSET T : U # T => U \notin Bad
  <2>1. Bad \in SUBSET SUBSET D
    OBVIOUS
  <2> HIDE DEF Bad
  <2> QED BY <1>1, <2>1, SmallestSubset
<1> QED BY <1>2

(* Two tables over the same finite set are equal.                           *)
LEMMA TablesEqual ==
    ASSUME NEW f, NEW D, IsFiniteSet(D), NEW g, NEW h,
           IsTable(f, g, D), IsTable(f, h, D)
    PROVE  g = h
<1> DEFINE Differ == {s \in SUBSET D : g[s] # h[s]}
<1>1. SUFFICES ASSUME Differ # {} PROVE FALSE
  BY DEF IsTable
<1>2. PICK T \in Differ : \A U \in SUBSET T : U # T => U \notin Differ
  <2>1. Differ \in SUBSET SUBSET D
    OBVIOUS
  <2> HIDE DEF Differ
  <2> QED BY <1>1, <2>1, SmallestSubset
<1>3. T # {}
  BY DEF IsTable
<1>4. Pick(T) \in T
  BY <1>3 DEF Pick
<1>5. T \ {Pick(T)} \in SUBSET T /\ T \ {Pick(T)} # T
  BY <1>4
<1>6. g[T \ {Pick(T)}] = h[T \ {Pick(T)}]
  BY <1>2, <1>5
<1> QED BY <1>3, <1>6 DEF IsTable

(* A table restricted to the subsets of a smaller set is a table.           *)
LEMMA SmallerTable ==
    ASSUME NEW f, NEW D, NEW h, IsTable(f, h, D), NEW E \in SUBSET D
    PROVE  IsTable(f, [s \in SUBSET E |-> h[s]], E)
<1> DEFINE e == [s \in SUBSET E |-> h[s]]
<1>1. ASSUME NEW s \in SUBSET E
      PROVE  e[s] = IF s = {} THEN 0 ELSE f[Pick(s)] + e[s \ {Pick(s)}]
  <2>1. h[s] = IF s = {} THEN 0 ELSE f[Pick(s)] + h[s \ {Pick(s)}]
    BY DEF IsTable
  <2>2. s \ {Pick(s)} \in SUBSET E
    OBVIOUS
  <2> QED BY <2>1, <2>2
<1> QED BY <1>1 DEF IsTable

(* Over a finite set there is a table.                                      *)
LEMMA TableExists ==
    ASSUME NEW f, NEW S, IsFiniteSet(S)
    PROVE  IsTable(f, Table(f, S), S)
<1> DEFINE None == {T \in SUBSET S : ~ \E h : IsTable(f, h, T)}
<1>1. ASSUME None # {} PROVE FALSE
  <2>1. PICK T \in None : \A U \in SUBSET T : U # T => U \notin None
    <3>1. None \in SUBSET SUBSET S
      OBVIOUS
    <3> HIDE DEF None
    <3> QED BY <1>1, <3>1, SmallestSubset
  <2>2. \A U \in SUBSET T : IsFiniteSet(U)
    BY FS_Subset
  <2>3. ASSUME NEW U \in SUBSET T, U # T
        PROVE  IsTable(f, Table(f, U), U)
    BY <2>1, <2>3 DEF Table
  <2> DEFINE low(s) == Table(f, s)[s]
             h == [s \in SUBSET T |->
                     IF s = {} THEN 0 ELSE f[Pick(s)] + low(s \ {Pick(s)})]
  <2>4. ASSUME NEW U \in SUBSET T, U # T
        PROVE  h[U] = low(U)
    <3>1. IsTable(f, Table(f, U), U)
      BY <2>3, <2>4
    <3>2. CASE U = {}
      BY <3>1, <3>2 DEF IsTable
    <3>3. CASE U # {}
      <4> DEFINE V == U \ {Pick(U)}
      <4>1. Pick(U) \in U
        BY <3>3 DEF Pick
      <4>2. V \in SUBSET U /\ V \in SUBSET T /\ V # T
        BY <4>1
      <4>3. IsTable(f, Table(f, V), V)
        BY <4>2, <2>3
      <4>4. IsTable(f, [s \in SUBSET V |-> Table(f, U)[s]], V)
        BY <3>1, <4>2, SmallerTable
      <4>5. Table(f, V) = [s \in SUBSET V |-> Table(f, U)[s]]
        BY <4>2, <4>3, <4>4, <2>2, TablesEqual
      <4>6. low(V) = Table(f, U)[V]
        BY <4>5
      <4>7. Table(f, U)[U] = f[Pick(U)] + Table(f, U)[V]
        BY <3>1, <3>3 DEF IsTable
      <4> QED BY <3>3, <4>6, <4>7
    <3> QED BY <3>2, <3>3
  <2>5. ASSUME NEW s \in SUBSET T, s # {}
        PROVE  h[s \ {Pick(s)}] = low(s \ {Pick(s)})
    <3>1. Pick(s) \in s
      BY <2>5 DEF Pick
    <3>2. s \ {Pick(s)} \in SUBSET T /\ s \ {Pick(s)} # T
      BY <3>1
    <3> QED BY <3>2, <2>4
  <2>6. IsTable(f, h, T)
    <3> HIDE DEF low
    <3> QED BY <2>5 DEF IsTable
  <2> QED BY <2>1, <2>6
<1>2. \E h : IsTable(f, h, S)
  BY <1>1
<1> QED BY <1>2 DEF Table

-----------------------------------------------------------------------------
(* The sum over no element is zero.                                         *)
LEMMA SumEmpty == ASSUME NEW f PROVE SumFunctionOnSet(f, {}) = 0
<1>1. IsTable(f, Table(f, {}), {})
  BY FS_EmptySet, TableExists
<1> QED BY <1>1, SumIs DEF IsTable

(* The sum over a finite set takes one element apart.                       *)
LEMMA SumUnfold ==
    ASSUME NEW f, NEW S, IsFiniteSet(S), S # {}
    PROVE  SumFunctionOnSet(f, S) =
             f[Pick(S)] + SumFunctionOnSet(f, S \ {Pick(S)})
<1> DEFINE V == S \ {Pick(S)}
<1>1. IsTable(f, Table(f, S), S)
  BY TableExists
<1>2. IsFiniteSet(V)
  BY FS_RemoveElement
<1>3. IsTable(f, Table(f, V), V)
  BY <1>2, TableExists
<1>4. IsTable(f, [s \in SUBSET V |-> Table(f, S)[s]], V)
  BY <1>1, SmallerTable
<1>5. Table(f, V) = [s \in SUBSET V |-> Table(f, S)[s]]
  BY <1>2, <1>3, <1>4, TablesEqual
<1>6. Table(f, V)[V] = Table(f, S)[V]
  BY <1>5
<1>7. Table(f, S)[S] = f[Pick(S)] + Table(f, S)[V]
  BY <1>1 DEF IsTable
<1> QED BY <1>6, <1>7, SumIs

(* A sum of integers is an integer, one of natural numbers a natural number.*)
LEMMA SumType ==
    ASSUME NEW S, IsFiniteSet(S), NEW f, NEW N, N = Int \/ N = Nat,
           \A x \in S : f[x] \in N
    PROVE  SumFunctionOnSet(f, S) \in N
<1> DEFINE Bad == {T \in SUBSET S : SumFunctionOnSet(f, T) \notin N}
<1>1. SUFFICES ASSUME Bad # {} PROVE FALSE
  OBVIOUS
<1>2. PICK T \in Bad : \A U \in SUBSET T : U # T => U \notin Bad
  <2>1. Bad \in SUBSET SUBSET S
    OBVIOUS
  <2> HIDE DEF Bad
  <2> QED BY <1>1, <2>1, SmallestSubset
<1>3. T # {}
  BY SumEmpty
<1>4. Pick(T) \in T
  BY <1>3 DEF Pick
<1>5. SumFunctionOnSet(f, T \ {Pick(T)}) \in N
  BY <1>2, <1>4
<1>6. SumFunctionOnSet(f, T) = f[Pick(T)] + SumFunctionOnSet(f, T \ {Pick(T)})
  BY <1>3, FS_Subset, SumUnfold
<1>7. f[Pick(T)] \in N
  BY <1>4
<1> QED BY <1>5, <1>6, <1>7

(* The sum depends only on the values of the function on the set.           *)
LEMMA SumSame ==
    ASSUME NEW S, IsFiniteSet(S), NEW f, NEW g, \A x \in S : f[x] = g[x]
    PROVE  SumFunctionOnSet(f, S) = SumFunctionOnSet(g, S)
<1> DEFINE Bad == {T \in SUBSET S :
                      SumFunctionOnSet(f, T) # SumFunctionOnSet(g, T)}
<1>1. SUFFICES ASSUME Bad # {} PROVE FALSE
  OBVIOUS
<1>2. PICK T \in Bad : \A U \in SUBSET T : U # T => U \notin Bad
  <2>1. Bad \in SUBSET SUBSET S
    OBVIOUS
  <2> HIDE DEF Bad
  <2> QED BY <1>1, <2>1, SmallestSubset
<1>3. T # {}
  BY SumEmpty
<1>4. Pick(T) \in T
  BY <1>3 DEF Pick
<1>5. SumFunctionOnSet(f, T \ {Pick(T)}) = SumFunctionOnSet(g, T \ {Pick(T)})
  BY <1>2, <1>4
<1>6. IsFiniteSet(T)
  BY FS_Subset
<1>7. SumFunctionOnSet(f, T) = f[Pick(T)] + SumFunctionOnSet(f, T \ {Pick(T)})
  BY <1>3, <1>6, SumUnfold
<1>8. SumFunctionOnSet(g, T) = g[Pick(T)] + SumFunctionOnSet(g, T \ {Pick(T)})
  BY <1>3, <1>6, SumUnfold
<1> QED BY <1>4, <1>5, <1>7, <1>8

(* Any element may be taken apart.                                          *)
LEMMA SumRemove ==
    ASSUME NEW S, IsFiniteSet(S), NEW f, \A x \in S : f[x] \in Int, NEW a \in S
    PROVE  SumFunctionOnSet(f, S) = f[a] + SumFunctionOnSet(f, S \ {a})
<1> DEFINE sum(T) == SumFunctionOnSet(f, T)
           Bad == {T \in SUBSET S : \E b \in T : sum(T) # f[b] + sum(T \ {b})}
<1>1. SUFFICES ASSUME Bad # {} PROVE FALSE
  BY DEF Bad
<1>2. PICK T \in Bad : \A U \in SUBSET T : U # T => U \notin Bad
  <2>1. Bad \in SUBSET SUBSET S
    OBVIOUS
  <2> HIDE DEF Bad
  <2> QED BY <1>1, <2>1, SmallestSubset
<1>3. PICK b \in T : sum(T) # f[b] + sum(T \ {b})
  OBVIOUS
<1> DEFINE p == Pick(T)
<1>4. p \in T
  BY <1>3 DEF Pick
<1>5. IsFiniteSet(T) /\ IsFiniteSet(T \ {p}) /\ IsFiniteSet(T \ {b})
      /\ IsFiniteSet(T \ {b, p})
  BY FS_Subset
<1>6. sum(T) = f[p] + sum(T \ {p})
  BY <1>4, <1>5, SumUnfold
<1>7. b # p
  BY <1>3, <1>6
<1>8. sum(T \ {p}) = f[b] + sum((T \ {p}) \ {b})
  BY <1>2, <1>4, <1>7
<1>9. sum(T \ {b}) = f[p] + sum((T \ {b}) \ {p})
  BY <1>2, <1>3, <1>4, <1>7
<1>10. (T \ {p}) \ {b} = T \ {b, p} /\ (T \ {b}) \ {p} = T \ {b, p}
  OBVIOUS
<1>11. sum(T \ {b, p}) \in Int
  BY <1>5, SumType
<1>12. f[b] \in Int /\ f[p] \in Int
  BY <1>3, <1>4
<1>13. sum(T \ {p}) = f[b] + sum(T \ {b, p}) /\ sum(T \ {b}) = f[p] + sum(T \ {b, p})
  BY <1>8, <1>9, <1>10
<1>14. sum(T) = f[p] + (f[b] + sum(T \ {b, p}))
  BY <1>6, <1>13
<1>15. f[p] + (f[b] + sum(T \ {b, p})) = f[b] + (f[p] + sum(T \ {b, p}))
  <2> HIDE DEF sum, p
  <2> QED BY <1>11, <1>12
<1>16. sum(T) = f[b] + sum(T \ {b})
  BY <1>13, <1>14, <1>15
<1> QED BY <1>3, <1>16

(* One element more.                                                        *)
LEMMA SumAdd ==
    ASSUME NEW S, IsFiniteSet(S), NEW a, a \notin S, NEW f,
           \A x \in S \cup {a} : f[x] \in Int
    PROVE  SumFunctionOnSet(f, S \cup {a}) = f[a] + SumFunctionOnSet(f, S)
<1>1. IsFiniteSet(S \cup {a})
  BY FS_AddElement
<1>2. (S \cup {a}) \ {a} = S
  OBVIOUS
<1> QED BY <1>1, <1>2, SumRemove
-----------------------------------------------------------------------------
(* The facts the proofs cite: sums of functions with a finite domain.       *)

Summable(f) == IsFiniteSet(DOMAIN f) /\ \A x \in DOMAIN f : f[x] \in Int

(* Nothing is summed up to zero.                                            *)
LEMMA SumFunctionEmpty == ASSUME NEW f, DOMAIN f = {} PROVE SumFunction(f) = 0
BY SumEmpty DEF SumFunction

(* A sum of integers is an integer.                                         *)
LEMMA SumFunctionInt == ASSUME NEW f, Summable(f) PROVE SumFunction(f) \in Int
BY SumType DEF Summable, SumFunction

(* A sum of natural numbers is a natural number.                            *)
LEMMA SumFunctionNat ==
    ASSUME NEW f, Summable(f), \A x \in DOMAIN f : f[x] >= 0
    PROVE  SumFunction(f) \in Nat
<1>1. \A x \in DOMAIN f : f[x] \in Nat
  BY DEF Summable
<1> QED BY <1>1, SumType DEF Summable, SumFunction

(* Functions that are equal point by point have the same sum.               *)
LEMMA SumFunctionSame ==
    ASSUME NEW f, NEW g, Summable(f), DOMAIN g = DOMAIN f,
           \A x \in DOMAIN f : g[x] = f[x]
    PROVE  Summable(g) /\ SumFunction(g) = SumFunction(f)
BY SumSame DEF Summable, SumFunction

(* One more point adds its value.                                           *)
LEMMA SumFunctionExtend ==
    ASSUME NEW f, NEW g, NEW a, Summable(f), a \notin DOMAIN f, g[a] \in Int,
           DOMAIN g = DOMAIN f \cup {a}, \A x \in DOMAIN f : g[x] = f[x]
    PROVE  Summable(g) /\ SumFunction(g) = SumFunction(f) + g[a]
<1>1. Summable(g)
  BY FS_AddElement DEF Summable
<1>2. SumFunctionOnSet(g, DOMAIN g) = g[a] + SumFunctionOnSet(g, DOMAIN f)
  BY SumAdd DEF Summable
<1>3. SumFunctionOnSet(g, DOMAIN f) = SumFunctionOnSet(f, DOMAIN f)
  BY SumSame DEF Summable
<1>4. SumFunction(f) \in Int
  BY SumFunctionInt
<1> QED BY <1>1, <1>2, <1>3, <1>4 DEF SumFunction

(* A changed value changes the sum by the difference.                       *)
LEMMA SumFunctionUpdate ==
    ASSUME NEW f, NEW g, NEW a \in DOMAIN f, Summable(f), g[a] \in Int,
           DOMAIN g = DOMAIN f, \A x \in DOMAIN f : x # a => g[x] = f[x]
    PROVE  Summable(g) /\ SumFunction(g) = SumFunction(f) + (g[a] - f[a])
<1> DEFINE R == DOMAIN f \ {a}
<1>1. Summable(g) /\ IsFiniteSet(R)
  BY FS_RemoveElement DEF Summable
<1>2. SumFunction(f) = f[a] + SumFunctionOnSet(f, R)
  BY SumRemove DEF Summable, SumFunction
<1>3. SumFunction(g) = g[a] + SumFunctionOnSet(g, R)
  BY <1>1, SumRemove DEF Summable, SumFunction
<1>4. SumFunctionOnSet(g, R) = SumFunctionOnSet(f, R)
  BY <1>1, SumSame
<1>5. SumFunctionOnSet(f, R) \in Int
  BY <1>1, SumType DEF Summable
<1>6. f[a] \in Int
  BY DEF Summable
<1> HIDE DEF R
<1> QED BY <1>1, <1>2, <1>3, <1>4, <1>5, <1>6

(* Points with the value zero do not count.                                 *)
LEMMA SumFunctionSupport ==
    ASSUME NEW f, NEW g, Summable(f), DOMAIN g \subseteq DOMAIN f,
           \A x \in DOMAIN g : g[x] = f[x],
           \A x \in DOMAIN f \ DOMAIN g : f[x] = 0
    PROVE  Summable(g) /\ SumFunction(g) = SumFunction(f)
<1> DEFINE S == DOMAIN f
           D == DOMAIN g
           Good == {T \in SUBSET S :
                      SumFunctionOnSet(f, T) = SumFunctionOnSet(f, T \cap D)}
<1>0. Summable(g)
  BY FS_Subset DEF Summable
<1>1. ASSUME NEW T \in SUBSET S, \A U \in SUBSET T : U # T => U \in Good
      PROVE  T \in Good
  <2>1. CASE T = {}
    BY <2>1
  <2>2. CASE T # {}
    <3>1. PICK a \in T : TRUE
      BY <2>2
    <3>2. IsFiniteSet(T) /\ IsFiniteSet(T \cap D)
      BY FS_Subset DEF Summable
    <3>3. SumFunctionOnSet(f, T) = f[a] + SumFunctionOnSet(f, T \ {a})
      BY <3>2, SumRemove DEF Summable
    <3>4. SumFunctionOnSet(f, T \ {a}) = SumFunctionOnSet(f, (T \ {a}) \cap D)
      BY <1>1, <3>1
    <3>5. SumFunctionOnSet(f, (T \ {a}) \cap D) \in Int
      BY FS_Subset, SumType DEF Summable
    <3>6. CASE a \in D
      <4>1. (T \ {a}) \cap D = (T \cap D) \ {a}
        OBVIOUS
      <4>2. SumFunctionOnSet(f, T \cap D)
              = f[a] + SumFunctionOnSet(f, (T \cap D) \ {a})
        BY <3>2, <3>6, SumRemove DEF Summable
      <4> QED BY <3>3, <3>4, <4>1, <4>2
    <3>7. CASE a \notin D
      <4>1. (T \ {a}) \cap D = T \cap D
        BY <3>7
      <4>2. f[a] = 0
        BY <3>7
      <4>3. SumFunctionOnSet(f, T) = SumFunctionOnSet(f, (T \ {a}) \cap D)
        BY <3>3, <3>4, <3>5, <4>2
      <4> QED BY <4>1, <4>3
    <3> QED BY <3>6, <3>7
  <2> QED BY <2>1, <2>2
<1>2. S \in Good
  <2> HIDE DEF Good
  <2>1. IsFiniteSet(S)
    BY DEF Summable
  <2> QED BY <1>1, <2>1, SubsetInduction
<1>3. SumFunctionOnSet(f, S) = SumFunctionOnSet(f, D)
  <2>1. S \cap D = D
    OBVIOUS
  <2> QED BY <1>2, <2>1
<1>4. SumFunctionOnSet(g, D) = SumFunctionOnSet(f, D)
  BY <1>0, SumSame DEF Summable
<1> QED BY <1>0, <1>3, <1>4 DEF SumFunction

(* Sums follow the order of the values.                                     *)
LEMMA SumFunctionMonotone ==
    ASSUME NEW f, NEW g, Summable(f), Summable(g), DOMAIN g = DOMAIN f,
           \A x \in DOMAIN f : f[x] <= g[x]
    PROVE  SumFunction(f) <= SumFunction(g)
<1> DEFINE S == DOMAIN f
           Good == {T \in SUBSET S :
                      SumFunctionOnSet(f, T) <= SumFunctionOnSet(g, T)}
<1>1. ASSUME NEW T \in SUBSET S, \A U \in SUBSET T : U # T => U \in Good
      PROVE  T \in Good
  <2>1. CASE T = {}
    BY <2>1, SumEmpty
  <2>2. CASE T # {}
    <3>1. PICK a \in T : TRUE
      BY <2>2
    <3>2. IsFiniteSet(T) /\ IsFiniteSet(T \ {a})
      BY FS_Subset DEF Summable
    <3>3. /\ SumFunctionOnSet(f, T) = f[a] + SumFunctionOnSet(f, T \ {a})
          /\ SumFunctionOnSet(g, T) = g[a] + SumFunctionOnSet(g, T \ {a})
      BY <3>2, SumRemove DEF Summable
    <3>4. SumFunctionOnSet(f, T \ {a}) <= SumFunctionOnSet(g, T \ {a})
      BY <1>1, <3>1
    <3>5. /\ SumFunctionOnSet(f, T \ {a}) \in Int
          /\ SumFunctionOnSet(g, T \ {a}) \in Int
          /\ f[a] \in Int /\ g[a] \in Int /\ f[a] <= g[a]
      BY <3>2, SumType DEF Summable
    <3> QED BY <3>3, <3>4, <3>5
  <2> QED BY <2>1, <2>2
<1>2. S \in Good
  <2> HIDE DEF Good
  <2>1. IsFiniteSet(S)
    BY DEF Summable
  <2> QED BY <1>1, <2>1, SubsetInduction
<1> QED BY <1>2 DEF SumFunction
=============================================================================
