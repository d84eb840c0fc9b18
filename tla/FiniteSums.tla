----------------------------- MODULE FiniteSums -----------------------------
(* Sums over finite sets, as MapThenSumSet computes them: taking away an    *)
(* element that CHOOSE picks until none is left.  What is proved is that    *)
(* the sum exists, does not depend on the picks, and changes by what one of *)
(* its terms changes.  Induction is by minimal counterexample: the proper   *)
(* subsets of a finite set are well-founded.                                *)
EXTENDS Integers, FiniteSetsExt, FiniteSetTheorems, WellFoundedInduction, TLAPS

Picked(s) == CHOOSE x \in s : TRUE

\* g is the recursive function behind MapThenSumSet for the terms f[x].
Sums(g, f, S) ==
    g = [s \in SUBSET S |-> IF s = {} THEN 0 ELSE f[Picked(s)] + g[s \ {Picked(s)}]]

Total(f, S) == (CHOOSE g : Sums(g, f, S))[S]

\* What is picked from a set belongs to it.
LEMMA PickedIn == \A s : s # {} => Picked(s) \in s
  BY DEF Picked

\* Among the subsets of a finite set that violate a claim, one is minimal.
LEMMA MinimalSubset ==
  ASSUME NEW S, IsFiniteSet(S), NEW B, B \subseteq SUBSET S, B # {}
  PROVE  \E T \in B : \A U \in B : U \subseteq T => U = T
  <1>1. B \subseteq FiniteSubsetsOf(S)
    BY FS_Subset DEF FiniteSubsetsOf
  <1>2. PICK T \in B : \A U \in B : ~(<<U, T>> \in StrictSubsetOrdering(S))
    BY <1>1, FS_StrictSubsetOrderingWellFounded, WFMin
  <1> QED BY <1>2 DEF StrictSubsetOrdering

\* A recursive function on the subsets of S is one on those of a smaller set.
LEMMA SumsRestricted ==
  ASSUME NEW f, NEW S, NEW T \in SUBSET S, NEW g, Sums(g, f, S)
  PROVE  Sums([s \in SUBSET T |-> g[s]], f, T)
  <1> DEFINE h == [s \in SUBSET T |-> g[s]]
  <1>1. ASSUME NEW s \in SUBSET T, s # {}
        PROVE  h[s] = f[Picked(s)] + h[s \ {Picked(s)}]
    <2>1. s \in SUBSET S /\ s \ {Picked(s)} \in SUBSET T
      OBVIOUS
    <2>2. g[s] = f[Picked(s)] + g[s \ {Picked(s)}]
      BY <1>1, <2>1 DEF Sums
    <2> QED BY <2>1, <2>2
  <1>2. h[{}] = 0
    BY DEF Sums
  <1> QED BY <1>1, <1>2 DEF Sums

\* There is at most one such function.
LEMMA SumsUnique ==
  ASSUME NEW f, NEW S, IsFiniteSet(S), NEW g, NEW h, Sums(g, f, S), Sums(h, f, S)
  PROVE  g = h
  <1> DEFINE B == {T \in SUBSET S : g[T] # h[T]}
  <1>1. CASE B = {}
    <2>1. g = [s \in SUBSET S |-> g[s]] /\ h = [s \in SUBSET S |-> h[s]]
      BY DEF Sums
    <2> QED BY <1>1, <2>1
  <1>2. CASE B # {}
    <2>1. PICK T \in B : \A U \in B : U \subseteq T => U = T
      <3>1. B \subseteq SUBSET S
        OBVIOUS
      <3> HIDE DEF B
      <3> QED BY <1>2, <3>1, MinimalSubset
    <2>2. T # {}
      BY DEF Sums
    <2>3. T \ {Picked(T)} \in SUBSET S /\ T \ {Picked(T)} \notin B
      BY <2>1, <2>2, PickedIn
    <2>4. g[T] = f[Picked(T)] + g[T \ {Picked(T)}] /\ h[T] = f[Picked(T)] + h[T \ {Picked(T)}]
      BY <2>2 DEF Sums
    <2> QED BY <2>3, <2>4
  <1> QED BY <1>1, <1>2

\* A sum is the value of any such function.
LEMMA TotalIs ==
  ASSUME NEW f, NEW S, IsFiniteSet(S), NEW g, Sums(g, f, S)
  PROVE  Total(f, S) = g[S]
  <1>1. Sums(CHOOSE h : Sums(h, f, S), f, S)
    OBVIOUS
  <1> QED BY <1>1, SumsUnique DEF Total

\* The recursion, where such a function exists.
LEMMA TotalUnfolds ==
  ASSUME NEW f, NEW S, IsFiniteSet(S), S # {}, NEW g, Sums(g, f, S)
  PROVE  Total(f, S) = f[Picked(S)] + Total(f, S \ {Picked(S)})
  <1> DEFINE T == S \ {Picked(S)}
             h == [s \in SUBSET T |-> g[s]]
  <1>1. IsFiniteSet(T) /\ T \in SUBSET S
    BY FS_Subset
  <1> HIDE DEF T
  <1>4. Sums(h, f, T)
    BY <1>1, SumsRestricted
  <1>2. Total(f, T) = g[T]
    BY <1>1, <1>4, TotalIs
  <1>3. g[S] = f[Picked(S)] + g[T]
    BY DEF Sums, T
  <1> QED BY <1>2, <1>3, TotalIs DEF T

\* It exists for every finite set.
LEMMA SumsExist ==
  ASSUME NEW f, NEW S, IsFiniteSet(S)
  PROVE  \E g : Sums(g, f, S)
  <1> DEFINE B == {T \in SUBSET S : ~ \E g : Sums(g, f, T)}
  <1> SUFFICES B = {}
    OBVIOUS
  <1> SUFFICES ASSUME B # {} PROVE FALSE
    OBVIOUS
  <1>1. PICK T \in B : \A U \in B : U \subseteq T => U = T
    <2>1. B \subseteq SUBSET S
      OBVIOUS
    <2> HIDE DEF B
    <2> QED BY <2>1, MinimalSubset
  <1>2. \A U \in SUBSET T : U # T => \E g : Sums(g, f, U)
    BY <1>1
  <1> DEFINE h == [s \in SUBSET T |-> IF s = {} THEN 0
                                      ELSE f[Picked(s)] + Total(f, s \ {Picked(s)})]
  <1>3. ASSUME NEW U \in SUBSET T, U # T PROVE h[U] = Total(f, U)
    <2>1. PICK g : Sums(g, f, U)
      BY <1>2, <1>3
    <2>2. IsFiniteSet(U)
      BY FS_Subset
    <2>3. CASE U = {}
      <3>1. g[U] = 0
        BY <2>1, <2>3 DEF Sums
      <3>2. Total(f, U) = g[U]
        BY <2>1, <2>2, TotalIs
      <3> QED BY <2>3, <3>1, <3>2
    <2>4. CASE U # {}
      BY <2>1, <2>2, <2>4, TotalUnfolds
    <2> QED BY <2>3, <2>4
  <1>4. ASSUME NEW s \in SUBSET T, s # {} PROVE h[s] = f[Picked(s)] + h[s \ {Picked(s)}]
    <2>1. Picked(s) \in s
      BY <1>4, PickedIn
    <2>2. s \ {Picked(s)} \in SUBSET T /\ s \ {Picked(s)} # T
      BY <2>1
    <2>3. h[s \ {Picked(s)}] = Total(f, s \ {Picked(s)})
      BY <1>3, <2>2
    <2> QED BY <1>4, <2>3
  <1>5. h = [s \in SUBSET T |-> IF s = {} THEN 0 ELSE f[Picked(s)] + h[s \ {Picked(s)}]]
    BY <1>4
  <1> QED BY <1>1, <1>5 DEF Sums
-----------------------------------------------------------------------------
(* What sums are.                                                          *)

\* The sum of nothing.
LEMMA TotalEmpty == \A f : Total(f, {}) = 0
  <1>1. ASSUME NEW f PROVE Total(f, {}) = 0
    <2>1. IsFiniteSet({})
      BY FS_EmptySet
    <2>2. PICK g : Sums(g, f, {})
      BY <2>1, SumsExist
    <2>3. g[{}] = 0
      BY <2>2 DEF Sums
    <2> QED BY <2>1, <2>2, <2>3, TotalIs
  <1> QED BY <1>1

\* The sum of something.
LEMMA TotalStep ==
  ASSUME NEW f, NEW S, IsFiniteSet(S), S # {}
  PROVE  Total(f, S) = f[Picked(S)] + Total(f, S \ {Picked(S)})
  BY SumsExist, TotalUnfolds

\* A sum of integers is an integer.
LEMMA TotalInt ==
  ASSUME NEW f, NEW S, IsFiniteSet(S), \A x \in S : f[x] \in Int
  PROVE  Total(f, S) \in Int
  <1> DEFINE B == {T \in SUBSET S : Total(f, T) \notin Int}
  <1> SUFFICES ASSUME B # {} PROVE FALSE
    OBVIOUS
  <1>1. PICK T \in B : \A U \in B : U \subseteq T => U = T
    <2>1. B \subseteq SUBSET S
      OBVIOUS
    <2> HIDE DEF B
    <2> QED BY <2>1, MinimalSubset
  <1>2. T # {}
    BY TotalEmpty
  <1>3. Picked(T) \in T /\ f[Picked(T)] \in Int
    BY <1>2, PickedIn
  <1>4. T \ {Picked(T)} \notin B /\ IsFiniteSet(T)
    BY <1>1, <1>3, FS_Subset
  <1> QED BY <1>2, <1>3, <1>4, TotalStep

\* The picks do not matter: any element can be taken away first.
LEMMA TotalWithout ==
  ASSUME NEW f, NEW S, IsFiniteSet(S), \A x \in S : f[x] \in Int, NEW x \in S
  PROVE  Total(f, S) = f[x] + Total(f, S \ {x})
  <1> DEFINE B == {T \in SUBSET S : \E y \in T : Total(f, T) # f[y] + Total(f, T \ {y})}
  <1> SUFFICES ASSUME B # {} PROVE FALSE
    OBVIOUS
  <1>1. PICK T \in B : \A U \in B : U \subseteq T => U = T
    <2>1. B \subseteq SUBSET S
      OBVIOUS
    <2> HIDE DEF B
    <2> QED BY <2>1, MinimalSubset
  <1>2. PICK y \in T : Total(f, T) # f[y] + Total(f, T \ {y})
    BY <1>1
  <1> DEFINE p == Picked(T)
  <1>3. p \in T /\ f[p] \in Int /\ f[y] \in Int
    BY PickedIn
  <1> HIDE DEF p
  <1>4. /\ IsFiniteSet(T) /\ IsFiniteSet(T \ {p}) /\ IsFiniteSet(T \ {y})
        /\ IsFiniteSet(T \ {p, y})
    BY FS_Subset
  <1>5. Total(f, T) = f[p] + Total(f, T \ {p})
    BY <1>3, <1>4, TotalStep DEF p
  <1>6. y # p
    BY <1>2, <1>5
  <1>7. T \ {p} \notin B /\ T \ {y} \notin B
    BY <1>1, <1>2, <1>3
  <1>8. Total(f, T \ {p}) = f[y] + Total(f, (T \ {p}) \ {y})
    BY <1>6, <1>7
  <1>9. Total(f, T \ {y}) = f[p] + Total(f, (T \ {y}) \ {p})
    BY <1>3, <1>6, <1>7
  <1>10. (T \ {p}) \ {y} = T \ {p, y} /\ (T \ {y}) \ {p} = T \ {p, y}
    OBVIOUS
  <1>11. Total(f, T \ {p, y}) \in Int
    BY <1>4, TotalInt
  <1>12. Total(f, T) = f[p] + (f[y] + Total(f, T \ {p, y}))
    BY <1>5, <1>8, <1>10
  <1>13. f[y] + Total(f, T \ {y}) = f[y] + (f[p] + Total(f, T \ {p, y}))
    BY <1>9, <1>10
  <1> HIDE DEF B
  <1> QED BY <1>2, <1>3, <1>11, <1>12, <1>13

\* Equal terms have an equal sum.
LEMMA TotalSame ==
  ASSUME NEW f, NEW g, NEW S, IsFiniteSet(S), \A x \in S : f[x] = g[x]
  PROVE  Total(f, S) = Total(g, S)
  <1> DEFINE B == {T \in SUBSET S : Total(f, T) # Total(g, T)}
  <1> SUFFICES ASSUME B # {} PROVE FALSE
    OBVIOUS
  <1>1. PICK T \in B : \A U \in B : U \subseteq T => U = T
    <2>1. B \subseteq SUBSET S
      OBVIOUS
    <2> HIDE DEF B
    <2> QED BY <2>1, MinimalSubset
  <1>2. T # {}
    BY TotalEmpty
  <1>3. Picked(T) \in T
    BY <1>2, PickedIn
  <1>4. T \ {Picked(T)} \notin B /\ IsFiniteSet(T)
    BY <1>1, <1>3, FS_Subset
  <1> QED BY <1>2, <1>3, <1>4, TotalStep

\* A sum is monotone in its terms,
LEMMA TotalMonotone ==
  ASSUME NEW f, NEW g, NEW S, IsFiniteSet(S),
         \A x \in S : f[x] \in Int /\ g[x] \in Int /\ f[x] <= g[x]
  PROVE  Total(f, S) <= Total(g, S)
  <1> DEFINE B == {T \in SUBSET S : ~(Total(f, T) <= Total(g, T))}
  <1> SUFFICES ASSUME B # {} PROVE FALSE
    OBVIOUS
  <1>1. PICK T \in B : \A U \in B : U \subseteq T => U = T
    <2>1. B \subseteq SUBSET S
      OBVIOUS
    <2> HIDE DEF B
    <2> QED BY <2>1, MinimalSubset
  <1>2. T # {}
    BY TotalEmpty
  <1> DEFINE p == Picked(T)
  <1>3. p \in T /\ f[p] \in Int /\ g[p] \in Int /\ f[p] <= g[p]
    BY <1>2, PickedIn
  <1>4. T \ {p} \notin B /\ IsFiniteSet(T) /\ IsFiniteSet(T \ {p})
    BY <1>1, <1>3, FS_Subset
  <1>5. Total(f, T \ {p}) \in Int /\ Total(g, T \ {p}) \in Int
    BY <1>4, TotalInt
  <1>6. Total(f, T) = f[p] + Total(f, T \ {p}) /\ Total(g, T) = g[p] + Total(g, T \ {p})
    BY <1>2, <1>4, TotalStep
  <1> QED BY <1>3, <1>4, <1>5, <1>6

\* and zero if they are.
LEMMA TotalZero ==
  ASSUME NEW f, NEW S, IsFiniteSet(S), \A x \in S : f[x] = 0
  PROVE  Total(f, S) = 0
  <1> DEFINE B == {T \in SUBSET S : Total(f, T) # 0}
  <1> SUFFICES ASSUME B # {} PROVE FALSE
    OBVIOUS
  <1>1. PICK T \in B : \A U \in B : U \subseteq T => U = T
    <2>1. B \subseteq SUBSET S
      OBVIOUS
    <2> HIDE DEF B
    <2> QED BY <2>1, MinimalSubset
  <1>2. T # {}
    BY TotalEmpty
  <1>3. Picked(T) \in T
    BY <1>2, PickedIn
  <1>4. T \ {Picked(T)} \notin B /\ IsFiniteSet(T)
    BY <1>1, <1>3, FS_Subset
  <1>5. f[Picked(T)] = 0 /\ Total(f, T \ {Picked(T)}) = 0
    BY <1>3, <1>4
  <1> QED BY <1>2, <1>4, <1>5, TotalStep

\* A sum of natural numbers is one.
LEMMA TotalNat ==
  ASSUME NEW f, NEW S, IsFiniteSet(S), \A x \in S : f[x] \in Nat
  PROVE  Total(f, S) \in Nat
  <1> DEFINE z == [x \in S |-> 0]
  <1>1. \A x \in S : f[x] \in Int /\ z[x] \in Int /\ z[x] <= f[x] /\ z[x] = 0
    OBVIOUS
  <1> HIDE DEF z
  <1>2. Total(z, S) = 0 /\ Total(z, S) <= Total(f, S) /\ Total(f, S) \in Int
    BY <1>1, TotalZero, TotalMonotone, TotalInt
  <1> QED BY <1>2

\* One term changes: the sum changes by as much.
LEMMA TotalChange ==
  ASSUME NEW f, NEW g, NEW S, IsFiniteSet(S), NEW x \in S,
         \A y \in S : f[y] \in Int /\ g[y] \in Int,
         \A y \in S \ {x} : g[y] = f[y]
  PROVE  Total(g, S) = Total(f, S) - f[x] + g[x]
  <1>1. IsFiniteSet(S \ {x})
    BY FS_Subset
  <1>2. Total(f, S \ {x}) = Total(g, S \ {x}) /\ Total(f, S \ {x}) \in Int
    BY <1>1, TotalSame, TotalInt
  <1>3. Total(f, S) = f[x] + Total(f, S \ {x}) /\ Total(g, S) = g[x] + Total(g, S \ {x})
    BY TotalWithout
  <1> QED BY <1>2, <1>3

\* Terms that are zero may be left out.
LEMMA TotalOfPart ==
  ASSUME NEW f, NEW S, IsFiniteSet(S), \A x \in S : f[x] \in Int,
         NEW A \in SUBSET S, \A x \in S \ A : f[x] = 0
  PROVE  Total(f, S) = Total(f, A)
  <1> DEFINE B == {T \in SUBSET S : Total(f, T) # Total(f, T \cap A)}
  <1> SUFFICES ASSUME B # {} PROVE FALSE
    <2>1. S \cap A = A
      OBVIOUS
    <2> QED BY <2>1
  <1>1. PICK T \in B : \A U \in B : U \subseteq T => U = T
    <2>1. B \subseteq SUBSET S
      OBVIOUS
    <2> HIDE DEF B
    <2> QED BY <2>1, MinimalSubset
  <1>2. T # {} /\ IsFiniteSet(T)
    BY FS_Subset
  <1> DEFINE p == Picked(T)
  <1>3. p \in T /\ f[p] \in Int
    BY <1>2, PickedIn
  <1> HIDE DEF p
  <1>4. Total(f, T) = f[p] + Total(f, T \ {p})
    BY <1>2, TotalStep DEF p
  <1>5. Total(f, T \ {p}) = Total(f, (T \ {p}) \cap A)
    BY <1>1, <1>3
  <1>6. CASE p \in A
    <2>1. (T \ {p}) \cap A = (T \cap A) \ {p} /\ p \in T \cap A /\ T \cap A \in SUBSET S
      BY <1>3, <1>6
    <2>2. IsFiniteSet(T \cap A)
      BY <2>1, FS_Subset
    <2>3. Total(f, T \cap A) = f[p] + Total(f, (T \cap A) \ {p})
      BY <2>1, <2>2, TotalWithout
    <2> QED BY <1>4, <1>5, <2>1, <2>3
  <1>7. CASE p \notin A
    <2>1. (T \ {p}) \cap A = T \cap A /\ f[p] = 0
      BY <1>3, <1>7
    <2>2. Total(f, T \ {p}) \in Int
      <3>1. IsFiniteSet(T \ {p})
        BY FS_Subset
      <3> QED BY <3>1, TotalInt
    <2> HIDE DEF B
    <2>3. Total(f, T) = Total(f, T \ {p})
      BY <1>4, <2>1, <2>2
    <2>4. Total(f, T) = Total(f, T \cap A)
      BY <1>5, <2>1, <2>3
    <2> USE DEF B
    <2> QED BY <1>1, <2>4
  <1> QED BY <1>6, <1>7

\* A part of a sum of natural numbers is no more than the sum.
LEMMA TotalOfSubset ==
  ASSUME NEW f, NEW S, IsFiniteSet(S), \A x \in S : f[x] \in Nat, NEW A \in SUBSET S
  PROVE  Total(f, A) <= Total(f, S)
  <1> DEFINE g == [x \in S |-> IF x \in A THEN f[x] ELSE 0]
  <1>1. \A x \in S : g[x] \in Int /\ f[x] \in Int /\ g[x] <= f[x]
    OBVIOUS
  <1>2. (\A x \in A : g[x] = f[x]) /\ \A x \in S \ A : g[x] = 0
    OBVIOUS
  <1>3. IsFiniteSet(A)
    BY FS_Subset
  <1> HIDE DEF g
  <1>4. Total(g, A) = Total(f, A)
    BY <1>2, <1>3, TotalSame
  <1>5. Total(g, S) = Total(g, A)
    BY <1>1, <1>2, TotalOfPart
  <1>6. Total(g, S) <= Total(f, S)
    BY <1>1, TotalMonotone
  <1> QED BY <1>4, <1>5, <1>6
-----------------------------------------------------------------------------
(* Sums of the amounts of rows.                                            *)

\* The amounts of the rows in A.
AmountOf(rowset, A) == MapThenSumSet(LAMBDA n : rowset[n].amount, A)

\* The amounts of some of the rows in S are a Total.
LEMMA AmountOfIs ==
  ASSUME NEW S, IsFiniteSet(S), NEW A \in SUBSET S, NEW rowset
  PROVE  AmountOf(rowset, A) = Total([n \in S |-> rowset[n].amount], A)
  <1> DEFINE f == [n \in S |-> rowset[n].amount]
             P(h) == h = [s \in SUBSET A |-> IF s = {} THEN 0
                             ELSE rowset[Picked(s)].amount + h[s \ {Picked(s)}]]
  <1>1. IsFiniteSet(A)
    BY FS_Subset
  <1>2. ASSUME NEW h PROVE P(h) <=> Sums(h, f, A)
    <2>1. \A s \in SUBSET A : s # {} => f[Picked(s)] = rowset[Picked(s)].amount
      <3>1. \A s \in SUBSET A : s # {} => Picked(s) \in S
        BY PickedIn
      <3> QED BY <3>1
    <2>2. [s \in SUBSET A |-> IF s = {} THEN 0 ELSE rowset[Picked(s)].amount + h[s \ {Picked(s)}]]
             = [s \in SUBSET A |-> IF s = {} THEN 0 ELSE f[Picked(s)] + h[s \ {Picked(s)}]]
      <3> HIDE DEF f
      <3> QED BY <2>1
    <2> HIDE DEF f
    <2> QED BY <2>2 DEF Sums
  <1>3. AmountOf(rowset, A) = (CHOOSE h : P(h))[A]
    BY DEF AmountOf, MapThenSumSet, MapThenFoldSet, Picked
  <1> HIDE DEF P
  <1>4. \E h : P(h)
    BY <1>1, <1>2, SumsExist
  <1>5. P(CHOOSE h : P(h))
    BY <1>4
  <1> QED BY <1>1, <1>2, <1>3, <1>5, TotalIs

\* Amounts that are natural numbers sum to one.
LEMMA AmountOfNat ==
  ASSUME NEW S, IsFiniteSet(S), NEW A \in SUBSET S, NEW rowset, \A n \in A : rowset[n].amount \in Nat
  PROVE  AmountOf(rowset, A) \in Nat
  <1> DEFINE f == [n \in S |-> rowset[n].amount]
  <1>1. IsFiniteSet(A) /\ \A n \in A : f[n] \in Nat
    BY FS_Subset
  <1>2. AmountOf(rowset, A) = Total(f, A)
    BY AmountOfIs
  <1> HIDE DEF f
  <1> QED BY <1>1, <1>2, TotalNat

\* Rows with the same amounts have the same sum.
LEMMA AmountOfSame ==
  ASSUME NEW S, IsFiniteSet(S), NEW A \in SUBSET S, NEW rowset, NEW other,
         \A n \in A : other[n].amount = rowset[n].amount
  PROVE  AmountOf(other, A) = AmountOf(rowset, A)
  <1> DEFINE f == [n \in S |-> rowset[n].amount]
             g == [n \in S |-> other[n].amount]
  <1>1. IsFiniteSet(A) /\ \A n \in A : f[n] = g[n]
    BY FS_Subset
  <1>2. AmountOf(rowset, A) = Total(f, A) /\ AmountOf(other, A) = Total(g, A)
    BY AmountOfIs
  <1> HIDE DEF f, g
  <1> QED BY <1>1, <1>2, TotalSame

\* A row more, and what it adds.
LEMMA AmountOfMore ==
  ASSUME NEW S, IsFiniteSet(S), NEW A \in SUBSET S, NEW n \in A, NEW rowset,
         \A m \in A : rowset[m].amount \in Nat
  PROVE  /\ AmountOf(rowset, A) = AmountOf(rowset, A \ {n}) + rowset[n].amount
         /\ AmountOf(rowset, A) \in Nat /\ AmountOf(rowset, A \ {n}) \in Nat
  <1> DEFINE f == [m \in S |-> rowset[m].amount]
             B == A \ {n}
  <1>1. IsFiniteSet(A) /\ (\A m \in A : f[m] \in Nat) /\ f[n] = rowset[n].amount /\ B \in SUBSET S
    BY FS_Subset
  <1>2. /\ AmountOf(rowset, A) = Total(f, A) /\ AmountOf(rowset, B) = Total(f, B)
        /\ AmountOf(rowset, A) \in Nat /\ AmountOf(rowset, B) \in Nat
    BY <1>1, AmountOfIs, AmountOfNat
  <1> HIDE DEF f
  <1>3. Total(f, A) = f[n] + Total(f, A \ {n})
    BY <1>1, TotalWithout
  <1> QED BY <1>1, <1>2, <1>3

\* No rows, no amount.
LEMMA AmountOfNone == ASSUME NEW S, IsFiniteSet(S), NEW rowset PROVE AmountOf(rowset, {}) = 0
  <1>1. AmountOf(rowset, {}) = Total([n \in S |-> rowset[n].amount], {})
    BY AmountOfIs
  <1> QED BY <1>1, TotalEmpty

\* The rows of A, and n.
AddsTo(A, n, rowset, other) ==
    /\ IsFiniteSet(A) /\ n \notin A /\ other[n].amount \in Nat
    /\ \A m \in A : other[m].amount = rowset[m].amount /\ rowset[m].amount \in Nat

\* A row more adds its amount.
LEMMA AmountOfAdded ==
  ASSUME NEW A, NEW n, NEW rowset, NEW other, AddsTo(A, n, rowset, other)
  PROVE  AmountOf(other, A \cup {n}) = AmountOf(rowset, A) + other[n].amount
  <1> USE DEF AddsTo
  <1> DEFINE B == A \cup {n}
  <1>1. A \in SUBSET B /\ B \in SUBSET B /\ n \in B /\ (\A m \in B : other[m].amount \in Nat)
    /\ B \ {n} = A /\ IsFiniteSet(B)
    BY FS_AddElement
  <1> HIDE DEF B
  <1>2. AmountOf(other, B) = AmountOf(other, B \ {n}) + other[n].amount
    BY <1>1, AmountOfMore
  <1>3. AmountOf(other, A) = AmountOf(rowset, A)
    BY <1>1, AmountOfSame
  <1> QED BY <1>1, <1>2, <1>3 DEF B
-----------------------------------------------------------------------------
\* The sum of sums,
LEMMA TotalAdds ==
  ASSUME NEW f, NEW g, NEW h, NEW S, IsFiniteSet(S),
         \A x \in S : f[x] \in Int /\ g[x] \in Int /\ h[x] = f[x] + g[x]
  PROVE  Total(h, S) = Total(f, S) + Total(g, S)
  <1> DEFINE B == {T \in SUBSET S : Total(h, T) # Total(f, T) + Total(g, T)}
  <1> SUFFICES ASSUME B # {} PROVE FALSE
    OBVIOUS
  <1>1. PICK T \in B : \A U \in B : U \subseteq T => U = T
    <2>1. B \subseteq SUBSET S
      OBVIOUS
    <2> HIDE DEF B
    <2> QED BY <2>1, MinimalSubset
  <1>2. T # {}
    <2>1. Total(f, {}) = 0 /\ Total(g, {}) = 0 /\ Total(h, {}) = 0
      BY TotalEmpty
    <2>2. {} \notin B
      BY <2>1
    <2> QED BY <1>1, <2>2
  <1> DEFINE p == Picked(T)
  <1>3. p \in T /\ f[p] \in Int /\ g[p] \in Int /\ h[p] = f[p] + g[p]
    BY <1>2, PickedIn
  <1>4. T \ {p} \notin B /\ IsFiniteSet(T) /\ IsFiniteSet(T \ {p})
    BY <1>1, <1>3, FS_Subset
  <1>5. Total(f, T \ {p}) \in Int /\ Total(g, T \ {p}) \in Int
    BY <1>4, TotalInt
  <1>6. /\ Total(f, T) = f[p] + Total(f, T \ {p}) /\ Total(g, T) = g[p] + Total(g, T \ {p})
        /\ Total(h, T) = h[p] + Total(h, T \ {p})
    BY <1>2, <1>4, TotalStep
  <1>7. Total(h, T \ {p}) = Total(f, T \ {p}) + Total(g, T \ {p})
    BY <1>1, <1>4
  <1> QED BY <1>3, <1>5, <1>6, <1>7

\* of multiples,
LEMMA TotalScaled ==
  ASSUME NEW f, NEW h, NEW S, IsFiniteSet(S), NEW k \in Int, \A x \in S : f[x] \in Int /\ h[x] = k * f[x]
  PROVE  Total(h, S) = k * Total(f, S)
  <1> DEFINE B == {T \in SUBSET S : Total(h, T) # k * Total(f, T)}
  <1> SUFFICES ASSUME B # {} PROVE FALSE
    OBVIOUS
  <1>1. PICK T \in B : \A U \in B : U \subseteq T => U = T
    <2>1. B \subseteq SUBSET S
      OBVIOUS
    <2> HIDE DEF B
    <2> QED BY <2>1, MinimalSubset
  <1>2. T # {}
    <2>1. Total(f, {}) = 0 /\ Total(h, {}) = 0 /\ k * 0 = 0
      BY TotalEmpty
    <2>2. {} \notin B
      BY <2>1
    <2> QED BY <1>1, <2>2
  <1> DEFINE p == Picked(T)
  <1>3. p \in T /\ f[p] \in Int /\ h[p] = k * f[p]
    BY <1>2, PickedIn
  <1>4. T \ {p} \notin B /\ IsFiniteSet(T) /\ IsFiniteSet(T \ {p})
    BY <1>1, <1>3, FS_Subset
  <1>5. Total(f, T \ {p}) \in Int
    BY <1>4, TotalInt
  <1>6. Total(f, T) = f[p] + Total(f, T \ {p}) /\ Total(h, T) = h[p] + Total(h, T \ {p})
    BY <1>2, <1>4, TotalStep
  <1>7. Total(h, T \ {p}) = k * Total(f, T \ {p})
    BY <1>1, <1>4
  <1>8. k * (f[p] + Total(f, T \ {p})) = k * f[p] + k * Total(f, T \ {p})
    BY <1>3, <1>5
  <1> QED BY <1>3, <1>6, <1>7, <1>8

\* and of one term for each.
LEMMA TotalConst ==
  ASSUME NEW f, NEW S, IsFiniteSet(S), NEW k \in Int, \A x \in S : f[x] = k
  PROVE  Total(f, S) = k * Cardinality(S)
  <1> DEFINE B == {T \in SUBSET S : Total(f, T) # k * Cardinality(T)}
  <1> SUFFICES ASSUME B # {} PROVE FALSE
    OBVIOUS
  <1>1. PICK T \in B : \A U \in B : U \subseteq T => U = T
    <2>1. B \subseteq SUBSET S
      OBVIOUS
    <2> HIDE DEF B
    <2> QED BY <2>1, MinimalSubset
  <1>2. T # {}
    BY TotalEmpty, FS_EmptySet
  <1> DEFINE p == Picked(T)
  <1>3. p \in T /\ f[p] = k
    BY <1>2, PickedIn
  <1>4. T \ {p} \notin B /\ IsFiniteSet(T) /\ IsFiniteSet(T \ {p})
    BY <1>1, <1>3, FS_Subset
  <1>5. Cardinality(T) = Cardinality(T \ {p}) + 1 /\ Cardinality(T \ {p}) \in Nat
    BY <1>3, <1>4, FS_RemoveElement, FS_CardinalityType
  <1>6. Total(f, T) = f[p] + Total(f, T \ {p})
    BY <1>2, <1>4, TotalStep
  <1>7. Total(f, T \ {p}) = k * Cardinality(T \ {p})
    BY <1>1, <1>4
  <1>8. k * (Cardinality(T \ {p}) + 1) = k * Cardinality(T \ {p}) + k
    BY <1>5
  <1>9. k * Cardinality(T \ {p}) \in Int
    BY <1>5
  <1> QED BY <1>3, <1>5, <1>6, <1>7, <1>8, <1>9

\* Counting the members of a part.
LEMMA TotalOnes ==
  ASSUME NEW f, NEW S, IsFiniteSet(S), NEW A \in SUBSET S, \A x \in S : f[x] = IF x \in A THEN 1 ELSE 0
  PROVE  Total(f, S) = Cardinality(A)
  <1>1. Total(f, S) = Total(f, A)
    BY TotalOfPart
  <1>2. IsFiniteSet(A) /\ Cardinality(A) \in Nat
    BY FS_Subset, FS_CardinalityType
  <1>3. Total(f, A) = 1 * Cardinality(A)
    BY <1>2, TotalConst
  <1> QED BY <1>1, <1>2, <1>3
-----------------------------------------------------------------------------
(* Ranks in a finite set of numbers, by a value and then by number.        *)

\* A set of numbers that is not empty has a least one.
LEMMA LeastNat == ASSUME NEW N \in SUBSET Nat, N # {} PROVE \E x \in N : \A y \in N : x <= y
  <1> DEFINE R == OpToRel(<, Nat)
  <1>1. IsWellFoundedOn(R, Nat)
    BY NatLessThanWellFounded
  <1>2. \A y, x \in Nat : y < x => <<y, x>> \in R
    BY DEF OpToRel
  <1> HIDE DEF R
  <1>3. PICK x \in N : \A y \in N : ~(<<y, x>> \in R)
    BY <1>1, WFMin
  <1>4. \A y \in N : ~(y < x)
    BY <1>2, <1>3
  <1> QED BY <1>3, <1>4

Before(value, S, u) == {v \in S : value[v] > value[u] \/ (value[v] = value[u] /\ v < u)}
Rank(value, S, u) == Cardinality(Before(value, S, u))

\* The order is total, so that ranks are as the elements are ordered.
LEMMA RanksOrdered ==
  ASSUME NEW S \in SUBSET Nat, IsFiniteSet(S), NEW value, \A x \in S : value[x] \in Int, NEW u \in S, NEW v \in S
  PROVE  /\ Rank(value, S, u) \in Nat
         /\ v \in Before(value, S, u) => Rank(value, S, v) < Rank(value, S, u)
         /\ u # v => v \in Before(value, S, u) \/ u \in Before(value, S, v)
  <1>1. IsFiniteSet(Before(value, S, u)) /\ IsFiniteSet(Before(value, S, v))
    BY FS_Subset DEF Before
  <1>2. Rank(value, S, u) \in Nat /\ Rank(value, S, v) \in Nat
    BY <1>1, FS_CardinalityType DEF Rank
  <1>3. ASSUME v \in Before(value, S, u) PROVE Rank(value, S, v) < Rank(value, S, u)
    <2>1. Before(value, S, v) \subseteq Before(value, S, u) /\ v \notin Before(value, S, v)
      <3>1. value[v] > value[u] \/ (value[v] = value[u] /\ v < u)
        BY <1>3 DEF Before
      <3>2. \A x \in S : value[x] > value[v] \/ (value[x] = value[v] /\ x < v)
                           => value[x] > value[u] \/ (value[x] = value[u] /\ x < u)
        BY <3>1
      <3>3. ~(value[v] > value[v]) /\ ~(v < v)
        OBVIOUS
      <3> QED BY <3>2, <3>3 DEF Before
    <2>2. Before(value, S, v) # Before(value, S, u)
      BY <1>3, <2>1
    <2>3. Rank(value, S, v) <= Rank(value, S, u) /\ Rank(value, S, v) # Rank(value, S, u)
      BY <1>1, <2>1, <2>2, FS_Subset DEF Rank
    <2> QED BY <1>2, <2>3
  <1>4. u # v => v \in Before(value, S, u) \/ u \in Before(value, S, v)
    BY DEF Before
  <1> QED BY <1>2, <1>3, <1>4

\* The elements whose rank is below n are the first n.
LEMMA FirstOnes ==
  ASSUME NEW S \in SUBSET Nat, IsFiniteSet(S), NEW value, \A x \in S : value[x] \in Int,
         NEW n \in Nat, n < Cardinality(S),
         Cardinality({x \in S : Rank(value, S, x) < n}) = n
  PROVE  Cardinality({x \in S : Rank(value, S, x) < n + 1}) = n + 1
  <1> DEFINE D == {x \in S : Rank(value, S, x) < n}
             M == {Rank(value, S, x) : x \in S \ D}
  <1>1. \A x \in S : Rank(value, S, x) \in Nat
    BY RanksOrdered
  <1>2. PICK m \in S \ D : \A x \in S \ D : Rank(value, S, m) <= Rank(value, S, x)
    <2>1. S \ D # {}
      <3>1. Cardinality(D) # Cardinality(S)
        BY FS_CardinalityType
      <3> HIDE DEF D
      <3>2. D \subseteq S => S \ D # {} \/ D = S
        OBVIOUS
      <3> USE DEF D
      <3>3. D \subseteq S
        OBVIOUS
      <3> HIDE DEF D
      <3> QED BY <3>1, <3>2, <3>3
    <2>2. M \in SUBSET Nat /\ M # {}
      BY <1>1, <2>1
    <2>3. PICK k \in M : \A j \in M : k <= j
      BY <2>2, LeastNat
    <2> QED BY <2>3
  <1>3. Before(value, S, m) = D
    <2>1. ASSUME NEW v \in Before(value, S, m) PROVE v \in D
      <3>1. v \in S /\ Rank(value, S, v) < Rank(value, S, m)
        BY <2>1, <1>2, RanksOrdered DEF Before
      <3>2. v \notin S \ D
        BY <1>1, <1>2, <3>1
      <3> QED BY <3>1, <3>2
    <2>2. ASSUME NEW v \in D PROVE v \in Before(value, S, m)
      <3>1. v \in S /\ v # m /\ Rank(value, S, v) < n /\ ~(Rank(value, S, m) < n)
        BY <1>2
      <3>2. v \in Before(value, S, m) \/ m \in Before(value, S, v)
        BY <1>2, <3>1, RanksOrdered
      <3>3. m \in Before(value, S, v) => Rank(value, S, m) < Rank(value, S, v)
        BY <1>2, <3>1, RanksOrdered
      <3> QED BY <1>1, <1>2, <3>1, <3>2, <3>3
    <2> QED BY <2>1, <2>2
  <1>4. Rank(value, S, m) = n
    BY <1>3 DEF Rank
  <1>5. {x \in S : Rank(value, S, x) < n + 1} = D \cup {m}
    <2>1. ASSUME NEW x \in S, Rank(value, S, x) = n PROVE x = m
      <3>1. x # m => x \in Before(value, S, m) \/ m \in Before(value, S, x)
        BY <1>2, RanksOrdered
      <3>2. /\ x \in Before(value, S, m) => Rank(value, S, x) < Rank(value, S, m)
            /\ m \in Before(value, S, x) => Rank(value, S, m) < Rank(value, S, x)
        BY <1>2, RanksOrdered
      <3> QED BY <2>1, <1>4, <3>1, <3>2
    <2>2. \A x \in S : Rank(value, S, x) < n + 1 <=> Rank(value, S, x) < n \/ Rank(value, S, x) = n
      BY <1>1
    <2> QED BY <1>2, <1>4, <2>1, <2>2
  <1>6. IsFiniteSet(D) /\ m \notin D
    BY <1>2, FS_Subset
  <1>7. Cardinality(D \cup {m}) = Cardinality(D) + 1
    BY <1>6, FS_AddElement
  <1> QED BY <1>5, <1>7

\* As many elements have a rank below n as there are numbers below n.
LEMMA RankCount ==
  ASSUME NEW S \in SUBSET Nat, IsFiniteSet(S), NEW value, \A x \in S : value[x] \in Int,
         NEW n \in Nat, n <= Cardinality(S)
  PROVE  Cardinality({x \in S : Rank(value, S, x) < n}) = n
  <1> DEFINE B == {k \in Nat : k <= Cardinality(S) /\ Cardinality({x \in S : Rank(value, S, x) < k}) # k}
  <1> SUFFICES ASSUME B # {} PROVE FALSE
    OBVIOUS
  <1>1. PICK k \in B : \A j \in B : k <= j
    <2>1. B \in SUBSET Nat
      OBVIOUS
    <2> HIDE DEF B
    <2> QED BY <2>1, LeastNat
  <1>2. k # 0
    <2>1. {x \in S : Rank(value, S, x) < 0} = {}
      <3>1. \A x \in S : Rank(value, S, x) \in Nat
        BY RanksOrdered
      <3>2. \A x \in S : ~(Rank(value, S, x) < 0)
        BY <3>1
      <3> QED BY <3>2
    <2>2. Cardinality({x \in S : Rank(value, S, x) < 0}) = 0
      BY <2>1, FS_EmptySet
    <2> QED BY <1>1, <2>2
  <1>3. PICK j \in Nat : k = j + 1
    <2>1. k \in Nat /\ k - 1 \in Nat /\ k = (k - 1) + 1
      BY <1>1, <1>2
    <2> QED BY <2>1
  <1>4. j \notin B /\ j < Cardinality(S)
    BY <1>1, <1>3, FS_CardinalityType
  <1>5. Cardinality({x \in S : Rank(value, S, x) < j}) = j
    BY <1>3, <1>4, FS_CardinalityType
  <1> HIDE DEF B
  <1>6. Cardinality({x \in S : Rank(value, S, x) < j + 1}) = j + 1
    BY <1>4, <1>5, FirstOnes
  <1> USE DEF B
  <1> QED BY <1>1, <1>3, <1>6
=============================================================================
