----------------------------- MODULE SumProofs -----------------------------
(***************************************************************************)
(* Lemmas the proofs about several components rest on: least elements,     *)
(* induction over the natural numbers, division, and sums over a finite    *)
(* set.  A sum of FiniteSetsExt takes the elements of the set in an order  *)
(* of its choice; the lemmas say that the order makes no difference.       *)
(***************************************************************************)
EXTENDS Integers, FiniteSets, FiniteSetsExt, FiniteSetTheorems, WellFoundedInduction, TLAPS

-----------------------------------------------------------------------------
(* Induction. *)

\* A set of natural numbers that is not empty has a least one, which is its Min.
LEMMA LeastElement ==
    ASSUME NEW S \in SUBSET Nat, S # {}
    PROVE  Min(S) \in S /\ \A i \in S : Min(S) <= i
<1>1. PICK x \in S : \A y \in S : ~ (<<y, x>> \in OpToRel(<, Nat))
  BY NatLessThanWellFounded, WFMin, Zenon
<1>2. ASSUME NEW y \in S PROVE x <= y
  <2>1. y < x => <<y, x>> \in OpToRel(<, Nat)
    BY Zenon DEF OpToRel
  <2>2. ~(y < x)
    BY <1>1, <2>1, Zenon
  <2> QED
    BY <2>2
<1> QED
  BY <1>2 DEF Min

\* A set with 0 and the successor of every number in it has every number.
LEMMA SetInduction ==
    ASSUME NEW T, 0 \in T, \A n \in Nat : n \in T => n + 1 \in T
    PROVE  Nat \subseteq T
<1> DEFINE D == Nat \ T
<1> SUFFICES ASSUME D # {} PROVE FALSE
  OBVIOUS
<1>1. PICK x \in D : \A y \in D : x <= y
  BY LeastElement
<1>2. x \in Nat /\ x # 0 /\ x - 1 \in Nat
  OBVIOUS
<1>3. x - 1 \in T
  BY <1>1, <1>2
<1>4. (x - 1) + 1 \in T
  BY <1>2, <1>3
<1> QED
  BY <1>2, <1>4

-----------------------------------------------------------------------------
(* Division. *)

\* Division and remainder, as one equation.
LEMMA Division ==
    ASSUME NEW a \in Nat, NEW P \in Nat \ {0}
    PROVE  /\ a = P * (a \div P) + (a % P)
           /\ a \div P \in Nat
           /\ a % P \in 0..P - 1
  BY SMT

-----------------------------------------------------------------------------
(* Sums. *)

\* sum[s] is the sum of the values over s, whichever element is taken first.
Sums(sum, val, S) ==
    /\ sum \in [SUBSET S -> Nat]
    /\ sum[{}] = 0
    /\ \A s \in SUBSET S : \A x \in s : sum[s] = val[x] + sum[s \ {x}]

\* With one element more there still are sums.
LEMMA SumsOneMore ==
    ASSUME NEW S, NEW y \in S, NEW val, \A x \in S : val[x] \in Nat,
           NEW sum, Sums(sum, val, S \ {y})
    PROVE  \E more : Sums(more, val, S)
<1> DEFINE more == [s \in SUBSET S |-> IF y \in s THEN val[y] + sum[s \ {y}] ELSE sum[s]]
<1>1. sum \in [SUBSET (S \ {y}) -> Nat]
  BY DEF Sums
<1>2. more \in [SUBSET S -> Nat]
  <2> SUFFICES ASSUME NEW s \in SUBSET S
               PROVE  (IF y \in s THEN val[y] + sum[s \ {y}] ELSE sum[s]) \in Nat
    OBVIOUS
  <2>1. CASE y \in s
    <3>1. s \ {y} \in SUBSET (S \ {y})
      OBVIOUS
    <3> QED
      BY <1>1, <2>1, <3>1
  <2>2. CASE y \notin s
    <3>1. s \in SUBSET (S \ {y})
      BY <2>2
    <3> QED
      BY <1>1, <2>2, <3>1
  <2> QED
    BY <2>1, <2>2
<1>3. more[{}] = 0
  BY DEF Sums
<1>4. ASSUME NEW s \in SUBSET S, NEW x \in s
      PROVE  more[s] = val[x] + more[s \ {x}]
  <2>1. s \ {x} \in SUBSET S /\ x \in S
    OBVIOUS
  <2>2. CASE x = y
    <3>1. more[s] = val[y] + sum[s \ {y}] /\ more[s \ {y}] = sum[s \ {y}]
      BY <2>2
    <3> QED
      BY <2>2, <3>1
  <2>3. CASE x # y /\ y \in s
    <3>1. more[s] = val[y] + sum[s \ {y}] /\ more[s \ {x}] = val[y] + sum[(s \ {x}) \ {y}]
      BY <2>3
    <3>2. s \ {y} \in SUBSET (S \ {y}) /\ x \in s \ {y}
      BY <2>3
    <3>3. sum[s \ {y}] = val[x] + sum[(s \ {y}) \ {x}]
      BY <3>2 DEF Sums
    <3>4. (s \ {y}) \ {x} = (s \ {x}) \ {y} /\ (s \ {x}) \ {y} \in SUBSET (S \ {y})
      OBVIOUS
    <3> DEFINE rest == sum[(s \ {x}) \ {y}]
    <3>5. rest \in Nat /\ val[x] \in Nat /\ val[y] \in Nat
      BY <1>1, <2>1, <3>4
    <3>6. more[s] = val[y] + (val[x] + rest) /\ more[s \ {x}] = val[y] + rest
      BY <3>1, <3>3, <3>4
    <3> HIDE DEF more, rest
    <3> QED
      BY <3>5, <3>6
  <2>4. CASE x # y /\ y \notin s
    <3>1. s \in SUBSET (S \ {y}) /\ more[s] = sum[s] /\ more[s \ {x}] = sum[s \ {x}]
      BY <2>4
    <3> QED
      BY <3>1 DEF Sums
  <2> QED
    BY <2>2, <2>3, <2>4
<1> HIDE DEF more
<1> QED
  BY <1>2, <1>3, <1>4 DEF Sums

\* A finite set has sums.
LEMMA SumsExist ==
    ASSUME NEW S, IsFiniteSet(S), NEW val, \A x \in S : val[x] \in Nat
    PROVE  \E sum : Sums(sum, val, S)
<1> DEFINE Good(n) == \A R \in SUBSET S : Cardinality(R) = n => \E sum : Sums(sum, val, R)
           T == {n \in Nat : Good(n)}
<1>1. 0 \in T
  <2> SUFFICES ASSUME NEW R \in SUBSET S, Cardinality(R) = 0 PROVE \E sum : Sums(sum, val, R)
    OBVIOUS
  <2>1. R = {}
    BY FS_Subset, FS_EmptySet
  <2>2. Sums([s \in SUBSET R |-> 0], val, R)
    BY <2>1 DEF Sums
  <2> QED
    BY <2>2
<1>2. ASSUME NEW n \in Nat, n \in T PROVE n + 1 \in T
  <2> SUFFICES ASSUME NEW R \in SUBSET S, Cardinality(R) = n + 1
               PROVE  \E sum : Sums(sum, val, R)
    OBVIOUS
  <2>1. IsFiniteSet(R) /\ R # {}
    BY FS_Subset, FS_EmptySet
  <2>2. PICK y : y \in R
    BY <2>1
  <2>3. Cardinality(R \ {y}) = n
    <3>1. Cardinality(R \ {y}) = Cardinality(R) - 1
      BY <2>1, <2>2, FS_RemoveElement
    <3> QED
      BY <3>1
  <2>4. PICK sum : Sums(sum, val, R \ {y})
    BY <1>2, <2>3
  <2> QED
    BY <2>2, <2>4, SumsOneMore
<1> HIDE DEF Good
<1>3. Nat \subseteq T
  <2> HIDE DEF T
  <2> QED
    BY <1>1, <1>2, SetInduction
<1>4. Cardinality(S) \in Nat
  BY FS_CardinalityType
<1> QED
  BY <1>3, <1>4 DEF Good

\* iter takes the elements of each set in the order that CHOOSE gives.
ChosenSums(iter, val, S) ==
    /\ iter[{}] = 0
    /\ \A s \in SUBSET S : s # {} =>
        iter[s] = val[CHOOSE x \in s : TRUE] + iter[s \ {CHOOSE x \in s : TRUE}]

\* What takes the elements in an order of its choice has the same values.
LEMMA SumsInAnyOrder ==
    ASSUME NEW S, IsFiniteSet(S), NEW val, NEW sum, Sums(sum, val, S),
           NEW iter, ChosenSums(iter, val, S)
    PROVE  iter[S] = sum[S]
<1> DEFINE Good(n) == \A s \in SUBSET S : Cardinality(s) = n => iter[s] = sum[s]
           T == {n \in Nat : Good(n)}
<1>1. 0 \in T
  <2> SUFFICES ASSUME NEW s \in SUBSET S, Cardinality(s) = 0 PROVE iter[s] = sum[s]
    OBVIOUS
  <2>1. s = {}
    BY FS_Subset, FS_EmptySet
  <2> QED
    BY <2>1 DEF Sums, ChosenSums
<1>2. ASSUME NEW n \in Nat, n \in T PROVE n + 1 \in T
  <2> SUFFICES ASSUME NEW s \in SUBSET S, Cardinality(s) = n + 1 PROVE iter[s] = sum[s]
    OBVIOUS
  <2>1. IsFiniteSet(s) /\ s # {}
    BY FS_Subset, FS_EmptySet
  <2>2. PICK x \in s : x = CHOOSE y \in s : TRUE
    BY <2>1
  <2>3. Cardinality(s \ {x}) = n /\ s \ {x} \in SUBSET S
    <3>1. Cardinality(s \ {x}) = Cardinality(s) - 1
      BY <2>1, <2>2, FS_RemoveElement
    <3> QED
      BY <3>1
  <2>4. iter[s \ {x}] = sum[s \ {x}]
    BY <1>2, <2>3
  <2>5. iter[s] = val[x] + iter[s \ {x}]
    BY <2>1, <2>2 DEF ChosenSums
  <2>6. sum[s] = val[x] + sum[s \ {x}]
    BY DEF Sums
  <2> QED
    BY <2>4, <2>5, <2>6
<1> HIDE DEF Good
<1>3. Nat \subseteq T
  <2> HIDE DEF T
  <2> QED
    BY <1>1, <1>2, SetInduction
<1>4. Cardinality(S) \in Nat
  BY FS_CardinalityType
<1> QED
  BY <1>3, <1>4 DEF Good

\* Sums over two sets agree on the finite subsets of both on which the values do.
LEMMA SumsAgree ==
    ASSUME NEW S, NEW R, NEW val, NEW wal, NEW sum, NEW tot,
           Sums(sum, val, S), Sums(tot, wal, R),
           NEW T \in SUBSET (S \cap R), IsFiniteSet(T), \A x \in T : val[x] = wal[x]
    PROVE  sum[T] = tot[T]
<1> DEFINE there == [s \in SUBSET T |-> tot[s]]
<1>1. \A s \in SUBSET T : s # {} => (CHOOSE x \in s : TRUE) \in s
  OBVIOUS
<1>2. Sums(there, wal, T)
  <2>1. SUBSET T \subseteq SUBSET R /\ \A s \in SUBSET T : \A x \in s : s \ {x} \in SUBSET T
    OBVIOUS
  <2> QED
    BY <2>1 DEF Sums
<1>3. sum[{}] = 0
  BY DEF Sums
<1>4. ASSUME NEW s \in SUBSET T, s # {}, NEW x \in s
      PROVE  sum[s] = wal[x] + sum[s \ {x}]
  BY DEF Sums
<1>5. ChosenSums(sum, wal, T)
  BY <1>1, <1>3, <1>4 DEF ChosenSums
<1>6. sum[T] = there[T]
  <2> HIDE DEF there
  <2> QED
    BY <1>2, <1>5, SumsInAnyOrder
<1> QED
  BY <1>6

\* A sum without one of the elements, from the sum over the rest.
LEMMA SumWithout ==
    ASSUME NEW S, NEW x \in S, NEW val, NEW sum, NEW rest,
           Sums(sum, val, S), Sums(rest, val, S \ {x}), IsFiniteSet(S \ {x})
    PROVE  sum[S] = val[x] + rest[S \ {x}]
<1>1. sum[S] = val[x] + sum[S \ {x}]
  BY DEF Sums
<1>2. S \ {x} \in SUBSET (S \cap (S \ {x}))
  OBVIOUS
<1>3. sum[S \ {x}] = rest[S \ {x}]
  BY <1>2, SumsAgree
<1> QED
  BY <1>1, <1>3

-----------------------------------------------------------------------------
(* Totals: what the sums say of the whole set. *)

\* n is the sum of the values over S.
IsTotal(n, S, val) == \E sum : Sums(sum, val, S) /\ sum[S] = n

\* A finite set has a total, and only one.
LEMMA TotalExists ==
    ASSUME NEW S, IsFiniteSet(S), NEW val, \A x \in S : val[x] \in Nat
    PROVE  \E n \in Nat : IsTotal(n, S, val)
<1>1. PICK sum : Sums(sum, val, S)
  BY SumsExist
<1>2. sum[S] \in Nat
  BY <1>1 DEF Sums
<1> QED
  BY <1>1, <1>2 DEF IsTotal

\* A total is a number.
LEMMA TotalIsNat ==
    ASSUME NEW n, NEW S, NEW val, IsTotal(n, S, val)
    PROVE  n \in Nat
  BY DEF IsTotal, Sums

\* Values that agree have the same total.
LEMMA TotalsAgree ==
    ASSUME NEW S, IsFiniteSet(S), NEW val, NEW wal, \A x \in S : val[x] = wal[x],
           NEW n, NEW m, IsTotal(n, S, val), IsTotal(m, S, wal)
    PROVE  n = m
<1>1. PICK sum : Sums(sum, val, S) /\ sum[S] = n
  BY DEF IsTotal
<1>2. PICK tot : Sums(tot, wal, S) /\ tot[S] = m
  BY DEF IsTotal
<1>3. S \in SUBSET (S \cap S)
  OBVIOUS
<1> QED
  BY <1>1, <1>2, <1>3, SumsAgree

\* The total without one of the elements.
LEMMA TotalWithout ==
    ASSUME NEW S, IsFiniteSet(S), NEW val, NEW wal, NEW x \in S, \A y \in S \ {x} : val[y] = wal[y],
           NEW n, NEW m, IsTotal(n, S, val), IsTotal(m, S \ {x}, wal)
    PROVE  n = val[x] + m
<1>1. PICK sum : Sums(sum, val, S) /\ sum[S] = n
  BY DEF IsTotal
<1>2. PICK tot : Sums(tot, wal, S \ {x}) /\ tot[S \ {x}] = m
  BY DEF IsTotal
<1>3. sum[S] = val[x] + sum[S \ {x}]
  BY <1>1 DEF Sums
<1>4. S \ {x} \in SUBSET (S \cap (S \ {x})) /\ IsFiniteSet(S \ {x})
  BY FS_Subset
<1>5. sum[S \ {x}] = tot[S \ {x}]
  BY <1>1, <1>2, <1>4, SumsAgree
<1> QED
  BY <1>1, <1>2, <1>3, <1>5

\* f gives every element of S a name of its own in R.
OneToOne(f, S, R) == f \in [S -> R] /\ \A x, y \in S : f[x] = f[y] => x = y

\* Elements called by other names leave the total as it is.
LEMMA TotalRenamed ==
    ASSUME NEW S, IsFiniteSet(S), NEW R, NEW f, OneToOne(f, S, R), \A z \in R : \E x \in S : z = f[x],
           NEW val, NEW wal, \A x \in S : val[x] = wal[f[x]],
           NEW n, NEW m, IsTotal(n, S, val), IsTotal(m, R, wal)
    PROVE  n = m
<1> DEFINE Image(s) == {f[x] : x \in s}
<1>1. PICK tot : Sums(tot, wal, R) /\ tot[R] = m
  BY DEF IsTotal
<1> DEFINE back == [s \in SUBSET S |-> tot[Image(s)]]
<1>2. ASSUME NEW s \in SUBSET S PROVE Image(s) \in SUBSET R /\ back[s] = tot[Image(s)]
  BY DEF OneToOne
<1>3. back \in [SUBSET S -> Nat]
  <2> HIDE DEF Image
  <2> QED
    BY <1>1, <1>2 DEF Sums
<1>4. back[{}] = 0
  <2>1. Image({}) = {} /\ {} \in SUBSET S
    OBVIOUS
  <2> HIDE DEF Image, back
  <2> QED
    BY <1>1, <1>2, <2>1 DEF Sums
<1>5. ASSUME NEW s \in SUBSET S, NEW x \in s PROVE back[s] = val[x] + back[s \ {x}]
  <2>1. Image(s) \in SUBSET R /\ f[x] \in Image(s) /\ s \ {x} \in SUBSET S /\ x \in S
    BY <1>2
  <2>2. Image(s \ {x}) = Image(s) \ {f[x]}
    BY <2>1 DEF OneToOne
  <2> HIDE DEF Image
  <2>3. tot[Image(s)] = wal[f[x]] + tot[Image(s) \ {f[x]}]
    BY <1>1, <2>1 DEF Sums
  <2>4. back[s] = tot[Image(s)] /\ back[s \ {x}] = tot[Image(s \ {x})]
    BY <1>2, <2>1
  <2>5. val[x] = wal[f[x]]
    BY <2>1
  <2> HIDE DEF back
  <2> QED
    BY <2>2, <2>3, <2>4, <2>5
<1>6. Sums(back, val, S)
  <2> HIDE DEF back
  <2> QED
    BY <1>3, <1>4, <1>5 DEF Sums
<1>7. back[S] = m
  <2>1. Image(S) = R /\ S \in SUBSET S
    BY DEF OneToOne
  <2> HIDE DEF Image
  <2> QED
    BY <1>1, <2>1
<1>8. IsTotal(m, S, val)
  <2> HIDE DEF back
  <2> QED
    BY <1>6, <1>7 DEF IsTotal
<1> QED
  BY <1>8, TotalsAgree

\* What MapThenFoldSet computes of a sum.
Folded(iter, val, S) ==
    iter = [s \in SUBSET S |->
              IF s = {} THEN 0
              ELSE val[CHOOSE x \in s : TRUE] + iter[s \ {CHOOSE x \in s : TRUE}]]

\* There is such a function.
LEMMA FoldedExists ==
    ASSUME NEW S, IsFiniteSet(S), NEW val, \A x \in S : val[x] \in Nat
    PROVE  \E iter : Folded(iter, val, S)
<1> DEFINE First(s) == CHOOSE x \in s : TRUE
           Add(iter, s) == IF s = {} THEN 0 ELSE val[First(s)] + iter[s \ {First(s)}]
<1>1. PICK sum : Sums(sum, val, S)
  BY SumsExist
<1>2. \A s \in SUBSET S : s # {} => First(s) \in s
  OBVIOUS
<1> HIDE DEF First
<1>3. ASSUME NEW s \in SUBSET S PROVE sum[s] = Add(sum, s)
  BY <1>1, <1>2 DEF Sums
<1>4. sum = [s \in SUBSET S |-> sum[s]]
  BY <1>1 DEF Sums
<1>5. sum = [s \in SUBSET S |-> Add(sum, s)]
  <2> HIDE DEF Add
  <2> QED
    BY <1>3, <1>4
<1>6. Folded(sum, val, S)
  BY <1>5 DEF Folded, First
<1> QED
  BY <1>6

\* And it ends with the total.
LEMMA FoldedIsTotal ==
    ASSUME NEW S, IsFiniteSet(S), NEW val, \A x \in S : val[x] \in Nat,
           NEW iter, Folded(iter, val, S)
    PROVE  IsTotal(iter[S], S, val)
<1> DEFINE First(s) == CHOOSE x \in s : TRUE
<1>1. PICK sum : Sums(sum, val, S)
  BY SumsExist
<1>2. ASSUME NEW s \in SUBSET S
      PROVE  iter[s] = IF s = {} THEN 0 ELSE val[First(s)] + iter[s \ {First(s)}]
  BY DEF Folded
<1> HIDE DEF First
<1>3. iter[{}] = 0
  BY <1>2
<1>4. \A s \in SUBSET S : s # {} => iter[s] = val[First(s)] + iter[s \ {First(s)}]
  BY <1>2
<1>5. ChosenSums(iter, val, S)
  BY <1>3, <1>4 DEF ChosenSums, First
<1>6. iter[S] = sum[S]
  BY <1>1, <1>5, SumsInAnyOrder
<1> QED
  BY <1>1, <1>6 DEF IsTotal
=============================================================================
