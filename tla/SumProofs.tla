------------------------------- MODULE SumProofs -------------------------------
(***************************************************************************)
(* What SumFunctionOnSet, the sum of a function over a finite set, is: the *)
(* facts about sums that the accounts of the wallets and of the points     *)
(* rest on.                                                                *)
(*                                                                         *)
(* The sum is defined by recursion over the set.  That a function folds    *)
(* the set, that it is the only one and what it computes follow by taking  *)
(* a smallest subset for which they fail.                                  *)
(***************************************************************************)
EXTENDS Integers, FiniteSetsExt, FiniteSetTheorems, WellFoundedInduction, TLAPS

Less == {ss \in Nat \X Nat : ss[1] < ss[2]}

LEMMA LessWellFounded == IsWellFoundedOn(Less, Nat)
BY NatLessThanWellFounded DEF OpToRel, Less

LEMMA LessIs == \A x, y \in Nat : y < x => <<y, x>> \in Less
BY DEF Less

\* A set of natural numbers that is not empty has a least element.
LEMMA LeastNumber ==
  ASSUME NEW T, T \subseteq Nat, T # {}
  PROVE  \E x \in T : \A y \in T : x <= y
<1>1. \E x \in T : \A y \in T : ~ (<<y, x>> \in Less)
  BY LessWellFounded, WFMin
<1>2. PICK x \in T : \A y \in T : ~ (<<y, x>> \in Less)
  BY <1>1
<1>3. ASSUME NEW y \in T PROVE x <= y
  <2>1. x \in Nat /\ y \in Nat
    OBVIOUS
  <2>2. ~ (y < x)
    BY <1>2, <2>1, LessIs
  <2>. QED BY <2>1, <2>2
<1>. QED BY <1>3

-------------------------------------------------------------------------------
(* Sums over finite sets.                                                     *)

Summable(w, U) == IsFiniteSet(U) /\ w \in [U -> Int]

\* Among subsets of a finite set there is one that has none of the others within it.
LEMMA SmallestSet ==
  ASSUME NEW U, IsFiniteSet(U), NEW Bad, Bad \subseteq SUBSET U, Bad # {}
  PROVE  \E S \in Bad : \A s \in SUBSET S : s # S => s \notin Bad
<1>. DEFINE sizes == {Cardinality(S) : S \in Bad}
<1>1. \A S \in Bad : IsFiniteSet(S) /\ Cardinality(S) \in Nat
  BY FS_Subset, FS_CardinalityType
<1>2. sizes \subseteq Nat /\ sizes # {}
  BY <1>1
<1>3. PICK n \in sizes : \A m \in sizes : n <= m
  <2>. HIDE DEF sizes
  <2>. QED BY <1>2, LeastNumber
<1>4. PICK S \in Bad : Cardinality(S) = n
  BY <1>3
<1>5. ASSUME NEW s \in SUBSET S, s # S, s \in Bad PROVE FALSE
  <2>1. Cardinality(s) <= Cardinality(S) /\ Cardinality(S) # Cardinality(s)
    BY <1>1, <1>5, FS_Subset
  <2>2. n <= Cardinality(s)
    BY <1>3, <1>5
  <2>. QED BY <1>1, <1>4, <1>5, <2>1, <2>2
<1>. QED BY <1>5

\* A finite set of integers that is not empty has a greatest element.
LEMMA MaxIsGreatest ==
  ASSUME NEW T, IsFiniteSet(T), T \subseteq Int, T # {}
  PROVE  Max(T) \in T /\ \A y \in T : Max(T) >= y
<1>. DEFINE Bad == {R \in SUBSET T : R # {} /\ ~ \E x \in R : \A y \in R : x >= y}
<1>1. Bad = {}
  <2>1. SUFFICES ASSUME Bad # {} PROVE FALSE
    OBVIOUS
  <2>2. PICK R \in Bad : \A s \in SUBSET R : s # R => s \notin Bad
    <3>1. Bad \subseteq SUBSET T
      OBVIOUS
    <3>. HIDE DEF Bad
    <3>. QED BY <2>1, <3>1, SmallestSet
  <2>3. R \subseteq Int /\ R \subseteq T /\ R # {} /\ ~ \E x \in R : \A y \in R : x >= y
    OBVIOUS
  <2>4. PICK e \in R : TRUE
    BY <2>3
  <2>. DEFINE r == R \ {e}
  <2>5. r \in SUBSET R /\ r # R /\ r \in SUBSET T
    BY <2>3, <2>4
  <2>6. r \notin Bad
    <3>. HIDE DEF Bad, r
    <3>. QED BY <2>2, <2>5
  <2>7. r # {}
    <3>1. SUFFICES ASSUME r = {} PROVE FALSE
      OBVIOUS
    <3>2. R = {e} /\ e \in Int
      BY <2>3, <2>4, <3>1
    <3>. QED BY <2>3, <3>2
  <2>8. PICK x \in r : \A y \in r : x >= y
    BY <2>5, <2>6, <2>7
  <2>9. x \in R /\ x \in Int /\ e \in Int
    BY <2>3, <2>4, <2>5, <2>8
  <2>10. CASE x >= e
    <3>1. \A y \in R : x >= y
      BY <2>8, <2>10
    <3>. QED BY <2>3, <2>9, <3>1
  <2>11. CASE e > x
    <3>1. \A y \in R : e >= y
      BY <2>3, <2>8, <2>9, <2>11
    <3>. QED BY <2>3, <2>4, <3>1
  <2>. QED BY <2>9, <2>10, <2>11
<1>2. \E x \in T : \A y \in T : x >= y
  BY <1>1
<1>. QED BY <1>2 DEF Max

Pick(s) == CHOOSE q \in s : TRUE

Folding(f, w, S) == f = [s \in SUBSET S |-> IF s = {} THEN 0 ELSE w[Pick(s)] + f[s \ {Pick(s)}]]

\* SumFunctionOnSet picks one function that folds and applies it to the whole set.
LEMMA TotalIs ==
  ASSUME NEW w, NEW S
  PROVE  SumFunctionOnSet(w, S) = (CHOOSE f : Folding(f, w, S))[S]
BY Zenon DEF SumFunctionOnSet, FoldFunctionOnSet, MapThenFoldSet, Pick, Folding

LEMMA Picks == \A s : s # {} => Pick(s) \in s /\ s \ {Pick(s)} \subseteq s /\ s \ {Pick(s)} # s
BY DEF Pick

\* Functions that fold the same way agree on the sets that both fold.
LEMMA FoldingsAgree ==
  ASSUME NEW U, NEW w, Summable(w, U),
         NEW S \in SUBSET U, NEW R \in SUBSET U, NEW f, Folding(f, w, S), NEW g, Folding(g, w, R)
  PROVE  \A s \in SUBSET S : s \subseteq R => f[s] = g[s]
<1>. DEFINE Bad == {s \in SUBSET U : s \subseteq S /\ s \subseteq R /\ f[s] # g[s]}
<1>1. SUFFICES ASSUME Bad # {} PROVE FALSE
  OBVIOUS
<1>2. PICK s \in Bad : \A r \in SUBSET s : r # s => r \notin Bad
  <2>1. Bad \subseteq SUBSET U
    OBVIOUS
  <2>. HIDE DEF Bad
  <2>. QED BY <1>1, <2>1, SmallestSet DEF Summable
<1>3. s \subseteq S /\ s \subseteq R /\ f[s] # g[s] /\ s \subseteq U
  OBVIOUS
<1>4. /\ f[s] = IF s = {} THEN 0 ELSE w[Pick(s)] + f[s \ {Pick(s)}]
      /\ g[s] = IF s = {} THEN 0 ELSE w[Pick(s)] + g[s \ {Pick(s)}]
  BY <1>3 DEF Folding
<1>5. s # {}
  BY <1>3, <1>4
<1>6. s \ {Pick(s)} \notin Bad
  <2>1. s \ {Pick(s)} \in SUBSET s /\ s \ {Pick(s)} # s
    BY <1>5, Picks
  <2>. HIDE DEF Bad
  <2>. QED BY <1>2, <2>1
<1>7. f[s \ {Pick(s)}] = g[s \ {Pick(s)}]
  BY <1>3, <1>6
<1>. QED BY <1>3, <1>4, <1>5, <1>7

Foldable(w, S) == \A s \in SUBSET S : \E f : Folding(f, w, s)

\* What the fold computes, if there is a function that folds.
LEMMA TotalUnfolds ==
  ASSUME NEW U, NEW w, Summable(w, U), NEW S \in SUBSET U,
         Foldable(w, S)
  PROVE  SumFunctionOnSet(w, S) = IF S = {} THEN 0 ELSE w[Pick(S)] + SumFunctionOnSet(w, S \ {Pick(S)})
<1>. DEFINE F(s) == CHOOSE f : Folding(f, w, s)
            r == S \ {Pick(S)}
<1>1. \A s \in SUBSET S : Folding(F(s), w, s) /\ SumFunctionOnSet(w, s) = F(s)[s]
  BY TotalIs DEF Foldable
<1>. HIDE DEF F
<1>2. Folding(F(S), w, S) /\ SumFunctionOnSet(w, S) = F(S)[S]
  BY <1>1
<1>3. F(S)[S] = IF S = {} THEN 0 ELSE w[Pick(S)] + F(S)[r]
  BY <1>2 DEF Folding
<1>4. Folding(F(r), w, r) /\ SumFunctionOnSet(w, r) = F(r)[r] /\ r \in SUBSET U /\ r \in SUBSET S
  BY <1>1
<1>5. \A s \in SUBSET S : s \subseteq r => F(S)[s] = F(r)[s]
  BY <1>2, <1>4, FoldingsAgree
<1>. QED BY <1>2, <1>3, <1>4, <1>5

LEMMA FoldingsExist ==
  ASSUME NEW U, NEW w, Summable(w, U)
  PROVE  \A S \in SUBSET U : \E f : Folding(f, w, S)
<1>. DEFINE Bad == {S \in SUBSET U : ~ \E f : Folding(f, w, S)}
<1>1. SUFFICES ASSUME Bad # {} PROVE FALSE
  OBVIOUS
<1>2. PICK S \in Bad : \A s \in SUBSET S : s # S => s \notin Bad
  <2>1. Bad \subseteq SUBSET U
    OBVIOUS
  <2>. HIDE DEF Bad
  <2>. QED BY <1>1, <2>1, SmallestSet DEF Summable
<1>3. S \in SUBSET U /\ ~ \E f : Folding(f, w, S)
  OBVIOUS
<1>4. \A s \in SUBSET S : s # S => \E f : Folding(f, w, s)
  BY <1>2, <1>3
<1>. HIDE DEF Bad
<1>5. \A s \in SUBSET S : s # S =>
        SumFunctionOnSet(w, s) = IF s = {} THEN 0 ELSE w[Pick(s)] + SumFunctionOnSet(w, s \ {Pick(s)})
  <2>. SUFFICES ASSUME NEW s \in SUBSET S, s # S
                PROVE  SumFunctionOnSet(w, s) = IF s = {} THEN 0 ELSE w[Pick(s)] + SumFunctionOnSet(w, s \ {Pick(s)})
    OBVIOUS
  <2>1. \A r \in SUBSET s : r \in SUBSET S /\ r # S
    OBVIOUS
  <2>2. Foldable(w, s)
    BY <1>4, <2>1 DEF Foldable
  <2>3. s \in SUBSET U
    BY <1>3
  <2>. QED BY <2>2, <2>3, TotalUnfolds
<1>. DEFINE g == [s \in SUBSET S |-> IF s = {} THEN 0 ELSE w[Pick(s)] + SumFunctionOnSet(w, s \ {Pick(s)})]
<1>6. ASSUME NEW s \in SUBSET S
      PROVE  g[s] = IF s = {} THEN 0 ELSE w[Pick(s)] + g[s \ {Pick(s)}]
  <2>1. CASE s = {}
    BY <2>1
  <2>2. CASE s # {}
    <3>. DEFINE r == s \ {Pick(s)}
    <3>1. r \in SUBSET S /\ r # S
      BY <2>2, Picks
    <3>2. g[r] = SumFunctionOnSet(w, r)
      BY <1>5, <3>1
    <3>3. g[s] = w[Pick(s)] + SumFunctionOnSet(w, r)
      BY <2>2
    <3>. QED BY <2>2, <3>2, <3>3
  <2>. QED BY <2>1, <2>2
<1>7. Folding(g, w, S)
  BY <1>6 DEF Folding
<1>. QED BY <1>3, <1>7

LEMMA TotalOfPick ==
  ASSUME NEW U, NEW w, Summable(w, U), NEW S \in SUBSET U
  PROVE  SumFunctionOnSet(w, S) = IF S = {} THEN 0 ELSE w[Pick(S)] + SumFunctionOnSet(w, S \ {Pick(S)})
<1>1. \A s \in SUBSET U : \E f : Folding(f, w, s)
  BY FoldingsExist
<1>2. Foldable(w, S)
  BY <1>1 DEF Foldable
<1>. QED BY <1>2, TotalUnfolds

LEMMA TotalIsInt ==
  ASSUME NEW U, NEW w, Summable(w, U)
  PROVE  \A S \in SUBSET U : SumFunctionOnSet(w, S) \in Int
<1>. DEFINE Bad == {S \in SUBSET U : SumFunctionOnSet(w, S) \notin Int}
<1>1. SUFFICES ASSUME Bad # {} PROVE FALSE
  OBVIOUS
<1>2. PICK S \in Bad : \A s \in SUBSET S : s # S => s \notin Bad
  <2>1. Bad \subseteq SUBSET U
    OBVIOUS
  <2>. HIDE DEF Bad
  <2>. QED BY <1>1, <2>1, SmallestSet DEF Summable
<1>3. S \in SUBSET U /\ SumFunctionOnSet(w, S) \notin Int
  OBVIOUS
<1>4. SumFunctionOnSet(w, S) = IF S = {} THEN 0 ELSE w[Pick(S)] + SumFunctionOnSet(w, S \ {Pick(S)})
  BY <1>3, TotalOfPick
<1>5. S # {}
  BY <1>3, <1>4
<1>6. Pick(S) \in S /\ S \ {Pick(S)} \in SUBSET S /\ S \ {Pick(S)} # S
  BY <1>5, Picks
<1>7. S \ {Pick(S)} \notin Bad
  <2>. HIDE DEF Bad
  <2>. QED BY <1>2, <1>6
<1>8. SumFunctionOnSet(w, S \ {Pick(S)}) \in Int /\ w[Pick(S)] \in Int
  BY <1>3, <1>6, <1>7 DEF Summable
<1>. QED BY <1>3, <1>4, <1>5, <1>8

\* The order in which the fold picks the elements does not matter.
LEMMA TotalOfOne ==
  ASSUME NEW U, NEW w, Summable(w, U), NEW S \in SUBSET U, NEW q \in S
  PROVE  SumFunctionOnSet(w, S) = w[q] + SumFunctionOnSet(w, S \ {q})
<1>. DEFINE Bad == {R \in SUBSET U : \E x \in R : SumFunctionOnSet(w, R) # w[x] + SumFunctionOnSet(w, R \ {x})}
<1>1. SUFFICES ASSUME Bad # {} PROVE FALSE
  OBVIOUS
<1>2. PICK R \in Bad : \A s \in SUBSET R : s # R => s \notin Bad
  <2>1. Bad \subseteq SUBSET U
    OBVIOUS
  <2>. HIDE DEF Bad
  <2>. QED BY <1>1, <2>1, SmallestSet DEF Summable
<1>3. R \in SUBSET U
  OBVIOUS
<1>4. PICK x \in R : SumFunctionOnSet(w, R) # w[x] + SumFunctionOnSet(w, R \ {x})
  OBVIOUS
<1>. DEFINE p == Pick(R)
<1>5. p \in R /\ SumFunctionOnSet(w, R) = w[p] + SumFunctionOnSet(w, R \ {p})
  BY <1>3, <1>4, Picks, TotalOfPick
<1>6. p # x
  BY <1>4, <1>5
<1>. HIDE DEF p
<1>7. /\ R \ {p} \in SUBSET R /\ R \ {p} # R /\ x \in R \ {p}
      /\ R \ {x} \in SUBSET R /\ R \ {x} # R /\ p \in R \ {x}
      /\ R \ {p} \in SUBSET U /\ R \ {x} \in SUBSET U
  BY <1>3, <1>4, <1>5, <1>6
<1>8. R \ {p} \notin Bad /\ R \ {x} \notin Bad
  <2>. HIDE DEF Bad
  <2>. QED BY <1>2, <1>7
<1>. DEFINE both == (R \ {p}) \ {x}
<1>9. both = (R \ {x}) \ {p} /\ both \in SUBSET U
  BY <1>3
<1>10. SumFunctionOnSet(w, R \ {p}) = w[x] + SumFunctionOnSet(w, both) /\ SumFunctionOnSet(w, R \ {x}) = w[p] + SumFunctionOnSet(w, both)
  BY <1>7, <1>8, <1>9
<1>11. w[x] \in Int /\ w[p] \in Int /\ SumFunctionOnSet(w, both) \in Int
  BY <1>3, <1>4, <1>5, <1>9, TotalIsInt DEF Summable
<1>. HIDE DEF both, Bad
<1>12. SumFunctionOnSet(w, R) = w[p] + (w[x] + SumFunctionOnSet(w, both)) /\ SumFunctionOnSet(w, R) # w[x] + (w[p] + SumFunctionOnSet(w, both))
  BY <1>4, <1>5, <1>10
<1>. QED BY <1>11, <1>12

LEMMA TotalOfNothing ==
  ASSUME NEW U, NEW w, Summable(w, U)
  PROVE  SumFunctionOnSet(w, {}) = 0
BY TotalOfPick

LEMMA TotalOfMore ==
  ASSUME NEW U, NEW w, Summable(w, U), NEW S \in SUBSET U, NEW q \in U \ S
  PROVE  SumFunctionOnSet(w, S \cup {q}) = SumFunctionOnSet(w, S) + w[q]
<1>1. S \cup {q} \in SUBSET U /\ q \in S \cup {q} /\ (S \cup {q}) \ {q} = S
  OBVIOUS
<1>2. SumFunctionOnSet(w, S \cup {q}) = w[q] + SumFunctionOnSet(w, S)
  BY <1>1, TotalOfOne
<1>3. w[q] \in Int /\ SumFunctionOnSet(w, S) \in Int
  BY TotalIsInt DEF Summable
<1>. QED BY <1>2, <1>3

\* The totals of disjoint sets add up.
LEMMA TotalOfUnion ==
  ASSUME NEW U, NEW w, Summable(w, U),
         NEW A \in SUBSET U, NEW B \in SUBSET U, A \cap B = {}
  PROVE  SumFunctionOnSet(w, A \cup B) = SumFunctionOnSet(w, A) + SumFunctionOnSet(w, B)
<1>. DEFINE Bad == {S \in SUBSET U : A \cap S = {} /\ SumFunctionOnSet(w, A \cup S) # SumFunctionOnSet(w, A) + SumFunctionOnSet(w, S)}
<1>1. SUFFICES ASSUME Bad # {} PROVE FALSE
  OBVIOUS
<1>2. PICK S \in Bad : \A s \in SUBSET S : s # S => s \notin Bad
  <2>1. Bad \subseteq SUBSET U
    OBVIOUS
  <2>. HIDE DEF Bad
  <2>. QED BY <1>1, <2>1, SmallestSet DEF Summable
<1>3. S \in SUBSET U /\ A \cap S = {} /\ SumFunctionOnSet(w, A \cup S) # SumFunctionOnSet(w, A) + SumFunctionOnSet(w, S)
  OBVIOUS
<1>4. S # {}
  <2>1. SUFFICES ASSUME S = {} PROVE FALSE
    OBVIOUS
  <2>2. A \cup S = A /\ SumFunctionOnSet(w, S) = 0 /\ SumFunctionOnSet(w, A) \in Int
    BY <2>1, TotalOfNothing, TotalIsInt
  <2>. QED BY <1>3, <2>2
<1>5. PICK q \in S : TRUE
  BY <1>4
<1>. DEFINE r == S \ {q}
<1>6. r \in SUBSET S /\ r # S /\ r \in SUBSET U /\ A \cap r = {}
  BY <1>3
<1>7. r \notin Bad
  <2>. HIDE DEF Bad, r
  <2>. QED BY <1>2, <1>6
<1>8. SumFunctionOnSet(w, A \cup r) = SumFunctionOnSet(w, A) + SumFunctionOnSet(w, r)
  BY <1>6, <1>7
<1>9. SumFunctionOnSet(w, S) = w[q] + SumFunctionOnSet(w, r)
  BY <1>3, TotalOfOne
<1>10. SumFunctionOnSet(w, A \cup S) = w[q] + SumFunctionOnSet(w, A \cup r)
  <2>1. A \cup S \in SUBSET U /\ q \in A \cup S /\ (A \cup S) \ {q} = A \cup r
    BY <1>3
  <2>. QED BY <2>1, TotalOfOne
<1>11. w[q] \in Int /\ SumFunctionOnSet(w, A) \in Int /\ SumFunctionOnSet(w, r) \in Int
  BY <1>3, <1>6, TotalIsInt DEF Summable
<1>. HIDE DEF r, Bad
<1>. QED BY <1>3, <1>8, <1>9, <1>10, <1>11

\* Functions that agree on a set have the same sum over it.
LEMMA EqualTotals ==
  ASSUME NEW U, NEW w, NEW v, Summable(w, U), Summable(v, U), NEW S \in SUBSET U,
         \A y \in S : v[y] = w[y]
  PROVE  SumFunctionOnSet(v, S) = SumFunctionOnSet(w, S)
<1>. DEFINE Bad == {R \in SUBSET U : R \subseteq S /\ SumFunctionOnSet(v, R) # SumFunctionOnSet(w, R)}
<1>1. SUFFICES ASSUME Bad # {} PROVE FALSE
  OBVIOUS
<1>2. PICK R \in Bad : \A s \in SUBSET R : s # R => s \notin Bad
  <2>1. Bad \subseteq SUBSET U
    OBVIOUS
  <2>. HIDE DEF Bad
  <2>. QED BY <1>1, <2>1, SmallestSet DEF Summable
<1>3. R \in SUBSET U /\ R \subseteq S /\ SumFunctionOnSet(v, R) # SumFunctionOnSet(w, R)
  OBVIOUS
<1>. DEFINE r == R \ {Pick(R)}
<1>4. SumFunctionOnSet(v, R) = IF R = {} THEN 0 ELSE v[Pick(R)] + SumFunctionOnSet(v, r)
  BY <1>3, TotalOfPick
<1>5. SumFunctionOnSet(w, R) = IF R = {} THEN 0 ELSE w[Pick(R)] + SumFunctionOnSet(w, r)
  BY <1>3, TotalOfPick
<1>6. R # {}
  BY <1>3, <1>4, <1>5
<1>7. Pick(R) \in R /\ r \in SUBSET R /\ r # R
  BY <1>6, Picks
<1>8. r \notin Bad
  <2>. HIDE DEF Bad, r
  <2>. QED BY <1>2, <1>7
<1>9. SumFunctionOnSet(v, r) = SumFunctionOnSet(w, r) /\ v[Pick(R)] = w[Pick(R)]
  BY <1>3, <1>7, <1>8
<1>. HIDE DEF r, Bad
<1>. QED BY <1>3, <1>4, <1>5, <1>6, <1>9

\* A function that changes at one place changes its sum by as much.
LEMMA TotalChanges ==
  ASSUME NEW U, NEW w, NEW v, Summable(w, U), Summable(v, U), NEW x \in U,
         \A y \in U : y # x => v[y] = w[y]
  PROVE  SumFunctionOnSet(v, U) = SumFunctionOnSet(w, U) + (v[x] - w[x])
<1>. DEFINE rest == U \ {x}
<1>1. U \in SUBSET U /\ rest \in SUBSET U /\ \A y \in rest : v[y] = w[y]
  OBVIOUS
<1>2. SumFunctionOnSet(v, rest) = SumFunctionOnSet(w, rest)
  <2>. HIDE DEF rest
  <2>. QED BY <1>1, EqualTotals
<1>3. SumFunctionOnSet(v, U) = v[x] + SumFunctionOnSet(v, rest)
  BY <1>1, TotalOfOne
<1>4. SumFunctionOnSet(w, U) = w[x] + SumFunctionOnSet(w, rest)
  BY <1>1, TotalOfOne
<1>5. SumFunctionOnSet(w, rest) \in Int /\ v[x] \in Int /\ w[x] \in Int
  BY <1>1, TotalIsInt DEF Summable
<1>. HIDE DEF rest
<1>. QED BY <1>2, <1>3, <1>4, <1>5

LEMMA TotalOfZeros ==
  ASSUME NEW U, IsFiniteSet(U)
  PROVE  SumFunctionOnSet([x \in U |-> 0], U) = 0
<1>. DEFINE w == [x \in U |-> 0]
            Bad == {S \in SUBSET U : SumFunctionOnSet(w, S) # 0}
<1>1. Summable(w, U) /\ \A x \in U : w[x] = 0
  BY DEF Summable
<1>. HIDE DEF w
<1>2. SUFFICES ASSUME Bad # {} PROVE FALSE
  <2>1. U \in SUBSET U
    OBVIOUS
  <2>. QED BY <2>1 DEF w
<1>3. PICK S \in Bad : \A s \in SUBSET S : s # S => s \notin Bad
  <2>1. Bad \subseteq SUBSET U
    OBVIOUS
  <2>. HIDE DEF Bad
  <2>. QED BY <1>2, <2>1, SmallestSet
<1>4. S \in SUBSET U /\ SumFunctionOnSet(w, S) # 0
  OBVIOUS
<1>. DEFINE r == S \ {Pick(S)}
<1>5. SumFunctionOnSet(w, S) = IF S = {} THEN 0 ELSE w[Pick(S)] + SumFunctionOnSet(w, r)
  BY <1>1, <1>4, TotalOfPick
<1>6. S # {}
  BY <1>4, <1>5
<1>7. Pick(S) \in S /\ r \in SUBSET S /\ r # S
  BY <1>6, Picks
<1>8. r \notin Bad
  <2>. HIDE DEF Bad, r
  <2>. QED BY <1>3, <1>7
<1>9. SumFunctionOnSet(w, r) = 0 /\ w[Pick(S)] = 0
  BY <1>1, <1>4, <1>7, <1>8
<1>. HIDE DEF r, Bad
<1>. QED BY <1>4, <1>5, <1>6, <1>9
===============================================================================
