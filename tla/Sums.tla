-------------------------------- MODULE Sums --------------------------------
(***************************************************************************)
(* Induction over finite sets and intervals, and what follows for least    *)
(* elements, for recursion, and for the sums that the models take over     *)
(* systems, ships and holds of cargo (SumFunction and SumFunctionOnSet of  *)
(* Functions).                                                             *)
(***************************************************************************)
EXTENDS Integers, FiniteSets, Functions, FiniteSetTheorems, WellFoundedInduction, TLAPS

-----------------------------------------------------------------------------
(* What holds of a set as soon as it holds of its proper subsets holds of  *)
(* all subsets of a finite set.                                            *)
LEMMA SubsetInduction ==
  ASSUME NEW S, IsFiniteSet(S), NEW P,
         \A T \in SUBSET S : (\A U \in SUBSET T : U # T => U \in P) => T \in P
  PROVE  SUBSET S \subseteq P
<1> DEFINE Bad == {T \in FiniteSubsetsOf(S) : T \notin P}
<1> SUFFICES ASSUME Bad # {} PROVE FALSE
  BY FS_Subset DEF FiniteSubsetsOf
<1>1. PICK T \in Bad : \A U \in Bad : <<U, T>> \notin StrictSubsetOrdering(S)
  <2>1. Bad \subseteq FiniteSubsetsOf(S)
    OBVIOUS
  <2> HIDE DEF Bad
  <2> QED BY <2>1, FS_StrictSubsetOrderingWellFounded, WFMin
<1>2. ASSUME NEW U \in SUBSET T, U # T PROVE U \in P
  <2>1. U \in FiniteSubsetsOf(S)
    BY <1>2, FS_Subset DEF FiniteSubsetsOf
  <2>2. <<U, T>> \in StrictSubsetOrdering(S)
    BY <1>2 DEF StrictSubsetOrdering, FiniteSubsetsOf
  <2> QED BY <1>1, <2>1, <2>2
<1> QED BY <1>2 DEF FiniteSubsetsOf

(* Or one element at a time. *)
LEMMA FiniteInduction ==
  ASSUME NEW S, IsFiniteSet(S), NEW P, {} \in P,
         \A T \in SUBSET S : \A x \in T : T \ {x} \in P => T \in P
  PROVE  SUBSET S \subseteq P
<1>1. ASSUME NEW T \in SUBSET S, \A U \in SUBSET T : U # T => U \in P
      PROVE  T \in P
  <2>1. CASE T = {}
    BY <2>1
  <2>2. CASE T # {}
    <3>1. PICK x \in T : TRUE
      BY <2>2
    <3>2. T \ {x} \in SUBSET T /\ T \ {x} # T
      BY <3>1
    <3> QED BY <1>1, <3>1, <3>2
  <2> QED BY <2>1, <2>2
<1> QED BY <1>1, SubsetInduction

(* Finite sets of integers have a smallest and a largest element. *)
LEMMA FiniteHasLeast ==
  ASSUME NEW S, IsFiniteSet(S), S \subseteq Int, S # {}
  PROVE  \E x \in S : \A y \in S : x <= y
<1> DEFINE P == {T \in SUBSET S : T # {} => \E x \in T : \A y \in T : x <= y}
<1>1. {} \in P
  OBVIOUS
<1>2. ASSUME NEW T \in SUBSET S, NEW z \in T, T \ {z} \in P
      PROVE  T \in P
  <2>1. CASE T \ {z} = {}
    <3>1. z <= z /\ \A y \in T : y = z
      BY <2>1
    <3> QED BY <3>1
  <2>2. CASE T \ {z} # {}
    <3>1. PICK x \in T \ {z} : \A y \in T \ {z} : x <= y
      BY <1>2, <2>2
    <3> QED BY <3>1
  <2> QED BY <2>1, <2>2
<1>3. S \in P
  <2> HIDE DEF P
  <2> QED BY <1>1, <1>2, FiniteInduction
<1> QED BY <1>3

(* A finite set of numbers that is not empty has a greatest one.           *)
LEMMA FiniteHasGreatest ==
  ASSUME NEW S, IsFiniteSet(S), S \subseteq Int, S # {}
  PROVE  \E x \in S : \A y \in S : x >= y
<1> DEFINE T == {-x : x \in S}
           f == [x \in S |-> -x]
<1>1. f \in Surjection(S, T)
  <2>1. f \in [S -> T] /\ \A t \in T : \E x \in S : f[x] = t
    OBVIOUS
  <2> QED BY <2>1 DEF Surjection
<1>2. IsFiniteSet(T)
  <2> HIDE DEF f, T
  <2> QED BY <1>1, FS_Surjection
<1>3. PICK z \in T : \A y \in T : z <= y
  <2>1. T \subseteq Int
    OBVIOUS
  <2>2. PICK x \in S : TRUE
    OBVIOUS
  <2>3. -x \in T
    OBVIOUS
  <2> HIDE DEF T
  <2> QED BY <1>2, <2>1, <2>3, FiniteHasLeast
<1>4. PICK x \in S : z = -x
  OBVIOUS
<1>5. \A y \in S : x >= y
  BY <1>3, <1>4
<1> QED BY <1>5

-----------------------------------------------------------------------------
(* Induction over an interval.                                             *)
LEMMA IntervalInduction ==
  ASSUME NEW b \in Int, NEW n \in Int, NEW P, b \in P,
         \A i \in b..n : i # b /\ i - 1 \in P => i \in P
  PROVE  b..n \subseteq P
<1> DEFINE Bad == {i \in b..n : i \notin P}
<1> SUFFICES ASSUME Bad # {} PROVE FALSE
  OBVIOUS
<1>1. IsFiniteSet(Bad) /\ Bad \subseteq Int
  <2>1. IsFiniteSet(b..n)
    BY FS_Interval
  <2> QED BY <2>1, FS_Subset
<1>2. PICK m \in Bad : \A i \in Bad : m <= i
  <2> HIDE DEF Bad
  <2> QED BY <1>1, FiniteHasLeast
<1>3. m \in b..n /\ m # b /\ ~(m <= m - 1)
  OBVIOUS
<1>4. m - 1 \in b..n
  BY <1>3
<1>5. m - 1 \notin Bad
  <2> HIDE DEF Bad
  <2> QED BY <1>2, <1>3
<1> QED BY <1>3, <1>4, <1>5

(* g counts on from start, the value at b, and has values in S up to n.    *)
CountsOn(g, b, n, S, start, step) ==
  /\ g \in [b..n -> S]
  /\ \A i \in b..n : g[i] = IF i = b THEN start ELSE step[i][g[i - 1]]

(* A recursion along an interval, whose steps lead from values to values,  *)
(* has a solution.                                                         *)
LEMMA RecursionSolved ==
  ASSUME NEW b \in Int, NEW n \in Int, b <= n, NEW S, NEW start \in S,
         NEW step \in [b..n -> [S -> S]]
  PROVE  \E g : CountsOn(g, b, n, S, start, step)
<1> DEFINE Solves(g, m) == /\ g \in [b..m -> S]
                           /\ \A i \in b..m : g[i] = IF i = b THEN start
                                                     ELSE step[i][g[i - 1]]
           P == {m \in b..n : \E g : Solves(g, m)}
<1>1. b \in P
  <2>1. Solves([i \in b..b |-> start], b)
    OBVIOUS
  <2>2. b \in b..n
    OBVIOUS
  <2> HIDE DEF Solves
  <2> QED BY <2>1, <2>2
<1>2. ASSUME NEW m \in b..n, m # b, m - 1 \in P
      PROVE  m \in P
  <2>1. PICK g : Solves(g, m - 1)
    BY <1>2
  <2>2. m - 1 \in b..(m - 1) /\ step[m] \in [S -> S]
    BY <1>2
  <2> DEFINE h == [i \in b..m |-> IF i = m THEN step[m][g[m - 1]] ELSE g[i]]
  <2>3. g[m - 1] \in S /\ step[m][g[m - 1]] \in S
    BY <2>1, <2>2
  <2>4. \A i \in b..m : i # m => i \in b..(m - 1)
    OBVIOUS
  <2>5. h \in [b..m -> S]
    BY <2>1, <2>3, <2>4
  <2>6. ASSUME NEW i \in b..m
        PROVE  h[i] = IF i = b THEN start ELSE step[i][h[i - 1]]
    <3>1. CASE i = m
      <4>1. i # b /\ h[i] = step[i][g[i - 1]]
        BY <1>2, <3>1
      <4>2. i - 1 \in b..m /\ i - 1 # m
        BY <1>2, <3>1
      <4>3. h[i - 1] = g[i - 1]
        BY <4>2
      <4> QED BY <4>1, <4>3
    <3>2. CASE i # m
      <4>1. i \in b..(m - 1) /\ h[i] = g[i]
        BY <2>4, <3>2
      <4>2. g[i] = IF i = b THEN start ELSE step[i][g[i - 1]]
        BY <2>1, <4>1
      <4>3. i # b => h[i - 1] = g[i - 1]
        <5>1. i # b => i - 1 \in b..m /\ i - 1 # m
          BY <4>1
        <5> QED BY <5>1
      <4> QED BY <4>1, <4>2, <4>3
    <3> QED BY <3>1, <3>2
  <2>7. Solves(h, m)
    <3> HIDE DEF h
    <3> QED BY <2>5, <2>6
  <2> QED BY <2>7
<1>3. n \in P
  <2>1. n \in b..n
    OBVIOUS
  <2> HIDE DEF P
  <2> QED BY <1>1, <1>2, <2>1, IntervalInduction
<1> QED BY <1>3 DEF CountsOn

-----------------------------------------------------------------------------
(* The recursion of a sum, and the solution of it. *)
IsSum(g, f, S) ==
  g = [s \in SUBSET S |-> IF s = {} THEN 0
                          ELSE f[CHOOSE x \in s : TRUE] + g[s \ {CHOOSE x \in s : TRUE}]]

(* The fold is the function that the recursion chooses.                    *)
LEMMA SumIsSolution ==
  ASSUME NEW f, NEW S
  PROVE  SumFunctionOnSet(f, S) = (CHOOSE g : IsSum(g, f, S))[S]
BY DEF SumFunctionOnSet, FoldFunctionOnSet, MapThenFoldSet, IsSum

(* Two solutions agree where both are defined. *)
LEMMA SolutionsAgree ==
  ASSUME NEW f, NEW S, IsFiniteSet(S), NEW T, NEW g, NEW h,
         IsSum(g, f, S), IsSum(h, f, T)
  PROVE  \A s \in SUBSET (S \cap T) : g[s] = h[s]
<1> DEFINE R == S \cap T
           P == {s \in SUBSET R : g[s] = h[s]}
           c(s) == CHOOSE x \in s : TRUE
<1>1. IsFiniteSet(R)
  BY FS_Intersection
<1>2. ASSUME NEW s \in SUBSET R, \A u \in SUBSET s : u # s => u \in P
      PROVE  s \in P
  <2>1. CASE s = {}
    BY <2>1 DEF IsSum
  <2>2. CASE s # {}
    <3>1. c(s) \in s
      BY <2>2
    <3>2. g[s \ {c(s)}] = h[s \ {c(s)}]
      BY <1>2, <3>1
    <3>3. g[s] = f[c(s)] + g[s \ {c(s)}]
      BY <2>2 DEF IsSum
    <3>4. h[s] = f[c(s)] + h[s \ {c(s)}]
      BY <2>2 DEF IsSum
    <3> QED BY <3>2, <3>3, <3>4
  <2> QED BY <2>1, <2>2
<1>3. SUBSET R \subseteq P
  <2> HIDE DEF P, R
  <2> QED BY <1>1, <1>2, SubsetInduction
<1> QED BY <1>3

(* Every finite set has one. *)
LEMMA SolutionExists ==
  ASSUME NEW f, NEW S, IsFiniteSet(S)
  PROVE  \E g : IsSum(g, f, S)
<1> DEFINE P == {T \in SUBSET S : \E g : IsSum(g, f, T)}
           c(s) == CHOOSE x \in s : TRUE
           sol(s) == CHOOSE g : IsSum(g, f, s)
<1>1. ASSUME NEW T \in SUBSET S, \A U \in SUBSET T : U # T => U \in P
      PROVE  T \in P
  <2> DEFINE h == [s \in SUBSET T |-> IF s = {} THEN 0
                                      ELSE f[c(s)] + sol(s \ {c(s)})[s \ {c(s)}]]
  <2>1. \A U \in SUBSET T : U # T => IsSum(sol(U), f, U)
    BY <1>1
  <2>2. ASSUME NEW s \in SUBSET T, s # T PROVE h[s] = sol(s)[s]
    <3>1. CASE s = {}
      <4>1. IsSum(sol(s), f, s)
        BY <2>1, <2>2
      <4>2. sol(s)[{}] = 0
        <5> HIDE DEF sol
        <5> QED BY <4>1 DEF IsSum
      <4> QED BY <3>1, <4>2
    <3>2. CASE s # {}
      <4> DEFINE u == s \ {c(s)}
      <4>1. c(s) \in s
        BY <3>2
      <4>2. u \in SUBSET T /\ u # T /\ u \subseteq s
        BY <4>1
      <4>3. IsSum(sol(u), f, u) /\ IsSum(sol(s), f, s)
        BY <2>1, <2>2, <4>2
      <4>4. IsFiniteSet(u)
        BY <4>2, FS_Subset
      <4>5. sol(u)[u] = sol(s)[u]
        <5> HIDE DEF sol, u
        <5> QED BY <4>2, <4>3, <4>4, SolutionsAgree
      <4>6. sol(s)[s] = f[c(s)] + sol(s)[u]
        <5> HIDE DEF sol
        <5> QED BY <3>2, <4>3 DEF IsSum
      <4>7. h[s] = f[c(s)] + sol(u)[u]
        <5> HIDE DEF sol
        <5> QED BY <3>2
      <4> QED BY <4>5, <4>6, <4>7
    <3> QED BY <3>1, <3>2
  <2>3. ASSUME NEW s \in SUBSET T, s # {}
        PROVE  h[s] = f[c(s)] + h[s \ {c(s)}]
    <3>1. c(s) \in s
      BY <2>3
    <3>2. s \ {c(s)} \in SUBSET T /\ s \ {c(s)} # T
      BY <3>1
    <3>3. h[s \ {c(s)}] = sol(s \ {c(s)})[s \ {c(s)}]
      BY ONLY <3>2, <2>2
    <3>4. h[s] = f[c(s)] + sol(s \ {c(s)})[s \ {c(s)}]
      <4> HIDE DEF sol
      <4> QED BY <2>3
    <3> QED BY <3>3, <3>4
  <2>4. IsSum(h, f, T)
    <3>1. h = [s \in SUBSET T |-> h[s]]
      OBVIOUS
    <3>2. h[{}] = 0
      OBVIOUS
    <3> HIDE DEF h
    <3> QED BY <2>3, <3>1, <3>2 DEF IsSum
  <2> QED BY <2>4
<1>2. S \in P
  <2> HIDE DEF P
  <2> QED BY <1>1, SubsetInduction
<1> QED BY <1>2

-----------------------------------------------------------------------------
(* A sum, taken apart.  f may be defined on more than the set summed over. *)
LEMMA SumEmpty ==
  ASSUME NEW f
  PROVE  SumFunctionOnSet(f, {}) = 0
<1>1. IsFiniteSet({})
  BY FS_EmptySet
<1> DEFINE sol == CHOOSE g : IsSum(g, f, {})
<1>2. IsSum(sol, f, {})
  BY <1>1, SolutionExists
<1> HIDE DEF sol
<1>3. sol[{}] = 0
  BY <1>2 DEF IsSum
<1> QED BY <1>3, SumIsSolution DEF sol

(* The recursion: the sum takes one term off.                              *)
LEMMA SumChosen ==
  ASSUME NEW f, NEW S, IsFiniteSet(S), S # {}
  PROVE  LET x == CHOOSE x \in S : TRUE
         IN  SumFunctionOnSet(f, S) = f[x] + SumFunctionOnSet(f, S \ {x})
<1> DEFINE sol(T) == CHOOSE g : IsSum(g, f, T)
           x == CHOOSE x \in S : TRUE
           R == S \ {x}
<1>1. IsFiniteSet(R) /\ R \in SUBSET (R \cap S)
  BY FS_Subset
<1>2. IsSum(sol(S), f, S) /\ IsSum(sol(R), f, R)
  BY <1>1, SolutionExists
<1> HIDE DEF sol
<1>3. sol(S)[S] = f[x] + sol(S)[R]
  BY <1>2 DEF IsSum
<1>4. sol(R)[R] = sol(S)[R]
  <2> HIDE DEF R
  <2> QED BY <1>1, <1>2, SolutionsAgree
<1>5. SumFunctionOnSet(f, S) = sol(S)[S] /\ SumFunctionOnSet(f, R) = sol(R)[R]
  BY SumIsSolution DEF sol
<1> QED BY <1>3, <1>4, <1>5
(* Sums of integers are integers.                                          *)
LEMMA SumIsInt ==
  ASSUME NEW f, NEW S, IsFiniteSet(S), \A x \in S : f[x] \in Int
  PROVE  SumFunctionOnSet(f, S) \in Int
<1> DEFINE P == {T \in SUBSET S : SumFunctionOnSet(f, T) \in Int}
           c(s) == CHOOSE x \in s : TRUE
<1>1. ASSUME NEW T \in SUBSET S, \A U \in SUBSET T : U # T => U \in P
      PROVE  T \in P
  <2>1. CASE T = {}
    BY <2>1, SumEmpty
  <2>2. CASE T # {}
    <3>1. c(T) \in T /\ IsFiniteSet(T)
      BY <2>2, FS_Subset
    <3>2. SumFunctionOnSet(f, T \ {c(T)}) \in Int
      BY <1>1, <3>1
    <3>3. SumFunctionOnSet(f, T) = f[c(T)] + SumFunctionOnSet(f, T \ {c(T)})
      BY <2>2, <3>1, SumChosen
    <3> QED BY <3>1, <3>2, <3>3
  <2> QED BY <2>1, <2>2
<1>2. S \in P
  <2> HIDE DEF P
  <2> QED BY <1>1, SubsetInduction
<1> QED BY <1>2

(* Whichever element is taken out. *)
LEMMA SumWithout ==
  ASSUME NEW f, NEW S, IsFiniteSet(S), \A x \in S : f[x] \in Int, NEW e \in S
  PROVE  SumFunctionOnSet(f, S) = f[e] + SumFunctionOnSet(f, S \ {e})
<1> DEFINE Sum(T) == SumFunctionOnSet(f, T)
           P == {T \in SUBSET S : \A x \in T : Sum(T) = f[x] + Sum(T \ {x})}
           c(s) == CHOOSE x \in s : TRUE
<1>0. \A T \in SUBSET S : Sum(T) \in Int
  BY FS_Subset, SumIsInt
<1>1. \A T \in SUBSET S : T # {} => c(T) \in T /\ Sum(T) = f[c(T)] + Sum(T \ {c(T)})
  BY FS_Subset, SumChosen
<1> HIDE DEF Sum, c
<1>2. ASSUME NEW T \in SUBSET S, \A U \in SUBSET T : U # T => U \in P
      PROVE  T \in P
  <2> SUFFICES ASSUME NEW x \in T PROVE Sum(T) = f[x] + Sum(T \ {x})
    OBVIOUS
  <2>1. c(T) \in T /\ Sum(T) = f[c(T)] + Sum(T \ {c(T)})
    BY <1>1
  <2>2. CASE x = c(T)
    BY <2>1, <2>2
  <2>3. CASE x # c(T)
    <3> DEFINE R == T \ {x, c(T)}
    <3>1. T \ {c(T)} \in P /\ T \ {x} \in P
      BY <1>2, <2>1
    <3>2. Sum(T \ {c(T)}) = f[x] + Sum(R)
      <4>1. x \in T \ {c(T)} /\ R = (T \ {c(T)}) \ {x}
        BY <2>3
      <4> HIDE DEF R
      <4> QED BY <3>1, <4>1
    <3>3. Sum(T \ {x}) = f[c(T)] + Sum(R)
      <4>1. c(T) \in T \ {x} /\ R = (T \ {x}) \ {c(T)}
        BY <2>1, <2>3
      <4> HIDE DEF R
      <4> QED BY <3>1, <4>1
    <3>4. Sum(R) \in Int /\ f[x] \in Int /\ f[c(T)] \in Int
      BY <1>0, <2>1
    <3> QED BY <2>1, <3>2, <3>3, <3>4
  <2> QED BY <2>2, <2>3
<1>3. S \in P
  <2> HIDE DEF P
  <2> QED BY <1>2, SubsetInduction
<1> QED BY <1>3 DEF Sum

-----------------------------------------------------------------------------
(* Sums compared. *)
LEMMA SumMonotone ==
  ASSUME NEW f, NEW g, NEW S, IsFiniteSet(S),
         \A x \in S : f[x] \in Int /\ g[x] \in Int /\ f[x] <= g[x]
  PROVE  SumFunctionOnSet(f, S) <= SumFunctionOnSet(g, S)
<1> DEFINE F(T) == SumFunctionOnSet(f, T)
           G(T) == SumFunctionOnSet(g, T)
           P == {T \in SUBSET S : F(T) <= G(T)}
<1>1. {} \in P
  BY SumEmpty
<1>2. ASSUME NEW T \in SUBSET S, NEW x \in T, T \ {x} \in P
      PROVE  T \in P
  <2>1. IsFiniteSet(T) /\ IsFiniteSet(T \ {x})
    BY FS_Subset
  <2>2. F(T) = f[x] + F(T \ {x}) /\ G(T) = g[x] + G(T \ {x})
    BY <2>1, SumWithout
  <2>3. F(T \ {x}) \in Int /\ G(T \ {x}) \in Int
    BY <2>1, SumIsInt
  <2>4. F(T \ {x}) <= G(T \ {x})
    BY <1>2
  <2>5. f[x] \in Int /\ g[x] \in Int /\ f[x] <= g[x]
    OBVIOUS
  <2> HIDE DEF F, G
  <2> QED BY <2>2, <2>3, <2>4, <2>5
<1>3. S \in P
  <2> HIDE DEF P
  <2> QED BY <1>1, <1>2, FiniteInduction
<1> QED BY <1>3

(* The sum depends only on the terms.                                      *)
LEMMA SumAgrees ==
  ASSUME NEW f, NEW g, NEW S, IsFiniteSet(S),
         \A x \in S : f[x] \in Int /\ g[x] = f[x]
  PROVE  SumFunctionOnSet(f, S) = SumFunctionOnSet(g, S)
<1>1. SumFunctionOnSet(f, S) <= SumFunctionOnSet(g, S)
  BY SumMonotone
<1>2. SumFunctionOnSet(g, S) <= SumFunctionOnSet(f, S)
  BY SumMonotone
<1>3. SumFunctionOnSet(f, S) \in Int /\ SumFunctionOnSet(g, S) \in Int
  BY SumIsInt
<1> QED BY <1>1, <1>2, <1>3

(* Sums of two disjoint parts. *)
LEMMA SumOfParts ==
  ASSUME NEW f, NEW S, IsFiniteSet(S), \A x \in S : f[x] \in Int,
         NEW A \in SUBSET S
  PROVE  SumFunctionOnSet(f, S) = SumFunctionOnSet(f, A) + SumFunctionOnSet(f, S \ A)
<1> DEFINE F(T) == SumFunctionOnSet(f, T)
           P == {T \in SUBSET S : F(T) = F(T \cap A) + F(T \ A)}
<1>1. {} \in P
  <2>1. {} \cap A = {} /\ {} \ A = {}
    OBVIOUS
  <2> QED BY <2>1, SumEmpty
<1>2. ASSUME NEW T \in SUBSET S, NEW x \in T, T \ {x} \in P
      PROVE  T \in P
  <2> DEFINE R == T \ {x}
  <2>1. IsFiniteSet(T) /\ IsFiniteSet(R \cap A) /\ IsFiniteSet(R \ A)
          /\ IsFiniteSet(T \cap A) /\ IsFiniteSet(T \ A)
    BY FS_Subset
  <2>2. F(T) = f[x] + F(R)
    BY <2>1, SumWithout
  <2>3. F(R) = F(R \cap A) + F(R \ A)
    BY <1>2
  <2>4. F(R \cap A) \in Int /\ F(R \ A) \in Int /\ f[x] \in Int
    BY <2>1, SumIsInt
  <2>5. CASE x \in A
    <3>1. T \ A = R \ A /\ x \in T \cap A /\ (T \cap A) \ {x} = R \cap A
      BY <2>5
    <3>2. F(T \cap A) = f[x] + F((T \cap A) \ {x})
      <4> DEFINE U == T \cap A
      <4>1. IsFiniteSet(U) /\ x \in U /\ \A y \in U : f[y] \in Int
        BY <2>1, <3>1
      <4>2. F(U) = f[x] + F(U \ {x})
        <5> HIDE DEF U
        <5> QED BY <4>1, SumWithout
      <4> QED BY <4>2
    <3>3. F(T \cap A) = f[x] + F(R \cap A) /\ F(T \ A) = F(R \ A)
      <4> HIDE DEF F, R
      <4> QED BY ONLY <3>1, <3>2, Zenon
    <3>4. F(T) = F(T \cap A) + F(T \ A)
      <4> HIDE DEF F, R
      <4> QED BY ONLY <2>2, <2>3, <2>4, <3>3
    <3> QED BY <3>4
  <2>6. CASE x \notin A
    <3>1. T \cap A = R \cap A /\ x \in T \ A /\ (T \ A) \ {x} = R \ A
      BY <2>6
    <3>2. F(T \ A) = f[x] + F((T \ A) \ {x})
      <4> DEFINE U == T \ A
      <4>1. IsFiniteSet(U) /\ x \in U /\ \A y \in U : f[y] \in Int
        BY <2>1, <3>1
      <4>2. F(U) = f[x] + F(U \ {x})
        <5> HIDE DEF U
        <5> QED BY <4>1, SumWithout
      <4> QED BY <4>2
    <3>3. F(T \ A) = f[x] + F(R \ A) /\ F(T \cap A) = F(R \cap A)
      <4> HIDE DEF F, R
      <4> QED BY ONLY <3>1, <3>2, Zenon
    <3>4. F(T) = F(T \cap A) + F(T \ A)
      <4> HIDE DEF F, R
      <4> QED BY ONLY <2>2, <2>3, <2>4, <3>3
    <3> QED BY <3>4
  <2> QED BY <2>5, <2>6
<1>3. S \in P
  <2> HIDE DEF P
  <2> QED BY <1>1, <1>2, FiniteInduction
<1>4. S \cap A = A
  OBVIOUS
<1> QED BY <1>3, <1>4

(* The sum of what is nowhere negative. *)
LEMMA SumIsNat ==
  ASSUME NEW f, NEW S, IsFiniteSet(S), \A x \in S : f[x] \in Nat
  PROVE  SumFunctionOnSet(f, S) \in Nat
<1> DEFINE P == {T \in SUBSET S : SumFunctionOnSet(f, T) \in Nat}
<1>1. {} \in P
  BY SumEmpty
<1>2. ASSUME NEW T \in SUBSET S, NEW x \in T, T \ {x} \in P
      PROVE  T \in P
  <2>1. SumFunctionOnSet(f, T) = f[x] + SumFunctionOnSet(f, T \ {x})
    BY FS_Subset, SumWithout
  <2> QED BY <1>2, <2>1
<1>3. S \in P
  <2> HIDE DEF P
  <2> QED BY <1>1, <1>2, FiniteInduction
<1> QED BY <1>3

(* A part of it is not more than the whole, nor is any of its terms. *)
LEMMA SumOfPart ==
  ASSUME NEW f, NEW S, IsFiniteSet(S), \A x \in S : f[x] \in Nat, NEW A \in SUBSET S
  PROVE  /\ SumFunctionOnSet(f, A) \in Nat
         /\ SumFunctionOnSet(f, A) <= SumFunctionOnSet(f, S)
<1>1. IsFiniteSet(A) /\ IsFiniteSet(S \ A)
  BY FS_Subset
<1>2. SumFunctionOnSet(f, A) \in Nat /\ SumFunctionOnSet(f, S \ A) \in Nat
  BY <1>1, SumIsNat
<1>3. SumFunctionOnSet(f, S) = SumFunctionOnSet(f, A) + SumFunctionOnSet(f, S \ A)
  BY SumOfParts
<1> QED BY <1>2, <1>3

(* No term exceeds a sum of naturals.                                      *)
LEMMA SumOfTerm ==
  ASSUME NEW f, NEW S, IsFiniteSet(S), \A x \in S : f[x] \in Nat, NEW e \in S
  PROVE  f[e] <= SumFunctionOnSet(f, S)
<1>1. SumFunctionOnSet(f, S) = f[e] + SumFunctionOnSet(f, S \ {e})
  BY SumWithout
<1>2. SumFunctionOnSet(f, S \ {e}) \in Nat
  BY SumOfPart
<1> QED BY <1>1, <1>2

(* A sum of zeros is zero.                                                 *)
LEMMA SumOfZeros ==
  ASSUME NEW f, NEW S, IsFiniteSet(S), \A x \in S : f[x] = 0
  PROVE  SumFunctionOnSet(f, S) = 0
<1> DEFINE P == {T \in SUBSET S : SumFunctionOnSet(f, T) = 0}
<1>1. {} \in P
  BY SumEmpty
<1>2. ASSUME NEW T \in SUBSET S, NEW x \in T, T \ {x} \in P
      PROVE  T \in P
  <2>1. SumFunctionOnSet(f, T) = f[x] + SumFunctionOnSet(f, T \ {x})
    BY FS_Subset, SumWithout
  <2> QED BY <1>2, <2>1
<1>3. S \in P
  <2> HIDE DEF P
  <2> QED BY <1>1, <1>2, FiniteInduction
<1> QED BY <1>3
(* Sums of functions that differ at one place. *)
LEMMA SumChanged ==
  ASSUME NEW f, NEW g, NEW S, IsFiniteSet(S), NEW e \in S,
         \A x \in S : f[x] \in Int /\ g[x] \in Int,
         \A x \in S \ {e} : g[x] = f[x]
  PROVE  SumFunctionOnSet(g, S) = SumFunctionOnSet(f, S) - f[e] + g[e]
<1>1. IsFiniteSet(S \ {e})
  BY FS_Subset
<1>2. SumFunctionOnSet(f, S) = f[e] + SumFunctionOnSet(f, S \ {e})
  BY SumWithout
<1>3. SumFunctionOnSet(g, S) = g[e] + SumFunctionOnSet(g, S \ {e})
  BY SumWithout
<1>4. SumFunctionOnSet(f, S \ {e}) = SumFunctionOnSet(g, S \ {e})
  BY <1>1, SumAgrees
<1>5. SumFunctionOnSet(f, S \ {e}) \in Int
  BY <1>1, SumIsInt
<1> QED BY <1>2, <1>3, <1>4, <1>5

(* The sum of two functions. *)
LEMMA SumOfBoth ==
  ASSUME NEW f, NEW g, NEW h, NEW S, IsFiniteSet(S),
         \A x \in S : f[x] \in Int /\ g[x] \in Int /\ h[x] = f[x] + g[x]
  PROVE  SumFunctionOnSet(h, S) = SumFunctionOnSet(f, S) + SumFunctionOnSet(g, S)
<1> DEFINE F(T) == SumFunctionOnSet(f, T)
           G(T) == SumFunctionOnSet(g, T)
           H(T) == SumFunctionOnSet(h, T)
           P == {T \in SUBSET S : H(T) = F(T) + G(T)}
<1>1. {} \in P
  BY SumEmpty
<1>2. ASSUME NEW T \in SUBSET S, NEW e \in T, T \ {e} \in P
      PROVE  T \in P
  <2> DEFINE R == T \ {e}
  <2>1. IsFiniteSet(T) /\ IsFiniteSet(R)
    BY FS_Subset
  <2>2. F(T) = f[e] + F(R) /\ G(T) = g[e] + G(R) /\ H(T) = h[e] + H(R)
    BY <2>1, SumWithout
  <2>3. F(R) \in Int /\ G(R) \in Int
    BY <2>1, SumIsInt
  <2>4. H(R) = F(R) + G(R)
    BY <1>2
  <2>5. f[e] \in Int /\ g[e] \in Int /\ h[e] = f[e] + g[e]
    OBVIOUS
  <2>6. H(T) = F(T) + G(T)
    <3> HIDE DEF F, G, H, R
    <3> QED BY ONLY <2>2, <2>3, <2>4, <2>5
  <2> QED BY <2>6
<1>3. S \in P
  <2> HIDE DEF P
  <2> QED BY <1>1, <1>2, FiniteInduction
<1> QED BY <1>3

(* Terms that are at most k where they count, and else not above zero. *)
LEMMA SumIsBounded ==
  ASSUME NEW f, NEW S, IsFiniteSet(S), NEW A \in SUBSET S, NEW k \in Nat,
         \A x \in S : f[x] \in Int /\ f[x] <= (IF x \in A THEN k ELSE 0)
  PROVE  /\ Cardinality(A) \in Nat
         /\ SumFunctionOnSet(f, S) <= k * Cardinality(A)
<1> DEFINE F(T) == SumFunctionOnSet(f, T)
           n(T) == Cardinality(T \cap A)
           P == {T \in SUBSET S : F(T) <= k * n(T)}
<1>1. {} \in P
  <2>1. {} \cap A = {}
    OBVIOUS
  <2>2. n({}) = 0 /\ F({}) = 0
    BY <2>1, FS_EmptySet, SumEmpty
  <2> QED BY <2>2
<1>2. ASSUME NEW T \in SUBSET S, NEW e \in T, T \ {e} \in P
      PROVE  T \in P
  <2> DEFINE R == T \ {e}
  <2>1. IsFiniteSet(T) /\ IsFiniteSet(R) /\ IsFiniteSet(T \cap A) /\ IsFiniteSet(R \cap A)
    BY FS_Subset
  <2>2. F(T) = f[e] + F(R)
    BY <2>1, SumWithout
  <2>3. F(R) \in Int /\ n(R) \in Nat /\ n(T) \in Nat
    BY <2>1, SumIsInt, FS_CardinalityType
  <2>4. F(R) <= k * n(R)
    BY <1>2
  <2>5. f[e] \in Int /\ f[e] <= (IF e \in A THEN k ELSE 0)
    OBVIOUS
  <2>6. n(T) = IF e \in A THEN n(R) + 1 ELSE n(R)
    <3>1. R \cap A = (T \cap A) \ {e}
      OBVIOUS
    <3> HIDE DEF R
    <3>2. Cardinality((T \cap A) \ {e})
            = IF e \in T \cap A THEN Cardinality(T \cap A) - 1 ELSE Cardinality(T \cap A)
      BY <2>1, FS_RemoveElement
    <3> QED BY <2>3, <3>1, <3>2
  <2>7. F(T) <= k * n(T)
    <3> HIDE DEF F, n, R
    <3>1. CASE e \in A
      <4>1. k * n(T) = k * n(R) + k /\ k * n(R) \in Int
        BY ONLY <2>3, <2>6, <3>1, k \in Nat
      <4> QED BY ONLY <2>2, <2>3, <2>4, <2>5, <3>1, <4>1, k \in Nat
    <3>2. CASE e \notin A
      <4>1. k * n(T) = k * n(R) /\ k * n(R) \in Int
        BY ONLY <2>3, <2>6, <3>2, k \in Nat
      <4> QED BY ONLY <2>2, <2>3, <2>4, <2>5, <3>2, <4>1, k \in Nat
    <3> QED BY <3>1, <3>2
  <2> QED BY <2>7
<1>3. S \in P
  <2> HIDE DEF P
  <2> QED BY <1>1, <1>2, FiniteInduction
<1>4. S \cap A = A /\ IsFiniteSet(A)
  BY FS_Subset
<1> QED BY <1>3, <1>4, FS_CardinalityType

(* Terms that count only in A. *)
LEMMA SumOfMasked ==
  ASSUME NEW f, NEW S, IsFiniteSet(S), NEW A \in SUBSET S, \A x \in A : f[x] \in Int
  PROVE  SumFunctionOnSet([x \in S |-> IF x \in A THEN f[x] ELSE 0], S)
           = SumFunctionOnSet(f, A)
<1> DEFINE m == [x \in S |-> IF x \in A THEN f[x] ELSE 0]
<1>1. IsFiniteSet(A) /\ IsFiniteSet(S \ A)
  BY FS_Subset
<1>2. /\ \A x \in S : m[x] \in Int
      /\ \A x \in A : f[x] \in Int /\ m[x] = f[x]
      /\ \A x \in S \ A : m[x] = 0
  OBVIOUS
<1> HIDE DEF m
<1>3. SumFunctionOnSet(m, S) = SumFunctionOnSet(m, A) + SumFunctionOnSet(m, S \ A)
  BY <1>2, SumOfParts
<1>4. SumFunctionOnSet(f, A) = SumFunctionOnSet(m, A) /\ SumFunctionOnSet(f, A) \in Int
  BY <1>1, <1>2, SumAgrees, SumIsInt
<1>5. SumFunctionOnSet(m, S \ A) = 0
  BY <1>1, <1>2, SumOfZeros
<1> QED BY <1>3, <1>4, <1>5 DEF m

(* A factor that all terms have. *)
LEMMA SumOfMultiples ==
  ASSUME NEW f, NEW g, NEW S, IsFiniteSet(S), NEW k \in Int,
         \A x \in S : f[x] \in Int /\ g[x] = k * f[x]
  PROVE  SumFunctionOnSet(g, S) = k * SumFunctionOnSet(f, S)
<1> DEFINE F(T) == SumFunctionOnSet(f, T)
           G(T) == SumFunctionOnSet(g, T)
           P == {T \in SUBSET S : G(T) = k * F(T)}
<1>1. {} \in P
  BY SumEmpty
<1>2. ASSUME NEW T \in SUBSET S, NEW e \in T, T \ {e} \in P
      PROVE  T \in P
  <2> DEFINE R == T \ {e}
  <2>1. IsFiniteSet(T) /\ IsFiniteSet(R)
    BY FS_Subset
  <2>2. f[e] \in Int /\ g[e] = k * f[e] /\ \A x \in S : g[x] \in Int
    OBVIOUS
  <2>3. F(T) = f[e] + F(R) /\ G(T) = g[e] + G(R)
    BY <2>1, <2>2, SumWithout
  <2>4. F(R) \in Int /\ G(R) = k * F(R)
    BY <1>2, <2>1, SumIsInt
  <2> HIDE DEF F, G, R
  <2>5. k * (f[e] + F(R)) = k * f[e] + k * F(R)
    BY ONLY <2>2, <2>4, k \in Int
  <2>6. G(T) = k * F(T)
    BY <2>2, <2>3, <2>4, <2>5
  <2> QED BY <2>6 DEF F, G
<1>3. S \in P
  <2> HIDE DEF P
  <2> QED BY <1>1, <1>2, FiniteInduction
<1> QED BY <1>3
=============================================================================
