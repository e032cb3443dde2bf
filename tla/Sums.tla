-------------------------------- MODULE Sums --------------------------------
(***************************************************************************)
(* Facts about the sums of the community modules, for the proofs about the *)
(* modules that add up: SumFunctionOnSet(f, S) is the sum of f[x] over the *)
(* members x of a finite set S.                                            *)
(*                                                                         *)
(* The sum is a recursive function on the subsets of S.  That it is well   *)
(* defined, and what it computes, is shown by taking a smallest subset for *)
(* which it were not so.                                                   *)
(***************************************************************************)
EXTENDS Integers, Functions, FiniteSetTheorems, WellFoundedInduction, TLAPS

(* The recursion behind the sum, with its body as an operator. *)
Pick(s) == CHOOSE x \in s : TRUE
Body(f, S, g) ==
  [s \in SUBSET S |-> IF s = {} THEN 0 ELSE f[Pick(s)] + g[s \ {Pick(s)}]]
Iter(f, S) == CHOOSE g : g = Body(f, S, g)

(* What holds of a finite set when it holds of all its proper subsets      *)
(* holds of every subset.                                                  *)
LEMMA SetInduction ==
  ASSUME NEW S, IsFiniteSet(S), NEW Good,
         \A s \in SUBSET S :
           (\A t \in SUBSET s : t # s => t \in Good) => s \in Good
  PROVE  \A s \in SUBSET S : s \in Good
<1> DEFINE Bad == {s \in SUBSET S : s \notin Good}
<1> SUFFICES ASSUME Bad # {} PROVE FALSE
  OBVIOUS
<1>1. IsWellFoundedOn(StrictSubsetOrdering(S), SUBSET S)
  <2>1. FiniteSubsetsOf(S) = SUBSET S
    BY FS_FiniteSubsetsOfFinite, Zenon
  <2>2. IsWellFoundedOn(StrictSubsetOrdering(S), FiniteSubsetsOf(S))
    BY FS_StrictSubsetOrderingWellFounded, Zenon
  <2> QED BY <2>1, <2>2, Zenon
<1>2. \E s \in Bad : \A t \in Bad : ~(<<t, s>> \in StrictSubsetOrdering(S))
  <2>1. Bad \subseteq SUBSET S
    OBVIOUS
  <2> HIDE DEF Bad
  <2> DEFINE R == StrictSubsetOrdering(S)
  <2>2. IsWellFoundedOn(R, SUBSET S)
    BY <1>1
  <2> HIDE DEF R
  <2>3. \E s \in Bad : \A t \in Bad : ~(<<t, s>> \in R)
    BY <2>1, <2>2, WFMin
  <2> QED BY <2>3 DEF R
<1>4. PICK s \in Bad : \A t \in Bad : ~(<<t, s>> \in StrictSubsetOrdering(S))
  BY <1>2
<1>3. ASSUME NEW t \in SUBSET s, t # s PROVE t \in Good
  BY <1>4, <1>3 DEF StrictSubsetOrdering
<1> QED BY <1>4, <1>3

LEMMA PickIn == ASSUME NEW s, s # {} PROVE Pick(s) \in s
BY DEF Pick

(* Two solutions of the recursion agree where both are defined. *)
LEMMA OneSolution ==
  ASSUME NEW f, NEW S, NEW T \in SUBSET S, IsFiniteSet(T), NEW g, NEW h,
         g = Body(f, S, g), h = Body(f, T, h)
  PROVE  \A s \in SUBSET T : g[s] = h[s]
<1> DEFINE Good == {s \in SUBSET T : g[s] = h[s]}
<1>1. ASSUME NEW s \in SUBSET T,
             \A t \in SUBSET s : t # s => t \in Good
      PROVE  s \in Good
  <2>1. CASE s = {}
    BY <2>1 DEF Body
  <2>2. CASE s # {}
    <3>1. s \ {Pick(s)} \in SUBSET s /\ s \ {Pick(s)} # s
      BY <2>2, PickIn
    <3>2. g[s \ {Pick(s)}] = h[s \ {Pick(s)}]
      BY <1>1, <3>1
    <3> QED BY <2>2, <3>2 DEF Body
  <2> QED BY <2>1, <2>2
<1> HIDE DEF Good
<1>2. \A s \in SUBSET T : s \in Good
  BY <1>1, SetInduction
<1> QED BY <1>2 DEF Good

(* The recursion has a solution on every finite set. *)
LEMMA IterIs ==
  ASSUME NEW f, NEW S, IsFiniteSet(S)
  PROVE  Iter(f, S) = Body(f, S, Iter(f, S))
<1> DEFINE Good == {s \in SUBSET S : Iter(f, s) = Body(f, s, Iter(f, s))}
<1>1. ASSUME NEW s \in SUBSET S,
             \A t \in SUBSET s : t # s => t \in Good
      PROVE  s \in Good
  <2> DEFINE g == [t \in SUBSET s |->
                     IF t = {} THEN 0
                     ELSE f[Pick(t)] + Iter(f, t \ {Pick(t)})[t \ {Pick(t)}]]
  <2>1. ASSUME NEW t \in SUBSET s, t # s
        PROVE  g[t] = Iter(f, t)[t]
    <3>1. Iter(f, t) = Body(f, t, Iter(f, t))
      BY <1>1, <2>1
    <3>2. CASE t = {}
      BY <3>1, <3>2 DEF Body
    <3>3. CASE t # {}
      <4> DEFINE r == t \ {Pick(t)}
      <4>1. r \in SUBSET t /\ r # t /\ r \in SUBSET s /\ r # s
        BY <3>3, PickIn
      <4>2. Iter(f, r) = Body(f, r, Iter(f, r))
        BY <1>1, <4>1
      <4>3. IsFiniteSet(r)
        BY <4>1, FS_Subset
      <4>4. \A q \in SUBSET r : Iter(f, t)[q] = Iter(f, r)[q]
        BY <3>1, <4>1, <4>2, <4>3, OneSolution
      <4>5. Iter(f, t)[t] = f[Pick(t)] + Iter(f, t)[r]
        BY <3>1, <3>3 DEF Body
      <4>6. g[t] = f[Pick(t)] + Iter(f, r)[r]
        BY <3>3
      <4> QED BY <4>4, <4>5, <4>6
    <3> QED BY <3>2, <3>3
  <2>2. ASSUME NEW t \in SUBSET s, t # {}
        PROVE  g[t] = f[Pick(t)] + g[t \ {Pick(t)}]
    <3>1. t \ {Pick(t)} \in SUBSET s /\ t \ {Pick(t)} # s
      BY <2>2, PickIn
    <3>2. g[t \ {Pick(t)}] = Iter(f, t \ {Pick(t)})[t \ {Pick(t)}]
      BY <2>1, <3>1
    <3>3. g[t] = f[Pick(t)] + Iter(f, t \ {Pick(t)})[t \ {Pick(t)}]
      BY <2>2
    <3> QED BY <3>2, <3>3
  <2>3. {} \in SUBSET s => g[{}] = 0
    OBVIOUS
  <2>4. g = [t \in SUBSET s |-> g[t]]
    OBVIOUS
  <2> HIDE DEF g
  <2>5. g = Body(f, s, g)
    BY <2>2, <2>3, <2>4 DEF Body
  <2>6. Iter(f, s) = Body(f, s, Iter(f, s))
    BY <2>5 DEF Iter
  <2> QED BY <2>6
<1> HIDE DEF Good
<1>2. \A s \in SUBSET S : s \in Good
  BY <1>1, SetInduction
<1> QED BY <1>2 DEF Good

LEMMA SumIsIter ==
  ASSUME NEW f, NEW S PROVE SumFunctionOnSet(f, S) = Iter(f, S)[S]
BY DEF SumFunctionOnSet, FoldFunctionOnSet, MapThenFoldSet, Iter, Body, Pick

(* A sum over nothing is zero. *)
LEMMA SumEmpty == ASSUME NEW f PROVE SumFunctionOnSet(f, {}) = 0
<1>1. IsFiniteSet({})
  BY FS_EmptySet
<1>2. Iter(f, {}) = Body(f, {}, Iter(f, {}))
  BY <1>1, IterIs, Zenon
<1>3. Iter(f, {})[{}] = 0
  BY <1>2 DEF Body
<1> QED BY <1>3, SumIsIter

(* Another sum is that of the rest and the picked member. *)
LEMMA SumPick ==
  ASSUME NEW f, NEW S, IsFiniteSet(S), S # {}
  PROVE  SumFunctionOnSet(f, S) = f[Pick(S)] + SumFunctionOnSet(f, S \ {Pick(S)})
<1> DEFINE R == S \ {Pick(S)}
<1>1. IsFiniteSet(R) /\ R \in SUBSET S
  BY FS_Subset
<1>2. Iter(f, S) = Body(f, S, Iter(f, S)) /\ Iter(f, R) = Body(f, R, Iter(f, R))
  BY <1>1, IterIs
<1>3. Iter(f, S)[R] = Iter(f, R)[R]
  BY <1>1, <1>2, OneSolution
<1>4. Iter(f, S)[S] = f[Pick(S)] + Iter(f, S)[R]
  BY <1>2 DEF Body
<1> QED BY <1>3, <1>4, SumIsIter

(* What holds of a finite set by taking one member away at a time. *)
LEMMA SumStep ==
  ASSUME NEW S, IsFiniteSet(S), NEW f \in [S -> Int]
  PROVE  \A T \in SUBSET S :
           /\ SumFunctionOnSet(f, T) \in Int
           /\ \A x \in T : SumFunctionOnSet(f, T) =
                             f[x] + SumFunctionOnSet(f, T \ {x})
<1> DEFINE Sum(T) == SumFunctionOnSet(f, T)
           Whole(T) == Sum(T) \in Int
           Any(T) == \A x \in T : Sum(T) = f[x] + Sum(T \ {x})
           Good == {T \in SUBSET S : Whole(T) /\ Any(T)}
<1>1. Sum({}) = 0
  BY SumEmpty
<1>2. ASSUME NEW T \in SUBSET S, T # {}
      PROVE  /\ Pick(T) \in T /\ f[Pick(T)] \in Int
             /\ Sum(T) = f[Pick(T)] + Sum(T \ {Pick(T)})
  <2>1. Pick(T) \in T
    BY <1>2, PickIn
  <2>2. IsFiniteSet(T)
    BY FS_Subset
  <2>3. Sum(T) = f[Pick(T)] + Sum(T \ {Pick(T)})
    BY <1>2, <2>2, SumPick
  <2> QED BY <2>1, <2>3
<1> HIDE DEF Sum
<1>3. ASSUME NEW T \in SUBSET S,
             \A R \in SUBSET T : R # T => R \in Good
      PROVE  T \in Good
  <2>1. CASE T = {}
    BY <1>1, <2>1
  <2>2. CASE T # {}
    <3> DEFINE y == Pick(T)
    <3>1. y \in T /\ f[y] \in Int /\ Sum(T) = f[y] + Sum(T \ {y})
      BY <1>2, <2>2
    <3> HIDE DEF y
    <3>2. ASSUME NEW R \in SUBSET T, R # T PROVE Whole(R) /\ Any(R)
      BY <1>3, <3>2
    <3>3. T \ {y} \in SUBSET T /\ T \ {y} # T
      BY <3>1
    <3>4. Whole(T)
      BY <3>1, <3>2, <3>3
    <3>5. ASSUME NEW x \in T, x # y PROVE Sum(T) = f[x] + Sum(T \ {x})
      <4> DEFINE R == (T \ {y}) \ {x}
      <4>1. x \in T \ {y} /\ y \in T \ {x} /\ (T \ {x}) \ {y} = R
        BY <3>1, <3>5
      <4>2. T \ {x} \in SUBSET T /\ T \ {x} # T /\ R \in SUBSET T /\ R # T
        BY <3>1
      <4>3. Sum(T \ {y}) = f[x] + Sum(R)
        BY <3>2, <3>3, <4>1
      <4>4. Sum(T \ {x}) = f[y] + Sum(R)
        BY <3>2, <4>1, <4>2
      <4>5. Sum(R) \in Int
        BY <3>2, <4>2
      <4>6. f[x] \in Int
        BY <3>5
      <4> QED BY <3>1, <4>3, <4>4, <4>5, <4>6
    <3>6. Any(T)
      BY <3>1, <3>5
    <3> QED BY <3>4, <3>6
  <2> QED BY <2>1, <2>2
<1> HIDE DEF Good
<1>4. \A T \in SUBSET S : T \in Good
  BY <1>3, SetInduction
<1> QED BY <1>4 DEF Good, Sum

(* A sum of whole numbers is one. *)
LEMMA SumType ==
  ASSUME NEW S, IsFiniteSet(S), NEW f \in [S -> Int]
  PROVE  SumFunctionOnSet(f, S) \in Int
BY SumStep

(* Any member may be taken out of a sum. *)
LEMMA SumRemove ==
  ASSUME NEW S, IsFiniteSet(S), NEW f \in [S -> Int], NEW x \in S
  PROVE  /\ SumFunctionOnSet(f, S) = f[x] + SumFunctionOnSet(f, S \ {x})
         /\ SumFunctionOnSet(f, S \ {x}) \in Int
BY SumStep

(* A sum looks at its function nowhere else. *)
LEMMA SumSame ==
  ASSUME NEW S, IsFiniteSet(S), NEW f, NEW g, \A x \in S : f[x] = g[x]
  PROVE  SumFunctionOnSet(f, S) = SumFunctionOnSet(g, S)
<1> DEFINE Good == {T \in SUBSET S : SumFunctionOnSet(f, T) = SumFunctionOnSet(g, T)}
<1>1. ASSUME NEW T \in SUBSET S,
             \A R \in SUBSET T : R # T => R \in Good
      PROVE  T \in Good
  <2>1. CASE T = {}
    BY <2>1, SumEmpty
  <2>2. CASE T # {}
    <3> DEFINE y == Pick(T)
    <3>1. y \in T
      BY <2>2, PickIn
    <3>2. IsFiniteSet(T)
      BY FS_Subset
    <3>3. /\ SumFunctionOnSet(f, T) = f[y] + SumFunctionOnSet(f, T \ {y})
          /\ SumFunctionOnSet(g, T) = g[y] + SumFunctionOnSet(g, T \ {y})
      BY <2>2, <3>2, SumPick
    <3> HIDE DEF y
    <3>4. T \ {y} \in SUBSET T /\ T \ {y} # T
      BY <3>1
    <3>5. SumFunctionOnSet(f, T \ {y}) = SumFunctionOnSet(g, T \ {y})
      BY <1>1, <3>4
    <3>6. f[y] = g[y]
      BY <3>1
    <3>7. SumFunctionOnSet(f, T) = SumFunctionOnSet(g, T)
      BY <3>3, <3>5, <3>6
    <3> QED BY <3>7
  <2> QED BY <2>1, <2>2
<1> HIDE DEF Good
<1>2. \A T \in SUBSET S : T \in Good
  BY <1>1, SetInduction
<1> QED BY <1>2 DEF Good

(* A new member adds its number. *)
LEMMA SumAdd ==
  ASSUME NEW S, IsFiniteSet(S), NEW x, x \notin S, NEW f \in [S \cup {x} -> Int]
  PROVE  SumFunctionOnSet(f, S \cup {x}) = f[x] + SumFunctionOnSet(f, S)
<1>1. IsFiniteSet(S \cup {x})
  BY FS_AddElement
<1>2. (S \cup {x}) \ {x} = S /\ x \in S \cup {x}
  OBVIOUS
<1> QED BY <1>1, <1>2, SumRemove

(* When the number of one member changes, the sum changes by as much. *)
LEMMA SumUpdate ==
  ASSUME NEW S, IsFiniteSet(S), NEW f \in [S -> Int], NEW g \in [S -> Int],
         NEW x \in S, \A y \in S \ {x} : f[y] = g[y]
  PROVE  SumFunctionOnSet(g, S) = SumFunctionOnSet(f, S) - f[x] + g[x]
<1>1. IsFiniteSet(S \ {x})
  BY FS_Subset
<1>2. SumFunctionOnSet(f, S \ {x}) = SumFunctionOnSet(g, S \ {x})
  BY <1>1, SumSame
<1>3. /\ SumFunctionOnSet(f, S) = f[x] + SumFunctionOnSet(f, S \ {x})
      /\ SumFunctionOnSet(g, S) = g[x] + SumFunctionOnSet(g, S \ {x})
      /\ SumFunctionOnSet(f, S \ {x}) \in Int
  BY SumRemove
<1>4. f[x] \in Int /\ g[x] \in Int
  OBVIOUS
<1> QED BY <1>2, <1>3, <1>4

(* Members whose number is zero add nothing. *)
LEMMA SumZeros ==
  ASSUME NEW T, IsFiniteSet(T), NEW f \in [T -> Int], NEW S \in SUBSET T,
         \A x \in T \ S : f[x] = 0
  PROVE  SumFunctionOnSet(f, T) = SumFunctionOnSet(f, S)
<1> DEFINE Sum(R) == SumFunctionOnSet(f, R)
           Good == {R \in SUBSET T : S \subseteq R => Sum(R) = Sum(S)}
<1>1. ASSUME NEW R \in SUBSET T, NEW x \in R
      PROVE  Sum(R) = f[x] + Sum(R \ {x}) /\ Sum(R \ {x}) \in Int
  <2>1. R \ {x} \in SUBSET T
    OBVIOUS
  <2> QED BY <2>1, SumStep
<1> HIDE DEF Sum
<1>2. ASSUME NEW R \in SUBSET T,
             \A Q \in SUBSET R : Q # R => Q \in Good
      PROVE  R \in Good
  <2> SUFFICES ASSUME S \subseteq R PROVE Sum(R) = Sum(S)
    OBVIOUS
  <2>1. CASE R = S
    BY <2>1
  <2>2. CASE R # S
    <3>1. PICK x \in R : x \notin S
      BY <2>2
    <3>2. R \ {x} \in SUBSET R /\ R \ {x} # R /\ S \subseteq R \ {x}
      BY <3>1
    <3>3. Sum(R \ {x}) = Sum(S)
      BY <1>2, <3>2
    <3>4. f[x] = 0
      BY <3>1
    <3> QED BY <1>1, <3>3, <3>4
  <2> QED BY <2>1, <2>2
<1> HIDE DEF Good
<1>3. \A R \in SUBSET T : R \in Good
  BY <1>2, SetInduction
<1> QED BY <1>3 DEF Good, Sum

(* A sum may be taken over other names for the same members. *)
LEMMA SumRename ==
  ASSUME NEW S, IsFiniteSet(S), NEW T, IsFiniteSet(T),
         NEW f \in [T -> Int], NEW g \in [S -> Int], NEW name \in [S -> T],
         \A x, y \in S : name[x] = name[y] => x = y,
         \A x \in S : g[x] = f[name[x]]
  PROVE  SumFunctionOnSet(g, S) = SumFunctionOnSet(f, {name[x] : x \in S})
<1> DEFINE Names(R) == {name[x] : x \in R}
           Good == {R \in SUBSET S :
                      SumFunctionOnSet(g, R) = SumFunctionOnSet(f, Names(R))}
<1>1. ASSUME NEW R \in SUBSET S,
             \A Q \in SUBSET R : Q # R => Q \in Good
      PROVE  R \in Good
  <2>1. CASE R = {}
    <3>1. Names(R) = {}
      BY <2>1
    <3> QED BY <2>1, <3>1, SumEmpty
  <2>2. CASE R # {}
    <3>1. PICK x \in R : TRUE
      BY <2>2
    <3>2. SumFunctionOnSet(g, R) = g[x] + SumFunctionOnSet(g, R \ {x})
      BY SumStep
    <3>3. Names(R) \in SUBSET T /\ name[x] \in Names(R)
      OBVIOUS
    <3>4. SumFunctionOnSet(f, Names(R)) =
            f[name[x]] + SumFunctionOnSet(f, Names(R) \ {name[x]})
      <4> HIDE DEF Names
      <4> QED BY <3>3, SumStep
    <3>5. Names(R) \ {name[x]} = Names(R \ {x})
      OBVIOUS
    <3>6. R \ {x} \in SUBSET R /\ R \ {x} # R
      OBVIOUS
    <3>7. SumFunctionOnSet(g, R \ {x}) = SumFunctionOnSet(f, Names(R \ {x}))
      BY <1>1, <3>6
    <3>8. g[x] = f[name[x]]
      OBVIOUS
    <3> HIDE DEF Names
    <3>9. SumFunctionOnSet(g, R) = SumFunctionOnSet(f, Names(R))
      BY <3>2, <3>4, <3>5, <3>7, <3>8
    <3> QED BY <3>9
  <2> QED BY <2>1, <2>2
<1> HIDE DEF Good
<1>2. \A R \in SUBSET S : R \in Good
  BY <1>1, SetInduction
<1> QED BY <1>2 DEF Good

(* A larger number for every member gives a larger sum. *)
LEMMA SumMonotone ==
  ASSUME NEW S, IsFiniteSet(S), NEW f \in [S -> Int], NEW g \in [S -> Int],
         \A x \in S : f[x] <= g[x]
  PROVE  SumFunctionOnSet(f, S) <= SumFunctionOnSet(g, S)
<1> DEFINE F(R) == SumFunctionOnSet(f, R)
           G(R) == SumFunctionOnSet(g, R)
           Good == {R \in SUBSET S : F(R) <= G(R)}
<1>1. ASSUME NEW R \in SUBSET S,
             \A Q \in SUBSET R : Q # R => Q \in Good
      PROVE  R \in Good
  <2>1. CASE R = {}
    BY <2>1, SumEmpty
  <2>2. CASE R # {}
    <3>1. PICK x \in R : TRUE
      BY <2>2
    <3>2. R \ {x} \in SUBSET R /\ R \ {x} # R /\ R \ {x} \in SUBSET S
      OBVIOUS
    <3>3. F(R) = f[x] + F(R \ {x}) /\ F(R \ {x}) \in Int
      BY <3>2, SumStep
    <3>4. G(R) = g[x] + G(R \ {x}) /\ G(R \ {x}) \in Int
      BY <3>2, SumStep
    <3>5. F(R \ {x}) <= G(R \ {x})
      BY <1>1, <3>2
    <3>6. f[x] \in Int /\ g[x] \in Int /\ f[x] <= g[x]
      OBVIOUS
    <3> HIDE DEF F, G
    <3>7. F(R) <= G(R)
      BY <3>3, <3>4, <3>5, <3>6
    <3> QED BY <3>7
  <2> QED BY <2>1, <2>2
<1> HIDE DEF Good
<1>2. \A R \in SUBSET S : R \in Good
  BY <1>1, SetInduction
<1> QED BY <1>2 DEF Good

(* When no member's number is larger on one side and the sums agree, the   *)
(* numbers do.                                                             *)
LEMMA SumTight ==
  ASSUME NEW S, IsFiniteSet(S), NEW f \in [S -> Int], NEW g \in [S -> Int],
         \A x \in S : f[x] <= g[x],
         SumFunctionOnSet(f, S) = SumFunctionOnSet(g, S), NEW x \in S
  PROVE  f[x] = g[x]
<1> DEFINE R == S \ {x}
           p == [y \in R |-> f[y]]
           q == [y \in R |-> g[y]]
<1>1. /\ SumFunctionOnSet(f, S) = f[x] + SumFunctionOnSet(f, R)
      /\ SumFunctionOnSet(g, S) = g[x] + SumFunctionOnSet(g, R)
      /\ SumFunctionOnSet(f, R) \in Int /\ SumFunctionOnSet(g, R) \in Int
  BY SumRemove
<1>2. f[x] \in Int /\ g[x] \in Int /\ f[x] <= g[x]
  OBVIOUS
<1>3. IsFiniteSet(R) /\ p \in [R -> Int] /\ q \in [R -> Int]
      /\ \A y \in R : p[y] <= q[y] /\ p[y] = f[y] /\ q[y] = g[y]
  BY FS_Subset
<1> HIDE DEF R, p, q
<1>4. SumFunctionOnSet(p, R) <= SumFunctionOnSet(q, R)
  BY <1>3, SumMonotone
<1>5. SumFunctionOnSet(p, R) = SumFunctionOnSet(f, R)
  BY <1>3, SumSame
<1>6. SumFunctionOnSet(q, R) = SumFunctionOnSet(g, R)
  BY <1>3, SumSame
<1> DEFINE a == SumFunctionOnSet(f, R)
           b == SumFunctionOnSet(g, R)
           v == f[x]
           w == g[x]
<1>7. a \in Int /\ b \in Int /\ a <= b
  BY <1>1, <1>4, <1>5, <1>6
<1>8. v + a = w + b
  BY <1>1
<1>9. v \in Int /\ w \in Int /\ v <= w
  BY <1>2
<1> HIDE DEF a, b, v, w
<1>10. v = w
  BY <1>7, <1>8, <1>9
<1> QED BY <1>10 DEF v, w

(* The sum of the sums is the sum of all. *)
LEMMA SumPlus ==
  ASSUME NEW S, IsFiniteSet(S), NEW f \in [S -> Int], NEW g \in [S -> Int],
         NEW h \in [S -> Int], \A x \in S : h[x] = f[x] + g[x]
  PROVE  SumFunctionOnSet(h, S) = SumFunctionOnSet(f, S) + SumFunctionOnSet(g, S)
<1> DEFINE F(R) == SumFunctionOnSet(f, R)
           G(R) == SumFunctionOnSet(g, R)
           H(R) == SumFunctionOnSet(h, R)
           Good == {R \in SUBSET S : H(R) = F(R) + G(R)}
<1>1. ASSUME NEW R \in SUBSET S,
             \A Q \in SUBSET R : Q # R => Q \in Good
      PROVE  R \in Good
  <2>1. CASE R = {}
    BY <2>1, SumEmpty
  <2>2. CASE R # {}
    <3>1. PICK x \in R : TRUE
      BY <2>2
    <3>2. R \ {x} \in SUBSET R /\ R \ {x} # R /\ R \ {x} \in SUBSET S
      OBVIOUS
    <3>3. F(R) = f[x] + F(R \ {x}) /\ F(R \ {x}) \in Int
      BY <3>2, SumStep
    <3>4. G(R) = g[x] + G(R \ {x}) /\ G(R \ {x}) \in Int
      BY <3>2, SumStep
    <3>5. H(R) = h[x] + H(R \ {x}) /\ H(R \ {x}) \in Int
      BY <3>2, SumStep
    <3>6. H(R \ {x}) = F(R \ {x}) + G(R \ {x})
      BY <1>1, <3>2
    <3>7. f[x] \in Int /\ g[x] \in Int /\ h[x] = f[x] + g[x]
      OBVIOUS
    <3> HIDE DEF F, G, H
    <3>8. H(R) = F(R) + G(R)
      BY <3>3, <3>4, <3>5, <3>6, <3>7
    <3> QED BY <3>8
  <2> QED BY <2>1, <2>2
<1> HIDE DEF Good
<1>2. \A R \in SUBSET S : R \in Good
  BY <1>1, SetInduction
<1> QED BY <1>2 DEF Good

(* A sum of numbers that have a bound is no more than as many bounds. *)
LEMMA SumBound ==
  ASSUME NEW S, IsFiniteSet(S), NEW f \in [S -> Int], NEW k \in Int,
         \A x \in S : f[x] <= k
  PROVE  SumFunctionOnSet(f, S) <= Cardinality(S) * k
<1> DEFINE F(R) == SumFunctionOnSet(f, R)
           C(R) == Cardinality(R)
           Good == {R \in SUBSET S : F(R) <= C(R) * k}
<1>1. ASSUME NEW R \in SUBSET S,
             \A Q \in SUBSET R : Q # R => Q \in Good
      PROVE  R \in Good
  <2>1. CASE R = {}
    <3>1. F(R) = 0 /\ C(R) = 0
      BY <2>1, SumEmpty, FS_EmptySet
    <3> HIDE DEF F, C
    <3> QED BY <3>1
  <2>2. CASE R # {}
    <3>1. PICK x \in R : TRUE
      BY <2>2
    <3>2. R \ {x} \in SUBSET R /\ R \ {x} # R /\ R \ {x} \in SUBSET S
      OBVIOUS
    <3>3. F(R) = f[x] + F(R \ {x}) /\ F(R \ {x}) \in Int
      BY <3>2, SumStep
    <3>4. C(R \ {x}) = C(R) - 1 /\ C(R) \in Nat
      <4>1. IsFiniteSet(R)
        BY FS_Subset
      <4> QED BY <4>1, FS_RemoveElement, FS_CardinalityType
    <3>5. F(R \ {x}) <= C(R \ {x}) * k
      BY <1>1, <3>2
    <3>6. f[x] \in Int /\ f[x] <= k
      OBVIOUS
    <3> HIDE DEF F, C
    <3>7. C(R \ {x}) * k = C(R) * k - k /\ C(R) * k \in Int
      BY <3>4
    <3>8. F(R) <= C(R) * k
      BY <3>3, <3>5, <3>6, <3>7
    <3> QED BY <3>8
  <2> QED BY <2>1, <2>2
<1> HIDE DEF Good
<1>2. \A R \in SUBSET S : R \in Good
  BY <1>1, SetInduction
<1> QED BY <1>2 DEF Good

(* Numbers that are not negative have no negative sum. *)
LEMMA SumNat ==
  ASSUME NEW S, IsFiniteSet(S), NEW f \in [S -> Nat]
  PROVE  SumFunctionOnSet(f, S) \in Nat
<1> DEFINE z == [x \in S |-> 0]
<1>1. z \in [S -> Int] /\ f \in [S -> Int] /\ \A x \in S : z[x] <= f[x] /\ z[x] = 0
  OBVIOUS
<1> HIDE DEF z
<1>2. SumFunctionOnSet(z, S) <= SumFunctionOnSet(f, S) /\ SumFunctionOnSet(f, S) \in Int
  BY <1>1, SumMonotone, SumType
<1>3. SumFunctionOnSet(z, S) = SumFunctionOnSet(z, {})
  BY <1>1, SumZeros
<1>4. SumFunctionOnSet(z, S) = 0
  BY <1>3, SumEmpty
<1> QED BY <1>2, <1>4

=============================================================================
