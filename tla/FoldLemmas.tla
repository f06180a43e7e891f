----------------------------- MODULE FoldLemmas -----------------------------
(* What the folds of the community modules compute, over any finite set. A  *)
(* fold is a CHOOSE of a function on subsets that satisfies its recursion:  *)
(* here is that there is one, that its values stay in the set the steps     *)
(* stay in, and what follows for sums.  An induction is a smallest          *)
(* counterexample.                                                          *)
EXTENDS Integers, FiniteSets, FiniteSetsExt, FiniteSetTheorems, WellFoundedInduction, TLAPS

\* A family of subsets of a finite set has one that no other of the family is part of.
LEMMA SmallestSubset ==
  ASSUME NEW S, IsFiniteSet(S), NEW F, F \subseteq SUBSET S, F # {}
  PROVE  \E s \in F : \A t \in F : t \subseteq s => t = s
<1>1. IsWellFoundedOn(StrictSubsetOrdering(S), SUBSET S)
  BY FS_StrictSubsetOrderingWellFounded, FS_FiniteSubsetsOfFinite
<1>2. PICK s \in F : \A t \in F : ~(<<t, s>> \in StrictSubsetOrdering(S))
  BY <1>1, WFMin
<1>3. ASSUME NEW t \in F, t \subseteq s PROVE t = s
  <2>1. <<t, s>> \in (SUBSET S) \X (SUBSET S)
    OBVIOUS
  <2> QED
    BY <1>2, <1>3, <2>1 DEF StrictSubsetOrdering
<1> QED
  BY <1>3

-----------------------------------------------------------------------------
(* Folds.  choice[s] is the element of s taken first, step[<<x, v>>] what   *)
(* becomes of v with x.                                                     *)

Recursion(it, base, step, choice, s) ==
  it[s] = IF s = {} THEN base ELSE step[<<choice[s], it[s \ {choice[s]}]>>]

IsFold(it, base, step, choice, S, V) ==
  \A s \in SUBSET S : it[s] \in V /\ Recursion(it, base, step, choice, s)

Chooses(choice, S) == \A s \in SUBSET S : s # {} => choice[s] \in s

StaysIn(step, S, V) == \A x \in S, v \in V : step[<<x, v>>] \in V

\* Folds over two sets agree where both are defined.
LEMMA OneFold ==
  ASSUME NEW base, NEW step, NEW choice, NEW V, NEW S, IsFiniteSet(S), NEW T, NEW f, NEW h,
         Chooses(choice, S), IsFold(f, base, step, choice, S, V), IsFold(h, base, step, choice, T, V),
         NEW t, t \subseteq S, t \subseteq T
  PROVE  f[t] = h[t]
<1> DEFINE Bad == {s \in SUBSET (S \cap T) : f[s] # h[s]}
<1>1. SUFFICES ASSUME Bad # {} PROVE FALSE
  OBVIOUS
<1>2. IsFiniteSet(S \cap T)
  BY FS_Subset
<1>3. PICK s \in Bad : \A r \in Bad : r \subseteq s => r = s
  <2> HIDE DEF Bad
  <2>1. Bad \subseteq SUBSET (S \cap T)
    BY DEF Bad
  <2> QED
    BY <1>1, <1>2, <2>1, SmallestSubset
<1>4. s # {}
  BY DEF IsFold, Recursion
<1>5. choice[s] \in s
  BY <1>4 DEF Chooses
<1>6. f[s \ {choice[s]}] = h[s \ {choice[s]}]
  BY <1>3, <1>5
<1> QED
  BY <1>4, <1>6 DEF IsFold, Recursion

LEMMA FoldExists ==
  ASSUME NEW S, IsFiniteSet(S), NEW V, NEW base \in V, NEW step, StaysIn(step, S, V),
         NEW choice, Chooses(choice, S)
  PROVE  \E it : it = [s \in SUBSET S |-> it[s]] /\ IsFold(it, base, step, choice, S, V)
<1> DEFINE Bad == {s \in SUBSET S : ~\E it : IsFold(it, base, step, choice, s, V)}
<1>1. SUFFICES \E it : IsFold(it, base, step, choice, S, V)
  <2>1. PICK it : IsFold(it, base, step, choice, S, V)
    BY <1>1
  <2> DEFINE whole == [s \in SUBSET S |-> it[s]]
  <2>2. \A s \in SUBSET S : whole[s] = it[s]
    OBVIOUS
  <2>3. whole = [s \in SUBSET S |-> whole[s]]
    OBVIOUS
  <2> HIDE DEF whole
  <2>4. ASSUME NEW s \in SUBSET S PROVE whole[s] \in V /\ Recursion(whole, base, step, choice, s)
    <3>1. s \ {choice[s]} \in SUBSET S
      OBVIOUS
    <3> QED
      BY <2>1, <2>2, <3>1 DEF IsFold, Recursion
  <2> QED
    BY <2>3, <2>4 DEF IsFold
<1>2. SUFFICES ASSUME Bad # {} PROVE FALSE
  OBVIOUS
<1>3. PICK s \in Bad : \A r \in Bad : r \subseteq s => r = s
  <2> HIDE DEF Bad
  <2>1. Bad \subseteq SUBSET S
    BY DEF Bad
  <2> QED
    BY <1>2, <2>1, SmallestSubset
<1>4. \A r \in SUBSET s : r # s => \E it : IsFold(it, base, step, choice, r, V)
  BY <1>3
<1> DEFINE part(r) == CHOOSE it : IsFold(it, base, step, choice, r, V)
           rest == s \ {choice[s]}
           whole == [r \in SUBSET s |->
                       IF r # s THEN part(r)[r]
                       ELSE IF s = {} THEN base ELSE step[<<choice[s], part(rest)[rest]>>]]
<1>5. \A r \in SUBSET s : r # s => IsFold(part(r), base, step, choice, r, V)
  BY <1>4
<1>6. \A r \in SUBSET s : IsFiniteSet(r) /\ Chooses(choice, r)
  BY FS_Subset DEF Chooses
<1> HIDE DEF part
<1>7. ASSUME NEW r \in SUBSET s, r # s
      PROVE  whole[r] \in V /\ Recursion(whole, base, step, choice, r)
  <2>1. IsFold(part(r), base, step, choice, r, V) /\ whole[r] = part(r)[r]
    BY <1>5, <1>7
  <2>2. part(r)[r] \in V /\ Recursion(part(r), base, step, choice, r)
    BY <2>1 DEF IsFold
  <2>3. CASE r = {}
    BY <2>1, <2>2, <2>3 DEF Recursion
  <2>4. CASE r # {}
    <3> DEFINE q == r \ {choice[r]}
    <3>1. q \in SUBSET s /\ q # s /\ q \subseteq r /\ choice[r] \in r
      BY <1>6, <1>7, <2>4 DEF Chooses
    <3>2. IsFold(part(q), base, step, choice, q, V) /\ whole[q] = part(q)[q]
      BY <1>5, <3>1
    <3> HIDE DEF q, whole
    <3>3. part(q)[q] = part(r)[q]
      <4>1. IsFiniteSet(q) /\ Chooses(choice, q)
        BY <1>6, <3>1
      <4> QED
        BY <2>1, <3>1, <3>2, <4>1, OneFold
    <3> QED
      BY <2>1, <2>2, <2>4, <3>2, <3>3 DEF Recursion, q
  <2> QED
    BY <2>3, <2>4
<1>8. whole[s] \in V /\ Recursion(whole, base, step, choice, s)
  <2>1. CASE s = {}
    BY <2>1 DEF Recursion
  <2>2. CASE s # {}
    <3>1. choice[s] \in s /\ choice[s] \in S /\ rest \in SUBSET s /\ rest # s
      BY <2>2 DEF Chooses
    <3>2. IsFold(part(rest), base, step, choice, rest, V) /\ whole[rest] = part(rest)[rest]
      BY <1>5, <3>1
    <3>3. part(rest)[rest] \in V
      BY <3>2 DEF IsFold
    <3>4. whole[s] = step[<<choice[s], part(rest)[rest]>>]
      BY <2>2
    <3>5. step[<<choice[s], part(rest)[rest]>>] \in V
      BY <3>1, <3>3 DEF StaysIn
    <3> HIDE DEF whole
    <3> QED
      BY <2>2, <3>2, <3>4, <3>5 DEF Recursion
  <2> QED
    BY <2>1, <2>2
<1>9. IsFold(whole, base, step, choice, s, V)
  <2> HIDE DEF whole
  <2> QED
    BY <1>7, <1>8 DEF IsFold
<1> QED
  BY <1>9

\* What satisfies the recursion as far as it stays in V, stays in V.
LEMMA FoldStays ==
  ASSUME NEW S, IsFiniteSet(S), NEW V, NEW base \in V, NEW step, StaysIn(step, S, V),
         NEW choice, Chooses(choice, S), NEW it,
         \A s \in SUBSET S :
           \/ s = {} /\ it[s] = base
           \/ s # {} /\ (it[s \ {choice[s]}] \in V => it[s] = step[<<choice[s], it[s \ {choice[s]}]>>])
  PROVE  IsFold(it, base, step, choice, S, V)
<1> DEFINE Bad == {s \in SUBSET S : it[s] \notin V}
<1>1. Bad = {}
  <2>1. SUFFICES ASSUME Bad # {} PROVE FALSE
    OBVIOUS
  <2>2. PICK s \in Bad : \A r \in Bad : r \subseteq s => r = s
    <3> HIDE DEF Bad
    <3>1. Bad \subseteq SUBSET S
      BY DEF Bad
    <3> QED
      BY <2>1, <3>1, SmallestSubset
  <2>3. s # {}
    OBVIOUS
  <2>4. choice[s] \in s /\ choice[s] \in S
    BY <2>3 DEF Chooses
  <2>5. it[s \ {choice[s]}] \in V
    BY <2>2, <2>4
  <2> QED
    BY <2>3, <2>4, <2>5 DEF StaysIn
<1>2. \A s \in SUBSET S : it[s] \in V /\ s \ {choice[s]} \in SUBSET S
  BY <1>1
<1> QED
  BY <1>2 DEF IsFold, Recursion
-----------------------------------------------------------------------------
(* Sums.                                                                    *)

SumOver(g, S) == MapThenSumSet(LAMBDA c : g[c], S)

\* The element MapThenSumSet takes first.
First(s) == CHOOSE x \in s : TRUE

Added(g, S) == [p \in S \X Int |-> g[p[1]] + p[2]]
Firsts(S) == [s \in SUBSET S |-> First(s)]

IsSum(sum, g, S) == IsFold(sum, 0, Added(g, S), Firsts(S), S, Int)

LEMMA FirstIsElement ==
  ASSUME NEW S
  PROVE  Chooses(Firsts(S), S)
BY DEF Firsts, First, Chooses

LEMMA AddedIsNumber ==
  ASSUME NEW g, NEW S, \A c \in S : g[c] \in Int
  PROVE  /\ StaysIn(Added(g, S), S, Int)
         /\ \A c \in S, n \in Int : Added(g, S)[<<c, n>>] = g[c] + n
BY DEF Added, StaysIn

\* MapThenSumSet obeys its recursion: it adds g up over a finite set.
LEMMA SumAddsUp ==
  ASSUME NEW g, NEW S, IsFiniteSet(S), \A c \in S : g[c] \in Int
  PROVE  \E sum : IsSum(sum, g, S) /\ SumOver(g, S) = sum[S]
<1> DEFINE Body(it) == [s \in SUBSET S |->
                          IF s = {} THEN 0
                          ELSE g[CHOOSE x \in s : TRUE] + it[s \ {CHOOSE x \in s : TRUE}]]
           total == CHOOSE it : it = Body(it)
<1>1. SumOver(g, S) = total[S]
  BY DEF SumOver, MapThenSumSet, MapThenFoldSet
<1>2. PICK step, choice : step = Added(g, S) /\ choice = Firsts(S)
  OBVIOUS
<1>3. /\ Chooses(choice, S) /\ StaysIn(step, S, Int)
      /\ \A c \in S, n \in Int : step[<<c, n>>] = g[c] + n
  <2>1. /\ StaysIn(Added(g, S), S, Int)
        /\ \A c \in S, n \in Int : Added(g, S)[<<c, n>>] = g[c] + n
    BY AddedIsNumber
  <2>2. Chooses(Firsts(S), S)
    BY FirstIsElement
  <2> QED
    BY <1>2, <2>1, <2>2
<1>4. PICK sum : sum = [s \in SUBSET S |-> sum[s]] /\ IsFold(sum, 0, step, choice, S, Int)
  <2>1. PICK V : V = Int /\ 0 \in V
    OBVIOUS
  <2>2. \E it : it = [s \in SUBSET S |-> it[s]] /\ IsFold(it, 0, step, choice, S, V)
    BY <1>3, <2>1, FoldExists
  <2> QED
    BY <2>1, <2>2
<1>5. ASSUME NEW it, NEW s \in SUBSET S
      PROVE  /\ s = {} => Body(it)[s] = 0
             /\ s # {} => Body(it)[s] = g[choice[s]] + it[s \ {choice[s]}]
  BY <1>2 DEF Firsts, First
<1>6. \A s \in SUBSET S : s # {} => choice[s] \in S /\ s \ {choice[s]} \in SUBSET S
  BY <1>3 DEF Chooses
<1>7. ASSUME NEW s \in SUBSET S PROVE sum[s] = Body(sum)[s]
  <2> HIDE DEF Body
  <2>1. CASE s = {}
    BY <1>4, <1>5, <2>1 DEF IsFold, Recursion
  <2>2. CASE s # {}
    <3>1. sum[s \ {choice[s]}] \in Int
      BY <1>4, <1>6, <2>2 DEF IsFold
    <3>2. sum[s] = step[<<choice[s], sum[s \ {choice[s]}]>>]
      BY <1>4, <2>2 DEF IsFold, Recursion
    <3>3. step[<<choice[s], sum[s \ {choice[s]}]>>] = g[choice[s]] + sum[s \ {choice[s]}]
      BY <1>3, <1>6, <2>2, <3>1
    <3> QED
      BY <1>5, <2>2, <3>2, <3>3
  <2> QED
    BY <2>1, <2>2
<1>8. total = Body(total)
  <2>1. Body(sum) = [s \in SUBSET S |-> Body(sum)[s]]
    OBVIOUS
  <2> HIDE DEF Body
  <2>2. sum = Body(sum)
    BY <1>4, <1>7, <2>1
  <2> QED
    BY <2>2
<1>9. ASSUME NEW s \in SUBSET S
      PROVE  \/ s = {} /\ total[s] = 0
             \/ s # {} /\ (total[s \ {choice[s]}] \in Int =>
                             total[s] = step[<<choice[s], total[s \ {choice[s]}]>>])
  <2>1. total[s] = Body(total)[s]
    BY <1>8
  <2> HIDE DEF total, Body
  <2>2. CASE s = {}
    BY <1>5, <2>1, <2>2
  <2>3. CASE s # {}
    <3>1. total[s] = g[choice[s]] + total[s \ {choice[s]}]
      BY <1>5, <2>1, <2>3
    <3> QED
      BY <1>3, <1>6, <2>3, <3>1
  <2> QED
    BY <2>2, <2>3
<1>10. IsFold(total, 0, step, choice, S, Int)
  <2> HIDE DEF total
  <2>1. 0 \in Int
    OBVIOUS
  <2> QED
    BY <1>3, <1>9, <2>1, FoldStays
<1> QED
  BY <1>1, <1>2, <1>10 DEF IsSum

LEMMA SumOfNone ==
  ASSUME NEW g
  PROVE  SumOver(g, {}) = 0
<1>1. PICK sum : IsSum(sum, g, {}) /\ SumOver(g, {}) = sum[{}]
  BY SumAddsUp, FS_EmptySet
<1> QED
  BY <1>1 DEF IsSum, IsFold, Recursion

LEMMA SumIsNumber ==
  ASSUME NEW g, NEW S, IsFiniteSet(S), \A c \in S : g[c] \in Int
  PROVE  SumOver(g, S) \in Int
<1>1. PICK sum : IsSum(sum, g, S) /\ SumOver(g, S) = sum[S]
  BY SumAddsUp
<1> QED
  BY <1>1 DEF IsSum, IsFold

\* Sums over subsets are the values of one function.
LEMMA SumOfPart ==
  ASSUME NEW g, NEW S, IsFiniteSet(S), \A c \in S : g[c] \in Int,
         NEW sum, IsSum(sum, g, S), NEW t, t \subseteq S
  PROVE  SumOver(g, t) = sum[t]
<1>1. IsFiniteSet(t) /\ \A c \in t : g[c] \in Int
  BY FS_Subset
<1>2. PICK part : IsSum(part, g, t) /\ SumOver(g, t) = part[t]
  BY <1>1, SumAddsUp
<1>3. ASSUME NEW s \in SUBSET t
      PROVE  sum[s] \in Int /\ Recursion(sum, 0, Added(g, t), Firsts(t), s)
  <2>1. sum[s] \in Int /\ Recursion(sum, 0, Added(g, S), Firsts(S), s)
    BY DEF IsSum, IsFold
  <2>2. Firsts(t)[s] = Firsts(S)[s]
    BY DEF Firsts
  <2>3. CASE s = {}
    BY <2>1, <2>3 DEF Recursion
  <2>4. CASE s # {}
    <3>1. Firsts(t)[s] \in t /\ s \ {Firsts(t)[s]} \in SUBSET S
      BY <2>4, FirstIsElement DEF Chooses
    <3>2. sum[s \ {Firsts(t)[s]}] \in Int
      BY <3>1 DEF IsSum, IsFold
    <3>3. Added(g, S)[<<Firsts(t)[s], sum[s \ {Firsts(t)[s]}]>>]
            = Added(g, t)[<<Firsts(t)[s], sum[s \ {Firsts(t)[s]}]>>]
      BY <1>1, <3>1, <3>2, AddedIsNumber
    <3> QED
      BY <2>1, <2>2, <2>4, <3>3 DEF Recursion
  <2> QED
    BY <2>3, <2>4
<1>4. IsSum(sum, g, t)
  BY <1>3 DEF IsSum, IsFold
<1> QED
  BY <1>1, <1>2, <1>4, OneFold, FirstIsElement DEF IsSum

\* Any element may be taken first.
LEMMA SumWithout ==
  ASSUME NEW g, NEW S, IsFiniteSet(S), \A c \in S : g[c] \in Int, NEW y \in S
  PROVE  SumOver(g, S) = g[y] + SumOver(g, S \ {y})
<1>1. PICK sum : IsSum(sum, g, S) /\ SumOver(g, S) = sum[S]
  BY SumAddsUp
<1>2. SumOver(g, S \ {y}) = sum[S \ {y}]
  BY <1>1, SumOfPart
<1>3. ASSUME NEW s \in SUBSET S, s # {}
      PROVE  \E x \in s : /\ sum[s] = g[x] + sum[s \ {x}]
                          /\ x \in S /\ g[x] \in Int /\ sum[s \ {x}] \in Int
  <2>1. Firsts(S)[s] \in s
    BY <1>3, FirstIsElement DEF Chooses
  <2>2. PICK x \in s : x = Firsts(S)[s]
    BY <2>1
  <2>3. s \ {x} \in SUBSET S /\ x \in S
    OBVIOUS
  <2>4. sum[s \ {x}] \in Int /\ sum[s] = Added(g, S)[<<x, sum[s \ {x}]>>]
    BY <1>1, <1>3, <2>2, <2>3 DEF IsSum, IsFold, Recursion
  <2> QED
    BY <2>3, <2>4, AddedIsNumber
<1> DEFINE Bad == {s \in SUBSET S : ~\A z \in s : sum[s] = g[z] + sum[s \ {z}]}
<1>4. Bad = {}
  <2>1. SUFFICES ASSUME Bad # {} PROVE FALSE
    OBVIOUS
  <2>2. PICK s \in Bad : \A r \in Bad : r \subseteq s => r = s
    <3> HIDE DEF Bad
    <3>1. Bad \subseteq SUBSET S
      BY DEF Bad
    <3> QED
      BY <2>1, <3>1, SmallestSubset
  <2>3. PICK z \in s : sum[s] # g[z] + sum[s \ {z}]
    OBVIOUS
  <2>4. PICK x \in s : sum[s] = g[x] + sum[s \ {x}] /\ x \in S /\ g[x] \in Int /\ sum[s \ {x}] \in Int
    BY <1>3, <2>3
  <2>5. x # z
    BY <2>3, <2>4
  <2>6. \A r \in SUBSET s : r # s => \A u \in r : sum[r] = g[u] + sum[r \ {u}]
    BY <2>2
  <2>7. sum[s \ {x}] = g[z] + sum[(s \ {x}) \ {z}]
    BY <2>5, <2>6
  <2>8. sum[s \ {z}] = g[x] + sum[(s \ {z}) \ {x}]
    BY <2>5, <2>6
  <2>9. (s \ {z}) \ {x} = (s \ {x}) \ {z} /\ (s \ {x}) \ {z} \in SUBSET S
    OBVIOUS
  <2>10. PICK rest : rest = sum[(s \ {x}) \ {z}] /\ rest \in Int /\ g[z] \in Int
    BY <1>1, <2>9 DEF IsSum, IsFold
  <2>11. sum[s \ {x}] = g[z] + rest /\ sum[s \ {z}] = g[x] + rest
    BY <2>7, <2>8, <2>9, <2>10
  <2>12. sum[s] = g[x] + (g[z] + rest)
    BY <2>4, <2>11
  <2>13. g[x] + (g[z] + rest) = g[z] + (g[x] + rest)
    BY <2>4, <2>10
  <2> QED
    BY <2>3, <2>11, <2>12, <2>13
<1> QED
  BY <1>1, <1>2, <1>4

LEMMA SumOfEquals ==
  ASSUME NEW S, IsFiniteSet(S), NEW f, NEW g, \A c \in S : g[c] \in Int /\ f[c] = g[c]
  PROVE  SumOver(f, S) = SumOver(g, S)
<1> DEFINE Bad == {s \in SUBSET S : SumOver(f, s) # SumOver(g, s)}
<1>1. SUFFICES ASSUME Bad # {} PROVE FALSE
  OBVIOUS
<1>2. PICK s \in Bad : \A r \in Bad : r \subseteq s => r = s
  <2> HIDE DEF Bad
  <2>1. Bad \subseteq SUBSET S
    BY DEF Bad
  <2> QED
    BY <1>1, <2>1, SmallestSubset
<1>3. s # {}
  BY SumOfNone
<1>4. PICK x \in s : TRUE
  BY <1>3
<1>5. SumOver(f, s \ {x}) = SumOver(g, s \ {x})
  BY <1>2
<1>6. IsFiniteSet(s) /\ \A c \in s : g[c] \in Int /\ f[c] \in Int
  BY FS_Subset
<1>7. SumOver(f, s) = f[x] + SumOver(f, s \ {x}) /\ SumOver(g, s) = g[x] + SumOver(g, s \ {x})
  BY <1>6, SumWithout
<1> QED
  BY <1>5, <1>7

\* One value more is that much more in all.
LEMMA SumOfChange ==
  ASSUME NEW S, IsFiniteSet(S), NEW f, NEW g, NEW m \in S, NEW d \in Int,
         \A c \in S : g[c] \in Int /\ (c # m => f[c] = g[c]), f[m] = g[m] + d
  PROVE  SumOver(f, S) = SumOver(g, S) + d
<1>1. IsFiniteSet(S \ {m})
  BY FS_Subset
<1>2. SumOver(f, S \ {m}) = SumOver(g, S \ {m})
  BY <1>1, SumOfEquals
<1>3. SumOver(g, S \ {m}) \in Int
  BY <1>1, SumIsNumber
<1>4. \A c \in S : f[c] \in Int
  OBVIOUS
<1>5. SumOver(f, S) = f[m] + SumOver(f, S \ {m}) /\ SumOver(g, S) = g[m] + SumOver(g, S \ {m})
  BY <1>4, SumWithout
<1> QED
  BY <1>2, <1>3, <1>5

LEMMA SumOfNothing ==
  ASSUME NEW S, IsFiniteSet(S), NEW g, \A c \in S : g[c] = 0
  PROVE  SumOver(g, S) = 0
<1> DEFINE Bad == {s \in SUBSET S : SumOver(g, s) # 0}
<1>1. SUFFICES ASSUME Bad # {} PROVE FALSE
  OBVIOUS
<1>2. PICK s \in Bad : \A r \in Bad : r \subseteq s => r = s
  <2> HIDE DEF Bad
  <2>1. Bad \subseteq SUBSET S
    BY DEF Bad
  <2> QED
    BY <1>1, <2>1, SmallestSubset
<1>3. PICK x \in s : TRUE
  BY SumOfNone
<1>4. SumOver(g, s \ {x}) = 0
  BY <1>2
<1>5. IsFiniteSet(s) /\ \A c \in s : g[c] \in Int
  BY FS_Subset
<1>6. SumOver(g, s) = g[x] + SumOver(g, s \ {x})
  BY <1>5, SumWithout
<1> QED
  BY <1>4, <1>6
-----------------------------------------------------------------------------
(* Maxima. FoldLeft takes the last place first.                             *)

\* One of the parts that are assigned to the elements of a set has none within it.
Parts(part, s) == \A i \in s : part[i] \subseteq s

LEMMA SmallestPart ==
  ASSUME NEW s, IsFiniteSet(s), s # {}, NEW part, Parts(part, s)
  PROVE  \E m \in s : \A y \in s : part[y] \subseteq part[m] => part[y] = part[m]
<1>1. PICK family : family = {part[i] : i \in s}
  OBVIOUS
<1>2. PICK t \in family : \A u \in family : u \subseteq t => u = t
  <2>1. family \subseteq SUBSET s /\ family # {}
    BY <1>1 DEF Parts
  <2> QED
    BY <2>1, SmallestSubset
<1>3. PICK m \in s : t = part[m]
  BY <1>1
<1>4. \A y \in s : part[y] \in family
  BY <1>1
<1> QED
  BY <1>2, <1>3, <1>4

\* A finite set of numbers has a greatest one.
AreNumbers(s) == s \subseteq Int

LEMMA MaxIsElement ==
  ASSUME NEW s, IsFiniteSet(s), AreNumbers(s), s # {}
  PROVE  Max(s) \in s /\ \A y \in s : Max(s) >= y
<1>1. PICK above : above = [i \in s |-> {j \in s : j >= i}]
  OBVIOUS
<1>2. Parts(above, s)
  BY <1>1 DEF Parts
<1>3. PICK m \in s : \A y \in s : above[y] \subseteq above[m] => above[y] = above[m]
  BY <1>2, SmallestPart
<1>4. ASSUME NEW y \in s PROVE m >= y
  <2>1. SUFFICES ASSUME y > m PROVE FALSE
    BY DEF AreNumbers
  <2>2. y \in Int /\ m \in Int /\ \A j \in s : j \in Int
    BY DEF AreNumbers
  <2>3. m \in above[m] /\ m \notin above[y]
    BY <1>1, <2>1, <2>2
  <2>4. ASSUME NEW j \in above[y] PROVE j \in above[m]
    <3>1. j \in s /\ j >= y /\ j \in Int
      BY <1>1, <2>2
    <3> QED
      BY <1>1, <2>1, <2>2, <3>1
  <2> QED
    BY <1>3, <2>3, <2>4
<1> QED
  BY <1>4 DEF Max

Lasts(n) == [s \in SUBSET (1 .. n) |-> Max(s)]

LEMMA LastIsElement ==
  ASSUME NEW n \in Nat
  PROVE  Chooses(Lasts(n), 1 .. n)
<1> SUFFICES ASSUME NEW s \in SUBSET (1 .. n), s # {}
             PROVE  Lasts(n)[s] \in s
  BY DEF Chooses
<1>1. IsFiniteSet(1 .. n)
  BY FS_Interval
<1>2. IsFiniteSet(s)
  BY <1>1, FS_Subset
<1>3. AreNumbers(s)
  BY DEF AreNumbers
<1>4. Max(s) \in s
  BY <1>2, <1>3, MaxIsElement
<1> QED
  BY <1>4 DEF Lasts

\* A fold from the left over n places, of which step[<<i, v>>] is that at place i.
LeftStep(it, base, step, s) ==
  it[s] = IF s = {} THEN base ELSE step[<<Max(s), it[s \ {Max(s)}]>>]

LEMMA LeftFoldExists ==
  ASSUME NEW n \in Nat, NEW V, NEW base \in V, NEW step, StaysIn(step, 1 .. n, V)
  PROVE  \E it : /\ it = [s \in SUBSET (1 .. n) |-> it[s]]
                 /\ \A s \in SUBSET (1 .. n) :
                      /\ LeftStep(it, base, step, s)
                      /\ s # {} => Max(s) \in 1 .. n /\ it[s \ {Max(s)}] \in V
<1>1. PICK S, choice : S = 1 .. n /\ choice = Lasts(n)
  OBVIOUS
<1>2. IsFiniteSet(S) /\ Chooses(choice, S) /\ StaysIn(step, S, V)
  BY <1>1, FS_Interval, LastIsElement
<1>3. PICK it : it = [s \in SUBSET S |-> it[s]] /\ IsFold(it, base, step, choice, S, V)
  BY <1>2, FoldExists
<1>4. \A s \in SUBSET S : choice[s] = Max(s)
  BY <1>1 DEF Lasts
<1>5. ASSUME NEW s \in SUBSET S
      PROVE  /\ LeftStep(it, base, step, s)
             /\ s # {} => Max(s) \in S /\ it[s \ {Max(s)}] \in V
  <2>1. Recursion(it, base, step, choice, s)
    BY <1>3 DEF IsFold
  <2>2. s # {} => choice[s] \in s
    BY <1>2 DEF Chooses
  <2>3. s \ {Max(s)} \in SUBSET S
    OBVIOUS
  <2> QED
    BY <1>3, <1>4, <2>1, <2>2, <2>3 DEF IsFold, Recursion, LeftStep
<1> QED
  BY <1>1, <1>3, <1>5

LeftFold(it, base, step, n, V) ==
  \A s \in SUBSET (1 .. n) : it[s] \in V /\ LeftStep(it, base, step, s)

\* What satisfies the recursion as far as it stays in V, is the fold.
LEMMA LeftFoldHolds ==
  ASSUME NEW n \in Nat, NEW V, NEW base \in V, NEW step, StaysIn(step, 1 .. n, V), NEW it,
         \A s \in SUBSET (1 .. n) :
           \/ s = {} /\ it[s] = base
           \/ s # {} /\ (Max(s) \in 1 .. n /\ it[s \ {Max(s)}] \in V => LeftStep(it, base, step, s))
  PROVE  LeftFold(it, base, step, n, V)
<1>1. PICK S, choice : S = 1 .. n /\ choice = Lasts(n)
  OBVIOUS
<1>2. IsFiniteSet(S) /\ Chooses(choice, S) /\ StaysIn(step, S, V)
  BY <1>1, FS_Interval, LastIsElement
<1>3. \A s \in SUBSET S : choice[s] = Max(s)
  BY <1>1 DEF Lasts
<1>4. ASSUME NEW s \in SUBSET S
      PROVE  \/ s = {} /\ it[s] = base
             \/ s # {} /\ (it[s \ {choice[s]}] \in V => it[s] = step[<<choice[s], it[s \ {choice[s]}]>>])
  <2>1. s # {} => choice[s] \in s
    BY <1>2 DEF Chooses
  <2> QED
    BY <1>1, <1>3, <2>1 DEF LeftStep
<1>5. IsFold(it, base, step, choice, S, V)
  BY <1>2, <1>4, FoldStays
<1>6. ASSUME NEW s \in SUBSET S
      PROVE  it[s] \in V /\ LeftStep(it, base, step, s)
  BY <1>3, <1>5 DEF IsFold, Recursion, LeftStep
<1> QED
  BY <1>1, <1>6 DEF LeftFold

LEMMA LeftFoldStays ==
  ASSUME NEW n \in Nat, NEW V, NEW base \in V, NEW step, StaysIn(step, 1 .. n, V), NEW it,
         \A s \in SUBSET (1 .. n) :
           \/ s = {} /\ it[s] = base
           \/ s # {} /\ (Max(s) \in 1 .. n /\ it[s \ {Max(s)}] \in V => LeftStep(it, base, step, s))
  PROVE  it[1 .. n] \in V
BY LeftFoldHolds DEF LeftFold

\* Folds over n places and over the first k of them have come to the same after k.
LEMMA OneLeftFold ==
  ASSUME NEW n \in Nat, NEW k \in 0 .. n, NEW V, NEW base, NEW step, NEW f, NEW h,
         LeftFold(f, base, step, n, V), LeftFold(h, base, step, k, V)
  PROVE  f[1 .. k] = h[1 .. k]
<1>1. PICK S, T, choice : S = 1 .. n /\ T = 1 .. k /\ choice = Lasts(n)
  OBVIOUS
<1>2. IsFiniteSet(S) /\ Chooses(choice, S) /\ T \subseteq S
  BY <1>1, FS_Interval, LastIsElement
<1>3. \A s \in SUBSET S : choice[s] = Max(s)
  BY <1>1 DEF Lasts
<1>4. IsFold(f, base, step, choice, S, V)
  BY <1>1, <1>3 DEF LeftFold, LeftStep, IsFold, Recursion
<1>5. IsFold(h, base, step, choice, T, V)
  BY <1>1, <1>2, <1>3 DEF LeftFold, LeftStep, IsFold, Recursion
<1>6. f[T] = h[T]
  BY <1>2, <1>4, <1>5, OneFold
<1> QED
  BY <1>1, <1>6

\* One place more is one step more.
LEMMA LeftFoldOnward ==
  ASSUME NEW n \in Nat, NEW k \in 1 .. n, NEW V, NEW base, NEW step, NEW it,
         LeftFold(it, base, step, n, V)
  PROVE  it[1 .. k] = step[<<k, it[1 .. k - 1]>>]
<1>1. IsFiniteSet(1 .. k) /\ AreNumbers(1 .. k) /\ 1 .. k # {}
  <2>1. k \in 1 .. k /\ k \in Int /\ 1 \in Int
    OBVIOUS
  <2>2. IsFiniteSet(1 .. k)
    BY <2>1, FS_Interval
  <2>3. 1 .. k \subseteq Int
    OBVIOUS
  <2> QED
    BY <2>1, <2>2, <2>3 DEF AreNumbers
<1>2. Max(1 .. k) \in 1 .. k /\ Max(1 .. k) >= k
  BY <1>1, MaxIsElement
<1>3. Max(1 .. k) = k
  BY <1>2
<1>4. (1 .. k) \ {k} = 1 .. k - 1
  OBVIOUS
<1>5. 1 .. k \in SUBSET (1 .. n)
  OBVIOUS
<1> QED
  BY <1>1, <1>3, <1>4, <1>5 DEF LeftFold, LeftStep

-----------------------------------------------------------------------------
(* Loops: a recurrence over n places has a solution, and a loop is a fold.  *)

\* What zero has, and n + 1 whenever n has it, all numbers have: a largest counterexample
\* to there being one.
LEMMA CountingUp ==
  ASSUME NEW n \in Nat, NEW S, 0 \in S, \A k \in 0 .. n : k < n /\ k \in S => k + 1 \in S
  PROVE  0 .. n \subseteq S
<1>1. PICK reached : reached = {k \in 0 .. n : 0 .. k \subseteq S}
  OBVIOUS
<1>2. IsFiniteSet(reached) /\ AreNumbers(reached) /\ reached # {}
  <2>1. IsFiniteSet(0 .. n)
    BY FS_Interval
  <2>2. reached \subseteq 0 .. n /\ 0 \in reached
    BY <1>1
  <2>3. reached \subseteq Int
    BY <2>2
  <2> QED
    BY <2>1, <2>2, <2>3, FS_Subset DEF AreNumbers
<1>3. PICK m \in reached : \A k \in reached : m >= k
  BY <1>2, MaxIsElement
<1>4. m \in 0 .. n /\ m \in S
  BY <1>1
<1>5. ASSUME m # n PROVE FALSE
  <2>1. m + 1 \in S /\ m + 1 \in 0 .. n
    BY <1>4, <1>5
  <2>2. m + 1 \in reached
    BY <1>1, <1>4, <2>1
  <2> QED
    BY <1>3, <1>4, <2>2
<1> QED
  BY <1>1, <1>5

\* A recurrence over n places has a solution.
LEMMA RecurrenceExists ==
  ASSUME NEW n \in Nat, NEW V, NEW base \in V, NEW step, StaysIn(step, 1 .. n, V)
  PROVE  \E f : /\ f \in [0 .. n -> V] /\ f[0] = base
                /\ \A i \in 1 .. n : f[i] = step[<<i, f[i - 1]>>]
<1>1. PICK it : LeftFold(it, base, step, n, V)
  <2>1. PICK it : \A s \in SUBSET (1 .. n) :
                    /\ LeftStep(it, base, step, s)
                    /\ s # {} => Max(s) \in 1 .. n /\ it[s \ {Max(s)}] \in V
    BY LeftFoldExists
  <2>2. \A s \in SUBSET (1 .. n) : s = {} => it[s] = base
    BY <2>1 DEF LeftStep
  <2>3. LeftFold(it, base, step, n, V)
    BY <2>1, <2>2, LeftFoldHolds
  <2> QED
    BY <2>3
<1>2. PICK f : f = [i \in 0 .. n |-> it[1 .. i]]
  OBVIOUS
<1>3. \A i \in 0 .. n : 1 .. i \in SUBSET (1 .. n)
  OBVIOUS
<1>4. f \in [0 .. n -> V]
  BY <1>1, <1>2, <1>3 DEF LeftFold
<1>5. f[0] = base
  <2>1. f[0] = it[{}] /\ {} \in SUBSET (1 .. n)
    BY <1>2
  <2> QED
    BY <1>1, <2>1 DEF LeftFold, LeftStep
<1>6. ASSUME NEW i \in 1 .. n PROVE f[i] = step[<<i, f[i - 1]>>]
  <2>1. it[1 .. i] = step[<<i, it[1 .. i - 1]>>]
    BY <1>1, LeftFoldOnward
  <2>2. i \in 0 .. n /\ i - 1 \in 0 .. n
    OBVIOUS
  <2> QED
    BY <1>2, <2>1, <2>2
<1> QED
  BY <1>4, <1>5, <1>6

\* A recurrence on the integers that starts at zero has a solution.
LEMMA NumbersExist ==
  ASSUME NEW n \in Nat, NEW step, StaysIn(step, 1 .. n, Int)
  PROVE  \E f : /\ f \in [0 .. n -> Int] /\ f[0] = 0
                /\ \A i \in 1 .. n : f[i] = step[<<i, f[i - 1]>>]
<1>1. PICK V, base : V = Int /\ base = 0
  OBVIOUS
<1>2. StaysIn(step, 1 .. n, V)
  BY <1>1
<1>3. base \in V
  BY <1>1
<1>4. \E f : f \in [0 .. n -> V] /\ f[0] = base /\ \A i \in 1 .. n : f[i] = step[<<i, f[i - 1]>>]
  BY <1>2, <1>3, RecurrenceExists
<1> QED
  BY <1>1, <1>4

\* A fold is a loop.
LEMMA FoldIsLoop ==
  ASSUME NEW N \in Nat, NEW V, NEW base \in V, NEW step, NEW it, LeftFold(it, base, step, N, V),
         NEW f, f[0] = base, \A n \in 1 .. N : f[n - 1] \in V => f[n] = step[<<n, f[n - 1]>>]
  PROVE  \A n \in 0 .. N : f[n] = it[1 .. n] /\ f[n] \in V
<1>4. \A k \in 1 .. N : it[1 .. k] = step[<<k, it[1 .. k - 1]>>]
  BY LeftFoldOnward
<1> DEFINE Good == {n \in 0 .. N : f[n] = it[1 .. n] /\ f[n] \in V}
<1>1. 0 \in Good
  <2>1. 1 .. 0 = {} /\ {} \in SUBSET (1 .. N) /\ 0 \in 0 .. N
    OBVIOUS
  <2>2. it[{}] = base
    BY <2>1 DEF LeftFold, LeftStep
  <2> QED
    BY <2>1, <2>2
<1>2. ASSUME NEW n \in 0 .. N, n < N, n \in Good PROVE n + 1 \in Good
  <2>1. n + 1 \in 1 .. N /\ (n + 1) - 1 = n /\ n + 1 \in 0 .. N
    BY <1>2
  <2>2. PICK k \in 1 .. N : k = n + 1 /\ k - 1 = n
    BY <2>1
  <2>3. it[1 .. k] = step[<<k, it[1 .. k - 1]>>]
    BY <1>4
  <2>4. f[k] = step[<<k, f[k - 1]>>]
    BY <1>2, <2>2
  <2>5. f[k] = it[1 .. k]
    BY <1>2, <2>2, <2>3, <2>4
  <2>6. it[1 .. k] \in V
    <3>1. 1 .. k \in SUBSET (1 .. N)
      OBVIOUS
    <3> QED
      BY <3>1 DEF LeftFold
  <2> QED
    BY <2>1, <2>2, <2>5, <2>6
<1> HIDE DEF Good
<1>3. 0 .. N \subseteq Good
  BY <1>1, <1>2, CountingUp
<1> QED
  BY <1>3 DEF Good

\* A sum over two sets that share nothing.
LEMMA SumOfUnion ==
  ASSUME NEW A, NEW B, IsFiniteSet(A), IsFiniteSet(B), A \cap B = {},
         NEW g, \A c \in A \cup B : g[c] \in Int
  PROVE  SumOver(g, A \cup B) = SumOver(g, A) + SumOver(g, B)
<1> DEFINE Bad == {s \in SUBSET B : SumOver(g, A \cup s) # SumOver(g, A) + SumOver(g, s)}
<1>1. SUFFICES ASSUME Bad # {} PROVE FALSE
  OBVIOUS
<1>2. PICK s \in Bad : \A r \in Bad : r \subseteq s => r = s
  <2> HIDE DEF Bad
  <2>1. Bad \subseteq SUBSET B
    BY DEF Bad
  <2> QED
    BY <1>1, <2>1, SmallestSubset
<1>3. IsFiniteSet(s) /\ \A c \in s : g[c] \in Int
  BY FS_Subset
<1>4. IsFiniteSet(A \cup s) /\ \A c \in A \cup s : g[c] \in Int
  BY <1>3, FS_Union
<1>5. PICK a \in Int : a = SumOver(g, A)
  <2>1. \A c \in A : g[c] \in Int
    OBVIOUS
  <2> QED
    BY <2>1, SumIsNumber
<1>6. CASE s = {}
  <2>1. SumOver(g, s) = 0 /\ A \cup s = A
    BY <1>6, SumOfNone
  <2>2. a = a + 0
    OBVIOUS
  <2> QED
    BY <1>5, <2>1, <2>2
<1>7. CASE s # {}
  <2>1. PICK y : y \in s
    BY <1>7
  <2>2. PICK r : r = s \ {y}
    OBVIOUS
  <2>3. r \in SUBSET B /\ r \subseteq s /\ r # s /\ (A \cup s) \ {y} = A \cup r
    BY <2>1, <2>2
  <2>4. SumOver(g, A \cup r) = a + SumOver(g, r)
    BY <1>2, <1>5, <2>3
  <2>5. SumOver(g, s) = g[y] + SumOver(g, r)
    BY <1>3, <2>1, <2>2, SumWithout
  <2>6. SumOver(g, A \cup s) = g[y] + SumOver(g, A \cup r)
    <3>1. y \in A \cup s
      BY <2>1
    <3>2. SumOver(g, A \cup s) = g[y] + SumOver(g, (A \cup s) \ {y})
      BY <1>4, <3>1, SumWithout
    <3> QED
      BY <2>3, <3>2
  <2>7. PICK n \in Int : n = SumOver(g, r)
    <3>1. IsFiniteSet(r) /\ \A c \in r : g[c] \in Int
      BY <1>3, <2>2, FS_Subset
    <3> QED
      BY <3>1, SumIsNumber
  <2>8. g[y] \in Int
    BY <1>3, <2>1
  <2>9. g[y] + (a + n) = a + (g[y] + n)
    BY <2>8
  <2>10. SumOver(g, A \cup s) = SumOver(g, A) + SumOver(g, s)
    BY <1>5, <2>4, <2>5, <2>6, <2>7, <2>9
  <2> QED
    BY <2>10
<1> QED
  BY <1>6, <1>7

\* A sum up to k is one up to k - 1, and the last.
LEMMA SumOnward ==
  ASSUME NEW g, NEW k \in Nat, \A c \in 0 .. k : g[c] \in Int
  PROVE  SumOver(g, 0 .. k) = g[k] + SumOver(g, 0 .. k - 1)
<1>1. PICK S : S = 0 .. k
  OBVIOUS
<1>2. IsFiniteSet(S)
  BY <1>1, FS_Interval
<1>3. (\A c \in S : g[c] \in Int) /\ k \in S /\ S \ {k} = 0 .. k - 1
  BY <1>1
<1>4. SumOver(g, S) = g[k] + SumOver(g, S \ {k})
  BY <1>2, <1>3, SumWithout
<1> QED
  BY <1>1, <1>3, <1>4
=============================================================================
