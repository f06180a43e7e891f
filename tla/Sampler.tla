------------------------------ MODULE Sampler ------------------------------
(* How the next token is chosen from the logits. A probability is a weight  *)
(* from softmax over the sum of the weights; a coin is a number c of Coins, *)
(* for c / Coins; topp is Topp[1] / Topp[2]. Logits are functions from the  *)
(* tokens, 0 .. n - 1.                                                      *)
EXTENDS LlamaMath, FiniteSets

CONSTANTS Coins, Topp

ASSUME SamplerAssumption ==
  /\ Coins \in Nat \ {0}
  /\ Topp \in Nat \X (Nat \ {0}) /\ 0 < Topp[1] /\ Topp[1] < Topp[2]

sample_argmax(x, n) == CHOOSE i \in 0 .. n - 1 :
  \A j \in 0 .. n - 1 : x[i] > x[j] \/ (x[i] = x[j] /\ i <= j)

\* The first place of a sequence of weights where coin * whole is below the sum
\* up to there; the last one if there is none.
Drawn(weights, whole, coin) ==
  LET below == {i \in DOMAIN weights :
                  coin * whole < Coins * FoldLeft(LAMBDA a, b : a + b, 0, SubSeq(weights, 1, i))}
  IN  IF below = {} THEN Len(weights) ELSE Min(below)

sample_mult(p, n, coin) == Drawn([i \in 1 .. n |-> p.exp[i - 1]], p.sum, coin) - 1

\* More probable first. What qsort does with equal probabilities is not said;
\* two of the possible orders are up and down.
Sorted(p, tokens, up) ==
  LET before(a, b) == \/ p.exp[a] > p.exp[b]
                      \/ p.exp[a] = p.exp[b] /\ IF up THEN a < b ELSE a > b
  IN  [i \in 1 .. Cardinality(tokens) |->
         CHOOSE a \in tokens : Cardinality({b \in tokens : before(b, a)}) = i - 1]

\* Probabilities below (1 - topp) / (n - 1) are left out before sorting.
Candidates(p, n) ==
  {i \in 0 .. n - 1 : p.exp[i] * Topp[2] * (n - 1) >= (Topp[2] - Topp[1]) * p.sum}

\* A mutant of Truncated: all candidates stay.
Untruncated(weights, whole) == weights

\* The weights of the shortest prefix that exceeds topp.
Truncated(weights, whole) ==
  LET mass(i) == FoldLeft(LAMBDA a, b : a + b, 0, SubSeq(weights, 1, i))
      over == {i \in DOMAIN weights : mass(i) * Topp[2] > Topp[1] * whole}
  IN  SubSeq(weights, 1, IF over = {} THEN Len(weights) ELSE Min(over))

sample_topp(p, n, coin, up) ==
  LET drawn(probindex, weights) ==
        probindex[Drawn(weights, FoldLeft(LAMBDA a, b : a + b, 0, weights), coin)]
      from(probindex) ==
        Applied(LAMBDA weights : drawn(probindex, weights),
                Truncated([i \in DOMAIN probindex |-> p.exp[probindex[i]]], p.sum))
  IN  Applied(from, Sorted(p, Candidates(p, n), up))

\* The modes of the sampler: temperature 0 is greedy, topp switches sample_topp.
SamplerModes == {"greedy", "multinomial", "nucleus"}

sample(logits, n, mode, coin, up) ==
  LET drawn(p) == IF mode = "nucleus" THEN sample_topp(p, n, coin, up) ELSE sample_mult(p, n, coin)
  IN  IF mode = "greedy" THEN sample_argmax(logits, n) ELSE Applied(drawn, softmax(logits, n))
=============================================================================
