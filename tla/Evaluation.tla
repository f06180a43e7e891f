----------------------------- MODULE Evaluation -----------------------------
(* Ways to write x and F(x) that have TLC compute x once. TLC evaluates the *)
(* argument of an operator, the accumulator of a fold and a LET inside an   *)
(* action anew at each use.                                                 *)

\* x itself; a function is computed at all its arguments.
Evaluated(x) == CHOOSE y \in {x} : y = y

\* F(x).
Applied(F(_), x) == CHOOSE z \in {F(y) : y \in {Evaluated(x)}} : TRUE
=============================================================================
