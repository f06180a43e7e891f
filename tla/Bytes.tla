------------------------------- MODULE Bytes -------------------------------
(* Fixed-width machine words as little-endian sequences of bytes: uint32_t  *)
(* is four of them, int64_t eight, __int128 Wide (see there). A word and    *)
(* the two's complement of a negative number have the same bytes, so the    *)
(* operations below wrap as the machine's do; only Sext, Sar and Low32 read *)
(* a sign.                                                                  *)
EXTENDS Evaluation, Integers, Sequences, FiniteSetsExt

\* The bytes kept of an __int128: it holds products of 41 and 33 bits.
Wide == 10

LOCAL Digits(w) == 1 .. Len(w)

\* The bytes of the integer n, which is within 32 bits, in a word of len bytes.
Word(n, len) ==
  [i \in 1 .. len |-> IF i <= 4 THEN (n \div 256^(i - 1)) % 256
                                ELSE IF n < 0 THEN 255 ELSE 0]

\* The word of two 16-bit halves (for constants of 32 bits).
Halves(hi, lo) == <<lo % 256, lo \div 256, hi % 256, hi \div 256>>

\* Column sums, possibly negative or above 255, as bytes.
Carried(sums) ==
  LET carried(s) ==
        LET carry[i \in 0 .. Len(s)] == IF i = 0 THEN 0 ELSE (s[i] + carry[i - 1]) \div 256
        IN  [i \in Digits(s) |-> (s[i] + carry[i - 1]) % 256]
  IN  Evaluated(Applied(carried, sums))

Negative(w) == w[Len(w)] >= 128

\* Conversions to len bytes: of an unsigned word, and of a signed one.
Zext(w, len) == [i \in 1 .. len |-> IF i <= Len(w) THEN w[i] ELSE 0]
Sext(w, len) ==
  [i \in 1 .. len |-> IF i <= Len(w) THEN w[i]
                                     ELSE IF Negative(w) THEN 255 ELSE 0]

Plus(v, w)  == Carried([i \in Digits(v) |-> v[i] + w[i]])
Minus(v, w) == Carried([i \in Digits(v) |-> v[i] - w[i]])
Negate(w)   == Carried([i \in Digits(w) |-> -w[i]])

\* The product of two words of the same width, in that width.
Times(v, w) ==
  LET product(a, b) ==
        LET column(i) ==
              LET sum[j \in 0 .. i] == IF j = 0 THEN 0 ELSE sum[j - 1] + a[j] * b[i + 1 - j]
              IN  sum[i]
        IN  Carried([i \in Digits(a) |-> column(i)])
  IN  Applied(LAMBDA a : Applied(LAMBDA b : product(a, b), w), v)

LOCAL ByteAt(w, i, fill) ==
  IF i < 1 THEN 0 ELSE IF i > Len(w) THEN fill ELSE w[i]

Shl(w, s) ==
  LET q == s \div 8
      r == 2^(s % 8)
  IN  [i \in Digits(w) |->
         (ByteAt(w, i - q, 0) * r + ((ByteAt(w, i - q - 1, 0) * r) \div 256)) % 256]

LOCAL ShiftedRight(w, s, fill) ==
  LET q == s \div 8
      r == 2^(s % 8)
  IN  [i \in Digits(w) |->
         ((ByteAt(w, i + q, fill) + ByteAt(w, i + q + 1, fill) * 256) \div r) % 256]

Shr(w, s) == ShiftedRight(w, s, 0)
Sar(w, s) == ShiftedRight(w, s, IF Negative(w) THEN 255 ELSE 0)

IsZero(w) == \A i \in Digits(w) : w[i] = 0

\* v < w as unsigned words of the same width.
Below(v, w) ==
  \E i \in Digits(v) : v[i] < w[i] /\ \A j \in i + 1 .. Len(v) : v[j] = w[j]

\* The integer a word of at most 32 bits stands for when it is signed, and
\* that of the low 32 bits of a longer one (a cast to int32_t).
Low32(w) ==
  LET n   == IF Len(w) < 4 THEN Len(w) ELSE 4
      top == IF w[n] >= 128 THEN w[n] - 256 ELSE w[n]
  IN  top * 256^(n - 1) + MapThenSumSet(LAMBDA i : w[i] * 256^(i - 1), 1 .. n - 1)
=============================================================================
