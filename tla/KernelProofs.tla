---------------------------- MODULE KernelProofs ----------------------------
(* Of the attention kernel, that what its loop over the keys of a row comes *)
(* to, the arithmetic in bytes and lanes included, is what the C model of   *)
(* the RTL computes; that its counters are what its tiles come to; and when *)
(* a row has some weight. For every shape of the kernel and every operand.  *)
(* And of the pipelines of the RTL core, that what comes out of them is     *)
(* what the C model computes, for every shape of the core and its tiles.    *)
EXTENDS HostSystemProofs

-----------------------------------------------------------------------------
(* The kernels (src/fpga/common) and the C model of the RTL                 *)
(* (src/cmodel/csrc) write their arithmetic in different words. It is the   *)
(* same: first saturation, casts and the weight of a key.                   *)

\* A number between the ends of int16_t is one.
LEMMA ShortRange ==
  ASSUME NEW m \in Int, m >= -32768, m <= 32767
  PROVE  m \in S16
<1>1. PICK a \in Int, b \in Int : a = -32768 /\ b = 32767
  OBVIOUS
<1>2. S16 = a .. b
  BY <1>1 DEF S16
<1>3. m >= a /\ m <= b
  BY <1>1
<1>4. m \in a .. b
  BY <1>3
<1> QED
  BY <1>2, <1>4

\* The saturation of the kernel and that of the model (sat_s16) agree.
LEMMA SameSaturation ==
  ASSUME NEW v \in Int
  PROVE  sat_s16(v) \in S16 /\ Queue!sat_s16(v) = sat_s16(v)
<1>1. CASE v > 32767
  BY <1>1 DEF sat_s16, Queue!sat_s16, Queue!Between, S16
<1>2. CASE v < -32768
  BY <1>2 DEF sat_s16, Queue!sat_s16, Queue!Between, S16
<1>3. CASE v >= -32768 /\ v <= 32767
  <2>1. v \in S16
    BY <1>3, ShortRange
  <2>2. sat_s16(v) = v /\ Queue!sat_s16(v) = v
    BY <1>3 DEF sat_s16, Queue!sat_s16, Queue!Between
  <2> QED
    BY <2>1, <2>2
<1> QED
  BY <1>1, <1>2, <1>3

\* The products of two Q8.8 numbers agree (q8_8_mul_sat).
LEMMA SameScaling ==
  ASSUME NEW a \in Int, NEW b \in Int
  PROVE  q8_8_mul_sat(a, b) \in S16 /\ Queue!q8_8_mul_sat(a, b) = q8_8_mul_sat(a, b)
<1>1. PICK n \in Int : n = a * b
  OBVIOUS
<1>2. RoundShift8(n) \in Int /\ RoundShift8(n) = (n + IF n >= 0 THEN 128 ELSE -128) \div 256
  BY DEF RoundShift8
<1> QED
  BY <1>1, <1>2, SameSaturation DEF q8_8_mul_sat, Queue!q8_8_mul_sat

\* A cast to int16_t keeps the low sixteen bits in both.
LEMMA SameCast ==
  ASSUME NEW n \in Int
  PROVE  ToS16(n) \in S16 /\ Queue!AsInt16(n) = ToS16(n)
<1>1. (n + 32768) % 65536 = IF n % 65536 < 32768 THEN (n % 65536) + 32768 ELSE (n % 65536) - 32768
  OBVIOUS
<1>2. PICK r \in Int : r = n % 65536
  OBVIOUS
<1>9. 0 <= r /\ r < 65536
  BY <1>2
<1>3. ToS16(n) = (IF r < 32768 THEN r + 32768 ELSE r - 32768) - 32768
  BY <1>1, <1>2 DEF ToS16
<1>4. Queue!AsInt16(n) = IF r < 32768 THEN r ELSE r - 65536
  BY <1>2 DEF Queue!AsInt16
<1>5. PICK m : m = IF r < 32768 THEN r ELSE r - 65536
  OBVIOUS
<1>6. m >= -32768 /\ m <= 32767 /\ m \in Int
  BY <1>5, <1>9
<1>8. m = (IF r < 32768 THEN r + 32768 ELSE r - 32768) - 32768
  BY <1>5, <1>9
<1>7. m \in S16
  BY <1>6, ShortRange
<1> QED
  BY <1>3, <1>4, <1>5, <1>7, <1>8

\* The powers of two that weights are shifted by are natural numbers.
LEMMA PowersOfTwo ==
  ASSUME NEW e \in 0 .. 15
  PROVE  \E k \in Nat \ {0} : k = 2^e
<1>1. e \in {0, 1, 2, 3, 4, 5, 6, 7, 8, 9, 10, 11, 12, 13, 14, 15}
  OBVIOUS
<1>2. /\ 2^0 = 1 /\ 2^1 = 2 /\ 2^2 = 4 /\ 2^3 = 8 /\ 2^4 = 16 /\ 2^5 = 32 /\ 2^6 = 64 /\ 2^7 = 128
      /\ 2^8 = 256 /\ 2^9 = 512 /\ 2^10 = 1024 /\ 2^11 = 2048 /\ 2^12 = 4096 /\ 2^13 = 8192
      /\ 2^14 = 16384 /\ 2^15 = 32768
  OBVIOUS
<1>3. CASE e = 0
  BY <1>2, <1>3
<1>4. CASE e = 1
  BY <1>2, <1>4
<1>5. CASE e = 2
  BY <1>2, <1>5
<1>6. CASE e = 3
  BY <1>2, <1>6
<1>7. CASE e = 4
  BY <1>2, <1>7
<1>8. CASE e = 5
  BY <1>2, <1>8
<1>9. CASE e = 6
  BY <1>2, <1>9
<1>10. CASE e = 7
  BY <1>2, <1>10
<1>11. CASE e = 8
  BY <1>2, <1>11
<1>12. CASE e = 9
  BY <1>2, <1>12
<1>13. CASE e = 10
  BY <1>2, <1>13
<1>14. CASE e = 11
  BY <1>2, <1>14
<1>15. CASE e = 12
  BY <1>2, <1>15
<1>16. CASE e = 13
  BY <1>2, <1>16
<1>17. CASE e = 14
  BY <1>2, <1>17
<1>18. CASE e = 15
  BY <1>2, <1>18
<1> QED
  BY <1>1, <1>3, <1>4, <1>5, <1>6, <1>7, <1>8, <1>9, <1>10, <1>11, <1>12, <1>13, <1>14, <1>15, <1>16, <1>17, <1>18

\* A number halved up to fifteen times is a number.
LEMMA Halvings ==
  ASSUME NEW n \in Int, NEW e \in 0 .. 15
  PROVE  n \div 2^e \in Int
<1>1. PICK k \in Nat \ {0} : k = 2^e
  BY PowersOfTwo
<1>2. n \div k \in Int
  OBVIOUS
<1> QED
  BY <1>1, <1>2

\* The same for the exponent that exp2 takes out of its argument.
LEMMA HalvingsOf ==
  ASSUME NEW n \in Int, NEW z \in Nat, ~(z \div 256 >= 16)
  PROVE  n \div 2^(z \div 256) \in Int
<1>1. PICK e \in 0 .. 15 : e = z \div 256
  OBVIOUS
<1>2. n \div 2^e \in Int
  BY Halvings
<1> QED
  BY <1>1, <1>2

\* The weight of a key in base two is the same in the kernel and in the model.
LEMMA SameExp2 ==
  ASSUME NEW x \in Int
  PROVE  exp2_ctx_q1_15(x) \in Int /\ Queue!exp2_ctx_step_q1_15(x) = exp2_ctx_q1_15(x)
<1>1. PICK mag \in 0 .. 4096 : mag = IF x > 0 THEN 0 ELSE IF x < -4096 THEN 4096 ELSE -x
  OBVIOUS
<1>2. Queue!Between(0, -x, 4096) = mag
  BY <1>1 DEF Queue!Between
<1>3. PICK z \in Nat : z = (mag * 369 + 128) \div 256
  OBVIOUS
<1>4. Queue!ExponentOf(x) = z
  BY <1>2, <1>3 DEF Queue!ExponentOf
<1>5. (z \div 8) % 32 = (z % 256) \div 8 /\ (z \div 8) % 32 \in 0 .. 31 /\ (z \div 256 >= 16 <=> z >= 4096)
  OBVIOUS
<1>6. PICK t : t = Exp2Table
  OBVIOUS
<1>7. Queue!kCtxExp2Table = t
  BY <1>6 DEF Exp2Table, Queue!kCtxExp2Table
<1>8. \A i \in 1 .. 32 : t[i] \in Int
  BY <1>6 DEF Exp2Table
<1>9. PICK i \in 1 .. 32 : i = ((z \div 8) % 32) + 1
  BY <1>5
<1>10. exp2_ctx_q1_15(x) = IF z \div 256 >= 16 THEN 0 ELSE t[i] \div 2^(z \div 256)
  BY <1>1, <1>3, <1>6, <1>9 DEF exp2_ctx_q1_15
<1>11. Queue!exp2_ctx_step_q1_15(x) = IF z >= 16 * 256 THEN 0 ELSE t[i] \div 2^(z \div 256)
  BY <1>4, <1>5, <1>7, <1>9 DEF Queue!exp2_ctx_step_q1_15
<1>12. CASE z \div 256 >= 16
  BY <1>5, <1>10, <1>11, <1>12
<1>13. CASE ~(z \div 256 >= 16)
  <2>1. PICK n \in Int : n = t[i]
    BY <1>8
  <2>2. n \div 2^(z \div 256) \in Int
    BY <1>13, HalvingsOf
  <2> QED
    BY <1>5, <1>10, <1>11, <1>13, <2>1, <2>2
<1> QED
  BY <1>12, <1>13

\* The piecewise linear weight of the strict kernel is the model's (exp_pwl_q1_15).
LEMMA SamePwl ==
  ASSUME NEW x \in Int
  PROVE  exp_pwl_q1_15(x) \in Int /\ Queue!exp_pwl_q1_15(x) = exp_pwl_q1_15(x)
<1>1. PICK u \in 0 .. 2048 : u = IF x > 0 THEN 0 ELSE IF x < -2048 THEN 2048 ELSE -x
  OBVIOUS
<1>2. Queue!Between(0, -x, 2048) = u
  BY <1>1 DEF Queue!Between
<1>3. PICK seg, frac : seg = (IF u \div 256 >= 8 THEN 7 ELSE u \div 256)
                       /\ frac = (IF u \div 256 >= 8 THEN 255 ELSE u % 256)
  OBVIOUS
<1>4. seg \in 0 .. 7 /\ frac \in 0 .. 255 /\ (u \div 256 >= 8 <=> u = 2048)
  BY <1>3
<1>5. PICK y0, y1 : y0 = PwlTable[seg + 1] /\ y1 = PwlTable[seg + 2]
  OBVIOUS
<1>6. y0 \in Int /\ y1 \in Int /\ Queue!PwlSegments[seg + 1] = <<y0, y1>>
  <2>1. seg \in {0, 1, 2, 3, 4, 5, 6, 7}
    BY <1>4
  <2> QED
    BY <1>5, <2>1 DEF PwlTable, Queue!PwlSegments
<1>7. exp_pwl_q1_15(x) = y0 - ((y0 - y1) * frac) \div 256
  BY <1>1, <1>3, <1>5 DEF exp_pwl_q1_15
<1>8. (IF u = 2048 THEN 8 ELSE (u \div 256) + 1) = seg + 1 /\ (IF u = 2048 THEN 255 ELSE u % 256) = frac
  BY <1>3, <1>4
<1>9. Queue!exp_pwl_q1_15(x) = y0 - ((y0 - y1) * frac) \div 256
  BY <1>2, <1>6, <1>8 DEF Queue!exp_pwl_q1_15
<1>10. y0 - ((y0 - y1) * frac) \div 256 \in Int
  BY <1>4, <1>6
<1> QED
  BY <1>7, <1>9, <1>10

\* What is left of an earlier sum when the maximum moves is the same in both.
LEMMA SameDecay ==
  ASSUME NEW a \in Int, NEW e \in Int
  PROVE  ScaledQ1_15(a, e) \in Int /\ Queue!Scaled(a, e) = ScaledQ1_15(a, e)
<1>1. 2^15 = 32768
  OBVIOUS
<1>2. PICK hi \in Int, lo \in Int : hi = a \div 32768 /\ lo = a % 32768 /\ a = 32768 * hi + lo
  OBVIOUS
<1>3. a - hi * 32768 = lo /\ hi * e \in Int /\ lo * e \in Int
  BY <1>2
<1> QED
  BY <1>1, <1>2, <1>3 DEF ScaledQ1_15, Queue!Scaled

-----------------------------------------------------------------------------
(* Machine words as bytes: the carries of a sum and the columns of a        *)
(* product are numbers, and what Carried and Times make of bytes are bytes. *)

\* A function on 1 .. n is a sequence of that length.
LEMMA LengthOf ==
  ASSUME NEW n \in Nat, NEW V, NEW s \in [1 .. n -> V]
  PROVE  s \in Seq(V) /\ Len(s) = n /\ DOMAIN s = 1 .. n
OBVIOUS

\* The carries of column sums.
Carries(s, n, carry) ==
  /\ carry \in [0 .. n -> Int] /\ carry[0] = 0
  /\ \A i \in 1 .. n : carry[i] = (s[i] + carry[i - 1]) \div 256

\* Column sums have such carries.
LEMMA CarriesExist ==
  ASSUME NEW n \in Nat, NEW s \in [1 .. n -> Int]
  PROVE  \E carry : Carries(s, n, carry)
<1>1. PICK step : step = [at \in (1 .. n) \X Int |-> (s[at[1]] + at[2]) \div 256]
  OBVIOUS
<1>2. StaysIn(step, 1 .. n, Int)
  BY <1>1 DEF StaysIn
<1>3. PICK f : f \in [0 .. n -> Int] /\ f[0] = 0 /\ \A i \in 1 .. n : f[i] = step[<<i, f[i - 1]>>]
  BY <1>2, NumbersExist
<1>4. ASSUME NEW i \in 1 .. n PROVE f[i] = (s[i] + f[i - 1]) \div 256
  <2>1. f[i - 1] \in Int
    BY <1>3
  <2> QED
    BY <1>1, <1>3, <2>1
<1> QED
  BY <1>3, <1>4 DEF Carries

\* Carried is the column sums with the carries added, a byte of each.
LEMMA CarriedOn ==
  ASSUME NEW n \in Nat, NEW s \in [1 .. n -> Int]
  PROVE  \E carry : /\ Carries(s, n, carry)
                    /\ Carried(s) = [i \in 1 .. n |-> (s[i] + carry[i - 1]) % 256]
<1> DEFINE Body(f) == [i \in 0 .. Len(s) |-> IF i = 0 THEN 0 ELSE (s[i] + f[i - 1]) \div 256]
           carry == CHOOSE f : f = Body(f)
           Result(x) == LET c == CHOOSE f : f = [i \in 0 .. Len(x) |-> IF i = 0 THEN 0 ELSE (x[i] + f[i - 1]) \div 256]
                        IN  [i \in 1 .. Len(x) |-> (x[i] + c[i - 1]) % 256]
<1>1. Carried(s) = [i \in 1 .. Len(s) |-> (s[i] + carry[i - 1]) % 256]
  <2>1. Carried(s) = Evaluated(Applied(Result, s))
    BY DEF Carried
  <2>2. Result(s) = [i \in 1 .. Len(s) |-> (s[i] + carry[i - 1]) % 256]
    OBVIOUS
  <2> HIDE DEF Result
  <2>3. Applied(Result, s) = Result(s)
    BY DEF Applied, Evaluated
  <2> QED
    BY <2>1, <2>2, <2>3 DEF Evaluated
<1>2. Len(s) = n
  BY LengthOf
<1>3. PICK c : Carries(s, n, c)
  BY CarriesExist
<1>4. c = Body(c)
  <2>1. \A i \in 0 .. n : c[i] = IF i = 0 THEN 0 ELSE (s[i] + c[i - 1]) \div 256
    BY <1>3 DEF Carries
  <2>2. c = [i \in 0 .. n |-> c[i]]
    BY <1>3 DEF Carries
  <2> QED
    BY <1>2, <2>1, <2>2
<1>5. carry = Body(carry)
  <2> HIDE DEF Body
  <2> QED
    BY <1>4
<1>6. PICK f : f = carry
  OBVIOUS
<1>7. f = [i \in 0 .. n |-> IF i = 0 THEN 0 ELSE (s[i] + f[i - 1]) \div 256]
  BY <1>2, <1>5, <1>6
<1>8. 0 .. n \subseteq {i \in 0 .. n : f[i] \in Int}
  <2>1. PICK S : S = {i \in 0 .. n : f[i] \in Int}
    OBVIOUS
  <2>2. 0 \in S
    BY <1>7, <2>1
  <2>3. ASSUME NEW k \in 0 .. n, k < n, k \in S PROVE k + 1 \in S
    <3>1. k + 1 \in 1 .. n /\ k + 1 \in 0 .. n /\ (k + 1) - 1 = k /\ k + 1 # 0
      BY <2>3
    <3>2. f[k + 1] = (s[k + 1] + f[k]) \div 256
      BY <1>7, <3>1
    <3>3. s[k + 1] \in Int /\ f[k] \in Int
      BY <2>1, <2>3, <3>1
    <3> QED
      BY <2>1, <3>1, <3>2, <3>3
  <2> QED
    BY <2>1, <2>2, <2>3, CountingUp
<1>9. Carries(s, n, f)
  BY <1>7, <1>8 DEF Carries
<1> QED
  BY <1>1, <1>2, <1>6, <1>9

\* Words of n bytes.
Byte == 0 .. 255
Word8(n) == [1 .. n -> Byte]

\* What Carried makes of column sums is a word of bytes.
LEMMA CarriedBytes ==
  ASSUME NEW n \in Nat, NEW s \in [1 .. n -> Int]
  PROVE  Carried(s) \in Word8(n)
<1>1. PICK carry : /\ Carries(s, n, carry)
                   /\ Carried(s) = [i \in 1 .. n |-> (s[i] + carry[i - 1]) % 256]
  BY CarriedOn
<1>2. ASSUME NEW i \in 1 .. n PROVE (s[i] + carry[i - 1]) % 256 \in Byte
  <2>1. s[i] \in Int /\ carry[i - 1] \in Int
    BY <1>1 DEF Carries
  <2>2. PICK x \in Int : x = s[i] + carry[i - 1]
    BY <2>1
  <2>3. x % 256 \in 0 .. 255
    OBVIOUS
  <2> QED
    BY <2>2, <2>3 DEF Byte
<1> QED
  BY <1>1, <1>2 DEF Word8

\* The partial sums of column i of a product.
ColumnSums(a, b, i, sum) ==
  sum = [j \in 0 .. i |-> IF j = 0 THEN 0 ELSE sum[j - 1] + a[j] * b[i + 1 - j]]

Column(a, b, i) == (CHOOSE sum : ColumnSums(a, b, i, sum))[i]

\* A column of a product is a number.
LEMMA ColumnIsNumber ==
  ASSUME NEW n \in Nat, NEW a \in [1 .. n -> Int], NEW b \in [1 .. n -> Int], NEW i \in 1 .. n
  PROVE  Column(a, b, i) \in Int
<1>1. PICK step : step = [at \in (1 .. i) \X Int |-> at[2] + a[at[1]] * b[i + 1 - at[1]]]
  OBVIOUS
<1>2. ASSUME NEW j \in 1 .. i, NEW x \in Int
      PROVE  step[<<j, x>>] = x + a[j] * b[i + 1 - j] /\ x + a[j] * b[i + 1 - j] \in Int
  <2>1. j \in 1 .. n /\ i + 1 - j \in 1 .. n
    OBVIOUS
  <2>2. PICK y \in Int, z \in Int : y = a[j] /\ z = b[i + 1 - j]
    BY <2>1
  <2>3. x + y * z \in Int
    OBVIOUS
  <2> QED
    BY <1>1, <2>2, <2>3
<1>3. PICK f : f \in [0 .. i -> Int] /\ f[0] = 0 /\ \A j \in 1 .. i : f[j] = step[<<j, f[j - 1]>>]
  <2>1. i \in Nat
    OBVIOUS
  <2>2. StaysIn(step, 1 .. i, Int)
    BY <1>2 DEF StaysIn
  <2> QED
    BY <2>1, <2>2, NumbersExist
<1>4. ASSUME NEW j \in 0 .. i
      PROVE  f[j] = IF j = 0 THEN 0 ELSE f[j - 1] + a[j] * b[i + 1 - j]
  <2>1. CASE j = 0
    BY <1>3, <2>1
  <2>2. CASE j # 0
    <3>1. j \in 1 .. i /\ f[j - 1] \in Int
      BY <1>3, <2>2
    <3> QED
      BY <1>2, <1>3, <2>2, <3>1
  <2> QED
    BY <2>1, <2>2
<1>5. ColumnSums(a, b, i, f)
  BY <1>3, <1>4 DEF ColumnSums
<1>6. PICK sum : sum = CHOOSE s : ColumnSums(a, b, i, s)
  OBVIOUS
<1>7. ColumnSums(a, b, i, sum)
  BY <1>5, <1>6
<1>8. 0 .. i \subseteq {j \in 0 .. i : sum[j] \in Int}
  <2>1. PICK S : S = {j \in 0 .. i : sum[j] \in Int}
    OBVIOUS
  <2>2. 0 \in S
    BY <1>7, <2>1 DEF ColumnSums
  <2>3. ASSUME NEW j \in 0 .. i, j < i, j \in S PROVE j + 1 \in S
    <3>1. j + 1 \in 0 .. i /\ j + 1 \in 1 .. i /\ (j + 1) - 1 = j /\ j + 1 # 0
      BY <2>3
    <3>2. sum[j + 1] = sum[j] + a[j + 1] * b[i + 1 - (j + 1)]
      BY <1>7, <3>1 DEF ColumnSums
    <3>3. sum[j] \in Int
      BY <2>1, <2>3
    <3> QED
      BY <1>2, <2>1, <3>1, <3>2, <3>3
  <2>4. i \in Nat
    OBVIOUS
  <2>5. 0 .. i \subseteq S
    BY <2>2, <2>3, <2>4, CountingUp
  <2> QED
    BY <2>1, <2>5
<1> QED
  BY <1>6, <1>8 DEF Column

\* A product of two words is a word.
LEMMA ProductBytes ==
  ASSUME NEW n \in Nat, NEW a \in [1 .. n -> Int], NEW b \in [1 .. n -> Int]
  PROVE  Times(a, b) \in Word8(n)
<1>1. Len(a) = n /\ Len(b) = n
  BY LengthOf
<1>2. Times(a, b) = Carried([i \in 1 .. n |-> Column(a, b, i)])
  <2> DEFINE Result(x, y) == Carried([i \in 1 .. Len(x) |-> Column(x, y, i)])
  <2>1. Times(a, b) = Applied(LAMBDA x : Applied(LAMBDA y : Result(x, y), b), a)
    BY DEF Times, Column, ColumnSums
  <2>2. Result(a, b) = Carried([i \in 1 .. n |-> Column(a, b, i)])
    BY <1>1
  <2> HIDE DEF Result
  <2>3. Applied(LAMBDA x : Applied(LAMBDA y : Result(x, y), b), a) = Result(a, b)
    BY DEF Applied, Evaluated
  <2> QED
    BY <2>1, <2>2, <2>3
<1>3. [i \in 1 .. n |-> Column(a, b, i)] \in [1 .. n -> Int]
  BY ColumnIsNumber
<1> QED
  BY <1>2, <1>3, CarriedBytes

-----------------------------------------------------------------------------
(* The queue and the kernel both use the words of Bytes.                    *)

\* The extensions, the sign and the test for zero of the words in the model are the kernel's.
LEMMA SameSigns ==
  ASSUME NEW w, NEW len
  PROVE  Queue!Zext(w, len) = Zext(w, len) /\ Queue!Sext(w, len) = Sext(w, len)
         /\ (Queue!Negative(w) <=> Negative(w)) /\ (Queue!IsZero(w) <=> IsZero(w))
BY DEF Queue!Zext, Zext, Queue!Sext, Sext, Queue!Negative, Negative, Queue!IsZero, IsZero

\* The constants of the words in the model are the kernel's.
LEMMA SameNumbers ==
  ASSUME NEW n, NEW len
  PROVE  Queue!Word(n, len) = Word(n, len) /\ Queue!Halves(n, len) = Halves(n, len) /\ Queue!Wide = Wide
BY DEF Queue!Word, Word, Queue!Halves, Halves, Queue!Wide, Wide

\* The shifts of the words in the model are the kernel's.
LEMMA SameShifts ==
  ASSUME NEW w, NEW s
  PROVE  Queue!Shl(w, s) = Shl(w, s) /\ Queue!Shr(w, s) = Shr(w, s) /\ Queue!Sar(w, s) = Sar(w, s)
BY DEF Queue!Shl, Shl, Queue!Shr, Shr, Queue!Sar, Sar, Queue!Negative, Negative

\* The carries of the words in the model are the kernel's.
LEMMA SameCarried ==
  ASSUME NEW s
  PROVE  Queue!Carried(s) = Carried(s)
BY DEF Queue!Carried, Carried, Queue!Applied, Applied, Queue!Evaluated, Evaluated

\* The sums and differences of the words in the model are the kernel's.
LEMMA SameSums ==
  ASSUME NEW v, NEW w
  PROVE  Queue!Plus(v, w) = Plus(v, w) /\ Queue!Minus(v, w) = Minus(v, w)
BY SameCarried DEF Queue!Plus, Plus, Queue!Minus, Minus

\* The products of the words in the model are the kernel's.
LEMMA SameProduct ==
  ASSUME NEW v, NEW w
  PROVE  Queue!Times(v, w) = Times(v, w)
BY SameCarried DEF Queue!Times, Times, Queue!Applied, Applied, Queue!Evaluated, Evaluated

\* The numbers in the low bytes of words in the model are the kernel's.
LEMMA SameLow32 ==
  ASSUME NEW w
  PROVE  Queue!Low32(w) = Low32(w)
BY DEF Queue!Low32, Low32, Queue!MapThenSumSet, MapThenSumSet, Queue!MapThenFoldSet, MapThenFoldSet

-----------------------------------------------------------------------------
(* Counting leading zeros: the kernel shifts until one is left, the model   *)
(* until nothing is.                                                        *)

\* The powers of two within a byte.
Powers(pow) ==
  /\ pow[0] = 1 /\ pow[1] = 2 /\ pow[2] = 4 /\ pow[3] = 8
  /\ pow[4] = 16 /\ pow[5] = 32 /\ pow[6] = 64 /\ pow[7] = 128

\* The bits of a byte.
Bits == {1, 2, 4, 8, 16, 32, 64, 128}

\* There is a table of those powers.
LEMMA PowerTable ==
  \E pow : Powers(pow) /\ \A e \in 0 .. 7 : pow[e] = 2^e
<1>1. PICK pow : pow = [e \in 0 .. 7 |-> 2^e]
  OBVIOUS
<1>2. /\ 2^0 = 1 /\ 2^1 = 2 /\ 2^2 = 4 /\ 2^3 = 8 /\ 2^4 = 16 /\ 2^5 = 32 /\ 2^6 = 64 /\ 2^7 = 128
  OBVIOUS
<1>3. /\ pow[0] = 2^0 /\ pow[1] = 2^1 /\ pow[2] = 2^2 /\ pow[3] = 2^3
      /\ pow[4] = 2^4 /\ pow[5] = 2^5 /\ pow[6] = 2^6 /\ pow[7] = 2^7
  BY <1>1
<1>4. Powers(pow)
  BY <1>2, <1>3 DEF Powers
<1> QED
  BY <1>1, <1>4

\* Two bytes shifted right leave nothing, or one, when the number is below the power, or
\* from it on but below twice as much.
LEMMA TwoDigits ==
  ASSUME NEW x \in Byte, NEW y \in Byte, NEW r \in Bits, y < r
  PROVE  /\ ((x + y * 256) \div r) % 256 = 0 <=> (x < r /\ y = 0)
         /\ ((x + y * 256) \div r) % 256 = 1 <=> (r <= x /\ x < 2 * r /\ y = 0)
<1>1. x \in 0 .. 255 /\ y \in 0 .. 255
  BY DEF Byte
<1>2. CASE r = 1
  BY <1>1, <1>2
<1>3. CASE r = 2
  BY <1>1, <1>3
<1>4. CASE r = 4
  BY <1>1, <1>4
<1>5. CASE r = 8
  BY <1>1, <1>5
<1>6. CASE r = 16
  BY <1>1, <1>6
<1>7. CASE r = 32
  BY <1>1, <1>7
<1>8. CASE r = 64
  BY <1>1, <1>8
<1>9. CASE r = 128
  BY <1>1, <1>9
<1> QED
  BY <1>2, <1>3, <1>4, <1>5, <1>6, <1>7, <1>8, <1>9 DEF Bits

\* The bytes of a word, each shifted right by less than a byte into the next.
ShiftedBy(b, r) == [i \in 1 .. 4 |-> ((b[i] + b[i + 1] * 256) \div r) % 256]

\* A word of four bytes shifted right by less than a byte leaves nothing, or one, when its
\* first byte is below the power, or from it on but below twice as much.
LEMMA ShiftDigits ==
  ASSUME NEW b \in [1 .. 5 -> Byte], b[5] = 0, NEW r \in Bits, NEW t, t = ShiftedBy(b, r)
  PROVE  /\ (\A i \in 1 .. 4 : t[i] = 0) <=> (b[1] < r /\ b[2] = 0 /\ b[3] = 0 /\ b[4] = 0)
         /\ (t[1] = 1 /\ t[2] = 0 /\ t[3] = 0 /\ t[4] = 0)
              <=> (r <= b[1] /\ b[1] < 2 * r /\ b[2] = 0 /\ b[3] = 0 /\ b[4] = 0)
<1>1. PICK b1 \in Byte, b2 \in Byte, b3 \in Byte, b4 \in Byte, b5 \in Byte :
        b1 = b[1] /\ b2 = b[2] /\ b3 = b[3] /\ b4 = b[4] /\ b5 = b[5]
  OBVIOUS
<1>2. /\ t[1] = ((b1 + b2 * 256) \div r) % 256 /\ t[2] = ((b2 + b3 * 256) \div r) % 256
      /\ t[3] = ((b3 + b4 * 256) \div r) % 256 /\ t[4] = ((b4 + b5 * 256) \div r) % 256
  BY <1>1 DEF ShiftedBy
<1>3. r > 0 /\ r \in Nat /\ b5 = 0
  BY <1>1 DEF Bits
<1>4. t[4] = 0 <=> b4 < r
  BY <1>2, <1>3, TwoDigits
<1>5. b4 < r => (t[3] = 0 <=> b3 < r /\ b4 = 0)
  BY <1>2, TwoDigits
<1>6. b3 < r => (t[2] = 0 <=> b2 < r /\ b3 = 0)
  BY <1>2, TwoDigits
<1>7. b2 < r => (t[1] = 0 <=> b1 < r /\ b2 = 0) /\ (t[1] = 1 <=> r <= b1 /\ b1 < 2 * r /\ b2 = 0)
  BY <1>2, TwoDigits
<1>8. (t[2] = 0 /\ t[3] = 0 /\ t[4] = 0) => b2 < r /\ b3 = 0 /\ b4 = 0
  BY <1>4, <1>5, <1>6
<1>9. b2 = 0 /\ b3 = 0 /\ b4 = 0 => t[2] = 0 /\ t[3] = 0 /\ t[4] = 0
  BY <1>3, <1>4, <1>5, <1>6
<1>10. (\A i \in 1 .. 4 : t[i] = 0) <=> (t[1] = 0 /\ t[2] = 0 /\ t[3] = 0 /\ t[4] = 0)
  OBVIOUS
<1> QED
  BY <1>1, <1>3, <1>7, <1>8, <1>9, <1>10

\* The bytes of a word from one on, zeros behind its end.
From(w, q) == [i \in 1 .. 5 |-> IF i + q <= 4 THEN w[i + q] ELSE 0]

\* What a word of n bytes is.
LEMMA ByteTypes ==
  ASSUME NEW n \in Nat, NEW w \in Word8(n)
  PROVE  /\ w \in [1 .. n -> Int] /\ w \in Seq(Int) /\ Len(w) = n /\ DOMAIN w = 1 .. n
         /\ \A i \in 1 .. n : w[i] \in 0 .. 255 /\ w[i] \in Byte
<1>1. w \in [1 .. n -> Byte]
  BY DEF Word8
<1>2. \A i \in 1 .. n : w[i] \in Byte
  BY <1>1
<1>3. Byte \subseteq Int /\ Byte = 0 .. 255
  BY DEF Byte
<1>4. w \in [1 .. n -> Int]
  BY <1>1, <1>3
<1> QED
  BY <1>2, <1>3, <1>4, LengthOf

\* Shr moves whole bytes, then the bits within them.
LEMMA ShiftRight ==
  ASSUME NEW w \in Word8(4), NEW m \in 0 .. 31, NEW q, q = m \div 8, NEW r, r = 2^(m % 8)
  PROVE  Shr(w, m) = ShiftedBy(From(w, q), r)
<1>1. Len(w) = 4
  BY ByteTypes
<1>2. q \in 0 .. 3
  OBVIOUS
<1>3. ASSUME NEW i \in 1 .. 4
      PROVE  /\ From(w, q)[i] = IF i + q < 1 THEN 0 ELSE IF i + q > 4 THEN 0 ELSE w[i + q]
             /\ From(w, q)[i + 1] = IF i + q + 1 < 1 THEN 0 ELSE IF i + q + 1 > 4 THEN 0 ELSE w[i + q + 1]
  BY <1>2 DEF From
<1> QED
  BY <1>1, <1>3 DEF Shr, ShiftedBy

\* The highest bit of a word that is not zero.
HighestBit(w, pow, h, e) ==
  /\ h \in 1 .. 4 /\ e \in 0 .. 7
  /\ pow[e] <= w[h] /\ w[h] < 2 * pow[e]
  /\ \A j \in h + 1 .. 4 : w[j] = 0

\* A word that is not zero has one.
LEMMA HighestBitExists ==
  ASSUME NEW w \in Word8(4), ~IsZero(w), NEW pow, Powers(pow)
  PROVE  \E h, e : HighestBit(w, pow, h, e)
<1>1. /\ \A i \in 1 .. 4 : w[i] \in 0 .. 255
      /\ \E i \in 1 .. 4 : w[i] # 0
  BY ByteTypes DEF IsZero
<1>2. PICK h \in 1 .. 4 : w[h] # 0 /\ \A j \in h + 1 .. 4 : w[j] = 0
  <2>1. CASE w[4] # 0
    BY <2>1
  <2>2. CASE w[4] = 0 /\ w[3] # 0
    BY <2>2
  <2>3. CASE w[4] = 0 /\ w[3] = 0 /\ w[2] # 0
    BY <2>3
  <2>4. CASE w[4] = 0 /\ w[3] = 0 /\ w[2] = 0
    BY <1>1, <2>4
  <2> QED
    BY <2>1, <2>2, <2>3, <2>4
<1>3. PICK x \in 0 .. 255 : x = w[h] /\ x # 0
  BY <1>1, <1>2
<1>4. \E e \in 0 .. 7 : pow[e] <= x /\ x < 2 * pow[e]
  <2>1. CASE x < 2
    BY <1>3, <2>1 DEF Powers
  <2>2. CASE x >= 2 /\ x < 4
    BY <1>3, <2>2 DEF Powers
  <2>3. CASE x >= 4 /\ x < 8
    BY <1>3, <2>3 DEF Powers
  <2>4. CASE x >= 8 /\ x < 16
    BY <1>3, <2>4 DEF Powers
  <2>5. CASE x >= 16 /\ x < 32
    BY <1>3, <2>5 DEF Powers
  <2>6. CASE x >= 32 /\ x < 64
    BY <1>3, <2>6 DEF Powers
  <2>7. CASE x >= 64 /\ x < 128
    BY <1>3, <2>7 DEF Powers
  <2>8. CASE x >= 128
    BY <1>3, <2>8 DEF Powers
  <2> QED
    BY <1>3, <2>1, <2>2, <2>3, <2>4, <2>5, <2>6, <2>7, <2>8
<1> QED
  BY <1>2, <1>3, <1>4 DEF HighestBit

\* Each power is at least twice the ones before it.
LEMMA PowersGrow ==
  ASSUME NEW pow, Powers(pow), NEW e \in 0 .. 7, NEW f \in 0 .. 7
  PROVE  pow[e] \in Bits /\ (e > f => pow[e] >= 2 * pow[f]) /\ (pow[e] > pow[f] <=> e > f)
<1>1. e \in {0, 1, 2, 3, 4, 5, 6, 7} /\ f \in {0, 1, 2, 3, 4, 5, 6, 7}
  OBVIOUS
<1>2. pow[e] \in Bits
  BY <1>1 DEF Powers, Bits
<1>3. e > f => pow[e] >= 2 * pow[f]
  BY <1>1 DEF Powers
<1>4. pow[e] > pow[f] <=> e > f
  BY <1>1 DEF Powers
<1> QED
  BY <1>2, <1>3, <1>4

\* Shifted right by m, a word is zero when m is above its highest bit, one when it is that bit.
LEMMA ShiftsOut ==
  ASSUME NEW w \in Word8(4), NEW pow, Powers(pow), \A e \in 0 .. 7 : pow[e] = 2^e,
         NEW h, NEW e, HighestBit(w, pow, h, e), NEW m \in 0 .. 31
  PROVE  /\ IsZero(Shr(w, m)) <=> m > 8 * (h - 1) + e
         /\ Shr(w, m) = Word(1, 4) <=> m = 8 * (h - 1) + e
<1>1. PICK q \in 0 .. 3, f \in 0 .. 7 : q = m \div 8 /\ f = m % 8 /\ m = 8 * q + f
  OBVIOUS
<1>2. PICK r \in Bits : r = pow[f] /\ r = 2^f
  BY PowersGrow
<1>3. PICK b : b = From(w, q)
  OBVIOUS
<1>4. PICK t : t = ShiftedBy(b, r)
  OBVIOUS
<1>5. Shr(w, m) = t
  BY <1>1, <1>2, <1>3, <1>4, ShiftRight
<1>6. \A i \in 1 .. 4 : w[i] \in 0 .. 255 /\ w[i] \in Byte
  BY ByteTypes
<1>7. b \in [1 .. 5 -> Byte] /\ b[5] = 0 /\ b[1] = w[q + 1]
  BY <1>3, <1>6 DEF From, Byte
<1>8. DOMAIN t = 1 .. 4 /\ Len(t) = 4
  BY <1>4 DEF ShiftedBy
<1>9. IsZero(t) <=> \A i \in 1 .. 4 : t[i] = 0
  BY <1>8 DEF IsZero
<1>10. t = Word(1, 4) <=> t[1] = 1 /\ t[2] = 0 /\ t[3] = 0 /\ t[4] = 0
  <2>1. Word(1, 4) = <<1, 0, 0, 0>>
    <3>1. 256^(1 - 1) = 1 /\ 256^(2 - 1) = 256 /\ 256^(3 - 1) = 65536 /\ 256^(4 - 1) = 16777216
      OBVIOUS
    <3>2. /\ Word(1, 4)[1] = 1 /\ Word(1, 4)[2] = 0 /\ Word(1, 4)[3] = 0 /\ Word(1, 4)[4] = 0
      BY <3>1 DEF Word
    <3> QED
      BY <3>2 DEF Word
  <2> QED
    BY <1>4, <2>1 DEF ShiftedBy
<1>11. /\ IsZero(t) <=> (b[1] < r /\ b[2] = 0 /\ b[3] = 0 /\ b[4] = 0)
       /\ t = Word(1, 4) <=> (r <= b[1] /\ b[1] < 2 * r /\ b[2] = 0 /\ b[3] = 0 /\ b[4] = 0)
  BY <1>4, <1>7, <1>9, <1>10, ShiftDigits
<1>13. h \in 1 .. 4 /\ e \in 0 .. 7 /\ \A j \in h + 1 .. 4 : w[j] = 0
  BY DEF HighestBit
<1>17. PICK k \in Bits : k = pow[e]
  BY <1>13, PowersGrow
<1>20. \A a \in 0 .. 7, c \in 0 .. 7 : (a > c => pow[a] >= 2 * pow[c]) /\ (pow[a] > pow[c] <=> a > c)
  BY PowersGrow
<1>21. r = pow[f] /\ k = pow[e] /\ e \in 0 .. 7 /\ f \in 0 .. 7
  BY <1>2, <1>13, <1>17
<1>18. (f > e => r >= 2 * k) /\ (r > k <=> f > e)
  BY <1>20, <1>21
<1>19. (e > f => k >= 2 * r) /\ (k > r <=> e > f)
  BY <1>20, <1>21
<1>12. PICK x : x = w[h] /\ x \in 0 .. 255 /\ x # 0 /\ k <= x /\ x < 2 * k
  <2>1. w[h] \in 0 .. 255
    BY <1>6, <1>13
  <2>2. k <= w[h] /\ w[h] < 2 * k
    BY <1>17 DEF HighestBit
  <2>3. k > 0 /\ k \in Nat
    BY DEF Bits
  <2>4. PICK x : x = w[h]
    OBVIOUS
  <2>5. x \in 0 .. 255 /\ k <= x /\ x < 2 * k
    BY <2>1, <2>2, <2>4
  <2>6. x # 0
    BY <2>3, <2>5
  <2> QED
    BY <2>4, <2>5, <2>6
<1>14. CASE q + 1 < h
  <2>1. h - q \in 2 .. 4 /\ b[h - q] = x
    BY <1>3, <1>12, <1>13, <1>14 DEF From
  <2>2. ~(b[2] = 0 /\ b[3] = 0 /\ b[4] = 0)
    BY <1>12, <2>1
  <2> QED
    BY <1>1, <1>5, <1>11, <1>13, <1>14, <2>2
<1>15. CASE q + 1 = h
  <2>1. b[1] = x /\ b[2] = 0 /\ b[3] = 0 /\ b[4] = 0
    BY <1>3, <1>7, <1>12, <1>13, <1>15 DEF From
  <2>4. r \in Nat /\ k \in Nat
    BY DEF Bits
  <2>2. x < r <=> f > e
    BY <1>12, <1>18, <1>19, <2>4
  <2>5. e = f => k = r
    BY <1>2, <1>17
  <2>3. (r <= x /\ x < 2 * r) <=> f = e
    BY <1>12, <1>13, <1>18, <1>19, <2>4, <2>5
  <2> QED
    BY <1>1, <1>5, <1>11, <1>13, <1>15, <2>1, <2>2, <2>3
<1>16. CASE q + 1 > h
  <2>1. b[1] = 0 /\ b[2] = 0 /\ b[3] = 0 /\ b[4] = 0
    BY <1>3, <1>7, <1>13, <1>16 DEF From
  <2>2. r > 0
    BY <1>2 DEF Bits
  <2> QED
    BY <1>1, <1>2, <1>5, <1>11, <1>13, <1>16, <2>1, <2>2
<1> QED
  BY <1>13, <1>14, <1>15, <1>16

\* Both ways of counting leading zeros count the bits above the highest.
LEMMA LeadingZeros ==
  ASSUME NEW w \in Word8(4), NEW pow, Powers(pow), \A e \in 0 .. 7 : pow[e] = 2^e,
         NEW h, NEW e, HighestBit(w, pow, h, e), NEW p, p = 8 * (h - 1) + e
  PROVE  /\ p \in 0 .. 31 /\ clz32_cpp(w) = 31 - p /\ Queue!clz32_cpp(w) = 31 - p
         /\ w = Word(1, 4) <=> p = 0
<1>1. h \in 1 .. 4 /\ e \in 0 .. 7 /\ p \in 0 .. 31
  BY DEF HighestBit
<1>2. \A m \in 0 .. 31 : /\ IsZero(Shr(w, m)) <=> m > p
                         /\ Shr(w, m) = Word(1, 4) <=> m = p
  BY ShiftsOut
<1>3. ~IsZero(w)
  <2>1. pow[e] \in Bits
    BY <1>1, PowersGrow
  <2>2. pow[e] <= w[h] /\ w[h] \in 0 .. 255 /\ Len(w) = 4
    BY <1>1, ByteTypes DEF HighestBit
  <2>3. w[h] # 0
    BY <2>1, <2>2 DEF Bits
  <2> QED
    BY <1>1, <2>2, <2>3 DEF IsZero
<1>4. clz32_cpp(w) = 31 - p
  <2>1. 31 - p \in 0 .. 31 /\ Shr(w, 31 - (31 - p)) = Word(1, 4)
    BY <1>1, <1>2
  <2>2. \A n \in 0 .. 31 : Shr(w, 31 - n) = Word(1, 4) => n = 31 - p
    BY <1>1, <1>2
  <2> QED
    BY <1>3, <2>1, <2>2 DEF clz32_cpp
<1>5. Queue!clz32_cpp(w) = 31 - p
  <2>1. {n \in 0 .. 31 : Queue!IsZero(Queue!Shr(w, n))} = p + 1 .. 31
    BY <1>1, <1>2, SameSigns, SameShifts
  <2>2. Cardinality(p + 1 .. 31) = 31 - p
    <3>1. PICK a \in Int, b \in Int : a = p + 1 /\ b = 31
      BY <1>1
    <3>2. Cardinality(a .. b) = IF a > b THEN 0 ELSE b - a + 1
      BY FS_Interval
    <3> QED
      BY <1>1, <3>1, <3>2
  <2>3. Queue!Cardinality(p + 1 .. 31) = Cardinality(p + 1 .. 31)
    BY DEF Queue!Cardinality, Cardinality
  <2> QED
    BY <2>1, <2>2, <2>3 DEF Queue!clz32_cpp
<1>6. Shr(w, 0) = w
  <2>1. Shr(w, 0) = ShiftedBy(From(w, 0), 1)
    <3>1. 2^(0 % 8) = 1 /\ 0 \div 8 = 0 /\ 0 \in 0 .. 31
      OBVIOUS
    <3> QED
      BY <3>1, ShiftRight
  <2>2. ASSUME NEW i \in 1 .. 4 PROVE ShiftedBy(From(w, 0), 1)[i] = w[i]
    <3>4. \A j \in 1 .. 4 : w[j] \in 0 .. 255
      BY ByteTypes
    <3>1. PICK x, y : x = w[i] /\ y = IF i = 4 THEN 0 ELSE w[i + 1]
      OBVIOUS
    <3>5. x \in 0 .. 255 /\ y \in 0 .. 255
      BY <3>1, <3>4
    <3>2. From(w, 0)[i] = x /\ From(w, 0)[i + 1] = y
      BY <3>1 DEF From
    <3>3. ((x + y * 256) \div 1) % 256 = x
      BY <3>5
    <3> QED
      BY <3>1, <3>2, <3>3 DEF ShiftedBy
  <2>3. w = [i \in 1 .. 4 |-> w[i]]
    BY DEF Word8
  <2> QED
    BY <2>1, <2>2, <2>3 DEF ShiftedBy
<1>7. w = Word(1, 4) <=> p = 0
  BY <1>1, <1>2, <1>6
<1> QED
  BY <1>1, <1>4, <1>5, <1>7

-----------------------------------------------------------------------------
(* The operations on words come to words.                                   *)

\* A remainder by 256 is a byte.
LEMMA LowByte ==
  ASSUME NEW x \in Int
  PROVE  x % 256 \in Byte
<1>1. x % 256 \in 0 .. 255
  OBVIOUS
<1> QED
  BY <1>1 DEF Byte

\* A constant is a word of the length asked for.
LEMMA WordBytes ==
  ASSUME NEW n \in Int, NEW len \in Nat
  PROVE  Word(n, len) \in Word8(len)
<1>1. /\ 256^0 = 1 /\ 256^1 = 256 /\ 256^2 = 65536 /\ 256^3 = 16777216
  OBVIOUS
<1>2. ASSUME NEW i \in 1 .. len
      PROVE  (IF i <= 4 THEN (n \div 256^(i - 1)) % 256 ELSE IF n < 0 THEN 255 ELSE 0) \in Byte
  <2>1. CASE i = 1
    <3>1. i - 1 = 0 /\ n \div 1 \in Int
      BY <2>1
    <3> QED
      BY <1>1, <2>1, <3>1, LowByte
  <2>2. CASE i = 2
    <3>1. i - 1 = 1 /\ n \div 256 \in Int
      BY <2>2
    <3> QED
      BY <1>1, <2>2, <3>1, LowByte
  <2>3. CASE i = 3
    <3>1. i - 1 = 2 /\ n \div 65536 \in Int
      BY <2>3
    <3> QED
      BY <1>1, <2>3, <3>1, LowByte
  <2>4. CASE i = 4
    <3>1. i - 1 = 3 /\ n \div 16777216 \in Int
      BY <2>4
    <3> QED
      BY <1>1, <2>4, <3>1, LowByte
  <2>5. CASE i > 4
    <3>1. 255 \in 0 .. 255 /\ 0 \in 0 .. 255
      OBVIOUS
    <3>2. ~(i <= 4)
      BY <2>5
    <3> QED
      BY <3>1, <3>2 DEF Byte
  <2> QED
    BY <2>1, <2>2, <2>3, <2>4, <2>5
<1> QED
  BY <1>2 DEF Word, Word8

\* Two halves of sixteen bits are a word of four bytes.
LEMMA HalvesBytes ==
  ASSUME NEW hi \in Int, 0 <= hi, hi <= 65535, NEW lo \in Int, 0 <= lo, lo <= 65535
  PROVE  Halves(hi, lo) \in Word8(4)
<1>1. ASSUME NEW x \in Int, 0 <= x, x <= 65535
      PROVE  x % 256 \in Byte /\ x \div 256 \in Byte
  <2>2. PICK y \in Int : y = x \div 256
    OBVIOUS
  <2>3. y >= 0 /\ y <= 255
    BY <1>1, <2>2
  <2>4. y \in 0 .. 255
    BY <2>3
  <2> QED
    BY <2>2, <2>4, LowByte DEF Byte
<1>2. PICK h : h = Halves(hi, lo)
  OBVIOUS
<1>3. h = <<lo % 256, lo \div 256, hi % 256, hi \div 256>>
  BY <1>2 DEF Halves
<1>4. lo % 256 \in Byte /\ lo \div 256 \in Byte /\ hi % 256 \in Byte /\ hi \div 256 \in Byte
  BY <1>1
<1>5. h \in [1 .. 4 -> Byte]
  BY <1>3, <1>4
<1> QED
  BY <1>2, <1>5 DEF Word8

\* A word extended, with zeros or its sign, is a word.
LEMMA ExtendedBytes ==
  ASSUME NEW n \in Nat, NEW w \in Word8(n), NEW len \in Nat
  PROVE  Zext(w, len) \in Word8(len) /\ Sext(w, len) \in Word8(len)
<1>1. Len(w) = n /\ \A i \in 1 .. n : w[i] \in Byte
  BY ByteTypes
<1>2. 0 \in Byte /\ 255 \in Byte
  BY DEF Byte
<1>3. \A i \in 1 .. len : i <= Len(w) => w[i] \in Byte
  BY <1>1
<1> QED
  BY <1>2, <1>3 DEF Zext, Sext, Word8

\* A word shifted is a word.
LEMMA ShiftedBytes ==
  ASSUME NEW n \in Nat, NEW w \in Word8(n), NEW s \in Nat
  PROVE  Shl(w, s) \in Word8(n) /\ Shr(w, s) \in Word8(n) /\ Sar(w, s) \in Word8(n)
<1>1. Len(w) = n /\ \A i \in 1 .. n : w[i] \in Int
  BY ByteTypes DEF Byte
<1>2. s % 8 \in 0 .. 15 /\ s \div 8 \in Nat
  OBVIOUS
<1>3. PICK r \in Nat \ {0} : r = 2^(s % 8)
  BY <1>2, PowersOfTwo
<1>4. PICK q \in Nat : q = s \div 8
  BY <1>2
<1> DEFINE at(i, fill) == IF i < 1 THEN 0 ELSE IF i > Len(w) THEN fill ELSE w[i]
<1>5. \A i \in Int, fill \in Int : at(i, fill) \in Int
  BY <1>1
<1>6. Shl(w, s) = [i \in 1 .. Len(w) |-> (at(i - q, 0) * r + ((at(i - q - 1, 0) * r) \div 256)) % 256]
  BY <1>3, <1>4 DEF Shl
<1> DEFINE right(fill) == [i \in 1 .. Len(w) |-> ((at(i + q, fill) + at(i + q + 1, fill) * 256) \div r) % 256]
<1>7. Shr(w, s) = right(0)
  BY <1>3, <1>4 DEF Shr
<1>8. Sar(w, s) = right(IF Negative(w) THEN 255 ELSE 0)
  BY <1>3, <1>4 DEF Sar
<1>9. ASSUME NEW x \in Int, NEW y \in Int
      PROVE  (x * r + ((y * r) \div 256)) % 256 \in Byte /\ ((x + y * 256) \div r) % 256 \in Byte
  <2>1. PICK a, b : a = x * r + ((y * r) \div 256) /\ b = (x + y * 256) \div r
    OBVIOUS
  <2>3. PICK c \in Int : c = x + y * 256
    OBVIOUS
  <2>4. c \div r \in Int
    OBVIOUS
  <2>2. a \in Int /\ b \in Int
    BY <2>1, <2>3, <2>4
  <2> QED
    BY <2>1, <2>2, LowByte
<1> HIDE DEF at
<1>10. Shl(w, s) \in Word8(n)
  <2>1. ASSUME NEW i \in 1 .. n
        PROVE  (at(i - q, 0) * r + ((at(i - q - 1, 0) * r) \div 256)) % 256 \in Byte
    <3>2. i - q \in Int /\ i - q - 1 \in Int /\ 0 \in Int
      OBVIOUS
    <3>1. at(i - q, 0) \in Int /\ at(i - q - 1, 0) \in Int
      BY <1>5, <3>2
    <3> QED
      BY <1>9, <3>1
  <2> DEFINE digit(i) == (at(i - q, 0) * r + ((at(i - q - 1, 0) * r) \div 256)) % 256
  <2>2. Shl(w, s) = [i \in 1 .. n |-> digit(i)]
    BY <1>1, <1>6
  <2>3. \A i \in 1 .. n : digit(i) \in Byte
    BY <2>1
  <2> HIDE DEF digit
  <2> QED
    BY <2>2, <2>3 DEF Word8
<1>11. ASSUME NEW fill \in Int PROVE right(fill) \in Word8(n)
  <2>1. ASSUME NEW i \in 1 .. n
        PROVE  ((at(i + q, fill) + at(i + q + 1, fill) * 256) \div r) % 256 \in Byte
    <3>2. i + q \in Int /\ i + q + 1 \in Int
      OBVIOUS
    <3>1. at(i + q, fill) \in Int /\ at(i + q + 1, fill) \in Int
      BY <1>5, <3>2
    <3> QED
      BY <1>9, <3>1
  <2> QED
    BY <1>1, <2>1 DEF Word8
<1> HIDE DEF right
<1> QED
  BY <1>7, <1>8, <1>10, <1>11

\* Sums, differences and negations of words are words.
LEMMA SumBytes ==
  ASSUME NEW n \in Nat, NEW v \in Word8(n), NEW w \in Word8(n)
  PROVE  Plus(v, w) \in Word8(n) /\ Minus(v, w) \in Word8(n) /\ Negate(w) \in Word8(n)
<1>1. /\ Len(v) = n /\ \A i \in 1 .. n : v[i] \in Int
      /\ Len(w) = n /\ \A i \in 1 .. n : w[i] \in Int
  BY ByteTypes DEF Byte
<1>2. /\ [i \in 1 .. n |-> v[i] + w[i]] \in [1 .. n -> Int]
      /\ [i \in 1 .. n |-> v[i] - w[i]] \in [1 .. n -> Int]
      /\ [i \in 1 .. n |-> -w[i]] \in [1 .. n -> Int]
  BY <1>1
<1>3. /\ Plus(v, w) = Carried([i \in 1 .. n |-> v[i] + w[i]])
      /\ Minus(v, w) = Carried([i \in 1 .. n |-> v[i] - w[i]])
      /\ Negate(w) = Carried([i \in 1 .. n |-> -w[i]])
  BY <1>1 DEF Plus, Minus, Negate
<1> QED
  BY <1>2, <1>3, CarriedBytes

-----------------------------------------------------------------------------
(* The seed of the reciprocal and the upper half of a product.              *)

\* The low bytes of a word, weighed, add up to a sum of the lemmas on sums.
LEMMA WeighedBytes ==
  ASSUME NEW w, NEW g, NEW S, \A i \in S : g[i] = w[i] * 256^(i - 1)
  PROVE  MapThenSumSet(LAMBDA i : w[i] * 256^(i - 1), S) = SumOver(g, S)
<1> DEFINE F(it) == [s \in SUBSET S |->
                       IF s = {} THEN 0
                       ELSE w[CHOOSE x \in s : TRUE] * 256^((CHOOSE x \in s : TRUE) - 1)
                              + it[s \ {CHOOSE x \in s : TRUE}]]
           G(it) == [s \in SUBSET S |->
                       IF s = {} THEN 0
                       ELSE g[CHOOSE x \in s : TRUE] + it[s \ {CHOOSE x \in s : TRUE}]]
<1>1. SumOver(g, S) = (CHOOSE it : it = G(it))[S]
  BY DEF SumOver, MapThenSumSet, MapThenFoldSet
<1>2. MapThenSumSet(LAMBDA i : w[i] * 256^(i - 1), S) = (CHOOSE it : it = F(it))[S]
  BY DEF MapThenSumSet, MapThenFoldSet
<1>3. ASSUME NEW it PROVE F(it) = G(it)
  <2>1. ASSUME NEW s \in SUBSET S, s # {} PROVE (CHOOSE x \in s : TRUE) \in S
    BY <2>1
  <2> QED
    BY <2>1
<1> HIDE DEF F, G
<1>4. (CHOOSE it : it = F(it)) = (CHOOSE it : it = G(it))
  BY <1>3
<1> QED
  BY <1>1, <1>2, <1>4

\* The low 32 bits of a word are a number: its first byte when the others are zero.
LEMMA LowNumber ==
  ASSUME NEW n \in Nat, n >= 4, NEW w \in Word8(n)
  PROVE  Low32(w) \in Int /\ (w[2] = 0 /\ w[3] = 0 /\ w[4] = 0 => Low32(w) = w[1])
<1>1. Len(w) = n /\ \A i \in 1 .. n : w[i] \in Int
  BY ByteTypes DEF Byte
<1>2. PICK w1 \in Int, w2 \in Int, w3 \in Int, w4 \in Int :
        w1 = w[1] /\ w2 = w[2] /\ w3 = w[3] /\ w4 = w[4]
  BY <1>1
<1>3. PICK g : g = [i \in 1 .. 3 |-> w[i] * 256^(i - 1)]
  OBVIOUS
<1>4. 256^0 = 1 /\ 256^1 = 256 /\ 256^2 = 65536 /\ 256^3 = 16777216
  OBVIOUS
<1>5. g[1] = w1 * 1 /\ g[2] = w2 * 256 /\ g[3] = w3 * 65536
  <2>1. g[1] = w[1] * 256^(1 - 1) /\ g[2] = w[2] * 256^(2 - 1) /\ g[3] = w[3] * 256^(3 - 1)
    BY <1>3
  <2>2. 1 - 1 = 0 /\ 2 - 1 = 1 /\ 3 - 1 = 2
    OBVIOUS
  <2> QED
    BY <1>2, <1>4, <2>1, <2>2
<1>6. \A c \in 1 .. 3 : g[c] \in Int
  <2>1. \A c \in 1 .. 3 : c = 1 \/ c = 2 \/ c = 3
    OBVIOUS
  <2> QED
    BY <1>5, <2>1
<1>7. MapThenSumSet(LAMBDA i : w[i] * 256^(i - 1), 1 .. 3) = SumOver(g, 1 .. 3)
  <2>1. \A i \in 1 .. 3 : g[i] = w[i] * 256^(i - 1)
    BY <1>3
  <2> HIDE <1>3, <1>4, <1>5
  <2> QED
    BY <2>1, WeighedBytes
<1>8. IsFiniteSet(1 .. 3) /\ IsFiniteSet(1 .. 2) /\ IsFiniteSet({1})
  <2>1. \A a \in Int, b \in Int : IsFiniteSet(a .. b)
    BY FS_Interval
  <2>2. IsFiniteSet({1})
    BY FS_Singleton
  <2>3. PICK a \in Int, b \in Int, c \in Int : a = 1 /\ b = 2 /\ c = 3
    OBVIOUS
  <2>4. IsFiniteSet(a .. c) /\ IsFiniteSet(a .. b)
    BY <2>1
  <2> QED
    BY <2>2, <2>3, <2>4
<1>9. PICK sum \in Int : sum = SumOver(g, 1 .. 3)
  BY <1>6, <1>8, SumIsNumber
<1>10. sum = w1 * 1 + w2 * 256 + w3 * 65536
  <2>1. SumOver(g, 1 .. 3) = g[3] + SumOver(g, (1 .. 3) \ {3})
    BY <1>6, <1>8, SumWithout
  <2>2. (1 .. 3) \ {3} = 1 .. 2 /\ (1 .. 2) \ {2} = {1} /\ {1} \ {1} = {}
    OBVIOUS
  <2>3. SumOver(g, 1 .. 2) = g[2] + SumOver(g, (1 .. 2) \ {2})
    <3>1. \A c \in 1 .. 2 : g[c] \in Int
      BY <1>6
    <3>2. 2 \in 1 .. 2
      OBVIOUS
    <3> QED
      BY <1>8, <3>1, <3>2, SumWithout
  <2>4. SumOver(g, {1}) = g[1] + SumOver(g, {1} \ {1})
    <3>1. \A c \in {1} : g[c] \in Int
      BY <1>6
    <3> QED
      BY <1>8, <3>1, SumWithout
  <2>5. SumOver(g, {}) = 0
    BY SumOfNone
  <2>6. PICK s2, s1 : s2 = SumOver(g, 1 .. 2) /\ s1 = SumOver(g, {1})
    OBVIOUS
  <2>7. s1 = g[1] + 0 /\ s2 = g[2] + s1 /\ sum = g[3] + s2
    BY <1>9, <2>1, <2>2, <2>3, <2>4, <2>5, <2>6
  <2> HIDE <1>3, <1>7
  <2> QED
    BY <1>5, <2>7
<1>11. Low32(w) = (IF w4 >= 128 THEN w4 - 256 ELSE w4) * 16777216 + sum
  <2>1. (IF Len(w) < 4 THEN Len(w) ELSE 4) = 4 /\ 4 - 1 = 3
    BY <1>1
  <2>2. Low32(w) = (IF w[4] >= 128 THEN w[4] - 256 ELSE w[4]) * 256^3
                     + MapThenSumSet(LAMBDA i : w[i] * 256^(i - 1), 1 .. 3)
    BY <2>1 DEF Low32
  <2>3. Low32(w) = (IF w4 >= 128 THEN w4 - 256 ELSE w4) * 256^3 + sum
    BY <1>2, <1>7, <1>9, <2>2
  <2> QED
    BY <1>4, <2>3
<1>12. Low32(w) \in Int
  BY <1>11
<1>13. w2 = 0 /\ w3 = 0 /\ w4 = 0 => Low32(w) = w1
  BY <1>10, <1>11
<1> QED
  BY <1>2, <1>12, <1>13

\* Both index the table of seeds with the five bits below the highest.
LEMMA SameSeed ==
  ASSUME NEW d \in Word8(4)
  PROVE  Queue!Low32(Queue!Shr(d, 26)) % 32 = (d[4] \div 4) % 32
<1>1. \A i \in 1 .. 4 : d[i] \in 0 .. 255
  BY ByteTypes
<1>2. PICK x : x = d[4] /\ x \in 0 .. 255
  BY <1>1
<1>3. PICK t : t = Shr(d, 26)
  OBVIOUS
<1>4. t = ShiftedBy(From(d, 3), 4)
  <2>1. 26 \in 0 .. 31 /\ 3 = 26 \div 8 /\ 26 % 8 = 2 /\ 2^2 = 4
    OBVIOUS
  <2>2. 4 = 2^(26 % 8)
    BY <2>1
  <2> QED
    BY <1>3, <2>1, <2>2, ShiftRight
<1>5. t \in Word8(4)
  BY <1>3, ShiftedBytes
<1>6. From(d, 3)[1] = x /\ \A i \in 2 .. 5 : From(d, 3)[i] = 0
  BY <1>2 DEF From
<1>7. t[1] = ((x + 0 * 256) \div 4) % 256
  BY <1>4, <1>6 DEF ShiftedBy
<1>8. \A i \in 2 .. 4 : t[i] = ((0 + 0 * 256) \div 4) % 256
  BY <1>4, <1>6 DEF ShiftedBy
<1>9. t[2] = 0 /\ t[3] = 0 /\ t[4] = 0
  BY <1>8
<1>10. Low32(t) = t[1]
  BY <1>5, <1>9, LowNumber
<1>11. t[1] = x \div 4
  BY <1>2, <1>7
<1> QED
  BY <1>2, <1>3, <1>10, <1>11, SameShifts, SameLow32

\* The upper half of a product.
LEMMA UpperHalf ==
  ASSUME NEW T \in Word8(8)
  PROVE  /\ SubSeq(T, 5, 8) \in Word8(4) /\ SubSeq(Shr(T, 32), 1, 4) = SubSeq(T, 5, 8)
         /\ \A i \in 1 .. 4 : SubSeq(T, 5, 8)[i] = T[i + 4]
<1>1. Len(T) = 8 /\ T \in Seq(Int) /\ \A i \in 1 .. 8 : T[i] \in 0 .. 255 /\ T[i] \in Byte
  BY ByteTypes
<1>2. SubSeq(T, 5, 8) = [i \in 1 .. 4 |-> T[i + 4]]
  BY <1>1
<1>3. SubSeq(T, 5, 8) \in Word8(4)
  <2>1. \A i \in 1 .. 4 : i + 4 \in 1 .. 8
    OBVIOUS
  <2>2. \A i \in 1 .. 4 : T[i + 4] \in Byte
    BY <1>1, <2>1
  <2> QED
    BY <1>2, <2>2 DEF Word8
<1>4. PICK t : t = Shr(T, 32)
  OBVIOUS
<1>5. ASSUME NEW i \in 1 .. 4 PROVE t[i] = T[i + 4]
  <2>1. 32 \div 8 = 4 /\ 32 % 8 = 0 /\ 2^0 = 1
    OBVIOUS
  <2>2. PICK x, y : x = T[i + 4] /\ y = IF i = 4 THEN 0 ELSE T[i + 5]
    OBVIOUS
  <2>3. x \in 0 .. 255 /\ y \in 0 .. 255
    <3>1. i + 4 \in 1 .. 8 /\ (i # 4 => i + 5 \in 1 .. 8)
      OBVIOUS
    <3>2. x \in 0 .. 255
      BY <1>1, <2>2, <3>1
    <3>3. i # 4 => y \in 0 .. 255
      BY <1>1, <2>2, <3>1
    <3>4. i = 4 => y = 0
      BY <2>2
    <3>5. 0 \in 0 .. 255
      OBVIOUS
    <3> QED
      BY <3>2, <3>3, <3>4, <3>5
  <2>4. t[i] = ((x + y * 256) \div 1) % 256
    <3>1. ~(i + 4 < 1) /\ ~(i + 4 > 8) /\ ~(i + 4 + 1 < 1) /\ (i + 4 + 1 > 8 <=> i = 4) /\ i + 4 + 1 = i + 5
      OBVIOUS
    <3> QED
      BY <1>1, <1>4, <2>1, <2>2, <3>1 DEF Shr
  <2>5. ((x + y * 256) \div 1) % 256 = x
    BY <2>3
  <2> QED
    BY <2>2, <2>4, <2>5
<1>6. t \in Word8(8)
  BY <1>4, ShiftedBytes
<1>7. Len(t) = 8 /\ t \in Seq(Int)
  BY <1>6, ByteTypes
<1>8. SubSeq(t, 1, 4) = [i \in 1 .. 4 |-> t[i]]
  BY <1>7
<1> QED
  BY <1>2, <1>3, <1>4, <1>5, <1>8

-----------------------------------------------------------------------------
(* Two to the 32nd less a number, and the two's complement of it.           *)

\* Two to the 32nd as a word of eight bytes.
LEMMA TwoTo32 ==
  ASSUME NEW t, t = Shl(Word(1, 8), 32)
  PROVE  Len(t) = 8 /\ DOMAIN t = 1 .. 8 /\ \A i \in 1 .. 8 : t[i] = IF i = 5 THEN 1 ELSE 0
<1>1. PICK w : w = Word(1, 8)
  OBVIOUS
<1>2. w \in Word8(8)
  BY <1>1, WordBytes
<1>3. Len(w) = 8 /\ \A i \in 1 .. 8 : w[i] = IF i = 1 THEN 1 ELSE 0
  <2>1. Len(w) = 8
    BY <1>2, ByteTypes
  <2>2. 256^0 = 1 /\ 256^1 = 256 /\ 256^2 = 65536 /\ 256^3 = 16777216
    OBVIOUS
  <2>3. \A i \in 1 .. 8 : i \in {1, 2, 3, 4} \/ i > 4
    OBVIOUS
  <2>4. w[1] = (1 \div 256^(1 - 1)) % 256 /\ w[2] = (1 \div 256^(2 - 1)) % 256
        /\ w[3] = (1 \div 256^(3 - 1)) % 256 /\ w[4] = (1 \div 256^(4 - 1)) % 256
    BY <1>1 DEF Word
  <2>5. 1 - 1 = 0 /\ 2 - 1 = 1 /\ 3 - 1 = 2 /\ 4 - 1 = 3
    OBVIOUS
  <2>6. w[1] = (1 \div 1) % 256 /\ w[2] = (1 \div 256) % 256
        /\ w[3] = (1 \div 65536) % 256 /\ w[4] = (1 \div 16777216) % 256
    BY <2>2, <2>4, <2>5
  <2>7. w[1] = 1 /\ w[2] = 0 /\ w[3] = 0 /\ w[4] = 0
    BY <2>6
  <2>8. \A i \in 1 .. 8 : i > 4 => w[i] = 0
    BY <1>1 DEF Word
  <2> QED
    BY <2>1, <2>3, <2>7, <2>8
<1>4. t \in Word8(8)
  BY <1>1, <1>2, ShiftedBytes
<1>5. Len(t) = 8 /\ DOMAIN t = 1 .. 8
  BY <1>4, ByteTypes
<1>6. ASSUME NEW i \in 1 .. 8 PROVE t[i] = IF i = 5 THEN 1 ELSE 0
  <2>1. 32 \div 8 = 4 /\ 32 % 8 = 0 /\ 2^0 = 1
    OBVIOUS
  <2>2. PICK x, y : x = (IF i <= 4 THEN 0 ELSE w[i - 4]) /\ y = (IF i <= 5 THEN 0 ELSE w[i - 5])
    OBVIOUS
  <2>3. t[i] = (x * 1 + ((y * 1) \div 256)) % 256
    <3>1. /\ i - 4 < 1 <=> i <= 4
          /\ i - 4 - 1 < 1 <=> i <= 5
          /\ ~(i - 4 > 8) /\ ~(i - 4 - 1 > 8) /\ i - 4 - 1 = i - 5
      OBVIOUS
    <3> DEFINE at(k) == IF k < 1 THEN 0 ELSE IF k > 8 THEN 0 ELSE w[k]
    <3>2. Shl(w, 32) = [k \in 1 .. 8 |-> (at(k - 4) * 1 + ((at(k - 4 - 1) * 1) \div 256)) % 256]
      BY <1>3, <2>1 DEF Shl
    <3>3. at(i - 4) = x /\ at(i - 4 - 1) = y
      BY <2>2, <3>1
    <3> HIDE DEF at
    <3> QED
      BY <1>1, <3>2, <3>3
  <2>4. x = (IF i = 5 THEN 1 ELSE 0) /\ y = (IF i = 6 THEN 1 ELSE 0)
    BY <1>3, <2>2
  <2> QED
    BY <2>3, <2>4
<1> QED
  BY <1>5, <1>6

\* The negation of a 32-bit number is what is left of its difference to two to the
\* 32nd, the bit above it saying whether the number is zero.
LEMMA NegationAsDifference ==
  ASSUME NEW dr \in Word8(4), NEW t, t = Shl(Word(1, 8), 32), NEW w, w = Minus(t, Zext(dr, 8))
  PROVE  /\ SubSeq(w, 1, 4) = Negate(dr)
         /\ w[5] % 2 = 1 <=> IsZero(dr)
<1>1. Len(dr) = 4 /\ \A i \in 1 .. 4 : dr[i] \in 0 .. 255
  BY ByteTypes
<1>2. Len(t) = 8 /\ DOMAIN t = 1 .. 8 /\ \A i \in 1 .. 8 : t[i] = IF i = 5 THEN 1 ELSE 0
  BY TwoTo32
<1>3. PICK s : s = [i \in 1 .. 8 |-> t[i] - Zext(dr, 8)[i]]
  OBVIOUS
<1>4. PICK n : n = [i \in 1 .. 4 |-> -dr[i]]
  OBVIOUS
<1>5. \A i \in 1 .. 8 : s[i] = (IF i = 5 THEN 1 ELSE 0) - (IF i <= 4 THEN dr[i] ELSE 0)
  BY <1>1, <1>2, <1>3 DEF Zext
<1>6. s \in [1 .. 8 -> Int] /\ n \in [1 .. 4 -> Int]
  <2>1. \A i \in 1 .. 8 : s[i] \in Int
    <3>1. \A i \in 1 .. 8 : i <= 4 => i \in 1 .. 4
      OBVIOUS
    <3>2. \A i \in 1 .. 8 : i <= 4 => dr[i] \in Int
      BY <1>1, <3>1
    <3> QED
      BY <1>5, <3>2
  <2>2. \A i \in 1 .. 4 : n[i] \in Int
    BY <1>1, <1>4
  <2> QED
    BY <1>3, <1>4, <2>1, <2>2
<1>7. w = Carried(s) /\ Negate(dr) = Carried(n)
  BY <1>1, <1>2, <1>3, <1>4 DEF Minus, Negate
<1>8. PICK c : Carries(s, 8, c) /\ Carried(s) = [i \in 1 .. 8 |-> (s[i] + c[i - 1]) % 256]
  <2>1. 8 \in Nat
    OBVIOUS
  <2> QED
    BY <1>6, <2>1, CarriedOn
<1>9. PICK b : Carries(n, 4, b) /\ Carried(n) = [i \in 1 .. 4 |-> (n[i] + b[i - 1]) % 256]
  <2>1. 4 \in Nat
    OBVIOUS
  <2> QED
    BY <1>6, <2>1, CarriedOn
<1>10. PICK d1, d2, d3, d4 : d1 = dr[1] /\ d2 = dr[2] /\ d3 = dr[3] /\ d4 = dr[4]
  OBVIOUS
<1>11. d1 \in 0 .. 255 /\ d2 \in 0 .. 255 /\ d3 \in 0 .. 255 /\ d4 \in 0 .. 255
  BY <1>1, <1>10
<1>12. c[0] = 0 /\ \A i \in 1 .. 8 : c[i] = (s[i] + c[i - 1]) \div 256
  BY <1>8 DEF Carries
<1>13. b[0] = 0 /\ \A i \in 1 .. 4 : b[i] = (n[i] + b[i - 1]) \div 256
  BY <1>9 DEF Carries
<1>14. s[1] = -d1 /\ s[2] = -d2 /\ s[3] = -d3 /\ s[4] = -d4 /\ s[5] = 1
  <2>1. s[1] = 0 - d1 /\ s[2] = 0 - d2 /\ s[3] = 0 - d3 /\ s[4] = 0 - d4 /\ s[5] = 1 - 0
    BY <1>5, <1>10
  <2> QED
    BY <1>11, <2>1
<1>15. n[1] = -d1 /\ n[2] = -d2 /\ n[3] = -d3 /\ n[4] = -d4
  BY <1>4, <1>10
<1>16. PICK c1, c2, c3, c4 : c1 = c[1] /\ c2 = c[2] /\ c3 = c[3] /\ c4 = c[4]
  OBVIOUS
<1>17. c1 = (-d1 + 0) \div 256 /\ c2 = (-d2 + c1) \div 256
       /\ c3 = (-d3 + c2) \div 256 /\ c4 = (-d4 + c3) \div 256
  <2>1. c[1] = (s[1] + c[1 - 1]) \div 256 /\ c[2] = (s[2] + c[2 - 1]) \div 256
        /\ c[3] = (s[3] + c[3 - 1]) \div 256 /\ c[4] = (s[4] + c[4 - 1]) \div 256
    BY <1>12
  <2>2. 1 - 1 = 0 /\ 2 - 1 = 1 /\ 3 - 1 = 2 /\ 4 - 1 = 3
    OBVIOUS
  <2> QED
    BY <1>12, <1>14, <1>16, <2>1, <2>2
<1>18. b[1] = c1 /\ b[2] = c2 /\ b[3] = c3
  <2>1. b[1] = (n[1] + b[1 - 1]) \div 256 /\ b[2] = (n[2] + b[2 - 1]) \div 256
        /\ b[3] = (n[3] + b[3 - 1]) \div 256
    BY <1>13
  <2>2. 1 - 1 = 0 /\ 2 - 1 = 1 /\ 3 - 1 = 2
    OBVIOUS
  <2> QED
    BY <1>13, <1>15, <1>17, <2>1, <2>2
<1>19. /\ c1 \in {0, -1} /\ (c1 = 0 <=> d1 = 0)
       /\ c2 \in {0, -1} /\ (c2 = 0 <=> d1 = 0 /\ d2 = 0)
       /\ c3 \in {0, -1} /\ (c3 = 0 <=> d1 = 0 /\ d2 = 0 /\ d3 = 0)
       /\ c4 \in {0, -1} /\ (c4 = 0 <=> d1 = 0 /\ d2 = 0 /\ d3 = 0 /\ d4 = 0)
  <2>1. c1 \in {0, -1} /\ (c1 = 0 <=> d1 = 0)
    BY <1>11, <1>17
  <2>2. c2 \in {0, -1} /\ (c2 = 0 <=> d2 = 0 /\ c1 = 0)
    BY <1>11, <1>17, <2>1
  <2>3. c3 \in {0, -1} /\ (c3 = 0 <=> d3 = 0 /\ c2 = 0)
    BY <1>11, <1>17, <2>2
  <2>4. c4 \in {0, -1} /\ (c4 = 0 <=> d4 = 0 /\ c3 = 0)
    BY <1>11, <1>17, <2>3
  <2> QED
    BY <2>1, <2>2, <2>3, <2>4
<1>20. IsZero(dr) <=> c4 = 0
  <2>1. IsZero(dr) <=> \A i \in 1 .. 4 : dr[i] = 0
    BY <1>1 DEF IsZero
  <2>2. (\A i \in 1 .. 4 : dr[i] = 0) <=> (d1 = 0 /\ d2 = 0 /\ d3 = 0 /\ d4 = 0)
    BY <1>10
  <2> QED
    BY <1>19, <2>1, <2>2
<1>21. w[5] = (1 + c4) % 256
  <2>1. w[5] = (s[5] + c[5 - 1]) % 256
    BY <1>7, <1>8
  <2>2. 5 - 1 = 4
    OBVIOUS
  <2> QED
    BY <1>14, <1>16, <2>1, <2>2
<1>22. w[5] % 2 = 1 <=> c4 = 0
  BY <1>19, <1>21
<1>23. SubSeq(w, 1, 4) = Negate(dr)
  <2>1. w \in Word8(8)
    BY <1>6, <1>7, CarriedBytes
  <2>2. Len(w) = 8 /\ w \in Seq(Int)
    BY <2>1, ByteTypes
  <2>3. SubSeq(w, 1, 4) = [i \in 1 .. 4 |-> w[i]]
    BY <2>2
  <2>4. w[1] = (s[1] + c[1 - 1]) % 256 /\ w[2] = (s[2] + c[2 - 1]) % 256
        /\ w[3] = (s[3] + c[3 - 1]) % 256 /\ w[4] = (s[4] + c[4 - 1]) % 256
    BY <1>7, <1>8
  <2>5. PICK v : v = Negate(dr)
    OBVIOUS
  <2>6. /\ v[1] = (n[1] + b[1 - 1]) % 256 /\ v[2] = (n[2] + b[2 - 1]) % 256
        /\ v[3] = (n[3] + b[3 - 1]) % 256 /\ v[4] = (n[4] + b[4 - 1]) % 256
        /\ v = [i \in 1 .. 4 |-> v[i]]
    BY <1>7, <1>9, <2>5
  <2>7. 1 - 1 = 0 /\ 2 - 1 = 1 /\ 3 - 1 = 2 /\ 4 - 1 = 3
    OBVIOUS
  <2>8. w[1] = v[1] /\ w[2] = v[2] /\ w[3] = v[3] /\ w[4] = v[4]
    BY <1>12, <1>13, <1>14, <1>15, <1>16, <1>18, <2>4, <2>6, <2>7
  <2>9. \A i \in 1 .. 4 : i = 1 \/ i = 2 \/ i = 3 \/ i = 4
    OBVIOUS
  <2> QED
    BY <2>3, <2>5, <2>6, <2>8, <2>9
<1> QED
  BY <1>20, <1>22, <1>23

-----------------------------------------------------------------------------
(* The reciprocal: the same seed, and three Newton steps that round alike.  *)

\* One Newton step of the model's reciprocal.
ModelStep(d, r) ==
  LET corr_w == Queue!Minus(Queue!Shl(Queue!Word(1, 8), 32), Queue!Zext(Queue!mul_q1_31(d, r), 8))
  IN  Queue!mul_q1_31_corr(r, SubSeq(corr_w, 1, 4), corr_w[5] % 2 = 1)

\* The upper half of the product of two 32-bit numbers.
LEMMA SameUpperHalf ==
  ASSUME NEW d \in Word8(4), NEW r \in Word8(4)
  PROVE  mul_q1_31(d, r) \in Word8(4) /\ Queue!mul_q1_31(d, r) = mul_q1_31(d, r)
<1>1. PICK T : T = Times(Zext(d, 8), Zext(r, 8))
  OBVIOUS
<1>2. Zext(d, 8) \in Word8(8) /\ Zext(r, 8) \in Word8(8)
  BY ExtendedBytes
<1>3. Zext(d, 8) \in [1 .. 8 -> Int] /\ Zext(r, 8) \in [1 .. 8 -> Int]
  BY <1>2, ByteTypes
<1>4. T \in Word8(8)
  BY <1>1, <1>3, ProductBytes
<1>5. Queue!mul_q1_31(d, r) = SubSeq(Shr(T, 32), 1, 4)
  BY <1>1, SameSigns, SameProduct, SameShifts DEF Queue!mul_q1_31, Queue!Product
<1> QED
  BY <1>1, <1>4, <1>5, UpperHalf DEF mul_q1_31

\* The correction of a product by the reciprocal's overflow bit is the same in both.
LEMMA SameCorrection ==
  ASSUME NEW r \in Word8(4), NEW b \in Word8(4), NEW ov \in BOOLEAN
  PROVE  /\ mul_q1_31_corr(r, b, ov) \in Word8(4)
         /\ Queue!mul_q1_31_corr(r, b, ov) = mul_q1_31_corr(r, b, ov)
<1>1. PICK T : T = Times(Zext(r, 8), Zext(b, 8))
  OBVIOUS
<1>2. Zext(r, 8) \in Word8(8) /\ Zext(b, 8) \in Word8(8)
  BY ExtendedBytes
<1>3. Zext(r, 8) \in [1 .. 8 -> Int] /\ Zext(b, 8) \in [1 .. 8 -> Int]
  BY <1>2, ByteTypes
<1>4. T \in Word8(8)
  BY <1>1, <1>3, ProductBytes
<1>5. PICK t : t = Shr(T, 31)
  OBVIOUS
<1>6. t \in Word8(8)
  BY <1>4, <1>5, ShiftedBytes
<1>7. SubSeq(t, 1, 4) \in Word8(4)
  <2>1. Len(t) = 8 /\ t \in Seq(Int) /\ \A i \in 1 .. 8 : t[i] \in Byte
    BY <1>6, ByteTypes
  <2>2. SubSeq(t, 1, 4) = [i \in 1 .. 4 |-> t[i]]
    BY <2>1
  <2>3. \A i \in 1 .. 4 : t[i] \in Byte
    BY <2>1
  <2> QED
    BY <2>2, <2>3 DEF Word8
<1>8. Queue!Product(r, b, 31) = SubSeq(t, 1, 4)
  BY <1>1, <1>5, SameSigns, SameProduct, SameShifts DEF Queue!Product
<1> QED
  BY <1>1, <1>5, <1>7, <1>8 DEF mul_q1_31_corr, Queue!mul_q1_31_corr

\* One Newton step of the reciprocal is the same in both.
LEMMA SameStep ==
  ASSUME NEW d \in Word8(4), NEW r \in Word8(4)
  PROVE  RefinedRecip(d, r) \in Word8(4) /\ ModelStep(d, r) = RefinedRecip(d, r)
<1>1. PICK dr \in Word8(4) : dr = mul_q1_31(d, r) /\ dr = Queue!mul_q1_31(d, r)
  BY SameUpperHalf
<1>2. PICK w : w = Minus(Shl(Word(1, 8), 32), Zext(dr, 8))
  OBVIOUS
<1>3. SubSeq(w, 1, 4) = Negate(dr) /\ (w[5] % 2 = 1 <=> IsZero(dr))
  BY <1>2, NegationAsDifference
<1>4. Negate(dr) \in Word8(4) /\ IsZero(dr) \in BOOLEAN
  BY SumBytes DEF IsZero
<1>5. PICK ov \in BOOLEAN : (ov <=> IsZero(dr)) /\ (ov <=> w[5] % 2 = 1)
  BY <1>3, <1>4
<1>6. RefinedRecip(d, r) = mul_q1_31_corr(r, Negate(dr), IsZero(dr))
  BY <1>1 DEF RefinedRecip
<1>7. Queue!Minus(Queue!Shl(Queue!Word(1, 8), 32), Queue!Zext(Queue!mul_q1_31(d, r), 8)) = w
  BY <1>1, <1>2, SameNumbers, SameSigns, SameShifts, SameSums
<1>8. ModelStep(d, r) = Queue!mul_q1_31_corr(r, SubSeq(w, 1, 4), w[5] % 2 = 1)
  BY <1>7 DEF ModelStep
<1>9. RefinedRecip(d, r) = mul_q1_31_corr(r, Negate(dr), ov)
  BY <1>5, <1>6 DEF mul_q1_31_corr
<1>10. ModelStep(d, r) = Queue!mul_q1_31_corr(r, Negate(dr), ov)
  BY <1>3, <1>5, <1>8 DEF Queue!mul_q1_31_corr
<1> QED
  BY <1>4, <1>9, <1>10, SameCorrection

\* The word of zero is all zeros.
LEMMA ZeroWord == \A i \in 1 .. 4 : Word(0, 4)[i] = 0
<1>1. 256^0 = 1 /\ 256^1 = 256 /\ 256^2 = 65536 /\ 256^3 = 16777216
  OBVIOUS
<1>2. PICK w : w = Word(0, 4)
  OBVIOUS
<1>3. w[1] = (0 \div 256^(1 - 1)) % 256 /\ w[2] = (0 \div 256^(2 - 1)) % 256
      /\ w[3] = (0 \div 256^(3 - 1)) % 256 /\ w[4] = (0 \div 256^(4 - 1)) % 256
  BY <1>2 DEF Word
<1>4. 1 - 1 = 0 /\ 2 - 1 = 1 /\ 3 - 1 = 2 /\ 4 - 1 = 3
  OBVIOUS
<1>5. w[1] = (0 \div 1) % 256 /\ w[2] = (0 \div 256) % 256
      /\ w[3] = (0 \div 65536) % 256 /\ w[4] = (0 \div 16777216) % 256
  BY <1>1, <1>3, <1>4
<1>6. w[1] = 0 /\ w[2] = 0 /\ w[3] = 0 /\ w[4] = 0
  BY <1>5
<1>7. \A i \in 1 .. 4 : i = 1 \/ i = 2 \/ i = 3 \/ i = 4
  OBVIOUS
<1> QED
  BY <1>2, <1>6, <1>7

\* The seeds of the model's reciprocal are those of the kernel's.
LEMMA SameTable == Queue!lut = RecipLut
BY DEF Queue!lut, RecipLut

\* Every seed is a word of 32 bits.
LEMMA SeedIsWord ==
  ASSUME NEW i \in 1 .. 32
  PROVE  Halves(RecipLut[i][1], RecipLut[i][2]) \in Word8(4)
<1>1. \A n \in {1, 2, 3, 4, 5, 6, 7, 8, 9, 10, 11, 12, 13, 14, 15, 16, 17, 18, 19, 20, 21, 22, 23,
               24, 25, 26, 27, 28, 29, 30, 31, 32} :
        /\ RecipLut[n][1] \in Int /\ RecipLut[n][2] \in Int
        /\ 0 <= RecipLut[n][1] /\ RecipLut[n][1] <= 65535
        /\ 0 <= RecipLut[n][2] /\ RecipLut[n][2] <= 65535
  BY DEF RecipLut
<1>2. i \in {1, 2, 3, 4, 5, 6, 7, 8, 9, 10, 11, 12, 13, 14, 15, 16, 17, 18, 19, 20, 21, 22, 23,
               24, 25, 26, 27, 28, 29, 30, 31, 32}
  OBVIOUS
<1> QED
  BY <1>1, <1>2, HalvesBytes

\* Both reciprocals are the same 32-bit number.
LEMMA SameReciprocal ==
  ASSUME NEW x \in Word8(4)
  PROVE  recip_nr_rtl_q16_16(x) \in Word8(4) /\ Queue!recip_nr_rtl_q16_16(x) = recip_nr_rtl_q16_16(x)
<1>1. U32Max \in Word8(4) /\ Queue!AllOnes = U32Max
  <2>1. PICK n \in Int : n = 65535
    OBVIOUS
  <2>2. Halves(n, n) \in Word8(4)
    BY <2>1, HalvesBytes
  <2> QED
    BY <2>1, <2>2, SameNumbers DEF U32Max, Queue!AllOnes
<1>2. CASE IsZero(x)
  <2>1. clz32_cpp(x) = 32
    BY <1>2 DEF clz32_cpp
  <2>2. recip_nr_rtl_q16_16(x) = U32Max
    BY <2>1 DEF recip_nr_rtl_q16_16
  <2>3. x = Word(0, 4)
    <3>1. \A i \in 1 .. 4 : x[i] = 0
      BY <1>2, ByteTypes DEF IsZero
    <3>2. x = [i \in 1 .. 4 |-> x[i]]
      BY DEF Word8
    <3>3. ASSUME NEW i \in 1 .. 4 PROVE Word(0, 4)[i] = 0
      BY ZeroWord
    <3>4. Word(0, 4) = [i \in 1 .. 4 |-> Word(0, 4)[i]]
      BY DEF Word
    <3> QED
      BY <3>1, <3>2, <3>3, <3>4
  <2>4. Queue!recip_nr_rtl_q16_16(x) = U32Max
    BY <1>1, <2>3, SameNumbers DEF Queue!recip_nr_rtl_q16_16
  <2> QED
    BY <1>1, <2>2, <2>4
<1>3. CASE ~IsZero(x)
  <2>1. PICK pow : Powers(pow) /\ \A e \in 0 .. 7 : pow[e] = 2^e
    BY PowerTable
  <2>2. PICK h, e : HighestBit(x, pow, h, e)
    BY <1>3, <2>1, HighestBitExists
  <2>3. PICK p : p = 8 * (h - 1) + e
    OBVIOUS
  <2>4. /\ p \in 0 .. 31 /\ clz32_cpp(x) = 31 - p /\ Queue!clz32_cpp(x) = 31 - p
        /\ x = Word(1, 4) <=> p = 0
    BY <2>1, <2>2, <2>3, LeadingZeros
  <2>5. x # Word(0, 4)
    <3>1. PICK i \in 1 .. 4 : x[i] # 0
      BY <1>3, ByteTypes DEF IsZero
    <3>2. Word(0, 4)[i] = 0
      BY ZeroWord
    <3> QED
      BY <3>1, <3>2
  <2>6. CASE p = 0
    <3>1. clz32_cpp(x) >= 31 /\ x = Word(1, 4)
      BY <2>4, <2>6
    <3>2. recip_nr_rtl_q16_16(x) = U32Max
      BY <3>1 DEF recip_nr_rtl_q16_16
    <3>3. Queue!recip_nr_rtl_q16_16(x) = U32Max
      BY <1>1, <3>1, SameNumbers DEF Queue!recip_nr_rtl_q16_16
    <3> QED
      BY <1>1, <3>2, <3>3
  <2>7. CASE p # 0
    <3>1. PICK lz : lz = 31 - p
      OBVIOUS
    <3>2. lz \in 0 .. 30 /\ clz32_cpp(x) = lz /\ Queue!clz32_cpp(x) = lz
      BY <2>4, <2>7, <3>1
    <3>3. PICK d \in Word8(4) : d = Shl(x, lz)
      BY <3>2, ShiftedBytes
    <3>4. PICK i \in 1 .. 32 : i = ((d[4] \div 4) % 32) + 1
      <4>1. d[4] \in 0 .. 255
        BY ByteTypes
      <4> QED
        BY <4>1
    <3>5. PICK seed \in Word8(4) : seed = Halves(RecipLut[i][1], RecipLut[i][2])
      BY SeedIsWord
    <3>6. PICK r1 \in Word8(4) : r1 = RefinedRecip(d, seed) /\ r1 = ModelStep(d, seed)
      BY SameStep
    <3>7. PICK r2 \in Word8(4) : r2 = RefinedRecip(d, r1) /\ r2 = ModelStep(d, r1)
      BY SameStep
    <3>8. Shr(r2, 31 - lz) \in Word8(4)
      <4>1. 31 - lz \in Nat
        BY <3>2
      <4> QED
        BY <4>1, ShiftedBytes
    <3>9. recip_nr_rtl_q16_16(x) = Shr(r2, 31 - lz)
      <4>1. ~(lz >= 31)
        BY <3>2
      <4> QED
        BY <3>2, <3>3, <3>4, <3>5, <3>6, <3>7, <4>1 DEF recip_nr_rtl_q16_16
    <3>10. Queue!recip_nr_rtl_q16_16(x) = Shr(r2, 31 - lz)
      <4>1. x \notin {Word(0, 4), Word(1, 4)}
        BY <2>4, <2>5, <2>7
      <4>2. Queue!Shl(x, lz) = d /\ (Queue!Low32(Queue!Shr(d, 26)) % 32) + 1 = i
        BY <3>3, <3>4, SameShifts, SameSeed
      <4>3. Queue!Halves(RecipLut[i][1], RecipLut[i][2]) = seed
        BY <3>5, SameNumbers
      <4>4. Queue!recip_nr_rtl_q16_16(x) = Queue!Shr(r2, 31 - lz)
        BY <3>2, <3>6, <3>7, <4>1, <4>2, <4>3, SameTable, SameNumbers
           DEF Queue!recip_nr_rtl_q16_16, ModelStep
      <4> QED
        BY <4>4, SameShifts
    <3> QED
      BY <3>8, <3>9, <3>10
  <2> QED
    BY <2>6, <2>7
<1> QED
  BY <1>2, <1>3

-----------------------------------------------------------------------------
(* The normalisation of a row.                                              *)

\* Half of the last place kept.
LEMMA SameHalf == Shl(Word(1, Wide), 31) = Zext(Halves(32768, 0), Wide)
<1>1. PICK w, t, z : w = Word(1, Wide) /\ t = Shl(w, 31) /\ z = Zext(Halves(32768, 0), Wide)
  OBVIOUS
<1>2. Wide = 10 /\ 10 \in Nat
  BY DEF Wide
<1>3. w \in Word8(10) /\ t \in Word8(10)
  BY <1>1, <1>2, WordBytes, ShiftedBytes
<1>4. Len(w) = 10 /\ \A i \in 1 .. 10 : w[i] = IF i = 1 THEN 1 ELSE 0
  <2>1. Len(w) = 10
    BY <1>3, ByteTypes
  <2>2. 256^0 = 1 /\ 256^1 = 256 /\ 256^2 = 65536 /\ 256^3 = 16777216
    OBVIOUS
  <2>3. \A i \in 1 .. 10 : i \in {1, 2, 3, 4} \/ i > 4
    OBVIOUS
  <2>4. w[1] = (1 \div 256^(1 - 1)) % 256 /\ w[2] = (1 \div 256^(2 - 1)) % 256
        /\ w[3] = (1 \div 256^(3 - 1)) % 256 /\ w[4] = (1 \div 256^(4 - 1)) % 256
    BY <1>1, <1>2 DEF Word
  <2>5. 1 - 1 = 0 /\ 2 - 1 = 1 /\ 3 - 1 = 2 /\ 4 - 1 = 3
    OBVIOUS
  <2>6. w[1] = (1 \div 1) % 256 /\ w[2] = (1 \div 256) % 256
        /\ w[3] = (1 \div 65536) % 256 /\ w[4] = (1 \div 16777216) % 256
    BY <2>2, <2>4, <2>5
  <2>7. w[1] = 1 /\ w[2] = 0 /\ w[3] = 0 /\ w[4] = 0
    BY <2>6
  <2>8. \A i \in 1 .. 10 : i > 4 => w[i] = 0
    BY <1>1, <1>2 DEF Word
  <2> QED
    BY <2>1, <2>3, <2>7, <2>8
<1>5. ASSUME NEW i \in 1 .. 10 PROVE t[i] = IF i = 4 THEN 128 ELSE 0
  <2>1. 31 \div 8 = 3 /\ 31 % 8 = 7 /\ 2^7 = 128
    OBVIOUS
  <2>2. PICK x, y : x = (IF i <= 3 THEN 0 ELSE w[i - 3]) /\ y = (IF i <= 4 THEN 0 ELSE w[i - 4])
    OBVIOUS
  <2>3. t[i] = (x * 128 + ((y * 128) \div 256)) % 256
    <3>1. /\ i - 3 < 1 <=> i <= 3
          /\ i - 3 - 1 < 1 <=> i <= 4
          /\ ~(i - 3 > 10) /\ ~(i - 3 - 1 > 10) /\ i - 3 - 1 = i - 4
      OBVIOUS
    <3> DEFINE at(k) == IF k < 1 THEN 0 ELSE IF k > 10 THEN 0 ELSE w[k]
    <3>2. Shl(w, 31) = [k \in 1 .. 10 |-> (at(k - 3) * 128 + ((at(k - 3 - 1) * 128) \div 256)) % 256]
      BY <1>4, <2>1 DEF Shl
    <3>3. at(i - 3) = x /\ at(i - 3 - 1) = y
      BY <2>2, <3>1
    <3> HIDE DEF at
    <3> QED
      BY <1>1, <3>2, <3>3
  <2>4. x = (IF i = 4 THEN 1 ELSE 0) /\ y = (IF i = 5 THEN 1 ELSE 0)
    BY <1>4, <2>2
  <2> QED
    BY <2>3, <2>4
<1>6. PICK h : h = Halves(32768, 0)
  OBVIOUS
<1>7. Len(h) = 4 /\ h[1] = 0 /\ h[2] = 0 /\ h[3] = 0 /\ h[4] = 128
  <2>1. h = <<0 % 256, 0 \div 256, 32768 % 256, 32768 \div 256>>
    BY <1>6 DEF Halves
  <2> QED
    BY <2>1
<1>8. ASSUME NEW i \in 1 .. 10 PROVE z[i] = IF i = 4 THEN 128 ELSE 0
  <2>1. z[i] = IF i <= 4 THEN h[i] ELSE 0
    BY <1>1, <1>2, <1>6, <1>7 DEF Zext
  <2>2. i = 1 \/ i = 2 \/ i = 3 \/ i = 4 \/ i > 4
    OBVIOUS
  <2> QED
    BY <1>7, <2>1, <2>2
<1>9. t = [i \in 1 .. 10 |-> t[i]] /\ z = [i \in 1 .. 10 |-> z[i]]
  BY <1>1, <1>2, <1>3 DEF Word8, Zext
<1>10. t = z
  BY <1>5, <1>8, <1>9
<1> QED
  BY <1>1, <1>10

\* The kernel's rounded product with the reciprocal is the model's.
LEMMA SameRounded ==
  ASSUME NEW num \in Word8(Wide), NEW recip \in Word8(4)
  PROVE  /\ NormalizedQ8_8(num, recip) \in S16
         /\ Queue!RoundedProduct(num, recip) = NormalizedQ8_8(num, recip)
<1>1. Wide = 10 /\ 10 \in Nat
  BY DEF Wide
<1>2. Sext(recip, Wide) \in Word8(10)
  BY <1>1, ExtendedBytes
<1>3. PICK mul : mul = Times(num, Sext(recip, Wide))
  OBVIOUS
<1>4. mul \in Word8(10)
  <2>1. num \in [1 .. 10 -> Int] /\ Sext(recip, Wide) \in [1 .. 10 -> Int]
    BY <1>1, <1>2, ByteTypes
  <2> QED
    BY <1>1, <1>3, <2>1, ProductBytes
<1>5. PICK half : half = Zext(Halves(32768, 0), Wide) /\ half = Shl(Word(1, Wide), 31)
  BY SameHalf
<1>6. half \in Word8(10)
  <2>1. Word(1, Wide) \in Word8(10)
    BY <1>1, WordBytes
  <2> QED
    BY <1>1, <1>5, <2>1, ShiftedBytes
<1>7. PICK s : s = IF Negative(mul) THEN Minus(mul, half) ELSE Plus(mul, half)
  OBVIOUS
<1>8. s \in Word8(10)
  BY <1>1, <1>4, <1>6, <1>7, SumBytes
<1>9. Sar(s, 32) \in Word8(10)
  BY <1>1, <1>8, ShiftedBytes
<1>10. Low32(Sar(s, 32)) \in Int
  BY <1>1, <1>9, LowNumber
<1>11. NormalizedQ8_8(num, recip) = sat_s16(Low32(Sar(s, 32)))
  BY <1>3, <1>5, <1>7 DEF NormalizedQ8_8
<1>12. Queue!RoundedProduct(num, recip) = Queue!sat_s16(Low32(Sar(s, 32)))
  <2>1. Queue!Times(num, Queue!Sext(recip, Queue!Wide)) = mul
    BY <1>3, SameNumbers, SameSigns, SameProduct
  <2>2. Queue!Shl(Queue!Word(1, Queue!Wide), 31) = half
    BY <1>5, SameNumbers, SameShifts
  <2>3. (IF Queue!Negative(mul) THEN Queue!Minus(mul, half) ELSE Queue!Plus(mul, half)) = s
    BY <1>7, SameSigns, SameSums
  <2>4. Queue!RoundedProduct(num, recip) = Queue!sat_s16(Queue!Low32(Queue!Sar(s, 32)))
    BY <2>1, <2>2, <2>3 DEF Queue!RoundedProduct
  <2> QED
    BY <2>4, SameShifts, SameLow32
<1> QED
  BY <1>10, <1>11, <1>12, SameSaturation

\* A row of the kernels' state.
RowStates == [m : Int, l : Int, acc : [Dims -> Int]]

\* The numerator of the normalisation is a wide word.
LEMMA NumeratorBytes ==
  ASSUME NEW a \in Int
  PROVE  Word(a, Wide) \in Word8(Wide) /\ Shl(Word(a, Wide), 8) \in Word8(Wide)
<1>1. Wide \in Nat /\ 8 \in Nat
  BY DEF Wide
<1> QED
  BY <1>1, WordBytes, ShiftedBytes

\* A row that some key has a weight in is normalised as in the model; one without,
\* is saturated.
LEMMA SameNormalization ==
  ASSUME NEW row \in RowStates
  PROVE  /\ o_normalize_block_row(row) \in [Dims -> Int]
         /\ row.l # 0 => Queue!Normalized("RTL_CTX_STEP_ACC24", row) = o_normalize_block_row(row)
         /\ StrictNormalized(row) \in [Dims -> Int]
         /\ Queue!Normalized("RTL_STRICT", row) = StrictNormalized(row)
<1>1. row.l \in Int /\ row.acc \in [Dims -> Int] /\ DOMAIN row.acc = Dims /\ \A d \in Dims : row.acc[d] \in Int
  BY DEF RowStates
<1>2. Word(row.l, 4) \in Word8(4)
  BY <1>1, WordBytes
<1>3. PICK recip \in Word8(4) :
        recip = recip_nr_rtl_q16_16(Word(row.l, 4)) /\ recip = Queue!recip_nr_rtl_q16_16(Word(row.l, 4))
  BY <1>2, SameReciprocal
<1>4. \A d \in Dims :
        /\ NormalizedQ8_8(Word(row.acc[d], Wide), recip) \in S16
        /\ Queue!RoundedProduct(Word(row.acc[d], Wide), recip) = NormalizedQ8_8(Word(row.acc[d], Wide), recip)
        /\ NormalizedQ8_8(Shl(Word(row.acc[d], Wide), 8), recip) \in S16
        /\ Queue!RoundedProduct(Shl(Word(row.acc[d], Wide), 8), recip)
             = NormalizedQ8_8(Shl(Word(row.acc[d], Wide), 8), recip)
  BY <1>1, NumeratorBytes, SameRounded
<1>5. S16 \subseteq Int
  BY DEF S16
<1>11. recip = recip_nr_rtl_q16_16(Word(row.l, 4))
  BY <1>3
<1>6. /\ o_normalize_block_row(row)
           = [d \in Dims |-> IF row.l = 0 THEN (IF row.acc[d] >= 0 THEN 32767 ELSE -32768)
                             ELSE NormalizedQ8_8(Shl(Word(row.acc[d], Wide), 8), recip)]
      /\ StrictNormalized(row) = [d \in Dims |-> NormalizedQ8_8(Word(row.acc[d], Wide), recip)]
  <2> HIDE <1>3
  <2>1. o_normalize_block_row(row)
          = [d \in Dims |-> IF row.l = 0 THEN (IF row.acc[d] >= 0 THEN 32767 ELSE -32768)
                            ELSE NormalizedQ8_8(Shl(Word(row.acc[d], Wide), 8), recip)]
    BY <1>11 DEF o_normalize_block_row, Applied, Evaluated
  <2>2. StrictNormalized(row) = [d \in Dims |-> NormalizedQ8_8(Word(row.acc[d], Wide), recip)]
    BY <1>11 DEF StrictNormalized, Applied, Evaluated
  <2> QED
    BY <2>1, <2>2
<1>7. Queue!recip_nr_rtl_q16_16(Queue!Word(row.l, 4)) = recip
  BY <1>3, SameNumbers
<1>12. /\ Queue!Normalized("RTL_CTX_STEP_ACC24", row)
            = [d \in DOMAIN row.acc |->
                 Queue!RoundedProduct(Queue!Shl(Queue!Word(row.acc[d], Queue!Wide), 8), recip)]
       /\ Queue!Normalized("RTL_STRICT", row)
            = [d \in DOMAIN row.acc |->
                 Queue!RoundedProduct(Queue!Word(row.acc[d], Queue!Wide), recip)]
  <2>1. Queue!Normalized("RTL_CTX_STEP_ACC24", row)
          = [d \in DOMAIN row.acc |->
               Queue!RoundedProduct(Queue!Shl(Queue!Word(row.acc[d], Queue!Wide), 8), recip)]
    BY <1>7 DEF Queue!Normalized, Queue!Applied, Queue!Evaluated
  <2>2. Queue!Normalized("RTL_STRICT", row)
          = [d \in DOMAIN row.acc |-> Queue!RoundedProduct(Queue!Word(row.acc[d], Queue!Wide), recip)]
    BY <1>7 DEF Queue!Normalized, Queue!Applied, Queue!Evaluated
  <2> QED
    BY <2>1, <2>2
<1>13. \A d : /\ Queue!Word(row.acc[d], Queue!Wide) = Word(row.acc[d], Wide)
              /\ Queue!Shl(Queue!Word(row.acc[d], Queue!Wide), 8) = Shl(Word(row.acc[d], Wide), 8)
  BY SameNumbers, SameShifts
<1>8. /\ Queue!Normalized("RTL_CTX_STEP_ACC24", row)
           = [d \in Dims |-> Queue!RoundedProduct(Shl(Word(row.acc[d], Wide), 8), recip)]
      /\ Queue!Normalized("RTL_STRICT", row)
           = [d \in Dims |-> Queue!RoundedProduct(Word(row.acc[d], Wide), recip)]
  BY <1>1, <1>12, <1>13
<1>9. o_normalize_block_row(row) \in [Dims -> Int]
  <2> DEFINE end(d) == IF row.acc[d] >= 0 THEN 32767 ELSE -32768
  <2>1. \A d \in Dims : end(d) \in Int
    OBVIOUS
  <2>2. o_normalize_block_row(row)
          = [d \in Dims |-> IF row.l = 0 THEN end(d)
                            ELSE NormalizedQ8_8(Shl(Word(row.acc[d], Wide), 8), recip)]
    BY <1>6
  <2> HIDE DEF end
  <2> QED
    BY <1>4, <1>5, <2>1, <2>2
<1>10. StrictNormalized(row) \in [Dims -> Int]
  <2>1. \A d \in Dims : NormalizedQ8_8(Word(row.acc[d], Wide), recip) \in Int
    BY <1>4, <1>5
  <2> QED
    BY <1>6, <2>1
<1> QED
  BY <1>4, <1>6, <1>8, <1>9, <1>10

-----------------------------------------------------------------------------
(* A row takes a key.                                                       *)

\* The mode of the model that a kernel corresponds to.
ModeOf(strict) == IF strict THEN "RTL_STRICT" ELSE "RTL_CTX_STEP_ACC24"

\* The kernel's row takes a key as the model's does.
LEMMA SameRowStep ==
  ASSUME NEW old \in RowStates, NEW score \in Int, NEW v \in [Dims -> Int], NEW strict \in BOOLEAN
  PROVE  /\ RowStep(old, score, v, strict) \in RowStates
         /\ Queue!KeyStep(ModeOf(strict), old, score, v) = RowStep(old, score, v, strict)
<1>1. old.m \in Int /\ old.l \in Int /\ old.acc \in [Dims -> Int]
  BY DEF RowStates
<1>2. PICK m \in Int : m = IF score > old.m THEN score ELSE old.m
  BY <1>1
<1> DEFINE Exp(x) == IF strict THEN exp_pwl_q1_15(x) ELSE exp2_ctx_q1_15(x)
           Weigh(e, n) == IF strict THEN WeighQ8_24(e, n) ELSE WeighQ16_16(e, n)
<1>3. \A x \in Int : Exp(x) \in Int /\ Queue!ExpOf(ModeOf(strict), x) = Exp(x)
  <2>1. CASE strict
    BY <2>1, SamePwl DEF Queue!ExpOf, ModeOf
  <2>2. CASE ~strict
    BY <2>2, SameExp2 DEF Queue!ExpOf, ModeOf
  <2> QED
    BY <2>1, <2>2
<1>4. \A e \in Int, n \in Int : Weigh(e, n) \in Int /\ Queue!PvTerm(ModeOf(strict), e, n) = Weigh(e, n)
  <2> SUFFICES ASSUME NEW e \in Int, NEW n \in Int
               PROVE  Weigh(e, n) \in Int /\ Queue!PvTerm(ModeOf(strict), e, n) = Weigh(e, n)
    OBVIOUS
  <2>1. CASE strict
    <3>1. 2 * e * n = e * n * 2 /\ 2 * e * n \in Int
      OBVIOUS
    <3> QED
      BY <2>1, <3>1 DEF Queue!PvTerm, ModeOf, WeighQ8_24
  <2>2. CASE ~strict
    <3>1. PICK p \in Int : p = e * n
      OBVIOUS
    <3>2. p \div 128 \in Int
      OBVIOUS
    <3> QED
      BY <2>2, <3>1, <3>2 DEF Queue!PvTerm, ModeOf, WeighQ16_16
  <2> QED
    BY <2>1, <2>2
<1>5. PICK a \in Int, b \in Int : a = ToS16(old.m - m) /\ b = ToS16(score - m)
  <2>1. old.m - m \in Int /\ score - m \in Int
    BY <1>1
  <2>2. ToS16(old.m - m) \in S16 /\ ToS16(score - m) \in S16
    BY <2>1, SameCast
  <2>3. S16 \subseteq Int
    BY DEF S16
  <2> QED
    BY <2>2, <2>3
<1>6. Queue!AsInt16(old.m - m) = a /\ Queue!AsInt16(score - m) = b
  <2>1. old.m - m \in Int /\ score - m \in Int
    BY <1>1
  <2> QED
    BY <1>5, <2>1, SameCast
<1>7. PICK eo \in Int, en \in Int : eo = Exp(a) /\ en = Exp(b)
  BY <1>3
<1>8. Queue!ExpOf(ModeOf(strict), a) = eo /\ Queue!ExpOf(ModeOf(strict), b) = en
  BY <1>3, <1>7
<1>9. RowStep(old, score, v, strict)
        = [m |-> m, l |-> ScaledQ1_15(old.l, eo) + 2 * en,
           acc |-> [d \in Dims |-> ScaledQ1_15(old.acc[d], eo) + Weigh(en, v[d])]]
  <2>1. RowStep(old, score, v, strict)
          = [m |-> m, l |-> ScaledQ1_15(old.l, Exp(ToS16(old.m - m))) + 2 * Exp(ToS16(score - m)),
             acc |-> [d \in Dims |-> ScaledQ1_15(old.acc[d], Exp(ToS16(old.m - m)))
                                       + Weigh(Exp(ToS16(score - m)), v[d])]]
    BY <1>2 DEF RowStep, Applied, Evaluated
  <2> HIDE DEF Exp, Weigh
  <2> QED
    BY <1>5, <1>7, <2>1
<1>10. Queue!KeyStep(ModeOf(strict), old, score, v)
         = [m |-> m, l |-> Queue!Scaled(old.l, eo) + en * 2,
            acc |-> [d \in DOMAIN v |-> Queue!Scaled(old.acc[d], eo)
                                          + Queue!PvTerm(ModeOf(strict), en, v[d])]]
  <2>1. Queue!KeyStep(ModeOf(strict), old, score, v)
         = [m |-> m, l |-> Queue!Scaled(old.l, Queue!ExpOf(ModeOf(strict), Queue!AsInt16(old.m - m)))
                            + Queue!ExpOf(ModeOf(strict), Queue!AsInt16(score - m)) * 2,
            acc |-> [d \in DOMAIN v |->
                       Queue!Scaled(old.acc[d], Queue!ExpOf(ModeOf(strict), Queue!AsInt16(old.m - m)))
                         + Queue!PvTerm(ModeOf(strict),
                                        Queue!ExpOf(ModeOf(strict), Queue!AsInt16(score - m)), v[d])]]
    BY <1>2 DEF Queue!KeyStep, Queue!Applied, Queue!Evaluated
  <2> QED
    BY <1>6, <1>8, <2>1
<1> HIDE DEF Exp, Weigh
<1>11. DOMAIN v = Dims /\ \A d \in Dims : v[d] \in Int /\ old.acc[d] \in Int
  BY <1>1
<1>12. \A d \in Dims :
         /\ Queue!Scaled(old.acc[d], eo) = ScaledQ1_15(old.acc[d], eo)
         /\ ScaledQ1_15(old.acc[d], eo) \in Int
         /\ Queue!PvTerm(ModeOf(strict), en, v[d]) = Weigh(en, v[d])
         /\ Weigh(en, v[d]) \in Int
  BY <1>4, <1>11, SameDecay
<1>13. /\ Queue!Scaled(old.l, eo) = ScaledQ1_15(old.l, eo)
       /\ ScaledQ1_15(old.l, eo) \in Int /\ en * 2 = 2 * en /\ 2 * en \in Int
  <2>1. Queue!Scaled(old.l, eo) = ScaledQ1_15(old.l, eo) /\ ScaledQ1_15(old.l, eo) \in Int
    BY <1>1, SameDecay
  <2>2. en * 2 = 2 * en /\ 2 * en \in Int
    OBVIOUS
  <2> QED
    BY <2>1, <2>2
<1>14. RowStep(old, score, v, strict) \in RowStates
  <2>1. ScaledQ1_15(old.l, eo) + 2 * en \in Int
    BY <1>13
  <2>2. [d \in Dims |-> ScaledQ1_15(old.acc[d], eo) + Weigh(en, v[d])] \in [Dims -> Int]
    BY <1>12
  <2> QED
    BY <1>9, <2>1, <2>2 DEF RowStates
<1>15. Queue!KeyStep(ModeOf(strict), old, score, v) = RowStep(old, score, v, strict)
  BY <1>9, <1>10, <1>11, <1>12, <1>13
<1> QED
  BY <1>14, <1>15

\* A row that has seen no key is one.
LEMMA FreshRowState ==
  ASSUME NEW neg_large \in Int
  PROVE  FreshRow(neg_large) \in RowStates
BY DEF FreshRow, RowStates

-----------------------------------------------------------------------------
(* The dot product of the model: element by element.                        *)

ModelDotOver(l, r, S) == Queue!MapThenSumSet(LAMBDA d : l[d] * r[d], S)

\* It is a sum of the lemmas on sums.
LEMMA ModelProductsAdded ==
  ASSUME NEW l, NEW r, NEW g, NEW S, \A d \in S : g[d] = l[d] * r[d]
  PROVE  ModelDotOver(l, r, S) = SumOver(g, S)
<1> DEFINE F(it) == [s \in SUBSET S |->
                       IF s = {} THEN 0
                       ELSE l[CHOOSE x \in s : TRUE] * r[CHOOSE x \in s : TRUE]
                              + it[s \ {CHOOSE x \in s : TRUE}]]
           G(it) == [s \in SUBSET S |->
                       IF s = {} THEN 0
                       ELSE g[CHOOSE x \in s : TRUE] + it[s \ {CHOOSE x \in s : TRUE}]]
<1>1. SumOver(g, S) = (CHOOSE it : it = G(it))[S]
  BY DEF SumOver, MapThenSumSet, MapThenFoldSet
<1>2. ModelDotOver(l, r, S) = (CHOOSE it : it = F(it))[S]
  BY DEF ModelDotOver, Queue!MapThenSumSet, Queue!MapThenFoldSet
<1>3. ASSUME NEW it PROVE F(it) = G(it)
  <2>1. ASSUME NEW s \in SUBSET S, s # {} PROVE (CHOOSE x \in s : TRUE) \in S
    BY <2>1
  <2> QED
    BY <2>1
<1> HIDE DEF F, G
<1>4. (CHOOSE it : it = F(it)) = (CHOOSE it : it = G(it))
  BY <1>3
<1> QED
  BY <1>1, <1>2, <1>4

\* Lanes or not, the dot product is the sum of the products, in the kernel and in the model.
LEMMA SameDotProduct ==
  ASSUME NEW l \in [Dims -> Int], NEW r \in [Dims -> Int]
  PROVE  /\ dotprod_q8_8(l, r) \in Int
         /\ ModelDotOver(l, r, Dims) = dotprod_q8_8(l, r)
<1>1. PICK dim \in Nat : dim = HeadDim /\ Dims = 0 .. dim - 1
  BY HlsShape DEF Dims
<1>2. PICK g : g = [d \in 0 .. dim - 1 |-> l[d] * r[d]]
  OBVIOUS
<1>3. \A d \in 0 .. dim - 1 : g[d] = l[d] * r[d] /\ l[d] \in Int /\ r[d] \in Int
  BY <1>1, <1>2
<1>4. dotprod_q8_8_single(l, r, dim) = SumOver(g, 0 .. dim - 1) /\ dotprod_q8_8_single(l, r, dim) \in Int
  BY <1>3, DotProductIsSum
<1>5. PICK S : S = 0 .. dim - 1
  OBVIOUS
<1>6. \A d \in S : g[d] = l[d] * r[d]
  BY <1>3, <1>5
<1>7. ModelDotOver(l, r, S) = SumOver(g, S)
  BY <1>6, ModelProductsAdded
<1> QED
  BY <1>1, <1>4, <1>5, <1>7 DEF dotprod_q8_8

-----------------------------------------------------------------------------
(* A call, and the model given its operands.                                *)

\* The arguments of a call hold the rows it reads.
CallFits(c) ==
  /\ c.seq_len \in Nat /\ c.seq_len <= MaxSeqLen /\ StrideElems(c) = HeadDim
  /\ c.scale \in Int /\ c.neg_large \in Int /\ c.causal \in BOOLEAN
  /\ \A e \in 0 .. c.seq_len * HeadDim - 1 : c.q[e] \in Int /\ c.k[e] \in Int /\ c.v[e] \in Int

\* The elements of a row are in the rows before the end.
LEMMA RowInside ==
  ASSUME NEW n \in Nat, NEW i \in 0 .. n - 1, NEW d \in Dims
  PROVE  i * HeadDim + d \in 0 .. n * HeadDim - 1
<1>1. PICK h \in Nat : h = HeadDim /\ h # 0
  BY HlsShape
<1>2. d \in Int /\ 0 <= d /\ d <= h - 1 /\ i \in Int /\ 0 <= i /\ i <= n - 1
  BY <1>1 DEF Dims
<1>3. PICK e \in Nat : n = i + 1 + e
  <2>1. n - i - 1 \in Nat
    BY <1>2
  <2> QED
    BY <1>2, <2>1
<1>4. n * h = i * h + h + e * h /\ e * h \in Nat /\ i * h \in Nat
  BY <1>1, <1>2, <1>3
<1> QED
  BY <1>1, <1>2, <1>4

\* Row of the kernel and Matrix of the model read the same row of an operand.
LEMMA MatrixRow ==
  ASSUME NEW a, NEW n \in Nat, NEW i \in 0 .. n - 1,
         \A e \in 0 .. n * HeadDim - 1 : a[e] \in Int
  PROVE  Row(a, i, HeadDim, TRUE) \in [Dims -> Int] /\ Queue!Matrix(a, n)[i] = Row(a, i, HeadDim, TRUE)
<1>1. Row(a, i, HeadDim, TRUE) = [d \in Dims |-> a[i * HeadDim + d]]
  BY DEF Row
<1>2. \A d \in Dims : a[i * HeadDim + d] \in Int
  BY RowInside
<1>3. Queue!Matrix(a, n) = [j \in 0 .. n - 1 |-> [d \in 0 .. HeadDim - 1 |-> a[j * HeadDim + d]]]
  BY DEF Queue!Matrix, Queue!Evaluated
<1>4. Queue!Matrix(a, n)[i] = [d \in Dims |-> a[i * HeadDim + d]]
  BY <1>3 DEF Dims
<1> QED
  BY <1>1, <1>2, <1>4

\* What the model is given for a call.
ModelArguments(c, strict) ==
  [mode |-> ModeOf(strict), q |-> Queue!Matrix(c.q, c.seq_len), k |-> Queue!Matrix(c.k, c.seq_len),
   v |-> Queue!Matrix(c.v, c.seq_len), n |-> c.seq_len, scale |-> c.scale, causal |-> c.causal,
   neg |-> c.neg_large]

\* Row r of the model with key j, where it is query i.
ModelKey(x, i, r, j) ==
  IF (x.causal /\ j > i) /\ FALSE THEN r
  ELSE Queue!KeyStep(x.mode, r, IF x.causal /\ j > i THEN x.neg
                                                      ELSE Queue!ScoreQ8_8(x.q[i], x.k[j], x.scale), x.v[j])

\* A row of the model that has seen no key, and one that has seen them all.
ModelFresh(x) == [m |-> x.neg, l |-> 0, acc |-> [d \in DOMAIN x.q[0] |-> 0]]

ModelRow(x, i) ==
  Queue!FoldLeft(LAMBDA r, j : ModelKey(x, i, r, j), ModelFresh(x),
                 [n \in 1 .. (x.n \div 1) * 1 |-> n - 1])

\* The score of a query and a key is the same number in the kernel and in the model.
LEMMA SameScore ==
  ASSUME NEW q \in [Dims -> Int], NEW k \in [Dims -> Int], NEW scale \in Int
  PROVE  /\ q8_8_mul_sat(ToS16(dotprod_q8_8(q, k) \div 256), scale) \in Int
         /\ Queue!ScoreQ8_8(q, k, scale) = q8_8_mul_sat(ToS16(dotprod_q8_8(q, k) \div 256), scale)
<1>1. PICK dp \in Int : dp = dotprod_q8_8(q, k)
  BY SameDotProduct
<1>2. PICK n \in Int : n = dp \div 256
  OBVIOUS
<1>3. PICK b \in Int : b = ToS16(n) /\ b = Queue!AsInt16(n)
  <2>1. S16 \subseteq Int
    BY DEF S16
  <2> QED
    BY <2>1, SameCast
<1>4. q8_8_mul_sat(b, scale) \in Int /\ Queue!q8_8_mul_sat(b, scale) = q8_8_mul_sat(b, scale)
  <2>1. S16 \subseteq Int
    BY DEF S16
  <2> QED
    BY <2>1, SameScaling
<1>5. Queue!ScoreQ8_8(q, k, scale) = Queue!q8_8_mul_sat(b, scale)
  <2>1. DOMAIN q = Dims
    OBVIOUS
  <2>2. ModelDotOver(q, k, DOMAIN q) = dp
    BY <1>1, <2>1, SameDotProduct
  <2>3. Queue!ScoreQ8_8(q, k, scale) = Queue!q8_8_mul_sat(Queue!AsInt16(ModelDotOver(q, k, DOMAIN q) \div 256), scale)
    BY DEF Queue!ScoreQ8_8, ModelDotOver
  <2> QED
    BY <1>2, <1>3, <2>2, <2>3
<1> QED
  BY <1>1, <1>2, <1>3, <1>4, <1>5

\* The kernel gives a row the keys and the scores the model does.
LEMMA SameKeys ==
  ASSUME NEW c, CallFits(c), NEW strict \in BOOLEAN, NEW x, x = ModelArguments(c, strict),
         NEW i \in 0 .. c.seq_len - 1, NEW n \in 1 .. c.seq_len
  PROVE  /\ KeyOf(c, i, n).score \in Int /\ KeyOf(c, i, n).v \in [Dims -> Int]
         /\ \A r \in RowStates :
              /\ RowStep(r, KeyOf(c, i, n).score, KeyOf(c, i, n).v, strict) \in RowStates
              /\ ModelKey(x, i, r, n - 1) = RowStep(r, KeyOf(c, i, n).score, KeyOf(c, i, n).v, strict)
<1>1. PICK N \in Nat : N = c.seq_len
  BY DEF CallFits
<1>2. n - 1 \in 0 .. N - 1 /\ i \in 0 .. N - 1
  BY <1>1
<1>3. StrideElems(c) = HeadDim /\ c.scale \in Int /\ c.neg_large \in Int /\ c.causal \in BOOLEAN
  BY DEF CallFits
<1>4. PICK q \in [Dims -> Int] : q = Row(c.q, i, HeadDim, TRUE) /\ q = x.q[i]
  <2>1. \A e \in 0 .. N * HeadDim - 1 : c.q[e] \in Int
    BY <1>1 DEF CallFits
  <2>2. x.q = Queue!Matrix(c.q, N)
    BY <1>1 DEF ModelArguments
  <2>3. PICK a, j : a = c.q /\ j = i
    OBVIOUS
  <2>4. j \in 0 .. N - 1 /\ \A e \in 0 .. N * HeadDim - 1 : a[e] \in Int
    BY <1>2, <2>1, <2>3
  <2>5. Row(a, j, HeadDim, TRUE) \in [Dims -> Int] /\ Queue!Matrix(a, N)[j] = Row(a, j, HeadDim, TRUE)
    BY <2>4, MatrixRow
  <2> QED
    BY <2>2, <2>3, <2>5
<1>5. PICK k \in [Dims -> Int] : k = Row(c.k, n - 1, HeadDim, TRUE) /\ k = x.k[n - 1]
  <2>1. \A e \in 0 .. N * HeadDim - 1 : c.k[e] \in Int
    BY <1>1 DEF CallFits
  <2>2. x.k = Queue!Matrix(c.k, N)
    BY <1>1 DEF ModelArguments
  <2>3. PICK a, j : a = c.k /\ j = n - 1
    OBVIOUS
  <2>4. j \in 0 .. N - 1 /\ \A e \in 0 .. N * HeadDim - 1 : a[e] \in Int
    BY <1>2, <2>1, <2>3
  <2>5. Row(a, j, HeadDim, TRUE) \in [Dims -> Int] /\ Queue!Matrix(a, N)[j] = Row(a, j, HeadDim, TRUE)
    BY <2>4, MatrixRow
  <2> QED
    BY <2>2, <2>3, <2>5
<1>6. PICK v \in [Dims -> Int] : v = Row(c.v, n - 1, HeadDim, TRUE) /\ v = x.v[n - 1]
  <2>1. \A e \in 0 .. N * HeadDim - 1 : c.v[e] \in Int
    BY <1>1 DEF CallFits
  <2>2. x.v = Queue!Matrix(c.v, N)
    BY <1>1 DEF ModelArguments
  <2>3. PICK a, j : a = c.v /\ j = n - 1
    OBVIOUS
  <2>4. j \in 0 .. N - 1 /\ \A e \in 0 .. N * HeadDim - 1 : a[e] \in Int
    BY <1>2, <2>1, <2>3
  <2>5. Row(a, j, HeadDim, TRUE) \in [Dims -> Int] /\ Queue!Matrix(a, N)[j] = Row(a, j, HeadDim, TRUE)
    BY <2>4, MatrixRow
  <2> QED
    BY <2>2, <2>3, <2>5
<1>7. x.scale = c.scale /\ x.causal = c.causal /\ x.neg = c.neg_large /\ x.mode = ModeOf(strict)
  BY DEF ModelArguments
<1>8. PICK score \in Int :
        /\ score = (IF c.causal /\ n - 1 > i THEN c.neg_large
                    ELSE q8_8_mul_sat(ToS16(dotprod_q8_8(q, k) \div 256), c.scale))
        /\ score = (IF x.causal /\ n - 1 > i THEN x.neg ELSE Queue!ScoreQ8_8(x.q[i], x.k[n - 1], x.scale))
  <2>1. PICK dp : dp = q8_8_mul_sat(ToS16(dotprod_q8_8(q, k) \div 256), c.scale)
    OBVIOUS
  <2>2. dp \in Int /\ Queue!ScoreQ8_8(q, k, c.scale) = dp
    BY <1>3, <2>1, SameScore
  <2>3. Queue!ScoreQ8_8(x.q[i], x.k[n - 1], x.scale) = dp
    BY <1>4, <1>5, <1>7, <2>2
  <2> QED
    BY <1>3, <1>7, <2>1, <2>2, <2>3
<1>9. KeyOf(c, i, n).score = score /\ KeyOf(c, i, n).v = v
  BY <1>3, <1>4, <1>5, <1>6, <1>8 DEF KeyOf, ScoreOf, Masked
<1>10. \A r : ModelKey(x, i, r, n - 1) = Queue!KeyStep(ModeOf(strict), r, score, v)
  BY <1>6, <1>7, <1>8 DEF ModelKey
<1>11. \A r \in RowStates : /\ RowStep(r, score, v, strict) \in RowStates
                            /\ Queue!KeyStep(ModeOf(strict), r, score, v) = RowStep(r, score, v, strict)
  BY SameRowStep
<1> QED
  BY <1>9, <1>10, <1>11

-----------------------------------------------------------------------------
(* The model folds over the keys, the kernel loops over them.               *)

\* The keys of a row, one after the other.
KeySteps(c, i, strict) ==
  [at \in (1 .. c.seq_len) \X RowStates |->
     RowStep(at[2], KeyOf(c, i, at[1]).score, KeyOf(c, i, at[1]).v, strict)]

\* Taking keys, a row stays one.
LEMMA KeyStepsStay ==
  ASSUME NEW c, CallFits(c), NEW i \in 0 .. c.seq_len - 1, NEW strict \in BOOLEAN
  PROVE  /\ StaysIn(KeySteps(c, i, strict), 1 .. c.seq_len, RowStates)
         /\ \A n \in 1 .. c.seq_len, r \in RowStates :
              KeySteps(c, i, strict)[<<n, r>>]
                = RowStep(r, KeyOf(c, i, n).score, KeyOf(c, i, n).v, strict)
<1>1. \A n \in 1 .. c.seq_len, r \in RowStates :
        RowStep(r, KeyOf(c, i, n).score, KeyOf(c, i, n).v, strict) \in RowStates
  <2> SUFFICES ASSUME NEW n \in 1 .. c.seq_len, NEW r \in RowStates
               PROVE  RowStep(r, KeyOf(c, i, n).score, KeyOf(c, i, n).v, strict) \in RowStates
    OBVIOUS
  <2>1. PICK x : x = ModelArguments(c, strict)
    OBVIOUS
  <2> QED
    BY <2>1, SameKeys
<1>2. \A n \in 1 .. c.seq_len, r \in RowStates :
        KeySteps(c, i, strict)[<<n, r>>] = RowStep(r, KeyOf(c, i, n).score, KeyOf(c, i, n).v, strict)
  BY DEF KeySteps
<1> QED
  BY <1>1, <1>2 DEF StaysIn

\* The fold of the model over the keys.
LEMMA ModelFold ==
  ASSUME NEW x, NEW i, NEW N \in Nat, x.n = N, NEW V, NEW base \in V, base = ModelFresh(x),
         NEW step, StaysIn(step, 1 .. N, V),
         \A n \in 1 .. N, r \in V : step[<<n, r>>] = ModelKey(x, i, r, n - 1)
  PROVE  \E it : LeftFold(it, base, step, N, V) /\ ModelRow(x, i) = it[1 .. N]
<1>1. PICK part : part = [n \in 1 .. (x.n \div 1) * 1 |-> n - 1]
  OBVIOUS
<1>2. DOMAIN part = 1 .. N /\ \A n \in 1 .. N : part[n] = n - 1
  <2>1. (x.n \div 1) * 1 = N
    OBVIOUS
  <2> QED
    BY <1>1, <2>1
<1> DEFINE S == DOMAIN part
           Body(it) == [s \in SUBSET S |->
                          IF s = {} THEN base ELSE ModelKey(x, i, it[s \ {Max(s)}], part[Max(s)])]
           total == CHOOSE it : it = Body(it)
<1>3. ModelRow(x, i) = total[S]
  <2>1. \A s : Queue!Max(s) = Max(s)
    BY DEF Queue!Max, Max
  <2> DEFINE Body2(it) == [s \in SUBSET S |->
                            IF s = {} THEN base
                            ELSE ModelKey(x, i, it[s \ {Queue!Max(s)}], part[Queue!Max(s)])]
  <2>2. ModelRow(x, i) = (CHOOSE it : it = Body2(it))[S]
    BY <1>1 DEF ModelRow, Queue!FoldLeft, Queue!MapThenFoldSet
  <2>3. ASSUME NEW it PROVE Body2(it) = Body(it)
    <3> HIDE DEF S
    <3> QED
      BY <2>1
  <2> HIDE DEF Body, Body2
  <2>4. (CHOOSE it : it = Body2(it)) = (CHOOSE it : it = Body(it))
    BY <2>3
  <2> QED
    BY <2>2, <2>4
<1>5. PICK it : /\ it = [s \in SUBSET (1 .. N) |-> it[s]]
                /\ \A s \in SUBSET (1 .. N) :
                     /\ LeftStep(it, base, step, s)
                     /\ s # {} => Max(s) \in 1 .. N /\ it[s \ {Max(s)}] \in V
  BY LeftFoldExists
<1>6. ASSUME NEW n \in 1 .. N, NEW r \in V PROVE step[<<n, r>>] = ModelKey(x, i, r, part[n])
  BY <1>2
<1>7. it = Body(it)
  <2>1. ASSUME NEW s \in SUBSET S
        PROVE  it[s] = IF s = {} THEN base ELSE ModelKey(x, i, it[s \ {Max(s)}], part[Max(s)])
    BY <1>2, <1>5, <1>6 DEF LeftStep
  <2>2. it = [s \in SUBSET S |-> it[s]]
    BY <1>2, <1>5
  <2> HIDE DEF S
  <2> QED
    BY <2>1, <2>2
<1>8. total = Body(total)
  <2> HIDE DEF Body
  <2> QED
    BY <1>7
<1> HIDE DEF total
<1>9. ASSUME NEW s \in SUBSET (1 .. N)
      PROVE  \/ s = {} /\ total[s] = base
             \/ s # {} /\ (Max(s) \in 1 .. N /\ total[s \ {Max(s)}] \in V => LeftStep(total, base, step, s))
  <2>1. total[s] = Body(total)[s]
    BY <1>8
  <2> QED
    BY <1>2, <1>6, <2>1 DEF LeftStep
<1>10. LeftFold(total, base, step, N, V)
  BY <1>9, LeftFoldHolds
<1> QED
  BY <1>2, <1>3, <1>10

\* The strict kernel's loop over the keys of a row is the fold.
LEMMA StrictRowFold ==
  ASSUME NEW c, NEW i, NEW N \in Nat, c.seq_len = N, N <= MaxSeqLen, NEW V,
         NEW base \in V, base = FreshRow(c.neg_large),
         NEW step, StaysIn(step, 1 .. N, V),
         \A n \in 1 .. N, r \in V :
           step[<<n, r>>] = StrictStep(r, KeyOf(c, i, n).score, KeyOf(c, i, n).v)
  PROVE  \E it : LeftFold(it, base, step, N, V) /\ StrictRow(c, i) = it[1 .. N]
<1>1. PICK part : part = [n \in 1 .. Clamped(c.seq_len) |-> n - 1]
  OBVIOUS
<1>2. DOMAIN part = 1 .. N /\ \A n \in 1 .. N : part[n] = n - 1
  <2>1. Clamped(c.seq_len) = N
    BY HlsShape DEF Clamped
  <2> QED
    BY <1>1, <2>1
<1> DEFINE S == DOMAIN part
           Key(row, j) == StrictStep(row, ScoreOf(c, dotprod_q8_8(Row(c.q, i, StrideElems(c), TRUE),
                                                              Row(c.k, j, StrideElems(c), TRUE)), i, j),
                                     Row(c.v, j, StrideElems(c), TRUE))
           Body(it) == [s \in SUBSET S |->
                          IF s = {} THEN base ELSE Key(it[s \ {Max(s)}], part[Max(s)])]
           total == CHOOSE it : it = Body(it)
<1>3. StrictRow(c, i) = total[S]
  BY <1>1 DEF StrictRow, FoldLeft, MapThenFoldSet
<1>5. PICK it : /\ it = [s \in SUBSET (1 .. N) |-> it[s]]
                /\ \A s \in SUBSET (1 .. N) :
                     /\ LeftStep(it, base, step, s)
                     /\ s # {} => Max(s) \in 1 .. N /\ it[s \ {Max(s)}] \in V
  BY LeftFoldExists
<1>6. ASSUME NEW n \in 1 .. N, NEW r \in V PROVE step[<<n, r>>] = Key(r, part[n])
  BY <1>2 DEF KeyOf
<1> HIDE DEF Key
<1>7. it = Body(it)
  <2>1. ASSUME NEW s \in SUBSET S
        PROVE  it[s] = IF s = {} THEN base ELSE Key(it[s \ {Max(s)}], part[Max(s)])
    BY <1>2, <1>5, <1>6 DEF LeftStep
  <2>2. it = [s \in SUBSET S |-> it[s]]
    BY <1>2, <1>5
  <2> HIDE DEF S
  <2> QED
    BY <2>1, <2>2
<1>8. total = Body(total)
  <2> HIDE DEF Body
  <2> QED
    BY <1>7
<1> HIDE DEF total
<1>9. ASSUME NEW s \in SUBSET (1 .. N)
      PROVE  \/ s = {} /\ total[s] = base
             \/ s # {} /\ (Max(s) \in 1 .. N /\ total[s \ {Max(s)}] \in V => LeftStep(total, base, step, s))
  <2>1. total[s] = Body(total)[s]
    BY <1>8
  <2> QED
    BY <1>2, <1>6, <2>1 DEF LeftStep
<1>10. LeftFold(total, base, step, N, V)
  BY <1>9, LeftFoldHolds
<1> QED
  BY <1>2, <1>3, <1>10

-----------------------------------------------------------------------------
(* The rows of the model are the rows of the loop.                          *)

\* A row of the model after all keys is the row of the loop, or of the strict kernel.
LEMMA SameRows ==
  ASSUME NEW c, CallFits(c), NEW i \in 0 .. c.seq_len - 1, NEW strict \in BOOLEAN,
         NEW x, x = ModelArguments(c, strict)
  PROVE  /\ ModelRow(x, i) \in RowStates
         /\ ~strict => ModelRow(x, i) = SequentialRow(c, i)[c.seq_len]
         /\ strict => ModelRow(x, i) = StrictRow(c, i)
<1>1. PICK N \in Nat : N = c.seq_len /\ N <= MaxSeqLen
  BY DEF CallFits
<1>2. PICK base \in RowStates : base = FreshRow(c.neg_large)
  BY FreshRowState DEF CallFits
<1>3. base = ModelFresh(x)
  <2>1. 0 \in 0 .. N - 1
    BY <1>1
  <2>2. x.q[0] = [d \in 0 .. HeadDim - 1 |-> c.q[0 * HeadDim + d]]
    BY <1>1, <2>1 DEF ModelArguments, Queue!Matrix, Queue!Evaluated
  <2>3. DOMAIN x.q[0] = Dims
    BY <2>2 DEF Dims
  <2>4. x.neg = c.neg_large
    BY DEF ModelArguments
  <2> QED
    BY <1>2, <2>3, <2>4 DEF FreshRow, ModelFresh
<1>4. PICK step : /\ step = KeySteps(c, i, strict)
                  /\ StaysIn(step, 1 .. N, RowStates)
                  /\ \A n \in 1 .. N, r \in RowStates :
                       step[<<n, r>>] = RowStep(r, KeyOf(c, i, n).score, KeyOf(c, i, n).v, strict)
  BY <1>1, KeyStepsStay
<1>5. \A n \in 1 .. N, r \in RowStates : step[<<n, r>>] = ModelKey(x, i, r, n - 1)
  <2> SUFFICES ASSUME NEW n \in 1 .. N, NEW r \in RowStates
               PROVE  step[<<n, r>>] = ModelKey(x, i, r, n - 1)
    OBVIOUS
  <2>1. n \in 1 .. c.seq_len
    BY <1>1
  <2>2. ModelKey(x, i, r, n - 1) = RowStep(r, KeyOf(c, i, n).score, KeyOf(c, i, n).v, strict)
    BY <2>1, SameKeys
  <2> QED
    BY <1>4, <2>2
<1>6. x.n = N
  BY <1>1 DEF ModelArguments
<1>7. PICK it : LeftFold(it, base, step, N, RowStates) /\ ModelRow(x, i) = it[1 .. N]
  <2>1. \A y, s : /\ y.n = N /\ base = ModelFresh(y) /\ StaysIn(s, 1 .. N, RowStates)
                  /\ \A n \in 1 .. N, r \in RowStates : s[<<n, r>>] = ModelKey(y, i, r, n - 1)
                  => \E it : LeftFold(it, base, s, N, RowStates) /\ ModelRow(y, i) = it[1 .. N]
    <3> SUFFICES ASSUME NEW y, NEW s, y.n = N, base = ModelFresh(y), StaysIn(s, 1 .. N, RowStates),
                        \A n \in 1 .. N, r \in RowStates : s[<<n, r>>] = ModelKey(y, i, r, n - 1)
                 PROVE  \E it : LeftFold(it, base, s, N, RowStates) /\ ModelRow(y, i) = it[1 .. N]
      OBVIOUS
    <3>1. PICK V : V = RowStates
      OBVIOUS
    <3>2. base \in V /\ StaysIn(s, 1 .. N, V) /\ \A n \in 1 .. N, r \in V : s[<<n, r>>] = ModelKey(y, i, r, n - 1)
      BY <3>1
    <3>3. \E it : LeftFold(it, base, s, N, V) /\ ModelRow(y, i) = it[1 .. N]
      BY <3>2, ModelFold
    <3> QED
      BY <3>1, <3>3
  <2> QED
    BY <1>3, <1>4, <1>5, <1>6, <2>1
<1>8. ModelRow(x, i) \in RowStates
  <2>1. 1 .. N \in SUBSET (1 .. N)
    OBVIOUS
  <2> QED
    BY <1>7, <2>1 DEF LeftFold
<1>9. CASE ~strict
  <2>1. PICK f : f = SequentialRow(c, i)
    OBVIOUS
  <2>2. LoopsTo(c, i, f, N)
    BY <1>1, <2>1, SequentialLoop
  <2>3. f[0] = base
    BY <1>2, <2>2 DEF LoopsTo
  <2>4. ASSUME NEW n \in 1 .. N, f[n - 1] \in RowStates PROVE f[n] = step[<<n, f[n - 1]>>]
    <3>1. f[n] = RowStep(f[n - 1], KeyOf(c, i, n).score, KeyOf(c, i, n).v, FALSE)
      BY <2>2 DEF LoopsTo, WithKey, online_softmax_ctx_acc_row_step
    <3> QED
      BY <1>4, <1>9, <2>4, <3>1
  <2>5. \A n \in 0 .. N : f[n] = it[1 .. n] /\ f[n] \in RowStates
    BY <1>7, <2>3, <2>4, FoldIsLoop
  <2>6. f[N] = it[1 .. N]
    BY <2>5
  <2> QED
    BY <1>1, <1>7, <1>8, <1>9, <2>1, <2>6
<1>10. CASE strict
  <2>1. \A n \in 1 .. N, r \in RowStates :
          step[<<n, r>>] = StrictStep(r, KeyOf(c, i, n).score, KeyOf(c, i, n).v)
    BY <1>4, <1>10 DEF StrictStep
  <2>2. c.seq_len = N
    BY <1>1
  <2>3. PICK other : LeftFold(other, base, step, N, RowStates) /\ StrictRow(c, i) = other[1 .. N]
    BY <1>1, <1>2, <1>4, <2>1, <2>2, StrictRowFold
  <2>4. N \in 0 .. N
    OBVIOUS
  <2>5. it[1 .. N] = other[1 .. N]
    BY <1>7, <2>3, <2>4, OneLeftFold
  <2> QED
    BY <1>7, <1>8, <1>10, <2>3, <2>5
<1> QED
  BY <1>9, <1>10

\* The output of the model for the operands of a call, row by row.
CallReference(c, strict) ==
  Queue!ReferenceRows(ModeOf(strict), c.q, c.k, c.v, c.seq_len, c.scale, c.causal, c.neg_large, FALSE)

\* Each row of the output is the model's row of that number, normalised.
NormalizedRows(rows_, n, mode_, x) ==
  /\ rows_ = [i \in 0 .. n - 1 |-> rows_[i]]
  /\ \A i \in 0 .. n - 1 : rows_[i] = Queue!Normalized(mode_, ModelRow(x, i))

\* That is what the model's two loops come to: over the rows, and over the keys of each.
LEMMA ReferenceIsNormalized ==
  ASSUME NEW c, CallFits(c), NEW strict \in BOOLEAN, NEW x, x = ModelArguments(c, strict),
         NEW rows_, rows_ = CallReference(c, strict)
  PROVE  NormalizedRows(rows_, c.seq_len, ModeOf(strict), x)
<1>1. PICK N \in Nat : N = c.seq_len
  BY DEF CallFits
<1>2. x.q = Queue!Matrix(c.q, N) /\ x.k = Queue!Matrix(c.k, N) /\ x.v = Queue!Matrix(c.v, N)
      /\ x.n = N /\ x.scale = c.scale /\ x.causal = c.causal /\ x.neg = c.neg_large /\ x.mode = ModeOf(strict)
  BY <1>1 DEF ModelArguments
<1>4. rows_ = Queue!online_rtl_like(x.q, x.k, x.v, x.n, 1, 1, x.scale, x.causal, x.mode, x.neg, FALSE)
  <2> DEFINE R(y) == Queue!online_rtl_like(y.q, y.k, y.v, N, 1, 1, c.scale, c.causal, ModeOf(strict),
                                           c.neg_large, FALSE)
  <2>1. PICK in : in = [q |-> Queue!Matrix(c.q, N), k |-> Queue!Matrix(c.k, N), v |-> Queue!Matrix(c.v, N)]
    OBVIOUS
  <2>2. rows_ = Queue!Applied(R, in)
    BY <1>1, <2>1 DEF CallReference, Queue!ReferenceRows
  <2> HIDE DEF R
  <2>3. Queue!Applied(R, in) = R(in)
    BY DEF Queue!Applied, Queue!Evaluated
  <2>4. in.q = x.q /\ in.k = x.k /\ in.v = x.v
    BY <1>2, <2>1
  <2> QED
    BY <1>2, <2>2, <2>3, <2>4 DEF R
<1>5. (N \div 1) * 1 = N
  OBVIOUS
<1> DEFINE Norm(r) == Queue!Normalized(x.mode, r)
<1>7. rows_ = [i \in 0 .. x.n - 1 |-> IF i < (x.n \div 1) * 1 THEN Queue!Applied(Norm, ModelRow(x, i))
                                                              ELSE [d \in DOMAIN x.q[0] |-> 0]]
  BY <1>4 DEF Queue!online_rtl_like, ModelRow, ModelKey, ModelFresh
<1>8. \A r : Queue!Applied(Norm, r) = Norm(r)
  <2> HIDE DEF Norm
  <2> QED
    BY DEF Queue!Applied, Queue!Evaluated
<1>9. rows_ = [i \in 0 .. N - 1 |-> Norm(ModelRow(x, i))]
  <2> HIDE DEF Norm
  <2>1. rows_ = [i \in 0 .. N - 1 |-> IF i < N THEN Queue!Applied(Norm, ModelRow(x, i))
                                              ELSE [d \in DOMAIN x.q[0] |-> 0]]
    BY <1>2, <1>5, <1>7
  <2>2. \A i \in 0 .. N - 1 : i < N
    OBVIOUS
  <2>3. PICK good : good = [i \in 0 .. N - 1 |-> Norm(ModelRow(x, i))]
    OBVIOUS
  <2>4. \A i \in 0 .. N - 1 : rows_[i] = Norm(ModelRow(x, i))
    BY <1>8, <2>1, <2>2
  <2>5. rows_ = [i \in 0 .. N - 1 |-> rows_[i]]
    BY <2>1
  <2> QED
    BY <2>4, <2>5
<1> QED
  BY <1>1, <1>2, <1>9 DEF NormalizedRows

\* The rows are those of the tiled kernel.
TiledOutput(rows_, c) ==
  /\ rows_ = [i \in 0 .. c.seq_len - 1 |-> rows_[i]]
  /\ \A i \in 0 .. c.seq_len - 1 :
       /\ rows_[i] = o_normalize_block_row(SequentialRow(c, i)[c.seq_len])
       /\ rows_[i] \in [Dims -> Int]

\* The model's output for a call in which every row has some weight is what the
\* normalisation makes of the rows of the loop.
LEMMA TiledReference ==
  ASSUME NEW c, CallFits(c), \A i \in 0 .. c.seq_len - 1 : SequentialRow(c, i)[c.seq_len].l # 0,
         NEW rows_, rows_ = Queue!ReferenceRows("RTL_CTX_STEP_ACC24", c.q, c.k, c.v, c.seq_len, c.scale,
                                                c.causal, c.neg_large, FALSE)
  PROVE  TiledOutput(rows_, c)
<1>0. PICK strict \in BOOLEAN : strict = FALSE
  OBVIOUS
<1>1. PICK x : strict = FALSE /\ x = ModelArguments(c, strict)
  BY <1>0
<1>2. ModeOf(strict) = "RTL_CTX_STEP_ACC24"
  BY <1>1 DEF ModeOf
<1>3. rows_ = CallReference(c, strict)
  BY <1>2 DEF CallReference
<1>4. NormalizedRows(rows_, c.seq_len, ModeOf(strict), x)
  BY <1>1, <1>3, ReferenceIsNormalized
<1>6. /\ rows_ = [i \in 0 .. c.seq_len - 1 |-> rows_[i]]
      /\ \A i \in 0 .. c.seq_len - 1 : rows_[i] = Queue!Normalized(ModeOf(strict), ModelRow(x, i))
  BY <1>4 DEF NormalizedRows
<1>5. ASSUME NEW i \in 0 .. c.seq_len - 1
      PROVE  /\ rows_[i] = o_normalize_block_row(SequentialRow(c, i)[c.seq_len])
             /\ rows_[i] \in [Dims -> Int]
  <2>1. PICK row \in RowStates : row = ModelRow(x, i) /\ row = SequentialRow(c, i)[c.seq_len]
    BY <1>1, <1>2, SameRows
  <2>2. row.l # 0
    BY <2>1
  <2>3. /\ Queue!Normalized("RTL_CTX_STEP_ACC24", row) = o_normalize_block_row(row)
        /\ o_normalize_block_row(row) \in [Dims -> Int]
    BY <2>2, SameNormalization
  <2>4. rows_[i] = Queue!Normalized("RTL_CTX_STEP_ACC24", row)
    BY <1>2, <1>6, <2>1
  <2> QED
    BY <2>1, <2>3, <2>4
<1> QED
  BY <1>5, <1>6 DEF TiledOutput

\* The rows are those of the strict kernel.
StrictOutput(rows_, c) ==
  /\ rows_ = [i \in 0 .. c.seq_len - 1 |-> rows_[i]]
  /\ \A i \in 0 .. c.seq_len - 1 :
       /\ rows_[i] = StrictNormalized(StrictRow(c, i))
       /\ rows_[i] \in [Dims -> Int]

\* For the strict kernel, whatever the weights.
LEMMA StrictReference ==
  ASSUME NEW c, CallFits(c),
         NEW rows_, rows_ = Queue!ReferenceRows("RTL_STRICT", c.q, c.k, c.v, c.seq_len, c.scale,
                                                c.causal, c.neg_large, FALSE)
  PROVE  StrictOutput(rows_, c)
<1>0. PICK strict \in BOOLEAN : strict = TRUE
  OBVIOUS
<1>1. PICK x : strict = TRUE /\ x = ModelArguments(c, strict)
  BY <1>0
<1>2. ModeOf(strict) = "RTL_STRICT"
  BY <1>1 DEF ModeOf
<1>3. rows_ = CallReference(c, strict)
  BY <1>2 DEF CallReference
<1>4. NormalizedRows(rows_, c.seq_len, ModeOf(strict), x)
  BY <1>1, <1>3, ReferenceIsNormalized
<1>6. /\ rows_ = [i \in 0 .. c.seq_len - 1 |-> rows_[i]]
      /\ \A i \in 0 .. c.seq_len - 1 : rows_[i] = Queue!Normalized(ModeOf(strict), ModelRow(x, i))
  BY <1>4 DEF NormalizedRows
<1>5. ASSUME NEW i \in 0 .. c.seq_len - 1
      PROVE  /\ rows_[i] = StrictNormalized(StrictRow(c, i))
             /\ rows_[i] \in [Dims -> Int]
  <2>1. PICK row \in RowStates : row = ModelRow(x, i) /\ row = StrictRow(c, i)
    BY <1>1, <1>2, SameRows
  <2>3. /\ Queue!Normalized("RTL_STRICT", row) = StrictNormalized(row)
        /\ StrictNormalized(row) \in [Dims -> Int]
    BY SameNormalization
  <2>4. rows_[i] = Queue!Normalized("RTL_STRICT", row)
    BY <1>2, <1>6, <2>1
  <2> QED
    BY <2>1, <2>3, <2>4
<1> QED
  BY <1>5, <1>6 DEF StrictOutput

-----------------------------------------------------------------------------
(* What a kernel is given: operands, and an output, with room for its rows. *)

\* A call that is not clamped is the call that runs.
LEMMA CallAsGiven ==
  ASSUME NEW c, c = [f \in DOMAIN c |-> c[f]], CallFits(c), NEW o, NEW on_fpga, StartKernel(c, o, on_fpga)
  PROVE  call' = c /\ out' = o
<1>1. PICK n \in Nat : n = c.seq_len /\ n <= MaxSeqLen /\ MaxSeqLen \in Nat
  BY HlsShape DEF CallFits
<1>2. Clamped(c.seq_len) = n
  BY <1>1 DEF Clamped
<1>3. call' = [c EXCEPT !.seq_len = n] /\ out' = o
  BY <1>2 DEF StartKernel
<1>4. [c EXCEPT !.seq_len = n] = c
  BY <1>1
<1> QED
  BY <1>3, <1>4

\* The caller's matrices keep their size and hold numbers.
MemoryData ==
  \A b \in Buffers :
    DOMAIN memory[b] = DOMAIN FirstMemory[b] /\ \A e \in DOMAIN memory[b] : memory[b][e] \in Int

\* The kernel's operands and its output have room for the rows of the call.
CallData ==
  kpc # "idle" =>
    /\ CallFits(call)
    /\ 0 .. call.seq_len * HeadDim - 1 \subseteq DOMAIN out
    /\ \A e \in DOMAIN out : out[e] \in Int

\* The operands of the runner are one of its cases.
RunnerData ==
  program = "runner" => \E c \in RunnerCases : opt = c.opt /\ operands = c.operands

\* Together.
DataInv == MemoryData /\ CallData /\ RunnerData

\* The caller's first matrices hold numbers, and no kernel has begun.
LEMMA InitDataInv == Init => DataInv
<1> SUFFICES ASSUME Init PROVE DataInv
  OBVIOUS
<1>1. memory = FirstMemory /\ kpc = "idle"
  BY DEF Init, KernelInit
<1>2. ASSUME NEW b \in Buffers, NEW e \in DOMAIN FirstMemory[b] PROVE FirstMemory[b][e] \in Int
  <2>1. PICK m \in Range(FirstMemory) : m = FirstMemory[b]
    BY MemoryAssumption DEF Range
  <2>2. m \in [DOMAIN m -> S16] /\ e \in DOMAIN m
    BY <1>2, <2>1, MemoryAssumption
  <2>3. S16 \subseteq Int
    BY DEF S16
  <2> QED
    BY <2>1, <2>2, <2>3
<1>3. MemoryData
  BY <1>1, <1>2 DEF MemoryData
<1>4. RunnerData
  BY DEF RunnerData, Init, TheCase
<1> QED
  BY <1>1, <1>3, <1>4 DEF DataInv, CallData

\* The arguments of the task drain is at.
LEMMA TaskFits ==
  ASSUME IInv, RunInv, MemoryData, rpc # "idle", drain_idx <= Len(queue), NEW t, t = Current
  PROVE  /\ CallFits(CallArguments(t)) /\ CallFits(OnDevice(CallArguments(t)))
         /\ 0 .. t.seq_len * HeadDim - 1 \subseteq DOMAIN memory[t.o]
         /\ \A e \in DOMAIN memory[t.o] : memory[t.o][e] \in Int
<1>1. /\ t \in Tasks /\ validate_task(t) /\ {t.q, t.k, t.v, t.o} \subseteq Buffers
      /\ t.seq_len \in 1 .. MaxSeqLen /\ t.stride_bytes = 2 * HeadDim
  BY CurrentTask
<1>2. MatrixElems(t.seq_len) = t.seq_len * HeadDim
  BY DEF MatrixElems
<1>3. ASSUME NEW b \in {t.q, t.k, t.v, t.o}
      PROVE  /\ 0 .. t.seq_len * HeadDim - 1 \subseteq DOMAIN memory[b]
             /\ \A e \in DOMAIN memory[b] : memory[b][e] \in Int
  <2>1. 0 .. MatrixElems(t.seq_len) - 1 \subseteq DOMAIN FirstMemory[b]
    BY <1>1, RoomAssumption
  <2>2. b \in Buffers
    BY <1>1
  <2> QED
    BY <1>2, <2>1, <2>2 DEF MemoryData
<1>4. t.scale \in Int /\ t.neg_large \in Int /\ t.causal \in BOOLEAN
  <2>1. t \in AttentionTask
    BY <1>1, TasksAssumption
  <2>2. t.scale \in S16 /\ t.neg_large \in S16 /\ t.causal \in BOOLEAN
    BY <2>1 DEF AttentionTask
  <2>3. S16 \subseteq Int
    BY DEF S16
  <2> QED
    BY <2>2, <2>3
<1>5. PICK n \in Nat : n = t.seq_len /\ n <= MaxSeqLen
  BY <1>1, HlsShape
<1>6. PICK c : c = CallArguments(t)
  OBVIOUS
<1>7. /\ c.q = memory[t.q] /\ c.k = memory[t.k] /\ c.v = memory[t.v] /\ c.seq_len = n
      /\ c.stride_bytes = 2 * HeadDim /\ c.scale = t.scale /\ c.neg_large = t.neg_large
      /\ c.causal = t.causal
  BY <1>1, <1>5, <1>6 DEF CallArguments
<1>8. CallFits(c)
  <2>1. StrideElems(c) = HeadDim
    BY <1>7, StrideIsHeadDim
  <2>2. \A e \in 0 .. n * HeadDim - 1 : memory[t.q][e] \in Int /\ memory[t.k][e] \in Int /\ memory[t.v][e] \in Int
    BY <1>3, <1>5
  <2> QED
    BY <1>4, <1>5, <1>7, <2>1, <2>2 DEF CallFits
<1>9. PICK d : d = OnDevice(c)
  OBVIOUS
<1>10. /\ d.q = Copied(c.q, n) /\ d.k = Copied(c.k, n) /\ d.v = Copied(c.v, n) /\ d.seq_len = n
       /\ d.stride_bytes = 2 * HeadDim /\ d.scale = t.scale /\ d.neg_large = t.neg_large
       /\ d.causal = t.causal
  <2>1. c = [q |-> c.q, k |-> c.k, v |-> c.v, null |-> c.null, seq_len |-> n, stride_bytes |-> 2 * HeadDim,
             scale |-> t.scale, neg_large |-> t.neg_large, causal |-> t.causal]
    BY <1>1, <1>5, <1>6 DEF CallArguments
  <2> QED
    BY <1>9, <2>1 DEF OnDevice
<1>11. CallFits(d)
  <2>1. StrideElems(d) = HeadDim
    BY <1>10, StrideIsHeadDim
  <2>2. \A e \in 0 .. n * HeadDim - 1 : d.q[e] = c.q[e] /\ d.k[e] = c.k[e] /\ d.v[e] = c.v[e]
    BY <1>2, <1>5, <1>10 DEF Copied, MatrixElems
  <2>3. \A e \in 0 .. n * HeadDim - 1 : c.q[e] \in Int /\ c.k[e] \in Int /\ c.v[e] \in Int
    BY <1>7, <1>8 DEF CallFits
  <2> QED
    BY <1>4, <1>5, <1>10, <2>1, <2>2, <2>3 DEF CallFits
<1> QED
  BY <1>3, <1>6, <1>8, <1>9, <1>11

\* The runtime starts a kernel on operands with room for the rows of the task.
LEMMA RuntimeCallData ==
  ASSUME IInv, RunInv, DataInv, RunSoftwareHls \/ LaunchXrt
  PROVE  CallData'
<1>1. rpc # "idle" /\ drain_idx <= Len(queue)
  BY DEF RunSoftwareHls, LaunchXrt, Draining, IInv, DrainInv
<1>2. PICK t : t = Current
  OBVIOUS
<1>3. /\ CallFits(CallArguments(t)) /\ CallFits(OnDevice(CallArguments(t)))
      /\ 0 .. t.seq_len * HeadDim - 1 \subseteq DOMAIN memory[t.o]
      /\ \A e \in DOMAIN memory[t.o] : memory[t.o][e] \in Int
  BY <1>1, <1>2, TaskFits DEF DataInv
<1>4. CASE RunSoftwareHls
  <2>1. PICK c, o : c = CallArguments(t) /\ o = memory[t.o]
    OBVIOUS
  <2>2. StartKernel(c, o, FALSE)
    BY <1>2, <1>4, <2>1 DEF RunSoftwareHls
  <2>3. c = [f \in DOMAIN c |-> c[f]] /\ c.seq_len = t.seq_len
    BY <2>1 DEF CallArguments
  <2>4. call' = c /\ out' = o
    BY <1>3, <2>1, <2>2, <2>3, CallAsGiven
  <2> QED
    BY <1>3, <2>1, <2>3, <2>4 DEF CallData, CallFits
<1>5. CASE LaunchXrt
  <2>1. PICK c, o : c = OnDevice(CallArguments(t)) /\ o = ZeroMatrix(t.seq_len)
    OBVIOUS
  <2>2. StartKernel(c, o, TRUE)
    BY <1>2, <1>5, <2>1 DEF LaunchXrt
  <2>3. c = [f \in DOMAIN c |-> c[f]] /\ c.seq_len = t.seq_len
    BY <2>1 DEF CallArguments, OnDevice
  <2>4. call' = c /\ out' = o
    BY <1>3, <2>1, <2>2, <2>3, CallAsGiven
  <2>5. DOMAIN o = 0 .. t.seq_len * HeadDim - 1 /\ \A e \in DOMAIN o : o[e] \in Int
    BY <2>1 DEF ZeroMatrix, MatrixElems
  <2> QED
    BY <1>3, <2>1, <2>3, <2>4, <2>5 DEF CallData, CallFits
<1> QED
  BY <1>4, <1>5

\* The matrices the runner fills have room for the rows of its call.
LEMMA RunnerFits ==
  ASSUME NEW c \in RunnerCases, opt = c.opt, operands = c.operands, opt.seq_len \in 1 .. MaxSeqLen
  PROVE  CallFits(RunnerCall)
<1>1. PICK n \in Nat : n = opt.seq_len /\ n <= MaxSeqLen
  BY HlsShape
<1>2. PICK r : r = RunnerCall
  OBVIOUS
<1>3. /\ r.q = operands.q /\ r.k = operands.k /\ r.v = operands.v /\ r.seq_len = n
      /\ r.stride_bytes = 2 * HeadDim /\ r.scale = RunnerScale /\ r.neg_large = RunnerNegLarge
      /\ r.causal = opt.causal
  BY <1>1, <1>2 DEF RunnerCall
<1>4. S16 \subseteq Int
  BY DEF S16
<1>5. opt.causal \in BOOLEAN
  BY RunnerAssumption DEF RunnerOptions
<1>6. \A e \in 0 .. n * HeadDim - 1 : operands.q[e] \in Int /\ operands.k[e] \in Int /\ operands.v[e] \in Int
  <2>1. MatrixElems(c.opt.seq_len) = n * HeadDim
    BY <1>1 DEF MatrixElems
  <2>2. \A m \in {c.operands.q, c.operands.k, c.operands.v} : \A e \in 0 .. n * HeadDim - 1 : m[e] \in S16
    BY <2>1, RunnerAssumption
  <2> QED
    BY <1>4, <2>2
<1>7. StrideElems(r) = HeadDim
  BY <1>3, StrideIsHeadDim
<1>8. RunnerScale \in Int /\ RunnerNegLarge \in Int
  BY <1>4, RunnerDefaults
<1> QED
  BY <1>1, <1>2, <1>3, <1>5, <1>6, <1>7, <1>8 DEF CallFits

\* The runner starts a kernel on operands with room for the rows of its call.
LEMMA RunnerCallData ==
  ASSUME DataInv, program = "runner", RunnerStarts
  PROVE  CallData'
<1>1. PICK c \in RunnerCases : opt = c.opt /\ operands = c.operands
  BY DEF DataInv, RunnerData
<1>2. opt.seq_len \in 1 .. MaxSeqLen
  BY DEF RunnerStarts, parse_args_ok
<1>3. PICK r, o : r = RunnerCall /\ o = RunnerOutput
  OBVIOUS
<1>4. CallFits(r)
  BY <1>1, <1>2, <1>3, RunnerFits
<1>5. r = [f \in DOMAIN r |-> r[f]] /\ r.seq_len = opt.seq_len
  BY <1>3 DEF RunnerCall
<1>6. StartKernel(r, o, TRUE)
  BY <1>3 DEF RunnerStarts
<1>7. call' = r /\ out' = o
  BY <1>4, <1>5, <1>6, CallAsGiven
<1>8. DOMAIN o = 0 .. opt.seq_len * HeadDim - 1 /\ \A e \in DOMAIN o : o[e] \in Int
  BY <1>3 DEF RunnerOutput
<1> QED
  BY <1>4, <1>5, <1>7, <1>8 DEF CallData, CallFits

\* A tile that is stored is made of numbers.
LEMMA StoredData ==
  ASSUME LoopInv, CallData, StoreQTile
  PROVE  CallData'
<1>1. PICK tile :
        /\ tile = [qi \in 0 .. valid_q - 1 |-> o_normalize_block_row(rows[qi])]
        /\ out' = [e \in DOMAIN out |->
                     IF e \div stride - q_start \in DOMAIN tile /\ e % stride \in Dims
                     THEN tile[e \div stride - q_start][e % stride] ELSE out[e]]
  BY DEF StoreQTile, Evaluated
<1>2. kpc = "store" /\ call' = call /\ OnTile
  BY DEF StoreQTile, OnTile
<1>3. PICK N \in Nat : N = call.seq_len /\ CallFits(call)
  BY <1>2 DEF CallData, CallFits
<1>4. q_start \in Nat /\ valid_q \in Nat /\ q_start + valid_q <= N
  BY <1>2, <1>3, BatchShape, KernelShape
<1>5. ASSUME NEW qi \in 0 .. valid_q - 1 PROVE o_normalize_block_row(rows[qi]) \in [Dims -> Int]
  <2>1. PICK i \in 0 .. N - 1 : i = q_start + qi
    BY <1>4
  <2>0. PICK strict \in BOOLEAN : strict = FALSE
    OBVIOUS
  <2>2. PICK x : strict = FALSE /\ x = ModelArguments(call, strict)
    BY <2>0
  <2>3. i \in 0 .. call.seq_len - 1
    BY <1>3, <2>1
  <2>4. SequentialRow(call, i)[call.seq_len] \in RowStates
    BY <1>3, <2>2, <2>3, SameRows
  <2>5. rows[qi] = SequentialRow(call, i)[call.seq_len]
    BY <1>2, <2>1 DEF LoopInv
  <2>6. PICK row \in RowStates : row = rows[qi]
    BY <2>4, <2>5
  <2> QED
    BY <2>6, SameNormalization
<1>6. ASSUME NEW e \in DOMAIN out PROVE out'[e] \in Int
  <2>1. CASE e \div stride - q_start \in DOMAIN tile /\ e % stride \in Dims
    <3>1. PICK qi, d : qi = e \div stride - q_start /\ d = e % stride
      OBVIOUS
    <3>2. qi \in 0 .. valid_q - 1 /\ d \in Dims
      BY <1>1, <2>1, <3>1
    <3>3. tile[qi] \in [Dims -> Int]
      BY <1>1, <1>5, <3>2
    <3>4. out'[e] = tile[qi][d]
      BY <1>1, <2>1, <3>1
    <3> QED
      BY <3>2, <3>3, <3>4
  <2>2. CASE ~(e \div stride - q_start \in DOMAIN tile /\ e % stride \in Dims)
    BY <1>1, <1>2, <1>6, <2>2 DEF CallData
  <2> QED
    BY <2>1, <2>2
<1>7. DOMAIN out' = DOMAIN out
  BY <1>1
<1> QED
  BY <1>2, <1>3, <1>6, <1>7 DEF CallData, CallFits

\* A step that leaves the call and its output alone keeps them.
LEMMA CallDataKept ==
  ASSUME CallData, call' = call, out' = out, kpc' # "idle" => kpc # "idle"
  PROVE  CallData'
BY DEF CallData, CallFits

\* No step of the kernel writes outside of its output.
LEMMA KernelCallData == LoopInv /\ CallData /\ KernelStep => CallData'
<1> SUFFICES ASSUME LoopInv, CallData, KernelStep PROVE CallData'
  OBVIOUS
<1>1. CASE StoreQTile
  BY <1>1, StoredData
<1>2. CASE LoadQTile \/ NextKVTile \/ FinishKernel \/ StartBatch \/ GenerateScore \/ ConsumeScore \/ EndBatch
  <2>1. call' = call /\ out' = out /\ kpc # "idle"
    BY <1>2 DEF LoadQTile, NextKVTile, FinishKernel, StartBatch, GenerateScore, ConsumeScore, EndBatch
  <2> QED
    BY <2>1, CallDataKept
<1> QED
  BY <1>1, <1>2 DEF KernelStep

\* Every step keeps the operands and the output of the kernel in their size.
LEMMA NextCallData == IInv /\ RunInv /\ LoopInv /\ DataInv /\ [Next]_vars => CallData'
<1> SUFFICES ASSUME IInv, RunInv, LoopInv, DataInv, [Next]_vars PROVE CallData'
  OBVIOUS
<1>0. CallData
  BY DEF DataInv
<1>1. CASE KernelStep
  BY <1>0, <1>1, KernelCallData
<1>2. CASE RunSoftwareHls \/ LaunchXrt
  BY <1>2, RuntimeCallData
<1>4. CASE ReturnKernel /\ UNCHANGED <<call, dataflow, tileVars, rows, batchVars, out, prof>>
  BY <1>0, <1>4, CallDataKept DEF ReturnKernel
<1>5. CASE UNCHANGED kernelVars
  BY <1>0, <1>5, CallDataKept DEF kernelVars
<1>6. CASE RuntimeProgram
  <2>1. CASE SoftwareHlsDone \/ XrtDone
    BY <1>4, <2>1 DEF SoftwareHlsDone, XrtDone
  <2>2. CASE XrtThrows
    BY <1>4, <1>5, <2>2 DEF XrtThrows, kernelVars
  <2>3. CASE CallRuntime \/ RunStrict \/ EnsureBuffers \/ DrainReturns
    BY <1>5, <2>3
       DEF CallRuntime, Init_, Drain, Clear, Submit, Rewrite, RunStrict, EnsureBuffers, DrainReturns
  <2> QED
    BY <1>1, <1>2, <1>6, <2>1, <2>2, <2>3 DEF RuntimeProgram, DrainStep
<1>7. CASE RunnerProgram
  <2>1. CASE RunnerFails
    BY <1>4, <1>5, <2>1 DEF RunnerFails, kernelVars
  <2>2. CASE RunnerEnds
    BY <1>4, <2>2 DEF RunnerEnds
  <2>3. CASE RunnerStarts
    BY <1>7, <2>3, RunnerCallData DEF RunnerProgram
  <2> QED
    BY <1>1, <1>7, <2>1, <2>2, <2>3 DEF RunnerProgram, RunnerStep
<1> QED
  BY <1>5, <1>6, <1>7 DEF Next, GemvProgram, ScoreProgram, CoreProgram, Over, vars

\* What a task leaves in its output matrix.
LEMMA StrictStores ==
  ASSUME IInv, RunInv, MemoryData, Draining, NEW t, t = Current,
         NEW o, o = run_attention_strict(CallArguments(t), memory[t.o])
  PROVE  DOMAIN o = DOMAIN memory[t.o] /\ \A e \in DOMAIN o : o[e] \in Int
<1>1. rpc # "idle" /\ drain_idx <= Len(queue)
  BY DEF Draining
<1>2. PICK c : c = CallArguments(t) /\ CallFits(c)
  BY <1>1, TaskFits
<1>3. \A e \in DOMAIN memory[t.o] : memory[t.o][e] \in Int
  BY <1>1, TaskFits
<1>4. PICK n \in Nat : n = c.seq_len /\ n <= MaxSeqLen /\ Clamped(c.seq_len) = n /\ StrideElems(c) = HeadDim
  BY <1>2, HlsShape DEF CallFits, Clamped
<1>5. PICK result : result = [i \in 0 .. n - 1 |-> StrictNormalized(StrictRow(c, i))]
  OBVIOUS
<1>6. o = [e \in DOMAIN memory[t.o] |->
             IF e \div HeadDim \in DOMAIN result /\ e % HeadDim \in Dims
             THEN result[e \div HeadDim][e % HeadDim] ELSE memory[t.o][e]]
  <2> DEFINE stored(r) == [e \in DOMAIN memory[t.o] |->
                             IF e \div StrideElems(c) \in DOMAIN r /\ e % StrideElems(c) \in Dims
                             THEN r[e \div StrideElems(c)][e % StrideElems(c)] ELSE memory[t.o][e]]
             raw == [i \in 0 .. Clamped(c.seq_len) - 1 |-> StrictNormalized(StrictRow(c, i))]
  <2>3. o = run_attention_strict(c, memory[t.o])
    BY <1>2
  <2>1. o = stored(Evaluated(raw))
    BY <2>3 DEF run_attention_strict, Applied
  <2>2. raw = result
    BY <1>4, <1>5
  <2> HIDE DEF raw
  <2> QED
    BY <1>4, <2>1, <2>2, EvaluatedIsItself
<1>7. ASSUME NEW i \in 0 .. n - 1 PROVE result[i] \in [Dims -> Int]
  <2>0. PICK strict \in BOOLEAN : strict = TRUE
    OBVIOUS
  <2>1. PICK x : strict = TRUE /\ x = ModelArguments(c, strict)
    BY <2>0
  <2>2. i \in 0 .. c.seq_len - 1
    BY <1>4
  <2>3. PICK row \in RowStates : row = StrictRow(c, i)
    BY <1>2, <2>1, <2>2, SameRows
  <2>4. StrictNormalized(row) \in [Dims -> Int]
    BY SameNormalization
  <2> QED
    BY <1>5, <2>3, <2>4
<1>8. ASSUME NEW e \in DOMAIN o PROVE o[e] \in Int
  <2>1. PICK i, d : i = e \div HeadDim /\ d = e % HeadDim
    OBVIOUS
  <2>2. o[e] = IF i \in DOMAIN result /\ d \in Dims THEN result[i][d] ELSE memory[t.o][e]
    BY <1>6, <2>1
  <2>3. CASE i \in DOMAIN result /\ d \in Dims
    BY <1>5, <1>7, <2>2, <2>3
  <2>4. CASE ~(i \in DOMAIN result /\ d \in Dims)
    BY <1>3, <1>6, <2>2, <2>4
  <2> QED
    BY <2>3, <2>4
<1> QED
  BY <1>6, <1>8

\* Writing numbers over a matrix in its size keeps it one.
LEMMA MemoryDataWritten ==
  ASSUME MemoryTypes, MemoryData, NEW b \in Buffers, NEW m, DOMAIN m = DOMAIN memory[b],
         \A e \in DOMAIN m : m[e] \in Int, memory' = [memory EXCEPT ![b] = m]
  PROVE  MemoryData'
BY DEF MemoryTypes, MemoryData

\* Whatever runs or is written, the caller's matrices keep their size and hold numbers.
LEMMA NextMemoryData == IInv /\ RunInv /\ LoopInv /\ DataInv /\ [Next]_vars => MemoryData'
<1> SUFFICES ASSUME IInv, RunInv, LoopInv, DataInv, [Next]_vars PROVE MemoryData'
  OBVIOUS
<1>0. MemoryData /\ MemoryTypes
  BY DEF DataInv, RunInv
<1>1. CASE memory' = memory
  BY <1>0, <1>1 DEF MemoryData
<1>2. ASSUME NEW b \in Rewritten, NEW m \in Matrices, Rewrite(b, m) PROVE MemoryData'
  <2>1. b \in Buffers /\ memory' = [memory EXCEPT ![b] = m]
    BY <1>2, MemoryAssumption DEF Rewrite
  <2>2. DOMAIN m = DOMAIN memory[b]
    BY <1>0, <2>1, RoomAssumption DEF MemoryData
  <2>3. \A e \in DOMAIN m : m[e] \in Int
    <3>1. m \in [DOMAIN m -> S16]
      BY MemoryAssumption
    <3>2. S16 \subseteq Int
      BY DEF S16
    <3> QED
      BY <3>1, <3>2
  <2> QED
    BY <1>0, <2>1, <2>2, <2>3, MemoryDataWritten
<1>3. CASE RunStrict \/ SoftwareHlsDone \/ XrtDone
  <2>1. rpc # "idle" /\ drain_idx <= Len(queue)
    BY <1>3 DEF RunStrict, SoftwareHlsDone, XrtDone, Draining, IInv, DrainInv
  <2>2. PICK t : t = Current /\ t.o \in Buffers
    BY <2>1, CurrentTask
  <2>3. PICK m : /\ memory' = [memory EXCEPT ![t.o] = m] /\ DOMAIN m = DOMAIN memory[t.o]
                 /\ \A e \in DOMAIN m : m[e] \in Int
    <3>1. CASE RunStrict
      <4>1. PICK m : m = run_attention_strict(CallArguments(t), memory[t.o])
        OBVIOUS
      <4>2. memory' = [memory EXCEPT ![t.o] = m] /\ Draining
        BY <2>2, <3>1, <4>1 DEF RunStrict, TaskDone
      <4>3. DOMAIN m = DOMAIN memory[t.o] /\ \A e \in DOMAIN m : m[e] \in Int
        BY <1>0, <2>2, <4>1, <4>2, StrictStores
      <4> QED
        BY <4>2, <4>3
    <3>2. CASE SoftwareHlsDone
      <4>1. memory' = [memory EXCEPT ![t.o] = out] /\ options.mode = "software_hls" /\ rpc = "kernel" /\ kpc = "done"
        BY <2>2, <3>2 DEF SoftwareHlsDone, TaskDone
      <4>2. DOMAIN out = DOMAIN memory[t.o]
        BY <2>2, <4>1 DEF RunInv, OutputFrame, OutBefore
      <4>3. \A e \in DOMAIN out : out[e] \in Int
        BY <4>1 DEF DataInv, CallData
      <4> QED
        BY <4>1, <4>2, <4>3
    <3>3. CASE XrtDone
      <4>1. PICK m : m = [e \in DOMAIN memory[t.o] |-> IF e \in DOMAIN out THEN out[e] ELSE memory[t.o][e]]
        OBVIOUS
      <4>2. memory' = [memory EXCEPT ![t.o] = m] /\ kpc = "done"
        BY <2>2, <3>3, <4>1 DEF XrtDone, TaskDone
      <4>3. \A e \in DOMAIN out : out[e] \in Int
        BY <4>2 DEF DataInv, CallData
      <4>4. \A e \in DOMAIN memory[t.o] : memory[t.o][e] \in Int
        BY <1>0, <2>2 DEF MemoryData
      <4>5. DOMAIN m = DOMAIN memory[t.o] /\ \A e \in DOMAIN m : m[e] \in Int
        BY <4>1, <4>3, <4>4
      <4> QED
        BY <4>2, <4>5
    <3> QED
      BY <1>3, <3>1, <3>2, <3>3
  <2> QED
    BY <1>0, <2>2, <2>3, MemoryDataWritten
<1>4. CASE RuntimeProgram
  <2>1. CASE \/ Init_ \/ Drain \/ Clear \/ \E t \in Tasks : Submit(t)
             \/ EnsureBuffers \/ XrtThrows \/ DrainReturns \/ RunSoftwareHls \/ LaunchXrt
             \/ rpc = "kernel" /\ KernelStep /\ UNCHANGED runtimeVars
    BY <1>1, <2>1 DEF Init_, Drain, Clear, Submit, EnsureBuffers, XrtThrows, DrainReturns, RunSoftwareHls,
                      LaunchXrt, hostVars, runtimeVars
  <2> QED
    BY <1>2, <1>3, <1>4, <2>1 DEF RuntimeProgram, CallRuntime, DrainStep
<1> QED
  BY <1>1, <1>4
     DEF Next, RunnerProgram, GemvProgram, ScoreProgram, CoreProgram, Over, vars, runtimeVars, hostVars

\* The runner keeps the operands it has made.
LEMMA NextRunnerData == DataInv /\ [Next]_vars => RunnerData'
<1> SUFFICES ASSUME DataInv, [Next]_vars PROVE RunnerData'
  OBVIOUS
<1>1. program' = program
  BY DEF Next, RuntimeProgram, RunnerProgram, GemvProgram, ScoreProgram, CoreProgram, Over, vars
<1>2. program = "runner" => opt' = opt /\ operands' = operands
  BY DEF Next, RuntimeProgram, RunnerProgram, GemvProgram, ScoreProgram, CoreProgram, Over, vars, RunnerStep,
         RunnerStarts, RunnerFails, RunnerEnds, runnerVars
<1> QED
  BY <1>1, <1>2 DEF DataInv, RunnerData

\* In every state the operands have room for what the kernels read and write of them.
LEMMA DataInvariant == Spec => [](IInv /\ RunInv /\ LoopInv /\ DataInv)
<1>1. Init => IInv /\ RunInv /\ LoopInv /\ DataInv
  BY InitIInv, InitRunInv, InitLoopInv, InitDataInv DEF Init
<1>2. IInv /\ RunInv /\ LoopInv /\ DataInv /\ [Next]_vars => (IInv /\ RunInv /\ LoopInv /\ DataInv)'
  BY NextIInv, NextRunInv, NextLoopInv, NextCallData, NextMemoryData, NextRunnerData DEF DataInv
<1> QED
  BY <1>1, <1>2, PTL DEF Spec

-----------------------------------------------------------------------------
(* A kernel that is done, and the model.                                    *)

\* Some key has a weight in every row of a kernel that is done.
WeightInEveryRow ==
  kpc = "done" => \A i \in 0 .. call.seq_len - 1 : SequentialRow(call, i)[call.seq_len].l # 0

\* A kernel that is done has left the rows of the model.
LEMMA KernelHasModelRows ==
  ASSUME LoopInv, CallData, WeightInEveryRow, kpc = "done"
  PROVE  KernelRows = Queue!ReferenceRows("RTL_CTX_STEP_ACC24", call.q, call.k, call.v, call.seq_len,
                                          call.scale, call.causal, call.neg_large, FALSE)
<1>1. PICK n \in Nat : n = call.seq_len /\ CallFits(call) /\ stride = HeadDim
  BY DEF CallData, CallFits, stride
<1>2. PICK model : model = Queue!ReferenceRows("RTL_CTX_STEP_ACC24", call.q, call.k, call.v, call.seq_len,
                                              call.scale, call.causal, call.neg_large, FALSE)
  OBVIOUS
<1>3. /\ model = [i \in 0 .. n - 1 |-> model[i]]
      /\ \A i \in 0 .. n - 1 :
           /\ model[i] = o_normalize_block_row(SequentialRow(call, i)[n])
           /\ model[i] \in [Dims -> Int]
  <2>1. TiledOutput(model, call)
    BY <1>1, <1>2, TiledReference DEF WeightInEveryRow
  <2> QED
    BY <1>1, <2>1 DEF TiledOutput
<1>4. KernelRows = [i \in 0 .. n - 1 |-> [d \in Dims |-> out[i * HeadDim + d]]]
  BY <1>1 DEF KernelRows
<1>5. ASSUME NEW i \in 0 .. n - 1 PROVE [d \in Dims |-> out[i * HeadDim + d]] = model[i]
  <2>1. ASSUME NEW d \in Dims PROVE out[i * HeadDim + d] = model[i][d]
    <3>1. i * HeadDim + d \in 0 .. n * HeadDim - 1
      BY RowInside
    <3>2. i * HeadDim + d \in DOMAIN out
      BY <1>1, <3>1 DEF CallData
    <3>3. StoredTo(n)
      BY <1>1 DEF LoopInv
    <3>4. out[i * HeadDim + d] = o_normalize_block_row(SequentialRow(call, i)[n])[d]
      BY <1>1, <3>2, <3>3 DEF StoredTo
    <3> QED
      BY <1>3, <3>4
  <2>2. model[i] = [d \in Dims |-> model[i][d]]
    BY <1>3
  <2> QED
    BY <2>1, <2>2
<1> QED
  BY <1>2, <1>3, <1>4, <1>5

\* The strict kernel leaves what the model does in RTL_STRICT, for the task drain is at.
LEMMA StrictHasModelRows ==
  ASSUME IInv, RunInv, MemoryData, Draining, options.mode = "strict_q8_8"
  PROVE  run_attention_strict(CallArguments(Current), memory[Current.o]) = Queue!ReferenceOutput(Current)
<1>1. rpc # "idle" /\ drain_idx <= Len(queue)
  BY DEF Draining
<1>2. PICK t : t = Current
  OBVIOUS
<1>3. PICK c : c = CallArguments(t) /\ CallFits(c)
  BY <1>1, <1>2, TaskFits
<1>4. t.o \in Buffers /\ t.seq_len \in 1 .. MaxSeqLen /\ DOMAIN memory[t.o] \subseteq Nat
  BY <1>1, <1>2, CurrentTask DEF RunInv, MemoryTypes, IsArray
<1>5. PICK n \in Nat : n = c.seq_len /\ n <= MaxSeqLen /\ Clamped(c.seq_len) = n /\ StrideElems(c) = HeadDim
  BY <1>3, HlsShape DEF CallFits, Clamped
<1>6. n = t.seq_len
  BY <1>3, <1>5 DEF CallArguments
<1>7. PICK result : result = [i \in 0 .. n - 1 |-> StrictNormalized(StrictRow(c, i))]
  OBVIOUS
<1>8. run_attention_strict(c, memory[t.o])
        = [e \in DOMAIN memory[t.o] |->
             IF e \div HeadDim \in DOMAIN result /\ e % HeadDim \in Dims
             THEN result[e \div HeadDim][e % HeadDim] ELSE memory[t.o][e]]
  <2> DEFINE stored(r) == [e \in DOMAIN memory[t.o] |->
                             IF e \div StrideElems(c) \in DOMAIN r /\ e % StrideElems(c) \in Dims
                             THEN r[e \div StrideElems(c)][e % StrideElems(c)] ELSE memory[t.o][e]]
             raw == [i \in 0 .. Clamped(c.seq_len) - 1 |-> StrictNormalized(StrictRow(c, i))]
  <2>1. run_attention_strict(c, memory[t.o]) = stored(Evaluated(raw))
    BY DEF run_attention_strict, Applied
  <2>2. raw = result
    BY <1>5, <1>7
  <2> HIDE DEF raw
  <2> QED
    BY <1>5, <2>1, <2>2, EvaluatedIsItself
<1>9. PICK model : model = Queue!ReferenceRows("RTL_STRICT", c.q, c.k, c.v, c.seq_len, c.scale,
                                              c.causal, c.neg_large, FALSE)
  OBVIOUS
<1>10. \A i \in 0 .. n - 1 : model[i] = result[i]
  <2>1. StrictOutput(model, c)
    BY <1>3, <1>9, StrictReference
  <2> QED
    BY <1>5, <1>7, <2>1 DEF StrictOutput
<1>11. Queue!ReferenceOutput(t)
         = [e \in DOMAIN memory[t.o] |-> IF e \div HeadDim < t.seq_len
                                         THEN model[e \div HeadDim][e % HeadDim] ELSE memory[t.o][e]]
  <2> DEFINE stored(r) == [e \in DOMAIN memory[t.o] |-> IF e \div HeadDim < t.seq_len
                                                        THEN r[e \div HeadDim][e % HeadDim] ELSE memory[t.o][e]]
             mode_ == IF options.mode = "strict_q8_8" THEN "RTL_STRICT" ELSE "RTL_CTX_STEP_ACC24"
             raw == Queue!ReferenceRows(mode_, memory[t.q], memory[t.k], memory[t.v], t.seq_len,
                                        t.scale, t.causal, t.neg_large, FALSE)
  <2>1. Queue!ReferenceOutput(t) = stored(Queue!Evaluated(raw))
    BY DEF Queue!ReferenceOutput, Queue!Applied
  <2>2. mode_ = "RTL_STRICT"
    OBVIOUS
  <2>3. /\ c.q = memory[t.q] /\ c.k = memory[t.k] /\ c.v = memory[t.v] /\ c.seq_len = t.seq_len
        /\ c.scale = t.scale /\ c.causal = t.causal /\ c.neg_large = t.neg_large
    BY <1>3 DEF CallArguments
  <2> HIDE DEF mode_
  <2>4. raw = model
    BY <1>9, <2>2, <2>3
  <2> HIDE DEF raw
  <2> QED
    BY <2>1, <2>4 DEF Queue!Evaluated
<1>12. ASSUME NEW e \in DOMAIN memory[t.o]
       PROVE  (e \div HeadDim \in DOMAIN result /\ e % HeadDim \in Dims) <=> e \div HeadDim < t.seq_len
  <2>1. e \in Nat
    BY <1>4
  <2>2. PICK i, d : i = e \div HeadDim /\ d = e % HeadDim
    OBVIOUS
  <2>3. i \in Nat /\ d \in Dims
    BY <2>1, <2>2, RowsAndColumns
  <2>4. DOMAIN result = 0 .. n - 1
    BY <1>7
  <2> QED
    BY <1>6, <2>2, <2>3, <2>4
<1>13. ASSUME NEW e \in DOMAIN memory[t.o], e \div HeadDim \in DOMAIN result
       PROVE  result[e \div HeadDim][e % HeadDim] = model[e \div HeadDim][e % HeadDim]
  BY <1>7, <1>10, <1>13
<1>14. run_attention_strict(c, memory[t.o]) = Queue!ReferenceOutput(t)
  BY <1>8, <1>11, <1>12, <1>13
<1> QED
  BY <1>2, <1>3, <1>14

-----------------------------------------------------------------------------
(* The counters of the kernel.                                              *)

\* As many tiles as begin before the end.
LEMMA TilesBegun ==
  ASSUME NEW n \in Nat, NEW T \in Nat \ {0}, NEW k \in Nat, k * T < n, n <= k * T + T
  PROVE  Tiles(n, T) = k + 1
<1>1. PICK p \in Nat : p = k * T
  OBVIOUS
<1>2. PICK r \in Int : r = n - p - 1
  OBVIOUS
<1>3. r \in 0 .. T - 1
  BY <1>1, <1>2
<1>4. n + T - 1 = (k + 1) * T + r
  BY <1>1, <1>2
<1>5. ((k + 1) * T + r) \div T = k + 1
  <2>1. PICK m \in Nat : m = k + 1
    OBVIOUS
  <2>2. (m * T + r) \div T = m
    BY <1>3
  <2> QED
    BY <2>1, <2>2
<1> QED
  BY <1>4, <1>5 DEF Tiles

\* Nothing is no tile.
LEMMA NoTiles ==
  ASSUME NEW T \in Nat \ {0} PROVE Tiles(0, T) = 0
<1>1. (T - 1) \div T = 0 /\ 0 + T - 1 = T - 1
  OBVIOUS
<1> QED
  BY <1>1 DEF Tiles

\* The counters when so many rows are stored and begun, so many scores evaluated, and so
\* many tiles and elements of the keys and values loaded.
TallyAt(stored, begun, scores, tiles, elems) ==
  /\ prof.normalize_rows = stored /\ prof.store_o_elems = stored * HeadDim
  /\ prof.init_rows = begun /\ prof.load_q_elems = begun * HeadDim
  /\ prof.valid_score_evals = scores /\ prof.kv_tile_iters = tiles /\ prof.load_kv_elems = elems

\* What a whole pass over the keys loads: tiles, and elements of keys and values.
KeyTiles == Tiles(call.seq_len, TileK)
TileElems == 2 * call.seq_len * HeadDim
RowsLeft(n) == Smaller(q_start, n)

\* The counters of the tile that is in the banks, the kt-th after qt tiles of queries.
BankTally(qt, kt) ==
  /\ k_start = kt * TileK
  /\ TallyAt(q_start, q_start + valid_q, q_start * call.seq_len + valid_q * (k_start + valid_k),
             qt * KeyTiles + kt + 1, qt * TileElems + 2 * (k_start + valid_k) * HeadDim)

\* What the counters show, wherever the kernel is in its loops.
TallyInv ==
  /\ DOMAIN prof = DOMAIN ClearedProfile
  /\ kpc = "q_tile" \/ OnTile =>
       \E qt \in Nat :
         /\ q_start = qt * TileQ /\ (qt = 0 \/ (qt - 1) * TileQ < call.seq_len)
         /\ kpc = "q_tile" =>
              TallyAt(RowsLeft(call.seq_len), RowsLeft(call.seq_len), RowsLeft(call.seq_len) * call.seq_len,
                      qt * KeyTiles, qt * TileElems)
         /\ kpc \in {"kv_tile", "batch"} => \E kt \in Nat : BankTally(qt, kt)
         /\ kpc = "store" =>
              TallyAt(q_start, q_start + valid_q, (q_start + valid_q) * call.seq_len,
                      (qt + 1) * KeyTiles, (qt + 1) * TileElems)
  /\ kpc = "done" =>
       /\ TallyAt(call.seq_len, call.seq_len, call.seq_len * call.seq_len,
                  Tiles(call.seq_len, TileQ) * KeyTiles, Tiles(call.seq_len, TileQ) * TileElems)
       /\ prof.q_tiles = Tiles(call.seq_len, TileQ) /\ prof.k_tiles = KeyTiles

\* A number of tiles is natural.
LEMMA TilesNatural ==
  ASSUME NEW n \in Nat, NEW T \in Nat \ {0} PROVE Tiles(n, T) \in Nat
<1>1. n + T - 1 \in Nat
  OBVIOUS
<1>2. (n + T - 1) \div T \in Nat
  BY <1>1
<1> QED
  BY <1>2 DEF Tiles

\* The tiles of keys of a call and the elements of one pass over them are natural numbers.
LEMMA KeyTilesNatural ==
  ASSUME call.seq_len \in Nat PROVE KeyTiles \in Nat /\ TileElems \in Nat
<1>1. PICK h \in Nat, n \in Nat : h = HeadDim /\ n = call.seq_len
  BY KernelShape
<1>2. 2 * n * h \in Nat
  OBVIOUS
<1> QED
  BY <1>1, <1>2, TilesNatural, KernelShape DEF KeyTiles, TileElems

\* A call starts with all counters at zero.
LEMMA TallyStarts ==
  ASSUME NEW c, NEW o, NEW on_fpga, StartKernel(c, o, on_fpga), c.null = FALSE, call'.seq_len \in Nat
  PROVE  TallyInv'
<1>1. kpc' = "q_tile" /\ q_start' = 0 /\ prof' = ClearedProfile
  BY DEF StartKernel
<1>2. PICK n \in Nat : n = call'.seq_len
  OBVIOUS
<1>3. PICK a \in Nat, b \in Nat : a = KeyTiles' /\ b = TileElems'
  <2>1. Tiles(n, TileK) \in Nat
    BY TilesNatural, KernelShape
  <2>2. PICK h \in Nat : h = HeadDim
    BY KernelShape
  <2>3. 2 * n * h \in Nat
    OBVIOUS
  <2> QED
    BY <1>2, <2>1, <2>2, <2>3 DEF KeyTiles, TileElems
<1>4. RowsLeft(n)' = 0 /\ 0 * n = 0 /\ 0 * HeadDim = 0 /\ 0 * TileQ = 0
  BY <1>1, KernelShape DEF RowsLeft, Smaller
<1>5. 0 * a = 0 /\ 0 * b = 0
  OBVIOUS
<1>6. TallyAt(0, 0, 0, 0, 0)'
  BY <1>1, <1>4 DEF TallyAt, ClearedProfile
<1> QED
  BY <1>1, <1>2, <1>3, <1>4, <1>5, <1>6 DEF TallyInv, OnTile

\* One more tile of keys is loaded.
LEMMA OneIteration ==
  ASSUME NEW p, DOMAIN p = DOMAIN ClearedProfile, NEW valid, NEW r, r = Iteration(p, valid)
  PROVE  /\ DOMAIN r = DOMAIN ClearedProfile
         /\ r.normalize_rows = p.normalize_rows /\ r.store_o_elems = p.store_o_elems
         /\ r.init_rows = p.init_rows /\ r.load_q_elems = p.load_q_elems
         /\ r.kv_tile_iters = p.kv_tile_iters + 1
         /\ r.valid_score_evals = p.valid_score_evals + valid_q * valid
         /\ r.load_kv_elems = p.load_kv_elems + 2 * valid * HeadDim
<1>1. {"kv_tile_iters", "valid_score_evals", "load_kv_elems", "normalize_rows", "store_o_elems", "init_rows",
       "load_q_elems"} \subseteq DOMAIN p
  BY DEF ClearedProfile
<1> QED
  BY <1>1 DEF Iteration

\* A tile of queries is loaded (run_attention_tiled_hls).
LEMMA TallyLoads == LoopInv /\ TallyInv /\ LoadQTile => TallyInv'
<1> SUFFICES ASSUME LoopInv, TallyInv, LoadQTile PROVE TallyInv'
  OBVIOUS
<1>1. /\ kpc = "q_tile" /\ kpc' = "kv_tile" /\ call' = call /\ q_start' = q_start /\ k_start' = 0
      /\ q_start < call.seq_len
  BY DEF LoadQTile
<1>2. PICK n \in Nat, h \in Nat \ {0}, s \in Nat : n = call.seq_len /\ h = HeadDim /\ s = q_start
  BY <1>1, KernelShape DEF LoopInv
<1>3. PICK qt \in Nat :
        /\ q_start = qt * TileQ /\ (qt = 0 \/ (qt - 1) * TileQ < call.seq_len)
        /\ TallyAt(RowsLeft(call.seq_len), RowsLeft(call.seq_len), RowsLeft(call.seq_len) * call.seq_len,
                   qt * KeyTiles, qt * TileElems)
  BY <1>1 DEF TallyInv
<1>4. TallyAt(s, s, s * n, qt * KeyTiles, qt * TileElems)
  <2>1. RowsLeft(call.seq_len) = s
    BY <1>1, <1>2 DEF RowsLeft, Smaller
  <2> QED
    BY <1>2, <1>3, <2>1
<1>5. PICK a \in Nat, b \in Nat : a = qt * KeyTiles /\ b = qt * TileElems
  <2>1. PICK x \in Nat, y \in Nat : x = KeyTiles /\ y = TileElems
    BY <1>2, KeyTilesNatural
  <2>2. qt * x \in Nat /\ qt * y \in Nat
    OBVIOUS
  <2> QED
    BY <2>1, <2>2
<1>6. PICK v \in Nat, w \in Nat : v = valid_q /\ w = ValidK(0)
  BY <1>1, <1>2, KernelShape DEF valid_q, ValidK, Smaller
<1>7. valid_q' = v /\ valid_k' = w /\ KeyTiles' = KeyTiles /\ TileElems' = TileElems
  BY <1>1, <1>6 DEF valid_q, valid_k, ValidK, KeyTiles, TileElems
<1>8. PICK p : p = [prof EXCEPT !.init_rows = @ + v, !.load_q_elems = @ + v * h]
  OBVIOUS
<1>9. prof' = Iteration(p, w)
  BY <1>2, <1>6, <1>8 DEF LoadQTile
<1>10. /\ DOMAIN p = DOMAIN ClearedProfile
       /\ p.normalize_rows = s /\ p.store_o_elems = s * h /\ p.init_rows = s + v
       /\ p.load_q_elems = s * h + v * h /\ p.kv_tile_iters = a
       /\ p.valid_score_evals = s * n /\ p.load_kv_elems = b
  <2>1. {"kv_tile_iters", "valid_score_evals", "load_kv_elems", "normalize_rows", "store_o_elems", "init_rows",
         "load_q_elems"} \subseteq DOMAIN prof /\ DOMAIN prof = DOMAIN ClearedProfile
    BY DEF TallyInv, ClearedProfile
  <2> QED
    BY <1>2, <1>4, <1>5, <1>8, <2>1 DEF TallyAt
<1>11. /\ DOMAIN prof' = DOMAIN ClearedProfile
       /\ prof'.normalize_rows = p.normalize_rows /\ prof'.store_o_elems = p.store_o_elems
       /\ prof'.init_rows = p.init_rows /\ prof'.load_q_elems = p.load_q_elems
       /\ prof'.kv_tile_iters = p.kv_tile_iters + 1
       /\ prof'.valid_score_evals = p.valid_score_evals + v * w
       /\ prof'.load_kv_elems = p.load_kv_elems + 2 * w * h
  <2>1. PICK r : r = prof'
    OBVIOUS
  <2>2. /\ DOMAIN r = DOMAIN ClearedProfile
        /\ r.normalize_rows = p.normalize_rows /\ r.store_o_elems = p.store_o_elems
        /\ r.init_rows = p.init_rows /\ r.load_q_elems = p.load_q_elems
        /\ r.kv_tile_iters = p.kv_tile_iters + 1
        /\ r.valid_score_evals = p.valid_score_evals + valid_q * w
        /\ r.load_kv_elems = p.load_kv_elems + 2 * w * HeadDim
    BY <1>9, <1>10, <2>1, OneIteration
  <2> QED
    BY <1>2, <1>6, <2>1, <2>2
<1>12. (s + v) * h = s * h + v * h /\ 0 + w = w /\ a + 0 + 1 = a + 1
  OBVIOUS
<1>13. TallyAt(s, s + v, s * n + v * (0 + w), a + 0 + 1, b + 2 * (0 + w) * h)'
  BY <1>2, <1>10, <1>11, <1>12 DEF TallyAt
<1>14. BankTally(qt, 0)'
  <2>1. 0 = 0 * TileK
    BY KernelShape
  <2> QED
    BY <1>1, <1>2, <1>5, <1>7, <1>13, <2>1 DEF BankTally
<1> QED
  BY <1>1, <1>3, <1>11, <1>14 DEF TallyInv, OnTile

\* The steps of a batch count what does not concern the tally.
LEMMA TallyKept ==
  ASSUME LoopInv, TallyInv, kpc \in {"kv_tile", "batch"}, kpc' \in {"kv_tile", "batch"},
         call' = call, q_start' = q_start, k_start' = k_start, prof' = prof
  PROVE  TallyInv'
<1>1. PICK qt \in Nat, kt \in Nat :
        q_start = qt * TileQ /\ (qt = 0 \/ (qt - 1) * TileQ < call.seq_len) /\ BankTally(qt, kt)
  BY DEF TallyInv, OnTile
<1>2. valid_q' = valid_q /\ valid_k' = valid_k /\ KeyTiles' = KeyTiles /\ TileElems' = TileElems
  BY DEF valid_q, valid_k, ValidK, KeyTiles, TileElems
<1>3. BankTally(qt, kt)'
  BY <1>1, <1>2 DEF BankTally, TallyAt
<1> QED
  BY <1>1, <1>3 DEF TallyInv, OnTile

\* A step that leaves the kernel alone keeps the tally.
LEMMA TallyUnaffected ==
  ASSUME TallyInv, UNCHANGED <<call, q_start, k_start, prof>>, kpc' = kpc
  PROVE  TallyInv'
<1>1. /\ valid_q' = valid_q /\ valid_k' = valid_k /\ KeyTiles' = KeyTiles /\ TileElems' = TileElems
      /\ OnTile' = OnTile
  BY DEF valid_q, valid_k, ValidK, KeyTiles, TileElems, OnTile
<1>2. \A n : RowsLeft(n)' = RowsLeft(n)
  BY DEF RowsLeft
<1>3. \A s, b, e, t, l : TallyAt(s, b, e, t, l)' = TallyAt(s, b, e, t, l)
  BY DEF TallyAt
<1>4. \A qt, kt : BankTally(qt, kt)' = BankTally(qt, kt)
  BY <1>1 DEF BankTally, TallyAt
<1> QED
  BY <1>1, <1>2, <1>3, <1>4 DEF TallyInv

\* The next tile of keys is loaded, or there is none and the rows are normalised.
LEMMA TallyGoesOn == LoopInv /\ TallyInv /\ NextKVTile => TallyInv'
<1> SUFFICES ASSUME LoopInv, TallyInv, NextKVTile PROVE TallyInv'
  OBVIOUS
<1>1. kpc = "kv_tile" /\ call' = call /\ q_start' = q_start /\ k_start' = k_start + TileK
  BY DEF NextKVTile
<1>2. PICK n \in Nat, h \in Nat \ {0}, s \in Nat, k \in Nat, T \in Nat \ {0} :
        n = call.seq_len /\ h = HeadDim /\ s = q_start /\ k = k_start /\ T = TileK
  BY <1>1, BankShape, KernelShape DEF LoopInv
<1>3. PICK qt \in Nat, kt \in Nat :
        q_start = qt * TileQ /\ (qt = 0 \/ (qt - 1) * TileQ < call.seq_len) /\ BankTally(qt, kt)
  BY <1>1 DEF TallyInv, OnTile
<1>4. PICK v \in Nat, w \in Nat :
        /\ v = valid_q /\ w = valid_k /\ k + w <= n /\ (w = T \/ k + w = n) /\ s + v <= n /\ w <= T
  BY <1>1, <1>2, BatchShape, BankShape, KernelShape DEF OnTile
<1>5. PICK x \in Nat, y \in Nat : x = KeyTiles /\ y = TileElems
  BY <1>2, KeyTilesNatural
<1>6. PICK a \in Nat, b \in Nat : a = qt * KeyTiles /\ b = qt * TileElems
  <2>1. qt * x \in Nat /\ qt * y \in Nat
    OBVIOUS
  <2> QED
    BY <1>5, <2>1
<1>7. k = kt * T /\ TallyAt(s, s + v, s * n + v * (k + w), a + kt + 1, b + 2 * (k + w) * h)
  BY <1>2, <1>3, <1>4, <1>6 DEF BankTally
<1>8. valid_q' = v /\ KeyTiles' = KeyTiles /\ TileElems' = TileElems
  BY <1>1, <1>4 DEF valid_q, KeyTiles, TileElems
<1>9. CASE k + T < n
  <2>1. kpc' = "kv_tile" /\ prof' = Iteration(prof, ValidK(k + T)) /\ w = T
    BY <1>1, <1>2, <1>4, <1>9 DEF NextKVTile
  <2>2. PICK u \in Nat : u = ValidK(k + T) /\ u = valid_k'
    <3>1. ValidK(k + T) \in Nat
      BY <1>2, <1>9 DEF ValidK, Smaller
    <3>2. valid_k' = ValidK(k + T)
      BY <1>1, <1>2 DEF valid_k, ValidK
    <3> QED
      BY <3>1, <3>2
  <2>3. /\ DOMAIN prof' = DOMAIN ClearedProfile
        /\ prof'.normalize_rows = prof.normalize_rows /\ prof'.store_o_elems = prof.store_o_elems
        /\ prof'.init_rows = prof.init_rows /\ prof'.load_q_elems = prof.load_q_elems
        /\ prof'.kv_tile_iters = prof.kv_tile_iters + 1
        /\ prof'.valid_score_evals = prof.valid_score_evals + v * u
        /\ prof'.load_kv_elems = prof.load_kv_elems + 2 * u * h
    <3>1. PICK r : r = prof'
      OBVIOUS
    <3>2. /\ DOMAIN r = DOMAIN ClearedProfile
          /\ r.normalize_rows = prof.normalize_rows /\ r.store_o_elems = prof.store_o_elems
          /\ r.init_rows = prof.init_rows /\ r.load_q_elems = prof.load_q_elems
          /\ r.kv_tile_iters = prof.kv_tile_iters + 1
          /\ r.valid_score_evals = prof.valid_score_evals + valid_q * u
          /\ r.load_kv_elems = prof.load_kv_elems + 2 * u * HeadDim
      BY <2>1, <2>2, <3>1, OneIteration DEF TallyInv
    <3> QED
      BY <1>2, <1>4, <3>1, <3>2
  <2>4. /\ s * n + v * (k + w) + v * u = s * n + v * ((k + T) + u)
        /\ b + 2 * (k + w) * h + 2 * u * h = b + 2 * ((k + T) + u) * h
        /\ a + kt + 1 + 1 = a + (kt + 1) + 1
        /\ k + T = (kt + 1) * T
    BY <1>7, <2>1
  <2>5. TallyAt(s, s + v, s * n + v * ((k + T) + u), a + (kt + 1) + 1, b + 2 * ((k + T) + u) * h)'
    BY <1>7, <2>3, <2>4 DEF TallyAt
  <2>6. BankTally(qt, kt + 1)'
    BY <1>1, <1>2, <1>6, <1>8, <2>2, <2>4, <2>5 DEF BankTally
  <2> QED
    BY <1>1, <1>3, <2>1, <2>3, <2>6 DEF TallyInv, OnTile
<1>10. CASE ~(k + T < n)
  <2>1. kpc' = "store" /\ prof' = prof
    BY <1>1, <1>2, <1>10 DEF NextKVTile
  <2>2. k + w = n
    BY <1>4, <1>10
  <2>3. x = kt + 1
    <3>1. k < n
      BY <1>1, <1>2 DEF LoopInv, KVTileInv
    <3>2. kt * T < n /\ n <= kt * T + T
      BY <1>7, <1>10, <3>1
    <3>3. Tiles(n, T) = kt + 1
      BY <3>2, TilesBegun
    <3> QED
      BY <1>2, <1>5, <3>3 DEF KeyTiles
  <2>4. s * n + v * n = (s + v) * n /\ a + kt + 1 = (qt + 1) * x /\ b + 2 * n * h = (qt + 1) * y
    <3>1. y = 2 * n * h
      BY <1>2, <1>5 DEF TileElems
    <3>2. a + x = (qt + 1) * x /\ b + y = (qt + 1) * y
      BY <1>5, <1>6
    <3>3. s * n + v * n = (s + v) * n
      OBVIOUS
    <3> QED
      BY <2>3, <3>1, <3>2, <3>3
  <2>5. TallyAt(s, s + v, (s + v) * n, (qt + 1) * x, (qt + 1) * y)'
    BY <1>7, <2>1, <2>2, <2>4 DEF TallyAt
  <2> QED
    BY <1>1, <1>2, <1>3, <1>5, <1>8, <2>1, <2>5 DEF TallyInv, OnTile
<1> QED
  BY <1>9, <1>10

\* The rows are stored.
LEMMA TallyStores == LoopInv /\ TallyInv /\ StoreQTile => TallyInv'
<1> SUFFICES ASSUME LoopInv, TallyInv, StoreQTile PROVE TallyInv'
  OBVIOUS
<1>1. /\ kpc = "store" /\ kpc' = "q_tile" /\ call' = call /\ q_start' = q_start + TileQ
      /\ prof' = [prof EXCEPT !.normalize_rows = @ + valid_q, !.store_o_elems = @ + valid_q * HeadDim]
  BY DEF StoreQTile
<1>2. PICK n \in Nat, h \in Nat \ {0}, s \in Nat, T \in Nat \ {0}, v \in Nat :
        /\ n = call.seq_len /\ h = HeadDim /\ s = q_start /\ T = TileQ /\ v = valid_q
        /\ s + v <= n /\ (v = T \/ s + v = n) /\ v <= T
  BY <1>1, BatchShape, KernelShape DEF OnTile
<1>3. PICK qt \in Nat :
        /\ q_start = qt * TileQ
        /\ TallyAt(q_start, q_start + valid_q, (q_start + valid_q) * call.seq_len,
                   (qt + 1) * KeyTiles, (qt + 1) * TileElems)
  BY <1>1 DEF TallyInv, OnTile
<1>4. KeyTiles' = KeyTiles /\ TileElems' = TileElems
  BY <1>1 DEF KeyTiles, TileElems
<1>5. /\ DOMAIN prof' = DOMAIN ClearedProfile
      /\ prof'.normalize_rows = s + v /\ prof'.store_o_elems = s * h + v * h
      /\ prof'.init_rows = s + v /\ prof'.load_q_elems = (s + v) * h
      /\ prof'.valid_score_evals = (s + v) * n /\ prof'.kv_tile_iters = (qt + 1) * KeyTiles
      /\ prof'.load_kv_elems = (qt + 1) * TileElems
  <2>1. {"kv_tile_iters", "valid_score_evals", "load_kv_elems", "normalize_rows", "store_o_elems", "init_rows",
         "load_q_elems"} \subseteq DOMAIN prof /\ DOMAIN prof = DOMAIN ClearedProfile
    BY DEF TallyInv, ClearedProfile
  <2> QED
    BY <1>1, <1>2, <1>3, <2>1 DEF TallyAt
<1>6. RowsLeft(n)' = s + v
  BY <1>1, <1>2 DEF RowsLeft, Smaller
<1>7. s * h + v * h = (s + v) * h
  OBVIOUS
<1>8. TallyAt(s + v, s + v, (s + v) * n, (qt + 1) * KeyTiles, (qt + 1) * TileElems)'
  BY <1>2, <1>4, <1>5, <1>7 DEF TallyAt
<1>9. /\ q_start' = (qt + 1) * TileQ /\ qt + 1 \in Nat
      /\ ((qt + 1) - 1) * TileQ < call.seq_len
  <2>1. s = qt * T /\ s + T = (qt + 1) * T /\ (qt + 1) - 1 = qt
    BY <1>2, <1>3
  <2>2. s < n
    BY <1>1, <1>2 DEF LoopInv, OnTile, QTileInv
  <2> QED
    BY <1>1, <1>2, <2>1, <2>2
<1> QED
  BY <1>1, <1>2, <1>5, <1>6, <1>8, <1>9 DEF TallyInv, OnTile

\* The numbers of tiles are noted at the end.
LEMMA TallyEnds == LoopInv /\ TallyInv /\ FinishKernel => TallyInv'
<1> SUFFICES ASSUME LoopInv, TallyInv, FinishKernel PROVE TallyInv'
  OBVIOUS
<1>1. /\ kpc = "q_tile" /\ kpc' = "done" /\ call' = call /\ q_start >= call.seq_len
      /\ prof' = [prof EXCEPT !.seq_len = call.seq_len, !.norm_rows = call.seq_len,
                              !.q_tiles = Tiles(call.seq_len, TileQ),
                              !.k_tiles = Tiles(call.seq_len, TileK),
                              !.score_evals = call.seq_len * call.seq_len]
  BY DEF FinishKernel
<1>2. PICK n \in Nat, h \in Nat \ {0}, s \in Nat, T \in Nat \ {0} :
        n = call.seq_len /\ h = HeadDim /\ s = q_start /\ T = TileQ
  BY <1>1, KernelShape DEF LoopInv
<1>3. PICK qt \in Nat :
        /\ q_start = qt * TileQ /\ (qt = 0 \/ (qt - 1) * TileQ < call.seq_len)
        /\ TallyAt(RowsLeft(call.seq_len), RowsLeft(call.seq_len), RowsLeft(call.seq_len) * call.seq_len,
                   qt * KeyTiles, qt * TileElems)
  BY <1>1 DEF TallyInv
<1>4. TallyAt(n, n, n * n, qt * KeyTiles, qt * TileElems)
  <2>1. RowsLeft(call.seq_len) = n
    BY <1>1, <1>2 DEF RowsLeft, Smaller
  <2> QED
    BY <1>2, <1>3, <2>1
<1>5. Tiles(n, T) = qt
  <2>1. CASE qt = 0
    <3>1. s = 0
      BY <1>2, <1>3, <2>1
    <3>2. n = 0
      BY <1>1, <1>2, <3>1
    <3> QED
      BY <2>1, <3>2, NoTiles
  <2>2. CASE qt # 0
    <3>1. PICK k \in Nat : qt = k + 1 /\ k = qt - 1
      <4>1. qt - 1 \in Nat
        BY <2>2
      <4> QED
        BY <4>1
    <3>2. qt * T = k * T + T
      BY <3>1
    <3>3. k * T < n /\ n <= k * T + T
      BY <1>1, <1>2, <1>3, <2>2, <3>1, <3>2
    <3> QED
      BY <3>1, <3>3, TilesBegun
  <2> QED
    BY <2>1, <2>2
<1>6. KeyTiles' = KeyTiles /\ TileElems' = TileElems
  BY <1>1 DEF KeyTiles, TileElems
<1>7. /\ DOMAIN prof' = DOMAIN ClearedProfile
      /\ prof'.normalize_rows = prof.normalize_rows /\ prof'.store_o_elems = prof.store_o_elems
      /\ prof'.init_rows = prof.init_rows /\ prof'.load_q_elems = prof.load_q_elems
      /\ prof'.kv_tile_iters = prof.kv_tile_iters
      /\ prof'.valid_score_evals = prof.valid_score_evals
      /\ prof'.load_kv_elems = prof.load_kv_elems
      /\ prof'.q_tiles = Tiles(n, T) /\ prof'.k_tiles = KeyTiles
  <2>1. {"kv_tile_iters", "valid_score_evals", "load_kv_elems", "normalize_rows", "store_o_elems", "init_rows",
         "load_q_elems", "q_tiles", "k_tiles"} \subseteq DOMAIN prof /\ DOMAIN prof = DOMAIN ClearedProfile
    BY DEF TallyInv, ClearedProfile
  <2> QED
    BY <1>1, <1>2, <2>1 DEF KeyTiles
<1>8. TallyAt(n, n, n * n, qt * KeyTiles, qt * TileElems)'
  BY <1>4, <1>6, <1>7 DEF TallyAt
<1> QED
  BY <1>1, <1>2, <1>5, <1>6, <1>7, <1>8 DEF TallyInv, OnTile

\* Every step of the kernel keeps the tally.
LEMMA KernelTally == LoopInv /\ TallyInv /\ KernelStep => TallyInv'
<1> SUFFICES ASSUME LoopInv, TallyInv, KernelStep PROVE TallyInv'
  OBVIOUS
<1>1. CASE StartBatch \/ GenerateScore \/ ConsumeScore \/ EndBatch
  <2>1. /\ kpc \in {"kv_tile", "batch"} /\ kpc' \in {"kv_tile", "batch"}
        /\ call' = call /\ q_start' = q_start /\ k_start' = k_start /\ prof' = prof
    BY <1>1 DEF StartBatch, GenerateScore, ConsumeScore, EndBatch, tileVars
  <2> QED
    BY <2>1, TallyKept
<1> QED
  BY <1>1, TallyLoads, TallyGoesOn, TallyStores, TallyEnds DEF KernelStep

\* A call that the runtime or the runner makes starts with cleared counters.
LEMMA CallTally ==
  ASSUME LoopInv, TallyInv, NEW c, NEW o, NEW on_fpga, StartKernel(c, o, on_fpga), c.null = FALSE,
         LoopInv'
  PROVE  TallyInv'
<1>1. kpc' = "q_tile"
  BY DEF StartKernel
<1>2. call'.seq_len \in Nat
  BY <1>1 DEF LoopInv
<1> QED
  BY <1>2, TallyStarts

\* Every step of the kernel and of the programs around it keeps the tally.
LEMMA NextTallyInv == IInv /\ RunInv /\ LoopInv /\ TallyInv /\ [Next]_vars => TallyInv'
<1> SUFFICES ASSUME IInv, RunInv, LoopInv, TallyInv, [Next]_vars PROVE TallyInv'
  OBVIOUS
<1>0. LoopInv'
  BY NextLoopInv
<1>1. CASE KernelStep
  BY <1>1, KernelTally
<1>2. CASE RunSoftwareHls \/ LaunchXrt \/ RunnerStarts
  <2>1. PICK c, o, on_fpga : StartKernel(c, o, on_fpga) /\ c.null = FALSE
    <3>1. CASE RunSoftwareHls
      <4>1. PICK c : c = CallArguments(Current)
        OBVIOUS
      <4>2. c.null = FALSE
        BY <4>1 DEF CallArguments
      <4> QED
        BY <4>2, <3>1, <4>1 DEF RunSoftwareHls
    <3>2. CASE LaunchXrt
      <4>1. PICK c : c = OnDevice(CallArguments(Current))
        OBVIOUS
      <4>2. c.null = FALSE
        BY <4>1 DEF OnDevice, CallArguments
      <4> QED
        BY <4>2, <3>2, <4>1 DEF LaunchXrt
    <3>3. CASE RunnerStarts
      <4>1. PICK c : c = RunnerCall
        OBVIOUS
      <4>2. c.null = FALSE
        BY <4>1 DEF RunnerCall
      <4> QED
        BY <4>2, <3>3, <4>1 DEF RunnerStarts
    <3> QED
      BY <1>2, <3>1, <3>2, <3>3
  <2> QED
    BY <1>0, <2>1, CallTally
<1>4. CASE ReturnKernel /\ UNCHANGED <<call, dataflow, tileVars, rows, batchVars, out, prof>>
  BY <1>4 DEF TallyInv, ReturnKernel, OnTile
<1>5. CASE UNCHANGED kernelVars
  BY <1>5, TallyUnaffected DEF kernelVars, tileVars
<1>6. CASE RuntimeProgram
  <2>1. CASE SoftwareHlsDone \/ XrtDone
    BY <1>4, <2>1 DEF SoftwareHlsDone, XrtDone
  <2>2. CASE XrtThrows
    BY <1>4, <1>5, <2>2 DEF XrtThrows, kernelVars
  <2>3. CASE CallRuntime \/ RunStrict \/ EnsureBuffers \/ DrainReturns
    BY <1>5, <2>3
       DEF CallRuntime, Init_, Drain, Clear, Submit, Rewrite, RunStrict, EnsureBuffers, DrainReturns
  <2> QED
    BY <1>1, <1>2, <1>6, <2>1, <2>2, <2>3 DEF RuntimeProgram, DrainStep
<1>7. CASE RunnerProgram
  <2>1. CASE RunnerFails
    BY <1>4, <1>5, <2>1 DEF RunnerFails, kernelVars
  <2>2. CASE RunnerEnds
    BY <1>4, <2>2 DEF RunnerEnds
  <2> QED
    BY <1>1, <1>2, <1>7, <2>1, <2>2 DEF RunnerProgram, RunnerStep
<1> QED
  BY <1>5, <1>6, <1>7 DEF Next, GemvProgram, ScoreProgram, CoreProgram, Over, vars

\* The inductive invariant.
KernelInv == IInv /\ RunInv /\ LoopInv /\ DataInv /\ TallyInv

\* The invariant of the kernel, with the one on the operands it is given, is inductive.
LEMMA KernelInvariant == Spec => []KernelInv
<1>1. Init => TallyInv
  BY DEF Init, KernelInit, TallyInv, OnTile
<1>2. Spec => []TallyInv
  <2>1. IInv /\ RunInv /\ LoopInv /\ DataInv /\ TallyInv /\ [Next]_vars => TallyInv'
    BY NextTallyInv
  <2> QED
    BY <1>1, <2>1, DataInvariant, PTL DEF Spec
<1>3. IInv /\ RunInv /\ LoopInv /\ DataInv /\ TallyInv => KernelInv
  BY DEF KernelInv
<1> QED
  BY <1>2, <1>3, DataInvariant, PTL

\* It leaves the rows and the counters of the model.
LEMMA ModelMatched == KernelInv /\ WeightInEveryRow => KernelMatchesModel
<1> SUFFICES ASSUME KernelInv, WeightInEveryRow PROVE KernelMatchesModel
  OBVIOUS
<1>1. ASSUME kpc = "done"
      PROVE  LET n == call.seq_len
             IN  /\ KernelRows = Queue!ReferenceRows("RTL_CTX_STEP_ACC24", call.q, call.k, call.v, n,
                                                     call.scale, call.causal, call.neg_large, FALSE)
                 /\ prof.valid_score_evals = n * n /\ prof.kv_tile_iters = prof.q_tiles * prof.k_tiles
                 /\ prof.init_rows = n /\ prof.normalize_rows = n
                 /\ prof.load_q_elems = n * HeadDim /\ prof.store_o_elems = n * HeadDim
                 /\ prof.load_kv_elems = 2 * n * HeadDim * prof.q_tiles
  <2>1. KernelRows = Queue!ReferenceRows("RTL_CTX_STEP_ACC24", call.q, call.k, call.v, call.seq_len,
                                         call.scale, call.causal, call.neg_large, FALSE)
    BY <1>1, KernelHasModelRows DEF KernelInv, DataInv
  <2>2. PICK n \in Nat, h \in Nat : n = call.seq_len /\ h = HeadDim
    BY <1>1, KernelShape DEF KernelInv, LoopInv
  <2>3. PICK a \in Nat, b \in Nat : a = Tiles(n, TileQ) /\ b = KeyTiles
    BY <2>2, TilesNatural, KeyTilesNatural, KernelShape
  <2>4. /\ TallyAt(n, n, n * n, a * b, a * TileElems) /\ prof.q_tiles = a /\ prof.k_tiles = b
    BY <1>1, <2>2, <2>3 DEF KernelInv, TallyInv
  <2>5. a * TileElems = 2 * n * h * a
    BY <2>2 DEF TileElems
  <2>6. /\ prof.valid_score_evals = n * n /\ prof.kv_tile_iters = prof.q_tiles * prof.k_tiles
        /\ prof.init_rows = n /\ prof.normalize_rows = n
        /\ prof.load_q_elems = n * HeadDim /\ prof.store_o_elems = n * HeadDim
        /\ prof.load_kv_elems = 2 * n * HeadDim * prof.q_tiles
    BY <2>2, <2>4, <2>5 DEF TallyAt
  <2> QED
    BY <2>1, <2>2, <2>6
<1>2. ASSUME Draining, options.mode = "strict_q8_8"
      PROVE  run_attention_strict(CallArguments(Current), memory[Current.o]) = Queue!ReferenceOutput(Current)
  BY <1>2, StrictHasModelRows DEF KernelInv, DataInv
<1> QED
  BY <1>1, <1>2 DEF KernelMatchesModel

\* For every shape of the kernel, every call and every order in which the processes of a batch
\* take turns: a kernel that is done has left the rows of the C model of the RTL in its mode
\* RTL_CTX_STEP_ACC24, and has counted what the tiles come to, if some key has a weight in
\* every row. The strict kernel leaves what the model does in RTL_STRICT, whatever the
\* weights. Without any weight the two do differ: the kernel saturates on the sign of the
\* accumulator (o_normalize_block_row), the model multiplies by the reciprocal it has for zero.
THEOREM KernelComputesModel == Spec => [](WeightInEveryRow => KernelMatchesModel)
BY KernelInvariant, ModelMatched, PTL

\* With that, the runtime leaves in the output of each task what the C model computes from the
\* task's operands of that time: the refinement of RuntimeKeepsItsPromise no longer rests on
\* an assumption about the kernel, only on the rows having some weight.
THEOREM TasksComputeModel == Spec /\ []WeightInEveryRow => TasksRunAsPromised
BY KernelComputesModel, RuntimeKeepsItsPromise, PTL

-----------------------------------------------------------------------------
(* When a row has some weight.                                              *)

\* A natural number halved up to fifteen times is a natural number.
LEMMA HalvingsNatural ==
  ASSUME NEW n \in Nat, NEW z \in Nat, ~(z \div 256 >= 16)
  PROVE  n \div 2^(z \div 256) \in Nat
<1>1. PICK e \in 0 .. 15 : e = z \div 256
  OBVIOUS
<1>2. PICK k \in Nat \ {0} : k = 2^e
  BY PowersOfTwo
<1>3. n \div k \in Nat
  OBVIOUS
<1> QED
  BY <1>1, <1>2, <1>3

\* The magnitude exp2 works on, for a difference of nothing.
LEMMA NoMagnitude ==
  ASSUME NEW y \in Int, y >= 0, y <= 0
  PROVE  (IF y > 0 THEN 0 ELSE IF y < -4096 THEN 4096 ELSE -y) = 0
<1>1. -y = 0
  OBVIOUS
<1>2. PICK low \in Int : low = -4096
  OBVIOUS
<1>3. ~(y > 0) /\ low <= 0
  BY <1>2
<1>4. ~(y < -4096)
  BY <1>2, <1>3
<1> QED
  BY <1>1, <1>3, <1>4

\* No weight is negative, and that of the largest key is one.
LEMMA WeightOfKey ==
  ASSUME NEW x \in Int
  PROVE  exp2_ctx_q1_15(x) \in Nat /\ exp2_ctx_q1_15(ToS16(0)) = 32768
<1>1. PICK mag \in 0 .. 4096 : mag = IF x > 0 THEN 0 ELSE IF x < -4096 THEN 4096 ELSE -x
  OBVIOUS
<1>2. PICK z \in Nat : z = (mag * 369 + 128) \div 256
  OBVIOUS
<1>3. PICK t : t = Exp2Table
  OBVIOUS
<1>4. (\A i \in 1 .. 32 : t[i] \in Nat) /\ t[1] = 32768
  BY <1>3 DEF Exp2Table
<1>5. PICK i \in 1 .. 32 : i = ((z \div 8) % 32) + 1
  <2>1. (z \div 8) % 32 \in 0 .. 31
    OBVIOUS
  <2> QED
    BY <2>1
<1>6. exp2_ctx_q1_15(x) = IF z \div 256 >= 16 THEN 0 ELSE t[i] \div 2^(z \div 256)
  BY <1>1, <1>2, <1>3, <1>5 DEF exp2_ctx_q1_15
<1>7. exp2_ctx_q1_15(x) \in Nat
  <2>1. CASE z \div 256 >= 16
    BY <1>6, <2>1
  <2>2. CASE ~(z \div 256 >= 16)
    <3>1. t[i] \div 2^(z \div 256) \in Nat
      BY <1>4, <2>2, HalvingsNatural
    <3> QED
      BY <1>6, <2>2, <3>1
  <2> QED
    BY <2>1, <2>2
<1>8. exp2_ctx_q1_15(ToS16(0)) = 32768
  <2>1. ToS16(0) = 0
    BY DEF ToS16
  <2>2. /\ (0 * 369 + 128) \div 256 = 0 /\ ~(0 \div 256 >= 16) /\ ((0 \div 8) % 32) + 1 = 1
        /\ 0 \div 256 = 0 /\ 2^0 = 1 /\ 32768 \div 1 = 32768
    OBVIOUS
  <2>3. exp2_ctx_q1_15(0) = t[1] \div 2^0
    <3>2. PICK y \in Int : y = 0
      OBVIOUS
    <3>1. (IF y > 0 THEN 0 ELSE IF y < -4096 THEN 4096 ELSE -y) = 0
      <4>1. y >= 0 /\ y <= 0
        BY <3>2
      <4> HIDE <3>2
      <4> QED
        BY <4>1, NoMagnitude
    <3>3. exp2_ctx_q1_15(y) = IF 0 \div 256 >= 16 THEN 0 ELSE t[((0 \div 8) % 32) + 1] \div 2^(0 \div 256)
      BY <1>3, <2>2, <3>1, <3>2 DEF exp2_ctx_q1_15
    <3> QED
      BY <2>2, <3>2, <3>3
  <2> QED
    BY <1>4, <2>1, <2>2, <2>3
<1> QED
  BY <1>7, <1>8

\* A weight that is scaled stays, scaled by one it stays as it is.
LEMMA ScaledWeight ==
  ASSUME NEW l \in Nat, NEW e \in Nat
  PROVE  ScaledQ1_15(l, e) \in Nat /\ ScaledQ1_15(l, 32768) = l
<1>1. PICK hi \in Nat, lo \in Nat : hi = l \div 32768 /\ lo = l % 32768 /\ l = 32768 * hi + lo
  OBVIOUS
<1>2. \A x : ScaledQ1_15(l, x) = hi * x + ((lo * x) \div 32768)
  <2>1. 2^15 = 32768
    OBVIOUS
  <2> QED
    BY <1>1, <2>1 DEF ScaledQ1_15
<1>3. PICK a \in Nat, b \in Nat : a = hi * e /\ b = lo * e
  OBVIOUS
<1>4. b \div 32768 \in Nat
  OBVIOUS
<1>5. (lo * 32768) \div 32768 = lo /\ hi * 32768 + lo = l
  BY <1>1
<1>6. ScaledQ1_15(l, e) \in Nat
  <2>1. ScaledQ1_15(l, e) = a + (b \div 32768)
    BY <1>2, <1>3
  <2> QED
    BY <1>4, <2>1
<1>7. ScaledQ1_15(l, 32768) = l
  <2>1. ScaledQ1_15(l, 32768) = hi * 32768 + ((lo * 32768) \div 32768)
    BY <1>2
  <2> QED
    BY <1>1, <1>5, <2>1
<1> QED
  BY <1>6, <1>7

\* What a row weighs: never less than nothing, and one as soon as its maximum has moved.
RowWeighs(row, low) ==
  /\ row \in RowStates /\ row.m >= low /\ row.l >= 0
  /\ row.m > low => row.l >= 65536

\* A key that reaches the maximum has weight one; a row of weight one keeps it.
LEMMA KeyWeighs ==
  ASSUME NEW low \in Int, NEW row, RowWeighs(row, low), NEW score \in Int, NEW v \in [Dims -> Int],
         NEW new, new = online_softmax_ctx_acc_row_step(row, score, v)
  PROVE  RowWeighs(new, low) /\ (score >= low \/ row.l >= 65536 => new.l >= 65536)
<1>1. row \in RowStates /\ row.m \in Int /\ row.l \in Nat /\ row.m >= low /\ (row.m > low => row.l >= 65536)
  BY DEF RowWeighs, RowStates
<1>2. PICK m \in Int : m = IF score > row.m THEN score ELSE row.m
  BY <1>1
<1>3. PICK a \in Int, b \in Int : a = ToS16(row.m - m) /\ b = ToS16(score - m)
  <2>1. row.m - m \in Int /\ score - m \in Int
    BY <1>1
  <2>2. ToS16(row.m - m) \in S16 /\ ToS16(score - m) \in S16
    BY <2>1, SameCast
  <2>3. S16 \subseteq Int
    BY DEF S16
  <2> QED
    BY <2>2, <2>3
<1>4. PICK eo \in Nat, en \in Nat : eo = exp2_ctx_q1_15(a) /\ en = exp2_ctx_q1_15(b)
  BY WeightOfKey
<1>5. new = online_softmax_ctx_acc_row_step(row, score, v)
  OBVIOUS
<1>6. new.m = m /\ new.l = ScaledQ1_15(row.l, eo) + 2 * en
  <2>1. new = [m |-> m, l |-> ScaledQ1_15(row.l, exp2_ctx_q1_15(ToS16(row.m - m)))
                                + 2 * exp2_ctx_q1_15(ToS16(score - m)),
               acc |-> [d \in Dims |-> ScaledQ1_15(row.acc[d], exp2_ctx_q1_15(ToS16(row.m - m)))
                                         + WeighQ16_16(exp2_ctx_q1_15(ToS16(score - m)), v[d])]]
    BY <1>2, <1>5 DEF online_softmax_ctx_acc_row_step, RowStep, Applied, Evaluated
  <2> QED
    BY <1>3, <1>4, <2>1
<1>7. new \in RowStates
  <2>1. PICK strict \in BOOLEAN : strict = FALSE
    OBVIOUS
  <2>2. RowStep(row, score, v, strict) \in RowStates
    BY <1>1, SameRowStep
  <2> QED
    BY <1>5, <2>1, <2>2 DEF online_softmax_ctx_acc_row_step
<1>8. PICK s \in Nat : s = ScaledQ1_15(row.l, eo) /\ (eo = 32768 => s = row.l)
  BY <1>1, ScaledWeight
<1>9. CASE score > row.m
  <2>1. score - m = 0
    BY <1>2, <1>9
  <2>2. en = 32768
    BY <1>3, <1>4, <2>1, WeightOfKey
  <2> QED
    BY <1>1, <1>2, <1>5, <1>6, <1>7, <1>8, <1>9, <2>2 DEF RowWeighs
<1>10. CASE ~(score > row.m)
  <2>1. m = row.m /\ row.m - m = 0
    BY <1>1, <1>2, <1>10
  <2>2. eo = 32768
    BY <1>3, <1>4, <2>1, WeightOfKey
  <2>3. s = row.l
    BY <1>8, <2>2
  <2>4. ASSUME score >= low, ~(row.l >= 65536) PROVE en = 32768
    <3>1. row.m = low
      BY <1>1, <2>4
    <3>2. score - m = 0
      BY <1>10, <2>1, <2>4, <3>1
    <3> QED
      BY <1>3, <1>4, <3>2, WeightOfKey
  <2> QED
    BY <1>1, <1>5, <1>6, <1>7, <1>8, <2>1, <2>3, <2>4 DEF RowWeighs
<1> QED
  BY <1>9, <1>10

\* A row one of whose scores reaches the mask value has the weight of that key.
LEMMA RowHasWeight ==
  ASSUME NEW c, CallFits(c), NEW i \in 0 .. c.seq_len - 1,
         NEW x \in 1 .. c.seq_len, KeyOf(c, i, x).score >= c.neg_large
  PROVE  SequentialRow(c, i)[c.seq_len].l # 0
<1>1. PICK N \in Nat : N = c.seq_len
  BY DEF CallFits
<1>2. PICK low \in Int : low = c.neg_large
  BY DEF CallFits
<1>3. PICK f : f = SequentialRow(c, i) /\ LoopsTo(c, i, f, N)
  BY <1>1, SequentialLoop
<1> DEFINE Good == {n \in 0 .. N : RowWeighs(f[n], low) /\ (n >= x => f[n].l >= 65536)}
<1>4. 0 \in Good
  <2>1. f[0] = FreshRow(low) /\ FreshRow(low) \in RowStates
    BY <1>2, <1>3, FreshRowState DEF LoopsTo
  <2>2. RowWeighs(f[0], low) /\ ~(0 >= x)
    BY <2>1 DEF RowWeighs, FreshRow
  <2> QED
    BY <1>1, <2>2
<1>5. ASSUME NEW n \in 0 .. N, n < N, n \in Good PROVE n + 1 \in Good
  <2>1. PICK k \in 1 .. N : k = n + 1 /\ k - 1 = n
    BY <1>5
  <2>2. PICK score \in Int, v \in [Dims -> Int] : score = KeyOf(c, i, k).score /\ v = KeyOf(c, i, k).v
    <3>1. k \in 1 .. c.seq_len
      BY <1>1
    <3>0. PICK strict \in BOOLEAN : strict = FALSE
      OBVIOUS
    <3>2. PICK y : strict = FALSE /\ y = ModelArguments(c, strict)
      BY <3>0
    <3> QED
      BY <3>1, <3>2, SameKeys
  <2>3. f[k] = online_softmax_ctx_acc_row_step(f[n], score, v)
    BY <1>3, <2>1, <2>2 DEF LoopsTo, WithKey
  <2>4. PICK row, new : row = f[n] /\ new = online_softmax_ctx_acc_row_step(row, score, v)
    OBVIOUS
  <2>5. RowWeighs(row, low) /\ (n >= x => row.l >= 65536)
    BY <1>5, <2>4
  <2>6. RowWeighs(new, low) /\ (score >= low \/ row.l >= 65536 => new.l >= 65536)
    BY <2>4, <2>5, KeyWeighs
  <2>7. k >= x => n >= x \/ k = x
    BY <1>1, <2>1
  <2>8. k = x => score >= low
    BY <1>2, <2>2
  <2>9. f[k] = new
    BY <2>3, <2>4
  <2> QED
    BY <2>1, <2>5, <2>6, <2>7, <2>8, <2>9
<1> HIDE DEF Good
<1>6. 0 .. N \subseteq Good
  BY <1>4, <1>5, CountingUp
<1>7. N \in Good
  BY <1>6
<1>8. f[N].l >= 65536 /\ f[N].l \in Int
  BY <1>1, <1>7 DEF Good, RowWeighs, RowStates
<1> QED
  BY <1>1, <1>3, <1>8

\* In every row of a call some score is as large as the mask value.
ScoresReachMask ==
  kpc = "done" =>
    \A i \in 0 .. call.seq_len - 1 :
      \E n \in 1 .. call.seq_len : KeyOf(call, i, n).score >= call.neg_large

\* The weight that KernelComputesModel asks for is there whenever some score of each row is no
\* lower than the mask value; a masked key has exactly that score, so only a call whose every
\* key scores below the mask value can lose it (online_softmax_ctx_acc_row_step: the first
\* maximum is neg_large).
THEOREM ScoresGiveWeight == Spec => [](ScoresReachMask => WeightInEveryRow)
<1>1. KernelInv /\ ScoresReachMask => WeightInEveryRow
  <2> SUFFICES ASSUME KernelInv, ScoresReachMask, kpc = "done", NEW i \in 0 .. call.seq_len - 1
               PROVE  SequentialRow(call, i)[call.seq_len].l # 0
    BY DEF WeightInEveryRow
  <2>1. CallFits(call)
    BY DEF KernelInv, DataInv, CallData
  <2>2. PICK n \in 1 .. call.seq_len : KeyOf(call, i, n).score >= call.neg_large
    BY DEF ScoresReachMask
  <2> QED
    BY <2>1, <2>2, RowHasWeight
<1> QED
  BY <1>1, KernelInvariant, PTL

-----------------------------------------------------------------------------
(* The pipelines of the RTL core.  A batch is issued without a gap, so the  *)
(* number n of edges since it began tells where everything of it is: what   *)
(* was issued in p-th place is n - p - 1 edges old.                         *)

\* A batch: of which core, tiles and first row.
IsBatch(B) ==
  /\ B.c \in CoreCases
  /\ B.q \in Nat /\ B.k \in Nat /\ B.b \in Nat
  /\ (B.q + 1) * B.c.TQ <= B.c.SEQ_LEN /\ (B.k + 1) * B.c.TK <= B.c.SEQ_LEN
  /\ B.b % QPAIR_BATCH_ROWS = 0 /\ B.b + QPAIR_BATCH_ROWS <= B.c.TQ

AtBatch(B) == core = B.c /\ q_tile_idx = B.q /\ k_tile_idx = B.k /\ comp_batch_base = B.b

\* The number of chunks of a row, and of dot products of a batch.
Chunks(c) == c.D \div DpLanes(c)
Issued(B) == B.c.TK * SOFTMAX_CTXS * Chunks(B.c)

\* Slot, key and chunk of a place.
ScoreNumber(B, p) == IF Chunks(B.c) = 1 THEN p ELSE p \div 2
ChunkIn(B, p) == IF Chunks(B.c) = 1 THEN 0 ELSE p % 2
SlotIn(B, p) == ScoreNumber(B, p) % SOFTMAX_CTXS
KeyIn(B, p) == ScoreNumber(B, p) \div SOFTMAX_CTXS

\* A place of the batch, and one whose chunk completes a dot product.
InBatch(B, p) == p \in Int /\ 0 <= p /\ p < Issued(B)
Completes(B, p) == InBatch(B, p) /\ ChunkIn(B, p) = Chunks(B.c) - 1

\* The query and the key of the whole sequence that a slot and key of the batch are.
FirstRow(B, slot) == B.b + slot * ROW_PAR
Query(B, slot, r) == B.q * B.c.TQ + (FirstRow(B, slot) + r)
KeyNo(B, kj) == B.k * B.c.TK + kj

\* A batch has places, four pairs of rows and one or two chunks for each key.
LEMMA PlaceShape ==
  ASSUME NEW B, IsBatch(B)
  PROVE  /\ B.c.TK \in Nat \ {0} /\ B.c.TQ \in Nat \ {0} /\ B.c.SEQ_LEN \in Nat \ {0}
         /\ Chunks(B.c) \in {1, 2} /\ Issued(B) \in Nat \ {0}
         /\ Chunks(B.c) = 1 => Issued(B) = 4 * B.c.TK
         /\ Chunks(B.c) = 2 => Issued(B) = 8 * B.c.TK
<1>1. B.c \in CoreCases
  BY DEF IsBatch
<1>2. {B.c.D, B.c.TQ, B.c.TK, B.c.SEQ_LEN} \subseteq Nat \ {0} /\ Chunks(B.c) \in 1 .. 2
  BY <1>1, CoreShape DEF Chunks
<1>3. Chunks(B.c) = 1 \/ Chunks(B.c) = 2
  BY <1>2
<1>4. PICK k \in Nat \ {0} : k = B.c.TK
  BY <1>2
<1>5. Issued(B) = k * 4 * Chunks(B.c)
  BY <1>4 DEF Issued, SOFTMAX_CTXS
<1> QED
  BY <1>2, <1>3, <1>4, <1>5

\* The slot, the key and the chunk of a place, and of the next place.
LEMMA PlaceIn ==
  ASSUME NEW B, IsBatch(B), NEW p, InBatch(B, p)
  PROVE  /\ SlotIn(B, p) \in 0 .. 3 /\ KeyIn(B, p) \in 0 .. B.c.TK - 1
         /\ ChunkIn(B, p) \in 0 .. Chunks(B.c) - 1
<1>1. CASE Chunks(B.c) = 1
  BY <1>1, PlaceShape DEF InBatch, SlotIn, KeyIn, ChunkIn, ScoreNumber, SOFTMAX_CTXS
<1>2. CASE Chunks(B.c) = 2
  BY <1>2, PlaceShape DEF InBatch, SlotIn, KeyIn, ChunkIn, ScoreNumber, SOFTMAX_CTXS
<1> QED
  BY <1>1, <1>2, PlaceShape

\* The first place.
LEMMA FirstPlace ==
  ASSUME NEW B, IsBatch(B)
  PROVE  InBatch(B, 0) /\ SlotIn(B, 0) = 0 /\ KeyIn(B, 0) = 0 /\ ChunkIn(B, 0) = 0
<1>1. CASE Chunks(B.c) = 1
  BY <1>1, PlaceShape DEF InBatch, SlotIn, KeyIn, ChunkIn, ScoreNumber, SOFTMAX_CTXS
<1>2. CASE Chunks(B.c) = 2
  BY <1>2, PlaceShape DEF InBatch, SlotIn, KeyIn, ChunkIn, ScoreNumber, SOFTMAX_CTXS
<1> QED
  BY <1>1, <1>2, PlaceShape

\* What comes after a place: the next chunk, slot or key, or the end.
NextPlace(B, p) ==
  IF ChunkIn(B, p) < Chunks(B.c) - 1
  THEN /\ InBatch(B, p + 1)
       /\ ChunkIn(B, p + 1) = ChunkIn(B, p) + 1
       /\ SlotIn(B, p + 1) = SlotIn(B, p) /\ KeyIn(B, p + 1) = KeyIn(B, p)
  ELSE IF SlotIn(B, p) < 3
  THEN /\ InBatch(B, p + 1) /\ ChunkIn(B, p + 1) = 0
       /\ SlotIn(B, p + 1) = SlotIn(B, p) + 1 /\ KeyIn(B, p + 1) = KeyIn(B, p)
  ELSE IF KeyIn(B, p) < B.c.TK - 1
  THEN /\ InBatch(B, p + 1) /\ ChunkIn(B, p + 1) = 0
       /\ SlotIn(B, p + 1) = 0 /\ KeyIn(B, p + 1) = KeyIn(B, p) + 1
  ELSE p + 1 = Issued(B)

\* Chunks, pairs and keys follow each other as their numbers do.
LEMMA PlacesOnward ==
  ASSUME NEW B, IsBatch(B), NEW p, InBatch(B, p)
  PROVE  NextPlace(B, p)
<1>1. PICK k \in Nat : k = B.c.TK
  BY PlaceShape
<1>2. CASE Chunks(B.c) = 1
  <2>1. Issued(B) = 4 * k
    BY <1>1, <1>2, PlaceShape
  <2> QED
    BY <1>1, <1>2, <2>1 DEF NextPlace, InBatch, SlotIn, KeyIn, ChunkIn, ScoreNumber, SOFTMAX_CTXS
<1>3. CASE Chunks(B.c) = 2
  <2>1. Issued(B) = 8 * k
    BY <1>1, <1>3, PlaceShape
  <2> QED
    BY <1>1, <1>3, <2>1 DEF NextPlace, InBatch, SlotIn, KeyIn, ChunkIn, ScoreNumber, SOFTMAX_CTXS
<1> QED
  BY <1>2, <1>3, PlaceShape

\* The machine issues in this order.
IssueOf(B, n) ==
  IF n < Issued(B)
  THEN [slot |-> SlotIn(B, n), kj |-> KeyIn(B, n), chunk |-> ChunkIn(B, n), done |-> FALSE]
  ELSE [slot |-> 0, kj |-> B.c.TK - 1, chunk |-> 0, done |-> TRUE]

\* What the machine issues next, case by case.
LEMMA IssueFields ==
  ASSUME NEW slot \in Int, NEW kj \in Int, NEW chunk \in Int, NEW done \in BOOLEAN, NEW issue,
         issue = [slot |-> slot, kj |-> kj, chunk |-> chunk, done |-> done], NEW next
  PROVE  /\ next = [issue EXCEPT !.chunk = 0, !.slot = @ + 1]
              => next = [slot |-> slot + 1, kj |-> kj, chunk |-> 0, done |-> done]
         /\ next = [issue EXCEPT !.chunk = 0, !.slot = 0, !.kj = @ + 1]
              => next = [slot |-> 0, kj |-> kj + 1, chunk |-> 0, done |-> done]
         /\ next = [issue EXCEPT !.chunk = 0, !.slot = 0, !.done = TRUE]
              => next = [slot |-> 0, kj |-> kj, chunk |-> 0, done |-> TRUE]
<1>1. CASE next = [issue EXCEPT !.chunk = 0, !.slot = @ + 1]
  BY <1>1
<1>2. CASE next = [issue EXCEPT !.chunk = 0, !.slot = 0, !.kj = @ + 1]
  BY <1>2
<1>3. CASE next = [issue EXCEPT !.chunk = 0, !.slot = 0, !.done = TRUE]
  BY <1>3
<1> QED
  BY <1>1, <1>2, <1>3

\* What the counters of the issue become, case by case (qk_issue_slot, qk_issue_kj, qk_issue_chunk).
LEMMA IssueCases ==
  ASSUME NEW slot \in Int, NEW kj \in Int, NEW chunk \in Int, NEW done \in BOOLEAN,
         qk_issue = [slot |-> slot, kj |-> kj, chunk |-> chunk, done |-> done],
         NEW C \in Int, C = DP_CHUNKS, NEW T \in Int, T = core.TK,
         NEW next, next = NextIssue
  PROVE  /\ done => next = qk_issue
         /\ ~done /\ chunk < C - 1 =>
              next = [slot |-> slot, kj |-> kj, chunk |-> chunk + 1, done |-> done]
         /\ ~done /\ ~(chunk < C - 1) /\ slot < 3 =>
              next = [slot |-> slot + 1, kj |-> kj, chunk |-> 0, done |-> done]
         /\ ~done /\ ~(chunk < C - 1) /\ ~(slot < 3) /\ kj < T - 1 =>
              next = [slot |-> 0, kj |-> kj + 1, chunk |-> 0, done |-> done]
         /\ ~done /\ ~(chunk < C - 1) /\ ~(slot < 3) /\ ~(kj < T - 1) =>
              next = [slot |-> 0, kj |-> kj, chunk |-> 0, done |-> TRUE]
<1>1. CASE done
  BY <1>1 DEF NextIssue
<1>2. CASE ~done /\ chunk < C - 1
  BY <1>2 DEF NextIssue
<1>6. qk_issue.slot = slot /\ qk_issue.kj = kj /\ qk_issue.chunk = chunk /\ qk_issue.done = done
  OBVIOUS
<1>3. CASE ~done /\ ~(chunk < C - 1) /\ slot < 3
  <2>1. next = [qk_issue EXCEPT !.chunk = 0, !.slot = @ + 1]
    BY <1>3, <1>6 DEF NextIssue, SOFTMAX_CTXS
  <2> QED
    BY <1>3, <2>1, IssueFields
<1>4. CASE ~done /\ ~(chunk < C - 1) /\ ~(slot < 3) /\ kj < T - 1
  <2>1. next = [qk_issue EXCEPT !.chunk = 0, !.slot = 0, !.kj = @ + 1]
    BY <1>4, <1>6 DEF NextIssue, SOFTMAX_CTXS
  <2> QED
    BY <1>4, <2>1, IssueFields
<1>5. CASE ~done /\ ~(chunk < C - 1) /\ ~(slot < 3) /\ ~(kj < T - 1)
  <2>1. next = [qk_issue EXCEPT !.chunk = 0, !.slot = 0, !.done = TRUE]
    BY <1>5, <1>6 DEF NextIssue, SOFTMAX_CTXS
  <2> QED
    BY <1>5, <2>1, IssueFields
<1> QED
  BY <1>1, <1>2, <1>3, <1>4, <1>5

\* The counters issue the places in order, and stop after the last.
LEMMA IssuesOnward ==
  ASSUME NEW B, IsBatch(B), core = B.c, NEW n \in Nat, qk_issue = IssueOf(B, n)
  PROVE  NextIssue = IssueOf(B, n + 1)
<1>1. PICK C \in Int, T \in Int : /\ C = DP_CHUNKS /\ T = core.TK
                                  /\ Chunks(B.c) = C /\ B.c.TK = T /\ C >= 1 /\ T >= 1
  <2>1. DP_CHUNKS = Chunks(B.c) /\ core.TK = B.c.TK
    BY DEF DP_CHUNKS, Chunks
  <2> QED
    BY <2>1, PlaceShape
<1>2. Issued(B) \in Nat
  BY PlaceShape
<1>3. CASE ~(n < Issued(B))
  <2>1. qk_issue = [slot |-> 0, kj |-> T - 1, chunk |-> 0, done |-> TRUE]
    BY <1>1, <1>3 DEF IssueOf
  <2>2. NextIssue = qk_issue
    BY <2>1 DEF NextIssue
  <2> QED
    BY <1>1, <1>2, <1>3, <2>1, <2>2 DEF IssueOf
<1>4. CASE n < Issued(B)
  <2>1. InBatch(B, n)
    BY <1>4 DEF InBatch
  <2>2. PICK slot \in Int, kj \in Int, chunk \in Int, done \in BOOLEAN :
          /\ slot = SlotIn(B, n) /\ kj = KeyIn(B, n) /\ chunk = ChunkIn(B, n) /\ ~done
          /\ kj <= T - 1
          /\ qk_issue = [slot |-> slot, kj |-> kj, chunk |-> chunk, done |-> done]
    <3>1. SlotIn(B, n) \in Int /\ KeyIn(B, n) \in Int /\ ChunkIn(B, n) \in Int /\ KeyIn(B, n) <= T - 1
      BY <1>1, <2>1, PlaceIn
    <3>2. qk_issue = [slot |-> SlotIn(B, n), kj |-> KeyIn(B, n), chunk |-> ChunkIn(B, n), done |-> FALSE]
      BY <1>4 DEF IssueOf
    <3> QED
      BY <3>1, <3>2
  <2>3. NextPlace(B, n)
    BY <2>1, PlacesOnward
  <2>4. ASSUME InBatch(B, n + 1)
        PROVE  IssueOf(B, n + 1) = [slot |-> SlotIn(B, n + 1), kj |-> KeyIn(B, n + 1),
                                    chunk |-> ChunkIn(B, n + 1), done |-> done]
    BY <2>2, <2>4 DEF IssueOf, InBatch
  <2>5. CASE chunk < C - 1
    <3>1. NextIssue = [slot |-> slot, kj |-> kj, chunk |-> chunk + 1, done |-> done]
      BY <1>1, <2>2, <2>5, IssueCases
    <3>2. /\ InBatch(B, n + 1) /\ ChunkIn(B, n + 1) = chunk + 1
          /\ SlotIn(B, n + 1) = slot /\ KeyIn(B, n + 1) = kj
      BY <1>1, <2>2, <2>3, <2>5 DEF NextPlace
    <3> QED
      BY <2>4, <3>1, <3>2
  <2>6. CASE ~(chunk < C - 1) /\ slot < 3
    <3>1. NextIssue = [slot |-> slot + 1, kj |-> kj, chunk |-> 0, done |-> done]
      BY <1>1, <2>2, <2>6, IssueCases
    <3>2. /\ InBatch(B, n + 1) /\ ChunkIn(B, n + 1) = 0
          /\ SlotIn(B, n + 1) = slot + 1 /\ KeyIn(B, n + 1) = kj
      BY <1>1, <2>2, <2>3, <2>6 DEF NextPlace
    <3> QED
      BY <2>4, <3>1, <3>2
  <2>7. CASE ~(chunk < C - 1) /\ ~(slot < 3) /\ kj < T - 1
    <3>1. NextIssue = [slot |-> 0, kj |-> kj + 1, chunk |-> 0, done |-> done]
      BY <1>1, <2>2, <2>7, IssueCases
    <3>2. /\ InBatch(B, n + 1) /\ ChunkIn(B, n + 1) = 0
          /\ SlotIn(B, n + 1) = 0 /\ KeyIn(B, n + 1) = kj + 1
      BY <1>1, <2>2, <2>3, <2>7 DEF NextPlace
    <3> QED
      BY <2>4, <3>1, <3>2
  <2>8. CASE ~(chunk < C - 1) /\ ~(slot < 3) /\ ~(kj < T - 1)
    <3>1. NextIssue = [slot |-> 0, kj |-> kj, chunk |-> 0, done |-> TRUE]
      BY <1>1, <2>2, <2>8, IssueCases
    <3>2. n + 1 = Issued(B)
      BY <1>1, <2>2, <2>3, <2>8 DEF NextPlace
    <3>3. kj = T - 1
      BY <1>1, <2>2, <2>8
    <3> QED
      BY <1>1, <1>2, <3>1, <3>2, <3>3 DEF IssueOf
  <2> QED
    BY <2>5, <2>6, <2>7, <2>8
<1> QED
  BY <1>3, <1>4

-----------------------------------------------------------------------------
(* What the pipelines carry: a key's score, and the states of a row that    *)
(* takes one key after the other.                                           *)

CoreDims(c) == 0 .. c.D - 1
CoreStates(c) == [m : Int, l : Int, acc : [CoreDims(c) -> Int]]

\* The dot product of query i and key j, chunk by chunk, and their score.
LanesOf(c, chunk) == chunk * DpLanes(c) .. (chunk + 1) * DpLanes(c) - 1
ChunkDot(c, i, j, chunk) == DotOver(c.q[i], c.k[j], LanesOf(c, chunk))
CoreDot(c, i, j) ==
  IF Chunks(c) = 1 THEN ChunkDot(c, i, j, 0) ELSE ChunkDot(c, i, j, 0) + ChunkDot(c, i, j, 1)
CoreScore(c, i, j) ==
  IF c.causal /\ i < j THEN c.neg_large ELSE fa_mul_sat_q8_8(ToS16(CoreDot(c, i, j) \div 256), c.scale)

\* The last two stages, of a case.
MultipliedIn(c, x, v) ==
  [m |-> x.m, exp_new |-> x.exp_new, l_scaled |-> ScaledQ1_15(x.prev.l, x.exp_old),
   acc_scaled |-> [d \in CoreDims(c) |-> ScaledQ1_15(x.prev.acc[d], x.exp_old)],
   v_mul |-> [d \in CoreDims(c) |-> (x.exp_new * v[d]) \div 128]]
SummedIn(c, x) ==
  [m |-> x.m, l |-> x.l_scaled + 2 * x.exp_new,
   acc |-> [d \in CoreDims(c) |-> x.acc_scaled[d] + x.v_mul[d]]]

\* The stages from s0 to s4.
Stage1(old, score) == Compared([score |-> score, prev |-> old])
Stage2(old, score) == Exponentiated(Stage1(old, score))
Stage3(c, old, score, v) == MultipliedIn(c, Stage2(old, score), v)
KeyTaken(c, old, score, v) == SummedIn(c, Stage3(c, old, score, v))

\* What divides a number.
LEMMA WholeTiles ==
  ASSUME NEW n \in Nat, NEW w \in Nat \ {0}, n % w = 0
  PROVE  n \div w \in Nat /\ n = (n \div w) * w
OBVIOUS

\* The shape and the operands of a case, in one fact.
LEMMA CaseTypes ==
  ASSUME NEW c \in CoreCases
  PROVE  /\ c.D \in Nat \ {0} /\ c.TQ \in Nat \ {0} /\ c.TK \in Nat \ {0} /\ c.SEQ_LEN \in Nat \ {0}
         /\ c.SEQ_LEN <= 256 /\ c.SEQ_LEN % c.TQ = 0 /\ c.SEQ_LEN % c.TK = 0 /\ c.TQ % 8 = 0
         /\ Chunks(c) \in {1, 2} /\ DpLanes(c) \in Nat \ {0} /\ c.D = Chunks(c) * DpLanes(c)
         /\ NORM_LANES \in Nat \ {0} /\ c.D % NORM_LANES = 0
         /\ c.scale \in Int /\ c.neg_large \in Int /\ c.causal \in BOOLEAN
         /\ \A i \in 0 .. c.SEQ_LEN - 1 : /\ c.q[i] \in [CoreDims(c) -> Int] /\ c.k[i] \in [CoreDims(c) -> Int]
                                          /\ c.v[i] \in [CoreDims(c) -> Int]
<1>1. /\ {c.D, c.TQ, c.TK, c.SEQ_LEN} \subseteq Nat \ {0} /\ {MaxDpLanes, NORM_LANES} \subseteq Nat \ {0}
      /\ c.SEQ_LEN % c.TQ = 0 /\ c.SEQ_LEN % c.TK = 0 /\ c.TQ % 8 = 0
      /\ c.D % DpLanes(c) = 0 /\ c.D \div DpLanes(c) \in 1 .. 2 /\ c.D % NORM_LANES = 0
  BY CoreShape DEF QPAIR_BATCH_ROWS, ROW_PAR, SOFTMAX_CTXS
<1>2. /\ c.SEQ_LEN <= 256 /\ {c.scale, c.neg_large} \subseteq S16 /\ c.causal \in BOOLEAN
      /\ {c.q, c.k, c.v} \subseteq [0 .. c.SEQ_LEN - 1 -> [0 .. c.D - 1 -> S16]]
  BY CoreOperands
<1>3. S16 \subseteq Int
  BY DEF S16
<1>4. DpLanes(c) \in Nat \ {0}
  BY <1>1 DEF DpLanes
<1>5. c.D = Chunks(c) * DpLanes(c) /\ Chunks(c) \in {1, 2}
  <2>1. PICK d \in Nat \ {0}, w \in Nat \ {0} : d = c.D /\ w = DpLanes(c)
    BY <1>1, <1>4
  <2>2. d % w = 0 /\ d \div w \in 1 .. 2
    BY <1>1, <2>1
  <2>3. d = (d \div w) * w
    BY <2>2, WholeTiles
  <2> QED
    BY <2>1, <2>2, <2>3 DEF Chunks
<1>6. c.scale \in Int /\ c.neg_large \in Int
  BY <1>2, <1>3
<1>7. ASSUME NEW i \in 0 .. c.SEQ_LEN - 1
      PROVE  /\ c.q[i] \in [CoreDims(c) -> Int] /\ c.k[i] \in [CoreDims(c) -> Int]
             /\ c.v[i] \in [CoreDims(c) -> Int]
  <2>1. \A f \in [CoreDims(c) -> S16] : f \in [CoreDims(c) -> Int]
    BY <1>3
  <2>2. c.q[i] \in [CoreDims(c) -> S16] /\ c.k[i] \in [CoreDims(c) -> S16] /\ c.v[i] \in [CoreDims(c) -> S16]
    BY <1>2 DEF CoreDims
  <2> QED
    BY <2>1, <2>2
<1> QED
  BY <1>1, <1>2, <1>4, <1>5, <1>6, <1>7

\* The state after a key, in one expression.
LEMMA KeyTakenIs ==
  ASSUME NEW c, NEW old, NEW score, NEW v, NEW m, m = IF score > old.m THEN score ELSE old.m,
         NEW eo, eo = exp2_ctx_q1_15(ToS16(old.m - m)), NEW en, en = exp2_ctx_q1_15(ToS16(score - m))
  PROVE  KeyTaken(c, old, score, v)
           = [m |-> m, l |-> ScaledQ1_15(old.l, eo) + 2 * en,
              acc |-> [d \in CoreDims(c) |-> ScaledQ1_15(old.acc[d], eo) + (en * v[d]) \div 128]]
<1>1. Stage1(old, score) = [m |-> m, diff_old |-> ToS16(old.m - m), diff_new |-> ToS16(score - m), prev |-> old]
  BY DEF Stage1, Compared
<1>2. Stage2(old, score) = [m |-> m, exp_old |-> eo, exp_new |-> en, prev |-> old]
  BY <1>1 DEF Stage2, Exponentiated, exp2_approx
<1>3. Stage3(c, old, score, v)
        = [m |-> m, exp_new |-> en, l_scaled |-> ScaledQ1_15(old.l, eo),
           acc_scaled |-> [d \in CoreDims(c) |-> ScaledQ1_15(old.acc[d], eo)],
           v_mul |-> [d \in CoreDims(c) |-> (en * v[d]) \div 128]]
  BY <1>2 DEF Stage3, MultipliedIn
<1>4. PICK D : D = CoreDims(c)
  OBVIOUS
<1>5. PICK a, w : a = [d \in D |-> ScaledQ1_15(old.acc[d], eo)] /\ w = [d \in D |-> (en * v[d]) \div 128]
  OBVIOUS
<1>6. Stage3(c, old, score, v)
        = [m |-> m, exp_new |-> en, l_scaled |-> ScaledQ1_15(old.l, eo), acc_scaled |-> a, v_mul |-> w]
  BY <1>3, <1>4, <1>5
<1>7. KeyTaken(c, old, score, v)
        = [m |-> m, l |-> ScaledQ1_15(old.l, eo) + 2 * en, acc |-> [d \in D |-> a[d] + w[d]]]
  BY <1>4, <1>6 DEF KeyTaken, SummedIn
<1>8. [d \in D |-> a[d] + w[d]] = [d \in D |-> ScaledQ1_15(old.acc[d], eo) + (en * v[d]) \div 128]
  BY <1>5
<1> QED
  BY <1>4, <1>7, <1>8

\* The pipeline takes a key as the C model does.
LEMMA SameKeyTaken ==
  ASSUME NEW c, NEW old \in CoreStates(c), NEW score \in Int, NEW v \in [CoreDims(c) -> Int]
  PROVE  /\ KeyTaken(c, old, score, v) \in CoreStates(c)
         /\ Queue!KeyStep("RTL_CTX_STEP_ACC24", old, score, v) = KeyTaken(c, old, score, v)
<1>0. PICK D : D = CoreDims(c)
  OBVIOUS
<1>1. old.m \in Int /\ old.l \in Int /\ old.acc \in [D -> Int]
  BY <1>0 DEF CoreStates
<1>2. PICK m \in Int : m = IF score > old.m THEN score ELSE old.m
  BY <1>1
<1>3. PICK a \in Int, b \in Int : /\ a = ToS16(old.m - m) /\ b = ToS16(score - m)
                                  /\ Queue!AsInt16(old.m - m) = a /\ Queue!AsInt16(score - m) = b
  <2>1. old.m - m \in Int /\ score - m \in Int
    BY <1>1
  <2>2. S16 \subseteq Int
    BY DEF S16
  <2> QED
    BY <2>1, <2>2, SameCast
<1>4. PICK eo \in Int, en \in Int : /\ eo = exp2_ctx_q1_15(a) /\ en = exp2_ctx_q1_15(b)
                                    /\ Queue!exp2_ctx_step_q1_15(a) = eo /\ Queue!exp2_ctx_step_q1_15(b) = en
  BY SameExp2
<1>5. KeyTaken(c, old, score, v)
        = [m |-> m, l |-> ScaledQ1_15(old.l, eo) + 2 * en,
           acc |-> [d \in D |-> ScaledQ1_15(old.acc[d], eo) + (en * v[d]) \div 128]]
  BY <1>0, <1>2, <1>3, <1>4, KeyTakenIs
<1>6. Queue!KeyStep("RTL_CTX_STEP_ACC24", old, score, v)
        = [m |-> m, l |-> Queue!Scaled(old.l, eo) + en * 2,
           acc |-> [d \in DOMAIN v |-> Queue!Scaled(old.acc[d], eo) + (en * v[d]) \div 128]]
  <2>1. Queue!KeyStep("RTL_CTX_STEP_ACC24", old, score, v)
         = [m |-> m, l |-> Queue!Scaled(old.l, Queue!exp2_ctx_step_q1_15(Queue!AsInt16(old.m - m)))
                            + Queue!exp2_ctx_step_q1_15(Queue!AsInt16(score - m)) * 2,
             acc |-> [d \in DOMAIN v |->
                        Queue!Scaled(old.acc[d], Queue!exp2_ctx_step_q1_15(Queue!AsInt16(old.m - m)))
                          + (Queue!exp2_ctx_step_q1_15(Queue!AsInt16(score - m)) * v[d]) \div 128]]
    BY <1>2 DEF Queue!KeyStep, Queue!Applied, Queue!Evaluated, Queue!ExpOf, Queue!PvTerm
  <2> QED
    BY <1>3, <1>4, <2>1
<1>7. DOMAIN v = D /\ \A d \in D : v[d] \in Int /\ old.acc[d] \in Int
  BY <1>0, <1>1
<1>8. \A d \in D : /\ Queue!Scaled(old.acc[d], eo) = ScaledQ1_15(old.acc[d], eo)
                   /\ ScaledQ1_15(old.acc[d], eo) \in Int
  BY <1>7, SameDecay
<1>9. PICK s \in Int : s = ScaledQ1_15(old.l, eo) /\ Queue!Scaled(old.l, eo) = s
  BY <1>1, SameDecay
<1>10. \A d \in D : ScaledQ1_15(old.acc[d], eo) + (en * v[d]) \div 128 \in Int
  <2> SUFFICES ASSUME NEW d \in D PROVE ScaledQ1_15(old.acc[d], eo) + (en * v[d]) \div 128 \in Int
    OBVIOUS
  <2>1. PICK p \in Int, w \in Int : p = ScaledQ1_15(old.acc[d], eo) /\ w = en * v[d]
    BY <1>7, <1>8
  <2> QED
    BY <2>1
<1>11. KeyTaken(c, old, score, v) \in CoreStates(c)
  <2>1. s + 2 * en \in Int
    OBVIOUS
  <2>2. [d \in D |-> ScaledQ1_15(old.acc[d], eo) + (en * v[d]) \div 128] \in [D -> Int]
    BY <1>10
  <2> QED
    BY <1>0, <1>5, <1>9, <2>1, <2>2 DEF CoreStates
<1>12. [d \in DOMAIN v |-> Queue!Scaled(old.acc[d], eo) + (en * v[d]) \div 128]
         = [d \in D |-> ScaledQ1_15(old.acc[d], eo) + (en * v[d]) \div 128]
  BY <1>7, <1>8
<1>13. s + en * 2 = s + 2 * en
  OBVIOUS
<1> QED
  BY <1>5, <1>6, <1>9, <1>11, <1>12, <1>13

\* The states of a row: none of a tile's, batch's or pair's bounds is in them.
CoreFresh(c) == [m |-> c.neg_large, l |-> 0, acc |-> [d \in CoreDims(c) |-> 0]]
IsCoreRow(c, i, f) ==
  /\ f \in [0 .. c.SEQ_LEN -> CoreStates(c)] /\ f[0] = CoreFresh(c)
  /\ \A n \in 1 .. c.SEQ_LEN : f[n] = KeyTaken(c, f[n - 1], CoreScore(c, i, n - 1), c.v[n - 1])
CoreRow(c, i) == CHOOSE f : IsCoreRow(c, i, f)

\* Sums of products are numbers.
LEMMA DotIsNumber ==
  ASSUME NEW S, IsFiniteSet(S), NEW l, NEW r, \A d \in S : l[d] \in Int /\ r[d] \in Int
  PROVE  DotOver(l, r, S) \in Int
<1>1. PICK g : g = [d \in S |-> l[d] * r[d]]
  OBVIOUS
<1>2. \A d \in S : g[d] = l[d] * r[d] /\ g[d] \in Int
  BY <1>1
<1>3. DotOver(l, r, S) = SumOver(g, S)
  BY <1>2, ProductsAdded
<1>4. SumOver(g, S) \in Int
  BY <1>2, SumIsNumber
<1> QED
  BY <1>3, <1>4

\* The lanes of a chunk are elements of a row.
LEMMA LanesInRow ==
  ASSUME NEW c \in CoreCases, NEW chunk \in 0 .. Chunks(c) - 1
  PROVE  IsFiniteSet(LanesOf(c, chunk)) /\ LanesOf(c, chunk) \subseteq CoreDims(c)
<1>1. PICK w \in Nat : w = DpLanes(c) /\ w >= 1
  BY CaseTypes
<1>2. Chunks(c) \in {1, 2} /\ c.D = Chunks(c) * w
  BY <1>1, CaseTypes
<1>3. chunk = 0 \/ (chunk = 1 /\ Chunks(c) = 2)
  BY <1>2
<1>4. CASE chunk = 0
  <2>1. LanesOf(c, chunk) = 0 .. w - 1
    BY <1>1, <1>4 DEF LanesOf
  <2>2. w <= c.D /\ c.D \in Int
    BY <1>1, <1>2
  <2>3. 0 .. w - 1 \subseteq CoreDims(c)
    BY <2>2 DEF CoreDims
  <2>4. IsFiniteSet(0 .. w - 1)
    BY FS_Interval
  <2> QED
    BY <2>1, <2>3, <2>4
<1>5. CASE chunk = 1 /\ Chunks(c) = 2
  <2>1. LanesOf(c, chunk) = w .. 2 * w - 1
    BY <1>1, <1>5 DEF LanesOf
  <2>2. c.D = 2 * w
    BY <1>2, <1>5
  <2>3. w .. 2 * w - 1 \subseteq CoreDims(c)
    BY <1>1, <2>2 DEF CoreDims
  <2>4. IsFiniteSet(w .. 2 * w - 1)
    BY FS_Interval
  <2> QED
    BY <2>1, <2>3, <2>4
<1> QED
  BY <1>3, <1>4, <1>5

\* So are partial sums, dot products and scores.
LEMMA ScoreIsNumber ==
  ASSUME NEW c \in CoreCases, NEW i \in 0 .. c.SEQ_LEN - 1, NEW j \in 0 .. c.SEQ_LEN - 1
  PROVE  /\ \A chunk \in 0 .. Chunks(c) - 1 : ChunkDot(c, i, j, chunk) \in Int
         /\ CoreDot(c, i, j) \in Int /\ CoreScore(c, i, j) \in Int
<1>1. c.q[i] \in [CoreDims(c) -> Int] /\ c.k[j] \in [CoreDims(c) -> Int]
  BY CaseTypes
<1>2. ASSUME NEW chunk \in 0 .. Chunks(c) - 1 PROVE ChunkDot(c, i, j, chunk) \in Int
  <2>1. IsFiniteSet(LanesOf(c, chunk)) /\ LanesOf(c, chunk) \subseteq CoreDims(c)
    BY LanesInRow
  <2>2. \A d \in LanesOf(c, chunk) : c.q[i][d] \in Int /\ c.k[j][d] \in Int
    BY <1>1, <2>1
  <2> QED
    BY <2>1, <2>2, DotIsNumber DEF ChunkDot
<1>3. PICK dp \in Int : dp = CoreDot(c, i, j)
  <2>1. Chunks(c) \in {1, 2}
    BY CaseTypes
  <2>2. CASE Chunks(c) = 1
    BY <1>2, <2>2 DEF CoreDot
  <2>3. CASE Chunks(c) = 2
    <3>1. ChunkDot(c, i, j, 0) \in Int /\ ChunkDot(c, i, j, 1) \in Int
      BY <1>2, <2>3
    <3> QED
      BY <2>3, <3>1 DEF CoreDot
  <2> QED
    BY <2>1, <2>2, <2>3
<1>4. ToS16(dp \div 256) \in Int /\ c.scale \in Int /\ c.neg_large \in Int
  <2>1. dp \div 256 \in Int
    OBVIOUS
  <2>2. S16 \subseteq Int
    BY DEF S16
  <2> QED
    BY <2>1, <2>2, CaseTypes, SameCast
<1>5. fa_mul_sat_q8_8(ToS16(dp \div 256), c.scale) \in Int
  <2>1. S16 \subseteq Int
    BY DEF S16
  <2> QED
    BY <1>4, <2>1, SameScaling DEF fa_mul_sat_q8_8
<1> QED
  BY <1>2, <1>3, <1>4, <1>5 DEF CoreScore

\* A row starts in one of its states.
LEMMA FreshIsState ==
  ASSUME NEW c \in CoreCases
  PROVE  CoreFresh(c) \in CoreStates(c)
<1>1. c.neg_large \in Int
  BY CaseTypes
<1>2. [d \in CoreDims(c) |-> 0] \in [CoreDims(c) -> Int]
  OBVIOUS
<1> QED
  BY <1>1, <1>2 DEF CoreFresh, CoreStates

\* Every row has these states.
LEMMA CoreRowExists ==
  ASSUME NEW c \in CoreCases, NEW i \in 0 .. c.SEQ_LEN - 1
  PROVE  IsCoreRow(c, i, CoreRow(c, i))
<1>1. PICK N \in Nat : N = c.SEQ_LEN
  BY CaseTypes
<1>2. PICK V : V = CoreStates(c)
  OBVIOUS
<1>3. PICK base \in V : base = CoreFresh(c)
  BY <1>2, FreshIsState
<1>4. PICK step : step = [at \in (1 .. N) \X V |->
                            KeyTaken(c, at[2], CoreScore(c, i, at[1] - 1), c.v[at[1] - 1])]
  OBVIOUS
<1>5. \A n \in 1 .. N, r \in V : step[<<n, r>>] = KeyTaken(c, r, CoreScore(c, i, n - 1), c.v[n - 1])
  BY <1>4
<1>6. \A n \in 1 .. N, r \in V : KeyTaken(c, r, CoreScore(c, i, n - 1), c.v[n - 1]) \in V
  <2> SUFFICES ASSUME NEW n \in 1 .. N, NEW r \in V
               PROVE  KeyTaken(c, r, CoreScore(c, i, n - 1), c.v[n - 1]) \in V
    OBVIOUS
  <2>1. n - 1 \in 0 .. c.SEQ_LEN - 1
    BY <1>1
  <2>2. CoreScore(c, i, n - 1) \in Int /\ c.v[n - 1] \in [CoreDims(c) -> Int]
    BY <2>1, ScoreIsNumber, CaseTypes
  <2> QED
    BY <1>2, <2>2, SameKeyTaken
<1>7. StaysIn(step, 1 .. N, V)
  BY <1>5, <1>6 DEF StaysIn
<1>8. PICK f : /\ f \in [0 .. N -> V] /\ f[0] = base
               /\ \A n \in 1 .. N : f[n] = step[<<n, f[n - 1]>>]
  BY <1>7, RecurrenceExists
<1>9. \A n \in 1 .. N : f[n] = KeyTaken(c, f[n - 1], CoreScore(c, i, n - 1), c.v[n - 1])
  <2> SUFFICES ASSUME NEW n \in 1 .. N
               PROVE  f[n] = KeyTaken(c, f[n - 1], CoreScore(c, i, n - 1), c.v[n - 1])
    OBVIOUS
  <2>1. f[n - 1] \in V
    BY <1>8
  <2> QED
    BY <1>5, <1>8, <2>1
<1>10. IsCoreRow(c, i, f)
  BY <1>1, <1>2, <1>3, <1>8, <1>9 DEF IsCoreRow
<1> QED
  BY <1>10 DEF CoreRow

-----------------------------------------------------------------------------
(* Where everything of a batch is after n edges.                            *)

\* The sums of the chunk of a place, and the dot products it completes.
SumsOf(B, p) ==
  [r \in Pair |-> ChunkDot(B.c, Query(B, SlotIn(B, p), r), KeyNo(B, KeyIn(B, p)), ChunkIn(B, p))]
DotsOf(B, p) == [r \in Pair |-> CoreDot(B.c, Query(B, SlotIn(B, p), r), KeyNo(B, KeyIn(B, p)))]

\* A place in the slice and in the tags, and what is made of it.
SliceOf(B, p) == IF InBatch(B, p) THEN [valid |-> TRUE, sums |-> SumsOf(B, p)] ELSE Empty
TagOf(B, p) ==
  [slot |-> SlotIn(B, p), kj |-> KeyIn(B, p), chunk_last |-> ChunkIn(B, p) = Chunks(B.c) - 1]
InPlace(B, p, sums) == [valid |-> TRUE, slot |-> SlotIn(B, p), kj |-> KeyIn(B, p), sums |-> sums]
FirstOf(B, p) ==
  IF InBatch(B, p) /\ ChunkIn(B, p) # Chunks(B.c) - 1 THEN InPlace(B, p, SumsOf(B, p)) ELSE Empty
ProductOf(B, p) == IF Completes(B, p) THEN InPlace(B, p, DotsOf(B, p)) ELSE Empty

SliceCourse(B, n) ==
  /\ Pipe(qk_slice) /\ Pipe(qk_tag)
  /\ \A i \in 1 .. 8 : /\ qk_slice[i] = SliceOf(B, n - i)
                       /\ InBatch(B, n - i) => qk_tag[i] = TagOf(B, n - i)

\* The sums that are issued are those of the place.
LEMMA IssuedSums ==
  ASSUME NEW B, IsBatch(B), AtBatch(B), NEW n, InBatch(B, n), qk_issue = IssueOf(B, n)
  PROVE  PartialSums = SumsOf(B, n)
<1>1. qk_issue.slot = SlotIn(B, n) /\ qk_issue.kj = KeyIn(B, n) /\ qk_issue.chunk = ChunkIn(B, n)
  BY DEF InBatch, IssueOf
<1>2. PICK slot, kj, chunk : slot = SlotIn(B, n) /\ kj = KeyIn(B, n) /\ chunk = ChunkIn(B, n)
  OBVIOUS
<1>3. PartialSums = [r \in Pair |-> DotOver(QRow(comp_batch_base + qk_issue.slot * ROW_PAR + r), KRow(qk_issue.kj),
                                            qk_issue.chunk * DpLanes(core)
                                              .. (qk_issue.chunk + 1) * DpLanes(core) - 1)]
  BY DEF PartialSums, DotOver
<1>4. PartialSums = [r \in Pair |-> DotOver(QRow(FirstRow(B, slot) + r), KRow(kj), LanesOf(B.c, chunk))]
  BY <1>1, <1>2, <1>3 DEF AtBatch, FirstRow, LanesOf
<1>5. \A r : QRow(FirstRow(B, slot) + r) = B.c.q[Query(B, slot, r)]
  BY DEF AtBatch, QRow, Query
<1>6. KRow(kj) = B.c.k[KeyNo(B, kj)]
  BY DEF AtBatch, KRow, KeyNo
<1> QED
  BY <1>2, <1>4, <1>5, <1>6 DEF SumsOf, ChunkDot

\* At each edge the sums and the tags move one register on, side by side.
LEMMA SliceOnward ==
  ASSUME NEW B, IsBatch(B), AtBatch(B), cs = "C_DP_RUN", NEW n \in Nat, qk_issue = IssueOf(B, n),
         SliceCourse(B, n), SliceClock, TagClock
  PROVE  SliceCourse(B, n + 1)'
<1>1. PICK entry, tag : /\ entry = SliceOf(B, n) /\ (InBatch(B, n) => tag = TagOf(B, n))
                        /\ qk_slice' = Shifted(qk_slice, entry) /\ qk_tag' = Shifted(qk_tag, tag)
  <2>1. PICK tag : /\ tag = [slot |-> qk_issue.slot, kj |-> qk_issue.kj,
                             chunk_last |-> qk_issue.chunk = DP_CHUNKS - 1]
                   /\ qk_tag' = Shifted(qk_tag, tag)
    BY DEF TagClock
  <2>2. DP_CHUNKS = Chunks(B.c)
    BY DEF AtBatch, DP_CHUNKS, Chunks
  <2>3. CASE InBatch(B, n)
    <3>1. /\ qk_issue.slot = SlotIn(B, n) /\ qk_issue.kj = KeyIn(B, n) /\ qk_issue.chunk = ChunkIn(B, n)
          /\ ~qk_issue.done
      BY <2>3 DEF InBatch, IssueOf
    <3>2. tag = TagOf(B, n)
      BY <2>1, <2>2, <3>1 DEF TagOf
    <3>3. PartialSums = SumsOf(B, n)
      BY <2>3, IssuedSums
    <3>4. qk_slice' = Shifted(qk_slice, [valid |-> TRUE, sums |-> PartialSums])
      BY <3>1 DEF SliceClock, qk_issue_valid
    <3> QED
      BY <2>1, <2>3, <3>2, <3>3, <3>4 DEF SliceOf
  <2>4. CASE ~InBatch(B, n)
    <3>1. qk_issue.done
      BY <2>4, PlaceShape DEF InBatch, IssueOf
    <3>2. qk_slice' = Shifted(qk_slice, Empty)
      BY <3>1 DEF SliceClock, qk_issue_valid
    <3> QED
      BY <2>1, <2>4, <3>2 DEF SliceOf
  <2> QED
    BY <2>3, <2>4
<1>2. PICK slice, tags : slice = qk_slice' /\ tags = qk_tag'
  OBVIOUS
<1>3. Pipe(slice) /\ slice[1] = entry /\ \A i \in 1 .. 7 : slice[i + 1] = qk_slice[i]
  BY <1>1, <1>2, ShiftedPipe DEF SliceCourse
<1>4. Pipe(tags) /\ tags[1] = tag /\ \A i \in 1 .. 7 : tags[i + 1] = qk_tag[i]
  BY <1>1, <1>2, ShiftedPipe DEF SliceCourse
<1>5. ASSUME NEW i \in 1 .. 8
      PROVE  /\ slice[i] = SliceOf(B, n + 1 - i)
             /\ InBatch(B, n + 1 - i) => tags[i] = TagOf(B, n + 1 - i)
  <2>1. CASE i = 1
    <3>1. n + 1 - i = n
      BY <2>1
    <3> QED
      BY <1>1, <1>3, <1>4, <2>1, <3>1
  <2>2. CASE i # 1
    <3>1. PICK j \in 1 .. 7 : i = j + 1
      <4>1. i - 1 \in 1 .. 7 /\ i = (i - 1) + 1
        BY <2>2
      <4> QED
        BY <4>1
    <3>2. n + 1 - i = n - j /\ j \in 1 .. 8
      BY <3>1
    <3>3. qk_slice[j] = SliceOf(B, n - j) /\ (InBatch(B, n - j) => qk_tag[j] = TagOf(B, n - j))
      BY <3>2 DEF SliceCourse
    <3> QED
      BY <1>3, <1>4, <3>1, <3>2, <3>3
  <2> QED
    BY <2>1, <2>2
<1> QED
  BY <1>2, <1>3, <1>4, <1>5 DEF SliceCourse

\* The halves of a dot product have neighbouring places.
LEMMA PlacesBack ==
  ASSUME NEW B, IsBatch(B), NEW p \in Int
  PROVE  /\ Chunks(B.c) = 1 /\ InBatch(B, p) => ChunkIn(B, p) = 0
         /\ InBatch(B, p) /\ ChunkIn(B, p) # Chunks(B.c) - 1 => ChunkIn(B, p) = 0 /\ Chunks(B.c) = 2
         /\ InBatch(B, p) /\ ChunkIn(B, p) = 0 /\ InBatch(B, p - 1) => ChunkIn(B, p - 1) = Chunks(B.c) - 1
         /\ ~InBatch(B, p) /\ InBatch(B, p - 1) => ChunkIn(B, p - 1) = Chunks(B.c) - 1
         /\ InBatch(B, p) /\ Chunks(B.c) = 2 /\ ChunkIn(B, p) = 1 =>
              /\ InBatch(B, p - 1) /\ ChunkIn(B, p - 1) = 0
              /\ SlotIn(B, p - 1) = SlotIn(B, p) /\ KeyIn(B, p - 1) = KeyIn(B, p)
<1>1. PICK k \in Nat : k = B.c.TK
  BY PlaceShape
<1>2. CASE Chunks(B.c) = 1
  BY <1>2 DEF ChunkIn
<1>3. CASE Chunks(B.c) = 2
  <2>1. Issued(B) = 8 * k
    BY <1>1, <1>3, PlaceShape
  <2>2. ScoreNumber(B, p) = p \div 2 /\ ScoreNumber(B, p - 1) = (p - 1) \div 2
        /\ ChunkIn(B, p) = p % 2 /\ ChunkIn(B, p - 1) = (p - 1) % 2
    BY <1>3 DEF ScoreNumber, ChunkIn
  <2>3. p % 2 = 1 => p \div 2 = (p - 1) \div 2 /\ (p - 1) % 2 = 0
    OBVIOUS
  <2>4. p % 2 # 1 => p % 2 = 0 /\ (p - 1) % 2 = 1
    OBVIOUS
  <2>5. p % 2 = 1 => SlotIn(B, p - 1) = SlotIn(B, p) /\ KeyIn(B, p - 1) = KeyIn(B, p)
    BY <2>2, <2>3 DEF SlotIn, KeyIn
  <2> QED
    BY <1>3, <2>1, <2>2, <2>3, <2>4, <2>5 DEF InBatch
<1> QED
  BY <1>2, <1>3, PlaceShape

\* Two chunks are put together in order: what is collected is the dot product of the place.
LEMMA CollectOnward ==
  ASSUME NEW B, IsBatch(B), NEW n \in Int, SliceCourse(B, n),
         ret_first = FirstOf(B, n - 9), score_issue = ProductOf(B, n - 9), Collect
  PROVE  ret_first' = FirstOf(B, n - 8) /\ score_issue' = ProductOf(B, n - 8)
<1>1. PICK p \in Int : p = n - 8 /\ n - 9 = p - 1
  OBVIOUS
<1>2. PICK part, tag : part = qk_slice[8] /\ tag = qk_tag[8]
  OBVIOUS
<1>3. part = SliceOf(B, p) /\ (InBatch(B, p) => tag = TagOf(B, p))
  BY <1>1, <1>2 DEF SliceCourse
<1>4. PICK got : got = [valid |-> TRUE, slot |-> tag.slot, kj |-> tag.kj, sums |-> part.sums]
  OBVIOUS
<1>5. IF ~part.valid THEN ret_first' = ret_first /\ score_issue' = Empty
      ELSE IF ret_first.valid
      THEN /\ ret_first' = Empty
           /\ score_issue' = [ret_first EXCEPT !.sums = [r \in Pair |-> @[r] + part.sums[r]]]
      ELSE IF tag.chunk_last
      THEN ret_first' = ret_first /\ score_issue' = got
      ELSE ret_first' = got /\ score_issue' = Empty
  BY <1>2, <1>4 DEF Collect, QK_STAGES, QK_LAT
<1>6. ret_first = FirstOf(B, p - 1)
  BY <1>1
<1>7. CASE ~InBatch(B, p)
  <2>1. ~part.valid
    BY <1>3, <1>7 DEF SliceOf, Empty
  <2>2. FirstOf(B, p - 1) = Empty
    BY <1>7, PlacesBack DEF FirstOf
  <2>3. FirstOf(B, p) = Empty /\ ProductOf(B, p) = Empty
    BY <1>7 DEF FirstOf, ProductOf, Completes
  <2> QED
    BY <1>1, <1>5, <1>6, <2>1, <2>2, <2>3
<1>8. CASE InBatch(B, p) /\ ChunkIn(B, p) = 0
  <2>1. part.valid /\ part.sums = SumsOf(B, p) /\ tag = TagOf(B, p)
    BY <1>3, <1>8 DEF SliceOf
  <2>2. got = InPlace(B, p, SumsOf(B, p)) /\ (tag.chunk_last <=> 0 = Chunks(B.c) - 1)
    BY <1>4, <1>8, <2>1 DEF TagOf, InPlace
  <2>3. ret_first = Empty
    BY <1>6, <1>8, PlacesBack DEF FirstOf
  <2>4. ~ret_first.valid
    BY <2>3 DEF Empty
  <2>5. CASE Chunks(B.c) = 1
    <3>1. Completes(B, p) /\ tag.chunk_last
      BY <1>8, <2>2, <2>5 DEF Completes
    <3>2. SumsOf(B, p) = DotsOf(B, p)
      BY <1>8, <2>5 DEF SumsOf, DotsOf, CoreDot
    <3>3. FirstOf(B, p) = Empty
      BY <1>8, <2>5 DEF FirstOf
    <3> QED
      BY <1>1, <1>5, <2>1, <2>2, <2>3, <2>4, <3>1, <3>2, <3>3 DEF ProductOf
  <2>6. CASE Chunks(B.c) = 2
    <3>1. ~Completes(B, p) /\ ~tag.chunk_last
      BY <1>8, <2>2, <2>6 DEF Completes
    <3>2. FirstOf(B, p) = InPlace(B, p, SumsOf(B, p))
      BY <1>8, <2>6 DEF FirstOf
    <3> QED
      BY <1>1, <1>5, <2>1, <2>2, <2>4, <3>1, <3>2 DEF ProductOf
  <2> QED
    BY <2>5, <2>6, PlaceShape
<1>9. CASE InBatch(B, p) /\ ChunkIn(B, p) # 0
  <2>1. part.valid /\ part.sums = SumsOf(B, p)
    BY <1>3, <1>9 DEF SliceOf
  <2>2. ChunkIn(B, p) = 1 /\ Chunks(B.c) = 2
    BY <1>9, PlaceIn, PlaceShape, PlacesBack
  <2>3. /\ InBatch(B, p - 1) /\ ChunkIn(B, p - 1) = 0
        /\ SlotIn(B, p - 1) = SlotIn(B, p) /\ KeyIn(B, p - 1) = KeyIn(B, p)
    BY <1>9, <2>2, PlacesBack
  <2>4. PICK first, slot, kj : first = SumsOf(B, p - 1) /\ slot = SlotIn(B, p) /\ kj = KeyIn(B, p)
    OBVIOUS
  <2>5. ret_first = [valid |-> TRUE, slot |-> slot, kj |-> kj, sums |-> first]
    <3>1. FirstOf(B, p - 1) = InPlace(B, p - 1, first)
      BY <2>2, <2>3, <2>4 DEF FirstOf
    <3>2. InPlace(B, p - 1, first) = [valid |-> TRUE, slot |-> slot, kj |-> kj, sums |-> first]
      BY <2>3, <2>4 DEF InPlace
    <3> QED
      BY <1>6, <3>1, <3>2
  <2>6. PICK sums : sums = [r \in Pair |-> first[r] + part.sums[r]]
    OBVIOUS
  <2>7. sums = DotsOf(B, p)
    BY <2>1, <2>2, <2>3, <2>4, <2>6 DEF SumsOf, DotsOf, CoreDot
  <2>8. ret_first.valid /\ ret_first.sums = first
    BY <2>5
  <2>9. ret_first' = Empty /\ score_issue' = [ret_first EXCEPT !.sums = sums]
    BY <1>5, <2>1, <2>6, <2>8
  <2>10. score_issue' = [valid |-> TRUE, slot |-> slot, kj |-> kj, sums |-> sums]
    <3>1. PICK next : next = score_issue' /\ next = [ret_first EXCEPT !.sums = sums]
      BY <2>9
    <3>2. PICK old : old = ret_first
      OBVIOUS
    <3>3. old = [valid |-> TRUE, slot |-> slot, kj |-> kj, sums |-> first] /\ next = [old EXCEPT !.sums = sums]
      BY <2>5, <3>1, <3>2
    <3>4. next = [valid |-> TRUE, slot |-> slot, kj |-> kj, sums |-> sums]
      BY ONLY <3>3
    <3> QED
      BY <3>1, <3>4
  <2>11. ProductOf(B, p) = InPlace(B, p, DotsOf(B, p)) /\ FirstOf(B, p) = Empty
    BY <1>9, <2>2 DEF ProductOf, FirstOf, Completes
  <2> QED
    BY <1>1, <2>4, <2>7, <2>9, <2>10, <2>11 DEF InPlace
<1> QED
  BY <1>7, <1>8, <1>9

\* The rows of a pair and a key in the stages of the softmax.
StageRow(c, s, i, j) ==
  IF s = 0 THEN [score |-> CoreScore(c, i, j), prev |-> CoreRow(c, i)[j]]
  ELSE IF s = 1 THEN Stage1(CoreRow(c, i)[j], CoreScore(c, i, j))
  ELSE IF s = 2 THEN Stage2(CoreRow(c, i)[j], CoreScore(c, i, j))
  ELSE IF s = 3 THEN Stage3(c, CoreRow(c, i)[j], CoreScore(c, i, j), c.v[j])
  ELSE CoreRow(c, i)[j + 1]

PairRows(B, s, p) ==
  [r \in Pair |-> StageRow(B.c, s, Query(B, SlotIn(B, p), r), KeyNo(B, KeyIn(B, p)))]

StageEntry(B, s, p) ==
  IF Completes(B, p)
  THEN [valid |-> TRUE, ctx |-> SlotIn(B, p), row_end |-> KeyIn(B, p) = B.c.TK - 1,
        value |-> B.c.v[KeyNo(B, KeyIn(B, p))], row |-> PairRows(B, s, p)]
  ELSE Empty

\* A place's rows and key are among those of the core.
LEMMA PlaceRows ==
  ASSUME NEW B, IsBatch(B), NEW p, InBatch(B, p), NEW r \in Pair
  PROVE  /\ Query(B, SlotIn(B, p), r) \in 0 .. B.c.SEQ_LEN - 1
         /\ KeyNo(B, KeyIn(B, p)) \in 0 .. B.c.SEQ_LEN - 1
         /\ FirstRow(B, SlotIn(B, p)) + r \in 0 .. B.c.TQ - 1
<1>1. PICK slot \in 0 .. 3, kj \in Nat : slot = SlotIn(B, p) /\ kj = KeyIn(B, p) /\ kj <= B.c.TK - 1
  BY PlaceIn, PlaceShape
<1>2. PICK Q \in Nat, K \in Nat, S \in Nat : Q = B.c.TQ /\ K = B.c.TK /\ S = B.c.SEQ_LEN
  BY PlaceShape
<1>3. PICK q \in Nat, k \in Nat, b \in Nat : q = B.q /\ k = B.k /\ b = B.b
  BY DEF IsBatch
<1>4. (q + 1) * Q <= S /\ (k + 1) * K <= S /\ b + 8 <= Q
  BY <1>2, <1>3 DEF IsBatch, QPAIR_BATCH_ROWS, ROW_PAR, SOFTMAX_CTXS
<1>5. PICK x \in Nat, y \in Nat : x = q * Q /\ y = k * K /\ x + Q <= S /\ y + K <= S
  BY <1>4
<1>6. r \in {0, 1}
  BY DEF Pair, ROW_PAR
<1>7. FirstRow(B, SlotIn(B, p)) = b + slot * 2
  BY <1>1, <1>3 DEF FirstRow, ROW_PAR
<1>8. Query(B, SlotIn(B, p), r) = x + ((b + slot * 2) + r) /\ KeyNo(B, KeyIn(B, p)) = y + kj
  BY <1>1, <1>2, <1>3, <1>5, <1>7 DEF Query, KeyNo
<1> QED
  BY <1>1, <1>2, <1>4, <1>5, <1>6, <1>7, <1>8

\* One stage after the other.
LEMMA StagesOnward ==
  ASSUME NEW c \in CoreCases, NEW i \in 0 .. c.SEQ_LEN - 1, NEW j \in 0 .. c.SEQ_LEN - 1
  PROVE  /\ StageRow(c, 1, i, j) = Compared(StageRow(c, 0, i, j))
         /\ StageRow(c, 2, i, j) = Exponentiated(StageRow(c, 1, i, j))
         /\ StageRow(c, 3, i, j) = MultipliedIn(c, StageRow(c, 2, i, j), c.v[j])
         /\ StageRow(c, 4, i, j) = SummedIn(c, StageRow(c, 3, i, j))
<1>1. StageRow(c, 1, i, j) = Compared(StageRow(c, 0, i, j))
  BY DEF StageRow, Stage1
<1>2. StageRow(c, 2, i, j) = Exponentiated(StageRow(c, 1, i, j))
  BY DEF StageRow, Stage2
<1>3. StageRow(c, 3, i, j) = MultipliedIn(c, StageRow(c, 2, i, j), c.v[j])
  BY DEF StageRow, Stage3
<1>4. StageRow(c, 4, i, j) = SummedIn(c, StageRow(c, 3, i, j))
  <2>1. IsCoreRow(c, i, CoreRow(c, i))
    BY CoreRowExists
  <2>2. PICK n \in 1 .. c.SEQ_LEN : n = j + 1 /\ n - 1 = j
    BY CaseTypes
  <2>3. CoreRow(c, i)[n] = KeyTaken(c, CoreRow(c, i)[n - 1], CoreScore(c, i, n - 1), c.v[n - 1])
    BY <2>1 DEF IsCoreRow
  <2>4. CoreRow(c, i)[n] = KeyTaken(c, CoreRow(c, i)[j], CoreScore(c, i, j), c.v[j])
    BY <2>2, <2>3
  <2>5. StageRow(c, 4, i, j) = CoreRow(c, i)[n]
    BY <2>2 DEF StageRow
  <2>6. StageRow(c, 3, i, j) = Stage3(c, CoreRow(c, i)[j], CoreScore(c, i, j), c.v[j])
    BY DEF StageRow
  <2> QED
    BY <2>4, <2>5, <2>6 DEF KeyTaken
<1> QED
  BY <1>1, <1>2, <1>3, <1>4

\* An entry whose rows have gone through a stage.
Through(old, next, row) == next = IF old.valid THEN [old EXCEPT !.row = row] ELSE Empty

\* An entry of the softmax that moves on a stage is that of the same place.
LEMMA EntryOnward ==
  ASSUME NEW B, NEW p, NEW s, NEW t, NEW old, old = StageEntry(B, s, p), NEW row,
         Completes(B, p) => row = PairRows(B, t, p), NEW next, Through(old, next, row)
  PROVE  next = StageEntry(B, t, p)
<1>1. CASE Completes(B, p)
  <2>1. PICK ctx, end, value, before : /\ ctx = SlotIn(B, p) /\ end = (KeyIn(B, p) = B.c.TK - 1)
                                     /\ value = B.c.v[KeyNo(B, KeyIn(B, p))] /\ before = PairRows(B, s, p)
    OBVIOUS
  <2>2. old = [valid |-> TRUE, ctx |-> ctx, row_end |-> end, value |-> value, row |-> before]
    BY <1>1, <2>1 DEF StageEntry
  <2>3. StageEntry(B, t, p) = [valid |-> TRUE, ctx |-> ctx, row_end |-> end, value |-> value, row |-> row]
    BY <1>1, <2>1 DEF StageEntry
  <2>4. old.valid
    BY <2>2
  <2>5. next = [old EXCEPT !.row = row]
    BY <2>4 DEF Through
  <2>6. next = [valid |-> TRUE, ctx |-> ctx, row_end |-> end, value |-> value, row |-> row]
    BY ONLY <2>2, <2>5
  <2> QED
    BY <2>3, <2>6
<1>2. CASE ~Completes(B, p)
  BY <1>2 DEF StageEntry, Empty, Through
<1> QED
  BY <1>1, <1>2

\* What is known of an entry.
LEMMA EntryFields ==
  ASSUME NEW B, NEW s, NEW p, NEW e, e = StageEntry(B, s, p)
  PROVE  /\ e.valid <=> Completes(B, p)
         /\ Completes(B, p) =>
              /\ e.ctx = SlotIn(B, p) /\ (e.row_end <=> KeyIn(B, p) = B.c.TK - 1)
              /\ e.value = B.c.v[KeyNo(B, KeyIn(B, p))] /\ e.row = PairRows(B, s, p)
<1>1. CASE Completes(B, p)
  <2>1. PICK ctx, end, value, before : /\ ctx = SlotIn(B, p) /\ end = (KeyIn(B, p) = B.c.TK - 1)
                                     /\ value = B.c.v[KeyNo(B, KeyIn(B, p))] /\ before = PairRows(B, s, p)
    OBVIOUS
  <2>2. e = [valid |-> TRUE, ctx |-> ctx, row_end |-> end, value |-> value, row |-> before]
    BY <1>1, <2>1 DEF StageEntry
  <2>3. e.valid = TRUE /\ e.ctx = ctx /\ e.row_end = end /\ e.value = value /\ e.row = before
    BY <2>2
  <2> QED
    BY <1>1, <2>1, <2>3
<1>2. CASE ~Completes(B, p)
  BY <1>2 DEF StageEntry, Empty
<1> QED
  BY <1>1, <1>2

EntriesAt(B, n) == sm = [s \in 0 .. 4 |-> StageEntry(B, s, n - 10 - s)]

\* The stages from s1 on.
LEMMA StagesMove ==
  ASSUME NEW B, IsBatch(B), core = B.c, NEW n \in Int, EntriesAt(B, n), SoftmaxClock
  PROVE  \A s \in 1 .. 4 : sm'[s] = StageEntry(B, s, n + 1 - 10 - s)
<1>1. \A s \in 0 .. 4 : sm[s] = StageEntry(B, s, n - 10 - s)
  BY DEF EntriesAt
<1>2. B.c \in CoreCases
  BY DEF IsBatch
<1>3. ASSUME NEW p, Completes(B, p), NEW r \in Pair, NEW i, NEW j,
             i = Query(B, SlotIn(B, p), r), j = KeyNo(B, KeyIn(B, p))
      PROVE  /\ StageRow(B.c, 1, i, j) = Compared(StageRow(B.c, 0, i, j))
             /\ StageRow(B.c, 2, i, j) = Exponentiated(StageRow(B.c, 1, i, j))
             /\ StageRow(B.c, 3, i, j) = MultipliedIn(B.c, StageRow(B.c, 2, i, j), B.c.v[j])
             /\ StageRow(B.c, 4, i, j) = SummedIn(B.c, StageRow(B.c, 3, i, j))
  <2>1. i \in 0 .. B.c.SEQ_LEN - 1 /\ j \in 0 .. B.c.SEQ_LEN - 1
    BY <1>3, PlaceRows DEF Completes
  <2> QED
    BY <1>2, <2>1, StagesOnward
<1>4. \A x, v : Multiplied(x, v) = MultipliedIn(B.c, x, v)
  BY DEF Multiplied, MultipliedIn, Elements, CoreDims
<1>5. \A x : Summed(x) = SummedIn(B.c, x)
  BY DEF Summed, SummedIn, Elements, CoreDims
<1>6. sm'[1] = StageEntry(B, 1, n + 1 - 10 - 1)
  <2>1. PICK p \in Int : p = n - 10 - 0 /\ p = n + 1 - 10 - 1
    OBVIOUS
  <2>2. PICK old, next : old = sm[0] /\ next = sm'[1]
    OBVIOUS
  <2>3. PICK row : row = [r \in Pair |-> Compared(old.row[r])]
    OBVIOUS
  <2>4. old = StageEntry(B, 0, p)
    BY <1>1, <2>1, <2>2
  <2>5. Through(old, next, row)
    BY <2>2, <2>3 DEF SoftmaxClock, Through
  <2>6. ASSUME Completes(B, p) PROVE row = PairRows(B, 1, p)
    <3>1. old.row = PairRows(B, 0, p)
      BY <2>4, <2>6, EntryFields
    <3>2. \A r \in Pair : old.row[r] = StageRow(B.c, 0, Query(B, SlotIn(B, p), r), KeyNo(B, KeyIn(B, p)))
      BY <3>1 DEF PairRows
    <3>3. \A r \in Pair : Compared(old.row[r])
                            = StageRow(B.c, 1, Query(B, SlotIn(B, p), r), KeyNo(B, KeyIn(B, p)))
      BY <1>3, <2>6, <3>2
    <3> QED
      BY <2>3, <3>3 DEF PairRows
  <2> QED
    BY <2>1, <2>2, <2>4, <2>5, <2>6, EntryOnward
<1>7. sm'[2] = StageEntry(B, 2, n + 1 - 10 - 2)
  <2>1. PICK p \in Int : p = n - 10 - 1 /\ p = n + 1 - 10 - 2
    OBVIOUS
  <2>2. PICK old, next : old = sm[1] /\ next = sm'[2]
    OBVIOUS
  <2>3. PICK row : row = [r \in Pair |-> Exponentiated(old.row[r])]
    OBVIOUS
  <2>4. old = StageEntry(B, 1, p)
    BY <1>1, <2>1, <2>2
  <2>5. Through(old, next, row)
    BY <2>2, <2>3 DEF SoftmaxClock, Through
  <2>6. ASSUME Completes(B, p) PROVE row = PairRows(B, 2, p)
    <3>1. old.row = PairRows(B, 1, p)
      BY <2>4, <2>6, EntryFields
    <3>2. \A r \in Pair : old.row[r] = StageRow(B.c, 1, Query(B, SlotIn(B, p), r), KeyNo(B, KeyIn(B, p)))
      BY <3>1 DEF PairRows
    <3>3. \A r \in Pair : Exponentiated(old.row[r])
                            = StageRow(B.c, 2, Query(B, SlotIn(B, p), r), KeyNo(B, KeyIn(B, p)))
      BY <1>3, <2>6, <3>2
    <3> QED
      BY <2>3, <3>3 DEF PairRows
  <2> QED
    BY <2>1, <2>2, <2>4, <2>5, <2>6, EntryOnward
<1>8. sm'[3] = StageEntry(B, 3, n + 1 - 10 - 3)
  <2>1. PICK p \in Int : p = n - 10 - 2 /\ p = n + 1 - 10 - 3
    OBVIOUS
  <2>2. PICK old, next : old = sm[2] /\ next = sm'[3]
    OBVIOUS
  <2>3. PICK row : row = [r \in Pair |-> Multiplied(old.row[r], old.value)]
    OBVIOUS
  <2>4. old = StageEntry(B, 2, p)
    BY <1>1, <2>1, <2>2
  <2>5. Through(old, next, row)
    BY <2>2, <2>3 DEF SoftmaxClock, Through
  <2>6. ASSUME Completes(B, p) PROVE row = PairRows(B, 3, p)
    <3>1. old.row = PairRows(B, 2, p) /\ old.value = B.c.v[KeyNo(B, KeyIn(B, p))]
      BY <2>4, <2>6, EntryFields
    <3>2. \A r \in Pair : old.row[r] = StageRow(B.c, 2, Query(B, SlotIn(B, p), r), KeyNo(B, KeyIn(B, p)))
      BY <3>1 DEF PairRows
    <3>3. \A r \in Pair : Multiplied(old.row[r], old.value)
                            = StageRow(B.c, 3, Query(B, SlotIn(B, p), r), KeyNo(B, KeyIn(B, p)))
      BY <1>3, <1>4, <2>6, <3>1, <3>2
    <3> QED
      BY <2>3, <3>3 DEF PairRows
  <2> QED
    BY <2>1, <2>2, <2>4, <2>5, <2>6, EntryOnward
<1>9. sm'[4] = StageEntry(B, 4, n + 1 - 10 - 4)
  <2>1. PICK p \in Int : p = n - 10 - 3 /\ p = n + 1 - 10 - 4
    OBVIOUS
  <2>2. PICK old, next : old = sm[3] /\ next = sm'[4]
    OBVIOUS
  <2>3. PICK row : row = [r \in Pair |-> Summed(old.row[r])]
    OBVIOUS
  <2>4. old = StageEntry(B, 3, p)
    BY <1>1, <2>1, <2>2
  <2>5. Through(old, next, row)
    BY <2>2, <2>3 DEF SoftmaxClock, Through
  <2>6. ASSUME Completes(B, p) PROVE row = PairRows(B, 4, p)
    <3>1. old.row = PairRows(B, 3, p)
      BY <2>4, <2>6, EntryFields
    <3>2. \A r \in Pair : old.row[r] = StageRow(B.c, 3, Query(B, SlotIn(B, p), r), KeyNo(B, KeyIn(B, p)))
      BY <3>1 DEF PairRows
    <3>3. \A r \in Pair : Summed(old.row[r])
                            = StageRow(B.c, 4, Query(B, SlotIn(B, p), r), KeyNo(B, KeyIn(B, p)))
      BY <1>3, <1>5, <2>6, <3>2
    <3> QED
      BY <2>3, <3>3 DEF PairRows
  <2> QED
    BY <2>1, <2>2, <2>4, <2>5, <2>6, EntryOnward
<1>10. ASSUME NEW s \in 1 .. 4 PROVE sm'[s] = StageEntry(B, s, n + 1 - 10 - s)
  <2>1. s = 1 \/ s = 2 \/ s = 3 \/ s = 4
    OBVIOUS
  <2> QED
    BY <1>6, <1>7, <1>8, <1>9, <2>1, Zenon
<1> QED
  BY <1>10

\* Four pairs to a key.
LEMMA Fours ==
  ASSUME NEW x \in Nat
  PROVE  x \div 4 \in Nat /\ x % 4 \in 0 .. 3 /\ x = 4 * (x \div 4) + (x % 4)
OBVIOUS

\* Pairs are counted within a key.
LEMMA FoursBack ==
  ASSUME NEW k \in Nat, NEW s \in 0 .. 3
  PROVE  (4 * k + s) \div 4 = k /\ (4 * k + s) % 4 = s
OBVIOUS

\* Chunks are counted within a pair.
LEMMA Twos ==
  ASSUME NEW x \in Nat
  PROVE  /\ x \div 2 \in Nat /\ x % 2 \in 0 .. 1 /\ x = 2 * (x \div 2) + (x % 2)
         /\ (2 * x + 1) \div 2 = x /\ (2 * x + 1) % 2 = 1
OBVIOUS

\* The place where a pair of rows and a key complete their dot products.
PlaceOf(B, slot, kj) == (4 * kj + slot) * Chunks(B.c) + (Chunks(B.c) - 1)

\* The dot products are completed at these places.
LEMMA CompletesAt ==
  ASSUME NEW B, IsBatch(B), NEW p \in Int, Completes(B, p)
  PROVE  /\ p = PlaceOf(B, SlotIn(B, p), KeyIn(B, p))
         /\ SlotIn(B, p) \in 0 .. 3 /\ KeyIn(B, p) \in 0 .. B.c.TK - 1
<1>1. SlotIn(B, p) \in 0 .. 3 /\ KeyIn(B, p) \in 0 .. B.c.TK - 1
  BY PlaceIn DEF Completes
<1>0. p \in Nat
  BY DEF Completes, InBatch
<1>2. CASE Chunks(B.c) = 1
  <2>1. KeyIn(B, p) = p \div 4 /\ SlotIn(B, p) = p % 4
    BY <1>2 DEF KeyIn, SlotIn, ScoreNumber, SOFTMAX_CTXS
  <2>2. PICK x \in Int, s \in Int : x = p \div 4 /\ s = p % 4 /\ p = 4 * x + s
    BY <1>0, Fours
  <2> QED
    BY <1>1, <1>2, <2>1, <2>2 DEF PlaceOf
<1>3. CASE Chunks(B.c) = 2
  <2>1. PICK y \in Nat : y = p \div 2 /\ p = 2 * y + 1
    <3>1. p % 2 = 1
      BY <1>3 DEF Completes, ChunkIn
    <3> QED
      BY <1>0, <3>1, Twos
  <2>2. KeyIn(B, p) = y \div 4 /\ SlotIn(B, p) = y % 4
    BY <1>3, <2>1 DEF KeyIn, SlotIn, ScoreNumber, SOFTMAX_CTXS
  <2>3. PICK x \in Int, s \in Int : x = y \div 4 /\ s = y % 4 /\ y = 4 * x + s
    BY Fours
  <2>4. PlaceOf(B, s, x) = (4 * x + s) * 2 + 1
    BY <1>3, <2>3 DEF PlaceOf
  <2> QED
    BY <1>1, <2>1, <2>2, <2>3, <2>4
<1> QED
  BY <1>1, <1>2, <1>3, PlaceShape

\* And at each of them one is.
LEMMA CompletesThere ==
  ASSUME NEW B, IsBatch(B), NEW slot \in 0 .. 3, NEW kj \in 0 .. B.c.TK - 1,
         NEW p, p = PlaceOf(B, slot, kj)
  PROVE  p \in Int /\ Completes(B, p) /\ SlotIn(B, p) = slot /\ KeyIn(B, p) = kj
<1>1. PICK k \in Int : k = B.c.TK
  BY PlaceShape
<1>2. kj \in Nat /\ kj <= k - 1
  BY <1>1
<1>3. PICK y \in Nat : y = 4 * kj + slot /\ y \div 4 = kj /\ y % 4 = slot
  BY <1>2, FoursBack
<1>4. 0 <= y /\ y < 4 * k
  BY <1>2, <1>3
<1>5. CASE Chunks(B.c) = 1
  <2>1. p = y /\ Issued(B) = 4 * k
    BY <1>1, <1>3, <1>5, PlaceShape DEF PlaceOf
  <2>2. KeyIn(B, p) = p \div 4 /\ SlotIn(B, p) = p % 4 /\ ChunkIn(B, p) = 0
    BY <1>5 DEF KeyIn, SlotIn, ChunkIn, ScoreNumber, SOFTMAX_CTXS
  <2> QED
    BY <1>3, <1>4, <1>5, <2>1, <2>2 DEF Completes, InBatch
<1>6. CASE Chunks(B.c) = 2
  <2>1. p = 2 * y + 1 /\ Issued(B) = 8 * k
    BY <1>1, <1>3, <1>6, PlaceShape DEF PlaceOf
  <2>2. p \div 2 = y /\ p % 2 = 1
    BY <2>1, Twos
  <2>3. KeyIn(B, p) = y \div 4 /\ SlotIn(B, p) = y % 4 /\ ChunkIn(B, p) = 1
    BY <1>6, <2>2 DEF KeyIn, SlotIn, ChunkIn, ScoreNumber, SOFTMAX_CTXS
  <2> QED
    BY <1>3, <1>4, <1>6, <2>1, <2>3 DEF Completes, InBatch
<1> QED
  BY <1>5, <1>6, PlaceShape

\* Dot products of one pair of rows are a round of the four pairs apart.
LEMMA SlotsApart ==
  ASSUME NEW B, IsBatch(B), NEW p \in Int, NEW e \in Int, Completes(B, p), Completes(B, e),
         p < e, e < p + 4 * Chunks(B.c)
  PROVE  SlotIn(B, p) # SlotIn(B, e)
<1>1. PICK s \in Int, x \in Int, y \in Int :
        s = SlotIn(B, p) /\ x = KeyIn(B, p) /\ y = KeyIn(B, e)
  BY CompletesAt, PlaceShape
<1>2. SUFFICES ASSUME SlotIn(B, e) = s PROVE FALSE
  BY <1>1
<1>3. p = PlaceOf(B, s, x) /\ e = PlaceOf(B, s, y)
  BY <1>1, <1>2, CompletesAt
<1>4. CASE Chunks(B.c) = 1
  BY <1>3, <1>4 DEF PlaceOf
<1>5. CASE Chunks(B.c) = 2
  BY <1>3, <1>5 DEF PlaceOf
<1> QED
  BY <1>4, <1>5, PlaceShape

\* The key before, of the same pair of rows.
LEMMA PreviousKey ==
  ASSUME NEW B, IsBatch(B), NEW p \in Int, Completes(B, p), KeyIn(B, p) # 0,
         NEW e \in Int, e = p - 4 * Chunks(B.c)
  PROVE  Completes(B, e) /\ SlotIn(B, e) = SlotIn(B, p) /\ KeyIn(B, e) = KeyIn(B, p) - 1
<1>1. PICK k \in Int, s \in 0 .. 3, x \in Int :
         /\ k = B.c.TK /\ s = SlotIn(B, p) /\ x = KeyIn(B, p) /\ p = PlaceOf(B, s, x)
         /\ 0 <= x /\ x <= k - 1
  <2>1. PICK k \in Int : k = B.c.TK
    BY PlaceShape
  <2> QED
    BY <2>1, CompletesAt
<1>2. x - 1 \in 0 .. k - 1
  BY <1>1
<1>3. e = PlaceOf(B, s, x - 1)
  <2>1. CASE Chunks(B.c) = 1
    BY <1>1, <2>1 DEF PlaceOf
  <2>2. CASE Chunks(B.c) = 2
    BY <1>1, <2>2 DEF PlaceOf
  <2> QED
    BY <2>1, <2>2, PlaceShape
<1> QED
  BY <1>1, <1>2, <1>3, CompletesThere

\* The states of the four pairs, once they are written.
KnownStates(B, n) ==
  /\ sm_state = [ctx \in 0 .. 3 |-> sm_state[ctx]]
  /\ \A p \in Int : Completes(B, p) /\ p <= n - 15 /\ n - 15 < p + 4 * Chunks(B.c) =>
                      sm_state[SlotIn(B, p)] = PairRows(B, 4, p)

\* A state that leaves the softmax is written to its pair, before the pair's next-but-three key reads it.
LEMMA StatesOnward ==
  ASSUME NEW B, IsBatch(B), NEW n \in Int, EntriesAt(B, n), KnownStates(B, n), SoftmaxClock
  PROVE  KnownStates(B, n + 1)'
<1>1. PICK e, last : e \in Int /\ e = n - 14 /\ last = sm[4] /\ last = StageEntry(B, 4, e)
  <2>1. sm[4] = StageEntry(B, 4, n - 10 - 4)
    BY DEF EntriesAt
  <2>2. PICK e \in Int : e = n - 14 /\ e = n - 10 - 4
    OBVIOUS
  <2> QED
    BY <2>1, <2>2
<1>2. sm_state' = IF last.valid THEN [sm_state EXCEPT ![last.ctx] = last.row] ELSE sm_state
  BY <1>1 DEF SoftmaxClock
<1>3. PICK old, new : old = sm_state /\ new = sm_state'
  OBVIOUS
<1>4. old = [ctx \in 0 .. 3 |-> old[ctx]]
  BY <1>3 DEF KnownStates
<1>5. new = IF last.valid THEN [old EXCEPT ![last.ctx] = last.row] ELSE old
  BY <1>2, <1>3
<1>6. PICK C \in Int : C = Chunks(B.c) /\ C >= 1
  BY PlaceShape
<1>7. ASSUME NEW p \in Int, Completes(B, p), p <= n - 15, n - 15 < p + 4 * C
      PROVE  old[SlotIn(B, p)] = PairRows(B, 4, p)
  BY <1>3, <1>6, <1>7 DEF KnownStates
<1>8. CASE ~Completes(B, e)
  <2>1. new = old
    BY <1>1, <1>5, <1>8, EntryFields
  <2>2. ASSUME NEW p \in Int, Completes(B, p), p <= (n + 1) - 15, (n + 1) - 15 < p + 4 * C
        PROVE  new[SlotIn(B, p)] = PairRows(B, 4, p)
    <3>1. p # e
      BY <1>8, <2>2
    <3>2. p <= n - 15 /\ n - 15 < p + 4 * C
      BY <1>1, <2>2, <3>1
    <3> QED
      BY <1>7, <2>1, <2>2, <3>2
  <2> QED
    BY <1>3, <1>4, <1>6, <2>1, <2>2 DEF KnownStates
<1>9. CASE Completes(B, e)
  <2>1. new = [old EXCEPT ![SlotIn(B, e)] = PairRows(B, 4, e)]
    <3>1. last.valid /\ last.ctx = SlotIn(B, e) /\ last.row = PairRows(B, 4, e)
      BY <1>1, <1>9, EntryFields
    <3>2. PICK slot, row : slot = SlotIn(B, e) /\ row = PairRows(B, 4, e)
      OBVIOUS
    <3>3. new = [old EXCEPT ![slot] = row]
      BY ONLY <1>5, <3>1, <3>2
    <3> QED
      BY <3>2, <3>3
  <2>2. /\ new = [ctx \in 0 .. 3 |-> new[ctx]]
        /\ \A ctx \in 0 .. 3 :
             new[ctx] = IF ctx = SlotIn(B, e) THEN PairRows(B, 4, e) ELSE old[ctx]
    BY <1>4, <2>1
  <2>3. ASSUME NEW p \in Int, Completes(B, p), p <= (n + 1) - 15, (n + 1) - 15 < p + 4 * C
        PROVE  new[SlotIn(B, p)] = PairRows(B, 4, p)
    <3>1. SlotIn(B, p) \in 0 .. 3
      BY <2>3, PlaceIn DEF Completes
    <3>2. CASE p = e
      BY <2>2, <3>1, <3>2
    <3>3. CASE p # e
      <4>1. p <= n - 15 /\ n - 15 < p + 4 * C /\ p < e /\ e < p + 4 * C
        BY <1>1, <2>3, <3>3
      <4>2. SlotIn(B, p) # SlotIn(B, e)
        BY <1>1, <1>6, <1>9, <2>3, <4>1, SlotsApart
      <4> QED
        BY <1>7, <2>2, <2>3, <3>1, <4>1, <4>2
    <3> QED
      BY <3>2, <3>3
  <2> QED
    BY <1>3, <1>6, <2>2, <2>3 DEF KnownStates
<1> QED
  BY <1>8, <1>9

\* What is forwarded is the state after the key before.
LEMMA ForwardedState ==
  ASSUME NEW B, IsBatch(B), core = B.c, NEW n \in Int, EntriesAt(B, n), KnownStates(B, n),
         NEW p \in Int, p = n - 9, Completes(B, p), KeyIn(B, p) # 0, NEW r \in Pair
  PROVE  Forwarded(SlotIn(B, p), r)
           = CoreRow(B.c, Query(B, SlotIn(B, p), r))[KeyNo(B, KeyIn(B, p))]
<1>1. PICK C \in Int : C = Chunks(B.c) /\ (C = 1 \/ C = 2)
  BY PlaceShape
<1>2. PICK e \in Int : e = p - 4 * C
  OBVIOUS
<1>3. Completes(B, e) /\ SlotIn(B, e) = SlotIn(B, p) /\ KeyIn(B, e) = KeyIn(B, p) - 1
  BY <1>1, <1>2, PreviousKey
<1>4. PICK s3, s4 : s3 = sm[3] /\ s4 = sm[4] /\ s3 = StageEntry(B, 3, p - 4) /\ s4 = StageEntry(B, 4, p - 5)
  <2>1. sm[3] = StageEntry(B, 3, n - 10 - 3) /\ sm[4] = StageEntry(B, 4, n - 10 - 4)
    BY DEF EntriesAt
  <2>2. n - 10 - 3 = p - 4 /\ n - 10 - 4 = p - 5
    OBVIOUS
  <2> QED
    BY <2>1, <2>2
<1>5. PICK slot : slot = SlotIn(B, p)
  OBVIOUS
<1>6. PICK i, j : i = Query(B, slot, r) /\ j = KeyNo(B, KeyIn(B, e))
  OBVIOUS
<1>7. B.c \in CoreCases /\ i \in 0 .. B.c.SEQ_LEN - 1 /\ j \in 0 .. B.c.SEQ_LEN - 1
  BY <1>3, <1>5, <1>6, PlaceRows DEF Completes, IsBatch
<1>8. KeyNo(B, KeyIn(B, p)) = j + 1
  <2>1. KeyIn(B, p) \in Int /\ B.k * B.c.TK \in Int
    BY PlaceIn, PlaceShape DEF Completes, IsBatch
  <2> QED
    BY <1>3, <1>6, <2>1 DEF KeyNo
<1>9. StageRow(B.c, 4, i, j) = CoreRow(B.c, i)[j + 1]
  BY DEF StageRow
<1>10. PairRows(B, 4, e)[r] = StageRow(B.c, 4, i, j) /\ PairRows(B, 3, e)[r] = StageRow(B.c, 3, i, j)
  BY <1>3, <1>5, <1>6 DEF PairRows
<1>11. ~(s4.valid /\ s4.ctx = slot)
  <2>1. SUFFICES ASSUME s4.valid, s4.ctx = slot PROVE FALSE
    OBVIOUS
  <2>2. Completes(B, p - 5) /\ SlotIn(B, p - 5) = slot
    BY <1>4, <2>1, EntryFields
  <2>3. CASE C = 1
    <3>1. p - 5 < e /\ e < (p - 5) + 4 * C /\ p - 5 \in Int
      BY <1>2, <2>3
    <3> QED
      BY <1>1, <1>3, <1>5, <2>2, <3>1, SlotsApart
  <2>4. CASE C = 2
    <3>1. p % 2 = 1 /\ (p - 5) % 2 = 1
      BY <1>1, <2>2, <2>4 DEF Completes, ChunkIn
    <3> QED
      BY <3>1
  <2> QED
    BY <1>1, <2>3, <2>4
<1>12. CASE C = 1
  <2>1. p - 4 = e
    BY <1>2, <1>12
  <2>2. s3.valid /\ s3.ctx = slot /\ s3.row = PairRows(B, 3, e)
    BY <1>3, <1>4, <1>5, <2>1, EntryFields
  <2>3. Forwarded(slot, r) = Summed(s3.row[r])
    BY <1>4, <1>11, <2>2 DEF Forwarded
  <2>4. Summed(s3.row[r]) = SummedIn(B.c, StageRow(B.c, 3, i, j))
    BY <1>10, <2>2 DEF Summed, SummedIn, Elements, CoreDims
  <2>5. SummedIn(B.c, StageRow(B.c, 3, i, j)) = StageRow(B.c, 4, i, j)
    BY <1>7, StagesOnward
  <2> QED
    BY <1>5, <1>6, <1>8, <1>9, <2>3, <2>4, <2>5
<1>13. CASE C = 2
  <2>1. ~(s3.valid /\ s3.ctx = slot)
    <3>1. SUFFICES ASSUME s3.valid, s3.ctx = slot PROVE FALSE
      OBVIOUS
    <3>2. Completes(B, p - 4) /\ SlotIn(B, p - 4) = slot
      BY <1>4, <3>1, EntryFields
    <3>3. e < p - 4 /\ p - 4 < e + 4 * C /\ p - 4 \in Int
      BY <1>2, <1>13
    <3> QED
      BY <1>1, <1>3, <1>5, <3>2, <3>3, SlotsApart
  <2>2. Forwarded(slot, r) = sm_state[slot][r]
    BY <1>4, <1>11, <2>1 DEF Forwarded
  <2>3. e <= n - 15 /\ n - 15 < e + 4 * C
    BY <1>2, <1>13
  <2>4. sm_state[slot] = PairRows(B, 4, e)
    BY <1>1, <1>3, <1>5, <2>3 DEF KnownStates
  <2> QED
    BY <1>5, <1>6, <1>8, <1>9, <1>10, <2>2, <2>4
<1> QED
  BY <1>1, <1>12, <1>13

-----------------------------------------------------------------------------
(* The rows of the tile.                                                    *)

\* The place of the last key of a pair of rows; it comes out 16 edges later.
LastPlace(B, slot) == PlaceOf(B, slot, B.c.TK - 1)
MaskOf(B, n) == {slot \in 0 .. 3 : LastPlace(B, slot) + 16 <= n}
Retired(B, n, R) == R < B.b \/ (R < B.b + 8 /\ LastPlace(B, (R - B.b) \div 2) + 16 <= n)
KeysIn(B, n, R) == IF Retired(B, n, R) THEN (B.k + 1) * B.c.TK ELSE B.k * B.c.TK

\* The rows of a tile of queries, of which the R-th has taken as many keys as given.
RowsOf(c, q, keys) == [R \in 0 .. c.TQ - 1 |-> CoreRow(c, q * c.TQ + R)[keys[R]]]
RowsAt(B, n) == row_ctx = RowsOf(B.c, B.q, [R \in 0 .. B.c.TQ - 1 |-> KeysIn(B, n, R)])

\* Each pair has its last key within the batch, and the last pair at the end of it.
LEMMA LastPlaces ==
  ASSUME NEW B, IsBatch(B)
  PROVE  /\ \A slot \in 0 .. 3 :
              /\ LastPlace(B, slot) \in Int /\ 0 <= LastPlace(B, slot) /\ LastPlace(B, slot) < Issued(B)
              /\ Completes(B, LastPlace(B, slot)) /\ SlotIn(B, LastPlace(B, slot)) = slot
              /\ KeyIn(B, LastPlace(B, slot)) = B.c.TK - 1
              /\ LastPlace(B, slot) <= LastPlace(B, 3)
         /\ LastPlace(B, 3) = Issued(B) - 1
<1>1. PICK k \in Int : k = B.c.TK /\ k - 1 \in 0 .. k - 1
  BY PlaceShape
<1>2. ASSUME NEW slot \in 0 .. 3
      PROVE  /\ LastPlace(B, slot) \in Int /\ Completes(B, LastPlace(B, slot))
             /\ SlotIn(B, LastPlace(B, slot)) = slot /\ KeyIn(B, LastPlace(B, slot)) = B.c.TK - 1
             /\ 0 <= LastPlace(B, slot) /\ LastPlace(B, slot) < Issued(B)
  <2>1. PICK p : p = PlaceOf(B, slot, B.c.TK - 1)
    OBVIOUS
  <2>2. p \in Int /\ Completes(B, p) /\ SlotIn(B, p) = slot /\ KeyIn(B, p) = B.c.TK - 1
    BY <1>1, <2>1, CompletesThere
  <2> QED
    BY <2>1, <2>2 DEF LastPlace, Completes, InBatch
<1>3. LastPlace(B, 3) = Issued(B) - 1 /\ \A slot \in 0 .. 3 : LastPlace(B, slot) <= LastPlace(B, 3)
  <2>1. CASE Chunks(B.c) = 1
    <3>1. \A slot \in Int : LastPlace(B, slot) = 4 * (k - 1) + slot
      BY <1>1, <2>1 DEF LastPlace, PlaceOf
    <3> QED
      BY <1>1, <2>1, <3>1, PlaceShape
  <2>2. CASE Chunks(B.c) = 2
    <3>1. \A slot \in Int : LastPlace(B, slot) = (4 * (k - 1) + slot) * 2 + 1
      BY <1>1, <2>2 DEF LastPlace, PlaceOf
    <3> QED
      BY <1>1, <2>2, <3>1, PlaceShape
  <2> QED
    BY <2>1, <2>2, PlaceShape
<1> QED
  BY <1>2, <1>3

\* A place of a pair of rows is its last one just when its key is.
LEMMA LastOrNot ==
  ASSUME NEW B, IsBatch(B), NEW p \in Int, Completes(B, p)
  PROVE  /\ p <= LastPlace(B, SlotIn(B, p))
         /\ KeyIn(B, p) = B.c.TK - 1 <=> p = LastPlace(B, SlotIn(B, p))
<1>1. PICK k \in Int, s \in 0 .. 3, x \in Int :
         /\ k = B.c.TK /\ s = SlotIn(B, p) /\ x = KeyIn(B, p) /\ p = PlaceOf(B, s, x)
         /\ 0 <= x /\ x <= k - 1
  <2>1. PICK k \in Int : k = B.c.TK
    BY PlaceShape
  <2> QED
    BY <2>1, CompletesAt
<1>2. CASE Chunks(B.c) = 1
  BY <1>1, <1>2 DEF LastPlace, PlaceOf
<1>3. CASE Chunks(B.c) = 2
  <2>1. LastPlace(B, s) = (4 * (k - 1) + s) * 2 + 1 /\ PlaceOf(B, s, x) = (4 * x + s) * 2 + 1
    BY <1>1, <1>3 DEF LastPlace, PlaceOf
  <2>2. PICK y \in Int : y = LastPlace(B, s) /\ y = 8 * k - 7 + 2 * s /\ p = 8 * x + 2 * s + 1
    BY <1>1, <2>1
  <2>3. x \in Int /\ k \in Int /\ s \in Int /\ x <= k - 1
    BY <1>1
  <2>4. p <= y
    BY <2>2, <2>3
  <2>5. x = k - 1 => p = y
    BY <2>2, <2>3
  <2>6. p = y => x = k - 1
    BY <2>2, <2>3
  <2> QED
    BY <1>1, <2>2, <2>4, <2>5, <2>6
<1> QED
  BY <1>2, <1>3, PlaceShape

\* What the core has of a batch's row and key.
LEMMA SameCoreScore ==
  ASSUME NEW B, IsBatch(B), AtBatch(B), NEW p, Completes(B, p), NEW r \in Pair,
         score_issue.slot = SlotIn(B, p), score_issue.kj = KeyIn(B, p),
         score_issue.sums[r] = CoreDot(B.c, Query(B, SlotIn(B, p), r), KeyNo(B, KeyIn(B, p)))
  PROVE  ScoreQ8_8Of(r) = CoreScore(B.c, Query(B, SlotIn(B, p), r), KeyNo(B, KeyIn(B, p)))
<1>1. PICK slot \in Int, kj \in Int : slot = SlotIn(B, p) /\ kj = KeyIn(B, p)
  <2>1. PICK k \in Int : k = B.c.TK
    BY PlaceShape
  <2>2. SlotIn(B, p) \in 0 .. 3 /\ KeyIn(B, p) \in 0 .. k - 1
    BY <2>1, PlaceIn DEF Completes
  <2> QED
    BY <2>2
<1>2. PICK x \in Int, b \in Int : x = B.q * B.c.TQ /\ b = B.b
  BY PlaceShape DEF IsBatch
<1>3. r \in Int
  BY DEF Pair, ROW_PAR
<1>4. PICK i, j : i = Query(B, SlotIn(B, p), r) /\ j = KeyNo(B, KeyIn(B, p))
  OBVIOUS
<1>5. i = x + ((b + slot * 2) + r) /\ j = B.k * B.c.TK + kj
  BY <1>1, <1>2, <1>4 DEF Query, KeyNo, FirstRow, ROW_PAR
<1>6. q_tile_idx * core.TQ + ScoreRow(score_issue.slot) + r = (x + (b + slot * 2)) + r
  BY <1>1, <1>2 DEF AtBatch, ScoreRow, ROW_PAR
<1>7. q_tile_idx * core.TQ + ScoreRow(score_issue.slot) + r = i
  BY <1>2, <1>1, <1>3, <1>5, <1>6
<1>8. k_tile_idx * core.TK + score_issue.kj = j
  BY <1>1, <1>5 DEF AtBatch
<1>9. score_issue.sums[r] = CoreDot(B.c, i, j)
  BY <1>4
<1>10. ScoreQ8_8Of(r) = IF core.causal /\ (q_tile_idx * core.TQ + ScoreRow(score_issue.slot) + r)
                                           < (k_tile_idx * core.TK + score_issue.kj) THEN core.neg_large
                        ELSE fa_mul_sat_q8_8(ToS16(score_issue.sums[r] \div 256), core.scale)
  BY DEF ScoreQ8_8Of
<1>11. ScoreQ8_8Of(r) = IF B.c.causal /\ i < j THEN B.c.neg_large
                        ELSE fa_mul_sat_q8_8(ToS16(CoreDot(B.c, i, j) \div 256), B.c.scale)
  BY <1>7, <1>8, <1>9, <1>10 DEF AtBatch
<1> QED
  BY <1>4, <1>11 DEF CoreScore

\* No row has got its states of this tile before its last key is out.
LEMMA NotRetired ==
  ASSUME NEW B, IsBatch(B), NEW p \in Int, Completes(B, p), NEW n \in Int, n < p + 16, NEW r \in Pair
  PROVE  ~Retired(B, n, FirstRow(B, SlotIn(B, p)) + r)
<1>1. PICK slot \in 0 .. 3 : slot = SlotIn(B, p)
  BY PlaceIn DEF Completes
<1>2. PICK b \in Int, R \in Int : b = B.b /\ R = FirstRow(B, SlotIn(B, p)) + r /\ R = b + 2 * slot + r
  BY <1>1 DEF IsBatch, FirstRow, Pair, ROW_PAR
<1>3. (R - b) \div 2 = slot /\ ~(R < b)
  BY <1>1, <1>2 DEF Pair, ROW_PAR
<1>4. LastPlace(B, slot) \in Int /\ p <= LastPlace(B, slot)
  BY <1>1, LastOrNot, LastPlaces
<1> QED
  BY <1>2, <1>3, <1>4 DEF Retired

\* What the softmax takes from the dot products.
LEMMA Taken ==
  ASSUME NEW B, IsBatch(B), AtBatch(B), NEW n \in Int, score_issue = ProductOf(B, n - 9),
         EntriesAt(B, n), KnownStates(B, n), RowsAt(B, n)
  PROVE  SoftmaxInput = StageEntry(B, 0, n - 9)
<1>1. PICK p \in Int : p = n - 9
  OBVIOUS
<1>2. CASE ~Completes(B, p)
  <2>1. ~score_issue.valid
    BY <1>1, <1>2 DEF ProductOf, Empty
  <2> QED
    BY <1>1, <1>2, <2>1 DEF SoftmaxInput, StageEntry
<1>3. CASE Completes(B, p)
  <2>1. PICK slot, kj, sums : slot = SlotIn(B, p) /\ kj = KeyIn(B, p) /\ sums = DotsOf(B, p)
    OBVIOUS
  <2>2. score_issue = [valid |-> TRUE, slot |-> slot, kj |-> kj, sums |-> sums]
    BY <1>1, <1>3, <2>1 DEF ProductOf, InPlace
  <2>3. score_issue.valid /\ score_issue.slot = slot /\ score_issue.kj = kj /\ score_issue.sums = sums
    BY <2>2
  <2>4. PICK end, value, row : /\ end = (kj = B.c.TK - 1) /\ value = B.c.v[KeyNo(B, kj)]
                               /\ row = PairRows(B, 0, p)
    OBVIOUS
  <2>5. sm_row_end = end /\ VRow(score_issue.kj) = value
    BY <2>3, <2>4 DEF sm_row_end, VRow, AtBatch, KeyNo
  <2>6. ASSUME NEW r \in Pair
        PROVE  [score |-> ScoreQ8_8Of(r),
                prev  |-> IF sm_row_start THEN row_ctx[ScoreRow(slot) + r] ELSE Forwarded(slot, r)]
                 = StageRow(B.c, 0, Query(B, slot, r), KeyNo(B, kj))
    <3>1. PICK i, j : i = Query(B, slot, r) /\ j = KeyNo(B, kj)
      OBVIOUS
    <3>2. ScoreQ8_8Of(r) = CoreScore(B.c, i, j)
      <4>1. score_issue.sums[r] = CoreDot(B.c, Query(B, SlotIn(B, p), r), KeyNo(B, KeyIn(B, p)))
        BY <2>1, <2>3 DEF DotsOf
      <4>2. score_issue.slot = SlotIn(B, p) /\ score_issue.kj = KeyIn(B, p)
        BY <2>1, <2>3
      <4>3. ScoreQ8_8Of(r) = CoreScore(B.c, Query(B, SlotIn(B, p), r), KeyNo(B, KeyIn(B, p)))
        BY <1>3, <2>6, <4>1, <4>2, SameCoreScore
      <4> QED
        BY <2>1, <3>1, <4>3
    <3>3. ScoreRow(slot) + r = FirstRow(B, slot) + r
      BY DEF ScoreRow, FirstRow, AtBatch
    <3>4. CASE kj = 0
      <4>1. sm_row_start
        BY <2>3, <3>4 DEF sm_row_start
      <4>2. PICK R : R = FirstRow(B, slot) + r
        OBVIOUS
      <4>3. R \in 0 .. B.c.TQ - 1
        BY <1>3, <2>1, <4>2, PlaceRows DEF Completes
      <4>4. row_ctx[R] = CoreRow(B.c, B.q * B.c.TQ + R)[KeysIn(B, n, R)]
        BY <4>3 DEF RowsAt, RowsOf
      <4>5. B.q * B.c.TQ + R = i
        BY <3>1, <4>2 DEF Query
      <4>6. ~Retired(B, n, R)
        BY <1>1, <1>3, <2>1, <4>2, NotRetired
      <4>7. KeysIn(B, n, R) = j
        <5>1. B.k * B.c.TK \in Int
          BY PlaceShape DEF IsBatch
        <5>2. j = B.k * B.c.TK + 0
          BY <3>1, <3>4 DEF KeyNo
        <5> QED
          BY <4>6, <5>1, <5>2 DEF KeysIn
      <4>8. row_ctx[ScoreRow(slot) + r] = CoreRow(B.c, i)[j]
        BY <3>3, <4>2, <4>4, <4>5, <4>7
      <4> QED
        BY <3>1, <3>2, <4>1, <4>8 DEF StageRow
    <3>5. CASE kj # 0
      <4>1. ~sm_row_start
        BY <2>3, <3>5 DEF sm_row_start
      <4>2. Forwarded(slot, r) = CoreRow(B.c, i)[j]
        BY <1>1, <1>3, <2>1, <3>1, <3>5, ForwardedState DEF AtBatch
      <4> QED
        BY <3>1, <3>2, <4>1, <4>2 DEF StageRow
    <3> QED
      BY <3>4, <3>5
  <2>7. SoftmaxInput
          = [valid |-> TRUE, ctx |-> slot, row_end |-> end, value |-> value,
             row |-> [r \in Pair |->
                        [score |-> ScoreQ8_8Of(r),
                         prev  |-> IF sm_row_start THEN row_ctx[ScoreRow(slot) + r] ELSE Forwarded(slot, r)]]]
    BY <2>3, <2>5 DEF SoftmaxInput
  <2>8. row = [r \in Pair |-> StageRow(B.c, 0, Query(B, slot, r), KeyNo(B, kj))]
    BY <2>1, <2>4 DEF PairRows
  <2>9. row = [r \in Pair |->
                 [score |-> ScoreQ8_8Of(r),
                  prev  |-> IF sm_row_start THEN row_ctx[ScoreRow(slot) + r] ELSE Forwarded(slot, r)]]
    BY <2>6, <2>8
  <2>10. StageEntry(B, 0, p) = [valid |-> TRUE, ctx |-> slot, row_end |-> end, value |-> value, row |-> row]
    BY <1>3, <2>1, <2>4 DEF StageEntry
  <2> QED
    BY <1>1, <2>7, <2>9, <2>10
<1> QED
  BY <1>2, <1>3

\* The stages of the softmax hold the keys in order, each row with its own state before the key.
LEMMA EntriesOnward ==
  ASSUME NEW B, IsBatch(B), AtBatch(B), NEW n \in Int, score_issue = ProductOf(B, n - 9),
         EntriesAt(B, n), KnownStates(B, n), RowsAt(B, n), SoftmaxClock
  PROVE  EntriesAt(B, n + 1)' /\ sm_out' = StageEntry(B, 4, n - 14)
<1>1. \A s \in 1 .. 4 : sm'[s] = StageEntry(B, s, n + 1 - 10 - s)
  BY StagesMove DEF AtBatch
<1>2. sm'[0] = SoftmaxInput /\ sm_out' = sm[4]
  BY SoftmaxShape
<1>3. SoftmaxInput = StageEntry(B, 0, n - 9)
  BY Taken
<1>4. PICK next : next = sm'
  OBVIOUS
<1>5. next = [s \in 0 .. 4 |-> next[s]]
  BY <1>4 DEF SoftmaxClock
<1>6. n - 9 = n + 1 - 10 - 0 /\ n - 10 - 4 = n - 14
  OBVIOUS
<1>7. ASSUME NEW s \in 0 .. 4 PROVE next[s] = StageEntry(B, s, n + 1 - 10 - s)
  <2>1. s = 0 \/ s \in 1 .. 4
    OBVIOUS
  <2> QED
    BY <1>1, <1>2, <1>3, <1>4, <1>6, <2>1
<1>8. next = [s \in 0 .. 4 |-> StageEntry(B, s, n + 1 - 10 - s)]
  BY <1>5, <1>7
<1>9. sm[4] = StageEntry(B, 4, n - 14)
  BY <1>6 DEF EntriesAt
<1> QED
  BY <1>2, <1>4, <1>8, <1>9 DEF EntriesAt

\* A pair of rows is done when what comes out is its last place.
LEMMA RowDone ==
  ASSUME NEW B, IsBatch(B), NEW n \in Int, NEW p \in Int, p = n - 15, sm_out = StageEntry(B, 4, p)
  PROVE  /\ row_done <=> Completes(B, p) /\ KeyIn(B, p) = B.c.TK - 1
         /\ row_done => p = LastPlace(B, SlotIn(B, p)) /\ sm_out.ctx = SlotIn(B, p)
                        /\ sm_out.row = PairRows(B, 4, p)
         /\ \A slot \in 0 .. 3 :
              LastPlace(B, slot) + 16 <= n + 1
                <=> LastPlace(B, slot) + 16 <= n \/ (row_done /\ SlotIn(B, p) = slot)
<1>1. PICK left : left = sm_out /\ left = StageEntry(B, 4, p)
  OBVIOUS
<1>2. /\ left.valid <=> Completes(B, p)
      /\ Completes(B, p) => /\ left.ctx = SlotIn(B, p) /\ (left.row_end <=> KeyIn(B, p) = B.c.TK - 1)
                            /\ left.row = PairRows(B, 4, p)
  BY <1>1, EntryFields
<1>3. row_done <=> left.valid /\ left.row_end
  BY <1>1 DEF row_done
<1>4. row_done <=> Completes(B, p) /\ KeyIn(B, p) = B.c.TK - 1
  BY <1>2, <1>3
<1>5. row_done => p = LastPlace(B, SlotIn(B, p))
  BY <1>4, LastOrNot
<1>6. ASSUME NEW slot \in 0 .. 3
      PROVE  LastPlace(B, slot) + 16 <= n + 1
               <=> LastPlace(B, slot) + 16 <= n \/ (row_done /\ SlotIn(B, p) = slot)
  <2>1. PICK last \in Int : /\ last = LastPlace(B, slot) /\ Completes(B, last) /\ SlotIn(B, last) = slot
                            /\ KeyIn(B, last) = B.c.TK - 1
    BY LastPlaces
  <2>2. last = p => row_done /\ SlotIn(B, p) = slot
    BY <1>4, <2>1
  <2>3. row_done /\ SlotIn(B, p) = slot => last = p
    BY <1>5, <2>1
  <2>4. last + 16 <= n + 1 <=> last + 16 <= n \/ last = p
    BY <2>1
  <2> QED
    BY <2>1, <2>2, <2>3, <2>4
<1> QED
  BY <1>1, <1>2, <1>4, <1>5, <1>6

\* A pair is noted as done when its last key comes out.
LEMMA MaskOnward ==
  ASSUME NEW B, IsBatch(B), NEW n \in Int, sm_out = StageEntry(B, 4, n - 15),
         batch_done_mask = MaskOf(B, n)
  PROVE  batch_done_next = MaskOf(B, n + 1)
<1>1. PICK p \in Int : p = n - 15
  OBVIOUS
<1>2. sm_out = StageEntry(B, 4, p)
  BY <1>1
<1>3. \A slot \in 0 .. 3 : LastPlace(B, slot) + 16 <= n + 1
                             <=> LastPlace(B, slot) + 16 <= n \/ (row_done /\ SlotIn(B, p) = slot)
  BY <1>1, <1>2, RowDone
<1>4. row_done => sm_out.ctx = SlotIn(B, p) /\ SlotIn(B, p) \in 0 .. 3
  BY <1>1, <1>2, RowDone, PlaceIn DEF Completes
<1>5. CASE row_done
  <2>1. batch_done_next = MaskOf(B, n) \cup {SlotIn(B, p)}
    BY <1>4, <1>5 DEF batch_done_next
  <2> QED
    BY <1>3, <1>4, <1>5, <2>1 DEF MaskOf
<1>6. CASE ~row_done
  BY <1>3, <1>6 DEF batch_done_next, MaskOf
<1> QED
  BY <1>5, <1>6

\* All four pairs of rows are done when the last place has come out.
LEMMA AllDone ==
  ASSUME NEW B, IsBatch(B), NEW n \in Int, batch_done_next = MaskOf(B, n + 1)
  PROVE  batch_all_done <=> n >= Issued(B) + 14
<1>1. PICK k \in Int : k = Issued(B)
  BY PlaceShape
<1>2. \A slot \in 0 .. 3 : LastPlace(B, slot) \in Int /\ LastPlace(B, slot) <= k - 1
  BY <1>1, LastPlaces
<1>3. LastPlace(B, 3) = k - 1
  BY <1>1, LastPlaces
<1>4. batch_all_done <=> MaskOf(B, n + 1) = 0 .. 3
  BY DEF batch_all_done, SOFTMAX_CTXS
<1>5. n >= k + 14 => MaskOf(B, n + 1) = 0 .. 3
  BY <1>2 DEF MaskOf
<1>6. MaskOf(B, n + 1) = 0 .. 3 => n >= k + 14
  <2>1. SUFFICES ASSUME MaskOf(B, n + 1) = 0 .. 3 PROVE n >= k + 14
    OBVIOUS
  <2>2. 3 \in MaskOf(B, n + 1)
    BY <2>1
  <2>3. LastPlace(B, 3) + 16 <= n + 1
    BY <2>2 DEF MaskOf
  <2> QED
    BY <1>1, <1>3, <2>3
<1> QED
  BY <1>1, <1>4, <1>5, <1>6

\* The keys of one tile more.
LEMMA OneTileMore ==
  ASSUME NEW k \in Int, NEW T \in Int
  PROVE  k * T \in Int /\ (k + 1) * T = k * T + T
OBVIOUS

\* Rows get their states back.
LEMMA RowsOnward ==
  ASSUME NEW B, IsBatch(B), AtBatch(B), NEW n \in Int, sm_out = StageEntry(B, 4, n - 15), RowsAt(B, n),
         cs = "C_DP_RUN", ms = "S_COMPUTE", RowClock
  PROVE  RowsAt(B, n + 1)'
<1>1. PICK p \in Int : p = n - 15
  OBVIOUS
<1>2. sm_out = StageEntry(B, 4, p)
  BY <1>1
<1>3. PICK done : done = row_done
  OBVIOUS
<1>4. /\ done <=> Completes(B, p) /\ KeyIn(B, p) = B.c.TK - 1
      /\ done => sm_out.ctx = SlotIn(B, p) /\ sm_out.row = PairRows(B, 4, p)
      /\ \A slot \in 0 .. 3 :
           LastPlace(B, slot) + 16 <= n + 1 <=> LastPlace(B, slot) + 16 <= n \/ (done /\ SlotIn(B, p) = slot)
  BY <1>1, <1>2, <1>3, RowDone
<1>5. PICK Rs, old, next : Rs = 0 .. B.c.TQ - 1 /\ old = row_ctx /\ next = row_ctx'
  OBVIOUS
<1>6. old = [R \in Rs |-> CoreRow(B.c, B.q * B.c.TQ + R)[KeysIn(B, n, R)]]
  BY <1>5 DEF RowsAt, RowsOf
<1>7. next = IF done THEN RetiredRows ELSE old
  BY <1>3, <1>5 DEF RowClock
<1>8. PICK b \in Int : b = B.b
  BY DEF IsBatch
<1>9. SUFFICES next = [R \in Rs |-> CoreRow(B.c, B.q * B.c.TQ + R)[KeysIn(B, n + 1, R)]]
  BY <1>5 DEF RowsAt, RowsOf
<1>10. ASSUME NEW R \in Rs
       PROVE  Retired(B, n + 1, R)
                <=> Retired(B, n, R) \/ (done /\ b <= R /\ R < b + 8 /\ (R - b) \div 2 = SlotIn(B, p))
  <2>1. R \in Int
    BY <1>5, <1>10, PlaceShape
  <2>2. CASE b <= R /\ R < b + 8
    <3>1. PICK slot \in 0 .. 3 : slot = (R - b) \div 2
      BY <2>1, <2>2
    <3>2. \A at : Retired(B, at, R) <=> LastPlace(B, slot) + 16 <= at
      BY <1>8, <2>1, <2>2, <3>1 DEF Retired
    <3> QED
      BY <1>4, <2>2, <3>1, <3>2
  <2>3. CASE ~(b <= R /\ R < b + 8)
    BY <1>8, <2>1, <2>3 DEF Retired
  <2> QED
    BY <2>2, <2>3
<1>11. CASE ~done
  <2>1. \A R \in Rs : KeysIn(B, n + 1, R) = KeysIn(B, n, R)
    BY <1>10, <1>11 DEF KeysIn
  <2> QED
    BY <1>6, <1>7, <1>11, <2>1
<1>12. CASE done
  <2>1. PICK slot \in 0 .. 3 : slot = SlotIn(B, p)
    BY <1>4, <1>12, PlaceIn DEF Completes
  <2>2. PICK first \in Int : first = b + 2 * slot
    OBVIOUS
  <2>3. ScoreRow(sm_out.ctx) = first /\ FirstRow(B, slot) = first
    BY <1>4, <1>8, <1>12, <2>1, <2>2 DEF ScoreRow, FirstRow, AtBatch, ROW_PAR
  <2>4. next = [R \in DOMAIN old |-> IF R - first \in Pair THEN sm_out.row[R - first] ELSE old[R]]
    BY <1>5, <1>7, <1>12, <2>3 DEF RetiredRows
  <2>5. ASSUME NEW R \in Rs
        PROVE  (IF R - first \in Pair THEN sm_out.row[R - first] ELSE old[R])
                 = CoreRow(B.c, B.q * B.c.TQ + R)[KeysIn(B, n + 1, R)]
    <3>1. R \in Int
      BY <1>5, <2>5, PlaceShape
    <3>2. R - first \in Pair <=> b <= R /\ R < b + 8 /\ (R - b) \div 2 = slot
      BY <2>2, <3>1 DEF Pair, ROW_PAR
    <3>3. CASE R - first \in Pair
      <4>1. PICK r \in Pair : r = R - first
        BY <3>3
      <4>2. sm_out.row[r] = StageRow(B.c, 4, Query(B, slot, r), KeyNo(B, KeyIn(B, p)))
        BY <1>4, <1>12, <2>1, <4>1 DEF PairRows
      <4>3. r \in Int /\ first + r = R
        BY <3>1, <4>1
      <4>4. Query(B, slot, r) = B.q * B.c.TQ + R
        BY <2>3, <4>3 DEF Query
      <4>5. KeyNo(B, KeyIn(B, p)) + 1 = (B.k + 1) * B.c.TK
        <5>1. PICK k \in Int, T \in Int : k = B.k /\ T = B.c.TK
          BY PlaceShape DEF IsBatch
        <5>2. KeyNo(B, KeyIn(B, p)) = k * T + (T - 1)
          BY <1>4, <1>12, <5>1 DEF KeyNo
        <5>3. PICK y \in Int : y = k * T /\ (k + 1) * T = y + T
          BY <5>1, OneTileMore
        <5>4. KeyNo(B, KeyIn(B, p)) = y + (T - 1) /\ (B.k + 1) * B.c.TK = y + T
          BY <5>1, <5>2, <5>3
        <5> QED
          BY <5>1, <5>3, <5>4
      <4>6. Retired(B, n + 1, R)
        BY <1>10, <1>12, <2>1, <3>2, <3>3
      <4>7. KeysIn(B, n + 1, R) = KeyNo(B, KeyIn(B, p)) + 1
        BY <4>5, <4>6 DEF KeysIn
      <4> QED
        BY <3>3, <4>1, <4>2, <4>4, <4>7 DEF StageRow
    <3>4. CASE R - first \notin Pair
      <4>1. Retired(B, n + 1, R) <=> Retired(B, n, R)
        BY <1>10, <2>1, <3>2, <3>4
      <4>2. KeysIn(B, n + 1, R) = KeysIn(B, n, R)
        BY <4>1 DEF KeysIn
      <4> QED
        BY <1>6, <3>4, <4>2
    <3> QED
      BY <3>3, <3>4
  <2> QED
    BY <1>6, <2>4, <2>5
<1> QED
  BY <1>11, <1>12

\* After n edges of a batch.
Course(B, n) ==
  /\ n \in Nat /\ AtBatch(B)
  /\ qk_issue = IssueOf(B, n) /\ SliceCourse(B, n)
  /\ ret_first = FirstOf(B, n - 9) /\ score_issue = ProductOf(B, n - 9)
  /\ EntriesAt(B, n) /\ sm_out = StageEntry(B, 4, n - 15) /\ KnownStates(B, n)
  /\ batch_done_mask = MaskOf(B, n) /\ RowsAt(B, n)

\* Between the batches.
Quiet ==
  /\ Pipe(qk_slice) /\ Pipe(qk_tag) /\ \A i \in 1 .. 8 : qk_slice[i] = Empty
  /\ ret_first = Empty /\ score_issue = Empty
  /\ sm = [s \in 0 .. 4 |-> Empty] /\ sm_out = Empty /\ sm_state = [ctx \in 0 .. 3 |-> sm_state[ctx]]

RowsHave(c, q, K) == row_ctx = RowsOf(c, q, [R \in 0 .. c.TQ - 1 |-> K])

\* What moves on whatever the machines do.
LEMMA PipesOnward ==
  ASSUME NEW B, IsBatch(B), NEW n, Course(B, n), cs = "C_DP_RUN", ms = "S_COMPUTE",
         SliceClock, TagClock, SoftmaxClock, RowClock
  PROVE  /\ SliceCourse(B, n + 1)' /\ EntriesAt(B, n + 1)' /\ KnownStates(B, n + 1)'
         /\ sm_out' = StageEntry(B, 4, n - 14) /\ RowsAt(B, n + 1)'
<1>1. n \in Nat /\ n \in Int /\ AtBatch(B)
  BY DEF Course
<1>2. SliceCourse(B, n + 1)'
  BY <1>1, SliceOnward DEF Course
<1>3. EntriesAt(B, n + 1)' /\ sm_out' = StageEntry(B, 4, n - 14)
  BY <1>1, EntriesOnward DEF Course
<1>4. KnownStates(B, n + 1)'
  BY <1>1, StatesOnward DEF Course
<1>5. RowsAt(B, n + 1)'
  BY <1>1, RowsOnward DEF Course
<1> QED
  BY <1>2, <1>3, <1>4, <1>5

\* An edge later, everything of a batch is one edge further.
LEMMA CourseOnward ==
  ASSUME NEW B, IsBatch(B), NEW n, Course(B, n), cs = "C_DP_RUN", ms = "S_COMPUTE",
         SliceClock, TagClock, SoftmaxClock, RowClock, Collect,
         core' = core, q_tile_idx' = q_tile_idx, k_tile_idx' = k_tile_idx,
         comp_batch_base' = comp_batch_base, batch_done_mask' = batch_done_next, qk_issue' = NextIssue
  PROVE  Course(B, n + 1)'
<1>1. n \in Nat /\ n \in Int /\ AtBatch(B)
  BY DEF Course
<1>2. /\ SliceCourse(B, n + 1)' /\ EntriesAt(B, n + 1)' /\ KnownStates(B, n + 1)'
      /\ sm_out' = StageEntry(B, 4, n - 14) /\ RowsAt(B, n + 1)'
  BY PipesOnward
<1>3. AtBatch(B)'
  BY <1>1 DEF AtBatch
<1>4. qk_issue' = IssueOf(B, n + 1)
  BY <1>1, IssuesOnward DEF Course, AtBatch
<1>5. ret_first' = FirstOf(B, n - 8) /\ score_issue' = ProductOf(B, n - 8)
  BY <1>1, CollectOnward DEF Course
<1>6. batch_done_mask' = MaskOf(B, n + 1)
  BY <1>1, MaskOnward DEF Course
<1>7. PICK m \in Nat : m = n + 1 /\ m - 9 = n - 8 /\ m - 15 = n - 14
  BY <1>1
<1>8. /\ SliceCourse(B, m)' /\ EntriesAt(B, m)' /\ KnownStates(B, m)' /\ RowsAt(B, m)'
      /\ qk_issue' = IssueOf(B, m) /\ batch_done_mask' = MaskOf(B, m)
      /\ ret_first' = FirstOf(B, m - 9) /\ score_issue' = ProductOf(B, m - 9)
      /\ sm_out' = StageEntry(B, 4, m - 15)
  BY <1>2, <1>4, <1>5, <1>6, <1>7
<1>9. Course(B, m)'
  BY <1>3, <1>8 DEF Course
<1> QED
  BY <1>7, <1>9

\* Before and after a batch nothing of it is there.
LEMMA NothingThere ==
  ASSUME NEW B, NEW p, ~InBatch(B, p)
  PROVE  /\ SliceOf(B, p) = Empty /\ FirstOf(B, p) = Empty /\ ProductOf(B, p) = Empty
         /\ \A s : StageEntry(B, s, p) = Empty
BY DEF SliceOf, FirstOf, ProductOf, StageEntry, Completes

\* Fifteen edges after its last chunk was issued nothing of a batch is under way.
LEMMA BatchLeaves ==
  ASSUME NEW B, IsBatch(B), NEW n \in Nat, n >= Issued(B) + 14,
         SliceCourse(B, n + 1)', EntriesAt(B, n + 1)', KnownStates(B, n + 1)', sm_out' = StageEntry(B, 4, n - 14),
         ret_first' = Empty \/ ret_first' = FirstOf(B, n - 8),
         score_issue' = Empty \/ score_issue' = ProductOf(B, n - 8)
  PROVE  Quiet'
<1>1. PICK k \in Nat : k = Issued(B)
  BY PlaceShape
<1>2. \A p \in Int : p >= k => ~InBatch(B, p)
  BY <1>1 DEF InBatch
<1>3. PICK slice, stages, states : slice = qk_slice' /\ stages = sm' /\ states = sm_state'
  OBVIOUS
<1>4. ASSUME NEW i \in 1 .. 8 PROVE slice[i] = Empty
  <2>1. n + 1 - i >= k /\ n + 1 - i \in Int
    BY <1>1
  <2>2. slice[i] = SliceOf(B, n + 1 - i)
    BY <1>3 DEF SliceCourse
  <2> QED
    BY <1>2, <2>1, <2>2, NothingThere
<1>5. stages = [s \in 0 .. 4 |-> Empty]
  <2>1. stages = [s \in 0 .. 4 |-> StageEntry(B, s, n + 1 - 10 - s)]
    BY <1>3 DEF EntriesAt
  <2>2. ASSUME NEW s \in 0 .. 4 PROVE StageEntry(B, s, n + 1 - 10 - s) = Empty
    <3>1. n + 1 - 10 - s >= k /\ n + 1 - 10 - s \in Int
      BY <1>1
    <3> QED
      BY <1>2, <3>1, NothingThere
  <2> QED
    BY <2>1, <2>2
<1>6. sm_out' = Empty
  <2>1. n - 14 >= k /\ n - 14 \in Int
    BY <1>1
  <2> QED
    BY <1>2, <2>1, NothingThere
<1>7. ret_first' = Empty /\ score_issue' = Empty
  <2>1. n - 8 >= k /\ n - 8 \in Int
    BY <1>1
  <2> QED
    BY <1>2, <2>1, NothingThere
<1>8. states = [ctx \in 0 .. 3 |-> states[ctx]]
  BY <1>3 DEF KnownStates
<1>9. Pipe(qk_slice)' /\ Pipe(qk_tag)'
  BY DEF SliceCourse
<1>10. Empty' = Empty
  BY DEF Empty
<1> QED
  BY <1>3, <1>4, <1>5, <1>6, <1>7, <1>8, <1>9, <1>10 DEF Quiet

\* Rows of a batch when it begins and when it has ended.
LEMMA KeysInBatch ==
  ASSUME NEW B, IsBatch(B), NEW R \in Int
  PROVE  /\ KeysIn(B, 0, R) = IF R < B.b THEN (B.k + 1) * B.c.TK ELSE B.k * B.c.TK
         /\ \A n \in Int : n >= Issued(B) + 15 =>
              KeysIn(B, n, R) = IF R < B.b + 8 THEN (B.k + 1) * B.c.TK ELSE B.k * B.c.TK
<1>1. PICK b \in Int, k \in Int : b = B.b /\ k = Issued(B)
  BY PlaceShape DEF IsBatch
<1>2. CASE b <= R /\ R < b + 8
  <2>1. PICK slot \in 0 .. 3 : slot = (R - b) \div 2
    BY <1>2
  <2>2. LastPlace(B, slot) \in Int /\ 0 <= LastPlace(B, slot) /\ LastPlace(B, slot) < k
    BY <1>1, LastPlaces
  <2>3. \A n : Retired(B, n, R) <=> LastPlace(B, slot) + 16 <= n
    BY <1>1, <1>2, <2>1 DEF Retired
  <2>4. ~Retired(B, 0, R) /\ \A n \in Int : n >= k + 15 => Retired(B, n, R)
    BY <2>2, <2>3
  <2> QED
    BY <1>1, <1>2, <2>4 DEF KeysIn
<1>3. CASE ~(b <= R /\ R < b + 8)
  <2>1. \A n : Retired(B, n, R) <=> R < b
    BY <1>1, <1>3 DEF Retired
  <2> QED
    BY <1>1, <1>3, <2>1 DEF KeysIn
<1> QED
  BY <1>2, <1>3

\* A batch begins.
LEMMA CourseBegins ==
  ASSUME NEW B, IsBatch(B), AtBatch(B)', Quiet', qk_issue' = FirstIssue, batch_done_mask' = {}, RowsAt(B, 0)'
  PROVE  Course(B, 0)'
<1>1. PICK k \in Nat \ {0} : k = Issued(B)
  BY PlaceShape
<1>2. \A p \in Int : p < 0 => ~InBatch(B, p)
  BY DEF InBatch
<1>3. PICK slice, stages, states : slice = qk_slice' /\ stages = sm' /\ states = sm_state'
  OBVIOUS
<1>4. Empty' = Empty /\ FirstIssue' = FirstIssue
  BY DEF Empty, FirstIssue
<1>5. qk_issue' = IssueOf(B, 0)
  <2>1. 0 < Issued(B) /\ SlotIn(B, 0) = 0 /\ KeyIn(B, 0) = 0 /\ ChunkIn(B, 0) = 0
    BY <1>1, FirstPlace
  <2>2. IssueOf(B, 0) = [slot |-> 0, kj |-> 0, chunk |-> 0, done |-> FALSE]
    BY <2>1 DEF IssueOf
  <2> QED
    BY <2>2 DEF FirstIssue
<1>6. SliceCourse(B, 0)'
  <2>1. ASSUME NEW i \in 1 .. 8
        PROVE  slice[i] = SliceOf(B, 0 - i) /\ ~InBatch(B, 0 - i)
    <3>1. 0 - i \in Int /\ 0 - i < 0
      OBVIOUS
    <3>2. ~InBatch(B, 0 - i)
      BY <1>2, <3>1
    <3>3. slice[i] = Empty
      BY <1>3, <1>4 DEF Quiet
    <3> QED
      BY <3>2, <3>3, NothingThere
  <2>2. Pipe(qk_slice)' /\ Pipe(qk_tag)'
    BY DEF Quiet
  <2> QED
    BY <1>3, <2>1, <2>2 DEF SliceCourse
<1>7. EntriesAt(B, 0)'
  <2>1. stages = [s \in 0 .. 4 |-> Empty]
    BY <1>3, <1>4 DEF Quiet
  <2>2. ASSUME NEW s \in 0 .. 4 PROVE StageEntry(B, s, 0 - 10 - s) = Empty
    <3>1. 0 - 10 - s < 0 /\ 0 - 10 - s \in Int
      OBVIOUS
    <3> QED
      BY <1>2, <3>1, NothingThere
  <2>3. stages = [s \in 0 .. 4 |-> StageEntry(B, s, 0 - 10 - s)]
    BY <2>1, <2>2
  <2> QED
    BY <1>3, <2>3 DEF EntriesAt
<1>8. KnownStates(B, 0)'
  <2>1. states = [ctx \in 0 .. 3 |-> states[ctx]]
    BY <1>3 DEF Quiet
  <2>2. \A p \in Int : Completes(B, p) => ~(p <= 0 - 15)
    BY DEF Completes, InBatch
  <2> QED
    BY <1>3, <2>1, <2>2 DEF KnownStates
<1>9. sm_out' = StageEntry(B, 4, 0 - 15) /\ ret_first' = FirstOf(B, 0 - 9) /\ score_issue' = ProductOf(B, 0 - 9)
  <2>1. ~InBatch(B, 0 - 15) /\ ~InBatch(B, 0 - 9)
    BY DEF InBatch
  <2> QED
    BY <1>4, <2>1, NothingThere DEF Quiet
<1>10. batch_done_mask' = MaskOf(B, 0)
  <2>1. ASSUME NEW slot \in 0 .. 3 PROVE ~(LastPlace(B, slot) + 16 <= 0)
    <3>1. LastPlace(B, slot) \in Int /\ 0 <= LastPlace(B, slot)
      BY LastPlaces
    <3> QED
      BY <3>1
  <2> QED
    BY <2>1 DEF MaskOf
<1> QED
  BY <1>5, <1>6, <1>7, <1>8, <1>9, <1>10 DEF Course

\* A tile lies within the sequence, and the last one ends with it.
LEMMA TileFits ==
  ASSUME NEW S \in Nat \ {0}, NEW T \in Nat \ {0}, S % T = 0, NEW t \in 0 .. (S \div T) - 1
  PROVE  t \in Nat /\ (t + 1) * T <= S /\ (t = (S \div T) - 1 => (t + 1) * T = S)
<1>1. PICK N \in Nat : N = S \div T /\ S = N * T
  BY WholeTiles
<1>2. t \in Nat /\ t + 1 <= N
  BY <1>1
<1>3. PICK e \in Nat : N = (t + 1) + e
  <2>1. N - (t + 1) \in Nat /\ N = (t + 1) + (N - (t + 1))
    BY <1>2
  <2> QED
    BY <2>1
<1>4. S = (t + 1) * T + e * T /\ e * T \in Nat /\ (t + 1) * T \in Nat
  BY <1>1, <1>2, <1>3
<1>5. t = N - 1 => (t + 1) * T = S
  BY <1>1, <1>2
<1> QED
  BY <1>1, <1>2, <1>4, <1>5

\* The core between two edges.
CoreRunInv ==
  /\ core \in CoreCases
  /\ q_tile_idx \in 0 .. (core.SEQ_LEN \div core.TQ) - 1
  /\ k_tile_idx \in 0 .. (core.SEQ_LEN \div core.TK) - 1
  /\ ms \in {"S_INIT_CONTEXT", "S_COMPUTE", "S_NORMALIZE", "S_WRITE_O", "S_DONE"}
  /\ cs \in {"C_IDLE", "C_DP_RUN", "C_DONE"}
  /\ comp_start => ms = "S_COMPUTE" /\ cs # "C_DONE" /\ ~comp_done
  /\ comp_done => ms = "S_COMPUTE" /\ cs = "C_IDLE"
  /\ ms # "S_COMPUTE" => cs = "C_IDLE"
  /\ IF cs = "C_DP_RUN" THEN \E B, n : IsBatch(B) /\ Course(B, n) ELSE Quiet
  /\ ms = "S_COMPUTE" /\ cs = "C_IDLE" /\ ~comp_done => RowsHave(core, q_tile_idx, k_tile_idx * core.TK)
  /\ cs = "C_DONE" \/ comp_done => RowsHave(core, q_tile_idx, (k_tile_idx + 1) * core.TK)
  /\ ms \in {"S_NORMALIZE", "S_WRITE_O"} => RowsHave(core, q_tile_idx, core.SEQ_LEN)

\* The tiles of queries and of keys do.
LEMMA CaseTiles ==
  ASSUME NEW c \in CoreCases
  PROVE  /\ \A q \in 0 .. (c.SEQ_LEN \div c.TQ) - 1 : q \in Nat /\ (q + 1) * c.TQ <= c.SEQ_LEN
         /\ \A k \in 0 .. (c.SEQ_LEN \div c.TK) - 1 :
              /\ k \in Nat /\ (k + 1) * c.TK <= c.SEQ_LEN
              /\ k = (c.SEQ_LEN \div c.TK) - 1 => (k + 1) * c.TK = c.SEQ_LEN
BY CaseTypes, TileFits

\* Between the batches nothing enters the pipelines.
LEMMA QuietStep ==
  ASSUME Quiet, cs # "C_DP_RUN", SliceClock, SoftmaxClock, ret_first' = Empty, score_issue' = Empty,
         qk_tag' = qk_tag
  PROVE  Quiet'
<1>1. Drained
  BY DEF Quiet, Drained, QK_STAGES
<1>2. Drained'
  BY <1>1, DrainedStep DEF Quiet
<1>3. Pipe(qk_slice)' /\ Pipe(qk_tag)'
  BY PipesKept DEF Quiet
<1>4. PICK stages : stages = sm' /\ stages = [s \in 0 .. 4 |-> stages[s]]
  BY DEF SoftmaxClock
<1>5. stages = [s \in 0 .. 4 |-> Empty]
  BY <1>2, <1>4 DEF Drained, Empty
<1>6. ~sm[4].valid
  BY DEF Quiet, Empty
<1>7. sm_state' = sm_state
  BY <1>6 DEF SoftmaxClock
<1>8. \A i \in 1 .. 8 : qk_slice'[i] = Empty
  BY <1>2 DEF Drained, QK_STAGES, Empty
<1>9. sm_out' = Empty
  BY <1>2 DEF Drained, Empty
<1>10. Empty' = Empty
  BY DEF Empty
<1> QED
  BY <1>3, <1>4, <1>5, <1>7, <1>8, <1>9, <1>10 DEF Quiet

\* The inner machine begins with the first batch of a tile.
LEMMA LaunchBegins ==
  ASSUME core \in CoreCases, q_tile_idx \in 0 .. (core.SEQ_LEN \div core.TQ) - 1,
         k_tile_idx \in 0 .. (core.SEQ_LEN \div core.TK) - 1,
         RowsHave(core, q_tile_idx, k_tile_idx * core.TK),
         Quiet', core' = core, q_tile_idx' = q_tile_idx, k_tile_idx' = k_tile_idx, row_ctx' = row_ctx,
         comp_batch_base' = 0, batch_done_mask' = {}, qk_issue' = FirstIssue
  PROVE  \E B, n : IsBatch(B) /\ Course(B, n)'
<1>1. PICK c, q, k : c = core /\ q = q_tile_idx /\ k = k_tile_idx
  OBVIOUS
<1>2. PICK B : B = [c |-> c, q |-> q, k |-> k, b |-> 0]
  OBVIOUS
<1>3. B.c = c /\ B.q = q /\ B.k = k /\ B.b = 0
  BY <1>2
<1>4. /\ c \in CoreCases /\ q \in Nat /\ k \in Nat
      /\ (q + 1) * c.TQ <= c.SEQ_LEN /\ (k + 1) * c.TK <= c.SEQ_LEN
  BY <1>1, CaseTiles
<1>5. c.TQ \in Nat \ {0} /\ c.TQ % 8 = 0
  BY <1>4, CaseTypes
<1>6. c.TQ >= 8
  <2>1. PICK T \in Nat \ {0} : T = c.TQ /\ T % 8 = 0
    BY <1>5
  <2>2. T = (T \div 8) * 8 /\ T \div 8 \in Nat
    BY <2>1, WholeTiles
  <2> QED
    BY <2>1, <2>2
<1>7. IsBatch(B)
  BY <1>3, <1>4, <1>5, <1>6 DEF IsBatch, QPAIR_BATCH_ROWS, ROW_PAR, SOFTMAX_CTXS
<1>8. AtBatch(B)'
  BY <1>1, <1>3 DEF AtBatch
<1>9. PICK Rs, next : Rs = 0 .. c.TQ - 1 /\ next = row_ctx'
  OBVIOUS
<1>10. next = [R \in Rs |-> CoreRow(c, q * c.TQ + R)[k * c.TK]]
  BY <1>1, <1>9 DEF RowsHave, RowsOf
<1>11. \A R \in Rs : KeysIn(B, 0, R) = k * c.TK
  <2> SUFFICES ASSUME NEW R \in Rs PROVE KeysIn(B, 0, R) = k * c.TK
    OBVIOUS
  <2>1. R \in Int /\ ~(R < 0)
    BY <1>5, <1>9
  <2> QED
    BY <1>3, <1>7, <2>1, KeysInBatch
<1>12. next = [R \in Rs |-> CoreRow(c, q * c.TQ + R)[KeysIn(B, 0, R)]]
  BY <1>10, <1>11
<1>13. RowsAt(B, 0)'
  BY <1>3, <1>9, <1>12 DEF RowsAt, RowsOf
<1>14. Course(B, 0)'
  BY <1>7, <1>8, <1>13, CourseBegins
<1> QED
  BY <1>7, <1>14

\* The batch behind a batch.
LEMMA NextBatchBegins ==
  ASSUME NEW B, IsBatch(B), NEW n \in Nat, n >= Issued(B) + 14, AtBatch(B), ~last_batch,
         RowsAt(B, n + 1)', Quiet', core' = core, q_tile_idx' = q_tile_idx, k_tile_idx' = k_tile_idx,
         comp_batch_base' = comp_batch_base + QPAIR_BATCH_ROWS, batch_done_mask' = {}, qk_issue' = FirstIssue
  PROVE  \E C, m : IsBatch(C) /\ Course(C, m)'
<1>1. PICK b \in Nat, Q \in Nat \ {0} : b = B.b /\ Q = B.c.TQ
  BY PlaceShape DEF IsBatch
<1>2. PICK C : C = [c |-> B.c, q |-> B.q, k |-> B.k, b |-> b + 8]
  OBVIOUS
<1>3. C.c = B.c /\ C.q = B.q /\ C.k = B.k /\ C.b = b + 8
  BY <1>2
<1>4. b % 8 = 0 /\ b + 8 <= Q /\ Q % 8 = 0 /\ b + 8 < Q
  <2>1. b % 8 = 0 /\ b + 8 <= Q
    BY <1>1 DEF IsBatch, QPAIR_BATCH_ROWS, ROW_PAR, SOFTMAX_CTXS
  <2>2. Q % 8 = 0
    BY <1>1, CaseTypes DEF IsBatch
  <2>3. b + 8 < Q
    BY <1>1 DEF last_batch, AtBatch, QPAIR_BATCH_ROWS, ROW_PAR, SOFTMAX_CTXS
  <2> QED
    BY <2>1, <2>2, <2>3
<1>5. (b + 8) % 8 = 0 /\ (b + 8) + 8 <= Q
  <2>1. PICK x \in Nat, y \in Nat : b = x * 8 /\ Q = y * 8
    BY <1>4, WholeTiles
  <2> QED
    BY <1>4, <2>1
<1>6. IsBatch(C)
  BY <1>1, <1>3, <1>5 DEF IsBatch, QPAIR_BATCH_ROWS, ROW_PAR, SOFTMAX_CTXS
<1>7. AtBatch(C)'
  BY <1>1, <1>3 DEF AtBatch, QPAIR_BATCH_ROWS, ROW_PAR, SOFTMAX_CTXS
<1>8. PICK Rs, next : Rs = 0 .. B.c.TQ - 1 /\ next = row_ctx'
  OBVIOUS
<1>9. next = [R \in Rs |-> CoreRow(B.c, B.q * B.c.TQ + R)[KeysIn(B, n + 1, R)]]
  BY <1>8 DEF RowsAt, RowsOf
<1>10. \A R \in Rs : KeysIn(B, n + 1, R) = KeysIn(C, 0, R)
  <2> SUFFICES ASSUME NEW R \in Rs PROVE KeysIn(B, n + 1, R) = KeysIn(C, 0, R)
    OBVIOUS
  <2>1. R \in Int
    BY <1>1, <1>8
  <2>2. n + 1 \in Int /\ n + 1 >= Issued(B) + 15
    BY PlaceShape
  <2>3. KeysIn(B, n + 1, R) = IF R < B.b + 8 THEN (B.k + 1) * B.c.TK ELSE B.k * B.c.TK
    BY <2>1, <2>2, KeysInBatch
  <2>4. KeysIn(C, 0, R) = IF R < C.b THEN (C.k + 1) * C.c.TK ELSE C.k * C.c.TK
    BY <1>6, <2>1, KeysInBatch
  <2> QED
    BY <1>1, <1>3, <2>3, <2>4
<1>11. next = [R \in Rs |-> CoreRow(B.c, B.q * B.c.TQ + R)[KeysIn(C, 0, R)]]
  BY <1>9, <1>10
<1>12. RowsAt(C, 0)'
  BY <1>3, <1>8, <1>11 DEF RowsAt, RowsOf
<1>13. Course(C, 0)'
  BY <1>6, <1>7, <1>12, CourseBegins
<1> QED
  BY <1>6, <1>13

\* After the last batch every row has taken the keys of the tile.
LEMMA TileEnds ==
  ASSUME NEW B, IsBatch(B), NEW n \in Nat, n >= Issued(B) + 14, AtBatch(B), last_batch,
         RowsAt(B, n + 1)', core' = core, q_tile_idx' = q_tile_idx, k_tile_idx' = k_tile_idx
  PROVE  RowsHave(core, q_tile_idx, (k_tile_idx + 1) * core.TK)'
<1>1. PICK b \in Nat, Q \in Nat \ {0} : b = B.b /\ Q = B.c.TQ /\ b + 8 >= Q
  <2>1. PICK b \in Nat, Q \in Nat \ {0} : b = B.b /\ Q = B.c.TQ
    BY PlaceShape DEF IsBatch
  <2>2. b + 8 >= Q
    BY <2>1 DEF last_batch, AtBatch, QPAIR_BATCH_ROWS, ROW_PAR, SOFTMAX_CTXS
  <2> QED
    BY <2>1, <2>2
<1>2. PICK Rs, next : Rs = 0 .. B.c.TQ - 1 /\ next = row_ctx'
  OBVIOUS
<1>3. next = [R \in Rs |-> CoreRow(B.c, B.q * B.c.TQ + R)[KeysIn(B, n + 1, R)]]
  BY <1>2 DEF RowsAt, RowsOf
<1>4. \A R \in Rs : KeysIn(B, n + 1, R) = (B.k + 1) * B.c.TK
  <2> SUFFICES ASSUME NEW R \in Rs PROVE KeysIn(B, n + 1, R) = (B.k + 1) * B.c.TK
    OBVIOUS
  <2>1. R \in Int /\ R < b + 8
    BY <1>1, <1>2
  <2>2. n + 1 \in Int /\ n + 1 >= Issued(B) + 15
    BY PlaceShape
  <2> QED
    BY <1>1, <2>1, <2>2, KeysInBatch
<1>5. next = [R \in Rs |-> CoreRow(B.c, B.q * B.c.TQ + R)[(B.k + 1) * B.c.TK]]
  BY <1>3, <1>4
<1>6. core' = B.c /\ q_tile_idx' = B.q /\ k_tile_idx' = B.k
  BY DEF AtBatch
<1> QED
  BY <1>2, <1>5, <1>6 DEF RowsHave, RowsOf

\* New contexts are rows that have taken no key.
LEMMA RowsFresh ==
  ASSUME core \in CoreCases, NEW q \in 0 .. (core.SEQ_LEN \div core.TQ) - 1
  PROVE  NewContexts = RowsOf(core, q, [R \in 0 .. core.TQ - 1 |-> 0])
<1>1. q \in Nat /\ (q + 1) * core.TQ <= core.SEQ_LEN
  BY CaseTiles
<1>2. PICK Q \in Nat, S \in Nat : Q = core.TQ /\ S = core.SEQ_LEN
  BY CaseTypes
<1>3. PICK x \in Nat : x = q * Q /\ x + Q <= S
  BY <1>1, <1>2
<1>4. ASSUME NEW R \in 0 .. core.TQ - 1
      PROVE  CoreRow(core, q * core.TQ + R)[0] = [m |-> core.neg_large, l |-> 0, acc |-> [d \in Elements |-> 0]]
  <2>1. PICK i : i = q * core.TQ + R
    OBVIOUS
  <2>2. i \in 0 .. core.SEQ_LEN - 1
    BY <1>2, <1>3, <2>1
  <2>3. IsCoreRow(core, i, CoreRow(core, i))
    BY <2>2, CoreRowExists
  <2> QED
    BY <2>1, <2>3 DEF IsCoreRow, CoreFresh, CoreDims, Elements
<1> QED
  BY <1>4 DEF NewContexts, RowsOf

\* The inner machine is at work, between the edges of the master machine.
LEMMA DpRunCourse ==
  ASSUME CoreRunInv, CoreStep, cs = "C_DP_RUN"
  PROVE  CoreRunInv'
<1>1. PICK B, n : IsBatch(B) /\ Course(B, n)
  BY DEF CoreRunInv
<1>2. n \in Nat /\ AtBatch(B) /\ sm_out = StageEntry(B, 4, n - 15) /\ batch_done_mask = MaskOf(B, n)
  BY <1>1 DEF Course
<1>3. ms = "S_COMPUTE" /\ ~comp_done
  BY DEF CoreRunInv
<1>4. /\ ms' = ms /\ k_tile_idx' = k_tile_idx /\ q_tile_idx' = q_tile_idx /\ core' = core /\ ~comp_start'
      /\ DpRun /\ SliceClock /\ SoftmaxClock /\ RowClock /\ TagClock /\ comp_done' = FALSE
  BY <1>3 DEF CoreStep, InitContexts, Compute, Normalize, WriteO, EngineClock, Launch, ComputeDone, DpRun
<1>5. /\ SliceCourse(B, n + 1)' /\ EntriesAt(B, n + 1)' /\ KnownStates(B, n + 1)'
      /\ sm_out' = StageEntry(B, 4, n - 14) /\ RowsAt(B, n + 1)'
  BY <1>1, <1>3, <1>4, PipesOnward
<1>6. batch_done_next = MaskOf(B, n + 1)
  BY <1>1, <1>2, MaskOnward
<1>7. batch_all_done <=> n >= Issued(B) + 14
  BY <1>1, <1>2, <1>6, AllDone
<1>8. /\ core' \in CoreCases /\ q_tile_idx' \in 0 .. (core.SEQ_LEN \div core.TQ) - 1
      /\ k_tile_idx' \in 0 .. (core.SEQ_LEN \div core.TK) - 1 /\ ms' = "S_COMPUTE" /\ ~comp_done' /\ ~comp_start'
  BY <1>3, <1>4 DEF CoreRunInv
<1>9. CASE batch_all_done /\ ~last_batch
  <2>1. /\ comp_batch_base' = comp_batch_base + QPAIR_BATCH_ROWS /\ batch_done_mask' = {}
        /\ qk_issue' = FirstIssue /\ ret_first' = Empty /\ score_issue' = Empty /\ cs' = "C_DP_RUN"
    BY <1>4, <1>9 DEF DpRun
  <2>2. Quiet'
    BY <1>1, <1>2, <1>5, <1>7, <1>9, <2>1, BatchLeaves
  <2>3. PICK C, m : IsBatch(C) /\ Course(C, m)'
    BY <1>1, <1>2, <1>4, <1>5, <1>7, <1>9, <2>1, <2>2, NextBatchBegins
  <2>4. (\E B2, n2 : IsBatch(B2) /\ Course(B2, n2))'
    BY <2>3 DEF IsBatch
  <2> QED
    BY <1>4, <1>8, <2>1, <2>4 DEF CoreRunInv
<1>10. CASE batch_all_done /\ last_batch
  <2>1. cs' = "C_DONE" /\ Collect
    BY <1>4, <1>10 DEF DpRun
  <2>2. ret_first' = FirstOf(B, n - 8) /\ score_issue' = ProductOf(B, n - 8)
    BY <1>1, <1>2, <2>1, CollectOnward DEF Course
  <2>3. Quiet'
    BY <1>1, <1>2, <1>5, <1>7, <1>10, <2>2, BatchLeaves
  <2>4. RowsHave(core, q_tile_idx, (k_tile_idx + 1) * core.TK)'
    BY <1>1, <1>2, <1>4, <1>5, <1>7, <1>10, TileEnds
  <2> QED
    BY <1>4, <1>8, <2>1, <2>3, <2>4 DEF CoreRunInv
<1>11. CASE ~batch_all_done
  <2>1. /\ cs' = "C_DP_RUN" /\ Collect /\ qk_issue' = NextIssue /\ batch_done_mask' = batch_done_next
        /\ comp_batch_base' = comp_batch_base
    BY <1>4, <1>11 DEF DpRun
  <2>2. Course(B, n + 1)'
    BY <1>1, <1>3, <1>4, <2>1, CourseOnward
  <2>3. PICK C, m : IsBatch(C) /\ Course(C, m)'
    BY <1>1, <2>2
  <2>4. (\E B2, n2 : IsBatch(B2) /\ Course(B2, n2))'
    BY <2>3 DEF IsBatch
  <2> QED
    BY <1>4, <1>8, <2>1, <2>4 DEF CoreRunInv
<1> QED
  BY <1>9, <1>10, <1>11

\* The inner machine begins with a tile.
LEMMA LaunchCourse ==
  ASSUME CoreRunInv, CoreStep, cs = "C_IDLE", comp_start
  PROVE  CoreRunInv'
<1>1. ms = "S_COMPUTE" /\ ~comp_done /\ core \in CoreCases /\ Quiet
  BY DEF CoreRunInv
<1>2. /\ ms' = ms /\ k_tile_idx' = k_tile_idx /\ q_tile_idx' = q_tile_idx /\ core' = core
      /\ SliceClock /\ SoftmaxClock /\ row_ctx' = row_ctx /\ cs' = "C_DP_RUN" /\ comp_done' = FALSE
      /\ comp_batch_base' = 0 /\ batch_done_mask' = {} /\ qk_issue' = FirstIssue
      /\ ret_first' = Empty /\ score_issue' = Empty /\ qk_tag' = qk_tag
  BY <1>1 DEF CoreStep, InitContexts, Compute, Normalize, WriteO, EngineClock, Launch, ComputeDone, DpRun, RowClock
<1>3. Quiet'
  BY <1>1, <1>2, QuietStep
<1>4. /\ q_tile_idx \in 0 .. (core.SEQ_LEN \div core.TQ) - 1 /\ k_tile_idx \in 0 .. (core.SEQ_LEN \div core.TK) - 1
      /\ RowsHave(core, q_tile_idx, k_tile_idx * core.TK)
  BY <1>1 DEF CoreRunInv
<1>5. PICK C, m : IsBatch(C) /\ Course(C, m)'
  BY <1>1, <1>2, <1>3, <1>4, LaunchBegins
<1>6. (\E B2, n2 : IsBatch(B2) /\ Course(B2, n2))'
  BY <1>5 DEF IsBatch
<1> QED
  BY <1>1, <1>2, <1>4, <1>6 DEF CoreRunInv

\* The inner machine rests, or says that it is done.
LEMMA RestCourse ==
  ASSUME CoreRunInv, CoreStep, cs # "C_DP_RUN", ~(cs = "C_IDLE" /\ comp_start)
  PROVE  CoreRunInv'
<1>1. core \in CoreCases /\ Quiet /\ (cs = "C_IDLE" \/ cs = "C_DONE")
  BY DEF CoreRunInv
<1>2. /\ core' = core /\ SliceClock /\ SoftmaxClock /\ RowClock
      /\ cs' = "C_IDLE" /\ comp_done' = (cs = "C_DONE") /\ qk_tag' = qk_tag
      /\ ret_first' = ret_first /\ score_issue' = Empty
  BY <1>1 DEF CoreStep, EngineClock, Launch, ComputeDone, DpRun
<1>3. Quiet'
  <2>1. ret_first' = Empty
    BY <1>1, <1>2 DEF Quiet
  <2> QED
    BY <1>1, <1>2, <2>1, QuietStep
<1>4. \A q, K : ms # "S_INIT_CONTEXT" /\ RowsHave(core, q, K) => RowsHave(core, q, K)'
  BY <1>2 DEF RowClock, RowsHave
<1>5. /\ q_tile_idx \in 0 .. (core.SEQ_LEN \div core.TQ) - 1 /\ k_tile_idx \in 0 .. (core.SEQ_LEN \div core.TK) - 1
      /\ core.SEQ_LEN \div core.TQ \in Nat /\ core.SEQ_LEN \div core.TK \in Nat
  BY <1>1, CaseTypes, WholeTiles DEF CoreRunInv
<1>6. CASE ms = "S_INIT_CONTEXT"
  <2>1. cs = "C_IDLE" /\ ~comp_done /\ ~comp_start
    BY <1>6 DEF CoreRunInv
  <2>2. /\ ms' = "S_COMPUTE" /\ k_tile_idx' = 0 /\ comp_start' = FALSE /\ q_tile_idx' = q_tile_idx
        /\ row_ctx' = NewContexts
    BY <1>2, <1>6 DEF CoreStep, InitContexts, Compute, Normalize, WriteO, RowClock
  <2>3. 0 \in 0 .. (core.SEQ_LEN \div core.TK) - 1 /\ 0 * core.TK = 0
    BY <1>1, <1>5, CaseTypes
  <2>4. RowsHave(core, q_tile_idx, k_tile_idx * core.TK)'
    BY <1>1, <1>2, <1>5, <2>2, <2>3, RowsFresh DEF RowsHave
  <2> QED
    BY <1>1, <1>2, <1>3, <1>5, <2>1, <2>2, <2>3, <2>4 DEF CoreRunInv
<1>7. CASE ms = "S_COMPUTE" /\ ~comp_done
  <2>1. ms' = ms /\ k_tile_idx' = k_tile_idx /\ q_tile_idx' = q_tile_idx /\ (comp_start' <=> cs = "C_IDLE")
    BY <1>7 DEF CoreStep, InitContexts, Compute, Normalize, WriteO
  <2>2. cs = "C_IDLE" => RowsHave(core, q_tile_idx, k_tile_idx * core.TK)'
    BY <1>2, <1>4, <1>7, <2>1 DEF CoreRunInv, RowsHave
  <2>3. cs = "C_DONE" => RowsHave(core, q_tile_idx, (k_tile_idx + 1) * core.TK)'
    BY <1>2, <1>4, <1>7, <2>1 DEF CoreRunInv, RowsHave
  <2> QED
    BY <1>1, <1>2, <1>3, <1>5, <1>7, <2>1, <2>2, <2>3 DEF CoreRunInv
<1>8. CASE ms = "S_COMPUTE" /\ comp_done
  <2>1. cs = "C_IDLE" /\ RowsHave(core, q_tile_idx, (k_tile_idx + 1) * core.TK)
    BY <1>8 DEF CoreRunInv
  <2>2. q_tile_idx' = q_tile_idx /\ comp_start' = FALSE /\ comp_done' = FALSE
    BY <1>2, <1>8, <2>1 DEF CoreStep, InitContexts, Compute, Normalize, WriteO
  <2>3. row_ctx' = row_ctx
    BY <1>2, <1>8, <2>1 DEF RowClock
  <2>4. CASE last_k_tile
    <3>1. ms' = "S_NORMALIZE" /\ k_tile_idx' = k_tile_idx
      BY <1>8, <2>4 DEF CoreStep, InitContexts, Compute, Normalize, WriteO
    <3>2. (k_tile_idx + 1) * core.TK = core.SEQ_LEN
      BY <1>1, <1>5, <2>4, CaseTiles DEF last_k_tile
    <3>3. RowsHave(core, q_tile_idx, core.SEQ_LEN)'
      BY <1>2, <2>1, <2>2, <2>3, <3>2 DEF RowsHave
    <3> QED
      BY <1>1, <1>2, <1>3, <1>5, <2>1, <2>2, <3>1, <3>3 DEF CoreRunInv
  <2>5. CASE ~last_k_tile
    <3>1. ms' = "S_COMPUTE" /\ k_tile_idx' = k_tile_idx + 1
      BY <1>8, <2>5 DEF CoreStep, InitContexts, Compute, Normalize, WriteO
    <3>2. k_tile_idx' \in 0 .. (core.SEQ_LEN \div core.TK) - 1
      BY <1>5, <2>5, <3>1 DEF last_k_tile
    <3>3. RowsHave(core, q_tile_idx, k_tile_idx * core.TK)'
      BY <1>2, <2>1, <2>2, <2>3, <3>1 DEF RowsHave
    <3> QED
      BY <1>1, <1>2, <1>3, <1>5, <2>1, <2>2, <3>1, <3>2, <3>3 DEF CoreRunInv
  <2> QED
    BY <2>4, <2>5
<1>9. CASE ms = "S_NORMALIZE" \/ ms = "S_WRITE_O"
  <2>1. cs = "C_IDLE" /\ ~comp_done /\ ~comp_start /\ RowsHave(core, q_tile_idx, core.SEQ_LEN)
    BY <1>9 DEF CoreRunInv
  <2>2. row_ctx' = row_ctx /\ comp_start' = FALSE
    BY <1>2, <1>9, <2>1 DEF RowClock, CoreStep, InitContexts, Compute, Normalize, WriteO
  <2>3. CASE ms = "S_NORMALIZE"
    <3>1. (ms' = "S_NORMALIZE" \/ ms' = "S_WRITE_O") /\ q_tile_idx' = q_tile_idx /\ k_tile_idx' = k_tile_idx
      BY <2>3 DEF CoreStep, InitContexts, Compute, Normalize, WriteO, AskRecip, AwaitRecip, ScaleChunks
    <3>2. RowsHave(core, q_tile_idx, core.SEQ_LEN)'
      BY <1>2, <2>1, <2>2, <3>1 DEF RowsHave
    <3> QED
      BY <1>1, <1>2, <1>3, <1>5, <2>1, <2>2, <3>1, <3>2 DEF CoreRunInv
  <2>4. CASE ms = "S_WRITE_O"
    <3>1. /\ (ms' = "S_INIT_CONTEXT" \/ ms' = "S_DONE") /\ k_tile_idx' = k_tile_idx
          /\ q_tile_idx' = IF last_q_tile THEN q_tile_idx ELSE q_tile_idx + 1
      BY <2>4 DEF CoreStep, InitContexts, Compute, Normalize, WriteO
    <3>2. q_tile_idx' \in 0 .. (core.SEQ_LEN \div core.TQ) - 1
      BY <1>5, <3>1 DEF last_q_tile
    <3> QED
      BY <1>1, <1>2, <1>3, <1>5, <2>1, <2>2, <3>1, <3>2 DEF CoreRunInv
  <2> QED
    BY <1>9, <2>3, <2>4
<1> QED
  BY <1>6, <1>7, <1>8, <1>9 DEF CoreRunInv, CoreStep, InitContexts, Compute, Normalize, WriteO

\* The core keeps to this at every edge.
LEMMA CoreRunStep == CoreRunInv /\ CoreStep => CoreRunInv'
BY DpRunCourse, LaunchCourse, RestCourse

\* And it begins so.
LEMMA CoreRunStarts ==
  ASSUME core \in CoreCases, CoreInit
  PROVE  CoreRunInv
<1>1. q_tile_idx = 0 /\ k_tile_idx = 0 /\ ms = "S_INIT_CONTEXT" /\ cs = "C_IDLE" /\ ~comp_start /\ ~comp_done
  BY DEF CoreInit
<1>2. 0 \in 0 .. (core.SEQ_LEN \div core.TQ) - 1 /\ 0 \in 0 .. (core.SEQ_LEN \div core.TK) - 1
  <2>1. PICK S \in Nat \ {0}, Q \in Nat \ {0}, K \in Nat \ {0} :
          /\ S = core.SEQ_LEN /\ Q = core.TQ /\ K = core.TK /\ S % Q = 0 /\ S % K = 0
    BY CaseTypes
  <2>2. S \div Q \in Nat /\ S = (S \div Q) * Q /\ S \div K \in Nat /\ S = (S \div K) * K
    BY <2>1, WholeTiles
  <2>3. S \div Q # 0 /\ S \div K # 0
    BY <2>1, <2>2
  <2> QED
    BY <2>1, <2>2, <2>3
<1>3. Quiet
  <2>1. Pipe(qk_slice) /\ Pipe(qk_tag) /\ \A i \in 1 .. 8 : qk_slice[i] = Empty
    BY DEF CoreInit, Pipe, QK_STAGES, QK_LAT
  <2>2. ret_first = Empty /\ score_issue = Empty /\ sm = [s \in 0 .. 4 |-> Empty] /\ sm_out = Empty
    BY DEF CoreInit
  <2>3. sm_state = [ctx \in 0 .. 3 |-> sm_state[ctx]]
    BY DEF CoreInit, SOFTMAX_CTXS
  <2> QED
    BY <2>1, <2>2, <2>3 DEF Quiet
<1> QED
  BY <1>1, <1>2, <1>3 DEF CoreRunInv

-----------------------------------------------------------------------------
(* Normalisation.                                                           *)

\* The reciprocal of a row's denominator, and the row of results.
RecipOf(row) == IF row.l = 0 THEN Word(0, 4) ELSE fa_recip_nr_q16_16(Word(row.l, 4))
OutOf(c, row) == [d \in CoreDims(c) |-> NormalizedElement(row.acc[d], RecipOf(row), row.l = 0)]

\* The chunks of a row and what each becomes.
NormChunks(c) == c.D \div NORM_LANES
ChunkOut(row, j) ==
  [valid |-> TRUE,
   chunk |-> [lane \in 0 .. NORM_LANES - 1 |->
                NormalizedElement(row.acc[j * NORM_LANES + lane], RecipOf(row), row.l = 0)]]

\* The registers when the reciprocal of row i is asked for, a edges after that, and e edges
\* after it was there.
NormAsks(i) ==
  [qi |-> i, d |-> 0, recv_d |-> 0, in_valid |-> FALSE, pending |-> FALSE, ready |-> FALSE,
   den_zero |-> FALSE, recip |-> Word(0, 4), issue_done |-> FALSE]
NormAwaits(i, asked) ==
  [qi |-> i, d |-> 0, recv_d |-> 0, in_valid |-> asked, pending |-> TRUE, ready |-> FALSE,
   den_zero |-> FALSE, recip |-> Word(0, 4), issue_done |-> FALSE]
NormScales(i, at, back, dz, rc, over) ==
  [qi |-> i, d |-> at, recv_d |-> back, in_valid |-> FALSE, pending |-> FALSE, ready |-> TRUE,
   den_zero |-> dz, recip |-> rc, issue_done |-> over]

IssueAtEdge(c, e) == (IF e < NormChunks(c) THEN e ELSE NormChunks(c) - 1) * NORM_LANES
BackAtEdge(e) == (IF e < 3 THEN 0 ELSE e - 3) * NORM_LANES

\* What is in the pipelines.
ChunkAt(c, row, j) == IF 0 <= j /\ j < NormChunks(c) THEN ChunkOut(row, j) ELSE Empty

NoRecip == recip_pipe = [i \in 1 .. 10 |-> Empty]
NoChunk == norm_pipe = [i \in 1 .. 3 |-> Empty]

Asking(i) == norm = NormAsks(i) /\ NoRecip /\ NoChunk
Awaiting(i, a) ==
  /\ row_ctx[i].l # 0
  /\ norm = NormAwaits(i, a = 0)
  /\ recip_pipe = [j \in 1 .. 10 |-> IF j = a THEN [valid |-> TRUE, recip |-> RecipOf(row_ctx[i])] ELSE Empty]
  /\ NoChunk
Scaling(i, e) ==
  /\ e < NormChunks(core) + 3
  /\ norm = NormScales(i, IssueAtEdge(core, e), BackAtEdge(e), row_ctx[i].l = 0, RecipOf(row_ctx[i]),
                       e >= NormChunks(core))
  /\ NoRecip
  /\ norm_pipe = [j \in 1 .. 3 |-> ChunkAt(core, row_ctx[i], e - j)]
  /\ \A d \in CoreDims(core) : d < BackAtEdge(e) => o_buf[i][d] = OutOf(core, row_ctx[i])[d]

\* The first n rows of the tile are there.
RowsOut(n) == \A r \in 0 .. n - 1 : o_buf[r] = OutOf(core, row_ctx[r])

NormInv ==
  /\ DOMAIN o_buf = 0 .. core.TQ - 1
  /\ IF ms = "S_NORMALIZE"
     THEN \E i \in 0 .. core.TQ - 1 :
            /\ RowsOut(i)
            /\ \/ Asking(i)
               \/ \E a \in 0 .. 10 : Awaiting(i, a)
               \/ \E e \in Nat : Scaling(i, e)
     ELSE /\ ~norm.in_valid /\ NoRecip /\ NoChunk
          /\ ms = "S_WRITE_O" => RowsOut(core.TQ)

-----------------------------------------------------------------------------

\* The registers, field by field.
LEMMA AskedFields ==
  ASSUME NEW i, NEW old, old = NormAsks(i), NEW next,
         next = [old EXCEPT !.in_valid = TRUE, !.pending = TRUE, !.den_zero = FALSE]
  PROVE  next = NormAwaits(i, TRUE)
BY ONLY old = NormAsks(i), next = [old EXCEPT !.in_valid = TRUE, !.pending = TRUE, !.den_zero = FALSE]
   DEF NormAsks, NormAwaits

\* While the reciprocal is awaited,
LEMMA AwaitedFields ==
  ASSUME NEW i, NEW asked, NEW old, old = NormAwaits(i, asked), NEW next, next = [old EXCEPT !.in_valid = FALSE]
  PROVE  next = NormAwaits(i, FALSE)
BY ONLY old = NormAwaits(i, asked), next = [old EXCEPT !.in_valid = FALSE]
   DEF NormAwaits

\* when it is there, or was not needed,
LEMMA ReadyFields ==
  ASSUME NEW i, NEW asked, NEW rc, NEW dz, NEW old, old = NormAsks(i) \/ old = NormAwaits(i, FALSE),
         NEW next, next = RowReady(old, rc, dz)
  PROVE  next = NormScales(i, 0, 0, dz, rc, FALSE)
<1>1. next = [old EXCEPT !.pending = FALSE, !.ready = TRUE, !.recip = rc, !.den_zero = dz,
                         !.d = 0, !.recv_d = 0, !.issue_done = FALSE]
  BY DEF RowReady
<1>2. CASE old = NormAsks(i)
  BY ONLY <1>1, <1>2 DEF NormAsks, NormScales
<1>3. CASE old = NormAwaits(i, FALSE)
  BY ONLY <1>1, <1>3 DEF NormAwaits, NormScales
<1> QED
  BY <1>2, <1>3

\* when the last chunk is issued,
LEMMA ScaledFields ==
  ASSUME NEW i, NEW at, NEW back, NEW dz, NEW rc, NEW over,
         NEW old, old = NormScales(i, at, back, dz, rc, over),
         NEW next, next = [old EXCEPT !.issue_done = TRUE]
  PROVE  next = NormScales(i, at, back, dz, rc, TRUE)
BY DEF NormScales

\* when another is,
LEMMA IssuedFields ==
  ASSUME NEW i, NEW at \in Int, NEW back, NEW dz, NEW rc, NEW over,
         NEW old, old = NormScales(i, at, back, dz, rc, over),
         NEW next, next = [old EXCEPT !.d = @ + NORM_LANES]
  PROVE  next = NormScales(i, at + NORM_LANES, back, dz, rc, over)
BY DEF NormScales

\* when one has come back,
LEMMA ReturnedFields ==
  ASSUME NEW i, NEW at, NEW back \in Int, NEW dz, NEW rc, NEW over,
         NEW old, old = NormScales(i, at, back, dz, rc, over),
         NEW next, next = [old EXCEPT !.recv_d = @ + NORM_LANES]
  PROVE  next = NormScales(i, at, back + NORM_LANES, dz, rc, over)
BY DEF NormScales

\* and for the next row.
LEMMA IdleFields ==
  ASSUME NEW i, NEW next, next = [NormIdle EXCEPT !.qi = i]
  PROVE  next = NormAsks(i)
BY DEF NormIdle, NormAsks

\* A pipeline moves on.
LEMMA PipeShifted ==
  ASSUME NEW n \in Nat \ {0}, NEW g, NEW pipe, pipe = [i \in 1 .. n |-> g[i]], NEW entry
  PROVE  Shifted(pipe, entry) = [i \in 1 .. n |-> IF i = 1 THEN entry ELSE pipe[i - 1]]
<1> DEFINE S == {pipe[i] : i \in 1 .. n} \cup {entry}
<1>1. pipe \in Seq(S) /\ Len(pipe) = n
  <2>1. pipe \in [1 .. n -> S]
    OBVIOUS
  <2> QED
    BY <2>1
<1>2. /\ Front(pipe) \in Seq(S) /\ Len(Front(pipe)) = n - 1
      /\ \A i \in 1 .. n - 1 : Front(pipe)[i] = pipe[i]
  BY <1>1 DEF Front
<1>3. <<entry>> \in Seq(S) /\ Len(<<entry>>) = 1 /\ <<entry>>[1] = entry
  OBVIOUS
<1> HIDE DEF S
<1>4. PICK f \in Seq(S) : f = Front(pipe)
  BY <1>2
<1>5. PICK e \in Seq(S) : e = <<entry>>
  BY <1>3
<1>6. /\ e \o f \in Seq(S) /\ Len(e \o f) = Len(e) + Len(f)
      /\ \A i \in 1 .. Len(e) + Len(f) : (e \o f)[i] = IF i <= Len(e) THEN e[i] ELSE f[i - Len(e)]
  BY ConcatProperties
<1>7. PICK p : p = Shifted(pipe, entry) /\ p = e \o f /\ p \in Seq(S) /\ Len(p) = n
  <2>1. Shifted(pipe, entry) = e \o f
    BY <1>4, <1>5 DEF Shifted
  <2>2. Len(e) + Len(f) = n
    BY <1>2, <1>3, <1>4, <1>5
  <2> QED
    BY <1>6, <2>1, <2>2
<1>8. \A i \in 1 .. n : p[i] = IF i = 1 THEN entry ELSE pipe[i - 1]
  <2> SUFFICES ASSUME NEW i \in 1 .. n PROVE p[i] = IF i = 1 THEN entry ELSE pipe[i - 1]
    OBVIOUS
  <2>1. Len(e) = 1 /\ Len(f) = n - 1
    BY <1>2, <1>3, <1>4, <1>5
  <2>2. p[i] = IF i <= 1 THEN e[i] ELSE f[i - 1]
    BY <1>6, <1>7, <2>1
  <2>3. CASE i = 1
    BY <1>3, <1>5, <2>2, <2>3
  <2>4. CASE i # 1
    <3>1. ~(i <= 1) /\ i - 1 \in 1 .. n - 1
      BY <2>4
    <3> QED
      BY <1>2, <1>4, <2>2, <2>4, <3>1
  <2> QED
    BY <2>3, <2>4
<1>9. p = [i \in 1 .. n |-> p[i]]
  <2>1. DOMAIN p = 1 .. n
    <3>1. p \in Seq(S) /\ Len(p) = n
      BY <1>7
    <3> QED
      BY ONLY <3>1, n \in Nat
  <2>2. p \in [DOMAIN p -> S]
    <3>1. p \in Seq(S)
      BY <1>7
    <3> QED
      BY ONLY <3>1
  <2> QED
    BY ONLY <2>1, <2>2
<1> QED
  BY <1>7, <1>8, <1>9

\* A row is a whole number of chunks.
LEMMA ChunkShape ==
  ASSUME NEW c \in CoreCases
  PROVE  /\ NormChunks(c) \in Nat \ {0} /\ NORM_LANES \in Nat \ {0}
         /\ c.D = NormChunks(c) * NORM_LANES /\ c.D \in Nat
<1>1. PICK d \in Nat \ {0}, w \in Nat \ {0} : d = c.D /\ w = NORM_LANES /\ d % w = 0
  BY CaseTypes
<1>2. d \div w \in Nat /\ d = (d \div w) * w
  BY <1>1, WholeTiles
<1>3. d \div w # 0
  BY <1>2
<1> QED
  BY <1>1, <1>2, <1>3 DEF NormChunks

\* The pipeline of the reciprocal.
LEMMA RecipMoves ==
  ASSUME NoRecip, RecipClock, ~norm.in_valid
  PROVE  NoRecip'
<1>1. recip_pipe' = Shifted(recip_pipe, Empty)
  BY DEF RecipClock
<1>0. PICK n \in Nat \ {0} : n = 10
  OBVIOUS
<1>2. PICK pipe, g : n = 10 /\ pipe = recip_pipe /\ g = [i \in 1 .. n |-> Empty]
  BY <1>0
<1>3. pipe = [i \in 1 .. n |-> g[i]]
  BY <1>2 DEF NoRecip
<1>4. Shifted(pipe, Empty) = [i \in 1 .. n |-> IF i = 1 THEN Empty ELSE pipe[i - 1]]
  BY <1>3, PipeShifted
<1>5. \A i \in 1 .. n : i # 1 => pipe[i - 1] = Empty
  BY <1>2, <1>3
<1>6. Shifted(pipe, Empty) = [i \in 1 .. n |-> Empty]
  BY <1>4, <1>5
<1>7. Empty' = Empty
  BY DEF Empty
<1> QED
  BY <1>1, <1>2, <1>6, <1>7 DEF NoRecip

\* While none is issued, no chunk is under way.
LEMMA ChunksMove ==
  ASSUME NoChunk, NormBlockClock, ~ChunkIssued
  PROVE  NoChunk'
<1>1. norm_pipe' = Shifted(norm_pipe, Empty)
  BY DEF NormBlockClock
<1>0. PICK n \in Nat \ {0} : n = 3
  OBVIOUS
<1>2. PICK pipe, g : n = 3 /\ pipe = norm_pipe /\ g = [i \in 1 .. n |-> Empty]
  BY <1>0
<1>3. pipe = [i \in 1 .. n |-> g[i]]
  BY <1>2 DEF NoChunk
<1>4. Shifted(pipe, Empty) = [i \in 1 .. n |-> IF i = 1 THEN Empty ELSE pipe[i - 1]]
  BY <1>3, PipeShifted
<1>5. \A i \in 1 .. n : i # 1 => pipe[i - 1] = Empty
  BY <1>2, <1>3
<1>6. Shifted(pipe, Empty) = [i \in 1 .. n |-> Empty]
  BY <1>4, <1>5
<1>7. Empty' = Empty
  BY DEF Empty
<1> QED
  BY <1>1, <1>2, <1>6, <1>7 DEF NoChunk

\* The reciprocal is asked for, or known to be none.
LEMMA Asks ==
  ASSUME core \in CoreCases, NEW i, Asking(i), ms = "S_NORMALIZE", Normalize, RecipClock, NormBlockClock,
         core' = core, row_ctx' = row_ctx
  PROVE  ms' = ms /\ o_buf' = o_buf /\ (Scaling(i, 0)' \/ Awaiting(i, 0)')
<1>1. /\ norm.qi = i /\ ~norm.in_valid /\ ~norm.pending /\ ~norm.ready
  BY DEF Asking, NormAsks
<1>2. AskRecip
  BY <1>1 DEF Normalize, AwaitRecip, ScaleChunks
<1>3. NoRecip' /\ NoChunk'
  BY <1>1, RecipMoves, ChunksMove DEF Asking, ChunkIssued
<1>4. ms' = ms /\ o_buf' = o_buf
  BY <1>2 DEF AskRecip
<1>5. PICK old, next, row : old = norm /\ next = norm' /\ row = row_ctx[i]
  OBVIOUS
<1>6. old = NormAsks(i)
  BY <1>5 DEF Asking
<1>7. CASE row.l = 0
  <2>1. PICK dz \in BOOLEAN : dz = TRUE
    OBVIOUS
  <2>2. next = RowReady(old, Word(0, 4), dz)
    BY <1>1, <1>2, <1>5, <1>7, <2>1 DEF AskRecip
  <2>3. next = NormScales(i, 0, 0, dz, Word(0, 4), FALSE)
    BY <1>6, <2>2, ReadyFields
  <2>4. PICK C \in Nat \ {0}, P \in Nat \ {0} : C = NormChunks(core) /\ P = NORM_LANES
    BY ChunkShape
  <2>5. /\ 0 < NormChunks(core) + 3 /\ IssueAtEdge(core, 0) = 0 /\ BackAtEdge(0) = 0
        /\ (0 >= NormChunks(core)) = FALSE /\ (row.l = 0) = dz /\ RecipOf(row) = Word(0, 4)
    <3>1. 0 < NormChunks(core) + 3 /\ (0 >= NormChunks(core)) = FALSE
      BY <2>4
    <3>2. IssueAtEdge(core, 0) = 0 /\ BackAtEdge(0) = 0
      BY <2>4 DEF IssueAtEdge, BackAtEdge
    <3>3. (row.l = 0) = dz /\ RecipOf(row) = Word(0, 4)
      BY <1>7, <2>1 DEF RecipOf
    <3> QED
      BY <3>1, <3>2, <3>3
  <2>6. next = NormScales(i, IssueAtEdge(core, 0), BackAtEdge(0), row.l = 0, RecipOf(row), 0 >= NormChunks(core))
    BY <2>3, <2>5
  <2>7. \A d \in CoreDims(core) : ~(d < BackAtEdge(0))
    BY <2>5 DEF CoreDims
  <2>8. [j \in 1 .. 3 |-> ChunkAt(core, row, 0 - j)] = [j \in 1 .. 3 |-> Empty]
    <3>1. ASSUME NEW j \in 1 .. 3 PROVE ChunkAt(core, row, 0 - j) = Empty
      <4>1. ~(0 <= 0 - j)
        OBVIOUS
      <4> QED
        BY <4>1 DEF ChunkAt
    <3> QED
      BY <3>1
  <2>9. norm_pipe' = [j \in 1 .. 3 |-> ChunkAt(core, row, 0 - j)]
    <3>1. Empty' = Empty
      BY DEF Empty
    <3> QED
      BY <1>3, <2>8, <3>1 DEF NoChunk
  <2>10. Scaling(i, 0)'
    BY <1>3, <1>5, <2>5, <2>6, <2>7, <2>9 DEF Scaling
  <2> QED
    BY <1>4, <2>10
<1>8. CASE row.l # 0
  <2>1. next = [old EXCEPT !.in_valid = TRUE, !.pending = TRUE, !.den_zero = FALSE]
    BY <1>1, <1>2, <1>5, <1>8 DEF AskRecip
  <2>2. next = NormAwaits(i, TRUE)
    BY <1>6, <2>1, AskedFields
  <2>3. (0 = 0) = TRUE
    OBVIOUS
  <2>4. next = NormAwaits(i, 0 = 0)
    BY <2>2, <2>3
  <2>5. Empty' = Empty
    BY DEF Empty
  <2>6. recip_pipe' = [j \in 1 .. 10 |-> IF j = 0 THEN [valid |-> TRUE, recip |-> RecipOf(row)] ELSE Empty]
    <3>1. \A j \in 1 .. 10 : j # 0
      OBVIOUS
    <3> QED
      BY <1>3, <2>5, <3>1 DEF NoRecip
  <2>7. Awaiting(i, 0)'
    BY <1>3, <1>5, <1>8, <2>4, <2>5, <2>6 DEF Awaiting
  <2> QED
    BY <1>4, <2>7
<1> QED
  BY <1>7, <1>8

\* It comes ten edges later.
LEMMA Awaits ==
  ASSUME core \in CoreCases, NEW i, NEW a \in 0 .. 10, Awaiting(i, a), ms = "S_NORMALIZE", Normalize,
         RecipClock, NormBlockClock, core' = core, row_ctx' = row_ctx
  PROVE  ms' = ms /\ o_buf' = o_buf /\ (Scaling(i, 0)' \/ \E b \in 0 .. 10 : Awaiting(i, b)')
<1>1. /\ norm.qi = i /\ (norm.in_valid <=> a = 0) /\ norm.pending /\ ~norm.ready /\ norm.den_zero = FALSE
  BY DEF Awaiting, NormAwaits
<1>2. AwaitRecip
  BY <1>1 DEF Normalize, AskRecip, ScaleChunks
<1>3. NoChunk'
  BY <1>1, ChunksMove DEF Awaiting, ChunkIssued
<1>4. ms' = ms /\ o_buf' = o_buf
  BY <1>2 DEF AwaitRecip
<1>5. PICK old, waiting, next, row, there :
        /\ old = norm /\ waiting = [old EXCEPT !.in_valid = FALSE] /\ next = norm' /\ row = row_ctx[i]
        /\ there = [valid |-> TRUE, recip |-> RecipOf(row)]
  OBVIOUS
<1>6. old = NormAwaits(i, a = 0) /\ row.l # 0
  BY <1>5 DEF Awaiting
<1>7. waiting = NormAwaits(i, FALSE)
  <2>1. PICK asked : old = NormAwaits(i, asked)
    BY <1>6
  <2> QED
    BY <1>5, <2>1, AwaitedFields
<1>14. PICK n \in Nat \ {0} : n = 10
  OBVIOUS
<1>8. PICK pipe, g : n = 10 /\ pipe = recip_pipe /\ g = [j \in 1 .. n |-> IF j = a THEN there ELSE Empty]
  BY <1>14
<1>9. pipe = g /\ pipe = [j \in 1 .. n |-> g[j]]
  BY <1>5, <1>8 DEF Awaiting
<1>10. recip_pipe' = [j \in 1 .. n |-> IF j = a + 1 THEN there ELSE Empty]
  <2>1. PICK entry : entry = IF a = 0 THEN there ELSE Empty
    OBVIOUS
  <2>2. recip_pipe' = Shifted(pipe, entry)
    <3>1. a = 0 => entry = [valid |-> TRUE, recip |-> fa_recip_nr_q16_16(Word(row_ctx[norm.qi].l, 4))]
      BY <1>1, <1>5, <1>6, <2>1 DEF RecipOf
    <3> QED
      BY <1>1, <1>8, <2>1, <3>1 DEF RecipClock
  <2>3. Shifted(pipe, entry) = [j \in 1 .. n |-> IF j = 1 THEN entry ELSE pipe[j - 1]]
    BY <1>9, PipeShifted
  <2>4. ASSUME NEW j \in 1 .. n
        PROVE  (IF j = 1 THEN entry ELSE pipe[j - 1]) = IF j = a + 1 THEN there ELSE Empty
    <3>1. CASE j = 1
      BY <2>1, <3>1
    <3>2. CASE j # 1
      <4>1. j - 1 \in 1 .. n
        BY <1>8, <3>2
      <4>2. pipe[j - 1] = IF j - 1 = a THEN there ELSE Empty
        BY <1>8, <1>9, <4>1
      <4> QED
        BY <3>2, <4>2
    <3> QED
      BY <3>1, <3>2
  <2> QED
    BY <2>2, <2>3, <2>4
<1>11. Empty' = Empty
  BY DEF Empty
<1>12. CASE a < 10
  <2>1. ~recip_pipe[10].valid
    BY <1>8, <1>9, <1>12 DEF Empty
  <2>2. next = waiting
    BY <1>2, <1>5, <2>1 DEF AwaitRecip, RECIP_LAT
  <2>3. a + 1 \in 0 .. 10 /\ (a + 1 = 0) = FALSE
    BY <1>12
  <2>4. next = NormAwaits(i, a + 1 = 0)
    BY <1>7, <2>2, <2>3
  <2>5. Awaiting(i, a + 1)'
    BY <1>3, <1>5, <1>6, <1>8, <1>10, <1>11, <2>4 DEF Awaiting
  <2> QED
    BY <1>4, <2>3, <2>5
<1>13. CASE a = 10
  <2>1. recip_pipe[10] = there /\ recip_pipe[10].valid /\ recip_pipe[10].recip = RecipOf(row)
    BY <1>5, <1>8, <1>9, <1>13
  <2>2. next = RowReady(waiting, RecipOf(row), FALSE)
    BY <1>1, <1>2, <1>5, <2>1 DEF AwaitRecip, RECIP_LAT
  <2>3. next = NormScales(i, 0, 0, FALSE, RecipOf(row), FALSE)
    BY <1>7, <2>2, ReadyFields
  <2>4. PICK C \in Nat \ {0}, P \in Nat \ {0} : C = NormChunks(core) /\ P = NORM_LANES
    BY ChunkShape
  <2>5. /\ 0 < NormChunks(core) + 3 /\ IssueAtEdge(core, 0) = 0 /\ BackAtEdge(0) = 0
        /\ (0 >= NormChunks(core)) = FALSE /\ (row.l = 0) = FALSE
    BY <1>6, <2>4 DEF IssueAtEdge, BackAtEdge
  <2>6. next = NormScales(i, IssueAtEdge(core, 0), BackAtEdge(0), row.l = 0, RecipOf(row), 0 >= NormChunks(core))
    BY <2>3, <2>5
  <2>7. \A d \in CoreDims(core) : ~(d < BackAtEdge(0))
    BY <2>5 DEF CoreDims
  <2>8. [j \in 1 .. 3 |-> ChunkAt(core, row, 0 - j)] = [j \in 1 .. 3 |-> Empty]
    <3>1. ASSUME NEW j \in 1 .. 3 PROVE ChunkAt(core, row, 0 - j) = Empty
      <4>1. ~(0 <= 0 - j)
        OBVIOUS
      <4> QED
        BY <4>1 DEF ChunkAt
    <3> QED
      BY <3>1
  <2>9. norm_pipe' = [j \in 1 .. 3 |-> ChunkAt(core, row, 0 - j)]
    BY <1>3, <1>11, <2>8 DEF NoChunk
  <2>10. NoRecip'
    <3>1. \A j \in 1 .. n : j # a + 1
      BY <1>8, <1>13
    <3> QED
      BY <1>8, <1>10, <1>11, <3>1 DEF NoRecip
  <2>11. Scaling(i, 0)'
    BY <1>3, <1>5, <2>5, <2>6, <2>7, <2>9, <2>10 DEF Scaling
  <2> QED
    BY <1>4, <2>11
<1> QED
  BY <1>12, <1>13

\* Multiples of the width of a chunk.
LEMMA ChunkBounds ==
  ASSUME NEW e \in Nat, NEW n \in Nat \ {0}, NEW w \in Nat \ {0}
  PROVE  /\ e * w \in Nat /\ (e + 1) * w = e * w + w /\ (n - 1) * w = n * w - w
         /\ e * w = n * w - w <=> e = n - 1
<1>1. (e + 1) * w = e * w + w /\ (n - 1) * w = n * w - w
  OBVIOUS
<1>2. CASE e = n - 1
  BY <1>1, <1>2
<1>3. CASE e < n - 1
  <2>1. PICK x \in Nat \ {0} : n - 1 = e + x
    <3>1. n - 1 - e \in Nat \ {0} /\ n - 1 = e + (n - 1 - e)
      BY <1>3
    <3> QED
      BY <3>1
  <2>2. (e + x) * w = e * w + x * w /\ x * w # 0
    BY <2>1
  <2> QED
    BY <1>1, <1>3, <2>1, <2>2
<1>4. CASE e > n - 1
  <2>1. PICK x \in Nat \ {0} : e = n - 1 + x
    <3>1. e - (n - 1) \in Nat \ {0} /\ e = n - 1 + (e - (n - 1))
      BY <1>4
    <3> QED
      BY <3>1
  <2>2. (n - 1 + x) * w = (n - 1) * w + x * w /\ x * w # 0
    BY <2>1
  <2> QED
    BY <1>1, <1>4, <2>1, <2>2
<1> QED
  BY <1>1, <1>2, <1>3, <1>4

\* A chunk is issued.
IssuedFrom(c, old) ==
  IF old.issue_done THEN old
  ELSE IF old.d = c.D - NORM_LANES THEN [old EXCEPT !.issue_done = TRUE]
  ELSE [old EXCEPT !.d = @ + NORM_LANES]

\* The chunks are issued one per edge, until there is none left.
LEMMA IssuedIs ==
  ASSUME NEW c \in CoreCases, NEW i, NEW e \in Nat, NEW back \in Int, NEW dz, NEW rc, NEW old,
         old = NormScales(i, IssueAtEdge(c, e), back, dz, rc, e >= NormChunks(c)),
         NEW next, next = IssuedFrom(c, old)
  PROVE  next = NormScales(i, IssueAtEdge(c, e + 1), back, dz, rc, e + 1 >= NormChunks(c))
<1>1. PICK n \in Nat \ {0}, w \in Nat \ {0} : n = NormChunks(c) /\ w = NORM_LANES /\ c.D = n * w
  BY ChunkShape
<1>2. PICK at \in Int, over \in BOOLEAN : at = IssueAtEdge(c, e) /\ (over <=> e >= n)
  <2>1. IssueAtEdge(c, e) = IF e < n THEN e * w ELSE (n - 1) * w
    BY <1>1 DEF IssueAtEdge
  <2>2. e * w \in Int /\ (n - 1) * w \in Int
    OBVIOUS
  <2>3. IssueAtEdge(c, e) \in Int /\ (e >= n) \in BOOLEAN
    BY <2>1, <2>2
  <2> QED
    BY <2>3
<1>3. old = NormScales(i, at, back, dz, rc, over)
  <2>1. (e >= NormChunks(c)) = over
    BY <1>1, <1>2
  <2> QED
    BY <1>2, <2>1
<1>4. old.issue_done = over /\ old.d = at
  BY <1>3 DEF NormScales
<1>5. CASE e >= n
  <2>1. next = old
    BY <1>2, <1>4, <1>5 DEF IssuedFrom
  <2>2. IssueAtEdge(c, e + 1) = at
    BY <1>1, <1>2, <1>5 DEF IssueAtEdge
  <2>3. (e + 1 >= NormChunks(c)) = over
    BY <1>1, <1>2, <1>5
  <2> QED
    BY <1>3, <2>1, <2>2, <2>3
<1>6. CASE e < n
  <2>1. at = e * w /\ ~over
    BY <1>1, <1>2, <1>6 DEF IssueAtEdge
  <2>2. e * w \in Nat /\ (e + 1) * w = e * w + w /\ (e * w = n * w - w <=> e = n - 1)
    BY ChunkBounds
  <2>3. CASE e = n - 1
    <3>1. next = [old EXCEPT !.issue_done = TRUE]
      BY <1>1, <1>4, <2>1, <2>2, <2>3 DEF IssuedFrom
    <3>2. next = NormScales(i, at, back, dz, rc, TRUE)
      BY ONLY <1>3, <3>1, ScaledFields
    <3>3. IssueAtEdge(c, e + 1) = at
      BY <1>1, <2>1, <2>3 DEF IssueAtEdge
    <3>4. (e + 1 >= NormChunks(c)) = TRUE
      BY <1>1, <2>3
    <3> QED
      BY <3>2, <3>3, <3>4
  <2>4. CASE e # n - 1
    <3>1. next = [old EXCEPT !.d = @ + NORM_LANES]
      BY <1>1, <1>4, <2>1, <2>2, <2>4 DEF IssuedFrom
    <3>2. next = NormScales(i, at + w, back, dz, rc, over)
      BY <1>1, <1>3, <3>1, IssuedFields
    <3>3. IssueAtEdge(c, e + 1) = at + w
      <4>1. e + 1 < n
        BY <1>6, <2>4
      <4> QED
        BY <1>1, <2>1, <2>2, <4>1 DEF IssueAtEdge
    <3>4. (e + 1 >= NormChunks(c)) = over
      BY <1>1, <1>6, <2>1, <2>4
    <3> QED
      BY <3>2, <3>3, <3>4
  <2> QED
    BY <2>3, <2>4
<1> QED
  BY <1>5, <1>6

\* The elements of a row up to the chunk that comes back.
LEMMA ChunkStored ==
  ASSUME NEW c \in CoreCases, NEW row, NEW j \in Nat, NEW old, NEW new, NEW back,
         back = ChunkOut(row, j), NEW recv, recv = j * NORM_LANES,
         \A d \in CoreDims(c) : d < recv => old[d] = OutOf(c, row)[d],
         new = [d \in CoreDims(c) |-> IF d - recv \in 0 .. NORM_LANES - 1 THEN back.chunk[d - recv] ELSE old[d]]
  PROVE  \A d \in CoreDims(c) : d < recv + NORM_LANES => new[d] = OutOf(c, row)[d]
<1>1. PICK w \in Nat \ {0} : w = NORM_LANES
  BY ChunkShape
<1>2. recv \in Nat
  BY <1>1
<1> SUFFICES ASSUME NEW d \in CoreDims(c), d < recv + w PROVE new[d] = OutOf(c, row)[d]
  BY <1>1
<1>3. d \in Int
  BY DEF CoreDims
<1>4. CASE d < recv
  <2>1. ~(d - recv \in 0 .. w - 1)
    BY <1>2, <1>3, <1>4
  <2> QED
    BY <1>1, <1>4, <2>1
<1>5. CASE ~(d < recv)
  <2>1. d - recv \in 0 .. w - 1 /\ recv + (d - recv) = d
    BY <1>2, <1>3, <1>5
  <2>2. back.chunk[d - recv] = NormalizedElement(row.acc[recv + (d - recv)], RecipOf(row), row.l = 0)
    BY <1>1, <2>1 DEF ChunkOut
  <2> QED
    BY <1>1, <2>1, <2>2 DEF OutOf
<1> QED
  BY <1>4, <1>5

\* The pipeline of the chunks.
LEMMA ChunksOnward ==
  ASSUME core \in CoreCases, NEW i, NEW e \in Nat, Scaling(i, e), ms = "S_NORMALIZE", NormBlockClock
  PROVE  norm_pipe' = [j \in 1 .. 3 |-> ChunkAt(core, row_ctx[i], e + 1 - j)]
<1>1. PICK C \in Nat \ {0}, w \in Nat \ {0} : C = NormChunks(core) /\ w = NORM_LANES
  BY ChunkShape
<1>2. PICK row, c : row = row_ctx[i] /\ c = core
  OBVIOUS
<1>3. /\ norm.qi = i /\ norm.ready /\ (norm.issue_done <=> e >= C) /\ norm.d = IssueAtEdge(c, e)
      /\ norm.recip = RecipOf(row) /\ norm.den_zero = (row.l = 0)
  BY <1>1, <1>2 DEF Scaling, NormScales
<1>4. PICK entry : entry = ChunkAt(c, row, e)
  OBVIOUS
<1>5. norm_pipe' = Shifted(norm_pipe, entry)
  <2>1. CASE e < C
    <3>1. ChunkIssued
      BY <1>3, <2>1 DEF ChunkIssued
    <3>2. norm.d = e * NORM_LANES
      BY <1>1, <1>2, <1>3, <2>1 DEF IssueAtEdge
    <3>3. entry = ChunkOut(row, e)
      BY <1>1, <1>2, <1>4, <2>1 DEF ChunkAt
    <3> QED
      BY <1>2, <1>3, <3>1, <3>2, <3>3 DEF NormBlockClock, ChunkOut
  <2>2. CASE ~(e < C)
    <3>1. ~ChunkIssued
      BY <1>1, <1>3, <2>2 DEF ChunkIssued
    <3>2. entry = Empty
      BY <1>1, <1>2, <1>4, <2>2 DEF ChunkAt
    <3> QED
      BY <3>1, <3>2 DEF NormBlockClock
  <2> QED
    BY <2>1, <2>2
<1>6. PICK n \in Nat \ {0} : n = 3
  OBVIOUS
<1>7. PICK pipe, g : pipe = norm_pipe /\ g = [j \in 1 .. n |-> ChunkAt(c, row, e - j)]
  OBVIOUS
<1>8. pipe = g /\ pipe = [j \in 1 .. n |-> g[j]]
  BY <1>2, <1>6, <1>7 DEF Scaling
<1>9. Shifted(pipe, entry) = [j \in 1 .. n |-> IF j = 1 THEN entry ELSE pipe[j - 1]]
  BY <1>8, PipeShifted
<1>10. ASSUME NEW j \in 1 .. n PROVE (IF j = 1 THEN entry ELSE pipe[j - 1]) = ChunkAt(c, row, e + 1 - j)
  <2>1. CASE j = 1
    <3>1. e + 1 - j = e
      BY <2>1
    <3> QED
      BY <1>4, <2>1, <3>1
  <2>2. CASE j # 1
    <3>1. j - 1 \in 1 .. n /\ e - (j - 1) = e + 1 - j
      BY <1>6, <2>2
    <3> QED
      BY <1>7, <1>8, <2>2, <3>1
  <2> QED
    BY <2>1, <2>2
<1> QED
  BY <1>2, <1>5, <1>6, <1>7, <1>9, <1>10

\* What an edge does to the registers.
LEMMA ScaleEdge ==
  ASSUME core \in CoreCases, NEW i, NEW e \in Nat, Scaling(i, e), ms = "S_NORMALIZE", Normalize,
         NEW issued, issued = IssuedFrom(core, norm), NEW back, back = norm_pipe[3]
  PROVE  /\ ~back.valid => norm' = issued /\ ms' = ms /\ o_buf' = o_buf
         /\ back.valid =>
              /\ o_buf' = [o_buf EXCEPT ![i] =
                             [d \in CoreDims(core) |-> IF d - norm.recv_d \in 0 .. NORM_LANES - 1
                                                       THEN back.chunk[d - norm.recv_d] ELSE @[d]]]
              /\ norm.recv_d # core.D - NORM_LANES =>
                   norm' = [issued EXCEPT !.recv_d = @ + NORM_LANES] /\ ms' = ms
              /\ norm.recv_d = core.D - NORM_LANES /\ i = core.TQ - 1 =>
                   norm' = [NormIdle EXCEPT !.qi = i] /\ ms' = "S_WRITE_O"
              /\ norm.recv_d = core.D - NORM_LANES /\ i # core.TQ - 1 =>
                   norm' = [NormIdle EXCEPT !.qi = i + 1] /\ ms' = ms
<1>1. norm.qi = i /\ norm.ready
  BY DEF Scaling, NormScales
<1>2. ScaleChunks
  BY <1>1 DEF Normalize, AskRecip, AwaitRecip
<1>3. Elements = CoreDims(core)
  BY DEF Elements, CoreDims
<1> QED
  BY <1>1, <1>2, <1>3 DEF ScaleChunks, IssuedFrom, NORM_STAGES

\* Chunks are issued and come back.
LEMMA Scales ==
  ASSUME core \in CoreCases, NEW i \in 0 .. core.TQ - 1, NEW e \in Nat, Scaling(i, e), RowsOut(i),
         DOMAIN o_buf = 0 .. core.TQ - 1, ms = "S_NORMALIZE", Normalize, RecipClock, NormBlockClock,
         core' = core, row_ctx' = row_ctx
  PROVE  NormInv'
<1>1. PICK C \in Nat \ {0}, w \in Nat \ {0} : C = NormChunks(core) /\ w = NORM_LANES /\ core.D = C * w
  BY ChunkShape
<1>2. PICK T \in Nat \ {0} : T = core.TQ
  BY CaseTypes
<1>3. PICK c, row, issued, back : /\ c = core /\ row = row_ctx[i]
                                  /\ issued = IssuedFrom(core, norm) /\ back = norm_pipe[3]
  OBVIOUS
<1>4. PICK recv \in Nat : recv = BackAtEdge(e)
  <2>1. (IF e < 3 THEN 0 ELSE e - 3) \in Nat
    OBVIOUS
  <2>2. PICK x \in Nat : x = IF e < 3 THEN 0 ELSE e - 3
    BY <2>1
  <2>3. x * w \in Nat
    OBVIOUS
  <2> QED
    BY <1>1, <2>2, <2>3 DEF BackAtEdge
<1>5. norm.recv_d = recv /\ ~norm.in_valid /\ e < C + 3
  BY <1>1, <1>4 DEF Scaling, NormScales
<1>6. NoRecip'
  BY <1>5, RecipMoves DEF Scaling
<1>7. norm_pipe' = [j \in 1 .. 3 |-> ChunkAt(c, row, e + 1 - j)]
  BY <1>3, ChunksOnward
<1>8. issued = NormScales(i, IssueAtEdge(c, e + 1), recv, row.l = 0, RecipOf(row), e + 1 >= NormChunks(c))
  <2>1. PICK old, dz, rc : old = norm /\ dz = (row.l = 0) /\ rc = RecipOf(row)
    OBVIOUS
  <2>2. old = NormScales(i, IssueAtEdge(c, e), recv, dz, rc, e >= NormChunks(c))
    BY <1>3, <1>4, <2>1 DEF Scaling
  <2>3. c \in CoreCases /\ issued = IssuedFrom(c, old)
    BY <1>3, <2>1
  <2>4. issued = NormScales(i, IssueAtEdge(c, e + 1), recv, dz, rc, e + 1 >= NormChunks(c))
    BY <2>2, <2>3, IssuedIs
  <2> QED
    BY <2>1, <2>4
<1>9. /\ ~back.valid => norm' = issued /\ ms' = ms /\ o_buf' = o_buf
      /\ back.valid =>
           /\ o_buf' = [o_buf EXCEPT ![i] =
                          [d \in CoreDims(c) |-> IF d - recv \in 0 .. NORM_LANES - 1
                                                 THEN back.chunk[d - recv] ELSE @[d]]]
           /\ recv # core.D - NORM_LANES => norm' = [issued EXCEPT !.recv_d = @ + NORM_LANES] /\ ms' = ms
           /\ recv = core.D - NORM_LANES /\ i = core.TQ - 1 =>
                norm' = [NormIdle EXCEPT !.qi = i] /\ ms' = "S_WRITE_O"
           /\ recv = core.D - NORM_LANES /\ i # core.TQ - 1 =>
                norm' = [NormIdle EXCEPT !.qi = i + 1] /\ ms' = ms
  BY <1>3, <1>5, ScaleEdge
<1>10. back = ChunkAt(c, row, e - 3)
  <2>1. 3 \in 1 .. 3
    OBVIOUS
  <2> QED
    BY <1>3, <2>1 DEF Scaling
<1>11. e + 1 \in Nat
  OBVIOUS
<1>12. CASE e < 3
  <2>1. ~back.valid
    <3>1. ~(0 <= e - 3)
      BY <1>12
    <3> QED
      BY <1>10, <3>1 DEF ChunkAt, Empty
  <2>2. BackAtEdge(e + 1) = recv
    <3>1. e + 1 < 3 \/ (e + 1) - 3 = 0
      BY <1>12
    <3>2. recv = 0 * w
      BY <1>1, <1>4, <1>12 DEF BackAtEdge
    <3> QED
      BY <1>1, <3>1, <3>2 DEF BackAtEdge
  <2>3. norm' = NormScales(i, IssueAtEdge(c, e + 1), BackAtEdge(e + 1), row.l = 0, RecipOf(row),
                           e + 1 >= NormChunks(c))
    BY <1>8, <1>9, <2>1, <2>2
  <2>4. o_buf' = o_buf /\ ms' = ms
    BY <1>9, <2>1
  <2>5. \A d \in CoreDims(c) : d < BackAtEdge(e + 1) => o_buf[i][d] = OutOf(c, row)[d]
    BY <1>3, <1>4, <2>2 DEF Scaling
  <2>6. e + 1 < NormChunks(c) + 3
    BY <1>1, <1>3, <1>12
  <2>7. Scaling(i, e + 1)'
    BY <1>3, <1>6, <1>7, <2>3, <2>4, <2>5, <2>6 DEF Scaling
  <2>8. RowsOut(i)'
    BY <2>4 DEF RowsOut
  <2> QED
    BY <1>11, <2>4, <2>7, <2>8 DEF NormInv
<1>13. CASE e >= 3
  <2>1. PICK j \in Nat : j = e - 3 /\ j < C /\ e = j + 3
    BY <1>5, <1>13
  <2>2. back = ChunkOut(row, j) /\ back.valid
    BY <1>1, <1>3, <1>10, <2>1 DEF ChunkAt, ChunkOut
  <2>3. recv = j * w
    BY <1>1, <1>4, <1>13, <2>1 DEF BackAtEdge
  <2>4. PICK old, new : /\ old = o_buf[i]
                        /\ new = [d \in CoreDims(c) |-> IF d - recv \in 0 .. NORM_LANES - 1
                                                        THEN back.chunk[d - recv] ELSE old[d]]
    OBVIOUS
  <2>5. o_buf' = [o_buf EXCEPT ![i] = new]
    BY <1>9, <2>2, <2>4
  <2>6. \A d \in CoreDims(c) : d < recv => old[d] = OutOf(c, row)[d]
    BY <1>3, <1>4, <2>4 DEF Scaling
  <2>7. \A d \in CoreDims(c) : d < recv + NORM_LANES => new[d] = OutOf(c, row)[d]
    <3>1. c \in CoreCases /\ recv = j * NORM_LANES
      BY <1>1, <1>3, <2>3
    <3> QED
      BY <2>2, <2>4, <2>6, <3>1, ChunkStored
  <2>8. DOMAIN o_buf' = 0 .. T - 1 /\ o_buf'[i] = new /\ \A r \in 0 .. T - 1 : r # i => o_buf'[r] = o_buf[r]
    BY <1>2, <2>5
  <2>9. RowsOut(i)'
    <3>1. ASSUME NEW r \in 0 .. i - 1 PROVE o_buf'[r] = OutOf(core, row_ctx[r])
      <4>1. r \in 0 .. T - 1 /\ r # i
        BY <1>2
      <4> QED
        BY <2>8, <4>1 DEF RowsOut
    <3> QED
      BY <3>1 DEF RowsOut
  <2>10. j * w \in Nat /\ (j + 1) * w = j * w + w /\ (j * w = C * w - w <=> j = C - 1)
    BY ChunkBounds
  <2>11. CASE j # C - 1
    <3>1. norm' = [issued EXCEPT !.recv_d = @ + NORM_LANES] /\ ms' = ms
      BY <1>1, <1>9, <2>2, <2>3, <2>10, <2>11
    <3>2. norm' = NormScales(i, IssueAtEdge(c, e + 1), recv + NORM_LANES, row.l = 0, RecipOf(row),
                             e + 1 >= NormChunks(c))
      <4>1. PICK next, at, dz, rc, over : /\ next = norm' /\ at = IssueAtEdge(c, e + 1) /\ dz = (row.l = 0)
                                          /\ rc = RecipOf(row) /\ over = (e + 1 >= NormChunks(c))
        OBVIOUS
      <4>2. issued = NormScales(i, at, recv, dz, rc, over) /\ next = [issued EXCEPT !.recv_d = @ + NORM_LANES]
        BY <1>8, <3>1, <4>1
      <4>3. next = NormScales(i, at, recv + NORM_LANES, dz, rc, over)
        BY <4>2, ReturnedFields
      <4> QED
        BY <4>1, <4>3
    <3>3. BackAtEdge(e + 1) = recv + NORM_LANES
      <4>1. ~(e + 1 < 3) /\ e + 1 - 3 = j + 1
        BY <2>1
      <4> QED
        BY <1>1, <2>3, <2>10, <4>1 DEF BackAtEdge
    <3>4. e + 1 < NormChunks(c) + 3
      BY <1>1, <1>3, <2>1, <2>11
    <3>5. \A d \in CoreDims(c) : d < BackAtEdge(e + 1) => o_buf'[i][d] = OutOf(c, row)[d]
      BY <2>7, <2>8, <3>3
    <3>6. Scaling(i, e + 1)'
      BY <1>3, <1>6, <1>7, <3>2, <3>3, <3>4, <3>5 DEF Scaling
    <3> QED
      BY <1>2, <1>11, <2>8, <2>9, <3>1, <3>6 DEF NormInv
  <2>12. CASE j = C - 1
    <3>1. recv = core.D - NORM_LANES /\ recv + NORM_LANES = c.D
      BY <1>1, <1>3, <2>3, <2>10, <2>12
    <3>2. new = OutOf(c, row)
      <4>1. \A d \in CoreDims(c) : d < recv + NORM_LANES
        BY <1>1, <1>3, <3>1 DEF CoreDims
      <4>2. \A d \in CoreDims(c) : new[d] = OutOf(c, row)[d]
        BY <2>7, <4>1
      <4>3. new = [d \in CoreDims(c) |-> new[d]] /\ OutOf(c, row) = [d \in CoreDims(c) |-> OutOf(c, row)[d]]
        BY <2>4 DEF OutOf
      <4> QED
        BY <4>2, <4>3
    <3>3. RowsOut(i + 1)'
      <4>1. ASSUME NEW r \in 0 .. (i + 1) - 1 PROVE o_buf'[r] = OutOf(core, row_ctx[r])
        <5>1. CASE r = i
          BY <1>3, <2>8, <3>2, <5>1
        <5>2. CASE r # i
          <6>1. r \in 0 .. i - 1
            BY <5>2
          <6> QED
            BY <2>9, <6>1 DEF RowsOut
        <5> QED
          BY <5>1, <5>2
      <4> QED
        BY <4>1 DEF RowsOut
    <3>4. NoChunk'
      <4>1. ASSUME NEW y \in 1 .. 3 PROVE ChunkAt(c, row, e + 1 - y) = Empty
        <5>1. ~(e + 1 - y < NormChunks(c))
          BY <1>1, <1>3, <2>1, <2>12
        <5> QED
          BY <5>1 DEF ChunkAt
      <4>2. Empty' = Empty
        BY DEF Empty
      <4> QED
        BY <1>7, <4>1, <4>2 DEF NoChunk
    <3>5. CASE i = T - 1
      <4>1. norm' = [NormIdle EXCEPT !.qi = i] /\ ms' = "S_WRITE_O"
        BY <1>2, <1>9, <2>2, <3>1, <3>5
      <4>2. norm' = NormAsks(i)
        BY <4>1, IdleFields
      <4>3. ~norm'.in_valid
        BY <4>2 DEF NormAsks
      <4>4. i + 1 = core.TQ
        BY <1>2, <3>5
      <4>5. RowsOut(core.TQ)'
        BY <3>3, <4>4 DEF RowsOut
      <4> QED
        BY <1>2, <1>6, <2>8, <3>4, <4>1, <4>3, <4>5 DEF NormInv
    <3>6. CASE i # T - 1
      <4>1. norm' = [NormIdle EXCEPT !.qi = i + 1] /\ ms' = ms
        BY <1>2, <1>9, <2>2, <3>1, <3>6
      <4>2. norm' = NormAsks(i + 1)
        BY <4>1, IdleFields
      <4>3. Asking(i + 1)'
        <5>1. NormAsks(i + 1)' = NormAsks(i + 1)
          BY DEF NormAsks
        <5> QED
          BY <1>6, <3>4, <4>2, <5>1 DEF Asking
      <4>4. i + 1 \in 0 .. core.TQ - 1
        BY <1>2, <3>6
      <4> QED
        BY <1>2, <2>8, <3>3, <4>1, <4>3, <4>4 DEF NormInv
    <3> QED
      BY <3>5, <3>6
  <2> QED
    BY <2>11, <2>12
<1> QED
  BY <1>12, <1>13

\* The normalisation goes on.
LEMMA NormGoesOn ==
  ASSUME CoreRunInv, NormInv, CoreStep, ms = "S_NORMALIZE"
  PROVE  NormInv'
<1>1. core \in CoreCases /\ cs = "C_IDLE"
  BY DEF CoreRunInv
<1>2. Normalize /\ RecipClock /\ NormBlockClock /\ core' = core /\ row_ctx' = row_ctx
  BY <1>1 DEF CoreStep, InitContexts, Compute, WriteO, RowClock
<1>3. PICK i \in 0 .. core.TQ - 1 :
        /\ RowsOut(i)
        /\ \/ Asking(i)
           \/ \E a \in 0 .. 10 : Awaiting(i, a)
           \/ \E e \in Nat : Scaling(i, e)
  BY DEF NormInv
<1>4. DOMAIN o_buf = 0 .. core.TQ - 1
  BY DEF NormInv
<1>5. ASSUME ms' = ms, o_buf' = o_buf, Scaling(i, 0)' \/ \E a \in 0 .. 10 : Awaiting(i, a)'
      PROVE  NormInv'
  <2>1. RowsOut(i)'
    BY <1>2, <1>3, <1>5 DEF RowsOut
  <2>2. 0 \in Nat
    OBVIOUS
  <2> QED
    BY <1>2, <1>4, <1>5, <2>1, <2>2 DEF NormInv
<1>6. CASE Asking(i)
  <2>1. ms' = ms /\ o_buf' = o_buf /\ (Scaling(i, 0)' \/ Awaiting(i, 0)')
    BY <1>1, <1>2, <1>6, Asks
  <2>2. 0 \in 0 .. 10
    OBVIOUS
  <2> QED
    BY <1>5, <2>1, <2>2
<1>7. CASE \E a \in 0 .. 10 : Awaiting(i, a)
  <2>1. PICK a \in 0 .. 10 : Awaiting(i, a)
    BY <1>7
  <2>2. ms' = ms /\ o_buf' = o_buf /\ (Scaling(i, 0)' \/ \E b \in 0 .. 10 : Awaiting(i, b)')
    BY <1>1, <1>2, <2>1, Awaits
  <2> QED
    BY <1>5, <2>2
<1>8. CASE \E e \in Nat : Scaling(i, e)
  <2>1. PICK e \in Nat : Scaling(i, e)
    BY <1>8
  <2> QED
    BY <1>1, <1>2, <1>3, <1>4, <2>1, Scales
<1> QED
  BY <1>3, <1>6, <1>7, <1>8

\* It is not under way.
LEMMA NormRests ==
  ASSUME CoreRunInv, NormInv, CoreStep, ms # "S_NORMALIZE"
  PROVE  NormInv'
<1>1. core \in CoreCases /\ 0 \in 0 .. core.TQ - 1
  <2>1. core \in CoreCases
    BY DEF CoreRunInv
  <2>2. PICK T \in Nat \ {0} : T = core.TQ
    BY <2>1, CaseTypes
  <2> QED
    BY <2>1, <2>2
<1>2. /\ DOMAIN o_buf = 0 .. core.TQ - 1 /\ ~norm.in_valid /\ NoRecip /\ NoChunk
  BY DEF NormInv
<1>3. RecipClock /\ NormBlockClock /\ core' = core /\ (InitContexts \/ Compute \/ WriteO)
  BY DEF CoreStep, Normalize
<1>4. o_buf' = o_buf
  BY <1>3 DEF InitContexts, Compute, WriteO
<1>5. NoRecip' /\ NoChunk'
  BY <1>2, <1>3, RecipMoves, ChunksMove DEF ChunkIssued
<1>6. CASE ms' = "S_NORMALIZE"
  <2>1. norm' = NormIdle
    BY <1>3, <1>6 DEF InitContexts, Compute, WriteO
  <2>2. Asking(0)'
    BY <1>5, <2>1 DEF Asking, NormAsks, NormIdle
  <2>3. RowsOut(0)'
    BY DEF RowsOut
  <2> QED
    BY <1>1, <1>2, <1>3, <1>4, <1>6, <2>2, <2>3 DEF NormInv
<1>7. CASE ms' # "S_NORMALIZE"
  <2>1. ms' # "S_WRITE_O" /\ norm' = norm
    BY <1>3, <1>7 DEF InitContexts, Compute, WriteO
  <2> QED
    BY <1>2, <1>3, <1>4, <1>5, <1>7, <2>1 DEF NormInv
<1> QED
  BY <1>6, <1>7

\* The normalisation keeps to this at every edge of the core.
LEMMA NormStep == CoreRunInv /\ NormInv /\ CoreStep => NormInv'
BY NormGoesOn, NormRests

\* And it begins so.
LEMMA NormStarts ==
  ASSUME CoreInit
  PROVE  NormInv
<1>1. ms = "S_INIT_CONTEXT" /\ norm = NormIdle /\ DOMAIN o_buf = 0 .. core.TQ - 1
  BY DEF CoreInit
<1>2. NoRecip /\ NoChunk
  BY DEF CoreInit, NoRecip, NoChunk, RECIP_LAT, NORM_STAGES
<1> QED
  BY <1>1, <1>2 DEF NormInv, NormIdle

\* Column sums that are bytes carry nothing.
LEMMA CarriesNothing ==
  ASSUME NEW n \in Nat, NEW s \in [1 .. n -> Byte]
  PROVE  Carried(s) = s
<1>1. s \in [1 .. n -> Int] /\ \A i \in 1 .. n : s[i] \in 0 .. 255
  <2>1. s \in Word8(n)
    BY DEF Word8
  <2> QED
    BY <2>1, ByteTypes
<1>2. PICK c : Carries(s, n, c) /\ Carried(s) = [i \in 1 .. n |-> (s[i] + c[i - 1]) % 256]
  BY <1>1, CarriedOn
<1>3. c[0] = 0 /\ \A i \in 1 .. n : c[i] = (s[i] + c[i - 1]) \div 256
  BY <1>2 DEF Carries
<1>4. 0 .. n \subseteq {i \in 0 .. n : c[i] = 0}
  <2>1. PICK S : S = {i \in 0 .. n : c[i] = 0}
    OBVIOUS
  <2>2. 0 \in S
    BY <1>3, <2>1
  <2>3. ASSUME NEW i \in 0 .. n, i < n, i \in S PROVE i + 1 \in S
    <3>1. i + 1 \in 0 .. n /\ i + 1 \in 1 .. n /\ (i + 1) - 1 = i
      BY <2>3
    <3>2. c[i + 1] = (s[i + 1] + 0) \div 256
      BY <1>3, <2>1, <2>3, <3>1
    <3>3. PICK x \in 0 .. 255 : x = s[i + 1]
      BY <1>1, <3>1
    <3>4. (x + 0) \div 256 = 0
      OBVIOUS
    <3> QED
      BY <2>1, <3>1, <3>2, <3>3, <3>4
  <2>4. 0 .. n \subseteq S
    BY <2>2, <2>3, CountingUp
  <2> QED
    BY <2>1, <2>4
<1>5. ASSUME NEW i \in 1 .. n PROVE (s[i] + c[i - 1]) % 256 = s[i]
  <2>1. i - 1 \in 0 .. n
    OBVIOUS
  <2>2. c[i - 1] = 0
    BY <1>4, <2>1
  <2>3. PICK x \in 0 .. 255 : x = s[i]
    BY <1>1
  <2>4. (x + 0) % 256 = x
    OBVIOUS
  <2> QED
    BY <2>2, <2>3, <2>4
<1>6. s = [i \in 1 .. n |-> s[i]]
  OBVIOUS
<1> QED
  BY <1>2, <1>5, <1>6

\* A column of a product with zero is zero.
LEMMA ColumnOfZeros ==
  ASSUME NEW n \in Nat, NEW a, \A i \in 1 .. n : a[i] = 0, NEW b \in [1 .. n -> Int], NEW i \in 1 .. n
  PROVE  Column(a, b, i) = 0
<1>1. PICK f : f = [j \in 0 .. i |-> 0]
  OBVIOUS
<1>2. ASSUME NEW j \in 1 .. i, NEW x \in Int PROVE x + a[j] * b[i + 1 - j] = x
  <2>1. j \in 1 .. n /\ i + 1 - j \in 1 .. n
    OBVIOUS
  <2>2. PICK z \in Int : z = b[i + 1 - j]
    BY <2>1
  <2>3. x + 0 * z = x
    OBVIOUS
  <2> QED
    BY <2>1, <2>2, <2>3
<1>3. ASSUME NEW j \in 0 .. i
      PROVE  f[j] = IF j = 0 THEN 0 ELSE f[j - 1] + a[j] * b[i + 1 - j]
  <2>1. CASE j = 0
    BY <1>1, <2>1
  <2>2. CASE j # 0
    <3>1. j \in 1 .. i /\ j - 1 \in 0 .. i
      BY <2>2
    <3>2. f[j] = 0 /\ f[j - 1] = 0 /\ 0 + a[j] * b[i + 1 - j] = 0
      BY <1>1, <1>2, <3>1
    <3> QED
      BY <2>2, <3>2
  <2> QED
    BY <2>1, <2>2
<1>4. ColumnSums(a, b, i, f)
  BY <1>1, <1>3 DEF ColumnSums
<1>5. PICK sum : sum = CHOOSE g : ColumnSums(a, b, i, g)
  OBVIOUS
<1>6. ColumnSums(a, b, i, sum)
  BY <1>4, <1>5
<1>7. 0 .. i \subseteq {j \in 0 .. i : sum[j] = 0}
  <2>1. PICK S : S = {j \in 0 .. i : sum[j] = 0}
    OBVIOUS
  <2>2. 0 \in S
    BY <1>6, <2>1 DEF ColumnSums
  <2>3. ASSUME NEW j \in 0 .. i, j < i, j \in S PROVE j + 1 \in S
    <3>1. j + 1 \in 0 .. i /\ j + 1 \in 1 .. i /\ (j + 1) - 1 = j /\ j + 1 # 0
      BY <2>3
    <3>2. sum[j + 1] = sum[j] + a[j + 1] * b[i + 1 - (j + 1)]
      BY <1>6, <3>1 DEF ColumnSums
    <3>3. sum[j] = 0
      BY <2>1, <2>3
    <3>4. 0 + a[j + 1] * b[i + 1 - (j + 1)] = 0
      BY <1>2, <3>1
    <3> QED
      BY <2>1, <3>1, <3>2, <3>3, <3>4
  <2>4. i \in Nat
    OBVIOUS
  <2>5. 0 .. i \subseteq S
    BY <2>2, <2>3, <2>4, CountingUp
  <2> QED
    BY <2>1, <2>5
<1> QED
  BY <1>5, <1>7 DEF Column

\* The columns of a product, carried.
LEMMA ProductOfColumns ==
  ASSUME NEW n \in Nat, NEW a \in [1 .. n -> Int], NEW b \in [1 .. n -> Int]
  PROVE  Times(a, b) = Carried([i \in 1 .. n |-> Column(a, b, i)])
<1>1. Len(a) = n /\ Len(b) = n
  BY LengthOf
<1> DEFINE Result(x, y) == Carried([i \in 1 .. Len(x) |-> Column(x, y, i)])
<1>2. Times(a, b) = Applied(LAMBDA x : Applied(LAMBDA y : Result(x, y), b), a)
  BY DEF Times, Column, ColumnSums
<1>3. Result(a, b) = Carried([i \in 1 .. n |-> Column(a, b, i)])
  BY <1>1
<1> HIDE DEF Result
<1>4. Applied(LAMBDA x : Applied(LAMBDA y : Result(x, y), b), a) = Result(a, b)
  BY DEF Applied, Evaluated
<1> QED
  BY <1>2, <1>3, <1>4

\* A word of zeros.
Zeros(n) == [i \in 1 .. n |-> 0]

\* The product of zero with a word is zero.
LEMMA ProductOfZero ==
  ASSUME NEW n \in Nat, NEW b \in [1 .. n -> Int]
  PROVE  Times(Zeros(n), b) = Zeros(n)
<1>1. PICK a : a = Zeros(n)
  OBVIOUS
<1>2. a \in [1 .. n -> Int] /\ a \in [1 .. n -> Byte] /\ \A i \in 1 .. n : a[i] = 0
  BY <1>1 DEF Zeros, Byte
<1>3. [i \in 1 .. n |-> Column(a, b, i)] = a
  BY <1>1, <1>2, ColumnOfZeros DEF Zeros
<1> QED
  BY <1>1, <1>2, <1>3, ProductOfColumns, CarriesNothing

\* Zero shifted is zero.
LEMMA ZeroShifted == Shl(Word(0, Wide), 8) = Zeros(10)
<1>1. Wide = 10
  BY DEF Wide
<1>2. PICK w : w = Word(0, Wide)
  OBVIOUS
<1>3. w \in Word8(10)
  <2>1. 10 \in Nat /\ 0 \in Int
    OBVIOUS
  <2> QED
    BY <1>1, <1>2, <2>1, WordBytes
<1>4. Len(w) = 10
  BY <1>3, ByteTypes
<1>5. \A i \in 1 .. 10 : w[i] = 0
  <2>1. 256^0 = 1 /\ 256^1 = 256 /\ 256^2 = 65536 /\ 256^3 = 16777216
    OBVIOUS
  <2>2. w[1] = (0 \div 256^(1 - 1)) % 256 /\ w[2] = (0 \div 256^(2 - 1)) % 256
        /\ w[3] = (0 \div 256^(3 - 1)) % 256 /\ w[4] = (0 \div 256^(4 - 1)) % 256
    BY <1>1, <1>2 DEF Word
  <2>3. 1 - 1 = 0 /\ 2 - 1 = 1 /\ 3 - 1 = 2 /\ 4 - 1 = 3
    OBVIOUS
  <2>4. w[1] = (0 \div 1) % 256 /\ w[2] = (0 \div 256) % 256
        /\ w[3] = (0 \div 65536) % 256 /\ w[4] = (0 \div 16777216) % 256
    BY <2>1, <2>2, <2>3
  <2>5. w[1] = 0 /\ w[2] = 0 /\ w[3] = 0 /\ w[4] = 0
    BY <2>4
  <2>6. \A i \in 1 .. 10 : i > 4 => w[i] = 0
    BY <1>1, <1>2 DEF Word
  <2>7. \A i \in 1 .. 10 : i = 1 \/ i = 2 \/ i = 3 \/ i = 4 \/ i > 4
    OBVIOUS
  <2> QED
    BY <2>5, <2>6, <2>7
<1> DEFINE at(k) == IF k < 1 THEN 0 ELSE IF k > 10 THEN 0 ELSE w[k]
<1>6. \A k \in Int : at(k) = 0
  <2>1. \A k \in Int : ~(k < 1) /\ ~(k > 10) => k \in 1 .. 10
    OBVIOUS
  <2> QED
    BY <1>5, <2>1
<1>7. Shl(w, 8) = [i \in 1 .. 10 |-> (at(i - 1) * 1 + ((at(i - 1 - 1) * 1) \div 256)) % 256]
  <2>1. 8 \div 8 = 1 /\ 8 % 8 = 0 /\ 2^0 = 1
    OBVIOUS
  <2> QED
    BY <1>4, <2>1 DEF Shl
<1> HIDE DEF at
<1>8. \A i \in 1 .. 10 : at(i - 1) = 0 /\ at(i - 1 - 1) = 0
  <2>1. \A i \in 1 .. 10 : i - 1 \in Int /\ i - 1 - 1 \in Int
    OBVIOUS
  <2> QED
    BY <1>6, <2>1
<1>9. (0 * 1 + ((0 * 1) \div 256)) % 256 = 0
  OBVIOUS
<1> QED
  BY <1>2, <1>7, <1>8, <1>9 DEF Zeros

\* Zero times the reciprocal rounds to zero.
LEMMA ZeroNumerator ==
  ASSUME NEW recip \in Word8(4)
  PROVE  NormalizedQ8_8(Shl(Word(0, Wide), 8), recip) = 0
<1>1. Wide = 10 /\ 10 \in Nat
  BY DEF Wide
<1>2. Sext(recip, Wide) \in [1 .. 10 -> Int]
  <2>1. 4 \in Nat
    OBVIOUS
  <2>2. Sext(recip, Wide) \in Word8(10)
    BY <1>1, <2>1, ExtendedBytes
  <2> QED
    BY <1>1, <2>2, ByteTypes
<1>3. PICK mul : mul = Times(Shl(Word(0, Wide), 8), Sext(recip, Wide))
  OBVIOUS
<1>4. mul = Zeros(10)
  BY <1>1, <1>2, <1>3, ZeroShifted, ProductOfZero
<1>5. Len(mul) = 10 /\ \A i \in 1 .. 10 : mul[i] = 0
  <2>1. mul \in [1 .. 10 -> Int] /\ \A i \in 1 .. 10 : mul[i] = 0
    BY <1>4 DEF Zeros
  <2> QED
    BY <1>1, <2>1, LengthOf
<1>6. ~Negative(mul)
  BY <1>5 DEF Negative
<1>7. PICK half : half = Zext(Halves(32768, 0), Wide)
  OBVIOUS
<1>8. half = [i \in 1 .. 10 |-> IF i = 4 THEN 128 ELSE 0]
  <2>1. PICK h : h = Halves(32768, 0)
    OBVIOUS
  <2>2. Len(h) = 4 /\ h[1] = 0 /\ h[2] = 0 /\ h[3] = 0 /\ h[4] = 128
    <3>1. h = <<0 % 256, 0 \div 256, 32768 % 256, 32768 \div 256>>
      BY <2>1 DEF Halves
    <3> QED
      BY <3>1
  <2>3. half = [i \in 1 .. 10 |-> IF i <= 4 THEN h[i] ELSE 0]
    BY <1>1, <1>7, <2>1, <2>2 DEF Zext
  <2>4. \A i \in 1 .. 10 : i = 1 \/ i = 2 \/ i = 3 \/ i = 4 \/ i > 4
    OBVIOUS
  <2>5. \A i \in 1 .. 10 : (IF i <= 4 THEN h[i] ELSE 0) = (IF i = 4 THEN 128 ELSE 0)
    BY <2>2, <2>4
  <2> QED
    BY <2>3, <2>5
<1>9. half \in [1 .. 10 -> Byte] /\ half \in Word8(10)
  <2>1. \A i \in 1 .. 10 : (IF i = 4 THEN 128 ELSE 0) \in 0 .. 255
    OBVIOUS
  <2> QED
    BY <1>8, <2>1 DEF Byte, Word8
<1>10. Plus(mul, half) = half
  <2>1. Plus(mul, half) = Carried([i \in 1 .. 10 |-> mul[i] + half[i]])
    BY <1>5 DEF Plus
  <2>2. ASSUME NEW i \in 1 .. 10 PROVE mul[i] + half[i] = half[i]
    <3>1. PICK z \in 0 .. 255 : z = half[i]
      BY <1>1, <1>9, ByteTypes
    <3>2. 0 + z = z
      OBVIOUS
    <3> QED
      BY <1>5, <3>1, <3>2
  <2>3. [i \in 1 .. 10 |-> mul[i] + half[i]] = half
    BY <1>9, <2>2
  <2> QED
    BY <1>1, <1>9, <2>1, <2>3, CarriesNothing
<1>11. PICK t : t = Sar(half, 32)
  OBVIOUS
<1>12. t \in Word8(10)
  BY <1>1, <1>9, <1>11, ShiftedBytes
<1>13. \A i \in 1 .. 4 : t[i] = 0
  <2>1. Len(half) = 10 /\ ~Negative(half)
    <3>1. Len(half) = 10
      BY <1>1, <1>9, ByteTypes
    <3> QED
      BY <1>8, <3>1 DEF Negative
  <2> DEFINE at(k) == IF k < 1 THEN 0 ELSE IF k > 10 THEN 0 ELSE half[k]
  <2>2. \A k \in Int : k >= 5 => at(k) = 0
    <3>1. \A k \in Int : k >= 5 /\ ~(k > 10) => k \in 1 .. 10 /\ k # 4
      OBVIOUS
    <3> QED
      BY <1>8, <3>1
  <2>3. t = [i \in 1 .. 10 |-> ((at(i + 4) + at(i + 4 + 1) * 256) \div 1) % 256]
    <3>1. 32 \div 8 = 4 /\ 32 % 8 = 0 /\ 2^0 = 1
      OBVIOUS
    <3> QED
      BY <1>11, <2>1, <3>1 DEF Sar
  <2> HIDE DEF at
  <2>4. \A i \in 1 .. 4 : i \in 1 .. 10 /\ at(i + 4) = 0 /\ at(i + 4 + 1) = 0
    <3>1. \A i \in 1 .. 4 : i \in 1 .. 10 /\ i + 4 \in Int /\ i + 4 >= 5 /\ i + 4 + 1 \in Int /\ i + 4 + 1 >= 5
      OBVIOUS
    <3> QED
      BY <2>2, <3>1
  <2>5. ((0 + 0 * 256) \div 1) % 256 = 0
    OBVIOUS
  <2> QED
    BY <2>3, <2>4, <2>5
<1>14. Low32(t) = 0
  <2>1. 1 \in 1 .. 4 /\ 2 \in 1 .. 4 /\ 3 \in 1 .. 4 /\ 4 \in 1 .. 4 /\ 10 >= 4
    OBVIOUS
  <2>2. t[1] = 0 /\ t[2] = 0 /\ t[3] = 0 /\ t[4] = 0
    BY <1>13, <2>1
  <2> QED
    BY <1>1, <1>12, <2>1, <2>2, LowNumber
<1>15. NormalizedQ8_8(Shl(Word(0, Wide), 8), recip) = sat_s16(Low32(t))
  BY <1>3, <1>6, <1>7, <1>10, <1>11 DEF NormalizedQ8_8
<1> QED
  BY <1>14, <1>15 DEF sat_s16

\* Shifted right, a word has no sign.
LEMMA ShiftedBelow ==
  ASSUME NEW w \in Word8(4), NEW p \in 0 .. 31, p # 0
  PROVE  Shr(w, p) \in Word8(4) /\ Shr(w, p)[4] < 128
<1>2. PICK pow : Powers(pow) /\ \A e \in 0 .. 7 : pow[e] = 2^e
  BY PowerTable
<1>6. p \in 1 .. 31 /\ p \in 0 .. 31
  OBVIOUS
<1>14. PICK t : t = Shr(w, p)
  OBVIOUS
<1>16. PICK q \in 0 .. 3, f \in 0 .. 7 : q = p \div 8 /\ f = p % 8 /\ p = 8 * q + f
  BY <1>6
<1>17. PICK r \in Bits : r = pow[f] /\ r = 2^f
  BY <1>2, PowersGrow
<1>18. PICK b : b = From(w, q)
  OBVIOUS
<1>15. PICK u : u = ShiftedBy(b, r)
  OBVIOUS
<1>19. Shr(w, p) = u
  <2>1. q = p \div 8 /\ r = 2^(p % 8)
    BY <1>16, <1>17, Zenon
  <2>2. Shr(w, p) = ShiftedBy(From(w, q), r)
    BY <2>1, ShiftRight, Zenon
  <2> QED
    BY <1>15, <1>18, <2>2
<1>27. t = ShiftedBy(b, r)
  BY <1>14, <1>15, <1>19
<1>20. \A k \in 1 .. 4 : w[k] \in 0 .. 255
  BY ByteTypes
<1>21. b[5] = 0 /\ b[4] \in 0 .. 255 /\ (q # 0 => b[4] = 0)
  <2>1. b[5] = 0 /\ b[4] = IF 4 + q <= 4 THEN w[4 + q] ELSE 0
    BY <1>18 DEF From
  <2>2. q = 0 => 4 + q = 4
    OBVIOUS
  <2>3. q # 0 => ~(4 + q <= 4)
    OBVIOUS
  <2> QED
    BY <1>20, <2>1, <2>2, <2>3
<1>22. t[4] < 128
  <2>1. t[4] = ((b[4] + b[5] * 256) \div r) % 256
    BY <1>27 DEF ShiftedBy
  <2>2. PICK y \in 0 .. 255 : y = b[4]
    BY <1>21
  <2>3. t[4] = ((y + 0 * 256) \div r) % 256
    BY <1>21, <2>1, <2>2
  <2>4. CASE q # 0
    <3>1. y = 0
      BY <1>21, <2>2, <2>4
    <3>2. r \in Nat \ {0}
      BY DEF Bits
    <3>3. (0 \div r) % 256 = 0
      BY <3>2 DEF Bits
    <3> QED
      BY <2>3, <3>1, <3>3
  <2>5. CASE q = 0
    <3>1. f \in 1 .. 7
      BY <1>6, <1>16, <2>5
    <3>2. r \in {2, 4, 8, 16, 32, 64, 128}
      <4>1. f \in {1, 2, 3, 4, 5, 6, 7}
        BY <3>1
      <4>2. /\ pow[1] = 2 /\ pow[2] = 4 /\ pow[3] = 8 /\ pow[4] = 16
            /\ pow[5] = 32 /\ pow[6] = 64 /\ pow[7] = 128
        BY <1>2 DEF Powers
      <4>3. r = pow[f]
        BY <1>17
      <4> HIDE <1>17
      <4> QED
        BY <4>1, <4>2, <4>3
    <3>3. ((y + 0 * 256) \div r) % 256 < 128
      BY <3>2
    <3> QED
      BY <2>3, <3>3
  <2> QED
    BY <2>4, <2>5
<1> QED
  BY <1>6, <1>14, <1>22, ShiftedBytes

\* The reciprocal of anything but zero and one has no sign bit.
LEMMA UnsignedReciprocal ==
  ASSUME NEW x \in Word8(4), x \notin {Word(0, 4), Word(1, 4)}
  PROVE  Zext(recip_nr_rtl_q16_16(x), Wide) = Sext(recip_nr_rtl_q16_16(x), Wide)
<1>1. ~IsZero(x)
  <2>1. ASSUME IsZero(x) PROVE x = Word(0, 4)
    <3>1. \A i \in 1 .. 4 : x[i] = 0
      BY <2>1, ByteTypes DEF IsZero
    <3>2. x = [i \in 1 .. 4 |-> x[i]]
      BY DEF Word8
    <3>3. Word(0, 4) = [i \in 1 .. 4 |-> Word(0, 4)[i]]
      BY DEF Word
    <3> QED
      BY <3>1, <3>2, <3>3, ZeroWord
  <2> QED
    BY <2>1
<1>2. PICK pow : Powers(pow) /\ \A e \in 0 .. 7 : pow[e] = 2^e
  BY PowerTable
<1>3. PICK h, e : HighestBit(x, pow, h, e)
  BY <1>1, <1>2, HighestBitExists
<1>4. PICK p : p = 8 * (h - 1) + e
  OBVIOUS
<1>5. p \in 0 .. 31 /\ clz32_cpp(x) = 31 - p /\ (x = Word(1, 4) <=> p = 0)
  BY <1>2, <1>3, <1>4, LeadingZeros
<1>6. p \in 1 .. 31
  BY <1>5
<1>7. PICK lz : lz = 31 - p
  OBVIOUS
<1>8. lz \in 0 .. 30 /\ clz32_cpp(x) = lz /\ 31 - lz = p
  BY <1>5, <1>6, <1>7
<1>9. PICK d \in Word8(4) : d = Shl(x, lz)
  BY <1>8, ShiftedBytes
<1>10. PICK i \in 1 .. 32 : i = ((d[4] \div 4) % 32) + 1
  <2>1. d[4] \in 0 .. 255
    BY ByteTypes
  <2> QED
    BY <2>1
<1>11. PICK seed \in Word8(4) : seed = Halves(RecipLut[i][1], RecipLut[i][2])
  BY SeedIsWord
<1>12. PICK r1 \in Word8(4) : r1 = RefinedRecip(d, seed)
  BY SameStep
<1>13. PICK r2 \in Word8(4) : r2 = RefinedRecip(d, r1)
  BY SameStep
<1>14. PICK t : t = Shr(r2, p)
  OBVIOUS
<1>15. recip_nr_rtl_q16_16(x) = t
  <2>1. ~(lz >= 31)
    BY <1>8
  <2> QED
    BY <1>8, <1>9, <1>10, <1>11, <1>12, <1>13, <1>14, <2>1 DEF recip_nr_rtl_q16_16
<1>16. t \in Word8(4) /\ t[4] < 128
  BY <1>6, <1>14, ShiftedBelow
<1>17. Len(t) = 4 /\ t[4] \in 0 .. 255
  <2>1. PICK w \in Word8(4) : w = t
    BY <1>16
  <2>2. Len(w) = 4 /\ \A k \in 1 .. 4 : w[k] \in 0 .. 255
    BY ByteTypes
  <2> QED
    BY <2>1, <2>2
<1>18. ~Negative(t)
  BY <1>16, <1>17 DEF Negative
<1> QED
  BY <1>15, <1>18 DEF Zext, Sext

-----------------------------------------------------------------------------
(* The denominator of a row.                                                *)

\* A number divided is no larger.
LEMMA DividedBelow ==
  ASSUME NEW n \in Nat, NEW k \in Nat \ {0}
  PROVE  n \div k \in Nat /\ n \div k <= n
<1>1. PICK y \in Nat, r \in Nat : y = n \div k /\ n = k * y + r
  <2>1. n \div k \in Nat /\ n % k \in Nat /\ n = k * (n \div k) + (n % k)
    OBVIOUS
  <2> QED
    BY <2>1
<1>2. k * y >= y
  OBVIOUS
<1> QED
  BY <1>1, <1>2

\* The weight one.
WeightOne == 32768

\* No weight is above one, and that of the largest key is one.
LEMMA WeightBelow ==
  ASSUME NEW x \in Int
  PROVE  exp2_ctx_q1_15(x) \in Nat /\ exp2_ctx_q1_15(x) <= WeightOne /\ exp2_ctx_q1_15(ToS16(0)) = WeightOne
<1>1. PICK mag \in Nat : mag = IF x > 0 THEN 0 ELSE IF x < -4096 THEN 4096 ELSE -x
  OBVIOUS
<1>2. PICK z \in Nat : z = (mag * 369 + 128) \div 256
  OBVIOUS
<1>3. PICK t : t = Exp2Table
  OBVIOUS
<1>4. \A i \in 1 .. 32 : t[i] \in Nat /\ t[i] <= WeightOne
  BY <1>3, SMT DEF Exp2Table, WeightOne
<1>5. PICK i \in 1 .. 32 : i = ((z \div 8) % 32) + 1
  <2>1. (z \div 8) % 32 \in 0 .. 31
    OBVIOUS
  <2> QED
    BY <2>1
<1>6. exp2_ctx_q1_15(x) = IF z \div 256 >= 16 THEN 0 ELSE t[i] \div 2^(z \div 256)
  BY <1>1, <1>2, <1>3, <1>5 DEF exp2_ctx_q1_15
<1>7. PICK e \in Nat : e = z \div 256
  OBVIOUS
<1>8. exp2_ctx_q1_15(x) = IF e >= 16 THEN 0 ELSE t[i] \div 2^e
  BY <1>6, <1>7
<1>11. exp2_ctx_q1_15(ToS16(0)) = WeightOne
  BY WeightOfKey DEF WeightOne
<1>9. CASE e >= 16
  <2>1. 0 \in Nat /\ 0 <= WeightOne
    BY DEF WeightOne
  <2>2. exp2_ctx_q1_15(x) = 0
    BY <1>8, <1>9, Zenon
  <2> QED
    BY <1>11, <2>1, <2>2, Zenon
<1>10. CASE ~(e >= 16)
  <2>1. e \in 0 .. 15
    BY <1>10
  <2>2. PICK k \in Nat \ {0} : k = 2^e
    BY <2>1, PowersOfTwo
  <2>3. PICK n \in Nat : n = t[i] /\ n <= WeightOne
    BY <1>4
  <2>4. PICK y \in Nat : y = n \div k /\ y <= n
    BY DividedBelow
  <2>5. exp2_ctx_q1_15(x) = y
    BY <1>8, <1>10, <2>2, <2>3, <2>4, Zenon
  <2>6. y \in Nat /\ y <= WeightOne
    BY <2>3, <2>4 DEF WeightOne
  <2> QED
    BY <1>11, <2>5, <2>6, Zenon
<1> QED
  BY <1>9, <1>10, <1>11, Zenon

\* Scaled by at most one, a sum is no larger, and nothing stays nothing.
LEMMA ScaledBelow ==
  ASSUME NEW l \in Nat, NEW e \in Nat, e <= WeightOne
  PROVE  /\ ScaledQ1_15(l, e) \in Nat /\ ScaledQ1_15(l, e) <= l /\ ScaledQ1_15(0, e) = 0
         /\ e = WeightOne => ScaledQ1_15(l, e) = l
<1>0. e <= 32768
  BY DEF WeightOne
<1>1. PICK hi \in Nat, lo \in Nat : hi = l \div 32768 /\ lo = l % 32768 /\ l = 32768 * hi + lo
  OBVIOUS
<1>2. 2^15 = 32768
  OBVIOUS
<1>3. PICK a \in Nat, b \in Nat : a = hi * e /\ b = lo * e
  OBVIOUS
<1>4. a <= hi * 32768 /\ b <= lo * 32768
  <2>1. \A x \in Nat : x * e <= x * 32768
    BY <1>0
  <2> QED
    BY <1>3, <2>1
<1>5. b \div 32768 <= lo
  BY <1>4
<1>6. ScaledQ1_15(l, e) = a + (b \div 32768)
  BY <1>1, <1>2, <1>3 DEF ScaledQ1_15
<1>7. ScaledQ1_15(0, e) = 0
  <2>1. 0 \div 32768 = 0 /\ 0 % 32768 = 0 /\ 0 * e = 0
    OBVIOUS
  <2> QED
    BY <1>2, <2>1 DEF ScaledQ1_15
<1>8. e = WeightOne => ScaledQ1_15(l, e) = l
  BY ScaledWeight DEF WeightOne
<1>9. b \div 32768 \in Nat
  OBVIOUS
<1> QED
  BY <1>1, <1>4, <1>5, <1>6, <1>7, <1>8, <1>9

\* A row of n keys weighs at most n; without any weight it has gathered nothing.
Weighed(c, row, n) ==
  /\ row \in CoreStates(c)
  /\ row.l \in Nat /\ row.l <= 65536 * n /\ row.l # 1
  /\ row.l = 0 => row.acc = [d \in CoreDims(c) |-> 0]

\* One more key.
LEMMA KeyWeighed ==
  ASSUME NEW c, NEW n \in Nat, NEW old, Weighed(c, old, n), NEW score \in Int, NEW v \in [CoreDims(c) -> Int],
         NEW next, next = KeyTaken(c, old, score, v)
  PROVE  Weighed(c, next, n + 1)
<1>1. old \in CoreStates(c) /\ old.m \in Int /\ old.acc \in [CoreDims(c) -> Int]
  BY DEF Weighed, CoreStates
<1>2. PICK l \in Nat : l = old.l /\ l <= 65536 * n /\ l # 1
  BY DEF Weighed
<1>3. PICK m \in Int : m = IF score > old.m THEN score ELSE old.m
  BY <1>1
<1>4. PICK a \in Int, b \in Int : a = ToS16(old.m - m) /\ b = ToS16(score - m)
  <2>1. old.m - m \in Int /\ score - m \in Int
    BY <1>1
  <2>2. ToS16(old.m - m) \in S16 /\ ToS16(score - m) \in S16
    BY <2>1, SameCast
  <2>3. S16 \subseteq Int
    BY DEF S16
  <2> QED
    BY <2>2, <2>3
<1>5. PICK eo \in Nat, en \in Nat : /\ eo = exp2_ctx_q1_15(a) /\ en = exp2_ctx_q1_15(b)
                                    /\ eo <= WeightOne /\ en <= WeightOne
  BY <1>4, WeightBelow, Zenon
<1>6. next = [m |-> m, l |-> ScaledQ1_15(l, eo) + 2 * en,
              acc |-> [d \in CoreDims(c) |-> ScaledQ1_15(old.acc[d], eo) + (en * v[d]) \div 128]]
  <2>1. m = IF score > old.m THEN score ELSE old.m
    BY <1>3
  <2>2. eo = exp2_ctx_q1_15(ToS16(old.m - m)) /\ en = exp2_ctx_q1_15(ToS16(score - m))
    BY <1>4, <1>5, Zenon
  <2>3. KeyTaken(c, old, score, v)
          = [m |-> m, l |-> ScaledQ1_15(old.l, eo) + 2 * en,
             acc |-> [d \in CoreDims(c) |-> ScaledQ1_15(old.acc[d], eo) + (en * v[d]) \div 128]]
    BY <2>1, <2>2, KeyTakenIs
  <2>4. l = old.l
    BY <1>2
  <2> QED
    BY <2>3, <2>4, Zenon
<1>7. PICK s \in Nat : s = ScaledQ1_15(l, eo) /\ s <= l /\ (eo = WeightOne => s = l)
  BY <1>5, ScaledBelow, Zenon
<1>8. next \in CoreStates(c)
  BY <1>1, SameKeyTaken
<1>9. next.l = s + 2 * en
  BY <1>6, <1>7
<1>10. next.l \in Nat /\ next.l <= 65536 * (n + 1)
  BY <1>2, <1>5, <1>7, <1>9 DEF WeightOne
<1>11. CASE score > old.m
  <2>1. score - m = 0
    BY <1>3, <1>11
  <2>2. en = WeightOne
    BY <1>4, <1>5, <2>1, WeightBelow, Zenon
  <2>3. next.l > 1
    BY <1>7, <1>9, <2>2 DEF WeightOne
  <2> QED
    BY <1>8, <1>10, <2>3 DEF Weighed
<1>12. CASE ~(score > old.m)
  <2>1. old.m - m = 0
    BY <1>1, <1>3, <1>12
  <2>2. eo = WeightOne
    BY <1>4, <1>5, <2>1, WeightBelow, Zenon
  <2>3. s = l
    BY <1>7, <2>2
  <2>4. next.l # 1 /\ (next.l = 0 => l = 0 /\ en = 0)
    BY <1>2, <1>9, <2>3
  <2>5. ASSUME next.l = 0 PROVE next.acc = [d \in CoreDims(c) |-> 0]
    <3>1. l = 0 /\ en = 0
      BY <2>4, <2>5
    <3>2. old.acc = [d \in CoreDims(c) |-> 0]
      BY <1>2, <3>1 DEF Weighed
    <3>3. \A d \in CoreDims(c) : ScaledQ1_15(old.acc[d], eo) = 0
      BY <1>2, <1>5, <3>2, ScaledBelow
    <3>4. \A d \in CoreDims(c) : (en * v[d]) \div 128 = 0
      <4> SUFFICES ASSUME NEW d \in CoreDims(c) PROVE (en * v[d]) \div 128 = 0
        OBVIOUS
      <4>1. PICK w \in Int : w = v[d]
        OBVIOUS
      <4>2. (0 * w) \div 128 = 0
        OBVIOUS
      <4> QED
        BY <3>1, <4>1, <4>2
    <3>5. next.acc = [d \in CoreDims(c) |-> ScaledQ1_15(old.acc[d], eo) + (en * v[d]) \div 128]
      BY <1>6
    <3> HIDE <1>6
    <3> QED
      BY <3>3, <3>4, <3>5
  <2> QED
    BY <1>8, <1>10, <2>4, <2>5 DEF Weighed
<1> QED
  BY <1>11, <1>12

\* The weight of the rows of a core.
LEMMA RowsWeighed ==
  ASSUME NEW c \in CoreCases, NEW i \in 0 .. c.SEQ_LEN - 1, NEW n \in 0 .. c.SEQ_LEN
  PROVE  Weighed(c, CoreRow(c, i)[n], n)
<1>1. PICK N \in Nat : N = c.SEQ_LEN
  BY CaseTypes
<1>2. PICK f : f = CoreRow(c, i) /\ IsCoreRow(c, i, f)
  BY CoreRowExists
<1> DEFINE Good == {k \in 0 .. N : Weighed(c, f[k], k)}
<1>3. 0 \in Good
  <2>1. f[0] = CoreFresh(c)
    BY <1>2 DEF IsCoreRow
  <2>2. CoreFresh(c) \in CoreStates(c)
    BY FreshIsState
  <2>3. Weighed(c, f[0], 0)
    BY <2>1, <2>2 DEF Weighed, CoreFresh
  <2> QED
    BY <1>1, <2>3
<1>4. ASSUME NEW k \in 0 .. N, k < N, k \in Good PROVE k + 1 \in Good
  <2>1. k + 1 \in 1 .. N /\ k + 1 \in 0 .. N /\ (k + 1) - 1 = k /\ k \in 0 .. N - 1 /\ k \in Nat
    BY <1>4
  <2>2. f[k + 1] = KeyTaken(c, f[k], CoreScore(c, i, k), c.v[k])
    BY <1>1, <1>2, <2>1 DEF IsCoreRow
  <2>3. CoreScore(c, i, k) \in Int /\ c.v[k] \in [CoreDims(c) -> Int]
    BY <1>1, <2>1, ScoreIsNumber, CaseTypes
  <2>4. Weighed(c, f[k], k)
    BY <1>4
  <2>5. Weighed(c, f[k + 1], k + 1)
    BY <2>1, <2>2, <2>3, <2>4, KeyWeighed
  <2> QED
    BY <2>1, <2>5
<1> HIDE DEF Good
<1>5. 0 .. N \subseteq Good
  BY <1>3, <1>4, CountingUp
<1>6. n \in Good
  BY <1>1, <1>5
<1> QED
  BY <1>2, <1>6 DEF Good

\* The bytes of a number.
HasBytes(n, w) ==
  /\ w[1] = (n \div 1) % 256 /\ w[2] = (n \div 256) % 256
  /\ w[3] = (n \div 65536) % 256 /\ w[4] = (n \div 16777216) % 256

\* A word of four bytes has them.
LEMMA BytesOfWord ==
  ASSUME NEW n \in Int, NEW w, w = Word(n, 4)
  PROVE  HasBytes(n, w)
<1>1. 256^0 = 1 /\ 256^1 = 256 /\ 256^2 = 65536 /\ 256^3 = 16777216
  OBVIOUS
<1>2. w[1] = (n \div 256^(1 - 1)) % 256 /\ w[2] = (n \div 256^(2 - 1)) % 256
      /\ w[3] = (n \div 256^(3 - 1)) % 256 /\ w[4] = (n \div 256^(4 - 1)) % 256
  BY DEF Word
<1>3. 1 - 1 = 0 /\ 2 - 1 = 1 /\ 3 - 1 = 2 /\ 4 - 1 = 3
  OBVIOUS
<1> QED
  BY <1>1, <1>2, <1>3 DEF HasBytes

\* A denominator is neither of the numbers that have no reciprocal.
LEMMA DenominatorWord ==
  ASSUME NEW l \in Nat, 2 <= l, l <= 256 * 65536
  PROVE  Word(l, 4) \in Word8(4) /\ Word(l, 4) \notin {Word(0, 4), Word(1, 4)}
<1>1. Word(l, 4) \in Word8(4)
  BY WordBytes
<1>2. ASSUME NEW n \in Int, n = 0 \/ n = 1, Word(l, 4) = Word(n, 4) PROVE FALSE
  <2>1. PICK w : w = Word(l, 4) /\ w = Word(n, 4)
    BY <1>2
  <2>2. /\ w[1] = (l \div 1) % 256 /\ w[2] = (l \div 256) % 256
        /\ w[3] = (l \div 65536) % 256 /\ w[4] = (l \div 16777216) % 256
    <3>1. l \in Int /\ w = Word(l, 4)
      BY <2>1
    <3>2. HasBytes(l, w)
      BY <3>1, BytesOfWord
    <3> QED
      BY <3>2 DEF HasBytes
  <2>3. /\ w[1] = (n \div 1) % 256 /\ w[2] = (n \div 256) % 256
        /\ w[3] = (n \div 65536) % 256 /\ w[4] = (n \div 16777216) % 256
    <3>1. HasBytes(n, w)
      BY <2>1, BytesOfWord
    <3> QED
      BY <3>1 DEF HasBytes
  <2>4. w[1] = n /\ w[2] = 0 /\ w[3] = 0 /\ w[4] = 0
    BY <1>2, <2>3, SMT
  <2>5. l # 65536 * 256
    BY <2>2, <2>4, SMT
  <2>6. l < 65536
    BY <2>2, <2>4, <2>5, SMT
  <2>7. l < 256
    BY <2>2, <2>4, <2>6, SMT
  <2> QED
    BY <1>2, <2>2, <2>4, <2>7, SMT
<1> QED
  BY <1>1, <1>2, SMT

-----------------------------------------------------------------------------
(* The normalisation of a row, in the core and in the C model.              *)

\* What the model normalises a row to, in the kernel's helpers.
LEMMA ModelNormalized ==
  ASSUME NEW c, NEW row, NEW n, Weighed(c, row, n),
         NEW recip, recip = recip_nr_rtl_q16_16(Word(row.l, 4))
  PROVE  Queue!Normalized("RTL_CTX_STEP_ACC24", row)
           = [d \in CoreDims(c) |-> NormalizedQ8_8(Shl(Word(row.acc[d], Wide), 8), recip)]
<1>0. PICK D : D = CoreDims(c)
  OBVIOUS
<1>1. row.l \in Int /\ row.acc \in [D -> Int] /\ DOMAIN row.acc = D /\ \A d \in D : row.acc[d] \in Int
  <2>1. row.l \in Int /\ row.acc \in [D -> Int]
    BY <1>0 DEF Weighed, CoreStates
  <2> QED
    BY <2>1
<1>2. Word(row.l, 4) \in Word8(4)
  BY <1>1, WordBytes
<1>3. recip \in Word8(4) /\ Queue!recip_nr_rtl_q16_16(Word(row.l, 4)) = recip
  BY <1>2, SameReciprocal
<1>4. Queue!recip_nr_rtl_q16_16(Queue!Word(row.l, 4)) = recip
  BY <1>3, SameNumbers
<1>5. Queue!Normalized("RTL_CTX_STEP_ACC24", row)
        = [d \in DOMAIN row.acc |->
             Queue!RoundedProduct(Queue!Shl(Queue!Word(row.acc[d], Queue!Wide), 8), recip)]
  BY <1>4 DEF Queue!Normalized, Queue!Applied, Queue!Evaluated
<1>6. \A d \in D : /\ Queue!Shl(Queue!Word(row.acc[d], Queue!Wide), 8) = Shl(Word(row.acc[d], Wide), 8)
                   /\ Shl(Word(row.acc[d], Wide), 8) \in Word8(Wide)
  BY <1>1, SameNumbers, SameShifts, NumeratorBytes
<1>7. \A d \in D : Queue!RoundedProduct(Queue!Shl(Queue!Word(row.acc[d], Queue!Wide), 8), recip)
                     = NormalizedQ8_8(Shl(Word(row.acc[d], Wide), 8), recip)
  BY <1>3, <1>6, SameRounded
<1> QED
  BY <1>0, <1>1, <1>5, <1>7

\* A row of results as the model has it.
RowAgrees(c, row) ==
  LET wanted == Queue!Normalized("RTL_CTX_STEP_ACC24", row)
  IN  /\ DOMAIN wanted = CoreDims(c)
      /\ row.l # 0 => OutOf(c, row) = wanted
      /\ row.l = 0 => \A d \in CoreDims(c) : OutOf(c, row)[d] = 32767 /\ wanted[d] = 0

\* The rows that are stored are the model's; one that no key has a weight in is the exception.
LEMMA StoredAgrees ==
  ASSUME NEW c, NEW row, NEW n \in Nat, n <= 256, Weighed(c, row, n)
  PROVE  RowAgrees(c, row)
<1>0. PICK D : D = CoreDims(c)
  OBVIOUS
<1>1. PICK recip : recip = recip_nr_rtl_q16_16(Word(row.l, 4))
  OBVIOUS
<1>2. PICK wanted : /\ wanted = Queue!Normalized("RTL_CTX_STEP_ACC24", row)
                    /\ wanted = [d \in D |-> NormalizedQ8_8(Shl(Word(row.acc[d], Wide), 8), recip)]
  BY <1>0, <1>1, ModelNormalized
<1>3. PICK l \in Nat : l = row.l /\ l <= 65536 * n /\ l # 1
  BY DEF Weighed
<1>4. Word(row.l, 4) \in Word8(4) /\ recip \in Word8(4)
  <2>1. row.l \in Int
    BY <1>3
  <2> QED
    BY <1>1, <2>1, WordBytes, SameReciprocal
<1>5. CASE row.l # 0
  <2>1. 2 <= l /\ l <= 256 * 65536
    BY <1>3, <1>5
  <2>2. Word(l, 4) \in Word8(4) /\ Word(l, 4) \notin {Word(0, 4), Word(1, 4)}
    BY <2>1, DenominatorWord
  <2>3. Zext(recip, Wide) = Sext(recip, Wide)
    BY <1>1, <1>3, <2>2, UnsignedReciprocal
  <2>4. RecipOf(row) = recip
    BY <1>1, <1>5 DEF RecipOf, fa_recip_nr_q16_16
  <2>5. ASSUME NEW acc PROVE NormalizedElement(acc, recip, FALSE) = NormalizedQ8_8(Shl(Word(acc, Wide), 8), recip)
    BY <2>3 DEF NormalizedElement, NormalizedQ8_8
  <2>6. OutOf(c, row) = [d \in D |-> NormalizedElement(row.acc[d], recip, FALSE)]
    BY <1>0, <1>5, <2>4 DEF OutOf
  <2>7. OutOf(c, row) = wanted
    BY <1>2, <2>5, <2>6
  <2>8. DOMAIN wanted = D
    BY <1>2
  <2> QED
    BY <1>0, <1>2, <1>5, <2>7, <2>8 DEF RowAgrees
<1>6. CASE row.l = 0
  <2>1. \A d \in D : row.acc[d] = 0
    BY <1>0, <1>6 DEF Weighed
  <2>2. NormalizedQ8_8(Shl(Word(0, Wide), 8), recip) = 0
    BY <1>4, ZeroNumerator
  <2>3. \A d \in D : wanted[d] = 0
    BY <1>2, <2>1, <2>2
  <2>0. PICK top : top = 32767
    OBVIOUS
  <2>4. NormalizedElement(0, RecipOf(row), TRUE) = top
    BY <2>0, SMT DEF NormalizedElement
  <2>5. \A d \in D : OutOf(c, row)[d] = top
    <3>1. OutOf(c, row) = [d \in D |-> NormalizedElement(row.acc[d], RecipOf(row), TRUE)]
      BY <1>0, <1>6 DEF OutOf
    <3> QED
      BY ONLY <2>1, <2>4, <3>1
  <2>6. DOMAIN wanted = D
    BY <1>2
  <2> QED
    BY <1>0, <1>2, <1>6, <2>0, <2>3, <2>5, <2>6 DEF RowAgrees
<1> QED
  BY <1>5, <1>6

-----------------------------------------------------------------------------
(* The rows of the core and those of the C model.                           *)

\* In one chunk or in two, the dot product is the model's.
LEMMA SameCoreDot ==
  ASSUME NEW c \in CoreCases, NEW i \in 0 .. c.SEQ_LEN - 1, NEW j \in 0 .. c.SEQ_LEN - 1
  PROVE  CoreDot(c, i, j) = ModelDotOver(c.q[i], c.k[j], CoreDims(c))
<1>1. PICK l, r : l = c.q[i] /\ r = c.k[j] /\ l \in [CoreDims(c) -> Int] /\ r \in [CoreDims(c) -> Int]
  BY CaseTypes
<1>2. PICK D : D = CoreDims(c)
  OBVIOUS
<1>3. PICK g : g = [d \in D |-> l[d] * r[d]]
  OBVIOUS
<1>4. \A d \in D : g[d] = l[d] * r[d] /\ g[d] \in Int
  BY <1>1, <1>2, <1>3
<1>5. PICK w \in Nat : w = DpLanes(c) /\ w >= 1
  BY CaseTypes
<1>6. Chunks(c) \in {1, 2} /\ c.D = Chunks(c) * w
  BY <1>5, CaseTypes
<1>7. \A S : S \subseteq D => DotOver(l, r, S) = SumOver(g, S) /\ ModelDotOver(l, r, S) = SumOver(g, S)
  BY <1>4, ProductsAdded, ModelProductsAdded
<1>8. LanesOf(c, 0) = 0 .. w - 1
  BY <1>5 DEF LanesOf
<1>9. CASE Chunks(c) = 1
  <2>1. D = 0 .. w - 1
    BY <1>2, <1>5, <1>6, <1>9 DEF CoreDims
  <2>2. CoreDot(c, i, j) = DotOver(l, r, 0 .. w - 1)
    BY <1>1, <1>8, <1>9 DEF CoreDot, ChunkDot
  <2> QED
    BY <1>1, <1>2, <1>7, <2>1, <2>2
<1>10. CASE Chunks(c) = 2
  <2>1. D = 0 .. 2 * w - 1
    BY <1>2, <1>5, <1>6, <1>10 DEF CoreDims
  <2>2. PICK A, B : A = 0 .. w - 1 /\ B = w .. 2 * w - 1
    OBVIOUS
  <2>3. LanesOf(c, 1) = B
    BY <1>5, <2>2 DEF LanesOf
  <2>4. A \cap B = {} /\ A \cup B = D
    BY <1>5, <2>1, <2>2
  <2>5. IsFiniteSet(A) /\ IsFiniteSet(B)
    BY <1>5, <2>2, FS_Interval
  <2>6. CoreDot(c, i, j) = DotOver(l, r, A) + DotOver(l, r, B)
    BY <1>1, <1>8, <1>10, <2>2, <2>3 DEF CoreDot, ChunkDot
  <2>7. DotOver(l, r, A) = SumOver(g, A) /\ DotOver(l, r, B) = SumOver(g, B)
    BY <1>7, <2>4
  <2>8. SumOver(g, D) = SumOver(g, A) + SumOver(g, B)
    BY <1>4, <2>4, <2>5, SumOfUnion
  <2>9. ModelDotOver(l, r, D) = SumOver(g, D)
    BY <1>7
  <2> QED
    BY <1>1, <1>2, <2>6, <2>7, <2>8, <2>9
<1> QED
  BY <1>6, <1>9, <1>10

\* The score is the model's.
LEMMA SameModelScore ==
  ASSUME NEW c \in CoreCases, NEW i \in 0 .. c.SEQ_LEN - 1, NEW j \in 0 .. c.SEQ_LEN - 1
  PROVE  Queue!ScoreQ8_8(c.q[i], c.k[j], c.scale) = fa_mul_sat_q8_8(ToS16(CoreDot(c, i, j) \div 256), c.scale)
<1>1. PICK q : q = c.q[i] /\ q \in [CoreDims(c) -> Int]
  BY CaseTypes
<1>2. PICK k : k = c.k[j]
  OBVIOUS
<1>3. PICK dp \in Int : dp = CoreDot(c, i, j) /\ dp = ModelDotOver(q, k, DOMAIN q)
  <2>1. DOMAIN q = CoreDims(c)
    BY <1>1
  <2> QED
    BY <1>1, <1>2, <2>1, ScoreIsNumber, SameCoreDot
<1>4. PICK n \in Int : n = dp \div 256
  OBVIOUS
<1>5. S16 \subseteq Int
  BY DEF S16
<1>6. PICK b \in Int : b = ToS16(n) /\ b = Queue!AsInt16(n)
  BY <1>5, SameCast
<1>7. PICK scale \in Int : scale = c.scale
  BY CaseTypes
<1>8. Queue!q8_8_mul_sat(b, scale) = q8_8_mul_sat(b, scale)
  BY SameScaling
<1>9. Queue!ScoreQ8_8(q, k, scale) = Queue!q8_8_mul_sat(Queue!AsInt16(ModelDotOver(q, k, DOMAIN q) \div 256), scale)
  BY DEF Queue!ScoreQ8_8, ModelDotOver
<1> QED
  BY <1>1, <1>2, <1>3, <1>4, <1>6, <1>7, <1>8, <1>9 DEF fa_mul_sat_q8_8

\* What the model is given of a case.
CoreArguments(c) ==
  [mode |-> "RTL_CTX_STEP_ACC24", q |-> c.q, k |-> c.k, v |-> c.v, n |-> c.SEQ_LEN, scale |-> c.scale,
   causal |-> c.causal, neg |-> c.neg_large]

\* With a key, a row of the model becomes what it becomes in the pipeline.
LEMMA SameCoreKey ==
  ASSUME NEW c \in CoreCases, NEW i \in 0 .. c.SEQ_LEN - 1, NEW n \in 1 .. c.SEQ_LEN, NEW r \in CoreStates(c),
         NEW x, x = CoreArguments(c)
  PROVE  /\ KeyTaken(c, r, CoreScore(c, i, n - 1), c.v[n - 1]) \in CoreStates(c)
         /\ ModelKey(x, i, r, n - 1) = KeyTaken(c, r, CoreScore(c, i, n - 1), c.v[n - 1])
<1>1. PICK N \in Nat : N = c.SEQ_LEN
  BY CaseTypes
<1>2. PICK j : j = n - 1 /\ j \in 0 .. c.SEQ_LEN - 1
  BY <1>1
<1>3. PICK v : v = c.v[j] /\ v \in [CoreDims(c) -> Int]
  BY <1>2, CaseTypes
<1>4. PICK score \in Int : score = CoreScore(c, i, j)
  BY <1>2, ScoreIsNumber
<1>5. /\ x.mode = "RTL_CTX_STEP_ACC24" /\ x.q = c.q /\ x.k = c.k /\ x.v = c.v
      /\ x.scale = c.scale /\ x.causal = c.causal /\ x.neg = c.neg_large
  BY DEF CoreArguments
<1>6. PICK scaled : scaled = Queue!ScoreQ8_8(c.q[i], c.k[j], c.scale)
  OBVIOUS
<1>7. score = IF c.causal /\ i < j THEN c.neg_large ELSE scaled
  BY <1>2, <1>4, <1>6, SameModelScore DEF CoreScore
<1>8. i < j <=> j > i
  BY <1>1, <1>2
<1>9. ModelKey(x, i, r, j) = Queue!KeyStep("RTL_CTX_STEP_ACC24", r, score, v)
  BY <1>3, <1>5, <1>6, <1>7, <1>8 DEF ModelKey
<1> QED
  BY <1>2, <1>3, <1>4, <1>9, SameKeyTaken

\* A row of the model after all keys is the row of the core.
LEMMA SameCoreRow ==
  ASSUME NEW c \in CoreCases, NEW i \in 0 .. c.SEQ_LEN - 1, NEW x, x = CoreArguments(c)
  PROVE  ModelRow(x, i) = CoreRow(c, i)[c.SEQ_LEN]
<1>1. PICK N \in Nat : N = c.SEQ_LEN /\ N >= 1
  BY CaseTypes
<1>2. PICK V : V = CoreStates(c)
  OBVIOUS
<1>3. PICK base \in V : base = CoreFresh(c)
  BY <1>2, FreshIsState
<1>4. x.n = N /\ x.q = c.q /\ x.neg = c.neg_large
  BY <1>1 DEF CoreArguments
<1>5. base = ModelFresh(x)
  <2>1. 0 \in 0 .. c.SEQ_LEN - 1
    BY <1>1
  <2>2. DOMAIN x.q[0] = CoreDims(c)
    BY <1>4, <2>1, CaseTypes
  <2> QED
    BY <1>3, <1>4, <2>2 DEF CoreFresh, ModelFresh
<1>6. PICK step : step = [at \in (1 .. N) \X V |->
                            KeyTaken(c, at[2], CoreScore(c, i, at[1] - 1), c.v[at[1] - 1])]
  OBVIOUS
<1>7. \A n \in 1 .. N, r \in V : step[<<n, r>>] = KeyTaken(c, r, CoreScore(c, i, n - 1), c.v[n - 1])
  BY <1>6
<1>8. \A n \in 1 .. N, r \in V :
        /\ KeyTaken(c, r, CoreScore(c, i, n - 1), c.v[n - 1]) \in V
        /\ ModelKey(x, i, r, n - 1) = KeyTaken(c, r, CoreScore(c, i, n - 1), c.v[n - 1])
  BY <1>1, <1>2, SameCoreKey
<1>9. StaysIn(step, 1 .. N, V) /\ \A n \in 1 .. N, r \in V : step[<<n, r>>] = ModelKey(x, i, r, n - 1)
  BY <1>7, <1>8 DEF StaysIn
<1>10. PICK it : LeftFold(it, base, step, N, V) /\ ModelRow(x, i) = it[1 .. N]
  BY <1>4, <1>5, <1>9, ModelFold
<1>11. PICK f : f = CoreRow(c, i) /\ IsCoreRow(c, i, f)
  BY CoreRowExists
<1>12. f[0] = base /\ \A n \in 1 .. N : f[n] = KeyTaken(c, f[n - 1], CoreScore(c, i, n - 1), c.v[n - 1])
  BY <1>1, <1>3, <1>11 DEF IsCoreRow
<1>13. \A n \in 1 .. N : f[n - 1] \in V => f[n] = step[<<n, f[n - 1]>>]
  BY <1>7, <1>12
<1>14. \A n \in 0 .. N : f[n] = it[1 .. n] /\ f[n] \in V
  BY <1>10, <1>12, <1>13, FoldIsLoop
<1>15. f[N] = it[1 .. N]
  BY <1>14
<1> QED
  BY <1>1, <1>10, <1>11, <1>15

\* The row the model has for a query, tile after tile.
CoreReference(c) ==
  Queue!online_rtl_like(c.q, c.k, c.v, c.SEQ_LEN, c.TQ, c.TK, c.scale, c.causal, "RTL_CTX_STEP_ACC24",
                        c.neg_large, FALSE)

\* A row of the model that has the keys of a sequence.
KeysRow(x, i, keys) == Queue!FoldLeft(LAMBDA r, j : ModelKey(x, i, r, j), ModelFresh(x), keys)

\* It is the row of the core, normalised.
LEMMA CoreReferenceIs ==
  ASSUME NEW c \in CoreCases, NEW i \in 0 .. c.SEQ_LEN - 1
  PROVE  CoreReference(c)[i] = Queue!Normalized("RTL_CTX_STEP_ACC24", CoreRow(c, i)[c.SEQ_LEN])
<1>1. PICK x : x = CoreArguments(c)
  OBVIOUS
<1>2. /\ x.mode = "RTL_CTX_STEP_ACC24" /\ x.q = c.q /\ x.k = c.k /\ x.v = c.v /\ x.n = c.SEQ_LEN
      /\ x.scale = c.scale /\ x.causal = c.causal /\ x.neg = c.neg_large
  BY <1>1 DEF CoreArguments
<1>3. PICK N \in Nat : N = c.SEQ_LEN
  BY CaseTypes
<1>4. (N \div c.TQ) * c.TQ = N /\ (N \div c.TK) * c.TK = N /\ (N \div 1) * 1 = N
  <2>1. c.TQ \in Nat \ {0} /\ c.TK \in Nat \ {0} /\ N % c.TQ = 0 /\ N % c.TK = 0
    BY <1>3, CaseTypes
  <2>2. N = (N \div c.TQ) * c.TQ /\ N = (N \div c.TK) * c.TK
    BY <2>1, WholeTiles
  <2> QED
    BY <2>2
<1> DEFINE Norm(r) == Queue!Normalized(x.mode, r)
<1>5. CoreReference(c)
        = [n \in 0 .. x.n - 1 |->
             IF n < (x.n \div c.TQ) * c.TQ
             THEN Queue!Applied(Norm, KeysRow(x, n, [m_ \in 1 .. (x.n \div c.TK) * c.TK |-> m_ - 1]))
             ELSE [d \in DOMAIN x.q[0] |-> 0]]
  BY <1>2 DEF CoreReference, Queue!online_rtl_like, KeysRow, ModelKey, ModelFresh
<1>6. \A r : Queue!Applied(Norm, r) = Norm(r)
  <2> HIDE DEF Norm
  <2> QED
    BY DEF Queue!Applied, Queue!Evaluated
<1>7. PICK keys : keys = [m_ \in 1 .. N |-> m_ - 1]
  OBVIOUS
<1>8. [m_ \in 1 .. (x.n \div c.TK) * c.TK |-> m_ - 1] = keys /\ [m_ \in 1 .. (x.n \div 1) * 1 |-> m_ - 1] = keys
  BY <1>2, <1>3, <1>4, <1>7
<1>9. CoreReference(c)[i] = Norm(KeysRow(x, i, keys))
  <2>1. i \in 0 .. x.n - 1 /\ i < (x.n \div c.TQ) * c.TQ
    BY <1>2, <1>3, <1>4
  <2> HIDE DEF Norm
  <2> QED
    BY <1>5, <1>6, <1>8, <2>1
<1>10. ModelRow(x, i) = KeysRow(x, i, keys)
  BY <1>8 DEF ModelRow, KeysRow
<1>11. ModelRow(x, i) = CoreRow(c, i)[c.SEQ_LEN]
  BY <1>1, SameCoreRow
<1> QED
  BY <1>2, <1>9, <1>10, <1>11

-----------------------------------------------------------------------------
(* The core computes what the model computes.                               *)

\* While another program goes on, the core stays as it is.
LEMMA CourseKept ==
  ASSUME NEW B, NEW n, Course(B, n), UNCHANGED coreVars
  PROVE  Course(B, n)'
<1>1. /\ core' = core /\ q_tile_idx' = q_tile_idx /\ k_tile_idx' = k_tile_idx
      /\ comp_batch_base' = comp_batch_base /\ qk_issue' = qk_issue /\ qk_slice' = qk_slice /\ qk_tag' = qk_tag
      /\ ret_first' = ret_first /\ score_issue' = score_issue /\ sm' = sm /\ sm_out' = sm_out
      /\ sm_state' = sm_state /\ batch_done_mask' = batch_done_mask /\ row_ctx' = row_ctx
  BY DEF coreVars, engineVars
<1>2. AtBatch(B)'
  BY <1>1 DEF Course, AtBatch
<1>3. SliceCourse(B, n)'
  BY <1>1 DEF Course, SliceCourse, Pipe
<1>4. EntriesAt(B, n)' /\ RowsAt(B, n)'
  BY <1>1 DEF Course, EntriesAt, RowsAt
<1>5. KnownStates(B, n)'
  BY <1>1 DEF Course, KnownStates
<1> QED
  BY <1>1, <1>2, <1>3, <1>4, <1>5 DEF Course

\* And a core at rest stays at rest,
LEMMA QuietKept ==
  ASSUME Quiet, UNCHANGED coreVars
  PROVE  Quiet'
<1>1. /\ qk_slice' = qk_slice /\ qk_tag' = qk_tag /\ ret_first' = ret_first /\ score_issue' = score_issue
      /\ sm' = sm /\ sm_out' = sm_out /\ sm_state' = sm_state
  BY DEF coreVars, engineVars
<1>2. Empty' = Empty
  BY DEF Empty
<1> QED
  BY <1>1, <1>2 DEF Quiet, Pipe

\* with its rows,
LEMMA CoreRunKept ==
  ASSUME CoreRunInv, UNCHANGED coreVars
  PROVE  CoreRunInv'
<1>1. /\ core' = core /\ ms' = ms /\ cs' = cs /\ q_tile_idx' = q_tile_idx /\ k_tile_idx' = k_tile_idx
      /\ comp_start' = comp_start /\ comp_done' = comp_done /\ row_ctx' = row_ctx
  BY DEF coreVars, engineVars
<1>2. \A K : RowsHave(core, q_tile_idx, K) => RowsHave(core, q_tile_idx, K)'
  BY <1>1 DEF RowsHave
<1>3. (IF cs = "C_DP_RUN" THEN \E B, n : IsBatch(B) /\ Course(B, n) ELSE Quiet)'
  <2>1. CASE cs = "C_DP_RUN"
    <3>1. PICK B, n : IsBatch(B) /\ Course(B, n)
      BY <2>1 DEF CoreRunInv
    <3>2. Course(B, n)'
      BY <3>1, CourseKept
    <3> QED
      BY <1>1, <2>1, <3>1, <3>2
  <2>2. CASE cs # "C_DP_RUN"
    BY <1>1, <2>2, QuietKept DEF CoreRunInv
  <2> QED
    BY <2>1, <2>2
<1>4. /\ (ms = "S_COMPUTE" /\ cs = "C_IDLE" /\ ~comp_done => RowsHave(core, q_tile_idx, k_tile_idx * core.TK))'
      /\ (cs = "C_DONE" \/ comp_done => RowsHave(core, q_tile_idx, (k_tile_idx + 1) * core.TK))'
      /\ (ms \in {"S_NORMALIZE", "S_WRITE_O"} => RowsHave(core, q_tile_idx, core.SEQ_LEN))'
  BY <1>1 DEF CoreRunInv, RowsHave
<1> QED
  BY <1>1, <1>3, <1>4 DEF CoreRunInv

\* and with its results.
LEMMA NormKept ==
  ASSUME NormInv, UNCHANGED coreVars
  PROVE  NormInv'
<1>1. /\ core' = core /\ ms' = ms /\ row_ctx' = row_ctx /\ norm' = norm /\ recip_pipe' = recip_pipe
      /\ norm_pipe' = norm_pipe /\ o_buf' = o_buf
  BY DEF coreVars, normVars
<1>2. NoRecip' = NoRecip /\ NoChunk' = NoChunk
  <2>1. Empty' = Empty
    BY DEF Empty
  <2> QED
    BY <1>1, <2>1 DEF NoRecip, NoChunk
<1>3. \A n : RowsOut(n) => RowsOut(n)'
  BY <1>1 DEF RowsOut
<1>4. \A i : Asking(i) => Asking(i)'
  BY <1>1, <1>2 DEF Asking
<1>5. \A i, a : Awaiting(i, a) => Awaiting(i, a)'
  BY <1>1, <1>2 DEF Awaiting
<1>6. \A i, e : Scaling(i, e) => Scaling(i, e)'
  BY <1>1, <1>2 DEF Scaling
<1>7. CASE ms = "S_NORMALIZE"
  <2>1. PICK i \in 0 .. core.TQ - 1 :
          RowsOut(i) /\ (Asking(i) \/ (\E a \in 0 .. 10 : Awaiting(i, a)) \/ \E e \in Nat : Scaling(i, e))
    BY <1>7 DEF NormInv
  <2>2. RowsOut(i)' /\ (Asking(i)' \/ (\E a \in 0 .. 10 : Awaiting(i, a)') \/ \E e \in Nat : Scaling(i, e)')
    BY <1>3, <1>4, <1>5, <1>6, <2>1
  <2> QED
    BY <1>1, <1>7, <2>1, <2>2 DEF NormInv
<1>8. CASE ms # "S_NORMALIZE"
  BY <1>1, <1>2, <1>3, <1>8 DEF NormInv
<1> QED
  BY <1>7, <1>8

\* What holds of the core between two edges, where it is the core that runs.
DatapathInv == program = "core" => CoreRunInv /\ NormInv

\* It holds as long as the core runs: the inductive invariant of what follows.
LEMMA DatapathInvariant == Spec => []DatapathInv
<1>1. Init => DatapathInv
  <2> SUFFICES ASSUME Init, program = "core" PROVE CoreRunInv /\ NormInv
    BY DEF DatapathInv
  <2>1. core \in CoreCases /\ CoreInit
    BY DEF Init, TheCase
  <2> QED
    BY <2>1, CoreRunStarts, NormStarts
<1>2. DatapathInv /\ [Next]_vars => DatapathInv'
  <2> SUFFICES ASSUME DatapathInv, [Next]_vars, program' = "core" PROVE CoreRunInv' /\ NormInv'
    BY DEF DatapathInv
  <2>1. CASE CoreProgram
    BY <2>1, CoreRunStep, NormStep DEF CoreProgram, DatapathInv
  <2>2. CASE UNCHANGED <<program, coreVars>>
    BY <2>2, CoreRunKept, NormKept DEF DatapathInv
  <2> QED
    BY <2>1, <2>2 DEF Next, RuntimeProgram, RunnerProgram, GemvProgram, ScoreProgram, CoreProgram, Over, vars
<1> QED
  BY <1>1, <1>2, PTL DEF Spec

\* A tile that is written holds the model's rows.
LEMMA TileAgrees ==
  ASSUME CoreRunInv, NormInv, ms = "S_WRITE_O", NEW r \in 0 .. core.TQ - 1
  PROVE  /\ o_buf[r] = OutOf(core, row_ctx[r]) /\ RowAgrees(core, row_ctx[r])
         /\ CoreReference(core)[q_tile_idx * core.TQ + r] = Queue!Normalized("RTL_CTX_STEP_ACC24", row_ctx[r])
<1>1. PICK c \in CoreCases : c = core
  BY DEF CoreRunInv
<1>2. PICK N \in Nat : N = c.SEQ_LEN /\ N <= 256 /\ c.TQ \in Nat
  BY CaseTypes
<1>3. PICK i : i = q_tile_idx * c.TQ + r
  OBVIOUS
<1>4. i \in 0 .. c.SEQ_LEN - 1
  <2>1. PICK q \in Nat : q = q_tile_idx /\ (q + 1) * c.TQ <= N
    BY <1>1, <1>2, CaseTiles DEF CoreRunInv
  <2>0. PICK Q \in Nat : Q = c.TQ
    BY <1>2
  <2>2. (q + 1) * Q = q * Q + Q /\ q * Q \in Nat
    BY ONLY q \in Nat, Q \in Nat
  <2>3. r \in Int /\ 0 <= r /\ r <= Q - 1
    BY <1>1, <2>0
  <2> QED
    BY <1>2, <1>3, <2>0, <2>1, <2>2, <2>3
<1>5. row_ctx[r] = CoreRow(c, i)[N]
  <2>1. RowsHave(c, q_tile_idx, N)
    BY <1>1, <1>2 DEF CoreRunInv
  <2>2. row_ctx = [R \in 0 .. c.TQ - 1 |-> CoreRow(c, q_tile_idx * c.TQ + R)[[S \in 0 .. c.TQ - 1 |-> N][R]]]
    BY <2>1 DEF RowsHave, RowsOf
  <2> QED
    BY <1>1, <1>3, <2>2
<1>6. o_buf[r] = OutOf(core, row_ctx[r])
  BY DEF NormInv, RowsOut
<1>7. Weighed(c, CoreRow(c, i)[N], N)
  <2>1. N \in 0 .. c.SEQ_LEN
    BY <1>2
  <2> QED
    BY <1>4, <2>1, RowsWeighed
<1>8. RowAgrees(c, row_ctx[r])
  BY <1>2, <1>5, <1>7, StoredAgrees
<1>9. CoreReference(c)[i] = Queue!Normalized("RTL_CTX_STEP_ACC24", row_ctx[r])
  BY <1>2, <1>4, <1>5, CoreReferenceIs
<1> QED
  BY <1>1, <1>3, <1>6, <1>8, <1>9

\* A tile that is written, and the rows it is to hold.
TileHolds(model) ==
  LET row(r) == model[q_tile_idx * core.TQ + r]
  IN  \A r \in 0 .. core.TQ - 1 :
        IF row_ctx[r].l # 0 THEN o_buf[r] = row(r)
        ELSE \A d \in DOMAIN row(r) : o_buf[r][d] = 32767 /\ row(r)[d] = 0

\* That is what the property says of the model's rows.
LEMMA WhatIsWritten ==
  DatapathMatchesModel = (program = "core" /\ ms = "S_WRITE_O" => TileHolds(CoreReference(core)))
<1>1. PICK model : model = Queue!online_rtl_like(core.q, core.k, core.v, core.SEQ_LEN, core.TQ, core.TK,
                                                core.scale, core.causal, "RTL_CTX_STEP_ACC24",
                                                core.neg_large, FALSE)
  OBVIOUS
<1>2. DatapathMatchesModel = (program = "core" /\ ms = "S_WRITE_O" => TileHolds(model))
  BY <1>1, SMT DEF DatapathMatchesModel, TileHolds
<1>3. CoreReference(core) = model
  BY <1>1 DEF CoreReference
<1> QED
  BY <1>2, <1>3

\* For every shape and number of tiles, one chunk or two, every scale and mask and all
\* operands: a tile the core writes holds the rows of the C model of the RTL in its mode
\* RTL_CTX_STEP_ACC24, and the largest number where no key has a weight, where the model
\* has zero. Each state that a key finds, be it forwarded from the third stage or
\* in the register of its pair, is that of its row after the key before
\* (fa_attention_core, fa_online_softmax_ctx, fa_o_normalize_block).
THEOREM DatapathComputesModel == Spec => []DatapathMatchesModel
<1>1. DatapathInv => DatapathMatchesModel
  <2> SUFFICES ASSUME DatapathInv, program = "core", ms = "S_WRITE_O" PROVE TileHolds(CoreReference(core))
    BY WhatIsWritten
  <2>1. PICK model : model = CoreReference(core)
    OBVIOUS
  <2>2. ASSUME NEW r \in 0 .. core.TQ - 1, NEW row, row = model[q_tile_idx * core.TQ + r]
        PROVE  IF row_ctx[r].l # 0 THEN o_buf[r] = row
               ELSE \A d \in DOMAIN row : o_buf[r][d] = 32767 /\ row[d] = 0
    <3>1. /\ o_buf[r] = OutOf(core, row_ctx[r]) /\ RowAgrees(core, row_ctx[r])
          /\ row = Queue!Normalized("RTL_CTX_STEP_ACC24", row_ctx[r])
      BY <2>1, <2>2, TileAgrees DEF DatapathInv
    <3> QED
      BY <3>1 DEF RowAgrees
  <2> QED
    BY <2>1, <2>2, SMT DEF TileHolds
<1> QED
  BY <1>1, DatapathInvariant, PTL
=============================================================================
